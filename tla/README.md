# Kabane in TLA+

Kabane keeps tasks, comments and their metadata in a local SQLite database on each
device and replicates them through one shared log. A loop extension drives coding agents
over those tasks. This directory holds the TLA+ models of the parts of it that run
concurrently, fail in the middle or must agree with each other, the TLC runs that check
them, and TLAPS proofs of what matters most for every value of the constants.

Paths below are relative to the repository (`packages/...`, `extensions/...`).
`PROJECT.json` maps every definition to the lines it models and lists runs, mutants,
hazards and theorems.

To check it: `tlc -config <cfg> <MC module>` for a run, `tlapm <module>` for the proofs.

## 1. The system

```
 user / agent
     |  storage write                    (packages/core/storage)
     v
 local tables --capture--> sync_oplog --push--> log Durable Object --pull--> apply --> local tables
     ^                     (namespace.ts,       (packages/worker)    (apply.ts,        of another
     |                      http-transport.ts)                        resolve.ts)      device
 loop runner (extensions/loop): claims, sessions, worktrees, landing; takes a lock per worktree
```

A *device* is one database: a laptop, or the cloud hub (itself a Durable Object with a
database). Several processes run on one device at once: the CLI, a Stop hook, the board,
the loop; on the hub, request handlers and the alarm. They share only the database and the
file system. Devices share only the log.

### Inventory

| Component | State | Operations | What is hard | What makes it correct |
|---|---|---|---|---|
| Change capture (`core/storage/oplog.ts`) | `sync_oplog`, `sync_state`, `sync_quarantine` | capture, captureDeletes, drain, ack, quarantine, resetApplied | the write and its capture are two statements; a crash between; `SQLITE_BUSY` re-running a callback | every row of an armed device is recorded as it is, deletions too, parents first |
| Push (`core/sync/namespace.ts`, `http-transport.ts`) | `last_pushed_seq`, the requests in flight | drain a batch, chunk, send, retry, bisect, quarantine, ack | two processes at once, lost answers, late requests, crashes, poison ops, outages | no op skipped, device order kept, watermark monotone, poison isolated |
| The log (`worker/src/oplog.ts`, `log.ts`, `wire.ts`) | `oplog` rows with AUTOINCREMENT `server_seq` | append (one transaction, idempotent), read a page | burned sequence values, window taken before the device's ops are withheld, restore from a bookmark | grows only at its head |
| Hub transport (`worker/src/log-transport.ts`) | none | push whole batch, pull | no retry, no quarantine, no reset check | the same as push |
| Pull (`core/sync/namespace.ts`, `http-transport.ts`) | `last_applied_seq` | pull pages, stop at a newer schema, check for a log reset, rewind | overlapping pulls, mixed builds, restored logs | nothing at or below the watermark is missed; the device catches up |
| Apply (`core/sync/apply.ts`) | the replicated tables, `last_applied_seq` | apply one page in one transaction | parents missing, pages applied twice | idempotent, atomic, no orphans |
| Resolver (`core/sync/resolve.ts`) | none: pure rules | row LWW, append-only, deletes, natural keys, short ids | equal clocks, deletes against edits, three devices | devices that applied the same ops hold the same rows |
| Storage writes (`core/storage/tasks.ts`, `comments.ts`, `projects.ts`) | the tables | create, update, delete with cascade | optimistic versions; the device's own clock | captured snapshot equals the row |
| Arming, backfill (`core/sync/device.ts`, `backfill.ts`) | `sync_state.device_id` | arm, backfill | a second backfill after an edit | every row of before arming reaches the log |
| In-process relay (`core/sync/local-relay.ts`) | an array | push, pull | - | behaves as the log |
| Loop lock (`extensions/loop/src/lock.ts`) | the lock file, the guard file | take, takeOver, release | read and unlink are two calls; a process dies at any of them | one live holder; stale locks lock nobody out |
| Loop runner and claims (`runner.ts`, `claims.ts`, `store.ts`, ...) | the run file, its claims, the inbox | start, resume, claim, settle, recover, stop, steer | crashes between writes, two commands on one run | each claim is closed once, whoever dies; red work is reopened; a stop is obeyed |
| Landing, worktrees (`land.ts`, `worktree.ts`, `gates.ts`) | git worktrees and refs | land, undo, prune | half-done landings, refused commits | only tips a green pass left are published, over nobody else's; a dead landing is undone first |
| Dispatch, human relays (`dispatch.ts`, `questions.ts`, `elicitation.ts`, `permission.ts`) | pending questions | ask, answer, withdraw | an answer against a withdrawal | humans are asked for what is waited for, and nothing is granted that nobody granted |
| Hub object (`worker/src/hub.ts`, `db-do.ts`) | its database, its alarm | request handlers, alarm | the alarm against requests | sync goes on |
| Board's copilot (`board/src/copilot-session.ts`, `copilot-log.ts`, `acp/src/copilot.ts`, `mailbox.ts`) | the turn on screen, its log, the questions in hand, the session, the mailbox | send a prompt, stop it, answer | a stopped turn runs on while the next begins; the harness is blocked on its own question | no question is lost, an earlier turn is never written to, every turn ends |
| ACP client (`acp/src/client.ts`) | a session's turn flags, its queue of updates | prompt, cancel, permission, form | updates against the turn's end; a request taken back against its answer | a request is answered once |
| SQLite adapter, migrations (`packages/sqlite`, `core/db/migrate.ts`) | the schema version | withDb, migrate | two processes opening at once | each migration once |
| Agent sessions (`core/storage/sessions.ts`) | sessions, their activities | start, add an activity, answer, end, sweep | answers against withdrawals and ends | a session waits for a human exactly while a question is unanswered |
| Local-only storage; MCP server, lint, scopes, commit linker; CLI; board; extension contract | single rows, or nothing | requests, rendering | nothing concurrent of their own | - |

Not modelled, and why: the last line of the table is reads, single-row writes on one
database, argument parsing and rendering. The hub object's alarm and migrations are in the
plan of section 7. git itself, GitHub and the coding agents are
outside this code; what the modules let them do is marked external in `PROJECT.json`.

## 2. The modules

| Module | Models | Is used by |
|---|---|---|
| `Outbox` | the promise of a push: each op gets one place in the log, ops are settled in order, the watermark covers settled ops only | `OplogPush` (`O == INSTANCE Outbox WITH ...`) |
| `OplogPush` | `pushImpl`, `HttpTransport.push`, `LogTransport.push`, the log's append | `OplogPushProofs` |
| `PullSession` | `pullImpl`, the log's read, the newer-schema stop, `checkLogReset`, `resetApplied` | `PullSessionProofs` |
| `Resolve` | the resolver's decisions, as operators | `Replication` |
| `Replication` | storage writes with capture, the log, `apply` | `ReplicationProofs` |
| `Capture` | storage writes as statements, `oplog.ts` capture, `withDb`, arming, backfill | `CaptureProofs` |
| `FileLock` | `take`, `takeOver`, release | `LandingProofs` |
| `LoopRunner` | the runner, its claims, sessions, gates, lens and fixer | `LoopRunnerProofs` |
| `Landing` | landing a branch, and the runs of one worktree around it | `LandingProofs` |
| `Relay` | permissions and forms put to humans over one session's activities | `RelayProofs` |
| `Copilot` | the board's copilot: turns, the session they share, the harness's questions | `CopilotProofs` |

The models meet in what they assume of each other. `OplogPush` shows that the log is
append-only at its head and holds each device's ops in order (`AppendsAbove`,
`DeviceOrder`). `PullSession` has the log as a set of rows to which only higher sequence
numbers are added, with gaps, and shows that the watermark misses nothing. `Replication`
has the log as a sequence that takes each device's ops in order and gives them to every
other device in pages. Both take a write and its capture as one step; `Capture` takes them
apart and says when that is right. `LoopRunner` ends a run whose work is done and checked
(`CompletedChecked`); `Landing` begins there. `Relay` is what one working session of
`LoopRunner` does while it waits for a human. `Copilot` is the other user of the ACP client,
with the human at the same board.

### OplogPush

| State | Code |
|---|---|
| `captured`, `lastPushed`, `quarantined` | `sync_oplog` (highest local seq), `sync_state.last_pushed_seq`, `sync_quarantine` |
| `poison` | the ops whose content the log refuses for ever (over its row limit, say) |
| `srv`, `auto` | the log's `server_seq` per op id, and its AUTOINCREMENT counter |
| `wire` | requests on the network; a client that has given up on one leaves it there or not |
| `pc`, `pos`, `hi`, `cuts`, `attempt`, `batch`, `full` | the locals of one `pushImpl` and of `HttpTransport.push` inside it |

`Begin`, `Drain`, `Ack` are `pushImpl`; `Send`, `Accept`, `Refuse`, `GiveUp`, `Bisect`,
`Quarantine` are the transport's loop over chunks (the recursion of the bisection is the
set `cuts`: a chunk is what lies between the position and the next cut); `Land` is a
request that commits without anybody hearing of it; `Crash` is a process that dies.
A device of `Http` uses `HttpTransport`; the others use `LogTransport`, which sends the
batch whole, once. Every read of the database and every commit is a step of its own, so
any number of processes of any devices interleave between them.

Refusal is a status that the transport counts as being about the content (400, 413, 500).
`Outage = TRUE` lets the server answer so for content it could store, which it does when
it fails for its own reasons: `respond()` in `worker/src/index.ts` makes every error a 500.

### PullSession

One reading device with several processes; the other devices only write. `log` is a set
of rows with sequence numbers, authors, schemas, and the epoch (how often the log has been
restored) they were written in. `Publish` appends above the counter, leaving up to
`MaxGap` burned values. `BeginPull` takes the cursor from the stored watermark, `Read` is
the log's answer (the window is cut to `Limit` before the reader's own rows are withheld),
`ApplyPage` and `ApplyBefore` are the transaction that applies a page, whole or up to the
first op of a newer schema. `HearHead`, `CheckLogReset`, `ResetApplied` are the end of a
push: the head it was answered, the comparison with the watermark read then, the rewind.
`Restore` rolls the log and its counter back. `Upgrade` installs a newer build; a process
that runs keeps the one it was started from. `checked`, `heardIn` and the epochs are
history that the code does not keep; no guard reads the first two.

### Resolve and Replication

`Resolve` has the tie chain (clock, ULID, version, actor, device), the two sides it compares,
the row that results and the decisions on writes and deletes for each family of tables: the
last writer's row (tasks), append-only (comments, work log), the lower id of a natural key
(links), the lower id with the last writer's content (context refs, upstream links).
`Replication` has devices that write rows of these tables, capture each write as a snapshot,
push it, and apply pages of the others' ops. A page is one transaction (`Applied` applies its
ops in turn); what is known of deletes is known for the page. A row's table, parent and
natural key come from a plan chosen in `Init`. A task carries a label (its short id) from its
device's counter; `ApplyTask` mints a new one when two tasks come to hold the same, `Reserved`
raises the counter past the page's. Every device reads one clock in milliseconds, so two may
write in the same one. A user's write and its capture are one step here (`Capture` has them
apart).

### FileLock

The lock is a file linked into place with its owner's record; a stale one is removed by a
taker that holds a guard, which is such a file too. Each call on the file system is an
action, between which others run and any process may die. `guardLost` is history: a
process has died inside the guard, from which on `lock.ts` (lines 11-12) does not promise
exclusion. Its names differ from `Landing`'s (`LockSpec`, `LockInv`, ...), because one module
proves things of both.

### Capture

One device, several processes. A storage write is a callback of `withDb`: the statement
(`Insert`, `Update`, `Delete`), then `captureRow` (`Snap`, `ReadState`, `Record`), each a
step of its own; a task's deletion reads its cascade first and is then one transaction
(`LookUnder`, `DeleteTask`). `Busy` is a statement that found the database locked for
longer than SQLite waits: the callback runs again from its start, or the caller is told.
`Arm` and `Backfill` come at any time. Of a row its version is kept, of its place what it
hangs off. `owed` and `orphaned` are history: rows whose writer died or gave up between
statement and capture, and rows recorded while their parent was in that state.

Projects' deletion (which sets a column of other rows), pulls, and rows marked private
(nothing in the storage layer marks one) are left out.

### LoopRunner

| State | Code |
|---|---|
| `state`, `ours`, `finding` | the tracker: a subtask's state and assignee; what the lens filed under the parent |
| `status`, `claims`, `lastPass` | `run.json`: the run's status, its claims with outcome and gates, the last of `gateRuns` |
| `moved` | whether the worktree's fingerprint differs from the one the last pass had |
| `session`, `gating` | `ctx.live`: what each session is doing; the queue of gate passes (`checks.ts`) |
| `pc`, `picks`, `batch`, `steps`, `exit` | where the runner is: the tick, what it claims, what it settles, what is left to do of the claim being closed |
| `asked`, `stopRequested`, `stopping` | a stop in the inbox, read, and the abort signal the gates hear |

An action is what runs between two awaits. Closing a claim is a list of such steps
(`SettleSteps`, `AbandonSteps`, `RecoverSteps`), between which anything else happens and
the runner may die; `Crash` leaves the tracker and `run.json` as they are, and `Boot` and
`Recover` go on from there. Humans, agents and the lens move the tracker at any time.

Abstracted: which ready subtasks are picked, pause and priorities are choices; so is
whether an attempt that closed nothing is the one the stall detector ends the run on.
Reading a task and writing it back at once (a release, a reopening) is one step. Gates are
configured, the target has subtasks, blocking has no cycle and no budget runs out. SIGTERM
is a stop. Harnesses die with their runner. Not modelled: two resumes at once
(`runner.ts:508-537`), the stop of a run that has not begun, written over a runner's first
save (`commands.ts:1192-1201`), and edits during a gate pass, which the pass's fingerprint,
taken after the gates, covers though they did not see them (`checks.ts:98-107`); nor a
tracker write that fails, which the code only warns of: a subtask that could not be read or
reopened after a red pass stays done (`checks.ts:156-179`), and `RedReopens` is of writes
that succeed. What a green pass commits, or fails to, is in `Landing`.

### Landing

`commits` is every commit with the base it is on and who made it; `head`, `half` and `tree`
are the worktree: the branch's tip, whether a rebase is half done, and what is there beside
that tip's content (nothing, what the last green pass was on, or something else); `remote` and `pr` are what GitHub has, `file` is `run.json`, and `at[p]` is
where the runner or a `loop land` command stands, with the run as it has it in memory (`ctx.run`,
which `save` writes whole). `Restore` .. `Recovered` are `Land.recover`, `Fetch`, `Rebase`,
`Gate`, `PutBack` are `onBase`, `Tip` .. `Create` are `toPr`, `Record` and `Report` its end.
Every git or gh command is a step, which may fail, or do its work and be reported as
failed; a process may die before or after it, in the middle of a rebase too. Around it: the
work of a run (edits, committed or not), its final gates, a stop, later runs in the same
worktree, the base moving, others pushing to the branch.

`Green` is a pass of the gates that went well: they may have changed files, and what is then
uncommitted is checkpointed (`checks.ts:25-59`). A checkpoint that git or a hook refuses is
a warning, the pass is green all the same, and its fingerprint (`Fingerprint`: tip and tree)
is of the uncommitted changes; `checked` compares fingerprints only, as `runner.ts:314-320`
does. `green` is history: the tips green passes left, a tip under refused changes included.

Abstracted: a gate pass, its checkpoint and its save are one step, so a process that dies in
it leaves the worktree as it was; the calls that take the fingerprint (`state.ts:77-89`) do
not fail. What git says when asked where the branch is (`putBackAt`, `land.ts:366-378`) may
be nothing, and the tip to put back is then kept.

Not modelled: `loop rollback` of a live run beside a landing (`commands.ts:1112-1174`);
`prune`, which lists runs before it takes the lock (`prune.ts:164-180`); a git command that
outlives the process that started it; a pull request a human closes; a session that leaves
the worktree on another branch (`onBase` refuses it).

`outdated` is history: a `loop land` command took the worktree's lock with a tip to put back
in memory that is not the one `run.json` had by then, because it reads the run before it
takes the lock (`commands.ts:684`, `702`) and another landing was in between. Three of the four
properties are about what happens until then; section 4 has what happens after.

### Relay

`session`, `asked` and `closings` are the core session, its question activities, and what
answers or withdraws each; `relay[r]` is `Permission.relay` or `Elicitation.relay` of one
request: its open questions, the answers it has read and not taken yet, what it withdraws.
`PoseField`, `Poll`, `Take`, `ReadOpen`, `WithdrawOne`, `GaveUp` are its awaits. Beside it:
surfaces that answer a question they were once offered (`Answer`), two of them the same one
if they like, of which the latest counts; notes and the sweep of idle sessions, the harness taking a request back, the claim stopped and
its session ended, the runner's death, after which the first surface to look withdraws what
is open (`Strand` ..) or a restart ends the session. An answer is a value, a decline, or
something that says nothing, which is asked again.

A write may fail though the session is open. A question not written cancels its request
(`elicitation.ts:341-351`, `permission.ts:85-91`), and `unposed` remembers whose; a
withdrawal not written is a warning and leaves its question on the queue
(`questions.ts:128-132`), and `unclosed` remembers which. Activities that cannot be read when
a relay gives up have all of its questions withdrawn, answered ones too. A poll that fails
is another poll. The write that ends the session does not fail.

`complete` and `error` are one state, "ended". Two surfaces that find one dead runner at
once, and a surface that takes a live runner for dead, are not modelled.

### Copilot

| State | Code |
|---|---|
| `turn`, `asks` | the reducer's `copilot.turn` and its queue of questions (`nav.ts`) |
| `current`, `log` | `turnRef` (0 once stopped), and per prompt its card and whose updates its transcript has (`copilot-log.ts`) |
| `session`, `instructed`, `outbox`, `waker`, `blocked` | the locals of `create`; the mailbox's queue and its one `wake`; the resolvers of `createQuestions` |
| `run[p]` | the generator of prompt p: before its context, starting, at the top of `listen`, waiting, dropped |
| `queue`, `readers`, `active`, `cancelled` | a session's update queue with its pending reads, and `TurnState` |
| `todo`, `got`, `dead` | the harness of a session: what it works on, what it was sent, whether it has gone |
| `owner`, `told`, `chosen` | the harness's requests, what each was told, and (history) those a human granted |

`Submit`, `Cancel`, `Answer` are the human's; `ContextLoaded` .. `SessionFails` are the awaits
before a prompt is dispatched; `Top`, `Hear`, `LastMail` are the generator; `Ask`, `TakeBack`,
`Emit`, `Finish`, `Dies` are the harness. All of the board is one JavaScript thread, so an event
is taken to the end of what it sets off before the next one comes: `Busy` holds the others
back while a generator can go on. Two generators may still both wait: that of a stopped turn
and that of the next.

Abstracted: an update is prose (held back until something else comes) or a step; a question
is granted or not, with neither options nor fields; a context loads or not. A harness works on
the prompts of a session one after the other, and is blocked while a request of its own is
open. Requests are numbered; `copilot.ts:294` keys permissions by tool call, so a second
permission for the same call would replace the first's resolver. Not modelled: slash commands,
which carry no instructions; the first turn's line about its mode, except that a stopped turn
is dropped there; steering and resuming, which the board does not use; closing the board, which
ends the process.

## 3. What each run checks

All instances fit in five minutes with two workers. Deadlock is not checked in any of
them: in each the system may stop because a bound is spent (ops, writes, sequence numbers,
processes, claims), a lock taken may be held for ever, and a run ends.

| Run | Instance | Properties | Distinct states |
|---|---|---|---|
| `push_race` | one laptop, two processes, 3 ops of sizes 1, 2, 1, chunk of 3, batch of 2, a poison op, one crash, late requests, outages | `NothingSkipped`, `DeviceOrder`, `ImplementsOutbox`, `TypeOK` | 1.0 million |
| `push` | a laptop and the hub, 2 ops each of which either or both may be poison, no outage, two attempts, fairness | `AppendsAbove`, `PoisonNeverBlocks` | 78 thousand |
| `pull` | two processes, 3 sequence values, gaps, two schemas and an upgrade, pages of 2, fairness | `NothingMissed`, `CaughtUp`, `TypeOK` | 151 thousand |
| `pull_back` | two processes, 2 sequence values, one schema, pages of 1, one restore, fairness | `BackWithinLog` | 46 thousand |
| `replication_kept` | two devices, pages of 2, applied twice; a task and a comment of it (4 writes), two tasks (3), two links of one key (4) or two refs of one key (3) | `KeptRowsAgree`, `LatestEditSurvives`, `ConstraintsHold`, `RereadChangesNothing` | 609 thousand |
| `capture` | a task from before arming and two rows that hang off it, two processes, 3 writes, one locked statement, one death | `LatestCaptured`, `DeletedCaptured`, `ParentsCapturedFirst` | 3.0 million |
| `file_lock` | a lock that a dead process may have left, three processes of which one may die, two rounds | `MutualExclusion`, `OnlyDeadLocksRemoved`, `StaleNeverBlocks`, `LockTypeOK` | 236 thousand |
| `loop` | two subtasks, independent or one waiting for the other, or one and a lens; 2 to 4 claims; a death, a retry or a human's move | `HeldBySomeone`, `NoneStranded`, `CompletedChecked`, `EachPhaseOnce`, `StartsAfterVerdicts`, `RedReopens` | 1.5 million |
| `loop_live` | the smaller of those plans, two claims, fairness | `StopEnds`, `EndedIsSettled` | 83 thousand |
| `landing` | a run, and two later runs or landings by hand or one of each; two `loop land` commands, 3 commits, a base that moves once, two deaths | `PublishedGreen`, `LeftRecoverable`, `WorksWhereItLeft`, `OnlyOwnOverwritten` | 2.8 million |
| `relay` | a permission and a form of two fields open at once, 3 answers of which one says nothing and two may be to one question, a write that fails, a death | `QueueIsWaitedFor`, `ToldAsAnswered` | 4.8 million |
| `copilot` | three prompts of which two may be stopped, two questions, one update besides the stops, one harness that dies, fairness | `AnsweredOrHeld`, `OwnUntilCancelled`, `InstructionsArrive`, `EarlierUntouched`, `TurnEnds` | 670 thousand |

Every module that models code and keeps state has a type invariant, `TypeOK` (`LockTypeOK` of
`FileLock`), and it is proved of every one. The runs of `OplogPush`, `PullSession` and
`FileLock` check it; with `TypeOK` added to the invariants of the other configurations TLC
finds it true there too.

`MC_Replication_tie.cfg` and `MC_Replication_labels.cfg` are not runs: they are the instances
of section 4 in which TLC refutes `KeptRowsAgree` and `LabelsAgree`.

What they show:

- **push.** Whatever processes overlap, whatever lands late and wherever one dies, the
  watermark passes no op that is neither in the log nor recorded in the quarantine; an op
  stands behind a later one of its device only if it had been given up on; no place in the
  log changes and none appears below another, with a second device's transport beside it.
  While a refusal is only ever about content, a poison op holds up nothing on the laptop,
  whether a good op or another poison one is behind it, in its chunk or in the next.
- **pull.** While the log loses nothing, no row at or below the watermark is missing, with
  pages cut short by a newer schema and two builds running side by side, and every row
  arrives that the installed build can store. After a restore the watermark may stay above
  the log for a while (see section 4), but a device that goes on pushing brings it back for
  good.
- **replication.** Two devices agree on every row that was not deleted; a task's last edit
  survives every earlier delete; no page ever fails on a missing parent, a second row of a
  natural key or a label that another task holds; a page applied again changes no row that
  is kept, its label aside.
- **capture.** Statement and capture need no transaction as long as the writer lives:
  overlapping writers each record the row as it is by then, arming and backfill may fall
  anywhere between, and what is left unrecorded is only what a writer died or gave up on,
  until the row is written again or backfilled.
- **lock.** At most one live process holds it, a live owner's lock is removed by nobody
  else, and a lock or guard of the dead stops nobody.
- **loop.** Whatever died with an earlier runner, the next one closes its claims; no subtask
  is held twice, none is left in progress by nobody but where the runner died between taking
  it and writing its claim down (`lost`); a red pass reopens its subtask before its claim
  ends and before anything that waits for it starts; a run completes only on a tree its
  last green pass covered. A stop ends the run wherever it waits.
- **landing.** Nothing is pushed but tips a green pass left: what the gates passed on,
  unless git refused to commit it (section 4). Nothing of others' is
  overwritten, and whatever death or failure leaves the branch off the run's work,
  `run.json` knows where to put it back, which happens before anything works there.
- **relay.** Surfaces offer exactly the questions some relay waits for while its runner
  lives, and those it could not withdraw; the harness is told only what humans answered, or that nobody did.
- **copilot.** Whatever becomes of a turn, a request of the harness is granted only if a
  human granted it, and one not answered can still be answered: a stop, a withdrawal and a
  death each let go of what they must. A turn that was stopped or followed is never written
  to again. The instructions are taken as given only once a prompt that carried them was
  sent. Until a first turn is stopped a transcript has its own turn's updates only, what the
  harness waits for is on screen, and every turn ends: the question wakes the turn that the
  harness's silence would keep asleep. Section 4 says what a stop does to the next turn.

### The bounds

Each bound is a constant commented `BOUND` in its module; the limits of the code
(`Limit`, `BatchBytes`, `MaxAttempts`, `MaxBatches`, `ATTEMPTS`, `CONC`, `FIELDS`) are
constants too, made small enough to be met.

- *Push.* Two processes and three ops are enough for overlapping batches that end at
  different ops, for a refused chunk with an accepted one before it and ops behind it, and
  for a request that lands after two later acknowledgements. `Limit = 2` with three ops
  leaves a third for another process's batch; the second op fills two thirds of a chunk,
  so that {1,2} and {2,3} are both exactly full. In `push` either of two ops may be poison, so
  that one has a good op, or another poison one, behind it, in its own chunk or the next.
  `MaxAttempts` is 2 there, so that retries happen; in `push_race` it is 1, and a retry of an op is another process's push of
  it. Symmetry of the processes is used in `push_race` only, which checks no liveness. The
  proofs drop all these bounds.
- *Pull.* Three sequence values with a gap of one give every window of 2: full of the
  device's own ops, split by a gap, with a newer op first, in the middle or last. Two
  processes on two builds need one upgrade.
- *Replication.* Four writes are create, edit on either side, delete, in any order; two
  clock values give earlier, equal and later. Two rows of one key, or of one label, are one
  of each device; links are written once, so one clock value does, and refs get a third so
  that three writes need not tie. `labels` stops the re-minting of section 4, which has no
  end. A third device is in `MC_Replication_tie.cfg`.
- *Capture.* Three writes are a row, an edit that overlaps another's, and a deletion;
  arming and the backfill have no bound. One locked statement and one death each meet every
  place in a callback.
- *Lock.* An owner that died before (`Gone`), a taker that may die, in the guard too
  (`Mortal`), and two more: enough for a guard to be cleared and another's to be met in its
  place. Two rounds of each loop,
  where the code has 50: the last round and a round before it are what the code tells apart.
- *Loop.* The bounds are part of the plan a run starts on (`Plan`), so that a death, a
  retry, a human and a lens need not multiply: two subtasks in two slots with a death or a
  third claim, a blocked one with a death or a human's move, one subtask and a lens with
  four claims (implement, lens, fix, and one again) and a death.
- *Landing.* Three commits are the run's first, and two that are more of its work, a
  checkpoint, a rebase or a push by others. Two deaths meet every call of a landing and then every call of what
  undoes it. Two commands, interchangeable, so that one may read the run while the other
  lands. The proofs drop all these bounds.
- *Relay.* A request with one question and one with two, so that one is withdrawn or
  answered while others wait; three answers with one that says nothing complete the form.
  Two answers to one question are two surfaces at once. One failing write meets every
  question and every withdrawal of a live runner; notes and the dead runner's withdrawals
  that fail have no bound.
- *Copilot.* Three prompts are a stopped turn, the one it disturbs, and one after both; two
  stops take them at any two places. Two questions are one in hand and one behind it, or one
  of each of two turns.

### Fairness

- *Push* (`OplogPush!FairSpec`). On a device with `HttpTransport` a push starts again and
  again (every Stop hook, the CLI) and a process that lives runs on: weak fairness of its
  steps. A request sent again and again is answered at last, on the last attempt too:
  strong fairness of the answers, which says the network does not fail *every* push. The
  processes that die are the `MaxCrashes` of the bound. Nothing is assumed of the hub.
- *Pull* (`PullSession!FairSpec`). The same: pulls are restarted and not every one is
  lost, so strong fairness of their steps against `Stop`; a push that was acknowledged
  makes its check and not every one dies before its rewind. That a device goes on pushing
  depends on its user, so it is not fairness but the premise of `BackWithinLog`
  (`PushesGoOn`). Nobody is obliged to upgrade, so `CaughtUp` leaves out what needs a
  newer build.
- *Lock* (`FileLock!LockFairSpec`). A live process goes on with its take: no call waits for
  another process. Nobody has to begin, release or die.
- *Loop* (`LoopRunner!FairSpec`). The runner's own steps go on (an await on a database or
  a timer returns), a stop in the inbox is heard by the timer that watches for it, and a
  gate ends once it is killed. A session or a gate may take for ever by itself, and nobody
  has to stop, die or move anything.

- *Copilot* (`Copilot!FairSpec`). Promises settle; a context loads and a session opens, or
  fails; a harness that is not blocked ends its turn; a human answers what is on screen.
  Nobody has to send, stop or ask anything.

`Replication`, `Capture`, `Landing` and `Relay` state safety only.

## 4. Where the code and its documents differ

What follows was met while modelling; the modules contain it, and no run claims the
opposite. Where a formula states the opposite (named in brackets) TLC refutes it.

- `resolve.ts:22` says version and actor carry the tie chain beyond two devices. With both
  equal the *holder's* device id stands for the writer's (`resolve.ts:339`), and three devices
  that meet the same two edits can keep different ones (`KeptRowsAgree` under
  `MC_Replication_tie.cfg`).
- With natural keys two devices suffice. The merged row is compared under the surviving id,
  so of two writes of one ref in the same millisecond the second beats the first on the
  device that wrote it and loses on the one that holds the lower id (`resolve.ts:405-414`).
  `KeptRowsAgree` leaves out refs with such ties (`Untied`).
- `apply.ts:333-334` says the label minted for the loser of a contested one converges. It is
  minted for every op that carries the contested label, so a task made and edited offline is
  relabelled once per op where the ops are received and once, by the other task's op, where
  they were made; the rename is not captured and nothing reconciles the two labels (`LabelsAgree` under
  `MC_Replication_labels.cfg`). For the same reason a page that is applied again mints again,
  where `apply.ts:630-631` says that it writes nothing new.
- `copilot-session.ts:80-81` says a stopped turn's late updates are not written over the next
  turn's log, and `copilot-log.ts:214` that every update belongs to the turn in flight. The
  board drops the stopped turn's *stream*, but the turns of a session share one queue: the
  stop and the updates of a stopped turn are read by the next one, which ends on them while
  its agent still works (`UpdatesOwn`). A read that the stopped turn left pending takes the
  next turn's first update, and its cleanup (`client.ts:804-808`) resets the flags of the turn
  that runs, which can then not be stopped at the agent.
- `client.ts:203-204` says a cancel before dispatch must not reach the agent. It marks the
  session instead, and what it meets is the next prompt dispatched: a turn stopped while its
  context loads, after an earlier one, swallows the turn that follows it, which ends
  completed and was never sent (`client.ts:768-772`, `814-817`).
- `http-transport.ts:34` says only content refusals are grounds for giving up on an op.
  Status 500 counts as one, and the log answers 500 for every failure of its own
  (`worker/src/index.ts:32`): an outage that outlasts the retries quarantines good ops.
- `http-transport.ts:403` says a head below the watermark means lost rows. The head was
  heard before the watermark is read; another process's pull in between makes it so with
  nothing lost, and the device reads the whole log again (`RewoundOnlyAfterLoss`).
- `docs/deploy.md:658` says the next push from any device sees a restored log. Others may
  have refilled it past the watermark first, or a pull in flight moves the rewound
  watermark forward again: the rows in the lost places are never read (`RewoundByNextPush`).
- `CODING_PRINCIPLE.md:32` says devices that applied the same ops hold the same rows. What
  is known of a delete lasts for a page and leaves out the device's own, so an edit older
  than a delete is revived on the device that deleted and removed on the other
  (`RowsAgree`).
- `oplog.ts:4-6` says every storage write ends with a capture call. A writer that dies or gives up
  between its two statements leaves a row nobody pushes until it is written or backfilled;
  a callback run again by `withDb` inserts a second row under another id, and the first is
  never captured; a deletion run again finds no row and captures nothing. A comment
  recorded before its task's capture is dropped by the devices that read it first.
- `store.ts:160-164` says `pushed` is where a landing last left the remote branch. A death
  between the push and the save makes it an older commit, and the next landing is refused
  by its own lease (`PushedRemembered`).
- `land.ts:6-7` says of a completed run that its gates were green, `runner.ts:310-313` that a
  pass has checkpointed the result. A checkpoint that git or a hook refuses is only a warning
  (`checks.ts:33-42`), the pass is recorded as green with the fingerprint of the uncommitted
  changes, and the landing pushes the branch's tip (`land.ts:294`): an agent's own commit
  that no gate ran on by itself, without the changes the gates passed on. `PublishedGreen`
  is of such tips too; what it rules out is a tip that no green pass left.
- `runner.ts:4-7` says every state change is written to `run.json` before the next step, so
  that a restart releases what a dead runner held. One that died between taking a subtask
  and writing its claim leaves the subtask in progress for nobody (`lost` in `LoopRunner`).
- `commands.ts:698-699` says the worktree is a landing's alone until it is over. The run it
  lands was read before (`commands.ts:684`): when another landing held the worktree from then
  until the lock was taken, and died or failed half-way, the second puts back an older tip or
  none and then overwrites `run.json`, so the work of the run may be out of reach and what is
  pushed no green pass left (`LeftRecoverable` and `PublishedGreen` without `~outdated`).
- `commands.ts:797-806` says a dead runner's questions close on every surface. A restart
  that comes before any surface looks ends the session with its questions unclosed, and a
  task's detail, which reads ended sessions too, goes on showing them; so does a withdrawal
  that loses to the session's end (`questions.ts:107`). A withdrawal that fails on a session
  still open leaves its question on the queue of every surface (`questions.ts:128-132`), where
  `questions.ts:103-105` says none keeps asking. An answer written after the relay's
  last read is reported as answered and nobody reads it.

Further: a question asked after its turn was stopped is dropped with the mailbox
(`copilot.ts:361`), and the harness waits on it until the next stop; two turns that start
before the first session is open open two, one of which nobody closes (`copilot.ts:443-453`);
a session whose harness has gone is never replaced, and every later prompt fails; an update stamps the
device's own clock, so an edit on a device whose clock is behind loses everywhere else
(`tasks.ts:417-423`); `version` columns may differ between devices whose content agrees;
an edit of a comment is captured and pushed, and skipped by append-only resolution; a page
with deletes is idempotent only for rows that are kept, and once the surviving one of two links is
deleted it brings the other back; `backfill` and the delete cascade
(`oplog.ts:221-230`) leave out upstream links; one op the log cannot store stops the hub,
whose transport does not quarantine; the hub never checks for a log reset. Without the
precondition `~guardLost`, TLC finds two holders of the lock after a process dies inside
the guard, as `lock.ts:11-12` says may happen.

## 5. What is proved

The proofs are for any devices, processes, ops, sizes and limits. They rest on the named
assumptions (`OplogPushAssumption`, `PullSessionAssumption`, `ReplicationAssumption`,
`FileLockAssumption`, `LandingAssumption`, `RelayAssumption`, `CaptureAssumption`,
`LoopAssumption`, `CopilotAssumption`), which say that bounds and limits are naturals, nonzero where the code's
are, and that constants that must differ do; and, of `Relay`, `Capture`, `LoopRunner` and
`Replication`, that the requests of a session, the rows and the subtasks of a plan are
finitely many. `Replication` assumes of the rows that a parent is a task of a lower id, that
subtasks nest one level and that only links and refs have natural keys; the second is what
`task.ts:212` says and no code refuses to break. No finiteness of the processes or devices is
assumed.

**OplogPushProofs.** `Inv` is the type invariant with `NothingSkipped`, `DeviceOrder` and
what they need to be inductive:

- `InOrder`: an op before one that is in the log is settled (in the log or quarantined).
  `DeviceOrder` alone does not survive an append of a range that begins behind an op
  nobody has dealt with.
- `SessionInv(s)`: everything before a session's position is settled, its batch and its
  cuts are within what was captured. So an acknowledgement through `hi` passes only
  settled ops.
- `RequestInv(r)`: everything before a request's range is settled, *whoever still waits for
  it*: this is what makes a late `Land` harmless.
- `PlacesCounted`: no place is above the counter, so a new one is above them all.

That no step unsettles an op (`KeepsSettled`) carries the session and request parts over
every other actor's step (`SessionKept`, `RequestKept`); `QuietStep` deals with the
actions that touch neither the device's tables nor the log; `AppendKeeps` is the one lemma
about appends and serves `Accept` and `Land`. Theorems: `TypeCorrect`, `PushSkipsNothing`,
`LogKeepsDeviceOrder`, `LogGrowsAtItsHead`, `WatermarkMonotone`.

`PushImplementsOutbox`, the refinement: the initial states are the outbox's, and a capture is a `Record`, an accepted or late chunk a `Publish`, a quarantine a `GiveUpOn`, an
acknowledgement an `Acknowledge` (or a stutter); every other step is a stutter. `Inv` gives
the guards.

**PullSessionProofs.** While `epoch = 0`, `Whole`: the log's rows are at or below its
counter, everything foreign at or below the watermark is stored, and for each process
(`PullInv`) the same holds of its cursor, and its page leaves out nothing foreign between
the cursor and the page's end. `PageIsWhole` shows that a window cut to
`Limit` leaves nothing out below its end (it needs the log finite, hence `IsFiniteSet(log)`
in `Inv`). Theorems: `TypeCorrect`, `NothingMissedUntilLoss`, `PullMissesNothing` (with no
restore), `WatermarkBackOnlyToRewind`. The condition on the epoch is needed: section 4 says
what a restore does.

**ReplicationProofs**, of the resolver. The tie chain is asymmetric, transitive and total
between sides of different devices; two devices that hold their own writes pick the same
winner (`TwoWritersPickOneWinner`); an op delivered again to a device that holds it does not
beat itself, unless it comes from a device ordered before the holder (`RedeliveryStands`,
whose exception is what `MC_Replication_tie.cfg` turns into a disagreement); a version is
never lowered; two devices that each wrote a row of one natural key keep the same one, with
the same content (`TwoKeyedRowsBecomeOne`).

**ReplicationProofs**, of the devices. `IInv` is the type invariant with:

- `Ops`: an op in a queue or in the log is of a time that has passed and of a row there was,
  a delete of a row that was deleted.
- `ParentsFirst`: a write of a row comes after one of its parent, in the log or in the queue
  that will follow it there.
- `Fit(d, n, held, top)`, of what `d` holds and has applied: `Sound` (the constraints, and no
  label above the counter), every row held was written by someone `d` can have heard of
  (`Recorded`), and `Survives`: of what `d` knows (`Knows`: the log up to its watermark and
  its own ops), no task has fallen behind a write that `Lasting` says nothing deletes.

`ParentsFirst` is why a lasting write finds its parent: the parent's own write is known by
then and lasts too (`ParentLasts`, `ParentThere`). A page is a recursive function over its
ops. It has a value (`RunExists`) and what it leaves is `Fit` again, up to its last op
(`PageApplied`); both are shown by the least op at which they would fail (`Least`), for
which one op is enough: `ApplyWriteWrites` has the four tables, `ApplyDeleteRemoves` the
deletes. A write changes a row in few ways (`PutSound`, `ReplaceSound`, `RenameSound`, `WithoutSound`),
each of which keeps `Sound`; within the page labels may come from the page too, which is why
`Sound` has them as a parameter until `Reserved` raises the counter. What is
known of deletes is about deletes in the log, so a lasting write is never skipped for one.
A page applied again or late starts from a later state and ends in a `Fit` one all the same:
`Latest` is the greater of the watermark and the page's end. `CapturesKeep` carries all this
over a user's write, `ExchangeKept` over time and pages, `PushKeeps` over the log.
Theorems: `TypeCorrect`, `DatabaseConstraints`, `LastEdit`.

**LandingProofs**, of the lock. `LockInv` is the type invariant and, until a process dies in
the guard, `Unbroken`: the file names whoever holds it (`LockHeld`); a process in the guard has its
record there (`GuardHeld`), and a record there names a live process in the guard
(`GuardAlive`), so a guard whose holder was judged gone is no longer there and no live
process is about to clear one (`HolderRead`, `ClearsNone`); the lock a taker saw names a
dead process (`StaleIsGone`), and between its check and its unlink the file is still that
record (`RemovesStale`). The last is what makes read-then-unlink safe:
only a live process in the guard removes a dead one's lock, and the guard admits one.
Theorems: `LockTypeCorrect`, `LockExcludes`, `LiveLocksStay`.

**LandingProofs**, of the landing. `IInv` is the type invariant, `Turns`, and, until `outdated`, `Kept`:

- `Turns`: at most one process is between taking the worktree's lock and releasing it
  (`OneActive`), the runner on a running run, a command on a completed one, the worktree's
  latest. It is proved of the guards alone and holds of outdated commands too.
- `InStep`: whoever is at work has in memory the tip to put back that `run.json` has.
- `Recoverable`: that tip, or with none the branch's own, is what the run's work left or
  what a landing published; with none no rebase is half done.
- `Landable`: from the final gates on, that tip or the branch's own is one a green pass left.
- `PlaceInv(p)`: for each place of a landing, which of `head`, the tip rebased from, the tip
  pushed and the green passes' tips agree there, so that a death at that place leaves
  `Recoverable` and the push is of a tip a green pass left.

An action that changes neither the worktree nor `run.json` keeps the rest (`TypedAside`,
`TurnsAside`, `KeptAside`); of those that do, only the process that holds the lock can take one,
and `OneActive` makes every other process's `PlaceInv` empty. Theorems: `TypeCorrect`,
`OnlyGreenPublished`, `AlwaysRecoverable`, `NeverWorksHalfLanded`, `OneAtATime`,
`OthersNeverOverwritten`.

**RelayProofs.** `IInv` is the type invariant with, of the session, `Recounted` (one that
waits for nobody has no unanswered question), `AllRelayed` (an unanswered question is among
those its relay has open) and `Dead` (nothing of a dead runner is left); and of each relay:

- `Posed`: every field so far was given a value or is asked by a question that is open;
  `AllRelayed` and `Posed` are what the queue is compared with.
- `ReadAsWritten`: what it has read of a question is what is written there, and no question
  it still waits for was withdrawn. An answer may come at any time after the read: it does
  not unwrite the one that was read (`Grows`).
- `GivingUp`, `ToldRight`: a relay gives up for the reason it tells, and is over only when
  it left no question open but those whose withdrawal was not written.

`CloseSteps` and `PoseSteps` say what one closing and one new question do to the tables and
to the session's status; every action is made of those. `RelayStepKeeps` carries the
invariant of the other relays over one relay's step, `AsideKeeps` over humans, sweeps and
ends. The answer found is the latest of a question (`FoundAsWritten`, which needs that a
nonempty finite set has a maximum, `MaxAmong`). Theorems: `TypeCorrect`, `QueueExact`,
`ToldOnlyWhatHumansSaid`.

**LoopRunnerProofs.** `IInv` is the type invariant and `NoneStranded` with:

- `ClaimsInv`: no two open claims are on one task, and of the reviews of one kind only the
  last was not interrupted.
- `LiveInv`: once recovery is over, the open claims are those of the live sessions and the
  one being closed; a dead runner has no live session.
- `Closing(c, how)`: what is left to do of the claim being closed, in its order: its outcome
  is the last thing written; until then its subtask is released or still to be, and its red
  pass was acted upon or still is to be. A claim that waits for a pass has the pass still to
  act upon, which is what lets a gate turn red at any time.
- `PicksInv`: what is picked is held by nobody, nor is what blocks it, nor is that picked too:
  this is what lets several be claimed from one reading of the plan, an await between any two.
- `QueueInv`: what waits for a pass is a session in its gates, a claim under recovery, the run
  itself, or a session the halt gave up on; none waits twice.
- `RunInv`: a run that is to end completed is as it was checked, with nothing live; a
  completed one still is.
- `OursInv`: until a human moves one, a subtask once claimed is the harness's, so a red pass
  does reopen it.

`TurnKeeps` and `LoopsKeeps` carry it over the runner's steps that only move it from one
place to another; `ClosingBegins`, `Popped` and `StillClosing` over every way a claim is closed;
`LaunchesKeep` over the three ways one is opened. That an agent's move does not disturb the claim
being closed needs that no two open claims are on one task. Theorems: `TypeCorrect`,
`ClaimsAreHeld`, `ActiveAreClaimed`, `CompletedWasGreen`, `PhasesOnce`, `VerdictsFirst`,
`RedIsReopened`.

**CaptureProofs.** `IInv` is the type invariant and `ParentsCapturedFirst` with:

- `World`: an id once used never comes back, what a row hangs off is there, and an op is
  about a row there was.
- `CallbackInv(p)`: for each place of a callback, what it has behind it: a snapshot is of a
  row that was there, one about to record a deletion has the row gone, and a cascade read
  before its transaction still has the task in it while the task is there.
- `Latest(r)`: a row nobody owes is in the log as it is, or a process between its statement
  and its capture will record it as it is. Of several writers of one row only the last need
  do so: the statement of each puts its own capture after it.
- `Deleted(r)`: a row there was and nobody owes is recorded as deleted, or is about to be, or
  its task is. A row added under a task between the reading of the cascade and the
  transaction is in no capture of that transaction; its task is.

`Latest` and `Deleted` of the parent give a row recorded now something of its parent before
it (`ParentRecorded`). `ChildrenFirstFacts` shows that the order the cascade and the backfill
put rows in exists and is a list of exactly those rows. Theorems: `TypeCorrect`,
`LatestIsCaptured`, `DeletionsAreCaptured`, `ParentsComeFirst`.

**CopilotProofs.** Two invariants, because two of the properties hold whatever happens and
the third until a first turn is stopped. `Held`, which needs nothing of what is in a queue or a
mailbox but its type, is the type invariant and `AnsweredOrHeld` with:

- `Counted`, `Readers`: a session is opened by a turn of its own, so there are no more of
  them than prompts, and a turn that reads does so in the session it was given. Without them
  the types themselves are not inductive: a turn without a session would index by 0.
- `Unmade`: a request not made yet is neither answered nor held.
- `Turns`: the prompt on screen is the last that was sent, or none; a turn that has heard its
  end is still that one (`LastInHand`), which is why what it writes last goes to no
  earlier transcript.
- `Instructions`: a turn that carries the instructions is in a session whose agent has them,
  or is gone; so they have reached some agent once the copilot takes them for told.

`Own` adds, for as long as `cancels = 0`, who holds what:

- `InHand`: there is one turn in hand, the turns before it are over, and no session is marked
  cancelled.
- `Sessions`: the session of that turn holds its prompt, its updates and its read, the end of
  the turn last; every other session is empty.
- `Mailed`, `Asked`: the mail is about requests of the turn in hand, and a request that is
  held is on screen or in the mail, unless the mail withdraws it. This is what makes
  reading the whole mailbox at once safe.
- `DeadIdle`: an agent that is gone works on nothing.

The queue of questions and the mail are sequences, folded by recursive functions (`Keep`,
`Shown`). That these have a value is shown by the least index at which they would not
(`StepsExist`), and what is in it in the same way (`KeepFacts`, `ShownFacts`). `SteadyHeld`
serves every step that neither sends, dispatches nor asks, `QueueOwn` what a harness says.
Theorems: `CopilotTypes`, `RequestsAnswered`, `EarlierStay`, `Instructed`, `OwnStays`.

## 6. What is only model-checked

- Liveness: `PoisonNeverBlocks`, `CaughtUp`, `BackWithinLog`, `StaleNeverBlocks`,
  `StopEnds`, `EndedIsSettled`, `TurnEnds`. The prover has no rules for fairness and `ENABLED` here.
- Of `Replication`, `KeptRowsAgree` and `RereadChangesNothing`. They compare what two
  devices made of the same ops in different orders, so they need that the winner of a row's
  writes is one and the same whatever the order. The tie chain is an order (proved), but a
  held row is compared under its holder's device id, not its writer's, so the two properties
  are true of two devices only and of refs without ties (section 4); a proof would be of
  that instance.
- That the greedy chunks respect `BatchBytes` (no property needs it: the proofs hold for
  any cuts inside the batch, `ChunkEndsInside`).

## 7. Plan

Done: replication (`OplogPush` with `Outbox`, `PullSession`, `Resolve`, `Replication`,
`Capture`), because it is what loses data when it is wrong; the lock, because it keeps two
runs out of one worktree; the loop (`LoopRunner`, `Landing`, `Relay`); and the copilot (`Copilot`).

Next, most important first:

1. `Replication` with projects (set-null on delete), and clocks that differ.
2. The hub's alarm, migrations, rollback and prune beside a landing.
