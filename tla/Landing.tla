------------------------------ MODULE Landing ------------------------------
(***************************************************************************)
(* Landing a run's branch: put back what a dead landing left, fetch the    *)
(* base, rebase onto its latest commit, gate the result again, push it     *)
(* with a lease on what the run last pushed, find or open the pull request,*)
(* record it in run.json.  The runner lands when its work is done, and     *)
(* `kabane loop land` lands a completed run, holding the worktree's lock.  *)
(* Either may die at any await; the base moves, others push to the branch, *)
(* a stop comes, a later run goes on in the worktree.                      *)
(*                                                                         *)
(* A step is what runs between two awaits.  A commit is a number, and of   *)
(* its content only the base it is on and who made it are kept.  What the  *)
(* sessions leave uncommitted, a green pass checkpoints, unless git or a   *)
(* hook refuses: that is a warning, and the pass stays green.  Module      *)
(* LoopRunner has the sessions themselves.                                 *)
(***************************************************************************)
EXTENDS Naturals, Sequences

CONSTANTS
    Runner,     \* the process that drives a run
    Lander,     \* `kabane loop land` commands
    COMMITS,    \* BOUND: commits ever made, on the branch and beside it
    BASES,      \* BOUND: times the base moves
    LATER,      \* BOUND: runs that go on in the worktree, and landings by hand
    CRASHES     \* BOUND: deaths

ASSUME LandingAssumption ==
    /\ Runner \notin Lander
    /\ COMMITS \in Nat \ {0} /\ BASES \in Nat /\ LATER \in Nat /\ CRASHES \in Nat

Proc == Lander \cup {Runner}
NONE == 0
Commit == 1 .. COMMITS
Rev == Commit \cup {NONE}

VARIABLES
    commits,        \* what every commit is on, and who made it
    base,           \* the base's latest commit on the remote
    head, half,     \* the worktree: the branch's tip; whether a rebase is half done
    tree,           \* what is in it beside that tip's content
    remote,         \* the branch on the remote
    pr,             \* whether a pull request is open for it
    file,           \* run.json of the worktree's latest run
    at,             \* where each process is, and the run as it has it in memory
    stop,           \* the runner has been told to stop
    lands, crashes,
    left,           \* history: the tip the run's work left, before any landing
    green,          \* history: tips a green pass left: what the gates passed on, or the
                    \*          commit under changes they also passed on and git did not commit
    published,      \* history: commits a landing pushed
    outdated        \* history: a landing by hand took the lock with another tip to put back
                    \*          in memory than run.json had by then

given == <<lands, crashes>>
vars == <<commits, base, head, half, tree, remote, pr, file, at, stop, given, left, green,
          published, outdated>>

(* Nothing uncommitted, the changes the last green pass was on, or others. *)
Tree == {"clean", "passed", "changed"}

(* landingFrom, pushed and pr as run.json has them; checked is the tip and *)
(* the tree the last pass was green on.                                    *)
Fingerprint == [tip : Rev, tree : Tree]
NoPass == [tip |-> NONE, tree |-> "clean"]
Run == [id : 1 .. LATER + 1, status : {"running", "completed", "stopped", "failed"},
        landingFrom : Rev, pushed : Rev, pr : BOOLEAN,
        landing : {"none", "ok", "failed"}, checked : Fingerprint]

Place == {"off", "read", "boot", "booted", "work", "recover", "recovered", "fetch", "rebase",
          "gate", "back", "tip", "push", "pushed", "view", "create", "record", "report"}

(* A landing's own: the base it fetched, the tip it rebased (if it did),   *)
(* the tip it pushes, and whether it is landed.                            *)
Process == [pc : Place, run : Run, onto : 0 .. BASES, from : Rev, tip : Rev, ok : BOOLEAN]

TypeOK ==
    /\ commits \in Seq([base : 0 .. BASES, by : {"run", "other"}]) /\ Len(commits) <= COMMITS
    /\ base \in 0 .. BASES
    /\ head \in DOMAIN commits /\ half \in BOOLEAN /\ tree \in Tree
    /\ remote \in {NONE} \cup DOMAIN commits /\ pr \in BOOLEAN
    /\ file \in Run /\ at \in [Proc -> Process]
    /\ stop \in BOOLEAN /\ lands \in 0 .. LATER /\ crashes \in 0 .. CRASHES
    /\ left \in DOMAIN commits /\ green \subseteq DOMAIN commits
    /\ published \subseteq DOMAIN commits
    /\ outdated \in BOOLEAN

(* A run as `start` writes it; it goes on with the pull request and what   *)
(* was pushed.                                                             *)
NewRun(id, pushed, hasPr) ==
    [id |-> id, status |-> "running", landingFrom |-> NONE, pushed |-> pushed, pr |-> hasPr,
     landing |-> "none", checked |-> NoPass]

(* A process that is not running has nothing in memory.                    *)
Idle == [pc |-> "off", run |-> NewRun(1, NONE, FALSE), onto |-> 0, from |-> NONE, tip |-> NONE,
         ok |-> FALSE]

Init ==
    /\ commits = <<[base |-> 0, by |-> "run"]>> /\ base = 0
    /\ head = 1 /\ half = FALSE /\ tree = "clean" /\ remote = NONE /\ pr = FALSE
    /\ file = NewRun(1, NONE, FALSE)
    /\ at = [p \in Proc |-> Idle]
    /\ stop = FALSE /\ lands = 0 /\ crashes = 0
    /\ left = 1 /\ green = {} /\ published = {} /\ outdated = FALSE

Fresh == Len(commits) + 1
Make(on, by) == Fresh <= COMMITS /\ commits' = Append(commits, [base |-> on, by |-> by])

ctx(p) == at[p].run
stopping(p) == p = Runner /\ stop
Go(p, from, to) == at[p].pc = from /\ at' = [at EXCEPT ![p].pc = to]
(* RunState.save: what it has in memory becomes the whole of run.json.     *)
Save(p, from, to, run) ==
    /\ at[p].pc = from
    /\ at' = [at EXCEPT ![p].pc = to, ![p].run = run]
    /\ file' = run
Exit(p, from) ==
    /\ at[p].pc = from /\ at' = [at EXCEPT ![p] = Idle]
    /\ stop' = (stop /\ p # Runner)

keepTree == UNCHANGED <<commits, head, half, tree, left, outdated>>
keepRemote == UNCHANGED <<base, remote, pr, published>>
keepRun == UNCHANGED <<file, stop, given>>

-----------------------------------------------------------------------------
(* The runner around its landing                                           *)

(* A run starts, or one whose runner died, or could not undo a landing, is *)
(* restarted.                                                              *)
Boot ==
    /\ file.status \in {"running", "failed"}
    /\ Save(Runner, "off", "boot", [file EXCEPT !.status = "running"])
    /\ keepTree /\ keepRemote /\ UNCHANGED <<stop, given, green>>

(* Land.recover, at boot and before every landing: restore, then save.  It *)
(* aborts a rebase, checks the branch out, resets it to the tip and cleans,*)
(* which discards what was not committed, and fails at any of these.       *)
Restore(p, from, to, onwards) ==
    \/ /\ ctx(p).landingFrom = NONE /\ Go(p, from, onwards)
       /\ keepTree
    \/ /\ ctx(p).landingFrom # NONE /\ Go(p, from, to)
       /\ head' = ctx(p).landingFrom /\ half' = FALSE /\ tree' = "clean"
       /\ UNCHANGED <<commits, left, outdated>>

Unrestored(p) ==
    /\ ctx(p).landingFrom # NONE
    /\ head' \in {head, ctx(p).landingFrom}
    /\ half' \in IF head' = head THEN {half, FALSE} ELSE {FALSE}
    /\ tree' \in {tree, "clean"}
    /\ UNCHANGED <<commits, left, outdated>>

BootAsFound == Go(Runner, "boot", "work") /\ keepTree /\ keepRemote /\ keepRun /\ UNCHANGED green
BootRestore == Restore(Runner, "boot", "booted", "work") /\ keepRemote /\ keepRun /\ UNCHANGED green
BootRestored ==
    /\ Save(Runner, "booted", "work", [ctx(Runner) EXCEPT !.landingFrom = NONE])
    /\ keepTree /\ keepRemote /\ UNCHANGED <<stop, given, green>>

(* Nothing goes on in a worktree that cannot be put back.                  *)
BootFailed ==
    /\ Exit(Runner, "boot") /\ file' = [ctx(Runner) EXCEPT !.status = "failed"]
    /\ Unrestored(Runner) /\ keepRemote /\ UNCHANGED <<given, green>>

(* The sessions' work: left uncommitted, or committed in whole or in part. *)
Work ==
    /\ at[Runner].pc = "work"
    /\ \/ tree' = "changed" /\ UNCHANGED <<commits, head>>
       \/ /\ Make(commits[head].base, "run") /\ head' = Fresh
          /\ tree' \in {"clean", "changed"}
    /\ left' = head'
    /\ UNCHANGED <<half, at, green, outdated>> /\ keepRemote /\ keepRun

(* A green pass: the gates may have changed files of their own, and what is*)
(* not committed is checkpointed.  A commit that git or a hook refuses is  *)
(* only a warning.                                                         *)
Green ==
    /\ \/ tree = "clean" /\ UNCHANGED <<commits, head, tree>>
       \/ Make(commits[head].base, "run") /\ head' = Fresh /\ tree' = "clean"
       \/ tree' = "passed" /\ UNCHANGED <<commits, head>>
    /\ green' = green \cup {head'}

(* A red one commits nothing.                                              *)
Red == tree' \in {tree, "changed"} /\ UNCHANGED <<commits, head, green>>

Checked(p) == [ctx(p) EXCEPT !.checked = [tip |-> head', tree |-> tree']]
Unchecked(p) == [ctx(p) EXCEPT !.checked = NoPass]

(* The gates on the result, until it is checked as it is; red, they stop   *)
(* the run.                                                                *)
checked(p) == ctx(p).checked = [tip |-> head, tree |-> tree]

FinalGates ==
    /\ ~checked(Runner)
    /\ \/ Green /\ Save(Runner, "work", "work", Checked(Runner)) /\ UNCHANGED stop
       \/ /\ Red /\ Exit(Runner, "work")
          /\ file' = [Unchecked(Runner) EXCEPT !.status = "stopped"]
    /\ left' = head'
    /\ keepRemote /\ UNCHANGED <<half, outdated, given>>

StartLanding ==
    /\ checked(Runner) /\ Go(Runner, "work", "recover")
    /\ keepTree /\ keepRemote /\ keepRun /\ UNCHANGED green

Stop ==
    /\ Exit(Runner, "work") /\ file' = [ctx(Runner) EXCEPT !.status = "stopped"]
    /\ keepTree /\ keepRemote /\ UNCHANGED <<given, green>>

AskStop ==
    /\ ~stop /\ at[Runner].pc \notin {"off", "work"} /\ stop' = TRUE
    /\ keepTree /\ keepRemote /\ UNCHANGED <<at, file, given, green>>

-----------------------------------------------------------------------------
(* `kabane loop land`                                                      *)

Locked(l) == l \in Lander /\ at[l].pc \notin {"off", "read"}

(* The run is read before the lock is taken.                               *)
Read(l) ==
    /\ at[l].pc = "off" /\ file.status = "completed"
    /\ file.id + lands <= LATER /\ lands' = lands + 1
    /\ at' = [at EXCEPT ![l] = [@ EXCEPT !.pc = "read", !.run = file]]
    /\ keepTree /\ keepRemote /\ UNCHANGED <<file, stop, crashes, green>>

(* Refused while another landing holds the lock, and once a later run went *)
(* on in the worktree.  Nothing reads the run again.                       *)
TakeLock(l) ==
    /\ \/ /\ file.id = ctx(l).id /\ ~ \E o \in Lander : Locked(o)
          /\ Go(l, "read", "recover") /\ UNCHANGED stop
          /\ outdated' = (outdated \/ ctx(l).landingFrom # file.landingFrom)
       \/ /\ file.id # ctx(l).id \/ \E o \in Lander : Locked(o)
          /\ Exit(l, "read") /\ UNCHANGED outdated
    /\ keepRemote /\ UNCHANGED <<commits, head, half, tree, left, file, given, green>>

-----------------------------------------------------------------------------
(* Land.land                                                               *)

NotLanded(p, from) == at[p].pc = from /\ at' = [at EXCEPT ![p].pc = "record", ![p].ok = FALSE]

RecoverNothing(p) ==
    Go(p, "recover", "fetch") /\ keepTree /\ keepRemote /\ keepRun /\ UNCHANGED green
Recover(p) ==
    /\ \/ Restore(p, "recover", "recovered", "fetch")
       \/ Unrestored(p) /\ NotLanded(p, "recover")
    /\ keepRemote /\ keepRun /\ UNCHANGED green

Recovered(p) ==
    /\ Save(p, "recovered", "fetch", [ctx(p) EXCEPT !.landingFrom = NONE])
    /\ keepTree /\ keepRemote /\ UNCHANGED <<stop, given, green>>

(* onBase: nothing on a worktree off its branch; a base already contained  *)
(* needs no rebase, and one that is not is rebased onto with the tip saved.*)
contains(c, b) == commits[c].base >= b

Fetch(p) ==
    /\ at[p].pc = "fetch"
    /\ \/ NotLanded(p, "fetch") /\ UNCHANGED file
       \/ /\ ~half /\ contains(head, base)
          /\ at' = [at EXCEPT ![p].pc = "tip", ![p].onto = base, ![p].from = NONE]
          /\ UNCHANGED file
       \/ /\ ~half /\ ~contains(head, base)
          /\ file' = [ctx(p) EXCEPT !.landingFrom = head]
          /\ at' = [at EXCEPT ![p].pc = "rebase", ![p].run = file', ![p].onto = base,
                              ![p].from = head]
    /\ keepTree /\ keepRemote /\ UNCHANGED <<stop, given, green>>

(* git refuses to rebase over changes of tracked files, and carries files  *)
(* it does not track along.  A conflict is aborted, and that may fail; and *)
(* the rebased tip may not be read.                                        *)
Rebase(p) ==
    /\ at[p].pc = "rebase"
    /\ \/ /\ Go(p, "rebase", "gate") \/ NotLanded(p, "rebase")
          /\ Make(at[p].onto, "run") /\ head' = Fresh /\ UNCHANGED half
       \/ /\ NotLanded(p, "rebase")
          /\ half' \in BOOLEAN /\ UNCHANGED <<commits, head>>
    /\ keepRemote /\ keepRun /\ UNCHANGED <<tree, left, green, outdated>>

Gate(p) ==
    /\ \/ Green /\ Save(p, "gate", IF stopping(p) THEN "back" ELSE "tip", Checked(p))
       \/ Red /\ Save(p, "gate", "back", Unchecked(p))
    /\ keepRemote /\ UNCHANGED <<half, left, outdated, stop, given>>

(* The branch reset to the tip it was rebased from and cleaned, if git can.*)
PutBack(p) ==
    /\ NotLanded(p, "back")
    /\ \/ UNCHANGED <<head, tree>>
       \/ head' = at[p].from /\ tree' \in {tree, "clean"}
    /\ keepRemote /\ keepRun /\ UNCHANGED <<commits, half, left, green, outdated>>

(* toPr: nothing goes out once the run is stopping, nor with no tip read.  *)
Tip(p) ==
    /\ at[p].pc = "tip"
    /\ \/ /\ ~stopping(p)
          /\ at' = [at EXCEPT ![p].pc = "push", ![p].tip = head]
       \/ /\ stopping(p) /\ at[p].from # NONE /\ Go(p, "tip", "back")
       \/ NotLanded(p, "tip")
    /\ keepTree /\ keepRemote /\ keepRun /\ UNCHANGED green

(* The lease: the remote is where the run last left it.                    *)
leaseless(p) == TRUE
lease(p) == remote = ctx(p).pushed

(* One with nothing to push succeeds whatever the lease says; and one that *)
(* is done may yet be reported as failed.                                  *)
Push(p) ==
    /\ at[p].pc = "push"
    /\ \/ /\ lease(p) \/ remote = at[p].tip
          /\ Go(p, "push", "pushed") \/ NotLanded(p, "push")
          /\ remote' = at[p].tip /\ published' = published \cup {at[p].tip}
       \/ /\ NotLanded(p, "push") /\ UNCHANGED <<remote, published>>
    /\ keepTree /\ keepRun /\ UNCHANGED <<base, pr, green>>

Pushed(p) ==
    /\ at[p].pc = "pushed"
    /\ file' = [ctx(p) EXCEPT !.pushed = at[p].tip, !.landingFrom = NONE]
    /\ at' = [at EXCEPT ![p].pc = IF stopping(p) THEN "record" ELSE "view", ![p].run = file',
                        ![p].ok = FALSE]
    /\ keepTree /\ keepRemote /\ UNCHANGED <<stop, given, green>>

Landed(p, from) == at[p].pc = from /\ at' = [at EXCEPT ![p].pc = "record", ![p].ok = TRUE]

(* openPr: one not found, and a lookup that failed, read as none open.     *)
View(p) ==
    /\ \/ pr /\ Landed(p, "view")
       \/ IF stopping(p) THEN NotLanded(p, "view") ELSE Go(p, "view", "create")
    /\ keepTree /\ keepRemote /\ keepRun /\ UNCHANGED green

(* gh opens no second pull request for a branch that has one.              *)
Create(p) ==
    /\ \/ ~pr /\ pr' = TRUE /\ (Landed(p, "create") \/ NotLanded(p, "create"))
       \/ NotLanded(p, "create") /\ UNCHANGED pr
    /\ keepTree /\ keepRun /\ UNCHANGED <<base, remote, published, green>>

(* The tip a landing started from is dropped once it is landed, or the     *)
(* branch is back there, if git says that it is.                           *)
settledAlways(p) == TRUE
settled(p) == ctx(p).landingFrom = NONE \/ at[p].ok \/ (~half /\ head = ctx(p).landingFrom)

Record(p) ==
    /\ \E from \in {NONE, ctx(p).landingFrom} :
          /\ from = NONE => settled(p)
          /\ at[p].ok => from = NONE
          /\ Save(p, "record", "report",
                  [ctx(p) EXCEPT !.landing = IF at[p].ok THEN "ok" ELSE "failed",
                                 !.pr = @ \/ at[p].ok,
                                 !.landingFrom = from])
    /\ keepTree /\ keepRemote /\ UNCHANGED <<stop, given, green>>

(* A landing that failed still completes the run; a stop stops it.         *)
Report(p) ==
    /\ IF p = Runner
       THEN file' = [ctx(p) EXCEPT !.status = IF stop THEN "stopped" ELSE "completed"]
       ELSE UNCHANGED file
    /\ Exit(p, "report")
    /\ keepTree /\ keepRemote /\ UNCHANGED <<given, green>>

-----------------------------------------------------------------------------
(* The world around it                                                     *)

(* A later run goes on in the worktree, with what the last one pushed, when*)
(* no landing holds it and it is on its branch.                            *)
StartRun ==
    /\ file.status \in {"completed", "stopped"} /\ file.id + lands <= LATER
    /\ at[Runner].pc = "off" /\ ~half /\ ~ \E l \in Lander : Locked(l)
    /\ file' = NewRun(file.id + 1, file.pushed, file.pr)
    /\ left' = head
    /\ keepRemote /\ UNCHANGED <<commits, head, half, tree, at, stop, given, green, outdated>>

BaseMoves ==
    /\ base < BASES /\ base' = base + 1
    /\ keepTree /\ keepRun /\ UNCHANGED <<remote, pr, published, at, green>>

OtherPushes ==
    /\ Make(IF remote = NONE THEN 0 ELSE commits[remote].base, "other")
    /\ remote' = Fresh
    /\ keepRun /\ UNCHANGED <<head, half, tree, left, base, pr, published, at, green, outdated>>

(* A process dies; in the middle of a rebase, it leaves that half done.    *)
Crash(p) ==
    /\ at[p].pc # "off" /\ Exit(p, at[p].pc)
    /\ crashes < CRASHES /\ crashes' = crashes + 1
    /\ half' \in IF at[p].pc = "rebase" THEN BOOLEAN ELSE {half}
    /\ keepRemote /\ UNCHANGED <<commits, head, tree, left, file, lands, green, outdated>>

Next ==
    \/ Boot \/ BootRestore \/ BootRestored \/ BootFailed
    \/ Work \/ FinalGates \/ StartLanding \/ Stop \/ AskStop
    \/ \E l \in Lander : Read(l) \/ TakeLock(l)
    \/ \E p \in Proc :
          \/ Recover(p) \/ Recovered(p) \/ Fetch(p) \/ Rebase(p) \/ Gate(p) \/ PutBack(p)
          \/ Tip(p) \/ Push(p) \/ Pushed(p) \/ View(p) \/ Create(p) \/ Record(p) \/ Report(p)
          \/ Crash(p)
    \/ StartRun \/ BaseMoves \/ OtherPushes

Spec == Init /\ [][Next]_vars

-----------------------------------------------------------------------------
(* Properties                                                              *)

(* The first three hold until a landing acts on a run.json that another    *)
(* changed between its reading it and its taking the lock (commands.ts 684 *)
(* and 702); what is overwritten is only ever the landings' own.           *)

(* Nothing is published but a tip a green pass left: not what a landing    *)
(* that died rebased, nor what a red or stopped one did, nor what came     *)
(* after the pass.  The pass was on just that tip, unless its checkpoint   *)
(* was refused (checks.ts 33-42): then the tip is without the changes.     *)
PublishedGreen == ~outdated => published \subseteq green

(* A push replaces only what a landing pushed: what someone else pushed is *)
(* refused, never overwritten.                                             *)
OnlyOwnOverwritten ==
    [][remote' # remote /\ remote' \in published' => remote \in published \cup {NONE}]_vars

(* Whenever the branch is not where the run's work left it, and was not    *)
(* published, run.json says where to put it back, through any death.       *)
LeftRecoverable ==
    ~outdated =>
        IF file.landingFrom = NONE THEN ~half /\ head \in {left} \cup published
        ELSE file.landingFrom \in {left} \cup published

(* The run's gates and sessions never work on a tree half replayed, nor on *)
(* one a landing rebased and did not publish.                              *)
WorksWhereItLeft ==
    ~outdated /\ at[Runner].pc = "work" => ~half /\ head \in {left} \cup published

(* The commit the branch is at on the remote, when a landing pushed it, is *)
(* the one run.json has for the next lease, once no landing is under way.  *)
(* store.ts says so; a death between the push and the save refutes it.     *)
NoLanding == \A p \in Proc : at[p].pc \in {"off", "read", "work"}
PushedRemembered == NoLanding /\ remote \in published => file.pushed = remote

=============================================================================
