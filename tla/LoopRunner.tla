----------------------------- MODULE LoopRunner -----------------------------
(***************************************************************************)
(* A loop run: the one process that drives it claims ready subtasks of the *)
(* plan into free slots, a harness session works on each, the gates judge  *)
(* what a session closed, and the claim is settled.  With the work done    *)
(* the gates run on the result, a lens reviews it, a fixer takes what the  *)
(* lens found, and the run completes.  Meanwhile humans and agents move    *)
(* the subtasks in the tracker, a stop may come at any time, and the       *)
(* runner may die at any await and be started again on the run as it was   *)
(* last written.                                                           *)
(*                                                                         *)
(* A step is what runs between two awaits.  Reading a task and writing it  *)
(* at once after (a release, a reopening) is one step; a claim's are two.  *)
(*                                                                         *)
(* Abstracted: which ready subtasks are picked (priority, order, pause,    *)
(* skip) is a choice, and so is whether an attempt without progress is the *)
(* one the stall detector ends the run on.  The tree is what is known of   *)
(* it: whether it changed since the last pass.  Gates are configured, the  *)
(* target is a parent, blocking has no cycle and no budget runs out.       *)
(* Landing is module Landing.                                              *)
(***************************************************************************)
EXTENDS Naturals, FiniteSets, SequencesExt

CONSTANTS
    Task,       \* the subtasks
    Parent,
    Plan,       \* the plans a run starts on: the subtasks open, those that block others,
                \* whether a lens reviews the work; and the BOUNDS on such a run: its claims,
                \* the times the runner dies, the subtasks a human moves
    CONC,       \* sessions at a time
    CLAIMS      \* BOUND: the most claims of any run

ASSUME LoopAssumption ==
    /\ Parent \notin Task /\ IsFiniteSet(Task)
    /\ CONC \in Nat \ {0} /\ CLAIMS \in Nat
    /\ Plan \subseteq [open : SUBSET Task, blocks : SUBSET (Task \X Task), lens : BOOLEAN,
                      claims : 0 .. CLAIMS, crashes : Nat, moves : Nat]

Closed == {"done", "cancelled"}
State == {"next", "in_progress", "parked"} \cup Closed
Outcome == {"done", "incomplete", "error", "cancelled", "interrupted"}
Id == 1 .. CLAIMS       \* a claim and its session
FINAL == 0              \* a pass of the run's own

VARIABLES
    state, ours,        \* the tracker: a subtask's state, and whether it is the harness's
    finding,            \* the tracker: what the lens filed under the parent
    plan,               \* what blocks what, and whether a lens reviews: given, never changed
    status, claims,     \* run.json: the status; the claims, each with the pass it had
    lastPass,           \* run.json: the last pass of gateRuns
    moved,              \* the tree has changed since that pass
    session,            \* live sessions: working, in their gates, or how they ended
    gating,             \* passes asked for and not over, the first one running
    pc, picks, exit,    \* the runner: where it is, what it claims next, how it ends
    batch,              \*   the ended sessions it settles
    steps,              \*   what is left to do of the claim it closes
    asked,              \* a stop in the inbox, not read yet
    stopRequested, stopping,
    crashes, moves,
    lost                \* history: subtasks taken by a runner that died before it wrote so

tracker == <<state, ours, finding>>
run == <<status, claims, lastPass>>
place == <<pc, picks, exit, batch, steps>>
stops == <<asked, stopRequested, stopping>>
bounds == <<crashes, moves, lost>>
vars == <<tracker, plan, run, moved, session, gating, place, stops, bounds>>

Claim == [task : Task \cup {Parent}, kind : {"implement", "lens", "fix"},
          outcome : Outcome \cup {"open"}, pass : {"none", "green", "red", "killed"}]
Close == [claim : Id, do : {"pass", "passing", "release", "record", "patch"}, outcome : Outcome]

Live == {i \in Id : session[i] # "none"}
Settled == {i \in Id : session[i] \in Outcome}
Open == {i \in DOMAIN claims : claims[i].outcome = "open"}
liveTasks == {claims[i].task : i \in Live}
onParent(i) == claims[i].kind # "implement"

TypeOK ==
    /\ state \in [Task -> State] /\ ours \in [Task -> BOOLEAN]
    /\ finding \in {"none", "open", "closed"} 
    /\ plan \in Plan
    /\ status \in {"pending", "running", "completed", "stopped"}
    /\ claims \in Seq(Claim) /\ Len(claims) <= plan.claims
    /\ lastPass \in {"none", "green", "red"}
    /\ moved \in BOOLEAN
    /\ session \in [Id -> {"none", "working", "gating"} \cup Outcome]
    /\ Live \subseteq DOMAIN claims
    /\ gating \in Seq(Id \cup {FINAL})
    /\ pc \in {"off", "recover", "tick", "load", "claim", "take", "launch", "review",
               "judge", "nap", "settle", "cancel", "grace", "halt"}
    /\ picks \in Seq(Task) /\ exit \in {"completed", "stopped"}
    /\ batch \subseteq Id /\ steps \in Seq(Close)
    /\ asked \in BOOLEAN /\ stopRequested \in BOOLEAN /\ stopping \in BOOLEAN
    /\ crashes \in 0 .. plan.crashes /\ moves \in 0 .. plan.moves /\ lost \subseteq Task

Init ==
    /\ plan \in Plan
    /\ state = [t \in Task |-> IF t \in plan.open THEN "next" ELSE "done"]
    /\ ours = [t \in Task |-> FALSE]
    /\ finding = "none"
    /\ status = "pending" /\ claims = <<>> /\ lastPass = "none"
    /\ moved = FALSE
    /\ session = [i \in Id |-> "none"] /\ gating = <<>>
    /\ pc = "off" /\ picks = <<>> /\ exit = "stopped" /\ batch = {} /\ steps = <<>>
    /\ asked = FALSE /\ stopRequested = FALSE /\ stopping = FALSE
    /\ crashes = 0 /\ moves = 0 /\ lost = {}

(* The runner, which is between two claims' ends, goes from one place to another. *)
Go(from, to) == steps = <<>> /\ pc = from /\ pc' = to

-----------------------------------------------------------------------------
(* Closing a claim: what is left to do of it, one await at a time          *)

isActive(t) == state[t] = "in_progress" /\ ours[t]
canClaim(t) == state[t] = "next"

ToDo(i, outcome, todo) == [n \in DOMAIN todo |-> [claim |-> i, do |-> todo[n], outcome |-> outcome]]

(* settle; a session the halt gave up on has no pass to record.            *)
SettleStepsClosedFirst(i) == <<"patch", "release", "record">>
SettleSteps(i) == <<"release", "record", "patch">>
AbandonStepsOpen(i) == <<"release">>
AbandonSteps(i) == <<"release", "patch">>
(* recover: a subtask its session closed is owed a pass, unless it had one.*)
RecoverStepsUngated(i) == IF onParent(i) THEN <<"patch">> ELSE <<"release", "patch">>
RecoverSteps(i) == IF onParent(i) THEN <<"patch">> ELSE <<"pass", "record", "release", "patch">>

next == Head(steps)
Done == steps' = Tail(steps)
subject == claims[next.claim].task

Pass ==
    /\ next.do = "pass"
    /\ IF claims[next.claim].pass = "none" /\ state[subject] = "done" /\ ~stopping
       THEN /\ gating' = Append(gating, next.claim)
            /\ steps' = [steps EXCEPT ![1].do = "passing"]
       ELSE Done /\ UNCHANGED gating
    /\ UNCHANGED <<state, claims>>

PassOver ==
    /\ next.do = "passing" /\ gating = <<>>
    /\ Done
    /\ UNCHANGED <<state, claims, gating>>

(* Back to the pool, if it is still this claim's.                          *)
Release ==
    /\ next.do = "release"
    /\ state' = IF ~onParent(next.claim) /\ isActive(subject)
                THEN [state EXCEPT ![subject] = "next"] ELSE state
    /\ Done /\ UNCHANGED <<claims, gating>>

(* A gate that ran to a red exit reopens what is still done, and the claim's. *)
Record ==
    /\ next.do = "record"
    /\ state' = IF /\ claims[next.claim].pass = "red"
                   /\ state[subject] = "done" /\ ours[subject]
                THEN [state EXCEPT ![subject] = "next"] ELSE state
    /\ Done /\ UNCHANGED <<claims, gating>>

Patch ==
    /\ next.do = "patch"
    /\ claims' = [claims EXCEPT ![next.claim].outcome = next.outcome]
    /\ Done /\ UNCHANGED <<state, gating>>

CloseClaim ==
    /\ pc # "off" /\ steps # <<>>
    /\ Pass \/ PassOver \/ Release \/ Record \/ Patch
    /\ UNCHANGED <<ours, finding, status, lastPass, moved, session, pc, picks, exit, batch,
                   stops, bounds>>

-----------------------------------------------------------------------------
(* boot                                                                    *)

Boot ==
    /\ Go("off", "recover")
    /\ status \in {"pending", "running"}
    /\ status' = "running"
    /\ UNCHANGED <<tracker, claims, lastPass, moved, session, gating, picks, exit, batch, steps,
                   stops, bounds>>

(* The claims a dead runner left open, one after the other.                *)
Recover ==
    /\ \/ /\ Open = {} /\ Go("recover", "tick") /\ UNCHANGED steps
       \/ \E i \in Open :
             /\ \A j \in Open : i <= j
             /\ Go("recover", "recover")
             /\ steps' = ToDo(i, "interrupted", RecoverSteps(i))
    /\ UNCHANGED <<tracker, run, moved, session, gating, picks, exit, batch, stops, bounds>>

-----------------------------------------------------------------------------
(* tick                                                                    *)

Halt(from, how) ==
    /\ Go(from, "cancel")
    /\ exit' = how
    /\ UNCHANGED <<tracker, run, moved, session, gating, picks, batch, steps, bounds>>

ReadInbox ==
    /\ asked' = FALSE
    /\ stopRequested' = (stopRequested \/ asked)

Tick ==
    \/ /\ ReadInbox /\ stopRequested' /\ UNCHANGED stopping
       /\ Halt("tick", "stopped")
    \/ /\ ReadInbox /\ ~stopRequested' /\ UNCHANGED stopping
       /\ Go("tick", "load")
       /\ UNCHANGED <<tracker, run, moved, session, gating, picks, exit, batch, steps, bounds>>

workDone == \A t \in Task : state[t] \in Closed
blockers(t) == {b \in Task : <<b, t>> \in plan.blocks}

(* Ready, not live, every blocker closed and let go by its claim.          *)
frontierOfClosed ==
    {t \in Task : /\ canClaim(t) /\ t \notin liveTasks
                  /\ \A b \in blockers(t) : state[b] \in Closed}
frontier ==
    {t \in Task : /\ canClaim(t) /\ t \notin liveTasks
                  /\ \A b \in blockers(t) : b \notin liveTasks /\ state[b] \in Closed}
slots == IF Cardinality(Live) < CONC THEN CONC - Cardinality(Live) ELSE 0

(* What is picked is claimed, one after the other, then the runner naps.   *)
ClaimNext(from, list) ==
    /\ Go(from, IF list = <<>> THEN "nap" ELSE "claim")
    /\ picks' = list

(* The plan is read: the run's checks when the work is done, else some of  *)
(* what is ready is picked.                                                *)
Load ==
    /\ IF Live = {} /\ workDone
       THEN Go("load", "review") /\ UNCHANGED picks
       ELSE \E S \in SUBSET frontier :
               /\ Cardinality(S) <= slots
               /\ Cardinality(S) + Len(claims) <= plan.claims
               /\ \E list \in SetToSeqs(S) : ClaimNext("load", list)
    /\ UNCHANGED <<tracker, run, moved, session, gating, exit, batch, steps, stops, bounds>>

-----------------------------------------------------------------------------
(* claim                                                                   *)

(* The plan is a snapshot: a subtask moved meanwhile is passed over.       *)
Recheck ==
    /\ picks # <<>>
    /\ IF canClaim(Head(picks)) THEN Go("claim", "take") /\ UNCHANGED picks
       ELSE ClaimNext("claim", Tail(picks))
    /\ UNCHANGED <<tracker, run, moved, session, gating, exit, batch, steps, stops, bounds>>

(* open: its session starts in the tracker and the subtask is taken.       *)
Take ==
    /\ Go("take", "launch")
    /\ state' = [state EXCEPT ![Head(picks)] = "in_progress"]
    /\ ours' = [ours EXCEPT ![Head(picks)] = TRUE]
    /\ UNCHANGED <<finding, run, moved, session, gating, picks, exit, batch, steps, stops, bounds>>

(* The claim is written down, and its session dispatched.                  *)
launch(t, kind) ==
    /\ claims' = Append(claims, [task |-> t, kind |-> kind, outcome |-> "open", pass |-> "none"])
    /\ session' = [session EXCEPT ![Len(claims) + 1] = "working"]
    /\ UNCHANGED <<status, lastPass>>

Launch ==
    /\ ClaimNext("launch", Tail(picks))
    /\ launch(Head(picks), "implement")
    /\ UNCHANGED <<tracker, moved, gating, exit, batch, steps, stops, bounds>>

-----------------------------------------------------------------------------
(* finalChecks: gates, lens, fixer, gates                                  *)

ClaimsOf(kind) == {i \in DOMAIN claims : claims[i].kind = kind}
firstOf(kind) == CHOOSE i \in ClaimsOf(kind) : \A j \in ClaimsOf(kind) : i <= j
lastOf(kind) == CHOOSE i \in ClaimsOf(kind) : \A j \in ClaimsOf(kind) : j <= i
outcomeOf(kind) == IF ClaimsOf(kind) = {} THEN "interrupted" ELSE claims[lastOf(kind)].outcome

checkedOnce == lastPass = "green"
checked == lastPass = "green" /\ ~moved
lensDone == plan.lens => outcomeOf("lens") = "done"
lensFailed == plan.lens /\ outcomeOf("lens") \notin {"done", "interrupted", "open"}
fixerEnded == outcomeOf("fix") \in {"done", "incomplete"}
fixerFailed == outcomeOf("fix") \in {"error", "cancelled"}
fixerDone == fixerEnded \/ (outcomeOf("fix") = "interrupted" /\ finding # "open")

Review ==
    \/ /\ checked /\ lensDone /\ fixerDone
       /\ Halt("review", "completed") /\ UNCHANGED stops
    \/ /\ (checked /\ lensFailed) \/ (lensDone /\ fixerFailed)
       /\ Halt("review", "stopped") /\ UNCHANGED stops
    \/ /\ ~checked /\ (~lensDone \/ fixerDone)
       /\ Go("review", "judge")
       /\ gating' = Append(gating, FINAL)
       /\ UNCHANGED <<tracker, run, moved, session, picks, exit, batch, steps, stops, bounds>>

lensDue == plan.lens /\ checked /\ outcomeOf("lens") = "interrupted"
fixerDue == lensDone /\ ~fixerDone /\ ~fixerFailed

(* Neither while the run is paused.                                        *)
Paused ==
    /\ Go("review", "nap") /\ (lensDue \/ fixerDue)
    /\ UNCHANGED <<tracker, run, moved, session, gating, picks, exit, batch, steps, stops, bounds>>

StartLens ==
    /\ Go("review", "nap")
    /\ lensDue /\ Len(claims) < plan.claims
    /\ launch(Parent, "lens")
    /\ UNCHANGED <<tracker, moved, gating, picks, exit, batch, steps, stops, bounds>>

StartFixer ==
    /\ Go("review", "nap")
    /\ fixerDue /\ Len(claims) < plan.claims
    /\ launch(Parent, "fix")
    /\ UNCHANGED <<tracker, moved, gating, picks, exit, batch, steps, stops, bounds>>

(* The run's own pass is over: red, or killed by a stop, ends the run.     *)
Judge ==
    \/ /\ gating = <<>> /\ (stopRequested \/ lastPass = "red")
       /\ Halt("judge", "stopped") /\ UNCHANGED stops
    \/ /\ gating = <<>> /\ ~stopRequested /\ lastPass = "green"
       /\ Go("judge", "nap")
       /\ UNCHANGED <<tracker, run, moved, session, gating, picks, exit, batch, steps, stops, bounds>>

-----------------------------------------------------------------------------
(* loop and halt                                                           *)

(* The sessions that have ended, whatever they worked on.                  *)
EndedOnSubtasks == {i \in Settled : ~onParent(i)}
Ended == Settled

Nap ==
    /\ Go("nap", IF Ended = {} THEN "tick" ELSE "settle")
    /\ batch' = Ended
    /\ UNCHANGED <<tracker, run, moved, session, gating, picks, exit, steps, stops, bounds>>

(* The books on one of the batch are closed: it is live no more.           *)
SettleOne(i) ==
    /\ steps = <<>> /\ pc \in {"settle", "halt"} /\ i \in batch
    /\ steps' = ToDo(i, session[i], SettleSteps(i))
    /\ session' = [session EXCEPT ![i] = "none"]
    /\ batch' = batch \ {i}
    /\ UNCHANGED <<tracker, run, moved, gating, pc, picks, exit, stops, bounds>>

(* An attempt that closed nothing may be the one that stalls the run.      *)
noProgress(i) ==
    /\ claims[i].kind # "lens" /\ claims[i].outcome # "open"
    /\ ~(claims[i].outcome = "done" /\ claims[i].pass = "green")

SettledAll ==
    \/ /\ batch = {} /\ Go("settle", "tick")
       /\ UNCHANGED <<tracker, run, moved, session, gating, picks, exit, batch, steps, stops, bounds>>
    \/ /\ batch = {} /\ \E i \in DOMAIN claims : noProgress(i)
       /\ Halt("settle", "stopped") /\ UNCHANGED stops

(* halt: every session is cancelled, and has its time to end.              *)
Cancel ==
    /\ Go("cancel", "grace")
    /\ stopping' = TRUE
    /\ UNCHANGED <<tracker, run, moved, session, gating, picks, exit, batch, steps, asked,
                   stopRequested, bounds>>

TimeUp ==
    /\ Go("grace", "halt")
    /\ batch' = Settled
    /\ UNCHANGED <<tracker, run, moved, session, gating, picks, exit, steps, stops, bounds>>

(* One the halt does not wait for any longer, its harness killed.          *)
Abandon(i) ==
    /\ batch = {} /\ Go("halt", "halt") /\ i \in Live
    /\ steps' = ToDo(i, "cancelled", AbandonSteps(i))
    /\ session' = [session EXCEPT ![i] = "none"]
    /\ UNCHANGED <<tracker, run, moved, gating, picks, exit, batch, stops, bounds>>

Finish ==
    /\ batch = {} /\ Live = {} /\ Go("halt", "off")
    /\ status' = exit
    /\ gating' = <<>> /\ picks' = <<>>
    /\ stopRequested' = FALSE /\ stopping' = FALSE
    /\ UNCHANGED <<tracker, claims, lastPass, moved, session, exit, batch, steps, asked, bounds>>

-----------------------------------------------------------------------------
(* What runs beside the loop: sessions, gates, the inbox, humans           *)

Working(i) ==
    /\ session[i] = "working"
    /\ UNCHANGED <<run, place, stops, bounds>>

Edit(i) ==
    /\ Working(i)
    /\ moved' = TRUE
    /\ UNCHANGED <<tracker, session, gating>>

(* The agent closes or parks its subtask, the lens files, the fixer closes.*)
AgentMoves(i) ==
    /\ Working(i)
    /\ CASE claims[i].kind = "implement" ->
              /\ isActive(claims[i].task)
              /\ \E s \in {"done", "parked"} : state' = [state EXCEPT ![claims[i].task] = s]
              /\ UNCHANGED finding
         [] claims[i].kind = "lens" ->
              finding = "none" /\ finding' = "open" /\ UNCHANGED state
         [] claims[i].kind = "fix" ->
              finding = "open" /\ finding' = "closed" /\ UNCHANGED state
    /\ UNCHANGED <<ours, moved, session, gating>>

(* What a turn that ended leaves the session's outcome to be, once no      *)
(* continuation is granted; a harness may fail at any time, and a cancelled*)
(* session may still have been at the end of its turn.                     *)
afterTurn(i) ==
    {"error"}
    \cup (IF pc \in {"grace", "halt"} THEN {"cancelled"} ELSE {})
    \cup (CASE claims[i].kind = "lens" -> {"done", "incomplete"}
            [] claims[i].kind = "fix" -> {IF finding = "open" THEN "incomplete" ELSE "done"}
            [] OTHER -> {IF state[claims[i].task] \in Closed THEN "done" ELSE "incomplete"})

(* A session that closed its subtask is followed by the gates, while the   *)
(* claim still holds it.                                                   *)
gatesAfter(i, outcome) ==
    ~onParent(i) /\ outcome = "done" /\ state[claims[i].task] = "done" /\ ~stopping

SessionEnds(i) ==
    /\ Working(i)
    /\ \E outcome \in afterTurn(i) :
          IF gatesAfter(i, outcome)
          THEN /\ session' = [session EXCEPT ![i] = "gating"]
               /\ gating' = Append(gating, i)
          ELSE session' = [session EXCEPT ![i] = outcome] /\ UNCHANGED gating
    /\ UNCHANGED <<tracker, moved>>

(* One pass at a time.  A stop kills the one running, unless it ends first,*)
(* and those behind it before they begin; a killed gate says nothing.      *)
verdicts == IF stopping THEN {"green", "red", "killed"} ELSE {"green", "red"}
behind == IF stopping THEN Range(Tail(gating)) ELSE {}

GateEnd ==
    /\ gating # <<>>
    /\ \E v \in verdicts :
          /\ lastPass' = IF v = "green" /\ behind = {} THEN "green" ELSE "red"
          /\ claims' = [i \in DOMAIN claims |->
                           IF i = Head(gating) THEN [claims[i] EXCEPT !.pass = v]
                           ELSE IF i \in behind THEN [claims[i] EXCEPT !.pass = "killed"]
                           ELSE claims[i]]
    /\ moved' = FALSE
    /\ gating' = IF stopping THEN <<>> ELSE Tail(gating)
    /\ session' = [i \in Id |-> IF session[i] = "gating" /\ i \in {Head(gating)} \cup behind
                                THEN "done" ELSE session[i]]
    /\ UNCHANGED <<tracker, status, place, stops, bounds>>

(* While the runner waits for a pass of its own it still hears a stop, and *)
(* the gates hear it.                                                      *)
StopAtTick == UNCHANGED stopping
StopNow == stopping' = TRUE

HearStop ==
    /\ pc \in {"recover", "judge"} /\ asked
    /\ ReadInbox /\ StopNow
    /\ UNCHANGED <<tracker, run, moved, session, gating, place, bounds>>

AskStop ==
    /\ status = "running" /\ pc # "off" /\ ~asked /\ ~stopRequested
    /\ asked' = TRUE
    /\ UNCHANGED <<tracker, run, moved, session, gating, place, stopRequested, stopping, bounds>>

(* A human closes, parks, reopens or takes a subtask.                      *)
Human(t) ==
    /\ moves < plan.moves /\ moves' = moves + 1
    /\ \E s \in State \ {state[t]} :
          /\ state' = [state EXCEPT ![t] = s]
          /\ ours' = [ours EXCEPT ![t] = @ /\ s # "in_progress"]
    /\ UNCHANGED <<finding, run, moved, session, gating, place, stops, crashes, lost>>

(* The runner dies, and the harnesses it drove with it.                    *)
Crash ==
    /\ pc # "off" /\ crashes < plan.crashes
    /\ crashes' = crashes + 1
    /\ lost' = lost \cup (IF pc = "launch" THEN {Head(picks)} ELSE {})
    /\ pc' = "off" /\ picks' = <<>> /\ exit' = "stopped" /\ batch' = {} /\ steps' = <<>>
    /\ session' = [i \in Id |-> "none"] /\ gating' = <<>>
    /\ stopRequested' = FALSE /\ stopping' = FALSE
    /\ UNCHANGED <<tracker, run, moved, asked, moves>>

-----------------------------------------------------------------------------

Main ==
    \/ CloseClaim \/ Boot \/ Recover
    \/ Tick \/ Load \/ Recheck \/ Take \/ Launch
    \/ Review \/ Paused \/ StartLens \/ StartFixer \/ Judge
    \/ Nap \/ SettledAll \/ \E i \in Id : SettleOne(i)
    \/ Cancel \/ TimeUp \/ Finish \/ \E i \in Id : Abandon(i)

Next ==
    /\ \/ Main
       \/ \E i \in Id : Edit(i) \/ AgentMoves(i) \/ SessionEnds(i)
       \/ GateEnd \/ HearStop \/ AskStop \/ Crash
       \/ \E t \in Task : Human(t)
    /\ UNCHANGED plan

Spec == Init /\ [][Next]_vars

(* The runner goes on, its timer ticks, and a gate ends once it is killed. *)
(* A harness or a gate may take for ever by itself.                        *)
FairSpec ==
    /\ Spec
    /\ WF_vars(pc # "off" /\ Main /\ UNCHANGED plan)
    /\ WF_vars(HearStop /\ UNCHANGED plan)
    /\ WF_vars(stopping /\ GateEnd /\ UNCHANGED plan)

-----------------------------------------------------------------------------
(* Properties                                                              *)

(* While the runner goes on, no two claims on a subtask are open, and one  *)
(* is open exactly as long as its session is live or it is being closed:   *)
(* whatever died with an earlier runner, nothing is held by nobody.        *)
BeingClosed == {steps[n].claim : n \in DOMAIN steps}
HeldBySomeone ==
    pc \notin {"off", "recover"} =>
        /\ Open = Live \cup BeingClosed
        /\ \A i, j \in Open : claims[i].task = claims[j].task => i = j

(* A subtask in progress for the harness is held by an open claim, which a *)
(* restart closes; only a death between taking it and writing the claim    *)
(* down leaves one nobody releases.                                        *)
BeingTaken == IF pc = "launch" THEN {Head(picks)} ELSE {}
NoneStranded ==
    \A t \in Task : isActive(t) =>
        t \in {claims[i].task : i \in Open} \cup BeingTaken \cup lost

(* A claim never ends with a red pass of its own not acted upon, through   *)
(* crashes, so no session starts on what a subtask blocks while a gate's   *)
(* verdict on it is out.                                                   *)
VerdictOut(t) == \E i \in Open : claims[i].task = t
StartsAfterVerdicts ==
    [][Len(claims') > Len(claims) =>
        \A b \in Task : <<b, claims'[Len(claims')].task>> \in plan.blocks => ~VerdictOut(b)]_vars

(* A red pass of a subtask's own reopens it before its claim ends, also    *)
(* when the runner died between the two; a human may close it again, and a *)
(* session the halt gave up on has no pass to record.                      *)
RedReopens ==
    [][\A i \in Open :
          claims'[i].outcome \notin {"open", "cancelled"} /\ claims[i].pass = "red" /\ moves = 0
          => state[claims[i].task] # "done"]_vars

(* A completed run's last pass was green, and nothing changed since.       *)
CompletedChecked == status = "completed" => lastPass = "green" /\ ~moved

(* The lens reviews once and the fixer has one pass, however often the     *)
(* runner dies: only an interrupted one runs again.                        *)
EachPhaseOnce ==
    \A i, j \in DOMAIN claims :
        /\ onParent(i) /\ claims[i].kind = claims[j].kind
        /\ claims[i].outcome # "interrupted" /\ claims[j].outcome # "interrupted"
        => i = j

(* A stop asked of a live runner ends it, in a gate and in recovery too.   *)
StopEnds == (asked /\ pc # "off") ~> (pc = "off")

(* A session that ended has its claim closed, unless the runner dies first.*)
EndedIsSettled ==
    \A i \in Id : (i \in Settled /\ pc # "off") ~> (i \notin Open \/ pc = "off")

=============================================================================
