-------------------------- MODULE LoopRunnerProofs --------------------------
(***************************************************************************)
(* LoopRunner, for any subtasks, plans, sessions and bounds: what a claim  *)
(* holds, who closes it, and what a run does once, through every crash.    *)
(***************************************************************************)
EXTENDS LoopRunner, FiniteSetTheorems, SequenceTheorems, TLAPS

-----------------------------------------------------------------------------
(* The inductive invariant                                                 *)

HeldTasks == {claims[i].task : i \in Open}

(* Subtasks are implemented, the parent is reviewed and fixed, without     *)
(* gates; no subtask is claimed twice at once; and of the reviews only the *)
(* last was not interrupted.                                               *)
ClaimsInv ==
    /\ \A i \in DOMAIN claims :
          IF onParent(i) THEN claims[i].task = Parent /\ claims[i].pass = "none"
          ELSE claims[i].task \in Task
    /\ \A i, j \in Open : claims[i].task = claims[j].task => i = j
    /\ \A i, j \in DOMAIN claims :
          i < j /\ onParent(i) /\ claims[i].kind = claims[j].kind
          => claims[i].outcome = "interrupted"

(* Who holds the open claims: while the runner goes on, its live sessions  *)
(* and what it is closing.                                                 *)
LiveInv ==
    /\ Live \subseteq Open
    /\ pc \in {"off", "recover", "review", "judge"} => Live = {}
    /\ pc \notin {"off", "recover"} => Open = Live \cup BeingClosed

(* One claim at a time is closed, and last of all its outcome is written:  *)
(* once its subtask is released, and reopened if its own pass was red.     *)
Left(what) == \E n \in DOMAIN steps : steps[n].do = what
Closing(c, how) ==
    /\ pc \in {"recover", "settle", "halt"}
    /\ c \in Open \ Live
    /\ \A n \in DOMAIN steps :
          /\ steps[n].claim = c /\ steps[n].outcome = how
          /\ steps[n].do = "patch" <=> n = Len(steps)
          /\ steps[n].do \in {"pass", "passing"} =>
                n = 1 /\ pc = "recover" /\ ~onParent(c) /\ Left("record")
    /\ ~onParent(c) =>
          /\ Left("release") \/ ~isActive(claims[c].task)
          /\ \/ Left("record") \/ how = "cancelled" \/ claims[c].pass # "red" \/ moves # 0
             \/ state[claims[c].task] # "done"
ClosingInv == steps # <<>> => \E c \in DOMAIN claims, how \in Outcome : Closing(c, how)

(* What is about to be claimed is held by nobody, nor is what blocks it.   *)
Free(t) == t \notin HeldTasks /\ \A b \in blockers(t) : b \notin HeldTasks /\ b \notin Range(picks)
PicksInv ==
    pc \in {"claim", "take", "launch"} =>
        /\ picks # <<>> /\ steps = <<>>
        /\ Len(picks) + Len(claims) <= plan.claims
        /\ \A n \in DOMAIN picks : Free(picks[n])
        /\ \A m, n \in DOMAIN picks : picks[m] = picks[n] => m = n

(* What waits for a pass is a session in its gates, a claim recovered, the *)
(* run itself, or a session the halt gave up on.                           *)
Passing(i) == steps # <<>> /\ steps[1].do = "passing" /\ steps[1].claim = i
GivenUp(i) ==
    /\ pc = "halt"
    /\ \/ claims[i].outcome = "cancelled"
       \/ steps # <<>> /\ steps[1].claim = i /\ steps[1].outcome = "cancelled"
Waits(i) ==
    /\ i = FINAL => pc = "judge"
    /\ i # FINAL => /\ i \in DOMAIN claims /\ ~onParent(i)
                    /\ session[i] = "gating" \/ Passing(i) \/ GivenUp(i)
QueueInv ==
    /\ pc = "off" => gating = <<>>
    /\ \A n \in DOMAIN gating : Waits(gating[n])
    /\ \A m, n \in DOMAIN gating : gating[m] = gating[n] => m = n

BatchInv == pc \in {"settle", "halt"} => batch \subseteq Settled

(* A run that is to end completed, or did, is as it was checked.           *)
RunInv ==
    /\ pc # "off" => status = "running"
    /\ pc = "off" => steps = <<>>
    /\ pc \in {"cancel", "grace", "halt"} /\ exit = "completed" =>
          checked /\ Live = {} /\ gating = <<>> /\ steps = <<>>
    /\ status = "completed" => checked

(* Until a human moves one, a subtask once claimed is the harness's.       *)
OursInv ==
    moves = 0 => /\ \A i \in DOMAIN claims : ~onParent(i) => ours[claims[i].task]
                 /\ pc = "launch" => ours[Head(picks)]

IInv ==
    /\ TypeOK /\ ClaimsInv /\ LiveInv /\ ClosingInv /\ PicksInv /\ QueueInv /\ BatchInv
    /\ RunInv /\ OursInv /\ NoneStranded

-----------------------------------------------------------------------------
(* Types                                                                   *)


LEMMA TypeFacts ==
    ASSUME TypeOK
    PROVE  /\ claims \in Seq(Claim) /\ Len(claims) \in Nat /\ DOMAIN claims = 1 .. Len(claims)
           /\ DOMAIN claims \subseteq Id /\ FINAL \notin DOMAIN claims
           /\ \A i \in DOMAIN claims : claims[i] \in Claim
           /\ Len(claims) <= plan.claims /\ plan.claims \in 0 .. CLAIMS
           /\ plan.blocks \subseteq Task \X Task
           /\ session \in [Id -> {"none", "working", "gating"} \cup Outcome]
           /\ steps \in Seq(Close) /\ Len(steps) \in Nat /\ DOMAIN steps = 1 .. Len(steps)
           /\ \A n \in DOMAIN steps : steps[n] \in Close
           /\ steps # <<>> => 1 \in DOMAIN steps /\ Head(steps) = steps[1]
           /\ picks \in Seq(Task) /\ Len(picks) \in Nat /\ DOMAIN picks = 1 .. Len(picks)
           /\ gating \in Seq(Id \cup {FINAL}) /\ Len(gating) \in Nat
           /\ DOMAIN gating = 1 .. Len(gating)
PROOF
<1>1. /\ claims \in Seq(Claim) /\ Len(claims) \in Nat /\ DOMAIN claims = 1 .. Len(claims)
      /\ \A i \in DOMAIN claims : claims[i] \in Claim
  BY DEF TypeOK
<1>2. /\ Len(claims) <= plan.claims /\ plan.claims \in 0 .. CLAIMS
      /\ plan.blocks \subseteq Task \X Task
      /\ CLAIMS \in Nat
  BY LoopAssumption DEF TypeOK
<1>3. DOMAIN claims \subseteq Id /\ FINAL \notin DOMAIN claims
  BY <1>1, <1>2 DEF Id, FINAL
<1>4. session \in [Id -> {"none", "working", "gating"} \cup Outcome]
  BY DEF TypeOK
<1>5. /\ steps \in Seq(Close) /\ Len(steps) \in Nat /\ DOMAIN steps = 1 .. Len(steps)
      /\ \A n \in DOMAIN steps : steps[n] \in Close
  BY DEF TypeOK
<1>6. steps # <<>> => 1 \in DOMAIN steps /\ Head(steps) = steps[1]
  BY <1>5
<1>7. picks \in Seq(Task) /\ Len(picks) \in Nat /\ DOMAIN picks = 1 .. Len(picks)
  BY DEF TypeOK
<1>8. gating \in Seq(Id \cup {FINAL}) /\ Len(gating) \in Nat /\ DOMAIN gating = 1 .. Len(gating)
  BY DEF TypeOK
<1> QED
  BY <1>1, <1>2, <1>3, <1>4, <1>5, <1>6, <1>7, <1>8

-----------------------------------------------------------------------------
(* A turn: the runner goes from one place to another and touches nothing   *)

Turn ==
    /\ UNCHANGED <<state, ours, finding, plan, claims, lastPass, moved, session, gating,
                   lost, moves, crashes>>
    /\ steps = <<>> /\ steps' = <<>>
    /\ pc # "launch" /\ pc' \notin {"launch", "off"}
    /\ gating = <<>> \/ pc' = pc \/ pc \notin {"judge", "halt"}
    /\ pc' \in {"recover", "review", "judge"} => Live = {}
    /\ pc' # "recover" => Open = Live
    /\ status' = "running"
    /\ pc' \in {"cancel", "grace", "halt"} /\ exit' = "completed" =>
          checked /\ Live = {} /\ gating = <<>>

LEMMA TurnKeeps ==
    ASSUME IInv, TypeOK', Turn, PicksInv', BatchInv'
    PROVE  IInv'
PROOF
<1>1. /\ state' = state /\ ours' = ours /\ plan' = plan /\ claims' = claims /\ session' = session
      /\ gating' = gating /\ lost' = lost /\ moves' = moves /\ lastPass' = lastPass
      /\ moved' = moved
      /\ steps = <<>> /\ steps' = <<>> /\ pc # "launch" /\ pc' # "launch"
  BY DEF Turn
<1>2. Open' = Open /\ Live' = Live /\ BeingClosed' = {}
  BY <1>1 DEF Open, Live, BeingClosed
<1>3. ClaimsInv'
  BY <1>1, <1>2 DEF IInv, ClaimsInv, onParent
<1>4. LiveInv'
  BY <1>1, <1>2 DEF IInv, LiveInv, Turn
<1>5. ClosingInv'
  BY <1>1 DEF ClosingInv
<1>6. QueueInv'
  <2>1. QueueInv
    BY DEF IInv
  <2>2. ASSUME NEW n \in DOMAIN gating PROVE Waits(gating[n])'
    <3>1. Waits(gating[n])
      BY <2>1 DEF QueueInv
    <3>2. pc' = pc \/ pc \notin {"judge", "halt"}
      BY <2>2 DEF Turn
    <3> QED
      BY <1>1, <3>1, <3>2 DEF Waits, Passing, GivenUp, onParent
  <2> QED
    BY <1>1, <2>1, <2>2 DEF QueueInv, Turn
<1>7. RunInv'
  BY <1>1, <1>2 DEF RunInv, Turn, checked
<1>8. OursInv'
  BY <1>1 DEF IInv, OursInv, onParent
<1>9. NoneStranded'
  BY <1>1, <1>2 DEF IInv, NoneStranded, BeingTaken, isActive
<1> QED
  BY <1>3, <1>4, <1>5, <1>6, <1>7, <1>8, <1>9 DEF IInv

(* Between two claims' ends, the open claims are those of live sessions.   *)
LEMMA Idle ==
    ASSUME IInv, steps = <<>>, pc \notin {"off", "recover"}
    PROVE  Open = Live
PROOF
<1>1. BeingClosed = {}
  BY DEF BeingClosed
<1> QED
  BY <1>1 DEF IInv, LiveInv

LEMMA BootKeeps ==
    ASSUME IInv, Boot, plan' = plan
    PROVE  IInv'
PROOF
<1>1. /\ pc = "off" /\ pc' = "recover" /\ status' = "running" /\ steps' = <<>> /\ steps = <<>>
      /\ UNCHANGED <<tracker, claims, lastPass, moved, session, gating, picks, exit, batch, steps,
                   stops, bounds>>
  BY DEF Boot, Go
<1>2. TypeOK'
  BY <1>1 DEF IInv, TypeOK, tracker, stops, bounds, Live
<1>3. Live = {} /\ gating = <<>>
  BY <1>1 DEF IInv, LiveInv, QueueInv
<1>4. Turn
  BY <1>1, <1>3 DEF Turn, tracker, bounds
<1>5. PicksInv' /\ BatchInv'
  BY <1>1 DEF PicksInv, BatchInv
<1> QED
  BY <1>2, <1>4, <1>5, TurnKeeps

(* A turn of the loop that changes none but the runner's own.              *)
Loops ==
    /\ UNCHANGED <<tracker, run, plan, moved, session, gating, bounds>>
    /\ steps = <<>> /\ steps' = <<>>
    /\ pc \notin {"off", "launch", "halt"} /\ pc' \notin {"off", "recover", "launch"}
    /\ pc = "judge" => gating = <<>>
    /\ pc' \in {"review", "judge"} => Live = {}
    /\ pc' \in {"cancel", "grace", "halt"} /\ exit' = "completed" =>
          (checked /\ Live = {} /\ gating = <<>>)
          \/ (pc \in {"cancel", "grace"} /\ exit = "completed")
    /\ pc = "recover" => Open = {}

LEMMA LoopsKeeps ==
    ASSUME IInv, TypeOK', Loops, PicksInv', BatchInv'
    PROVE  IInv'
PROOF
<1>1. Open = Live
  BY Idle DEF Loops, IInv, LiveInv
<1>2. status = "running"
  BY DEF Loops, IInv, RunInv
<1>3. pc \in {"cancel", "grace"} /\ exit = "completed" => checked /\ Live = {} /\ gating = <<>>
  BY DEF IInv, RunInv
<1>4. Turn
  BY <1>1, <1>2, <1>3 DEF Loops, Turn, tracker, run, bounds
<1> QED
  BY <1>4, TurnKeeps

LEMMA TickKeeps ==
    ASSUME IInv, Tick, plan' = plan
    PROVE  IInv'
PROOF
<1>1. /\ pc = "tick" /\ steps = <<>> /\ steps' = steps
      /\ UNCHANGED <<tracker, run, moved, session, gating, picks, batch, bounds, stopping>>
      /\ asked' = FALSE /\ stopRequested' = (stopRequested \/ asked)
      /\ (pc' = "cancel" /\ exit' = "stopped") \/ (pc' = "load" /\ exit' = exit)
  BY DEF Tick, Halt, Go, ReadInbox
<1>2. TypeOK'
  BY <1>1 DEF IInv, TypeOK, tracker, run, bounds, Live
<1>3. Loops
  BY <1>1 DEF Loops
<1>4. PicksInv' /\ BatchInv'
  BY <1>1 DEF PicksInv, BatchInv
<1> QED
  BY <1>2, <1>3, <1>4, LoopsKeeps

(* The run is reviewed with nothing going on.                              *)
LEMMA ReviewQuiet ==
    ASSUME IInv, pc = "review", steps = <<>>
    PROVE  Live = {} /\ gating = <<>>
PROOF
<1>1. Live = {}
  BY DEF IInv, LiveInv
<1>2. ASSUME NEW n \in DOMAIN gating PROVE FALSE
  <2>1. Waits(gating[n])
    BY DEF IInv, QueueInv
  <2>2. gating[n] \in DOMAIN claims /\ session[gating[n]] = "gating"
    BY <2>1 DEF Waits, Passing, GivenUp
  <2>3. gating[n] \in Live
    BY <2>2, TypeFacts DEF Live, IInv
  <2> QED
    BY <1>1, <2>3
<1>3. gating \in Seq(Id \cup {FINAL}) /\ Len(gating) \in Nat /\ DOMAIN gating = 1 .. Len(gating)
  BY TypeFacts DEF IInv
<1>4. Len(gating) = 0
  <2>1. 1 \notin DOMAIN gating
    BY <1>2
  <2> QED
    BY <1>3, <2>1
<1>5. gating = <<>>
  BY <1>3, <1>4
<1> QED
  BY <1>1, <1>5

LEMMA ReviewHaltKeeps ==
    ASSUME IInv, plan' = plan, NEW how \in {"completed", "stopped"},
           NEW from \in {"review", "judge", "settle"},
           Halt(from, how), UNCHANGED stops,
           how = "completed" => from = "review" /\ checked,
           from = "judge" => gating = <<>>
    PROVE  IInv'
PROOF
<1>1. /\ pc = from /\ pc' = "cancel" /\ exit' = how /\ steps = <<>>
      /\ UNCHANGED <<tracker, run, moved, session, gating, picks, batch, steps, bounds>>
  BY DEF Halt, Go
<1>2. TypeOK'
  BY <1>1 DEF IInv, TypeOK, tracker, run, bounds, Live, stops
<1>3. from = "review" => Live = {} /\ gating = <<>>
  BY <1>1, ReviewQuiet
<1>4. Loops
  BY <1>1, <1>3 DEF Loops
<1>5. PicksInv' /\ BatchInv'
  BY <1>1 DEF PicksInv, BatchInv
<1> QED
  BY <1>2, <1>4, <1>5, LoopsKeeps

(* The rest of the turns.                                                  *)
LEMMA TurnsKeep ==
    ASSUME IInv, plan' = plan, Paused \/ Nap \/ Cancel \/ TimeUp \/ Judge \/ SettledAll
    PROVE  IInv'
PROOF
<1>1. ASSUME steps = <<>>,
             UNCHANGED <<tracker, run, moved, session, gating, picks, exit, steps, bounds>>,
             asked' = asked, stopRequested' = stopRequested, stopping' \in BOOLEAN,
             batch' \subseteq Id, BatchInv',
             \/ pc = "review" /\ pc' = "nap"
             \/ pc = "nap" /\ pc' \in {"tick", "settle"}
             \/ pc = "cancel" /\ pc' = "grace"
             \/ pc = "grace" /\ pc' = "halt"
             \/ pc = "judge" /\ gating = <<>> /\ pc' = "nap"
             \/ pc = "settle" /\ pc' = "tick"
      PROVE  IInv'
  <2>1. TypeOK'
    BY <1>1 DEF IInv, TypeOK, tracker, run, bounds, Live
  <2>2. Loops
    BY <1>1 DEF Loops
  <2>3. PicksInv'
    BY <1>1 DEF PicksInv
  <2> QED
    BY <1>1, <2>1, <2>2, <2>3, LoopsKeeps
<1>2. batch \subseteq Id /\ stopping \in BOOLEAN /\ Settled \subseteq Id
  BY DEF IInv, TypeOK, Settled
<1>3. CASE Paused
  BY <1>1, <1>2, <1>3 DEF Paused, Go, stops, BatchInv
<1>4. CASE Nap
  BY <1>1, <1>2, <1>4 DEF Nap, Go, stops, BatchInv, Ended, Settled
<1>5. CASE Cancel
  BY <1>1, <1>2, <1>5 DEF Cancel, Go, BatchInv
<1>6. CASE TimeUp
  BY <1>1, <1>2, <1>6 DEF TimeUp, Go, stops, BatchInv, Settled
<1>7. CASE Judge
  <2>1. CASE Halt("judge", "stopped") /\ UNCHANGED stops /\ gating = <<>>
    BY <2>1, ReviewHaltKeeps
  <2>2. CASE ~(Halt("judge", "stopped") /\ UNCHANGED stops /\ gating = <<>>)
    BY <1>1, <1>2, <1>7, <2>2 DEF Judge, Go, stops, BatchInv
  <2> QED
    BY <2>1, <2>2
<1>8. CASE SettledAll
  <2>1. CASE Halt("settle", "stopped") /\ UNCHANGED stops
    BY <2>1, ReviewHaltKeeps
  <2>2. CASE ~(Halt("settle", "stopped") /\ UNCHANGED stops)
    BY <1>1, <1>2, <1>8, <2>2 DEF SettledAll, Go, stops, BatchInv
  <2> QED
    BY <2>1, <2>2
<1> QED
  BY <1>3, <1>4, <1>5, <1>6, <1>7, <1>8

-----------------------------------------------------------------------------
(* A claim begins to be closed                                             *)

Doing == {"pass", "passing", "release", "record", "patch"}
ListFor(todo, c, how) ==
    /\ todo \in Seq(Doing) /\ Len(todo) > 0
    /\ \A n \in 1 .. Len(todo) :
          /\ todo[n] = "patch" <=> n = Len(todo)
          /\ todo[n] \in {"pass", "passing"} =>
                n = 1 /\ pc = "recover" /\ ~onParent(c) /\ how # "cancelled"
    /\ ~onParent(c) => \E n \in 1 .. Len(todo) : todo[n] = "release"
    /\ how = "cancelled" \/ onParent(c) \/ \E n \in 1 .. Len(todo) : todo[n] = "record"

LEMMA ToDoFacts ==
    ASSUME NEW c \in Id, NEW how \in Outcome, NEW todo \in Seq(Doing)
    PROVE  /\ ToDo(c, how, todo) \in Seq(Close) /\ Len(ToDo(c, how, todo)) = Len(todo)
           /\ DOMAIN ToDo(c, how, todo) = 1 .. Len(todo)
           /\ \A n \in 1 .. Len(todo) :
                 ToDo(c, how, todo)[n] = [claim |-> c, do |-> todo[n], outcome |-> how]
PROOF
<1>1. Len(todo) \in Nat /\ DOMAIN todo = 1 .. Len(todo) /\ \A n \in 1 .. Len(todo) : todo[n] \in Doing
  OBVIOUS
<1>2. \A n \in 1 .. Len(todo) : [claim |-> c, do |-> todo[n], outcome |-> how] \in Close
  BY <1>1 DEF Close, Doing
<1>3. PICK l : l = ToDo(c, how, todo)
  OBVIOUS
<1>4. l = [n \in 1 .. Len(todo) |-> [claim |-> c, do |-> todo[n], outcome |-> how]]
  BY <1>1, <1>3 DEF ToDo
<1>5. l \in [1 .. Len(todo) -> Close]
  BY <1>2, <1>4
<1>6. l \in Seq(Close) /\ Len(l) = Len(todo)
  BY <1>1, <1>5, SeqDef
<1> QED
  BY <1>3, <1>4, <1>6

LEMMA ClosingBegins ==
    ASSUME IInv, steps = <<>>, pc \in {"recover", "settle", "halt"}, pc' = pc,
           NEW c \in Open, NEW how \in Outcome, NEW todo, ListFor(todo, c, how),
           steps' = ToDo(c, how, todo), session' = [session EXCEPT ![c] = "none"],
           session[c] = "gating" => pc = "halt" /\ how = "cancelled",
           UNCHANGED <<tracker, run, plan, moved, gating, picks, exit, stops, bounds>>,
           batch' \subseteq batch, pc = "settle" => c \notin batch', pc = "halt" => c \notin batch'
    PROVE  IInv'
PROOF
<1>0. TypeOK
  BY DEF IInv
<1>1. /\ state' = state /\ ours' = ours /\ claims' = claims /\ moves' = moves /\ lost' = lost
      /\ gating' = gating /\ exit' = exit /\ status' = status /\ lastPass' = lastPass
      /\ moved' = moved
  BY DEF tracker, run, bounds
<1>2. c \in DOMAIN claims /\ c \in Id /\ c \in Open
  BY <1>0, TypeFacts DEF Open
<1>3. /\ steps' \in Seq(Close) /\ Len(steps') = Len(todo) /\ Len(todo) \in Nat /\ Len(todo) > 0
      /\ DOMAIN steps' = 1 .. Len(todo)
      /\ \A n \in 1 .. Len(todo) : steps'[n] = [claim |-> c, do |-> todo[n], outcome |-> how]
  BY <1>2, ToDoFacts DEF ListFor
<1>4. 1 \in DOMAIN steps' /\ steps' # <<>>
  BY <1>3
<1>5. /\ session' \in [Id -> {"none", "working", "gating"} \cup Outcome] /\ session'[c] = "none"
      /\ \A i \in Id \ {c} : session'[i] = session[i]
  BY <1>0, <1>2, TypeFacts
<1>6. Open' = Open /\ Live' = Live \ {c}
  BY <1>1, <1>2, <1>5 DEF Open, Live
<1>7. BeingClosed' = {c}
  BY <1>3, <1>4 DEF BeingClosed
<1>8. TypeOK'
  <2>1. batch' \subseteq Id /\ Live' \subseteq DOMAIN claims'
    BY <1>0, <1>1, <1>6 DEF TypeOK
  <2> QED
    BY <1>0, <1>3, <1>5, <2>1 DEF TypeOK, tracker, run, stops, bounds
<1>9. ClaimsInv'
  BY <1>1, <1>6 DEF IInv, ClaimsInv, onParent
<1>10. LiveInv'
  <2>1. CASE pc = "recover"
    BY <1>6, <2>1 DEF IInv, LiveInv
  <2>2. CASE pc # "recover"
    <3>1. Open = Live
      BY <2>2, Idle
    <3> QED
      BY <1>2, <1>6, <1>7, <2>2, <3>1 DEF LiveInv
  <2> QED
    BY <2>1, <2>2
<1>11. ClosingInv'
  <2>1. \A n \in DOMAIN steps' :
          /\ steps'[n].claim = c /\ steps'[n].outcome = how /\ steps'[n].do = todo[n]
    BY <1>3
  <2>2. ASSUME NEW n \in DOMAIN steps'
        PROVE  steps'[n].do = "patch" <=> n = Len(steps')
    <3>1. n \in 1 .. Len(todo) /\ steps'[n].do = todo[n] /\ Len(steps') = Len(todo)
      BY <1>3, <2>1
    <3>2. todo[n] = "patch" <=> n = Len(todo)
      BY <3>1 DEF ListFor
    <3> QED
      BY <3>1, <3>2
  <2>4. ~onParent(c) => Left("release")' /\ (Left("record")' \/ how = "cancelled")
    <3>1. ASSUME NEW what, NEW n \in 1 .. Len(todo), todo[n] = what PROVE Left(what)'
      BY <1>3, <2>1, <3>1 DEF Left
    <3> QED
      BY <3>1 DEF ListFor
  <2>3. \A n \in DOMAIN steps' :
          steps'[n].do \in {"pass", "passing"} =>
             n = 1 /\ pc' = "recover" /\ ~onParent(c) /\ Left("record")'
    BY <1>3, <2>1, <2>4 DEF ListFor
  <2>5. onParent(c)' <=> onParent(c)
    BY <1>1 DEF onParent
  <2>6. Closing(c, how)'
    BY <1>6, <1>2, <2>1, <2>2, <2>3, <2>4, <2>5 DEF Closing
  <2> QED
    BY <1>1, <1>2, <2>6 DEF ClosingInv
<1>12. PicksInv' /\ BatchInv'
  <2>1. pc \in {"settle", "halt"} => batch \subseteq Settled /\ c \notin batch'
    BY DEF IInv, BatchInv
  <2> QED
    BY <1>5, <2>1 DEF PicksInv, BatchInv, Settled
<1>13. QueueInv'
  <2>1. QueueInv
    BY DEF IInv
  <2>2. ASSUME NEW n \in DOMAIN gating PROVE Waits(gating[n])'
    <3>1. Waits(gating[n])
      BY <2>1 DEF QueueInv
    <3>2. CASE gating[n] = c
      <4>1. session[c] = "gating" \/ claims[c].outcome = "cancelled"
        BY <1>2, <3>1, <3>2, <1>0, TypeFacts DEF Waits, Passing, GivenUp
      <4>2. claims[c].outcome = "open"
        BY <1>2 DEF Open
      <4>3. pc' = "halt" /\ steps'[1].claim = c /\ steps'[1].outcome = "cancelled"
        BY <4>1, <4>2, <1>3, <1>4
      <4> QED
        BY <1>1, <1>2, <1>4, <3>1, <3>2, <4>3 DEF Waits, GivenUp, onParent
    <3>3. CASE gating[n] # c
      <4>1. gating[n] # FINAL => gating[n] \in DOMAIN claims /\ gating[n] \in Id
        BY <1>0, <3>1, TypeFacts DEF Waits
      <4>2. ~Passing(gating[n])
        BY DEF Passing
      <4>3. GivenUp(gating[n]) => GivenUp(gating[n])'
        BY <1>1 DEF GivenUp
      <4> QED
        BY <1>1, <1>5, <3>1, <3>3, <4>1, <4>2, <4>3 DEF Waits, onParent
    <3> QED
      BY <3>2, <3>3
  <2> QED
    BY <1>1, <2>1, <2>2 DEF QueueInv
<1>14. RunInv'
  <2>1. pc = "halt" => c \in Live
    BY Idle
  <2>2. pc = "halt" => exit # "completed"
    BY <2>1 DEF IInv, RunInv
  <2> QED
    BY <1>1, <2>2 DEF IInv, RunInv, checked
<1>15. OursInv' /\ NoneStranded'
  BY <1>1, <1>6 DEF IInv, OursInv, NoneStranded, BeingTaken, isActive, onParent
<1> QED
  BY <1>8, <1>9, <1>10, <1>11, <1>12, <1>13, <1>14, <1>15 DEF IInv

LEMMA RecoverKeeps ==
    ASSUME IInv, Recover, plan' = plan
    PROVE  IInv'
PROOF
<1>0. TypeOK
  BY DEF IInv
<1>1. /\ pc = "recover" /\ steps = <<>>
      /\ UNCHANGED <<tracker, run, moved, session, gating, picks, exit, batch, stops, bounds>>
  BY DEF Recover, Go
<1>2. CASE Open = {} /\ Go("recover", "tick") /\ UNCHANGED steps
  <2>1. TypeOK'
    BY <1>0, <1>1, <1>2 DEF TypeOK, tracker, run, stops, bounds, Live, Go
  <2>2. Loops
    BY <1>1, <1>2 DEF Loops, Go
  <2>3. PicksInv' /\ BatchInv'
    BY <1>2 DEF PicksInv, BatchInv, Go
  <2> QED
    BY <2>1, <2>2, <2>3, LoopsKeeps
<1>3. ASSUME NEW i \in Open, Go("recover", "recover"),
             steps' = ToDo(i, "interrupted", RecoverSteps(i))
      PROVE  IInv'
  <2>1. session[i] = "none" /\ session' = [session EXCEPT ![i] = "none"]
    <3>1. i \in Id /\ i \notin Live
      BY <1>0, <1>1, TypeFacts DEF IInv, LiveInv, Open
    <3>2. session[i] = "none"
      BY <3>1 DEF Live
    <3> QED
      BY <1>0, <1>1, <3>1, <3>2, TypeFacts
  <2>2. ListFor(RecoverSteps(i), i, "interrupted")
    <3>1. CASE onParent(i)
      <4>1. RecoverSteps(i) = <<"patch">>
        BY <3>1 DEF RecoverSteps
      <4> QED
        BY <3>1, <4>1 DEF ListFor, Doing
    <3>2. CASE ~onParent(i)
      <4>1. PICK l : l = RecoverSteps(i) /\ l = <<"pass", "record", "release", "patch">>
        BY <3>2 DEF RecoverSteps
      <4>2. l \in Seq(Doing) /\ Len(l) = 4
        BY <4>1 DEF Doing
      <4>3. l[1] = "pass" /\ l[2] = "record" /\ l[3] = "release" /\ l[4] = "patch"
        BY <4>1
      <4>4. \A n \in 1 .. 4 : n = 1 \/ n = 2 \/ n = 3 \/ n = 4
        OBVIOUS
      <4> QED
        BY <1>1, <3>2, <4>1, <4>2, <4>3, <4>4 DEF ListFor
    <3> QED
      BY <3>1, <3>2
  <2>3. "interrupted" \in Outcome /\ pc' = pc
    BY <1>3 DEF Outcome, Go
  <2> QED
    BY <1>1, <1>3, <2>1, <2>2, <2>3, ClosingBegins
<1> QED
  BY <1>2, <1>3 DEF Recover

LEMMA SettleOneKeeps ==
    ASSUME IInv, NEW i \in Id, SettleOne(i), plan' = plan
    PROVE  IInv'
PROOF
<1>0. TypeOK
  BY DEF IInv
<1>1. /\ steps = <<>> /\ pc \in {"settle", "halt"} /\ i \in batch
      /\ steps' = ToDo(i, session[i], SettleSteps(i))
      /\ session' = [session EXCEPT ![i] = "none"] /\ batch' = batch \ {i}
      /\ UNCHANGED <<tracker, run, moved, gating, pc, picks, exit, stops, bounds>>
  BY DEF SettleOne
<1>2. session[i] \in Outcome /\ i \in Open
  <2>1. session[i] \in Outcome
    BY <1>1 DEF IInv, BatchInv, Settled
  <2>2. i \in Live
    BY <2>1 DEF Live, Outcome
  <2> QED
    BY <2>1, <2>2 DEF IInv, LiveInv
<1>3. PICK l : l = SettleSteps(i) /\ l = <<"release", "record", "patch">>
  BY DEF SettleSteps
<1>4. l \in Seq(Doing) /\ Len(l) = 3 /\ l[1] = "release" /\ l[2] = "record" /\ l[3] = "patch"
  BY <1>3 DEF Doing
<1>5. \A n \in 1 .. 3 : n = 1 \/ n = 2 \/ n = 3
  OBVIOUS
<1>6. ListFor(l, i, session[i])
  BY <1>4, <1>5 DEF ListFor
<1>7. session[i] # "gating"
  BY <1>2 DEF Outcome
<1> QED
  BY <1>1, <1>2, <1>3, <1>6, <1>7, ClosingBegins

LEMMA AbandonKeeps ==
    ASSUME IInv, NEW i \in Id, Abandon(i), plan' = plan
    PROVE  IInv'
PROOF
<1>1. /\ steps = <<>> /\ pc = "halt" /\ pc' = "halt" /\ batch = {} /\ i \in Live
      /\ steps' = ToDo(i, "cancelled", AbandonSteps(i))
      /\ session' = [session EXCEPT ![i] = "none"]
      /\ UNCHANGED <<tracker, run, moved, gating, picks, exit, batch, stops, bounds>>
  BY DEF Abandon, Go
<1>2. i \in Open /\ "cancelled" \in Outcome
  BY <1>1 DEF IInv, LiveInv, Outcome
<1>3. PICK l : l = AbandonSteps(i) /\ l = <<"release", "patch">>
  BY DEF AbandonSteps
<1>4. l \in Seq(Doing) /\ Len(l) = 2 /\ l[1] = "release" /\ l[2] = "patch"
  BY <1>3 DEF Doing
<1>5. \A n \in 1 .. 2 : n = 1 \/ n = 2
  OBVIOUS
<1>6. ListFor(l, i, "cancelled")
  BY <1>4, <1>5 DEF ListFor
<1> QED
  BY <1>1, <1>2, <1>3, <1>6, ClosingBegins

-----------------------------------------------------------------------------
(* A claim goes on being closed                                            *)

LEMMA ClosingFacts ==
    ASSUME TypeOK, steps # <<>>, NEW c \in DOMAIN claims, NEW how \in Outcome, Closing(c, how)
    PROVE  /\ next = steps[1] /\ 1 \in DOMAIN steps /\ steps[1] \in Close
           /\ steps[1].claim = c /\ steps[1].outcome = how /\ subject = claims[c].task
           /\ BeingClosed = {c}
           /\ steps[1].do = "patch" => Len(steps) = 1
PROOF
<1>1. next = steps[1] /\ 1 \in DOMAIN steps /\ steps[1] \in Close
  BY TypeFacts DEF next
<1>2. steps[1].claim = c /\ steps[1].outcome = how /\ (steps[1].do = "patch" => Len(steps) = 1)
  BY <1>1 DEF Closing
<1>3. BeingClosed = {c}
  BY <1>1, <1>2 DEF BeingClosed, Closing
<1> QED
  BY <1>1, <1>2, <1>3 DEF subject

LEMMA Popped ==
    ASSUME TypeOK, steps # <<>>, NEW c \in DOMAIN claims, NEW how \in Outcome, Closing(c, how), Done
    PROVE  /\ steps' \in Seq(Close) /\ Len(steps') = Len(steps) - 1
           /\ \A n \in DOMAIN steps' :
                 /\ steps'[n].claim = c /\ steps'[n].outcome = how
                 /\ steps'[n].do = "patch" <=> n = Len(steps')
                 /\ steps'[n].do \notin {"pass", "passing"}
           /\ \A what : Left(what) /\ steps[1].do # what => Left(what)'
           /\ steps[1].do # "patch" => steps' # <<>> /\ 1 \in DOMAIN steps' /\ BeingClosed' = {c}
           /\ steps[1].do = "patch" => steps' = <<>> /\ BeingClosed' = {}
PROOF
<1>1. /\ steps \in Seq(Close) /\ Len(steps) \in Nat /\ DOMAIN steps = 1 .. Len(steps)
      /\ 1 \in DOMAIN steps
  BY TypeFacts
<1>2. /\ steps' \in Seq(Close) /\ Len(steps') = Len(steps) - 1
      /\ \A n \in 1 .. Len(steps') : steps'[n] = steps[n + 1]
  BY <1>1, HeadTailProperties DEF Done
<1>3. DOMAIN steps' = 1 .. Len(steps') /\ Len(steps') \in Nat
  BY <1>2
<1>4. ASSUME NEW n \in DOMAIN steps'
      PROVE  /\ steps'[n].claim = c /\ steps'[n].outcome = how
             /\ steps'[n].do = "patch" <=> n = Len(steps')
             /\ steps'[n].do \notin {"pass", "passing"}
  <2>1. n + 1 \in DOMAIN steps /\ steps'[n] = steps[n + 1] /\ n + 1 # 1
    BY <1>1, <1>2, <1>3
  <2>2. n + 1 = Len(steps) <=> n = Len(steps')
    BY <1>1, <1>2, <1>3
  <2>3. /\ steps[n + 1].claim = c /\ steps[n + 1].outcome = how
        /\ steps[n + 1].do = "patch" <=> n + 1 = Len(steps)
        /\ steps[n + 1].do \notin {"pass", "passing"}
    BY <2>1 DEF Closing
  <2> QED
    BY <2>1, <2>2, <2>3
<1>5. ASSUME NEW what, Left(what), steps[1].do # what
      PROVE  Left(what)'
  <2>1. PICK n \in DOMAIN steps : steps[n].do = what
    BY <1>5 DEF Left
  <2>2. n # 1 /\ n - 1 \in DOMAIN steps' /\ steps'[n - 1] = steps[n - 1 + 1] /\ n - 1 + 1 = n
    BY <1>1, <1>2, <1>3, <1>5, <2>1
  <2> QED
    BY <2>1, <2>2 DEF Left
<1>6. ASSUME steps[1].do # "patch"
      PROVE  steps' # <<>> /\ 1 \in DOMAIN steps' /\ BeingClosed' = {c}
  <2>1. Len(steps) # 1
    BY <1>1, <1>6 DEF Closing
  <2>2. 1 \in DOMAIN steps' /\ steps' # <<>>
    BY <1>1, <1>2, <1>3, <2>1
  <2> QED
    BY <1>4, <2>2 DEF BeingClosed
<1>7. ASSUME steps[1].do = "patch"
      PROVE  steps' = <<>> /\ BeingClosed' = {}
  <2>1. Len(steps) = 1
    BY <1>1, <1>7 DEF Closing
  <2>2. steps' = <<>>
    BY <1>1, <1>2, <2>1
  <2>3. DOMAIN steps' = {}
    BY <2>2
  <2> QED
    BY <2>2, <2>3 DEF BeingClosed
<1> QED
  BY <1>2, <1>4, <1>5, <1>6, <1>7

(* The runner is still closing it.                                         *)
LEMMA StillClosing ==
    ASSUME IInv, TypeOK', plan' = plan, steps # <<>>, steps' # <<>>,
           UNCHANGED <<ours, finding, status, lastPass, moved, session, pc, picks, exit, batch,
                       stops, bounds, claims>>,
           NEW c \in DOMAIN claims, NEW how \in Outcome, Closing(c, how), Closing(c, how)',
           BeingClosed' = {c}, QueueInv', NoneStranded'
    PROVE  IInv'
PROOF
<1>1. /\ ours' = ours /\ claims' = claims /\ moves' = moves /\ lost' = lost /\ pc' = pc
      /\ picks' = picks
      /\ session' = session /\ batch' = batch /\ exit' = exit /\ status' = status
      /\ lastPass' = lastPass /\ moved' = moved
  BY DEF bounds
<1>2. Open' = Open /\ Live' = Live /\ BeingClosed = {c} /\ Settled' = Settled
  BY <1>1, ClosingFacts DEF IInv, Open, Live, Settled
<1>3. pc \in {"recover", "settle", "halt"}
  BY DEF Closing
<1>4. ClaimsInv' /\ LiveInv'
  BY <1>1, <1>2 DEF IInv, ClaimsInv, LiveInv, onParent
<1>5. ClosingInv' /\ PicksInv' /\ BatchInv'
  BY <1>1, <1>2, <1>3 DEF IInv, ClosingInv, PicksInv, BatchInv
<1>6. RunInv' /\ OursInv'
  BY <1>1, <1>3 DEF IInv, RunInv, OursInv, checked, onParent
<1> QED
  BY <1>4, <1>5, <1>6 DEF IInv

(* A step that is not about a pass moves nothing in the queue.             *)
LEMMA QueueKeptClosing ==
    ASSUME IInv, steps # <<>>, steps' # <<>>, NEW c \in DOMAIN claims, NEW how \in Outcome,
           Closing(c, how), steps[1].do # "passing", steps'[1].claim = c, steps'[1].outcome = how,
           UNCHANGED <<session, pc, gating, claims>>
    PROVE  QueueInv'
PROOF
<1>1. steps[1].claim = c /\ steps[1].outcome = how /\ QueueInv
  BY ClosingFacts DEF IInv
<1>2. ASSUME NEW n \in DOMAIN gating PROVE Waits(gating[n])'
  <2>1. Waits(gating[n])
    BY <1>1 DEF QueueInv
  <2>2. GivenUp(gating[n]) => GivenUp(gating[n])'
    BY <1>1 DEF GivenUp
  <2> QED
    BY <2>1, <2>2 DEF Waits, Passing, onParent
<1> QED
  BY <1>1, <1>2 DEF QueueInv

LEMMA PassKeeps ==
    ASSUME IInv, plan' = plan, steps # <<>>, NEW c \in DOMAIN claims, NEW how \in Outcome,
           Closing(c, how), Pass,
           UNCHANGED <<ours, finding, status, lastPass, moved, session, pc, picks, exit, batch,
                       stops, bounds>>
    PROVE  IInv'
PROOF
<1>0. TypeOK /\ QueueInv /\ NoneStranded
  BY DEF IInv
<1>1. /\ next = steps[1] /\ 1 \in DOMAIN steps /\ steps[1].do = "pass" /\ steps[1].claim = c
      /\ steps[1].outcome = how /\ steps[1] \in Close
  BY <1>0, ClosingFacts DEF Pass
<1>2. /\ claims' = claims /\ state' = state /\ moves' = moves /\ lost' = lost /\ ours' = ours
      /\ session' = session /\ pc' = pc /\ picks' = picks
  BY DEF Pass, bounds
<1>3. pc = "recover" /\ ~onParent(c) /\ c \in Open \ Live /\ c \in Id /\ c # FINAL
  BY <1>0, <1>1, TypeFacts DEF Closing
<1>4. Open' = Open /\ Live' = Live /\ NoneStranded'
  BY <1>0, <1>2 DEF Open, Live, NoneStranded, BeingTaken, isActive
<1>5. CASE Done /\ UNCHANGED gating
  <2>1. /\ steps' \in Seq(Close) /\ steps' # <<>> /\ 1 \in DOMAIN steps' /\ BeingClosed' = {c}
        /\ \A n \in DOMAIN steps' :
                 /\ steps'[n].claim = c /\ steps'[n].outcome = how
                 /\ steps'[n].do = "patch" <=> n = Len(steps')
                 /\ steps'[n].do \notin {"pass", "passing"}
        /\ Left("release") => Left("release")'
        /\ Left("record") => Left("record")'
    BY <1>0, <1>1, <1>5, Popped
  <2>2. TypeOK'
    BY <1>0, <1>2, <1>5, <2>1 DEF TypeOK, bounds, stops, Live
  <2>3. Closing(c, how)'
    BY <1>2, <1>4, <2>1 DEF Closing, onParent, isActive
  <2>4. QueueInv'
    BY <1>1, <1>2, <1>5, <2>1, QueueKeptClosing
  <2> QED
    BY <1>2, <1>4, <2>1, <2>2, <2>3, <2>4, StillClosing
<1>6. CASE gating' = Append(gating, c) /\ steps' = [steps EXCEPT ![1].do = "passing"]
  <2>1. PICK e : e = [steps[1] EXCEPT !.do = "passing"]
    OBVIOUS
  <2>2. e \in Close /\ e.do = "passing" /\ e.claim = c /\ e.outcome = how
    BY <1>1, <2>1 DEF Close
  <2>3. steps' = [steps EXCEPT ![1] = e]
    BY <1>6, <2>1
  <2>4. /\ steps' \in Seq(Close) /\ Len(steps') = Len(steps) /\ DOMAIN steps' = DOMAIN steps
        /\ steps'[1] = e /\ \A n \in DOMAIN steps \ {1} : steps'[n] = steps[n]
    BY <1>0, <1>1, <2>2, <2>3, TypeFacts, ExceptSeq
  <2>5. steps' # <<>> /\ BeingClosed' = {c}
    <3>1. steps' # <<>>
      BY <1>1, <2>4
    <3>2. \A n \in DOMAIN steps' : steps'[n].claim = c
      BY <2>2, <2>4 DEF Closing
    <3> QED
      BY <1>1, <2>4, <3>1, <3>2 DEF BeingClosed
  <2>6. /\ gating' \in Seq(Id \cup {FINAL}) /\ Len(gating') = Len(gating) + 1
        /\ \A n \in DOMAIN gating : gating'[n] = gating[n]
        /\ gating'[Len(gating) + 1] = c /\ DOMAIN gating' = DOMAIN gating \cup {Len(gating) + 1}
    BY <1>0, <1>3, <1>6, TypeFacts, AppendProperties
  <2>7. TypeOK'
    BY <1>0, <1>2, <2>4, <2>6 DEF TypeOK, bounds, stops, Live
  <2>8. Closing(c, how)'
    <3>1. ASSUME NEW what, what # "pass", Left(what) PROVE Left(what)'
      BY <1>1, <2>4, <3>1 DEF Left
    <3>2. ASSUME NEW n \in DOMAIN steps'
          PROVE  /\ steps'[n].claim = c /\ steps'[n].outcome = how
                 /\ steps'[n].do = "patch" <=> n = Len(steps')
                 /\ steps'[n].do \in {"pass", "passing"} =>
                       n = 1 /\ pc' = "recover" /\ ~onParent(c)' /\ Left("record")'
      <4>1. CASE n = 1
        <5>1. Left("record")'
          BY <1>1, <3>1 DEF Closing
        <5> QED
          BY <1>1, <1>2, <1>3, <2>2, <2>4, <4>1, <5>1 DEF Closing, onParent
      <4>2. CASE n # 1
        BY <1>2, <2>4, <4>2 DEF Closing, onParent
      <4> QED
        BY <4>1, <4>2
    <3> QED
      BY <1>2, <1>4, <3>2, <3>1 DEF Closing, onParent, isActive
  <2>9. QueueInv'
    <3>1. ASSUME NEW w, NEW n \in DOMAIN gating, w = gating[n] PROVE Waits(w)' /\ w # c
      <4>1. Waits(w)
        BY <1>0, <3>1 DEF QueueInv
      <4>2. w # FINAL /\ session[w] = "gating" /\ w \in DOMAIN claims /\ ~onParent(w)
        BY <1>1, <1>3, <4>1 DEF Waits, Passing, GivenUp
      <4>3. session[c] # "gating"
        BY <1>3 DEF Live
      <4> QED
        BY <1>2, <4>2, <4>3 DEF Waits, onParent
    <3>2. Waits(c)'
      BY <1>2, <1>3, <2>2, <2>4, <2>5 DEF Waits, Passing, onParent
    <3>3. ASSUME NEW m \in DOMAIN gating', NEW n \in DOMAIN gating', gating'[m] = gating'[n]
          PROVE  m = n
      <4>1. \A k \in DOMAIN gating : gating[k] # c
        BY <3>1
      <4>2. \A k, l \in DOMAIN gating : gating[k] = gating[l] => k = l
        BY <1>0 DEF QueueInv
      <4> QED
        BY <2>6, <3>3, <4>1, <4>2
    <3>4. ASSUME NEW n \in DOMAIN gating', NEW w, w = gating'[n] PROVE Waits(w)'
      <4>1. CASE n \in DOMAIN gating
        BY <2>6, <3>1, <3>4, <4>1
      <4>2. CASE n \notin DOMAIN gating
        BY <2>6, <3>2, <3>4, <4>2
      <4> QED
        BY <4>1, <4>2
    <3>5. \A n \in DOMAIN gating' : Waits(gating[n])'
      <4> SUFFICES ASSUME NEW n \in DOMAIN gating' PROVE Waits(gating[n])'
        OBVIOUS
      <4>1. PICK w : w = gating'[n]
        OBVIOUS
      <4>2. Waits(w)'
        BY <3>4, <4>1
      <4> QED
        BY <4>1, <4>2 DEF Waits, Passing, GivenUp, onParent
    <3> QED
      BY <1>2, <1>3, <3>3, <3>5 DEF QueueInv
  <2> QED
    BY <1>2, <1>4, <2>5, <2>7, <2>8, <2>9, StillClosing
<1> QED
  BY <1>1, <1>5, <1>6 DEF Pass

LEMMA PassOverKeeps ==
    ASSUME IInv, plan' = plan, steps # <<>>, NEW c \in DOMAIN claims, NEW how \in Outcome,
           Closing(c, how), PassOver,
           UNCHANGED <<ours, finding, status, lastPass, moved, session, pc, picks, exit, batch,
                       stops, bounds>>
    PROVE  IInv'
PROOF
<1>0. TypeOK /\ QueueInv /\ NoneStranded
  BY DEF IInv
<1>1. steps[1].do = "passing" /\ gating = <<>> /\ gating' = gating
  BY <1>0, ClosingFacts DEF PassOver
<1>2. /\ claims' = claims /\ state' = state /\ moves' = moves /\ lost' = lost /\ ours' = ours
      /\ session' = session /\ pc' = pc /\ picks' = picks
  BY DEF PassOver, bounds
<1>3. Open' = Open /\ Live' = Live /\ NoneStranded'
  BY <1>0, <1>2 DEF Open, Live, NoneStranded, BeingTaken, isActive
<1>4. /\ steps' \in Seq(Close) /\ steps' # <<>> /\ 1 \in DOMAIN steps' /\ BeingClosed' = {c}
      /\ \A n \in DOMAIN steps' :
                 /\ steps'[n].claim = c /\ steps'[n].outcome = how
                 /\ steps'[n].do = "patch" <=> n = Len(steps')
                 /\ steps'[n].do \notin {"pass", "passing"}
      /\ Left("release") => Left("release")'
      /\ Left("record") => Left("record")'
  BY <1>0, <1>1, Popped DEF PassOver
<1>5. TypeOK'
  BY <1>0, <1>1, <1>2, <1>4 DEF TypeOK, bounds, stops, Live
<1>6. Closing(c, how)'
  BY <1>2, <1>3, <1>4 DEF Closing, onParent, isActive
<1>7. QueueInv'
  BY <1>1 DEF QueueInv
<1> QED
  BY <1>2, <1>3, <1>4, <1>5, <1>6, <1>7, StillClosing

LEMMA ReleaseOrRecordKeeps ==
    ASSUME IInv, plan' = plan, steps # <<>>, NEW c \in DOMAIN claims, NEW how \in Outcome,
           Closing(c, how), Release \/ Record,
           UNCHANGED <<ours, finding, status, lastPass, moved, session, pc, picks, exit, batch,
                       stops, bounds>>
    PROVE  IInv'
PROOF
<1>0. TypeOK /\ QueueInv /\ NoneStranded /\ ClaimsInv /\ OursInv
  BY DEF IInv
<1>1. /\ next = steps[1] /\ steps[1].claim = c /\ subject = claims[c].task
      /\ steps[1].do \in {"release", "record"}
  BY <1>0, ClosingFacts DEF Release, Record
<1>2. /\ claims' = claims /\ moves' = moves /\ lost' = lost /\ ours' = ours /\ gating' = gating
      /\ session' = session /\ pc' = pc /\ picks' = picks /\ Done
  BY DEF Release, Record, bounds
<1>3. state \in [Task -> State] /\ (~onParent(c) => claims[c].task \in Task)
      /\ (onParent(c) => claims[c].pass = "none")
  BY <1>0 DEF TypeOK, ClaimsInv
<1>4. state' = state \/ (~onParent(c) /\ state' = [state EXCEPT ![claims[c].task] = "next"])
  BY <1>1, <1>3 DEF Release, Record
<1>5. /\ state' \in [Task -> State]
      /\ \A t \in Task : state'[t] = state[t] \/ state'[t] = "next"
  BY <1>3, <1>4 DEF State
<1>6. Open' = Open /\ Live' = Live
  BY <1>2 DEF Open, Live
<1>7. \A t \in Task : isActive(t)' => isActive(t)
  BY <1>2, <1>5 DEF isActive
<1>8. NoneStranded'
  BY <1>0, <1>2, <1>6, <1>7 DEF NoneStranded, BeingTaken
<1>9. /\ steps' \in Seq(Close) /\ steps' # <<>> /\ 1 \in DOMAIN steps' /\ BeingClosed' = {c}
      /\ \A n \in DOMAIN steps' :
                 /\ steps'[n].claim = c /\ steps'[n].outcome = how
                 /\ steps'[n].do = "patch" <=> n = Len(steps')
                 /\ steps'[n].do \notin {"pass", "passing"}
      /\ \A what : Left(what) /\ steps[1].do # what => Left(what)'
  BY <1>0, <1>1, <1>2, Popped
<1>10. TypeOK'
  BY <1>0, <1>2, <1>5, <1>9 DEF TypeOK, bounds, stops, Live
<1>11. Closing(c, how)'
  <2>1. ASSUME ~onParent(c)
        PROVE  Left("release")' \/ ~isActive(claims[c].task)'
    <3>1. CASE steps[1].do = "release"
      BY <1>1, <1>2, <1>3, <2>1, <3>1 DEF Release, Record, isActive
    <3>2. CASE steps[1].do = "record"
      <4>1. Left("release") => Left("release")'
        BY <1>9, <3>2
      <4>2. Left("release") \/ ~isActive(claims[c].task)
        BY <2>1 DEF Closing
      <4>3. isActive(claims[c].task)' => isActive(claims[c].task)
        BY <1>2, <1>3, <1>5, <2>1 DEF isActive
      <4> QED
        BY <4>1, <4>2, <4>3
    <3> QED
      BY <1>1, <3>1, <3>2
  <2>2. ASSUME ~onParent(c)
        PROVE  \/ Left("record")' \/ how = "cancelled" \/ claims[c].pass # "red" \/ moves # 0
               \/ state'[claims[c].task] # "done"
    <3>1. CASE steps[1].do = "release"
      BY <1>3, <1>5, <1>9, <2>2, <3>1 DEF Closing
    <3>2. CASE steps[1].do = "record"
      <4>1. moves = 0 => ours[claims[c].task]
        BY <1>0, <2>2 DEF OursInv
      <4> QED
        BY <1>1, <1>3, <2>2, <3>2, <4>1 DEF Release, Record
    <3> QED
      BY <1>1, <3>1, <3>2
  <2>3. onParent(c)' <=> onParent(c)
    BY <1>2 DEF onParent
  <2> QED
    BY <1>2, <1>6, <1>9, <2>1, <2>2, <2>3 DEF Closing
<1>12. QueueInv'
  BY <1>1, <1>2, <1>9, QueueKeptClosing
<1> QED
  BY <1>2, <1>8, <1>9, <1>10, <1>11, <1>12, StillClosing

LEMMA PatchKeeps ==
    ASSUME IInv, plan' = plan, steps # <<>>, NEW c \in DOMAIN claims, NEW how \in Outcome,
           Closing(c, how), Patch,
           UNCHANGED <<ours, finding, status, lastPass, moved, session, pc, picks, exit, batch,
                       stops, bounds>>
    PROVE  IInv'
PROOF
<1>0. TypeOK /\ QueueInv /\ NoneStranded /\ ClaimsInv /\ OursInv /\ LiveInv
  BY DEF IInv
<1>1. /\ next = steps[1] /\ steps[1].claim = c /\ steps[1].outcome = how /\ 1 \in DOMAIN steps
      /\ steps[1].do = "patch" /\ Len(steps) = 1 /\ BeingClosed = {c}
  BY <1>0, ClosingFacts DEF Patch
<1>2. /\ moves' = moves /\ lost' = lost /\ ours' = ours /\ gating' = gating /\ state' = state
      /\ session' = session /\ pc' = pc /\ picks' = picks /\ Done /\ batch' = batch
      /\ exit' = exit
      /\ status' = status /\ lastPass' = lastPass /\ moved' = moved
  BY DEF Patch, bounds
<1>3. steps' = <<>> /\ BeingClosed' = {}
  BY <1>0, <1>1, <1>2, Popped
<1>4. PICK e : e = [claims[c] EXCEPT !.outcome = how]
  OBVIOUS
<1>5. /\ e \in Claim /\ e.outcome = how /\ e.task = claims[c].task /\ e.kind = claims[c].kind
      /\ e.pass = claims[c].pass
  BY <1>0, <1>4, TypeFacts DEF Claim
<1>6. claims' = [claims EXCEPT ![c] = e]
  BY <1>1, <1>4 DEF Patch
<1>7. /\ claims' \in Seq(Claim) /\ Len(claims') = Len(claims) /\ DOMAIN claims' = DOMAIN claims
      /\ claims'[c] = e /\ \A i \in DOMAIN claims \ {c} : claims'[i] = claims[i]
  BY <1>0, <1>5, <1>6, TypeFacts, ExceptSeq
<1>8. /\ \A i \in DOMAIN claims : claims'[i].task = claims[i].task /\ claims'[i].kind = claims[i].kind
                                  /\ claims'[i].pass = claims[i].pass
      /\ \A i \in DOMAIN claims : onParent(i)' <=> onParent(i)
  BY <1>5, <1>7 DEF onParent
<1>9. c \in Open /\ c \notin Live /\ pc \in {"recover", "settle", "halt"} /\ claims[c].outcome = "open"
      /\ how # "open"
  BY DEF Closing, Outcome, Open
<1>10. Open' = Open \ {c} /\ Live' = Live /\ Settled' = Settled
  BY <1>2, <1>5, <1>7, <1>9 DEF Open, Live, Settled
<1>11. TypeOK'
  <2>1. steps' \in Seq(Close)
    BY <1>3
  <2> QED
    BY <1>0, <1>2, <1>7, <1>10, <2>1 DEF TypeOK, bounds, stops, Patch
<1>12. ClaimsInv'
  <2>1. \A i \in DOMAIN claims' :
           IF onParent(i)' THEN claims'[i].task = Parent /\ claims'[i].pass = "none"
           ELSE claims'[i].task \in Task
    BY <1>0, <1>7, <1>8 DEF ClaimsInv
  <2>2. \A i, j \in Open' : claims'[i].task = claims'[j].task => i = j
    BY <1>0, <1>8, <1>10 DEF ClaimsInv, Open
  <2>3. ASSUME NEW i \in DOMAIN claims, NEW j \in DOMAIN claims, i < j, onParent(i),
               claims[i].kind = claims[j].kind
        PROVE  claims'[i].outcome = "interrupted"
    <3>1. claims[i].outcome = "interrupted"
      BY <1>0, <2>3 DEF ClaimsInv
    <3>2. i # c
      BY <1>9, <3>1
    <3> QED
      BY <1>7, <3>1, <3>2
  <2> QED
    BY <1>7, <1>8, <2>1, <2>2, <2>3 DEF ClaimsInv
<1>13. LiveInv'
  BY <1>0, <1>1, <1>2, <1>3, <1>9, <1>10 DEF LiveInv
<1>14. ClosingInv' /\ PicksInv' /\ BatchInv'
  BY <1>2, <1>3, <1>9, <1>10 DEF IInv, ClosingInv, PicksInv, BatchInv
<1>15. QueueInv'
  <2>1. ASSUME NEW n \in DOMAIN gating PROVE Waits(gating[n])'
    <3>1. Waits(gating[n]) /\ ~Passing(gating[n])
      BY <1>0, <1>1 DEF QueueInv, Passing
    <3>2. gating[n] # FINAL /\ GivenUp(gating[n]) => GivenUp(gating[n])'
      <4>1. ASSUME gating[n] # FINAL, GivenUp(gating[n]) PROVE claims'[gating[n]].outcome = "cancelled"
        <5>1. gating[n] \in DOMAIN claims
          BY <3>1, <4>1 DEF Waits
        <5>2. CASE gating[n] = c
          BY <1>1, <1>5, <1>7, <1>9, <4>1, <5>2 DEF GivenUp
        <5>3. CASE gating[n] # c
          BY <1>1, <1>7, <4>1, <5>1, <5>3 DEF GivenUp
        <5> QED
          BY <5>2, <5>3
      <4> QED
        BY <1>2, <4>1 DEF GivenUp
    <3> QED
      BY <1>2, <1>7, <1>8, <3>1, <3>2 DEF Waits
  <2> QED
    BY <1>0, <1>2, <2>1 DEF QueueInv
<1>16. RunInv'
  BY <1>2, <1>3, <1>9, <1>10 DEF IInv, RunInv, checked
<1>17. OursInv'
  BY <1>0, <1>2, <1>7, <1>8, <1>9 DEF OursInv
<1>18. NoneStranded'
  <2>1. ASSUME NEW t \in Task, isActive(t), t \notin lost
        PROVE  \E i \in Open \ {c} : claims[i].task = t
    <3>1. BeingTaken = {}
      BY <1>9 DEF BeingTaken
    <3>2. PICK i \in Open : claims[i].task = t
      BY <1>0, <2>1, <3>1 DEF NoneStranded
    <3>3. ~Left("release")
      <4>1. DOMAIN steps = {1}
        BY <1>0, <1>1, TypeFacts
      <4> QED
        BY <1>1, <4>1 DEF Left
    <3>4. i # c
      BY <1>0, <2>1, <3>2, <3>3, LoopAssumption DEF Closing, ClaimsInv
    <3> QED
      BY <3>2, <3>4
  <2>2. ASSUME NEW t \in Task, isActive(t)'
        PROVE  t \in lost \/ \E i \in Open' : claims'[i].task = t
    <3>1. isActive(t)
      BY <1>2, <2>2 DEF isActive
    <3>2. CASE t \notin lost
      <4>1. PICK i \in Open \ {c} : claims[i].task = t
        BY <2>1, <3>1, <3>2
      <4> QED
        BY <1>8, <1>10, <4>1 DEF Open
    <3> QED
      BY <3>2
  <2> QED
    BY <1>2, <2>2 DEF NoneStranded
<1> QED
  BY <1>11, <1>12, <1>13, <1>14, <1>15, <1>16, <1>17, <1>18 DEF IInv

LEMMA CloseClaimKeeps ==
    ASSUME IInv, CloseClaim, plan' = plan
    PROVE  IInv'
PROOF
<1>1. /\ steps # <<>>
      /\ UNCHANGED <<ours, finding, status, lastPass, moved, session, pc, picks, exit, batch,
                   stops, bounds>>
  BY DEF CloseClaim
<1>2. PICK c \in DOMAIN claims, how \in Outcome : Closing(c, how)
  BY <1>1 DEF IInv, ClosingInv
<1> QED
  BY <1>1, <1>2, PassKeeps, PassOverKeeps, ReleaseOrRecordKeeps, PatchKeeps DEF CloseClaim
-----------------------------------------------------------------------------
(* Subtasks are picked, and taken one after the other                      *)

LEMMA OrderFacts ==
    ASSUME NEW S, IsFiniteSet(S), NEW list \in SetToSeqs(S)
    PROVE  /\ list \in Seq(S) /\ Len(list) = Cardinality(S) /\ DOMAIN list = 1 .. Len(list)
           /\ \A n \in DOMAIN list : list[n] \in S
           /\ \A m, n \in DOMAIN list : list[m] = list[n] => m = n
PROOF
<1>1. Cardinality(S) \in Nat
  BY FS_CardinalityType
<1>2. /\ list \in [1 .. Cardinality(S) -> S]
      /\ \A m, n \in 1 .. Cardinality(S) : m # n => list[m] # list[n]
  BY DEF SetToSeqs
<1> QED
  BY <1>1, <1>2

LEMMA LoadKeeps ==
    ASSUME IInv, Load, plan' = plan
    PROVE  IInv'
PROOF
<1>0. TypeOK
  BY DEF IInv
<1>1. /\ pc = "load" /\ steps = <<>> /\ steps' = <<>>
      /\ UNCHANGED <<tracker, run, moved, session, gating, exit, batch, steps, stops, bounds>>
  BY DEF Load, Go, ClaimNext
<1>2. claims' = claims /\ Open = Live /\ Open' = Open
  BY <1>1, Idle DEF run, Open
<1>3. CASE Go("load", "review") /\ UNCHANGED picks /\ Live = {}
  <2>1. TypeOK'
    BY <1>0, <1>1, <1>3 DEF TypeOK, tracker, run, stops, bounds, Live, Go
  <2>2. Loops
    BY <1>1, <1>3 DEF Loops, Go
  <2>3. PicksInv' /\ BatchInv'
    BY <1>3 DEF PicksInv, BatchInv, Go
  <2> QED
    BY <2>1, <2>2, <2>3, LoopsKeeps
<1>4. ASSUME NEW S \in SUBSET frontier, Cardinality(S) + Len(claims) <= plan.claims,
             NEW list \in SetToSeqs(S), ClaimNext("load", list)
      PROVE  IInv'
  <2>1. S \subseteq Task /\ IsFiniteSet(S)
    <3>1. S \subseteq Task
      BY DEF frontier
    <3> QED
      BY <3>1, FS_Subset, LoopAssumption
  <2>2. /\ list \in Seq(Task) /\ Len(list) = Cardinality(S) /\ DOMAIN list = 1 .. Len(list)
        /\ \A n \in DOMAIN list : list[n] \in S
        /\ \A m, n \in DOMAIN list : list[m] = list[n] => m = n
    BY <2>1, OrderFacts
  <2>3. picks' = list /\ pc' \in {"nap", "claim"} /\ (pc' = "claim" => list # <<>>)
    BY <1>4 DEF ClaimNext, Go
  <2>4. TypeOK'
    BY <1>0, <1>1, <2>2, <2>3 DEF TypeOK, tracker, run, stops, bounds, Live
  <2>5. Loops
    BY <1>1, <2>3 DEF Loops
  <2>6. HeldTasks' = liveTasks
    BY <1>2 DEF HeldTasks, liveTasks
  <2>7. ASSUME NEW t \in S, pc' = "claim"
        PROVE  Free(t)'
    <3>1. /\ t \notin liveTasks
          /\ \A b \in blockers(t) : b \notin liveTasks /\ state[b] \in Closed
      BY DEF frontier
    <3>2. \A b \in Range(list) : state[b] = "next"
      BY <2>2 DEF Range, frontier, canClaim
    <3>3. blockers(t)' = blockers(t)
      BY DEF blockers
    <3>4. \A b \in blockers(t) : b \notin Range(list)
      BY <3>1, <3>2 DEF Closed
    <3> QED
      BY <2>3, <2>6, <3>1, <3>3, <3>4 DEF Free
  <2>8. PicksInv'
    <3> SUFFICES ASSUME pc' = "claim" PROVE PicksInv'
      BY <2>3 DEF PicksInv
    <3>1. ASSUME NEW n \in DOMAIN picks', NEW t, t = picks'[n] PROVE Free(t)'
      BY <2>2, <2>3, <2>7, <3>1
    <3>2. \A n \in DOMAIN picks' : Free(picks[n])'
      BY <3>1 DEF Free, blockers
    <3> QED
      BY <1>1, <1>2, <1>4, <2>2, <2>3, <3>2 DEF PicksInv
  <2>9. BatchInv'
    BY <2>3 DEF BatchInv
  <2> QED
    BY <2>4, <2>5, <2>8, <2>9, LoopsKeeps
<1> QED
  BY <1>3, <1>4 DEF Load

(* What is left to claim once the first is.                                *)
LEMMA RestPicked ==
    ASSUME TypeOK, PicksInv, pc \in {"claim", "take", "launch"}, NEW rest, rest = Tail(picks)
    PROVE  /\ Head(picks) = picks[1] /\ 1 \in DOMAIN picks /\ Head(picks) \in Task
           /\ rest \in Seq(Task) /\ Len(rest) = Len(picks) - 1 /\ DOMAIN rest = 1 .. Len(rest)
           /\ \A n \in DOMAIN rest : n + 1 \in DOMAIN picks /\ n + 1 # 1 /\ rest[n] = picks[n + 1]
           /\ \A n \in DOMAIN rest : Free(rest[n]) /\ rest[n] # Head(picks)
           /\ \A m, n \in DOMAIN rest : rest[m] = rest[n] => m = n
           /\ Range(rest) \subseteq Range(picks)
PROOF
<1>1. /\ picks \in Seq(Task) /\ picks # <<>> /\ Len(picks) \in Nat
      /\ DOMAIN picks = 1 .. Len(picks)
      /\ \A n \in DOMAIN picks : Free(picks[n])
      /\ \A m, n \in DOMAIN picks : picks[m] = picks[n] => m = n
  BY TypeFacts DEF PicksInv
<1>2. Head(picks) = picks[1] /\ 1 \in DOMAIN picks /\ Head(picks) \in Task
  BY <1>1
<1>3. /\ rest \in Seq(Task) /\ Len(rest) = Len(picks) - 1 /\ DOMAIN rest = 1 .. Len(rest)
      /\ \A n \in 1 .. Len(rest) : rest[n] = picks[n + 1]
  BY <1>1, HeadTailProperties
<1>4. \A n \in DOMAIN rest : n + 1 \in DOMAIN picks /\ n + 1 # 1 /\ rest[n] = picks[n + 1]
  BY <1>1, <1>3
<1>5. \A n \in DOMAIN rest : Free(rest[n]) /\ rest[n] # Head(picks)
  BY <1>1, <1>2, <1>4
<1>6. ASSUME NEW m \in DOMAIN rest, NEW n \in DOMAIN rest, rest[m] = rest[n] PROVE m = n
  <2>1. m + 1 = n + 1
    BY <1>1, <1>4, <1>6
  <2> QED
    BY <1>3, <2>1
<1>7. Range(rest) \subseteq Range(picks)
  BY <1>4 DEF Range
<1> QED
  BY <1>2, <1>3, <1>4, <1>5, <1>6, <1>7

LEMMA RecheckKeeps ==
    ASSUME IInv, Recheck, plan' = plan
    PROVE  IInv'
PROOF
<1>0. TypeOK /\ PicksInv
  BY DEF IInv
<1>1. /\ pc = "claim" /\ steps = <<>> /\ steps' = <<>> /\ pc' \in {"take", "claim", "nap"}
      /\ UNCHANGED <<tracker, run, moved, session, gating, exit, batch, steps, stops, bounds>>
      /\ (pc' = "take" /\ picks' = picks)
         \/ (pc' # "take" /\ picks' = Tail(picks) /\ (pc' = "claim" => picks' # <<>>))
  BY DEF Recheck, Go, ClaimNext
<1>2. /\ picks' \in Seq(Task) /\ Len(picks') <= Len(picks) /\ Len(picks') \in Nat
      /\ \A m, n \in DOMAIN picks' : picks'[m] = picks'[n] => m = n
      /\ \A n \in DOMAIN picks' : Free(picks'[n])
      /\ Range(picks') \subseteq Range(picks)
  <2>1. picks \in Seq(Task) /\ Len(picks) \in Nat
    BY <1>0, TypeFacts
  <2>2. /\ \A n \in DOMAIN picks : Free(picks[n])
        /\ \A m, n \in DOMAIN picks : picks[m] = picks[n] => m = n
    BY <1>0, <1>1 DEF PicksInv
  <2>3. PICK rest : rest = picks'
    OBVIOUS
  <2>4. CASE rest = picks
    BY <2>1, <2>2, <2>3, <2>4
  <2>5. CASE rest = Tail(picks)
    <3>1. /\ rest \in Seq(Task) /\ Len(rest) = Len(picks) - 1 /\ DOMAIN rest = 1 .. Len(rest)
          /\ \A n \in DOMAIN rest : Free(rest[n])
          /\ \A m, n \in DOMAIN rest : rest[m] = rest[n] => m = n
          /\ Range(rest) \subseteq Range(picks)
      BY <1>0, <1>1, <2>5, RestPicked
    <3>2. Len(rest) \in Nat /\ Len(rest) <= Len(picks)
      BY <2>1, <3>1
    <3> QED
      BY <2>3, <3>1, <3>2
  <2> QED
    BY <1>1, <2>3, <2>4, <2>5
<1>3. claims' = claims /\ HeldTasks' = HeldTasks
  BY <1>1 DEF run, HeldTasks, Open
<1>4. TypeOK'
  BY <1>0, <1>1, <1>2 DEF TypeOK, tracker, run, stops, bounds, Live
<1>5. Loops
  BY <1>1 DEF Loops
<1>6. PicksInv' /\ BatchInv'
  <2>1. \A t : Free(t) => Free(t)'
    BY <1>2, <1>3 DEF Free, blockers
  <2>2. ASSUME NEW n \in DOMAIN picks' PROVE Free(picks[n])'
    <3>1. PICK t : t = picks'[n]
      OBVIOUS
    <3>2. Free(t)'
      BY <1>2, <2>1, <3>1
    <3> QED
      BY <3>1, <3>2 DEF Free, blockers
  <2>3. Len(picks') + Len(claims') <= plan'.claims
    BY <1>0, <1>1, <1>2, <1>3, TypeFacts DEF PicksInv
  <2>4. pc' \in {"take", "claim"} => picks' # <<>>
    BY <1>0, <1>1 DEF PicksInv
  <2> QED
    BY <1>1, <1>2, <2>2, <2>3, <2>4 DEF PicksInv, BatchInv
<1> QED
  BY <1>4, <1>5, <1>6, LoopsKeeps

LEMMA TakeKeeps ==
    ASSUME IInv, Take, plan' = plan
    PROVE  IInv'
PROOF
<1>0. TypeOK /\ PicksInv /\ QueueInv /\ OursInv /\ NoneStranded
  BY DEF IInv
<1>1. /\ pc = "take" /\ pc' = "launch" /\ steps = <<>> /\ steps' = <<>>
      /\ state' = [state EXCEPT ![Head(picks)] = "in_progress"]
      /\ ours' = [ours EXCEPT ![Head(picks)] = TRUE]
      /\ claims' = claims /\ session' = session /\ gating' = gating /\ moves' = moves
      /\ lost' = lost
      /\ picks' = picks /\ status' = status
      /\ UNCHANGED <<finding, run, moved, session, gating, picks, exit, batch, steps, stops, bounds>>
  BY DEF Take, Go, run, bounds
<1>2. Head(picks) \in Task
  BY <1>0, <1>1, RestPicked
<1>3. /\ state' \in [Task -> State] /\ ours' \in [Task -> BOOLEAN]
      /\ \A t \in Task : t # Head(picks) => state'[t] = state[t] /\ ours'[t] = ours[t]
      /\ \A t \in Task : ours[t] => ours'[t]
      /\ ours'[Head(picks)]
  BY <1>0, <1>1, <1>2 DEF TypeOK, State
<1>4. TypeOK'
  BY <1>0, <1>1, <1>3 DEF TypeOK, run, stops, bounds, Live
<1>5. Open' = Open /\ Live' = Live /\ BeingClosed' = BeingClosed /\ HeldTasks' = HeldTasks
  BY <1>1 DEF Open, Live, BeingClosed, HeldTasks
<1>6. ClaimsInv' /\ LiveInv' /\ ClosingInv' /\ BatchInv'
  BY <1>1, <1>5 DEF IInv, ClaimsInv, LiveInv, ClosingInv, BatchInv, onParent
<1>7. PicksInv'
  BY <1>0, <1>1, <1>5 DEF PicksInv, Free, blockers
<1>8. QueueInv'
  BY <1>0, <1>1 DEF QueueInv, Waits, Passing, GivenUp, onParent
<1>9. RunInv'
  BY <1>1 DEF IInv, RunInv
<1>10. OursInv'
  <2>1. \A i \in DOMAIN claims : ~onParent(i) => claims[i].task \in Task
    BY DEF IInv, ClaimsInv
  <2> QED
    BY <1>0, <1>1, <1>3, <2>1 DEF OursInv, onParent
<1>11. NoneStranded'
  <2>1. ASSUME NEW t \in Task, isActive(t)', t # Head(picks), t \notin lost
        PROVE  \E i \in Open : claims[i].task = t
    <3>1. isActive(t) /\ BeingTaken = {}
      BY <1>1, <1>3, <2>1 DEF isActive, BeingTaken
    <3> QED
      BY <1>0, <2>1, <3>1 DEF NoneStranded
  <2> QED
    BY <1>1, <1>5, <2>1 DEF NoneStranded, BeingTaken
<1> QED
  BY <1>4, <1>6, <1>7, <1>8, <1>9, <1>10, <1>11 DEF IInv
-----------------------------------------------------------------------------
(* A claim is written down and its session launched                        *)

Written(k, t, kind) ==
    /\ k = Len(claims) + 1 /\ k \in Id /\ k \notin DOMAIN claims
    /\ claims' \in Seq(Claim) /\ Len(claims') = k /\ DOMAIN claims' = DOMAIN claims \cup {k}
    /\ \A i \in DOMAIN claims : i < k /\ claims'[i] = claims[i]
    /\ claims'[k].task = t /\ claims'[k].kind = kind
    /\ claims'[k].outcome = "open" /\ claims'[k].pass = "none"
    /\ session' \in [Id -> {"none", "working", "gating"} \cup Outcome]
    /\ session[k] = "none" /\ session'[k] = "working" /\ \A i \in Id \ {k} : session'[i] = session[i]
    /\ Open' = Open \cup {k} /\ Live' = Live \cup {k} /\ Settled' = Settled
    /\ HeldTasks' = HeldTasks \cup {t}
    /\ status' = status /\ lastPass' = lastPass

LEMMA LaunchFacts ==
    ASSUME TypeOK, plan' = plan, Len(claims) < plan.claims,
           NEW t \in Task \cup {Parent}, NEW kind \in {"implement", "lens", "fix"}, launch(t, kind)
    PROVE  \E k \in Id : Written(k, t, kind)
PROOF
<1>1. PICK e : e = [task |-> t, kind |-> kind, outcome |-> "open", pass |-> "none"]
  OBVIOUS
<1>2. e \in Claim /\ e.task = t /\ e.kind = kind /\ e.outcome = "open" /\ e.pass = "none"
  BY <1>1 DEF Claim
<1>3. PICK k : k = Len(claims) + 1
  OBVIOUS
<1>4. /\ claims' = Append(claims, e) /\ session' = [session EXCEPT ![k] = "working"]
      /\ status' = status /\ lastPass' = lastPass
  BY <1>1, <1>3 DEF launch
<1>5. k \in Id /\ k \notin DOMAIN claims /\ \A i \in DOMAIN claims : i < k
  <2>1. Len(claims) \in Nat /\ DOMAIN claims = 1 .. Len(claims) /\ plan.claims \in 0 .. CLAIMS
    BY TypeFacts
  <2>2. CLAIMS \in Nat
    BY LoopAssumption
  <2> QED
    BY <1>3, <2>1, <2>2 DEF Id
<1>6. /\ claims' \in Seq(Claim) /\ Len(claims') = k /\ DOMAIN claims' = DOMAIN claims \cup {k}
      /\ \A i \in DOMAIN claims : claims'[i] = claims[i]
      /\ claims'[k] = e
  <2>1. claims \in Seq(Claim) /\ Len(claims) \in Nat /\ DOMAIN claims = 1 .. Len(claims)
    BY TypeFacts
  <2>2. /\ claims' \in Seq(Claim) /\ Len(claims') = Len(claims) + 1
        /\ \A i \in 1 .. Len(claims) : claims'[i] = claims[i]
        /\ claims'[Len(claims) + 1] = e
    BY <1>2, <1>4, <2>1, AppendProperties
  <2> QED
    BY <1>3, <2>1, <2>2
<1>7. session[k] = "none"
  BY <1>5 DEF TypeOK, Live
<1>8. /\ session' \in [Id -> {"none", "working", "gating"} \cup Outcome]
      /\ session'[k] = "working"
      /\ \A i \in Id \ {k} : session'[i] = session[i]
  BY <1>4, <1>5, TypeFacts
<1>9. Open' = Open \cup {k}
  BY <1>2, <1>5, <1>6 DEF Open
<1>10. Live' = Live \cup {k} /\ Settled' = Settled
  BY <1>5, <1>7, <1>8 DEF Live, Settled, Outcome
<1>11. HeldTasks' = HeldTasks \cup {t}
  <2>1. \A i \in Open : claims'[i].task = claims[i].task
    BY <1>6 DEF Open
  <2>2. claims'[k].task = t
    BY <1>2, <1>6
  <2> QED
    BY <1>9, <2>1, <2>2 DEF HeldTasks
<1>12. Written(k, t, kind)
  BY <1>2, <1>3, <1>4, <1>5, <1>6, <1>7, <1>8, <1>9, <1>10, <1>11 DEF Written
<1> QED
  BY <1>5, <1>12

LEMMA LaunchesKeep ==
    ASSUME IInv, plan' = plan, pc \in {"launch", "review"}, pc' \in {"nap", "claim"},
           steps = <<>>, steps' = <<>>, picks' \in Seq(Task), PicksInv',
           NEW t, NEW kind, NEW k \in Id, Written(k, t, kind),
           t \notin HeldTasks, BeingTaken \subseteq {t},
           IF kind = "implement" THEN t \in Task /\ (moves = 0 => ours[t]) ELSE t = Parent,
           kind # "implement" =>
              \A j \in DOMAIN claims : claims[j].kind = kind => claims[j].outcome = "interrupted",
           Len(claims) < plan.claims,
           UNCHANGED <<tracker, moved, gating, exit, batch, steps, stops, bounds>>
    PROVE  IInv'
PROOF
<1>0. TypeOK /\ ClaimsInv /\ QueueInv /\ OursInv /\ NoneStranded /\ RunInv
  BY DEF IInv
<1>1. /\ state' = state /\ ours' = ours /\ gating' = gating /\ moves' = moves /\ lost' = lost
      /\ moved' = moved /\ exit' = exit /\ batch' = batch
  BY DEF tracker, bounds
<1>2. /\ k = Len(claims) + 1 /\ k \notin DOMAIN claims
      /\ claims' \in Seq(Claim) /\ Len(claims') = k /\ DOMAIN claims' = DOMAIN claims \cup {k}
      /\ \A i \in DOMAIN claims : i < k /\ claims'[i] = claims[i]
      /\ claims'[k].task = t /\ claims'[k].kind = kind
      /\ claims'[k].outcome = "open" /\ claims'[k].pass = "none"
      /\ session' \in [Id -> {"none", "working", "gating"} \cup Outcome]
      /\ session[k] = "none" /\ session'[k] = "working" /\ \A i \in Id \ {k} : session'[i] = session[i]
      /\ Open' = Open \cup {k} /\ Live' = Live \cup {k} /\ Settled' = Settled
      /\ status' = status /\ lastPass' = lastPass
  BY DEF Written
<1>3. \A i \in DOMAIN claims : onParent(i)' <=> onParent(i)
  BY <1>2 DEF onParent
<1>4. onParent(k)' <=> kind # "implement"
  BY <1>2 DEF onParent
<1>5. TypeOK'
  <2>1. Live' \subseteq DOMAIN claims' /\ Len(claims') <= plan.claims
    BY <1>0, <1>2, TypeFacts DEF TypeOK
  <2>2. steps' \in Seq(Close)
    OBVIOUS
  <2> QED
    BY <1>0, <1>1, <1>2, <2>1, <2>2 DEF TypeOK, tracker, stops, bounds
<1>6. ClaimsInv'
  <2>1. \A i \in DOMAIN claims' :
           IF onParent(i)' THEN claims'[i].task = Parent /\ claims'[i].pass = "none"
           ELSE claims'[i].task \in Task
    BY <1>0, <1>2, <1>3, <1>4 DEF ClaimsInv
  <2>2. \A i, j \in Open' : claims'[i].task = claims'[j].task => i = j
    <3>1. \A i \in Open : claims'[i] = claims[i] /\ claims[i].task # t
      BY <1>2 DEF Open, HeldTasks
    <3> QED
      BY <1>0, <1>2, <3>1 DEF ClaimsInv
  <2>3. ASSUME NEW i \in DOMAIN claims', NEW j \in DOMAIN claims', i < j, onParent(i)',
               claims'[i].kind = claims'[j].kind
        PROVE  claims'[i].outcome = "interrupted"
    <3>1. i # k /\ i \in DOMAIN claims
      BY <1>0, <1>2, <2>3, TypeFacts
    <3>2. CASE j = k
      BY <1>2, <1>3, <2>3, <3>1, <3>2 DEF onParent
    <3>3. CASE j # k
      BY <1>0, <1>2, <1>3, <2>3, <3>1, <3>3 DEF ClaimsInv
    <3> QED
      BY <3>2, <3>3
  <2> QED
    BY <2>1, <2>2, <2>3 DEF ClaimsInv
<1>7. LiveInv'
  <2>1. Open = Live /\ BeingClosed' = {}
    BY Idle DEF BeingClosed
  <2> QED
    BY <1>2, <2>1 DEF LiveInv
<1>8. ClosingInv' /\ BatchInv'
  BY DEF ClosingInv, BatchInv
<1>9. QueueInv'
  <2>1. ASSUME NEW w, NEW n \in DOMAIN gating, w = gating[n] PROVE Waits(w)'
    <3>1. Waits(w)
      BY <1>0, <2>1 DEF QueueInv
    <3>2. w # FINAL /\ w \in DOMAIN claims /\ ~onParent(w) /\ session[w] = "gating"
      BY <3>1 DEF Waits, Passing, GivenUp
    <3>3. w \in Id /\ w # k
      BY <1>0, <1>2, <3>2, TypeFacts
    <3> QED
      BY <1>2, <1>3, <3>2, <3>3 DEF Waits
  <2>2. \A n \in DOMAIN gating : Waits(gating[n])'
    <3> SUFFICES ASSUME NEW n \in DOMAIN gating PROVE Waits(gating[n])'
      OBVIOUS
    <3>1. PICK w : w = gating[n]
      OBVIOUS
    <3>2. Waits(w)' /\ w = gating'[n]
      BY <1>1, <2>1, <3>1
    <3> QED
      BY <3>2 DEF Waits, Passing, GivenUp, onParent
  <2> QED
    BY <1>0, <1>1, <2>2 DEF QueueInv
<1>10. RunInv'
  BY <1>0, <1>1, <1>2 DEF RunInv
<1>11. OursInv'
  BY <1>0, <1>1, <1>2, <1>3, <1>4 DEF OursInv
<1>12. NoneStranded'
  <2>1. ASSUME NEW u \in Task, isActive(u)', u \notin lost
        PROVE  \E i \in Open' : claims'[i].task = u
    <3>1. isActive(u)
      BY <1>1, <2>1 DEF isActive
    <3>2. CASE u = t
      BY <1>2, <3>2
    <3>3. CASE u # t
      <4>1. PICK i \in Open : claims[i].task = u
        BY <1>0, <2>1, <3>1, <3>3 DEF NoneStranded
      <4> QED
        BY <1>2, <4>1 DEF Open
    <3> QED
      BY <3>2, <3>3
  <2> QED
    BY <1>1, <2>1 DEF NoneStranded
<1> QED
  BY <1>5, <1>6, <1>7, <1>8, <1>9, <1>10, <1>11, <1>12 DEF IInv

LEMMA LaunchKeeps ==
    ASSUME IInv, Launch, plan' = plan
    PROVE  IInv'
PROOF
<1>0. TypeOK /\ PicksInv
  BY DEF IInv
<1>1. /\ pc = "launch" /\ pc' \in {"nap", "claim"} /\ steps = <<>> /\ steps' = <<>>
      /\ launch(Head(picks), "implement") /\ picks' = Tail(picks)
      /\ (pc' = "claim" => picks' # <<>>)
      /\ UNCHANGED <<tracker, moved, gating, exit, batch, steps, stops, bounds>>
  BY DEF Launch, ClaimNext, Go
<1>2. PICK t, rest : t = Head(picks) /\ rest = Tail(picks)
  OBVIOUS
<1>3. /\ t = picks[1] /\ 1 \in DOMAIN picks /\ t \in Task
      /\ rest \in Seq(Task) /\ Len(rest) = Len(picks) - 1 /\ DOMAIN rest = 1 .. Len(rest)
      /\ \A n \in DOMAIN rest : Free(rest[n]) /\ rest[n] # t
      /\ \A m, n \in DOMAIN rest : rest[m] = rest[n] => m = n
      /\ Range(rest) \subseteq Range(picks)
  BY <1>0, <1>1, <1>2, RestPicked
<1>4. Len(picks) \in Nat /\ Len(picks) > 0 /\ Len(claims) \in Nat
      /\ Len(picks) + Len(claims) <= plan.claims /\ plan.claims \in Nat
  BY <1>0, <1>1, <1>3, TypeFacts DEF PicksInv
<1>5. Len(claims) < plan.claims
  BY <1>4
<1>6. PICK k \in Id : Written(k, t, "implement")
  BY <1>0, <1>1, <1>2, <1>3, <1>5, LaunchFacts
<1>7. Len(claims') = Len(claims) + 1 /\ HeldTasks' = HeldTasks \cup {t}
  BY <1>6 DEF Written
<1>8. Free(t) /\ t \in Range(picks)
  BY <1>0, <1>1, <1>3 DEF PicksInv, Range
<1>9. PicksInv'
  <2>1. \A n \in DOMAIN rest : Free(rest[n])'
    <3> SUFFICES ASSUME NEW n \in DOMAIN rest, NEW u, u = rest[n] PROVE Free(u)'
      OBVIOUS
    <3>1. u \notin HeldTasks' /\ blockers(u)' = blockers(u)
      BY <1>3, <1>7 DEF Free, blockers
    <3>2. \A b \in blockers(u) : b \notin HeldTasks /\ b \notin Range(picks)
      BY <1>3 DEF Free
    <3>3. \A b \in blockers(u) : b \notin HeldTasks' /\ b \notin Range(rest)
      BY <1>3, <1>7, <1>8, <3>2
    <3>4. picks' = rest
      BY <1>1, <1>2
    <3> QED
      BY <3>1, <3>3, <3>4 DEF Free
  <2>2. \A n \in DOMAIN picks' : Free(picks[n])'
    <3> SUFFICES ASSUME NEW n \in DOMAIN picks' PROVE Free(picks[n])'
      OBVIOUS
    <3>1. n \in DOMAIN rest /\ picks' = rest
      BY <1>1, <1>2
    <3>2. PICK u : u = rest[n]
      OBVIOUS
    <3>3. Free(u)' /\ picks'[n] = u
      BY <2>1, <3>1, <3>2
    <3> QED
      BY <3>3 DEF Free, blockers
  <2>3. Len(picks') + Len(claims') <= plan'.claims
    BY <1>1, <1>2, <1>3, <1>4, <1>7
  <2> QED
    BY <1>1, <1>2, <1>3, <2>2, <2>3 DEF PicksInv
<1>10. t \notin HeldTasks /\ BeingTaken \subseteq {t} /\ (moves = 0 => ours[t])
  BY <1>1, <1>2, <1>8 DEF Free, BeingTaken, IInv, OursInv
<1>11. picks' \in Seq(Task)
  BY <1>1, <1>2, <1>3
<1> QED
  BY <1>1, <1>3, <1>5, <1>6, <1>9, <1>10, <1>11, LaunchesKeep

(* A review that was not interrupted is the last of its kind.              *)
LEMMA LastOfKind ==
    ASSUME TypeOK, ClaimsInv, NEW kind \in {"lens", "fix"}, NEW j \in ClaimsOf(kind),
           claims[j].outcome # "interrupted"
    PROVE  outcomeOf(kind) = claims[j].outcome
PROOF
<1>1. j \in DOMAIN claims /\ onParent(j) /\ claims[j].kind = kind /\ ClaimsOf(kind) # {}
  BY DEF ClaimsOf, onParent
<1>2. \A l \in ClaimsOf(kind) : l \in Nat /\ l \in DOMAIN claims
  BY TypeFacts DEF ClaimsOf
<1>3. \A l \in ClaimsOf(kind) : l <= j
  BY <1>1, <1>2 DEF ClaimsInv, ClaimsOf
<1>4. \A l \in ClaimsOf(kind) : (\A i \in ClaimsOf(kind) : i <= l) => l = j
  BY <1>2, <1>3
<1>5. lastOf(kind) = j
  BY <1>3, <1>4 DEF lastOf
<1> QED
  BY <1>1, <1>5 DEF outcomeOf

LEMMA StartReviewKeeps ==
    ASSUME IInv, StartLens \/ StartFixer, plan' = plan
    PROVE  IInv'
PROOF
<1>0. TypeOK /\ ClaimsInv
  BY DEF IInv
<1>1. PICK kind \in {"lens", "fix"} :
         /\ launch(Parent, kind)
         /\ kind = "lens" => lensDue
         /\ kind = "fix" => fixerDue
  BY DEF StartLens, StartFixer
<1>2. /\ pc = "review" /\ pc' = "nap" /\ steps = <<>> /\ steps' = <<>>
      /\ Len(claims) < plan.claims
      /\ UNCHANGED <<tracker, moved, gating, picks, exit, batch, steps, stops, bounds>>
  BY DEF StartLens, StartFixer, Go
<1>3. PICK k \in Id : Written(k, Parent, kind)
  BY <1>0, <1>1, <1>2, LaunchFacts
<1>4. Open = {} /\ HeldTasks = {} /\ BeingTaken = {}
  <2>1. Live = {} /\ Open = Live
    BY <1>2, ReviewQuiet, Idle
  <2> QED
    BY <1>2, <2>1 DEF HeldTasks, BeingTaken
<1>5. ASSUME NEW j \in DOMAIN claims, claims[j].kind = kind, claims[j].outcome # "interrupted"
      PROVE  FALSE
  <2>1. outcomeOf(kind) = claims[j].outcome
    BY <1>0, <1>5, LastOfKind DEF ClaimsOf
  <2>2. claims[j].outcome \in Outcome
    BY <1>0, <1>4, TypeFacts DEF Open, Claim
  <2>3. CASE kind = "lens"
    BY <1>1, <1>5, <2>1, <2>3 DEF lensDue
  <2>4. CASE kind = "fix"
    BY <1>1, <1>5, <2>1, <2>2, <2>4 DEF fixerDue, fixerDone, fixerEnded, fixerFailed, Outcome
  <2> QED
    BY <2>3, <2>4
<1>6. PicksInv' /\ picks' \in Seq(Task)
  BY <1>0, <1>2, TypeFacts DEF PicksInv
<1> QED
  BY <1>2, <1>3, <1>4, <1>5, <1>6, LaunchesKeep

LEMMA ReviewKeeps ==
    ASSUME IInv, Review, plan' = plan
    PROVE  IInv'
PROOF
<1>0. TypeOK /\ OursInv /\ NoneStranded /\ RunInv
  BY DEF IInv
<1>1. CASE checked /\ Halt("review", "completed") /\ UNCHANGED stops
  BY <1>1, ReviewHaltKeeps
<1>2. CASE Halt("review", "stopped") /\ UNCHANGED stops
  BY <1>2, ReviewHaltKeeps
<1>3. CASE /\ Go("review", "judge") /\ gating' = Append(gating, FINAL)
           /\ UNCHANGED <<tracker, run, moved, session, picks, exit, batch, steps, stops, bounds>>
  <2>1. pc = "review" /\ pc' = "judge" /\ steps = <<>> /\ steps' = <<>>
    BY <1>3 DEF Go
  <2>2. /\ state' = state /\ ours' = ours /\ claims' = claims /\ moves' = moves /\ lost' = lost
        /\ session' = session /\ exit' = exit /\ status' = status /\ lastPass' = lastPass
        /\ moved' = moved
    BY <1>3 DEF tracker, run, bounds
  <2>3. Live = {} /\ gating = <<>> /\ gating' = <<FINAL>>
    BY <1>3, <2>1, ReviewQuiet
  <2>4. Open' = Open /\ Live' = Live /\ BeingClosed' = BeingClosed
    BY <2>1, <2>2 DEF Open, Live, BeingClosed
  <2>5. TypeOK'
    <3>1. gating' \in Seq(Id \cup {FINAL})
      BY <2>3
    <3> QED
      BY <1>0, <1>3, <2>1, <2>4, <3>1 DEF TypeOK, tracker, run, stops, bounds
  <2>6. ClaimsInv' /\ LiveInv' /\ ClosingInv' /\ PicksInv' /\ BatchInv'
    BY <2>1, <2>2, <2>3, <2>4
       DEF IInv, ClaimsInv, LiveInv, ClosingInv, PicksInv, BatchInv, onParent
  <2>7. QueueInv'
    <3>1. DOMAIN gating' = {1} /\ gating'[1] = FINAL
      BY <2>3
    <3> QED
      BY <2>1, <3>1 DEF QueueInv, Waits
  <2>8. RunInv' /\ OursInv' /\ NoneStranded'
    BY <1>0, <2>1, <2>2, <2>4
       DEF RunInv, OursInv, NoneStranded, BeingTaken, isActive, checked, onParent
  <2> QED
    BY <2>5, <2>6, <2>7, <2>8 DEF IInv
<1> QED
  BY <1>1, <1>2, <1>3 DEF Review
-----------------------------------------------------------------------------
(* The run ends, or its runner dies                                        *)

LEMMA FinishKeeps ==
    ASSUME IInv, Finish, plan' = plan
    PROVE  IInv'
PROOF
<1>0. TypeOK /\ NoneStranded /\ RunInv
  BY DEF IInv
<1>1. /\ pc = "halt" /\ pc' = "off" /\ steps = <<>> /\ steps' = <<>> /\ Live = {}
      /\ status' = exit /\ gating' = <<>> /\ picks' = <<>> /\ stopRequested' = FALSE
      /\ stopping' = FALSE
      /\ state' = state /\ ours' = ours /\ claims' = claims /\ moves' = moves /\ lost' = lost
      /\ session' = session /\ exit' = exit /\ lastPass' = lastPass /\ moved' = moved
      /\ UNCHANGED <<tracker, claims, lastPass, moved, session, exit, batch, steps, asked, bounds>>
  BY DEF Finish, Go, tracker, bounds
<1>2. Open' = Open /\ Live' = {} /\ BeingTaken' = BeingTaken
  BY <1>1 DEF Open, Live, BeingTaken
<1>3. TypeOK'
  <2>1. gating' \in Seq(Id \cup {FINAL}) /\ picks' \in Seq(Task)
    BY <1>1
  <2> QED
    BY <1>0, <1>1, <1>2, <2>1 DEF TypeOK, tracker, bounds
<1>4. ClaimsInv' /\ LiveInv' /\ ClosingInv' /\ PicksInv' /\ BatchInv'
  BY <1>1, <1>2 DEF IInv, ClaimsInv, LiveInv, ClosingInv, PicksInv, BatchInv, onParent
<1>5. QueueInv'
  <2>1. DOMAIN gating' = {}
    BY <1>1
  <2> QED
    BY <1>1, <2>1 DEF QueueInv
<1>6. RunInv' /\ OursInv'
  BY <1>0, <1>1 DEF IInv, RunInv, OursInv, checked, onParent
<1>7. NoneStranded'
  BY <1>0, <1>1, <1>2 DEF NoneStranded, isActive
<1> QED
  BY <1>3, <1>4, <1>5, <1>6, <1>7 DEF IInv

LEMMA CrashKeeps ==
    ASSUME IInv, Crash, plan' = plan
    PROVE  IInv'
PROOF
<1>0. TypeOK /\ PicksInv /\ NoneStranded /\ RunInv
  BY DEF IInv
<1>1. /\ pc # "off" /\ pc' = "off" /\ steps' = <<>> /\ batch' = {} /\ exit' = "stopped"
      /\ session' = [i \in Id |-> "none"]
      /\ status' = status /\ gating' = <<>> /\ picks' = <<>> /\ stopRequested' = FALSE
      /\ stopping' = FALSE
      /\ state' = state /\ ours' = ours /\ claims' = claims /\ moves' = moves
      /\ lost' = lost \cup BeingTaken
      /\ lastPass' = lastPass /\ moved' = moved /\ crashes < plan.crashes
      /\ crashes' = crashes + 1
      /\ UNCHANGED <<tracker, run, moved, asked, moves>>
  BY DEF Crash, tracker, run, BeingTaken
<1>2. BeingTaken \subseteq Task
  BY <1>0, RestPicked DEF BeingTaken
<1>3. Open' = Open /\ Live' = {}
  BY <1>1 DEF Open, Live
<1>4. TypeOK'
  <2>1. gating' \in Seq(Id \cup {FINAL}) /\ picks' \in Seq(Task) /\ steps' \in Seq(Close)
    BY <1>1
  <2>2. crashes \in Nat /\ plan.crashes \in Nat /\ crashes' \in 0 .. plan.crashes
    BY <1>0, <1>1, LoopAssumption DEF TypeOK
  <2>3. session' \in [Id -> {"none", "working", "gating"} \cup Outcome] /\ lost' \subseteq Task
    BY <1>0, <1>1, <1>2 DEF TypeOK
  <2> QED
    BY <1>0, <1>1, <1>3, <2>1, <2>2, <2>3 DEF TypeOK, tracker, run
<1>5. ClaimsInv' /\ LiveInv' /\ ClosingInv' /\ PicksInv' /\ BatchInv'
  BY <1>1, <1>3 DEF IInv, ClaimsInv, LiveInv, ClosingInv, PicksInv, BatchInv, onParent
<1>6. QueueInv'
  <2>1. DOMAIN gating' = {}
    BY <1>1
  <2> QED
    BY <1>1, <2>1 DEF QueueInv
<1>7. RunInv' /\ OursInv'
  BY <1>0, <1>1 DEF IInv, RunInv, OursInv, onParent
<1>8. NoneStranded'
  BY <1>0, <1>1, <1>3 DEF NoneStranded, isActive
<1> QED
  BY <1>4, <1>5, <1>6, <1>7, <1>8 DEF IInv

-----------------------------------------------------------------------------
(* What runs beside the loop                                               *)

(* The tree changes, or a stop is asked for or heard.                      *)
LEMMA AsideKeeps ==
    ASSUME IInv, plan' = plan,
           \/ \E i \in Id : Edit(i)
           \/ HearStop
           \/ AskStop
    PROVE  IInv'
PROOF
<1>0. TypeOK /\ QueueInv /\ NoneStranded /\ RunInv /\ LiveInv
  BY DEF IInv
<1>1. /\ state' = state /\ ours' = ours /\ claims' = claims /\ moves' = moves /\ lost' = lost
      /\ session' = session /\ pc' = pc /\ picks' = picks /\ exit' = exit /\ batch' = batch
      /\ steps' = steps /\ gating' = gating /\ status' = status /\ lastPass' = lastPass
      /\ finding' = finding /\ crashes' = crashes
  BY DEF Edit, Working, HearStop, AskStop, tracker, run, place, bounds
<1>2. moved' = moved \/ (Live # {} /\ moved' = TRUE)
  BY DEF Edit, Working, HearStop, AskStop, Live
<1>3. asked' \in BOOLEAN /\ stopRequested' \in BOOLEAN /\ stopping' \in BOOLEAN
  BY <1>0 DEF Edit, Working, HearStop, AskStop, stops, TypeOK, ReadInbox, StopNow
<1>4. Open' = Open /\ Live' = Live /\ BeingClosed' = BeingClosed /\ Settled' = Settled
  BY <1>1 DEF Open, Live, BeingClosed, Settled
<1>5. TypeOK'
  <2>1. moved' \in BOOLEAN
    BY <1>0, <1>2 DEF TypeOK
  <2> QED
    BY <1>0, <1>1, <1>3, <1>4, <2>1 DEF TypeOK
<1>6. ClaimsInv' /\ LiveInv' /\ BatchInv'
  BY <1>1, <1>4 DEF IInv, ClaimsInv, LiveInv, BatchInv, onParent
<1>7. ClosingInv'
  <2>1. \A c \in DOMAIN claims, how \in Outcome : Closing(c, how) => Closing(c, how)'
    BY <1>1, <1>4 DEF Closing, Left, onParent, isActive
  <2> QED
    BY <1>1, <2>1 DEF IInv, ClosingInv
<1>8. PicksInv'
  BY <1>1, <1>4 DEF IInv, PicksInv, Free, HeldTasks, blockers
<1>9. QueueInv'
  BY <1>0, <1>1 DEF QueueInv, Waits, Passing, GivenUp, onParent
<1>10. RunInv'
  <2>1. status = "completed" => Live = {}
    BY <1>0 DEF RunInv, LiveInv
  <2> QED
    BY <1>0, <1>1, <1>2, <1>4, <2>1 DEF RunInv, checked
<1>11. OursInv' /\ NoneStranded'
  BY <1>0, <1>1, <1>4 DEF IInv, OursInv, NoneStranded, BeingTaken, isActive, onParent
<1> QED
  BY <1>5, <1>6, <1>7, <1>8, <1>9, <1>10, <1>11 DEF IInv

(* An agent moves its own subtask, and nobody else closes its claim.       *)
LEMMA AgentMovesKeeps ==
    ASSUME IInv, NEW i \in Id, AgentMoves(i), plan' = plan
    PROVE  IInv'
PROOF
<1>0. TypeOK /\ ClaimsInv /\ QueueInv /\ NoneStranded /\ RunInv /\ LiveInv
  BY DEF IInv
<1>1. /\ ours' = ours /\ claims' = claims /\ moves' = moves /\ lost' = lost /\ moved' = moved
      /\ session' = session /\ pc' = pc /\ picks' = picks /\ exit' = exit /\ batch' = batch
      /\ steps' = steps /\ gating' = gating /\ status' = status /\ lastPass' = lastPass
      /\ crashes' = crashes /\ UNCHANGED <<run, place, stops, bounds>>
  BY DEF AgentMoves, Working, run, place, bounds
<1>2. i \in Live /\ i \in Open /\ i \in DOMAIN claims
  <2>1. i \in Live
    BY DEF AgentMoves, Working, Live
  <2> QED
    BY <1>0, <2>1 DEF LiveInv, Open
<1>3. PICK u : u = claims[i].task
  OBVIOUS
<1>4. \/ state' = state
      \/ /\ ~onParent(i) /\ u \in Task
         /\ \E s \in {"done", "parked"} : state' = [state EXCEPT ![u] = s]
  <2>1. claims[i].kind = "implement" => ~onParent(i) /\ u \in Task
    BY <1>0, <1>2, <1>3 DEF ClaimsInv, onParent
  <2>2. claims[i].kind \in {"implement", "lens", "fix"}
    BY <1>0, <1>2, TypeFacts DEF Claim
  <2> QED
    BY <1>3, <2>1, <2>2 DEF AgentMoves
<1>5. finding' \in {"none", "open", "closed"}
  <2>1. claims[i].kind \in {"implement", "lens", "fix"}
    BY <1>0, <1>2, TypeFacts DEF Claim
  <2> QED
    BY <1>0, <2>1 DEF AgentMoves, TypeOK
<1>6. /\ state' \in [Task -> State]
      /\ \A t \in Task : t # u => state'[t] = state[t]
      /\ \A t \in Task : state'[t] = state[t] \/ state'[t] # "in_progress"
  BY <1>0, <1>4 DEF TypeOK, State, Closed
<1>7. Open' = Open /\ Live' = Live /\ BeingClosed' = BeingClosed /\ Settled' = Settled
  BY <1>1 DEF Open, Live, BeingClosed, Settled
<1>8. \A t \in Task : isActive(t)' => isActive(t)
  BY <1>1, <1>6 DEF isActive
<1>9. TypeOK'
  BY <1>0, <1>1, <1>5, <1>6, <1>7 DEF TypeOK, stops
<1>10. ClaimsInv' /\ LiveInv' /\ BatchInv'
  BY <1>1, <1>7 DEF IInv, ClaimsInv, LiveInv, BatchInv, onParent
<1>11. ClosingInv'
  <2>1. ASSUME NEW c \in DOMAIN claims, NEW how \in Outcome, Closing(c, how)
        PROVE  Closing(c, how)'
    <3>1. c \in Open \ Live
      BY <2>1 DEF Closing
    <3>2. ~onParent(c) => claims[c].task \in Task /\ claims[c].task # u
      BY <1>0, <1>2, <1>3, <3>1 DEF ClaimsInv
    <3>3. ~onParent(c) => state'[claims[c].task] = state[claims[c].task]
      BY <1>6, <3>2
    <3> QED
      BY <1>1, <1>7, <2>1, <3>3 DEF Closing, Left, onParent, isActive
  <2> QED
    BY <1>1, <2>1 DEF IInv, ClosingInv
<1>12. PicksInv'
  BY <1>1, <1>7 DEF IInv, PicksInv, Free, HeldTasks, blockers
<1>13. QueueInv'
  BY <1>0, <1>1 DEF QueueInv, Waits, Passing, GivenUp, onParent
<1>14. RunInv' /\ OursInv'
  BY <1>0, <1>1, <1>7 DEF IInv, RunInv, OursInv, checked, onParent
<1>15. NoneStranded'
  BY <1>0, <1>1, <1>7, <1>8 DEF NoneStranded, BeingTaken
<1> QED
  BY <1>9, <1>10, <1>11, <1>12, <1>13, <1>14, <1>15 DEF IInv

(* A human never starts a subtask for the harness.                         *)
LEMMA HumanKeeps ==
    ASSUME IInv, NEW t \in Task, Human(t), plan' = plan
    PROVE  IInv'
PROOF
<1>0. TypeOK /\ QueueInv /\ NoneStranded /\ RunInv
  BY DEF IInv
<1>1. /\ claims' = claims /\ lost' = lost /\ moved' = moved
      /\ session' = session /\ pc' = pc /\ picks' = picks /\ exit' = exit /\ batch' = batch
      /\ steps' = steps /\ gating' = gating /\ status' = status /\ lastPass' = lastPass
      /\ finding' = finding /\ crashes' = crashes /\ UNCHANGED stops
  BY DEF Human, run, place
<1>2. moves < plan.moves /\ moves' = moves + 1 /\ moves \in 0 .. plan.moves /\ plan.moves \in Nat
  BY <1>0, LoopAssumption DEF Human, TypeOK
<1>3. PICK s \in State : /\ state' = [state EXCEPT ![t] = s]
                         /\ ours' = [ours EXCEPT ![t] = @ /\ s # "in_progress"]
  BY DEF Human
<1>4. PICK o \in BOOLEAN : o = (ours[t] /\ s # "in_progress")
  OBVIOUS
<1>5. ours' = [ours EXCEPT ![t] = o] /\ (o => s # "in_progress")
  BY <1>3, <1>4
<1>6. /\ state' \in [Task -> State] /\ ours' \in [Task -> BOOLEAN]
      /\ \A u \in Task : isActive(u)' => isActive(u)
  BY <1>0, <1>3, <1>5 DEF TypeOK, isActive
<1>7. Open' = Open /\ Live' = Live /\ BeingClosed' = BeingClosed /\ Settled' = Settled
  BY <1>1 DEF Open, Live, BeingClosed, Settled
<1>8. moves' \in 0 .. plan.moves /\ moves' # 0
  BY <1>2
<1>9. TypeOK'
  BY <1>0, <1>1, <1>6, <1>7, <1>8 DEF TypeOK, stops
<1>10. ClaimsInv' /\ LiveInv' /\ BatchInv'
  BY <1>1, <1>7 DEF IInv, ClaimsInv, LiveInv, BatchInv, onParent
<1>11. ClosingInv'
  <2>1. ASSUME NEW c \in DOMAIN claims, NEW how \in Outcome, Closing(c, how)
        PROVE  Closing(c, how)'
    <3>1. ~onParent(c) => claims[c].task \in Task
      BY DEF IInv, ClaimsInv
    <3>2. PICK v : v = claims[c].task
      OBVIOUS
    <3>3. ~onParent(c) => (isActive(v)' => isActive(v))
      BY <1>6, <3>1, <3>2
    <3>4. ~onParent(c) => (isActive(claims[c].task)' => isActive(claims[c].task))
      BY <1>1, <3>2, <3>3 DEF isActive
    <3>5. onParent(c)' <=> onParent(c)
      BY <1>1 DEF onParent
    <3> QED
      BY <1>1, <1>7, <1>8, <2>1, <3>4, <3>5 DEF Closing, Left
  <2> QED
    BY <1>1, <2>1 DEF IInv, ClosingInv
<1>12. PicksInv'
  BY <1>1, <1>7 DEF IInv, PicksInv, Free, HeldTasks, blockers
<1>13. QueueInv'
  BY <1>0, <1>1 DEF QueueInv, Waits, Passing, GivenUp, onParent
<1>14. RunInv' /\ OursInv'
  BY <1>0, <1>1, <1>7, <1>8 DEF RunInv, OursInv, checked
<1>15. NoneStranded'
  BY <1>0, <1>1, <1>6, <1>7 DEF NoneStranded, BeingTaken
<1> QED
  BY <1>9, <1>10, <1>11, <1>12, <1>13, <1>14, <1>15 DEF IInv

(* A session's turn is over; its claim waits for its gates, if it closed.  *)
LEMMA SessionEndsKeeps ==
    ASSUME IInv, NEW i \in Id, SessionEnds(i), plan' = plan
    PROVE  IInv'
PROOF
<1>0. TypeOK /\ ClaimsInv /\ QueueInv /\ NoneStranded /\ RunInv /\ LiveInv
  BY DEF IInv
<1>1. /\ state' = state /\ ours' = ours /\ claims' = claims /\ moves' = moves /\ lost' = lost
      /\ moved' = moved /\ pc' = pc /\ picks' = picks /\ exit' = exit /\ batch' = batch
      /\ steps' = steps /\ status' = status /\ lastPass' = lastPass /\ finding' = finding
      /\ crashes' = crashes /\ UNCHANGED stops /\ session[i] = "working"
  BY DEF SessionEnds, Working, tracker, run, place, bounds
<1>2. i \in Live /\ i \in Open /\ i \in DOMAIN claims /\ i # FINAL
  <2>1. i \in Live
    BY <1>1 DEF Live
  <2> QED
    BY <1>0, <2>1, TypeFacts DEF LiveInv, Open
<1>3. PICK how \in {"gating"} \cup Outcome :
         /\ session' = [session EXCEPT ![i] = how]
         /\ IF how = "gating" THEN gating' = Append(gating, i) /\ ~onParent(i) ELSE gating' = gating
  <2>1. PICK outcome \in afterTurn(i) :
          IF gatesAfter(i, outcome)
          THEN /\ session' = [session EXCEPT ![i] = "gating"]
               /\ gating' = Append(gating, i)
          ELSE session' = [session EXCEPT ![i] = outcome] /\ UNCHANGED gating
    BY DEF SessionEnds
  <2>2. outcome \in Outcome /\ outcome # "gating"
    <3>1. claims[i].kind \in {"implement", "lens", "fix"}
      BY <1>0, <1>2, TypeFacts DEF Claim
    <3> QED
      BY <3>1 DEF afterTurn, Outcome
  <2>3. gatesAfter(i, outcome) => ~onParent(i)
    BY DEF gatesAfter
  <2>4. CASE gatesAfter(i, outcome)
    BY <2>1, <2>3, <2>4
  <2>5. CASE ~gatesAfter(i, outcome)
    BY <2>1, <2>2, <2>5
  <2> QED
    BY <2>4, <2>5
<1>4. /\ session' \in [Id -> {"none", "working", "gating"} \cup Outcome] /\ session'[i] = how
      /\ \A j \in Id \ {i} : session'[j] = session[j]
  BY <1>0, <1>3, TypeFacts
<1>5. Open' = Open /\ Live' = Live /\ BeingClosed' = BeingClosed /\ Settled \subseteq Settled'
  <2>1. how # "none"
    BY DEF Outcome
  <2> QED
    BY <1>1, <1>2, <1>4, <2>1 DEF Open, Live, BeingClosed, Settled, Outcome
<1>6. /\ gating' \in Seq(Id \cup {FINAL})
      /\ DOMAIN gating \subseteq DOMAIN gating'
      /\ \A n \in DOMAIN gating : gating'[n] = gating[n]
      /\ \A n \in DOMAIN gating' \ DOMAIN gating :
            gating'[n] = i /\ n = Len(gating) + 1 /\ ~onParent(i) /\ how = "gating"
  <2>1. gating \in Seq(Id \cup {FINAL}) /\ Len(gating) \in Nat /\ DOMAIN gating = 1 .. Len(gating)
    BY <1>0, TypeFacts
  <2>2. CASE how = "gating"
    <3>1. /\ gating' \in Seq(Id \cup {FINAL}) /\ Len(gating') = Len(gating) + 1
          /\ \A n \in 1 .. Len(gating) : gating'[n] = gating[n]
          /\ gating'[Len(gating) + 1] = i /\ DOMAIN gating' = 1 .. Len(gating) + 1
      BY <1>2, <1>3, <2>1, <2>2, AppendProperties
    <3> QED
      BY <1>3, <2>1, <2>2, <3>1
  <2>3. CASE how # "gating"
    BY <1>3, <2>1, <2>3
  <2> QED
    BY <2>2, <2>3
<1>7. TypeOK'
  BY <1>0, <1>1, <1>4, <1>5, <1>6 DEF TypeOK, stops
<1>8. ClaimsInv' /\ LiveInv' /\ BatchInv'
  BY <1>0, <1>1, <1>5 DEF IInv, ClaimsInv, LiveInv, BatchInv, onParent
<1>9. ClosingInv'
  <2>1. \A c \in DOMAIN claims, h \in Outcome : Closing(c, h) => Closing(c, h)'
    BY <1>1, <1>5 DEF Closing, Left, onParent, isActive
  <2> QED
    BY <1>1, <2>1 DEF IInv, ClosingInv
<1>10. PicksInv'
  BY <1>1, <1>5 DEF IInv, PicksInv, Free, HeldTasks, blockers
<1>11. QueueInv'
  <2>1. ASSUME NEW w, NEW n \in DOMAIN gating, w = gating[n] PROVE Waits(w)' /\ w # i
    <3>1. Waits(w)
      BY <1>0, <2>1 DEF QueueInv
    <3>2. w # i
      <4>1. SUFFICES ASSUME w = i PROVE FALSE
        OBVIOUS
      <4>2. Passing(i) \/ GivenUp(i)
        BY <1>1, <1>2, <3>1, <4>1 DEF Waits
      <4>3. steps # <<>> /\ steps[1].claim = i
        BY <1>2, <4>2 DEF Passing, GivenUp, Open
      <4>4. PICK c \in DOMAIN claims, h \in Outcome : Closing(c, h)
        BY <4>3 DEF IInv, ClosingInv
      <4>5. c = i
        BY <1>0, <4>3, <4>4, ClosingFacts
      <4> QED
        BY <1>2, <4>4, <4>5 DEF Closing
    <3>3. w \in DOMAIN claims => w \in Id
      BY <1>0, TypeFacts
    <3> QED
      BY <1>1, <1>4, <3>1, <3>2, <3>3 DEF Waits, Passing, GivenUp, onParent
  <2>2. ASSUME NEW n \in DOMAIN gating', NEW w, w = gating'[n] PROVE Waits(w)'
    <3>1. CASE n \in DOMAIN gating
      BY <1>6, <2>1, <2>2, <3>1
    <3>2. CASE n \notin DOMAIN gating
      BY <1>1, <1>2, <1>4, <1>6, <2>2, <3>2 DEF Waits, onParent
    <3> QED
      BY <3>1, <3>2
  <2>3. \A n \in DOMAIN gating' : Waits(gating[n])'
    <3> SUFFICES ASSUME NEW n \in DOMAIN gating' PROVE Waits(gating[n])'
      OBVIOUS
    <3>1. PICK w : w = gating'[n]
      OBVIOUS
    <3>2. Waits(w)'
      BY <2>2, <3>1
    <3> QED
      BY <3>1, <3>2 DEF Waits, Passing, GivenUp, onParent
  <2>4. ASSUME NEW m \in DOMAIN gating', NEW n \in DOMAIN gating', gating'[m] = gating'[n]
        PROVE  m = n
    <3>1. \A k \in DOMAIN gating : gating[k] # i
      BY <2>1
    <3>2. \A k, l \in DOMAIN gating : gating[k] = gating[l] => k = l
      BY <1>0 DEF QueueInv
    <3> QED
      BY <1>6, <2>4, <3>1, <3>2
  <2>5. pc # "off"
    BY <1>0, <1>2 DEF LiveInv
  <2> QED
    BY <1>1, <2>3, <2>4, <2>5 DEF QueueInv
<1>12. RunInv'
  BY <1>0, <1>1, <1>2, <1>5 DEF RunInv, checked
<1>13. OursInv' /\ NoneStranded'
  BY <1>0, <1>1, <1>5 DEF IInv, OursInv, NoneStranded, BeingTaken, isActive, onParent
<1> QED
  BY <1>7, <1>8, <1>9, <1>10, <1>11, <1>12, <1>13 DEF IInv

(* What a pass writes, of those that waited for it.                        *)
Judged ==
    /\ claims' \in Seq(Claim) /\ Len(claims') = Len(claims) /\ DOMAIN claims' = DOMAIN claims
    /\ \A j \in DOMAIN claims :
          /\ claims'[j].task = claims[j].task /\ claims'[j].kind = claims[j].kind
          /\ claims'[j].outcome = claims[j].outcome
          /\ j \notin Range(gating) => claims'[j].pass = claims[j].pass
    /\ session' \in [Id -> {"none", "working", "gating"} \cup Outcome]
    /\ \A j \in Id : session'[j] # session[j] =>
          session[j] = "gating" /\ session'[j] = "done" /\ (j = gating[1] \/ gating' = <<>>)
    /\ lastPass' \in {"green", "red"}

LEMMA JudgedFacts ==
    ASSUME TypeOK, GateEnd
    PROVE  Judged
PROOF
<1>1. /\ gating \in Seq(Id \cup {FINAL}) /\ Len(gating) \in Nat
      /\ DOMAIN gating = 1 .. Len(gating)
      /\ gating # <<>>
  BY TypeFacts DEF GateEnd
<1>2. Head(gating) = gating[1] /\ 1 \in DOMAIN gating
  BY <1>1
<1>3. Head(gating) \in Range(gating) /\ behind \subseteq Range(gating)
  <2>1. PICK rest : rest = Tail(gating)
    OBVIOUS
  <2>2. /\ rest \in Seq(Id \cup {FINAL}) /\ Len(rest) = Len(gating) - 1
        /\ DOMAIN rest = 1 .. Len(rest)
        /\ \A n \in 1 .. Len(rest) : rest[n] = gating[n + 1]
    BY <1>1, <2>1, HeadTailProperties
  <2>3. Range(rest) \subseteq Range(gating)
    BY <1>1, <2>2 DEF Range
  <2> QED
    BY <1>2, <2>1, <2>3 DEF behind, Range
<1>4. PICK v \in {"green", "red", "killed"} :
         /\ lastPass' = IF v = "green" /\ behind = {} THEN "green" ELSE "red"
         /\ claims' = [i \in DOMAIN claims |->
                           IF i = Head(gating) THEN [claims[i] EXCEPT !.pass = v]
                           ELSE IF i \in behind THEN [claims[i] EXCEPT !.pass = "killed"]
                           ELSE claims[i]]
  BY DEF GateEnd, verdicts
<1>5. ASSUME NEW j \in DOMAIN claims
      PROVE  /\ claims'[j] \in Claim
             /\ claims'[j].task = claims[j].task /\ claims'[j].kind = claims[j].kind
             /\ claims'[j].outcome = claims[j].outcome
             /\ j \notin Range(gating) => claims'[j].pass = claims[j].pass
  <2>1. claims[j] \in Claim
    BY TypeFacts
  <2>2. ASSUME NEW w \in {"green", "red", "killed"}, NEW e, e = [claims[j] EXCEPT !.pass = w]
        PROVE  e \in Claim /\ e.task = claims[j].task /\ e.kind = claims[j].kind
               /\ e.outcome = claims[j].outcome
    BY <2>1, <2>2 DEF Claim
  <2>3. CASE j = Head(gating)
    <3>1. claims'[j] = [claims[j] EXCEPT !.pass = v]
      BY <1>4, <2>3
    <3> QED
      BY <1>3, <2>2, <2>3, <3>1
  <2>4. CASE j # Head(gating) /\ j \in behind
    <3>1. claims'[j] = [claims[j] EXCEPT !.pass = "killed"]
      BY <1>4, <2>4
    <3> QED
      BY <1>3, <2>2, <2>4, <3>1
  <2>5. CASE j # Head(gating) /\ j \notin behind
    BY <1>4, <2>1, <2>5
  <2> QED
    BY <2>3, <2>4, <2>5
<1>6. claims' \in Seq(Claim) /\ Len(claims') = Len(claims) /\ DOMAIN claims' = DOMAIN claims
  <2>1. PICK n \in Nat : n = Len(claims) /\ DOMAIN claims = 1 .. n
    BY TypeFacts
  <2>2. claims' \in [1 .. n -> Claim]
    BY <1>4, <1>5, <2>1
  <2> QED
    BY <2>1, <2>2, SeqDef
<1>7. /\ session' = [i \in Id |-> IF session[i] = "gating" /\ i \in {Head(gating)} \cup behind
                                  THEN "done" ELSE session[i]]
      /\ gating' = IF stopping THEN <<>> ELSE Tail(gating)
  BY DEF GateEnd
<1>8. behind # {} => gating' = <<>>
  BY <1>7 DEF behind
<1>9. session' \in [Id -> {"none", "working", "gating"} \cup Outcome]
  BY <1>7, TypeFacts DEF Outcome
<1>10. \A j \in Id : session'[j] # session[j] =>
          session[j] = "gating" /\ session'[j] = "done" /\ (j = gating[1] \/ gating' = <<>>)
  BY <1>2, <1>7, <1>8
<1> QED
  BY <1>4, <1>5, <1>6, <1>9, <1>10 DEF Judged

LEMMA GateEndKeeps ==
    ASSUME IInv, GateEnd, plan' = plan
    PROVE  IInv'
PROOF
<1>0. TypeOK /\ ClaimsInv /\ QueueInv /\ NoneStranded /\ RunInv /\ LiveInv /\ OursInv
  BY DEF IInv
<1>1. /\ state' = state /\ ours' = ours /\ finding' = finding /\ moves' = moves /\ lost' = lost
      /\ pc' = pc /\ picks' = picks /\ exit' = exit /\ batch' = batch
      /\ steps' = steps /\ status' = status /\ crashes' = crashes /\ UNCHANGED stops
      /\ moved' = FALSE /\ gating # <<>> /\ gating' = (IF stopping THEN <<>> ELSE Tail(gating))
  BY DEF GateEnd, tracker, place, bounds
<1>2. /\ claims' \in Seq(Claim) /\ Len(claims') = Len(claims) /\ DOMAIN claims' = DOMAIN claims
      /\ \A j \in DOMAIN claims :
            /\ claims'[j].task = claims[j].task /\ claims'[j].kind = claims[j].kind
            /\ claims'[j].outcome = claims[j].outcome
            /\ j \notin Range(gating) => claims'[j].pass = claims[j].pass
      /\ session' \in [Id -> {"none", "working", "gating"} \cup Outcome]
      /\ \A j \in Id : session'[j] # session[j] =>
            session[j] = "gating" /\ session'[j] = "done" /\ (j = gating[1] \/ gating' = <<>>)
      /\ lastPass' \in {"green", "red"}
  BY <1>0, JudgedFacts DEF Judged
<1>3. \A j \in DOMAIN claims : onParent(j)' <=> onParent(j)
  BY <1>2 DEF onParent
<1>4. Open' = Open /\ Live' = Live /\ BeingClosed' = BeingClosed /\ Settled \subseteq Settled'
  BY <1>1, <1>2 DEF Open, Live, BeingClosed, Settled, Outcome
<1>5. HeldTasks' = HeldTasks
  BY <1>2, <1>4 DEF HeldTasks, Open
<1>6. pc # "off" /\ status = "running"
  BY <1>0, <1>1 DEF QueueInv, RunInv
<1>7. PICK rest : rest = gating'
  OBVIOUS
<1>8. /\ rest \in Seq(Id \cup {FINAL}) /\ DOMAIN rest = 1 .. Len(rest) /\ Len(rest) \in Nat
      /\ rest # <<>> => \A n \in DOMAIN rest :
            /\ n + 1 \in DOMAIN gating /\ rest[n] = gating[n + 1] /\ 1 \in DOMAIN gating
            /\ n + 1 # 1
  <2>1. gating \in Seq(Id \cup {FINAL}) /\ Len(gating) \in Nat /\ DOMAIN gating = 1 .. Len(gating)
    BY <1>0, TypeFacts
  <2>2. CASE rest = <<>>
    BY <2>2
  <2>3. CASE rest = Tail(gating)
    <3>1. /\ rest \in Seq(Id \cup {FINAL}) /\ Len(rest) = Len(gating) - 1
          /\ \A n \in 1 .. Len(rest) : rest[n] = gating[n + 1]
      BY <1>1, <2>1, <2>3, HeadTailProperties
    <3> QED
      BY <2>1, <3>1
  <2> QED
    BY <1>1, <1>7, <2>2, <2>3
<1>9. TypeOK'
  <2>1. claims' \in Seq(Claim) /\ Len(claims') <= plan'.claims /\ Live' \subseteq DOMAIN claims'
    BY <1>0, <1>2, <1>4 DEF TypeOK
  <2>2. gating' \in Seq(Id \cup {FINAL})
    BY <1>7, <1>8
  <2>3. lastPass' \in {"none", "green", "red"} /\ moved' \in BOOLEAN
    BY <1>1, <1>2
  <2> QED
    BY <1>0, <1>1, <1>2, <2>1, <2>2, <2>3 DEF TypeOK, stops
<1>10. \A j \in DOMAIN claims : j \in Range(gating) => Waits(j)
  <2> SUFFICES ASSUME NEW j \in DOMAIN claims, j \in Range(gating) PROVE Waits(j)
    OBVIOUS
  <2>1. PICK n \in DOMAIN gating : gating[n] = j
    BY DEF Range
  <2> QED
    BY <1>0, <2>1 DEF QueueInv
<1>11. \A j \in DOMAIN claims : j # FINAL
  BY <1>0, TypeFacts
<1>12. ClaimsInv'
  <2>1. \A j \in DOMAIN claims : onParent(j) => claims'[j].pass = claims[j].pass
    BY <1>2, <1>10, <1>11 DEF Waits
  <2>2. \A j \in DOMAIN claims' :
           IF onParent(j)' THEN claims'[j].task = Parent /\ claims'[j].pass = "none"
           ELSE claims'[j].task \in Task
    BY <1>0, <1>2, <1>3, <2>1 DEF ClaimsInv
  <2>3. \A i, j \in Open' : claims'[i].task = claims'[j].task => i = j
    BY <1>0, <1>2, <1>4 DEF ClaimsInv, Open
  <2>4. \A i, j \in DOMAIN claims' :
          i < j /\ onParent(i)' /\ claims'[i].kind = claims'[j].kind
          => claims'[i].outcome = "interrupted"
    BY <1>0, <1>2, <1>3 DEF ClaimsInv
  <2> QED
    BY <2>2, <2>3, <2>4 DEF ClaimsInv
<1>13. LiveInv' /\ BatchInv'
  BY <1>0, <1>1, <1>4 DEF IInv, LiveInv, BatchInv
<1>14. ClosingInv'
  <2>1. ASSUME NEW c \in DOMAIN claims, NEW how \in Outcome, Closing(c, how), steps # <<>>
        PROVE  Closing(c, how)'
    <3>1. c \in Open \ Live /\ c \in Id
      BY <1>0, <2>1, TypeFacts DEF Closing
    <3>2. claims[c].pass = claims'[c].pass \/ Left("record") \/ how = "cancelled"
      <4>1. SUFFICES ASSUME c \in Range(gating) PROVE Left("record") \/ how = "cancelled"
        BY <1>2
      <4>2. Passing(c) \/ GivenUp(c)
        BY <1>10, <1>11, <3>1, <4>1 DEF Waits, Live
      <4>3. CASE Passing(c)
        <5>1. 1 \in DOMAIN steps /\ steps[1].do = "passing"
          BY <1>0, <4>3, TypeFacts DEF Passing
        <5> QED
          BY <2>1, <5>1 DEF Closing
      <4>4. CASE GivenUp(c)
        BY <1>0, <2>1, <3>1, <4>4, ClosingFacts DEF GivenUp, Open
      <4> QED
        BY <4>2, <4>3, <4>4
    <3>3. PICK u : u = claims[c].task
      OBVIOUS
    <3>4. u = claims'[c].task /\ (isActive(u)' <=> isActive(u))
      BY <1>1, <1>2, <3>3 DEF isActive
    <3>5. isActive(claims[c].task)' <=> isActive(claims[c].task)
      BY <1>1, <3>3, <3>4 DEF isActive
    <3>6. Left("record")' <=> Left("record")
      BY <1>1 DEF Left
    <3>7. Left("release")' <=> Left("release")
      BY <1>1 DEF Left
    <3>8. /\ \A n \in DOMAIN steps' :
                /\ steps'[n].claim = c /\ steps'[n].outcome = how
                /\ steps'[n].do = "patch" <=> n = Len(steps')
                /\ steps'[n].do \in {"pass", "passing"} =>
                      n = 1 /\ pc' = "recover" /\ ~onParent(c)' /\ Left("record")'
      BY <1>1, <1>3, <2>1, <3>6 DEF Closing
    <3>9. ~onParent(c)' =>
             /\ Left("release")' \/ ~isActive(claims[c].task)'
             /\ \/ Left("record")' \/ how = "cancelled" \/ claims'[c].pass # "red" \/ moves' # 0
                \/ state'[claims'[c].task] # "done"
      BY <1>1, <1>2, <1>3, <2>1, <3>2, <3>5, <3>6, <3>7 DEF Closing
    <3> QED
      BY <1>1, <1>4, <2>1, <3>1, <3>8, <3>9 DEF Closing
  <2> QED
    BY <1>1, <1>2, <2>1 DEF IInv, ClosingInv
<1>15. PicksInv'
  BY <1>1, <1>2, <1>5 DEF IInv, PicksInv, Free, blockers
<1>16. QueueInv'
  <2>1. ASSUME NEW n \in DOMAIN rest, NEW w, w = rest[n] PROVE Waits(w)'
    <3>1. rest # <<>>
      BY <2>1
    <3>2. n + 1 \in DOMAIN gating /\ w = gating[n + 1] /\ 1 \in DOMAIN gating /\ n + 1 # 1
      BY <1>8, <2>1, <3>1
    <3>3. Waits(w) /\ w # gating[1]
      BY <1>0, <3>2 DEF QueueInv
    <3>4. w \in Id => session'[w] = session[w]
      BY <1>2, <1>7, <3>1, <3>3
    <3>5. w \in DOMAIN claims => w \in Id
      BY <1>0, TypeFacts
    <3> QED
      BY <1>1, <1>2, <1>3, <3>3, <3>4, <3>5 DEF Waits, Passing, GivenUp
  <2>2. \A n \in DOMAIN gating' : Waits(gating[n])'
    <3> SUFFICES ASSUME NEW n \in DOMAIN gating' PROVE Waits(gating[n])'
      OBVIOUS
    <3>1. PICK w : w = gating'[n]
      OBVIOUS
    <3>2. Waits(w)'
      BY <1>7, <2>1, <3>1
    <3> QED
      BY <3>1, <3>2 DEF Waits, Passing, GivenUp, onParent
  <2>3. ASSUME NEW m \in DOMAIN rest, NEW n \in DOMAIN rest, rest[m] = rest[n]
        PROVE  m = n
    <3>1. rest # <<>>
      BY <2>3
    <3>2. m + 1 = n + 1
      BY <1>0, <1>8, <2>3, <3>1 DEF QueueInv
    <3> QED
      BY <1>8, <2>3, <3>2
  <2> QED
    BY <1>1, <1>6, <1>7, <2>2, <2>3 DEF QueueInv
<1>17. RunInv'
  BY <1>0, <1>1, <1>6, <1>4 DEF RunInv
<1>18. OursInv'
  BY <1>0, <1>1, <1>2, <1>3 DEF OursInv
<1>19. NoneStranded'
  <2>1. HeldTasks' = HeldTasks /\ BeingTaken' = BeingTaken
    BY <1>1, <1>5 DEF BeingTaken
  <2> QED
    BY <1>0, <1>1, <2>1 DEF NoneStranded, HeldTasks, isActive
<1> QED
  BY <1>9, <1>12, <1>13, <1>14, <1>15, <1>16, <1>17, <1>18, <1>19 DEF IInv
-----------------------------------------------------------------------------
(* The invariant                                                           *)

LEMMA Initial ==
    ASSUME Init
    PROVE  IInv
PROOF
<1>1. /\ plan \in Plan
      /\ state = [t \in Task |-> IF t \in plan.open THEN "next" ELSE "done"]
      /\ ours = [t \in Task |-> FALSE] /\ finding = "none"
      /\ status = "pending" /\ claims = <<>> /\ lastPass = "none" /\ moved = FALSE
      /\ session = [i \in Id |-> "none"] /\ gating = <<>>
      /\ pc = "off" /\ picks = <<>> /\ exit = "stopped" /\ batch = {} /\ steps = <<>>
      /\ asked = FALSE /\ stopRequested = FALSE /\ stopping = FALSE
      /\ crashes = 0 /\ moves = 0 /\ lost = {}
  BY DEF Init
<1>2. plan.claims \in 0 .. CLAIMS /\ CLAIMS \in Nat /\ plan.crashes \in Nat /\ plan.moves \in Nat
  BY <1>1, LoopAssumption
<1>3. DOMAIN claims = {} /\ Len(claims) = 0 /\ DOMAIN gating = {} /\ Live = {} /\ Open = {}
  BY <1>1 DEF Live, Open
<1>4. TypeOK
  <2>1. /\ claims \in Seq(Claim) /\ gating \in Seq(Id \cup {FINAL}) /\ picks \in Seq(Task)
        /\ steps \in Seq(Close)
    BY <1>1
  <2>2. /\ state \in [Task -> State] /\ ours \in [Task -> BOOLEAN]
        /\ session \in [Id -> {"none", "working", "gating"} \cup Outcome]
    BY <1>1 DEF State, Closed
  <2>3. crashes \in 0 .. plan.crashes /\ moves \in 0 .. plan.moves /\ Len(claims) <= plan.claims
    BY <1>1, <1>2, <1>3
  <2> QED
    BY <1>1, <1>3, <2>1, <2>2, <2>3 DEF TypeOK
<1>5. ClaimsInv /\ LiveInv /\ ClosingInv /\ PicksInv /\ QueueInv /\ BatchInv /\ RunInv /\ OursInv
  BY <1>1, <1>3 DEF ClaimsInv, LiveInv, ClosingInv, PicksInv, QueueInv, BatchInv, RunInv, OursInv
<1>6. NoneStranded
  BY <1>1 DEF NoneStranded, isActive
<1> QED
  BY <1>4, <1>5, <1>6 DEF IInv

LEMMA Stutters ==
    ASSUME IInv, UNCHANGED vars
    PROVE  IInv'
PROOF
<1>1. /\ state' = state /\ ours' = ours /\ finding' = finding /\ plan' = plan /\ claims' = claims
      /\ moves' = moves /\ lost' = lost /\ moved' = moved /\ session' = session /\ pc' = pc
      /\ picks' = picks /\ exit' = exit /\ batch' = batch /\ steps' = steps /\ gating' = gating
      /\ status' = status /\ lastPass' = lastPass /\ crashes' = crashes /\ UNCHANGED stops
  BY DEF vars, tracker, run, place, bounds
<1>2. Open' = Open /\ Live' = Live /\ BeingClosed' = BeingClosed /\ Settled' = Settled
  BY <1>1 DEF Open, Live, BeingClosed, Settled
<1>3. TypeOK'
  BY <1>1, <1>2 DEF IInv, TypeOK, stops
<1>4. ClaimsInv' /\ LiveInv' /\ BatchInv'
  BY <1>1, <1>2 DEF IInv, ClaimsInv, LiveInv, BatchInv, onParent
<1>5. ClosingInv'
  <2>1. \A c \in DOMAIN claims, how \in Outcome : Closing(c, how) => Closing(c, how)'
    BY <1>1, <1>2 DEF Closing, Left, onParent, isActive
  <2> QED
    BY <1>1, <2>1 DEF IInv, ClosingInv
<1>6. PicksInv'
  BY <1>1, <1>2 DEF IInv, PicksInv, Free, HeldTasks, blockers
<1>7. QueueInv'
  BY <1>1 DEF IInv, QueueInv, Waits, Passing, GivenUp, onParent
<1>8. RunInv' /\ OursInv' /\ NoneStranded'
  BY <1>1, <1>2 DEF IInv, RunInv, OursInv, NoneStranded, BeingTaken, isActive, checked, onParent
<1> QED
  BY <1>3, <1>4, <1>5, <1>6, <1>7, <1>8 DEF IInv

LEMMA Stepwise ==
    ASSUME IInv, [Next]_vars
    PROVE  IInv'
PROOF
<1>1. CASE UNCHANGED vars
  BY <1>1, Stutters
<1>2. CASE Next
  <2>1. plan' = plan
    BY <1>2 DEF Next
  <2>2. CASE Main
    <3>1. CASE CloseClaim \/ Boot \/ Recover \/ Tick
      BY <2>1, <3>1, CloseClaimKeeps, BootKeeps, RecoverKeeps, TickKeeps
    <3>2. CASE Load \/ Recheck \/ Take \/ Launch
      BY <2>1, <3>2, LoadKeeps, RecheckKeeps, TakeKeeps, LaunchKeeps
    <3>3. CASE Review \/ StartLens \/ StartFixer
      BY <2>1, <3>3, ReviewKeeps, StartReviewKeeps
    <3>4. CASE Paused \/ Nap \/ Cancel \/ TimeUp \/ Judge \/ SettledAll
      BY <2>1, <3>4, TurnsKeep
    <3>5. CASE Finish \/ \E i \in Id : SettleOne(i) \/ Abandon(i)
      BY <2>1, <3>5, FinishKeeps, SettleOneKeeps, AbandonKeeps
    <3> QED
      BY <2>2, <3>1, <3>2, <3>3, <3>4, <3>5 DEF Main
  <2>3. CASE \E i \in Id : Edit(i) \/ AgentMoves(i) \/ SessionEnds(i)
    BY <2>1, <2>3, AsideKeeps, AgentMovesKeeps, SessionEndsKeeps
  <2>4. CASE GateEnd \/ HearStop \/ AskStop \/ Crash \/ \E t \in Task : Human(t)
    BY <2>1, <2>4, GateEndKeeps, AsideKeeps, CrashKeeps, HumanKeeps
  <2> QED
    BY <1>2, <2>2, <2>3, <2>4 DEF Next
<1> QED
  BY <1>1, <1>2

(* Every state a run reaches satisfies the invariant.                      *)
THEOREM Invariance == Spec => []IInv
PROOF
<1>1. Init => IInv
  BY Initial
<1>2. IInv /\ [Next]_vars => IInv'
  BY Stepwise
<1> QED
  BY <1>1, <1>2, PTL DEF Spec

-----------------------------------------------------------------------------
(* What it says of the loop                                                *)

(* The variables have their types, whatever the plan and the order of      *)
(* events: in particular no run claims more than its plan allows.          *)
THEOREM TypeCorrect == Spec => []TypeOK
PROOF
<1>1. IInv => TypeOK
  BY DEF IInv
<1> QED
  BY <1>1, Invariance, PTL

(* While the runner goes on, each open claim is that of a live session or  *)
(* being closed, and no subtask is held twice: what a dead runner left     *)
(* open is closed by recover before anything is claimed.                   *)
THEOREM ClaimsAreHeld == Spec => []HeldBySomeone
PROOF
<1>1. IInv => HeldBySomeone
  BY DEF IInv, LiveInv, ClaimsInv, HeldBySomeone
<1> QED
  BY <1>1, Invariance, PTL

(* No subtask stays in progress for the harness with no open claim on it,  *)
(* unless the runner died between taking it and writing the claim.         *)
THEOREM ActiveAreClaimed == Spec => []NoneStranded
PROOF
<1>1. IInv => NoneStranded
  BY DEF IInv
<1> QED
  BY <1>1, Invariance, PTL

(* A run that completed has a green last pass, and a tree that has not     *)
(* moved since: halt lets no session go on behind a completed run.         *)
THEOREM CompletedWasGreen == Spec => []CompletedChecked
PROOF
<1>1. IInv => CompletedChecked
  BY DEF IInv, RunInv, checked, CompletedChecked
<1> QED
  BY <1>1, Invariance, PTL

(* One lens and one fixer at most came to an end of their own, through all *)
(* the restarts of a run.                                                  *)
THEOREM PhasesOnce == Spec => []EachPhaseOnce
PROOF
<1>1. ASSUME IInv PROVE EachPhaseOnce
  <2> SUFFICES ASSUME NEW i \in DOMAIN claims, NEW j \in DOMAIN claims,
                      onParent(i), claims[i].kind = claims[j].kind,
                      claims[i].outcome # "interrupted", claims[j].outcome # "interrupted"
               PROVE  i = j
    BY DEF EachPhaseOnce
  <2>1. i \in Nat /\ j \in Nat
    BY <1>1, TypeFacts DEF IInv
  <2>2. ~(i < j) /\ ~(j < i)
    BY <1>1 DEF IInv, ClaimsInv, onParent
  <2> QED
    BY <2>1, <2>2
<1> QED
  BY <1>1, Invariance, PTL

(* Who touches the claims.                                                 *)
LEMMA WhoWrites ==
    ASSUME IInv, [Next]_vars
    PROVE  \/ claims' = claims
           \/ CloseClaim /\ Patch
           \/ GateEnd
           \/ Launch
           \/ StartLens \/ StartFixer
PROOF
<1>1. CASE UNCHANGED vars
  BY <1>1 DEF vars, run
<1>2. CASE Main
  <2>1. CASE CloseClaim
    BY <2>1 DEF CloseClaim, Pass, PassOver, Release, Record
  <2>2. CASE Boot \/ Recover \/ Tick \/ Load \/ Recheck \/ Take
    BY <2>2 DEF Boot, Recover, Tick, Halt, Load, Recheck, Take, run
  <2>3. CASE Review \/ Paused \/ Judge \/ Nap \/ SettledAll \/ Cancel \/ TimeUp \/ Finish
    BY <2>3 DEF Review, Paused, Judge, Nap, SettledAll, Cancel, TimeUp, Finish, Halt, run
  <2>4. CASE \E i \in Id : SettleOne(i) \/ Abandon(i)
    BY <2>4 DEF SettleOne, Abandon, run
  <2> QED
    BY <1>2, <2>1, <2>2, <2>3, <2>4 DEF Main
<1>3. CASE \E i \in Id : Edit(i) \/ AgentMoves(i) \/ SessionEnds(i)
  BY <1>3 DEF Edit, AgentMoves, SessionEnds, Working, run
<1>4. CASE HearStop \/ AskStop \/ Crash \/ \E t \in Task : Human(t)
  BY <1>4 DEF HearStop, AskStop, Crash, Human, run
<1> QED
  BY <1>1, <1>2, <1>3, <1>4 DEF Next

(* No session starts on what a subtask blocks while a claim on it is open, *)
(* its gates' verdict still out; the parent is blocked by none.            *)
THEOREM VerdictsFirst == Spec => StartsAfterVerdicts
PROOF
<1> DEFINE Starts == Len(claims') > Len(claims) =>
        \A b \in Task : <<b, claims'[Len(claims')].task>> \in plan.blocks => ~VerdictOut(b)
<1>1. ASSUME IInv, [Next]_vars
      PROVE  Starts
  <2> SUFFICES ASSUME Len(claims') > Len(claims), NEW b \in Task,
                      <<b, claims'[Len(claims')].task>> \in plan.blocks
               PROVE  ~VerdictOut(b)
    OBVIOUS
  <2>0. TypeOK /\ PicksInv /\ Len(claims) \in Nat
    BY <1>1, TypeFacts DEF IInv
  <2>1. CASE claims' = claims
    BY <2>0, <2>1
  <2>2. CASE CloseClaim /\ Patch
    <3>1. PICK i, e : claims' = [claims EXCEPT ![i] = e]
      BY <2>2 DEF Patch
    <3>2. DOMAIN claims' = DOMAIN claims /\ Len(claims') = Len(claims)
      BY <2>0, <3>1, TypeFacts
    <3> QED
      BY <2>0, <3>2
  <2>3. CASE GateEnd
    BY <2>0, <2>3, JudgedFacts DEF Judged
  <2>4. plan' = plan
    BY <1>1 DEF Next, vars
  <2>5. CASE Launch
    <3>1. /\ pc = "launch" /\ launch(Head(picks), "implement")
      BY <2>5 DEF Launch, ClaimNext, Go
    <3>2. PICK t : t = Head(picks)
      OBVIOUS
    <3>3. t \in Task /\ t = picks[1] /\ 1 \in DOMAIN picks /\ Free(t) /\ Len(claims) < plan.claims
      <4>1. t = picks[1] /\ 1 \in DOMAIN picks /\ t \in Task
        BY <2>0, <3>1, <3>2, RestPicked
      <4>2. Len(picks) \in Nat /\ Len(picks) > 0 /\ plan.claims \in Nat
            /\ Len(picks) + Len(claims) <= plan.claims
        BY <2>0, <3>1, <4>1, TypeFacts DEF PicksInv
      <4> QED
        BY <2>0, <3>1, <4>1, <4>2 DEF PicksInv
    <3>4. PICK k \in Id : Written(k, t, "implement")
      BY <2>0, <2>4, <3>1, <3>2, <3>3, LaunchFacts
    <3>5. claims'[Len(claims')].task = t
      BY <3>4 DEF Written
    <3> QED
      BY <3>3, <3>5 DEF Free, blockers, HeldTasks, VerdictOut
  <2>6. CASE StartLens \/ StartFixer
    <3>1. PICK kind \in {"lens", "fix"} : launch(Parent, kind) /\ Len(claims) < plan.claims
      BY <2>6 DEF StartLens, StartFixer
    <3>2. PICK k \in Id : Written(k, Parent, kind)
      BY <2>0, <2>4, <3>1, LaunchFacts
    <3>3. claims'[Len(claims')].task = Parent
      BY <3>2 DEF Written
    <3> QED
      BY <2>0, <3>3, LoopAssumption, TypeFacts
  <2> QED
    BY <1>1, <2>1, <2>2, <2>3, <2>5, <2>6, WhoWrites
<1>2. IInv /\ [Next]_vars => [Starts]_vars
  BY <1>1
<1> QED
  BY <1>2, Invariance, PTL DEF Spec, StartsAfterVerdicts

(* A red pass of a subtask's own reopens it before its claim ends, in the  *)
(* runner that ran it or in the one that finds the claim open.             *)
THEOREM RedIsReopened == Spec => RedReopens
PROOF
<1> DEFINE Reopens == \A i \in Open :
          claims'[i].outcome \notin {"open", "cancelled"} /\ claims[i].pass = "red" /\ moves = 0
          => state[claims[i].task] # "done"
<1>1. ASSUME IInv, [Next]_vars
      PROVE  Reopens
  <2> SUFFICES ASSUME NEW i \in Open, claims'[i].outcome \notin {"open", "cancelled"},
                      claims[i].pass = "red", moves = 0
               PROVE  state[claims[i].task] # "done"
    OBVIOUS
  <2>0. TypeOK /\ i \in DOMAIN claims /\ claims[i].outcome = "open"
    BY <1>1 DEF IInv, Open
  <2>1. ~(claims' = claims)
    BY <2>0
  <2>2. ~GateEnd
    BY <2>0, JudgedFacts DEF Judged
  <2>3. ~(\E t, kind : launch(t, kind))
    <3> SUFFICES ASSUME NEW t, NEW kind, launch(t, kind) PROVE FALSE
      OBVIOUS
    <3>1. PICK e : claims' = Append(claims, e)
      BY DEF launch
    <3>2. claims'[i] = claims[i]
      BY <2>0, <3>1, TypeFacts
    <3> QED
      BY <2>0, <3>2
  <2>4. CloseClaim /\ Patch
    BY <1>1, <2>1, <2>2, <2>3, WhoWrites DEF Launch, StartLens, StartFixer
  <2>5. steps # <<>>
    BY <2>4 DEF CloseClaim
  <2>6. PICK c \in DOMAIN claims, how \in Outcome : Closing(c, how)
    BY <1>1, <2>5 DEF IInv, ClosingInv
  <2>7. /\ next = steps[1] /\ steps[1].do = "patch" /\ steps[1].claim = c
        /\ steps[1].outcome = how
        /\ Len(steps) = 1
    BY <2>0, <2>4, <2>5, <2>6, ClosingFacts DEF Patch
  <2>8. i = c /\ how # "cancelled"
    <3>1. PICK e : e = [claims[c] EXCEPT !.outcome = how]
      OBVIOUS
    <3>2. claims' = [claims EXCEPT ![c] = e]
      BY <2>4, <2>7, <3>1 DEF Patch
    <3>3. i = c
      BY <2>0, <3>2
    <3>4. claims[c] \in Claim
      BY <2>0, TypeFacts
    <3>5. claims'[c].outcome = how
      BY <3>1, <3>2, <3>4 DEF Claim
    <3> QED
      BY <3>3, <3>5
  <2>9. ~onParent(c)
    BY <1>1, <2>8 DEF IInv, ClaimsInv
  <2>10. ~Left("record")
    <3>1. DOMAIN steps = {1}
      BY <2>0, <2>7, TypeFacts
    <3> QED
      BY <2>7, <3>1 DEF Left
  <2> QED
    BY <2>6, <2>8, <2>9, <2>10 DEF Closing
<1>2. IInv /\ [Next]_vars => [Reopens]_vars
  BY <1>1
<1> QED
  BY <1>2, Invariance, PTL DEF Spec, RedReopens

=============================================================================
