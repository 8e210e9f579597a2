------------------------------ MODULE FileLock ------------------------------
(***************************************************************************)
(* The lock a loop command takes on a worktree before it changes it: a     *)
(* file that names its owner.  Linking a complete file into place takes    *)
(* the lock, and fails while it exists.  A lock whose owner is gone is     *)
(* removed by a taker that holds a guard, itself such a file.              *)
(*                                                                         *)
(* Every call on the file system is a step of its own, between which other *)
(* processes run and any process may die.  Reading a file and unlinking it *)
(* if it holds a given text are two calls, and that is where it is hard.   *)
(*                                                                         *)
(* Abstracted: a process (a command) takes the lock once, so its record is *)
(* its name, and a guard's record is the process and the attempt it was    *)
(* made in, as a random token makes each differ.  Whether a process lives  *)
(* is known for certain: its pid and its start time are readable.          *)
(***************************************************************************)
EXTENDS Naturals

CONSTANTS
    Taker,
    Gone,       \* the processes that died before, one of them with the lock perhaps
    Mortal,     \* BOUND: the processes that may die yet
    NoFile,     \* what reading a file that is not there gives
    ATTEMPTS    \* rounds of contending for a file

ASSUME FileLockAssumption ==
    /\ Gone \subseteq Taker /\ Mortal \subseteq Taker
    /\ NoFile \notin Taker /\ NoFile \notin Taker \X Nat
    /\ ATTEMPTS \in Nat \ {0}

VARIABLES
    lock,       \* the lock: the process it names, or NoFile
    guard,      \* the guard: its record, or NoFile
    alive,      \* the processes that have not died
    stage,      \* stage[p]: the call p makes next
    attempt,    \* attempt[p]: rounds p has contended for the lock
    round,      \* round[p]: rounds p has contended for the guard, this attempt
    seen,       \* seen[p]: the lock as p read it
    held,       \* held[p]: the guard as p read it
    guardLost   \* history: a process died inside the guard

files == <<lock, guard>>
locals == <<attempt, round, seen, held>>
lockVars == <<lock, guard, alive, stage, locals, guardLost>>

Guard == Taker \X (0 .. ATTEMPTS - 1)
ownerOf(g) == g[1]
MyGuard(p) == <<p, attempt[p]>>

InGuard == {"check", "remove", "leave", "unguard"}
Holding == {"held", "release", "unlock"}

LockTypeOK ==
    /\ lock \in Taker \cup {NoFile}
    /\ guard \in Guard \cup {NoFile}
    /\ alive \subseteq Taker
    /\ stage \in [Taker -> {"idle", "create", "read", "judge", "guard", "readGuard", "judgeGuard",
                         "checkGuard", "clearGuard", "done"} \cup InGuard \cup Holding]
    /\ attempt \in [Taker -> 0 .. ATTEMPTS - 1]
    /\ round \in [Taker -> 0 .. ATTEMPTS - 1]
    /\ seen \in [Taker -> Taker \cup {NoFile}]
    /\ held \in [Taker -> Guard \cup {NoFile}]
    /\ guardLost \in BOOLEAN

LockInit ==
    /\ lock \in Gone \cup {NoFile}
    /\ guard = NoFile
    /\ alive = Taker \ Gone
    /\ stage = [p \in Taker |-> "idle"]
    /\ attempt = [p \in Taker |-> 0]
    /\ round = [p \in Taker |-> 0]
    /\ seen = [p \in Taker |-> NoFile]
    /\ held = [p \in Taker |-> NoFile]
    /\ guardLost = FALSE

Goes(p, to) == stage' = [stage EXCEPT ![p] = to]

(* p, alive, is at one of the calls and moves to another.                  *)
Step(p, from, to) ==
    /\ p \in alive /\ stage[p] = from
    /\ Goes(p, to)
    /\ UNCHANGED <<alive, guardLost>>

-----------------------------------------------------------------------------
(* take                                                                    *)

Begin(p) == Step(p, "idle", "create") /\ UNCHANGED <<files, locals>>

(* The lock is linked into place, or p reads why not.                      *)
CreateLock(p) ==
    \/ /\ lock = NoFile
       /\ Step(p, "create", "held")
       /\ lock' = p
       /\ UNCHANGED <<guard, locals>>
    \/ /\ lock # NoFile
       /\ Step(p, "create", "read")
       /\ UNCHANGED <<files, locals>>

(* The next attempt, or none is left and the take fails.                   *)
NextAttempt(p, from) ==
    /\ round' = [round EXCEPT ![p] = 0]
    /\ IF attempt[p] + 1 < ATTEMPTS
       THEN Step(p, from, "create") /\ attempt' = [attempt EXCEPT ![p] = @ + 1]
       ELSE Step(p, from, "done") /\ UNCHANGED attempt
    /\ UNCHANGED <<seen, held>>

(* Released meanwhile: contend again.                                      *)
ReadLock(p) ==
    \/ /\ lock # NoFile
       /\ Step(p, "read", "judge")
       /\ seen' = [seen EXCEPT ![p] = lock]
       /\ UNCHANGED <<files, attempt, round, held>>
    \/ /\ lock = NoFile
       /\ NextAttempt(p, "read")
       /\ UNCHANGED files

(* The owner of the lock as p read it is gone.                             *)
NeverGone(p) == FALSE
OwnerGone(p) == seen[p] \notin alive

(* Refused while the owner lives; taken over from a gone one.              *)
Judge(p) ==
    /\ Step(p, "judge", IF OwnerGone(p) THEN "guard" ELSE "done")
    /\ UNCHANGED <<files, locals>>

-----------------------------------------------------------------------------
(* takeOver                                                                *)

(* The next round for the guard; after the last the lock is contended for. *)
RoundsLeftOneMore(p) == round[p] < ATTEMPTS
RoundsLeft(p) == round[p] + 1 < ATTEMPTS
NextRound(p, from) ==
    IF RoundsLeft(p)
    THEN /\ Step(p, from, "guard")
         /\ round' = [round EXCEPT ![p] = @ + 1]
         /\ UNCHANGED <<attempt, seen, held>>
    ELSE NextAttempt(p, from)

CreateGuard(p) ==
    \/ /\ guard = NoFile
       /\ Step(p, "guard", "check")
       /\ guard' = MyGuard(p)
       /\ UNCHANGED <<lock, locals>>
    \/ /\ guard # NoFile
       /\ Step(p, "guard", "readGuard")
       /\ UNCHANGED <<files, locals>>

(* Inside the guard: the lock still holds the record whose owner is gone.  *)
StillThere(p) == lock # NoFile
StillStale(p) == lock = seen[p]

Check(p) ==
    /\ Step(p, "check", IF StillStale(p) THEN "remove" ELSE "leave")
    /\ UNCHANGED <<files, locals>>

Remove(p) ==
    /\ Step(p, "remove", "leave")
    /\ lock' = NoFile
    /\ UNCHANGED <<guard, locals>>

(* The guard is left: removed if it is still p's.                          *)
Leave(p) ==
    \/ /\ guard = MyGuard(p)
       /\ Step(p, "leave", "unguard")
       /\ UNCHANGED <<files, locals>>
    \/ /\ guard # MyGuard(p)
       /\ NextAttempt(p, "leave")
       /\ UNCHANGED files

Unguard(p) ==
    /\ NextAttempt(p, "unguard")
    /\ guard' = NoFile
    /\ UNCHANGED lock

(* Another holds the guard.                                                *)
ReadGuard(p) ==
    \/ /\ guard # NoFile
       /\ Step(p, "readGuard", "judgeGuard")
       /\ held' = [held EXCEPT ![p] = guard]
       /\ UNCHANGED <<files, attempt, round, seen>>
    \/ /\ guard = NoFile
       /\ NextRound(p, "readGuard")
       /\ UNCHANGED files

(* The holder of the guard as p read it is gone.                           *)
HolderGone(p) == ownerOf(held[p]) \notin alive

JudgeGuard(p) ==
    \/ /\ Step(p, "judgeGuard", "checkGuard")
       /\ HolderGone(p)
       /\ UNCHANGED <<files, locals>>
    \/ /\ NextRound(p, "judgeGuard")
       /\ ~HolderGone(p)
       /\ UNCHANGED files

CheckGuard(p) ==
    \/ /\ guard = held[p]
       /\ Step(p, "checkGuard", "clearGuard")
       /\ UNCHANGED <<files, locals>>
    \/ /\ guard # held[p]
       /\ NextRound(p, "checkGuard")
       /\ UNCHANGED files

ClearGuard(p) ==
    /\ NextRound(p, "clearGuard")
    /\ guard' = NoFile
    /\ UNCHANGED lock

-----------------------------------------------------------------------------
(* The release: the lock is removed while it is still p's.                 *)

Release(p) == Step(p, "held", "release") /\ UNCHANGED <<files, locals>>

CheckMine(p) ==
    /\ Step(p, "release", IF lock = p THEN "unlock" ELSE "done")
    /\ UNCHANGED <<files, locals>>

Unlock(p) ==
    /\ Step(p, "unlock", "done")
    /\ lock' = NoFile
    /\ UNCHANGED <<guard, locals>>

(* p dies; what it linked stays.                                           *)
Die(p) ==
    /\ p \in alive \cap Mortal
    /\ alive' = alive \ {p}
    /\ guardLost' = (guardLost \/ stage[p] \in InGuard)
    /\ UNCHANGED <<files, stage, locals>>

Take(p) ==
    \/ CreateLock(p) \/ ReadLock(p) \/ Judge(p)
    \/ CreateGuard(p) \/ Check(p) \/ Remove(p) \/ Leave(p) \/ Unguard(p)
    \/ ReadGuard(p) \/ JudgeGuard(p) \/ CheckGuard(p) \/ ClearGuard(p)

LockNext == \E p \in Taker :
    \/ Begin(p) \/ Take(p)
    \/ Release(p) \/ CheckMine(p) \/ Unlock(p)
    \/ Die(p)

LockSpec == LockInit /\ [][LockNext]_lockVars

(* A process that lives goes on with its take: no call of it waits for     *)
(* another process.  Nobody has to begin, to release or to die.            *)
LockFairness == \A p \in Taker : WF_lockVars(Take(p))

LockFairSpec == LockSpec /\ LockFairness

-----------------------------------------------------------------------------
(* PROPERTIES                                                              *)

Holds(p) == p \in alive /\ stage[p] \in Holding

(* One process at most holds the lock, whoever dies with it, however many  *)
(* take over a dead owner's at once; unless a process died inside the      *)
(* guard.                                                                  *)
MutualExclusion == ~guardLost => \A p, q \in Taker : Holds(p) /\ Holds(q) => p = q

(* A live owner's lock is removed by nobody but its owner; unless a        *)
(* process died inside the guard.                                          *)
OnlyDeadLocksRemoved ==
    [][~guardLost => \A p \in Taker :
        lock = p /\ p \in alive /\ lock' # p =>
            stage[p] = "unlock" /\ stage'[p] = "done"]_lockVars

(* What the dead leave behind, a lock, a guard or both, locks nobody out:  *)
(* a process that contends with nobody gets the lock.                      *)
ContendsAlone(p) == \A q \in Taker \ {p} : q \notin alive \/ stage[q] \in {"idle", "done"}
StaleNeverBlocks ==
    \A p \in Taker :
        (p \in alive /\ stage[p] = "create" /\ attempt[p] = 0 /\ ContendsAlone(p))
            ~> (p \notin alive \/ stage[p] = "held" \/ ~ContendsAlone(p))
=============================================================================
