------------------------------ MODULE Capture ------------------------------
(***************************************************************************)
(* What a device's storage writes leave in its sync_oplog.  A write is one *)
(* callback of withDb on a connection of its own: the statement, then the  *)
(* capture of the row as it is by then.  Only the deletion of a task is a  *)
(* transaction; between the others' statements the writes of every other   *)
(* process run, and the process may die.  A statement that finds the       *)
(* database locked for too long has the whole callback run again.  Nothing *)
(* is captured until the device is armed; a backfill records what was      *)
(* there before, and may be run again at any time.                         *)
(*                                                                         *)
(* Of a row its version is kept, which every write raises.  Nothing in the *)
(* storage layer makes a row private, so every row is shared.              *)
(***************************************************************************)
EXTENDS Naturals, FiniteSets, SequencesExt

CONSTANTS
    Row,        \* the ids of rows
    Task,       \* those of tasks; the others are comments, links, refs, work log
    Parent,     \* what a row hangs off, itself if nothing
    Before,     \* the rows there are before the device is armed
    Proc,       \* processes on the device
    VERSIONS,   \* BOUND: the highest version of a row
    OPS,        \* BOUND: storage writes
    BUSY,       \* BOUND: statements that find the database locked
    CRASHES     \* BOUND: deaths

isRoot(r) == Parent[r] = r

ASSUME CaptureAssumption ==
    /\ Task \subseteq Row /\ Parent \in [Row -> Task] /\ IsFiniteSet(Row) /\ Row # {}
    /\ \A r \in Row : isRoot(r) \/ isRoot(Parent[r])
    /\ Before \subseteq Row /\ \A r \in Before : Parent[r] \in Before
    /\ {VERSIONS, OPS, BUSY, CRASHES} \subseteq Nat /\ VERSIONS > 0

VARIABLES
    row,        \* the tables: the version of a row, 0 if there is none
    used,       \* ids ever generated
    armed,      \* there is a row in sync_state
    log,        \* sync_oplog
    at,         \* the callback each process is in
    ops, busy, crashes,
    owed,       \* history: rows whose last write is in no op, and nobody is about to record
    orphaned    \* history: rows recorded while their parent was owed or not recorded yet

tables == <<row, used>>
bounds == <<ops, busy, crashes>>
vars == <<tables, armed, log, at, bounds, owed, orphaned>>

Op == [row : Row, op : {"put", "delete"}, version : 1 .. VERSIONS, by : {"capture", "backfill"}]
NONE == 0

(* snap is the version captured, gone what a task's deletion takes along.  *)
Callback == [pc : {"idle", "write", "look", "delete", "transaction", "snap", "state", "record"},
             do : {"add", "update", "remove", "deleteTask"}, row : Row, snap : NONE .. VERSIONS,
             gone : Seq(Row)]

TypeOK ==
    /\ row \in [Row -> NONE .. VERSIONS] /\ used \subseteq Row
    /\ armed \in BOOLEAN /\ log \in Seq(Op)
    /\ at \in [Proc -> Callback]
    /\ ops \in 0 .. OPS /\ busy \in 0 .. BUSY /\ crashes \in 0 .. CRASHES
    /\ owed \subseteq Row /\ orphaned \subseteq Row

Init ==
    /\ row = [r \in Row |-> IF r \in Before THEN 1 ELSE NONE] /\ used = Before
    /\ armed = FALSE /\ log = <<>>
    /\ at = [p \in Proc |-> [pc |-> "idle", do |-> "add", row |-> CHOOSE r \in Row : TRUE,
                             snap |-> NONE, gone |-> <<>>]]
    /\ ops = 0 /\ busy = 0 /\ crashes = 0
    /\ owed = Before /\ orphaned = {}

Go(p, from, to) == at[p].pc = from /\ at' = [at EXCEPT ![p].pc = to]
subject(p) == at[p].row
does(p, what) == at[p].do = what

Recorded(r, what) == \E n \in DOMAIN log : log[n].row = r /\ log[n].op = what
(* A process that has written the row and has the capture of it before it. *)
Capturing(p, r) == at[p].pc \in {"snap", "state", "record"} /\ subject(p) = r
InFlight(r) == \E p \in Proc : Capturing(p, r)

(* Where the callback of an operation begins.                              *)
Start(what) == IF what \in {"add", "update"} THEN "write" ELSE "look"

-----------------------------------------------------------------------------
(* Storage writes                                                          *)

(* A caller knows the ids of rows that were there.                         *)
Begin(p) ==
    /\ at[p].pc = "idle" /\ ops < OPS /\ ops' = ops + 1
    /\ \E what \in {"add", "update", "remove", "deleteTask"}, r \in Row :
          /\ r \in used <=> what # "add"
          /\ (what = "remove" => r \notin Task) /\ (what = "deleteTask" => r \in Task)
          /\ at' = [at EXCEPT ![p] = [pc |-> Start(what), do |-> what, row |-> r,
                                      snap |-> NONE, gone |-> <<>>]]
    /\ UNCHANGED <<tables, armed, log, busy, crashes, owed, orphaned>>

(* A row whose parent is gone violates the foreign key.                    *)
Insert(p) ==
    /\ does(p, "add") /\ subject(p) \notin used
    /\ IF isRoot(subject(p)) \/ row[Parent[subject(p)]] # NONE
       THEN /\ Go(p, "write", "snap")
            /\ row' = [row EXCEPT ![subject(p)] = 1]
            /\ used' = used \cup {subject(p)}
       ELSE Go(p, "write", "idle") /\ UNCHANGED tables
    /\ UNCHANGED <<armed, log, bounds, owed, orphaned>>

Update(p) ==
    /\ does(p, "update") /\ Go(p, "write", "snap")
    /\ row[subject(p)] < VERSIONS
    /\ row' = [row EXCEPT ![subject(p)] = IF @ = NONE THEN NONE ELSE @ + 1]
    /\ UNCHANGED <<used, armed, log, bounds, owed, orphaned>>

(* captureRow: the row as it is now, unless it is gone; recorded if the    *)
(* device is armed.                                                        *)
Found(r) == row[r] # NONE

Snap(p) ==
    /\ at[p].pc = "snap"
    /\ at' = [at EXCEPT ![p].pc = IF Found(subject(p)) THEN "state" ELSE "idle",
                        ![p].snap = row[subject(p)]]
    /\ UNCHANGED <<tables, armed, log, bounds, owed, orphaned>>

ReadState(p) ==
    /\ Go(p, "state", IF armed THEN "record" ELSE "idle")
    /\ owed' = IF armed THEN owed ELSE owed \cup {subject(p)}
    /\ UNCHANGED <<tables, armed, log, bounds, orphaned>>

Record(p) ==
    /\ Go(p, "record", "idle")
    /\ log' = Append(log, [row |-> subject(p), op |-> IF does(p, "remove") THEN "delete" ELSE "put",
                           version |-> at[p].snap, by |-> "capture"])
    /\ owed' = IF does(p, "remove") \/ at[p].snap = row[subject(p)]
               THEN owed \ {subject(p)} ELSE owed
    /\ LET parent == Parent[subject(p)] IN
       orphaned' = IF ~isRoot(subject(p)) /\ (parent \in owed \/ InFlight(parent))
                   THEN orphaned \cup {subject(p)} ELSE orphaned
    /\ UNCHANGED <<tables, armed, bounds>>

(* A comment, a link, ...: the row as it was, the deletion, its capture.   *)
Look(p) ==
    /\ does(p, "remove") /\ at[p].pc = "look"
    /\ at' = [at EXCEPT ![p].pc = "delete", ![p].snap = row[subject(p)]]
    /\ UNCHANGED <<tables, armed, log, bounds, owed, orphaned>>

Delete(p) ==
    /\ Go(p, "delete", IF at[p].snap = NONE THEN "idle" ELSE "state")
    /\ row' = [row EXCEPT ![subject(p)] = NONE]
    /\ UNCHANGED <<used, armed, log, bounds, owed, orphaned>>

(* A task: what the cascade will remove is read, children first; the       *)
(* deletion and its captures are one transaction.                          *)
Under(t) == {r \in Row : row[r] # NONE /\ (r = t \/ Parent[r] = t)}
ChildrenFirst(S) ==
    CHOOSE q \in SetToSeqs(S) : \A i, j \in DOMAIN q : i < j => Parent[q[j]] # q[i] \/ isRoot(q[j])
cascadeBelow(t) == ChildrenFirst(Under(t) \ {t})
cascadeOf(t) == ChildrenFirst(Under(t))

LookUnder(p) ==
    /\ does(p, "deleteTask") /\ at[p].pc = "look"
    /\ at' = [at EXCEPT ![p].pc = "transaction", ![p].gone = cascadeOf(subject(p))]
    /\ UNCHANGED <<tables, armed, log, bounds, owed, orphaned>>

DeleteTask(p) ==
    /\ Go(p, "transaction", "idle")
    /\ row' = [r \in Row |-> IF r \in Under(subject(p)) THEN NONE ELSE row[r]]
    /\ LET gone == at[p].gone
           Deleted(n) == [row |-> gone[n], op |-> "delete", version |-> 1, by |-> "capture"]
       IN IF armed THEN /\ log' = log \o [n \in DOMAIN gone |-> Deleted(n)]
                        /\ owed' = owed \ Range(gone)
                   ELSE UNCHANGED log /\ owed' = owed \cup Under(subject(p))
    /\ UNCHANGED <<used, armed, bounds, orphaned>>

-----------------------------------------------------------------------------
(* withDb                                                                  *)

(* A write that finds the database locked has the callback run again: a    *)
(* row is inserted anew, under an id of its own.  After the last retry the *)
(* caller is told.  What the first run wrote stays as it is.               *)
Fresh(r) == {s \in Row \ used : isRoot(s) = isRoot(r) /\ (isRoot(r) \/ Parent[s] = Parent[r])}

Busy(p) ==
    /\ at[p].pc \in {"write", "delete", "record", "transaction"}
    /\ busy < BUSY /\ busy' = busy + 1
    /\ \/ at' = [at EXCEPT ![p].pc = "idle"]
       \/ \E r \in IF does(p, "add") THEN Fresh(subject(p)) ELSE {subject(p)} :
             at' = [at EXCEPT ![p].pc = Start(at[p].do), ![p].row = r]
    /\ owed' = IF at[p].pc = "record" THEN owed \cup {subject(p)} ELSE owed
    /\ UNCHANGED <<tables, armed, log, ops, crashes, orphaned>>

Crash(p) ==
    /\ at[p].pc # "idle" /\ crashes < CRASHES /\ crashes' = crashes + 1
    /\ at' = [at EXCEPT ![p].pc = "idle"]
    /\ owed' = IF Capturing(p, subject(p)) THEN owed \cup {subject(p)} ELSE owed
    /\ UNCHANGED <<tables, armed, log, ops, busy, orphaned>>

-----------------------------------------------------------------------------
(* Arming and backfill                                                     *)

Arm ==
    /\ ~armed /\ armed' = TRUE
    /\ UNCHANGED <<tables, log, at, bounds, owed, orphaned>>

(* One transaction: every row, parents first, as an op whose id is made of *)
(* the row and its version, so that one already there is left alone.       *)
orderOfDeletes(S) == ChildrenFirst(S)
order(S) == Reverse(ChildrenFirst(S))
backfillOp(r) == [row |-> r, op |-> "put", version |-> row[r], by |-> "backfill"]
sameIdUnversioned(a, b) == a.by = "backfill" /\ a.by = b.by /\ a.row = b.row
sameId(a, b) == a.by = "backfill" /\ a = b

Backfill ==
    /\ armed
    /\ LET missing == {r \in Row : /\ row[r] # NONE
                                   /\ \A n \in DOMAIN log : ~sameId(log[n], backfillOp(r))}
           rows == order(missing)
       IN log' = log \o [n \in DOMAIN rows |-> backfillOp(rows[n])]
    /\ owed' = {r \in owed : row[r] = NONE}
    /\ UNCHANGED <<tables, armed, at, bounds, orphaned>>

Next ==
    \/ \E p \in Proc :
          \/ Begin(p) \/ Insert(p) \/ Update(p) \/ Snap(p) \/ ReadState(p) \/ Record(p)
          \/ Look(p) \/ Delete(p) \/ LookUnder(p) \/ DeleteTask(p)
          \/ Busy(p) \/ Crash(p)
    \/ Arm \/ Backfill

Spec == Init /\ [][Next]_vars

-----------------------------------------------------------------------------
(* Properties                                                              *)

(* Once no write of it is under way, a row of an armed device is recorded  *)
(* as it is, whatever writes overlapped on it and however arming and the   *)
(* backfill fell between their statements; save one whose writer died or   *)
(* gave up between the two, until it is written or backfilled again.       *)
LatestCaptured ==
    \A r \in Row : row[r] # NONE /\ r \notin owed /\ ~InFlight(r) =>
        \E n \in DOMAIN log : log[n].row = r /\ log[n].op = "put" /\ log[n].version = row[r]

(* A row the log has and the tables do not is recorded as deleted, or what *)
(* it hung off is.                                                         *)
DeletedCaptured ==
    \A r \in Row : row[r] = NONE /\ r \notin owed /\ ~InFlight(r) /\ Recorded(r, "put") =>
        Recorded(r, "delete") \/ Recorded(Parent[r], "delete")

(* No row is recorded before anything is of what it hangs off, when every  *)
(* other device would drop it, and miss it once the parent comes; save     *)
(* while the parent is itself between its two statements, or left there.   *)
ParentsCapturedFirst ==
    \A n \in DOMAIN log : log[n].op = "put" /\ log[n].row \notin orphaned =>
        isRoot(log[n].row)
        \/ \E m \in 1 .. n - 1 : log[m].row = Parent[log[n].row]

=============================================================================
