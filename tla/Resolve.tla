------------------------------ MODULE Resolve ------------------------------
(***************************************************************************)
(* What one incoming op does to the row it names: the pure rules of the    *)
(* resolver, for the tables resolved by last-writer-wins on the row (tasks,*)
(* projects), for the append-only ones (comments, work log), and for those *)
(* that have a natural key beside their id, of which the lower id survives *)
(* (links; context refs and upstream links, whose content is then the last *)
(* writer's).                                                              *)
(*                                                                         *)
(* An op carries the clock it is compared by: the row's updated_at in a    *)
(* write, the capture time in a delete.  A row and an op carry the version *)
(* and the actor of the write, the label of the row (a task's short id; 0  *)
(* in other tables), and val stands for everything else in it.             *)
(* ULIDs, actors and device ids are ordered, so they are numbers here.     *)
(***************************************************************************)
EXTENDS Integers

(* A row that is not there.                                                *)
Absent == [clock |-> 0, version |-> 0, actor |-> 0, label |-> 0, val |-> 0]

-----------------------------------------------------------------------------
(* Clock, then ULID, then version, then actor, then device id.             *)
Beats(a, b) ==
    \/ a.clock > b.clock
    \/ a.clock = b.clock /\ a.id < b.id
    \/ a.clock = b.clock /\ a.id = b.id /\ a.version > b.version
    \/ a.clock = b.clock /\ a.id = b.id /\ a.version = b.version /\ a.actor < b.actor
    \/ /\ a.clock = b.clock /\ a.id = b.id /\ a.version = b.version /\ a.actor = b.actor
       /\ a.device < b.device

(* The two sides of a comparison.  A row does not say which device wrote   *)
(* it: the device that holds it stands in for the writer.                  *)
SideOf(op) ==
    [clock |-> op.clock, id |-> op.row, version |-> op.version,
     actor |-> op.actor, device |-> op.dev]
HeldSide(r, row, me) ==
    [clock |-> row.clock, id |-> r, version |-> row.version,
     actor |-> row.actor, device |-> me]

IncomingAlwaysWins(op, row, me) == TRUE
IncomingWins(op, row, me) == Beats(SideOf(op), HeldSide(op.row, row, me))

(* The content of an op, and the same with the version raised to the       *)
(* high-water mark.                                                        *)
Content(op) ==
    [clock |-> op.clock, version |-> op.version, actor |-> op.actor,
     label |-> op.label, val |-> op.val]
WithVersion(op, row) ==
    [Content(op) EXCEPT !.version = IF row.version > @ THEN row.version ELSE @]

-----------------------------------------------------------------------------
(* The decisions.                                                          *)

(* An absent row was deleted, not unseen, when a delete of it is known; a  *)
(* write revives it only if it is newer.  deletedAt is 0 when none is.     *)
KnownDeleted(op, row, deletedAt) ==
    row = Absent /\ deletedAt > 0 /\ ~(op.clock > deletedAt)

(* Whether a write is applied to a table that is resolved by row LWW.      *)
TakesRowLww(op, row, me, deletedAt) ==
    /\ ~KnownDeleted(op, row, deletedAt)
    /\ row = Absent \/ IncomingWins(op, row, me)

(* Whether it is applied to an append-only table.                          *)
TakesAppendOnly(op, row, deletedAt) ==
    ~KnownDeleted(op, row, deletedAt) /\ row = Absent

(* Whether it is applied to a table with a natural key and no clock; held *)
(* is the other row with the op's key, or 0.                               *)
TakesDedupe(op, row, held, deletedAt) ==
    TakesAppendOnly(op, row, deletedAt) /\ (held = 0 \/ op.row < held)

(* Of an op and the row that is held with its key, whatever its id: the id *)
(* that survives, and the content.                                         *)
SurvivorIncoming(op, held) == op.row
Survivor(op, held) == IF op.row < held THEN op.row ELSE held

Merged(op, held, row, me) ==
    IF Beats(SideOf(op), HeldSide(held, row, me)) THEN WithVersion(op, row) ELSE row

(* Whether a delete is: not when the local row was updated since.          *)
TakesDeleteAlways(op, row) == row # Absent
TakesDelete(op, row) == row # Absent /\ ~(row.clock > op.clock)
=============================================================================
