--------------------------- MODULE MC_Replication ---------------------------
(* Instances of Replication for TLC.                                       *)
EXTENDS Replication

CONSTANTS Tie  \* whether every device writes as the same actor

MCActor == [d \in Device |-> IF Tie THEN 1 ELSE 3 - d]

Free == [r \in Row |-> 0]
Under1 == [r \in Row |-> IF r = 1 THEN 0 ELSE 1]
All(table) == [r \in Row |-> table]

(* A task and a comment of it; two tasks, which may get one label; two     *)
(* links, or two refs, of one natural key.                                 *)
Thread == [table |-> [r \in Row |-> IF r = 1 THEN "task" ELSE "comment"],
           parent |-> Under1, key |-> Free, writes |-> 4, clocks |-> 2, labels |-> 4]
Labelled == [table |-> All("task"), parent |-> Free, key |-> Free, writes |-> 3, clocks |-> 2, labels |-> 4]
Links == [table |-> All("link"), parent |-> Free, key |-> All(1), writes |-> 4, clocks |-> 1, labels |-> 4]
Refs == [table |-> All("ref"), parent |-> Free, key |-> All(1), writes |-> 3, clocks |-> 3, labels |-> 4]

Kept == {Thread, Labelled, Links, Refs}
OneTask == {[Thread EXCEPT !.writes = 3]}
TwoTasks == {Labelled}
=============================================================================
