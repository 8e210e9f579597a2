------------------------------- MODULE Outbox -------------------------------
(***************************************************************************)
(* What a device is promised about the changes it captures, without the    *)
(* processes, batches, chunks and requests that keep the promise:          *)
(*                                                                         *)
(*  - each op gets at most one place in the shared log, above every place  *)
(*    given before, and keeps it;                                          *)
(*  - ops are settled in the order they were captured: an op is published  *)
(*    or given up on only when every op before it is settled;              *)
(*  - the watermark covers settled ops only, and only moves forward.       *)
(*                                                                         *)
(* An op that was given up on may still be published later, out of order.  *)
(***************************************************************************)
EXTENDS Integers

CONSTANTS
    Device,
    MaxOps      \* BOUND: ops captured per device

Seqs == 1 .. MaxOps

VARIABLES
    recorded,   \* recorded[d]: ops device d has captured
    acked,      \* acked[d]: d regards its ops up to here as settled
    givenUp,    \* givenUp[d]: d's ops that are reported as not published
    place       \* place[d][i]: where d's op i stands in the log; 0 when it does not

vars == <<recorded, acked, givenUp, place>>

Init ==
    /\ recorded = [d \in Device |-> 0]
    /\ acked = [d \in Device |-> 0]
    /\ givenUp = [d \in Device |-> {}]
    /\ place = [d \in Device |-> [i \in Seqs |-> 0]]

Published(d, i) == place[d][i] > 0
SettledThrough(d, n) == \A i \in 1 .. n : Published(d, i) \/ i \in givenUp[d]

Record(d) ==
    /\ recorded[d] < MaxOps
    /\ recorded' = [recorded EXCEPT ![d] = @ + 1]
    /\ UNCHANGED <<acked, givenUp, place>>

(* Ops lo+1 .. hi of d enter the log, those that are not in it yet.        *)
Publish(d, lo, hi) ==
    LET new == {i \in lo + 1 .. hi : ~Published(d, i)}
    IN  /\ hi <= recorded[d]
        /\ SettledThrough(d, lo)
        /\ DOMAIN place' = Device
        /\ \A c \in Device : DOMAIN place'[c] = Seqs
        /\ \A c \in Device, i \in Seqs :
            ~(c = d /\ i \in new) => place'[c][i] = place[c][i]
        /\ \A i \in new :
            /\ place'[d][i] \in Nat \ {0}
            /\ \A c \in Device, j \in Seqs : place'[d][i] > place[c][j]
            /\ \A j \in new : i < j => place'[d][i] < place'[d][j]
        /\ UNCHANGED <<recorded, acked, givenUp>>

GiveUpOn(d, i) ==
    /\ i <= recorded[d]
    /\ SettledThrough(d, i - 1)
    /\ givenUp' = [givenUp EXCEPT ![d] = @ \cup {i}]
    /\ UNCHANGED <<recorded, acked, place>>

Acknowledge(d, n) ==
    /\ acked[d] < n /\ n <= recorded[d]
    /\ SettledThrough(d, n)
    /\ acked' = [acked EXCEPT ![d] = n]
    /\ UNCHANGED <<recorded, givenUp, place>>

Next == \E d \in Device :
    \/ Record(d)
    \/ \E lo \in 0 .. MaxOps, hi \in Seqs : Publish(d, lo, hi)
    \/ \E i \in Seqs : GiveUpOn(d, i)
    \/ \E n \in Seqs : Acknowledge(d, n)

Spec == Init /\ [][Next]_vars
=============================================================================
