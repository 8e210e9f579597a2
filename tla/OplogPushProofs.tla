--------------------------- MODULE OplogPushProofs ---------------------------
(***************************************************************************)
(* Proofs about OplogPush, for any number of devices, processes, ops,      *)
(* chunks and attempts.                                                    *)
(*                                                                         *)
(* The properties are not inductive by themselves.  What carries them is   *)
(* that every op before the point a session or a request has reached is    *)
(* settled, and that an op in the log has every op before it settled.      *)
(***************************************************************************)
EXTENDS OplogPush, TLAPS

(* An op in the log has only settled ops of its device before it.          *)
InOrder ==
    \A d \in Device : \A i, j \in Seqs :
        i < j /\ srv[d][j] > 0 => Settled(d, i)

(* No place is above the log's counter, so a new one is above them all.    *)
PlacesCounted == \A d \in Device : \A i \in Seqs : srv[d][i] <= auto

(* A session in its batch has settled what is behind it, and its batch     *)
(* holds captured ops only.                                                *)
SessionInv(s) ==
    pc[s] \in {"send", "wait", "refused"} =>
        /\ pos[s] <= hi[s]
        /\ hi[s] <= captured[dev(s)]
        /\ \A c \in cuts[s] : c <= hi[s]
        /\ \A i \in 1 .. pos[s] : Settled(dev(s), i)

(* So does a request, whoever still waits for it.                          *)
RequestInv(r) ==
    /\ r.lo < r.hi
    /\ r.hi <= captured[dev(r.from)]
    /\ \A i \in 1 .. r.lo : Settled(dev(r.from), i)

Inv ==
    /\ TypeOK
    /\ \A d \in Device : lastPushed[d] <= captured[d]
    /\ NothingSkipped
    /\ PlacesCounted
    /\ InOrder
    /\ DeviceOrder
    /\ \A s \in Session : SessionInv(s)
    /\ \A r \in wire : RequestInv(r)

(* No step unsettles an op.                                                *)
KeepsSettled == \A d \in Device : \A i \in Seqs : Settled(d, i) => Settled(d, i)'

-----------------------------------------------------------------------------
LEMMA BoundIsNat == MaxOps \in Nat
  BY OplogPushAssumption

USE BoundIsNat DEF Seqs, dev

(* The chunks of a batch end inside the batch, however sizes cut it.       *)
LEMMA ChunkEndsInside ==
    ASSUME NEW d \in Device, NEW lo \in Nat, NEW h \in Nat, lo < h
    PROVE  ChunkEnds(d, lo, h) \subseteq lo + 1 .. h
  BY DEF ChunkEnds

(* What an append of ops lo+1 .. h does, when everything up to lo is       *)
(* settled: it keeps the log's part of the invariant and settles the range.*)
LEMMA AppendKeeps ==
    ASSUME srv \in [Device -> [Seqs -> Nat]], auto \in Nat,
           PlacesCounted, InOrder, DeviceOrder,
           NEW d \in Device, NEW lo \in 0 .. MaxOps, NEW h \in Seqs, lo < h,
           \A i \in 1 .. lo : Settled(d, i),
           Append(d, lo, h), quarantined' = quarantined
    PROVE  /\ srv' \in [Device -> [Seqs -> Nat]] /\ auto' \in Nat
           /\ PlacesCounted' /\ InOrder' /\ DeviceOrder'
           /\ KeepsSettled
           /\ \A i \in 1 .. h : Settled(d, i)'
  <1>1. \A c \in Device : c # d => srv'[c] = srv[c]
    BY DEF Append
  <1>2. \A i \in Seqs : srv'[d][i] = IF i \in lo + 1 .. h /\ srv[d][i] = 0
                                     THEN auto + (i - lo) ELSE srv[d][i]
    BY DEF Append
  <1>3. srv' \in [Device -> [Seqs -> Nat]]
    <2>1. [i \in Seqs |-> IF i \in lo + 1 .. h /\ srv[d][i] = 0
                          THEN auto + (i - lo) ELSE srv[d][i]] \in [Seqs -> Nat]
      OBVIOUS
    <2>2. QED
      BY <2>1 DEF Append
  <1>4. auto' \in Nat /\ auto <= auto'
    BY DEF Append
  <1>5. \A c \in Device, i \in Seqs :
            /\ srv[c][i] \in Nat /\ srv'[c][i] \in Nat
            /\ \/ srv'[c][i] = srv[c][i]
               \/ /\ c = d /\ i \in lo + 1 .. h /\ srv[c][i] = 0
                  /\ srv'[c][i] = auto + (i - lo)
    BY <1>1, <1>2, <1>3
  <1>6. PlacesCounted'
    <2>1. ASSUME NEW c \in Device, NEW i \in Seqs
          PROVE  srv'[c][i] <= auto'
      <3>1. srv[c][i] <= auto
        BY DEF PlacesCounted
      <3>2. CASE c = d /\ i \in lo + 1 .. h /\ srv[c][i] = 0
        BY <1>5, <3>2 DEF Append
      <3>3. CASE srv'[c][i] = srv[c][i]
        BY <1>4, <1>5, <3>1, <3>3
      <3>4. QED
        BY <1>5, <3>2, <3>3
    <2>2. QED
      BY <2>1 DEF PlacesCounted
  <1>7. KeepsSettled
    <2>1. ASSUME NEW c \in Device, NEW i \in Seqs, Settled(c, i)
          PROVE  Settled(c, i)'
      <3>1. CASE srv'[c][i] = srv[c][i]
        BY <2>1, <3>1 DEF Settled
      <3>2. CASE i \in lo + 1 .. h /\ srv'[c][i] = auto + (i - lo)
        BY <3>2 DEF Settled
      <3>3. QED
        BY <1>5, <3>1, <3>2
    <2>2. QED
      BY <2>1 DEF KeepsSettled
  <1>8. \A i \in 1 .. h : Settled(d, i)'
    <2>1. ASSUME NEW i \in lo + 1 .. h
          PROVE  srv'[d][i] > 0
      <3>1. CASE srv[d][i] = 0
        BY <1>2, <3>1
      <3>2. CASE srv[d][i] # 0
        BY <1>2, <1>5, <3>2
      <3>3. QED
        BY <3>1, <3>2
    <2>2. QED
      BY <1>7, <2>1 DEF Settled, KeepsSettled
  <1>9. InOrder'
    <2>1. ASSUME NEW c \in Device, NEW i \in Seqs, NEW j \in Seqs, i < j, srv'[c][j] > 0
          PROVE  Settled(c, i)'
      <3>1. CASE c = d /\ j \in lo + 1 .. h
        BY <1>8, <2>1, <3>1
      <3>2. CASE srv'[c][j] = srv[c][j]
        BY <1>7, <2>1, <3>2 DEF InOrder, KeepsSettled
      <3>3. QED
        BY <1>5, <3>1, <3>2
    <2>2. QED
      BY <2>1 DEF InOrder
  <1>10. DeviceOrder'
    <2>1. ASSUME NEW c \in Device, NEW i \in Seqs, NEW j \in Seqs,
                 i < j, srv'[c][i] > srv'[c][j], srv'[c][j] > 0
          PROVE  i \in quarantined[c]
      (* Two ops of one append are placed in the order of their seqs, and    *)
      (* a new op is placed above an old one: the later op is the old one.   *)
      <3>1. /\ srv[c][i] \in Nat /\ srv[c][i] <= auto
            /\ \/ srv'[c][i] = srv[c][i]
               \/ srv[c][i] = 0 /\ i \in lo + 1 .. h /\ srv'[c][i] = auto + (i - lo)
        BY <1>5 DEF PlacesCounted
      <3>2. \/ srv'[c][j] = srv[c][j]
            \/ j \in lo + 1 .. h /\ srv'[c][j] = auto + (j - lo)
        BY <1>5
      <3>3. srv'[c][j] = srv[c][j]
        <4>1. ASSUME j \in lo + 1 .. h, srv'[c][j] = auto + (j - lo)
              PROVE  srv'[c][i] < srv'[c][j]
          <5>1. CASE srv'[c][i] = srv[c][i]
            BY <3>1, <4>1, <5>1, SMTT(30)
          <5>2. CASE i \in lo + 1 .. h /\ srv'[c][i] = auto + (i - lo)
            <6>1. i < j
              BY <2>1
            <6>2. QED
              BY <4>1, <5>2, <6>1
          <5>3. QED
            BY <3>1, <5>1, <5>2
        <4>2. ~(srv'[c][i] < srv'[c][j])
          <5>1. srv'[c][i] \in Nat /\ srv'[c][j] \in Nat
            BY <1>3
          <5>2. \A x, y \in Nat : x > y => ~(x < y)
            OBVIOUS
          <5>3. QED
            BY <2>1, <5>1, <5>2, Zenon
        <4>3. QED
          BY <3>2, <4>1, <4>2
      <3>4. CASE srv'[c][i] = srv[c][i]
        BY <2>1, <3>3, <3>4 DEF DeviceOrder
      <3>5. CASE srv[c][i] = 0
        <4>1. Settled(c, i)
          BY <2>1, <3>3 DEF InOrder
        <4>2. QED
          BY <3>5, <4>1 DEF Settled
      <3>6. QED
        BY <3>1, <3>4, <3>5
    <2>2. QED
      BY <2>1 DEF DeviceOrder
  <1>11. QED
    BY <1>3, <1>4, <1>6, <1>7, <1>8, <1>9, <1>10

-----------------------------------------------------------------------------
(* What a step leaves alone stays in order.                                *)

SameSession(t) ==
    pc'[t] = pc[t] /\ pos'[t] = pos[t] /\ hi'[t] = hi[t] /\ cuts'[t] = cuts[t]

LEMMA SessionKept ==
    ASSUME TypeOK, captured' \in [Device -> Nat], KeepsSettled,
           \A d \in Device : captured[d] <= captured'[d],
           NEW t \in Session, SessionInv(t), SameSession(t)
    PROVE  SessionInv(t)'
  <1>1. dev(t) \in Device /\ pos[t] \in 0 .. MaxOps /\ hi[t] \in 0 .. MaxOps
    BY DEF TypeOK, Session
  <1>2. captured[dev(t)] \in Nat /\ captured'[dev(t)] \in Nat
    BY <1>1 DEF TypeOK
  <1>3. ASSUME pc[t] \in {"send", "wait", "refused"}
        PROVE  /\ hi[t] <= captured'[dev(t)]
               /\ \A i \in 1 .. pos[t] : Settled(dev(t), i)'
    BY <1>1, <1>2, <1>3 DEF SessionInv, KeepsSettled
  <1>4. QED
    BY <1>3 DEF SessionInv, SameSession

LEMMA RequestKept ==
    ASSUME TypeOK, captured' \in [Device -> Nat], KeepsSettled,
           \A d \in Device : captured[d] <= captured'[d],
           NEW r \in wire, RequestInv(r)
    PROVE  RequestInv(r)'
  <1>1. /\ dev(r.from) \in Device
        /\ r.lo \in 0 .. MaxOps /\ r.hi \in Seqs
    BY DEF TypeOK, Request, Session
  <1>2. captured[dev(r.from)] \in Nat /\ captured'[dev(r.from)] \in Nat
    BY <1>1 DEF TypeOK
  <1>3. QED
    BY <1>1, <1>2 DEF RequestInv, KeepsSettled

(* A step that touches neither the device's tables nor the log need only   *)
(* account for the sessions and the requests it made.                      *)
LEMMA QuietStep ==
    ASSUME Inv, TypeOK', UNCHANGED <<deviceVars, logVars>>,
           NEW s \in Session, SessionInv(s)',
           \A t \in Session \ {s} : SameSession(t),
           \A r \in wire' : r \in wire \/ RequestInv(r)'
    PROVE  Inv'
  <1>1. KeepsSettled
    BY DEF KeepsSettled, Settled, deviceVars, logVars
  <1>2. captured' \in [Device -> Nat] /\ \A d \in Device : captured[d] <= captured'[d]
    BY DEF Inv, TypeOK, deviceVars
  <1>3. \A t \in Session : SessionInv(t)'
    BY <1>1, <1>2, SessionKept DEF Inv
  <1>4. \A r \in wire' : RequestInv(r)'
    BY <1>1, <1>2, RequestKept DEF Inv
  <1>5. (\A d \in Device : lastPushed[d] <= captured[d])' /\ NothingSkipped'
    BY DEF Inv, NothingSkipped, Settled, deviceVars, logVars
  <1>6. PlacesCounted' /\ InOrder' /\ DeviceOrder'
    BY DEF Inv, PlacesCounted, InOrder, DeviceOrder, Settled, deviceVars, logVars
  <1>7. QED
    BY <1>3, <1>4, <1>5, <1>6 DEF Inv

LEMMA EndPushEnds ==
    ASSUME TypeOK, NEW s \in Session, EndPush(s)
    PROVE  /\ pc' \in [Session -> {"idle", "drain", "send", "wait", "refused"}]
           /\ pos' \in [Session -> 0 .. MaxOps]
           /\ hi' \in [Session -> 0 .. MaxOps]
           /\ cuts' \in [Session -> SUBSET Seqs]
           /\ attempt' \in [Session -> 0 .. MaxAttempts - 1]
           /\ batch' \in [Session -> 0 .. MaxBatches - 1]
           /\ full' \in [Session -> BOOLEAN]
           /\ pc'[s] = "idle"
           /\ \A t \in Session \ {s} : SameSession(t)
  BY OplogPushAssumption DEF TypeOK, EndPush, LeaveBatch, SameSession

(* After a failed attempt the session stands where it stood, or has ended. *)
LEMMA FailedStays ==
    ASSUME TypeOK, NEW s \in Session, NEW isolate \in BOOLEAN, Failed(s, isolate),
           pc[s] = "wait"
    PROVE  /\ pc' \in [Session -> {"idle", "drain", "send", "wait", "refused"}]
           /\ pos' \in [Session -> 0 .. MaxOps]
           /\ hi' \in [Session -> 0 .. MaxOps]
           /\ cuts' \in [Session -> SUBSET Seqs]
           /\ attempt' \in [Session -> 0 .. MaxAttempts - 1]
           /\ batch' \in [Session -> 0 .. MaxBatches - 1]
           /\ full' \in [Session -> BOOLEAN]
           /\ \/ pc'[s] = "idle"
              \/ pos'[s] = pos[s] /\ hi'[s] = hi[s] /\ cuts'[s] = cuts[s]
           /\ \A t \in Session \ {s} : SameSession(t)
  <1>0. MaxAttempts \in Nat \ {0} /\ attempt[s] \in 0 .. MaxAttempts - 1
    BY OplogPushAssumption DEF TypeOK
  <1>1. CASE AttemptsLeft(s)
    <2>1. /\ pc' = [pc EXCEPT ![s] = "send"]
          /\ attempt' = [attempt EXCEPT ![s] = attempt[s] + 1]
          /\ UNCHANGED <<pos, hi, cuts, batch, full>>
      BY <1>1 DEF Failed
    <2>2. attempt[s] + 1 \in 0 .. MaxAttempts - 1
      BY <1>0, <1>1 DEF AttemptsLeft
    <2>3. QED
      BY <2>1, <2>2 DEF TypeOK, SameSession
  <1>2. CASE ~AttemptsLeft(s) /\ isolate
    <2>1. /\ pc' = [pc EXCEPT ![s] = "refused"]
          /\ attempt' = [attempt EXCEPT ![s] = 0]
          /\ UNCHANGED <<pos, hi, cuts, batch, full>>
      BY <1>2 DEF Failed
    <2>2. 0 \in 0 .. MaxAttempts - 1
      BY <1>0
    <2>3. QED
      BY <2>1, <2>2 DEF TypeOK, SameSession
  <1>3. CASE ~AttemptsLeft(s) /\ ~isolate
    <2>1. EndPush(s)
      BY <1>3 DEF Failed
    <2>2. QED
      BY <2>1, EndPushEnds
  <1>4. QED
    BY <1>1, <1>2, <1>3

-----------------------------------------------------------------------------
(* Every step keeps the invariant.                                         *)

LEMMA InitInv == Init => Inv
  <1>1. Init => TypeOK
    BY OplogPushAssumption DEF Init, TypeOK
  <1>2. Init => \A s \in Session : SessionInv(s)
    BY DEF Init, SessionInv
  <1>3. QED
    BY <1>1, <1>2 DEF Init, Inv, NothingSkipped, PlacesCounted, InOrder, DeviceOrder

LEMMA CaptureKeeps ==
    ASSUME Inv, NEW d \in Device, NEW bad \in BOOLEAN, Capture(d, bad)
    PROVE  Inv'
  <1>1. TypeOK'
    <2>1. captured[d] + 1 \in Seqs /\ captured' = [captured EXCEPT ![d] = @ + 1]
      BY DEF Inv, TypeOK, Capture
    <2>2. captured' \in [Device -> 0 .. MaxOps]
      BY <2>1 DEF Inv, TypeOK
    <2>3. poison' \in [Device -> SUBSET Seqs]
      <3>1. poison[d] \cup {captured[d] + 1} \in SUBSET Seqs
        BY <2>1 DEF Inv, TypeOK
      <3>2. \/ poison' = poison
            \/ poison' = [poison EXCEPT ![d] = poison[d] \cup {captured[d] + 1}]
        BY DEF Capture
      <3>3. QED
        BY <3>1, <3>2 DEF Inv, TypeOK
    <2>4. QED
      BY <2>2, <2>3 DEF Inv, TypeOK, Capture, logVars, sessionVars
  <1>2. /\ captured' \in [Device -> Nat]
        /\ \A c \in Device : captured[c] <= captured'[c]
    BY DEF Inv, TypeOK, Capture
  <1>3. KeepsSettled
    BY DEF KeepsSettled, Settled, Capture, logVars
  <1>4. \A s \in Session : SessionInv(s)'
    BY <1>2, <1>3, SessionKept DEF Inv, Capture, sessionVars, SameSession
  <1>5. \A r \in wire' : RequestInv(r)'
    BY <1>2, <1>3, RequestKept DEF Inv, Capture
  <1>6. (\A c \in Device : lastPushed[c] <= captured[c])'
    BY <1>2 DEF Inv, TypeOK, Capture
  <1>7. NothingSkipped' /\ PlacesCounted' /\ InOrder' /\ DeviceOrder'
    BY DEF Inv, Capture, NothingSkipped, PlacesCounted, InOrder, DeviceOrder, Settled, logVars
  <1>8. QED
    BY <1>1, <1>4, <1>5, <1>6, <1>7 DEF Inv

LEMMA BeginKeeps == ASSUME Inv, NEW s \in Session, Begin(s) PROVE Inv'
  <1>1. TypeOK'
    BY DEF Inv, TypeOK, Begin, deviceVars, logVars
  <1>2. \A t \in Session \ {s} : SameSession(t)
    BY DEF Inv, TypeOK, Begin, SameSession
  <1>3. SessionInv(s)'
    BY DEF Inv, TypeOK, Begin, SessionInv
  <1>4. QED
    BY <1>1, <1>2, <1>3, QuietStep DEF Begin

LEMMA DrainKeeps == ASSUME Inv, NEW s \in Session, Drain(s) PROVE Inv'
  <1> DEFINE lo == lastPushed[dev(s)]
             h == IF lo + Limit < captured[dev(s)] THEN lo + Limit ELSE captured[dev(s)]
  <1>1. /\ dev(s) \in Device /\ Limit \in Nat \ {0}
        /\ lo \in 0 .. MaxOps /\ captured[dev(s)] \in 0 .. MaxOps
        /\ lo <= captured[dev(s)]
    BY OplogPushAssumption DEF Inv, TypeOK, Session
  <1>2. h \in 0 .. MaxOps /\ lo <= h /\ h <= captured[dev(s)]
    BY <1>1
  <1>3. CASE h = lo
    <2>1. EndPush(s)
      BY <1>3 DEF Drain
    <2>2. TypeOK'
      BY <2>1, EndPushEnds DEF Inv, TypeOK, Drain, deviceVars, logVars
    <2>3. SessionInv(s)'
      BY <2>1, EndPushEnds DEF Inv, SessionInv
    <2>4. QED
      BY <2>1, <2>2, <2>3, EndPushEnds, QuietStep DEF Inv, Drain
  <1>4. CASE h # lo
    <2> HIDE DEF lo, h
    <2>1. /\ pc' = [pc EXCEPT ![s] = "send"]
          /\ pos' = [pos EXCEPT ![s] = lo]
          /\ hi' = [hi EXCEPT ![s] = h]
          /\ cuts' = [cuts EXCEPT ![s] = ChunkEnds(dev(s), lo, h)]
          /\ full' = [full EXCEPT ![s] = (h - lo = Limit)]
          /\ UNCHANGED <<attempt, batch, deviceVars, logVars, wire, crashes>>
      BY <1>4 DEF Drain, lo, h
    <2>2. ChunkEnds(dev(s), lo, h) \subseteq lo + 1 .. h
      BY <1>1, <1>2, <1>4, ChunkEndsInside
    <2>3. ChunkEnds(dev(s), lo, h) \subseteq Seqs
      BY <1>1, <1>2, <2>2
    <2>4. TypeOK'
      BY <1>1, <1>2, <2>1, <2>3 DEF Inv, TypeOK, deviceVars, logVars
    <2>5. \A t \in Session \ {s} : SameSession(t)
      BY <2>1 DEF Inv, TypeOK, SameSession
    <2>6. \A i \in 1 .. lo : Settled(dev(s), i)'
      BY <1>1, <2>1 DEF Inv, NothingSkipped, Settled, deviceVars, logVars, lo
    <2>7. SessionInv(s)'
      <3>1. pos'[s] = lo /\ hi'[s] = h /\ cuts'[s] = ChunkEnds(dev(s), lo, h)
        BY <2>1 DEF Inv, TypeOK
      <3>2. captured' = captured
        BY <2>1 DEF deviceVars
      <3>3. QED
        BY <1>1, <1>2, <2>2, <2>6, <3>1, <3>2 DEF SessionInv
    <2>8. QED
      BY <2>1, <2>4, <2>5, <2>7, QuietStep
  <1>5. QED
    BY <1>3, <1>4

LEMMA SendKeeps ==
    ASSUME Inv, NEW s \in Session, NEW e \in Seqs, Send(s, e) PROVE Inv'
  <1>1. dev(s) \in Device /\ pos[s] \in 0 .. MaxOps
    BY DEF Inv, TypeOK, Session
  <1>2. TypeOK'
    <2>1. RequestOf(s, e) \in Request
      BY <1>1 DEF RequestOf, Request
    <2>2. wire' \subseteq Request
      BY <2>1 DEF Inv, TypeOK, Send
    <2>3. QED
      BY <2>2 DEF Inv, TypeOK, Send, deviceVars, logVars
  <1>3. \A t \in Session \ {s} : SameSession(t)
    BY DEF Inv, TypeOK, Send, SameSession
  <1>4. /\ pos[s] < e /\ e <= captured[dev(s)]
        /\ \A i \in 1 .. pos[s] : Settled(dev(s), i)
    <2>1. e \in cuts[s] /\ e > pos[s] /\ SessionInv(s) /\ pc[s] = "send"
      BY DEF Inv, Send, IsChunkEnd
    <2>2. e <= hi[s] /\ hi[s] <= captured[dev(s)]
      BY <2>1 DEF SessionInv
    <2>3. hi[s] \in Nat /\ captured[dev(s)] \in Nat
      BY <1>1 DEF Inv, TypeOK
    <2>4. QED
      BY <1>1, <2>1, <2>2, <2>3 DEF SessionInv
  <1>5. \A r \in wire' : r \in wire \/ RequestInv(r)'
    <2>1. ASSUME NEW r, r = RequestOf(s, e)
          PROVE  RequestInv(r)'
      BY <1>1, <1>4, <2>1 DEF RequestInv, RequestOf, Send, Settled, deviceVars, logVars
    <2>2. QED
      BY <2>1 DEF Send
  <1>6. SessionInv(s)'
    BY DEF Inv, TypeOK, Send, SessionInv, Settled, deviceVars, logVars
  <1>7. QED
    BY <1>2, <1>3, <1>5, <1>6, QuietStep DEF Send

LEMMA RefuseKeeps ==
    ASSUME Inv, NEW s \in Session, NEW e \in Seqs, Refuse(s, e) PROVE Inv'
  <1>1. Failed(s, Quarantinable(s)) /\ pc[s] = "wait" /\ Quarantinable(s) \in BOOLEAN
    BY DEF Refuse, Quarantinable
  <1>2. TypeOK'
    BY <1>1, FailedStays DEF Inv, TypeOK, Refuse, deviceVars, logVars
  <1>3. SessionInv(s)'
    BY <1>1, FailedStays DEF Inv, Refuse, SessionInv, Settled, deviceVars, logVars
  <1>4. QED
    BY <1>1, <1>2, <1>3, FailedStays, QuietStep DEF Inv, Refuse

LEMMA AbandonShrinks ==
    ASSUME NEW s \in Session, Abandon(s)
    PROVE  wire' \subseteq wire
  BY DEF Abandon

LEMMA GiveUpKeeps == ASSUME Inv, NEW s \in Session, GiveUp(s) PROVE Inv'
  <1>1. Failed(s, FALSE) /\ pc[s] = "wait" /\ wire' \subseteq wire
    BY AbandonShrinks DEF GiveUp
  <1>2. TypeOK'
    BY <1>1, FailedStays DEF Inv, TypeOK, GiveUp, deviceVars, logVars
  <1>3. SessionInv(s)'
    BY <1>1, FailedStays DEF Inv, GiveUp, SessionInv, Settled, deviceVars, logVars
  <1>4. QED
    BY <1>1, <1>2, <1>3, FailedStays, QuietStep DEF Inv, GiveUp

LEMMA CrashKeeps == ASSUME Inv, NEW s \in Session, Crash(s) PROVE Inv'
  <1>1. EndPush(s) /\ wire' \subseteq wire
    BY AbandonShrinks DEF Crash
  <1>2. TypeOK'
    <2>1. MaxCrashes \in Nat /\ crashes \in 0 .. MaxCrashes /\ crashes < MaxCrashes
      BY OplogPushAssumption DEF Inv, TypeOK, Crash
    <2>2. crashes' \in 0 .. MaxCrashes
      BY <2>1 DEF Crash
    <2>3. QED
      BY <1>1, <2>2, EndPushEnds DEF Inv, TypeOK, Crash, deviceVars, logVars
  <1>3. SessionInv(s)'
    BY <1>1, EndPushEnds DEF Inv, SessionInv
  <1>4. QED
    BY <1>1, <1>2, <1>3, EndPushEnds, QuietStep DEF Inv, Crash

LEMMA BisectKeeps ==
    ASSUME Inv, NEW s \in Session, NEW e \in Seqs, Bisect(s, e) PROVE Inv'
  <1>1. /\ pos[s] \in 0 .. MaxOps /\ hi[s] \in 0 .. MaxOps
        /\ e \in cuts[s] /\ e > pos[s] + 1 /\ e <= hi[s]
    BY DEF Inv, TypeOK, Bisect, IsChunkEnd, SessionInv
  <1>2. Middle(pos[s], e) \in Seqs /\ Middle(pos[s], e) <= hi[s]
    <2>1. (e - pos[s]) \div 2 \in 1 .. e - pos[s]
      BY <1>1
    <2>2. QED
      BY <1>1, <2>1 DEF Middle
  <1>3. TypeOK'
    BY <1>2 DEF Inv, TypeOK, Bisect, deviceVars, logVars
  <1>4. \A t \in Session \ {s} : SameSession(t)
    BY DEF Inv, TypeOK, Bisect, SameSession
  <1>5. SessionInv(s)'
    <2>1. /\ pos'[s] = pos[s] /\ hi'[s] = hi[s]
          /\ cuts'[s] = cuts[s] \cup {Middle(pos[s], e)}
      BY DEF Inv, TypeOK, Bisect
    <2>2. captured' = captured /\ srv' = srv /\ quarantined' = quarantined
      BY DEF Bisect, deviceVars, logVars
    <2>3. /\ pos[s] <= hi[s] /\ hi[s] <= captured[dev(s)]
          /\ \A c \in cuts[s] : c <= hi[s]
          /\ \A i \in 1 .. pos[s] : Settled(dev(s), i)
      BY DEF Inv, SessionInv, Bisect
    <2>4. \A i \in 1 .. pos[s] : Settled(dev(s), i)'
      BY <2>2, <2>3 DEF Settled
    <2>5. \A c \in cuts'[s] : c <= hi[s]
      BY <1>2, <2>1, <2>3
    <2>6. QED
      BY <2>1, <2>2, <2>3, <2>4, <2>5 DEF SessionInv
  <1>6. QED
    BY <1>3, <1>4, <1>5, QuietStep DEF Bisect

(* The steps that settle something: an op quarantined, a chunk appended.   *)
LEMMA SettlingStep ==
    ASSUME Inv, TypeOK', UNCHANGED <<captured, lastPushed>>, KeepsSettled,
           PlacesCounted', InOrder', DeviceOrder', wire' \subseteq wire,
           \A t \in Session : SameSession(t) \/ SessionInv(t)'
    PROVE  Inv'
  <1>1. captured' \in [Device -> Nat] /\ \A d \in Device : captured[d] <= captured'[d]
    BY DEF Inv, TypeOK
  <1>2. \A t \in Session : SessionInv(t)'
    BY <1>1, SessionKept DEF Inv
  <1>3. \A r \in wire' : RequestInv(r)'
    BY <1>1, RequestKept DEF Inv
  <1>4. NothingSkipped'
    BY DEF Inv, TypeOK, NothingSkipped, KeepsSettled
  <1>5. (\A d \in Device : lastPushed[d] <= captured[d])'
    BY DEF Inv
  <1>6. QED
    BY <1>2, <1>3, <1>4, <1>5 DEF Inv

LEMMA QuarantineKeeps ==
    ASSUME Inv, NEW s \in Session, NEW e \in Seqs, Quarantine(s, e) PROVE Inv'
  <1>1. /\ dev(s) \in Device /\ pos[s] \in 0 .. MaxOps /\ hi[s] \in 0 .. MaxOps
        /\ e = pos[s] + 1 /\ e \in cuts[s]
        /\ e <= hi[s] /\ hi[s] <= captured[dev(s)]
        /\ \A c \in cuts[s] : c <= hi[s]
        /\ \A i \in 1 .. pos[s] : Settled(dev(s), i)
    BY DEF Inv, TypeOK, Session, Quarantine, IsChunkEnd, SessionInv
  <1>2. /\ \A d \in Device : quarantined[d] \subseteq quarantined'[d]
        /\ e \in quarantined'[dev(s)]
        /\ srv' = srv /\ auto' = auto /\ captured' = captured
        /\ pos'[s] = e /\ hi'[s] = hi[s] /\ cuts'[s] = cuts[s]
    <2>1. quarantined' = [quarantined EXCEPT ![dev(s)] = quarantined[dev(s)] \cup {e}]
      BY DEF Quarantine, QuarantinedWith
    <2>2. quarantined \in [Device -> SUBSET Seqs] /\ pos \in [Session -> 0 .. MaxOps]
      BY DEF Inv, TypeOK
    <2>3. pos' = [pos EXCEPT ![s] = e]
      BY DEF Quarantine
    <2>4. srv' = srv /\ auto' = auto /\ captured' = captured /\ hi' = hi /\ cuts' = cuts
      BY DEF Quarantine, logVars
    <2>5. QED
      BY <1>1, <2>1, <2>2, <2>3, <2>4
  <1>3. TypeOK'
    <2>1. quarantined' \in [Device -> SUBSET Seqs]
      BY DEF Inv, TypeOK, Quarantine, QuarantinedWith
    <2>2. pos' \in [Session -> 0 .. MaxOps]
      BY DEF Inv, TypeOK, Quarantine
    <2>3. QED
      BY <2>1, <2>2 DEF Inv, TypeOK, Quarantine, logVars
  <1>4. KeepsSettled
    BY <1>2 DEF KeepsSettled, Settled
  <1>5. PlacesCounted' /\ InOrder' /\ DeviceOrder'
    <2>1. PlacesCounted' /\ DeviceOrder'
      BY <1>2 DEF Inv, PlacesCounted, DeviceOrder
    <2>2. InOrder'
      BY <1>2, <1>4 DEF Inv, InOrder, KeepsSettled
    <2>3. QED
      BY <2>1, <2>2
  <1>6. \A t \in Session \ {s} : SameSession(t)
    BY DEF Inv, TypeOK, Quarantine, SameSession
  <1>7. SessionInv(s)'
    <2>1. \A i \in 1 .. pos[s] : Settled(dev(s), i)'
      BY <1>1, <1>4 DEF KeepsSettled
    <2>2. Settled(dev(s), e)'
      BY <1>2 DEF Settled
    <2>3. \A i \in 1 .. e : Settled(dev(s), i)'
      BY <1>1, <2>1, <2>2
    <2>4. QED
      BY <1>1, <1>2, <2>3 DEF SessionInv
  <1>8. QED
    BY <1>3, <1>4, <1>5, <1>6, <1>7, SettlingStep DEF Quarantine

LEMMA AcceptKeeps ==
    ASSUME Inv, NEW s \in Session, NEW e \in Seqs, Accept(s, e) PROVE Inv'
  <1>1. /\ dev(s) \in Device /\ pos[s] \in 0 .. MaxOps /\ hi[s] \in 0 .. MaxOps
        /\ pos[s] < e /\ e <= hi[s] /\ hi[s] <= captured[dev(s)]
        /\ \A c \in cuts[s] : c <= hi[s]
        /\ \A i \in 1 .. pos[s] : Settled(dev(s), i)
    BY DEF Inv, TypeOK, Session, Accept, IsChunkEnd, SessionInv
  <1>2. /\ srv' \in [Device -> [Seqs -> Nat]] /\ auto' \in Nat
        /\ PlacesCounted' /\ InOrder' /\ DeviceOrder' /\ KeepsSettled
        /\ \A i \in 1 .. e : Settled(dev(s), i)'
    BY <1>1, AppendKeeps DEF Inv, TypeOK, Accept, deviceVars
  <1>3. TypeOK'
    <2>1. attempt' \in [Session -> 0 .. MaxAttempts - 1]
      <3>1. 0 \in 0 .. MaxAttempts - 1
        BY OplogPushAssumption
      <3>2. QED
        BY <3>1 DEF Inv, TypeOK, Accept
    <2>2. pos' \in [Session -> 0 .. MaxOps]
      BY DEF Inv, TypeOK, Accept
    <2>3. pc' \in [Session -> {"idle", "drain", "send", "wait", "refused"}]
      BY DEF Inv, TypeOK, Accept
    <2>4. wire' \subseteq Request
      BY DEF Inv, TypeOK, Accept
    <2>5. UNCHANGED <<captured, poison, lastPushed, quarantined, hi, cuts, batch, full, crashes>>
      BY DEF Accept, deviceVars
    <2>6. QED
      BY <1>2, <2>1, <2>2, <2>3, <2>4, <2>5 DEF Inv, TypeOK
  <1>4. \A t \in Session \ {s} : SameSession(t)
    BY DEF Inv, TypeOK, Accept, SameSession
  <1>5. SessionInv(s)'
    <2>1. pos'[s] = e /\ hi'[s] = hi[s] /\ cuts'[s] = cuts[s] /\ captured' = captured
      BY DEF Inv, TypeOK, Accept, deviceVars
    <2>2. QED
      BY <1>1, <1>2, <2>1 DEF SessionInv
  <1>6. QED
    BY <1>2, <1>3, <1>4, <1>5, SettlingStep DEF Accept, deviceVars

LEMMA LandKeeps == ASSUME Inv, NEW r \in wire, Land(r) PROVE Inv'
  <1>1. /\ dev(r.from) \in Device /\ r.lo \in 0 .. MaxOps /\ r.hi \in Seqs
        /\ r.lo < r.hi
        /\ \A i \in 1 .. r.lo : Settled(dev(r.from), i)
    BY DEF Inv, TypeOK, Request, Session, RequestInv
  <1>2. /\ srv' \in [Device -> [Seqs -> Nat]] /\ auto' \in Nat
        /\ PlacesCounted' /\ InOrder' /\ DeviceOrder' /\ KeepsSettled
    BY <1>1, AppendKeeps DEF Inv, TypeOK, Land, deviceVars
  <1>3. TypeOK'
    BY <1>2 DEF Inv, TypeOK, Land, deviceVars, sessionVars
  <1>4. QED
    BY <1>2, <1>3, SettlingStep DEF Land, deviceVars, sessionVars, SameSession

LEMMA AckKeeps == ASSUME Inv, NEW s \in Session, Ack(s) PROVE Inv'
  <1>1. /\ dev(s) \in Device /\ hi[s] \in 0 .. MaxOps /\ pos[s] = hi[s]
        /\ captured[dev(s)] \in 0 .. MaxOps /\ lastPushed[dev(s)] \in 0 .. MaxOps
        /\ hi[s] <= captured[dev(s)] /\ lastPushed[dev(s)] <= captured[dev(s)]
        /\ \A i \in 1 .. hi[s] : Settled(dev(s), i)
        /\ \A i \in 1 .. lastPushed[dev(s)] : Settled(dev(s), i)
    BY DEF Inv, TypeOK, Session, Ack, SessionInv, NothingSkipped
  <1> DEFINE mark == Advance(lastPushed[dev(s)], hi[s])
  <1>2. /\ mark \in 0 .. MaxOps /\ mark <= captured[dev(s)]
        /\ \A i \in 1 .. mark : Settled(dev(s), i)
    BY <1>1 DEF Advance
  <1>3. lastPushed' = [lastPushed EXCEPT ![dev(s)] = mark]
    BY DEF Ack, AckedThrough
  <1>4. UNCHANGED <<captured, poison, quarantined, srv, auto, wire, crashes>>
    BY DEF Ack, logVars
  <1>5. /\ pc' \in [Session -> {"idle", "drain", "send", "wait", "refused"}]
        /\ pos' \in [Session -> 0 .. MaxOps]
        /\ hi' \in [Session -> 0 .. MaxOps]
        /\ cuts' \in [Session -> SUBSET Seqs]
        /\ attempt' \in [Session -> 0 .. MaxAttempts - 1]
        /\ batch' \in [Session -> 0 .. MaxBatches - 1]
        /\ full' \in [Session -> BOOLEAN]
        /\ pc'[s] \in {"idle", "drain"}
        /\ \A t \in Session \ {s} : SameSession(t)
    <2>1. CASE full[s] /\ batch[s] + 1 < MaxBatches
      <3>1. LeaveBatch(s, "drain") /\ batch' = [batch EXCEPT ![s] = batch[s] + 1]
        BY <2>1 DEF Ack
      <3>2. batch[s] + 1 \in 0 .. MaxBatches - 1 /\ 0 \in 0 .. MaxAttempts - 1
        BY <2>1, OplogPushAssumption DEF Inv, TypeOK
      <3>3. QED
        BY <3>1, <3>2 DEF Inv, TypeOK, LeaveBatch, SameSession
    <2>2. CASE ~(full[s] /\ batch[s] + 1 < MaxBatches)
      <3>1. EndPush(s)
        BY <2>2 DEF Ack
      <3>2. QED
        BY <3>1, EndPushEnds DEF Inv
    <2>3. QED
      BY <2>1, <2>2
  <1> HIDE DEF mark
  <1>6. TypeOK'
    BY <1>2, <1>3, <1>4, <1>5 DEF Inv, TypeOK
  <1>7. KeepsSettled
    BY <1>4 DEF KeepsSettled, Settled
  <1>8. captured' \in [Device -> Nat] /\ \A d \in Device : captured[d] <= captured'[d]
    BY <1>4 DEF Inv, TypeOK
  <1>9. \A t \in Session : SessionInv(t)'
    <2>1. SessionInv(s)'
      BY <1>5 DEF SessionInv
    <2>2. QED
      BY <1>5, <1>7, <1>8, <2>1, SessionKept DEF Inv
  <1>10. \A r \in wire' : RequestInv(r)'
    BY <1>4, <1>7, <1>8, RequestKept DEF Inv
  <1>11. \A d \in Device : lastPushed'[d] <= captured'[d]
    BY <1>2, <1>3, <1>4 DEF Inv, TypeOK
  <1>12. NothingSkipped'
    <2>1. ASSUME NEW d \in Device, NEW i \in 1 .. lastPushed'[d]
          PROVE  Settled(d, i)
      <3>1. CASE d = dev(s)
        BY <1>2, <1>3, <2>1, <3>1 DEF Inv, TypeOK
      <3>2. CASE d # dev(s)
        BY <1>3, <2>1, <3>2 DEF Inv, TypeOK, NothingSkipped
      <3>3. QED
        BY <3>1, <3>2
    <2>2. QED
      BY <1>4, <2>1 DEF NothingSkipped, Settled
  <1>13. PlacesCounted' /\ InOrder' /\ DeviceOrder'
    BY <1>4 DEF Inv, PlacesCounted, InOrder, DeviceOrder, Settled
  <1>14. QED
    BY <1>6, <1>9, <1>10, <1>11, <1>12, <1>13 DEF Inv

-----------------------------------------------------------------------------
LEMMA StepKeeps == Inv /\ [Next]_vars => Inv'
  <1> SUFFICES ASSUME Inv, [Next]_vars PROVE Inv'
    OBVIOUS
  <1>1. ASSUME NEW d \in Device, NEW bad \in BOOLEAN, Capture(d, bad) PROVE Inv'
    BY <1>1, CaptureKeeps
  <1>2. ASSUME NEW s \in Session, Begin(s) \/ Drain(s) \/ GiveUp(s) \/ Ack(s) \/ Crash(s)
        PROVE  Inv'
    BY <1>2, BeginKeeps, DrainKeeps, GiveUpKeeps, AckKeeps, CrashKeeps
  <1>3. ASSUME NEW s \in Session, NEW e \in Seqs, ChunkStep(s, e) PROVE Inv'
    BY <1>3, SendKeeps, AcceptKeeps, RefuseKeeps, BisectKeeps, QuarantineKeeps
       DEF ChunkStep
  <1>4. ASSUME NEW r \in wire, Land(r) PROVE Inv'
    BY <1>4, LandKeeps
  <1>5. CASE UNCHANGED vars
    <2>1. UNCHANGED <<deviceVars, logVars, wire, sessionVars, crashes>>
      BY <1>5 DEF vars
    <2>2. UNCHANGED <<captured, poison, lastPushed, quarantined, srv, auto, wire, pc, pos,
                      hi, cuts, attempt, batch, full, crashes>>
      BY <2>1 DEF deviceVars, logVars, sessionVars
    <2>3. TypeOK' /\ PlacesCounted' /\ InOrder' /\ DeviceOrder' /\ KeepsSettled
      BY <2>2 DEF Inv, TypeOK, PlacesCounted, InOrder, DeviceOrder, Settled, KeepsSettled
    <2>4. QED
      BY <2>2, <2>3, SettlingStep DEF SameSession
  <1>6. QED
    BY <1>1, <1>2, <1>3, <1>4, <1>5 DEF Next

THEOREM Invariance == Spec => []Inv
  BY InitInv, StepKeeps, PTL DEF Spec

(* Every variable keeps to its type.                                       *)
THEOREM TypeCorrect == Spec => []TypeOK
  <1>1. Inv => TypeOK
    BY DEF Inv
  <1>2. QED
    BY <1>1, Invariance, PTL

(* No push, whatever fails around it, passes an op that is neither in the  *)
(* log nor in the quarantine.                                              *)
THEOREM PushSkipsNothing == Spec => []NothingSkipped
  <1>1. Inv => NothingSkipped
    BY DEF Inv
  <1>2. QED
    BY <1>1, Invariance, PTL

(* The log keeps every device's order, but for the ops given up on.        *)
THEOREM LogKeepsDeviceOrder == Spec => []DeviceOrder
  <1>1. Inv => DeviceOrder
    BY DEF Inv
  <1>2. QED
    BY <1>1, Invariance, PTL

(* A chunk that lands takes new places above all the places there are.     *)
LEMMA AppendIsAbove ==
    ASSUME srv \in [Device -> [Seqs -> Nat]], auto \in Nat, PlacesCounted,
           NEW d \in Device, NEW lo \in 0 .. MaxOps, NEW h \in Seqs, Append(d, lo, h)
    PROVE  \A c \in Device, i \in Seqs :
              \/ srv'[c][i] = srv[c][i]
              \/ srv[c][i] = 0 /\ \A b \in Device, j \in Seqs : srv[b][j] < srv'[c][i]
  <1> SUFFICES ASSUME NEW c \in Device, NEW i \in Seqs, srv'[c][i] # srv[c][i]
               PROVE  srv[c][i] = 0 /\ \A b \in Device, j \in Seqs : srv[b][j] < srv'[c][i]
    OBVIOUS
  <1>1. c = d
    BY DEF Append
  <1>2. srv'[d][i] = IF i \in lo + 1 .. h /\ srv[d][i] = 0
                     THEN auto + (i - lo) ELSE srv[d][i]
    BY DEF Append
  <1>3. i \in lo + 1 .. h /\ srv[c][i] = 0 /\ srv'[c][i] = auto + (i - lo)
    BY <1>1, <1>2
  <1>4. srv'[c][i] \in Nat /\ auto \in Nat /\ srv'[c][i] > auto
    BY <1>3, SMTT(30)
  <1>5. ASSUME NEW b \in Device, NEW j \in Seqs
        PROVE  srv[b][j] < srv'[c][i]
    <2>1. srv[b][j] \in Nat /\ srv[b][j] <= auto
      BY DEF PlacesCounted
    <2>2. \A x, y, z \in Nat : x <= y /\ z > y => x < z
      OBVIOUS
    <2>3. QED
      BY <1>4, <2>1, <2>2, Zenon
  <1>6. QED
    BY <1>3, <1>5

(* The log grows at its head only.                                         *)
THEOREM LogGrowsAtItsHead == Spec => AppendsAbove
  <1> DEFINE Above == \A d \in Device, i \in Seqs :
                \/ srv'[d][i] = srv[d][i]
                \/ srv[d][i] = 0 /\ \A c \in Device, j \in Seqs : srv[c][j] < srv'[d][i]
  <1>1. Inv /\ [Next]_vars => [Above]_vars
    <2> SUFFICES ASSUME Inv, Next PROVE Above
      OBVIOUS
    <2>1. CASE srv' = srv
      BY <2>1
    <2>2. ASSUME NEW s \in Session, NEW e \in Seqs, Accept(s, e) PROVE Above
      <3>1. dev(s) \in Device /\ pos[s] \in 0 .. MaxOps /\ Append(dev(s), pos[s], e)
        BY <2>2 DEF Inv, TypeOK, Session, Accept
      <3>2. QED
        BY <3>1, AppendIsAbove DEF Inv, TypeOK
    <2>3. ASSUME NEW r \in wire, Land(r) PROVE Above
      <3>1. /\ dev(r.from) \in Device /\ r.lo \in 0 .. MaxOps /\ r.hi \in Seqs
            /\ Append(dev(r.from), r.lo, r.hi)
        BY <2>3 DEF Inv, TypeOK, Request, Session, Land
      <3>2. QED
        BY <3>1, AppendIsAbove DEF Inv, TypeOK
    <2>4. \/ srv' = srv
          \/ \E s \in Session, e \in Seqs : Accept(s, e)
          \/ \E r \in wire : Land(r)
      BY DEF Next, ChunkStep, Capture, Begin, Drain, GiveUp, Ack, Crash, Send, Refuse,
             Bisect, Quarantine, logVars
    <2>5. QED
      BY <2>1, <2>2, <2>3, <2>4
  <1>2. QED
    BY <1>1, Invariance, PTL DEF Spec, AppendsAbove

(* Pushes that overlap never take the watermark back.                      *)
THEOREM WatermarkMonotone == Spec => PushedNeverBack
  <1> DEFINE Forward == \A d \in Device : lastPushed[d] <= lastPushed'[d]
  <1>1. Inv /\ [Next]_vars => [Forward]_vars
    <2> SUFFICES ASSUME Inv, Next PROVE Forward
      OBVIOUS
    <2>1. \A d \in Device : lastPushed[d] \in 0 .. MaxOps
      BY DEF Inv, TypeOK
    <2>2. CASE lastPushed' = lastPushed
      BY <2>1, <2>2
    <2>3. ASSUME NEW s \in Session, Ack(s) PROVE Forward
      <3>1. hi[s] \in 0 .. MaxOps /\ dev(s) \in Device
        BY DEF Inv, TypeOK, Session
      <3>2. lastPushed[dev(s)] <= Advance(lastPushed[dev(s)], hi[s])
        BY <2>1, <3>1 DEF Advance
      <3>3. lastPushed' = [lastPushed EXCEPT ![dev(s)] =
                                Advance(lastPushed[dev(s)], hi[s])]
        BY <2>3 DEF Ack, AckedThrough
      <3>4. QED
        BY <2>1, <3>2, <3>3 DEF Inv, TypeOK
    <2>4. lastPushed' = lastPushed \/ \E s \in Session : Ack(s)
      <3>1. \A d \in Device, bad \in BOOLEAN : Capture(d, bad) => lastPushed' = lastPushed
        BY DEF Capture
      <3>2. \A s \in Session : Begin(s) \/ Drain(s) \/ GiveUp(s) \/ Crash(s)
                                => lastPushed' = lastPushed
        BY DEF Begin, Drain, GiveUp, Crash, deviceVars
      <3>3. \A s \in Session, e \in Seqs : ChunkStep(s, e) => lastPushed' = lastPushed
        BY DEF ChunkStep, Send, Accept, Refuse, Bisect, Quarantine, deviceVars
      <3>4. \A r \in wire : Land(r) => lastPushed' = lastPushed
        BY DEF Land, deviceVars
      <3>5. QED
        BY <3>1, <3>2, <3>3, <3>4 DEF Next
    <2>5. QED
      BY <2>2, <2>3, <2>4
  <1>2. QED
    BY <1>1, Invariance, PTL DEF Spec, PushedNeverBack

-----------------------------------------------------------------------------
(* The refinement: every step is a step of Outbox or leaves its variables  *)
(* alone.  Publishing and giving up happen behind settled ops only because *)
(* a session and a request have settled everything before them             *)
(* (SessionInv, RequestInv).                                               *)

LEMMA SettledThroughIs ==
    ASSUME NEW d \in Device, NEW n \in Nat, \A i \in 1 .. n : Settled(d, i)
    PROVE  O!SettledThrough(d, n)
  BY DEF O!SettledThrough, O!Published, Settled

LEMMA InitRefines == Init => O!Init
  BY DEF Init, O!Init, O!Seqs

LEMMA CaptureRefines ==
    ASSUME NEW d \in Device, NEW bad \in BOOLEAN, Capture(d, bad)
    PROVE  O!Next
  <1>1. O!Record(d)
    BY DEF Capture, O!Record, logVars
  <1>2. QED
    BY <1>1 DEF O!Next

(* An append behind settled ops publishes them.                            *)
LEMMA AppendRefines ==
    ASSUME Inv, NEW d \in Device, NEW lo \in 0 .. MaxOps, NEW h \in Seqs,
           h <= captured[d], \A i \in 1 .. lo : Settled(d, i),
           Append(d, lo, h), UNCHANGED <<captured, lastPushed, quarantined>>
    PROVE  O!Next
  <1> DEFINE new == {i \in lo + 1 .. h : ~O!Published(d, i)}
  <1>1. /\ srv \in [Device -> [Seqs -> Nat]] /\ auto \in Nat
        /\ PlacesCounted
    BY DEF Inv, TypeOK
  <1>2. srv' = [srv EXCEPT ![d] = [i \in Seqs |-> IF i \in lo + 1 .. h /\ srv[d][i] = 0
                                                  THEN auto + (i - lo) ELSE srv[d][i]]]
    BY DEF Append
  <1>3. DOMAIN srv' = Device /\ \A c \in Device : DOMAIN srv'[c] = Seqs
    BY <1>1, <1>2
  <1>4. \A i \in Seqs : i \in new <=> i \in lo + 1 .. h /\ srv[d][i] = 0
    BY <1>1 DEF O!Published
  <1>5. new \subseteq Seqs
    OBVIOUS
  <1>6. \A i \in new : srv'[d][i] = auto + (i - lo) /\ i \in lo + 1 .. h /\ srv[d][i] = 0
    BY <1>1, <1>2, <1>4, <1>5
  <1>7. \A c \in Device, i \in Seqs : ~(c = d /\ i \in new) => srv'[c][i] = srv[c][i]
    BY <1>1, <1>2, <1>4
  <1> HIDE DEF new
  <1>8. ASSUME NEW i \in new
        PROVE  /\ srv'[d][i] \in Nat \ {0}
               /\ \A c \in Device, j \in Seqs : srv'[d][i] > srv[c][j]
               /\ \A j \in new : i < j => srv'[d][i] < srv'[d][j]
    <2>1. i \in Seqs /\ lo < i /\ srv'[d][i] = auto + (i - lo)
      BY <1>5, <1>6
    <2>2. srv'[d][i] \in Nat \ {0} /\ srv'[d][i] > auto
      BY <1>1, <2>1
    <2>3. ASSUME NEW c \in Device, NEW j \in Seqs
          PROVE  srv'[d][i] > srv[c][j]
      <3>1. srv[c][j] \in Nat /\ srv[c][j] <= auto
        BY <1>1 DEF PlacesCounted
      <3>2. \A x, y, z \in Nat : x <= y /\ z > y => z > x
        OBVIOUS
      <3>3. QED
        BY <1>1, <2>2, <3>1, <3>2, Zenon
    <2>4. ASSUME NEW j \in new, i < j
          PROVE  srv'[d][i] < srv'[d][j]
      <3>1. j \in Seqs /\ srv'[d][j] = auto + (j - lo)
        BY <1>5, <1>6
      <3>2. QED
        BY <1>1, <2>1, <2>4, <3>1
    <2>5. QED
      BY <2>2, <2>3, <2>4
  <1>9. O!SettledThrough(d, lo)
    BY SettledThroughIs
  <1>10. O!Publish(d, lo, h)
    BY <1>3, <1>7, <1>8, <1>9 DEF O!Publish, O!Seqs, new
  <1>11. QED
    BY <1>10 DEF O!Next, O!Seqs

LEMMA AcceptRefines ==
    ASSUME Inv, NEW s \in Session, NEW e \in Seqs, Accept(s, e) PROVE O!Next
  <1>1. /\ dev(s) \in Device /\ pos[s] \in 0 .. MaxOps /\ hi[s] \in 0 .. MaxOps
        /\ captured[dev(s)] \in 0 .. MaxOps
        /\ e <= hi[s] /\ hi[s] <= captured[dev(s)]
        /\ \A i \in 1 .. pos[s] : Settled(dev(s), i)
    BY DEF Inv, TypeOK, Session, Accept, IsChunkEnd, SessionInv
  <1>2. e <= captured[dev(s)]
    BY <1>1
  <1>3. QED
    BY <1>1, <1>2, AppendRefines DEF Accept, deviceVars

LEMMA LandRefines ==
    ASSUME Inv, NEW r \in wire, Land(r) PROVE O!Next
  <1>1. /\ dev(r.from) \in Device /\ r.lo \in 0 .. MaxOps /\ r.hi \in Seqs
        /\ r.hi <= captured[dev(r.from)]
        /\ \A i \in 1 .. r.lo : Settled(dev(r.from), i)
    BY DEF Inv, TypeOK, Request, Session, RequestInv
  <1>2. QED
    BY <1>1, AppendRefines DEF Land, deviceVars

LEMMA QuarantineRefines ==
    ASSUME Inv, NEW s \in Session, NEW e \in Seqs, Quarantine(s, e) PROVE O!Next
  <1>1. /\ dev(s) \in Device /\ pos[s] \in 0 .. MaxOps /\ hi[s] \in 0 .. MaxOps
        /\ captured[dev(s)] \in 0 .. MaxOps
        /\ e = pos[s] + 1 /\ e <= hi[s] /\ hi[s] <= captured[dev(s)]
        /\ \A i \in 1 .. pos[s] : Settled(dev(s), i)
    BY DEF Inv, TypeOK, Session, Quarantine, IsChunkEnd, SessionInv
  <1>2. e <= captured[dev(s)] /\ e - 1 = pos[s]
    BY <1>1
  <1>3. O!SettledThrough(dev(s), e - 1)
    BY <1>1, <1>2, SettledThroughIs
  <1>4. O!GiveUpOn(dev(s), e)
    BY <1>2, <1>3 DEF O!GiveUpOn, Quarantine, QuarantinedWith, logVars
  <1>5. QED
    BY <1>1, <1>4 DEF O!Next, O!Seqs

LEMMA AckRefines ==
    ASSUME Inv, NEW s \in Session, Ack(s) PROVE O!Next \/ UNCHANGED O!vars
  <1>1. /\ dev(s) \in Device /\ hi[s] \in 0 .. MaxOps /\ pos[s] = hi[s]
        /\ lastPushed[dev(s)] \in 0 .. MaxOps /\ hi[s] <= captured[dev(s)]
        /\ \A i \in 1 .. hi[s] : Settled(dev(s), i)
    BY DEF Inv, TypeOK, Session, Ack, SessionInv
  <1>2. lastPushed' = [lastPushed EXCEPT ![dev(s)] = Advance(lastPushed[dev(s)], hi[s])]
    BY DEF Ack, AckedThrough
  <1>3. UNCHANGED <<captured, quarantined, srv>>
    BY DEF Ack, logVars
  <1>4. CASE lastPushed[dev(s)] < hi[s]
    <2>1. O!SettledThrough(dev(s), hi[s])
      BY <1>1, SettledThroughIs
    <2>2. O!Acknowledge(dev(s), hi[s])
      BY <1>1, <1>2, <1>3, <1>4, <2>1 DEF O!Acknowledge, Advance
    <2>3. hi[s] \in O!Seqs
      BY <1>1, <1>4 DEF O!Seqs
    <2>4. QED
      BY <1>1, <2>2, <2>3 DEF O!Next
  <1>5. CASE ~(lastPushed[dev(s)] < hi[s])
    <2>1. lastPushed' = lastPushed
      BY <1>2, <1>5 DEF Inv, TypeOK, Advance
    <2>2. QED
      BY <1>3, <2>1 DEF O!vars
  <1>6. QED
    BY <1>4, <1>5

LEMMA StepRefines == Inv /\ [Next]_vars => [O!Next]_(O!vars)
  <1> SUFFICES ASSUME Inv, [Next]_vars PROVE O!Next \/ UNCHANGED O!vars
    OBVIOUS
  <1>1. ASSUME NEW s \in Session,
               \/ Begin(s) \/ Drain(s) \/ GiveUp(s) \/ Crash(s)
               \/ \E e \in Seqs : Send(s, e) \/ Refuse(s, e) \/ Bisect(s, e)
        PROVE  UNCHANGED O!vars
    BY <1>1 DEF Begin, Drain, GiveUp, Crash, Send, Refuse, Bisect, deviceVars, logVars, O!vars
  <1>2. CASE UNCHANGED vars
    BY <1>2 DEF vars, deviceVars, logVars, O!vars
  <1>3. QED
    BY <1>1, <1>2, CaptureRefines, AcceptRefines, LandRefines, QuarantineRefines, AckRefines
       DEF Next, ChunkStep

(* A push keeps every promise of the outbox, for any number of processes,  *)
(* chunks, retries, late requests and crashes.                             *)
THEOREM PushImplementsOutbox == Spec => ImplementsOutbox
  BY InitRefines, StepRefines, Invariance, PTL DEF Spec, ImplementsOutbox, O!Spec
=============================================================================
