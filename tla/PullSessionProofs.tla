-------------------------- MODULE PullSessionProofs --------------------------
(***************************************************************************)
(* Proofs about PullSession, for any number of processes, any page size,   *)
(* any gaps and any schemas.                                               *)
(*                                                                         *)
(* While the log has lost nothing, every cursor (the device's and each     *)
(* pull's) has behind it only rows that are the device's own or stored,    *)
(* and a page holds every row of another device between the cursor it was  *)
(* asked from and the seq it goes through.                                 *)
(***************************************************************************)
EXTENDS PullSession, FiniteSetTheorems, TLAPS

(* Every row of another device up to n is stored.                          *)
Covered(n) == \A e \in log : Foreign(e) /\ e.seq <= n => e \in stored

(* A pull has covered its cursor; its page leaves nothing out.             *)
PullInv(p) ==
    /\ pc[p] \in {"ask", "page"} => since[p] <= auto /\ Covered(since[p])
    /\ pc[p] = "page" =>
        /\ since[p] <= page[p].through /\ page[p].through <= auto
        /\ \A e \in page[p].ops : e.seq <= page[p].through
        /\ \A e \in log : Foreign(e) /\ since[p] < e.seq /\ e.seq <= page[p].through
                            => e \in page[p].ops

Whole ==
    /\ \A e \in log : e.seq <= auto
    /\ lastApplied <= auto
    /\ Covered(lastApplied)
    /\ \A p \in Proc : PullInv(p)

Inv == TypeOK /\ IsFiniteSet(log) /\ (epoch = 0 => Whole)

-----------------------------------------------------------------------------
LEMMA BoundsAreNat ==
    /\ MaxSeq \in Nat /\ MaxRestores \in Nat
    /\ MaxBatches \in Nat \ {0} /\ MaxSchema \in Nat \ {0}
  BY PullSessionAssumption

LEMMA NoPageIsPage == NoPage \in Page
  BY BoundsAreNat DEF NoPage, Page

(* What the window leaves out below its end is not in the log.             *)
LEMMA WindowIsPrefix ==
    ASSUME TypeOK, IsFiniteSet(log), NEW from \in 0 .. MaxSeq,
           NEW w \in Window(from), NEW e \in log, from < e.seq, e.seq <= w.seq
    PROVE  e \in Window(from)
  <1> DEFINE below(x) == {f \in log : from < f.seq /\ f.seq < x.seq}
  <1>1. w \in log /\ Cardinality(below(w)) < Limit
    BY DEF Window
  <1>2. e.seq \in Nat /\ w.seq \in Nat /\ \A f \in log : f.seq \in Nat
    BY <1>1, BoundsAreNat DEF TypeOK, Entry
  <1>3. below(e) \subseteq below(w)
    BY <1>2
  <1>4. IsFiniteSet(below(w)) /\ IsFiniteSet(below(e))
    BY FS_Subset
  <1>5. Cardinality(below(e)) <= Cardinality(below(w))
    BY <1>3, <1>4, FS_Subset
  <1>6. Cardinality(below(e)) \in Nat /\ Cardinality(below(w)) \in Nat
    BY <1>4, FS_CardinalityType
  <1>7. Cardinality(below(e)) < Limit
    BY <1>1, <1>5, <1>6, PullSessionAssumption
  <1>8. QED
    BY <1>7 DEF Window

(* A page leaves out no row of another device up to where it goes.         *)
LEMMA PageIsWhole ==
    ASSUME TypeOK, IsFiniteSet(log), NEW from \in 0 .. MaxSeq, NEW t \in 0 .. MaxSeq,
           Through(from, t), \A e \in log : e.seq <= auto, from <= auto
    PROVE  /\ from <= t /\ t <= auto
           /\ \A e \in log : Foreign(e) /\ from < e.seq /\ e.seq <= t
                                => e \in PageThrough(from, t).ops
           /\ \A e \in PageThrough(from, t).ops : e.seq <= t
           /\ PageThrough(from, t) \in Page
  <1>1. \A e \in log : e.seq \in Nat /\ e \in Entry
    BY BoundsAreNat DEF TypeOK, Entry
  <1>2. Window(from) \subseteq log /\ \A e \in Window(from) : from < e.seq
    BY DEF Window
  <1>3. PageThrough(from, t) \in Page
    BY <1>1, <1>2 DEF PageThrough, Page
  <1>4. CASE Window(from) = {}
    <2>1. t = from
      BY <1>4 DEF Through
    <2>2. \A e \in log : ~(from < e.seq /\ e.seq <= t)
      BY <1>1, <2>1
    <2>3. PageThrough(from, t).ops = {}
      BY <1>4 DEF PageThrough
    <2>4. QED
      BY <1>3, <2>1, <2>2, <2>3
  <1>5. CASE Window(from) # {}
    <2>1. PICK w \in Window(from) : w.seq = t
      BY <1>5 DEF Through
    <2>2. from <= t /\ t <= auto
      BY <1>1, <1>2, <2>1
    <2>3. \A e \in log : from < e.seq /\ e.seq <= t => e \in Window(from)
      BY <2>1, WindowIsPrefix
    <2>4. \A e \in Window(from) : e.seq <= t
      BY <1>5 DEF Through
    <2>5. QED
      BY <1>3, <2>2, <2>3, <2>4 DEF PageThrough
  <1>6. QED
    BY <1>4, <1>5

-----------------------------------------------------------------------------
(* Every step keeps the invariant.                                         *)

SameProc(q) == pc'[q] = pc[q] /\ since'[q] = since[q] /\ page'[q] = page[q]

(* A process the step leaves alone keeps its part, if the log only grew    *)
(* above its counter and nothing stored was forgotten.                     *)
LEMMA PullKept ==
    ASSUME TypeOK, NEW q \in Proc, PullInv(q), SameProc(q),
           auto' \in Nat, auto <= auto', stored \subseteq stored',
           \A e \in log' : e \in log \/ (auto < e.seq /\ e.seq \in Nat)
    PROVE  PullInv(q)'
  <1>1. /\ since[q] \in Nat /\ page[q].through \in Nat /\ auto \in Nat
        /\ \A e \in log : e.seq \in Nat
    BY BoundsAreNat DEF TypeOK, Page, Entry
  <1>2. ASSUME pc[q] \in {"ask", "page"}
        PROVE  since'[q] <= auto' /\ Covered(since[q])'
    <2>1. since[q] <= auto /\ Covered(since[q])
      BY <1>2 DEF PullInv
    <2>2. since[q] <= auto'
      BY <1>1, <2>1
    <2>3. ASSUME NEW e \in log', Foreign(e), e.seq <= since'[q]
          PROVE  e \in stored'
      <3>1. e.seq <= since[q]
        BY <2>3 DEF SameProc
      <3>2. e \in log
        BY <1>1, <2>1, <3>1
      <3>3. QED
        BY <2>1, <2>3, <3>1, <3>2 DEF Covered
    <2>4. QED
      BY <2>2, <2>3 DEF SameProc, Covered, Foreign
  <1>3. ASSUME pc[q] = "page"
        PROVE  /\ since'[q] <= page'[q].through /\ page'[q].through <= auto'
               /\ \A e \in page'[q].ops : e.seq <= page'[q].through
               /\ \A e \in log' : Foreign(e) /\ since'[q] < e.seq
                                    /\ e.seq <= page'[q].through => e \in page'[q].ops
    <2>1. /\ since[q] <= page[q].through /\ page[q].through <= auto
          /\ \A e \in page[q].ops : e.seq <= page[q].through
          /\ \A e \in log : Foreign(e) /\ since[q] < e.seq /\ e.seq <= page[q].through
                                => e \in page[q].ops
      BY <1>3 DEF PullInv
    <2>2. page[q].through <= auto'
      BY <1>1, <2>1
    <2>3. \A e \in log' : e.seq <= page[q].through => e \in log
      BY <1>1, <2>1
    <2>4. QED
      BY <2>1, <2>2, <2>3 DEF SameProc
  <1>4. QED
    BY <1>2, <1>3 DEF PullInv, SameProc, Covered, Foreign

LEMMA InitInv == Init => Inv
  <1>1. Init => TypeOK
    BY BoundsAreNat, NoPageIsPage DEF Init, TypeOK, Schema
  <1>2. Init => IsFiniteSet(log)
    BY FS_EmptySet DEF Init
  <1>3. Init => Whole
    BY DEF Init, Whole, Covered, PullInv
  <1>4. QED
    BY <1>1, <1>2, <1>3 DEF Inv

LEMMA PublishKeeps ==
    ASSUME Inv, NEW d \in Device, NEW v \in Schema, NEW n \in 1 .. MaxSeq, Publish(d, v, n)
    PROVE  Inv'
  <1> DEFINE row == [seq |-> n, author |-> d, schema |-> v, epoch |-> epoch]
  <1>1. row \in Entry /\ row.seq = n
    BY DEF Inv, TypeOK, Entry
  <1>2. log' = log \cup {row} /\ auto' = n
    BY DEF Publish
  <1> HIDE DEF row
  <1>3. auto \in Nat /\ auto < n
    BY BoundsAreNat, PullSessionAssumption DEF Inv, TypeOK, Publish
  <1>4. TypeOK'
    BY <1>1, <1>2 DEF Inv, TypeOK, Publish, deviceVars, procVars
  <1>5. IsFiniteSet(log)'
    BY <1>2, FS_AddElement DEF Inv
  <1>6. ASSUME epoch' = 0
        PROVE  Whole'
    <2>1. Whole
      BY <1>6 DEF Inv, Publish
    <2>2. stored' = stored /\ lastApplied' = lastApplied /\ \A q \in Proc : SameProc(q)
      BY DEF Publish, deviceVars, procVars, SameProc
    <2>3. \A e \in log' : e \in log \/ (auto < e.seq /\ e.seq \in Nat)
      BY <1>1, <1>2, <1>3
    <2>4. \A q \in Proc : PullInv(q)'
      <3>1. auto' \in Nat /\ auto <= auto' /\ stored \subseteq stored'
        BY <1>2, <1>3, <2>2
      <3>2. TypeOK /\ \A q \in Proc : PullInv(q)
        BY <2>1 DEF Inv, Whole
      <3>3. QED
        BY <2>2, <2>3, <3>1, <3>2, PullKept
    <2>5. \A e \in log' : e.seq <= auto'
      <3>1. \A e \in log : e.seq \in Nat /\ e.seq <= auto
        BY <2>1, BoundsAreNat DEF Whole, Inv, TypeOK, Entry
      <3>2. QED
        BY <1>1, <1>2, <1>3, <3>1
    <2>6. lastApplied \in Nat /\ lastApplied <= auto
      BY <2>1, BoundsAreNat DEF Whole, Inv, TypeOK
    <2>7. lastApplied' <= auto'
      BY <1>2, <1>3, <2>2, <2>6
    <2>8. Covered(lastApplied)'
      <3>1. \A e \in log' : e.seq <= lastApplied => e \in log
        BY <1>3, <2>3, <2>6
      <3>2. QED
        BY <2>1, <2>2, <3>1 DEF Whole, Covered, Foreign
    <2>9. QED
      BY <2>4, <2>5, <2>7, <2>8 DEF Whole
  <1>7. QED
    BY <1>4, <1>5, <1>6 DEF Inv

LEMMA RestoreKeeps ==
    ASSUME Inv, NEW k \in 0 .. MaxSeq, Restore(k) PROVE Inv'
  <1>1. log' \subseteq log /\ epoch' # 0 /\ epoch' \in 0 .. MaxRestores
    BY BoundsAreNat DEF Restore, Inv, TypeOK
  <1>2. TypeOK'
    BY <1>1 DEF Inv, TypeOK, Restore, deviceVars, procVars
  <1>3. IsFiniteSet(log)'
    BY <1>1, FS_Subset DEF Inv
  <1>4. QED
    BY <1>1, <1>2, <1>3 DEF Inv

(* A step that leaves the log alone need only account for the watermark    *)
(* and for the process that takes it.                                      *)
LEMMA LocalStep ==
    ASSUME Inv, TypeOK', UNCHANGED logVars, stored \subseteq stored',
           NEW p \in Proc, \A q \in Proc \ {p} : SameProc(q),
           Whole => PullInv(p)' /\ (Covered(lastApplied) /\ lastApplied <= auto)'
    PROVE  Inv'
  <1>1. IsFiniteSet(log)'
    BY DEF Inv, logVars
  <1>2. ASSUME Whole
        PROVE  Whole'
    <2>1. auto' = auto /\ auto \in Nat /\ log' = log
      BY BoundsAreNat DEF Inv, TypeOK, logVars
    <2>2. \A q \in Proc \ {p} : PullInv(q)'
      <3>1. auto' \in Nat /\ auto <= auto'
        BY <2>1
      <3>2. TypeOK /\ \A q \in Proc : PullInv(q)
        BY <1>2 DEF Inv, Whole
      <3>3. \A e \in log' : e \in log \/ (auto < e.seq /\ e.seq \in Nat)
        BY <2>1
      <3>4. QED
        BY <3>1, <3>2, <3>3, PullKept
    <2>3. (\A e \in log : e.seq <= auto)'
      BY <1>2, <2>1 DEF Whole
    <2>4. QED
      BY <1>2, <2>2, <2>3 DEF Whole
  <1>3. QED
    BY <1>1, <1>2 DEF Inv, logVars

LEMMA EndEnds ==
    ASSUME TypeOK, NEW p \in Proc, End(p)
    PROVE  /\ pc' \in [Proc -> {"idle", "ask", "page", "check", "reset"}]
           /\ runs' \in [Proc -> Schema]
           /\ since' \in [Proc -> 0 .. MaxSeq]
           /\ page' \in [Proc -> Page]
           /\ batch' \in [Proc -> 0 .. MaxBatches - 1]
           /\ head' \in [Proc -> 0 .. MaxSeq]
           /\ heardIn' \in [Proc -> 0 .. MaxRestores]
           /\ PullInv(p)'
           /\ \A q \in Proc \ {p} : SameProc(q)
  BY NoPageIsPage, BoundsAreNat DEF TypeOK, End, SameProc, PullInv

LEMMA BeginPullKeeps == ASSUME Inv, NEW p \in Proc, BeginPull(p) PROVE Inv'
  <1>1. TypeOK'
    BY DEF Inv, TypeOK, BeginPull, logVars, deviceVars
  <1>2. \A q \in Proc \ {p} : SameProc(q)
    BY DEF Inv, TypeOK, BeginPull, SameProc
  <1>3. pc'[p] = "ask" /\ since'[p] = lastApplied
    BY DEF Inv, TypeOK, BeginPull
  <1>4. UNCHANGED <<log, auto, stored, lastApplied>>
    BY DEF BeginPull, logVars, deviceVars
  <1>5. Whole => PullInv(p)' /\ (Covered(lastApplied) /\ lastApplied <= auto)'
    BY <1>3, <1>4 DEF Whole, PullInv, Covered
  <1>6. QED
    BY <1>1, <1>2, <1>4, <1>5, LocalStep DEF BeginPull

LEMMA ReadKeeps ==
    ASSUME Inv, NEW p \in Proc, NEW t \in 0 .. MaxSeq, Read(p, t) PROVE Inv'
  <1>1. since[p] \in 0 .. MaxSeq /\ Through(since[p], t)
    BY DEF Inv, TypeOK, Read
  <1>2. PageThrough(since[p], t) \in Page
    <2>1. Window(since[p]) \subseteq Entry
      BY DEF Window, Inv, TypeOK
    <2>2. QED
      BY <2>1 DEF PageThrough, Page
  <1>3. TypeOK'
    BY <1>2 DEF Inv, TypeOK, Read, logVars, deviceVars
  <1>4. \A q \in Proc \ {p} : SameProc(q)
    BY DEF Inv, TypeOK, Read, SameProc
  <1>5. UNCHANGED <<log, auto, stored, lastApplied, since>>
    BY DEF Read, logVars, deviceVars
  <1>6. pc'[p] = "page" /\ page'[p] = PageThrough(since[p], t)
    BY DEF Inv, TypeOK, Read
  <1>7. PageThrough(since[p], t).through = t
    BY DEF PageThrough
  <1>8. ASSUME Whole
        PROVE  PullInv(p)' /\ (Covered(lastApplied) /\ lastApplied <= auto)'
    <2>1. since[p] <= auto /\ Covered(since[p])
      BY <1>8 DEF Whole, PullInv, Read
    <2>2. /\ since[p] <= t /\ t <= auto
          /\ \A e \in log : Foreign(e) /\ since[p] < e.seq /\ e.seq <= t
                                => e \in PageThrough(since[p], t).ops
          /\ \A e \in PageThrough(since[p], t).ops : e.seq <= t
      BY <1>1, <1>8, <2>1, PageIsWhole DEF Inv, Whole
    <2>3. PullInv(p)'
      BY <1>5, <1>6, <1>7, <2>1, <2>2 DEF PullInv, Covered
    <2>4. QED
      BY <1>5, <1>8, <2>3 DEF Whole, Covered
  <1>9. QED
    BY <1>3, <1>4, <1>5, <1>8, LocalStep DEF Read

(* The heart of the matter: a page applied up to through, when everything  *)
(* of another device up to there is stored already or in the page.         *)
LEMMA CommitKeeps ==
    ASSUME Inv, NEW p \in Proc, NEW ops \in SUBSET Entry, NEW through \in 0 .. MaxSeq,
           NEW more \in BOOLEAN, pc[p] = "page", Commit(p, ops, through, more),
           UNCHANGED <<logVars, build, checked>>,
           Whole => /\ through <= auto
                    /\ \A e \in log : Foreign(e) /\ e.seq <= through =>
                            e \in stored \/ (e \in ops /\ e.schema <= runs[p])
    PROVE  Inv'
  <1> DEFINE mark == Advance(lastApplied, through)
             cursor == Advance(since[p], through)
  <1>1. /\ lastApplied \in 0 .. MaxSeq /\ since[p] \in 0 .. MaxSeq /\ auto \in 0 .. MaxSeq
        /\ \A e \in log : e.seq \in Nat
    BY BoundsAreNat DEF Inv, TypeOK, Entry
  <1>2. mark \in 0 .. MaxSeq /\ cursor \in 0 .. MaxSeq
    BY <1>1 DEF Advance
  <1>3. mark \in {lastApplied, through} /\ cursor \in {since[p], through}
    BY DEF Advance
  <1>4. UNCHANGED <<log, auto, epoch>>
    BY DEF logVars
  <1> HIDE DEF mark, cursor
  <1>5. CASE ops = {} /\ through <= since[p]
    <2>1. End(p) /\ UNCHANGED <<lastApplied, stored>>
      BY <1>5 DEF Commit
    <2>2. TypeOK'
      BY <2>1, EndEnds DEF Inv, TypeOK, logVars
    <2>3. Whole => (Covered(lastApplied) /\ lastApplied <= auto)'
      BY <1>4, <2>1 DEF Whole, Covered
    <2>4. QED
      BY <2>1, <2>2, <2>3, EndEnds, LocalStep DEF Inv
  <1>6. CASE ~(ops = {} /\ through <= since[p])
    <2>1. /\ stored' = stored \cup {e \in ops : e.schema <= runs[p]}
          /\ lastApplied' = mark
      BY <1>6 DEF Commit, mark
    <2>2. /\ pc' \in [Proc -> {"idle", "ask", "page", "check", "reset"}]
          /\ runs' \in [Proc -> Schema]
          /\ since' \in [Proc -> 0 .. MaxSeq]
          /\ page' \in [Proc -> Page]
          /\ batch' \in [Proc -> 0 .. MaxBatches - 1]
          /\ head' \in [Proc -> 0 .. MaxSeq]
          /\ heardIn' \in [Proc -> 0 .. MaxRestores]
          /\ PullInv(p)' \/ (pc'[p] = "ask" /\ since'[p] = cursor)
          /\ \A q \in Proc \ {p} : SameProc(q)
      <3>1. CASE GoesOn(p, more)
        <4>1. /\ pc' = [pc EXCEPT ![p] = "ask"]
              /\ since' = [since EXCEPT ![p] = cursor]
              /\ page' = [page EXCEPT ![p] = NoPage]
              /\ batch' = [batch EXCEPT ![p] = batch[p] + 1]
              /\ UNCHANGED <<runs, head, heardIn>>
          BY <1>6, <3>1 DEF Commit, cursor
        <4>2. batch[p] + 1 \in 0 .. MaxBatches - 1
          BY <3>1, BoundsAreNat DEF GoesOn, Inv, TypeOK
        <4>3. QED
          BY <1>2, <4>1, <4>2, NoPageIsPage DEF Inv, TypeOK, SameProc
      <3>2. CASE ~GoesOn(p, more)
        <4>1. End(p)
          BY <1>6, <3>2 DEF Commit
        <4>2. QED
          BY <4>1, EndEnds DEF Inv
      <3>3. QED
        BY <3>1, <3>2
    <2>3. TypeOK'
      BY <1>2, <2>1, <2>2 DEF Inv, TypeOK, logVars
    <2>4. ASSUME Whole, NEW n \in {lastApplied, since[p], through}
          PROVE  n <= auto /\ \A e \in log : Foreign(e) /\ e.seq <= n => e \in stored'
      <3>1. CASE n = lastApplied
        BY <2>1, <2>4, <3>1 DEF Whole, Covered
      <3>2. CASE n = since[p]
        BY <2>1, <2>4, <3>2 DEF Whole, Covered, PullInv
      <3>3. CASE n = through
        BY <2>1, <2>4, <3>3
      <3>4. QED
        BY <2>4, <3>1, <3>2, <3>3
    <2>5. ASSUME Whole
          PROVE  (Covered(lastApplied) /\ lastApplied <= auto)'
      BY <1>3, <1>4, <2>1, <2>4, <2>5 DEF Covered, Foreign
    <2>6. ASSUME Whole
          PROVE  PullInv(p)'
      <3>1. CASE pc'[p] = "ask" /\ since'[p] = cursor
        BY <1>3, <1>4, <2>4, <2>6, <3>1 DEF PullInv, Covered, Foreign
      <3>2. QED
        BY <2>2, <3>1
    <2>7. stored \subseteq stored'
      BY <2>1
    <2>8. QED
      BY <2>2, <2>3, <2>5, <2>6, <2>7, LocalStep
  <1>7. QED
    BY <1>5, <1>6

LEMMA ApplyPageKeeps == ASSUME Inv, NEW p \in Proc, ApplyPage(p) PROVE Inv'
  <1>1. /\ page[p].ops \in SUBSET Entry /\ page[p].through \in 0 .. MaxSeq
        /\ page[p].more \in BOOLEAN /\ since[p] \in Nat
        /\ \A e \in log : e.seq \in Nat
    BY BoundsAreNat DEF Inv, TypeOK, Page, Entry
  <1>2. pc[p] = "page" /\ \A e \in page[p].ops : e.schema <= runs[p]
    BY DEF ApplyPage
  <1>3. ASSUME Whole
        PROVE  /\ page[p].through <= auto
               /\ \A e \in log : Foreign(e) /\ e.seq <= page[p].through =>
                        e \in stored \/ (e \in page[p].ops /\ e.schema <= runs[p])
    <2>1. PullInv(p)
      BY <1>3 DEF Whole
    <2>2. \A e \in log : Foreign(e) /\ e.seq <= since[p] => e \in stored
      BY <1>2, <2>1 DEF PullInv, Covered
    <2>3. \A e \in log : e.seq <= since[p] \/ since[p] < e.seq
      BY <1>1
    <2>4. QED
      BY <1>2, <2>1, <2>2, <2>3 DEF PullInv
  <1>4. QED
    BY <1>1, <1>2, <1>3, CommitKeeps DEF ApplyPage

LEMMA ApplyBeforeKeeps ==
    ASSUME Inv, NEW p \in Proc, NEW e \in page[p].ops, ApplyBefore(p, e) PROVE Inv'
  <1> DEFINE before == {f \in page[p].ops : f.seq < e.seq}
             through == ThroughBefore(e)
  <1>1. /\ page[p].ops \in SUBSET Entry /\ page[p].through \in 0 .. MaxSeq
        /\ since[p] \in Nat /\ auto \in Nat /\ runs[p] \in Nat
        /\ \A f \in log : f.seq \in Nat
    BY BoundsAreNat DEF Inv, TypeOK, Page, Entry, Schema
  <1>2. \A f \in page[p].ops : f.seq \in 1 .. MaxSeq /\ f.schema \in Nat
    BY <1>1, BoundsAreNat DEF Entry, Schema
  <1>3. before \in SUBSET Entry /\ through \in 0 .. MaxSeq
    BY <1>1, <1>2, BoundsAreNat DEF ThroughBefore
  <1>4. pc[p] = "page" /\ \A f \in before : f.schema <= runs[p]
    <2>1. \A f \in page[p].ops : f.schema > runs[p] => e.seq <= f.seq
      BY DEF ApplyBefore, FirstNewer
    <2>2. QED
      BY <1>1, <1>2, <2>1 DEF ApplyBefore
  <1>5. ASSUME Whole
        PROVE  /\ through <= auto
               /\ \A f \in log : Foreign(f) /\ f.seq <= through =>
                        f \in stored \/ (f \in before /\ f.schema <= runs[p])
    <2>1. /\ PullInv(p) /\ e.seq <= page[p].through /\ page[p].through <= auto
      BY <1>4, <1>5 DEF Whole, PullInv
    <2>2. through <= auto /\ \A f \in log : f.seq <= through => f.seq < e.seq /\ f.seq <= page[p].through
      BY <1>1, <1>2, <2>1 DEF ThroughBefore
    <2>3. \A f \in log : Foreign(f) /\ f.seq <= since[p] => f \in stored
      BY <1>4, <2>1 DEF PullInv, Covered
    <2>4. \A f \in log : f.seq <= since[p] \/ since[p] < f.seq
      BY <1>1
    <2>5. \A f \in log : Foreign(f) /\ since[p] < f.seq /\ f.seq <= page[p].through
                            => f \in page[p].ops
      BY <1>4, <2>1 DEF PullInv
    <2>6. QED
      BY <1>4, <2>2, <2>3, <2>4, <2>5
  <1>6. Commit(p, before, through, FALSE) /\ UNCHANGED <<logVars, build, checked>>
    BY DEF ApplyBefore
  <1> HIDE DEF before, through
  <1>7. QED
    BY <1>3, <1>4, <1>5, <1>6, CommitKeeps

LEMMA StopKeeps == ASSUME Inv, NEW p \in Proc, Stop(p) PROVE Inv'
  <1>1. End(p) /\ UNCHANGED <<log, auto, epoch, build, lastApplied, stored, checked>>
    BY DEF Stop, logVars, deviceVars
  <1>2. TypeOK'
    BY <1>1, EndEnds DEF Inv, TypeOK
  <1>3. Whole => (Covered(lastApplied) /\ lastApplied <= auto)'
    BY <1>1 DEF Whole, Covered
  <1>4. QED
    BY <1>1, <1>2, <1>3, EndEnds, LocalStep DEF Inv, logVars

LEMMA HearHeadKeeps ==
    ASSUME Inv, NEW p \in Proc, NEW h \in 1 .. MaxSeq, HearHead(p, h) PROVE Inv'
  <1>1. TypeOK'
    BY DEF Inv, TypeOK, HearHead, logVars, deviceVars
  <1>2. \A q \in Proc \ {p} : SameProc(q)
    BY DEF Inv, TypeOK, HearHead, SameProc
  <1>3. PullInv(p)'
    BY DEF Inv, TypeOK, HearHead, PullInv
  <1>4. UNCHANGED <<log, auto, lastApplied, stored>>
    BY DEF HearHead, logVars, deviceVars
  <1>5. Whole => (Covered(lastApplied) /\ lastApplied <= auto)'
    BY <1>4 DEF Whole, Covered
  <1>6. QED
    BY <1>1, <1>2, <1>3, <1>4, <1>5, LocalStep DEF HearHead

LEMMA CheckLogResetKeeps == ASSUME Inv, NEW p \in Proc, CheckLogReset(p) PROVE Inv'
  <1>1. UNCHANGED <<log, auto, epoch, build, lastApplied, stored>>
    BY DEF CheckLogReset, logVars
  <1>2. Whole => (Covered(lastApplied) /\ lastApplied <= auto)'
    BY <1>1 DEF Whole, Covered
  <1>3. CASE HeadCovers(p)
    <2>1. End(p) /\ checked' = heardIn[p]
      BY <1>3 DEF CheckLogReset
    <2>2. TypeOK'
      BY <1>1, <2>1, EndEnds DEF Inv, TypeOK
    <2>3. QED
      BY <1>1, <1>2, <2>1, <2>2, EndEnds, LocalStep DEF Inv, logVars
  <1>4. CASE ~HeadCovers(p)
    <2>1. /\ pc' = [pc EXCEPT ![p] = "reset"]
          /\ UNCHANGED <<checked, runs, since, page, batch, head, heardIn>>
      BY <1>4 DEF CheckLogReset
    <2>2. TypeOK'
      BY <1>1, <2>1 DEF Inv, TypeOK
    <2>3. \A q \in Proc \ {p} : SameProc(q)
      BY <2>1 DEF Inv, TypeOK, SameProc
    <2>4. PullInv(p)'
      BY <2>1 DEF Inv, TypeOK, PullInv
    <2>5. QED
      BY <1>1, <1>2, <2>2, <2>3, <2>4, LocalStep DEF logVars
  <1>5. QED
    BY <1>3, <1>4

LEMMA ResetAppliedKeeps == ASSUME Inv, NEW p \in Proc, ResetApplied(p) PROVE Inv'
  <1>1. /\ End(p) /\ lastApplied' = 0 /\ checked' = heardIn[p]
        /\ UNCHANGED <<log, auto, epoch, build, stored>>
    BY DEF ResetApplied, logVars
  <1>2. TypeOK'
    BY <1>1, EndEnds, BoundsAreNat DEF Inv, TypeOK
  <1>3. Whole => (Covered(lastApplied) /\ lastApplied <= auto)'
    <2>1. \A e \in log : ~(e.seq <= 0)
      BY BoundsAreNat DEF Inv, TypeOK, Entry
    <2>2. 0 <= auto
      BY BoundsAreNat DEF Inv, TypeOK
    <2>3. QED
      BY <1>1, <2>1, <2>2 DEF Covered
  <1>4. QED
    BY <1>1, <1>2, <1>3, EndEnds, LocalStep DEF Inv, logVars

LEMMA UpgradeKeeps == ASSUME Inv, Upgrade PROVE Inv'
  <1>1. UNCHANGED <<log, auto, epoch, lastApplied, stored, checked, procVars>>
    BY DEF Upgrade, logVars
  <1>2. build' \in Schema
    BY BoundsAreNat DEF Upgrade, Inv, TypeOK, Schema
  <1>3. TypeOK'
    BY <1>1, <1>2 DEF Inv, TypeOK, procVars
  <1>4. Whole => Whole'
    BY <1>1 DEF Whole, PullInv, Covered, procVars
  <1>5. QED
    BY <1>1, <1>3, <1>4 DEF Inv

LEMMA StepKeeps == Inv /\ [Next]_vars => Inv'
  <1> SUFFICES ASSUME Inv, [Next]_vars PROVE Inv'
    OBVIOUS
  <1>1. ASSUME NEW p \in Proc, ReadSome(p) PROVE Inv'
    BY <1>1, ReadKeeps DEF ReadSome
  <1>2. ASSUME NEW p \in Proc, ApplySome(p) PROVE Inv'
    BY <1>2, ApplyPageKeeps, ApplyBeforeKeeps DEF ApplySome
  <1>3. CASE UNCHANGED vars
    <2>1. UNCHANGED <<logVars, deviceVars, procVars>>
      BY <1>3 DEF vars
    <2>2. UNCHANGED <<log, auto, epoch, build, lastApplied, stored, checked, pc, runs,
                      since, page, batch, head, heardIn>>
      BY <2>1 DEF logVars, deviceVars, procVars
    <2>3. QED
      BY <2>2 DEF Inv, TypeOK, Whole, PullInv, Covered
  <1>4. QED
    BY <1>1, <1>2, <1>3, PublishKeeps, RestoreKeeps, UpgradeKeeps, BeginPullKeeps,
       StopKeeps, HearHeadKeeps, CheckLogResetKeeps, ResetAppliedKeeps DEF Next

THEOREM Invariance == Spec => []Inv
  BY InitInv, StepKeeps, PTL DEF Spec

(* Every variable keeps to its type.                                       *)
THEOREM TypeCorrect == Spec => []TypeOK
  <1>1. Inv => TypeOK
    BY DEF Inv
  <1>2. QED
    BY <1>1, Invariance, PTL

(* Until the log loses rows, the watermark passes nothing of another       *)
(* device that is not stored whole: pages, builds and overlapping pulls    *)
(* and rewinds notwithstanding.                                            *)
THEOREM NothingMissedUntilLoss == Spec => [](epoch = 0 => NothingMissed)
  <1>1. Inv => (epoch = 0 => NothingMissed)
    BY DEF Inv, Whole, Covered, NothingMissed
  <1>2. QED
    BY <1>1, Invariance, PTL

(* Where the log is never wiped nor restored, that is an invariant.        *)
THEOREM PullMissesNothing ==
    ASSUME MaxRestores = 0 PROVE Spec => []NothingMissed
  <1>1. Inv => NothingMissed
    <2>1. Inv => epoch = 0
      BY DEF Inv, TypeOK
    <2>2. QED
      BY <2>1 DEF Inv, Whole, Covered, NothingMissed
  <1>2. QED
    BY <1>1, Invariance, PTL

(* Overlapping pulls never take the watermark back; only a rewind does.    *)
THEOREM WatermarkBackOnlyToRewind == Spec => BackOnlyToRewind
  <1> DEFINE Back == lastApplied' < lastApplied =>
            lastApplied' = 0 /\ \E p \in Proc : pc[p] = "reset" /\ pc'[p] = "idle"
  <1>1. Inv /\ [Next]_vars => [Back]_vars
    <2> SUFFICES ASSUME Inv, Next PROVE Back
      OBVIOUS
    <2>1. /\ lastApplied \in Nat
          /\ \A p \in Proc : page[p].through \in Nat /\ page[p].ops \subseteq Entry
      BY BoundsAreNat DEF Inv, TypeOK, Page
    <2>2. CASE lastApplied' = lastApplied
      BY <2>1, <2>2
    <2>3. ASSUME NEW p \in Proc, ResetApplied(p) PROVE Back
      BY <2>3 DEF ResetApplied, End, Inv, TypeOK
    <2>4. ASSUME NEW p \in Proc, NEW ops, NEW through \in Int, NEW more,
                 Commit(p, ops, through, more)
          PROVE  Back
      <3>1. lastApplied' = lastApplied \/ lastApplied' = Advance(lastApplied, through)
        BY <2>4 DEF Commit
      <3>2. ~(lastApplied' < lastApplied)
        BY <2>1, <2>4, <3>1 DEF Advance
      <3>3. QED
        BY <3>2
    <2>5. ASSUME NEW p \in Proc, ApplySome(p) PROVE Back
      <3>1. CASE ApplyPage(p)
        BY <2>1, <2>4, <3>1 DEF ApplyPage
      <3>2. ASSUME NEW e \in page[p].ops, ApplyBefore(p, e) PROVE Back
        <4>1. ThroughBefore(e) \in Int
          BY <2>1, BoundsAreNat DEF ThroughBefore, Entry
        <4>2. QED
          BY <2>4, <3>2, <4>1 DEF ApplyBefore
      <3>3. QED
        BY <2>5, <3>1, <3>2 DEF ApplySome
    <2>6. \/ lastApplied' = lastApplied
          \/ \E p \in Proc : ResetApplied(p) \/ ApplySome(p)
      BY DEF Next, Publish, Restore, Upgrade, BeginPull, ReadSome, Read, Stop, HearHead,
             CheckLogReset, deviceVars
    <2>7. QED
      BY <2>2, <2>3, <2>5, <2>6
  <1>2. QED
    BY <1>1, Invariance, PTL DEF Spec, BackOnlyToRewind
=============================================================================
