--------------------------- MODULE CaptureProofs ---------------------------
(***************************************************************************)
(* Capture, for any rows, processes and bounds: what the tables hold is    *)
(* recorded as it is, what they lost is recorded as deleted, and nothing   *)
(* before what it hangs off, save where a writer died or gave up.          *)
(***************************************************************************)
EXTENDS Capture, FiniteSetTheorems, SequenceTheorems, TLAPS

-----------------------------------------------------------------------------
(* The inductive invariant                                                 *)

(* An id once used never comes back, and what a row hangs off is there.    *)
World ==
    /\ \A r \in Row : row[r] # NONE => r \in used /\ row[Parent[r]] # NONE
    /\ \A r \in used : Parent[r] \in used
    /\ \A n \in DOMAIN log : log[n].row \in used

(* What each callback has behind it when it gets where it is.              *)
Kin(r, t) == r = t \/ Parent[r] = t
CallbackInv(p) ==
    LET pc == at[p].pc
        r == subject(p)
    IN  /\ pc # "idle" => (pc = "write" /\ does(p, "add")) \/ r \in used
        /\ pc \in {"write", "snap"} => at[p].do \in {"add", "update"}
        /\ pc = "look" => at[p].do \in {"remove", "deleteTask"}
        /\ pc = "delete" => does(p, "remove") /\ (at[p].snap = NONE => row[r] = NONE)
        /\ pc \in {"state", "record"} =>
              at[p].do \in {"add", "update", "remove"} /\ at[p].snap # NONE
        /\ pc \in {"state", "record"} /\ does(p, "remove") => row[r] = NONE
        /\ pc # "idle" /\ does(p, "remove") => r \notin Task
        /\ pc = "transaction" => /\ does(p, "deleteTask")
                                 /\ \A s \in Range(at[p].gone) : s \in used /\ Kin(s, r)
                                 /\ row[r] # NONE => r \in Range(at[p].gone)

(* A row nobody owes is recorded as it is, or about to be.                 *)
Recording(p, r) ==
    /\ subject(p) = r
    /\ at[p].pc = "snap" \/ (at[p].pc \in {"state", "record"} /\ at[p].snap = row[r])
RecordedAsIs(r) ==
    \E n \in DOMAIN log : log[n].row = r /\ log[n].op = "put" /\ log[n].version = row[r]
Latest(r) ==
    row[r] # NONE /\ r \notin owed => RecordedAsIs(r) \/ \E p \in Proc : Recording(p, r)

(* A row there was and nobody owes is recorded as deleted, or about to be, *)
(* or what it hung off is.                                                 *)
Removing(p, r) == subject(p) = r /\ at[p].pc \in {"state", "record"} /\ does(p, "remove")
Removed(r) == Recorded(r, "delete") \/ Recorded(Parent[r], "delete")
Deleted(r) ==
    row[r] = NONE /\ r \in used /\ r \notin owed => Removed(r) \/ \E p \in Proc : Removing(p, r)

IInv ==
    /\ TypeOK /\ World
    /\ \A p \in Proc : CallbackInv(p)
    /\ \A r \in Row : Latest(r) /\ Deleted(r)
    /\ ParentsCapturedFirst

-----------------------------------------------------------------------------
(* Putting children first                                                  *)

(* Some order of any rows has children before parents: no parent has one   *)
(* of its own.                                                             *)
LEMMA OrderExists ==
    ASSUME NEW S \in SUBSET Row
    PROVE  \E q \in SetToSeqs(S) :
              \A i, j \in DOMAIN q : i < j => Parent[q[j]] # q[i] \/ isRoot(q[j])
PROOF
<1> DEFINE Roots == {r \in S : isRoot(r)}
           Others == {r \in S : ~isRoot(r)}
<1>1. IsFiniteSet(S) /\ IsFiniteSet(Roots) /\ IsFiniteSet(Others)
  BY CaptureAssumption, FS_Subset
<1>2. PICK m \in Nat : ExistsBijection(1 .. m, Others)
  BY <1>1, FS_NatBijection
<1>3. PICK n \in Nat : ExistsBijection(1 .. n, Roots)
  BY <1>1, FS_NatBijection
<1>4. PICK f \in [1 .. m -> Others] :
         /\ \A a, b \in 1 .. m : f[a] = f[b] => a = b
         /\ \A r \in Others : \E a \in 1 .. m : f[a] = r
  BY <1>2 DEF ExistsBijection, Bijection, Injection, Surjection, IsInjective
<1>5. PICK g \in [1 .. n -> Roots] :
         /\ \A a, b \in 1 .. n : g[a] = g[b] => a = b
         /\ \A r \in Roots : \E a \in 1 .. n : g[a] = r
  BY <1>3 DEF ExistsBijection, Bijection, Injection, Surjection, IsInjective
<1>6. PICK q : q = [i \in 1 .. m + n |-> IF i <= m THEN f[i] ELSE g[i - m]]
  OBVIOUS
<1>7. /\ DOMAIN q = 1 .. m + n
      /\ \A i \in 1 .. m : q[i] = f[i] /\ q[i] \in Others
      /\ \A i \in m + 1 .. m + n : q[i] = g[i - m] /\ q[i] \in Roots /\ i - m \in 1 .. n
  BY <1>4, <1>5, <1>6
<1>8. \A i \in 1 .. m + n : i \in 1 .. m \/ i \in m + 1 .. m + n
  OBVIOUS
<1>9. q \in [1 .. m + n -> S]
  BY <1>6, <1>7, <1>8
<1>10. \A i, j \in 1 .. m + n : q[i] = q[j] => i = j
  <2> SUFFICES ASSUME NEW i \in 1 .. m + n, NEW j \in 1 .. m + n, q[i] = q[j] PROVE i = j
    OBVIOUS
  <2>1. CASE i \in 1 .. m /\ j \in 1 .. m
    BY <2>1, <1>4, <1>7
  <2>2. CASE i \in m + 1 .. m + n /\ j \in m + 1 .. m + n
    <3>1. g[i - m] = g[j - m] /\ i - m \in 1 .. n /\ j - m \in 1 .. n
      BY <2>2, <1>7
    <3>2. i - m = j - m
      BY <3>1, <1>5
    <3> QED
      BY <3>2
  <2>3. q[i] \in Others <=> q[i] \notin Roots
    BY <1>8, <1>7
  <2> QED
    BY <2>1, <2>2, <2>3, <1>7, <1>8
<1>11. \A r \in S : \E i \in 1 .. m + n : q[i] = r
  <2> SUFFICES ASSUME NEW r \in S PROVE \E i \in 1 .. m + n : q[i] = r
    OBVIOUS
  <2>1. CASE r \in Others
    BY <2>1, <1>4, <1>7
  <2>2. CASE r \in Roots
    <3>1. PICK a \in 1 .. n : g[a] = r
      BY <2>2, <1>5
    <3>2. m + a \in m + 1 .. m + n /\ m + a - m = a
      BY <3>1
    <3> QED
      BY <3>1, <3>2, <1>7
  <2> QED
    BY <2>1, <2>2
<1>12. ExistsBijection(1 .. m + n, S)
  BY <1>9, <1>10, <1>11 DEF ExistsBijection, Bijection, Injection, Surjection, IsInjective
<1>13. Cardinality(S) = m + n
  BY <1>12, FS_CountingElements
<1>14. q \in SetToSeqs(S)
  BY <1>9, <1>10, <1>13 DEF SetToSeqs
<1>15. ASSUME NEW i \in DOMAIN q, NEW j \in DOMAIN q, i < j
       PROVE  Parent[q[j]] # q[i] \/ isRoot(q[j])
  <2>1. CASE j \in m + 1 .. m + n
    BY <2>1, <1>7
  <2>2. CASE j \in 1 .. m
    <3>1. i \in 1 .. m
      BY <1>15, <1>7, <2>2
    <3>2. ~isRoot(q[i]) /\ ~isRoot(q[j]) /\ q[j] \in Row
      BY <3>1, <2>2, <1>7
    <3>3. isRoot(Parent[q[j]])
      BY <3>2, CaptureAssumption
    <3> QED
      BY <3>2, <3>3
  <2> QED
    BY <2>1, <2>2, <1>7, <1>8
<1> QED
  BY <1>14, <1>15

(* It is a list of exactly those rows, each child before its parent.       *)
LEMMA ChildrenFirstFacts ==
    ASSUME NEW S \in SUBSET Row
    PROVE  /\ ChildrenFirst(S) \in Seq(S) /\ Range(ChildrenFirst(S)) = S
           /\ \A i, j \in DOMAIN ChildrenFirst(S) : i < j =>
                 \/ Parent[ChildrenFirst(S)[j]] # ChildrenFirst(S)[i]
                 \/ isRoot(ChildrenFirst(S)[j])
PROOF
<1>1. PICK q : /\ q = ChildrenFirst(S) /\ q \in SetToSeqs(S)
               /\ \A i, j \in DOMAIN q : i < j => Parent[q[j]] # q[i] \/ isRoot(q[j])
  BY OrderExists DEF ChildrenFirst
<1>2. IsFiniteSet(S)
  BY CaptureAssumption, FS_Subset
<1>3. PICK n \in Nat : n = Cardinality(S)
  BY <1>2, FS_CardinalityType
<1>4. q \in [1 .. n -> S] /\ \A i, j \in 1 .. n : i # j => q[i] # q[j]
  BY <1>1, <1>3 DEF SetToSeqs
<1>5. q \in Seq(S)
  BY <1>4, SeqDef
<1>6. q \in Injection(1 .. n, S)
  BY <1>4 DEF Injection, IsInjective
<1>7. IsFiniteSet(1 .. n) /\ Cardinality(1 .. n) = n
  BY FS_Interval
<1>8. q \in Surjection(1 .. n, S)
  BY <1>2, <1>3, <1>6, <1>7, FS_Injection
<1>9. Range(q) = S
  BY <1>4, <1>8 DEF Surjection, Range
<1> QED
  BY <1>1, <1>5, <1>9

-----------------------------------------------------------------------------
(* What an action leaves alone                                             *)

LEMMA TypeFacts ==
    ASSUME TypeOK
    PROVE  /\ at \in [Proc -> Callback] /\ row \in [Row -> NONE .. VERSIONS]
           /\ used \subseteq Row /\ log \in Seq(Op) /\ owed \subseteq Row
           /\ \A p \in Proc : at[p] \in Callback /\ subject(p) \in Row
           /\ \A r \in Row : row[r] \in NONE .. VERSIONS
PROOF
<1>1. at \in [Proc -> Callback] /\ row \in [Row -> NONE .. VERSIONS]
  BY DEF TypeOK
<1>2. used \subseteq Row /\ log \in Seq(Op) /\ owed \subseteq Row
  BY DEF TypeOK
<1>3. ASSUME NEW p \in Proc PROVE at[p] \in Callback /\ subject(p) \in Row
  BY <1>1 DEF Callback, subject
<1> QED
  BY <1>1, <1>2, <1>3

(* A step of one process leaves the callbacks of the others alone.         *)
Step(p, cb) ==
    /\ cb \in Callback /\ at'[p] = cb
    /\ at' \in [Proc -> Callback]
    /\ \A q \in Proc \ {p} : at'[q] = at[q]

LEMMA Steps ==
    ASSUME TypeOK, NEW p \in Proc, NEW cb \in Callback, at' = [at EXCEPT ![p] = cb]
    PROVE  Step(p, cb)
BY DEF TypeOK, Step

LEMMA Goes ==
    ASSUME TypeOK, NEW p \in Proc, NEW from,
           NEW to \in {"idle", "write", "look", "delete", "transaction", "snap", "state", "record"},
           Go(p, from, to)
    PROVE  /\ at[p].pc = from /\ at'[p].pc = to
           /\ at'[p].do = at[p].do /\ at'[p].row = at[p].row
           /\ at'[p].snap = at[p].snap /\ at'[p].gone = at[p].gone
           /\ Step(p, at'[p])
PROOF
<1>1. PICK cb : cb = [at[p] EXCEPT !.pc = to]
  OBVIOUS
<1>2. at[p] \in Callback /\ p \in DOMAIN at
  BY TypeFacts
<1>3. /\ cb \in Callback /\ cb.pc = to /\ cb.do = at[p].do /\ cb.row = at[p].row
      /\ cb.snap = at[p].snap /\ cb.gone = at[p].gone
  BY <1>1, <1>2 DEF Callback
<1>4. at' = [at EXCEPT ![p] = cb]
  BY <1>1 DEF Go
<1>5. Step(p, cb)
  BY <1>3, <1>4, Steps
<1>6. at'[p] = cb
  BY <1>5 DEF Step
<1> QED
  BY <1>3, <1>5, <1>6 DEF Go

(* No id comes back: what is gone and was there before stays gone.         *)
NoRebirth ==
    /\ used \subseteq used'
    /\ \A r \in used : row[r] = NONE => row'[r] = NONE

LEMMA OthersKept ==
    ASSUME TypeOK, World, NoRebirth, NEW p \in Proc, NEW cb, Step(p, cb),
           NEW q \in Proc \ {p}, CallbackInv(q)
    PROVE  CallbackInv(q)'
PROOF
<1>1. at'[q] = at[q]
  BY DEF Step
<1>2. subject(q)' = subject(q) /\ at'[q].pc = at[q].pc
  BY <1>1 DEF subject
<1>3. at[q].pc # "idle" => (at[q].pc = "write" /\ does(q, "add")) \/ subject(q) \in used
  BY DEF CallbackInv
<1>4. subject(q) \in used => subject(q) \in used'
  BY DEF NoRebirth
<1>5. subject(q) \in used /\ row[subject(q)] = NONE => row'[subject(q)] = NONE
  BY DEF NoRebirth
<1> QED
  BY <1>1, <1>2, <1>3, <1>4, <1>5 DEF CallbackInv, NoRebirth, does, subject

(* Nothing is taken back of what is recorded.                              *)
Extends == \A n \in DOMAIN log : n \in DOMAIN log' /\ log'[n] = log[n]

LEMMA RecordedKept ==
    ASSUME Extends, NEW r, NEW what, Recorded(r, what)
    PROVE  Recorded(r, what)'
BY DEF Extends, Recorded

(* A row that is written by nobody stays recorded as it is.                *)
LEMMA RowKept ==
    ASSUME Extends, NEW r \in Row, Latest(r), Deleted(r),
           row'[r] = row[r], r \in used' => r \in used, r \in owed => r \in owed',
           \A q \in Proc : row[r] # NONE /\ r \notin owed' /\ Recording(q, r) =>
                              RecordedAsIs(r)' \/ Recording(q, r)',
           \A q \in Proc : r \notin owed' /\ Removing(q, r) => Recorded(r, "delete")' \/ Removing(q, r)'
    PROVE  Latest(r)' /\ Deleted(r)'
PROOF
<1>1. RecordedAsIs(r) => RecordedAsIs(r)'
  BY DEF Extends, RecordedAsIs
<1>2. Removed(r) => Removed(r)'
  BY RecordedKept DEF Removed
<1>3. Latest(r)'
  BY <1>1 DEF Latest
<1>4. Deleted(r)'
  BY <1>2 DEF Deleted, Removed
<1> QED
  BY <1>3, <1>4

(* A process other than the one that steps records what it was about to.   *)
LEMMA OthersRecord ==
    ASSUME NEW p \in Proc, NEW cb, Step(p, cb), NEW q \in Proc \ {p}, NEW r \in Row
    PROVE  /\ row'[r] = row[r] /\ Recording(q, r) => Recording(q, r)'
           /\ Removing(q, r) => Removing(q, r)'
BY DEF Step, Recording, Removing, subject, does

(* What is recorded before its parent stays so.                            *)
LEMMA ParentsKept ==
    ASSUME Extends, ParentsCapturedFirst, orphaned \subseteq orphaned', log \in Seq(Op), log' \in Seq(Op),
           \A n \in DOMAIN log' \ DOMAIN log :
              log'[n].op = "put" /\ log'[n].row \notin orphaned' =>
                 isRoot(log'[n].row) \/ \E m \in 1 .. n - 1 : log'[m].row = Parent[log'[n].row]
    PROVE  ParentsCapturedFirst'
PROOF
<1> SUFFICES ASSUME NEW n \in DOMAIN log', log'[n].op = "put", log'[n].row \notin orphaned',
                    ~isRoot(log'[n].row)
             PROVE  \E m \in 1 .. n - 1 : log'[m].row = Parent[log'[n].row]
  BY DEF ParentsCapturedFirst, isRoot
<1>1. CASE n \in DOMAIN log
  <2>1. log'[n] = log[n]
    BY <1>1 DEF Extends
  <2>2. PICK m \in 1 .. n - 1 : log[m].row = Parent[log[n].row]
    BY <1>1, <2>1 DEF ParentsCapturedFirst
  <2>3. m \in DOMAIN log
    BY <1>1
  <2> QED
    BY <2>1, <2>2, <2>3 DEF Extends
<1> QED
  BY <1>1

(* A process that writes nothing, and owes what it was about to record and *)
(* no longer is.                                                           *)
Quiet(p, cb) ==
    /\ Step(p, cb) /\ UNCHANGED <<tables, log, orphaned>>
    /\ owed \subseteq owed'
    /\ \A r \in Row \ owed' : row[r] # NONE /\ Recording(p, r) => Recording(p, r)'
    /\ \A r \in Row \ owed' : Removing(p, r) => Removing(p, r)'

LEMMA QuietSteps ==
    ASSUME IInv, TypeOK', NEW p \in Proc, NEW cb, Quiet(p, cb), CallbackInv(p)'
    PROVE  IInv'
PROOF
<1>1. row' = row /\ used' = used /\ log' = log /\ orphaned' = orphaned
  BY DEF Quiet, tables
<1>2. Step(p, cb) /\ owed \subseteq owed'
  BY DEF Quiet
<1>3. NoRebirth /\ Extends /\ TypeOK /\ World /\ ParentsCapturedFirst
  BY <1>1 DEF NoRebirth, Extends, IInv
<1>4. World'
  BY <1>1, <1>3 DEF World
<1>5. ASSUME NEW q \in Proc PROVE CallbackInv(q)'
  BY <1>2, <1>3, OthersKept DEF IInv
<1>6. ASSUME NEW r \in Row PROVE Latest(r)' /\ Deleted(r)'
  <2>1. ASSUME NEW q \in Proc, row[r] # NONE, r \notin owed', Recording(q, r) PROVE Recording(q, r)'
    BY <1>1, <1>2, <2>1, OthersRecord DEF Quiet
  <2>2. ASSUME NEW q \in Proc, r \notin owed', Removing(q, r) PROVE Removing(q, r)'
    BY <1>2, <2>2, OthersRecord DEF Quiet
  <2>3. Latest(r) /\ Deleted(r)
    BY DEF IInv
  <2>4. row'[r] = row[r] /\ (r \in used' => r \in used) /\ (r \in owed => r \in owed')
    BY <1>1, <1>2
  <2> QED
    BY <1>3, <2>1, <2>2, <2>3, <2>4, RowKept
<1>7. ParentsCapturedFirst'
  BY <1>1, <1>3 DEF ParentsCapturedFirst
<1> QED
  BY <1>4, <1>5, <1>6, <1>7 DEF IInv

-----------------------------------------------------------------------------
(* The steps that write nothing                                            *)

LEMMA BeginKeeps ==
    ASSUME IInv, NEW p \in Proc, Begin(p)
    PROVE  IInv'
PROOF
<1>0. TypeOK
  BY DEF IInv
<1>1. PICK what \in {"add", "update", "remove", "deleteTask"}, r \in Row :
         /\ r \in used <=> what # "add"
         /\ (what = "remove" => r \notin Task)
         /\ at' = [at EXCEPT ![p] = [pc |-> Start(what), do |-> what, row |-> r,
                                     snap |-> NONE, gone |-> <<>>]]
  BY DEF Begin
<1>2. PICK cb : cb = [pc |-> Start(what), do |-> what, row |-> r, snap |-> NONE, gone |-> <<>>]
  OBVIOUS
<1>3. cb \in Callback
  <2>1. 0 \in 0 .. VERSIONS /\ <<>> \in Seq(Row)
    BY CaptureAssumption
  <2> QED
    BY <1>2, <2>1 DEF Callback, Start, NONE
<1>4. Step(p, cb)
  BY <1>0, <1>1, <1>2, <1>3, Steps
<1>5. at'[p] = cb
  BY <1>4 DEF Step
<1>6. /\ at'[p].pc = Start(what) /\ at'[p].do = what /\ at'[p].row = r
  BY <1>2, <1>5
<1>7. UNCHANGED <<tables, armed, log, busy, crashes, owed, orphaned>> /\ at[p].pc = "idle" /\ ops < OPS
      /\ ops' = ops + 1
  BY DEF Begin
<1>8. TypeOK'
  <2>1. ops' \in 0 .. OPS
    BY <1>0, <1>7, CaptureAssumption DEF TypeOK
  <2> QED
    BY <1>0, <1>4, <1>7, <2>1 DEF TypeOK, Step, tables
<1>9. CallbackInv(p)'
  BY <1>1, <1>6, <1>7 DEF CallbackInv, Start, subject, does, tables
<1>10. Quiet(p, cb)
  BY <1>4, <1>7 DEF Quiet, Recording, Removing
<1> QED
  BY <1>8, <1>9, <1>10, QuietSteps

LEMMA SnapKeeps ==
    ASSUME IInv, NEW p \in Proc, Snap(p)
    PROVE  IInv'
PROOF
<1>0. TypeOK /\ CallbackInv(p) /\ row[subject(p)] \in NONE .. VERSIONS
  BY TypeFacts DEF IInv
<1>1. PICK cb : cb = [at[p] EXCEPT !.pc = IF Found(subject(p)) THEN "state" ELSE "idle",
                                   !.snap = row[subject(p)]]
  OBVIOUS
<1>2. at[p] \in Callback /\ p \in DOMAIN at
  BY <1>0, TypeFacts
<1>3. /\ cb \in Callback /\ cb.pc = IF Found(subject(p)) THEN "state" ELSE "idle"
      /\ cb.do = at[p].do /\ cb.row = at[p].row /\ cb.snap = row[subject(p)]
  BY <1>0, <1>1, <1>2 DEF Callback
<1>4. at' = [at EXCEPT ![p] = cb]
  BY <1>1 DEF Snap
<1>5. Step(p, cb) /\ at'[p] = cb
  BY <1>0, <1>3, <1>4, Steps DEF Step
<1>6. UNCHANGED <<tables, armed, log, bounds, owed, orphaned>> /\ at[p].pc = "snap"
  BY DEF Snap
<1>7. TypeOK'
  BY <1>0, <1>5, <1>6 DEF TypeOK, Step, tables, bounds
<1>8. CallbackInv(p)'
  BY <1>0, <1>3, <1>5, <1>6 DEF CallbackInv, subject, does, tables, Found
<1>9. Quiet(p, cb)
  BY <1>3, <1>5, <1>6 DEF Quiet, Recording, Removing, subject, tables, Found
<1> QED
  BY <1>7, <1>8, <1>9, QuietSteps

LEMMA ReadStateKeeps ==
    ASSUME IInv, NEW p \in Proc, ReadState(p)
    PROVE  IInv'
PROOF
<1>0. TypeOK /\ CallbackInv(p) /\ subject(p) \in Row
  BY TypeFacts DEF IInv
<1>1. PICK to \in {"record", "idle"} : to = IF armed THEN "record" ELSE "idle"
  OBVIOUS
<1>2. Go(p, "state", to) /\ UNCHANGED <<tables, armed, log, bounds, orphaned>>
      /\ owed' = IF armed THEN owed ELSE owed \cup {subject(p)}
  BY <1>1 DEF ReadState
<1>3. /\ at[p].pc = "state" /\ at'[p].pc = to /\ at'[p].do = at[p].do /\ at'[p].row = at[p].row
      /\ at'[p].snap = at[p].snap
      /\ Step(p, at'[p])
  BY <1>0, <1>2, Goes
<1>4. TypeOK'
  BY <1>0, <1>2, <1>3 DEF TypeOK, Step, tables, bounds
<1>5. CallbackInv(p)'
  BY <1>0, <1>1, <1>2, <1>3 DEF CallbackInv, subject, does, tables
<1>6. Quiet(p, at'[p])
  BY <1>1, <1>2, <1>3 DEF Quiet, Recording, Removing, subject, does, tables
<1> QED
  BY <1>4, <1>5, <1>6, QuietSteps

LEMMA LookKeeps ==
    ASSUME IInv, NEW p \in Proc, Look(p)
    PROVE  IInv'
PROOF
<1>0. TypeOK /\ CallbackInv(p) /\ row[subject(p)] \in NONE .. VERSIONS
  BY TypeFacts DEF IInv
<1>1. PICK cb : cb = [at[p] EXCEPT !.pc = "delete", !.snap = row[subject(p)]]
  OBVIOUS
<1>2. at[p] \in Callback /\ p \in DOMAIN at
  BY <1>0, TypeFacts
<1>3. /\ cb \in Callback /\ cb.pc = "delete"
      /\ cb.do = at[p].do /\ cb.row = at[p].row /\ cb.snap = row[subject(p)]
  BY <1>0, <1>1, <1>2 DEF Callback
<1>4. at' = [at EXCEPT ![p] = cb]
  BY <1>1 DEF Look
<1>5. Step(p, cb) /\ at'[p] = cb
  BY <1>0, <1>3, <1>4, Steps DEF Step
<1>6. UNCHANGED <<tables, armed, log, bounds, owed, orphaned>> /\ at[p].pc = "look" /\ does(p, "remove")
  BY DEF Look
<1>7. TypeOK'
  BY <1>0, <1>5, <1>6 DEF TypeOK, Step, tables, bounds
<1>8. CallbackInv(p)'
  BY <1>0, <1>3, <1>5, <1>6 DEF CallbackInv, subject, does, tables
<1>9. Quiet(p, cb)
  BY <1>5, <1>6 DEF Quiet, Recording, Removing
<1> QED
  BY <1>7, <1>8, <1>9, QuietSteps

LEMMA LookUnderKeeps ==
    ASSUME IInv, NEW p \in Proc, LookUnder(p)
    PROVE  IInv'
PROOF
<1>0. TypeOK /\ World /\ CallbackInv(p) /\ subject(p) \in Row
  BY TypeFacts DEF IInv
<1>1. PICK cb : cb = [at[p] EXCEPT !.pc = "transaction", !.gone = cascadeOf(subject(p))]
  OBVIOUS
<1>2. at[p] \in Callback /\ p \in DOMAIN at
  BY <1>0, TypeFacts
<1>3. Under(subject(p)) \in SUBSET Row
  BY DEF Under
<1>4. cascadeOf(subject(p)) \in Seq(Row) /\ Range(cascadeOf(subject(p))) = Under(subject(p))
  BY <1>3, ChildrenFirstFacts, SeqDef DEF cascadeOf
<1>5. /\ cb \in Callback /\ cb.pc = "transaction"
      /\ cb.do = at[p].do /\ cb.row = at[p].row /\ cb.gone = cascadeOf(subject(p))
  BY <1>1, <1>2, <1>4 DEF Callback
<1>6. at' = [at EXCEPT ![p] = cb]
  BY <1>1 DEF LookUnder
<1>7. Step(p, cb) /\ at'[p] = cb
  BY <1>0, <1>5, <1>6, Steps DEF Step
<1>8. UNCHANGED <<tables, armed, log, bounds, owed, orphaned>> /\ at[p].pc = "look"
      /\ does(p, "deleteTask")
  BY DEF LookUnder
<1>9. TypeOK'
  BY <1>0, <1>7, <1>8 DEF TypeOK, Step, tables, bounds
<1>10. CallbackInv(p)'
  <2>1. \A s \in Under(subject(p)) : s \in used /\ Kin(s, subject(p))
    BY <1>0 DEF Under, Kin, World
  <2>2. row[subject(p)] # NONE => subject(p) \in Under(subject(p))
    BY <1>0 DEF Under
  <2>3. row' = row /\ used' = used /\ subject(p)' = subject(p) /\ Range(at'[p].gone) = Under(subject(p))
    BY <1>4, <1>5, <1>7, <1>8 DEF subject, tables
  <2>4. at'[p].pc = "transaction" /\ at'[p].do = "deleteTask" /\ subject(p) \in used
    BY <1>0, <1>5, <1>7, <1>8 DEF does, CallbackInv
  <2> QED
    BY <2>1, <2>2, <2>3, <2>4 DEF CallbackInv, does, Kin
<1>11. Quiet(p, cb)
  BY <1>7, <1>8 DEF Quiet, Recording, Removing
<1> QED
  BY <1>9, <1>10, <1>11, QuietSteps

LEMMA BusyKeeps ==
    ASSUME IInv, NEW p \in Proc, Busy(p)
    PROVE  IInv'
PROOF
<1>0. TypeOK /\ CallbackInv(p) /\ subject(p) \in Row
  BY TypeFacts DEF IInv
<1>1. /\ at[p].pc \in {"write", "delete", "record", "transaction"}
      /\ busy < BUSY /\ busy' = busy + 1
      /\ owed' = IF at[p].pc = "record" THEN owed \cup {subject(p)} ELSE owed
      /\ UNCHANGED <<tables, armed, log, ops, crashes, orphaned>>
  BY DEF Busy
<1>2. at[p] \in Callback /\ p \in DOMAIN at
  BY <1>0, TypeFacts
<1>3. busy' \in 0 .. BUSY
  BY <1>0, <1>1, CaptureAssumption DEF TypeOK
<1>4. ASSUME NEW cb, Step(p, cb), CallbackInv(p)'
      PROVE  IInv'
  <2>1. TypeOK'
    BY <1>0, <1>1, <1>3, <1>4 DEF TypeOK, Step, tables
  <2>2. Quiet(p, cb)
    BY <1>1, <1>4 DEF Quiet, Recording, Removing, subject
  <2> QED
    BY <1>4, <2>1, <2>2, QuietSteps
<1>5. CASE at' = [at EXCEPT ![p].pc = "idle"]
  <2>1. Go(p, at[p].pc, "idle")
    BY <1>5 DEF Go
  <2>2. Step(p, at'[p]) /\ at'[p].pc = "idle"
    BY <1>0, <2>1, Goes
  <2>3. CallbackInv(p)'
    BY <2>2 DEF CallbackInv
  <2> QED
    BY <1>4, <2>2, <2>3
<1>6. ASSUME NEW r \in IF does(p, "add") THEN Fresh(subject(p)) ELSE {subject(p)},
             at' = [at EXCEPT ![p].pc = Start(at[p].do), ![p].row = r]
      PROVE  IInv'
  <2>1. PICK cb : cb = [at[p] EXCEPT !.pc = Start(at[p].do), !.row = r]
    OBVIOUS
  <2>2. r \in Row /\ (~does(p, "add") => r = subject(p))
    BY <1>0, <1>6 DEF Fresh
  <2>3. /\ cb \in Callback /\ cb.pc = Start(at[p].do) /\ cb.do = at[p].do /\ cb.row = r
    BY <1>2, <2>1, <2>2 DEF Callback, Start
  <2>4. at' = [at EXCEPT ![p] = cb]
    BY <1>6, <2>1
  <2>5. Step(p, cb) /\ at'[p] = cb
    BY <1>0, <2>3, <2>4, Steps DEF Step
  <2>6. CallbackInv(p)'
    <3>1. used' = used /\ row' = row /\ at[p].do \in {"add", "update", "remove", "deleteTask"}
      BY <1>1, <1>2 DEF tables, Callback
    <3>2. at[p].pc # "idle" /\ (~does(p, "add") => subject(p) \in used)
      BY <1>0, <1>1 DEF CallbackInv
    <3>3. does(p, "remove") => subject(p) \notin Task
      BY <1>0, <1>1 DEF CallbackInv
    <3> QED
      BY <2>2, <2>3, <2>5, <3>1, <3>2, <3>3 DEF CallbackInv, Start, subject, does
  <2> QED
    BY <1>4, <2>5, <2>6
<1> QED
  BY <1>5, <1>6 DEF Busy

LEMMA CrashKeeps ==
    ASSUME IInv, NEW p \in Proc, Crash(p)
    PROVE  IInv'
PROOF
<1>0. TypeOK /\ subject(p) \in Row
  BY TypeFacts DEF IInv
<1>1. /\ crashes < CRASHES /\ crashes' = crashes + 1 /\ at' = [at EXCEPT ![p].pc = "idle"]
      /\ owed' = IF Capturing(p, subject(p)) THEN owed \cup {subject(p)} ELSE owed
      /\ UNCHANGED <<tables, armed, log, ops, busy, orphaned>>
  BY DEF Crash
<1>2. Go(p, at[p].pc, "idle")
  BY <1>1 DEF Go
<1>3. Step(p, at'[p]) /\ at'[p].pc = "idle"
  BY <1>0, <1>2, Goes
<1>4. crashes' \in 0 .. CRASHES
  BY <1>0, <1>1, CaptureAssumption DEF TypeOK
<1>5. TypeOK'
  BY <1>0, <1>1, <1>3, <1>4 DEF TypeOK, Step, tables
<1>6. CallbackInv(p)'
  BY <1>3 DEF CallbackInv
<1>7. Quiet(p, at'[p])
  BY <1>1, <1>3 DEF Quiet, Recording, Removing, Capturing
<1> QED
  BY <1>5, <1>6, <1>7, QuietSteps

LEMMA ArmKeeps ==
    ASSUME IInv, Arm
    PROVE  IInv'
PROOF
<1>1. row' = row /\ used' = used /\ log' = log /\ at' = at /\ owed' = owed /\ orphaned' = orphaned
  BY DEF Arm, tables
<1>2. TypeOK'
  BY <1>1 DEF IInv, TypeOK, Arm, bounds
<1>3. World' /\ ParentsCapturedFirst'
  BY <1>1 DEF IInv, World, ParentsCapturedFirst
<1>4. ASSUME NEW p \in Proc PROVE CallbackInv(p)'
  BY <1>1 DEF IInv, CallbackInv, subject, does
<1>5. ASSUME NEW r \in Row PROVE Latest(r)' /\ Deleted(r)'
  <2>1. Latest(r) /\ Deleted(r)
    BY DEF IInv
  <2>2. Extends
    BY <1>1 DEF Extends
  <2>3. \A q \in Proc : (Recording(q, r) => Recording(q, r)') /\ (Removing(q, r) => Removing(q, r)')
    BY <1>1 DEF Recording, Removing, subject, does
  <2> QED
    BY <1>1, <2>1, <2>2, <2>3, RowKept
<1> QED
  BY <1>2, <1>3, <1>4, <1>5 DEF IInv

-----------------------------------------------------------------------------
(* The steps that write a row                                              *)

LEMMA InsertKeeps ==
    ASSUME IInv, NEW p \in Proc, Insert(p)
    PROVE  IInv'
PROOF
<1>0. TypeOK /\ World /\ CallbackInv(p) /\ subject(p) \in Row /\ subject(p) \notin used
  BY TypeFacts DEF IInv, Insert
<1>1. UNCHANGED <<armed, log, bounds, owed, orphaned>> /\ does(p, "add")
  BY DEF Insert
<1>2. Extends /\ ParentsCapturedFirst /\ owed' = owed /\ log' = log
  BY <1>1 DEF Extends, IInv
<1>3. CASE isRoot(subject(p)) \/ row[Parent[subject(p)]] # NONE
  <2>1. /\ Go(p, "write", "snap")
        /\ row' = [row EXCEPT ![subject(p)] = 1] /\ used' = used \cup {subject(p)}
    BY <1>3 DEF Insert
  <2>2. /\ at[p].pc = "write" /\ at'[p].pc = "snap" /\ at'[p].do = at[p].do
        /\ at'[p].row = at[p].row /\ Step(p, at'[p])
    BY <1>0, <2>1, Goes
  <2>3. 1 \in NONE .. VERSIONS /\ row \in [Row -> NONE .. VERSIONS] /\ used \subseteq Row
    BY <1>0, CaptureAssumption, TypeFacts DEF NONE
  <2>4. /\ row'[subject(p)] = 1 /\ \A r \in Row \ {subject(p)} : row'[r] = row[r]
        /\ row' \in [Row -> NONE .. VERSIONS] /\ used' \subseteq Row
    BY <1>0, <2>1, <2>3
  <2>5. TypeOK'
    BY <1>0, <1>1, <2>2, <2>4 DEF TypeOK, Step, bounds
  <2>6. NoRebirth
    BY <1>0, <2>1, <2>3, <2>4 DEF NoRebirth
  <2>7. World'
    <3>1. \A r \in Row : Parent[r] \in Row
      BY CaptureAssumption
    <3>2. \A r \in Row : row'[r] # NONE => r \in used' /\ row'[Parent[r]] # NONE
      BY <1>0, <1>3, <2>1, <2>4, <3>1 DEF World, NONE, isRoot
    <3>3. \A r \in used' : Parent[r] \in used'
      BY <1>0, <1>3, <2>1, <3>1 DEF World, NONE, isRoot
    <3>4. \A n \in DOMAIN log' : log'[n].row \in used'
      BY <1>0, <1>2, <2>1 DEF World
    <3> QED
      BY <3>2, <3>3, <3>4 DEF World
  <2>8. CallbackInv(p)'
    BY <1>0, <1>1, <2>1, <2>2 DEF CallbackInv, subject, does
  <2>9. ASSUME NEW q \in Proc PROVE CallbackInv(q)'
    BY <1>0, <2>2, <2>6, <2>8, OthersKept DEF IInv
  <2>10. ASSUME NEW r \in Row PROVE Latest(r)' /\ Deleted(r)'
    <3>1. CASE r = subject(p)
      <4>1. Recording(p, r)' /\ row'[r] # NONE
        BY <2>2, <2>4, <3>1 DEF Recording, subject, NONE
      <4> QED
        BY <4>1 DEF Latest, Deleted
    <3>2. CASE r # subject(p)
      <4>1. row'[r] = row[r] /\ (r \in used' => r \in used)
        BY <2>1, <2>4, <3>2
      <4>2. ~Recording(p, r) /\ ~Removing(p, r)
        BY <3>2 DEF Recording, Removing
      <4>3. ASSUME NEW q \in Proc
            PROVE  /\ Recording(q, r) => Recording(q, r)'
                   /\ Removing(q, r) => Removing(q, r)'
        BY <2>2, <4>1, <4>2, OthersRecord
      <4>4. Latest(r) /\ Deleted(r)
        BY DEF IInv
      <4> QED
        BY <1>2, <4>1, <4>3, <4>4, RowKept
    <3> QED
      BY <3>1, <3>2
  <2>11. ParentsCapturedFirst'
    BY <1>1, <1>2 DEF ParentsCapturedFirst
  <2> QED
    BY <2>5, <2>7, <2>9, <2>10, <2>11 DEF IInv
<1>4. CASE ~(isRoot(subject(p)) \/ row[Parent[subject(p)]] # NONE)
  <2>1. Go(p, "write", "idle") /\ UNCHANGED tables
    BY <1>4 DEF Insert
  <2>2. at[p].pc = "write" /\ at'[p].pc = "idle" /\ Step(p, at'[p])
    BY <1>0, <2>1, Goes
  <2>3. TypeOK'
    BY <1>0, <1>1, <2>1, <2>2 DEF TypeOK, Step, tables, bounds
  <2>4. CallbackInv(p)'
    BY <2>2 DEF CallbackInv
  <2>5. Quiet(p, at'[p])
    BY <1>1, <2>1, <2>2 DEF Quiet, Recording, Removing
  <2> QED
    BY <2>3, <2>4, <2>5, QuietSteps
<1> QED
  BY <1>3, <1>4

LEMMA UpdateKeeps ==
    ASSUME IInv, NEW p \in Proc, Update(p)
    PROVE  IInv'
PROOF
<1>0. TypeOK /\ World /\ CallbackInv(p) /\ subject(p) \in Row
  BY TypeFacts DEF IInv
<1>1. /\ does(p, "update") /\ Go(p, "write", "snap") /\ row[subject(p)] < VERSIONS
      /\ row' = [row EXCEPT ![subject(p)] = IF @ = NONE THEN NONE ELSE @ + 1]
      /\ UNCHANGED <<used, armed, log, bounds, owed, orphaned>>
  BY DEF Update
<1>2. /\ at[p].pc = "write" /\ at'[p].pc = "snap" /\ at'[p].do = at[p].do
      /\ at'[p].row = at[p].row /\ Step(p, at'[p])
  BY <1>0, <1>1, Goes
<1>3. row \in [Row -> NONE .. VERSIONS] /\ row[subject(p)] \in NONE .. VERSIONS
  BY <1>0, TypeFacts
<1>4. /\ \A r \in Row \ {subject(p)} : row'[r] = row[r]
      /\ row'[subject(p)] = IF row[subject(p)] = NONE THEN NONE ELSE row[subject(p)] + 1
  BY <1>0, <1>1, <1>3
<1>5. row' \in [Row -> NONE .. VERSIONS]
  <2>1. (IF row[subject(p)] = NONE THEN NONE ELSE row[subject(p)] + 1) \in NONE .. VERSIONS
    BY <1>1, <1>3, CaptureAssumption DEF NONE
  <2> QED
    BY <1>1, <1>3, <2>1
<1>6. \A r \in Row : row'[r] # NONE <=> row[r] # NONE
  BY <1>0, <1>3, <1>4, CaptureAssumption DEF NONE
<1>7. TypeOK'
  BY <1>0, <1>1, <1>2, <1>5 DEF TypeOK, Step, bounds
<1>8. NoRebirth
  BY <1>0, <1>1, <1>6, TypeFacts DEF NoRebirth
<1>9. World'
  <2>1. \A r \in Row : Parent[r] \in Row
    BY CaptureAssumption
  <2> QED
    BY <1>0, <1>1, <1>6, <2>1 DEF World
<1>10. CallbackInv(p)'
  BY <1>0, <1>1, <1>2 DEF CallbackInv, subject, does
<1>11. ASSUME NEW q \in Proc PROVE CallbackInv(q)'
  BY <1>0, <1>2, <1>8, <1>10, OthersKept DEF IInv
<1>12. ASSUME NEW r \in Row PROVE Latest(r)' /\ Deleted(r)'
  <2>1. Latest(r) /\ Deleted(r) /\ Extends
    BY <1>1 DEF IInv, Extends
  <2>2. CASE r = subject(p)
    <3>1. Recording(p, r)'
      BY <1>2, <2>2 DEF Recording, subject
    <3>2. ASSUME NEW q \in Proc, Removing(q, r) PROVE Removing(q, r)'
      BY <1>2, <3>2, OthersRecord DEF Removing
    <3>3. Deleted(r)'
      <4>1. Removed(r) => Removed(r)'
        BY <2>1, RecordedKept DEF Removed
      <4> QED
        BY <1>1, <1>6, <2>1, <3>2, <4>1 DEF Deleted
    <3> QED
      BY <3>1, <3>3 DEF Latest
  <2>3. CASE r # subject(p)
    <3>1. row'[r] = row[r]
      BY <1>4, <2>3
    <3>2. ~Recording(p, r) /\ ~Removing(p, r)
      BY <2>3 DEF Recording, Removing
    <3>3. ASSUME NEW q \in Proc
          PROVE  /\ Recording(q, r) => Recording(q, r)'
                 /\ Removing(q, r) => Removing(q, r)'
      BY <1>2, <3>1, <3>2, OthersRecord
    <3> QED
      BY <1>1, <2>1, <3>1, <3>3, RowKept
  <2> QED
    BY <2>2, <2>3
<1>13. ParentsCapturedFirst'
  BY <1>1 DEF IInv, ParentsCapturedFirst
<1> QED
  BY <1>7, <1>9, <1>11, <1>12, <1>13 DEF IInv

LEMMA DeleteKeeps ==
    ASSUME IInv, NEW p \in Proc, Delete(p)
    PROVE  IInv'
PROOF
<1>0. TypeOK /\ World /\ CallbackInv(p) /\ subject(p) \in Row
  BY TypeFacts DEF IInv
<1>1. PICK to \in {"idle", "state"} : to = IF at[p].snap = NONE THEN "idle" ELSE "state"
  OBVIOUS
<1>2. /\ Go(p, "delete", to) /\ row' = [row EXCEPT ![subject(p)] = NONE]
      /\ UNCHANGED <<used, armed, log, bounds, owed, orphaned>>
  BY <1>1 DEF Delete
<1>3. /\ at[p].pc = "delete" /\ at'[p].pc = to /\ at'[p].do = at[p].do
      /\ at'[p].row = at[p].row /\ at'[p].snap = at[p].snap /\ Step(p, at'[p])
  BY <1>0, <1>2, Goes
<1>4. NONE \in NONE .. VERSIONS /\ row \in [Row -> NONE .. VERSIONS]
  BY <1>0, CaptureAssumption, TypeFacts DEF NONE
<1>5. /\ row'[subject(p)] = NONE /\ \A r \in Row \ {subject(p)} : row'[r] = row[r]
      /\ row' \in [Row -> NONE .. VERSIONS]
  BY <1>0, <1>2, <1>4
<1>6. does(p, "remove") /\ subject(p) \in used /\ subject(p) \notin Task
      /\ (at[p].snap = NONE => row[subject(p)] = NONE)
  BY <1>0, <1>3 DEF CallbackInv, does
<1>7. TypeOK'
  BY <1>0, <1>2, <1>3, <1>5 DEF TypeOK, Step, bounds
<1>8. NoRebirth
  BY <1>0, <1>2, <1>5, TypeFacts DEF NoRebirth
<1>9. World'
  <2>1. \A r \in Row : Parent[r] \in Task /\ Parent[r] \in Row
    BY CaptureAssumption
  <2>2. \A r \in Row : row'[r] # NONE => row[r] # NONE /\ row'[Parent[r]] # NONE
    BY <1>0, <1>5, <1>6, <2>1 DEF World
  <2> QED
    BY <1>0, <1>2, <2>2 DEF World
<1>10. CallbackInv(p)'
  BY <1>1, <1>2, <1>3, <1>5, <1>6 DEF CallbackInv, subject, does
<1>11. ASSUME NEW q \in Proc PROVE CallbackInv(q)'
  BY <1>0, <1>3, <1>8, <1>10, OthersKept DEF IInv
<1>12. ASSUME NEW r \in Row PROVE Latest(r)' /\ Deleted(r)'
  <2>1. Latest(r) /\ Deleted(r) /\ Extends
    BY <1>2 DEF IInv, Extends
  <2>2. CASE r = subject(p)
    <3>1. Latest(r)'
      BY <1>5, <2>2 DEF Latest
    <3>2. CASE to = "state"
      <4>1. Removing(p, r)'
        BY <1>3, <1>6, <2>2, <3>2 DEF Removing, subject, does
      <4> QED
        BY <3>1, <4>1 DEF Deleted
    <3>3. CASE to = "idle"
      <4>1. row'[r] = row[r]
        BY <1>1, <1>5, <1>6, <2>2, <3>3
      <4>2. ~Recording(p, r) /\ ~Removing(p, r)
        BY <1>3 DEF Recording, Removing
      <4>3. ASSUME NEW q \in Proc
            PROVE  /\ Recording(q, r) => Recording(q, r)'
                   /\ Removing(q, r) => Removing(q, r)'
        BY <1>3, <4>1, <4>2, OthersRecord
      <4> QED
        BY <1>2, <2>1, <4>1, <4>3, RowKept
    <3> QED
      BY <1>1, <3>2, <3>3
  <2>3. CASE r # subject(p)
    <3>1. row'[r] = row[r]
      BY <1>5, <2>3
    <3>2. ~Recording(p, r) /\ ~Removing(p, r)
      BY <2>3 DEF Recording, Removing
    <3>3. ASSUME NEW q \in Proc
          PROVE  /\ Recording(q, r) => Recording(q, r)'
                 /\ Removing(q, r) => Removing(q, r)'
      BY <1>3, <3>1, <3>2, OthersRecord
    <3> QED
      BY <1>2, <2>1, <3>1, <3>3, RowKept
  <2> QED
    BY <2>2, <2>3
<1>13. ParentsCapturedFirst'
  BY <1>2 DEF IInv, ParentsCapturedFirst
<1> QED
  BY <1>7, <1>9, <1>11, <1>12, <1>13 DEF IInv

-----------------------------------------------------------------------------
(* The steps that record                                                   *)

(* What is recorded comes after all there was.                             *)
Records(new) ==
    /\ Extends /\ log' \in Seq(Op)
    /\ \A n \in DOMAIN log' \ DOMAIN log :
          n \in Nat /\ n > Len(log) /\ n - Len(log) \in DOMAIN new /\ log'[n] = new[n - Len(log)]
    /\ \A i \in DOMAIN new : Len(log) + i \in DOMAIN log' /\ log'[Len(log) + i] = new[i]

LEMMA Recordings ==
    ASSUME TypeOK, NEW new \in Seq(Op), log' = log \o new
    PROVE  Records(new)
PROOF
<1>1. log \in Seq(Op) /\ Len(log) \in Nat /\ Len(new) \in Nat
  BY DEF TypeOK
<1>2. DOMAIN log = 1 .. Len(log) /\ DOMAIN new = 1 .. Len(new)
  BY <1>1
<1>3. /\ log' \in Seq(Op) /\ DOMAIN log' = 1 .. Len(log) + Len(new)
      /\ \A i \in 1 .. Len(log) + Len(new) :
            log'[i] = IF i <= Len(log) THEN log[i] ELSE new[i - Len(log)]
  BY <1>1, ConcatProperties
<1>4. Extends
  BY <1>1, <1>2, <1>3 DEF Extends
<1>5. \A n \in DOMAIN log' \ DOMAIN log :
         n \in Nat /\ n > Len(log) /\ n - Len(log) \in DOMAIN new /\ log'[n] = new[n - Len(log)]
  BY <1>1, <1>2, <1>3
<1>6. ASSUME NEW i \in DOMAIN new
      PROVE  Len(log) + i \in DOMAIN log' /\ log'[Len(log) + i] = new[i]
  <2>1. Len(log) + i \in 1 .. Len(log) + Len(new) /\ ~(Len(log) + i <= Len(log))
        /\ Len(log) + i - Len(log) = i
    BY <1>1, <1>2
  <2> QED
    BY <1>3, <2>1
<1> QED
  BY <1>3, <1>4, <1>5, <1>6 DEF Records

(* Something is recorded of what a row nobody is about to record hangs     *)
(* off: as it is, or as deleted, and that is about it or what it hung off, *)
(* which is itself.                                                        *)
LEMMA ParentRecorded ==
    ASSUME IInv, NEW r \in Row, r \in used, ~isRoot(r),
           Parent[r] \notin owed, ~InFlight(Parent[r])
    PROVE  \E m \in DOMAIN log : log[m].row = Parent[r]
PROOF
<1>1. Parent[r] \in Row /\ Parent[r] \in used /\ Parent[Parent[r]] = Parent[r]
  BY CaptureAssumption DEF IInv, World, isRoot
<1>2. Latest(Parent[r]) /\ Deleted(Parent[r])
  BY <1>1 DEF IInv
<1>3. \A q \in Proc : ~Recording(q, Parent[r]) /\ ~Removing(q, Parent[r])
  BY DEF InFlight, Capturing, Recording, Removing
<1>4. CASE row[Parent[r]] # NONE
  BY <1>2, <1>3, <1>4 DEF Latest, RecordedAsIs
<1>5. CASE row[Parent[r]] = NONE
  BY <1>1, <1>2, <1>3, <1>5 DEF Deleted, Removed, Recorded
<1> QED
  BY <1>4, <1>5

LEMMA RecordKeeps ==
    ASSUME IInv, NEW p \in Proc, Record(p)
    PROVE  IInv'
PROOF
<1>0. TypeOK /\ World /\ CallbackInv(p) /\ subject(p) \in Row /\ at[p] \in Callback
  BY TypeFacts DEF IInv
<1>1. PICK e : e = [row |-> subject(p), op |-> IF does(p, "remove") THEN "delete" ELSE "put",
                    version |-> at[p].snap, by |-> "capture"]
  OBVIOUS
<1>2. /\ Go(p, "record", "idle") /\ log' = Append(log, e)
      /\ owed' = IF does(p, "remove") \/ at[p].snap = row[subject(p)]
                 THEN owed \ {subject(p)} ELSE owed
      /\ UNCHANGED <<tables, armed, bounds>>
  BY <1>1 DEF Record
<1>3. orphaned' = IF ~isRoot(subject(p)) /\ (Parent[subject(p)] \in owed \/ InFlight(Parent[subject(p)]))
                  THEN orphaned \cup {subject(p)} ELSE orphaned
  BY DEF Record
<1>4. at[p].pc = "record" /\ at'[p].pc = "idle" /\ Step(p, at'[p])
  BY <1>0, <1>2, Goes
<1>5. row' = row /\ used' = used
  BY <1>2 DEF tables
<1>6. /\ subject(p) \in used /\ at[p].snap # NONE
      /\ (does(p, "remove") => row[subject(p)] = NONE)
  BY <1>0, <1>4 DEF CallbackInv
<1>7. e \in Op
  <2>1. at[p].snap \in 1 .. VERSIONS
    BY <1>0, <1>6, CaptureAssumption DEF Callback, NONE
  <2> QED
    BY <1>0, <1>1, <2>1 DEF Op
<1>8. log' = log \o <<e>> /\ <<e>> \in Seq(Op) /\ DOMAIN <<e>> = {1} /\ <<e>>[1] = e
  BY <1>0, <1>2, <1>7, AppendIsConcat DEF TypeOK
<1>9. Records(<<e>>)
  BY <1>0, <1>8, Recordings
<1>10. Extends /\ log' \in Seq(Op) /\ \A n \in DOMAIN log' \ DOMAIN log : log'[n] = e /\ n - 1 = Len(log)
  BY <1>0, <1>8, <1>9 DEF Records, TypeOK
<1>11. PICK new \in DOMAIN log' : log'[new] = e
  BY <1>8, <1>9 DEF Records
<1>12. TypeOK'
  <2>1. owed' \subseteq Row /\ orphaned' \subseteq Row
    BY <1>0, <1>2, <1>3 DEF TypeOK
  <2> QED
    BY <1>0, <1>2, <1>4, <1>5, <1>10, <2>1 DEF TypeOK, Step, bounds
<1>13. World'
  <2>1. e.row \in used
    BY <1>1, <1>6
  <2>2. \A n \in DOMAIN log' : log'[n].row \in used
    BY <1>0, <1>10, <2>1 DEF World, Extends
  <2> QED
    BY <1>0, <1>5, <2>2 DEF World
<1>14. NoRebirth
  BY <1>5 DEF NoRebirth
<1>15. CallbackInv(p)'
  BY <1>4 DEF CallbackInv
<1>16. ASSUME NEW q \in Proc PROVE CallbackInv(q)'
  BY <1>0, <1>4, <1>14, <1>15, OthersKept DEF IInv
<1>17. ASSUME NEW r \in Row PROVE Latest(r)' /\ Deleted(r)'
  <2>1. Latest(r) /\ Deleted(r)
    BY DEF IInv
  <2>2. row'[r] = row[r] /\ (r \in used' => r \in used)
    BY <1>5
  <2>3. CASE r = subject(p) /\ does(p, "remove")
    <3>1. Recorded(r, "delete")'
      BY <1>1, <1>11, <2>3 DEF Recorded
    <3>2. row'[r] = NONE
      BY <1>5, <1>6, <2>3
    <3> QED
      BY <3>1, <3>2 DEF Latest, Deleted, Removed
  <2>4. CASE r = subject(p) /\ ~does(p, "remove") /\ at[p].snap = row[r]
    <3>1. RecordedAsIs(r)' /\ row'[r] # NONE
      BY <1>1, <1>5, <1>6, <1>11, <2>4 DEF RecordedAsIs
    <3> QED
      BY <3>1 DEF Latest, Deleted
  <2>5. CASE r # subject(p) \/ (~does(p, "remove") /\ at[p].snap # row[r])
    <3>1. ~Recording(p, r) /\ ~Removing(p, r)
      BY <1>4, <2>5 DEF Recording, Removing
    <3>2. r \in owed => r \in owed'
      BY <1>2, <2>5
    <3>3. ASSUME NEW q \in Proc
          PROVE  /\ Recording(q, r) => Recording(q, r)'
                 /\ Removing(q, r) => Removing(q, r)'
      BY <1>4, <2>2, <3>1, OthersRecord
    <3> QED
      BY <1>10, <2>1, <2>2, <3>2, <3>3, RowKept
  <2> QED
    BY <2>3, <2>4, <2>5
<1>18. ParentsCapturedFirst'
  <2>1. ASSUME NEW n \in DOMAIN log' \ DOMAIN log, log'[n].row \notin orphaned', ~isRoot(log'[n].row)
        PROVE  \E m \in 1 .. n - 1 : log'[m].row = Parent[log'[n].row]
    <3>1. log'[n].row = subject(p)
      BY <1>1, <1>10
    <3>2. Parent[subject(p)] \notin owed /\ ~InFlight(Parent[subject(p)])
      BY <1>3, <2>1, <3>1
    <3>3. PICK m \in DOMAIN log : log[m].row = Parent[subject(p)]
      BY <1>0, <1>6, <2>1, <3>1, <3>2, ParentRecorded
    <3>4. m \in 1 .. n - 1 /\ log'[m] = log[m]
      BY <1>0, <1>10, <3>3 DEF Extends, TypeOK
    <3> QED
      BY <3>1, <3>3, <3>4
  <2>2. orphaned \subseteq orphaned' /\ log \in Seq(Op) /\ ParentsCapturedFirst
    BY <1>0, <1>3 DEF IInv, TypeOK
  <2> QED
    BY <1>10, <2>1, <2>2, ParentsKept
<1> QED
  BY <1>12, <1>13, <1>16, <1>17, <1>18 DEF IInv

LEMMA DeleteTaskKeeps ==
    ASSUME IInv, NEW p \in Proc, DeleteTask(p)
    PROVE  IInv'
PROOF
<1>0. TypeOK /\ World /\ CallbackInv(p) /\ subject(p) \in Row /\ at[p] \in Callback
  BY TypeFacts DEF IInv
<1> DEFINE t == subject(p)
           gone == at[p].gone
           U == Under(t)
<1>1. PICK new : new = [n \in DOMAIN gone |-> [row |-> gone[n], op |-> "delete", version |-> 1,
                                                 by |-> "capture"]]
  OBVIOUS
<1>2. /\ Go(p, "transaction", "idle") /\ UNCHANGED <<used, armed, bounds, orphaned>>
      /\ row' = [r \in Row |-> IF r \in U THEN NONE ELSE row[r]]
  BY DEF DeleteTask
<1>3. IF armed THEN log' = log \o new /\ owed' = owed \ Range(gone)
               ELSE log' = log /\ owed' = owed \cup U
  BY <1>1 DEF DeleteTask
<1>4. at[p].pc = "transaction" /\ at'[p].pc = "idle" /\ Step(p, at'[p])
  BY <1>0, <1>2, Goes
<1>5. /\ \A s \in Range(gone) : s \in used /\ Kin(s, t)
      /\ row[t] # NONE => t \in Range(gone)
  BY <1>0, <1>4 DEF CallbackInv
<1>6. /\ U \subseteq Row /\ \A r \in Row : r \in U <=> row[r] # NONE /\ Kin(r, t)
  BY DEF Under, Kin
<1>7. /\ \A r \in U : row'[r] = NONE
      /\ \A r \in Row \ U : row'[r] = row[r]
  BY <1>2, <1>6
<1>8. /\ row' \in [Row -> NONE .. VERSIONS]
      /\ \A r \in Row : row'[r] # NONE => row[r] # NONE
  <2>1. \A r \in Row : row[r] \in NONE .. VERSIONS /\ NONE \in NONE .. VERSIONS
    BY <1>0, TypeFacts, CaptureAssumption DEF NONE
  <2> QED
    BY <1>2, <2>1
<1>9. gone \in Seq(Row) /\ DOMAIN gone = 1 .. Len(gone) /\ Len(gone) \in Nat
  BY <1>0 DEF Callback
<1>10. new \in Seq(Op) /\ DOMAIN new = DOMAIN gone
  <2>1. \A n \in DOMAIN gone : gone[n] \in Row /\ new[n] \in Op
    BY <1>1, <1>9, CaptureAssumption DEF Op
  <2>2. new \in [1 .. Len(gone) -> Op]
    BY <1>1, <1>9, <2>1
  <2> QED
    BY <1>9, <2>2, SeqDef
<1>11. armed => Records(new)
  BY <1>0, <1>3, <1>10, Recordings
<1>12. Extends /\ log' \in Seq(Op)
  BY <1>0, <1>3, <1>11 DEF Records, Extends, TypeOK
<1>13. \A n \in DOMAIN log' \ DOMAIN log : log'[n].op = "delete" /\ log'[n].row \in Range(gone)
  <2>1. \A n \in DOMAIN new : new[n].op = "delete" /\ new[n].row \in Range(gone)
    BY <1>1, <1>10 DEF Range
  <2> QED
    BY <1>3, <1>11, <2>1 DEF Records
<1>14. armed => \A r \in Range(gone) : Recorded(r, "delete")'
  <2> SUFFICES ASSUME armed, NEW r \in Range(gone) PROVE Recorded(r, "delete")'
    OBVIOUS
  <2>1. PICK i \in DOMAIN gone : gone[i] = r
    BY DEF Range
  <2>2. new[i].row = r /\ new[i].op = "delete" /\ i \in DOMAIN new
    BY <1>1, <2>1
  <2> QED
    BY <1>11, <2>2 DEF Records, Recorded
<1>15. TypeOK'
  <2>1. owed' \subseteq Row
    BY <1>0, <1>3, <1>6 DEF TypeOK
  <2> QED
    BY <1>0, <1>2, <1>4, <1>8, <1>12, <2>1 DEF TypeOK, Step, bounds
<1>16. World'
  <2>1. ASSUME NEW r \in Row, row'[r] # NONE PROVE row'[Parent[r]] # NONE
    <3>1. r \notin U /\ row[r] # NONE /\ row[Parent[r]] # NONE /\ ~Kin(r, t)
      BY <1>0, <1>6, <1>7, <1>8, <2>1 DEF World
    <3>2. Parent[r] \in Row /\ (isRoot(r) \/ isRoot(Parent[r]))
      BY CaptureAssumption
    <3>3. ~Kin(Parent[r], t)
      BY <3>1, <3>2 DEF Kin, isRoot
    <3> QED
      BY <1>6, <1>7, <3>1, <3>2, <3>3
  <2>2. \A n \in DOMAIN log' : log'[n].row \in used'
    BY <1>0, <1>2, <1>5, <1>12, <1>13 DEF World, Extends
  <2> QED
    BY <1>0, <1>2, <1>8, <2>1, <2>2 DEF World
<1>17. NoRebirth
  BY <1>0, <1>2, <1>8, TypeFacts DEF NoRebirth
<1>18. CallbackInv(p)'
  BY <1>4 DEF CallbackInv
<1>19. ASSUME NEW q \in Proc PROVE CallbackInv(q)'
  BY <1>0, <1>4, <1>17, <1>18, OthersKept DEF IInv
<1>20. ASSUME NEW r \in Row PROVE Latest(r)' /\ Deleted(r)'
  <2>1. Latest(r) /\ Deleted(r) /\ ~Recording(p, r) /\ ~Removing(p, r)
    BY <1>4 DEF IInv, Recording, Removing
  <2>2. CASE ~armed /\ r \in U
    <3>1. r \in owed'
      BY <1>3, <2>2
    <3> QED
      BY <3>1 DEF Latest, Deleted
  <2>3. CASE armed /\ r \in Range(gone)
    <3>1. Kin(r, t) /\ row'[r] = NONE
      BY <1>5, <1>6, <1>7, <2>3
    <3> QED
      BY <1>14, <2>3, <3>1 DEF Latest, Deleted, Removed
  <2>4. CASE armed /\ r \in U /\ r \notin Range(gone)
    <3>1. row[r] # NONE /\ Kin(r, t) /\ row'[r] = NONE
      BY <1>6, <1>7, <2>4
    <3>2. row[t] # NONE
      BY <1>0, <3>1 DEF Kin, World
    <3>3. t \in Range(gone) /\ Parent[r] = t
      BY <1>5, <2>4, <3>1, <3>2 DEF Kin
    <3>4. Recorded(Parent[r], "delete")'
      BY <1>14, <2>4, <3>3
    <3> QED
      BY <3>1, <3>4 DEF Latest, Deleted, Removed
  <2>5. CASE r \notin U /\ (armed => r \notin Range(gone))
    <3>1. row'[r] = row[r] /\ (r \in used' => r \in used) /\ (r \in owed => r \in owed')
      BY <1>2, <1>3, <1>7, <2>5
    <3>2. ASSUME NEW q \in Proc
          PROVE  /\ Recording(q, r) => Recording(q, r)'
                 /\ Removing(q, r) => Removing(q, r)'
      BY <1>4, <2>1, <3>1, OthersRecord
    <3> QED
      BY <1>12, <2>1, <3>1, <3>2, RowKept
  <2> QED
    BY <2>2, <2>3, <2>4, <2>5
<1>21. ParentsCapturedFirst'
  <2>1. orphaned' = orphaned /\ log \in Seq(Op) /\ ParentsCapturedFirst
    BY <1>0, <1>2 DEF IInv, TypeOK
  <2> QED
    BY <1>12, <1>13, <2>1, ParentsKept
<1> QED
  BY <1>15, <1>16, <1>19, <1>20, <1>21 DEF IInv

(* A list of rows read backwards, so parents come first.                   *)
LEMMA OrderFacts ==
    ASSUME NEW S \in SUBSET Row
    PROVE  /\ order(S) \in Seq(S) /\ Range(order(S)) = S
           /\ \A n \in DOMAIN order(S) : ~isRoot(order(S)[n]) /\ Parent[order(S)[n]] \in S =>
                 \E m \in 1 .. n - 1 : order(S)[m] = Parent[order(S)[n]]
PROOF
<1>1. PICK q : q = ChildrenFirst(S)
  OBVIOUS
<1>2. /\ q \in Seq(S) /\ Range(q) = S
      /\ \A i, j \in DOMAIN q : i < j => Parent[q[j]] # q[i] \/ isRoot(q[j])
  BY <1>1, ChildrenFirstFacts
<1>3. PICK k \in Nat : k = Len(q)
  BY <1>2
<1>4. PICK o : o = order(S)
  OBVIOUS
<1>5. o = [i \in 1 .. k |-> q[k - i + 1]]
  BY <1>1, <1>3, <1>4 DEF order, Reverse
<1>6. DOMAIN q = 1 .. k /\ \A i \in 1 .. k : q[i] \in S
  BY <1>2, <1>3
<1>7. \A i \in 1 .. k : k - i + 1 \in 1 .. k /\ o[i] = q[k - i + 1] /\ k - (k - i + 1) + 1 = i
  BY <1>5
<1>8. o \in [1 .. k -> S]
  BY <1>5, <1>6, <1>7
<1>9. o \in Seq(S) /\ DOMAIN o = 1 .. k
  BY <1>8, SeqDef
<1>10. \A i \in 1 .. k : q[i] = o[k - i + 1]
  BY <1>7
<1>11. Range(o) = S
  <2>1. ASSUME NEW r \in S PROVE \E i \in 1 .. k : o[i] = r
    <3>1. PICK i \in 1 .. k : q[i] = r
      BY <1>2, <1>6 DEF Range
    <3> QED
      BY <1>7, <1>10, <3>1
  <2> QED
    BY <1>8, <1>9, <2>1 DEF Range
<1>12. ASSUME NEW n \in 1 .. k, ~isRoot(o[n]), Parent[o[n]] \in S
       PROVE  \E m \in 1 .. n - 1 : o[m] = Parent[o[n]]
  <2>1. PICK m \in 1 .. k : o[m] = Parent[o[n]]
    BY <1>9, <1>11, <1>12 DEF Range
  <2>2. m # n
    BY <1>12, <2>1 DEF isRoot
  <2>3. ~(k - m + 1 < k - n + 1)
    BY <1>2, <1>6, <1>7, <1>12, <2>1
  <2>4. m \in 1 .. n - 1
    BY <2>2, <2>3
  <2> QED
    BY <2>1, <2>4
<1> QED
  BY <1>4, <1>9, <1>11, <1>12

LEMMA BackfillKeeps ==
    ASSUME IInv, Backfill
    PROVE  IInv'
PROOF
<1>0. TypeOK /\ World /\ ParentsCapturedFirst
  BY DEF IInv
<1>1. PICK missing : missing = {r \in Row : /\ row[r] # NONE
                                            /\ \A n \in DOMAIN log : ~sameId(log[n], backfillOp(r))}
  OBVIOUS
<1>2. PICK rows : rows = order(missing)
  OBVIOUS
<1>3. PICK new : new = [n \in DOMAIN rows |-> backfillOp(rows[n])]
  OBVIOUS
<1>4. /\ log' = log \o new /\ owed' = {r \in owed : row[r] = NONE}
      /\ UNCHANGED <<tables, armed, at, bounds, orphaned>>
  BY <1>1, <1>2, <1>3 DEF Backfill
<1>5. row' = row /\ used' = used /\ at' = at /\ orphaned' = orphaned
  BY <1>4 DEF tables
<1>6. missing \in SUBSET Row /\ \A r \in missing : row[r] # NONE /\ r \in used
  BY <1>0, <1>1 DEF World
<1>7. /\ rows \in Seq(missing) /\ Range(rows) = missing
      /\ \A n \in DOMAIN rows : ~isRoot(rows[n]) /\ Parent[rows[n]] \in missing =>
            \E m \in 1 .. n - 1 : rows[m] = Parent[rows[n]]
  BY <1>2, <1>6, OrderFacts
<1>8. /\ DOMAIN rows = 1 .. Len(rows) /\ Len(rows) \in Nat
      /\ \A n \in DOMAIN rows : rows[n] \in missing
  BY <1>7
<1>9. \A r \in missing : backfillOp(r) \in Op
  BY <1>0, <1>6, TypeFacts, CaptureAssumption DEF backfillOp, Op, NONE
<1>10. /\ new \in Seq(Op) /\ DOMAIN new = DOMAIN rows
       /\ \A n \in DOMAIN rows : new[n] = backfillOp(rows[n])
  <2>1. new \in [1 .. Len(rows) -> Op]
    BY <1>3, <1>8, <1>9
  <2> QED
    BY <1>3, <1>8, <2>1, SeqDef
<1>11. Records(new)
  BY <1>0, <1>4, <1>10, Recordings
<1>12. Extends /\ log' \in Seq(Op)
  BY <1>11 DEF Records
<1>13. \A n \in DOMAIN log' \ DOMAIN log :
          /\ n - Len(log) \in DOMAIN rows /\ n \in Nat /\ n > Len(log)
          /\ log'[n] = backfillOp(rows[n - Len(log)])
  BY <1>10, <1>11 DEF Records
<1>14. TypeOK'
  BY <1>0, <1>4, <1>5, <1>12 DEF TypeOK, bounds
<1>15. World'
  <2>1. \A n \in DOMAIN log' : log'[n].row \in used
    BY <1>0, <1>6, <1>8, <1>12, <1>13 DEF World, Extends, backfillOp
  <2> QED
    BY <1>0, <1>5, <2>1 DEF World
<1>16. ASSUME NEW p \in Proc PROVE CallbackInv(p)'
  BY <1>5 DEF IInv, CallbackInv, subject, does
<1>17. \A q \in Proc, r \in Row : /\ Recording(q, r) => Recording(q, r)'
                                  /\ Removing(q, r) => Removing(q, r)'
  BY <1>5 DEF Recording, Removing, subject, does
<1>18. ASSUME NEW r \in Row PROVE Latest(r)' /\ Deleted(r)'
  <2>1. Latest(r) /\ Deleted(r)
    BY DEF IInv
  <2>2. CASE r \in missing
    <3>1. PICK i \in DOMAIN rows : rows[i] = r
      BY <1>7, <2>2 DEF Range
    <3>2. Len(log) + i \in DOMAIN log' /\ log'[Len(log) + i] = backfillOp(r)
      BY <1>10, <1>11, <3>1 DEF Records
    <3>3. RecordedAsIs(r)' /\ row'[r] # NONE
      BY <1>5, <1>6, <2>2, <3>2 DEF RecordedAsIs, backfillOp
    <3> QED
      BY <3>3 DEF Latest, Deleted
  <2>3. CASE r \notin missing /\ row[r] # NONE
    <3>1. PICK n \in DOMAIN log : log[n] = backfillOp(r)
      BY <1>1, <2>3 DEF sameId, backfillOp
    <3>2. RecordedAsIs(r)' /\ row'[r] # NONE
      BY <1>5, <1>12, <2>3, <3>1 DEF RecordedAsIs, backfillOp, Extends
    <3> QED
      BY <3>2 DEF Latest, Deleted
  <2>4. CASE row[r] = NONE
    <3>1. r \in owed => r \in owed'
      BY <1>4, <2>4
    <3> QED
      BY <1>5, <1>12, <1>17, <2>1, <3>1, RowKept
  <2> QED
    BY <2>2, <2>3, <2>4
<1>19. ParentsCapturedFirst'
  <2>1. ASSUME NEW n \in DOMAIN log' \ DOMAIN log, ~isRoot(log'[n].row)
        PROVE  \E m \in 1 .. n - 1 : log'[m].row = Parent[log'[n].row]
    <3>1. PICK i \in DOMAIN rows : i = n - Len(log) /\ log'[n] = backfillOp(rows[i])
      BY <1>13
    <3>2. log'[n].row = rows[i] /\ rows[i] \in missing /\ rows[i] \in Row
      BY <1>6, <1>8, <3>1 DEF backfillOp
    <3>3. Len(log) \in Nat /\ DOMAIN log = 1 .. Len(log) /\ n \in Nat /\ n > Len(log)
      BY <1>0, <1>13 DEF TypeOK
    <3>4. CASE Parent[rows[i]] \in missing
      <4>1. PICK m \in 1 .. i - 1 : rows[m] = Parent[rows[i]]
        BY <1>7, <2>1, <3>2, <3>4
      <4>2. m \in DOMAIN rows /\ Len(log) + m \in 1 .. n - 1
        BY <1>8, <3>1, <3>3
      <4>3. log'[Len(log) + m] = backfillOp(rows[m])
        BY <1>10, <1>11, <4>2 DEF Records
      <4> QED
        BY <3>2, <4>1, <4>2, <4>3 DEF backfillOp
    <3>5. CASE Parent[rows[i]] \notin missing
      <4>1. Parent[rows[i]] \in Row /\ row[Parent[rows[i]]] # NONE
        BY <1>0, <1>6, <3>2, CaptureAssumption DEF World
      <4>2. PICK m \in DOMAIN log : log[m] = backfillOp(Parent[rows[i]])
        BY <1>1, <3>5, <4>1 DEF sameId, backfillOp
      <4>3. m \in 1 .. n - 1 /\ log'[m] = log[m]
        BY <1>12, <3>3, <4>2 DEF Extends
      <4> QED
        BY <3>2, <4>2, <4>3 DEF backfillOp
    <3> QED
      BY <3>4, <3>5
  <2>2. orphaned' = orphaned /\ log \in Seq(Op)
    BY <1>0, <1>5 DEF TypeOK
  <2> QED
    BY <1>0, <1>12, <2>1, <2>2, ParentsKept
<1> QED
  BY <1>14, <1>15, <1>16, <1>18, <1>19 DEF IInv

-----------------------------------------------------------------------------
(* The theorems                                                            *)

LEMMA Initially == Init => IInv
PROOF
<1> SUFFICES ASSUME Init PROVE IInv
  OBVIOUS
<1>1. TypeOK
  <2>1. row \in [Row -> NONE .. VERSIONS]
    BY CaptureAssumption DEF Init, NONE
  <2>2. used \subseteq Row /\ owed \subseteq Row /\ orphaned \subseteq Row /\ armed \in BOOLEAN
    BY CaptureAssumption DEF Init
  <2>3. log \in Seq(Op)
    BY DEF Init
  <2>4. at \in [Proc -> Callback]
    <3>1. (CHOOSE r \in Row : TRUE) \in Row /\ 0 \in 0 .. VERSIONS /\ <<>> \in Seq(Row)
      BY CaptureAssumption
    <3>2. [pc |-> "idle", do |-> "add", row |-> CHOOSE r \in Row : TRUE,
           snap |-> NONE, gone |-> <<>>] \in Callback
      BY <3>1 DEF Callback, NONE
    <3> QED
      BY <3>2 DEF Init
  <2>5. ops \in 0 .. OPS /\ busy \in 0 .. BUSY /\ crashes \in 0 .. CRASHES
    BY CaptureAssumption DEF Init
  <2> QED
    BY <2>1, <2>2, <2>3, <2>4, <2>5 DEF TypeOK
<1>2. World
  BY CaptureAssumption DEF Init, World, NONE
<1>3. \A p \in Proc : CallbackInv(p)
  BY DEF Init, CallbackInv
<1>4. \A r \in Row : Latest(r) /\ Deleted(r)
  BY DEF Init, Latest, Deleted, NONE
<1>5. ParentsCapturedFirst
  BY DEF Init, ParentsCapturedFirst
<1> QED
  BY <1>1, <1>2, <1>3, <1>4, <1>5 DEF IInv

LEMMA Stepwise == IInv /\ [Next]_vars => IInv'
PROOF
<1> SUFFICES ASSUME IInv, [Next]_vars PROVE IInv'
  OBVIOUS
<1>1. ASSUME NEW p \in Proc, Begin(p) \/ Snap(p) \/ ReadState(p) \/ Look(p) \/ LookUnder(p)
      PROVE  IInv'
  BY <1>1, BeginKeeps, SnapKeeps, ReadStateKeeps, LookKeeps, LookUnderKeeps
<1>2. ASSUME NEW p \in Proc, Busy(p) \/ Crash(p)
      PROVE  IInv'
  BY <1>2, BusyKeeps, CrashKeeps
<1>3. ASSUME NEW p \in Proc, Insert(p) \/ Update(p) \/ Delete(p)
      PROVE  IInv'
  BY <1>3, InsertKeeps, UpdateKeeps, DeleteKeeps
<1>4. ASSUME NEW p \in Proc, Record(p) \/ DeleteTask(p)
      PROVE  IInv'
  BY <1>4, RecordKeeps, DeleteTaskKeeps
<1>5. CASE Arm \/ Backfill
  BY <1>5, ArmKeeps, BackfillKeeps
<1>6. CASE UNCHANGED vars
  <2>1. /\ row' = row /\ used' = used /\ armed' = armed /\ log' = log /\ at' = at /\ ops' = ops
        /\ busy' = busy /\ crashes' = crashes /\ owed' = owed /\ orphaned' = orphaned
    BY <1>6 DEF vars, tables, bounds
  <2>2. TypeOK' /\ World' /\ ParentsCapturedFirst'
    BY <2>1 DEF IInv, TypeOK, World, ParentsCapturedFirst
  <2>3. \A p \in Proc : CallbackInv(p)'
    BY <2>1 DEF IInv, CallbackInv, subject, does
  <2>4. ASSUME NEW r \in Row PROVE Latest(r)' /\ Deleted(r)'
    <3>1. Latest(r) /\ Deleted(r) /\ Extends
      BY <2>1 DEF IInv, Extends
    <3>2. \A q \in Proc : (Recording(q, r) => Recording(q, r)') /\ (Removing(q, r) => Removing(q, r)')
      BY <2>1 DEF Recording, Removing, subject, does
    <3> QED
      BY <2>1, <3>1, <3>2, RowKept
  <2> QED
    BY <2>2, <2>3, <2>4 DEF IInv
<1> QED
  BY <1>1, <1>2, <1>3, <1>4, <1>5, <1>6 DEF Next

(* What each callback has behind it, and what is recorded or about to be   *)
(* of every row, hold through every interleaving of the writes, arming,    *)
(* backfills, locked statements and deaths.                                *)
THEOREM Invariance == Spec => []IInv
BY Initially, Stepwise, PTL DEF Spec

(* The state of captureRow, withDb and the cascade has its types.          *)
THEOREM TypeCorrect == Spec => []TypeOK
PROOF
<1>1. IInv => TypeOK
  BY DEF IInv
<1> QED
  BY <1>1, Invariance, PTL

(* A row of an armed device that nobody owes or is about to record is in   *)
(* the sync_oplog as the tables have it: captureRow reads the row after    *)
(* its statement, and the writer whose statement was last reads it as it   *)
(* is.                                                                     *)
THEOREM LatestIsCaptured == Spec => []LatestCaptured
PROOF
<1>1. IInv => LatestCaptured
  <2> SUFFICES ASSUME IInv, NEW r \in Row, row[r] # NONE, r \notin owed, ~InFlight(r)
               PROVE  RecordedAsIs(r)
    BY DEF LatestCaptured, RecordedAsIs
  <2>1. Latest(r)
    BY DEF IInv
  <2>2. \A p \in Proc : ~Recording(p, r)
    BY DEF InFlight, Capturing, Recording
  <2> QED
    BY <2>1, <2>2 DEF Latest
<1> QED
  BY <1>1, Invariance, PTL

(* A row the sync_oplog has and the tables lost is recorded as deleted, or *)
(* its task is: also one added under a task between the reading of its     *)
(* cascade and the transaction that deletes it.                            *)
THEOREM DeletionsAreCaptured == Spec => []DeletedCaptured
PROOF
<1>1. IInv => DeletedCaptured
  <2> SUFFICES ASSUME IInv, NEW r \in Row, row[r] = NONE, r \notin owed, ~InFlight(r),
                      Recorded(r, "put")
               PROVE  Removed(r)
    BY DEF DeletedCaptured, Removed
  <2>1. Deleted(r) /\ r \in used
    BY DEF IInv, World, Recorded
  <2>2. \A p \in Proc : ~Removing(p, r)
    BY DEF InFlight, Capturing, Removing
  <2> QED
    BY <2>1, <2>2 DEF Deleted
<1> QED
  BY <1>1, Invariance, PTL

(* No captureRow and no backfill records a row before anything is recorded *)
(* of its task, unless the task's own record was owed or under way then.   *)
THEOREM ParentsComeFirst == Spec => []ParentsCapturedFirst
PROOF
<1>1. IInv => ParentsCapturedFirst
  BY DEF IInv
<1> QED
  BY <1>1, Invariance, PTL

=============================================================================
