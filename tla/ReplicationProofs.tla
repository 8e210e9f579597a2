------------------------- MODULE ReplicationProofs -------------------------
(***************************************************************************)
(* What the resolver's rules guarantee for any ops and rows; and, for any  *)
(* devices, rows and numbers of ops, that the database's constraints hold  *)
(* in every state a page or a write leaves, and that a task's latest edit  *)
(* survives on every device.                                               *)
(***************************************************************************)
EXTENDS Replication, SequenceTheorems, FiniteSetTheorems, WellFoundedInduction, TLAPS

-----------------------------------------------------------------------------
(* THE RESOLVER                                                            *)

Side == [clock : Int, id : Int, version : Int, actor : Int, device : Int]

(* What the capturing device holds of the row it has just written.         *)
Written(op) == Content(op)

Write == [dev : Int, row : Int, clock : Int, version : Int, actor : Int, label : Int, val : Int]

-----------------------------------------------------------------------------
(* The tie-break chain is a strict order: no two sides beat each other...  *)
THEOREM BeatsAsymmetric ==
    ASSUME NEW a \in Side, NEW b \in Side, Beats(a, b)
    PROVE  ~Beats(b, a)
  BY DEF Beats, Side

(* ... what beats the winner beats the loser ...                           *)
THEOREM BeatsTransitive ==
    ASSUME NEW a \in Side, NEW b \in Side, NEW c \in Side, Beats(a, b), Beats(b, c)
    PROVE  Beats(a, c)
  BY DEF Beats, Side

(* ... and of sides on different devices, one beats the other.             *)
THEOREM BeatsTotal ==
    ASSUME NEW a \in Side, NEW b \in Side, a.device # b.device
    PROVE  Beats(a, b) \/ Beats(b, a)
  BY DEF Beats, Side

(* Two devices that wrote the same row and exchange the writes pick one    *)
(* winner, from opposite directions, even in the same millisecond: just    *)
(* one of them takes the other's write (resolve.ts, localDeviceId).        *)
THEOREM TwoWritersPickOneWinner ==
    ASSUME NEW a \in Write, NEW b \in Write, a.row = b.row, a.dev # b.dev
    PROVE  IncomingWins(b, Written(a), a.dev) <=> ~IncomingWins(a, Written(b), b.dev)
  <1>1. SideOf(a) \in Side /\ SideOf(b) \in Side
    BY DEF SideOf, Side, Write
  <1>2. /\ HeldSide(b.row, Written(a), a.dev) = SideOf(a)
        /\ HeldSide(a.row, Written(b), b.dev) = SideOf(b)
    BY DEF HeldSide, Written, Content, SideOf
  <1>3. SideOf(a).device # SideOf(b).device
    BY DEF SideOf
  <1>4. Beats(SideOf(b), SideOf(a)) <=> ~Beats(SideOf(a), SideOf(b))
    BY <1>1, <1>3, BeatsAsymmetric, BeatsTotal
  <1> QED
    BY <1>2, <1>4 DEF IncomingWins

(* A write that was applied loses to its own second delivery: a page that  *)
(* is read again does not rewrite the row it left, unless the write came   *)
(* from a device ordered before the one that holds the row.                *)
THEOREM RedeliveryStands ==
    ASSUME NEW op \in Write, NEW me \in Int, me <= op.dev
    PROVE  ~IncomingWins(op, Written(op), me)
  BY DEF IncomingWins, Beats, SideOf, HeldSide, Written, Content, Write

(* Applying a write raises the row's version or leaves it, and what is     *)
(* applied is the write's own content.                                     *)
THEOREM WithVersionNeverLowers ==
    ASSUME NEW op \in Write, NEW row \in [clock : Int, version : Int, actor : Int, label : Int, val : Int]
    PROVE  /\ WithVersion(op, row).version >= row.version
           /\ WithVersion(op, row).version >= op.version
           /\ WithVersion(op, row).val = op.val /\ WithVersion(op, row).clock = op.clock
  BY DEF WithVersion, Content, Write

(* Two devices that wrote a row each for one natural key and exchange the  *)
(* writes keep the row of the lower id, and with one and the same content  *)
(* (resolve.ts, resolveNaturalKeyLww).                                     *)
THEOREM TwoKeyedRowsBecomeOne ==
    ASSUME NEW a \in Write, NEW b \in Write, a.row # b.row, a.dev # b.dev
    PROVE  /\ Survivor(b, a.row) = Survivor(a, b.row)
           /\ Merged(b, a.row, Written(a), a.dev).clock
                = Merged(a, b.row, Written(b), b.dev).clock
           /\ Merged(b, a.row, Written(a), a.dev).val
                = Merged(a, b.row, Written(b), b.dev).val
  <1>1. SideOf(a) \in Side /\ SideOf(b) \in Side
    BY DEF SideOf, Side, Write
  <1>2. /\ HeldSide(a.row, Written(a), a.dev) = SideOf(a)
        /\ HeldSide(b.row, Written(b), b.dev) = SideOf(b)
    BY DEF HeldSide, Written, Content, SideOf
  <1>3. SideOf(a).device # SideOf(b).device
    BY DEF SideOf
  <1>4. Beats(SideOf(b), SideOf(a)) <=> ~Beats(SideOf(a), SideOf(b))
    BY <1>1, <1>3, BeatsAsymmetric, BeatsTotal
  <1>5. Survivor(b, a.row) = Survivor(a, b.row)
    BY DEF Survivor, Write
  <1>6. /\ WithVersion(a, Written(b)).clock = Written(a).clock
        /\ WithVersion(a, Written(b)).val = Written(a).val
        /\ WithVersion(b, Written(a)).clock = Written(b).clock
        /\ WithVersion(b, Written(a)).val = Written(b).val
    BY DEF WithVersion, Written, Content
  <1> QED
    BY <1>2, <1>4, <1>5, <1>6 DEF Merged

-----------------------------------------------------------------------------
(* THE DEVICES                                                             *)

(* The inductive invariant.                                                *)

(* What is held by a device, a page or a state: no row without its parent, *)
(* one row per key, one task per label, under a bound of the labels.       *)
Held == [Row -> RowState \cup {Absent}]
Rooted(p, held) ==
    \A r \in Row : held[r] # Absent /\ p.parent[r] # NoParent => held[p.parent[r]] # Absent
Keyed(p, held) ==
    \A r, s \in Row :
        held[r] # Absent /\ held[s] # Absent /\ p.key[r] # 0 /\ p.key[r] = p.key[s] => r = s
Labels(p, held) ==
    \A r, s \in Row :
        /\ held[r] # Absent /\ held[s] # Absent
        /\ p.table[r] = "task" /\ p.table[s] = "task" /\ held[r].label = held[s].label
        => r = s
Issued(p, held, top, labels) ==
    \A r \in Row : held[r] # Absent /\ p.table[r] = "task" =>
        held[r].label <= top \/ held[r].label \in labels
Sound(p, held, top, labels) ==
    Rooted(p, held) /\ Keyed(p, held) /\ Labels(p, held) /\ Issued(p, held, top, labels)

(* An op is captured by a clock that has passed, of a row that was born; a *)
(* write carries what a row can be, and a delete is of a deleted row.      *)
Captured(op) ==
    /\ op \in Op /\ op.clock \in 1 .. now /\ op.row \in born
    /\ op.kind = "write" => op.version # 0 /\ op.val # 0
    /\ op.kind = "delete" => op.row \in deleted
Ops ==
    /\ \A i \in DOMAIN log : Captured(log[i])
    /\ \A d \in Device : \A i \in DOMAIN outbox[d] :
          Captured(outbox[d][i]) /\ outbox[d][i].dev = d

(* A write of a row is in the log, or on its way there.                    *)
WriteOf(op, r) == op.row = r /\ op.kind = "write"
InLog(r, n) == \E j \in DOMAIN log : j < n /\ WriteOf(log[j], r)
InOutbox(d, r, n) == \E j \in DOMAIN outbox[d] : j < n /\ WriteOf(outbox[d][j], r)
Recorded(d, r) ==
    \/ \E j \in DOMAIN log : WriteOf(log[j], r)
    \/ \E j \in DOMAIN outbox[d] : WriteOf(outbox[d][j], r)

(* A write of a row comes after one of its parent.                         *)
ParentsFirst ==
    /\ \A i \in DOMAIN log :
          log[i].kind = "write" /\ Parent(log[i].row) # NoParent => InLog(Parent(log[i].row), i)
    /\ \A d \in Device : \A i \in DOMAIN outbox[d] :
          outbox[d][i].kind = "write" /\ Parent(outbox[d][i].row) # NoParent =>
             \/ \E j \in DOMAIN log : WriteOf(log[j], Parent(outbox[d][i].row))
             \/ InOutbox(d, Parent(outbox[d][i].row), i)

(* A write of a task that nothing deletes: no parent of it was deleted,    *)
(* and every delete of the task itself is earlier.                         *)
Sent(op) ==
    \/ \E j \in DOMAIN log : log[j] = op
    \/ \E d \in Device : \E j \in DOMAIN outbox[d] : outbox[d][j] = op
Deletes(op, w) == op.kind = "delete" /\ op.row = w.row
Lasting(w) ==
    /\ w.row \in Tasks /\ w.kind = "write"
    /\ \A s \in deleted : w.row \in Under(s) => s = w.row
    /\ \A op \in Op : Sent(op) /\ Deletes(op, w) => op.clock < w.clock

(* What d knows when it has applied the log up to n: that, and its own.    *)
Knows(d, n, w) ==
    \/ \E j \in DOMAIN log : (j <= n \/ log[j].dev = d) /\ log[j] = w
    \/ \E j \in DOMAIN outbox[d] : outbox[d][j] = w
Survives(d, n, held) == \A w \in Op : Knows(d, n, w) /\ Lasting(w) => held[w.row].clock >= w.clock

(* What d may hold then.                                                   *)
NoneAfter(held, n) == \A r \in Row : held[r].clock <= n
Fit(d, n, held, top) ==
    /\ held \in Held /\ top \in Nat /\ Sound(plan, held, top, {})
    /\ \A r \in Row : held[r] # Absent => r \in born /\ Recorded(d, r)
    /\ NoneAfter(held, now)
    /\ Survives(d, n, held)
DeviceInv(d) == \A n \in {applied[d]}, held \in {rows[d]}, top \in {counter[d]} : Fit(d, n, held, top)

IInv == TypeOK /\ Ops /\ ParentsFirst /\ \A d \in Device : DeviceInv(d)

-----------------------------------------------------------------------------

(* Sets of naturals, and lists of rows.                                    *)

(* A set of naturals has a least one.                                      *)
LEMMA Least ==
    ASSUME NEW S \in SUBSET Nat, S # {}
    PROVE  \E m \in S : \A k \in S : m <= k
PROOF
<1>1. PICK m \in S : \A k \in S : ~(<<k, m>> \in OpToRel(<, Nat))
  BY NatLessThanWellFounded, WFMin
<1>2. \A k \in S : k \in Nat /\ ~(k < m)
  BY <1>1 DEF OpToRel
<1> QED
  BY <1>2

(* A finite set of naturals has a bound.                                   *)
LEMMA FiniteIsBounded ==
    ASSUME NEW S \in SUBSET Nat, IsFiniteSet(S)
    PROVE  \E b \in Nat : \A m \in S : m <= b
PROOF
<1>1. PICK n \in Nat : ExistsBijection(1 .. n, S)
  BY FS_NatBijection
<1>2. PICK f \in [1 .. n -> S] : \A m \in S : \E i \in 1 .. n : f[i] = m
  BY <1>1 DEF ExistsBijection, Bijection, Surjection
<1> DEFINE Bad == {k \in 0 .. n : \A b \in Nat : \E i \in 1 .. k : f[i] > b}
<1>3. Bad = {}
  <2>1. SUFFICES ASSUME Bad # {} PROVE FALSE
    OBVIOUS
  <2>a. Bad \in SUBSET Nat
    OBVIOUS
  <2> HIDE DEF Bad
  <2>2. PICK k \in Bad : \A j \in Bad : k <= j
    BY <2>1, <2>a, Least
  <2> USE DEF Bad
  <2>3. k \in 1 .. n
    <3>1. CASE k = 0
      BY <3>1, <2>2
    <3> QED
      BY <3>1
  <2>4. k \in Nat /\ k - 1 \in 0 .. n /\ ~(k <= k - 1) /\ 1 .. k - 1 \subseteq 1 .. n
    BY <2>3
  <2>b. k - 1 \notin Bad
    <3> HIDE DEF Bad
    <3> QED
      BY <2>2, <2>4
  <2>c. PICK b \in Nat : \A i \in 1 .. k - 1 : ~(f[i] > b)
    BY <2>4, <2>b
  <2>d. \A i \in 1 .. n : f[i] \in Nat
    BY <1>2
  <2>5. \A i \in 1 .. k - 1 : f[i] <= b
    BY <2>c, <2>d, <2>4
  <2>6. f[k] \in Nat
    BY <2>3, <1>2
  <2>7. PICK c \in Nat : c >= b /\ c >= f[k]
    <3>1. CASE b >= f[k]
      BY <2>6, <3>1
    <3>2. CASE f[k] >= b
      BY <2>6, <3>2
    <3> QED
      BY <2>6, <3>1, <3>2
  <2>8. \A i \in 1 .. k : f[i] \in Nat /\ f[i] <= c
    <3> SUFFICES ASSUME NEW i \in 1 .. k PROVE f[i] \in Nat /\ f[i] <= c
      OBVIOUS
    <3>1. f[i] \in Nat
      BY <2>3, <2>d
    <3>2. CASE i = k
      BY <3>2, <2>7, <3>1
    <3>3. CASE i # k
      BY <3>3, <2>5, <2>7, <2>3, <3>1
    <3> QED
      BY <3>2, <3>3
  <2> QED
    BY <2>2, <2>8
<1>4. n \notin Bad
  BY <1>3
<1>5. PICK b \in Nat : \A i \in 1 .. n : ~(f[i] > b)
  BY <1>4
<1>6. \A m \in S : m \in Nat /\ m <= b
  BY <1>2, <1>5
<1> QED
  BY <1>6

(* The highest of some labels is one of them, or 0.                        *)
LEMMA HighestFacts ==
    ASSUME NEW S \in SUBSET Nat, IsFiniteSet(S)
    PROVE  /\ Highest(S) \in Nat
           /\ \A m \in S : m <= Highest(S)
PROOF
<1>1. PICK b \in Nat : \A m \in S : m <= b
  BY FiniteIsBounded
<1> DEFINE T == S \cup {0}
           Gaps == {b - m : m \in T}
<1>2. T \subseteq Nat /\ \A m \in T : m <= b /\ b - m \in Nat
  BY <1>1
<1>3. Gaps \in SUBSET Nat /\ Gaps # {}
  BY <1>2
<1>4. PICK g \in Gaps : \A k \in Gaps : g <= k
  BY <1>3, Least
<1>5. PICK n \in T : g = b - n
  BY <1>4
<1>6. \A m \in T : m \in Nat /\ b - n <= b - m
  BY <1>2, <1>4, <1>5
<1>7. \A m \in S : m <= n
  BY <1>6, <1>5, <1>2
<1>8. Highest(S) \in S \cup {0} /\ \A m \in S : m <= Highest(S)
  BY <1>5, <1>7 DEF Highest
<1>9. S \cup {0} \subseteq Nat
  OBVIOUS
<1> QED
  BY <1>8, <1>9

(* Any rows can be listed by descending id.                                *)
LEMMA OrderExists ==
    ASSUME NEW n \in Nat, NEW S \in SUBSET Row, Cardinality(S) = n
    PROVE  \E q \in SetToSeqs(S) : \A i, j \in DOMAIN q : i < j => q[i] > q[j]
PROOF
<1> DEFINE Ordered(X, k, q) ==
              /\ q \in [1 .. k -> X]
              /\ \A i, j \in 1 .. k : i # j => q[i] # q[j]
              /\ \A i, j \in 1 .. k : i < j => q[i] > q[j]
           Bad == {k \in Nat : \E X \in SUBSET Row : Cardinality(X) = k /\ ~\E q : Ordered(X, k, q)}
<1>1. Row \subseteq Nat /\ \A X \in SUBSET Row : IsFiniteSet(X)
  BY ReplicationAssumption, FS_Subset
<1>2. Bad = {}
  <2>1. SUFFICES ASSUME Bad # {} PROVE FALSE
    OBVIOUS
  <2> HIDE DEF Ordered
  <2>a. Bad \in SUBSET Nat
    OBVIOUS
  <2> HIDE DEF Bad
  <2>2. PICK k \in Bad : \A j \in Bad : k <= j
    BY <2>1, <2>a, Least
  <2> USE DEF Bad
  <2>3. PICK X \in SUBSET Row : Cardinality(X) = k /\ ~\E q : Ordered(X, k, q)
    BY <2>2
  <2>4. k # 0
    <3> SUFFICES ASSUME k = 0 PROVE FALSE
      OBVIOUS
    <3>1. Ordered(X, k, [i \in 1 .. 0 |-> 0])
      BY DEF Ordered
    <3> QED
      BY <3>1, <2>3
  <2>5. X # {}
    BY <2>3, <2>4, FS_EmptySet
  <2>6. PICK m \in X : \A x \in X : m <= x
    BY <2>5, <1>1, Least
  <2>7. Cardinality(X \ {m}) = k - 1 /\ k - 1 \in Nat
    BY <1>1, <2>2, <2>3, <2>4, FS_RemoveElement
  <2>8. k - 1 \notin Bad
    BY <2>2, <2>7
  <2>9. PICK q : Ordered(X \ {m}, k - 1, q)
    BY <2>7, <2>8
  <2>10. PICK p : p = [i \in 1 .. k |-> IF i = k THEN m ELSE q[i]]
    OBVIOUS
  <2>b. X \subseteq Nat /\ m \in Nat
    BY <1>1, <2>6
  <2>c. \A x \in X \ {m} : x > m
    BY <2>b, <2>6
  <2>d. q \in [1 .. k - 1 -> X \ {m}]
    BY <2>9 DEF Ordered
  <2>11. \A i \in 1 .. k - 1 : q[i] \in X \ {m} /\ q[i] > m
    BY <2>c, <2>d
  <2>12. p \in [1 .. k -> X]
    BY <2>10, <2>d, <2>6, <2>7
  <2>13. \A i, j \in 1 .. k : i < j => p[i] > p[j]
    BY <2>9, <2>10, <2>11, <2>7 DEF Ordered
  <2>14. \A i, j \in 1 .. k : i # j => p[i] # p[j]
    <3> SUFFICES ASSUME NEW i \in 1 .. k, NEW j \in 1 .. k, i # j PROVE p[i] # p[j]
      OBVIOUS
    <3>1. p[i] \in Nat /\ p[j] \in Nat
      BY <2>12, <2>b
    <3>2. i < j \/ j < i
      BY <2>2
    <3> QED
      BY <3>1, <3>2, <2>13
  <2>15. Ordered(X, k, p)
    BY <2>12, <2>13, <2>14 DEF Ordered
  <2> QED
    BY <2>3, <2>15
<1>3. \E q : Ordered(S, n, q)
  <2> HIDE DEF Ordered
  <2> QED
    BY <1>2
<1>4. PICK q : Ordered(S, n, q)
  BY <1>3
<1>5. q \in SetToSeqs(S) /\ DOMAIN q = 1 .. n
  BY <1>4 DEF SetToSeqs
<1> QED
  BY <1>4, <1>5

(* A cascade is a list of exactly the rows it removes.                     *)
LEMMA ChildrenFirstFacts ==
    ASSUME NEW S \in SUBSET Row
    PROVE  /\ ChildrenFirst(S) \in Seq(S)
           /\ \A s \in S : \E i \in DOMAIN ChildrenFirst(S) : ChildrenFirst(S)[i] = s
PROOF
<1>1. IsFiniteSet(S)
  BY ReplicationAssumption, FS_Subset
<1>2. PICK n \in Nat : n = Cardinality(S)
  BY <1>1, FS_CardinalityType
<1>3. PICK q : q = ChildrenFirst(S) /\ q \in SetToSeqs(S)
  BY <1>2, OrderExists DEF ChildrenFirst
<1>4. q \in [1 .. n -> S] /\ \A i, j \in 1 .. n : i # j => q[i] # q[j]
  BY <1>2, <1>3 DEF SetToSeqs
<1>5. q \in Seq(S) /\ DOMAIN q = 1 .. n
  BY <1>4, SeqDef
<1>6. q \in Injection(1 .. n, S)
  BY <1>4 DEF Injection, IsInjective
<1>7. IsFiniteSet(1 .. n) /\ Cardinality(1 .. n) = n
  BY FS_Interval
<1>8. q \in Surjection(1 .. n, S)
  BY <1>1, <1>2, <1>6, <1>7, FS_Injection
<1> QED
  BY <1>3, <1>5, <1>8 DEF Surjection

-----------------------------------------------------------------------------
(* What keeps the constraints of what is held.                             *)

(* What a plan says of its rows: a key is a link's or a ref's, a parent is *)
(* a task of a lower id, and tasks nest one level deep.                    *)
LEMMA PlanFacts ==
    ASSUME plan \in Plans
    PROVE  /\ 0 \notin Row /\ NoParent \notin Row /\ Row \subseteq Nat
           /\ \A r \in Row : /\ plan.table[r] \in Table /\ plan.key[r] \in Nat
                             /\ plan.key[r] # 0 => plan.table[r] \in {"link", "ref"}
           /\ \A r \in Row : Parent(r) # NoParent =>
                 /\ Parent(r) \in Row /\ Parent(r) < r
                 /\ plan.table[Parent(r)] = "task" /\ plan.key[Parent(r)] = 0
           /\ \A r \in Row : plan.table[r] = "task" /\ Parent(r) # NoParent =>
                 Parent(Parent(r)) = NoParent
PROOF
<1>1. plan \in Plan
  BY ReplicationAssumption
<1>2. /\ plan.table \in [Row -> Table] /\ plan.key \in [Row -> Nat]
      /\ plan.parent \in [Row -> Row \cup {NoParent}]
  BY <1>1 DEF Plan
<1>3. \A r \in Row : /\ plan.parent[r] # NoParent =>
                           plan.parent[r] < r /\ plan.table[plan.parent[r]] = "task"
                     /\ plan.table[r] = "task" /\ plan.parent[r] # NoParent =>
                           plan.parent[plan.parent[r]] = NoParent
                     /\ plan.key[r] # 0 => plan.table[r] \in {"link", "ref"}
  BY ReplicationAssumption
<1>4. 0 \notin Row /\ NoParent \notin Row /\ Row \subseteq Nat
  BY ReplicationAssumption
<1>5. \A r \in Row : plan.parent[r] # NoParent => plan.parent[r] \in Row
  BY <1>2
<1>6. \A r \in Row : plan.parent[r] # NoParent => plan.key[plan.parent[r]] = 0
  BY <1>2, <1>3, <1>5
<1> QED
  BY <1>2, <1>3, <1>4, <1>5, <1>6 DEF Parent

(* What a row that is held can be.                                         *)
LEMMA RowStateFacts ==
    ASSUME NEW row \in RowState
    PROVE  /\ row # Absent /\ row.clock \in Nat \ {0} /\ row.version \in Nat \ {0}
           /\ row.actor \in Nat /\ row.label \in Nat /\ row.val \in Nat \ {0}
  BY DEF RowState, Absent, Clock

(* What a write becomes in a row.                                          *)
Full(op) == op.clock # 0 /\ op.version # 0 /\ op.val # 0

(* A write becomes a row of the write's clock and label.                   *)
LEMMA ContentFacts ==
    ASSUME NEW op \in Op, Full(op), NEW row \in RowState \cup {Absent}
    PROVE  /\ Content(op) \in RowState /\ WithVersion(op, row) \in RowState
           /\ Content(op).clock = op.clock /\ Content(op).label = op.label
           /\ WithVersion(op, row).clock = op.clock /\ WithVersion(op, row).label = op.label
PROOF
<1>1. /\ op.clock \in Nat \ {0} /\ op.version \in Nat \ {0} /\ op.actor \in Nat
      /\ op.label \in Nat /\ op.val \in Nat \ {0}
  BY DEF Op, Full, Clock
<1>2. row.version \in Nat
  BY DEF RowState, Absent
<1>3. WithVersion(op, row) =
        [clock |-> op.clock, version |-> IF row.version > op.version THEN row.version ELSE op.version,
         actor |-> op.actor, label |-> op.label, val |-> op.val]
  BY DEF WithVersion, Content
<1>4. Content(op) \in RowState /\ Content(op).clock = op.clock /\ Content(op).label = op.label
  BY <1>1 DEF Content, RowState, Clock
<1>5. (IF row.version > op.version THEN row.version ELSE op.version) \in Nat \ {0}
  BY <1>1, <1>2
<1>6. WithVersion(op, row) \in RowState
  BY <1>1, <1>3, <1>5 DEF RowState, Clock
<1> QED
  BY <1>3, <1>4, <1>6

(* A row may be put in place of another of its key, or of none...          *)
LEMMA ReplaceSound ==
    ASSUME plan \in Plans, NEW held \in Held, NEW top \in Nat, NEW new \in Nat,
           NEW labels \in SUBSET Nat,
           Sound(plan, held, top, labels), new >= top,
           NEW r \in Row, NEW row \in RowState, NEW old \in Row \cup {0},
           ParentPresent(held, r),
           old # 0 /\ old # r => SameKey(r, old),
           \A s \in Row \ {r, old} : held[s] # Absent => ~SameKey(r, s),
           plan.table[r] = "task" =>
              /\ \A s \in Row \ {r} : plan.table[s] = "task" /\ held[s] # Absent =>
                    held[s].label # row.label
              /\ row.label <= new \/ row.label \in labels
    PROVE  /\ Replace(held, old, r, row) \in Held
           /\ Sound(plan, Replace(held, old, r, row), new, labels)
PROOF
<1> USE PlanFacts
<1>1. PICK h : h = Replace(held, old, r, row)
  OBVIOUS
<1>2. h \in Held
  BY <1>1 DEF Held, Replace
<1>3. h[r] = row /\ row # Absent /\ \A s \in Row \ {r} : h[s] = IF s = old THEN Absent ELSE held[s]
  BY <1>1, RowStateFacts DEF Replace
<1>4. Rooted(plan, h)
  <2>1. SUFFICES ASSUME NEW s \in Row, h[s] # Absent, Parent(s) # NoParent PROVE h[Parent(s)] # Absent
    BY DEF Rooted, Parent
  <2>2. Parent(s) \in Row /\ plan.key[Parent(s)] = 0
    BY <2>1
  <2>3. held[Parent(s)] # Absent
    <3>1. CASE s = r
      BY <3>1, <2>1 DEF ParentPresent
    <3>2. CASE s # r
      BY <3>2, <2>1, <1>3 DEF Sound, Rooted, Parent
    <3> QED
      BY <3>1, <3>2
  <2>4. Parent(s) # r => Parent(s) # old
    BY <2>2 DEF SameKey
  <2> QED
    BY <2>2, <2>3, <2>4, <1>3
<1>5. Keyed(plan, h)
  BY <1>3 DEF Keyed, Sound, SameKey
<1>6. Labels(plan, h)
  BY <1>3 DEF Labels, Sound
<1>7. Issued(plan, h, new, labels)
  <2>1. SUFFICES ASSUME NEW s \in Row, h[s] # Absent, plan.table[s] = "task"
                 PROVE  h[s].label <= new \/ h[s].label \in labels
    BY DEF Issued
  <2>2. CASE s = r
    BY <2>1, <2>2, <1>3
  <2>3. CASE s # r
    <3>1. h[s] = held[s] /\ held[s] \in RowState
      BY <2>1, <2>3, <1>3 DEF Held
    <3>2. held[s].label \in Nat
      BY <3>1, RowStateFacts
    <3>3. held[s].label <= top \/ held[s].label \in labels
      BY <3>1, <2>1 DEF Sound, Issued
    <3> QED
      BY <3>1, <3>2, <3>3
  <2> QED
    BY <2>2, <2>3
<1> QED
  BY <1>1, <1>2, <1>4, <1>5, <1>6, <1>7 DEF Sound

(* ... or written where it is...                                           *)
LEMMA PutSound ==
    ASSUME plan \in Plans, NEW held \in Held, NEW top \in Nat, NEW new \in Nat,
           NEW labels \in SUBSET Nat,
           Sound(plan, held, top, labels), new >= top,
           NEW r \in Row, NEW row \in RowState,
           ParentPresent(held, r),
           \A s \in Row \ {r} : held[s] # Absent => ~SameKey(r, s),
           plan.table[r] = "task" =>
              /\ \A s \in Row \ {r} : plan.table[s] = "task" /\ held[s] # Absent =>
                    held[s].label # row.label
              /\ row.label <= new \/ row.label \in labels
    PROVE  [held EXCEPT ![r] = row] \in Held /\ Sound(plan, [held EXCEPT ![r] = row], new, labels)
PROOF
<1>1. 0 \notin Row
  BY PlanFacts
<1>2. Replace(held, 0, r, row) = [held EXCEPT ![r] = row]
  BY <1>1 DEF Replace, Held
<1>3. Replace(held, 0, r, row) \in Held /\ Sound(plan, Replace(held, 0, r, row), new, labels)
  BY ReplaceSound
<1> QED
  BY <1>2, <1>3

(* ... a task may be given a label that is past all others...              *)
LEMMA RenameSound ==
    ASSUME plan \in Plans, NEW held \in Held, NEW top \in Nat, NEW new \in Nat,
           NEW labels \in SUBSET Nat,
           Sound(plan, held, top, labels), new >= top,
           NEW r \in Row, held[r] # Absent, NEW label \in Nat, label <= new,
           \A s \in Row : held[s].label # label
    PROVE  /\ [held EXCEPT ![r].label = label] \in Held
           /\ Sound(plan, [held EXCEPT ![r].label = label], new, labels)
PROOF
<1>1. PICK row : row = [held[r] EXCEPT !.label = label]
  OBVIOUS
<1>2. held[r] \in RowState
  BY DEF Held
<1>3. row \in RowState /\ row.label = label
  BY <1>1, <1>2 DEF RowState
<1>4. [held EXCEPT ![r].label = label] = [held EXCEPT ![r] = row]
  BY <1>1 DEF Held
<1>5. ParentPresent(held, r) /\ \A s \in Row \ {r} : held[s] # Absent => ~SameKey(r, s)
  BY DEF Sound, Rooted, Keyed, ParentPresent, Parent, SameKey
<1>6. [held EXCEPT ![r] = row] \in Held /\ Sound(plan, [held EXCEPT ![r] = row], new, labels)
  BY <1>3, <1>5, PutSound
<1> QED
  BY <1>4, <1>6

(* ... and what is removed takes everything under it along.                *)
LEMMA WithoutSound ==
    ASSUME plan \in Plans, NEW held \in Held, NEW top \in Nat, NEW labels \in SUBSET Nat,
           Sound(plan, held, top, labels), NEW r \in Row
    PROVE  Without(held, r) \in Held /\ Sound(plan, Without(held, r), top, labels)
PROOF
<1> USE PlanFacts
<1>1. PICK h : h = Without(held, r)
  OBVIOUS
<1>2. h \in Held /\ \A s \in Row : h[s] = IF s \in Under(r) THEN Absent ELSE held[s]
  BY <1>1 DEF Held, Without
<1>3. Rooted(plan, h)
  <2>1. SUFFICES ASSUME NEW s \in Row, h[s] # Absent, Parent(s) # NoParent PROVE h[Parent(s)] # Absent
    BY DEF Rooted, Parent
  <2>2. Parent(s) \in Row /\ plan.table[Parent(s)] = "task"
    BY <2>1
  <2>3. held[Parent(s)] # Absent /\ s \notin Under(r)
    BY <2>1, <1>2 DEF Sound, Rooted, Parent
  <2>4. Parent(Parent(s)) # NoParent => Parent(Parent(Parent(s))) = NoParent
    BY <2>2
  <2>5. Parent(s) \notin Under(r)
    BY <2>1, <2>2, <2>3, <2>4 DEF Under
  <2> QED
    BY <2>2, <2>3, <2>5, <1>2
<1>4. Keyed(plan, h) /\ Labels(plan, h) /\ Issued(plan, h, top, labels)
  BY <1>2 DEF Sound, Keyed, Labels, Issued
<1> QED
  BY <1>1, <1>2, <1>3, <1>4 DEF Sound

-----------------------------------------------------------------------------
(* What one op of a page does.                                             *)

Page == [held : Held, counter : Nat, labels : SUBSET Nat, deletedAt : [Row -> Nat]]
PageOK(page) ==
    /\ page \in Page /\ IsFiniteSet(page.labels)
    /\ Sound(plan, page.held, page.counter, page.labels)
Incoming(page, op) == op \in Op /\ op.row \in Row /\ Full(op) /\ op.label \in page.labels

(* A write leaves the constraints as they are, brings no row but its own,  *)
(* and never takes a task back.                                            *)
Wrote(page, op, after) ==
    /\ PageOK(after) /\ after.labels = page.labels /\ after.deletedAt = page.deletedAt
    /\ \A r \in Row : after.held[r] # Absent => page.held[r] # Absent \/ r = op.row
    /\ \A n \in Nat : NoneAfter(page.held, n) /\ op.clock <= n => NoneAfter(after.held, n)
    /\ \A r \in Row : plan.table[r] = "task" => after.held[r].clock >= page.held[r].clock

(* It lands, where its parent is, if no later delete is known.             *)
Lands(page, op, after) ==
    plan.table[op.row] = "task" /\ ParentPresent(page.held, op.row) /\ page.deletedAt[op.row] < op.clock =>
        after.held[op.row].clock >= op.clock

(* A row that is held has a clock; one that is not has none.               *)
LEMMA HeldFacts ==
    ASSUME NEW held \in Held, NEW r \in Row
    PROVE  /\ held[r] \in RowState \cup {Absent} /\ held[r].clock \in Nat /\ held[r].label \in Nat
           /\ held[r] # Absent => held[r] \in RowState /\ held[r].clock # 0
           /\ Absent.clock = 0
PROOF
<1>1. held[r] \in RowState \cup {Absent}
  BY DEF Held
<1>2. Absent.clock = 0 /\ Absent.label = 0
  BY DEF Absent
<1> QED
  BY <1>1, <1>2, RowStateFacts

(* What a page is, while it is applied.                                    *)
LEMMA PageFacts ==
    ASSUME NEW page, PageOK(page)
    PROVE  /\ page.held \in Held /\ page.counter \in Nat /\ page.labels \in SUBSET Nat
           /\ page.deletedAt \in [Row -> Nat] /\ IsFiniteSet(page.labels)
           /\ Sound(plan, page.held, page.counter, page.labels)
  BY DEF PageOK, Page

(* A new label is free, in the page and in what is held.                   *)
LEMMA MintFacts ==
    ASSUME NEW page, PageOK(page)
    PROVE  /\ Mint(page) \in Nat /\ \A s \in Row : page.held[s].label # Mint(page)
           /\ \A c \in Nat : /\ Highest({c, Mint(page)}) \in Nat
                             /\ Highest({c, Mint(page)}) >= c /\ Highest({c, Mint(page)}) >= Mint(page)
PROOF
<1> DEFINE given == {page.held[s].label : s \in Row}
           label == [s \in Row |-> page.held[s].label]
<1>1. page.held \in Held /\ page.labels \in SUBSET Nat /\ IsFiniteSet(page.labels)
  BY PageFacts
<1>2. \A s \in Row : page.held[s].label \in Nat
  BY <1>1, HeldFacts
<1>3. label \in Surjection(Row, given)
  BY DEF Surjection
<1>4. IsFiniteSet(given) /\ given \in SUBSET Nat
  BY <1>2, <1>3, ReplicationAssumption, FS_Surjection
<1>5. IsFiniteSet(page.labels \cup given) /\ page.labels \cup given \in SUBSET Nat
  BY <1>1, <1>4, FS_Union
<1>6. PICK n : n = Highest(page.labels \cup given)
  OBVIOUS
<1>7. n \in Nat /\ \A m \in given : m <= n
  BY <1>5, <1>6, HighestFacts
<1>8. Mint(page) = 1 + n
  BY <1>6 DEF Mint
<1>9. \A s \in Row : page.held[s].label <= n
  BY <1>7
<1>10. ASSUME NEW c \in Nat
       PROVE  /\ Highest({c, 1 + n}) \in Nat
              /\ Highest({c, 1 + n}) >= c /\ Highest({c, 1 + n}) >= 1 + n
  <2>1. IsFiniteSet({c}) /\ IsFiniteSet({1 + n}) /\ {c, 1 + n} = {c} \cup {1 + n}
    BY FS_Singleton
  <2>2. IsFiniteSet({c} \cup {1 + n})
    BY <2>1, FS_Union
  <2>3. {c, 1 + n} \in SUBSET Nat
    BY <1>7
  <2>4. Highest({c, 1 + n}) \in Nat /\ \A m \in {c, 1 + n} : m <= Highest({c, 1 + n})
    BY <2>1, <2>2, <2>3, HighestFacts
  <2> QED
    BY <2>4, <1>7
<1>11. 1 + n \in Nat /\ \A s \in Row : page.held[s].label # 1 + n
  BY <1>7, <1>9, <1>2
<1> QED
  BY <1>8, <1>10, <1>11

(* Another row is the holder of a key, or there is none...                 *)
LEMMA HolderFacts ==
    ASSUME NEW held, NEW r \in Row
    PROVE  \/ /\ Holder(held, r) = 0
              /\ \A s \in Row \ {r} : held[s] # Absent => ~SameKey(r, s)
           \/ /\ Holder(held, r) \in Row \ {r} /\ SameKey(r, Holder(held, r))
              /\ held[Holder(held, r)] # Absent
PROOF
<1> DEFINE others == {s \in Row \ {r} : SameKey(r, s) /\ held[s] # Absent}
<1>1. CASE others = {}
  BY <1>1 DEF Holder
<1>2. CASE others # {}
  <2>1. Holder(held, r) \in others
    BY <1>2 DEF Holder
  <2> QED
    BY <2>1
<1> QED
  BY <1>1, <1>2

(* ... and of a label.                                                     *)
LEMMA LabelHolderFacts ==
    ASSUME NEW held, NEW r \in Row, NEW label
    PROVE  \/ /\ LabelHolder(held, r, label) = 0
              /\ \A s \in Row \ {r} : plan.table[s] = "task" /\ held[s] # Absent => held[s].label # label
           \/ /\ LabelHolder(held, r, label) \in Row \ {r}
              /\ plan.table[LabelHolder(held, r, label)] = "task"
              /\ held[LabelHolder(held, r, label)] # Absent
              /\ held[LabelHolder(held, r, label)].label = label
PROOF
<1> DEFINE others == {s \in Tasks \ {r} : held[s] # Absent /\ held[s].label = label}
<1>1. CASE others = {}
  BY <1>1 DEF LabelHolder, Tasks
<1>2. CASE others # {}
  <2>1. LabelHolder(held, r, label) \in others
    BY <1>2 DEF LabelHolder
  <2> QED
    BY <2>1 DEF Tasks
<1> QED
  BY <1>1, <1>2

(* A page of which only what is held, and perhaps the counter, changed.    *)
LEMMA Changed ==
    ASSUME NEW page, PageOK(page), NEW held \in Held, NEW top \in Nat,
           Sound(plan, held, top, page.labels),
           NEW after, after = [held |-> held, counter |-> top,
                               labels |-> page.labels, deletedAt |-> page.deletedAt]
    PROVE  /\ PageOK(after) /\ after.held = held
           /\ after.labels = page.labels /\ after.deletedAt = page.deletedAt
PROOF
<1>1. /\ after.held = held /\ after.counter = top
      /\ after.labels = page.labels /\ after.deletedAt = page.deletedAt
      /\ after \in Page
  BY DEF PageOK, Page
<1> QED
  BY <1>1 DEF PageOK

(* A task that is written: the row of the lower id keeps the label.        *)
LEMMA ApplyTaskWrites ==
    ASSUME plan \in Plans, NEW page, PageOK(page), NEW op, Incoming(page, op),
           plan.table[op.row] = "task", ParentPresent(page.held, op.row),
           page.held[op.row].clock <= op.clock
    PROVE  Wrote(page, op, ApplyTask(page, op)) /\ ApplyTask(page, op).held[op.row].clock = op.clock
PROOF
<1>1. /\ op \in Op /\ op.row \in Row /\ Full(op) /\ op.label \in page.labels
      /\ op.clock \in Nat /\ op.label \in Nat
  BY DEF Incoming, Op, Clock
<1>r. PICK r \in Row : r = op.row
  BY <1>1
<1>h. PICK held, top : held = page.held /\ top = page.counter
  OBVIOUS
<1>2. /\ held \in Held /\ top \in Nat /\ page.labels \in SUBSET Nat
      /\ Sound(plan, held, top, page.labels)
      /\ plan.table[r] = "task" /\ ParentPresent(held, r)
  BY <1>r, <1>h, PageFacts
<1>3. plan.key[r] = 0 /\ \A s \in Row : ~SameKey(r, s)
  BY <1>r, <1>h, <1>1, PlanFacts DEF SameKey
<1>4. PICK minted : minted = Mint(page)
  OBVIOUS
<1>5. PICK new : new = Highest({top, minted})
  OBVIOUS
<1>6. /\ minted \in Nat /\ \A s \in Row : held[s].label # minted
      /\ new \in Nat /\ new >= top /\ minted <= new
  BY <1>r, <1>h, <1>2, <1>4, <1>5, MintFacts
<1>7. PICK holder : holder = LabelHolder(held, r, op.label)
  OBVIOUS
<1>8. held[r] \in RowState \cup {Absent}
  BY <1>r, <1>h, <1>1, <1>2, HeldFacts
<1>9. PICK after : after = ApplyTask(page, op)
  OBVIOUS
<1>10. CASE holder = 0
  <2>1. \A s \in Row \ {r} : plan.table[s] = "task" /\ held[s] # Absent => held[s].label # op.label
    <3>1. 0 \notin Row
      BY PlanFacts
    <3>2. LabelHolder(held, r, op.label) \notin Row \ {r}
      BY <1>7, <1>10, <3>1
    <3> QED
      BY <3>2, LabelHolderFacts
  <2>2. PICK row : row = WithVersion(op, held[r])
    OBVIOUS
  <2>3. row \in RowState /\ row.clock = op.clock /\ row.label = op.label
    BY <1>r, <1>h, <1>1, <1>8, <2>2, ContentFacts
  <2>4. PICK put : put = [held EXCEPT ![r] = row]
    OBVIOUS
  <2>5. put \in Held /\ Sound(plan, put, top, page.labels)
    BY <1>r, <1>h, <1>1, <1>2, <1>3, <2>1, <2>3, <2>4, PutSound
  <2>6. after = [held |-> put, counter |-> top, labels |-> page.labels, deletedAt |-> page.deletedAt]
    BY <1>r, <1>h, <1>7, <1>9, <1>10, <2>2, <2>4 DEF ApplyTask, PageOK, Page
  <2>7. /\ PageOK(after) /\ after.held = put
        /\ after.labels = page.labels /\ after.deletedAt = page.deletedAt
    BY <1>2, <2>5, <2>6, Changed
  <2>8. put[r] = row /\ \A s \in Row \ {r} : put[s] = held[s]
    BY <1>r, <1>h, <1>1, <1>2, <2>4 DEF Held
  <2>9. \A s \in Row : held[s].clock \in Nat
    BY <1>2, HeldFacts
  <2> QED
    BY <1>r, <1>h, <1>1, <1>9, <2>3, <2>7, <2>8, <2>9 DEF Wrote, NoneAfter
<1>11. CASE holder # 0
  <2>1. /\ holder \in Row \ {r} /\ plan.table[holder] = "task" /\ held[holder] # Absent
        /\ held[holder].label = op.label
    BY <1>r, <1>h, <1>1, <1>2, <1>7, <1>11, LabelHolderFacts
  <2>2. holder \in Row /\ holder # r
    BY <2>1
  <2>3. CASE holder < r
    <3>1. PICK row : row = [Content(op) EXCEPT !.label = minted]
      OBVIOUS
    <3>2. row \in RowState /\ row.clock = op.clock /\ row.label = minted
      BY <1>r, <1>h, <1>1, <1>6, <1>8, <3>1, ContentFacts DEF RowState
    <3>3. PICK put : put = [held EXCEPT ![r] = row]
      OBVIOUS
    <3>4. put \in Held /\ Sound(plan, put, new, page.labels)
      BY <1>r, <1>h, <1>1, <1>2, <1>3, <1>6, <3>2, <3>3, PutSound
    <3>5. after = [held |-> put, counter |-> new, labels |-> page.labels, deletedAt |-> page.deletedAt]
      BY <1>r, <1>h, <1>4, <1>5, <1>7, <1>9, <1>11, <2>3, <3>1, <3>3 DEF ApplyTask, PageOK, Page
    <3>6. /\ PageOK(after) /\ after.held = put
          /\ after.labels = page.labels /\ after.deletedAt = page.deletedAt
      BY <1>6, <3>4, <3>5, Changed
    <3>7. put[r] = row /\ \A s \in Row \ {r} : put[s] = held[s]
      BY <1>r, <1>h, <1>1, <1>2, <3>3 DEF Held
    <3>8. \A s \in Row : held[s].clock \in Nat
      BY <1>2, HeldFacts
    <3> QED
      BY <1>r, <1>h, <1>1, <1>9, <3>2, <3>6, <3>7, <3>8 DEF Wrote, NoneAfter
  <2>4. CASE ~(holder < r)
    <3>1. PICK named : named = [held EXCEPT ![holder].label = minted]
      OBVIOUS
    <3>2. named \in Held /\ Sound(plan, named, new, page.labels)
      BY <1>2, <1>6, <2>1, <2>2, <3>1, RenameSound
    <3>3. /\ named[holder] = [held[holder] EXCEPT !.label = minted]
          /\ \A s \in Row \ {holder} : named[s] = held[s]
      BY <1>2, <2>2, <3>1 DEF Held
    <3>4. held[holder] \in RowState
      BY <1>2, <2>1, <2>2 DEF Held
    <3>5. /\ named[holder] # Absent /\ named[holder].clock = held[holder].clock
          /\ named[holder].label = minted
      BY <3>3, <3>4, RowStateFacts DEF RowState, Absent
    <3>a. PICK row : row = Content(op)
      OBVIOUS
    <3>6. row \in RowState /\ row.clock = op.clock /\ row.label = op.label
      BY <1>r, <1>h, <1>1, <1>8, <3>a, ContentFacts
    <3>7. ParentPresent(named, r)
      BY <1>r, <1>h, <1>1, <2>2, <3>3, <3>5, PlanFacts DEF ParentPresent
    <3>8. \A s \in Row \ {r} : plan.table[s] = "task" /\ named[s] # Absent => named[s].label # op.label
      <4>1. SUFFICES ASSUME NEW s \in Row \ {r}, plan.table[s] = "task", named[s] # Absent,
                            named[s].label = op.label
                     PROVE  FALSE
        OBVIOUS
      <4>2. op.label # minted
        BY <1>6, <2>1, <2>2
      <4>3. s # holder
        BY <3>5, <4>1, <4>2
      <4>4. held[s] # Absent /\ held[s].label = op.label
        BY <4>1, <4>3, <3>3
      <4>5. plan.table[holder] = "task"
        BY <2>1
      <4> QED
        BY <1>2, <2>1, <2>2, <4>1, <4>3, <4>4, <4>5 DEF Sound, Labels
    <3>9. PICK put : put = [named EXCEPT ![r] = row]
      OBVIOUS
    <3>10. put \in Held /\ Sound(plan, put, new, page.labels)
      <4>1. row.label \in page.labels /\ new >= new
        BY <1>1, <1>6, <3>6
      <4>2. \A s \in Row \ {r} : named[s] # Absent => ~SameKey(r, s)
        BY <1>3
      <4> QED
        BY <1>2, <1>6, <3>2, <3>6, <3>7, <3>8, <3>9, <4>1, <4>2, PutSound
    <3>11. after = [held |-> put, counter |-> new, labels |-> page.labels, deletedAt |-> page.deletedAt]
      BY <1>r, <1>h, <1>1, <1>2, <2>2, <1>4, <1>5, <1>7, <1>9, <1>11, <2>4, <3>1, <3>a, <3>9
         DEF ApplyTask, PageOK, Page
    <3>12. /\ PageOK(after) /\ after.held = put
           /\ after.labels = page.labels /\ after.deletedAt = page.deletedAt
      BY <1>6, <3>10, <3>11, Changed
    <3>13. put[r] = row /\ \A s \in Row \ {r} : put[s] = named[s]
      BY <1>r, <1>h, <1>1, <3>2, <3>9 DEF Held
    <3>14. \A s \in Row \ {r} : put[s].clock = held[s].clock /\ (put[s] # Absent => held[s] # Absent)
      BY <3>13, <3>3, <3>5, <2>1
    <3>15. \A s \in Row : held[s].clock \in Nat
      BY <1>2, HeldFacts
    <3> QED
      BY <1>r, <1>h, <1>1, <1>9, <3>6, <3>12, <3>13, <3>14, <3>15 DEF Wrote, NoneAfter
  <2> QED
    BY <2>3, <2>4
<1> QED
  BY <1>10, <1>11

(* A row of another table is written, in place of what has its key.        *)
LEMMA ReplaceWrites ==
    ASSUME plan \in Plans, NEW page, PageOK(page), NEW op, Incoming(page, op),
           NEW r \in Row, r = op.row \/ page.held[r] # Absent, plan.table[r] # "task",
           NEW row \in RowState, row.clock = op.clock \/ \E s \in Row : row = page.held[s],
           NEW old \in Row \cup {0}, old # 0 /\ old # r => SameKey(r, old),
           ParentPresent(page.held, r),
           \A s \in Row \ {r, old} : page.held[s] # Absent => ~SameKey(r, s),
           NEW after, after = [page EXCEPT !.held = Replace(@, old, r, row)]
    PROVE  Wrote(page, op, after)
PROOF
<1>1. PICK held, top : held = page.held /\ top = page.counter
  OBVIOUS
<1>2. /\ held \in Held /\ top \in Nat /\ page.labels \in SUBSET Nat /\ top >= top
      /\ Sound(plan, held, top, page.labels) /\ ParentPresent(held, r)
  BY <1>1, PageFacts
<1>3. \A s \in Row \ {r, old} : held[s] # Absent => ~SameKey(r, s)
  BY <1>1
<1>4. PICK put : put = Replace(held, old, r, row)
  OBVIOUS
<1>5. put \in Held /\ Sound(plan, put, top, page.labels)
  BY <1>2, <1>3, <1>4, ReplaceSound
<1>6. after = [held |-> put, counter |-> top, labels |-> page.labels, deletedAt |-> page.deletedAt]
  BY <1>1, <1>4 DEF PageOK, Page
<1>7. /\ PageOK(after) /\ after.held = put
      /\ after.labels = page.labels /\ after.deletedAt = page.deletedAt
  <2>1. /\ PageOK(page) /\ put \in Held /\ top \in Nat
        /\ Sound(plan, put, top, page.labels)
    BY <1>2, <1>5
  <2> QED
    BY ONLY <2>1, <1>6, Changed
<1>8. \A s \in Row : put[s] = IF s = r THEN row ELSE IF s = old THEN Absent ELSE held[s]
  BY <1>4 DEF Replace
<1>9. \A s \in Row : held[s].clock \in Nat /\ Absent.clock = 0
  BY <1>2, HeldFacts
<1>10. old \in Row /\ old # r => plan.table[old] # "task"
  BY PlanFacts DEF SameKey
<1>11. \A s \in Row : after.held[s] # Absent => page.held[s] # Absent \/ s = op.row
  BY <1>1, <1>7, <1>8
<1>12. \A n \in Nat : NoneAfter(page.held, n) /\ op.clock <= n => NoneAfter(after.held, n)
  BY <1>1, <1>7, <1>8, <1>9 DEF NoneAfter
<1>13. \A s \in Row : plan.table[s] = "task" => after.held[s].clock >= page.held[s].clock
  <2>1. \A s \in Row : plan.table[s] = "task" => s # r /\ s # old
    BY <1>10
  <2> QED
    BY <2>1, <1>1, <1>7, <1>8, <1>9
<1> QED
  BY <1>7, <1>11, <1>12, <1>13 DEF Wrote

(* A row whose key no other holds is written.                              *)
LEMMA WrittenAlone ==
    ASSUME plan \in Plans, NEW page, PageOK(page), NEW op, Incoming(page, op),
           plan.table[op.row] # "task", ParentPresent(page.held, op.row),
           \A s \in Row \ {op.row} : page.held[s] # Absent => ~SameKey(op.row, s),
           NEW row \in RowState, row.clock = op.clock,
           NEW after, after = [page EXCEPT !.held[op.row] = row]
    PROVE  Wrote(page, op, after)
PROOF
<1>1. PICK r \in Row : r = op.row
  BY DEF Incoming
<1>2. page.held \in Held /\ 0 \notin Row
  BY PageFacts, PlanFacts
<1>3. Replace(page.held, 0, r, row) = [page.held EXCEPT ![r] = row]
  BY <1>2 DEF Replace, Held
<1>4. after = [page EXCEPT !.held = Replace(@, 0, r, row)]
  BY <1>1, <1>3 DEF PageOK, Page
<1>5. /\ r = op.row \/ page.held[r] # Absent
      /\ plan.table[r] # "task" /\ ParentPresent(page.held, r)
      /\ row.clock = op.clock \/ \E s \in Row : row = page.held[s]
      /\ \A s \in Row \ {r, 0} : page.held[s] # Absent => ~SameKey(r, s)
  BY <1>1
<1> QED
  BY <1>4, <1>5, ReplaceWrites

(* A link replaces the one held with its key.                              *)
LEMMA ApplyLinkWrites ==
    ASSUME plan \in Plans, NEW page, PageOK(page), NEW op, Incoming(page, op),
           plan.table[op.row] # "task", ParentPresent(page.held, op.row)
    PROVE  Wrote(page, op, ApplyLink(page, op))
PROOF
<1>1. PICK r \in Row : r = op.row
  BY DEF Incoming
<1>2. PICK holder : holder = Holder(page.held, r)
  OBVIOUS
<1>3. holder \in Row \cup {0} /\ (holder # 0 => SameKey(r, holder) /\ holder # r)
  BY <1>2, HolderFacts
<1>4. \A s \in Row \ {r, holder} : page.held[s] # Absent => ~SameKey(r, s)
  <2>1. CASE holder = 0
    BY <1>2, <2>1, PlanFacts, HolderFacts
  <2>2. CASE holder # 0
    <3>1. holder \in Row /\ page.held[holder] # Absent /\ SameKey(r, holder)
      BY <1>2, <2>2, <1>3, HolderFacts
    <3>2. Keyed(plan, page.held)
      BY PageFacts DEF Sound
    <3> QED
      BY <3>1, <3>2 DEF Keyed, SameKey
  <2> QED
    BY <2>1, <2>2
<1>5. PICK local : local = IF holder = 0 THEN Absent ELSE page.held[holder]
  OBVIOUS
<1>6. local \in RowState \cup {Absent}
  BY <1>3, <1>5, PageFacts, HeldFacts
<1>7. PICK row : row = WithVersion(op, local)
  OBVIOUS
<1>8. row \in RowState /\ row.clock = op.clock
  BY <1>6, <1>7, ContentFacts DEF Incoming
<1>9. PICK after : after = ApplyLink(page, op)
  OBVIOUS
<1>10. after = [page EXCEPT !.held = Replace(@, holder, r, row)]
  BY <1>1, <1>2, <1>5, <1>7, <1>9 DEF ApplyLink
<1>11. Wrote(page, op, after)
  BY <1>1, <1>3, <1>4, <1>8, <1>10, ReplaceWrites
<1> QED
  BY <1>9, <1>11

(* A ref is merged with the one held with its key.                         *)
LEMMA ApplyRefWrites ==
    ASSUME plan \in Plans, NEW page, PageOK(page), NEW op, Incoming(page, op), NEW me,
           plan.table[op.row] # "task", ParentPresent(page.held, op.row)
    PROVE  Wrote(page, op, ApplyRef(me, page, op))
PROOF
<1>1. PICK r \in Row : r = op.row
  BY DEF Incoming
<1>2. PICK holder, held : holder = Holder(held, r) /\ held = page.held
  OBVIOUS
<1>3. /\ 0 \notin Row /\ held \in Held /\ Sound(plan, held, page.counter, page.labels)
      /\ Keyed(plan, held) /\ Rooted(plan, held)
  BY <1>2, PageFacts, PlanFacts DEF Sound
<1>4. PICK local : local = IF held[r] # Absent THEN r ELSE holder
  OBVIOUS
<1>5. PICK after : after = ApplyRef(me, page, op)
  OBVIOUS
<1>6. CASE local = 0
  <2>1. held[r] = Absent /\ holder = 0
    BY <1>3, <1>4, <1>6
  <2>2. \A s \in Row \ {r} : held[s] # Absent => ~SameKey(r, s)
    <3>1. Holder(held, r) \notin Row \ {r}
      BY <1>2, <1>3, <2>1
    <3> QED
      BY <3>1, HolderFacts
  <2>3. PICK row : row = WithVersion(op, Absent)
    OBVIOUS
  <2>4. row \in RowState /\ row.clock = op.clock
    BY <2>3, ContentFacts DEF Incoming
  <2>5. after = [page EXCEPT !.held[op.row] = row]
    BY <1>1, <1>2, <1>4, <1>5, <1>6, <2>3 DEF ApplyRef
  <2>6. Wrote(page, op, after)
    BY <1>1, <1>2, <2>2, <2>4, <2>5, WrittenAlone
  <2> QED
    BY <1>5, <2>6
<1>7. CASE local # 0
  <2>1. local \in Row /\ held[local] # Absent /\ (local = r \/ SameKey(r, local))
    BY <1>2, <1>4, <1>7, HolderFacts
  <2>2. PICK kept : kept = Survivor(op, local)
    OBVIOUS
  <2>3. kept \in {r, local}
    BY <1>1, <2>2 DEF Survivor
  <2>4. PICK row : row = Merged(op, local, held[local], me)
    OBVIOUS
  <2>5. held[local] \in RowState
    BY <1>3, <2>1 DEF Held
  <2>6. row \in RowState /\ (row.clock = op.clock \/ row = held[local])
    <3>1. WithVersion(op, held[local]) \in RowState /\ WithVersion(op, held[local]).clock = op.clock
      BY <2>5, ContentFacts DEF Incoming
    <3> QED
      BY <2>4, <2>5, <3>1 DEF Merged
  <2>7. after = [page EXCEPT !.held = Replace(@, local, kept, row)]
    BY <1>1, <1>2, <1>4, <1>5, <1>7, <2>2, <2>4 DEF ApplyRef
  <2>8. kept \in Row /\ (kept = op.row \/ page.held[kept] # Absent)
    BY <1>1, <1>2, <2>1, <2>3
  <2>9. local # kept => SameKey(kept, local)
    BY <2>1, <2>3
  <2>10. plan.table[kept] # "task"
    BY <1>1, <2>1, <2>3, PlanFacts DEF SameKey
  <2>11. ParentPresent(page.held, kept)
    BY <1>1, <1>2, <1>3, <2>1, <2>3 DEF ParentPresent, Rooted, Parent
  <2>12. \A s \in Row \ {kept, local} : page.held[s] # Absent => ~SameKey(kept, s)
    BY <1>2, <1>3, <2>1, <2>3 DEF Keyed, SameKey
  <2>13. row.clock = op.clock \/ \E s \in Row : row = page.held[s]
    BY <1>2, <2>1, <2>6
  <2>14. local \in Row \cup {0} /\ (local # 0 /\ local # kept => SameKey(kept, local))
    BY <2>1, <2>9
  <2>15. Wrote(page, op, after)
    BY <2>6, <2>7, <2>8, <2>10, <2>11, <2>12, <2>13, <2>14, ReplaceWrites
  <2> QED
    BY <1>5, <2>15
<1> QED
  BY <1>6, <1>7

(* The tie chain never takes an earlier write over a later one.            *)
LEMMA Compared ==
    ASSUME NEW op \in Op, NEW row \in RowState \cup {Absent}, NEW me
    PROVE  IF IncomingWins(op, row, me) THEN row.clock <= op.clock ELSE op.clock <= row.clock
PROOF
<1>1. row.clock \in Nat /\ op.clock \in Nat
  BY DEF Op, RowState, Absent, Clock
<1> QED
  BY <1>1 DEF IncomingWins, Beats, SideOf, HeldSide

(* A write that is skipped changes nothing.                                *)
LEMMA NothingWritten ==
    ASSUME NEW page, PageOK(page), NEW op
    PROVE  Wrote(page, op, page)
PROOF
<1>1. \A r \in Row : page.held[r].clock \in Nat
  BY PageFacts, HeldFacts
<1> QED
  BY <1>1 DEF Wrote

(* A write of a page, by the rule of its table.                            *)
LEMMA ApplyWriteWrites ==
    ASSUME plan \in Plans, NEW page, PageOK(page), NEW op, Incoming(page, op), NEW me
    PROVE  Wrote(page, op, ApplyWrite(me, page, op)) /\ Lands(page, op, ApplyWrite(me, page, op))
PROOF
<1>1. PICK r \in Row : r = op.row
  BY DEF Incoming
<1>2. PICK row, deletedAt, held : row = held[r] /\ deletedAt = page.deletedAt[r] /\ held = page.held
  OBVIOUS
<1>3. op \in Op /\ Full(op) /\ op.clock \in Nat
  BY DEF Incoming, Op, Clock
<1>4. held \in Held /\ row \in RowState \cup {Absent} /\ row.clock \in Nat /\ Absent.clock = 0
  BY <1>2, PageFacts, HeldFacts
<1>5. deletedAt \in Nat
  BY <1>2, PageFacts
<1>6. plan.table[r] \in Table
  BY PlanFacts
<1>7. PICK after : after = ApplyWrite(me, page, op)
  OBVIOUS
<1>8. CASE ~ParentPresent(held, r) \/ KnownDeleted(op, row, deletedAt)
  <2>1. after = page
    BY <1>1, <1>2, <1>7, <1>8 DEF ApplyWrite
  <2>2. Lands(page, op, page)
    BY <1>1, <1>2, <1>3, <1>5, <1>8 DEF Lands, KnownDeleted
  <2> QED
    BY <1>7, <2>1, <2>2, NothingWritten
<1>9. CASE ParentPresent(held, r) /\ ~KnownDeleted(op, row, deletedAt)
  <2>1. CASE plan.table[r] = "task"
    <3>1. after = IF TakesRowLww(op, row, me, deletedAt) THEN ApplyTask(page, op) ELSE page
      BY <1>1, <1>2, <1>7, <1>9, <2>1 DEF ApplyWrite
    <3>2. CASE TakesRowLww(op, row, me, deletedAt)
      <4>1. row.clock <= op.clock
        BY <1>3, <1>4, <3>2, Compared DEF TakesRowLww
      <4>2. Wrote(page, op, after) /\ after.held[r].clock = op.clock
        BY <1>1, <1>2, <1>9, <2>1, <3>1, <3>2, <4>1, ApplyTaskWrites
      <4> QED
        BY <1>1, <1>3, <1>7, <4>2 DEF Lands
    <3>3. CASE ~TakesRowLww(op, row, me, deletedAt)
      <4>1. row.clock >= op.clock
        BY <1>3, <1>4, <1>9, <3>3, Compared DEF TakesRowLww
      <4> QED
        BY <1>1, <1>2, <1>7, <3>1, <3>3, <4>1, NothingWritten DEF Lands
    <3> QED
      BY <3>2, <3>3
  <2>2. CASE plan.table[r] # "task"
    <3>1. Wrote(page, op, after)
      <4>1. CASE plan.table[r] = "comment"
        <5>1. after = IF TakesAppendOnly(op, row, deletedAt)
                      THEN [page EXCEPT !.held[r] = WithVersion(op, row)] ELSE page
          BY <1>1, <1>2, <1>7, <1>9, <4>1 DEF ApplyWrite
        <5>2. PICK new : new = WithVersion(op, row)
          OBVIOUS
        <5>3. new \in RowState /\ new.clock = op.clock
          BY <1>3, <1>4, <5>2, ContentFacts
        <5>4. \A s \in Row \ {r} : page.held[s] # Absent => ~SameKey(r, s)
          BY <4>1, PlanFacts DEF SameKey
        <5>5. CASE TakesAppendOnly(op, row, deletedAt)
          <6>1. after = [page EXCEPT !.held[op.row] = new]
            BY <1>1, <5>1, <5>2, <5>5
          <6> QED
            BY <1>1, <1>2, <1>9, <2>2, <5>3, <5>4, <6>1, WrittenAlone
        <5>6. CASE ~TakesAppendOnly(op, row, deletedAt)
          BY <5>1, <5>6, NothingWritten
        <5> QED
          BY <5>5, <5>6
      <4>2. CASE plan.table[r] = "link"
        <5>1. after = IF TakesDedupe(op, row, Holder(page.held, r), deletedAt)
                      THEN ApplyLink(page, op) ELSE page
          BY <1>1, <1>2, <1>7, <1>9, <4>2 DEF ApplyWrite
        <5>2. Wrote(page, op, ApplyLink(page, op)) /\ Wrote(page, op, page)
          BY <1>1, <1>2, <1>9, <2>2, ApplyLinkWrites, NothingWritten
        <5> QED
          BY <5>1, <5>2
      <4>3. CASE plan.table[r] = "ref"
        <5>1. after = ApplyRef(me, page, op)
          BY <1>1, <1>2, <1>7, <1>9, <4>3 DEF ApplyWrite
        <5> QED
          BY <1>1, <1>2, <1>9, <2>2, <5>1, ApplyRefWrites
      <4> QED
        BY <1>6, <2>2, <4>1, <4>2, <4>3 DEF Table
    <3> QED
      BY <1>1, <1>7, <2>2, <3>1 DEF Lands
  <2> QED
    BY <2>1, <2>2
<1> QED
  BY <1>8, <1>9

(* A delete removes what is under its row, if that was not changed since.  *)
Removed(page, op, after) ==
    /\ PageOK(after) /\ after.labels = page.labels
    /\ after.deletedAt = [page.deletedAt EXCEPT ![op.row] = op.clock]
    /\ \A r \in Row : \/ after.held[r] = page.held[r]
                      \/ /\ after.held[r] = Absent /\ r \in Under(op.row)
                         /\ page.held[op.row].clock <= op.clock

(* A delete removes a row and what is under it, or is only remembered.     *)
LEMMA ApplyDeleteRemoves ==
    ASSUME plan \in Plans, NEW page, PageOK(page), NEW op \in Op
    PROVE  Removed(page, op, ApplyDelete(page, op))
PROOF
<1>1. op.row \in Row /\ op.clock \in Nat
  BY DEF Op, Clock
<1>2. PICK held, top : held = page.held /\ top = page.counter
  OBVIOUS
<1>3. /\ held \in Held /\ top \in Nat /\ page.labels \in SUBSET Nat /\ IsFiniteSet(page.labels)
      /\ Sound(plan, held, top, page.labels) /\ page.deletedAt \in [Row -> Nat]
  BY <1>2, PageFacts
<1>4. PICK put : put = IF TakesDelete(op, held[op.row]) THEN Without(held, op.row) ELSE held
  OBVIOUS
<1>5. put \in Held /\ Sound(plan, put, top, page.labels)
  BY <1>1, <1>3, <1>4, WithoutSound
<1>6. PICK after : after = ApplyDelete(page, op)
  OBVIOUS
<1>7. after = [held |-> put, counter |-> top, labels |-> page.labels,
               deletedAt |-> [page.deletedAt EXCEPT ![op.row] = op.clock]]
  BY <1>2, <1>4, <1>6 DEF ApplyDelete, PageOK, Page
<1>8. PageOK(after)
  BY <1>1, <1>3, <1>5, <1>7 DEF PageOK, Page
<1>9. held[op.row].clock \in Nat
  BY <1>1, <1>3, HeldFacts
<1>10. \A r \in Row : \/ put[r] = held[r]
                      \/ put[r] = Absent /\ r \in Under(op.row) /\ held[op.row].clock <= op.clock
  BY <1>1, <1>4, <1>9 DEF Without, TakesDelete
<1>11. Removed(page, op, after)
  BY <1>2, <1>7, <1>8, <1>10 DEF Removed
<1> QED
  BY <1>6, <1>11

-----------------------------------------------------------------------------
(* What a page does.                                                       *)

Run(d, lo, hi, f) ==
    f = [i \in lo .. hi |->
            IF i = lo THEN Opened(d, lo, hi)
            ELSE IF log[i].dev = d THEN f[i - 1] ELSE ApplyOp(d, f[i - 1], log[i])]

(* A page is applied op by op, and there is a result.                      *)
LEMMA RunExists ==
    ASSUME NEW d, NEW lo \in Nat, NEW hi \in Nat, lo <= hi
    PROVE  \E f : Run(d, lo, hi, f)
PROOF
<1> DEFINE Step(i, before) == IF log[i].dev = d THEN before ELSE ApplyOp(d, before, log[i])
           Part(n, f) == f = [i \in lo .. n |-> IF i = lo THEN Opened(d, lo, hi) ELSE Step(i, f[i - 1])]
           Bad == {n \in lo .. hi : ~\E f : Part(n, f)}
<1> HIDE DEF Step
<1>1. Bad = {}
  <2>1. SUFFICES ASSUME Bad # {} PROVE FALSE
    OBVIOUS
  <2>2. Bad \in SUBSET Nat
    OBVIOUS
  <2> HIDE DEF Bad
  <2>3. PICK n \in Bad : \A k \in Bad : n <= k
    BY <2>1, <2>2, Least
  <2> USE DEF Bad
  <2>4. n \in lo .. hi /\ ~\E f : Part(n, f)
    BY <2>3
  <2>5. CASE n = lo
    <3>1. PICK f : f = [i \in lo .. n |-> Opened(d, lo, hi)]
      OBVIOUS
    <3>2. \A i \in lo .. n : i = lo
      BY <2>5
    <3>3. Part(n, f)
      BY <3>1, <3>2
    <3> QED
      BY <2>4, <3>3
  <2>6. CASE n # lo
    <3>1. n - 1 \in lo .. hi /\ ~(n <= n - 1)
      BY <2>4, <2>6
    <3>2. n - 1 \notin Bad
      <4> HIDE DEF Bad
      <4> QED
        BY <2>3, <3>1
    <3>3. PICK f : Part(n - 1, f)
      BY <3>1, <3>2
    <3>4. PICK g : g = [i \in lo .. n |-> IF i = n THEN Step(n, f[n - 1]) ELSE f[i]]
      OBVIOUS
    <3>5. \A i \in lo .. n - 1 : f[i] = IF i = lo THEN Opened(d, lo, hi) ELSE Step(i, f[i - 1])
      BY <3>3
    <3>6. \A i \in lo .. n : i # n => i \in lo .. n - 1 /\ g[i] = f[i]
      BY <3>1, <3>4
    <3>7. \A i \in lo .. n : i # lo => i - 1 \in lo .. n /\ i - 1 # n
      BY <3>1
    <3>8. \A i \in lo .. n : g[i] = IF i = lo THEN Opened(d, lo, hi) ELSE Step(i, g[i - 1])
      <4> SUFFICES ASSUME NEW i \in lo .. n
                   PROVE  g[i] = IF i = lo THEN Opened(d, lo, hi) ELSE Step(i, g[i - 1])
        OBVIOUS
      <4>1. i # lo => g[i - 1] = f[i - 1]
        BY <3>6, <3>7
      <4>2. CASE i = n
        BY <2>6, <3>4, <4>1, <4>2
      <4>3. CASE i # n
        BY <3>5, <3>6, <4>1, <4>3
      <4> QED
        BY <4>2, <4>3
    <3>9. Part(n, g)
      BY <3>4, <3>8
    <3> QED
      BY <2>4, <3>9
  <2> QED
    BY <2>5, <2>6
<1>2. hi \in lo .. hi /\ hi \notin Bad
  BY <1>1
<1>3. PICK f : Part(hi, f)
  BY <1>2
<1>4. Run(d, lo, hi, f)
  BY <1>3 DEF Run, Step
<1> QED
  BY <1>4

(* What a page leaves is the last of its states, op by op.                 *)
LEMMA AppliedIsRun ==
    ASSUME NEW d, NEW lo \in Nat, NEW hi \in Nat, lo <= hi
    PROVE  \E f : /\ Applied(d, lo, hi) = Reserved(f[hi])
                  /\ f[lo] = Opened(d, lo, hi)
                  /\ \A i \in lo + 1 .. hi :
                        f[i] = IF log[i].dev = d THEN f[i - 1] ELSE ApplyOp(d, f[i - 1], log[i])
PROOF
<1> DEFINE page == CHOOSE page : Run(d, lo, hi, page)
<1>a. Run(d, lo, hi, page)
  BY RunExists
<1>b. Applied(d, lo, hi) = Reserved(page[hi])
  BY DEF Applied, Run
<1> HIDE DEF page
<1>1. PICK f : Run(d, lo, hi, f) /\ Applied(d, lo, hi) = Reserved(f[hi])
  BY <1>a, <1>b
<1>2. f[lo] = Opened(d, lo, hi)
  BY <1>1 DEF Run
<1>3. ASSUME NEW i \in lo + 1 .. hi
      PROVE  f[i] = IF log[i].dev = d THEN f[i - 1] ELSE ApplyOp(d, f[i - 1], log[i])
  <2>1. i \in lo .. hi /\ i # lo
    OBVIOUS
  <2> QED
    BY <1>1, <2>1 DEF Run
<1> QED
  BY <1>1, <1>2, <1>3

(* What is held after the ops up to i, while device d applies a page.      *)
Latest(a, b) == IF a < b THEN b ELSE a
PageInv(d, i, page) ==
    /\ PageOK(page)
    /\ \A r \in Row : page.held[r] # Absent => r \in born /\ Recorded(d, r)
    /\ NoneAfter(page.held, now)
    /\ \A r \in Row : page.deletedAt[r] = 0 \/
          \E j \in DOMAIN log : /\ log[j].kind = "delete" /\ log[j].row = r
                                /\ log[j].clock = page.deletedAt[r]
    /\ Survives(d, Latest(applied[d], i), page.held)

(* What the variables hold.                                                *)
LEMMA TypeFacts ==
    ASSUME TypeOK
    PROVE  /\ plan \in Plans /\ now \in Nat \ {0} /\ writes \in Nat
           /\ born \subseteq Row /\ deleted \subseteq born
           /\ rows \in [Device -> Held] /\ counter \in [Device -> Nat]
           /\ outbox \in [Device -> Seq(Op)] /\ log \in Seq(Op)
           /\ Len(log) \in Nat /\ DOMAIN log = 1 .. Len(log)
           /\ \A i \in DOMAIN log : log[i] \in Op
           /\ \A d \in Device : /\ Len(outbox[d]) \in Nat /\ DOMAIN outbox[d] = 1 .. Len(outbox[d])
                                /\ \A i \in DOMAIN outbox[d] : outbox[d][i] \in Op
                                /\ applied[d] \in 0 .. Len(log)
PROOF
<1>1. plan \in Plan
  BY ReplicationAssumption DEF TypeOK
<1>2. now \in Nat \ {0} /\ writes \in Nat
  BY <1>1 DEF TypeOK, Plan
<1>3. Len(log) \in Nat /\ DOMAIN log = 1 .. Len(log) /\ \A i \in DOMAIN log : log[i] \in Op
  BY LenProperties, ElementOfSeq DEF TypeOK
<1>4. ASSUME NEW d \in Device
      PROVE  /\ Len(outbox[d]) \in Nat /\ DOMAIN outbox[d] = 1 .. Len(outbox[d])
             /\ \A i \in DOMAIN outbox[d] : outbox[d][i] \in Op
             /\ applied[d] \in 0 .. Len(log)
  <2>1. outbox[d] \in Seq(Op)
    BY DEF TypeOK
  <2>2. Len(outbox[d]) \in Nat /\ DOMAIN outbox[d] = 1 .. Len(outbox[d])
    BY <2>1, LenProperties
  <2>3. \A i \in DOMAIN outbox[d] : outbox[d][i] \in Op
    BY <2>1, <2>2, ElementOfSeq
  <2> QED
    BY <2>2, <2>3 DEF TypeOK
<1> QED
  BY <1>2, <1>3, <1>4 DEF TypeOK, Held

(* Where a task's parent was never deleted, neither was what wrote it.     *)
LEMMA ParentLasts ==
    ASSUME TypeOK, Ops, NEW w \in Op, Lasting(w), Parent(w.row) # NoParent,
           NEW v \in Op, WriteOf(v, Parent(w.row))
    PROVE  Lasting(v)
PROOF
<1>1. PICK r, p : r \in Row /\ r = w.row /\ p = Parent(r)
  BY DEF Op
<1>2. plan \in Plans /\ deleted \subseteq Row
  BY TypeFacts
<1>3. plan.table[r] = "task" /\ p # NoParent
  BY <1>1 DEF Lasting, Tasks
<1>4. p \in Row /\ p < r /\ r \in Nat /\ p \in Nat /\ plan.table[p] = "task" /\ Parent(p) = NoParent
  BY <1>1, <1>2, <1>3, PlanFacts
<1>5. p \notin deleted
  <2>1. r \in Under(p)
    BY <1>1 DEF Under
  <2>2. p \in deleted => p = r
    BY <1>1, <2>1 DEF Lasting
  <2> QED
    BY <1>4, <2>2
<1>6. \A s \in deleted : p \in Under(s) => s = p
  BY <1>2, <1>4, PlanFacts DEF Under
<1>7. \A op \in Op : Sent(op) /\ op.kind = "delete" => op.row \in deleted
  BY DEF Sent, Ops, Captured
<1>8. v.row = p /\ v.kind = "write"
  BY <1>1 DEF WriteOf
<1> QED
  BY <1>4, <1>5, <1>6, <1>7, <1>8 DEF Lasting, Tasks, Deletes

(* An op that lasts finds its parent where it comes.                       *)
LEMMA ParentThere ==
    ASSUME IInv, NEW d \in Device, NEW i \in DOMAIN log, Lasting(log[i]),
           NEW n \in Nat, i <= n + 1, NEW held, Survives(d, n, held), held \in Held
    PROVE  ParentPresent(held, log[i].row)
PROOF
<1>1. TypeOK /\ Ops /\ ParentsFirst
  BY DEF IInv
<1>2. PICK w \in Op : w = log[i]
  BY <1>1, TypeFacts
<1>3. PICK p : p = Parent(w.row)
  OBVIOUS
<1>4. SUFFICES ASSUME p # NoParent PROVE held[p] # Absent
  BY <1>2, <1>3 DEF ParentPresent
<1>5. w.kind = "write"
  BY <1>2 DEF Lasting
<1>6. PICK j \in DOMAIN log : j < i /\ WriteOf(log[j], p)
  BY <1>1, <1>2, <1>3, <1>4, <1>5 DEF ParentsFirst, InLog
<1>7. PICK v \in Op : v = log[j]
  BY <1>1, TypeFacts
<1>8. Lasting(v)
  BY <1>1, <1>2, <1>3, <1>4, <1>6, <1>7, ParentLasts
<1>9. i \in Nat /\ j \in Nat
  BY <1>1, TypeFacts
<1>10. Knows(d, n, v)
  BY <1>6, <1>7, <1>9 DEF Knows
<1>11. held[v.row].clock >= v.clock
  BY <1>8, <1>10 DEF Survives
<1>12. v.row = p /\ p \in Row /\ v.clock \in Nat \ {0}
  BY <1>6, <1>7 DEF WriteOf, Op, Clock
<1> QED
  BY <1>11, <1>12, HeldFacts

(* A page opens with what the device holds...                              *)
LEMMA PageOpens ==
    ASSUME IInv, NEW d \in Device, NEW lo \in 0 .. applied[d], NEW hi \in lo .. Len(log)
    PROVE  /\ PageInv(d, lo, Opened(d, lo, hi))
           /\ \A i \in lo + 1 .. hi : log[i].dev # d => log[i].label \in Opened(d, lo, hi).labels
PROOF
<1>1. TypeOK /\ Fit(d, applied[d], rows[d], counter[d]) /\ plan \in Plans
  BY TypeFacts DEF IInv, DeviceInv
<1>2. PICK others : others = {j \in lo + 1 .. hi : log[j].dev # d}
  OBVIOUS
<1>3. PICK labels : labels = {log[i].label : i \in others}
  OBVIOUS
<1>4. lo \in Nat /\ hi \in Nat /\ applied[d] \in Nat /\ hi <= Len(log) /\ Len(log) \in Nat
  BY <1>1, TypeFacts
<1>5. others \in SUBSET (lo + 1 .. hi) /\ IsFiniteSet(lo + 1 .. hi)
  <2>1. lo + 1 \in Int /\ hi \in Int
    BY <1>4
  <2>2. IsFiniteSet(lo + 1 .. hi)
    BY <2>1, FS_Interval
  <2> QED
    BY <1>2, <2>2
<1>6. IsFiniteSet(others)
  BY <1>5, FS_Subset
<1>7. PICK label : label = [i \in others |-> log[i].label]
  OBVIOUS
<1>8. label \in Surjection(others, labels)
  BY <1>3, <1>7 DEF Surjection
<1>9. IsFiniteSet(labels)
  BY <1>6, <1>8, FS_Surjection
<1>10. labels \in SUBSET Nat
  <2>1. \A i \in others : log[i] \in Op
    BY <1>1, <1>4, <1>5, TypeFacts
  <2> QED
    BY <1>3, <2>1 DEF Op
<1>11. PICK page : page = Opened(d, lo, hi)
  OBVIOUS
<1>12. /\ page.held = rows[d] /\ page.counter = counter[d] /\ page.labels = labels
       /\ page.deletedAt = [r \in Row |-> 0] /\ page \in Page
  BY <1>1, <1>2, <1>3, <1>10, <1>11, TypeFacts DEF Opened, Page
<1>13. Sound(plan, rows[d], counter[d], labels)
  BY <1>1 DEF Fit, Sound, Issued
<1>14. PageOK(page)
  BY <1>9, <1>12, <1>13 DEF PageOK
<1>15. \A r \in Row : page.held[r] # Absent => r \in born /\ Recorded(d, r)
  BY <1>1, <1>12 DEF Fit
<1>16. NoneAfter(page.held, now)
  BY <1>1, <1>12 DEF Fit
<1>17. Latest(applied[d], lo) = applied[d]
  BY <1>4 DEF Latest
<1>18. PageInv(d, lo, page)
  BY <1>1, <1>12, <1>14, <1>15, <1>16, <1>17 DEF PageInv, Fit
<1>19. \A i \in lo + 1 .. hi : log[i].dev # d => log[i].label \in page.labels
  BY <1>2, <1>3, <1>12
<1> QED
  BY <1>11, <1>18, <1>19

(* ... its own ops change nothing...                                       *)
LEMMA OwnOpKnown ==
    ASSUME IInv, NEW d \in Device, NEW i \in DOMAIN log, log[i].dev = d,
           NEW page, PageInv(d, i - 1, page)
    PROVE  PageInv(d, i, page)
PROOF
<1>1. i \in Nat \ {0} /\ applied[d] \in Nat
  BY TypeFacts DEF IInv
<1>2. PICK m, n : m = Latest(applied[d], i - 1) /\ n = Latest(applied[d], i)
  OBVIOUS
<1>3. \A j \in DOMAIN log : j <= n => j <= m \/ j = i
  <2>1. \A j \in DOMAIN log : j \in Nat
    BY TypeFacts DEF IInv
  <2> QED
    BY <1>1, <1>2, <2>1 DEF Latest
<1>4. \A w \in Op : Knows(d, n, w) => Knows(d, m, w)
  BY <1>3 DEF Knows
<1>5. Survives(d, n, page.held)
  BY <1>2, <1>4 DEF PageInv, Survives
<1> QED
  BY <1>2, <1>5 DEF PageInv

(* ... and every other op is applied.                                      *)
LEMMA OpApplied ==
    ASSUME IInv, NEW d \in Device, NEW i \in DOMAIN log,
           NEW page, PageInv(d, i - 1, page), log[i].label \in page.labels
    PROVE  /\ PageInv(d, i, ApplyOp(d, page, log[i]))
           /\ ApplyOp(d, page, log[i]).labels = page.labels
PROOF
<1>1. /\ TypeOK /\ Ops /\ plan \in Plans /\ i \in Nat \ {0} /\ applied[d] \in Nat /\ now \in Nat
      /\ \A j \in DOMAIN log : j \in Nat
      /\ deleted \subseteq Row
  BY TypeFacts DEF IInv
<1>2. PICK op \in Op : op = log[i] /\ Captured(op)
  BY <1>1 DEF Ops, Captured
<1>3. op.row \in Row /\ op.clock \in Nat \ {0} /\ op.clock <= now /\ op.kind \in {"write", "delete"}
  BY <1>1, <1>2 DEF Op, Captured, Clock
<1>4. PICK m, n : m = Latest(applied[d], i - 1) /\ n = Latest(applied[d], i)
  OBVIOUS
<1>5. m \in Nat /\ i <= m + 1 /\ \A j \in DOMAIN log : j <= n => j <= m \/ j = i
  BY <1>1, <1>4 DEF Latest
<1>6. \A w \in Op : Knows(d, n, w) => Knows(d, m, w) \/ w = op
  BY <1>2, <1>5 DEF Knows
<1>7. /\ PageOK(page) /\ page.held \in Held /\ page.deletedAt \in [Row -> Nat]
      /\ \A r \in Row : page.held[r] # Absent => r \in born /\ Recorded(d, r)
      /\ NoneAfter(page.held, now) /\ Survives(d, m, page.held)
  BY <1>4, PageFacts DEF PageInv
<1>8. PICK after : after = ApplyOp(d, page, op)
  OBVIOUS
<1>9. CASE op.kind = "write"
  <2>1. after = ApplyWrite(d, page, op)
    BY <1>8, <1>9 DEF ApplyOp
  <2>2. Incoming(page, op)
    BY <1>2, <1>3, <1>9 DEF Incoming, Full, Captured
  <2>3. Wrote(page, op, after) /\ Lands(page, op, after)
    BY <1>1, <1>7, <2>1, <2>2, ApplyWriteWrites
  <2>4. op.row \in born /\ Recorded(d, op.row)
    BY <1>2, <1>9 DEF Captured, Recorded, WriteOf
  <2>5. \A r \in Row : after.held[r] # Absent => r \in born /\ Recorded(d, r)
    BY <1>7, <2>3, <2>4 DEF Wrote
  <2>6. NoneAfter(after.held, now)
    BY <1>1, <1>3, <1>7, <2>3 DEF Wrote
  <2>7. Survives(d, n, after.held)
    <3>1. SUFFICES ASSUME NEW w \in Op, Knows(d, n, w), Lasting(w)
          PROVE  after.held[w.row].clock >= w.clock
      BY DEF Survives
    <3>2. w.row \in Row /\ plan.table[w.row] = "task" /\ w.clock \in Nat \ {0}
      BY <3>1 DEF Lasting, Tasks, Op, Clock
    <3>3. after.held[w.row].clock >= page.held[w.row].clock
      BY <2>3, <3>2 DEF Wrote
    <3>4. after.held[w.row].clock \in Nat /\ page.held[w.row].clock \in Nat
      BY <1>7, <2>3, <3>2, PageFacts, HeldFacts DEF Wrote
    <3>5. CASE Knows(d, m, w)
      BY <1>7, <3>1, <3>2, <3>3, <3>4, <3>5 DEF Survives
    <3>6. CASE w = op
      <4>1. ParentPresent(page.held, op.row)
        BY <1>2, <1>5, <1>7, <3>1, <3>6, ParentThere
      <4>2. page.deletedAt[w.row] < w.clock
        <5>1. CASE page.deletedAt[w.row] = 0
          BY <3>2, <5>1
        <5>2. CASE page.deletedAt[w.row] # 0
          <6>1. PICK j \in DOMAIN log : /\ log[j].kind = "delete" /\ log[j].row = w.row
                                        /\ log[j].clock = page.deletedAt[w.row]
            BY <3>2, <5>2 DEF PageInv
          <6>2. log[j] \in Op /\ Sent(log[j]) /\ Deletes(log[j], w)
            BY <1>1, <6>1, TypeFacts DEF Sent, Deletes
          <6> QED
            BY <3>1, <6>1, <6>2 DEF Lasting
        <5> QED
          BY <5>1, <5>2
      <4> QED
        BY <2>3, <3>2, <3>6, <4>1, <4>2 DEF Lands
    <3> QED
      BY <1>6, <3>1, <3>5, <3>6
  <2>8. PageInv(d, i, after)
    BY <1>4, <2>3, <2>5, <2>6, <2>7 DEF PageInv, Wrote
  <2> QED
    BY <1>2, <1>8, <2>3, <2>8 DEF Wrote
<1>10. CASE op.kind = "delete"
  <2>1. after = ApplyDelete(page, op)
    BY <1>8, <1>10 DEF ApplyOp
  <2>2. Removed(page, op, after)
    BY <1>1, <1>7, <2>1, ApplyDeleteRemoves
  <2>3. \A r \in Row : after.held[r] = page.held[r] \/ after.held[r] = Absent
    BY <2>2 DEF Removed
  <2>4. \A r \in Row : after.held[r] # Absent => r \in born /\ Recorded(d, r)
    BY <1>7, <2>3
  <2>5. NoneAfter(after.held, now)
    BY <1>1, <1>7, <2>3 DEF NoneAfter, Absent
  <2>6. \A r \in Row : after.deletedAt[r] = 0 \/
           \E j \in DOMAIN log : /\ log[j].kind = "delete" /\ log[j].row = r
                                 /\ log[j].clock = after.deletedAt[r]
    <3>1. \A r \in Row : after.deletedAt[r] = IF r = op.row THEN op.clock ELSE page.deletedAt[r]
      BY <1>3, <1>7, <2>2 DEF Removed
    <3> QED
      BY <1>2, <1>10, <3>1 DEF PageInv
  <2>7. Survives(d, n, after.held)
    <3>1. SUFFICES ASSUME NEW w \in Op, Knows(d, n, w), Lasting(w)
          PROVE  after.held[w.row].clock >= w.clock
      BY DEF Survives
    <3>2. w.row \in Row /\ w.kind = "write" /\ w.clock \in Nat
      BY <3>1 DEF Lasting, Op, Clock
    <3>3. w # op
      BY <1>10, <3>2
    <3>4. page.held[w.row].clock >= w.clock
      BY <1>6, <1>7, <3>1, <3>3 DEF Survives
    <3>5. CASE after.held[w.row] = page.held[w.row]
      BY <3>4, <3>5
    <3>6. CASE w.row \in Under(op.row) /\ page.held[op.row].clock <= op.clock
      <4>1. op.row \in deleted
        BY <1>2, <1>10 DEF Captured
      <4>2. op.row = w.row
        BY <3>1, <3>6, <4>1 DEF Lasting
      <4>3. Sent(op) /\ Deletes(op, w)
        BY <1>2, <1>10, <4>2 DEF Sent, Deletes
      <4>4. op.clock < w.clock
        BY <3>1, <4>3 DEF Lasting
      <4>5. page.held[w.row].clock \in Nat
        BY <1>7, <3>2, HeldFacts
      <4> QED
        BY <1>3, <3>2, <3>4, <3>6, <4>2, <4>4, <4>5
    <3> QED
      BY <2>2, <3>2, <3>5, <3>6 DEF Removed
  <2>8. PageInv(d, i, after)
    BY <1>4, <2>2, <2>4, <2>5, <2>6, <2>7 DEF PageInv, Removed
  <2> QED
    BY <1>2, <1>8, <2>2, <2>8 DEF Removed
<1> QED
  BY <1>3, <1>9, <1>10

(* So a page leaves what a device may hold, and knows.                     *)
LEMMA PageApplied ==
    ASSUME IInv, NEW d \in Device, NEW lo \in 0 .. applied[d], NEW hi \in lo + 1 .. Len(log)
    PROVE  Fit(d, Latest(applied[d], hi), Applied(d, lo, hi).held, Applied(d, lo, hi).counter)
PROOF
<1>1. /\ lo \in Nat /\ hi \in Nat /\ lo < hi /\ applied[d] \in Nat /\ DOMAIN log = 1 .. Len(log)
      /\ Len(log) \in Nat /\ lo + 1 .. hi \subseteq DOMAIN log /\ hi \in lo .. Len(log)
  BY TypeFacts DEF IInv
<1>2. PICK f : /\ Applied(d, lo, hi) = Reserved(f[hi])
               /\ f[lo] = Opened(d, lo, hi)
               /\ \A i \in lo + 1 .. hi :
                     f[i] = IF log[i].dev = d THEN f[i - 1] ELSE ApplyOp(d, f[i - 1], log[i])
  <2>1. lo \in Nat /\ hi \in Nat /\ lo <= hi
    BY <1>1
  <2> QED
    BY ONLY <2>1, AppliedIsRun
<1>3. PICK labels : labels = Opened(d, lo, hi).labels
  OBVIOUS
<1>4. /\ PageInv(d, lo, f[lo]) /\ f[lo].labels = labels
      /\ \A i \in lo + 1 .. hi : log[i].dev # d => log[i].label \in labels
  BY <1>1, <1>2, <1>3, PageOpens
<1> DEFINE Bad == {i \in lo .. hi : ~(PageInv(d, i, f[i]) /\ f[i].labels = labels)}
<1>5. Bad = {}
  <2>1. SUFFICES ASSUME Bad # {} PROVE FALSE
    OBVIOUS
  <2>2. Bad \in SUBSET Nat
    BY <1>1
  <2> HIDE DEF Bad
  <2>3. PICK i \in Bad : \A k \in Bad : i <= k
    BY <2>1, <2>2, Least
  <2> USE DEF Bad
  <2>4. i \in lo + 1 .. hi
    <3>1. i \in lo .. hi /\ i # lo
      BY <1>4, <2>3
    <3> QED
      BY <1>1, <3>1
  <2>5. i - 1 \in lo .. hi /\ ~(i <= i - 1)
    BY <1>1, <2>4
  <2>6. i - 1 \notin Bad
    <3> HIDE DEF Bad
    <3> QED
      BY <2>3, <2>5
  <2>7. PageInv(d, i - 1, f[i - 1]) /\ f[i - 1].labels = labels
    BY <2>5, <2>6
  <2>8. i \in DOMAIN log
    BY <1>1, <2>4
  <2>9. CASE log[i].dev = d
    <3>1. f[i] = f[i - 1]
      BY <1>2, <2>4, <2>9
    <3>2. PageInv(d, i, f[i - 1])
      BY <2>7, <2>8, <2>9, OwnOpKnown
    <3> QED
      BY <2>3, <2>7, <3>1, <3>2
  <2>10. CASE log[i].dev # d
    <3>1. f[i] = ApplyOp(d, f[i - 1], log[i])
      BY <1>2, <2>4, <2>10
    <3>2. log[i].label \in f[i - 1].labels
      BY <1>4, <2>4, <2>7, <2>10
    <3>3. /\ PageInv(d, i, ApplyOp(d, f[i - 1], log[i]))
          /\ ApplyOp(d, f[i - 1], log[i]).labels = f[i - 1].labels
      BY <2>7, <2>8, <3>2, OpApplied
    <3> QED
      BY <2>3, <2>7, <3>1, <3>3
  <2> QED
    BY <2>9, <2>10
<1>6. hi \in lo .. hi /\ hi \notin Bad
  BY <1>1, <1>5
<1>7. PICK page : page = f[hi]
  OBVIOUS
<1>8. PageInv(d, hi, page)
  BY <1>6, <1>7
<1>9. /\ page.held \in Held /\ page.counter \in Nat /\ page.labels \in SUBSET Nat
      /\ IsFiniteSet(page.labels) /\ Sound(plan, page.held, page.counter, page.labels)
  BY <1>8, PageFacts DEF PageInv
<1>10. PICK top : top = Highest({page.counter} \cup page.labels)
  OBVIOUS
<1>11. top \in Nat /\ top >= page.counter /\ \A m \in page.labels : m <= top
  <2>1. IsFiniteSet({page.counter})
    BY FS_Singleton
  <2>2. IsFiniteSet({page.counter} \cup page.labels) /\ {page.counter} \cup page.labels \in SUBSET Nat
    BY <1>9, <2>1, FS_Union
  <2>3. top \in Nat /\ \A m \in {page.counter} \cup page.labels : m <= top
    BY <1>10, <2>2, HighestFacts
  <2> QED
    BY <1>9, <2>3
<1>12. Issued(plan, page.held, top, {})
  <2>1. SUFFICES ASSUME NEW r \in Row, page.held[r] # Absent, plan.table[r] = "task"
                 PROVE  page.held[r].label <= top
    BY DEF Issued
  <2>2. page.held[r].label <= page.counter \/ page.held[r].label \in page.labels
    BY <1>9, <2>1 DEF Sound, Issued
  <2>3. page.held[r].label \in Nat
    BY <1>9, HeldFacts
  <2> QED
    BY <1>9, <1>11, <2>2, <2>3
<1>13. PICK result : result = Applied(d, lo, hi)
  OBVIOUS
<1>14. result.held = page.held /\ result.counter = top
  BY <1>2, <1>7, <1>8, <1>10, <1>13 DEF Reserved, PageInv, PageOK, Page
<1>15. Fit(d, Latest(applied[d], hi), page.held, top)
  BY <1>8, <1>9, <1>11, <1>12 DEF Fit, PageInv, Sound
<1> QED
  BY <1>13, <1>14, <1>15

-----------------------------------------------------------------------------
(* What a step leaves as it was.                                           *)

Onward ==
    /\ plan' = plan /\ born \subseteq born' /\ deleted \subseteq deleted' /\ now <= now'
    /\ \A d \in Device, r \in Row : Recorded(d, r) => Recorded(d, r)'
    /\ \A op \in Op : Sent(op) => Sent(op)'

(* What will have lasted has lasted so far.                                *)
LEMMA LastingBefore ==
    ASSUME Onward, NEW w, Lasting(w)'
    PROVE  Lasting(w)
PROOF
<1>1. Tasks' = Tasks /\ \A s : Under(s)' = Under(s)
  BY DEF Onward, Tasks, Under, Parent
<1>2. \A op \in Op : Deletes(op, w)' <=> Deletes(op, w)
  BY DEF Deletes
<1> QED
  BY <1>1, <1>2 DEF Onward, Lasting

(* What a device may hold it may go on holding, when it knows no more.     *)
LEMMA FitKept ==
    ASSUME TypeOK, Onward, TypeOK', NEW d \in Device, NEW n, NEW m, NEW held, NEW top,
           Fit(d, n, held, top),
           \A w \in Op : Knows(d, m, w)' /\ Lasting(w)' => Knows(d, n, w)
    PROVE  Fit(d, m, held, top)'
PROOF
<1>1. now \in Nat /\ now' \in Nat /\ now <= now'
  BY TypeFacts DEF TypeOK, Onward, Plan
<1>2. Sound(plan, held, top, {})'
  BY DEF Fit, Onward, Sound, Rooted, Keyed, Labels, Issued
<1>3. \A r \in Row : held[r].clock \in Nat
  BY HeldFacts DEF Fit
<1>4. NoneAfter(held, now)'
  BY <1>1, <1>3 DEF Fit, NoneAfter
<1>5. Survives(d, m, held)'
  <2>1. SUFFICES ASSUME NEW w \in Op, Knows(d, m, w)', Lasting(w)' PROVE held[w.row].clock >= w.clock
    BY DEF Survives
  <2>2. Lasting(w)
    BY <2>1, LastingBefore
  <2> QED
    BY <2>1, <2>2 DEF Fit, Survives
<1>6. \A r \in Row : held[r] # Absent => r \in born' /\ Recorded(d, r)'
  BY DEF Fit, Onward
<1> QED
  BY <1>2, <1>4, <1>5, <1>6 DEF Fit, Held

(* A device's captures are put behind those that are on their way.         *)
Captures(d, new) ==
    /\ \A e \in Device : e # d => outbox'[e] = outbox[e]
    /\ \A i \in DOMAIN outbox[d] : i \in DOMAIN outbox'[d] /\ outbox'[d][i] = outbox[d][i]
    /\ \A i \in DOMAIN outbox'[d] : i \in DOMAIN outbox[d] \/ outbox'[d][i] \in new
    /\ plan' = plan /\ log' = log /\ now' = now /\ applied' = applied
    /\ born \subseteq born' /\ deleted \subseteq deleted'

(* A capture keeps the queue in order, and the other devices as they were. *)
LEMMA CapturesKeep ==
    ASSUME IInv, TypeOK', NEW d \in Device, NEW new \in SUBSET Op, Captures(d, new),
           \A op \in new : /\ Captured(op)' /\ op.dev = d
                           /\ op.kind = "write" /\ Parent(op.row) # NoParent => Recorded(d, Parent(op.row))
    PROVE  /\ Onward /\ Ops' /\ ParentsFirst'
           /\ \A e \in Device : \A n, w : Knows(e, n, w)' => Knows(e, n, w) \/ (e = d /\ w \in new)
           /\ \A e \in Device \ {d} : rows'[e] = rows[e] /\ counter'[e] = counter[e] => DeviceInv(e)'
PROOF
<1>1. /\ TypeOK /\ Ops /\ ParentsFirst /\ now \in Nat
      /\ DOMAIN outbox[d] = 1 .. Len(outbox[d]) /\ Len(outbox[d]) \in Nat
      /\ DOMAIN outbox'[d] = 1 .. Len(outbox'[d]) /\ Len(outbox'[d]) \in Nat
  <2>1. outbox' \in [Device -> Seq(Op)]
    BY DEF TypeOK
  <2>2. outbox'[d] \in Seq(Op)
    BY <2>1
  <2> QED
    BY <2>2, TypeFacts, LenProperties DEF IInv
<1>2. \A e \in Device : \A i \in DOMAIN outbox[e] :
         i \in DOMAIN outbox'[e] /\ outbox'[e][i] = outbox[e][i]
  BY DEF Captures
<1>3. \A e \in Device : \A i \in DOMAIN outbox'[e] :
         \/ i \in DOMAIN outbox[e] /\ outbox'[e][i] = outbox[e][i]
         \/ e = d /\ outbox'[e][i] \in new
  BY DEF Captures
<1>4. Onward
  <2>1. \A e \in Device, r \in Row : Recorded(e, r) => Recorded(e, r)'
    BY <1>2 DEF Captures, Recorded, WriteOf
  <2>2. \A op \in Op : Sent(op) => Sent(op)'
    BY <1>2 DEF Captures, Sent
  <2> QED
    BY <1>1, <2>1, <2>2 DEF Captures, Onward
<1>5. \A op : Captured(op) => Captured(op)'
  BY DEF Captured, Captures
<1>6. Ops'
  <2>1. \A i \in DOMAIN log : \A op : i \in DOMAIN log' /\ log'[i] = op => Captured(op)'
    BY <1>1, <1>5 DEF Ops, Captures
  <2>2. \A e \in Device : \A i, op :
           i \in DOMAIN outbox'[e] /\ outbox'[e][i] = op => Captured(op)' /\ op.dev = e
    BY <1>1, <1>3, <1>5 DEF Ops
  <2>3. log' = log
    BY DEF Captures
  <2> QED
    BY <2>1, <2>2, <2>3 DEF Ops, Captured
<1>7. ParentsFirst'
  <2>1. \A r : Parent(r)' = Parent(r)
    BY DEF Captures, Parent
  <2>2. \A i \in DOMAIN log' : \A p :
           log'[i].kind = "write" /\ p = Parent(log'[i].row) /\ p # NoParent => InLog(p, i)'
    BY <1>1, <2>1 DEF ParentsFirst, InLog, Captures
  <2>3. ASSUME NEW e \in Device, NEW i \in DOMAIN outbox'[e], NEW p, p = Parent(outbox'[e][i].row),
               outbox'[e][i].kind = "write", p # NoParent
        PROVE  \/ \E j \in DOMAIN log' : WriteOf(log'[j], p)
               \/ InOutbox(e, p, i)'
    <3>1. CASE i \in DOMAIN outbox[e] /\ outbox'[e][i] = outbox[e][i]
      <4>1. (\E j \in DOMAIN log : WriteOf(log[j], p)) \/ InOutbox(e, p, i)
        BY <1>1, <2>3, <3>1 DEF ParentsFirst
      <4> QED
        BY <4>1, <1>2 DEF InOutbox, Captures
    <3>2. CASE i \notin DOMAIN outbox[e] /\ e = d /\ outbox'[e][i] \in new
      <4>1. Recorded(d, p)
        BY <2>3, <3>2
      <4>2. \A j \in DOMAIN outbox[d] : j < i
        BY <1>1, <3>2
      <4> QED
        BY <1>2, <3>2, <4>1, <4>2 DEF Recorded, InOutbox, Captures
    <3> QED
      BY <1>2, <1>3, <3>1, <3>2
  <2> QED
    BY <2>1, <2>2, <2>3 DEF ParentsFirst, InLog, InOutbox, Parent, Captures
<1>8. \A e \in Device : \A n, w : Knows(e, n, w)' => Knows(e, n, w) \/ (e = d /\ w \in new)
  BY <1>3 DEF Knows, Captures
<1>9. ASSUME NEW e \in Device \ {d}, rows'[e] = rows[e], counter'[e] = counter[e]
      PROVE  DeviceInv(e)'
  <2>1. PICK n, held, top : n = applied[e] /\ held = rows[e] /\ top = counter[e]
    OBVIOUS
  <2>2. Fit(e, n, held, top)
    BY <2>1 DEF IInv, DeviceInv
  <2>3. \A w \in Op : Knows(e, n, w)' /\ Lasting(w)' => Knows(e, n, w)
    BY <1>8
  <2>4. Fit(e, n, held, top)'
    BY <1>1, <1>4, <2>2, <2>3, FitKept
  <2>5. n = applied'[e] /\ held = rows'[e] /\ top = counter'[e]
    BY <1>9, <2>1 DEF Captures
  <2> QED
    BY <2>4, <2>5 DEF DeviceInv
<1> QED
  BY <1>4, <1>6, <1>7, <1>8, <1>9

-----------------------------------------------------------------------------
(* The steps.                                                              *)

(* Nothing is held, and nothing known.                                     *)
LEMMA InitInv ==
    ASSUME Init
    PROVE  IInv
PROOF
<1>1. /\ plan \in Plans /\ plan \in Plan /\ now = 1 /\ writes = 0 /\ born = {} /\ deleted = {}
      /\ rows = [d \in Device |-> [r \in Row |-> Absent]] /\ counter = [d \in Device |-> 0]
      /\ outbox = [d \in Device |-> <<>>] /\ log = <<>> /\ applied = [d \in Device |-> 0]
  BY ReplicationAssumption DEF Init
<1>2. /\ log \in Seq(Op) /\ Len(log) = 0 /\ DOMAIN log = {}
      /\ \A d \in Device : outbox[d] \in Seq(Op) /\ DOMAIN outbox[d] = {}
  BY <1>1
<1>3. plan.clocks \in Nat \ {0} /\ plan.writes \in Nat
  BY <1>1 DEF Plan
<1>4. TypeOK
  BY <1>1, <1>2, <1>3 DEF TypeOK
<1>5. Ops /\ ParentsFirst
  BY <1>1, <1>2 DEF Ops, ParentsFirst
<1>6. ASSUME NEW d \in Device, NEW n, NEW held, NEW top, n = 0, held = [r \in Row |-> Absent], top = 0
      PROVE  Fit(d, n, held, top)
  <2>1. held \in Held /\ \A r \in Row : held[r] = Absent /\ held[r].clock = 0
    BY <1>6 DEF Held, Absent
  <2>2. Sound(plan, held, top, {})
    BY <2>1 DEF Sound, Rooted, Keyed, Labels, Issued
  <2>3. NoneAfter(held, now)
    BY <2>1, <1>1 DEF NoneAfter
  <2>4. \A w \in Op : ~Knows(d, n, w)
    BY <1>2 DEF Knows
  <2> QED
    BY <1>6, <2>1, <2>2, <2>3, <2>4 DEF Fit, Survives
<1>7. \A d \in Device : DeviceInv(d)
  BY <1>1, <1>6 DEF DeviceInv
<1> QED
  BY <1>4, <1>5, <1>7 DEF IInv

(* What the invariant says of one device.                                  *)
LEMMA FitNow ==
    ASSUME IInv, NEW d \in Device
    PROVE  /\ TypeOK /\ Ops /\ ParentsFirst
           /\ Fit(d, applied[d], rows[d], counter[d])
           /\ rows[d] \in Held /\ counter[d] \in Nat
           /\ Sound(plan, rows[d], counter[d], {})
  BY DEF IInv, DeviceInv, Fit

(* What is known was captured.                                             *)
LEMMA KnownCaptured ==
    ASSUME Ops, NEW d \in Device, NEW n, NEW w, Knows(d, n, w)
    PROVE  Captured(w)
  BY DEF Knows, Ops

(* A user's write, that the database takes.                                *)
LEMMA WriteKeeps ==
    ASSUME IInv, NEW d \in Device, NEW r \in Row, NEW version \in Nat \ {0}, NEW label \in Nat,
           WriteRow(d, r, version, label), born' = born \cup {r},
           NEW top \in Nat, counter' = [counter EXCEPT ![d] = top], top >= counter[d],
           ParentPresent(rows[d], r),
           \A s \in Row \ {r} : rows[d][s] # Absent => ~SameKey(r, s),
           plan.table[r] = "task" =>
              /\ \A s \in Row \ {r} :
                    plan.table[s] = "task" /\ rows[d][s] # Absent => rows[d][s].label # label
              /\ label <= top
    PROVE  IInv'
PROOF
<1>1. /\ TypeOK /\ Ops /\ ParentsFirst /\ rows[d] \in Held /\ counter[d] \in Nat
      /\ Fit(d, applied[d], rows[d], counter[d]) /\ Sound(plan, rows[d], counter[d], {})
  BY FitNow
<1>2. /\ plan \in Plans /\ now \in Nat \ {0} /\ writes \in Nat /\ born \subseteq Row
      /\ deleted \subseteq born
      /\ rows \in [Device -> Held] /\ outbox \in [Device -> Seq(Op)]
  BY <1>1, TypeFacts
<1>3. PICK row : row = [clock |-> now, version |-> version, actor |-> Actor[d],
                        label |-> label, val |-> writes + 1]
  OBVIOUS
<1>4. PICK op : op = WriteOp(d, r, row)
  OBVIOUS
<1>5. /\ writes < plan.writes /\ writes' = writes + 1
      /\ rows' = [rows EXCEPT ![d][r] = row]
      /\ outbox' = [outbox EXCEPT ![d] = Append(outbox[d], op)]
      /\ plan' = plan /\ now' = now /\ deleted' = deleted /\ log' = log /\ applied' = applied
  BY <1>3, <1>4 DEF WriteRow
<1>6. row \in RowState /\ row.clock = now /\ row.label = label
  BY <1>2, <1>3, ReplicationAssumption DEF RowState, Clock
<1>7. /\ op \in Op /\ op.dev = d /\ op.row = r /\ op.kind = "write" /\ op.clock = now
      /\ op.version # 0 /\ op.val # 0
  BY <1>4, <1>6 DEF WriteOp, Op, RowState, Clock
<1>8. /\ outbox[d] \in Seq(Op) /\ outbox'[d] = Append(outbox[d], op)
      /\ \A e \in Device : e # d => outbox'[e] = outbox[e]
      /\ outbox' \in [Device -> Seq(Op)]
  BY <1>2, <1>5, <1>7, AppendProperties
<1>9. /\ DOMAIN outbox[d] = 1 .. Len(outbox[d]) /\ Len(outbox[d]) \in Nat
      /\ DOMAIN outbox'[d] = 1 .. Len(outbox[d]) + 1
      /\ outbox'[d][Len(outbox[d]) + 1] = op
      /\ \A i \in 1 .. Len(outbox[d]) : outbox'[d][i] = outbox[d][i]
  <2>1. outbox'[d] \in Seq(Op)
    BY <1>8
  <2> QED
    BY <1>7, <1>8, <2>1, AppendProperties, LenProperties
<1>10. PICK held : held = [rows[d] EXCEPT ![r] = row]
  OBVIOUS
<1>11. /\ rows'[d] = held /\ rows' \in [Device -> Held]
       /\ \A e \in Device : e # d => rows'[e] = rows[e]
       /\ held \in Held /\ Sound(plan, held, top, {})
  <2>1. held \in Held /\ Sound(plan, held, top, {})
    <3>1. PICK before : before = rows[d]
      OBVIOUS
    <3>2. before \in Held /\ Sound(plan, before, counter[d], {}) /\ ParentPresent(before, r)
      BY <1>1, <3>1
    <3>3. \A s \in Row \ {r} : before[s] # Absent => ~SameKey(r, s)
      BY <3>1
    <3>4. plan.table[r] = "task" =>
             /\ \A s \in Row \ {r} :
                   plan.table[s] = "task" /\ before[s] # Absent => before[s].label # row.label
             /\ row.label <= top \/ row.label \in {}
      BY <1>6, <3>1
    <3>5. /\ [before EXCEPT ![r] = row] \in Held
          /\ Sound(plan, [before EXCEPT ![r] = row], top, {})
      BY <1>1, <1>2, <1>6, <3>2, <3>3, <3>4, PutSound
    <3> QED
      BY <1>10, <3>1, <3>5
  <2> QED
    BY <1>2, <1>5, <1>10, <2>1
<1>12. /\ counter' \in [Device -> Nat] /\ counter'[d] = top
       /\ \A e \in Device : e # d => counter'[e] = counter[e]
  BY <1>1 DEF TypeOK
<1>13. TypeOK'
  <2>1. writes' \in 0 .. plan'.writes
    <3>1. plan.writes \in Nat
      BY <1>2, ReplicationAssumption DEF Plan
    <3> QED
      BY <1>2, <1>5, <3>1
  <2>2. born' \subseteq Row /\ deleted' \subseteq born'
    BY <1>2, <1>5
  <2>3. rows' \in [Device -> [Row -> RowState \cup {Absent}]]
    BY <1>11 DEF Held
  <2> QED
    BY <1>1, <1>5, <1>8, <1>12, <2>1, <2>2, <2>3 DEF TypeOK
<1>14. Captures(d, {op})
  BY <1>5, <1>8, <1>9 DEF Captures
<1>15. /\ Captured(op)' /\ op.dev = d
       /\ Parent(op.row) # NoParent => Recorded(d, Parent(op.row))
  <2>1. Captured(op)'
    BY <1>2, <1>5, <1>7 DEF Captured
  <2>2. Parent(r) # NoParent => Parent(r) \in Row /\ rows[d][Parent(r)] # Absent
    BY <1>2, PlanFacts DEF ParentPresent
  <2>3. Parent(r) # NoParent => Recorded(d, Parent(r))
    BY <1>1, <2>2 DEF Fit
  <2> QED
    BY <1>7, <2>1, <2>3
<1>16. /\ Onward /\ Ops' /\ ParentsFirst'
       /\ \A e \in Device : \A n, w : Knows(e, n, w)' => Knows(e, n, w) \/ (e = d /\ w \in {op})
       /\ \A e \in Device \ {d} : rows'[e] = rows[e] /\ counter'[e] = counter[e] => DeviceInv(e)'
  BY <1>7, <1>13, <1>14, <1>15, CapturesKeep
<1>17. \A s \in Row : held[s] = IF s = r THEN row ELSE rows[d][s]
  BY <1>1, <1>10 DEF Held
<1>18. PICK n : n = applied[d]
  OBVIOUS
<1>19. Fit(d, n, held, top)'
  <2>1. Sound(plan, held, top, {})'
    BY <1>5, <1>11 DEF Sound, Rooted, Keyed, Labels, Issued
  <2>2. Recorded(d, r)'
    BY <1>7, <1>9 DEF Recorded, WriteOf
  <2>3. \A s \in Row : held[s] # Absent => s \in born' /\ Recorded(d, s)'
    BY <1>1, <1>16, <1>17, <2>2 DEF Fit, Onward
  <2>4. NoneAfter(held, now)'
    <3>1. \A s \in Row : rows[d][s].clock <= now
      BY <1>1 DEF Fit, NoneAfter
    <3>2. ASSUME NEW s \in Row PROVE held[s].clock <= now
      <4>1. CASE s = r
        <5>1. held[s] = row
          BY <1>17, <4>1
        <5> QED
          BY <1>2, <1>6, <5>1
      <4>2. CASE s # r
        <5>1. held[s] = rows[d][s]
          BY <1>17, <4>2
        <5> QED
          BY <3>1, <5>1
      <4> QED
        BY <4>1, <4>2
    <3> QED
      BY <1>5, <3>2 DEF NoneAfter
  <2>5. Survives(d, n, held)'
    <3>1. SUFFICES ASSUME NEW w \in Op, Knows(d, n, w)', Lasting(w)' PROVE held[w.row].clock >= w.clock
      BY DEF Survives
    <3>2. CASE w = op
      BY <1>2, <1>6, <1>7, <1>17, <3>2
    <3>3. CASE Knows(d, n, w)
      <4>1. Lasting(w) /\ Captured(w)
        BY <1>1, <1>16, <3>1, <3>3, LastingBefore, KnownCaptured
      <4>2. rows[d][w.row].clock >= w.clock
        BY <1>1, <1>18, <3>3, <4>1 DEF Fit, Survives
      <4>3. w.clock \in Nat /\ w.clock <= now /\ w.row \in Row
        BY <1>2, <4>1 DEF Captured, Op
      <4> QED
        BY <1>2, <1>6, <1>17, <4>2, <4>3
    <3> QED
      BY <1>16, <3>1, <3>2, <3>3
  <2> QED
    BY <1>11, <2>1, <2>3, <2>4, <2>5 DEF Fit, Held
<1>20. DeviceInv(d)'
  BY <1>5, <1>11, <1>12, <1>18, <1>19 DEF DeviceInv
<1>21. \A e \in Device : DeviceInv(e)'
  BY <1>11, <1>12, <1>16, <1>20
<1> QED
  BY <1>13, <1>16, <1>21 DEF IInv

(* A user creates a row: its parent is held, and its label is a new one.   *)
LEMMA CreateKeeps ==
    ASSUME IInv, NEW d \in Device, NEW r \in Row, Create(d, r)
    PROVE  IInv'
PROOF
<1>1. /\ TypeOK /\ counter \in [Device -> Nat] /\ counter[d] \in Nat /\ rows[d] \in Held
      /\ Sound(plan, rows[d], counter[d], {})
  BY FitNow DEF TypeOK
<1>2. PICK top : top = IF r \in Tasks THEN counter[d] + 1 ELSE counter[d]
  OBVIOUS
<1>3. PICK label : label = IF r \in Tasks THEN top ELSE 0
  OBVIOUS
<1>4. top \in Nat /\ top >= counter[d] /\ label \in Nat
  BY <1>1, <1>2, <1>3
<1>5. counter' = [counter EXCEPT ![d] = top]
  BY <1>1, <1>2 DEF Create
<1>6. WriteRow(d, r, 1, label)
  <2>1. r \in Tasks => counter'[d] = top
    BY <1>1, <1>5
  <2>2. CASE r \in Tasks
    BY <1>3, <2>1, <2>2 DEF Create
  <2>3. CASE r \notin Tasks
    BY <1>3, <2>3 DEF Create
  <2> QED
    BY <2>2, <2>3
<1>7. ParentPresent(rows[d], r) /\ born' = born \cup {r}
  BY DEF Create, ParentPresent, Has
<1>8. \A s \in Row \ {r} : rows[d][s] # Absent => ~SameKey(r, s)
  BY DEF Create, Has
<1>9. ASSUME plan.table[r] = "task"
      PROVE  /\ \A s \in Row \ {r} :
                   plan.table[s] = "task" /\ rows[d][s] # Absent => rows[d][s].label # label
             /\ label <= top
  <2>1. r \in Tasks /\ label = top /\ top = counter[d] + 1
    BY <1>2, <1>3, <1>9 DEF Tasks
  <2>2. \A s \in Row : plan.table[s] = "task" /\ rows[d][s] # Absent => rows[d][s].label <= counter[d]
    BY <1>1 DEF Sound, Issued
  <2>3. \A s \in Row : rows[d][s].label \in Nat
    BY <1>1, HeldFacts
  <2> QED
    BY <1>1, <1>4, <2>1, <2>2, <2>3
<1>10. 1 \in Nat \ {0}
  OBVIOUS
<1> QED
  BY <1>4, <1>5, <1>6, <1>7, <1>8, <1>9, <1>10, WriteKeeps

(* A user edits a row that is held: parent, key and label stay.            *)
LEMMA UpdateKeeps ==
    ASSUME IInv, NEW d \in Device, NEW r \in Row, Update(d, r)
    PROVE  IInv'
PROOF
<1>1. /\ TypeOK /\ counter \in [Device -> Nat] /\ counter[d] \in Nat /\ rows[d] \in Held
      /\ Sound(plan, rows[d], counter[d], {}) /\ Fit(d, applied[d], rows[d], counter[d])
  BY FitNow DEF TypeOK
<1>2. rows[d][r] # Absent /\ rows[d][r] \in RowState
  BY <1>1 DEF Update, Has, Held
<1>3. PICK label, version : label = rows[d][r].label /\ version = rows[d][r].version + 1
  OBVIOUS
<1>4. label \in Nat /\ version \in Nat \ {0}
  BY <1>2, <1>3, RowStateFacts
<1>5. WriteRow(d, r, version, label)
  BY <1>3 DEF Update
<1>6. born' = born \cup {r}
  BY <1>1, <1>2 DEF Update, Fit
<1>7. counter' = [counter EXCEPT ![d] = counter[d]] /\ counter[d] >= counter[d]
  BY <1>1 DEF Update
<1>8. ParentPresent(rows[d], r) /\ \A s \in Row \ {r} : rows[d][s] # Absent => ~SameKey(r, s)
  BY <1>1, <1>2 DEF Sound, Rooted, Keyed, ParentPresent, Parent, SameKey
<1>9. plan.table[r] = "task" =>
         /\ \A s \in Row \ {r} :
               plan.table[s] = "task" /\ rows[d][s] # Absent => rows[d][s].label # label
         /\ label <= counter[d]
  BY <1>1, <1>2, <1>3 DEF Sound, Labels, Issued
<1> QED
  BY <1>1, <1>4, <1>5, <1>6, <1>7, <1>8, <1>9, WriteKeeps

(* A user's delete.                                                        *)
LEMMA DeleteKeeps ==
    ASSUME IInv, NEW d \in Device, NEW r \in Row, Delete(d, r)
    PROVE  IInv'
PROOF
<1>1. /\ TypeOK /\ Ops /\ ParentsFirst /\ rows[d] \in Held /\ counter[d] \in Nat
      /\ Fit(d, applied[d], rows[d], counter[d]) /\ Sound(plan, rows[d], counter[d], {})
  BY FitNow
<1>2. /\ plan \in Plans /\ now \in Nat \ {0} /\ writes \in Nat /\ born \subseteq Row
      /\ deleted \subseteq born
      /\ rows \in [Device -> Held] /\ outbox \in [Device -> Seq(Op)]
  BY <1>1, TypeFacts
<1>3. PICK S : S = {s \in Under(r) : Has(d, s)}
  OBVIOUS
<1>4. S \in SUBSET Row /\ S \subseteq born /\ r \in S
  BY <1>1, <1>3 DEF Under, Fit, Has, Delete
<1>5. PICK gone : gone = ChildrenFirst(S)
  OBVIOUS
<1>6. /\ gone \in Seq(S) /\ Len(gone) \in Nat /\ DOMAIN gone = 1 .. Len(gone)
      /\ \A i \in 1 .. Len(gone) : gone[i] \in S
      /\ \A s \in S : \E i \in 1 .. Len(gone) : gone[i] = s
  BY <1>4, <1>5, ChildrenFirstFacts, LenProperties, ElementOfSeq
<1>7. PICK dels : dels = [i \in 1 .. Len(gone) |-> DeleteOp(d, gone[i])]
  OBVIOUS
<1>8. PICK held : held = Without(rows[d], r)
  OBVIOUS
<1>9. /\ writes < plan.writes /\ writes' = writes + 1
      /\ rows' = [rows EXCEPT ![d] = held]
      /\ outbox' = [outbox EXCEPT ![d] = outbox[d] \o dels]
      /\ deleted' = deleted \cup {gone[i] : i \in 1 .. Len(gone)}
      /\ plan' = plan /\ now' = now /\ born' = born /\ counter' = counter
      /\ log' = log /\ applied' = applied
  BY <1>3, <1>5, <1>7, <1>8 DEF Delete, Cascade
<1>10. deleted' = deleted \cup S
  BY <1>6, <1>9
<1>11. PICK new : new = {DeleteOp(d, s) : s \in S}
  OBVIOUS
<1>12. ASSUME NEW s \in S
       PROVE  LET op == DeleteOp(d, s)
              IN  /\ op \in Op /\ op.dev = d /\ op.row = s /\ op.kind = "delete" /\ op.clock = now
  BY <1>2, <1>4 DEF DeleteOp, Op, Clock
<1>13. new \in SUBSET Op
  BY <1>11, <1>12
<1>14. /\ dels \in Seq(Op) /\ Len(dels) = Len(gone)
       /\ \A i \in 1 .. Len(gone) : dels[i] \in new
       /\ \A op \in new : \E i \in 1 .. Len(gone) : dels[i] = op
  <2>1. \A i \in 1 .. Len(gone) : dels[i] = DeleteOp(d, gone[i]) /\ dels[i] \in Op
    BY <1>6, <1>7, <1>12
  <2>2. dels \in [1 .. Len(gone) -> Op]
    BY <1>7, <2>1
  <2>3. dels \in Seq(Op) /\ Len(dels) = Len(gone)
    BY <1>6, <2>2, SeqDef, LenProperties
  <2> QED
    BY <1>6, <1>11, <2>1, <2>3
<1>15. /\ outbox[d] \in Seq(Op) /\ outbox'[d] = outbox[d] \o dels /\ outbox'[d] \in Seq(Op)
       /\ \A e \in Device : e # d => outbox'[e] = outbox[e]
       /\ outbox' \in [Device -> Seq(Op)]
  BY <1>2, <1>9, <1>14, ConcatProperties
<1>16. PICK m, k : m = Len(outbox[d]) /\ k = Len(gone)
  OBVIOUS
<1>17. /\ DOMAIN outbox[d] = 1 .. m /\ m \in Nat /\ k \in Nat
       /\ DOMAIN outbox'[d] = 1 .. m + k
       /\ \A i \in 1 .. m + k : outbox'[d][i] = IF i <= m THEN outbox[d][i] ELSE dels[i - m]
  <2>1. PICK mine, after : mine = outbox[d] /\ after = outbox'[d]
    OBVIOUS
  <2>2. /\ mine \in Seq(Op) /\ dels \in Seq(Op) /\ after = mine \o dels /\ after \in Seq(Op)
        /\ Len(mine) = m /\ Len(dels) = k
    BY <1>14, <1>15, <1>16, <2>1
  <2>3. m \in Nat /\ k \in Nat /\ DOMAIN mine = 1 .. m /\ Len(after) = m + k
    <3>1. m \in Nat /\ k \in Nat /\ DOMAIN mine = 1 .. m
      BY <1>6, <1>16, <2>2, LenProperties
    <3>2. Len(after) = Len(mine) + Len(dels)
      BY <2>2, ConcatProperties
    <3> QED
      BY <2>2, <3>1, <3>2
  <2>4. DOMAIN after = 1 .. m + k
    BY <2>2, <2>3, LenProperties
  <2>5. \A i \in 1 .. m + k : after[i] = IF i <= m THEN mine[i] ELSE dels[i - m]
    BY <2>2, <2>3, ConcatProperties
  <2> QED
    BY <2>1, <2>3, <2>4, <2>5
<1>18. held \in Held /\ Sound(plan, held, counter[d], {})
  <2>1. PICK before : before = rows[d]
    OBVIOUS
  <2>2. before \in Held /\ Sound(plan, before, counter[d], {}) /\ held = Without(before, r)
    BY <1>1, <1>8, <2>1
  <2> QED
    BY <1>1, <1>2, <2>2, WithoutSound
<1>19. /\ rows' \in [Device -> Held] /\ rows'[d] = held
       /\ \A e \in Device : e # d => rows'[e] = rows[e]
  BY <1>2, <1>9, <1>18
<1>20. TypeOK'
  <2>1. writes' \in 0 .. plan'.writes
    <3>1. plan.writes \in Nat
      BY <1>2, ReplicationAssumption DEF Plan
    <3> QED
      BY <1>2, <1>9, <3>1
  <2>2. born' \subseteq Row /\ deleted' \subseteq born'
    BY <1>2, <1>4, <1>9, <1>10
  <2>3. rows' \in [Device -> [Row -> RowState \cup {Absent}]]
    BY <1>19 DEF Held
  <2> QED
    BY <1>1, <1>9, <1>15, <2>1, <2>2, <2>3 DEF TypeOK
<1>21. Captures(d, new)
  <2>1. \A i \in DOMAIN outbox[d] : i \in DOMAIN outbox'[d] /\ outbox'[d][i] = outbox[d][i]
    BY <1>17
  <2>2. \A i \in DOMAIN outbox'[d] : i \in DOMAIN outbox[d] \/ outbox'[d][i] \in new
    <3> SUFFICES ASSUME NEW i \in 1 .. m + k, ~(i <= m) PROVE outbox'[d][i] \in new
      BY <1>17
    <3>1. i - m \in 1 .. k /\ outbox'[d][i] = dels[i - m]
      BY <1>17
    <3> QED
      BY <1>14, <1>16, <3>1
  <2> QED
    BY <1>9, <1>10, <1>15, <2>1, <2>2 DEF Captures
<1>22. \A op \in new : Captured(op)' /\ op.dev = d /\ op.kind = "delete"
  <2> SUFFICES ASSUME NEW s \in S, NEW op, op = DeleteOp(d, s)
               PROVE  Captured(op)' /\ op.dev = d /\ op.kind = "delete"
    BY <1>11
  <2> QED
    BY <1>2, <1>4, <1>9, <1>10, <1>12 DEF Captured
<1>23. /\ Onward /\ Ops' /\ ParentsFirst'
       /\ \A e \in Device : \A n, w : Knows(e, n, w)' => Knows(e, n, w) \/ (e = d /\ w \in new)
       /\ \A e \in Device \ {d} : rows'[e] = rows[e] /\ counter'[e] = counter[e] => DeviceInv(e)'
  BY <1>13, <1>20, <1>21, <1>22, CapturesKeep
<1>24. PICK n, top : n = applied[d] /\ top = counter[d]
  OBVIOUS
<1>25. \A s \in Row : held[s] = IF s \in Under(r) THEN Absent ELSE rows[d][s]
  BY <1>8 DEF Without
<1>26. Fit(d, n, held, top)'
  <2>1. Sound(plan, held, top, {})' /\ top \in Nat
    BY <1>1, <1>9, <1>18, <1>24 DEF Sound, Rooted, Keyed, Labels, Issued
  <2>2. \A s \in Row : held[s] # Absent => s \in born' /\ Recorded(d, s)'
    BY <1>1, <1>23, <1>25 DEF Fit, Onward
  <2>3. NoneAfter(held, now)'
    <3>1. \A s \in Row : rows[d][s].clock <= now
      BY <1>1 DEF Fit, NoneAfter
    <3>2. \A s \in Row : held[s].clock <= now
      BY <1>2, <1>25, <3>1 DEF Absent
    <3> QED
      BY <1>9, <3>2 DEF NoneAfter
  <2>4. Survives(d, n, held)'
    <3>1. SUFFICES ASSUME NEW w \in Op, Knows(d, n, w)', Lasting(w)' PROVE held[w.row].clock >= w.clock
      BY DEF Survives
    <3>2. w.kind = "write" /\ w.row \in Row /\ w.clock \in Nat \ {0}
      BY <3>1 DEF Lasting, Op, Clock
    <3>3. Knows(d, n, w)
      BY <1>22, <1>23, <3>1, <3>2
    <3>4. Lasting(w) /\ Captured(w)
      BY <1>1, <1>23, <3>1, <3>3, LastingBefore, KnownCaptured
    <3>5. rows[d][w.row].clock >= w.clock
      BY <1>1, <1>24, <3>3, <3>4 DEF Fit, Survives
    <3>6. w.row \notin Under(r)
      <4>1. SUFFICES ASSUME w.row \in Under(r) PROVE FALSE
        OBVIOUS
      <4>2. w.row \in Under(r)' /\ r \in deleted'
        BY <1>4, <1>9, <1>10, <4>1 DEF Under, Parent
      <4>3. r = w.row
        BY <3>1, <4>2 DEF Lasting, Under, Parent
      <4>4. PICK op \in new : op = DeleteOp(d, r)
        BY <1>4, <1>11
      <4>5. op.kind = "delete" /\ op.row = r /\ op.clock = now /\ op \in Op
        BY <1>4, <1>12, <4>4
      <4>6. PICK i \in 1 .. k : dels[i] = op
        BY <1>14, <1>16
      <4>7. i + m \in 1 .. m + k /\ ~(i + m <= m) /\ (i + m) - m = i
        BY <1>17
      <4>8. outbox'[d][i + m] = op /\ i + m \in DOMAIN outbox'[d]
        BY <1>17, <4>6, <4>7
      <4>9. Sent(op)' /\ Deletes(op, w)
        BY <4>3, <4>5, <4>8 DEF Sent, Deletes
      <4>10. now < w.clock
        BY <3>1, <4>5, <4>9 DEF Lasting, Deletes
      <4>11. w.clock <= now
        BY <3>4 DEF Captured
      <4> QED
        BY <1>2, <3>2, <4>10, <4>11
    <3> QED
      BY <1>25, <3>2, <3>5, <3>6
  <2> QED
    BY <1>18, <2>1, <2>2, <2>3, <2>4 DEF Fit, Held
<1>27. DeviceInv(d)'
  BY <1>9, <1>19, <1>24, <1>26 DEF DeviceInv
<1>28. \A e \in Device : DeviceInv(e)'
  BY <1>9, <1>19, <1>23, <1>27
<1> QED
  BY <1>20, <1>23, <1>28 DEF IInv

-----------------------------------------------------------------------------
(* Time passes, and pages are applied: nothing is captured, nothing sent.  *)
LEMMA ExchangeKept ==
    ASSUME IInv, UNCHANGED <<plan, born, deleted, outbox, log>>, now' \in Nat, now <= now'
    PROVE  /\ Onward /\ Ops' /\ ParentsFirst'
           /\ \A d, n, w : Knows(d, n, w)' => Knows(d, n, w)
PROOF
<1>1. TypeOK /\ Ops /\ ParentsFirst /\ now \in Nat
  BY TypeFacts DEF IInv
<1>2. Onward
  BY DEF Onward, Recorded, WriteOf, Sent
<1>3. ParentsFirst'
  BY <1>1 DEF ParentsFirst, InLog, InOutbox, WriteOf, Parent
<1>4. Ops'
  <2>1. ASSUME NEW op, Captured(op) PROVE Captured(op)'
    <3>1. op.clock \in 1 .. now
      BY <2>1 DEF Captured
    <3>2. op.clock \in Nat \ {0}
      BY <2>1 DEF Captured, Op, Clock
    <3> QED
      BY <1>1, <2>1, <3>1, <3>2 DEF Captured
  <2> QED
    BY <1>1, <2>1 DEF Ops, Captured
<1> QED
  BY <1>2, <1>3, <1>4 DEF Knows

(* What a device that does nothing held, it still holds.                   *)
LEMMA IdleKept ==
    ASSUME IInv, TypeOK', Onward, NEW d \in Device,
           rows'[d] = rows[d], counter'[d] = counter[d], applied'[d] = applied[d],
           \A w \in Op, n \in {applied[d]} : Knows(d, n, w)' => Knows(d, n, w)
    PROVE  DeviceInv(d)'
PROOF
<1>1. PICK n, held, top : n = applied[d] /\ held = rows[d] /\ top = counter[d]
  OBVIOUS
<1>2. TypeOK /\ Fit(d, n, held, top)
  BY <1>1 DEF IInv, DeviceInv
<1>3. \A w \in Op : Knows(d, n, w)' /\ Lasting(w)' => Knows(d, n, w)
  BY <1>1
<1>4. Fit(d, n, held, top)'
  BY <1>2, <1>3, FitKept
<1>5. n = applied'[d] /\ held = rows'[d] /\ top = counter'[d]
  BY <1>1
<1> QED
  BY <1>4, <1>5 DEF DeviceInv

(* The clock ticks.                                                        *)
LEMMA TickKeeps ==
    ASSUME IInv, Tick
    PROVE  IInv'
PROOF
<1>1. TypeOK /\ plan.clocks \in Nat /\ now \in Nat
  BY TypeFacts, ReplicationAssumption DEF IInv, Plan
<1>2. TypeOK'
  BY <1>1 DEF Tick, TypeOK
<1>3. /\ Onward /\ Ops' /\ ParentsFirst'
      /\ \A d, n, w : Knows(d, n, w)' => Knows(d, n, w)
  <2>1. now' \in Nat /\ now <= now' /\ UNCHANGED <<plan, born, deleted, outbox, log>>
    BY <1>1 DEF Tick
  <2> QED
    BY <2>1, ExchangeKept
<1>4. ASSUME NEW d \in Device PROVE DeviceInv(d)'
  <2>1. rows'[d] = rows[d] /\ counter'[d] = counter[d] /\ applied'[d] = applied[d]
    BY DEF Tick
  <2> QED
    BY <1>2, <1>3, <2>1, IdleKept
<1> QED
  BY <1>2, <1>3, <1>4 DEF IInv

(* Nothing happens.                                                        *)
LEMMA StutterKeeps ==
    ASSUME IInv, UNCHANGED vars
    PROVE  IInv'
PROOF
<1>1. TypeOK'
  BY DEF IInv, TypeOK, vars
<1>2. /\ Onward /\ Ops' /\ ParentsFirst'
      /\ \A d, n, w : Knows(d, n, w)' => Knows(d, n, w)
  <2>1. now' \in Nat /\ now <= now' /\ UNCHANGED <<plan, born, deleted, outbox, log>>
    BY TypeFacts DEF vars, IInv
  <2> QED
    BY <2>1, ExchangeKept
<1>3. ASSUME NEW d \in Device PROVE DeviceInv(d)'
  <2>1. rows'[d] = rows[d] /\ counter'[d] = counter[d] /\ applied'[d] = applied[d]
    BY DEF vars
  <2> QED
    BY <1>1, <1>2, <2>1, IdleKept
<1> QED
  BY <1>1, <1>2, <1>3 DEF IInv

(* A device applies a page.                                                *)
LEMMA PullKeeps ==
    ASSUME IInv, NEW d \in Device, NEW lo \in 0 .. applied[d], NEW hi \in lo + 1 .. Len(log),
           Pull(d, lo, hi)
    PROVE  IInv'
PROOF
<1>1. /\ TypeOK /\ rows \in [Device -> Held] /\ counter \in [Device -> Nat]
      /\ applied \in [Device -> 0 .. Len(log)] /\ Len(log) \in Nat
  BY TypeFacts DEF IInv, TypeOK
<1>2. PICK held, top : held = Applied(d, lo, hi).held /\ top = Applied(d, lo, hi).counter
  OBVIOUS
<1>3. PICK n : n = Latest(applied[d], hi)
  OBVIOUS
<1>4. Fit(d, n, held, top) /\ held \in Held /\ top \in Nat
  BY <1>2, <1>3, PageApplied DEF Fit
<1>5. /\ rows' = [rows EXCEPT ![d] = held] /\ counter' = [counter EXCEPT ![d] = top]
      /\ UNCHANGED <<plan, now, writes, born, deleted, outbox, log>>
  BY <1>2 DEF Pull
<1>6. applied' = [applied EXCEPT ![d] = n]
  BY <1>1, <1>3 DEF Pull, Watermark, Latest
<1>7. n \in 0 .. Len(log)
  BY <1>1, <1>3 DEF Latest
<1>8. /\ rows' \in [Device -> Held] /\ counter' \in [Device -> Nat]
      /\ applied' \in [Device -> 0 .. Len(log)]
      /\ rows'[d] = held /\ counter'[d] = top /\ applied'[d] = n
      /\ \A e \in Device \ {d} : rows'[e] = rows[e] /\ counter'[e] = counter[e] /\ applied'[e] = applied[e]
  BY <1>1, <1>4, <1>5, <1>6, <1>7
<1>9. TypeOK'
  BY <1>1, <1>5, <1>8 DEF TypeOK, Held
<1>10. /\ Onward /\ Ops' /\ ParentsFirst'
       /\ \A e, m, w : Knows(e, m, w)' => Knows(e, m, w)
  <2>1. now' \in Nat /\ now <= now'
    BY <1>1, <1>5, TypeFacts
  <2> QED
    BY <1>5, <2>1, ExchangeKept
<1>11. Fit(d, n, held, top)'
  BY <1>1, <1>4, <1>9, <1>10, FitKept
<1>12. DeviceInv(d)'
  BY <1>8, <1>11 DEF DeviceInv
<1>13. \A e \in Device \ {d} : DeviceInv(e)'
  BY <1>8, <1>9, <1>10, IdleKept
<1> QED
  BY <1>9, <1>10, <1>12, <1>13 DEF IInv

(* The log takes a device's next op.                                       *)
LEMMA PushKeeps ==
    ASSUME IInv, NEW d \in Device, Push(d)
    PROVE  IInv'
PROOF
<1>1. /\ TypeOK /\ Ops /\ ParentsFirst /\ now \in Nat
      /\ log \in Seq(Op) /\ outbox \in [Device -> Seq(Op)]
      /\ applied \in [Device -> 0 .. Len(log)]
  BY TypeFacts DEF IInv, TypeOK
<1>2. PICK mine, m, n, op : mine = outbox[d] /\ m = Len(mine) /\ n = Len(log) /\ op = mine[1]
  OBVIOUS
<1>3. /\ mine \in Seq(Op) /\ mine # <<>> /\ m \in Nat \ {0} /\ n \in Nat
      /\ DOMAIN mine = 1 .. m /\ DOMAIN log = 1 .. n /\ op \in Op /\ op.dev = d
  <2>1. mine \in Seq(Op) /\ mine # <<>>
    BY <1>1, <1>2 DEF Push
  <2>2. m \in Nat \ {0} /\ DOMAIN mine = 1 .. m
    BY <1>2, <2>1, LenProperties, EmptySeq
  <2>3. n \in Nat /\ DOMAIN log = 1 .. n
    BY <1>1, <1>2, LenProperties
  <2>4. 1 \in DOMAIN outbox[d]
    BY <1>2, <2>2
  <2>5. op \in Op /\ op.dev = d
    BY <1>1, <1>2, <2>4 DEF Ops, Captured
  <2> QED
    BY <2>1, <2>2, <2>3, <2>5
<1>4. PICK rest, longer : rest = Tail(mine) /\ longer = Append(log, op)
  OBVIOUS
<1>5. /\ log' = longer /\ outbox' = [outbox EXCEPT ![d] = rest]
      /\ UNCHANGED <<plan, now, writes, born, deleted, rows, counter, applied>>
  BY <1>2, <1>4 DEF Push
<1>6. /\ longer \in Seq(Op) /\ Len(longer) = n + 1 /\ DOMAIN longer = 1 .. n + 1
      /\ longer[n + 1] = op /\ \A i \in 1 .. n : longer[i] = log[i]
  BY <1>1, <1>2, <1>3, <1>4, AppendProperties, LenProperties
<1>7. /\ rest \in Seq(Op) /\ DOMAIN rest = 1 .. m - 1
      /\ \A i \in 1 .. m - 1 : rest[i] = mine[i + 1]
  BY <1>2, <1>3, <1>4, HeadTailProperties, LenProperties
<1>8. /\ outbox' \in [Device -> Seq(Op)] /\ outbox'[d] = rest
      /\ \A e \in Device : e # d => outbox'[e] = outbox[e]
  BY <1>1, <1>5, <1>7
<1>9. TypeOK'
  <2>1. 0 .. n \subseteq 0 .. n + 1
    BY <1>3
  <2>2. applied' \in [Device -> 0 .. Len(log')]
    BY <1>1, <1>2, <1>5, <1>6, <2>1
  <2> QED
    BY <1>1, <1>5, <1>6, <1>8, <2>2 DEF TypeOK
<1>10. \A i \in DOMAIN log : i \in DOMAIN log' /\ log'[i] = log[i] /\ i < n + 1
  BY <1>3, <1>5, <1>6
<1>11. \A i \in DOMAIN log' : (i \in DOMAIN log /\ log'[i] = log[i]) \/ (i = n + 1 /\ log'[i] = op)
  BY <1>3, <1>5, <1>6
<1>12. n + 1 \in DOMAIN log' /\ log'[n + 1] = op
  BY <1>3, <1>5, <1>6
<1>13. \A e \in Device : \A i \in DOMAIN outbox[e] :
          \/ e = d /\ outbox[e][i] = op
          \/ e = d /\ i - 1 \in DOMAIN outbox'[e] /\ outbox'[e][i - 1] = outbox[e][i]
          \/ e # d /\ i \in DOMAIN outbox'[e] /\ outbox'[e][i] = outbox[e][i]
  <2>1. \A i \in 1 .. m : i = 1 \/ (i - 1 \in 1 .. m - 1 /\ rest[i - 1] = mine[i])
    BY <1>3, <1>7
  <2>2. \A i \in DOMAIN mine : mine[i] = op \/ (i - 1 \in DOMAIN rest /\ rest[i - 1] = mine[i])
    BY <1>2, <1>3, <1>7, <2>1
  <2> QED
    BY <1>2, <1>8, <2>2
<1>14. \A e \in Device : \A i \in DOMAIN outbox'[e] :
          \/ e = d /\ i + 1 \in DOMAIN outbox[e] /\ outbox'[e][i] = outbox[e][i + 1]
          \/ e # d /\ i \in DOMAIN outbox[e] /\ outbox'[e][i] = outbox[e][i]
  <2>1. \A i \in DOMAIN rest : i + 1 \in DOMAIN mine /\ rest[i] = mine[i + 1]
    BY <1>3, <1>7
  <2> QED
    BY <1>2, <1>8, <2>1
<1>15. 1 \in DOMAIN outbox[d] /\ outbox[d][1] = op
  BY <1>2, <1>3
<1>16. Onward
  <2>1. ASSUME NEW e \in Device, NEW r \in Row, Recorded(e, r) PROVE Recorded(e, r)'
    <3>1. CASE \E j \in DOMAIN log : WriteOf(log[j], r)
      BY <1>10, <3>1 DEF Recorded, WriteOf
    <3>2. CASE \E j \in DOMAIN outbox[e] : WriteOf(outbox[e][j], r)
      BY <1>12, <1>13, <3>2 DEF Recorded, WriteOf
    <3> QED
      BY <2>1, <3>1, <3>2 DEF Recorded
  <2>2. ASSUME NEW w \in Op, Sent(w) PROVE Sent(w)'
    <3>1. CASE \E j \in DOMAIN log : log[j] = w
      BY <1>10, <3>1 DEF Sent
    <3>2. CASE \E e \in Device : \E j \in DOMAIN outbox[e] : outbox[e][j] = w
      BY <1>12, <1>13, <3>2 DEF Sent
    <3> QED
      BY <2>2, <3>1, <3>2 DEF Sent
  <2> QED
    BY <1>1, <1>5, <2>1, <2>2 DEF Onward
<1>17. Ops'
  <2>1. \A w : Captured(w) => Captured(w)'
    BY <1>5 DEF Captured
  <2>2. Captured(op)
    BY <1>1, <1>15 DEF Ops
  <2>3. \A i \in DOMAIN log' : \A w : w = log'[i] => Captured(w)'
    BY <1>1, <1>11, <2>1, <2>2 DEF Ops
  <2>4. ASSUME NEW e \in Device, NEW i \in DOMAIN outbox'[e], NEW w, w = outbox'[e][i]
        PROVE  Captured(w)' /\ w.dev = e
    <3>1. PICK k \in DOMAIN outbox[e] : w = outbox[e][k]
      BY <1>14, <2>4
    <3> QED
      BY <1>1, <2>1, <3>1 DEF Ops
  <2> QED
    BY <2>3, <2>4 DEF Ops
<1>18. ParentsFirst'
  <2>1. \A r : Parent(r)' = Parent(r)
    BY <1>5 DEF Parent
  <2>2. \A p : (\E j \in DOMAIN log : WriteOf(log[j], p)) => InLog(p, n + 1)'
    BY <1>10 DEF InLog, WriteOf
  <2>3. ASSUME NEW i \in DOMAIN log', NEW p, p = Parent(log'[i].row),
               log'[i].kind = "write", p # NoParent
        PROVE  InLog(p, i)'
    <3>1. CASE i \in DOMAIN log /\ log'[i] = log[i]
      <4>1. InLog(p, i)
        BY <1>1, <2>3, <3>1 DEF ParentsFirst
      <4> QED
        BY <1>10, <4>1 DEF InLog, WriteOf
    <3>2. CASE i = n + 1 /\ log'[i] = op
      <4>1. (\E j \in DOMAIN log : WriteOf(log[j], p)) \/ InOutbox(d, p, 1)
        BY <1>1, <1>15, <2>3, <3>2 DEF ParentsFirst
      <4>2. ~InOutbox(d, p, 1)
        BY <1>2, <1>3 DEF InOutbox
      <4> QED
        BY <2>2, <3>2, <4>1, <4>2
    <3> QED
      BY <1>11, <3>1, <3>2
  <2>4. ASSUME NEW e \in Device, NEW i \in DOMAIN outbox'[e], NEW p, p = Parent(outbox'[e][i].row),
               outbox'[e][i].kind = "write", p # NoParent
        PROVE  \/ \E j \in DOMAIN log' : WriteOf(log'[j], p)
               \/ InOutbox(e, p, i)'
    <3>1. (\E j \in DOMAIN log : WriteOf(log[j], p)) => \E j \in DOMAIN log' : WriteOf(log'[j], p)
      BY <1>10
    <3>2. CASE e # d
      <4>1. i \in DOMAIN outbox[e] /\ outbox'[e][i] = outbox[e][i] /\ outbox'[e] = outbox[e]
        BY <1>8, <1>14, <3>2
      <4>2. (\E j \in DOMAIN log : WriteOf(log[j], p)) \/ InOutbox(e, p, i)
        BY <1>1, <2>4, <4>1 DEF ParentsFirst
      <4> QED
        BY <3>1, <4>1, <4>2 DEF InOutbox
    <3>3. CASE e = d
      <4>1. i + 1 \in DOMAIN outbox[d] /\ outbox'[d][i] = outbox[d][i + 1] /\ i \in 1 .. m - 1
        BY <1>7, <1>8, <1>14, <2>4, <3>3
      <4>2. (\E j \in DOMAIN log : WriteOf(log[j], p)) \/ InOutbox(d, p, i + 1)
        BY <1>1, <2>4, <3>3, <4>1 DEF ParentsFirst
      <4>3. ASSUME InOutbox(d, p, i + 1)
            PROVE  (\E j \in DOMAIN log' : WriteOf(log'[j], p)) \/ InOutbox(d, p, i)'
        <5>1. PICK j \in DOMAIN outbox[d] : j < i + 1 /\ WriteOf(outbox[d][j], p)
          BY <4>3 DEF InOutbox
        <5>2. j \in Nat /\ i \in Nat
          BY <1>2, <1>3, <4>1, <5>1
        <5>3. CASE outbox[d][j] = op
          BY <1>12, <5>1, <5>3
        <5>4. CASE j - 1 \in DOMAIN outbox'[d] /\ outbox'[d][j - 1] = outbox[d][j]
          <6>1. j - 1 < i
            BY <5>1, <5>2
          <6> QED
            BY <5>1, <5>4, <6>1 DEF InOutbox, WriteOf
        <5> QED
          BY <1>13, <5>1, <5>3, <5>4
      <4> QED
        BY <3>1, <3>3, <4>2, <4>3
    <3> QED
      BY <3>2, <3>3
  <2> QED
    BY <2>1, <2>3, <2>4 DEF ParentsFirst, Parent, WriteOf
<1>19. ASSUME NEW e \in Device, NEW k, k = applied[e], NEW w \in Op, Knows(e, k, w)'
       PROVE  Knows(e, k, w)
  <2>1. k \in 0 .. n
    BY <1>1, <1>2, <1>19
  <2>2. CASE \E j \in DOMAIN log' : (j <= k \/ log'[j].dev = e) /\ log'[j] = w
    <3>1. PICK j \in DOMAIN log' : (j <= k \/ log'[j].dev = e) /\ log'[j] = w
      BY <2>2
    <3>2. CASE j \in DOMAIN log /\ log'[j] = log[j]
      BY <3>1, <3>2 DEF Knows
    <3>3. CASE j = n + 1 /\ log'[j] = op
      <4>1. ~(j <= k)
        BY <1>3, <2>1, <3>3
      <4>2. e = d /\ w = op
        BY <1>3, <3>1, <3>3, <4>1
      <4> QED
        BY <1>15, <4>2 DEF Knows
    <3> QED
      BY <1>11, <3>2, <3>3
  <2>3. CASE \E j \in DOMAIN outbox'[e] : outbox'[e][j] = w
    BY <1>14, <2>3 DEF Knows
  <2> QED
    BY <1>19, <2>2, <2>3 DEF Knows
<1>20. ASSUME NEW e \in Device PROVE DeviceInv(e)'
  <2>1. rows'[e] = rows[e] /\ counter'[e] = counter[e] /\ applied'[e] = applied[e]
    BY <1>5
  <2>2. \A w \in Op, k \in {applied[e]} : Knows(e, k, w)' => Knows(e, k, w)
    BY <1>19
  <2> QED
    BY <1>9, <1>16, <2>1, <2>2, IdleKept
<1> QED
  BY <1>9, <1>17, <1>18, <1>20 DEF IInv

-----------------------------------------------------------------------------
(* Every step of every behaviour keeps the invariant.                      *)
THEOREM Invariance == Spec => []IInv
PROOF
<1>1. Init => IInv
  BY InitInv
<1>2. IInv /\ [Next]_vars => IInv'
  <2>1. SUFFICES ASSUME IInv, [Next]_vars PROVE IInv'
    OBVIOUS
  <2>2. CASE Tick
    BY <2>1, <2>2, TickKeeps
  <2>3. ASSUME NEW d \in Device, NEW r \in Row, Create(d, r) \/ Update(d, r) \/ Delete(d, r)
        PROVE  IInv'
    BY <2>1, <2>3, CreateKeeps, UpdateKeeps, DeleteKeeps
  <2>4. ASSUME NEW d \in Device, Push(d)
        PROVE  IInv'
    BY <2>1, <2>4, PushKeeps
  <2>5. ASSUME NEW d \in Device, NEW lo \in 0 .. applied[d], NEW hi \in lo + 1 .. Len(log),
               Pull(d, lo, hi)
        PROVE  IInv'
    BY <2>1, <2>5, PullKeeps
  <2>6. CASE UNCHANGED vars
    BY <2>1, <2>6, StutterKeeps
  <2> QED
    BY <2>1, <2>2, <2>3, <2>4, <2>5, <2>6 DEF Next
<1> QED
  BY <1>1, <1>2, PTL DEF Spec

(* The variables stay within their types.                                  *)
THEOREM TypeCorrect == Spec => []TypeOK
PROOF
<1>1. IInv => TypeOK
  BY DEF IInv
<1> QED
  BY <1>1, Invariance, PTL

(* The constraints are what every device's rows are sound for.             *)
LEMMA ConstraintsFollow ==
    ASSUME IInv
    PROVE  ConstraintsHold
PROOF
<1>1. ASSUME NEW d \in Device PROVE Sound(plan, rows[d], counter[d], {})
  BY FitNow
<1>2. NoOrphans
  BY <1>1 DEF NoOrphans, Sound, Rooted, Has, Parent
<1>3. OneRowPerKey
  BY <1>1 DEF OneRowPerKey, Sound, Keyed, Has, SameKey
<1>4. OneTaskPerLabel
  <2>1. SUFFICES ASSUME NEW d \in Device, NEW r \in Tasks, NEW s \in Tasks, Has(d, r)
                 PROVE  /\ rows[d][r].label <= counter[d]
                        /\ Has(d, s) /\ rows[d][r].label = rows[d][s].label => r = s
    BY DEF OneTaskPerLabel
  <2>2. Sound(plan, rows[d], counter[d], {})
    BY <1>1
  <2> QED
    BY <2>1, <2>2 DEF Sound, Labels, Issued, Has, Tasks
<1> QED
  BY <1>2, <1>3, <1>4 DEF ConstraintsHold

(* The database's constraints hold in every state a page or a write leaves *)
(* (apply.ts:400-420, 532-566): no row without its parent, one row per     *)
(* natural key, one task per label, none above the counter, whatever pages *)
(* are applied, in whatever pieces, late or again.                         *)
THEOREM DatabaseConstraints == Spec => []ConstraintsHold
PROOF
<1>1. IInv => ConstraintsHold
  BY ConstraintsFollow
<1> QED
  BY <1>1, Invariance, PTL

(* When everything is known everywhere, every last edit is.                *)
LEMMA LatestFollows ==
    ASSUME IInv
    PROVE  LatestEditSurvives
PROOF
<1>1. SUFFICES ASSUME Quiet, NEW i \in 1 .. Len(log), NEW op, op = log[i],
                      op.row \in Tasks, op.kind = "write",
                      \A s \in deleted : op.row \in Under(s) => s = op.row,
                      \A j \in 1 .. Len(log) :
                          log[j].row = op.row /\ log[j].kind = "delete" => log[j].clock < op.clock,
                      NEW d \in Device
               PROVE  rows[d][op.row].clock >= op.clock
  BY DEF LatestEditSurvives
<1>2. /\ TypeOK /\ Fit(d, applied[d], rows[d], counter[d]) /\ DOMAIN log = 1 .. Len(log)
      /\ Len(log) \in Nat /\ op \in Op
  BY <1>1, FitNow, TypeFacts
<1>3. \A e \in Device : outbox[e] = <<>>
  BY <1>1 DEF Quiet
<1>4. \A w \in Op : Sent(w) /\ Deletes(w, op) => w.clock < op.clock
  <2>1. SUFFICES ASSUME NEW w \in Op, Sent(w), Deletes(w, op) PROVE w.clock < op.clock
    OBVIOUS
  <2>2. \A e \in Device : DOMAIN outbox[e] = {}
    BY <1>3
  <2>3. PICK j \in DOMAIN log : log[j] = w
    BY <2>1, <2>2 DEF Sent
  <2> QED
    BY <1>1, <1>2, <2>1, <2>3 DEF Deletes
<1>5. Lasting(op)
  BY <1>1, <1>4 DEF Lasting
<1>6. i <= applied[d] /\ i \in DOMAIN log
  BY <1>1, <1>2 DEF Quiet
<1>7. Knows(d, applied[d], op)
  BY <1>1, <1>6 DEF Knows
<1> QED
  BY <1>2, <1>5, <1>7 DEF Fit, Survives

(* A task's last edit survives on every device when it is later than every *)
(* delete of the task and no parent of it was deleted: no earlier edit or  *)
(* delete, read late or twice, undoes it, on any number of devices.        *)
THEOREM LastEdit == Spec => []LatestEditSurvives
PROOF
<1>1. IInv => LatestEditSurvives
  BY LatestFollows
<1> QED
  BY <1>1, Invariance, PTL
=============================================================================
