------------------------- MODULE CopilotProofs -------------------------
(***************************************************************************)
(* The copilot, for any number of prompts, questions, stops, updates and   *)
(* deaths: a question of the harness is granted by a human or stays open,  *)
(* a turn that is over is never written to again, the instructions reach   *)
(* the agent, and until a first turn is stopped each turn's transcript is  *)
(* its own and what the agent waits on is on screen.                       *)
(*                                                                         *)
(* Held is inductive as it stands.  What holds until a stop needs more,    *)
(* and has an invariant of its own, Own: who holds what while one turn is  *)
(* in hand.                                                                *)
(***************************************************************************)
EXTENDS Copilot, SequenceTheorems, FiniteSetTheorems, WellFoundedInduction, TLAPS

(* The prompts whose turn has got past its start, and that no session is   *)
(* opened but by one of them.                                              *)
Past == {p \in Prompt : run[p].pc \notin {"off", "context", "start"}}
Counted ==
    /\ opened <= Cardinality(Past) /\ session <= opened
    /\ \A p \in Prompt :
        /\ run[p].on <= opened
        /\ run[p].pc \in {"wait", "woken", "top", "last"} => run[p].on # 0
        /\ run[p].pc \in {"off", "context", "start"} => run[p].on = 0

(* A read is pending in the session of its turn.                           *)
Readers == \A s \in Session : \A i \in DOMAIN readers[s] : run[readers[s][i]].on = s

(* The prompt in hand is the last that was sent, or none.  A turn that has *)
(* heard its end and is not over yet is in hand.                           *)
LastInHand == \A p \in Prompt : run[p].pc = "last" => current = p
Turns ==
    /\ LastInHand
    /\ current \in {0, sent}
    /\ turn = "running" => current = sent /\ sent > 0
    /\ \A p \in Prompt : run[p].pc = "off" <=> p > sent

(* A request that was not made yet is not answered, and not held.          *)
Unmade == \A r \in Request : r > Len(owner) => told[r] = "nothing" /\ r \notin blocked

(* A session whose agent was told the instructions, or whose agent is gone.*)
Reached(s) == s \in dead \/ \E i \in DOMAIN got[s] : got[s][i].instructing
Tells(p) == run[p].instructing => run[p].on \in 1 .. opened /\ Reached(run[p].on)
Instructions ==
    /\ \A p \in Prompt : Tells(p)
    /\ instructed => \E s \in 1 .. opened : Reached(s)

Live == {"wait", "woken", "top"}
Idle(s) == todo[s] = <<>> /\ queue[s] = <<>> /\ readers[s] = <<>>

(* As long as no turn was stopped: the last prompt is the one in hand, and *)
(* the turns before it are over.                                           *)
InHand ==
    /\ current = sent
    /\ \A s \in Session : ~cancelled[s]
    /\ \A p \in Prompt : /\ p < sent => run[p].pc = "over"
                         /\ run[p].prose \subseteq {p}
                         /\ run[p].pc = "wait" => waker = p
                         /\ p = sent => (turn = "running" <=> run[p].pc \notin {"last", "over"})

(* What a session holds is of the prompt in hand, while its turn is live;  *)
(* the turn's end is the last of its updates.                              *)
Occupied(p, s) ==
    /\ todo[s] \in {<<>>, <<p>>} /\ readers[s] \in {<<>>, <<p>>}
    /\ \A i \in DOMAIN queue[s] :
        /\ queue[s][i].of = p
        /\ queue[s][i].kind \in {"done", "cancelled"} => i = Len(queue[s]) /\ todo[s] = <<>>
Occupies(s) == sent # 0 /\ run[sent].pc \in Live /\ run[sent].on = s
Sessions == \A s \in Session : IF Occupies(s) THEN Occupied(sent, s) ELSE Idle(s)

(* The mailbox is empty but while the turn in hand has been woken for it,  *)
(* and what is in it is about that turn.                                   *)
Mailed ==
    /\ outbox # <<>> => sent # 0 /\ run[sent].pc \in {"woken", "top", "last"}
    /\ \A i \in DOMAIN outbox : outbox[i].id \in DOMAIN owner /\ owner[outbox[i].id] = sent

(* A held request is of the turn the agent works on, and is on screen or   *)
(* in the mailbox.                                                         *)
Mail(type, r) == \E i \in DOMAIN outbox : outbox[i].type = type /\ outbox[i].id = r
Asked ==
    \A r \in blocked :
        /\ owner[r] = sent /\ sent # 0 /\ run[sent].pc \in Live /\ todo[run[sent].on] = <<sent>>
        /\ Contains(asks, r) \/ Mail("ask", r)
        /\ ~Mail("withdrawn", r)

(* An agent that is gone has no prompt.                                    *)
DeadIdle == \A s \in dead : todo[s] = <<>>

-----------------------------------------------------------------------------
(* Sequences: the queue of questions and the mail.                         *)

(* A set of naturals has a least one.                                      *)
LEMMA Least ==
    ASSUME NEW S \in SUBSET Nat, S # {}
    PROVE  \E m \in S : \A k \in S : m <= k
PROOF
<1>1. PICK m \in S : \A k \in S : ~(<<k, m>> \in OpToRel(<, Nat))
  BY NatLessThanWellFounded, WFMin
<1>2. \A k \in S : k \in Nat /\ ~(k < m)
  BY <1>1 DEF OpToRel
<1> QED
  BY <1>2

(* A value that is taken through n steps goes through a sequence of them.  *)
Steps(V, a, n, step, f) ==
    f \in [0 .. n -> V] /\ f[0] = a /\ \A i \in 1 .. n : f[i] = step[i][f[i - 1]]

LEMMA StepsExist ==
    ASSUME NEW V, NEW a \in V, NEW n \in Nat, NEW step \in [1 .. n -> [V -> V]]
    PROVE  \E f : Steps(V, a, n, step, f)
PROOF
<1> DEFINE Part(k, f) == f[0] = a /\ \A i \in 1 .. k : f[i] = step[i][f[i - 1]]
           Bad == {k \in 0 .. n : ~\E f \in [0 .. k -> V] : Part(k, f)}
<1>1. Bad = {}
  <2>1. SUFFICES ASSUME Bad # {} PROVE FALSE
    OBVIOUS
  <2>2. Bad \in SUBSET Nat
    OBVIOUS
  <2> HIDE DEF Bad
  <2>3. PICK k \in Bad : \A j \in Bad : k <= j
    BY <2>1, <2>2, Least
  <2> USE DEF Bad
  <2>4. k \in 0 .. n /\ ~\E f \in [0 .. k -> V] : Part(k, f)
    BY <2>3
  <2>5. CASE k = 0
    <3>1. PICK f : f = [i \in 0 .. k |-> a]
      OBVIOUS
    <3>2. f \in [0 .. k -> V] /\ Part(k, f)
      BY <2>5, <3>1
    <3> QED
      BY <2>4, <3>2
  <2>6. CASE k # 0
    <3>1. k - 1 \in 0 .. n /\ ~(k <= k - 1) /\ k \in 1 .. n
      BY <2>4, <2>6
    <3>2. k - 1 \notin Bad
      <4> HIDE DEF Bad
      <4> QED
        BY <2>3, <3>1
    <3>3. PICK f \in [0 .. k - 1 -> V] : Part(k - 1, f)
      BY <3>1, <3>2
    <3>4. PICK g : g = [i \in 0 .. k |-> IF i = k THEN step[k][f[k - 1]] ELSE f[i]]
      OBVIOUS
    <3>5. \A i \in 0 .. k : i # k => i \in 0 .. k - 1 /\ g[i] = f[i]
      BY <3>1, <3>4
    <3>6. k - 1 \in 0 .. k - 1 /\ step[k] \in [V -> V] /\ g[k] = step[k][f[k - 1]]
      BY <3>1, <3>4
    <3>7. g \in [0 .. k -> V]
      BY <3>3, <3>4, <3>5, <3>6
    <3>8. \A i \in 1 .. k : g[i] = step[i][g[i - 1]]
      <4> SUFFICES ASSUME NEW i \in 1 .. k
                   PROVE  g[i] = step[i][g[i - 1]]
        OBVIOUS
      <4>1. i - 1 \in 0 .. k /\ i - 1 # k /\ g[i - 1] = f[i - 1]
        BY <3>1, <3>5
      <4>2. CASE i = k
        BY <3>6, <4>1, <4>2
      <4>3. CASE i # k
        <5>1. i \in 1 .. k - 1 /\ i \in 0 .. k
          BY <3>1, <4>3
        <5> QED
          BY <3>3, <3>5, <4>1, <4>3, <5>1
      <4> QED
        BY <4>2, <4>3
    <3>9. g[0] = a
      BY <3>1, <3>3, <3>5
    <3> QED
      BY <2>4, <3>7, <3>8, <3>9
  <2> QED
    BY <2>5, <2>6
<1> HIDE DEF Bad
<1>2. n \in 0 .. n /\ n \notin Bad
  BY <1>1
<1> USE DEF Bad
<1>3. PICK f \in [0 .. n -> V] : Part(n, f)
  BY <1>2
<1> QED
  BY <1>3 DEF Steps

(* Elements are kept, and nothing else is.                                 *)
Keeping(s, S, f) ==
    f = [i \in 0 .. Len(s) |->
            IF i = 0 THEN <<>>
            ELSE IF s[i] \in S THEN Append(f[i - 1], s[i]) ELSE f[i - 1]]

KeptBy(T, s, S, f) ==
    /\ f \in [0 .. Len(s) -> Seq(T \cap S)]
    /\ Keep(s, S) = f[Len(s)] /\ f[0] = <<>>
    /\ \A i \in 1 .. Len(s) : f[i] = IF s[i] \in S THEN Append(f[i - 1], s[i]) ELSE f[i - 1]

(* Keep goes through a sequence of what it has kept so far.                *)
LEMMA KeepSteps ==
    ASSUME NEW T, NEW s \in Seq(T), NEW S
    PROVE  \E f : KeptBy(T, s, S, f)
PROOF
<1> DEFINE V == Seq(T \cap S)
           n == Len(s)
           Next1(i, q) == IF s[i] \in S THEN Append(q, s[i]) ELSE q
           step == [i \in 1 .. n |-> [q \in V |-> Next1(i, q)]]
           kept == CHOOSE f : Keeping(s, S, f)
<1>1. n \in Nat /\ \A i \in 1 .. n : s[i] \in T
  BY LenProperties, ElementOfSeq
<1>2. <<>> \in V /\ \A i \in 1 .. n : \A q \in V : Next1(i, q) \in V
  BY <1>1
<1>3. step \in [1 .. n -> [V -> V]]
  BY <1>2
<1>4. \A i \in 1 .. n : \A q \in V : step[i][q] = Next1(i, q)
  OBVIOUS
<1> HIDE DEF V, step, Next1
<1> HIDE DEF n
<1>5. PICK f \in [0 .. n -> V] : f[0] = <<>> /\ \A i \in 1 .. n : f[i] = step[i][f[i - 1]]
  <2>1. n \in Nat /\ <<>> \in V /\ step \in [1 .. n -> [V -> V]]
    BY <1>1, <1>2, <1>3
  <2>2. \E f : Steps(V, <<>>, n, step, f)
    BY <2>1, StepsExist
  <2> QED
    BY <2>2 DEF Steps
<1> USE DEF n
<1>6. \A i \in 1 .. n : i - 1 \in 0 .. n /\ f[i - 1] \in V /\ f[i] = Next1(i, f[i - 1])
  BY <1>1, <1>4, <1>5
<1>7. Keeping(s, S, f)
  <2>1. f = [i \in 0 .. n |-> f[i]]
    BY <1>5
  <2>2. \A i \in 0 .. n : f[i] = IF i = 0 THEN <<>> ELSE Next1(i, f[i - 1])
    <3>1. \A i \in 0 .. n : i = 0 \/ i \in 1 .. n
      BY <1>1
    <3> QED
      BY <1>5, <1>6, <3>1
  <2> QED
    BY <2>1, <2>2 DEF Keeping, Next1
<1>8. Keep(s, S) = kept[n] /\ Keeping(s, S, kept)
  BY <1>7 DEF Keep, Keeping
<1> HIDE DEF kept
<1>9. kept = f
  <2> DEFINE Bad == {i \in 0 .. n : kept[i] # f[i]}
  <2>1. \A i \in 0 .. n : kept[i] = IF i = 0 THEN <<>> ELSE Next1(i, kept[i - 1])
    BY <1>8 DEF Keeping, Next1
  <2>2. Bad = {}
    <3>1. SUFFICES ASSUME Bad # {} PROVE FALSE
      OBVIOUS
    <3>2. Bad \in SUBSET Nat
      BY <1>1
    <3> HIDE DEF Bad
    <3>3. PICK k \in Bad : \A j \in Bad : k <= j
      BY <3>1, <3>2, Least
    <3>4. k \in 0 .. n /\ kept[k] # f[k]
      BY <3>3 DEF Bad
    <3>5. k # 0 /\ k \in 1 .. n
      BY <1>1, <1>5, <2>1, <3>4
    <3>6. k - 1 \in 0 .. n /\ ~(k <= k - 1)
      BY <1>1, <3>5
    <3>7. kept[k - 1] = f[k - 1]
      BY <3>3, <3>6 DEF Bad
    <3> QED
      BY <1>6, <2>1, <3>4, <3>5, <3>7
  <2>3. kept = [i \in 0 .. n |-> kept[i]]
    BY <1>8 DEF Keeping
  <2>4. \A i \in 0 .. n : kept[i] = f[i]
    BY <2>2
  <2> HIDE DEF Bad
  <2> QED
    BY <1>5, <2>3, <2>4
<1> QED
  BY <1>5, <1>6, <1>8, <1>9 DEF V, Next1, KeptBy

(* What is kept of s is in S, and every element of s that is in S is kept. *)
LEMMA KeepFacts ==
    ASSUME NEW T, NEW s \in Seq(T), NEW S
    PROVE  /\ Keep(s, S) \in Seq(T \cap S)
           /\ \A e \in S : Contains(s, e) => Contains(Keep(s, S), e)
PROOF
<1> DEFINE n == Len(s)
<1>f. PICK f : KeptBy(T, s, S, f)
  BY KeepSteps
<1>1. /\ f \in [0 .. n -> Seq(T \cap S)] /\ Keep(s, S) = f[n] /\ f[0] = <<>>
      /\ \A i \in 1 .. n : f[i] = IF s[i] \in S THEN Append(f[i - 1], s[i]) ELSE f[i - 1]
  BY <1>f DEF KeptBy
<1>2. n \in Nat /\ \A i \in 1 .. n : s[i] \in T
  BY LenProperties, ElementOfSeq
<1> HIDE DEF n
<1> DEFINE Bad == {k \in 0 .. n : ~\A i \in 1 .. k : s[i] \in S => Contains(f[k], s[i])}
<1>3. Bad = {}
  <2>1. SUFFICES ASSUME Bad # {} PROVE FALSE
    OBVIOUS
  <2>2. Bad \in SUBSET Nat
    BY <1>2
  <2> HIDE DEF Bad
  <2>3. PICK k \in Bad : \A j \in Bad : k <= j
    BY <2>1, <2>2, Least
  <2>4. PICK i \in 1 .. k : s[i] \in S /\ ~Contains(f[k], s[i])
    BY <2>3 DEF Bad
  <2>5. k \in 1 .. n /\ k - 1 \in 0 .. n /\ ~(k <= k - 1) /\ i \in 1 .. n
    BY <1>2, <2>3, <2>4 DEF Bad
  <2>6. f[k - 1] \in Seq(T \cap S)
    BY <1>1, <2>5
  <2>7. i \in 1 .. k - 1 => Contains(f[k - 1], s[i])
    BY <2>3, <2>4, <2>5 DEF Bad
  <2>8. CASE s[k] \in S
    <3>1. f[k] = Append(f[k - 1], s[k]) /\ s[k] \in T \cap S
      BY <1>1, <1>2, <2>5, <2>8
    <3>2. /\ Len(f[k]) = Len(f[k - 1]) + 1 /\ f[k][Len(f[k - 1]) + 1] = s[k]
          /\ \A j \in 1 .. Len(f[k - 1]) : f[k][j] = f[k - 1][j]
      BY <2>6, <3>1, AppendProperties
    <3>3. Len(f[k - 1]) \in Nat
      BY <2>6, LenProperties
    <3>4. CASE i = k
      BY <2>4, <3>2, <3>3, <3>4 DEF Contains
    <3>5. CASE i # k
      <4>1. i \in 1 .. k - 1
        BY <2>4, <2>5, <3>5
      <4>2. PICK j \in 1 .. Len(f[k - 1]) : f[k - 1][j] = s[i]
        BY <2>7, <4>1 DEF Contains
      <4> QED
        BY <2>4, <3>2, <3>3, <4>2 DEF Contains
    <3> QED
      BY <3>4, <3>5
  <2>9. CASE s[k] \notin S
    <3>1. f[k] = f[k - 1] /\ i # k
      BY <1>1, <2>4, <2>5, <2>9
    <3>2. i \in 1 .. k - 1
      BY <2>4, <2>5, <3>1
    <3> QED
      BY <2>4, <2>7, <3>1, <3>2
  <2> QED
    BY <2>8, <2>9
<1>4. \A i \in 1 .. n : s[i] \in S => Contains(f[n], s[i])
  <2>1. n \in 0 .. n
    BY <1>2
  <2>2. n \notin Bad
    BY <1>3
  <2> QED
    BY <2>1, <2>2
<1>5. \A e \in S : Contains(s, e) => Contains(f[n], e)
  BY <1>4 DEF Contains, n
<1>6. f[n] \in Seq(T \cap S)
  BY <1>1, <1>2
<1> QED
  BY <1>1, <1>5, <1>6

(* What one piece of mail does to the queue of questions.                  *)
MailType == [type : {"ask", "withdrawn"}, id : Request]

(* One message adds what it asks, and takes away only what it withdraws.   *)
LEMMA WithMailFacts ==
    ASSUME NEW q \in Seq(Request), NEW m \in MailType
    PROVE  /\ WithMail(q, m) \in Seq(Request)
           /\ m.type = "ask" => Contains(WithMail(q, m), m.id)
           /\ \A r \in Request : r # m.id \/ m.type = "ask" =>
                 (Contains(q, r) => Contains(WithMail(q, m), r))
PROOF
<1>1. m.id \in Request /\ m.type \in {"ask", "withdrawn"}
  BY DEF MailType
<1>2. CASE m.type = "withdrawn"
  <2>1. PICK S : S = Request \ {m.id}
    OBVIOUS
  <2>2. WithMail(q, m) = Keep(q, S)
    BY <1>2, <2>1 DEF WithMail
  <2>3. Keep(q, S) \in Seq(Request \cap S) /\ \A e \in S : Contains(q, e) => Contains(Keep(q, S), e)
    BY KeepFacts
  <2>4. Request \cap S \subseteq Request
    OBVIOUS
  <2>5. Keep(q, S) \in Seq(Request)
    BY <2>3, <2>4, SeqMonotonic
  <2> QED
    BY <1>2, <2>1, <2>2, <2>3, <2>5
<1>3. CASE m.type = "ask" /\ Contains(q, m.id)
  BY <1>3 DEF WithMail
<1>4. CASE m.type = "ask" /\ ~Contains(q, m.id)
  <2>1. WithMail(q, m) = Append(q, m.id)
    BY <1>4 DEF WithMail
  <2>2. Append(q, m.id) \in Seq(Request) /\ Len(Append(q, m.id)) = Len(q) + 1
        /\ Append(q, m.id)[Len(q) + 1] = m.id
        /\ \A i \in 1 .. Len(q) : Append(q, m.id)[i] = q[i]
    BY <1>1, AppendProperties
  <2>3. Len(q) \in Nat
    BY LenProperties
  <2>4. \A r : Contains(q, r) => Contains(Append(q, m.id), r)
    BY <2>2, <2>3 DEF Contains
  <2>5. Contains(Append(q, m.id), m.id)
    BY <2>2, <2>3 DEF Contains
  <2> QED
    BY <2>1, <2>2, <2>4, <2>5
<1> QED
  BY <1>1, <1>2, <1>3, <1>4

(* The queue goes through the mail one item at a time.                     *)
ShownBy(f) ==
    /\ f \in [0 .. Len(outbox) -> Seq(Request)]
    /\ Shown = f[Len(outbox)] /\ f[0] = asks
    /\ \A i \in 1 .. Len(outbox) : f[i] = WithMail(f[i - 1], outbox[i])

Showing(f) ==
    f = [i \in 0 .. Len(outbox) |-> IF i = 0 THEN asks ELSE WithMail(f[i - 1], outbox[i])]

(* The queue goes message by message through the mail.                     *)
LEMMA ShownSteps ==
    ASSUME asks \in Seq(Request), outbox \in Seq(MailType)
    PROVE  \E f : ShownBy(f)
PROOF
<1> DEFINE V == Seq(Request)
           n == Len(outbox)
           step == [i \in 1 .. n |-> [q \in V |-> WithMail(q, outbox[i])]]
           shown == CHOOSE f : Showing(f)
<1>1. n \in Nat /\ \A i \in 1 .. n : outbox[i] \in MailType
  BY LenProperties, ElementOfSeq
<1>2. \A i \in 1 .. n : \A q \in V : WithMail(q, outbox[i]) \in V
  BY <1>1, WithMailFacts
<1>3. step \in [1 .. n -> [V -> V]]
  BY <1>2
<1>4. \A i \in 1 .. n : \A q \in V : step[i][q] = WithMail(q, outbox[i])
  OBVIOUS
<1>o. asks \in V
  OBVIOUS
<1> HIDE DEF V, step, n
<1>5. PICK f : Steps(V, asks, n, step, f)
  <2>1. n \in Nat /\ asks \in V /\ step \in [1 .. n -> [V -> V]]
    BY <1>1, <1>o, <1>3
  <2> QED
    BY <2>1, StepsExist
<1>6. f \in [0 .. n -> V] /\ f[0] = asks /\ \A i \in 1 .. n : f[i] = step[i][f[i - 1]]
  BY <1>5 DEF Steps
<1>7. \A i \in 1 .. n : i - 1 \in 0 .. n /\ f[i - 1] \in V /\ f[i] = WithMail(f[i - 1], outbox[i])
  BY <1>1, <1>4, <1>6
<1>8. Showing(f)
  <2>1. f = [i \in 0 .. n |-> f[i]]
    BY <1>6
  <2>2. \A i \in 0 .. n : f[i] = IF i = 0 THEN asks ELSE WithMail(f[i - 1], outbox[i])
    <3>1. \A i \in 0 .. n : i = 0 \/ i \in 1 .. n
      BY <1>1
    <3> QED
      BY <1>6, <1>7, <3>1
  <2> QED
    BY <2>1, <2>2 DEF Showing, n
<1>9. Shown = shown[n] /\ Showing(shown)
  BY <1>8 DEF Shown, Showing, n
<1> HIDE DEF shown
<1>10. shown = f
  <2> DEFINE Bad == {i \in 0 .. n : shown[i] # f[i]}
  <2>1. \A i \in 0 .. n : shown[i] = IF i = 0 THEN asks ELSE WithMail(shown[i - 1], outbox[i])
    BY <1>9 DEF Showing, n
  <2>2. Bad = {}
    <3>1. SUFFICES ASSUME Bad # {} PROVE FALSE
      OBVIOUS
    <3>2. Bad \in SUBSET Nat
      BY <1>1
    <3> HIDE DEF Bad
    <3>3. PICK k \in Bad : \A j \in Bad : k <= j
      BY <3>1, <3>2, Least
    <3>4. k \in 0 .. n /\ shown[k] # f[k]
      BY <3>3 DEF Bad
    <3>5. k # 0 /\ k \in 1 .. n
      BY <1>1, <1>6, <2>1, <3>4
    <3>6. k - 1 \in 0 .. n /\ ~(k <= k - 1)
      BY <1>1, <3>5
    <3>7. shown[k - 1] = f[k - 1]
      BY <3>3, <3>6 DEF Bad
    <3> QED
      BY <1>7, <2>1, <3>4, <3>5, <3>7
  <2>3. shown = [i \in 0 .. n |-> shown[i]]
    BY <1>9 DEF Showing, n
  <2>4. \A i \in 0 .. n : shown[i] = f[i]
    BY <2>2
  <2> HIDE DEF Bad
  <2> QED
    BY <1>6, <2>3, <2>4
<1> QED
  BY <1>6, <1>7, <1>9, <1>10 DEF V, n, ShownBy

(* A question on screen, or asked in the mail, that the mail does not take *)
(* back is on screen once the mail has been read.                          *)
LEMMA ShownFacts ==
    ASSUME asks \in Seq(Request), outbox \in Seq(MailType)
    PROVE  /\ Shown \in Seq(Request)
           /\ \A r \in Request :
                (Contains(asks, r) \/ Mail("ask", r)) /\ ~Mail("withdrawn", r) => Contains(Shown, r)
PROOF
<1>1. PICK f : ShownBy(f)
  BY ShownSteps
<1>2. PICK n : n = Len(outbox)
  OBVIOUS
<1>3. /\ f \in [0 .. n -> Seq(Request)] /\ Shown = f[n] /\ f[0] = asks
      /\ \A i \in 1 .. n : f[i] = WithMail(f[i - 1], outbox[i])
  BY <1>1, <1>2 DEF ShownBy
<1>4. n \in Nat /\ DOMAIN outbox = 1 .. n /\ \A i \in 1 .. n : outbox[i] \in MailType
  BY <1>2, LenProperties, ElementOfSeq
<1>5. ASSUME NEW r \in Request, Contains(asks, r) \/ Mail("ask", r), ~Mail("withdrawn", r)
      PROVE  Contains(f[n], r)
  <2> DEFINE Due(k) == Contains(asks, r) \/ \E i \in 1 .. k : outbox[i].type = "ask" /\ outbox[i].id = r
             Bad == {k \in 0 .. n : Due(k) /\ ~Contains(f[k], r)}
  <2>1. \A i \in 1 .. n : outbox[i].type = "ask" \/ outbox[i].id # r
    BY <1>4, <1>5 DEF Mail, MailType
  <2>2. Bad = {}
    <3>1. SUFFICES ASSUME Bad # {} PROVE FALSE
      OBVIOUS
    <3>2. Bad \in SUBSET Nat
      BY <1>4
    <3> HIDE DEF Bad
    <3>3. PICK k \in Bad : \A j \in Bad : k <= j
      BY <3>1, <3>2, Least
    <3>4. k \in 0 .. n /\ Due(k) /\ ~Contains(f[k], r)
      BY <3>3 DEF Bad
    <3>5. k # 0
      BY <1>3, <3>4
    <3>6. k \in 1 .. n /\ k - 1 \in 0 .. n /\ ~(k <= k - 1)
      BY <1>4, <3>4, <3>5
    <3>7. Due(k - 1) => Contains(f[k - 1], r)
      BY <3>3, <3>6 DEF Bad
    <3>8. PICK q, m : q = f[k - 1] /\ m = outbox[k]
      OBVIOUS
    <3>9. q \in Seq(Request) /\ m \in MailType /\ f[k] = WithMail(q, m)
      BY <1>3, <1>4, <3>6, <3>8
    <3>a. m.type = "ask" => Contains(WithMail(q, m), m.id)
      BY <3>9, WithMailFacts
    <3>b. r # m.id \/ m.type = "ask" => (Contains(q, r) => Contains(WithMail(q, m), r))
      BY <3>9, WithMailFacts
    <3>10. m.type = "ask" \/ m.id # r
      BY <2>1, <3>6, <3>8
    <3>11. CASE Due(k - 1)
      BY <3>4, <3>7, <3>8, <3>9, <3>10, <3>11, <3>b
    <3>12. CASE ~Due(k - 1)
      <4>1. PICK i \in 1 .. k : outbox[i].type = "ask" /\ outbox[i].id = r
        BY <3>4, <3>12
      <4>2. i = k
        BY <1>4, <3>6, <3>12, <4>1
      <4> QED
        BY <3>4, <3>8, <3>9, <4>1, <4>2, <3>a
    <3> QED
      BY <3>11, <3>12
  <2>3. Due(n)
    BY <1>4, <1>5 DEF Mail
  <2>4. n \in 0 .. n
    BY <1>4
  <2>5. n \notin Bad
    BY <2>2
  <2> QED
    BY <2>3, <2>4, <2>5
<1> QED
  BY <1>3, <1>4, <1>5

-----------------------------------------------------------------------------
(* Types.                                                                  *)

Turn == [pc : PCs, on : Session \cup {0}, prose : SUBSET Prompt,
         first : BOOLEAN, instructing : BOOLEAN]
Update == [of : Prompt, kind : {"text", "step", "done", "cancelled"}]
Card == [card : {"none", "running", "completed", "failed"}, of : SUBSET Prompt]
Others(p) == run' \in [Prompt -> Turn] /\ \A q \in Prompt \ {p} : run'[q] = run[q]

(* The bounds are naturals.                                                *)
LEMMA Bounds == PROMPTS \in Nat /\ ASKS \in Nat /\ CANCELS \in Nat /\ UPDATES \in Nat /\ DEATHS \in Nat
BY CopilotAssumption

(* A turn moves on, and the others stay where they are.                    *)
LEMMA GoesFacts ==
    ASSUME TypeOK, NEW p \in Prompt, NEW to \in PCs, Goes(p, to)
    PROVE  /\ Others(p)
           /\ run'[p] = [pc |-> to, on |-> run[p].on, prose |-> run[p].prose,
                         first |-> run[p].first, instructing |-> run[p].instructing]
PROOF
<1>1. run \in [Prompt -> Turn]
  BY DEF TypeOK, Turn
<1>2. PICK x \in Turn : x = run[p]
  BY <1>1
<1>3. PICK y : y = [x EXCEPT !.pc = to]
  OBVIOUS
<1>4. y = [pc |-> to, on |-> x.on, prose |-> x.prose, first |-> x.first,
           instructing |-> x.instructing]
  BY <1>3 DEF Turn
<1>5. y \in Turn
  BY <1>4 DEF Turn
<1>6. run' = [run EXCEPT ![p] = y]
  BY <1>2, <1>3 DEF Goes
<1> QED
  BY <1>1, <1>2, <1>4, <1>5, <1>6 DEF Others

(* A turn that has heard something changes its place, its prose and its    *)
(* first, and nothing else.                                                *)
LEMMA HearsFacts ==
    ASSUME TypeOK, NEW p \in Prompt, NEW to \in PCs, NEW prose \in SUBSET Prompt, Hears(p, to, prose)
    PROVE  /\ Others(p)
           /\ run'[p] = [pc |-> to, on |-> run[p].on, prose |-> prose,
                         first |-> FALSE, instructing |-> run[p].instructing]
PROOF
<1>1. run \in [Prompt -> Turn]
  BY DEF TypeOK, Turn
<1>2. PICK x \in Turn : x = run[p]
  BY <1>1
<1>3. PICK y : y = [x EXCEPT !.pc = to, !.first = FALSE, !.prose = prose]
  OBVIOUS
<1>4. y = [pc |-> to, on |-> x.on, prose |-> prose, first |-> FALSE,
           instructing |-> x.instructing]
  BY <1>3 DEF Turn
<1>5. y \in Turn
  BY <1>4 DEF Turn
<1>6. run' = [run EXCEPT ![p] = y]
  BY <1>2, <1>3 DEF Hears
<1> QED
  BY <1>1, <1>2, <1>4, <1>5, <1>6 DEF Others

BoardOK ==
    /\ turn \in {"idle", "running", "done", "error"}
    /\ current \in Prompt \cup {0} /\ asks \in Seq(Request) /\ log \in [Prompt -> Card]
CopilotOK ==
    /\ session \in Session \cup {0} /\ instructed \in BOOLEAN
    /\ outbox \in Seq(MailType) /\ waker \in Prompt \cup {0} /\ run \in [Prompt -> Turn]
ClientOK ==
    /\ queue \in [Session -> Seq(Update)] /\ readers \in [Session -> Seq(Prompt)]
    /\ active \in [Session -> BOOLEAN] /\ cancelled \in [Session -> BOOLEAN]
HarnessOK ==
    /\ todo \in [Session -> Seq(Prompt)] /\ dead \subseteq Session
    /\ got \in [Session -> Seq([of : Prompt, instructing : BOOLEAN])]
RequestsOK ==
    /\ owner \in Seq(Prompt) /\ Len(owner) <= ASKS /\ blocked \subseteq Request
    /\ told \in [Request -> {"nothing", "selected", "cancelled"}] /\ chosen \subseteq Request
BoundsOK ==
    /\ sent \in 0 .. PROMPTS /\ opened \in 0 .. PROMPTS
    /\ cancels \in 0 .. CANCELS /\ updates \in 0 .. UPDATES

(* The type invariant, part by part.                                       *)
LEMMA TypeParts ==
    ASSUME TypeOK
    PROVE  BoardOK /\ CopilotOK /\ ClientOK /\ HarnessOK /\ RequestsOK /\ BoundsOK
BY DEF TypeOK, BoardOK, CopilotOK, ClientOK, HarnessOK, RequestsOK, BoundsOK, Card, Turn,
       Update, MailType

(* The parts make the type invariant.                                      *)
LEMMA TypeWhole ==
    ASSUME BoardOK', CopilotOK', ClientOK', HarnessOK', RequestsOK', BoundsOK'
    PROVE  TypeOK'
BY DEF TypeOK, BoardOK, CopilotOK, ClientOK, HarnessOK, RequestsOK, BoundsOK, Card, Turn,
       Update, MailType

(* What the mail is about was asked.                                       *)
Made == \A i \in DOMAIN outbox : outbox[i].id \in DOMAIN owner

(* What is written to a transcript, and what ends a turn.                  *)
LEMMA WritesFacts ==
    ASSUME BoardOK, NEW p \in Prompt, NEW origins \in SUBSET Prompt, Writes(p, origins)
    PROVE  /\ log' \in [Prompt -> Card] /\ log'[p].of = log[p].of \cup origins
           /\ \A q \in Prompt \ {p} : log'[q] = log[q]
PROOF
<1>1. PICK x \in Card : x = log[p]
  BY DEF BoardOK
<1>2. PICK y : y = [x EXCEPT !.of = @ \cup origins]
  OBVIOUS
<1>3. y \in Card /\ y.of = x.of \cup origins
  BY <1>2 DEF Card
<1>4. log' = [log EXCEPT ![p] = y]
  BY <1>1, <1>2 DEF Writes
<1> QED
  BY <1>1, <1>3, <1>4 DEF BoardOK

(* A card that is closed is one transcript's.                              *)
LEMMA EndsFacts ==
    ASSUME BoardOK, NEW p \in Prompt, NEW origins \in SUBSET Prompt,
           NEW card \in {"completed", "failed"}, Ends(p, origins, card)
    PROVE  /\ log' \in [Prompt -> Card] /\ log'[p].of = log[p].of \cup origins
           /\ \A q \in Prompt \ {p} : log'[q] = log[q]
           /\ turn' \in {"done", "error"} /\ asks' = <<>>
PROOF
<1>1. PICK y : y = [card |-> card, of |-> log[p].of \cup origins]
  OBVIOUS
<1>2. y \in Card /\ y.of = log[p].of \cup origins
  BY <1>1 DEF Card, BoardOK
<1>3. log' = [log EXCEPT ![p] = y]
  BY <1>1 DEF Ends
<1> QED
  BY <1>2, <1>3 DEF BoardOK, Ends

(* Mail ends the wait that began last.                                     *)
LEMMA PostFacts ==
    ASSUME TypeOK, NEW items \in Seq(MailType), Post(items)
    PROVE  /\ outbox' = outbox \o items /\ outbox' \in Seq(MailType)
           /\ waker' \in Prompt \cup {0} /\ run' \in [Prompt -> Turn]
           /\ \A q \in Prompt :
                \/ run'[q] = run[q]
                \/ /\ q = waker /\ run[q].pc = "wait" /\ items # <<>>
                   /\ run'[q] = [pc |-> "woken", on |-> run[q].on, prose |-> run[q].prose,
                                 first |-> run[q].first, instructing |-> run[q].instructing]
           /\ items = <<>> => waker' = waker /\ run' = run
           /\ items # <<>> => /\ waker' = 0
                              /\ \A q \in Prompt : q = waker => run'[q].pc # "wait"
PROOF
<1>1. CopilotOK
  BY TypeParts
<1>2. outbox' = outbox \o items /\ outbox' \in Seq(MailType)
  BY <1>1, ConcatProperties DEF Post, CopilotOK
<1>3. CASE items = <<>>
  BY <1>1, <1>2, <1>3 DEF Post, CopilotOK
<1>4. CASE items # <<>> /\ waker # 0 /\ run[waker].pc = "wait"
  <2>1. waker \in Prompt /\ Goes(waker, "woken") /\ waker' = 0
    BY <1>1, <1>4 DEF Post, CopilotOK
  <2>2. PICK p \in Prompt : p = waker
    BY <2>1
  <2>3. Goes(p, "woken") /\ "woken" \in PCs
    BY <2>1, <2>2 DEF PCs
  <2>4. /\ Others(p)
        /\ run'[p] = [pc |-> "woken", on |-> run[p].on, prose |-> run[p].prose,
                      first |-> run[p].first, instructing |-> run[p].instructing]
    BY <2>3, GoesFacts
  <2> QED
    BY <1>2, <1>4, <2>1, <2>2, <2>4 DEF Others
<1>5. CASE items # <<>> /\ ~(waker # 0 /\ run[waker].pc = "wait")
  <2>1. waker' = 0 /\ run' = run
    BY <1>5 DEF Post
  <2>2. 0 \notin Prompt
    BY DEF Prompt
  <2> QED
    BY <1>1, <1>2, <1>5, <2>1, <2>2 DEF CopilotOK
<1> QED
  BY <1>3, <1>4, <1>5

(* Requests taken back are answered, and the human is told of those held.  *)
LEMMA WithdrawnFacts ==
    ASSUME TypeOK, NEW gone \in SUBSET DOMAIN owner, Withdrawn(gone)
    PROVE  /\ told' = [r \in Request |-> IF r \in gone THEN "cancelled" ELSE told[r]]
           /\ blocked' = blocked \ gone
           /\ \E items \in Seq(MailType) :
                /\ Post(items)
                /\ \A i \in DOMAIN items : items[i].type = "withdrawn" /\ items[i].id \in gone \cap blocked
                /\ gone \cap blocked = {} => items = <<>>
PROOF
<1>1. PICK made : made = [r \in DOMAIN owner |-> r]
  OBVIOUS
<1>2. PICK T, S : T = DOMAIN owner /\ S = gone \cap blocked
  OBVIOUS
<1>3. owner \in Seq(Prompt) /\ Len(owner) \in Nat /\ Len(owner) <= ASKS /\ T = 1 .. Len(owner)
  BY <1>2, TypeParts, LenProperties DEF RequestsOK
<1>4. made \in [1 .. Len(owner) -> T]
  BY <1>1, <1>2, <1>3
<1>5. made \in Seq(T)
  BY <1>3, <1>4, SeqDef
<1>6. PICK held : held = Keep(made, S)
  OBVIOUS
<1>7. held \in Seq(T \cap S)
  BY <1>5, <1>6, KeepFacts
<1>8. PICK items : items = [i \in DOMAIN held |-> [type |-> "withdrawn", id |-> held[i]]]
  OBVIOUS
<1>9. Post(items)
  BY <1>1, <1>2, <1>6, <1>8 DEF Withdrawn
<1>10. T \subseteq Request
  BY <1>3, Bounds DEF Request
<1>11. Len(held) \in Nat /\ DOMAIN held = 1 .. Len(held) /\ \A i \in 1 .. Len(held) : held[i] \in T \cap S
  BY <1>7, LenProperties, ElementOfSeq
<1>12. \A i \in DOMAIN held : items[i] \in MailType /\ items[i].type = "withdrawn" /\ items[i].id \in S
  BY <1>8, <1>10, <1>11 DEF MailType
<1>13. items \in [1 .. Len(held) -> MailType]
  BY <1>8, <1>11, <1>12
<1>14. items \in Seq(MailType) /\ DOMAIN items = DOMAIN held
  BY <1>8, <1>11, <1>13, SeqDef
<1>15. S = {} => items = <<>>
  <2>1. SUFFICES ASSUME S = {} PROVE items = <<>>
    OBVIOUS
  <2>2. 1 \notin 1 .. Len(held)
    BY <1>11, <2>1
  <2>3. Len(items) = Len(held) /\ Len(held) = 0
    BY <1>11, <1>13, <1>14, <2>2, LenProperties
  <2> QED
    BY <1>14, <2>3, EmptySeq
<1> QED
  BY <1>2, <1>9, <1>12, <1>14, <1>15 DEF Withdrawn

-----------------------------------------------------------------------------
(* Every step keeps the types, and the sessions numbered.                  *)

TInv == TypeOK /\ Counted /\ Readers /\ Unmade /\ Made

On == {"wait", "woken", "top", "last"}
Before == {"off", "context", "start"}
Onward(q) ==
    /\ run[q].pc \notin Before => run'[q].pc \notin Before
    /\ run'[q].on = run[q].on \/ (run[q].pc \in Before /\ run'[q].on \in 1 .. opened')
    /\ run'[q].pc \in On => run'[q].on # 0
    /\ run'[q].pc \in Before => run'[q].on = 0

(* A turn that is past its start stays so.                                 *)
LEMMA PastGrows ==
    ASSUME TypeOK, run' \in [Prompt -> Turn],
           \A q \in Prompt : run[q].pc \notin Before => run'[q].pc \notin Before
    PROVE  /\ Cardinality(Past) \in Nat /\ Cardinality(Past') \in Nat
           /\ Cardinality(Past) <= Cardinality(Past') /\ Cardinality(Past') <= PROMPTS
           /\ \A p \in Prompt : run[p].pc \in Before /\ run'[p].pc \notin Before =>
                 Cardinality(Past) + 1 <= Cardinality(Past')
PROOF
<1>1. Prompt = 1 .. PROMPTS /\ PROMPTS \in Nat
  BY Bounds DEF Prompt
<1>2. IsFiniteSet(Prompt) /\ Cardinality(Prompt) = PROMPTS
  BY <1>1, FS_Interval
<1>3. PICK P, Q : P = Past /\ Q = Past'
  OBVIOUS
<1>4. P \subseteq Prompt /\ Q \subseteq Prompt /\ P \subseteq Q
  BY <1>3 DEF Past, Before
<1>5. /\ IsFiniteSet(P) /\ IsFiniteSet(Q) /\ Cardinality(Q) <= Cardinality(Prompt)
      /\ Cardinality(P) <= Cardinality(Q)
  BY <1>2, <1>4, FS_Subset
<1>6. Cardinality(P) \in Nat /\ Cardinality(Q) \in Nat
  BY <1>5, FS_CardinalityType
<1>7. ASSUME NEW p \in Prompt, run[p].pc \in Before, run'[p].pc \notin Before
      PROVE  Cardinality(P) + 1 <= Cardinality(Q)
  <2>1. p \notin P /\ p \in Q
    BY <1>3, <1>7 DEF Past, Before
  <2>2. P \cup {p} \subseteq Q
    BY <1>4, <2>1
  <2>3. IsFiniteSet(P \cup {p}) /\ Cardinality(P \cup {p}) = Cardinality(P) + 1
    BY <1>5, <2>1, FS_AddElement
  <2> QED
    BY <1>5, <2>2, <2>3, FS_Subset
<1> QED
  BY <1>2, <1>3, <1>5, <1>6, <1>7

(* A turn that is not past its start leaves room for its session in the    *)
(* count.                                                                  *)
LEMMA PastRoom ==
    ASSUME TypeOK, NEW p \in Prompt, run[p].pc \in Before
    PROVE  Cardinality(Past) \in Nat /\ Cardinality(Past) + 1 <= PROMPTS
PROOF
<1>1. Prompt = 1 .. PROMPTS /\ PROMPTS \in Nat
  BY Bounds DEF Prompt
<1>2. IsFiniteSet(Prompt) /\ Cardinality(Prompt) = PROMPTS
  BY <1>1, FS_Interval
<1>3. Past \subseteq Prompt /\ p \notin Past
  BY DEF Past, Before
<1>4. IsFiniteSet(Past) /\ Cardinality(Past) \in Nat
  BY <1>2, <1>3, FS_Subset, FS_CardinalityType
<1>5. IsFiniteSet(Past \cup {p}) /\ Cardinality(Past \cup {p}) = Cardinality(Past) + 1
  BY <1>3, <1>4, FS_AddElement
<1>6. Past \cup {p} \subseteq Prompt
  BY <1>3
<1> QED
  BY <1>2, <1>4, <1>5, <1>6, FS_Subset

(* A step that dispatches nothing keeps the count of sessions.             *)
LEMMA CountedKept ==
    ASSUME TInv, CopilotOK', opened' = opened, session' = session, \A q \in Prompt : Onward(q)
    PROVE  Counted'
PROOF
<1>1. run' \in [Prompt -> Turn] /\ opened \in Nat
  BY TypeParts DEF CopilotOK, TInv, BoundsOK
<1>2. /\ Cardinality(Past) \in Nat /\ Cardinality(Past') \in Nat
      /\ Cardinality(Past) <= Cardinality(Past')
  BY <1>1, PastGrows DEF TInv, Onward
<1>3. opened <= Cardinality(Past) /\ session <= opened
  BY DEF TInv, Counted
<1>4. opened' <= Cardinality(Past') /\ session' <= opened'
  BY <1>1, <1>2, <1>3
<1>5. \A q \in Prompt :
        /\ run'[q].on <= opened'
        /\ run'[q].pc \in On => run'[q].on # 0
        /\ run'[q].pc \in Before => run'[q].on = 0
  BY <1>1 DEF TInv, Counted, Onward
<1> QED
  BY <1>4, <1>5 DEF Counted, On, Before

(* A reader of a turn's session stays one.                                 *)
LEMMA ReadersKept ==
    ASSUME TInv, ClientOK', \A q \in Prompt : Onward(q),
           \A s \in Session : \A i \in DOMAIN readers'[s] :
               \/ \E j \in DOMAIN readers[s] : readers'[s][i] = readers[s][j]
               \/ run'[readers'[s][i]].on = s
    PROVE  Readers'
PROOF
<1>1. SUFFICES ASSUME NEW s \in Session, NEW i \in DOMAIN readers'[s]
               PROVE  run'[readers'[s][i]].on = s
  BY DEF Readers
<1>2. CASE run'[readers'[s][i]].on = s
  BY <1>2
<1>3. ASSUME NEW j \in DOMAIN readers[s], readers'[s][i] = readers[s][j]
      PROVE  run'[readers'[s][i]].on = s
  <2>1. readers[s] \in Seq(Prompt)
    BY TypeParts DEF TInv, ClientOK
  <2>2. PICK p \in Prompt : p = readers[s][j]
    BY <2>1, LenProperties, ElementOfSeq
  <2>3. run[p].on = s /\ s # 0
    BY <2>2 DEF TInv, Readers, Session
  <2>4. run[p].pc \notin Before
    BY <2>3 DEF TInv, Counted, Before
  <2>5. run'[p].on = s
    BY <2>3, <2>4 DEF Onward
  <2> QED
    BY <1>3, <2>2, <2>5
<1> QED
  BY <1>1, <1>2, <1>3

(* Reads that stay pending.                                                *)
LEMMA ReadersStay ==
    ASSUME TInv, ClientOK', \A q \in Prompt : Onward(q), readers' = readers
    PROVE  Readers'
BY ReadersKept

(* A turn that is on has a session.                                        *)
LEMMA OnSession ==
    ASSUME TInv, NEW p \in Prompt, run[p].pc \in On
    PROVE  run[p].on \in Session /\ run[p].on \in 1 .. opened
BY TypeParts, Bounds DEF TInv, Counted, CopilotOK, BoundsOK, Turn, Session, On

(* What is in the mail is about requests of some prompt.                   *)
LEMMA Origins ==
    ASSUME TInv
    PROVE  {owner[outbox[i].id] : i \in DOMAIN outbox} \in SUBSET Prompt
PROOF
<1>1. owner \in Seq(Prompt)
  BY TypeParts DEF TInv, RequestsOK
<1>2. \A i \in DOMAIN owner : owner[i] \in Prompt
  BY <1>1, LenProperties, ElementOfSeq
<1> QED
  BY <1>2 DEF TInv, Made

(* The turn's end leaves the session's variables typed.                    *)
LEMMA TurnOverType ==
    ASSUME TypeOK, NEW s, TurnOver(s)
    PROVE  active' \in [Session -> BOOLEAN] /\ cancelled' \in [Session -> BOOLEAN]
BY TypeParts DEF ClientOK, TurnOver

LEMMA TopTyped ==
    ASSUME TInv, NEW p \in Prompt, Top(p)
    PROVE  TInv'
PROOF
<1>1. /\ BoardOK /\ CopilotOK /\ ClientOK /\ HarnessOK /\ RequestsOK /\ BoundsOK
      /\ TypeOK /\ Counted /\ Readers /\ Unmade /\ Made
  BY TypeParts DEF TInv
<1>2. run[p].pc \in {"top", "woken"} /\ run[p].on \in Session
  BY OnSession DEF Top, On
<1>3. /\ UNCHANGED <<session, instructed, queue, harness, requests, bounds>>
  BY DEF Top
<1>4. HarnessOK' /\ RequestsOK' /\ BoundsOK' /\ Unmade' /\ opened' = opened /\ session' = session
      /\ queue' = queue /\ instructed' = instructed
  BY <1>1, <1>3 DEF harness, requests, bounds, HarnessOK, RequestsOK, BoundsOK, Unmade
<1>5. CASE outbox = <<>>
  <2>1. Goes(p, "wait") /\ waker' = p /\ UNCHANGED <<board, outbox, active, cancelled>>
    BY <1>5 DEF Top
  <2>2. readers' \in [Session -> Seq(Prompt)]
    <3>1. readers' = readers \/ readers' = [readers EXCEPT ![run[p].on] = Append(@, p)]
      BY <1>5 DEF Top
    <3>2. readers[run[p].on] \in Seq(Prompt)
      BY <1>1, <1>2 DEF ClientOK
    <3>3. Append(readers[run[p].on], p) \in Seq(Prompt)
      BY <3>2, AppendProperties
    <3> QED
      BY <1>1, <3>1, <3>3 DEF ClientOK
  <2>3. Others(p) /\ run'[p] = [pc |-> "wait", on |-> run[p].on, prose |-> run[p].prose,
                               first |-> run[p].first, instructing |-> run[p].instructing]
    BY <1>1, <2>1, GoesFacts DEF PCs
  <2>4. BoardOK' /\ CopilotOK' /\ ClientOK'
    BY <1>1, <1>4, <2>1, <2>2, <2>3 DEF BoardOK, CopilotOK, ClientOK, board, Others
  <2>5. \A q \in Prompt : Onward(q)
    BY <1>1, <1>2, <1>4, <2>3, OnSession DEF Onward, Others, Counted, Before, On
  <2>6. Counted'
    BY <1>4, <2>4, <2>5, CountedKept
  <2>7. Made'
    BY <1>1, <1>3, <2>1 DEF Made, requests
  <2>8. Readers'
    <3>1. PICK o \in Session : o = run[p].on
      BY <1>2
    <3>2. readers' = readers \/ readers' = [readers EXCEPT ![o] = Append(@, p)]
      BY <1>5, <3>1 DEF Top
    <3>3. readers \in [Session -> Seq(Prompt)] /\ run'[p].on = o
      BY <1>1, <2>3, <3>1 DEF ClientOK
    <3>4. CASE readers' = readers
      BY <2>4, <2>5, <3>4, ReadersStay
    <3>5. CASE readers' = [readers EXCEPT ![o] = Append(@, p)]
      <4>1. ASSUME NEW s \in Session, NEW i \in DOMAIN readers'[s]
            PROVE  \/ \E j \in DOMAIN readers[s] : readers'[s][i] = readers[s][j]
                   \/ run'[readers'[s][i]].on = s
        <5>1. CASE s # o
          BY <3>3, <3>5, <4>1, <5>1
        <5>2. CASE s = o
          <6>1. readers'[s] = Append(readers[s], p) /\ readers[s] \in Seq(Prompt)
            BY <3>3, <3>5, <5>2
          <6>2. CASE i \in DOMAIN readers[s]
            BY <6>1, <6>2, AppendProperties, LenProperties
          <6>3. CASE i \notin DOMAIN readers[s]
            <7>1. /\ Len(readers[s]) \in Nat /\ DOMAIN readers[s] = 1 .. Len(readers[s])
                  /\ DOMAIN readers'[s] = 1 .. Len(readers[s]) + 1
              BY <6>1, AppendProperties, LenProperties
            <7>2. i = Len(readers[s]) + 1
              BY <4>1, <6>3, <7>1
            <7>3. readers'[s][i] = p
              BY <6>1, <7>2, AppendProperties
            <7> QED
              BY <3>3, <5>2, <7>3
          <6> QED
            BY <6>2, <6>3
        <5> QED
          BY <5>1, <5>2
      <4> QED
        BY <2>4, <2>5, <4>1, ReadersKept
    <3> QED
      BY <3>2, <3>4, <3>5
  <2> QED
    BY <1>4, <2>4, <2>6, <2>7, <2>8, TypeWhole DEF TInv
<1>6. CASE outbox # <<>> /\ Stale(p)
  <2>1. Goes(p, "over") /\ outbox' = <<>> /\ UNCHANGED <<readers, waker, board>>
        /\ (UNCHANGED <<active, cancelled>> \/ TurnOver(run[p].on))
    BY <1>6 DEF Top, Dropped
  <2>2. active' \in [Session -> BOOLEAN] /\ cancelled' \in [Session -> BOOLEAN]
    BY <1>1, <2>1, TurnOverType DEF ClientOK
  <2>3. Others(p) /\ run'[p] = [pc |-> "over", on |-> run[p].on, prose |-> run[p].prose,
                               first |-> run[p].first, instructing |-> run[p].instructing]
    BY <1>1, <2>1, GoesFacts DEF PCs
  <2>4. BoardOK' /\ CopilotOK' /\ ClientOK'
    BY <1>1, <1>4, <2>1, <2>2, <2>3, EmptySeq DEF BoardOK, CopilotOK, ClientOK, board, Others
  <2>5. \A q \in Prompt : Onward(q)
    BY <1>1, <1>2, <1>4, <2>3, OnSession DEF Onward, Others, Counted, Before, On
  <2>6. Counted'
    BY <1>4, <2>4, <2>5, CountedKept
  <2>7. Made'
    BY <2>1 DEF Made
  <2>8. Readers'
    BY <2>1, <2>4, <2>5, ReadersStay
  <2> QED
    BY <1>4, <2>4, <2>6, <2>7, <2>8, TypeWhole DEF TInv
<1>7. CASE outbox # <<>> /\ ~Stale(p)
  <2>1. /\ Writes(p, run[p].prose \cup {owner[outbox[i].id] : i \in DOMAIN outbox})
        /\ asks' = Shown /\ run' = [run EXCEPT ![p].pc = "top", ![p].prose = {}]
        /\ outbox' = <<>> /\ UNCHANGED <<turn, current, active, cancelled, readers, waker>>
    BY <1>7 DEF Top
  <2>2. PICK origins \in SUBSET Prompt :
            origins = run[p].prose \cup {owner[outbox[i].id] : i \in DOMAIN outbox}
    BY <1>1, Origins DEF CopilotOK, Turn
  <2>3. log' \in [Prompt -> Card]
    BY <1>1, <2>1, <2>2, WritesFacts
  <2>4. asks' \in Seq(Request)
    BY <1>1, <2>1, ShownFacts DEF BoardOK, CopilotOK
  <2>5. PICK x \in Turn : x = run[p]
    BY <1>1 DEF CopilotOK
  <2>6. PICK y : y = [x EXCEPT !.pc = "top", !.prose = {}]
    OBVIOUS
  <2>7. y = [pc |-> "top", on |-> x.on, prose |-> {}, first |-> x.first,
             instructing |-> x.instructing]
    BY <2>6 DEF Turn
  <2>8. y \in Turn
    BY <2>7 DEF Turn, PCs
  <2>e. run' = [run EXCEPT ![p] = y]
    BY <2>1, <2>5, <2>6
  <2>9. Others(p) /\ run'[p] = [pc |-> "top", on |-> run[p].on, prose |-> {},
                               first |-> run[p].first, instructing |-> run[p].instructing]
    BY <1>1, <2>5, <2>7, <2>8, <2>e DEF Others, CopilotOK
  <2>10. BoardOK' /\ CopilotOK' /\ ClientOK'
    BY <1>1, <1>4, <2>1, <2>3, <2>4, <2>9, EmptySeq DEF BoardOK, CopilotOK, ClientOK, Others
  <2>11. \A q \in Prompt : Onward(q)
    BY <1>1, <1>2, <1>4, <2>9, OnSession DEF Onward, Others, Counted, Before, On
  <2>12. Counted'
    BY <1>4, <2>10, <2>11, CountedKept
  <2>13. Made'
    BY <2>1 DEF Made
  <2>14. Readers'
    BY <2>1, <2>10, <2>11, ReadersStay
  <2> QED
    BY <1>4, <2>10, <2>12, <2>13, <2>14, TypeWhole DEF TInv
<1> QED
  BY <1>5, <1>6, <1>7

LEMMA LastMailTyped ==
    ASSUME TInv, NEW p \in Prompt, LastMail(p)
    PROVE  TInv'
PROOF
<1>1. /\ BoardOK /\ CopilotOK /\ ClientOK /\ HarnessOK /\ RequestsOK /\ BoundsOK
      /\ TypeOK /\ Counted /\ Readers /\ Unmade /\ Made
  BY TypeParts DEF TInv
<1>2. /\ UNCHANGED <<session, instructed, waker, queue, readers, harness, requests, bounds>>
      /\ outbox' = <<>> /\ TurnOver(run[p].on) /\ Goes(p, "over") /\ run[p].pc = "last"
  BY DEF LastMail
<1>3. HarnessOK' /\ RequestsOK' /\ BoundsOK' /\ Unmade' /\ opened' = opened /\ session' = session
  BY <1>1, <1>2 DEF harness, requests, bounds, HarnessOK, RequestsOK, BoundsOK, Unmade
<1>4. BoardOK'
  <2>1. CASE outbox # <<>>
    <3>1. /\ Writes(p, {owner[outbox[i].id] : i \in DOMAIN outbox})
          /\ asks' = Shown /\ UNCHANGED <<turn, current>>
      BY <2>1 DEF LastMail
    <3>2. log' \in [Prompt -> Card]
      BY <1>1, <3>1, Origins, WritesFacts
    <3>3. asks' \in Seq(Request)
      BY <1>1, <3>1, ShownFacts DEF BoardOK, CopilotOK
    <3> QED
      BY <1>1, <3>1, <3>2, <3>3 DEF BoardOK
  <2>2. CASE outbox = <<>>
    BY <1>1, <2>2 DEF LastMail, board, BoardOK
  <2> QED
    BY <2>1, <2>2
<1>5. Others(p) /\ run'[p] = [pc |-> "over", on |-> run[p].on, prose |-> run[p].prose,
                             first |-> run[p].first, instructing |-> run[p].instructing]
  BY <1>1, <1>2, GoesFacts DEF PCs
<1>6. active' \in [Session -> BOOLEAN] /\ cancelled' \in [Session -> BOOLEAN]
  BY <1>1, <1>2, TurnOverType
<1>7. CopilotOK' /\ ClientOK'
  BY <1>1, <1>2, <1>5, <1>6, EmptySeq DEF CopilotOK, ClientOK, Others
<1>8. \A q \in Prompt : Onward(q)
  BY <1>1, <1>2, <1>3, <1>5, OnSession DEF Onward, Others, Counted, Before, On
<1>9. Counted'
  BY <1>3, <1>7, <1>8, CountedKept
<1>10. Made'
  BY <1>2 DEF Made
<1>11. Readers'
  BY <1>2, <1>7, <1>8, ReadersStay
<1> QED
  BY <1>3, <1>4, <1>7, <1>9, <1>10, <1>11, TypeWhole DEF TInv

(* What a read takes.                                                      *)
LEMMA MessageFacts ==
    ASSUME TypeOK, NEW s \in Session, readers[s] # <<>>, Available(s),
           NEW p, p = Head(readers[s]), NEW m, m = Message(s, p)
    PROVE  /\ p \in Prompt /\ m.of \in Prompt
           /\ m.kind \in {"text", "step", "done", "cancelled", "error"}
           /\ m.kind # "error" => queue[s] # <<>> /\ m = Head(queue[s])
           /\ m.kind = "error" => queue[s] = <<>> /\ s \in dead
PROOF
<1>1. queue[s] \in Seq(Update) /\ readers[s] \in Seq(Prompt)
  BY TypeParts DEF ClientOK
<1>2. p \in Prompt
  BY <1>1, HeadTailProperties
<1>3. CASE queue[s] # <<>>
  <2>1. m = Head(queue[s]) /\ m \in Update
    BY <1>1, <1>3, HeadTailProperties DEF Message
  <2> QED
    BY <1>2, <1>3, <2>1 DEF Update
<1>4. CASE queue[s] = <<>>
  <2>1. m = [of |-> p, kind |-> "error"]
    BY <1>4 DEF Message
  <2> QED
    BY <1>2, <1>4, <2>1 DEF Available
<1> QED
  BY <1>3, <1>4

(* The next read of a session is a turn's.                                 *)
LEMMA ReadsType ==
    ASSUME TypeOK, NEW s \in Session, readers[s] # <<>>, Reads(s)
    PROVE  /\ queue' \in [Session -> Seq(Update)] /\ readers' \in [Session -> Seq(Prompt)]
           /\ \A o \in Session \ {s} : queue'[o] = queue[o] /\ readers'[o] = readers[o]
           /\ readers'[s] = Tail(readers[s])
           /\ queue'[s] = IF queue[s] = <<>> THEN <<>> ELSE Tail(queue[s])
PROOF
<1>1. queue \in [Session -> Seq(Update)] /\ readers \in [Session -> Seq(Prompt)]
  BY TypeParts DEF ClientOK
<1>2. Tail(readers[s]) \in Seq(Prompt)
  BY <1>1, HeadTailProperties
<1>3. PICK q : q = IF queue[s] = <<>> THEN <<>> ELSE Tail(queue[s])
  OBVIOUS
<1>4. q \in Seq(Update)
  BY <1>1, <1>3, HeadTailProperties, EmptySeq
<1>5. queue' = [queue EXCEPT ![s] = q] /\ readers' = [readers EXCEPT ![s] = Tail(readers[s])]
  BY <1>3 DEF Reads
<1> QED
  BY <1>1, <1>2, <1>3, <1>4, <1>5

(* What hearing an update does to the turn, the board and the client.      *)
LEMMA HeardFacts ==
    ASSUME TInv, NEW s \in Session, NEW p \in Prompt, NEW m, m.of \in Prompt,
           run[p].pc # "over",
           CASE m.kind = "text" -> HearText(p, m.of)
             [] m.kind = "step" -> HearStep(s, p, m.of)
             [] OTHER -> HearEnd(s, p, m)
    PROVE  /\ BoardOK' /\ current' = current
           /\ active' \in [Session -> BOOLEAN] /\ cancelled' \in [Session -> BOOLEAN]
           /\ Others(p) /\ run'[p].pc \in {"top", "last", "over"}
           /\ run'[p].on = run[p].on /\ run'[p].instructing = run[p].instructing
           /\ \A q \in Prompt : q # current => log'[q] = log[q]
           /\ turn' = turn \/ turn' # "running"
           /\ run'[p].pc = "last" => p = current
PROOF
<1>1. /\ BoardOK /\ CopilotOK /\ ClientOK /\ TypeOK
  BY TypeParts DEF TInv
<1>2. run[p].prose \in SUBSET Prompt /\ {m.of} \in SUBSET Prompt
  BY <1>1 DEF CopilotOK, Turn
<1>3. CASE m.kind = "text"
  <2>1. HearText(p, m.of)
    BY <1>3
  <2>2. PICK prose \in SUBSET Prompt : prose = run[p].prose \cup {m.of}
    BY <1>2
  <2>3. Hears(p, "top", prose) /\ UNCHANGED <<board, active, cancelled>> /\ "top" \in PCs
    BY <2>1, <2>2 DEF HearText, PCs
  <2>4. Others(p) /\ run'[p] = [pc |-> "top", on |-> run[p].on, prose |-> prose,
                               first |-> FALSE, instructing |-> run[p].instructing]
    BY <1>1, <2>3, HearsFacts
  <2> QED
    BY <1>1, <2>3, <2>4 DEF board, BoardOK, ClientOK
<1>4. ASSUME Dropped(p), TurnOver(s), UNCHANGED board
      PROVE  /\ BoardOK' /\ current' = current
             /\ active' \in [Session -> BOOLEAN] /\ cancelled' \in [Session -> BOOLEAN]
             /\ Others(p) /\ run'[p].pc \in {"top", "last", "over"}
             /\ run'[p].on = run[p].on /\ run'[p].instructing = run[p].instructing
             /\ \A q \in Prompt : q # current => log'[q] = log[q]
             /\ turn' = turn \/ turn' # "running"
             /\ run'[p].pc = "last" => p = current
  <2>1. Goes(p, "over") /\ "over" \in PCs
    BY <1>4 DEF Dropped, PCs
  <2>2. Others(p) /\ run'[p] = [pc |-> "over", on |-> run[p].on, prose |-> run[p].prose,
                               first |-> run[p].first, instructing |-> run[p].instructing]
    BY <1>1, <2>1, GoesFacts
  <2> QED
    BY <1>1, <1>4, <2>2, TurnOverType DEF board, BoardOK, ClientOK
<1>5. CASE m.kind = "step"
  <2>1. HearStep(s, p, m.of)
    BY <1>5
  <2>2. CASE Stale(p)
    BY <1>4, <2>1, <2>2 DEF HearStep
  <2>3. CASE ~Stale(p)
    <3>1. /\ Writes(p, run[p].prose \cup {m.of}) /\ Hears(p, "top", {})
          /\ UNCHANGED <<turn, current, asks, active, cancelled>> /\ "top" \in PCs
      BY <2>1, <2>3 DEF HearStep, PCs
    <3>2. PICK origins \in SUBSET Prompt : origins = run[p].prose \cup {m.of}
      BY <1>2
    <3>3. log' \in [Prompt -> Card] /\ \A q \in Prompt \ {p} : log'[q] = log[q]
      BY <1>1, <3>1, <3>2, WritesFacts
    <3>4. Others(p) /\ run'[p] = [pc |-> "top", on |-> run[p].on, prose |-> {},
                                 first |-> FALSE, instructing |-> run[p].instructing]
      BY <1>1, <3>1, HearsFacts
    <3> QED
      BY <1>1, <2>3, <3>1, <3>3, <3>4 DEF BoardOK, ClientOK, Stale
  <2> QED
    BY <2>2, <2>3
<1>6. CASE m.kind \notin {"text", "step"}
  <2>1. HearEnd(s, p, m)
    BY <1>6
  <2>2. CASE Stale(p)
    BY <1>4, <2>1, <2>2 DEF HearEnd
  <2>3. CASE ~Stale(p)
    <3>1. PICK card, origins : /\ card = IF m.kind = "error" THEN "failed" ELSE "completed"
                               /\ origins = run[p].prose \cup {m.of}
      OBVIOUS
    <3>2. card \in {"completed", "failed"} /\ origins \in SUBSET Prompt
      BY <1>2, <3>1
    <3>3. /\ Ends(p, origins, card) /\ Hears(p, "last", {})
          /\ UNCHANGED <<current, active, cancelled>> /\ "last" \in PCs
      BY <2>1, <2>3, <3>1 DEF HearEnd, PCs
    <3>4. log' \in [Prompt -> Card] /\ turn' \in {"done", "error"} /\ asks' = <<>>
          /\ \A q \in Prompt \ {p} : log'[q] = log[q]
      BY <1>1, <3>2, <3>3, EndsFacts
    <3>5. Others(p) /\ run'[p] = [pc |-> "last", on |-> run[p].on, prose |-> {},
                                 first |-> FALSE, instructing |-> run[p].instructing]
      BY <1>1, <3>3, HearsFacts
    <3> QED
      BY <1>1, <2>3, <3>3, <3>4, <3>5, EmptySeq DEF BoardOK, ClientOK, Stale
  <2> QED
    BY <2>2, <2>3
<1> QED
  BY <1>3, <1>5, <1>6

LEMMA HearTyped ==
    ASSUME TInv, NEW s \in Session, Hear(s)
    PROVE  TInv'
PROOF
<1>1. /\ BoardOK /\ CopilotOK /\ ClientOK /\ HarnessOK /\ RequestsOK /\ BoundsOK
      /\ TypeOK /\ Counted /\ Readers /\ Unmade /\ Made
  BY TypeParts DEF TInv
<1>2. PICK p, m : p = Head(readers[s]) /\ m = Message(s, p)
  OBVIOUS
<1>3. /\ readers[s] # <<>> /\ Available(s) /\ Reads(s)
      /\ UNCHANGED <<session, mail, harness, requests, bounds>>
  BY DEF Hear
<1>4. p \in Prompt /\ m.of \in Prompt
  BY <1>1, <1>2, <1>3, MessageFacts
<1>5. HarnessOK' /\ RequestsOK' /\ BoundsOK' /\ Unmade' /\ Made' /\ opened' = opened
      /\ session' = session /\ waker' = waker /\ outbox' = outbox
  BY <1>1, <1>3 DEF harness, requests, bounds, mail, HarnessOK, RequestsOK, BoundsOK, Unmade, Made
<1>6. queue' \in [Session -> Seq(Update)] /\ readers' \in [Session -> Seq(Prompt)]
  BY <1>1, <1>3, ReadsType
<1>a. \A o \in Session : \A i \in DOMAIN readers'[o] :
          \E j \in DOMAIN readers[o] : readers'[o][i] = readers[o][j]
  <2>1. SUFFICES ASSUME NEW o \in Session, NEW i \in DOMAIN readers'[o]
                 PROVE  \E j \in DOMAIN readers[o] : readers'[o][i] = readers[o][j]
    OBVIOUS
  <2>2. CASE o # s
    BY <1>1, <1>3, <2>1, <2>2, ReadsType
  <2>3. CASE o = s
    <3>1. PICK q \in Seq(Prompt) : q = readers[s] /\ q # <<>>
      BY <1>1, <1>3 DEF ClientOK
    <3>2. readers'[s] = Tail(q)
      BY <1>1, <1>3, <3>1, ReadsType
    <3>3. /\ Len(q) \in Nat /\ DOMAIN q = 1 .. Len(q) /\ DOMAIN Tail(q) = 1 .. Len(q) - 1
          /\ \A k \in 1 .. Len(q) - 1 : Tail(q)[k] = q[k + 1]
      BY <3>1, HeadTailProperties, LenProperties
    <3>4. i \in 1 .. Len(q) - 1 /\ i + 1 \in DOMAIN q
      BY <2>1, <2>3, <3>2, <3>3
    <3> QED
      BY <2>3, <3>1, <3>2, <3>3, <3>4
  <2> QED
    BY <2>2, <2>3
<1>b. run[p].on = s /\ s # 0 /\ run[p].pc \notin Before
  <2>1. readers[s] \in Seq(Prompt) /\ readers[s] # <<>>
    BY <1>1, <1>3 DEF ClientOK
  <2>2. 1 \in DOMAIN readers[s] /\ p = readers[s][1]
    BY <1>2, <2>1, HeadTailProperties, LenProperties, EmptySeq
  <2>3. run[p].on = s /\ s # 0
    BY <1>1, <2>2 DEF Readers, Session
  <2> QED
    BY <1>1, <1>4, <2>3 DEF Counted, Before
<1>7. CASE run[p].pc = "over"
  <2>1. HearClosed(s)
    BY <1>2, <1>7 DEF Hear
  <2>2. UNCHANGED <<board, run, instructed>> /\ TurnOver(s)
    BY <2>1 DEF HearClosed
  <2>3. BoardOK' /\ CopilotOK' /\ ClientOK'
    BY <1>1, <1>5, <1>6, <2>2, TurnOverType DEF BoardOK, CopilotOK, ClientOK, board
  <2>4. \A q \in Prompt : Onward(q)
    BY <1>1, <2>2 DEF Onward, Counted, Before, On
  <2>5. Counted'
    BY <1>5, <2>3, <2>4, CountedKept
  <2>6. Readers'
    BY <1>a, <2>3, <2>4, ReadersKept
  <2> QED
    BY <1>5, <2>3, <2>5, <2>6, TypeWhole DEF TInv
<1>8. CASE run[p].pc # "over"
  <2>1. /\ Heard(run[p].first, run[p].instructing, m.kind)
        /\ CASE m.kind = "text" -> HearText(p, m.of)
             [] m.kind = "step" -> HearStep(s, p, m.of)
             [] OTHER -> HearEnd(s, p, m)
    BY <1>2, <1>8 DEF Hear
  <2>2. /\ BoardOK'
        /\ active' \in [Session -> BOOLEAN] /\ cancelled' \in [Session -> BOOLEAN]
        /\ Others(p) /\ run'[p].pc \in {"top", "last", "over"}
        /\ run'[p].on = run[p].on /\ run'[p].instructing = run[p].instructing
    BY <1>4, <1>8, <2>1, HeardFacts
  <2>3. instructed' \in BOOLEAN
    BY <2>1 DEF Heard
  <2>4. CopilotOK' /\ ClientOK'
    BY <1>1, <1>5, <1>6, <2>2, <2>3 DEF CopilotOK, ClientOK, Others
  <2>5. \A q \in Prompt : Onward(q)
    BY <1>1, <1>4, <1>5, <1>b, <2>2 DEF Onward, Others, Counted, Before, On
  <2>6. Counted'
    BY <1>5, <2>4, <2>5, CountedKept
  <2>7. Readers'
    BY <1>a, <2>4, <2>5, ReadersKept
  <2> QED
    BY <1>5, <2>2, <2>4, <2>6, <2>7, TypeWhole DEF TInv
<1> QED
  BY <1>7, <1>8

(* A dispatch sends the prompt to the agent, or finds its turn stopped.    *)
Dispatched(p, s) ==
    /\ outbox' = <<>> /\ waker' = p
    /\ UNCHANGED <<queue, cancelled, board, instructed, dead>>
    /\ active' \in [Session -> BOOLEAN]
    /\ readers' = [readers EXCEPT ![s] = Append(readers[s], p)]
    /\ IF s \in dead THEN todo' = todo /\ got' = got
       ELSE /\ todo' = [todo EXCEPT ![s] = Append(todo[s], p)]
            /\ got' = [got EXCEPT ![s] = Append(got[s], [of |-> p, instructing |-> ~instructed])]
    /\ Others(p)
    /\ run'[p] = [pc |-> "wait", on |-> s, prose |-> run[p].prose, first |-> run[p].first,
                  instructing |-> ~instructed]

StoppedFirst(p, s) ==
    /\ outbox' = <<>> /\ BoardOK'
    /\ UNCHANGED <<queue, readers, todo, got, waker, dead, current, instructed>>
    /\ active' \in [Session -> BOOLEAN] /\ cancelled' \in [Session -> BOOLEAN]
    /\ log' = log \/ (current = p /\ \A q \in Prompt \ {p} : log'[q] = log[q])
    /\ turn' = turn \/ turn' # "running"
    /\ Others(p)
    /\ run'[p] = [pc |-> "over", on |-> s, prose |-> run[p].prose, first |-> run[p].first,
                  instructing |-> run[p].instructing]

(* A turn that is dispatched is at its first read.                         *)
LEMMA DispatchGoes ==
    ASSUME TypeOK, NEW p \in Prompt, NEW s \in Session, Dispatch(p, s), ~cancelled[s]
    PROVE  Dispatched(p, s)
PROOF
<1>1. /\ outbox' = <<>> /\ waker' = p
      /\ UNCHANGED <<queue, cancelled, log, turn, asks, instructed, dead, current>>
      /\ active' = [active EXCEPT ![s] = TRUE]
      /\ readers' = [readers EXCEPT ![s] = Append(@, p)]
      /\ IF s \in dead THEN UNCHANGED <<todo, got>>
         ELSE /\ todo' = [todo EXCEPT ![s] = Append(@, p)]
              /\ got' = [got EXCEPT ![s] = Append(@, [of |-> p, instructing |-> ~instructed])]
      /\ run' = [run EXCEPT ![p].pc = "wait", ![p].on = s, ![p].instructing = ~instructed]
  BY DEF Dispatch
<1>2. CopilotOK /\ ClientOK
  BY TypeParts
<1>3. PICK x \in Turn : x = run[p]
  BY <1>2 DEF CopilotOK
<1>4. PICK y : y = [x EXCEPT !.pc = "wait", !.on = s, !.instructing = ~instructed]
  OBVIOUS
<1>5. y = [pc |-> "wait", on |-> s, prose |-> x.prose, first |-> x.first,
           instructing |-> ~instructed]
  BY <1>4 DEF Turn
<1>6. y \in Turn
  BY <1>5 DEF Turn, PCs
<1>7. run' = [run EXCEPT ![p] = y]
  BY <1>1, <1>3, <1>4
<1>8. /\ Others(p)
      /\ run'[p] = [pc |-> "wait", on |-> s, prose |-> run[p].prose, first |-> run[p].first,
                    instructing |-> ~instructed]
  BY <1>2, <1>3, <1>5, <1>6, <1>7 DEF Others, CopilotOK
<1>9. active' \in [Session -> BOOLEAN]
  BY <1>1, <1>2 DEF ClientOK
<1> QED
  BY <1>1, <1>8, <1>9 DEF board, Dispatched

(* A turn that was stopped before its dispatch ends there.                 *)
LEMMA DispatchStops ==
    ASSUME TypeOK, NEW p \in Prompt, NEW s \in Session, Dispatch(p, s), cancelled[s]
    PROVE  StoppedFirst(p, s)
PROOF
<1>1. /\ outbox' = <<>> /\ TurnOver(s) /\ Heard(TRUE, ~instructed, "cancelled")
      /\ run' = [run EXCEPT ![p].pc = "over", ![p].on = s]
      /\ IF Stale(p) THEN UNCHANGED <<turn, asks, log>> ELSE Ends(p, {p}, "completed")
      /\ UNCHANGED <<queue, readers, todo, got, waker, dead, current>>
  BY DEF Dispatch
<1>2. CopilotOK /\ ClientOK /\ BoardOK
  BY TypeParts
<1>3. PICK x \in Turn : x = run[p]
  BY <1>2 DEF CopilotOK
<1>4. PICK y : y = [x EXCEPT !.pc = "over", !.on = s]
  OBVIOUS
<1>5. y = [pc |-> "over", on |-> s, prose |-> x.prose, first |-> x.first,
           instructing |-> x.instructing]
  BY <1>4 DEF Turn
<1>6. y \in Turn
  BY <1>5 DEF Turn, PCs
<1>7. run' = [run EXCEPT ![p] = y]
  BY <1>1, <1>3, <1>4
<1>8. /\ Others(p)
      /\ run'[p] = [pc |-> "over", on |-> s, prose |-> run[p].prose, first |-> run[p].first,
                    instructing |-> run[p].instructing]
  BY <1>2, <1>3, <1>5, <1>6, <1>7 DEF Others, CopilotOK
<1>9. /\ BoardOK'
      /\ log' = log \/ (current = p /\ \A q \in Prompt \ {p} : log'[q] = log[q])
      /\ turn' = turn \/ turn' # "running"
  <2>1. CASE Stale(p)
    BY <1>1, <1>2, <2>1 DEF BoardOK
  <2>2. CASE ~Stale(p)
    <3>1. {p} \in SUBSET Prompt /\ Ends(p, {p}, "completed")
      BY <1>1, <2>2
    <3>2. /\ log' \in [Prompt -> Card] /\ \A q \in Prompt \ {p} : log'[q] = log[q]
          /\ turn' \in {"done", "error"} /\ asks' = <<>>
      BY <1>2, <3>1, EndsFacts
    <3> QED
      BY <1>1, <1>2, <2>2, <3>2, EmptySeq DEF BoardOK, Stale
  <2> QED
    BY <2>1, <2>2
<1>10. instructed' = instructed
  BY <1>1, <1>2 DEF Heard, CopilotOK
<1>11. active' \in [Session -> BOOLEAN] /\ cancelled' \in [Session -> BOOLEAN]
  BY <1>1, TurnOverType
<1> QED
  BY <1>1, <1>8, <1>9, <1>10, <1>11 DEF StoppedFirst

LEMMA DispatchTyped ==
    ASSUME TInv, NEW p \in Prompt, NEW s \in Session, Dispatch(p, s)
    PROVE  /\ outbox' = <<>> /\ BoardOK' /\ ClientOK' /\ HarnessOK'
           /\ waker' \in Prompt \cup {0} /\ instructed' \in BOOLEAN
           /\ Others(p) /\ run'[p].pc \in {"wait", "over"} /\ run'[p].on = s
           /\ \A o \in Session : \A i \in DOMAIN readers'[o] :
               \/ \E j \in DOMAIN readers[o] : readers'[o][i] = readers[o][j]
               \/ run'[readers'[o][i]].on = o
PROOF
<1>1. /\ BoardOK /\ CopilotOK /\ ClientOK /\ HarnessOK /\ TypeOK
  BY TypeParts DEF TInv
<1>2. CASE cancelled[s]
  <2>1. /\ outbox' = <<>> /\ BoardOK'
        /\ UNCHANGED <<queue, readers, todo, got, waker, dead, current, instructed>>
        /\ active' \in [Session -> BOOLEAN] /\ cancelled' \in [Session -> BOOLEAN]
        /\ Others(p) /\ run'[p].pc = "over" /\ run'[p].on = s
    <3>1. StoppedFirst(p, s)
      BY <1>1, <1>2, DispatchStops
    <3> QED
      BY <3>1 DEF StoppedFirst
  <2> QED
    BY <1>1, <2>1 DEF ClientOK, HarnessOK, CopilotOK
<1>3. CASE ~cancelled[s]
  <2>1. /\ outbox' = <<>> /\ waker' = p
        /\ UNCHANGED <<queue, cancelled, board, instructed, dead>>
        /\ active' \in [Session -> BOOLEAN]
        /\ readers' = [readers EXCEPT ![s] = Append(readers[s], p)]
        /\ IF s \in dead THEN todo' = todo /\ got' = got
           ELSE /\ todo' = [todo EXCEPT ![s] = Append(todo[s], p)]
                /\ got' = [got EXCEPT ![s] = Append(got[s], [of |-> p, instructing |-> ~instructed])]
        /\ Others(p) /\ run'[p].pc = "wait" /\ run'[p].on = s
    <3>1. Dispatched(p, s)
      BY <1>1, <1>3, DispatchGoes
    <3> QED
      BY <3>1 DEF Dispatched
  <2>2. BoardOK'
    BY <1>1, <2>1 DEF board, BoardOK
  <2>3. readers[s] \in Seq(Prompt) /\ Append(readers[s], p) \in Seq(Prompt)
    BY <1>1, AppendProperties DEF ClientOK
  <2>4. ClientOK'
    BY <1>1, <2>1, <2>3 DEF ClientOK
  <2>5. HarnessOK'
    <3>1. CASE s \in dead
      BY <1>1, <2>1, <3>1 DEF HarnessOK
    <3>2. CASE s \notin dead
      <4>1. Append(todo[s], p) \in Seq(Prompt)
        BY <1>1, AppendProperties DEF HarnessOK
      <4>2. PICK sentWith \in [of : Prompt, instructing : BOOLEAN] :
                sentWith = [of |-> p, instructing |-> ~instructed]
        <5>1. (~instructed) \in BOOLEAN
          BY <1>1 DEF CopilotOK
        <5> QED
          BY <5>1
      <4>3. Append(got[s], sentWith) \in Seq([of : Prompt, instructing : BOOLEAN])
        BY <1>1, AppendProperties DEF HarnessOK
      <4>4. /\ todo' = [todo EXCEPT ![s] = Append(todo[s], p)] /\ dead' = dead
            /\ got' = [got EXCEPT ![s] = Append(got[s], sentWith)]
        BY <2>1, <3>2, <4>2
      <4> QED
        BY <1>1, <4>1, <4>3, <4>4 DEF HarnessOK
    <3> QED
      BY <3>1, <3>2
  <2>6. ASSUME NEW o \in Session, NEW i \in DOMAIN readers'[o]
        PROVE  \/ \E j \in DOMAIN readers[o] : readers'[o][i] = readers[o][j]
               \/ run'[readers'[o][i]].on = o
    <3>1. readers \in [Session -> Seq(Prompt)]
      BY <1>1 DEF ClientOK
    <3>2. CASE o # s
      BY <2>1, <2>6, <3>1, <3>2
    <3>3. CASE o = s
      <4>1. readers'[s] = Append(readers[s], p)
        BY <2>1, <3>1
      <4>2. /\ Len(readers[s]) \in Nat /\ DOMAIN readers[s] = 1 .. Len(readers[s])
            /\ DOMAIN readers'[s] = 1 .. Len(readers[s]) + 1
            /\ \A k \in 1 .. Len(readers[s]) : readers'[s][k] = readers[s][k]
            /\ readers'[s][Len(readers[s]) + 1] = p
        BY <2>3, <4>1, AppendProperties, LenProperties
      <4>3. i \in 1 .. Len(readers[s]) + 1
        BY <2>6, <3>3, <4>2
      <4>4. CASE i = Len(readers[s]) + 1
        BY <2>1, <3>3, <4>2, <4>4
      <4>5. CASE i # Len(readers[s]) + 1
        <5>1. i \in 1 .. Len(readers[s])
          BY <4>2, <4>3, <4>5
        <5> QED
          BY <3>3, <4>2, <5>1
      <4> QED
        BY <4>4, <4>5
    <3> QED
      BY <3>2, <3>3
  <2> QED
    BY <1>1, <2>1, <2>2, <2>4, <2>5, <2>6 DEF CopilotOK
<1> QED
  BY <1>2, <1>3

LEMMA ContextLoadedTyped ==
    ASSUME TInv, NEW p \in Prompt, ContextLoaded(p)
    PROVE  TInv'
PROOF
<1>1. /\ BoardOK /\ CopilotOK /\ ClientOK /\ HarnessOK /\ RequestsOK /\ BoundsOK
      /\ TypeOK /\ Counted /\ Readers /\ Unmade /\ Made
  BY TypeParts DEF TInv
<1>2. run[p].pc = "context" /\ run[p].on = 0 /\ UNCHANGED <<session, requests, bounds>>
  BY <1>1 DEF ContextLoaded, Counted
<1>3. RequestsOK' /\ BoundsOK' /\ Unmade' /\ opened' = opened /\ session' = session
      /\ owner' = owner
  BY <1>1, <1>2 DEF requests, bounds, RequestsOK, BoundsOK, Unmade
<1>4. ASSUME NEW to \in {"over", "start"}, Goes(p, to),
             UNCHANGED <<board, instructed, mail, client, harness>>
      PROVE  TInv'
  <2>1. Others(p) /\ run'[p] = [pc |-> to, on |-> run[p].on, prose |-> run[p].prose,
                               first |-> run[p].first, instructing |-> run[p].instructing]
    BY <1>1, <1>4, GoesFacts DEF PCs
  <2>2. BoardOK' /\ CopilotOK' /\ ClientOK' /\ HarnessOK' /\ Made' /\ readers' = readers
    BY <1>1, <1>3, <1>4, <2>1
       DEF board, mail, client, harness, BoardOK, CopilotOK, ClientOK, HarnessOK, Others, Made
  <2>3. \A q \in Prompt : Onward(q)
    BY <1>1, <1>2, <1>3, <1>4, <2>1 DEF Onward, Others, Counted, Before, On
  <2>4. Counted' /\ Readers'
    BY <1>3, <2>2, <2>3, CountedKept, ReadersStay
  <2> QED
    BY <1>3, <2>2, <2>4, TypeWhole DEF TInv
<1>5. CASE Stale(p)
  BY <1>4, <1>5 DEF ContextLoaded
<1>6. CASE ~Stale(p) /\ session = 0
  BY <1>4, <1>6 DEF ContextLoaded
<1>7. CASE ~Stale(p) /\ session # 0
  <2>1. PICK s \in Session : s = session
    BY <1>1, <1>7 DEF CopilotOK
  <2>2. Dispatch(p, s) /\ s \in 1 .. opened
    BY <1>1, <1>7, <2>1 DEF ContextLoaded, Counted, Session, BoundsOK
  <2>3. /\ outbox' = <<>> /\ BoardOK' /\ ClientOK' /\ HarnessOK'
        /\ waker' \in Prompt \cup {0} /\ instructed' \in BOOLEAN
        /\ Others(p) /\ run'[p].pc \in {"wait", "over"} /\ run'[p].on = s
        /\ \A o \in Session : \A i \in DOMAIN readers'[o] :
            \/ \E j \in DOMAIN readers[o] : readers'[o][i] = readers[o][j]
            \/ run'[readers'[o][i]].on = o
    BY <2>2, DispatchTyped
  <2>4. CopilotOK' /\ Made'
    BY <1>1, <1>3, <2>3, EmptySeq DEF CopilotOK, Others, Made
  <2>5. \A q \in Prompt : Onward(q)
    BY <1>1, <1>2, <1>3, <2>2, <2>3 DEF Onward, Others, Counted, Before, On
  <2>6. Counted' /\ Readers'
    BY <1>3, <2>3, <2>4, <2>5, CountedKept, ReadersKept
  <2> QED
    BY <1>3, <2>3, <2>4, <2>6, TypeWhole DEF TInv
<1> QED
  BY <1>5, <1>6, <1>7

(* A turn that fails before it is dispatched.                              *)
LEMMA FailsFacts ==
    ASSUME TInv, NEW p \in Prompt, Fails(p)
    PROVE  /\ log' \in [Prompt -> Card] /\ asks' \in Seq(Request)
           /\ turn' \in {"idle", "running", "done", "error"}
           /\ Others(p) /\ run'[p] = [pc |-> "over", on |-> run[p].on, prose |-> run[p].prose,
                                     first |-> run[p].first, instructing |-> run[p].instructing]
           /\ IF Stale(p) THEN UNCHANGED <<turn, asks, log>> ELSE Ends(p, {p}, "failed")
PROOF
<1>1. BoardOK /\ TypeOK
  BY TypeParts DEF TInv
<1>2. Goes(p, "over") /\ "over" \in PCs
  BY DEF Fails, PCs
<1>3. CASE Stale(p)
  BY <1>1, <1>2, <1>3, GoesFacts DEF Fails, BoardOK
<1>4. CASE ~Stale(p)
  <2>1. Ends(p, {p}, "failed") /\ {p} \in SUBSET Prompt
    BY <1>4 DEF Fails
  <2>2. log' \in [Prompt -> Card] /\ turn' \in {"done", "error"} /\ asks' = <<>>
    BY <1>1, <2>1, EndsFacts
  <2> QED
    BY <1>1, <1>2, <1>4, <2>1, <2>2, GoesFacts, EmptySeq
<1> QED
  BY <1>3, <1>4

LEMMA FailsTyped ==
    ASSUME TInv, NEW p \in Prompt, Fails(p), run[p].pc \in Before,
           UNCHANGED <<current, session, instructed, mail, client, harness, requests, bounds>>
    PROVE  TInv'
PROOF
<1>1. /\ BoardOK /\ CopilotOK /\ ClientOK /\ HarnessOK /\ RequestsOK /\ BoundsOK
      /\ TypeOK /\ Counted /\ Readers /\ Unmade /\ Made
  BY TypeParts DEF TInv
<1>2. ClientOK' /\ HarnessOK' /\ RequestsOK' /\ BoundsOK' /\ Unmade' /\ opened' = opened
      /\ session' = session /\ readers' = readers /\ Made'
  BY <1>1 DEF client, harness, requests, bounds, mail, ClientOK, HarnessOK, RequestsOK, BoundsOK,
              Unmade, Made
<1>3. /\ log' \in [Prompt -> Card] /\ asks' \in Seq(Request)
      /\ turn' \in {"idle", "running", "done", "error"}
      /\ Others(p) /\ run'[p] = [pc |-> "over", on |-> run[p].on, prose |-> run[p].prose,
                                first |-> run[p].first, instructing |-> run[p].instructing]
  BY FailsFacts
<1>4. BoardOK' /\ CopilotOK'
  BY <1>1, <1>3 DEF BoardOK, CopilotOK, Others, mail
<1>5. \A q \in Prompt : Onward(q)
  BY <1>1, <1>2, <1>3 DEF Onward, Others, Counted, Before, On
<1>6. Counted' /\ Readers'
  BY <1>2, <1>4, <1>5, CountedKept, ReadersStay
<1> QED
  BY <1>2, <1>4, <1>6, TypeWhole DEF TInv

LEMMA SessionOpensTyped ==
    ASSUME TInv, NEW p \in Prompt, SessionOpens(p)
    PROVE  TInv' /\ opened' \in Session
PROOF
<1>1. /\ BoardOK /\ CopilotOK /\ ClientOK /\ HarnessOK /\ RequestsOK /\ BoundsOK
      /\ TypeOK /\ Counted /\ Readers /\ Unmade /\ Made
  BY TypeParts DEF TInv
<1>2. /\ run[p].pc = "start" /\ run[p].on = 0 /\ opened' = opened + 1 /\ session' = opened'
      /\ UNCHANGED <<requests, sent, cancels, updates>>
  BY <1>1 DEF SessionOpens, Counted
<1>3. opened \in Nat /\ PROMPTS \in Nat /\ opened <= Cardinality(Past)
  BY <1>1, Bounds DEF BoundsOK, Counted
<1>4. RequestsOK' /\ Unmade' /\ owner' = owner
  BY <1>1, <1>2 DEF requests, RequestsOK, Unmade
<1>5. ASSUME Others(p), run'[p].pc \notin Before
      PROVE  opened' \in 1 .. PROMPTS /\ opened' <= Cardinality(Past')
  <2>1. \A q \in Prompt : run[q].pc \notin Before => run'[q].pc \notin Before
    BY <1>5 DEF Others
  <2>2. /\ Cardinality(Past) \in Nat /\ Cardinality(Past') \in Nat
        /\ Cardinality(Past') <= PROMPTS /\ Cardinality(Past) + 1 <= Cardinality(Past')
    BY <1>1, <1>2, <1>5, <2>1, PastGrows DEF Others, Before
  <2> QED
    BY <1>2, <1>3, <2>2
<1>6. ASSUME CopilotOK', ClientOK', BoardOK', HarnessOK', Made', Others(p),
             run'[p].pc \in {"wait", "over"}, run'[p].on \in {0, opened'},
             run'[p].pc = "wait" => run'[p].on # 0,
             \A o \in Session : \A i \in DOMAIN readers'[o] :
               \/ \E j \in DOMAIN readers[o] : readers'[o][i] = readers[o][j]
               \/ run'[readers'[o][i]].on = o
      PROVE  TInv' /\ opened' \in Session
  <2>1. opened' \in 1 .. PROMPTS /\ opened' <= Cardinality(Past')
    BY <1>5, <1>6 DEF Before
  <2>2. BoundsOK' /\ opened' \in Session
    BY <1>1, <1>2, <2>1 DEF BoundsOK, Session
  <2>3. \A q \in Prompt : Onward(q)
    BY <1>1, <1>2, <1>3, <1>6, <2>1 DEF Onward, Others, Counted, Before, On
  <2>4. Readers'
    BY <1>6, <2>3, ReadersKept
  <2>5. \A q \in Prompt :
          /\ run'[q].on <= opened'
          /\ run'[q].pc \in On => run'[q].on # 0
          /\ run'[q].pc \in Before => run'[q].on = 0
    <3>1. \A q \in Prompt : run[q].on \in Nat /\ run[q].on <= opened
      BY <1>1, Bounds DEF Counted, CopilotOK, Turn, Session
    <3> QED
      BY <1>2, <1>3, <1>6, <2>1, <2>3, <3>1 DEF Onward
  <2>6. Counted'
    BY <1>2, <2>1, <2>5 DEF Counted, On, Before
  <2> QED
    BY <1>4, <1>6, <2>2, <2>4, <2>6, TypeWhole DEF TInv
<1>7. CASE Stale(p) /\ ~instructed
  <2>1. Goes(p, "over") /\ UNCHANGED <<board, instructed, mail, client, harness>> /\ "over" \in PCs
    BY <1>7 DEF SessionOpens, PCs
  <2>2. Others(p) /\ run'[p] = [pc |-> "over", on |-> run[p].on, prose |-> run[p].prose,
                               first |-> run[p].first, instructing |-> run[p].instructing]
    BY <1>1, <2>1, GoesFacts
  <2>3. run'[p].pc \in {"wait", "over"} /\ run'[p].pc # "wait" /\ run'[p].on \in {0, opened'}
    BY <1>2, <2>2
  <2>4. opened' \in 1 .. PROMPTS
    BY <1>5, <2>2 DEF Before
  <2>5. BoardOK' /\ CopilotOK' /\ ClientOK' /\ HarnessOK' /\ Made' /\ readers' = readers
    BY <1>1, <1>2, <1>4, <2>1, <2>2, <2>4
       DEF board, mail, client, harness, BoardOK, CopilotOK, ClientOK, HarnessOK, Others, Made, Session
  <2> QED
    BY <1>6, <2>2, <2>3, <2>5
<1>8. CASE ~(Stale(p) /\ ~instructed)
  <2>1. PICK s : s = opened'
    OBVIOUS
  <2>2. Dispatch(p, s)
    BY <1>2, <1>8, <2>1 DEF SessionOpens
  <2>3. s \in Session
    <3>1. Cardinality(Past) \in Nat /\ Cardinality(Past) + 1 <= PROMPTS
      BY <1>1, <1>2, PastRoom DEF Before
    <3> QED
      BY <1>2, <1>3, <2>1, <3>1 DEF Session
  <2>4. /\ outbox' = <<>> /\ BoardOK' /\ ClientOK' /\ HarnessOK'
        /\ waker' \in Prompt \cup {0} /\ instructed' \in BOOLEAN
        /\ Others(p) /\ run'[p].pc \in {"wait", "over"} /\ run'[p].on = s
        /\ \A o \in Session : \A i \in DOMAIN readers'[o] :
            \/ \E j \in DOMAIN readers[o] : readers'[o][i] = readers[o][j]
            \/ run'[readers'[o][i]].on = o
    BY <2>2, <2>3, DispatchTyped
  <2>5. CopilotOK' /\ Made'
    BY <1>1, <1>2, <1>4, <2>1, <2>3, <2>4, EmptySeq DEF CopilotOK, Others, Made
  <2> QED
    BY <1>6, <2>1, <2>3, <2>4, <2>5 DEF Session
<1> QED
  BY <1>7, <1>8

LEMMA SubmitTyped ==
    ASSUME TInv, Turns, Submit
    PROVE  TInv'
PROOF
<1>1. /\ BoardOK /\ CopilotOK /\ ClientOK /\ HarnessOK /\ RequestsOK /\ BoundsOK
      /\ TypeOK /\ Counted /\ Readers /\ Unmade /\ Made
  BY TypeParts DEF TInv
<1>2. PICK p : p = sent + 1
  OBVIOUS
<1>3. /\ sent' = p /\ current' = p /\ turn' = "running" /\ sent < PROMPTS
      /\ log' = [log EXCEPT ![p].card = "running"] /\ Goes(p, "context")
      /\ UNCHANGED <<asks, session, instructed, mail, client, harness, requests,
                     opened, cancels, updates>>
  BY <1>2 DEF Submit
<1>4. p \in Prompt
  BY <1>1, <1>2, <1>3, Bounds DEF BoundsOK, Prompt
<1>5. ClientOK' /\ HarnessOK' /\ RequestsOK' /\ Unmade' /\ opened' = opened
      /\ session' = session /\ readers' = readers /\ Made'
  BY <1>1, <1>3 DEF client, harness, requests, mail, ClientOK, HarnessOK, RequestsOK,
              Unmade, Made
<1>6. BoundsOK'
  BY <1>1, <1>3, <1>4, Bounds DEF BoundsOK, Prompt
<1>7. log' \in [Prompt -> Card]
  <2>1. PICK x \in Card : x = log[p]
    BY <1>1, <1>4 DEF BoardOK
  <2>2. PICK y : y = [x EXCEPT !.card = "running"]
    OBVIOUS
  <2>3. y \in Card
    BY <2>2 DEF Card
  <2>4. log' = [log EXCEPT ![p] = y]
    BY <1>3, <2>1, <2>2
  <2> QED
    BY <1>1, <2>3, <2>4 DEF BoardOK
<1>8. Others(p) /\ run'[p] = [pc |-> "context", on |-> run[p].on, prose |-> run[p].prose,
                             first |-> run[p].first, instructing |-> run[p].instructing]
  BY <1>1, <1>3, <1>4, GoesFacts DEF PCs
<1>9. BoardOK' /\ CopilotOK'
  BY <1>1, <1>3, <1>4, <1>7, <1>8 DEF BoardOK, CopilotOK, Others, mail
<1>10. run[p].pc \in Before
  BY <1>1, <1>2, <1>4 DEF Turns, Before, BoundsOK
<1>11. \A q \in Prompt : Onward(q)
  BY <1>1, <1>4, <1>5, <1>8, <1>10 DEF Onward, Others, Counted, Before, On
<1>12. Counted' /\ Readers'
  BY <1>5, <1>9, <1>11, CountedKept, ReadersStay
<1> QED
  BY <1>5, <1>6, <1>9, <1>12, TypeWhole DEF TInv

LEMMA CancelTyped ==
    ASSUME TInv, Cancel
    PROVE  TInv'
PROOF
<1>1. /\ BoardOK /\ CopilotOK /\ ClientOK /\ HarnessOK /\ RequestsOK /\ BoundsOK
      /\ TypeOK /\ Counted /\ Readers /\ Unmade /\ Made
  BY TypeParts DEF TInv
<1>2. /\ cancels < CANCELS /\ cancels' = cancels + 1 /\ UnblockAll
      /\ cancelled' = IF session = 0 \/ active[session] THEN cancelled
                      ELSE [cancelled EXCEPT ![session] = TRUE]
      /\ current' = 0 /\ turn' = "error" /\ asks' = <<>>
      /\ log' = [log EXCEPT ![sent].card = "failed"]
      /\ UNCHANGED <<session, instructed, mail, run, queue, readers, active, harness,
                     owner, chosen, sent, opened, updates>>
  BY DEF Cancel
<1>3. HarnessOK' /\ opened' = opened /\ CopilotOK' /\ Made' /\ readers' = readers
      /\ session' = session /\ run' = run
  BY <1>1, <1>2 DEF HarnessOK, CopilotOK, Made, harness, mail
<1>4. BoundsOK'
  BY <1>1, <1>2, Bounds DEF BoundsOK
<1>5. RequestsOK' /\ Unmade'
  BY <1>1, <1>2 DEF RequestsOK, Unmade, UnblockAll
<1>6. ClientOK'
  BY <1>1, <1>2 DEF ClientOK
<1>7. BoardOK'
  <2>1. log' \in [Prompt -> Card]
    <3>1. CASE sent \in Prompt
      <4>1. PICK x \in Card : x = log[sent]
        BY <1>1, <3>1 DEF BoardOK
      <4>2. PICK y : y = [x EXCEPT !.card = "failed"]
        OBVIOUS
      <4>3. y \in Card
        BY <4>2 DEF Card
      <4>4. log' = [log EXCEPT ![sent] = y]
        BY <1>2, <4>1, <4>2
      <4> QED
        BY <1>1, <4>3, <4>4 DEF BoardOK
    <3>2. CASE sent \notin Prompt
      BY <1>1, <1>2, <3>2 DEF BoardOK
    <3> QED
      BY <3>1, <3>2
  <2> QED
    BY <1>2, <2>1, EmptySeq DEF BoardOK
<1>8. \A q \in Prompt : Onward(q)
  BY <1>1, <1>3 DEF Onward, Counted, Before, On
<1>9. Counted' /\ Readers'
  BY <1>3, <1>6, <1>8, CountedKept, ReadersStay
<1> QED
  BY <1>3, <1>4, <1>5, <1>6, <1>7, <1>9, TypeWhole DEF TInv

LEMMA AnswerTyped ==
    ASSUME TInv, NEW how \in {"selected", "cancelled"}, Answer(how)
    PROVE  TInv'
PROOF
<1>1. /\ BoardOK /\ CopilotOK /\ ClientOK /\ HarnessOK /\ RequestsOK /\ BoundsOK
      /\ TypeOK /\ Counted /\ Readers /\ Unmade /\ Made
  BY TypeParts DEF TInv
<1>2. /\ asks # <<>> /\ asks' = Tail(asks) /\ Settle(Head(asks), how)
      /\ chosen' = IF how = "selected" THEN chosen \cup {Head(asks)} ELSE chosen
      /\ UNCHANGED <<turn, current, log, session, instructed, mail, run, client, harness,
                     owner, bounds>>
  BY DEF Answer
<1>3. ClientOK' /\ HarnessOK' /\ BoundsOK' /\ opened' = opened /\ CopilotOK' /\ Made'
      /\ readers' = readers /\ session' = session /\ run' = run
  BY <1>1, <1>2 DEF ClientOK, HarnessOK, BoundsOK, CopilotOK, Made, client, harness, mail, bounds
<1>4. Head(asks) \in Request /\ Tail(asks) \in Seq(Request)
  BY <1>1, <1>2, HeadTailProperties DEF BoardOK
<1>5. RequestsOK' /\ Unmade'
  BY <1>1, <1>2, <1>4 DEF RequestsOK, Unmade, Settle
<1>6. BoardOK'
  BY <1>1, <1>2, <1>4 DEF BoardOK
<1>7. \A q \in Prompt : Onward(q)
  BY <1>1, <1>3 DEF Onward, Counted, Before, On
<1>8. Counted' /\ Readers'
  BY <1>3, <1>7, CountedKept, ReadersStay
<1> QED
  BY <1>3, <1>5, <1>6, <1>8, TypeWhole DEF TInv

(* Mail that arrives only wakes a turn.                                    *)
LEMMA PostTyped ==
    ASSUME TInv, NEW items \in Seq(MailType), Post(items),
           UNCHANGED <<session, instructed, opened, readers>>, ClientOK',
           \A i \in DOMAIN items : items[i].id \in DOMAIN owner',
           DOMAIN owner \subseteq DOMAIN owner'
    PROVE  CopilotOK' /\ Counted' /\ Readers' /\ Made'
PROOF
<1>1. CopilotOK /\ TypeOK /\ Counted /\ Readers /\ Made
  BY TypeParts DEF TInv
<1>2. /\ outbox' = outbox \o items /\ outbox' \in Seq(MailType)
      /\ waker' \in Prompt \cup {0} /\ run' \in [Prompt -> Turn]
  BY <1>1, PostFacts
<1>3. \A q \in Prompt :
        \/ run'[q] = run[q]
        \/ /\ q = waker /\ run[q].pc = "wait" /\ items # <<>>
           /\ run'[q] = [pc |-> "woken", on |-> run[q].on, prose |-> run[q].prose,
                         first |-> run[q].first, instructing |-> run[q].instructing]
  BY <1>1, PostFacts
<1>4. CopilotOK'
  BY <1>1, <1>2 DEF CopilotOK
<1>5. \A q \in Prompt : Onward(q)
  <2>1. SUFFICES ASSUME NEW q \in Prompt
                 PROVE  Onward(q)
    OBVIOUS
  <2>2. CASE run'[q] = run[q]
    BY <1>1, <2>2 DEF Onward, Counted, Before, On
  <2>3. CASE run'[q] # run[q]
    <3>1. run[q].pc = "wait" /\ run'[q].pc = "woken" /\ run'[q].on = run[q].on
      <4>1. /\ run[q].pc = "wait"
            /\ run'[q] = [pc |-> "woken", on |-> run[q].on, prose |-> run[q].prose,
                          first |-> run[q].first, instructing |-> run[q].instructing]
        BY <1>3, <2>3
      <4> QED
        BY <4>1
    <3>2. run[q].on # 0
      BY <1>1, <3>1 DEF Counted
    <3> QED
      BY <3>1, <3>2 DEF Onward, Before, On
  <2> QED
    BY <2>2, <2>3
<1>6. Counted' /\ Readers'
  BY <1>4, <1>5, CountedKept, ReadersStay
<1>7. Made'
  <2>1. /\ Len(outbox) \in Nat /\ DOMAIN outbox = 1 .. Len(outbox)
        /\ Len(items) \in Nat /\ DOMAIN items = 1 .. Len(items)
    BY <1>1, LenProperties DEF CopilotOK
  <2>2. /\ DOMAIN outbox' = 1 .. Len(outbox) + Len(items)
        /\ \A i \in 1 .. Len(outbox) + Len(items) :
              outbox'[i] = IF i <= Len(outbox) THEN outbox[i] ELSE items[i - Len(outbox)]
    BY <1>1, <1>2, ConcatProperties, LenProperties DEF CopilotOK
  <2>3. SUFFICES ASSUME NEW i \in DOMAIN outbox'
                 PROVE  outbox'[i].id \in DOMAIN owner'
    BY DEF Made
  <2>4. CASE i <= Len(outbox)
    <3>1. i \in DOMAIN outbox /\ outbox'[i] = outbox[i]
      BY <2>1, <2>2, <2>3, <2>4
    <3> QED
      BY <1>1, <3>1 DEF Made
  <2>5. CASE ~(i <= Len(outbox))
    <3>1. i - Len(outbox) \in DOMAIN items /\ outbox'[i] = items[i - Len(outbox)]
      BY <2>1, <2>2, <2>3, <2>5
    <3> QED
      BY <3>1
  <2> QED
    BY <2>4, <2>5
<1> QED
  BY <1>4, <1>6, <1>7

LEMMA WithdrawnTyped ==
    ASSUME TInv, NEW gone \in SUBSET DOMAIN owner, Withdrawn(gone),
           UNCHANGED <<session, instructed, opened, readers, owner, chosen>>, ClientOK'
    PROVE  CopilotOK' /\ Counted' /\ Readers' /\ Made' /\ RequestsOK' /\ Unmade'
PROOF
<1>1. TypeOK /\ RequestsOK /\ Unmade
  BY TypeParts DEF TInv
<1>2. /\ told' = [r \in Request |-> IF r \in gone THEN "cancelled" ELSE told[r]]
      /\ blocked' = blocked \ gone
  BY <1>1, WithdrawnFacts
<1>3. PICK items \in Seq(MailType) :
          /\ Post(items)
          /\ \A i \in DOMAIN items : items[i].type = "withdrawn" /\ items[i].id \in gone \cap blocked
          /\ gone \cap blocked = {} => items = <<>>
  BY <1>1, WithdrawnFacts
<1>4. CopilotOK' /\ Counted' /\ Readers' /\ Made'
  BY <1>3, PostTyped
<1>5. \A r \in gone : r \in 1 .. Len(owner)
  BY <1>1, LenProperties DEF RequestsOK
<1>6. RequestsOK' /\ Unmade'
  BY <1>1, <1>2, <1>5, LenProperties DEF RequestsOK, Unmade
<1> QED
  BY <1>4, <1>6

(* An open request was made.                                               *)
LEMMA OpenMade ==
    ASSUME NEW p
    PROVE  Open(p) \in SUBSET DOMAIN owner
BY DEF Open

LEMMA TakeBackTyped ==
    ASSUME TInv, NEW s \in Session, TakeBack(s)
    PROVE  TInv'
PROOF
<1>1. /\ BoardOK /\ ClientOK /\ HarnessOK /\ BoundsOK
  BY TypeParts DEF TInv
<1>2. UNCHANGED <<board, session, instructed, client, harness, owner, chosen, bounds>>
  BY DEF TakeBack
<1>3. /\ BoardOK' /\ ClientOK' /\ HarnessOK' /\ BoundsOK'
      /\ UNCHANGED <<session, instructed, opened, readers, owner, chosen>>
  BY <1>1, <1>2 DEF board, client, harness, bounds, BoardOK, ClientOK, HarnessOK, BoundsOK
<1>4. PICK r \in Open(Head(todo[s])) : Withdrawn({r})
  BY DEF TakeBack
<1>5. {r} \in SUBSET DOMAIN owner
  BY <1>4, OpenMade
<1>6. CopilotOK' /\ Counted' /\ Readers' /\ Made' /\ RequestsOK' /\ Unmade'
  BY <1>3, <1>4, <1>5, WithdrawnTyped
<1> QED
  BY <1>3, <1>6, TypeWhole DEF TInv

LEMMA DiesTyped ==
    ASSUME TInv, NEW s \in Session, Dies(s)
    PROVE  TInv'
PROOF
<1>1. /\ BoardOK /\ ClientOK /\ HarnessOK /\ BoundsOK
  BY TypeParts DEF TInv
<1>2. /\ dead' = dead \cup {s} /\ todo' = [todo EXCEPT ![s] = <<>>]
      /\ UNCHANGED <<board, session, instructed, client, got, owner, chosen, bounds>>
  BY DEF Dies
<1>3. /\ BoardOK' /\ ClientOK' /\ BoundsOK'
      /\ UNCHANGED <<session, instructed, opened, readers, owner, chosen>>
  BY <1>1, <1>2 DEF board, client, bounds, BoardOK, ClientOK, BoundsOK
<1>4. HarnessOK'
  BY <1>1, <1>2, EmptySeq DEF HarnessOK
<1>5. PICK gone : gone = UNION {Open(todo[s][i]) : i \in DOMAIN todo[s]}
  OBVIOUS
<1>6. gone \in SUBSET DOMAIN owner
  BY <1>5, OpenMade
<1>7. Withdrawn(gone)
  BY <1>5 DEF Dies
<1>8. CopilotOK' /\ Counted' /\ Readers' /\ Made' /\ RequestsOK' /\ Unmade'
  BY <1>3, <1>6, <1>7, WithdrawnTyped
<1> QED
  BY <1>3, <1>4, <1>8, TypeWhole DEF TInv

LEMMA AskTyped ==
    ASSUME TInv, NEW s \in Session, Ask(s)
    PROVE  TInv'
PROOF
<1>1. /\ BoardOK /\ ClientOK /\ HarnessOK /\ BoundsOK /\ RequestsOK /\ Unmade /\ TypeOK
  BY TypeParts DEF TInv
<1>2. /\ todo[s] # <<>> /\ Len(owner) < ASKS /\ owner' = Append(owner, Head(todo[s]))
      /\ blocked' = blocked \cup {Len(owner')}
      /\ Post(<<[type |-> "ask", id |-> Len(owner')]>>)
      /\ UNCHANGED <<board, session, instructed, client, harness, told, chosen, bounds>>
  BY DEF Ask, Works
<1>3. /\ BoardOK' /\ ClientOK' /\ HarnessOK' /\ BoundsOK'
      /\ UNCHANGED <<session, instructed, opened, readers>>
  BY <1>1, <1>2 DEF board, client, harness, bounds, BoardOK, ClientOK, HarnessOK, BoundsOK
<1>4. Head(todo[s]) \in Prompt /\ owner \in Seq(Prompt) /\ Len(owner) \in Nat
  BY <1>1, <1>2, HeadTailProperties, LenProperties DEF HarnessOK, RequestsOK
<1>5. owner' \in Seq(Prompt) /\ Len(owner') = Len(owner) + 1
  BY <1>2, <1>4, AppendProperties
<1>6. Len(owner') \in Request
  BY <1>2, <1>4, <1>5, Bounds DEF Request
<1>7. RequestsOK' /\ Unmade'
  <2>1. Len(owner') <= ASKS /\ UNCHANGED <<told, chosen>>
    BY <1>2, <1>4, <1>5, Bounds
  <2>2. RequestsOK'
    BY <1>1, <1>2, <1>5, <1>6, <2>1 DEF RequestsOK
  <2>3. ASSUME NEW r \in Request, r > Len(owner')
        PROVE  told'[r] = "nothing" /\ r \notin blocked'
    <3>1. r \in Nat
      BY <2>3, Bounds DEF Request
    <3>2. r > Len(owner) /\ r # Len(owner')
      BY <1>4, <1>5, <2>3, <3>1
    <3> QED
      BY <1>1, <1>2, <2>1, <2>3, <3>2 DEF Unmade
  <2>4. Unmade'
    BY <2>3 DEF Unmade
  <2> QED
    BY <2>2, <2>4
<1>8. PICK item : item = [type |-> "ask", id |-> Len(owner')]
  OBVIOUS
<1>9. item \in MailType /\ Post(<<item>>)
  BY <1>2, <1>6, <1>8 DEF MailType
<1>10. <<item>> \in Seq(MailType) /\ \A i \in DOMAIN <<item>> : <<item>>[i] = item
  BY <1>9
<1>11. DOMAIN owner \subseteq DOMAIN owner' /\ item.id \in DOMAIN owner'
  BY <1>4, <1>5, <1>8, LenProperties
<1>12. CopilotOK' /\ Counted' /\ Readers' /\ Made'
  BY <1>3, <1>9, <1>10, <1>11, PostTyped
<1> QED
  BY <1>3, <1>7, <1>12, TypeWhole DEF TInv

LEMMA EmitTyped ==
    ASSUME TInv, NEW s \in Session, NEW kind \in {"text", "step"}, Emit(s, kind)
    PROVE  TInv'
PROOF
<1>1. /\ BoardOK /\ CopilotOK /\ ClientOK /\ HarnessOK /\ RequestsOK /\ BoundsOK
      /\ TypeOK /\ Counted /\ Readers /\ Unmade /\ Made
  BY TypeParts DEF TInv
<1>2. /\ todo[s] # <<>> /\ updates < UPDATES /\ updates' = updates + 1
      /\ queue' = [queue EXCEPT ![s] = Append(@, [of |-> Head(todo[s]), kind |-> kind])]
      /\ UNCHANGED <<board, session, instructed, mail, run, readers, active, cancelled,
                     harness, requests, sent, opened, cancels>>
  BY DEF Emit, Works
<1>3. /\ BoardOK' /\ CopilotOK' /\ HarnessOK' /\ RequestsOK' /\ Unmade' /\ Made'
      /\ UNCHANGED <<session, opened, readers, run>>
  BY <1>1, <1>2 DEF board, mail, harness, requests, BoardOK, CopilotOK, HarnessOK, RequestsOK,
                    Unmade, Made
<1>4. BoundsOK'
  BY <1>1, <1>2, Bounds DEF BoundsOK
<1>5. Head(todo[s]) \in Prompt
  BY <1>1, <1>2, HeadTailProperties DEF HarnessOK
<1>6. PICK u \in Update : u = [of |-> Head(todo[s]), kind |-> kind]
  BY <1>5 DEF Update
<1>7. Append(queue[s], u) \in Seq(Update)
  BY <1>1, AppendProperties DEF ClientOK
<1>8. ClientOK'
  BY <1>1, <1>2, <1>6, <1>7 DEF ClientOK
<1>9. \A q \in Prompt : Onward(q)
  BY <1>1, <1>3 DEF Onward, Counted, Before, On
<1>10. Counted' /\ Readers'
  BY <1>3, <1>8, <1>9, CountedKept, ReadersStay
<1> QED
  BY <1>3, <1>4, <1>8, <1>10, TypeWhole DEF TInv

LEMMA FinishTyped ==
    ASSUME TInv, NEW s \in Session, NEW how \in {"done", "cancelled"}, Finish(s, how)
    PROVE  TInv'
PROOF
<1>1. /\ BoardOK /\ CopilotOK /\ ClientOK /\ HarnessOK /\ RequestsOK /\ BoundsOK
      /\ TypeOK /\ Counted /\ Readers /\ Unmade /\ Made
  BY TypeParts DEF TInv
<1>2. /\ todo[s] # <<>>
      /\ queue' = [queue EXCEPT ![s] = Append(@, [of |-> Head(todo[s]), kind |-> how])]
      /\ todo' = [todo EXCEPT ![s] = Tail(@)]
      /\ UNCHANGED <<board, session, instructed, mail, run, readers, active, cancelled,
                     got, dead, requests, bounds>>
  BY DEF Finish, Works
<1>3. /\ BoardOK' /\ CopilotOK' /\ RequestsOK' /\ BoundsOK' /\ Unmade' /\ Made'
      /\ UNCHANGED <<session, opened, readers, run>>
  BY <1>1, <1>2 DEF board, mail, bounds, requests, BoardOK, CopilotOK, BoundsOK, RequestsOK,
                    Unmade, Made
<1>4. Head(todo[s]) \in Prompt /\ Tail(todo[s]) \in Seq(Prompt)
  BY <1>1, <1>2, HeadTailProperties DEF HarnessOK
<1>5. HarnessOK'
  BY <1>1, <1>2, <1>4 DEF HarnessOK
<1>6. PICK u \in Update : u = [of |-> Head(todo[s]), kind |-> how]
  BY <1>4 DEF Update
<1>7. Append(queue[s], u) \in Seq(Update)
  BY <1>1, AppendProperties DEF ClientOK
<1>8. ClientOK'
  BY <1>1, <1>2, <1>6, <1>7 DEF ClientOK
<1>9. \A q \in Prompt : Onward(q)
  BY <1>1, <1>3 DEF Onward, Counted, Before, On
<1>10. Counted' /\ Readers'
  BY <1>3, <1>8, <1>9, CountedKept, ReadersStay
<1> QED
  BY <1>3, <1>5, <1>8, <1>10, TypeWhole DEF TInv

-----------------------------------------------------------------------------
(* Every step, and none.                                                   *)

(* A step that changes nothing keeps the types.                            *)
LEMMA StandsTyped ==
    ASSUME TInv, UNCHANGED vars
    PROVE  TInv'
BY DEF vars, board, mail, client, harness, requests, bounds, TInv, TypeOK, Counted, Past,
       Readers, Unmade, Made

(* Every step keeps the types.                                             *)
LEMMA StepTyped ==
    ASSUME TInv, Turns, [Next]_vars
    PROVE  TInv'
PROOF
<1>1. ASSUME NEW p \in Prompt, ContextFails(p) \/ SessionFails(p)
      PROVE  TInv'
  BY <1>1, FailsTyped DEF ContextFails, SessionFails, Before
<1>2. ASSUME Next PROVE TInv'
  BY <1>1, <1>2, TopTyped, LastMailTyped, HearTyped, SubmitTyped, CancelTyped, AnswerTyped,
     ContextLoadedTyped, SessionOpensTyped, AskTyped, TakeBackTyped, DiesTyped, EmitTyped,
     FinishTyped DEF Next
<1> QED
  BY <1>2, StandsTyped

-----------------------------------------------------------------------------
(* The prompt in hand, the requests, and the instructions.                 *)

Held == TInv /\ Turns /\ AnsweredOrHeld /\ Instructions

(* A transcript that is not in hand stays as it is.                        *)
Untouched == \A q \in 1 .. sent : q # current => log'[q] = log[q]

(* No turn is sent or dispatched.                                          *)
Steady ==
    \A q \in Prompt :
        /\ run'[q].pc = "off" <=> run[q].pc = "off"
        /\ run'[q].on = run[q].on /\ run'[q].instructing = run[q].instructing

(* The prompt in hand stays, or the board no longer has one.               *)
InHandStays ==
    \/ current' = current /\ (turn' = turn \/ turn' # "running")
    \/ current' = 0 /\ turn' # "running"

(* Who is in hand stays so while no turn is sent.                          *)
LEMMA TurnsKept ==
    ASSUME Turns, sent' = sent, InHandStays, LastInHand',
           \A q \in Prompt : run'[q].pc = "off" <=> run[q].pc = "off"
    PROVE  Turns'
BY DEF Turns, InHandStays

(* A step that writes to the prompt in hand only leaves the earlier ones.  *)
LEMMA UntouchedBy ==
    ASSUME BoundsOK, \A q \in Prompt : q # current => log'[q] = log[q]
    PROVE  Untouched
BY Bounds DEF Untouched, BoundsOK, Prompt

(* What an agent was told it stays told.                                   *)
LEMMA InstructionsKept ==
    ASSUME Instructions, opened' = opened, dead \subseteq dead', got' = got,
           \A q \in Prompt : run'[q].on = run[q].on /\ run'[q].instructing = run[q].instructing,
           instructed' => instructed \/ \E p \in Prompt : run[p].instructing
    PROVE  Instructions'
PROOF
<1>1. \A s : Reached(s) => Reached(s)'
  BY DEF Reached
<1> QED
  BY <1>1 DEF Instructions, Tells, Reached

(* A step that touches no request keeps what is known of them.             *)
LEMMA AnsweredKept ==
    ASSUME AnsweredOrHeld, UNCHANGED requests
    PROVE  AnsweredOrHeld'
BY DEF AnsweredOrHeld, requests

(* A step that neither sends, dispatches nor asks.                         *)
LEMMA SteadyHeld ==
    ASSUME Held, Steady, sent' = sent, opened' = opened, InHandStays, LastInHand',
           \A q \in Prompt : q # current => log'[q] = log[q],
           dead \subseteq dead', got' = got,
           instructed' => instructed \/ \E p \in Prompt : run[p].instructing
    PROVE  Turns' /\ Untouched /\ Instructions'
BY TypeParts, TurnsKept, UntouchedBy, InstructionsKept DEF Held, TInv, Steady

LEMMA TopHeld ==
    ASSUME Held, NEW p \in Prompt, Top(p)
    PROVE  Turns' /\ Untouched /\ Instructions' /\ AnsweredOrHeld'
PROOF
<1>1. /\ BoardOK /\ CopilotOK /\ ClientOK /\ TypeOK /\ Made /\ TInv
  BY TypeParts DEF Held, TInv
<1>2. run[p].pc \in {"top", "woken"}
      /\ UNCHANGED <<session, instructed, queue, harness, requests, bounds>>
  BY DEF Top
<1>3. sent' = sent /\ opened' = opened /\ dead \subseteq dead' /\ got' = got
      /\ instructed' = instructed /\ AnsweredOrHeld'
  BY <1>2, AnsweredKept DEF bounds, harness, Held
<1>4. CASE outbox = <<>>
  <2>1. Goes(p, "wait") /\ UNCHANGED board
    BY <1>4 DEF Top
  <2>2. Others(p) /\ run'[p] = [pc |-> "wait", on |-> run[p].on, prose |-> run[p].prose,
                               first |-> run[p].first, instructing |-> run[p].instructing]
    BY <1>1, <2>1, GoesFacts DEF PCs
  <2>3. Steady
    BY <1>2, <2>2 DEF Steady, Others
  <2>4. InHandStays /\ log' = log /\ LastInHand'
    BY <2>1, <2>2 DEF InHandStays, board, LastInHand, Held, Turns, Others
  <2> QED
    BY <1>3, <2>3, <2>4, SteadyHeld
<1>5. CASE outbox # <<>> /\ Stale(p)
  <2>1. Goes(p, "over") /\ UNCHANGED board
    BY <1>5 DEF Top, Dropped
  <2>2. Others(p) /\ run'[p] = [pc |-> "over", on |-> run[p].on, prose |-> run[p].prose,
                               first |-> run[p].first, instructing |-> run[p].instructing]
    BY <1>1, <2>1, GoesFacts DEF PCs
  <2>3. Steady
    BY <1>2, <2>2 DEF Steady, Others
  <2>4. InHandStays /\ log' = log /\ LastInHand'
    BY <2>1, <2>2 DEF InHandStays, board, LastInHand, Held, Turns, Others
  <2> QED
    BY <1>3, <2>3, <2>4, SteadyHeld
<1>6. CASE outbox # <<>> /\ ~Stale(p)
  <2>1. /\ Writes(p, run[p].prose \cup {owner[outbox[i].id] : i \in DOMAIN outbox})
        /\ run' = [run EXCEPT ![p].pc = "top", ![p].prose = {}]
        /\ UNCHANGED <<turn, current>>
    BY <1>6 DEF Top
  <2>2. PICK origins \in SUBSET Prompt :
            origins = run[p].prose \cup {owner[outbox[i].id] : i \in DOMAIN outbox}
    BY <1>1, Origins DEF CopilotOK, Turn
  <2>3. \A q \in Prompt \ {p} : log'[q] = log[q]
    BY <1>1, <2>1, <2>2, WritesFacts
  <2>4. Steady
    BY <1>1, <1>2, <2>1 DEF Steady, CopilotOK, Turn
  <2>5. InHandStays /\ p = current
    BY <1>6, <2>1 DEF InHandStays, Stale
  <2>6. LastInHand'
    BY <1>1, <2>1, <2>5 DEF LastInHand, Held, Turns, CopilotOK, Turn
  <2> QED
    BY <1>3, <2>3, <2>4, <2>5, <2>6, SteadyHeld
<1> QED
  BY <1>4, <1>5, <1>6

LEMMA LastMailHeld ==
    ASSUME Held, NEW p \in Prompt, LastMail(p)
    PROVE  Turns' /\ Untouched /\ Instructions' /\ AnsweredOrHeld'
PROOF
<1>1. /\ BoardOK /\ CopilotOK /\ TypeOK /\ Made /\ TInv
  BY TypeParts DEF Held, TInv
<1>2. run[p].pc = "last" /\ Goes(p, "over")
      /\ UNCHANGED <<session, instructed, harness, requests, bounds>>
  BY DEF LastMail
<1>3. sent' = sent /\ opened' = opened /\ dead \subseteq dead' /\ got' = got
      /\ instructed' = instructed /\ AnsweredOrHeld'
  BY <1>2, AnsweredKept DEF bounds, harness, Held
<1>4. p = current
  BY <1>2 DEF Held, Turns, LastInHand
<1>5. Others(p) /\ run'[p] = [pc |-> "over", on |-> run[p].on, prose |-> run[p].prose,
                             first |-> run[p].first, instructing |-> run[p].instructing]
  BY <1>1, <1>2, GoesFacts DEF PCs
<1>6. InHandStays /\ \A q \in Prompt \ {p} : log'[q] = log[q]
  <2>1. CASE outbox # <<>>
    <3>1. /\ Writes(p, {owner[outbox[i].id] : i \in DOMAIN outbox})
          /\ UNCHANGED <<turn, current>>
      BY <2>1 DEF LastMail
    <3> QED
      BY <1>1, <3>1, Origins, WritesFacts DEF InHandStays
  <2>2. CASE outbox = <<>>
    BY <2>2 DEF LastMail, board, InHandStays
  <2> QED
    BY <2>1, <2>2
<1>7. Steady /\ LastInHand'
  <2>1. current' = current \/ ~\E q \in Prompt : run'[q].pc = "last"
    <3>1. \A q \in Prompt : run[q].pc = "last" => q = p
      BY <1>4 DEF Held, Turns, LastInHand
    <3> QED
      BY <1>5, <3>1 DEF Others
  <2> QED
    BY <1>2, <1>5, <2>1 DEF Steady, Others, LastInHand, Held, Turns
<1> QED
  BY <1>3, <1>4, <1>6, <1>7, SteadyHeld

LEMMA HearHeld ==
    ASSUME Held, NEW s \in Session, Hear(s)
    PROVE  Turns' /\ Untouched /\ Instructions' /\ AnsweredOrHeld'
PROOF
<1>1. /\ BoardOK /\ CopilotOK /\ ClientOK /\ TypeOK /\ TInv
  BY TypeParts DEF Held, TInv
<1>2. PICK p, m : p = Head(readers[s]) /\ m = Message(s, p)
  OBVIOUS
<1>3. readers[s] # <<>> /\ Available(s) /\ UNCHANGED <<session, harness, requests, bounds>>
  BY DEF Hear
<1>4. p \in Prompt /\ m.of \in Prompt
  BY <1>1, <1>2, <1>3, MessageFacts
<1>5. sent' = sent /\ opened' = opened /\ dead \subseteq dead' /\ got' = got /\ AnsweredOrHeld'
  BY <1>3, AnsweredKept DEF bounds, harness, Held
<1>6. run[p].pc # "off"
  <2>1. readers[s] \in Seq(Prompt)
    BY <1>1 DEF ClientOK
  <2>2. 1 \in DOMAIN readers[s] /\ p = readers[s][1]
    BY <1>2, <1>3, <2>1, HeadTailProperties, LenProperties, EmptySeq
  <2>3. run[p].on = s /\ s # 0
    BY <2>2 DEF Held, TInv, Readers, Session
  <2> QED
    BY <1>4, <2>3 DEF Held, TInv, Counted
<1>7. CASE run[p].pc = "over"
  <2>1. UNCHANGED <<board, run, instructed>>
    BY <1>2, <1>7 DEF Hear, HearClosed
  <2>2. Steady /\ InHandStays /\ LastInHand' /\ log' = log
    BY <2>1 DEF Steady, InHandStays, board, LastInHand, Held, Turns
  <2> QED
    BY <1>5, <2>1, <2>2, SteadyHeld
<1>8. CASE run[p].pc # "over"
  <2>1. /\ Heard(run[p].first, run[p].instructing, m.kind)
        /\ CASE m.kind = "text" -> HearText(p, m.of)
             [] m.kind = "step" -> HearStep(s, p, m.of)
             [] OTHER -> HearEnd(s, p, m)
    BY <1>2, <1>8 DEF Hear
  <2>2. /\ current' = current /\ Others(p) /\ run'[p].pc \in {"top", "last", "over"}
        /\ run'[p].on = run[p].on /\ run'[p].instructing = run[p].instructing
        /\ \A q \in Prompt : q # current => log'[q] = log[q]
        /\ turn' = turn \/ turn' # "running"
        /\ run'[p].pc = "last" => p = current
    BY <1>1, <1>4, <1>8, <2>1, HeardFacts
  <2>3. instructed' => instructed \/ \E q \in Prompt : run[q].instructing
    BY <1>4, <2>1 DEF Heard
  <2>4. Steady /\ InHandStays /\ LastInHand'
    BY <1>4, <1>6, <2>2 DEF Steady, Others, InHandStays, LastInHand, Held, Turns
  <2> QED
    BY <1>5, <2>2, <2>3, <2>4, SteadyHeld
<1> QED
  BY <1>7, <1>8

LEMMA FailsHeld ==
    ASSUME Held, NEW p \in Prompt, Fails(p), run[p].pc \in {"context", "start"},
           UNCHANGED <<current, session, instructed, mail, client, harness, requests, bounds>>
    PROVE  Turns' /\ Untouched /\ Instructions' /\ AnsweredOrHeld'
PROOF
<1>1. sent' = sent /\ opened' = opened /\ dead \subseteq dead' /\ got' = got /\ AnsweredOrHeld'
      /\ current' = current /\ instructed' = instructed
  BY AnsweredKept DEF bounds, harness, Held
<1>2. /\ Others(p) /\ run'[p] = [pc |-> "over", on |-> run[p].on, prose |-> run[p].prose,
                                first |-> run[p].first, instructing |-> run[p].instructing]
      /\ IF Stale(p) THEN UNCHANGED <<turn, asks, log>> ELSE Ends(p, {p}, "failed")
  BY FailsFacts DEF Held
<1>3. Steady /\ LastInHand'
  BY <1>1, <1>2 DEF Steady, Others, LastInHand, Held, Turns
<1>4. InHandStays /\ \A q \in Prompt : q # current => log'[q] = log[q]
  <2>1. CASE Stale(p)
    BY <1>1, <1>2, <2>1 DEF InHandStays
  <2>2. CASE ~Stale(p)
    <3>1. {p} \in SUBSET Prompt /\ Ends(p, {p}, "failed") /\ BoardOK
      BY <1>2, <2>2, TypeParts DEF Held, TInv
    <3>2. (\A q \in Prompt \ {p} : log'[q] = log[q]) /\ turn' \in {"done", "error"}
      BY <3>1, EndsFacts
    <3> QED
      BY <1>1, <2>2, <3>2 DEF InHandStays, Stale
  <2> QED
    BY <2>1, <2>2
<1> QED
  BY <1>1, <1>3, <1>4, SteadyHeld
LEMMA SubmitHeld ==
    ASSUME Held, Submit
    PROVE  Turns' /\ Untouched /\ Instructions' /\ AnsweredOrHeld'
PROOF
<1>1. /\ BoardOK /\ CopilotOK /\ BoundsOK /\ TypeOK /\ TInv
  BY TypeParts DEF Held, TInv
<1>2. PICK p : p = sent + 1
  OBVIOUS
<1>3. /\ ~Busy /\ sent' = p /\ current' = p /\ turn' = "running" /\ sent < PROMPTS
      /\ log' = [log EXCEPT ![p].card = "running"] /\ Goes(p, "context")
      /\ UNCHANGED <<asks, session, instructed, mail, client, harness, requests,
                     opened, cancels, updates>>
  BY <1>2 DEF Submit
<1>4. p \in Prompt /\ sent \in Nat
  BY <1>1, <1>2, <1>3, Bounds DEF BoundsOK, Prompt
<1>5. Others(p) /\ run'[p] = [pc |-> "context", on |-> run[p].on, prose |-> run[p].prose,
                             first |-> run[p].first, instructing |-> run[p].instructing]
  BY <1>1, <1>3, <1>4, GoesFacts DEF PCs
<1>6. AnsweredOrHeld' /\ opened' = opened /\ dead' = dead /\ got' = got /\ instructed' = instructed
  BY <1>3, AnsweredKept DEF harness, Held
<1>7. Instructions'
  <2>1. \A q \in Prompt : run'[q].on = run[q].on /\ run'[q].instructing = run[q].instructing
    BY <1>5 DEF Others
  <2> QED
    BY <1>6, <2>1, InstructionsKept DEF Held
<1>8. Untouched
  <2>1. ASSUME NEW q \in 1 .. sent
        PROVE  log'[q] = log[q]
    <3>1. q \in Prompt /\ q # p
      BY <1>1, <1>2, <1>4, Bounds DEF BoundsOK, Prompt
    <3> QED
      BY <1>1, <1>3, <3>1 DEF BoardOK
  <2> QED
    BY <2>1 DEF Untouched
<1>9. Turns'
  <2>1. LastInHand'
    BY <1>3, <1>5 DEF LastInHand, Busy, Others
  <2>2. ASSUME NEW q \in Prompt
        PROVE  run'[q].pc = "off" <=> q > sent'
    <3>1. q \in Nat
      BY Bounds DEF Prompt
    <3>2. CASE q = p
      <4>1. p \in Nat /\ run'[p].pc # "off"
        BY <1>2, <1>4, <1>5
      <4> QED
        BY <1>3, <3>2, <4>1
    <3>3. CASE q # p
      <4>1. run'[q] = run[q] /\ (run[q].pc = "off" <=> q > sent)
        BY <1>5, <3>3 DEF Others, Held, Turns
      <4> QED
        BY <1>2, <1>3, <1>4, <3>1, <3>3, <4>1
    <3> QED
      BY <3>2, <3>3
  <2> QED
    BY <1>2, <1>3, <1>4, <2>1, <2>2 DEF Turns
<1> QED
  BY <1>6, <1>7, <1>8, <1>9

LEMMA CancelHeld ==
    ASSUME Held, Cancel
    PROVE  Turns' /\ Untouched /\ Instructions' /\ AnsweredOrHeld'
PROOF
<1>1. /\ BoardOK /\ RequestsOK /\ BoundsOK /\ TypeOK /\ TInv
  BY TypeParts DEF Held, TInv
<1>2. /\ ~Busy /\ turn = "running" /\ UnblockAll
      /\ current' = 0 /\ turn' = "error" /\ asks' = <<>>
      /\ log' = [log EXCEPT ![sent].card = "failed"]
      /\ UNCHANGED <<session, instructed, mail, run, queue, readers, active, harness,
                     owner, chosen, sent, opened, updates>>
  BY DEF Cancel
<1>3. sent = current
  BY <1>2 DEF Held, Turns
<1>4. \A q \in Prompt : q # current => log'[q] = log[q]
  BY <1>1, <1>2, <1>3 DEF BoardOK
<1>5. Steady /\ InHandStays /\ LastInHand'
  BY <1>2 DEF Steady, InHandStays, LastInHand, Busy
<1>6. Turns' /\ Untouched /\ Instructions'
  BY <1>2, <1>4, <1>5, SteadyHeld DEF harness
<1>7. AnsweredOrHeld'
  <2>1. blocked' = {} /\ told' = [r \in Request |-> IF r \in blocked THEN "cancelled" ELSE told[r]]
    BY <1>2 DEF UnblockAll
  <2>2. \A r \in DOMAIN owner : r \in Request
    BY <1>1, Bounds, LenProperties DEF RequestsOK, Request
  <2> QED
    BY <1>2, <2>1, <2>2 DEF AnsweredOrHeld, Held
<1> QED
  BY <1>6, <1>7

LEMMA AnswerHeld ==
    ASSUME Held, NEW how \in {"selected", "cancelled"}, Answer(how)
    PROVE  Turns' /\ Untouched /\ Instructions' /\ AnsweredOrHeld'
PROOF
<1>1. /\ BoardOK /\ RequestsOK /\ TypeOK
  BY TypeParts DEF Held, TInv
<1>2. /\ Settle(Head(asks), how)
      /\ chosen' = IF how = "selected" THEN chosen \cup {Head(asks)} ELSE chosen
      /\ UNCHANGED <<turn, current, log, session, instructed, mail, run, client, harness,
                     owner, bounds>>
  BY DEF Answer
<1>3. Steady /\ InHandStays /\ LastInHand' /\ sent' = sent /\ opened' = opened /\ dead' = dead
      /\ got' = got
  BY <1>2 DEF Steady, InHandStays, LastInHand, Held, Turns, bounds, harness
<1>4. Turns' /\ Untouched /\ Instructions'
  BY <1>2, <1>3, SteadyHeld
<1>5. AnsweredOrHeld'
  <2>1. PICK r : r = Head(asks)
    OBVIOUS
  <2>2. \A q \in DOMAIN owner : q \in Request
    BY <1>1, Bounds, LenProperties DEF RequestsOK, Request
  <2>3. CASE r \in blocked
    <3>1. told' = [told EXCEPT ![r] = how] /\ blocked' = blocked \ {r}
      BY <1>2, <2>1, <2>3 DEF Settle
    <3> QED
      BY <1>1, <1>2, <2>1, <2>2, <3>1 DEF AnsweredOrHeld, Held, RequestsOK
  <2>4. CASE r \notin blocked
    <3>1. told' = told /\ blocked' = blocked
      BY <1>2, <2>1, <2>4 DEF Settle
    <3> QED
      BY <1>2, <3>1 DEF AnsweredOrHeld, Held
  <2> QED
    BY <2>3, <2>4
<1> QED
  BY <1>4, <1>5

(* The prompt is dispatched in a session that is open by then.             *)
LEMMA DispatchHeld ==
    ASSUME Held, NEW p \in Prompt, NEW s \in Session, Dispatch(p, s),
           run[p].pc \in {"context", "start"}, s \in 1 .. opened',
           opened' \in Nat, opened \in Nat, opened <= opened', UNCHANGED <<requests, sent>>
    PROVE  Turns' /\ Untouched /\ Instructions' /\ AnsweredOrHeld'
PROOF
<1>1. /\ BoardOK /\ CopilotOK /\ HarnessOK /\ BoundsOK /\ TypeOK /\ TInv
  BY TypeParts DEF Held, TInv
<1>2. AnsweredOrHeld'
  BY AnsweredKept DEF Held
<1>3. \A q \in Prompt : run[q].instructing => q # p /\ run[q].on \in 1 .. opened'
  <2>1. run[p].on = 0
    BY DEF Held, TInv, Counted
  <2> QED
    BY <2>1 DEF Held, Instructions, Tells
<1>4. ASSUME Others(p), run'[p].pc \in {"wait", "over"}, current' = current,
             turn' = turn \/ turn' # "running",
             \A q \in Prompt : q # current => log'[q] = log[q]
      PROVE  Turns' /\ Untouched
  <2>1. InHandStays /\ LastInHand'
    BY <1>4 DEF InHandStays, LastInHand, Others, Held, Turns
  <2>2. \A q \in Prompt : run'[q].pc = "off" <=> run[q].pc = "off"
    BY <1>4 DEF Others
  <2> QED
    BY <1>1, <1>4, <2>1, <2>2, TurnsKept, UntouchedBy DEF Held
<1>5. CASE ~cancelled[s]
  <2>1. Dispatched(p, s)
    BY <1>1, <1>5, DispatchGoes
  <2>2. /\ UNCHANGED <<queue, cancelled, board, instructed, dead>>
        /\ IF s \in dead THEN todo' = todo /\ got' = got
           ELSE /\ todo' = [todo EXCEPT ![s] = Append(todo[s], p)]
                /\ got' = [got EXCEPT ![s] = Append(got[s], [of |-> p, instructing |-> ~instructed])]
        /\ Others(p)
        /\ run'[p] = [pc |-> "wait", on |-> s, prose |-> run[p].prose, first |-> run[p].first,
                      instructing |-> ~instructed]
    BY <2>1 DEF Dispatched
  <2>3. Turns' /\ Untouched
    BY <1>4, <2>2 DEF board
  <2>4. PICK g : g = [of |-> p, instructing |-> ~instructed]
    OBVIOUS
  <2>5. g \in [of : Prompt, instructing : BOOLEAN] /\ g.instructing = ~instructed
    BY <1>1, <2>4 DEF CopilotOK
  <2>6. ASSUME s \notin dead
        PROVE  /\ \A i \in DOMAIN got[s] : i \in DOMAIN got'[s] /\ got'[s][i] = got[s][i]
               /\ \E i \in DOMAIN got'[s] : got'[s][i] = g
               /\ \A o \in Session \ {s} : got'[o] = got[o]
    <3>1. got' = [got EXCEPT ![s] = Append(got[s], g)]
      BY <2>2, <2>4, <2>6
    <3>2. PICK h \in Seq([of : Prompt, instructing : BOOLEAN]) : h = got[s]
      BY <1>1 DEF HarnessOK
    <3>3. got'[s] = Append(h, g) /\ \A o \in Session \ {s} : got'[o] = got[o]
      BY <1>1, <3>1, <3>2 DEF HarnessOK
    <3>4. /\ Len(h) \in Nat /\ DOMAIN h = 1 .. Len(h) /\ DOMAIN Append(h, g) = 1 .. Len(h) + 1
          /\ \A i \in 1 .. Len(h) : Append(h, g)[i] = h[i]
          /\ Append(h, g)[Len(h) + 1] = g
      BY <2>5, <3>2, AppendProperties, LenProperties
    <3>5. PICK k : k = Append(h, g)
      OBVIOUS
    <3>6. Len(h) + 1 \in DOMAIN k /\ k[Len(h) + 1] = g
      BY <3>4, <3>5
    <3>7. \A i \in DOMAIN h : i \in DOMAIN k /\ k[i] = h[i]
      BY <3>4, <3>5
    <3>8. got'[s] = k /\ got[s] = h
      BY <3>2, <3>3, <3>5
    <3> QED
      BY <3>3, <3>6, <3>7, <3>8
  <2>7. \A o \in Session : Reached(o) => Reached(o)'
    <3>1. SUFFICES ASSUME NEW o \in Session, Reached(o) PROVE Reached(o)'
      OBVIOUS
    <3>2. CASE o \in dead
      BY <2>2, <3>2 DEF Reached
    <3>3. CASE s \in dead
      BY <2>2, <3>1, <3>3 DEF Reached
    <3>4. CASE o \notin dead /\ s \notin dead /\ o # s
      BY <2>2, <2>6, <3>1, <3>4 DEF Reached
    <3>5. CASE s \notin dead /\ o = s
      <4>1. PICK i \in DOMAIN got[s] : got[s][i].instructing
        BY <3>1, <3>5, <2>2 DEF Reached
      <4> QED
        BY <2>6, <3>5, <4>1 DEF Reached
    <3> QED
      BY <3>2, <3>3, <3>4, <3>5
  <2>8. ~instructed => Reached(s)'
    BY <2>2, <2>5, <2>6 DEF Reached
  <2>9. \A o \in 1 .. opened : o \in Session
    BY <1>1, Bounds DEF BoundsOK, Session
  <2>10. \A q \in Prompt : Tells(q)'
    <3>1. SUFFICES ASSUME NEW q \in Prompt, run'[q].instructing
                   PROVE  Tells(q)'
      BY DEF Tells
    <3>2. CASE q = p
      <4>1. run'[q].on = s /\ ~instructed
        <5>1. run'[q] = [pc |-> "wait", on |-> s, prose |-> run[p].prose, first |-> run[p].first,
                         instructing |-> ~instructed]
          BY <2>2, <3>2
        <5>2. run'[q].on = s /\ run'[q].instructing = ~instructed
          BY <5>1
        <5> QED
          BY <1>1, <3>1, <5>2 DEF CopilotOK
      <4> QED
        BY <2>8, <4>1 DEF Tells, Reached
    <3>3. CASE q # p
      <4>1. run'[q] = run[q]
        BY <2>2, <3>3 DEF Others
      <4>2. run[q].on \in 1 .. opened /\ Reached(run[q].on)
        BY <3>1, <4>1 DEF Held, Instructions, Tells
      <4>3. PICK o \in Session : o = run[q].on
        BY <2>9, <4>2
      <4>4. o \in 1 .. opened' /\ Reached(o)'
        BY <1>3, <2>7, <3>1, <4>1, <4>2, <4>3
      <4> QED
        BY <4>1, <4>3, <4>4 DEF Tells, Reached
    <3> QED
      BY <3>2, <3>3
  <2>11. instructed' => \E o \in 1 .. opened' : Reached(o)'
    <3>1. SUFFICES ASSUME instructed PROVE \E o \in 1 .. opened' : Reached(o)'
      BY <2>2
    <3>2. PICK o \in 1 .. opened : Reached(o)
      BY <3>1 DEF Held, Instructions
    <3> QED
      BY <2>7, <2>9, <3>2
  <2>12. Instructions'
    BY <2>10, <2>11 DEF Instructions
  <2> QED
    BY <1>2, <2>3, <2>12
<1>6. CASE cancelled[s]
  <2>1. StoppedFirst(p, s)
    BY <1>1, <1>6, DispatchStops
  <2>2. /\ UNCHANGED <<got, dead, current, instructed>>
        /\ log' = log \/ (current = p /\ \A q \in Prompt \ {p} : log'[q] = log[q])
        /\ turn' = turn \/ turn' # "running"
        /\ Others(p)
        /\ run'[p] = [pc |-> "over", on |-> s, prose |-> run[p].prose, first |-> run[p].first,
                      instructing |-> run[p].instructing]
    BY <2>1 DEF StoppedFirst
  <2>3. Turns' /\ Untouched
    BY <1>4, <2>2
  <2>4. \A o : Reached(o) => Reached(o)'
    BY <2>2 DEF Reached
  <2>5. \A q \in Prompt : Tells(q)'
    <3>1. SUFFICES ASSUME NEW q \in Prompt, run'[q].instructing
                   PROVE  Tells(q)'
      BY DEF Tells
    <3>2. q # p
      BY <1>3, <2>2, <3>1
    <3>3. run'[q] = run[q]
      BY <2>2, <3>2 DEF Others
    <3> QED
      BY <1>3, <2>2, <3>1, <3>2, <3>3 DEF Held, Instructions, Tells, Reached
  <2>6. instructed' => \E o \in 1 .. opened' : Reached(o)'
    BY <2>2, <2>4 DEF Held, Instructions
  <2>7. Instructions'
    BY <2>5, <2>6 DEF Instructions
  <2> QED
    BY <1>2, <2>3, <2>7
<1> QED
  BY <1>5, <1>6

LEMMA ContextLoadedHeld ==
    ASSUME Held, NEW p \in Prompt, ContextLoaded(p)
    PROVE  Turns' /\ Untouched /\ Instructions' /\ AnsweredOrHeld'
PROOF
<1>1. /\ CopilotOK /\ BoundsOK /\ TypeOK /\ session <= opened
  BY TypeParts DEF Held, TInv, Counted
<1>2. run[p].pc = "context" /\ UNCHANGED <<session, requests, bounds>> /\ sent' = sent
      /\ opened' = opened
  BY DEF ContextLoaded, bounds
<1>3. ASSUME NEW to \in {"over", "start"}, Goes(p, to),
             UNCHANGED <<board, instructed, mail, client, harness>>
      PROVE  Turns' /\ Untouched /\ Instructions' /\ AnsweredOrHeld'
  <2>1. Others(p) /\ run'[p] = [pc |-> to, on |-> run[p].on, prose |-> run[p].prose,
                               first |-> run[p].first, instructing |-> run[p].instructing]
    BY <1>1, <1>3, GoesFacts DEF PCs
  <2>2. Steady /\ InHandStays /\ LastInHand' /\ log' = log /\ dead' = dead /\ got' = got
    BY <1>2, <1>3, <2>1 DEF Steady, InHandStays, Others, LastInHand, board, harness, Held, Turns
  <2> QED
    BY <1>2, <1>3, <2>2, SteadyHeld, AnsweredKept DEF Held
<1>4. CASE Stale(p)
  BY <1>3, <1>4 DEF ContextLoaded
<1>5. CASE ~Stale(p) /\ session = 0
  BY <1>3, <1>5 DEF ContextLoaded
<1>6. CASE ~Stale(p) /\ session # 0
  <2>1. Dispatch(p, session) /\ session \in Session /\ session \in 1 .. opened'
    BY <1>1, <1>2, <1>6, Bounds DEF ContextLoaded, CopilotOK, BoundsOK, Session
  <2> QED
    BY <1>1, <1>2, <2>1, DispatchHeld, Bounds DEF BoundsOK
<1> QED
  BY <1>4, <1>5, <1>6

LEMMA SessionOpensHeld ==
    ASSUME Held, NEW p \in Prompt, SessionOpens(p)
    PROVE  Turns' /\ Untouched /\ Instructions' /\ AnsweredOrHeld'
PROOF
<1>1. /\ CopilotOK /\ BoundsOK /\ TypeOK /\ TInv
  BY TypeParts DEF Held, TInv
<1>2. run[p].pc = "start" /\ opened' = opened + 1 /\ session' = opened'
      /\ UNCHANGED <<requests, sent, cancels, updates>>
  BY DEF SessionOpens
<1>3. opened \in Nat /\ opened' \in Session /\ opened' \in Nat /\ session' \in 1 .. opened'
  BY <1>1, <1>2, SessionOpensTyped, Bounds DEF BoundsOK
<1>4. CASE Stale(p) /\ ~instructed
  <2>1. Goes(p, "over") /\ UNCHANGED <<board, instructed, mail, client, harness>>
    BY <1>4 DEF SessionOpens
  <2>2. Others(p) /\ run'[p] = [pc |-> "over", on |-> run[p].on, prose |-> run[p].prose,
                               first |-> run[p].first, instructing |-> run[p].instructing]
    BY <1>1, <2>1, GoesFacts DEF PCs
  <2>3. Steady /\ InHandStays /\ LastInHand' /\ log' = log /\ dead' = dead /\ got' = got
    BY <1>2, <2>1, <2>2 DEF Steady, InHandStays, Others, LastInHand, board, harness, Held, Turns
  <2>4. Turns' /\ Untouched /\ AnsweredOrHeld'
    BY <1>1, <1>2, <2>3, TurnsKept, UntouchedBy, AnsweredKept DEF Held, Steady
  <2>5. Instructions'
    <3>1. \A o : Reached(o) => Reached(o)'
      BY <2>3 DEF Reached
    <3>2. \A q \in Prompt : run'[q].on = run[q].on /\ run'[q].instructing = run[q].instructing
      BY <2>3 DEF Steady
    <3>3. \A o \in 1 .. opened : o \in 1 .. opened'
      BY <1>2, <1>3
    <3> QED
      BY <1>4, <2>1, <2>3, <3>1, <3>2, <3>3 DEF Held, Instructions, Tells, Reached
  <2> QED
    BY <2>4, <2>5
<1>5. CASE ~(Stale(p) /\ ~instructed)
  <2>1. Dispatch(p, session') /\ session' \in Session
    BY <1>2, <1>3, <1>5 DEF SessionOpens
  <2>2. PICK s \in Session : s = session'
    BY <2>1
  <2>3. Dispatch(p, s) /\ s \in 1 .. opened'
    BY <1>3, <2>1, <2>2
  <2> QED
    BY <1>2, <1>3, <2>3, DispatchHeld
<1> QED
  BY <1>4, <1>5

(* Mail wakes a turn, and moves nothing else.                              *)
LEMMA PostSteady ==
    ASSUME TypeOK, NEW items \in Seq(MailType), Post(items)
    PROVE  /\ Steady
           /\ \A q \in Prompt : run'[q].pc = "last" => run[q].pc = "last"
PROOF
<1>1. \A q \in Prompt :
        \/ run'[q] = run[q]
        \/ /\ q = waker /\ run[q].pc = "wait" /\ items # <<>>
           /\ run'[q] = [pc |-> "woken", on |-> run[q].on, prose |-> run[q].prose,
                         first |-> run[q].first, instructing |-> run[q].instructing]
  BY PostFacts
<1>2. SUFFICES ASSUME NEW q \in Prompt
               PROVE  /\ run'[q].pc = "off" <=> run[q].pc = "off"
                      /\ run'[q].on = run[q].on /\ run'[q].instructing = run[q].instructing
                      /\ run'[q].pc = "last" => run[q].pc = "last"
  BY DEF Steady
<1>3. CASE run'[q] = run[q]
  BY <1>3
<1>4. CASE run'[q] # run[q]
  <2>1. /\ run[q].pc = "wait"
        /\ run'[q] = [pc |-> "woken", on |-> run[q].on, prose |-> run[q].prose,
                      first |-> run[q].first, instructing |-> run[q].instructing]
    BY <1>1, <1>4
  <2> QED
    BY <2>1
<1> QED
  BY <1>3, <1>4

LEMMA WithdrawnHeld ==
    ASSUME Held, NEW gone \in SUBSET DOMAIN owner, Withdrawn(gone),
           UNCHANGED <<board, instructed, sent, opened, got, owner, chosen>>, dead \subseteq dead'
    PROVE  Turns' /\ Untouched /\ Instructions' /\ AnsweredOrHeld'
PROOF
<1>1. TypeOK /\ RequestsOK /\ UNCHANGED <<turn, current, log>>
  BY TypeParts DEF Held, TInv, board
<1>2. /\ told' = [r \in Request |-> IF r \in gone THEN "cancelled" ELSE told[r]]
      /\ blocked' = blocked \ gone
  BY <1>1, WithdrawnFacts
<1>3. PICK items \in Seq(MailType) : Post(items)
  BY <1>1, WithdrawnFacts
<1>4. Steady /\ InHandStays /\ LastInHand'
  BY <1>1, <1>3, PostSteady DEF InHandStays, LastInHand, Held, Turns
<1>5. Turns' /\ Untouched /\ Instructions'
  BY <1>1, <1>4, SteadyHeld
<1>6. \A q \in DOMAIN owner : q \in Request
  BY <1>1, Bounds, LenProperties DEF RequestsOK, Request
<1>7. AnsweredOrHeld'
  BY <1>2, <1>6 DEF AnsweredOrHeld, Held
<1> QED
  BY <1>5, <1>7

LEMMA TakeBackHeld ==
    ASSUME Held, NEW s \in Session, TakeBack(s)
    PROVE  Turns' /\ Untouched /\ Instructions' /\ AnsweredOrHeld'
PROOF
<1>1. PICK r \in Open(Head(todo[s])) : Withdrawn({r})
  BY DEF TakeBack
<1>2. {r} \in SUBSET DOMAIN owner
  BY <1>1, OpenMade
<1>3. UNCHANGED <<board, instructed, sent, opened, got, owner, chosen>> /\ dead \subseteq dead'
  BY DEF TakeBack, harness, bounds
<1> QED
  BY <1>1, <1>2, <1>3, WithdrawnHeld

LEMMA DiesHeld ==
    ASSUME Held, NEW s \in Session, Dies(s)
    PROVE  Turns' /\ Untouched /\ Instructions' /\ AnsweredOrHeld'
PROOF
<1>1. PICK gone : gone = UNION {Open(todo[s][i]) : i \in DOMAIN todo[s]}
  OBVIOUS
<1>2. gone \in SUBSET DOMAIN owner
  BY <1>1, OpenMade
<1>3. Withdrawn(gone)
  BY <1>1 DEF Dies
<1>4. UNCHANGED <<board, instructed, sent, opened, got, owner, chosen>> /\ dead \subseteq dead'
  BY DEF Dies, bounds
<1> QED
  BY <1>2, <1>3, <1>4, WithdrawnHeld

LEMMA AskHeld ==
    ASSUME Held, NEW s \in Session, Ask(s)
    PROVE  Turns' /\ Untouched /\ Instructions' /\ AnsweredOrHeld'
PROOF
<1>1. /\ HarnessOK /\ RequestsOK /\ TypeOK /\ Unmade
  BY TypeParts DEF Held, TInv
<1>2. /\ todo[s] # <<>> /\ Len(owner) < ASKS /\ owner' = Append(owner, Head(todo[s]))
      /\ blocked' = blocked \cup {Len(owner')}
      /\ Post(<<[type |-> "ask", id |-> Len(owner')]>>)
      /\ UNCHANGED <<board, session, instructed, client, harness, told, chosen, bounds>>
  BY DEF Ask, Works
<1>3. UNCHANGED <<turn, current, log, sent, opened, dead, got>>
  BY <1>2 DEF board, harness, bounds
<1>4. Head(todo[s]) \in Prompt /\ owner \in Seq(Prompt) /\ Len(owner) \in Nat
  BY <1>1, <1>2, HeadTailProperties, LenProperties DEF HarnessOK, RequestsOK
<1>5. /\ Len(owner') = Len(owner) + 1 /\ DOMAIN owner = 1 .. Len(owner)
      /\ DOMAIN owner' = 1 .. Len(owner) + 1
      /\ \A r \in 1 .. Len(owner) : owner'[r] = owner[r]
  BY <1>2, <1>4, AppendProperties, LenProperties
<1>6. Len(owner') \in Request
  BY <1>2, <1>4, <1>5, Bounds DEF Request
<1>7. PICK item : item = [type |-> "ask", id |-> Len(owner')]
  OBVIOUS
<1>8. <<item>> \in Seq(MailType) /\ Post(<<item>>)
  BY <1>2, <1>6, <1>7 DEF MailType
<1>9. Steady /\ InHandStays /\ LastInHand'
  BY <1>1, <1>3, <1>8, PostSteady DEF InHandStays, LastInHand, Held, Turns
<1>10. Turns' /\ Untouched /\ Instructions'
  BY <1>2, <1>3, <1>9, SteadyHeld
<1>11. AnsweredOrHeld'
  <2>1. told'[Len(owner')] = "nothing" /\ Len(owner') \in blocked'
    BY <1>1, <1>2, <1>4, <1>5, <1>6 DEF Unmade
  <2>2. \A r \in 1 .. Len(owner) : r # Len(owner')
    BY <1>4, <1>5
  <2>3. \A r \in DOMAIN owner' : r \in DOMAIN owner \/ r = Len(owner')
    BY <1>4, <1>5
  <2> QED
    BY <1>2, <1>5, <2>1, <2>2, <2>3 DEF AnsweredOrHeld, Held
<1> QED
  BY <1>10, <1>11

(* A step that changes nothing keeps the invariant.                        *)
LEMMA StillHeld ==
    ASSUME Held, UNCHANGED <<board, run, sent, opened, dead, got, instructed, requests>>
    PROVE  Turns' /\ Untouched /\ Instructions' /\ AnsweredOrHeld'
PROOF
<1>1. Steady /\ InHandStays /\ LastInHand' /\ log' = log
  BY DEF Steady, InHandStays, LastInHand, Held, Turns, board
<1> QED
  BY <1>1, SteadyHeld, AnsweredKept DEF Held

(* Every step keeps the invariant, and leaves earlier transcripts alone.   *)
LEMMA StepHeld ==
    ASSUME Held, [Next]_vars
    PROVE  Held' /\ Untouched
PROOF
<1>1. TInv'
  BY StepTyped DEF Held
<1>2. ASSUME NEW p \in Prompt, ContextFails(p) \/ SessionFails(p)
      PROVE  Turns' /\ Untouched /\ Instructions' /\ AnsweredOrHeld'
  BY <1>2, FailsHeld DEF ContextFails, SessionFails
<1>3. ASSUME NEW s \in Session, NEW kind \in {"text", "step"}, Emit(s, kind)
      PROVE  Turns' /\ Untouched /\ Instructions' /\ AnsweredOrHeld'
  BY <1>3, StillHeld DEF Emit, harness
<1>4. ASSUME NEW s \in Session, NEW how \in {"done", "cancelled"}, Finish(s, how)
      PROVE  Turns' /\ Untouched /\ Instructions' /\ AnsweredOrHeld'
  BY <1>4, StillHeld DEF Finish, bounds
<1>5. ASSUME UNCHANGED vars
      PROVE  Turns' /\ Untouched /\ Instructions' /\ AnsweredOrHeld'
  BY <1>5, StillHeld DEF vars, harness, bounds
<1>6. ASSUME Next
      PROVE  Turns' /\ Untouched /\ Instructions' /\ AnsweredOrHeld'
  BY <1>2, <1>3, <1>4, <1>6, TopHeld, LastMailHeld, HearHeld, SubmitHeld, CancelHeld, AnswerHeld,
     ContextLoadedHeld, SessionOpensHeld, AskHeld, TakeBackHeld, DiesHeld DEF Next
<1> QED
  BY <1>1, <1>5, <1>6 DEF Held

-----------------------------------------------------------------------------
(* The theorems about the types, the requests, the transcripts and the     *)
(* instructions.                                                           *)

(* At first no prompt is sent and nothing asked.                           *)
LEMMA InitHeld ==
    ASSUME Init
    PROVE  Held
PROOF
<1>b. /\ BoardOK /\ HarnessOK /\ ClientOK
  BY EmptySeq DEF Init, BoardOK, HarnessOK, ClientOK, Card
<1>c. CopilotOK
  BY EmptySeq DEF Init, CopilotOK, Turn, PCs
<1>d. RequestsOK
  <2>1. Len(owner) = 0 /\ owner \in Seq(Prompt)
    BY EmptySeq DEF Init
  <2> QED
    BY <2>1, Bounds DEF Init, RequestsOK
<1>e. BoundsOK
  BY Bounds DEF Init, BoundsOK
<1>1. BoardOK /\ CopilotOK /\ ClientOK /\ HarnessOK /\ RequestsOK /\ BoundsOK
  BY <1>b, <1>c, <1>d, <1>e
<1>2. TypeOK
  BY <1>1 DEF TypeOK, BoardOK, CopilotOK, ClientOK, HarnessOK, RequestsOK, BoundsOK, Card, Turn,
     Update, MailType
<1>3. Past = {}
  BY DEF Init, Past
<1>4. Counted
  BY <1>3, FS_EmptySet DEF Init, Counted
<1>5. Readers /\ Made /\ Unmade
  BY DEF Init, Readers, Made, Unmade
<1>6. \A p \in Prompt : p > 0
  BY Bounds DEF Prompt
<1>7. Turns
  BY <1>6 DEF Init, Turns, LastInHand
<1>8. AnsweredOrHeld /\ Instructions
  BY DEF Init, AnsweredOrHeld, Instructions, Tells
<1> QED
  BY <1>2, <1>4, <1>5, <1>7, <1>8 DEF Held, TInv

(* Whatever is sent, asked, stopped or dies, in whatever order, the        *)
(* invariant holds: no step of the board (copilot.ts), of the session's    *)
(* reader (copilot-session.ts) or of the harness breaks it.                *)
THEOREM AlwaysHeld == Spec => []Held
PROOF
<1>1. Init => Held
  BY InitHeld
<1>2. Held /\ [Next]_vars => Held'
  BY StepHeld
<1> QED
  BY <1>1, <1>2, PTL DEF Spec

(* Every variable keeps its type, and every counter its bound: no turn     *)
(* reads, no session is opened and no request is made beyond what the      *)
(* prompts and bounds allow.                                               *)
THEOREM CopilotTypes == Spec => []TypeOK
PROOF
<1>1. Held => TypeOK
  BY DEF Held, TInv
<1> QED
  BY <1>1, AlwaysHeld, PTL

(* A request of the harness is granted only when a human granted it on     *)
(* screen, and one that is not answered yet can still be: a cancel, a      *)
(* mailbox read late, a turn that ends or an agent that dies loses none    *)
(* (copilot.ts:230-345).                                                   *)
THEOREM RequestsAnswered == Spec => []AnsweredOrHeld
PROOF
<1>1. Held => AnsweredOrHeld
  BY DEF Held
<1> QED
  BY <1>1, AlwaysHeld, PTL

(* A turn that was stopped, or that another has followed, is never written *)
(* to again, whatever its stream still hands over (copilot-                *)
(* session.ts:80-165).                                                     *)
THEOREM EarlierStay == Spec => EarlierUntouched
PROOF
<1>1. Held /\ [Next]_vars => [\A p \in 1 .. sent : p # current => log'[p] = log[p]]_vars
  BY StepHeld DEF Untouched
<1> QED
  BY <1>1, AlwaysHeld, PTL DEF Spec, EarlierUntouched

(* The instructions have reached the agent once the copilot takes them for *)
(* told, also when the turn that was to carry them is stopped on its way   *)
(* (copilot.ts:519-527).                                                   *)
THEOREM Instructed == Spec => []InstructionsArrive
PROOF
<1>1. Held => InstructionsArrive
  <2>1. SUFFICES ASSUME Held, opened = 1, instructed
                 PROVE  1 \in dead \/ \E i \in DOMAIN got[1] : got[1][i].instructing
    BY DEF InstructionsArrive
  <2>2. PICK s \in 1 .. opened : Reached(s)
    BY <2>1 DEF Held, Instructions
  <2>3. s = 1
    BY <2>1, <2>2
  <2> QED
    BY <2>2, <2>3 DEF Reached
<1> QED
  BY <1>1, AlwaysHeld, PTL

-----------------------------------------------------------------------------
(* As long as no turn was stopped.                                         *)

OwnParts == InHand /\ Sessions /\ Mailed /\ Asked /\ UpdatesOwn
Untold == Held /\ DeadIdle /\ OwnParts

(* A turn that is neither to come nor over is the one in hand.             *)
LEMMA Sole ==
    ASSUME Untold, NEW p \in Prompt, run[p].pc \notin {"off", "over"}
    PROVE  p = sent /\ sent # 0 /\ current = p /\ ~Stale(p) /\ run[p].prose \subseteq {p}
PROOF
<1>1. BoundsOK
  BY TypeParts DEF Untold, Held, TInv
<1>2. ~(p > sent) /\ ~(p < sent) /\ current = sent /\ run[p].prose \subseteq {p}
  BY DEF Untold, OwnParts, InHand, Held, Turns
<1>3. p \in Nat /\ p # 0 /\ sent \in Nat
  BY <1>1, Bounds DEF Prompt, BoundsOK
<1> QED
  BY <1>2, <1>3 DEF Stale

(* While no turn is live nothing is held, and the sessions are idle.       *)
LEMMA Free ==
    ASSUME Untold, sent = 0 \/ run[sent].pc \notin Live
    PROVE  blocked = {} /\ \A s \in Session : Idle(s)
BY DEF Untold, OwnParts, Sessions, Occupies, Asked

(* What is held is open, and of the turn in hand.                          *)
LEMMA HeldOpen ==
    ASSUME Untold
    PROVE  blocked \subseteq Open(sent)
PROOF
<1>1. RequestsOK /\ Unmade /\ AnsweredOrHeld
  BY TypeParts DEF Untold, Held, TInv
<1>2. SUFFICES ASSUME NEW r \in blocked
               PROVE  r \in Open(sent)
  OBVIOUS
<1>3. r \in Request /\ r \in Nat /\ Len(owner) \in Nat /\ DOMAIN owner = 1 .. Len(owner)
  BY <1>1, Bounds, LenProperties DEF RequestsOK, Request
<1>4. r \in DOMAIN owner
  BY <1>1, <1>3, Bounds DEF Unmade, Request
<1> QED
  BY <1>1, <1>4 DEF Open, AnsweredOrHeld, Untold, OwnParts, Asked

(* Between events the mailbox is empty.                                    *)
LEMMA NoMail ==
    ASSUME Untold, ~Busy
    PROVE  outbox = <<>>
PROOF
<1>1. BoundsOK
  BY TypeParts DEF Untold, Held, TInv
<1>2. sent # 0 => sent \in Prompt
  BY <1>1, Bounds DEF BoundsOK, Prompt
<1> QED
  BY <1>2 DEF Untold, OwnParts, Mailed, Busy

(* An agent that works does so on the prompt in hand, whose turn waits.    *)
LEMMA Working ==
    ASSUME Untold, NEW s \in Session, Works(s)
    PROVE  /\ sent \in Prompt /\ sent # 0 /\ Occupies(s) /\ Occupied(sent, s)
           /\ todo[s] = <<sent>> /\ Head(todo[s]) = sent
           /\ run[sent].pc = "wait" /\ waker = sent /\ outbox = <<>>
PROOF
<1>1. BoundsOK
  BY TypeParts DEF Untold, Held, TInv
<1>2. ~Busy /\ todo[s] # <<>>
  BY DEF Works
<1>3. Occupies(s) /\ Occupied(sent, s)
  BY <1>2 DEF Untold, OwnParts, Sessions, Idle
<1>4. sent # 0 /\ run[sent].pc \in Live
  BY <1>3 DEF Occupies
<1>5. sent \in Prompt
  BY <1>1, <1>4, Bounds DEF BoundsOK, Prompt
<1>6. todo[s] = <<sent>>
  BY <1>2, <1>3 DEF Occupied
<1>7. Head(todo[s]) = sent
  BY <1>6
<1>8. run[sent].pc = "wait"
  BY <1>2, <1>4, <1>5 DEF Busy, Live
<1>9. waker = sent
  BY <1>5, <1>8 DEF Untold, OwnParts, InHand
<1> QED
  BY <1>2, <1>3, <1>4, <1>5, <1>6, <1>7, <1>8, <1>9, NoMail

(* The turn in hand moves on.                                              *)
LEMMA InHandOnward ==
    ASSUME Untold, NEW p \in Prompt, p = sent, Others(p), sent' = sent, current' = current,
           \A s \in Session : ~cancelled'[s], run'[p].prose \subseteq {p},
           run'[p].pc = "wait" => waker' = p,
           turn' = "running" <=> run'[p].pc \notin {"last", "over"}
    PROVE  InHand'
PROOF
<1>1. current' = sent'
  BY DEF Untold, OwnParts, InHand
<1>2. ASSUME NEW q \in Prompt
      PROVE  /\ q < sent => run'[q].pc = "over"
             /\ run'[q].prose \subseteq {q}
             /\ run'[q].pc = "wait" => waker' = q
             /\ q = sent => (turn' = "running" <=> run'[q].pc \notin {"last", "over"})
  <2>1. CASE q = p
    <3>1. q \in Nat
      BY Bounds DEF Prompt
    <3> QED
      BY <2>1, <3>1
  <2>2. CASE q # p
    <3>1. run'[q] = run[q] /\ q # sent
      BY <2>2 DEF Others
    <3>2. run[q].pc \in {"off", "over"}
      BY <3>1, Sole
    <3> QED
      BY <3>1, <3>2 DEF Untold, OwnParts, InHand
  <2> QED
    BY <2>1, <2>2
<1> QED
  BY <1>1, <1>2 DEF InHand

(* The clients' turns end, and none was cancelled.                         *)
LEMMA NoneStopped ==
    ASSUME Untold, NEW s, TurnOver(s)
    PROVE  \A o \in Session : ~cancelled'[o]
PROOF
<1>1. ClientOK
  BY TypeParts DEF Untold, Held, TInv
<1> QED
  BY <1>1 DEF TurnOver, ClientOK, Untold, OwnParts, InHand

(* A transcript grows with updates of its own.                             *)
LEMMA OwnGrows ==
    ASSUME Untold, NEW p \in Prompt, NEW origins, origins \subseteq {p},
           log'[p].of = log[p].of \cup origins, \A q \in Prompt \ {p} : log'[q] = log[q]
    PROVE  UpdatesOwn'
BY DEF Untold, OwnParts, UpdatesOwn
(* An agent that is gone stays without a prompt.                           *)
LEMMA DeadStay ==
    ASSUME DeadIdle, UNCHANGED <<todo, dead>>
    PROVE  DeadIdle'
BY DEF DeadIdle

LEMMA TopOwn ==
    ASSUME Untold, NEW p \in Prompt, Top(p)
    PROVE  OwnParts'
PROOF
<1>1. /\ BoardOK /\ CopilotOK /\ ClientOK /\ TypeOK /\ Made /\ TInv /\ RequestsOK
      /\ InHand /\ Sessions /\ Mailed /\ Asked /\ UpdatesOwn
  BY TypeParts DEF Untold, Held, TInv, OwnParts
<1>2. run[p].pc \in {"top", "woken"}
      /\ UNCHANGED <<session, instructed, queue, harness, requests, bounds>>
  BY DEF Top
<1>3. UNCHANGED <<sent, owner, blocked, told, todo, queue>>
  BY <1>2 DEF bounds, harness, requests
<1>4. p = sent /\ sent # 0 /\ current = p /\ ~Stale(p) /\ run[p].prose \subseteq {p}
  BY <1>2, Sole
<1>5. PICK s \in Session : s = run[p].on
  BY <1>1, <1>2, OnSession DEF On
<1>6. Occupies(s) /\ Occupied(p, s) /\ \A o \in Session \ {s} : Idle(o)
  <2>1. Occupies(s) /\ \A o \in Session \ {s} : ~Occupies(o)
    BY <1>2, <1>4, <1>5 DEF Occupies, Live
  <2> QED
    BY <1>1, <1>4, <2>1 DEF Sessions
<1>7. turn = "running"
  BY <1>1, <1>2, <1>4 DEF InHand
<1>8. ASSUME Others(p), run'[p].pc \in Live, run'[p].on = s,
             readers' \in [Session -> Seq(Prompt)], readers'[s] \in {<<>>, <<p>>},
             \A o \in Session \ {s} : readers'[o] = readers[o]
      PROVE  Sessions'
  <2>1. SUFFICES ASSUME NEW o \in Session
                 PROVE  IF Occupies(o)' THEN Occupied(sent, o)' ELSE Idle(o)'
    BY DEF Sessions
  <2>2. CASE o = s
    <3>1. Occupies(o)'
      BY <1>3, <1>4, <1>8, <2>2 DEF Occupies
    <3>2. Occupied(sent, o)'
      BY <1>3, <1>4, <1>6, <1>8, <2>2 DEF Occupied
    <3> QED
      BY <3>1, <3>2
  <2>3. CASE o # s
    <3>1. ~Occupies(o)'
      BY <1>3, <1>4, <1>8, <2>3 DEF Occupies
    <3>2. Idle(o)'
      BY <1>3, <1>6, <1>8, <2>3 DEF Idle
    <3> QED
      BY <3>1, <3>2
  <2> QED
    BY <2>2, <2>3
<1>9. CASE outbox = <<>>
  <2>1. /\ readers' = IF Contains(readers[run[p].on], p) THEN readers
                      ELSE [readers EXCEPT ![run[p].on] = Append(@, p)]
        /\ Goes(p, "wait") /\ waker' = p /\ UNCHANGED <<board, outbox, active, cancelled>>
    BY <1>9 DEF Top
  <2>2. Others(p) /\ run'[p] = [pc |-> "wait", on |-> run[p].on, prose |-> run[p].prose,
                               first |-> run[p].first, instructing |-> run[p].instructing]
    BY <1>1, <2>1, GoesFacts DEF PCs
  <2>3. InHand'
    BY <1>1, <1>3, <1>4, <1>7, <2>1, <2>2, InHandOnward DEF board, InHand
  <2>4. /\ readers' \in [Session -> Seq(Prompt)] /\ readers'[s] \in {<<>>, <<p>>}
        /\ \A o \in Session \ {s} : readers'[o] = readers[o]
    <3>1. CASE Contains(readers[s], p)
      BY <1>1, <1>5, <1>6, <2>1, <3>1 DEF Occupied, ClientOK
    <3>2. CASE ~Contains(readers[s], p)
      <4>1. readers[s] # <<p>>
        BY <3>2 DEF Contains
      <4>2. readers[s] = <<>>
        BY <1>6, <4>1 DEF Occupied
      <4>3. readers' = [readers EXCEPT ![s] = <<p>>]
        BY <1>5, <2>1, <3>2, <4>2
      <4> QED
        BY <1>1, <4>3 DEF ClientOK
    <3> QED
      BY <3>1, <3>2
  <2>5. Sessions'
    BY <1>5, <1>8, <2>2, <2>4 DEF Live
  <2>6. Mailed'
    BY <1>9, <2>1 DEF Mailed
  <2>7. Asked'
    BY <1>1, <1>3, <1>4, <2>1, <2>2 DEF Asked, board, Mail, Live
  <2>8. UpdatesOwn'
    BY <1>1, <2>1 DEF UpdatesOwn, board
  <2> QED
    BY <2>3, <2>5, <2>6, <2>7, <2>8 DEF OwnParts
<1>10. CASE outbox # <<>>
  <2>1. /\ Writes(p, run[p].prose \cup {owner[outbox[i].id] : i \in DOMAIN outbox})
        /\ asks' = Shown /\ run' = [run EXCEPT ![p].pc = "top", ![p].prose = {}]
        /\ outbox' = <<>> /\ UNCHANGED <<turn, current, active, cancelled, readers, waker>>
    BY <1>4, <1>10 DEF Top
  <2>2. PICK origins \in SUBSET Prompt :
            origins = run[p].prose \cup {owner[outbox[i].id] : i \in DOMAIN outbox}
    BY <1>1, Origins DEF CopilotOK, Turn
  <2>3. origins \subseteq {p}
    BY <1>1, <1>4, <2>2 DEF Mailed
  <2>4. log'[p].of = log[p].of \cup origins /\ \A q \in Prompt \ {p} : log'[q] = log[q]
    BY <1>1, <2>1, <2>2, WritesFacts
  <2>5. UpdatesOwn'
    BY <2>3, <2>4, OwnGrows
  <2>6. Others(p) /\ run'[p] = [pc |-> "top", on |-> run[p].on, prose |-> {},
                               first |-> run[p].first, instructing |-> run[p].instructing]
    <3>1. PICK x \in Turn : x = run[p]
      BY <1>1 DEF CopilotOK
    <3>2. PICK y : y = [x EXCEPT !.pc = "top", !.prose = {}]
      OBVIOUS
    <3>3. y = [pc |-> "top", on |-> x.on, prose |-> {}, first |-> x.first,
               instructing |-> x.instructing]
      BY <3>2 DEF Turn
    <3>4. y \in Turn
      BY <3>3 DEF Turn, PCs
    <3>5. run' = [run EXCEPT ![p] = y]
      BY <2>1, <3>1, <3>2
    <3> QED
      BY <1>1, <3>1, <3>3, <3>4, <3>5 DEF Others, CopilotOK
  <2>7. InHand'
    <3>1. run'[p].pc = "top" /\ run'[p].prose = {}
      BY <2>6
    <3>2. (\A o \in Session : ~cancelled'[o]) /\ turn' = "running"
      BY <1>1, <1>7, <2>1 DEF InHand
    <3> QED
      BY <1>3, <1>4, <2>1, <2>6, <3>1, <3>2, InHandOnward
  <2>8. Sessions'
    BY <1>1, <1>5, <1>6, <1>8, <2>1, <2>6 DEF Live, Occupied, ClientOK
  <2>9. Mailed'
    BY <2>1 DEF Mailed
  <2>10. Asked'
    <3>1. SUFFICES ASSUME NEW r \in blocked
                   PROVE  /\ owner'[r] = sent' /\ sent' # 0 /\ run'[sent'].pc \in Live
                          /\ todo'[run'[sent'].on] = <<sent'>>
                          /\ Contains(asks', r)
                          /\ ~Mail("withdrawn", r)'
      BY <1>3 DEF Asked
    <3>2. r \in Request /\ Contains(asks', r)
      BY <1>1, <2>1, <3>1, ShownFacts DEF Asked, BoardOK, CopilotOK, RequestsOK
    <3>3. ~Mail("withdrawn", r)'
      BY <2>1 DEF Mail
    <3> QED
      BY <1>1, <1>3, <1>4, <2>6, <3>1, <3>2, <3>3 DEF Asked, Live
  <2> QED
    BY <2>5, <2>7, <2>8, <2>9, <2>10 DEF OwnParts
<1> QED
  BY <1>9, <1>10

LEMMA LastMailOwn ==
    ASSUME Untold, NEW p \in Prompt, LastMail(p)
    PROVE  OwnParts'
PROOF
<1>1. /\ BoardOK /\ CopilotOK /\ ClientOK /\ TypeOK /\ Made /\ TInv /\ RequestsOK
      /\ InHand /\ Sessions /\ Mailed /\ Asked /\ UpdatesOwn
  BY TypeParts DEF Untold, Held, TInv, OwnParts
<1>2. /\ run[p].pc = "last" /\ outbox' = <<>> /\ TurnOver(run[p].on) /\ Goes(p, "over")
      /\ UNCHANGED <<session, instructed, waker, queue, readers, harness, requests, bounds>>
  BY DEF LastMail
<1>3. UNCHANGED <<sent, owner, blocked, told, todo, queue, readers>>
  BY <1>2 DEF bounds, harness, requests
<1>4. p = sent /\ sent # 0 /\ current = p
  BY <1>2, Sole
<1>5. Others(p) /\ run'[p] = [pc |-> "over", on |-> run[p].on, prose |-> run[p].prose,
                             first |-> run[p].first, instructing |-> run[p].instructing]
  BY <1>1, <1>2, GoesFacts DEF PCs
<1>6. blocked = {} /\ \A s \in Session : Idle(s)
  BY <1>2, <1>4, Free DEF Live
<1>7. /\ UpdatesOwn' /\ turn' = turn /\ current' = current
  <2>1. CASE outbox # <<>>
    <3>1. /\ Writes(p, {owner[outbox[i].id] : i \in DOMAIN outbox})
          /\ UNCHANGED <<turn, current>>
      BY <2>1 DEF LastMail
    <3>2. PICK origins \in SUBSET Prompt : origins = {owner[outbox[i].id] : i \in DOMAIN outbox}
      BY <1>1, Origins
    <3>3. origins \subseteq {p}
      BY <1>1, <1>4, <3>2 DEF Mailed
    <3>4. log'[p].of = log[p].of \cup origins /\ \A q \in Prompt \ {p} : log'[q] = log[q]
      BY <1>1, <3>1, <3>2, WritesFacts
    <3> QED
      BY <3>1, <3>3, <3>4, OwnGrows
  <2>2. CASE outbox = <<>>
    BY <1>1, <2>2 DEF LastMail, board, UpdatesOwn
  <2> QED
    BY <2>1, <2>2
<1>8. InHand'
  <2>1. run[p].prose \subseteq {p} /\ turn # "running"
    BY <1>1, <1>2, <1>4 DEF InHand
  <2> QED
    BY <1>2, <1>3, <1>4, <1>5, <1>7, <2>1, NoneStopped, InHandOnward
<1>9. Sessions'
  BY <1>3, <1>4, <1>5, <1>6 DEF Sessions, Occupies, Idle, Live
<1>10. Mailed' /\ Asked'
  BY <1>2, <1>3, <1>6 DEF Mailed, Asked
<1> QED
  BY <1>7, <1>8, <1>9, <1>10 DEF OwnParts

(* What a read takes is of the turn in hand; an end is all there is left.  *)
LEMMA Reading ==
    ASSUME Untold, NEW s \in Session, readers[s] # <<>>, Available(s),
           NEW p, p = Head(readers[s]), NEW m, m = Message(s, p)
    PROVE  /\ p \in Prompt /\ p = sent /\ sent # 0 /\ Occupies(s) /\ Occupied(p, s)
           /\ readers[s] = <<p>> /\ m.of = p
           /\ m.kind \notin {"text", "step"} => todo[s] = <<>> /\ (queue[s] = <<>> \/ Tail(queue[s]) = <<>>)
PROOF
<1>1. TypeOK /\ ClientOK /\ Sessions /\ queue[s] \in Seq(Update)
  BY TypeParts DEF Untold, Held, TInv, OwnParts, ClientOK
<1>2. Occupies(s) /\ Occupied(sent, s) /\ sent # 0
  BY <1>1 DEF Sessions, Idle, Occupies
<1>3. readers[s] = <<sent>>
  BY <1>2 DEF Occupied
<1>4. p = sent
  BY <1>3
<1>5. /\ p \in Prompt /\ m.kind \in {"text", "step", "done", "cancelled", "error"}
      /\ m.kind # "error" => queue[s] # <<>> /\ m = Head(queue[s])
      /\ m.kind = "error" => queue[s] = <<>> /\ s \in dead
  BY <1>1, MessageFacts
<1>6. CASE queue[s] = <<>>
  <2>1. m = [of |-> p, kind |-> "error"]
    BY <1>6 DEF Message
  <2>2. todo[s] = <<>>
    BY <1>5, <2>1 DEF Untold, DeadIdle
  <2> QED
    BY <1>2, <1>3, <1>4, <1>5, <1>6, <2>1, <2>2
<1>7. CASE queue[s] # <<>>
  <2>1. PICK q \in Seq(Update) : q = queue[s] /\ q # <<>>
    BY <1>1, <1>7
  <2>2. m = Head(q) /\ m = q[1] /\ 1 \in DOMAIN q /\ Len(q) \in Nat /\ Len(q) # 0
    BY <1>7, <2>1, HeadTailProperties, LenProperties, EmptySeq DEF Message
  <2>3. m.of = p /\ (m.kind \in {"done", "cancelled"} => 1 = Len(q) /\ todo[s] = <<>>)
    BY <1>2, <1>4, <2>1, <2>2 DEF Occupied
  <2>4. ASSUME 1 = Len(q)
        PROVE  Tail(q) = <<>>
    <3>1. PICK t \in Seq(Update) : t = Tail(q) /\ Len(t) = Len(q) - 1
      BY <2>1, HeadTailProperties
    <3>2. Len(t) = 0
      BY <2>4, <3>1
    <3> QED
      BY <3>1, <3>2, EmptySeq
  <2>5. m.kind # "error"
    BY <1>5, <1>7
  <2> QED
    BY <1>2, <1>3, <1>4, <1>5, <2>1, <2>3, <2>4, <2>5
<1> QED
  BY <1>6, <1>7

LEMMA HearOwn ==
    ASSUME Untold, NEW s \in Session, Hear(s)
    PROVE  OwnParts'
PROOF
<1>1. /\ BoardOK /\ CopilotOK /\ ClientOK /\ TypeOK /\ TInv
      /\ InHand /\ Sessions /\ Mailed /\ Asked /\ UpdatesOwn
  BY TypeParts DEF Untold, Held, TInv, OwnParts
<1>2. PICK p, m : p = Head(readers[s]) /\ m = Message(s, p)
  OBVIOUS
<1>3. readers[s] # <<>> /\ Available(s) /\ Reads(s)
      /\ UNCHANGED <<session, mail, harness, requests, bounds>>
  BY DEF Hear
<1>4. UNCHANGED <<sent, owner, blocked, told, todo, outbox, waker>>
  BY <1>3 DEF bounds, harness, requests, mail
<1>5. /\ p \in Prompt /\ p = sent /\ sent # 0 /\ Occupies(s) /\ Occupied(p, s)
      /\ readers[s] = <<p>> /\ m.of = p
      /\ m.kind \notin {"text", "step"} => todo[s] = <<>> /\ (queue[s] = <<>> \/ Tail(queue[s]) = <<>>)
  BY <1>2, <1>3, Reading
<1>6. /\ queue' \in [Session -> Seq(Update)] /\ readers' \in [Session -> Seq(Prompt)]
      /\ \A o \in Session \ {s} : queue'[o] = queue[o] /\ readers'[o] = readers[o]
      /\ readers'[s] = <<>>
      /\ queue'[s] = IF queue[s] = <<>> THEN <<>> ELSE Tail(queue[s])
  <2>1. Tail(<<p>>) = <<>>
    OBVIOUS
  <2> QED
    BY <1>1, <1>3, <1>5, <2>1, ReadsType
<1>7. run[p].pc \in Live /\ run[p].on = s /\ current = p /\ ~Stale(p) /\ run[p].prose \subseteq {p}
      /\ turn = "running"
  <2>1. run[p].pc \in Live /\ run[p].on = s
    BY <1>5 DEF Occupies
  <2>2. run[p].pc \notin {"off", "over", "last"}
    BY <2>1 DEF Live
  <2> QED
    BY <1>1, <1>5, <2>1, <2>2, Sole DEF InHand
<1>8. (CASE m.kind = "text" -> HearText(p, m.of)
         [] m.kind = "step" -> HearStep(s, p, m.of)
         [] OTHER -> HearEnd(s, p, m))
  BY <1>2, <1>7 DEF Hear, Live
<1>9. ASSUME Others(p), run'[p].pc = "top", run'[p].on = s
      PROVE  Sessions'
  <2>1. SUFFICES ASSUME NEW o \in Session
                 PROVE  IF Occupies(o)' THEN Occupied(sent, o)' ELSE Idle(o)'
    BY DEF Sessions
  <2>2. CASE o = s
    <3>1. Occupies(o)'
      BY <1>4, <1>5, <1>9, <2>2 DEF Occupies, Live
    <3>2. ASSUME NEW i \in DOMAIN queue'[s]
          PROVE  /\ queue'[s][i].of = p
                 /\ queue'[s][i].kind \in {"done", "cancelled"} => i = Len(queue'[s]) /\ todo[s] = <<>>
      <4>1. PICK q \in Seq(Update) : q = queue[s]
        BY <1>1 DEF ClientOK
      <4>2. q # <<>> /\ queue'[s] = Tail(q)
        <5>1. CASE q = <<>>
          <6>1. queue'[s] = <<>>
            BY <1>6, <4>1, <5>1
          <6> QED
            BY <3>2, <6>1
        <5>2. CASE q # <<>>
          BY <1>6, <4>1, <5>2
        <5> QED
          BY <5>1, <5>2
      <4>3. /\ Len(q) \in Nat /\ DOMAIN q = 1 .. Len(q) /\ DOMAIN Tail(q) = 1 .. Len(q) - 1
            /\ \A k \in 1 .. Len(q) - 1 : Tail(q)[k] = q[k + 1]
            /\ Len(Tail(q)) = Len(q) - 1
        BY <4>2, HeadTailProperties, LenProperties
      <4>4. i \in 1 .. Len(q) - 1 /\ i + 1 \in DOMAIN q /\ queue'[s][i] = q[i + 1]
        BY <3>2, <4>2, <4>3
      <4>5. /\ q[i + 1].of = p
            /\ q[i + 1].kind \in {"done", "cancelled"} => i + 1 = Len(q) /\ todo[s] = <<>>
        BY <1>5, <4>1, <4>4 DEF Occupied
      <4> QED
        BY <4>2, <4>3, <4>4, <4>5
    <3>3. Occupied(sent, o)'
      BY <1>4, <1>5, <1>6, <2>2, <3>2 DEF Occupied
    <3> QED
      BY <3>1, <3>3
  <2>3. CASE o # s
    <3>1. ~Occupies(o)' /\ ~Occupies(o)
      BY <1>4, <1>5, <1>7, <1>9, <2>3 DEF Occupies
    <3>2. Idle(o)'
      BY <1>1, <1>4, <1>6, <2>3, <3>1 DEF Idle, Sessions
    <3> QED
      BY <3>1, <3>2
  <2> QED
    BY <2>2, <2>3
<1>10. ASSUME Others(p), run'[p].pc = "top", run'[p].on = s, asks' = asks
       PROVE  Mailed' /\ Asked'
  BY <1>1, <1>4, <1>5, <1>7, <1>10 DEF Mailed, Asked, Mail, Live
<1>11. CASE m.kind = "text"
  <2>1. HearText(p, p)
    BY <1>5, <1>8, <1>11
  <2>2. PICK prose \in SUBSET Prompt : prose = run[p].prose \cup {p} /\ prose \subseteq {p}
    BY <1>5, <1>7
  <2>3. Hears(p, "top", prose) /\ UNCHANGED <<board, active, cancelled>> /\ "top" \in PCs
    BY <2>1, <2>2 DEF HearText, PCs
  <2>4. Others(p) /\ run'[p] = [pc |-> "top", on |-> run[p].on, prose |-> prose,
                               first |-> FALSE, instructing |-> run[p].instructing]
    BY <1>1, <1>5, <2>3, HearsFacts
  <2>5. run'[p].pc = "top" /\ run'[p].on = s /\ run'[p].prose = prose
    BY <1>7, <2>4
  <2>6. UNCHANGED <<turn, current, asks, log>>
    BY <2>3 DEF board
  <2>7. InHand'
    <3>1. \A o \in Session : ~cancelled'[o]
      BY <1>1, <2>3 DEF InHand
    <3> QED
      BY <1>4, <1>5, <1>7, <2>2, <2>4, <2>5, <2>6, <3>1, InHandOnward
  <2>8. UpdatesOwn'
    BY <1>1, <2>6 DEF UpdatesOwn
  <2> QED
    BY <1>9, <1>10, <2>4, <2>5, <2>6, <2>7, <2>8 DEF OwnParts
<1>12. CASE m.kind = "step"
  <2>1. HearStep(s, p, p)
    BY <1>5, <1>8, <1>12
  <2>2. /\ Writes(p, run[p].prose \cup {p}) /\ Hears(p, "top", {})
        /\ UNCHANGED <<turn, current, asks, active, cancelled>> /\ "top" \in PCs
    BY <1>7, <2>1 DEF HearStep, PCs
  <2>3. PICK origins \in SUBSET Prompt : origins = run[p].prose \cup {p} /\ origins \subseteq {p}
    BY <1>5, <1>7
  <2>4. Others(p) /\ run'[p] = [pc |-> "top", on |-> run[p].on, prose |-> {},
                               first |-> FALSE, instructing |-> run[p].instructing]
    BY <1>1, <1>5, <2>2, HearsFacts
  <2>5. run'[p].pc = "top" /\ run'[p].on = s /\ run'[p].prose = {}
    BY <1>7, <2>4
  <2>6. UpdatesOwn'
    <3>1. log'[p].of = log[p].of \cup origins /\ \A q \in Prompt \ {p} : log'[q] = log[q]
      BY <1>1, <1>5, <2>2, <2>3, WritesFacts
    <3>2. p \in Prompt /\ origins \subseteq {p}
      BY <1>5, <2>3
    <3> QED
      BY <3>1, <3>2, OwnGrows
  <2>7. InHand'
    <3>1. \A o \in Session : ~cancelled'[o]
      BY <1>1, <2>2 DEF InHand
    <3> QED
      BY <1>4, <1>5, <1>7, <2>2, <2>4, <2>5, <3>1, InHandOnward
  <2> QED
    BY <1>9, <1>10, <2>2, <2>4, <2>5, <2>6, <2>7 DEF OwnParts
<1>13. CASE m.kind \notin {"text", "step"}
  <2>1. HearEnd(s, p, m)
    BY <1>8, <1>13
  <2>2. PICK card, origins : /\ card = IF m.kind = "error" THEN "failed" ELSE "completed"
                             /\ origins = run[p].prose \cup {m.of}
    OBVIOUS
  <2>3. card \in {"completed", "failed"} /\ origins \in SUBSET Prompt /\ origins \subseteq {p}
    BY <1>5, <1>7, <2>2
  <2>4. /\ Ends(p, origins, card) /\ Hears(p, "last", {})
        /\ UNCHANGED <<current, active, cancelled>> /\ "last" \in PCs
    BY <1>7, <2>1, <2>2 DEF HearEnd, PCs
  <2>5. /\ log'[p].of = log[p].of \cup origins /\ \A q \in Prompt \ {p} : log'[q] = log[q]
        /\ turn' \in {"done", "error"}
    BY <1>1, <1>5, <2>3, <2>4, EndsFacts
  <2>6. Others(p) /\ run'[p] = [pc |-> "last", on |-> run[p].on, prose |-> {},
                               first |-> FALSE, instructing |-> run[p].instructing]
    BY <1>1, <1>5, <2>4, HearsFacts
  <2>7. run'[p].pc = "last" /\ run'[p].prose = {}
    BY <2>6
  <2>8. UpdatesOwn'
    BY <1>5, <2>3, <2>5, OwnGrows
  <2>9. InHand'
    <3>1. (\A o \in Session : ~cancelled'[o]) /\ turn' # "running"
      BY <1>1, <2>4, <2>5 DEF InHand
    <3> QED
      BY <1>4, <1>5, <1>7, <2>4, <2>6, <2>7, <3>1, InHandOnward
  <2>10. blocked = {}
    <3>1. todo[s] # <<sent>>
      BY <1>5, <1>13
    <3> QED
      BY <1>1, <1>5, <1>7, <3>1 DEF Asked
  <2>11. Sessions'
    <3>1. SUFFICES ASSUME NEW o \in Session
                   PROVE  ~Occupies(o)' /\ Idle(o)'
      BY DEF Sessions
    <3>2. ~Occupies(o)'
      BY <1>4, <1>5, <2>7 DEF Occupies, Live
    <3>3. CASE o = s
      <4>1. queue'[s] = <<>>
        BY <1>5, <1>6, <1>13
      <4> QED
        BY <1>4, <1>5, <1>6, <1>13, <3>2, <3>3, <4>1 DEF Idle
    <3>4. CASE o # s
      <4>1. ~Occupies(o)
        BY <1>5, <1>7, <3>4 DEF Occupies
      <4> QED
        BY <1>1, <1>4, <1>6, <3>2, <3>4, <4>1 DEF Idle, Sessions
    <3> QED
      BY <3>3, <3>4
  <2>12. Mailed' /\ Asked'
    BY <1>1, <1>4, <1>5, <2>7, <2>10 DEF Mailed, Asked
  <2> QED
    BY <2>8, <2>9, <2>11, <2>12 DEF OwnParts
<1> QED
  BY <1>11, <1>12, <1>13

LEMMA SubmitOwn ==
    ASSUME Untold, Submit
    PROVE  OwnParts'
PROOF
<1>1. /\ BoardOK /\ CopilotOK /\ BoundsOK /\ TypeOK /\ TInv /\ Turns
      /\ InHand /\ Sessions /\ Mailed /\ Asked /\ UpdatesOwn
  BY TypeParts DEF Untold, Held, TInv, OwnParts
<1>2. PICK p : p = sent + 1
  OBVIOUS
<1>3. /\ ~Busy /\ turn # "running" /\ sent' = p /\ current' = p /\ turn' = "running"
      /\ sent < PROMPTS /\ log' = [log EXCEPT ![p].card = "running"] /\ Goes(p, "context")
      /\ UNCHANGED <<asks, session, instructed, mail, client, harness, requests,
                     opened, cancels, updates>>
  BY <1>2 DEF Submit
<1>4. p \in Prompt /\ sent \in Nat /\ p # 0
  BY <1>1, <1>2, <1>3, Bounds DEF BoundsOK, Prompt
<1>5. UNCHANGED <<outbox, waker, queue, readers, cancelled, todo, blocked, owner>>
  BY <1>3 DEF mail, client, harness, requests
<1>6. Others(p) /\ run'[p] = [pc |-> "context", on |-> run[p].on, prose |-> run[p].prose,
                             first |-> run[p].first, instructing |-> run[p].instructing]
  BY <1>1, <1>3, <1>4, GoesFacts DEF PCs
<1>7. run'[p].pc = "context" /\ run'[p].prose \subseteq {p}
  BY <1>1, <1>4, <1>6 DEF InHand
<1>8. \A q \in Prompt : q # p => run[q].pc \in {"off", "over"}
  <2>1. SUFFICES ASSUME NEW q \in Prompt, run[q].pc \notin {"off", "over"} PROVE FALSE
    OBVIOUS
  <2>2. q = sent
    BY <2>1, Sole
  <2>3. run[q].pc # "last"
    BY <1>3 DEF Busy
  <2> QED
    BY <1>1, <1>3, <2>1, <2>2, <2>3 DEF InHand
<1>9. sent # 0 => run[sent].pc = "over"
  <2>1. sent # 0 => sent \in Prompt /\ sent # p /\ ~(sent > sent)
    BY <1>2, <1>3, <1>4, Bounds DEF Prompt
  <2> QED
    BY <1>1, <1>8, <2>1 DEF Turns
<1>10. blocked = {} /\ \A s \in Session : Idle(s)
  BY <1>9, Free DEF Live
<1>11. outbox = <<>>
  BY <1>3, NoMail
<1>12. InHand'
  <2>1. current' = sent' /\ \A s \in Session : ~cancelled'[s]
    BY <1>1, <1>3, <1>5 DEF InHand
  <2>2. ASSUME NEW q \in Prompt
        PROVE  /\ q < sent' => run'[q].pc = "over"
               /\ run'[q].prose \subseteq {q}
               /\ run'[q].pc = "wait" => waker' = q
               /\ q = sent' => (turn' = "running" <=> run'[q].pc \notin {"last", "over"})
    <3>1. q \in Nat
      BY Bounds DEF Prompt
    <3>2. CASE q = p
      BY <1>3, <1>7, <3>1, <3>2
    <3>3. CASE q # p
      <4>1. run'[q] = run[q] /\ run[q].pc \in {"off", "over"} /\ run[q].prose \subseteq {q}
        BY <1>1, <1>6, <1>8, <3>3 DEF Others, InHand
      <4>2. q < sent' => ~(q > sent)
        BY <1>2, <1>3, <1>4, <3>1
      <4>3. q < sent' => run[q].pc # "off"
        BY <1>1, <4>2 DEF Turns
      <4> QED
        BY <1>3, <3>3, <4>1, <4>3
    <3> QED
      BY <3>2, <3>3
  <2> QED
    BY <2>1, <2>2 DEF InHand
<1>13. Sessions'
  BY <1>3, <1>5, <1>7, <1>10 DEF Sessions, Occupies, Idle, Live
<1>14. Mailed' /\ Asked'
  BY <1>5, <1>10, <1>11 DEF Mailed, Asked
<1>15. UpdatesOwn'
  <2>1. log'[p].of = log[p].of /\ \A q \in Prompt \ {p} : log'[q] = log[q]
    BY <1>1, <1>3, <1>4 DEF BoardOK, Card
  <2> QED
    BY <1>1, <2>1 DEF UpdatesOwn
<1> QED
  BY <1>12, <1>13, <1>14, <1>15 DEF OwnParts

(* A turn that is on its way to its dispatch is the one in hand, and       *)
(* nothing is held meanwhile.                                              *)
LEMMA Starting ==
    ASSUME Untold, NEW p \in Prompt, run[p].pc \in {"context", "start"}
    PROVE  /\ p = sent /\ sent # 0 /\ current = p /\ ~Stale(p) /\ run[p].prose \subseteq {p}
           /\ turn = "running" /\ blocked = {} /\ \A s \in Session : Idle(s) /\ ~cancelled[s]
PROOF
<1>1. p = sent /\ sent # 0 /\ current = p /\ ~Stale(p) /\ run[p].prose \subseteq {p}
  BY Sole
<1>2. blocked = {} /\ \A s \in Session : Idle(s)
  BY <1>1, Free DEF Live
<1> QED
  BY <1>1, <1>2 DEF Untold, OwnParts, InHand

LEMMA DispatchOwn ==
    ASSUME Untold, NEW p \in Prompt, NEW s \in Session, Dispatch(p, s),
           run[p].pc \in {"context", "start"}, UNCHANGED <<requests, sent>>
    PROVE  OwnParts' /\ DeadIdle'
PROOF
<1>1. /\ BoardOK /\ CopilotOK /\ ClientOK /\ HarnessOK /\ TypeOK
      /\ InHand /\ Sessions /\ Mailed /\ Asked /\ UpdatesOwn
  BY TypeParts DEF Untold, Held, TInv, OwnParts
<1>2. /\ p = sent /\ sent # 0 /\ current = p /\ run[p].prose \subseteq {p}
      /\ turn = "running" /\ blocked = {} /\ \A o \in Session : Idle(o) /\ ~cancelled[o]
  BY Starting
<1>3. Dispatched(p, s)
  BY <1>1, <1>2, DispatchGoes
<1>4. /\ outbox' = <<>> /\ waker' = p
      /\ UNCHANGED <<queue, cancelled, board, instructed, dead>>
      /\ readers' = [readers EXCEPT ![s] = Append(readers[s], p)]
      /\ IF s \in dead THEN todo' = todo /\ got' = got
         ELSE /\ todo' = [todo EXCEPT ![s] = Append(todo[s], p)]
              /\ got' = [got EXCEPT ![s] = Append(got[s], [of |-> p, instructing |-> ~instructed])]
      /\ Others(p)
      /\ run'[p] = [pc |-> "wait", on |-> s, prose |-> run[p].prose, first |-> run[p].first,
                    instructing |-> ~instructed]
  BY <1>3 DEF Dispatched
<1>5. run'[p].pc = "wait" /\ run'[p].on = s /\ run'[p].prose \subseteq {p}
  BY <1>2, <1>4
<1>6. UNCHANGED <<turn, current, asks, log>> /\ blocked' = {} /\ sent' = sent
  BY <1>2, <1>4 DEF board, requests
<1>7. InHand'
  BY <1>2, <1>4, <1>5, <1>6, InHandOnward
<1>8. Append(<<>>, p) = <<p>>
  OBVIOUS
<1>9. /\ readers'[s] = <<p>> /\ todo'[s] \in {<<>>, <<p>>} /\ queue'[s] = <<>>
      /\ \A o \in Session \ {s} : readers'[o] = <<>> /\ todo'[o] = <<>> /\ queue'[o] = <<>>
      /\ s \in dead => todo'[s] = <<>>
  <2>1. \A o \in Session : readers[o] = <<>> /\ todo[o] = <<>> /\ queue[o] = <<>>
    BY <1>2 DEF Idle
  <2>2. readers' = [readers EXCEPT ![s] = <<p>>] /\ queue' = queue
    BY <1>4, <1>8, <2>1
  <2>3. todo' = todo \/ (s \notin dead /\ todo' = [todo EXCEPT ![s] = <<p>>])
    BY <1>4, <1>8, <2>1
  <2> QED
    BY <1>1, <2>1, <2>2, <2>3 DEF ClientOK, HarnessOK
<1>10. Sessions'
  <2>1. SUFFICES ASSUME NEW o \in Session
                 PROVE  IF Occupies(o)' THEN Occupied(sent, o)' ELSE Idle(o)'
    BY DEF Sessions
  <2>2. CASE o = s
    <3>1. Occupies(o)'
      BY <1>2, <1>5, <1>6, <2>2 DEF Occupies, Live
    <3>2. Occupied(sent, o)'
      <4>1. DOMAIN queue'[o] = {}
        BY <1>9, <2>2
      <4>2. todo'[o] \in {<<>>, <<p>>} /\ readers'[o] = <<p>> /\ sent' = p
        BY <1>2, <1>6, <1>9, <2>2
      <4> QED
        BY <4>1, <4>2 DEF Occupied
    <3> QED
      BY <3>1, <3>2
  <2>3. CASE o # s
    <3>1. ~Occupies(o)'
      BY <1>2, <1>5, <1>6, <2>3 DEF Occupies
    <3>2. Idle(o)'
      BY <1>9, <2>3 DEF Idle
    <3> QED
      BY <3>1, <3>2
  <2> QED
    BY <2>2, <2>3
<1>11. Mailed' /\ Asked' /\ UpdatesOwn'
  BY <1>1, <1>4, <1>6 DEF Mailed, Asked, UpdatesOwn
<1>12. DeadIdle'
  BY <1>1, <1>4, <1>9 DEF DeadIdle, HarnessOK
<1> QED
  BY <1>7, <1>10, <1>11, <1>12 DEF OwnParts

(* A turn that moves on before it is dispatched, or ends there.            *)
LEMMA BeforeOwn ==
    ASSUME Untold, NEW p \in Prompt, run[p].pc \in {"context", "start"},
           NEW to \in {"start", "over"}, Goes(p, to), UpdatesOwn',
           turn' = "running" <=> to = "start",
           UNCHANGED <<sent, current, mail, client, harness, requests>>
    PROVE  OwnParts' /\ DeadIdle'
PROOF
<1>1. TypeOK /\ InHand /\ Sessions /\ Mailed /\ Asked
  BY DEF Untold, Held, TInv, OwnParts
<1>2. /\ p = sent /\ sent # 0 /\ run[p].prose \subseteq {p} /\ blocked = {}
      /\ \A s \in Session : Idle(s) /\ ~cancelled[s]
  BY Starting
<1>3. Others(p) /\ run'[p] = [pc |-> to, on |-> run[p].on, prose |-> run[p].prose,
                             first |-> run[p].first, instructing |-> run[p].instructing]
  BY <1>1, GoesFacts DEF PCs
<1>4. run'[p].pc = to /\ run'[p].prose \subseteq {p}
  BY <1>2, <1>3
<1>5. UNCHANGED <<outbox, waker, queue, readers, cancelled, todo, dead, blocked>>
  BY DEF mail, client, harness, requests
<1>6. InHand'
  BY <1>2, <1>3, <1>4, <1>5, InHandOnward
<1>7. Sessions'
  BY <1>2, <1>4, <1>5 DEF Sessions, Occupies, Idle, Live
<1>8. outbox = <<>>
  BY <1>1, <1>2 DEF Mailed
<1>9. Mailed' /\ Asked' /\ DeadIdle'
  BY <1>2, <1>5, <1>8, DeadStay DEF Mailed, Asked, Untold
<1> QED
  BY <1>6, <1>7, <1>9 DEF OwnParts

LEMMA ContextLoadedOwn ==
    ASSUME Untold, NEW p \in Prompt, ContextLoaded(p)
    PROVE  OwnParts' /\ DeadIdle'
PROOF
<1>1. CopilotOK /\ UpdatesOwn
  BY TypeParts DEF Untold, Held, TInv, OwnParts
<1>2. run[p].pc = "context" /\ UNCHANGED <<session, requests, bounds>> /\ sent' = sent
  BY DEF ContextLoaded, bounds
<1>3. ~Stale(p) /\ turn = "running"
  BY <1>2, Starting
<1>4. CASE session = 0
  <2>1. Goes(p, "start") /\ UNCHANGED <<board, instructed, mail, client, harness>>
    BY <1>3, <1>4 DEF ContextLoaded
  <2>2. UpdatesOwn' /\ turn' = "running" /\ current' = current
    BY <1>1, <1>3, <2>1 DEF UpdatesOwn, board
  <2> QED
    BY <1>2, <2>1, <2>2, BeforeOwn
<1>5. CASE session # 0
  <2>1. PICK s \in Session : s = session
    BY <1>1, <1>5 DEF CopilotOK
  <2>2. Dispatch(p, s)
    BY <1>3, <1>5, <2>1 DEF ContextLoaded
  <2> QED
    BY <1>2, <2>2, DispatchOwn
<1> QED
  BY <1>4, <1>5

LEMMA SessionOpensOwn ==
    ASSUME Untold, NEW p \in Prompt, SessionOpens(p)
    PROVE  OwnParts' /\ DeadIdle'
PROOF
<1>1. run[p].pc = "start" /\ session' = opened' /\ UNCHANGED <<requests, sent, cancels, updates>>
  BY DEF SessionOpens
<1>2. opened' \in Session
  BY SessionOpensTyped DEF Untold, Held
<1>3. ~Stale(p)
  BY <1>1, Starting
<1>4. PICK s \in Session : s = session'
  BY <1>1, <1>2
<1>5. Dispatch(p, s)
  BY <1>3, <1>4 DEF SessionOpens
<1> QED
  BY <1>1, <1>5, DispatchOwn

LEMMA FailsOwn ==
    ASSUME Untold, NEW p \in Prompt, Fails(p), run[p].pc \in {"context", "start"},
           UNCHANGED <<current, session, instructed, mail, client, harness, requests, bounds>>
    PROVE  OwnParts' /\ DeadIdle'
PROOF
<1>1. /\ p = sent /\ ~Stale(p)
  BY Starting
<1>2. Ends(p, {p}, "failed") /\ Goes(p, "over") /\ {p} \in SUBSET Prompt /\ BoardOK
  BY <1>1, TypeParts DEF Fails, Untold, Held, TInv
<1>3. /\ log'[p].of = log[p].of \cup {p} /\ \A q \in Prompt \ {p} : log'[q] = log[q]
      /\ turn' \in {"done", "error"}
  BY <1>2, EndsFacts
<1>4. UpdatesOwn' /\ turn' # "running" /\ sent' = sent
  BY <1>3, OwnGrows DEF bounds
<1> QED
  BY <1>2, <1>4, BeforeOwn

LEMMA AnswerOwn ==
    ASSUME Untold, NEW how \in {"selected", "cancelled"}, Answer(how)
    PROVE  OwnParts' /\ DeadIdle'
PROOF
<1>1. /\ BoardOK /\ InHand /\ Sessions /\ Mailed /\ Asked /\ UpdatesOwn
  BY TypeParts DEF Untold, Held, TInv, OwnParts
<1>2. /\ asks # <<>> /\ asks' = Tail(asks) /\ Settle(Head(asks), how)
      /\ UNCHANGED <<turn, current, log, session, instructed, mail, run, client, harness,
                     owner, bounds>>
  BY DEF Answer
<1>3. UNCHANGED <<sent, cancelled, waker, outbox, todo, queue, readers, dead, turn, current, log,
                  run, owner>>
  BY <1>2 DEF mail, client, harness, bounds
<1>4. InHand' /\ Sessions' /\ Mailed' /\ UpdatesOwn' /\ DeadIdle'
  BY <1>1, <1>3, DeadStay DEF InHand, Sessions, Occupies, Occupied, Idle, Mailed, UpdatesOwn, Untold
<1>5. blocked' = blocked \ {Head(asks)}
  BY <1>2 DEF Settle
<1>6. \A r \in blocked' : Contains(asks, r) => Contains(asks', r)
  <2>1. SUFFICES ASSUME NEW r \in blocked', Contains(asks, r) PROVE Contains(asks', r)
    OBVIOUS
  <2>2. PICK q \in Seq(Request) : q = asks /\ q # <<>>
    BY <1>1, <1>2 DEF BoardOK
  <2>3. PICK i \in 1 .. Len(q) : q[i] = r
    BY <2>1, <2>2 DEF Contains
  <2>4. /\ Head(q) = q[1] /\ Len(q) \in Nat /\ Len(Tail(q)) = Len(q) - 1
        /\ \A k \in 1 .. Len(q) - 1 : Tail(q)[k] = q[k + 1]
    BY <2>2, HeadTailProperties, LenProperties
  <2>5. i # 1
    BY <1>5, <2>1, <2>2, <2>3, <2>4
  <2>6. i - 1 \in 1 .. Len(Tail(q)) /\ Tail(q)[i - 1] = r
    BY <2>3, <2>4, <2>5
  <2> QED
    BY <1>2, <2>2, <2>6 DEF Contains
<1>7. Asked'
  BY <1>1, <1>3, <1>5, <1>6 DEF Asked, Mail
<1> QED
  BY <1>4, <1>7 DEF OwnParts

(* What an agent asks, or takes back, wakes the turn in hand.              *)
LEMMA PostOwn ==
    ASSUME Untold, ~Busy, NEW items \in Seq(MailType), Post(items),
           sent # 0, run[sent].pc = "wait" \/ items = <<>>,
           UNCHANGED <<board, session, client, sent>>,
           \A s \in Session : todo'[s] = todo[s] \/ todo'[s] = <<>>,
           \A i \in DOMAIN items : items[i].id \in DOMAIN owner' /\ owner'[items[i].id] = sent
    PROVE  /\ InHand' /\ Sessions' /\ Mailed' /\ UpdatesOwn' /\ outbox' = items
           /\ run'[sent].on = run[sent].on
           /\ run[sent].pc \in Live => run'[sent].pc \in Live
PROOF
<1>1. /\ TypeOK /\ BoundsOK /\ InHand /\ Sessions /\ Mailed /\ UpdatesOwn
  BY TypeParts DEF Untold, Held, TInv, OwnParts
<1>2. PICK p \in Prompt : p = sent
  BY <1>1, Bounds DEF BoundsOK, Prompt
<1>3. UNCHANGED <<turn, current, log, queue, readers, cancelled, sent>>
  BY DEF board, client
<1>4. outbox = <<>>
  BY NoMail
<1>5. outbox' = items
  BY <1>1, <1>4, PostFacts
<1>6. UpdatesOwn'
  BY <1>1, <1>3 DEF UpdatesOwn
<1>7. CASE items = <<>>
  <2>1. run' = run /\ waker' = waker
    BY <1>1, <1>7, PostFacts
  <2>2. InHand' /\ Mailed'
    BY <1>1, <1>3, <1>5, <1>7, <2>1 DEF InHand, Mailed
  <2>3. Sessions'
    BY <1>1, <1>3, <2>1 DEF Sessions, Occupies, Occupied, Idle
  <2> QED
    BY <1>5, <1>6, <2>1, <2>2, <2>3
<1>8. CASE items # <<>>
  <2>1. run[p].pc = "wait" /\ waker = p /\ turn = "running" /\ p # 0
    BY <1>1, <1>2, <1>8 DEF InHand
  <2>2. run' = [run EXCEPT ![p].pc = "woken"] /\ waker' = 0
    BY <1>8, <2>1 DEF Post, Goes
  <2>3. Goes(p, "woken") /\ "woken" \in PCs
    BY <2>2 DEF Goes, PCs
  <2>4. Others(p) /\ run'[p] = [pc |-> "woken", on |-> run[p].on, prose |-> run[p].prose,
                               first |-> run[p].first, instructing |-> run[p].instructing]
    BY <1>1, <2>3, GoesFacts
  <2>5. run'[p].pc = "woken" /\ run'[p].on = run[p].on /\ run'[p].prose \subseteq {p}
    BY <1>1, <2>4 DEF InHand
  <2>6. InHand'
    <3>1. \A o \in Session : ~cancelled'[o]
      BY <1>1, <1>3 DEF InHand
    <3> QED
      BY <1>2, <1>3, <2>1, <2>4, <2>5, <3>1, InHandOnward
  <2>7. \A s \in Session : Occupies(s)' <=> Occupies(s)
    BY <1>2, <1>3, <2>1, <2>5 DEF Occupies, Live
  <2>8. Sessions'
    BY <1>1, <1>3, <2>7 DEF Sessions, Occupied, Idle
  <2>9. Mailed'
    BY <1>2, <1>3, <1>5, <2>5 DEF Mailed
  <2> QED
    BY <1>2, <1>5, <1>6, <2>5, <2>6, <2>8, <2>9 DEF Live
<1> QED
  BY <1>7, <1>8

LEMMA AskOwn ==
    ASSUME Untold, NEW s \in Session, Ask(s)
    PROVE  OwnParts' /\ DeadIdle'
PROOF
<1>1. /\ TypeOK /\ RequestsOK /\ HarnessOK /\ Asked
  BY TypeParts DEF Untold, Held, TInv, OwnParts
<1>2. /\ Works(s) /\ Len(owner) < ASKS /\ owner' = Append(owner, Head(todo[s]))
      /\ blocked' = blocked \cup {Len(owner')}
      /\ Post(<<[type |-> "ask", id |-> Len(owner')]>>)
      /\ UNCHANGED <<board, session, instructed, client, harness, told, chosen, bounds>>
  BY DEF Ask
<1>3. /\ sent \in Prompt /\ sent # 0 /\ Occupies(s) /\ todo[s] = <<sent>> /\ Head(todo[s]) = sent
      /\ run[sent].pc = "wait" /\ outbox = <<>> /\ ~Busy
  BY <1>2, Working DEF Works
<1>4. UNCHANGED <<sent, todo, dead, asks>>
  BY <1>2 DEF harness, bounds, board
<1>5. /\ owner \in Seq(Prompt) /\ Len(owner) \in Nat
      /\ Len(owner') = Len(owner) + 1 /\ DOMAIN owner = 1 .. Len(owner)
      /\ DOMAIN owner' = 1 .. Len(owner) + 1
      /\ \A r \in 1 .. Len(owner) : owner'[r] = owner[r]
      /\ owner'[Len(owner) + 1] = sent
  BY <1>1, <1>2, <1>3, AppendProperties, LenProperties DEF RequestsOK
<1>6. PICK n \in Request : n = Len(owner') /\ n \in DOMAIN owner' /\ owner'[n] = sent
  BY <1>2, <1>5, Bounds DEF Request
<1>7. PICK item : item = [type |-> "ask", id |-> n]
  OBVIOUS
<1>8. /\ <<item>> \in Seq(MailType) /\ Post(<<item>>) /\ <<item>> # <<>>
      /\ item.id = n /\ item.type = "ask" /\ DOMAIN <<item>> = {1}
  BY <1>2, <1>6, <1>7 DEF MailType
<1>9. \A i \in DOMAIN <<item>> : <<item>>[i].id \in DOMAIN owner' /\ owner'[<<item>>[i].id] = sent
  BY <1>6, <1>8
<1>10. /\ InHand' /\ Sessions' /\ Mailed' /\ UpdatesOwn' /\ outbox' = <<item>>
       /\ run'[sent].on = run[sent].on /\ run'[sent].pc \in Live
  BY <1>2, <1>3, <1>4, <1>8, <1>9, PostOwn DEF Live
<1>11. todo'[run'[sent'].on] = <<sent'>> /\ sent' = sent /\ run'[sent'].pc \in Live
  BY <1>3, <1>4, <1>10 DEF Occupies
<1>12. ASSUME NEW r \in blocked'
       PROVE  /\ owner'[r] = sent' /\ (Contains(asks', r) \/ Mail("ask", r)') /\ ~Mail("withdrawn", r)'
  <2>1. ~Mail("withdrawn", r)'
    BY <1>8, <1>10 DEF Mail
  <2>2. CASE r = n
    BY <1>6, <1>8, <1>10, <1>11, <2>1, <2>2 DEF Mail
  <2>3. CASE r # n
    <3>1. r \in blocked
      BY <1>2, <1>6, <1>12, <2>3
    <3>2. r \in DOMAIN owner
      BY <3>1, HeldOpen DEF Open
    <3>3. Contains(asks, r) /\ owner[r] = sent
      BY <1>1, <1>3, <3>1 DEF Asked, Mail
    <3> QED
      BY <1>4, <1>5, <2>1, <3>2, <3>3
  <2> QED
    BY <2>2, <2>3
<1>13. Asked'
  BY <1>3, <1>11, <1>12 DEF Asked
<1> QED
  BY <1>4, <1>10, <1>13, DeadStay DEF OwnParts, Untold

(* Requests are taken back while the agent works, or with its connection.  *)
LEMMA WithdrawnOwn ==
    ASSUME Untold, ~Busy, NEW gone \in SUBSET DOMAIN owner, Withdrawn(gone),
           UNCHANGED <<board, session, client, sent, owner>>,
           todo' = todo \/ blocked \subseteq gone,
           \A s \in Session : todo'[s] = todo[s] \/ todo'[s] = <<>>
    PROVE  OwnParts'
PROOF
<1>1. /\ TypeOK /\ BoundsOK /\ RequestsOK /\ InHand /\ Sessions /\ Mailed /\ Asked /\ UpdatesOwn
  BY TypeParts DEF Untold, Held, TInv, OwnParts
<1>2. blocked' = blocked \ gone
  BY <1>1, WithdrawnFacts
<1>3. PICK items \in Seq(MailType) :
          /\ Post(items)
          /\ \A i \in DOMAIN items : items[i].type = "withdrawn" /\ items[i].id \in gone \cap blocked
          /\ gone \cap blocked = {} => items = <<>>
  BY <1>1, WithdrawnFacts
<1>4. outbox = <<>> /\ asks' = asks /\ sent' = sent
  BY NoMail DEF board
<1>5. CASE sent = 0
  <2>1. blocked = {}
    BY <1>5, Free
  <2>2. items = <<>>
    BY <1>3, <2>1
  <2>3. run' = run /\ waker' = waker /\ outbox' = <<>>
    <3>1. outbox' = outbox \o items /\ run' = run /\ waker' = waker
      BY <1>1, <1>3, <2>2, PostFacts
    <3>2. <<>> \o <<>> = <<>>
      OBVIOUS
    <3> QED
      BY <1>4, <2>2, <3>1, <3>2
  <2>4. UNCHANGED <<turn, current, log, queue, readers, cancelled>>
    BY DEF board, client
  <2>5. InHand' /\ Mailed' /\ UpdatesOwn'
    BY <1>1, <1>4, <2>3, <2>4 DEF InHand, Mailed, UpdatesOwn
  <2>6. Sessions'
    BY <1>1, <1>4, <2>3, <2>4 DEF Sessions, Occupies, Occupied, Idle
  <2>7. Asked'
    BY <1>2, <2>1 DEF Asked
  <2> QED
    BY <2>5, <2>6, <2>7 DEF OwnParts
<1>6. CASE sent # 0
  <2>1. sent \in Prompt
    BY <1>1, <1>6, Bounds DEF BoundsOK, Prompt
  <2>2. run[sent].pc = "wait" \/ items = <<>>
    <3>1. SUFFICES ASSUME blocked # {} PROVE run[sent].pc = "wait"
      BY <1>3
    <3>2. run[sent].pc \in Live
      BY <1>1, <3>1 DEF Asked
    <3> QED
      BY <2>1, <3>2 DEF Busy, Live
  <2>3. \A i \in DOMAIN items : items[i].id \in DOMAIN owner' /\ owner'[items[i].id] = sent
    BY <1>1, <1>3 DEF Asked
  <2>4. /\ InHand' /\ Sessions' /\ Mailed' /\ UpdatesOwn' /\ outbox' = items
        /\ run'[sent].on = run[sent].on
        /\ run[sent].pc \in Live => run'[sent].pc \in Live
    BY <1>3, <1>6, <2>2, <2>3, PostOwn
  <2>5. ASSUME NEW r \in blocked'
        PROVE  /\ owner'[r] = sent' /\ sent' # 0 /\ run'[sent'].pc \in Live
               /\ todo'[run'[sent'].on] = <<sent'>>
               /\ Contains(asks', r) /\ ~Mail("withdrawn", r)'
    <3>1. r \in blocked /\ r \notin gone
      BY <1>2, <2>5
    <3>2. todo' = todo
      BY <3>1
    <3>3. /\ owner[r] = sent /\ run[sent].pc \in Live /\ todo[run[sent].on] = <<sent>>
          /\ Contains(asks, r)
      BY <1>1, <1>4, <3>1 DEF Asked, Mail
    <3>4. ~Mail("withdrawn", r)'
      BY <1>3, <2>4, <3>1 DEF Mail
    <3> QED
      BY <1>4, <1>6, <2>4, <3>2, <3>3, <3>4
  <2>6. Asked'
    BY <2>5 DEF Asked
  <2> QED
    BY <2>4, <2>6 DEF OwnParts
<1> QED
  BY <1>5, <1>6

LEMMA TakeBackOwn ==
    ASSUME Untold, NEW s \in Session, TakeBack(s)
    PROVE  OwnParts' /\ DeadIdle'
PROOF
<1>1. PICK r \in Open(Head(todo[s])) : Withdrawn({r})
  BY DEF TakeBack
<1>2. {r} \in SUBSET DOMAIN owner
  BY <1>1, OpenMade
<1>3. ~Busy /\ UNCHANGED <<board, session, client, sent, owner, todo, dead>>
  BY DEF TakeBack, Works, harness, bounds
<1>4. OwnParts'
  BY <1>1, <1>2, <1>3, WithdrawnOwn
<1> QED
  BY <1>3, <1>4, DeadStay DEF Untold

LEMMA DiesOwn ==
    ASSUME Untold, NEW s \in Session, Dies(s)
    PROVE  OwnParts' /\ DeadIdle'
PROOF
<1>1. /\ HarnessOK /\ Sessions /\ Asked
  BY TypeParts DEF Untold, Held, TInv, OwnParts
<1>2. PICK gone : gone = UNION {Open(todo[s][i]) : i \in DOMAIN todo[s]}
  OBVIOUS
<1>3. gone \in SUBSET DOMAIN owner
  BY <1>2, OpenMade
<1>4. /\ Withdrawn(gone) /\ ~Busy /\ dead' = dead \cup {s} /\ todo' = [todo EXCEPT ![s] = <<>>]
      /\ UNCHANGED <<board, session, client, sent, owner>>
  BY <1>2 DEF Dies, bounds
<1>5. \A o \in Session : todo'[o] = todo[o] \/ todo'[o] = <<>>
  BY <1>1, <1>4 DEF HarnessOK
<1>6. todo' = todo \/ blocked \subseteq gone
  <2>1. CASE todo[s] = <<>>
    BY <1>1, <1>4, <2>1 DEF HarnessOK
  <2>2. CASE todo[s] # <<>>
    <3>1. Works(s)
      BY <1>4, <2>2 DEF Works
    <3>2. todo[s] = <<sent>>
      BY <3>1, Working
    <3>3. 1 \in DOMAIN todo[s] /\ todo[s][1] = sent
      BY <3>2
    <3>4. Open(sent) \subseteq gone
      BY <1>2, <3>3
    <3> QED
      BY <3>4, HeldOpen
  <2> QED
    BY <2>1, <2>2
<1>7. OwnParts'
  BY <1>3, <1>4, <1>5, <1>6, WithdrawnOwn
<1>8. DeadIdle'
  BY <1>1, <1>4 DEF DeadIdle, HarnessOK, Untold
<1> QED
  BY <1>7, <1>8

(* What the agent sends joins what it sent before, none of it an end.      *)
LEMMA QueueOwn ==
    ASSUME Untold, NEW s \in Session, Works(s), NEW kind \in {"text", "step", "done", "cancelled"},
           queue' = [queue EXCEPT ![s] = Append(@, [of |-> Head(todo[s]), kind |-> kind])],
           kind \in {"done", "cancelled"} => todo'[s] = <<>>,
           todo'[s] \in {todo[s], <<>>}, \A o \in Session \ {s} : todo'[o] = todo[o],
           UNCHANGED <<board, mail, run, readers, cancelled, sent>>
    PROVE  InHand' /\ Sessions' /\ UpdatesOwn'
PROOF
<1>1. ClientOK /\ InHand /\ Sessions /\ UpdatesOwn
  BY TypeParts DEF Untold, Held, TInv, OwnParts
<1>2. /\ sent \in Prompt /\ sent # 0 /\ Occupies(s) /\ Occupied(sent, s)
      /\ todo[s] = <<sent>> /\ Head(todo[s]) = sent
  BY Working
<1>3. InHand' /\ UpdatesOwn'
  BY <1>1 DEF InHand, UpdatesOwn, board, mail
<1>4. PICK u \in Update : u = [of |-> sent, kind |-> kind]
  BY <1>2 DEF Update
<1>5. PICK q \in Seq(Update) : q = queue[s]
  BY <1>1 DEF ClientOK
<1>6. queue'[s] = Append(q, u) /\ \A o \in Session \ {s} : queue'[o] = queue[o]
  BY <1>1, <1>2, <1>4, <1>5 DEF ClientOK
<1>7. ASSUME NEW i \in DOMAIN queue'[s]
      PROVE  /\ queue'[s][i].of = sent
             /\ queue'[s][i].kind \in {"done", "cancelled"} => i = Len(queue'[s]) /\ todo'[s] = <<>>
  <2>1. PICK k : k = Append(q, u)
    OBVIOUS
  <2>2. /\ Len(q) \in Nat /\ DOMAIN q = 1 .. Len(q) /\ DOMAIN k = 1 .. Len(q) + 1
        /\ Len(k) = Len(q) + 1 /\ k[Len(q) + 1] = u
        /\ \A j \in 1 .. Len(q) : k[j] = q[j]
    BY <2>1, AppendProperties, LenProperties
  <2>3. queue'[s] = k
    BY <1>6, <2>1
  <2>4. u.of = sent /\ u.kind = kind
    BY <1>4
  <2>5. CASE i = Len(q) + 1
    BY <2>2, <2>3, <2>4, <2>5
  <2>6. CASE i # Len(q) + 1
    <3>1. i \in DOMAIN q /\ k[i] = q[i]
      BY <1>7, <2>2, <2>3, <2>6
    <3>2. q[i].of = sent /\ q[i].kind \notin {"done", "cancelled"}
      BY <1>2, <1>5, <3>1 DEF Occupied
    <3> QED
      BY <2>3, <3>1, <3>2
  <2> QED
    BY <2>5, <2>6
<1>8. \A o \in Session : Occupies(o)' <=> Occupies(o)
  BY DEF Occupies
<1>9. \A o \in Session \ {s} : ~Occupies(o)
  BY <1>2 DEF Occupies
<1>10. Occupied(sent, s)'
  BY <1>2, <1>7 DEF Occupied
<1>11. Sessions'
  BY <1>1, <1>2, <1>6, <1>8, <1>9, <1>10 DEF Sessions, Idle
<1> QED
  BY <1>3, <1>11

LEMMA EmitOwn ==
    ASSUME Untold, NEW s \in Session, NEW kind \in {"text", "step"}, Emit(s, kind)
    PROVE  OwnParts' /\ DeadIdle'
PROOF
<1>1. /\ Works(s) /\ queue' = [queue EXCEPT ![s] = Append(@, [of |-> Head(todo[s]), kind |-> kind])]
      /\ UNCHANGED <<board, mail, run, readers, cancelled, sent, todo, dead, owner, blocked, asks,
                     outbox>>
  BY DEF Emit, harness, requests, board, mail
<1>2. InHand' /\ Sessions' /\ UpdatesOwn'
  BY <1>1, QueueOwn
<1>3. Mailed' /\ Asked' /\ DeadIdle'
  BY <1>1, DeadStay DEF Untold, OwnParts, Mailed, Asked, Mail
<1> QED
  BY <1>2, <1>3 DEF OwnParts

LEMMA FinishOwn ==
    ASSUME Untold, NEW s \in Session, NEW how \in {"done", "cancelled"}, Finish(s, how)
    PROVE  OwnParts' /\ DeadIdle'
PROOF
<1>1. HarnessOK
  BY TypeParts DEF Untold, Held, TInv
<1>2. /\ Works(s) /\ Open(Head(todo[s])) = {} /\ todo' = [todo EXCEPT ![s] = Tail(@)]
      /\ queue' = [queue EXCEPT ![s] = Append(@, [of |-> Head(todo[s]), kind |-> how])]
      /\ UNCHANGED <<board, mail, run, readers, cancelled, sent, dead, owner, blocked, outbox>>
  BY DEF Finish, requests, bounds, mail
<1>3. todo[s] = <<sent>> /\ Head(todo[s]) = sent
  BY <1>2, Working
<1>4. Tail(<<sent>>) = <<>>
  OBVIOUS
<1>5. todo'[s] = <<>> /\ \A o \in Session \ {s} : todo'[o] = todo[o]
  BY <1>1, <1>2, <1>3, <1>4 DEF HarnessOK
<1>6. InHand' /\ Sessions' /\ UpdatesOwn'
  BY <1>2, <1>5, QueueOwn
<1>7. blocked' = {}
  BY <1>2, <1>3, HeldOpen
<1>8. Mailed' /\ Asked'
  BY <1>2, <1>7 DEF Untold, OwnParts, Mailed, Asked
<1>9. DeadIdle'
  BY <1>1, <1>2, <1>5 DEF DeadIdle, Untold, HarnessOK
<1> QED
  BY <1>6, <1>8, <1>9 DEF OwnParts

-----------------------------------------------------------------------------
(* Transcripts stay their own, and what is held is on screen, until a turn *)
(* is stopped.                                                             *)

Own == Held /\ (cancels = 0 => DeadIdle /\ OwnParts)

(* A step that changes nothing keeps it.                                   *)
LEMMA StillOwn ==
    ASSUME Untold, UNCHANGED vars
    PROVE  OwnParts' /\ DeadIdle'
BY DEF Untold, OwnParts, InHand, Sessions, Occupies, Occupied, Idle, Mailed, Asked, Mail,
       UpdatesOwn, DeadIdle, vars, board, mail, client, harness, requests, bounds

(* Every step keeps it.                                                    *)
LEMMA StepOwn ==
    ASSUME Own, [Next]_vars
    PROVE  Own'
PROOF
<1>1. Held' /\ BoundsOK
  BY StepHeld, TypeParts DEF Own, Held, TInv
<1>2. SUFFICES ASSUME cancels' = 0
               PROVE  DeadIdle' /\ OwnParts'
  BY <1>1 DEF Own
<1>3. ASSUME Cancel
      PROVE  FALSE
  BY <1>1, <1>2, <1>3, Bounds DEF Cancel, BoundsOK
<1>4. ASSUME NEW p \in Prompt, Top(p) \/ LastMail(p)
      PROVE  Untold => DeadIdle' /\ OwnParts'
  <2>1. UNCHANGED <<todo, dead>>
    BY <1>4 DEF Top, LastMail, harness
  <2> QED
    BY <1>4, <2>1, TopOwn, LastMailOwn, DeadStay DEF Untold
<1>5. ASSUME NEW s \in Session, Hear(s)
      PROVE  Untold => DeadIdle' /\ OwnParts'
  <2>1. UNCHANGED <<todo, dead>>
    BY <1>5 DEF Hear, harness
  <2> QED
    BY <1>5, <2>1, HearOwn, DeadStay DEF Untold
<1>6. ASSUME Submit
      PROVE  Untold => DeadIdle' /\ OwnParts'
  <2>1. UNCHANGED <<todo, dead>>
    BY <1>6 DEF Submit, harness
  <2> QED
    BY <1>6, <2>1, SubmitOwn, DeadStay DEF Untold
<1>7. ASSUME NEW p \in Prompt, ContextFails(p) \/ SessionFails(p)
      PROVE  Untold => DeadIdle' /\ OwnParts'
  BY <1>7, FailsOwn DEF ContextFails, SessionFails
<1>8. ASSUME Next
      PROVE  Untold => DeadIdle' /\ OwnParts'
  BY <1>3, <1>4, <1>5, <1>6, <1>7, <1>8, AnswerOwn, ContextLoadedOwn, SessionOpensOwn,
     AskOwn, TakeBackOwn, DiesOwn, EmitOwn, FinishOwn DEF Next
<1>9. cancels = 0
  <2>1. ASSUME Next
        PROVE  cancels' = cancels \/ cancels' = cancels + 1
    BY <2>1 DEF Next, Top, LastMail, Hear, Submit, Cancel, Answer, ContextLoaded, ContextFails,
       SessionOpens, SessionFails, Ask, TakeBack, Dies, Emit, Finish, bounds
  <2>2. cancels' = cancels \/ cancels' = cancels + 1
    BY <2>1 DEF vars, bounds
  <2> QED
    BY <1>1, <1>2, <2>2, Bounds DEF BoundsOK
<1>10. Untold
  BY <1>9 DEF Own, Untold
<1> QED
  BY <1>8, <1>10, StillOwn

(* At first nothing is held and every session is idle.                     *)
LEMMA InitOwn ==
    ASSUME Init
    PROVE  Own
PROOF
<1>1. Held
  BY InitHeld
<1>2. InHand
  <2>1. \A p \in Prompt : p \in Nat /\ p # 0
    BY Bounds DEF Prompt
  <2> QED
    BY <2>1 DEF Init, InHand
<1>3. Sessions /\ Mailed /\ Asked /\ UpdatesOwn /\ DeadIdle
  BY DEF Init, Sessions, Occupies, Idle, Mailed, Asked, UpdatesOwn, DeadIdle
<1> QED
  BY <1>1, <1>2, <1>3 DEF Own, OwnParts

(* Until a first turn is stopped, each turn's transcript is its own, and   *)
(* what the harness waits on is on screen (copilot.ts:230-345, copilot-    *)
(* session.ts:80-165): what is left in a queue or a mailbox is never       *)
(* another turn's.                                                         *)
THEOREM OwnStays == Spec => []OwnUntilCancelled
PROOF
<1>1. Init => Own
  BY InitOwn
<1>2. Own /\ [Next]_vars => Own'
  BY StepOwn
<1>3. Own => OwnUntilCancelled
  <2>1. SUFFICES ASSUME Untold
                 PROVE  UpdatesOwn /\ (~Busy => \A r \in blocked : Contains(asks, r))
    BY DEF Own, Untold, OwnUntilCancelled
  <2>2. ASSUME ~Busy, NEW r \in blocked
        PROVE  Contains(asks, r)
    <3>1. outbox = <<>>
      BY <2>1, <2>2, NoMail
    <3> QED
      BY <2>1, <2>2, <3>1 DEF Untold, OwnParts, Asked, Mail
  <2> QED
    BY <2>1, <2>2 DEF Untold, OwnParts
<1> QED
  BY <1>1, <1>2, <1>3, PTL DEF Spec
=============================================================================
