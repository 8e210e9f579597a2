---------------------------- MODULE RelayProofs ----------------------------
(***************************************************************************)
(* Relay, for any requests, fields and bounds: the questions surfaces      *)
(* offer are those some relay waits for, or whose withdrawal failed to be  *)
(* written, and a request is told only what humans answered, or that it    *)
(* was given up.                                                           *)
(***************************************************************************)
EXTENDS Relay, SequenceTheorems, WellFoundedInduction, TLAPS

-----------------------------------------------------------------------------
(* The inductive invariant                                                 *)

Closed(q, how) == \E i \in DOMAIN closings[q] : closings[q][i] = how
Unanswered == unanswered(closings)
Live(r) == relay[r].pc \in {"ask", "wait", "take"}

(* A session that waits for nobody has no unanswered question.             *)
Recounted == session \in {"active", "stale"} => Unanswered = {}

(* Every unanswered question is one its relay has open.                    *)
AllRelayed ==
    alive /\ open(session) => \A q \in Unanswered : q \in relay[asked[q].of].open

(* Nothing of a dead runner is left, and no live one is stranded.          *)
Dead ==
    /\ ~alive => relay = fresh[1] /\ got = fresh[2]
    /\ strand.pc # "off" => ~alive

(* Every field posed so far was given a value, or is asked by a question   *)
(* that is open; once the relay waits that is every field of the request.  *)
Covered(r, field) ==
    valued(r, field) \/ \E q \in relay[r].open : asked[q].field = field
Posed(r) ==
    /\ relay[r].pc = "off" => relay[r].field = 0 /\ relay[r].open = {}
    /\ relay[r].pc = "ask" =>
          /\ relay[r].field + 1 \in fieldsOf(r)
          /\ \A field \in 1 .. relay[r].field : Covered(r, field)
    /\ relay[r].pc \in {"wait", "take"} => \A field \in fieldsOf(r) : Covered(r, field)

(* What was read is what a human wrote, and nobody withdraws a question    *)
(* that is waited for.                                                     *)
ReadAsWritten(r) ==
    /\ \A q \in DOMAIN relay[r].read : Closed(q, relay[r].read[q])
    /\ Live(r) => \A q \in relay[r].open : ~Closed(q, "withdrawn")

(* A relay that gives up knows why, and leaves no question open behind but *)
(* those whose withdrawal was not written.                                 *)
Gone(r) == stopped \/ r \in withdrawn \/ ~open(session) \/ r \in unposed
Declined(r) == \E q \in Question : asked[q].of = r /\ Closed(q, "decline")
GivingUp(r) ==
    /\ relay[r].pc \in {"close", "withdraw"} =>
          \/ relay[r].result = "decline" /\ Declined(r)
          \/ relay[r].result = "cancelled" /\ Gone(r)
    /\ relay[r].pc = "withdraw" /\ open(session) =>
          relay[r].open \cap Unanswered \subseteq relay[r].left \cup unclosed
    /\ relay[r].pc # "withdraw" => relay[r].left = {}
    /\ relay[r].pc = "over" /\ open(session) => relay[r].open \cap Unanswered \subseteq unclosed

(* ToldAsAnswered, of one request.                                         *)
ToldRight(r) ==
    /\ got[r] = "accept" => \A field \in fieldsOf(r) : valued(r, field)
    /\ got[r] = "decline" => Declined(r)
    /\ got[r] = "cancelled" => Gone(r)

RelayInv(r) == Posed(r) /\ ReadAsWritten(r) /\ GivingUp(r) /\ ToldRight(r)

IInv ==
    /\ TypeOK /\ Recounted /\ AllRelayed /\ Dead
    /\ \A r \in Request : RelayInv(r)

-----------------------------------------------------------------------------
(* The tables: what a question and its closing do to them                  *)

Tables ==
    /\ session \in {"active", "awaiting_input", "stale", "ended"}
    /\ asked \in Seq([of : Request, field : 1 .. FIELDS])
    /\ closings \in Seq(Seq(Closing)) /\ Len(closings) = Len(asked)
Relays ==
    /\ relay \in [Request -> Relaying]
    /\ \A r \in Request : \A q \in relay[r].open : asked[q].of = r
    /\ \A r \in Request : relay[r].left \cup DOMAIN relay[r].read \subseteq relay[r].open
Around ==
    /\ got \in [Request -> Told \cup {"nothing"}]
    /\ withdrawn \subseteq Request /\ {stopped, alive} \subseteq BOOLEAN
    /\ unposed \subseteq Request /\ unclosed \subseteq Question
    /\ strand \in [pc : {"off", "withdraw", "over"}, left : SUBSET Question]
    /\ answers \in 0 .. ANSWERS /\ invalid \in 0 .. INVALID

LEMMA TypeOKParts == TypeOK <=> Tables /\ Relays /\ Around
PROOF
BY DEF TypeOK, Tables, Relays, Around

(* Questions are numbered in order, and each has a list of its own.        *)
LEMMA TableFacts ==
    ASSUME Tables
    PROVE  /\ Len(asked) \in Nat /\ Question = 1 .. Len(asked) /\ DOMAIN closings = Question
           /\ Unanswered = {q \in Question : closings[q] = <<>>}
           /\ \A q \in Question : /\ asked[q] \in [of : Request, field : 1 .. FIELDS]
                                  /\ closings[q] \in Seq(Closing)
PROOF
<1>1. /\ Len(asked) \in Nat /\ DOMAIN asked = 1 .. Len(asked)
      /\ DOMAIN closings = 1 .. Len(closings) /\ Len(closings) = Len(asked)
  BY LenProperties DEF Tables
<1>2. \A q \in 1 .. Len(asked) : asked[q] \in [of : Request, field : 1 .. FIELDS]
  BY ElementOfSeq DEF Tables
<1>3. \A q \in 1 .. Len(closings) : closings[q] \in Seq(Closing)
  BY ElementOfSeq DEF Tables
<1> QED
  BY <1>1, <1>2, <1>3 DEF Question, Unanswered, unanswered

(* No question and no answer is ever lost, and no session begins again.    *)
Grows ==
    /\ Question \subseteq Question'
    /\ \A q \in Question : asked'[q] = asked[q]
    /\ \A q \in Question, how \in Closing : Closed(q, how) => Closed(q, how)'
    /\ Unanswered' \cap Question \subseteq Unanswered
    /\ ~open(session) => ~open(session')

LEMMA CloseSteps ==
    ASSUME Tables, NEW q \in Question, NEW how \in Closing, Close(q, how)
    PROVE  /\ Tables' /\ Question' = Question /\ asked' = asked
           /\ open(session) /\ open(session')
           /\ Unanswered' = Unanswered \ {q}
           /\ \A p \in Question, h \in Closing :
                 Closed(p, h)' <=> Closed(p, h) \/ (p = q /\ h = how)
           /\ Recounted => Recounted'
PROOF
<1>1. /\ Len(asked) \in Nat /\ Question = 1 .. Len(asked) /\ DOMAIN closings = Question
      /\ Unanswered = {p \in Question : closings[p] = <<>>}
      /\ \A p \in Question : closings[p] \in Seq(Closing)
  BY TableFacts
<1>2. PICK new : new = Append(closings[q], how)
  OBVIOUS
<1>3. /\ new \in Seq(Closing) /\ Len(new) = Len(closings[q]) + 1 /\ Len(closings[q]) \in Nat
      /\ \A i \in 1 .. Len(closings[q]) : new[i] = closings[q][i]
      /\ new[Len(closings[q]) + 1] = how
  BY <1>1, <1>2, AppendProperties
<1>4. closings' = [closings EXCEPT ![q] = new] /\ asked' = asked /\ open(session)
      /\ session' = onceRecounted(closings')
  BY <1>2 DEF Close
<1>5. /\ closings' \in Seq(Seq(Closing)) /\ Len(closings') = Len(closings)
      /\ \A p \in Question : closings'[p] = IF p = q THEN new ELSE closings[p]
  BY <1>1, <1>3, <1>4, ExceptSeq DEF Tables
<1>6. session' \in {"active", "awaiting_input", "stale", "ended"} /\ open(session')
  BY <1>4 DEF Tables, onceRecounted, open
<1>7. Tables' /\ Question' = Question
  BY <1>4, <1>5, <1>6 DEF Tables, Question
<1>8. DOMAIN closings' = Question /\ Unanswered' = {p \in Question : closings'[p] = <<>>}
  BY <1>7, <1>5, <1>1, LenProperties, <1>4 DEF Tables, Unanswered, unanswered
<1>9. new # <<>>
  BY <1>3, EmptySeq
<1>10. Unanswered' = Unanswered \ {q}
  BY <1>1, <1>5, <1>8, <1>9
<1>11. ASSUME NEW p \in Question, NEW h \in Closing
       PROVE  Closed(p, h)' <=> Closed(p, h) \/ (p = q /\ h = how)
  <2>1. CASE p # q
    BY <2>1, <1>5 DEF Closed
  <2>2. CASE p = q
    <3>1. DOMAIN new = 1 .. Len(closings[q]) + 1 /\ DOMAIN closings[q] = 1 .. Len(closings[q])
      BY <1>1, <1>3, LenProperties
    <3>2. (\E i \in DOMAIN new : new[i] = h) <=>
              (\E i \in DOMAIN closings[q] : closings[q][i] = h) \/ h = how
      BY <3>1, <1>3
    <3> QED
      BY <2>2, <3>2, <1>5 DEF Closed
  <2> QED
    BY <2>1, <2>2
<1>12. ASSUME Recounted PROVE Recounted'
  <2>1. session' = IF session \notin {"awaiting_input", "stale"} THEN session
                   ELSE IF Unanswered' = {} THEN "active" ELSE "awaiting_input"
    BY <1>4 DEF onceRecounted, Unanswered
  <2> QED
    BY <2>1, <1>12, <1>10 DEF Recounted
<1> QED
  BY <1>4, <1>6, <1>7, <1>10, <1>11, <1>12

LEMMA PoseSteps ==
    ASSUME Tables, NEW r \in Request, NEW field \in 1 .. FIELDS, Pose(r, field)
    PROVE  /\ Tables' /\ Question' = Question \cup {Len(asked) + 1} /\ Len(asked) + 1 \notin Question
           /\ asked'[Len(asked) + 1] = [of |-> r, field |-> field]
           /\ \A p \in Question : asked'[p] = asked[p]
           /\ Unanswered' = Unanswered \cup {Len(asked) + 1}
           /\ \A p \in Question, h \in Closing : Closed(p, h)' <=> Closed(p, h)
           /\ \A p \in Question' \ Question, h \in Closing : ~Closed(p, h)'
           /\ open(session) /\ open(session') /\ Recounted'
PROOF
<1>1. /\ Len(asked) \in Nat /\ Question = 1 .. Len(asked) /\ DOMAIN closings = Question
      /\ Unanswered = {p \in Question : closings[p] = <<>>}
      /\ \A p \in Question : closings[p] \in Seq(Closing)
  BY TableFacts
<1>2. PICK new : new = Len(asked) + 1
  OBVIOUS
<1>3. /\ asked' = Append(asked, [of |-> r, field |-> field])
      /\ closings' = Append(closings, <<>>)
      /\ open(session) /\ session' = "awaiting_input"
  BY DEF Pose
<1>4. [of |-> r, field |-> field] \in [of : Request, field : 1 .. FIELDS] /\ <<>> \in Seq(Closing)
  BY EmptySeq
<1>5. /\ asked' \in Seq([of : Request, field : 1 .. FIELDS]) /\ Len(asked') = Len(asked) + 1
      /\ \A p \in 1 .. Len(asked) : asked'[p] = asked[p]
      /\ asked'[Len(asked) + 1] = [of |-> r, field |-> field]
  BY <1>3, <1>4, AppendProperties DEF Tables
<1>6. /\ closings' \in Seq(Seq(Closing)) /\ Len(closings') = Len(asked) + 1
      /\ \A p \in 1 .. Len(asked) : closings'[p] = closings[p]
      /\ closings'[Len(asked) + 1] = <<>>
  BY <1>3, <1>4, AppendProperties DEF Tables
<1>7. Tables' /\ open(session')
  BY <1>3, <1>5, <1>6 DEF Tables, open
<1>8. DOMAIN asked' = 1 .. Len(asked) + 1 /\ DOMAIN closings' = 1 .. Len(asked) + 1
  BY <1>5, <1>6, LenProperties
<1>9. Question' = Question \cup {Len(asked) + 1} /\ Len(asked) + 1 \notin Question
  BY <1>1, <1>8 DEF Question
<1>10. Unanswered' = Unanswered \cup {Len(asked) + 1}
  <2>1. Unanswered' = {p \in 1 .. Len(asked) + 1 : closings'[p] = <<>>}
    BY <1>8 DEF Unanswered, unanswered
  <2> QED
    BY <2>1, <1>1, <1>6
<1>11. \A p \in Question, h \in Closing : Closed(p, h)' <=> Closed(p, h)
  BY <1>1, <1>6 DEF Closed
<1>12. \A p \in Question' \ Question, h \in Closing : ~Closed(p, h)'
  <2>1. \A p \in Question' \ Question : DOMAIN closings'[p] = {}
    BY <1>6, <1>9
  <2> QED
    BY <2>1 DEF Closed
<1>13. Recounted'
  BY <1>3 DEF Recounted
<1> QED
  BY <1>1, <1>3, <1>5, <1>7, <1>9, <1>10, <1>11, <1>12, <1>13

-----------------------------------------------------------------------------
(* What other requests keep, and what is left to show of an action         *)

LEMMA StillGrows ==
    ASSUME UNCHANGED tables
    PROVE  /\ Grows /\ Question' = Question /\ Unanswered' = Unanswered
           /\ \A q, how : Closed(q, how)' <=> Closed(q, how)
           /\ Tables => Tables'
           /\ Recounted => Recounted'
PROOF
BY DEF tables, Grows, Question, Unanswered, unanswered, Closed, Tables, Recounted, open

LEMMA CloseGrows ==
    ASSUME Tables, NEW q \in Question, NEW how \in Closing, CloseIfOpen(q, how)
    PROVE  /\ Tables' /\ Grows /\ Question' = Question /\ asked' = asked
           /\ \A p \in Question, h \in Closing :
                 Closed(p, h)' => Closed(p, h) \/ (p = q /\ h = how)
           /\ open(session') => Unanswered' = Unanswered \ {q}
           /\ Recounted => Recounted'
PROOF
<1>1. CASE Close(q, how)
  BY <1>1, CloseSteps DEF Grows
<1>2. CASE ~open(session) /\ UNCHANGED tables
  BY <1>2, StillGrows DEF tables, open
<1> QED
  BY <1>1, <1>2 DEF CloseIfOpen

LEMMA PoseGrows ==
    ASSUME Tables, NEW r \in Request, NEW field \in 1 .. FIELDS, Pose(r, field)
    PROVE  Grows
PROOF
BY PoseSteps DEF Grows

(* What humans wrote stays written.                                        *)
LEMMA WrittenStays ==
    ASSUME Tables, Grows, NEW r \in Request
    PROVE  /\ \A field : valued(r, field) => valued(r, field)'
           /\ Declined(r) => Declined(r)'
PROOF
<1>1. \A q \in Question : Closed(q, "value") => Closed(q, "value")'
  BY DEF Grows, Closing, Reply
<1>2. \A q \in Question : Closed(q, "decline") => Closed(q, "decline")'
  BY DEF Grows, Closing, Reply
<1>3. ASSUME NEW field, valued(r, field) PROVE valued(r, field)'
  <2>1. PICK q \in Question : asked[q] = [of |-> r, field |-> field] /\ Closed(q, "value")
    BY <1>3 DEF valued, Closed
  <2>2. q \in Question' /\ asked'[q] = [of |-> r, field |-> field] /\ Closed(q, "value")'
    BY <2>1, <1>1 DEF Grows
  <2> QED
    BY <2>2 DEF valued, Closed
<1>4. ASSUME Declined(r) PROVE Declined(r)'
  BY <1>4, <1>2 DEF Declined, Grows
<1> QED
  BY <1>3, <1>4

LEMMA RelayKept ==
    ASSUME TypeOK, Grows, NEW r \in Request, RelayInv(r), relay'[r] = relay[r],
           got'[r] = got[r] \/ ToldRight(r)',
           stopped => stopped', withdrawn \subseteq withdrawn',
           unposed \subseteq unposed', unclosed \subseteq unclosed',
           Live(r) => \A q \in relay[r].open : Closed(q, "withdrawn")' => Closed(q, "withdrawn")
    PROVE  RelayInv(r)'
PROOF
<1>1. Tables /\ Relays
  BY TypeOKParts
<1>2. /\ relay[r].open \subseteq Question /\ relay[r].open \subseteq Question'
      /\ \A q \in relay[r].open : asked'[q] = asked[q]
      /\ DOMAIN relay[r].read \subseteq relay[r].open
      /\ \A q \in DOMAIN relay[r].read : relay[r].read[q] \in Closing
  BY <1>1 DEF Relays, Relaying, Grows, Closing
<1>3. \A field : Covered(r, field) => Covered(r, field)'
  BY <1>1, <1>2, WrittenStays DEF Covered
<1>4. Posed(r)'
  BY <1>3 DEF RelayInv, Posed, fieldsOf
<1>5. ReadAsWritten(r)'
  <2>1. \A q \in DOMAIN relay[r].read : Closed(q, relay[r].read[q])'
    BY <1>2 DEF RelayInv, ReadAsWritten, Grows
  <2>2. Live(r)' => \A q \in relay'[r].open : ~Closed(q, "withdrawn")'
    BY DEF RelayInv, ReadAsWritten, Live
  <2> QED
    BY <2>1, <2>2 DEF ReadAsWritten
<1>6. Gone(r) => Gone(r)'
  BY DEF Gone, Grows
<1>7. GivingUp(r)'
  <2>1. Declined(r) => Declined(r)'
    BY <1>1, WrittenStays
  <2>2. relay[r].open \cap Unanswered' \subseteq relay[r].open \cap Unanswered
    BY <1>2 DEF Grows
  <2>3. open(session)' => open(session)
    BY DEF Grows, open
  <2> QED
    BY <2>1, <2>2, <2>3, <1>6 DEF RelayInv, GivingUp
<1>8. ToldRight(r)'
  <2>1. CASE got'[r] = got[r]
    BY <2>1, <1>1, <1>6, WrittenStays DEF RelayInv, ToldRight, fieldsOf
  <2> QED
    BY <2>1
<1> QED
  BY <1>4, <1>5, <1>7, <1>8 DEF RelayInv

(* An action of the relay of r that takes it to `to`.                      *)
Takes(r, to) ==
    /\ Tables' /\ Grows /\ Recounted' /\ Around'
    /\ alive /\ UNCHANGED <<alive, withdrawn, stopped, strand>>
    /\ unposed \subseteq unposed' /\ unclosed \subseteq unclosed'
    /\ Goes(r, to) /\ \A s \in Request \ {r} : got'[s] = got[s]
    /\ \A q \in Question' \ Question : asked'[q].of = r /\ q \in to.open
    /\ \A q \in Question \ relay[r].open : Closed(q, "withdrawn")' => Closed(q, "withdrawn")
GoodRelay(r, to) ==
    /\ to \in Relaying' /\ to.left \cup DOMAIN to.read \subseteq to.open
    /\ \A q \in to.open : asked'[q].of = r
    /\ relay[r].open \cap Unanswered' \subseteq to.open

LEMMA RelayStepKeeps ==
    ASSUME IInv, NEW r \in Request, NEW to, Takes(r, to), GoodRelay(r, to),
           RelayInv(r)'
    PROVE  IInv'
PROOF
<1>1. TypeOK /\ Tables /\ Relays /\ Around
  BY TypeOKParts DEF IInv
<1>2. relay' = [relay EXCEPT ![r] = to] /\ relay \in [Request -> Relaying]
  BY <1>1 DEF Takes, Goes, Relays
<1>3. relay'[r] = to /\ \A s \in Request \ {r} : relay'[s] = relay[s]
  BY <1>2
<1>4. Question \subseteq Question' /\ \A q \in Question : asked'[q] = asked[q]
  BY DEF Takes, Grows
<1>5. \A s \in Request : relay[s] \in Relaying /\ relay[s].open \subseteq Question
  BY <1>2 DEF Relaying
<1>6. Relaying \subseteq Relaying'
  BY <1>4 DEF Relaying
<1>7. relay' \in [Request -> Relaying']
  BY <1>2, <1>6 DEF GoodRelay
<1>8. Relays'
  <2>1. \A s \in Request : \A q \in relay'[s].open : asked'[q].of = s
    BY <1>1, <1>3, <1>4, <1>5 DEF Relays, GoodRelay
  <2>2. \A s \in Request : relay'[s].left \cup DOMAIN relay'[s].read \subseteq relay'[s].open
    BY <1>1, <1>3 DEF Relays, GoodRelay
  <2> QED
    BY <1>7, <2>1, <2>2 DEF Relays
<1>9. TypeOK'
  BY <1>8, TypeOKParts DEF Takes, TypeOK, Tables, Relays, Around
<1>10. AllRelayed'
  <2> SUFFICES ASSUME open(session)', NEW q \in Unanswered' PROVE q \in relay'[asked'[q].of].open
    BY DEF AllRelayed
  <2>1. q \in Question'
    BY TableFacts, <1>1 DEF Unanswered, unanswered, Takes, Tables, Question
  <2>2. CASE q \notin Question
    BY <2>1, <2>2, <1>3 DEF Takes
  <2>3. CASE q \in Question
    <3>1. q \in relay[asked[q].of].open /\ asked[q].of \in Request
      BY <2>3, <1>1, TableFacts DEF IInv, AllRelayed, Takes, Grows, open
    <3> QED
      BY <3>1, <2>3, <1>3, <1>4 DEF GoodRelay
  <2> QED
    BY <2>2, <2>3
<1>11. Dead'
  BY DEF Takes, IInv, Dead
<1>12. ASSUME NEW s \in Request, s # r PROVE RelayInv(s)'
  <2>1. \A q \in relay[s].open : Closed(q, "withdrawn")' => Closed(q, "withdrawn")
    <3> SUFFICES ASSUME NEW q \in relay[s].open PROVE Closed(q, "withdrawn")' => Closed(q, "withdrawn")
      OBVIOUS
    <3>1. q \in Question /\ q \notin relay[r].open
      BY <1>1, <1>5, <1>12 DEF Relays
    <3> QED
      BY <3>1 DEF Takes
  <2> QED
    BY <2>1, <1>1, <1>3, <1>12, RelayKept DEF Takes, IInv
<1> QED
  BY <1>9, <1>10, <1>11, <1>12 DEF IInv, Takes

(* An action beside the relays.                                            *)
LEMMA AsideKeeps ==
    ASSUME IInv, Tables', Grows, Recounted', Around', Dead', Question' = Question,
           relay' = relay, alive' = alive,
           stopped => stopped', withdrawn \subseteq withdrawn', UNCHANGED failed,
           \A r \in Request : got'[r] = got[r] \/ ToldRight(r)',
           alive => \A q \in Question : Closed(q, "withdrawn")' => Closed(q, "withdrawn")
    PROVE  IInv'
PROOF
<1>1. TypeOK /\ Tables /\ Relays /\ Around
  BY TypeOKParts DEF IInv
<1>2. \A q \in Question : asked'[q] = asked[q]
  BY DEF Grows
<1>3. \A r \in Request : relay[r].open \subseteq Question
  BY <1>1 DEF Relays, Relaying
<1>4. Relays'
  BY <1>1, <1>2, <1>3 DEF Relays, Relaying
<1>5. TypeOK'
  BY <1>4 DEF TypeOK, Tables, Relays, Around
<1>6. AllRelayed'
  <2> SUFFICES ASSUME alive, open(session)', NEW q \in Unanswered' PROVE q \in relay[asked'[q].of].open
    BY DEF AllRelayed
  <2>1. q \in Question
    BY LenProperties DEF Unanswered, unanswered, Tables, Question
  <2>2. q \in Unanswered /\ open(session)
    BY <2>1 DEF Grows, open
  <2> QED
    BY <2>1, <2>2, <1>2 DEF IInv, AllRelayed
<1>7. ASSUME NEW r \in Request PROVE RelayInv(r)'
  <2>1. Live(r) => alive
    BY DEF IInv, Dead, fresh, Live
  <2>2. Live(r) => \A q \in relay[r].open : Closed(q, "withdrawn")' => Closed(q, "withdrawn")
    BY <2>1, <1>3
  <2> QED
    BY <2>2, <1>1, RelayKept DEF IInv, failed
<1> QED
  BY <1>5, <1>6, <1>7 DEF IInv

-----------------------------------------------------------------------------
(* The actions of one relay                                                *)

(* The largest of some places in a list is one of them.                    *)
LEMMA MaxAmong ==
    ASSUME NEW n \in Nat, NEW S \in SUBSET (1 .. n), S # {}
    PROVE  Max(S) \in S
PROOF
<1>1. PICK m \in S : \A k \in S : ~(n - k < n - m)
  <2> DEFINE D == {n - k : k \in S}
  <2>1. \A k \in S : n - k \in Nat
    OBVIOUS
  <2>2. PICK k : k \in S
    OBVIOUS
  <2>3. D \subseteq Nat /\ D # {}
    BY <2>1, <2>2
  <2>4. PICK d \in D : \A e \in D : ~(<<e, d>> \in OpToRel(<, Nat))
    BY <2>3, NatLessThanWellFounded, WFMin
  <2> QED
    BY <2>3, <2>4 DEF OpToRel
<1>2. \A k \in S : m >= k
  BY <1>1
<1> QED
  BY <1>2 DEF Max

(* What a relay finds was written by a human.                              *)
LEMMA FoundAsWritten ==
    ASSUME TypeOK, NEW r \in Request
    PROVE  /\ DOMAIN found(r) \subseteq relay[r].open
           /\ found(r) \in [DOMAIN found(r) -> Reply]
           /\ \A q \in DOMAIN found(r) : Closed(q, found(r)[q])
           /\ \A q \in relay[r].open \ DOMAIN found(r) : closings[q] # <<>> => Closed(q, "withdrawn")
PROOF
<1>1. Tables /\ Relays
  BY TypeOKParts
<1>2. \A q \in relay[r].open : closings[q] \in Seq(Closing)
  BY <1>1, TableFacts DEF Relays, Relaying
<1>3. \A q \in relay[r].open :
        /\ Len(closings[q]) \in Nat /\ DOMAIN closings[q] = 1 .. Len(closings[q])
        /\ \A i \in 1 .. Len(closings[q]) : closings[q][i] \in Closing
  BY <1>2, LenProperties, ElementOfSeq
<1>4. ASSUME NEW q \in relay[r].open, answersTo(q) # {}
      PROVE  Max(answersTo(q)) \in answersTo(q)
  BY <1>3, <1>4, MaxAmong DEF answersTo
<1>5. \A q \in relay[r].open : answersTo(q) # {} =>
        closings[q][Max(answersTo(q))] \in Reply /\ Closed(q, closings[q][Max(answersTo(q))])
  BY <1>3, <1>4 DEF answersTo, Closing, Closed
<1>6. \A q \in relay[r].open : answersTo(q) = {} /\ closings[q] # <<>> => Closed(q, "withdrawn")
  <2> SUFFICES ASSUME NEW q \in relay[r].open, answersTo(q) = {}, closings[q] # <<>>
               PROVE  Closed(q, "withdrawn")
    OBVIOUS
  <2>1. Len(closings[q]) \in Nat \ {0}
    BY <1>2, EmptySeq
  <2>2. 1 \in DOMAIN closings[q]
    BY <2>1, <1>3
  <2> QED
    BY <2>2 DEF answersTo, Closed
<1> QED
  BY <1>5, <1>6 DEF found

LEMMA NothingRead ==
    <<>> \in UNION {[read -> Reply] : read \in SUBSET Question} /\ DOMAIN <<>> = {}
PROOF
<1>1. <<>> \in [{} -> Reply]
  OBVIOUS
<1> QED
  BY <1>1

(* What a relay has open is asked for its request.                         *)
LEMMA RelayFacts ==
    ASSUME IInv, NEW r \in Request
    PROVE  /\ Tables /\ Around /\ relay \in [Request -> Relaying] /\ relay[r] \in Relaying
           /\ relay[r].open \subseteq Question
           /\ \A q \in relay[r].open : asked[q].of = r /\ asked[q] \in [of : Request, field : 1 .. FIELDS]
           /\ relay[r].left \cup DOMAIN relay[r].read \subseteq relay[r].open
           /\ \A q \in DOMAIN relay[r].read : relay[r].read[q] \in Reply
PROOF
<1>1. Tables /\ Relays /\ Around
  BY TypeOKParts DEF IInv
<1> QED
  BY <1>1, TableFacts DEF Relays, Relaying

LEMMA ToldKept ==
    ASSUME Tables, Grows, NEW r \in Request, ToldRight(r), got'[r] = got[r],
           UNCHANGED <<withdrawn, stopped>>, unposed \subseteq unposed'
    PROVE  ToldRight(r)'
PROOF
<1>1. Gone(r) => Gone(r)'
  BY DEF Gone, Grows
<1> QED
  BY <1>1, WrittenStays DEF ToldRight, fieldsOf

(* Where no table changes, what is left to show is the relay's own part.   *)
LEMMA StillTakes ==
    ASSUME IInv, NEW r \in Request, NEW to, Goes(r, to), alive, UNCHANGED tables,
           UNCHANGED <<withdrawn, stopped, alive, unclosed, strand, bounds>>,
           unposed' \in {unposed, unposed \cup {r}},
           got' = got \/ \E result \in Told : Deliver(r, result),
           to \in Relaying, to.left \cup DOMAIN to.read \subseteq to.open,
           to.open \subseteq relay[r].open, relay[r].open \cap Unanswered \subseteq to.open
    PROVE  /\ Takes(r, to) /\ GoodRelay(r, to) /\ relay'[r] = to
           /\ Question' = Question /\ asked' = asked /\ Unanswered' = Unanswered
           /\ \A q, how : Closed(q, how)' <=> Closed(q, how)
           /\ \A field : valued(r, field)' <=> valued(r, field)
           /\ Declined(r)' <=> Declined(r)
           /\ Gone(r) => Gone(r)'
           /\ got'[r] = got[r] => ToldRight(r)'
PROOF
<1>1. /\ Tables /\ Around /\ relay \in [Request -> Relaying] /\ relay[r].open \subseteq Question
      /\ \A q \in relay[r].open : asked[q].of = r
  BY RelayFacts
<1>2. /\ Tables' /\ Grows /\ Recounted' /\ Question' = Question /\ Unanswered' = Unanswered
      /\ \A q, how : Closed(q, how)' <=> Closed(q, how)
  BY <1>1, StillGrows DEF IInv
<1>3. asked' = asked /\ closings' = closings /\ session' = session
  BY DEF tables
<1>4. got' \in [Request -> Told \cup {"nothing"}] /\ \A s \in Request \ {r} : got'[s] = got[s]
  BY <1>1 DEF Around, Deliver
<1>5. Around'
  BY <1>1, <1>2, <1>4 DEF Around, bounds
<1>6. relay'[r] = to
  BY <1>1 DEF Goes
<1>7. Takes(r, to)
  BY <1>2, <1>4, <1>5 DEF Takes
<1>8. Relaying' = Relaying
  BY <1>2 DEF Relaying
<1>9. GoodRelay(r, to)
  BY <1>1, <1>2, <1>3, <1>8 DEF GoodRelay
<1>10. \A field : valued(r, field)' <=> valued(r, field)
  BY <1>2, <1>3 DEF valued
<1>11. Declined(r)' <=> Declined(r)
  BY <1>2, <1>3 DEF Declined
<1>12. Gone(r) => Gone(r)'
  BY <1>3 DEF Gone
<1>13. got'[r] = got[r] => ToldRight(r)'
  BY <1>1, <1>2, ToldKept DEF IInv, RelayInv
<1> QED
  BY <1>2, <1>3, <1>6, <1>7, <1>9, <1>10, <1>11, <1>12, <1>13

(* One more question of a relay that goes on waiting.                      *)
LEMMA PoseOrCancelKeeps ==
    ASSUME IInv, NEW r \in Request, NEW to \in Relaying, PoseOrCancel(r, to), alive,
           UNCHANGED <<got, withdrawn, stopped, alive, strand, bounds>>,
           to.field \in 1 .. FIELDS, to.pc \in {"ask", "wait", "take"},
           to.left = {}, DOMAIN to.read \subseteq to.open,
           to.open \subseteq relay[r].open, relay[r].open \cap Unanswered \subseteq to.open,
           \A q \in DOMAIN to.read : Closed(q, to.read[q]),
           \A q \in to.open : ~Closed(q, "withdrawn"),
           to.pc = "ask" => to.field + 1 \in fieldsOf(r),
           \A field \in IF to.pc = "ask" THEN 1 .. to.field ELSE fieldsOf(r) :
              \/ field = to.field \/ valued(r, field)
              \/ \E q \in to.open : asked[q].field = field
    PROVE  IInv'
PROOF
<1>1. /\ Tables /\ Around /\ relay \in [Request -> Relaying] /\ relay[r] \in Relaying
      /\ relay[r].open \subseteq Question
      /\ \A q \in relay[r].open : asked[q].of = r
  BY RelayFacts
<1>2. CASE /\ Pose(r, to.field) /\ Goes(r, [to EXCEPT !.open = @ \cup {Len(asked) + 1}])
           /\ UNCHANGED failed
  <2> DEFINE new == Len(asked) + 1
  <2>1. PICK then : then = [to EXCEPT !.open = @ \cup {new}] /\ Goes(r, then)
    BY <1>2
  <2>2. /\ then.pc = to.pc /\ then.field = to.field /\ then.open = to.open \cup {new}
        /\ then.read = to.read /\ then.left = to.left /\ then.result = to.result
    BY <2>1 DEF Relaying
  <2>3. /\ Tables' /\ Question' = Question \cup {new} /\ new \notin Question
        /\ asked'[new] = [of |-> r, field |-> to.field]
        /\ \A p \in Question : asked'[p] = asked[p]
        /\ Unanswered' = Unanswered \cup {new}
        /\ \A p \in Question, h \in Closing : Closed(p, h)' <=> Closed(p, h)
        /\ \A p \in Question' \ Question, h \in Closing : ~Closed(p, h)'
        /\ Recounted'
    BY <1>1, <1>2, PoseSteps
  <2>4. Grows
    BY <1>1, <1>2, PoseGrows
  <2>5. then \in Relaying'
    BY <2>1, <2>3 DEF Relaying
  <2>6. Goes(r, then)
    BY <2>1
  <2>7. relay'[r] = then
    BY <2>6, <1>1 DEF Goes
  <2>8. "withdrawn" \in Closing /\ Reply \subseteq Closing
    BY DEF Closing
  <2>9. Around'
    BY <1>1, <1>2, <2>3 DEF Around, bounds, failed
  <2>10. Takes(r, then)
    BY <1>2, <2>2, <2>3, <2>4, <2>6, <2>8, <2>9 DEF Takes, failed
  <2>11. GoodRelay(r, then)
    BY <1>1, <2>2, <2>3, <2>5 DEF GoodRelay
  <2>12. \A field : (\/ field = to.field \/ valued(r, field)
                     \/ \E q \in to.open : asked[q].field = field) => Covered(r, field)'
    <3>1. \A field : valued(r, field) => valued(r, field)'
      BY <1>1, <2>4, WrittenStays
    <3>2. new \in relay'[r].open /\ asked'[new].field = to.field
      BY <2>2, <2>3, <2>7
    <3>3. \A q \in to.open : q \in relay'[r].open /\ asked'[q].field = asked[q].field
      BY <1>1, <2>2, <2>3, <2>7
    <3> QED
      BY <3>1, <3>2, <3>3 DEF Covered
  <2>13. Posed(r)'
    BY <2>2, <2>7, <2>12 DEF Posed, fieldsOf
  <2>14. ReadAsWritten(r)'
    <3>1. \A q \in DOMAIN relay'[r].read : Closed(q, relay[r].read[q])'
      BY <1>1, <2>2, <2>3, <2>7, <2>8 DEF Relaying
    <3>2. \A q \in relay'[r].open : ~Closed(q, "withdrawn")'
      BY <1>1, <2>2, <2>3, <2>7, <2>8
    <3> QED
      BY <3>1, <3>2 DEF ReadAsWritten
  <2>15. GivingUp(r)'
    BY <2>2, <2>7 DEF GivingUp
  <2>16. ToldRight(r)'
    BY <1>1, <1>2, <2>4, ToldKept DEF IInv, RelayInv, failed
  <2>17. RelayInv(r)'
    BY <2>13, <2>14, <2>15, <2>16 DEF RelayInv
  <2> QED
    BY <2>10, <2>11, <2>17, RelayStepKeeps
<1>3. CASE /\ \/ ~open(session) /\ UNCHANGED unposed
              \/ fails /\ unposed' = unposed \cup {r}
           /\ UNCHANGED <<tables, unclosed>> /\ Goes(r, Closes(to, "cancelled"))
  <2>1. PICK then : then = Closes(to, "cancelled") /\ Goes(r, then)
    BY <1>3
  <2>2. /\ then.pc = "close" /\ then.read = <<>> /\ then.result = "cancelled"
        /\ then.open = to.open /\ then.left = to.left
    BY <2>1 DEF Relaying, Closes
  <2>3. then \in Relaying
    BY <2>1, NothingRead DEF Relaying, Closes, PCs, Told
  <2>4. Goes(r, then)
    BY <2>1
  <2>5. DOMAIN then.read = {}
    BY <2>2
  <2>6. /\ Takes(r, then) /\ GoodRelay(r, then) /\ relay'[r] = then /\ ToldRight(r)'
    BY <1>3, <2>2, <2>3, <2>4, <2>5, StillTakes
  <2>7. RelayInv(r)'
    <3>1. Posed(r)'
      BY <2>2, <2>6 DEF Posed
    <3>2. ReadAsWritten(r)'
      BY <2>2, <2>5, <2>6 DEF ReadAsWritten, Live
    <3>3. Gone(r)'
      BY <1>3 DEF Gone, tables
    <3>4. GivingUp(r)'
      BY <2>2, <2>6, <3>3 DEF GivingUp
    <3> QED
      BY <2>6, <3>1, <3>2, <3>4 DEF RelayInv
  <2> QED
    BY <2>6, <2>7, RelayStepKeeps
<1> QED
  BY <1>2, <1>3 DEF PoseOrCancel

LEMMA PoseFieldKeeps ==
    ASSUME IInv, NEW r \in Request, PoseField(r)
    PROVE  IInv'
PROOF
<1>1. /\ relay[r] \in Relaying /\ relay[r].left \cup DOMAIN relay[r].read \subseteq relay[r].open
      /\ relay[r].open \subseteq Question
      /\ \A q \in DOMAIN relay[r].read : relay[r].read[q] \in Reply
  BY RelayFacts
<1>2. /\ alive /\ relay[r].pc \in {"off", "ask"}
      /\ UNCHANGED <<got, withdrawn, stopped, alive, strand, bounds>>
  BY DEF PoseField, at, stays
<1>3. PICK to : /\ to = [relay[r] EXCEPT !.field = relay[r].field + 1,
                            !.pc = IF relay[r].field + 1 + 1 \in fieldsOf(r) THEN "ask" ELSE "wait"]
                /\ PoseOrCancel(r, to)
  BY DEF PoseField
<1>4. RelayInv(r)
  BY DEF IInv
<1>5. relay[r].field \in 0 .. FIELDS /\ FIELDS \in Nat \ {0}
  BY <1>1, RelayAssumption DEF Relaying
<1>6. relay[r].field + 1 \in fieldsOf(r) /\ relay[r].field + 1 \in 1 .. FIELDS
  BY <1>2, <1>4, <1>5 DEF RelayInv, Posed, fieldsOf
<1>7. /\ to.field = relay[r].field + 1 /\ to.open = relay[r].open /\ to.read = relay[r].read
      /\ to.left = relay[r].left
      /\ to.pc = IF relay[r].field + 1 + 1 \in fieldsOf(r) THEN "ask" ELSE "wait"
  BY <1>1, <1>3 DEF Relaying
<1>8. to \in Relaying
  <2>1. (IF relay[r].field + 1 + 1 \in fieldsOf(r) THEN "ask" ELSE "wait") \in PCs
    BY DEF PCs
  <2>2. relay[r].field + 1 \in 0 .. FIELDS
    BY <1>6
  <2> QED
    BY <1>1, <1>3, <2>1, <2>2 DEF Relaying
<1>9. to.pc = "ask" => to.field + 1 \in fieldsOf(r)
  BY <1>7
<1>10. \A q \in relay[r].open : ~Closed(q, "withdrawn")
  BY <1>2, <1>4 DEF RelayInv, Posed, ReadAsWritten, Live
<1>11. \A q \in DOMAIN to.read : Closed(q, to.read[q])
  BY <1>4, <1>7 DEF RelayInv, ReadAsWritten
<1>12. \A field \in 1 .. relay[r].field : Covered(r, field)
  BY <1>2, <1>4, <1>5 DEF RelayInv, Posed
<1>13. \A field \in IF to.pc = "ask" THEN 1 .. to.field ELSE fieldsOf(r) :
          field = to.field \/ field \in 1 .. relay[r].field
  BY <1>5, <1>6, <1>7 DEF fieldsOf
<1>14. \A field \in IF to.pc = "ask" THEN 1 .. to.field ELSE fieldsOf(r) :
          \/ field = to.field \/ valued(r, field)
          \/ \E q \in to.open : asked[q].field = field
  BY <1>7, <1>12, <1>13 DEF Covered
<1>15. PoseOrCancel(r, to)
  BY <1>3
<1>16. to.pc \in {"ask", "wait", "take"} /\ to.field \in 1 .. FIELDS
  BY <1>6, <1>7
<1>17. /\ to.left = {} /\ DOMAIN to.read \subseteq to.open /\ to.open \subseteq relay[r].open
       /\ relay[r].open \cap Unanswered \subseteq to.open /\ \A q \in to.open : ~Closed(q, "withdrawn")
  BY <1>1, <1>2, <1>4, <1>7, <1>10 DEF RelayInv, GivingUp
<1> QED
  BY <1>2, <1>8, <1>9, <1>11, <1>14, <1>15, <1>16, <1>17, PoseOrCancelKeeps

LEMMA PollKeeps ==
    ASSUME IInv, NEW r \in Request, Poll(r)
    PROVE  IInv'
PROOF
<1>1. /\ relay[r] \in Relaying /\ relay[r].left \cup DOMAIN relay[r].read \subseteq relay[r].open
      /\ relay[r].open \subseteq Question /\ RelayInv(r)
  BY RelayFacts DEF IInv
<1>2. /\ alive /\ relay[r].pc = "wait" /\ UNCHANGED tables
      /\ UNCHANGED <<withdrawn, stopped, alive, unposed, unclosed, strand, bounds>> /\ got' = got
  BY DEF Poll, at, stays, failed
<1>3. /\ DOMAIN found(r) \subseteq relay[r].open /\ found(r) \in [DOMAIN found(r) -> Reply]
      /\ \A q \in DOMAIN found(r) : Closed(q, found(r)[q])
      /\ \A q \in relay[r].open \ DOMAIN found(r) : closings[q] # <<>> => Closed(q, "withdrawn")
  BY FoundAsWritten DEF IInv
<1>4. CASE Goes(r, [relay[r] EXCEPT !.pc = "take", !.read = found(r)])
  <2>1. PICK to : to = [relay[r] EXCEPT !.pc = "take", !.read = found(r)] /\ Goes(r, to)
    BY <1>4
  <2>2. /\ to.pc = "take" /\ to.read = found(r) /\ to.field = relay[r].field /\ to.open = relay[r].open
        /\ to.left = relay[r].left
    BY <1>1, <2>1 DEF Relaying
  <2>3. found(r) \in UNION {[read -> Reply] : read \in SUBSET Question}
    BY <1>1, <1>3
  <2>4. to \in Relaying
    BY <1>1, <2>1, <2>3 DEF Relaying, PCs
  <2>5. Goes(r, to)
    BY <2>1
  <2>6. /\ Takes(r, to) /\ GoodRelay(r, to) /\ relay'[r] = to /\ ToldRight(r)'
        /\ Question' = Question /\ asked' = asked
        /\ \A q, how : Closed(q, how)' <=> Closed(q, how)
        /\ \A field : valued(r, field)' <=> valued(r, field)
    BY <1>1, <1>2, <1>3, <2>2, <2>4, <2>5, StillTakes
  <2>7. Posed(r)'
    BY <1>1, <1>2, <2>2, <2>6 DEF RelayInv, Posed, Covered, fieldsOf
  <2>8. ReadAsWritten(r)'
    <3>1. \A q \in DOMAIN relay'[r].read : Closed(q, relay[r].read[q])'
      BY <1>3, <2>2, <2>6
    <3>2. \A q \in relay'[r].open : ~Closed(q, "withdrawn")'
      BY <1>1, <1>2, <2>2, <2>6 DEF RelayInv, ReadAsWritten, Live
    <3> QED
      BY <3>1, <3>2 DEF ReadAsWritten
  <2>9. GivingUp(r)'
    BY <1>1, <1>2, <2>2, <2>6 DEF RelayInv, GivingUp
  <2> QED
    BY <2>6, <2>7, <2>8, <2>9, RelayStepKeeps DEF RelayInv
<1>5. CASE /\ \/ stopped \/ r \in withdrawn
              \/ DOMAIN found(r) = {} /\ \E q \in relay[r].open : closings[q] # <<>>
           /\ Goes(r, Closes(relay[r], "cancelled"))
  <2>1. Gone(r)
    BY <1>1, <1>2, <1>3, <1>5 DEF Gone, RelayInv, ReadAsWritten, Live
  <2>2. PICK to : to = Closes(relay[r], "cancelled") /\ Goes(r, to)
    BY <1>5
  <2>3. /\ to.pc = "close" /\ to.read = <<>> /\ to.result = "cancelled" /\ to.open = relay[r].open
        /\ to.left = relay[r].left /\ DOMAIN to.read = {}
    BY <1>1, <2>2 DEF Relaying, Closes
  <2>4. to \in Relaying
    BY <1>1, <2>2, NothingRead DEF Relaying, Closes, PCs, Told
  <2>5. Goes(r, to)
    BY <2>2
  <2>6. /\ Takes(r, to) /\ GoodRelay(r, to) /\ relay'[r] = to /\ ToldRight(r)' /\ Gone(r)'
    BY <1>1, <1>2, <2>1, <2>3, <2>4, <2>5, StillTakes
  <2>7. Posed(r)' /\ ReadAsWritten(r)'
    BY <2>3, <2>6 DEF Posed, ReadAsWritten, Live
  <2>8. GivingUp(r)'
    BY <1>1, <1>2, <2>3, <2>6 DEF RelayInv, GivingUp
  <2> QED
    BY <2>6, <2>7, <2>8, RelayStepKeeps DEF RelayInv
<1> QED
  BY <1>4, <1>5 DEF Poll

(* What is left of a relay once the answer to one question is taken.       *)
LEMMA RestFacts ==
    ASSUME IInv, NEW r \in Request, NEW q \in DOMAIN relay[r].read
    PROVE  /\ rest(r, q) \in Relaying /\ rest(r, q).open = relay[r].open \ {q}
           /\ rest(r, q).field = relay[r].field /\ rest(r, q).result = relay[r].result
           /\ rest(r, q).pc \in {"wait", "take"}
           /\ DOMAIN rest(r, q).read = DOMAIN relay[r].read \ {q}
           /\ \A p \in DOMAIN rest(r, q).read : rest(r, q).read[p] = relay[r].read[p]
           /\ rest(r, q).left = relay[r].left
PROOF
<1>1. relay[r] \in Relaying /\ \A p \in DOMAIN relay[r].read : relay[r].read[p] \in Reply
  BY RelayFacts
<1>2. PICK read : read = [p \in DOMAIN relay[r].read \ {q} |-> relay[r].read[p]]
  OBVIOUS
<1>3. /\ DOMAIN read = DOMAIN relay[r].read \ {q}
      /\ \A p \in DOMAIN read : read[p] = relay[r].read[p]
      /\ read \in [DOMAIN read -> Reply]
  BY <1>1, <1>2
<1>4. DOMAIN relay[r].read \subseteq Question
  BY RelayFacts
<1>5. read \in UNION {[S -> Reply] : S \in SUBSET Question}
  BY <1>3, <1>4
<1>6. PICK pc \in PCs : pc = IF DOMAIN read = {} THEN "wait" ELSE "take"
  BY DEF PCs
<1>7. rest(r, q) = [relay[r] EXCEPT !.read = read, !.open = @ \ {q}, !.pc = pc]
  BY <1>2, <1>6 DEF rest
<1>8. relay[r].open \ {q} \in SUBSET Question
  BY RelayFacts
<1>9. rest(r, q) \in Relaying
  BY <1>1, <1>5, <1>7, <1>8 DEF Relaying
<1>10. /\ rest(r, q).read = read /\ rest(r, q).open = relay[r].open \ {q} /\ rest(r, q).pc = pc
       /\ rest(r, q).field = relay[r].field /\ rest(r, q).result = relay[r].result
       /\ rest(r, q).left = relay[r].left
  BY <1>1, <1>7 DEF Relaying
<1> QED
  BY <1>3, <1>6, <1>9, <1>10

LEMMA TakeKeeps ==
    ASSUME IInv, NEW r \in Request, Take(r)
    PROVE  IInv'
PROOF
<1>1. /\ relay[r] \in Relaying /\ relay[r].left \cup DOMAIN relay[r].read \subseteq relay[r].open
      /\ relay[r].open \subseteq Question /\ RelayInv(r) /\ Tables
      /\ \A q \in relay[r].open : asked[q].of = r /\ asked[q] \in [of : Request, field : 1 .. FIELDS]
  BY RelayFacts DEF IInv
<1>2. alive /\ relay[r].pc = "take" /\ UNCHANGED <<withdrawn, stopped, alive, strand, bounds>>
  BY DEF Take, at
<1>3. PICK q \in DOMAIN relay[r].read :
         \/ relay[r].read[q] = "value" /\ TakeValue(r, q)
         \/ relay[r].read[q] = "decline" /\ TakeDecline(r, q)
         \/ relay[r].read[q] = "invalid" /\ TakeInvalid(r, q)
  BY DEF Take
<1>4. PICK left : left = rest(r, q)
  OBVIOUS
<1>5. /\ left \in Relaying /\ left.open = relay[r].open \ {q} /\ left.pc \in {"wait", "take"}
      /\ DOMAIN left.read = DOMAIN relay[r].read \ {q}
      /\ \A p \in DOMAIN left.read : left.read[p] = relay[r].read[p]
      /\ left.left = relay[r].left
  BY <1>4, RestFacts
<1>6. q \in relay[r].open /\ q \in Question /\ Closed(q, relay[r].read[q]) /\ relay[r].left = {}
  BY <1>1, <1>2 DEF RelayInv, ReadAsWritten, GivingUp
<1>7. q \notin Unanswered
  BY <1>1, <1>6, TableFacts DEF Closed
<1>8. /\ left.left \cup DOMAIN left.read \subseteq left.open /\ left.open \subseteq relay[r].open
      /\ relay[r].open \cap Unanswered \subseteq left.open
  BY <1>1, <1>5, <1>6, <1>7
<1>9. \A p \in DOMAIN left.read : Closed(p, left.read[p])
  BY <1>1, <1>5 DEF RelayInv, ReadAsWritten
<1>10. \A p \in left.open : ~Closed(p, "withdrawn")
  BY <1>1, <1>2, <1>5 DEF RelayInv, ReadAsWritten, Live
<1>11. \A field \in fieldsOf(r) :
          \/ field = asked[q].field \/ valued(r, field)
          \/ \E p \in left.open : asked[p].field = field
  BY <1>1, <1>2, <1>5 DEF RelayInv, Posed, Covered
<1>12. CASE relay[r].read[q] = "value" /\ TakeValue(r, q)
  <2>1. valued(r, asked[q].field)
    <3>1. asked[q] = [of |-> r, field |-> asked[q].field]
      BY <1>1, <1>6
    <3> QED
      BY <3>1, <1>6, <1>12 DEF valued, Closed
  <2>2. UNCHANGED tables /\ unposed' = unposed /\ unclosed' = unclosed
    BY <1>12 DEF TakeValue, failed
  <2>3. \A field \in fieldsOf(r) : valued(r, field) \/ \E p \in left.open : asked[p].field = field
    BY <1>11, <2>1
  <2>4. CASE left.open = {}
    <3>1. PICK to : to = [left EXCEPT !.pc = "over"] /\ Goes(r, to) /\ Deliver(r, "accept")
      BY <1>12, <1>4, <2>4 DEF TakeValue
    <3>2. /\ to.pc = "over" /\ to.open = {} /\ to.left = left.left /\ to.read = left.read
      BY <1>5, <2>4, <3>1 DEF Relaying
    <3>3. to \in Relaying
      BY <1>5, <3>1 DEF Relaying, PCs
    <3>4. Goes(r, to) /\ \E result \in Told : Deliver(r, result)
      BY <3>1 DEF Told
    <3>5. to.left = {} /\ DOMAIN to.read = {}
      BY <1>8, <2>4, <3>2
    <3>6. /\ Takes(r, to) /\ GoodRelay(r, to) /\ relay'[r] = to
          /\ \A field : valued(r, field)' <=> valued(r, field)
          /\ got'[r] = got[r] => ToldRight(r)'
      BY <1>2, <1>8, <2>2, <2>4, <3>2, <3>3, <3>4, <3>5, StillTakes
    <3>7. ToldRight(r)'
      <4>1. got'[r] = got[r] \/ got'[r] = "accept"
        BY <3>1, RelayFacts DEF Deliver, Around
      <4>2. \A field \in fieldsOf(r) : valued(r, field)'
        BY <2>3, <2>4, <3>6
      <4> QED
        BY <4>1, <4>2, <3>6 DEF ToldRight, fieldsOf
    <3>8. Posed(r)' /\ ReadAsWritten(r)' /\ GivingUp(r)'
      BY <3>2, <3>5, <3>6 DEF Posed, ReadAsWritten, Live, GivingUp
    <3> QED
      BY <3>6, <3>7, <3>8, RelayStepKeeps DEF RelayInv
  <2>5. CASE left.open # {}
    <3>1. Goes(r, left) /\ got' = got
      BY <1>12, <1>4, <2>5 DEF TakeValue
    <3>2. /\ Takes(r, left) /\ GoodRelay(r, left) /\ relay'[r] = left /\ ToldRight(r)'
          /\ asked' = asked
          /\ \A p, how : Closed(p, how)' <=> Closed(p, how)
          /\ \A field : valued(r, field)' <=> valued(r, field)
      BY <1>2, <1>5, <1>8, <2>2, <3>1, StillTakes
    <3>3. Posed(r)'
      BY <1>5, <2>3, <3>2 DEF Posed, Covered, fieldsOf
    <3>4. ReadAsWritten(r)'
      <4>1. \A p \in DOMAIN relay'[r].read : Closed(p, left.read[p])'
        BY <1>9, <3>2
      <4>2. \A p \in relay'[r].open : ~Closed(p, "withdrawn")'
        BY <1>10, <3>2
      <4> QED
        BY <4>1, <4>2, <3>2 DEF ReadAsWritten
    <3>5. GivingUp(r)'
      BY <1>5, <1>6, <3>2 DEF GivingUp
    <3> QED
      BY <3>2, <3>3, <3>4, <3>5, RelayStepKeeps DEF RelayInv
  <2> QED
    BY <2>4, <2>5
<1>13. CASE relay[r].read[q] = "decline" /\ TakeDecline(r, q)
  <2>1. Declined(r)
    BY <1>1, <1>6, <1>13 DEF Declined
  <2>2. UNCHANGED tables /\ got' = got /\ unposed' = unposed /\ unclosed' = unclosed
    BY <1>13 DEF TakeDecline, failed
  <2>3. PICK to : to = Closes(left, "decline") /\ Goes(r, to)
    BY <1>13, <1>4 DEF TakeDecline
  <2>4. /\ to.pc = "close" /\ to.read = <<>> /\ to.result = "decline" /\ to.open = left.open
        /\ to.left = left.left /\ DOMAIN to.read = {}
    BY <1>5, <2>3 DEF Relaying, Closes
  <2>5. to \in Relaying
    BY <1>5, <2>3, NothingRead DEF Relaying, Closes, PCs, Told
  <2>6. Goes(r, to)
    BY <2>3
  <2>7. /\ Takes(r, to) /\ GoodRelay(r, to) /\ relay'[r] = to /\ ToldRight(r)' /\ Declined(r)'
    BY <1>2, <1>8, <2>1, <2>2, <2>4, <2>5, <2>6, StillTakes
  <2>8. Posed(r)' /\ ReadAsWritten(r)'
    BY <2>4, <2>7 DEF Posed, ReadAsWritten, Live
  <2>9. GivingUp(r)'
    BY <1>5, <1>6, <2>4, <2>7 DEF GivingUp
  <2> QED
    BY <2>7, <2>8, <2>9, RelayStepKeeps DEF RelayInv
<1>14. CASE relay[r].read[q] = "invalid" /\ TakeInvalid(r, q)
  <2>1. PICK to : to = [left EXCEPT !.field = asked[q].field] /\ PoseOrCancel(r, to)
    BY <1>14, <1>4 DEF TakeInvalid
  <2>2. got' = got /\ asked[q].field \in 1 .. FIELDS
    BY <1>1, <1>6, <1>14 DEF TakeInvalid
  <2>3. /\ to.field = asked[q].field /\ to.pc = left.pc /\ to.open = left.open
        /\ to.read = left.read /\ to.left = left.left
    BY <1>5, <2>1 DEF Relaying
  <2>4. to \in Relaying
    BY <1>5, <2>1, <2>2 DEF Relaying
  <2>5. PoseOrCancel(r, to)
    BY <2>1
  <2>6. to.field \in 1 .. FIELDS /\ to.pc \in {"ask", "wait", "take"} /\ to.pc # "ask"
    BY <1>5, <2>2, <2>3
  <2>7. /\ to.left = {} /\ DOMAIN to.read \subseteq to.open /\ to.open \subseteq relay[r].open
        /\ relay[r].open \cap Unanswered \subseteq to.open
    BY <1>5, <1>6, <1>8, <2>3
  <2>8. \A p \in DOMAIN to.read : Closed(p, to.read[p])
    BY <1>9, <2>3
  <2>9. \A p \in to.open : ~Closed(p, "withdrawn")
    BY <1>10, <2>3
  <2>10. \A field \in IF to.pc = "ask" THEN 1 .. to.field ELSE fieldsOf(r) :
            \/ field = to.field \/ valued(r, field)
            \/ \E p \in to.open : asked[p].field = field
    BY <1>11, <2>3, <2>6
  <2> QED
    BY <1>2, <2>2, <2>4, <2>5, <2>6, <2>7, <2>8, <2>9, <2>10, PoseOrCancelKeeps
<1> QED
  BY <1>3, <1>12, <1>13, <1>14

LEMMA ReadOpenKeeps ==
    ASSUME IInv, NEW r \in Request, ReadOpen(r)
    PROVE  IInv'
PROOF
<1>1. /\ relay[r] \in Relaying /\ relay[r].left \cup DOMAIN relay[r].read \subseteq relay[r].open
      /\ relay[r].open \subseteq Question /\ RelayInv(r)
  BY RelayFacts DEF IInv
<1>2. /\ alive /\ relay[r].pc = "close" /\ UNCHANGED tables
      /\ UNCHANGED <<withdrawn, stopped, alive, unposed, unclosed, strand, bounds>> /\ got' = got
  BY DEF ReadOpen, at, stays, failed
<1>3. PICK left \in {relay[r].open \cap Unanswered, relay[r].open} :
         Goes(r, [relay[r] EXCEPT !.pc = "withdraw", !.left = left])
  BY DEF ReadOpen, Unanswered
<1>4. PICK to : to = [relay[r] EXCEPT !.pc = "withdraw", !.left = left] /\ Goes(r, to)
  BY <1>3
<1>5. /\ to.pc = "withdraw" /\ to.read = relay[r].read /\ to.open = relay[r].open /\ to.left = left
      /\ to.result = relay[r].result
  BY <1>1, <1>4 DEF Relaying
<1>6. to \in Relaying
  BY <1>1, <1>3, <1>4 DEF Relaying, PCs
<1>7. Goes(r, to)
  BY <1>4
<1>8. to.left \cup DOMAIN to.read \subseteq to.open /\ relay[r].open \cap Unanswered \subseteq to.open
  BY <1>1, <1>3, <1>5
<1>9. /\ Takes(r, to) /\ GoodRelay(r, to) /\ relay'[r] = to /\ ToldRight(r)'
      /\ Unanswered' = Unanswered
      /\ \A q, how : Closed(q, how)' <=> Closed(q, how)
      /\ Declined(r)' <=> Declined(r)
      /\ Gone(r) => Gone(r)'
  BY <1>2, <1>5, <1>6, <1>7, <1>8, StillTakes
<1>10. Posed(r)'
  BY <1>5, <1>9 DEF Posed
<1>11. ReadAsWritten(r)'
  <2>1. \A p \in DOMAIN relay'[r].read : Closed(p, relay[r].read[p])'
    BY <1>1, <1>5, <1>9 DEF RelayInv, ReadAsWritten
  <2> QED
    BY <2>1, <1>5, <1>9 DEF ReadAsWritten, Live
<1>12. GivingUp(r)'
  BY <1>1, <1>2, <1>3, <1>5, <1>9 DEF RelayInv, GivingUp
<1> QED
  BY <1>9, <1>10, <1>11, <1>12, RelayStepKeeps DEF RelayInv

LEMMA GaveUpKeeps ==
    ASSUME IInv, NEW r \in Request, GaveUp(r)
    PROVE  IInv'
PROOF
<1>1. /\ relay[r] \in Relaying /\ relay[r].left \cup DOMAIN relay[r].read \subseteq relay[r].open
      /\ relay[r].open \subseteq Question /\ RelayInv(r) /\ got \in [Request -> Told \cup {"nothing"}]
  BY RelayFacts DEF IInv, Around
<1>2. /\ alive /\ relay[r].pc = "withdraw" /\ relay[r].left = {} /\ UNCHANGED tables
      /\ UNCHANGED <<withdrawn, stopped, alive, unposed, unclosed, strand, bounds>>
      /\ Deliver(r, relay[r].result)
  BY DEF GaveUp, at, failed
<1>3. PICK to : to = [relay[r] EXCEPT !.pc = "over"] /\ Goes(r, to)
  BY DEF GaveUp
<1>4. /\ to.pc = "over" /\ to.read = relay[r].read /\ to.open = relay[r].open
      /\ to.left = relay[r].left
  BY <1>1, <1>3 DEF Relaying
<1>5. to \in Relaying
  BY <1>1, <1>3 DEF Relaying, PCs
<1>6. Goes(r, to)
  BY <1>3
<1>7. \E result \in Told : Deliver(r, result)
  BY <1>1, <1>2 DEF Relaying
<1>8. /\ Takes(r, to) /\ GoodRelay(r, to) /\ relay'[r] = to
      /\ Unanswered' = Unanswered
      /\ \A q, how : Closed(q, how)' <=> Closed(q, how)
      /\ Declined(r)' <=> Declined(r)
      /\ Gone(r) => Gone(r)'
      /\ got'[r] = got[r] => ToldRight(r)'
  BY <1>1, <1>2, <1>4, <1>5, <1>6, <1>7, StillTakes
<1>9. ToldRight(r)'
  <2>1. got'[r] = got[r] \/ got'[r] = relay[r].result
    BY <1>1, <1>2 DEF Deliver
  <2>2. CASE got'[r] = relay[r].result
    BY <1>1, <1>2, <1>8, <2>2 DEF RelayInv, GivingUp, ToldRight
  <2> QED
    BY <1>8, <2>1, <2>2
<1>10. ReadAsWritten(r)'
  <2>1. \A p \in DOMAIN relay'[r].read : Closed(p, relay[r].read[p])'
    BY <1>1, <1>4, <1>8 DEF RelayInv, ReadAsWritten
  <2> QED
    BY <2>1, <1>4, <1>8 DEF ReadAsWritten, Live
<1>11. open(session)' <=> open(session)
  BY <1>2 DEF open, tables
<1>12. Posed(r)' /\ GivingUp(r)'
  BY <1>1, <1>2, <1>4, <1>8, <1>11 DEF Posed, RelayInv, GivingUp
<1> QED
  BY <1>8, <1>9, <1>10, <1>12, RelayStepKeeps DEF RelayInv

LEMMA WithdrawOneKeeps ==
    ASSUME IInv, NEW r \in Request, WithdrawOne(r)
    PROVE  IInv'
PROOF
<1>1. /\ relay[r] \in Relaying /\ relay[r].left \cup DOMAIN relay[r].read \subseteq relay[r].open
      /\ relay[r].open \subseteq Question /\ RelayInv(r) /\ Tables /\ Around
      /\ relay \in [Request -> Relaying] /\ \A p \in relay[r].open : asked[p].of = r
      /\ \A p \in DOMAIN relay[r].read : relay[r].read[p] \in Reply
  BY RelayFacts DEF IInv
<1>2. /\ alive /\ relay[r].pc = "withdraw" /\ got' = got
      /\ UNCHANGED <<withdrawn, stopped, alive, unposed, strand, bounds>>
  BY DEF WithdrawOne, at, stays
<1>3. PICK q \in relay[r].left :
         /\ \/ CloseIfOpen(q, "withdrawn") /\ UNCHANGED unclosed
            \/ fails /\ unclosed' = unclosed \cup {q} /\ UNCHANGED tables
         /\ Goes(r, [relay[r] EXCEPT !.left = @ \ {q}])
  BY DEF WithdrawOne
<1>4. PICK to : to = [relay[r] EXCEPT !.left = @ \ {q}] /\ Goes(r, to)
  BY <1>3
<1>5. /\ to.pc = "withdraw" /\ to.read = relay[r].read /\ to.open = relay[r].open
      /\ to.left = relay[r].left \ {q} /\ to.result = relay[r].result
  BY <1>1, <1>2, <1>4 DEF Relaying
<1>6. q \in Question /\ q \in relay[r].open /\ "withdrawn" \in Closing /\ Reply \subseteq Closing
  BY <1>1 DEF Closing
<1>7. unclosed \subseteq unclosed' /\ unclosed' \subseteq Question
  BY <1>1, <1>3, <1>6 DEF Around
<1>8. /\ Tables' /\ Grows /\ Question' = Question /\ asked' = asked
      /\ \A p \in Question, h \in Closing :
            Closed(p, h)' => Closed(p, h) \/ (p = q /\ h = "withdrawn")
      /\ open(session') => Unanswered' \subseteq Unanswered
      /\ open(session') /\ q \in Unanswered' => q \in unclosed'
      /\ Recounted'
  <2>1. CASE CloseIfOpen(q, "withdrawn")
    BY <1>1, <1>6, <2>1, CloseGrows DEF IInv
  <2>2. CASE unclosed' = unclosed \cup {q} /\ UNCHANGED tables
    BY <1>1, <2>2, StillGrows DEF IInv, tables
  <2> QED
    BY <1>3, <2>1, <2>2
<1>9. relay'[r] = to
  BY <1>1, <1>4 DEF Goes
<1>10. to \in Relaying'
  BY <1>1, <1>4, <1>8 DEF Relaying
<1>11. Around'
  BY <1>1, <1>2, <1>7, <1>8 DEF Around, bounds
<1>12. Takes(r, to)
  BY <1>2, <1>4, <1>6, <1>7, <1>8, <1>11 DEF Takes
<1>13. GoodRelay(r, to)
  BY <1>1, <1>5, <1>8, <1>10 DEF GoodRelay
<1>14. Posed(r)'
  BY <1>5, <1>9 DEF Posed
<1>15. ReadAsWritten(r)'
  <2>1. \A p \in DOMAIN relay'[r].read : Closed(p, relay[r].read[p])'
    BY <1>1, <1>5, <1>6, <1>8, <1>9 DEF RelayInv, ReadAsWritten, Grows
  <2> QED
    BY <2>1, <1>5, <1>9 DEF ReadAsWritten, Live
<1>16. (Declined(r) => Declined(r)') /\ (Gone(r) => Gone(r)')
  BY <1>1, <1>2, <1>8, WrittenStays DEF Gone, Grows
<1>17. GivingUp(r)'
  <2>1. open(session)' => open(session) /\ open(session')
    BY <1>8 DEF Grows, open
  <2>2. open(session)' => relay[r].open \cap Unanswered' \subseteq (relay[r].left \ {q}) \cup unclosed'
    BY <1>1, <1>2, <1>7, <1>8, <2>1 DEF RelayInv, GivingUp
  <2> QED
    BY <1>1, <1>2, <1>5, <1>9, <1>16, <2>2 DEF RelayInv, GivingUp
<1>18. ToldRight(r)'
  BY <1>1, <1>2, <1>8, ToldKept DEF RelayInv
<1> QED
  BY <1>12, <1>13, <1>14, <1>15, <1>17, <1>18, RelayStepKeeps DEF RelayInv

LEMMA RelayKeeps ==
    ASSUME IInv, NEW r \in Request, RelayStep(r)
    PROVE  IInv'
PROOF
BY PoseFieldKeeps, PollKeeps, TakeKeeps, ReadOpenKeeps, WithdrawOneKeeps, GaveUpKeeps DEF RelayStep

-----------------------------------------------------------------------------
(* What happens around the relays                                          *)

LEMMA EndGrows ==
    ASSUME Tables, EndSession
    PROVE  Tables' /\ Grows /\ Recounted' /\ Question' = Question
           /\ \A q, how : Closed(q, how)' <=> Closed(q, how)
PROOF
BY DEF EndSession, Tables, Grows, Recounted, Question, Unanswered, unanswered, Closed, open

LEMMA AroundKeeps ==
    ASSUME IInv,
           \/ \E r \in Request : HarnessWithdraws(r)
           \/ Note \/ Sweep \/ Stop \/ SettleClaim \/ Restart
           \/ Answer \/ Strand \/ StrandOne \/ StrandEnds
    PROVE  IInv'
PROOF
<1>1. Tables /\ Relays /\ Around /\ Dead /\ Recounted
  BY TypeOKParts DEF IInv
<1>2. CASE \E r \in Request : HarnessWithdraws(r)
  <2>1. PICK r \in Request : HarnessWithdraws(r)
    BY <1>2
  <2>2. /\ UNCHANGED tables /\ alive /\ alive' = alive /\ relay' = relay /\ stopped' = stopped
        /\ withdrawn' = withdrawn \cup {r} /\ got' = [got EXCEPT ![r] = "cancelled"]
        /\ UNCHANGED <<failed, strand, bounds>>
    BY <2>1 DEF HarnessWithdraws
  <2>3. /\ Grows /\ Question' = Question /\ Tables' /\ Recounted'
        /\ \A q, how : Closed(q, how)' <=> Closed(q, how)
    BY <1>1, <2>2, StillGrows
  <2>4. Around' /\ Dead'
    BY <1>1, <2>2, <2>3 DEF Around, Dead, bounds, failed, Told
  <2>5. \A s \in Request : got'[s] = got[s] \/ ToldRight(s)'
    BY <1>1, <2>2 DEF ToldRight, Gone, Around
  <2> QED
    BY <2>2, <2>3, <2>4, <2>5, AsideKeeps
<1>3. CASE Note
  <2>1. /\ asked' = asked /\ closings' = closings /\ relay' = relay /\ got' = got /\ alive' = alive
        /\ UNCHANGED <<withdrawn, stopped, failed, strand, bounds>>
        /\ session' = onceRecounted(closings)
    BY <1>3 DEF Note, runner
  <2>2. /\ Question' = Question /\ Unanswered' = Unanswered
        /\ \A q, how : Closed(q, how)' <=> Closed(q, how)
    BY <2>1 DEF Question, Unanswered, unanswered, Closed
  <2>3. open(session') <=> open(session)
    BY <1>3 DEF Note, onceRecounted, open
  <2>4. Tables' /\ Recounted' /\ Grows
    BY <1>1, <2>1, <2>2, <2>3 DEF Tables, Recounted, Grows, onceRecounted, Unanswered
  <2>5. Around' /\ Dead'
    BY <1>1, <2>1, <2>2 DEF Around, Dead, bounds, failed
  <2> QED
    BY <2>1, <2>2, <2>4, <2>5, AsideKeeps
<1>4. CASE Sweep
  <2>1. /\ asked' = asked /\ closings' = closings /\ relay' = relay /\ got' = got /\ alive' = alive
        /\ UNCHANGED <<withdrawn, stopped, failed, strand, bounds>>
        /\ session = "active" /\ session' = "stale"
    BY <1>4 DEF Sweep, runner
  <2>2. /\ Question' = Question /\ Unanswered' = Unanswered
        /\ \A q, how : Closed(q, how)' <=> Closed(q, how)
    BY <2>1 DEF Question, Unanswered, unanswered, Closed
  <2>3. Tables' /\ Recounted' /\ Grows
    BY <1>1, <2>1, <2>2 DEF Tables, Recounted, Grows, open
  <2>4. Around' /\ Dead'
    BY <1>1, <2>1, <2>2 DEF Around, Dead, bounds, failed
  <2> QED
    BY <2>1, <2>2, <2>3, <2>4, AsideKeeps
<1>5. CASE Stop
  <2>1. /\ UNCHANGED tables /\ alive' = alive /\ relay' = relay /\ got' = got /\ stopped' = TRUE
        /\ UNCHANGED <<withdrawn, failed, strand, bounds>>
    BY <1>5 DEF Stop
  <2>2. /\ Grows /\ Question' = Question /\ Tables' /\ Recounted'
        /\ \A q, how : Closed(q, how)' <=> Closed(q, how)
    BY <1>1, <2>1, StillGrows
  <2>3. Around' /\ Dead'
    BY <1>1, <2>1, <2>2 DEF Around, Dead, bounds, failed
  <2> QED
    BY <2>1, <2>2, <2>3, AsideKeeps
<1>6. CASE SettleClaim \/ Restart
  <2>1. EndSession /\ UNCHANGED <<runner, alive, failed, strand, bounds>>
    BY <1>6 DEF SettleClaim, Restart
  <2>2. /\ Tables' /\ Grows /\ Recounted' /\ Question' = Question
        /\ \A q, how : Closed(q, how)' <=> Closed(q, how)
    BY <1>1, <2>1, EndGrows
  <2>3. Around' /\ Dead'
    BY <1>1, <2>1, <2>2 DEF Around, Dead, bounds, failed, runner
  <2> QED
    BY <2>1, <2>2, <2>3, AsideKeeps DEF runner
<1>8. CASE Answer
  <2>1. PICK q \in Question, v \in Reply :
           /\ v = "invalid" => invalid < INVALID
           /\ invalid' = invalid + (IF v = "invalid" THEN 1 ELSE 0)
           /\ Close(q, v)
    BY <1>8 DEF Answer
  <2>2. UNCHANGED <<runner, alive, strand, failed>> /\ answers < ANSWERS /\ answers' = answers + 1
    BY <1>8 DEF Answer
  <2>3. v \in Closing /\ v # "withdrawn" /\ "withdrawn" \in Closing
    BY DEF Closing, Reply
  <2>4. CloseIfOpen(q, v)
    BY <2>1 DEF CloseIfOpen
  <2>5. /\ Tables' /\ Grows /\ Question' = Question /\ Recounted'
        /\ \A p \in Question, h \in Closing : Closed(p, h)' => Closed(p, h) \/ (p = q /\ h = v)
    BY <1>1, <2>3, <2>4, CloseGrows
  <2>6. invalid' \in 0 .. INVALID /\ answers' \in 0 .. ANSWERS
    BY <1>1, <2>1, <2>2, RelayAssumption DEF Around
  <2>7. Around' /\ Dead'
    BY <1>1, <2>2, <2>5, <2>6 DEF Around, Dead, runner, failed
  <2>8. \A p \in Question : Closed(p, "withdrawn")' => Closed(p, "withdrawn")
    BY <2>3, <2>5
  <2> QED
    BY <2>2, <2>5, <2>7, <2>8, AsideKeeps DEF runner
<1>9. CASE Strand
  <2>1. /\ UNCHANGED <<tables, runner, alive, failed, bounds>> /\ ~alive
        /\ strand' = [pc |-> "withdraw", left |-> Unanswered]
    BY <1>9 DEF Strand, Unanswered
  <2>2. /\ Grows /\ Question' = Question /\ Tables' /\ Recounted'
        /\ \A q, how : Closed(q, how)' <=> Closed(q, how)
    BY <1>1, <2>1, StillGrows
  <2>3. Unanswered \subseteq Question
    BY <1>1, TableFacts
  <2>4. Around' /\ Dead'
    BY <1>1, <2>1, <2>2, <2>3 DEF Around, Dead, bounds, failed, runner
  <2> QED
    BY <2>1, <2>2, <2>4, AsideKeeps DEF runner
<1>10. CASE StrandOne
  <2>1. PICK q \in strand.left :
           /\ CloseIfOpen(q, "withdrawn") \/ UNCHANGED tables
           /\ strand' = [strand EXCEPT !.left = @ \ {q}]
    BY <1>10 DEF StrandOne
  <2>2. strand.pc = "withdraw" /\ ~alive /\ UNCHANGED <<runner, alive, failed, bounds>>
    BY <1>1, <1>10 DEF StrandOne, Dead
  <2>3. q \in Question /\ "withdrawn" \in Closing
    BY <1>1 DEF Around, Closing
  <2>5. Tables' /\ Grows /\ Question' = Question /\ Recounted'
    BY <1>1, <2>1, <2>3, CloseGrows, StillGrows
  <2>6. Around' /\ Dead'
    BY <1>1, <2>1, <2>2, <2>5 DEF Around, Dead, bounds, failed, runner
  <2> QED
    BY <2>2, <2>5, <2>6, AsideKeeps DEF runner
<1>11. CASE StrandEnds
  <2>1. EndSession /\ strand.pc = "withdraw" /\ strand' = [strand EXCEPT !.pc = "over"]
        /\ UNCHANGED <<runner, alive, failed, bounds>>
    BY <1>11 DEF StrandEnds
  <2>2. /\ Tables' /\ Grows /\ Recounted' /\ Question' = Question
        /\ \A q, how : Closed(q, how)' <=> Closed(q, how)
    BY <1>1, <2>1, EndGrows
  <2>3. Around' /\ Dead'
    BY <1>1, <2>1, <2>2 DEF Around, Dead, bounds, failed, runner
  <2> QED
    BY <2>1, <2>2, <2>3, AsideKeeps DEF runner
<1> QED
  BY <1>2, <1>3, <1>4, <1>5, <1>6, <1>8, <1>9, <1>10, <1>11

LEMMA FreshFacts ==
    /\ fresh[1] \in [Request -> Relaying]
    /\ \A r \in Request :
          /\ fresh[1][r].pc = "off" /\ fresh[1][r].field = 0 /\ fresh[1][r].open = {}
          /\ fresh[1][r].left = {} /\ DOMAIN fresh[1][r].read = {}
    /\ fresh[2] \in [Request -> {"nothing"}]
    /\ \A r \in Request : fresh[2][r] = "nothing"
PROOF
<1>1. [pc |-> "off", field |-> 0, open |-> {}, read |-> <<>>, left |-> {}, result |-> "accept"]
          \in Relaying
  <2>1. 0 \in 0 .. FIELDS /\ "off" \in PCs /\ "accept" \in Told
    BY RelayAssumption DEF PCs, Told
  <2>2. <<>> \in UNION {[read -> Reply] : read \in SUBSET Question}
    BY NothingRead
  <2>3. {} \in SUBSET Question
    OBVIOUS
  <2> QED
    BY <2>1, <2>2, <2>3 DEF Relaying
<1>2. fresh[1] = [r \in Request |-> [pc |-> "off", field |-> 0, open |-> {}, read |-> <<>>,
                                     left |-> {}, result |-> "accept"]]
  BY DEF fresh
<1>3. fresh[2] = [r \in Request |-> "nothing"]
  BY DEF fresh
<1> QED
  BY <1>1, <1>2, <1>3

LEMMA CrashKeeps ==
    ASSUME IInv, Crash
    PROVE  IInv'
PROOF
<1>1. Tables /\ Relays /\ Around /\ Recounted /\ Dead
  BY TypeOKParts DEF IInv
<1>2. /\ UNCHANGED tables /\ UNCHANGED <<strand, bounds>> /\ alive' = FALSE
      /\ unposed' = {} /\ unclosed' = {}
      /\ relay' = fresh[1] /\ got' = fresh[2] /\ withdrawn' = {} /\ stopped' = FALSE
  BY DEF Crash, fresh
<1>3. Tables' /\ Recounted' /\ Question' = Question
  BY <1>1, <1>2, StillGrows
<1>4. /\ relay' \in [Request -> Relaying] /\ got' \in [Request -> {"nothing"}]
      /\ \A r \in Request :
            /\ relay'[r].pc = "off" /\ relay'[r].field = 0 /\ relay'[r].open = {}
            /\ relay'[r].left = {} /\ DOMAIN relay'[r].read = {} /\ got'[r] = "nothing"
  BY <1>2, FreshFacts
<1>5. Relays'
  <2>1. Relaying' = Relaying
    BY <1>3 DEF Relaying
  <2> QED
    BY <1>4, <2>1 DEF Relays
<1>6. Around'
  BY <1>1, <1>2, <1>3, <1>4 DEF Around, bounds
<1>7. TypeOK'
  BY <1>3, <1>5, <1>6 DEF TypeOK, Tables, Relays, Around
<1>8. AllRelayed' /\ Dead'
  BY <1>2 DEF AllRelayed, Dead, fresh
<1>9. \A r \in Request : RelayInv(r)'
  BY <1>4 DEF RelayInv, Posed, ReadAsWritten, Live, GivingUp, ToldRight
<1> QED
  BY <1>3, <1>7, <1>8, <1>9 DEF IInv

LEMMA InvInit == Init => IInv
PROOF
<1> SUFFICES ASSUME Init PROVE IInv
  OBVIOUS
<1>1. /\ session = "active" /\ asked = <<>> /\ closings = <<>> /\ relay = fresh[1] /\ got = fresh[2]
      /\ withdrawn = {} /\ stopped = FALSE /\ alive = TRUE
      /\ unposed = {} /\ unclosed = {}
      /\ strand = [pc |-> "off", left |-> {}] /\ answers = 0 /\ invalid = 0
  BY DEF Init, fresh
<1>2. Tables
  BY <1>1, EmptySeq DEF Tables
<1>3. /\ relay \in [Request -> Relaying] /\ got \in [Request -> {"nothing"}]
      /\ \A r \in Request :
            /\ relay[r].pc = "off" /\ relay[r].field = 0 /\ relay[r].open = {}
            /\ relay[r].left = {} /\ DOMAIN relay[r].read = {} /\ got[r] = "nothing"
  BY <1>1, FreshFacts
<1>4. Relays
  BY <1>3 DEF Relays
<1>5. Around
  <2>1. answers \in 0 .. ANSWERS /\ invalid \in 0 .. INVALID
    BY <1>1, RelayAssumption
  <2>2. strand \in [pc : {"off", "withdraw", "over"}, left : SUBSET Question]
    BY <1>1
  <2>3. got \in [Request -> Told \cup {"nothing"}]
    BY <1>3
  <2>4. withdrawn \subseteq Request /\ {stopped, alive} \subseteq BOOLEAN /\ unposed \subseteq Request
        /\ unclosed \subseteq Question
    BY <1>1
  <2> QED
    BY <2>1, <2>2, <2>3, <2>4 DEF Around
<1>6. TypeOK
  BY <1>2, <1>4, <1>5, TypeOKParts
<1>7. Unanswered = {}
  BY <1>1 DEF Unanswered, unanswered
<1>8. Recounted /\ AllRelayed /\ Dead
  BY <1>1, <1>7 DEF Recounted, AllRelayed, Dead
<1>9. \A r \in Request : RelayInv(r)
  BY <1>3 DEF RelayInv, Posed, ReadAsWritten, Live, GivingUp, ToldRight
<1> QED
  BY <1>6, <1>8, <1>9 DEF IInv

LEMMA InvStep == IInv /\ [Next]_vars => IInv'
PROOF
<1> SUFFICES ASSUME IInv, [Next]_vars PROVE IInv'
  OBVIOUS
<1>1. CASE \E r \in Request : RelayStep(r)
  BY <1>1, RelayKeeps
<1>2. CASE Crash
  BY <1>2, CrashKeeps
<1>3. CASE \/ \E r \in Request : HarnessWithdraws(r)
           \/ Note \/ Sweep \/ Stop \/ SettleClaim \/ Restart
           \/ Answer \/ Strand \/ StrandOne \/ StrandEnds
  BY <1>3, AroundKeeps
<1>4. CASE UNCHANGED vars
  <2>1. UNCHANGED tables /\ UNCHANGED <<relay, got, withdrawn, stopped, alive, failed, strand, bounds>>
    BY <1>4 DEF vars, runner
  <2>2. Tables /\ Around /\ Dead /\ Recounted
    BY TypeOKParts DEF IInv
  <2>3. /\ Grows /\ Question' = Question /\ Tables' /\ Recounted'
        /\ \A q, how : Closed(q, how)' <=> Closed(q, how)
    BY <2>1, <2>2, StillGrows
  <2>4. Around' /\ Dead'
    BY <2>1, <2>2, <2>3 DEF Around, Dead, bounds, failed
  <2> QED
    BY <2>1, <2>3, <2>4, AsideKeeps
<1> QED
  BY <1>1, <1>2, <1>3, <1>4 DEF Next

-----------------------------------------------------------------------------
(* The theorems                                                            *)

(* The invariant holds in every state of every behaviour.                  *)
THEOREM Invariance == Spec => []IInv
PROOF
BY InvInit, InvStep, PTL DEF Spec

(* Every state is one of a session and its relays as the types say.        *)
THEOREM TypeCorrect == Spec => []TypeOK
PROOF
<1>1. IInv => TypeOK
  BY DEF IInv
<1> QED
  BY Invariance, <1>1, PTL

(* Whatever requests are open at once and whoever answers, withdraws,      *)
(* notes or sweeps in between, the needs-input queue holds exactly the     *)
(* questions that a relay which is not over waits for, and those whose     *)
(* withdrawal was not written.                                             *)
THEOREM QueueExact == Spec => []QueueIsWaitedFor
PROOF
<1>1. IInv => QueueIsWaitedFor
  <2> SUFFICES ASSUME IInv, alive, open(session)
               PROVE  queue = (unclosed \cup UNION {relay[r].open : r \in Relayed}) \cap Unanswered
    BY DEF QueueIsWaitedFor, Unanswered
  <2>1. Tables /\ queue = Unanswered
    BY TypeOKParts DEF IInv, Tables, Recounted, queue, open, Unanswered
  <2>2. ASSUME NEW q \in Unanswered PROVE q \in unclosed \cup UNION {relay[r].open : r \in Relayed}
    <3>1. q \in Question /\ asked[q].of \in Request
      BY <2>1, TableFacts
    <3>2. PICK r \in Request : r = asked[q].of /\ q \in relay[r].open
      BY <3>1 DEF IInv, AllRelayed
    <3>3. relay[r].pc # "over" \/ q \in unclosed
      BY <3>2 DEF IInv, RelayInv, GivingUp
    <3> QED
      BY <3>2, <3>3 DEF Relayed
  <2> QED
    BY <2>1, <2>2
<1> QED
  BY Invariance, <1>1, PTL

(* A harness is told of an acceptance or a refusal only when humans gave   *)
(* it, field for field, and of a cancellation only when the claim was      *)
(* stopped, the harness took the request back, the session was over or a   *)
(* question of it could not be written.                                    *)
THEOREM ToldOnlyWhatHumansSaid == Spec => []ToldAsAnswered
PROOF
<1>1. IInv => ToldAsAnswered
  <2> SUFFICES ASSUME IInv, NEW r \in Request
               PROVE  /\ got[r] = "accept" => \A field \in fieldsOf(r) : valued(r, field)
                      /\ got[r] = "decline" =>
                            \E q \in Question : asked[q].of = r /\ Contains(closings[q], "decline")
                      /\ got[r] = "cancelled" =>
                            stopped \/ r \in withdrawn \/ ~open(session) \/ r \in unposed
    BY DEF ToldAsAnswered
  <2>1. ToldRight(r) /\ Tables
    BY TypeOKParts DEF IInv, RelayInv
  <2>2. \A q \in Question : Closed(q, "decline") => Contains(closings[q], "decline")
    BY <2>1, TableFacts, LenProperties DEF Closed, Contains
  <2> QED
    BY <2>1, <2>2 DEF ToldRight, Declined, Gone
<1> QED
  BY Invariance, <1>1, PTL

=============================================================================
