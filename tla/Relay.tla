------------------------------- MODULE Relay -------------------------------
(***************************************************************************)
(* How one claim of the loop puts what its harness asks to a human.  The   *)
(* harness has permissions and forms open at the same time on one core     *)
(* session; each is relayed as questions, activities of that session, that *)
(* surfaces answer with activities of their own, and that the relay reads  *)
(* by polling.  The session waits for a human until no question is left    *)
(* unanswered.  The claim may be stopped, the harness may take a request   *)
(* back, a question or its withdrawal may fail to be written, and the      *)
(* runner may die, when the first surface that looks closes what it left   *)
(* open.                                                                   *)
(***************************************************************************)
EXTENDS Naturals, FiniteSets, SequencesExt

CONSTANTS
    Request,    \* what the harness asks: permissions and forms
    Form,       \* those that are forms; a permission has one question
    FIELDS,     \* the fields of a form
    ANSWERS,    \* BOUND: answers the humans give
    SURFACES,   \* BOUND: answers they give to one question
    INVALID,    \* BOUND: of which name no option, or no value of the field
    FAILURES    \* BOUND: writes of the relays that fail though the session is open

ASSUME RelayAssumption ==
    /\ IsFiniteSet(Request) /\ Form \subseteq Request
    /\ FIELDS \in Nat \ {0} /\ {ANSWERS, SURFACES, INVALID, FAILURES} \subseteq Nat

VARIABLES
    session,    \* the state of the core session; complete and error are "ended"
    asked,      \* its questions, in order; the place is the id
    closings,   \* per question, the activities that answer it
    relay,      \* per request, how far its relay is
    got,        \* per request, what the harness was told
    withdrawn,  \* the requests the harness took back
    stopped,    \* the claim is stopped, or its harness is gone
    alive,      \* the runner is
    strand,     \* the surface that found the runner dead
    unposed,    \* history: the live runner's requests of which a question was not written
    unclosed,   \* history: its questions of which a withdrawal was not written
    answers, invalid

tables == <<session, asked, closings>>
runner == <<relay, got, withdrawn, stopped>>
failed == <<unposed, unclosed>>
bounds == <<answers, invalid>>
vars == <<tables, runner, alive, strand, failed, bounds>>

Question == DOMAIN asked
fieldsOf(r) == IF r \in Form THEN 1 .. FIELDS ELSE {1}
unanswered(closed) == {q \in DOMAIN closed : closed[q] = <<>>}
open(state) == state # "ended"

Reply == {"value", "invalid", "decline"}
Closing == Reply \cup {"withdrawn"}
Told == {"accept", "decline", "cancelled"}
PCs == {"off", "ask", "wait", "take", "close", "withdraw", "over"}

(* A relay: where it is, the last field it asked for, its open questions,  *)
(* the answers it has read and not taken, what it has still to withdraw,   *)
(* and what it will tell the harness then.                                 *)
Relaying ==
    [pc : PCs, field : 0 .. FIELDS, open : SUBSET Question,
     read : UNION {[read -> Reply] : read \in SUBSET Question},
     left : SUBSET Question, result : Told]

TypeOK ==
    /\ session \in {"active", "awaiting_input", "stale", "ended"}
    /\ asked \in Seq([of : Request, field : 1 .. FIELDS])
    /\ closings \in Seq(Seq(Closing)) /\ Len(closings) = Len(asked)
    /\ relay \in [Request -> Relaying] /\ got \in [Request -> Told \cup {"nothing"}]
    /\ \A r \in Request : \A q \in relay[r].open : asked[q].of = r
    /\ \A r \in Request : relay[r].left \cup DOMAIN relay[r].read \subseteq relay[r].open
    /\ withdrawn \subseteq Request /\ {stopped, alive} \subseteq BOOLEAN
    /\ unposed \subseteq Request /\ unclosed \subseteq Question
    /\ strand \in [pc : {"off", "withdraw", "over"}, left : SUBSET Question]
    /\ answers \in 0 .. ANSWERS /\ invalid \in 0 .. INVALID

(* What the runner holds is in its memory, and its harness dies with it.   *)
fresh == <<[r \in Request |-> [pc |-> "off", field |-> 0, open |-> {}, read |-> <<>>,
                               left |-> {}, result |-> "accept"]],
           [r \in Request |-> "nothing"], {}, FALSE>>

Init ==
    /\ session = "active" /\ asked = <<>> /\ closings = <<>>
    /\ relay = fresh[1] /\ got = fresh[2] /\ withdrawn = fresh[3] /\ stopped = fresh[4]
    /\ alive = TRUE /\ unposed = {} /\ unclosed = {}
    /\ strand = [pc |-> "off", left |-> {}]
    /\ answers = 0 /\ invalid = 0

-----------------------------------------------------------------------------
(* Activities: one transaction guards the session, inserts, moves its      *)
(* state.                                                                  *)

onceRecountedBlind(closed) ==
    IF session \in {"awaiting_input", "stale"} THEN "active" ELSE session

(* Where anything but a question leaves a session.                         *)
onceRecounted(closed) ==
    IF session \notin {"awaiting_input", "stale"} THEN session
    ELSE IF unanswered(closed) = {} THEN "active" ELSE "awaiting_input"

(* What closes a question: an answer, a decision or a withdrawal.          *)
Close(q, how) ==
    /\ open(session)
    /\ closings' = [closings EXCEPT ![q] = Append(@, how)]
    /\ session' = onceRecounted(closings')
    /\ UNCHANGED asked

CloseIfOpen(q, how) == Close(q, how) \/ (~open(session) /\ UNCHANGED tables)

(* A question is written, or refused by a session that has ended.          *)
Pose(r, field) ==
    /\ open(session)
    /\ asked' = Append(asked, [of |-> r, field |-> field])
    /\ closings' = Append(closings, <<>>)
    /\ session' = "awaiting_input"

(* A progress note, an error, a milestone of the session's agent.          *)
Note ==
    /\ open(session) /\ session' = onceRecounted(closings)
    /\ UNCHANGED <<asked, closings, runner, alive, strand, failed, bounds>>

(* Idle for too long; one that waits for a human is left alone.            *)
Sweep ==
    /\ session = "active" /\ session' = "stale"
    /\ UNCHANGED <<asked, closings, runner, alive, strand, failed, bounds>>

EndSession == session' = "ended" /\ UNCHANGED <<asked, closings>>

-----------------------------------------------------------------------------
(* The relay of a request                                                  *)

at(r, pc) == alive /\ relay[r].pc = pc
stays(r) == UNCHANGED <<got, withdrawn, stopped, alive, strand, bounds>>
fails == open(session) /\ Cardinality(unposed) + Cardinality(unclosed) < FAILURES

Goes(r, to) == relay' = [relay EXCEPT ![r] = to]

(* What is still open closes, then the harness hears the result.           *)
Closes(from, result) == [from EXCEPT !.pc = "close", !.read = <<>>, !.result = result]

(* One more question of a request, whose relay is then as given; one that  *)
(* cannot be written, on a session that ended or for another reason,       *)
(* cancels the request.                                                    *)
PoseOrCancel(r, to) ==
    \/ /\ Pose(r, to.field) /\ Goes(r, [to EXCEPT !.open = @ \cup {Len(asked) + 1}])
       /\ UNCHANGED failed
    \/ /\ \/ ~open(session) /\ UNCHANGED unposed
          \/ fails /\ unposed' = unposed \cup {r}
       /\ UNCHANGED <<tables, unclosed>> /\ Goes(r, Closes(to, "cancelled"))

(* The harness asks something: every field of a form, before any wait.     *)
PoseField(r) ==
    /\ at(r, "off") \/ at(r, "ask")
    /\ LET field == relay[r].field + 1 IN
       PoseOrCancel(r, [relay[r] EXCEPT !.field = field,
                            !.pc = IF field + 1 \in fieldsOf(r) THEN "ask" ELSE "wait"])
    /\ stays(r)

answersTo(q) == {i \in DOMAIN closings[q] : closings[q][i] # "withdrawn"}

(* The latest answer of each open question that has one.                   *)
found(r) ==
    [q \in {p \in relay[r].open : answersTo(p) # {}} |-> closings[q][Max(answersTo(q))]]

(* A read already under way when the wait is given up still counts.        *)
Poll(r) ==
    /\ at(r, "wait")
    /\ \/ /\ DOMAIN found(r) # {}
          /\ Goes(r, [relay[r] EXCEPT !.pc = "take", !.read = found(r)])
       \/ /\ \/ stopped \/ r \in withdrawn
             \/ DOMAIN found(r) = {} /\ \E q \in relay[r].open : closings[q] # <<>>
          /\ Goes(r, Closes(relay[r], "cancelled"))
    /\ UNCHANGED <<tables, failed>> /\ stays(r)

Deliver(r, result) ==
    got' = [got EXCEPT ![r] = IF @ = "nothing" THEN result ELSE @]

(* The answers read are taken one at a time, up to the last.               *)
rest(r, q) ==
    LET read == [p \in DOMAIN relay[r].read \ {q} |-> relay[r].read[p]]
    IN  [relay[r] EXCEPT !.read = read, !.open = @ \ {q},
                         !.pc = IF DOMAIN read = {} THEN "wait" ELSE "take"]

TakeValue(r, q) ==
    /\ IF rest(r, q).open = {}
       THEN Goes(r, [rest(r, q) EXCEPT !.pc = "over"]) /\ Deliver(r, "accept")
       ELSE Goes(r, rest(r, q)) /\ UNCHANGED got
    /\ UNCHANGED <<tables, failed>>

(* Declining any field declines the form.                                  *)
TakeDecline(r, q) ==
    Goes(r, Closes(rest(r, q), "decline")) /\ UNCHANGED <<tables, got, failed>>

(* An answer that says nothing is asked again, never guessed at.           *)
TakeInvalid(r, q) ==
    PoseOrCancel(r, [rest(r, q) EXCEPT !.field = asked[q].field]) /\ UNCHANGED got

Take(r) ==
    /\ at(r, "take")
    /\ \E q \in DOMAIN relay[r].read :
          /\ \A p \in DOMAIN relay[r].read : q <= p
          /\ \/ relay[r].read[q] = "value" /\ TakeValue(r, q)
             \/ relay[r].read[q] = "decline" /\ TakeDecline(r, q)
             \/ relay[r].read[q] = "invalid" /\ TakeInvalid(r, q)
    /\ UNCHANGED <<withdrawn, stopped, alive, strand, bounds>>

(* The activities are read once; an answer from then on is not looked at.  *)
(* When they cannot be read, all that is open is withdrawn, answered or    *)
(* not.                                                                    *)
ReadOpen(r) ==
    /\ at(r, "close")
    /\ \E left \in {relay[r].open \cap unanswered(closings), relay[r].open} :
          Goes(r, [relay[r] EXCEPT !.pc = "withdraw", !.left = left])
    /\ UNCHANGED <<tables, failed>> /\ stays(r)

(* A question at a time; a session that ended has it off the queue.  One   *)
(* not written is a warning, and leaves the question as it is.             *)
WithdrawOne(r) ==
    /\ at(r, "withdraw") /\ relay[r].left # {}
    /\ \E q \in relay[r].left :
          /\ \A p \in relay[r].left : q <= p
          /\ \/ CloseIfOpen(q, "withdrawn") /\ UNCHANGED unclosed
             \/ fails /\ unclosed' = unclosed \cup {q} /\ UNCHANGED tables
          /\ Goes(r, [relay[r] EXCEPT !.left = @ \ {q}])
    /\ UNCHANGED unposed /\ stays(r)

GaveUp(r) ==
    /\ at(r, "withdraw") /\ relay[r].left = {}
    /\ Goes(r, [relay[r] EXCEPT !.pc = "over"]) /\ Deliver(r, relay[r].result)
    /\ UNCHANGED <<tables, withdrawn, stopped, alive, strand, failed, bounds>>

-----------------------------------------------------------------------------
(* Around the relays                                                       *)

(* The harness takes a request back, and is answered at once.              *)
HarnessWithdraws(r) ==
    /\ alive /\ relay[r].pc # "off" /\ got[r] = "nothing"
    /\ withdrawn' = withdrawn \cup {r} /\ got' = [got EXCEPT ![r] = "cancelled"]
    /\ UNCHANGED <<tables, relay, stopped, alive, strand, failed, bounds>>

(* The claim is cancelled or closed: whoever waits for a human goes first. *)
Stop ==
    /\ alive /\ ~stopped /\ stopped' = TRUE
    /\ UNCHANGED <<tables, relay, got, withdrawn, alive, strand, failed, bounds>>

(* The claim's session is over; the relays it had are not waited for.      *)
SettleClaim ==
    /\ alive /\ stopped /\ open(session)
    /\ EndSession /\ UNCHANGED <<runner, alive, strand, failed, bounds>>

Crash ==
    /\ alive /\ alive' = FALSE /\ relay' = fresh[1] /\ got' = fresh[2]
    /\ withdrawn' = fresh[3] /\ stopped' = fresh[4]
    /\ unposed' = {} /\ unclosed' = {}
    /\ UNCHANGED <<tables, strand, bounds>>

(* A restarted runner ends the session before its claim is run again.      *)
Restart ==
    /\ ~alive /\ open(session)
    /\ EndSession /\ UNCHANGED <<runner, alive, strand, failed, bounds>>

queue == IF session = "awaiting_input" THEN unanswered(closings) ELSE {}

(* Surfaces have offered a question from when it was posed; an answer is   *)
(* written whatever has happened since, unless the session ended, and two  *)
(* surfaces may both answer.  Skipping is an answer too.                   *)
Answer ==
    /\ answers < ANSWERS /\ answers' = answers + 1
    /\ \E q \in Question, v \in Reply :
          /\ v = "decline" => asked[q].of \in Form
          /\ v = "invalid" => invalid < INVALID
          /\ invalid' = invalid + (IF v = "invalid" THEN 1 ELSE 0)
          /\ Cardinality(answersTo(q)) < SURFACES
          /\ Close(q, v)
    /\ UNCHANGED <<runner, alive, strand, failed>>

(* A surface that finds the runner dead withdraws what it left open, and   *)
(* then ends the session.                                                  *)
Strand ==
    /\ ~alive /\ strand.pc = "off"
    /\ strand' = [pc |-> "withdraw", left |-> unanswered(closings)]
    /\ UNCHANGED <<tables, runner, alive, failed, bounds>>

StrandOne ==
    /\ strand.pc = "withdraw" /\ strand.left # {}
    /\ \E q \in strand.left :
          /\ \A p \in strand.left : q <= p
          /\ CloseIfOpen(q, "withdrawn") \/ UNCHANGED tables
          /\ strand' = [strand EXCEPT !.left = @ \ {q}]
    /\ UNCHANGED <<runner, alive, failed, bounds>>

StrandEnds ==
    /\ strand.pc = "withdraw" /\ strand.left = {}
    /\ EndSession /\ strand' = [strand EXCEPT !.pc = "over"]
    /\ UNCHANGED <<runner, alive, failed, bounds>>

RelayStep(r) ==
    \/ PoseField(r) \/ Poll(r) \/ Take(r)
    \/ ReadOpen(r) \/ WithdrawOne(r) \/ GaveUp(r)

Next ==
    \/ \E r \in Request : RelayStep(r) \/ HarnessWithdraws(r)
    \/ Note \/ Sweep \/ Stop \/ SettleClaim \/ Crash \/ Restart
    \/ Answer \/ Strand \/ StrandOne \/ StrandEnds

Spec == Init /\ [][Next]_vars

-----------------------------------------------------------------------------
(* While the runner lives and the session is open, the questions surfaces  *)
(* offer are the unanswered ones of the relays that are not over, and the  *)
(* ones whose withdrawal was not written: a human is asked for every answer*)
(* that is waited for and, but for those, for no other, whatever answers,  *)
(* notes and sweeps come between (sessions.ts:90-153, questions.ts:105).   *)
Relayed == {r \in Request : relay[r].pc # "over"}
QueueIsWaitedFor ==
    alive /\ open(session) =>
        queue = (unclosed \cup UNION {relay[r].open : r \in Relayed}) \cap unanswered(closings)

valued(r, field) ==
    \E q \in Question : /\ asked[q] = [of |-> r, field |-> field]
                        /\ \E i \in DOMAIN closings[q] : closings[q][i] = "value"

(* A request is accepted only when a human gave every field of it a value, *)
(* declined only when one declined, and cancelled only when the claim was  *)
(* stopped, the harness took it back, its session was over or a question of*)
(* it could not be written: nothing is granted that nobody granted         *)
(* (permission.ts:75-147, elicitation.ts:395).                             *)
ToldAsAnswered ==
    \A r \in Request :
        /\ got[r] = "accept" => \A field \in fieldsOf(r) : valued(r, field)
        /\ got[r] = "decline" =>
              \E q \in Question : asked[q].of = r /\ Contains(closings[q], "decline")
        /\ got[r] = "cancelled" =>
              stopped \/ r \in withdrawn \/ ~open(session) \/ r \in unposed

=============================================================================
