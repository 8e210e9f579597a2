------------------------------ MODULE Copilot ------------------------------
(***************************************************************************)
(* The board's copilot: the turns a human sends one at a time, the ACP     *)
(* session they all go through, and the questions the harness asks while   *)
(* it works on one.                                                        *)
(*                                                                         *)
(* A turn is an async generator that reads the session's updates and the   *)
(* copilot's mailbox, whichever comes first, and hands them to the board.  *)
(* The board cancels by telling the harness and by no longer looking at    *)
(* the turn: the generator goes on until it has something to hand over.    *)
(* All of it is one JavaScript thread: an event is handled to the end,     *)
(* every promise it settles included, before the next one comes (Busy).    *)
(*                                                                         *)
(* Abstracted: what an update says (prose is held back until something     *)
(* else comes, anything else is a step), slash commands, a question's      *)
(* answer but for whether it grants anything, and the modes of a session.  *)
(* A harness works on the prompts of a session one after the other, and is *)
(* blocked while a request of its own is open.                             *)
(***************************************************************************)
EXTENDS Naturals, FiniteSets, SequencesExt

CONSTANTS
    PROMPTS,    \* BOUND: turns the human sends
    CANCELS,    \* BOUND: turns the human stops
    UPDATES,    \* BOUND: updates the harness sends, stops aside
    ASKS,       \* BOUND: requests it makes
    DEATHS      \* BOUND: connections that close on their own

ASSUME CopilotAssumption ==
    /\ PROMPTS \in Nat \ {0}
    /\ {CANCELS, UPDATES, ASKS, DEATHS} \subseteq Nat

Prompt == 1 .. PROMPTS
Session == 1 .. PROMPTS      \* a turn starts one at most
Request == 1 .. ASKS

VARIABLES
    \* the board
    turn,       \* what the reducer holds of the last turn
    current,    \* the prompt whose stream is looked at; 0 when cancelled
    asks,       \* the questions on screen, the one in hand first
    log,        \* per prompt its card, and whose updates its transcript has
    \* the copilot
    session,    \* the session prompts go to; 0 when none is open
    instructed, \* the session has had the instructions
    outbox,     \* the mailbox
    waker,      \* whose wait the next mail ends; 0 when nobody's
    blocked,    \* requests whose promise the copilot can still settle
    run,        \* per prompt, where its generator is
    \* the client, per session
    queue,      \* updates nobody has read
    readers,    \* the prompts whose read is pending
    active,     \* turn.active, and turn.dispatched
    cancelled,  \* turn.cancelled
    \* the harness, per session
    todo,       \* the prompts it has, the one it works on first
    got,        \* history: the prompts it was sent, and whether instructed
    dead,       \* the connection is closed
    \* the requests
    owner,      \* the prompt a request was made for; its length counts them
    told,       \* what the harness was told
    chosen,     \* history: the requests a human granted
    sent, opened, cancels, updates  \* counters

board    == <<turn, current, asks, log>>
mail     == <<outbox, waker>>
client   == <<queue, readers, active, cancelled>>
harness  == <<todo, got, dead>>
requests == <<owner, told, chosen, blocked>>
bounds   == <<sent, opened, cancels, updates>>
vars == <<board, session, instructed, mail, run, client, harness, requests, bounds>>

PCs == {"off", "context", "start", "top", "wait", "woken", "last", "over"}

TypeOK ==
    /\ turn \in {"idle", "running", "done", "error"}
    /\ current \in Prompt \cup {0} /\ asks \in Seq(Request)
    /\ log \in [Prompt -> [card : {"none", "running", "completed", "failed"},
                           of : SUBSET Prompt]]
    /\ session \in Session \cup {0} /\ instructed \in BOOLEAN
    /\ outbox \in Seq([type : {"ask", "withdrawn"}, id : Request])
    /\ waker \in Prompt \cup {0} /\ blocked \subseteq Request
    /\ run \in [Prompt -> [pc : PCs, on : Session \cup {0}, prose : SUBSET Prompt,
                           first : BOOLEAN, instructing : BOOLEAN]]
    /\ queue \in [Session -> Seq([of : Prompt, kind : {"text", "step", "done", "cancelled"}])]
    /\ readers \in [Session -> Seq(Prompt)]
    /\ active \in [Session -> BOOLEAN] /\ cancelled \in [Session -> BOOLEAN]
    /\ todo \in [Session -> Seq(Prompt)] /\ dead \subseteq Session
    /\ got \in [Session -> Seq([of : Prompt, instructing : BOOLEAN])]
    /\ owner \in Seq(Prompt) /\ Len(owner) <= ASKS
    /\ told \in [Request -> {"nothing", "selected", "cancelled"}] /\ chosen \subseteq Request
    /\ sent \in 0 .. PROMPTS /\ opened \in 0 .. PROMPTS
    /\ cancels \in 0 .. CANCELS /\ updates \in 0 .. UPDATES

Init ==
    /\ turn = "idle" /\ current = 0 /\ asks = <<>>
    /\ log = [p \in Prompt |-> [card |-> "none", of |-> {}]]
    /\ session = 0 /\ instructed = FALSE
    /\ outbox = <<>> /\ waker = 0
    /\ run = [p \in Prompt |-> [pc |-> "off", on |-> 0, prose |-> {},
                                first |-> TRUE, instructing |-> FALSE]]
    /\ queue = [s \in Session |-> <<>>] /\ readers = [s \in Session |-> <<>>]
    /\ active = [s \in Session |-> FALSE] /\ cancelled = [s \in Session |-> FALSE]
    /\ todo = [s \in Session |-> <<>>] /\ got = [s \in Session |-> <<>>] /\ dead = {}
    /\ owner = <<>> /\ told = [r \in Request |-> "nothing"]
    /\ chosen = {} /\ blocked = {}
    /\ sent = 0 /\ opened = 0 /\ cancels = 0 /\ updates = 0

Goes(p, to) == run' = [run EXCEPT ![p].pc = to]

-----------------------------------------------------------------------------
(* What the board makes of what a turn hands over                          *)

(* Whether the stream of p is still looked at.                             *)
StaleUnchecked(p) == FALSE
Stale(p) == current # p

(* A step joins the transcript of the turn in hand, the prose before it    *)
(* first.                                                                  *)
Writes(p, origins) == log' = [log EXCEPT ![p].of = @ \cup origins]

(* The update that ends a turn: nothing on screen waits for a human after. *)
Ends(p, origins, card) ==
    /\ log' = [log EXCEPT ![p] = [card |-> card, of |-> @.of \cup origins]]
    /\ turn' = IF card = "completed" THEN "done" ELSE "error"
    /\ asks' = <<>>

(* What is left of s without what is not in S.                             *)
Keep(s, S) ==
    LET kept[i \in 0 .. Len(s)] ==
            IF i = 0 THEN <<>>
            ELSE IF s[i] \in S THEN Append(kept[i - 1], s[i]) ELSE kept[i - 1]
    IN  kept[Len(s)]

(* A request joins the queue once; one taken back leaves it.               *)
WithMail(queued, item) ==
    IF item.type = "withdrawn" THEN Keep(queued, Request \ {item.id})
    ELSE IF Contains(queued, item.id) THEN queued
    ELSE Append(queued, item.id)

(* The queue once the mail has been read.                                  *)
Shown ==
    LET shown[i \in 0 .. Len(outbox)] ==
            IF i = 0 THEN asks ELSE WithMail(shown[i - 1], outbox[i])
    IN  shown[Len(outbox)]

-----------------------------------------------------------------------------
(* The turn's generator                                                    *)

(* The client's generator ends: the session has no turn.                   *)
TurnOver(s) ==
    /\ active' = [active EXCEPT ![s] = FALSE]
    /\ cancelled' = [cancelled EXCEPT ![s] = FALSE]

(* What the first thing heard of a turn says: the agent has the prompt, and*)
(* the instructions if it carried them, unless it is that the turn was     *)
(* cancelled.                                                              *)
HeardAnything(first, instructing, kind) ==
    instructed' = (instructed \/ (first /\ instructing))
Heard(first, instructing, kind) ==
    instructed' = (instructed \/ (first /\ instructing /\ kind # "cancelled"))

(* The prompt is read for the first time.  What is left in the mailbox is  *)
(* of a turn that is over.  A turn cancelled before it was dispatched      *)
(* stops here; any other goes to the agent.                                *)
Dispatch(p, s) ==
    /\ outbox' = <<>>
    /\ IF cancelled[s]
       THEN /\ TurnOver(s) /\ Heard(TRUE, ~instructed, "cancelled")
            /\ run' = [run EXCEPT ![p].pc = "over", ![p].on = s]
            /\ IF Stale(p) THEN UNCHANGED <<turn, asks, log>> ELSE Ends(p, {p}, "completed")
            /\ UNCHANGED <<queue, readers, todo, got, waker>>
       ELSE /\ active' = [active EXCEPT ![s] = TRUE]
            /\ readers' = [readers EXCEPT ![s] = Append(@, p)]
            /\ IF s \in dead THEN UNCHANGED <<todo, got>>
               ELSE /\ todo' = [todo EXCEPT ![s] = Append(@, p)]
                    /\ got' = [got EXCEPT ![s] =
                                 Append(@, [of |-> p, instructing |-> ~instructed])]
            /\ run' = [run EXCEPT ![p].pc = "wait", ![p].on = s, ![p].instructing = ~instructed]
            /\ waker' = p
            /\ UNCHANGED <<queue, cancelled, log, turn, asks, instructed>>
    /\ UNCHANGED <<dead, current>>

(* The board drops a stream it no longer looks at with the first thing the *)
(* stream hands over.  A read that is pending stays pending.               *)
Dropped(p) == Goes(p, "over")

(* Once around the loop: mail first, then the stream.                      *)
Top(p) ==
    /\ run[p].pc \in {"top", "woken"}
    /\ IF outbox = <<>>
       THEN /\ readers' = IF Contains(readers[run[p].on], p) THEN readers
                          ELSE [readers EXCEPT ![run[p].on] = Append(@, p)]
            /\ Goes(p, "wait") /\ waker' = p
            /\ UNCHANGED <<board, outbox, active, cancelled>>
       ELSE /\ outbox' = <<>>
            /\ IF Stale(p)
               THEN /\ Dropped(p)
                    /\ IF Contains(readers[run[p].on], p) THEN UNCHANGED <<active, cancelled>>
                       ELSE TurnOver(run[p].on)
                    /\ UNCHANGED board
               ELSE /\ Writes(p, run[p].prose \cup {owner[outbox[i].id] : i \in DOMAIN outbox})
                    /\ asks' = Shown
                    /\ run' = [run EXCEPT ![p].pc = "top", ![p].prose = {}]
                    /\ UNCHANGED <<turn, current, active, cancelled>>
            /\ UNCHANGED <<readers, waker>>
    /\ UNCHANGED <<session, instructed, queue, harness, requests, bounds>>

Available(s) == queue[s] # <<>> \/ s \in dead

(* What a read takes: the next update, or, once the connection is closed   *)
(* and none is left, its error.                                            *)
Message(s, p) ==
    IF queue[s] # <<>> THEN Head(queue[s]) ELSE [of |-> p, kind |-> "error"]

Reads(s) ==
    /\ queue' = [queue EXCEPT ![s] = IF @ = <<>> THEN @ ELSE Tail(@)]
    /\ readers' = [readers EXCEPT ![s] = Tail(@)]

(* The read of a generator that was closed while it was pending: what it   *)
(* took is nobody's, and the generator ends.                               *)
HearClosed(s) == TurnOver(s) /\ UNCHANGED <<board, run, instructed>>

(* p has heard something; prose is held until something else comes.        *)
Hears(p, to, prose) ==
    run' = [run EXCEPT ![p].pc = to, ![p].first = FALSE, ![p].prose = prose]

HearText(p, of) ==
    /\ Hears(p, "top", run[p].prose \cup {of})
    /\ UNCHANGED <<board, active, cancelled>>

HearStep(s, p, of) ==
    /\ IF Stale(p) THEN Dropped(p) /\ TurnOver(s) /\ UNCHANGED board
       ELSE /\ Writes(p, run[p].prose \cup {of})
            /\ Hears(p, "top", {})
            /\ UNCHANGED <<turn, current, asks, active, cancelled>>

(* A stop, or an error, is the last.                                       *)
HearEnd(s, p, m) ==
    /\ IF Stale(p) THEN Dropped(p) /\ TurnOver(s) /\ UNCHANGED board
       ELSE /\ Ends(p, run[p].prose \cup {m.of},
                    IF m.kind = "error" THEN "failed" ELSE "completed")
            /\ Hears(p, "last", {})
            /\ UNCHANGED <<current, active, cancelled>>

(* The read that has waited longest gets the next update of the session.   *)
Hear(s) ==
    /\ readers[s] # <<>> /\ Available(s)
    /\ LET p == Head(readers[s])
           m == Message(s, p)
       IN  \/ run[p].pc = "over" /\ HearClosed(s)
           \/ /\ run[p].pc # "over" /\ Heard(run[p].first, run[p].instructing, m.kind)
              /\ CASE m.kind = "text" -> HearText(p, m.of)
                   [] m.kind = "step" -> HearStep(s, p, m.of)
                   [] OTHER -> HearEnd(s, p, m)
    /\ Reads(s)
    /\ UNCHANGED <<session, mail, harness, requests, bounds>>

(* After the last update: mail that came with it, and the generator ends.  *)
LastMail(p) ==
    /\ run[p].pc = "last"
    /\ outbox' = <<>>
    /\ IF outbox # <<>>
       THEN /\ Writes(p, {owner[outbox[i].id] : i \in DOMAIN outbox})
            /\ asks' = Shown
            /\ UNCHANGED <<turn, current>>
       ELSE UNCHANGED board
    /\ TurnOver(run[p].on) /\ Goes(p, "over")
    /\ UNCHANGED <<session, instructed, waker, queue, readers, harness, requests, bounds>>

Busy ==
    \/ \E p \in Prompt : run[p].pc \in {"top", "woken", "last"}
    \/ \E s \in Session : readers[s] # <<>> /\ Available(s)

-----------------------------------------------------------------------------
(* The human and the board                                                 *)

(* A prompt is sent while no turn runs.                                    *)
Submit ==
    /\ ~Busy /\ turn # "running" /\ sent < PROMPTS
    /\ sent' = sent + 1 /\ current' = sent' /\ turn' = "running"
    /\ log' = [log EXCEPT ![sent'].card = "running"]
    /\ Goes(sent', "context")
    /\ UNCHANGED <<asks, session, instructed, mail, client, harness, requests,
                   opened, cancels, updates>>

(* The context of a prompt is there, unless the turn was cancelled while   *)
(* it loaded.  The session's first turn says what mode it runs in.         *)
ContextLoaded(p) ==
    /\ ~Busy /\ run[p].pc = "context"
    /\ IF Stale(p)
       THEN Goes(p, "over")
            /\ UNCHANGED <<board, instructed, mail, client, harness>>
       ELSE IF session = 0
       THEN Goes(p, "start")
            /\ UNCHANGED <<board, instructed, mail, client, harness>>
       ELSE Dispatch(p, session)
    /\ UNCHANGED <<session, requests, bounds>>

Fails(p) ==
    /\ IF Stale(p) THEN UNCHANGED <<turn, asks, log>> ELSE Ends(p, {p}, "failed")
    /\ Goes(p, "over")

ContextFails(p) ==
    /\ ~Busy /\ run[p].pc = "context" /\ Fails(p)
    /\ UNCHANGED <<current, session, instructed, mail, client, harness, requests, bounds>>

(* The harness is reached and its session opened, or not.  A turn nobody   *)
(* looks at is dropped with the note of the mode, when there is one.       *)
SessionOpens(p) ==
    /\ ~Busy /\ run[p].pc = "start"
    /\ opened' = opened + 1 /\ session' = opened'
    /\ IF Stale(p) /\ ~instructed
       THEN Goes(p, "over")
            /\ UNCHANGED <<board, instructed, mail, client, harness>>
       ELSE Dispatch(p, session')
    /\ UNCHANGED <<requests, sent, cancels, updates>>

SessionFails(p) ==
    /\ ~Busy /\ run[p].pc = "start" /\ Fails(p)
    /\ UNCHANGED <<current, session, instructed, mail, client, harness, requests, bounds>>

(* Every open request is answered cancelled.                               *)
ReleaseSilently == blocked' = {} /\ UNCHANGED told
UnblockAll ==
    /\ blocked' = {}
    /\ told' = [r \in Request |-> IF r \in blocked THEN "cancelled" ELSE told[r]]

(* The turn is stopped.  A session with a turn is told; one without is to  *)
(* stop the turn that is dispatched next.                                  *)
Cancel ==
    /\ ~Busy /\ turn = "running" /\ cancels < CANCELS
    /\ cancels' = cancels + 1
    /\ UnblockAll
    /\ cancelled' = IF session = 0 \/ active[session] THEN cancelled
                    ELSE [cancelled EXCEPT ![session] = TRUE]
    /\ current' = 0 /\ turn' = "error" /\ asks' = <<>>
    /\ log' = [log EXCEPT ![sent].card = "failed"]
    /\ UNCHANGED <<session, instructed, mail, run, queue, readers, active, harness,
                   owner, chosen, sent, opened, updates>>

(* The question in hand is answered; the copilot may no longer hold it.    *)
SettleUnheard(r, how) == blocked' = blocked \ {r} /\ UNCHANGED told
Settle(r, how) ==
    IF r \in blocked THEN told' = [told EXCEPT ![r] = how] /\ blocked' = blocked \ {r}
    ELSE UNCHANGED <<told, blocked>>

Answer(how) ==
    /\ ~Busy /\ asks # <<>>
    /\ asks' = Tail(asks)
    /\ Settle(Head(asks), how)
    /\ chosen' = IF how = "selected" THEN chosen \cup {Head(asks)} ELSE chosen
    /\ UNCHANGED <<turn, current, log, session, instructed, mail, run, client, harness,
                   owner, bounds>>

-----------------------------------------------------------------------------
(* The harness                                                             *)

PostQuietly(items) == outbox' = outbox \o items /\ UNCHANGED <<waker, run>>

(* Mail ends the wait that began last, if its turn still waits.            *)
Post(items) ==
    /\ outbox' = outbox \o items
    /\ IF items = <<>> THEN UNCHANGED <<waker, run>>
       ELSE /\ waker' = 0
            /\ IF waker # 0 /\ run[waker].pc = "wait" THEN Goes(waker, "woken")
               ELSE UNCHANGED run

Open(p) == {r \in DOMAIN owner : owner[r] = p /\ told[r] = "nothing"}
Works(s) == ~Busy /\ todo[s] # <<>>

Emit(s, kind) ==
    /\ Works(s) /\ Open(Head(todo[s])) = {} /\ updates < UPDATES
    /\ updates' = updates + 1
    /\ queue' = [queue EXCEPT ![s] = Append(@, [of |-> Head(todo[s]), kind |-> kind])]
    /\ UNCHANGED <<board, session, instructed, mail, run, readers, active, cancelled,
                   harness, requests, sent, opened, cancels>>

Ask(s) ==
    /\ Works(s) /\ Len(owner) < ASKS
    /\ owner' = Append(owner, Head(todo[s]))
    /\ blocked' = blocked \cup {Len(owner')}
    /\ Post(<<[type |-> "ask", id |-> Len(owner')]>>)
    /\ UNCHANGED <<board, session, instructed, client, harness, told, chosen, bounds>>

(* Requests taken back are answered cancelled at once; a human is told of  *)
(* those the copilot still held.                                           *)
Withdrawn(gone) ==
    LET held == Keep([r \in DOMAIN owner |-> r], gone \cap blocked)
    IN  /\ told' = [r \in Request |-> IF r \in gone THEN "cancelled" ELSE told[r]]
        /\ blocked' = blocked \ gone
        /\ Post([i \in DOMAIN held |-> [type |-> "withdrawn", id |-> held[i]]])

TakeBack(s) ==
    /\ Works(s)
    /\ \E r \in Open(Head(todo[s])) : Withdrawn({r})
    /\ UNCHANGED <<board, session, instructed, client, harness, owner, chosen, bounds>>

(* The turn's end comes behind all that was sent during it.  A turn that   *)
(* was cancelled may end as if it had not been.                            *)
Finish(s, how) ==
    /\ Works(s) /\ Open(Head(todo[s])) = {}
    /\ how = "cancelled" => log[Head(todo[s])].card = "failed"
    /\ queue' = [queue EXCEPT ![s] = Append(@, [of |-> Head(todo[s]), kind |-> how])]
    /\ todo' = [todo EXCEPT ![s] = Tail(@)]
    /\ UNCHANGED <<board, session, instructed, mail, run, readers, active, cancelled,
                   got, dead, requests, bounds>>

(* The connection closes: what was asked over it is withdrawn.             *)
Dies(s) ==
    /\ ~Busy /\ s \in 1 .. opened \ dead /\ Cardinality(dead) < DEATHS
    /\ dead' = dead \cup {s}
    /\ Withdrawn(UNION {Open(todo[s][i]) : i \in DOMAIN todo[s]})
    /\ todo' = [todo EXCEPT ![s] = <<>>]
    /\ UNCHANGED <<board, session, instructed, client, got, owner, chosen, bounds>>

Next ==
    \/ \E p \in Prompt : Top(p) \/ LastMail(p)
    \/ \E s \in Session : Hear(s)
    \/ Submit \/ Cancel \/ \E how \in {"selected", "cancelled"} : Answer(how)
    \/ \E p \in Prompt :
          ContextLoaded(p) \/ ContextFails(p) \/ SessionOpens(p) \/ SessionFails(p)
    \/ \E s \in Session :
          \/ Ask(s) \/ TakeBack(s) \/ Dies(s)
          \/ \E kind \in {"text", "step"} : Emit(s, kind)
          \/ \E how \in {"done", "cancelled"} : Finish(s, how)

Spec == Init /\ [][Next]_vars

(* Promises settle, a load and a start come to an end, a harness that is   *)
(* not blocked ends its turn, and a human answers what is on screen.       *)
Fairness ==
    /\ \A p \in Prompt :
        /\ WF_vars(Top(p)) /\ WF_vars(LastMail(p))
        /\ WF_vars(ContextLoaded(p) \/ ContextFails(p))
        /\ WF_vars(SessionOpens(p) \/ SessionFails(p))
    /\ \A s \in Session :
        WF_vars(Hear(s)) /\ WF_vars(\E how \in {"done", "cancelled"} : Finish(s, how))
    /\ WF_vars(\E how \in {"selected", "cancelled"} : Answer(how))

FairSpec == Spec /\ Fairness

-----------------------------------------------------------------------------
(* A request is granted only when a human granted it on screen; one that   *)
(* was not answered can still be, by a human, a cancel or the harness:     *)
(* nothing that happens to the turn loses it (copilot.ts:230-345).         *)
AnsweredOrHeld ==
    \A r \in DOMAIN owner :
        /\ told[r] = "selected" => r \in chosen
        /\ told[r] = "nothing" <=> r \in blocked

(* Every update in a transcript is of the prompt that opened it.           *)
UpdatesOwn == \A p \in Prompt : log[p].of \subseteq {p}

(* Until a first turn is stopped, each turn's transcript is its own, and   *)
(* what the harness waits on is on screen.                                 *)
OwnUntilCancelled ==
    cancels = 0 =>
        /\ UpdatesOwn
        /\ ~Busy => \A r \in blocked : Contains(asks, r)

(* A turn that was stopped, or that another has followed, is never written *)
(* to again, whatever its stream still hands over                          *)
(* (copilot-session.ts:80-165).                                            *)
EarlierUntouched ==
    [][\A p \in 1 .. sent : p # current => log'[p] = log[p]]_vars

(* The instructions go with every prompt until one that carried them has   *)
(* reached the agent: a turn stopped on its way there does not count       *)
(* (copilot.ts:519-527).                                                   *)
InstructionsArrive ==
    opened = 1 /\ instructed =>
        1 \in dead \/ \E i \in DOMAIN got[1] : got[1][i].instructing

(* As long as none is stopped, every turn ends: the harness blocked on a   *)
(* question always has one on screen that a human answers.                 *)
TurnEnds == [](cancels = 0) => []<>(turn # "running")
=============================================================================
