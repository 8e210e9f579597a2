------------------------------ MODULE OplogPush ------------------------------
(***************************************************************************)
(* How a device's captured changes reach the shared log.                   *)
(*                                                                         *)
(* Every storage write appends a snapshot to the device's sync_oplog; the  *)
(* rows are numbered 1, 2, ... by their local seq.  Sync.push drains the   *)
(* rows above last_pushed_seq in batches, hands each batch to a transport, *)
(* and moves the watermark when the transport says ok.  The transport of a *)
(* laptop (HttpTransport) cuts the batch into chunks by size, retries a    *)
(* chunk, bisects a chunk the server refuses and quarantines an op refused *)
(* alone; the transport of the cloud hub (LogTransport) does none of that. *)
(* The log is one Durable Object: an append is one transaction, idempotent *)
(* on the op id.                                                           *)
(*                                                                         *)
(* Several processes of one device push at the same time (the CLI, a Stop  *)
(* hook, the hub's request handler and its alarm), a request the client    *)
(* gave up on may still land, and a process may die at any point.          *)
(*                                                                         *)
(* Abstracted: what an op says (only its device, its seq, its size and     *)
(* whether the server can store it matter here), the reset check made with *)
(* the acknowledged head (module PullSession has it: it writes the applied *)
(* watermark and nothing this module keeps), last_sync_at, and the log's   *)
(* table of devices, which nothing reads.                                  *)
(***************************************************************************)
EXTENDS Integers, FiniteSets

CONSTANTS
    Device,       \* every device: the laptops and the hub
    Http,         \* the devices that push over HttpTransport; the others use LogTransport
    Proc,         \* names of the processes that may push for one device
    MaxOps,       \* BOUND: ops captured per device
    Bytes,        \* Bytes[i] is the size of every device's op i
    Unstorable,   \* BOUND: the seqs at which a device may capture an op no server can store
    BatchBytes,   \* HttpTransport's ceiling on a chunk
    Limit,        \* ops drained per batch
    MaxBatches,   \* batches per push
    MaxAttempts,  \* HttpTransport's attempts per chunk
    MaxWire,      \* BOUND: a request is left to land late only while this many are on the wire
    MaxCrashes,   \* BOUND: processes that die
    Outage        \* whether the server may answer 500 for content it could store

ASSUME OplogPushAssumption ==
    /\ Http \subseteq Device
    /\ MaxOps \in Nat
    /\ Bytes \in [1 .. MaxOps -> Nat]
    /\ Unstorable \subseteq 1 .. MaxOps
    /\ BatchBytes \in Nat
    /\ Limit \in Nat \ {0}
    /\ MaxBatches \in Nat \ {0}
    /\ MaxAttempts \in Nat \ {0}
    /\ MaxWire \in Nat
    /\ MaxCrashes \in Nat
    /\ Outage \in BOOLEAN

Seqs == 1 .. MaxOps
Session == Device \X Proc
dev(s) == s[1]

(* A request on the network: session from's ops lo+1 .. hi. *)
Request == [from : Session, lo : 0 .. MaxOps, hi : Seqs]

VARIABLES
    captured,     \* captured[d]: the highest seq in d's sync_oplog
    poison,       \* poison[d]: the seqs of d's ops that the server can never store
    lastPushed,   \* lastPushed[d]: sync_state.last_pushed_seq
    quarantined,  \* quarantined[d]: the seqs in d's sync_quarantine
    srv,          \* srv[d][i]: the server_seq of d's op i in the log; 0 while it is not there
    auto,         \* the log's AUTOINCREMENT high-water mark
    wire,         \* the requests that may still reach the server
    pc,           \* pc[s]: where session s is in pushImpl
    pos,          \* pos[s]: the ops of the batch up to here are dealt with
    hi,           \* hi[s]: the last op of the drained batch
    cuts,         \* cuts[s]: the last op of every chunk the batch is cut into
    attempt,      \* attempt[s]: failed attempts at the current chunk
    batch,        \* batch[s]: batches acknowledged by this push
    full,         \* full[s]: the batch holds Limit ops, so there may be another
    crashes       \* processes that have died

deviceVars  == <<captured, poison, lastPushed, quarantined>>
logVars     == <<srv, auto>>
sessionVars == <<pc, pos, hi, cuts, attempt, batch, full>>
vars == <<deviceVars, logVars, wire, sessionVars, crashes>>

TypeOK ==
    /\ captured \in [Device -> 0 .. MaxOps]
    /\ poison \in [Device -> SUBSET Seqs]
    /\ lastPushed \in [Device -> 0 .. MaxOps]
    /\ quarantined \in [Device -> SUBSET Seqs]
    /\ srv \in [Device -> [Seqs -> Nat]]
    /\ auto \in Nat
    /\ wire \subseteq Request
    /\ pc \in [Session -> {"idle", "drain", "send", "wait", "refused"}]
    /\ pos \in [Session -> 0 .. MaxOps]
    /\ hi \in [Session -> 0 .. MaxOps]
    /\ cuts \in [Session -> SUBSET Seqs]
    /\ attempt \in [Session -> 0 .. MaxAttempts - 1]
    /\ batch \in [Session -> 0 .. MaxBatches - 1]
    /\ full \in [Session -> BOOLEAN]
    /\ crashes \in 0 .. MaxCrashes

Init ==
    /\ captured = [d \in Device |-> 0]
    /\ poison = [d \in Device |-> {}]
    /\ lastPushed = [d \in Device |-> 0]
    /\ quarantined = [d \in Device |-> {}]
    /\ srv = [d \in Device |-> [i \in Seqs |-> 0]]
    /\ auto = 0
    /\ wire = {}
    /\ pc = [s \in Session |-> "idle"]
    /\ pos = [s \in Session |-> 0]
    /\ hi = [s \in Session |-> 0]
    /\ cuts = [s \in Session |-> {}]
    /\ attempt = [s \in Session |-> 0]
    /\ batch = [s \in Session |-> 0]
    /\ full = [s \in Session |-> FALSE]
    /\ crashes = 0

-----------------------------------------------------------------------------
(* The chunks of a batch.                                                  *)

(* The seq at which the chunk holding op i begins, when ops lo+1 .. h are  *)
(* packed greedily: a chunk closes when the next op would put it over the  *)
(* ceiling, and an op over the ceiling by itself is a chunk of its own.    *)
ChunkStart(lo, h) ==
    LET size[a \in Seqs, b \in 0 .. MaxOps] ==
            IF b < a THEN 0 ELSE size[a, b - 1] + Bytes[b]
        start[i \in lo + 1 .. h] ==
            IF i = lo + 1 THEN i
            ELSE IF size[start[i - 1], i] > BatchBytes THEN i
            ELSE start[i - 1]
    IN  start

(* The last op of every chunk of the batch lo+1 .. h.  LogTransport sends  *)
(* the batch whole.                                                        *)
ChunkEnds(d, lo, h) ==
    IF d \in Http
    THEN {i \in lo + 1 .. h : i = h \/ ChunkStart(lo, h)[i + 1] = i + 1}
    ELSE {h}

(* The end of the chunk session s is at: the first cut beyond pos[s].      *)
IsChunkEnd(s, e) ==
    /\ e \in cuts[s]
    /\ e > pos[s]
    /\ \A c \in cuts[s] : c > pos[s] => e <= c

RequestOf(s, e) == [from |-> s, lo |-> pos[s], hi |-> e]

-----------------------------------------------------------------------------
(* The log.                                                                *)

(* An append that lets a second arrival of an op take a new place.         *)
AppendReplacing(d, lo, h) ==
    /\ srv' = [srv EXCEPT ![d] =
                [i \in Seqs |-> IF i \in lo + 1 .. h THEN auto + (i - lo) ELSE srv[d][i]]]
    /\ auto' = auto + (h - lo)

(* Append ops lo+1 .. h of device d in one transaction.  Each row offered  *)
(* takes an AUTOINCREMENT value; a row whose op id is already there is     *)
(* skipped and its value burned.  What a batch of nothing but duplicates   *)
(* burns is left out: only the order of the places matters to a push, and  *)
(* the gaps matter to a reader's page (module PullSession has them).       *)
Append(d, lo, h) ==
    /\ srv' = [srv EXCEPT ![d] =
                [i \in Seqs |-> IF i \in lo + 1 .. h /\ srv[d][i] = 0
                                THEN auto + (i - lo)
                                ELSE srv[d][i]]]
    /\ auto' = IF \E i \in lo + 1 .. h : srv[d][i] = 0 THEN auto + (h - lo) ELSE auto

(* The server can store every op of the range.                             *)
Storable(d, lo, h) == poison[d] \cap (lo + 1 .. h) = {}

-----------------------------------------------------------------------------
(* The loop's variables go out of scope: session s leaves its batch for    *)
(* "idle" or for the next round, "drain".                                  *)
LeaveBatch(s, to) ==
    /\ pc' = [pc EXCEPT ![s] = to]
    /\ pos' = [pos EXCEPT ![s] = 0]
    /\ hi' = [hi EXCEPT ![s] = 0]
    /\ cuts' = [cuts EXCEPT ![s] = {}]
    /\ attempt' = [attempt EXCEPT ![s] = 0]
    /\ full' = [full EXCEPT ![s] = FALSE]

EndPush(s) == LeaveBatch(s, "idle") /\ batch' = [batch EXCEPT ![s] = 0]

(* Session s stops waiting for an answer: the request it sent, if it is    *)
(* still on the network, is lost or lands later.                           *)
Awaited(s) == {r \in wire : pc[s] = "wait" /\ r.from = s /\ r.lo = pos[s]
                            /\ IsChunkEnd(s, r.hi)}
Abandon(s) ==
    \/ wire' = wire \ Awaited(s)
    \/ wire' = wire /\ Cardinality(wire) <= MaxWire

AttemptsLeftOneMore(s) == dev(s) \in Http /\ attempt[s] < MaxAttempts
AttemptsLeft(s) == dev(s) \in Http /\ attempt[s] + 1 < MaxAttempts

(* An attempt failed.  While attempts are left the identical body is sent  *)
(* again; after the last one the chunk is isolated, or the push fails with *)
(* the watermark where it was.                                             *)
Failed(s, isolate) ==
    IF AttemptsLeft(s)
    THEN /\ pc' = [pc EXCEPT ![s] = "send"]
         /\ attempt' = [attempt EXCEPT ![s] = @ + 1]
         /\ UNCHANGED <<pos, hi, cuts, batch, full>>
    ELSE IF isolate
    THEN /\ pc' = [pc EXCEPT ![s] = "refused"]
         /\ attempt' = [attempt EXCEPT ![s] = 0]
         /\ UNCHANGED <<pos, hi, cuts, batch, full>>
    ELSE EndPush(s)

(* A refusal is grounds for isolating what was refused, over HttpTransport.*)
NeverQuarantinable(s) == FALSE
Quarantinable(s) == dev(s) \in Http

(* Where a refused chunk lo+1 .. e is cut.                                 *)
Middle(lo, e) == lo + (e - lo) \div 2

(* sync_quarantine with op e recorded; a second record changes nothing.    *)
QuarantinedSilently(d, e) == quarantined[d]
QuarantinedWith(d, e) == quarantined[d] \cup {e}

(* The seq a finished batch acknowledges: its last op's.                   *)
AckedHead(s) == captured[dev(s)]
AckedThrough(s) == hi[s]

(* SET last_pushed_seq = MAX(last_pushed_seq, ?).                          *)
Advance(old, new) == IF old < new THEN new ELSE old

-----------------------------------------------------------------------------
(* A storage write captures one more op; bad when its row is one the       *)
(* server will refuse for ever (over the size limit, say).                 *)
Capture(d, bad) ==
    /\ captured[d] < MaxOps
    /\ bad => captured[d] + 1 \in Unstorable
    /\ captured' = [captured EXCEPT ![d] = @ + 1]
    /\ poison' = IF bad THEN [poison EXCEPT ![d] = @ \cup {captured[d] + 1}]
                        ELSE poison
    /\ UNCHANGED <<lastPushed, quarantined, logVars, wire, sessionVars, crashes>>

(* A process of the device begins a push.                                  *)
Begin(s) ==
    /\ pc[s] = "idle"
    /\ pc' = [pc EXCEPT ![s] = "drain"]
    /\ UNCHANGED <<deviceVars, logVars, wire, pos, hi, cuts, attempt, batch, full, crashes>>

(* Read the next ops above the pushed watermark; none ends the push.       *)
Drain(s) ==
    LET lo == lastPushed[dev(s)]
        h  == IF lo + Limit < captured[dev(s)] THEN lo + Limit ELSE captured[dev(s)]
    IN  /\ pc[s] = "drain"
        /\ IF h = lo
           THEN EndPush(s)
           ELSE /\ pc' = [pc EXCEPT ![s] = "send"]
                /\ pos' = [pos EXCEPT ![s] = lo]
                /\ hi' = [hi EXCEPT ![s] = h]
                /\ cuts' = [cuts EXCEPT ![s] = ChunkEnds(dev(s), lo, h)]
                /\ full' = [full EXCEPT ![s] = (h - lo = Limit)]
                /\ UNCHANGED <<attempt, batch>>
        /\ UNCHANGED <<deviceVars, logVars, wire, crashes>>

(* Put the current chunk on the network.                                   *)
Send(s, e) ==
    /\ pc[s] = "send"
    /\ IsChunkEnd(s, e)
    /\ wire' = wire \cup {RequestOf(s, e)}
    /\ pc' = [pc EXCEPT ![s] = "wait"]
    /\ UNCHANGED <<deviceVars, logVars, pos, hi, cuts, attempt, batch, full, crashes>>

(* The log commits the chunk and its answer arrives.                       *)
Accept(s, e) ==
    /\ pc[s] = "wait"
    /\ IsChunkEnd(s, e)
    /\ RequestOf(s, e) \in wire
    /\ Storable(dev(s), pos[s], e)
    /\ Append(dev(s), pos[s], e)
    /\ wire' = wire \ {RequestOf(s, e)}
    /\ pos' = [pos EXCEPT ![s] = e]
    /\ attempt' = [attempt EXCEPT ![s] = 0]
    /\ pc' = [pc EXCEPT ![s] = "send"]
    /\ UNCHANGED <<deviceVars, hi, cuts, batch, full, crashes>>

(* A request lands and nobody hears of it: the answer was lost, or the     *)
(* client had stopped waiting, or had died.                                *)
Land(r) ==
    /\ r \in wire
    /\ Storable(dev(r.from), r.lo, r.hi)
    /\ Append(dev(r.from), r.lo, r.hi)
    /\ wire' = wire \ {r}
    /\ UNCHANGED <<deviceVars, sessionVars, crashes>>

(* The chunk is answered with a refusal status (400, 413 or 500): for an   *)
(* op the server can never store, or, in an outage, for no fault of its    *)
(* own.                                                                    *)
Refuse(s, e) ==
    /\ pc[s] = "wait"
    /\ IsChunkEnd(s, e)
    /\ Outage \/ ~Storable(dev(s), pos[s], e)
    /\ wire' = wire \ {RequestOf(s, e)}
    /\ Failed(s, Quarantinable(s))
    /\ UNCHANGED <<deviceVars, logVars, crashes>>

(* No answer, or one that refuses nothing (401, 429, 503, unreadable).     *)
GiveUp(s) ==
    /\ pc[s] = "wait"
    /\ Failed(s, FALSE)
    /\ Abandon(s)
    /\ UNCHANGED <<deviceVars, logVars, crashes>>

(* A refused chunk of several ops is cut in half.                          *)
Bisect(s, e) ==
    /\ pc[s] = "refused"
    /\ IsChunkEnd(s, e)
    /\ e > pos[s] + 1
    /\ cuts' = [cuts EXCEPT ![s] = @ \cup {Middle(pos[s], e)}]
    /\ pc' = [pc EXCEPT ![s] = "send"]
    /\ UNCHANGED <<deviceVars, logVars, wire, pos, hi, attempt, batch, full, crashes>>

(* An op refused alone is recorded in sync_quarantine and passed over.     *)
Quarantine(s, e) ==
    /\ pc[s] = "refused"
    /\ IsChunkEnd(s, e)
    /\ e = pos[s] + 1
    /\ quarantined' = [quarantined EXCEPT ![dev(s)] = QuarantinedWith(dev(s), e)]
    /\ pos' = [pos EXCEPT ![s] = e]
    /\ pc' = [pc EXCEPT ![s] = "send"]
    /\ UNCHANGED <<captured, poison, lastPushed, logVars, wire, hi, cuts, attempt,
                   batch, full, crashes>>

(* The whole batch is dealt with: advance the watermark, never backwards,  *)
(* and go round again if the batch was full and the push has rounds left.  *)
Ack(s) ==
    /\ pc[s] = "send"
    /\ pos[s] = hi[s]
    /\ lastPushed' = [lastPushed EXCEPT ![dev(s)] = Advance(@, AckedThrough(s))]
    /\ IF full[s] /\ batch[s] + 1 < MaxBatches
       THEN LeaveBatch(s, "drain") /\ batch' = [batch EXCEPT ![s] = @ + 1]
       ELSE EndPush(s)
    /\ UNCHANGED <<captured, poison, quarantined, logVars, wire, crashes>>

(* The process dies: a hook killed at its time limit, a laptop that sleeps.*)
Crash(s) ==
    /\ pc[s] # "idle"
    /\ crashes < MaxCrashes
    /\ crashes' = crashes + 1
    /\ EndPush(s)
    /\ Abandon(s)
    /\ UNCHANGED <<deviceVars, logVars>>

ChunkStep(s, e) ==
    Send(s, e) \/ Accept(s, e) \/ Refuse(s, e) \/ Bisect(s, e) \/ Quarantine(s, e)

Next ==
    \/ \E d \in Device, bad \in BOOLEAN : Capture(d, bad)
    \/ \E s \in Session : Begin(s) \/ Drain(s) \/ GiveUp(s) \/ Ack(s) \/ Crash(s)
    \/ \E s \in Session, e \in Seqs : ChunkStep(s, e)
    \/ \E r \in wire : Land(r)

Spec == Init /\ [][Next]_vars

(* A push over HttpTransport is started again and again (every Stop hook)  *)
(* and runs on while its process lives; the processes that die are the     *)
(* MaxCrashes of the bound.  A request sent again and again is answered at *)
(* last, on the last attempt too: the network does not fail every push.    *)
(* Nothing is assumed of the hub, which a single poison op stops for good. *)
HttpSession == {s \in Session : dev(s) \in Http}

Fairness ==
    /\ \A s \in HttpSession :
        WF_vars(Begin(s)) /\ WF_vars(Drain(s)) /\ WF_vars(GiveUp(s)) /\ WF_vars(Ack(s))
    /\ \A s \in HttpSession : \A e \in Seqs :
        /\ WF_vars(Send(s, e)) /\ WF_vars(Bisect(s, e)) /\ WF_vars(Quarantine(s, e))
        /\ \A lo \in 0 .. e - 1 :
            /\ SF_vars(pos[s] = lo /\ Accept(s, e))
            /\ SF_vars(pos[s] = lo /\ attempt[s] + 1 = MaxAttempts /\ Refuse(s, e))

FairSpec == Spec /\ Fairness

-----------------------------------------------------------------------------
(* PROPERTIES                                                              *)

(* Op i of device d is dealt with: in the log, or recorded as given up on. *)
Settled(d, i) == srv[d][i] > 0 \/ i \in quarantined[d]

(* The watermark never passes an op that is neither in the log nor in the  *)
(* quarantine: no change is dropped without a trace, whichever processes   *)
(* push at once, whatever lands late and wherever a process dies.          *)
NothingSkipped ==
    \A d \in Device : \A i \in 1 .. lastPushed[d] : Settled(d, i)

(* The log keeps the order in which a device captured its ops, so a reader *)
(* meets a parent before its children: an op that stands behind a later    *)
(* one of its device had been given up on, and so reported, before.        *)
DeviceOrder ==
    \A d \in Device : \A i, j \in Seqs :
        i < j /\ srv[d][i] > srv[d][j] /\ srv[d][j] > 0 => i \in quarantined[d]

(* The log only grows at its head: a place once given is never changed,    *)
(* and a new one is above every place already given.  A reader's watermark *)
(* rests on it: nothing may appear below what has been read.               *)
AppendsAbove ==
    [][\A d \in Device, i \in Seqs :
        \/ srv'[d][i] = srv[d][i]
        \/ srv[d][i] = 0 /\ \A c \in Device, j \in Seqs : srv[c][j] < srv'[d][i]]_vars

(* Two processes that drained different batches acknowledge in any order;  *)
(* the watermark of the later batch is not taken back by the earlier one.  *)
PushedNeverBack ==
    [][\A d \in Device : lastPushed[d] <= lastPushed'[d]]_vars

(* A poison op never holds up what is behind it: every captured op is      *)
(* pushed past, and every op the server can store is in the log by then.   *)
PoisonNeverBlocks ==
    \A d \in Http : \A i \in Seqs :
        (i <= captured[d]) ~>
            /\ i <= lastPushed[d]
            /\ srv[d][i] > 0 \/ i \in poison[d] \cap quarantined[d]

(* What the pushing processes do together is what an outbox promises.      *)
O == INSTANCE Outbox WITH
        recorded <- captured, acked <- lastPushed, givenUp <- quarantined, place <- srv

ImplementsOutbox == O!Spec
=============================================================================
