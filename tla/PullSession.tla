---------------------------- MODULE PullSession ----------------------------
(***************************************************************************)
(* How a device reads the shared log.                                      *)
(*                                                                         *)
(* Sync.pull asks for pages from the applied watermark on, and applies     *)
(* each page and moves the watermark in one transaction.  A page is a      *)
(* window of the log from which the device's own ops are withheld after    *)
(* the window is taken, so a page may be empty and still move the cursor.  *)
(* A page that holds an op of a newer schema is cut short before it, and   *)
(* the pull fails there.  A push hears the log's head; a head below the    *)
(* applied watermark is read as a log that lost rows, and the watermark is *)
(* rewound to 0.                                                           *)
(*                                                                         *)
(* Several processes of the device pull and push at once, each running the *)
(* build it was started from; the network or a process may fail at any     *)
(* point; the log may be wiped or restored from a bookmark, which takes    *)
(* its AUTOINCREMENT counter back with its rows.                           *)
(*                                                                         *)
(* One device is modelled, the others only write.  Abstracted: what an op  *)
(* says (module Resolve), the sizes that cut pages on the wire, and the    *)
(* ops a push sends (module OplogPush): here a push only hears the head.   *)
(***************************************************************************)
EXTENDS Integers, FiniteSets

CONSTANTS
    Reader,       \* the device that pulls
    Writer,       \* the other devices
    Proc,         \* processes of the reader
    MaxSeq,       \* BOUND: server_seq values the log hands out
    MaxGap,       \* BOUND: AUTOINCREMENT values burned before one append
    MaxSchema,    \* BOUND: the newest schema any device runs
    Limit,        \* ops per page
    MaxBatches,   \* pages per pull
    MaxRestores   \* BOUND: times the log is wiped or restored

ASSUME PullSessionAssumption ==
    /\ Reader \notin Writer
    /\ MaxSeq \in Nat
    /\ MaxGap \in Nat
    /\ MaxSchema \in Nat \ {0}
    /\ Limit \in Nat \ {0}
    /\ MaxBatches \in Nat \ {0}
    /\ MaxRestores \in Nat

Device == Writer \cup {Reader}
Schema == 1 .. MaxSchema

(* A row of the log.  The epoch tells a row from one that had its server   *)
(* seq before the log was restored.                                        *)
Entry == [seq : 1 .. MaxSeq, author : Device, schema : Schema, epoch : 0 .. MaxRestores]
Page == [ops : SUBSET Entry, through : 0 .. MaxSeq, more : BOOLEAN]

NoPage == [ops |-> {}, through |-> 0, more |-> FALSE]

VARIABLES
    log,          \* the rows of the log
    auto,         \* its AUTOINCREMENT high-water mark
    epoch,        \* times it has been restored
    build,        \* the schema of the kabane installed on the reader
    lastApplied,  \* sync_state.last_applied_seq
    stored,       \* the rows the reader has applied with every column they have
    checked,      \* history: the epoch of the last push whose head was checked
    pc,           \* pc[p]: where process p is
    runs,         \* runs[p]: the schema of the build p runs
    since,        \* since[p]: total.throughSeq of p's pull
    page,         \* page[p]: the page p was answered with
    batch,        \* batch[p]: pages applied by p's pull
    head,         \* head[p]: the head p's push heard
    heardIn       \* heardIn[p]: history, the epoch it heard it in

logVars    == <<log, auto, epoch>>
deviceVars == <<build, lastApplied, stored, checked>>
procVars   == <<pc, runs, since, page, batch, head, heardIn>>
vars == <<logVars, deviceVars, procVars>>

TypeOK ==
    /\ log \subseteq Entry
    /\ auto \in 0 .. MaxSeq
    /\ epoch \in 0 .. MaxRestores
    /\ build \in Schema
    /\ lastApplied \in 0 .. MaxSeq
    /\ stored \subseteq Entry
    /\ checked \in 0 .. MaxRestores
    /\ pc \in [Proc -> {"idle", "ask", "page", "check", "reset"}]
    /\ runs \in [Proc -> Schema]
    /\ since \in [Proc -> 0 .. MaxSeq]
    /\ page \in [Proc -> Page]
    /\ batch \in [Proc -> 0 .. MaxBatches - 1]
    /\ head \in [Proc -> 0 .. MaxSeq]
    /\ heardIn \in [Proc -> 0 .. MaxRestores]

Init ==
    /\ log = {}
    /\ auto = 0
    /\ epoch = 0
    /\ build = 1
    /\ lastApplied = 0
    /\ stored = {}
    /\ checked = 0
    /\ pc = [p \in Proc |-> "idle"]
    /\ runs = [p \in Proc |-> 1]
    /\ since = [p \in Proc |-> 0]
    /\ page = [p \in Proc |-> NoPage]
    /\ batch = [p \in Proc |-> 0]
    /\ head = [p \in Proc |-> 0]
    /\ heardIn = [p \in Proc |-> 0]

Foreign(e) == e.author # Reader

-----------------------------------------------------------------------------
(* The log.                                                                *)

(* The first Limit rows above a cursor, whoever wrote them.                *)
Window(from) ==
    {e \in log : e.seq > from
        /\ Cardinality({f \in log : from < f.seq /\ f.seq < e.seq}) < Limit}

(* t is the seq a page through the window answers with: the last row's,    *)
(* or the cursor itself when there is no row.                              *)
ThroughReturned(from, t) ==
    LET returned == {e \in Window(from) : Foreign(e)}
    IN  IF returned = {} THEN t = from
        ELSE (\E e \in returned : e.seq = t) /\ (\A e \in returned : e.seq <= t)
Through(from, t) ==
    IF Window(from) = {} THEN t = from
    ELSE (\E e \in Window(from) : e.seq = t) /\ (\A e \in Window(from) : e.seq <= t)

(* One page of answer to a reader at cursor from.  The first form answers  *)
(* with the seq to go on from, the second with the last seq it covers.     *)
PageThroughNext(from, t) ==
    [ops |-> {e \in Window(from) : Foreign(e)},
     through |-> t + 1,
     more |-> \E e \in log : e.seq > t]
PageThrough(from, t) ==
    [ops |-> {e \in Window(from) : Foreign(e)},
     through |-> t,
     more |-> \E e \in log : e.seq > t]

(* A device appends an op, after n - auto - 1 burned values.               *)
Publish(d, v, n) ==
    /\ n \in auto + 1 .. auto + 1 + MaxGap
    /\ n <= MaxSeq
    /\ d = Reader => v <= build
    /\ log' = log \cup {[seq |-> n, author |-> d, schema |-> v, epoch |-> epoch]}
    /\ auto' = n
    /\ UNCHANGED <<epoch, deviceVars, procVars>>

(* The log is rolled back to the point where its counter stood at k.       *)
Restore(k) ==
    /\ epoch < MaxRestores
    /\ k < auto
    /\ log' = {e \in log : e.seq <= k}
    /\ auto' = k
    /\ epoch' = epoch + 1
    /\ UNCHANGED <<deviceVars, procVars>>

-----------------------------------------------------------------------------
(* The pull.                                                               *)

(* The command returns, with a result or an error, or the process dies.    *)
End(p) ==
    /\ pc' = [pc EXCEPT ![p] = "idle"]
    /\ since' = [since EXCEPT ![p] = 0]
    /\ page' = [page EXCEPT ![p] = NoPage]
    /\ batch' = [batch EXCEPT ![p] = 0]
    /\ head' = [head EXCEPT ![p] = 0]
    /\ UNCHANGED <<runs, heardIn>>

(* SET last_applied_seq = MAX(last_applied_seq, ?).                        *)
Advance(old, new) == IF old < new THEN new ELSE old

(* e is the first op of the page that a build of schema v cannot store.    *)
FirstNewer(ops, v, e) ==
    /\ e \in ops /\ e.schema > v
    /\ \A f \in ops : f.schema > v => e.seq <= f.seq

(* The watermark of a page cut short before op e.                          *)
ThroughIncluding(e) == e.seq
ThroughBefore(e) == e.seq - 1

(* Another page is asked for when the log holds more, up to MaxBatches.    *)
GoesOn(p, more) == more /\ batch[p] + 1 < MaxBatches

(* Apply the ops of a page and move the watermark, in one transaction; go  *)
(* on to the next page, or end.  A page with nothing in it that moves      *)
(* nothing ends the pull.                                                  *)
Commit(p, ops, through, more) ==
    IF ops = {} /\ through <= since[p]
    THEN End(p) /\ UNCHANGED <<lastApplied, stored>>
    ELSE /\ stored' = stored \cup {e \in ops : e.schema <= runs[p]}
         /\ lastApplied' = Advance(lastApplied, through)
         /\ IF GoesOn(p, more)
            THEN /\ pc' = [pc EXCEPT ![p] = "ask"]
                 /\ since' = [since EXCEPT ![p] = Advance(since[p], through)]
                 /\ page' = [page EXCEPT ![p] = NoPage]
                 /\ batch' = [batch EXCEPT ![p] = @ + 1]
                 /\ UNCHANGED <<runs, head, heardIn>>
            ELSE End(p)

(* A process begins a pull from the applied watermark.                     *)
BeginPull(p) ==
    /\ pc[p] = "idle"
    /\ pc' = [pc EXCEPT ![p] = "ask"]
    /\ runs' = [runs EXCEPT ![p] = build]
    /\ since' = [since EXCEPT ![p] = lastApplied]
    /\ UNCHANGED <<logVars, deviceVars, page, batch, head, heardIn>>

(* The log answers with one page.                                          *)
Read(p, t) ==
    /\ pc[p] = "ask"
    /\ Through(since[p], t)
    /\ pc' = [pc EXCEPT ![p] = "page"]
    /\ page' = [page EXCEPT ![p] = PageThrough(since[p], t)]
    /\ UNCHANGED <<logVars, deviceVars, runs, since, batch, head, heardIn>>

(* Every op of the page is one this build can store.                       *)
ApplyPage(p) ==
    /\ pc[p] = "page"
    /\ \A e \in page[p].ops : e.schema <= runs[p]
    /\ Commit(p, page[p].ops, page[p].through, page[p].more)
    /\ UNCHANGED <<logVars, build, checked>>

(* Op e is from a newer schema: what comes before it applies, the          *)
(* watermark stops short of it and the pull fails.                         *)
ApplyBefore(p, e) ==
    /\ pc[p] = "page"
    /\ FirstNewer(page[p].ops, runs[p], e)
    /\ Commit(p, {f \in page[p].ops : f.seq < e.seq}, ThroughBefore(e), FALSE)
    /\ UNCHANGED <<logVars, build, checked>>

(* A page is lost, a command fails, or a process dies.                     *)
Stop(p) ==
    /\ pc[p] # "idle"
    /\ End(p)
    /\ UNCHANGED <<logVars, deviceVars>>

-----------------------------------------------------------------------------
(* The check for a log that lost rows.                                     *)

(* A push of the reader's is acknowledged, with the head of the log.       *)
HearHead(p, h) ==
    /\ pc[p] = "idle"
    /\ \E e \in log : ~Foreign(e)
    /\ \E e \in log : e.seq = h
    /\ \A e \in log : e.seq <= h
    /\ pc' = [pc EXCEPT ![p] = "check"]
    /\ head' = [head EXCEPT ![p] = h]
    /\ heardIn' = [heardIn EXCEPT ![p] = epoch]
    /\ UNCHANGED <<logVars, deviceVars, runs, since, page, batch>>

(* The head that was heard covers all that has been read.                  *)
HeadOfNonempty(p) == head[p] > 0
HeadCovers(p) == head[p] >= lastApplied

(* Read the applied watermark, and compare.                                *)
CheckLogReset(p) ==
    /\ pc[p] = "check"
    /\ IF HeadCovers(p)
       THEN End(p) /\ checked' = heardIn[p]
       ELSE /\ pc' = [pc EXCEPT ![p] = "reset"]
            /\ UNCHANGED <<checked, runs, since, page, batch, head, heardIn>>
    /\ UNCHANGED <<logVars, build, lastApplied, stored>>

(* Rewind it, in a statement of its own.                                   *)
ResetApplied(p) ==
    /\ pc[p] = "reset"
    /\ lastApplied' = 0
    /\ checked' = heardIn[p]
    /\ End(p)
    /\ UNCHANGED <<logVars, build, stored>>

-----------------------------------------------------------------------------
(* A newer kabane is installed; a process that runs keeps the build it has.*)
Upgrade ==
    /\ build < MaxSchema
    /\ build' = build + 1
    /\ UNCHANGED <<logVars, lastApplied, stored, checked, procVars>>

ReadSome(p) == \E t \in 0 .. MaxSeq : Read(p, t)
ApplySome(p) == ApplyPage(p) \/ \E e \in page[p].ops : ApplyBefore(p, e)

Next ==
    \/ \E d \in Device, v \in Schema, n \in 1 .. MaxSeq : Publish(d, v, n)
    \/ \E k \in 0 .. MaxSeq : Restore(k)
    \/ Upgrade
    \/ \E p \in Proc :
        \/ BeginPull(p) \/ ReadSome(p) \/ ApplySome(p) \/ Stop(p)
        \/ \E h \in 1 .. MaxSeq : HearHead(p, h)
        \/ CheckLogReset(p) \/ ResetApplied(p)

Spec == Init /\ [][Next]_vars

(* Pulls are started again and again (a hook, the hub's alarm), not every  *)
(* one of them fails; a push that was acknowledged makes its check, and    *)
(* not every one dies before it rewinds.  Nobody is obliged to upgrade.    *)
Fairness ==
    \A p \in Proc :
        /\ SF_vars(BeginPull(p)) /\ SF_vars(ReadSome(p)) /\ SF_vars(ApplySome(p))
        /\ WF_vars(CheckLogReset(p)) /\ SF_vars(ResetApplied(p))

FairSpec == Spec /\ Fairness

-----------------------------------------------------------------------------
(* PROPERTIES                                                              *)

(* The watermark passes no row of another device that this device has not  *)
(* stored whole, whatever pages are cut short, whichever builds run side   *)
(* by side and however pulls overlap.  Holds while the log loses nothing.  *)
NothingMissed ==
    \A e \in log : Foreign(e) /\ e.seq <= lastApplied => e \in stored

(* The watermark goes back only when a push rewinds it, and then to 0:     *)
(* two pulls that overlap do not take it back.                             *)
BackOnlyToRewind ==
    [][lastApplied' < lastApplied =>
        lastApplied' = 0 /\ \E p \in Proc : pc[p] = "reset" /\ pc'[p] = "idle"]_vars

(* Every row of another device arrives, unless one at or before it needs a *)
(* newer build than is installed: no page, not one of nothing but the      *)
(* device's own ops, is read for ever.                                     *)
Blocked(e) == \E f \in log : Foreign(f) /\ f.seq <= e.seq /\ f.schema > build
CaughtUp == <>[](\A e \in log : Foreign(e) /\ ~Blocked(e) => e \in stored)

(* A head below the applied watermark means the log lost rows: the         *)
(* watermark is rewound only after a wipe or a restore.                    *)
RewoundOnlyAfterLoss == [][lastApplied' < lastApplied => epoch > 0]_vars

(* After the log is rolled back, the next push sees it and rewinds: once a *)
(* push acknowledged since has made its check, the watermark again passes  *)
(* nothing that was not stored.                                            *)
RewoundByNextPush == checked = epoch => NothingMissed

(* A device that goes on pushing does not keep a watermark above the log,  *)
(* where it would read nothing new: one push may come too early, or a pull *)
(* in flight undo its rewind, but after the last restore a rewind stays.   *)
PushesGoOn == []<><<\E p \in Proc : CheckLogReset(p)>>_vars
BackWithinLog == PushesGoOn => <>[](lastApplied <= auto)
=============================================================================
