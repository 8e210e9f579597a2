---------------------------- MODULE Replication ----------------------------
(***************************************************************************)
(* Devices that edit the same rows, offline from each other, and exchange  *)
(* what they did through one totally ordered log.                          *)
(*                                                                         *)
(* A user's write changes the local row and captures a snapshot of it; a   *)
(* delete captures a delete for every row the cascade removes.  Captured   *)
(* ops reach the log in order (module OplogPush shows why) and every       *)
(* device applies, page by page, the ops of the others (PullSession).  A   *)
(* page is one transaction.  Two pulls of one device may overlap, and a    *)
(* rewind reads again from the start, so a page may be applied that has    *)
(* been applied before.                                                    *)
(*                                                                         *)
(* Two rows may be of one natural key, which a database holds once, and    *)
(* two devices may give two tasks one label (short id), which is then      *)
(* minted anew for one of them.                                            *)
(*                                                                         *)
(* Abstracted: a page delivers at most Limit consecutive ops, so a page    *)
(* read long before it is applied is a shorter page.  Clocks: every device *)
(* reads one clock, to the millisecond, so two may write in the same one.  *)
(* Labels are of one prefix.  A row's parent does not change, and projects *)
(* are left out.                                                           *)
(***************************************************************************)
EXTENDS Resolve, Sequences, SequencesExt

CONSTANTS
    Device,     \* device ids
    Actor,      \* Actor[d]: the actor every write on d is made by
    Row,        \* row ids
    NoParent,
    Plans,      \* what the rows are, and the BOUNDS: writes, milliseconds, labels
    Limit,      \* ops per page
    Overlap,    \* whether a page may be applied again
    EditsComments  \* whether users edit comments

(* The tables by how they resolve: tasks (row LWW), comments and work log  *)
(* (append-only), links (natural key), context refs and upstream links     *)
(* (natural key, row LWW).                                                 *)
Table == {"task", "comment", "link", "ref"}

(* The table of each row, the task it belongs to, and its natural key, or  *)
(* 0 when it has none.                                                     *)
Plan == [table : [Row -> Table], parent : [Row -> Row \cup {NoParent}],
         key : [Row -> Nat], writes : Nat, clocks : Nat \ {0},
         labels : Nat]

(* Subtasks nest one level (task.ts:212, oplog.ts:209): what the schema    *)
(* says of a parent, which no code refuses to break.                       *)
ASSUME ReplicationAssumption ==
    /\ Device \subseteq Nat /\ Device # {}
    /\ Actor \in [Device -> Nat]
    /\ Row \subseteq Nat \ {0} /\ IsFiniteSet(Row)
    /\ NoParent \notin Row
    /\ Plans \subseteq Plan
    /\ \A p \in Plans, r \in Row :
        /\ p.parent[r] # NoParent => p.parent[r] < r /\ p.table[p.parent[r]] = "task"
        /\ p.table[r] = "task" /\ p.parent[r] # NoParent => p.parent[p.parent[r]] = NoParent
        /\ p.key[r] # 0 => p.table[r] \in {"link", "ref"}
    /\ Limit \in Nat \ {0}
    /\ Overlap \in BOOLEAN /\ EditsComments \in BOOLEAN

Clock == Nat \ {0}
RowState == [clock : Clock, version : Nat \ {0}, actor : Nat, label : Nat, val : Nat \ {0}]
Op == [dev : Device, row : Row, kind : {"write", "delete"}, clock : Clock,
       version : Nat, actor : Nat, label : Nat, val : Nat]

VARIABLES
    plan,      \* what the rows are
    now,       \* the time
    writes,    \* writes made so far; each write's val
    born,      \* the rows that have been created
    deleted,   \* history: the rows some user has deleted, cascades included
    rows,      \* rows[d][r]: what device d holds of row r
    counter,   \* counter[d]: the last label d issued, or knows of
    outbox,    \* outbox[d]: captured ops that are not in the log yet
    log,       \* the log; an op's server seq is its index
    applied    \* applied[d]: d's applied watermark

vars == <<plan, now, writes, born, deleted, rows, counter, outbox, log, applied>>

TypeOK ==
    /\ plan \in Plans
    /\ now \in 1 .. plan.clocks
    /\ writes \in 0 .. plan.writes
    /\ born \subseteq Row /\ deleted \subseteq born
    /\ rows \in [Device -> [Row -> RowState \cup {Absent}]]
    /\ counter \in [Device -> Nat]
    /\ outbox \in [Device -> Seq(Op)]
    /\ log \in Seq(Op)
    /\ applied \in [Device -> 0 .. Len(log)]

Init ==
    /\ plan \in Plans
    /\ now = 1
    /\ writes = 0
    /\ born = {} /\ deleted = {}
    /\ rows = [d \in Device |-> [r \in Row |-> Absent]]
    /\ counter = [d \in Device |-> 0]
    /\ outbox = [d \in Device |-> <<>>]
    /\ log = <<>>
    /\ applied = [d \in Device |-> 0]

Tasks == {r \in Row : plan.table[r] = "task"}
Parent(r) == plan.parent[r]
SameKey(r, s) == plan.key[r] # 0 /\ plan.key[r] = plan.key[s]

Has(d, r) == rows[d][r] # Absent

(* r and what the foreign keys remove with it: its comments, its subtasks  *)
(* and theirs (subtasks nest one level).                                   *)
Under(r) == {s \in Row :
    \/ s = r
    \/ Parent(s) = r
    \/ Parent(s) # NoParent /\ Parent(Parent(s)) = r}

Without(held, r) == [s \in Row |-> IF s \in Under(r) THEN Absent ELSE held[s]]

Highest(labels) == CHOOSE n \in labels \cup {0} : \A m \in labels : m <= n

-----------------------------------------------------------------------------
(* Writes by users.                                                        *)

(* The snapshot of a row that a write captures.                            *)
WriteOp(d, r, row) ==
    [dev |-> d, row |-> r, kind |-> "write", clock |-> row.clock, version |-> row.version,
     actor |-> row.actor, label |-> row.label, val |-> row.val]

DeleteOp(d, r) ==
    [dev |-> d, row |-> r, kind |-> "delete", clock |-> now, version |-> 0,
     actor |-> 0, label |-> 0, val |-> 0]

(* Write the row, stamped with the time and the actor, and capture it.     *)
WriteRow(d, r, version, label) ==
    LET row == [clock |-> now, version |-> version, actor |-> Actor[d],
                label |-> label, val |-> writes + 1]
    IN  /\ writes < plan.writes
        /\ writes' = writes + 1
        /\ rows' = [rows EXCEPT ![d][r] = row]
        /\ outbox' = [outbox EXCEPT ![d] = Append(@, WriteOp(d, r, row))]
        /\ UNCHANGED <<plan, now, deleted, log, applied>>

(* A row is created, under a parent the device holds; of a natural key     *)
(* when the device has none.  A task gets the next label.                  *)
Create(d, r) ==
    /\ r \notin born
    /\ Parent(r) # NoParent => Has(d, Parent(r))
    /\ \A s \in Row : SameKey(r, s) => ~Has(d, s)
    /\ counter' = IF r \in Tasks THEN [counter EXCEPT ![d] = @ + 1] ELSE counter
    /\ WriteRow(d, r, 1, IF r \in Tasks THEN counter'[d] ELSE 0)
    /\ born' = born \cup {r}

(* A task is edited; a ref or an upstream link is added again.             *)
Update(d, r) ==
    /\ Has(d, r)
    /\ plan.table[r] # "link"
    /\ plan.table[r] = "comment" => EditsComments
    /\ WriteRow(d, r, rows[d][r].version + 1, rows[d][r].label)
    /\ UNCHANGED <<born, counter>>

(* The rows the cascade removes, children before their parents.            *)
ChildrenFirst(S) ==
    CHOOSE q \in SetToSeqs(S) : \A i, j \in DOMAIN q : i < j => q[i] > q[j]
Cascade(d, r) == ChildrenFirst({s \in Under(r) : Has(d, s)})

(* The cascade is snapshot first; the delete and its captures are one      *)
(* transaction.                                                            *)
Delete(d, r) ==
    LET gone == Cascade(d, r)
    IN  /\ Has(d, r)
        /\ writes < plan.writes
        /\ writes' = writes + 1
        /\ rows' = [rows EXCEPT ![d] = Without(@, r)]
        /\ outbox' = [outbox EXCEPT ![d] =
                        @ \o [i \in 1 .. Len(gone) |-> DeleteOp(d, gone[i])]]
        /\ deleted' = deleted \cup {gone[i] : i \in 1 .. Len(gone)}
        /\ UNCHANGED <<plan, now, born, counter, log, applied>>

Tick ==
    /\ now < plan.clocks
    /\ now' = now + 1
    /\ UNCHANGED <<plan, writes, born, deleted, rows, counter, outbox, log, applied>>

-----------------------------------------------------------------------------
(* The exchange.                                                           *)

(* The log takes the device's next op.                                     *)
Push(d) ==
    /\ outbox[d] # <<>>
    /\ log' = Append(log, Head(outbox[d]))
    /\ outbox' = [outbox EXCEPT ![d] = Tail(@)]
    /\ UNCHANGED <<plan, now, writes, born, deleted, rows, counter, applied>>

(* Every parent the row needs is here.                                     *)
ParentPresent(held, r) == Parent(r) # NoParent => held[Parent(r)] # Absent

(* The other row that is held with r's natural key, or 0.                  *)
Holder(held, r) ==
    LET others == {s \in Row \ {r} : SameKey(r, s) /\ held[s] # Absent}
    IN  IF others = {} THEN 0 ELSE CHOOSE s \in others : TRUE

(* The row that holds a label another task comes with, or 0.               *)
LabelHolder(held, r, label) ==
    LET others == {s \in Tasks \ {r} : held[s] # Absent /\ held[s].label = label}
    IN  IF others = {} THEN 0 ELSE CHOOSE s \in others : TRUE

(* A free label: past every one held, and every one in the page.           *)
Mint(page) == 1 + Highest(page.labels \cup {page.held[s].label : s \in Row})

(* A task whose label another holds is written all the same: the row with  *)
(* the lower id keeps the label, the other gets a new one.                 *)
ApplyTask(page, op) ==
    LET row    == page.held[op.row]
        holder == LabelHolder(page.held, op.row, op.label)
        minted == Mint(page)
        named  == [page EXCEPT !.counter = Highest({@, minted})]
    IN  IF holder = 0 THEN [page EXCEPT !.held[op.row] = WithVersion(op, row)]
        ELSE IF holder < op.row
        THEN [named EXCEPT !.held[op.row] = [Content(op) EXCEPT !.label = minted]]
        ELSE [named EXCEPT !.held[holder].label = minted, !.held[op.row] = Content(op)]

(* A row of a natural key replaces the one that is held with it.           *)
Replace(held, old, r, content) ==
    [s \in Row |-> IF s = r THEN content ELSE IF s = old THEN Absent ELSE held[s]]

ApplyLink(page, op) ==
    LET holder == Holder(page.held, op.row)
        local  == IF holder = 0 THEN Absent ELSE page.held[holder]
    IN  [page EXCEPT !.held = Replace(@, holder, op.row, WithVersion(op, local))]

ApplyRef(me, page, op) ==
    LET local == IF page.held[op.row] # Absent THEN op.row ELSE Holder(page.held, op.row)
        kept  == Survivor(op, local)
    IN  IF local = 0 THEN [page EXCEPT !.held[op.row] = WithVersion(op, Absent)]
        ELSE [page EXCEPT !.held =
                Replace(@, local, kept, Merged(op, local, @[local], me))]

(* A write of a page is skipped, or applied by the rule of its table.      *)
ApplyWrite(me, page, op) ==
    LET r == op.row
        row == page.held[r]
        deletedAt == page.deletedAt[r]
    IN  IF ~ParentPresent(page.held, r) \/ KnownDeleted(op, row, deletedAt) THEN page
        ELSE CASE plan.table[r] = "task" ->
                    IF TakesRowLww(op, row, me, deletedAt) THEN ApplyTask(page, op) ELSE page
               [] plan.table[r] = "comment" ->
                    IF TakesAppendOnly(op, row, deletedAt)
                    THEN [page EXCEPT !.held[r] = WithVersion(op, row)] ELSE page
               [] plan.table[r] = "link" ->
                    IF TakesDedupe(op, row, Holder(page.held, r), deletedAt)
                    THEN ApplyLink(page, op) ELSE page
               [] plan.table[r] = "ref" -> ApplyRef(me, page, op)

(* What is known of deletes is known for the page only; every delete in it *)
(* counts, applied or not.                                                 *)
ApplyDelete(page, op) ==
    [page EXCEPT !.held = IF TakesDelete(op, @[op.row]) THEN Without(@, op.row) ELSE @,
                 !.deletedAt[op.row] = op.clock]

ApplyOp(me, page, op) ==
    IF op.kind = "delete" THEN ApplyDelete(page, op) ELSE ApplyWrite(me, page, op)

(* The counter is raised past every label of the page.                     *)
ReservedNone(page) == page
Reserved(page) == [page EXCEPT !.counter = Highest({@} \cup page.labels)]

(* What device d starts the page of ops lo+1 .. hi with, its own ops       *)
(* withheld, and what it holds after it has applied them.                  *)
Opened(d, lo, hi) ==
    [held |-> rows[d], counter |-> counter[d],
     labels |-> {log[i].label : i \in {j \in lo + 1 .. hi : log[j].dev # d}},
     deletedAt |-> [r \in Row |-> 0]]

Applied(d, lo, hi) ==
    LET page[i \in lo .. hi] ==
            IF i = lo THEN Opened(d, lo, hi)
            ELSE IF log[i].dev = d THEN page[i - 1] ELSE ApplyOp(d, page[i - 1], log[i])
    IN  Reserved(page[hi])

(* SET last_applied_seq = MAX(last_applied_seq, ?), the last op's seq.     *)
Watermark(old, hi) == IF old < hi THEN hi ELSE old

(* Device d applies the page lo+1 .. hi, the next one or one it has        *)
(* applied before, in one transaction with its watermark.                  *)
Pull(d, lo, hi) ==
    /\ lo < applied[d] => Overlap
    /\ hi <= lo + Limit
    /\ \E page \in {Applied(d, lo, hi)} :
        /\ page.counter <= plan.labels
        /\ rows' = [rows EXCEPT ![d] = page.held]
        /\ counter' = [counter EXCEPT ![d] = page.counter]
    /\ applied' = [applied EXCEPT ![d] = Watermark(@, hi)]
    /\ UNCHANGED <<plan, now, writes, born, deleted, outbox, log>>

Next ==
    \/ Tick
    \/ \E d \in Device :
        \/ \E r \in Row : Create(d, r) \/ Update(d, r) \/ Delete(d, r)
        \/ Push(d)
        \/ \E lo \in 0 .. applied[d] : \E hi \in lo + 1 .. Len(log) : Pull(d, lo, hi)

Spec == Init /\ [][Next]_vars

-----------------------------------------------------------------------------
(* PROPERTIES                                                              *)

(* Every op is in the log, and every device has applied the whole log.     *)
Quiet == \A d \in Device : outbox[d] = <<>> /\ applied[d] = Len(log)

Same(a, b) == a.clock = b.clock /\ a.val = b.val

Agree(r) == \A d, e \in Device : Same(rows[d][r], rows[e][r])

(* Any two devices that applied the same ops hold the same rows.           *)
RowsAgree == Quiet => \A r \in Row : Agree(r)

(* So they do for every row that was never deleted, nor its parents, nor a *)
(* row of its natural key: edits of two devices in the same millisecond,   *)
(* edits made offline, two rows for one key, pages applied twice and       *)
(* deletes of other rows notwithstanding.  Only two refs of one key must   *)
(* not be written in the same millisecond.                                 *)
Untouched(r) == \A s \in deleted : r \notin Under(s) /\ ~SameKey(r, s)
Untied(r) == \A i, j \in 1 .. Len(log) :
    /\ SameKey(log[i].row, r) /\ SameKey(log[j].row, r) /\ plan.table[r] = "ref"
    /\ log[i].clock = log[j].clock
    => i = j
KeptRowsAgree == Quiet => \A r \in Row : Untouched(r) /\ Untied(r) => Agree(r)

(* Any two devices give a task the same label.                             *)
LabelsAgree ==
    Quiet /\ deleted = {} =>
        \A d, e \in Device, r \in Tasks : rows[d][r].label = rows[e][r].label

(* A task's last edit survives on every device when it is later than every *)
(* delete of the task and no parent of it was deleted: neither an earlier  *)
(* edit nor an earlier delete, read late or twice, undoes it.              *)
LatestEditSurvives ==
    Quiet => \A i \in 1 .. Len(log) :
        LET op == log[i]
        IN  /\ op.row \in Tasks /\ op.kind = "write"
            /\ \A s \in deleted : op.row \in Under(s) => s = op.row
            /\ \A j \in 1 .. Len(log) :
                    log[j].row = op.row /\ log[j].kind = "delete" => log[j].clock < op.clock
            => \A d \in Device : rows[d][op.row].clock >= op.clock

(* No row is held without its parent...                                    *)
NoOrphans ==
    \A d \in Device, r \in Row : Has(d, r) /\ Parent(r) # NoParent => Has(d, Parent(r))

(* ... nor two of one natural key, nor two tasks of one label, and the     *)
(* label a device issues next is held by none.                             *)
OneRowPerKey ==
    \A d \in Device, r, s \in Row : Has(d, r) /\ Has(d, s) /\ SameKey(r, s) => r = s
OneTaskPerLabel ==
    \A d \in Device : \A r, s \in Tasks :
        Has(d, r) => /\ rows[d][r].label <= counter[d]
                     /\ Has(d, s) /\ rows[d][r].label = rows[d][s].label => r = s

(* The database's constraints hold in every state a page or a write leaves *)
(* (apply.ts:400-420, 532-566): one that failed would fail the page, and   *)
(* every later pull at the same page.                                      *)
ConstraintsHold == NoOrphans /\ OneRowPerKey /\ OneTaskPerLabel

(* Applying a page again, with whatever the device has written since,      *)
(* changes no row that is kept, but for its label.                         *)
Unlabelled(row) == [row EXCEPT !.label = 0]
RereadChangesNothing ==
    [][applied' = applied /\ writes' = writes /\ rows' # rows =>
        \A d \in Device, r \in Row :
            Unlabelled(rows'[d][r]) = Unlabelled(rows[d][r]) \/ ~Untouched(r)]_vars
=============================================================================
