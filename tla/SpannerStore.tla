---------------------------- MODULE SpannerStore ----------------------------
(***************************************************************************)
(* One user's rows in Cloud Spanner, and the transactions the server's     *)
(* database sessions hold on them.                                         *)
(*                                                                         *)
(* The tables (spanner-2019-10-01.ddl) are state of an external service.   *)
(* They are modelled by the promises the server's code relies on and       *)
(* quotes: a read-only transaction reads one snapshot; statements of a     *)
(* read-write transaction see the committed rows and the transaction's own *)
(* writes; "If a transaction successfully commits, then no other writer    *)
(* modified the data that was read in the transaction after it was read"   *)
(* (create_collection_async); mutations are buffered and applied at Commit *)
(* after every statement (touch_collection_async).  Any read-write         *)
(* transaction may be aborted at any time.                                 *)
(*                                                                         *)
(* The session's side (begin, commit, rollback, the buffered mutations) is *)
(* SpannerDb's code.  A transaction is a record:                           *)
(*   mode   "none", "ro", "rw", or "dead" once Spanner aborted it          *)
(*   reads  keys of user_collections it read; rows: keys of bsos it read   *)
(*   wc, wb rows it wrote with statements (NotSet: not written); a         *)
(*          read-only transaction keeps its snapshot there                 *)
(*   mut    buffered mutations of bsos, one per row                        *)
(*                                                                         *)
(* Times are SyncTimestamps counted in 10 ms units, the resolution at      *)
(* which the code compares them.                                           *)
(***************************************************************************)
EXTENDS Integers

CONSTANTS
    Clients,      \* requests in progress, each with a pooled session of its own
    Collections,  \* the user's collections, the tombstone excluded
    Tombstone,    \* collection id 0
    Ids,          \* BSO ids
    Vals,         \* contents of a BSO (payload and sortindex together)
    MaxTime       \* bound on the clock

ASSUME CollectionsAssumption == Collections # {} /\ Tombstone \notin Collections
ASSUME ValsAssumption == Vals \subseteq Nat /\ 0 \in Vals
ASSUME MaxTimeAssumption == MaxTime \in Nat \ {0}

VARIABLES
    now,  \* Spanner's CURRENT_TIMESTAMP()
    uc,   \* user_collections: modified of each collection, or Absent
    bso,  \* bsos: a row, or NoRow
    txn   \* each session's transaction

storeVars == <<now, uc, bso, txn>>

CollKeys == Collections \cup {Tombstone}

NotSet   == -2   \* a row not written, a column not supplied
Absent   == -1   \* no such row
PRETOUCH == 0    \* PRETOUCH_TS, the parent row of a batch with no BSOs yet

Row       == [mod : 1..MaxTime, exp : Nat, val : Vals]
NoRow     == [mod |-> Absent, exp |-> 0, val |-> 0]
NotStaged == [mod |-> NotSet, exp |-> 0, val |-> 0]

\* A buffered mutation; an update leaves the columns it does not name NotSet.
Insert == [op : {"insert"}, mod : 1..MaxTime, exp : Nat, val : Vals]
Update == [op : {"update"}, mod : 1..MaxTime \cup {NotSet},
           exp : Nat \cup {NotSet}, val : Vals \cup {NotSet}]
NoMutation == [op |-> "none", mod |-> NotSet, exp |-> NotSet, val |-> NotSet]
Mutation == Insert \cup Update \cup {NoMutation}

Txn == [mode  : {"none", "ro", "rw", "dead"},
        reads : SUBSET CollKeys,
        rows  : SUBSET (Collections \X Ids),
        wc    : [CollKeys -> NotSet..MaxTime],
        wb    : [Collections -> [Ids -> Row \cup {NoRow, NotStaged}]],
        mut   : [Collections -> [Ids -> Mutation]]]

NothingWritten == [k \in CollKeys |-> NotSet]
NothingStaged  == [c \in Collections |-> [i \in Ids |-> NotStaged]]
NothingBuffered == [c \in Collections |-> [i \in Ids |-> NoMutation]]

EmptyTxn(mode) == [mode |-> mode, reads |-> {}, rows |-> {},
                   wc |-> NothingWritten, wb |-> NothingStaged,
                   mut |-> NothingBuffered]
NoTxn   == EmptyTxn("none")
DeadTxn == EmptyTxn("dead")

-----------------------------------------------------------------------------
(* What a transaction sees. *)

CollView(t, k)   == IF t.wc[k] = NotSet THEN uc[k] ELSE t.wc[k]
BsoView(t, c, i) == IF t.wb[c][i].mod = NotSet THEN bso[c][i] ELSE t.wb[c][i]

Present(row) == row.mod # Absent

\* expiry > CURRENT_TIMESTAMP(), which every read of bsos asks for.
Visible(row) == Present(row) /\ row.exp > now

-----------------------------------------------------------------------------
(* begin_async: the session's next transaction replaces the current one.   *)

\* Mutant of BeginRead: every statement of a read reads on its own.
BeginReadAnew == EmptyTxn("ro")

BeginRead  == [EmptyTxn("ro") EXCEPT !.wc = uc, !.wb = bso]
BeginWrite == EmptyTxn("rw")

\* The transaction after reading rows ks of user_collections and rs of bsos.
Reading(t, ks, rs) == [t EXCEPT !.reads = @ \cup ks, !.rows = @ \cup rs]

-----------------------------------------------------------------------------
(* What the handlers' statements and mutations write in a transaction. *)

DefaultTtl == MaxTime + 1   \* DEFAULT_BSO_TTL, 2100000000 s: past every bound

CollTimestamp(t, c) ==
    IF CollView(t, c) > PRETOUCH THEN CollView(t, c) ELSE 0

\* Mutant of Touched: a missing row is inserted, an existing one not updated.
TouchedWhenMissing(t, c, ts) ==
    [t EXCEPT !.reads = @ \cup {c}, !.wc[c] = IF uc[c] = Absent THEN ts ELSE @]

\* touch_collection: the collection takes the session's timestamp.
Touched(t, c, ts) == [t EXCEPT !.reads = @ \cup {c}, !.wc[c] = ts]

Expiry(ts, ttl) == ts + (IF ttl = NotSet THEN DefaultTtl ELSE ttl)

\* Mutant of InsertRow: no default for a missing payload.
InsertRowNoDefault(body, ts) ==
    [op |-> "insert", mod |-> ts, exp |-> Expiry(ts, body.ttl), val |-> body.val]

InsertRow(body, ts) ==
    [op |-> "insert", mod |-> ts, exp |-> Expiry(ts, body.ttl),
     val |-> IF body.val = NotSet THEN 0 ELSE body.val]

\* A ttl alone moves the expiry and leaves modified as it was.
UpdateRow(body, ts) ==
    [op |-> "update",
     mod |-> IF body.val = NotSet THEN NotSet ELSE ts,
     exp |-> IF body.ttl = NotSet THEN NotSet ELSE ts + body.ttl,
     val |-> body.val]

\* Mutant of Buffering: an expired BSO counts as missing.
BufferingVisible(t, c, ids, body, ts) ==
    [t EXCEPT !.mut[c] =
        [i \in Ids |-> IF i \notin ids THEN @[i]
                       ELSE IF Visible(BsoView(t, c, i)) THEN UpdateRow(body, ts)
                       ELSE InsertRow(body, ts)]]

\* The mutations that write body to the rows ids of c, present or not.
Buffering(t, c, ids, body, ts) ==
    [t EXCEPT !.mut[c] =
        [i \in Ids |-> IF i \notin ids THEN @[i]
                       ELSE IF Present(BsoView(t, c, i)) THEN UpdateRow(body, ts)
                       ELSE InsertRow(body, ts)]]

\* The rows ids of c deleted by a statement, whether they exist or not.
DeletedRows(t, c, ids) ==
    [t EXCEPT !.rows = @ \cup ({c} \X ids),
              !.wb[c] = [i \in Ids |-> IF i \in ids THEN NoRow ELSE @[i]]]

\* The collection's row goes, its BSOs with it (ON DELETE CASCADE), and the
\* tombstone takes the session's timestamp.
DeletedCollection(t, c, ts) ==
    [DeletedRows(t, c, Ids) EXCEPT !.wc[c] = Absent, !.wc[Tombstone] = ts]

-----------------------------------------------------------------------------
(* Commit: the statements' writes, then the mutations. *)

Mutated(m, row) ==
    CASE m.op = "none"   -> row
      [] m.op = "insert" -> [mod |-> m.mod, exp |-> m.exp, val |-> m.val]
      [] m.op = "update" -> [mod |-> IF m.mod = NotSet THEN row.mod ELSE m.mod,
                             exp |-> IF m.exp = NotSet THEN row.exp ELSE m.exp,
                             val |-> IF m.val = NotSet THEN row.val ELSE m.val]

\* An INSERT of a row that exists is ALREADY_EXISTS, an UPDATE of a missing
\* one NOT_FOUND, and a row of bsos needs its parent in user_collections.
MutationsApply(t) ==
    \A c \in Collections, i \in Ids :
        /\ t.mut[c][i].op = "insert" => /\ ~Present(BsoView(t, c, i))
                                        /\ CollView(t, c) # Absent
        /\ t.mut[c][i].op = "update" => Present(BsoView(t, c, i))

CollAfter(t, k)   == CollView(t, k)
RowAfter(t, c, i) == Mutated(t.mut[c][i], BsoView(t, c, i))

CollsWritten(t) == {k \in CollKeys : t.wc[k] # NotSet}
RowsWritten(t)  == {x \in Collections \X Ids :
                        \/ t.wb[x[1]][x[2]].mod # NotSet
                        \/ t.mut[x[1]][x[2]].op # "none"}

\* A read-write transaction one of whose reads is overwritten cannot commit.
Overwritten(t, ks, rs) ==
    t.mode = "rw" /\ (t.reads \cap ks # {} \/ t.rows \cap rs # {})

Commit(p) ==
    LET t == txn[p] IN
    /\ uc' = [k \in CollKeys |-> CollAfter(t, k)]
    /\ bso' = [c \in Collections |-> [i \in Ids |-> RowAfter(t, c, i)]]
    /\ txn' = [q \in Clients |->
                 IF q = p THEN NoTxn
                 ELSE IF Overwritten(txn[q], CollsWritten(t), RowsWritten(t))
                      THEN DeadTxn ELSE txn[q]]
    /\ UNCHANGED now

\* The session gives its transaction up: rollback, or the session is dropped.
Discard(p) ==
    /\ txn' = [txn EXCEPT ![p] = NoTxn]
    /\ UNCHANGED <<now, uc, bso>>

-----------------------------------------------------------------------------
(* What happens to the store without a request. *)

Tick ==
    /\ now < MaxTime
    /\ now' = now + 1
    /\ UNCHANGED <<uc, bso, txn>>

\* Spanner aborts a read-write transaction for reasons of its own.
SpannerAbort(p) ==
    /\ txn[p].mode = "rw"
    /\ txn' = [txn EXCEPT ![p] = DeadTxn]
    /\ UNCHANGED <<now, uc, bso>>

\* purge_ttl: DELETE FROM bsos WHERE expiry < CURRENT_TIMESTAMP(); the row's
\* collection is not touched.  Its chunks and partitions are told apart by no
\* property: each row goes in a step of its own.
PurgeRow(c, i) ==
    /\ Present(bso[c][i])
    /\ bso[c][i].exp < now
    /\ bso' = [bso EXCEPT ![c][i] = NoRow]
    /\ txn' = [q \in Clients |-> IF Overwritten(txn[q], {}, {<<c, i>>})
                                 THEN DeadTxn ELSE txn[q]]
    /\ UNCHANGED <<now, uc>>

StoreInit ==
    /\ now = 1
    /\ uc = [k \in CollKeys |-> Absent]
    /\ bso = [c \in Collections |-> [i \in Ids |-> NoRow]]
    /\ txn = [p \in Clients |-> NoTxn]

StoreTypeOK ==
    /\ now \in 1..MaxTime
    /\ uc \in [CollKeys -> Absent..MaxTime]
    /\ bso \in [Collections -> [Ids -> Row \cup {NoRow}]]
    /\ txn \in [Clients -> Txn]
=============================================================================
