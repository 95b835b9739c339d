----------------------------- MODULE MysqlStore -----------------------------
(***************************************************************************)
(* One user's rows in MySQL, and the transactions of the server's sessions *)
(* on them.                                                                *)
(*                                                                         *)
(* InnoDB is external and modelled by what the code relies on (comment of  *)
(* lock_for_read_sync: "explicitly lock the matching row"): an exclusive   *)
(* row lock excludes every other lock of the row and a share lock every    *)
(* exclusive one; locking a missing row locks the gap it would be in,      *)
(* which others may lock too but not insert into; locks are held until the *)
(* transaction ends; locking reads and writes see the last committed rows, *)
(* and plain reads of other transactions do not see uncommitted ones.      *)
(*                                                                         *)
(* A transaction is a record:                                              *)
(*   open   BEGIN was sent                                                 *)
(*   excl, share, gaps   keys of user_collections it has locked            *)
(*   rows   keys of bso it has locked; all: every key of the user's bsos   *)
(*   wc, wb rows it wrote (NotSet: not written)                            *)
(*                                                                         *)
(* Times are the web servers' clocks in the 10 ms units of SyncTimestamp.  *)
(* now is the clock that is ahead of the others.                           *)
(***************************************************************************)
EXTENDS Integers

CONSTANTS
    Clients,      \* requests in progress, each with a pooled connection
    Collections,  \* the user's collections, the tombstone excluded
    Tombstone,    \* collection id 0
    Ids,          \* BSO ids
    Vals,         \* contents of a BSO (payload and sortindex together)
    MaxTime       \* bound on the clock

ASSUME CollectionsAssumption == Collections # {} /\ Tombstone \notin Collections
ASSUME ValsAssumption == Vals \subseteq Nat /\ 0 \in Vals
ASSUME MaxTimeAssumption == MaxTime \in Nat \ {0}

VARIABLES
    now,  \* the furthest clock
    uc,   \* user_collections: modified of each collection, or Absent
    bso,  \* bso: a row, or NoRow
    txn   \* each session's transaction

CollKeys == Collections \cup {Tombstone}

NotSet == -2   \* a row not written, a column not supplied
Absent == -1   \* no such row

Row       == [mod : 1..MaxTime, exp : Nat, val : Vals]
NoRow     == [mod |-> Absent, exp |-> 0, val |-> 0]
NotStaged == [mod |-> NotSet, exp |-> 0, val |-> 0]

Txn == [open : BOOLEAN,
        excl : SUBSET CollKeys, share : SUBSET CollKeys, gaps : SUBSET CollKeys,
        rows : SUBSET (Collections \X Ids), all : BOOLEAN,
        wc   : [CollKeys -> NotSet..MaxTime],
        wb   : [Collections -> [Ids -> Row \cup {NoRow, NotStaged}]]]

NoTxn == [open |-> FALSE, excl |-> {}, share |-> {}, gaps |-> {},
          rows |-> {}, all |-> FALSE,
          wc |-> [k \in CollKeys |-> NotSet],
          wb |-> [c \in Collections |-> [i \in Ids |-> NotStaged]]]

Begun == [NoTxn EXCEPT !.open = TRUE]

CollView(t, k)   == IF t.wc[k] = NotSet THEN uc[k] ELSE t.wc[k]
BsoView(t, c, i) == IF t.wb[c][i].mod = NotSet THEN bso[c][i] ELSE t.wb[c][i]

Present(row) == row.mod # Absent

-----------------------------------------------------------------------------
(* Locks. *)

\* Nobody else has locked row k, in a way that excludes an exclusive lock.
Lockable(p, k)  == \A q \in Clients \ {p} : k \notin txn[q].excl \cup txn[q].share
Shareable(p, k) == \A q \in Clients \ {p} : k \notin txn[q].excl

\* Nobody else has locked the gap k would be inserted into.
Insertable(p, k) == \A q \in Clients \ {p} : k \notin txn[q].gaps

\* Nobody else has locked one of the rows xs of bso.
RowsFree(p, xs) ==
    \A q \in Clients \ {p} : xs # {} => xs \cap txn[q].rows = {} /\ ~txn[q].all

\* SELECT ... FOR UPDATE and LOCK IN SHARE MODE: the row, or the gap.
LockedForWrite(k) ==
    IF uc[k] = Absent THEN [Begun EXCEPT !.gaps = {k}] ELSE [Begun EXCEPT !.excl = {k}]
LockedForRead(k) ==
    IF uc[k] = Absent THEN [Begun EXCEPT !.gaps = {k}] ELSE [Begun EXCEPT !.share = {k}]

\* Mutant of Upsertable: inserting into a gap others locked.
UpsertableInGap(p, k) == Lockable(p, k)

\* An upsert of row k goes through.
Upsertable(p, k) ==
    Lockable(p, k) /\ (CollView(txn[p], k) = Absent => Insertable(p, k))

-----------------------------------------------------------------------------
(* What statements write in a transaction. *)

\* touch_collection, erect_tombstone: INSERT ... ON DUPLICATE KEY UPDATE.
Touched(t, k, ts) == [t EXCEPT !.excl = @ \cup {k}, !.wc[k] = ts]

DefaultTtl == MaxTime + 1   \* DEFAULT_BSO_TTL, 2100000000 s: past every bound

Expiry(ts, ttl) == ts + (IF ttl = NotSet THEN DefaultTtl ELSE ttl)

\* Mutant of Upserted: no default for a missing payload.
UpsertedNoDefault(row, body, ts) ==
    [mod |-> ts, exp |-> Expiry(ts, body.ttl), val |-> body.val]

\* Mutant of Upserted: every column of the VALUES replaces the old one.
UpsertedWhole(row, body, ts) ==
    [mod |-> ts, exp |-> Expiry(ts, body.ttl),
     val |-> IF body.val = NotSet THEN 0 ELSE body.val]

\* put_bso: an existing row, expired or not, takes the columns supplied.
Upserted(row, body, ts) ==
    IF ~Present(row)
    THEN [mod |-> ts, exp |-> Expiry(ts, body.ttl),
          val |-> IF body.val = NotSet THEN 0 ELSE body.val]
    ELSE [mod |-> IF body.val = NotSet THEN row.mod ELSE ts,
          exp |-> IF body.ttl = NotSet THEN row.exp ELSE ts + body.ttl,
          val |-> IF body.val = NotSet THEN row.val ELSE body.val]

Putting(t, c, ids, body, ts) ==
    [t EXCEPT !.rows = @ \cup ({c} \X ids),
              !.wb[c] = [i \in Ids |-> IF i \in ids
                                       THEN Upserted(BsoView(t, c, i), body, ts)
                                       ELSE @[i]]]

DeletedRows(t, c, ids) ==
    [t EXCEPT !.rows = @ \cup ({c} \X ids),
              !.wb[c] = [i \in Ids |-> IF i \in ids THEN NoRow ELSE @[i]]]

DeletedColl(t, c) == [t EXCEPT !.excl = @ \cup {c}, !.wc[c] = Absent]

-----------------------------------------------------------------------------
(* The end of a transaction.  No program of the repository purges expired *)
(* rows of MySQL.                                                        *)

Commit(p) ==
    /\ uc' = [k \in CollKeys |-> CollView(txn[p], k)]
    /\ bso' = [c \in Collections |-> [i \in Ids |-> BsoView(txn[p], c, i)]]
    /\ txn' = [txn EXCEPT ![p] = NoTxn]
    /\ UNCHANGED now

Rollback(p) ==
    /\ txn' = [txn EXCEPT ![p] = NoTxn]
    /\ UNCHANGED <<now, uc, bso>>

Tick == now < MaxTime /\ now' = now + 1 /\ UNCHANGED <<uc, bso, txn>>

StoreInit ==
    /\ now = 1
    /\ uc = [k \in CollKeys |-> Absent]
    /\ bso = [c \in Collections |-> [i \in Ids |-> NoRow]]
    /\ txn = [p \in Clients |-> NoTxn]

StoreTypeOK ==
    /\ now \in 1..MaxTime
    /\ uc \in [CollKeys -> Absent..MaxTime]
    /\ bso \in [Collections -> [Ids -> Row \cup {NoRow}]]
    /\ txn \in [Clients -> Txn]
=============================================================================
