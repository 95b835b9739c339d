------------------------- MODULE MysqlBatch_proofs -------------------------
(***************************************************************************)
(* Proofs about batch uploads on MySQL: type correctness, that a batch is  *)
(* committed once, and that its commit stores every record it acknowledged *)
(* where the collection had a row to lock.                                 *)
(*                                                                         *)
(* The inductive invariant, BatchInv, says                                 *)
(*   that locks exclude each other (Exclusive, GapsAreEmpty, RowLocks),    *)
(*   that the history of acknowledged records is what the batches hold     *)
(*     (AcknowledgedIsHeld),                                               *)
(*   and of each request what its transaction has locked and written       *)
(*     (Holding), what its snapshot still says (Seen), what it did to its  *)
(*     batch (Changed) and, when the batch is stored, which contents its   *)
(*     commit will leave (Stored); of one that lost its transaction, that  *)
(*     it has locked nothing and changes rows at once (Alone, OnItsOwn).   *)
(* A batch of a snapshot may be gone where some request goes on without a  *)
(* transaction (torn), which is why StoredOnce excepts these collections.  *)
(***************************************************************************)
EXTENDS MysqlBatch, WellFoundedInduction, TLAPS

USE DEF NotSet, Absent

-----------------------------------------------------------------------------
(* What the operators of MysqlStore do to transactions and rows. *)

\* The columns a write may supply.
Columns == [val : Vals \cup {NotSet}, ttl : Nat \cup {NotSet}]

\* No transaction has locked a row another one has locked exclusively, nor the
\* gap it is inserted into.
Locked(t) == t.excl \cup t.share \cup t.gaps

Exclusive ==
    \A p, q \in Clients : p # q => txn[p].excl \cap Locked(txn[q]) = {}

-----------------------------------------------------------------------------
(* The fields of the transactions. *)

Fields(t, excl, share, gaps, rows, all, wc, wb) ==
    /\ t \in Txn /\ t.excl = excl /\ t.share = share /\ t.gaps = gaps
    /\ t.rows = rows /\ t.all = all /\ t.wc = wc /\ t.wb = wb

LEMMA BegunFields ==
  /\ NoTxn \in Txn /\ Begun \in Txn
  /\ Begun.open = TRUE
  /\ \A t \in {NoTxn, Begun} :
        /\ t.excl = {} /\ t.share = {} /\ t.gaps = {} /\ t.rows = {} /\ t.all = FALSE
        /\ t.wc = [k \in CollKeys |-> NotSet]
        /\ t.wb = [c \in Collections |-> [i \in Ids |-> NotStaged]]
<1>1. /\ NoTxn.open \in BOOLEAN /\ NoTxn.excl = {} /\ NoTxn.share = {} /\ NoTxn.gaps = {}
      /\ NoTxn.rows = {} /\ NoTxn.all = FALSE
      /\ NoTxn.wc = [k \in CollKeys |-> NotSet]
      /\ NoTxn.wb = [c \in Collections |-> [i \in Ids |-> NotStaged]]
  BY DEF NoTxn
<1>2. NoTxn \in Txn
  <2>1. -2 \in (-2)..MaxTime
    BY MaxTimeAssumption
  <2>. QED
    BY <2>1 DEF NoTxn, Txn
<1>3. Begun \in Txn /\ Begun.open = TRUE
  BY <1>2 DEF Begun, Txn
<1>4. /\ Begun.excl = NoTxn.excl /\ Begun.share = NoTxn.share /\ Begun.gaps = NoTxn.gaps
      /\ Begun.rows = NoTxn.rows /\ Begun.all = NoTxn.all /\ Begun.wc = NoTxn.wc
      /\ Begun.wb = NoTxn.wb
  BY <1>2 DEF Begun, Txn
<1>. QED
  BY <1>1, <1>2, <1>3, <1>4

LEMMA LockedFields ==
  ASSUME NEW k \in CollKeys, NEW t \in {LockedForWrite(k), LockedForRead(k)}
  PROVE  /\ t \in Txn /\ t.rows = {} /\ t.all = FALSE
         /\ t.gaps = IF uc[k] = Absent THEN {k} ELSE {}
         /\ t.wc = [l \in CollKeys |-> NotSet]
         /\ t.wb = [c \in Collections |-> [i \in Ids |-> NotStaged]]
         /\ t = LockedForWrite(k) =>
               t.excl = (IF uc[k] = Absent THEN {} ELSE {k}) /\ t.share = {}
         /\ t = LockedForRead(k) =>
               t.share = (IF uc[k] = Absent THEN {} ELSE {k}) /\ t.excl = {}
<1>. DEFINE gap   == [Begun EXCEPT !.gaps = {k}]
            excl  == [Begun EXCEPT !.excl = {k}]
            share == [Begun EXCEPT !.share = {k}]
<1>1. /\ gap \in Txn /\ gap.rows = {} /\ gap.all = FALSE /\ gap.gaps = {k} /\ gap.excl = {}
      /\ gap.share = {} /\ gap.wc = [l \in CollKeys |-> NotSet]
      /\ gap.wb = [c \in Collections |-> [i \in Ids |-> NotStaged]]
  BY BegunFields DEF Txn
<1>2. /\ excl \in Txn /\ excl.rows = {} /\ excl.all = FALSE /\ excl.gaps = {}
      /\ excl.excl = {k} /\ excl.share = {} /\ excl.wc = [l \in CollKeys |-> NotSet]
      /\ excl.wb = [c \in Collections |-> [i \in Ids |-> NotStaged]]
  BY BegunFields DEF Txn
<1>3. /\ share \in Txn /\ share.rows = {} /\ share.all = FALSE /\ share.gaps = {}
      /\ share.excl = {} /\ share.share = {k} /\ share.wc = [l \in CollKeys |-> NotSet]
      /\ share.wb = [c \in Collections |-> [i \in Ids |-> NotStaged]]
  BY BegunFields, SMTT(30) DEF Txn
<1>4. /\ LockedForWrite(k) = IF uc[k] = Absent THEN gap ELSE excl
      /\ LockedForRead(k) = IF uc[k] = Absent THEN gap ELSE share
  BY DEF LockedForWrite, LockedForRead
<1>. HIDE DEF gap, excl, share
<1>5. excl # share
  BY <1>2, <1>3
<1>6. CASE uc[k] = Absent
  BY <1>1, <1>4, <1>6
<1>7. CASE uc[k] # Absent
  <2>1. LockedForWrite(k) = excl /\ LockedForRead(k) = share
    BY <1>4, <1>7
  <2>. QED
    BY <1>2, <1>3, <1>5, <1>7, <2>1
<1>. QED
  BY <1>6, <1>7

LEMMA UpsertedType ==
  ASSUME NEW row \in Row \cup {NoRow}, NEW body \in Columns, NEW ts \in 1..MaxTime
  PROVE  /\ Upserted(row, body, ts) \in Row
         /\ Upserted(row, body, ts).mod \in {row.mod, ts}
         /\ Upserted(row, body, ts).mod # Absent
<1>. DEFINE new == [mod |-> ts, exp |-> Expiry(ts, body.ttl),
                    val |-> IF body.val = NotSet THEN 0 ELSE body.val]
            old == [mod |-> IF body.val = NotSet THEN row.mod ELSE ts,
                    exp |-> IF body.ttl = NotSet THEN row.exp ELSE ts + body.ttl,
                    val |-> IF body.val = NotSet THEN row.val ELSE body.val]
<1>1. /\ body.val \in Vals \cup {NotSet} /\ body.ttl \in Nat \cup {NotSet}
      /\ ts \in Nat /\ MaxTime \in Nat /\ Vals \subseteq Nat /\ 0 \in Vals
  BY ValsAssumption, MaxTimeAssumption DEF Columns
<1>2. Expiry(ts, body.ttl) \in Nat
  BY <1>1 DEF Expiry, DefaultTtl
<1>3. new \in Row /\ new.mod = ts /\ new.mod # Absent
  BY <1>1, <1>2 DEF Row
<1>4. CASE Present(row)
  <2>1. row \in Row
    BY <1>4 DEF Present, NoRow
  <2>2. old \in Row /\ old.mod \in {row.mod, ts} /\ old.mod # Absent
    <3>1. row.mod \in 1..MaxTime /\ row.exp \in Nat /\ row.val \in Vals
      BY <2>1 DEF Row
    <3>2. (IF body.ttl = NotSet THEN row.exp ELSE ts + body.ttl) \in Nat
      BY <1>1, <3>1
    <3>3. (IF body.val = NotSet THEN row.val ELSE body.val) \in Vals
      BY <1>1, <3>1
    <3>4. (IF body.val = NotSet THEN row.mod ELSE ts) \in 1..MaxTime
      BY <3>1
    <3>. QED
      BY <3>1, <3>2, <3>3, <3>4, MaxTimeAssumption DEF Row
  <2>3. Upserted(row, body, ts) = old
    BY <1>4 DEF Upserted
  <2>. HIDE DEF old
  <2>. QED
    BY <2>2, <2>3
<1>5. CASE ~Present(row)
  <2>1. Upserted(row, body, ts) = new
    BY <1>5 DEF Upserted
  <2>. HIDE DEF new
  <2>. QED
    BY <1>3, <2>1
<1>. QED
  BY <1>4, <1>5

(* A statement locks rows of a collection's BSOs and stages others. *)
Staging(w, c, rows, wbc) == [w EXCEPT !.rows = @ \cup rows, !.wb[c] = wbc]

LEMMA StagedFields ==
  ASSUME NEW w \in Txn, NEW c \in Collections, NEW rows \in SUBSET (Collections \X Ids),
         NEW wbc \in [Ids -> Row \cup {NoRow, NotStaged}]
  PROVE  Fields(Staging(w, c, rows, wbc), w.excl, w.share, w.gaps, w.rows \cup rows, w.all,
                w.wc, [w.wb EXCEPT ![c] = wbc])
<1>. DEFINE wb == [w.wb EXCEPT ![c] = wbc]
            rs == w.rows \cup rows
            t  == Staging(w, c, rows, wbc)
<1>1. wb \in [Collections -> [Ids -> Row \cup {NoRow, NotStaged}]]
      /\ rs \in SUBSET (Collections \X Ids)
  BY DEF Txn
<1>2. t = [w EXCEPT !.rows = rs, !.wb = wb]
  BY DEF Staging, Txn
<1>. HIDE DEF wb, rs, t
<1>3. t \in Txn /\ t.rows = rs /\ t.wb = wb
  BY <1>1, <1>2 DEF Txn
<1>4. /\ t.excl = w.excl /\ t.share = w.share /\ t.gaps = w.gaps
      /\ t.all = w.all /\ t.wc = w.wc
  BY <1>2 DEF Txn
<1>. QED
  BY <1>3, <1>4 DEF wb, rs, t, Fields

(* What touch_collection, erect_tombstone and the deletion of a row stage. *)
LEMMA TouchedFields ==
  ASSUME NEW t \in Txn, NEW k \in CollKeys, NEW m \in Absent..MaxTime
  PROVE  Fields(Touched(t, k, m), t.excl \cup {k}, t.share, t.gaps, t.rows, t.all,
                [t.wc EXCEPT ![k] = m], t.wb)
<1>1. t.wc \in [CollKeys -> NotSet..MaxTime] /\ t.excl \in SUBSET CollKeys
  BY DEF Txn
<1>. DEFINE wc   == [t.wc EXCEPT ![k] = m]
            excl == t.excl \cup {k}
            v    == Touched(t, k, m)
<1>2. wc \in [CollKeys -> NotSet..MaxTime] /\ excl \in SUBSET CollKeys
  BY <1>1, MaxTimeAssumption
<1>3. v = [t EXCEPT !.excl = excl, !.wc = wc]
  BY <1>1 DEF Touched, Txn
<1>. HIDE DEF v, wc, excl
<1>4. /\ v \in Txn /\ v.excl = excl /\ v.share = t.share
      /\ v.gaps = t.gaps /\ v.rows = t.rows /\ v.all = t.all /\ v.wb = t.wb
      /\ v.wc = wc
  BY <1>2, <1>3 DEF Txn
<1>. QED
  BY <1>4, Zenon DEF v, wc, excl, Fields

(* What put_bso and post_bsos stage. *)
PutRows(w, c, ids, body, ts) ==
    [i \in Ids |-> IF i \in ids THEN Upserted(BsoView(w, c, i), body, ts) ELSE w.wb[c][i]]

LEMMA PuttingStages ==
  ASSUME StoreTypeOK, NEW c \in Collections, NEW ids \in SUBSET Ids, NEW body \in Columns,
         NEW ts \in 1..MaxTime, NEW w \in Txn
  PROVE  Fields(Putting(w, c, ids, body, ts), w.excl, w.share, w.gaps,
                w.rows \cup ({c} \X ids), w.all, w.wc,
                [w.wb EXCEPT ![c] = PutRows(w, c, ids, body, ts)])
<1>. DEFINE wbc  == PutRows(w, c, ids, body, ts)
            rows == {c} \X ids
<1>1. Putting(w, c, ids, body, ts) = Staging(w, c, rows, wbc)
  BY DEF Putting, Staging, PutRows
<1>2. wbc \in [Ids -> Row \cup {NoRow, NotStaged}]
  <2>1. \A i \in Ids : w.wb[c][i] \in Row \cup {NoRow, NotStaged}
                       /\ bso[c][i] \in Row \cup {NoRow}
    BY DEF Txn, StoreTypeOK
  <2>2. \A i \in Ids : BsoView(w, c, i) \in Row \cup {NoRow}
    BY <2>1 DEF BsoView, NotStaged
  <2>3. \A i \in Ids : Upserted(BsoView(w, c, i), body, ts) \in Row
    BY <2>2, UpsertedType
  <2>. QED
    BY <2>1, <2>3 DEF PutRows
<1>3. rows \in SUBSET (Collections \X Ids)
  OBVIOUS
<1>. HIDE DEF wbc, rows
<1>4. Fields(Staging(w, c, rows, wbc), w.excl, w.share, w.gaps, w.rows \cup rows, w.all,
             w.wc, [w.wb EXCEPT ![c] = wbc])
  BY <1>2, <1>3, StagedFields
<1>. QED
  BY <1>1, <1>4 DEF wbc, rows

-----------------------------------------------------------------------------
(* The invariant. *)

Entered(r)  == r.pc \in {"check", "find", "items", "touch", "apply", "delete", "commit"}
Read(r)     == r.pc \in {"find", "items", "touch", "apply", "delete", "commit"}
Alone(r)    == r.pc \in {"restamp", "reget", "alone", "stamp", "drop"}
Answered(r) == r.pc = "commit" /\ r.status = 202
Storing(r)  == r.pc = "delete" \/ (r.pc = "commit" /\ r.status = 200)

Asked(r) ==
    /\ r.pc # "idle" => r.ts \in 1..now
    /\ r.pc \in {"items", "touch", "apply", "delete", "commit"} => r.id \in BatchIds
    /\ r.pc = "commit" <=> r.status # 0
    /\ r.pc \in {"restamp", "reget", "alone", "stamp", "drop"} =>
          r.id \in BatchIds /\ r.coll \in torn

\* A transaction locks the row of its collection, or the gap it would be in,
\* and writes that row only once it has locked it.
Holding(r, t) ==
    IF ~Entered(r) THEN t = NoTxn
    ELSE /\ t.share = {} /\ t.excl \cup t.gaps = {r.coll}
         /\ t.wc[r.coll] \in {NotSet, r.ts}
         /\ t.wc[r.coll] # NotSet => r.coll \in t.excl
         /\ \A k \in CollKeys \ {r.coll} : t.wc[k] = NotSet

\* A batch that was there when the snapshot was taken is there still, unless some
\* request goes on without a transaction; if the collection had a row, a batch is
\* as the snapshot shows it or was deleted by such a request.
Seen(r, t, w) ==
    Read(r) =>
    /\ r.coll \in torn \/
          \A b \in BatchIds : w.snap[r.coll][b] # NoBatch => batch[r.coll][b] # NoBatch
    /\ r.coll \notin t.gaps =>
          \A b \in BatchIds : batch[r.coll][b] \in {w.snap[r.coll][b], NoBatch}

Unchanged(w) == w.lock = {} /\ ~w.mine

Created(r, w) ==
    /\ w.lock = {r.id} /\ w.mine
    /\ w.row # NoBatch /\ w.row.items = <<>> /\ w.row.exp > r.ts
    /\ batch[r.coll][r.id] = NoBatch

Found(r, w) ==
    /\ w.lock = {r.id} /\ ~w.mine
    /\ w.row # NoBatch /\ w.row = batch[r.coll][r.id]

Received(r, w) ==
    /\ w.lock = {r.id} /\ w.row # NoBatch
    /\ w.row.items = IF r.item = NoItem THEN acked[r.coll][r.id]
                     ELSE Append(acked[r.coll][r.id], r.item)

\* What the transaction did to the row of its batch.
Changed(r, w) ==
    /\ ~Entered(r) \/ r.pc \in {"check", "find"} => Unchanged(w)
    /\ r.pc \in {"items", "touch"}  => Unchanged(w) \/ Created(r, w)
    /\ r.pc \in {"apply", "delete"} => Unchanged(w) \/ Created(r, w) \/ Found(r, w)
    /\ Answered(r) => IF r.failed THEN Unchanged(w) \/ Created(r, w) ELSE Received(r, w)
    /\ r.pc = "commit" /\ r.status = 200 => w.lock = {r.id} /\ w.row = NoBatch

\* Record j is the last one of s up to the n-th that gives its BSO a content.
LastGiven(s, n, j) ==
    /\ s[j].body.val # NotSet
    /\ \A l \in j+1..n : s[l].id = s[j].id => s[l].body.val = NotSet

\* t leaves the contents that the first n records of s give.
Stores(t, c, s, n) ==
    \A j \in 1..n : LastGiven(s, n, j) =>
        /\ t.wb[c][s[j].id].mod \notin {NotSet, Absent}
        /\ t.wb[c][s[j].id].val = s[j].body.val

Stored(r, t) ==
    Storing(r) =>
    /\ r.coll \in t.excl
    /\ r.coll \notin t.gaps /\ ~MayFail =>
          Stores(t, r.coll, acked[r.coll][r.id], Len(acked[r.coll][r.id]))

Sound(r, t, w) ==
    Asked(r) /\ Holding(r, t) /\ Seen(r, t, w) /\ Changed(r, w) /\ Stored(r, t)

GapsAreEmpty == \A p \in Clients : \A k \in txn[p].gaps : uc[k] = Absent

RowLocks ==
    \A p, q \in Clients :
        p # q /\ req[p].coll = req[q].coll => work[p].lock \cap work[q].lock = {}

AcknowledgedIsHeld ==
    \A c \in Collections, b \in BatchIds :
        acked[c][b] = IF batch[c][b] = NoBatch THEN <<>> ELSE batch[c][b].items

BatchInv ==
    /\ TypeOK
    /\ Exclusive /\ GapsAreEmpty /\ RowLocks
    /\ AcknowledgedIsHeld
    /\ \A p \in Clients : Sound(req[p], txn[p], work[p])

-----------------------------------------------------------------------------
(* Sequences of records. *)

LEMMA BodiesAreColumns == Bodies \subseteq Columns
BY BatchAssumption DEF Columns

LEMMA RecordsAreSequences ==
  ASSUME NEW s
  PROVE  s \in Records <=> s \in Seq(Record) /\ Len(s) <= MaxItems
<1>1. MaxItems \in Nat
  BY BatchAssumption
<1>2. ASSUME s \in Records PROVE s \in Seq(Record) /\ Len(s) <= MaxItems
  <2>1. PICK n \in 0..MaxItems : s \in [1..n -> Record]
    BY <1>2 DEF Records
  <2>. QED
    BY <1>1, <2>1
<1>3. ASSUME s \in Seq(Record), Len(s) <= MaxItems PROVE s \in Records
  <2>1. Len(s) \in 0..MaxItems /\ s \in [1..Len(s) -> Record]
    BY <1>1, <1>3
  <2>. QED
    BY <2>1 DEF Records
<1>. QED
  BY <1>2, <1>3

LEMMA RecordsFields ==
  ASSUME NEW s \in Records
  PROVE  /\ Len(s) \in Nat /\ DOMAIN s = 1..Len(s)
         /\ \A k \in 1..Len(s) : s[k].id \in Ids /\ s[k].body \in Columns
                                 /\ s[k].body.val \in Int
<1>1. s \in Seq(Record)
  BY RecordsAreSequences
<1>2. ASSUME NEW k \in 1..Len(s)
      PROVE  s[k].id \in Ids /\ s[k].body \in Columns /\ s[k].body.val \in Int
  <2>1. s[k] \in Record
    BY <1>1
  <2>2. s[k].id \in Ids /\ s[k].body \in Columns
    BY <2>1, BodiesAreColumns DEF Record
  <2>3. s[k].body.val \in Vals \cup {NotSet}
    BY <2>2 DEF Columns
  <2>4. Vals \cup {NotSet} \subseteq Int
    BY ValsAssumption
  <2>. QED
    BY <2>2, <2>3, <2>4, Zenon
<1>. QED
  BY <1>1, <1>2

LEMMA MoreRecords ==
  /\ <<>> \in Records /\ Len(<<>>) = 0
  /\ \A s \in Records, x \in Record :
        Len(s) < MaxItems => Append(s, x) \in Records
<1>1. MaxItems \in Nat
  BY BatchAssumption
<1>2. <<>> \in Seq(Record) /\ Len(<<>>) = 0
  OBVIOUS
<1>3. ASSUME NEW s \in Records, NEW x \in Record, Len(s) < MaxItems
      PROVE  Append(s, x) \in Records
  <2>1. s \in Seq(Record)
    BY RecordsAreSequences
  <2>2. Append(s, x) \in Seq(Record) /\ Len(Append(s, x)) = Len(s) + 1 /\ Len(s) \in Nat
    BY <2>1
  <2>. QED
    <3>1. Len(Append(s, x)) <= MaxItems
      BY <1>1, <1>3, <2>2
    <3>. QED
      BY <2>2, <3>1, RecordsAreSequences
<1>4. <<>> \in Records
  <2>1. Len(<<>>) <= MaxItems
    BY <1>1, <1>2
  <2>. QED
    BY <1>2, <2>1, RecordsAreSequences
<1>. QED
  BY <1>2, <1>3, <1>4, Zenon

LEMMA BatchFields ==
  ASSUME NEW row \in Batch \cup {NoBatch}, row # NoBatch
  PROVE  row \in Batch /\ row.exp \in Nat /\ row.items \in Records
BY DEF Batch

(* What append leaves of a batch. *)
LEMMA AppendedFields ==
  ASSUME NEW row \in Batch, NEW item \in Record \cup {NoItem},
         item # NoItem => Len(row.items) < MaxItems
  PROVE  /\ Appended(row, item) \in Batch
         /\ Appended(row, item) # NoBatch
         /\ Appended(row, item).items = IF item = NoItem THEN row.items
                                        ELSE Append(row.items, item)
<1>1. CASE item = NoItem
  BY <1>1, NamesAssumption DEF Appended
<1>2. CASE item # NoItem
  <2>1. row.exp \in Nat /\ row.items \in Records
    BY DEF Batch
  <2>2. Append(row.items, item) \in Records
    BY <1>2, <2>1, MoreRecords
  <2>. DEFINE its == Append(row.items, item)
  <2>3. Appended(row, item) = [row EXCEPT !.items = its]
    BY <1>2 DEF Appended, Batch
  <2>. HIDE DEF its
  <2>4. [row EXCEPT !.items = its] \in Batch /\ [row EXCEPT !.items = its].items = its
    BY <2>2 DEF Batch, its
  <2>. QED
    BY <1>2, <2>3, <2>4, NamesAssumption DEF its
<1>. QED
  BY <1>1, <1>2

(* A nonempty set of naturals has a least element. *)
LEMMA LeastElement ==
  ASSUME NEW S \in SUBSET Nat, S # {}
  PROVE  \E x \in S : \A y \in S : ~ (y < x)
<1>. DEFINE Less == {ss \in Nat \X Nat : ss[1] < ss[2]}
<1>1. IsWellFoundedOn(Less, Nat)
  BY NatLessThanWellFounded, Zenon DEF OpToRel
<1>2. PICK x \in S : \A y \in S : ~ (<<y, x>> \in Less)
  <2>. HIDE DEF Less
  <2>. QED
    BY <1>1, WFMin
<1>. QED
  BY <1>2

LEMMA LastIsGreatest ==
  ASSUME NEW n \in Nat, NEW S \in SUBSET (1..n), S # {}
  PROVE  Last(S) \in S /\ \A l \in S : l <= Last(S)
<1>. DEFINE Bound == {m \in Nat : \A l \in S : l <= m}
<1>1. n \in Bound
  OBVIOUS
<1>2. PICK m \in Bound : \A y \in Bound : ~ (y < m)
  <2>. HIDE DEF Bound
  <2>1. Bound # {} /\ Bound \in SUBSET Nat
    BY <1>1 DEF Bound
  <2>. QED
    BY <2>1, LeastElement
<1>3. m \in S
  <2>1. SUFFICES ASSUME m \notin S PROVE FALSE
    OBVIOUS
  <2>2. PICK s \in S : TRUE
    OBVIOUS
  <2>3. m - 1 \in Bound
    BY <1>2, <2>1, <2>2
  <2>. QED
    BY <1>2, <2>3
<1>4. \E k \in S : \A l \in S : l <= k
  BY <1>2, <1>3
<1>. QED
  BY <1>4 DEF Last

-----------------------------------------------------------------------------
(* The replay of a batch's records. *)

\* The transaction after record k, from those after the earlier ones.
After(f, t, c, s, ok, ts, k) ==
    IF k = 0 THEN t
    ELSE IF k \notin ok THEN f[k - 1]
    ELSE Putting(f[k - 1], c, {s[k].id}, s[k].body, ts)

Replay(f, n, t, c, s, ok, ts) ==
    f = [k \in 0..n |-> After(f, t, c, s, ok, ts, k)]

LEMMA ReplayExists ==
  ASSUME NEW t, NEW c, NEW s, NEW ok, NEW ts, NEW n \in Nat
  PROVE  \E f : Replay(f, n, t, c, s, ok, ts)
<1>. DEFINE P(m) == \E f : Replay(f, m, t, c, s, ok, ts)
            Bad  == {m \in Nat : ~P(m)}
<1>1. SUFFICES ASSUME Bad # {} PROVE FALSE
  OBVIOUS
<1>2. PICK m \in Bad : \A y \in Bad : ~ (y < m)
  <2>. HIDE DEF Bad
  <2>1. Bad \in SUBSET Nat
    BY DEF Bad
  <2>. QED
    BY <1>1, <2>1, LeastElement
<1>3. m \in Nat /\ ~P(m)
  BY <1>2
<1>4. CASE m = 0
  <2>1. Replay([k \in 0..0 |-> t], 0, t, c, s, ok, ts)
    BY DEF Replay, After
  <2>. QED
    BY <1>3, <1>4, <2>1
<1>5. CASE m # 0
  <2>1. m - 1 \in Nat /\ m - 1 < m
    BY <1>3, <1>5
  <2>2. P(m - 1)
    BY <1>2, <2>1
  <2>3. PICK f : Replay(f, m - 1, t, c, s, ok, ts)
    BY <2>2
  <2>. DEFINE g == [k \in 0..m |-> IF k = m THEN After(f, t, c, s, ok, ts, m) ELSE f[k]]
  <2>4. \A k \in 0..m : g[k] = After(g, t, c, s, ok, ts, k)
    <3>1. TAKE k \in 0..m
    <3>2. k # 0 => k - 1 \in 0..m /\ k - 1 # m /\ g[k - 1] = f[k - 1]
      BY <1>3, <3>1
    <3>3. After(g, t, c, s, ok, ts, k) = After(f, t, c, s, ok, ts, k)
      <4>. HIDE DEF g
      <4>. QED
        BY <3>2 DEF After
    <3>4. k # m => f[k] = After(f, t, c, s, ok, ts, k)
      <4>1. k # m => k \in 0..(m - 1)
        BY <1>3, <3>1
      <4>. QED
        BY <2>3, <4>1 DEF Replay
    <3>5. g[k] = IF k = m THEN After(f, t, c, s, ok, ts, m) ELSE f[k]
      BY <3>1
    <3>. HIDE DEF g
    <3>. QED
      BY <3>3, <3>4, <3>5
  <2>5. g = [k \in 0..m |-> g[k]]
    OBVIOUS
  <2>. HIDE DEF g
  <2>6. Replay(g, m, t, c, s, ok, ts)
    BY <2>4, <2>5 DEF Replay
  <2>. QED
    BY <1>3, <2>6
<1>. QED
  BY <1>4, <1>5

(* Replayed is what the last record leaves (post_bsos). *)
LEMMA ReplayedIsReplay ==
  ASSUME NEW t, NEW c, NEW s, Len(s) \in Nat, NEW ok, NEW ts
  PROVE  \E f : Replay(f, Len(s), t, c, s, ok, ts) /\ Replayed(t, c, s, ok, ts) = f[Len(s)]
<1>. DEFINE f == CHOOSE g : Replay(g, Len(s), t, c, s, ok, ts)
<1>1. Replay(f, Len(s), t, c, s, ok, ts)
  BY ReplayExists
<1>2. Replayed(t, c, s, ok, ts) = f[Len(s)]
  BY DEF Replayed, Replay, After
<1>. QED
  BY <1>1, <1>2

\* The locks and the written row of its collection are those of t.
SameLocks(v, t) ==
    v \in Txn /\ v.excl = t.excl /\ v.share = t.share /\ v.gaps = t.gaps /\ v.wc = t.wc

LEMMA PuttingLocks ==
  ASSUME StoreTypeOK, NEW t \in Txn, NEW c \in Collections, NEW i \in Ids,
         NEW body \in Columns, NEW ts \in 1..MaxTime
  PROVE  LET v == Putting(t, c, {i}, body, ts) IN
         /\ SameLocks(v, t)
         /\ v.wb[c][i] = Upserted(BsoView(t, c, i), body, ts)
         /\ v.wb[c][i] \in Row
         /\ \A j \in Ids \ {i} : v.wb[c][j] = t.wb[c][j]
<1>. DEFINE wbc == PutRows(t, c, {i}, body, ts)
            v == Putting(t, c, {i}, body, ts)
<1>1. Fields(v, t.excl, t.share, t.gaps, t.rows \cup ({c} \X {i}), t.all, t.wc,
             [t.wb EXCEPT ![c] = wbc])
  <2>. HIDE DEF v
  <2>1. {i} \in SUBSET Ids
    OBVIOUS
  <2>. QED
    BY <2>1, PuttingStages DEF v
<1>2. wbc[i] = Upserted(BsoView(t, c, i), body, ts) /\ \A j \in Ids \ {i} : wbc[j] = t.wb[c][j]
  BY DEF PutRows
<1>3. Upserted(BsoView(t, c, i), body, ts) \in Row
  <2>1. t.wb[c][i] \in Row \cup {NoRow, NotStaged} /\ bso[c][i] \in Row \cup {NoRow}
    BY DEF Txn, StoreTypeOK
  <2>2. BsoView(t, c, i) \in Row \cup {NoRow}
    BY <2>1 DEF BsoView, NotStaged
  <2>. DEFINE row == BsoView(t, c, i)
  <2>. HIDE DEF row
  <2>3. Upserted(row, body, ts) \in Row
    BY <2>2, UpsertedType DEF row
  <2>. QED
    BY <2>3 DEF row
<1>. HIDE DEF v, wbc
<1>4. v \in Txn /\ SameLocks(v, t) /\ v.wb = [t.wb EXCEPT ![c] = wbc]
  BY <1>1 DEF Fields, SameLocks
<1>5. v.wb[c] = wbc
  BY <1>4, SMTT(30) DEF Txn
<1>. QED
  BY <1>2, <1>3, <1>4, <1>5, Zenon DEF v

(* One more record: a content is stored, a ttl alone keeps what was stored. *)
LEMMA StoresOneMore ==
  ASSUME StoreTypeOK, NEW t \in Txn, NEW c \in Collections, NEW s \in Records,
         NEW k \in 1..Len(s), NEW ts \in 1..MaxTime, Stores(t, c, s, k - 1)
  PROVE  Stores(Putting(t, c, {s[k].id}, s[k].body, ts), c, s, k)
<1>. DEFINE i == s[k].id
            body == s[k].body
            row == BsoView(t, c, i)
            v == Putting(t, c, {i}, body, ts)
<1>1. Len(s) \in Nat /\ i \in Ids /\ body \in Columns /\ body.val \in Int
  BY RecordsFields
<1>2. /\ v.wb[c][i] = Upserted(row, body, ts)
      /\ v.wb[c][i] \in Row
      /\ \A j \in Ids \ {i} : v.wb[c][j] = t.wb[c][j]
  <2>. HIDE DEF i, body, row, v
  <2>1. /\ Putting(t, c, {i}, body, ts).wb[c][i] = Upserted(BsoView(t, c, i), body, ts)
        /\ Putting(t, c, {i}, body, ts).wb[c][i] \in Row
        /\ \A j \in Ids \ {i} : Putting(t, c, {i}, body, ts).wb[c][j] = t.wb[c][j]
    BY <1>1, PuttingLocks, ZenonT(60)
  <2>. QED
    BY <2>1, Zenon DEF row, v
<1>3. v.wb[c][i].mod \notin {NotSet, Absent}
  <2>. HIDE DEF v, i
  <2>. QED
    BY <1>2 DEF Row
<1>. SUFFICES ASSUME NEW j \in 1..k, LastGiven(s, k, j)
              PROVE  /\ v.wb[c][s[j].id].mod \notin {NotSet, Absent}
                     /\ v.wb[c][s[j].id].val = s[j].body.val
  BY DEF Stores
<1>4. CASE j = k
  <2>1. s[k].body.val # NotSet
    BY <1>4 DEF LastGiven
  <2>2. v.wb[c][i].val = s[k].body.val
    BY <1>2, <2>1 DEF Upserted
  <2>. QED
    BY <1>3, <1>4, <2>2
<1>5. CASE j # k
  <2>1. j \in 1..(k - 1) /\ j \in 1..Len(s)
    BY <1>1, <1>5
  <2>2. LastGiven(s, k - 1, j)
    <3>1. \A l \in j+1..k-1 : l \in j+1..k
      BY <1>1, <2>1
    <3>. QED
      BY <3>1 DEF LastGiven
  <2>3. t.wb[c][s[j].id].mod \notin {NotSet, Absent} /\ t.wb[c][s[j].id].val = s[j].body.val
    BY <2>1, <2>2 DEF Stores
  <2>4. s[j].id \in Ids
    BY <2>1, RecordsFields
  <2>5. CASE s[j].id # i
    <3>. HIDE DEF v, i
    <3>. QED
      BY <1>2, <2>3, <2>4, <2>5
  <2>6. CASE s[j].id = i
    <3>1. k \in j+1..k
      BY <1>1, <2>1
    <3>2. s[k].body.val = NotSet
      BY <2>6, <3>1 DEF LastGiven
    <3>3. row = t.wb[c][i] /\ Present(row)
      BY <2>3, <2>6 DEF BsoView, Present
    <3>4. Upserted(row, s[k].body, ts).val = row.val
      BY <3>2, <3>3 DEF Upserted
    <3>. HIDE DEF v, row, i
    <3>. QED
      BY <1>2, <1>3, <2>3, <2>6, <3>3, <3>4
  <2>. QED
    BY <2>5, <2>6
<1>. QED
  BY <1>4, <1>5

LEMMA ReplayedStores ==
  ASSUME StoreTypeOK, NEW t \in Txn, NEW c \in Collections, NEW s \in Records,
         NEW ok, NEW ts \in 1..MaxTime
  PROVE  LET v == Replayed(t, c, s, ok, ts) IN
         SameLocks(v, t) /\ (1..Len(s) \subseteq ok => Stores(v, c, s, Len(s)))
<1>1. Len(s) \in Nat
  BY RecordsFields
<1>2. PICK f : Replay(f, Len(s), t, c, s, ok, ts) /\ Replayed(t, c, s, ok, ts) = f[Len(s)]
  BY <1>1, ReplayedIsReplay
<1>. DEFINE Good(v, k) == SameLocks(v, t) /\ (1..Len(s) \subseteq ok => Stores(v, c, s, k))
            Bad == {k \in 0..Len(s) : ~Good(f[k], k)}
<1>3. SUFFICES ASSUME Bad # {} PROVE FALSE
  <2>1. SUFFICES Good(f[Len(s)], Len(s))
    BY <1>2
  <2>. QED
    BY <1>1, <1>3
<1>4. PICK k \in Bad : \A y \in Bad : ~ (y < k)
  <2>. HIDE DEF Bad
  <2>1. Bad \in SUBSET Nat
    BY <1>1 DEF Bad
  <2>. QED
    BY <1>3, <2>1, LeastElement
<1>5. k \in 0..Len(s) /\ ~Good(f[k], k) /\ f[k] = After(f, t, c, s, ok, ts, k)
  BY <1>2, <1>4 DEF Replay
<1>6. CASE k = 0
  <2>. HIDE DEF Good, Bad
  <2>1. f[k] = t
    BY <1>5, <1>6 DEF After
  <2>2. Good(t, 0)
    BY DEF Good, SameLocks, Stores
  <2>. QED
    BY <1>5, <1>6, <2>1, <2>2
<1>7. CASE k # 0
  <2>1. k - 1 \in 0..Len(s) /\ k \in 1..Len(s) /\ k - 1 < k
    BY <1>1, <1>5, <1>7
  <2>2. Good(f[k - 1], k - 1)
    BY <1>4, <2>1
  <2>. DEFINE u == f[k - 1]
  <2>3. CASE k \notin ok
    BY <1>5, <1>7, <2>1, <2>2, <2>3 DEF After
  <2>4. CASE k \in ok
    <3>. DEFINE v == Putting(u, c, {s[k].id}, s[k].body, ts)
    <3>1. f[k] = v
      BY <1>5, <1>7, <2>4 DEF After
    <3>. HIDE DEF u
    <3>2. SameLocks(u, t) /\ (1..Len(s) \subseteq ok => Stores(u, c, s, k - 1))
      BY <2>2 DEF u
    <3>3. u \in Txn
      BY <3>2 DEF SameLocks
    <3>4. SameLocks(v, u)
      <4>1. s[k].id \in Ids /\ s[k].body \in Columns
        BY <2>1, RecordsFields
      <4>. QED
        BY <3>3, <4>1, PuttingLocks
    <3>5. SameLocks(v, t)
      <4>. HIDE DEF v
      <4>. QED
        BY <3>2, <3>4 DEF SameLocks
    <3>6. ASSUME 1..Len(s) \subseteq ok PROVE Stores(v, c, s, k)
      BY <2>1, <3>2, <3>3, <3>6, StoresOneMore
    <3>. HIDE DEF v
    <3>. QED
      BY <1>5, <3>1, <3>5, <3>6
  <2>. QED
    BY <2>3, <2>4
<1>. QED
  BY <1>6, <1>7

-----------------------------------------------------------------------------
(* The parts of a state. *)

Pcs == {"idle", "lock", "check", "find", "items", "touch", "apply", "delete", "commit",
        "restamp", "reget", "alone", "stamp", "drop"}

LEMMA RequestFields ==
  ASSUME NEW r \in Request
  PROVE  /\ r.pc \in Pcs /\ r.coll \in Collections /\ r.item \in Record \cup {NoItem}
         /\ r.id \in BatchIds \cup {NewBatch} /\ r.commit \in BOOLEAN
         /\ r.ts \in 0..MaxTime /\ r.failed \in BOOLEAN /\ r.status \in {0, 200, 202}
         /\ r.left \in Records
BY DEF Request, Pcs

LEMMA WorkFields ==
  ASSUME NEW w \in Work
  PROVE  /\ w.snap \in [Collections -> [BatchIds -> Batch \cup {NoBatch}]]
         /\ w.lock \in SUBSET BatchIds /\ w.row \in Batch \cup {NoBatch}
         /\ w.mine \in BOOLEAN
BY DEF Work

LEMMA NothingDone ==
  /\ Idle \in Request /\ Idle.pc = "idle" /\ Idle.status = 0
  /\ NoWork \in Work /\ Unchanged(NoWork)
  /\ NoTxn \in Txn /\ Locked(NoTxn) = {} /\ NoTxn.excl = {} /\ NoTxn.gaps = {}
<1>1. AnyCollection \in Collections
  BY CollectionsAssumption DEF AnyCollection
<1>2. Idle \in Request /\ Idle.pc = "idle" /\ Idle.status = 0
  BY <1>1, MoreRecords, MaxTimeAssumption DEF Idle, Request
<1>3. NoWork \in Work /\ Unchanged(NoWork)
  BY DEF NoWork, Work, Unchanged
<1>. QED
  BY <1>2, <1>3, BegunFields DEF Locked

LEMMA State ==
  ASSUME BatchInv, NEW p \in Clients
  PROVE  /\ StoreTypeOK /\ now \in 1..MaxTime
         /\ req[p] \in Request /\ txn[p] \in Txn /\ work[p] \in Work
         /\ Sound(req[p], txn[p], work[p])
         /\ \A k \in txn[p].gaps : uc[k] = Absent
         /\ \A q \in Clients \ {p} :
               /\ txn[p].excl \cap Locked(txn[q]) = {}
               /\ txn[q].excl \cap Locked(txn[p]) = {}
               /\ req[q].coll = req[p].coll => work[q].lock \cap work[p].lock = {}
<1>1. /\ StoreTypeOK /\ now \in 1..MaxTime
      /\ req[p] \in Request /\ txn[p] \in Txn /\ work[p] \in Work
  BY DEF BatchInv, TypeOK, StoreTypeOK
<1>2. Sound(req[p], txn[p], work[p]) /\ \A k \in txn[p].gaps : uc[k] = Absent
  BY DEF BatchInv, GapsAreEmpty
<1>3. ASSUME NEW q \in Clients \ {p}
      PROVE  /\ txn[p].excl \cap Locked(txn[q]) = {}
             /\ txn[q].excl \cap Locked(txn[p]) = {}
             /\ req[q].coll = req[p].coll => work[q].lock \cap work[p].lock = {}
  BY <1>3 DEF BatchInv, Exclusive, RowLocks
<1>. QED
  BY <1>1, <1>2, <1>3

\* The locks of t exclude those of the other transactions.
Fits(p, t) ==
    /\ \A k \in t.gaps : uc[k] = Absent
    /\ \A q \in Clients \ {p} :
          t.excl \cap Locked(txn[q]) = {} /\ txn[q].excl \cap Locked(t) = {}

LEMMA KeptLocksFit ==
  ASSUME BatchInv, NEW p \in Clients, NEW t, SameLocks(t, txn[p])
  PROVE  Fits(p, t)
<1>1. t.excl = txn[p].excl /\ t.gaps = txn[p].gaps /\ Locked(t) = Locked(txn[p])
  BY DEF SameLocks, Locked
<1>. QED
  BY <1>1, State DEF Fits

LEMMA NoLocksFit == \A p \in Clients : Fits(p, NoTxn)
BY NothingDone DEF Fits

(* What is sound of a request remains so while the batches stay as they are. *)
LEMMA PartsStay ==
  ASSUME UNCHANGED <<batch, acked>>, torn \subseteq torn',
         NEW p \in Clients, Sound(req'[p], txn'[p], work'[p])
  PROVE  (/\ Holding(req[p], txn[p]) /\ Seen(req[p], txn[p], work[p])
          /\ Changed(req[p], work[p]) /\ Stored(req[p], txn[p]))'
<1>1. Holding(req'[p], txn'[p]) => Holding(req[p], txn[p])'
  BY DEF Holding
<1>2. Seen(req'[p], txn'[p], work'[p]) => Seen(req[p], txn[p], work[p])'
  BY DEF Seen
<1>3. Changed(req'[p], work'[p]) => Changed(req[p], work[p])'
  <2>1. /\ Created(req'[p], work'[p]) => Created(req[p], work[p])'
        /\ Found(req'[p], work'[p]) => Found(req[p], work[p])'
        /\ Received(req'[p], work'[p]) => Received(req[p], work[p])'
    BY DEF Created, Found, Received
  <2>. QED
    BY <2>1, Zenon DEF Changed
<1>4. Stored(req'[p], txn'[p]) => Stored(req[p], txn[p])'
  BY Zenon DEF Stored
<1>. QED
  BY <1>1, <1>2, <1>3, <1>4, Zenon DEF Sound

LEMMA SoundStays ==
  ASSUME UNCHANGED <<now, batch, acked, torn>>,
         NEW p \in Clients, Sound(req'[p], txn'[p], work'[p])
  PROVE  Sound(req[p], txn[p], work[p])'
<1>1. Asked(req[p])'
  BY DEF Sound, Asked
<1>. QED
  BY <1>1, PartsStay DEF Sound

(* A request that sees the same snapshot of the same collection. *)
LEMMA SeenAs ==
  ASSUME NEW r, NEW s, NEW t, NEW v, NEW w, Seen(s, t, v), Read(s),
         r.coll = s.coll, w.snap = v.snap
  PROVE  Seen(r, t, w)
BY Zenon DEF Seen

\* A request that has just lost its transaction.
Lost(r, t, w) ==
    /\ Alone(r) /\ r.ts \in 1..now /\ r.id \in BatchIds /\ r.status = 0
    /\ r.coll \in torn' /\ t = NoTxn /\ w = NoWork

(* A step of one request that leaves the committed rows alone. *)
LEMMA LocalStep ==
  ASSUME BatchInv, NEW p \in Clients, NEW r \in Request, NEW t \in Txn, NEW w \in Work,
         req' = [req EXCEPT ![p] = r], txn' = [txn EXCEPT ![p] = t],
         work' = [work EXCEPT ![p] = w], UNCHANGED <<now, uc, bso, batch, acked>>,
         torn \subseteq torn', torn' \in SUBSET Collections,
         Sound(r, t, w) \/ Lost(r, t, w), Fits(p, t),
         \A q \in Clients \ {p} : req[q].coll = r.coll => w.lock \cap work[q].lock = {}
  PROVE  BatchInv'
<1>1. /\ req \in [Clients -> Request] /\ txn \in [Clients -> Txn] /\ work \in [Clients -> Work]
  BY DEF BatchInv, TypeOK, StoreTypeOK
<1>2. TypeOK'
  <2>1. req' \in [Clients -> Request] /\ txn' \in [Clients -> Txn] /\ work' \in [Clients -> Work]
    BY <1>1
  <2>. QED
    BY <2>1 DEF BatchInv, TypeOK, StoreTypeOK
<1>3. /\ req'[p] = r /\ txn'[p] = t /\ work'[p] = w
      /\ \A q \in Clients \ {p} : req'[q] = req[q] /\ txn'[q] = txn[q] /\ work'[q] = work[q]
  BY <1>1
<1>4. Exclusive'
  <2>1. SUFFICES ASSUME NEW a \in Clients, NEW b \in Clients, a # b
                 PROVE  txn'[a].excl \cap Locked(txn'[b]) = {}
    BY DEF Exclusive, Locked
  <2>. QED
    BY <1>3, <2>1 DEF BatchInv, Exclusive, Fits
<1>5. GapsAreEmpty'
  BY <1>3 DEF BatchInv, GapsAreEmpty, Fits
<1>6. RowLocks'
  BY <1>3 DEF BatchInv, RowLocks
<1>7. AcknowledgedIsHeld'
  BY Zenon DEF BatchInv, AcknowledgedIsHeld
<1>8. ASSUME NEW q \in Clients PROVE Sound(req[q], txn[q], work[q])'
  <2>1. CASE Sound(req'[q], txn'[q], work'[q])
    <3>1. Asked(req[q])'
      BY <2>1 DEF Sound, Asked
    <3>. QED
      BY <2>1, <3>1, PartsStay DEF Sound
  <2>2. CASE q = p /\ Lost(r, t, w)
    <3>1. /\ Alone(req'[q]) /\ req'[q].ts \in 1..now' /\ req'[q].id \in BatchIds
          /\ req'[q].status = 0 /\ req'[q].coll \in torn' /\ txn'[q] = NoTxn
          /\ Unchanged(work'[q])
      BY <1>3, <2>2, NothingDone DEF Lost
    <3>. QED
      BY <3>1 DEF Alone, Sound, Asked, Holding, Entered, Seen, Read, Changed, Answered,
                  Unchanged, Stored, Storing
  <2>. QED
    BY <1>3, <2>1, <2>2 DEF BatchInv
<1>. QED
  BY <1>2, <1>4, <1>5, <1>6, <1>7, <1>8 DEF BatchInv

(* The same for a step that takes no lock on a batch either. *)
LEMMA PlainStep ==
  ASSUME BatchInv, NEW p \in Clients, NEW r \in Request, NEW t \in Txn, NEW w \in Work,
         req' = [req EXCEPT ![p] = r], txn' = [txn EXCEPT ![p] = t],
         work' = [work EXCEPT ![p] = w], UNCHANGED <<now, uc, bso, batch, acked, torn>>,
         Sound(r, t, w), Fits(p, t),
         w.lock = {} \/ (r.coll = req[p].coll /\ w.lock = work[p].lock)
  PROVE  BatchInv'
<1>1. \A q \in Clients \ {p} : req[q].coll = r.coll => w.lock \cap work[q].lock = {}
  BY State
<1>2. torn \subseteq torn' /\ torn' \in SUBSET Collections
  BY DEF BatchInv, TypeOK
<1>3. UNCHANGED <<now, uc, bso, batch, acked>>
  OBVIOUS
<1>. QED
  BY <1>1, <1>2, <1>3, LocalStep

LEMMA Same ==
  ASSUME BatchInv, NEW p \in Clients
  PROVE  /\ req = [req EXCEPT ![p] = req[p]] /\ txn = [txn EXCEPT ![p] = txn[p]]
         /\ work = [work EXCEPT ![p] = work[p]]
         /\ SameLocks(txn[p], txn[p])
BY DEF BatchInv, TypeOK, StoreTypeOK, SameLocks

(* A request that ends without a commit leaves nothing. *)
LEMMA CloseStep ==
  ASSUME BatchInv, NEW p \in Clients, Close(p)
  PROVE  BatchInv'
<1>1. Sound(Idle, NoTxn, NoWork)
  BY NothingDone DEF Sound, Asked, Holding, Entered, Seen, Read, Changed, Answered,
                     Stored, Storing
<1>2. /\ req' = [req EXCEPT ![p] = Idle] /\ txn' = [txn EXCEPT ![p] = NoTxn]
      /\ work' = [work EXCEPT ![p] = NoWork] /\ UNCHANGED <<now, uc, bso, batch, acked, torn>>
  BY DEF Close, Rollback
<1>3. NoWork.lock = {}
  BY NothingDone DEF Unchanged
<1>. QED
  BY <1>1, <1>2, <1>3, NothingDone, NoLocksFit, PlainStep

\* A request that arrives.
Started(c, item, id, commit, ts) ==
    [Idle EXCEPT !.pc = "lock", !.coll = c, !.item = item,
                 !.id = id, !.commit = commit, !.ts = ts]

LEMMA StartedFields ==
  ASSUME NEW c \in Collections, NEW item \in Record \cup {NoItem},
         NEW id \in BatchIds \cup {NewBatch}, NEW commit \in BOOLEAN, NEW ts \in 0..MaxTime
  PROVE  LET r == Started(c, item, id, commit, ts) IN
         r \in Request /\ r.pc = "lock" /\ r.ts = ts /\ r.status = 0
<1>. DEFINE r1 == [Idle EXCEPT !.pc = "lock"]
<1>1. r1 \in Request /\ r1.pc = "lock" /\ r1.status = 0
  BY NothingDone DEF Request
<1>. HIDE DEF r1
<1>. DEFINE r2 == [r1 EXCEPT !.coll = c]
<1>2. r2 \in Request /\ r2.pc = "lock" /\ r2.status = 0
  BY <1>1 DEF Request
<1>. HIDE DEF r2
<1>. DEFINE r3 == [r2 EXCEPT !.item = item]
<1>3. r3 \in Request /\ r3.pc = "lock" /\ r3.status = 0
  BY <1>2 DEF Request
<1>. HIDE DEF r3
<1>. DEFINE r4 == [r3 EXCEPT !.id = id]
<1>4. r4 \in Request /\ r4.pc = "lock" /\ r4.status = 0
  BY <1>3 DEF Request
<1>. HIDE DEF r4
<1>. DEFINE r5 == [r4 EXCEPT !.commit = commit]
<1>5. r5 \in Request /\ r5.pc = "lock" /\ r5.status = 0
  BY <1>4 DEF Request
<1>. HIDE DEF r5
<1>. DEFINE r6 == [r5 EXCEPT !.ts = ts]
<1>6. r6 \in Request /\ r6.pc = "lock" /\ r6.status = 0 /\ r6.ts = ts
  BY <1>5 DEF Request
<1>. HIDE DEF r6
<1>7. r6 = Started(c, item, id, commit, ts)
  BY DEF Started, r1, r2, r3, r4, r5, r6
<1>. QED
  BY <1>6, <1>7

LEMMA StartStep ==
  ASSUME BatchInv, NEW p \in Clients, Start(p)
  PROVE  BatchInv'
<1>1. PICK c \in Collections, item \in Record \cup {NoItem}, commit \in BOOLEAN,
           id \in BatchIds \cup {NewBatch}, ts \in 1..now :
        req' = [req EXCEPT ![p] = Started(c, item, id, commit, ts)]
  <2>1. \E c \in Collections, item \in Record \cup {NoItem}, commit \in BOOLEAN,
           id \in BatchIds \cup {NewBatch}, ts \in 1..now :
           /\ ts >= now - MaxSkew
           /\ req' = [req EXCEPT ![p] = Started(c, item, id, commit, ts)]
    BY ZenonT(30) DEF Start, Started
  <2>. QED
    BY <2>1
<1>. DEFINE r == Started(c, item, id, commit, ts)
<1>2. now \in 1..MaxTime /\ txn[p] \in Txn /\ work[p] \in Work
  BY State
<1>3. r \in Request /\ r.pc = "lock" /\ r.ts = ts /\ r.status = 0
  <2>1. ts \in 0..MaxTime
    BY <1>2, MaxTimeAssumption
  <2>. QED
    BY <2>1, StartedFields
<1>. HIDE DEF r
<1>4. txn[p] = NoTxn /\ Unchanged(work[p])
  BY State DEF Start, Sound, Holding, Changed, Entered
<1>5. Sound(r, txn[p], work[p])
  BY <1>3, <1>4 DEF Sound, Asked, Holding, Entered, Seen, Read, Changed, Answered,
                    Stored, Storing
<1>6. /\ UNCHANGED <<now, uc, bso, batch, acked, torn>> /\ txn' = [txn EXCEPT ![p] = txn[p]]
      /\ work' = [work EXCEPT ![p] = work[p]]
  BY Same DEF Start, KeepStore
<1>7. Fits(p, txn[p]) /\ work[p].lock = {}
  BY <1>4, NoLocksFit DEF Unchanged
<1>8. req' = [req EXCEPT ![p] = r]
  BY <1>1, Zenon DEF r
<1>. QED
  BY <1>2, <1>3, <1>5, <1>6, <1>7, <1>8, PlainStep

\* r is s, further on.
Advanced(r, s, pc, id, status, failed) ==
    /\ r \in Request /\ r.pc = pc /\ r.coll = s.coll /\ r.item = s.item /\ r.id = id
    /\ r.commit = s.commit /\ r.ts = s.ts /\ r.status = status /\ r.failed = failed

LEMMA GotoFields ==
  ASSUME BatchInv, NEW p \in Clients, NEW pc \in Pcs, Goto(p, pc)
  PROVE  \E r \in Request : /\ req' = [req EXCEPT ![p] = r]
                            /\ Advanced(r, req[p], pc, req[p].id, req[p].status, req[p].failed)
<1>. DEFINE r == [req[p] EXCEPT !.pc = pc]
<1>1. req[p] \in Request /\ req \in [Clients -> Request]
  BY DEF BatchInv, TypeOK
<1>2. r \in Request /\ Advanced(r, req[p], pc, req[p].id, req[p].status, req[p].failed)
  BY <1>1 DEF Request, Advanced, Pcs
<1>3. req' = [req EXCEPT ![p] = r]
  BY DEF Goto
<1>. QED
  BY <1>2, <1>3

LEMMA SetTxnFields ==
  ASSUME NEW p, NEW t, SetTxn(p, t)
  PROVE  txn' = [txn EXCEPT ![p] = t] /\ UNCHANGED <<now, uc, bso, batch, acked, torn>>
BY DEF SetTxn

(* lock_for_write. *)
LEMMA WriteLock ==
  ASSUME NEW c \in CollKeys
  PROVE  LET t == LockedForWrite(c) IN
         /\ t \in Txn /\ t.share = {}
         /\ t.excl = (IF uc[c] = Absent THEN {} ELSE {c})
         /\ t.gaps = (IF uc[c] = Absent THEN {c} ELSE {})
         /\ \A k \in CollKeys : t.wc[k] = NotSet
<1>. DEFINE t == LockedForWrite(c)
<1>1. t \in {LockedForWrite(c), LockedForRead(c)}
  OBVIOUS
<1>2. t = LockedForWrite(c)
  OBVIOUS
<1>. HIDE DEF t
<1>3. /\ t \in Txn /\ t.share = {}
      /\ t.excl = (IF uc[c] = Absent THEN {} ELSE {c})
      /\ t.gaps = (IF uc[c] = Absent THEN {c} ELSE {})
      /\ t.wc = [k \in CollKeys |-> NotSet]
  BY <1>1, <1>2, LockedFields
<1>. QED
  BY <1>3 DEF t

LEMMA LockStep ==
  ASSUME BatchInv, NEW p \in Clients, Lock(p)
  PROVE  BatchInv'
<1>1. CASE Close(p)
  BY <1>1, CloseStep
<1>2. CASE ~Close(p)
  <2>. DEFINE c == req[p].coll
              t == LockedForWrite(c)
  <2>1. req[p] \in Request /\ req[p].pc = "lock" /\ c \in Collections /\ c \in CollKeys
    BY State, RequestFields DEF Lock, CollKeys
  <2>2. Lockable(p, c) /\ SetTxn(p, t) /\ Goto(p, "check") /\ UNCHANGED work
    BY <1>2 DEF Lock
  <2>3. PICK r \in Request : /\ req' = [req EXCEPT ![p] = r]
                             /\ Advanced(r, req[p], "check", req[p].id, req[p].status,
                                         req[p].failed)
    BY <2>2, GotoFields DEF Pcs
  <2>4. /\ t \in Txn /\ t.share = {}
        /\ t.excl = (IF uc[c] = Absent THEN {} ELSE {c})
        /\ t.gaps = (IF uc[c] = Absent THEN {c} ELSE {})
        /\ \A k \in CollKeys : t.wc[k] = NotSet
    BY <2>1, WriteLock
  <2>. HIDE DEF t
  <2>5. Unchanged(work[p]) /\ work[p] \in Work
    BY <2>1, State DEF Sound, Changed, Entered
  <2>6. Sound(r, t, work[p])
    <3>1. Asked(r)
      BY <2>1, <2>3, State DEF Advanced, Sound, Asked
    <3>2. r.coll = c /\ r.pc = "check"
      BY <2>3 DEF Advanced
    <3>3. Holding(r, t)
      BY <2>1, <2>4, <3>2 DEF Holding, Entered
    <3>4. Seen(r, t, work[p]) /\ Changed(r, work[p]) /\ Stored(r, t)
      BY <2>5, <3>2 DEF Seen, Read, Changed, Entered, Answered, Stored, Storing
    <3>. QED
      BY <3>1, <3>3, <3>4 DEF Sound
  <2>7. Fits(p, t)
    <3>1. \A k \in t.gaps : uc[k] = Absent
      BY <2>4
    <3>2. ASSUME NEW q \in Clients \ {p}
          PROVE  t.excl \cap Locked(txn[q]) = {} /\ txn[q].excl \cap Locked(t) = {}
      <4>1. c \notin txn[q].excl /\ c \notin txn[q].share
        BY <2>2 DEF Lockable
      <4>2. uc[c] # Absent => c \notin txn[q].gaps
        BY State
      <4>. QED
        BY <2>4, <4>1, <4>2 DEF Locked
    <3>. QED
      BY <3>1, <3>2 DEF Fits
  <2>8. /\ txn' = [txn EXCEPT ![p] = t] /\ work' = [work EXCEPT ![p] = work[p]]
        /\ UNCHANGED <<now, uc, bso, batch, acked, torn>>
    BY <2>2, Same, SetTxnFields
  <2>9. work[p].lock = {}
    BY <2>5 DEF Unchanged
  <2>. QED
    BY <2>3, <2>4, <2>5, <2>6, <2>7, <2>8, <2>9, PlainStep
<1>. QED
  BY <1>1, <1>2

(* check_precondition takes the snapshot. *)
LEMMA CheckStep ==
  ASSUME BatchInv, NEW p \in Clients, CheckPrecondition(p)
  PROVE  BatchInv'
<1>. DEFINE old == work[p]
            w == [old EXCEPT !.snap = batch]
<1>1. req[p].pc = "check" /\ req[p] \in Request /\ txn[p] \in Txn /\ old \in Work
      /\ batch \in [Collections -> [BatchIds -> Batch \cup {NoBatch}]]
  BY State DEF CheckPrecondition, BatchInv, TypeOK
<1>2. PICK r \in Request : /\ req' = [req EXCEPT ![p] = r]
                           /\ Advanced(r, req[p], "find", req[p].id, req[p].status,
                                       req[p].failed)
  BY GotoFields DEF CheckPrecondition, Pcs
<1>3. work' = [work EXCEPT ![p] = w]
  BY DEF CheckPrecondition
<1>4. w \in Work /\ w.snap = batch /\ w.lock = old.lock /\ w.mine = old.mine
  <2>. HIDE DEF old
  <2>. QED
    BY <1>1, SMTT(30) DEF Work
<1>. HIDE DEF w
<1>5. r.pc = "find" /\ r.coll = req[p].coll /\ r.ts = req[p].ts /\ r.status = req[p].status
  BY <1>2 DEF Advanced
<1>6. Sound(r, txn[p], w)
  <2>1. Asked(req[p]) /\ Holding(req[p], txn[p]) /\ Unchanged(old)
    BY <1>1, State DEF Sound, Changed
  <2>2. Asked(r) /\ Holding(r, txn[p])
    BY <1>1, <1>5, <2>1 DEF Asked, Holding, Entered
  <2>3. Unchanged(w)
    BY <1>4, <2>1, Zenon DEF Unchanged
  <2>4. Seen(r, txn[p], w) /\ Changed(r, w) /\ Stored(r, txn[p])
    BY <1>4, <1>5, <2>3 DEF Seen, Read, Changed, Entered, Answered, Stored, Storing
  <2>. QED
    BY <2>2, <2>4 DEF Sound
<1>7. UNCHANGED <<now, uc, bso, batch, acked, torn>> /\ txn' = [txn EXCEPT ![p] = txn[p]]
  BY Same DEF CheckPrecondition, KeepStore
<1>8. Fits(p, txn[p])
  BY Same, KeptLocksFit
<1>. QED
  BY <1>1, <1>2, <1>3, <1>4, <1>5, <1>6, <1>7, <1>8, PlainStep

(* validate. *)
LEMMA ValidateStep ==
  ASSUME BatchInv, NEW p \in Clients, ValidateBatch(p)
  PROVE  BatchInv'
<1>1. CASE Close(p)
  BY <1>1, CloseStep
<1>2. CASE ~Close(p)
  <2>1. req[p].pc = "find" /\ req[p].id # NewBatch
        /\ req[p] \in Request /\ txn[p] \in Txn /\ work[p] \in Work
    BY State DEF ValidateBatch
  <2>2. Goto(p, "items") /\ UNCHANGED work /\ KeepStore
    BY <1>2 DEF ValidateBatch
  <2>3. PICK r \in Request : /\ req' = [req EXCEPT ![p] = r]
                             /\ Advanced(r, req[p], "items", req[p].id, req[p].status,
                                         req[p].failed)
    BY <2>2, GotoFields DEF Pcs
  <2>4. /\ r.pc = "items" /\ r.coll = req[p].coll /\ r.ts = req[p].ts
        /\ r.status = req[p].status /\ r.id = req[p].id
    BY <2>3 DEF Advanced
  <2>5. Sound(r, txn[p], work[p])
    <3>1. r.id \in BatchIds
      BY <2>1, <2>4, RequestFields
    <3>2. /\ Asked(req[p]) /\ Holding(req[p], txn[p]) /\ Unchanged(work[p])
          /\ Seen(req[p], txn[p], work[p])
      BY <2>1, State DEF Sound, Changed
    <3>3. Asked(r) /\ Holding(r, txn[p]) /\ Seen(r, txn[p], work[p])
      BY <2>1, <2>4, <3>1, <3>2 DEF Asked, Holding, Entered, Seen, Read
    <3>4. Changed(r, work[p]) /\ Stored(r, txn[p])
      BY <2>4, <3>2 DEF Changed, Entered, Answered, Stored, Storing
    <3>. QED
      BY <3>3, <3>4 DEF Sound
  <2>6. /\ UNCHANGED <<now, uc, bso, batch, acked, torn>> /\ txn' = [txn EXCEPT ![p] = txn[p]]
        /\ work' = [work EXCEPT ![p] = work[p]]
    BY <2>2, Same DEF KeepStore
  <2>7. Fits(p, txn[p])
    BY Same, KeptLocksFit
  <2>. QED
    BY <2>1, <2>3, <2>4, <2>5, <2>6, <2>7, PlainStep
<1>. QED
  BY <1>1, <1>2

(* A statement of p leaves row in place of batch b. *)
Wrote(w, p, b, row) ==
    /\ work' = [work EXCEPT ![p] = w]
    /\ w.snap = work[p].snap /\ w.lock = {b} /\ w.row = row
    /\ w.mine <=> (work[p].mine \/ row # Latest(p, b))

LEMMA WritingFields ==
  ASSUME BatchInv, NEW p \in Clients, NEW b \in BatchIds, NEW row \in Batch \cup {NoBatch},
         Writing(p, b, row)
  PROVE  \E w \in Work : Wrote(w, p, b, row)
<1>. DEFINE old  == work[p]
            mine == old.mine \/ row # Latest(p, b)
            w    == [old EXCEPT !.lock = {b}, !.row = row, !.mine = mine]
<1>1. old \in Work /\ mine \in BOOLEAN
  BY State, WorkFields
<1>2. work' = [work EXCEPT ![p] = w]
  BY DEF Writing
<1>. HIDE DEF old, mine
<1>. DEFINE w1 == [old EXCEPT !.lock = {b}]
<1>3. w1 \in Work /\ w1.snap = old.snap /\ w1.lock = {b}
  BY <1>1 DEF Work
<1>. HIDE DEF w1
<1>. DEFINE w2 == [w1 EXCEPT !.row = row]
<1>4. w2 \in Work /\ w2.snap = old.snap /\ w2.lock = {b} /\ w2.row = row
  BY <1>3 DEF Work
<1>. HIDE DEF w2
<1>. DEFINE w3 == [w2 EXCEPT !.mine = mine]
<1>5. w3 \in Work /\ w3.snap = old.snap /\ w3.lock = {b} /\ w3.row = row /\ w3.mine = mine
  BY <1>1, <1>4 DEF Work
<1>. HIDE DEF w3
<1>6. w = w3
  BY DEF w1, w2, w3
<1>. HIDE DEF w
<1>7. w3.mine <=> (work[p].mine \/ row # Latest(p, b))
  BY <1>5, Zenon DEF mine, old
<1>. QED
  BY <1>2, <1>5, <1>6, <1>7, Zenon DEF old, Wrote

(* The same for a step that locks a row of the batches. *)
LEMMA RowStep ==
  ASSUME BatchInv, NEW p \in Clients, NEW r \in Request, NEW w \in Work, NEW b,
         req' = [req EXCEPT ![p] = r], work' = [work EXCEPT ![p] = w],
         UNCHANGED <<now, uc, bso, txn, batch, acked, torn>>,
         Sound(r, txn[p], w), BatchFree(p, b), w.lock = {b}, r.coll = req[p].coll
  PROVE  BatchInv'
<1>1. \A q \in Clients \ {p} : req[q].coll = r.coll => w.lock \cap work[q].lock = {}
  BY DEF BatchFree
<1>2. /\ txn' = [txn EXCEPT ![p] = txn[p]] /\ Fits(p, txn[p]) /\ txn[p] \in Txn
  BY Same, State, KeptLocksFit
<1>3. torn \subseteq torn' /\ torn' \in SUBSET Collections
  BY DEF BatchInv, TypeOK
<1>4. UNCHANGED <<now, uc, bso, batch, acked>>
  OBVIOUS
<1>. QED
  BY <1>1, <1>2, <1>3, <1>4, LocalStep

LEMMA FurtherFields ==
  ASSUME NEW s \in Request, NEW pc \in Pcs, NEW id \in BatchIds \cup {NewBatch}
  PROVE  Advanced([s EXCEPT !.pc = pc, !.id = id], s, pc, id, s.status, s.failed)
<1>. DEFINE r1 == [s EXCEPT !.pc = pc]
<1>1. Advanced(r1, s, pc, s.id, s.status, s.failed)
  BY DEF Advanced, Request, Pcs
<1>. HIDE DEF r1
<1>2. Advanced([r1 EXCEPT !.id = id], s, pc, id, s.status, s.failed)
  BY <1>1 DEF Advanced, Request
<1>. QED
  BY <1>2 DEF r1

\* The request answered with a status, and its BSO as failed or not.
Answering(s, pc, status, failed) ==
    [s EXCEPT !.pc = pc, !.status = status, !.failed = failed]

Statuses == {0, 200, 202}
Flags    == BOOLEAN

LEMMA AnsweredFields ==
  ASSUME NEW s \in Request, NEW pc \in Pcs, NEW status \in Statuses, NEW failed \in Flags
  PROVE  Advanced(Answering(s, pc, status, failed), s, pc, s.id, status, failed)
<1>. DEFINE r1 == [s EXCEPT !.pc = pc]
            r2 == [r1 EXCEPT !.status = status]
            r3 == [r2 EXCEPT !.failed = failed]
<1>1. Answering(s, pc, status, failed) = r3
  BY DEF Answering
<1>2. Advanced(r1, s, pc, s.id, s.status, s.failed)
  BY DEF Advanced, Request, Pcs
<1>. HIDE DEF r1
<1>3. Advanced(r2, s, pc, s.id, status, s.failed)
  BY <1>2 DEF Advanced, Request, Statuses
<1>. HIDE DEF r2
<1>4. Advanced(r3, s, pc, s.id, status, failed)
  BY <1>3 DEF Advanced, Request, Flags
<1>. HIDE DEF r3
<1>. QED
  BY <1>1, <1>4

(* create. *)
LEMMA CreateStep ==
  ASSUME BatchInv, NEW p \in Clients, CreateBatch(p)
  PROVE  BatchInv'
<1>1. CASE Close(p)
  BY <1>1, CloseStep
<1>2. CASE ~Close(p)
  <2>. DEFINE s   == req[p]
              new == [exp |-> s.ts + Lifetime, items |-> <<>>]
              r   == [s EXCEPT !.pc = "items", !.id = s.ts]
  <2>1. /\ s.pc = "find" /\ s \in Request /\ txn[p] \in Txn /\ BatchFree(p, s.ts)
        /\ batch[s.coll][s.ts] = NoBatch /\ Writing(p, s.ts, new) /\ KeepStore
        /\ req' = [req EXCEPT ![p] = r]
    BY <1>2, State DEF CreateBatch
  <2>2. /\ Asked(s) /\ Holding(s, txn[p]) /\ Unchanged(work[p]) /\ Seen(s, txn[p], work[p])
    BY <2>1, State DEF Sound, Changed
  <2>3. s.ts \in BatchIds /\ s.ts \in 1..now /\ s.ts \in Nat
    <3>1. s.ts \in 1..now /\ now \in 1..MaxTime
      BY <2>1, <2>2, State DEF Asked
    <3>. QED
      BY <3>1, MaxTimeAssumption DEF BatchIds
  <2>4. new \in Batch /\ new # NoBatch /\ new.items = <<>> /\ new.exp > s.ts
    <3>1. s.ts + Lifetime \in Nat /\ s.ts + Lifetime > s.ts
      BY <2>3, BatchAssumption
    <3>2. new \in Batch
      BY <3>1, MoreRecords, SMTT(30) DEF Batch
    <3>. QED
      BY <3>1, <3>2, NamesAssumption
  <2>5. Advanced(r, s, "items", s.ts, s.status, s.failed)
    <3>. HIDE DEF r, s
    <3>. QED
      BY <2>1, <2>3, FurtherFields DEF Pcs, r
  <2>. HIDE DEF new, r
  <2>6. PICK w \in Work : Wrote(w, p, s.ts, new)
    BY <2>1, <2>3, <2>4, WritingFields
  <2>7. Latest(p, s.ts) = NoBatch
    BY <2>1, <2>2 DEF Latest, Unchanged
  <2>8. w.mine
    BY <2>4, <2>6, <2>7, Zenon DEF Wrote
  <2>9. /\ r \in Request /\ r.pc = "items" /\ r.coll = s.coll /\ r.ts = s.ts
        /\ r.status = s.status /\ r.id = s.ts
    BY <2>5 DEF Advanced
  <2>10. Created(r, w)
    BY <2>1, <2>4, <2>6, <2>8, <2>9 DEF Created, Wrote
  <2>11. Sound(r, txn[p], w)
    <3>1. Asked(r)
      <4>1. s.status = 0
        BY <2>1, <2>2 DEF Asked
      <4>. QED
        BY <2>3, <2>9, <4>1 DEF Asked
    <3>2. Holding(r, txn[p])
      BY <2>1, <2>2, <2>9 DEF Holding, Entered
    <3>3. Seen(r, txn[p], w)
      <4>1. w.snap = work[p].snap /\ Read(s) /\ r.coll = s.coll
        BY <2>1, <2>6, <2>9 DEF Wrote, Read
      <4>2. Seen(s, txn[p], work[p])
        BY <2>2
      <4>. HIDE DEF s
      <4>. QED
        BY <4>1, <4>2, Zenon DEF Seen
    <3>4. Changed(r, w) /\ Stored(r, txn[p])
      BY <2>9, <2>10 DEF Changed, Entered, Answered, Stored, Storing
    <3>. QED
      BY <3>1, <3>2, <3>3, <3>4, Zenon DEF Sound
  <2>. QED
    BY <2>1, <2>6, <2>9, <2>11, RowStep DEF KeepStore, Wrote
<1>. QED
  BY <1>1, <1>2

(* The latest row of its batch, before a request's first answer. *)
LEMMA LatestRow ==
  ASSUME BatchInv, NEW p \in Clients, req[p].pc \in {"items", "apply", "delete"}
  PROVE  /\ Latest(p, req[p].id) \in Batch \cup {NoBatch}
         /\ Latest(p, req[p].id) # NoBatch =>
               Latest(p, req[p].id).items = acked[req[p].coll][req[p].id]
         /\ Unchanged(work[p]) => Latest(p, req[p].id) = batch[req[p].coll][req[p].id]
         /\ ~Unchanged(work[p]) => /\ Latest(p, req[p].id) = work[p].row
                                   /\ Latest(p, req[p].id) # NoBatch
<1>. DEFINE r == req[p]
            w == work[p]
<1>1. r \in Request /\ w \in Work /\ r.coll \in Collections /\ Asked(r) /\ Changed(r, w)
  BY State, RequestFields DEF Sound
<1>2. r.id \in BatchIds
  BY <1>1 DEF Asked
<1>3. /\ batch[r.coll][r.id] \in Batch \cup {NoBatch}
      /\ acked[r.coll][r.id] = IF batch[r.coll][r.id] = NoBatch THEN <<>>
                               ELSE batch[r.coll][r.id].items
  BY <1>1, <1>2 DEF BatchInv, TypeOK, AcknowledgedIsHeld
<1>4. CASE Unchanged(w)
  BY <1>3, <1>4 DEF Latest, Unchanged
<1>5. CASE Created(r, w)
  <2>1. Latest(p, r.id) = w.row /\ w.row # NoBatch /\ w.row.items = <<>>
        /\ batch[r.coll][r.id] = NoBatch /\ ~Unchanged(w)
    BY <1>5 DEF Latest, Created, Unchanged
  <2>. QED
    BY <1>1, <1>3, <2>1, WorkFields
<1>6. CASE Found(r, w)
  <2>1. Latest(p, r.id) = w.row /\ w.row # NoBatch /\ batch[r.coll][r.id] = w.row
        /\ ~Unchanged(w)
    BY <1>6 DEF Latest, Found, Unchanged
  <2>. QED
    BY <1>1, <1>3, <2>1, WorkFields
<1>. QED
  BY <1>1, <1>4, <1>5, <1>6 DEF Changed

\* The request once append has answered; done: it has found its batch and appended.
AppendDone(r, s, done) ==
    /\ r \in Request /\ r.coll = s.coll /\ r.ts = s.ts /\ r.item = s.item /\ r.id = s.id
    /\ \/ r.pc = "apply" /\ r.status = 0 /\ r.item = NoItem
       \/ r.pc = "commit" /\ r.status = 202
    /\ r.failed <=> ~done

AppendsOrFails(p, done) ==
    LET s   == req[p]
        row == Latest(p, s.id)
    IN
    /\ done => Valid(row, s.ts) /\ (s.item # NoItem => Len(row.items) < MaxItems)
    /\ IF done THEN Writing(p, s.id, Appended(row, s.item)) ELSE UNCHANGED work
    /\ \E r : req' = [req EXCEPT ![p] = r] /\ AppendDone(r, s, done)

LEMMA AppendRequest ==
  ASSUME BatchInv, NEW p \in Clients, AppendToBatch(p)
  PROVE  \E done \in BOOLEAN : AppendsOrFails(p, done)
<1>. DEFINE s      == req[p]
            row    == Latest(p, s.id)
            pc     == IF s.commit THEN "apply" ELSE "commit"
            status == IF s.commit THEN 0 ELSE 202
<1>1. s \in Request /\ s.pc = "items" /\ (s.commit => s.item = NoItem)
  BY State DEF AppendToBatch, AppendHere
<1>2. PICK failed \in {~Valid(row, s.ts), MayFail} :
        /\ Valid(row, s.ts) \/ failed
        /\ ~failed /\ s.item # NoItem => Len(row.items) < MaxItems
        /\ IF failed THEN UNCHANGED work ELSE Writing(p, s.id, Appended(row, s.item))
        /\ req' = [req EXCEPT ![p].pc = IF s.commit THEN "apply" ELSE "commit",
                              ![p].status = IF s.commit THEN 0 ELSE 202,
                              ![p].failed = failed]
  BY Zenon DEF AppendToBatch
<1>12. req' = [req EXCEPT ![p] = Answering(s, pc, status, failed)]
  <2>. HIDE DEF row
  <2>. QED
    BY <1>2, ZenonT(60) DEF Answering
<1>3. pc \in Pcs /\ status \in Statuses /\ failed \in Flags
  <2>1. MayFail \in BOOLEAN
    BY BatchAssumption
  <2>2. failed \in BOOLEAN
    BY <1>2, <2>1, Zenon
  <2>3. pc \in Pcs /\ status \in Statuses
    BY DEF Pcs, Statuses
  <2>. QED
    BY <2>2, <2>3, Zenon DEF Flags
<1>4. \/ pc = "apply" /\ status = 0 /\ s.item = NoItem
      \/ pc = "commit" /\ status = 202
  BY <1>1
<1>. HIDE DEF pc, status, s, row
<1>5. Advanced(Answering(s, pc, status, failed), s, pc, s.id, status, failed)
  BY <1>1, <1>3, AnsweredFields, Zenon
<1>. DEFINE r == Answering(s, pc, status, failed)
<1>. HIDE DEF r
<1>6. Advanced(r, s, pc, s.id, status, failed) /\ req' = [req EXCEPT ![p] = r]
  BY <1>5, <1>12, Zenon DEF r
<1>7. r.failed <=> failed
  BY <1>6, Zenon DEF Advanced
<1>8. AppendDone(r, s, ~failed)
  BY <1>4, <1>6, <1>7 DEF Advanced, AppendDone
<1>9. ~failed => Valid(row, s.ts) /\ (s.item # NoItem => Len(row.items) < MaxItems)
  BY <1>2, Zenon
<1>10. IF ~failed THEN Writing(p, s.id, Appended(row, s.item)) ELSE UNCHANGED work
  BY <1>2, Zenon
<1>11. AppendsOrFails(p, ~failed)
  BY <1>6, <1>8, <1>9, <1>10, ZenonT(60) DEF AppendsOrFails, s, row
<1>. QED
  BY <1>11, Zenon

(* append. *)
LEMMA AppendStep ==
  ASSUME BatchInv, NEW p \in Clients, AppendToBatch(p)
  PROVE  BatchInv'
<1>. DEFINE s     == req[p]
            row   == Latest(p, s.id)
            new   == Appended(row, s.item)
<1>0. PICK found \in BOOLEAN : AppendsOrFails(p, found)
  BY AppendRequest
<1>1. /\ s.pc = "items" /\ s \in Request /\ txn[p] \in Txn /\ BatchFree(p, s.id) /\ KeepStore
      /\ found /\ s.item # NoItem => Len(row.items) < MaxItems
      /\ IF found THEN Writing(p, s.id, new) ELSE UNCHANGED work
  BY <1>0, State DEF AppendToBatch, AppendsOrFails
<1>2. PICK r : req' = [req EXCEPT ![p] = r] /\ AppendDone(r, s, found)
  BY <1>0, Zenon DEF AppendsOrFails
<1>3. /\ Asked(s) /\ Holding(s, txn[p]) /\ Seen(s, txn[p], work[p]) /\ work[p] \in Work
      /\ Unchanged(work[p]) \/ Created(s, work[p])
  BY <1>1, State DEF Sound, Changed
<1>4. s.id \in BatchIds /\ s.item \in Record \cup {NoItem}
  BY <1>1, <1>3, RequestFields DEF Asked
<1>5. /\ row \in Batch \cup {NoBatch}
      /\ row # NoBatch => row.items = acked[s.coll][s.id]
      /\ Unchanged(work[p]) => row = batch[s.coll][s.id]
      /\ ~Unchanged(work[p]) => row = work[p].row /\ row # NoBatch
  BY <1>1, LatestRow
<1>6. found => row # NoBatch
  BY <1>0, Zenon DEF Valid, AppendsOrFails
<1>8. s.item = NoItem => new = row
  BY DEF Appended
<1>9. ASSUME found
      PROVE  /\ new \in Batch /\ new # NoBatch
             /\ new.items = IF s.item = NoItem THEN acked[s.coll][s.id]
                            ELSE Append(acked[s.coll][s.id], s.item)
  <2>1. row \in Batch /\ (s.item # NoItem => Len(row.items) < MaxItems)
    BY <1>1, <1>5, <1>6, <1>9
  <2>. HIDE DEF row
  <2>. QED
    BY <1>4, <1>5, <1>6, <1>9, <2>1, AppendedFields
<1>. HIDE DEF row, new
<1>10. Asked(r) /\ Holding(r, txn[p]) /\ Stored(r, txn[p])
  BY <1>1, <1>2, <1>3, <1>4 DEF AppendDone, Asked, Holding, Entered, Stored, Storing
<1>11. CASE ~found
  <2>1. Unchanged(work[p]) \/ Created(r, work[p])
    BY <1>2, <1>3 DEF AppendDone, Created
  <2>2. Seen(r, txn[p], work[p])
    <3>1. r.coll = s.coll /\ Read(s) /\ Seen(s, txn[p], work[p])
      BY <1>1, <1>2, <1>3 DEF AppendDone, Read
    <3>. HIDE DEF s
    <3>. QED
      BY <3>1, SeenAs
  <2>3. Changed(r, work[p])
    <3>1. r.failed /\ (r.pc = "apply" \/ (r.pc = "commit" /\ r.status = 202))
      BY <1>2, <1>11 DEF AppendDone
    <3>2. CASE r.pc = "apply"
      BY <2>1, <3>2 DEF Changed, Entered, Answered
    <3>3. CASE r.pc = "commit" /\ r.status = 202
      BY <2>1, <3>1, <3>3 DEF Changed, Entered, Answered
    <3>. QED
      BY <3>1, <3>2, <3>3
  <2>4. /\ UNCHANGED <<now, uc, bso, batch, acked, torn>> /\ txn' = [txn EXCEPT ![p] = txn[p]]
        /\ work' = [work EXCEPT ![p] = work[p]] /\ Fits(p, txn[p])
    BY <1>1, <1>11, Same, KeptLocksFit DEF KeepStore
  <2>5. Sound(r, txn[p], work[p])
    BY <1>10, <2>2, <2>3 DEF Sound
  <2>6. r \in Request /\ r.coll = s.coll
    BY <1>2 DEF AppendDone
  <2>. QED
    BY <1>1, <1>2, <1>3, <2>4, <2>5, <2>6, PlainStep
<1>12. CASE found
  <2>1. PICK w \in Work : Wrote(w, p, s.id, new)
    BY <1>1, <1>4, <1>9, <1>12, WritingFields
  <2>2. /\ w.snap = work[p].snap /\ w.lock = {s.id} /\ w.row = new
        /\ work' = [work EXCEPT ![p] = w]
        /\ (w.mine <=> (work[p].mine \/ new # row))
    BY <2>1, Zenon DEF Wrote, row
  <2>3. r \in Request /\ r.coll = s.coll /\ r.ts = s.ts /\ r.id = s.id /\ r.item = s.item
        /\ ~r.failed
    BY <1>2, <1>12, Zenon DEF AppendDone
  <2>4. ASSUME r.pc = "apply", r.item = NoItem PROVE Changed(r, w)
    <3>1. new = row /\ new # NoBatch
      BY <1>8, <1>9, <1>12, <2>3, <2>4
    <3>2. w.mine <=> work[p].mine
      BY <2>2, <3>1
    <3>3. ASSUME Unchanged(work[p]) PROVE Found(r, w)
      <4>1. ~w.mine
        BY <3>2, <3>3 DEF Unchanged
      <4>. QED
        BY <1>5, <2>2, <2>3, <3>1, <3>3, <4>1, Zenon DEF Found
    <3>4. ASSUME Created(s, work[p]) PROVE Created(r, w)
      <4>1. row = work[p].row /\ w.mine
        BY <1>5, <3>2, <3>4 DEF Created, Unchanged
      <4>. QED
        BY <2>2, <2>3, <3>1, <3>4, <4>1 DEF Created
    <3>5. Created(r, w) \/ Found(r, w)
      BY <1>3, <3>3, <3>4
    <3>. QED
      BY <2>4, <3>5 DEF Changed, Entered, Answered
  <2>5. ASSUME r.pc = "commit", r.status = 202 PROVE Changed(r, w)
    <3>1. Received(r, w)
      BY <1>9, <1>12, <2>2, <2>3 DEF Received
    <3>. QED
      BY <2>3, <2>5, <3>1 DEF Changed, Entered, Answered
  <2>6. Changed(r, w)
    BY <1>2, <2>4, <2>5 DEF AppendDone
  <2>7. Seen(r, txn[p], w)
    BY <1>1, <1>3, <2>2, <2>3 DEF Seen, Read
  <2>8. Sound(r, txn[p], w)
    BY <1>10, <2>6, <2>7 DEF Sound
  <2>. QED
    BY <1>1, <1>2, <2>2, <2>3, <2>8, RowStep DEF KeepStore
<1>. QED
  BY <1>11, <1>12

(* Statements that write rows of bso, or the row of the collection. *)

LEMMA HoldingKept ==
  ASSUME NEW s, NEW r, NEW u, NEW t, Holding(s, u), Entered(s), Entered(r),
         r.coll = s.coll, r.ts = s.ts, SameLocks(t, u)
  PROVE  Holding(r, t)
BY DEF Holding, SameLocks

LEMMA TouchingStep ==
  ASSUME BatchInv, NEW p \in Clients, NEW u \in Txn, SameLocks(u, txn[p]),
         NEW r \in Request, Entered(req[p]), Entered(r), r.coll = req[p].coll, r.ts = req[p].ts,
         Upsertable(p, r.coll)
  PROVE  LET t == Touched(u, r.coll, r.ts) IN
         /\ t \in Txn /\ t.wb = u.wb /\ t.gaps = txn[p].gaps /\ r.coll \in t.excl
         /\ Holding(r, t) /\ Fits(p, t)
<1>. DEFINE c == r.coll
            t == Touched(u, c, r.ts)
<1>1. /\ c \in CollKeys /\ r.ts \in Absent..MaxTime /\ Holding(req[p], txn[p])
      /\ txn[p] \in Txn
  <2>1. r.coll \in Collections /\ r.ts \in 0..MaxTime
    BY RequestFields
  <2>. QED
    BY <2>1, State, MaxTimeAssumption DEF Sound, CollKeys
<1>2. Fields(t, u.excl \cup {c}, u.share, u.gaps, u.rows, u.all, [u.wc EXCEPT ![c] = r.ts], u.wb)
  <2>. HIDE DEF c
  <2>. DEFINE m == r.ts
  <2>1. m \in Absent..MaxTime
    BY <1>1
  <2>. HIDE DEF m
  <2>2. Fields(Touched(u, c, m), u.excl \cup {c}, u.share, u.gaps, u.rows, u.all,
               [u.wc EXCEPT ![c] = m], u.wb)
    BY <1>1, <2>1, TouchedFields
  <2>. QED
    BY <2>2 DEF m
<1>. HIDE DEF t
<1>3. /\ t \in Txn /\ t.excl = txn[p].excl \cup {c} /\ t.share = txn[p].share
      /\ t.gaps = txn[p].gaps /\ t.wb = u.wb /\ t.wc = [txn[p].wc EXCEPT ![c] = r.ts]
  BY <1>2 DEF Fields, SameLocks
<1>4. /\ txn[p].share = {} /\ txn[p].excl \cup txn[p].gaps = {c}
      /\ txn[p].wc[c] # NotSet => c \in txn[p].excl
      /\ \A k \in CollKeys \ {c} : txn[p].wc[k] = NotSet
  BY <1>1 DEF Holding
<1>5. Holding(r, t)
  <2>1. t.wc[c] = r.ts /\ \A k \in CollKeys \ {c} : t.wc[k] = NotSet
    BY <1>1, <1>3, <1>4 DEF Txn
  <2>. QED
    BY <1>3, <1>4, <2>1 DEF Holding
<1>6. ASSUME NEW q \in Clients \ {p}
      PROVE  t.excl \cap Locked(txn[q]) = {} /\ txn[q].excl \cap Locked(t) = {}
  <2>1. c \notin txn[q].excl /\ c \notin txn[q].share
    BY DEF Upsertable, Lockable
  <2>2. c \notin txn[q].gaps
    <3>1. CASE txn[p].wc[c] # NotSet
      BY <1>4, <3>1, State DEF Locked
    <3>2. CASE txn[p].wc[c] = NotSet
      <4>1. CollView(txn[p], c) = uc[c]
        BY <3>2 DEF CollView
      <4>2. CASE uc[c] = Absent
        BY <4>1, <4>2 DEF Upsertable, Insertable
      <4>3. CASE uc[c] # Absent
        BY <4>3, State
      <4>. QED
        BY <4>2, <4>3
    <3>. QED
      BY <3>1, <3>2
  <2>3. txn[p].excl \cap Locked(txn[q]) = {} /\ txn[q].excl \cap Locked(txn[p]) = {}
    BY State
  <2>4. Locked(t) = Locked(txn[p]) \cup {c}
    BY <1>3 DEF Locked
  <2>5. c \notin Locked(txn[q])
    BY <2>1, <2>2 DEF Locked
  <2>. QED
    BY <1>3, <2>1, <2>3, <2>4, <2>5
<1>7. Fits(p, t)
  <2>1. \A k \in t.gaps : uc[k] = Absent
    BY <1>3, State
  <2>. QED
    BY <1>6, <2>1 DEF Fits
<1>. QED
  BY <1>3, <1>5, <1>7 DEF t

\* The request further on, with its BSO failed or not.
Failing(s, pc, failed) == [s EXCEPT !.pc = pc, !.failed = failed]

LEMMA FailingFields ==
  ASSUME NEW s \in Request, NEW pc \in Pcs, NEW failed \in Flags
  PROVE  Advanced(Failing(s, pc, failed), s, pc, s.id, s.status, failed)
<1>. DEFINE r1 == [s EXCEPT !.pc = pc]
            r2 == [r1 EXCEPT !.failed = failed]
<1>1. Failing(s, pc, failed) = r2
  BY DEF Failing
<1>2. Advanced(r1, s, pc, s.id, s.status, s.failed)
  BY DEF Advanced, Request, Pcs
<1>. HIDE DEF r1
<1>3. Advanced(r2, s, pc, s.id, s.status, failed)
  BY <1>2 DEF Advanced, Request, Flags
<1>. HIDE DEF r2
<1>. QED
  BY <1>1, <1>3

(* post_bsos with the BSO of a committing request. *)
LEMMA PostStep ==
  ASSUME BatchInv, NEW p \in Clients, PostBso(p)
  PROVE  BatchInv'
<1>. DEFINE s == req[p]
            put == Putting(txn[p], s.coll, {s.item.id}, s.item.body, s.ts)
<1>1. /\ s.pc = "items" /\ s.item # NoItem /\ UNCHANGED work
      /\ s \in Request /\ txn[p] \in Txn /\ work[p] \in Work /\ StoreTypeOK
  BY State DEF PostBso, AppendHere
<1>2. PICK fails \in {FALSE, MayFail} :
        /\ SetTxn(p, IF fails THEN txn[p] ELSE put)
        /\ req' = [req EXCEPT ![p] = Failing(s, "touch", fails)]
  BY ZenonT(60) DEF PostBso, Failing
<1>3. fails \in Flags
  BY BatchAssumption DEF Flags
<1>. DEFINE r == Failing(s, "touch", fails)
            t == IF fails THEN txn[p] ELSE put
<1>4. Advanced(r, s, "touch", s.id, s.status, fails)
  BY <1>1, <1>3, FailingFields DEF Pcs
<1>5. /\ Asked(s) /\ Holding(s, txn[p]) /\ Seen(s, txn[p], work[p])
      /\ Unchanged(work[p]) \/ Created(s, work[p])
  BY <1>1, State DEF Sound, Changed
<1>6. t \in Txn /\ SameLocks(t, txn[p])
  <2>1. /\ s.coll \in Collections /\ s.item \in Record /\ s.ts \in 1..now /\ now \in 1..MaxTime
    BY <1>1, <1>5, State, RequestFields DEF Asked
  <2>2. s.item.id \in Ids /\ s.item.body \in Columns
    BY <2>1, BodiesAreColumns DEF Record
  <2>3. s.ts \in 1..MaxTime
    BY <2>1, MaxTimeAssumption
  <2>4. SameLocks(put, txn[p])
    <3>. DEFINE i == s.item.id
                body == s.item.body
                c == s.coll
                ts == s.ts
    <3>1. i \in Ids /\ body \in Columns /\ c \in Collections /\ ts \in 1..MaxTime
      BY <2>1, <2>2, <2>3
    <3>. HIDE DEF i, body, c, ts
    <3>2. SameLocks(Putting(txn[p], c, {i}, body, ts), txn[p])
      BY <1>1, <3>1, PuttingLocks
    <3>. QED
      BY <3>2, Zenon DEF i, body, c, ts
  <2>5. SameLocks(txn[p], txn[p])
    BY Same
  <2>. HIDE DEF put
  <2>. QED
    BY <2>4, <2>5 DEF SameLocks
<1>. HIDE DEF r, t
<1>7. r \in Request /\ r.pc = "touch" /\ r.coll = s.coll /\ r.ts = s.ts /\ r.id = s.id
      /\ r.status = s.status
  BY <1>4 DEF Advanced
<1>8. Sound(r, t, work[p])
  <2>1. Asked(r)
    BY <1>1, <1>5, <1>7 DEF Asked
  <2>2. Holding(r, t)
    BY <1>1, <1>5, <1>6, <1>7, HoldingKept DEF Entered
  <2>3. Seen(r, t, work[p])
    BY <1>1, <1>5, <1>6, <1>7 DEF Seen, Read, SameLocks
  <2>4. Changed(r, work[p])
    BY <1>5, <1>7 DEF Changed, Entered, Answered, Created
  <2>5. Stored(r, t)
    BY <1>7 DEF Stored, Storing
  <2>. QED
    BY <2>1, <2>2, <2>3, <2>4, <2>5 DEF Sound
<1>9. /\ req' = [req EXCEPT ![p] = r] /\ txn' = [txn EXCEPT ![p] = t]
      /\ UNCHANGED <<now, uc, bso, batch, acked, torn>> /\ work' = [work EXCEPT ![p] = work[p]]
  <2>1. SetTxn(p, t)
    BY <1>2 DEF t
  <2>. QED
    BY <1>1, <1>2, <2>1, Same, SetTxnFields DEF r
<1>. QED
  BY <1>1, <1>6, <1>7, <1>8, <1>9, KeptLocksFit, PlainStep

(* touch_collection. *)
LEMMA TouchStep ==
  ASSUME BatchInv, NEW p \in Clients, Touch(p)
  PROVE  BatchInv'
<1>. DEFINE s == req[p]
<1>1. /\ s.pc = "touch" /\ Upsertable(p, s.coll) /\ UNCHANGED work
      /\ s \in Request /\ txn[p] \in Txn /\ work[p] \in Work
  BY State DEF Touch
<1>. DEFINE failing(f) == s.failed \/ f
<1>2. PICK fails \in {FALSE, MayFail} :
        /\ SetTxn(p, IF fails THEN txn[p] ELSE Touched(txn[p], s.coll, s.ts))
        /\ req' = [req EXCEPT ![p] = Failing(s, "apply", failing(fails))]
  BY ZenonT(60) DEF Touch, Failing
<1>. DEFINE failed == failing(fails)
            r == Failing(s, "apply", failed)
<1>10. failed \in Flags
  BY <1>1, BatchAssumption, RequestFields DEF Flags
<1>. HIDE DEF failed
<1>11. Advanced(r, s, "apply", s.id, s.status, failed)
  BY <1>1, <1>10, FailingFields DEF Pcs
<1>. HIDE DEF r
<1>12. r \in Request /\ req' = [req EXCEPT ![p] = r]
  BY <1>2, <1>11 DEF Advanced, r, failed
<1>3. r.pc = "apply" /\ r.coll = s.coll /\ r.ts = s.ts /\ r.id = s.id /\ r.status = s.status
  BY <1>11 DEF Advanced
<1>4. /\ Asked(s) /\ Seen(s, txn[p], work[p]) /\ Holding(s, txn[p])
      /\ Unchanged(work[p]) \/ Created(s, work[p])
  BY <1>1, State DEF Sound, Changed
<1>. DEFINE touched == Touched(txn[p], r.coll, r.ts)
            t == IF fails THEN txn[p] ELSE touched
<1>5. Entered(s) /\ Entered(r) /\ SameLocks(txn[p], txn[p]) /\ Upsertable(p, r.coll)
  BY <1>1, <1>3, Same DEF Entered
<1>6. t \in Txn /\ t.gaps = txn[p].gaps /\ Holding(r, t) /\ Fits(p, t)
  <2>1. /\ touched \in Txn /\ touched.gaps = txn[p].gaps /\ Holding(r, touched)
        /\ Fits(p, touched)
    BY <1>1, <1>3, <1>5, <1>12, TouchingStep
  <2>2. Holding(r, txn[p]) /\ Fits(p, txn[p])
    BY <1>1, <1>3, <1>4, <1>5, HoldingKept, KeptLocksFit
  <2>. HIDE DEF touched
  <2>. QED
    BY <1>1, <2>1, <2>2
<1>7. /\ txn' = [txn EXCEPT ![p] = t] /\ UNCHANGED <<now, uc, bso, batch, acked, torn>>
      /\ work' = [work EXCEPT ![p] = work[p]]
  <2>1. SetTxn(p, t)
    BY <1>2, <1>3
  <2>. QED
    BY <1>1, <2>1, Same, SetTxnFields
<1>. HIDE DEF t
<1>8. Sound(r, t, work[p])
  <2>1. Asked(r) /\ Seen(r, t, work[p])
    BY <1>1, <1>3, <1>4, <1>6 DEF Asked, Seen, Read
  <2>2. Changed(r, work[p]) /\ Stored(r, t)
    BY <1>3, <1>4 DEF Changed, Entered, Answered, Created, Stored, Storing
  <2>. QED
    BY <1>6, <2>1, <2>2 DEF Sound
<1>. QED
  BY <1>1, <1>3, <1>6, <1>7, <1>8, <1>12, PlainStep

(* The row commit reads: where the collection had a row to lock, it holds    *)
(* the records the batch acknowledged, or the batch is gone.                 *)
LEMMA GotRow ==
  ASSUME BatchInv, NEW p \in Clients, req[p].pc = "apply", Valid(Got(p), req[p].ts)
  PROVE  /\ Got(p).items \in Records
         /\ req[p].coll \notin txn[p].gaps =>
               acked[req[p].coll][req[p].id] \in {Got(p).items, <<>>}
<1>. DEFINE r == req[p]
            w == work[p]
            g == Got(p)
<1>1. /\ r \in Request /\ w \in Work /\ r.coll \in Collections /\ Asked(r)
      /\ Unchanged(w) \/ Created(r, w) \/ Found(r, w)
      /\ Seen(r, txn[p], w)
  BY State, RequestFields DEF Sound, Changed
<1>2. r.id \in BatchIds
  BY <1>1 DEF Asked
<1>3. g \in Batch \cup {NoBatch} /\ g # NoBatch
  <2>1. w.row \in Batch \cup {NoBatch} /\ w.snap[r.coll][r.id] \in Batch \cup {NoBatch}
    BY <1>1, <1>2, WorkFields
  <2>2. g \in {w.row, w.snap[r.coll][r.id]}
    BY DEF Got
  <2>3. g # NoBatch
    BY DEF Valid
  <2>. HIDE DEF g
  <2>. QED
    BY <2>1, <2>2, <2>3
<1>4. acked[r.coll][r.id] = IF batch[r.coll][r.id] = NoBatch THEN <<>>
                            ELSE batch[r.coll][r.id].items
  BY <1>1, <1>2 DEF BatchInv, AcknowledgedIsHeld
<1>5. ASSUME r.coll \notin txn[p].gaps PROVE acked[r.coll][r.id] \in {g.items, <<>>}
  <2>1. CASE w.mine
    <3>1. Created(r, w)
      BY <1>1, <2>1 DEF Unchanged, Found
    <3>. QED
      BY <1>4, <2>1, <3>1 DEF Created, Got
  <2>2. CASE ~w.mine
    <3>1. g = w.snap[r.coll][r.id]
      BY <2>2 DEF Got
    <3>2. batch[r.coll][r.id] \in {w.snap[r.coll][r.id], NoBatch}
      BY <1>1, <1>2, <1>5 DEF Seen, Read
    <3>. QED
      BY <1>3, <1>4, <3>1, <3>2
  <2>. QED
    BY <2>1, <2>2
<1>6. g.items \in Records
  <2>. HIDE DEF g
  <2>. QED
    BY <1>3, BatchFields
<1>. QED
  BY <1>5, <1>6

(* commit writes the records and touches the collection. *)
LEMMA CommitBatchStep ==
  ASSUME BatchInv, NEW p \in Clients, CommitBatch(p)
  PROVE  BatchInv'
<1>1. CASE Close(p)
  BY <1>1, CloseStep
<1>2. CASE ~Close(p)
  <2>. DEFINE s == req[p]
              items == Got(p).items
  <2>1. /\ s.pc = "apply" /\ Valid(Got(p), s.ts) /\ Upsertable(p, s.coll) /\ UNCHANGED work
        /\ Goto(p, "delete")
        /\ s \in Request /\ txn[p] \in Txn /\ work[p] \in Work /\ StoreTypeOK
    BY <1>2, State DEF CommitBatch
  <2>2. PICK ok \in SUBSET DOMAIN items :
          /\ ~MayFail => ok = DOMAIN items
          /\ SetTxn(p, Touched(Replayed(txn[p], s.coll, items, ok, s.ts), s.coll, s.ts))
    BY <1>2 DEF CommitBatch
  <2>3. /\ items \in Records
        /\ s.coll \notin txn[p].gaps => acked[s.coll][s.id] \in {items, <<>>}
    BY <2>1, GotRow
  <2>. HIDE DEF items
  <2>4. PICK r \in Request : /\ req' = [req EXCEPT ![p] = r]
                             /\ Advanced(r, s, "delete", s.id, s.status, s.failed)
    BY <2>1, GotoFields DEF Pcs
  <2>5. r.pc = "delete" /\ r.coll = s.coll /\ r.ts = s.ts /\ r.id = s.id /\ r.status = s.status
    BY <2>4 DEF Advanced
  <2>6. /\ Asked(s) /\ Seen(s, txn[p], work[p])
        /\ Unchanged(work[p]) \/ Created(s, work[p]) \/ Found(s, work[p])
    BY <2>1, State DEF Sound, Changed
  <2>7. s.coll \in Collections /\ s.ts \in 1..MaxTime
    <3>1. s.coll \in Collections /\ s.ts \in 1..now /\ now \in 1..MaxTime
      BY <2>1, <2>6, State, RequestFields DEF Asked
    <3>. QED
      BY <3>1, MaxTimeAssumption
  <2>. DEFINE u == Replayed(txn[p], s.coll, items, ok, s.ts)
              t == Touched(u, r.coll, r.ts)
  <2>8. SameLocks(u, txn[p]) /\ (~MayFail => Stores(u, s.coll, items, Len(items)))
    <3>. DEFINE c == s.coll
                ts == s.ts
    <3>1. c \in Collections /\ ts \in 1..MaxTime
      BY <2>7
    <3>. HIDE DEF c, ts
    <3>2. SameLocks(Replayed(txn[p], c, items, ok, ts), txn[p])
          /\ (1..Len(items) \subseteq ok
              => Stores(Replayed(txn[p], c, items, ok, ts), c, items, Len(items)))
      BY <2>1, <2>3, <3>1, ReplayedStores
    <3>3. ~MayFail => 1..Len(items) \subseteq ok
      BY <2>2, <2>3, RecordsFields
    <3>. QED
      BY <3>2, <3>3, Zenon DEF c, ts
  <2>9. txn' = [txn EXCEPT ![p] = t] /\ UNCHANGED <<now, uc, bso, batch, acked, torn>>
        /\ work' = [work EXCEPT ![p] = work[p]]
    BY <2>1, <2>2, <2>5, Same, SetTxnFields
  <2>. HIDE DEF u
  <2>10. /\ t \in Txn /\ t.wb = u.wb /\ t.gaps = txn[p].gaps /\ r.coll \in t.excl
         /\ Holding(r, t) /\ Fits(p, t)
    <3>1. u \in Txn /\ Entered(s) /\ Entered(r) /\ Upsertable(p, r.coll)
      BY <2>1, <2>5, <2>8 DEF SameLocks, Entered
    <3>. QED
      BY <2>5, <2>8, <3>1, TouchingStep
  <2>. HIDE DEF t
  <2>11. Sound(r, t, work[p])
    <3>1. Asked(r) /\ Seen(r, t, work[p])
      BY <2>1, <2>5, <2>6, <2>10 DEF Asked, Seen, Read
    <3>2. Changed(r, work[p])
      BY <2>5, <2>6, SMTT(30) DEF Changed, Entered, Answered, Created, Found
    <3>3. r.coll \notin t.gaps /\ ~MayFail =>
             Stores(t, r.coll, acked[r.coll][r.id], Len(acked[r.coll][r.id]))
      <4>1. ASSUME r.coll \notin t.gaps, ~MayFail
            PROVE  Stores(t, r.coll, acked[r.coll][r.id], Len(acked[r.coll][r.id]))
        <5>1. Stores(t, r.coll, items, Len(items))
          BY <2>5, <2>8, <2>10, <4>1, ZenonT(60) DEF Stores
        <5>2. Stores(t, r.coll, <<>>, Len(<<>>))
          BY MoreRecords DEF Stores
        <5>3. acked[r.coll][r.id] = items \/ acked[r.coll][r.id] = <<>>
          BY <2>3, <2>5, <2>10, <4>1
        <5>. QED
          BY <5>1, <5>2, <5>3, Zenon
      <4>. QED
        BY <4>1, Zenon
    <3>4. Stored(r, t)
      BY <2>5, <2>10, <3>3 DEF Stored, Storing
    <3>. QED
      BY <2>10, <3>1, <3>2, <3>4 DEF Sound
  <2>. QED
    BY <2>1, <2>4, <2>5, <2>9, <2>10, <2>11, PlainStep
<1>. QED
  BY <1>1, <1>2

LEMMA StatusFields ==
  ASSUME NEW s \in Request
  PROVE  Advanced([s EXCEPT !.pc = "commit", !.status = 200], s, "commit", s.id, 200, s.failed)
<1>. DEFINE r1 == [s EXCEPT !.pc = "commit"]
<1>1. Advanced(r1, s, "commit", s.id, s.status, s.failed)
  BY DEF Advanced, Request
<1>. HIDE DEF r1
<1>2. Advanced([r1 EXCEPT !.status = 200], s, "commit", s.id, 200, s.failed)
  BY <1>1 DEF Advanced, Request
<1>. QED
  BY <1>2 DEF r1

(* ... and deletes the batch. *)
LEMMA DeleteStep ==
  ASSUME BatchInv, NEW p \in Clients, DeleteBatch(p)
  PROVE  BatchInv'
<1>. DEFINE s == req[p]
            r == [s EXCEPT !.pc = "commit", !.status = 200]
<1>1. /\ s.pc = "delete" /\ BatchFree(p, s.id) /\ Writing(p, s.id, NoBatch) /\ KeepStore
      /\ req' = [req EXCEPT ![p] = r]
      /\ s \in Request /\ txn[p] \in Txn /\ work[p] \in Work
  BY State, ZenonT(60) DEF DeleteBatch
<1>2. /\ Asked(s) /\ Seen(s, txn[p], work[p]) /\ Holding(s, txn[p]) /\ Stored(s, txn[p])
  BY <1>1, State DEF Sound
<1>3. s.id \in BatchIds
  BY <1>1, <1>2 DEF Asked
<1>4. Advanced(r, s, "commit", s.id, 200, s.failed)
  BY <1>1, StatusFields
<1>. HIDE DEF r
<1>5. /\ r \in Request /\ r.pc = "commit" /\ r.coll = s.coll /\ r.ts = s.ts /\ r.id = s.id
      /\ r.status = 200
  BY <1>4 DEF Advanced
<1>6. PICK w \in Work : Wrote(w, p, s.id, NoBatch)
  BY <1>1, <1>3, WritingFields
<1>7. /\ work' = [work EXCEPT ![p] = w] /\ w.snap = work[p].snap /\ w.lock = {s.id}
      /\ w.row = NoBatch
  BY <1>6 DEF Wrote
<1>8. Sound(r, txn[p], w)
  <2>1. Asked(r) /\ Holding(r, txn[p])
    BY <1>1, <1>2, <1>5 DEF Asked, Holding, Entered
  <2>2. Seen(r, txn[p], w)
    BY <1>1, <1>2, <1>5, <1>7, SeenAs DEF Read
  <2>3. Stored(r, txn[p])
    <3>1. Storing(s) /\ Stored(s, txn[p]) /\ r.coll = s.coll /\ r.id = s.id
      BY <1>1, <1>2, <1>5 DEF Storing
    <3>. HIDE DEF s
    <3>. QED
      BY <3>1, Zenon DEF Stored
  <2>4. Changed(r, w)
    BY <1>5, <1>7 DEF Changed, Entered, Answered
  <2>. QED
    BY <2>1, <2>2, <2>3, <2>4, Zenon DEF Sound
<1>. QED
  BY <1>1, <1>5, <1>7, <1>8, RowStep, ZenonT(60) DEF KeepStore

-----------------------------------------------------------------------------
(* The commit of a transaction. *)

\* What p's commit leaves of batch b and of its acknowledged records.
CommittedRow(p, b) ==
    IF b \in work[p].lock THEN work[p].row ELSE batch[req[p].coll][b]

CommittedItems(p, b) ==
    LET r == req[p] IN
    IF b # r.id THEN acked[r.coll][b]
    ELSE IF r.status = 200 THEN <<>>
    ELSE IF r.failed \/ r.item = NoItem THEN acked[r.coll][b]
    ELSE Append(acked[r.coll][b], r.item)

LEMMA CommitEffects ==
  ASSUME BatchInv, NEW p \in Clients, CommitRequest(p)
  PROVE  /\ req[p].pc = "commit" /\ req[p].coll \in Collections /\ req[p].id \in BatchIds
         /\ req' = [req EXCEPT ![p] = Idle] /\ txn' = [txn EXCEPT ![p] = NoTxn]
         /\ work' = [work EXCEPT ![p] = NoWork] /\ now' = now /\ torn' = torn
         /\ uc' = [k \in CollKeys |-> CollView(txn[p], k)]
         /\ bso' = [c \in Collections |-> [i \in Ids |-> BsoView(txn[p], c, i)]]
         /\ \A c \in Collections \ {req[p].coll} : batch'[c] = batch[c] /\ acked'[c] = acked[c]
         /\ \A b \in BatchIds : /\ batch'[req[p].coll][b] = CommittedRow(p, b)
                                /\ acked'[req[p].coll][b] = CommittedItems(p, b)
         /\ batch' = [c \in Collections |-> batch'[c]] /\ acked' = [c \in Collections |-> acked'[c]]
         /\ \A c \in Collections : /\ batch'[c] = [b \in BatchIds |-> batch'[c][b]]
                                   /\ acked'[c] = [b \in BatchIds |-> acked'[c][b]]
<1>. DEFINE r == req[p]
            c == r.coll
            lock == work[p].lock
            row  == work[p].row
            new == IF r.status = 200 THEN <<>>
                   ELSE IF r.failed \/ r.item = NoItem THEN acked[c][r.id]
                   ELSE Append(acked[c][r.id], r.item)
            rows == [b \in BatchIds |-> IF b \in lock THEN row ELSE batch[c][b]]
<1>1. /\ r.pc = "commit" /\ req' = [req EXCEPT ![p] = Idle]
      /\ txn' = [txn EXCEPT ![p] = NoTxn]
      /\ work' = [work EXCEPT ![p] = NoWork] /\ now' = now /\ torn' = torn
      /\ uc' = [k \in CollKeys |-> CollView(txn[p], k)]
      /\ bso' = [d \in Collections |-> [i \in Ids |-> BsoView(txn[p], d, i)]]
  BY DEF CommitRequest, Commit
<1>2. c \in Collections /\ r.id \in BatchIds
  BY <1>1, State, RequestFields DEF Sound, Asked
<1>3. /\ batch \in [Collections -> [BatchIds -> Batch \cup {NoBatch}]]
      /\ acked \in [Collections -> [BatchIds -> Records]]
  BY DEF BatchInv, TypeOK
<1>4. batch' = [batch EXCEPT ![c] = rows]
  BY DEF CommitRequest
<1>. DEFINE items == [acked[c] EXCEPT ![r.id] = new]
<1>5. acked' = [acked EXCEPT ![c] = items]
  BY DEF CommitRequest
<1>. HIDE DEF new, rows, c
<1>6. items = [b \in BatchIds |-> items[b]] /\ rows = [b \in BatchIds |-> rows[b]]
      /\ \A b \in BatchIds : items[b] = IF b = r.id THEN new ELSE acked[c][b]
  BY <1>2, <1>3 DEF rows
<1>. HIDE DEF items
<1>7. /\ \A d \in Collections \ {c} : batch'[d] = batch[d] /\ acked'[d] = acked[d]
      /\ batch'[c] = rows /\ acked'[c] = items
      /\ \A d \in Collections : /\ batch'[d] = [b \in BatchIds |-> batch'[d][b]]
                                /\ acked'[d] = [b \in BatchIds |-> acked'[d][b]]
      /\ batch' = [d \in Collections |-> batch'[d]] /\ acked' = [d \in Collections |-> acked'[d]]
  <2>1. /\ \A d \in Collections \ {c} : batch'[d] = batch[d] /\ acked'[d] = acked[d]
        /\ batch'[c] = rows /\ acked'[c] = items
        /\ batch' = [d \in Collections |-> batch'[d]] /\ acked' = [d \in Collections |-> acked'[d]]
    BY <1>2, <1>3, <1>4, <1>5
  <2>2. ASSUME NEW d \in Collections
        PROVE  /\ batch'[d] = [b \in BatchIds |-> batch'[d][b]]
               /\ acked'[d] = [b \in BatchIds |-> acked'[d][b]]
    <3>1. CASE d = c
      BY <1>6, <2>1, <3>1
    <3>2. CASE d # c
      BY <1>3, <2>1, <3>2
    <3>. QED
      BY <3>1, <3>2
  <2>. QED
    BY <2>1, <2>2
<1>8. \A b \in BatchIds : rows[b] = CommittedRow(p, b)
  BY DEF rows, CommittedRow, c
<1>9. \A b \in BatchIds : items[b] = CommittedItems(p, b)
  BY <1>6, SMTT(30) DEF new, CommittedItems, c
<1>. QED
  BY <1>1, <1>2, <1>7, <1>8, <1>9 DEF c

(* History and rows agree after a commit, and it changes no row it has not   *)
(* locked; only a committed batch disappears.                                *)
LEMMA CommittedAgree ==
  ASSUME BatchInv, NEW p \in Clients, req[p].pc = "commit", NEW b \in BatchIds
  PROVE  /\ CommittedRow(p, b) \in Batch \cup {NoBatch}
         /\ CommittedItems(p, b) = IF CommittedRow(p, b) = NoBatch THEN <<>>
                                   ELSE CommittedRow(p, b).items
         /\ b \notin work[p].lock => /\ CommittedRow(p, b) = batch[req[p].coll][b]
                                     /\ CommittedItems(p, b) = acked[req[p].coll][b]
         /\ CommittedRow(p, b) = NoBatch /\ batch[req[p].coll][b] # NoBatch
               => req[p].status = 200
<1>. DEFINE r == req[p]
            w == work[p]
<1>1. /\ r \in Request /\ w \in Work /\ r.coll \in Collections
      /\ Asked(r) /\ Changed(r, w)
  BY State, RequestFields DEF Sound
<1>2. r.status \in {200, 202}
  BY <1>1, RequestFields DEF Asked
<1>3. /\ batch[r.coll][b] \in Batch \cup {NoBatch} /\ w.row \in Batch \cup {NoBatch}
      /\ acked[r.coll][b] = IF batch[r.coll][b] = NoBatch THEN <<>> ELSE batch[r.coll][b].items
  BY <1>1, WorkFields DEF BatchInv, TypeOK, AcknowledgedIsHeld
<1>4. CASE r.status = 200
  <2>1. w.lock = {r.id} /\ w.row = NoBatch
    BY <1>1, <1>4 DEF Changed
  <2>. QED
    BY <1>3, <1>4, <2>1 DEF CommittedRow, CommittedItems
<1>5. CASE r.status = 202
  <2>1. CASE r.failed
    <3>1. Unchanged(w) \/ Created(r, w)
      BY <1>1, <1>5, <2>1 DEF Changed, Answered
    <3>2. CASE Unchanged(w)
      BY <1>3, <1>5, <2>1, <3>2 DEF CommittedRow, CommittedItems, Unchanged
    <3>3. CASE Created(r, w)
      BY <1>3, <1>5, <2>1, <3>3 DEF CommittedRow, CommittedItems, Created
    <3>. QED
      BY <3>1, <3>2, <3>3
  <2>2. CASE ~r.failed
    <3>1. /\ w.lock = {r.id} /\ w.row # NoBatch
          /\ w.row.items = IF r.item = NoItem THEN acked[r.coll][r.id]
                           ELSE Append(acked[r.coll][r.id], r.item)
      BY <1>1, <1>5, <2>2 DEF Changed, Answered, Received
    <3>. QED
      BY <1>3, <1>5, <2>2, <3>1 DEF CommittedRow, CommittedItems
  <2>. QED
    BY <2>1, <2>2
<1>. QED
  BY <1>2, <1>4, <1>5

(* A transaction on the collection of p's excludes p's from its row. *)
LEMMA Excluded ==
  ASSUME BatchInv, NEW p \in Clients, NEW q \in Clients \ {p},
         Entered(req[p]), Entered(req[q]), req[q].coll = req[p].coll
  PROVE  req[p].coll \in txn[p].excl \cup txn[p].gaps /\ req[p].coll \notin txn[p].excl
         /\ req[p].coll \notin txn[q].excl /\ req[p].coll \in txn[q].gaps
<1>. DEFINE c == req[p].coll
<1>1. Holding(req[p], txn[p]) /\ Holding(req[q], txn[q])
  BY State DEF Sound
<1>2. txn[p].excl \cup txn[p].gaps = {c} /\ txn[q].excl \cup txn[q].gaps = {c}
  BY <1>1 DEF Holding
<1>3. /\ txn[p].excl \cap Locked(txn[q]) = {} /\ txn[q].excl \cap Locked(txn[p]) = {}
  BY State
<1>. QED
  BY <1>2, <1>3 DEF Locked

LEMMA CommitStep ==
  ASSUME BatchInv, NEW p \in Clients, CommitRequest(p)
  PROVE  BatchInv'
<1>. DEFINE r == req[p]
            c == r.coll
            t == txn[p]
<1>1. /\ r.pc = "commit" /\ c \in Collections /\ r.id \in BatchIds /\ t \in Txn
      /\ req' = [req EXCEPT ![p] = Idle] /\ txn' = [txn EXCEPT ![p] = NoTxn]
      /\ work' = [work EXCEPT ![p] = NoWork] /\ now' = now /\ torn' = torn
      /\ uc' = [k \in CollKeys |-> CollView(t, k)]
      /\ bso' = [d \in Collections |-> [i \in Ids |-> BsoView(t, d, i)]]
  BY CommitEffects, State
<1>2. /\ \A d \in Collections \ {c} : batch'[d] = batch[d] /\ acked'[d] = acked[d]
      /\ \A b \in BatchIds : /\ batch'[c][b] = CommittedRow(p, b)
                             /\ acked'[c][b] = CommittedItems(p, b)
      /\ batch' = [d \in Collections |-> batch'[d]] /\ acked' = [d \in Collections |-> acked'[d]]
      /\ \A d \in Collections : /\ batch'[d] = [b \in BatchIds |-> batch'[d][b]]
                                /\ acked'[d] = [b \in BatchIds |-> acked'[d][b]]
  BY CommitEffects
<1>3. Entered(r) /\ Holding(r, t) /\ Stored(r, t) /\ Asked(r)
  BY <1>1, State DEF Sound, Entered
<1>4. AcknowledgedIsHeld'
  <2>1. SUFFICES ASSUME NEW d \in Collections, NEW b \in BatchIds
                 PROVE  acked'[d][b] = IF batch'[d][b] = NoBatch THEN <<>> ELSE batch'[d][b].items
    BY DEF AcknowledgedIsHeld, BatchIds
  <2>2. CASE d = c
    BY <1>1, <1>2, <2>2, CommittedAgree
  <2>3. CASE d # c
    BY <1>2, <2>3 DEF BatchInv, AcknowledgedIsHeld
  <2>. QED
    BY <2>2, <2>3
<1>5. /\ batch' \in [Collections -> [BatchIds -> Batch \cup {NoBatch}]]
      /\ acked' \in [Collections -> [BatchIds -> Records]]
  <2>1. ASSUME NEW d \in Collections, NEW b \in BatchIds
        PROVE  batch'[d][b] \in Batch \cup {NoBatch} /\ acked'[d][b] \in Records
    <3>1. batch'[d][b] \in Batch \cup {NoBatch}
      <4>1. CASE d = c
        BY <1>1, <1>2, <4>1, CommittedAgree
      <4>2. CASE d # c
        BY <1>2, <4>2 DEF BatchInv, TypeOK
      <4>. QED
        BY <4>1, <4>2
    <3>2. acked'[d][b] = IF batch'[d][b] = NoBatch THEN <<>> ELSE batch'[d][b].items
      BY <1>4 DEF AcknowledgedIsHeld, BatchIds
    <3>. QED
      BY <3>1, <3>2, MoreRecords, BatchFields
  <2>2. \A d \in Collections : /\ batch'[d] \in [BatchIds -> Batch \cup {NoBatch}]
                               /\ acked'[d] \in [BatchIds -> Records]
    BY <1>2, <2>1
  <2>. QED
    BY <1>2, <2>2
<1>6. uc' \in [CollKeys -> Absent..MaxTime] /\ bso' \in [Collections -> [Ids -> Row \cup {NoRow}]]
  <2>1. /\ uc \in [CollKeys -> Absent..MaxTime]
        /\ bso \in [Collections -> [Ids -> Row \cup {NoRow}]]
        /\ t.wc \in [CollKeys -> NotSet..MaxTime]
        /\ t.wb \in [Collections -> [Ids -> Row \cup {NoRow, NotStaged}]]
    BY <1>1 DEF BatchInv, TypeOK, StoreTypeOK, Txn
  <2>2. \A k \in CollKeys : CollView(t, k) \in Absent..MaxTime
    BY <2>1, MaxTimeAssumption DEF CollView
  <2>3. \A d \in Collections, i \in Ids : BsoView(t, d, i) \in Row \cup {NoRow}
    <3>1. TAKE d \in Collections, i \in Ids
    <3>2. t.wb[d][i] \in Row \cup {NoRow, NotStaged} /\ bso[d][i] \in Row \cup {NoRow}
      BY <2>1
    <3>. QED
      BY <3>2 DEF BsoView, NotStaged
  <2>. QED
    BY <1>1, <2>2, <2>3
<1>7. TypeOK'
  <2>1. req' \in [Clients -> Request] /\ txn' \in [Clients -> Txn] /\ work' \in [Clients -> Work]
    BY <1>1, NothingDone DEF BatchInv, TypeOK, StoreTypeOK
  <2>2. now' \in 1..MaxTime
    BY <1>1, State
  <2>3. StoreTypeOK'
    BY <1>6, <2>1, <2>2 DEF StoreTypeOK, Txn, Row, NoRow, NotStaged, CollKeys
  <2>4. torn' \in SUBSET Collections
    BY <1>1 DEF BatchInv, TypeOK
  <2>. QED
    BY <1>5, <2>1, <2>3, <2>4 DEF TypeOK, Request, Work, Batch, Records, Record, BatchIds
<1>8. /\ req'[p] = Idle /\ txn'[p] = NoTxn /\ work'[p] = NoWork
      /\ \A q \in Clients \ {p} : req'[q] = req[q] /\ txn'[q] = txn[q] /\ work'[q] = work[q]
  BY <1>1 DEF BatchInv, TypeOK, StoreTypeOK
<1>9. Exclusive'
  <2>1. SUFFICES ASSUME NEW a \in Clients, NEW b \in Clients, a # b
                 PROVE  txn'[a].excl \cap Locked(txn'[b]) = {}
    BY DEF Exclusive, Locked
  <2>. QED
    BY <1>8, <2>1, NothingDone DEF BatchInv, Exclusive
<1>10. RowLocks'
  BY <1>8, NothingDone DEF BatchInv, RowLocks, Unchanged
<1>11. GapsAreEmpty'
  <2>1. SUFFICES ASSUME NEW q \in Clients, NEW k \in txn'[q].gaps PROVE uc'[k] = Absent
    BY DEF GapsAreEmpty
  <2>2. CASE q = p
    BY <1>8, <2>1, <2>2, NothingDone
  <2>3. CASE q # p
    <3>1. k \in txn[q].gaps /\ k \in CollKeys /\ uc[k] = Absent
      BY <1>8, <2>1, <2>3, State DEF Txn
    <3>2. k \notin t.excl
      BY <2>3, <3>1, State DEF Locked
    <3>3. t.wc[k] = NotSet
      BY <1>3, <3>1, <3>2 DEF Holding
    <3>. QED
      BY <1>1, <3>1, <3>3 DEF CollView
  <2>. QED
    BY <2>2, <2>3
<1>12. ASSUME NEW q \in Clients PROVE Sound(req[q], txn[q], work[q])'
  <2>1. CASE q = p
    <3>1. Sound(Idle, NoTxn, NoWork)'
      BY NothingDone DEF Sound, Asked, Holding, Entered, Seen, Read, Changed, Answered,
                         Unchanged, Stored, Storing, Idle, NoTxn, NoWork
    <3>. QED
      BY <1>8, <2>1, <3>1, Zenon
  <2>2. CASE q # p
    <3>. DEFINE s == req[q]
                u == txn[q]
                w == work[q]
    <3>1. /\ s \in Request /\ w \in Work
          /\ Asked(s) /\ Holding(s, u) /\ Seen(s, u, w) /\ Changed(s, w) /\ Stored(s, u)
          /\ s.coll \in Collections
      BY State, RequestFields DEF Sound
    <3>2. ASSUME Entered(s), s.coll = c
          PROVE  c \notin u.excl /\ c \in u.gaps /\ r.status # 200
      <4>1. c \notin t.excl /\ c \notin u.excl /\ c \in u.gaps
        BY <1>3, <2>2, <3>2, Excluded
      <4>2. r.status # 200
        BY <1>1, <1>3, <4>1 DEF Stored, Storing
      <4>. QED
        BY <4>1, <4>2
    <3>3. ASSUME NEW b \in BatchIds, b \in w.lock
          PROVE  batch'[s.coll][b] = batch[s.coll][b] /\ acked'[s.coll][b] = acked[s.coll][b]
      <4>1. CASE s.coll = c
        <5>1. b \notin work[p].lock
          BY <2>2, <3>3, <4>1, State
        <5>. QED
          BY <1>1, <1>2, <4>1, <5>1, CommittedAgree
      <4>2. CASE s.coll # c
        BY <1>2, <3>1, <4>2
      <4>. QED
        BY <4>1, <4>2
    <3>4. Asked(s)' /\ Holding(s, u)'
      BY <1>1, <1>8, <2>2, <3>1 DEF Asked, Holding, Entered
    <3>5. Seen(s, u, w)'
      <4>1. SUFFICES ASSUME Read(s)
                     PROVE  /\ s.coll \in torn \/
                                  \A b \in BatchIds : w.snap[s.coll][b] # NoBatch
                                                      => batch'[s.coll][b] # NoBatch
                            /\ s.coll \notin u.gaps =>
                                  \A b \in BatchIds :
                                     batch'[s.coll][b] \in {w.snap[s.coll][b], NoBatch}
        <5>1. req'[q] = s /\ txn'[q] = u /\ work'[q] = w /\ torn' = torn
          BY <1>1, <1>8, <2>2
        <5>. QED
          BY <5>1 DEF Seen, Read, BatchIds
      <4>2. CASE s.coll # c
        <5>1. batch'[s.coll] = batch[s.coll]
          BY <1>2, <3>1, <4>2
        <5>2. Seen(s, u, w) /\ Read(s)
          BY <3>1, <4>1
        <5>. HIDE DEF s, u, w
        <5>. QED
          BY <5>1, <5>2, ZenonT(60) DEF Seen
      <4>3. CASE s.coll = c
        <5>1. c \in u.gaps /\ r.status # 200
          BY <3>2, <4>1, <4>3 DEF Entered, Read
        <5>2. \A b \in BatchIds : batch[c][b] # NoBatch => batch'[c][b] # NoBatch
          BY <1>1, <1>2, <5>1, CommittedAgree, SMTT(30)
        <5>. QED
          BY <3>1, <4>1, <4>3, <5>1, <5>2 DEF Seen
      <4>. QED
        BY <4>2, <4>3
    <3>6. Changed(s, w)'
      <4>1. s.id \in w.lock => /\ s.id \in BatchIds
                               /\ batch'[s.coll][s.id] = batch[s.coll][s.id]
                               /\ acked'[s.coll][s.id] = acked[s.coll][s.id]
        BY <3>1, <3>3, WorkFields
      <4>. QED
        BY <1>8, <2>2, <3>1, <4>1, SMTT(30)
           DEF Changed, Entered, Answered, Unchanged, Created, Found, Received
    <3>7. Stored(s, u)'
      <4>1. ASSUME Storing(s)
            PROVE  s.coll \in u.excl /\ acked'[s.coll] = acked[s.coll]
        <5>1. s.coll \in u.excl
          BY <3>1, <4>1 DEF Stored
        <5>2. s.coll # c
          BY <3>2, <4>1, <5>1 DEF Storing, Entered
        <5>. QED
          BY <1>2, <3>1, <5>1, <5>2
      <4>2. CASE ~Storing(s)
        BY <1>8, <2>2, <4>2, SMTT(30) DEF Stored, Storing
      <4>3. CASE Storing(s)
        <5>1. /\ req'[q] = req[q] /\ txn'[q] = txn[q] /\ acked'[s.coll] = acked[s.coll]
              /\ Stored(s, u) /\ Storing(s)
          BY <1>8, <2>2, <3>1, <4>1, <4>3
        <5>. HIDE <1>8, <1>1, <3>1, <3>4, <3>5, <3>6
        <5>. QED
          BY <5>1, ZenonT(60) DEF Stored, Stores, LastGiven
      <4>. QED
        BY <4>2, <4>3
    <3>. QED
      BY <1>8, <2>2, <3>4, <3>5, <3>6, <3>7 DEF Sound
  <2>. QED
    BY <2>1, <2>2
<1>. QED
  BY <1>4, <1>7, <1>9, <1>10, <1>11, <1>12 DEF BatchInv

-----------------------------------------------------------------------------
(* A request that lost its transaction. *)

LEMMA FewerRecords ==
  ASSUME NEW s \in Records
  PROVE  /\ s # <<>> => Tail(s) \in Records /\ Head(s) \in Record
         /\ \A k \in DOMAIN s : SubSeq(s, k + 1, Len(s)) \in Records
<1>1. s \in Seq(Record) /\ Len(s) <= MaxItems /\ Len(s) \in Nat /\ MaxItems \in Nat
  BY RecordsAreSequences, BatchAssumption
<1>2. ASSUME s # <<>> PROVE Tail(s) \in Records /\ Head(s) \in Record
  <2>1. Tail(s) \in Seq(Record) /\ Len(Tail(s)) = Len(s) - 1 /\ Head(s) \in Record
    BY <1>1, <1>2
  <2>2. Len(Tail(s)) <= MaxItems
    BY <1>1, <2>1
  <2>. QED
    BY <2>1, <2>2, RecordsAreSequences
<1>3. ASSUME NEW k \in DOMAIN s PROVE SubSeq(s, k + 1, Len(s)) \in Records
  <2>1. k \in 1..Len(s)
    BY <1>1
  <2>2. /\ SubSeq(s, k + 1, Len(s)) \in Seq(Record)
        /\ Len(SubSeq(s, k + 1, Len(s))) = Len(s) - k
    BY <1>1, <2>1
  <2>3. Len(SubSeq(s, k + 1, Len(s))) <= MaxItems
    BY <1>1, <2>1, <2>2
  <2>. QED
    BY <2>2, <2>3, RecordsAreSequences
<1>. QED
  BY <1>2, <1>3

\* r is s, at another step without a transaction.
OnItsOwn(r, s) ==
    r \in Request /\ r.coll = s.coll /\ r.id = s.id /\ r.ts = s.ts /\ r.status = 0

LEMMA AloneState ==
  ASSUME BatchInv, NEW p \in Clients, Alone(req[p])
  PROVE  /\ req[p] \in Request /\ req[p].coll \in Collections /\ req[p].id \in BatchIds
         /\ req[p].ts \in 1..now /\ req[p].ts \in 1..MaxTime /\ req[p].coll \in torn
         /\ req[p].left \in Records /\ req[p].status = 0
         /\ txn[p] = NoTxn /\ work[p] \in Work /\ Unchanged(work[p])
<1>1. /\ req[p] \in Request /\ work[p] \in Work /\ now \in 1..MaxTime
      /\ Asked(req[p]) /\ Holding(req[p], txn[p]) /\ Changed(req[p], work[p])
  BY State DEF Sound
<1>2. req[p].ts \in 1..now /\ req[p].id \in BatchIds /\ req[p].coll \in torn
      /\ req[p].status = 0
  BY <1>1 DEF Alone, Asked
<1>3. req[p].ts \in 1..MaxTime
  BY <1>1, <1>2, MaxTimeAssumption
<1>4. txn[p] = NoTxn /\ Unchanged(work[p])
  BY <1>1 DEF Alone, Holding, Entered, Changed
<1>. QED
  BY <1>1, <1>2, <1>3, <1>4, RequestFields

(* It goes on to another step of its own, or ends. *)
LEMMA StepsAlone ==
  ASSUME BatchInv, NEW p \in Clients, Alone(req[p]), NEW r,
         (Alone(r) /\ OnItsOwn(r, req[p])) \/ r = Idle
  PROVE  r \in Request /\ Sound(r, txn[p], work[p])
<1>1. /\ req[p].id \in BatchIds /\ req[p].ts \in 1..now /\ req[p].coll \in torn
      /\ txn[p] = NoTxn /\ Unchanged(work[p])
  BY AloneState
<1>2. CASE r = Idle
  BY <1>1, <1>2, NothingDone DEF Sound, Asked, Holding, Entered, Seen, Read, Changed,
                                 Answered, Stored, Storing
<1>3. CASE Alone(r) /\ OnItsOwn(r, req[p])
  BY <1>1, <1>3, NothingDone DEF OnItsOwn, Alone, Sound, Asked, Holding, Entered, Seen,
                                 Read, Changed, Answered, Stored, Storing
<1>. QED
  BY <1>2, <1>3, NothingDone DEF OnItsOwn

LEMMA QuietStep ==
  ASSUME BatchInv, NEW p \in Clients, Alone(req[p]), NEW r,
         (Alone(r) /\ OnItsOwn(r, req[p])) \/ r = Idle,
         req' = [req EXCEPT ![p] = r], UNCHANGED work, KeepStore
  PROVE  BatchInv'
<1>1. r \in Request /\ Sound(r, txn[p], work[p])
  BY StepsAlone
<1>2. /\ txn' = [txn EXCEPT ![p] = txn[p]] /\ work' = [work EXCEPT ![p] = work[p]]
      /\ UNCHANGED <<now, uc, bso, batch, acked, torn>>
      /\ txn[p] \in Txn /\ work[p] \in Work /\ Fits(p, txn[p])
  BY Same, State, KeptLocksFit DEF KeepStore
<1>3. work[p].lock = {}
  BY AloneState DEF Unchanged
<1>. QED
  BY <1>1, <1>2, <1>3, PlainStep

\* s at a later step, with fewer records left.
Later(s, pc, left) == [s EXCEPT !.pc = pc, !.left = left]

LEMMA LaterFields ==
  ASSUME NEW s \in Request, s.status = 0, NEW left \in Records,
         NEW pc \in {"restamp", "reget", "alone", "stamp", "drop"}
  PROVE  Alone(Later(s, pc, left)) /\ OnItsOwn(Later(s, pc, left), s)
<1>. DEFINE r1 == [s EXCEPT !.pc = pc]
            r2 == [r1 EXCEPT !.left = left]
<1>1. Later(s, pc, left) = r2
  BY DEF Later
<1>2. r1 \in Request /\ r1.pc = pc /\ OnItsOwn(r1, s)
  BY DEF Request, OnItsOwn
<1>. HIDE DEF r1
<1>3. r2 \in Request /\ r2.pc = pc /\ OnItsOwn(r2, s)
  BY <1>2 DEF Request, OnItsOwn
<1>. HIDE DEF r2
<1>. QED
  BY <1>1, <1>3 DEF Alone

LEMMA GetAloneStep ==
  ASSUME BatchInv, NEW p \in Clients, GetAlone(p)
  PROVE  BatchInv'
<1>. DEFINE s == req[p]
            row == batch[s.coll][s.id]
            r == IF Valid(row, s.ts) THEN Later(s, "alone", row.items) ELSE Idle
<1>1. /\ s.pc = "reget" /\ UNCHANGED work /\ KeepStore /\ req' = [req EXCEPT ![p] = r]
  BY DEF GetAlone, Later
<1>2. Alone(s) /\ s \in Request /\ s.status = 0 /\ s.coll \in Collections /\ s.id \in BatchIds
  BY <1>1, AloneState DEF Alone
<1>3. CASE Valid(row, s.ts)
  <2>1. row \in Batch \cup {NoBatch} /\ row # NoBatch
    BY <1>2, <1>3 DEF BatchInv, TypeOK, Valid
  <2>. DEFINE items == row.items
  <2>2. items \in Records
    <3>. HIDE DEF row
    <3>. QED
      BY <2>1, BatchFields
  <2>3. r = Later(s, "alone", items)
    BY <1>3
  <2>. HIDE DEF items, r
  <2>4. Alone(r) /\ OnItsOwn(r, s)
    BY <1>2, <2>2, <2>3, LaterFields
  <2>. QED
    BY <1>1, <1>2, <2>4, QuietStep
<1>4. CASE ~Valid(row, s.ts)
  BY <1>1, <1>2, <1>4, QuietStep
<1>. QED
  BY <1>3, <1>4

LEMMA StampFields ==
  ASSUME BatchInv, NEW p \in Clients, Stamps(req[p]), Goto(p, AfterStamp(req[p]))
  PROVE  \E r : /\ req' = [req EXCEPT ![p] = r] /\ Alone(r) /\ OnItsOwn(r, req[p])
                /\ Alone(req[p])
<1>. DEFINE s == req[p]
            pc == AfterStamp(s)
            r == [s EXCEPT !.pc = pc]
<1>1. Alone(s) /\ pc \in {"reget", "alone", "drop"}
  BY DEF Stamps, Alone, AfterStamp
<1>2. s \in Request /\ s.status = 0
  BY <1>1, AloneState
<1>3. req' = [req EXCEPT ![p] = r]
  BY DEF Goto
<1>. HIDE DEF pc
<1>4. Alone(r) /\ OnItsOwn(r, s)
  BY <1>1, <1>2 DEF Alone, OnItsOwn, Request
<1>. QED
  BY <1>1, <1>3, <1>4

LEMMA FailAloneStep ==
  ASSUME BatchInv, NEW p \in Clients, FailAlone(p)
  PROVE  BatchInv'
<1>. DEFINE s == req[p]
<1>1. UNCHANGED work /\ KeepStore
  BY DEF FailAlone
<1>2. CASE Stamps(s) /\ Goto(p, AfterStamp(s))
  <2>1. PICK r : /\ req' = [req EXCEPT ![p] = r] /\ Alone(r) /\ OnItsOwn(r, s) /\ Alone(s)
    BY <1>2, StampFields
  <2>. QED
    BY <1>1, <2>1, QuietStep
<1>3. CASE s.pc = "alone" /\ s.left # <<>> /\ req' = [req EXCEPT ![p].left = Tail(@)]
  <2>1. Alone(s) /\ s \in Request /\ s.status = 0 /\ s.left \in Records
    BY <1>3, AloneState DEF Alone
  <2>. DEFINE left == Tail(s.left)
              r == [s EXCEPT !.left = left]
  <2>2. left \in Records
    BY <1>3, <2>1, FewerRecords
  <2>3. req' = [req EXCEPT ![p] = r]
    BY <1>3
  <2>. HIDE DEF left
  <2>4. Alone(r) /\ OnItsOwn(r, s)
    BY <1>3, <2>1, <2>2 DEF Alone, OnItsOwn, Request
  <2>. HIDE DEF r
  <2>. QED
    BY <1>1, <2>1, <2>3, <2>4, QuietStep
<1>. QED
  BY <1>2, <1>3 DEF FailAlone

(* It writes a row of bso or of user_collections at once. *)
LEMMA OwnStep ==
  ASSUME BatchInv, NEW p \in Clients, Alone(req[p]), NEW r, Alone(r), OnItsOwn(r, req[p]),
         req' = [req EXCEPT ![p] = r], UNCHANGED <<now, txn, batch, work, acked, torn>>,
         uc' \in [CollKeys -> Absent..MaxTime],
         bso' \in [Collections -> [Ids -> Row \cup {NoRow}]], GapsAreEmpty'
  PROVE  BatchInv'
<1>1. /\ r \in Request /\ Sound(r, txn[p], work[p]) /\ r.coll = req[p].coll
      /\ req \in [Clients -> Request]
  BY StepsAlone DEF OnItsOwn, BatchInv, TypeOK
<1>2. req'[p] = r /\ \A q \in Clients \ {p} : req'[q] = req[q]
  BY <1>1
<1>3. TypeOK'
  <2>1. req' \in [Clients -> Request]
    BY <1>1
  <2>2. StoreTypeOK'
    BY DEF BatchInv, TypeOK, StoreTypeOK
  <2>. QED
    BY <2>1, <2>2 DEF BatchInv, TypeOK
<1>4. Exclusive' /\ AcknowledgedIsHeld'
  BY DEF BatchInv, Exclusive, Locked, AcknowledgedIsHeld
<1>5. RowLocks'
  BY <1>1, <1>2 DEF BatchInv, RowLocks
<1>6. ASSUME NEW q \in Clients PROVE Sound(req[q], txn[q], work[q])'
  <2>1. Sound(req'[q], txn'[q], work'[q])
    BY <1>1, <1>2 DEF BatchInv
  <2>. QED
    BY <2>1, SoundStays
<1>. QED
  BY <1>3, <1>4, <1>5, <1>6 DEF BatchInv

LEMMA PutAloneStep ==
  ASSUME BatchInv, NEW p \in Clients, PutAlone(p)
  PROVE  BatchInv'
<1>. DEFINE s == req[p]
            x == Head(s.left)
            left == Tail(s.left)
            row == Upserted(bso[s.coll][x.id], x.body, s.ts)
            r == Later(s, "stamp", left)
<1>1. /\ s.pc = "alone" /\ s.left # <<>> /\ UNCHANGED <<now, uc, txn, batch, work, acked, torn>>
      /\ bso' = [bso EXCEPT ![s.coll][x.id] = row] /\ req' = [req EXCEPT ![p] = r]
  BY ZenonT(60) DEF PutAlone, Later
<1>2. /\ Alone(s) /\ s \in Request /\ s.status = 0 /\ s.left \in Records
      /\ s.coll \in Collections /\ s.ts \in 1..MaxTime
  BY <1>1, AloneState DEF Alone
<1>3. left \in Records /\ x \in Record
  BY <1>1, <1>2, FewerRecords
<1>4. /\ bso \in [Collections -> [Ids -> Row \cup {NoRow}]]
      /\ uc \in [CollKeys -> Absent..MaxTime] /\ GapsAreEmpty
  BY DEF BatchInv, TypeOK, StoreTypeOK
<1>5. row \in Row
  <2>1. x.id \in Ids /\ x.body \in Columns
    BY <1>3, BodiesAreColumns DEF Record
  <2>. DEFINE old == bso[s.coll][x.id]
              body == x.body
  <2>2. old \in Row \cup {NoRow} /\ body \in Columns
    BY <1>2, <1>4, <2>1
  <2>. HIDE DEF old, body
  <2>3. Upserted(old, body, s.ts) \in Row
    BY <1>2, <2>2, UpsertedType
  <2>. QED
    BY <2>3 DEF old, body
<1>. HIDE DEF row, r, left
<1>6. bso' \in [Collections -> [Ids -> Row \cup {NoRow}]]
  BY <1>1, <1>4, <1>5
<1>7. Alone(r) /\ OnItsOwn(r, s)
  BY <1>2, <1>3, LaterFields DEF r
<1>8. uc' \in [CollKeys -> Absent..MaxTime] /\ GapsAreEmpty'
  BY <1>1, <1>4 DEF GapsAreEmpty
<1>. QED
  BY <1>1, <1>2, <1>6, <1>7, <1>8, OwnStep

LEMMA TouchAloneStep ==
  ASSUME BatchInv, NEW p \in Clients, TouchAlone(p)
  PROVE  BatchInv'
<1>. DEFINE s == req[p]
            c == s.coll
<1>1. /\ Stamps(s) /\ Upsertable(p, c) /\ uc' = [uc EXCEPT ![c] = s.ts]
      /\ Goto(p, AfterStamp(s)) /\ UNCHANGED <<now, bso, txn, batch, work, acked, torn>>
  BY DEF TouchAlone
<1>2. PICK r : /\ req' = [req EXCEPT ![p] = r] /\ Alone(r) /\ OnItsOwn(r, s) /\ Alone(s)
  BY <1>1, StampFields
<1>3. /\ c \in Collections /\ c \in CollKeys /\ s.ts \in 1..MaxTime /\ txn[p] = NoTxn
  BY <1>2, AloneState DEF CollKeys
<1>4. /\ uc \in [CollKeys -> Absent..MaxTime]
      /\ bso' \in [Collections -> [Ids -> Row \cup {NoRow}]]
  BY <1>1 DEF BatchInv, TypeOK, StoreTypeOK
<1>5. uc' \in [CollKeys -> Absent..MaxTime]
  BY <1>1, <1>3, <1>4, MaxTimeAssumption
<1>6. GapsAreEmpty'
  <2>1. SUFFICES ASSUME NEW q \in Clients, NEW k \in txn[q].gaps PROVE uc'[k] = Absent
    BY <1>1 DEF GapsAreEmpty
  <2>2. uc[k] = Absent /\ k \in CollKeys
    BY State DEF Txn
  <2>3. k # c
    <3>1. SUFFICES ASSUME k = c PROVE FALSE
      OBVIOUS
    <3>2. q # p
      BY <1>3, NothingDone
    <3>3. CollView(txn[p], c) = Absent
      BY <1>3, <2>2, <3>1, BegunFields DEF CollView
    <3>. QED
      BY <1>1, <3>1, <3>2, <3>3 DEF Upsertable, Insertable
  <2>. QED
    BY <1>1, <1>4, <2>2, <2>3
<1>. QED
  BY <1>1, <1>2, <1>4, <1>5, <1>6, OwnStep

(* It deletes the batch: nobody has locked its row. *)
LEMMA DeleteAloneStep ==
  ASSUME BatchInv, NEW p \in Clients, DeleteAlone(p)
  PROVE  BatchInv'
<1>. DEFINE s == req[p]
            c == s.coll
<1>1. /\ s.pc = "drop" /\ BatchFree(p, s.id) /\ UNCHANGED <<now, uc, bso, txn, work, torn>>
      /\ batch' = [batch EXCEPT ![c][s.id] = NoBatch]
      /\ acked' = [acked EXCEPT ![c][s.id] = <<>>] /\ req' = [req EXCEPT ![p] = Idle]
  BY DEF DeleteAlone
<1>2. /\ Alone(s) /\ c \in Collections /\ s.id \in BatchIds /\ c \in torn
      /\ work[p].lock = {}
  BY <1>1, AloneState DEF Alone, Unchanged
<1>3. /\ batch \in [Collections -> [BatchIds -> Batch \cup {NoBatch}]]
      /\ acked \in [Collections -> [BatchIds -> Records]] /\ req \in [Clients -> Request]
  BY DEF BatchInv, TypeOK
<1>4. /\ batch' \in [Collections -> [BatchIds -> Batch \cup {NoBatch}]]
      /\ acked' \in [Collections -> [BatchIds -> Records]]
  BY <1>1, <1>3, MoreRecords
<1>5. ASSUME NEW d \in Collections, NEW b \in BatchIds
      PROVE  IF d = c /\ b = s.id THEN batch'[d][b] = NoBatch /\ acked'[d][b] = <<>>
             ELSE batch'[d][b] = batch[d][b] /\ acked'[d][b] = acked[d][b]
  BY <1>1, <1>2, <1>3
<1>6. req'[p] = Idle /\ \A q \in Clients \ {p} : req'[q] = req[q]
  BY <1>1, <1>3
<1>7. TypeOK'
  <2>1. req' \in [Clients -> Request]
    BY <1>1, <1>3, NothingDone
  <2>2. StoreTypeOK'
    BY <1>1 DEF BatchInv, TypeOK, StoreTypeOK
  <2>. QED
    BY <1>1, <1>4, <2>1, <2>2 DEF BatchInv, TypeOK
<1>8. Exclusive' /\ GapsAreEmpty'
  BY <1>1 DEF BatchInv, Exclusive, Locked, GapsAreEmpty
<1>9. RowLocks'
  BY <1>1, <1>2, <1>6 DEF BatchInv, RowLocks
<1>10. AcknowledgedIsHeld'
  <2>1. SUFFICES ASSUME NEW d \in Collections, NEW b \in BatchIds
                 PROVE  acked'[d][b] = IF batch'[d][b] = NoBatch THEN <<>> ELSE batch'[d][b].items
    BY DEF AcknowledgedIsHeld, BatchIds
  <2>2. acked[d][b] = IF batch[d][b] = NoBatch THEN <<>> ELSE batch[d][b].items
    BY DEF BatchInv, AcknowledgedIsHeld
  <2>. QED
    BY <1>5, <2>2
<1>11. ASSUME NEW q \in Clients PROVE Sound(req[q], txn[q], work[q])'
  <2>1. CASE q = p
    <3>1. Sound(Idle, txn[p], work[p])
      BY <1>2, StepsAlone
    <3>2. txn[p] = NoTxn /\ Unchanged(work[p])
      BY <1>2, AloneState
    <3>3. req'[p] = Idle /\ txn'[p] = NoTxn /\ Unchanged(work'[p])
      BY <1>1, <1>6, <3>2
    <3>. QED
      BY <2>1, <3>3, NothingDone, SMTT(30)
      DEF Sound, Asked, Holding, Entered, Seen, Read, Changed, Answered, Unchanged,
          Stored, Storing
  <2>2. CASE q # p
    <3>. DEFINE r == req[q]
                u == txn[q]
                w == work[q]
    <3>1. /\ r \in Request /\ w \in Work /\ r.coll \in Collections
          /\ Asked(r) /\ Holding(r, u) /\ Seen(r, u, w) /\ Changed(r, w) /\ Stored(r, u)
      BY State, RequestFields DEF Sound
    <3>2. req'[q] = r /\ txn'[q] = u /\ work'[q] = w /\ now' = now /\ torn' = torn
      BY <1>1, <1>6, <2>2
    <3>3. ASSUME NEW b \in BatchIds, b \in w.lock
          PROVE  batch'[r.coll][b] = batch[r.coll][b] /\ acked'[r.coll][b] = acked[r.coll][b]
      <4>1. ~(r.coll = c /\ b = s.id)
        BY <1>1, <2>2, <3>3 DEF BatchFree
      <4>. QED
        BY <1>5, <3>1, <4>1
    <3>4. Asked(r)' /\ Holding(r, u)'
      BY <3>1, <3>2 DEF Asked, Holding, Entered
    <3>5. Seen(r, u, w)'
      <4>1. SUFFICES ASSUME Read(r)
                     PROVE  /\ r.coll \in torn \/
                                  \A b \in BatchIds : w.snap[r.coll][b] # NoBatch
                                                      => batch'[r.coll][b] # NoBatch
                            /\ r.coll \notin u.gaps =>
                                  \A b \in BatchIds :
                                     batch'[r.coll][b] \in {w.snap[r.coll][b], NoBatch}
        BY <3>2 DEF Seen, Read, BatchIds
      <4>2. \A b \in BatchIds : batch'[r.coll][b] \in {batch[r.coll][b], NoBatch}
        BY <1>5, <3>1
      <4>3. r.coll # c => \A b \in BatchIds : batch'[r.coll][b] = batch[r.coll][b]
        BY <1>5, <3>1
      <4>. QED
        BY <1>2, <3>1, <4>1, <4>2, <4>3 DEF Seen
    <3>6. Changed(r, w)'
      <4>1. r.id \in w.lock => /\ r.id \in BatchIds
                               /\ batch'[r.coll][r.id] = batch[r.coll][r.id]
                               /\ acked'[r.coll][r.id] = acked[r.coll][r.id]
        BY <3>1, <3>3, WorkFields
      <4>2. Created(r, w) => Created(r, w)'
        BY <3>2, <4>1 DEF Created
      <4>3. Found(r, w) => Found(r, w)'
        BY <3>2, <4>1 DEF Found
      <4>4. Received(r, w) => Received(r, w)'
        BY <3>2, <4>1 DEF Received
      <4>. QED
        BY <3>1, <3>2, <4>2, <4>3, <4>4, SMTT(30) DEF Changed, Entered, Answered, Unchanged
    <3>7. Stored(r, u)'
      <4>1. CASE ~Storing(r)
        BY <3>2, <4>1, SMTT(30) DEF Stored, Storing
      <4>2. CASE Storing(r)
        <5>1. r.id \in BatchIds
          BY <3>1, <4>2 DEF Asked, Storing
        <5>2. acked'[r.coll][r.id] = acked[r.coll][r.id] \/ acked'[r.coll][r.id] = <<>>
          BY <1>5, <3>1, <5>1
        <5>3. /\ req'[q] = r /\ txn'[q] = u /\ Stored(r, u) /\ Storing(r)
          BY <3>1, <3>2, <4>2
        <5>4. CASE acked'[r.coll][r.id] = acked[r.coll][r.id]
          <6>. HIDE <1>1, <1>2, <1>3, <1>4, <1>5, <1>6, <3>1, <3>2, <3>4, <3>5, <3>6
          <6>. QED
            BY <5>3, <5>4, ZenonT(60) DEF Stored, Stores, LastGiven
        <5>5. CASE acked'[r.coll][r.id] = <<>>
          <6>1. 1..Len(acked'[r.coll][r.id]) = {} /\ r.coll \in u.excl
            BY <5>3, <5>5, MoreRecords DEF Stored
          <6>. HIDE <1>1, <1>2, <1>3, <1>4, <1>5, <1>6, <3>1, <3>2, <3>4, <3>5, <3>6
          <6>. QED
            BY <5>3, <6>1, ZenonT(60) DEF Stored, Stores
        <5>. QED
          BY <5>2, <5>4, <5>5
      <4>. QED
        BY <4>1, <4>2
    <3>. QED
      BY <3>2, <3>4, <3>5, <3>6, <3>7 DEF Sound
  <2>. QED
    BY <2>1, <2>2
<1>. QED
  BY <1>7, <1>8, <1>9, <1>10, <1>11 DEF BatchInv

\* What is left of s when it goes on without its transaction.
Remains(s, pc, left) ==
    [Idle EXCEPT !.pc = pc, !.coll = s.coll, !.id = s.id, !.ts = s.ts, !.left = left]

LEMMA RemainsFields ==
  ASSUME NEW s \in Request, NEW left \in Records, s.id \in BatchIds,
         NEW pc \in {"restamp", "reget", "alone", "stamp", "drop"}
  PROVE  Alone(Remains(s, pc, left)) /\ OnItsOwn(Remains(s, pc, left), s)
<1>1. /\ s.coll \in Collections /\ s.id \in BatchIds \cup {NewBatch} /\ s.ts \in 0..MaxTime
  BY RequestFields
<1>. DEFINE r1 == [Idle EXCEPT !.pc = pc]
<1>2. r1 \in Request /\ r1.pc = pc /\ r1.status = 0
  BY NothingDone DEF Request
<1>. HIDE DEF r1
<1>. DEFINE r2 == [r1 EXCEPT !.coll = s.coll]
<1>3. r2 \in Request /\ r2.pc = pc /\ r2.status = 0 /\ r2.coll = s.coll
  BY <1>1, <1>2 DEF Request
<1>. HIDE DEF r2
<1>. DEFINE r3 == [r2 EXCEPT !.id = s.id]
<1>4. r3 \in Request /\ r3.pc = pc /\ r3.status = 0 /\ r3.coll = s.coll /\ r3.id = s.id
  BY <1>1, <1>3 DEF Request
<1>. HIDE DEF r3
<1>. DEFINE r4 == [r3 EXCEPT !.ts = s.ts]
<1>5. /\ r4 \in Request /\ r4.pc = pc /\ r4.status = 0 /\ r4.coll = s.coll /\ r4.id = s.id
      /\ r4.ts = s.ts
  BY <1>1, <1>4 DEF Request
<1>. HIDE DEF r4
<1>. DEFINE r5 == [r4 EXCEPT !.left = left]
<1>6. /\ r5 \in Request /\ r5.pc = pc /\ r5.status = 0 /\ r5.coll = s.coll /\ r5.id = s.id
      /\ r5.ts = s.ts
  BY <1>1, <1>5 DEF Request
<1>. HIDE DEF r5
<1>7. r5 = Remains(s, pc, left)
  BY DEF Remains, r1, r2, r3, r4, r5
<1>. QED
  BY <1>6, <1>7 DEF Alone, OnItsOwn

LEMMA GoesOnSomewhere ==
  ASSUME BatchInv, NEW p \in Clients, LoseTransaction(p)
  PROVE  \E r : req' = [req EXCEPT ![p] = r] /\ Alone(r) /\ OnItsOwn(r, req[p])
<1>. DEFINE s == req[p]
            items == Got(p).items
<1>1. PICK r \in GoesOnAt(p) : req' = [req EXCEPT ![p] = r]
  BY DEF LoseTransaction
<1>2. s.pc \in {"items", "touch", "apply"} /\ (s.pc = "apply" => Valid(Got(p), s.ts))
  BY DEF LoseTransaction
<1>3. s \in Request /\ s.id \in BatchIds
  BY <1>2, State DEF Sound, Asked
<1>4. s.pc = "apply" => items \in Records
  BY <1>2, GotRow
<1>. HIDE DEF items
<1>5. \E pc \in {"restamp", "reget", "alone", "stamp", "drop"}, left \in Records :
        r = Remains(s, pc, left)
  <2>1. CASE s.pc # "apply"
    <3>1. r = Remains(s, IF AppendHere(s) \/ s.failed THEN "reget" ELSE "restamp", <<>>)
      BY <1>1, <2>1 DEF GoesOnAt, Remains
    <3>. QED
      BY <3>1, MoreRecords
  <2>2. CASE s.pc = "apply" /\ items = <<>>
    <3>1. r = Remains(s, "drop", <<>>)
      BY <1>1, <2>2 DEF GoesOnAt, Remains, items
    <3>. QED
      BY <3>1, MoreRecords
  <2>3. CASE s.pc = "apply" /\ items # <<>>
    <3>1. PICK k \in DOMAIN items : r = Remains(s, "alone", SubSeq(items, k + 1, Len(items)))
      BY <1>1, <2>3 DEF GoesOnAt, Remains, items
    <3>2. SubSeq(items, k + 1, Len(items)) \in Records
      BY <1>4, <2>3, FewerRecords
    <3>. QED
      BY <3>1, <3>2
  <2>. QED
    BY <2>1, <2>2, <2>3
<1>6. Alone(r) /\ OnItsOwn(r, s)
  BY <1>3, <1>5, RemainsFields
<1>. QED
  BY <1>1, <1>6

LEMMA LoseStep ==
  ASSUME BatchInv, NEW p \in Clients, LoseTransaction(p)
  PROVE  BatchInv'
<1>. DEFINE s == req[p]
<1>1. PICK r : req' = [req EXCEPT ![p] = r] /\ Alone(r) /\ OnItsOwn(r, s)
  BY GoesOnSomewhere
<1>2. /\ txn' = [txn EXCEPT ![p] = NoTxn] /\ work' = [work EXCEPT ![p] = NoWork]
      /\ UNCHANGED <<now, uc, bso, batch, acked>> /\ torn' = torn \cup {s.coll}
      /\ s.pc \in {"items", "touch", "apply"}
  BY DEF LoseTransaction, Rollback
<1>3. /\ s \in Request /\ s.coll \in Collections /\ s.id \in BatchIds /\ s.ts \in 1..now
      /\ torn \in SUBSET Collections
  BY <1>2, State, RequestFields DEF Sound, Asked, BatchInv, TypeOK
<1>4. torn \subseteq torn' /\ torn' \in SUBSET Collections /\ r.coll \in torn'
  BY <1>1, <1>2, <1>3 DEF OnItsOwn
<1>5. /\ r \in Request /\ r.coll = s.coll /\ r.id = s.id /\ r.ts = s.ts /\ r.status = 0
  BY <1>1 DEF OnItsOwn
<1>6. NoWork.lock = {} /\ NoWork \in Work /\ NoTxn \in Txn /\ Fits(p, NoTxn)
  BY NothingDone, NoLocksFit DEF Unchanged
<1>7. Lost(r, NoTxn, NoWork)
  BY <1>1, <1>3, <1>4, <1>5 DEF Lost
<1>8. \A q \in Clients \ {p} : req[q].coll = r.coll => NoWork.lock \cap work[q].lock = {}
  BY <1>6
<1>. HIDE DEF s
<1>. QED
  BY <1>1, <1>2, <1>4, <1>5, <1>6, <1>7, <1>8, LocalStep

-----------------------------------------------------------------------------
(* The invariant holds of every state. *)

LEMMA InitInv == Init => BatchInv
<1>. SUFFICES ASSUME Init PROVE BatchInv
  OBVIOUS
<1>1. /\ now = 2 /\ 2 \in 1..MaxTime
      /\ uc \in [CollKeys -> Absent..MaxTime]
      /\ bso = [c \in Collections |-> [i \in Ids |-> NoRow]]
      /\ txn = [p \in Clients |-> NoTxn]
      /\ req = [p \in Clients |-> Idle]
      /\ batch = [c \in Collections |-> [b \in BatchIds |-> NoBatch]]
      /\ work = [p \in Clients |-> NoWork]
      /\ acked = [c \in Collections |-> [b \in BatchIds |-> <<>>]] /\ torn = {}
  <2>1. MaxTime \in Nat /\ MaxTime >= 2
    BY MaxTimeAssumption, BatchAssumption
  <2>2. uc \in [CollKeys -> {1, Absent}]
    BY DEF Init
  <2>3. {1, Absent} \subseteq Absent..MaxTime
    BY <2>1
  <2>. QED
    BY <2>1, <2>2, <2>3 DEF Init
<1>2. TypeOK
  BY <1>1, NothingDone, MoreRecords DEF TypeOK, StoreTypeOK
<1>3. Exclusive /\ GapsAreEmpty /\ RowLocks /\ AcknowledgedIsHeld
  BY <1>1, NothingDone DEF Exclusive, GapsAreEmpty, RowLocks, AcknowledgedIsHeld, Unchanged
<1>4. ASSUME NEW p \in Clients PROVE Sound(req[p], txn[p], work[p])
  <2>1. req[p] = Idle /\ txn[p] = NoTxn /\ work[p] = NoWork
    BY <1>1
  <2>. QED
    BY <2>1, NothingDone DEF Sound, Asked, Holding, Entered, Seen, Read, Changed, Answered,
                             Stored, Storing
<1>. QED
  BY <1>2, <1>3, <1>4 DEF BatchInv

LEMMA TickStep ==
  ASSUME BatchInv, Tick, UNCHANGED <<req, batch, work, acked, torn>>
  PROVE  BatchInv'
<1>1. /\ now' = now + 1 /\ now \in 1..MaxTime /\ now' \in 1..MaxTime
      /\ UNCHANGED <<uc, bso, txn, req, batch, work, acked, torn>>
  BY MaxTimeAssumption DEF Tick, BatchInv, TypeOK, StoreTypeOK
<1>2. TypeOK'
  BY <1>1 DEF BatchInv, TypeOK, StoreTypeOK
<1>3. (Exclusive /\ GapsAreEmpty /\ RowLocks /\ AcknowledgedIsHeld)'
  BY <1>1 DEF BatchInv, Exclusive, Locked, GapsAreEmpty, RowLocks, AcknowledgedIsHeld
<1>4. ASSUME NEW p \in Clients PROVE Sound(req[p], txn[p], work[p])'
  <2>1. Sound(req[p], txn[p], work[p]) /\ req[p].ts \in 0..MaxTime
    BY State, RequestFields
  <2>2. Asked(req[p])'
    BY <1>1, <2>1, MaxTimeAssumption DEF Sound, Asked
  <2>3. (/\ Holding(req[p], txn[p]) /\ Seen(req[p], txn[p], work[p])
         /\ Changed(req[p], work[p]) /\ Stored(req[p], txn[p]))'
    <3>1. Sound(req'[p], txn'[p], work'[p])
      BY <1>1, <2>1
    <3>. QED
      BY <1>1, <3>1, PartsStay
  <2>. QED
    BY <2>2, <2>3, Zenon DEF Sound
<1>. QED
  BY <1>2, <1>3, <1>4 DEF BatchInv

LEMMA NextInv == BatchInv /\ [Next]_vars => BatchInv'
<1>. SUFFICES ASSUME BatchInv, [Next]_vars PROVE BatchInv'
  OBVIOUS
<1>1. ASSUME NEW p \in Clients, Start(p) \/ Serve(p) \/ GiveUp(p) PROVE BatchInv'
  <2>1. CASE Start(p)
    BY <2>1, StartStep
  <2>2. CASE Lock(p)
    BY <2>2, LockStep
  <2>3. CASE CheckPrecondition(p)
    BY <2>3, CheckStep
  <2>4. CASE ValidateBatch(p)
    BY <2>4, ValidateStep
  <2>5. CASE CreateBatch(p)
    BY <2>5, CreateStep
  <2>6. CASE AppendToBatch(p)
    BY <2>6, AppendStep
  <2>7. CASE PostBso(p)
    BY <2>7, PostStep
  <2>8. CASE Touch(p)
    BY <2>8, TouchStep
  <2>9. CASE CommitBatch(p)
    BY <2>9, CommitBatchStep
  <2>10. CASE DeleteBatch(p)
    BY <2>10, DeleteStep
  <2>11. CASE CommitRequest(p)
    BY <2>11, CommitStep
  <2>12. CASE GiveUp(p)
    BY <2>12, CloseStep DEF GiveUp
  <2>13. CASE LoseTransaction(p)
    BY <2>13, LoseStep
  <2>14. CASE GetAlone(p) \/ FailAlone(p)
    BY <2>14, GetAloneStep, FailAloneStep
  <2>15. CASE PutAlone(p) \/ TouchAlone(p)
    BY <2>15, PutAloneStep, TouchAloneStep
  <2>16. CASE DeleteAlone(p)
    BY <2>16, DeleteAloneStep
  <2>. QED
    BY <1>1, <2>1, <2>2, <2>3, <2>4, <2>5, <2>6, <2>7, <2>8, <2>9, <2>10, <2>11, <2>12,
       <2>13, <2>14, <2>15, <2>16 DEF Serve, GoesOnAlone
<1>2. CASE Tick /\ UNCHANGED <<req, batch, work, acked, torn>>
  BY <1>2, TickStep
<1>3. CASE UNCHANGED vars
  <2>1. UNCHANGED <<now, uc, bso, txn, req, batch, work, acked, torn>>
    BY <1>3 DEF vars
  <2>2. /\ TypeOK' /\ (Exclusive /\ GapsAreEmpty /\ RowLocks /\ AcknowledgedIsHeld)'
    BY <2>1 DEF BatchInv, TypeOK, StoreTypeOK, Exclusive, Locked, GapsAreEmpty, RowLocks,
                AcknowledgedIsHeld
  <2>3. ASSUME NEW p \in Clients PROVE Sound(req[p], txn[p], work[p])'
    <3>1. Sound(req'[p], txn'[p], work'[p])
      BY <2>1 DEF BatchInv
    <3>. QED
      BY <2>1, <3>1, SoundStays
  <2>. QED
    BY <2>2, <2>3 DEF BatchInv
<1>. QED
  BY <1>1, <1>2, <1>3 DEF Next

LEMMA AlwaysInv == Spec => []BatchInv
BY InitInv, NextInv, PTL DEF Spec

-----------------------------------------------------------------------------
(* The theorems. *)

(* Every request, transaction and row of batches stays well typed: no        *)
(* interleaving of the handlers of post_collection_batch leaves a half made  *)
(* one (mysql/batch.rs).                                                     *)
THEOREM MysqlUploadsTypeCorrect == Spec => []TypeOK
<1>1. BatchInv => TypeOK
  BY DEF BatchInv
<1>. QED
  BY <1>1, AlwaysInv, PTL

(* Of two requests that commit a batch at once only one is answered 200: a   *)
(* batch its snapshot shows is still there when its transaction commits,     *)
(* with a row lock of the collection or with none (lock_for_write_sync and   *)
(* touch_collection of mysql/models.rs, commit of mysql/batch.rs), unless a  *)
(* request has lost its transaction in the collection and goes on.           *)
THEOREM BatchesAreStoredOnce == Spec => StoredOnce
<1>1. ASSUME BatchInv, NEW p \in Clients, Commits(p), req[p].coll \notin torn,
             work[p].snap[req[p].coll][req[p].id] # NoBatch
      PROVE  batch[req[p].coll][req[p].id] # NoBatch
  <2>1. req[p].pc = "commit" /\ req[p].id \in BatchIds
    BY <1>1, CommitEffects DEF Commits
  <2>2. Seen(req[p], txn[p], work[p])
    BY <1>1, State DEF Sound
  <2>. QED
    BY <1>1, <2>1, <2>2 DEF Seen, Read
<1>2. BatchInv => \A p \in Clients : Commits(p) /\ req[p].coll \notin torn =>
        LET r == req[p] IN
        work[p].snap[r.coll][r.id] # NoBatch => batch[r.coll][r.id] # NoBatch
  BY <1>1, SMTT(30)
<1>. QED
  BY <1>2, AlwaysInv, PTL DEF StoredOnce

(* What a commit that stored s leaves of a BSO that s gives a content. *)
LEMMA CommittedContents ==
  ASSUME BatchInv, NEW p \in Clients, Commits(p), req[p].coll \notin txn[p].gaps, ~MayFail,
         NEW i \in Ids, NEW s, s = acked[req[p].coll][req[p].id], Giving(s, i) # {}
  PROVE  bso'[req[p].coll][i].val = s[Last(Giving(s, i))].body.val
<1>. DEFINE c == req[p].coll
            j == Last(Giving(s, i))
<1>1. /\ req[p].pc = "commit" /\ c \in Collections /\ req[p].id \in BatchIds
      /\ bso' = [d \in Collections |-> [k \in Ids |-> BsoView(txn[p], d, k)]]
  BY CommitEffects DEF Commits
<1>2. s \in Records
  BY <1>1 DEF BatchInv, TypeOK
<1>3. Len(s) \in Nat /\ DOMAIN s = 1..Len(s)
  BY <1>2, RecordsFields
<1>4. j \in Giving(s, i) /\ \A l \in Giving(s, i) : l <= j
  <2>1. Giving(s, i) \in SUBSET (1..Len(s))
    BY <1>3 DEF Giving
  <2>. QED
    BY <1>3, <2>1, LastIsGreatest
<1>. HIDE DEF j
<1>5. j \in 1..Len(s) /\ s[j].id = i /\ LastGiven(s, Len(s), j)
  <2>1. j \in 1..Len(s) /\ s[j].id = i /\ s[j].body.val # NotSet
    BY <1>3, <1>4, Zenon DEF Giving
  <2>2. ASSUME NEW l \in j+1..Len(s), s[l].id = s[j].id PROVE s[l].body.val = NotSet
    <3>1. l \in 1..Len(s) /\ ~ (l <= j)
      <4>1. Len(s) \in Nat /\ j \in 1..Len(s)
        BY <1>3, <2>1, Zenon
      <4>. QED
        BY <4>1
    <3>2. l \notin Giving(s, i)
      BY <1>4, <3>1
    <3>. QED
      BY <1>3, <2>1, <2>2, <3>1, <3>2, Zenon DEF Giving
  <2>. QED
    BY <2>1, <2>2, ZenonT(60) DEF LastGiven
<1>6. Stores(txn[p], c, s, Len(s))
  <2>1. Stored(req[p], txn[p])
    BY State, SMTT(30) DEF Sound
  <2>. QED
    BY <1>1, <2>1 DEF Stored, Storing, Commits
<1>7. txn[p].wb[c][i].mod # NotSet /\ txn[p].wb[c][i].val = s[j].body.val
  BY <1>5, <1>6 DEF Stores
<1>8. bso'[c][i] = BsoView(txn[p], c, i)
  BY <1>1
<1>. QED
  BY <1>7, <1>8 DEF BsoView, j

(* Where no statement fails by itself, the commit of a batch whose           *)
(* collection had a row to lock leaves every BSO with the content the last   *)
(* acknowledged record for it gave, however appends and commits overlap      *)
(* (mysql/batch.rs: append concatenates to the row, commit replays it in     *)
(* order and deletes it).                                                    *)
THEOREM AcknowledgedRecordsAreStored == ~MayFail => (Spec => AcknowledgedItemsAreStored)
<1>. SUFFICES ASSUME ~MayFail PROVE Spec => AcknowledgedItemsAreStored
  BY SMTT(30)
<1>1. BatchInv => \A p \in Clients : Commits(p) /\ req[p].coll \notin txn[p].gaps =>
        LET r == req[p]
            s == acked[r.coll][r.id]
        IN  \A i \in Ids :
               /\ Giving(s, i) # {}
               /\ r.item = NoItem \/ r.item.id # i
               => bso'[r.coll][i].val = s[Last(Giving(s, i))].body.val
  BY CommittedContents
<1>. QED
  BY <1>1, AlwaysInv, PTL DEF AcknowledgedItemsAreStored
=============================================================================
