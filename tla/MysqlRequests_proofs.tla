------------------------ MODULE MysqlRequests_proofs ------------------------
(***************************************************************************)
(* The storage requests on MySQL are serialised by their locks.  The       *)
(* inductive invariant, LockInv, says                                      *)
(*   that no transaction has locked a row another one has locked           *)
(*     exclusively, nor the gap it is inserted into (Exclusive), nor a BSO *)
(*     another one has locked (RowsApart),                                 *)
(*   what each transaction is, as a function of its request's progress and *)
(*     of the committed rows (Shape): it has written its whole effect over *)
(*     the rows as they are still committed,                               *)
(*   what its request has read and may rely on (Told), which is less where *)
(*     a request has lost its transaction and goes on without one.         *)
(* From it follow the type invariant, the safety properties and that       *)
(* MysqlRequests implements SyncStore.                                     *)
(***************************************************************************)
EXTENDS MysqlRequests, TLAPS

USE DEF NotSet, Absent

-----------------------------------------------------------------------------
(* What the operators of MysqlStore do to transactions and rows. *)

\* The columns a write may supply.
Columns == [val : Vals \cup {NotSet}, ttl : Nat \cup {NotSet}]

\* No transaction has locked a row another one has locked exclusively, nor the
\* gap it is inserted into.
Locked(t) == t.excl \cup t.share \cup t.gaps

Exclusive ==
    \A p, q \in Clients : p # q => txn[p].excl \cap Locked(txn[q]) = {}

\* Two transactions have locked different BSOs.
Apart(t, u) ==
    /\ t.rows \cap u.rows = {}
    /\ t.all = TRUE => u.rows = {} /\ u.all = FALSE
    /\ u.all = TRUE => t.rows = {} /\ t.all = FALSE

RowsApart == \A p, q \in Clients : p # q => Apart(txn[p], txn[q])

-----------------------------------------------------------------------------
(* The fields of the transactions. *)

Fields(t, excl, share, gaps, rows, all, wc, wb) ==
    /\ t \in Txn /\ t.excl = excl /\ t.share = share /\ t.gaps = gaps
    /\ t.rows = rows /\ t.all = all /\ t.wc = wc /\ t.wb = wb

NoWc == [k \in CollKeys |-> NotSet]
NoWb == [c \in Collections |-> [i \in Ids |-> NotStaged]]

LEMMA BegunFields ==
  /\ NoTxn \in Txn /\ Begun \in Txn
  /\ Begun.open = TRUE
  /\ \A t \in {NoTxn, Begun} :
        /\ t.excl = {} /\ t.share = {} /\ t.gaps = {} /\ t.rows = {} /\ t.all = FALSE
        /\ t.wc = [k \in CollKeys |-> NotSet]
        /\ t.wb = [c \in Collections |-> [i \in Ids |-> NotStaged]]
<1>1. /\ NoTxn.open \in BOOLEAN /\ NoTxn.excl = {} /\ NoTxn.share = {} /\ NoTxn.gaps = {}
      /\ NoTxn.rows = {} /\ NoTxn.all = FALSE
      /\ NoTxn.wc = [k \in CollKeys |-> NotSet]
      /\ NoTxn.wb = [c \in Collections |-> [i \in Ids |-> NotStaged]]
  BY DEF NoTxn
<1>2. NoTxn \in Txn
  <2>1. -2 \in (-2)..MaxTime
    BY MaxTimeAssumption
  <2>. QED
    BY <2>1 DEF NoTxn, Txn
<1>3. Begun \in Txn /\ Begun.open = TRUE
  BY <1>2 DEF Begun, Txn
<1>4. /\ Begun.excl = NoTxn.excl /\ Begun.share = NoTxn.share /\ Begun.gaps = NoTxn.gaps
      /\ Begun.rows = NoTxn.rows /\ Begun.all = NoTxn.all /\ Begun.wc = NoTxn.wc
      /\ Begun.wb = NoTxn.wb
  BY <1>2 DEF Begun, Txn
<1>. QED
  BY <1>1, <1>2, <1>3, <1>4

LEMMA LockedFields ==
  ASSUME NEW k \in CollKeys, NEW t \in {LockedForWrite(k), LockedForRead(k)}
  PROVE  /\ t \in Txn /\ t.rows = {} /\ t.all = FALSE
         /\ t.gaps = IF uc[k] = Absent THEN {k} ELSE {}
         /\ t.wc = [l \in CollKeys |-> NotSet]
         /\ t.wb = [c \in Collections |-> [i \in Ids |-> NotStaged]]
         /\ t = LockedForWrite(k) =>
               t.excl = (IF uc[k] = Absent THEN {} ELSE {k}) /\ t.share = {}
         /\ t = LockedForRead(k) =>
               t.share = (IF uc[k] = Absent THEN {} ELSE {k}) /\ t.excl = {}
<1>. DEFINE gap   == [Begun EXCEPT !.gaps = {k}]
            excl  == [Begun EXCEPT !.excl = {k}]
            share == [Begun EXCEPT !.share = {k}]
<1>1. /\ gap \in Txn /\ gap.rows = {} /\ gap.all = FALSE /\ gap.gaps = {k} /\ gap.excl = {}
      /\ gap.share = {} /\ gap.wc = [l \in CollKeys |-> NotSet]
      /\ gap.wb = [c \in Collections |-> [i \in Ids |-> NotStaged]]
  BY BegunFields DEF Txn
<1>2. /\ excl \in Txn /\ excl.rows = {} /\ excl.all = FALSE /\ excl.gaps = {}
      /\ excl.excl = {k} /\ excl.share = {} /\ excl.wc = [l \in CollKeys |-> NotSet]
      /\ excl.wb = [c \in Collections |-> [i \in Ids |-> NotStaged]]
  BY BegunFields DEF Txn
<1>3. /\ share \in Txn /\ share.rows = {} /\ share.all = FALSE /\ share.gaps = {}
      /\ share.excl = {} /\ share.share = {k} /\ share.wc = [l \in CollKeys |-> NotSet]
      /\ share.wb = [c \in Collections |-> [i \in Ids |-> NotStaged]]
  BY BegunFields, SMTT(30) DEF Txn
<1>4. /\ LockedForWrite(k) = IF uc[k] = Absent THEN gap ELSE excl
      /\ LockedForRead(k) = IF uc[k] = Absent THEN gap ELSE share
  BY DEF LockedForWrite, LockedForRead
<1>. HIDE DEF gap, excl, share
<1>5. excl # share
  BY <1>2, <1>3
<1>6. CASE uc[k] = Absent
  BY <1>1, <1>4, <1>6
<1>7. CASE uc[k] # Absent
  <2>1. LockedForWrite(k) = excl /\ LockedForRead(k) = share
    BY <1>4, <1>7
  <2>. QED
    BY <1>2, <1>3, <1>5, <1>7, <2>1
<1>. QED
  BY <1>6, <1>7

LEMMA UpsertedType ==
  ASSUME NEW row \in Row \cup {NoRow}, NEW body \in Columns, NEW ts \in 1..MaxTime
  PROVE  /\ Upserted(row, body, ts) \in Row
         /\ Upserted(row, body, ts).mod \in {row.mod, ts}
         /\ Upserted(row, body, ts).mod # Absent
<1>. DEFINE new == [mod |-> ts, exp |-> Expiry(ts, body.ttl),
                    val |-> IF body.val = NotSet THEN 0 ELSE body.val]
            old == [mod |-> IF body.val = NotSet THEN row.mod ELSE ts,
                    exp |-> IF body.ttl = NotSet THEN row.exp ELSE ts + body.ttl,
                    val |-> IF body.val = NotSet THEN row.val ELSE body.val]
<1>1. /\ body.val \in Vals \cup {NotSet} /\ body.ttl \in Nat \cup {NotSet}
      /\ ts \in Nat /\ MaxTime \in Nat /\ Vals \subseteq Nat /\ 0 \in Vals
  BY ValsAssumption, MaxTimeAssumption DEF Columns
<1>2. Expiry(ts, body.ttl) \in Nat
  BY <1>1 DEF Expiry, DefaultTtl
<1>3. new \in Row /\ new.mod = ts /\ new.mod # Absent
  BY <1>1, <1>2 DEF Row
<1>4. CASE Present(row)
  <2>1. row \in Row
    BY <1>4 DEF Present, NoRow
  <2>2. old \in Row /\ old.mod \in {row.mod, ts} /\ old.mod # Absent
    <3>1. row.mod \in 1..MaxTime /\ row.exp \in Nat /\ row.val \in Vals
      BY <2>1 DEF Row
    <3>2. (IF body.ttl = NotSet THEN row.exp ELSE ts + body.ttl) \in Nat
      BY <1>1, <3>1
    <3>3. (IF body.val = NotSet THEN row.val ELSE body.val) \in Vals
      BY <1>1, <3>1
    <3>4. (IF body.val = NotSet THEN row.mod ELSE ts) \in 1..MaxTime
      BY <3>1
    <3>. QED
      BY <3>1, <3>2, <3>3, <3>4, MaxTimeAssumption DEF Row
  <2>3. Upserted(row, body, ts) = old
    BY <1>4 DEF Upserted
  <2>. HIDE DEF old
  <2>. QED
    BY <2>2, <2>3
<1>5. CASE ~Present(row)
  <2>1. Upserted(row, body, ts) = new
    BY <1>5 DEF Upserted
  <2>. HIDE DEF new
  <2>. QED
    BY <1>3, <2>1
<1>. QED
  BY <1>4, <1>5

(* A statement locks rows of a collection's BSOs and stages others. *)
Staging(w, c, rows, wbc) == [w EXCEPT !.rows = @ \cup rows, !.wb[c] = wbc]

LEMMA StagedFields ==
  ASSUME NEW w \in Txn, NEW c \in Collections, NEW rows \in SUBSET (Collections \X Ids),
         NEW wbc \in [Ids -> Row \cup {NoRow, NotStaged}]
  PROVE  Fields(Staging(w, c, rows, wbc), w.excl, w.share, w.gaps, w.rows \cup rows, w.all,
                w.wc, [w.wb EXCEPT ![c] = wbc])
<1>. DEFINE wb == [w.wb EXCEPT ![c] = wbc]
            rs == w.rows \cup rows
            t  == Staging(w, c, rows, wbc)
<1>1. wb \in [Collections -> [Ids -> Row \cup {NoRow, NotStaged}]]
      /\ rs \in SUBSET (Collections \X Ids)
  BY DEF Txn
<1>2. t = [w EXCEPT !.rows = rs, !.wb = wb]
  BY DEF Staging, Txn
<1>. HIDE DEF wb, rs, t
<1>3. t \in Txn /\ t.rows = rs /\ t.wb = wb
  BY <1>1, <1>2 DEF Txn
<1>4. /\ t.excl = w.excl /\ t.share = w.share /\ t.gaps = w.gaps
      /\ t.all = w.all /\ t.wc = w.wc
  BY <1>2 DEF Txn
<1>. QED
  BY <1>3, <1>4 DEF wb, rs, t, Fields

(* What touch_collection, erect_tombstone and the deletion of a row stage. *)
LEMMA TouchedFields ==
  ASSUME NEW t \in Txn, NEW k \in CollKeys, NEW m \in Absent..MaxTime
  PROVE  Fields(Touched(t, k, m), t.excl \cup {k}, t.share, t.gaps, t.rows, t.all,
                [t.wc EXCEPT ![k] = m], t.wb)
<1>1. t.wc \in [CollKeys -> NotSet..MaxTime] /\ t.excl \in SUBSET CollKeys
  BY DEF Txn
<1>. DEFINE wc   == [t.wc EXCEPT ![k] = m]
            excl == t.excl \cup {k}
            v    == Touched(t, k, m)
<1>2. wc \in [CollKeys -> NotSet..MaxTime] /\ excl \in SUBSET CollKeys
  BY <1>1, MaxTimeAssumption
<1>3. v = [t EXCEPT !.excl = excl, !.wc = wc]
  BY <1>1 DEF Touched, Txn
<1>. HIDE DEF v, wc, excl
<1>4. /\ v \in Txn /\ v.excl = excl /\ v.share = t.share
      /\ v.gaps = t.gaps /\ v.rows = t.rows /\ v.all = t.all /\ v.wb = t.wb
      /\ v.wc = wc
  BY <1>2, <1>3 DEF Txn
<1>. QED
  BY <1>4, Zenon DEF v, wc, excl, Fields

-----------------------------------------------------------------------------
\* What the kind of a request says of it.
Asked(r) ==
    /\ r.kind \in BsoKinds => \E i \in Ids : r.ids = {i}
    /\ r.kind \in PostKinds => r.body \in Bodies
    /\ r.pc # "idle" => r.ts \in 1..now
    /\ r.pc \in {"alone", "stamp"} => r.kind = "post_bsos" /\ r.coll \in torn

\* The rows a statement writes are those of the collection in the lock.
Deleting(c, ids) == DeletedRows(LockedForWrite(c), c, ids)
Removing(c, ts)  == Touched(DeletedColl(Deleting(c, Ids), c), Tombstone, ts)
Sweeping(c, ts)  == Touched(Deleting(c, Ids), Tombstone, ts)   \* it has no row
ClearingBsos     == [Begun EXCEPT !.all = TRUE,
                        !.wb = [c \in Collections |-> [i \in Ids |-> NoRow]]]
ClearingAll      == [ClearingBsos EXCEPT !.excl = {k \in CollKeys : uc[k] # Absent},
                        !.gaps = {k \in CollKeys : uc[k] = Absent},
                        !.wc = [k \in CollKeys |-> Absent]]

\* The end of a request that has done all it was asked.
Done(r) == r.pc = "commit" /\ r.status = 200

Refused(r) == r.pc = "commit" /\ r.status = 412

ShapeOfRead(r, t) ==
    /\ r.kind = "get_collection"
    /\ r.pc \in {"check", "handle", "finish", "commit"}
    /\ t = LockedForRead(r.coll)

ShapeOfLock(r, t) ==
    /\ r.kind \in WriteKinds
    /\ r.pc \in {"check", "handle"} \/ Refused(r)
    /\ t = LockedForWrite(r.coll)

ShapeOfPut(r, t) ==
    /\ r.kind \in PostKinds
    /\ \E done \in SUBSET r.ids :
          LET put == Putting(LockedForWrite(r.coll), r.coll, done, r.body, r.ts) IN
          /\ t.rows = {r.coll} \X done
          /\ \/ r.pc = "touch" /\ t = put
             \/ Done(r) /\ t = Touched(put, r.coll, r.ts)

ShapeOfDelete(r, t) ==
    /\ r.kind \in {"delete_bso", "delete_bsos"}
    /\ \/ r.pc = "touch" /\ t = Deleting(r.coll, r.ids)
       \/ Done(r) /\ t = Touched(Deleting(r.coll, r.ids), r.coll, r.ts)

\* The collection has no BSO.
NoneOf(c) == \A i \in Ids : bso[c][i] = NoRow

ShapeOfDeleteCollection(r, t) ==
    /\ r.kind = "delete_collection" /\ Done(r)
    /\ t.rows = {r.coll} \X Ids
    /\ t = IF uc[r.coll] # Absent THEN Removing(r.coll, r.ts)
           ELSE IF NoneOf(r.coll) THEN Deleting(r.coll, Ids)
           ELSE Sweeping(r.coll, r.ts)

ShapeOfDeleteAll(r, t) ==
    /\ r.kind = "delete_all"
    /\ \/ (r.pc \in {"check", "handle"} \/ Refused(r)) /\ t = NoTxn
       \/ r.pc = "finish" /\ t = ClearingBsos
       \/ Done(r) /\ t = ClearingAll

Shape(r, t) ==
    \/ r.pc \in {"idle", "lock", "alone", "stamp"} /\ t = NoTxn
    \/ ShapeOfRead(r, t)
    \/ ShapeOfLock(r, t)
    \/ ShapeOfPut(r, t)
    \/ ShapeOfDelete(r, t)
    \/ ShapeOfDeleteCollection(r, t)
    \/ ShapeOfDeleteAll(r, t)

Passed(r) == r.pc \in {"handle", "touch"} \/ Done(r)

\* What a request has read of its collection is so still.
Told(r) ==
    /\ r.kind # "delete_all" /\ r.pc \notin {"idle", "lock", "alone", "stamp"}
          => r.cached = uc[r.coll]
    /\ r.kind \in WriteKinds /\ r.pc \notin {"idle", "lock", "alone", "stamp"}
          => uc[r.coll] < r.ts
    /\ r.kind \in WriteKinds /\ r.since # NotSet /\ Passed(r) =>
          IF r.kind \in BsoKinds
          THEN r.coll \in torn \/ \A i \in r.ids : bso[r.coll][i].mod <= r.since
          ELSE uc[r.coll] <= r.since
    /\ r.kind = "get_collection" /\ (r.pc = "finish" \/ Done(r)) /\ r.coll \notin torn =>
          \A i \in Ids : Present(bso[r.coll][i]) /\ bso[r.coll][i].exp > r.ts
                         => r.items[i] = bso[r.coll][i].mod
    /\ r.kind = "get_collection" /\ Done(r) =>
          r.lm = IF uc[r.coll] = Absent THEN 0 ELSE uc[r.coll]

LockInv ==
    /\ TypeOK
    /\ CollectionCoversBsos
    /\ Exclusive
    /\ RowsApart
    /\ \A p \in Clients : Asked(req[p]) /\ Shape(req[p], txn[p]) /\ Told(req[p])

-----------------------------------------------------------------------------
(* The fields of the transactions. *)

LEMMA BodiesAreColumns == Bodies \subseteq Columns
BY BodiesAssumption DEF Columns

(* What put_bso and post_bsos stage over a locked collection. *)
PutWb(c, done, body, ts) ==
    [d \in Collections |-> [i \in Ids |-> IF d = c /\ i \in done
                                          THEN Upserted(bso[c][i], body, ts) ELSE NotStaged]]

LEMMA PuttingFields ==
  ASSUME TypeOK, NEW c \in Collections, NEW done \in SUBSET Ids, NEW body \in Bodies,
         NEW ts \in 1..MaxTime, NEW w \in Txn, w.wb = NoWb
  PROVE  Fields(Putting(w, c, done, body, ts), w.excl, w.share, w.gaps,
                w.rows \cup ({c} \X done), w.all, w.wc, PutWb(c, done, body, ts))
<1>. DEFINE wbc == [i \in Ids |-> IF i \in done THEN Upserted(BsoView(w, c, i), body, ts)
                                  ELSE w.wb[c][i]]
            rows == {c} \X done
<1>1. Putting(w, c, done, body, ts) = Staging(w, c, rows, wbc)
  BY DEF Putting, Staging
<1>2. \A i \in Ids : wbc[i] = IF i \in done THEN Upserted(bso[c][i], body, ts) ELSE NotStaged
  BY DEF BsoView, NotStaged, NoWb
<1>3. wbc \in [Ids -> Row \cup {NoRow, NotStaged}]
  <2>1. \A i \in Ids : bso[c][i] \in Row \cup {NoRow}
    BY DEF TypeOK, StoreTypeOK
  <2>2. \A i \in Ids : Upserted(bso[c][i], body, ts) \in Row
    BY <2>1, UpsertedType, BodiesAreColumns
  <2>. QED
    BY <1>2, <2>2
<1>4. [w.wb EXCEPT ![c] = wbc] = PutWb(c, done, body, ts)
  BY <1>2 DEF NoWb, PutWb
<1>5. rows \in SUBSET (Collections \X Ids)
  OBVIOUS
<1>. HIDE DEF wbc, rows
<1>6. Fields(Staging(w, c, rows, wbc), w.excl, w.share, w.gaps, w.rows \cup rows, w.all,
             w.wc, [w.wb EXCEPT ![c] = wbc])
  BY <1>3, <1>5, StagedFields
<1>. QED
  BY <1>1, <1>4, <1>6, Zenon DEF rows

(* What a DELETE stages. *)
DeletedWb(c, ids) ==
    [d \in Collections |-> [i \in Ids |-> IF d = c /\ i \in ids THEN NoRow ELSE NotStaged]]

LEMMA DeletedRowsFields ==
  ASSUME NEW c \in Collections, NEW ids \in SUBSET Ids, NEW w \in Txn, w.wb = NoWb
  PROVE  Fields(DeletedRows(w, c, ids), w.excl, w.share, w.gaps,
                w.rows \cup ({c} \X ids), w.all, w.wc, DeletedWb(c, ids))
<1>. DEFINE wbc  == [i \in Ids |-> IF i \in ids THEN NoRow ELSE w.wb[c][i]]
            rows == {c} \X ids
<1>1. DeletedRows(w, c, ids) = Staging(w, c, rows, wbc)
  BY DEF DeletedRows, Staging
<1>2. \A i \in Ids : wbc[i] = IF i \in ids THEN NoRow ELSE NotStaged
  BY DEF NoWb
<1>3. wbc \in [Ids -> Row \cup {NoRow, NotStaged}]
  BY <1>2
<1>4. [w.wb EXCEPT ![c] = wbc] = DeletedWb(c, ids)
  BY <1>2 DEF NoWb, DeletedWb
<1>5. rows \in SUBSET (Collections \X Ids)
  OBVIOUS
<1>. HIDE DEF wbc, rows
<1>6. Fields(Staging(w, c, rows, wbc), w.excl, w.share, w.gaps, w.rows \cup rows, w.all,
             w.wc, [w.wb EXCEPT ![c] = wbc])
  BY <1>3, <1>5, StagedFields
<1>. QED
  BY <1>1, <1>4, <1>6, Zenon DEF rows

LEMMA DeletingFields ==
  ASSUME NEW c \in Collections, NEW ids \in SUBSET Ids
  PROVE  Fields(Deleting(c, ids), IF uc[c] = Absent THEN {} ELSE {c}, {},
                IF uc[c] = Absent THEN {c} ELSE {}, {c} \X ids, FALSE,
                NoWc, DeletedWb(c, ids))
<1>. DEFINE w == LockedForWrite(c)
<1>1. c \in CollKeys
  BY DEF CollKeys
<1>2. /\ w \in Txn /\ w.rows = {} /\ w.all = FALSE
      /\ w.gaps = (IF uc[c] = Absent THEN {c} ELSE {})
      /\ w.wc = NoWc /\ w.wb = NoWb
      /\ w.excl = (IF uc[c] = Absent THEN {} ELSE {c}) /\ w.share = {}
  BY <1>1, LockedFields DEF NoWc, NoWb
<1>. HIDE DEF w
<1>3. Fields(DeletedRows(w, c, ids), w.excl, w.share, w.gaps, w.rows \cup ({c} \X ids), w.all,
             w.wc, DeletedWb(c, ids))
  BY <1>2, DeletedRowsFields
<1>4. DeletedRows(w, c, ids) = Deleting(c, ids)
  BY DEF Deleting, w
<1>5. w.rows \cup ({c} \X ids) = {c} \X ids
  BY <1>2
<1>. QED
  BY <1>2, <1>3, <1>4, <1>5, Zenon

RemovingWc(c, ts) == [k \in CollKeys |-> IF k = Tombstone THEN ts
                                         ELSE IF k = c THEN Absent ELSE NotSet]

LEMMA RemovingFields ==
  ASSUME NEW c \in Collections, NEW ts \in 1..MaxTime, uc[c] # Absent
  PROVE  Fields(Removing(c, ts), {c, Tombstone}, {}, {}, {c} \X Ids, FALSE,
                RemovingWc(c, ts), DeletedWb(c, Ids))
<1>. DEFINE d0 == Deleting(c, Ids)
            d1 == Touched(d0, c, Absent)
            wb == DeletedWb(c, Ids)
            rows == {c} \X Ids
<1>1. c \in CollKeys /\ Tombstone \in CollKeys /\ c # Tombstone
      /\ Absent \in Absent..MaxTime /\ ts \in Absent..MaxTime
  BY CollectionsAssumption, MaxTimeAssumption DEF CollKeys
<1>2. Ids \in SUBSET Ids
  OBVIOUS
<1>3. Fields(d0, IF uc[c] = Absent THEN {} ELSE {c}, {},
                IF uc[c] = Absent THEN {c} ELSE {}, rows, FALSE, NoWc, wb)
  BY <1>2, DeletingFields
<1>4. Removing(c, ts) = Touched(d1, Tombstone, ts)
  BY DEF DeletedColl, Removing, Touched
<1>. HIDE DEF d0, wb, rows
<1>5. /\ d0 \in Txn /\ d0.excl = {c} /\ d0.share = {} /\ d0.gaps = {}
      /\ d0.rows = rows /\ d0.all = FALSE /\ d0.wc = NoWc /\ d0.wb = wb
  BY <1>3 DEF Fields
<1>6. Fields(d1, d0.excl \cup {c}, d0.share, d0.gaps, d0.rows, d0.all,
             [d0.wc EXCEPT ![c] = Absent], d0.wb)
  BY <1>1, <1>5, TouchedFields
<1>. HIDE DEF d1
<1>7. /\ d1 \in Txn /\ d1.excl = {c} /\ d1.share = {} /\ d1.gaps = {}
      /\ d1.rows = rows /\ d1.all = FALSE
      /\ d1.wc = [NoWc EXCEPT ![c] = Absent] /\ d1.wb = wb
  BY <1>5, <1>6 DEF Fields
<1>8. Fields(Touched(d1, Tombstone, ts), d1.excl \cup {Tombstone}, d1.share, d1.gaps, d1.rows,
             d1.all, [d1.wc EXCEPT ![Tombstone] = ts], d1.wb)
  BY <1>1, <1>7, TouchedFields
<1>9. [d1.wc EXCEPT ![Tombstone] = ts] = RemovingWc(c, ts)
  BY <1>1, <1>7 DEF NoWc, RemovingWc
<1>10. d1.excl \cup {Tombstone} = {c, Tombstone}
  BY <1>7
<1>. QED
  BY <1>4, <1>7, <1>8, <1>9, <1>10, Zenon DEF wb, rows

LEMMA SweepingFields ==
  ASSUME NEW c \in Collections, NEW ts \in 1..MaxTime, uc[c] = Absent
  PROVE  Fields(Sweeping(c, ts), {Tombstone}, {}, {c}, {c} \X Ids, FALSE,
                [NoWc EXCEPT ![Tombstone] = ts], DeletedWb(c, Ids))
<1>. DEFINE d0   == Deleting(c, Ids)
            rows == {c} \X Ids
<1>1. Tombstone \in CollKeys /\ ts \in Absent..MaxTime /\ Ids \in SUBSET Ids
  BY MaxTimeAssumption DEF CollKeys
<1>2. Fields(d0, IF uc[c] = Absent THEN {} ELSE {c}, {},
             IF uc[c] = Absent THEN {c} ELSE {}, rows, FALSE, NoWc, DeletedWb(c, Ids))
  BY <1>1, DeletingFields
<1>3. Sweeping(c, ts) = Touched(d0, Tombstone, ts)
  BY DEF Sweeping
<1>. HIDE DEF d0, rows
<1>4. /\ d0 \in Txn /\ d0.excl = {} /\ d0.share = {} /\ d0.gaps = {c} /\ d0.rows = rows
      /\ d0.all = FALSE /\ d0.wc = NoWc /\ d0.wb = DeletedWb(c, Ids)
  BY <1>2 DEF Fields
<1>5. Fields(Touched(d0, Tombstone, ts), d0.excl \cup {Tombstone}, d0.share, d0.gaps, d0.rows,
             d0.all, [d0.wc EXCEPT ![Tombstone] = ts], d0.wb)
  BY <1>1, <1>4, TouchedFields
<1>6. d0.excl \cup {Tombstone} = {Tombstone}
  BY <1>4
<1>. QED
  BY <1>3, <1>4, <1>5, <1>6, Zenon DEF rows

LEMMA ClearingFields ==
  /\ \A t \in {ClearingBsos, ClearingAll} :
        /\ t \in Txn /\ t.share = {} /\ t.rows = {} /\ t.all = TRUE
        /\ t.wb = [c \in Collections |-> [i \in Ids |-> NoRow]]
  /\ ClearingBsos.excl = {} /\ ClearingBsos.gaps = {}
  /\ ClearingBsos.wc = [k \in CollKeys |-> NotSet]
  /\ ClearingAll.excl = {k \in CollKeys : uc[k] # Absent}
  /\ ClearingAll.gaps = {k \in CollKeys : uc[k] = Absent}
  /\ ClearingAll.wc = [k \in CollKeys |-> Absent]
<1>1. /\ ClearingBsos \in Txn /\ ClearingBsos.share = {} /\ ClearingBsos.rows = {}
      /\ ClearingBsos.all = TRUE /\ ClearingBsos.excl = {} /\ ClearingBsos.gaps = {}
      /\ ClearingBsos.wc = [k \in CollKeys |-> NotSet]
      /\ ClearingBsos.wb = [c \in Collections |-> [i \in Ids |-> NoRow]]
  BY BegunFields DEF ClearingBsos, Txn
<1>2. [k \in CollKeys |-> Absent] \in [CollKeys -> NotSet..MaxTime]
  BY MaxTimeAssumption
<1>. DEFINE present == {k \in CollKeys : uc[k] # Absent}
            absent  == {k \in CollKeys : uc[k] = Absent}
            wc      == [k \in CollKeys |-> Absent]
<1>3. present \in SUBSET CollKeys /\ absent \in SUBSET CollKeys
  OBVIOUS
<1>4. ClearingAll = [ClearingBsos EXCEPT !.excl = present, !.gaps = absent, !.wc = wc]
  BY DEF ClearingAll
<1>. HIDE DEF present, absent, wc
<1>5. /\ ClearingAll \in Txn /\ ClearingAll.share = {} /\ ClearingAll.rows = {}
      /\ ClearingAll.all = TRUE /\ ClearingAll.excl = present
      /\ ClearingAll.gaps = absent /\ ClearingAll.wc = wc
      /\ ClearingAll.wb = ClearingBsos.wb
  BY <1>1, <1>2, <1>3, <1>4 DEF Txn, wc
<1>. QED
  BY <1>1, <1>5 DEF present, absent, wc

NoRows == [c \in Collections |-> [i \in Ids |-> NoRow]]

LEMMA RequestFields ==
  ASSUME NEW k \in CollKeys
  PROVE  /\ Fields(NoTxn, {}, {}, {}, {}, FALSE, NoWc, NoWb)
         /\ Fields(LockedForWrite(k), IF uc[k] = Absent THEN {} ELSE {k}, {},
                   IF uc[k] = Absent THEN {k} ELSE {}, {}, FALSE, NoWc, NoWb)
         /\ Fields(LockedForRead(k), {}, IF uc[k] = Absent THEN {} ELSE {k},
                   IF uc[k] = Absent THEN {k} ELSE {}, {}, FALSE, NoWc, NoWb)
         /\ Fields(ClearingBsos, {}, {}, {}, {}, TRUE, NoWc, NoRows)
         /\ Fields(ClearingAll, {l \in CollKeys : uc[l] # Absent}, {},
                   {l \in CollKeys : uc[l] = Absent}, {}, TRUE,
                   [l \in CollKeys |-> Absent], NoRows)
<1>1. Fields(NoTxn, {}, {}, {}, {}, FALSE, NoWc, NoWb)
  BY BegunFields DEF Fields, NoWc, NoWb
<1>2. /\ Fields(LockedForWrite(k), IF uc[k] = Absent THEN {} ELSE {k}, {},
                IF uc[k] = Absent THEN {k} ELSE {}, {}, FALSE, NoWc, NoWb)
      /\ Fields(LockedForRead(k), {}, IF uc[k] = Absent THEN {} ELSE {k},
                IF uc[k] = Absent THEN {k} ELSE {}, {}, FALSE, NoWc, NoWb)
  BY LockedFields DEF Fields, NoWc, NoWb
<1>3. /\ Fields(ClearingBsos, {}, {}, {}, {}, TRUE, NoWc, NoRows)
      /\ Fields(ClearingAll, {l \in CollKeys : uc[l] # Absent}, {},
                {l \in CollKeys : uc[l] = Absent}, {}, TRUE,
                [l \in CollKeys |-> Absent], NoRows)
  BY ClearingFields, Zenon DEF Fields, NoWc, NoRows
<1>. QED
  BY <1>1, <1>2, <1>3

-----------------------------------------------------------------------------
(* What the invariant says of a request stays true while nothing is         *)
(* committed to its collection.                                            *)

\* The BSOs a transaction has locked stay as they are.
RowsStay(t) ==
    \A c \in Collections, i \in Ids : <<c, i>> \in t.rows => bso'[c][i] = bso[c][i]

LEMMA ShapeKept ==
  ASSUME NEW r, NEW t, Shape(r, t), r.ids \in SUBSET Ids, r.coll \in Collections,
         r.pc \notin {"idle", "lock", "alone", "stamp"} /\ r.kind # "delete_all"
            => uc'[r.coll] = uc[r.coll],
         RowsStay(t),
         r.kind = "delete_all" /\ Done(r) => \A k \in CollKeys : uc'[k] = uc[k]
  PROVE  Shape(r, t)'
<1>1. CASE r.pc \in {"idle", "lock", "alone", "stamp"} /\ t = NoTxn
  BY <1>1 DEF Shape, NoTxn, CollKeys, NotStaged
<1>2. CASE ShapeOfRead(r, t)
  BY <1>2 DEF Shape, ShapeOfRead, LockedForRead
<1>3. CASE ShapeOfLock(r, t)
  BY <1>3 DEF Shape, ShapeOfLock, LockedForWrite, Refused, WriteKinds, PostKinds
<1>4. CASE ShapeOfPut(r, t)
  <2>1. uc'[r.coll] = uc[r.coll]
    BY <1>4 DEF ShapeOfPut, Done, PostKinds
  <2>2. LockedForWrite(r.coll)' = LockedForWrite(r.coll)
    BY <2>1 DEF LockedForWrite
  <2>3. PICK done \in SUBSET r.ids :
           /\ t.rows = {r.coll} \X done
           /\ \/ r.pc = "touch"
                 /\ t = Putting(LockedForWrite(r.coll), r.coll, done, r.body, r.ts)
              \/ Done(r)
                 /\ t = Touched(Putting(LockedForWrite(r.coll), r.coll, done, r.body, r.ts),
                                r.coll, r.ts)
    BY <1>4, Zenon DEF ShapeOfPut
  <2>4. Putting(LockedForWrite(r.coll), r.coll, done, r.body, r.ts)'
        = Putting(LockedForWrite(r.coll), r.coll, done, r.body, r.ts)
    <3>. DEFINE w == LockedForWrite(r.coll)
    <3>1. w' = w
      BY <2>2
    <3>. HIDE DEF w
    <3>2. \A i \in done : bso'[r.coll][i] = bso[r.coll][i]
      BY <2>3 DEF RowsStay
    <3>3. \A i \in done : BsoView(w, r.coll, i)' = BsoView(w, r.coll, i)
      BY <3>1, <3>2 DEF BsoView
    <3>4. \A i \in done : Upserted(BsoView(w, r.coll, i), r.body, r.ts)'
                          = Upserted(BsoView(w, r.coll, i), r.body, r.ts)
      BY <3>3, Zenon DEF Upserted, Present, Expiry, DefaultTtl
    <3>5. [i \in Ids |-> IF i \in done THEN Upserted(BsoView(w, r.coll, i), r.body, r.ts)
                                       ELSE w.wb[r.coll][i]]'
          = [i \in Ids |-> IF i \in done THEN Upserted(BsoView(w, r.coll, i), r.body, r.ts)
                                         ELSE w.wb[r.coll][i]]
      BY <3>1, <3>4
    <3>6. Putting(w, r.coll, done, r.body, r.ts)' = Putting(w, r.coll, done, r.body, r.ts)
      BY <3>1, <3>5, Zenon DEF Putting
    <3>. QED
      BY <3>6 DEF w
  <2>5. ShapeOfPut(r, t)'
    <3>1. CASE /\ r.pc = "touch"
               /\ t = Putting(LockedForWrite(r.coll), r.coll, done, r.body, r.ts)
      BY <1>4, <2>3, <2>4, <3>1, Zenon DEF ShapeOfPut
    <3>2. CASE /\ Done(r)
               /\ t = Touched(Putting(LockedForWrite(r.coll), r.coll, done, r.body, r.ts),
                             r.coll, r.ts)
      <4>1. t = Touched(Putting(LockedForWrite(r.coll), r.coll, done, r.body, r.ts),
                        r.coll, r.ts)'
        BY <2>4, <3>2, Zenon DEF Touched
      <4>. QED
        BY <1>4, <2>3, <3>2, <4>1, Zenon DEF ShapeOfPut, Done
    <3>. QED
      BY <2>3, <3>1, <3>2, Zenon
  <2>. QED
    BY <2>5, Zenon DEF Shape
<1>5. CASE ShapeOfDelete(r, t)
  <2>1. uc'[r.coll] = uc[r.coll]
    BY <1>5 DEF ShapeOfDelete, Done
  <2>2. LockedForWrite(r.coll)' = LockedForWrite(r.coll)
    BY <2>1 DEF LockedForWrite
  <2>3. Deleting(r.coll, r.ids)' = Deleting(r.coll, r.ids)
    BY <2>2, Zenon DEF Deleting, DeletedRows
  <2>4. Touched(Deleting(r.coll, r.ids), r.coll, r.ts)'
        = Touched(Deleting(r.coll, r.ids), r.coll, r.ts)
    BY <2>3, Zenon DEF Touched
  <2>5. ShapeOfDelete(r, t)'
    BY <1>5, <2>3, <2>4, Zenon DEF ShapeOfDelete, Done
  <2>. QED
    BY <2>5, Zenon DEF Shape
<1>6. CASE ShapeOfDeleteCollection(r, t)
  <2>1. uc'[r.coll] = uc[r.coll]
    BY <1>6 DEF ShapeOfDeleteCollection, Done
  <2>2. LockedForWrite(r.coll)' = LockedForWrite(r.coll)
    BY <2>1 DEF LockedForWrite
  <2>3. Deleting(r.coll, Ids)' = Deleting(r.coll, Ids)
    BY <2>2, Zenon DEF Deleting, DeletedRows
  <2>4. Removing(r.coll, r.ts)' = Removing(r.coll, r.ts)
    BY <2>3, Zenon DEF Removing, Touched, DeletedColl
  <2>5. Sweeping(r.coll, r.ts)' = Sweeping(r.coll, r.ts)
    BY <2>3, Zenon DEF Sweeping, Touched
  <2>6. \A i \in Ids : bso'[r.coll][i] = bso[r.coll][i]
    BY <1>6 DEF ShapeOfDeleteCollection, RowsStay
  <2>7. NoneOf(r.coll)' = NoneOf(r.coll)
    BY <2>6 DEF NoneOf, NoRow
  <2>8. t = (IF uc[r.coll] # Absent THEN Removing(r.coll, r.ts)
             ELSE IF NoneOf(r.coll) THEN Deleting(r.coll, Ids)
             ELSE Sweeping(r.coll, r.ts))'
    <3>1. CASE uc[r.coll] # Absent
      BY <1>6, <2>1, <2>4, <3>1 DEF ShapeOfDeleteCollection
    <3>2. CASE uc[r.coll] = Absent /\ NoneOf(r.coll)
      BY <1>6, <2>1, <2>3, <2>7, <3>2 DEF ShapeOfDeleteCollection
    <3>3. CASE uc[r.coll] = Absent /\ ~NoneOf(r.coll)
      BY <1>6, <2>1, <2>5, <2>7, <3>3 DEF ShapeOfDeleteCollection
    <3>. QED
      BY <3>1, <3>2, <3>3
  <2>9. ShapeOfDeleteCollection(r, t)'
    BY <1>6, <2>8, Zenon DEF ShapeOfDeleteCollection, Done
  <2>. QED
    BY <2>9, Zenon DEF Shape
<1>7. CASE ShapeOfDeleteAll(r, t)
  <2>1. CASE Done(r)
    <3>1. \A k \in CollKeys : uc'[k] = uc[k]
      BY <1>7, <2>1 DEF ShapeOfDeleteAll
    <3>2. ClearingAll' = ClearingAll
      <4>1. /\ {k \in CollKeys : uc'[k] # Absent} = {k \in CollKeys : uc[k] # Absent}
            /\ {k \in CollKeys : uc'[k] = Absent} = {k \in CollKeys : uc[k] = Absent}
        BY <3>1
      <4>. QED
        BY <4>1, Zenon DEF ClearingAll, ClearingBsos, CollKeys
    <3>. QED
      BY <1>7, <2>1, <3>2, Zenon DEF Shape, ShapeOfDeleteAll, Done, Refused
  <2>2. CASE ~Done(r)
    BY <1>7, <2>2, Zenon DEF Shape, ShapeOfDeleteAll, Done, Refused
  <2>. QED
    BY <2>1, <2>2
<1>. QED
  BY <1>1, <1>2, <1>3, <1>4, <1>5, <1>6, <1>7, Zenon DEF Shape

\* Nothing is stored in the collection, but BSOs may go.
NothingNew(c) == \A i \in Ids : bso'[c][i] \in {bso[c][i], NoRow}

LEMMA ToldKept ==
  ASSUME NEW r \in Request, Told(r), torn \subseteq torn',
         r.pc \notin {"idle", "lock", "alone", "stamp"} /\ r.kind # "delete_all"
            => uc'[r.coll] = uc[r.coll] /\ (r.coll \in torn' \/ NothingNew(r.coll))
  PROVE  Told(r)'
<1>1. CASE r.pc \notin {"idle", "lock", "alone", "stamp"} /\ r.kind # "delete_all"
  <2>1. uc'[r.coll] = uc[r.coll] /\ (r.coll \in torn' \/ (r.coll \notin torn /\ NothingNew(r.coll)))
    BY <1>1
  <2>2. r.since # NotSet => Absent <= r.since
    BY MaxTimeAssumption DEF Request
  <2>3. CASE r.coll \in torn'
    BY <1>1, <2>1, <2>3 DEF Told, Passed, Done, WriteKinds, PostKinds, Present
  <2>4. CASE r.coll \notin torn /\ NothingNew(r.coll)
    <3>1. ASSUME r.since # NotSet, \A i \in r.ids : bso[r.coll][i].mod <= r.since
          PROVE  \A i \in r.ids : bso'[r.coll][i].mod <= r.since
      BY <2>2, <2>4, <3>1 DEF NothingNew, NoRow, Request
    <3>2. \A i \in Ids : Present(bso'[r.coll][i]) => bso'[r.coll][i] = bso[r.coll][i]
      BY <2>4 DEF NothingNew, NoRow, Present
    <3>. QED
      BY <1>1, <2>1, <2>4, <3>1, <3>2 DEF Told, Passed, Done, WriteKinds, PostKinds, Present
  <2>. QED
    BY <2>1, <2>3, <2>4
<1>2. CASE ~(r.pc \notin {"idle", "lock", "alone", "stamp"} /\ r.kind # "delete_all")
  BY <1>2 DEF Told, Passed, Done, WriteKinds, PostKinds, BsoKinds
<1>. QED
  BY <1>1, <1>2

(* What a step of another request leaves of the invariant. *)
LEMMA OtherKept ==
  ASSUME LockInv, NEW q \in Clients, req'[q] = req[q], txn'[q] = txn[q], now' = now,
         torn \subseteq torn', RowsStay(txn[q]),
         req[q].pc \notin {"idle", "lock", "alone", "stamp"} /\ req[q].kind # "delete_all"
            => /\ uc'[req[q].coll] = uc[req[q].coll]
               /\ req[q].coll \in torn' \/ NothingNew(req[q].coll),
         req[q].kind = "delete_all" /\ Done(req[q]) => \A k \in CollKeys : uc'[k] = uc[k]
  PROVE  (Asked(req[q]) /\ Shape(req[q], txn[q]) /\ Told(req[q]))'
<1>1. PICK s, u : /\ s = req[q] /\ u = txn[q] /\ s = req'[q] /\ u = txn'[q]
                  /\ Asked(s) /\ Shape(s, u) /\ Told(s) /\ s \in Request
  BY Zenon DEF LockInv, TypeOK
<1>2. s.ids \in SUBSET Ids /\ s.coll \in Collections
  BY <1>1 DEF Request
<1>3. Asked(s)'
  BY <1>1 DEF Asked
<1>4. Shape(s, u)'
  BY <1>1, <1>2, ShapeKept
<1>5. Told(s)'
  BY <1>1, ToldKept
<1>. QED
  BY <1>1, <1>3, <1>4, <1>5, Zenon

(* A step of one request that commits nothing. *)
LEMMA StepAlone ==
  ASSUME LockInv, NEW p \in Clients, NEW r \in Request, NEW t \in Txn,
         UNCHANGED <<now, uc, bso>>, torn \subseteq torn', torn' \in SUBSET Collections,
         req' = [req EXCEPT ![p] = r], txn' = [txn EXCEPT ![p] = t],
         Asked(r)', Shape(r, t), Told(r),
         \A q \in Clients \ {p} : /\ t.excl \cap Locked(txn[q]) = {}
                                  /\ txn[q].excl \cap Locked(t) = {}
                                  /\ Apart(t, txn[q])
  PROVE  LockInv'
<1>1. /\ req \in [Clients -> Request] /\ txn \in [Clients -> Txn] /\ StoreTypeOK
      /\ CollectionCoversBsos /\ Exclusive /\ RowsApart
      /\ \A q \in Clients : Asked(req[q]) /\ Shape(req[q], txn[q]) /\ Told(req[q])
  BY DEF LockInv, TypeOK, StoreTypeOK
<1>2. TypeOK'
  BY <1>1 DEF TypeOK, StoreTypeOK
<1>3. CollectionCoversBsos'
  BY <1>1 DEF CollectionCoversBsos, Present
<1>4. /\ \A q \in Clients : q # p => req'[q] = req[q] /\ txn'[q] = txn[q]
      /\ req'[p] = r /\ txn'[p] = t
  BY <1>1
<1>5. Exclusive'
  BY <1>1, <1>4 DEF Exclusive, Locked
<1>6. RowsApart'
  <2>1. SUFFICES ASSUME NEW q1 \in Clients, NEW q2 \in Clients, q1 # q2
                 PROVE  Apart(txn'[q1], txn'[q2])
    BY DEF RowsApart, Apart
  <2>2. CASE q1 = p
    BY <1>4, <2>1, <2>2
  <2>3. CASE q2 = p
    <3>1. Apart(t, txn[q1])
      BY <2>1, <2>3
    <3>2. Apart(txn[q1], t)
      BY <3>1 DEF Apart
    <3>. QED
      BY <1>4, <2>1, <2>3, <3>2
  <2>4. CASE q1 # p /\ q2 # p
    BY <1>1, <1>4, <2>1, <2>4 DEF RowsApart
  <2>. QED
    BY <2>2, <2>3, <2>4
<1>7. ASSUME NEW q \in Clients
      PROVE  (Asked(req[q]) /\ Shape(req[q], txn[q]) /\ Told(req[q]))'
  <2>1. CASE q = p
    <3>1. PICK s, u : s = r /\ u = t /\ s = req'[q] /\ u = txn'[q] /\ s \in Request
      BY <1>4, <2>1, Zenon
    <3>2. s.ids \in SUBSET Ids /\ s.coll \in Collections /\ RowsStay(u)
      BY <3>1 DEF Request, RowsStay
    <3>3. Shape(s, u)'
      BY <3>1, <3>2, ShapeKept
    <3>4. NothingNew(s.coll)
      BY DEF NothingNew
    <3>5. Told(s)'
      BY <3>1, <3>4, ToldKept
    <3>. QED
      BY <3>1, <3>3, <3>5, Zenon DEF Asked
  <2>2. CASE q # p
    <3>1. RowsStay(txn[q]) /\ NothingNew(req[q].coll)
      BY DEF RowsStay, NothingNew
    <3>. QED
      BY <1>4, <2>2, <3>1, OtherKept
  <2>. QED
    BY <2>1, <2>2
<1>. QED
  BY <1>2, <1>3, <1>5, <1>6, <1>7, Zenon DEF LockInv

LEMMA LocalStep ==
  ASSUME LockInv, NEW p \in Clients, NEW r \in Request, NEW t \in Txn,
         UNCHANGED <<now, uc, bso, torn>>,
         req' = [req EXCEPT ![p] = r], txn' = [txn EXCEPT ![p] = t],
         Asked(r), Shape(r, t), Told(r),
         \A q \in Clients \ {p} : /\ t.excl \cap Locked(txn[q]) = {}
                                  /\ txn[q].excl \cap Locked(t) = {}
                                  /\ Apart(t, txn[q])
  PROVE  LockInv'
<1>1. Asked(r)'
  BY DEF Asked
<1>2. torn' \in SUBSET Collections /\ torn \subseteq torn'
  BY DEF LockInv, TypeOK
<1>. QED
  BY <1>1, <1>2, StepAlone

-----------------------------------------------------------------------------
(* What each request holds and has written. *)

RowOf(k) == IF uc[k] = Absent THEN {} ELSE {k}
GapOf(k) == IF uc[k] = Absent THEN {k} ELSE {}

LEMMA LockTxn ==
  ASSUME NEW r \in Request
  PROVE  /\ Fields(LockedForWrite(r.coll), RowOf(r.coll), {}, GapOf(r.coll), {}, FALSE,
                   NoWc, NoWb)
         /\ Fields(LockedForRead(r.coll), {}, RowOf(r.coll), GapOf(r.coll), {}, FALSE,
                   NoWc, NoWb)
<1>1. r.coll \in CollKeys
  BY DEF Request, CollKeys
<1>. QED
  BY <1>1, RequestFields, Zenon DEF RowOf, GapOf

LEMMA TouchedTxn ==
  ASSUME NEW c \in Collections, NEW ts \in 1..MaxTime, NEW t, NEW rows, NEW wb,
         Fields(t, RowOf(c), {}, GapOf(c), rows, FALSE, NoWc, wb)
  PROVE  Fields(Touched(t, c, ts), {c}, {}, GapOf(c), rows, FALSE, [NoWc EXCEPT ![c] = ts], wb)
<1>1. /\ t \in Txn /\ t.excl = RowOf(c) /\ t.share = {} /\ t.gaps = GapOf(c)
      /\ t.rows = rows /\ t.all = FALSE /\ t.wc = NoWc /\ t.wb = wb
  BY DEF Fields
<1>2. c \in CollKeys /\ ts \in Absent..MaxTime /\ RowOf(c) \cup {c} = {c}
  BY MaxTimeAssumption DEF CollKeys, RowOf
<1>3. Fields(Touched(t, c, ts), t.excl \cup {c}, t.share, t.gaps, t.rows, t.all,
             [t.wc EXCEPT ![c] = ts], t.wb)
  BY <1>1, <1>2, TouchedFields
<1>. QED
  BY <1>1, <1>2, <1>3, Zenon

LEMMA PutTxn ==
  ASSUME TypeOK, NEW r \in Request, Asked(r), r.pc # "idle", r.kind \in PostKinds,
         NEW done \in SUBSET r.ids
  PROVE  LET put == Putting(LockedForWrite(r.coll), r.coll, done, r.body, r.ts)
             wb  == PutWb(r.coll, done, r.body, r.ts)
         IN  /\ Fields(put, RowOf(r.coll), {}, GapOf(r.coll), {r.coll} \X done, FALSE, NoWc, wb)
             /\ Fields(Touched(put, r.coll, r.ts), {r.coll}, {}, GapOf(r.coll),
                       {r.coll} \X done, FALSE, [NoWc EXCEPT ![r.coll] = r.ts], wb)
<1>. DEFINE w   == LockedForWrite(r.coll)
            put == Putting(w, r.coll, done, r.body, r.ts)
            wb  == PutWb(r.coll, done, r.body, r.ts)
            rows == {r.coll} \X done
<1>1. /\ r.coll \in Collections /\ done \in SUBSET Ids /\ r.body \in Bodies
      /\ r.ts \in 1..MaxTime
  BY DEF Asked, Request, TypeOK, StoreTypeOK
<1>2. Fields(w, RowOf(r.coll), {}, GapOf(r.coll), {}, FALSE, NoWc, NoWb)
  BY LockTxn
<1>. HIDE DEF w
<1>3. /\ w \in Txn /\ w.excl = RowOf(r.coll) /\ w.share = {} /\ w.gaps = GapOf(r.coll)
      /\ w.rows = {} /\ w.all = FALSE /\ w.wc = NoWc /\ w.wb = NoWb
  BY <1>2 DEF Fields
<1>4. Fields(put, w.excl, w.share, w.gaps, w.rows \cup ({r.coll} \X done), w.all, w.wc,
             PutWb(r.coll, done, r.body, r.ts))
  BY <1>1, <1>3, PuttingFields
<1>5. w.rows \cup ({r.coll} \X done) = rows
  BY <1>3
<1>. HIDE DEF put, wb, rows
<1>6. Fields(put, RowOf(r.coll), {}, GapOf(r.coll), rows, FALSE, NoWc, wb)
  BY <1>3, <1>4, <1>5, Zenon DEF wb
<1>7. Fields(Touched(put, r.coll, r.ts), {r.coll}, {}, GapOf(r.coll), rows, FALSE,
             [NoWc EXCEPT ![r.coll] = r.ts], wb)
  BY <1>1, <1>6, TouchedTxn
<1>. QED
  BY <1>6, <1>7, Zenon DEF put, wb, rows, w

LEMMA DeleteTxn ==
  ASSUME TypeOK, NEW r \in Request, Asked(r), r.pc # "idle", NEW ids \in SUBSET Ids
  PROVE  /\ Fields(Deleting(r.coll, ids), RowOf(r.coll), {}, GapOf(r.coll), {r.coll} \X ids,
                   FALSE, NoWc, DeletedWb(r.coll, ids))
         /\ Fields(Touched(Deleting(r.coll, ids), r.coll, r.ts), {r.coll}, {}, GapOf(r.coll),
                   {r.coll} \X ids, FALSE, [NoWc EXCEPT ![r.coll] = r.ts],
                   DeletedWb(r.coll, ids))
         /\ uc[r.coll] # Absent =>
               Fields(Removing(r.coll, r.ts), {r.coll, Tombstone}, {}, {}, {r.coll} \X Ids,
                      FALSE, RemovingWc(r.coll, r.ts), DeletedWb(r.coll, Ids))
         /\ uc[r.coll] = Absent =>
               Fields(Sweeping(r.coll, r.ts), {Tombstone}, {}, {r.coll}, {r.coll} \X Ids,
                      FALSE, [NoWc EXCEPT ![Tombstone] = r.ts], DeletedWb(r.coll, Ids))
<1>1. r.coll \in Collections /\ r.ts \in 1..MaxTime
  BY DEF Asked, Request, TypeOK, StoreTypeOK
<1>2. Fields(Deleting(r.coll, ids), RowOf(r.coll), {}, GapOf(r.coll), {r.coll} \X ids,
             FALSE, NoWc, DeletedWb(r.coll, ids))
  BY <1>1, DeletingFields, Zenon DEF RowOf, GapOf
<1>3. Fields(Touched(Deleting(r.coll, ids), r.coll, r.ts), {r.coll}, {}, GapOf(r.coll),
             {r.coll} \X ids, FALSE, [NoWc EXCEPT ![r.coll] = r.ts], DeletedWb(r.coll, ids))
  BY <1>1, <1>2, TouchedTxn
<1>4. uc[r.coll] = Absent =>
        Fields(Sweeping(r.coll, r.ts), {Tombstone}, {}, {r.coll}, {r.coll} \X Ids,
               FALSE, [NoWc EXCEPT ![Tombstone] = r.ts], DeletedWb(r.coll, Ids))
  BY <1>1, SweepingFields
<1>. QED
  BY <1>1, <1>2, <1>3, <1>4, RemovingFields

(* The locks of a request's transaction. *)
LEMMA HeldFacts ==
  ASSUME TypeOK, NEW r \in Request, Asked(r), NEW t, Shape(r, t)
  PROVE  /\ t \in Txn
         /\ \A k \in t.gaps : uc[k] = Absent
         /\ \A k \in t.excl : r.pc = "commit" \/ uc[k] # Absent
         /\ \A k \in t.share : uc[k] # Absent
         /\ r.pc \in {"idle", "lock", "alone", "stamp"} => t = NoTxn
         /\ t.rows # {} => r.pc \in {"touch", "commit"} /\ r.kind \in WriteKinds
         /\ t.all = TRUE => t.rows = {}
         /\ r.kind # "delete_all" =>
               /\ t.all = FALSE
               /\ t.rows \subseteq {r.coll} \X Ids
               /\ Locked(t) \subseteq {r.coll, Tombstone}
               /\ Tombstone \in Locked(t) => r.pc = "commit"
               /\ r.pc \notin {"idle", "lock", "alone", "stamp"} => r.coll \in Locked(t)
               /\ r.pc # "commit" => t.wc = NoWc
               /\ r.kind \in WriteKinds /\ r.pc \in {"check", "handle", "touch"} =>
                     t.excl = RowOf(r.coll) /\ t.share = {} /\ t.gaps = GapOf(r.coll)
         /\ r.kind = "delete_all" /\ Done(r) => Locked(t) = CollKeys
<1>1. r.coll \in CollKeys /\ r.coll # Tombstone /\ r.coll \in Collections
      /\ r.ids \in SUBSET Ids
  BY CollectionsAssumption DEF Request, CollKeys
<1>2. CASE r.pc \in {"idle", "lock", "alone", "stamp"} /\ t = NoTxn
  <2>1. Fields(t, {}, {}, {}, {}, FALSE, NoWc, NoWb)
    BY <1>1, <1>2, RequestFields
  <2>. QED
    BY <1>2, <2>1 DEF Fields, Locked, Done
<1>3. CASE ShapeOfRead(r, t)
  <2>1. Fields(t, {}, RowOf(r.coll), GapOf(r.coll), {}, FALSE, NoWc, NoWb)
    BY <1>3, LockTxn, Zenon DEF ShapeOfRead
  <2>2. r.kind = "get_collection" /\ r.pc \notin {"idle", "lock", "alone", "stamp"}
    BY <1>3 DEF ShapeOfRead
  <2>. QED
    BY <1>1, <2>1, <2>2 DEF Fields, Locked, RowOf, GapOf, WriteKinds, PostKinds
<1>4. CASE ShapeOfLock(r, t)
  <2>1. Fields(t, RowOf(r.coll), {}, GapOf(r.coll), {}, FALSE, NoWc, NoWb)
    BY <1>4, LockTxn, Zenon DEF ShapeOfLock
  <2>2. /\ r.kind \in WriteKinds /\ r.kind # "delete_all"
        /\ r.pc \notin {"idle", "lock", "alone", "stamp"}
    BY <1>4 DEF ShapeOfLock, Refused, WriteKinds, PostKinds
  <2>. QED
    BY <1>1, <2>1, <2>2 DEF Fields, Locked, RowOf, GapOf
<1>5. CASE ShapeOfPut(r, t)
  <2>1. PICK done \in SUBSET r.ids :
           \/ r.pc = "touch" /\ t = Putting(LockedForWrite(r.coll), r.coll, done, r.body, r.ts)
           \/ Done(r) /\ t = Touched(Putting(LockedForWrite(r.coll), r.coll, done, r.body, r.ts),
                                     r.coll, r.ts)
    BY <1>5, Zenon DEF ShapeOfPut
  <2>2. /\ r.kind \in WriteKinds /\ r.kind # "delete_all" /\ r.kind \in PostKinds
        /\ r.pc \in {"touch", "commit"}
    BY <1>5 DEF ShapeOfPut, Done, WriteKinds, PostKinds
  <2>3. \/ r.pc = "touch" /\ Fields(t, RowOf(r.coll), {}, GapOf(r.coll), {r.coll} \X done, FALSE,
                                    NoWc, PutWb(r.coll, done, r.body, r.ts))
        \/ r.pc = "commit" /\ Fields(t, {r.coll}, {}, GapOf(r.coll), {r.coll} \X done, FALSE,
                                     [NoWc EXCEPT ![r.coll] = r.ts],
                                     PutWb(r.coll, done, r.body, r.ts))
    <3>1. \A d \in SUBSET r.ids :
            /\ Fields(Putting(LockedForWrite(r.coll), r.coll, d, r.body, r.ts), RowOf(r.coll), {},
                      GapOf(r.coll), {r.coll} \X d, FALSE, NoWc, PutWb(r.coll, d, r.body, r.ts))
            /\ Fields(Touched(Putting(LockedForWrite(r.coll), r.coll, d, r.body, r.ts),
                           r.coll, r.ts),
                      {r.coll}, {}, GapOf(r.coll), {r.coll} \X d, FALSE,
                      [NoWc EXCEPT ![r.coll] = r.ts], PutWb(r.coll, d, r.body, r.ts))
      <4>1. r.pc # "idle"
        BY <2>2
      <4>. QED
        BY <2>2, <4>1, PutTxn
    <3>. QED
      BY <2>1, <3>1, Zenon DEF Done
  <2>. QED
    BY <1>1, <2>2, <2>3 DEF Fields, Locked, RowOf, GapOf
<1>6. CASE ShapeOfDelete(r, t)
  <2>2. r.kind \in WriteKinds /\ r.kind # "delete_all" /\ r.pc \in {"touch", "commit"}
    BY <1>6 DEF ShapeOfDelete, Done, WriteKinds, PostKinds
  <2>3. \/ r.pc = "touch" /\ Fields(t, RowOf(r.coll), {}, GapOf(r.coll), {r.coll} \X r.ids, FALSE,
                                    NoWc, DeletedWb(r.coll, r.ids))
        \/ r.pc = "commit" /\ Fields(t, {r.coll}, {}, GapOf(r.coll), {r.coll} \X r.ids, FALSE,
                                     [NoWc EXCEPT ![r.coll] = r.ts], DeletedWb(r.coll, r.ids))
    <3>1. r.pc # "idle"
      BY <2>2
    <3>2. /\ Fields(Deleting(r.coll, r.ids), RowOf(r.coll), {}, GapOf(r.coll),
                    {r.coll} \X r.ids, FALSE, NoWc, DeletedWb(r.coll, r.ids))
          /\ Fields(Touched(Deleting(r.coll, r.ids), r.coll, r.ts), {r.coll}, {}, GapOf(r.coll),
                    {r.coll} \X r.ids, FALSE, [NoWc EXCEPT ![r.coll] = r.ts],
                    DeletedWb(r.coll, r.ids))
      BY <1>1, <3>1, DeleteTxn
    <3>3. CASE r.pc = "touch" /\ t = Deleting(r.coll, r.ids)
      BY <3>2, <3>3, Zenon
    <3>4. CASE Done(r) /\ t = Touched(Deleting(r.coll, r.ids), r.coll, r.ts)
      <4>1. r.pc = "commit"
        BY <3>4 DEF Done
      <4>. QED
        BY <3>2, <3>4, <4>1, Zenon
    <3>. QED
      BY <1>6, <3>3, <3>4, Zenon DEF ShapeOfDelete
  <2>. QED
    BY <1>1, <2>2, <2>3 DEF Fields, Locked, RowOf, GapOf
<1>7. CASE ShapeOfDeleteCollection(r, t)
  <2>1. r.kind \in WriteKinds /\ r.kind # "delete_all" /\ r.pc = "commit" /\ Ids \in SUBSET Ids
    BY <1>7 DEF ShapeOfDeleteCollection, Done, WriteKinds
  <2>2. \/ uc[r.coll] = Absent /\ Fields(t, RowOf(r.coll), {}, GapOf(r.coll), {r.coll} \X Ids,
                                         FALSE, NoWc, DeletedWb(r.coll, Ids))
        \/ uc[r.coll] # Absent /\ Fields(t, {r.coll, Tombstone}, {}, {}, {r.coll} \X Ids, FALSE,
                                         RemovingWc(r.coll, r.ts), DeletedWb(r.coll, Ids))
        \/ uc[r.coll] = Absent /\ Fields(t, {Tombstone}, {}, {r.coll}, {r.coll} \X Ids, FALSE,
                                         [NoWc EXCEPT ![Tombstone] = r.ts], DeletedWb(r.coll, Ids))
    BY <1>1, <1>7, <2>1, DeleteTxn, Zenon DEF ShapeOfDeleteCollection
  <2>. QED
    BY <1>1, <2>1, <2>2 DEF Fields, Locked, RowOf, GapOf
<1>8. CASE ShapeOfDeleteAll(r, t)
  <2>1. r.kind = "delete_all" /\ r.kind \notin WriteKinds
    BY <1>8 DEF ShapeOfDeleteAll, WriteKinds, PostKinds
  <2>2. \/ ~Done(r) /\ Fields(t, {}, {}, {}, {}, FALSE, NoWc, NoWb)
        \/ ~Done(r) /\ Fields(t, {}, {}, {}, {}, TRUE, NoWc, NoRows)
        \/ Done(r) /\ Fields(t, {l \in CollKeys : uc[l] # Absent}, {},
                             {l \in CollKeys : uc[l] = Absent}, {}, TRUE,
                             [l \in CollKeys |-> Absent], NoRows)
    <3>1. \/ ~Done(r) /\ t = NoTxn
          \/ ~Done(r) /\ t = ClearingBsos
          \/ Done(r) /\ t = ClearingAll
      BY <1>8 DEF ShapeOfDeleteAll, Done, Refused
    <3>. QED
      BY <1>1, <3>1, RequestFields, Zenon
  <2>3. r.pc \notin {"idle", "lock", "alone", "stamp"} /\ (Done(r) => r.pc = "commit")
    BY <1>8 DEF ShapeOfDeleteAll, Done, Refused
  <2>. QED
    BY <1>1, <2>1, <2>2, <2>3 DEF Fields, Locked
<1>. QED
  BY <1>2, <1>3, <1>4, <1>5, <1>6, <1>7, <1>8, Zenon DEF Shape

-----------------------------------------------------------------------------
(* What a commit writes. *)

UcOf(t)  == [k \in CollKeys |-> CollView(t, k)]
BsoOf(t) == [c \in Collections |-> [i \in Ids |-> BsoView(t, c, i)]]

RemovedUc(c, ts) == [uc EXCEPT ![c] = Absent, ![Tombstone] = ts]

LEMMA UcViews ==
  ASSUME TypeOK, NEW t
  PROVE  /\ t.wc = NoWc => UcOf(t) = uc
         /\ \A c \in Collections, ts \in 1..MaxTime :
               t.wc = [NoWc EXCEPT ![c] = ts] => UcOf(t) = [uc EXCEPT ![c] = ts]
         /\ \A c \in Collections, ts \in 1..MaxTime :
               t.wc = RemovingWc(c, ts) => UcOf(t) = RemovedUc(c, ts)
         /\ \A c \in Collections, ts \in 1..MaxTime :
               t.wc = [NoWc EXCEPT ![Tombstone] = ts] /\ uc[c] = Absent
                 => UcOf(t) = RemovedUc(c, ts)
         /\ t.wc = [k \in CollKeys |-> Absent] => UcOf(t) = [k \in CollKeys |-> Absent]
<1>1. uc \in [CollKeys -> Absent..MaxTime]
  BY DEF TypeOK, StoreTypeOK
<1>2. UcOf(t) = [k \in CollKeys |-> IF t.wc[k] = NotSet THEN uc[k] ELSE t.wc[k]]
  BY DEF UcOf, CollView
<1>3. t.wc = NoWc => UcOf(t) = uc
  BY <1>1, <1>2 DEF NoWc
<1>4. ASSUME NEW c \in Collections, NEW ts \in 1..MaxTime, t.wc = [NoWc EXCEPT ![c] = ts]
      PROVE  UcOf(t) = [uc EXCEPT ![c] = ts]
  <2>1. \A k \in CollKeys : t.wc[k] = IF k = c THEN ts ELSE NotSet
    BY <1>4 DEF NoWc
  <2>2. \A k \in CollKeys : UcOf(t)[k] = IF k = c THEN ts ELSE uc[k]
    BY <1>2, <2>1, MaxTimeAssumption
  <2>. QED
    BY <1>1, <1>2, <2>2
<1>5. ASSUME NEW c \in Collections, NEW ts \in 1..MaxTime, t.wc = RemovingWc(c, ts)
      PROVE  UcOf(t) = RemovedUc(c, ts)
  <2>1. c # Tombstone /\ c \in CollKeys /\ Tombstone \in CollKeys
    BY CollectionsAssumption DEF CollKeys
  <2>2. \A k \in CollKeys : t.wc[k] = IF k = Tombstone THEN ts
                                      ELSE IF k = c THEN Absent ELSE NotSet
    BY <1>5 DEF RemovingWc
  <2>3. \A k \in CollKeys : UcOf(t)[k] = IF k = Tombstone THEN ts
                                         ELSE IF k = c THEN Absent ELSE uc[k]
    BY <1>2, <2>2, MaxTimeAssumption
  <2>. QED
    BY <1>1, <1>2, <2>1, <2>3 DEF RemovedUc
<1>6. t.wc = [k \in CollKeys |-> Absent] => UcOf(t) = [k \in CollKeys |-> Absent]
  BY <1>2
<1>7. ASSUME NEW c \in Collections, NEW ts \in 1..MaxTime,
             t.wc = [NoWc EXCEPT ![Tombstone] = ts], uc[c] = Absent
      PROVE  UcOf(t) = RemovedUc(c, ts)
  <2>1. c # Tombstone /\ c \in CollKeys /\ Tombstone \in CollKeys
    BY CollectionsAssumption DEF CollKeys
  <2>2. \A k \in CollKeys : t.wc[k] = IF k = Tombstone THEN ts ELSE NotSet
    BY <1>7 DEF NoWc
  <2>3. \A k \in CollKeys : UcOf(t)[k] = IF k = Tombstone THEN ts
                                         ELSE IF k = c THEN Absent ELSE uc[k]
    BY <1>2, <1>7, <2>2, MaxTimeAssumption
  <2>. QED
    BY <1>1, <1>2, <2>1, <2>3 DEF RemovedUc
<1>. QED
  BY <1>3, <1>4, <1>5, <1>6, <1>7

PutOver(c, done, body, ts) ==
    [bso EXCEPT ![c] = [i \in Ids |-> IF i \in done THEN Upserted(bso[c][i], body, ts)
                                      ELSE bso[c][i]]]

DeletedFrom(c, ids) ==
    [bso EXCEPT ![c] = [i \in Ids |-> IF i \in ids THEN NoRow ELSE bso[c][i]]]

LEMMA BsoViews ==
  ASSUME TypeOK, NEW t
  PROVE  /\ t.wb = NoWb => BsoOf(t) = bso
         /\ \A c \in Collections, done \in SUBSET Ids, body \in Bodies, ts \in 1..MaxTime :
               t.wb = PutWb(c, done, body, ts) => BsoOf(t) = PutOver(c, done, body, ts)
         /\ \A c \in Collections, ids \in SUBSET Ids :
               t.wb = DeletedWb(c, ids) => BsoOf(t) = DeletedFrom(c, ids)
         /\ t.wb = NoRows => BsoOf(t) = NoRows
<1>1. bso \in [Collections -> [Ids -> Row \cup {NoRow}]]
  BY DEF TypeOK, StoreTypeOK
<1>2. BsoOf(t) = [c \in Collections |-> [i \in Ids |->
                     IF t.wb[c][i].mod = NotSet THEN bso[c][i] ELSE t.wb[c][i]]]
  BY DEF BsoOf, BsoView
<1>3. /\ NoRow.mod # NotSet /\ NotStaged.mod = NotSet
      /\ \A row \in Row : row.mod # NotSet
  BY MaxTimeAssumption DEF NoRow, NotStaged, Row
<1>4. ASSUME t.wb = NoWb
      PROVE  BsoOf(t) = bso
  <2>1. \A c \in Collections, i \in Ids : t.wb[c][i] = NotStaged
    BY <1>4 DEF NoWb
  <2>2. BsoOf(t) = [c \in Collections |-> [i \in Ids |-> bso[c][i]]]
    BY <1>2, <1>3, <2>1
  <2>. QED
    BY <1>1, <2>2
<1>5. ASSUME NEW c \in Collections, NEW done \in SUBSET Ids, NEW body \in Bodies,
             NEW ts \in 1..MaxTime, t.wb = PutWb(c, done, body, ts)
      PROVE  BsoOf(t) = PutOver(c, done, body, ts)
  <2>1. \A d \in Collections, i \in Ids :
          t.wb[d][i] = IF d = c /\ i \in done THEN Upserted(bso[c][i], body, ts)
                       ELSE NotStaged
    BY <1>5 DEF PutWb
  <2>2. \A i \in Ids : Upserted(bso[c][i], body, ts) \in Row
    <3>1. \A i \in Ids : bso[c][i] \in Row \cup {NoRow}
      BY <1>1
    <3>. QED
      BY <3>1, UpsertedType, BodiesAreColumns
  <2>3. \A d \in Collections, i \in Ids :
          (IF t.wb[d][i].mod = NotSet THEN bso[d][i] ELSE t.wb[d][i])
          = IF d = c /\ i \in done THEN Upserted(bso[c][i], body, ts) ELSE bso[d][i]
    BY <1>3, <2>1, <2>2
  <2>4. BsoOf(t) = [d \in Collections |-> [i \in Ids |->
                      IF d = c /\ i \in done THEN Upserted(bso[c][i], body, ts)
                      ELSE bso[d][i]]]
    BY <1>2, <2>3
  <2>. QED
    BY <1>1, <2>4 DEF PutOver
<1>6. ASSUME NEW c \in Collections, NEW ids \in SUBSET Ids, t.wb = DeletedWb(c, ids)
      PROVE  BsoOf(t) = DeletedFrom(c, ids)
  <2>1. \A d \in Collections, i \in Ids :
          t.wb[d][i] = IF d = c /\ i \in ids THEN NoRow ELSE NotStaged
    BY <1>6 DEF DeletedWb
  <2>2. \A d \in Collections, i \in Ids :
          (IF t.wb[d][i].mod = NotSet THEN bso[d][i] ELSE t.wb[d][i])
          = IF d = c /\ i \in ids THEN NoRow ELSE bso[d][i]
    BY <1>3, <2>1
  <2>3. BsoOf(t) = [d \in Collections |-> [i \in Ids |->
                      IF d = c /\ i \in ids THEN NoRow ELSE bso[d][i]]]
    BY <1>2, <2>2
  <2>. QED
    BY <1>1, <2>3 DEF DeletedFrom
<1>7. t.wb = NoRows => BsoOf(t) = NoRows
  BY <1>2, <1>3 DEF NoRows
<1>. QED
  BY <1>4, <1>5, <1>6, <1>7

(* A request commits nothing, or one of these effects. *)
Puts(r, t) ==
    /\ r.kind \in PostKinds /\ Done(r) /\ r.coll \in t.excl /\ uc[r.coll] < r.ts
    /\ UcOf(t) = [uc EXCEPT ![r.coll] = r.ts]
    /\ \E done \in SUBSET Ids : BsoOf(t) = PutOver(r.coll, done, r.body, r.ts)

Deletes(r, t) ==
    /\ r.kind \in {"delete_bso", "delete_bsos"} /\ Done(r)
    /\ r.coll \in t.excl /\ uc[r.coll] < r.ts
    /\ UcOf(t) = [uc EXCEPT ![r.coll] = r.ts]
    /\ BsoOf(t) = DeletedFrom(r.coll, r.ids)

DeletesCollection(r, t) ==
    /\ r.kind = "delete_collection" /\ Done(r)
    /\ Tombstone \in t.excl /\ t.rows = {r.coll} \X Ids
    /\ uc[r.coll] < r.ts
    /\ r.coll \in t.excl \/ (uc[r.coll] = Absent /\ ~NoneOf(r.coll))
    /\ uc[r.coll] # Absent \/ ~NoneOf(r.coll)
    /\ UcOf(t) = RemovedUc(r.coll, r.ts)
    /\ BsoOf(t) = DeletedFrom(r.coll, Ids)

Clears(r, t) ==
    /\ r.kind = "delete_all" /\ Done(r)
    /\ t.excl = {k \in CollKeys : uc[k] # Absent} /\ t.all = TRUE
    /\ UcOf(t) = [k \in CollKeys |-> Absent]
    /\ BsoOf(t) = NoRows

LEMMA Effects ==
  ASSUME TypeOK,
         NEW r \in Request, Asked(r), NEW t, Shape(r, t), Told(r), r.pc = "commit"
  PROVE  \/ UcOf(t) = uc /\ BsoOf(t) = bso
         \/ Puts(r, t) \/ Deletes(r, t) \/ DeletesCollection(r, t) \/ Clears(r, t)
<1>1. /\ r.coll \in CollKeys /\ r.coll # Tombstone /\ r.coll \in Collections
      /\ r.ids \in SUBSET Ids /\ Ids \in SUBSET Ids
      /\ r.ts \in 1..MaxTime /\ r.pc # "idle"
  BY CollectionsAssumption DEF Request, CollKeys, Asked, TypeOK, StoreTypeOK
<1>2. r.kind \in WriteKinds => uc[r.coll] < r.ts
  BY DEF Told
<1>3. CASE ShapeOfRead(r, t) \/ ShapeOfLock(r, t)
  <2>1. \/ Fields(t, {}, RowOf(r.coll), GapOf(r.coll), {}, FALSE, NoWc, NoWb)
        \/ Fields(t, RowOf(r.coll), {}, GapOf(r.coll), {}, FALSE, NoWc, NoWb)
    BY <1>3, LockTxn, Zenon DEF ShapeOfRead, ShapeOfLock
  <2>2. t.wc = NoWc /\ t.wb = NoWb
    BY <2>1, Zenon DEF Fields
  <2>. QED
    BY <2>2, UcViews, BsoViews, Zenon
<1>4. CASE ShapeOfPut(r, t)
  <2>1. r.kind \in PostKinds /\ Done(r) /\ r.kind \in WriteKinds /\ r.body \in Bodies
    BY <1>4 DEF ShapeOfPut, Done, WriteKinds, Asked
  <2>2. PICK done \in SUBSET r.ids :
           t = Touched(Putting(LockedForWrite(r.coll), r.coll, done, r.body, r.ts),
                       r.coll, r.ts)
    BY <1>4 DEF ShapeOfPut
  <2>3. Fields(Touched(Putting(LockedForWrite(r.coll), r.coll, done, r.body, r.ts), r.coll, r.ts),
               {r.coll}, {}, GapOf(r.coll), {r.coll} \X done, FALSE,
               [NoWc EXCEPT ![r.coll] = r.ts], PutWb(r.coll, done, r.body, r.ts))
    BY <1>1, <2>1, PutTxn
  <2>4. /\ r.coll \in t.excl /\ t.wc = [NoWc EXCEPT ![r.coll] = r.ts]
        /\ t.wb = PutWb(r.coll, done, r.body, r.ts)
    BY <2>2, <2>3, Zenon DEF Fields
  <2>5. UcOf(t) = [uc EXCEPT ![r.coll] = r.ts]
    BY <1>1, <2>4, UcViews
  <2>6. done \in SUBSET Ids
    BY <1>1
  <2>7. BsoOf(t) = PutOver(r.coll, done, r.body, r.ts)
    BY <1>1, <2>1, <2>4, <2>6, BsoViews
  <2>. QED
    BY <1>2, <2>1, <2>4, <2>5, <2>6, <2>7, Zenon DEF Puts
<1>5. CASE ShapeOfDelete(r, t)
  <2>1. /\ r.kind \in {"delete_bso", "delete_bsos"} /\ Done(r) /\ r.kind \in WriteKinds
        /\ t = Touched(Deleting(r.coll, r.ids), r.coll, r.ts)
    BY <1>5 DEF ShapeOfDelete, Done, WriteKinds
  <2>2. Fields(Touched(Deleting(r.coll, r.ids), r.coll, r.ts), {r.coll}, {}, GapOf(r.coll),
               {r.coll} \X r.ids, FALSE, [NoWc EXCEPT ![r.coll] = r.ts],
               DeletedWb(r.coll, r.ids))
    BY <1>1, DeleteTxn
  <2>3. /\ r.coll \in t.excl /\ t.wc = [NoWc EXCEPT ![r.coll] = r.ts]
        /\ t.wb = DeletedWb(r.coll, r.ids)
    BY <2>1, <2>2, Zenon DEF Fields
  <2>4. UcOf(t) = [uc EXCEPT ![r.coll] = r.ts]
    BY <1>1, <2>3, UcViews
  <2>5. BsoOf(t) = DeletedFrom(r.coll, r.ids)
    BY <1>1, <2>3, BsoViews
  <2>. QED
    BY <1>2, <2>1, <2>3, <2>4, <2>5, Zenon DEF Deletes
<1>6. CASE ShapeOfDeleteCollection(r, t)
  <2>1. /\ r.kind = "delete_collection" /\ Done(r) /\ r.kind \in WriteKinds
    BY <1>6 DEF ShapeOfDeleteCollection, Done, WriteKinds
  <2>2. CASE uc[r.coll] = Absent /\ NoneOf(r.coll)
    <3>1. Fields(Deleting(r.coll, Ids), RowOf(r.coll), {}, GapOf(r.coll), {r.coll} \X Ids,
                 FALSE, NoWc, DeletedWb(r.coll, Ids))
      BY <1>1, DeleteTxn
    <3>2. t.wc = NoWc /\ t.wb = DeletedWb(r.coll, Ids)
      BY <1>6, <2>2, <3>1, Zenon DEF Fields, ShapeOfDeleteCollection
    <3>3. UcOf(t) = uc /\ BsoOf(t) = DeletedFrom(r.coll, Ids)
      BY <1>1, <3>2, UcViews, BsoViews, Zenon
    <3>4. bso \in [Collections -> [Ids -> Row \cup {NoRow}]]
      BY DEF TypeOK, StoreTypeOK
    <3>5. DeletedFrom(r.coll, Ids) = bso
      BY <1>1, <2>2, <3>4 DEF DeletedFrom, NoneOf
    <3>. QED
      BY <3>3, <3>5
  <2>4. CASE uc[r.coll] = Absent /\ ~NoneOf(r.coll)
    <3>1. Fields(Sweeping(r.coll, r.ts), {Tombstone}, {}, {r.coll}, {r.coll} \X Ids,
                 FALSE, [NoWc EXCEPT ![Tombstone] = r.ts], DeletedWb(r.coll, Ids))
      BY <1>1, <2>4, DeleteTxn
    <3>2. t = Sweeping(r.coll, r.ts)
      BY <1>6, <2>4 DEF ShapeOfDeleteCollection
    <3>3. /\ t.excl = {Tombstone} /\ t.rows = {r.coll} \X Ids
          /\ t.wc = [NoWc EXCEPT ![Tombstone] = r.ts] /\ t.wb = DeletedWb(r.coll, Ids)
      BY <3>1, <3>2 DEF Fields
    <3>4. Tombstone \in t.excl
      BY <3>3
    <3>5. UcOf(t) = RemovedUc(r.coll, r.ts)
      <4>1. r.coll \in Collections /\ r.ts \in 1..MaxTime /\ uc[r.coll] = Absent
            /\ t.wc = [NoWc EXCEPT ![Tombstone] = r.ts]
        BY <1>1, <2>4, <3>3
      <4>. QED
        BY <4>1, UcViews
    <3>6. BsoOf(t) = DeletedFrom(r.coll, Ids)
      BY <1>1, <3>3, BsoViews
    <3>. QED
      BY <1>2, <2>1, <2>4, <3>3, <3>4, <3>5, <3>6, Zenon DEF DeletesCollection
  <2>3. CASE uc[r.coll] # Absent
    <3>1. Fields(Removing(r.coll, r.ts), {r.coll, Tombstone}, {}, {}, {r.coll} \X Ids,
                 FALSE, RemovingWc(r.coll, r.ts), DeletedWb(r.coll, Ids))
      BY <1>1, <2>3, DeleteTxn
    <3>2. /\ r.coll \in t.excl /\ Tombstone \in t.excl /\ t.rows = {r.coll} \X Ids
          /\ t.wc = RemovingWc(r.coll, r.ts) /\ t.wb = DeletedWb(r.coll, Ids)
      <4>1. t = Removing(r.coll, r.ts)
        BY <1>6, <2>3 DEF ShapeOfDeleteCollection
      <4>2. t.excl = {r.coll, Tombstone} /\ t.wc = RemovingWc(r.coll, r.ts)
            /\ t.wb = DeletedWb(r.coll, Ids) /\ t.rows = {r.coll} \X Ids
        BY <3>1, <4>1 DEF Fields
      <4>3. r.coll \in t.excl /\ Tombstone \in t.excl
        BY <4>2
      <4>. QED
        BY <4>2, <4>3, Zenon
    <3>3. UcOf(t) = RemovedUc(r.coll, r.ts)
      <4>1. r.coll \in Collections /\ r.ts \in 1..MaxTime /\ t.wc = RemovingWc(r.coll, r.ts)
        BY <1>1, <3>2
      <4>. QED
        BY <4>1, UcViews
    <3>4. BsoOf(t) = DeletedFrom(r.coll, Ids)
      BY <1>1, <3>2, BsoViews
    <3>. QED
      BY <1>2, <2>1, <2>3, <3>2, <3>3, <3>4, Zenon DEF DeletesCollection
  <2>. QED
    BY <2>2, <2>3, <2>4
<1>7. CASE ShapeOfDeleteAll(r, t)
  <2>1. CASE t = NoTxn
    <3>1. t.wc = NoWc /\ t.wb = NoWb
      BY <1>1, <2>1, RequestFields, Zenon DEF Fields
    <3>. QED
      BY <3>1, UcViews, BsoViews, Zenon
  <2>2. CASE r.kind = "delete_all" /\ Done(r) /\ t = ClearingAll
    <3>1. /\ t.excl = {k \in CollKeys : uc[k] # Absent} /\ t.all = TRUE
          /\ t.wc = [k \in CollKeys |-> Absent] /\ t.wb = NoRows
      BY <1>1, <2>2, RequestFields, Zenon DEF Fields
    <3>. QED
      BY <2>2, <3>1, UcViews, BsoViews, Zenon DEF Clears
  <2>. QED
    BY <1>7, <2>1, <2>2 DEF ShapeOfDeleteAll
<1>8. CASE r.pc \in {"idle", "lock", "alone", "stamp"} /\ t = NoTxn
  BY <1>8
<1>. QED
  BY <1>3, <1>4, <1>5, <1>6, <1>7, <1>8, Zenon DEF Shape

-----------------------------------------------------------------------------
(* A commit. *)

LEMMA IdleFacts ==
  /\ Idle \in Request /\ Idle.pc = "idle" /\ Idle.kind = "delete_all"
  /\ Asked(Idle) /\ Shape(Idle, NoTxn) /\ Told(Idle)
  /\ Asked(Idle)' /\ Shape(Idle, NoTxn)' /\ Told(Idle)'
  /\ NoTxn \in Txn /\ Locked(NoTxn) = {} /\ NoTxn.excl = {} /\ NoTxn' = NoTxn
<1>1. AnyCollection \in Collections
  BY CollectionsAssumption, Zenon DEF AnyCollection
<1>2. NothingRead \in [Ids -> Absent..MaxTime] /\ 0 \in 0..MaxTime /\ Absent \in Absent..MaxTime
  BY MaxTimeAssumption DEF NothingRead
<1>3. Idle \in Request
  BY <1>1, <1>2 DEF Idle, Request, AllKinds
<1>4. Idle.pc = "idle" /\ Idle.kind = "delete_all"
  BY DEF Idle
<1>5. /\ "delete_all" \notin BsoKinds /\ "delete_all" \notin PostKinds
      /\ "delete_all" \notin WriteKinds
  BY DEF BsoKinds, PostKinds, WriteKinds
<1>6. NoTxn' = NoTxn
  BY DEF NoTxn, CollKeys, NotStaged
<1>7. Asked(Idle) /\ Shape(Idle, NoTxn) /\ Told(Idle)
  BY <1>4, <1>5 DEF Asked, Shape, Told
<1>8. Asked(Idle)' /\ Shape(Idle, NoTxn)' /\ Told(Idle)'
  BY <1>4, <1>5, <1>6 DEF Asked, Shape, Told, WriteKinds, PostKinds, BsoKinds
<1>9. Locked(NoTxn) = {} /\ NoTxn.excl = {}
  BY BegunFields DEF Locked
<1>. QED
  BY <1>3, <1>4, <1>6, <1>7, <1>8, <1>9, BegunFields

(* A transaction that ends leaves the others apart. *)
LEMMA EmptyApart ==
  ASSUME RowsApart, txn \in [Clients -> Txn], NEW p \in Clients,
         \A q \in Clients : txn'[q] = IF q = p THEN NoTxn ELSE txn[q]
  PROVE  RowsApart'
<1>1. NoTxn.rows = {} /\ NoTxn.all = FALSE
  BY BegunFields
<1>2. \A q \in Clients : Apart(NoTxn, txn[q]) /\ Apart(txn[q], NoTxn)
  BY <1>1 DEF Apart
<1>3. \A q1, q2 \in Clients : q1 # q2 => Apart(txn'[q1], txn'[q2])
  BY <1>2 DEF RowsApart
<1>. QED
  BY <1>3 DEF RowsApart, Apart

(* A commit changes only what its transaction has locked exclusively, and    *)
(* removes BSOs it has locked where a request has lost its transaction.      *)
LEMMA Untouched ==
  ASSUME TypeOK, CollectionCoversBsos,
         NEW r \in Request, NEW t, t \in Txn, UcOf(t) = uc', BsoOf(t) = bso',
         \/ UcOf(t) = uc /\ BsoOf(t) = bso
         \/ Puts(r, t) \/ Deletes(r, t) \/ DeletesCollection(r, t) \/ Clears(r, t)
  PROVE  /\ \A k \in CollKeys : k \notin t.excl => uc'[k] = uc[k]
         /\ \A c \in Collections, i \in Ids :
               c \notin t.excl => \/ bso'[c][i] = bso[c][i]
                                 \/ /\ c \in torn /\ bso'[c][i] = NoRow
                                    /\ <<c, i>> \in t.rows \/ t.all = TRUE
<1>0. ASSUME NEW c \in Collections, uc[c] = Absent, c \notin torn, NEW i \in Ids
      PROVE  bso[c][i] = NoRow
  <2>1. SUFFICES ASSUME bso[c][i] # NoRow
                 PROVE  FALSE
    OBVIOUS
  <2>2. bso[c][i] \in Row
    BY <2>1 DEF TypeOK, StoreTypeOK
  <2>3. bso[c][i].mod \in 1..MaxTime
    BY <2>2 DEF Row
  <2>. QED
    BY <1>0, <2>3, MaxTimeAssumption DEF CollectionCoversBsos, Present
<1>1. /\ uc \in [CollKeys -> Absent..MaxTime]
      /\ bso \in [Collections -> [Ids -> Row \cup {NoRow}]]
      /\ r.coll \in Collections /\ r.coll \in CollKeys /\ Tombstone \in CollKeys
  BY DEF TypeOK, StoreTypeOK, Request, CollKeys
<1>2. CASE UcOf(t) = uc /\ BsoOf(t) = bso
  BY <1>2
<1>3. CASE Puts(r, t) \/ Deletes(r, t)
  <2>1. r.coll \in t.excl /\ uc' = [uc EXCEPT ![r.coll] = r.ts]
    BY <1>3 DEF Puts, Deletes
  <2>2. \A c \in Collections : c # r.coll => bso'[c] = bso[c]
    <3>1. CASE Puts(r, t)
      <4>1. PICK done \in SUBSET Ids : bso' = PutOver(r.coll, done, r.body, r.ts)
        BY <3>1 DEF Puts
      <4>. QED
        BY <1>1, <4>1 DEF PutOver
    <3>2. CASE Deletes(r, t)
      BY <1>1, <3>2 DEF Deletes, DeletedFrom
    <3>. QED
      BY <1>3, <3>1, <3>2
  <2>. QED
    BY <1>1, <2>1, <2>2
<1>4. CASE DeletesCollection(r, t)
  <2>1. /\ Tombstone \in t.excl /\ uc' = RemovedUc(r.coll, r.ts)
        /\ bso' = DeletedFrom(r.coll, Ids) /\ t.rows = {r.coll} \X Ids
        /\ r.coll \in t.excl \/ (uc[r.coll] = Absent /\ ~NoneOf(r.coll))
    BY <1>4 DEF DeletesCollection
  <2>2. \A k \in CollKeys : k # r.coll /\ k # Tombstone => uc'[k] = uc[k]
    BY <1>1, <2>1 DEF RemovedUc
  <2>3. \A c \in Collections : c # r.coll => bso'[c] = bso[c]
    BY <1>1, <2>1 DEF DeletedFrom
  <2>4. CASE r.coll \in t.excl
    BY <2>1, <2>2, <2>3, <2>4
  <2>5. CASE uc[r.coll] = Absent /\ ~NoneOf(r.coll)
    <3>1. r.coll \in torn
      BY <1>0, <1>1, <2>5 DEF NoneOf
    <3>2. uc'[r.coll] = uc[r.coll]
      BY <1>1, <2>1, <2>5, CollectionsAssumption DEF RemovedUc
    <3>3. \A i \in Ids : bso'[r.coll][i] = NoRow /\ <<r.coll, i>> \in t.rows
      BY <1>1, <2>1 DEF DeletedFrom
    <3>. QED
      BY <2>1, <2>2, <2>3, <3>1, <3>2, <3>3
  <2>. QED
    BY <2>1, <2>4, <2>5
<1>5. CASE Clears(r, t)
  <2>1. /\ t.excl = {k \in CollKeys : uc[k] # Absent} /\ t.all = TRUE
        /\ uc' = [k \in CollKeys |-> Absent] /\ bso' = NoRows
    BY <1>5 DEF Clears
  <2>2. \A k \in CollKeys : k \notin t.excl => uc'[k] = uc[k]
    BY <2>1
  <2>3. ASSUME NEW c \in Collections, NEW i \in Ids, c \notin t.excl
        PROVE  bso'[c][i] = bso[c][i] \/ (c \in torn /\ bso'[c][i] = NoRow /\ t.all = TRUE)
    <3>1. uc[c] = Absent
      BY <2>1, <2>3 DEF CollKeys
    <3>2. bso'[c][i] = NoRow
      BY <2>1 DEF NoRows
    <3>. QED
      BY <1>0, <2>1, <3>1, <3>2
  <2>. QED
    BY <2>2, <2>3
<1>. QED
  BY <1>2, <1>3, <1>4, <1>5

(* The store after a commit. *)
LEMMA StoreKept ==
  ASSUME TypeOK, CollectionCoversBsos,
         NEW r \in Request, Asked(r), NEW t, r.pc # "idle", UcOf(t) = uc', BsoOf(t) = bso',
         \/ UcOf(t) = uc /\ BsoOf(t) = bso
         \/ Puts(r, t) \/ Deletes(r, t) \/ DeletesCollection(r, t) \/ Clears(r, t),
         torn' = torn
  PROVE  /\ uc' \in [CollKeys -> Absent..MaxTime]
         /\ bso' \in [Collections -> [Ids -> Row \cup {NoRow}]]
         /\ CollectionCoversBsos'
<1>1. /\ uc \in [CollKeys -> Absent..MaxTime]
      /\ bso \in [Collections -> [Ids -> Row \cup {NoRow}]]
      /\ r.coll \in Collections /\ r.coll \in CollKeys /\ Tombstone \in CollKeys
      /\ r.coll # Tombstone /\ r.ts \in 1..MaxTime
      /\ \A c \in Collections : c \in CollKeys /\ c # Tombstone
  BY CollectionsAssumption DEF TypeOK, StoreTypeOK, Request, CollKeys, Asked
<1>2. \A c \in Collections \ torn, i \in Ids :
        bso[c][i].mod # Absent => bso[c][i].mod <= uc[c] /\ bso[c][i] \in Row
  <2>1. TAKE c \in Collections \ torn, i \in Ids
  <2>2. HAVE bso[c][i].mod # Absent
  <2>3. bso[c][i] \in Row \cup {NoRow} /\ bso[c][i] # NoRow
    BY <1>1, <2>2 DEF NoRow
  <2>. QED
    BY <2>2, <2>3 DEF CollectionCoversBsos, Present
<1>3. CASE UcOf(t) = uc /\ BsoOf(t) = bso
  BY <1>1, <1>3 DEF CollectionCoversBsos, Present
<1>4. CASE Puts(r, t)
  <2>1. /\ uc' = [uc EXCEPT ![r.coll] = r.ts] /\ uc[r.coll] < r.ts /\ r.body \in Bodies
    BY <1>4 DEF Puts, Asked
  <2>2. PICK done \in SUBSET Ids : bso' = PutOver(r.coll, done, r.body, r.ts)
    BY <1>4 DEF Puts
  <2>3. uc' \in [CollKeys -> Absent..MaxTime]
    BY <1>1, <2>1
  <2>4. \A i \in Ids : /\ Upserted(bso[r.coll][i], r.body, r.ts) \in Row
                       /\ Upserted(bso[r.coll][i], r.body, r.ts).mod
                             \in {bso[r.coll][i].mod, r.ts}
                       /\ Upserted(bso[r.coll][i], r.body, r.ts).mod # Absent
    <3>1. \A i \in Ids : bso[r.coll][i] \in Row \cup {NoRow}
      BY <1>1
    <3>2. TAKE i \in Ids
    <3>. DEFINE row == bso[r.coll][i]
    <3>3. row \in Row \cup {NoRow}
      BY <3>1
    <3>. HIDE DEF row
    <3>4. /\ Upserted(row, r.body, r.ts) \in Row
          /\ Upserted(row, r.body, r.ts).mod \in {row.mod, r.ts}
          /\ Upserted(row, r.body, r.ts).mod # Absent
      BY <1>1, <2>1, <3>3, UpsertedType, BodiesAreColumns
    <3>. QED
      BY <3>4, Zenon DEF row
  <2>5. \A c \in Collections, i \in Ids :
          bso'[c][i] = IF c = r.coll /\ i \in done
                       THEN Upserted(bso[r.coll][i], r.body, r.ts) ELSE bso[c][i]
    BY <1>1, <2>2 DEF PutOver
  <2>6. bso' \in [Collections -> [Ids -> Row \cup {NoRow}]]
    <3>1. [i \in Ids |-> IF i \in done THEN Upserted(bso[r.coll][i], r.body, r.ts)
                         ELSE bso[r.coll][i]] \in [Ids -> Row \cup {NoRow}]
      BY <1>1, <2>4
    <3>. QED
      BY <1>1, <2>2, <3>1 DEF PutOver
  <2>7. ASSUME NEW c \in Collections \ torn, NEW i \in Ids, bso'[c][i].mod # Absent
        PROVE  bso'[c][i].mod <= uc'[c]
    <3>1. CASE c = r.coll /\ i \in done
      <4>1. bso'[c][i].mod \in {bso[c][i].mod, r.ts} /\ uc'[c] = r.ts
        BY <1>1, <2>1, <2>4, <2>5, <3>1
      <4>2. CASE bso'[c][i].mod = r.ts
        BY <1>1, <4>1, <4>2
      <4>3. CASE bso'[c][i].mod = bso[c][i].mod
        <5>1. bso[c][i].mod <= uc[c] /\ bso[c][i].mod \in 1..MaxTime
          BY <1>2, <2>7, <4>3 DEF Row
        <5>. QED
          BY <1>1, <2>1, <3>1, <4>1, <4>3, <5>1
      <4>. QED
        BY <4>1, <4>2, <4>3
    <3>2. CASE ~(c = r.coll /\ i \in done)
      <4>1. bso'[c][i] = bso[c][i]
        BY <2>5, <3>2
      <4>2. bso[c][i].mod <= uc[c] /\ bso[c][i].mod \in 1..MaxTime
        BY <1>2, <2>7, <4>1 DEF Row
      <4>3. uc[c] \in Absent..MaxTime /\ uc[c] <= uc'[c] /\ uc'[c] \in Absent..MaxTime
        BY <1>1, <2>1
      <4>. QED
        BY <4>1, <4>2, <4>3, MaxTimeAssumption
    <3>. QED
      BY <3>1, <3>2
  <2>8. CollectionCoversBsos'
    BY <2>7, Zenon DEF CollectionCoversBsos, Present
  <2>. QED
    BY <2>3, <2>6, <2>8
<1>5. CASE Deletes(r, t)
  <2>1. /\ uc' = [uc EXCEPT ![r.coll] = r.ts] /\ uc[r.coll] < r.ts
        /\ bso' = DeletedFrom(r.coll, r.ids)
    BY <1>5 DEF Deletes
  <2>2. uc' \in [CollKeys -> Absent..MaxTime]
    BY <1>1, <2>1
  <2>3. bso' \in [Collections -> [Ids -> Row \cup {NoRow}]]
    BY <1>1, <2>1 DEF DeletedFrom
  <2>4. \A c \in Collections, i \in Ids : bso'[c][i] \in {NoRow, bso[c][i]}
    BY <1>1, <2>1 DEF DeletedFrom
  <2>5. ASSUME NEW c \in Collections \ torn, NEW i \in Ids, bso'[c][i].mod # Absent
        PROVE  bso'[c][i].mod <= uc'[c]
    <3>1. bso'[c][i] = bso[c][i]
      BY <2>4, <2>5 DEF NoRow
    <3>2. bso[c][i].mod <= uc[c] /\ bso[c][i].mod \in 1..MaxTime
      BY <1>2, <2>5, <3>1 DEF Row
    <3>3. uc[c] \in Absent..MaxTime /\ uc[c] <= uc'[c] /\ uc'[c] \in Absent..MaxTime
      BY <1>1, <2>1
    <3>. QED
      BY <3>1, <3>2, <3>3, MaxTimeAssumption
  <2>6. CollectionCoversBsos'
    BY <2>5, Zenon DEF CollectionCoversBsos, Present
  <2>. QED
    BY <2>2, <2>3, <2>6
<1>6. CASE DeletesCollection(r, t)
  <2>1. /\ uc' = RemovedUc(r.coll, r.ts) /\ bso' = DeletedFrom(r.coll, Ids)
    BY <1>6 DEF DeletesCollection
  <2>2. /\ uc' \in [CollKeys -> Absent..MaxTime]
        /\ \A c \in Collections : c # r.coll => uc'[c] = uc[c]
    BY <1>1, <2>1, MaxTimeAssumption DEF RemovedUc
  <2>3. bso' \in [Collections -> [Ids -> Row \cup {NoRow}]]
    BY <1>1, <2>1 DEF DeletedFrom
  <2>4. \A c \in Collections, i \in Ids : bso'[c][i] = IF c = r.coll THEN NoRow ELSE bso[c][i]
    BY <1>1, <2>1 DEF DeletedFrom
  <2>5. ASSUME NEW c \in Collections \ torn, NEW i \in Ids, bso'[c][i].mod # Absent
        PROVE  bso'[c][i].mod <= uc'[c]
    <3>1. c # r.coll /\ bso'[c][i] = bso[c][i]
      BY <2>4, <2>5 DEF NoRow
    <3>. QED
      BY <1>2, <2>2, <2>5, <3>1
  <2>6. CollectionCoversBsos'
    BY <2>5, Zenon DEF CollectionCoversBsos, Present
  <2>. QED
    BY <2>2, <2>3, <2>6
<1>7. CASE Clears(r, t)
  <2>1. uc' = [k \in CollKeys |-> Absent] /\ bso' = NoRows
    BY <1>7 DEF Clears
  <2>2. uc' \in [CollKeys -> Absent..MaxTime]
    BY <2>1, MaxTimeAssumption
  <2>3. bso' \in [Collections -> [Ids -> Row \cup {NoRow}]]
    BY <2>1 DEF NoRows
  <2>4. CollectionCoversBsos'
    BY <2>1 DEF CollectionCoversBsos, Present, NoRows, NoRow
  <2>. QED
    BY <2>2, <2>3, <2>4
<1>. QED
  BY <1>3, <1>4, <1>5, <1>6, <1>7

LEMMA CommitStep ==
  ASSUME LockInv, NEW p \in Clients, CommitRequest(p)
  PROVE  LockInv'
<1>. DEFINE r == req[p]
            t == txn[p]
<1>1. /\ req \in [Clients -> Request] /\ txn \in [Clients -> Txn] /\ TypeOK
      /\ CollectionCoversBsos /\ Exclusive /\ RowsApart /\ now \in 1..MaxTime
      /\ torn \in SUBSET Collections
      /\ \A q \in Clients : Asked(req[q]) /\ Shape(req[q], txn[q]) /\ Told(req[q])
  BY DEF LockInv, TypeOK, StoreTypeOK
<1>2. /\ r.pc = "commit" /\ uc' = UcOf(t) /\ bso' = BsoOf(t) /\ now' = now /\ torn' = torn
      /\ txn' = [txn EXCEPT ![p] = NoTxn] /\ req' = [req EXCEPT ![p] = Idle]
  BY DEF CommitRequest, Commit, UcOf, BsoOf
<1>3. r \in Request /\ Asked(r) /\ Shape(r, t) /\ Told(r) /\ t \in Txn
  BY <1>1
<1>. HIDE DEF r, t
<1>4. \/ UcOf(t) = uc /\ BsoOf(t) = bso
      \/ Puts(r, t) \/ Deletes(r, t) \/ DeletesCollection(r, t) \/ Clears(r, t)
  BY <1>1, <1>2, <1>3, Effects
<1>5. /\ \A k \in CollKeys : k \notin t.excl => uc'[k] = uc[k]
      /\ \A c \in Collections, i \in Ids :
            c \notin t.excl => \/ bso'[c][i] = bso[c][i]
                              \/ /\ c \in torn /\ bso'[c][i] = NoRow
                                 /\ <<c, i>> \in t.rows \/ t.all = TRUE
  BY <1>1, <1>2, <1>3, <1>4, Untouched
<1>6. /\ uc' \in [CollKeys -> Absent..MaxTime]
      /\ bso' \in [Collections -> [Ids -> Row \cup {NoRow}]]
      /\ CollectionCoversBsos'
  <2>1. r.pc # "idle"
    BY <1>2
  <2>. QED
    BY <1>1, <1>2, <1>3, <1>4, <2>1, StoreKept
<1>7. TypeOK'
  BY <1>1, <1>2, <1>6, IdleFacts DEF TypeOK, StoreTypeOK
<1>8. \A q \in Clients : txn'[q] = IF q = p THEN NoTxn ELSE txn[q]
  BY <1>1, <1>2
<1>9. Exclusive'
  BY <1>1, <1>8, IdleFacts DEF Exclusive, Locked
<1>10. RowsApart'
  BY <1>1, <1>8, EmptyApart
<1>11. ASSUME NEW q \in Clients
       PROVE  (Asked(req[q]) /\ Shape(req[q], txn[q]) /\ Told(req[q]))'
  <2>1. CASE q = p
    <3>1. req'[q] = Idle /\ txn'[q] = NoTxn
      BY <1>1, <1>2, <2>1
    <3>. QED
      BY <3>1, IdleFacts, Zenon
  <2>2. CASE q # p
    <3>. DEFINE s == req[q]
                u == txn[q]
    <3>1. s \in Request /\ Asked(s) /\ Shape(s, u) /\ req'[q] = s /\ txn'[q] = u
      BY <1>1, <1>2, <2>2
    <3>2. s.coll \in Collections /\ s.coll \in CollKeys
      BY <3>1 DEF Request, CollKeys
    <3>3. t.excl \cap Locked(u) = {} /\ Apart(t, u)
      BY <1>1, <2>2 DEF Exclusive, RowsApart, t
    <3>. HIDE DEF s, u
    <3>4. /\ s.pc \notin {"idle", "lock", "alone", "stamp"} /\ s.kind # "delete_all"
                => s.coll \in Locked(u)
          /\ s.kind = "delete_all" /\ Done(s) => Locked(u) = CollKeys
          /\ s.kind # "delete_all" => u.rows \subseteq {s.coll} \X Ids
          /\ u.rows # {} => s.pc \in {"touch", "commit"} /\ s.kind \in WriteKinds
      BY <1>1, <3>1, HeldFacts
    <3>5. s.pc \notin {"idle", "lock", "alone", "stamp"} /\ s.kind # "delete_all"
             => uc'[s.coll] = uc[s.coll] /\ (s.coll \in torn' \/ NothingNew(s.coll))
      BY <1>2, <1>5, <3>2, <3>3, <3>4 DEF NothingNew
    <3>6. s.kind = "delete_all" /\ Done(s) => \A k \in CollKeys : uc'[k] = uc[k]
      BY <1>5, <3>3, <3>4
    <3>7. RowsStay(u)
      <4>1. SUFFICES ASSUME NEW c \in Collections, NEW i \in Ids, <<c, i>> \in u.rows
                     PROVE  bso'[c][i] = bso[c][i]
        BY DEF RowsStay
      <4>2. s.kind # "delete_all" /\ s.pc \notin {"idle", "lock", "alone", "stamp"}
        BY <3>4, <4>1 DEF WriteKinds, PostKinds
      <4>3. c \in Locked(u) /\ c \notin t.excl
        BY <3>3, <3>4, <4>1, <4>2
      <4>4. <<c, i>> \notin t.rows /\ t.all # TRUE
        BY <3>3, <4>1 DEF Apart
      <4>. QED
        BY <1>5, <4>3, <4>4
    <3>. QED
      BY <1>2, <3>1, <3>5, <3>6, <3>7, OtherKept DEF s, u
  <2>. QED
    BY <2>1, <2>2
<1>. QED
  BY <1>6, <1>7, <1>9, <1>10, <1>11, Zenon DEF LockInv

-----------------------------------------------------------------------------
(* The other actions. *)

(* What the actions change of a request. *)
With(r, pc, cached, status, lm, items) ==
    [pc |-> pc, kind |-> r.kind, coll |-> r.coll, ids |-> r.ids, body |-> r.body,
     since |-> r.since, ts |-> r.ts, cached |-> cached, status |-> status, lm |-> lm,
     items |-> items]

Moved(s, r, pc, cached, status, lm, items) ==
    /\ s \in Request /\ s.pc = pc /\ s.kind = r.kind /\ s.coll = r.coll /\ s.ids = r.ids
    /\ s.body = r.body /\ s.since = r.since /\ s.ts = r.ts /\ s.cached = cached
    /\ s.status = status /\ s.lm = lm /\ s.items = items

LEMMA WithFields ==
  ASSUME NEW r \in Request, NEW cached \in Absent..MaxTime, NEW status \in {0, 200, 412},
         NEW lm \in 0..MaxTime, NEW items \in [Ids -> Absent..MaxTime],
         NEW pc \in {"idle", "lock", "check", "handle", "touch", "finish", "commit",
                     "alone", "stamp"}
  PROVE  Moved(With(r, pc, cached, status, lm, items), r, pc, cached, status, lm, items)
  BY DEF With, Request, Moved

LEMMA State ==
  ASSUME LockInv, NEW p \in Clients
  PROVE  /\ TypeOK /\ CollectionCoversBsos
         /\ req \in [Clients -> Request] /\ txn \in [Clients -> Txn]
         /\ now \in 1..MaxTime /\ uc \in [CollKeys -> Absent..MaxTime]
         /\ torn \in SUBSET Collections
         /\ bso \in [Collections -> [Ids -> Row \cup {NoRow}]]
         /\ req[p] \in Request /\ txn[p] \in Txn
         /\ Asked(req[p]) /\ Shape(req[p], txn[p]) /\ Told(req[p])
         /\ req[p].coll \in Collections /\ req[p].coll \in CollKeys /\ req[p].ids \in SUBSET Ids
         /\ req[p].pc # "idle" => req[p].ts \in 1..MaxTime
  BY DEF LockInv, TypeOK, StoreTypeOK, Request, CollKeys, Asked

LEMMA RequestValues ==
  ASSUME LockInv, NEW p \in Clients
  PROVE  /\ req[p] \in Request /\ req[p].cached \in Absent..MaxTime
         /\ req[p].status \in {0, 200, 412} /\ req[p].lm \in 0..MaxTime
         /\ req[p].items \in [Ids -> Absent..MaxTime]
         /\ req[p].kind \in AllKinds
         /\ req[p].since \in 0..MaxTime \cup {NotSet}
<1>1. req[p] \in Request
  BY State
<1>. QED
  BY <1>1 DEF Request

Becomes(p, r) == req' = [req EXCEPT ![p] = r]

MovesOn(p, pc)            == req' = [req EXCEPT ![p].pc = pc]
MovesOnKnowing(p, pc, x)  == req' = [req EXCEPT ![p].pc = pc, ![p].cached = x]
MovesOnWith(p, pc, x)     == req' = [req EXCEPT ![p].pc = pc, ![p].status = x]
MovesOnHaving(p, pc, x)   == req' = [req EXCEPT ![p].pc = pc, ![p].items = x]
Finishes(p, pc, x, y)     == req' = [req EXCEPT ![p].pc = pc, ![p].status = x, ![p].lm = y]

LEMMA Updates ==
  ASSUME LockInv, NEW p \in Clients, NEW pc, NEW x, NEW y
  PROVE  LET r == req[p] IN
         /\ MovesOn(p, pc) => Becomes(p, With(r, pc, r.cached, r.status, r.lm, r.items))
         /\ MovesOnKnowing(p, pc, x) => Becomes(p, With(r, pc, x, r.status, r.lm, r.items))
         /\ MovesOnWith(p, pc, x) => Becomes(p, With(r, pc, r.cached, x, r.lm, r.items))
         /\ MovesOnHaving(p, pc, x) => Becomes(p, With(r, pc, r.cached, r.status, r.lm, x))
         /\ Finishes(p, pc, x, y) => Becomes(p, With(r, pc, r.cached, x, y, r.items))
<1>1. req[p] \in Request /\ req \in [Clients -> Request]
  BY State
<1>2. [req EXCEPT ![p].pc = pc]
      = [req EXCEPT ![p] = [req[p] EXCEPT !.pc = pc]]
  BY <1>1
<1>3. [req EXCEPT ![p].pc = pc, ![p].cached = x]
      = [req EXCEPT ![p] = [req[p] EXCEPT !.pc = pc, !.cached = x]]
  BY <1>1
<1>4. [req EXCEPT ![p].pc = pc, ![p].status = x]
      = [req EXCEPT ![p] = [req[p] EXCEPT !.pc = pc, !.status = x]]
  BY <1>1
<1>5. [req EXCEPT ![p].pc = pc, ![p].items = x]
      = [req EXCEPT ![p] = [req[p] EXCEPT !.pc = pc, !.items = x]]
  BY <1>1
<1>6. [req EXCEPT ![p].pc = pc, ![p].status = x, ![p].lm = y]
      = [req EXCEPT ![p] = [req[p] EXCEPT !.pc = pc, !.status = x, !.lm = y]]
  BY <1>1
<1>. DEFINE r0 == req[p]
<1>. HIDE DEF r0
<1>7. /\ [r0 EXCEPT !.pc = pc] = With(r0, pc, r0.cached, r0.status, r0.lm, r0.items)
      /\ [r0 EXCEPT !.pc = pc, !.cached = x] = With(r0, pc, x, r0.status, r0.lm, r0.items)
      /\ [r0 EXCEPT !.pc = pc, !.status = x] = With(r0, pc, r0.cached, x, r0.lm, r0.items)
      /\ [r0 EXCEPT !.pc = pc, !.items = x] = With(r0, pc, r0.cached, r0.status, r0.lm, x)
      /\ [r0 EXCEPT !.pc = pc, !.status = x, !.lm = y] = With(r0, pc, r0.cached, x, y, r0.items)
  <2>0. r0 \in Request
    BY <1>1 DEF r0
  <2>. DEFINE s == [r0 EXCEPT !.pc = pc]
  <2>1. s = With(r0, pc, r0.cached, r0.status, r0.lm, r0.items)
    BY <2>0 DEF With, Request
  <2>. HIDE DEF s
  <2>2. [s EXCEPT !.cached = x] = With(r0, pc, x, r0.status, r0.lm, r0.items)
    BY <2>1 DEF With
  <2>3. [s EXCEPT !.status = x] = With(r0, pc, r0.cached, x, r0.lm, r0.items)
    BY <2>1 DEF With
  <2>4. [s EXCEPT !.items = x] = With(r0, pc, r0.cached, r0.status, r0.lm, x)
    BY <2>1 DEF With
  <2>. DEFINE u == [s EXCEPT !.status = x]
  <2>a. u = With(r0, pc, r0.cached, x, r0.lm, r0.items)
    BY <2>3
  <2>. HIDE DEF u
  <2>5. [u EXCEPT !.lm = y] = With(r0, pc, r0.cached, x, y, r0.items)
    BY <2>a DEF With
  <2>6. /\ [r0 EXCEPT !.pc = pc, !.cached = x] = [s EXCEPT !.cached = x]
        /\ [r0 EXCEPT !.pc = pc, !.status = x] = [s EXCEPT !.status = x]
        /\ [r0 EXCEPT !.pc = pc, !.items = x] = [s EXCEPT !.items = x]
        /\ [r0 EXCEPT !.pc = pc, !.status = x, !.lm = y] = [u EXCEPT !.lm = y]
    BY DEF s, u
  <2>. QED
    BY <2>1, <2>2, <2>3, <2>4, <2>5, <2>6 DEF s
<1>8. [req EXCEPT ![p].pc = pc]
    = [req EXCEPT ![p] = With(req[p], pc,
                              req[p].cached, req[p].status, req[p].lm, req[p].items)]
  BY <1>2, <1>7 DEF r0
<1>9. [req EXCEPT ![p].pc = pc, ![p].cached = x]
    = [req EXCEPT ![p] = With(req[p], pc, x, req[p].status, req[p].lm, req[p].items)]
  BY <1>3, <1>7 DEF r0
<1>10. [req EXCEPT ![p].pc = pc, ![p].status = x]
     = [req EXCEPT ![p] = With(req[p], pc, req[p].cached, x, req[p].lm, req[p].items)]
  BY <1>4, <1>7 DEF r0
<1>11. [req EXCEPT ![p].pc = pc, ![p].items = x]
     = [req EXCEPT ![p] = With(req[p], pc, req[p].cached, req[p].status, req[p].lm, x)]
  BY <1>5, <1>7 DEF r0
<1>12. [req EXCEPT ![p].pc = pc, ![p].status = x, ![p].lm = y]
     = [req EXCEPT ![p] = With(req[p], pc, req[p].cached, x, y, req[p].items)]
  BY <1>6, <1>7 DEF r0
<1>. QED
  BY <1>8, <1>9, <1>10, <1>11, <1>12 DEF Becomes, MovesOn, MovesOnKnowing, MovesOnWith,
     MovesOnHaving, Finishes

(* A step that locks nothing new. *)
LEMMA QuietStep ==
  ASSUME LockInv, NEW p \in Clients, NEW r \in Request, NEW t \in Txn,
         UNCHANGED <<now, uc, bso, torn>>,
         req' = [req EXCEPT ![p] = r], txn' = [txn EXCEPT ![p] = t],
         Asked(r), Shape(r, t), Told(r),
         t.excl \subseteq txn[p].excl, Locked(t) \subseteq Locked(txn[p]),
         t.rows \subseteq txn[p].rows, t.all = FALSE \/ t.all = txn[p].all
  PROVE  LockInv'
<1>1. \A q \in Clients \ {p} : /\ t.excl \cap Locked(txn[q]) = {}
                               /\ txn[q].excl \cap Locked(t) = {}
  BY DEF LockInv, Exclusive
<1>2. \A q \in Clients \ {p} : Apart(t, txn[q])
  BY DEF LockInv, RowsApart, Apart
<1>. QED
  BY <1>1, <1>2, LocalStep

Started(pc, kind, c, ids, body, since, ts) ==
    [Idle EXCEPT !.pc = pc, !.kind = kind, !.coll = c, !.ids = ids,
                 !.body = body, !.since = since, !.ts = ts]

LEMMA StartedFields ==
  ASSUME NEW pc \in {"lock", "check"}, NEW kind \in AllKinds, NEW c \in Collections,
         NEW ids \in SUBSET Ids, NEW body \in Bodies \cup {NoBody},
         NEW since \in 0..MaxTime \cup {NotSet}, NEW ts \in 0..MaxTime
  PROVE  LET r == Started(pc, kind, c, ids, body, since, ts) IN
         /\ r \in Request /\ r.pc = pc /\ r.kind = kind /\ r.ids = ids /\ r.body = body
         /\ r.ts = ts /\ r.coll = c
<1>. DEFINE r1 == [Idle EXCEPT !.pc = pc]
<1>1. r1 = [pc |-> pc, kind |-> "delete_all", coll |-> AnyCollection, ids |-> {},
         body |-> NoBody, since |-> NotSet, ts |-> 0, cached |-> Absent, status |-> 0,
         lm |-> 0, items |-> NothingRead]
  BY DEF Idle
<1>. HIDE DEF r1
<1>. DEFINE r2 == [r1 EXCEPT !.kind = kind]
<1>2. r2 = [pc |-> pc, kind |-> kind, coll |-> AnyCollection, ids |-> {},
         body |-> NoBody, since |-> NotSet, ts |-> 0, cached |-> Absent, status |-> 0,
         lm |-> 0, items |-> NothingRead]
  BY <1>1
<1>. HIDE DEF r2
<1>. DEFINE r3 == [r2 EXCEPT !.coll = c]
<1>3. r3 = [pc |-> pc, kind |-> kind, coll |-> c, ids |-> {}, body |-> NoBody,
         since |-> NotSet, ts |-> 0, cached |-> Absent, status |-> 0, lm |-> 0,
         items |-> NothingRead]
  BY <1>2
<1>. HIDE DEF r3
<1>. DEFINE r4 == [r3 EXCEPT !.ids = ids]
<1>4. r4 = [pc |-> pc, kind |-> kind, coll |-> c, ids |-> ids, body |-> NoBody,
         since |-> NotSet, ts |-> 0, cached |-> Absent, status |-> 0, lm |-> 0,
         items |-> NothingRead]
  BY <1>3
<1>. HIDE DEF r4
<1>. DEFINE r5 == [r4 EXCEPT !.body = body]
<1>5. r5 = [pc |-> pc, kind |-> kind, coll |-> c, ids |-> ids, body |-> body,
         since |-> NotSet, ts |-> 0, cached |-> Absent, status |-> 0, lm |-> 0,
         items |-> NothingRead]
  BY <1>4
<1>. HIDE DEF r5
<1>. DEFINE r6 == [r5 EXCEPT !.since = since]
<1>6. r6 = [pc |-> pc, kind |-> kind, coll |-> c, ids |-> ids, body |-> body,
         since |-> since, ts |-> 0, cached |-> Absent, status |-> 0, lm |-> 0,
         items |-> NothingRead]
  BY <1>5
<1>. HIDE DEF r6
<1>. DEFINE r7 == [r6 EXCEPT !.ts = ts]
<1>7. r7 = [pc |-> pc, kind |-> kind, coll |-> c, ids |-> ids, body |-> body,
         since |-> since, ts |-> ts, cached |-> Absent, status |-> 0, lm |-> 0,
         items |-> NothingRead]
  BY <1>6
<1>. HIDE DEF r7
<1>8. r7 = Started(pc, kind, c, ids, body, since, ts)
  BY DEF Started, r1, r2, r3, r4, r5, r6, r7
<1>9. NothingRead \in [Ids -> Absent..MaxTime] /\ 0 \in 0..MaxTime /\ Absent \in Absent..MaxTime
  BY MaxTimeAssumption DEF NothingRead
<1>10. /\ r7 \in Request /\ r7.pc = pc /\ r7.kind = kind /\ r7.ids = ids /\ r7.body = body
       /\ r7.ts = ts /\ r7.coll = c
  BY <1>7, <1>9 DEF Request
<1>. QED
  BY <1>8, <1>10

LEMMA StartStep ==
  ASSUME LockInv, NEW p \in Clients, Start(p)
  PROVE  LockInv'
<1>1. PICK kind \in Kinds, c \in Collections, since \in Headers, ts \in 1..now :
       \E ids \in IdsOf(kind),
          body \in IF kind \in PostKinds THEN Bodies ELSE {NoBody} :
          /\ ts >= now - MaxSkew
          /\ kind = "delete_all" => c = AnyCollection
          /\ req' = [req EXCEPT ![p] =
                       [Idle EXCEPT !.pc = IF kind = "delete_all" THEN "check"
                                           ELSE "lock",
                                    !.kind = kind, !.coll = c, !.ids = ids,
                                    !.body = body, !.since = since, !.ts = ts]]
  BY Zenon DEF Start
<1>2. PICK ids \in IdsOf(kind), body \in IF kind \in PostKinds THEN Bodies ELSE {NoBody} :
          req' = [req EXCEPT ![p] =
                       [Idle EXCEPT !.pc = IF kind = "delete_all" THEN "check"
                                           ELSE "lock",
                                    !.kind = kind, !.coll = c, !.ids = ids,
                                    !.body = body, !.since = since, !.ts = ts]]
  BY <1>1, Zenon
<1>. DEFINE pc == IF kind = "delete_all" THEN "check" ELSE "lock"
            r  == Started(pc, kind, c, ids, body, since, ts)
<1>3. /\ kind \in AllKinds /\ since \in 0..MaxTime \cup {NotSet} /\ ts \in 0..MaxTime
      /\ body \in Bodies \cup {NoBody}
  <2>1. kind \in AllKinds /\ since \in 0..MaxTime \cup {NotSet}
    BY KindsAssumption, HeadersAssumption
  <2>2. ts \in 0..MaxTime
    <3>1. now \in 1..MaxTime
      BY State
    <3>. QED
      BY <3>1, MaxTimeAssumption
  <2>3. body \in Bodies \cup {NoBody}
    OBVIOUS
  <2>. QED
    BY <2>1, <2>2, <2>3
<1>4. /\ ids \in SUBSET Ids
      /\ kind \in BsoKinds => \E i \in Ids : ids = {i}
  BY DEF IdsOf, BsoKinds
<1>5. /\ r \in Request /\ r.pc = pc /\ r.kind = kind /\ r.ids = ids /\ r.body = body
      /\ r.ts = ts
  BY <1>3, <1>4, StartedFields
<1>6. req[p].pc = "idle" /\ UNCHANGED <<now, uc, bso, txn, torn>>
  BY DEF Start
<1>7. req' = [req EXCEPT ![p] = r]
  BY <1>2 DEF Started
<1>. HIDE DEF r
<1>8. txn[p] = NoTxn
  BY <1>6, State, HeldFacts
<1>9. txn' = [txn EXCEPT ![p] = txn[p]]
  BY <1>6, State
<1>10. Asked(r)
  BY <1>3, <1>4, <1>5 DEF Asked
<1>11. Shape(r, txn[p])
  BY <1>5, <1>8 DEF Shape, ShapeOfDeleteAll
<1>12. Told(r)
  BY <1>5 DEF Told, Passed, Done, WriteKinds, PostKinds
<1>. QED
  BY <1>5, <1>6, <1>7, <1>9, <1>10, <1>11, <1>12, State, QuietStep

LEMMA CloseStep ==
  ASSUME LockInv, NEW p \in Clients, Close(p)
  PROVE  LockInv'
<1>1. /\ txn' = [txn EXCEPT ![p] = NoTxn] /\ UNCHANGED <<now, uc, bso, torn>>
      /\ req' = [req EXCEPT ![p] = Idle]
  BY DEF Close, Rollback
<1>2. /\ NoTxn.excl \subseteq txn[p].excl /\ Locked(NoTxn) \subseteq Locked(txn[p])
      /\ NoTxn.rows \subseteq txn[p].rows /\ NoTxn.all = FALSE
  BY IdleFacts, BegunFields
<1>. QED
  BY <1>1, <1>2, IdleFacts, QuietStep

LEMMA LockForReadStep ==
  ASSUME LockInv, NEW p \in Clients, LockForRead(p)
  PROVE  LockInv'
<1>. DEFINE c  == req[p].coll
            r0 == req[p]
            r  == With(r0, "check", uc[c], r0.status, r0.lm, r0.items)
            t  == LockedForRead(c)
<1>1. /\ r0.pc = "lock" /\ r0.kind = "get_collection"
      /\ Shareable(p, c) /\ UNCHANGED <<now, uc, bso, torn>>
      /\ txn' = [txn EXCEPT ![p] = t] /\ MovesOnKnowing(p, "check", uc[c])
  BY DEF LockForRead, In, SetTxn, MovesOnKnowing
<1>2. /\ c \in Collections /\ c \in CollKeys /\ uc[c] \in Absent..MaxTime
      /\ r0 \in Request /\ Asked(r0)
  BY State
<1>3. Becomes(p, r)
  BY <1>1, Updates
<1>4. Moved(r, r0, "check", uc[c], r0.status, r0.lm, r0.items)
  BY <1>2, RequestValues, WithFields
<1>5. Fields(t, {}, RowOf(c), GapOf(c), {}, FALSE, NoWc, NoWb)
  BY State, LockTxn
<1>6. t = LockedForRead(c) /\ c = r0.coll
  OBVIOUS
<1>. HIDE DEF c, r0, r, t
<1>7. /\ r \in Request /\ r.pc = "check" /\ r.cached = uc[c] /\ r.kind = "get_collection"
      /\ r.coll = c /\ r.ts = r0.ts
  BY <1>1, <1>4, <1>6 DEF Moved
<1>8. t \in Txn /\ t.excl = {} /\ Locked(t) \subseteq {c} /\ t.rows = {} /\ t.all = FALSE
  BY <1>5 DEF Fields, Locked, RowOf, GapOf
<1>9. Asked(r)
  BY <1>1, <1>2, <1>7 DEF Asked, PostKinds, BsoKinds
<1>10. Shape(r, t)
  BY <1>6, <1>7 DEF Shape, ShapeOfRead
<1>11. Told(r)
  BY <1>7 DEF Told, Done, WriteKinds, PostKinds
<1>12. \A q \in Clients \ {p} : c \notin txn[q].excl
  BY <1>1 DEF Shareable
<1>13. \A q \in Clients \ {p} : /\ t.excl \cap Locked(txn[q]) = {}
                                /\ txn[q].excl \cap Locked(t) = {}
                                /\ Apart(t, txn[q])
  BY <1>8, <1>12 DEF Apart
<1>. QED
  BY <1>1, <1>3, <1>7, <1>8, <1>9, <1>10, <1>11, <1>13, LocalStep DEF Becomes

LEMMA LockForWriteStep ==
  ASSUME LockInv, NEW p \in Clients, LockForWrite(p)
  PROVE  LockInv'
<1>. DEFINE c  == req[p].coll
            r0 == req[p]
            r  == With(r0, "check", uc[c], r0.status, r0.lm, r0.items)
            t  == LockedForWrite(c)
<1>1. /\ r0.pc = "lock" /\ r0.kind \in WriteKinds
      /\ Lockable(p, c) /\ uc[c] < r0.ts /\ UNCHANGED <<now, uc, bso, torn>>
      /\ txn' = [txn EXCEPT ![p] = t] /\ MovesOnKnowing(p, "check", uc[c])
  BY DEF LockForWrite, In, SetTxn, MovesOnKnowing
<1>2. /\ c \in Collections /\ c \in CollKeys /\ uc[c] \in Absent..MaxTime
      /\ r0 \in Request /\ Asked(r0)
  BY State
<1>3. Becomes(p, r)
  BY <1>1, Updates
<1>4. Moved(r, r0, "check", uc[c], r0.status, r0.lm, r0.items)
  BY <1>2, RequestValues, WithFields
<1>5. Fields(t, RowOf(c), {}, GapOf(c), {}, FALSE, NoWc, NoWb)
  BY State, LockTxn
<1>6. t = LockedForWrite(c) /\ c = r0.coll
  OBVIOUS
<1>. HIDE DEF c, r0, r, t
<1>7. /\ r \in Request /\ r.pc = "check" /\ r.cached = uc[c] /\ r.kind = r0.kind
      /\ r.coll = c /\ r.ts = r0.ts /\ r.ids = r0.ids /\ r.body = r0.body
  BY <1>4, <1>6 DEF Moved
<1>8. /\ t \in Txn /\ t.excl \subseteq {c} /\ (t.excl # {} => uc[c] # Absent)
      /\ Locked(t) \subseteq {c} /\ t.rows = {} /\ t.all = FALSE
  BY <1>5 DEF Fields, Locked, RowOf, GapOf
<1>9. Asked(r)
  BY <1>1, <1>2, <1>7 DEF Asked
<1>10. Shape(r, t)
  BY <1>1, <1>6, <1>7 DEF Shape, ShapeOfLock
<1>11. Told(r)
  BY <1>1, <1>7 DEF Told, Passed, Done, WriteKinds, PostKinds
<1>12. ASSUME NEW q \in Clients \ {p}
       PROVE  /\ t.excl \cap Locked(txn[q]) = {} /\ txn[q].excl \cap Locked(t) = {}
              /\ Apart(t, txn[q])
  <2>1. c \notin txn[q].excl /\ c \notin txn[q].share
    BY <1>1 DEF Lockable
  <2>2. c \in txn[q].gaps => uc[c] = Absent
    BY State, HeldFacts
  <2>3. Apart(t, txn[q])
    BY <1>8 DEF Apart
  <2>. QED
    BY <1>8, <2>1, <2>2, <2>3 DEF Locked
<1>13. \A q \in Clients \ {p} : /\ t.excl \cap Locked(txn[q]) = {}
                                /\ txn[q].excl \cap Locked(t) = {}
                                /\ Apart(t, txn[q])
  BY <1>12
<1>14. /\ UNCHANGED <<now, uc, bso, torn>> /\ txn' = [txn EXCEPT ![p] = t]
       /\ req' = [req EXCEPT ![p] = r] /\ r \in Request /\ t \in Txn
  BY <1>1, <1>3, <1>7, <1>8 DEF Becomes
<1>. QED
  BY <1>9, <1>10, <1>11, <1>13, <1>14, LocalStep

LEMMA ResourceFacts ==
  ASSUME LockInv, NEW p \in Clients, req[p].pc \in {"check", "finish"}
  PROVE  LET r == req[p] IN
         /\ r.kind \in WriteKinds /\ r.since # NotSet /\ ~(ResourceTimestamp(p) > r.since)
            => IF r.kind \in BsoKinds
               THEN \A i \in r.ids : bso[r.coll][i].mod <= r.since
               ELSE uc[r.coll] <= r.since
         /\ r.kind = "get_collection"
            => ResourceTimestamp(p) = IF uc[r.coll] = Absent THEN 0 ELSE uc[r.coll]
<1>. DEFINE r == req[p]
<1>1. /\ r.coll \in Collections /\ r.coll \in CollKeys /\ r.ids \in SUBSET Ids
      /\ r.since \in 0..MaxTime \cup {NotSet} /\ uc[r.coll] \in Absent..MaxTime
      /\ Asked(r) /\ Told(r) /\ r.pc \in {"check", "finish"}
  BY State, RequestValues
<1>2. \A i \in Ids : bso[r.coll][i].mod \in Absent..MaxTime
  <2>1. TAKE i \in Ids
  <2>2. bso[r.coll][i] \in Row \cup {NoRow}
    BY <1>1, State
  <2>. QED
    BY <2>2, MaxTimeAssumption DEF Row, NoRow
<1>3. /\ r.kind = "delete_all" => r.kind \notin WriteKinds
      /\ r.kind = "get_collection" => r.kind \notin BsoKinds
      /\ r.kind \in WriteKinds => r.kind # "delete_all"
  BY DEF WriteKinds, PostKinds, BsoKinds
<1>4. ResourceTimestamp(p) =
         LET m == IF r.kind = "delete_all" THEN StorageTimestamp
                  ELSE IF r.kind \in BsoKinds THEN bso[r.coll][TheId(p)].mod
                  ELSE IF r.cached # Absent THEN r.cached ELSE uc[r.coll]
         IN  IF m = Absent THEN 0 ELSE m
  BY DEF ResourceTimestamp
<1>5. ASSUME r.kind \in BsoKinds, r.kind \in WriteKinds
      PROVE  /\ r.ids = {TheId(p)} /\ TheId(p) \in Ids
             /\ ResourceTimestamp(p) = IF bso[r.coll][TheId(p)].mod = Absent THEN 0
                                       ELSE bso[r.coll][TheId(p)].mod
  <2>1. PICK i \in Ids : r.ids = {i}
    BY <1>1, <1>5 DEF Asked
  <2>2. TheId(p) = i
    BY <2>1 DEF TheId
  <2>. QED
    BY <1>3, <1>4, <1>5, <2>1, <2>2
<1>6. ASSUME r.kind \notin BsoKinds, r.kind # "delete_all"
      PROVE  ResourceTimestamp(p) = IF uc[r.coll] = Absent THEN 0 ELSE uc[r.coll]
  BY <1>1, <1>4, <1>6 DEF Told
<1>. HIDE DEF r
<1>7. ASSUME r.kind \in WriteKinds, r.since # NotSet, ~(ResourceTimestamp(p) > r.since),
             r.kind \in BsoKinds
      PROVE  \A i \in r.ids : bso[r.coll][i].mod <= r.since
  <2>1. bso[r.coll][TheId(p)].mod \in Absent..MaxTime /\ r.since \in 0..MaxTime
    BY <1>1, <1>2, <1>5, <1>7
  <2>2. bso[r.coll][TheId(p)].mod <= r.since
    BY <1>5, <1>7, <2>1, MaxTimeAssumption
  <2>. QED
    BY <1>5, <1>7, <2>2
<1>8. ASSUME r.kind \in WriteKinds, r.since # NotSet, ~(ResourceTimestamp(p) > r.since),
             r.kind \notin BsoKinds
      PROVE  uc[r.coll] <= r.since
  <2>1. uc[r.coll] \in Absent..MaxTime /\ r.since \in 0..MaxTime
    BY <1>1, <1>8
  <2>. QED
    BY <1>3, <1>6, <1>8, <2>1, MaxTimeAssumption
<1>9. r.kind = "get_collection"
      => ResourceTimestamp(p) = IF uc[r.coll] = Absent THEN 0 ELSE uc[r.coll]
  BY <1>3, <1>6
<1>. QED
  BY <1>7, <1>8, <1>9, Zenon DEF r

LEMMA CheckPreconditionStep ==
  ASSUME LockInv, NEW p \in Clients, CheckPrecondition(p)
  PROVE  LockInv'
<1>. DEFINE r0     == req[p]
            t      == txn[p]
            fails  == r0.since # NotSet /\ ResourceTimestamp(p) > r0.since
            pc     == IF fails THEN "commit" ELSE "handle"
            status == IF fails THEN 412 ELSE 0
            r      == With(r0, pc, r0.cached, status, r0.lm, r0.items)
<1>1. /\ r0.pc = "check" /\ MovesOnWith(p, pc, status) /\ UNCHANGED <<now, uc, bso, txn, torn>>
  BY DEF CheckPrecondition, MovesOnWith
<1>2. /\ r0 \in Request /\ Asked(r0) /\ Told(r0) /\ Shape(r0, t) /\ t \in Txn
      /\ txn \in [Clients -> Txn]
  BY State
<1>3. Becomes(p, r)
  BY <1>1, Updates
<1>4. Moved(r, r0, pc, r0.cached, status, r0.lm, r0.items)
  <2>1. pc \in {"commit", "handle"} /\ status \in {0, 200, 412}
    OBVIOUS
  <2>. HIDE DEF pc, status
  <2>. QED
    BY <1>2, <2>1, RequestValues, WithFields
<1>5. /\ r0.kind \in WriteKinds /\ r0.since # NotSet /\ ~(ResourceTimestamp(p) > r0.since)
         => IF r0.kind \in BsoKinds
            THEN \A i \in r0.ids : bso[r0.coll][i].mod <= r0.since
            ELSE uc[r0.coll] <= r0.since
  BY <1>1, ResourceFacts
<1>6. \/ pc = "commit" /\ status = 412
      \/ pc = "handle" /\ status = 0 /\ (r0.since # NotSet => ~(ResourceTimestamp(p) > r0.since))
  OBVIOUS
<1>7. txn' = [txn EXCEPT ![p] = t]
  BY <1>1, <1>2
<1>. HIDE DEF r0, r, t, fails, pc, status
<1>8. /\ r \in Request /\ r.pc = pc /\ r.status = status /\ r.cached = r0.cached
      /\ r.kind = r0.kind /\ r.since = r0.since
      /\ r.coll = r0.coll /\ r.ts = r0.ts /\ r.ids = r0.ids /\ r.body = r0.body
  BY <1>4 DEF Moved
<1>9. Asked(r)
  <2>1. r.pc \notin {"idle", "alone", "stamp"} /\ r0.pc # "idle"
    BY <1>1, <1>6, <1>8
  <2>. QED
    BY <1>2, <1>8, <2>1 DEF Asked
<1>10. Shape(r, t)
  <2>1. \/ ShapeOfRead(r0, t) \/ ShapeOfLock(r0, t) \/ ShapeOfDeleteAll(r0, t)
    BY <1>1, <1>2 DEF Shape, ShapeOfPut, ShapeOfDelete, ShapeOfDeleteCollection, Done
  <2>2. CASE ShapeOfRead(r0, t)
    BY <1>6, <1>8, <2>2 DEF Shape, ShapeOfRead
  <2>3. CASE ShapeOfLock(r0, t)
    BY <1>6, <1>8, <2>3 DEF Shape, ShapeOfLock, Refused
  <2>4. CASE ShapeOfDeleteAll(r0, t)
    BY <1>1, <1>6, <1>8, <2>4 DEF Shape, ShapeOfDeleteAll, Refused, Done
  <2>. QED
    BY <2>1, <2>2, <2>3, <2>4
<1>11. Told(r)
  <2>1. /\ r.kind # "delete_all" /\ r.pc \notin {"idle", "lock", "alone", "stamp"}
              => r.cached = uc[r.coll]
        /\ r.kind \in WriteKinds /\ r.pc \notin {"idle", "lock", "alone", "stamp"}
          => uc[r.coll] < r.ts
    BY <1>1, <1>2, <1>8 DEF Told
  <2>2. r.pc \in {"handle", "commit"} /\ (Done(r) \/ r.pc = "handle" => pc = "handle")
    BY <1>6, <1>8 DEF Done
  <2>3. ~Done(r) /\ r.pc # "finish"
    BY <1>6, <1>8 DEF Done
  <2>4. r.kind \in WriteKinds /\ r.since # NotSet /\ Passed(r) =>
          IF r.kind \in BsoKinds
          THEN r.coll \in torn \/ \A i \in r.ids : bso[r.coll][i].mod <= r.since
          ELSE uc[r.coll] <= r.since
    BY <1>5, <1>6, <1>8, <2>2, <2>3 DEF Passed
  <2>. QED
    BY <2>1, <2>3, <2>4, Zenon DEF Told
<1>. QED
  BY <1>1, <1>2, <1>3, <1>7, <1>8, <1>9, <1>10, <1>11, QuietStep DEF Becomes, t

LEMMA AtHandle ==
  ASSUME LockInv, NEW p \in Clients, req[p].pc = "handle"
  PROVE  /\ req[p].kind \in WriteKinds => txn[p] = LockedForWrite(req[p].coll)
         /\ req[p].kind = "get_collection" => txn[p] = LockedForRead(req[p].coll)
         /\ req[p].kind = "delete_all" => txn[p] = NoTxn
<1>1. \/ ShapeOfRead(req[p], txn[p]) \/ ShapeOfLock(req[p], txn[p])
      \/ ShapeOfDeleteAll(req[p], txn[p])
  BY State DEF Shape, ShapeOfPut, ShapeOfDelete, ShapeOfDeleteCollection, Done
<1>. QED
  BY <1>1 DEF ShapeOfRead, ShapeOfLock, ShapeOfDeleteAll, Done, WriteKinds, PostKinds

LEMMA FreeApart ==
  ASSUME LockInv, NEW p \in Clients, NEW t, NEW xs, t.rows \subseteq xs, RowsFree(p, xs),
         t.all = FALSE, NEW q \in Clients \ {p}
  PROVE  Apart(t, txn[q])
<1>1. txn[q] \in Txn /\ txn[q].all \in BOOLEAN
  BY State DEF Txn
<1>2. xs # {} => xs \cap txn[q].rows = {} /\ txn[q].all = FALSE
  BY <1>1 DEF RowsFree
<1>. QED
  BY <1>1, <1>2 DEF Apart

(* A request that writes BSOs goes from its handler to touch_collection, with *)
(* the locks it has.                                                          *)
LEMMA ToTouch ==
  ASSUME LockInv, NEW p \in Clients, NEW t, NEW xs, t.rows \subseteq xs, RowsFree(p, xs),
         req[p].pc = "handle", req[p].kind \in WriteKinds, MovesOn(p, "touch"),
         txn' = [txn EXCEPT ![p] = t], UNCHANGED <<now, uc, bso, torn>>,
         \A r : /\ r.kind = req[p].kind /\ r.coll = req[p].coll /\ r.ids = req[p].ids
                /\ r.body = req[p].body /\ r.ts = req[p].ts /\ r.pc = "touch"
                => Shape(r, t)
  PROVE  LockInv'
<1>. DEFINE r0 == req[p]
            r  == With(r0, "touch", r0.cached, r0.status, r0.lm, r0.items)
<1>1. /\ r0 \in Request /\ Asked(r0) /\ Told(r0) /\ Shape(r0, txn[p]) /\ TypeOK
      /\ r0.pc = "handle" /\ r0.kind \in WriteKinds
  BY State
<1>2. Becomes(p, r)
  BY Updates
<1>3. Moved(r, r0, "touch", r0.cached, r0.status, r0.lm, r0.items)
  BY <1>1, RequestValues, WithFields
<1>. HIDE DEF r
<1>4. /\ r \in Request /\ r.pc = "touch" /\ r.cached = r0.cached
      /\ r.kind = r0.kind /\ r.since = r0.since
      /\ r.coll = r0.coll /\ r.ts = r0.ts /\ r.ids = r0.ids /\ r.body = r0.body
  BY <1>3 DEF Moved
<1>5. Shape(r, t)
  BY <1>4
<1>. HIDE DEF r0
<1>6. Asked(r)
  BY <1>1, <1>4 DEF Asked
<1>7. Told(r)
  <2>1. r.kind # "get_collection" /\ r.kind # "delete_all" /\ Passed(r0)
    BY <1>1, <1>4 DEF WriteKinds, PostKinds, Passed
  <2>. QED
    BY <1>1, <1>4, <2>1 DEF Told
<1>8. /\ t \in Txn /\ t.excl = RowOf(r.coll) /\ t.share = {} /\ t.gaps = GapOf(r.coll)
      /\ t.all = FALSE
  <2>1. r.kind # "delete_all" /\ r.pc = "touch" /\ r.kind \in WriteKinds
    BY <1>1, <1>4 DEF WriteKinds, PostKinds
  <2>. QED
    BY <1>1, <1>4, <1>5, <1>6, <2>1, HeldFacts, ZenonT(60)
<1>9. txn[p].excl = RowOf(r.coll) /\ txn[p].share = {} /\ txn[p].gaps = GapOf(r.coll)
  <2>1. r0.kind # "delete_all" /\ r0.pc = "handle" /\ r0.kind \in WriteKinds
    BY <1>1 DEF WriteKinds, PostKinds
  <2>2. txn[p].excl = RowOf(r0.coll) /\ txn[p].share = {} /\ txn[p].gaps = GapOf(r0.coll)
    BY <1>1, <2>1, HeldFacts
  <2>3. r0.coll = r.coll
    BY <1>4
  <2>. QED
    BY <2>2, <2>3, Zenon
<1>10. t.excl \subseteq txn[p].excl /\ Locked(t) \subseteq Locked(txn[p])
  BY <1>8, <1>9 DEF Locked
<1>11. \A q \in Clients \ {p} : /\ t.excl \cap Locked(txn[q]) = {}
                                /\ txn[q].excl \cap Locked(t) = {}
  BY <1>10 DEF LockInv, Exclusive
<1>12. \A q \in Clients \ {p} : Apart(t, txn[q])
  BY <1>8, FreeApart
<1>. QED
  BY <1>2, <1>4, <1>5, <1>6, <1>7, <1>8, <1>11, <1>12, LocalStep DEF Becomes

LEMMA PutBsosStep ==
  ASSUME LockInv, NEW p \in Clients, PutBsos(p)
  PROVE  LockInv'
<1>1. /\ req[p].pc = "handle" /\ req[p].kind \in PostKinds /\ req[p].kind \in WriteKinds
      /\ MovesOn(p, "touch")
  BY DEF PutBsos, In, Goto, MovesOn, WriteKinds
<1>2. PICK done \in SUBSET req[p].ids :
        /\ RowsFree(p, {req[p].coll} \X done)
        /\ SetTxn(p, Putting(txn[p], req[p].coll, done, req[p].body, req[p].ts))
  BY Zenon DEF PutBsos
<1>3. txn[p] = LockedForWrite(req[p].coll)
  BY <1>1, AtHandle
<1>. DEFINE t == Putting(LockedForWrite(req[p].coll), req[p].coll, done, req[p].body, req[p].ts)
<1>4. txn' = [txn EXCEPT ![p] = t] /\ UNCHANGED <<now, uc, bso, torn>>
  BY <1>2, <1>3 DEF SetTxn
<1>6. t.rows = {req[p].coll} \X done
  <2>1. req[p] \in Request /\ Asked(req[p]) /\ req[p].pc # "idle" /\ TypeOK
    BY <1>1, State
  <2>2. Fields(t, RowOf(req[p].coll), {}, GapOf(req[p].coll), {req[p].coll} \X done, FALSE,
               NoWc, PutWb(req[p].coll, done, req[p].body, req[p].ts))
    BY <1>1, <2>1, PutTxn
  <2>. QED
    BY <2>2, Zenon DEF Fields
<1>5. ASSUME NEW r, r.kind = req[p].kind, r.coll = req[p].coll, r.ids = req[p].ids,
             r.body = req[p].body, r.ts = req[p].ts, r.pc = "touch"
      PROVE  Shape(r, t)
  <2>1. t = Putting(LockedForWrite(r.coll), r.coll, done, r.body, r.ts)
        /\ r.kind \in PostKinds /\ done \in SUBSET r.ids /\ t.rows = {r.coll} \X done
    BY <1>1, <1>5, <1>6
  <2>. HIDE DEF t
  <2>. QED
    BY <1>5, <2>1, Zenon DEF Shape, ShapeOfPut
<1>. HIDE DEF t
<1>. QED
  BY <1>1, <1>2, <1>4, <1>5, <1>6, ToTouch

LEMMA DeletingStep ==
  ASSUME LockInv, NEW p \in Clients, req[p].pc = "handle",
         req[p].kind \in {"delete_bso", "delete_bsos"},
         RowsFree(p, {req[p].coll} \X req[p].ids),
         SetTxn(p, DeletedRows(txn[p], req[p].coll, req[p].ids)), Goto(p, "touch")
  PROVE  LockInv'
<1>1. /\ req[p].kind \in WriteKinds /\ MovesOn(p, "touch")
  BY DEF Goto, MovesOn, WriteKinds
<1>2. txn[p] = LockedForWrite(req[p].coll)
  BY <1>1, AtHandle
<1>. DEFINE t == Deleting(req[p].coll, req[p].ids)
<1>3. txn' = [txn EXCEPT ![p] = t] /\ UNCHANGED <<now, uc, bso, torn>>
  BY <1>2 DEF SetTxn, Deleting
<1>4. ASSUME NEW r, r.kind = req[p].kind, r.coll = req[p].coll, r.ids = req[p].ids,
             r.body = req[p].body, r.ts = req[p].ts, r.pc = "touch"
      PROVE  Shape(r, t)
  <2>1. t = Deleting(r.coll, r.ids) /\ r.kind \in {"delete_bso", "delete_bsos"}
    BY <1>4
  <2>. HIDE DEF t
  <2>. QED
    BY <1>4, <2>1, Zenon DEF Shape, ShapeOfDelete
<1>5. t.rows = {req[p].coll} \X req[p].ids
  <2>1. Fields(t, RowOf(req[p].coll), {}, GapOf(req[p].coll), {req[p].coll} \X req[p].ids,
               FALSE, NoWc, DeletedWb(req[p].coll, req[p].ids))
    BY State, DeleteTxn
  <2>. QED
    BY <2>1, Zenon DEF Fields
<1>. HIDE DEF t
<1>. QED
  BY <1>1, <1>3, <1>4, <1>5, ToTouch

LEMMA DeleteBsoSteps ==
  ASSUME LockInv, NEW p \in Clients, DeleteBso(p) \/ DeleteBsos(p)
  PROVE  LockInv'
<1>1. \/ /\ req[p].pc = "handle" /\ req[p].kind \in {"delete_bso", "delete_bsos"}
         /\ RowsFree(p, {req[p].coll} \X req[p].ids)
         /\ SetTxn(p, DeletedRows(txn[p], req[p].coll, req[p].ids)) /\ Goto(p, "touch")
      \/ Close(p)
  BY DEF DeleteBso, DeleteBsos, In
<1>. QED
  BY <1>1, DeletingStep, CloseStep

(* The last statement of a request: it has an answer. *)
LEMMA ToCommit ==
  ASSUME LockInv, NEW p \in Clients, NEW t, Respond(p),
         req[p].pc \in {"handle", "touch", "finish"}, req[p].kind # "get_collection",
         req[p].kind \in WriteKinds => req[p].pc # "finish",
         txn' = [txn EXCEPT ![p] = t], UNCHANGED <<now, uc, bso, torn>>,
         \A r : /\ r.kind = req[p].kind /\ r.coll = req[p].coll /\ r.ids = req[p].ids
                /\ r.body = req[p].body /\ r.ts = req[p].ts /\ Done(r)
                => Shape(r, t),
         \A q \in Clients \ {p} : /\ t.excl \cap Locked(txn[q]) = {}
                                  /\ txn[q].excl \cap Locked(t) = {}
                                  /\ Apart(t, txn[q])
  PROVE  LockInv'
<1>. DEFINE r0 == req[p]
            r  == With(r0, "commit", r0.cached, 200, r0.lm, r0.items)
<1>1. /\ r0 \in Request /\ Asked(r0) /\ Told(r0) /\ Shape(r0, txn[p]) /\ TypeOK
      /\ r0.pc \in {"handle", "touch", "finish"} /\ r0.kind # "get_collection"
      /\ r0.kind \in WriteKinds => r0.pc # "finish"
  BY State
<1>2. Becomes(p, r)
  <2>1. MovesOnWith(p, "commit", 200)
    BY DEF Respond, MovesOnWith
  <2>. QED
    BY <2>1, Updates
<1>3. Moved(r, r0, "commit", r0.cached, 200, r0.lm, r0.items)
  BY <1>1, RequestValues, WithFields
<1>. HIDE DEF r
<1>4. /\ r \in Request /\ r.pc = "commit" /\ r.cached = r0.cached /\ r.status = 200
      /\ r.kind = r0.kind /\ r.since = r0.since
      /\ r.coll = r0.coll /\ r.ts = r0.ts /\ r.ids = r0.ids /\ r.body = r0.body
  BY <1>3 DEF Moved
<1>5. Shape(r, t)
  BY <1>4 DEF Done
<1>. HIDE DEF r0
<1>6. Asked(r)
  BY <1>1, <1>4 DEF Asked
<1>7. Told(r)
  <2>1. r.kind # "get_collection" /\ (r.kind \in WriteKinds => Passed(r0))
    BY <1>1, <1>4 DEF Passed
  <2>. QED
    BY <1>1, <1>4, <2>1 DEF Told
<1>8. t \in Txn
  BY <1>1, <1>4, <1>5, <1>6, HeldFacts
<1>. QED
  BY <1>2, <1>4, <1>5, <1>6, <1>7, <1>8, LocalStep DEF Becomes

(* An upsert of row k adds it to the locks, and nobody else has locked it. *)
LEMMA UpsertLocks ==
  ASSUME LockInv, NEW p \in Clients, NEW k \in CollKeys, Upsertable(p, k),
         txn[p].wc = NoWc,
         NEW t, t.excl \subseteq txn[p].excl \cup {k},
         Locked(t) \subseteq Locked(txn[p]) \cup {k},
         NEW q \in Clients \ {p}
  PROVE  t.excl \cap Locked(txn[q]) = {} /\ txn[q].excl \cap Locked(t) = {}
<1>1. k \notin txn[q].excl /\ k \notin txn[q].share
  BY DEF Upsertable, Lockable
<1>2. k \in txn[q].gaps => uc[k] = Absent
  BY State, HeldFacts
<1>3. CollView(txn[p], k) = uc[k]
  BY DEF CollView, NoWc
<1>4. k \notin txn[q].gaps
  BY <1>2, <1>3 DEF Upsertable, Insertable
<1>5. /\ txn[p].excl \cap Locked(txn[q]) = {}
      /\ txn[q].excl \cap Locked(txn[p]) = {}
  BY DEF LockInv, Exclusive
<1>. QED
  BY <1>1, <1>4, <1>5 DEF Locked

LEMMA TouchedShape ==
  ASSUME NEW r0, NEW w \in Txn, Shape(r0, w), r0.pc = "touch",
         NEW r, r.coll \in CollKeys, r.ts \in Absent..MaxTime,
         r.kind = r0.kind, r.coll = r0.coll, r.ids = r0.ids, r.body = r0.body,
         r.ts = r0.ts, Done(r)
  PROVE  /\ Shape(r, Touched(w, r.coll, r.ts))
         /\ r0.kind \in WriteKinds
<1>1. ShapeOfPut(r0, w) \/ ShapeOfDelete(r0, w)
  <2>1. r0.pc \notin {"idle", "lock", "alone", "stamp"} /\ ~Done(r0) /\ ~Refused(r0)
        /\ r0.pc \notin {"check", "handle", "finish", "commit"}
    BY DEF Done, Refused
  <2>. QED
    BY <2>1 DEF Shape, ShapeOfRead, ShapeOfLock, ShapeOfDeleteCollection, ShapeOfDeleteAll
<1>2. ~Done(r0)
  BY DEF Done
<1>3. CASE ShapeOfPut(r0, w)
  <2>1. PICK done \in SUBSET r0.ids :
               /\ w = Putting(LockedForWrite(r0.coll), r0.coll, done, r0.body, r0.ts)
               /\ w.rows = {r0.coll} \X done
    BY <1>2, <1>3, Zenon DEF ShapeOfPut
  <2>3. Touched(w, r.coll, r.ts).rows = w.rows
    BY TouchedFields, Zenon DEF Fields
  <2>2. ShapeOfPut(r, Touched(w, r.coll, r.ts))
    BY <1>3, <2>1, <2>3, Zenon DEF ShapeOfPut
  <2>. QED
    BY <1>3, <2>2 DEF Shape, ShapeOfPut, WriteKinds
<1>4. CASE ShapeOfDelete(r0, w)
  <2>1. w = Deleting(r0.coll, r0.ids)
    BY <1>2, <1>4 DEF ShapeOfDelete
  <2>2. ShapeOfDelete(r, Touched(w, r.coll, r.ts))
    BY <1>4, <2>1, Zenon DEF ShapeOfDelete
  <2>. QED
    BY <1>4, <2>2 DEF Shape, ShapeOfDelete, WriteKinds
<1>. QED
  BY <1>1, <1>3, <1>4

LEMMA TouchStep ==
  ASSUME LockInv, NEW p \in Clients, Touch(p)
  PROVE  LockInv'
<1>. DEFINE r0 == req[p]
            w  == txn[p]
            t  == Touched(w, r0.coll, r0.ts)
<1>1. /\ r0.pc = "touch" /\ Upsertable(p, r0.coll) /\ Respond(p)
      /\ txn' = [txn EXCEPT ![p] = t] /\ UNCHANGED <<now, uc, bso, torn>>
  BY DEF Touch, SetTxn
<1>2. /\ TypeOK /\ r0 \in Request /\ w \in Txn /\ Asked(r0) /\ Shape(r0, w)
      /\ r0.coll \in CollKeys /\ r0.ts \in Absent..MaxTime
  BY <1>1, State, MaxTimeAssumption
<1>3. r0.kind \in WriteKinds
  <2>1. r0.pc \notin {"idle", "lock", "alone", "stamp"} /\ ~Done(r0) /\ ~Refused(r0)
        /\ r0.pc \notin {"check", "handle", "finish", "commit"}
    BY <1>1 DEF Done, Refused
  <2>. QED
    BY <1>2, <2>1 DEF Shape, ShapeOfRead, ShapeOfLock, ShapeOfDeleteCollection,
       ShapeOfDeleteAll, ShapeOfPut, ShapeOfDelete, WriteKinds
<1>4. r0.kind # "delete_all" /\ r0.kind # "get_collection" /\ r0.pc # "commit" /\ r0.pc # "finish"
  BY <1>1, <1>3 DEF WriteKinds, PostKinds
<1>5. w.wc = NoWc
  BY <1>2, <1>4, HeldFacts
<1>6. Fields(t, w.excl \cup {r0.coll}, w.share, w.gaps, w.rows, w.all,
             [w.wc EXCEPT ![r0.coll] = r0.ts], w.wb)
  BY <1>2, TouchedFields
<1>7. /\ t.excl = w.excl \cup {r0.coll} /\ Locked(t) = Locked(w) \cup {r0.coll}
      /\ t.rows = w.rows /\ t.all = w.all
  BY <1>6 DEF Fields, Locked
<1>8. \A r : /\ r.kind = r0.kind /\ r.coll = r0.coll /\ r.ids = r0.ids
             /\ r.body = r0.body /\ r.ts = r0.ts /\ Done(r)
             => Shape(r, t)
  <2>. SUFFICES ASSUME NEW r, r.kind = r0.kind, r.coll = r0.coll, r.ids = r0.ids,
                       r.body = r0.body, r.ts = r0.ts, Done(r)
                PROVE  Shape(r, t)
    OBVIOUS
  <2>1. Shape(r, Touched(w, r.coll, r.ts))
    BY <1>1, <1>2, TouchedShape
  <2>. QED
    BY <2>1, Zenon
<1>. HIDE DEF t
<1>9. \A q \in Clients \ {p} : /\ t.excl \cap Locked(txn[q]) = {}
                               /\ txn[q].excl \cap Locked(t) = {}
  BY <1>1, <1>2, <1>5, <1>7, UpsertLocks
<1>10. \A q \in Clients \ {p} : Apart(t, txn[q])
  BY <1>7 DEF LockInv, RowsApart, Apart
<1>. QED
  BY <1>1, <1>4, <1>8, <1>9, <1>10, ToCommit

LEMMA DeleteCollectionStep ==
  ASSUME LockInv, NEW p \in Clients, DeleteCollection(p)
  PROVE  LockInv'
<1>. DEFINE r0   == req[p]
            c    == r0.coll
            none == \A i \in Ids : ~Present(bso[c][i])
            del  == Deleting(c, Ids)
            rem  == Removing(c, r0.ts)
            swe  == Sweeping(c, r0.ts)
<1>1. /\ r0.pc = "handle" /\ r0.kind = "delete_collection" /\ Respond(p)
      /\ UNCHANGED <<now, uc, bso, torn>> /\ RowsFree(p, {c} \X Ids)
  BY DEF DeleteCollection, In, SetTxn, RowsOf
<1>2. /\ TypeOK /\ r0 \in Request /\ Asked(r0) /\ c \in Collections /\ c \in CollKeys
      /\ Tombstone \in CollKeys /\ txn[p] \in Txn /\ Shape(r0, txn[p])
      /\ bso \in [Collections -> [Ids -> Row \cup {NoRow}]]
  BY State DEF CollKeys
<1>3. r0.kind \in WriteKinds /\ r0.kind # "get_collection" /\ r0.kind # "delete_all"
      /\ r0.pc # "idle" /\ r0.pc # "commit" /\ r0.pc # "finish"
  BY <1>1 DEF WriteKinds
<1>4. txn[p] = LockedForWrite(c)
  BY <1>1, <1>3, AtHandle
<1>5. \/ uc[c] = Absent /\ none /\ txn' = [txn EXCEPT ![p] = del]
      \/ /\ uc[c] = Absent /\ ~none /\ Upsertable(p, Tombstone)
         /\ txn' = [txn EXCEPT ![p] = swe]
      \/ /\ uc[c] # Absent /\ Upsertable(p, Tombstone)
         /\ txn' = [txn EXCEPT ![p] = rem]
  BY <1>4 DEF DeleteCollection, SetTxn, Deleting, Removing, Sweeping
<1>6. none <=> NoneOf(c)
  <2>1. \A i \in Ids : bso[c][i] \in Row \cup {NoRow}
    BY <1>2
  <2>2. \A row \in Row : row.mod # Absent
    BY MaxTimeAssumption DEF Row
  <2>. QED
    BY <2>1, <2>2 DEF NoneOf, Present, NoRow
<1>7. /\ txn[p].wc = NoWc /\ txn[p].excl = RowOf(c) /\ txn[p].share = {}
      /\ txn[p].gaps = GapOf(c)
  BY <1>1, <1>2, <1>3, HeldFacts
<1>. DEFINE all == {c} \X Ids
<1>8. /\ Fields(del, RowOf(c), {}, GapOf(c), all, FALSE, NoWc, DeletedWb(c, Ids))
      /\ uc[c] # Absent => Fields(rem, {c, Tombstone}, {}, {}, all, FALSE,
                                  RemovingWc(c, r0.ts), DeletedWb(c, Ids))
      /\ uc[c] = Absent => Fields(swe, {Tombstone}, {}, {c}, all, FALSE,
                                  [NoWc EXCEPT ![Tombstone] = r0.ts], DeletedWb(c, Ids))
  BY <1>2, <1>3, DeleteTxn
<1>9. \A r, t : /\ r.kind = r0.kind /\ r.coll = c /\ r.ts = r0.ts /\ Done(r)
                /\ t.rows = all
                /\ t = IF uc[c] # Absent THEN rem ELSE IF NoneOf(c) THEN del ELSE swe
                => Shape(r, t)
  BY <1>1 DEF Shape, ShapeOfDeleteCollection
<1>. HIDE DEF none, del, rem, swe, all, r0, c
<1>10. ASSUME NEW t, t.rows = all, t.all = FALSE
       PROVE  \A q \in Clients \ {p} : Apart(t, txn[q])
  BY <1>1, <1>10, FreeApart DEF all
<1>11. CASE uc[c] = Absent /\ none
  <2>1. txn' = [txn EXCEPT ![p] = del]
    BY <1>5, <1>11
  <2>2. del.excl = txn[p].excl /\ Locked(del) = Locked(txn[p]) /\ del.rows = all
        /\ del.all = FALSE
    BY <1>7, <1>8 DEF Fields, Locked
  <2>3. \A q \in Clients \ {p} : /\ del.excl \cap Locked(txn[q]) = {}
                                 /\ txn[q].excl \cap Locked(del) = {}
    BY <2>2 DEF LockInv, Exclusive
  <2>4. \A r : /\ r.kind = r0.kind /\ r.coll = c /\ r.ts = r0.ts /\ Done(r)
               => Shape(r, del)
    BY <1>6, <1>9, <1>11, <2>2
  <2>5. \A q \in Clients \ {p} : Apart(del, txn[q])
    BY <1>10, <2>2
  <2>. QED
    BY <1>1, <1>3, <2>1, <2>3, <2>4, <2>5, ToCommit DEF r0, c
<1>12. CASE uc[c] # Absent
  <2>1. txn' = [txn EXCEPT ![p] = rem] /\ Upsertable(p, Tombstone)
    BY <1>5, <1>12
  <2>2. /\ rem.excl \subseteq txn[p].excl \cup {Tombstone}
        /\ Locked(rem) \subseteq Locked(txn[p]) \cup {Tombstone}
        /\ rem.rows = all /\ rem.all = FALSE
    BY <1>7, <1>8, <1>12 DEF Fields, Locked, RowOf
  <2>3. \A q \in Clients \ {p} : /\ rem.excl \cap Locked(txn[q]) = {}
                                 /\ txn[q].excl \cap Locked(rem) = {}
    BY <1>2, <1>7, <2>1, <2>2, UpsertLocks
  <2>4. \A r : /\ r.kind = r0.kind /\ r.coll = c /\ r.ts = r0.ts /\ Done(r)
               => Shape(r, rem)
    BY <1>9, <1>12, <2>2
  <2>5. \A q \in Clients \ {p} : Apart(rem, txn[q])
    BY <1>10, <2>2
  <2>. QED
    BY <1>1, <1>3, <2>1, <2>3, <2>4, <2>5, ToCommit DEF r0, c
<1>13. CASE uc[c] = Absent /\ ~none
  <2>1. txn' = [txn EXCEPT ![p] = swe] /\ Upsertable(p, Tombstone)
    BY <1>5, <1>13
  <2>2. /\ swe.excl \subseteq txn[p].excl \cup {Tombstone}
        /\ Locked(swe) \subseteq Locked(txn[p]) \cup {Tombstone}
        /\ swe.rows = all /\ swe.all = FALSE
    BY <1>7, <1>8, <1>13 DEF Fields, Locked, GapOf
  <2>3. \A q \in Clients \ {p} : /\ swe.excl \cap Locked(txn[q]) = {}
                                 /\ txn[q].excl \cap Locked(swe) = {}
    BY <1>2, <1>7, <2>1, <2>2, UpsertLocks
  <2>4. \A r : /\ r.kind = r0.kind /\ r.coll = c /\ r.ts = r0.ts /\ Done(r)
               => Shape(r, swe)
    BY <1>6, <1>9, <1>13, <2>2
  <2>5. \A q \in Clients \ {p} : Apart(swe, txn[q])
    BY <1>10, <2>2
  <2>. QED
    BY <1>1, <1>3, <2>1, <2>3, <2>4, <2>5, ToCommit DEF r0, c
<1>. QED
  BY <1>11, <1>12, <1>13

LEMMA DeleteAllBsosStep ==
  ASSUME LockInv, NEW p \in Clients, DeleteAllBsos(p)
  PROVE  LockInv'
<1>. DEFINE r0 == req[p]
            r  == With(r0, "finish", r0.cached, r0.status, r0.lm, r0.items)
<1>1. /\ r0.pc = "handle" /\ r0.kind = "delete_all" /\ UNCHANGED <<now, uc, bso, torn>>
      /\ txn' = [txn EXCEPT ![p] = ClearingBsos] /\ MovesOn(p, "finish")
      /\ \A q \in Clients \ {p} : txn[q].rows = {} /\ ~txn[q].all
  BY DEF DeleteAllBsos, In, SetTxn, Goto, MovesOn, ClearingBsos
<1>2. r0 \in Request /\ Asked(r0)
  BY State
<1>3. Becomes(p, r)
  BY <1>1, Updates
<1>4. Moved(r, r0, "finish", r0.cached, r0.status, r0.lm, r0.items)
  BY <1>2, RequestValues, WithFields
<1>. HIDE DEF r, r0
<1>5. /\ r \in Request /\ r.pc = "finish" /\ r.kind = "delete_all" /\ r.ts = r0.ts
  BY <1>1, <1>4 DEF Moved
<1>6. Asked(r)
  BY <1>1, <1>2, <1>5 DEF Asked, BsoKinds, PostKinds
<1>7. Shape(r, ClearingBsos)
  BY <1>5 DEF Shape, ShapeOfDeleteAll
<1>8. Told(r)
  BY <1>5 DEF Told, WriteKinds, PostKinds
<1>9. /\ ClearingBsos \in Txn /\ ClearingBsos.excl = {} /\ Locked(ClearingBsos) = {}
      /\ ClearingBsos.rows = {}
  <2>1. Fields(ClearingBsos, {}, {}, {}, {}, TRUE, NoWc, NoRows)
    BY RequestFields DEF CollKeys
  <2>. QED
    BY <2>1 DEF Fields, Locked
<1>10. ASSUME NEW q \in Clients \ {p}
       PROVE  Apart(ClearingBsos, txn[q])
  <2>1. txn[q] \in Txn
    BY State
  <2>2. txn[q].rows = {} /\ txn[q].all = FALSE
    BY <1>1, <2>1 DEF Txn
  <2>. QED
    BY <1>9, <2>2 DEF Apart
<1>11. \A q \in Clients \ {p} : /\ ClearingBsos.excl \cap Locked(txn[q]) = {}
                                /\ txn[q].excl \cap Locked(ClearingBsos) = {}
                                /\ Apart(ClearingBsos, txn[q])
  BY <1>9, <1>10
<1>. QED
  BY <1>1, <1>3, <1>5, <1>6, <1>7, <1>8, <1>9, <1>11, LocalStep DEF Becomes

LEMMA DeleteAllCollectionsStep ==
  ASSUME LockInv, NEW p \in Clients, DeleteAllCollections(p)
  PROVE  LockInv'
<1>. DEFINE r0 == req[p]
<1>1. /\ r0.pc = "finish" /\ r0.kind = "delete_all" /\ Respond(p)
      /\ UNCHANGED <<now, uc, bso, torn>> /\ \A k \in CollKeys : Lockable(p, k)
  BY DEF DeleteAllCollections, In, SetTxn
<1>2. r0.kind \notin WriteKinds /\ r0.kind # "get_collection"
  BY <1>1 DEF WriteKinds, PostKinds
<1>3. txn[p] = ClearingBsos
  <2>1. r0.pc \notin {"idle", "lock", "check", "handle"} /\ ~Done(r0) /\ ~Refused(r0)
    BY <1>1 DEF Done, Refused
  <2>2. Shape(r0, txn[p])
    BY State
  <2>. QED
    BY <1>1, <1>2, <2>1, <2>2 DEF Shape, ShapeOfRead, ShapeOfLock, ShapeOfPut, ShapeOfDelete,
       ShapeOfDeleteCollection, ShapeOfDeleteAll, WriteKinds, PostKinds
<1>4. txn' = [txn EXCEPT ![p] = ClearingAll]
  BY <1>3 DEF DeleteAllCollections, SetTxn, ClearingAll
<1>5. Fields(ClearingAll, {l \in CollKeys : uc[l] # Absent}, {},
             {l \in CollKeys : uc[l] = Absent}, {}, TRUE,
             [l \in CollKeys |-> Absent], NoRows)
  BY RequestFields DEF CollKeys
<1>6. \A r : r.kind = r0.kind /\ Done(r) => Shape(r, ClearingAll)
  BY <1>1 DEF Shape, ShapeOfDeleteAll
<1>7. ASSUME NEW q \in Clients \ {p}
      PROVE  /\ ClearingAll.excl \cap Locked(txn[q]) = {}
             /\ txn[q].excl \cap Locked(ClearingAll) = {}
  <2>1. /\ txn[q] \in Txn /\ \A k \in txn[q].gaps : uc[k] = Absent
    BY State, HeldFacts
  <2>2. \A k \in CollKeys : k \notin txn[q].excl /\ k \notin txn[q].share
    BY <1>1 DEF Lockable
  <2>3. txn[q].excl = {}
    BY <2>1, <2>2 DEF Txn
  <2>. QED
    BY <1>5, <2>1, <2>2, <2>3 DEF Fields, Locked
<1>8. \A q \in Clients \ {p} : Apart(ClearingAll, txn[q])
  <2>1. \A q \in Clients \ {p} : Apart(ClearingBsos, txn[q])
    BY <1>3 DEF LockInv, RowsApart
  <2>2. /\ ClearingAll.rows = ClearingBsos.rows /\ ClearingAll.all = ClearingBsos.all
    BY ClearingFields
  <2>. QED
    BY <2>1, <2>2 DEF Apart
<1>. HIDE DEF r0
<1>. QED
  BY <1>1, <1>2, <1>4, <1>6, <1>7, <1>8, ToCommit DEF r0

LEMMA GetBsosStep ==
  ASSUME LockInv, NEW p \in Clients, GetBsos(p)
  PROVE  LockInv'
<1>. DEFINE r0    == req[p]
            items == [i \in Ids |-> IF Present(bso[r0.coll][i]) /\ bso[r0.coll][i].exp > r0.ts
                                    THEN bso[r0.coll][i].mod ELSE Absent]
            r     == With(r0, "finish", r0.cached, r0.status, r0.lm, items)
<1>1. /\ r0.pc = "handle" /\ r0.kind = "get_collection" /\ UNCHANGED <<now, uc, bso, txn, torn>>
      /\ MovesOnHaving(p, "finish", items)
  BY DEF GetBsos, In, MovesOnHaving
<1>2. /\ r0 \in Request /\ Asked(r0) /\ Told(r0) /\ TypeOK /\ txn[p] \in Txn
      /\ txn \in [Clients -> Txn] /\ r0.coll \in Collections
  BY State
<1>3. items \in [Ids -> Absent..MaxTime]
  <2>1. \A i \in Ids : bso[r0.coll][i] \in Row \cup {NoRow}
    BY <1>2 DEF TypeOK, StoreTypeOK
  <2>2. \A i \in Ids : bso[r0.coll][i].mod \in Absent..MaxTime
    BY <2>1, MaxTimeAssumption DEF Row, NoRow
  <2>. QED
    BY <2>2, MaxTimeAssumption
<1>4. Becomes(p, r)
  BY <1>1, Updates
<1>5. \A i \in Ids : Present(bso[r0.coll][i]) /\ bso[r0.coll][i].exp > r0.ts
                     => items[i] = bso[r0.coll][i].mod
  OBVIOUS
<1>. HIDE DEF items
<1>6. Moved(r, r0, "finish", r0.cached, r0.status, r0.lm, items)
  BY <1>2, <1>3, RequestValues, WithFields
<1>7. txn[p] = LockedForRead(r0.coll)
  BY <1>1, AtHandle
<1>. HIDE DEF r, r0
<1>8. /\ r \in Request /\ r.pc = "finish" /\ r.cached = r0.cached /\ r.kind = "get_collection"
      /\ r.coll = r0.coll /\ r.ts = r0.ts /\ r.items = items
  BY <1>1, <1>6 DEF Moved
<1>9. Asked(r)
  BY <1>1, <1>2, <1>8 DEF Asked, BsoKinds, PostKinds
<1>10. Shape(r, txn[p])
  BY <1>7, <1>8 DEF Shape, ShapeOfRead
<1>11. Told(r)
  BY <1>1, <1>2, <1>5, <1>8 DEF Told, WriteKinds, PostKinds, Done
<1>12. txn' = [txn EXCEPT ![p] = txn[p]]
  BY <1>1, <1>2
<1>. QED
  BY <1>1, <1>2, <1>4, <1>8, <1>9, <1>10, <1>11, <1>12, QuietStep DEF Becomes

LEMMA FinishGetCollectionStep ==
  ASSUME LockInv, NEW p \in Clients, FinishGetCollection(p)
  PROVE  LockInv'
<1>. DEFINE r0 == req[p]
            lm == ResourceTimestamp(p)
            r  == With(r0, "commit", r0.cached, 200, lm, r0.items)
<1>1. /\ r0.pc = "finish" /\ r0.kind = "get_collection" /\ UNCHANGED <<now, uc, bso, txn, torn>>
      /\ Finishes(p, "commit", 200, lm)
  BY DEF FinishGetCollection, In, Finishes
<1>2. /\ r0 \in Request /\ Asked(r0) /\ Told(r0) /\ Shape(r0, txn[p]) /\ TypeOK
      /\ txn[p] \in Txn /\ txn \in [Clients -> Txn] /\ r0.coll \in CollKeys
      /\ uc \in [CollKeys -> Absent..MaxTime]
  BY State
<1>3. lm = IF uc[r0.coll] = Absent THEN 0 ELSE uc[r0.coll]
  BY <1>1, ResourceFacts
<1>4. lm \in 0..MaxTime
  BY <1>2, <1>3, MaxTimeAssumption
<1>. HIDE DEF lm
<1>5. Becomes(p, r)
  BY <1>1, Updates
<1>6. Moved(r, r0, "commit", r0.cached, 200, lm, r0.items)
  BY <1>2, <1>4, RequestValues, WithFields
<1>7. txn[p] = LockedForRead(r0.coll)
  <2>1. r0.kind \notin WriteKinds /\ r0.kind \notin PostKinds
    BY <1>1 DEF WriteKinds, PostKinds
  <2>. QED
    BY <1>1, <1>2, <2>1 DEF Shape, ShapeOfRead, ShapeOfLock, ShapeOfPut, ShapeOfDelete,
       ShapeOfDeleteCollection, ShapeOfDeleteAll
<1>. HIDE DEF r, r0
<1>8. /\ r \in Request /\ r.pc = "commit" /\ r.status = 200 /\ r.cached = r0.cached
      /\ r.kind = "get_collection" /\ r.coll = r0.coll /\ r.ts = r0.ts /\ r.lm = lm
      /\ r.items = r0.items
  BY <1>1, <1>6 DEF Moved
<1>9. Asked(r)
  BY <1>1, <1>2, <1>8 DEF Asked, BsoKinds, PostKinds
<1>10. Shape(r, txn[p])
  BY <1>7, <1>8 DEF Shape, ShapeOfRead
<1>11. Told(r)
  <2>1. r.kind \notin WriteKinds
    BY <1>8 DEF WriteKinds, PostKinds
  <2>. QED
    BY <1>1, <1>2, <1>3, <1>8, <2>1 DEF Told
<1>12. txn' = [txn EXCEPT ![p] = txn[p]]
  BY <1>1, <1>2
<1>. QED
  BY <1>1, <1>2, <1>5, <1>8, <1>9, <1>10, <1>11, <1>12, QuietStep DEF Becomes

\* What a request that has lost its transaction still has of itself.
Left(s, r, pc) ==
    /\ s \in Request /\ s.pc = pc /\ s.kind = r.kind /\ s.coll = r.coll
    /\ s.body = r.body /\ s.ts = r.ts

LEMMA LeftFields ==
  ASSUME NEW r \in Request, NEW ids \in SUBSET Ids, NEW pc \in {"alone", "stamp"}
  PROVE  /\ Left([r EXCEPT !.pc = pc, !.ids = ids], r, pc)
         /\ Left([r EXCEPT !.pc = pc], r, pc)
         /\ Left([r EXCEPT !.ids = ids], r, r.pc)
<1>. DEFINE a == [r EXCEPT !.pc = pc]
<1>1. Left(a, r, pc)
  BY DEF Request, Left
<1>2. Left([r EXCEPT !.ids = ids], r, r.pc)
  BY DEF Request, Left
<1>3. [r EXCEPT !.pc = pc, !.ids = ids] = [a EXCEPT !.ids = ids]
  OBVIOUS
<1>. HIDE DEF a
<1>4. Left([a EXCEPT !.ids = ids], r, pc)
  BY <1>1 DEF Request, Left
<1>. QED
  BY <1>1, <1>2, <1>3, <1>4 DEF a

(* A deadlock takes a request's transaction with all it has locked. *)
LEMMA LoseTransactionStep ==
  ASSUME LockInv, NEW p \in Clients, LoseTransaction(p)
  PROVE  LockInv'
<1>1. /\ req[p].kind = "post_bsos" /\ req[p].pc \in {"handle", "touch"}
      /\ torn' = torn \cup {req[p].coll}
      /\ txn' = [txn EXCEPT ![p] = NoTxn] /\ UNCHANGED <<now, uc, bso>>
  BY DEF LoseTransaction, In, Rollback
<1>2. /\ req[p] \in Request /\ Asked(req[p]) /\ req[p].coll \in Collections
      /\ torn \in SUBSET Collections /\ req[p].ids \in SUBSET Ids
      /\ req \in [Clients -> Request]
  BY State
<1>3. PICK left \in SUBSET req[p].ids :
         req' = [req EXCEPT ![p].pc = "alone", ![p].ids = left]
  BY Zenon DEF LoseTransaction
<1>4. PICK r : r = [req[p] EXCEPT !.pc = "alone", !.ids = left]
  OBVIOUS
<1>5. /\ r \in Request /\ r.pc = "alone" /\ r.kind = "post_bsos" /\ r.coll = req[p].coll
      /\ r.body = req[p].body /\ r.ts = req[p].ts
  <2>1. Left(r, req[p], "alone")
    BY <1>2, <1>4, LeftFields, Zenon
  <2>. QED
    BY <1>1, <2>1 DEF Left
<1>6. req' = [req EXCEPT ![p] = r]
  BY <1>2, <1>3, <1>4
<1>7. "post_bsos" \in PostKinds /\ "post_bsos" \notin BsoKinds
  BY DEF PostKinds, BsoKinds
<1>8. Asked(r)'
  BY <1>1, <1>2, <1>5, <1>7 DEF Asked
<1>9. Shape(r, NoTxn) /\ Told(r)
  BY <1>5 DEF Shape, Told, Passed, Done
<1>10. \A q \in Clients \ {p} : /\ NoTxn.excl \cap Locked(txn[q]) = {}
                                /\ txn[q].excl \cap Locked(NoTxn) = {}
                                /\ Apart(NoTxn, txn[q])
  BY IdleFacts, BegunFields DEF Apart
<1>11. torn \subseteq torn' /\ torn' \in SUBSET Collections
  BY <1>1, <1>2
<1>. QED
  BY <1>1, <1>5, <1>6, <1>8, <1>9, <1>10, <1>11, IdleFacts, StepAlone

(* A statement of a request without a transaction: it changes nothing that   *)
(* another request has locked, and BSOs only where that is to be expected.   *)
LEMMA AloneStep ==
  ASSUME LockInv, NEW p \in Clients, NEW r \in Request,
         req[p].pc \in {"alone", "stamp"}, r.pc \in {"idle", "alone", "stamp"}, Asked(r),
         req' = [req EXCEPT ![p] = r], UNCHANGED <<now, txn, torn>>,
         uc' \in [CollKeys -> Absent..MaxTime],
         bso' \in [Collections -> [Ids -> Row \cup {NoRow}]],
         \A c \in Collections \ torn : uc'[c] = uc[c] /\ \A i \in Ids : bso'[c][i] = bso[c][i],
         \A q \in Clients \ {p} :
            /\ \A k \in CollKeys : k \in Locked(txn[q]) => uc'[k] = uc[k]
            /\ RowsStay(txn[q])
  PROVE  LockInv'
<1>1. /\ req \in [Clients -> Request] /\ txn \in [Clients -> Txn] /\ StoreTypeOK /\ TypeOK
      /\ CollectionCoversBsos /\ Exclusive /\ RowsApart
      /\ \A q \in Clients : Asked(req[q]) /\ Shape(req[q], txn[q]) /\ Told(req[q])
  BY DEF LockInv, TypeOK, StoreTypeOK
<1>2. TypeOK'
  BY <1>1 DEF TypeOK, StoreTypeOK
<1>3. CollectionCoversBsos'
  BY <1>1 DEF CollectionCoversBsos, Present
<1>4. /\ \A q \in Clients : q # p => req'[q] = req[q]
      /\ \A q \in Clients : txn'[q] = txn[q]
      /\ req'[p] = r
  BY <1>1
<1>5. Exclusive' /\ RowsApart'
  BY <1>1, <1>4 DEF Exclusive, Locked, RowsApart, Apart
<1>6. ASSUME NEW q \in Clients
      PROVE  (Asked(req[q]) /\ Shape(req[q], txn[q]) /\ Told(req[q]))'
  <2>1. CASE q = p
    <3>1. txn[p] = NoTxn
      BY <1>1, HeldFacts
    <3>2. PICK s : s = r /\ s = req'[q]
      BY <1>4, <2>1, Zenon
    <3>3. Asked(s)'
      BY <3>2 DEF Asked
    <3>4. txn'[q] = NoTxn'
      BY <1>4, <2>1, <3>1, IdleFacts
    <3>5. Shape(s, NoTxn)' /\ Told(s)'
      BY <3>2 DEF Shape, Told, Passed, Done
    <3>. QED
      BY <3>2, <3>3, <3>4, <3>5, Zenon
  <2>2. CASE q # p
    <3>1. /\ req[q] \in Request /\ txn[q] \in Txn
          /\ req[q].coll \in Collections /\ req[q].coll \in CollKeys
      BY State
    <3>2. /\ req[q].pc \notin {"idle", "lock", "alone", "stamp"} /\ req[q].kind # "delete_all"
                => req[q].coll \in Locked(txn[q])
          /\ req[q].kind = "delete_all" /\ Done(req[q]) => Locked(txn[q]) = CollKeys
      BY <1>1, <3>1, HeldFacts
    <3>3. req[q].coll \in torn' \/ NothingNew(req[q].coll)
      BY <3>1 DEF NothingNew
    <3>4. req[q].pc \notin {"idle", "lock", "alone", "stamp"} /\ req[q].kind # "delete_all"
            => /\ uc'[req[q].coll] = uc[req[q].coll]
               /\ req[q].coll \in torn' \/ NothingNew(req[q].coll)
      BY <2>2, <3>1, <3>2, <3>3
    <3>5. req[q].kind = "delete_all" /\ Done(req[q]) => \A k \in CollKeys : uc'[k] = uc[k]
      BY <2>2, <3>2
    <3>. QED
      BY <1>4, <2>2, <3>4, <3>5, OtherKept
  <2>. QED
    BY <2>1, <2>2
<1>. QED
  BY <1>2, <1>3, <1>5, <1>6, Zenon DEF LockInv

LEMMA PutAloneStep ==
  ASSUME LockInv, NEW p \in Clients, PutAlone(p)
  PROVE  LockInv'
<1>. DEFINE r0 == req[p]
            c  == r0.coll
<1>1. r0.pc = "alone" /\ UNCHANGED <<now, uc, txn, torn>>
  BY DEF PutAlone
<1>2. PICK i \in r0.ids :
        /\ RowsFree(p, {<<c, i>>})
        /\ bso' = [bso EXCEPT ![c][i] = Upserted(bso[c][i], r0.body, r0.ts)]
        /\ req' = [req EXCEPT ![p].pc = "stamp", ![p].ids = r0.ids \ {i}]
  BY DEF PutAlone
<1>3. /\ r0 \in Request /\ Asked(r0) /\ c \in Collections /\ r0.ids \in SUBSET Ids
      /\ req \in [Clients -> Request] /\ r0.ts \in 1..MaxTime
      /\ bso \in [Collections -> [Ids -> Row \cup {NoRow}]]
      /\ uc \in [CollKeys -> Absent..MaxTime]
  BY <1>1, State
<1>4. /\ r0.kind = "post_bsos" /\ c \in torn /\ r0.kind \in PostKinds /\ r0.body \in Bodies
  BY <1>1, <1>3 DEF Asked, PostKinds
<1>5. PICK r : r = [r0 EXCEPT !.pc = "stamp", !.ids = r0.ids \ {i}]
  OBVIOUS
<1>6. /\ r \in Request /\ r.pc = "stamp" /\ r.kind = "post_bsos" /\ r.coll = c
      /\ r.body = r0.body /\ r.ts = r0.ts
  <2>1. r0.ids \ {i} \in SUBSET Ids
    BY <1>3
  <2>. QED
    <3>1. Left(r, r0, "stamp")
      BY <1>3, <1>5, <2>1, LeftFields, Zenon
    <3>. QED
      BY <1>4, <3>1 DEF Left
<1>7. req' = [req EXCEPT ![p] = r]
  BY <1>2, <1>3, <1>5
<1>. DEFINE new == Upserted(bso[c][i], r0.body, r0.ts)
<1>8. new \in Row
  <2>1. bso[c][i] \in Row \cup {NoRow}
    BY <1>2, <1>3
  <2>. QED
    BY <1>3, <1>4, <2>1, UpsertedType, BodiesAreColumns
<1>. HIDE DEF new
<1>9. bso' = [bso EXCEPT ![c][i] = new]
  BY <1>2 DEF new
<1>. HIDE DEF r0, c
<1>10. bso' \in [Collections -> [Ids -> Row \cup {NoRow}]]
  BY <1>3, <1>8, <1>9
<1>11. \A d \in Collections, j \in Ids : d # c \/ j # i => bso'[d][j] = bso[d][j]
  BY <1>3, <1>9
<1>12. Asked(r)
  BY <1>1, <1>3, <1>4, <1>6 DEF Asked, BsoKinds
<1>13. \A q \in Clients \ {p} : RowsStay(txn[q])
  <2>1. \A q \in Clients \ {p} : <<c, i>> \notin txn[q].rows
    BY <1>2 DEF RowsFree
  <2>. QED
    BY <1>11, <2>1 DEF RowsStay
<1>14. req[p].pc \in {"alone", "stamp"}
  BY <1>1 DEF r0
<1>. QED
  BY <1>1, <1>3, <1>4, <1>6, <1>7, <1>10, <1>11, <1>12, <1>13, <1>14, AloneStep

LEMMA TouchAloneStep ==
  ASSUME LockInv, NEW p \in Clients, TouchAlone(p)
  PROVE  LockInv'
<1>. DEFINE r0 == req[p]
            c  == r0.coll
<1>1. /\ r0.pc \in {"alone", "stamp"} /\ UNCHANGED <<now, bso, txn, torn>>
      /\ Upsertable(p, c) /\ uc' = [uc EXCEPT ![c] = r0.ts]
      /\ req' = [req EXCEPT ![p] = IF r0.pc = "alone" THEN Idle
                                   ELSE [r0 EXCEPT !.pc = "alone"]]
  BY DEF TouchAlone
<1>2. /\ r0 \in Request /\ Asked(r0) /\ c \in Collections /\ c \in CollKeys
      /\ req \in [Clients -> Request] /\ r0.ts \in 1..MaxTime /\ TypeOK /\ Shape(r0, txn[p])
      /\ bso \in [Collections -> [Ids -> Row \cup {NoRow}]]
      /\ uc \in [CollKeys -> Absent..MaxTime]
  BY <1>1, State
<1>3. r0.kind = "post_bsos" /\ c \in torn
  BY <1>1, <1>2 DEF Asked
<1>4. PICK r : r = IF r0.pc = "alone" THEN Idle ELSE [r0 EXCEPT !.pc = "alone"]
  OBVIOUS
<1>5. r \in Request /\ r.pc \in {"idle", "alone"} /\ Asked(r)
  <2>1. CASE r0.pc = "alone"
    BY <1>4, <2>1, IdleFacts
  <2>2. CASE r0.pc # "alone"
    <3>1. r = [r0 EXCEPT !.pc = "alone"]
      BY <1>4, <2>2
    <3>2. /\ r \in Request /\ r.pc = "alone" /\ r.kind = r0.kind /\ r.coll = c
          /\ r.body = r0.body /\ r.ts = r0.ts
      <4>1. {} \in SUBSET Ids
        OBVIOUS
      <4>. QED
        <5>1. Left(r, r0, "alone")
          BY <1>2, <3>1, <4>1, LeftFields, Zenon
        <5>. QED
          BY <5>1 DEF Left
    <3>. QED
      BY <1>1, <1>2, <1>3, <3>2 DEF Asked, BsoKinds
  <2>. QED
    BY <2>1, <2>2
<1>6. req' = [req EXCEPT ![p] = r]
  BY <1>1, <1>4
<1>7. txn[p].wc = NoWc
  <2>1. txn[p] = NoTxn
    BY <1>1, <1>2, HeldFacts
  <2>. QED
    BY <2>1, BegunFields DEF NoWc
<1>8. ASSUME NEW q \in Clients \ {p}
      PROVE  c \notin Locked(txn[q])
  <2>1. c \in txn[q].gaps => uc[c] = Absent
    BY State, HeldFacts
  <2>2. CollView(txn[p], c) = uc[c]
    BY <1>2, <1>7 DEF CollView, NoWc
  <2>. QED
    BY <1>1, <2>1, <2>2 DEF Upsertable, Lockable, Insertable, Locked
<1>. HIDE DEF r0, c
<1>9. /\ uc' \in [CollKeys -> Absent..MaxTime]
      /\ \A k \in CollKeys : k # c => uc'[k] = uc[k]
  BY <1>1, <1>2, MaxTimeAssumption
<1>10. \A d \in Collections \ torn :
          uc'[d] = uc[d] /\ \A i \in Ids : bso'[d][i] = bso[d][i]
  BY <1>1, <1>3, <1>9 DEF CollKeys
<1>12. req[p].pc \in {"alone", "stamp"} /\ bso' = bso
  BY <1>1 DEF r0
<1>11. ASSUME NEW q \in Clients \ {p}
       PROVE  /\ \A k \in CollKeys : k \in Locked(txn[q]) => uc'[k] = uc[k]
              /\ RowsStay(txn[q])
  <2>1. \A k \in CollKeys : k \in Locked(txn[q]) => uc'[k] = uc[k]
    BY <1>8, <1>9
  <2>. QED
    BY <1>12, <2>1 DEF RowsStay
<1>13. /\ bso' \in [Collections -> [Ids -> Row \cup {NoRow}]]
       /\ uc' \in [CollKeys -> Absent..MaxTime]
       /\ r.pc \in {"idle", "alone", "stamp"} /\ r \in Request /\ Asked(r)
       /\ UNCHANGED <<now, txn, torn>>
  BY <1>1, <1>2, <1>5, <1>9, <1>12
<1>. QED
  BY <1>6, <1>10, <1>11, <1>12, <1>13, AloneStep

LEMMA FailAloneStep ==
  ASSUME LockInv, NEW p \in Clients, FailAlone(p)
  PROVE  LockInv'
<1>. DEFINE r0 == req[p]
<1>1. /\ r0.pc \in {"alone", "stamp"} /\ UNCHANGED <<now, uc, bso, txn, torn>>
      /\ \/ \E i \in r0.ids : req' = [req EXCEPT ![p].ids = r0.ids \ {i}]
         \/ req' = [req EXCEPT ![p].pc = "alone"]
  BY DEF FailAlone, Goto
<1>2. /\ r0 \in Request /\ Asked(r0) /\ r0.ids \in SUBSET Ids
      /\ req \in [Clients -> Request]
      /\ bso \in [Collections -> [Ids -> Row \cup {NoRow}]]
      /\ uc \in [CollKeys -> Absent..MaxTime]
  BY State
<1>3. PICK r : /\ req' = [req EXCEPT ![p] = r]
               /\ \/ \E i \in r0.ids : r = [r0 EXCEPT !.ids = r0.ids \ {i}]
                  \/ r = [r0 EXCEPT !.pc = "alone"]
  <2>1. CASE \E i \in r0.ids : req' = [req EXCEPT ![p].ids = r0.ids \ {i}]
    <3>1. PICK i \in r0.ids : req' = [req EXCEPT ![p].ids = r0.ids \ {i}]
      BY <2>1
    <3>2. req' = [req EXCEPT ![p] = [r0 EXCEPT !.ids = r0.ids \ {i}]]
      BY <1>2, <3>1
    <3>. QED
      BY <3>2
  <2>2. CASE req' = [req EXCEPT ![p].pc = "alone"]
    <3>1. req' = [req EXCEPT ![p] = [r0 EXCEPT !.pc = "alone"]]
      BY <1>2, <2>2
    <3>. QED
      BY <3>1
  <2>. QED
    BY <1>1, <2>1, <2>2
<1>4. /\ r \in Request /\ r.pc \in {"alone", "stamp"} /\ r.kind = r0.kind
      /\ r.coll = r0.coll /\ r.body = r0.body /\ r.ts = r0.ts
  <2>1. CASE \E i \in r0.ids : r = [r0 EXCEPT !.ids = r0.ids \ {i}]
    <3>1. PICK i \in r0.ids : r = [r0 EXCEPT !.ids = r0.ids \ {i}]
      BY <2>1
    <3>2. r0.ids \ {i} \in SUBSET Ids
      BY <1>2
    <3>3. Left(r, r0, r0.pc)
      BY <1>2, <3>1, <3>2, LeftFields, Zenon
    <3>. QED
      BY <1>1, <3>3 DEF Left
  <2>2. CASE r = [r0 EXCEPT !.pc = "alone"]
    <3>1. {} \in SUBSET Ids
      OBVIOUS
    <3>2. Left(r, r0, "alone")
      BY <1>2, <2>2, <3>1, LeftFields, Zenon
    <3>. QED
      BY <3>2 DEF Left
  <2>. QED
    BY <1>3, <2>1, <2>2
<1>5. Asked(r)
  BY <1>1, <1>2, <1>4 DEF Asked, BsoKinds
<1>6. \A q \in Clients \ {p} : RowsStay(txn[q])
  BY <1>1 DEF RowsStay
<1>7. req[p].pc \in {"alone", "stamp"} /\ uc' = uc /\ bso' = bso
  BY <1>1
<1>. HIDE DEF r0
<1>. QED
  BY <1>1, <1>2, <1>3, <1>4, <1>5, <1>6, <1>7, AloneStep

-----------------------------------------------------------------------------
(* LockInv is an invariant. *)

LEMMA InitLock == Init => LockInv
<1>. SUFFICES ASSUME Init PROVE LockInv
  OBVIOUS
<1>1. \A p \in Clients : req[p] = Idle /\ txn[p] = NoTxn
  BY DEF Init, StoreInit
<1>2. TypeOK
  <2>1. 1 \in 1..MaxTime /\ -1 \in (-1)..MaxTime
    BY MaxTimeAssumption
  <2>2. NoRow \in Row \cup {NoRow}
    OBVIOUS
  <2>. QED
    BY <2>1, <2>2, IdleFacts DEF Init, StoreInit, TypeOK, StoreTypeOK
<1>3. CollectionCoversBsos
  BY DEF Init, StoreInit, CollectionCoversBsos, Present, NoRow
<1>4. Exclusive /\ RowsApart
  BY <1>1, IdleFacts, BegunFields DEF Exclusive, RowsApart, Apart
<1>5. \A p \in Clients : Asked(req[p]) /\ Shape(req[p], txn[p]) /\ Told(req[p])
  BY <1>1, IdleFacts
<1>. QED
  BY <1>2, <1>3, <1>4, <1>5 DEF LockInv

LEMMA ClockStep ==
  ASSUME LockInv, UNCHANGED <<uc, bso, txn, req, torn>>, now' \in {now, now + 1},
         now' \in 1..MaxTime
  PROVE  LockInv'
<1>1. TypeOK' /\ CollectionCoversBsos' /\ Exclusive' /\ RowsApart'
  BY DEF LockInv, TypeOK, StoreTypeOK, CollectionCoversBsos, Exclusive, RowsApart, Apart
<1>2. ASSUME NEW p \in Clients
      PROVE  (Asked(req[p]) /\ Shape(req[p], txn[p]) /\ Told(req[p]))'
  <2>1. PICK s, u : /\ s = req[p] /\ u = txn[p] /\ s = req'[p] /\ u = txn'[p]
                    /\ Asked(s) /\ Shape(s, u) /\ Told(s) /\ s \in Request
    BY State, Zenon
  <2>2. s.ids \in SUBSET Ids /\ s.coll \in Collections
    BY <2>1 DEF Request
  <2>3. Asked(s)'
    BY <2>1, State DEF Asked
  <2>4. RowsStay(u) /\ NothingNew(s.coll)
    BY DEF RowsStay, NothingNew
  <2>5. Shape(s, u)'
    BY <2>1, <2>2, <2>4, ShapeKept
  <2>6. Told(s)'
    BY <2>1, <2>4, ToldKept
  <2>. QED
    BY <2>1, <2>3, <2>5, <2>6, Zenon
<1>. QED
  BY <1>1, <1>2 DEF LockInv

LEMMA NextLock == LockInv /\ [Next]_vars => LockInv'
<1>. SUFFICES ASSUME LockInv, [Next]_vars PROVE LockInv'
  OBVIOUS
<1>1. now \in 1..MaxTime
  BY DEF LockInv, TypeOK, StoreTypeOK
<1>2. CASE UNCHANGED vars
  BY <1>1, <1>2, ClockStep DEF vars
<1>3. CASE Tick /\ UNCHANGED <<req, torn>>
  <2>1. now' = now + 1 /\ now < MaxTime /\ UNCHANGED <<uc, bso, txn, req, torn>>
    BY <1>3 DEF Tick
  <2>. QED
    BY <1>1, <2>1, MaxTimeAssumption, ClockStep
<1>4. ASSUME NEW p \in Clients, Start(p) \/ Serve(p) \/ GiveUp(p)
      PROVE  LockInv'
  <2>1. CASE Start(p)
    BY <2>1, StartStep
  <2>2. CASE GiveUp(p) \/ LockConflict(p)
    BY <2>2, CloseStep DEF GiveUp, LockConflict
  <2>3. CASE LockForRead(p) \/ LockForWrite(p) \/ CheckPrecondition(p)
    BY <2>3, LockForReadStep, LockForWriteStep, CheckPreconditionStep
  <2>4. CASE PutBsos(p) \/ DeleteBso(p) \/ DeleteBsos(p) \/ Touch(p)
    BY <2>4, PutBsosStep, DeleteBsoSteps, TouchStep
  <2>5. CASE DeleteCollection(p) \/ DeleteAllBsos(p) \/ DeleteAllCollections(p)
    BY <2>5, DeleteCollectionStep, DeleteAllBsosStep, DeleteAllCollectionsStep
  <2>6. CASE GetBsos(p) \/ FinishGetCollection(p)
    BY <2>6, GetBsosStep, FinishGetCollectionStep
  <2>7. CASE CommitRequest(p)
    BY <2>7, CommitStep
  <2>8. CASE LoseTransaction(p)
    BY <2>8, LoseTransactionStep
  <2>9. CASE GoesOnAlone(p)
    BY <2>9, PutAloneStep, TouchAloneStep, FailAloneStep DEF GoesOnAlone
  <2>. QED
    BY <1>4, <2>1, <2>2, <2>3, <2>4, <2>5, <2>6, <2>7, <2>8, <2>9 DEF Serve
<1>. QED
  BY <1>2, <1>3, <1>4 DEF Next

LEMMA AlwaysLock == Spec => []LockInv
  BY InitLock, NextLock, PTL DEF Spec

-----------------------------------------------------------------------------
(* What follows from it. *)

(* Every row, lock and request in progress is of the kind the statements of  *)
(* MysqlDb leave it in.                                                      *)
THEOREM LocksTypeCorrect == Spec => []TypeOK
<1>1. LockInv => TypeOK
  BY DEF LockInv
<1>. QED
  BY <1>1, AlwaysLock, PTL

(* A BSO is never stored without its collection's row, nor with a later      *)
(* modified, though delete_collection and delete_storage delete BSOs and     *)
(* rows in statements of their own and nothing cascades; except where a      *)
(* post_bsos_sync went on without its transaction.                           *)
THEOREM RowsCoverTheirBsos == Spec => []CollectionCoversBsos
<1>1. LockInv => CollectionCoversBsos
  BY DEF LockInv
<1>. QED
  BY <1>1, AlwaysLock, PTL

(* A listing that is about to be answered has every BSO of its collection    *)
(* that is stored and has not expired: the lock of lock_for_read keeps       *)
(* writers away between get_bsos and finish_get_collection, all but a        *)
(* post_bsos_sync that lost its transaction in this collection.              *)
THEOREM ListingsAreCurrent == Spec => []ListingIsCurrent
<1>1. LockInv => ListingIsCurrent
  <2>. SUFFICES ASSUME LockInv, NEW p \in Clients, req[p].kind = "get_collection",
                       req[p].pc = "commit", req[p].status = 200,
                       req[p].coll \notin torn, NEW i \in Ids,
                       Present(bso[req[p].coll][i]),
                       bso[req[p].coll][i].exp > req[p].ts
                PROVE  /\ req[p].items[i] = bso[req[p].coll][i].mod
                       /\ bso[req[p].coll][i].mod <= req[p].lm
    BY DEF ListingIsCurrent
  <2>. DEFINE c == req[p].coll
  <2>1. /\ c \in Collections /\ uc[c] \in Absent..MaxTime /\ bso[c][i] \in Row
        /\ bso[c][i].mod <= uc[c]
    BY State DEF TypeOK, StoreTypeOK, Present, NoRow, CollectionCoversBsos, CollKeys
  <2>2. /\ req[p].items[i] = bso[c][i].mod
        /\ req[p].lm = IF uc[c] = Absent THEN 0 ELSE uc[c]
    BY State DEF Told, Done
  <2>3. bso[c][i].mod \in 1..MaxTime
    BY <2>1 DEF Row
  <2>. QED
    BY <2>1, <2>2, <2>3, MaxTimeAssumption
<1>. QED
  BY <1>1, AlwaysLock, PTL

\* A request that waits and is waited for, and is not DELETE /storage, writes
\* to the collection of the one it waits for.
LEMMA Waiters ==
  ASSUME LockInv, NEW a \in Clients, NEW p \in Clients, NEW q \in Clients, NEW b \in Clients,
         WaitsFor(a, p), WaitsFor(p, q), WaitsFor(q, b),
         req[p].kind # "delete_all", req[q].kind # "delete_all"
  PROVE  /\ req[p].kind \in WriteKinds
         /\ req[p].pc \in {"handle", "touch"}
         /\ req[p].coll = req[q].coll
<1>. DEFINE r == req[p]
            s == req[q]
            t == txn[p]
            u == txn[q]
<1>1. /\ r \in Request /\ s \in Request /\ Asked(r) /\ Asked(s) /\ Shape(r, t) /\ Shape(s, u)
      /\ TypeOK /\ r.coll \in Collections /\ s.coll \in Collections
  BY State
<1>2. r.pc # "lock"
  <2>1. SUFFICES ASSUME r.pc = "lock" PROVE FALSE
    OBVIOUS
  <2>2. t.excl = {} /\ t.share = {} /\ t.gaps = {} /\ t.rows = {} /\ t.all = FALSE
    BY <1>1, <2>1, HeldFacts, BegunFields
  <2>. QED
    BY <2>2 DEF WaitsFor, In
<1>3. s.pc # "commit"
  BY DEF WaitsFor, In
<1>4. /\ u.all = FALSE /\ u.rows \subseteq {s.coll} \X Ids
      /\ Locked(u) \subseteq {s.coll, Tombstone} /\ Tombstone \notin Locked(u)
  BY <1>1, <1>3, HeldFacts
<1>5. \A k : (CollView(t, k) = Absent /\ k \in u.gaps) \/ k \in u.excl \cup u.share
             => k \in Locked(u)
  BY DEF Locked
<1>6. \/ r.kind \in WriteKinds /\ r.pc = "handle"
         /\ \/ ({r.coll} \X r.ids) \cap u.rows # {}
            \/ RowsOf(r.coll) \cap u.rows # {}
            \/ Tombstone \in Locked(u)
      \/ r.pc = "touch" /\ r.coll \in Locked(u)
  BY <1>2, <1>4, <1>5 DEF WaitsFor, In, WriteKinds
<1>7. r.pc = "touch" => r.kind \in WriteKinds
  <2>1. r.pc = "touch" => ~Done(r) /\ ~Refused(r)
    BY DEF Done, Refused
  <2>. QED
    BY <1>1, <2>1 DEF Shape, ShapeOfRead, ShapeOfLock, ShapeOfDeleteCollection,
       ShapeOfDeleteAll, ShapeOfPut, ShapeOfDelete, WriteKinds
<1>8. r.coll = s.coll
  <2>1. r.coll # Tombstone
    BY <1>1, CollectionsAssumption
  <2>2. RowsOf(r.coll) = {r.coll} \X Ids
    BY DEF RowsOf
  <2>. QED
    BY <1>4, <1>6, <2>1, <2>2
<1>. QED
  BY <1>6, <1>7, <1>8

(* Requests of which none is DELETE /storage, however many they are, wait    *)
(* for each other only when two have locked the gap of a collection that is  *)
(* not there yet: every writer locks its collection before its BSOs          *)
(* (lock_for_write), and nobody waits with the tombstone locked.             *)
THEOREM DeadlocksAreOverGaps == Spec => []DeadlockOnlyOverGaps
<1>1. LockInv => DeadlockOnlyOverGaps
  <2>. SUFFICES ASSUME LockInv, NEW S \in SUBSET Clients, Deadlock(S),
                       \A p \in S : req[p].kind # "delete_all"
                PROVE  \E p, q \in S : p # q /\ txn[p].gaps \cap txn[q].gaps # {}
    BY DEF DeadlockOnlyOverGaps
  <2>1. S # {} /\ \A p \in S : \E q \in S \ {p} : WaitsFor(p, q)
    BY DEF Deadlock
  <2>2. PICK a \in S, p \in S : WaitsFor(a, p)
    BY <2>1
  <2>3. PICK q \in S \ {p} : WaitsFor(p, q)
    BY <2>1
  <2>4. PICK b \in S : WaitsFor(q, b)
    BY <2>1, <2>3
  <2>5. PICK d \in S : WaitsFor(b, d)
    BY <2>1, <2>4
  <2>6. /\ req[p].kind \in WriteKinds /\ req[p].pc \in {"handle", "touch"}
        /\ req[p].coll = req[q].coll
    BY <2>2, <2>3, <2>4, Waiters
  <2>7. req[q].kind \in WriteKinds /\ req[q].pc \in {"handle", "touch"}
    BY <2>3, <2>4, <2>5, Waiters
  <2>8. /\ txn[p].excl = RowOf(req[p].coll) /\ txn[p].gaps = GapOf(req[p].coll)
    BY <2>6, State, HeldFacts, ZenonT(60)
  <2>9. /\ txn[q].excl = RowOf(req[q].coll) /\ txn[q].gaps = GapOf(req[q].coll)
    BY <2>7, State, HeldFacts
  <2>10. txn[p].excl \cap txn[q].excl = {}
    BY <2>3 DEF LockInv, Exclusive, Locked
  <2>11. txn[p].gaps \cap txn[q].gaps # {}
    BY <2>6, <2>8, <2>9, <2>10 DEF RowOf, GapOf
  <2>. QED
    BY <2>3, <2>11
<1>. QED
  BY <1>1, AlwaysLock, PTL

-----------------------------------------------------------------------------
(* Only a commit, and a request without a transaction, changes rows. *)
LEMMA OnlyCommits ==
  ASSUME [Next]_vars
  PROVE  \/ UNCHANGED <<now, uc, bso>>
         \/ Tick /\ UNCHANGED <<uc, bso>>
         \/ \E p \in Clients : CommitRequest(p)
         \/ \E p \in Clients : GoesOnAlone(p)
<1>1. ASSUME NEW p \in Clients, Start(p) \/ Serve(p) \/ GiveUp(p), ~CommitRequest(p),
             ~GoesOnAlone(p)
      PROVE  UNCHANGED <<now, uc, bso>>
  <2>1. CASE Start(p)
    BY <2>1 DEF Start
  <2>2. CASE GiveUp(p) \/ LockConflict(p)
    BY <2>2 DEF GiveUp, LockConflict, Close, Rollback
  <2>3. CASE LockForRead(p) \/ LockForWrite(p) \/ CheckPrecondition(p)
    BY <2>3 DEF LockForRead, LockForWrite, CheckPrecondition, SetTxn
  <2>4. CASE PutBsos(p) \/ DeleteBso(p) \/ DeleteBsos(p) \/ Touch(p)
    BY <2>4 DEF PutBsos, DeleteBso, DeleteBsos, Touch, SetTxn, Close, Rollback
  <2>5. CASE DeleteCollection(p) \/ DeleteAllBsos(p) \/ DeleteAllCollections(p)
    BY <2>5 DEF DeleteCollection, DeleteAllBsos, DeleteAllCollections, SetTxn
  <2>6. CASE GetBsos(p) \/ FinishGetCollection(p)
    BY <2>6 DEF GetBsos, FinishGetCollection
  <2>7. CASE LoseTransaction(p)
    BY <2>7 DEF LoseTransaction, Rollback
  <2>. QED
    BY <1>1, <2>1, <2>2, <2>3, <2>4, <2>5, <2>6, <2>7 DEF Serve
<1>. QED
  BY <1>1 DEF Next, vars, Tick

LEMMA CommitEffects ==
  ASSUME LockInv, NEW p \in Clients, CommitRequest(p)
  PROVE  /\ req' = [req EXCEPT ![p] = Idle] /\ now' = now
         /\ uc' = UcOf(txn[p]) /\ bso' = BsoOf(txn[p])
         /\ \/ UcOf(txn[p]) = uc /\ BsoOf(txn[p]) = bso
            \/ Puts(req[p], txn[p]) \/ Deletes(req[p], txn[p])
            \/ DeletesCollection(req[p], txn[p]) \/ Clears(req[p], txn[p])
<1>1. /\ req[p].pc = "commit" /\ uc' = UcOf(txn[p]) /\ bso' = BsoOf(txn[p]) /\ now' = now
      /\ req' = [req EXCEPT ![p] = Idle]
  BY DEF CommitRequest, Commit, UcOf, BsoOf
<1>. QED
  BY <1>1, State, Effects

(* When a transaction's write takes effect its X-If-Unmodified-Since still   *)
(* holds: what the precondition was checked against stays locked until the   *)
(* commit (lock_for_write, transaction_http).  One BSO of a collection a     *)
(* post_bsos_sync goes on in without its transaction is excepted.            *)
THEOREM LockedPreconditionsHold == Spec => PreconditionHolds
<1>1. ASSUME LockInv, [Next]_vars, NEW p \in Clients,
             req[p].pc = "commit", req'[p].pc = "idle", bso' # bso,
             req[p].since # NotSet, req[p].kind \in WriteKinds
      PROVE  IF req[p].kind \in BsoKinds
             THEN \/ req[p].coll \in torn
                  \/ \A i \in req[p].ids : bso[req[p].coll][i].mod <= req[p].since
             ELSE uc[req[p].coll] <= req[p].since
  <2>0. ASSUME NEW q \in Clients, GoesOnAlone(q)
        PROVE  FALSE
    <3>1. q # p
      BY <1>1, <2>0 DEF GoesOnAlone, PutAlone, TouchAlone, FailAlone
    <3>2. req'[p] = req[p]
      BY <1>1, <2>0, <3>1, State DEF GoesOnAlone, PutAlone, TouchAlone, FailAlone, Goto
    <3>. QED
      BY <1>1, <3>2
  <2>1. PICK q \in Clients : CommitRequest(q)
    BY <1>1, <2>0, OnlyCommits DEF Tick
  <2>2. /\ req' = [req EXCEPT ![q] = Idle]
        /\ \/ Puts(req[q], txn[q]) \/ Deletes(req[q], txn[q])
           \/ DeletesCollection(req[q], txn[q]) \/ Clears(req[q], txn[q])
    BY <1>1, <2>1, CommitEffects
  <2>3. q = p
    <3>1. req \in [Clients -> Request]
      BY <1>1, State
    <3>. QED
      BY <1>1, <2>2, <3>1
  <2>4. Done(req[p])
    BY <2>2, <2>3 DEF Puts, Deletes, DeletesCollection, Clears
  <2>5. Told(req[p])
    BY <1>1, State
  <2>. QED
    BY <1>1, <2>4, <2>5 DEF Told, Passed
<1>2. LockInv /\ [Next]_vars =>
        [\A p \in Clients :
          LET r == req[p] IN
          /\ r.pc = "commit" /\ req'[p].pc = "idle" /\ bso' # bso
          /\ r.since # NotSet /\ r.kind \in WriteKinds
          => IF r.kind \in BsoKinds
             THEN r.coll \in torn \/ \A i \in r.ids : bso[r.coll][i].mod <= r.since
             ELSE uc[r.coll] <= r.since]_vars
  BY <1>1
<1>. QED
  BY <1>2, AlwaysLock, PTL DEF Spec, PreconditionHolds

-----------------------------------------------------------------------------
(* MysqlRequests implements SyncStore. *)

LEMMA SameRows ==
  /\ Store!Nothing = NoRow /\ Store!NoModified = Absent /\ Store!NotGiven = NotSet
  /\ \A row \in Row \cup {NoRow} : Present(row) <=> row # NoRow
<1>1. \A row \in Row : row.mod # Absent
  BY MaxTimeAssumption DEF Row
<1>. QED
  BY <1>1 DEF Store!Nothing, Store!NoModified, Store!NotGiven, NoRow, Present

LEMMA UpsertIsWrittenOver ==
  ASSUME NEW row \in Row \cup {NoRow}, NEW body \in Bodies, NEW ts \in 1..MaxTime
  PROVE  Upserted(row, body, ts) = Store!WrittenOver(row, body, ts)
<1>1. body.ttl \in Nat \cup {NotSet} /\ ts \in Nat /\ MaxTime \in Nat
  BY BodiesAssumption, MaxTimeAssumption
<1>2. CASE Present(row)
  <2>1. row # NoRow
    BY <1>2, SameRows
  <2>. QED
    BY <1>2, <2>1, SameRows DEF Upserted, Store!WrittenOver
<1>3. CASE ~Present(row)
  <2>1. row = NoRow
    BY <1>3, SameRows
  <2>2. Expiry(ts, body.ttl) = IF body.ttl # NotSet THEN ts + body.ttl ELSE ts + MaxTime + 1
    BY <1>1 DEF Expiry, DefaultTtl
  <2>3. Upserted(row, body, ts) = [mod |-> ts, exp |-> Expiry(ts, body.ttl),
                                   val |-> IF body.val = NotSet THEN 0 ELSE body.val]
    BY <1>3 DEF Upserted
  <2>. QED
    BY <2>1, <2>2, <2>3, SameRows DEF Store!WrittenOver
<1>. QED
  BY <1>2, <1>3

LEMMA CommitIsOneStep ==
  ASSUME LockInv, NEW p \in Clients, CommitRequest(p)
  PROVE  Store!Next \/ UNCHANGED <<now, uc, bso>>
<1>. DEFINE r == req[p]
            t == txn[p]
            c == r.coll
<1>1. /\ r \in Request /\ Asked(r) /\ c \in Collections /\ r.ids \in SUBSET Ids /\ TypeOK
      /\ bso \in [Collections -> [Ids -> Row \cup {NoRow}]]
      /\ now' = now /\ uc' = UcOf(t) /\ bso' = BsoOf(t)
      /\ \/ UcOf(t) = uc /\ BsoOf(t) = bso
         \/ Puts(r, t) \/ Deletes(r, t) \/ DeletesCollection(r, t) \/ Clears(r, t)
  BY State, CommitEffects
<1>. HIDE DEF r, t, c
<1>2. Done(r) /\ uc[c] < r.ts => r.ts \in 1..MaxTime /\ Store!Timestamp(c, r.ts)
  <2>1. Done(r) => r.ts \in 1..now
    BY <1>1 DEF Asked, Done
  <2>2. now \in 1..MaxTime /\ uc[c] \in Absent..MaxTime
    BY <1>1 DEF TypeOK, StoreTypeOK, CollKeys
  <2>. QED
    BY <2>1, <2>2, MaxTimeAssumption DEF Store!Timestamp
<1>3. CASE Puts(r, t)
  <2>1. PICK ids \in SUBSET Ids : BsoOf(t) = PutOver(c, ids, r.body, r.ts)
    BY <1>3, Zenon DEF Puts, c
  <2>2. /\ r.ts \in 1..MaxTime /\ Store!Timestamp(c, r.ts)
        /\ uc' = [uc EXCEPT ![c] = r.ts]
    BY <1>1, <1>2, <1>3 DEF Puts, c
  <2>3. r.body \in Bodies
    BY <1>1, <1>3 DEF Puts, Asked
  <2>4. \A i \in Ids : Upserted(bso[c][i], r.body, r.ts) = Store!Written(c, i, r.body, r.ts)
    <3>1. \A i \in Ids : bso[c][i] \in Row \cup {NoRow}
      BY <1>1
    <3>. QED
      BY <2>2, <2>3, <3>1, UpsertIsWrittenOver DEF Store!Written
  <2>5. [i \in Ids |-> IF i \in ids THEN Upserted(bso[c][i], r.body, r.ts) ELSE bso[c][i]]
        = [i \in Ids |-> IF i \in ids THEN Store!Written(c, i, r.body, r.ts) ELSE bso[c][i]]
    BY <2>4
  <2>6. bso' = [bso EXCEPT ![c] =
                 [i \in Ids |-> IF i \in ids THEN Store!Written(c, i, r.body, r.ts) ELSE @[i]]]
    BY <1>1, <2>1, <2>5 DEF PutOver
  <2>7. Store!Write(c, ids, r.body, r.ts)
    BY <1>1, <2>2, <2>6 DEF Store!Write
  <2>. QED
    BY <1>1, <2>2, <2>3, <2>7 DEF Store!Next
<1>4. CASE Deletes(r, t)
  <2>1. /\ r.ts \in 1..MaxTime /\ Store!Timestamp(c, r.ts)
        /\ uc' = [uc EXCEPT ![c] = r.ts] /\ bso' = DeletedFrom(c, r.ids)
    BY <1>1, <1>2, <1>4 DEF Deletes, c
  <2>2. Store!Remove(c, r.ids, r.ts)
    BY <1>1, <2>1, SameRows DEF Store!Remove, DeletedFrom
  <2>. QED
    BY <1>1, <2>1, <2>2 DEF Store!Next
<1>5. CASE DeletesCollection(r, t)
  <2>1. /\ r.ts \in 1..MaxTime /\ Store!Timestamp(c, r.ts)
        /\ uc[c] # Absent \/ \E i \in Ids : bso[c][i] # NoRow
        /\ uc' = RemovedUc(c, r.ts) /\ bso' = DeletedFrom(c, Ids)
    BY <1>1, <1>2, <1>5 DEF DeletesCollection, NoneOf, c
  <2>2. [i \in Ids |-> IF i \in Ids THEN NoRow ELSE bso[c][i]] = [i \in Ids |-> NoRow]
    OBVIOUS
  <2>3. bso' = [bso EXCEPT ![c] = [i \in Ids |-> Store!Nothing]]
    BY <2>1, <2>2, SameRows DEF DeletedFrom
  <2>4. uc' = [uc EXCEPT ![c] = Store!NoModified, ![Tombstone] = r.ts]
    BY <2>1, SameRows DEF RemovedUc
  <2>5. uc[c] # Store!NoModified \/ \E i \in Ids : bso[c][i] # Store!Nothing
    BY <2>1, SameRows
  <2>6. Store!RemoveCollection(c, r.ts)
    BY <1>1, <2>1, <2>3, <2>4, <2>5, Zenon DEF Store!RemoveCollection
  <2>7. Ids \in SUBSET Ids
    OBVIOUS
  <2>. QED
    BY <1>1, <2>1, <2>6, <2>7, Zenon DEF Store!Next
<1>6. CASE Clears(r, t)
  <2>1. Store!RemoveStorage
    BY <1>1, <1>6, SameRows DEF Store!RemoveStorage, Clears, NoRows, CollKeys
  <2>. QED
    BY <2>1 DEF Store!Next
<1>. QED
  BY <1>1, <1>3, <1>4, <1>5, <1>6

(* However statements and lock waits interleave, every request that keeps    *)
(* its transaction has the effect of one step of SyncStore or none: what a   *)
(* commit writes was staged over rows that are still those of the store, and *)
(* nothing else writes but the statements of a post_bsos_sync that has lost  *)
(* its transaction.                                                          *)
THEOREM LocksMakeRequestsAtomic == Spec => TakesEffectAtOnce
<1>1. Init => Store!Init
  BY DEF Init, StoreInit, Store!Init, Store!Nothing, Store!NoModified, NoRow, CollKeys
<1>2. LockInv /\ [Next]_vars
        => [Store!Next \/ \E p \in Clients : GoesOnAlone(p)]_<<now, uc, bso>>
  <2>. SUFFICES ASSUME LockInv, [Next]_vars
                PROVE  \/ Store!Next \/ \E p \in Clients : GoesOnAlone(p)
                       \/ UNCHANGED <<now, uc, bso>>
    OBVIOUS
  <2>1. CASE Tick /\ UNCHANGED <<uc, bso>>
    BY <2>1 DEF Tick, Store!Advance, Store!Next
  <2>2. CASE \E p \in Clients : CommitRequest(p)
    BY <2>2, CommitIsOneStep
  <2>. QED
    BY <2>1, <2>2, OnlyCommits
<1>. QED
  BY <1>1, <1>2, AlwaysLock, PTL DEF Spec, TakesEffectAtOnce, Store!Spec
=============================================================================
