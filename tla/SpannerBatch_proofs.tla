------------------------ MODULE SpannerBatch_proofs ------------------------
(***************************************************************************)
(* Proofs about batch uploads on Spanner: type correctness, the parents of *)
(* batches and BSOs, refusals, conditional writes, answers, and that a     *)
(* batch takes effect at once.                                             *)
(*                                                                         *)
(* The invariant, BatchInv, says of each request what its position implies *)
(* (Shape), what its work on the batch tables may be (Holds), and, while   *)
(* its transaction can still commit, that nothing it read has changed and  *)
(* what exactly it has written and buffered so far (Current, Progress).    *)
(***************************************************************************)
EXTENDS SpannerBatch, TLAPS

USE DEF NotSet, Absent, PRETOUCH

-----------------------------------------------------------------------------
(* What the operators of SpannerStore do to transactions and rows. *)

\* The columns a write may supply.
Columns == [val : Vals \cup {NotSet}, ttl : Nat \cup {NotSet}]

(* A new transaction is a transaction (begin_async). *)
LEMMA EmptyTxnType ==
  ASSUME NEW mode \in {"none", "ro", "rw", "dead"}
  PROVE  EmptyTxn(mode) \in Txn
<1>1. NothingWritten \in [CollKeys -> NotSet..MaxTime]
  BY MaxTimeAssumption DEF NothingWritten
<1>2. NothingStaged \in [Collections -> [Ids -> Row \cup {NoRow, NotStaged}]]
  BY DEF NothingStaged
<1>3. NothingBuffered \in [Collections -> [Ids -> Mutation]]
  BY DEF NothingBuffered, Mutation
<1>. QED
  BY <1>1, <1>2, <1>3 DEF EmptyTxn, Txn

(* A read adds to what was read and changes nothing else of a transaction. *)
LEMMA ReadingType ==
  ASSUME NEW t \in Txn, NEW ks \in SUBSET CollKeys,
         NEW rs \in SUBSET (Collections \X Ids)
  PROVE  Reading(t, ks, rs) \in Txn
BY DEF Reading, Txn

LEMMA ReadingFields ==
  ASSUME NEW t \in Txn, NEW ks, NEW rs
  PROVE  /\ Reading(t, ks, rs).mode = t.mode
         /\ Reading(t, ks, rs).reads = t.reads \cup ks
         /\ Reading(t, ks, rs).rows = t.rows \cup rs
         /\ Reading(t, ks, rs).wc = t.wc
         /\ Reading(t, ks, rs).wb = t.wb
         /\ Reading(t, ks, rs).mut = t.mut
BY DEF Reading, Txn

(* A touch writes one collection's timestamp (touch_collection_async). *)
LEMMA TouchedType ==
  ASSUME NEW t \in Txn, NEW c \in Collections, NEW ts \in 0..MaxTime
  PROVE  /\ Touched(t, c, ts) \in Txn
         /\ Touched(t, c, ts).mode = t.mode
         /\ Touched(t, c, ts).reads = t.reads \cup {c}
         /\ Touched(t, c, ts).rows = t.rows
         /\ Touched(t, c, ts).wc = [t.wc EXCEPT ![c] = ts]
         /\ Touched(t, c, ts).wb = t.wb
         /\ Touched(t, c, ts).mut = t.mut
<1>1. c \in CollKeys
  BY DEF CollKeys
<1>2. [t.wc EXCEPT ![c] = ts] \in [CollKeys -> NotSet..MaxTime]
  <2>1. t.wc \in [CollKeys -> NotSet..MaxTime]
    BY DEF Txn
  <2>2. ts \in NotSet..MaxTime
    BY MaxTimeAssumption
  <2>. QED
    BY <2>1, <2>2
<1>. QED
  BY <1>1, <1>2 DEF Touched, Txn

(* A deletion stages the rows it names, of one collection. *)
LEMMA DeletedRowsType ==
  ASSUME NEW t \in Txn, NEW c \in Collections, NEW ids \in SUBSET Ids
  PROVE  /\ DeletedRows(t, c, ids) \in Txn
         /\ DeletedRows(t, c, ids).mode = t.mode
         /\ DeletedRows(t, c, ids).reads = t.reads
         /\ DeletedRows(t, c, ids).rows = t.rows \cup ({c} \X ids)
         /\ DeletedRows(t, c, ids).wc = t.wc
         /\ DeletedRows(t, c, ids).mut = t.mut
         /\ \A d \in Collections, i \in Ids :
               DeletedRows(t, c, ids).wb[d][i] =
                 IF d = c /\ i \in ids THEN NoRow ELSE t.wb[d][i]
<1>. DEFINE f == [i \in Ids |-> IF i \in ids THEN NoRow ELSE t.wb[c][i]]
<1>1. t.wb \in [Collections -> [Ids -> Row \cup {NoRow, NotStaged}]]
  BY DEF Txn
<1>2. f \in [Ids -> Row \cup {NoRow, NotStaged}]
  BY <1>1
<1>3. [t.wb EXCEPT ![c] = f] \in [Collections -> [Ids -> Row \cup {NoRow, NotStaged}]]
  BY <1>1, <1>2
<1>4. \A d \in Collections, i \in Ids :
         [t.wb EXCEPT ![c] = f][d][i] =
           IF d = c /\ i \in ids THEN NoRow ELSE t.wb[d][i]
  BY <1>1
<1>5. DeletedRows(t, c, ids) =
        [t EXCEPT !.rows = t.rows \cup ({c} \X ids), !.wb = [t.wb EXCEPT ![c] = f]]
  BY DEF DeletedRows, Txn
<1>. HIDE DEF f
<1>6. t.rows \cup ({c} \X ids) \in SUBSET (Collections \X Ids)
  BY DEF Txn
<1>7. /\ DeletedRows(t, c, ids).mode = t.mode
      /\ DeletedRows(t, c, ids).reads = t.reads
      /\ DeletedRows(t, c, ids).rows = t.rows \cup ({c} \X ids)
      /\ DeletedRows(t, c, ids).wc = t.wc
      /\ DeletedRows(t, c, ids).wb = [t.wb EXCEPT ![c] = f]
      /\ DeletedRows(t, c, ids).mut = t.mut
  BY <1>5 DEF Txn
<1>8. DeletedRows(t, c, ids) \in Txn
  BY <1>3, <1>5, <1>6 DEF Txn
<1>. QED
  BY <1>4, <1>7, <1>8

(* The transactions of a session that has none, lost its own, or just began. *)
LEMMA NoTxnType == NoTxn \in Txn /\ DeadTxn \in Txn /\ BeginWrite \in Txn
BY EmptyTxnType DEF NoTxn, DeadTxn, BeginWrite

-----------------------------------------------------------------------------
(* What a transaction sees are rows (CollView, BsoView). *)
LEMMA ViewType ==
  ASSUME StoreTypeOK, NEW t \in Txn
  PROVE  /\ \A k \in CollKeys : CollView(t, k) \in Absent..MaxTime
         /\ \A c \in Collections, i \in Ids :
               BsoView(t, c, i) \in Row \cup {NoRow}
<1>1. ASSUME NEW k \in CollKeys PROVE CollView(t, k) \in Absent..MaxTime
  <2>1. t.wc[k] \in NotSet..MaxTime /\ uc[k] \in Absent..MaxTime
    BY DEF StoreTypeOK, Txn
  <2>. QED
    BY <2>1, MaxTimeAssumption DEF CollView
<1>2. ASSUME NEW c \in Collections, NEW i \in Ids
      PROVE  BsoView(t, c, i) \in Row \cup {NoRow}
  <2>1. t.wb[c][i] \in Row \cup {NoRow, NotStaged} /\ bso[c][i] \in Row \cup {NoRow}
    BY DEF StoreTypeOK, Txn
  <2>. QED
    BY <2>1 DEF BsoView, NotStaged
<1>. QED
  BY <1>1, <1>2

(* Mutations that apply turn rows into rows (Mutated, MutationsApply). *)
LEMMA RowAfterType ==
  ASSUME StoreTypeOK, NEW t \in Txn, MutationsApply(t),
         NEW c \in Collections, NEW i \in Ids
  PROVE  RowAfter(t, c, i) \in Row \cup {NoRow}
<1>. DEFINE m == t.mut[c][i]
            row == BsoView(t, c, i)
<1>1. m \in Mutation
  BY DEF Txn
<1>2. row \in Row \cup {NoRow}
  BY ViewType
<1>3. m.op = "update" => row \in Row
  BY <1>2 DEF MutationsApply, Present, NoRow
<1>. HIDE DEF m, row
<1>4. Mutated(m, row) \in Row \cup {NoRow}
  <2>1. CASE m = NoMutation
    BY <2>1, <1>2 DEF Mutated, NoMutation
  <2>2. CASE m \in Insert
    BY <2>2 DEF Mutated, Insert, Row
  <2>3. CASE m \in Update
    BY <2>3, <1>3 DEF Mutated, Update, Row
  <2>. QED
    BY <1>1, <2>1, <2>2, <2>3 DEF Mutation
<1>. QED
  BY <1>4 DEF m, row, RowAfter

(* The mutations post_bsos buffers are mutations (bso_to_insert_row,         *)
(* bso_to_update_row).                                                       *)
LEMMA BufferedType ==
  ASSUME NEW body \in Columns, NEW ts \in 1..MaxTime
  PROVE  InsertRow(body, ts) \in Mutation /\ UpdateRow(body, ts) \in Mutation
<1>1. body \in [val : Vals \cup {NotSet}, ttl : Nat \cup {NotSet}]
  BY DEF Columns
<1>2. Expiry(ts, body.ttl) \in Nat
  BY <1>1, MaxTimeAssumption DEF Expiry, DefaultTtl
<1>3. InsertRow(body, ts) \in Insert
  BY <1>1, <1>2, ValsAssumption DEF InsertRow, Insert
<1>4. UpdateRow(body, ts) \in Update
  BY <1>1, MaxTimeAssumption DEF UpdateRow, Update
<1>. QED
  BY <1>3, <1>4 DEF Mutation

(* Buffering changes the mutations of the rows it names and nothing else.    *)
LEMMA BufferingType ==
  ASSUME NEW t \in Txn, NEW c \in Collections, NEW ids \in SUBSET Ids,
         NEW body \in Columns, NEW ts \in 1..MaxTime
  PROVE  /\ Buffering(t, c, ids, body, ts) \in Txn
         /\ Buffering(t, c, ids, body, ts).mode = t.mode
         /\ Buffering(t, c, ids, body, ts).reads = t.reads
         /\ Buffering(t, c, ids, body, ts).rows = t.rows
         /\ Buffering(t, c, ids, body, ts).wc = t.wc
         /\ Buffering(t, c, ids, body, ts).wb = t.wb
         /\ \A d \in Collections, i \in Ids :
               Buffering(t, c, ids, body, ts).mut[d][i] =
                 IF d # c \/ i \notin ids THEN t.mut[d][i]
                 ELSE IF Present(BsoView(t, c, i)) THEN UpdateRow(body, ts)
                 ELSE InsertRow(body, ts)
<1>. DEFINE f == [i \in Ids |->
                    IF i \notin ids THEN t.mut[c][i]
                    ELSE IF Present(BsoView(t, c, i)) THEN UpdateRow(body, ts)
                    ELSE InsertRow(body, ts)]
<1>1. t.mut \in [Collections -> [Ids -> Mutation]]
  BY DEF Txn
<1>2. f \in [Ids -> Mutation]
  BY <1>1, BufferedType
<1>3. [t.mut EXCEPT ![c] = f] \in [Collections -> [Ids -> Mutation]]
  BY <1>1, <1>2
<1>4. Buffering(t, c, ids, body, ts) = [t EXCEPT !.mut = [t.mut EXCEPT ![c] = f]]
  BY DEF Buffering, Txn
<1>5. \A d \in Collections, i \in Ids :
         [t.mut EXCEPT ![c] = f][d][i] =
           IF d # c \/ i \notin ids THEN t.mut[d][i]
           ELSE IF Present(BsoView(t, c, i)) THEN UpdateRow(body, ts)
           ELSE InsertRow(body, ts)
  BY <1>1
<1>. HIDE DEF f
<1>. QED
  BY <1>3, <1>4, <1>5 DEF Txn

(* Buffering leaves everything else of the transaction alone.               *)
LEMMA BufferingKeeps ==
  ASSUME NEW t \in Txn, NEW c, NEW ids, NEW body, NEW ts
  PROVE  /\ Buffering(t, c, ids, body, ts).mode = t.mode
         /\ Buffering(t, c, ids, body, ts).reads = t.reads
         /\ Buffering(t, c, ids, body, ts).rows = t.rows
         /\ Buffering(t, c, ids, body, ts).wc = t.wc
         /\ Buffering(t, c, ids, body, ts).wb = t.wb
BY DEF Buffering, Txn

(* A deleted collection leaves a tombstone and no rows (erect_tombstone).    *)
LEMMA DeletedCollectionType ==
  ASSUME NEW t \in Txn, NEW c \in Collections, NEW ts \in 0..MaxTime
  PROVE  /\ DeletedCollection(t, c, ts) \in Txn
         /\ DeletedCollection(t, c, ts).mode = t.mode
         /\ DeletedCollection(t, c, ts).reads = t.reads
         /\ DeletedCollection(t, c, ts).rows = t.rows \cup ({c} \X Ids)
         /\ DeletedCollection(t, c, ts).wc =
              [t.wc EXCEPT ![c] = Absent, ![Tombstone] = ts]
         /\ DeletedCollection(t, c, ts).mut = t.mut
         /\ \A d \in Collections, i \in Ids :
               DeletedCollection(t, c, ts).wb[d][i] =
                 IF d = c THEN NoRow ELSE t.wb[d][i]
<1>. DEFINE u == DeletedRows(t, c, Ids)
            wc == [t.wc EXCEPT ![c] = Absent, ![Tombstone] = ts]
<1>1. /\ u \in Txn /\ u.mode = t.mode /\ u.reads = t.reads
      /\ u.rows = t.rows \cup ({c} \X Ids) /\ u.wc = t.wc /\ u.mut = t.mut
      /\ \A d \in Collections, i \in Ids :
            u.wb[d][i] = IF d = c THEN NoRow ELSE t.wb[d][i]
  <2>1. Ids \in SUBSET Ids
    OBVIOUS
  <2>. QED
    BY <2>1, DeletedRowsType
<1>2. c \in CollKeys /\ Tombstone \in CollKeys /\ c # Tombstone
  BY CollectionsAssumption DEF CollKeys
<1>3. wc \in [CollKeys -> NotSet..MaxTime]
  <2>1. t.wc \in [CollKeys -> NotSet..MaxTime]
    BY DEF Txn
  <2>2. ts \in NotSet..MaxTime /\ Absent \in NotSet..MaxTime
    BY MaxTimeAssumption
  <2>. QED
    BY <2>1, <2>2
<1>4. DeletedCollection(t, c, ts) = [u EXCEPT !.wc = wc]
  BY <1>1 DEF DeletedCollection, Txn
<1>. HIDE DEF u, wc
<1>5. /\ [u EXCEPT !.wc = wc] \in Txn
      /\ [u EXCEPT !.wc = wc].mode = u.mode
      /\ [u EXCEPT !.wc = wc].reads = u.reads
      /\ [u EXCEPT !.wc = wc].rows = u.rows
      /\ [u EXCEPT !.wc = wc].wc = wc
      /\ [u EXCEPT !.wc = wc].wb = u.wb
      /\ [u EXCEPT !.wc = wc].mut = u.mut
  BY <1>1, <1>3 DEF Txn
<1>. QED
  BY <1>1, <1>4, <1>5 DEF wc

(* Rows of one collection replaced, those of the others kept. *)
LEMMA RowsReplaced ==
  ASSUME NEW S, NEW old \in [Collections -> [Ids -> S]],
         NEW new \in [Collections -> [Ids -> S]], NEW c \in Collections, NEW g(_),
         \A d \in Collections, i \in Ids :
            new[d][i] = IF d = c THEN g(i) ELSE old[d][i]
  PROVE  new = [old EXCEPT ![c] = [i \in Ids |-> g(i)]]
<1>1. new[c] = [i \in Ids |-> g(i)]
  <2>1. new[c] = [i \in Ids |-> new[c][i]] /\ \A i \in Ids : new[c][i] = g(i)
    OBVIOUS
  <2>. QED
    BY <2>1
<1>2. ASSUME NEW d \in Collections, d # c PROVE new[d] = old[d]
  <2>1. /\ new[d] = [i \in Ids |-> new[d][i]] /\ old[d] = [i \in Ids |-> old[d][i]]
        /\ \A i \in Ids : new[d][i] = old[d][i]
    BY <1>2
  <2>. QED
    BY <2>1
<1>. QED
  BY <1>1, <1>2

-----------------------------------------------------------------------------
(* The invariant. *)

\* The positions of a request that has written nothing, at most a parent, all
\* it was sent, the batch, or a deletion.
Looking(r)   == r.pc \in {"find", "handle"} \/ (r.pc = "commit" /\ r.status = 412)
Preparing(r) == r.pc = "items" \/ (r.pc = "commit" /\ r.status = 202)
Applying(r)  == r.pc = "apply"
Storing(r)   == r.pc = "commit" /\ r.status = 200 /\ r.kind = "post"
Removing(r)  == r.pc = "commit" /\ r.status = 200 /\ r.kind = "delete"

\* A request that has not locked its collection has no transaction; one that
\* works on a batch is a POST; its work is what its position says.
Shape(r, t, w) ==
    /\ r.kind = "post" /\ r.ids # {} => r.body \in Bodies
    /\ r.failed \subseteq r.ids
    /\ t.mode # "ro"
    /\ r.pc \in {"idle", "lock"} => t.mode = "none"
    /\ r.pc \notin {"idle", "lock"} => r.ts \in 1..now
    /\ r.pc \in {"find", "items", "apply"} => r.kind = "post"
    /\ r.pc = "handle" => r.kind = "delete"
    /\ r.pc = "apply" => r.commit
    /\ r.pc = "commit" =>
          \/ r.status = 412
          \/ r.status = 202 /\ r.kind = "post"
          \/ r.status = 200 /\ (r.kind = "post" => r.commit)

\* The work on the batch tables that the position of a request allows.
WorkShape(r, w) ==
    /\ w.exp # 0 => w.exp = r.ts + Lifetime /\ w.exp \in Nat
    /\ IF r.pc \in {"items", "apply"} \/ Preparing(r) \/ Storing(r)
       THEN w.id \in Batches
       ELSE w.id = NewBatch /\ w.exp = 0
    /\ IF r.pc = "commit" /\ r.status = 202
       THEN \A i \in Ids : w.adds[i] = IF i \in r.ids \ r.failed THEN r.body ELSE NoItem
       ELSE w.adds = NoItems
    /\ Storing(r) => w.removed = {w.id}
    /\ ~(r.pc = "commit" /\ r.status = 200) => w.removed = {}

\* A batch that a request makes is its own; the others it works on exist.
Holds(r, w) ==
    /\ w.id # NewBatch => (w.exp # 0 <=> batch[w.id].st = "fresh")
    /\ r.kind = "delete" =>
          \A b \in w.removed : batch[b].st # "fresh" /\ batch[b].coll = r.coll

\* What the transaction wrote: one collection's timestamp, no row, no mutation.
WritesOnly(t, c, x) ==
    \A k \in CollKeys : t.wc[k] = IF k = c THEN x ELSE NotSet
NoStaged(t)   == \A d \in Collections, i \in Ids : t.wb[d][i] = NotStaged
NoBuffered(t) == \A d \in Collections, i \in Ids : t.mut[d][i] = NoMutation

Untouched(t) == \A k \in CollKeys : t.wc[k] = NotSet

ParentTime(r, w) == IF w.exp # 0 /\ uc[r.coll] = Absent THEN PRETOUCH ELSE NotSet

\* The parent of a new batch, and nothing else.
Prepared(r, t, w) == WritesOnly(t, r.coll, ParentTime(r, w))

\* The mutations of post_bsos.
BuffersItems(r, t) ==
    \A d \in Collections, i \in Ids :
        t.mut[d][i] = IF d = r.coll /\ i \in r.ids \ r.failed
                      THEN IF Present(bso[d][i]) THEN UpdateRow(r.body, r.ts)
                           ELSE InsertRow(r.body, r.ts)
                      ELSE NoMutation

ByItem(row, item, ts) ==
    IF Present(row) THEN UpdatedByItem(row, item, ts) ELSE InsertedByItem(item, ts)

\* The rows of commit_batch.
StagesBatch(r, t, w) ==
    \A d \in Collections, i \in Ids :
        t.wb[d][i] = IF d = r.coll /\ batch[w.id].items[i] # NoItem
                     THEN ByItem(bso[d][i], batch[w.id].items[i], r.ts)
                     ELSE NotStaged

\* delete_collection of a collection that exists.
RemovesCollection(r, t, w) ==
    /\ \A k \in CollKeys : t.wc[k] = IF k = r.coll THEN Absent
                                     ELSE IF k = Tombstone THEN r.ts ELSE NotSet
    /\ \A d \in Collections, i \in Ids :
          t.wb[d][i] = IF d = r.coll THEN NoRow ELSE NotStaged
    /\ NoBuffered(t)
    /\ uc[r.coll] > PRETOUCH
    /\ \A b \in Batches :
          batch[b].st = "open" /\ batch[b].coll = r.coll => b \in w.removed

Nothing(t) == Untouched(t) /\ NoStaged(t) /\ NoBuffered(t)

AppliesItems(r, t, w) ==
    /\ IF r.ids = {} THEN Prepared(r, t, w) ELSE WritesOnly(t, r.coll, r.ts)
    /\ NoStaged(t) /\ BuffersItems(r, t)
    /\ {r.coll} \X r.ids \subseteq t.rows

StoresBatch(r, t, w) ==
    /\ WritesOnly(t, r.coll, r.ts)
    /\ StagesBatch(r, t, w) /\ BuffersItems(r, t)
    /\ {r.coll} \X Ids \subseteq t.rows

\* How far an open transaction has come.
Progress(r, t, w) ==
    /\ Looking(r)   => Nothing(t)
    /\ Preparing(r) => Prepared(r, t, w) /\ NoStaged(t) /\ NoBuffered(t)
    /\ Applying(r)  => AppliesItems(r, t, w)
    /\ Storing(r)   => StoresBatch(r, t, w)
    /\ Removing(r)  => RemovesCollection(r, t, w) \/ (Nothing(t) /\ w.removed = {})

\* What it read still holds.
Current(r, t, w) ==
    /\ r.coll \in t.reads
    /\ uc[r.coll] < r.ts
    /\ r.since # NotSet /\ (r.pc = "commit" => r.status # 412) => uc[r.coll] <= r.since
    /\ w.id # NewBatch /\ w.exp = 0 =>
          batch[w.id].st = "open" /\ batch[w.id].coll = r.coll
    /\ \A i \in Ids : w.adds[i] # NoItem => batch[w.id].items[i] = NoItem

SafeUpload(r, t, w) ==
    t.mode = "rw" /\ ~w.dead => Current(r, t, w) /\ Progress(r, t, w)

Shapes  == \A p \in Clients : Shape(req[p], txn[p], work[p])
                              /\ WorkShape(req[p], work[p])
Holding == /\ \A p \in Clients : Holds(req[p], work[p])
           /\ \A p, q \in Clients :
                 p # q /\ work[p].exp # 0 => work[q].id # work[p].id
           /\ \A b \in Batches : batch[b].st # "open" => batch[b].items = NoItems
Uploading == \A p \in Clients : SafeUpload(req[p], txn[p], work[p])
HistoryOK == \A c \in Collections : \A x \in wrote[c] : x < uc[c]

BatchInv == /\ TypeOK /\ Shapes /\ Holding /\ Uploading
            /\ HistoryOK /\ ParentsTellTheTruth

-----------------------------------------------------------------------------
(* Types. *)
LEMMA BodiesAreColumns == Bodies \cup {NoBody} \subseteq Columns /\ NoItem \notin Columns
BY BatchBodiesAssumption, ValsAssumption DEF NoBody, NoItem, Columns

LEMMA NoItemsType == NoItems \in [Ids -> Item]
BY DEF NoItems, Item

LEMMA NoWorkType == NoWork \in Work
BY NoItemsType DEF NoWork, Work

LEMMA IdleType == Idle \in Request
<1>1. AnyCollection \in Collections
  BY CollectionsAssumption DEF AnyCollection
<1>. QED
  BY <1>1, MaxTimeAssumption DEF Idle, Request, Statuses

LEMMA UploadFields ==
  ASSUME TypeOK, NEW p \in Clients
  PROVE  /\ txn[p] \in Txn /\ req[p] \in Request /\ work[p] \in Work
         /\ now \in 1..MaxTime /\ now \in 0..MaxTime
         /\ req[p].coll \in Collections /\ req[p].coll \in CollKeys
         /\ Tombstone \in CollKeys /\ Tombstone # req[p].coll
         /\ req[p].ids \in SUBSET Ids /\ req[p].failed \in SUBSET Ids
         /\ req[p].ts \in 0..MaxTime /\ req[p].body \in Columns
         /\ work[p].adds \in [Ids -> Item] /\ work[p].exp \in Nat
         /\ work[p].removed \in SUBSET Batches
         /\ work[p].id \in Batches \cup {NewBatch}
         /\ uc[req[p].coll] \in Absent..MaxTime
<1>1. txn[p] \in Txn /\ req[p] \in Request /\ work[p] \in Work
      /\ now \in 1..MaxTime /\ uc \in [CollKeys -> Absent..MaxTime]
  BY DEF TypeOK, StoreTypeOK
<1>2. req[p].coll \in Collections /\ req[p].coll \in CollKeys
      /\ Tombstone \in CollKeys /\ Tombstone # req[p].coll
  BY <1>1, CollectionsAssumption DEF Request, CollKeys
<1>3. req[p].body \in Columns
  BY <1>1, BodiesAreColumns DEF Request
<1>. QED
  BY <1>1, <1>2, <1>3, MaxTimeAssumption DEF Request, Work

-----------------------------------------------------------------------------
(* Steps of one request that leave the tables alone. *)

\* The request keeps its batch to itself.
Unique(p, w) ==
    \A q \in Clients : q # p /\ (w.exp # 0 \/ work[q].exp # 0) => work[q].id # w.id

Good(p, r, t, w) ==
    /\ r \in Request /\ t \in Txn /\ w \in Work
    /\ Shape(r, t, w) /\ WorkShape(r, w) /\ Holds(r, w) /\ SafeUpload(r, t, w)
    /\ Unique(p, w)

(* A step of p that changes nothing but its own request, transaction and     *)
(* work keeps the invariant when these are good.                             *)
LEMMA LocalStep ==
  ASSUME BatchInv, NEW p \in Clients, NEW r, NEW t, NEW w, Good(p, r, t, w),
         req' = [req EXCEPT ![p] = r], txn' = [txn EXCEPT ![p] = t],
         work' = [work EXCEPT ![p] = w],
         UNCHANGED <<now, uc, bso, batch, wrote>>
  PROVE  BatchInv'
<1>1. \A q \in Clients :
         /\ req'[q] = IF q = p THEN r ELSE req[q]
         /\ txn'[q] = IF q = p THEN t ELSE txn[q]
         /\ work'[q] = IF q = p THEN w ELSE work[q]
  BY DEF BatchInv, TypeOK, StoreTypeOK
<1>2. TypeOK'
  BY DEF BatchInv, TypeOK, StoreTypeOK, Good
<1>3. Shapes'
  <2>1. ASSUME NEW q \in Clients
        PROVE  Shape(req'[q], txn'[q], work'[q]) /\ WorkShape(req'[q], work'[q])
    BY <1>1 DEF BatchInv, Shapes, Good
  <2>2. ASSUME NEW q \in Clients
        PROVE  (Shape(req[q], txn[q], work[q]) /\ WorkShape(req[q], work[q]))'
    BY <2>1 DEF Shape, WorkShape, Preparing, Storing
  <2>. QED
    BY <2>2 DEF Shapes
<1>4. Holding'
  <2>1. ASSUME NEW q \in Clients PROVE Holds(req'[q], work'[q])
    BY <1>1 DEF BatchInv, Holding, Good
  <2>2. ASSUME NEW q \in Clients PROVE Holds(req[q], work[q])'
    BY <2>1 DEF Holds
  <2>3. \A q1, q2 \in Clients :
            q1 # q2 /\ work'[q1].exp # 0 => work'[q2].id # work'[q1].id
    BY <1>1 DEF BatchInv, Holding, Good, Unique
  <2>. QED
    BY <2>2, <2>3 DEF Holding, BatchInv
<1>5. Uploading'
  <2>1. ASSUME NEW q \in Clients PROVE SafeUpload(req'[q], txn'[q], work'[q])
    BY <1>1, SMTT(30) DEF BatchInv, Uploading, Good
  <2>2. ASSUME NEW q \in Clients PROVE SafeUpload(req[q], txn[q], work[q])'
    <3>1. Current(req'[q], txn'[q], work'[q]) => Current(req[q], txn[q], work[q])'
      BY DEF Current
    <3>2. Prepared(req'[q], txn'[q], work'[q]) => Prepared(req[q], txn[q], work[q])'
      BY DEF Prepared, ParentTime, WritesOnly
    <3>3. BuffersItems(req'[q], txn'[q]) => BuffersItems(req[q], txn[q])'
      BY DEF BuffersItems
    <3>4. StagesBatch(req'[q], txn'[q], work'[q]) => StagesBatch(req[q], txn[q], work[q])'
      BY DEF StagesBatch
    <3>5. RemovesCollection(req'[q], txn'[q], work'[q])
          => RemovesCollection(req[q], txn[q], work[q])'
      BY DEF RemovesCollection, NoBuffered
    <3>6. AppliesItems(req'[q], txn'[q], work'[q]) => AppliesItems(req[q], txn[q], work[q])'
      BY <3>2, <3>3, Zenon DEF AppliesItems, WritesOnly, NoStaged
    <3>7. StoresBatch(req'[q], txn'[q], work'[q]) => StoresBatch(req[q], txn[q], work[q])'
      BY <3>3, <3>4, Zenon DEF StoresBatch, WritesOnly
    <3>8. Nothing(txn'[q]) => Nothing(txn[q])'
      BY Zenon DEF Nothing, Untouched, NoStaged, NoBuffered
    <3>9. Progress(req'[q], txn'[q], work'[q]) => Progress(req[q], txn[q], work[q])'
      BY <3>2, <3>5, <3>6, <3>7, <3>8, Zenon
      DEF Progress, NoStaged, NoBuffered, Looking, Preparing, Applying, Storing, Removing
    <3>. QED
      BY <2>1, <3>1, <3>9, Zenon DEF SafeUpload
  <2>. QED
    BY <2>2 DEF Uploading
<1>6. HistoryOK' /\ ParentsTellTheTruth'
  BY DEF BatchInv, HistoryOK, ParentsTellTheTruth, Present
<1>. QED
  BY <1>2, <1>3, <1>4, <1>5, <1>6 DEF BatchInv

LEMMA OwnGood ==
  ASSUME BatchInv, NEW p \in Clients
  PROVE  Good(p, req[p], txn[p], work[p])
BY UploadFields DEF BatchInv, Shapes, Holding, Uploading, Good, Unique

\* A request that holds no batch shares none.
LEMMA NoneIsUnique ==
  ASSUME BatchInv, NEW p \in Clients, NEW w, w.id = NewBatch, w.exp = 0
  PROVE  Unique(p, w)
<1>. SUFFICES ASSUME NEW q \in Clients, work[q].exp # 0 PROVE work[q].id # NewBatch
  BY DEF Unique
<1>1. WorkShape(req[q], work[q])
  BY DEF BatchInv, Shapes
<1>. QED
  BY <1>1, BatchesAssumption DEF WorkShape

(* Without a transaction nothing can be committed. *)
LEMMA ClosedIsSafe ==
  ASSUME NEW r, NEW t, NEW w, t.mode # "rw"
  PROVE  SafeUpload(r, t, w)
BY DEF SafeUpload

LEMMA ClosedGood ==
  ASSUME BatchInv, NEW p \in Clients
  PROVE  Good(p, Idle, NoTxn, NoWork)
<1>1. NoTxn.mode = "none" /\ NoWork.id = NewBatch /\ NoWork.exp = 0
      /\ NoWork.adds = NoItems /\ NoWork.removed = {}
  BY DEF NoTxn, EmptyTxn, NoWork
<1>2. Idle.pc = "idle" /\ Idle.kind = "post" /\ Idle.ids = {} /\ Idle.failed = {}
  BY DEF Idle
<1>3. SafeUpload(Idle, NoTxn, NoWork)
  BY <1>1, ClosedIsSafe
<1>4. Unique(p, NoWork)
  BY <1>1, NoneIsUnique
<1>5. Shape(Idle, NoTxn, NoWork) /\ WorkShape(Idle, NoWork) /\ Holds(Idle, NoWork)
  BY <1>1, <1>2 DEF Shape, WorkShape, Preparing, Storing, Holds
<1>. QED
  BY <1>3, <1>4, <1>5, IdleType, NoWorkType, NoTxnType DEF Good

(* A request that ends without a commit (Close). *)
LEMMA CloseStep ==
  ASSUME BatchInv, NEW p \in Clients, Close(p)
  PROVE  BatchInv'
BY ClosedGood, LocalStep DEF Close, Discard

(* A request that arrives. *)
LEMMA StartStep ==
  ASSUME BatchInv, NEW p \in Clients, Start(p)
  PROVE  BatchInv'
<1>1. PICK c \in Collections :
        \/ \E ids \in SUBSET Ids, id \in KnownIds \cup {NewBatch},
              commit \in BOOLEAN, since \in Headers :
           \E body \in IF ids = {} THEN {NoBody} ELSE Bodies :
              req' = [req EXCEPT ![p] =
                        [Idle EXCEPT !.pc = "lock", !.coll = c, !.ids = ids,
                                     !.body = body, !.id = id,
                                     !.commit = commit, !.since = since]]
        \/ req' = [req EXCEPT ![p] = [Idle EXCEPT !.pc = "lock", !.coll = c,
                                                  !.kind = "delete"]]
  BY ZenonT(60) DEF Start
<1>2. PICK r : /\ req' = [req EXCEPT ![p] = r]
               /\ r \in Request /\ r.pc = "lock" /\ r.failed = {}
               /\ r.kind = "post" /\ r.ids # {} => r.body \in Bodies
  <2>1. CASE req' = [req EXCEPT ![p] = [Idle EXCEPT !.pc = "lock", !.coll = c,
                                                    !.kind = "delete"]]
    <3>. DEFINE r == [Idle EXCEPT !.pc = "lock", !.coll = c, !.kind = "delete"]
    <3>1. r \in Request /\ r.pc = "lock" /\ r.failed = {} /\ r.kind # "post"
      BY IdleType DEF Idle, Request
    <3>. HIDE DEF r
    <3>. QED
      BY <2>1, <3>1 DEF r
  <2>2. CASE ~(req' = [req EXCEPT ![p] = [Idle EXCEPT !.pc = "lock", !.coll = c,
                                                      !.kind = "delete"]])
    <3>1. PICK ids \in SUBSET Ids, id \in KnownIds \cup {NewBatch},
               commit \in BOOLEAN, since \in Headers :
             \E body \in IF ids = {} THEN {NoBody} ELSE Bodies :
                req' = [req EXCEPT ![p] =
                          [Idle EXCEPT !.pc = "lock", !.coll = c, !.ids = ids,
                                       !.body = body, !.id = id,
                                       !.commit = commit, !.since = since]]
      BY <1>1, <2>2, Zenon
    <3>2. PICK body \in IF ids = {} THEN {NoBody} ELSE Bodies :
             req' = [req EXCEPT ![p] =
                       [Idle EXCEPT !.pc = "lock", !.coll = c, !.ids = ids,
                                    !.body = body, !.id = id,
                                    !.commit = commit, !.since = since]]
      BY <3>1, Zenon
    <3>. DEFINE r == [Idle EXCEPT !.pc = "lock", !.coll = c, !.ids = ids,
                                  !.body = body, !.id = id,
                                  !.commit = commit, !.since = since]
    <3>3. r \in Request /\ r.pc = "lock" /\ r.failed = {} /\ r.ids = ids /\ r.body = body
      BY IdleType, HeadersAssumption DEF Idle, Request, KnownIds
    <3>. HIDE DEF r
    <3>. QED
      BY <3>2, <3>3 DEF r
  <2>. QED
    BY <2>1, <2>2
<1>3. Good(p, req[p], txn[p], work[p])
  BY OwnGood
<1>4. req[p].pc = "idle" /\ UNCHANGED <<now, uc, bso, txn, batch, work, wrote>>
  BY DEF Start
<1>5. txn[p].mode = "none" /\ work[p].id = NewBatch /\ work[p].exp = 0
      /\ work[p].adds = NoItems /\ work[p].removed = {}
  BY <1>3, <1>4 DEF Good, Shape, WorkShape, Preparing, Storing
<1>6. SafeUpload(r, txn[p], work[p])
  BY <1>5, ClosedIsSafe
<1>7. Shape(r, txn[p], work[p]) /\ WorkShape(r, work[p]) /\ Holds(r, work[p])
  BY <1>2, <1>5 DEF Shape, WorkShape, Preparing, Storing, Holds
<1>8. Good(p, r, txn[p], work[p])
  BY <1>2, <1>3, <1>6, <1>7 DEF Good
<1>9. txn' = [txn EXCEPT ![p] = txn[p]] /\ work' = [work EXCEPT ![p] = work[p]]
  BY <1>4 DEF BatchInv, TypeOK, StoreTypeOK
<1>. QED
  BY <1>2, <1>4, <1>8, <1>9, LocalStep, ZenonT(60)

\* A transaction that has just begun has written nothing.
LEMMA BeganFields ==
  ASSUME NEW ks \in SUBSET CollKeys
  PROVE  LET t == Reading(BeginWrite, ks, {}) IN
         t \in Txn /\ t.mode = "rw" /\ t.reads = ks /\ Nothing(t)
<1>. DEFINE t == Reading(BeginWrite, ks, {})
<1>1. t \in Txn /\ t.mode = "rw" /\ t.reads = ks /\ t.wc = NothingWritten
      /\ t.wb = NothingStaged /\ t.mut = NothingBuffered
  <2>1. BeginWrite \in Txn
    BY NoTxnType
  <2>2. BeginWrite.mode = "rw" /\ BeginWrite.reads = {} /\ BeginWrite.wc = NothingWritten
        /\ BeginWrite.wb = NothingStaged /\ BeginWrite.mut = NothingBuffered
    BY DEF BeginWrite, EmptyTxn
  <2>3. ks \in SUBSET CollKeys /\ {} \in SUBSET (Collections \X Ids)
    OBVIOUS
  <2>4. t \in Txn
    BY <2>1, <2>3, ReadingType
  <2>. HIDE DEF t
  <2>5. /\ t.mode = BeginWrite.mode /\ t.reads = BeginWrite.reads \cup ks
        /\ t.wc = BeginWrite.wc /\ t.wb = BeginWrite.wb /\ t.mut = BeginWrite.mut
    BY <2>1, ReadingFields DEF t
  <2>. QED
    BY <2>2, <2>4, <2>5
<1>2. Nothing(t)
  <2>. HIDE DEF t
  <2>. QED
    BY <1>1 DEF Nothing, Untouched, NoStaged, NoBuffered, NothingWritten,
              NothingStaged, NothingBuffered
<1>. QED
  BY <1>1, <1>2

LEMMA LockStep ==
  ASSUME BatchInv, NEW p \in Clients, Lock(p)
  PROVE  BatchInv'
<1>. DEFINE r == AfterLock(req[p])
            t == Reading(BeginWrite, {req[p].coll}, {})
            w == work[p]
<1>1. Good(p, req[p], txn[p], w) /\ req[p].pc = "lock" /\ uc[req[p].coll] < now
      /\ req[p].coll \in CollKeys /\ now \in 1..MaxTime /\ req[p] \in Request
      /\ uc[req[p].coll] \in Absent..MaxTime /\ w \in Work
  BY OwnGood, UploadFields DEF Lock, BatchInv
<1>2. t \in Txn /\ t.mode = "rw" /\ t.reads = {req[p].coll} /\ Nothing(t)
  BY <1>1, BeganFields
<1>3. /\ r \in Request /\ r.ts = now /\ r.kind = req[p].kind /\ r.ids = req[p].ids
      /\ r.body = req[p].body /\ r.coll = req[p].coll /\ r.failed = req[p].failed
      /\ r.since = req[p].since
      /\ \/ r.pc = "commit" /\ r.status = 412
         \/ /\ r.pc = IF r.kind = "post" THEN "find" ELSE "handle"
            /\ ~Stale(req[p])
  <2>1. now \in 0..MaxTime
    BY <1>1
  <2>2. /\ r \in Request /\ r.ts = now /\ r.kind = req[p].kind
        /\ r.ids = req[p].ids /\ r.body = req[p].body /\ r.coll = req[p].coll
        /\ r.failed = req[p].failed /\ r.since = req[p].since
    <3>. DEFINE pc == IF Stale(req[p]) THEN "commit"
                      ELSE IF req[p].kind = "post" THEN "find" ELSE "handle"
                status == IF Stale(req[p]) THEN 412 ELSE 0
    <3>1. r = [req[p] EXCEPT !.ts = now, !.pc = pc, !.status = status]
      BY DEF AfterLock
    <3>2. pc \in {"commit", "find", "handle"} /\ status \in Statuses
      BY DEF Statuses
    <3>. HIDE DEF r, pc, status
    <3>. QED
      BY <1>1, <2>1, <3>1, <3>2 DEF Request
  <2>3. Stale(req[p]) => r.pc = "commit" /\ r.status = 412
    BY <1>1 DEF AfterLock, Request
  <2>4. ~Stale(req[p]) => r.pc = IF req[p].kind = "post" THEN "find" ELSE "handle"
    BY <1>1 DEF AfterLock, Request
  <2>. HIDE DEF r
  <2>. QED
    BY <2>2, <2>3, <2>4
<1>. HIDE DEF r, t
<1>4. w.id = NewBatch /\ w.exp = 0 /\ w.adds = NoItems /\ w.removed = {}
  BY <1>1 DEF Good, WorkShape, Preparing, Storing
<1>5. Shape(r, t, w)
  <2>1. r.kind \in {"post", "delete"}
    BY <1>3 DEF Request
  <2>. QED
    BY <1>1, <1>2, <1>3, <2>1 DEF Good, Shape
<1>6. WorkShape(r, w) /\ Holds(r, w)
  BY <1>3, <1>4 DEF WorkShape, Holds, Preparing, Storing
<1>7. Current(r, t, w)
  <2>1. r.since # NotSet /\ (r.pc = "commit" => r.status # 412) => uc[r.coll] <= r.since
    <3>1. r.since \in Int /\ uc[r.coll] \in Int
      <4>1. r.since \in (0..MaxTime) \cup {NotSet}
        BY <1>3 DEF Request
      <4>2. uc[r.coll] \in Absent..MaxTime
        BY <1>1, <1>3
      <4>. QED
        BY <4>1, <4>2, MaxTimeAssumption
    <3>2. CASE ~Stale(req[p])
      BY <1>3, <3>1, <3>2 DEF Stale
    <3>. QED
      BY <1>3, <3>2
  <2>2. \A i \in Ids : w.adds[i] = NoItem
    BY <1>4 DEF NoItems
  <2>. QED
    BY <1>1, <1>2, <1>3, <1>4, <2>1, <2>2 DEF Current
<1>8. Progress(r, t, w)
  BY <1>2, <1>3 DEF Progress, Looking, Preparing, Applying, Storing, Removing
<1>9. Good(p, r, t, w)
  BY <1>1, <1>2, <1>3, <1>5, <1>6, <1>7, <1>8 DEF Good, SafeUpload
<1>10. /\ req' = [req EXCEPT ![p] = r] /\ txn' = [txn EXCEPT ![p] = t]
       /\ work' = [work EXCEPT ![p] = w] /\ UNCHANGED <<now, uc, bso, batch, wrote>>
  BY DEF Lock, SetTxn, r, t, BatchInv, TypeOK
<1>. QED
  BY <1>9, <1>10, LocalStep

LEMMA LiveIsSafe ==
  ASSUME BatchInv, NEW p \in Clients, Live(p)
  PROVE  /\ txn[p].mode = "rw"
         /\ Current(req[p], txn[p], work[p]) /\ Progress(req[p], txn[p], work[p])
BY DEF BatchInv, Uploading, SafeUpload, Live

(* A request that finds its batch open (validate). *)
LEMMA ValidateStep ==
  ASSUME BatchInv, NEW p \in Clients, ValidateBatch(p)
  PROVE  BatchInv'
<1>. DEFINE r0 == req[p]
            t == txn[p]
            w0 == work[p]
            b == req[p].id
            r == [req[p] EXCEPT !.pc = "items"]
            w == [work[p] EXCEPT !.id = b]
<1>. SUFFICES ASSUME Valid(b, r0.coll) PROVE BatchInv'
  BY CloseStep DEF ValidateBatch
<1>1. /\ Good(p, r0, t, w0) /\ r0.pc = "find" /\ r0 \in Request /\ w0 \in Work
      /\ Current(r0, t, w0) /\ Progress(r0, t, w0) /\ t.mode = "rw"
  BY OwnGood, UploadFields, LiveIsSafe DEF ValidateBatch, BatchInv
<1>2. b \in Batches /\ batch[b].st = "open" /\ batch[b].coll = r0.coll
  BY <1>1 DEF ValidateBatch, Request, Valid
<1>3. /\ r \in Request /\ r.pc = "items" /\ r.kind = r0.kind /\ r.coll = r0.coll
      /\ r.ids = r0.ids /\ r.body = r0.body /\ r.failed = r0.failed
      /\ r.since = r0.since /\ r.ts = r0.ts /\ r.commit = r0.commit
  BY <1>1 DEF Request
<1>4. /\ w \in Work /\ w.id = b /\ w.exp = w0.exp /\ w.adds = w0.adds
      /\ w.removed = w0.removed /\ w.dead = w0.dead
  BY <1>1, <1>2 DEF Work
<1>5. /\ req' = [req EXCEPT ![p] = r] /\ txn' = [txn EXCEPT ![p] = t]
      /\ work' = [work EXCEPT ![p] = w] /\ UNCHANGED <<now, uc, bso, batch, wrote>>
  <2>1. txn \in [Clients -> Txn]
    BY DEF BatchInv, TypeOK, StoreTypeOK
  <2>. QED
    BY <2>1 DEF ValidateBatch, Valid
<1>6. w0.exp = 0 /\ w0.adds = NoItems /\ w0.removed = {} /\ r0.kind = "post"
  BY <1>1 DEF Good, Shape, WorkShape, Preparing, Storing
<1>. HIDE DEF r, w, b, r0, t, w0
<1>7. Shape(r, t, w) /\ WorkShape(r, w) /\ Holds(r, w)
  BY <1>1, <1>2, <1>3, <1>4, <1>6
  DEF Good, Shape, WorkShape, Holds, Preparing, Storing
<1>8. Unique(p, w)
  <2>. SUFFICES ASSUME NEW q \in Clients, work[q].exp # 0 PROVE work[q].id # b
    BY <1>4, <1>6 DEF Unique
  <2>1. WorkShape(req[q], work[q]) /\ Holds(req[q], work[q])
    BY DEF BatchInv, Shapes, Holding
  <2>. QED
    BY <1>2, <2>1, BatchesAssumption DEF WorkShape, Holds
<1>9. Current(r, t, w)
  <2>1. \A i \in Ids : w.adds[i] = NoItem
    BY <1>4, <1>6 DEF NoItems
  <2>. QED
    BY <1>1, <1>2, <1>3, <1>4, <2>1 DEF Current
<1>10. Progress(r, t, w)
  <2>1. Nothing(t)
    BY <1>1 DEF Progress, Looking
  <2>2. Prepared(r, t, w)
    BY <1>4, <1>6, <2>1 DEF Prepared, ParentTime, WritesOnly, Nothing, Untouched
  <2>. QED
    BY <1>3, <2>1, <2>2
    DEF Progress, Nothing, Looking, Preparing, Applying, Storing, Removing
<1>11. Good(p, r, t, w)
  BY <1>1, <1>3, <1>4, <1>7, <1>8, <1>9, <1>10 DEF Good, SafeUpload
<1>. QED
  BY <1>5, <1>11, LocalStep

\* The parent of a new batch, where the collection has no row.
LEMMA PretouchedFields ==
  ASSUME TypeOK, NEW t \in Txn, NEW c \in Collections, Untouched(t)
  PROVE  LET u == Pretouched(t, c) IN
         /\ u \in Txn /\ u.mode = t.mode /\ u.reads = t.reads \cup {c}
         /\ u.rows = t.rows /\ u.wb = t.wb /\ u.mut = t.mut
         /\ WritesOnly(u, c, IF uc[c] = Absent THEN PRETOUCH ELSE NotSet)
<1>. DEFINE v == Reading(t, {c}, {})
            x == IF uc[c] = Absent THEN PRETOUCH ELSE NotSet
            u == [v EXCEPT !.wc = [v.wc EXCEPT ![c] = x]]
<1>1. c \in CollKeys /\ {c} \in SUBSET CollKeys /\ {} \in SUBSET (Collections \X Ids)
  BY DEF CollKeys
<1>2. v \in Txn
  BY <1>1, ReadingType
<1>3. /\ v.mode = t.mode /\ v.reads = t.reads \cup {c} /\ v.rows = t.rows
      /\ v.wc = t.wc /\ v.wb = t.wb /\ v.mut = t.mut
  BY DEF Reading, Txn
<1>4. Pretouched(t, c) = u
  <2>1. t.wc[c] = NotSet
    BY <1>1 DEF Untouched
  <2>2. (IF CollView(t, c) = Absent THEN PRETOUCH ELSE v.wc[c]) = x
    BY <1>3, <2>1 DEF CollView
  <2>. HIDE DEF v, x
  <2>. QED
    BY <2>2 DEF Pretouched, v
<1>5. x \in NotSet..MaxTime
  BY MaxTimeAssumption
<1>. HIDE DEF v, x
<1>6. /\ u \in Txn /\ u.mode = v.mode /\ u.reads = v.reads
      /\ u.rows = v.rows /\ u.wb = v.wb /\ u.mut = v.mut
      /\ u.wc = [v.wc EXCEPT ![c] = x]
  BY <1>1, <1>2, <1>5 DEF Txn
<1>. HIDE DEF u
<1>7. WritesOnly(u, c, x)
  <2>1. v.wc \in [CollKeys -> NotSet..MaxTime]
    BY <1>2 DEF Txn
  <2>. QED
    BY <1>3, <1>6, <2>1 DEF WritesOnly, Untouched
<1>. QED
  BY <1>3, <1>4, <1>6, <1>7 DEF x

(* A request that opens a batch (create). *)
LEMMA CreateStep ==
  ASSUME BatchInv, NEW p \in Clients, CreateBatch(p)
  PROVE  BatchInv'
<1>1. PICK b \in Batches \ KnownIds :
         /\ \A q \in Clients : work[q].id # b
         /\ work' = [work EXCEPT ![p].id = b, ![p].exp = req[p].ts + Lifetime]
  BY Zenon DEF CreateBatch
<1>. DEFINE r0 == req[p]
            t0 == txn[p]
            w0 == work[p]
            t == Pretouched(t0, r0.coll)
            r == [req[p] EXCEPT !.pc = "items"]
            w == [work[p] EXCEPT !.id = b, !.exp = r0.ts + Lifetime]
<1>2. /\ Good(p, r0, t0, w0) /\ r0.pc = "find" /\ r0 \in Request /\ w0 \in Work
      /\ Current(r0, t0, w0) /\ Progress(r0, t0, w0) /\ t0.mode = "rw"
      /\ t0 \in Txn /\ r0.coll \in Collections /\ r0.ts \in 0..MaxTime
  BY OwnGood, UploadFields, LiveIsSafe DEF CreateBatch, BatchInv
<1>3. b \in Batches /\ batch[b].st = "fresh" /\ batch[b].items = NoItems
  BY DEF KnownIds, BatchInv, Holding
<1>4. /\ r \in Request /\ r.pc = "items" /\ r.kind = r0.kind /\ r.coll = r0.coll
      /\ r.ids = r0.ids /\ r.body = r0.body /\ r.failed = r0.failed
      /\ r.since = r0.since /\ r.ts = r0.ts /\ r.commit = r0.commit
  BY <1>2 DEF Request
<1>5. r0.ts + Lifetime \in Nat /\ r0.ts + Lifetime # 0
  BY <1>2, MaxTimeAssumption, LifetimeAssumption
<1>6. /\ w \in Work /\ w.id = b /\ w.exp = r0.ts + Lifetime /\ w.adds = w0.adds
      /\ w.removed = w0.removed /\ w.dead = w0.dead
  BY <1>2, <1>3, <1>5 DEF Work
<1>7. Nothing(t0)
  BY <1>2 DEF Progress, Looking
<1>8. /\ t \in Txn /\ t.mode = t0.mode /\ t.reads = t0.reads \cup {r0.coll}
      /\ t.wb = t0.wb /\ t.mut = t0.mut
      /\ WritesOnly(t, r0.coll, IF uc[r0.coll] = Absent THEN PRETOUCH ELSE NotSet)
  BY <1>2, <1>7, PretouchedFields DEF BatchInv, Nothing
<1>9. /\ req' = [req EXCEPT ![p] = r] /\ txn' = [txn EXCEPT ![p] = t]
      /\ work' = [work EXCEPT ![p] = w] /\ UNCHANGED <<now, uc, bso, batch, wrote>>
  <2>1. work' = [work EXCEPT ![p] = w]
    BY <1>1
  <2>. QED
    BY <2>1 DEF CreateBatch, SetTxn
<1>10. w0.adds = NoItems /\ w0.removed = {} /\ r0.kind = "post"
  BY <1>2 DEF Good, Shape, WorkShape, Preparing, Storing
<1>. HIDE DEF r, w, t, r0, t0, w0
<1>11. Shape(r, t, w) /\ WorkShape(r, w) /\ Holds(r, w)
  BY <1>2, <1>3, <1>4, <1>5, <1>6, <1>8, <1>10
  DEF Good, Shape, WorkShape, Holds, Preparing, Storing
<1>12. Unique(p, w)
  BY <1>1, <1>6 DEF Unique
<1>13. Current(r, t, w)
  <2>1. \A i \in Ids : w.adds[i] = NoItem
    BY <1>6, <1>10 DEF NoItems
  <2>2. r.coll \in t.reads /\ uc[r.coll] < r.ts /\ w.exp # 0
        /\ (r.since # NotSet => uc[r.coll] <= r.since)
    BY <1>2, <1>4, <1>5, <1>6, <1>8 DEF Current
  <2>. QED
    BY <2>1, <2>2 DEF Current
<1>14. Progress(r, t, w)
  <2>1. NoStaged(t) /\ NoBuffered(t)
    BY <1>7, <1>8 DEF Nothing, NoStaged, NoBuffered
  <2>2. Prepared(r, t, w)
    BY <1>4, <1>5, <1>6, <1>8 DEF Prepared, ParentTime
  <2>. QED
    BY <1>4, <2>1, <2>2
    DEF Progress, Looking, Preparing, Applying, Storing, Removing
<1>15. Good(p, r, t, w)
  BY <1>4, <1>6, <1>8, <1>11, <1>12, <1>13, <1>14 DEF Good, SafeUpload
<1>. QED
  BY <1>9, <1>15, LocalStep

-----------------------------------------------------------------------------
(* The items of a request. *)

\* The request after its items were received, but for those that failed.
Answering(r, failed) ==
    [r EXCEPT !.failed = failed,
              !.pc = IF r.commit THEN "apply" ELSE "commit",
              !.status = IF r.commit THEN 0 ELSE 202]

AnswersTo(r, r0, failed) ==
    /\ r \in Request /\ r.kind = r0.kind /\ r.coll = r0.coll /\ r.ids = r0.ids
    /\ r.body = r0.body /\ r.failed = failed /\ r.since = r0.since
    /\ r.ts = r0.ts /\ r.commit = r0.commit
    /\ \/ r0.commit /\ r.pc = "apply"
       \/ ~r0.commit /\ r.pc = "commit" /\ r.status = 202

LEMMA AnsweringFields ==
  ASSUME NEW r0 \in Request, NEW failed \in SUBSET Ids
  PROVE  AnswersTo(Answering(r0, failed), r0, failed)
<1>. DEFINE pc == IF r0.commit THEN "apply" ELSE "commit"
            status == IF r0.commit THEN 0 ELSE 202
            r == [r0 EXCEPT !.failed = failed, !.pc = pc, !.status = status]
<1>1. r = Answering(r0, failed)
  BY DEF Answering
<1>2. pc \in {"apply", "commit"} /\ status \in Statuses
  BY DEF Statuses
<1>3. r0.commit \in BOOLEAN
  BY DEF Request
<1>4. r0.commit => pc = "apply"
  OBVIOUS
<1>5. ~r0.commit => pc = "commit" /\ status = 202
  OBVIOUS
<1>. HIDE DEF pc, status
<1>6. /\ r \in Request /\ r.kind = r0.kind /\ r.coll = r0.coll /\ r.ids = r0.ids
      /\ r.body = r0.body /\ r.failed = failed /\ r.since = r0.since
      /\ r.ts = r0.ts /\ r.commit = r0.commit /\ r.pc = pc /\ r.status = status
  BY <1>2 DEF Request
<1>. HIDE DEF r
<1>. QED
  BY <1>1, <1>4, <1>5, <1>6 DEF AnswersTo

LEMMA ReceivedIsAnswering ==
  ASSUME TypeOK, NEW p \in Clients, NEW failed, Received(p, failed)
  PROVE  req' = [req EXCEPT ![p] = Answering(req[p], failed)]
BY DEF Received, Answering, TypeOK

(* Items that go to the batch, or fail to (append). *)
LEMMA AppendedStep ==
  ASSUME BatchInv, NEW p \in Clients, NEW failed \in SUBSET Ids, NEW w \in Work,
         req[p].pc = "items", Live(p), AppendHere(p), failed \subseteq req[p].ids,
         w.id = work[p].id, w.exp = work[p].exp, w.removed = work[p].removed,
         w.dead = work[p].dead,
         \A i \in Ids : /\ w.adds[i] = IF i \in req[p].ids \ failed
                                       THEN req[p].body ELSE NoItem
                        /\ i \in req[p].ids \ failed
                           => batch[work[p].id].items[i] = NoItem,
         Received(p, failed), work' = [work EXCEPT ![p] = w],
         UNCHANGED <<now, uc, bso, txn, batch, wrote>>
  PROVE  BatchInv'
<1>. DEFINE r0 == req[p]
            t == txn[p]
            w0 == work[p]
            r == Answering(r0, failed)
<1>1. /\ Good(p, r0, t, w0) /\ r0 \in Request /\ w0 \in Work /\ t \in Txn
      /\ Current(r0, t, w0) /\ Progress(r0, t, w0) /\ t.mode = "rw"
      /\ r0.pc = "items"
  BY OwnGood, UploadFields, LiveIsSafe DEF BatchInv
<1>2. /\ r \in Request /\ r.kind = r0.kind /\ r.coll = r0.coll /\ r.ids = r0.ids
      /\ r.body = r0.body /\ r.failed = failed /\ r.since = r0.since
      /\ r.ts = r0.ts /\ r.commit = r0.commit
      /\ \/ r0.commit /\ r.pc = "apply"
         \/ ~r0.commit /\ r.pc = "commit" /\ r.status = 202
  <2>1. AnswersTo(r, r0, failed)
    BY <1>1, AnsweringFields
  <2>. HIDE DEF r
  <2>. QED
    BY <2>1 DEF AnswersTo
<1>3. /\ req' = [req EXCEPT ![p] = r] /\ txn' = [txn EXCEPT ![p] = t]
      /\ work' = [work EXCEPT ![p] = w] /\ UNCHANGED <<now, uc, bso, batch, wrote>>
  <2>1. req' = [req EXCEPT ![p] = r]
    BY ReceivedIsAnswering DEF BatchInv
  <2>2. txn \in [Clients -> Txn]
    BY DEF BatchInv, TypeOK, StoreTypeOK
  <2>. QED
    BY <2>1, <2>2
<1>4. w0.id \in Batches /\ w0.removed = {} /\ r0.kind = "post"
  BY <1>1 DEF Good, Shape, WorkShape
<1>5. r0.commit => r0.ids = {}
  BY DEF AppendHere
<1>6. r0.commit => w.adds = NoItems
  <2>1. w.adds \in [Ids -> Item]
    BY DEF Work
  <2>. QED
    BY <1>5, <2>1 DEF NoItems
<1>7. Prepared(r0, t, w0) /\ NoStaged(t) /\ NoBuffered(t)
  BY <1>1 DEF Progress, Preparing
<1>. HIDE DEF r, r0, t, w0
<1>8. Shape(r, t, w)
  BY <1>1, <1>2, <1>4 DEF Good, Shape, r0
<1>9. WorkShape(r, w)
  <2>1. w.exp # 0 => w.exp = r.ts + Lifetime /\ w.exp \in Nat
    BY <1>1, <1>2 DEF Good, WorkShape, w0
  <2>2. w.id \in Batches /\ w.removed = {}
    BY <1>4 DEF w0
  <2>3. IF r.pc = "commit" /\ r.status = 202
        THEN \A i \in Ids : w.adds[i] = IF i \in r.ids \ r.failed THEN r.body ELSE NoItem
        ELSE w.adds = NoItems
    BY <1>2, <1>6 DEF r0
  <2>. QED
    BY <1>2, <2>1, <2>2, <2>3 DEF WorkShape, Preparing, Storing
<1>10. Holds(r, w)
  BY <1>1, <1>2, <1>4 DEF Good, Holds, w0
<1>11. Unique(p, w)
  BY <1>1 DEF Good, Unique, w0
<1>12. Current(r, t, w)
  <2>1. \A i \in Ids : w.adds[i] # NoItem => batch[w.id].items[i] = NoItem
    OBVIOUS
  <2>. QED
    BY <1>1, <1>2, <2>1 DEF Current, w0
<1>13. Prepared(r, t, w)
  BY <1>2, <1>7 DEF Prepared, ParentTime, w0
<1>14. Progress(r, t, w)
  <2>1. CASE r.pc = "apply"
    <3>1. r.ids = {} /\ r0.commit
      BY <1>2, <1>5, <2>1
    <3>2. AppliesItems(r, t, w)
      BY <1>7, <1>13, <3>1 DEF AppliesItems, BuffersItems, NoBuffered
    <3>. QED
      BY <2>1, <3>2
      DEF Progress, Looking, Preparing, Applying, Storing, Removing
  <2>2. CASE r.pc = "commit" /\ r.status = 202
    BY <1>7, <1>13, <2>2
    DEF Progress, Looking, Preparing, Applying, Storing, Removing
  <2>. QED
    BY <1>2, <2>1, <2>2
<1>15. Good(p, r, t, w)
  BY <1>1, <1>2, <1>8, <1>9, <1>10, <1>11, <1>12, <1>14 DEF Good, SafeUpload
<1>. QED
  BY <1>3, <1>15, LocalStep

LEMMA AppendStep ==
  ASSUME BatchInv, NEW p \in Clients, AppendToBatch(p)
  PROVE  BatchInv'
<1>. DEFINE w == [work[p] EXCEPT !.adds =
                    [i \in Ids |-> IF i \in req[p].ids THEN req[p].body ELSE @[i]]]
<1>1. /\ work[p] \in Work /\ work[p].adds \in [Ids -> Item] /\ req[p] \in Request
      /\ {} \in SUBSET Ids /\ {} \subseteq req[p].ids
      /\ WorkShape(req[p], work[p]) /\ req[p].pc = "items" /\ work[p].adds = NoItems
  <2>1. WorkShape(req[p], work[p]) /\ req[p].pc = "items"
    BY DEF BatchInv, Shapes, AppendToBatch
  <2>. QED
    BY <2>1, UploadFields DEF BatchInv, WorkShape
<1>2. [i \in Ids |-> IF i \in req[p].ids THEN req[p].body ELSE work[p].adds[i]]
        \in [Ids -> Item]
  BY <1>1 DEF Item, Request
<1>3. /\ w \in Work /\ w.id = work[p].id /\ w.exp = work[p].exp
      /\ w.removed = work[p].removed /\ w.dead = work[p].dead
      /\ w.adds = [i \in Ids |-> IF i \in req[p].ids THEN req[p].body
                                 ELSE work[p].adds[i]]
  BY <1>1, <1>2 DEF Work
<1>4. work' = [work EXCEPT ![p] = w]
  BY DEF AppendToBatch
<1>. HIDE DEF w
<1>5. ASSUME NEW i \in Ids
      PROVE  /\ w.adds[i] = IF i \in req[p].ids \ {} THEN req[p].body ELSE NoItem
             /\ i \in req[p].ids \ {} => batch[work[p].id].items[i] = NoItem
  BY <1>1, <1>3, ZenonT(60) DEF AppendToBatch, Appendable, ItemsSeen, NoItems
<1>. QED
  BY <1>1, <1>3, <1>4, <1>5, AppendedStep DEF AppendToBatch

LEMMA AppendFailsStep ==
  ASSUME BatchInv, NEW p \in Clients, AppendFails(p)
  PROVE  BatchInv'
<1>1. /\ work[p] \in Work /\ req[p].ids \in SUBSET Ids
      /\ req[p].pc = "items" /\ work[p].adds = NoItems
  <2>1. WorkShape(req[p], work[p]) /\ req[p].pc = "items"
    BY DEF BatchInv, Shapes, AppendFails
  <2>. QED
    BY <2>1, UploadFields DEF BatchInv, WorkShape
<1>2. work' = [work EXCEPT ![p] = work[p]]
  BY DEF AppendFails, BatchInv, TypeOK
<1>3. \A i \in Ids : /\ work[p].adds[i] = IF i \in req[p].ids \ req[p].ids
                                          THEN req[p].body ELSE NoItem
                     /\ i \in req[p].ids \ req[p].ids
                        => batch[work[p].id].items[i] = NoItem
  BY <1>1 DEF NoItems
<1>. QED
  BY <1>1, <1>2, <1>3, AppendedStep DEF AppendFails

(* The items of a committing request, written to bsos at once (post_bsos).   *)
LEMMA PostStep ==
  ASSUME BatchInv, NEW p \in Clients, PostBsos(p) \/ PostBsosFails(p)
  PROVE  BatchInv'
<1>. DEFINE r0 == req[p]
            t0 == txn[p]
            w == work[p]
            c == req[p].coll
            u == Touched(t0, c, r0.ts)
            v == Reading(u, {}, {c} \X r0.ids)
<1>1. /\ Good(p, r0, t0, w) /\ r0 \in Request /\ w \in Work /\ t0 \in Txn
      /\ Current(r0, t0, w) /\ Progress(r0, t0, w) /\ t0.mode = "rw"
      /\ r0.pc = "items" /\ r0.commit /\ r0.ids # {}
      /\ c \in Collections /\ c \in CollKeys /\ r0.ids \in SUBSET Ids /\ r0.ts \in 0..MaxTime
      /\ r0.body \in Columns /\ now \in 1..MaxTime
  BY OwnGood, UploadFields, LiveIsSafe DEF BatchInv, PostBsos, PostBsosFails, AppendHere
<1>2. /\ w.id \in Batches /\ w.removed = {} /\ w.adds = NoItems /\ r0.kind = "post"
      /\ r0.ts \in 1..MaxTime
  <2>1. r0.ts \in 1..now
    BY <1>1 DEF Good, Shape
  <2>. QED
    BY <1>1, <2>1, MaxTimeAssumption DEF Good, Shape, WorkShape
<1>3. NoStaged(t0) /\ NoBuffered(t0) /\ Prepared(r0, t0, w)
  BY <1>1 DEF Progress, Preparing
<1>4. /\ u \in Txn /\ u.mode = t0.mode /\ u.reads = t0.reads \cup {c}
      /\ u.rows = t0.rows /\ u.wc = [t0.wc EXCEPT ![c] = r0.ts]
      /\ u.wb = t0.wb /\ u.mut = t0.mut
  BY <1>1, TouchedType
<1>. HIDE DEF u
<1>5. /\ v \in Txn /\ v.mode = u.mode /\ v.reads = u.reads \cup {}
      /\ v.rows = u.rows \cup ({c} \X r0.ids)
      /\ v.wc = u.wc /\ v.wb = u.wb /\ v.mut = u.mut
  <2>1. {} \in SUBSET CollKeys /\ {c} \X r0.ids \in SUBSET (Collections \X Ids)
    BY <1>1
  <2>2. v \in Txn
    BY <1>4, <2>1, ReadingType
  <2>3. /\ v.mode = u.mode /\ v.reads = u.reads \cup {}
        /\ v.rows = u.rows \cup ({c} \X r0.ids)
        /\ v.wc = u.wc /\ v.wb = u.wb /\ v.mut = u.mut
    BY <1>4 DEF Reading, Txn
  <2>. QED
    BY <2>2, <2>3
<1>. HIDE DEF v
<1>6. PICK failed \in SUBSET Ids, t \in Txn :
         /\ Received(p, failed) /\ SetTxn(p, t) /\ failed \subseteq r0.ids
         /\ t.mode = v.mode /\ t.reads = v.reads /\ t.rows = v.rows
         /\ t.wc = v.wc /\ t.wb = v.wb
         /\ \A d \in Collections, i \in Ids :
               t.mut[d][i] = IF d = c /\ i \in r0.ids \ failed
                             THEN IF Present(bso[d][i]) THEN UpdateRow(r0.body, r0.ts)
                                  ELSE InsertRow(r0.body, r0.ts)
                             ELSE NoMutation
  <2>0. v.wb = t0.wb /\ v.mut = t0.mut
    BY <1>4, <1>5
  <2>1. CASE PostBsos(p)
    <3>. DEFINE t == Buffering(v, c, r0.ids, r0.body, r0.ts)
    <3>1. /\ t \in Txn
          /\ \A d \in Collections, i \in Ids :
                t.mut[d][i] = IF d # c \/ i \notin r0.ids THEN v.mut[d][i]
                              ELSE IF Present(BsoView(v, c, i))
                              THEN UpdateRow(r0.body, r0.ts)
                              ELSE InsertRow(r0.body, r0.ts)
      <4>. HIDE DEF r0, c, t0, w
      <4>. QED
        BY <1>1, <1>2, <1>5, BufferingType, SMTT(30)
    <3>2. /\ t.mode = v.mode /\ t.reads = v.reads /\ t.rows = v.rows
          /\ t.wc = v.wc /\ t.wb = v.wb
      BY <1>5, BufferingKeeps
    <3>3. \A i \in Ids : BsoView(v, c, i) = bso[c][i]
      BY <1>1, <1>3, <2>0 DEF BsoView, NoStaged, NotStaged
    <3>4. Received(p, {}) /\ SetTxn(p, t)
      BY <2>1 DEF PostBsos, u, v
    <3>. HIDE DEF t
    <3>5. \A d \in Collections, i \in Ids :
             t.mut[d][i] = IF d = c /\ i \in r0.ids \ {}
                           THEN IF Present(bso[d][i]) THEN UpdateRow(r0.body, r0.ts)
                                ELSE InsertRow(r0.body, r0.ts)
                           ELSE NoMutation
      BY <1>3, <2>0, <3>1, <3>3 DEF NoBuffered
    <3>6. {} \in SUBSET Ids /\ {} \subseteq r0.ids
      OBVIOUS
    <3>. QED
      BY <3>1, <3>2, <3>4, <3>5, <3>6
  <2>2. CASE PostBsosFails(p)
    <3>1. Received(p, r0.ids) /\ SetTxn(p, v)
      BY <2>2 DEF PostBsosFails, u, v
    <3>2. \A d \in Collections, i \in Ids :
             v.mut[d][i] = IF d = c /\ i \in r0.ids \ r0.ids
                           THEN IF Present(bso[d][i]) THEN UpdateRow(r0.body, r0.ts)
                                ELSE InsertRow(r0.body, r0.ts)
                           ELSE NoMutation
      BY <1>3, <2>0 DEF NoBuffered
    <3>. QED
      BY <1>1, <1>5, <3>1, <3>2
  <2>. QED
    BY <2>1, <2>2
<1>. DEFINE r == Answering(r0, failed)
<1>7. /\ r \in Request /\ r.kind = r0.kind /\ r.coll = r0.coll /\ r.ids = r0.ids
      /\ r.body = r0.body /\ r.failed = failed /\ r.since = r0.since
      /\ r.ts = r0.ts /\ r.commit = r0.commit /\ r.pc = "apply"
  <2>1. r0 \in Request /\ failed \in SUBSET Ids /\ r0.commit
    BY <1>1
  <2>. HIDE DEF r0
  <2>2. AnswersTo(r, r0, failed)
    BY <2>1, AnsweringFields
  <2>. HIDE DEF r
  <2>. QED
    BY <2>1, <2>2 DEF AnswersTo
<1>8. /\ req' = [req EXCEPT ![p] = r] /\ txn' = [txn EXCEPT ![p] = t]
      /\ work' = [work EXCEPT ![p] = w] /\ UNCHANGED <<now, uc, bso, batch, wrote>>
  <2>1. req' = [req EXCEPT ![p] = r]
    BY <1>6, ReceivedIsAnswering DEF BatchInv
  <2>2. work' = [work EXCEPT ![p] = w]
    BY DEF BatchInv, TypeOK, PostBsos, PostBsosFails
  <2>. QED
    BY <1>6, <2>1, <2>2 DEF SetTxn
<1>. HIDE DEF r, r0, t0, w
<1>9. Shape(r, t, w)
  BY <1>1, <1>2, <1>4, <1>5, <1>6, <1>7 DEF Good, Shape
<1>10. WorkShape(r, w) /\ Holds(r, w)
  BY <1>1, <1>2, <1>7 DEF Good, WorkShape, Holds, Preparing, Storing
<1>11. Current(r, t, w)
  <2>1. \A i \in Ids : w.adds[i] = NoItem
    BY <1>2 DEF NoItems
  <2>. QED
    BY <1>1, <1>4, <1>5, <1>6, <1>7, <2>1 DEF Current
<1>12. AppliesItems(r, t, w)
  <2>1. t0.wc \in [CollKeys -> NotSet..MaxTime]
    BY <1>1 DEF Txn
  <2>2. WritesOnly(t, c, r.ts)
    <3>1. \A k \in CollKeys : k # c => t0.wc[k] = NotSet
      BY <1>3 DEF Prepared, WritesOnly, r0
    <3>. QED
      BY <1>1, <1>4, <1>5, <1>6, <1>7, <2>1, <3>1 DEF WritesOnly
  <2>3. NoStaged(t)
    BY <1>3, <1>4, <1>5, <1>6 DEF NoStaged
  <2>4. BuffersItems(r, t)
    BY <1>6, <1>7 DEF BuffersItems, r0
  <2>. QED
    BY <1>1, <1>4, <1>5, <1>6, <1>7, <2>2, <2>3, <2>4 DEF AppliesItems, r0
<1>13. Progress(r, t, w)
  BY <1>7, <1>12 DEF Progress, Looking, Preparing, Applying, Storing, Removing
<1>14. Good(p, r, t, w)
  BY <1>1, <1>4, <1>5, <1>6, <1>7, <1>9, <1>10, <1>11, <1>13 DEF Good, SafeUpload
<1>. QED
  BY <1>8, <1>14, LocalStep

-----------------------------------------------------------------------------
(* The commit of a batch. *)

(* An item makes a row, of an existing BSO or of none (batch_commit_update,  *)
(* batch_commit_insert).                                                     *)
LEMMA ByItemType ==
  ASSUME NEW row \in Row \cup {NoRow}, NEW item \in Item, item # NoItem,
         NEW ts \in 1..MaxTime
  PROVE  ByItem(row, item, ts) \in Row /\ ByItem(row, item, ts).mod = ts
<1>1. item \in Columns
  BY BodiesAreColumns DEF Item
<1>2. item.val \in Vals \cup {NotSet} /\ item.ttl \in Nat \cup {NotSet}
  BY <1>1 DEF Columns
<1>3. CASE Present(row)
  <2>1. row \in Row
    BY <1>3 DEF Present, NoRow
  <2>2. UpdatedByItem(row, item, ts) \in Row /\ UpdatedByItem(row, item, ts).mod = ts
    BY <1>2, <2>1, MaxTimeAssumption DEF UpdatedByItem, Row
  <2>. QED
    BY <1>3, <2>2 DEF ByItem
<1>4. CASE ~Present(row)
  <2>1. Expiry(ts, item.ttl) \in Nat
    BY <1>2, MaxTimeAssumption DEF Expiry, DefaultTtl
  <2>2. InsertedByItem(item, ts) \in Row /\ InsertedByItem(item, ts).mod = ts
    BY <1>2, <2>1, ValsAssumption DEF InsertedByItem, Row
  <2>. QED
    BY <1>4, <2>2 DEF ByItem
<1>. QED
  BY <1>3, <1>4

AppliedTo(u, t, c, items, ts) ==
    /\ u \in Txn /\ u.mode = t.mode /\ u.reads = t.reads \cup {c}
    /\ u.rows = t.rows \cup ({c} \X Ids)
    /\ u.wc = [t.wc EXCEPT ![c] = ts] /\ u.mut = t.mut
    /\ \A d \in Collections, i \in Ids :
          u.wb[d][i] = IF d = c /\ items[i] # NoItem
                       THEN ByItem(bso[d][i], items[i], ts) ELSE NotStaged

LEMMA AppliedFields ==
  ASSUME TypeOK, NEW t \in Txn, NEW c \in Collections, NEW items \in [Ids -> Item],
         NEW ts \in 1..MaxTime, NoStaged(t)
  PROVE  AppliedTo(Applied(t, c, items, ts), t, c, items, ts)
<1>. DEFINE v == Reading(t, {}, {c} \X Ids)
            w == Touched(v, c, ts)
            f == [i \in Ids |-> IF items[i] = NoItem THEN w.wb[c][i]
                                ELSE IF Present(BsoView(t, c, i))
                                THEN UpdatedByItem(BsoView(t, c, i), items[i], ts)
                                ELSE InsertedByItem(items[i], ts)]
            u == [w EXCEPT !.wb = [w.wb EXCEPT ![c] = f]]
<1>1. Applied(t, c, items, ts) = u
  BY DEF Applied
<1>2. /\ v \in Txn /\ v.mode = t.mode /\ v.reads = t.reads \cup {}
      /\ v.rows = t.rows \cup ({c} \X Ids)
      /\ v.wc = t.wc /\ v.wb = t.wb /\ v.mut = t.mut
  <2>1. {} \in SUBSET CollKeys /\ {c} \X Ids \in SUBSET (Collections \X Ids)
    OBVIOUS
  <2>2. v \in Txn
    BY <2>1, ReadingType
  <2>. QED
    BY <2>2 DEF Reading, Txn
<1>3. ts \in 0..MaxTime
  OBVIOUS
<1>. HIDE DEF v
<1>4. /\ w \in Txn /\ w.mode = v.mode /\ w.reads = v.reads \cup {c}
      /\ w.rows = v.rows /\ w.wc = [v.wc EXCEPT ![c] = ts]
      /\ w.wb = v.wb /\ w.mut = v.mut
  BY <1>2, <1>3, TouchedType
<1>. HIDE DEF w
<1>5. \A i \in Ids : BsoView(t, c, i) = bso[c][i] /\ t.wb[c][i] = NotStaged
                     /\ bso[c][i] \in Row \cup {NoRow}
  BY DEF BsoView, NoStaged, NotStaged, TypeOK, StoreTypeOK
<1>6. \A i \in Ids : f[i] = IF items[i] # NoItem
                            THEN ByItem(bso[c][i], items[i], ts) ELSE NotStaged
  BY <1>2, <1>4, <1>5 DEF ByItem
<1>7. f \in [Ids -> Row \cup {NoRow, NotStaged}]
  <2>1. ASSUME NEW i \in Ids PROVE f[i] \in Row \cup {NoRow, NotStaged}
    <3>1. CASE items[i] = NoItem
      BY <1>6, <3>1
    <3>2. CASE items[i] # NoItem
      <4>1. items[i] \in Item
        OBVIOUS
      <4>2. ByItem(bso[c][i], items[i], ts) \in Row
        BY <1>5, <3>2, <4>1, ByItemType
      <4>. QED
        BY <1>6, <3>2, <4>2
    <3>. QED
      BY <3>1, <3>2
  <2>2. f = [i \in Ids |-> f[i]]
    OBVIOUS
  <2>. HIDE DEF f
  <2>. QED
    BY <2>1, <2>2
<1>. HIDE DEF f
<1>8. w.wb \in [Collections -> [Ids -> Row \cup {NoRow, NotStaged}]]
  BY <1>4 DEF Txn
<1>9. [w.wb EXCEPT ![c] = f] \in [Collections -> [Ids -> Row \cup {NoRow, NotStaged}]]
  BY <1>7, <1>8
<1>10. \A d \in Collections, i \in Ids :
          [w.wb EXCEPT ![c] = f][d][i] = IF d = c THEN f[i] ELSE w.wb[d][i]
  BY <1>7, <1>8
<1>11. /\ u \in Txn /\ u.mode = w.mode /\ u.reads = w.reads /\ u.rows = w.rows
       /\ u.wc = w.wc /\ u.mut = w.mut /\ u.wb = [w.wb EXCEPT ![c] = f]
  BY <1>4, <1>9 DEF Txn
<1>. HIDE DEF u
<1>12. \A d \in Collections, i \in Ids :
          u.wb[d][i] = IF d = c /\ items[i] # NoItem
                       THEN ByItem(bso[d][i], items[i], ts) ELSE NotStaged
  <2>1. \A d \in Collections, i \in Ids : w.wb[d][i] = NotStaged
    BY <1>2, <1>4 DEF NoStaged
  <2>. QED
    BY <1>6, <1>10, <1>11, <2>1
<1>13. u.reads = t.reads \cup {c}
  BY <1>2, <1>4, <1>11
<1>. QED
  BY <1>1, <1>2, <1>4, <1>11, <1>12, <1>13 DEF AppliedTo

(* A request that commits its batch (commit_batch). *)
LEMMA CommitBatchStep ==
  ASSUME BatchInv, NEW p \in Clients, CommitBatch(p)
  PROVE  BatchInv'
<1>. DEFINE r0 == req[p]
            t0 == txn[p]
            w0 == work[p]
            c == req[p].coll
            items == ItemsSeen(p)
            t == Applied(t0, c, items, r0.ts)
            r == [req[p] EXCEPT !.pc = "commit", !.status = 200]
            w == [work[p] EXCEPT !.removed = {w0.id}]
<1>. SUFFICES ASSUME ValidHere(p) PROVE BatchInv'
  BY CloseStep DEF CommitBatch
<1>1. /\ Good(p, r0, t0, w0) /\ r0 \in Request /\ w0 \in Work /\ t0 \in Txn
      /\ Current(r0, t0, w0) /\ Progress(r0, t0, w0) /\ t0.mode = "rw"
      /\ r0.pc = "apply" /\ c \in Collections /\ c \in CollKeys /\ now \in 1..MaxTime
      /\ r0.ts \in 0..MaxTime
  BY OwnGood, UploadFields, LiveIsSafe DEF CommitBatch, BatchInv
<1>2. /\ w0.id \in Batches /\ w0.removed = {} /\ w0.adds = NoItems /\ r0.kind = "post"
      /\ r0.commit /\ r0.ts \in 1..MaxTime
  <2>1. r0.ts \in 1..now
    BY <1>1 DEF Good, Shape
  <2>. QED
    BY <1>1, <2>1, MaxTimeAssumption DEF Good, Shape, WorkShape
<1>3. batch[w0.id].items \in [Ids -> Item]
  BY <1>2 DEF BatchInv, TypeOK, Batch
<1>4. items \in [Ids -> Item] /\ \A i \in Ids : items[i] = batch[w0.id].items[i]
  BY <1>2, <1>3 DEF ItemsSeen, NoItems
<1>5. NoStaged(t0) /\ AppliesItems(r0, t0, w0)
  BY <1>1 DEF Progress, Applying, AppliesItems
<1>6. AppliedTo(t, t0, c, items, r0.ts)
  <2>1. TypeOK
    BY DEF BatchInv
  <2>. HIDE DEF items, c, t0, r0
  <2>. QED
    BY <1>1, <1>2, <1>4, <1>5, <2>1, AppliedFields
<1>7. /\ r \in Request /\ r.kind = r0.kind /\ r.coll = r0.coll /\ r.ids = r0.ids
      /\ r.body = r0.body /\ r.failed = r0.failed /\ r.since = r0.since
      /\ r.ts = r0.ts /\ r.commit = r0.commit /\ r.pc = "commit" /\ r.status = 200
  <2>1. 200 \in Statuses
    BY DEF Statuses
  <2>. QED
    BY <1>1, <2>1, ZenonT(60) DEF Request
<1>8. /\ w \in Work /\ w.id = w0.id /\ w.exp = w0.exp /\ w.adds = w0.adds
      /\ w.removed = {w0.id} /\ w.dead = w0.dead
  BY <1>1, <1>2 DEF Work
<1>9. /\ req' = [req EXCEPT ![p] = r] /\ txn' = [txn EXCEPT ![p] = t]
      /\ work' = [work EXCEPT ![p] = w] /\ UNCHANGED <<now, uc, bso, batch, wrote>>
  BY ZenonT(60) DEF CommitBatch, SetTxn
<1>. HIDE DEF r, w, t, items, r0, t0, w0
<1>10. Shape(r, t, w)
  BY <1>1, <1>2, <1>6, <1>7 DEF Good, Shape, AppliedTo
<1>11. WorkShape(r, w) /\ Holds(r, w)
  BY <1>1, <1>2, <1>7, <1>8 DEF Good, WorkShape, Holds, Preparing, Storing
<1>12. Unique(p, w)
  BY <1>1, <1>8 DEF Good, Unique
<1>13. Current(r, t, w)
  <2>1. \A i \in Ids : w.adds[i] = NoItem
    BY <1>2, <1>8 DEF NoItems
  <2>. QED
    BY <1>1, <1>6, <1>7, <1>8, <2>1 DEF Current, AppliedTo
<1>14. StoresBatch(r, t, w)
  <2>1. WritesOnly(t, r.coll, r.ts)
    <3>1. \A k \in CollKeys : k # c => t0.wc[k] = NotSet
      BY <1>5 DEF AppliesItems, Prepared, WritesOnly, r0
    <3>2. t0.wc \in [CollKeys -> NotSet..MaxTime]
      BY <1>1 DEF Txn
    <3>3. r.coll = c
      BY <1>7 DEF r0
    <3>. HIDE DEF c
    <3>. QED
      BY <1>1, <1>6, <1>7, <3>1, <3>2, <3>3 DEF WritesOnly, AppliedTo
  <2>2. StagesBatch(r, t, w)
    BY <1>4, <1>6, <1>7, <1>8 DEF StagesBatch, AppliedTo, r0
  <2>3. BuffersItems(r, t)
    BY <1>5, <1>6, <1>7 DEF AppliesItems, BuffersItems, AppliedTo
  <2>4. {r.coll} \X Ids \subseteq t.rows
    BY <1>6, <1>7 DEF AppliedTo, r0
  <2>. QED
    BY <2>1, <2>2, <2>3, <2>4 DEF StoresBatch
<1>15. Progress(r, t, w)
  BY <1>2, <1>7, <1>14 DEF Progress, Looking, Preparing, Applying, Storing, Removing
<1>16. t \in Txn /\ t.mode = "rw"
  BY <1>1, <1>6 DEF AppliedTo
<1>17. Good(p, r, t, w)
  BY <1>7, <1>8, <1>10, <1>11, <1>12, <1>13, <1>15, <1>16 DEF Good, SafeUpload
<1>. QED
  BY <1>9, <1>17, LocalStep

(* DELETE of the collection (delete_collection). *)
LEMMA DeleteStep ==
  ASSUME BatchInv, NEW p \in Clients, DeleteCollection(p)
  PROVE  BatchInv'
<1>. DEFINE r0 == req[p]
            t0 == txn[p]
            w0 == work[p]
            c == req[p].coll
            u == Reading(t0, {c, Tombstone}, {})
            exists == CollView(u, c) > PRETOUCH
            t == IF exists THEN DeletedCollection(u, c, r0.ts) ELSE u
            removed == IF exists THEN {b \in Batches : batch[b].st = "open"
                                                       /\ batch[b].coll = c}
                       ELSE {}
            r == [req[p] EXCEPT !.pc = "commit", !.status = 200]
            w == [work[p] EXCEPT !.removed = removed]
<1>1. /\ Good(p, r0, t0, w0) /\ r0 \in Request /\ w0 \in Work /\ t0 \in Txn
      /\ Current(r0, t0, w0) /\ Progress(r0, t0, w0) /\ t0.mode = "rw"
      /\ r0.pc = "handle" /\ c \in Collections /\ c \in CollKeys /\ Tombstone \in CollKeys
      /\ c # Tombstone /\ r0.ts \in 0..MaxTime
  BY OwnGood, UploadFields, LiveIsSafe DEF DeleteCollection, BatchInv
<1>2. /\ w0.id = NewBatch /\ w0.exp = 0 /\ w0.adds = NoItems /\ r0.kind = "delete"
  BY <1>1 DEF Good, Shape, WorkShape, Preparing, Storing
<1>3. Nothing(t0)
  BY <1>1 DEF Progress, Looking
<1>4. /\ u \in Txn /\ u.mode = t0.mode /\ u.reads = t0.reads \cup {c, Tombstone}
      /\ u.wc = t0.wc /\ u.wb = t0.wb /\ u.mut = t0.mut
  <2>1. {} \in SUBSET (Collections \X Ids) /\ {c, Tombstone} \in SUBSET CollKeys
    BY <1>1
  <2>2. u \in Txn
    BY <1>1, <2>1, ReadingType
  <2>. QED
    BY <1>1, <2>2 DEF Reading, Txn
<1>5. exists <=> uc[c] > PRETOUCH
  BY <1>1, <1>3, <1>4, SMTT(30) DEF CollView, Nothing, Untouched
<1>6. removed \in SUBSET Batches
      /\ \A b \in removed : batch[b].st = "open" /\ batch[b].coll = c
  OBVIOUS
<1>7. /\ r \in Request /\ r.kind = r0.kind /\ r.coll = r0.coll /\ r.ids = r0.ids
      /\ r.body = r0.body /\ r.failed = r0.failed /\ r.since = r0.since
      /\ r.ts = r0.ts /\ r.commit = r0.commit /\ r.pc = "commit" /\ r.status = 200
  <2>1. 200 \in Statuses
    BY DEF Statuses
  <2>. QED
    BY <1>1, <2>1, ZenonT(60) DEF Request
<1>8. /\ w \in Work /\ w.id = w0.id /\ w.exp = w0.exp /\ w.adds = w0.adds
      /\ w.removed = removed /\ w.dead = w0.dead
  <2>. HIDE DEF removed
  <2>. QED
    BY <1>1, <1>6 DEF Work
<1>9. /\ req' = [req EXCEPT ![p] = r] /\ txn' = [txn EXCEPT ![p] = t]
      /\ work' = [work EXCEPT ![p] = w] /\ UNCHANGED <<now, uc, bso, batch, wrote>>
  BY ZenonT(60) DEF DeleteCollection, SetTxn
<1>10. /\ t \in Txn /\ t.mode = "rw" /\ t0.reads \subseteq t.reads
       /\ \/ RemovesCollection(r, t, w)
          \/ Nothing(t) /\ w.removed = {}
  <2>1. CASE ~exists
    <3>1. t = u /\ removed = {}
      BY <2>1
    <3>2. Nothing(u)
      BY <1>3, <1>4, ZenonT(60) DEF Nothing, Untouched, NoStaged, NoBuffered
    <3>. QED
      BY <1>1, <1>4, <1>8, <3>1, <3>2
  <2>2. CASE exists
    <3>1. t = DeletedCollection(u, c, r0.ts)
      BY <2>2
    <3>. HIDE DEF u, exists, t, c, r0
    <3>2. /\ t \in Txn /\ t.mode = u.mode /\ t.reads = u.reads
          /\ t.wc = [u.wc EXCEPT ![c] = Absent, ![Tombstone] = r0.ts]
          /\ t.mut = u.mut
          /\ \A d \in Collections, i \in Ids :
                t.wb[d][i] = IF d = c THEN NoRow ELSE u.wb[d][i]
      BY <1>1, <1>4, <3>1, DeletedCollectionType
    <3>3. u.wc \in [CollKeys -> NotSet..MaxTime]
      BY <1>4 DEF Txn
    <3>4. \A k \in CollKeys : t.wc[k] = IF k = c THEN Absent
                                        ELSE IF k = Tombstone THEN r0.ts ELSE NotSet
      BY <1>1, <1>3, <1>4, <3>2, <3>3 DEF Nothing, Untouched
    <3>5. \A d \in Collections, i \in Ids :
             t.wb[d][i] = IF d = c THEN NoRow ELSE NotStaged
      BY <1>3, <1>4, <3>2 DEF Nothing, NoStaged
    <3>6. NoBuffered(t)
      BY <1>3, <1>4, <3>2 DEF Nothing, NoBuffered
    <3>7. \A b \in Batches :
             batch[b].st = "open" /\ batch[b].coll = c => b \in w.removed
      BY <1>8, <2>2
    <3>8. r.coll = c
      BY <1>7 DEF c, r0
    <3>9. RemovesCollection(r, t, w)
      <4>. HIDE DEF r, w
      <4>. QED
        BY <1>5, <1>7, <2>2, <3>4, <3>5, <3>6, <3>7, <3>8 DEF RemovesCollection
    <3>. QED
      BY <1>1, <1>4, <3>2, <3>9
  <2>. QED
    BY <2>1, <2>2
<1>. HIDE DEF r, w, t, removed, r0, t0, w0, c, exists
<1>11. Shape(r, t, w)
  BY <1>1, <1>2, <1>7, <1>10 DEF Good, Shape
<1>12. WorkShape(r, w)
  BY <1>2, <1>7, <1>8 DEF WorkShape, Preparing, Storing
<1>13. Holds(r, w)
  BY <1>2, <1>6, <1>7, <1>8 DEF Holds, c, r0
<1>14. Unique(p, w)
  BY <1>1, <1>8 DEF Good, Unique
<1>15. Current(r, t, w)
  BY <1>1, <1>2, <1>7, <1>8, <1>10 DEF Current, NoItems
<1>16. Progress(r, t, w)
  BY <1>2, <1>7, <1>10 DEF Progress, Looking, Preparing, Applying, Storing, Removing
<1>17. Good(p, r, t, w)
  BY <1>7, <1>8, <1>10, <1>11, <1>12, <1>13, <1>14, <1>15, <1>16 DEF Good, SafeUpload
<1>. QED
  BY <1>9, <1>17, LocalStep

-----------------------------------------------------------------------------
(* What a commit does to the tables. *)

ItemRow(p, i) ==
    LET item == batch[work[p].id].items[i]
        old  == bso[req[p].coll][i]
    IN IF item # NoItem THEN ByItem(old, item, req[p].ts) ELSE old

\* The mutation post_bsos buffers for a row.
ItemMutation(r, row) ==
    IF Present(row) THEN UpdateRow(r.body, r.ts) ELSE InsertRow(r.body, r.ts)

CommitsItems(p) ==
    /\ \A k \in CollKeys :
          uc'[k] = IF k = req[p].coll /\ work[p].exp # 0 /\ uc[k] = Absent
                   THEN PRETOUCH ELSE uc[k]
    /\ bso' = bso
    /\ work[p].id \in Batches
    /\ \A b \in Batches :
          batch'[b] = IF b # work[p].id THEN batch[b]
                      ELSE IF work[p].exp # 0
                      THEN [st |-> "open", coll |-> req[p].coll, exp |-> work[p].exp,
                            items |-> ItemsSeen(p)]
                      ELSE [batch[b] EXCEPT !.items = ItemsSeen(p)]

CommitsBatch(p) ==
    LET r == req[p] IN
    /\ \A k \in CollKeys : uc'[k] = IF k = r.coll THEN r.ts ELSE uc[k]
    /\ \A d \in Collections, i \in Ids :
          bso'[d][i] = IF d # r.coll THEN bso[d][i]
                       ELSE IF i \in r.ids \ r.failed
                       THEN Mutated(ItemMutation(r, bso[d][i]), ItemRow(p, i))
                       ELSE ItemRow(p, i)
    /\ \A i \in r.ids \ r.failed :
          batch[work[p].id].items[i] # NoItem => Present(bso[r.coll][i])
    /\ work[p].id \in Batches
    /\ \A b \in Batches :
          batch'[b] = IF b = work[p].id THEN Spent(b) ELSE batch[b]

CommitsRemoval(p) ==
    LET c == req[p].coll IN
    /\ \A k \in CollKeys :
          uc'[k] = IF k = c THEN Absent
                   ELSE IF k = Tombstone THEN req[p].ts ELSE uc[k]
    /\ \A d \in Collections, i \in Ids :
          bso'[d][i] = IF d = c THEN NoRow ELSE bso[d][i]
    /\ uc[c] > PRETOUCH
    /\ \A b \in Batches : batch[b].st = "open" /\ batch[b].coll = c => b \in work[p].removed
    /\ \A b \in work[p].removed : batch[b].st # "fresh" /\ batch[b].coll = c
    /\ \A b \in Batches :
          batch'[b] = IF b \in work[p].removed THEN Spent(b) ELSE batch[b]

CommitTables(p) ==
    \/ /\ req[p].status = 412 \/ Removing(req[p])
       /\ UNCHANGED <<uc, bso, batch>>
    \/ req[p].status = 202 /\ req[p].kind = "post" /\ CommitsItems(p)
    \/ Storing(req[p]) /\ CommitsBatch(p)
    \/ Removing(req[p]) /\ CommitsRemoval(p)

(* A transaction's rows as it leaves them, where it wrote no statement. *)
LEMMA RowsAfterNothing ==
  ASSUME TypeOK, NEW t \in Txn, NoStaged(t), NoBuffered(t)
  PROVE  [c \in Collections |-> [i \in Ids |-> RowAfter(t, c, i)]] = bso
<1>1. ASSUME NEW c \in Collections, NEW i \in Ids PROVE RowAfter(t, c, i) = bso[c][i]
  BY DEF RowAfter, BsoView, NoStaged, NoBuffered, NoMutation, NotStaged, Mutated
<1>2. bso = [c \in Collections |-> [i \in Ids |-> bso[c][i]]]
  BY DEF TypeOK, StoreTypeOK
<1>. QED
  BY <1>1, <1>2

LEMMA CommitBasics ==
  ASSUME BatchInv, NEW p \in Clients, CommitWrite(p)
  PROVE  /\ Current(req[p], txn[p], work[p]) /\ Progress(req[p], txn[p], work[p])
         /\ Shape(req[p], txn[p], work[p]) /\ WorkShape(req[p], work[p])
         /\ Holds(req[p], work[p]) /\ req[p].pc = "commit"
         /\ txn[p] \in Txn /\ txn[p].mode = "rw"
         /\ req[p].ts \in 1..MaxTime /\ req[p].ts <= now
         /\ req[p].kind \in {"post", "delete"}
         /\ work[p].adds \in [Ids -> Item]
         /\ uc' = [k \in CollKeys |-> CollView(txn[p], k)]
         /\ bso' = [c \in Collections |-> [i \in Ids |-> RowAfter(txn[p], c, i)]]
         /\ batch' = [b \in Batches |-> BatchAfter(p, b)]
         /\ MutationsApply(txn[p])
<1>1. /\ Current(req[p], txn[p], work[p]) /\ Progress(req[p], txn[p], work[p])
      /\ txn[p].mode = "rw"
  BY LiveIsSafe DEF CommitWrite
<1>2. Good(p, req[p], txn[p], work[p])
  BY OwnGood
<1>3. req[p].ts \in 1..MaxTime /\ req[p].ts <= now
  <2>1. req[p].ts \in 1..now /\ now \in 1..MaxTime
    BY <1>2, UploadFields DEF Good, Shape, CommitWrite, BatchInv
  <2>. QED
    BY <2>1, MaxTimeAssumption
<1>4. req[p].kind \in {"post", "delete"} /\ work[p].adds \in [Ids -> Item]
  BY <1>2, UploadFields DEF Good, Request, Work
<1>. QED
  BY <1>1, <1>2, <1>3, <1>4 DEF Good, CommitWrite, Commit, CollAfter

(* A commit changes the tables as the answer of its request says. *)
LEMMA CommitCases ==
  ASSUME BatchInv, NEW p \in Clients, CommitWrite(p)
  PROVE  CommitTables(p)
<1>. DEFINE r == req[p]
            t == txn[p]
            w == work[p]
<1>1. /\ Current(r, t, w) /\ Progress(r, t, w) /\ Shape(r, t, w) /\ WorkShape(r, w)
      /\ Holds(r, w) /\ r.pc = "commit" /\ t \in Txn /\ t.mode = "rw"
      /\ r.kind \in {"post", "delete"} /\ MutationsApply(t)
      /\ uc' = [k \in CollKeys |-> CollView(t, k)]
      /\ bso' = [c \in Collections |-> [i \in Ids |-> RowAfter(t, c, i)]]
      /\ batch' = [b \in Batches |-> BatchAfter(p, b)]
  BY CommitBasics
<1>2. /\ TypeOK /\ uc \in [CollKeys -> Absent..MaxTime]
      /\ batch = [b \in Batches |-> batch[b]] /\ w.removed \in SUBSET Batches
      /\ r.coll \in Collections /\ r.coll \in CollKeys /\ r.ids \in SUBSET Ids
  BY UploadFields DEF BatchInv, TypeOK, StoreTypeOK
<1>3. ASSUME Nothing(t), w.removed = {}, w.id = NewBatch
      PROVE  UNCHANGED <<uc, bso, batch>>
  <2>1. uc' = uc
    BY <1>1, <1>2, <1>3 DEF Nothing, Untouched, CollView
  <2>2. bso' = bso
    BY <1>1, <1>2, <1>3, RowsAfterNothing DEF Nothing
  <2>3. \A b \in Batches : BatchAfter(p, b) = batch[b]
    BY <1>3, BatchesAssumption DEF BatchAfter
  <2>4. batch' = batch
    BY <1>1, <1>2, <2>3
  <2>. QED
    BY <2>1, <2>2, <2>4
<1>4. CASE r.status = 412
  <2>1. Nothing(t) /\ w.removed = {} /\ w.id = NewBatch
    BY <1>1, <1>4 DEF Progress, Looking, WorkShape, Preparing, Storing
  <2>. QED
    BY <1>3, <1>4, <2>1 DEF CommitTables
<1>5. CASE r.status = 202 /\ r.kind = "post"
  <2>1. Prepared(r, t, w) /\ NoStaged(t) /\ NoBuffered(t) /\ w.removed = {}
        /\ w.id \in Batches
    BY <1>1, <1>5 DEF Progress, Preparing, WorkShape, Storing
  <2>2. bso' = bso
    BY <1>1, <1>2, <2>1, RowsAfterNothing
  <2>3. \A k \in CollKeys :
           uc'[k] = IF k = r.coll /\ w.exp # 0 /\ uc[k] = Absent THEN PRETOUCH ELSE uc[k]
    BY <1>1, <1>2, <2>1 DEF Prepared, WritesOnly, ParentTime, CollView
  <2>4. \A b \in Batches :
          batch'[b] = IF b # w.id THEN batch[b]
                      ELSE IF w.exp # 0
                      THEN [st |-> "open", coll |-> r.coll, exp |-> w.exp,
                            items |-> ItemsSeen(p)]
                      ELSE [batch[b] EXCEPT !.items = ItemsSeen(p)]
    BY <1>1, <2>1 DEF BatchAfter
  <2>. QED
    BY <1>5, <2>1, <2>2, <2>3, <2>4 DEF CommitTables, CommitsItems
<1>6. CASE Storing(r)
  <2>1. StoresBatch(r, t, w) /\ w.removed = {w.id} /\ w.id \in Batches
    BY <1>1, <1>6 DEF Progress, WorkShape
  <2>2. \A k \in CollKeys : uc'[k] = IF k = r.coll THEN r.ts ELSE uc[k]
    <3>1. r.ts # NotSet
      BY CommitBasics
    <3>. QED
      BY <1>1, <2>1, <3>1 DEF StoresBatch, WritesOnly, CollView
  <2>3. \A b \in Batches : batch'[b] = IF b = w.id THEN Spent(b) ELSE batch[b]
    BY <1>1, <2>1 DEF BatchAfter
  <2>4. ASSUME NEW d \in Collections, NEW i \in Ids
        PROVE  BsoView(t, d, i) = IF d = r.coll THEN ItemRow(p, i) ELSE bso[d][i]
    <3>1. bso[d][i] \in Row \cup {NoRow} /\ batch[w.id].items[i] \in Item
      BY <1>2, <2>1 DEF TypeOK, StoreTypeOK, Batch
    <3>2. t.wb[d][i] = IF d = r.coll /\ batch[w.id].items[i] # NoItem
                       THEN ByItem(bso[d][i], batch[w.id].items[i], r.ts)
                       ELSE NotStaged
      BY <2>1 DEF StoresBatch, StagesBatch
    <3>3. CASE d = r.coll /\ batch[w.id].items[i] # NoItem
      <4>1. r.ts \in 1..MaxTime
        BY CommitBasics
      <4>2. ByItem(bso[d][i], batch[w.id].items[i], r.ts).mod = r.ts
        <5>. HIDE DEF r, w
        <5>. QED
          BY <3>1, <3>3, <4>1, ByItemType
      <4>. QED
        BY <3>2, <3>3, <4>1, <4>2 DEF BsoView, ItemRow
    <3>4. CASE ~(d = r.coll /\ batch[w.id].items[i] # NoItem)
      BY <3>2, <3>4 DEF BsoView, NotStaged, ItemRow
    <3>. QED
      BY <3>3, <3>4
  <2>5. ASSUME NEW d \in Collections, NEW i \in Ids
        PROVE  t.mut[d][i] = IF d = r.coll /\ i \in r.ids \ r.failed
                             THEN ItemMutation(r, bso[d][i]) ELSE NoMutation
    BY <2>1 DEF StoresBatch, BuffersItems, ItemMutation
  <2>6. ASSUME NEW d \in Collections, NEW i \in Ids
        PROVE  bso'[d][i] = IF d # r.coll THEN bso[d][i]
                            ELSE IF i \in r.ids \ r.failed
                            THEN Mutated(ItemMutation(r, bso[d][i]), ItemRow(p, i))
                            ELSE ItemRow(p, i)
    <3>1. bso'[d][i] = Mutated(t.mut[d][i], BsoView(t, d, i))
      BY <1>1 DEF RowAfter
    <3>2. \A row : Mutated(NoMutation, row) = row
      BY DEF Mutated, NoMutation
    <3>. HIDE DEF r, t
    <3>. QED
      BY <2>4, <2>5, <3>1, <3>2
  <2>7. ASSUME NEW i \in r.ids \ r.failed, batch[w.id].items[i] # NoItem
        PROVE  Present(bso[r.coll][i])
    <3>. SUFFICES ASSUME ~Present(bso[r.coll][i]) PROVE FALSE
      OBVIOUS
    <3>1. i \in Ids
      BY <1>2
    <3>2. t.mut[r.coll][i].op = "insert"
      BY <1>2, <2>5, <3>1 DEF ItemMutation, InsertRow
    <3>3. ~Present(BsoView(t, r.coll, i))
      BY <1>1, <1>2, <3>1, <3>2 DEF MutationsApply
    <3>4. BsoView(t, r.coll, i) = ByItem(bso[r.coll][i], batch[w.id].items[i], r.ts)
      BY <1>2, <2>4, <2>7, <3>1 DEF ItemRow
    <3>5. /\ bso[r.coll][i] \in Row \cup {NoRow} /\ batch[w.id].items[i] \in Item
          /\ r.ts \in 1..MaxTime
      BY <1>2, <2>1, <3>1, CommitBasics DEF TypeOK, StoreTypeOK, Batch
    <3>6. ByItem(bso[r.coll][i], batch[w.id].items[i], r.ts).mod = r.ts
      <4>. HIDE DEF r, w
      <4>. QED
        BY <2>7, <3>5, ByItemType
    <3>. QED
      BY <3>3, <3>4, <3>5, <3>6 DEF Present
  <2>. QED
    BY <1>6, <2>1, <2>2, <2>3, <2>6, <2>7 DEF CommitTables, CommitsBatch
<1>7. CASE Removing(r)
  <2>1. \/ RemovesCollection(r, t, w)
        \/ Nothing(t) /\ w.removed = {}
    BY <1>1, <1>7 DEF Progress
  <2>2. w.id = NewBatch
    BY <1>1, <1>7 DEF WorkShape, Removing, Preparing, Storing
  <2>3. CASE RemovesCollection(r, t, w)
    <3>1. \A b \in Batches :
             batch'[b] = IF b \in w.removed THEN Spent(b) ELSE batch[b]
      BY <1>1, <2>2, BatchesAssumption DEF BatchAfter
    <3>2. \A k \in CollKeys :
             uc'[k] = IF k = r.coll THEN Absent
                      ELSE IF k = Tombstone THEN r.ts ELSE uc[k]
      <4>1. r.ts # NotSet
        BY CommitBasics
      <4>. QED
        BY <1>1, <2>3, <4>1 DEF RemovesCollection, CollView
    <3>3. ASSUME NEW d \in Collections, NEW i \in Ids
          PROVE  bso'[d][i] = IF d = r.coll THEN NoRow ELSE bso[d][i]
      <4>1. t.mut[d][i] = NoMutation
        BY <2>3 DEF RemovesCollection, NoBuffered
      <4>2. t.wb[d][i] = IF d = r.coll THEN NoRow ELSE NotStaged
        BY <2>3 DEF RemovesCollection
      <4>3. BsoView(t, d, i) = IF d = r.coll THEN NoRow ELSE bso[d][i]
        BY <4>2 DEF BsoView, NoRow, NotStaged
      <4>4. bso'[d][i] = Mutated(t.mut[d][i], BsoView(t, d, i))
        BY <1>1 DEF RowAfter
      <4>. QED
        BY <4>1, <4>3, <4>4 DEF Mutated, NoMutation
    <3>4. \A b \in w.removed : batch[b].st # "fresh" /\ batch[b].coll = r.coll
      BY <1>1, <1>7 DEF Holds, Removing
    <3>. QED
      BY <1>7, <2>3, <3>1, <3>2, <3>3, <3>4
      DEF CommitTables, CommitsRemoval, RemovesCollection
  <2>4. CASE Nothing(t) /\ w.removed = {}
    BY <1>3, <1>7, <2>2, <2>4 DEF CommitTables
  <2>. QED
    BY <2>1, <2>3, <2>4
<1>. QED
  BY <1>1, <1>4, <1>5, <1>6, <1>7 DEF Shape, Storing, Removing

-----------------------------------------------------------------------------
(* Steps that change the tables, seen by the others. *)

\* q's request is untouched; its transaction goes on only if it read nothing
\* that changed.
Undisturbed(q) ==
    /\ req'[q] = req[q]
    /\ work'[q].id = work[q].id /\ work'[q].exp = work[q].exp
    /\ work'[q].adds = work[q].adds /\ work'[q].removed = work[q].removed
    /\ txn'[q].mode = "rw" /\ ~work'[q].dead =>
         /\ txn'[q] = txn[q] /\ ~work[q].dead
         /\ \A k \in txn[q].reads : uc'[k] = uc[k]
         /\ \A c \in Collections, i \in Ids :
               <<c, i>> \in txn[q].rows => bso'[c][i] = bso[c][i]
         /\ work[q].id # NewBatch =>
               /\ batch'[work[q].id].st = batch[work[q].id].st
               /\ batch'[work[q].id].coll = batch[work[q].id].coll
               /\ \A i \in Ids :
                     work[q].adds[i] # NoItem \/ work[q].id \in work[q].removed
                     => batch'[work[q].id].items[i] = batch[work[q].id].items[i]
         /\ Removing(req[q]) =>
               \A b \in Batches :
                   batch'[b].st = "open" /\ batch'[b].coll = req[q].coll
                   => batch[b].st = "open" /\ batch[b].coll = req[q].coll

(* A transaction that nobody disturbed is as safe as it was. *)
LEMMA UndisturbedIsSafe ==
  ASSUME BatchInv, NEW q \in Clients, Undisturbed(q)
  PROVE  SafeUpload(req[q], txn[q], work[q])'
<1>. SUFFICES ASSUME txn'[q].mode = "rw", ~work'[q].dead
              PROVE  Current(req[q], txn[q], work[q])' /\ Progress(req[q], txn[q], work[q])'
  BY DEF SafeUpload
<1>. DEFINE r == req[q]
            t == txn[q]
            w == work[q]
<1>1. /\ req'[q] = r /\ txn'[q] = t /\ ~w.dead
      /\ work'[q].id = w.id /\ work'[q].exp = w.exp
      /\ work'[q].adds = w.adds /\ work'[q].removed = w.removed
      /\ \A k \in t.reads : uc'[k] = uc[k]
      /\ \A c \in Collections, i \in Ids :
            <<c, i>> \in t.rows => bso'[c][i] = bso[c][i]
      /\ w.id # NewBatch =>
            /\ batch'[w.id].st = batch[w.id].st
            /\ batch'[w.id].coll = batch[w.id].coll
            /\ \A i \in Ids :
                  w.adds[i] # NoItem \/ w.id \in w.removed
                  => batch'[w.id].items[i] = batch[w.id].items[i]
      /\ Removing(r) =>
            \A b \in Batches :
                batch'[b].st = "open" /\ batch'[b].coll = r.coll
                => batch[b].st = "open" /\ batch[b].coll = r.coll
  BY DEF Undisturbed
<1>2. /\ Current(r, t, w) /\ Progress(r, t, w) /\ WorkShape(r, w)
      /\ r.coll \in Collections /\ r.ids \in SUBSET Ids /\ w.id \in Batches \cup {NewBatch}
  BY <1>1, UploadFields DEF BatchInv, Uploading, SafeUpload, Shapes
<1>3. uc'[r.coll] = uc[r.coll]
  BY <1>1, <1>2 DEF Current
<1>4. Current(req[q], txn[q], work[q])'
  <2>1. ASSUME NEW i \in Ids, w.adds[i] # NoItem PROVE batch'[w.id].items[i] = NoItem
    <3>1. w.id # NewBatch
      BY <1>2, <2>1, BatchesAssumption DEF WorkShape, NoItems, Preparing
    <3>. QED
      BY <1>1, <1>2, <2>1, <3>1, SMTT(30) DEF Current
  <2>2. /\ r.coll \in t.reads /\ uc'[r.coll] < r.ts
        /\ r.since # NotSet /\ (r.pc = "commit" => r.status # 412)
           => uc'[r.coll] <= r.since
        /\ w.id # NewBatch /\ w.exp = 0 =>
              batch'[w.id].st = "open" /\ batch'[w.id].coll = r.coll
    BY <1>1, <1>2, <1>3 DEF Current
  <2>. HIDE DEF r, t, w
  <2>3. /\ r.coll \in t.reads /\ uc'[r.coll] < r.ts
        /\ r.since # NotSet /\ (r.pc = "commit" => r.status # 412)
           => uc'[r.coll] <= r.since
        /\ work'[q].id # NewBatch /\ work'[q].exp = 0 =>
              batch'[work'[q].id].st = "open" /\ batch'[work'[q].id].coll = r.coll
        /\ \A i \in Ids : work'[q].adds[i] # NoItem
                          => batch'[work'[q].id].items[i] = NoItem
    BY <1>1, <2>1, <2>2
  <2>. QED
    BY <1>1, <2>3 DEF Current
<1>5. Prepared(r, t, w) => Prepared(req[q], txn[q], work[q])'
  BY <1>1, <1>3 DEF Prepared, ParentTime, WritesOnly
<1>6. /\ NoStaged(t) => NoStaged(txn[q])'
      /\ NoBuffered(t) => NoBuffered(txn[q])'
      /\ Nothing(t) => Nothing(txn[q])'
      /\ WritesOnly(t, r.coll, r.ts) => WritesOnly(txn[q], req[q].coll, req[q].ts)'
  BY <1>1 DEF NoStaged, NoBuffered, Nothing, Untouched, WritesOnly
<1>7. BuffersItems(r, t) /\ {r.coll} \X r.ids \subseteq t.rows
      => BuffersItems(req[q], txn[q])'
  <2>. SUFFICES ASSUME BuffersItems(r, t), {r.coll} \X r.ids \subseteq t.rows
                PROVE  BuffersItems(req[q], txn[q])'
    OBVIOUS
  <2>1. \A i \in r.ids : bso'[r.coll][i] = bso[r.coll][i]
    BY <1>1, <1>2
  <2>. QED
    BY <1>1, <1>2, <2>1 DEF BuffersItems
<1>8. ASSUME StagesBatch(r, t, w), {r.coll} \X Ids \subseteq t.rows, Storing(r)
      PROVE  StagesBatch(req[q], txn[q], work[q])'
  <2>1. \A i \in Ids : bso'[r.coll][i] = bso[r.coll][i]
    BY <1>1, <1>2, <1>8
  <2>2. w.id \in Batches /\ w.id \in w.removed
    BY <1>2, <1>8 DEF WorkShape
  <2>3. \A i \in Ids : batch'[w.id].items[i] = batch[w.id].items[i]
    BY <1>1, <2>2, BatchesAssumption
  <2>4. \A d \in Collections, i \in Ids :
           t.wb[d][i] = IF d = r.coll /\ batch'[w.id].items[i] # NoItem
                        THEN ByItem(bso'[d][i], batch'[w.id].items[i], r.ts)
                        ELSE NotStaged
    BY <1>8, <2>1, <2>3, SMTT(30) DEF StagesBatch
  <2>5. \A d \in Collections, i \in Ids :
           txn'[q].wb[d][i] = IF d = req'[q].coll /\ batch'[work'[q].id].items[i] # NoItem
                              THEN ByItem(bso'[d][i], batch'[work'[q].id].items[i],
                                          req'[q].ts)
                              ELSE NotStaged
    <3>. HIDE DEF r, t, w
    <3>. QED
      BY <1>1, <2>4
  <2>. QED
    BY <2>5 DEF StagesBatch
<1>9. ASSUME RemovesCollection(r, t, w), Removing(r)
      PROVE  RemovesCollection(req[q], txn[q], work[q])'
  BY <1>1, <1>3, <1>9 DEF RemovesCollection, NoBuffered
<1>10. Progress(req[q], txn[q], work[q])'
  <2>1. /\ Looking(r) = Looking(req'[q])
        /\ Preparing(r) = Preparing(req'[q])
        /\ Applying(r) = Applying(req'[q])
        /\ Storing(r) = Storing(req'[q])
        /\ Removing(r) = Removing(req'[q])
    BY <1>1
  <2>. QED
    BY <1>1, <1>2, <1>5, <1>6, <1>7, <1>8, <1>9
    DEF Progress, AppliesItems, StoresBatch, Looking, Preparing, Applying, Storing,
        Removing
<1>. QED
  BY <1>4, <1>10

\* q's request is over, or goes on undisturbed, perhaps aborted.
Closed(q) == req'[q] = Idle /\ txn'[q] = NoTxn /\ work'[q] = NoWork
GoesOn(q) ==
    /\ Undisturbed(q)
    /\ txn'[q] = txn[q] \/ (txn[q].mode = "rw" /\ txn'[q] = DeadTxn)
    /\ work[q].exp # 0 => batch'[work[q].id].st = "fresh"

(* A step that changes the tables keeps the invariant if every open request  *)
(* is over or undisturbed by it and the tables keep their part.              *)
LEMMA SharedStep ==
  ASSUME BatchInv, TypeOK', now <= now', \A q \in Clients : Closed(q) \/ GoesOn(q),
         \A b \in Batches : batch[b].st # "fresh"
                            => batch'[b].st # "fresh" /\ batch'[b].coll = batch[b].coll,
         \A b \in Batches : batch'[b].st # "open" => batch'[b].items = NoItems,
         HistoryOK', ParentsTellTheTruth'
  PROVE  BatchInv'
<1>1. ASSUME NEW q \in Clients, GoesOn(q)
      PROVE  /\ Shape(req[q], txn[q], work[q])' /\ WorkShape(req[q], work[q])'
             /\ Holds(req[q], work[q])' /\ SafeUpload(req[q], txn[q], work[q])'
             /\ work'[q].id = work[q].id /\ work'[q].exp = work[q].exp
  <2>1. /\ req'[q] = req[q] /\ work'[q].id = work[q].id /\ work'[q].exp = work[q].exp
        /\ work'[q].adds = work[q].adds /\ work'[q].removed = work[q].removed
    BY <1>1 DEF GoesOn, Undisturbed
  <2>2. /\ Shape(req[q], txn[q], work[q]) /\ WorkShape(req[q], work[q])
        /\ Holds(req[q], work[q]) /\ work[q].id \in Batches \cup {NewBatch}
        /\ now \in Nat /\ now' \in Nat /\ work[q].removed \in SUBSET Batches
    <3>1. now \in 1..MaxTime /\ now' \in 1..MaxTime
      BY DEF BatchInv, TypeOK, StoreTypeOK
    <3>. QED
      BY <3>1, UploadFields, MaxTimeAssumption DEF BatchInv, Shapes, Holding
  <2>3. txn'[q].mode # "ro" /\ (txn[q].mode = "none" => txn'[q].mode = "none")
    BY <1>1, <2>2 DEF GoesOn, Shape, DeadTxn, EmptyTxn
  <2>4. req[q].pc \notin {"idle", "lock"} => req[q].ts \in 1..now'
    BY <2>2 DEF Shape
  <2>5. Shape(req[q], txn[q], work[q])'
    BY <2>1, <2>2, <2>3, <2>4 DEF Shape
  <2>6. WorkShape(req[q], work[q])'
    BY <2>1, <2>2 DEF WorkShape, Preparing, Storing
  <2>7. Holds(req[q], work[q])'
    <3>1. work[q].exp # 0 => batch'[work[q].id].st = "fresh"
      BY <1>1 DEF GoesOn
    <3>. QED
      BY <2>1, <2>2, <3>1 DEF Holds
  <2>8. SafeUpload(req[q], txn[q], work[q])'
    BY <1>1, UndisturbedIsSafe DEF GoesOn
  <2>. QED
    BY <2>1, <2>5, <2>6, <2>7, <2>8, SMTT(30)
<1>2. ASSUME NEW q \in Clients, Closed(q)
      PROVE  /\ Shape(req[q], txn[q], work[q])' /\ WorkShape(req[q], work[q])'
             /\ Holds(req[q], work[q])' /\ SafeUpload(req[q], txn[q], work[q])'
             /\ work'[q].id = NewBatch /\ work'[q].exp = 0
  <2>1. /\ Shape(Idle, NoTxn, NoWork) /\ WorkShape(Idle, NoWork)
        /\ NoTxn.mode = "none" /\ NoWork.id = NewBatch /\ NoWork.exp = 0
        /\ NoWork.removed = {}
    BY <1>2, ClosedGood DEF Good, NoTxn, EmptyTxn, NoWork
  <2>2. Shape(req[q], txn[q], work[q])'
    BY <1>2, <2>1 DEF Closed, Shape, Idle
  <2>3. WorkShape(req[q], work[q])'
    BY <1>2, <2>1 DEF Closed, WorkShape, Preparing, Storing
  <2>4. Holds(req[q], work[q])'
    BY <1>2, <2>1 DEF Closed, Holds
  <2>5. SafeUpload(req[q], txn[q], work[q])'
    BY <1>2, <2>1 DEF Closed, SafeUpload
  <2>. QED
    BY <1>2, <2>1, <2>2, <2>3, <2>4, <2>5 DEF Closed
<1>3. Shapes' /\ Uploading'
  BY <1>1, <1>2 DEF Shapes, Uploading
<1>4. ASSUME NEW q1 \in Clients, NEW q2 \in Clients, q1 # q2, work'[q1].exp # 0
      PROVE  work'[q2].id # work'[q1].id
  <2>1. GoesOn(q1) /\ work'[q1].id = work[q1].id /\ work[q1].exp # 0
    BY <1>1, <1>2, <1>4
  <2>2. work[q2].id # work[q1].id /\ work[q1].id \in Batches
    <3>1. WorkShape(req[q1], work[q1])
      BY DEF BatchInv, Shapes
    <3>. QED
      BY <1>4, <2>1, <3>1 DEF BatchInv, Holding, WorkShape
  <2>. QED
    BY <1>1, <1>2, <2>1, <2>2, BatchesAssumption
<1>5. Holding'
  BY <1>1, <1>2, <1>4 DEF Holding
<1>. QED
  BY <1>3, <1>5 DEF BatchInv

(* The clock, and the purge (purge_ttl). *)
LEMMA EnvironmentStep ==
  ASSUME BatchInv, Environment
  PROVE  BatchInv'
<1>0. /\ TypeOK /\ now \in 1..MaxTime /\ batch \in [Batches -> Batch]
      /\ work \in [Clients -> Work] /\ txn \in [Clients -> Txn]
      /\ uc \in [CollKeys -> Absent..MaxTime]
      /\ bso \in [Collections -> [Ids -> Row \cup {NoRow}]]
  BY DEF BatchInv, TypeOK, StoreTypeOK
<1>a. \A b \in Batches : batch[b].st # "open" => batch[b].items = NoItems
  BY DEF BatchInv, Holding
<1>b. \A q \in Clients : /\ WorkShape(req[q], work[q]) /\ Holds(req[q], work[q])
                         /\ work[q].id \in Batches \cup {NewBatch}
  BY <1>0 DEF BatchInv, Shapes, Holding, Work
<1>1. CASE Tick /\ UNCHANGED <<req, batch, work, wrote>>
  <2>1. now < MaxTime /\ now' = now + 1 /\ UNCHANGED <<uc, bso, txn, req, batch, work, wrote>>
    BY <1>1 DEF Tick
  <2>2. now' \in 1..MaxTime /\ now <= now'
    BY <1>0, <2>1, MaxTimeAssumption
  <2>3. TypeOK'
    BY <1>0, <2>1, <2>2 DEF TypeOK, StoreTypeOK
  <2>4. \A q \in Clients : GoesOn(q)
    BY <1>b, <2>1, BatchesAssumption DEF GoesOn, Undisturbed, Holds, WorkShape
  <2>5. HistoryOK' /\ ParentsTellTheTruth'
    BY <2>1 DEF BatchInv, HistoryOK, ParentsTellTheTruth, Present
  <2>. QED
    BY <1>a, <2>1, <2>2, <2>3, <2>4, <2>5, SharedStep
<1>2. ASSUME NEW c \in Collections, NEW i \in Ids,
             PurgeRow(c, i) /\ UNCHANGED <<req, batch, work, wrote>>
      PROVE  BatchInv'
  <2>1. /\ bso' = [bso EXCEPT ![c][i] = NoRow]
        /\ UNCHANGED <<now, uc, req, batch, work, wrote>>
        /\ txn' = [q \in Clients |-> IF Overwritten(txn[q], {}, {<<c, i>>})
                                     THEN DeadTxn ELSE txn[q]]
    BY <1>2 DEF PurgeRow
  <2>2. bso' \in [Collections -> [Ids -> Row \cup {NoRow}]]
    BY <1>0, <2>1
  <2>3. txn' \in [Clients -> Txn]
    BY <1>0, <2>1, NoTxnType
  <2>4. TypeOK'
    BY <1>0, <2>1, <2>2, <2>3 DEF TypeOK, StoreTypeOK
  <2>5. \A d \in Collections, j \in Ids :
           bso'[d][j] = IF d = c /\ j = i THEN NoRow ELSE bso[d][j]
    BY <1>0, <2>1
  <2>6. ASSUME NEW q \in Clients PROVE GoesOn(q)
    <3>1. \/ txn'[q] = txn[q] /\ (txn[q].mode = "rw" => <<c, i>> \notin txn[q].rows)
          \/ txn'[q] = DeadTxn /\ txn[q].mode = "rw"
      BY <2>1 DEF Overwritten
    <3>2. DeadTxn.mode # "rw"
      BY DEF DeadTxn, EmptyTxn
    <3>3. Undisturbed(q)
      BY <2>1, <2>5, <3>1, <3>2 DEF Undisturbed
    <3>. QED
      BY <1>b, <2>1, <3>1, <3>3, BatchesAssumption DEF GoesOn, Holds, WorkShape
  <2>7. HistoryOK'
    BY <2>1 DEF BatchInv, HistoryOK
  <2>8. ParentsTellTheTruth'
    BY <2>1, <2>5 DEF BatchInv, ParentsTellTheTruth, Present, NoRow
  <2>9. now <= now'
    BY <1>0, <2>1
  <2>. QED
    BY <1>a, <2>1, <2>4, <2>6, <2>7, <2>8, <2>9, SharedStep
<1>3. ASSUME NEW b \in Batches, PurgeBatch(b) PROVE BatchInv'
  <2>1. /\ batch[b].st = "open" /\ batch' = [batch EXCEPT ![b] = Spent(b)]
        /\ UNCHANGED <<now, uc, bso, txn, req, wrote>>
        /\ work' = [p \in Clients |->
                      [work[p] EXCEPT !.dead = @ \/ work[p].id = b
                                                 \/ b \in work[p].removed]]
    BY <1>3 DEF PurgeBatch
  <2>2. Spent(b) \in Batch /\ Spent(b).st = "gone" /\ Spent(b).items = NoItems
        /\ Spent(b).coll = batch[b].coll
    BY <1>0, NoItemsType DEF Spent, Batch
  <2>3. \A d \in Batches : batch'[d] = IF d = b THEN Spent(b) ELSE batch[d]
    BY <1>0, <2>1
  <2>4. ASSUME NEW q \in Clients
        PROVE  /\ work'[q] \in Work /\ work'[q].id = work[q].id /\ work'[q].exp = work[q].exp
               /\ work'[q].adds = work[q].adds /\ work'[q].removed = work[q].removed
               /\ ~work'[q].dead => ~work[q].dead /\ work[q].id # b
    <3>. DEFINE dead == work[q].dead \/ work[q].id = b \/ b \in work[q].removed
    <3>1. work'[q] = [work[q] EXCEPT !.dead = dead]
      BY <2>1
    <3>2. dead \in BOOLEAN /\ (~dead => ~work[q].dead /\ work[q].id # b)
      BY <1>0 DEF Work
    <3>3. work[q] \in Work
      BY <1>0
    <3>. HIDE DEF dead
    <3>. QED
      BY <3>1, <3>2, <3>3 DEF Work
  <2>5. TypeOK'
    <3>1. work' = [q \in Clients |-> work'[q]]
      BY <2>1
    <3>2. work' \in [Clients -> Work]
      BY <2>4, <3>1
    <3>. QED
      BY <1>0, <2>1, <2>2, <3>2 DEF TypeOK, StoreTypeOK
  <2>6. ASSUME NEW q \in Clients PROVE GoesOn(q)
    <3>1. Undisturbed(q)
      BY <1>b, <2>1, <2>2, <2>3, <2>4 DEF Undisturbed
    <3>2. work[q].exp # 0 => batch'[work[q].id].st = "fresh"
      BY <1>b, <2>1, <2>3, BatchesAssumption DEF Holds, WorkShape
    <3>. QED
      BY <2>1, <3>1, <3>2 DEF GoesOn
  <2>7. HistoryOK' /\ ParentsTellTheTruth'
    BY <2>1, <2>2, <2>3 DEF BatchInv, HistoryOK, ParentsTellTheTruth, Present
  <2>8. now <= now'
    BY <1>0, <2>1
  <2>. QED
    BY <1>a, <2>2, <2>3, <2>5, <2>6, <2>7, <2>8, SharedStep
<1>. QED
  BY <1>1, <1>2, <1>3 DEF Environment

(* What a commit leaves of the batches keeps their type and history.         *)
LEMMA ItemsSeenType ==
  ASSUME TypeOK, NEW p \in Clients, work[p].id \in Batches
  PROVE  ItemsSeen(p) \in [Ids -> Item]
<1>1. work[p].adds \in [Ids -> Item] /\ batch[work[p].id].items \in [Ids -> Item]
  BY UploadFields DEF TypeOK, Batch
<1>. QED
  BY <1>1 DEF ItemsSeen

LEMMA SpentFields ==
  ASSUME TypeOK, NEW b \in Batches
  PROVE  /\ Spent(b) \in Batch /\ Spent(b).st = "gone" /\ Spent(b).items = NoItems
         /\ Spent(b).coll = batch[b].coll /\ Spent(b).exp = batch[b].exp
<1>1. batch[b] \in Batch
  BY DEF TypeOK
<1>. QED
  BY <1>1, NoItemsType DEF Spent, Batch

\* What a commit of p makes of a batch.
BatchMoves(p, b) ==
    \/ b \in work[p].removed /\ batch'[b] = Spent(b)
    \/ b \notin work[p].removed /\ work[p].id # b /\ batch'[b] = batch[b]
    \/ /\ b \notin work[p].removed /\ work[p].id = b /\ work[p].exp # 0
       /\ batch'[b].st = "open" /\ batch'[b].coll = req[p].coll
       /\ batch'[b].exp = work[p].exp /\ batch'[b].items = ItemsSeen(p)
    \/ /\ b \notin work[p].removed /\ work[p].id = b /\ work[p].exp = 0
       /\ batch[b].st = "open" /\ batch[b].coll = req[p].coll
       /\ batch'[b].st = "open" /\ batch'[b].coll = req[p].coll
       /\ batch'[b].exp = batch[b].exp /\ batch'[b].items = ItemsSeen(p)

LEMMA CommitBatches ==
  ASSUME BatchInv, NEW p \in Clients, CommitWrite(p), NEW b \in Batches
  PROVE  batch'[b] \in Batch /\ BatchMoves(p, b)
<1>1. /\ TypeOK /\ batch[b] \in Batch /\ batch'[b] = BatchAfter(p, b)
      /\ Current(req[p], txn[p], work[p])
      /\ req[p].coll \in Collections /\ work[p].exp \in Nat
  BY CommitBasics, UploadFields DEF BatchInv, TypeOK
<1>2. CASE b \in work[p].removed
  <2>1. batch'[b] = Spent(b)
    BY <1>1, <1>2 DEF BatchAfter
  <2>. QED
    BY <1>1, <1>2, <2>1, SpentFields DEF BatchMoves
<1>3. CASE b \notin work[p].removed /\ work[p].id # b
  BY <1>1, <1>3 DEF BatchAfter, BatchMoves
<1>4. CASE b \notin work[p].removed /\ work[p].id = b /\ work[p].exp # 0
  <2>1. ItemsSeen(p) \in [Ids -> Item]
    BY <1>1, <1>4, ItemsSeenType
  <2>2. batch'[b] = [st |-> "open", coll |-> req[p].coll, exp |-> work[p].exp,
                     items |-> ItemsSeen(p)]
    BY <1>1, <1>4 DEF BatchAfter
  <2>3. batch'[b] \in Batch /\ batch'[b].st = "open" /\ batch'[b].coll = req[p].coll
        /\ batch'[b].exp = work[p].exp /\ batch'[b].items = ItemsSeen(p)
    BY <1>1, <2>1, <2>2 DEF Batch
  <2>. QED
    BY <1>4, <2>3 DEF BatchMoves
<1>5. CASE b \notin work[p].removed /\ work[p].id = b /\ work[p].exp = 0
  <2>1. ItemsSeen(p) \in [Ids -> Item]
    BY <1>1, <1>5, ItemsSeenType
  <2>2. batch'[b] = [batch[b] EXCEPT !.items = ItemsSeen(p)]
    BY <1>1, <1>5 DEF BatchAfter
  <2>3. batch[b].st = "open" /\ batch[b].coll = req[p].coll
    BY <1>1, <1>5, BatchesAssumption DEF Current
  <2>4. batch'[b] \in Batch /\ batch'[b].st = batch[b].st /\ batch'[b].coll = batch[b].coll
        /\ batch'[b].exp = batch[b].exp /\ batch'[b].items = ItemsSeen(p)
    BY <1>1, <2>1, <2>2 DEF Batch
  <2>. QED
    BY <1>5, <2>3, <2>4 DEF BatchMoves
<1>. QED
  BY <1>2, <1>3, <1>4, <1>5

(* The batches a commit removes are the one it stores, or open ones of the   *)
(* collection it deletes: never one that another request is making.          *)
LEMMA RemovedBatches ==
  ASSUME BatchInv, NEW p \in Clients, req[p].pc = "commit", NEW b \in work[p].removed
  PROVE  b = work[p].id \/ batch[b].st # "fresh"
<1>1. WorkShape(req[p], work[p]) /\ Holds(req[p], work[p]) /\ req[p].kind \in {"post", "delete"}
  BY UploadFields DEF BatchInv, Shapes, Holding, Request
<1>. QED
  BY <1>1 DEF WorkShape, Holds, Storing

LEMMA CommitTypes ==
  ASSUME BatchInv, NEW p \in Clients, CommitWrite(p)
  PROVE  TypeOK'
<1>1. /\ TypeOK /\ StoreTypeOK /\ txn[p] \in Txn /\ MutationsApply(txn[p])
      /\ uc' = [k \in CollKeys |-> CollView(txn[p], k)]
      /\ bso' = [c \in Collections |-> [i \in Ids |-> RowAfter(txn[p], c, i)]]
      /\ batch' = [b \in Batches |-> BatchAfter(p, b)]
  BY CommitBasics DEF BatchInv, TypeOK
<1>2. uc' \in [CollKeys -> Absent..MaxTime]
  BY <1>1, ViewType
<1>3. bso' \in [Collections -> [Ids -> Row \cup {NoRow}]]
  BY <1>1, RowAfterType
<1>4. txn' \in [Clients -> Txn]
  BY <1>1, NoTxnType DEF CommitWrite, Commit, TypeOK, StoreTypeOK
<1>5. batch' \in [Batches -> Batch]
  BY <1>1, CommitBatches
<1>6. work' \in [Clients -> Work]
  <2>1. work' = [q \in Clients |->
                   IF q = p THEN NoWork
                   ELSE [work[q] EXCEPT !.dead = @ \/ Overwrites(p, q)]]
    BY DEF CommitWrite
  <2>2. ASSUME NEW q \in Clients
        PROVE  [work[q] EXCEPT !.dead = work[q].dead \/ Overwrites(p, q)] \in Work
    <3>1. work[q] \in Work
      BY <1>1, UploadFields
    <3>. DEFINE dead == work[q].dead \/ Overwrites(p, q)
    <3>2. dead \in BOOLEAN
      BY DEF Overwrites
    <3>. HIDE DEF dead
    <3>3. [work[q] EXCEPT !.dead = dead] \in Work
      BY <3>1, <3>2 DEF Work
    <3>. QED
      BY <3>3 DEF dead
  <2>. QED
    BY <2>1, <2>2, NoWorkType
<1>7. wrote' \in [Collections -> SUBSET (0..MaxTime)]
  <2>1. wrote' = [c \in Collections |-> WroteAfter(p, c)]
    BY DEF CommitWrite
  <2>2. ASSUME NEW c \in Collections PROVE WroteAfter(p, c) \in SUBSET (0..MaxTime)
    <3>1. wrote[c] \in SUBSET (0..MaxTime) /\ req[p].since \in (0..MaxTime) \cup {NotSet}
      BY <1>1, UploadFields DEF TypeOK, Request
    <3>2. req[p].since \in 0..(uc'[c] - 1) => req[p].since \in 0..MaxTime
      BY <3>1
    <3>. QED
      BY <3>1, <3>2 DEF WroteAfter
  <2>. QED
    BY <2>1, <2>2
<1>8. req' \in [Clients -> Request] /\ now' \in 1..MaxTime
  BY <1>1, IdleType DEF CommitWrite, Commit, TypeOK, StoreTypeOK
<1>. QED
  BY <1>2, <1>3, <1>4, <1>5, <1>6, <1>7, <1>8 DEF TypeOK, StoreTypeOK

(* A commit leaves the requests of others alone, or aborts them.             *)
LEMMA OthersGoOn ==
  ASSUME BatchInv, NEW p \in Clients, CommitWrite(p), NEW q \in Clients, q # p
  PROVE  GoesOn(q)
<1>1. /\ txn[p] \in Txn /\ req[p].pc = "commit"
      /\ txn[q] \in Txn /\ work[q] \in Work /\ work[p] \in Work
      /\ work[q].id \in Batches \cup {NewBatch}
      /\ uc' = [k \in CollKeys |-> CollView(txn[p], k)]
      /\ bso' = [c \in Collections |-> [i \in Ids |-> RowAfter(txn[p], c, i)]]
  BY CommitBasics, UploadFields DEF BatchInv
<1>2. /\ req'[q] = req[q]
      /\ txn'[q] = IF Overwritten(txn[q], CollsWritten(txn[p]), RowsWritten(txn[p]))
                   THEN DeadTxn ELSE txn[q]
      /\ work'[q] = [work[q] EXCEPT !.dead = work[q].dead \/ Overwrites(p, q)]
  BY DEF CommitWrite, Commit, BatchInv, TypeOK
<1>3. /\ work'[q].id = work[q].id /\ work'[q].exp = work[q].exp
      /\ work'[q].adds = work[q].adds /\ work'[q].removed = work[q].removed
      /\ ~work'[q].dead => ~work[q].dead /\ ~Overwrites(p, q)
  BY <1>1, <1>2 DEF Work
<1>4. \A b \in Batches : BatchMoves(p, b)
  BY CommitBatches
<1>5. /\ work[p].exp # 0 => work[q].id # work[p].id
      /\ work[q].exp # 0 => work[p].id # work[q].id
  BY DEF BatchInv, Holding
<1>6. ASSUME work[q].exp # 0 PROVE batch'[work[q].id].st = "fresh"
  <2>1. work[q].id \in Batches /\ batch[work[q].id].st = "fresh"
    BY <1>1, <1>6, BatchesAssumption DEF BatchInv, Shapes, Holding, Holds, WorkShape
  <2>2. work[q].id \notin work[p].removed
    BY <1>1, <1>5, <1>6, <2>1, RemovedBatches
  <2>. QED
    BY <1>4, <1>5, <1>6, <2>1, <2>2 DEF BatchMoves
<1>7. ASSUME txn'[q].mode = "rw", ~work'[q].dead
      PROVE  /\ txn'[q] = txn[q] /\ ~work[q].dead
             /\ \A k \in txn[q].reads : uc'[k] = uc[k]
             /\ \A c \in Collections, i \in Ids :
                   <<c, i>> \in txn[q].rows => bso'[c][i] = bso[c][i]
  <2>1. /\ txn'[q] = txn[q] /\ txn[q].mode = "rw"
        /\ ~Overwritten(txn[q], CollsWritten(txn[p]), RowsWritten(txn[p]))
    BY <1>2, <1>7 DEF DeadTxn, EmptyTxn
  <2>2. ASSUME NEW k \in txn[q].reads PROVE uc'[k] = uc[k]
    <3>1. k \in CollKeys /\ k \notin CollsWritten(txn[p])
      BY <1>1, <2>1, SMTT(30) DEF Overwritten, Txn
    <3>. QED
      BY <1>1, <3>1 DEF CollsWritten, CollView
  <2>3. ASSUME NEW c \in Collections, NEW i \in Ids, <<c, i>> \in txn[q].rows
        PROVE  bso'[c][i] = bso[c][i]
    <3>1. <<c, i>> \notin RowsWritten(txn[p])
      BY <2>1, <2>3 DEF Overwritten
    <3>2. txn[p].wb[c][i].mod = NotSet /\ txn[p].mut[c][i].op = "none"
      BY <3>1 DEF RowsWritten
    <3>. QED
      BY <1>1, <3>2 DEF RowAfter, BsoView, Mutated
  <2>. QED
    BY <1>3, <1>7, <2>1, <2>2, <2>3
<1>8. ASSUME ~work'[q].dead, work[q].id # NewBatch
      PROVE  /\ batch'[work[q].id].st = batch[work[q].id].st
             /\ batch'[work[q].id].coll = batch[work[q].id].coll
             /\ \A i \in Ids :
                   work[q].adds[i] # NoItem \/ work[q].id \in work[q].removed
                   => batch'[work[q].id].items[i] = batch[work[q].id].items[i]
  <2>1. ~Overwrites(p, q) /\ work[q].id \in Batches
    BY <1>1, <1>3, <1>8
  <2>2. work[q].id \notin work[p].removed
    BY <2>1 DEF Overwrites
  <2>3. CASE work[p].id # work[q].id
    BY <1>4, <2>1, <2>2, <2>3 DEF BatchMoves
  <2>4. CASE work[p].id = work[q].id
    <3>1. /\ batch[work[q].id].st = "open" /\ batch'[work[q].id].st = "open"
          /\ batch'[work[q].id].coll = batch[work[q].id].coll
          /\ batch'[work[q].id].items = ItemsSeen(p)
      BY <1>4, <1>5, <2>1, <2>2, <2>4 DEF BatchMoves
    <3>2. ASSUME NEW i \in Ids,
                 work[q].adds[i] # NoItem \/ work[q].id \in work[q].removed
          PROVE  work[p].adds[i] = NoItem
      BY <2>1, <2>4, <3>2 DEF Overwrites, Added
    <3>. QED
      BY <2>4, <3>1, <3>2 DEF ItemsSeen
  <2>. QED
    BY <2>3, <2>4
<1>9. ASSUME ~work'[q].dead, Removing(req[q]), NEW b \in Batches,
             batch'[b].st = "open", batch'[b].coll = req[q].coll
      PROVE  batch[b].st = "open" /\ batch[b].coll = req[q].coll
  <2>1. Spent(b).st = "gone"
    BY SpentFields DEF BatchInv
  <2>2. ~(work[p].exp # 0 /\ req[q].coll = req[p].coll)
    BY <1>3, <1>9 DEF Overwrites, Removing
  <2>. QED
    BY <1>4, <1>9, <2>1, <2>2 DEF BatchMoves
<1>10. Undisturbed(q)
  BY <1>2, <1>3, <1>7, <1>8, <1>9, SMTT(30) DEF Undisturbed
<1>. QED
  BY <1>2, <1>6, <1>10 DEF GoesOn, Overwritten

(* A collection's timestamp moves forward, or the collection goes.           *)
LEMMA CommitTimes ==
  ASSUME BatchInv, NEW p \in Clients, CommitWrite(p), NEW c \in Collections
  PROVE  uc'[c] = Absent \/ uc[c] <= uc'[c]
<1>1. /\ c \in CollKeys /\ Tombstone # c /\ uc[c] \in Absent..MaxTime
      /\ req[p].ts \in 1..MaxTime /\ uc[req[p].coll] < req[p].ts
      /\ CommitTables(p)
  BY CommitCases, CommitBasics, CollectionsAssumption
  DEF BatchInv, TypeOK, StoreTypeOK, CollKeys, Current
<1>. QED
  BY <1>1 DEF CommitTables, CommitsItems, CommitsBatch, CommitsRemoval

LEMMA CommitHistory ==
  ASSUME BatchInv, NEW p \in Clients, CommitWrite(p)
  PROVE  HistoryOK'
<1>. SUFFICES ASSUME NEW c \in Collections, NEW x \in wrote'[c] PROVE x < uc'[c]
  BY DEF HistoryOK
<1>1. /\ wrote'[c] = WroteAfter(p, c) /\ wrote[c] \in SUBSET (0..MaxTime)
      /\ uc[c] \in Absent..MaxTime /\ uc'[c] \in Absent..MaxTime
  BY CommitTypes DEF CommitWrite, BatchInv, TypeOK, StoreTypeOK, CollKeys
<1>2. uc'[c] # Absent /\ x \in wrote[c] \cup {req[p].since}
  BY <1>1 DEF WroteAfter
<1>3. CASE x \in wrote[c]
  <2>1. x < uc[c] /\ x \in 0..MaxTime
    BY <1>1, <1>3 DEF BatchInv, HistoryOK
  <2>. QED
    BY <1>1, <1>2, <2>1, CommitTimes, MaxTimeAssumption
<1>4. CASE x \notin wrote[c]
  <2>1. x \in 0..(uc'[c] - 1)
    BY <1>1, <1>2, <1>4 DEF WroteAfter
  <2>. QED
    BY <1>1, <2>1, MaxTimeAssumption
<1>. QED
  BY <1>3, <1>4

\* The rows a batch stores carry its timestamp, or the one they had.
LEMMA StoredRows ==
  ASSUME BatchInv, NEW p \in Clients, CommitWrite(p), Storing(req[p]), CommitsBatch(p),
         NEW i \in Ids
  PROVE  LET row == bso'[req[p].coll][i] IN
         Present(row) => row.mod = req[p].ts
                         \/ (Present(bso[req[p].coll][i])
                             /\ row.mod = bso[req[p].coll][i].mod)
<1>. DEFINE r == req[p]
            old == bso[r.coll][i]
            item == batch[work[p].id].items[i]
            seen == ItemRow(p, i)
<1>1. /\ r.coll \in Collections /\ r.ts \in 1..MaxTime /\ work[p].id \in Batches
      /\ old \in Row \cup {NoRow} /\ item \in Item
  BY CommitBasics, UploadFields DEF BatchInv, TypeOK, StoreTypeOK, Batch, CommitsBatch
<1>2. seen = old \/ seen.mod = r.ts
  <2>1. item # NoItem => ByItem(old, item, r.ts).mod = r.ts
    <3>. HIDE DEF r, old, item
    <3>. QED
      BY <1>1, ByItemType
  <2>. QED
    BY <2>1 DEF ItemRow
<1>3. bso'[r.coll][i] = IF i \in r.ids \ r.failed
                        THEN Mutated(ItemMutation(r, old), seen) ELSE seen
  BY <1>1 DEF CommitsBatch
<1>4. \/ Mutated(ItemMutation(r, old), seen).mod = r.ts
      \/ Present(old) /\ Mutated(ItemMutation(r, old), seen).mod = seen.mod
  BY <1>1 DEF ItemMutation, Mutated, UpdateRow, InsertRow
<1>. HIDE DEF r, old, item, seen
<1>5. LET row == bso'[r.coll][i] IN
      Present(row) => row.mod = r.ts \/ (Present(old) /\ row.mod = old.mod)
  BY <1>1, <1>2, <1>3, <1>4 DEF Present
<1>. QED
  BY <1>5 DEF r, old

LEMMA CommitParents ==
  ASSUME BatchInv, NEW p \in Clients, CommitWrite(p)
  PROVE  ParentsTellTheTruth'
<1>. DEFINE r == req[p]
            w == work[p]
<1>1. /\ r.coll \in Collections /\ r.ts \in 1..MaxTime /\ uc[r.coll] < r.ts
      /\ Tombstone \notin Collections /\ \A c \in Collections : c \in CollKeys
      /\ CommitTables(p) /\ w.id \in Batches \cup {NewBatch}
      /\ uc \in [CollKeys -> Absent..MaxTime]
  BY CommitCases, CommitBasics, UploadFields, CollectionsAssumption
  DEF BatchInv, TypeOK, StoreTypeOK, CollKeys, Current
<1>2. /\ \A c \in Collections, i \in Ids :
             Present(bso[c][i]) => uc[c] > PRETOUCH /\ bso[c][i].mod <= uc[c]
      /\ \A b \in Batches : batch[b].st = "open" => uc[batch[b].coll] # Absent
      /\ \A c \in Collections, i \in Ids : bso[c][i] \in Row \cup {NoRow}
      /\ \A b \in Batches : batch[b].coll \in Collections
  BY DEF BatchInv, ParentsTellTheTruth, TypeOK, StoreTypeOK, Batch
<1>3. ASSUME NEW b \in Batches
      PROVE  BatchMoves(p, b) /\ Spent(b).st = "gone"
  BY CommitBatches, SpentFields DEF BatchInv
<1>4. ASSUME NEW c \in Collections, NEW i \in Ids, Present(bso'[c][i])
      PROVE  uc'[c] > PRETOUCH /\ bso'[c][i].mod <= uc'[c]
  <2>1. CASE bso' = bso /\ (uc' = uc \/ CommitsItems(p))
    <3>1. uc[c] > PRETOUCH /\ bso[c][i].mod <= uc[c]
      BY <1>2, <1>4, <2>1
    <3>2. uc'[c] = uc[c]
      BY <1>1, <2>1, <3>1 DEF CommitsItems
    <3>. QED
      BY <2>1, <3>1, <3>2
  <2>2. CASE Storing(r) /\ CommitsBatch(p)
    <3>1. uc'[c] = IF c = r.coll THEN r.ts ELSE uc[c]
      BY <1>1, <2>2 DEF CommitsBatch
    <3>2. CASE c # r.coll
      <4>1. bso'[c][i] = bso[c][i]
        BY <2>2, <3>2 DEF CommitsBatch
      <4>. QED
        BY <1>2, <1>4, <3>1, <3>2, <4>1
    <3>3. CASE c = r.coll
      <4>1. \/ bso'[c][i].mod = r.ts
            \/ Present(bso[c][i]) /\ bso'[c][i].mod = bso[c][i].mod
        BY <1>4, <2>2, <3>3, StoredRows
      <4>2. Present(bso[c][i]) => bso[c][i].mod <= uc[c] /\ bso[c][i] \in Row
        BY <1>2 DEF Present, NoRow
      <4>3. uc[c] \in Absent..MaxTime /\ (bso[c][i] \in Row => bso[c][i].mod \in 1..MaxTime)
        BY <1>1 DEF Row
      <4>. QED
        BY <1>1, <3>1, <3>3, <4>1, <4>2, <4>3, MaxTimeAssumption
    <3>. QED
      BY <3>2, <3>3
  <2>3. CASE CommitsRemoval(p)
    <3>1. c # r.coll /\ bso'[c][i] = bso[c][i]
      BY <1>4, <2>3 DEF CommitsRemoval, Present, NoRow
    <3>2. uc'[c] = uc[c]
      BY <1>1, <2>3, <3>1 DEF CommitsRemoval
    <3>. QED
      BY <1>2, <1>4, <3>1, <3>2
  <2>. QED
    BY <1>1, <2>1, <2>2, <2>3 DEF CommitTables, CommitsItems
<1>5. ASSUME NEW b \in Batches, batch'[b].st = "open"
      PROVE  uc'[batch'[b].coll] # Absent
  <2>1. CASE uc' = uc /\ batch' = batch
    BY <1>2, <1>5, <2>1
  <2>2. CASE CommitsItems(p)
    <3>1. CASE batch[b].st = "open" /\ batch'[b].coll = batch[b].coll
      BY <1>1, <1>2, <2>2, <3>1 DEF CommitsItems
    <3>2. CASE batch'[b].coll = r.coll /\ w.exp # 0
      BY <1>1, <2>2, <3>2 DEF CommitsItems
    <3>. QED
      BY <1>3, <1>5, <3>1, <3>2 DEF BatchMoves
  <2>3. CASE CommitsBatch(p)
    <3>1. batch'[b] = batch[b]
      BY <1>3, <1>5, <2>3 DEF CommitsBatch
    <3>. QED
      BY <1>1, <1>2, <1>5, <2>3, <3>1 DEF CommitsBatch
  <2>4. CASE CommitsRemoval(p)
    <3>1. batch'[b] = batch[b] /\ batch[b].coll # r.coll
      BY <1>3, <1>5, <2>4 DEF CommitsRemoval
    <3>. QED
      BY <1>1, <1>2, <1>5, <2>4, <3>1 DEF CommitsRemoval
  <2>. QED
    BY <1>1, <2>1, <2>2, <2>3, <2>4 DEF CommitTables
<1>. QED
  BY <1>4, <1>5 DEF ParentsTellTheTruth

(* A commit keeps the invariant: others that read what it overwrites are     *)
(* aborted, and the rest go on.                                              *)
LEMMA CommitStep ==
  ASSUME BatchInv, NEW p \in Clients, CommitWrite(p)
  PROVE  BatchInv'
<1>1. Closed(p)
  BY DEF Closed, CommitWrite, Commit, BatchInv, TypeOK, StoreTypeOK
<1>2. \A q \in Clients : Closed(q) \/ GoesOn(q)
  BY <1>1, OthersGoOn
<1>3. \A b \in Batches : batch[b].st # "open" => batch[b].items = NoItems
  BY DEF BatchInv, Holding
<1>4. ASSUME NEW b \in Batches
      PROVE  /\ batch[b].st # "fresh"
                => batch'[b].st # "fresh" /\ batch'[b].coll = batch[b].coll
             /\ batch'[b].st # "open" => batch'[b].items = NoItems
  <2>1. BatchMoves(p, b)
    BY CommitBatches
  <2>2. Spent(b).st = "gone" /\ Spent(b).items = NoItems /\ Spent(b).coll = batch[b].coll
    BY SpentFields DEF BatchInv
  <2>3. Holds(req[p], work[p]) /\ work[p].id \in Batches \cup {NewBatch}
    BY UploadFields DEF BatchInv, Holding
  <2>. QED
    BY <1>3, <2>1, <2>2, <2>3, BatchesAssumption DEF BatchMoves, Holds
<1>5. now <= now'
  BY DEF CommitWrite, Commit, BatchInv, TypeOK, StoreTypeOK
<1>. QED
  BY <1>2, <1>4, <1>5, CommitTypes, CommitHistory, CommitParents, SharedStep

-----------------------------------------------------------------------------
(* Every step keeps the invariant.                                           *)
LEMMA InitInv == Init => BatchInv
<1>. SUFFICES ASSUME Init PROVE BatchInv
  OBVIOUS
<1>1. /\ now = 1 /\ uc = [k \in CollKeys |-> Absent]
      /\ bso = [c \in Collections |-> [i \in Ids |-> NoRow]]
      /\ txn = [p \in Clients |-> NoTxn] /\ req = [p \in Clients |-> Idle]
      /\ batch = [b \in Batches |-> [st |-> "fresh", coll |-> AnyCollection,
                                     exp |-> 0, items |-> NoItems]]
      /\ work = [p \in Clients |-> NoWork] /\ wrote = [c \in Collections |-> {}]
  BY DEF Init, StoreInit
<1>2. AnyCollection \in Collections
  BY CollectionsAssumption DEF AnyCollection
<1>3. TypeOK
  <2>1. batch \in [Batches -> Batch]
    BY <1>1, <1>2, NoItemsType DEF Batch
  <2>. QED
    BY <1>1, <2>1, IdleType, NoTxnType, NoWorkType, MaxTimeAssumption
    DEF TypeOK, StoreTypeOK
<1>4. NoTxn.mode = "none" /\ NoWork.id = NewBatch /\ NoWork.exp = 0
      /\ NoWork.adds = NoItems /\ NoWork.removed = {}
  BY DEF NoTxn, EmptyTxn, NoWork
<1>5. Shape(Idle, NoTxn, NoWork) /\ WorkShape(Idle, NoWork) /\ Holds(Idle, NoWork)
  <2>1. Idle.pc = "idle" /\ Idle.kind = "post" /\ Idle.ids = {} /\ Idle.failed = {}
    BY DEF Idle
  <2>. QED
    BY <1>4, <2>1 DEF Shape, WorkShape, Preparing, Storing, Holds
<1>6. SafeUpload(Idle, NoTxn, NoWork)
  BY <1>4, ClosedIsSafe
<1>7. Shapes /\ Uploading
  BY <1>1, <1>5, <1>6 DEF Shapes, Uploading
<1>8. Holding
  BY <1>1, <1>4, <1>5 DEF Holding
<1>9. HistoryOK /\ ParentsTellTheTruth
  BY <1>1 DEF HistoryOK, ParentsTellTheTruth, Present, NoRow
<1>. QED
  BY <1>3, <1>7, <1>8, <1>9 DEF BatchInv

LEMMA ServeInv ==
  ASSUME BatchInv, NEW p \in Clients, Start(p) \/ Serve(p) \/ GiveUp(p)
  PROVE  BatchInv'
<1>1. CASE Start(p)
  BY <1>1, StartStep
<1>2. CASE Lock(p)
  BY <1>2, LockStep
<1>3. CASE LockConflict(p) \/ CommitRefused(p) \/ GiveUp(p)
  BY <1>3, CloseStep DEF LockConflict, CommitRefused, GiveUp
<1>4. CASE ValidateBatch(p)
  BY <1>4, ValidateStep
<1>5. CASE CreateBatch(p)
  BY <1>5, CreateStep
<1>6. CASE AppendToBatch(p)
  BY <1>6, AppendStep
<1>7. CASE AppendFails(p)
  BY <1>7, AppendFailsStep
<1>8. CASE PostBsos(p) \/ PostBsosFails(p)
  BY <1>8, PostStep
<1>9. CASE CommitBatch(p)
  BY <1>9, CommitBatchStep
<1>10. CASE DeleteCollection(p)
  BY <1>10, DeleteStep
<1>11. CASE CommitWrite(p)
  BY <1>11, CommitStep
<1>. QED
  BY <1>1, <1>2, <1>3, <1>4, <1>5, <1>6, <1>7, <1>8, <1>9, <1>10, <1>11 DEF Serve

LEMMA NextInv == BatchInv /\ [Next]_vars => BatchInv'
<1>. SUFFICES ASSUME BatchInv, [Next]_vars PROVE BatchInv'
  OBVIOUS
<1>1. CASE UNCHANGED vars
  <2>1. \A p \in Clients : Good(p, req[p], txn[p], work[p])
    BY OwnGood
  <2>2. TypeOK' /\ HistoryOK' /\ ParentsTellTheTruth'
    BY <1>1 DEF BatchInv, TypeOK, StoreTypeOK, HistoryOK, ParentsTellTheTruth, Present, vars
  <2>3. \A q \in Clients : GoesOn(q)
    BY <1>1, <2>1, BatchesAssumption
    DEF GoesOn, Undisturbed, Good, Holds, WorkShape, Work, vars
  <2>4. \A b \in Batches : batch[b].st # "open" => batch[b].items = NoItems
    BY DEF BatchInv, Holding
  <2>5. now <= now'
    BY <1>1 DEF vars, BatchInv, TypeOK, StoreTypeOK
  <2>. QED
    BY <1>1, <2>2, <2>3, <2>4, <2>5, SharedStep DEF vars
<1>2. CASE Next
  BY <1>2, ServeInv, EnvironmentStep DEF Next
<1>. QED
  BY <1>1, <1>2

THEOREM BatchInvariant == Spec => []BatchInv
BY InitInv, NextInv, PTL DEF Spec

(* Every state of the upload protocol is well formed (batch.rs, models.rs,   *)
(* handlers.rs post_collection_batch).                                       *)
THEOREM UploadsTypeCorrect == Spec => []TypeOK
<1>1. BatchInv => TypeOK
  BY DEF BatchInv
<1>. QED
  BY <1>1, BatchInvariant, PTL

(* The parent of a batch is told from a collection with data, and every open *)
(* batch and stored BSO has its parent (pretouch_collection_async,           *)
(* touch_collection, ON DELETE CASCADE).                                     *)
THEOREM BatchParentsTellTheTruth == Spec => []ParentsTellTheTruth
<1>1. BatchInv => ParentsTellTheTruth
  BY DEF BatchInv
<1>. QED
  BY <1>1, BatchInvariant, PTL

-----------------------------------------------------------------------------
(* What the answers promise.                                                 *)

\* What a committing request buffered and stored, seen by its mutations.
LEMMA RefusedForItem ==
  ASSUME BatchInv, NEW p \in Clients, req[p].pc = "commit", Live(p),
         ~MutationsApply(txn[p])
  PROVE  /\ req[p].commit
         /\ \E i \in req[p].ids : /\ batch[work[p].id].items[i] # NoItem
                                  /\ ~Present(bso[req[p].coll][i])
<1>. DEFINE r == req[p]
            t == txn[p]
            w == work[p]
<1>1. /\ Progress(r, t, w) /\ Shape(r, t, w) /\ WorkShape(r, w)
      /\ r.kind \in {"post", "delete"}
  BY LiveIsSafe, UploadFields DEF BatchInv, Shapes, Request
<1>2. ~NoBuffered(t)
  BY DEF NoBuffered, NoMutation, MutationsApply
<1>3. Storing(r)
  BY <1>1, <1>2 DEF Progress, Shape, Looking, Preparing, Storing, Removing, Nothing,
     RemovesCollection
<1>4. StoresBatch(r, t, w) /\ w.id \in Batches /\ r.commit
  BY <1>1, <1>3 DEF Progress, WorkShape, Shape, Storing
<1>5. PICK d \in Collections, i \in Ids :
        ~(/\ t.mut[d][i].op = "insert" => /\ ~Present(BsoView(t, d, i))
                                          /\ CollView(t, d) # Absent
          /\ t.mut[d][i].op = "update" => Present(BsoView(t, d, i)))
  BY DEF MutationsApply
<1>6. /\ r.coll \in CollKeys /\ r.ts \in 1..MaxTime
      /\ bso[d][i] \in Row \cup {NoRow} /\ batch[w.id].items[i] \in Item
  <2>1. r.ts \in 1..now /\ now \in 1..MaxTime
    BY <1>1, UploadFields DEF BatchInv, Shape
  <2>. QED
    BY <1>4, <2>1, UploadFields, MaxTimeAssumption DEF BatchInv, TypeOK, StoreTypeOK, Batch
<1>7. /\ d = r.coll /\ i \in r.ids \ r.failed
      /\ t.mut[d][i] = IF Present(bso[d][i]) THEN UpdateRow(r.body, r.ts)
                       ELSE InsertRow(r.body, r.ts)
  BY <1>4, <1>5 DEF StoresBatch, BuffersItems, NoMutation
<1>8. t.mut[d][i].op = IF Present(bso[d][i]) THEN "update" ELSE "insert"
  BY <1>7 DEF UpdateRow, InsertRow
<1>9. CollView(t, d) # Absent
  BY <1>4, <1>6, <1>7 DEF StoresBatch, WritesOnly, CollView
<1>10. BsoView(t, d, i) = IF batch[w.id].items[i] # NoItem
                          THEN ByItem(bso[d][i], batch[w.id].items[i], r.ts)
                          ELSE bso[d][i]
  <2>1. t.wb[d][i] = IF batch[w.id].items[i] # NoItem
                     THEN ByItem(bso[d][i], batch[w.id].items[i], r.ts) ELSE NotStaged
    BY <1>4, <1>7 DEF StoresBatch, StagesBatch
  <2>2. batch[w.id].items[i] # NoItem
        => ByItem(bso[d][i], batch[w.id].items[i], r.ts).mod = r.ts
    <3>. HIDE DEF r, w
    <3>. QED
      BY <1>6, ByItemType
  <2>. QED
    BY <1>6, <2>1, <2>2 DEF BsoView, NotStaged
<1>11. batch[w.id].items[i] # NoItem => Present(BsoView(t, d, i))
  <2>1. batch[w.id].items[i] # NoItem
        => ByItem(bso[d][i], batch[w.id].items[i], r.ts).mod = r.ts
    <3>. HIDE DEF r, w
    <3>. QED
      BY <1>6, ByItemType
  <2>. QED
    BY <1>6, <1>10, <2>1 DEF Present
<1>12. batch[w.id].items[i] # NoItem /\ ~Present(bso[d][i])
  BY <1>5, <1>8, <1>9, <1>10, <1>11
<1>. QED
  BY <1>4, <1>7, <1>12

(* Commit answers ALREADY_EXISTS for one reason: the committing POST names a *)
(* new BSO that is pending in its batch too (post_bsos before commit_async). *)
THEOREM RefusalsAreForRepeatedItems == Spec => []RefusedOnlyForRepeatedItem
<1>1. BatchInv => RefusedOnlyForRepeatedItem
  BY RefusedForItem DEF RefusedOnlyForRepeatedItem
<1>. QED
  BY <1>1, BatchInvariant, PTL

(* A request ends by its commit, or without effect. *)
LEMMA EndOfRequest ==
  ASSUME BatchInv, [Next]_vars, NEW p \in Clients,
         req[p].pc = "commit", req'[p].pc = "idle"
  PROVE  CommitWrite(p) \/ UNCHANGED <<uc, bso, batch>>
<1>1. req \in [Clients -> Request] /\ req'[p] # req[p]
  BY DEF BatchInv, TypeOK
<1>2. ~UNCHANGED req
  BY <1>1
<1>3. PICK q \in Clients : Start(q) \/ Serve(q) \/ GiveUp(q)
  BY <1>2 DEF Next, Environment, PurgeBatch, vars
<1>4. CASE q # p
  <2>1. ASSUME NEW r, req' = [req EXCEPT ![q] = r] PROVE FALSE
    BY <1>1, <1>4, <2>1
  <2>2. Start(q) => \E r : req' = [req EXCEPT ![q] = r]
    BY ZenonT(60) DEF Start
  <2>3. Serve(q) \/ GiveUp(q) => \E r : req' = [req EXCEPT ![q] = r]
    <3>1. \A f : Received(q, f) => \E r : req' = [req EXCEPT ![q] = r]
      BY Zenon DEF Received
    <3>2. Close(q) => \E r : req' = [req EXCEPT ![q] = r]
      BY Zenon DEF Close
    <3>3. ValidateBatch(q) => \E r : req' = [req EXCEPT ![q] = r]
      BY <3>2, Zenon DEF ValidateBatch
    <3>4. CommitBatch(q) => \E r : req' = [req EXCEPT ![q] = r]
      BY <3>2, ZenonT(60) DEF CommitBatch
    <3>5. Lock(q) \/ CreateBatch(q) \/ DeleteCollection(q) \/ CommitWrite(q)
          => \E r : req' = [req EXCEPT ![q] = r]
      BY ZenonT(60) DEF Lock, CreateBatch, DeleteCollection, CommitWrite
    <3>6. AppendToBatch(q) \/ AppendFails(q) \/ PostBsos(q) \/ PostBsosFails(q)
          => \E r : req' = [req EXCEPT ![q] = r]
      BY <3>1, Zenon DEF AppendToBatch, AppendFails, PostBsos, PostBsosFails
    <3>7. LockConflict(q) \/ CommitRefused(q) \/ GiveUp(q)
          => \E r : req' = [req EXCEPT ![q] = r]
      BY <3>2, Zenon DEF LockConflict, CommitRefused, GiveUp
    <3>. QED
      BY <3>3, <3>4, <3>5, <3>6, <3>7 DEF Serve
  <2>. QED
    BY <1>3, <2>1, <2>2, <2>3
<1>5. CASE q = p
  <2>1. CASE CommitRefused(p) \/ GiveUp(p)
    BY <2>1 DEF CommitRefused, GiveUp, Close, Discard
  <2>2. ~(Start(p) \/ Lock(p) \/ LockConflict(p) \/ ValidateBatch(p) \/ CreateBatch(p)
          \/ AppendToBatch(p) \/ AppendFails(p) \/ PostBsos(p) \/ PostBsosFails(p)
          \/ CommitBatch(p) \/ DeleteCollection(p))
    BY DEF Start, Lock, LockConflict, ValidateBatch, CreateBatch, AppendToBatch,
       AppendFails, PostBsos, PostBsosFails, CommitBatch, DeleteCollection
  <2>. QED
    BY <1>3, <1>5, <2>1, <2>2 DEF Serve
<1>. QED
  BY <1>4, <1>5

LEMMA OnceStep ==
  ASSUME BatchInv, [Next]_vars, NEW p \in Clients,
         req[p].pc = "commit", req'[p].pc = "idle", req[p].since # NotSet,
         bso'[req[p].coll] # bso[req[p].coll]
  PROVE  req[p].since \notin wrote[req[p].coll]
<1>1. CommitWrite(p)
  BY EndOfRequest
<1>2. Current(req[p], txn[p], work[p]) /\ CommitTables(p)
  BY <1>1, CommitBasics, CommitCases
<1>3. req[p].status # 412
  BY <1>2 DEF CommitTables, CommitsItems, Storing, Removing
<1>4. /\ uc[req[p].coll] <= req[p].since /\ req[p].coll \in Collections
      /\ uc[req[p].coll] \in Absent..MaxTime /\ req[p].since \in 0..MaxTime
  BY <1>2, <1>3, UploadFields DEF Current, BatchInv, Request
<1>. QED
  BY <1>4, MaxTimeAssumption DEF BatchInv, HistoryOK

(* A retry under the same X-If-Unmodified-Since writes its collection no     *)
(* second time (transaction_http, lock_for_write).                           *)
THEOREM RetriesWriteOnce == Spec => ConditionalOnce
<1>1. BatchInv /\ [Next]_vars =>
        [\A p \in Clients :
          LET c == req[p].coll IN
          /\ req[p].pc = "commit" /\ req'[p].pc = "idle"
          /\ req[p].since # NotSet
          /\ bso'[c] # bso[c]
          => req[p].since \notin wrote[c]]_vars
  BY OnceStep
<1>. QED
  BY <1>1, BatchInvariant, PTL DEF Spec, ConditionalOnce

(* The rows a batch stores (post_bsos over commit_batch).                    *)
LEMMA StoredAsAnswered ==
  ASSUME BatchInv, NEW p \in Clients, CommitWrite(p), Storing(req[p]), CommitsBatch(p),
         NEW i \in Ids
  PROVE  LET r    == req[p]
             item == batch[work[p].id].items[i]
             row  == bso'[r.coll][i]
         IN /\ i \in r.ids \ r.failed /\ r.body.val # NotSet
               => row.mod = r.ts /\ row.val = r.body.val
            /\ item # NoItem /\ i \notin r.ids => row.mod = r.ts
            /\ item = NoItem /\ i \in r.failed => row = bso[r.coll][i]
<1>. DEFINE r == req[p]
            old == bso[r.coll][i]
            item == batch[work[p].id].items[i]
<1>1. /\ r.coll \in Collections /\ r.ts \in 1..MaxTime
      /\ old \in Row \cup {NoRow} /\ item \in Item
  BY CommitBasics, UploadFields DEF BatchInv, TypeOK, StoreTypeOK, Batch, CommitsBatch
<1>2. bso'[r.coll][i] = IF i \in r.ids \ r.failed
                        THEN Mutated(ItemMutation(r, old), ItemRow(p, i)) ELSE ItemRow(p, i)
  BY <1>1 DEF CommitsBatch
<1>3. item = NoItem => ItemRow(p, i) = old
  BY DEF ItemRow
<1>4. item # NoItem => ItemRow(p, i).mod = r.ts
  <2>1. item # NoItem => ByItem(old, item, r.ts).mod = r.ts
    <3>. HIDE DEF r, old, item
    <3>. QED
      BY <1>1, ByItemType
  <2>. QED
    BY <2>1 DEF ItemRow
<1>5. r.body.val # NotSet
      => /\ Mutated(ItemMutation(r, old), ItemRow(p, i)).mod = r.ts
         /\ Mutated(ItemMutation(r, old), ItemRow(p, i)).val = r.body.val
  BY <1>1 DEF ItemMutation, Mutated, UpdateRow, InsertRow
<1>. QED
  BY <1>2, <1>3, <1>4, <1>5

LEMMA AnswersStep ==
  ASSUME BatchInv, [Next]_vars, NEW p \in Clients
  PROVE  LET r == req[p]
             b == work[p].id
             stored(i) == bso'[r.coll][i].mod = r.ts
         IN
         /\ Answered(p, 202) =>
               \A i \in Ids :
                  batch'[b].items[i] = IF i \in r.ids \ r.failed THEN r.body
                                       ELSE batch[b].items[i]
         /\ Answered(p, 200) /\ r.kind = "post" =>
               /\ batch'[b].st = "gone"
               /\ \A i \in r.ids \ r.failed :
                     r.body.val # NotSet
                     => stored(i) /\ bso'[r.coll][i].val = r.body.val
               /\ \A i \in Ids :
                     /\ (batch[b].items[i] # NoItem /\ i \notin r.ids) => stored(i)
                     /\ (batch[b].items[i] = NoItem /\ i \in r.failed)
                        => bso'[r.coll][i] = bso[r.coll][i]
<1>1. ASSUME Answered(p, 202) \/ Answered(p, 200)
      PROVE  CommitWrite(p)
  BY <1>1, EndOfRequest DEF Answered
<1>2. ASSUME Answered(p, 202), NEW i \in Ids
      PROVE  batch'[work[p].id].items[i] = IF i \in req[p].ids \ req[p].failed
                                           THEN req[p].body
                                           ELSE batch[work[p].id].items[i]
  <2>1. /\ Shape(req[p], txn[p], work[p]) /\ WorkShape(req[p], work[p])
        /\ Holds(req[p], work[p]) /\ CommitTables(p)
    BY <1>1, <1>2, CommitBasics, CommitCases
  <2>2. req[p].pc = "commit" /\ req[p].status = 202 /\ req[p].kind = "post"
    BY <1>2, <2>1 DEF Answered, Shape
  <2>3. CommitsItems(p)
    BY <2>1, <2>2 DEF CommitTables, Storing, Removing
  <2>4. /\ work[p].id \in Batches /\ batch[work[p].id] \in Batch
        /\ work[p].exp = 0 => batch[work[p].id].st # "fresh"
    BY <2>1, <2>3, BatchesAssumption DEF CommitsItems, BatchInv, TypeOK, Holds
  <2>5. batch'[work[p].id].items = ItemsSeen(p)
    <3>1. work[p].removed = {} /\ BatchMoves(p, work[p].id)
      BY <1>1, <1>2, <2>1, <2>2, <2>4, CommitBatches DEF WorkShape
    <3>. QED
      BY <3>1 DEF BatchMoves
  <2>6. work[p].adds[i] = IF i \in req[p].ids \ req[p].failed THEN req[p].body ELSE NoItem
    BY <2>1, <2>2 DEF WorkShape
  <2>7. i \in req[p].ids \ req[p].failed => req[p].body # NoItem
    BY <2>1, <2>2, BodiesAreColumns DEF Shape
  <2>. QED
    BY <2>5, <2>6, <2>7 DEF ItemsSeen
<1>3. ASSUME Answered(p, 200), req[p].kind = "post"
      PROVE  /\ Storing(req[p]) /\ CommitsBatch(p) /\ batch'[work[p].id].st = "gone"
             /\ req[p].ids \in SUBSET Ids
  <2>1. Storing(req[p]) /\ CommitTables(p)
    BY <1>1, <1>3, CommitCases DEF Answered, Storing
  <2>2. CommitsBatch(p)
    BY <2>1 DEF CommitTables, Storing, Removing
  <2>. QED
    BY <2>1, <2>2, SpentFields, UploadFields DEF CommitsBatch, BatchInv
<1>. QED
  BY <1>1, <1>2, <1>3, StoredAsAnswered

(* What a POST is told is true when it is told: which items are in the batch *)
(* (202), which are stored and that the batch is spent (200)                 *)
(* (post_collection_batch: "success", "failed").                             *)
THEOREM UploadAnswersAreTrue == Spec => AnswersAreTrue
<1>1. BatchInv /\ [Next]_vars =>
      [\A p \in Clients :
          LET r == req[p]
              b == work[p].id
              stored(i) == bso'[r.coll][i].mod = r.ts
          IN
          /\ Answered(p, 202) =>
                \A i \in Ids :
                   batch'[b].items[i] = IF i \in r.ids \ r.failed THEN r.body
                                        ELSE batch[b].items[i]
          /\ Answered(p, 200) /\ r.kind = "post" =>
                /\ batch'[b].st = "gone"
                /\ \A i \in r.ids \ r.failed :
                      r.body.val # NotSet
                      => stored(i) /\ bso'[r.coll][i].val = r.body.val
                /\ \A i \in Ids :
                      /\ (batch[b].items[i] # NoItem /\ i \notin r.ids) => stored(i)
                      /\ (batch[b].items[i] = NoItem /\ i \in r.failed)
                         => bso'[r.coll][i] = bso[r.coll][i]]_vars
  BY AnswersStep
<1>. QED
  BY <1>1, BatchInvariant, PTL DEF Spec, AnswersAreTrue

-----------------------------------------------------------------------------
(* The refinement: a batch takes effect at once.                             *)
LEMMA AbstractNames ==
  /\ Upload!Nothing = NoRow /\ Upload!NotGiven = NotSet /\ Upload!NoModified = Absent
  /\ Upload!Empty = NoItems /\ CollKeys = Collections \cup {Tombstone}
BY DEF Upload!Nothing, Upload!NotGiven, Upload!NoModified, Upload!Empty, NoRow,
       NoItems, CollKeys

(* commit_batch_update.sql and commit_batch_insert.sql write an item as the  *)
(* abstract commit stores it.                                                *)
LEMMA ItemIsStored ==
  ASSUME NEW row \in Row \cup {NoRow}, NEW item \in Item, NEW ts \in 1..MaxTime
  PROVE  Upload!Stored(row, item, ts) = IF item # NoItem THEN ByItem(row, item, ts)
                                        ELSE row
<1>1. CASE item = NoItem
  BY <1>1 DEF Upload!Stored
<1>2. CASE item # NoItem
  <2>1. item \in Columns
    BY <1>2, BodiesAreColumns DEF Item
  <2>2. item.val \in Vals \cup {NotSet} /\ item.ttl \in Nat \cup {NotSet}
    BY <2>1 DEF Columns
  <2>3. Upload!Stored(row, item, ts) =
          [mod |-> ts,
           exp |-> IF item.ttl # NotSet THEN ts + item.ttl
                   ELSE IF row # NoRow THEN row.exp ELSE ts + MaxTime + 1,
           val |-> IF item.val # NotSet THEN item.val
                   ELSE IF row # NoRow THEN row.val ELSE 0]
    BY <1>2, AbstractNames DEF Upload!Stored, Upload!WrittenOver
  <2>4. CASE row \in Row
    <3>1. Present(row) /\ row # NoRow
      BY <2>4 DEF Present, Row, NoRow
    <3>. QED
      BY <1>2, <2>3, <3>1 DEF ByItem, UpdatedByItem
  <2>5. CASE row = NoRow
    <3>1. ~Present(row)
      BY <2>5 DEF Present, NoRow
    <3>2. Expiry(ts, item.ttl) = IF item.ttl # NotSet THEN ts + item.ttl
                                 ELSE ts + MaxTime + 1
      BY MaxTimeAssumption DEF Expiry, DefaultTtl
    <3>. QED
      BY <1>2, <2>3, <2>5, <3>1, <3>2 DEF ByItem, InsertedByItem
  <2>. QED
    BY <2>4, <2>5
<1>. QED
  BY <1>1, <1>2

(* A buffered mutation writes the body over the row (post_bsos).             *)
LEMMA MutationStores ==
  ASSUME NEW body \in Bodies, NEW ts \in 1..MaxTime, NEW row \in Row \cup {NoRow}
  PROVE  Mutated(IF Present(row) THEN UpdateRow(body, ts) ELSE InsertRow(body, ts),
                 row) = Upload!WrittenOver(row, body, ts)
<1>1. body.val \in Vals \cup {NotSet} /\ body.ttl \in Nat \cup {NotSet}
  BY BatchBodiesAssumption
<1>2. CASE row \in Row
  <2>1. Present(row) /\ row # NoRow
    BY <1>2 DEF Present, Row, NoRow
  <2>2. Mutated(UpdateRow(body, ts), row) =
          [mod |-> IF body.val = NotSet THEN row.mod ELSE ts,
           exp |-> IF body.ttl = NotSet THEN row.exp ELSE ts + body.ttl,
           val |-> IF body.val = NotSet THEN row.val ELSE body.val]
    BY <1>1 DEF Mutated, UpdateRow
  <2>. QED
    BY <2>1, <2>2, AbstractNames DEF Upload!WrittenOver
<1>3. CASE row = NoRow
  <2>1. ~Present(row)
    BY <1>3 DEF Present, NoRow
  <2>2. Mutated(InsertRow(body, ts), row) =
          [mod |-> ts, exp |-> Expiry(ts, body.ttl),
           val |-> IF body.val = NotSet THEN 0 ELSE body.val]
    BY DEF Mutated, InsertRow
  <2>3. Expiry(ts, body.ttl) = IF body.ttl = NotSet THEN ts + MaxTime + 1
                               ELSE ts + body.ttl
    BY MaxTimeAssumption DEF Expiry, DefaultTtl
  <2>. QED
    BY <1>3, <2>1, <2>2, <2>3, AbstractNames DEF Upload!WrittenOver
<1>. QED
  BY <1>2, <1>3

(* The rows of a committed batch are those of the abstract commit. *)
LEMMA BatchIsStored ==
  ASSUME BatchInv, NEW p \in Clients, CommitWrite(p), Storing(req[p]), CommitsBatch(p),
         NEW body, req[p].ids # {} => body = req[p].body,
         NEW i \in Ids
  PROVE  bso'[req[p].coll][i] =
           Upload!StoredLast(
             Upload!Stored(bso[req[p].coll][i], batch[work[p].id].items[i], req[p].ts),
             i \in req[p].ids \ req[p].failed, body, req[p].ts)
<1>. DEFINE r == req[p]
            old == bso[r.coll][i]
            item == batch[work[p].id].items[i]
            seen == ItemRow(p, i)
<1>1. /\ r.coll \in Collections /\ r.ts \in 1..MaxTime
      /\ old \in Row \cup {NoRow} /\ item \in Item /\ r.ids \in SUBSET Ids
      /\ Shape(r, txn[p], work[p]) /\ r.kind = "post"
  BY CommitBasics, UploadFields
  DEF BatchInv, TypeOK, StoreTypeOK, Batch, CommitsBatch, Storing
<1>2. bso'[r.coll][i] = IF i \in r.ids \ r.failed
                        THEN Mutated(ItemMutation(r, old), seen) ELSE seen
  BY <1>1 DEF CommitsBatch
<1>3. /\ seen = Upload!Stored(old, item, r.ts)
      /\ seen \in Row \cup {NoRow}
      /\ Present(old) => Present(seen)
      /\ item = NoItem => seen = old
  <2>. DEFINE by == ByItem(old, item, r.ts)
  <2>1. item # NoItem => by \in Row
    <3>. HIDE DEF r, old, item
    <3>. QED
      BY <1>1, ByItemType
  <2>2. seen = IF item # NoItem THEN by ELSE old
    BY DEF ItemRow
  <2>3. Upload!Stored(old, item, r.ts) = IF item # NoItem THEN by ELSE old
    <3>. HIDE DEF r, old, item
    <3>. QED
      BY <1>1, ItemIsStored
  <2>. HIDE DEF r, old, item, seen, by
  <2>. QED
    BY <1>1, <2>1, <2>2, <2>3 DEF Present, Row
<1>4. ASSUME i \in r.ids \ r.failed
      PROVE  Mutated(ItemMutation(r, old), seen) = Upload!WrittenOver(seen, body, r.ts)
  <2>1. body \in Bodies /\ body = r.body
    BY <1>1, <1>4 DEF Shape
  <2>2. item # NoItem => Present(old)
    BY <1>4 DEF CommitsBatch
  <2>3. ItemMutation(r, old) = IF Present(seen) THEN UpdateRow(body, r.ts)
                               ELSE InsertRow(body, r.ts)
    BY <1>3, <2>1, <2>2 DEF ItemMutation
  <2>. HIDE DEF r, old, item, seen
  <2>. QED
    BY <1>1, <1>3, <2>1, <2>3, MutationStores
<1>. HIDE DEF r, old, item, seen
<1>5. bso'[r.coll][i] = Upload!StoredLast(seen, i \in r.ids \ r.failed, body, r.ts)
  BY <1>2, <1>4 DEF Upload!StoredLast
<1>6. bso'[r.coll][i] = Upload!StoredLast(Upload!Stored(old, item, r.ts),
                                          i \in r.ids \ r.failed, body, r.ts)
  BY <1>3, <1>5
<1>. QED
  BY <1>6 DEF r, old, item

\* Rows of the batches tables replaced.
LEMMA BatchReplaced ==
  ASSUME NEW S, NEW old \in [Batches -> S], NEW new \in [Batches -> S],
         NEW b \in Batches, NEW x,
         \A d \in Batches : new[d] = IF d = b THEN x ELSE old[d]
  PROVE  new = [old EXCEPT ![b] = x]
OBVIOUS

\* The rows a 202 leaves in the batch.
LEMMA ItemsAppended ==
  ASSUME BatchInv, NEW p \in Clients, CommitWrite(p), req[p].status = 202,
         NEW body, req[p].ids # {} => body = req[p].body
  PROVE  /\ ItemsSeen(p) = Upload!With(work[p].id, req[p].ids \ req[p].failed, body)
         /\ work[p].exp = 0 => \A i \in req[p].ids \ req[p].failed :
                                   batch[work[p].id].items[i] = NoItem
<1>1. /\ Current(req[p], txn[p], work[p]) /\ WorkShape(req[p], work[p])
      /\ Shape(req[p], txn[p], work[p]) /\ req[p].pc = "commit"
      /\ req[p].ids \in SUBSET Ids
  BY CommitBasics, UploadFields DEF BatchInv
<1>2. \A i \in Ids : work[p].adds[i] = IF i \in req[p].ids \ req[p].failed
                                       THEN req[p].body ELSE NoItem
  BY <1>1 DEF WorkShape
<1>3. \A i \in req[p].ids \ req[p].failed : req[p].body # NoItem /\ body = req[p].body
  BY <1>1, BodiesAreColumns DEF Shape
<1>. QED
  BY <1>1, <1>2, <1>3 DEF ItemsSeen, Upload!With, Current

(* 202: the items are appended to a new batch or to an open one.             *)
LEMMA ItemsAreAppended ==
  ASSUME BatchInv, NEW p \in Clients, CommitWrite(p), req[p].status = 202, CommitsItems(p)
  PROVE  Upload!BatchNext
<1>. DEFINE r == req[p]
            b == work[p].id
            c == req[p].coll
            ids == req[p].ids \ req[p].failed
<1>1. /\ Current(r, txn[p], work[p]) /\ Shape(r, txn[p], work[p])
      /\ WorkShape(r, work[p]) /\ Holds(r, work[p]) /\ r.pc = "commit"
      /\ c \in Collections /\ c \in CollKeys /\ b \in Batches /\ ids \in SUBSET Ids
      /\ r.ts \in 1..MaxTime /\ r.ts <= now /\ now' = now
      /\ TypeOK /\ TypeOK'
  BY CommitBasics, CommitTypes, UploadFields, ZenonT(60)
  DEF BatchInv, CommitsItems, CommitWrite, Commit
<1>2. PICK body \in Bodies : r.ids # {} => body = r.body
  BY <1>1, BatchBodiesAssumption DEF Shape
<1>3. /\ ItemsSeen(p) = Upload!With(b, ids, body)
      /\ work[p].exp = 0 => \A i \in ids : batch[b].items[i] = NoItem
  BY <1>2, ItemsAppended
<1>4. /\ batch \in [Batches -> Batch] /\ batch' \in [Batches -> Batch]
      /\ uc \in [CollKeys -> Absent..MaxTime] /\ uc' \in [CollKeys -> Absent..MaxTime]
  BY <1>1 DEF TypeOK, StoreTypeOK
<1>5. CASE work[p].exp # 0
  <2>1. batch[b].st = "fresh" /\ work[p].exp = r.ts + Lifetime
    BY <1>1, <1>5, BatchesAssumption DEF Holds, WorkShape
  <2>2. batch' = [batch EXCEPT ![b] = [st |-> "open", coll |-> c, exp |-> r.ts + Lifetime,
                                       items |-> Upload!With(b, ids, body)]]
    BY <1>3, <1>4, <1>5, <2>1 DEF CommitsItems
  <2>3. uc' = [uc EXCEPT ![c] = IF @ = Upload!NoModified THEN 0 ELSE @]
    BY <1>1, <1>4, <1>5, AbstractNames DEF CommitsItems
  <2>4. Upload!New(b, c, ids, body, r.ts)
    BY <1>1, <2>1, <2>2, <2>3 DEF Upload!New, CommitsItems
  <2>. HIDE DEF r, b, c, ids
  <2>5. \E d \in Collections, ts \in 1..MaxTime : Upload!New(b, d, ids, body, ts)
    BY <1>1, <2>4
  <2>. QED
    BY <1>1, <1>2, <2>5, ZenonT(60) DEF Upload!BatchNext
<1>6. CASE work[p].exp = 0
  <2>1. batch[b].st = "open"
    BY <1>1, <1>6, BatchesAssumption DEF Current
  <2>2. batch' = [batch EXCEPT ![b].items = Upload!With(b, ids, body)]
    BY <1>3, <1>4, <1>6 DEF CommitsItems
  <2>3. uc' = uc
    BY <1>4, <1>6 DEF CommitsItems
  <2>4. Upload!Append(b, ids, body)
    BY <1>1, <1>3, <1>6, <2>1, <2>2, <2>3 DEF Upload!Append, CommitsItems
  <2>. HIDE DEF r, b, c, ids
  <2>. QED
    BY <1>1, <1>2, <2>4, ZenonT(60) DEF Upload!BatchNext
<1>. QED
  BY <1>5, <1>6

(* 200 to a POST: the batch is stored, and the items of the request over it. *)
LEMMA BatchIsApplied ==
  ASSUME BatchInv, NEW p \in Clients, CommitWrite(p), Storing(req[p]), CommitsBatch(p)
  PROVE  Upload!BatchNext
<1>. DEFINE r == req[p]
            b == work[p].id
            c == req[p].coll
            ids == req[p].ids \ req[p].failed
            ts == req[p].ts
            Rows == Row \cup {NoRow}
<1>1. /\ Current(r, txn[p], work[p]) /\ Shape(r, txn[p], work[p])
      /\ WorkShape(r, work[p]) /\ Holds(r, work[p])
      /\ c \in Collections /\ c \in CollKeys /\ b \in Batches /\ ids \in SUBSET Ids
      /\ ts \in 1..MaxTime /\ ts <= now /\ now' = now
      /\ uc[c] \in Absent..MaxTime /\ TypeOK /\ TypeOK'
  BY CommitBasics, CommitTypes, UploadFields
  DEF BatchInv, CommitsBatch, CommitWrite, Commit
<1>2. PICK body \in Bodies : r.ids # {} => body = r.body
  BY <1>1, BatchBodiesAssumption DEF Shape, Storing
<1>3. /\ batch \in [Batches -> Batch] /\ batch' \in [Batches -> Batch]
      /\ uc \in [CollKeys -> Absent..MaxTime] /\ uc' \in [CollKeys -> Absent..MaxTime]
      /\ bso \in [Collections -> [Ids -> Rows]] /\ bso' \in [Collections -> [Ids -> Rows]]
  BY <1>1 DEF TypeOK, StoreTypeOK
<1>4. batch[b].st = "fresh" \/ (batch[b].st = "open" /\ batch[b].coll = c)
  BY <1>1, BatchesAssumption DEF Current, Holds
<1>5. uc' = [uc EXCEPT ![c] = ts]
  BY <1>1, <1>3 DEF CommitsBatch
<1>6. batch' = [batch EXCEPT ![b].st = "gone", ![b].items = Upload!Empty]
  BY <1>1, <1>3, AbstractNames, ZenonT(60) DEF CommitsBatch, Spent
<1>7. bso' = [bso EXCEPT ![c] =
                [i \in Ids |-> Upload!StoredLast(
                                 Upload!Stored(@[i], batch[b].items[i], ts),
                                 i \in ids, body, ts)]]
  <2>. DEFINE g(i) == Upload!StoredLast(Upload!Stored(bso[c][i], batch[b].items[i], ts),
                                        i \in ids, body, ts)
  <2>1. ASSUME NEW d \in Collections, NEW i \in Ids
        PROVE  bso'[d][i] = IF d = c THEN g(i) ELSE bso[d][i]
    <3>1. CASE d = c
      BY <1>2, <3>1, BatchIsStored
    <3>2. CASE d # c
      BY <3>2 DEF CommitsBatch
    <3>. QED
      BY <3>1, <3>2
  <2>2. bso' = [bso EXCEPT ![c] = [i \in Ids |-> g(i)]]
    <3>. HIDE DEF g, c, Rows
    <3>. QED
      BY <1>1, <1>3, <2>1, RowsReplaced DEF c
  <2>. QED
    BY <2>2
<1>8. Upload!Timestamp(c, ts)
  BY <1>1 DEF Upload!Timestamp, Current
<1>9. Upload!Apply(b, c, ids, body, ts)
  BY <1>1, <1>4, <1>5, <1>6, <1>7, <1>8 DEF Upload!Apply
<1>. QED
  BY <1>1, <1>9, Zenon DEF Upload!BatchNext

(* A deletion takes the collection's open batches along.                     *)
LEMMA CollectionIsRemoved ==
  ASSUME BatchInv, NEW p \in Clients, CommitWrite(p), CommitsRemoval(p)
  PROVE  Upload!BatchNext
<1>. DEFINE c == req[p].coll
            ts == req[p].ts
            Rows == Row \cup {NoRow}
<1>1. /\ Current(req[p], txn[p], work[p])
      /\ c \in Collections /\ c \in CollKeys /\ Tombstone \in CollKeys /\ Tombstone # c
      /\ ts \in 1..MaxTime /\ ts <= now /\ now' = now
      /\ uc[c] \in Absent..MaxTime /\ TypeOK /\ TypeOK'
      /\ work[p].removed \in SUBSET Batches
  BY CommitBasics, CommitTypes, UploadFields DEF BatchInv, CommitWrite, Commit
<1>2. /\ batch \in [Batches -> Batch] /\ batch' \in [Batches -> Batch]
      /\ uc \in [CollKeys -> Absent..MaxTime] /\ uc' \in [CollKeys -> Absent..MaxTime]
      /\ bso \in [Collections -> [Ids -> Rows]] /\ bso' \in [Collections -> [Ids -> Rows]]
  BY <1>1 DEF TypeOK, StoreTypeOK
<1>3. uc' = [uc EXCEPT ![c] = Upload!NoModified, ![Tombstone] = ts]
  BY <1>1, <1>2, AbstractNames DEF CommitsRemoval
<1>4. bso' = [bso EXCEPT ![c] = [i \in Ids |-> Upload!Nothing]]
  <2>1. \A d \in Collections, i \in Ids :
           bso'[d][i] = IF d = c THEN Upload!Nothing ELSE bso[d][i]
    BY AbstractNames DEF CommitsRemoval
  <2>. HIDE DEF c, Rows
  <2>. QED
    BY <1>1, <1>2, <2>1, RowsReplaced DEF c
<1>5. Upload!RemoveCollection(c, ts)
  BY <1>1, <1>3, <1>4, AbstractNames, SMTT(30)
  DEF Upload!RemoveCollection, Upload!Timestamp, Current, CommitsRemoval
<1>6. Upload!Drop({b \in Batches : batch[b].st = "open" /\ batch[b].coll = c})
  <2>1. ASSUME NEW b \in Batches
        PROVE  batch'[b] = IF batch[b].st = "open" /\ batch[b].coll = c
                           THEN [batch[b] EXCEPT !.st = "gone", !.items = Upload!Empty]
                           ELSE batch[b]
    <3>1. CASE batch[b].st = "open" /\ batch[b].coll = c
      BY <3>1, AbstractNames DEF CommitsRemoval, Spent
    <3>2. CASE b \notin work[p].removed
      BY <3>2 DEF CommitsRemoval
    <3>3. CASE b \in work[p].removed /\ ~(batch[b].st = "open" /\ batch[b].coll = c)
      <4>1. batch[b].st = "gone" /\ batch[b].items = NoItems /\ batch[b] \in Batch
        BY <1>2, <3>3 DEF CommitsRemoval, BatchInv, Holding, Batch
      <4>2. Spent(b) = batch[b]
        BY <4>1 DEF Spent, Batch
      <4>. QED
        BY <3>3, <4>2 DEF CommitsRemoval
    <3>. QED
      BY <3>1, <3>2, <3>3
  <2>. QED
    BY <1>2, <2>1 DEF Upload!Drop
<1>7. Upload!RemoveWithBatches(c, ts)
  BY <1>5, <1>6 DEF Upload!RemoveWithBatches
<1>. QED
  BY <1>1, <1>7, Zenon DEF Upload!BatchNext

\* Only the commit of a request, and the purge, change the tables.
LEMMA QuietSteps ==
  ASSUME BatchInv, NEW p \in Clients, Start(p) \/ Serve(p) \/ GiveUp(p)
  PROVE  CommitWrite(p) \/ UNCHANGED <<now, uc, bso, batch>>
BY DEF Start, Serve, GiveUp, Lock, LockConflict, ValidateBatch, CreateBatch,
   AppendToBatch, AppendFails, PostBsos, PostBsosFails, CommitBatch, DeleteCollection,
   CommitRefused, Close, Discard, SetTxn

LEMMA UploadStep ==
  ASSUME BatchInv, [Next]_vars
  PROVE  [Upload!BatchNext]_<<now, uc, bso, batch>>
<1>. SUFFICES Upload!BatchNext \/ UNCHANGED <<now, uc, bso, batch>>
  OBVIOUS
<1>1. ASSUME NEW p \in Clients, CommitWrite(p)
      PROVE  Upload!BatchNext \/ UNCHANGED <<now, uc, bso, batch>>
  <2>1. CommitTables(p) /\ now' = now
    BY <1>1, CommitCases DEF CommitWrite, Commit
  <2>. QED
    BY <1>1, <2>1, ItemsAreAppended, BatchIsApplied, CollectionIsRemoved
    DEF CommitTables
<1>2. ASSUME NEW p \in Clients, Start(p) \/ Serve(p) \/ GiveUp(p)
      PROVE  Upload!BatchNext \/ UNCHANGED <<now, uc, bso, batch>>
  BY <1>1, <1>2, QuietSteps
<1>3. CASE Tick /\ UNCHANGED <<req, batch, work, wrote>>
  <2>1. Upload!Advance /\ UNCHANGED batch
    BY <1>3 DEF Tick, Upload!Advance
  <2>. QED
    BY <2>1, Zenon DEF Upload!BatchNext
<1>4. ASSUME NEW c \in Collections, NEW i \in Ids,
             PurgeRow(c, i) /\ UNCHANGED <<req, batch, work, wrote>>
      PROVE  Upload!BatchNext
  <2>1. Upload!Expire(c, i) /\ UNCHANGED batch
    BY <1>4, AbstractNames DEF PurgeRow, Upload!Expire
  <2>. QED
    BY <2>1, Zenon DEF Upload!BatchNext
<1>5. ASSUME NEW b \in Batches, PurgeBatch(b)
      PROVE  Upload!BatchNext
  <2>1. batch \in [Batches -> Batch]
    BY DEF BatchInv, TypeOK
  <2>2. batch' = [d \in Batches |->
                    IF d \in {b} THEN [batch[d] EXCEPT !.st = "gone",
                                                       !.items = Upload!Empty]
                    ELSE batch[d]]
    BY <1>5, <2>1, AbstractNames DEF PurgeBatch, Spent
  <2>3. Upload!Forget(b)
    BY <1>5, <2>2 DEF PurgeBatch, Upload!Forget, Upload!Drop
  <2>. QED
    BY <2>3, Zenon DEF Upload!BatchNext
<1>. QED
  BY <1>2, <1>3, <1>4, <1>5 DEF Next, Environment, vars

(* Batch uploads implement BatchUpload: however requests, commits, deletions *)
(* and purges mix, a batch is appended to a request at a time and stored in  *)
(* one step at one timestamp, with all that was appended by then, or not at  *)
(* all (post_collection_batch, commit_batch, commit_async).                  *)
THEOREM BatchesTakeEffectAtOnce == Spec => UploadsTakeEffectAtOnce
<1>1. Init => Upload!BatchInit
  BY AbstractNames DEF Init, StoreInit, AnyCollection, Upload!BatchInit, Upload!Init
<1>2. BatchInv /\ [Next]_vars => [Upload!BatchNext]_<<now, uc, bso, batch>>
  BY UploadStep
<1>. QED
  BY <1>1, <1>2, BatchInvariant, PTL DEF Spec, UploadsTakeEffectAtOnce, Upload!BatchSpec
=============================================================================
