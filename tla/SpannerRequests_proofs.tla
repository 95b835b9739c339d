----------------------- MODULE SpannerRequests_proofs -----------------------
(***************************************************************************)
(* Theorems about SpannerRequests, for any number of clients, collections  *)
(* and BSOs, any bodies and any bound on the clock, in three parts.        *)
(*                                                                         *)
(* Types: TypeInv.                                                         *)
(*                                                                         *)
(* Safety, what concurrent writers, aborts and purges may never do to the  *)
(* tables.  One inductive invariant, SafeInv, serves every theorem.  It    *)
(* says of each open read-write transaction                                *)
(*   what its lock still guarantees (Locked),                              *)
(*   which of a few forms its pending writes have (Shape),                 *)
(* and of the tables that collections cover their BSOs and that, where     *)
(* nobody deletes the storage, no timestamp is forgotten (HistoryKept).    *)
(*                                                                         *)
(* Refinement, that SpannerRequests implements SyncStore: a request that   *)
(* writes takes effect at once, as the abstract write, removal or deletion *)
(* its handler stands for, or not at all.  SafeInv says where and when a   *)
(* pending commit writes; Exact says what: the rows of the request's ids   *)
(* and no others, with the columns of its body, or the rows and            *)
(* collections it deletes.  With that a reader's promise follows: what GET *)
(* of a collection leaves out is found by the next one that asks for what  *)
(* is newer.                                                               *)
(***************************************************************************)
EXTENDS SpannerRequests, WellFoundedInduction, TLAPS

USE DEF NotSet, Absent, PRETOUCH

-----------------------------------------------------------------------------
(* What the operators of SpannerStore do to transactions and rows. *)

\* The columns a write may supply.
Columns == [val : Vals \cup {NotSet}, ttl : Nat \cup {NotSet}]

(* A new transaction is a transaction (begin_async). *)
LEMMA EmptyTxnType ==
  ASSUME NEW mode \in {"none", "ro", "rw", "dead"}
  PROVE  EmptyTxn(mode) \in Txn
<1>1. NothingWritten \in [CollKeys -> NotSet..MaxTime]
  BY MaxTimeAssumption DEF NothingWritten
<1>2. NothingStaged \in [Collections -> [Ids -> Row \cup {NoRow, NotStaged}]]
  BY DEF NothingStaged
<1>3. NothingBuffered \in [Collections -> [Ids -> Mutation]]
  BY DEF NothingBuffered, Mutation
<1>. QED
  BY <1>1, <1>2, <1>3 DEF EmptyTxn, Txn

(* A read adds to what was read and changes nothing else of a transaction. *)
LEMMA ReadingType ==
  ASSUME NEW t \in Txn, NEW ks \in SUBSET CollKeys,
         NEW rs \in SUBSET (Collections \X Ids)
  PROVE  Reading(t, ks, rs) \in Txn
BY DEF Reading, Txn

LEMMA ReadingFields ==
  ASSUME NEW t \in Txn, NEW ks, NEW rs
  PROVE  /\ Reading(t, ks, rs).mode = t.mode
         /\ Reading(t, ks, rs).reads = t.reads \cup ks
         /\ Reading(t, ks, rs).rows = t.rows \cup rs
         /\ Reading(t, ks, rs).wc = t.wc
         /\ Reading(t, ks, rs).wb = t.wb
         /\ Reading(t, ks, rs).mut = t.mut
BY DEF Reading, Txn

(* A touch writes one collection's timestamp (touch_collection_async). *)
LEMMA TouchedType ==
  ASSUME NEW t \in Txn, NEW c \in Collections, NEW ts \in 0..MaxTime
  PROVE  /\ Touched(t, c, ts) \in Txn
         /\ Touched(t, c, ts).mode = t.mode
         /\ Touched(t, c, ts).reads = t.reads \cup {c}
         /\ Touched(t, c, ts).rows = t.rows
         /\ Touched(t, c, ts).wc = [t.wc EXCEPT ![c] = ts]
         /\ Touched(t, c, ts).wb = t.wb
         /\ Touched(t, c, ts).mut = t.mut
<1>1. c \in CollKeys
  BY DEF CollKeys
<1>2. [t.wc EXCEPT ![c] = ts] \in [CollKeys -> NotSet..MaxTime]
  <2>1. t.wc \in [CollKeys -> NotSet..MaxTime]
    BY DEF Txn
  <2>2. ts \in NotSet..MaxTime
    BY MaxTimeAssumption
  <2>. QED
    BY <2>1, <2>2
<1>. QED
  BY <1>1, <1>2 DEF Touched, Txn

(* A deletion stages the rows it names, of one collection. *)
LEMMA DeletedRowsType ==
  ASSUME NEW t \in Txn, NEW c \in Collections, NEW ids \in SUBSET Ids
  PROVE  /\ DeletedRows(t, c, ids) \in Txn
         /\ DeletedRows(t, c, ids).mode = t.mode
         /\ DeletedRows(t, c, ids).reads = t.reads
         /\ DeletedRows(t, c, ids).rows = t.rows \cup ({c} \X ids)
         /\ DeletedRows(t, c, ids).wc = t.wc
         /\ DeletedRows(t, c, ids).mut = t.mut
         /\ \A d \in Collections, i \in Ids :
               DeletedRows(t, c, ids).wb[d][i] =
                 IF d = c /\ i \in ids THEN NoRow ELSE t.wb[d][i]
<1>. DEFINE f == [i \in Ids |-> IF i \in ids THEN NoRow ELSE t.wb[c][i]]
<1>1. t.wb \in [Collections -> [Ids -> Row \cup {NoRow, NotStaged}]]
  BY DEF Txn
<1>2. f \in [Ids -> Row \cup {NoRow, NotStaged}]
  BY <1>1
<1>3. [t.wb EXCEPT ![c] = f] \in [Collections -> [Ids -> Row \cup {NoRow, NotStaged}]]
  BY <1>1, <1>2
<1>4. \A d \in Collections, i \in Ids :
         [t.wb EXCEPT ![c] = f][d][i] =
           IF d = c /\ i \in ids THEN NoRow ELSE t.wb[d][i]
  BY <1>1
<1>5. DeletedRows(t, c, ids) =
        [t EXCEPT !.rows = t.rows \cup ({c} \X ids), !.wb = [t.wb EXCEPT ![c] = f]]
  BY DEF DeletedRows, Txn
<1>. HIDE DEF f
<1>6. t.rows \cup ({c} \X ids) \in SUBSET (Collections \X Ids)
  BY DEF Txn
<1>7. /\ DeletedRows(t, c, ids).mode = t.mode
      /\ DeletedRows(t, c, ids).reads = t.reads
      /\ DeletedRows(t, c, ids).rows = t.rows \cup ({c} \X ids)
      /\ DeletedRows(t, c, ids).wc = t.wc
      /\ DeletedRows(t, c, ids).wb = [t.wb EXCEPT ![c] = f]
      /\ DeletedRows(t, c, ids).mut = t.mut
  BY <1>5 DEF Txn
<1>8. DeletedRows(t, c, ids) \in Txn
  BY <1>3, <1>5, <1>6 DEF Txn
<1>. QED
  BY <1>4, <1>7, <1>8

(* The transactions of a session that has none, lost its own, or just began. *)
LEMMA NoTxnType == NoTxn \in Txn /\ DeadTxn \in Txn /\ BeginWrite \in Txn
BY EmptyTxnType DEF NoTxn, DeadTxn, BeginWrite

(* A read-only transaction keeps a snapshot of the tables. *)
LEMMA BeginReadType == StoreTypeOK => BeginRead \in Txn
<1>. SUFFICES ASSUME StoreTypeOK PROVE BeginRead \in Txn
  OBVIOUS
<1>1. EmptyTxn("ro") \in Txn
  BY EmptyTxnType
<1>2. uc \in [CollKeys -> NotSet..MaxTime]
  BY MaxTimeAssumption DEF StoreTypeOK
<1>3. bso \in [Collections -> [Ids -> Row \cup {NoRow, NotStaged}]]
  BY DEF StoreTypeOK
<1>. QED
  BY <1>1, <1>2, <1>3 DEF BeginRead, Txn

-----------------------------------------------------------------------------
(* What a transaction sees are rows (CollView, BsoView). *)
LEMMA ViewType ==
  ASSUME StoreTypeOK, NEW t \in Txn
  PROVE  /\ \A k \in CollKeys : CollView(t, k) \in Absent..MaxTime
         /\ \A c \in Collections, i \in Ids :
               BsoView(t, c, i) \in Row \cup {NoRow}
<1>1. ASSUME NEW k \in CollKeys PROVE CollView(t, k) \in Absent..MaxTime
  <2>1. t.wc[k] \in NotSet..MaxTime /\ uc[k] \in Absent..MaxTime
    BY DEF StoreTypeOK, Txn
  <2>. QED
    BY <2>1, MaxTimeAssumption DEF CollView
<1>2. ASSUME NEW c \in Collections, NEW i \in Ids
      PROVE  BsoView(t, c, i) \in Row \cup {NoRow}
  <2>1. t.wb[c][i] \in Row \cup {NoRow, NotStaged} /\ bso[c][i] \in Row \cup {NoRow}
    BY DEF StoreTypeOK, Txn
  <2>. QED
    BY <2>1 DEF BsoView, NotStaged
<1>. QED
  BY <1>1, <1>2

(* Mutations that apply turn rows into rows (Mutated, MutationsApply). *)
LEMMA RowAfterType ==
  ASSUME StoreTypeOK, NEW t \in Txn, MutationsApply(t),
         NEW c \in Collections, NEW i \in Ids
  PROVE  RowAfter(t, c, i) \in Row \cup {NoRow}
<1>. DEFINE m == t.mut[c][i]
            row == BsoView(t, c, i)
<1>1. m \in Mutation
  BY DEF Txn
<1>2. row \in Row \cup {NoRow}
  BY ViewType
<1>3. m.op = "update" => row \in Row
  BY <1>2 DEF MutationsApply, Present, NoRow
<1>. HIDE DEF m, row
<1>4. Mutated(m, row) \in Row \cup {NoRow}
  <2>1. CASE m = NoMutation
    BY <2>1, <1>2 DEF Mutated, NoMutation
  <2>2. CASE m \in Insert
    BY <2>2 DEF Mutated, Insert, Row
  <2>3. CASE m \in Update
    BY <2>3, <1>3 DEF Mutated, Update, Row
  <2>. QED
    BY <1>1, <2>1, <2>2, <2>3 DEF Mutation
<1>. QED
  BY <1>4 DEF m, row, RowAfter

(* The mutations post_bsos buffers are mutations (bso_to_insert_row,         *)
(* bso_to_update_row).                                                       *)
LEMMA BufferedType ==
  ASSUME NEW body \in Columns, NEW ts \in 1..MaxTime
  PROVE  InsertRow(body, ts) \in Mutation /\ UpdateRow(body, ts) \in Mutation
<1>1. body \in [val : Vals \cup {NotSet}, ttl : Nat \cup {NotSet}]
  BY DEF Columns
<1>2. Expiry(ts, body.ttl) \in Nat
  BY <1>1, MaxTimeAssumption DEF Expiry, DefaultTtl
<1>3. InsertRow(body, ts) \in Insert
  BY <1>1, <1>2, ValsAssumption DEF InsertRow, Insert
<1>4. UpdateRow(body, ts) \in Update
  BY <1>1, MaxTimeAssumption DEF UpdateRow, Update
<1>. QED
  BY <1>3, <1>4 DEF Mutation

(* Buffering changes the mutations of the rows it names and nothing else.    *)
LEMMA BufferingType ==
  ASSUME NEW t \in Txn, NEW c \in Collections, NEW ids \in SUBSET Ids,
         NEW body \in Columns, NEW ts \in 1..MaxTime
  PROVE  /\ Buffering(t, c, ids, body, ts) \in Txn
         /\ Buffering(t, c, ids, body, ts).mode = t.mode
         /\ Buffering(t, c, ids, body, ts).reads = t.reads
         /\ Buffering(t, c, ids, body, ts).rows = t.rows
         /\ Buffering(t, c, ids, body, ts).wc = t.wc
         /\ Buffering(t, c, ids, body, ts).wb = t.wb
         /\ \A d \in Collections, i \in Ids :
               Buffering(t, c, ids, body, ts).mut[d][i] =
                 IF d # c \/ i \notin ids THEN t.mut[d][i]
                 ELSE IF Present(BsoView(t, c, i)) THEN UpdateRow(body, ts)
                 ELSE InsertRow(body, ts)
<1>. DEFINE f == [i \in Ids |->
                    IF i \notin ids THEN t.mut[c][i]
                    ELSE IF Present(BsoView(t, c, i)) THEN UpdateRow(body, ts)
                    ELSE InsertRow(body, ts)]
<1>1. t.mut \in [Collections -> [Ids -> Mutation]]
  BY DEF Txn
<1>2. f \in [Ids -> Mutation]
  BY <1>1, BufferedType
<1>3. [t.mut EXCEPT ![c] = f] \in [Collections -> [Ids -> Mutation]]
  BY <1>1, <1>2
<1>4. Buffering(t, c, ids, body, ts) = [t EXCEPT !.mut = [t.mut EXCEPT ![c] = f]]
  BY DEF Buffering, Txn
<1>5. \A d \in Collections, i \in Ids :
         [t.mut EXCEPT ![c] = f][d][i] =
           IF d # c \/ i \notin ids THEN t.mut[d][i]
           ELSE IF Present(BsoView(t, c, i)) THEN UpdateRow(body, ts)
           ELSE InsertRow(body, ts)
  BY <1>1
<1>. HIDE DEF f
<1>. QED
  BY <1>3, <1>4, <1>5 DEF Txn

(* Buffering leaves everything else of the transaction alone.               *)
LEMMA BufferingKeeps ==
  ASSUME NEW t \in Txn, NEW c, NEW ids, NEW body, NEW ts
  PROVE  /\ Buffering(t, c, ids, body, ts).mode = t.mode
         /\ Buffering(t, c, ids, body, ts).reads = t.reads
         /\ Buffering(t, c, ids, body, ts).rows = t.rows
         /\ Buffering(t, c, ids, body, ts).wc = t.wc
         /\ Buffering(t, c, ids, body, ts).wb = t.wb
BY DEF Buffering, Txn

(* A deleted collection leaves a tombstone and no rows (erect_tombstone).    *)
LEMMA DeletedCollectionType ==
  ASSUME NEW t \in Txn, NEW c \in Collections, NEW ts \in 0..MaxTime
  PROVE  /\ DeletedCollection(t, c, ts) \in Txn
         /\ DeletedCollection(t, c, ts).mode = t.mode
         /\ DeletedCollection(t, c, ts).reads = t.reads
         /\ DeletedCollection(t, c, ts).rows = t.rows \cup ({c} \X Ids)
         /\ DeletedCollection(t, c, ts).wc =
              [t.wc EXCEPT ![c] = Absent, ![Tombstone] = ts]
         /\ DeletedCollection(t, c, ts).mut = t.mut
         /\ \A d \in Collections, i \in Ids :
               DeletedCollection(t, c, ts).wb[d][i] =
                 IF d = c THEN NoRow ELSE t.wb[d][i]
<1>. DEFINE u == DeletedRows(t, c, Ids)
            wc == [t.wc EXCEPT ![c] = Absent, ![Tombstone] = ts]
<1>1. /\ u \in Txn /\ u.mode = t.mode /\ u.reads = t.reads
      /\ u.rows = t.rows \cup ({c} \X Ids) /\ u.wc = t.wc /\ u.mut = t.mut
      /\ \A d \in Collections, i \in Ids :
            u.wb[d][i] = IF d = c THEN NoRow ELSE t.wb[d][i]
  <2>1. Ids \in SUBSET Ids
    OBVIOUS
  <2>. QED
    BY <2>1, DeletedRowsType
<1>2. c \in CollKeys /\ Tombstone \in CollKeys /\ c # Tombstone
  BY CollectionsAssumption DEF CollKeys
<1>3. wc \in [CollKeys -> NotSet..MaxTime]
  <2>1. t.wc \in [CollKeys -> NotSet..MaxTime]
    BY DEF Txn
  <2>2. ts \in NotSet..MaxTime /\ Absent \in NotSet..MaxTime
    BY MaxTimeAssumption
  <2>. QED
    BY <2>1, <2>2
<1>4. DeletedCollection(t, c, ts) = [u EXCEPT !.wc = wc]
  BY <1>1 DEF DeletedCollection, Txn
<1>. HIDE DEF u, wc
<1>5. /\ [u EXCEPT !.wc = wc] \in Txn
      /\ [u EXCEPT !.wc = wc].mode = u.mode
      /\ [u EXCEPT !.wc = wc].reads = u.reads
      /\ [u EXCEPT !.wc = wc].rows = u.rows
      /\ [u EXCEPT !.wc = wc].wc = wc
      /\ [u EXCEPT !.wc = wc].wb = u.wb
      /\ [u EXCEPT !.wc = wc].mut = u.mut
  BY <1>1, <1>3 DEF Txn
<1>. QED
  BY <1>1, <1>4, <1>5 DEF wc

(* Rows of one collection replaced, those of the others kept. *)
LEMMA RowsReplaced ==
  ASSUME NEW S, NEW old \in [Collections -> [Ids -> S]],
         NEW new \in [Collections -> [Ids -> S]], NEW c \in Collections, NEW g(_),
         \A d \in Collections, i \in Ids :
            new[d][i] = IF d = c THEN g(i) ELSE old[d][i]
  PROVE  new = [old EXCEPT ![c] = [i \in Ids |-> g(i)]]
<1>1. new[c] = [i \in Ids |-> g(i)]
  <2>1. new[c] = [i \in Ids |-> new[c][i]] /\ \A i \in Ids : new[c][i] = g(i)
    OBVIOUS
  <2>. QED
    BY <2>1
<1>2. ASSUME NEW d \in Collections, d # c PROVE new[d] = old[d]
  <2>1. /\ new[d] = [i \in Ids |-> new[d][i]] /\ old[d] = [i \in Ids |-> old[d][i]]
        /\ \A i \in Ids : new[d][i] = old[d][i]
    BY <1>2
  <2>. QED
    BY <2>1
<1>. QED
  BY <1>1, <1>2

-----------------------------------------------------------------------------
(* Type correctness.  The type invariant alone is not inductive: a request   *)
(* for a BSO must have one, and a writer past its lock must have a time.     *)

WellFormedRequest(r) ==
    /\ r.kind \in BsoKinds => r.ids # {}
    /\ r.kind \in WriteKinds /\ r.pc \in {"check", "handle", "commit"}
       => r.ts \in 1..MaxTime

WellFormed == \A p \in Clients : WellFormedRequest(req[p])

TypeInv == TypeOK /\ WellFormed

LEMMA BodiesAreColumns == Bodies \cup {NoBody} \subseteq Columns
BY BodiesAssumption DEF NoBody, Columns

LEMMA IdleType == Idle \in Request
<1>1. AnyCollection \in Collections
  BY CollectionsAssumption DEF AnyCollection
<1>2. NothingRead \in [Ids -> Absent..MaxTime]
  BY MaxTimeAssumption DEF NothingRead
<1>. QED
  BY <1>1, <1>2, MaxTimeAssumption
  DEF Idle, Request, Phases, AllKinds, StorageKinds, Statuses

LEMMA InitTypeInv == Init => TypeInv
<1>. SUFFICES ASSUME Init PROVE TypeInv
  OBVIOUS
<1>1. now \in 1..MaxTime /\ uc \in [CollKeys -> Absent..MaxTime]
  BY MaxTimeAssumption DEF Init, StoreInit
<1>2. bso \in [Collections -> [Ids -> Row \cup {NoRow}]]
  BY DEF Init, StoreInit
<1>3. txn \in [Clients -> Txn]
  BY EmptyTxnType DEF Init, StoreInit, NoTxn
<1>4. req \in [Clients -> Request] /\ high \in [Collections -> Absent..MaxTime]
  BY IdleType, MaxTimeAssumption DEF Init
<1>5. WellFormed
  BY DEF Init, WellFormed, WellFormedRequest, Idle, BsoKinds, WriteKinds, PostKinds
<1>. QED
  BY <1>1, <1>2, <1>3, <1>4, <1>5 DEF TypeInv, TypeOK, StoreTypeOK

(* A nonempty set of naturals has a least element. *)
LEMMA LeastElement ==
  ASSUME NEW S \in SUBSET Nat, S # {}
  PROVE  \E x \in S : \A y \in S : ~ (y < x)
<1>. DEFINE Less == {ss \in Nat \X Nat : ss[1] < ss[2]}
<1>1. IsWellFoundedOn(Less, Nat)
  BY NatLessThanWellFounded, Zenon DEF OpToRel
<1>2. PICK x \in S : \A y \in S : ~ (<<y, x>> \in Less)
  <2>. HIDE DEF Less
  <2>. QED
    BY <1>1, WFMin
<1>. QED
  BY <1>2

(* MAX(modified) exists (get_storage_timestamp). *)
LEMMA StorageTimestampType ==
  ASSUME TypeOK, NEW t \in Txn
  PROVE  StorageTimestamp(t) \in 0..MaxTime
<1>. DEFINE Bound == {m \in Nat : \A k \in CollKeys : CollView(t, k) <= m}
<1>1. MaxTime \in Bound
  BY ViewType, MaxTimeAssumption DEF TypeOK
<1>2. PICK least \in Bound : \A m \in Bound : ~ (m < least)
  <2>1. Bound \in SUBSET Nat /\ Bound # {}
    BY <1>1
  <2>. HIDE DEF Bound
  <2>. QED
    BY <2>1, LeastElement
<1>3. least <= MaxTime
  BY <1>1, <1>2, MaxTimeAssumption
<1>4. least = 0 \/ \E k \in CollKeys : CollView(t, k) = least
  <2>. SUFFICES ASSUME least # 0, \A k \in CollKeys : CollView(t, k) # least
                PROVE  FALSE
    OBVIOUS
  <2>1. \A k \in CollKeys : CollView(t, k) <= least - 1
    BY <1>2, ViewType, MaxTimeAssumption DEF TypeOK
  <2>2. least - 1 \in Bound
    BY <2>1, <1>2
  <2>. QED
    BY <2>2, <1>2
<1>5. \E m \in 0..MaxTime :
         /\ m = 0 \/ \E k \in CollKeys : CollView(t, k) = m
         /\ \A k \in CollKeys : CollView(t, k) <= m
  BY <1>2, <1>3, <1>4
<1>. QED
  BY <1>5 DEF StorageTimestamp

(* extract_resource returns a time. *)
LEMMA ResourceTimestampType ==
  ASSUME TypeInv, NEW p \in Clients, NEW t \in Txn
  PROVE  ResourceTimestamp(p, t) \in 0..MaxTime
<1>1. /\ req[p].coll \in Collections /\ req[p].cached \in Absent..MaxTime
      /\ req[p].ids \in SUBSET Ids
  BY DEF TypeInv, TypeOK, Request
<1>2. CollTimestamp(t, req[p].coll) \in 0..MaxTime
  <2>1. CollView(t, req[p].coll) \in Absent..MaxTime
    BY <1>1, ViewType DEF TypeInv, CollKeys, TypeOK
  <2>. QED
    BY <2>1, MaxTimeAssumption DEF CollTimestamp
<1>3. req[p].kind \in BsoKinds
      => BsoTimestamp(t, req[p].coll, TheId(p)) \in 0..MaxTime
  <2>. SUFFICES ASSUME req[p].kind \in BsoKinds
                PROVE  BsoTimestamp(t, req[p].coll, TheId(p)) \in 0..MaxTime
    OBVIOUS
  <2>1. TheId(p) \in Ids
    BY <1>1 DEF TheId, TypeInv, WellFormed, WellFormedRequest
  <2>2. BsoView(t, req[p].coll, TheId(p)) \in Row \cup {NoRow}
    BY <1>1, <2>1, ViewType DEF TypeInv, TypeOK
  <2>. QED
    BY <2>2, MaxTimeAssumption
    DEF BsoTimestamp, Visible, Present, Row, NoRow
<1>4. StorageTimestamp(t) \in 0..MaxTime
  BY StorageTimestampType DEF TypeInv
<1>. QED
  BY <1>1, <1>2, <1>3, <1>4, MaxTimeAssumption DEF ResourceTimestamp

(* The step of one request that leaves the tables alone. *)
LEMMA LocalStepType ==
  ASSUME TypeInv, NEW p \in Clients,
         NEW r \in Request, WellFormedRequest(r), NEW t \in Txn,
         req' = [req EXCEPT ![p] = r], txn' = [txn EXCEPT ![p] = t],
         UNCHANGED <<now, uc, bso, high>>
  PROVE  TypeInv'
<1>1. req' \in [Clients -> Request] /\ txn' \in [Clients -> Txn]
  BY DEF TypeInv, TypeOK, StoreTypeOK
<1>2. \A q \in Clients : WellFormedRequest(req'[q])
  BY DEF TypeInv, TypeOK, WellFormed
<1>. QED
  BY <1>1, <1>2 DEF TypeInv, TypeOK, StoreTypeOK, WellFormed, WellFormedRequest

LEMMA IdleWellFormed == WellFormedRequest(Idle)
BY DEF WellFormedRequest, Idle, BsoKinds, WriteKinds, PostKinds

(* A request that ends leaves a well-typed state (Close). *)
LEMMA CloseType ==
  ASSUME TypeInv, NEW p \in Clients, Close(p)
  PROVE  TypeInv'
BY IdleType, IdleWellFormed, NoTxnType, LocalStepType DEF Close, Discard

LEMMA StartType ==
  ASSUME TypeInv, NEW p \in Clients, Start(p)
  PROVE  TypeInv'
<1>1. PICK kind \in Kinds, c \in Collections, pre \in Preconds :
         \E ids \in IdsOf(kind),
            body \in IF kind \in PostKinds THEN Bodies ELSE {NoBody},
            since \in IF pre = "none" THEN {0} ELSE 0..MaxTime :
            req' = [req EXCEPT ![p] = Arriving(kind, c, ids, body, pre, since)]
  BY ZenonT(60) DEF Start
<1>2. PICK ids \in IdsOf(kind),
           body \in IF kind \in PostKinds THEN Bodies ELSE {NoBody},
           since \in IF pre = "none" THEN {0} ELSE 0..MaxTime :
           req' = [req EXCEPT ![p] = Arriving(kind, c, ids, body, pre, since)]
  BY <1>1
<1>. DEFINE r == Arriving(kind, c, ids, body, pre, since)
<1>3. ids \in SUBSET Ids /\ (kind \in BsoKinds => ids # {})
  BY DEF IdsOf
<1>4. /\ kind \in AllKinds
      /\ body \in Bodies \cup {NoBody}
      /\ pre \in {"none", "if_modified_since", "if_unmodified_since"}
      /\ since \in 0..MaxTime
  BY KindsAssumption, PrecondsAssumption, MaxTimeAssumption
<1>5. r \in Request
  BY <1>3, <1>4, IdleType, ZenonT(60) DEF Arriving, Request, Phases
<1>6. WellFormedRequest(r)
  BY <1>3, IdleType
  DEF Arriving, WellFormedRequest, Request, WriteKinds, PostKinds, StorageKinds
<1>7. txn[p] \in Txn /\ txn' = [txn EXCEPT ![p] = txn[p]]
  BY DEF Start, TypeInv, TypeOK, StoreTypeOK
<1>8. req' = [req EXCEPT ![p] = r] /\ UNCHANGED <<now, uc, bso, high>>
  BY <1>2 DEF Start
<1>. HIDE DEF r
<1>. QED
  BY <1>5, <1>6, <1>7, <1>8, LocalStepType

(* What every step of a request in progress may use of the type invariant. *)
LEMMA RequestFields ==
  ASSUME TypeInv, NEW p \in Clients
  PROVE  /\ txn[p] \in Txn /\ req[p] \in Request /\ WellFormedRequest(req[p])
         /\ now \in 1..MaxTime /\ now \in 0..MaxTime
         /\ req[p].coll \in Collections /\ req[p].coll \in CollKeys
         /\ Tombstone \in CollKeys
         /\ req[p].ids \in SUBSET Ids
         /\ \A k \in CollKeys : uc[k] \in Absent..MaxTime
BY MaxTimeAssumption
DEF TypeInv, TypeOK, StoreTypeOK, WellFormed, Request, CollKeys

LEMMA BeginType ==
  ASSUME TypeInv, NEW p \in Clients, Begin(p)
  PROVE  TypeInv'
<1>. USE RequestFields
<1>1. CASE LockForRead(p)
  <2>. DEFINE r == [req[p] EXCEPT !.pc = "check"]
  <2>1. r \in Request
    BY DEF Request, Phases
  <2>2. WellFormedRequest(r)
    BY <1>1 DEF WellFormedRequest, LockForRead, In, ReadKinds, WriteKinds,
                PostKinds, Request
  <2>3. req' = [req EXCEPT ![p] = r] /\ txn' = [txn EXCEPT ![p] = BeginRead]
        /\ UNCHANGED <<now, uc, bso, high>>
    BY <1>1 DEF LockForRead, Goto, SetTxn
  <2>. HIDE DEF r
  <2>. QED
    <3>1. BeginRead \in Txn
      BY BeginReadType DEF TypeInv, TypeOK
    <3>. QED
      BY <2>1, <2>2, <2>3, <3>1, LocalStepType
<1>. DEFINE c == req[p].coll
            t == Reading(BeginWrite, {c}, {})
<1>2. t \in Txn
  <2>1. {c} \in SUBSET CollKeys /\ {} \in SUBSET (Collections \X Ids)
    OBVIOUS
  <2>. QED
    BY <2>1, NoTxnType, ReadingType
<1>3. CASE LockForWrite(p)
  <2>. DEFINE r == [req[p] EXCEPT !.pc = "check", !.ts = now, !.cached = uc[c]]
  <2>1. r \in Request
    <3>1. req[p] \in Request /\ now \in 0..MaxTime /\ uc[c] \in Absent..MaxTime
      OBVIOUS
    <3>. HIDE RequestFields
    <3>. QED
      BY <3>1 DEF Request, Phases
  <2>2. WellFormedRequest(r)
    BY DEF WellFormedRequest, Request
  <2>3. req' = [req EXCEPT ![p] = r] /\ txn' = [txn EXCEPT ![p] = t]
        /\ UNCHANGED <<now, uc, bso, high>>
    BY <1>3 DEF LockForWrite, SetTxn
  <2>. HIDE DEF r, t
  <2>. QED
    BY <1>2, <2>1, <2>2, <2>3, LocalStepType
<1>4. CASE LockForWriteNew(p)
  <2>. DEFINE r == [req[p] EXCEPT !.pc = "timestamp"]
  <2>1. r \in Request
    BY DEF Request, Phases
  <2>2. WellFormedRequest(r)
    BY DEF WellFormedRequest, Request
  <2>3. req' = [req EXCEPT ![p] = r] /\ txn' = [txn EXCEPT ![p] = t]
        /\ UNCHANGED <<now, uc, bso, high>>
    BY <1>4 DEF LockForWriteNew, Goto, SetTxn
  <2>. HIDE DEF r, t
  <2>. QED
    BY <1>2, <2>1, <2>2, <2>3, LocalStepType
<1>5. CASE LockConflict(p)
  BY <1>5, CloseType DEF LockConflict
<1>6. CASE ReadClock(p)
  <2>. DEFINE r == [req[p] EXCEPT !.pc = "check", !.ts = now]
  <2>1. r \in Request
    <3>1. req[p] \in Request /\ now \in 0..MaxTime
      OBVIOUS
    <3>. HIDE RequestFields
    <3>. QED
      BY <3>1 DEF Request, Phases
  <2>2. WellFormedRequest(r)
    BY DEF WellFormedRequest, Request
  <2>3. req' = [req EXCEPT ![p] = r] /\ txn' = [txn EXCEPT ![p] = txn[p]]
        /\ UNCHANGED <<now, uc, bso, high>>
    BY <1>6 DEF ReadClock, TypeInv, TypeOK, StoreTypeOK
  <2>. HIDE DEF r
  <2>. QED
    BY <2>1, <2>2, <2>3, LocalStepType
<1>7. CASE CheckPrecondition(p)
  <2>. DEFINE u == AfterResourceQuery(p)
              rts == ResourceTimestamp(p, u)
              status == PreconditionStatus(req[p], rts)
              r == Checked(req[p], rts, status)
  <2>1. u \in Txn
    <3>1. CASE req[p].kind \in StorageKinds
      <4>1. CollKeys \in SUBSET CollKeys /\ {} \in SUBSET (Collections \X Ids)
        OBVIOUS
      <4>. QED
        BY <3>1, <4>1, NoTxnType, ReadingType DEF AfterResourceQuery
    <3>2. CASE req[p].kind \in BsoKinds
      <4>1. TheId(p) \in Ids
        BY <3>2 DEF TheId, WellFormedRequest
      <4>2. {} \in SUBSET CollKeys
            /\ {<<req[p].coll, TheId(p)>>} \in SUBSET (Collections \X Ids)
        BY <4>1
      <4>3. Reading(txn[p], {}, {<<req[p].coll, TheId(p)>>}) \in Txn
        BY <4>2, ReadingType
      <4>. QED
        BY <3>2, <4>3 DEF AfterResourceQuery, BsoKinds, StorageKinds
    <3>3. CASE req[p].kind \notin StorageKinds \cup BsoKinds
      <4>1. {req[p].coll} \in SUBSET CollKeys /\ {} \in SUBSET (Collections \X Ids)
        OBVIOUS
      <4>2. Reading(txn[p], {req[p].coll}, {}) \in Txn
        BY <4>1, ReadingType
      <4>. QED
        BY <3>3, <4>2 DEF AfterResourceQuery
    <3>. QED
      BY <3>1, <3>2, <3>3
  <2>2. rts \in 0..MaxTime
    BY <2>1, ResourceTimestampType
  <2>3. req' = [req EXCEPT ![p] = r] /\ txn' = [txn EXCEPT ![p] = u]
        /\ UNCHANGED <<now, uc, bso, high>>
    BY <1>7 DEF CheckPrecondition, SetTxn
  <2>. HIDE DEF u, rts
  <2>4. status \in Statuses
    BY DEF Statuses, PreconditionStatus
  <2>. HIDE DEF status
  <2>5. r \in Request
    <3>1. (IF status = 0 THEN "handle" ELSE "commit") \in Phases
          /\ (IF status = 0 THEN 0 ELSE rts) \in 0..MaxTime
          /\ req[p] \in Request
      BY <2>2, MaxTimeAssumption DEF Phases
    <3>. HIDE RequestFields
    <3>. QED
      BY <2>2, <2>4, <3>1 DEF Request, Checked
  <2>6. WellFormedRequest(r)
    BY <1>7 DEF WellFormedRequest, Request, CheckPrecondition, Checked
  <2>. HIDE DEF r
  <2>. QED
    BY <2>1, <2>3, <2>5, <2>6, LocalStepType
<1>. QED
  BY <1>1, <1>3, <1>4, <1>5, <1>6, <1>7 DEF Begin

(* The deletion of the whole storage (delete_storage).                       *)
LEMMA DeletedStorageType ==
  /\ DeletedStorage \in Txn
  /\ DeletedStorage.mode = "rw"
  /\ DeletedStorage.wc = [k \in CollKeys |-> Absent]
  /\ DeletedStorage.wb = [c \in Collections |-> [i \in Ids |-> NoRow]]
  /\ DeletedStorage.mut = NothingBuffered
<1>. DEFINE t == Reading(BeginWrite, CollKeys, Collections \X Ids)
            wc == [k \in CollKeys |-> Absent]
            wb == [c \in Collections |-> [i \in Ids |-> NoRow]]
<1>1. t \in Txn
  <2>1. /\ CollKeys \in SUBSET CollKeys
        /\ Collections \X Ids \in SUBSET (Collections \X Ids)
    OBVIOUS
  <2>. QED
    BY <2>1, NoTxnType, ReadingType
<1>2. t.mode = "rw" /\ t.mut = NothingBuffered
  BY NoTxnType, ReadingFields DEF BeginWrite, EmptyTxn
<1>3. wc \in [CollKeys -> NotSet..MaxTime]
  BY MaxTimeAssumption
<1>4. wb \in [Collections -> [Ids -> Row \cup {NoRow, NotStaged}]]
  OBVIOUS
<1>5. DeletedStorage = [t EXCEPT !.wc = wc, !.wb = wb]
  BY DEF DeletedStorage
<1>. HIDE DEF t, wc, wb
<1>6. /\ [t EXCEPT !.wc = wc, !.wb = wb] \in Txn
      /\ [t EXCEPT !.wc = wc, !.wb = wb].mode = t.mode
      /\ [t EXCEPT !.wc = wc, !.wb = wb].wc = wc
      /\ [t EXCEPT !.wc = wc, !.wb = wb].wb = wb
      /\ [t EXCEPT !.wc = wc, !.wb = wb].mut = t.mut
  BY <1>1, <1>3, <1>4 DEF Txn
<1>. QED
  BY <1>2, <1>5, <1>6 DEF wc, wb

(* A handler's answer (Respond) leaves a well-typed state. *)
LEMMA RespondType ==
  ASSUME TypeInv, NEW p \in Clients, NEW t \in Txn,
         NEW status \in Statuses, NEW lm \in 0..MaxTime,
         req[p].pc # "handle" => req[p].kind \notin WriteKinds,
         SetTxn(p, t), Respond(p, status, lm)
  PROVE  TypeInv'
<1>. DEFINE r == [req[p] EXCEPT !.pc = "commit", !.status = status, !.lm = lm]
<1>1. r \in Request
  <2>1. req[p] \in Request
    BY RequestFields
  <2>. QED
    BY <2>1 DEF Request, Phases
<1>2. WellFormedRequest(r)
  BY RequestFields DEF WellFormedRequest, Request
<1>3. req' = [req EXCEPT ![p] = r]
  BY DEF Respond
<1>. HIDE DEF r
<1>. QED
  BY <1>1, <1>2, <1>3, LocalStepType DEF SetTxn

(* The writing handlers (post_bsos, delete_bso, delete_bsos). *)
LEMMA HandleWriteType ==
  ASSUME TypeInv, NEW p \in Clients,
         PostBsos(p) \/ DeleteBso(p) \/ DeleteBsos(p)
  PROVE  TypeInv'
<1>. DEFINE r == req[p]
            touched == Touched(txn[p], r.coll, r.ts)
<1>1. /\ r.coll \in Collections /\ r.ids \in SUBSET Ids
      /\ r.ts \in 1..MaxTime /\ r.ts \in 0..MaxTime
      /\ r.rts \in 0..MaxTime /\ r.body \in Bodies \cup {NoBody}
      /\ r.pc = "handle" /\ txn[p] \in Txn /\ 200 \in Statuses
  <2>1. r.pc = "handle" /\ r.kind \in WriteKinds
    BY DEF PostBsos, DeleteBso, DeleteBsos, In, WriteKinds
  <2>2. r.ts \in 1..MaxTime
    BY <2>1, RequestFields DEF WellFormedRequest
  <2>. QED
    BY <2>1, <2>2, RequestFields DEF Request, Statuses
<1>2. touched \in Txn
  BY <1>1, TouchedType
<1>. HIDE DEF touched
<1>3. CASE PostBsos(p)
  <2>. DEFINE t == Reading(touched, {}, {r.coll} \X r.ids)
  <2>1. t \in Txn
    <3>1. {} \in SUBSET CollKeys /\ {r.coll} \X r.ids \in SUBSET (Collections \X Ids)
      BY <1>1
    <3>. QED
      BY <1>2, <3>1, ReadingType
  <2>2. SetTxn(p, Buffering(t, r.coll, r.ids, r.body, r.ts)) /\ Respond(p, 200, r.ts)
    BY <1>3 DEF PostBsos, touched
  <2>. HIDE DEF t, r
  <2>3. Buffering(t, r.coll, r.ids, r.body, r.ts) \in Txn
    BY <1>1, <2>1, BodiesAreColumns, BufferingType
  <2>. QED
    BY <1>1, <2>2, <2>3, RespondType DEF r
<1>4. CASE DeleteBso(p)
  <2>. DEFINE t == DeletedRows(touched, r.coll, r.ids)
  <2>1. t \in Txn
    BY <1>1, <1>2, DeletedRowsType
  <2>2. (SetTxn(p, t) /\ Respond(p, 200, r.rts)) \/ Close(p)
    BY <1>4 DEF DeleteBso, touched
  <2>. HIDE DEF t
  <2>. QED
    BY <1>1, <2>1, <2>2, RespondType, CloseType
<1>5. CASE DeleteBsos(p)
  <2>. DEFINE u == DeletedRows(txn[p], r.coll, r.ids)
              t == Touched(u, r.coll, r.ts)
  <2>1. u \in Txn
    BY <1>1, DeletedRowsType
  <2>. HIDE DEF u
  <2>2. t \in Txn
    BY <1>1, <2>1, TouchedType
  <2>3. SetTxn(p, t) /\ Respond(p, 200, r.ts)
    BY <1>5 DEF DeleteBsos, u
  <2>. HIDE DEF t
  <2>. QED
    BY <1>1, <2>2, <2>3, RespondType
<1>. QED
  BY <1>3, <1>4, <1>5

(* The handlers that delete a collection or the storage. *)
LEMMA HandleDeleteType ==
  ASSUME TypeInv, NEW p \in Clients,
         DeleteCollection(p) \/ DeleteAll(p)
  PROVE  TypeInv'
<1>. DEFINE r == req[p]
<1>1. /\ r.coll \in Collections /\ r.coll \in CollKeys /\ Tombstone \in CollKeys
      /\ r.ts \in 0..MaxTime /\ r.rts \in 0..MaxTime
      /\ r.pc = "handle" /\ txn[p] \in Txn /\ 200 \in Statuses
  BY RequestFields DEF Request, Statuses, DeleteCollection, DeleteAll, In
<1>2. CASE DeleteCollection(p)
  <2>. DEFINE u == Reading(txn[p], {r.coll, Tombstone}, {})
              t == IF CollView(u, r.coll) > PRETOUCH
                   THEN DeletedCollection(u, r.coll, r.ts)
                   ELSE Reading(u, CollKeys, {})
  <2>1. u \in Txn
    <3>1. /\ {r.coll, Tombstone} \in SUBSET CollKeys
          /\ {} \in SUBSET (Collections \X Ids)
      BY <1>1
    <3>. QED
      BY <1>1, <3>1, ReadingType
  <2>2. SetTxn(p, t) /\ Respond(p, 200, r.rts)
    BY <1>2 DEF DeleteCollection
  <2>. HIDE DEF u
  <2>3. DeletedCollection(u, r.coll, r.ts) \in Txn
    BY <1>1, <2>1, DeletedCollectionType
  <2>4. Reading(u, CollKeys, {}) \in Txn
    <3>1. CollKeys \in SUBSET CollKeys /\ {} \in SUBSET (Collections \X Ids)
      OBVIOUS
    <3>. QED
      BY <2>1, <3>1, ReadingType
  <2>5. t \in Txn
    BY <2>3, <2>4
  <2>. HIDE DEF t
  <2>. QED
    BY <1>1, <2>2, <2>5, RespondType
<1>3. CASE DeleteAll(p)
  BY <1>1, <1>3, DeletedStorageType, RespondType DEF DeleteAll
<1>. QED
  BY <1>2, <1>3

(* The reading handlers. *)
LEMMA HandleReadType ==
  ASSUME TypeInv, NEW p \in Clients,
         GetBso(p) \/ GetBsos(p) \/ FinishGetCollection(p) \/ GetInfo(p)
  PROVE  TypeInv'
<1>. DEFINE SameTxn == /\ txn' = [txn EXCEPT ![p] = txn[p]]
                       /\ UNCHANGED <<now, uc, bso, high>>
            found(ids) == Found(txn[p], req[p].coll, ids)
<1>1. txn[p] \in Txn /\ req[p] \in Request /\ WellFormedRequest(req[p])
      /\ req[p].coll \in Collections
  BY RequestFields
<1>2. \A ids \in SUBSET Ids : found(ids) \in [Ids -> Absent..MaxTime]
  <2>1. \A i \in Ids : BsoView(txn[p], req[p].coll, i) \in Row \cup {NoRow}
    BY <1>1, ViewType DEF TypeInv, TypeOK
  <2>. QED
    BY <2>1, MaxTimeAssumption DEF Found, Row, NoRow
<1>3. CASE GetBso(p)
  <2>. DEFINE items == found(req[p].ids)
              status == IF items = NothingRead THEN 404 ELSE 200
              r == [req[p] EXCEPT !.pc = "commit", !.lm = req[p].rts,
                      !.status = status, !.items = items]
  <2>1. items \in [Ids -> Absent..MaxTime]
    BY <1>1, <1>2 DEF Request
  <2>2. status \in Statuses
    BY DEF Statuses
  <2>3. req' = [req EXCEPT ![p] = r] /\ SameTxn
    <3>1. /\ req' = [req EXCEPT ![p] = r] /\ txn' = txn
          /\ UNCHANGED <<now, uc, bso, high>>
      BY <1>3 DEF GetBso
    <3>2. txn = [txn EXCEPT ![p] = txn[p]]
      BY DEF TypeInv, TypeOK, StoreTypeOK
    <3>. QED
      BY <3>1, <3>2
  <2>. HIDE DEF items, status
  <2>4. r \in Request
    BY <1>1, <2>1, <2>2 DEF Request, Phases
  <2>5. WellFormedRequest(r)
    BY <1>1, <1>3
    DEF WellFormedRequest, Request, GetBso, In, BsoKinds, WriteKinds, PostKinds
  <2>. HIDE DEF r
  <2>. QED
    BY <1>1, <2>3, <2>4, <2>5, LocalStepType
<1>4. CASE GetBsos(p)
  <2>. DEFINE items == found(Ids)
              r == [req[p] EXCEPT !.pc = "finish", !.items = items]
  <2>1. req' = [req EXCEPT ![p] = r] /\ SameTxn
    BY <1>4 DEF GetBsos, TypeInv, TypeOK, StoreTypeOK
  <2>2. items \in [Ids -> Absent..MaxTime]
    BY <1>2
  <2>. HIDE DEF items
  <2>3. r \in Request
    BY <1>1, <2>2 DEF Request, Phases
  <2>4. WellFormedRequest(r)
    BY <1>1 DEF WellFormedRequest, Request
  <2>. HIDE DEF r
  <2>. QED
    BY <1>1, <2>1, <2>3, <2>4, LocalStepType
<1>5. CASE FinishGetCollection(p)
  <2>1. CollTimestamp(txn[p], req[p].coll) \in 0..MaxTime
    <3>1. CollView(txn[p], req[p].coll) \in Absent..MaxTime
      BY <1>1, ViewType DEF TypeInv, CollKeys, TypeOK
    <3>. QED
      BY <3>1, MaxTimeAssumption DEF CollTimestamp
  <2>2. SetTxn(p, txn[p])
    BY <1>5 DEF FinishGetCollection, SetTxn, TypeInv, TypeOK, StoreTypeOK
  <2>3. req[p].kind \notin WriteKinds /\ 200 \in Statuses
        /\ Respond(p, 200, CollTimestamp(txn[p], req[p].coll))
    BY <1>5 DEF FinishGetCollection, In, WriteKinds, PostKinds, Statuses
  <2>. QED
    BY <1>1, <2>1, <2>2, <2>3, RespondType
<1>6. CASE GetInfo(p)
  <2>1. CollKeys \in SUBSET CollKeys /\ {} \in SUBSET (Collections \X Ids)
    OBVIOUS
  <2>2. Reading(txn[p], CollKeys, {}) \in Txn
    BY <1>1, <2>1, ReadingType
  <2>3. SetTxn(p, Reading(txn[p], CollKeys, {})) /\ Respond(p, 200, req[p].rts)
        /\ req[p].pc = "handle" /\ 200 \in Statuses /\ req[p].rts \in 0..MaxTime
    BY <1>1, <1>6 DEF GetInfo, In, Statuses, Request
  <2>. QED
    BY <2>2, <2>3, RespondType
<1>. QED
  BY <1>3, <1>4, <1>5, <1>6

(* The commit of a request (commit_async). *)
LEMMA EndType ==
  ASSUME TypeInv, NEW p \in Clients, End(p)
  PROVE  TypeInv'
<1>1. CASE CommitRead(p) \/ Aborted(p)
  BY <1>1, CloseType DEF CommitRead, Aborted
<1>2. CASE CommitWrite(p) /\ ~MutationsApply(txn[p])
  BY <1>2, CloseType DEF CommitWrite
<1>3. CASE CommitWrite(p) /\ MutationsApply(txn[p])
  <2>1. txn[p] \in Txn
    BY RequestFields
  <2>2. uc' \in [CollKeys -> Absent..MaxTime]
    <3>1. uc' = [k \in CollKeys |-> CollView(txn[p], k)]
      BY <1>3 DEF CommitWrite, Commit, CollAfter
    <3>. QED
      BY <2>1, <3>1, ViewType DEF TypeInv, TypeOK
  <2>3. bso' \in [Collections -> [Ids -> Row \cup {NoRow}]]
    <3>1. bso' = [c \in Collections |-> [i \in Ids |-> RowAfter(txn[p], c, i)]]
      BY <1>3 DEF CommitWrite, Commit
    <3>. QED
      BY <1>3, <2>1, <3>1, RowAfterType DEF TypeInv, TypeOK
  <2>4. txn' \in [Clients -> Txn]
    BY <1>3, NoTxnType DEF CommitWrite, Commit, TypeInv, TypeOK, StoreTypeOK
  <2>5. high' \in [Collections -> Absent..MaxTime]
    <3>1. \A c \in Collections : uc'[c] \in Absent..MaxTime
      BY <2>2 DEF CollKeys
    <3>2. high' = [c \in Collections |->
                     IF uc'[c] > high[c] THEN uc'[c] ELSE high[c]]
      BY <1>3 DEF CommitWrite
    <3>. QED
      BY <3>1, <3>2 DEF TypeInv, TypeOK
  <2>6. req' = [req EXCEPT ![p] = Idle] /\ now' = now
    BY <1>3 DEF CommitWrite, Commit
  <2>7. req' \in [Clients -> Request] /\ \A q \in Clients : WellFormedRequest(req'[q])
    BY <2>6, IdleType, IdleWellFormed DEF TypeInv, TypeOK, WellFormed
  <2>. QED
    BY <2>2, <2>3, <2>4, <2>5, <2>6, <2>7
    DEF TypeInv, TypeOK, StoreTypeOK, WellFormed, WellFormedRequest
<1>. QED
  BY <1>1, <1>2, <1>3 DEF End, CommitWrite

LEMMA EnvironmentType ==
  ASSUME TypeInv, Environment
  PROVE  TypeInv'
<1>1. req' = req /\ high' = high
  BY DEF Environment
<1>2. StoreTypeOK'
  <2>1. CASE Tick
    BY <2>1, MaxTimeAssumption DEF Tick, TypeInv, TypeOK, StoreTypeOK
  <2>2. ASSUME NEW p \in Clients, SpannerAbort(p) PROVE StoreTypeOK'
    BY <2>2, NoTxnType DEF SpannerAbort, TypeInv, TypeOK, StoreTypeOK
  <2>3. ASSUME NEW c \in Collections, NEW i \in Ids, PurgeRow(c, i)
        PROVE  StoreTypeOK'
    BY <2>3, NoTxnType DEF PurgeRow, TypeInv, TypeOK, StoreTypeOK
  <2>. QED
    BY <2>1, <2>2, <2>3 DEF Environment
<1>. QED
  BY <1>1, <1>2 DEF TypeInv, TypeOK, WellFormed, WellFormedRequest

LEMMA NextTypeInv == TypeInv /\ [Next]_vars => TypeInv'
<1>. SUFFICES ASSUME TypeInv, [Next]_vars PROVE TypeInv'
  OBVIOUS
<1>1. ASSUME NEW p \in Clients, Handle(p) PROVE TypeInv'
  BY <1>1, HandleWriteType, HandleDeleteType, HandleReadType DEF Handle
<1>2. ASSUME NEW p \in Clients, GiveUp(p) PROVE TypeInv'
  BY <1>2, CloseType DEF GiveUp
<1>3. CASE UNCHANGED vars
  BY <1>3 DEF vars, TypeInv, TypeOK, StoreTypeOK, WellFormed, WellFormedRequest
<1>. QED
  BY <1>1, <1>2, <1>3, StartType, BeginType, EndType, EnvironmentType
  DEF Next, Serve

(* Every state is well typed: every transaction, row and request keeps the   *)
(* shape the code gives it, whatever commits, aborts and purges interleave.  *)
THEOREM TypeCorrect == Spec => []TypeOK
<1>1. Spec => []TypeInv
  BY InitTypeInv, NextTypeInv, PTL DEF Spec
<1>. QED
  BY <1>1, PTL DEF TypeInv

-----------------------------------------------------------------------------
(* Safety: the inductive invariant.                                        *)

\* DELETE /storage forgets the timestamps of the collections.
NeverForgets == "delete_all" \notin Kinds

\* The write lock: nobody has committed to the collection since it was read.
Locked(r, t) ==
    /\ t.mode = "rw" /\ r.kind \in WriteKinds
       /\ r.pc \in {"check", "handle", "commit"}
       => /\ r.coll \in t.reads
          /\ uc[r.coll] < r.ts
          /\ r.ts <= now
          /\ NeverForgets => high[r.coll] < r.ts
    /\ t.mode = "rw" /\ r.pc = "timestamp"
       => r.coll \in t.reads /\ uc[r.coll] <= PRETOUCH

\* What a transaction will write when it commits.
Untouched(t) == /\ t.wc = NothingWritten
                /\ t.wb = NothingStaged
                /\ t.mut = NothingBuffered

Fits(t, c, i, ts) ==
    \/ t.mut[c][i] = NoMutation
    \/ /\ t.mut[c][i].op = "insert" /\ t.mut[c][i].mod = ts
       /\ <<c, i>> \in t.rows /\ t.wb[c][i] = NotStaged
       /\ ~Present(bso[c][i])
    \/ /\ t.mut[c][i].op = "update" /\ t.mut[c][i].mod \in {NotSet, ts}
       /\ <<c, i>> \in t.rows /\ t.wb[c][i] = NotStaged
       /\ Present(bso[c][i])

WritesBsos(t, c, ts) ==
    /\ \A k \in CollKeys : t.wc[k] = IF k = c THEN ts ELSE NotSet
    /\ \A d \in Collections, i \in Ids :
          IF d = c THEN t.wb[d][i] \in {NotStaged, NoRow} /\ Fits(t, d, i, ts)
          ELSE t.wb[d][i] = NotStaged /\ t.mut[d][i] = NoMutation

RemovesCollection(t, c, ts) ==
    /\ \A k \in CollKeys : t.wc[k] = IF k = c THEN Absent
                                     ELSE IF k = Tombstone THEN ts ELSE NotSet
    /\ \A d \in Collections, i \in Ids :
          t.wb[d][i] = IF d = c THEN NoRow ELSE NotStaged
    /\ t.mut = NothingBuffered

RemovesStorage(t) ==
    /\ t.wc = [k \in CollKeys |-> Absent]
    /\ t.wb = [c \in Collections |-> [i \in Ids |-> NoRow]]
    /\ t.mut = NothingBuffered

\* What a handler answered with status may leave for the commit.
Staged(r, t, status) ==
    /\ status = 200
    /\ \/ /\ r.kind \in WriteKinds
          /\ \/ WritesBsos(t, r.coll, r.ts)
             \/ RemovesCollection(t, r.coll, r.ts)
       \/ r.kind = "delete_all" /\ RemovesStorage(t)

Shape(r, t) ==
    t.mode = "rw" => \/ Untouched(t)
                     \/ r.pc = "commit" /\ Staged(r, t, r.status)

SafeRequest(r, t) ==
    /\ r.pc # "idle" => r.kind \in Kinds
    /\ r.pc # "commit" /\ t.mode = "rw" => Untouched(t)
    /\ Locked(r, t)
    /\ Shape(r, t)

\* high is the timestamp of a collection that exists, and past otherwise.
HistoryKept ==
    NeverForgets =>
    \A c \in Collections :
        IF uc[c] > PRETOUCH THEN high[c] = uc[c] /\ uc[c] <= now
        ELSE high[c] < now

SafeInv ==
    /\ TypeInv
    /\ \A p \in Clients : SafeRequest(req[p], txn[p])
    /\ CollectionCoversBsos
    /\ HistoryKept

\* Requests and transactions are functions of the clients.
LEMMA StateFunctions ==
  ASSUME SafeInv
  PROVE  /\ req = [q \in Clients |-> req[q]]
         /\ txn = [q \in Clients |-> txn[q]]
<1>1. req \in [Clients -> Request] /\ txn \in [Clients -> Txn]
  BY Zenon DEF SafeInv, TypeInv, TypeOK, StoreTypeOK
<1>. HIDE DEF Request, Txn
<1>. QED
  BY <1>1

-----------------------------------------------------------------------------
(* A transaction another step left open, and whose reads that step did not   *)
(* overwrite, is as safe as before.                                          *)
LEMMA OpenStaysSafe ==
  ASSUME SafeInv, TypeInv', NEW q \in Clients,
         req'[q] = req[q],
         now <= now',
         \A c \in Collections : high'[c] = high[c] \/ high'[c] = uc'[c],
         txn'[q].mode = "rw" =>
            /\ txn'[q] = txn[q]
            /\ \A k \in txn[q].reads : uc'[k] = uc[k]
            /\ \A c \in Collections, i \in Ids :
                  <<c, i>> \in txn[q].rows => bso'[c][i] = bso[c][i]
  PROVE  SafeRequest(req[q], txn[q])'
<1>1. SafeRequest(req[q], txn[q]) /\ req[q] \in Request
  BY RequestFields DEF SafeInv
<1>2. CASE txn'[q].mode # "rw"
  BY <1>1, <1>2 DEF SafeRequest, Locked, Shape
<1>3. CASE txn'[q].mode = "rw"
  <2>1. Locked(req[q], txn[q])'
    <3>1. now \in 1..MaxTime /\ now' \in 1..MaxTime /\ req[q].ts \in 0..MaxTime
      BY <1>1 DEF SafeInv, TypeInv, TypeOK, StoreTypeOK, Request
    <3>2. req[q].coll \in Collections
      BY <1>1 DEF Request
    <3>3. Locked(req[q], txn[q])
      BY <1>1 DEF SafeRequest
    <3>4. req[q].coll \in txn[q].reads => uc'[req[q].coll] = uc[req[q].coll]
      BY <1>3
    <3>5. high'[req[q].coll] \in {high[req[q].coll], uc'[req[q].coll]}
      BY <3>2
    <3>. QED
      BY <1>3, <3>1, <3>3, <3>4, <3>5 DEF Locked
  <2>2. Shape(req[q], txn[q])'
    <3>1. ASSUME NEW c \in Collections, NEW i \in Ids, NEW ts,
                 Fits(txn[q], c, i, ts)
          PROVE  Fits(txn[q], c, i, ts)'
      BY <1>3, <3>1 DEF Fits, Present
    <3>2. ASSUME NEW c, NEW ts, WritesBsos(txn[q], c, ts)
          PROVE  WritesBsos(txn[q], c, ts)'
      BY <1>3, <3>1, <3>2 DEF WritesBsos
    <3>3. ASSUME NEW c, NEW ts, RemovesCollection(txn[q], c, ts)
          PROVE  RemovesCollection(txn[q], c, ts)'
      BY <1>3, <3>3 DEF RemovesCollection
    <3>4. /\ Untouched(txn[q]) => Untouched(txn[q])'
          /\ RemovesStorage(txn[q]) => RemovesStorage(txn[q])'
      BY <1>3 DEF Untouched, RemovesStorage
    <3>. QED
      BY <1>1, <1>3, <3>2, <3>3, <3>4 DEF SafeRequest, Shape, Staged
  <2>. QED
    BY <1>1, <1>3, <2>1, <2>2 DEF SafeRequest, Untouched
<1>. QED
  BY <1>2, <1>3

(* A step of one request that leaves the tables alone keeps the invariant    *)
(* when the request and its transaction are safe after it.                   *)
LEMMA LocalStepSafe ==
  ASSUME SafeInv, TypeInv', NEW p \in Clients, NEW r, NEW t, SafeRequest(r, t),
         req' = [req EXCEPT ![p] = r], txn' = [txn EXCEPT ![p] = t],
         UNCHANGED <<now, uc, bso, high>>
  PROVE  SafeInv'
<1>1. \A q \in Clients :
         /\ req'[q] = IF q = p THEN r ELSE req[q]
         /\ txn'[q] = IF q = p THEN t ELSE txn[q]
  BY StateFunctions
<1>2. SafeRequest(req[p], txn[p])'
  <2>1. SafeRequest(req'[p], txn'[p])
    BY <1>1
  <2>2. Locked(req[p], txn[p])'
    BY <2>1 DEF SafeRequest, Locked
  <2>3. \A c, ts : WritesBsos(txn'[p], c, ts) => WritesBsos(txn[p], c, ts)'
    <3>1. \A c, i, ts : Fits(txn'[p], c, i, ts) => Fits(txn[p], c, i, ts)'
      BY DEF Fits, Present
    <3>. QED
      BY <3>1, Zenon DEF WritesBsos
  <2>4. Shape(req[p], txn[p])'
    BY <2>1, <2>3, Zenon DEF SafeRequest, Shape, Staged, Untouched, RemovesCollection,
                             RemovesStorage
  <2>. QED
    BY <2>1, <2>2, <2>4, Zenon DEF SafeRequest, Untouched
<1>3. ASSUME NEW q \in Clients, q # p PROVE SafeRequest(req[q], txn[q])'
  BY <1>1, <1>3, RequestFields, OpenStaysSafe DEF SafeInv
<1>4. CollectionCoversBsos' /\ HistoryKept'
  BY DEF SafeInv, CollectionCoversBsos, HistoryKept, Present
<1>. QED
  BY <1>2, <1>3, <1>4 DEF SafeInv

(* A transaction that has written nothing. *)
LEMMA EmptyUntouched ==
  ASSUME NEW mode
  PROVE  Untouched(EmptyTxn(mode)) /\ EmptyTxn(mode).mode = mode
BY DEF Untouched, EmptyTxn

LEMMA ReadingUntouched ==
  ASSUME NEW t \in Txn, Untouched(t), NEW ks, NEW rs
  PROVE  Untouched(Reading(t, ks, rs))
BY ReadingFields DEF Untouched

(* A request that ends (Close) leaves nothing to commit. *)
LEMMA CloseSafe ==
  ASSUME SafeInv, NEW p \in Clients, Close(p)
  PROVE  SafeInv'
<1>1. TypeInv'
  BY CloseType DEF SafeInv
<1>2. SafeRequest(Idle, NoTxn)
  BY EmptyUntouched DEF SafeRequest, Locked, Shape, Idle, NoTxn
<1>3. req' = [req EXCEPT ![p] = Idle] /\ txn' = [txn EXCEPT ![p] = NoTxn]
      /\ UNCHANGED <<now, uc, bso, high>>
  BY DEF Close, Discard
<1>. QED
  BY <1>1, <1>2, <1>3, LocalStepSafe

LEMMA StartSafe ==
  ASSUME SafeInv, NEW p \in Clients, Start(p)
  PROVE  SafeInv'
<1>1. TypeInv'
  BY StartType DEF SafeInv
<1>2. PICK kind \in Kinds, c \in Collections, pre \in Preconds :
         \E ids \in IdsOf(kind),
            body \in IF kind \in PostKinds THEN Bodies ELSE {NoBody},
            since \in IF pre = "none" THEN {0} ELSE 0..MaxTime :
            req' = [req EXCEPT ![p] = Arriving(kind, c, ids, body, pre, since)]
  BY ZenonT(60) DEF Start
<1>3. PICK ids, body, since :
         req' = [req EXCEPT ![p] = Arriving(kind, c, ids, body, pre, since)]
  BY <1>2
<1>. DEFINE r == Arriving(kind, c, ids, body, pre, since)
<1>4. r.pc \in {"check", "lock"} /\ r.kind = kind
      /\ (r.pc = "check" => kind \in StorageKinds)
  BY IdleType DEF Arriving, Request
<1>5. req[p].pc = "idle" /\ SafeRequest(req[p], txn[p])
  BY DEF SafeInv, Start
<1>6. SafeRequest(r, txn[p])
  <2>. HIDE DEF r
  <2>. QED
    BY <1>4, <1>5
    DEF SafeRequest, Locked, Shape, WriteKinds, PostKinds, StorageKinds
<1>7. req' = [req EXCEPT ![p] = r] /\ txn' = [txn EXCEPT ![p] = txn[p]]
      /\ UNCHANGED <<now, uc, bso, high>>
  BY <1>3 DEF Start, SafeInv, TypeInv, TypeOK, StoreTypeOK
<1>. HIDE DEF r
<1>. QED
  BY <1>1, <1>6, <1>7, LocalStepSafe

(* The lock a writer takes holds from its first read (lock_for_write_async). *)
LEMMA LockSafe ==
  ASSUME SafeInv, NEW p \in Clients,
         \/ LockForRead(p) \/ LockForWrite(p) \/ LockForWriteNew(p)
         \/ LockConflict(p) \/ ReadClock(p)
  PROVE  SafeInv'
<1>1. TypeInv'
  BY BeginType DEF SafeInv, Begin
<1>2. /\ TypeInv /\ txn[p] \in Txn /\ req[p] \in Request
      /\ SafeRequest(req[p], txn[p])
      /\ now \in 1..MaxTime /\ req[p].coll \in Collections
      /\ req[p].coll \in CollKeys
      /\ uc[req[p].coll] \in Absent..MaxTime
      /\ high[req[p].coll] \in Absent..MaxTime
  BY RequestFields DEF SafeInv, TypeInv, TypeOK
<1>3. NeverForgets =>
         IF uc[req[p].coll] > PRETOUCH THEN high[req[p].coll] = uc[req[p].coll]
         ELSE high[req[p].coll] < now
  BY <1>2 DEF SafeInv, HistoryKept
<1>4. CASE LockForRead(p)
  <2>. DEFINE r == [req[p] EXCEPT !.pc = "check"]
  <2>1. BeginRead.mode = "ro"
    BY DEF BeginRead, EmptyTxn
  <2>2. r.pc = "check" /\ r.kind = req[p].kind /\ req[p].pc # "idle"
    BY <1>2, <1>4 DEF Request, LockForRead, In
  <2>3. req' = [req EXCEPT ![p] = r] /\ txn' = [txn EXCEPT ![p] = BeginRead]
        /\ UNCHANGED <<now, uc, bso, high>>
    BY <1>4 DEF LockForRead, Goto, SetTxn
  <2>. HIDE DEF r
  <2>4. SafeRequest(r, BeginRead)
    BY <1>2, <2>1, <2>2 DEF SafeRequest, Locked, Shape
  <2>. QED
    BY <1>1, <2>3, <2>4, LocalStepSafe
<1>. DEFINE c == req[p].coll
            t == Reading(BeginWrite, {c}, {})
<1>5. t.mode = "rw" /\ c \in t.reads /\ Untouched(t)
  BY NoTxnType, EmptyUntouched, ReadingFields, ReadingUntouched DEF BeginWrite
<1>6. CASE LockForWrite(p)
  <2>. DEFINE r == [req[p] EXCEPT !.pc = "check", !.ts = now, !.cached = uc[c]]
  <2>1. /\ r.pc = "check" /\ r.kind = req[p].kind /\ req[p].pc # "idle"
        /\ r.coll = c /\ r.ts = now /\ uc[c] > PRETOUCH /\ uc[c] < now
    BY <1>2, <1>6 DEF Request, LockForWrite, In
  <2>2. req' = [req EXCEPT ![p] = r] /\ txn' = [txn EXCEPT ![p] = t]
        /\ UNCHANGED <<now, uc, bso, high>>
    BY <1>6 DEF LockForWrite, SetTxn
  <2>. HIDE DEF r, t
  <2>3. SafeRequest(r, t)
    BY <1>2, <1>3, <1>5, <2>1 DEF SafeRequest, Locked, Shape
  <2>. QED
    BY <1>1, <2>2, <2>3, LocalStepSafe
<1>7. CASE LockForWriteNew(p)
  <2>. DEFINE r == [req[p] EXCEPT !.pc = "timestamp"]
  <2>1. /\ r.pc = "timestamp" /\ r.kind = req[p].kind /\ req[p].pc # "idle"
        /\ r.coll = c /\ uc[c] <= PRETOUCH
    BY <1>2, <1>7 DEF Request, LockForWriteNew, In
  <2>2. req' = [req EXCEPT ![p] = r] /\ txn' = [txn EXCEPT ![p] = t]
        /\ UNCHANGED <<now, uc, bso, high>>
    BY <1>7 DEF LockForWriteNew, Goto, SetTxn
  <2>. HIDE DEF r, t
  <2>3. SafeRequest(r, t)
    BY <1>2, <1>5, <2>1 DEF SafeRequest, Locked, Shape
  <2>. QED
    BY <1>1, <2>2, <2>3, LocalStepSafe
<1>8. CASE LockConflict(p)
  BY <1>8, CloseSafe DEF LockConflict
<1>9. CASE ReadClock(p)
  <2>. DEFINE r == [req[p] EXCEPT !.pc = "check", !.ts = now]
  <2>1. /\ r.pc = "check" /\ r.kind = req[p].kind /\ req[p].pc = "timestamp"
        /\ r.coll = c /\ r.ts = now
    BY <1>2, <1>9 DEF Request, ReadClock
  <2>2. req' = [req EXCEPT ![p] = r] /\ txn' = [txn EXCEPT ![p] = txn[p]]
        /\ UNCHANGED <<now, uc, bso, high>>
    BY <1>2, <1>9 DEF ReadClock, TypeInv, TypeOK, StoreTypeOK
  <2>. HIDE DEF r
  <2>3. SafeRequest(r, txn[p])
    BY <1>2, <1>3, <2>1 DEF SafeRequest, Locked, Shape
  <2>. QED
    BY <1>1, <2>2, <2>3, LocalStepSafe
<1>. QED
  BY <1>4, <1>6, <1>7, <1>8, <1>9

(* The precondition's query reads and changes nothing (transaction_http). *)
LEMMA CheckSafe ==
  ASSUME SafeInv, NEW p \in Clients, CheckPrecondition(p)
  PROVE  SafeInv'
<1>1. TypeInv'
  BY BeginType DEF SafeInv, Begin
<1>2. TypeInv /\ txn[p] \in Txn /\ req[p] \in Request
      /\ SafeRequest(req[p], txn[p])
  BY RequestFields DEF SafeInv
<1>. DEFINE t == AfterResourceQuery(p)
            rts == ResourceTimestamp(p, t)
            status == PreconditionStatus(req[p], rts)
            r == Checked(req[p], rts, status)
<1>3. /\ r.pc \in {"handle", "commit"} /\ r.kind = req[p].kind
      /\ r.coll = req[p].coll /\ r.ts = req[p].ts
  BY <1>2 DEF Checked, Request
<1>4. CASE req[p].kind \in StorageKinds
  <2>1. Untouched(t)
    BY <1>4, NoTxnType, EmptyUntouched, ReadingUntouched
    DEF AfterResourceQuery, BeginWrite
  <2>. QED
    <3>1. SafeRequest(r, t)
      <4>. HIDE DEF t, r
      <4>. QED
        BY <1>2, <1>3, <1>4, <2>1, CheckPrecondition(p)
        DEF SafeRequest, Locked, Shape, CheckPrecondition, WriteKinds, PostKinds,
            StorageKinds
    <3>2. req' = [req EXCEPT ![p] = r] /\ txn' = [txn EXCEPT ![p] = t]
          /\ UNCHANGED <<now, uc, bso, high>>
      BY DEF CheckPrecondition, SetTxn
    <3>. HIDE DEF r, t
    <3>. QED
      BY <1>1, <3>1, <3>2, LocalStepSafe
<1>5. CASE req[p].kind \notin StorageKinds
  <2>1. /\ t.mode = txn[p].mode /\ txn[p].reads \subseteq t.reads
        /\ Untouched(txn[p]) => Untouched(t)
    BY <1>2, <1>5, ReadingFields, ReadingUntouched DEF AfterResourceQuery
  <2>2. req[p].pc = "check"
    BY DEF CheckPrecondition
  <2>3. SafeRequest(r, t)
    <3>. HIDE DEF t, r
    <3>. QED
      BY <1>2, <1>3, <2>1, <2>2 DEF SafeRequest, Locked, Shape
  <2>4. req' = [req EXCEPT ![p] = r] /\ txn' = [txn EXCEPT ![p] = t]
        /\ UNCHANGED <<now, uc, bso, high>>
    BY DEF CheckPrecondition, SetTxn
  <2>. HIDE DEF r, t
  <2>. QED
    BY <1>1, <2>3, <2>4, LocalStepSafe
<1>. QED
  BY <1>4, <1>5

(* A handler's answer keeps the invariant when what its transaction will     *)
(* write has one of the forms of Shape.                                      *)
LEMMA RespondSafe ==
  ASSUME SafeInv, TypeInv', NEW p \in Clients, NEW t, NEW status, NEW lm,
         req[p].pc \in {"handle", "finish"},
         req[p].pc = "finish" => req[p].kind \notin WriteKinds,
         SetTxn(p, t), Respond(p, status, lm),
         req[p].kind \in WriteKinds =>
            t.mode = txn[p].mode /\ txn[p].reads \subseteq t.reads,
         t.mode = "rw" => Untouched(t) \/ Staged(req[p], t, status)
  PROVE  SafeInv'
<1>. DEFINE r == [req[p] EXCEPT !.pc = "commit", !.status = status, !.lm = lm]
<1>1. /\ r.pc = "commit" /\ r.kind = req[p].kind /\ r.coll = req[p].coll
      /\ r.ts = req[p].ts /\ r.status = status
  BY RequestFields DEF SafeInv, Request
<1>2. SafeRequest(req[p], txn[p])
  BY DEF SafeInv
<1>3. req' = [req EXCEPT ![p] = r] /\ txn' = [txn EXCEPT ![p] = t]
      /\ UNCHANGED <<now, uc, bso, high>>
  BY DEF Respond, SetTxn
<1>. HIDE DEF r
<1>4. SafeRequest(r, t)
  BY <1>1, <1>2 DEF SafeRequest, Locked, Shape, Staged
<1>. QED
  BY <1>3, <1>4, LocalStepSafe

LEMMA UntouchedFields ==
  ASSUME NEW t, Untouched(t)
  PROVE  /\ t.wc \in [CollKeys -> {NotSet}]
         /\ \A k \in CollKeys : t.wc[k] = NotSet
         /\ \A c \in Collections, i \in Ids :
               t.wb[c][i] = NotStaged /\ t.mut[c][i] = NoMutation
BY DEF Untouched, NothingWritten, NothingStaged, NothingBuffered

LEMMA PostBsosSafe ==
  ASSUME SafeInv, NEW p \in Clients, PostBsos(p)
  PROVE  SafeInv'
<1>. DEFINE c == req[p].coll
            ids == req[p].ids
            ts == req[p].ts
            body == req[p].body
            u == Touched(txn[p], c, ts)
            v == Reading(u, {}, {c} \X ids)
            t == Buffering(v, c, ids, body, ts)
<1>1. TypeInv'
  BY HandleWriteType DEF SafeInv
<1>2. /\ txn[p] \in Txn /\ SafeRequest(req[p], txn[p])
      /\ req[p].pc = "handle" /\ req[p].kind \in WriteKinds
      /\ c \in Collections /\ c \in CollKeys /\ ids \in SUBSET Ids
      /\ ts \in 1..MaxTime /\ ts \in 0..MaxTime /\ body \in Bodies \cup {NoBody}
  <2>1. req[p].pc = "handle" /\ req[p].kind \in WriteKinds
    BY DEF PostBsos, In, WriteKinds
  <2>2. ts \in 1..MaxTime
    BY <2>1, RequestFields DEF SafeInv, WellFormedRequest
  <2>. QED
    BY <2>1, <2>2, RequestFields DEF SafeInv, Request
<1>3. /\ u \in Txn /\ u.mode = txn[p].mode /\ u.reads = txn[p].reads \cup {c}
      /\ u.rows = txn[p].rows /\ u.wc = [txn[p].wc EXCEPT ![c] = ts]
      /\ u.wb = txn[p].wb /\ u.mut = txn[p].mut
  BY <1>2, TouchedType
<1>. HIDE DEF u
<1>4. /\ v \in Txn /\ v.mode = u.mode /\ v.reads = u.reads
      /\ v.rows = u.rows \cup ({c} \X ids)
      /\ v.wc = u.wc /\ v.wb = u.wb /\ v.mut = u.mut
  <2>1. {} \in SUBSET CollKeys /\ {c} \X ids \in SUBSET (Collections \X Ids)
    BY <1>2
  <2>. QED
    BY <1>3, <2>1, ReadingType, ReadingFields
<1>. HIDE DEF v
<1>5. SetTxn(p, t) /\ Respond(p, 200, ts)
  BY DEF PostBsos, u, v
<1>6. /\ t.mode = v.mode /\ t.reads = v.reads /\ t.rows = v.rows
      /\ t.wc = v.wc /\ t.wb = v.wb
      /\ \A d \in Collections, i \in Ids :
            t.mut[d][i] = IF d # c \/ i \notin ids THEN v.mut[d][i]
                          ELSE IF Present(BsoView(v, c, i))
                               THEN UpdateRow(body, ts) ELSE InsertRow(body, ts)
  <2>. HIDE DEF c, ids, ts, body
  <2>. QED
    BY <1>2, <1>4, BodiesAreColumns, BufferingType
<1>. HIDE DEF t
<1>7. ASSUME t.mode = "rw" PROVE WritesBsos(t, c, ts)
  <2>1. Untouched(txn[p])
    BY <1>2, <1>3, <1>4, <1>6, <1>7 DEF SafeRequest
  <2>2. /\ txn[p].wc \in [CollKeys -> {NotSet}]
        /\ \A d \in Collections, i \in Ids :
              txn[p].wb[d][i] = NotStaged /\ txn[p].mut[d][i] = NoMutation
    BY <2>1, UntouchedFields
  <2>. HIDE DEF c, ids, ts, body
  <2>3. \A k \in CollKeys : t.wc[k] = IF k = c THEN ts ELSE NotSet
    BY <1>3, <1>4, <1>6, <2>2
  <2>4. ASSUME NEW i \in Ids PROVE Fits(t, c, i, ts)
    <3>1. t.wb[c][i] = NotStaged /\ BsoView(v, c, i) = bso[c][i]
      BY <1>2, <1>3, <1>4, <1>6, <2>2 DEF BsoView, NotStaged
    <3>2. i \in ids => <<c, i>> \in t.rows
      BY <1>4, <1>6
    <3>. QED
      BY <1>2, <1>3, <1>4, <1>6, <2>2, <3>1, <3>2
      DEF Fits, UpdateRow, InsertRow
  <2>5. \A d \in Collections, i \in Ids :
           d # c => t.wb[d][i] = NotStaged /\ t.mut[d][i] = NoMutation
    BY <1>3, <1>4, <1>6, <2>2
  <2>6. \A i \in Ids : t.wb[c][i] \in {NotStaged, NoRow}
    BY <1>2, <1>3, <1>4, <1>6, <2>2
  <2>. QED
    BY <2>3, <2>4, <2>5, <2>6 DEF WritesBsos
<1>. QED
  BY <1>1, <1>2, <1>3, <1>4, <1>5, <1>6, <1>7, RespondSafe DEF Staged

(* Deleted rows of one touched collection are a write of its BSOs.           *)
LEMMA DeletedRowsShape ==
  ASSUME NEW t, NEW c, NEW ts,
         \A k \in CollKeys : t.wc[k] = IF k = c THEN ts ELSE NotSet,
         \A d \in Collections, i \in Ids :
            /\ t.wb[d][i] = NotStaged \/ (d = c /\ t.wb[d][i] = NoRow)
            /\ t.mut[d][i] = NoMutation
  PROVE  WritesBsos(t, c, ts)
BY DEF WritesBsos, Fits

LEMMA DeleteBsosSafe ==
  ASSUME SafeInv, NEW p \in Clients, DeleteBso(p) \/ DeleteBsos(p)
  PROVE  SafeInv'
<1>. DEFINE c == req[p].coll
            ids == req[p].ids
            ts == req[p].ts
<1>1. TypeInv'
  BY HandleWriteType DEF SafeInv
<1>2. /\ txn[p] \in Txn /\ SafeRequest(req[p], txn[p])
      /\ req[p].pc = "handle" /\ req[p].kind \in WriteKinds
      /\ c \in Collections /\ ids \in SUBSET Ids /\ ts \in 0..MaxTime
  BY RequestFields
  DEF SafeInv, Request, DeleteBso, DeleteBsos, In, WriteKinds
<1>3. txn[p].mode = "rw" => Untouched(txn[p])
  BY <1>2 DEF SafeRequest
<1>4. CASE DeleteBso(p)
  <2>. DEFINE u == Touched(txn[p], c, ts)
              t == DeletedRows(u, c, ids)
  <2>1. /\ u \in Txn /\ u.mode = txn[p].mode /\ u.reads = txn[p].reads \cup {c}
        /\ u.wc = [txn[p].wc EXCEPT ![c] = ts]
        /\ u.wb = txn[p].wb /\ u.mut = txn[p].mut
    BY <1>2, TouchedType
  <2>2. (SetTxn(p, t) /\ Respond(p, 200, req[p].rts)) \/ Close(p)
    BY <1>4 DEF DeleteBso
  <2>. HIDE DEF u
  <2>3. /\ t.mode = u.mode /\ t.reads = u.reads /\ t.wc = u.wc /\ t.mut = u.mut
        /\ \A d \in Collections, i \in Ids :
              t.wb[d][i] = IF d = c /\ i \in ids THEN NoRow ELSE u.wb[d][i]
    BY <1>2, <2>1, DeletedRowsType, SMTT(30)
  <2>. HIDE DEF t
  <2>4. ASSUME t.mode = "rw" PROVE WritesBsos(t, c, ts)
    <3>1. /\ t.wc = [txn[p].wc EXCEPT ![c] = ts] /\ t.mut = txn[p].mut
          /\ \A d \in Collections, i \in Ids :
                t.wb[d][i] = IF d = c /\ i \in ids THEN NoRow ELSE txn[p].wb[d][i]
      BY <2>1, <2>3
    <3>2. c \in Collections /\ ids \in SUBSET Ids /\ Untouched(txn[p])
      BY <1>2, <1>3, <2>1, <2>3, <2>4
    <3>3. \A k \in CollKeys : t.wc[k] = IF k = c THEN ts ELSE NotSet
      BY <3>1, <3>2, UntouchedFields
    <3>4. \A d \in Collections, i \in Ids :
             /\ t.wb[d][i] = NotStaged \/ (d = c /\ t.wb[d][i] = NoRow)
             /\ t.mut[d][i] = NoMutation
      BY <3>1, <3>2, UntouchedFields
    <3>. HIDE DEF c, ts
    <3>. QED
      BY <3>3, <3>4, DeletedRowsShape
  <2>. QED
    BY <1>1, <1>2, <2>1, <2>2, <2>3, <2>4, RespondSafe, CloseSafe DEF Staged
<1>5. CASE DeleteBsos(p)
  <2>. DEFINE u == DeletedRows(txn[p], c, ids)
              t == Touched(u, c, ts)
  <2>1. /\ u \in Txn /\ u.mode = txn[p].mode /\ u.reads = txn[p].reads
        /\ u.wc = txn[p].wc /\ u.mut = txn[p].mut
        /\ \A d \in Collections, i \in Ids :
              u.wb[d][i] = IF d = c /\ i \in ids THEN NoRow ELSE txn[p].wb[d][i]
    BY <1>2, DeletedRowsType
  <2>2. SetTxn(p, t) /\ Respond(p, 200, ts)
    BY <1>5 DEF DeleteBsos
  <2>. HIDE DEF u
  <2>3. /\ t.mode = u.mode /\ t.reads = u.reads \cup {c}
        /\ t.wc = [u.wc EXCEPT ![c] = ts] /\ t.wb = u.wb /\ t.mut = u.mut
    BY <1>2, <2>1, TouchedType
  <2>. HIDE DEF t
  <2>4. ASSUME t.mode = "rw" PROVE WritesBsos(t, c, ts)
    <3>1. /\ t.wc = [txn[p].wc EXCEPT ![c] = ts] /\ t.mut = txn[p].mut
          /\ \A d \in Collections, i \in Ids :
                t.wb[d][i] = IF d = c /\ i \in ids THEN NoRow ELSE txn[p].wb[d][i]
      BY <2>1, <2>3
    <3>2. c \in Collections /\ ids \in SUBSET Ids /\ Untouched(txn[p])
      BY <1>2, <1>3, <2>1, <2>3, <2>4
    <3>3. \A k \in CollKeys : t.wc[k] = IF k = c THEN ts ELSE NotSet
      BY <3>1, <3>2, UntouchedFields
    <3>4. \A d \in Collections, i \in Ids :
             /\ t.wb[d][i] = NotStaged \/ (d = c /\ t.wb[d][i] = NoRow)
             /\ t.mut[d][i] = NoMutation
      BY <3>1, <3>2, UntouchedFields
    <3>. HIDE DEF c, ts
    <3>. QED
      BY <3>3, <3>4, DeletedRowsShape
  <2>. QED
    BY <1>1, <1>2, <2>1, <2>2, <2>3, <2>4, RespondSafe DEF Staged
<1>. QED
  BY <1>4, <1>5

(* DELETE of a collection or of the storage (delete_collection, delete_all). *)
LEMMA HandleDeleteSafe ==
  ASSUME SafeInv, NEW p \in Clients, DeleteCollection(p) \/ DeleteAll(p)
  PROVE  SafeInv'
<1>. DEFINE c == req[p].coll
            ts == req[p].ts
<1>1. TypeInv'
  BY HandleDeleteType DEF SafeInv
<1>2. /\ txn[p] \in Txn /\ SafeRequest(req[p], txn[p])
      /\ c \in Collections /\ ts \in 0..MaxTime /\ req[p].pc = "handle"
  BY RequestFields DEF SafeInv, Request, DeleteCollection, DeleteAll, In
<1>3. CASE DeleteCollection(p)
  <2>. DEFINE u == Reading(txn[p], {c, Tombstone}, {})
              v == DeletedCollection(u, c, ts)
              w == Reading(u, CollKeys, {})
  <2>1. req[p].kind \in WriteKinds /\ req[p].pc # "finish"
    BY <1>2, <1>3 DEF DeleteCollection, In, WriteKinds
  <2>2. (SetTxn(p, v) \/ SetTxn(p, w)) /\ Respond(p, 200, req[p].rts)
    BY <1>3 DEF DeleteCollection
  <2>3. /\ u \in Txn /\ u.mode = txn[p].mode /\ txn[p].reads \subseteq u.reads
        /\ u.wc = txn[p].wc /\ u.wb = txn[p].wb /\ u.mut = txn[p].mut
    <3>1. {c, Tombstone} \in SUBSET CollKeys /\ {} \in SUBSET (Collections \X Ids)
      BY <1>2 DEF CollKeys
    <3>. QED
      BY <1>2, <3>1, ReadingType, ReadingFields
  <2>4. txn[p].mode = "rw" => Untouched(u)
    BY <1>2, <2>3 DEF SafeRequest, Untouched
  <2>. HIDE DEF u
  <2>5. /\ w.mode = u.mode /\ u.reads \subseteq w.reads
        /\ Untouched(u) => Untouched(w)
    BY <2>3, ReadingFields, ReadingUntouched
  <2>6. /\ v.mode = u.mode /\ v.reads = u.reads
        /\ v.wc = [u.wc EXCEPT ![c] = Absent, ![Tombstone] = ts]
        /\ v.mut = u.mut
        /\ \A d \in Collections, i \in Ids :
              v.wb[d][i] = IF d = c THEN NoRow ELSE u.wb[d][i]
    BY <1>2, <2>3, DeletedCollectionType, SMTT(30)
  <2>. HIDE DEF v, w
  <2>7. ASSUME Untouched(u) PROVE RemovesCollection(v, c, ts)
    <3>1. \A k \in CollKeys : v.wc[k] = IF k = c THEN Absent
                                        ELSE IF k = Tombstone THEN ts ELSE NotSet
      BY <1>2, <2>6, <2>7, UntouchedFields, CollectionsAssumption DEF CollKeys
    <3>2. \A d \in Collections, i \in Ids :
             v.wb[d][i] = IF d = c THEN NoRow ELSE NotStaged
      BY <2>6, <2>7, UntouchedFields
    <3>. QED
      BY <2>6, <2>7, <3>1, <3>2 DEF RemovesCollection, Untouched
  <2>8. CASE SetTxn(p, v)
    BY <1>1, <1>2, <2>1, <2>2, <2>3, <2>4, <2>6, <2>7, <2>8, RespondSafe DEF Staged
  <2>9. CASE SetTxn(p, w)
    BY <1>1, <1>2, <2>1, <2>2, <2>3, <2>4, <2>5, <2>9, RespondSafe DEF Staged
  <2>. QED
    BY <2>2, <2>8, <2>9
<1>4. CASE DeleteAll(p)
  <2>1. /\ SetTxn(p, DeletedStorage) /\ Respond(p, 200, req[p].rts)
        /\ req[p].kind = "delete_all" /\ req[p].kind \notin WriteKinds
    BY <1>4 DEF DeleteAll, In, WriteKinds, PostKinds
  <2>2. RemovesStorage(DeletedStorage)
    BY DeletedStorageType DEF RemovesStorage
  <2>. QED
    BY <1>1, <1>2, <2>1, <2>2, RespondSafe DEF Staged
<1>. QED
  BY <1>3, <1>4

(* A read stages nothing. *)
LEMMA HandleReadSafe ==
  ASSUME SafeInv, NEW p \in Clients,
         GetBso(p) \/ GetBsos(p) \/ FinishGetCollection(p) \/ GetInfo(p)
  PROVE  SafeInv'
<1>1. TypeInv'
  BY HandleReadType DEF SafeInv
<1>2. /\ txn[p] \in Txn /\ req[p] \in Request /\ SafeRequest(req[p], txn[p])
      /\ req[p].pc \in {"handle", "finish"} /\ req[p].kind \notin WriteKinds
  <2>1. req[p].pc \in {"handle", "finish"} /\ req[p].kind \notin WriteKinds
    BY DEF GetBso, GetBsos, FinishGetCollection, GetInfo, In, WriteKinds, PostKinds
  <2>. QED
    BY <2>1, RequestFields DEF SafeInv
<1>3. txn[p].mode = "rw" => Untouched(txn[p])
  BY <1>2 DEF SafeRequest
<1>4. ASSUME NEW r, r.kind = req[p].kind, r.pc \in {"commit", "finish"},
             req' = [req EXCEPT ![p] = r], UNCHANGED <<now, uc, bso, txn, high>>
      PROVE  SafeInv'
  <2>1. SafeRequest(r, txn[p])
    BY <1>2, <1>3, <1>4 DEF SafeRequest, Locked, Shape
  <2>2. txn' = [txn EXCEPT ![p] = txn[p]]
    BY <1>4 DEF SafeInv, TypeInv, TypeOK, StoreTypeOK
  <2>. QED
    BY <1>1, <1>4, <2>1, <2>2, LocalStepSafe
<1>5. CASE GetBso(p)
  <2>. DEFINE items == Found(txn[p], req[p].coll, req[p].ids)
              status == IF items = NothingRead THEN 404 ELSE 200
              r == [req[p] EXCEPT !.pc = "commit", !.lm = req[p].rts,
                      !.status = status, !.items = items]
  <2>1. r.pc = "commit" /\ r.kind = req[p].kind
    BY <1>2 DEF Request
  <2>2. req' = [req EXCEPT ![p] = r] /\ UNCHANGED <<now, uc, bso, txn, high>>
    BY <1>5 DEF GetBso
  <2>. HIDE DEF r
  <2>. QED
    BY <1>4, <2>1, <2>2
<1>6. CASE GetBsos(p)
  <2>. DEFINE r == [req[p] EXCEPT !.pc = "finish",
                      !.items = Found(txn[p], req[p].coll, Ids)]
  <2>1. r.pc = "finish" /\ r.kind = req[p].kind
    BY <1>2 DEF Request
  <2>2. req' = [req EXCEPT ![p] = r] /\ UNCHANGED <<now, uc, bso, txn, high>>
    BY <1>6 DEF GetBsos
  <2>. HIDE DEF r
  <2>. QED
    BY <1>4, <2>1, <2>2
<1>7. CASE FinishGetCollection(p)
  <2>1. SetTxn(p, txn[p]) /\ Respond(p, 200, CollTimestamp(txn[p], req[p].coll))
    BY <1>7 DEF FinishGetCollection, SetTxn, SafeInv, TypeInv, TypeOK, StoreTypeOK
  <2>. QED
    BY <1>1, <1>2, <1>3, <2>1, RespondSafe
<1>8. CASE GetInfo(p)
  <2>1. SetTxn(p, Reading(txn[p], CollKeys, {})) /\ Respond(p, 200, req[p].rts)
    BY <1>8 DEF GetInfo
  <2>2. /\ Reading(txn[p], CollKeys, {}).mode = txn[p].mode
        /\ Untouched(txn[p]) => Untouched(Reading(txn[p], CollKeys, {}))
    BY <1>2, ReadingFields, ReadingUntouched
  <2>. QED
    BY <1>1, <1>2, <1>3, <2>1, <2>2, RespondSafe
<1>. QED
  BY <1>5, <1>6, <1>7, <1>8

-----------------------------------------------------------------------------
(* A request that commits holds its lock, and its mutations still apply.     *)
LEMMA CommitReady ==
  ASSUME SafeInv, NEW p \in Clients, req[p].pc = "commit", txn[p].mode = "rw"
  PROVE  /\ MutationsApply(txn[p])
         /\ Shape(req[p], txn[p])
         /\ req[p].kind \in Kinds
         /\ req[p].kind \in WriteKinds =>
               /\ req[p].ts \in 1..MaxTime
               /\ uc[req[p].coll] < req[p].ts /\ req[p].ts <= now
               /\ NeverForgets => high[req[p].coll] < req[p].ts
<1>. DEFINE r == req[p]
            t == txn[p]
<1>1. SafeRequest(r, t) /\ r.coll \in Collections /\ WellFormedRequest(r)
  BY RequestFields DEF SafeInv
<1>2. r.kind \in WriteKinds => r.ts \in 1..MaxTime
  BY <1>1 DEF WellFormedRequest
<1>3. MutationsApply(t)
  <2>1. CASE t.mut = NothingBuffered
    BY <2>1 DEF MutationsApply, NothingBuffered, NoMutation
  <2>2. CASE r.kind \in WriteKinds /\ WritesBsos(t, r.coll, r.ts)
    <3>. SUFFICES ASSUME NEW c \in Collections, NEW i \in Ids
         PROVE /\ t.mut[c][i].op = "insert" => /\ ~Present(BsoView(t, c, i))
                                               /\ CollView(t, c) # Absent
               /\ t.mut[c][i].op = "update" => Present(BsoView(t, c, i))
      BY DEF MutationsApply
    <3>1. CASE c # r.coll
      BY <2>2, <3>1 DEF WritesBsos, NoMutation
    <3>2. CASE c = r.coll
      <4>1. CollView(t, c) = r.ts /\ r.ts # Absent
        BY <1>2, <2>2, <3>2, MaxTimeAssumption DEF WritesBsos, CollView, CollKeys
      <4>2. Fits(t, c, i, r.ts)
        BY <2>2, <3>2 DEF WritesBsos
      <4>. HIDE DEF r, t
      <4>. QED
        BY <4>1, <4>2 DEF Fits, BsoView, NotStaged, NoMutation
    <3>. QED
      BY <3>1, <3>2
  <2>. QED
    BY <1>1, <2>1, <2>2
    DEF SafeRequest, Shape, Staged, Untouched, RemovesCollection, RemovesStorage
<1>. QED
  BY <1>1, <1>2, <1>3 DEF SafeRequest, Locked

(* No reader of what a commit overwrites survives it. *)
LEMMA CommitKeeps ==
  ASSUME SafeInv, NEW p \in Clients, Commit(p),
         NEW q \in Clients, q # p, txn'[q].mode = "rw"
  PROVE  /\ txn'[q] = txn[q]
         /\ \A k \in txn[q].reads : uc'[k] = uc[k]
         /\ \A c \in Collections, i \in Ids :
               <<c, i>> \in txn[q].rows => bso'[c][i] = bso[c][i]
<1>. DEFINE t == txn[p]
<1>1. txn[q].reads \in SUBSET CollKeys
  BY RequestFields DEF SafeInv, Txn
<1>2. /\ txn'[q] = txn[q]
      /\ ~Overwritten(txn[q], CollsWritten(t), RowsWritten(t))
  BY DEF Commit, DeadTxn, EmptyTxn
<1>3. /\ txn[q].reads \cap CollsWritten(t) = {}
      /\ txn[q].rows \cap RowsWritten(t) = {}
  BY <1>2 DEF Overwritten
<1>4. ASSUME NEW k \in txn[q].reads PROVE uc'[k] = uc[k]
  <2>1. k \in CollKeys /\ t.wc[k] = NotSet
    BY <1>1, <1>3 DEF CollsWritten
  <2>. QED
    BY <2>1 DEF Commit, CollAfter, CollView
<1>5. ASSUME NEW c \in Collections, NEW i \in Ids, <<c, i>> \in txn[q].rows
      PROVE  bso'[c][i] = bso[c][i]
  <2>1. t.wb[c][i].mod = NotSet /\ t.mut[c][i].op = "none"
    BY <1>3, <1>5 DEF RowsWritten
  <2>2. bso'[c][i] = RowAfter(t, c, i)
    BY DEF Commit
  <2>. QED
    BY <2>1, <2>2 DEF RowAfter, Mutated, BsoView
<1>. QED
  BY <1>2, <1>4, <1>5

(* What a commit can do to a collection: nothing; write it at the request's  *)
(* timestamp; remove it.                                                     *)
Kept(c) == uc'[c] = uc[c] /\ \A i \in Ids : bso'[c][i] = bso[c][i]

WrittenAt(c, ts) ==
    /\ uc'[c] = ts
    /\ \A i \in Ids : bso'[c][i].mod \in {bso[c][i].mod, ts, Absent}

Removed(c) == uc'[c] = Absent /\ \A i \in Ids : bso'[c][i] = NoRow

LEMMA CommitUntouched ==
  ASSUME TypeOK, NEW p \in Clients, Commit(p), Untouched(txn[p])
  PROVE  uc' = uc /\ bso' = bso
<1>1. \A k \in CollKeys : CollView(txn[p], k) = uc[k]
  BY UntouchedFields, SMTT(30) DEF CollView
<1>2. \A c \in Collections, i \in Ids : RowAfter(txn[p], c, i) = bso[c][i]
  <2>. SUFFICES ASSUME NEW c \in Collections, NEW i \in Ids
                PROVE  RowAfter(txn[p], c, i) = bso[c][i]
    OBVIOUS
  <2>1. txn[p].wb[c][i].mod = NotSet /\ txn[p].mut[c][i].op = "none"
    BY UntouchedFields DEF NotStaged, NoMutation
  <2>. QED
    BY <2>1, Zenon DEF RowAfter, Mutated, BsoView
<1>3. uc' = [k \in CollKeys |-> CollView(txn[p], k)]
      /\ bso' = [c \in Collections |-> [i \in Ids |-> RowAfter(txn[p], c, i)]]
  BY DEF Commit, CollAfter
<1>4. uc' = uc
  BY <1>1, <1>3 DEF TypeOK, StoreTypeOK
<1>5. \A c \in Collections :
         bso[c] = [i \in Ids |-> bso[c][i]] /\ bso = [d \in Collections |-> bso[d]]
  BY DEF TypeOK, StoreTypeOK
<1>6. bso' = bso
  <2>1. \A c \in Collections :
           [i \in Ids |-> RowAfter(txn[p], c, i)] = [i \in Ids |-> bso[c][i]]
    BY <1>2
  <2>2. \A c \in Collections : bso'[c] = bso[c]
    BY <1>3, <1>5, <2>1
  <2>. QED
    BY <1>3, <2>2, CollectionsAssumption DEF TypeOK, StoreTypeOK
<1>. QED
  BY <1>4, <1>6

LEMMA MutatedFields ==
  ASSUME NEW m, NEW row
  PROVE  /\ m.op = "none" => Mutated(m, row) = row
         /\ m.op = "insert" => Mutated(m, row).mod = m.mod
         /\ m.op = "update" =>
               Mutated(m, row).mod = IF m.mod = NotSet THEN row.mod ELSE m.mod
BY DEF Mutated

(* What a transaction leaves of a row, by what it staged for it. *)
LEMMA StagedRow ==
  ASSUME NEW t, NEW c \in Collections, NEW i \in Ids
  PROVE  /\ t.wb[c][i] = NotStaged => BsoView(t, c, i) = bso[c][i]
         /\ t.wb[c][i] = NoRow => BsoView(t, c, i) = NoRow
BY DEF BsoView, NotStaged, NoRow

LEMMA CommitEffect ==
  ASSUME SafeInv, NEW p \in Clients, Commit(p),
         req[p].pc = "commit", txn[p].mode = "rw",
         NEW c \in Collections
  PROVE  \/ Kept(c)
         \/ /\ req[p].status = 200 /\ req[p].kind \in WriteKinds
            /\ c = req[p].coll
            /\ WrittenAt(c, req[p].ts) \/ Removed(c)
         \/ req[p].status = 200 /\ ~NeverForgets /\ Removed(c)
<1>. DEFINE r == req[p]
            t == txn[p]
<1>1. /\ uc'[c] = CollView(t, c)
      /\ \A i \in Ids : bso'[c][i] = Mutated(t.mut[c][i], BsoView(t, c, i))
  BY DEF Commit, CollAfter, RowAfter, CollKeys
<1>2. Shape(r, t) /\ r.kind \in Kinds /\ (r.kind \in WriteKinds => r.ts \in 1..MaxTime)
  BY CommitReady
<1>3. c \in CollKeys /\ c # Tombstone
  BY CollectionsAssumption DEF CollKeys
<1>4. CASE Untouched(t)
  BY <1>4, CommitUntouched DEF Kept, SafeInv, TypeInv
<1>5. CASE r.status = 200 /\ r.kind \in WriteKinds /\ WritesBsos(t, r.coll, r.ts)
  <2>1. CASE c = r.coll
    <3>1. uc'[c] = r.ts
      BY <1>1, <1>2, <1>3, <1>5, <2>1 DEF WritesBsos, CollView
    <3>2. ASSUME NEW i \in Ids
          PROVE  bso'[c][i].mod \in {bso[c][i].mod, r.ts, Absent}
      <4>1. Fits(t, c, i, r.ts) /\ t.wb[c][i] \in {NotStaged, NoRow}
        BY <1>5, <2>1 DEF WritesBsos
      <4>2. bso'[c][i] = Mutated(t.mut[c][i], BsoView(t, c, i))
        BY <1>1
      <4>3. BsoView(t, c, i) \in {bso[c][i], NoRow} /\ NoRow.mod = Absent
        BY <4>1, StagedRow DEF NoRow
      <4>. HIDE DEF r, t
      <4>4. CASE t.mut[c][i] = NoMutation
        BY <4>2, <4>3, <4>4, MutatedFields DEF NoMutation
      <4>5. CASE t.mut[c][i].op = "insert" /\ t.mut[c][i].mod = r.ts
        BY <4>2, <4>5, MutatedFields
      <4>6. CASE t.mut[c][i].op = "update" /\ t.mut[c][i].mod \in {NotSet, r.ts}
        BY <4>2, <4>3, <4>6, MutatedFields
      <4>. QED
        BY <4>1, <4>4, <4>5, <4>6 DEF Fits
    <3>. QED
      BY <1>5, <2>1, <3>1, <3>2 DEF WrittenAt
  <2>2. CASE c # r.coll
    <3>1. uc'[c] = uc[c]
      BY <1>1, <1>3, <1>5, <2>2 DEF WritesBsos, CollView
    <3>2. ASSUME NEW i \in Ids PROVE bso'[c][i] = bso[c][i]
      <4>1. t.wb[c][i] = NotStaged /\ t.mut[c][i] = NoMutation
        BY <1>5, <2>2 DEF WritesBsos
      <4>. QED
        BY <1>1, <4>1, StagedRow, MutatedFields DEF NoMutation
    <3>. QED
      BY <3>1, <3>2 DEF Kept
  <2>. QED
    BY <2>1, <2>2, SMTT(30)
<1>6. CASE r.status = 200 /\ r.kind \in WriteKinds
           /\ RemovesCollection(t, r.coll, r.ts)
  <2>1. uc'[c] = IF c = r.coll THEN Absent ELSE uc[c]
    BY <1>1, <1>3, <1>6 DEF RemovesCollection, CollView
  <2>2. ASSUME NEW i \in Ids
        PROVE  bso'[c][i] = IF c = r.coll THEN NoRow ELSE bso[c][i]
    <3>1. /\ t.wb[c][i] = IF c = r.coll THEN NoRow ELSE NotStaged
          /\ t.mut[c][i] = NoMutation
      BY <1>6 DEF RemovesCollection, NothingBuffered
    <3>. QED
      BY <1>1, <3>1, StagedRow, MutatedFields DEF NoMutation
  <2>. QED
    BY <1>6, <2>1, <2>2 DEF Removed, Kept
<1>7. CASE r.status = 200 /\ r.kind = "delete_all" /\ RemovesStorage(t)
  BY <1>1, <1>2, <1>3, <1>7
  DEF RemovesStorage, Removed, NeverForgets, CollView, BsoView, Mutated, NoRow,
      NoMutation, NothingBuffered
<1>. QED
  BY <1>2, <1>4, <1>5, <1>6, <1>7 DEF Shape, Staged

-----------------------------------------------------------------------------
(* The commit of a request (commit_async). *)
LEMMA CommitSafe ==
  ASSUME SafeInv, NEW p \in Clients, CommitWrite(p), MutationsApply(txn[p])
  PROVE  SafeInv'
<1>1. TypeInv'
  BY EndType DEF SafeInv, End
<1>2. /\ Commit(p) /\ req[p].pc = "commit" /\ txn[p].mode = "rw"
      /\ req' = [req EXCEPT ![p] = Idle] /\ now' = now
      /\ high' = [c \in Collections |->
                    IF uc'[c] > high[c] THEN uc'[c] ELSE high[c]]
  BY DEF CommitWrite, Commit
<1>3. /\ req[p].kind \in WriteKinds =>
            /\ req[p].ts \in 1..MaxTime
            /\ uc[req[p].coll] < req[p].ts /\ req[p].ts <= now
            /\ NeverForgets => high[req[p].coll] < req[p].ts
  BY <1>2, CommitReady
<1>4. SafeRequest(req[p], txn[p])'
  <2>1. req'[p] = Idle /\ txn'[p] = NoTxn
    BY <1>2 DEF Commit, SafeInv, TypeInv, TypeOK
  <2>. QED
    BY <2>1 DEF SafeRequest, Locked, Shape, Idle, NoTxn, EmptyTxn
<1>5. ASSUME NEW q \in Clients, q # p PROVE SafeRequest(req[q], txn[q])'
  <2>1. req'[q] = req[q] /\ now <= now'
    BY <1>2, <1>5, RequestFields DEF SafeInv, TypeInv, TypeOK
  <2>2. \A c \in Collections : high'[c] = high[c] \/ high'[c] = uc'[c]
    BY <1>2
  <2>. QED
    BY <1>1, <1>2, <1>5, <2>1, <2>2, CommitKeeps, OpenStaysSafe
<1>6. ASSUME NEW c \in Collections
      PROVE  /\ \A i \in Ids : Present(bso'[c][i]) =>
                   uc'[c] > PRETOUCH /\ bso'[c][i].mod <= uc'[c]
             /\ NeverForgets =>
                   IF uc'[c] > PRETOUCH THEN high'[c] = uc'[c] /\ uc'[c] <= now
                   ELSE high'[c] < now
  <2>1. /\ uc[c] \in Absent..MaxTime /\ high[c] \in Absent..MaxTime
        /\ now \in 1..MaxTime
        /\ \A i \in Ids : bso[c][i] \in Row \cup {NoRow}
    BY DEF SafeInv, TypeInv, TypeOK, StoreTypeOK, CollKeys
  <2>2. /\ \A i \in Ids : Present(bso[c][i]) =>
              uc[c] > PRETOUCH /\ bso[c][i].mod <= uc[c]
        /\ NeverForgets =>
              IF uc[c] > PRETOUCH THEN high[c] = uc[c] /\ uc[c] <= now
              ELSE high[c] < now
    BY DEF SafeInv, CollectionCoversBsos, HistoryKept
  <2>3. high'[c] = IF uc'[c] > high[c] THEN uc'[c] ELSE high[c]
    BY <1>2
  <2>4. CASE Kept(c)
    BY <2>1, <2>2, <2>3, <2>4, SMTT(30) DEF Kept, Present
  <2>5. CASE /\ req[p].kind \in WriteKinds /\ c = req[p].coll
             /\ WrittenAt(c, req[p].ts)
    <3>1. \A i \in Ids : bso[c][i].mod \in Absent..MaxTime
      BY <2>1, MaxTimeAssumption DEF Row, NoRow
    <3>2. /\ uc'[c] = req[p].ts /\ req[p].ts \in 1..MaxTime
          /\ \A i \in Ids : bso'[c][i].mod \in {bso[c][i].mod, req[p].ts, Absent}
      BY <1>3, <2>5 DEF WrittenAt
    <3>3. uc[c] < req[p].ts /\ req[p].ts <= now
          /\ (NeverForgets => high[c] < req[p].ts)
      BY <1>3, <2>5
    <3>. QED
      BY <2>1, <2>2, <2>3, <3>1, <3>2, <3>3, MaxTimeAssumption DEF Present
  <2>6. CASE /\ Removed(c)
             /\ \/ req[p].kind \in WriteKinds /\ c = req[p].coll
                \/ ~NeverForgets
    BY <1>3, <2>1, <2>3, <2>6, MaxTimeAssumption DEF Removed, Present, NoRow
  <2>. QED
    BY <1>2, <2>4, <2>5, <2>6, CommitEffect
<1>7. CollectionCoversBsos' /\ HistoryKept'
  BY <1>2, <1>6 DEF CollectionCoversBsos, HistoryKept, Present
<1>. QED
  BY <1>1, <1>4, <1>5, <1>7 DEF SafeInv

LEMMA EndSafe ==
  ASSUME SafeInv, NEW p \in Clients, End(p)
  PROVE  SafeInv'
BY CloseSafe, CommitSafe DEF End, CommitRead, CommitWrite, Aborted

(* The clock, an abort and the purge of a row. *)
LEMMA EnvironmentSafe ==
  ASSUME SafeInv, Environment
  PROVE  SafeInv'
<1>1. TypeInv' /\ req' = req /\ high' = high
  BY EnvironmentType DEF SafeInv, Environment
<1>2. \A q \in Clients : SafeRequest(req[q], txn[q])
  BY DEF SafeInv
<1>3. now \in 1..MaxTime /\ txn \in [Clients -> Txn]
      /\ \A c \in Collections : high[c] \in Absent..MaxTime
                                /\ uc[c] \in Absent..MaxTime
  BY DEF SafeInv, TypeInv, TypeOK, StoreTypeOK, CollKeys
<1>4. CASE Tick
  <2>1. now' = now + 1 /\ UNCHANGED <<uc, bso, txn>>
    BY <1>4 DEF Tick
  <2>2. ASSUME NEW q \in Clients PROVE SafeRequest(req[q], txn[q])'
    BY <1>1, <1>3, <2>1, OpenStaysSafe
  <2>3. CollectionCoversBsos' /\ HistoryKept'
    BY <1>1, <1>3, <2>1 DEF SafeInv, CollectionCoversBsos, HistoryKept, Present
  <2>. QED
    BY <1>1, <2>2, <2>3 DEF SafeInv
<1>5. ASSUME NEW p \in Clients, SpannerAbort(p) PROVE SafeInv'
  <2>1. txn' = [txn EXCEPT ![p] = DeadTxn] /\ UNCHANGED <<now, uc, bso>>
    BY <1>5 DEF SpannerAbort
  <2>2. ASSUME NEW q \in Clients PROVE SafeRequest(req[q], txn[q])'
    <3>1. txn'[q].mode = "rw" => txn'[q] = txn[q]
      BY <1>3, <2>1 DEF DeadTxn, EmptyTxn
    <3>. QED
      BY <1>1, <1>3, <2>1, <3>1, OpenStaysSafe
  <2>3. CollectionCoversBsos' /\ HistoryKept'
    BY <1>1, <2>1 DEF SafeInv, CollectionCoversBsos, HistoryKept, Present
  <2>. QED
    BY <1>1, <2>2, <2>3 DEF SafeInv
<1>6. ASSUME NEW c \in Collections, NEW i \in Ids, PurgeRow(c, i) PROVE SafeInv'
  <2>1. /\ UNCHANGED <<now, uc>> /\ bso' = [bso EXCEPT ![c][i] = NoRow]
        /\ \A q \in Clients :
              txn'[q] = IF Overwritten(txn[q], {}, {<<c, i>>}) THEN DeadTxn
                        ELSE txn[q]
    BY <1>6 DEF PurgeRow
  <2>2. \A d \in Collections, j \in Ids :
           bso'[d][j] = IF d = c /\ j = i THEN NoRow ELSE bso[d][j]
    BY <2>1 DEF SafeInv, TypeInv, TypeOK, StoreTypeOK
  <2>3. ASSUME NEW q \in Clients PROVE SafeRequest(req[q], txn[q])'
    <3>1. ASSUME txn'[q].mode = "rw"
          PROVE  txn'[q] = txn[q] /\ <<c, i>> \notin txn[q].rows
      BY <2>1, <3>1 DEF Overwritten, DeadTxn, EmptyTxn
    <3>2. \A d \in Collections, j \in Ids :
             txn'[q].mode = "rw" /\ <<d, j>> \in txn[q].rows
             => bso'[d][j] = bso[d][j]
      BY <2>2, <3>1
    <3>. QED
      BY <1>1, <1>3, <2>1, <3>1, <3>2, OpenStaysSafe
  <2>4. CollectionCoversBsos' /\ HistoryKept'
    BY <1>1, <2>1, <2>2
    DEF SafeInv, CollectionCoversBsos, HistoryKept, Present, NoRow
  <2>. QED
    BY <1>1, <2>3, <2>4 DEF SafeInv
<1>. QED
  BY <1>4, <1>5, <1>6 DEF Environment

LEMMA InitSafe == Init => SafeInv
<1>. SUFFICES ASSUME Init PROVE SafeInv
  OBVIOUS
<1>1. \A p \in Clients : SafeRequest(req[p], txn[p])
  BY DEF Init, StoreInit, SafeRequest, Locked, Shape, Idle, NoTxn, EmptyTxn
<1>2. CollectionCoversBsos /\ HistoryKept
  BY DEF Init, StoreInit, CollectionCoversBsos, HistoryKept, Present, NoRow,
         CollKeys
<1>. QED
  BY <1>1, <1>2, InitTypeInv DEF SafeInv

LEMMA NextSafe == SafeInv /\ [Next]_vars => SafeInv'
<1>. SUFFICES ASSUME SafeInv, [Next]_vars PROVE SafeInv'
  OBVIOUS
<1>1. ASSUME NEW p \in Clients, Begin(p) PROVE SafeInv'
  BY <1>1, LockSafe, CheckSafe DEF Begin
<1>2. ASSUME NEW p \in Clients, Handle(p) PROVE SafeInv'
  BY <1>2, PostBsosSafe, DeleteBsosSafe, HandleDeleteSafe, HandleReadSafe
  DEF Handle
<1>3. ASSUME NEW p \in Clients, GiveUp(p) PROVE SafeInv'
  BY <1>3, CloseSafe DEF GiveUp
<1>4. CASE UNCHANGED vars
  <2>1. TypeInv'
    BY NextTypeInv DEF SafeInv
  <2>2. ASSUME NEW q \in Clients PROVE SafeRequest(req[q], txn[q])'
    BY <1>4, <2>1, RequestFields, OpenStaysSafe DEF vars, SafeInv
  <2>3. CollectionCoversBsos' /\ HistoryKept'
    BY <1>4 DEF vars, SafeInv, CollectionCoversBsos, HistoryKept, Present
  <2>. QED
    BY <2>1, <2>2, <2>3 DEF SafeInv
<1>. QED
  BY <1>1, <1>2, <1>3, <1>4, StartSafe, EndSafe, EnvironmentSafe
  DEF Next, Serve

-----------------------------------------------------------------------------
(* Only a commit and the purge of a row change the tables. *)
LEMMA StoreSteps ==
  ASSUME SafeInv, [Next]_vars
  PROVE  \/ UNCHANGED <<uc, bso>>
         \/ \E p \in Clients : CommitWrite(p) /\ MutationsApply(txn[p])
         \/ \E c \in Collections, i \in Ids :
               PurgeRow(c, i) /\ UNCHANGED <<req, high>>
<1>1. ASSUME NEW p \in Clients, Start(p) \/ Serve(p) \/ GiveUp(p)
      PROVE  \/ UNCHANGED <<uc, bso>>
             \/ CommitWrite(p) /\ MutationsApply(txn[p])
  <2>1. CASE Begin(p)
    BY <2>1 DEF Begin, LockForRead, LockForWrite, LockForWriteNew, LockConflict,
                ReadClock, CheckPrecondition, SetTxn, Close, Discard
  <2>2. CASE Handle(p)
    BY <2>2 DEF Handle, PostBsos, DeleteBso, DeleteBsos, DeleteCollection,
                DeleteAll, GetBso, GetBsos, FinishGetCollection, GetInfo, SetTxn,
                Close, Discard
  <2>3. CASE Start(p) \/ GiveUp(p)
    BY <2>3 DEF Start, GiveUp, Close, Discard
  <2>4. CASE End(p)
    BY <2>4 DEF End, CommitRead, CommitWrite, Aborted, Close, Discard
  <2>. QED
    BY <1>1, <2>1, <2>2, <2>3, <2>4 DEF Serve
<1>2. CASE Environment
  BY <1>2 DEF Environment, Tick, SpannerAbort
<1>. QED
  BY <1>1, <1>2 DEF Next, vars

(* A collection's timestamp covers its BSOs, whatever writers, deletions,    *)
(* aborts and purges interleave (touch_collection, delete_collection).       *)
THEOREM CollectionsCoverTheirBsos == Spec => []CollectionCoversBsos
<1>1. SafeInv => CollectionCoversBsos
  BY DEF SafeInv
<1>. QED
  BY InitSafe, NextSafe, <1>1, PTL DEF Spec

(* The INSERTs and UPDATEs post_bsos chose still fit the rows at Commit: no  *)
(* request fails because another one committed between.                      *)
THEOREM MutationsAlwaysApply == Spec => []BufferedMutationsApply
<1>1. SafeInv => BufferedMutationsApply
  BY CommitReady DEF BufferedMutationsApply
<1>. QED
  BY InitSafe, NextSafe, <1>1, PTL DEF Spec

(* While no request deletes the whole storage, every content a commit shows  *)
(* is newer than all its collection ever showed (lock_for_write_async).      *)
THEOREM ContentAlwaysAdvances ==
  ASSUME NeverForgets
  PROVE  Spec => ContentAdvances
<1>1. ASSUME SafeInv, [Next]_vars, NEW c \in Collections, NEW i \in Ids,
             bso'[c][i] # bso[c][i], ~Expired(c, i), uc'[c] # Absent
      PROVE  /\ uc'[c] > high[c]
             /\ bso'[c][i].mod \in {bso[c][i].mod, uc'[c], Absent}
  <2>1. PICK p \in Clients : CommitWrite(p) /\ MutationsApply(txn[p])
    <3>1. ASSUME NEW d \in Collections, NEW j \in Ids, PurgeRow(d, j)
          PROVE  FALSE
      <4>1. bso'[c][i] = IF c = d /\ i = j THEN NoRow ELSE bso[c][i]
        BY <1>1, <3>1 DEF PurgeRow, SafeInv, TypeInv, TypeOK, StoreTypeOK
      <4>2. c = d /\ i = j /\ bso'[c][i] = NoRow /\ bso[c][i].exp < now
        BY <1>1, <3>1, <4>1 DEF PurgeRow
      <4>. QED
        BY <1>1, <4>2 DEF Expired, Present, NoRow
    <3>. QED
      BY <1>1, <3>1, StoreSteps
  <2>2. Commit(p) /\ req[p].pc = "commit" /\ txn[p].mode = "rw"
    BY <2>1 DEF CommitWrite
  <2>3. c = req[p].coll /\ req[p].kind \in WriteKinds /\ WrittenAt(c, req[p].ts)
    BY <1>1, <2>2, CommitEffect, NeverForgets DEF Kept, Removed
  <2>4. high[c] < req[p].ts
    BY <1>1, <2>2, <2>3, CommitReady, NeverForgets
  <2>5. high[c] \in Absent..MaxTime /\ req[p].ts \in 0..MaxTime
    BY <1>1, RequestFields DEF SafeInv, TypeInv, TypeOK, Request
  <2>. QED
    BY <2>3, <2>4, <2>5, MaxTimeAssumption DEF WrittenAt
<1>2. SafeInv /\ [Next]_vars =>
        [\A c \in Collections, i \in Ids :
            bso'[c][i] # bso[c][i] /\ ~Expired(c, i) /\ uc'[c] # Absent
            => /\ uc'[c] > high[c]
               /\ bso'[c][i].mod \in {bso[c][i].mod, uc'[c], Absent}]_vars
  BY <1>1
<1>. QED
  BY InitSafe, NextSafe, <1>2, PTL DEF Spec, ContentAdvances

(* A request answered with an error changes no row: what a handler wrote     *)
(* before it failed is never committed (transaction_http).                   *)
THEOREM FailedRequestsLeaveNoTrace == Spec => FailedRequestsChangeNothing
<1>1. ASSUME SafeInv, [Next]_vars, NEW q \in Clients, Ends(q), StoreChanges
      PROVE  req[q].pc = "commit" /\ req[q].status = 200
  <2>1. PICK p \in Clients : CommitWrite(p) /\ MutationsApply(txn[p])
    <3>1. req' # req
      BY <1>1 DEF Ends
    <3>. QED
      BY <1>1, <3>1, StoreSteps DEF StoreChanges
  <2>2. /\ Commit(p) /\ req[p].pc = "commit" /\ txn[p].mode = "rw"
        /\ req' = [req EXCEPT ![p] = Idle]
    BY <2>1 DEF CommitWrite
  <2>3. p = q
    BY <1>1, <2>2 DEF Ends, SafeInv, TypeInv, TypeOK
  <2>4. ~Untouched(txn[p])
    BY <1>1, <2>2, CommitUntouched DEF StoreChanges, SafeInv, TypeInv
  <2>. QED
    BY <1>1, <2>2, <2>3, <2>4, CommitReady DEF Shape, Staged
<1>2. SafeInv /\ [Next]_vars =>
        [\A p \in Clients : Ends(p) /\ StoreChanges
            => req[p].pc = "commit" /\ req[p].status = 200]_vars
  BY <1>1
<1>. QED
  BY InitSafe, NextSafe, <1>2, PTL DEF Spec, FailedRequestsChangeNothing

-----------------------------------------------------------------------------
(* X-If-Unmodified-Since at the moment a write takes effect.  The server     *)
(* compares the header once, before the handler; Spanner aborts whoever read *)
(* what another commit overwrites.  That the two suffice is an invariant:    *)
(* from the check on, what the header is about is in the read set of the     *)
(* request's transaction and as the check found it.                          *)

\* The read set of r's transaction t covers what the header is about, and the
\* header still holds; coll_modified_cache is the collection's timestamp.
Guarded(r, t) ==
    t.mode = "rw" /\ r.kind \in WriteKinds =>
    /\ r.pc \in {"check", "handle", "commit"} => r.cached \in {Absent, uc[r.coll]}
    /\ r.pc \in {"handle", "commit"} /\ r.kind \in BsoKinds
       => {r.coll} \X r.ids \subseteq t.rows
    /\ /\ r.pc = "handle" \/ (r.pc = "commit" /\ r.status = 200)
       /\ r.pre = "if_unmodified_since"
       => UnmodifiedSince(r)

\* A BSO's path names one BSO; nothing is cached before the lock.
Prepared(r) ==
    /\ r.kind \in BsoKinds => \E i \in Ids : r.ids = {i}
    /\ r.pc \in {"lock", "timestamp"} => r.cached = Absent

GuardedRequest(r, t) == Prepared(r) /\ Guarded(r, t)

PreconditionInv ==
    /\ SafeInv
    /\ \A p \in Clients : GuardedRequest(req[p], txn[p])

-----------------------------------------------------------------------------
(* A step that does not overwrite what a transaction read leaves it guarded. *)
LEMMA OpenStaysGuarded ==
  ASSUME PreconditionInv, TypeInv', NEW q \in Clients,
         req'[q] = req[q],
         now <= now',
         txn'[q].mode = "rw" =>
            /\ txn'[q] = txn[q]
            /\ \A k \in txn[q].reads : uc'[k] = uc[k]
            /\ \A c \in Collections, i \in Ids :
                  <<c, i>> \in txn[q].rows => bso'[c][i] = bso[c][i]
  PROVE  GuardedRequest(req[q], txn[q])'
<1>. DEFINE r == req[q]
            t == txn[q]
<1>1. /\ r \in Request /\ r.coll \in Collections /\ r.ids \in SUBSET Ids
      /\ SafeRequest(r, t) /\ Prepared(r) /\ Guarded(r, t)
      /\ now \in 1..MaxTime
  BY RequestFields DEF PreconditionInv, SafeInv, GuardedRequest
<1>2. now' \in 1..MaxTime
  BY DEF TypeInv, TypeOK, StoreTypeOK
<1>3. Prepared(req[q])'
  BY <1>1 DEF Prepared
<1>4. SUFFICES ASSUME txn'[q].mode = "rw", r.kind \in WriteKinds
               PROVE  Guarded(req[q], txn[q])'
  BY <1>3 DEF GuardedRequest, Guarded
<1>5. txn'[q] = t /\ t.mode = "rw"
  BY <1>4
<1>6. r.pc \in {"check", "handle", "commit"} => uc'[r.coll] = uc[r.coll]
  BY <1>1, <1>4, <1>5 DEF SafeRequest, Locked
<1>7. ASSUME r.pc \in {"handle", "commit"}, UnmodifiedSince(r)
      PROVE  UnmodifiedSince(req[q])'
  <2>1. r.kind \notin StorageKinds
    BY <1>4 DEF WriteKinds, PostKinds, StorageKinds
  <2>2. CASE r.kind \in BsoKinds
    <3>1. ASSUME NEW i \in r.ids, Visible(bso[r.coll][i])'
          PROVE  bso'[r.coll][i].mod <= r.since
      <4>1. i \in Ids /\ <<r.coll, i>> \in t.rows
        BY <1>1, <1>4, <1>5, <1>7, <2>2 DEF Guarded
      <4>2. bso'[r.coll][i] = bso[r.coll][i]
        BY <1>1, <1>4, <4>1
      <4>3. bso[r.coll][i] \in Row \cup {NoRow}
        BY <1>1, <4>1 DEF PreconditionInv, SafeInv, TypeInv, TypeOK, StoreTypeOK
      <4>4. Visible(bso[r.coll][i])
        BY <1>1, <1>2, <3>1, <4>2, <4>3 DEF Visible, Present, Row, NoRow
      <4>. QED
        BY <1>7, <2>1, <2>2, <4>2, <4>4 DEF UnmodifiedSince
    <3>. QED
      BY <2>1, <2>2, <3>1 DEF UnmodifiedSince
  <2>3. CASE r.kind \notin BsoKinds
    BY <1>6, <1>7, <2>1, <2>3 DEF UnmodifiedSince
  <2>. QED
    BY <2>2, <2>3
<1>. QED
  BY <1>1, <1>4, <1>5, <1>6, <1>7 DEF Guarded

(* An answer keeps the request guarded: no handler forgets what was read. *)
LEMMA AnswerGuarded ==
  ASSUME PreconditionInv, NEW p \in Clients, NEW status, NEW lm,
         req[p].pc \in {"handle", "finish"},
         Respond(p, status, lm), UNCHANGED <<now, uc, bso>>,
         req[p].kind \in WriteKinds =>
            /\ req[p].pc = "handle"
            /\ txn'[p].mode = txn[p].mode
            /\ txn[p].rows \subseteq txn'[p].rows
  PROVE  GuardedRequest(req[p], txn[p])'
<1>1. req \in [Clients -> Request] /\ req[p] \in Request
      /\ Prepared(req[p]) /\ Guarded(req[p], txn[p])
  BY RequestFields
  DEF PreconditionInv, SafeInv, TypeInv, TypeOK, GuardedRequest
<1>2. /\ req'[p].pc = "commit"
      /\ req'[p].kind = req[p].kind /\ req'[p].coll = req[p].coll
      /\ req'[p].ids = req[p].ids /\ req'[p].pre = req[p].pre
      /\ req'[p].since = req[p].since /\ req'[p].cached = req[p].cached
  BY <1>1 DEF Respond, Request
<1>3. UnmodifiedSince(req[p]) => UnmodifiedSince(req[p])'
  BY <1>2 DEF UnmodifiedSince, Visible, Present
<1>4. Prepared(req[p])'
  BY <1>1, <1>2 DEF Prepared
<1>5. Guarded(req[p], txn[p])'
  BY <1>1, <1>2, <1>3 DEF Guarded
<1>. QED
  BY <1>4, <1>5 DEF GuardedRequest

(* The lock caches the collection's timestamp (lock_for_write_async). *)
LEMMA LockGuarded ==
  ASSUME PreconditionInv, NEW p \in Clients,
         \/ LockForRead(p) \/ LockForWrite(p) \/ LockForWriteNew(p)
         \/ ReadClock(p)
  PROVE  GuardedRequest(req[p], txn[p])'
<1>1. /\ req \in [Clients -> Request] /\ txn \in [Clients -> Txn]
      /\ req[p] \in Request /\ Prepared(req[p]) /\ Guarded(req[p], txn[p])
  BY RequestFields
  DEF PreconditionInv, SafeInv, TypeInv, TypeOK, StoreTypeOK, GuardedRequest
<1>2. /\ req'[p].kind = req[p].kind /\ req'[p].coll = req[p].coll
      /\ req'[p].ids = req[p].ids /\ UNCHANGED uc
  BY <1>1
  DEF Request, LockForRead, LockForWrite, LockForWriteNew, ReadClock, Goto, SetTxn
<1>3. CASE LockForRead(p)
  <2>1. req'[p].pc = "check" /\ req[p].kind \notin WriteKinds
    BY <1>1, <1>3
    DEF LockForRead, In, Goto, ReadKinds, WriteKinds, PostKinds, Request
  <2>. QED
    BY <1>1, <1>2, <2>1 DEF GuardedRequest, Prepared, Guarded
<1>4. CASE LockForWrite(p)
  <2>1. req'[p].pc = "check" /\ req'[p].cached = uc[req[p].coll]
    BY <1>1, <1>4 DEF LockForWrite, Request
  <2>. QED
    BY <1>1, <1>2, <2>1 DEF GuardedRequest, Prepared, Guarded
<1>5. CASE LockForWriteNew(p)
  <2>1. req'[p].pc = "timestamp" /\ req'[p].cached = req[p].cached
        /\ req[p].pc = "lock"
    BY <1>1, <1>5 DEF LockForWriteNew, Goto, In, Request
  <2>. QED
    BY <1>1, <1>2, <2>1 DEF GuardedRequest, Prepared, Guarded
<1>6. CASE ReadClock(p)
  <2>1. req'[p].pc = "check" /\ req'[p].cached = req[p].cached
        /\ req[p].pc = "timestamp"
    BY <1>1, <1>6 DEF ReadClock, Request
  <2>. QED
    BY <1>1, <1>2, <2>1 DEF GuardedRequest, Prepared, Guarded
<1>. QED
  BY <1>3, <1>4, <1>5, <1>6

(* check_precondition of transaction_http. *)
LEMMA CheckGuarded ==
  ASSUME PreconditionInv, NEW p \in Clients, CheckPrecondition(p)
  PROVE  GuardedRequest(req[p], txn[p])'
<1>. DEFINE t == AfterResourceQuery(p)
            rts == ResourceTimestamp(p, t)
            r == req[p]
            c == req[p].coll
<1>1. /\ req \in [Clients -> Request] /\ txn \in [Clients -> Txn]
      /\ r \in Request /\ Prepared(r) /\ Guarded(r, txn[p])
      /\ SafeRequest(r, txn[p]) /\ r.pc = "check"
      /\ txn[p] \in Txn /\ c \in Collections /\ c \in CollKeys
      /\ uc[c] \in Absent..MaxTime /\ r.since \in 0..MaxTime
      /\ UNCHANGED <<now, uc, bso>>
  BY RequestFields
  DEF PreconditionInv, SafeInv, TypeInv, TypeOK, StoreTypeOK, GuardedRequest,
      CheckPrecondition, SetTxn, Request
<1>2. /\ txn'[p] = t
      /\ req'[p] = Checked(r, rts, PreconditionStatus(r, rts))
  BY <1>1 DEF CheckPrecondition, SetTxn
<1>3. /\ req'[p].pc \in {"handle", "commit"}
      /\ req'[p].pc = "handle" => PreconditionStatus(r, rts) = 0
      /\ req'[p].pc = "commit" => req'[p].status # 200
      /\ req'[p].kind = r.kind /\ req'[p].coll = c
      /\ req'[p].ids = r.ids /\ req'[p].pre = r.pre
      /\ req'[p].since = r.since /\ req'[p].cached = r.cached
  BY <1>1, <1>2 DEF Checked, Request, PreconditionStatus
<1>4. Prepared(req[p])'
  BY <1>1, <1>3 DEF Prepared
<1>5. SUFFICES ASSUME t.mode = "rw", r.kind \in WriteKinds
               PROVE  Guarded(req[p], txn[p])'
  BY <1>2, <1>3, <1>4 DEF GuardedRequest, Guarded
<1>6. r.kind \notin StorageKinds /\ r.kind \notin ReadKinds
  BY <1>5 DEF WriteKinds, PostKinds, StorageKinds, ReadKinds
<1>7. r.kind \in BsoKinds => TheId(p) \in Ids /\ r.ids = {TheId(p)}
  BY <1>1 DEF Prepared, TheId
<1>8. /\ t.mode = txn[p].mode /\ t.wc = txn[p].wc /\ t.wb = txn[p].wb
      /\ r.kind \in BsoKinds => <<c, TheId(p)>> \in t.rows
  BY <1>1, <1>6, ReadingFields DEF AfterResourceQuery
<1>9. /\ CollView(t, c) = uc[c]
      /\ \A i \in Ids : BsoView(t, c, i) = bso[c][i]
  <2>1. Untouched(txn[p])
    BY <1>1, <1>5, <1>8 DEF SafeRequest
  <2>. QED
    BY <1>1, <1>8, <2>1, UntouchedFields DEF CollView, BsoView, NotStaged
<1>10. r.cached \in {Absent, uc[c]}
  BY <1>1, <1>5, <1>8 DEF Guarded
<1>11. ASSUME req'[p].pc = "handle", r.pre = "if_unmodified_since"
       PROVE  UnmodifiedSince(r)
  <2>. HIDE DEF t
  <2>1. rts \in 0..MaxTime => rts <= r.since
    BY <1>1, <1>3, <1>11 DEF PreconditionStatus
  <2>2. rts \in 0..MaxTime
    <3>1. t \in Txn
      <4>1. TypeInv'
        BY BeginType DEF PreconditionInv, SafeInv, Begin
      <4>. QED
        BY <1>2, <4>1, RequestFields DEF TypeInv, TypeOK, StoreTypeOK
    <3>. QED
      BY <3>1, ResourceTimestampType DEF PreconditionInv, SafeInv
  <2>3. CASE r.kind \in BsoKinds
    <3>1. rts = BsoTimestamp(t, c, TheId(p))
      BY <1>6, <2>3 DEF ResourceTimestamp
    <3>2. Visible(bso[c][TheId(p)]) => bso[c][TheId(p)].mod = rts
      BY <1>7, <1>9, <2>3, <3>1 DEF BsoTimestamp
    <3>. QED
      BY <1>6, <1>7, <2>1, <2>2, <2>3, <3>2 DEF UnmodifiedSince
  <2>4. CASE r.kind \notin BsoKinds
    <3>1. rts = IF r.cached # Absent THEN r.cached
                ELSE IF uc[c] > PRETOUCH THEN uc[c] ELSE 0
      BY <1>6, <1>9, <2>4 DEF ResourceTimestamp, CollTimestamp
    <3>2. uc[c] <= r.since
      <4>1. rts <= r.since /\ r.since \in Nat
        BY <1>1, <2>1, <2>2, MaxTimeAssumption
      <4>2. uc[c] \in Int
        BY <1>1, MaxTimeAssumption
      <4>3. rts = uc[c] \/ uc[c] <= 0
        <5>. HIDE DEF rts, c
        <5>. QED
          BY <1>10, <3>1, <4>2
      <4>. HIDE DEF rts, c, r
      <4>. QED
        BY <4>1, <4>2, <4>3
    <3>. QED
      BY <1>6, <2>4, <3>2 DEF UnmodifiedSince
  <2>. QED
    BY <2>3, <2>4
<1>12. UnmodifiedSince(r) => UnmodifiedSince(req[p])'
  BY <1>1, <1>3 DEF UnmodifiedSince, Visible, Present
<1>13. {c} \X r.ids \subseteq t.rows \/ r.kind \notin BsoKinds
  BY <1>7, <1>8
<1>. HIDE DEF t, r, c
<1>. QED
  BY <1>1, <1>2, <1>3, <1>10, <1>11, <1>12, <1>13 DEF Guarded, c, r

(* The answers of the handlers; the transaction keeps what it read. *)
LEMMA HandleGuarded ==
  ASSUME PreconditionInv, NEW p \in Clients, Handle(p), ~Close(p)
  PROVE  GuardedRequest(req[p], txn[p])'
<1>. DEFINE r == req[p]
            c == req[p].coll
            ids == req[p].ids
            ts == req[p].ts
<1>0. /\ txn[p] \in Txn /\ c \in Collections /\ ids \in SUBSET Ids
      /\ ts \in 0..MaxTime
  BY RequestFields DEF PreconditionInv, SafeInv, Request
<1>1. /\ req \in [Clients -> Request] /\ txn \in [Clients -> Txn]
      /\ r \in Request
  BY RequestFields
  DEF PreconditionInv, SafeInv, TypeInv, TypeOK, StoreTypeOK
<1>2. ASSUME NEW t, NEW status, NEW lm, SetTxn(p, t), Respond(p, status, lm),
             r.pc \in {"handle", "finish"},
             r.kind \in WriteKinds => /\ r.pc = "handle"
                                      /\ t.mode = txn[p].mode
                                      /\ txn[p].rows \subseteq t.rows
      PROVE  GuardedRequest(req[p], txn[p])'
  <2>1. txn'[p] = t /\ UNCHANGED <<now, uc, bso>>
    BY <1>1, <1>2 DEF SetTxn
  <2>. QED
    BY <1>2, <2>1, AnswerGuarded
<1>3. CASE PostBsos(p)
  <2>. DEFINE u == Touched(txn[p], c, ts)
              v == Reading(u, {}, {c} \X ids)
              t == Buffering(v, c, ids, r.body, ts)
  <2>1. u \in Txn /\ u.mode = txn[p].mode /\ u.rows = txn[p].rows
    BY <1>0, TouchedType, ZenonT(60)
  <2>2. t.mode = v.mode /\ t.rows = v.rows
    <3>1. v \in Txn
      <4>1. {} \in SUBSET CollKeys
            /\ {c} \X ids \in SUBSET (Collections \X Ids)
        BY <1>0
      <4>. HIDE DEF u
      <4>. QED
        BY <2>1, <4>1, ReadingType
    <3>. HIDE DEF v
    <3>. QED
      BY <3>1 DEF Buffering, Txn
  <2>3. v.mode = u.mode /\ u.rows \subseteq v.rows
    BY <2>1, ReadingFields
  <2>4. SetTxn(p, t) /\ Respond(p, 200, ts) /\ r.pc = "handle"
    BY <1>3 DEF PostBsos, In
  <2>. HIDE DEF t, u, v
  <2>. QED
    BY <1>2, <2>1, <2>2, <2>3, <2>4
<1>4. CASE DeleteBso(p)
  <2>. DEFINE u == Touched(txn[p], c, ts)
              t == DeletedRows(u, c, ids)
  <2>1. u \in Txn /\ u.mode = txn[p].mode /\ u.rows = txn[p].rows
    BY <1>0, TouchedType
  <2>2. t.mode = u.mode /\ u.rows \subseteq t.rows
    BY <1>0, <2>1, DeletedRowsType
  <2>3. SetTxn(p, t) /\ Respond(p, 200, r.rts) /\ r.pc = "handle"
    BY <1>4 DEF DeleteBso, In
  <2>. HIDE DEF t, u
  <2>. QED
    BY <1>2, <2>1, <2>2, <2>3
<1>5. CASE DeleteBsos(p)
  <2>. DEFINE u == DeletedRows(txn[p], c, ids)
              t == Touched(u, c, ts)
  <2>1. u \in Txn /\ u.mode = txn[p].mode /\ txn[p].rows \subseteq u.rows
    BY <1>0, DeletedRowsType
  <2>2. SetTxn(p, t) /\ Respond(p, 200, ts) /\ r.pc = "handle"
    BY <1>5 DEF DeleteBsos, In
  <2>. HIDE DEF u
  <2>3. t.mode = u.mode /\ t.rows = u.rows
    BY <2>1 DEF Touched, Txn
  <2>. HIDE DEF t
  <2>. QED
    BY <1>2, <2>1, <2>2, <2>3
<1>6. CASE DeleteCollection(p)
  <2>. DEFINE u == Reading(txn[p], {c, Tombstone}, {})
              v == DeletedCollection(u, c, ts)
              w == Reading(u, CollKeys, {})
  <2>1. u \in Txn /\ u.mode = txn[p].mode /\ txn[p].rows \subseteq u.rows
    <3>1. {c, Tombstone} \in SUBSET CollKeys
          /\ {} \in SUBSET (Collections \X Ids)
      BY <1>0 DEF CollKeys
    <3>. QED
      BY <1>0, <3>1, ReadingType, ReadingFields
  <2>2. (SetTxn(p, v) \/ SetTxn(p, w)) /\ Respond(p, 200, r.rts)
        /\ r.pc = "handle"
    BY <1>6 DEF DeleteCollection, In
  <2>. HIDE DEF u
  <2>3. v.mode = u.mode /\ u.rows \subseteq v.rows
    BY <2>1 DEF DeletedCollection, DeletedRows, Txn
  <2>4. w.mode = u.mode /\ u.rows \subseteq w.rows
    BY <2>1, ReadingFields
  <2>. HIDE DEF v, w
  <2>5. CASE SetTxn(p, v)
    BY <1>2, <2>1, <2>2, <2>3, <2>5
  <2>6. CASE SetTxn(p, w)
    BY <1>2, <2>1, <2>2, <2>4, <2>6
  <2>. QED
    BY <2>2, <2>5, <2>6
<1>7. CASE DeleteAll(p) \/ GetInfo(p)
  <2>1. r.pc = "handle" /\ r.kind \notin WriteKinds
        /\ Respond(p, 200, r.rts) /\ UNCHANGED <<now, uc, bso>>
    BY <1>7 DEF DeleteAll, GetInfo, In, WriteKinds, PostKinds, SetTxn
  <2>. QED
    BY <2>1, AnswerGuarded
<1>8. CASE GetBso(p) \/ GetBsos(p) \/ FinishGetCollection(p)
  <2>1. r.kind \notin WriteKinds /\ r.pc \in {"handle", "finish"}
    BY <1>8 DEF GetBso, GetBsos, FinishGetCollection, In, WriteKinds, PostKinds
  <2>2. /\ req'[p].kind = r.kind /\ req'[p].ids = r.ids
        /\ req'[p].pc \in {"commit", "finish"}
    <3>1. CASE GetBso(p)
      BY <1>1, <3>1 DEF GetBso, Request
    <3>2. CASE GetBsos(p)
      BY <1>1, <3>2 DEF GetBsos, Request
    <3>3. CASE FinishGetCollection(p)
      BY <1>1, <3>3 DEF FinishGetCollection, Respond, Request
    <3>. QED
      BY <1>8, <3>1, <3>2, <3>3
  <2>3. Prepared(r)
    BY DEF PreconditionInv, GuardedRequest
  <2>. QED
    BY <2>1, <2>2, <2>3 DEF GuardedRequest, Prepared, Guarded
<1>. QED
  BY <1>3, <1>4, <1>5, <1>6, <1>7, <1>8 DEF Handle

(* A request that arrives or ends guards nothing yet. *)
LEMMA ArrivalGuarded ==
  ASSUME PreconditionInv, NEW p \in Clients, Start(p)
  PROVE  GuardedRequest(req[p], txn[p])'
<1>1. PICK kind \in Kinds, c \in Collections, pre \in Preconds :
         \E ids \in IdsOf(kind),
            body \in IF kind \in PostKinds THEN Bodies ELSE {NoBody},
            since \in IF pre = "none" THEN {0} ELSE 0..MaxTime :
            req' = [req EXCEPT ![p] = Arriving(kind, c, ids, body, pre, since)]
  BY ZenonT(60) DEF Start
<1>2. PICK ids, body, since :
         /\ ids \in IdsOf(kind)
         /\ req' = [req EXCEPT ![p] = Arriving(kind, c, ids, body, pre, since)]
  BY <1>1
<1>3. req'[p] = Arriving(kind, c, ids, body, pre, since)
  BY <1>2 DEF PreconditionInv, SafeInv, TypeInv, TypeOK
<1>4. /\ req'[p].kind = kind /\ req'[p].ids = ids /\ req'[p].cached = Absent
      /\ req'[p].pc = IF kind \in StorageKinds THEN "check" ELSE "lock"
  BY <1>3 DEF Arriving, Idle
<1>5. kind \in BsoKinds => \E i \in Ids : ids = {i}
  BY <1>2 DEF IdsOf
<1>. QED
  BY <1>4, <1>5
  DEF GuardedRequest, Prepared, Guarded, StorageKinds, WriteKinds, PostKinds

LEMMA IdleGuarded ==
  ASSUME NEW p \in Clients, req'[p] = Idle
  PROVE  GuardedRequest(req[p], txn[p])'
BY DEF GuardedRequest, Prepared, Guarded, Idle, BsoKinds, WriteKinds, PostKinds

(* A step of p leaves the other requests, and what they read, alone. *)
LEMMA OthersGuarded ==
  ASSUME PreconditionInv, NEW p \in Clients, Start(p) \/ Serve(p) \/ GiveUp(p),
         NEW q \in Clients, q # p
  PROVE  GuardedRequest(req[q], txn[q])'
<1>1. TypeInv'
  BY NextTypeInv DEF PreconditionInv, SafeInv, Next
<1>2. req \in [Clients -> Request] /\ txn \in [Clients -> Txn] /\ now \in 1..MaxTime
  BY DEF PreconditionInv, SafeInv, TypeInv, TypeOK, StoreTypeOK
<1>3. CASE CommitWrite(p) /\ MutationsApply(txn[p])
  <2>1. Commit(p) /\ req'[q] = req[q] /\ now' = now
    BY <1>2, <1>3 DEF CommitWrite, Commit
  <2>. QED
    BY <1>1, <1>2, <2>1, CommitKeeps, OpenStaysGuarded DEF PreconditionInv
<1>4. CASE ~ (CommitWrite(p) /\ MutationsApply(txn[p]))
  <2>1. req'[q] = req[q] /\ txn'[q] = txn[q] /\ UNCHANGED <<now, uc, bso>>
    <3>1. CASE Begin(p)
      BY <1>2, <3>1
      DEF Begin, LockForRead, LockForWrite, LockForWriteNew, LockConflict,
          ReadClock, CheckPrecondition, SetTxn, Goto, Close, Discard
    <3>2. CASE Handle(p)
      BY <1>2, <3>2
      DEF Handle, PostBsos, DeleteBso, DeleteBsos, DeleteCollection, DeleteAll,
          GetBso, GetBsos, FinishGetCollection, GetInfo, SetTxn, Respond, Close,
          Discard
    <3>3. CASE Start(p)
      BY <1>2, <3>3 DEF Start
    <3>4. CASE End(p) \/ GiveUp(p)
      BY <1>2, <1>4, <3>4
      DEF End, CommitRead, CommitWrite, Aborted, GiveUp, Close, Discard
    <3>. QED
      BY <3>1, <3>2, <3>3, <3>4 DEF Serve
  <2>. QED
    BY <1>1, <1>2, <2>1, OpenStaysGuarded
<1>. QED
  BY <1>3, <1>4

LEMMA NextGuarded == PreconditionInv /\ [Next]_vars => PreconditionInv'
<1>. SUFFICES ASSUME PreconditionInv, [Next]_vars PROVE PreconditionInv'
  OBVIOUS
<1>1. SafeInv' /\ TypeInv'
  BY NextSafe DEF PreconditionInv, SafeInv
<1>2. /\ req \in [Clients -> Request] /\ txn \in [Clients -> Txn]
      /\ now \in 1..MaxTime
  BY DEF PreconditionInv, SafeInv, TypeInv, TypeOK, StoreTypeOK
<1>3. ASSUME NEW p \in Clients, Start(p) \/ Serve(p) \/ GiveUp(p)
      PROVE  GuardedRequest(req[p], txn[p])'
  <2>1. CASE Close(p) \/ CommitWrite(p)
    <3>1. req' = [req EXCEPT ![p] = Idle]
      BY <2>1 DEF Close, CommitWrite
    <3>2. req'[p] = Idle
      BY <1>2, <3>1
    <3>. QED
      BY <3>2, IdleGuarded
  <2>2. CASE Begin(p)
    BY <2>1, <2>2, LockGuarded, CheckGuarded DEF Begin, LockConflict
  <2>3. CASE Handle(p)
    BY <2>1, <2>3, HandleGuarded
  <2>. QED
    BY <1>3, <2>1, <2>2, <2>3, ArrivalGuarded
    DEF Serve, End, CommitRead, Aborted, GiveUp
<1>4. CASE Environment
  <2>. SUFFICES ASSUME NEW q \in Clients PROVE GuardedRequest(req[q], txn[q])'
    BY <1>1 DEF PreconditionInv
  <2>1. req'[q] = req[q] /\ now <= now'
    <3>1. req' = req /\ now' \in {now, now + 1}
      BY <1>4 DEF Environment, Tick, SpannerAbort, PurgeRow
    <3>. QED
      BY <1>2, <3>1
  <2>2. ASSUME txn'[q].mode = "rw"
        PROVE  /\ txn'[q] = txn[q] /\ uc' = uc
               /\ \A c \in Collections, i \in Ids :
                     <<c, i>> \in txn[q].rows => bso'[c][i] = bso[c][i]
    <3>1. CASE Tick
      BY <3>1 DEF Tick
    <3>2. ASSUME NEW p \in Clients, SpannerAbort(p)
          PROVE  txn'[q] = txn[q] /\ UNCHANGED <<uc, bso>>
      BY <1>2, <2>2, <3>2 DEF SpannerAbort, DeadTxn, EmptyTxn
    <3>3. ASSUME NEW c \in Collections, NEW i \in Ids, PurgeRow(c, i)
          PROVE  /\ txn'[q] = txn[q] /\ uc' = uc
                 /\ \A d \in Collections, j \in Ids :
                       <<d, j>> \in txn[q].rows => bso'[d][j] = bso[d][j]
      <4>1. txn'[q] = txn[q] /\ <<c, i>> \notin txn[q].rows /\ uc' = uc
        BY <2>2, <3>3 DEF PurgeRow, Overwritten, DeadTxn, EmptyTxn
      <4>2. bso' = [bso EXCEPT ![c][i] = NoRow]
        BY <3>3 DEF PurgeRow
      <4>3. \A d \in Collections, j \in Ids :
               bso'[d][j] = IF d = c /\ j = i THEN NoRow ELSE bso[d][j]
        BY <4>2 DEF PreconditionInv, SafeInv, TypeInv, TypeOK, StoreTypeOK
      <4>. QED
        BY <4>1, <4>3
    <3>. QED
      BY <1>4, <3>1, <3>2, <3>3 DEF Environment
  <2>. QED
    BY <1>1, <2>1, <2>2, OpenStaysGuarded
<1>5. CASE UNCHANGED vars
  <2>. SUFFICES ASSUME NEW q \in Clients PROVE GuardedRequest(req[q], txn[q])'
    BY <1>1 DEF PreconditionInv
  <2>. QED
    BY <1>1, <1>2, <1>5, OpenStaysGuarded DEF vars
<1>. QED
  BY <1>1, <1>3, <1>4, <1>5, OthersGuarded DEF PreconditionInv, Next

(* X-If-Unmodified-Since still holds when a write takes effect: of two       *)
(* writers that saw the same state, one fails (check_precondition of         *)
(* transaction_http; what it read is guarded by Spanner until the commit).   *)
THEOREM PreconditionsHold == Spec => PreconditionHolds
<1>1. Init => PreconditionInv
  <2>. SUFFICES ASSUME Init PROVE PreconditionInv
    OBVIOUS
  <2>1. ASSUME NEW p \in Clients PROVE GuardedRequest(req[p], txn[p])
    BY DEF Init, GuardedRequest, Prepared, Guarded, Idle, BsoKinds, WriteKinds,
           PostKinds
  <2>. QED
    BY <2>1, InitSafe DEF PreconditionInv
<1>2. ASSUME PreconditionInv, [Next]_vars, NEW q \in Clients, Ends(q),
             StoreChanges, req[q].pre = "if_unmodified_since",
             req[q].kind \in WriteKinds
      PROVE  UnmodifiedSince(req[q])
  <2>1. PICK p \in Clients : CommitWrite(p) /\ MutationsApply(txn[p])
    <3>1. req' # req
      BY <1>2 DEF Ends
    <3>. QED
      BY <1>2, <3>1, StoreSteps DEF StoreChanges, PreconditionInv
  <2>2. /\ Commit(p) /\ req[p].pc = "commit" /\ txn[p].mode = "rw"
        /\ req' = [req EXCEPT ![p] = Idle]
    BY <2>1 DEF CommitWrite
  <2>3. p = q
    BY <1>2, <2>2 DEF Ends, PreconditionInv, SafeInv, TypeInv, TypeOK
  <2>4. ~Untouched(txn[p])
    BY <1>2, <2>2, CommitUntouched
    DEF StoreChanges, PreconditionInv, SafeInv, TypeInv
  <2>5. req[p].status = 200
    BY <1>2, <2>2, <2>4, CommitReady DEF Shape, Staged, PreconditionInv
  <2>. QED
    BY <1>2, <2>2, <2>3, <2>5 DEF PreconditionInv, GuardedRequest, Guarded
<1>3. PreconditionInv /\ [Next]_vars =>
        [\A p \in Clients :
            /\ Ends(p) /\ StoreChanges
            /\ req[p].pre = "if_unmodified_since"
            /\ req[p].kind \in WriteKinds
            => UnmodifiedSince(req[p])]_vars
  BY <1>2
<1>. QED
  BY <1>1, NextGuarded, <1>3, PTL DEF Spec, PreconditionHolds

-----------------------------------------------------------------------------
(* Refinement: what each pending commit writes.                            *)

\* A PUT or POST: the touched collection, one mutation per BSO in the request.
WritesBody(r, t) ==
    /\ r.kind \in PostKinds
    /\ \A k \in CollKeys : t.wc[k] = IF k = r.coll THEN r.ts ELSE NotSet
    /\ \A d \in Collections, i \in Ids :
          /\ t.wb[d][i] = NotStaged
          /\ IF d = r.coll /\ i \in r.ids
             THEN /\ <<d, i>> \in t.rows
                  /\ t.mut[d][i] = IF Present(bso[d][i])
                                   THEN UpdateRow(r.body, r.ts)
                                   ELSE InsertRow(r.body, r.ts)
             ELSE t.mut[d][i] = NoMutation

\* A DELETE of BSOs.
RemovesBsos(r, t) ==
    /\ r.kind \in WriteKinds
    /\ \A k \in CollKeys : t.wc[k] = IF k = r.coll THEN r.ts ELSE NotSet
    /\ \A d \in Collections, i \in Ids :
          /\ t.wb[d][i] = IF d = r.coll /\ i \in r.ids THEN NoRow ELSE NotStaged
          /\ t.mut[d][i] = NoMutation

\* A DELETE of a collection that exists.
RemovesExisting(r, t) ==
    /\ r.kind \in WriteKinds
    /\ uc[r.coll] # Absent
    /\ RemovesCollection(t, r.coll, r.ts)

Pending(r, t) ==
    \/ Untouched(t)
    \/ WritesBody(r, t)
    \/ RemovesBsos(r, t)
    \/ RemovesExisting(r, t)
    \/ RemovesStorage(t)

Exact(r, t) ==
    /\ r.kind \in PostKinds => r.body \in Bodies
    /\ r.pc = "commit" /\ t.mode = "rw" => Pending(r, t)

ExactInv == \A p \in Clients : Exact(req[p], txn[p])

-----------------------------------------------------------------------------
(* What an open transaction will write stays exact: its rows were read.      *)
LEMMA OpenStaysExact ==
  ASSUME SafeInv, NEW q \in Clients, Exact(req[q], txn[q]),
         req'[q] = req[q],
         txn'[q].mode = "rw" =>
            /\ txn'[q] = txn[q]
            /\ \A k \in txn[q].reads : uc'[k] = uc[k]
            /\ \A c \in Collections, i \in Ids :
                  <<c, i>> \in txn[q].rows => bso'[c][i] = bso[c][i]
  PROVE  Exact(req[q], txn[q])'
<1>. SUFFICES ASSUME req[q].pc = "commit", txn'[q].mode = "rw"
              PROVE  Pending(req[q], txn[q])'
  BY DEF Exact
<1>1. /\ txn'[q] = txn[q] /\ Pending(req[q], txn[q])
      /\ \A c \in Collections, i \in Ids :
            <<c, i>> \in txn[q].rows => bso'[c][i] = bso[c][i]
  BY DEF Exact
<1>2. CASE Untouched(txn[q])
  BY <1>1, <1>2 DEF Pending, Untouched
<1>3. CASE WritesBody(req[q], txn[q])
  <2>1. WritesBody(req[q], txn[q])'
    BY <1>1, <1>3 DEF WritesBody, Present
  <2>. QED
    BY <2>1 DEF Pending
<1>4. CASE RemovesBsos(req[q], txn[q])
  <2>1. RemovesBsos(req[q], txn[q])'
    BY <1>1, <1>4 DEF RemovesBsos
  <2>. QED
    BY <2>1 DEF Pending
<1>5. CASE RemovesExisting(req[q], txn[q])
  <2>1. uc'[req[q].coll] = uc[req[q].coll]
    BY <1>1, <1>5 DEF SafeInv, SafeRequest, Locked, RemovesExisting
  <2>2. RemovesExisting(req[q], txn[q])'
    BY <1>1, <1>5, <2>1 DEF RemovesExisting, RemovesCollection
  <2>. QED
    BY <2>2 DEF Pending
<1>6. CASE RemovesStorage(txn[q])
  BY <1>1, <1>6 DEF Pending, RemovesStorage
<1>. QED
  BY <1>1, <1>2, <1>3, <1>4, <1>5, <1>6 DEF Pending

(* A step of one request that leaves the tables alone. *)
LEMMA LocalStepExact ==
  ASSUME SafeInv, ExactInv, NEW p \in Clients, NEW r, NEW t, Exact(r, t),
         req' = [req EXCEPT ![p] = r], txn' = [txn EXCEPT ![p] = t],
         UNCHANGED <<uc, bso>>
  PROVE  ExactInv'
<1>1. \A q \in Clients :
         /\ req'[q] = IF q = p THEN r ELSE req[q]
         /\ txn'[q] = IF q = p THEN t ELSE txn[q]
  BY DEF SafeInv, TypeInv, TypeOK, StoreTypeOK
<1>2. Exact(req[p], txn[p])'
  BY <1>1 DEF Exact, Pending, Untouched, WritesBody, RemovesBsos, RemovesExisting,
              RemovesCollection, RemovesStorage, Present
<1>3. ASSUME NEW q \in Clients, q # p PROVE Exact(req[q], txn[q])'
  BY <1>1, <1>3, OpenStaysExact DEF ExactInv
<1>. QED
  BY <1>2, <1>3 DEF ExactInv

LEMMA CloseExact ==
  ASSUME SafeInv, ExactInv, NEW p \in Clients, Close(p)
  PROVE  ExactInv'
<1>1. Exact(Idle, NoTxn)
  BY DEF Exact, Idle, PostKinds
<1>2. req' = [req EXCEPT ![p] = Idle] /\ txn' = [txn EXCEPT ![p] = NoTxn]
      /\ UNCHANGED <<uc, bso>>
  BY DEF Close, Discard
<1>. QED
  BY <1>1, <1>2, LocalStepExact

(* The body of a request that writes BSOs is one clients send. *)
LEMMA StartExact ==
  ASSUME SafeInv, ExactInv, NEW p \in Clients, Start(p)
  PROVE  ExactInv'
<1>1. PICK kind \in Kinds, c \in Collections, pre \in Preconds :
         \E ids \in IdsOf(kind),
            body \in IF kind \in PostKinds THEN Bodies ELSE {NoBody},
            since \in IF pre = "none" THEN {0} ELSE 0..MaxTime :
            req' = [req EXCEPT ![p] = Arriving(kind, c, ids, body, pre, since)]
  BY ZenonT(60) DEF Start
<1>2. PICK ids, body, since :
         /\ body \in IF kind \in PostKinds THEN Bodies ELSE {NoBody}
         /\ req' = [req EXCEPT ![p] = Arriving(kind, c, ids, body, pre, since)]
  BY <1>1
<1>. DEFINE r == Arriving(kind, c, ids, body, pre, since)
<1>3. r.pc \in {"check", "lock"} /\ r.kind = kind /\ r.body = body
  BY IdleType DEF Arriving, Request
<1>4. req' = [req EXCEPT ![p] = r] /\ txn' = [txn EXCEPT ![p] = txn[p]]
      /\ UNCHANGED <<uc, bso>>
  BY <1>2 DEF Start, SafeInv, TypeInv, TypeOK, StoreTypeOK
<1>. HIDE DEF r
<1>5. Exact(r, txn[p])
  BY <1>2, <1>3 DEF Exact
<1>. QED
  BY <1>4, <1>5, LocalStepExact

(* A step that moves one request on and stages nothing for the commit. *)
LEMMA QuietStepExact ==
  ASSUME SafeInv, ExactInv, NEW p \in Clients, NEW r, NEW t,
         r.kind = req[p].kind, r.body = req[p].body,
         r.pc # "commit" \/ t.mode # "rw" \/ Untouched(t),
         req' = [req EXCEPT ![p] = r], txn' = [txn EXCEPT ![p] = t],
         UNCHANGED <<uc, bso>>
  PROVE  ExactInv'
<1>1. Exact(req[p], txn[p])
  BY DEF ExactInv
<1>2. Exact(r, t)
  BY <1>1 DEF Exact, Pending
<1>. QED
  BY <1>2, LocalStepExact

LEMMA LockExact ==
  ASSUME SafeInv, ExactInv, NEW p \in Clients,
         \/ LockForRead(p) \/ LockForWrite(p) \/ LockForWriteNew(p)
         \/ LockConflict(p) \/ ReadClock(p)
  PROVE  ExactInv'
<1>. DEFINE r1 == [req[p] EXCEPT !.pc = "check"]
            r2 == [req[p] EXCEPT !.pc = "check", !.ts = now,
                                 !.cached = uc[req[p].coll]]
            r3 == [req[p] EXCEPT !.pc = "timestamp"]
            r4 == [req[p] EXCEPT !.pc = "check", !.ts = now]
            t == Reading(BeginWrite, {req[p].coll}, {})
<1>1. req[p] \in Request
  BY RequestFields DEF SafeInv
<1>2. /\ r1.kind = req[p].kind /\ r1.body = req[p].body /\ r1.pc = "check"
      /\ r2.kind = req[p].kind /\ r2.body = req[p].body /\ r2.pc = "check"
      /\ r3.kind = req[p].kind /\ r3.body = req[p].body /\ r3.pc = "timestamp"
      /\ r4.kind = req[p].kind /\ r4.body = req[p].body /\ r4.pc = "check"
  BY <1>1 DEF Request
<1>3. CASE LockForRead(p)
  <2>1. req' = [req EXCEPT ![p] = r1] /\ txn' = [txn EXCEPT ![p] = BeginRead]
        /\ UNCHANGED <<uc, bso>>
    BY <1>3 DEF LockForRead, Goto, SetTxn
  <2>. HIDE DEF r1
  <2>. QED
    BY <1>2, <2>1, QuietStepExact
<1>4. CASE LockForWrite(p)
  <2>1. req' = [req EXCEPT ![p] = r2] /\ txn' = [txn EXCEPT ![p] = t]
        /\ UNCHANGED <<uc, bso>>
    BY <1>4 DEF LockForWrite, SetTxn
  <2>. HIDE DEF r2, t
  <2>. QED
    BY <1>2, <2>1, QuietStepExact
<1>5. CASE LockForWriteNew(p)
  <2>1. req' = [req EXCEPT ![p] = r3] /\ txn' = [txn EXCEPT ![p] = t]
        /\ UNCHANGED <<uc, bso>>
    BY <1>5 DEF LockForWriteNew, Goto, SetTxn
  <2>. HIDE DEF r3, t
  <2>. QED
    BY <1>2, <2>1, QuietStepExact
<1>6. CASE ReadClock(p)
  <2>1. req' = [req EXCEPT ![p] = r4] /\ txn' = [txn EXCEPT ![p] = txn[p]]
        /\ UNCHANGED <<uc, bso>>
    BY <1>6 DEF ReadClock, SafeInv, TypeInv, TypeOK, StoreTypeOK
  <2>. HIDE DEF r4
  <2>. QED
    BY <1>2, <2>1, QuietStepExact
<1>. QED
  BY <1>3, <1>4, <1>5, <1>6, CloseExact DEF LockConflict

(* A failed precondition has nothing to commit. *)
LEMMA CheckExact ==
  ASSUME SafeInv, ExactInv, NEW p \in Clients, CheckPrecondition(p)
  PROVE  ExactInv'
<1>. DEFINE t == AfterResourceQuery(p)
            rts == ResourceTimestamp(p, t)
            r == Checked(req[p], rts, PreconditionStatus(req[p], rts))
<1>1. /\ txn[p] \in Txn /\ req[p] \in Request /\ req[p].pc = "check"
      /\ SafeRequest(req[p], txn[p])
  BY RequestFields DEF SafeInv, CheckPrecondition
<1>2. r.kind = req[p].kind /\ r.body = req[p].body
  BY <1>1 DEF Checked, Request
<1>3. t.mode # "rw" \/ Untouched(t)
  <2>1. CASE req[p].kind \in StorageKinds
    BY <2>1, NoTxnType, EmptyUntouched, ReadingUntouched
    DEF AfterResourceQuery, BeginWrite
  <2>2. CASE req[p].kind \notin StorageKinds
    <3>1. t.mode = txn[p].mode /\ (Untouched(txn[p]) => Untouched(t))
      BY <1>1, <2>2, ReadingFields, ReadingUntouched DEF AfterResourceQuery
    <3>. HIDE DEF t
    <3>. QED
      BY <1>1, <3>1 DEF SafeRequest
  <2>. QED
    BY <2>1, <2>2
<1>4. req' = [req EXCEPT ![p] = r] /\ txn' = [txn EXCEPT ![p] = t]
      /\ UNCHANGED <<uc, bso>>
  BY DEF CheckPrecondition, SetTxn
<1>. HIDE DEF r, t
<1>. QED
  BY <1>2, <1>3, <1>4, QuietStepExact

(* A handler's answer. *)
LEMMA RespondExact ==
  ASSUME SafeInv, ExactInv, NEW p \in Clients, NEW t, NEW status, NEW lm,
         SetTxn(p, t), Respond(p, status, lm),
         t.mode = "rw" => Pending(req[p], t)
  PROVE  ExactInv'
<1>. DEFINE r == [req[p] EXCEPT !.pc = "commit", !.status = status, !.lm = lm]
<1>1. /\ r.kind = req[p].kind /\ r.coll = req[p].coll /\ r.body = req[p].body
      /\ r.ts = req[p].ts /\ r.ids = req[p].ids
  BY RequestFields DEF SafeInv, Request
<1>2. req' = [req EXCEPT ![p] = r] /\ txn' = [txn EXCEPT ![p] = t]
      /\ UNCHANGED <<uc, bso>>
  BY DEF Respond, SetTxn
<1>3. Exact(req[p], txn[p])
  BY DEF ExactInv
<1>. HIDE DEF r
<1>4. Exact(r, t)
  BY <1>1, <1>3 DEF Exact, Pending, WritesBody, RemovesBsos, RemovesExisting
<1>. QED
  BY <1>2, <1>4, LocalStepExact

(* post_bsos: one mutation per BSO of the request, an UPDATE when it is there. *)
LEMMA PostBsosExact ==
  ASSUME SafeInv, ExactInv, NEW p \in Clients, PostBsos(p)
  PROVE  ExactInv'
<1>. DEFINE c == req[p].coll
            ids == req[p].ids
            ts == req[p].ts
            body == req[p].body
            u == Touched(txn[p], c, ts)
            v == Reading(u, {}, {c} \X ids)
            t == Buffering(v, c, ids, body, ts)
<1>1. /\ txn[p] \in Txn /\ SafeRequest(req[p], txn[p])
      /\ req[p].pc = "handle" /\ req[p].kind \in PostKinds
      /\ c \in Collections /\ c \in CollKeys /\ ids \in SUBSET Ids
      /\ ts \in 1..MaxTime /\ ts \in 0..MaxTime /\ body \in Bodies \cup {NoBody}
  <2>1. req[p].pc = "handle" /\ req[p].kind \in PostKinds
    BY DEF PostBsos, In
  <2>2. ts \in 1..MaxTime
    BY <2>1, RequestFields DEF SafeInv, WellFormedRequest, WriteKinds
  <2>. QED
    BY <2>1, <2>2, RequestFields DEF SafeInv, Request
<1>2. /\ u \in Txn /\ u.mode = txn[p].mode
      /\ u.wc = [txn[p].wc EXCEPT ![c] = ts]
      /\ u.wb = txn[p].wb /\ u.mut = txn[p].mut
  BY <1>1, TouchedType
<1>. HIDE DEF u
<1>3. /\ v \in Txn /\ v.mode = u.mode /\ v.rows = u.rows \cup ({c} \X ids)
      /\ v.wc = u.wc /\ v.wb = u.wb /\ v.mut = u.mut
  <2>1. {} \in SUBSET CollKeys /\ {c} \X ids \in SUBSET (Collections \X Ids)
    BY <1>1
  <2>. QED
    BY <1>2, <2>1, ReadingType, ReadingFields
<1>. HIDE DEF v
<1>4. SetTxn(p, t) /\ Respond(p, 200, ts)
  BY DEF PostBsos, u, v
<1>5. /\ t.mode = v.mode /\ t.rows = v.rows /\ t.wc = v.wc /\ t.wb = v.wb
      /\ \A d \in Collections, i \in Ids :
            t.mut[d][i] = IF d # c \/ i \notin ids THEN v.mut[d][i]
                          ELSE IF Present(BsoView(v, c, i))
                               THEN UpdateRow(body, ts) ELSE InsertRow(body, ts)
  <2>1. /\ v \in Txn /\ c \in Collections /\ ids \in SUBSET Ids
        /\ ts \in 1..MaxTime /\ body \in Bodies \cup {NoBody}
    BY <1>1, <1>3
  <2>1a. body \in Columns
    BY <2>1, BodiesAreColumns
  <2>. HIDE DEF c, ids, ts, body
  <2>2. /\ t.mode = v.mode /\ t.rows = v.rows /\ t.wc = v.wc /\ t.wb = v.wb
    BY <2>1, <2>1a, BufferingKeeps
  <2>3. \A d \in Collections, i \in Ids :
            t.mut[d][i] = IF d # c \/ i \notin ids THEN v.mut[d][i]
                          ELSE IF Present(BsoView(v, c, i))
                               THEN UpdateRow(body, ts) ELSE InsertRow(body, ts)
    BY <2>1, <2>1a, BufferingType
  <2>. QED
    BY <2>2, <2>3
<1>. HIDE DEF t
<1>6. ASSUME t.mode = "rw" PROVE WritesBody(req[p], t)
  <2>1. Untouched(txn[p])
    BY <1>1, <1>2, <1>3, <1>5, <1>6 DEF SafeRequest
  <2>2. /\ txn[p].wc \in [CollKeys -> {NotSet}]
        /\ \A d \in Collections, i \in Ids :
              txn[p].wb[d][i] = NotStaged /\ txn[p].mut[d][i] = NoMutation
    BY <2>1, UntouchedFields
  <2>3. \A k \in CollKeys : t.wc[k] = IF k = c THEN ts ELSE NotSet
    BY <1>2, <1>3, <1>5, <2>2
  <2>4. \A d \in Collections, i \in Ids : t.wb[d][i] = NotStaged
    BY <1>2, <1>3, <1>5, <2>2
  <2>5. ASSUME NEW d \in Collections, NEW i \in Ids, d # c \/ i \notin ids
        PROVE  t.mut[d][i] = NoMutation
    BY <1>2, <1>3, <1>5, <2>2, <2>5
  <2>6. ASSUME NEW i \in ids
        PROVE  /\ <<c, i>> \in t.rows
               /\ t.mut[c][i] = IF Present(bso[c][i]) THEN UpdateRow(body, ts)
                                ELSE InsertRow(body, ts)
    <3>1. i \in Ids /\ <<c, i>> \in t.rows
      BY <1>1, <1>3, <1>5, <2>6
    <3>2. BsoView(v, c, i) = bso[c][i]
      BY <1>1, <1>2, <1>3, <2>2, <3>1 DEF BsoView, NotStaged
    <3>3. t.mut[c][i] = IF Present(BsoView(v, c, i)) THEN UpdateRow(body, ts)
                        ELSE InsertRow(body, ts)
      <4>. HIDE DEF body, ts
      <4>. QED
        BY <1>1, <1>5, <2>6, <3>1
    <3>. QED
      BY <3>1, <3>2, <3>3
  <2>. QED
    BY <1>1, <2>3, <2>4, <2>5, <2>6 DEF WritesBody
<1>. QED
  BY <1>4, <1>6, RespondExact DEF Pending

(* delete_bso and delete_bsos: the rows named, and the touched collection. *)
LEMMA DeleteBsosExact ==
  ASSUME SafeInv, ExactInv, NEW p \in Clients, DeleteBso(p) \/ DeleteBsos(p)
  PROVE  ExactInv'
<1>. DEFINE c == req[p].coll
            ids == req[p].ids
            ts == req[p].ts
<1>1. /\ txn[p] \in Txn /\ SafeRequest(req[p], txn[p])
      /\ req[p].pc = "handle" /\ req[p].kind \in WriteKinds
      /\ c \in Collections /\ ids \in SUBSET Ids /\ ts \in 0..MaxTime
  BY RequestFields
  DEF SafeInv, Request, DeleteBso, DeleteBsos, In, WriteKinds
<1>2. ASSUME NEW t, t.mode = "rw" => txn[p].mode = "rw",
             t.wc = [txn[p].wc EXCEPT ![c] = ts], t.mut = txn[p].mut,
             \A d \in Collections, i \in Ids :
                t.wb[d][i] = IF d = c /\ i \in ids THEN NoRow ELSE txn[p].wb[d][i]
      PROVE  t.mode = "rw" => Pending(req[p], t)
  <2>. SUFFICES ASSUME t.mode = "rw" PROVE RemovesBsos(req[p], t)
    BY DEF Pending
  <2>1. Untouched(txn[p])
    BY <1>1, <1>2 DEF SafeRequest
  <2>2. \A k \in CollKeys : t.wc[k] = IF k = c THEN ts ELSE NotSet
    BY <1>2, <2>1, UntouchedFields
  <2>3. \A d \in Collections, i \in Ids :
           /\ t.wb[d][i] = IF d = c /\ i \in ids THEN NoRow ELSE NotStaged
           /\ t.mut[d][i] = NoMutation
    BY <1>2, <2>1, UntouchedFields
  <2>. QED
    BY <1>1, <2>2, <2>3 DEF RemovesBsos
<1>3. CASE DeleteBso(p)
  <2>. DEFINE u == Touched(txn[p], c, ts)
              t == DeletedRows(u, c, ids)
  <2>1. /\ u \in Txn /\ u.mode = txn[p].mode
        /\ u.wc = [txn[p].wc EXCEPT ![c] = ts]
        /\ u.wb = txn[p].wb /\ u.mut = txn[p].mut
    BY <1>1, TouchedType
  <2>2. (SetTxn(p, t) /\ Respond(p, 200, req[p].rts)) \/ Close(p)
    BY <1>3 DEF DeleteBso
  <2>. HIDE DEF u
  <2>3. /\ t.mode = u.mode /\ t.wc = u.wc /\ t.mut = u.mut
        /\ \A d \in Collections, i \in Ids :
              t.wb[d][i] = IF d = c /\ i \in ids THEN NoRow ELSE u.wb[d][i]
    BY <1>1, <2>1, DeletedRowsType
  <2>. HIDE DEF t
  <2>4. t.mode = "rw" => Pending(req[p], t)
    <3>1. /\ t.mode = txn[p].mode
          /\ t.wc = [txn[p].wc EXCEPT ![c] = ts] /\ t.mut = txn[p].mut
          /\ \A d \in Collections, i \in Ids :
                t.wb[d][i] = IF d = c /\ i \in ids THEN NoRow ELSE txn[p].wb[d][i]
      BY <2>1, <2>3
    <3>. HIDE DEF c, ids, ts
    <3>. QED
      BY <1>2, <3>1
  <2>. QED
    BY <2>2, <2>4, RespondExact, CloseExact
<1>4. CASE DeleteBsos(p)
  <2>. DEFINE u == DeletedRows(txn[p], c, ids)
              t == Touched(u, c, ts)
  <2>1. /\ u \in Txn /\ u.mode = txn[p].mode
        /\ u.wc = txn[p].wc /\ u.mut = txn[p].mut
        /\ \A d \in Collections, i \in Ids :
              u.wb[d][i] = IF d = c /\ i \in ids THEN NoRow ELSE txn[p].wb[d][i]
    BY <1>1, DeletedRowsType
  <2>2. SetTxn(p, t) /\ Respond(p, 200, ts)
    BY <1>4 DEF DeleteBsos
  <2>. HIDE DEF u
  <2>3. /\ t.mode = u.mode /\ t.wc = [u.wc EXCEPT ![c] = ts]
        /\ t.wb = u.wb /\ t.mut = u.mut
    BY <1>1, <2>1, TouchedType
  <2>. HIDE DEF t
  <2>4. t.mode = "rw" => Pending(req[p], t)
    <3>1. /\ t.mode = txn[p].mode
          /\ t.wc = [txn[p].wc EXCEPT ![c] = ts] /\ t.mut = txn[p].mut
          /\ \A d \in Collections, i \in Ids :
                t.wb[d][i] = IF d = c /\ i \in ids THEN NoRow ELSE txn[p].wb[d][i]
      BY <2>1, <2>3
    <3>. HIDE DEF c, ids, ts
    <3>. QED
      BY <1>2, <3>1
  <2>. QED
    BY <2>2, <2>4, RespondExact
<1>. QED
  BY <1>3, <1>4

(* DELETE of a collection or of the storage. *)
LEMMA HandleDeleteExact ==
  ASSUME SafeInv, ExactInv, NEW p \in Clients, DeleteCollection(p) \/ DeleteAll(p)
  PROVE  ExactInv'
<1>. DEFINE c == req[p].coll
            ts == req[p].ts
<1>1. /\ txn[p] \in Txn /\ SafeRequest(req[p], txn[p]) /\ req[p].pc = "handle"
      /\ c \in Collections /\ c \in CollKeys /\ ts \in 0..MaxTime
  BY RequestFields DEF SafeInv, Request, DeleteCollection, DeleteAll, In
<1>2. CASE DeleteCollection(p)
  <2>. DEFINE u == Reading(txn[p], {c, Tombstone}, {})
              v == DeletedCollection(u, c, ts)
              w == Reading(u, CollKeys, {})
  <2>1. req[p].kind \in WriteKinds
    BY <1>2 DEF DeleteCollection, In, WriteKinds
  <2>2. /\ Respond(p, 200, req[p].rts)
        /\ SetTxn(p, IF CollView(u, c) > PRETOUCH THEN v ELSE w)
    BY <1>2 DEF DeleteCollection
  <2>3. /\ u \in Txn /\ u.mode = txn[p].mode
        /\ u.wc = txn[p].wc /\ u.wb = txn[p].wb /\ u.mut = txn[p].mut
    <3>1. {c, Tombstone} \in SUBSET CollKeys /\ {} \in SUBSET (Collections \X Ids)
      BY <1>1 DEF CollKeys
    <3>. QED
      BY <1>1, <3>1, ReadingType, ReadingFields
  <2>4. u.mode = "rw" => Untouched(u)
    BY <1>1, <2>3 DEF SafeRequest, Untouched
  <2>. HIDE DEF u
  <2>5. w.mode = u.mode /\ (Untouched(u) => Untouched(w))
    BY <2>3, ReadingFields, ReadingUntouched
  <2>6. /\ v.mode = u.mode
        /\ v.wc = [u.wc EXCEPT ![c] = Absent, ![Tombstone] = ts]
        /\ v.mut = u.mut
        /\ \A d \in Collections, i \in Ids :
              v.wb[d][i] = IF d = c THEN NoRow ELSE u.wb[d][i]
    BY <1>1, <2>3, DeletedCollectionType, SMTT(30)
  <2>. HIDE DEF v, w
  <2>7. ASSUME Untouched(u), CollView(u, c) > PRETOUCH
        PROVE  RemovesExisting(req[p], v)
    <3>1. \A k \in CollKeys : v.wc[k] = IF k = c THEN Absent
                                        ELSE IF k = Tombstone THEN ts ELSE NotSet
      BY <1>1, <2>6, <2>7, UntouchedFields, CollectionsAssumption DEF CollKeys
    <3>2. \A d \in Collections, i \in Ids :
             v.wb[d][i] = IF d = c THEN NoRow ELSE NotStaged
      BY <2>6, <2>7, UntouchedFields
    <3>3. uc[c] # Absent
      <4>1. CollView(u, c) = uc[c]
        BY <1>1, <2>7, UntouchedFields DEF CollView
      <4>. QED
        BY <2>7, <4>1
    <3>. QED
      BY <2>1, <2>6, <2>7, <3>1, <3>2, <3>3
      DEF RemovesExisting, RemovesCollection, Untouched
  <2>8. CASE CollView(u, c) > PRETOUCH
    <3>1. SetTxn(p, v)
      BY <2>2, <2>8
    <3>2. v.mode = "rw" => Pending(req[p], v)
      BY <2>4, <2>6, <2>7, <2>8 DEF Pending
    <3>. QED
      BY <2>2, <3>1, <3>2, RespondExact
  <2>9. CASE ~(CollView(u, c) > PRETOUCH)
    <3>1. SetTxn(p, w)
      BY <2>2, <2>9
    <3>2. w.mode = "rw" => Pending(req[p], w)
      BY <2>4, <2>5 DEF Pending
    <3>. QED
      BY <2>2, <3>1, <3>2, RespondExact
  <2>. QED
    BY <2>8, <2>9
<1>3. CASE DeleteAll(p)
  <2>1. SetTxn(p, DeletedStorage) /\ Respond(p, 200, req[p].rts)
    BY <1>3 DEF DeleteAll
  <2>2. Pending(req[p], DeletedStorage)
    BY DeletedStorageType DEF Pending, RemovesStorage
  <2>. QED
    BY <2>1, <2>2, RespondExact
<1>. QED
  BY <1>2, <1>3

LEMMA HandleReadExact ==
  ASSUME SafeInv, ExactInv, NEW p \in Clients,
         GetBso(p) \/ GetBsos(p) \/ FinishGetCollection(p) \/ GetInfo(p)
  PROVE  ExactInv'
<1>1. /\ txn[p] \in Txn /\ req[p] \in Request
      /\ txn[p].mode = "rw" => Untouched(txn[p])
  BY RequestFields
  DEF SafeInv, SafeRequest, GetBso, GetBsos, FinishGetCollection, GetInfo, In
<1>2. txn' = txn => txn' = [txn EXCEPT ![p] = txn[p]]
  BY DEF SafeInv, TypeInv, TypeOK, StoreTypeOK
<1>3. CASE GetBso(p) \/ GetBsos(p)
  <2>1. UNCHANGED <<uc, bso, txn>>
    BY <1>3 DEF GetBso, GetBsos
  <2>. DEFINE got == Found(txn[p], req[p].coll, req[p].ids)
              r1 == [req[p] EXCEPT !.pc = "commit", !.lm = req[p].rts,
                       !.status = IF got = NothingRead THEN 404 ELSE 200,
                       !.items = got]
              r2 == [req[p] EXCEPT !.pc = "finish",
                       !.items = Found(txn[p], req[p].coll, Ids)]
  <2>2. /\ r1.kind = req[p].kind /\ r1.body = req[p].body
        /\ r2.kind = req[p].kind /\ r2.body = req[p].body
    BY <1>1 DEF Request
  <2>3. req' = [req EXCEPT ![p] = r1] \/ req' = [req EXCEPT ![p] = r2]
    BY <1>3 DEF GetBso, GetBsos
  <2>. HIDE DEF r1, r2
  <2>. QED
    BY <1>1, <1>2, <2>1, <2>2, <2>3, QuietStepExact
<1>4. CASE FinishGetCollection(p)
  <2>1. SetTxn(p, txn[p]) /\ Respond(p, 200, CollTimestamp(txn[p], req[p].coll))
    BY <1>2, <1>4 DEF FinishGetCollection, SetTxn
  <2>. QED
    BY <1>1, <2>1, RespondExact DEF Pending
<1>5. CASE GetInfo(p)
  <2>1. SetTxn(p, Reading(txn[p], CollKeys, {})) /\ Respond(p, 200, req[p].rts)
    BY <1>5 DEF GetInfo
  <2>2. /\ Reading(txn[p], CollKeys, {}).mode = txn[p].mode
        /\ Untouched(txn[p]) => Untouched(Reading(txn[p], CollKeys, {}))
    BY <1>1, ReadingFields, ReadingUntouched
  <2>. QED
    BY <1>1, <2>1, <2>2, RespondExact DEF Pending
<1>. QED
  BY <1>3, <1>4, <1>5

(* A commit, an abort, the clock and the purge of a row. *)
LEMMA CommitExact ==
  ASSUME SafeInv, ExactInv, NEW p \in Clients,
         CommitWrite(p), MutationsApply(txn[p])
  PROVE  ExactInv'
<1>1. Commit(p) /\ req' = [req EXCEPT ![p] = Idle]
  BY DEF CommitWrite
<1>2. Exact(req[p], txn[p])'
  <2>1. req'[p] = Idle
    BY <1>1 DEF SafeInv, TypeInv, TypeOK
  <2>. QED
    BY <2>1 DEF Exact, Idle, PostKinds
<1>3. ASSUME NEW q \in Clients, q # p PROVE Exact(req[q], txn[q])'
  <2>1. req'[q] = req[q] /\ Exact(req[q], txn[q])
    BY <1>1, <1>3 DEF SafeInv, TypeInv, TypeOK, ExactInv
  <2>. QED
    BY <1>1, <1>3, <2>1, CommitKeeps, OpenStaysExact
<1>. QED
  BY <1>2, <1>3 DEF ExactInv

LEMMA EnvironmentExact ==
  ASSUME SafeInv, ExactInv, Environment
  PROVE  ExactInv'
<1>1. req' = req /\ txn \in [Clients -> Txn]
      /\ \A q \in Clients : Exact(req[q], txn[q])
  BY DEF Environment, SafeInv, TypeInv, TypeOK, StoreTypeOK, ExactInv
<1>2. CASE Tick
  <2>1. UNCHANGED <<uc, bso, txn>>
    BY <1>2 DEF Tick
  <2>. QED
    BY <1>1, <2>1, OpenStaysExact DEF ExactInv
<1>3. ASSUME NEW p \in Clients, SpannerAbort(p) PROVE ExactInv'
  <2>1. txn' = [txn EXCEPT ![p] = DeadTxn] /\ UNCHANGED <<uc, bso>>
    BY <1>3 DEF SpannerAbort
  <2>2. \A q \in Clients : txn'[q].mode = "rw" => txn'[q] = txn[q]
    BY <1>1, <2>1 DEF DeadTxn, EmptyTxn
  <2>. QED
    BY <1>1, <2>1, <2>2, OpenStaysExact DEF ExactInv
<1>4. ASSUME NEW c \in Collections, NEW i \in Ids, PurgeRow(c, i) PROVE ExactInv'
  <2>1. /\ uc' = uc /\ bso' = [bso EXCEPT ![c][i] = NoRow]
        /\ \A q \in Clients :
              txn'[q] = IF Overwritten(txn[q], {}, {<<c, i>>}) THEN DeadTxn
                        ELSE txn[q]
    BY <1>4 DEF PurgeRow
  <2>2. \A d \in Collections, j \in Ids :
           bso'[d][j] = IF d = c /\ j = i THEN NoRow ELSE bso[d][j]
    BY <2>1 DEF SafeInv, TypeInv, TypeOK, StoreTypeOK
  <2>3. ASSUME NEW q \in Clients PROVE Exact(req[q], txn[q])'
    <3>1. ASSUME txn'[q].mode = "rw"
          PROVE  txn'[q] = txn[q] /\ <<c, i>> \notin txn[q].rows
      BY <2>1, <3>1 DEF Overwritten, DeadTxn, EmptyTxn
    <3>2. \A d \in Collections, j \in Ids :
             txn'[q].mode = "rw" /\ <<d, j>> \in txn[q].rows
             => bso'[d][j] = bso[d][j]
      BY <2>2, <3>1
    <3>. QED
      BY <1>1, <2>1, <3>1, <3>2, OpenStaysExact
  <2>. QED
    BY <2>3 DEF ExactInv
<1>. QED
  BY <1>2, <1>3, <1>4 DEF Environment

LEMMA InitExact == Init => ExactInv
<1>. SUFFICES ASSUME Init, NEW p \in Clients PROVE Exact(req[p], txn[p])
  BY DEF ExactInv
<1>1. req[p] = Idle
  BY DEF Init
<1>. QED
  BY <1>1 DEF Exact, Idle, PostKinds

LEMMA NextExact == SafeInv /\ ExactInv /\ [Next]_vars => ExactInv'
<1>. SUFFICES ASSUME SafeInv, ExactInv, [Next]_vars PROVE ExactInv'
  OBVIOUS
<1>1. ASSUME NEW p \in Clients, Begin(p) PROVE ExactInv'
  BY <1>1, LockExact, CheckExact DEF Begin
<1>2. ASSUME NEW p \in Clients, Handle(p) PROVE ExactInv'
  BY <1>2, PostBsosExact, DeleteBsosExact, HandleDeleteExact, HandleReadExact
  DEF Handle
<1>3. ASSUME NEW p \in Clients, End(p) \/ GiveUp(p) PROVE ExactInv'
  BY <1>3, CloseExact, CommitExact
  DEF End, CommitRead, CommitWrite, Aborted, GiveUp
<1>4. CASE UNCHANGED vars
  BY <1>4, OpenStaysExact DEF vars, ExactInv
<1>. QED
  BY <1>1, <1>2, <1>3, <1>4, StartExact, EnvironmentExact DEF Next, Serve

-----------------------------------------------------------------------------
(* Every step is one of SyncStore's or a stutter. *)

(* What a buffered mutation makes of its row is what SyncStore writes.       *)
LEMMA MutationWritesBody ==
  ASSUME NEW body \in Bodies, NEW ts \in 1..MaxTime, NEW row \in Row \cup {NoRow}
  PROVE  Mutated(IF Present(row) THEN UpdateRow(body, ts) ELSE InsertRow(body, ts),
                 row) = Store!WrittenOver(row, body, ts)
<1>1. body.val \in Vals \cup {NotSet} /\ body.ttl \in Nat \cup {NotSet}
  BY BodiesAssumption
<1>2. Store!Nothing = NoRow /\ Store!NotGiven = NotSet
  BY DEF Store!Nothing, Store!NoModified, Store!NotGiven, NoRow
<1>3. CASE row \in Row
  <2>1. Present(row) /\ row # NoRow
    BY <1>3 DEF Present, Row, NoRow
  <2>2. Mutated(UpdateRow(body, ts), row) =
          [mod |-> IF body.val = NotSet THEN row.mod ELSE ts,
           exp |-> IF body.ttl = NotSet THEN row.exp ELSE ts + body.ttl,
           val |-> IF body.val = NotSet THEN row.val ELSE body.val]
    BY <1>1 DEF Mutated, UpdateRow
  <2>. QED
    BY <1>2, <2>1, <2>2 DEF Store!WrittenOver
<1>4. CASE row = NoRow
  <2>1. ~Present(row)
    BY <1>4 DEF Present, NoRow
  <2>2. Mutated(InsertRow(body, ts), row) =
          [mod |-> ts, exp |-> Expiry(ts, body.ttl),
           val |-> IF body.val = NotSet THEN 0 ELSE body.val]
    BY DEF Mutated, InsertRow
  <2>3. Expiry(ts, body.ttl) = IF body.ttl = NotSet THEN ts + MaxTime + 1
                               ELSE ts + body.ttl
    BY MaxTimeAssumption DEF Expiry, DefaultTtl
  <2>. QED
    BY <1>2, <1>4, <2>1, <2>2, <2>3 DEF Store!WrittenOver
<1>. QED
  BY <1>3, <1>4

(* A commit of a PUT or POST writes its body over the rows of its BSOs. *)
LEMMA BodyWritten ==
  ASSUME SafeInv, ExactInv, NEW p \in Clients, Commit(p),
         WritesBody(req[p], txn[p]), req[p].ts \in 1..MaxTime,
         NEW d \in Collections, NEW i \in Ids
  PROVE  bso'[d][i] = IF d = req[p].coll /\ i \in req[p].ids
                      THEN Store!Written(d, i, req[p].body, req[p].ts)
                      ELSE bso[d][i]
<1>. DEFINE r == req[p]
            t == txn[p]
<1>1. /\ bso'[d][i] = Mutated(t.mut[d][i], BsoView(t, d, i))
      /\ BsoView(t, d, i) = bso[d][i] /\ bso[d][i] \in Row \cup {NoRow}
  <2>1. bso'[d][i] = Mutated(t.mut[d][i], BsoView(t, d, i))
    BY DEF Commit, RowAfter
  <2>2. BsoView(t, d, i) = bso[d][i]
    <3>1. t.wb[d][i] = NotStaged
      BY DEF WritesBody
    <3>. QED
      BY <3>1 DEF BsoView, NotStaged
  <2>. QED
    BY <2>1, <2>2 DEF SafeInv, TypeInv, TypeOK, StoreTypeOK
<1>2. r.body \in Bodies
  BY DEF WritesBody, ExactInv, Exact
<1>3. CASE d = r.coll /\ i \in r.ids
  <2>1. t.mut[d][i] = IF Present(bso[d][i]) THEN UpdateRow(r.body, r.ts)
                      ELSE InsertRow(r.body, r.ts)
    BY <1>3 DEF WritesBody
  <2>2. bso'[d][i] = Store!WrittenOver(bso[d][i], r.body, r.ts)
    BY <1>1, <1>2, <2>1, MutationWritesBody
  <2>. QED
    BY <1>3, <2>2 DEF Store!Written
<1>4. CASE ~(d = r.coll /\ i \in r.ids)
  <2>1. t.mut[d][i] = NoMutation
    BY <1>4 DEF WritesBody
  <2>. QED
    BY <1>1, <1>4, <2>1, MutatedFields DEF NoMutation
<1>. QED
  BY <1>3, <1>4

(* A commit is an abstract write, removal or deletion (commit_async). *)
LEMMA CommitIsAtomic ==
  ASSUME SafeInv, ExactInv, NEW p \in Clients,
         CommitWrite(p), MutationsApply(txn[p])
  PROVE  Store!Next \/ UNCHANGED <<now, uc, bso>>
<1>. DEFINE r == req[p]
            t == txn[p]
            c == req[p].coll
            ts == req[p].ts
            ids == req[p].ids
            Rows == Row \cup {NoRow}
<1>1. /\ Commit(p) /\ r.pc = "commit" /\ t.mode = "rw" /\ now' = now
      /\ Pending(r, t)
  BY DEF CommitWrite, Commit, ExactInv, Exact
<1>2. /\ c \in Collections /\ c \in CollKeys /\ c # Tombstone
      /\ ids \in SUBSET Ids /\ Tombstone \in CollKeys
      /\ uc \in [CollKeys -> Absent..MaxTime]
      /\ bso \in [Collections -> [Ids -> Rows]]
      /\ bso' \in [Collections -> [Ids -> Rows]]
  <2>1. TypeInv'
    BY EndType DEF SafeInv, End
  <2>. QED
    BY <2>1, RequestFields, CollectionsAssumption
    DEF SafeInv, TypeInv, TypeOK, StoreTypeOK
<1>3. r.kind \in WriteKinds => ts \in 1..MaxTime /\ Store!Timestamp(c, ts)
  BY <1>1, <1>2, CommitReady DEF Store!Timestamp
<1>4. /\ uc' = [k \in CollKeys |-> CollView(t, k)]
      /\ \A d \in Collections, i \in Ids :
            bso'[d][i] = Mutated(t.mut[d][i], BsoView(t, d, i))
  BY <1>1 DEF Commit, CollAfter, RowAfter
<1>5. Store!Nothing = NoRow /\ Store!NoModified = Absent
  BY DEF Store!Nothing, Store!NoModified, NoRow
<1>6. CASE Untouched(t)
  BY <1>1, <1>6, CommitUntouched DEF SafeInv, TypeInv
<1>. HIDE DEF r, t, c, ts, ids, Rows
<1>7. ASSUME \A k \in CollKeys : t.wc[k] = IF k = c THEN ts ELSE NotSet,
             ts \in 1..MaxTime
      PROVE  uc' = [uc EXCEPT ![c] = ts]
  <2>1. \A k \in CollKeys : CollView(t, k) = IF k = c THEN ts ELSE uc[k]
    BY <1>7 DEF CollView
  <2>. QED
    BY <1>2, <1>4, <2>1
<1>8. ASSUME NEW d \in Collections, NEW i \in Ids,
             t.wb[d][i] = NotStaged, t.mut[d][i] = NoMutation
      PROVE  bso'[d][i] = bso[d][i]
  BY <1>4, <1>8, StagedRow, MutatedFields DEF NoMutation
<1>9. ASSUME NEW d \in Collections, NEW i \in Ids,
             t.wb[d][i] = NoRow, t.mut[d][i] = NoMutation
      PROVE  bso'[d][i] = NoRow
  BY <1>4, <1>9, StagedRow, MutatedFields DEF NoMutation
<1>10. CASE WritesBody(r, t)
  <2>. DEFINE g(i) == IF i \in ids THEN Store!Written(c, i, r.body, ts)
                      ELSE bso[c][i]
  <2>1. r.body \in Bodies /\ ts \in 1..MaxTime /\ Store!Timestamp(c, ts)
    BY <1>3, <1>10 DEF WritesBody, ExactInv, Exact, r, WriteKinds
  <2>2. uc' = [uc EXCEPT ![c] = ts]
    BY <1>7, <1>10, <2>1 DEF WritesBody, r, c, ts
  <2>3. ASSUME NEW d \in Collections, NEW i \in Ids
        PROVE  bso'[d][i] = IF d = c THEN g(i) ELSE bso[d][i]
    BY <1>1, <1>10, <2>1, BodyWritten DEF r, t, c, ts, ids
  <2>4. bso' = [bso EXCEPT ![c] = [i \in Ids |-> g(i)]]
    <3>. HIDE DEF g
    <3>. QED
      BY <1>2, <2>3, RowsReplaced
  <2>5. Store!Write(c, ids, r.body, ts)
    BY <1>1, <1>2, <2>1, <2>2, <2>4 DEF Store!Write
  <2>. QED
    BY <1>2, <2>1, <2>5 DEF Store!Next
<1>11. CASE RemovesBsos(r, t)
  <2>. DEFINE g(i) == IF i \in ids THEN Store!Nothing ELSE bso[c][i]
  <2>1. ts \in 1..MaxTime /\ Store!Timestamp(c, ts)
    BY <1>3, <1>11 DEF RemovesBsos
  <2>2. uc' = [uc EXCEPT ![c] = ts]
    BY <1>7, <1>11, <2>1 DEF RemovesBsos, r, c, ts
  <2>3. ASSUME NEW d \in Collections, NEW i \in Ids
        PROVE  bso'[d][i] = IF d = c THEN g(i) ELSE bso[d][i]
    <3>1. /\ t.wb[d][i] = IF d = c /\ i \in ids THEN NoRow ELSE NotStaged
          /\ t.mut[d][i] = NoMutation
      BY <1>11 DEF RemovesBsos, r, c, ids
    <3>. QED
      BY <1>5, <1>8, <1>9, <3>1
  <2>4. bso' = [bso EXCEPT ![c] = [i \in Ids |-> g(i)]]
    <3>. HIDE DEF g
    <3>. QED
      BY <1>2, <2>3, RowsReplaced
  <2>5. Store!Remove(c, ids, ts)
    BY <1>1, <1>2, <2>1, <2>2, <2>4 DEF Store!Remove
  <2>. QED
    BY <1>2, <2>1, <2>5 DEF Store!Next
<1>12. CASE RemovesExisting(r, t)
  <2>1. ts \in 1..MaxTime /\ Store!Timestamp(c, ts) /\ uc[c] # Absent
    BY <1>3, <1>12 DEF RemovesExisting, r, c
  <2>2. uc' = [uc EXCEPT ![c] = Store!NoModified, ![Tombstone] = ts]
    <3>1. \A k \in CollKeys : CollView(t, k) = IF k = c THEN Absent
                                               ELSE IF k = Tombstone THEN ts
                                               ELSE uc[k]
      BY <1>12, <2>1 DEF RemovesExisting, RemovesCollection, CollView, r, c, ts
    <3>. QED
      BY <1>2, <1>4, <1>5, <3>1
  <2>3. ASSUME NEW d \in Collections, NEW i \in Ids
        PROVE  bso'[d][i] = IF d = c THEN Store!Nothing ELSE bso[d][i]
    <3>1. /\ t.wb[d][i] = IF d = c THEN NoRow ELSE NotStaged
          /\ t.mut[d][i] = NoMutation
      BY <1>12 DEF RemovesExisting, RemovesCollection, NothingBuffered, r, c
    <3>. QED
      BY <1>5, <1>8, <1>9, <3>1
  <2>4. bso' = [bso EXCEPT ![c] = [i \in Ids |-> Store!Nothing]]
    BY <1>2, <2>3, RowsReplaced
  <2>5. Store!RemoveCollection(c, ts)
    BY <1>1, <1>2, <1>5, <2>1, <2>2, <2>4 DEF Store!RemoveCollection
  <2>. QED
    BY <1>2, <2>1, <2>5 DEF Store!Next
<1>13. CASE RemovesStorage(t)
  <2>1. uc' = [k \in Collections \cup {Tombstone} |-> Store!NoModified]
    BY <1>4, <1>5, <1>13 DEF RemovesStorage, CollView, CollKeys
  <2>2. \A d \in Collections, i \in Ids : bso'[d][i] = Store!Nothing
    BY <1>5, <1>9, <1>13 DEF RemovesStorage, NothingBuffered
  <2>3. bso' = [d \in Collections |-> [i \in Ids |-> Store!Nothing]]
    <3>1. \A d \in Collections : bso'[d] = [i \in Ids |-> Store!Nothing]
      BY <1>2, <2>2
    <3>. QED
      BY <1>2, <3>1
  <2>. QED
    BY <1>1, <2>1, <2>3 DEF Store!RemoveStorage, Store!Next
<1>. QED
  BY <1>1, <1>6, <1>10, <1>11, <1>12, <1>13 DEF Pending

(* Only Tick moves the clock, only a commit moves the history. *)
LEMMA ClockSteps ==
  ASSUME [Next]_vars
  PROVE  /\ now' = now \/ Tick
         /\ \/ high' = high
            \/ high' = [c \in Collections |->
                          IF uc'[c] > high[c] THEN uc'[c] ELSE high[c]]
<1>1. ASSUME NEW p \in Clients, Begin(p) PROVE UNCHANGED <<now, high>>
  BY <1>1 DEF Begin, LockForRead, LockForWrite, LockForWriteNew, LockConflict,
              ReadClock, CheckPrecondition, SetTxn, Close, Discard
<1>2. ASSUME NEW p \in Clients, Handle(p) PROVE UNCHANGED <<now, high>>
  BY <1>2 DEF Handle, PostBsos, DeleteBso, DeleteBsos, DeleteCollection,
              DeleteAll, GetBso, GetBsos, FinishGetCollection, GetInfo, SetTxn,
              Close, Discard
<1>3. ASSUME NEW p \in Clients,
             Start(p) \/ CommitRead(p) \/ Aborted(p) \/ GiveUp(p)
      PROVE  UNCHANGED <<now, high>>
  BY <1>3 DEF Start, CommitRead, Aborted, GiveUp, Close, Discard
<1>4. ASSUME NEW p \in Clients, CommitWrite(p)
      PROVE  /\ now' = now
             /\ \/ high' = high
                \/ high' = [c \in Collections |->
                              IF uc'[c] > high[c] THEN uc'[c] ELSE high[c]]
  BY <1>4 DEF CommitWrite, Commit, Close, Discard
<1>5. CASE Environment
  BY <1>5 DEF Environment, SpannerAbort, PurgeRow
<1>. QED
  BY <1>1, <1>2, <1>3, <1>4, <1>5 DEF Next, Serve, End, vars

LEMMA StepIsAtomic ==
  ASSUME SafeInv, ExactInv, [Next]_vars
  PROVE  Store!Next \/ UNCHANGED <<now, uc, bso>>
<1>1. CASE Tick
  BY <1>1 DEF Tick, Store!Advance, Store!Next
<1>2. ASSUME NEW p \in Clients, CommitWrite(p), MutationsApply(txn[p])
      PROVE  Store!Next \/ UNCHANGED <<now, uc, bso>>
  BY <1>2, CommitIsAtomic
<1>3. ASSUME NEW c \in Collections, NEW i \in Ids, PurgeRow(c, i)
      PROVE  Store!Next
  BY <1>3 DEF PurgeRow, NoRow, Store!Expire, Store!Nothing, Store!NoModified,
              Store!Next
<1>. QED
  BY ClockSteps, <1>1, <1>2, <1>3, StoreSteps

(* However the statements of concurrent requests, aborts and purges mix,     *)
(* each request has the effect of one abstract step or none: the locks, the  *)
(* timestamps and the buffered mutations add up to atomic writes             *)
(* (transaction_http, lock_for_write_async, commit_async).                   *)
THEOREM RequestsTakeEffectAtOnce == Spec => TakesEffectAtOnce
<1>1. Init => Store!Init
  BY DEF Init, StoreInit, Store!Init, Store!Nothing, Store!NoModified, NoRow,
         CollKeys
<1>2. SafeInv /\ ExactInv /\ [Next]_vars => [Store!Next]_<<now, uc, bso>>
  BY StepIsAtomic
<1>. QED
  BY <1>1, <1>2, InitSafe, NextSafe, InitExact, NextExact, PTL
  DEF Spec, TakesEffectAtOnce, Store!Spec

-----------------------------------------------------------------------------
(* Readers: what GET of a collection answers, against later writes. *)

\* No write is of a ttl alone: such a write revives an expired BSO and keeps
\* its old modified.
NoTtlAlone == \A body \in Bodies : body.val = NotSet => body.ttl = NotSet

\* The snapshot of a reader, as far as the tables have moved on from it: every
\* BSO is as it was, or gone, or newer than the collection was.
Snapshot(r, t) ==
    /\ t.wc[r.coll] \in Absent..MaxTime
    /\ t.wc[r.coll] > PRETOUCH => t.wc[r.coll] <= high[r.coll]
    /\ \A i \in Ids :
          /\ t.wb[r.coll][i] \in Row \cup {NoRow}
          /\ \/ ~Present(bso[r.coll][i])
             \/ bso[r.coll][i].mod > t.wc[r.coll]
             \/ /\ bso[r.coll][i].mod = t.wb[r.coll][i].mod
                /\ bso[r.coll][i].exp = t.wb[r.coll][i].exp

\* What the answer has of the snapshot.
Answered(r, t) ==
    /\ r.pc = "finish" \/ (r.pc = "commit" /\ r.status = 200)
       => \A i \in Ids : Visible(t.wb[r.coll][i])
                         => r.items[i] = t.wb[r.coll][i].mod
    /\ r.pc = "commit" /\ r.status = 200
       => r.lm = IF t.wc[r.coll] > PRETOUCH THEN t.wc[r.coll] ELSE 0

ReadSafe(r, t) ==
    r.kind = "get_collection" =>
        /\ r.pc # "timestamp"
        /\ r.pc \in {"check", "handle", "finish", "commit"} =>
              t.mode = "ro" /\ Snapshot(r, t) /\ Answered(r, t)

ReadInv == \A p \in Clients : ReadSafe(req[p], txn[p])

LEMMA SameSnapshot ==
  ASSUME NEW r, NEW q, NEW t, r.coll = q.coll, Snapshot(q, t)
  PROVE  Snapshot(r, t)
BY DEF Snapshot

(* Whatever a step does to a BSO, it is gone, unchanged in time, or newer    *)
(* than all its collection showed before.                                    *)
LEMMA RowsAdvance ==
  ASSUME SafeInv, ExactInv, NeverForgets, NoTtlAlone, [Next]_vars,
         NEW c \in Collections, NEW i \in Ids
  PROVE  \/ ~Present(bso'[c][i])
         \/ bso'[c][i].mod = bso[c][i].mod /\ bso'[c][i].exp = bso[c][i].exp
         \/ bso'[c][i].mod > high[c]
<1>1. CASE bso'[c][i] = bso[c][i] \/ bso'[c][i] = NoRow
  BY <1>1 DEF Present, NoRow
<1>2. ASSUME NEW p \in Clients, CommitWrite(p), MutationsApply(txn[p]),
             bso'[c][i] # bso[c][i], bso'[c][i] # NoRow
      PROVE  \/ bso'[c][i].mod = bso[c][i].mod /\ bso'[c][i].exp = bso[c][i].exp
             \/ bso'[c][i].mod > high[c]
  <2>1. /\ Commit(p) /\ req[p].pc = "commit" /\ txn[p].mode = "rw"
        /\ Pending(req[p], txn[p])
        /\ bso'[c][i] = Mutated(txn[p].mut[c][i], BsoView(txn[p], c, i))
    BY <1>2 DEF CommitWrite, Commit, RowAfter, ExactInv, Exact
  <2>2. WritesBody(req[p], txn[p])
    <3>1. /\ ~ (txn[p].wb[c][i] = NotStaged /\ txn[p].mut[c][i] = NoMutation)
          /\ ~ (txn[p].wb[c][i] = NoRow /\ txn[p].mut[c][i] = NoMutation)
      BY <1>2, <2>1, StagedRow, MutatedFields DEF NoMutation
    <3>. QED
      BY <2>1, <3>1
      DEF Pending, Untouched, RemovesBsos, RemovesExisting, RemovesCollection,
          RemovesStorage, NothingStaged, NothingBuffered
  <2>3. /\ req[p].body \in Bodies /\ req[p].kind \in WriteKinds
        /\ req[p].ts \in 1..MaxTime /\ high[req[p].coll] < req[p].ts
    BY <2>1, <2>2, CommitReady DEF WritesBody, WriteKinds, ExactInv, Exact
  <2>4. c = req[p].coll
        /\ bso'[c][i] = Store!WrittenOver(bso[c][i], req[p].body, req[p].ts)
    BY <1>2, <2>1, <2>2, <2>3, BodyWritten DEF Store!Written
  <2>. QED
    BY <2>3, <2>4 DEF Store!WrittenOver, Store!NotGiven, NoTtlAlone
<1>3. ASSUME NEW d \in Collections, NEW j \in Ids, PurgeRow(d, j)
      PROVE  bso'[c][i] = bso[c][i] \/ bso'[c][i] = NoRow
  BY <1>3 DEF PurgeRow, SafeInv, TypeInv, TypeOK, StoreTypeOK
<1>. QED
  BY <1>1, <1>2, <1>3, StoreSteps

(* The clock and the history of a collection only grow. *)
LEMMA HistoryGrows ==
  ASSUME SafeInv, [Next]_vars
  PROVE  /\ now \in 1..MaxTime /\ now' \in 1..MaxTime /\ now <= now'
         /\ \A c \in Collections :
               /\ high[c] \in Absent..MaxTime /\ high'[c] \in Absent..MaxTime
               /\ high[c] <= high'[c]
<1>1. TypeInv /\ TypeInv'
  BY NextTypeInv DEF SafeInv
<1>2. /\ now \in 1..MaxTime /\ now' \in 1..MaxTime
      /\ high \in [Collections -> Absent..MaxTime]
      /\ high' \in [Collections -> Absent..MaxTime]
  BY <1>1 DEF TypeInv, TypeOK, StoreTypeOK
<1>3. now' = now \/ now' = now + 1
  BY ClockSteps DEF Tick
<1>4. ASSUME NEW c \in Collections PROVE high[c] <= high'[c]
  <2>1. uc'[c] \in Absent..MaxTime
    BY <1>1 DEF TypeInv, TypeOK, StoreTypeOK, CollKeys
  <2>. QED
    BY <1>2, <2>1, ClockSteps, MaxTimeAssumption
<1>. QED
  BY <1>2, <1>3, <1>4

(* A reader another step left open still has its snapshot. *)
LEMMA OpenStaysRead ==
  ASSUME SafeInv, ExactInv, NeverForgets, NoTtlAlone, [Next]_vars,
         NEW q \in Clients, ReadSafe(req[q], txn[q]), req'[q] = req[q],
         txn[q].mode = "ro" => txn'[q] = txn[q]
  PROVE  ReadSafe(req[q], txn[q])'
<1>. DEFINE r == req[q]
            t == txn[q]
            c == req[q].coll
<1>. SUFFICES ASSUME r.kind = "get_collection",
                     r.pc \in {"check", "handle", "finish", "commit"}
              PROVE  t'.mode = "ro" /\ Snapshot(r, t)' /\ Answered(r, t)'
  BY DEF ReadSafe
<1>1. /\ t' = t /\ r' = r /\ t.mode = "ro" /\ Snapshot(r, t) /\ Answered(r, t)
      /\ c \in Collections /\ r.coll = c /\ c' = c
  BY RequestFields DEF ReadSafe, SafeInv
<1>. HIDE DEF r, t, c
<1>2. /\ \A i \in Ids : bso[c][i] \in Row \cup {NoRow}
      /\ \A i \in Ids : bso'[c][i] \in Row \cup {NoRow}
  <2>1. TypeInv /\ TypeInv'
    BY NextTypeInv DEF SafeInv
  <2>. QED
    BY <1>1, <2>1 DEF TypeInv, TypeOK, StoreTypeOK
<1>3. Snapshot(r, t)'
  <2>1. /\ t.wc[c] \in Absent..MaxTime
        /\ t.wc[c] > PRETOUCH => t.wc[c] <= high[c] /\ t.wc[c] <= high'[c]
    <3>1. /\ t.wc[c] \in Absent..MaxTime
          /\ t.wc[c] > PRETOUCH => t.wc[c] <= high[c]
      BY <1>1 DEF Snapshot
    <3>. QED
      BY <1>1, <3>1, HistoryGrows, MaxTimeAssumption
  <2>2. ASSUME NEW i \in Ids
        PROVE  \/ ~Present(bso'[c][i])
               \/ bso'[c][i].mod > t.wc[c]
               \/ /\ bso'[c][i].mod = t.wb[c][i].mod
                  /\ bso'[c][i].exp = t.wb[c][i].exp
    <3>. SUFFICES ASSUME Present(bso'[c][i])
                  PROVE  \/ bso'[c][i].mod > t.wc[c]
                         \/ /\ bso'[c][i].mod = t.wb[c][i].mod
                            /\ bso'[c][i].exp = t.wb[c][i].exp
      OBVIOUS
    <3>1. bso'[c][i].mod \in 1..MaxTime
      BY <1>2 DEF Row, NoRow, Present
    <3>2. high[c] \in Absent..MaxTime
      BY <1>1, HistoryGrows
    <3>3. CASE bso'[c][i].mod > high[c]
      BY <2>1, <3>1, <3>2, <3>3, MaxTimeAssumption
    <3>4. CASE bso'[c][i].mod = bso[c][i].mod /\ bso'[c][i].exp = bso[c][i].exp
      BY <1>1, <3>4 DEF Snapshot, Present
    <3>. QED
      BY <1>1, <3>3, <3>4, RowsAdvance
  <2>3. \A i \in Ids : t.wb[c][i] \in Row \cup {NoRow}
    BY <1>1 DEF Snapshot
  <2>. QED
    BY <1>1, <2>1, <2>2, <2>3 DEF Snapshot
<1>4. Answered(r, t)'
  <2>1. ASSUME NEW i \in Ids, Visible(t.wb[c][i])' PROVE Visible(t.wb[c][i])
    <3>1. t.wb[c][i] \in Row \cup {NoRow}
      BY <1>1 DEF Snapshot
    <3>. QED
      BY <1>1, <2>1, <3>1, HistoryGrows DEF Visible, Row, NoRow, Present
  <2>. QED
    BY <1>1, <2>1 DEF Answered
<1>. QED
  BY <1>1, <1>3, <1>4

(* A step of the reader itself, which changes no table. *)
LEMMA LocalStepRead ==
  ASSUME SafeInv, ExactInv, NeverForgets, NoTtlAlone, [Next]_vars, ReadInv,
         NEW p \in Clients, NEW r, NEW t, ReadSafe(r, t),
         req' = [req EXCEPT ![p] = r], txn' = [txn EXCEPT ![p] = t],
         UNCHANGED <<now, bso, high>>
  PROVE  ReadInv'
<1>1. \A q \in Clients :
         /\ req'[q] = IF q = p THEN r ELSE req[q]
         /\ txn'[q] = IF q = p THEN t ELSE txn[q]
  BY StateFunctions
<1>2. ReadSafe(req[p], txn[p])'
  <2>1. ReadSafe(req'[p], txn'[p])
    BY <1>1
  <2>2. Snapshot(req'[p], txn'[p]) => Snapshot(req[p], txn[p])'
    BY DEF Snapshot, Present
  <2>3. Answered(req'[p], txn'[p]) => Answered(req[p], txn[p])'
    BY DEF Answered, Visible, Present
  <2>. QED
    BY <2>1, <2>2, <2>3, Zenon DEF ReadSafe
<1>3. ASSUME NEW q \in Clients, q # p PROVE ReadSafe(req[q], txn[q])'
  BY <1>1, <1>3, OpenStaysRead DEF ReadInv
<1>. QED
  BY <1>2, <1>3 DEF ReadInv

(* The steps of GET collection (lock_for_read, get_bsos, finish). *)
LEMMA ReaderSteps ==
  ASSUME SafeInv, ExactInv, NeverForgets, NoTtlAlone, [Next]_vars, ReadInv,
         NEW p \in Clients, req[p].kind = "get_collection",
         LockForRead(p) \/ CheckPrecondition(p) \/ GetBsos(p)
         \/ FinishGetCollection(p)
  PROVE  ReadInv'
<1>. DEFINE c == req[p].coll
            t == txn[p]
<1>1. /\ req[p] \in Request /\ t \in Txn /\ c \in Collections /\ c \in CollKeys
      /\ uc[c] \in Absent..MaxTime
      /\ \A i \in Ids : bso[c][i] \in Row \cup {NoRow}
      /\ ReadSafe(req[p], t)
      /\ req[p].kind \in ReadKinds /\ req[p].kind \notin StorageKinds
      /\ txn' = txn => txn' = [txn EXCEPT ![p] = txn[p]]
  BY RequestFields
  DEF SafeInv, TypeInv, TypeOK, StoreTypeOK, ReadInv, ReadKinds, StorageKinds
<1>2. CASE LockForRead(p)
  <2>. DEFINE r == [req[p] EXCEPT !.pc = "check"]
  <2>1. /\ r.pc = "check" /\ r.coll = c
        /\ BeginRead.mode = "ro" /\ BeginRead.wc = uc /\ BeginRead.wb = bso
    BY <1>1 DEF Request, BeginRead, EmptyTxn
  <2>2. /\ req' = [req EXCEPT ![p] = r] /\ txn' = [txn EXCEPT ![p] = BeginRead]
        /\ UNCHANGED <<now, bso, high>>
    BY <1>2 DEF LockForRead, Goto, SetTxn
  <2>3. uc[c] > PRETOUCH => uc[c] <= high[c]
    BY <1>1 DEF SafeInv, HistoryKept
  <2>. HIDE DEF r
  <2>4. ReadSafe(r, BeginRead)
    BY <1>1, <2>1, <2>3 DEF ReadSafe, Snapshot, Answered
  <2>. QED
    BY <2>2, <2>4, LocalStepRead
<1>3. CASE CheckPrecondition(p)
  <2>. DEFINE rts == ResourceTimestamp(p, t)
              status == PreconditionStatus(req[p], rts)
              r == Checked(req[p], rts, status)
  <2>1. AfterResourceQuery(p) = t
    BY <1>1 DEF AfterResourceQuery
  <2>2. req' = [req EXCEPT ![p] = r] /\ txn' = [txn EXCEPT ![p] = t]
        /\ UNCHANGED <<now, bso, high>>
    BY <1>3, <2>1 DEF CheckPrecondition, SetTxn
  <2>3. /\ r.coll = c /\ r.kind = req[p].kind /\ r.status = status
        /\ r.pc = IF status = 0 THEN "handle" ELSE "commit"
    BY <1>1 DEF Request, Checked
  <2>4. status \in {0, 304, 412} /\ req[p].pc = "check"
    BY <1>3 DEF PreconditionStatus, CheckPrecondition
  <2>. HIDE DEF r, status
  <2>5. req[p].kind = "get_collection" => t.mode = "ro" /\ Snapshot(r, t)
    BY <1>1, <2>3, <2>4, SameSnapshot DEF ReadSafe
  <2>6. ReadSafe(r, t)
    BY <2>3, <2>4, <2>5 DEF ReadSafe, Answered
  <2>. QED
    BY <2>2, <2>6, LocalStepRead
<1>4. CASE GetBsos(p)
  <2>. DEFINE found == Found(t, c, Ids)
              r == [req[p] EXCEPT !.pc = "finish", !.items = found]
  <2>1. /\ r.pc = "finish" /\ r.coll = c /\ r.kind = req[p].kind /\ r.items = found
        /\ req[p].pc = "handle"
    BY <1>1, <1>4 DEF Request, GetBsos, In
  <2>2. req' = [req EXCEPT ![p] = r] /\ txn' = [txn EXCEPT ![p] = t]
        /\ UNCHANGED <<now, bso, high>>
    BY <1>1, <1>4 DEF GetBsos
  <2>3. Snapshot(req[p], t) /\ t.mode = "ro"
    BY <1>1, <2>1 DEF ReadSafe
  <2>4. ASSUME NEW i \in Ids, Visible(t.wb[c][i]) PROVE found[i] = t.wb[c][i].mod
    <3>1. t.wb[c][i] \in Row \cup {NoRow}
      BY <2>3 DEF Snapshot
    <3>2. t.wb[c][i].mod # NotSet
      <4>. HIDE DEF t, c
      <4>. QED
        BY <3>1 DEF Row, NoRow
    <3>3. BsoView(t, c, i) = t.wb[c][i]
      BY <3>2, Zenon DEF BsoView
    <3>4. found[i] = IF i \in Ids /\ Visible(BsoView(t, c, i))
                     THEN BsoView(t, c, i).mod ELSE Absent
      BY ZenonT(60) DEF Found
    <3>. QED
      BY <2>4, <3>3, <3>4, Zenon
  <2>. HIDE DEF r, found
  <2>5. ReadSafe(r, t)
    BY <2>1, <2>3, <2>4, SameSnapshot DEF ReadSafe, Answered
  <2>. QED
    BY <2>2, <2>5, LocalStepRead
<1>5. CASE FinishGetCollection(p)
  <2>. DEFINE lm == CollTimestamp(t, c)
              r == [req[p] EXCEPT !.pc = "commit", !.status = 200, !.lm = lm]
  <2>1. /\ r.pc = "commit" /\ r.coll = c /\ r.kind = req[p].kind
        /\ r.items = req[p].items /\ r.lm = lm /\ req[p].pc = "finish"
    BY <1>1, <1>5 DEF Request, FinishGetCollection, In
  <2>2. req' = [req EXCEPT ![p] = r] /\ txn' = [txn EXCEPT ![p] = t]
        /\ UNCHANGED <<now, bso, high>>
    BY <1>1, <1>5 DEF FinishGetCollection, Respond
  <2>3. Snapshot(req[p], t) /\ Answered(req[p], t) /\ t.mode = "ro"
    BY <1>1, <2>1 DEF ReadSafe
  <2>4. lm = IF t.wc[c] > PRETOUCH THEN t.wc[c] ELSE 0
    <3>1. t.wc[c] # NotSet
      BY <2>3, MaxTimeAssumption DEF Snapshot
    <3>. QED
      BY <3>1, Zenon DEF CollTimestamp, CollView
  <2>. HIDE DEF r, lm
  <2>5. Snapshot(r, t)
    BY <2>1, <2>3, SameSnapshot
  <2>6. Answered(r, t)
    <3>1. \A i \in Ids : Visible(t.wb[c][i]) => req[p].items[i] = t.wb[c][i].mod
      BY <2>1, <2>3 DEF Answered
    <3>. QED
      BY <2>1, <2>4, <3>1, ZenonT(60) DEF Answered
  <2>7. ReadSafe(r, t)
    BY <2>1, <2>3, <2>5, <2>6, Zenon DEF ReadSafe
  <2>. QED
    BY <2>2, <2>7, LocalStepRead
<1>. QED
  BY <1>2, <1>3, <1>4, <1>5

(* What a step of p can mean to GET requests: one of the reader's own steps, *)
(* or p ends, waits for its lock or is no GET of a collection.               *)
LEMMA OwnSteps ==
  ASSUME SafeInv, ReadInv, NEW p \in Clients, Start(p) \/ Serve(p) \/ GiveUp(p)
  PROVE  /\ \A q \in Clients : q # p =>
               req'[q] = req[q] /\ (txn[q].mode = "ro" => txn'[q] = txn[q])
         /\ \/ req[p].kind = "get_collection"
               /\ \/ LockForRead(p) \/ CheckPrecondition(p) \/ GetBsos(p)
                  \/ FinishGetCollection(p)
            \/ req'[p].pc \in {"idle", "lock"}
            \/ req'[p].kind # "get_collection"
<1>1. /\ req \in [Clients -> Request] /\ txn \in [Clients -> Txn]
      /\ req[p] \in Request /\ ReadSafe(req[p], txn[p])
  BY RequestFields DEF SafeInv, TypeInv, TypeOK, StoreTypeOK, ReadInv
<1>. DEFINE Others == \A q \in Clients : q # p =>
                         req'[q] = req[q] /\ (txn[q].mode = "ro" => txn'[q] = txn[q])
            Reader == \/ /\ req[p].kind = "get_collection"
                         /\ \/ LockForRead(p) \/ CheckPrecondition(p)
                            \/ GetBsos(p) \/ FinishGetCollection(p)
                      \/ req'[p].pc \in {"idle", "lock"}
                      \/ req'[p].kind # "get_collection"
<1>2. ASSUME Close(p) PROVE Others /\ Reader
  BY <1>1, <1>2 DEF Close, Discard, Idle
<1>3. ASSUME NEW status, NEW lm, NEW t, Respond(p, status, lm), SetTxn(p, t),
             req[p].kind # "get_collection"
      PROVE  Others /\ Reader
  <2>. DEFINE r == [req[p] EXCEPT !.pc = "commit", !.status = status, !.lm = lm]
  <2>1. r.kind # "get_collection"
    BY <1>1, <1>3 DEF Request
  <2>2. req' = [req EXCEPT ![p] = r] /\ txn' = [txn EXCEPT ![p] = t]
    BY <1>3 DEF Respond, SetTxn
  <2>. HIDE DEF r
  <2>. QED
    BY <1>1, <2>1, <2>2
<1>4. CASE Start(p)
  <2>1. PICK kind \in Kinds, c \in Collections, pre \in Preconds :
           \E ids \in IdsOf(kind),
              body \in IF kind \in PostKinds THEN Bodies ELSE {NoBody},
              since \in IF pre = "none" THEN {0} ELSE 0..MaxTime :
              req' = [req EXCEPT ![p] = Arriving(kind, c, ids, body, pre, since)]
    BY <1>4, ZenonT(60) DEF Start
  <2>2. PICK ids, body, since :
           req' = [req EXCEPT ![p] = Arriving(kind, c, ids, body, pre, since)]
    BY <2>1
  <2>. DEFINE r == Arriving(kind, c, ids, body, pre, since)
  <2>3. r.kind = kind /\ r.pc = IF kind \in StorageKinds THEN "check" ELSE "lock"
    BY IdleType DEF Arriving, Request
  <2>4. txn' = txn
    BY <1>4 DEF Start
  <2>. HIDE DEF r
  <2>. QED
    BY <1>1, <2>2, <2>3, <2>4 DEF StorageKinds, r
<1>5. CASE Begin(p)
  <2>1. CASE LockForRead(p)
    BY <1>1, <2>1 DEF LockForRead, Goto, SetTxn, Request
  <2>2. CASE LockForWrite(p) \/ LockForWriteNew(p)
    BY <1>1, <2>2 DEF LockForWrite, LockForWriteNew, Goto, SetTxn, Request, In,
                      WriteKinds, PostKinds
  <2>3. CASE ReadClock(p)
    BY <1>1, <2>3 DEF ReadClock, Request, ReadSafe
  <2>4. CASE CheckPrecondition(p)
    BY <1>1, <2>4 DEF CheckPrecondition, SetTxn, Checked, Request
  <2>. QED
    BY <1>2, <1>5, <2>1, <2>2, <2>3, <2>4 DEF Begin, LockConflict
<1>6. CASE GetBso(p) \/ GetBsos(p) \/ FinishGetCollection(p)
  <2>1. Others
    BY <1>1, <1>6 DEF GetBso, GetBsos, FinishGetCollection, Respond
  <2>2. CASE GetBso(p)
    <3>. DEFINE got == Found(txn[p], req[p].coll, req[p].ids)
                r == [req[p] EXCEPT !.pc = "commit", !.lm = req[p].rts,
                        !.status = IF got = NothingRead THEN 404 ELSE 200,
                        !.items = got]
    <3>1. r.kind = "get_bso"
      BY <1>1, <2>2 DEF GetBso, Request, In
    <3>2. req' = [req EXCEPT ![p] = r]
      BY <2>2 DEF GetBso
    <3>. HIDE DEF r
    <3>. QED
      BY <1>1, <2>1, <3>1, <3>2
  <2>3. CASE GetBsos(p) \/ FinishGetCollection(p)
    BY <2>1, <2>3 DEF GetBsos, FinishGetCollection, In
  <2>. QED
    BY <1>6, <2>2, <2>3
<1>7. CASE PostBsos(p) \/ DeleteBso(p) \/ DeleteBsos(p) \/ DeleteCollection(p)
           \/ DeleteAll(p) \/ GetInfo(p)
  <2>1. req[p].kind # "get_collection"
    BY <1>7 DEF PostBsos, DeleteBso, DeleteBsos, DeleteCollection, DeleteAll,
                GetInfo, In, PostKinds
  <2>2. Close(p) \/ \E status, lm, t : Respond(p, status, lm) /\ SetTxn(p, t)
    BY <1>7 DEF PostBsos, DeleteBso, DeleteBsos, DeleteCollection, DeleteAll,
                GetInfo
  <2>. QED
    BY <1>2, <1>3, <2>1, <2>2
<1>8. CASE CommitWrite(p) /\ MutationsApply(txn[p])
  <2>1. \A q \in Clients : q # p /\ txn[q].mode = "ro" => txn'[q] = txn[q]
    BY <1>8 DEF CommitWrite, Commit, Overwritten
  <2>2. req' = [req EXCEPT ![p] = Idle]
    BY <1>8 DEF CommitWrite
  <2>. QED
    BY <1>1, <2>1, <2>2 DEF Idle
<1>9. Others /\ Reader
  <2>1. CASE Handle(p)
    BY <1>6, <1>7, <2>1 DEF Handle
  <2>2. CASE End(p) \/ GiveUp(p)
    <3>1. Close(p) \/ (CommitWrite(p) /\ MutationsApply(txn[p]))
      BY <2>2 DEF End, CommitRead, CommitWrite, Aborted, GiveUp
    <3>. QED
      BY <1>2, <1>8, <3>1
  <2>. QED
    BY <1>4, <1>5, <2>1, <2>2 DEF Serve
<1>. QED
  BY <1>9

LEMMA NextRead ==
  ASSUME NeverForgets, NoTtlAlone, SafeInv, ExactInv, ReadInv, [Next]_vars
  PROVE  ReadInv'
<1>1. ASSUME NEW p \in Clients, Start(p) \/ Serve(p) \/ GiveUp(p)
      PROVE  ReadInv'
  <2>1. CASE /\ req[p].kind = "get_collection"
             /\ \/ LockForRead(p) \/ CheckPrecondition(p) \/ GetBsos(p)
                \/ FinishGetCollection(p)
    BY <2>1, ReaderSteps
  <2>2. CASE \/ req'[p].pc \in {"idle", "lock"}
             \/ req'[p].kind # "get_collection"
    <3>1. ReadSafe(req[p], txn[p])'
      BY <2>2 DEF ReadSafe
    <3>2. ASSUME NEW q \in Clients, q # p PROVE ReadSafe(req[q], txn[q])'
      <4>1. /\ req'[q] = req[q] /\ (txn[q].mode = "ro" => txn'[q] = txn[q])
            /\ ReadSafe(req[q], txn[q])
        BY <1>1, <3>2, OwnSteps DEF ReadInv
      <4>. QED
        BY <4>1, OpenStaysRead
    <3>. QED
      BY <3>1, <3>2 DEF ReadInv
  <2>. QED
    BY <1>1, <2>1, <2>2, OwnSteps
<1>2. CASE Environment \/ UNCHANGED vars
  <2>1. req' = req
    BY <1>2 DEF Environment, vars
  <2>2. ASSUME NEW q \in Clients, txn[q].mode = "ro" PROVE txn'[q] = txn[q]
    <3>1. txn \in [Clients -> Txn]
      BY DEF SafeInv, TypeInv, TypeOK, StoreTypeOK
    <3>. QED
      BY <1>2, <2>2, <3>1
      DEF Environment, Tick, SpannerAbort, PurgeRow, Overwritten, vars
  <2>. QED
    BY <2>1, <2>2, OpenStaysRead DEF ReadInv
<1>. QED
  BY <1>1, <1>2 DEF Next

(* A client that keeps the X-Last-Modified of GET /storage/<collection> and  *)
(* asks for what is newer misses nothing, whatever was written, deleted or   *)
(* purged meanwhile (lock_for_read, get_bsos, finish_get_collection); a      *)
(* deletion of the whole storage and a write of a ttl alone excepted.        *)
THEOREM NothingIsMissed ==
  ASSUME NeverForgets, NoTtlAlone
  PROVE  Spec => []NothingMissed
<1>1. Init => ReadInv
  <2>. SUFFICES ASSUME Init, NEW p \in Clients PROVE ReadSafe(req[p], txn[p])
    BY DEF ReadInv
  <2>1. req[p] = Idle
    BY DEF Init
  <2>. QED
    BY <2>1 DEF ReadSafe, Idle
<1>2. SafeInv /\ ReadInv => NothingMissed
  <2>. SUFFICES ASSUME SafeInv, ReadInv, NEW p \in Clients,
                       req[p].kind = "get_collection", req[p].pc = "commit",
                       req[p].status = 200, NEW i \in Ids,
                       Visible(bso[req[p].coll][i]),
                       bso[req[p].coll][i].mod <= req[p].lm
                PROVE  req[p].items[i] = bso[req[p].coll][i].mod
    BY DEF NothingMissed
  <2>. DEFINE row == bso[req[p].coll][i]
              seen == txn[p].wb[req[p].coll][i]
  <2>1. Snapshot(req[p], txn[p]) /\ Answered(req[p], txn[p])
    BY DEF ReadInv, ReadSafe
  <2>2. row \in Row
    <3>1. row \in Row \cup {NoRow}
      BY RequestFields, SMTT(30) DEF SafeInv, TypeInv, TypeOK, StoreTypeOK
    <3>. QED
      BY <3>1 DEF Visible, Present, NoRow
  <2>3. txn[p].wc[req[p].coll] \in Absent..MaxTime
    BY <2>1 DEF Snapshot
  <2>4. row.mod <= txn[p].wc[req[p].coll]
    <3>1. req[p].lm = IF txn[p].wc[req[p].coll] > PRETOUCH THEN txn[p].wc[req[p].coll] ELSE 0
      BY <2>1 DEF Answered
    <3>2. row.mod \in 1..MaxTime /\ row.mod <= req[p].lm
      BY <2>2 DEF Row
    <3>. HIDE DEF row
    <3>. QED
      BY <2>3, <3>1, <3>2, MaxTimeAssumption, SMTT(30)
  <2>5. \/ ~Present(row)
        \/ row.mod > txn[p].wc[req[p].coll]
        \/ row.mod = seen.mod /\ row.exp = seen.exp
    BY <2>1, Zenon DEF Snapshot
  <2>6. row.mod = seen.mod /\ row.exp = seen.exp
    <3>1. Present(row) /\ row.mod \in 1..MaxTime
      BY <2>2 DEF Row, Present
    <3>. HIDE DEF row, seen
    <3>. QED
      BY <2>3, <2>4, <2>5, <3>1, MaxTimeAssumption
  <2>7. Visible(seen)
    BY <2>6, Zenon DEF Visible, Present
  <2>8. req[p].items[i] = seen.mod
    BY <2>1, <2>7, Zenon DEF Answered
  <2>. QED
    BY <2>6, <2>8, Zenon
<1>3. SafeInv /\ ExactInv /\ ReadInv /\ [Next]_vars => ReadInv'
  BY NextRead
<1>. QED
  BY <1>1, <1>2, <1>3, InitSafe, NextSafe, InitExact, NextExact, PTL DEF Spec
=============================================================================
