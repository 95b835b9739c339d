---------------------------- MODULE MysqlRequests ----------------------------
(***************************************************************************)
(* The storage requests of one user on the MySQL backend: transaction_http *)
(* over MysqlDb's methods, statement by statement where a lock may be      *)
(* waited for.                                                             *)
(*                                                                         *)
(* A session's timestamp is the clock of its web server when the           *)
(* connection is taken from the pool, before anything is locked; clocks of *)
(* different servers differ by up to MaxSkew.                              *)
(*                                                                         *)
(* post_bsos_sync goes on after a put_bso_sync that failed.  If InnoDB has *)
(* broken off its transaction as the victim of a deadlock there is none    *)
(* any more: what is left of the request runs statement by statement, each *)
(* committed at once and without a lock kept or a timestamp compared.      *)
(* What diesel (external) makes of its count of open transactions then, in *)
(* this request's COMMIT and for the pooled connection, is not modelled.   *)
(*                                                                         *)
(* Left out: the lookup of a collection's id (CollectionIds), batches      *)
(* (MysqlBatch), sorting and paging (Listing), and the requests that       *)
(* neither lock nor write: GET of one BSO and of /info.                    *)
(***************************************************************************)
EXTENDS MysqlStore

CONSTANTS
    Kinds,     \* the kinds of request clients send
    Bodies,    \* the columns a PUT or POST supplies for its BSOs
    Headers,   \* X-If-Unmodified-Since, NotSet for a request without it
    MaxSkew    \* how far a web server's clock is behind the furthest one

PostKinds  == {"put_bso", "post_bsos"}
WriteKinds == PostKinds \cup {"delete_bso", "delete_bsos", "delete_collection"}
BsoKinds   == {"put_bso", "delete_bso"}
AllKinds   == WriteKinds \cup {"get_collection", "delete_all"}

ASSUME KindsAssumption == Kinds \subseteq AllKinds
ASSUME BodiesAssumption ==
    Bodies \subseteq [val : Vals \cup {NotSet}, ttl : Nat \cup {NotSet}]
ASSUME HeadersAssumption == Headers \subseteq 0..MaxTime \cup {NotSet}
ASSUME MaxSkewAssumption == MaxSkew \in Nat

VARIABLES
    req,   \* the request each client has in progress
    torn   \* history: the collections a request lost its transaction over

vars == <<now, uc, bso, txn, req, torn>>

AnyCollection == CHOOSE c \in Collections : TRUE
NoBody == [val |-> NotSet, ttl |-> NotSet]
NothingRead == [i \in Ids |-> Absent]

Request ==
    [pc     : {"idle", "lock", "check", "handle", "touch", "finish", "commit",
               "alone", "stamp"},     \* without a transaction
     kind   : AllKinds,
     coll   : Collections,
     ids    : SUBSET Ids,
     body   : Bodies \cup {NoBody},
     since  : 0..MaxTime \cup {NotSet},
     ts     : 0..MaxTime,             \* session.timestamp
     cached : Absent..MaxTime,        \* coll_modified_cache for coll
     status : {0, 200, 412},
     lm     : 0..MaxTime,             \* X-Last-Modified of a listing
     items  : [Ids -> Absent..MaxTime]]

Idle == [pc |-> "idle", kind |-> "delete_all", coll |-> AnyCollection,
         ids |-> {}, body |-> NoBody, since |-> NotSet, ts |-> 0,
         cached |-> Absent, status |-> 0, lm |-> 0, items |-> NothingRead]

IdsOf(kind) ==
    IF kind \in BsoKinds THEN {{i} : i \in Ids}
    ELSE IF kind = "post_bsos" THEN SUBSET Ids
    ELSE IF kind = "delete_bsos" THEN (SUBSET Ids) \ {{}}
    ELSE {{}}

In(p, phase, kinds) == req[p].pc = phase /\ req[p].kind \in kinds

Goto(p, phase) == req' = [req EXCEPT ![p].pc = phase]

Respond(p) == req' = [req EXCEPT ![p].pc = "commit", ![p].status = 200]

SetTxn(p, t) ==
    /\ txn' = [txn EXCEPT ![p] = t]
    /\ UNCHANGED <<now, uc, bso, torn>>

\* The request failed; its transaction is rolled back.
Close(p) ==
    /\ Rollback(p)
    /\ req' = [req EXCEPT ![p] = Idle]
    /\ UNCHANGED torn

-----------------------------------------------------------------------------
(* Begin. *)

\* The connection comes out of the pool with the session's timestamp.
Start(p) ==
    /\ req[p].pc = "idle"
    /\ \E kind \in Kinds, c \in Collections, since \in Headers,
          ts \in 1..now :
       \E ids \in IdsOf(kind),
          body \in IF kind \in PostKinds THEN Bodies ELSE {NoBody} :
          /\ ts >= now - MaxSkew
          /\ kind = "delete_all" => c = AnyCollection
          /\ req' = [req EXCEPT ![p] =
                       [Idle EXCEPT !.pc = IF kind = "delete_all" THEN "check"
                                           ELSE "lock",
                                    !.kind = kind, !.coll = c, !.ids = ids,
                                    !.body = body, !.since = since, !.ts = ts]]
    /\ UNCHANGED <<now, uc, bso, txn, torn>>

\* Mutant of LockForRead: a plain SELECT.
LockForReadUnlocked(p) ==
    /\ In(p, "lock", {"get_collection"})
    /\ SetTxn(p, Begun)
    /\ req' = [req EXCEPT ![p].pc = "check", ![p].cached = uc[req[p].coll]]

LockForRead(p) ==
    LET c == req[p].coll IN
    /\ In(p, "lock", {"get_collection"})
    /\ Shareable(p, c)
    /\ SetTxn(p, LockedForRead(c))
    /\ req' = [req EXCEPT ![p].pc = "check", ![p].cached = uc[c]]

\* Mutant of LockForWrite: a plain SELECT.
LockForWriteUnlocked(p) ==
    LET c == req[p].coll IN
    /\ In(p, "lock", WriteKinds)
    /\ uc[c] < req[p].ts
    /\ SetTxn(p, Begun)
    /\ req' = [req EXCEPT ![p].pc = "check", ![p].cached = uc[c]]

\* Mutant of LockForWrite: LOCK IN SHARE MODE, as for reading.
LockForWriteShared(p) ==
    LET c == req[p].coll IN
    /\ In(p, "lock", WriteKinds)
    /\ Shareable(p, c)
    /\ uc[c] < req[p].ts
    /\ SetTxn(p, LockedForRead(c))
    /\ req' = [req EXCEPT ![p].pc = "check", ![p].cached = uc[c]]

\* SELECT ... FOR UPDATE; a missing row is not compared with the clock.
LockForWrite(p) ==
    LET c == req[p].coll IN
    /\ In(p, "lock", WriteKinds)
    /\ Lockable(p, c)
    /\ uc[c] < req[p].ts
    /\ SetTxn(p, LockedForWrite(c))
    /\ req' = [req EXCEPT ![p].pc = "check", ![p].cached = uc[c]]

LockConflict(p) ==
    /\ In(p, "lock", WriteKinds)
    /\ Lockable(p, req[p].coll)
    /\ uc[req[p].coll] >= req[p].ts
    /\ Close(p)

-----------------------------------------------------------------------------
(* The precondition. *)

StorageTimestamp ==
    CHOOSE m \in 0..MaxTime :
        /\ m = 0 \/ \E k \in CollKeys : uc[k] = m
        /\ \A k \in CollKeys : uc[k] <= m

TheId(p) == CHOOSE i \in Ids : i \in req[p].ids

\* extract_resource: get_bso_timestamp does not look at the expiry, a missing
\* collection or BSO has timestamp 0.
ResourceTimestamp(p) ==
    LET c == req[p].coll
        m == IF req[p].kind = "delete_all" THEN StorageTimestamp
             ELSE IF req[p].kind \in BsoKinds THEN bso[c][TheId(p)].mod
             ELSE IF req[p].cached # Absent THEN req[p].cached ELSE uc[c]
    IN  IF m = Absent THEN 0 ELSE m

CheckPrecondition(p) ==
    LET fails == req[p].since # NotSet /\ ResourceTimestamp(p) > req[p].since IN
    /\ req[p].pc = "check"
    /\ req' = [req EXCEPT ![p].pc = IF fails THEN "commit" ELSE "handle",
                          ![p].status = IF fails THEN 412 ELSE 0]
    /\ UNCHANGED <<now, uc, bso, txn, torn>>

-----------------------------------------------------------------------------
(* Writing handlers. *)

\* put_bso, and post_bsos item by item: an item whose statement fails is
\* reported, and the others are written.
PutBsos(p) ==
    LET r == req[p] IN
    /\ In(p, "handle", PostKinds)
    /\ \E done \in SUBSET r.ids :
          /\ r.kind = "put_bso" => done = r.ids
          /\ RowsFree(p, {r.coll} \X done)
          /\ SetTxn(p, Putting(txn[p], r.coll, done, r.body, r.ts))
    /\ Goto(p, "touch")

\* delete_bso: only a BSO that has not expired; 404 otherwise.
DeleteBso(p) ==
    LET r   == req[p]
        row == BsoView(txn[p], r.coll, TheId(p))
    IN
    /\ In(p, "handle", {"delete_bso"})
    /\ RowsFree(p, {r.coll} \X r.ids)
    /\ IF Present(row) /\ row.exp > r.ts
       THEN /\ SetTxn(p, DeletedRows(txn[p], r.coll, r.ids))
            /\ Goto(p, "touch")
       ELSE Close(p)

DeleteBsos(p) ==
    LET r == req[p] IN
    /\ In(p, "handle", {"delete_bsos"})
    /\ RowsFree(p, {r.coll} \X r.ids)
    /\ SetTxn(p, DeletedRows(txn[p], r.coll, r.ids))
    /\ Goto(p, "touch")

\* touch_collection, the last statement of each of these.
Touch(p) ==
    /\ req[p].pc = "touch"
    /\ Upsertable(p, req[p].coll)
    /\ SetTxn(p, Touched(txn[p], req[p].coll, req[p].ts))
    /\ Respond(p)

\* What a deletion of all its BSOs reads, rows others are inserting included.
RowsOf(c) == {c} \X Ids

\* Mutant of DeleteCollection: the BSOs are left to a cascade.
DeleteCollectionRowOnly(p) ==
    LET r == req[p] IN
    /\ In(p, "handle", {"delete_collection"})
    /\ RowsFree(p, RowsOf(r.coll)) /\ Lockable(p, Tombstone)
    /\ SetTxn(p, IF uc[r.coll] = Absent THEN txn[p]
                 ELSE Touched(DeletedColl(txn[p], r.coll), Tombstone, r.ts))
    /\ Respond(p)

\* delete_collection: its BSOs, its row, the tombstone.  Nothing to delete is
\* CollectionNotFound, which the handler answers like a success.
DeleteCollection(p) ==
    LET r == req[p]
        t == DeletedRows(txn[p], r.coll, Ids)
        empty == \A i \in Ids : ~Present(bso[r.coll][i])
    IN
    /\ In(p, "handle", {"delete_collection"})
    /\ RowsFree(p, RowsOf(r.coll))
    /\ \/ uc[r.coll] = Absent /\ empty /\ SetTxn(p, t)
       \/ uc[r.coll] = Absent /\ ~empty /\ Upsertable(p, Tombstone)
          /\ SetTxn(p, Touched(t, Tombstone, r.ts))
       \/ uc[r.coll] # Absent /\ Upsertable(p, Tombstone)
          /\ SetTxn(p, Touched(DeletedColl(t, r.coll), Tombstone, r.ts))
    /\ Respond(p)

\* delete_storage, in the transaction the handler begins: the BSOs ...
DeleteAllBsos(p) ==
    /\ In(p, "handle", {"delete_all"})
    /\ \A q \in Clients \ {p} : txn[q].rows = {} /\ ~txn[q].all
    /\ SetTxn(p, [Begun EXCEPT !.all = TRUE,
                     !.wb = [c \in Collections |-> [i \in Ids |-> NoRow]]])
    /\ Goto(p, "finish")

\* ... then the collections, the tombstone among them.
DeleteAllCollections(p) ==
    /\ In(p, "finish", {"delete_all"})
    /\ \A k \in CollKeys : Lockable(p, k)
    /\ SetTxn(p, [txn[p] EXCEPT !.excl = {k \in CollKeys : uc[k] # Absent},
                                !.gaps = {k \in CollKeys : uc[k] = Absent},
                                !.wc = [k \in CollKeys |-> Absent]])
    /\ Respond(p)

-----------------------------------------------------------------------------
(* GET of a collection: the BSOs, then its timestamp. *)

GetBsos(p) ==
    LET r == req[p] IN
    /\ In(p, "handle", {"get_collection"})
    /\ req' = [req EXCEPT ![p].pc = "finish",
                 ![p].items = [i \in Ids |->
                    IF Present(bso[r.coll][i]) /\ bso[r.coll][i].exp > r.ts
                    THEN bso[r.coll][i].mod ELSE Absent]]
    /\ UNCHANGED <<now, uc, bso, txn, torn>>

FinishGetCollection(p) ==
    /\ In(p, "finish", {"get_collection"})
    /\ req' = [req EXCEPT ![p].pc = "commit", ![p].status = 200,
                          ![p].lm = ResourceTimestamp(p)]
    /\ UNCHANGED <<now, uc, bso, txn, torn>>

-----------------------------------------------------------------------------
(* The end of a request. *)

CommitRequest(p) ==
    /\ req[p].pc = "commit"
    /\ Commit(p)
    /\ req' = [req EXCEPT ![p] = Idle]
    /\ UNCHANGED torn

\* An error the handler returns, a deadlock among them, or a client that goes
\* away.
GiveUp(p) == req[p].pc # "idle" /\ Close(p)

-----------------------------------------------------------------------------
(* A deadlock. *)

\* The next statement of p waits for a lock that q holds.
WaitsFor(p, q) ==
    LET r == req[p]
        t == txn[q]
        held == t.excl \cup t.share
        rowsHeld(xs) == xs \cap t.rows # {} \/ (xs # {} /\ t.all)
        upsertHeld(k) == k \in held \/ (CollView(txn[p], k) = Absent /\ k \in t.gaps)
    IN
    \/ In(p, "lock", WriteKinds) /\ r.coll \in held
    \/ In(p, "lock", {"get_collection"}) /\ r.coll \in t.excl
    \/ In(p, "handle", PostKinds \cup {"delete_bso", "delete_bsos"})
          /\ rowsHeld({r.coll} \X r.ids)
    \/ In(p, "handle", {"delete_collection"})
          /\ (rowsHeld(RowsOf(r.coll)) \/ upsertHeld(Tombstone))
    \/ r.pc = "touch" /\ upsertHeld(r.coll)
    \/ In(p, "handle", {"delete_all"}) /\ (t.rows # {} \/ t.all)
    \/ In(p, "finish", {"delete_all"}) /\ held # {}

\* Each of S waits for another of S.
Deadlock(S) == S # {} /\ \A p \in S : \E q \in S \ {p} : WaitsFor(p, q)

\* A cycle of waits; InnoDB breaks it by rolling back one of its transactions.
Cycle(S) == Deadlock(S) /\ \A T \in SUBSET S : Deadlock(T) => T = S

\* post_bsos takes it for the failure of an item and goes on with the items
\* after it; what it has written and locked is gone.
LoseTransaction(p) ==
    /\ In(p, "handle", {"post_bsos"}) \/ In(p, "touch", {"post_bsos"})
    /\ \E S \in SUBSET Clients : p \in S /\ Cycle(S)
    /\ \E left \in SUBSET req[p].ids :
          /\ left # req[p].ids
          /\ req' = [req EXCEPT ![p].pc = "alone", ![p].ids = left]
    /\ torn' = torn \cup {req[p].coll}
    /\ Rollback(p)

\* put_bso's INSERT ...
PutAlone(p) ==
    LET r == req[p] IN
    /\ r.pc = "alone"
    /\ \E i \in r.ids :
          /\ RowsFree(p, {<<r.coll, i>>})
          /\ bso' = [bso EXCEPT ![r.coll][i] = Upserted(@, r.body, r.ts)]
          /\ req' = [req EXCEPT ![p].pc = "stamp", ![p].ids = @ \ {i}]
    /\ UNCHANGED <<now, uc, txn, torn>>

\* ... its touch_collection, and that of post_bsos when no item is left.
TouchAlone(p) ==
    LET r == req[p] IN
    /\ r.pc = "stamp" \/ (r.pc = "alone" /\ r.ids = {})
    /\ Upsertable(p, r.coll)
    /\ uc' = [uc EXCEPT ![r.coll] = r.ts]
    /\ req' = [req EXCEPT ![p] = IF r.pc = "alone" THEN Idle
                                 ELSE [@ EXCEPT !.pc = "alone"]]
    /\ UNCHANGED <<now, bso, txn, torn>>

\* A put_bso that fails again, or only its touch_collection does, is reported.
FailAlone(p) ==
    /\ \/ /\ req[p].pc = "alone"
          /\ \E i \in req[p].ids : req' = [req EXCEPT ![p].ids = @ \ {i}]
       \/ req[p].pc = "stamp" /\ Goto(p, "alone")
    /\ UNCHANGED <<now, uc, bso, txn, torn>>

GoesOnAlone(p) == PutAlone(p) \/ TouchAlone(p) \/ FailAlone(p)

-----------------------------------------------------------------------------
Init ==
    /\ StoreInit
    /\ req = [p \in Clients |-> Idle]
    /\ torn = {}

Serve(p) ==
    \/ LockForRead(p) \/ LockForWrite(p) \/ LockConflict(p)
    \/ CheckPrecondition(p)
    \/ PutBsos(p) \/ DeleteBso(p) \/ DeleteBsos(p) \/ Touch(p)
    \/ DeleteCollection(p) \/ DeleteAllBsos(p) \/ DeleteAllCollections(p)
    \/ GetBsos(p) \/ FinishGetCollection(p)
    \/ CommitRequest(p)
    \/ LoseTransaction(p) \/ GoesOnAlone(p)

Next ==
    \/ \E p \in Clients : Start(p) \/ Serve(p) \/ GiveUp(p)
    \/ Tick /\ UNCHANGED <<req, torn>>

Spec == Init /\ [][Next]_vars

-----------------------------------------------------------------------------
(* Type invariant. *)
TypeOK ==
    /\ StoreTypeOK
    /\ req \in [Clients -> Request]
    /\ torn \in SUBSET Collections

(* No locking order leaves a BSO whose collection has no row, or is older    *)
(* than it, though nothing cascades here: delete_collection and              *)
(* delete_storage against writers that hold the row's lock or only its gap.  *)
(* Only a post_bsos that lost its transaction there may (post_bsos_sync).    *)
CollectionCoversBsos ==
    \A c \in Collections \ torn, i \in Ids :
        Present(bso[c][i]) => bso[c][i].mod <= uc[c]

(* X-If-Unmodified-Since holds at the moment a transaction's writes take     *)
(* effect: of two writers that saw the same state one fails, even where the  *)
(* collection has no row to lock (lock_for_write_sync, transaction_http).    *)
(* For a collection it is so even where some request writes without a        *)
(* transaction; a BSO such a request may still put.                          *)
PreconditionHolds ==
    [][\A p \in Clients :
          LET r == req[p] IN
          /\ r.pc = "commit" /\ req'[p].pc = "idle" /\ bso' # bso
          /\ r.since # NotSet /\ r.kind \in WriteKinds
          => IF r.kind \in BsoKinds
             THEN r.coll \in torn \/ \A i \in r.ids : bso[r.coll][i].mod <= r.since
             ELSE uc[r.coll] <= r.since]_vars

(* While a listing is read nothing is committed to its collection: a BSO     *)
(* that is stored when the answer is sent, is not newer than its             *)
(* X-Last-Modified and has not expired is in it, whether the collection had  *)
(* a row to lock or not (lock_for_read_sync, finish_get_collection).  Only a *)
(* post_bsos that lost its transaction in this collection may come between.  *)
ListingIsCurrent ==
    \A p \in Clients :
        LET r == req[p] IN
        /\ r.kind = "get_collection" /\ r.pc = "commit" /\ r.status = 200
        /\ r.coll \notin torn
        => \A i \in Ids :
              LET row == bso[r.coll][i] IN
              Present(row) /\ row.exp > r.ts => r.items[i] = row.mod /\ row.mod <= r.lm

(* Requests wait for each other in a circle, however many, and InnoDB has to *)
(* break one of them off, only where there is no row to lock (two have       *)
(* locked the gap of a collection that does not exist yet) or when one is    *)
(* DELETE /storage, which takes BSOs before collections                      *)
(* (lock_for_write_sync, delete_storage_sync).                               *)
DeadlockOnlyOverGaps ==
    \A S \in SUBSET Clients :
        Deadlock(S) => \/ \E p, q \in S : p # q /\ txn[p].gaps \cap txn[q].gaps # {}
                       \/ \E p \in S : req[p].kind = "delete_all"

Store == INSTANCE SyncStore
    WITH Collections <- Collections, Tombstone <- Tombstone, Ids <- Ids,
         MaxTime <- MaxTime, Bodies <- Bodies, now <- now, uc <- uc, bso <- bso

(* However statements and lock waits interleave, every request that keeps    *)
(* its transaction has the effect of one step of SyncStore or none: the      *)
(* promise Spanner's backend keeps with aborts, kept with row and gap locks. *)
(* What does not fit is a statement of a post_bsos without one               *)
(* (post_bsos_sync), and nothing else.                                       *)
TakesEffectAtOnce ==
    Store!Init /\ [][Store!Next \/ \E p \in Clients : GoesOnAlone(p)]_<<now, uc, bso>>
=============================================================================
