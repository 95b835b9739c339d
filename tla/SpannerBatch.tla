---------------------------- MODULE SpannerBatch ----------------------------
(***************************************************************************)
(* Batch uploads of one user on the Spanner backend: POST requests with    *)
(* ?batch, from lock_for_write through post_collection_batch and batch.rs  *)
(* to Commit, against DELETE of the collection, the purge and each other.  *)
(*                                                                         *)
(* The tables batches and batch_bsos are batch; what a request's open      *)
(* transaction did to them is work[p], next to its txn[p] of SpannerStore. *)
(* A retry is a second request like the first: requests overlap, and ids   *)
(* of spent batches are sent again.                                        *)
(*                                                                         *)
(* Left out: the reading of ids (uuids are never equal), item limits       *)
(* (Uploads), plain writes (SpannerRequests).                              *)
(***************************************************************************)
EXTENDS SpannerStore

CONSTANTS
    Batches,   \* uuids, each made once
    NewBatch,  \* ?batch=true: the request asks for a new batch
    Lifetime,  \* BATCH_LIFETIME
    Kinds,     \* the kinds of request clients send
    Bodies,    \* the columns a POST supplies for its BSOs
    Headers    \* X-If-Unmodified-Since, NotSet for a request without it

ASSUME BatchesAssumption == NewBatch \notin Batches
ASSUME LifetimeAssumption == Lifetime \in Nat \ {0}
ASSUME BatchKindsAssumption == Kinds \subseteq {"post", "delete"}
ASSUME BatchBodiesAssumption ==
    /\ Bodies # {}
    /\ Bodies \subseteq [val : Vals \cup {NotSet}, ttl : Nat \cup {NotSet}]
ASSUME HeadersAssumption == Headers \subseteq 0..MaxTime \cup {NotSet}

VARIABLES
    req,    \* the request each client has in progress
    batch,  \* the rows of batches and batch_bsos
    work,   \* what each transaction did to them
    wrote   \* history: the headers under which each collection was written

vars == <<now, uc, bso, txn, req, batch, work, wrote>>

NoBody  == [val |-> NotSet, ttl |-> NotSet]
NoItem  == [val |-> Absent, ttl |-> Absent]
NoItems == [i \in Ids |-> NoItem]
Item    == Bodies \cup {NoBody, NoItem}

AnyCollection == CHOOSE c \in Collections : TRUE

Batch == [st : {"fresh", "open", "gone"}, coll : Collections, exp : Nat,
          items : [Ids -> Item]]

Statuses == {0, 200, 202, 412}

Request ==
    [pc     : {"idle", "lock", "find", "items", "apply", "handle", "commit"},
     kind   : {"post", "delete"},
     coll   : Collections,
     ids    : SUBSET Ids,
     body   : Bodies \cup {NoBody},
     id     : Batches \cup {NewBatch},
     commit : BOOLEAN,
     since  : 0..MaxTime \cup {NotSet},
     ts     : 0..MaxTime,               \* session.timestamp
     failed : SUBSET Ids,               \* ids answered as failed
     status : Statuses]

Idle == [pc |-> "idle", kind |-> "post", coll |-> AnyCollection, ids |-> {},
         body |-> NoBody, id |-> NewBatch, commit |-> FALSE, since |-> NotSet,
         ts |-> 0, failed |-> {}, status |-> 0]

Work == [id      : Batches \cup {NewBatch},   \* the row of batches it read
         exp     : Nat,             \* expiry of the row it inserted, or 0
         adds    : [Ids -> Item],   \* rows of batch_bsos it inserted
         removed : SUBSET Batches,  \* rows of batches it deleted
         dead    : BOOLEAN]         \* another commit overwrote what it read

NoWork == [id |-> NewBatch, exp |-> 0, adds |-> NoItems, removed |-> {},
           dead |-> FALSE]

-----------------------------------------------------------------------------
\* The transaction's next statement is answered.
Live(p) == txn[p].mode = "rw" /\ ~work[p].dead

\* The request is over; its transaction is rolled back or was never begun.
Close(p) ==
    /\ Discard(p)
    /\ req' = [req EXCEPT ![p] = Idle]
    /\ work' = [work EXCEPT ![p] = NoWork]
    /\ UNCHANGED <<batch, wrote>>

SetTxn(p, t) ==
    /\ txn' = [txn EXCEPT ![p] = t]
    /\ UNCHANGED <<now, uc, bso, batch, wrote>>

\* What the transaction of p sees of its batch.
ItemsSeen(p) ==
    LET w == work[p] IN
    [i \in Ids |-> IF w.adds[i] # NoItem THEN w.adds[i] ELSE batch[w.id].items[i]]

\* SELECT 1 FROM batches ... AND expiry > CURRENT_TIMESTAMP().
Valid(b, c) == batch[b].st = "open" /\ batch[b].coll = c /\ batch[b].exp > now

ValidHere(p) ==
    IF work[p].exp # 0 THEN work[p].exp > now
    ELSE Valid(work[p].id, req[p].coll)

-----------------------------------------------------------------------------
(* A request arrives and locks its collection. *)

KnownIds == {b \in Batches : batch[b].st # "fresh"}

Start(p) ==
    /\ req[p].pc = "idle"
    /\ \E c \in Collections :
       \/ /\ "post" \in Kinds
          /\ \E ids \in SUBSET Ids, id \in KnownIds \cup {NewBatch},
                commit \in BOOLEAN, since \in Headers :
             \E body \in IF ids = {} THEN {NoBody} ELSE Bodies :
                req' = [req EXCEPT ![p] =
                          [Idle EXCEPT !.pc = "lock", !.coll = c, !.ids = ids,
                                       !.body = body, !.id = id,
                                       !.commit = commit, !.since = since]]
       \/ /\ "delete" \in Kinds
          /\ req' = [req EXCEPT ![p] = [Idle EXCEPT !.pc = "lock", !.coll = c,
                                                    !.kind = "delete"]]
    /\ UNCHANGED <<now, uc, bso, txn, batch, work, wrote>>

\* The header is older than the collection; 412.
Stale(r) == r.since # NotSet /\ uc[r.coll] > r.since

AfterLock(r) ==
    [r EXCEPT !.ts = now,
              !.pc = IF Stale(r) THEN "commit"
                     ELSE IF r.kind = "post" THEN "find" ELSE "handle",
              !.status = IF Stale(r) THEN 412 ELSE 0]

\* Mutant of Lock: the timestamp is read outside the transaction.
LockOutside(p) ==
    /\ req[p].pc = "lock"
    /\ uc[req[p].coll] < now
    /\ SetTxn(p, BeginWrite)
    /\ req' = [req EXCEPT ![p] = AfterLock(req[p])]
    /\ UNCHANGED work

\* lock_for_write and the precondition: the session's clock is past the
\* collection's timestamp.
Lock(p) ==
    /\ req[p].pc = "lock"
    /\ uc[req[p].coll] < now
    /\ SetTxn(p, Reading(BeginWrite, {req[p].coll}, {}))
    /\ req' = [req EXCEPT ![p] = AfterLock(req[p])]
    /\ UNCHANGED work

LockConflict(p) ==
    /\ req[p].pc = "lock"
    /\ uc[req[p].coll] >= now
    /\ Close(p)

-----------------------------------------------------------------------------
(* post_collection_batch: the batch. *)

\* A batch id that is unknown, spent, expired or another collection's; 400.
ValidateBatch(p) ==
    LET b == req[p].id IN
    /\ req[p].pc = "find" /\ b # NewBatch /\ Live(p)
    /\ IF Valid(b, req[p].coll)
       THEN /\ req' = [req EXCEPT ![p].pc = "items"]
            /\ work' = [work EXCEPT ![p].id = b]
            /\ UNCHANGED <<now, uc, bso, txn, batch, wrote>>
       ELSE Close(p)

\* Mutant of Pretouched: the parent is written, there or not.
PretouchedAlways(t, c) ==
    [Reading(t, {c}, {}) EXCEPT !.wc[c] = PRETOUCH]

\* pretouch_collection: a parent for the batch's row, if there is none.
Pretouched(t, c) ==
    [Reading(t, {c}, {}) EXCEPT
        !.wc[c] = IF CollView(t, c) = Absent THEN PRETOUCH ELSE @]

\* create, which appends no item yet.
CreateBatch(p) ==
    /\ req[p].pc = "find" /\ req[p].id = NewBatch /\ Live(p)
    /\ \E b \in Batches \ KnownIds :
          /\ \A q \in Clients : work[q].id # b
          /\ work' = [work EXCEPT ![p].id = b, ![p].exp = req[p].ts + Lifetime]
    /\ SetTxn(p, Pretouched(txn[p], req[p].coll))
    /\ req' = [req EXCEPT ![p].pc = "items"]

-----------------------------------------------------------------------------
(* post_collection_batch: the items of the request. *)

\* The items are in; without ?commit the answer is 202.
Received(p, failed) ==
    req' = [req EXCEPT ![p] =
              [@ EXCEPT !.failed = failed,
                        !.pc = IF req[p].commit THEN "apply" ELSE "commit",
                        !.status = IF req[p].commit THEN 0 ELSE 202]]

AppendHere(p) == ~(req[p].commit /\ req[p].ids # {})

\* Mutant of Appendable: INSERT OR UPDATE, item by item.
AppendableAlways(p) == ValidHere(p)

\* One INSERT of all the items: an id that is in the batch fails the statement.
Appendable(p) ==
    /\ ValidHere(p)
    /\ \A i \in req[p].ids : ItemsSeen(p)[i] = NoItem

AppendToBatch(p) ==
    /\ req[p].pc = "items" /\ AppendHere(p) /\ Live(p)
    /\ Appendable(p)
    /\ work' = [work EXCEPT ![p].adds =
                  [i \in Ids |-> IF i \in req[p].ids THEN req[p].body ELSE @[i]]]
    /\ Received(p, {})
    /\ UNCHANGED <<now, uc, bso, txn, batch, wrote>>

\* Mutant of AppendFails: the items count as received.
AppendFailsUnnoticed(p) ==
    /\ req[p].pc = "items" /\ AppendHere(p) /\ Live(p)
    /\ ~Appendable(p)
    /\ Received(p, {})
    /\ UNCHANGED <<now, uc, bso, txn, batch, work, wrote>>

\* The error of the statement is answered as failed items; the transaction
\* goes on.
AppendFails(p) ==
    /\ req[p].pc = "items" /\ AppendHere(p) /\ Live(p)
    /\ ~Appendable(p)
    /\ Received(p, req[p].ids)
    /\ UNCHANGED <<now, uc, bso, txn, batch, work, wrote>>

\* The items of a committing request are written to bsos at once.
PostBsos(p) ==
    LET r == req[p]
        t == Reading(Touched(txn[p], r.coll, r.ts), {}, {r.coll} \X r.ids)
    IN
    /\ r.pc = "items" /\ ~AppendHere(p) /\ Live(p)
    /\ SetTxn(p, Buffering(t, r.coll, r.ids, r.body, r.ts))
    /\ Received(p, {})
    /\ UNCHANGED work

\* SpannerTooLarge, after the collection was touched: failed items again.
PostBsosFails(p) ==
    LET r == req[p] IN
    /\ r.pc = "items" /\ ~AppendHere(p) /\ Live(p)
    /\ SetTxn(p, Reading(Touched(txn[p], r.coll, r.ts), {}, {r.coll} \X r.ids))
    /\ Received(p, r.ids)
    /\ UNCHANGED work

-----------------------------------------------------------------------------
(* The commit of the batch: batch_commit_update.sql, then                  *)
(* batch_commit_insert.sql, then the batch's own deletion.                 *)

\* An existing BSO, expired or not, takes the columns the item supplies.
UpdatedByItem(row, item, ts) ==
    [mod |-> ts,
     exp |-> IF item.ttl = NotSet THEN row.exp ELSE ts + item.ttl,
     val |-> IF item.val = NotSet THEN row.val ELSE item.val]

\* Mutant of InsertedByItem: no default for a missing payload.
InsertedNoDefault(item, ts) ==
    [mod |-> ts, exp |-> Expiry(ts, item.ttl), val |-> item.val]

InsertedByItem(item, ts) ==
    [mod |-> ts,
     exp |-> Expiry(ts, item.ttl),
     val |-> IF item.val = NotSet THEN 0 ELSE item.val]

Applied(t, c, items, ts) ==
    [Touched(Reading(t, {}, {c} \X Ids), c, ts) EXCEPT !.wb[c] =
        [i \in Ids |->
            IF items[i] = NoItem THEN @[i]
            ELSE IF Present(BsoView(t, c, i))
                 THEN UpdatedByItem(BsoView(t, c, i), items[i], ts)
            ELSE InsertedByItem(items[i], ts)]]

\* Mutant of CommitBatch: the batch stays.
CommitBatchKept(p) ==
    LET r == req[p] IN
    /\ r.pc = "apply" /\ Live(p)
    /\ IF ValidHere(p)
       THEN /\ SetTxn(p, Applied(txn[p], r.coll, ItemsSeen(p), r.ts))
            /\ req' = [req EXCEPT ![p].pc = "commit", ![p].status = 200]
            /\ UNCHANGED work
       ELSE Close(p)

\* get_batch and commit_batch.  A batch that expired since it was validated
\* takes the items of this request with it: BatchNotFound, rolled back.
CommitBatch(p) ==
    LET r == req[p] IN
    /\ r.pc = "apply" /\ Live(p)
    /\ IF ValidHere(p)
       THEN /\ SetTxn(p, Applied(txn[p], r.coll, ItemsSeen(p), r.ts))
            /\ req' = [req EXCEPT ![p].pc = "commit", ![p].status = 200]
            /\ work' = [work EXCEPT ![p].removed = {work[p].id}]
       ELSE Close(p)

\* delete_collection takes the batches along (ON DELETE CASCADE); a collection
\* that is only pretouched counts as missing.
DeleteCollection(p) ==
    LET r == req[p]
        t == Reading(txn[p], {r.coll, Tombstone}, {})
        exists == CollView(t, r.coll) > PRETOUCH
    IN
    /\ r.pc = "handle" /\ Live(p)
    /\ SetTxn(p, IF exists THEN DeletedCollection(t, r.coll, r.ts) ELSE t)
    /\ work' = [work EXCEPT ![p].removed =
                  IF exists THEN {b \in Batches : batch[b].st = "open"
                                                  /\ batch[b].coll = r.coll}
                  ELSE {}]
    /\ req' = [req EXCEPT ![p].pc = "commit", ![p].status = 200]

-----------------------------------------------------------------------------
(* The end of a request. *)

Added(w) == {i \in Ids : w.adds[i] # NoItem}

\* p's transaction read what that of q, committing, overwrites: a row of
\* batches, an item's key, all the items of a batch, all the batches of a
\* collection.
Overwrites(q, p) ==
    \/ work[p].id \in work[q].removed
    \/ work[p].id = work[q].id /\ Added(work[p]) \cap Added(work[q]) # {}
    \/ work[q].id \in work[p].removed /\ Added(work[q]) # {}
    \/ /\ work[q].exp # 0
       /\ req[p].kind = "delete" /\ req[p].pc = "commit"
       /\ req[p].coll = req[q].coll

Spent(b) == [batch[b] EXCEPT !.st = "gone", !.items = NoItems]

BatchAfter(p, b) ==
    IF b \in work[p].removed THEN Spent(b)
    ELSE IF work[p].id # b THEN batch[b]
    ELSE IF work[p].exp # 0
         THEN [st |-> "open", coll |-> req[p].coll, exp |-> work[p].exp,
               items |-> ItemsSeen(p)]
    ELSE [batch[b] EXCEPT !.items = ItemsSeen(p)]

\* The headers of the commits that wrote c, since c was last deleted.  A client
\* sends a timestamp it was told, which is older than the write it asks for.
WroteAfter(p, c) ==
    IF uc'[c] = Absent THEN {}
    ELSE IF uc'[c] # uc[c] /\ req[p].since \in 0..(uc'[c] - 1)
         THEN wrote[c] \cup {req[p].since}
    ELSE wrote[c]

CommitWrite(p) ==
    /\ req[p].pc = "commit" /\ Live(p)
    /\ MutationsApply(txn[p])
    /\ Commit(p)
    /\ batch' = [b \in Batches |-> BatchAfter(p, b)]
    /\ work' = [q \in Clients |->
                  IF q = p THEN NoWork
                  ELSE [work[q] EXCEPT !.dead = @ \/ Overwrites(p, q)]]
    /\ wrote' = [c \in Collections |-> WroteAfter(p, c)]
    /\ req' = [req EXCEPT ![p] = Idle]

\* Commit answers ALREADY_EXISTS: a mutation inserts a row the batch inserted.
CommitRefused(p) ==
    /\ req[p].pc = "commit" /\ Live(p)
    /\ ~MutationsApply(txn[p])
    /\ Close(p)

\* An aborted transaction, any other error, a client that goes away.
GiveUp(p) == req[p].pc # "idle" /\ Close(p)

\* purge_ttl: DELETE FROM batches WHERE expiry < CURRENT_TIMESTAMP().
PurgeBatch(b) ==
    /\ batch[b].st = "open"
    /\ batch[b].exp < now
    /\ batch' = [batch EXCEPT ![b] = Spent(b)]
    /\ work' = [p \in Clients |->
                  [work[p] EXCEPT !.dead = @ \/ work[p].id = b
                                             \/ b \in work[p].removed]]
    /\ UNCHANGED <<now, uc, bso, txn, req, wrote>>

-----------------------------------------------------------------------------
Init ==
    /\ StoreInit
    /\ req = [p \in Clients |-> Idle]
    /\ batch = [b \in Batches |-> [st |-> "fresh", coll |-> AnyCollection,
                                   exp |-> 0, items |-> NoItems]]
    /\ work = [p \in Clients |-> NoWork]
    /\ wrote = [c \in Collections |-> {}]

Serve(p) ==
    \/ Lock(p) \/ LockConflict(p)
    \/ ValidateBatch(p) \/ CreateBatch(p)
    \/ AppendToBatch(p) \/ AppendFails(p) \/ PostBsos(p) \/ PostBsosFails(p)
    \/ CommitBatch(p) \/ DeleteCollection(p)
    \/ CommitWrite(p) \/ CommitRefused(p)

Environment ==
    \/ Tick /\ UNCHANGED <<req, batch, work, wrote>>
    \/ \E c \in Collections, i \in Ids :
          PurgeRow(c, i) /\ UNCHANGED <<req, batch, work, wrote>>
    \/ \E b \in Batches : PurgeBatch(b)

Next ==
    \/ \E p \in Clients : Start(p) \/ Serve(p) \/ GiveUp(p)
    \/ Environment

Spec == Init /\ [][Next]_vars

-----------------------------------------------------------------------------
(* Type invariant. *)
TypeOK ==
    /\ StoreTypeOK
    /\ req \in [Clients -> Request]
    /\ batch \in [Batches -> Batch]
    /\ work \in [Clients -> Work]
    /\ wrote \in [Collections -> SUBSET (0..MaxTime)]

(* The row that only carries a batch is not taken for a collection with      *)
(* data, nor the reverse: where a BSO is stored the collection has a real    *)
(* timestamp that covers it, and an open batch has its parent, through       *)
(* deletions of the collection at any moment (pretouch_collection_async,     *)
(* "explicitly ignored by other queries"; touch_collection; ON DELETE        *)
(* CASCADE).                                                                 *)
ParentsTellTheTruth ==
    /\ \A c \in Collections, i \in Ids :
          Present(bso[c][i]) => uc[c] > PRETOUCH /\ bso[c][i].mod <= uc[c]
    /\ \A b \in Batches : batch[b].st = "open" => uc[batch[b].coll] # Absent

(* A commit is refused for one reason only: an item of the committing POST   *)
(* is pending in the batch too and was not stored before (post_bsos decides  *)
(* on INSERT before commit_async inserts the same row).                      *)
RefusedOnlyForRepeatedItem ==
    \A p \in Clients :
        LET r == req[p] IN
        r.pc = "commit" /\ Live(p) /\ ~MutationsApply(txn[p])
        => /\ r.commit
           /\ \E i \in r.ids : /\ batch[work[p].id].items[i] # NoItem
                               /\ ~Present(bso[r.coll][i])

\* p's request is answered, and its transaction committed, in this step.
Answered(p, status) ==
    req[p].pc = "commit" /\ req[p].status = status
    /\ req'[p].pc = "idle" /\ <<batch', uc', bso'>> # <<batch, uc, bso>>

(* What a POST is told is true when it is told.  202: the items that did not *)
(* fail are in the batch, and a failed one is as it was, though the          *)
(* transaction went on after the error.  200: what did not fail is stored,   *)
(* what was pending is too, and nothing is left of the batch                 *)
(* (post_collection_batch: "success", "failed").                             *)
AnswersAreTrue ==
    [][\A p \in Clients :
          LET r == req[p]
              b == work[p].id
              stored(i) == bso'[r.coll][i].mod = r.ts
          IN
          /\ Answered(p, 202) =>
                \A i \in Ids :
                   batch'[b].items[i] = IF i \in r.ids \ r.failed THEN r.body
                                        ELSE batch[b].items[i]
          /\ Answered(p, 200) /\ r.kind = "post" =>
                /\ batch'[b].st = "gone"
                /\ \A i \in r.ids \ r.failed :
                      r.body.val # NotSet
                      => stored(i) /\ bso'[r.coll][i].val = r.body.val
                /\ \A i \in Ids :
                      /\ (batch[b].items[i] # NoItem /\ i \notin r.ids) => stored(i)
                      /\ (batch[b].items[i] = NoItem /\ i \in r.failed)
                         => bso'[r.coll][i] = bso[r.coll][i]]_vars

(* A conditional write whose answer was lost is not applied again by its     *)
(* retry, while the first attempt is still open or after it: under one value *)
(* of X-If-Unmodified-Since, unless it is from the future, a collection is   *)
(* written once until it is deleted                                          *)
(* (transaction_http, lock_for_write).                                       *)
ConditionalOnce ==
    [][\A p \in Clients :
          LET c == req[p].coll IN
          /\ req[p].pc = "commit" /\ req'[p].pc = "idle"
          /\ req[p].since # NotSet
          /\ bso'[c] # bso[c]
          => req[p].since \notin wrote[c]]_vars

Upload == INSTANCE BatchUpload
    WITH Collections <- Collections, Tombstone <- Tombstone, Ids <- Ids,
         MaxTime <- MaxTime, Bodies <- Bodies, now <- now, uc <- uc, bso <- bso,
         Batches <- Batches, Lifetime <- Lifetime, NotPending <- NoItem,
         pending <- batch

(* A batch takes effect at once and at one timestamp: nothing of it shows    *)
(* before, the commit stores everything appended by then, concurrent appends *)
(* are in it or fail, and no batch is stored twice.                          *)
UploadsTakeEffectAtOnce == Upload!BatchSpec
=============================================================================
