--------------------------- MODULE SpannerRequests ---------------------------
(***************************************************************************)
(* The storage requests of one user on the Spanner backend, from           *)
(* DbTransactionPool::transaction_http (lock, precondition, handler,       *)
(* commit or rollback) down to SpannerDb's methods.                        *)
(*                                                                         *)
(* A request in progress is req[p]; its Spanner transaction is txn[p] of   *)
(* SpannerStore.  Each step is the code between two points where other     *)
(* requests can matter to it.  Statements of one handler share a step: if  *)
(* another commit falls between two of them and overwrites what the first  *)
(* read, the transaction is aborted, and otherwise the first could as well *)
(* have run later; only the clock and read-only transactions need steps of *)
(* their own, and have them.                                               *)
(*                                                                         *)
(* Left out: the id of a collection's name (its own cache and table), the  *)
(* batch tables, sorting, paging and the limits of a query.                *)
(***************************************************************************)
EXTENDS SpannerStore

CONSTANTS
    Kinds,     \* the kinds of request clients send
    Bodies,    \* the columns a PUT or POST supplies for its BSOs
    Preconds   \* the precondition headers clients send, "none" included

ReadKinds  == {"get_bso", "get_collection"}
PostKinds  == {"put_bso", "post_bsos"}
WriteKinds == PostKinds \cup {"delete_bso", "delete_bsos", "delete_collection"}
BsoKinds   == {"put_bso", "delete_bso", "get_bso"}
\* A request without a collection in its path takes no lock.
StorageKinds == {"delete_all", "info_collections"}

AllKinds == ReadKinds \cup WriteKinds \cup StorageKinds

ASSUME KindsAssumption == Kinds \subseteq AllKinds
ASSUME BodiesAssumption ==
    Bodies \subseteq [val : Vals \cup {NotSet}, ttl : Nat \cup {NotSet}]
ASSUME PrecondsAssumption ==
    Preconds \subseteq {"none", "if_modified_since", "if_unmodified_since"}

VARIABLES
    req,   \* the request each client has in progress
    high   \* history: the greatest modified each collection has committed

vars == <<now, uc, bso, txn, req, high>>

\* Placeholders of the fields a request does not use.
AnyCollection == CHOOSE c \in Collections : TRUE
NoBody == [val |-> NotSet, ttl |-> NotSet]
NothingRead == [i \in Ids |-> Absent]

Phases == {"idle", "lock", "timestamp", "check", "handle", "finish", "commit"}
Statuses == {0, 200, 304, 404, 412}

Request ==
    [pc     : Phases,
     kind   : AllKinds,
     coll   : Collections,
     ids    : SUBSET Ids,
     body   : Bodies \cup {NoBody},
     pre    : {"none", "if_modified_since", "if_unmodified_since"},
     since  : 0..MaxTime,            \* the precondition header's timestamp
     ts     : 0..MaxTime,            \* session.timestamp, 0 when not read yet
     cached : Absent..MaxTime,       \* coll_modified_cache for coll
     rts    : 0..MaxTime,            \* resource_ts
     status : Statuses,              \* the response built so far
     lm     : 0..MaxTime,            \* its X-Last-Modified
     items  : [Ids -> Absent..MaxTime]]  \* modified of the BSOs it returns

Idle == [pc |-> "idle", kind |-> "info_collections", coll |-> AnyCollection,
         ids |-> {}, body |-> NoBody, pre |-> "none", since |-> 0,
         ts |-> 0, cached |-> Absent, rts |-> 0,
         status |-> 0, lm |-> 0, items |-> NothingRead]

\* The ids in a request: one for a BSO's path, any set in a POST, at least one
\* in DELETE ?ids=, none otherwise.
IdsOf(kind) ==
    IF kind \in BsoKinds THEN {{i} : i \in Ids}
    ELSE IF kind = "post_bsos" THEN SUBSET Ids
    ELSE IF kind = "delete_bsos" THEN (SUBSET Ids) \ {{}}
    ELSE {{}}

-----------------------------------------------------------------------------
\* The session's next statement fails: its transaction is aborted.
Live(p) == txn[p].mode # "dead"

In(p, phase, kinds) == req[p].pc = phase /\ req[p].kind \in kinds

Goto(p, phase) == req' = [req EXCEPT ![p].pc = phase]

\* The handler's Ok response; the transaction goes on to its commit.
Respond(p, status, lm) ==
    req' = [req EXCEPT ![p] = [@ EXCEPT !.pc = "commit", !.status = status,
                                        !.lm = lm]]

\* The request is over; what its transaction wrote and did not commit is lost.
Close(p) ==
    /\ Discard(p)
    /\ req' = [req EXCEPT ![p] = Idle]
    /\ UNCHANGED high

SetTxn(p, t) ==
    /\ txn' = [txn EXCEPT ![p] = t]
    /\ UNCHANGED <<now, uc, bso, high>>

-----------------------------------------------------------------------------
(* Timestamps of resources, as the request's transaction t sees them. *)

BsoTimestamp(t, c, i) ==
    IF Visible(BsoView(t, c, i)) THEN BsoView(t, c, i).mod ELSE 0

\* MAX(modified), the tombstone included.
StorageTimestamp(t) ==
    CHOOSE m \in 0..MaxTime :
        /\ m = 0 \/ \E k \in CollKeys : CollView(t, k) = m
        /\ \A k \in CollKeys : CollView(t, k) <= m

TheId(p) == CHOOSE i \in Ids : i \in req[p].ids

\* extract_resource: the timestamp of the BSO, collection or storage.
ResourceTimestamp(p, t) ==
    IF req[p].kind \in StorageKinds THEN StorageTimestamp(t)
    ELSE IF req[p].kind \in BsoKinds THEN BsoTimestamp(t, req[p].coll, TheId(p))
    ELSE IF req[p].cached # Absent THEN req[p].cached
    ELSE CollTimestamp(t, req[p].coll)

\* The transaction after that query.  With no transaction yet, get_transaction
\* begins a read-write one.
AfterResourceQuery(p) ==
    IF req[p].kind \in StorageKinds THEN Reading(BeginWrite, CollKeys, {})
    ELSE IF req[p].kind \in ReadKinds THEN txn[p]
    ELSE IF req[p].kind \in BsoKinds
         THEN Reading(txn[p], {}, {<<req[p].coll, TheId(p)>>})
    ELSE Reading(txn[p], {req[p].coll}, {})

-----------------------------------------------------------------------------
(* A request arrives: DbTransactionPool::from_request. *)

Arriving(kind, c, ids, body, pre, since) ==
    [Idle EXCEPT !.pc = IF kind \in StorageKinds THEN "check" ELSE "lock",
                 !.kind = kind, !.coll = c, !.ids = ids,
                 !.body = body, !.pre = pre, !.since = since]

Start(p) ==
    /\ req[p].pc = "idle"
    /\ \E kind \in Kinds, c \in Collections, pre \in Preconds :
       \E ids \in IdsOf(kind),
          body \in IF kind \in PostKinds THEN Bodies ELSE {NoBody},
          since \in IF pre = "none" THEN {0} ELSE 0..MaxTime :
          /\ kind \in StorageKinds => c = AnyCollection
          /\ req' = [req EXCEPT ![p] = Arriving(kind, c, ids, body, pre, since)]
    /\ UNCHANGED <<now, uc, bso, txn, high>>

\* lock_for_read: one snapshot serves every statement of the request.
LockForRead(p) ==
    /\ In(p, "lock", ReadKinds)
    /\ SetTxn(p, BeginRead)
    /\ Goto(p, "check")

\* Mutant of LockForWrite: the clock need not have moved.
LockForWriteSameTime(p) ==
    LET c == req[p].coll IN
    /\ In(p, "lock", WriteKinds)
    /\ uc[c] > PRETOUCH
    /\ uc[c] <= now
    /\ SetTxn(p, Reading(BeginWrite, {c}, {}))
    /\ req' = [req EXCEPT ![p].pc = "check", ![p].ts = now, ![p].cached = uc[c]]

\* Mutant of LockForWrite: the timestamp is read outside the transaction.
LockForWriteUnlocked(p) ==
    LET c == req[p].coll IN
    /\ In(p, "lock", WriteKinds)
    /\ uc[c] > PRETOUCH
    /\ uc[c] < now
    /\ SetTxn(p, BeginWrite)
    /\ req' = [req EXCEPT ![p].pc = "check", ![p].ts = now, ![p].cached = uc[c]]

\* lock_for_write, the collection has a timestamp: it must be in the past.
LockForWrite(p) ==
    LET c == req[p].coll IN
    /\ In(p, "lock", WriteKinds)
    /\ uc[c] > PRETOUCH
    /\ uc[c] < now
    /\ SetTxn(p, Reading(BeginWrite, {c}, {}))
    /\ req' = [req EXCEPT ![p].pc = "check", ![p].ts = now, ![p].cached = uc[c]]

\* lock_for_write: the write would not advance the timestamp; 503.
LockConflict(p) ==
    LET c == req[p].coll IN
    /\ In(p, "lock", WriteKinds)
    /\ uc[c] > PRETOUCH
    /\ uc[c] >= now
    /\ Close(p)

\* lock_for_write, no timestamp yet: a second query reads the clock.
LockForWriteNew(p) ==
    LET c == req[p].coll IN
    /\ In(p, "lock", WriteKinds)
    /\ uc[c] <= PRETOUCH
    /\ SetTxn(p, Reading(BeginWrite, {c}, {}))
    /\ Goto(p, "timestamp")

ReadClock(p) ==
    /\ req[p].pc = "timestamp" /\ Live(p)
    /\ req' = [req EXCEPT ![p].pc = "check", ![p].ts = now]
    /\ UNCHANGED <<now, uc, bso, txn, high>>

-----------------------------------------------------------------------------
(* check_precondition of transaction_http. *)

\* The status of a request whose precondition fails, else 0.
PreconditionStatus(r, rts) ==
    IF r.pre = "if_modified_since" /\ rts <= r.since THEN 304
    ELSE IF r.pre = "if_unmodified_since" /\ rts > r.since THEN 412
    ELSE 0

Checked(r, rts, status) ==
    [r EXCEPT !.pc = IF status = 0 THEN "handle" ELSE "commit",
              !.rts = rts, !.status = status,
              !.lm = IF status = 0 THEN 0 ELSE rts]

CheckPrecondition(p) ==
    LET t   == AfterResourceQuery(p)
        rts == ResourceTimestamp(p, t)
    IN
    /\ req[p].pc = "check" /\ Live(p)
    /\ SetTxn(p, t)
    /\ req' = [req EXCEPT ![p] =
                 Checked(req[p], rts, PreconditionStatus(req[p], rts))]

-----------------------------------------------------------------------------
(* Writing handlers. *)

\* post_bsos, which put_bso calls with its one BSO.
PostBsos(p) ==
    LET r == req[p]
        t == Reading(Touched(txn[p], r.coll, r.ts), {}, {r.coll} \X r.ids)
    IN
    /\ In(p, "handle", PostKinds) /\ Live(p)
    /\ SetTxn(p, Buffering(t, r.coll, r.ids, r.body, r.ts))
    /\ Respond(p, 200, r.ts)

\* Mutant of DeleteBso: the 404 is a response like any other.
DeleteBsoCommits404(p) ==
    LET r == req[p]
        t == Touched(txn[p], r.coll, r.ts)
    IN
    /\ In(p, "handle", {"delete_bso"}) /\ Live(p)
    /\ IF Present(BsoView(t, r.coll, TheId(p)))
       THEN /\ SetTxn(p, DeletedRows(t, r.coll, r.ids))
            /\ Respond(p, 200, r.rts)
       ELSE SetTxn(p, t) /\ Respond(p, 404, r.rts)

\* delete_bso: a missing BSO is a 404, and the touch before it is undone.
DeleteBso(p) ==
    LET r == req[p]
        t == Touched(txn[p], r.coll, r.ts)
    IN
    /\ In(p, "handle", {"delete_bso"}) /\ Live(p)
    /\ IF Present(BsoView(t, r.coll, TheId(p)))
       THEN /\ SetTxn(p, DeletedRows(t, r.coll, r.ids))
            /\ Respond(p, 200, r.rts)
       ELSE Close(p)

DeleteBsos(p) ==
    LET r == req[p] IN
    /\ In(p, "handle", {"delete_bsos"}) /\ Live(p)
    /\ SetTxn(p, Touched(DeletedRows(txn[p], r.coll, r.ids), r.coll, r.ts))
    /\ Respond(p, 200, r.ts)

\* delete_collection: nothing happens to a collection without a row.
DeleteCollection(p) ==
    LET r == req[p]
        t == Reading(txn[p], {r.coll, Tombstone}, {})
    IN
    /\ In(p, "handle", {"delete_collection"}) /\ Live(p)
    /\ SetTxn(p, IF CollView(t, r.coll) > PRETOUCH
                 THEN DeletedCollection(t, r.coll, r.ts)
                 ELSE Reading(t, CollKeys, {}))
    /\ Respond(p, 200, r.rts)

\* delete_storage: every row of the user, in a transaction that did nothing yet.
DeletedStorage ==
    [Reading(BeginWrite, CollKeys, Collections \X Ids) EXCEPT
        !.wc = [k \in CollKeys |-> Absent],
        !.wb = [c \in Collections |-> [i \in Ids |-> NoRow]]]

\* delete_all: the handler begins a transaction of its own, whatever became of
\* the one the precondition was checked in.
DeleteAll(p) ==
    /\ In(p, "handle", {"delete_all"})
    /\ SetTxn(p, DeletedStorage)
    /\ Respond(p, 200, req[p].rts)

-----------------------------------------------------------------------------
(* Reading handlers. *)

\* modified of the BSOs ids of c that the transaction sees.
Found(t, c, ids) ==
    [i \in Ids |-> IF i \in ids /\ Visible(BsoView(t, c, i))
                   THEN BsoView(t, c, i).mod ELSE Absent]

GetBso(p) ==
    LET found == Found(txn[p], req[p].coll, req[p].ids) IN
    /\ In(p, "handle", {"get_bso"})
    /\ req' = [req EXCEPT ![p] =
                 [@ EXCEPT !.pc = "commit", !.lm = req[p].rts,
                           !.status = IF found = NothingRead THEN 404 ELSE 200,
                           !.items = found]]
    /\ UNCHANGED <<now, uc, bso, txn, high>>

\* get_collection: the BSOs first (get_bsos, get_bso_ids) ...
GetBsos(p) ==
    /\ In(p, "handle", {"get_collection"})
    /\ req' = [req EXCEPT ![p] =
                 [@ EXCEPT !.pc = "finish",
                           !.items = Found(txn[p], req[p].coll, Ids)]]
    /\ UNCHANGED <<now, uc, bso, txn, high>>

\* ... then the collection's timestamp (finish_get_collection).
FinishGetCollection(p) ==
    /\ In(p, "finish", {"get_collection"})
    /\ Respond(p, 200, CollTimestamp(txn[p], req[p].coll))
    /\ UNCHANGED <<now, uc, bso, txn, high>>

\* GET /info/*: one more query in the transaction the first one began.
GetInfo(p) ==
    /\ In(p, "handle", {"info_collections"}) /\ Live(p)
    /\ SetTxn(p, Reading(txn[p], CollKeys, {}))
    /\ Respond(p, 200, req[p].rts)

-----------------------------------------------------------------------------
(* The end of a request. *)

\* db.commit() does nothing outside a write transaction.
CommitRead(p) ==
    /\ req[p].pc = "commit"
    /\ txn[p].mode = "ro"
    /\ Close(p)

\* Commit fails, and with it the request, when a mutation does not apply.
CommitWrite(p) ==
    /\ req[p].pc = "commit"
    /\ txn[p].mode = "rw"
    /\ IF MutationsApply(txn[p])
       THEN /\ Commit(p)
            /\ req' = [req EXCEPT ![p] = Idle]
            /\ high' = [c \in Collections |->
                          IF uc'[c] > high[c] THEN uc'[c] ELSE high[c]]
       ELSE Close(p)

\* Mutant of Aborted: only Commit notices.
AbortedAtCommit(p) ==
    /\ txn[p].mode = "dead"
    /\ req[p].pc = "commit"
    /\ Close(p)

\* ABORTED: the next statement, or Commit, fails with Conflict; 503.
Aborted(p) ==
    /\ txn[p].mode = "dead"
    /\ ~In(p, "handle", {"delete_all"})
    /\ Close(p)

\* Any other error of a statement or a handler (a gRPC failure, SpannerTooLarge)
\* rolls the transaction back; so, in effect, does a client that goes away or a
\* server that stops before the commit.
GiveUp(p) ==
    /\ req[p].pc # "idle"
    /\ Close(p)

-----------------------------------------------------------------------------
Init ==
    /\ StoreInit
    /\ req = [p \in Clients |-> Idle]
    /\ high = [c \in Collections |-> Absent]

Begin(p) == \/ LockForRead(p) \/ LockForWrite(p) \/ LockForWriteNew(p)
            \/ LockConflict(p) \/ ReadClock(p) \/ CheckPrecondition(p)

Handle(p) == \/ PostBsos(p) \/ DeleteBso(p) \/ DeleteBsos(p)
             \/ DeleteCollection(p) \/ DeleteAll(p)
             \/ GetBso(p) \/ GetBsos(p) \/ FinishGetCollection(p) \/ GetInfo(p)

End(p) == CommitRead(p) \/ CommitWrite(p) \/ Aborted(p)

\* What the server does on its own to get a request answered.
Serve(p) == Begin(p) \/ Handle(p) \/ End(p)

Environment ==
    \/ Tick /\ UNCHANGED <<req, high>>
    \/ \E p \in Clients : SpannerAbort(p) /\ UNCHANGED <<req, high>>
    \/ \E c \in Collections, i \in Ids :
          PurgeRow(c, i) /\ UNCHANGED <<req, high>>

Next == \/ \E p \in Clients : Start(p) \/ Serve(p) \/ GiveUp(p)
        \/ Environment

Spec == Init /\ [][Next]_vars

\* The server's executor keeps polling a request that can make progress.
FairSpec == Spec /\ \A p \in Clients : WF_vars(Serve(p))

-----------------------------------------------------------------------------
(* Type invariant. *)
TypeOK ==
    /\ StoreTypeOK
    /\ req \in [Clients -> Request]
    /\ high \in [Collections -> Absent..MaxTime]

(* A collection's timestamp covers its BSOs: no interleaving of writes,      *)
(* deletions and purges leaves a BSO whose collection is gone or is older    *)
(* than it (touch_collection against delete_collection and delete_storage).  *)
CollectionCoversBsos ==
    \A c \in Collections, i \in Ids :
        Present(bso[c][i]) => /\ uc[c] > PRETOUCH
                              /\ bso[c][i].mod <= uc[c]

(* The mutations a handler buffered still fit the rows when Commit applies   *)
(* them: post_bsos chose INSERT or UPDATE by a query made before (post_bsos, *)
(* commit_async).                                                            *)
BufferedMutationsApply ==
    \A p \in Clients :
        req[p].pc = "commit" /\ txn[p].mode = "rw" => MutationsApply(txn[p])

\* A row the purge job, and no request, removed.
Expired(c, i) == bso[c][i].exp < now /\ ~Present(bso'[c][i])

(* What a request changes in a collection that stays is newer than anything  *)
(* the collection ever showed, whichever writer committed in between: the    *)
(* collection's timestamp passes every earlier one, and a BSO whose modified *)
(* moves takes it ("Forbid the write if it would not properly incr the       *)
(* modified timestamp", lock_for_write).                                     *)
ContentAdvances ==
    [][\A c \in Collections, i \in Ids :
          bso'[c][i] # bso[c][i] /\ ~Expired(c, i) /\ uc'[c] # Absent
          => /\ uc'[c] > high[c]
             /\ bso'[c][i].mod \in {bso[c][i].mod, uc'[c], Absent}]_vars

\* The timestamps X-If-Unmodified-Since is about are not past since.
UnmodifiedSince(r) ==
    IF r.kind \in BsoKinds
    THEN \A i \in r.ids : Visible(bso[r.coll][i])
                          => bso[r.coll][i].mod <= r.since
    ELSE uc[r.coll] <= r.since

\* p's request ends in this step.
Ends(p) == req[p].pc # "idle" /\ req'[p].pc = "idle"

StoreChanges == uc' # uc \/ bso' # bso

(* X-If-Unmodified-Since holds at the moment a write takes effect and not    *)
(* only when check_precondition looked: of two writers that saw the same     *)
(* state one fails.                                                          *)
PreconditionHolds ==
    [][\A p \in Clients :
          /\ Ends(p) /\ StoreChanges
          /\ req[p].pre = "if_unmodified_since"
          /\ req[p].kind \in WriteKinds
          => UnmodifiedSince(req[p])]_vars

(* A request that is not answered 200 changes nothing, though delete_bso     *)
(* touches the collection before it finds no BSO and answers 404             *)
(* (transaction_http: "rollback if the HTTP response is an error").          *)
FailedRequestsChangeNothing ==
    [][\A p \in Clients :
          Ends(p) /\ StoreChanges => req[p].pc = "commit" /\ req[p].status = 200]_vars

(* A client that keeps the X-Last-Modified of GET /storage/<collection> and  *)
(* later asks for what is newer misses nothing: a BSO that is not newer than *)
(* that timestamp is one the answer had (lock_for_read, get_bsos,            *)
(* finish_get_collection).                                                   *)
NothingMissed ==
    \A p \in Clients :
        LET r == req[p] IN
        r.kind = "get_collection" /\ r.pc = "commit" /\ r.status = 200
        => \A i \in Ids :
              LET row == bso[r.coll][i] IN
              Visible(row) /\ row.mod <= r.lm => r.items[i] = row.mod

(* Deleting a collection advances the storage's timestamp: "X-Last-Modified  *)
(* timestamp at the storage level changing" (delete_collection,              *)
(* erect_tombstone; the db test asserts the new one is greater).             *)
DeletionAdvancesStorage ==
    [][\A p \in Clients :
          Ends(p) /\ req[p].kind = "delete_collection" /\ StoreChanges
          => \E k \in CollKeys : \A l \in CollKeys : uc'[k] > uc[l]]_vars

Store == INSTANCE SyncStore
    WITH Collections <- Collections, Tombstone <- Tombstone, Ids <- Ids,
         MaxTime <- MaxTime, Bodies <- Bodies, now <- now, uc <- uc, bso <- bso

(* However the statements of concurrent requests, aborts and purges mix,     *)
(* every request has the effect of one step of SyncStore or none: the locks, *)
(* the timestamps and the buffered mutations add up to atomic writes.        *)
TakesEffectAtOnce == Store!Spec

(* Every request is answered, whatever Spanner aborts and whoever conflicts. *)
RequestsAreAnswered ==
    \A p \in Clients : req[p].pc # "idle" ~> req[p].pc = "idle"
=============================================================================
