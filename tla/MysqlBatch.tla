----------------------------- MODULE MysqlBatch -----------------------------
(***************************************************************************)
(* Batch uploads of one user on the MySQL backend: POST requests with      *)
(* ?batch, from lock_for_write through post_collection_batch and           *)
(* mysql/batch.rs to COMMIT.                                               *)
(*                                                                         *)
(* A row of batches is identified by the timestamp of the session that     *)
(* made it and holds its BSOs as lines of one text: a sequence of records, *)
(* appended to by concatenation and replayed by the commit.  Plain reads   *)
(* of a transaction see the snapshot its first one took (InnoDB's          *)
(* REPEATABLE READ), its UPDATE and DELETE statements the last committed   *)
(* rows.                                                                   *)
(*                                                                         *)
(* A deadlock inside append, put_bso or touch_collection is answered as a  *)
(* failed item: InnoDB has rolled the transaction back by then, and the    *)
(* commit that follows goes on statement by statement, without one.        *)
(*                                                                         *)
(* A request supplies at most one BSO.  DELETE of the collection, which    *)
(* leaves its batches alone here, is not a request of this module.         *)
(***************************************************************************)
EXTENDS MysqlStore, Sequences

CONSTANTS
    Bodies,     \* the columns a POST supplies for its BSO
    NewBatch,   \* ?batch=true
    NoBatch,    \* no row
    NoItem,     \* a request without a BSO
    Lifetime,   \* BATCH_LIFETIME
    MaxItems,   \* bound on the length of a batch
    MaxSkew,    \* how far a web server's clock is behind the furthest one
    MayFail     \* a statement that writes may fail and leave the transaction

BatchIds == 1..MaxTime

ASSUME BatchAssumption ==
    /\ Bodies \subseteq [val : Vals \cup {NotSet}, ttl : Nat \cup {NotSet}]
    /\ NewBatch \notin BatchIds
    /\ Lifetime \in Nat \ {0} /\ MaxItems \in Nat /\ MaxSkew \in Nat
    /\ MayFail \in BOOLEAN
    /\ MaxTime >= 2    \* the collections of Init were written at 1

VARIABLES
    req,    \* the request each client has in progress
    batch,  \* the committed rows of batches
    work,   \* what each transaction saw of them and did to them
    acked,  \* history: the records each batch was told to have received
    torn    \* history: collections where a request goes on without a transaction

vars == <<now, uc, bso, txn, req, batch, work, acked, torn>>

AnyCollection == CHOOSE c \in Collections : TRUE

Record == [id : Ids, body : Bodies]

Records == UNION {[1..n -> Record] : n \in 0..MaxItems}

Batch == [exp : Nat, items : Records]

ASSUME NamesAssumption == NoItem \notin Record /\ NoBatch \notin Batch

Request ==
    [pc     : {"idle", "lock", "check", "find", "items", "touch", "apply",
               "delete", "commit",
               "restamp", "reget", "alone", "stamp", "drop"},  \* without one
     coll   : Collections,
     item   : Record \cup {NoItem},
     id     : BatchIds \cup {NewBatch},
     commit : BOOLEAN,
     ts     : 0..MaxTime,
     failed : BOOLEAN,              \* its BSO is answered as failed
     left   : Records,              \* records still to replay without one
     status : {0, 200, 202}]

Idle == [pc |-> "idle", coll |-> AnyCollection, item |-> NoItem,
         id |-> NewBatch, commit |-> FALSE, ts |-> 0, failed |-> FALSE,
         left |-> <<>>, status |-> 0]

Work == [snap : [Collections -> [BatchIds -> Batch \cup {NoBatch}]],
         lock : SUBSET BatchIds,    \* rows of the collection's batches it locked
         row  : Batch \cup {NoBatch},  \* the row in lock after its statements
         mine : BOOLEAN]                \* they changed it

NoWork == [snap |-> [c \in Collections |-> [b \in BatchIds |-> NoBatch]],
           lock |-> {}, row |-> NoBatch, mine |-> FALSE]

-----------------------------------------------------------------------------
Close(p) ==
    /\ Rollback(p)
    /\ req' = [req EXCEPT ![p] = Idle]
    /\ work' = [work EXCEPT ![p] = NoWork]
    /\ UNCHANGED <<batch, acked, torn>>

\* The request does nothing to the committed rows and to its transaction.
KeepStore == UNCHANGED <<now, uc, bso, txn, batch, acked, torn>>

SetTxn(p, t) ==
    /\ txn' = [txn EXCEPT ![p] = t]
    /\ UNCHANGED <<now, uc, bso, batch, acked, torn>>

Goto(p, phase) == req' = [req EXCEPT ![p].pc = phase]

BatchFree(p, b) ==
    \A q \in Clients \ {p} : req[q].coll = req[p].coll => b \notin work[q].lock

\* The row an UPDATE or DELETE finds: the transaction's own or the last
\* committed one.
Latest(p, b) ==
    IF b \in work[p].lock THEN work[p].row ELSE batch[req[p].coll][b]

\* The transaction's statement leaves row in place of batch b.
Writing(p, b, row) ==
    work' = [work EXCEPT ![p].lock = {b}, ![p].row = row,
                         ![p].mine = @ \/ row # Latest(p, b)]

-----------------------------------------------------------------------------
(* A request arrives, locks its collection and checks its precondition,    *)
(* whose query is the first plain read where the lock found no row.        *)

Start(p) ==
    /\ req[p].pc = "idle"
    /\ \E c \in Collections, item \in Record \cup {NoItem}, commit \in BOOLEAN,
          id \in BatchIds \cup {NewBatch}, ts \in 1..now :
          /\ ts >= now - MaxSkew
          /\ req' = [req EXCEPT ![p] =
                       [Idle EXCEPT !.pc = "lock", !.coll = c, !.item = item,
                                    !.id = id, !.commit = commit, !.ts = ts]]
    /\ UNCHANGED work /\ KeepStore

Lock(p) ==
    /\ req[p].pc = "lock"
    /\ Lockable(p, req[p].coll)
    /\ IF uc[req[p].coll] < req[p].ts
       THEN /\ SetTxn(p, LockedForWrite(req[p].coll))
            /\ Goto(p, "check")
            /\ UNCHANGED work
       ELSE Close(p)

CheckPrecondition(p) ==
    /\ req[p].pc = "check"
    /\ work' = [work EXCEPT ![p].snap = batch]
    /\ Goto(p, "find")
    /\ KeepStore

-----------------------------------------------------------------------------
(* post_collection_batch. *)

Valid(row, ts) == row # NoBatch /\ row.exp > ts

\* validate: a plain read.
ValidateBatch(p) ==
    LET r == req[p] IN
    /\ r.pc = "find" /\ r.id # NewBatch
    /\ IF Valid(work[p].snap[r.coll][r.id], r.ts)
       THEN Goto(p, "items") /\ UNCHANGED work /\ KeepStore
       ELSE Close(p)

\* create: of two batches with one timestamp the second is a Conflict.
CreateBatch(p) ==
    LET r == req[p] IN
    /\ r.pc = "find" /\ r.id = NewBatch
    /\ BatchFree(p, r.ts)
    /\ IF batch[r.coll][r.ts] = NoBatch
       THEN /\ Writing(p, r.ts, [exp |-> r.ts + Lifetime, items |-> <<>>])
            /\ req' = [req EXCEPT ![p].pc = "items", ![p].id = r.ts]
            /\ KeepStore
       ELSE Close(p)

AppendHere(r) == ~(r.commit /\ r.item # NoItem)

\* Mutant of Appended: the text is replaced.
AppendedAlone(row, item) ==
    IF item = NoItem THEN row ELSE [row EXCEPT !.items = <<item>>]

Appended(row, item) ==
    IF item = NoItem THEN row ELSE [row EXCEPT !.items = Append(@, item)]

\* append: BatchNotFound, like any other error but a conflict, is answered as
\* a failed item and the transaction goes on.
AppendToBatch(p) ==
    LET r == req[p] IN
    /\ r.pc = "items" /\ AppendHere(r)
    /\ BatchFree(p, r.id)
    /\ \E fails \in {~Valid(Latest(p, r.id), r.ts), MayFail} :
          /\ Valid(Latest(p, r.id), r.ts) \/ fails
          /\ ~fails /\ r.item # NoItem => Len(Latest(p, r.id).items) < MaxItems
          /\ IF fails THEN UNCHANGED work
             ELSE Writing(p, r.id, Appended(Latest(p, r.id), r.item))
          /\ req' = [req EXCEPT ![p].pc = IF r.commit THEN "apply" ELSE "commit",
                                ![p].status = IF r.commit THEN 0 ELSE 202,
                                ![p].failed = fails]
    /\ KeepStore

\* post_bsos with the BSO of a committing request; a put_bso that fails is
\* only reported.
PostBso(p) ==
    LET r == req[p] IN
    /\ r.pc = "items" /\ ~AppendHere(r)
    /\ RowsFree(p, {<<r.coll, r.item.id>>})
    /\ \E fails \in {FALSE, MayFail} :
          /\ SetTxn(p, IF fails THEN txn[p]
                       ELSE Putting(txn[p], r.coll, {r.item.id}, r.item.body, r.ts))
          /\ req' = [req EXCEPT ![p].pc = "touch", ![p].failed = fails]
    /\ UNCHANGED work

\* touch_collection, at the end of put_bso and of post_bsos; an error of
\* post_bsos is answered as a failed item.
Touch(p) ==
    /\ req[p].pc = "touch"
    /\ Upsertable(p, req[p].coll)
    /\ \E fails \in {FALSE, MayFail} :
          /\ SetTxn(p, IF fails THEN txn[p] ELSE Touched(txn[p], req[p].coll, req[p].ts))
          /\ req' = [req EXCEPT ![p].pc = "apply", ![p].failed = @ \/ fails]
    /\ UNCHANGED work

\* Mutant of Replayed: of two records for one BSO the first wins.
ReplayedBackwards(t, c, items, ok, ts) ==
    LET step[k \in 0..Len(items)] ==
            IF k = 0 THEN t
            ELSE IF Len(items) + 1 - k \notin ok THEN step[k - 1]
            ELSE Putting(step[k - 1], c, {items[Len(items) + 1 - k].id},
                         items[Len(items) + 1 - k].body, ts)
    IN  step[Len(items)]

\* post_bsos with the records of a batch, in order; those in ok succeed.
Replayed(t, c, items, ok, ts) ==
    LET step[k \in 0..Len(items)] ==
            IF k = 0 THEN t
            ELSE IF k \notin ok THEN step[k - 1]
            ELSE Putting(step[k - 1], c, {items[k].id}, items[k].body, ts)
    IN  step[Len(items)]

\* get, a plain read: the row the transaction changed, or that of its snapshot.
Got(p) ==
    IF work[p].mine THEN work[p].row ELSE work[p].snap[req[p].coll][req[p].id]

\* commit: the records are written, the collection touched ...
CommitBatch(p) ==
    LET r == req[p]
        items == Got(p).items
    IN
    /\ r.pc = "apply"
    /\ IF Valid(Got(p), r.ts)
       THEN /\ RowsFree(p, {<<r.coll, items[k].id>> : k \in DOMAIN items})
            /\ Upsertable(p, r.coll)
            /\ \E ok \in SUBSET DOMAIN items :
                  /\ ~MayFail => ok = DOMAIN items
                  /\ SetTxn(p, Touched(Replayed(txn[p], r.coll, items, ok, r.ts),
                                       r.coll, r.ts))
            /\ Goto(p, "delete")
            /\ UNCHANGED work
       ELSE Close(p)

\* ... and the batch deleted, whatever became of the records.
DeleteBatch(p) ==
    /\ req[p].pc = "delete"
    /\ BatchFree(p, req[p].id)
    /\ Writing(p, req[p].id, NoBatch)
    /\ req' = [req EXCEPT ![p].pc = "commit", ![p].status = 200]
    /\ KeepStore

-----------------------------------------------------------------------------
(* The end of a request. *)

CommitRequest(p) ==
    LET r == req[p] IN
    /\ r.pc = "commit"
    /\ Commit(p)
    /\ batch' = [batch EXCEPT ![r.coll] =
                   [b \in BatchIds |-> IF b \in work[p].lock THEN work[p].row
                                       ELSE @[b]]]
    /\ acked' = [acked EXCEPT ![r.coll][r.id] =
                   IF r.status = 200 THEN <<>>
                   ELSE IF r.failed \/ r.item = NoItem THEN @
                   ELSE Append(@, r.item)]
    /\ work' = [work EXCEPT ![p] = NoWork]
    /\ req' = [req EXCEPT ![p] = Idle]
    /\ UNCHANGED torn

\* An error the handler returns, a deadlock in another place than those below,
\* or a client that goes away.
GiveUp(p) == req[p].pc # "idle" /\ Close(p)

-----------------------------------------------------------------------------
(* A deadlock inside append or post_bsos. *)

\* The next statement of p waits for a lock that q holds.
WaitsFor(p, q) ==
    LET r == req[p]
        t == txn[q]
        batchHeld == req[q].coll = r.coll /\ r.id \in work[q].lock
        upsertHeld == \/ r.coll \in t.excl \cup t.share
                      \/ CollView(txn[p], r.coll) = Absent /\ r.coll \in t.gaps
    IN
    \/ r.pc = "lock" /\ r.coll \in t.excl \cup t.share
    \/ r.pc = "items" /\ AppendHere(r) /\ batchHeld
    \/ r.pc = "items" /\ ~AppendHere(r) /\ <<r.coll, r.item.id>> \in t.rows
    \/ r.pc = "touch" /\ upsertHeld
    \/ r.pc = "apply" /\ Valid(Got(p), r.ts)
          /\ \/ upsertHeld
             \/ \E k \in DOMAIN Got(p).items : <<r.coll, Got(p).items[k].id>> \in t.rows
    \/ r.pc = "delete" /\ batchHeld

\* Each of S waits for another of S.
Deadlock(S) == S # {} /\ \A p \in S : \E q \in S \ {p} : WaitsFor(p, q)

\* A cycle of waits; InnoDB breaks it by rolling back one of its transactions.
Cycle(S) == Deadlock(S) /\ \A T \in SUBSET S : Deadlock(T) => T = S

\* Where a request that loses its transaction goes on, what it has written and
\* locked being gone: after its failed BSO, or at a record after the failed one.
GoesOnAt(p) ==
    LET r == req[p]
        at(phase, left) == [Idle EXCEPT !.pc = phase, !.coll = r.coll, !.id = r.id,
                                        !.ts = r.ts, !.left = left]
        items == Got(p).items
    IN
    IF r.pc # "apply"
    THEN {at(IF AppendHere(r) \/ r.failed THEN "reget" ELSE "restamp", <<>>)}
    ELSE IF items = <<>> THEN {at("drop", <<>>)}
    ELSE {at("alone", SubSeq(items, k + 1, Len(items))) : k \in DOMAIN items}

\* The handler takes it for a failed item and goes on; an append that is not
\* followed by a commit has nothing left to do then.
LoseTransaction(p) ==
    /\ \/ req[p].pc = "items" /\ req[p].commit
       \/ req[p].pc = "touch"
       \/ req[p].pc = "apply" /\ Valid(Got(p), req[p].ts)
    /\ \E S \in SUBSET Clients : p \in S /\ Cycle(S)
    /\ \E r \in GoesOnAt(p) : req' = [req EXCEPT ![p] = r]
    /\ work' = [work EXCEPT ![p] = NoWork]
    /\ torn' = torn \cup {req[p].coll}
    /\ Rollback(p)
    /\ UNCHANGED <<batch, acked>>

\* The commit's get.
GetAlone(p) ==
    LET r == req[p] IN
    /\ r.pc = "reget"
    /\ req' = [req EXCEPT ![p] =
                 IF Valid(batch[r.coll][r.id], r.ts)
                 THEN [r EXCEPT !.pc = "alone", !.left = batch[r.coll][r.id].items]
                 ELSE Idle]
    /\ UNCHANGED work /\ KeepStore

\* put_bso's INSERT of the next record ...
PutAlone(p) ==
    LET r == req[p] IN
    /\ r.pc = "alone" /\ r.left # <<>>
    /\ RowsFree(p, {<<r.coll, Head(r.left).id>>})
    /\ bso' = [bso EXCEPT ![r.coll][Head(r.left).id] =
                             Upserted(@, Head(r.left).body, r.ts)]
    /\ req' = [req EXCEPT ![p].pc = "stamp", ![p].left = Tail(@)]
    /\ UNCHANGED <<now, uc, txn, batch, work, acked, torn>>

Stamps(r) == r.pc \in {"restamp", "stamp"} \/ (r.pc = "alone" /\ r.left = <<>>)

AfterStamp(r) ==
    IF r.pc = "restamp" THEN "reget" ELSE IF r.pc = "stamp" THEN "alone" ELSE "drop"

\* ... its touch_collection, and that of each post_bsos.
TouchAlone(p) ==
    LET r == req[p] IN
    /\ Stamps(r)
    /\ Upsertable(p, r.coll)
    /\ uc' = [uc EXCEPT ![r.coll] = r.ts]
    /\ Goto(p, AfterStamp(r))
    /\ UNCHANGED <<now, bso, txn, batch, work, acked, torn>>

\* Each of these may fail, which is reported; the batch is deleted all the same.
FailAlone(p) ==
    /\ \/ Stamps(req[p]) /\ Goto(p, AfterStamp(req[p]))
       \/ /\ req[p].pc = "alone" /\ req[p].left # <<>>
          /\ req' = [req EXCEPT ![p].left = Tail(@)]
    /\ UNCHANGED work /\ KeepStore

DeleteAlone(p) ==
    LET r == req[p] IN
    /\ r.pc = "drop"
    /\ BatchFree(p, r.id)
    /\ batch' = [batch EXCEPT ![r.coll][r.id] = NoBatch]
    /\ acked' = [acked EXCEPT ![r.coll][r.id] = <<>>]
    /\ req' = [req EXCEPT ![p] = Idle]
    /\ UNCHANGED <<now, uc, bso, txn, work, torn>>

GoesOnAlone(p) ==
    \/ GetAlone(p) \/ PutAlone(p) \/ TouchAlone(p) \/ FailAlone(p) \/ DeleteAlone(p)

Init ==
    /\ now = 2
    /\ \E existing \in SUBSET Collections :   \* written to before
          uc = [k \in CollKeys |-> IF k \in existing THEN 1 ELSE Absent]
    /\ bso = [c \in Collections |-> [i \in Ids |-> NoRow]]
    /\ txn = [p \in Clients |-> NoTxn]
    /\ req = [p \in Clients |-> Idle]
    /\ batch = [c \in Collections |-> [b \in BatchIds |-> NoBatch]]
    /\ work = [p \in Clients |-> NoWork]
    /\ acked = [c \in Collections |-> [b \in BatchIds |-> <<>>]]
    /\ torn = {}

Serve(p) ==
    \/ Lock(p) \/ CheckPrecondition(p) \/ ValidateBatch(p) \/ CreateBatch(p)
    \/ AppendToBatch(p) \/ PostBso(p) \/ Touch(p)
    \/ CommitBatch(p) \/ DeleteBatch(p) \/ CommitRequest(p)
    \/ LoseTransaction(p) \/ GoesOnAlone(p)

Next ==
    \/ \E p \in Clients : Start(p) \/ Serve(p) \/ GiveUp(p)
    \/ Tick /\ UNCHANGED <<req, batch, work, acked, torn>>

Spec == Init /\ [][Next]_vars

-----------------------------------------------------------------------------
(* Type invariant. *)
TypeOK ==
    /\ StoreTypeOK
    /\ req \in [Clients -> Request]
    /\ batch \in [Collections -> [BatchIds -> Batch \cup {NoBatch}]]
    /\ work \in [Clients -> Work]
    /\ acked \in [Collections -> [BatchIds -> Records]]
    /\ torn \in SUBSET Collections

\* p's request commits its batch in this step.
Commits(p) == req[p].status = 200 /\ CommitRequest(p)

\* The positions of the records of s that give BSO i a content.
Giving(s, i) == {k \in DOMAIN s : s[k].id = i /\ s[k].body.val # NotSet}

Last(S) == CHOOSE k \in S : \A l \in S : l <= k

(* A record a batch was answered 202 for is stored by the commit that        *)
(* deletes the batch, and of two for one BSO the later one: appends and      *)
(* commits that overlap lose nothing, where the commit had a row of the      *)
(* collection to lock (mysql/batch.rs commit: "Commits a batch to the bsos   *)
(* table, deleting the batch when succesful").  A commit that lost its       *)
(* transaction to a deadlock and went on is not one of those meant here.     *)
AcknowledgedItemsAreStored ==
    [][\A p \in Clients : Commits(p) /\ req[p].coll \notin txn[p].gaps =>
          LET r == req[p]
              s == acked[r.coll][r.id]
          IN  \A i \in Ids :
                 /\ Giving(s, i) # {}
                 /\ r.item = NoItem \/ r.item.id # i
                 => bso'[r.coll][i].val = s[Last(Giving(s, i))].body.val]_vars

(* Of two requests that commit a batch at once only one is answered 200,     *)
(* also in a collection without a row, which neither of them could lock:     *)
(* there the touch_collection of one waits for the other's gap lock          *)
(* (mysql/models.rs lock_for_write_sync, batch.rs commit).  Excepted are     *)
(* collections where a request goes on without its transaction: it may       *)
(* delete a batch another one is committing.                                 *)
StoredOnce ==
    [][\A p \in Clients : Commits(p) /\ req[p].coll \notin torn =>
          LET r == req[p] IN
          work[p].snap[r.coll][r.id] # NoBatch => batch[r.coll][r.id] # NoBatch]_vars
=============================================================================
