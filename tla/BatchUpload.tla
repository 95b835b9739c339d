----------------------------- MODULE BatchUpload -----------------------------
(***************************************************************************)
(* What batch uploads promise on top of SyncStore: items are appended to a *)
(* batch one request at a time, nobody sees them meanwhile, and the commit *)
(* stores all of them, and then the items of the committing request, in    *)
(* one step at one timestamp; the batch is spent by it.                    *)
(***************************************************************************)
EXTENDS SyncStore

CONSTANTS Batches, Lifetime,
          NotPending   \* in place of a BSO a batch does not hold

VARIABLE pending

Empty == [i \in Ids |-> NotPending]

\* The items, and after them those of the committing request.
Stored(row, item, ts) ==
    IF item = NotPending THEN row
    ELSE [WrittenOver(row, item, ts) EXCEPT !.mod = ts]

StoredLast(row, asked, body, ts) == IF asked THEN WrittenOver(row, body, ts) ELSE row

\* The items of batch b with those of one more request.
With(b, ids, body) == [i \in Ids |-> IF i \in ids THEN body ELSE pending[b].items[i]]

New(b, c, ids, body, ts) ==
    /\ pending[b].st = "fresh"
    /\ ts <= now
    /\ pending' = [pending EXCEPT ![b] =
                     [st |-> "open", coll |-> c, exp |-> ts + Lifetime,
                      items |-> With(b, ids, body)]]
    /\ uc' = [uc EXCEPT ![c] = IF @ = NoModified THEN 0 ELSE @]
    /\ UNCHANGED <<now, bso>>

\* An id is appended to a batch once.
Append(b, ids, body) ==
    /\ pending[b].st = "open"
    /\ \A i \in ids : pending[b].items[i] = NotPending
    /\ pending' = [pending EXCEPT ![b].items = With(b, ids, body)]
    /\ UNCHANGED <<now, uc, bso>>

\* The commit of an open batch of c, or of one opened by the same request.
Apply(b, c, ids, body, ts) ==
    /\ \/ pending[b].st = "fresh"
       \/ pending[b].st = "open" /\ pending[b].coll = c
    /\ Timestamp(c, ts)
    /\ uc' = [uc EXCEPT ![c] = ts]
    /\ bso' = [bso EXCEPT ![c] =
                 [i \in Ids |-> StoredLast(Stored(@[i], pending[b].items[i], ts),
                                           i \in ids, body, ts)]]
    /\ pending' = [pending EXCEPT ![b].st = "gone", ![b].items = Empty]
    /\ UNCHANGED now

Drop(bs) == pending' = [b \in Batches |->
                          IF b \in bs THEN [pending[b] EXCEPT !.st = "gone",
                                                              !.items = Empty]
                          ELSE pending[b]]

RemoveWithBatches(c, ts) ==
    /\ RemoveCollection(c, ts)
    /\ Drop({b \in Batches : pending[b].st = "open" /\ pending[b].coll = c})

Forget(b) ==
    /\ pending[b].st = "open"
    /\ pending[b].exp < now
    /\ Drop({b})
    /\ UNCHANGED <<now, uc, bso>>

BatchInit ==
    /\ Init
    /\ pending = [b \in Batches |->
                    [st |-> "fresh", coll |-> CHOOSE c \in Collections : TRUE,
                     exp |-> 0, items |-> Empty]]

BatchNext ==
    \/ \E b \in Batches, ids \in SUBSET Ids, body \in Bodies :
          \/ Append(b, ids, body)
          \/ \E c \in Collections, ts \in 1..MaxTime :
                New(b, c, ids, body, ts) \/ Apply(b, c, ids, body, ts)
    \/ \E c \in Collections, ts \in 1..MaxTime : RemoveWithBatches(c, ts)
    \/ \E b \in Batches : Forget(b)
    \/ Advance /\ UNCHANGED pending
    \/ \E c \in Collections, i \in Ids : Expire(c, i) /\ UNCHANGED pending

BatchSpec == BatchInit /\ [][BatchNext]_<<now, uc, bso, pending>>
=============================================================================
