------------------------------- MODULE Listing -------------------------------
(***************************************************************************)
(* GET of a collection page by page: the query's filters, order, limit and *)
(* offset on both backends, and a client that follows X-Weave-Next-Offset  *)
(* while others write.                                                     *)
(*                                                                         *)
(* A page is read in one step: that it is of one moment is what            *)
(* SpannerRequests and MysqlRequests show.  The client repeats its first   *)
(* page's X-Last-Modified as X-If-Unmodified-Since.  Ids are numbers.       *)
(***************************************************************************)
EXTENDS Integers, SequencesExt

CONSTANTS
    NumIds,     \* BSO ids are 1..NumIds
    SortIndexes,\* values of sortindex
    Queries,    \* the queries clients make
    Ttls,       \* how long BSOs live
    MaxTime     \* bound on the clock

Ids == 1..NumIds
None == -1

Sortings == {"none", "newest", "oldest", "index"}

\* BsoQueryParams; newer and older are None for no bound, ids is empty for all
\* and limit is None for no limit.
Query == [newer : None..MaxTime, older : None..MaxTime, ids : SUBSET Ids,
          sort : Sortings, limit : {None} \cup (Nat \ {0}), full : BOOLEAN]

ASSUME ListingAssumption ==
    /\ NumIds \in Nat /\ MaxTime \in Nat
    /\ SortIndexes \subseteq Nat
    /\ Queries \subseteq Query
    /\ Ttls \subseteq Nat

VARIABLES
    backend,\* "spanner" or "mysql", for good
    now,    \* the clock
    uc,     \* the collection's timestamp, or Absent
    bsos,   \* its rows
    pager,  \* the client that reads it: its query, the next offset, the pages it got
            \* and, as history, the whole listing when it started
    deleted \* as history: the collection was deleted since the client started

vars == <<backend, now, uc, bsos, pager, deleted>>

NoRow  == [mod |-> 0, idx |-> 0, exp |-> 0]
Absent == 0

-----------------------------------------------------------------------------
(* The queries.  Both backends build the same WHERE and ORDER BY clauses,  *)
(* in one function (Spanner) or one for each kind of answer (MySQL).       *)

Matches(i, q) ==
    /\ bsos[i] # NoRow
    /\ bsos[i].exp > now
    /\ q.ids # {} => i \in q.ids
    /\ q.older # None => bsos[i].mod < q.older
    /\ q.newer # None => bsos[i].mod > q.newer

Key(i, q) == CASE q.sort = "newest" -> -bsos[i].mod
               [] q.sort = "oldest" -> bsos[i].mod
               [] q.sort = "index"  -> -bsos[i].idx
               [] q.sort = "none"   -> 0

\* The orders the database may answer in, anew for every page: ORDER BY names one
\* column or none (the tie-break is commented out), so rows of one key come in any.
Listings(q) ==
    {s \in SetToSeqs({i \in Ids : Matches(i, q)}) :
        \A j, k \in DOMAIN s : j < k => Key(s[j], q) <= Key(s[k], q)}

\* LIMIT limit + 1 OFFSET offset; the extra row tells whether there are more.
Fetched(s, q, offset) ==
    LET last == IF q.limit = None THEN Len(s) ELSE offset + q.limit + 1
    IN  SubSeq(s, offset + 1, IF last < Len(s) THEN last ELSE Len(s))

More(rows, q) == q.limit # None /\ Len(rows) > q.limit

\* Mutant of EncodeNextOffset: the offset before the page is not added.
EncodeNextOffsetOfPage(offset, modifieds) == Len(modifieds)

\* encode_next_offset.
EncodeNextOffset(offset, modifieds) == offset + Len(modifieds)

ModifiedsOf(rows) == [k \in DOMAIN rows |-> bsos[rows[k]].mod]

\* get_bsos on Spanner.
SpannerBsos(s, q, offset) ==
    LET rows == Fetched(s, q, offset) IN
    IF More(rows, q)
    THEN [items |-> Front(rows), next |-> EncodeNextOffset(offset, ModifiedsOf(Front(rows)))]
    ELSE [items |-> rows, next |-> None]

\* get_bso_ids on Spanner: ids and modifieds are two vectors.
SpannerBsoIds(s, q, offset) ==
    LET ids       == Fetched(s, q, offset)
        modifieds == ModifiedsOf(ids)
    IN
    IF More(ids, q)
    THEN [items |-> Front(ids), next |-> EncodeNextOffset(offset, Front(modifieds))]
    ELSE [items |-> ids, next |-> None]

\* Mutant of MysqlBsos: the extra row is answered.
MysqlBsosUnpopped(s, q, offset) ==
    LET rows == Fetched(s, q, offset) IN
    [items |-> rows, next |-> IF More(rows, q) THEN q.limit + offset ELSE None]

\* get_bsos on MySQL.
MysqlBsos(s, q, offset) ==
    LET rows == Fetched(s, q, offset) IN
    IF More(rows, q)
    THEN [items |-> Front(rows), next |-> q.limit + offset]
    ELSE [items |-> rows, next |-> None]

\* get_bso_ids on MySQL.
MysqlBsoIds(s, q, offset) ==
    LET ids == Fetched(s, q, offset) IN
    IF More(ids, q)
    THEN [items |-> Front(ids), next |-> q.limit + offset]
    ELSE [items |-> ids, next |-> None]

Page(s, q, offset) ==
    IF backend = "spanner"
    THEN IF q.full THEN SpannerBsos(s, q, offset) ELSE SpannerBsoIds(s, q, offset)
    ELSE IF q.full THEN MysqlBsos(s, q, offset) ELSE MysqlBsoIds(s, q, offset)

-----------------------------------------------------------------------------
(* The client that reads. *)

Answered(s, q, offset, since, got, whole) ==
    LET page == Page(s, q, offset) IN
    pager' = [pc |-> IF page.next = None THEN "done" ELSE "paging", query |-> q,
              offset |-> page.next, since |-> since,
              got |-> got \o page.items, whole |-> whole]

FirstPage ==
    /\ pager.pc = "idle"
    /\ \E q \in Queries : \E s \in Listings(q) : Answered(s, q, 0, uc, <<>>, s)
    /\ deleted' = FALSE
    /\ UNCHANGED <<backend, now, uc, bsos>>

\* The precondition fails once the collection has changed, but not once it is gone:
\* its timestamp is then 0.
NextPage ==
    /\ pager.pc = "paging"
    /\ IF uc > pager.since
       THEN pager' = [pager EXCEPT !.pc = "failed"]
       ELSE \E s \in Listings(pager.query) :
               Answered(s, pager.query, pager.offset, pager.since, pager.got, pager.whole)
    /\ UNCHANGED <<backend, now, uc, bsos, deleted>>

(* Others: they write with a newer timestamp, delete BSOs or the whole         *)
(* collection, and BSOs expire.                                                *)

Put(i) ==
    /\ now > uc
    /\ \E idx \in SortIndexes, ttl \in Ttls :
          bsos' = [bsos EXCEPT ![i] = [mod |-> now, idx |-> idx, exp |-> now + ttl]]
    /\ uc' = now
    /\ UNCHANGED <<backend, now, pager, deleted>>

Delete(i) ==
    /\ now > uc /\ bsos[i] # NoRow
    /\ bsos' = [bsos EXCEPT ![i] = NoRow]
    /\ uc' = now
    /\ UNCHANGED <<backend, now, pager, deleted>>

\* DELETE of the collection takes its timestamp with its rows.
DeleteCollection ==
    /\ uc # Absent
    /\ bsos' = [i \in Ids |-> NoRow]
    /\ uc' = Absent
    /\ deleted' = TRUE
    /\ UNCHANGED <<backend, now, pager>>

Tick ==
    /\ now < MaxTime
    /\ now' = now + 1
    /\ UNCHANGED <<backend, uc, bsos, pager, deleted>>

NewPager == [pc |-> "idle", offset |-> 0, since |-> None, got |-> <<>>, whole |-> <<>>,
             query |-> [newer |-> None, older |-> None, ids |-> {}, sort |-> "none",
                        limit |-> None, full |-> FALSE]]

\* The collection has any content when the client starts.
Init ==
    /\ backend \in {"spanner", "mysql"}
    /\ now = 3
    /\ bsos \in [Ids -> {NoRow} \cup [mod : {1, 2}, idx : SortIndexes, exp : {t + 3 : t \in Ttls}]]
    /\ uc = 2
    /\ pager = NewPager
    /\ deleted = FALSE

Next ==
    \/ FirstPage
    \/ NextPage
    \/ Tick
    \/ DeleteCollection
    \/ \E i \in Ids : Put(i) \/ Delete(i)

Spec == Init /\ [][Next]_vars

-----------------------------------------------------------------------------
\* got is whole but for the order of rows of one key: key by key the same, with
\* every row whose key no other has at its place.
IsUpToTies(got, whole, q) ==
    /\ Len(got) = Len(whole)
    /\ \A k \in DOMAIN whole :
          /\ Key(got[k], q) = Key(whole[k], q)
          /\ (\A l \in DOMAIN whole : Key(whole[l], q) = Key(whole[k], q) => l = k)
             => got[k] = whole[k]

(* The pages of a client that was never answered 412 are, one after the      *)
(* other, the listing as it was when it started, whatever others write,      *)
(* unless one of its BSOs has expired or the collection was deleted          *)
(* meanwhile: as many rows, with the same keys in the same order, and none   *)
(* whose key is its own is skipped, repeated or moved at a page's edge.  Of  *)
(* rows that compare equal one may come twice and another not at all         *)
(* (get_bsos, get_bso_ids, encode_next_offset).                              *)
PagesAreTheListing ==
    [][/\ pager'.pc = "done" /\ ~deleted'
       /\ \A k \in DOMAIN pager'.whole : Matches(pager'.whole[k], pager'.query)
       => IsUpToTies(pager'.got, pager'.whole, pager'.query)]_<<pager>>

(* Every offset leads on, so that a client that follows them ends (the       *)
(* changelog's "GETs with a limit and no sort never advance                  *)
(* X-Weave-Next-Offset").                                                    *)
OffsetsAdvance ==
    [][pager.pc = "paging" /\ pager'.pc = "paging" => pager'.offset > pager.offset]_<<pager>>
=============================================================================
