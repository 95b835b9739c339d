------------------------- MODULE SpannerCollections -------------------------
(***************************************************************************)
(* Collection ids on the Spanner backend: get_collection_id in read and    *)
(* write transactions, create_collection as MAX(collection_id) + 1.        *)
(*                                                                         *)
(* Cloud Spanner is external: a read-only transaction reads one snapshot,  *)
(* a read-write transaction commits only if nobody else has written what   *)
(* it read.  (Its failure is noticed by a later statement; until then it   *)
(* does nothing others see, so it ends here when it is doomed.)            *)
(***************************************************************************)
EXTENDS CollectionCache

\* The collections a transaction sees.
View(p) ==
    LET r == req[p] IN
    IF r.kind = "read" THEN r.snap
    ELSE IF r.made # NoId THEN [table EXCEPT ![r.name] = r.made] ELSE table

\* begin: requests of collections; that of GET /info/..., at its first query, changes nothing.
Start(p) ==
    /\ req[p].pc = "idle"
    /\ \E kind \in {"read", "write", "info"}, n \in Names, s \in Servers :
          /\ kind = "info" => n = Idle.name
          /\ Goto(p, [Idle EXCEPT !.pc = IF kind = "info" THEN "info" ELSE "lookup",
                                  !.kind = kind, !.name = n, !.server = s,
                                  !.snap = IF kind = "read" THEN table ELSE StdTable])
    /\ UNCHANGED <<table, wrote, cache>>

\* Mutant of Lookup: what a write transaction reads is cached too.
LookupCached(p) ==
    LET r == [req[p] EXCEPT !.reads = @ \cup {req[p].name}]
        id == View(p)[r.name]
    IN
    /\ r.pc = "lookup" /\ CachedId(p, r.name) = NoId
    /\ Goto(p, IF id # NoId THEN [r EXCEPT !.pc = "put", !.puts = {<<id, r.name>>}]
               ELSE IF r.kind = "write" THEN [r EXCEPT !.pc = "create"]
               ELSE Resolved(r, NoId))
    /\ UNCHANGED <<table, wrote, cache>>

\* get_collection_id, not cached: CollectionNotFound is NoId for a reader.
Lookup(p) ==
    LET r == [req[p] EXCEPT !.reads = IF req[p].kind = "write" THEN @ \cup {req[p].name} ELSE @]
        id == View(p)[r.name]
    IN
    /\ r.pc = "lookup" /\ CachedId(p, r.name) = NoId
    /\ Goto(p, IF id = NoId /\ r.kind = "write" THEN [r EXCEPT !.pc = "create"]
               ELSE IF id = NoId \/ r.kind = "write" THEN Resolved(r, id)
               ELSE [r EXCEPT !.pc = "put", !.puts = {<<id, r.name>>}])
    /\ UNCHANGED <<table, wrote, cache>>

MaxCollectionId(t) == CHOOSE m \in CollIds \cup {NoId} :
    (\E n \in Names : t[n] = m) /\ \A n \in Names : t[n] <= m

\* Mutant of NewId: the next id, whatever it is.
NewIdNext(t) == MaxCollectionId(t) + 1

NewId(t) ==
    IF MaxCollectionId(t) + 1 > FirstCustom THEN MaxCollectionId(t) + 1 ELSE FirstCustom

\* Mutant of Create: the MAX is read outside the transaction.
CreateUnread(p) ==
    LET r == req[p] IN
    /\ r.pc = "create"
    /\ NewId(table) <= MaxId
    /\ Goto(p, Resolved([r EXCEPT !.made = NewId(table)], NewId(table)))
    /\ UNCHANGED <<table, wrote, cache>>

\* create_collection: the MAX is read in the transaction that inserts.
Create(p) ==
    LET r == req[p] IN
    /\ r.pc = "create"
    /\ NewId(table) <= MaxId
    /\ Goto(p, Resolved([r EXCEPT !.made = NewId(table), !.reads = Names], NewId(table)))
    /\ UNCHANGED <<table, wrote, cache>>

\* The request's BSOs are committed under id; who read the name is doomed.
Commit(p) ==
    LET r == req[p] IN
    /\ r.pc = "commit" /\ r.kind = "write"
    /\ table' = View(p)
    /\ wrote' = [wrote EXCEPT ![r.id] = @ \cup {r.name}]
    /\ req' = [q \in Clients |->
                 IF q = p \/ (r.made # NoId /\ r.name \in req[q].reads) THEN Idle ELSE req[q]]
    /\ UNCHANGED cache

SpannerNext ==
    \/ \E p \in Clients : Start(p) \/ Lookup(p) \/ Create(p) \/ Commit(p)
    \/ CacheNext
=============================================================================
