--------------------------- MODULE CollectionCache ---------------------------
(***************************************************************************)
(* The cache of collection ids and names that the sessions of one server   *)
(* share (CollectionCache of spanner/pool.rs and, the same code, of        *)
(* mysql/pool.rs), and the requests that answer with names.                *)
(*                                                                         *)
(* by_name and by_id are behind a lock each: between the two halves of a   *)
(* put other requests see one of them.                                     *)
(***************************************************************************)
EXTENDS Naturals

CONSTANTS
    Names,        \* names of collections
    StdColls,     \* STD_COLLS: the ids of the names that have one from the start
    FirstCustom,  \* FIRST_CUSTOM_COLLECTION_ID
    MaxId,        \* bound on ids
    Clients,      \* requests in progress
    Servers,      \* server processes on the database
    NoName        \* no entry

ASSUME NamesAssumption ==
    /\ FirstCustom \in Nat \ {0} /\ MaxId \in Nat /\ FirstCustom <= MaxId + 1
    /\ StdColls \in [DOMAIN StdColls -> 1..(FirstCustom - 1)]
    /\ DOMAIN StdColls \subseteq Names
    /\ \A m, n \in DOMAIN StdColls : m # n => StdColls[m] # StdColls[n]
    /\ Names # {} /\ Servers # {} /\ NoName \notin Names

CollIds == 1..MaxId
NoId == 0

StdTable == [n \in Names |-> IF n \in DOMAIN StdColls THEN StdColls[n] ELSE NoId]

VARIABLES
    table,  \* collections: the id of each name, or NoId
    wrote,  \* user_collections and bso: the names whose requests wrote to an id
    cache,  \* each server's cache
    req     \* each client's request

cacheVars == <<table, wrote, cache, req>>

Cache == [id : [Names -> CollIds \cup {NoId}],      \* by_name
          name : [CollIds -> Names \cup {NoName}]]  \* by_id

Pair == CollIds \X Names

Request ==
    [pc     : {"idle", "lookup", "create", "put", "commit", "info", "names", "answer"},
     server : Servers,
     kind   : {"read", "write", "info"},
     name   : Names,
     locked : BOOLEAN,                        \* the lock has been taken
     id     : CollIds \cup {NoId},            \* what get_collection_id returned
     made   : CollIds \cup {NoId},            \* inserted in its transaction
     snap   : [Names -> CollIds \cup {NoId}], \* collections at a read transaction's time
     reads  : SUBSET Names,                   \* names a write transaction has read
     puts   : SUBSET Pair,                    \* to be put into the cache
     half   : SUBSET Pair,                    \* put into by_name only
     ids    : SUBSET CollIds,                 \* collections to be answered with
     answer : [CollIds -> Names \cup {NoName}]]

Idle == [pc |-> "idle", server |-> CHOOSE s \in Servers : TRUE, kind |-> "info",
         name |-> CHOOSE n \in Names : TRUE, locked |-> FALSE, id |-> NoId,
         made |-> NoId, snap |-> StdTable, reads |-> {}, puts |-> {},
         half |-> {}, ids |-> {}, answer |-> [id \in CollIds |-> NoName]]

StdCache ==
    [id   |-> StdTable,
     name |-> [id \in CollIds |->
                 IF \E n \in DOMAIN StdColls : StdColls[n] = id
                 THEN CHOOSE n \in DOMAIN StdColls : StdColls[n] = id ELSE NoName]]

CachedId(p, n)    == cache[req[p].server].id[n]
CachedName(p, id) == cache[req[p].server].name[id]

Goto(p, r) == req' = [req EXCEPT ![p] = r]

\* get_collection_id returned: to the lock, which it is for, or to the handler,
\* which asks again, and then answers or writes.
Resolved(r, id) ==
    IF ~r.locked THEN [r EXCEPT !.locked = TRUE, !.pc = "lookup"]
    ELSE IF r.kind = "read" THEN Idle
    ELSE [r EXCEPT !.id = id, !.pc = "commit"]

-----------------------------------------------------------------------------
(* Steps of a request. *)

CacheHit(p) ==
    LET r == req[p] IN
    /\ r.pc = "lookup" /\ CachedId(p, r.name) # NoId
    /\ Goto(p, Resolved(r, CachedId(p, r.name)))
    /\ UNCHANGED <<table, wrote, cache>>

PutByName(p) ==
    /\ req[p].pc = "put" /\ req[p].half = {}
    /\ \E x \in req[p].puts :
          /\ cache' = [cache EXCEPT ![req[p].server].id[x[2]] = x[1]]
          /\ req' = [req EXCEPT ![p].half = {x}, ![p].puts = @ \ {x}]
    /\ UNCHANGED <<table, wrote>>

PutById(p) ==
    LET r == [req[p] EXCEPT !.half = {}] IN
    /\ req[p].pc = "put"
    /\ \E x \in req[p].half :
          /\ cache' = [cache EXCEPT ![r.server].name[x[1]] = x[2]]
          /\ Goto(p, IF r.puts # {} THEN r
                     ELSE IF r.kind = "info" THEN [r EXCEPT !.pc = "answer"]
                     ELSE Resolved(r, x[1]))
    /\ UNCHANGED <<table, wrote>>

Written == {id \in CollIds : wrote[id] # {}}

\* GET /info/...: collections with their timestamps, or those with BSOs that
\* have not expired, some of them, with counts or sizes; the handler begins nothing.
Answering(p, ids) == Goto(p, [req[p] EXCEPT !.pc = "names", !.ids = ids])

InfoTimestamps(p) == req[p].pc = "info" /\ Answering(p, Written)
InfoCounts(p)     == req[p].pc = "info" /\ \E ids \in SUBSET Written : Answering(p, ids)

InfoIds(p) ==
    /\ InfoTimestamps(p) \/ InfoCounts(p)
    /\ UNCHANGED <<table, wrote, cache>>

\* load_collection_names: the cached names, and those of the other ids in table t,
\* which are then cached (on Spanner not: its SELECT has begun a write transaction).
NamesIn(t, ids) == {x \in ids \X Names : t[x[2]] = x[1]}

LoadNames(p) ==
    LET r     == req[p]
        found == NamesIn(table, {id \in r.ids : CachedName(p, id) = NoName})
    IN
    /\ r.pc = "names"
    /\ Goto(p, [r EXCEPT !.pc = IF found = {} THEN "answer" ELSE "put",
                         !.puts = found,
                         !.answer = [id \in CollIds |->
                            IF id \notin r.ids THEN NoName
                            ELSE IF CachedName(p, id) # NoName THEN CachedName(p, id)
                            ELSE IF \E x \in found : x[1] = id
                            THEN (CHOOSE x \in found : x[1] = id)[2]
                            ELSE NoName]])
    /\ UNCHANGED <<table, wrote, cache>>

End(p) == Goto(p, Idle) /\ UNCHANGED <<table, wrote, cache>>

\* An error, a client that goes away, an answer of names.
GiveUp(p) == req[p].pc # "idle" /\ End(p)

\* A server process starts anew: with the standard names cached.
Restart(s) ==
    /\ cache' = [cache EXCEPT ![s] = StdCache]
    /\ req' = [p \in Clients |-> IF req[p].server = s THEN Idle ELSE req[p]]
    /\ UNCHANGED <<table, wrote>>

CacheInit ==
    /\ table = StdTable
    /\ wrote = [id \in CollIds |-> {}]
    /\ cache = [s \in Servers |-> StdCache]
    /\ req = [p \in Clients |-> Idle]

CacheNext ==
    \/ \E p \in Clients :
          CacheHit(p) \/ PutByName(p) \/ PutById(p) \/ InfoIds(p) \/ LoadNames(p) \/ GiveUp(p)
    \/ \E s \in Servers : Restart(s)

-----------------------------------------------------------------------------
(* Type invariant: ids of names outside STD_COLLS start at FirstCustom. *)
TypeOK ==
    /\ table \in [Names -> CollIds \cup {NoId}]
    /\ \A n \in Names \ DOMAIN StdColls : table[n] \in {NoId} \cup FirstCustom..MaxId
    /\ wrote \in [CollIds -> SUBSET Names]
    /\ cache \in [Servers -> Cache]
    /\ req \in [Clients -> Request]

(* Whatever is rolled back, restarted or created on another server, a cache  *)
(* holds only ids that are committed: get_collection_id and                  *)
(* load_collection_names fill it outside write transactions only.            *)
CacheAgrees ==
    \A s \in Servers :
        /\ \A n \in Names : cache[s].id[n] \in {NoId, table[n]}
        /\ \A id \in CollIds : cache[s].name[id] # NoName => table[cache[s].name[id]] = id

(* The names answered by GET /info/... are those whose requests wrote the    *)
(* collections, and none is missing ("load_collection_names unknown          *)
(* collection id" is never raised).                                          *)
InfoNamesAreTrue ==
    \A p \in Clients : req[p].pc = "answer" =>
        \A id \in req[p].ids : wrote[id] = {req[p].answer[id]}
=============================================================================
