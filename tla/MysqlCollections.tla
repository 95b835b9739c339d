-------------------------- MODULE MysqlCollections --------------------------
(***************************************************************************)
(* Collection ids on the MySQL backend: AUTO_INCREMENT ids, inserted and   *)
(* committed before the request's own transaction begins, and cached then. *)
(*                                                                         *)
(* lock_for_write caches the id it creates, so the lookups of its handler  *)
(* always hit; what get_or_create_collection_id would do inside a          *)
(* transaction never happens and is left out.                              *)
(***************************************************************************)
EXTENDS CollectionCache

VARIABLE next  \* AUTO_INCREMENT of collections

Start(p) ==
    /\ req[p].pc = "idle"
    /\ \E kind \in {"read", "write", "info"}, n \in Names, s \in Servers :
          /\ kind = "info" => n = Idle.name
          /\ Goto(p, [Idle EXCEPT !.pc = IF kind = "info" THEN "info" ELSE "lookup",
                                  !.kind = kind, !.name = n, !.server = s])
    /\ UNCHANGED <<table, wrote, cache, next>>

\* get_collection_id, not cached.
Lookup(p) ==
    LET r == req[p]
        id == table[r.name]
    IN
    /\ r.pc = "lookup" /\ r.kind = "read" /\ CachedId(p, r.name) = NoId
    /\ Goto(p, IF id = NoId THEN Resolved(r, NoId)
               ELSE [r EXCEPT !.pc = "put", !.puts = {<<id, r.name>>}])
    /\ UNCHANGED <<table, wrote, cache, next>>

\* Mutant of GetOrCreate: the id is LAST_INSERT_ID(), also of an ignored insert.
GetOrCreateLastInsert(p) ==
    LET r == req[p] IN
    /\ r.pc = "lookup" /\ r.kind = "write" /\ CachedId(p, r.name) = NoId
    /\ next <= MaxId
    /\ table' = IF table[r.name] = NoId THEN [table EXCEPT ![r.name] = next] ELSE table
    /\ next' = next + 1
    /\ Goto(p, [r EXCEPT !.pc = "put", !.puts = {<<next, r.name>>}])
    /\ UNCHANGED <<wrote, cache>>

\* get_or_create_collection_id, not cached: INSERT IGNORE, which uses up an id
\* either way, and a SELECT, committed at once.
GetOrCreate(p) ==
    LET r == req[p] IN
    /\ r.pc = "lookup" /\ r.kind = "write" /\ CachedId(p, r.name) = NoId
    /\ next <= MaxId
    /\ table' = IF table[r.name] = NoId THEN [table EXCEPT ![r.name] = next] ELSE table
    /\ next' = next + 1
    /\ Goto(p, [r EXCEPT !.pc = "put", !.puts = {<<table'[r.name], r.name>>}])
    /\ UNCHANGED <<wrote, cache>>

Commit(p) ==
    LET r == req[p] IN
    /\ r.pc = "commit" /\ r.kind = "write"
    /\ wrote' = [wrote EXCEPT ![r.id] = @ \cup {r.name}]
    /\ Goto(p, Idle)
    /\ UNCHANGED <<table, cache, next>>

\* The migrations have reserved the ids below FirstCustom.
MysqlInit == CacheInit /\ next = FirstCustom

MysqlNext ==
    \/ \E p \in Clients : Start(p) \/ Lookup(p) \/ GetOrCreate(p) \/ Commit(p)
    \/ CacheNext /\ UNCHANGED next
=============================================================================
