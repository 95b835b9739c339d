------------------------- MODULE CollectionBackends -------------------------
(***************************************************************************)
(* The servers' caches on either backend: db/mod.rs pool_from_settings     *)
(* picks one by the scheme of the database's URL, for good.                *)
(***************************************************************************)
EXTENDS CollectionCache

VARIABLES
    backend,  \* the one all servers are configured with
    next      \* AUTO_INCREMENT of collections, on MySQL

vars == <<cacheVars, backend, next>>

Spanner == INSTANCE SpannerCollections
Mysql   == INSTANCE MysqlCollections
Ids     == INSTANCE CollectionIds

Init == backend \in {"spanner", "mysql"} /\ Mysql!MysqlInit

Next ==
    /\ \/ backend = "spanner" /\ Spanner!SpannerNext /\ UNCHANGED next
       \/ backend = "mysql" /\ Mysql!MysqlNext
    /\ UNCHANGED backend

Spec == Init /\ [][Next]_vars

(* Requests that name new collections at once, are rolled back, or find an   *)
(* id in the cache of another server's past never share an id or split a     *)
(* name (Spanner create_collection_async: "no other writer modified the data *)
(* that was read in the transaction after it was read"; MySQL                *)
(* get_or_create_collection_id, whose INSERT IGNORE several servers send).   *)
NamesKeepTheirIds == Ids!Spec
=============================================================================
