---------------------------- MODULE CollectionIds ----------------------------
(***************************************************************************)
(* What the collections table promises: a name gets one id, no two names   *)
(* the same one, for good, and BSOs sent for a name are stored under its   *)
(* id.  SpannerCollections and MysqlCollections implement it.              *)
(***************************************************************************)
EXTENDS Naturals

CONSTANTS
    Names,        \* names of collections
    StdColls,     \* STD_COLLS: the ids of the names that have one from the start
    FirstCustom,  \* FIRST_CUSTOM_COLLECTION_ID
    MaxId         \* bound on ids

CollIds == 1..MaxId
NoId == 0

VARIABLES
    table,  \* collections: the id of each name, or NoId
    wrote   \* user_collections and bso: the names whose requests wrote to an id

StdTable == [n \in Names |-> IF n \in DOMAIN StdColls THEN StdColls[n] ELSE NoId]

Init ==
    /\ table = StdTable
    /\ wrote = [id \in CollIds |-> {}]

\* The name's id, with a new one for a name that has none.
Named(n, t) ==
    \/ t = table /\ table[n] # NoId
    \/ /\ table[n] = NoId
       /\ \E id \in FirstCustom..MaxId :
             /\ \A m \in Names : table[m] # id
             /\ t = [table EXCEPT ![n] = id]

Create(n) == Named(n, table') /\ UNCHANGED wrote

Write(n) ==
    /\ Named(n, table')
    /\ wrote' = [wrote EXCEPT ![table'[n]] = @ \cup {n}]

Next == \E n \in Names : Create(n) \/ Write(n)

Spec == Init /\ [][Next]_<<table, wrote>>
=============================================================================
