---------------------- MODULE CollectionBackends_proofs ----------------------
(***************************************************************************)
(* Collection ids are for good on either backend, and no server's cache    *)
(* ever holds another one.  IdsInv, the inductive invariant, says          *)
(*   of the collections table that ids are distinct, and on MySQL below    *)
(*     AUTO_INCREMENT (Distinct),                                          *)
(*   of the caches that they hold committed ids only (CacheAgrees),        *)
(*   of each request that what it carries is committed, or its own and     *)
(*     guarded by what its transaction has read (Sound).                   *)
(***************************************************************************)
EXTENDS CollectionBackends, TLAPS, WellFoundedInduction

\* The standard names keep their ids, no two names have the same one, and
\* AUTO_INCREMENT is past all of them.
Distinct ==
    /\ \A n \in DOMAIN StdColls : table[n] = StdColls[n]
    /\ \A m, n \in Names : table[m] = table[n] /\ table[m] # NoId => m = n
    /\ next \in Nat /\ FirstCustom <= next
    /\ backend = "mysql" => \A n \in Names : table[n] < next
    /\ backend \in {"spanner", "mysql"}

WroteAgrees == \A id \in CollIds : \A n \in wrote[id] : table[n] = id

\* What a request has looked up, and will answer with or put into the cache.
Committed(r) ==
    /\ r.puts \cup r.half \subseteq {x \in Pair : table[x[2]] = x[1]}
    /\ r.kind # "info" => \A x \in r.puts \cup r.half : x[2] = r.name
    /\ \A n \in Names : r.snap[n] \in {NoId, table[n]}
    /\ r.ids \subseteq Written
    /\ r.pc = "answer" \/ (r.pc = "put" /\ r.kind = "info")
       => \A id \in r.ids : r.answer[id] \in Names /\ table[r.answer[id]] = id

\* The id a write transaction has made is nobody's, as long as nobody commits a
\* name it has read.
OwnId(r) ==
    r.made # NoId =>
        /\ backend = "spanner" /\ r.kind = "write" /\ r.reads = Names
        /\ r.made \in FirstCustom..MaxId /\ table[r.name] = NoId
        /\ \A n \in Names : table[n] # r.made

Guarded(r) ==
    /\ OwnId(r)
    /\ r.pc = "create" =>
          backend = "spanner" /\ r.made = NoId /\ r.name \in r.reads /\ table[r.name] = NoId
    /\ r.pc = "commit" =>
          r.id = IF r.made # NoId THEN r.made ELSE table[r.name]
    /\ r.pc = "commit" => r.id # NoId

Sound(r) ==
    /\ r.pc = "lookup" => r.kind # "info"
    /\ r.pc \in {"create", "commit"} => r.kind = "write"
    /\ r.pc \in {"info", "names"} => r.kind = "info"
    /\ Committed(r)
    /\ Guarded(r)

IdsInv == /\ TypeOK
          /\ Distinct
          /\ WroteAgrees
          /\ CacheAgrees
          /\ \A p \in Clients : Sound(req[p])

-----------------------------------------------------------------------------
(* The two backends run the same code of the cache. *)

LEMMA SpannerShares ==
  /\ Spanner!Idle = Idle
  /\ \A r, id : Spanner!Resolved(r, id) = Resolved(r, id)
  /\ \A p, r : Spanner!Goto(p, r) <=> Goto(p, r)
  /\ \A p, n : Spanner!CachedId(p, n) = CachedId(p, n)
  /\ Spanner!StdTable = StdTable
  /\ Spanner!CacheNext <=> CacheNext
<1>1. Spanner!StdTable = StdTable /\ Spanner!CollIds = CollIds /\ Spanner!NoId = NoId
  BY Zenon DEF Spanner!StdTable, StdTable, Spanner!CollIds, CollIds, Spanner!NoId, NoId
<1>2. Spanner!Idle = Idle
  BY <1>1, Zenon DEF Spanner!Idle, Idle
<1>3. \A r, id : Spanner!Resolved(r, id) = Resolved(r, id)
  BY <1>2, Zenon DEF Spanner!Resolved, Resolved
<1>4. \A p, r : Spanner!Goto(p, r) <=> Goto(p, r)
  BY Zenon DEF Spanner!Goto, Goto
<1>5. \A p, n : Spanner!CachedId(p, n) = CachedId(p, n)
  BY Zenon DEF Spanner!CachedId, CachedId
<1>6. \A p : Spanner!CacheHit(p) <=> CacheHit(p)
  BY <1>1, <1>3, <1>4, <1>5, Zenon DEF Spanner!CacheHit, CacheHit
<1>7. \A p : Spanner!PutByName(p) <=> PutByName(p)
  BY Zenon DEF Spanner!PutByName, PutByName
<1>8. \A p : Spanner!PutById(p) <=> PutById(p)
  BY <1>3, <1>4, ZenonT(60) DEF Spanner!PutById, PutById
<1>9. \A p : Spanner!InfoIds(p) <=> InfoIds(p)
  BY <1>1, <1>4, Zenon
  DEF Spanner!InfoIds, InfoIds, Spanner!InfoTimestamps, InfoTimestamps,
      Spanner!InfoCounts, InfoCounts, Spanner!Answering, Answering,
      Spanner!Written, Written
<1>10. \A p : Spanner!LoadNames(p) <=> LoadNames(p)
  BY Zenon
  DEF Spanner!LoadNames, LoadNames, Spanner!NamesIn, NamesIn, Spanner!CachedName, CachedName,
      Spanner!CollIds, CollIds, Spanner!Goto, Goto
<1>11. \A p : Spanner!GiveUp(p) <=> GiveUp(p)
  BY <1>2, <1>4, Zenon DEF Spanner!GiveUp, GiveUp, Spanner!End, End
<1>12. \A s : Spanner!Restart(s) <=> Restart(s)
  BY <1>1, <1>2, Zenon DEF Spanner!Restart, Restart, Spanner!StdCache, StdCache
<1>. QED
  BY <1>1, <1>2, <1>3, <1>4, <1>5, <1>6, <1>7, <1>8, <1>9, <1>10, <1>11, <1>12, Zenon
  DEF Spanner!CacheNext, CacheNext

LEMMA MysqlShares ==
  /\ Mysql!Idle = Idle
  /\ \A r, id : Mysql!Resolved(r, id) = Resolved(r, id)
  /\ \A p, r : Mysql!Goto(p, r) <=> Goto(p, r)
  /\ \A p, n : Mysql!CachedId(p, n) = CachedId(p, n)
  /\ Mysql!StdTable = StdTable
  /\ Mysql!CacheNext <=> CacheNext
  /\ Mysql!CacheInit <=> CacheInit
<1>1. Mysql!StdTable = StdTable /\ Mysql!CollIds = CollIds /\ Mysql!NoId = NoId
  BY Zenon DEF Mysql!StdTable, StdTable, Mysql!CollIds, CollIds, Mysql!NoId, NoId
<1>2. Mysql!Idle = Idle
  BY <1>1, Zenon DEF Mysql!Idle, Idle
<1>3. \A r, id : Mysql!Resolved(r, id) = Resolved(r, id)
  BY <1>2, Zenon DEF Mysql!Resolved, Resolved
<1>4. \A p, r : Mysql!Goto(p, r) <=> Goto(p, r)
  BY Zenon DEF Mysql!Goto, Goto
<1>5. \A p, n : Mysql!CachedId(p, n) = CachedId(p, n)
  BY Zenon DEF Mysql!CachedId, CachedId
<1>6. \A p : Mysql!CacheHit(p) <=> CacheHit(p)
  BY <1>1, <1>3, <1>4, <1>5, Zenon DEF Mysql!CacheHit, CacheHit
<1>7. \A p : Mysql!PutByName(p) <=> PutByName(p)
  BY Zenon DEF Mysql!PutByName, PutByName
<1>8. \A p : Mysql!PutById(p) <=> PutById(p)
  BY <1>3, <1>4, ZenonT(60) DEF Mysql!PutById, PutById
<1>9. \A p : Mysql!InfoIds(p) <=> InfoIds(p)
  BY <1>1, <1>4, Zenon
  DEF Mysql!InfoIds, InfoIds, Mysql!InfoTimestamps, InfoTimestamps,
      Mysql!InfoCounts, InfoCounts, Mysql!Answering, Answering,
      Mysql!Written, Written
<1>10. \A p : Mysql!LoadNames(p) <=> LoadNames(p)
  BY Zenon
  DEF Mysql!LoadNames, LoadNames, Mysql!NamesIn, NamesIn, Mysql!CachedName, CachedName,
      Mysql!CollIds, CollIds, Mysql!Goto, Goto
<1>11. \A p : Mysql!GiveUp(p) <=> GiveUp(p)
  BY <1>2, <1>4, Zenon DEF Mysql!GiveUp, GiveUp, Mysql!End, End
<1>12. \A s : Mysql!Restart(s) <=> Restart(s)
  BY <1>1, <1>2, Zenon DEF Mysql!Restart, Restart, Mysql!StdCache, StdCache
<1>13. Mysql!CacheInit <=> CacheInit
  BY <1>1, <1>2, Zenon DEF Mysql!CacheInit, CacheInit, Mysql!StdCache, StdCache
<1>. QED
  BY <1>1, <1>2, <1>3, <1>4, <1>5, <1>6, <1>7, <1>8, <1>9, <1>10, <1>11, <1>12,
     <1>13, Zenon
  DEF Mysql!CacheNext, CacheNext

-----------------------------------------------------------------------------
(* Types. *)

LEMMA StdTableType ==
  /\ StdTable \in [Names -> CollIds \cup {NoId}]
  /\ \A n \in DOMAIN StdColls : StdTable[n] = StdColls[n]
  /\ \A n \in Names \ DOMAIN StdColls : StdTable[n] = NoId
<1>1. ASSUME NEW n \in DOMAIN StdColls PROVE StdColls[n] \in CollIds /\ n \in Names
  BY NamesAssumption DEF CollIds
<1>. QED
  BY <1>1, Zenon DEF StdTable

LEMMA IdleType ==
  /\ Idle \in Request
  /\ Idle.pc = "idle" /\ Idle.kind = "info" /\ Idle.name \in Names /\ Idle.locked = FALSE
  /\ Idle.id = NoId /\ Idle.made = NoId /\ Idle.snap = StdTable /\ Idle.reads = {}
  /\ Idle.puts = {} /\ Idle.half = {} /\ Idle.ids = {}
  /\ Idle.server \in Servers
  /\ Idle.answer = [id \in CollIds |-> NoName]
<1>1. (CHOOSE s \in Servers : TRUE) \in Servers /\ (CHOOSE n \in Names : TRUE) \in Names
  BY NamesAssumption
<1>. QED
  BY <1>1, StdTableType DEF Idle, Request, NoId

LEMMA StdCacheType ==
  /\ StdCache \in Cache
  /\ StdCache.id = StdTable
  /\ \A id \in CollIds : StdCache.name[id] # NoName =>
        /\ StdCache.name[id] \in DOMAIN StdColls
        /\ StdColls[StdCache.name[id]] = id
<1>1. ASSUME NEW id \in CollIds, \E n \in DOMAIN StdColls : StdColls[n] = id
      PROVE  /\ (CHOOSE n \in DOMAIN StdColls : StdColls[n] = id) \in DOMAIN StdColls
             /\ StdColls[CHOOSE n \in DOMAIN StdColls : StdColls[n] = id] = id
  BY <1>1
<1>. DEFINE name(id) == IF \E n \in DOMAIN StdColls : StdColls[n] = id
                        THEN CHOOSE n \in DOMAIN StdColls : StdColls[n] = id ELSE NoName
<1>2. \A id \in CollIds : /\ name(id) \in Names \cup {NoName}
                          /\ name(id) # NoName => name(id) \in DOMAIN StdColls
                                                  /\ StdColls[name(id)] = id
  BY <1>1, NamesAssumption
<1>3. StdCache = [id |-> StdTable, name |-> [id \in CollIds |-> name(id)]]
  BY DEF StdCache
<1>. HIDE DEF name
<1>. QED
  BY <1>2, <1>3, StdTableType DEF Cache

(* The fields of a request. *)
LEMMA RequestFields ==
  ASSUME NEW r \in Request
  PROVE  /\ r.server \in Servers /\ r.kind \in {"read", "write", "info"} /\ r.name \in Names
         /\ r.locked \in BOOLEAN /\ r.id \in CollIds \cup {NoId}
         /\ r.made \in CollIds \cup {NoId} /\ r.snap \in [Names -> CollIds \cup {NoId}]
         /\ r.reads \in SUBSET Names /\ r.puts \in SUBSET Pair /\ r.half \in SUBSET Pair
         /\ r.ids \in SUBSET CollIds /\ r.answer \in [CollIds -> Names \cup {NoName}]
  BY DEF Request

(* A request that does nothing carries nothing. *)
LEMMA IdleSound == ASSUME IdsInv PROVE Sound(Idle)
<1>1. \A n \in Names : StdTable[n] \in {NoId, table[n]}
  BY StdTableType DEF IdsInv, Distinct
<1>. QED
  BY <1>1, IdleType DEF Sound, Committed, Guarded, OwnId

(* A step that changes one request, and perhaps a cache. *)
LEMMA RequestStep ==
  ASSUME IdsInv, NEW p \in Clients, NEW r \in Request, Sound(r),
         req' = [req EXCEPT ![p] = r], UNCHANGED <<table, wrote, backend, next>>,
         cache' \in [Servers -> Cache], CacheAgrees'
  PROVE  IdsInv'
<1>1. req \in [Clients -> Request]
  BY DEF IdsInv, TypeOK
<1>2. req' \in [Clients -> Request]
  BY <1>1
<1>3. ASSUME NEW q \in Clients PROVE Sound(req[q])'
  <2>1. req'[q] = IF q = p THEN r ELSE req[q]
    BY <1>1
  <2>2. Sound(req'[q])
    BY <2>1 DEF IdsInv
  <2>. QED
    BY <2>2 DEF Sound, Committed, Guarded, OwnId, Written
<1>. QED
  BY <1>2, <1>3 DEF IdsInv, TypeOK, Distinct, WroteAgrees

LEMMA LocalStep ==
  ASSUME IdsInv, NEW p \in Clients, NEW r \in Request, Sound(r), Goto(p, r),
         UNCHANGED <<table, wrote, cache, backend, next>>
  PROVE  IdsInv'
<1>1. cache' \in [Servers -> Cache] /\ CacheAgrees'
  BY DEF IdsInv, TypeOK, CacheAgrees
<1>. QED
  BY <1>1, RequestStep DEF Goto

(* get_collection_id returns the id the name has in the transaction. *)
LEMMA ResolvedSound ==
  ASSUME IdsInv, NEW r \in Request, Committed(r), OwnId(r), r.kind # "info",
         r.pc # "answer", NEW id \in CollIds \cup {NoId},
         r.kind = "write" =>
            id # NoId /\ id = IF r.made # NoId THEN r.made ELSE table[r.name]
  PROVE  Resolved(r, id) \in Request /\ Sound(Resolved(r, id))
<1>1. CASE ~r.locked
  <2>. DEFINE s == [r EXCEPT !.locked = TRUE, !.pc = "lookup"]
  <2>1. s \in Request
    BY DEF Request
  <2>2. /\ s.pc = "lookup" /\ s.kind = r.kind /\ s.name = r.name /\ s.made = r.made
        /\ s.snap = r.snap /\ s.reads = r.reads /\ s.puts = r.puts /\ s.half = r.half
        /\ s.ids = r.ids /\ s.answer = r.answer
    BY DEF Request
  <2>3. Resolved(r, id) = s
    BY <1>1 DEF Resolved
  <2>. HIDE DEF s
  <2>. QED
    BY <2>1, <2>2, <2>3 DEF Sound, Committed, Guarded, OwnId
<1>2. CASE r.locked /\ r.kind = "read"
  BY <1>2, IdleSound, IdleType DEF Resolved
<1>3. CASE r.locked /\ r.kind = "write"
  <2>. DEFINE s == [r EXCEPT !.id = id, !.pc = "commit"]
  <2>1. s \in Request
    BY DEF Request
  <2>2. /\ s.pc = "commit" /\ s.kind = r.kind /\ s.name = r.name /\ s.made = r.made
        /\ s.snap = r.snap /\ s.reads = r.reads /\ s.puts = r.puts /\ s.half = r.half
        /\ s.ids = r.ids /\ s.answer = r.answer /\ s.id = id
    BY DEF Request
  <2>3. Resolved(r, id) = s
    BY <1>3 DEF Resolved
  <2>. HIDE DEF s
  <2>. QED
    BY <1>3, <2>1, <2>2, <2>3 DEF Sound, Committed, Guarded, OwnId
<1>. QED
  BY <1>1, <1>2, <1>3, RequestFields

-----------------------------------------------------------------------------
(* The steps of the cache (CollectionCache, load_collection_names). *)

LEMMA CacheHitKeeps ==
  ASSUME IdsInv, NEW p \in Clients, CacheHit(p), UNCHANGED <<backend, next>>
  PROVE  IdsInv'
<1>. DEFINE r == req[p]
            id == CachedId(p, r.name)
<1>1. r \in Request /\ Sound(r) /\ r.pc = "lookup" /\ r.server \in Servers
      /\ r.name \in Names
  BY RequestFields DEF CacheHit, IdsInv, TypeOK
<1>2. id = table[r.name] /\ id # NoId /\ id \in CollIds \cup {NoId}
  BY <1>1 DEF CacheHit, CachedId, IdsInv, CacheAgrees, TypeOK
<1>3. /\ Committed(r) /\ OwnId(r) /\ r.kind # "info" /\ r.made = NoId
  BY <1>1, <1>2 DEF Sound, Guarded, OwnId
<1>4. Goto(p, Resolved(r, id)) /\ UNCHANGED <<table, wrote, cache>>
  BY DEF CacheHit
<1>. HIDE DEF r, id
<1>5. Resolved(r, id) \in Request /\ Sound(Resolved(r, id))
  BY <1>1, <1>2, <1>3, ResolvedSound
<1>. QED
  BY <1>4, <1>5, LocalStep

LEMMA PutByNameKeeps ==
  ASSUME IdsInv, NEW p \in Clients, PutByName(p), UNCHANGED <<backend, next>>
  PROVE  IdsInv'
<1>1. PICK x \in req[p].puts :
         /\ cache' = [cache EXCEPT ![req[p].server].id[x[2]] = x[1]]
         /\ req' = [req EXCEPT ![p].half = {x}, ![p].puts = @ \ {x}]
  BY DEF PutByName
<1>2. /\ req[p] \in Request /\ Sound(req[p]) /\ req \in [Clients -> Request]
      /\ req[p].pc = "put" /\ cache \in [Servers -> Cache]
      /\ UNCHANGED <<table, wrote>>
  BY DEF PutByName, IdsInv, TypeOK
<1>3. x \in Pair /\ x[1] \in CollIds /\ x[2] \in Names /\ table[x[2]] = x[1]
      /\ req[p].server \in Servers
  BY <1>1, <1>2, RequestFields DEF Sound, Committed, Pair
<1>. DEFINE r == [req[p] EXCEPT !.half = {x}, !.puts = @ \ {x}]
            old == cache[req[p].server]
            new == [old EXCEPT !.id[x[2]] = x[1]]
<1>4. r \in Request
  BY <1>2, <1>3 DEF Request
<1>5. Sound(r)
  <2>1. /\ r.pc = "put" /\ r.kind = req[p].kind /\ r.name = req[p].name
        /\ r.made = req[p].made /\ r.snap = req[p].snap /\ r.reads = req[p].reads
        /\ r.puts = req[p].puts \ {x} /\ r.half = {x} /\ r.ids = req[p].ids
        /\ r.answer = req[p].answer
    BY <1>2 DEF Request
  <2>. HIDE DEF r
  <2>. QED
    BY <1>1, <1>2, <1>3, <2>1 DEF Sound, Committed, Guarded, OwnId
<1>6. req' = [req EXCEPT ![p] = r]
  BY <1>1, <1>2
<1>7. new \in Cache /\ new.name = old.name
      /\ \A n \in Names : new.id[n] = IF n = x[2] THEN x[1] ELSE old.id[n]
  BY <1>2, <1>3 DEF Cache
<1>8. cache' = [cache EXCEPT ![req[p].server] = new]
  BY <1>1
<1>. HIDE DEF new, r
<1>9. cache' \in [Servers -> Cache] /\ CacheAgrees'
  <2>1. cache' \in [Servers -> Cache]
    BY <1>2, <1>7, <1>8
  <2>2. ASSUME NEW s \in Servers
        PROVE  cache'[s] = IF s = req[p].server THEN new ELSE cache[s]
    BY <1>2, <1>8
  <2>. QED
    BY <1>2, <1>3, <1>7, <2>1, <2>2 DEF IdsInv, CacheAgrees
<1>. QED
  BY <1>2, <1>4, <1>5, <1>6, <1>9, RequestStep

LEMMA PutByIdKeeps ==
  ASSUME IdsInv, NEW p \in Clients, PutById(p), UNCHANGED <<backend, next>>
  PROVE  IdsInv'
<1>. DEFINE r == [req[p] EXCEPT !.half = {}]
            s == req[p].server
            answering == [r EXCEPT !.pc = "answer"]
<1>1. PICK x \in req[p].half :
         /\ cache' = [cache EXCEPT ![r.server].name[x[1]] = x[2]]
         /\ Goto(p, IF r.puts # {} THEN r
                    ELSE IF r.kind = "info" THEN answering
                    ELSE Resolved(r, x[1]))
  BY DEF PutById
<1>2. /\ req[p] \in Request /\ Sound(req[p]) /\ req \in [Clients -> Request]
      /\ req[p].pc = "put" /\ cache \in [Servers -> Cache]
      /\ UNCHANGED <<table, wrote>>
  BY DEF PutById, IdsInv, TypeOK
<1>3. /\ x \in Pair /\ x[1] \in CollIds /\ x[2] \in Names /\ table[x[2]] = x[1]
      /\ s \in Servers
      /\ req[p].kind # "info" => x[2] = req[p].name
  BY <1>1, <1>2, RequestFields DEF Sound, Committed, Pair
<1>4. /\ r \in Request /\ r.pc = "put" /\ r.kind = req[p].kind /\ r.name = req[p].name
      /\ r.made = req[p].made /\ r.snap = req[p].snap /\ r.reads = req[p].reads
      /\ r.puts = req[p].puts /\ r.half = {} /\ r.ids = req[p].ids
      /\ r.answer = req[p].answer /\ r.server = s
  BY <1>2 DEF Request
<1>5. /\ answering \in Request /\ answering.pc = "answer" /\ answering.kind = r.kind
      /\ answering.name = r.name /\ answering.made = r.made /\ answering.snap = r.snap
      /\ answering.reads = r.reads /\ answering.puts = r.puts
      /\ answering.half = r.half /\ answering.ids = r.ids
      /\ answering.answer = r.answer
  BY <1>4 DEF Request
<1>. DEFINE old == cache[s]
            new == [old EXCEPT !.name[x[1]] = x[2]]
<1>6. new \in Cache /\ new.id = old.id
      /\ \A id \in CollIds : new.name[id] = IF id = x[1] THEN x[2] ELSE old.name[id]
  BY <1>2, <1>3 DEF Cache
<1>7. cache' = [cache EXCEPT ![s] = new]
  BY <1>1, <1>4
<1>. HIDE DEF new, r, answering
<1>8. Sound(r)
  BY <1>2, <1>4 DEF Sound, Committed, Guarded, OwnId
<1>9. cache' \in [Servers -> Cache] /\ CacheAgrees'
  <2>1. cache' \in [Servers -> Cache]
    BY <1>2, <1>6, <1>7
  <2>2. ASSUME NEW t \in Servers PROVE cache'[t] = IF t = s THEN new ELSE cache[t]
    BY <1>2, <1>7
  <2>. QED
    BY <1>2, <1>3, <1>6, <2>1, <2>2 DEF IdsInv, CacheAgrees
<1>10. CASE r.puts # {}
  BY <1>1, <1>2, <1>4, <1>8, <1>9, <1>10, RequestStep DEF Goto
<1>11. CASE r.puts = {} /\ r.kind = "info"
  <2>1. Sound(answering)
    BY <1>4, <1>5, <1>8, <1>11 DEF Sound, Committed, Guarded, OwnId
  <2>2. req' = [req EXCEPT ![p] = answering]
    BY <1>1, <1>11 DEF Goto
  <2>. QED
    BY <1>2, <1>5, <1>9, <2>1, <2>2, RequestStep
<1>12. CASE r.puts = {} /\ r.kind # "info"
  <2>1. r.made = NoId
    BY <1>3, <1>4, <1>8, <1>12 DEF Sound, Guarded, OwnId, CollIds, NoId
  <2>2. Resolved(r, x[1]) \in Request /\ Sound(Resolved(r, x[1]))
    <3>1. x[1] # NoId /\ x[1] = table[r.name]
      BY <1>3, <1>4, <1>12 DEF CollIds, NoId
    <3>. QED
      BY <1>3, <1>4, <1>8, <1>12, <2>1, <3>1, ResolvedSound DEF Sound, Guarded
  <2>3. req' = [req EXCEPT ![p] = Resolved(r, x[1])]
    BY <1>1, <1>12 DEF Goto
  <2>. QED
    BY <1>2, <1>9, <2>2, <2>3, RequestStep
<1>. QED
  BY <1>10, <1>11, <1>12

LEMMA InfoIdsKeeps ==
  ASSUME IdsInv, NEW p \in Clients, InfoIds(p), UNCHANGED <<backend, next>>
  PROVE  IdsInv'
<1>1. PICK ids : ids \subseteq Written /\ req[p].pc = "info"
                 /\ Goto(p, [req[p] EXCEPT !.pc = "names", !.ids = ids])
  BY DEF InfoIds, InfoTimestamps, InfoCounts, Answering
<1>2. req[p] \in Request /\ Sound(req[p]) /\ UNCHANGED <<table, wrote, cache>>
  BY DEF InfoIds, IdsInv, TypeOK
<1>. DEFINE r == [req[p] EXCEPT !.pc = "names", !.ids = ids]
<1>3. r \in Request
  BY <1>1, <1>2 DEF Request, Written
<1>4. /\ r.pc = "names" /\ r.kind = req[p].kind /\ r.name = req[p].name
      /\ r.made = req[p].made /\ r.snap = req[p].snap /\ r.reads = req[p].reads
      /\ r.puts = req[p].puts /\ r.half = req[p].half /\ r.ids = ids
  BY <1>2 DEF Request
<1>5. Goto(p, r)
  BY <1>1
<1>. HIDE DEF r
<1>6. Sound(r)
  BY <1>1, <1>2, <1>4 DEF Sound, Committed, Guarded, OwnId
<1>. QED
  BY <1>2, <1>3, <1>5, <1>6, LocalStep

(* Each id that is answered for has a committed name: cached, or found. *)
LEMMA LoadNamesKeeps ==
  ASSUME IdsInv, NEW p \in Clients, LoadNames(p), UNCHANGED <<backend, next>>
  PROVE  IdsInv'
<1>. DEFINE unknown == {id \in req[p].ids : CachedName(p, id) = NoName}
            found   == NamesIn(table, unknown)
            name(id) == IF id \notin req[p].ids THEN NoName
                        ELSE IF CachedName(p, id) # NoName THEN CachedName(p, id)
                        ELSE IF \E x \in found : x[1] = id
                        THEN (CHOOSE x \in found : x[1] = id)[2]
                        ELSE NoName
            r == [req[p] EXCEPT !.pc = IF found = {} THEN "answer" ELSE "put",
                                !.puts = found,
                                !.answer = [id \in CollIds |-> name(id)]]
<1>1. /\ req[p] \in Request /\ Sound(req[p]) /\ req[p].pc = "names"
      /\ UNCHANGED <<table, wrote, cache>> /\ Goto(p, r)
  BY DEF LoadNames, IdsInv, TypeOK
<1>2. req[p].kind = "info" /\ req[p].ids \subseteq Written /\ req[p].server \in Servers
  BY <1>1, RequestFields DEF Sound, Committed
<1>3. \A x \in found : x \in Pair /\ x[1] \in unknown /\ x[2] \in Names /\ table[x[2]] = x[1]
  BY <1>2 DEF NamesIn, Pair, Written
<1>4. ASSUME NEW id \in req[p].ids PROVE name(id) \in Names /\ table[name(id)] = id
  <2>1. CASE CachedName(p, id) # NoName
    <3>1. CachedName(p, id) \in Names /\ table[CachedName(p, id)] = id
      BY <1>2, <2>1 DEF CachedName, IdsInv, CacheAgrees, TypeOK, Cache, Written
    <3>. QED
      BY <2>1, <3>1
  <2>2. CASE CachedName(p, id) = NoName
    <3>1. PICK n \in wrote[id] : n \in Names /\ table[n] = id
      BY <1>2 DEF Written, IdsInv, WroteAgrees, TypeOK
    <3>2. <<id, n>> \in found
      BY <2>2, <3>1 DEF NamesIn
    <3>. DEFINE y == CHOOSE x \in found : x[1] = id
    <3>3. y \in found /\ y[1] = id
      BY <3>2, SMTT(30)
    <3>4. name(id) = y[2]
      BY <2>2, <3>2
    <3>. HIDE DEF y, found, name
    <3>. QED
      BY <1>3, <3>3, <3>4
  <2>. QED
    BY <2>1, <2>2
<1>5. \A id \in CollIds : name(id) \in Names \cup {NoName}
  BY <1>4, SMTT(30)
<1>6. /\ r \in Request /\ r.kind = "info" /\ r.made = req[p].made /\ r.name = req[p].name
      /\ r.snap = req[p].snap /\ r.reads = req[p].reads /\ r.half = req[p].half
      /\ r.puts = found /\ r.ids = req[p].ids /\ r.pc \in {"answer", "put"}
      /\ r.answer = [id \in CollIds |-> name(id)]
  <2>. HIDE DEF name, found
  <2>. QED
    BY <1>1, <1>2, <1>3, <1>5 DEF Request
<1>. HIDE DEF r, name, found, unknown
<1>7. Sound(r)
  <2>1. r.ids \subseteq CollIds
    BY <1>2, <1>6 DEF Written
  <2>. QED
    BY <1>1, <1>2, <1>3, <1>4, <1>6, <2>1 DEF Sound, Committed, Guarded, OwnId
<1>. QED
  BY <1>1, <1>6, <1>7, LocalStep

LEMMA RestartKeeps ==
  ASSUME IdsInv, NEW s \in Servers, Restart(s), UNCHANGED <<backend, next>>
  PROVE  IdsInv'
<1>1. /\ req' \in [Clients -> Request] /\ cache' \in [Servers -> Cache]
      /\ \A t \in Servers : cache'[t] = IF t = s THEN StdCache ELSE cache[t]
      /\ \A q \in Clients : req'[q] \in {Idle, req[q]}
      /\ UNCHANGED <<table, wrote>>
  BY IdleType, StdCacheType DEF Restart, IdsInv, TypeOK
<1>2. CacheAgrees'
  <2>1. /\ \A n \in Names : StdCache.id[n] \in {NoId, table[n]}
        /\ \A id \in CollIds : StdCache.name[id] # NoName => table[StdCache.name[id]] = id
    BY StdTableType, StdCacheType DEF IdsInv, Distinct
  <2>. QED
    BY <1>1, <2>1 DEF CacheAgrees, IdsInv
<1>3. ASSUME NEW q \in Clients PROVE Sound(req[q])'
  <2>1. Sound(req'[q])
    BY <1>1, IdleSound DEF IdsInv
  <2>. QED
    BY <1>1, <2>1 DEF Sound, Committed, Guarded, OwnId, Written
<1>. QED
  BY <1>1, <1>2, <1>3 DEF IdsInv, TypeOK, Distinct, WroteAgrees

LEMMA CacheNextKeeps ==
  ASSUME IdsInv, CacheNext, UNCHANGED <<backend, next>>
  PROVE  IdsInv'
<1>1. ASSUME NEW p \in Clients, GiveUp(p) PROVE IdsInv'
  BY <1>1, IdleType, IdleSound, LocalStep DEF GiveUp, End
<1>. QED
  BY <1>1, CacheHitKeeps, PutByNameKeeps, PutByIdKeeps, InfoIdsKeeps, LoadNamesKeeps,
     RestartKeeps DEF CacheNext

-----------------------------------------------------------------------------
(* The steps of the backends (get_collection_id, create_collection and what  *)
(* commits them). *)

(* A request arrives: with the collections it may see, on Spanner. *)
LEMMA ArrivalKeeps ==
  ASSUME IdsInv, NEW p \in Clients, NEW kind \in {"read", "write", "info"},
         NEW n \in Names, NEW s \in Servers, NEW snap \in {table, StdTable},
         Goto(p, [Idle EXCEPT !.pc = IF kind = "info" THEN "info" ELSE "lookup",
                              !.kind = kind, !.name = n, !.server = s, !.snap = snap]),
         UNCHANGED <<table, wrote, cache, backend, next>>
  PROVE  IdsInv'
<1>. DEFINE r == [Idle EXCEPT !.pc = IF kind = "info" THEN "info" ELSE "lookup",
                              !.kind = kind, !.name = n, !.server = s, !.snap = snap]
<1>1. snap \in [Names -> CollIds \cup {NoId}]
      /\ \A m \in Names : snap[m] \in {NoId, table[m]}
  BY StdTableType DEF IdsInv, TypeOK, Distinct
<1>2. /\ r \in Request /\ r.kind = kind /\ r.name = n /\ r.made = NoId /\ r.snap = snap
      /\ r.reads = {} /\ r.puts = {} /\ r.half = {} /\ r.ids = {}
      /\ r.pc = IF kind = "info" THEN "info" ELSE "lookup"
  BY <1>1, IdleType, ZenonT(60) DEF Request
<1>3. Goto(p, r)
  OBVIOUS
<1>. HIDE DEF r
<1>4. Sound(r)
  BY <1>1, <1>2 DEF Sound, Committed, Guarded, OwnId
<1>. QED
  BY <1>2, <1>3, <1>4, LocalStep

(* MAX(collection_id) + 1 is nobody's id. *)
LEMMA NewIdIsNew ==
  ASSUME IdsInv
  PROVE  /\ Spanner!NewId(table) \in Nat
         /\ FirstCustom <= Spanner!NewId(table)
         /\ \A n \in Names : table[n] < Spanner!NewId(table)
<1>. DEFINE Bound == {m \in Nat : \A n \in Names : table[n] <= m}
            max   == Spanner!MaxCollectionId(table)
<1>1. table \in [Names -> CollIds \cup {NoId}] /\ CollIds \cup {NoId} = 0..MaxId
      /\ MaxId \in Nat /\ FirstCustom \in Nat /\ Names # {}
  BY NamesAssumption DEF IdsInv, TypeOK, CollIds, NoId
<1>2. PICK least \in Bound : \A m \in Bound : ~(m < least)
  <2>. DEFINE Less == {ss \in Nat \X Nat : ss[1] < ss[2]}
  <2>1. MaxId \in Bound /\ Bound \subseteq Nat
    BY <1>1
  <2>2. IsWellFoundedOn(Less, Nat)
    BY NatLessThanWellFounded, Zenon DEF OpToRel
  <2>. HIDE DEF Less, Bound
  <2>3. PICK x \in Bound : \A y \in Bound : ~(<<y, x>> \in Less)
    BY <2>1, <2>2, WFMin
  <2>. QED
    BY <2>1, <2>3 DEF Less
<1>3. \E n \in Names : table[n] = least
  <2>. SUFFICES ASSUME \A n \in Names : table[n] # least PROVE FALSE
    OBVIOUS
  <2>1. \A n \in Names : table[n] \in 0..MaxId
    BY <1>1
  <2>2. least \in Nat /\ \A n \in Names : table[n] < least
    <3>1. \A n \in Names : table[n] <= least
      OBVIOUS
    <3>. QED
      BY <1>1, <2>1, <3>1
  <2>3. least - 1 \in Bound
    BY <1>1, <2>1, <2>2
  <2>. QED
    BY <1>2, <2>3
<1>4. max \in CollIds \cup {NoId} /\ \A n \in Names : table[n] <= max
  <2>1. /\ least \in CollIds \cup {NoId}
        /\ \E n \in Names : table[n] = least
        /\ \A n \in Names : table[n] <= least
    BY <1>1, <1>2, <1>3
  <2>. QED
    BY <2>1 DEF Spanner!MaxCollectionId, Spanner!CollIds, Spanner!NoId, CollIds, NoId
<1>. HIDE DEF max
<1>. QED
  BY <1>1, <1>4 DEF Spanner!NewId, max

(* get_collection_id of the Spanner backend. *)
LEMMA SpannerLookupKeeps ==
  ASSUME IdsInv, backend = "spanner", NEW p \in Clients, Spanner!Lookup(p),
         UNCHANGED <<backend, next>>
  PROVE  IdsInv'
<1>. DEFINE r == [req[p] EXCEPT !.reads = IF req[p].kind = "write"
                                          THEN @ \cup {req[p].name} ELSE @]
            id == Spanner!View(p)[r.name]
            creating == [r EXCEPT !.pc = "create"]
            putting  == [r EXCEPT !.pc = "put", !.puts = {<<id, r.name>>}]
<1>1. /\ req[p] \in Request /\ Sound(req[p]) /\ req[p].pc = "lookup"
      /\ UNCHANGED <<table, wrote, cache>>
      /\ Goto(p, IF id = NoId /\ r.kind = "write" THEN creating
                 ELSE IF id = NoId \/ r.kind = "write" THEN Resolved(r, id)
                 ELSE putting)
  BY SpannerShares DEF Spanner!Lookup, IdsInv, TypeOK, Spanner!NoId, NoId
<1>2. /\ r \in Request /\ r.kind = req[p].kind /\ r.name = req[p].name
      /\ r.made = req[p].made /\ r.snap = req[p].snap /\ r.puts = req[p].puts
      /\ r.half = req[p].half /\ r.ids = req[p].ids /\ r.pc = "lookup"
      /\ r.reads = IF r.kind = "write" THEN req[p].reads \cup {r.name} ELSE req[p].reads
  BY <1>1 DEF Request
<1>3. /\ id \in CollIds \cup {NoId}
      /\ r.kind = "write" => id = IF r.made # NoId THEN r.made ELSE table[r.name]
      /\ r.kind # "write" => id \in {NoId, table[r.name]}
  <2>1. table \in [Names -> CollIds \cup {NoId}] /\ r.name \in Names
        /\ r.snap \in [Names -> CollIds \cup {NoId}]
        /\ r.snap[r.name] \in {NoId, table[r.name]}
        /\ r.made \in CollIds \cup {NoId}
    BY <1>1, <1>2, RequestFields DEF IdsInv, TypeOK, Sound, Committed
  <2>2. r.kind \in {"read", "write"} /\ (r.kind # "write" => r.made = NoId)
    BY <1>1, <1>2, RequestFields DEF Sound, Guarded, OwnId
  <2>3. id = IF r.kind = "read" THEN r.snap[r.name]
             ELSE IF r.made # NoId THEN r.made ELSE table[r.name]
    BY <1>2, <2>1 DEF Spanner!View, Spanner!NoId, NoId
  <2>. HIDE DEF r
  <2>. QED
    BY <2>1, <2>2, <2>3
<1>. HIDE DEF id
<1>4. r.kind \in {"read", "write"} /\ r.name \in Names
  BY <1>1, <1>2, RequestFields DEF Sound
<1>5. Committed(r) /\ OwnId(r)
  <2>. HIDE DEF r
  <2>. QED
    BY <1>1, <1>2, <1>4 DEF Sound, Committed, Guarded, OwnId
<1>6. CASE id = NoId /\ r.kind = "write"
  <2>1. r.made = NoId /\ table[r.name] = NoId
    BY <1>3, <1>6
  <2>2. /\ creating \in Request /\ creating.kind = "write" /\ creating.name = r.name
        /\ creating.made = r.made /\ creating.snap = r.snap /\ creating.reads = r.reads
        /\ creating.puts = r.puts /\ creating.half = r.half /\ creating.ids = r.ids
        /\ creating.pc = "create"
    <3>. HIDE DEF r
    <3>. QED
      BY <1>2, <1>6 DEF Request
  <2>. HIDE DEF creating, r
  <2>3. Sound(creating)
    BY <1>2, <1>5, <1>6, <2>1, <2>2 DEF Sound, Committed, Guarded, OwnId
  <2>. QED
    BY <1>1, <1>6, <2>2, <2>3, LocalStep
<1>7. CASE (id = NoId) # (r.kind = "write")
  <2>. HIDE DEF r
  <2>1. Resolved(r, id) \in Request /\ Sound(Resolved(r, id))
    BY <1>2, <1>3, <1>4, <1>5, <1>7, ResolvedSound
  <2>. QED
    BY <1>1, <1>7, <2>1, LocalStep
<1>8. CASE id # NoId /\ r.kind # "write"
  <2>1. <<id, r.name>> \in Pair /\ table[r.name] = id
    BY <1>3, <1>4, <1>8 DEF Pair
  <2>2. /\ putting \in Request /\ putting.kind = r.kind /\ putting.name = r.name
        /\ putting.made = r.made /\ putting.snap = r.snap /\ putting.reads = r.reads
        /\ putting.puts = {<<id, r.name>>} /\ putting.half = r.half
        /\ putting.ids = r.ids /\ putting.pc = "put"
    <3>. HIDE DEF r
    <3>. QED
      BY <1>2, <2>1 DEF Request
  <2>. HIDE DEF putting, r
  <2>3. Sound(putting)
    BY <1>4, <1>5, <2>1, <2>2 DEF Sound, Committed, Guarded, OwnId
  <2>. QED
    BY <1>1, <1>8, <2>2, <2>3, LocalStep
<1>. QED
  BY <1>6, <1>7, <1>8

(* create_collection: its transaction has read every id. *)
LEMMA SpannerCreateKeeps ==
  ASSUME IdsInv, backend = "spanner", NEW p \in Clients, Spanner!Create(p),
         UNCHANGED <<backend, next>>
  PROVE  IdsInv'
<1>. DEFINE id == Spanner!NewId(table)
            r  == [req[p] EXCEPT !.made = id, !.reads = Names]
<1>1. /\ req[p] \in Request /\ Sound(req[p]) /\ req[p].pc = "create"
      /\ UNCHANGED <<table, wrote, cache>> /\ id <= MaxId
      /\ Goto(p, Resolved(r, id))
  BY SpannerShares DEF Spanner!Create, IdsInv, TypeOK
<1>2. /\ id \in FirstCustom..MaxId /\ id \in CollIds \cup {NoId} /\ id # NoId
      /\ \A n \in Names : table[n] # id
  <2>1. id \in Nat /\ FirstCustom <= id /\ id <= MaxId /\ \A n \in Names : table[n] < id
    BY <1>1, NewIdIsNew
  <2>2. table \in [Names -> CollIds \cup {NoId}]
    BY DEF IdsInv, TypeOK
  <2>. HIDE DEF id
  <2>. QED
    BY <2>1, <2>2, NamesAssumption DEF CollIds, NoId
<1>. HIDE DEF id
<1>3. /\ r \in Request /\ r.kind = req[p].kind /\ r.name = req[p].name /\ r.made = id
      /\ r.snap = req[p].snap /\ r.reads = Names /\ r.puts = req[p].puts
      /\ r.half = req[p].half /\ r.ids = req[p].ids /\ r.pc = "create"
  BY <1>1, <1>2 DEF Request
<1>. HIDE DEF r
<1>4. Committed(r) /\ OwnId(r) /\ r.kind = "write"
  BY <1>1, <1>2, <1>3 DEF Sound, Committed, Guarded, OwnId
<1>5. Resolved(r, id) \in Request /\ Sound(Resolved(r, id))
  BY <1>2, <1>3, <1>4, ResolvedSound
<1>. QED
  BY <1>1, <1>5, LocalStep

(* A request none of whose reads anybody has written is as sound as before,   *)
(* whatever new name has got an id and whoever has written BSOs.              *)
LEMMA OthersStaySound ==
  ASSUME NEW r \in Request, Sound(r), TypeOK,
         \A n \in Names : table[n] # NoId => table'[n] = table[n],
         \A id \in CollIds : wrote[id] \subseteq wrote'[id],
         backend' = backend,
         backend = "spanner" =>
            \A n \in Names : n \in r.reads => table'[n] = table[n]
  PROVE  Sound(r)'
<1>1. table \in [Names -> CollIds \cup {NoId}] /\ NoId \notin CollIds
  BY DEF TypeOK, CollIds, NoId
<1>2. Committed(r)'
  BY <1>1, RequestFields DEF Sound, Committed, Pair, Written
<1>3. OwnId(r)'
  BY RequestFields DEF Sound, Guarded, OwnId
<1>4. Guarded(r)'
  BY <1>1, <1>3, RequestFields DEF Sound, Guarded, OwnId
<1>. QED
  BY <1>2, <1>4 DEF Sound

(* Ids are added to the table, and names to what they have written. *)
LEMMA TableStep ==
  ASSUME IdsInv, UNCHANGED <<cache, backend>>,
         table' \in [Names -> CollIds \cup {NoId}], wrote' \in [CollIds -> SUBSET Names],
         \A n \in Names \ DOMAIN StdColls : table'[n] \in {NoId} \cup FirstCustom..MaxId,
         \A n \in Names : table[n] # NoId => table'[n] = table[n],
         \A id \in CollIds : wrote[id] \subseteq wrote'[id],
         Distinct', WroteAgrees', req' \in [Clients -> Request],
         \A q \in Clients : \/ Sound(req[q])'
                            \/ req'[q] = Idle
                            \/ /\ req'[q] = req[q]
                               /\ backend = "spanner" =>
                                     \A n \in Names : n \in req[q].reads =>
                                                      table'[n] = table[n]
  PROVE  IdsInv'
<1>1. TypeOK'
  BY DEF IdsInv, TypeOK
<1>2. CacheAgrees'
  <2>1. ASSUME NEW s \in Servers, NEW n \in Names
        PROVE  cache'[s].id[n] \in {NoId, table'[n]}
    BY DEF IdsInv, CacheAgrees
  <2>2. ASSUME NEW s \in Servers, NEW id \in CollIds, cache'[s].name[id] # NoName
        PROVE  table'[cache'[s].name[id]] = id
    <3>1. cache[s].name[id] \in Names /\ table[cache[s].name[id]] = id
      BY <2>2 DEF IdsInv, CacheAgrees, TypeOK, Cache
    <3>. QED
      BY <3>1 DEF CollIds, NoId
  <2>. QED
    BY <2>1, <2>2 DEF CacheAgrees
<1>3. ASSUME NEW q \in Clients PROVE Sound(req[q])'
  <2>1. CASE req'[q] = Idle
    <3>1. Idle \in Request /\ Sound(Idle) /\ Idle.reads = {} /\ TypeOK
      BY IdleSound, IdleType DEF IdsInv
    <3>. QED
      BY <2>1, <3>1, OthersStaySound DEF Sound
  <2>2. CASE /\ req'[q] = req[q]
             /\ backend = "spanner" =>
                   \A n \in Names : n \in req[q].reads => table'[n] = table[n]
    <3>1. req[q] \in Request /\ Sound(req[q]) /\ TypeOK
      BY DEF IdsInv, TypeOK
    <3>. QED
      BY <2>2, <3>1, OthersStaySound DEF Sound
  <2>. QED
    BY <2>1, <2>2
<1>. QED
  BY <1>1, <1>2, <1>3 DEF IdsInv

(* The commit of a write transaction, and of the name it may have made. *)
LEMMA SpannerCommitKeeps ==
  ASSUME IdsInv, backend = "spanner", NEW p \in Clients, Spanner!Commit(p),
         UNCHANGED <<backend, next>>
  PROVE  IdsInv' /\ Ids!Write(req[p].name)
<1>. DEFINE r == req[p]
<1>1. /\ r \in Request /\ Sound(r) /\ r.pc = "commit" /\ r.kind = "write"
      /\ r.name \in Names /\ r.made \in CollIds \cup {NoId} /\ r.id \in CollIds \cup {NoId}
      /\ r.id # NoId /\ r.id = (IF r.made # NoId THEN r.made ELSE table[r.name])
      /\ OwnId(r)
  BY RequestFields DEF Spanner!Commit, IdsInv, TypeOK, Sound, Guarded
<1>2. /\ table' = IF r.made # NoId THEN [table EXCEPT ![r.name] = r.made] ELSE table
      /\ wrote' = [wrote EXCEPT ![r.id] = @ \cup {r.name}]
      /\ req' = [q \in Clients |-> IF q = p \/ (r.made # NoId /\ r.name \in req[q].reads)
                                   THEN Idle ELSE req[q]]
      /\ cache' = cache
  BY <1>1, SpannerShares DEF Spanner!Commit, Spanner!View, Spanner!NoId, NoId
<1>3. /\ table \in [Names -> CollIds \cup {NoId}] /\ wrote \in [CollIds -> SUBSET Names]
      /\ \A n \in Names \ DOMAIN StdColls : table[n] \in {NoId} \cup FirstCustom..MaxId
      /\ req \in [Clients -> Request]
  BY DEF IdsInv, TypeOK
<1>. HIDE DEF r
<1>4. \A n \in Names : table'[n] = IF r.made # NoId /\ n = r.name THEN r.made ELSE table[n]
  BY <1>1, <1>2, <1>3
<1>5. \A id \in CollIds : wrote'[id] = IF id = r.id THEN wrote[id] \cup {r.name} ELSE wrote[id]
  BY <1>2, <1>3
<1>6. /\ table' \in [Names -> CollIds \cup {NoId}] /\ wrote' \in [CollIds -> SUBSET Names]
      /\ req' \in [Clients -> Request]
  BY <1>1, <1>2, <1>3, IdleType DEF r
<1>7. r.made # NoId => /\ r.made \in FirstCustom..MaxId /\ table[r.name] = NoId
                       /\ \A n \in Names : table[n] # r.made
  BY <1>1 DEF OwnId
<1>8. \A n \in Names : table[n] # NoId => table'[n] = table[n]
  BY <1>4, <1>7
<1>9. Distinct'
  <2>1. \A n \in DOMAIN StdColls : StdColls[n] # NoId /\ n \in Names
    BY NamesAssumption DEF NoId
  <2>. QED
    BY <1>4, <1>7, <1>8, <2>1 DEF IdsInv, Distinct
<1>10. WroteAgrees'
  <2>1. ASSUME NEW id \in CollIds, NEW n \in wrote[id] PROVE table'[n] = id
    <3>1. n \in Names /\ table[n] = id /\ id # NoId
      BY <1>3 DEF IdsInv, WroteAgrees, CollIds, NoId
    <3>. QED
      BY <1>8, <3>1
  <2>2. table'[r.name] = r.id
    BY <1>1, <1>4
  <2>3. ASSUME NEW id \in CollIds, NEW n \in wrote'[id] PROVE table'[n] = id
    <3>1. CASE n \in wrote[id]
      BY <2>1, <3>1
    <3>2. CASE n \notin wrote[id]
      BY <1>5, <2>2, <3>2
    <3>. QED
      BY <3>1, <3>2
  <2>. QED
    BY <2>3, Zenon DEF WroteAgrees
<1>11. ASSUME NEW q \in Clients
       PROVE  \/ req'[q] = Idle
              \/ /\ req'[q] = req[q]
                 /\ \A n \in Names : n \in req[q].reads => table'[n] = table[n]
  BY <1>2, <1>4
<1>12. \A n \in Names \ DOMAIN StdColls : table'[n] \in {NoId} \cup FirstCustom..MaxId
  BY <1>3, <1>4, <1>7
<1>13. IdsInv'
  BY <1>2, <1>5, <1>6, <1>8, <1>9, <1>10, <1>11, <1>12, TableStep
<1>14. Ids!Write(r.name)
  <2>1. table'[r.name] = r.id
    BY <1>1, <1>4
  <2>2. Ids!Named(r.name, table')
    <3>1. CASE r.made = NoId
      BY <1>1, <1>2, <3>1 DEF Ids!Named, Ids!NoId, NoId
    <3>2. CASE r.made # NoId
      BY <1>1, <1>2, <1>7, <3>2 DEF Ids!Named, Ids!NoId, NoId
    <3>. QED
      BY <3>1, <3>2
  <2>. QED
    BY <1>2, <2>1, <2>2 DEF Ids!Write
<1>. QED
  BY <1>13, <1>14 DEF r

(* get_or_create_collection_id of the MySQL backend. *)
LEMMA MysqlCreateKeeps ==
  ASSUME IdsInv, backend = "mysql", NEW p \in Clients, Mysql!GetOrCreate(p),
         UNCHANGED backend
  PROVE  IdsInv' /\ Ids!Create(req[p].name)
<1>. DEFINE n0 == req[p].name
            r  == [req[p] EXCEPT !.pc = "put", !.puts = {<<table'[n0], n0>>}]
<1>1. /\ req[p] \in Request /\ Sound(req[p]) /\ req[p].kind = "write" /\ n0 \in Names
      /\ next <= MaxId /\ next' = next + 1 /\ UNCHANGED <<wrote, cache>>
      /\ table' = IF table[n0] = NoId THEN [table EXCEPT ![n0] = next] ELSE table
      /\ req' = [req EXCEPT ![p] = r]
  BY RequestFields DEF Mysql!GetOrCreate, Mysql!NoId, NoId, IdsInv, TypeOK, Mysql!Goto
<1>2. /\ table \in [Names -> CollIds \cup {NoId}] /\ wrote \in [CollIds -> SUBSET Names]
      /\ \A n \in Names \ DOMAIN StdColls : table[n] \in {NoId} \cup FirstCustom..MaxId
      /\ req \in [Clients -> Request]
  BY DEF IdsInv, TypeOK
<1>3. /\ next \in Nat /\ FirstCustom <= next /\ next \in FirstCustom..MaxId
      /\ next \in CollIds /\ \A n \in Names : table[n] < next
      /\ CollIds \subseteq Nat \ {NoId} /\ NoId = 0
  BY <1>1, NamesAssumption DEF IdsInv, Distinct, CollIds, NoId
<1>4. \A n \in Names : table'[n] = IF n = n0 /\ table[n] = NoId THEN next ELSE table[n]
  BY <1>1, <1>2
<1>5. table' \in [Names -> CollIds \cup {NoId}] /\ table'[n0] \in CollIds
  BY <1>1, <1>2, <1>3
<1>6. /\ req'[p] \in Request /\ req'[p].kind = "write" /\ req'[p].name = n0
      /\ req'[p].made = req[p].made /\ req'[p].snap = req[p].snap
      /\ req'[p].puts = {<<table'[n0], n0>>} /\ req'[p].half = req[p].half
      /\ req'[p].ids = req[p].ids /\ req'[p].pc = "put"
  <2>1. <<table'[n0], n0>> \in Pair
    BY <1>1, <1>5 DEF Pair
  <2>2. req'[p] = r
    BY <1>1, <1>2
  <2>3. req[p] \in Request /\ req[p].kind = "write"
    BY <1>1
  <2>. DEFINE x == <<table'[n0], n0>>
  <2>. HIDE DEF x
  <2>4. \A y \in Request : \A z \in SUBSET Pair :
          LET s == [y EXCEPT !.pc = "put", !.puts = z]
          IN  /\ s \in Request /\ s.kind = y.kind /\ s.name = y.name /\ s.made = y.made
              /\ s.snap = y.snap /\ s.puts = z /\ s.half = y.half /\ s.ids = y.ids
              /\ s.pc = "put"
    BY ZenonT(60) DEF Request
  <2>5. r = [req[p] EXCEPT !.pc = "put", !.puts = {x}] /\ {x} \in SUBSET Pair
    BY <2>1 DEF x
  <2>. HIDE DEF r, n0
  <2>6. /\ r \in Request /\ r.kind = req[p].kind /\ r.name = req[p].name
        /\ r.made = req[p].made /\ r.snap = req[p].snap /\ r.puts = {x}
        /\ r.half = req[p].half /\ r.ids = req[p].ids /\ r.pc = "put"
    BY <2>3, <2>4, <2>5, ZenonT(60)
  <2>. QED
    BY <2>2, <2>3, <2>6 DEF x, n0
<1>. HIDE DEF r, n0
<1>7. Distinct'
  <2>1. \A n \in DOMAIN StdColls : StdColls[n] # NoId /\ n \in Names
    BY NamesAssumption DEF NoId
  <2>2. \A m, n \in Names : table'[m] = table'[n] /\ table'[m] # NoId => m = n
    BY <1>2, <1>3, <1>4 DEF IdsInv, Distinct
  <2>3. next' = next + 1 /\ next' \in Nat /\ FirstCustom <= next'
        /\ \A n \in Names : table'[n] < next'
    <3>1. next' = next + 1
      BY <1>1
    <3>2. ASSUME NEW n \in Names PROVE table'[n] \in Nat /\ table'[n] <= next
      <4>1. table[n] \in 0..MaxId /\ table[n] < next
        BY <1>2, <1>3, NamesAssumption DEF CollIds, NoId
      <4>. QED
        BY <1>3, <1>4, <4>1, NamesAssumption
    <3>. QED
      BY <1>3, <3>1, <3>2, NamesAssumption
  <2>4. \A n \in DOMAIN StdColls : table'[n] = StdColls[n]
    BY <1>4, <2>1 DEF IdsInv, Distinct
  <2>. QED
    BY <2>2, <2>3, <2>4 DEF IdsInv, Distinct
<1>8. \A n \in Names : table[n] # NoId => table'[n] = table[n]
  BY <1>4
<1>9. WroteAgrees'
  BY <1>1, <1>2, <1>3, <1>8 DEF IdsInv, WroteAgrees
<1>10. Sound(req[p])'
  <2>1. req'[p].made = NoId
    BY <1>1, <1>6 DEF Sound, Guarded, OwnId
  <2>2. \A x \in req'[p].half : x \in Pair /\ table'[x[2]] = x[1] /\ x[2] = n0
    BY <1>1, <1>3, <1>6, <1>8 DEF Sound, Committed, n0, Pair
  <2>3. Committed(req[p])'
    <3>1. \A n \in Names : req'[p].snap[n] \in {NoId, table'[n]}
      BY <1>1, <1>6, <1>8 DEF Sound, Committed
    <3>2. req'[p].ids \subseteq Written'
      BY <1>1, <1>6 DEF Sound, Committed, Written
    <3>3. req'[p].puts \cup req'[p].half \subseteq {x \in Pair : table'[x[2]] = x[1]}
      BY <1>1, <1>5, <1>6, <2>2 DEF Pair
    <3>. QED
      BY <1>6, <2>2, <3>1, <3>2, <3>3 DEF Committed
  <2>. QED
    BY <1>6, <2>1, <2>3 DEF Sound, Guarded, OwnId
<1>11. \A q \in Clients : Sound(req[q])' \/ req'[q] = req[q]
  BY <1>1, <1>2, <1>10
<1>12. \A n \in Names \ DOMAIN StdColls : table'[n] \in {NoId} \cup FirstCustom..MaxId
  BY <1>2, <1>3, <1>4
<1>13. req' \in [Clients -> Request]
  BY <1>1, <1>2, <1>6
<1>14. IdsInv'
  BY <1>1, <1>2, <1>5, <1>7, <1>8, <1>9, <1>11, <1>12, <1>13, TableStep
<1>15. Ids!Create(n0)
  <2>1. CASE table[n0] = NoId
    <3>1. table' = [table EXCEPT ![n0] = next] /\ \A m \in Names : table[m] # next
      BY <1>1, <1>2, <1>3, <2>1
    <3>. QED
      BY <1>1, <1>3, <2>1, <3>1 DEF Ids!Create, Ids!Named, Ids!NoId, NoId
  <2>2. CASE table[n0] # NoId
    BY <1>1, <2>2 DEF Ids!Create, Ids!Named, Ids!NoId, NoId
  <2>. QED
    BY <2>1, <2>2
<1>. QED
  BY <1>14, <1>15 DEF n0

LEMMA MysqlStepKeeps ==
  ASSUME IdsInv, backend = "mysql", UNCHANGED backend, NEW p \in Clients,
         Mysql!Start(p) \/ Mysql!Lookup(p)
  PROVE  IdsInv' /\ UNCHANGED <<table, wrote>>
<1>1. ASSUME Mysql!Start(p) PROVE IdsInv' /\ UNCHANGED <<table, wrote>>
  <2>1. PICK kind \in {"read", "write", "info"}, n \in Names, s \in Servers :
          Goto(p, [Idle EXCEPT !.pc = IF kind = "info" THEN "info" ELSE "lookup",
                               !.kind = kind, !.name = n, !.server = s])
    BY <1>1, MysqlShares DEF Mysql!Start
  <2>. DEFINE r == [Idle EXCEPT !.pc = IF kind = "info" THEN "info" ELSE "lookup",
                                !.kind = kind, !.name = n, !.server = s]
  <2>2. r = [Idle EXCEPT !.pc = IF kind = "info" THEN "info" ELSE "lookup",
                         !.kind = kind, !.name = n, !.server = s, !.snap = StdTable]
    BY IdleType DEF Request
  <2>3. UNCHANGED <<table, wrote, cache, next>>
    BY <1>1 DEF Mysql!Start
  <2>. QED
    BY <2>1, <2>2, <2>3, ArrivalKeeps, ZenonT(60)
<1>2. ASSUME Mysql!Lookup(p) PROVE IdsInv' /\ UNCHANGED <<table, wrote>>
  <2>. DEFINE r  == req[p]
              id == table[r.name]
              putting == [r EXCEPT !.pc = "put", !.puts = {<<id, r.name>>}]
  <2>1. /\ r \in Request /\ Sound(r) /\ r.pc = "lookup" /\ r.kind = "read"
        /\ UNCHANGED <<table, wrote, cache, next>>
        /\ Goto(p, IF id = NoId THEN Resolved(r, NoId) ELSE putting)
    BY <1>2, MysqlShares DEF Mysql!Lookup, IdsInv, TypeOK, Mysql!NoId, NoId
  <2>2. r.name \in Names /\ id \in CollIds \cup {NoId}
    BY <2>1, RequestFields DEF IdsInv, TypeOK
  <2>3. CASE id = NoId
    <3>1. Resolved(r, NoId) \in Request /\ Sound(Resolved(r, NoId))
      BY <2>1, ResolvedSound DEF Sound, Guarded
    <3>. QED
      BY <2>1, <2>3, <3>1, LocalStep
  <2>4. CASE id # NoId
    <3>1. <<id, r.name>> \in Pair
      BY <2>2, <2>4 DEF Pair
    <3>2. /\ putting \in Request /\ putting.kind = r.kind /\ putting.name = r.name
          /\ putting.made = r.made /\ putting.snap = r.snap /\ putting.reads = r.reads
          /\ putting.puts = {<<id, r.name>>} /\ putting.half = r.half
          /\ putting.ids = r.ids /\ putting.pc = "put"
      <4>. HIDE DEF r, id
      <4>. QED
        BY <2>1, <3>1 DEF Request
    <3>3. Goto(p, putting)
      BY <2>1, <2>4
    <3>. HIDE DEF putting
    <3>4. Sound(putting)
      BY <2>1, <3>1, <3>2 DEF Sound, Committed, Guarded, OwnId
    <3>. QED
      BY <2>1, <3>2, <3>3, <3>4, LocalStep
  <2>. QED
    BY <2>3, <2>4
<1>. QED
  BY <1>1, <1>2

(* A write under the id the request has resolved, and holds to. *)
LEMMA MysqlCommitKeeps ==
  ASSUME IdsInv, backend = "mysql", UNCHANGED backend, NEW p \in Clients, Mysql!Commit(p)
  PROVE  IdsInv' /\ Ids!Write(req[p].name)
<1>. DEFINE r == req[p]
<1>1. /\ r \in Request /\ Sound(r) /\ r.name \in Names /\ r.id \in CollIds \cup {NoId}
      /\ r.id # NoId /\ r.id = table[r.name]
  BY RequestFields DEF Mysql!Commit, IdsInv, TypeOK, Sound, Guarded, OwnId
<1>2. /\ wrote' = [wrote EXCEPT ![r.id] = @ \cup {r.name}]
      /\ req' = [req EXCEPT ![p] = Idle] /\ UNCHANGED <<table, cache, next>>
  BY MysqlShares DEF Mysql!Commit, Goto
<1>3. /\ table \in [Names -> CollIds \cup {NoId}] /\ wrote \in [CollIds -> SUBSET Names]
      /\ \A n \in Names \ DOMAIN StdColls : table[n] \in {NoId} \cup FirstCustom..MaxId
      /\ req \in [Clients -> Request]
  BY DEF IdsInv, TypeOK
<1>. HIDE DEF r
<1>4. \A id \in CollIds : wrote'[id] = IF id = r.id THEN wrote[id] \cup {r.name} ELSE wrote[id]
  BY <1>2, <1>3
<1>5. /\ wrote' \in [CollIds -> SUBSET Names] /\ req' \in [Clients -> Request]
      /\ \A q \in Clients : req'[q] = Idle \/ req'[q] = req[q]
  BY <1>1, <1>2, <1>3, IdleType
<1>6. Distinct' /\ WroteAgrees'
  BY <1>1, <1>2, <1>4 DEF IdsInv, Distinct, WroteAgrees
<1>7. IdsInv'
  BY <1>2, <1>3, <1>4, <1>5, <1>6, TableStep
<1>8. Ids!Write(r.name)
  BY <1>1, <1>2 DEF Ids!Write, Ids!Named, Ids!NoId, NoId
<1>. QED
  BY <1>7, <1>8 DEF r

-----------------------------------------------------------------------------
(* The theorems. *)

LEMMA InitIds == Init => IdsInv /\ Ids!Init
<1>. SUFFICES ASSUME Init PROVE IdsInv /\ Ids!Init
  OBVIOUS
<1>1. /\ table = StdTable /\ wrote = [id \in CollIds |-> {}]
      /\ cache = [s \in Servers |-> StdCache] /\ req = [p \in Clients |-> Idle]
      /\ next = FirstCustom /\ backend \in {"spanner", "mysql"}
  BY MysqlShares DEF Init, Mysql!MysqlInit, CacheInit
<1>2. ASSUME NEW n \in Names
      PROVE  StdTable[n] < FirstCustom /\ StdTable[n] \in CollIds \cup {NoId}
  <2>1. CASE n \in DOMAIN StdColls
    <3>1. StdColls[n] \in 1..(FirstCustom - 1)
      BY <2>1, NamesAssumption
    <3>. QED
      BY <2>1, <3>1, StdTableType, NamesAssumption DEF CollIds
  <2>2. CASE n \notin DOMAIN StdColls
    BY <2>2, StdTableType, NamesAssumption DEF NoId
  <2>. QED
    BY <2>1, <2>2
<1>3. Distinct
  <2>1. \A m, n \in Names : table[m] = table[n] /\ table[m] # NoId => m = n
    BY <1>1, StdTableType, NamesAssumption
  <2>. QED
    BY <1>1, <1>2, <2>1, StdTableType, NamesAssumption DEF Distinct
<1>4. TypeOK /\ WroteAgrees
  BY <1>1, StdTableType, StdCacheType, IdleType DEF TypeOK, WroteAgrees
<1>5. CacheAgrees
  BY <1>1, StdTableType, StdCacheType, NamesAssumption DEF CacheAgrees
<1>6. \A p \in Clients : Sound(req[p])
  BY <1>1, IdleType, StdTableType DEF Sound, Committed, Guarded, OwnId
<1>7. Ids!Init
  BY <1>1, Zenon DEF Ids!Init, Ids!StdTable, StdTable, Ids!CollIds, CollIds, Ids!NoId, NoId
<1>. QED
  BY <1>3, <1>4, <1>5, <1>6, <1>7 DEF IdsInv

LEMMA NextIds ==
  ASSUME IdsInv, [Next]_vars
  PROVE  IdsInv' /\ [Ids!Next]_<<table, wrote>>
<1>1. CASE UNCHANGED vars
  BY <1>1 DEF vars, cacheVars, IdsInv, TypeOK, Distinct, WroteAgrees, CacheAgrees,
              Sound, Committed, Guarded, OwnId, Written
<1>2. CASE CacheNext /\ UNCHANGED <<backend, next>>
  <2>1. UNCHANGED <<table, wrote>>
    BY <1>2, ZenonT(60) DEF CacheNext, CacheHit, PutByName, PutById, InfoIds, LoadNames, GiveUp,
                End, Restart
  <2>. QED
    BY <1>2, <2>1, CacheNextKeeps, SMTT(30)
<1>3. ASSUME backend = "spanner", UNCHANGED <<backend, next>>, NEW p \in Clients,
             Spanner!Start(p) \/ Spanner!Lookup(p) \/ Spanner!Create(p) \/ Spanner!Commit(p)
      PROVE  IdsInv' /\ [Ids!Next]_<<table, wrote>>
  <2>1. CASE Spanner!Start(p)
    <3>1. PICK kind \in {"read", "write", "info"}, n \in Names, s \in Servers :
            Goto(p, [Idle EXCEPT !.pc = IF kind = "info" THEN "info" ELSE "lookup",
                                 !.kind = kind, !.name = n, !.server = s,
                                 !.snap = IF kind = "read" THEN table ELSE StdTable])
      BY <2>1, SpannerShares DEF Spanner!Start
    <3>2. UNCHANGED <<table, wrote, cache>>
      BY <2>1 DEF Spanner!Start
    <3>3. (IF kind = "read" THEN table ELSE StdTable) \in {table, StdTable}
      OBVIOUS
    <3>. QED
      BY <1>3, <3>1, <3>2, <3>3, ArrivalKeeps
  <2>2. CASE Spanner!Lookup(p) \/ Spanner!Create(p)
    <3>1. UNCHANGED <<table, wrote>>
      BY <2>2 DEF Spanner!Lookup, Spanner!Create
    <3>. QED
      BY <1>3, <2>2, <3>1, SpannerLookupKeeps, SpannerCreateKeeps
  <2>3. CASE Spanner!Commit(p)
    <3>1. req[p].name \in Names
      BY RequestFields DEF IdsInv, TypeOK
    <3>. QED
      BY <1>3, <2>3, <3>1, SpannerCommitKeeps DEF Ids!Next
  <2>. QED
    BY <1>3, <2>1, <2>2, <2>3
<1>4. ASSUME backend = "mysql", UNCHANGED backend, NEW p \in Clients,
             Mysql!Start(p) \/ Mysql!Lookup(p) \/ Mysql!GetOrCreate(p) \/ Mysql!Commit(p)
      PROVE  IdsInv' /\ [Ids!Next]_<<table, wrote>>
  <2>1. req[p].name \in Names
    BY RequestFields DEF IdsInv, TypeOK
  <2>. QED
    BY <1>4, <2>1, MysqlStepKeeps, MysqlCreateKeeps, MysqlCommitKeeps DEF Ids!Next
<1>. QED
  BY <1>1, <1>2, <1>3, <1>4, SpannerShares, MysqlShares
  DEF Next, Spanner!SpannerNext, Mysql!MysqlNext

(* The variables keep their types. *)
THEOREM IdsTypeCorrect == Spec => []TypeOK
<1>1. IdsInv => TypeOK
  BY DEF IdsInv
<1>. QED
  BY <1>1, InitIds, NextIds, PTL DEF Spec

(* Requests that create collections at once, are rolled back or find an id    *)
(* in a cache of whatever age never share an id or split a name, on either    *)
(* backend (create_collection_async, get_or_create_collection_id).            *)
THEOREM IdsAreForGood == Spec => NamesKeepTheirIds
<1>. QED
  BY InitIds, NextIds, PTL DEF Spec, NamesKeepTheirIds, Ids!Spec

(* Whatever is rolled back, restarted or created on another server, a cache   *)
(* holds committed ids only (CollectionCache::put and who calls it).          *)
THEOREM CachesAgree == Spec => []CacheAgrees
<1>1. IdsInv => CacheAgrees
  BY DEF IdsInv
<1>. QED
  BY <1>1, InitIds, NextIds, PTL DEF Spec

(* GET /info/... answers with the names whose requests wrote the collections, *)
(* and with all of them (load_collection_names, map_collection_names).        *)
THEOREM InfoAnswersTrueNames == Spec => []InfoNamesAreTrue
<1>1. IdsInv => InfoNamesAreTrue
  <2>. SUFFICES ASSUME IdsInv, NEW p \in Clients, req[p].pc = "answer",
                       NEW id \in req[p].ids
                PROVE  wrote[id] = {req[p].answer[id]}
    BY DEF InfoNamesAreTrue
  <2>1. /\ id \in CollIds /\ wrote[id] # {} /\ req[p].answer[id] \in Names
        /\ table[req[p].answer[id]] = id
    BY DEF IdsInv, Sound, Committed, Written
  <2>2. ASSUME NEW n \in wrote[id] PROVE n = req[p].answer[id]
    <3>1. n \in Names /\ table[n] = id /\ id # NoId
      BY <2>1 DEF IdsInv, TypeOK, WroteAgrees, CollIds, NoId
    <3>. QED
      BY <2>1, <3>1 DEF IdsInv, Distinct
  <2>. QED
    BY <2>1, <2>2
<1>. QED
  BY <1>1, InitIds, NextIds, PTL DEF Spec
=============================================================================
