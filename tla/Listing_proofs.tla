--------------------------- MODULE Listing_proofs ---------------------------
(***************************************************************************)
(* The pages of a listing are the listing, and each offset leads on, for   *)
(* any queries, rows and writes of others, up to the order of rows that     *)
(* compare equal.  The invariant, ListInv, says that what was fetched so   *)
(* far agrees key by key with the part of the listing before the offset.   *)
(***************************************************************************)
EXTENDS Listing, FiniteSetTheorems, SequenceTheorems, TLAPS

-----------------------------------------------------------------------------
(* Listing: its orders have the same keys. *)

\* s names the members of S one after the other.
Enumerates(s, S, n) ==
    /\ n \in Nat /\ s \in [1..n -> S]
    /\ \A j, k \in 1..n : j # k => s[j] # s[k]
    /\ \A x \in S : \E k \in 1..n : s[k] = x

LEMMA SequenceEnumerates ==
  ASSUME NEW S, IsFiniteSet(S), NEW s \in SetToSeqs(S)
  PROVE  Enumerates(s, S, Cardinality(S))
<1>. DEFINE n == Cardinality(S)
<1>1. n \in Nat
  BY FS_CardinalityType
<1>2. s \in [1..n -> S] /\ \A j, k \in 1..n : j # k => s[j] # s[k]
  BY DEF SetToSeqs
<1>. HIDE DEF n
<1>3. s \in Injection(1..n, S)
  BY <1>2 DEF Injection, IsInjective
<1>4. Cardinality(1..n) = n
  BY <1>1, FS_Interval
<1>5. s \in Surjection(1..n, S)
  BY <1>3, <1>4, FS_Injection DEF n
<1>6. \A x \in S : \E k \in 1..n : s[k] = x
  BY <1>5 DEF Surjection
<1>. QED
  BY <1>1, <1>2, <1>6 DEF Enumerates, n

Ranked(f, rank, n) == \A j, k \in 1..n : j < k => rank[f[j]] <= rank[f[k]]

\* Of two orders of the same members by a rank, neither is ahead anywhere: what comes
\* up to k in the one has not all room before k in the other.
LEMMA NotAhead ==
  ASSUME NEW S, NEW n, NEW s, NEW w, Enumerates(s, S, n), Enumerates(w, S, n),
         NEW rank \in [S -> Int], Ranked(s, rank, n), Ranked(w, rank, n), NEW k \in 1..n
  PROVE  rank[s[k]] <= rank[w[k]]
<1>1. n \in Nat /\ s \in [1..n -> S] /\ w \in [1..n -> S] /\ k \in Nat \ {0} /\ k <= n
  BY DEF Enumerates
<1>2. SUFFICES ASSUME rank[w[k]] < rank[s[k]] PROVE FALSE
  <2>1. rank[w[k]] \in Int /\ rank[s[k]] \in Int
    BY <1>1
  <2>. QED
    BY <2>1
<1>. DEFINE place == [j \in 1..k |-> CHOOSE l \in 1..n : s[l] = w[j]]
<1>3. ASSUME NEW j \in 1..k
      PROVE  place[j] \in 1..n /\ s[place[j]] = w[j]
  <2>1. j \in 1..n /\ w[j] \in S
    BY <1>1
  <2>2. \E l \in 1..n : s[l] = w[j]
    BY <2>1 DEF Enumerates
  <2>. QED
    BY <2>2
<1>. HIDE DEF place
<1>4. ASSUME NEW j \in 1..k PROVE place[j] \in 1..(k - 1)
  <2>1. j \in 1..n /\ place[j] \in 1..n /\ s[place[j]] = w[j]
    BY <1>1, <1>3
  <2>2. rank[w[j]] <= rank[w[k]]
    <3>1. rank[w[k]] \in Int
      BY <1>1
    <3>2. CASE j = k
      BY <3>1, <3>2
    <3>3. CASE j < k
      BY <2>1, <3>3 DEF Ranked
    <3>. QED
      BY <1>1, <3>2, <3>3
  <2>3. rank[s[place[j]]] < rank[s[k]]
    <3>1. rank[w[j]] \in Int /\ rank[w[k]] \in Int /\ rank[s[k]] \in Int
      BY <1>1, <2>1
    <3>. QED
      BY <1>2, <2>1, <2>2, <3>1
  <2>4. ~ (k <= place[j])
    <3>1. SUFFICES ASSUME k <= place[j] PROVE FALSE
      OBVIOUS
    <3>2. rank[s[k]] \in Int /\ rank[s[place[j]]] \in Int
      BY <1>1, <2>1
    <3>3. CASE k = place[j]
      BY <2>3, <3>2, <3>3
    <3>4. CASE k < place[j]
      <4>1. rank[s[k]] <= rank[s[place[j]]]
        BY <2>1, <3>4 DEF Ranked
      <4>. QED
        BY <2>3, <3>2, <4>1
    <3>. QED
      BY <1>1, <2>1, <3>1, <3>3, <3>4
  <2>. QED
    BY <1>1, <2>1, <2>4
<1>5. place \in [1..k -> 1..(k - 1)]
  BY <1>4 DEF place
<1>6. IsFiniteSet(1..k) /\ IsFiniteSet(1..(k - 1))
      /\ Cardinality(1..k) = k /\ Cardinality(1..(k - 1)) = k - 1
  BY <1>1, FS_Interval
<1>7. PICK i \in 1..k, j \in 1..k : i # j /\ place[i] = place[j]
  <2>1. Cardinality(1..k) > Cardinality(1..(k - 1))
    BY <1>1, <1>6
  <2>. QED
    BY <1>5, <1>6, <2>1, FS_PigeonHole
<1>8. w[i] = w[j] /\ i \in 1..n /\ j \in 1..n
  BY <1>1, <1>3, <1>7
<1>. QED
  BY <1>7, <1>8 DEF Enumerates

\* They have the same ranks in the same places.
LEMMA SameRanks ==
  ASSUME NEW S, NEW n, NEW s, NEW w, Enumerates(s, S, n), Enumerates(w, S, n),
         NEW rank \in [S -> Int], Ranked(s, rank, n), Ranked(w, rank, n)
  PROVE  \A k \in 1..n : rank[s[k]] = rank[w[k]]
<1>1. SUFFICES ASSUME NEW k \in 1..n PROVE rank[s[k]] = rank[w[k]]
  OBVIOUS
<1>2. rank[s[k]] <= rank[w[k]]
  BY NotAhead
<1>3. rank[w[k]] <= rank[s[k]]
  BY NotAhead
<1>4. rank[s[k]] \in Int /\ rank[w[k]] \in Int
  BY DEF Enumerates
<1>. QED
  BY <1>2, <1>3, <1>4

-----------------------------------------------------------------------------
(* What a page answers of a listing. *)

\* A sequence as a function, and a part of it.
LEMMA Parts ==
  ASSUME NEW S, NEW s \in Seq(S), NEW m \in Nat \ {0}, NEW n \in 0..Len(s)
  PROVE  /\ Len(s) \in Nat /\ DOMAIN s = 1..Len(s)
         /\ SubSeq(s, m, n) \in Seq(S)
         /\ Len(SubSeq(s, m, n)) = IF m <= n THEN n - m + 1 ELSE 0
<1>1. Len(s) \in Nat /\ DOMAIN s = 1..Len(s)
  BY LenProperties
<1>2. \A i \in m..n : s[i] \in S
  <2>1. ASSUME NEW i \in m..n PROVE s[i] \in S
    <3>1. i \in 1..Len(s)
      BY <1>1
    <3>. QED
      BY <3>1, ElementOfSeq
  <2>. QED
    BY <2>1
<1>3. m \in Int /\ n \in Int
  BY <1>1
<1>. QED
  BY <1>1, <1>2, <1>3, SubSeqProperties

\* h is g up to m and from there s up to end.
IsSplice(h, g, s, m, end) ==
    Len(h) = end /\ \A k \in 1..end : h[k] = IF k <= m THEN g[k] ELSE s[k]

\* A sequence of length m followed by what comes after m in s.
LEMMA SpliceAt ==
  ASSUME NEW S, NEW g \in Seq(S), NEW s \in Seq(S), NEW m \in Nat, Len(g) = m,
         NEW end \in m..Len(s), NEW h, h = g \o SubSeq(s, m + 1, end)
  PROVE  IsSplice(h, g, s, m, end)
<1>1. Len(s) \in Nat /\ end \in 0..Len(s) /\ m + 1 \in Nat \ {0}
  BY LenProperties
<1>. DEFINE rest == SubSeq(s, m + 1, end)
<1>2. /\ rest \in Seq(S)
      /\ Len(rest) = IF m + 1 <= end THEN end - (m + 1) + 1 ELSE 0
  BY <1>1, Parts
<1>3. Len(rest) = end - m
  BY <1>1, <1>2
<1>4. \A k \in 1..(end - m) : rest[k] = s[m + k]
  <2>1. \A k \in 1..(end - m) : m + 1 + k - 1 = m + k
    BY <1>1
  <2>2. \A k \in 1..(end - m) : rest[k] = s[m + 1 + k - 1]
    BY <1>1
  <2>. QED
    BY <2>1, <2>2
<1>. HIDE DEF rest
<1>5. /\ h = g \o rest
      /\ Len(h) = m + Len(rest)
      /\ \A k \in 1..(m + Len(rest)) : h[k] = IF k <= m THEN g[k] ELSE rest[k - m]
  BY <1>2, ConcatProperties DEF rest
<1>6. Len(h) = end /\ m + Len(rest) = end
  BY <1>1, <1>3, <1>5
<1>7. ASSUME NEW k \in 1..end, ~ (k <= m) PROVE rest[k - m] = s[k]
  <2>1. k - m \in 1..(end - m) /\ m + (k - m) = k
    BY <1>1, <1>7
  <2>. QED
    BY <1>4, <2>1
<1>. QED
  BY <1>5, <1>6, <1>7 DEF IsSplice

\* The number of rows fetched, n, of a listing of length len, and where they end.
LEMMA RowsFetched ==
  ASSUME NEW len \in Nat, NEW offset \in Nat, NEW limit \in {-1} \cup (Nat \ {0}), NEW n,
         NEW end,
         end = LET last == IF limit = -1 THEN len ELSE offset + limit + 1
               IN  IF last < len THEN last ELSE len,
         n = IF offset + 1 <= end THEN end - offset ELSE 0
  PROVE  /\ end \in 0..len
         /\ limit # -1 /\ n > limit
            => offset + limit < len /\ n = limit + 1 /\ end = offset + limit + 1
         /\ ~ (limit # -1 /\ n > limit) /\ offset <= len => end = len
<1>1. CASE limit = -1
  BY <1>1
<1>2. CASE limit # -1
  <2>. DEFINE last == offset + limit + 1
  <2>1. limit \in Nat \ {0} /\ last \in Nat
    BY <1>2
  <2>2. end = IF last < len THEN last ELSE len
    BY <1>2
  <2>3. end \in 0..len /\ end <= last
    BY <2>1, <2>2
  <2>4. CASE last < len
    BY <1>2, <2>1, <2>2, <2>4
  <2>5. CASE ~ (last < len)
    BY <1>2, <2>1, <2>2, <2>5
  <2>. QED
    BY <2>4, <2>5
<1>. QED
  BY <1>1, <1>2

\* The rows fetched of s from an offset on, and whether there are more.
AreFetched(rows, S, s, limit, offset, more) ==
    /\ rows \in Seq(S)
    /\ more => /\ limit \in Nat \ {0} /\ offset + limit < Len(s) /\ Len(rows) = limit + 1
               /\ rows = SubSeq(s, offset + 1, offset + limit + 1)
    /\ ~more /\ offset <= Len(s) => rows = SubSeq(s, offset + 1, Len(s))

LEMMA FetchedRows ==
  ASSUME NEW S, NEW s \in Seq(S), NEW q, q.limit \in {None} \cup (Nat \ {0}),
         NEW offset \in Nat
  PROVE  LET rows == Fetched(s, q, offset) IN
         AreFetched(rows, S, s, q.limit, offset, More(rows, q))
<1>. DEFINE rows  == Fetched(s, q, offset)
            limit == q.limit
            len   == Len(s)
            end   == LET last == IF limit = -1 THEN len ELSE offset + limit + 1
                     IN  IF last < len THEN last ELSE len
            n     == Len(rows)
<1>1. limit \in {-1} \cup (Nat \ {0})
  BY DEF None
<1>2. len \in Nat
  BY LenProperties
<1>3. rows = SubSeq(s, offset + 1, end)
  BY DEF Fetched, None
<1>4. More(rows, q) <=> (limit # -1 /\ n > limit)
  BY DEF More, None
<1>. HIDE DEF rows, limit
<1>5. end \in 0..len
  BY <1>1, <1>2
<1>6. rows \in Seq(S) /\ n = IF offset + 1 <= end THEN end - offset ELSE 0
  <2>. HIDE DEF end
  <2>1. /\ rows \in Seq(S)
        /\ n = IF offset + 1 <= end THEN end - (offset + 1) + 1 ELSE 0
    BY <1>3, <1>5, Parts
  <2>2. end - (offset + 1) + 1 = end - offset
    BY <1>2, <1>5
  <2>. QED
    BY <2>1, <2>2
<1>. HIDE DEF n, len
<1>7. /\ limit # -1 /\ n > limit
         => offset + limit < len /\ n = limit + 1 /\ end = offset + limit + 1
      /\ ~ (limit # -1 /\ n > limit) /\ offset <= len => end = len
  BY <1>1, <1>2, <1>6, RowsFetched
<1>. HIDE DEF end
<1>. QED
  BY <1>1, <1>3, <1>4, <1>6, <1>7 DEF rows, limit, len, n, AreFetched

\* A page of s from an offset on, with the next offset when there are more.
IsPage(page, S, s, offset) ==
    /\ page.items \in Seq(S)
    /\ page.next # None
       => /\ page.next \in Nat /\ page.next > offset /\ page.next <= Len(s)
          /\ page.items = SubSeq(s, offset + 1, page.next)
    /\ page.next = None /\ offset <= Len(s)
       => page.items = SubSeq(s, offset + 1, Len(s))

LEMMA PageOfListing ==
  ASSUME NEW S, NEW s \in Seq(S), NEW q, q.limit \in {None} \cup (Nat \ {0}),
         NEW offset \in Nat
  PROVE  IsPage(Page(s, q, offset), S, s, offset)
<1>. DEFINE rows  == Fetched(s, q, offset)
            page  == Page(s, q, offset)
            limit == q.limit
            next  == offset + limit
<1>0. AreFetched(rows, S, s, limit, offset, More(rows, q))
  BY FetchedRows
<1>. HIDE DEF rows, limit, page
<1>1. /\ rows \in Seq(S)
      /\ More(rows, q)
         => /\ limit \in Nat \ {0} /\ next < Len(s)
            /\ Len(rows) = limit + 1 /\ rows = SubSeq(s, offset + 1, next + 1)
      /\ ~More(rows, q) /\ offset <= Len(s) => rows = SubSeq(s, offset + 1, Len(s))
  BY <1>0 DEF AreFetched
<1>. USE DEF rows, limit, page
<1>2. CASE ~More(rows, q)
  <2>1. page = [items |-> rows, next |-> None]
    BY <1>2 DEF Page, SpannerBsos, SpannerBsoIds, MysqlBsos, MysqlBsoIds
  <2>. HIDE DEF rows, page
  <2>2. page.items = rows /\ page.next = None
    BY <2>1
  <2>. QED
    BY <1>1, <1>2, <2>2 DEF page, IsPage
<1>3. CASE More(rows, q)
  <2>. DEFINE front == Front(rows)
              mods  == ModifiedsOf(rows)
              m1    == offset + Len(ModifiedsOf(front))
              m2    == offset + Len(Front(mods))
  <2>1. page.items = front /\ page.next \in {next, limit + offset, m1, m2}
    BY <1>3 DEF Page, SpannerBsos, SpannerBsoIds, MysqlBsos, MysqlBsoIds,
          EncodeNextOffset
  <2>2. /\ Len(rows) = limit + 1 /\ rows = SubSeq(s, offset + 1, next + 1)
        /\ next < Len(s) /\ limit \in Nat \ {0} /\ rows \in Seq(S) /\ Len(s) \in Nat
    BY <1>1, <1>3, LenProperties
  <2>. HIDE DEF rows, page, limit
  <2>3. front = SubSeq(rows, 1, limit)
    <3>1. Len(rows) - 1 = limit
      BY <2>2
    <3>2. front = SubSeq(rows, 1, Len(rows) - 1)
      BY Zenon DEF Front
    <3>. HIDE DEF front
    <3>. QED
      BY <3>1, <3>2, Zenon
  <2>4. Len(front) = limit /\ DOMAIN front = 1..limit /\ front \in Seq(S)
    <3>1. limit \in 0..Len(rows) /\ 1 \in Nat \ {0} /\ 1 <= limit
      BY <2>2
    <3>. HIDE DEF front
    <3>2. /\ front \in Seq(S)
          /\ Len(front) = IF 1 <= limit THEN limit - 1 + 1 ELSE 0
      BY <2>2, <2>3, <3>1, Parts
    <3>3. Len(front) = limit
      BY <2>2, <3>1, <3>2
    <3>. QED
      BY <3>2, <3>3, LenProperties
  <2>5. front = SubSeq(s, offset + 1, next)
    <3>. DEFINE i == offset + 1
                j == next + 1
    <3>1. /\ i \in 1..Len(s) /\ j \in 1..Len(s) /\ 1 \in 1..(j - i + 1)
          /\ limit \in 1..(j - i + 1) /\ i + 1 - 1 = i /\ i + limit - 1 = next
      BY <2>2
    <3>. HIDE DEF i, j
    <3>2. SubSeq(SubSeq(s, i, j), 1, limit) = SubSeq(s, i + 1 - 1, i + limit - 1)
      BY <3>1, SubSeqOfSubSeq
    <3>. QED
      BY <2>2, <2>3, <3>1, <3>2 DEF i, j
  <2>. HIDE DEF front, next
  <2>6. m1 = offset + limit
    <3>1. ModifiedsOf(front) = [k \in 1..limit |-> bsos[front[k]].mod]
      BY <2>4 DEF ModifiedsOf
    <3>2. Len([k \in 1..limit |-> bsos[front[k]].mod]) = limit
      BY <2>2
    <3>. QED
      BY <3>1, <3>2
  <2>7. m2 = offset + limit
    <3>. DEFINE T == {bsos[rows[k]].mod : k \in DOMAIN rows}
    <3>1. DOMAIN rows = 1..(limit + 1)
      BY <2>2, LenProperties
    <3>2. mods = [k \in 1..(limit + 1) |-> bsos[rows[k]].mod]
      BY <3>1 DEF ModifiedsOf
    <3>3. limit + 1 \in Nat /\ Len(mods) = limit + 1
      BY <2>2, <3>2
    <3>4. mods \in Seq(T)
      <4>1. mods \in [1..(limit + 1) -> T]
        BY <3>1, <3>2
      <4>. QED
        BY <3>3, <4>1
    <3>. HIDE DEF mods, T
    <3>5. Front(mods) = SubSeq(mods, 1, limit)
      <4>1. Len(mods) - 1 = limit
        BY <2>2, <3>3
      <4>2. Front(mods) = SubSeq(mods, 1, Len(mods) - 1)
        BY Zenon DEF Front
      <4>. QED
        BY <4>1, <4>2, Zenon
    <3>6. limit \in 0..Len(mods) /\ 1 \in Nat \ {0} /\ 1 <= limit /\ limit - 1 + 1 = limit
      BY <2>2, <3>3
    <3>7. Len(SubSeq(mods, 1, limit)) = IF 1 <= limit THEN limit - 1 + 1 ELSE 0
      BY <3>4, <3>6, Parts
    <3>. QED
      BY <3>5, <3>6, <3>7
  <2>8. page.next = next
    <3>. HIDE DEF m1, m2
    <3>1. limit + offset = offset + limit
      BY <2>2
    <3>. QED
      BY <2>1, <2>6, <2>7, <3>1, Zenon DEF next
  <2>9. next # None /\ next \in Nat /\ next > offset /\ next <= Len(s)
    BY <2>2 DEF None, next
  <2>. QED
    BY <2>1, <2>4, <2>5, <2>8, <2>9 DEF page, IsPage
<1>. QED
  BY <1>2, <1>3

-----------------------------------------------------------------------------
(* Listing: the pages of a client. *)

\* The rows that match, and that a sequence is in the order of the query.
Matching(q) == {i \in Ids : Matches(i, q)}

Sorted(w, q) == \A j, k \in DOMAIN w : j < k => Key(w[j], q) <= Key(w[k], q)

Members(w) == {w[k] : k \in DOMAIN w}

\* w was the listing at some moment, and is it still but for rows that expired.
WasListing(w, q) ==
    /\ w \in Seq(Ids)
    /\ Enumerates(w, Members(w), Len(w))
    /\ Matching(q) \subseteq Members(w)
    /\ Sorted(w, q)

AllMatch(w, q) == \A k \in DOMAIN w : Matches(w[k], q)

RowsTyped ==
    /\ now \in Int /\ uc \in Int
    /\ bsos \in [Ids -> [mod : Int, idx : Int, exp : Int]]

PagerTyped ==
    pager \in [pc : {"idle", "paging", "done", "failed"}, query : Query, offset : Int,
               since : Int, got : Seq(Ids), whole : Seq(Ids)]

\* g are the first n rows of w but for the order of rows of one key.
AgreesUpTo(g, w, q, n) ==
    /\ n <= Len(w) /\ Len(g) = n
    /\ \A k \in 1..n : g[k] \in Members(w) /\ Key(g[k], q) = Key(w[k], q)

\* What a client has whose collection was not written since: the listing it started
\* on, and of it what comes before offset.
HasPages(g, w, q, offset) ==
    /\ WasListing(w, q)
    /\ AllMatch(w, q) => AgreesUpTo(g, w, q, offset)

\* What the client that goes on has.
PagesSoFar ==
    pager.pc = "paging" =>
        /\ pager.offset \in Nat
        /\ ~deleted => pager.since <= uc
        /\ ~deleted /\ uc = pager.since
           => HasPages(pager.got, pager.whole, pager.query, pager.offset)

ListInv == RowsTyped /\ PagerTyped /\ PagesSoFar

LEMMA KeyIsNumber ==
  ASSUME RowsTyped, NEW i \in Ids, NEW q \in Query
  PROVE  Key(i, q) \in Int
<1>1. q.sort \in {"none", "newest", "oldest", "index"}
  BY DEF Query, Sortings
<1>2. bsos[i].mod \in Int /\ bsos[i].idx \in Int
  BY DEF RowsTyped
<1>. QED
  BY <1>1, <1>2 DEF Key

LEMMA MembersAreIds ==
  ASSUME NEW S, NEW w \in Seq(S)
  PROVE  Members(w) \subseteq S /\ Len(w) \in Nat /\ DOMAIN w = 1..Len(w)
<1>1. Len(w) \in Nat /\ DOMAIN w = 1..Len(w)
  BY LenProperties
<1>2. \A k \in 1..Len(w) : w[k] \in S
  BY ElementOfSeq
<1>. QED
  BY <1>1, <1>2 DEF Members

LEMMA CountOfMembers ==
  ASSUME NEW S, NEW s, NEW n, Enumerates(s, S, n)
  PROVE  Cardinality(S) = n
<1>1. n \in Nat /\ IsFiniteSet(1..n) /\ Cardinality(1..n) = n
  BY FS_Interval DEF Enumerates
<1>2. s \in Surjection(1..n, S) /\ s \in Injection(1..n, S)
  BY Zenon DEF Enumerates, Surjection, Injection, IsInjective
<1>. QED
  BY <1>1, <1>2, FS_Surjection, Zenon

\* What the database answers is a listing of what matches.
LEMMA ListingIsSorted ==
  ASSUME NEW q \in Query, NEW s \in Listings(q)
  PROVE  /\ s \in Seq(Ids) /\ Enumerates(s, Matching(q), Len(s))
         /\ Members(s) = Matching(q)
         /\ Sorted(s, q)
<1>. DEFINE M == Matching(q)
            n == Cardinality(M)
<1>1. IsFiniteSet(M) /\ M \subseteq Ids
  <2>1. IsFiniteSet(1..NumIds)
    BY FS_Interval, ListingAssumption
  <2>2. M \subseteq 1..NumIds
    BY DEF Matching, Ids
  <2>3. M \subseteq Ids
    BY DEF Matching
  <2>. HIDE DEF M
  <2>. QED
    BY <2>1, <2>2, <2>3, FS_Subset
<1>2. s \in SetToSeqs(M)
  BY DEF Listings, Matching
<1>3. Sorted(s, q)
  BY DEF Listings, Sorted
<1>. HIDE DEF M
<1>4. Enumerates(s, M, n)
  BY <1>1, <1>2, SequenceEnumerates
<1>. HIDE DEF n
<1>5. n \in Nat /\ s \in [1..n -> M]
  BY <1>4 DEF Enumerates
<1>6. s \in Seq(M) /\ Len(s) = n
  BY <1>5
<1>7. s \in Seq(Ids)
  BY <1>1, <1>6, SeqMonotonic
<1>8. Members(s) = M
  <2>1. DOMAIN s = 1..n
    BY <1>5
  <2>2. Members(s) \subseteq M
    BY <1>5, <2>1 DEF Members
  <2>3. M \subseteq Members(s)
    BY <1>4, <2>1 DEF Members, Enumerates
  <2>. QED
    BY <2>2, <2>3
<1>. QED
  BY <1>3, <1>4, <1>6, <1>7, <1>8 DEF M

\* Whatever is answered while all of the listing w is still there has its keys.
LEMMA OneListing ==
  ASSUME RowsTyped, NEW q \in Query,
         NEW s \in Listings(q), NEW w, WasListing(w, q), AllMatch(w, q)
  PROVE  AgreesUpTo(s, w, q, Len(w)) /\ Len(w) \in Nat /\ Len(s) = Len(w)
<1>. DEFINE M    == Matching(q)
            n    == Len(w)
            rank == [x \in M |-> Key(x, q)]
<1>1. Enumerates(s, M, Len(s)) /\ Sorted(s, q) /\ s \in Seq(Ids)
  BY ListingIsSorted
<1>2. Members(w) = M
  <2>1. w \in Seq(Ids) /\ M \subseteq Members(w)
    BY DEF WasListing
  <2>2. Members(w) \subseteq Ids
    BY <2>1, MembersAreIds
  <2>3. \A i \in Members(w) : Matches(i, q)
    BY DEF AllMatch, Members
  <2>. QED
    BY <2>1, <2>2, <2>3 DEF Matching
<1>3. Enumerates(w, M, n) /\ Sorted(w, q) /\ w \in Seq(Ids)
  BY <1>2, Zenon DEF WasListing
<1>4. rank \in [M -> Int]
  <2>1. \A x \in M : x \in Ids
    BY DEF Matching
  <2>. QED
    BY <2>1, KeyIsNumber
<1>. HIDE DEF M
<1>5. Len(s) = n /\ n \in Nat
  <2>1. Cardinality(M) = Len(s)
    BY <1>1, CountOfMembers, Zenon
  <2>2. Cardinality(M) = n
    BY <1>3, CountOfMembers, Zenon
  <2>. QED
    BY <1>3, <2>1, <2>2, Zenon DEF Enumerates
<1>. HIDE DEF n
<1>6. ASSUME NEW f, Enumerates(f, M, n), Sorted(f, q)
      PROVE  Ranked(f, rank, n)
  <2>1. f \in [1..n -> M] /\ DOMAIN f = 1..n
    BY <1>6 DEF Enumerates
  <2>. QED
    BY <1>6, <2>1 DEF Sorted, Ranked
<1>7. Enumerates(s, M, n)
  BY <1>1, <1>5
<1>8. Ranked(s, rank, n) /\ Ranked(w, rank, n)
  BY <1>1, <1>3, <1>6, <1>7
<1>9. \A k \in 1..n : rank[s[k]] = rank[w[k]]
  <2>. HIDE DEF rank
  <2>. QED
    BY <1>3, <1>4, <1>7, <1>8, SameRanks, SMT
<1>10. \A k \in 1..n : s[k] \in M /\ w[k] \in M
  BY <1>3, <1>7 DEF Enumerates
<1>11. \A k \in 1..n : s[k] \in Members(w) /\ Key(s[k], q) = Key(w[k], q)
  BY <1>2, <1>9, <1>10
<1>. QED
  BY <1>5, <1>11 DEF AgreesUpTo, n

\* A page answered, from where the pages before it end.
LEMMA PageGoesOn ==
  ASSUME NEW q \in Query, NEW s \in Seq(Ids),
         NEW offset \in Nat, NEW since, NEW got \in Seq(Ids), NEW whole \in Seq(Ids),
         Answered(s, q, offset, since, got, whole)
  PROVE  /\ pager'.pc \in {"paging", "done"} /\ pager'.query = q /\ pager'.since = since
         /\ pager'.got \in Seq(Ids) /\ pager'.whole = whole /\ pager'.offset \in Int
         /\ pager' = [pc |-> pager'.pc, query |-> q, offset |-> pager'.offset,
                      since |-> since, got |-> pager'.got, whole |-> whole]
         /\ pager'.pc = "paging" => pager'.offset \in Nat /\ pager'.offset > offset
         /\ AgreesUpTo(s, whole, q, Len(whole)) /\ AgreesUpTo(got, whole, q, offset)
            => AgreesUpTo(pager'.got, whole, q,
                          IF pager'.pc = "done" THEN Len(whole) ELSE pager'.offset)
<1>. DEFINE page == Page(s, q, offset)
            step == IF page.next = None THEN "done" ELSE "paging"
<1>1. q.limit \in {None} \cup (Nat \ {0})
  BY DEF Query, None
<1>2a. IsPage(page, Ids, s, offset)
  BY <1>1, PageOfListing
<1>. HIDE DEF page
<1>2. /\ page.items \in Seq(Ids)
      /\ page.next # None
         => /\ page.next \in Nat /\ page.next > offset /\ page.next <= Len(s)
            /\ page.items = SubSeq(s, offset + 1, page.next)
      /\ page.next = None /\ offset <= Len(s)
         => page.items = SubSeq(s, offset + 1, Len(s))
  BY <1>2a DEF IsPage
<1>3. pager' = [pc |-> step, query |-> q, offset |-> page.next, since |-> since,
                got |-> got \o page.items, whole |-> whole]
  BY DEF Answered, page
<1>. DEFINE gets == got \o page.items
<1>4. gets \in Seq(Ids)
  BY <1>2, ConcatProperties
<1>. HIDE DEF gets, step
<1>5. pager' = [pc |-> step, query |-> q, offset |-> page.next, since |-> since,
                got |-> gets, whole |-> whole]
  BY <1>3 DEF gets
<1>6. /\ pager'.pc = step /\ pager'.query = q /\ pager'.offset = page.next
      /\ pager'.since = since /\ pager'.got = gets /\ pager'.whole = whole
  BY <1>5
<1>7. \/ step = "done" /\ page.next = None
      \/ step = "paging" /\ page.next # None
  BY DEF step
<1>8. ASSUME AgreesUpTo(s, whole, q, Len(whole)), AgreesUpTo(got, whole, q, offset)
      PROVE  AgreesUpTo(gets, whole, q, IF step = "done" THEN Len(whole) ELSE page.next)
  <2>. DEFINE end == IF step = "done" THEN Len(whole) ELSE page.next
  <2>1. Len(whole) \in Nat /\ Len(s) = Len(whole) /\ offset <= Len(whole) /\ Len(got) = offset
    BY <1>8, LenProperties DEF AgreesUpTo
  <2>2. /\ end \in offset..Len(whole) /\ end \in offset..Len(s)
        /\ page.items = SubSeq(s, offset + 1, end)
    BY <1>2, <1>7, <2>1
  <2>. HIDE DEF end
  <2>3. gets = got \o SubSeq(s, offset + 1, end)
    BY <2>2 DEF gets
  <2>4. Len(gets) = end
        /\ \A k \in 1..end : gets[k] = IF k <= offset THEN got[k] ELSE s[k]
    <3>1. IsSplice(gets, got, s, offset, end)
      BY <2>1, <2>2, <2>3, SpliceAt
    <3>. QED
      BY <3>1 DEF IsSplice
  <2>5. ASSUME NEW k \in 1..end
        PROVE  gets[k] \in Members(whole) /\ Key(gets[k], q) = Key(whole[k], q)
    <3>1. CASE k <= offset
      <4>1. gets[k] = got[k] /\ k \in 1..offset
        BY <2>2, <2>4, <3>1
      <4>. QED
        BY <1>8, <4>1 DEF AgreesUpTo
    <3>2. CASE ~ (k <= offset)
      <4>1. gets[k] = s[k] /\ k \in 1..Len(whole)
        BY <2>1, <2>2, <2>4, <3>2
      <4>. QED
        BY <1>8, <4>1 DEF AgreesUpTo
    <3>. QED
      BY <3>1, <3>2
  <2>6. AgreesUpTo(gets, whole, q, end)
    BY <2>1, <2>2, <2>4, <2>5 DEF AgreesUpTo
  <2>. QED
    BY <2>6 DEF end
<1>9. None \in Int
  BY DEF None
<1>10. /\ pager'.pc \in {"paging", "done"} /\ pager'.offset \in Int
       /\ pager'.pc = "paging" => pager'.offset \in Nat /\ pager'.offset > offset
  BY <1>2, <1>6, <1>7, <1>9
<1>. QED
  BY <1>4, <1>5, <1>6, <1>8, <1>10, Zenon

\* What a client has is of the rows alone.
LEMMA RowsStay ==
  ASSUME UNCHANGED <<now, bsos>>, NEW g, NEW w, NEW q, NEW o
  PROVE  HasPages(g, w, q, o) => HasPages(g, w, q, o)'
<1>1. \A i : Matches(i, q)' <=> Matches(i, q)
  BY DEF Matches
<1>2. \A i : Key(i, q)' = Key(i, q)
  BY DEF Key
<1>3. Matching(q)' = Matching(q)
  BY <1>1 DEF Matching
<1>4. Sorted(w, q) => Sorted(w, q)'
  BY <1>2 DEF Sorted
<1>5. WasListing(w, q) => WasListing(w, q)'
  BY <1>3, <1>4, Zenon DEF WasListing
<1>6. AllMatch(w, q)' => AllMatch(w, q)
  BY <1>1 DEF AllMatch
<1>7. AgreesUpTo(g, w, q, o) => AgreesUpTo(g, w, q, o)'
  BY <1>2 DEF AgreesUpTo, Members
<1>. QED
  BY <1>5, <1>6, <1>7, Zenon DEF HasPages

\* Either page of a client.
LEMMA PageKeeps ==
  ASSUME RowsTyped, NEW q \in Query, NEW s \in Seq(Ids),
         NEW offset \in Nat, NEW since \in Int,
         NEW got \in Seq(Ids), NEW whole \in Seq(Ids), ~deleted' => since <= uc,
         Answered(s, q, offset, since, got, whole), UNCHANGED <<now, uc, bsos>>,
         ~deleted' /\ uc = since =>
             /\ HasPages(got, whole, q, offset)
             /\ AllMatch(whole, q) => AgreesUpTo(s, whole, q, Len(whole))
  PROVE  /\ PagerTyped' /\ PagesSoFar'
         /\ ~deleted' /\ uc = since /\ pager'.pc = "done" /\ AllMatch(whole, q)
            => AgreesUpTo(pager'.got, whole, q, Len(whole))
         /\ pager'.pc = "paging" => pager'.offset > offset
         /\ pager'.whole = whole /\ pager'.query = q
<1>1. /\ pager'.pc \in {"paging", "done"} /\ pager'.query = q /\ pager'.since = since
      /\ pager'.got \in Seq(Ids) /\ pager'.whole = whole /\ pager'.offset \in Int
      /\ pager' = [pc |-> pager'.pc, query |-> q, offset |-> pager'.offset,
                   since |-> since, got |-> pager'.got, whole |-> whole]
      /\ pager'.pc = "paging" => pager'.offset \in Nat /\ pager'.offset > offset
      /\ AgreesUpTo(s, whole, q, Len(whole)) /\ AgreesUpTo(got, whole, q, offset)
         => AgreesUpTo(pager'.got, whole, q,
                       IF pager'.pc = "done" THEN Len(whole) ELSE pager'.offset)
  BY PageGoesOn, Zenon
<1>2. PagerTyped'
  <2>. DEFINE c == pager'.pc
              o == pager'.offset
              g == pager'.got
  <2>2. /\ c \in {"idle", "paging", "done", "failed"} /\ o \in Int /\ g \in Seq(Ids)
        /\ pager' = [pc |-> c, query |-> q, offset |-> o, since |-> since, got |-> g,
                     whole |-> whole]
    BY <1>1, Zenon
  <2>. HIDE DEF c, o, g
  <2>3. pager' \in [pc : {"idle", "paging", "done", "failed"}, query : Query, offset : Int,
                    since : Int, got : Seq(Ids), whole : Seq(Ids)]
    BY <2>2
  <2>4. (Query)' = Query /\ (Ids)' = Ids
    OBVIOUS
  <2>. QED
    BY <2>3, <2>4, Zenon DEF PagerTyped
<1>3. ASSUME ~deleted', uc = since, AllMatch(whole, q)
      PROVE  AgreesUpTo(pager'.got, whole, q,
                        IF pager'.pc = "done" THEN Len(whole) ELSE pager'.offset)
  BY <1>1, <1>3, Zenon DEF HasPages
<1>4. PagesSoFar'
  <2>1. SUFFICES ASSUME pager'.pc = "paging", ~deleted', uc = since
                 PROVE  HasPages(pager'.got, whole, q, pager'.offset)
    <3>1. PICK g \in {pager'.got}, o \in {pager'.offset} : TRUE
      OBVIOUS
    <3>2. /\ uc' = uc /\ pager'.since = since /\ whole = pager'.whole /\ q = pager'.query
          /\ g = pager'.got /\ o = pager'.offset
      BY <1>1, <3>1
    <3>3. HasPages(g, whole, q, o) => HasPages(g, whole, q, o)'
      BY RowsStay
    <3>4. HasPages(g, whole, q, o)'
          => HasPages(pager.got, pager.whole, pager.query, pager.offset)'
      BY <3>2, Zenon
    <3>5. pager'.pc = "paging" /\ ~deleted' /\ uc = since => HasPages(g, whole, q, o)
      BY <2>1, <3>2, Zenon
    <3>6. pager'.pc = "paging" => pager'.offset \in Nat
      BY <1>1
    <3>. QED
      BY <3>2, <3>3, <3>4, <3>5, <3>6, Zenon DEF PagesSoFar
  <2>2. pager'.pc # "done" /\ WasListing(whole, q)
    BY <2>1, Zenon DEF HasPages
  <2>. QED
    BY <1>3, <2>1, <2>2, Zenon DEF HasPages
<1>5. ASSUME ~deleted', uc = since, pager'.pc = "done", AllMatch(whole, q)
      PROVE  AgreesUpTo(pager'.got, whole, q, Len(whole))
  BY <1>3, <1>5, Zenon
<1>. QED
  BY <1>1, <1>2, <1>4, <1>5, Zenon

\* What a step of the client answers.
PageStep ==
    pager' # pager =>
        /\ /\ pager'.pc = "done" /\ ~deleted' /\ AllMatch(pager'.whole, pager'.query)
           => IsUpToTies(pager'.got, pager'.whole, pager'.query)
        /\ pager.pc = "paging" /\ pager'.pc = "paging" => pager'.offset > pager.offset

\* A row whose key no other has is at its place.
LEMMA UpToTies ==
  ASSUME NEW g \in Seq(Ids), NEW w \in Seq(Ids), NEW q, AgreesUpTo(g, w, q, Len(w))
  PROVE  IsUpToTies(g, w, q)
<1>1. Len(w) \in Nat /\ DOMAIN w = 1..Len(w)
  BY LenProperties
<1>2. ASSUME NEW k \in DOMAIN w,
             \A l \in DOMAIN w : Key(w[l], q) = Key(w[k], q) => l = k
      PROVE  g[k] = w[k]
  <2>1. g[k] \in Members(w) /\ Key(g[k], q) = Key(w[k], q)
    BY <1>1 DEF AgreesUpTo
  <2>2. PICK l \in DOMAIN w : g[k] = w[l]
    BY <2>1 DEF Members
  <2>3. Key(w[l], q) = Key(w[k], q)
    BY <2>1, <2>2, Zenon
  <2>4. l = k
    BY <1>2, <2>3, Zenon
  <2>. QED
    BY <2>2, <2>4, Zenon
<1>3. \A k \in DOMAIN w : Key(g[k], q) = Key(w[k], q)
  BY <1>1 DEF AgreesUpTo
<1>4. Len(g) = Len(w)
  BY DEF AgreesUpTo
<1>. QED
  BY <1>2, <1>3, <1>4, Zenon DEF IsUpToTies

\* A page given, and what the client has of the listing when it is the last.
LEMMA LastPage ==
  ASSUME PagerTyped', NEW q, NEW w, pager'.whole = w, pager'.query = q,
         ~deleted' /\ pager'.pc = "done" /\ AllMatch(w, q)
         => AgreesUpTo(pager'.got, w, q, Len(w)),
         pager.pc = "paging" /\ pager'.pc = "paging" => pager'.offset > pager.offset
  PROVE  PageStep
<1>1. pager'.got \in Seq(Ids) /\ w \in Seq(Ids)
  <2>1. (Query)' = Query /\ (Ids)' = Ids
    OBVIOUS
  <2>. QED
    BY <2>1 DEF PagerTyped
<1>2. AgreesUpTo(pager'.got, w, q, Len(w)) => IsUpToTies(pager'.got, w, q)
  BY <1>1, UpToTies
<1>. QED
  BY <1>2, Zenon DEF PageStep

LEMMA FirstPageKeeps ==
  ASSUME ListInv, FirstPage
  PROVE  ListInv' /\ PageStep
<1>1. PICK q \in Queries : \E s \in Listings(q) : Answered(s, q, 0, uc, <<>>, s)
  BY Zenon DEF FirstPage
<1>2. PICK s \in Listings(q) : Answered(s, q, 0, uc, <<>>, s)
  BY <1>1
<1>3. pager.pc = "idle" /\ UNCHANGED <<now, uc, bsos>>
  BY DEF FirstPage
<1>4. q \in Query /\ RowsTyped /\ uc \in Int
  BY ListingAssumption, Zenon DEF ListInv, RowsTyped
<1>5. /\ s \in Seq(Ids) /\ Enumerates(s, Matching(q), Len(s))
      /\ Members(s) = Matching(q)
      /\ Sorted(s, q)
  BY <1>2, <1>4, ListingIsSorted
<1>6. WasListing(s, q)
  BY <1>5, Zenon DEF WasListing
<1>7. /\ <<>> \in Seq(Ids) /\ 0 \in Nat /\ uc <= uc
      /\ AgreesUpTo(<<>>, s, q, 0) /\ AgreesUpTo(s, s, q, Len(s))
  <2>1. Len(s) \in Nat /\ DOMAIN s = 1..Len(s)
    BY <1>5, LenProperties
  <2>2. Len(<<>>) = 0 /\ 1..0 = {} /\ <<>> \in Seq(Ids)
    BY EmptySeq
  <2>3. AgreesUpTo(<<>>, s, q, 0)
    BY <2>1, <2>2 DEF AgreesUpTo
  <2>4. AgreesUpTo(s, s, q, Len(s))
    BY <2>1 DEF AgreesUpTo, Members
  <2>. QED
    BY <1>4, <2>2, <2>3, <2>4
<1>8. HasPages(<<>>, s, q, 0)
  BY <1>6, <1>7, Zenon DEF HasPages
<1>9. /\ PagerTyped' /\ PagesSoFar'
      /\ ~deleted' /\ uc = uc /\ pager'.pc = "done" /\ AllMatch(s, q)
         => AgreesUpTo(pager'.got, s, q, Len(s))
      /\ pager'.whole = s /\ pager'.query = q
  BY <1>2, <1>3, <1>4, <1>5, <1>7, <1>8, PageKeeps
<1>10. RowsTyped'
  BY <1>3, <1>4 DEF RowsTyped
<1>11. PageStep
  BY <1>3, <1>9, LastPage
<1>. QED
  BY <1>9, <1>10, <1>11 DEF ListInv

LEMMA NextPageKeeps ==
  ASSUME ListInv, NextPage
  PROVE  ListInv' /\ PageStep
<1>1. pager.pc = "paging" /\ UNCHANGED <<now, uc, bsos, deleted>>
  BY DEF NextPage
<1>2. RowsTyped /\ RowsTyped' /\ PagerTyped /\ PagesSoFar /\ uc \in Int
  BY <1>1 DEF ListInv, RowsTyped
<1>. DEFINE q      == pager.query
            offset == pager.offset
            since  == pager.since
            got    == pager.got
            whole  == pager.whole
<1>3. /\ q \in Query /\ since \in Int /\ got \in Seq(Ids) /\ whole \in Seq(Ids)
      /\ offset \in Nat
      /\ ~deleted => since <= uc
      /\ ~deleted /\ uc = since => HasPages(got, whole, q, offset)
  <2>1. /\ q \in Query /\ since \in Int /\ got \in Seq(Ids)
        /\ whole \in Seq(Ids)
    BY <1>2 DEF PagerTyped
  <2>. QED
    BY <1>1, <1>2, <2>1, Zenon DEF PagesSoFar
<1>4. CASE uc > pager.since
  <2>1. pager' = [pager EXCEPT !.pc = "failed"]
    BY <1>4 DEF NextPage
  <2>2. PagerTyped' /\ pager'.pc = "failed"
    BY <1>2, <2>1 DEF PagerTyped
  <2>. QED
    BY <1>2, <2>2, Zenon DEF ListInv, PagesSoFar, PageStep
<1>5. CASE ~ (uc > pager.since)
  <2>1. PICK s \in Listings(q) : Answered(s, q, offset, since, got, whole)
    BY <1>5, Zenon DEF NextPage
  <2>2. ~deleted => uc = since
    BY <1>2, <1>3, <1>5
  <2>. HIDE DEF q, offset, since, got, whole
  <2>3. s \in Seq(Ids)
    BY <1>3, <2>1, ListingIsSorted
  <2>4. ASSUME ~deleted, AllMatch(whole, q)
        PROVE  AgreesUpTo(s, whole, q, Len(whole))
    <3>1. WasListing(whole, q)
      BY <1>3, <2>2, <2>4, Zenon DEF HasPages
    <3>. QED
      BY <1>2, <1>3, <2>1, <2>4, <3>1, OneListing
  <2>5. /\ ~deleted' => since <= uc
        /\ ~deleted' /\ uc = since =>
             /\ HasPages(got, whole, q, offset)
             /\ AllMatch(whole, q) => AgreesUpTo(s, whole, q, Len(whole))
    BY <1>1, <1>3, <2>4, Zenon
  <2>6. /\ PagerTyped' /\ PagesSoFar'
        /\ ~deleted' /\ uc = since /\ pager'.pc = "done" /\ AllMatch(whole, q)
           => AgreesUpTo(pager'.got, whole, q, Len(whole))
        /\ pager'.pc = "paging" => pager'.offset > offset
        /\ pager'.whole = whole /\ pager'.query = q
    BY <1>1, <1>2, <1>3, <2>1, <2>3, <2>5, PageKeeps
  <2>7. ~deleted' /\ pager'.pc = "done" /\ AllMatch(whole, q)
        => AgreesUpTo(pager'.got, whole, q, Len(whole))
    BY <1>1, <2>2, <2>6, Zenon
  <2>8. pager.pc = "paging" /\ pager'.pc = "paging" => pager'.offset > pager.offset
    BY <2>6 DEF offset
  <2>9. PageStep
    BY <2>6, <2>7, <2>8, LastPage
  <2>. QED
    BY <1>2, <2>6, <2>9 DEF ListInv
<1>. QED
  BY <1>4, <1>5

\* Time only takes rows of a listing away.
LEMMA TimeTakesAway ==
  ASSUME RowsTyped, now' \in {now, now + 1}, UNCHANGED <<uc, bsos>>,
         NEW w \in Seq(Ids), NEW q, NEW g, NEW o
  PROVE  /\ RowsTyped'
         /\ HasPages(g, w, q, o) => HasPages(g, w, q, o)'
<1>1. now \in Int /\ uc \in Int /\ now' \in Int /\ now' >= now
  BY DEF RowsTyped
<1>2. RowsTyped'
  BY <1>1 DEF RowsTyped
<1>3. ASSUME NEW i \in Ids, Matches(i, q)' PROVE Matches(i, q)
  <2>1. bsos[i].exp \in Int
    BY DEF RowsTyped
  <2>2. bsos[i].exp > now' => bsos[i].exp > now
    BY <1>1, <2>1
  <2>. QED
    BY <1>3, <2>2, Zenon DEF Matches
<1>4. \A i : Key(i, q)' = Key(i, q)
  BY DEF Key
<1>5. Matching(q)' \subseteq Matching(q)
  <2>1. (Ids)' = Ids
    OBVIOUS
  <2>. QED
    BY <1>3, <2>1, Zenon DEF Matching
<1>6. Sorted(w, q) => Sorted(w, q)'
  BY <1>4 DEF Sorted
<1>7. WasListing(w, q) => WasListing(w, q)'
  BY <1>5, <1>6, Zenon DEF WasListing
<1>8. AllMatch(w, q)' => AllMatch(w, q)
  <2>1. \A k \in DOMAIN w : w[k] \in Ids
    BY LenProperties, ElementOfSeq
  <2>. QED
    BY <1>3, <2>1, Zenon DEF AllMatch
<1>9. AgreesUpTo(g, w, q, o) => AgreesUpTo(g, w, q, o)'
  BY <1>4 DEF AgreesUpTo, Members
<1>. QED
  BY <1>2, <1>7, <1>8, <1>9, Zenon DEF HasPages

\* Others change the timestamp with the rows, or take it away with them.
LEMMA OthersKeep ==
  ASSUME ListInv,
         \/ Tick
         \/ DeleteCollection
         \/ UNCHANGED vars
         \/ \E i \in Ids : Put(i) \/ Delete(i)
  PROVE  ListInv' /\ PageStep
<1>1. pager' = pager
  BY DEF Tick, DeleteCollection, vars, Put, Delete
<1>2. PagerTyped' /\ PageStep
  BY <1>1 DEF ListInv, PagerTyped, PageStep
<1>3. RowsTyped /\ PagerTyped /\ PagesSoFar /\ now \in Int /\ uc \in Int
  BY DEF ListInv, RowsTyped
<1>4. ASSUME now' \in {now, now + 1}, UNCHANGED <<uc, bsos, deleted>> PROVE ListInv'
  <2>1. PICK w \in {pager.whole}, q \in {pager.query}, g \in {pager.got},
             o \in {pager.offset} : TRUE
    OBVIOUS
  <2>2. /\ w = pager.whole /\ q = pager.query /\ g = pager.got /\ o = pager.offset
        /\ w = pager'.whole /\ q = pager'.query /\ g = pager'.got /\ o = pager'.offset
    BY <1>1, <2>1
  <2>3. w \in Seq(Ids)
    BY <1>3, <2>2 DEF PagerTyped
  <2>4. RowsTyped' /\ (HasPages(g, w, q, o) => HasPages(g, w, q, o)')
    BY <1>3, <1>4, <2>3, TimeTakesAway
  <2>5. HasPages(g, w, q, o)'
        => HasPages(pager.got, pager.whole, pager.query, pager.offset)'
    BY <2>2, Zenon DEF HasPages, WasListing, AllMatch, AgreesUpTo, Members, Matching, Sorted
  <2>6. HasPages(pager.got, pager.whole, pager.query, pager.offset) => HasPages(g, w, q, o)
    BY <2>2, Zenon
  <2>7. PagesSoFar'
    BY <1>1, <1>3, <1>4, <2>4, <2>5, <2>6, Zenon DEF PagesSoFar
  <2>. QED
    BY <1>2, <2>4, <2>7 DEF ListInv
<1>5. ASSUME uc' \in Int, uc' > uc, RowsTyped', deleted' = deleted PROVE ListInv'
  <2>1. pager.pc = "paging" /\ ~deleted => pager.since \in Int /\ pager.since <= uc
    BY <1>3, Zenon DEF PagesSoFar, PagerTyped
  <2>2. pager.pc = "paging" => pager.offset \in Nat
    BY <1>3, Zenon DEF PagesSoFar
  <2>3. pager.pc = "paging" /\ ~deleted => pager.since <= uc' /\ pager.since # uc'
    BY <1>3, <1>5, <2>1
  <2>4. PagesSoFar'
    BY <1>1, <1>5, <2>2, <2>3, Zenon DEF PagesSoFar
  <2>. QED
    BY <1>2, <1>5, <2>4 DEF ListInv
<1>6. ASSUME NEW i \in Ids, Put(i) \/ Delete(i) PROVE ListInv'
  <2>1. uc' = now /\ now > uc /\ now' = now /\ deleted' = deleted
    BY <1>6 DEF Put, Delete
  <2>2. PICK row \in [mod : Int, idx : Int, exp : Int] : bsos' = [bsos EXCEPT ![i] = row]
    <3>1. CASE Put(i)
      <4>1. PICK idx \in SortIndexes, ttl \in Ttls :
                bsos' = [bsos EXCEPT ![i] = [mod |-> now, idx |-> idx, exp |-> now + ttl]]
        BY <3>1 DEF Put
      <4>2. idx \in Int /\ ttl \in Int
        BY ListingAssumption
      <4>3. [mod |-> now, idx |-> idx, exp |-> now + ttl] \in [mod : Int, idx : Int, exp : Int]
        BY <1>3, <4>2
      <4>. QED
        BY <4>1, <4>3, Zenon
    <3>2. CASE Delete(i)
      <4>1. bsos' = [bsos EXCEPT ![i] = NoRow]
        BY <3>2 DEF Delete
      <4>2. NoRow \in [mod : Int, idx : Int, exp : Int]
        BY DEF NoRow
      <4>. QED
        BY <4>1, <4>2, Zenon
    <3>. QED
      BY <1>6, <3>1, <3>2
  <2>3. RowsTyped'
    BY <1>3, <2>1, <2>2 DEF RowsTyped
  <2>. QED
    BY <1>3, <1>5, <2>1, <2>3
<1>7. ASSUME DeleteCollection PROVE ListInv'
  <2>1. now' = now /\ uc' = 0 /\ bsos' = [i \in Ids |-> NoRow] /\ deleted'
    BY <1>7 DEF DeleteCollection, Absent
  <2>2. NoRow \in [mod : Int, idx : Int, exp : Int]
    BY DEF NoRow
  <2>3. RowsTyped'
    BY <1>3, <2>1, <2>2 DEF RowsTyped
  <2>4. pager.pc = "paging" => pager.offset \in Nat
    BY <1>3, Zenon DEF PagesSoFar
  <2>5. PagesSoFar'
    BY <1>1, <2>1, <2>4, Zenon DEF PagesSoFar
  <2>. QED
    BY <1>2, <2>3, <2>5 DEF ListInv
<1>8. ListInv'
  BY <1>4, <1>6, <1>7 DEF Tick, vars
<1>. QED
  BY <1>2, <1>8

LEMMA ListStep ==
  ASSUME ListInv, [Next]_vars
  PROVE  ListInv' /\ PageStep
  BY FirstPageKeeps, NextPageKeeps, OthersKeep DEF Next

LEMMA ListInit ==
  ASSUME Init
  PROVE  ListInv
<1>1. RowsTyped
  <2>1. now = 3 /\ uc = 2
    BY DEF Init
  <2>2. bsos \in [Ids -> {NoRow} \cup [mod : {1, 2}, idx : SortIndexes,
                                                exp : {t + 3 : t \in Ttls}]]
    BY DEF Init
  <2>3. {NoRow} \cup [mod : {1, 2}, idx : SortIndexes, exp : {t + 3 : t \in Ttls}]
        \subseteq [mod : Int, idx : Int, exp : Int]
    <3>0. SortIndexes \subseteq Nat /\ Ttls \subseteq Nat
      BY ListingAssumption, Zenon
    <3>1. SortIndexes \subseteq Int /\ {t + 3 : t \in Ttls} \subseteq Int
      <4>1. \A t \in Ttls : t + 3 \in Int
        BY <3>0
      <4>. QED
        BY <3>0, <4>1
    <3>2. NoRow \in [mod : Int, idx : Int, exp : Int]
      BY DEF NoRow
    <3>3. ASSUME NEW row \in [mod : {1, 2}, idx : SortIndexes, exp : {t + 3 : t \in Ttls}]
          PROVE  row \in [mod : Int, idx : Int, exp : Int]
      <4>. DEFINE exps == {t + 3 : t \in Ttls}
      <4>1. exps \subseteq Int
        BY <3>1
      <4>. HIDE DEF exps
      <4>2. row \in [mod : {1, 2}, idx : SortIndexes, exp : exps]
        BY DEF exps
      <4>3. PICK m \in {1, 2}, x \in SortIndexes, e \in exps :
                row = [mod |-> m, idx |-> x, exp |-> e]
        BY <4>2
      <4>4. m \in Int /\ x \in Int /\ e \in Int
        BY <3>1, <4>1
      <4>. QED
        BY <4>3, <4>4
    <3>. QED
      BY <3>2, <3>3, Zenon
  <2>. QED
    BY <2>1, <2>2, <2>3 DEF RowsTyped
<1>2. pager = NewPager
  BY DEF Init
<1>3. PagerTyped /\ pager.pc = "idle"
  <2>. DEFINE q0 == [newer |-> None, older |-> None, ids |-> {}, sort |-> "none",
                     limit |-> None, full |-> FALSE]
  <2>1. q0 \in Query
    <3>1. None \in None..MaxTime /\ {} \in SUBSET Ids /\ FALSE \in BOOLEAN
      BY ListingAssumption DEF None
    <3>. QED
      BY <3>1 DEF Query, Sortings
  <2>2. <<>> \in Seq(Ids) /\ None \in Int
    BY EmptySeq DEF None
  <2>3. pager = [pc |-> "idle", offset |-> 0, since |-> None, got |-> <<>>,
                 whole |-> <<>>, query |-> q0]
    BY <1>2, Zenon DEF NewPager
  <2>. HIDE DEF q0
  <2>. QED
    BY <2>1, <2>2, <2>3 DEF PagerTyped
<1>. QED
  BY <1>1, <1>3 DEF ListInv, PagesSoFar

\* Each offset a client is given is greater than the one it sent, whatever others
\* write and however the database breaks ties (encode_next_offset, get_bsos,
\* get_bso_ids).
THEOREM OffsetsLeadOn == Spec => OffsetsAdvance
<1>1. ListInv /\ [Next]_vars
      => [pager.pc = "paging" /\ pager'.pc = "paging" => pager'.offset > pager.offset]_<<pager>>
  BY ListStep, Zenon DEF PageStep
<1>. QED
  BY <1>1, ListInit, ListStep, PTL DEF Spec, OffsetsAdvance

\* The pages a client got, until one gave no offset, are the listing as it was when
\* it started, but for the order of rows that compare equal, unless rows of it expired
\* or the collection was deleted meanwhile (get_bsos, get_bso_ids).
THEOREM PagesMakeTheListing == Spec => PagesAreTheListing
<1>1. ListInv /\ [Next]_vars
      => [/\ pager'.pc = "done" /\ ~deleted'
          /\ \A k \in DOMAIN pager'.whole : Matches(pager'.whole[k], pager'.query)
          => IsUpToTies(pager'.got, pager'.whole, pager'.query)]_<<pager>>
  BY ListStep, Zenon DEF PageStep, AllMatch
<1>. QED
  BY <1>1, ListInit, ListStep, PTL DEF Spec, PagesAreTheListing
=============================================================================
