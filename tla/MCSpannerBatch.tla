--------------------------- MODULE MCSpannerBatch ---------------------------
(***************************************************************************)
(* Values of SpannerBatch's constants for TLC.                             *)
(***************************************************************************)
EXTENDS SpannerBatch, TLC

CONSTANTS p1, p2, c1, i1, b1, b2, tombstone

TwoClients    == {p1, p2}
OneCollection == {c1}
OneId         == {i1}
TwoBatches    == {b1, b2}

PostAndDelete == {"post", "delete"}

EmptyAndOther == {0, 1}

\* A payload; a ttl alone.
ContentOrTtl == {[val |-> 1, ttl |-> NotSet], [val |-> NotSet, ttl |-> 1]}

\* X-If-Unmodified-Since, refused after a write at time 2.
SinceOne == {1}

Symmetric == Permutations(TwoClients) \cup Permutations(TwoBatches)
=============================================================================
