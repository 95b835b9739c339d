------------------------- MODULE MCSpannerRequests -------------------------
(* Values for the constants of SpannerRequests, shared by its runs. *)
EXTENDS SpannerRequests, TLC

CONSTANTS p1, p2, c1, c2, i1, tombstone

TwoClients     == {p1, p2}
OneCollection  == {c1}
TwoCollections == {c1, c2}
OneId  == {i1}

EmptyAndOther == {0, 1}

PayloadOnly == {[val |-> 1, ttl |-> NotSet]}
\* A payload that expires, a ttl alone.
ExpiringOrTtl == {[val |-> 1, ttl |-> 0], [val |-> NotSet, ttl |-> 1]}
\* A payload that expires, nothing.
ExpiringOrNothing == {[val |-> 1, ttl |-> 0], [val |-> NotSet, ttl |-> NotSet]}

\* The requests of a collection's clients; with one id post_bsos is put_bso.
OfACollection == (WriteKinds \ {"post_bsos"}) \cup {"get_collection"}
Deleters == {"put_bso", "delete_collection"}

NoHeader   == {"none"}
Unmodified == {"none", "if_unmodified_since"}

Symmetric == Permutations(TwoClients)
=============================================================================
