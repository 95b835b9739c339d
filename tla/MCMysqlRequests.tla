--------------------------- MODULE MCMysqlRequests ---------------------------
(***************************************************************************)
(* Values of MysqlRequests' constants for TLC.                             *)
(***************************************************************************)
EXTENDS MysqlRequests, TLC

CONSTANTS p1, p2, c1, i1, i2, tombstone

TwoClients     == {p1, p2}
OneCollection  == {c1}
TwoIds         == {i1, i2}

EmptyAndOther == {0, 1}

\* A payload that stays, a short life alone.
Contents == {[val |-> 1, ttl |-> NotSet], [val |-> NotSet, ttl |-> 1]}

NoneOrOne == {NotSet, 1}

\* What follows a lost transaction is explored until its request has ended.
UntilItEnds ==
    torn = {} \/ \E p \in Clients : req[p].pc \in {"alone", "stamp"}

Symmetric == Permutations(TwoClients) \cup Permutations(TwoIds)
=============================================================================
