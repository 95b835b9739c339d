---------------------------- MODULE MCMysqlBatch ----------------------------
(***************************************************************************)
(* Values of MysqlBatch's constants for TLC.                               *)
(***************************************************************************)
EXTENDS MysqlBatch, TLC

CONSTANTS p1, p2, c1, i1, tombstone

TwoClients    == {p1, p2}
OneCollection == {c1}
OneId         == {i1}
OneOrTwo      == {0, 1, 2}

TwoContents == {[val |-> 1, ttl |-> NotSet], [val |-> 2, ttl |-> NotSet]}

\* What follows a lost transaction is explored until its request has ended.
UntilItEnds ==
    torn = {} \/ \E p \in Clients :
                    req[p].pc \in {"restamp", "reget", "alone", "stamp", "drop"}

Symmetric == Permutations(TwoClients)
=============================================================================
