------------------------------ MODULE MCListing ------------------------------
(***************************************************************************)
(* Values of Listing's constants for TLC.                                  *)
(***************************************************************************)
EXTENDS Listing

TwoIndexes    == {0, 1}
ShortAndLong  == {1, 100}

\* Every order, limit and kind of answer without a filter, and the filters,
\* alone and together, a row at a time.
AnyOrder == [newer : {None}, older : {None}, ids : {{}}, sort : Sortings,
             limit : {None, 1, 2}, full : BOOLEAN]
Filtered == [newer : {None, 1}, older : {None, 2}, ids : {{}, {1, 3}},
             sort : {"newest"}, limit : {1}, full : BOOLEAN]
AllQueries == AnyOrder \cup Filtered

\* Nothing is said of what others do once the client has ended.
UntilItEnds == pager.pc \in {"idle", "paging"}
=============================================================================
