--------------------------- MODULE MCSyncTimestamp ---------------------------
(***************************************************************************)
(* Values of SyncTimestamp's constants for TLC.                            *)
(***************************************************************************)
EXTENDS SyncTimestamp

At(era, offs) == [era : {era}, off : offs, hund : 0..99]

\* From November 2004, where the float of the seconds has room for the product,
\* to the last second before 2^31, in January 2038.
Until2038 == At(30, {25769804, 518258176, 600000001, 1073741823})
June2020 == [era |-> 30, off |-> 518258176, hund |-> 99]
=============================================================================
