------------------------------ MODULE MCUploads ------------------------------
(***************************************************************************)
(* Values of Uploads' constants for TLC: records of every size about the   *)
(* limits, and each fault alone or with a size that is refused.            *)
(***************************************************************************)
EXTENDS Uploads

UploadRecords ==
    [id : {1, 2, 3}, kind : {"good"}, size : {1, 2, 3}]
    \cup [id : {1}, kind : AllKinds, size : {1}]
    \cup {[id |-> 1, kind |-> "knownbad", size |-> 3]}
=============================================================================
