------------------------------- MODULE Uploads -------------------------------
(***************************************************************************)
(* What the server takes of a client's POSTs: the extraction of their      *)
(* bodies, headers and batch parameters with the limits of the server, and *)
(* a client that uploads its records in POSTs and PUTs and sends those     *)
(* again that it is told to retry.                                         *)
(*                                                                         *)
(* What the database does with the BSOs extracted is in SpannerBatch and   *)
(* MysqlBatch; here it stores them.                                        *)
(***************************************************************************)
EXTENDS Integers, FiniteSets, SequencesExt

CONSTANTS
    Records,   \* the records clients have
    MaxUpload, \* how many of them
    MaxRecordPayload, MaxPostBytes, MaxPostRecords, MaxTotalBytes, MaxTotalRecords

\* What a record can be: "invalid" does not deserialize or validate, "knownbad"
\* is what a crypto collection refuses.
AllKinds == {"good", "invalid", "knownbad", "notobject", "noid"}

Record == [id : Nat, kind : AllKinds, size : Nat]

ASSUME UploadsAssumption ==
    /\ Records \subseteq Record /\ MaxUpload \in Nat
    /\ MaxPostRecords \in Nat \ {0} /\ MaxTotalRecords \in Nat
    /\ {MaxRecordPayload, MaxPostBytes, MaxTotalBytes} \subseteq Nat

VARIABLES
    client, \* whether it sends the X-Weave-* size headers, uploads in a batch, and
            \* gives any other parameters too
    upload, \* the client's records, all there are
    queue,  \* those it still has to send
    open,   \* whether it has an open batch
    batch,  \* the records in that batch
    stored, \* the records in the collection
    answer, \* the last answer: the verb and the body it is to, its status, the
            \* records that succeeded and the reason for each that failed
    pc      \* "uploading", "refused" or "done"

vars == <<client, upload, queue, open, batch, stored, answer, pc>>

Client == {c \in [announces : BOOLEAN, inBatch : BOOLEAN, careless : BOOLEAN] :
              c.careless => c.inBatch}

\* Of the records of a set, and of those at some places of a sequence.
BytesOf(records) == SumFunctionOnSet([r \in Records |-> r.size], records)
BytesAt(places, s) == SumFunctionOnSet([i \in DOMAIN s |-> s[i].size], places)

-----------------------------------------------------------------------------
(* The body of a POST.                                                     *)

\* BatchBsoBody.from_raw_bso succeeds.
FromRawBso(r) == r.kind \in {"good", "knownbad"}

\* The body is refused as a whole.
Malformed(body) ==
    \/ \E i \in DOMAIN body : body[i].kind \in {"notobject", "noid"}
    \/ \E i, j \in DOMAIN body : i # j /\ body[i].id = body[j].id

\* Mutant of Fits: a record of exactly the limit does not fit.
FitsBelow(body, i) ==
    /\ body[i].size < MaxRecordPayload
    /\ BytesAt({j \in 1..i : FromRawBso(body[j])}, body) < MaxPostBytes

\* The sizes of all records up to this one count, of those refused as well.
Fits(body, i) ==
    /\ body[i].size <= MaxRecordPayload
    /\ BytesAt({j \in 1..i : FromRawBso(body[j])}, body) <= MaxPostBytes

\* BsoBodies: the places of the valid records, and the reasons of the others.
BsoBodies(body) ==
    LET valid == {i \in DOMAIN body : FromRawBso(body[i]) /\ Fits(body, i)} IN
    [valid   |-> valid,
     invalid |-> [i \in DOMAIN body \ valid |->
                     IF FromRawBso(body[i]) THEN "retry bytes" ELSE "invalid bso"]]

First(k, places) == {i \in places : Cardinality({j \in places : j <= i}) <= k}

\* What is not kept of the valid BSOs joins the others.
KeepOnly(kept, bsos) ==
    [valid   |-> kept,
     invalid |-> [i \in (bsos.valid \ kept) \cup DOMAIN bsos.invalid |->
                     IF i \in bsos.valid THEN "retry bso" ELSE bsos.invalid[i]]]

\* Mutant of Trimmed: the excess is dropped.
TrimmedAway(bsos) == [bsos EXCEPT !.valid = First(MaxPostRecords, @)]

\* Mutant of Trimmed: the excess is counted from one.
TrimmedLess(bsos) == KeepOnly(First(MaxPostRecords + 1, bsos.valid), bsos)

\* CollectionPostRequest moves what is over MaxPostRecords, from the end.
Trimmed(bsos) == KeepOnly(First(MaxPostRecords, bsos.valid), bsos)

\* The records an answer names, and its reason for each of the others.
Named(body, places) == {body[i] : i \in places}
Reasons(body, invalid) ==
    [r \in Named(body, DOMAIN invalid) |->
        invalid[CHOOSE i \in DOMAIN invalid : body[i] = r]]

\* Some record has the collection refuse the request.
KnownBad(body) == \E i \in BsoBodies(body).valid : body[i].kind = "knownbad"

\* Mutant of WithinHeaders: only the headers of this POST are compared.
WithinPostHeaders(body, before) ==
    client.announces =>
        Len(body) <= MaxPostRecords /\ BytesAt(DOMAIN body, body) <= MaxPostBytes

\* BatchRequestOpt: X-Weave-Records, -Bytes, -Total-Records and -Total-Bytes, the
\* totals of what is in the batch before and all that is left to send.
WithinHeaders(body, before) ==
    client.announces =>
        /\ Len(body) <= MaxPostRecords
        /\ BytesAt(DOMAIN body, body) <= MaxPostBytes
        /\ Cardinality(before) + Len(queue) <= MaxTotalRecords
        /\ BytesOf(before) + BytesAt(DOMAIN queue, queue) <= MaxTotalBytes

\* Mutant of PutRefused: the payload is not looked at.
PutRefusedUnread(r) == ~FromRawBso(r) \/ r.size > MaxRecordPayload

\* BsoBody and BsoPutRequest: the body of a PUT.
PutRefused(r) == r.kind # "good" \/ r.size > MaxRecordPayload

\* The content type, "other" for one that is not accepted, and BatchParams.
Params == [ctype : {"accepted", "other"}, batch : {"absent", "new", "open", "unknown"},
           commit : {"absent", "true", "other"}]

\* BatchRequestOpt: a commit needs a batch and is "true", and the id is a batch's.
ParamsRefused(p) ==
    \/ p.batch = "absent" /\ p.commit # "absent"
    \/ p.commit = "other"
    \/ p.batch = "unknown"
    \/ p.batch = "open" /\ ~open

\* CollectionPostRequest.
Refused(body, before, p) ==
    \/ p.ctype = "other" \/ Malformed(body)
    \/ KnownBad(body) \/ ~WithinHeaders(body, before) \/ ParamsRefused(p)

\* What the client gives with a POST of its first k records.
ParamsOf(k) ==
    IF client.careless THEN Params
    ELSE IF ~client.inBatch THEN {[ctype |-> "accepted", batch |-> "absent", commit |-> "absent"]}
    ELSE {[ctype |-> "accepted",
           batch  |-> IF open THEN "open" ELSE "new",
           commit |-> IF k = Len(queue) THEN "true" ELSE "absent"]}

-----------------------------------------------------------------------------
Retry(failed) == {r \in DOMAIN failed : failed[r] \in {"retry bytes", "retry bso"}}

\* Status 400, or 415 for the content type.
Refuse(verb, body) ==
    /\ answer' = [verb |-> verb, status |-> 400, body |-> body, success |-> {}, failed |-> <<>>]
    /\ pc' = "refused"
    /\ UNCHANGED <<client, upload, queue, open, batch, stored>>

\* The client has the rest still to send, and what it is to retry, in any order.
Answered(verb, status, body, ok, failed, rest) ==
    /\ answer' = [verb |-> verb, status |-> status, body |-> body, success |-> ok,
                  failed |-> failed]
    /\ \E left \in SetToSeqs(Retry(failed)) : queue' = rest \o left
    /\ pc' = IF queue' = <<>> THEN "done" ELSE "uploading"
    /\ UNCHANGED <<client, upload>>

\* post_collection and post_collection_batch, of the first k records.
Post(k, p) ==
    LET body   == SubSeq(queue, 1, k)
        rest   == SubSeq(queue, k + 1, Len(queue))
        bsos   == Trimmed(BsoBodies(body))
        ok     == Named(body, bsos.valid)
        failed == Reasons(body, bsos.invalid)
        before == IF p.batch = "open" THEN batch ELSE {}
    IN
    /\ pc = "uploading" /\ k <= Len(queue)
    /\ \/ /\ Refused(body, before, p)
          /\ Refuse("post", ToSet(body))
       \/ /\ ~Refused(body, before, p)
          /\ \/ /\ p.batch = "absent"
                /\ stored' = stored \cup ok
                /\ UNCHANGED <<open, batch>>
                /\ Answered("post", 200, ToSet(body), ok, failed, rest)
             \/ /\ p.batch # "absent" /\ p.commit = "absent"
                /\ open' = TRUE /\ batch' = before \cup ok
                /\ UNCHANGED stored
                /\ Answered("post", 202, ToSet(body), ok, failed, rest)
             \/ /\ p.batch # "absent" /\ p.commit = "true"
                /\ open' = FALSE /\ batch' = {} /\ stored' = stored \cup before \cup ok
                /\ Answered("post", 200, ToSet(body), ok, failed, rest)

\* put_bso, of the first record in the queue.
Put ==
    LET r == Head(queue) IN
    /\ pc = "uploading" /\ queue # <<>> /\ ~open
    /\ r.kind \notin {"notobject", "noid"}
    /\ \/ PutRefused(r) /\ Refuse("put", {r})
       \/ /\ ~PutRefused(r)
          /\ stored' = stored \cup {r}
          /\ UNCHANGED <<open, batch>>
          /\ Answered("put", 200, {r}, {r}, <<>>, Tail(queue))

NoAnswer == [verb |-> "none", status |-> 0, body |-> {}, success |-> {}, failed |-> <<>>]

Init ==
    /\ client \in Client
    /\ upload \in UNION {[1..n -> Records] : n \in 1..MaxUpload}
    /\ queue = upload
    /\ open = FALSE /\ batch = {} /\ stored = {}
    /\ answer = NoAnswer /\ pc = "uploading"

Next == Put \/ \E k \in 1..MaxUpload : \E p \in ParamsOf(k) : Post(k, p)

\* A client that is not done goes on.
Spec == Init /\ [][Next]_vars /\ WF_vars(Next)

-----------------------------------------------------------------------------
(* Type invariant; only records without a fault are written (BsoBodies,      *)
(* BsoBody, and the crypto collection's check of both).                      *)
TypeOK ==
    /\ client \in Client
    /\ upload \in Seq(Records) /\ queue \in Seq(Records)
    /\ batch \cup stored \subseteq {r \in Records : r.kind = "good"}
    /\ batch # {} => open
    /\ answer.status \in {0, 200, 202, 400}
    /\ answer.success \subseteq answer.body /\ DOMAIN answer.failed \subseteq answer.body
    /\ pc \in {"uploading", "refused", "done"}

(* A client can tell from an answer what became of every record it sent:     *)
(* each is among the successes or the failures, and never both (BsoBodies,   *)
(* CollectionPostRequest).                                                   *)
EveryRecordIsAnswered ==
    answer.status \in {200, 202} =>
        /\ answer.success \cup DOMAIN answer.failed = answer.body
        /\ answer.success \cap DOMAIN answer.failed = {}

(* What one POST writes keeps the limits of a request, whatever its headers  *)
(* say (ServerLimits).                                                       *)
PostsKeepTheirLimits ==
    answer.verb = "post" =>
    /\ Cardinality(answer.success) <= MaxPostRecords
    /\ BytesOf(answer.success) <= MaxPostBytes
    /\ \A r \in answer.success : r.size <= MaxRecordPayload

(* What a POST has written of an upload, the batch it appends to or the      *)
(* records it stores at a commit, also of a batch it creates itself, keeps   *)
(* the limits of a batch upload, for a client that announces its totals,     *)
(* also one that uses the parameters in any order (ServerLimits: "Maximum    *)
(* BSO count across a batch upload", "Maximum combined size of BSO payloads  *)
(* across a batch upload").                                                  *)
BatchesKeepTheirLimits ==
    [][LET whole == IF stored' = stored THEN batch' ELSE stored' \ stored IN
       client.announces /\ answer'.verb = "post"
       => Cardinality(whole) <= MaxTotalRecords /\ BytesOf(whole) <= MaxTotalBytes
      ]_<<open, batch, stored>>

\* Every record is one the server takes.
Acceptable ==
    /\ \A i \in DOMAIN upload : /\ upload[i].kind = "good"
                                /\ upload[i].size <= MaxRecordPayload
                                /\ upload[i].size <= MaxPostBytes
    /\ \A i, j \in DOMAIN upload : i # j => upload[i].id # upload[j].id

(* A client that sends again what it is told to retry gets all its records   *)
(* stored: what is over a limit of one POST fits a later one (BsoBodies,     *)
(* CollectionPostRequest).  It sends no headers, which are compared with     *)
(* limits before anything is moved to a later POST, and the parameters of    *)
(* one batch.                                                                *)
RetriesSucceed ==
    Acceptable /\ ~client.announces /\ ~client.careless
    ~> (pc = "done" /\ stored = ToSet(upload))
=============================================================================
