------------------------------ MODULE PurgeTtl -------------------------------
(***************************************************************************)
(* The job that deletes expired rows: first of batches, then of bsos, in   *)
(* chunks of their own transactions or with one partitioned statement,     *)
(* again after an error, and from the start when it is run again.          *)
(*                                                                         *)
(* Requests write and delete rows meanwhile; what a deletion means to them *)
(* is in SpannerRequests and SpannerBatch, which let any expired row go at *)
(* any time.  Errors of Spanner and writes are bounded.                    *)
(***************************************************************************)
EXTENDS Integers, FiniteSets, FiniteSetsExt

CONSTANTS
    Rows,        \* the rows a table may have
    Ttl,         \* how long a row that is written lives
    ChunkSize,   \* PURGE_TTL_CHUNK_SIZE
    MaxToDelete, \* PURGE_TTL_MAX_TO_DELETE
    Retries,     \* PURGE_TTL_RETRY_COUNT
    MaxTime,     \* bound on the clock
    MaxErrors,   \* bound on errors of Spanner and crashes
    MaxWrites    \* bound on requests

Tables == {"batches", "bsos"}
Absent == 0

ASSUME PurgeTtlAssumption ==
    /\ IsFiniteSet(Rows)
    /\ {ChunkSize, MaxToDelete, Retries, MaxTime, Ttl} \subseteq Nat \ {0}
    /\ {MaxErrors, MaxWrites} \subseteq Nat

VARIABLES
    now,    \* CURRENT_TIMESTAMP()
    expiry, \* of each row of each table, Absent if there is none
    job,    \* the purge: where it is, PURGE_TTL_INCREMENTAL of this run, its table,
            \* how often it failed in it, the rows it deleted in this call, the rows
            \* it is to delete, whether Spanner aborted the transaction that read them
    errors, writes \* counted up to their bounds

vars == <<now, expiry, job, errors, writes>>

Expired(t) == {r \in Rows : expiry[t][r] # Absent /\ expiry[t][r] < now}

Idle == [pc |-> "idle", incremental |-> TRUE, table |-> "batches", attempt |-> 0, total |-> 0, read |-> {},
         aborted |-> FALSE]

\* The state of a job that begins a table's next attempt.
Attempt(inc, t, i) ==
    [Idle EXCEPT !.pc = "select", !.incremental = inc, !.table = t, !.attempt = i]

Smaller(a, b) == IF a < b THEN a ELSE b

-----------------------------------------------------------------------------
(* The job.                                                                *)

\* main, run by its schedule, with one setting or the other.
Start ==
    /\ job.pc \in {"idle", "failed"}
    /\ \E inc \in BOOLEAN : job' = Attempt(inc, "batches", 0)
    /\ UNCHANGED <<now, expiry, errors, writes>>

Done == IF job.table = "batches" THEN Attempt(job.incremental, "bsos", 0) ELSE Idle

\* Mutant of Enough: the last chunk is taken for the end.
EnoughShort(rows) == Cardinality(rows) < ChunkSize \/ job.total >= MaxToDelete

\* Mutant of Enough: the rows deleted so far are not looked at.
EnoughEver(rows) == rows = {}

Enough(rows) == rows = {} \/ job.total >= MaxToDelete

\* The SELECT of delete_incremental: any chunk of the expired rows.
Select ==
    /\ job.incremental /\ job.pc = "select"
    /\ \E rows \in kSubset(Smaller(ChunkSize, Cardinality(Expired(job.table))), Expired(job.table)) :
          job' = IF Enough(rows) THEN Done
                 ELSE [job EXCEPT !.pc = "delete", !.read = rows]
    /\ UNCHANGED <<now, expiry, errors, writes>>

\* Mutant of DeleteChunk: it deletes what it once read.
DeleteChunkUnchecked ==
    /\ job.incremental /\ job.pc = "delete"
    /\ expiry' = [expiry EXCEPT ![job.table] =
                     [r \in Rows |-> IF r \in job.read THEN Absent ELSE @[r]]]
    /\ job' = [job EXCEPT !.pc = "select", !.total = @ + Cardinality(job.read), !.read = {}]
    /\ UNCHANGED <<now, errors, writes>>

\* Its DELETE and commit, of the rows its own transaction has read.
DeleteChunk ==
    /\ job.incremental /\ job.pc = "delete" /\ ~job.aborted
    /\ expiry' = [expiry EXCEPT ![job.table] =
                     [r \in Rows |-> IF r \in job.read THEN Absent ELSE @[r]]]
    /\ job' = [job EXCEPT !.pc = "select", !.total = @ + Cardinality(job.read), !.read = {}]
    /\ UNCHANGED <<now, errors, writes>>

\* delete_all begins: its statement is to delete what has expired by now.
BeginAll ==
    /\ ~job.incremental /\ job.pc = "select"
    /\ job' = [job EXCEPT !.pc = "delete", !.read = Expired(job.table)]
    /\ UNCHANGED <<now, expiry, errors, writes>>

\* Mutant of DeleteSome: the condition includes this moment.
DeleteSomeTooSoon ==
    /\ ~job.incremental /\ job.pc = "delete"
    /\ \E r \in Rows :
          /\ expiry[job.table][r] \in 1..now
          /\ expiry' = [expiry EXCEPT ![job.table][r] = Absent]
    /\ UNCHANGED <<now, job, errors, writes>>

\* Its partitions, here of one row, in any order and each when it comes to it.
DeleteSome ==
    /\ ~job.incremental /\ job.pc = "delete"
    /\ \E r \in Expired(job.table) : expiry' = [expiry EXCEPT ![job.table][r] = Absent]
    /\ UNCHANGED <<now, job, errors, writes>>

\* Mutant of DeletedAll: the call returns before its partitions are done.
DeletedAllEarly ==
    /\ ~job.incremental /\ job.pc = "delete"
    /\ job' = Done
    /\ UNCHANGED <<now, expiry, errors, writes>>

DeletedAll ==
    /\ ~job.incremental /\ job.pc = "delete" /\ job.read \cap Expired(job.table) = {}
    /\ job' = Done
    /\ UNCHANGED <<now, expiry, errors, writes>>

\* An attempt that fails; batches gives up at once unless Spanner aborted.
Failed(retryable) ==
    job' = IF job.attempt + 1 < Retries /\ (retryable \/ job.table = "bsos")
           THEN Attempt(job.incremental, job.table, job.attempt + 1)
           ELSE [Idle EXCEPT !.pc = "failed"]

\* Spanner aborted the transaction for a request's write.
Aborted ==
    /\ job.incremental /\ job.pc = "delete" /\ job.aborted
    /\ Failed(TRUE)
    /\ UNCHANGED <<now, expiry, errors, writes>>

\* A call of Spanner fails with ABORTED or another status.
Error ==
    /\ job.pc \in {"select", "delete"} /\ errors < MaxErrors
    /\ errors' = errors + 1
    /\ \E retryable \in BOOLEAN : Failed(retryable)
    /\ UNCHANGED <<now, expiry, writes>>

Crash ==
    /\ job.pc \in {"select", "delete"} /\ errors < MaxErrors
    /\ errors' = errors + 1
    /\ job' = [Idle EXCEPT !.pc = "failed"]
    /\ UNCHANGED <<now, expiry, writes>>

Job == Start \/ Select \/ DeleteChunk \/ BeginAll \/ DeleteSome \/ DeletedAll \/ Aborted

-----------------------------------------------------------------------------
(* Requests.                                                               *)

\* A request writes a row or deletes it; Spanner has it or the transaction that
\* read the row abort.
Request(t, r) ==
    /\ writes < MaxWrites
    /\ writes' = writes + 1
    /\ \E e \in {now + Ttl, Absent} : expiry' = [expiry EXCEPT ![t][r] = e]
    /\ job' = [job EXCEPT !.aborted = @ \/ (t = job.table /\ r \in job.read)]
    /\ UNCHANGED <<now, errors>>

Tick ==
    /\ now < MaxTime
    /\ now' = now + 1
    /\ UNCHANGED <<expiry, job, errors, writes>>

Init ==
    /\ now = 1
    /\ expiry \in [Tables -> [Rows -> {Absent, 1}]]
    /\ job = Idle
    /\ errors = 0 /\ writes = 0

Next == Job \/ Error \/ Crash \/ Tick \/ \E t \in Tables, r \in Rows : Request(t, r)

\* The job is run again and again, and its calls return.
Spec == Init /\ [][Next]_vars /\ WF_vars(Job)

-----------------------------------------------------------------------------
(* Type invariant; a call never deletes a whole chunk over its maximum       *)
(* (delete_incremental).                                                     *)
TypeOK ==
    /\ now \in 1..MaxTime
    /\ expiry \in [Tables -> [Rows -> 0..MaxTime + Ttl]]
    /\ job \in [pc : {"idle", "select", "delete", "failed"}, incremental : BOOLEAN,
                table : Tables, attempt : 0..Retries - 1,
                total : 0..MaxToDelete + ChunkSize - 1,
                read : SUBSET Rows, aborted : BOOLEAN]
    /\ job.incremental => Cardinality(job.read) <= ChunkSize
    /\ errors \in 0..MaxErrors /\ writes \in 0..MaxWrites

(* The job never deletes a row that is not expired, however requests refresh *)
(* rows between its SELECT and its DELETE, which has no condition on expiry  *)
(* (delete_incremental, delete_all).                                         *)
PurgesOnlyExpired ==
    [][writes' = writes =>
          \A t \in Tables, r \in Rows : expiry'[t][r] # expiry[t][r] => r \in Expired(t)]_vars

(* Every row that stays expired goes in the end, through aborts, errors,     *)
(* crashes and the maximum of a call.                                        *)
ExpiredRowsGo ==
    \A t \in Tables, r \in Rows : r \in Expired(t) ~> r \notin Expired(t)
=============================================================================
