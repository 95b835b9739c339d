--------------------------- MODULE PurgeTtl_proofs ---------------------------
(***************************************************************************)
(* The purge never deletes a row that has not expired, for any number of   *)
(* rows, chunk size, errors and requests: what an unaborted transaction    *)
(* has read is still expired when it deletes it.                           *)
(***************************************************************************)
EXTENDS PurgeTtl, FiniteSetTheorems, TLAPS

\* What the open transaction of delete_incremental has read is expired.
ReadIsExpired ==
    job.pc = "delete" /\ job.incremental /\ ~job.aborted => job.read \subseteq Expired(job.table)

\* A chunk is read only while the maximum of the call is not reached.
BelowMaximum == job.pc = "delete" /\ job.incremental => job.total < MaxToDelete

PurgeInv == TypeOK /\ ReadIsExpired /\ BelowMaximum

-----------------------------------------------------------------------------
\* The sets rows are chosen from are finite, and a chunk is small.
LEMMA ChunkIsSmall ==
    ASSUME TypeOK, NEW t \in Tables,
           NEW rows \in kSubset(Smaller(ChunkSize, Cardinality(Expired(t))), Expired(t))
    PROVE  /\ rows \subseteq Expired(t) /\ rows \subseteq Rows
           /\ Cardinality(rows) \in Nat /\ Cardinality(rows) <= ChunkSize
<1>1. Expired(t) \subseteq Rows
  BY DEF Expired
<1>2. IsFiniteSet(Expired(t))
  BY <1>1, FS_Subset, PurgeTtlAssumption
<1>3. Cardinality(Expired(t)) \in Nat
  BY <1>2, FS_CardinalityType
<1>4. /\ rows \subseteq Expired(t)
      /\ Cardinality(rows) = Smaller(ChunkSize, Cardinality(Expired(t)))
  BY DEF kSubset
<1>. QED
  BY <1>1, <1>3, <1>4, PurgeTtlAssumption DEF Smaller

\* The state a job starts a table's attempt in has the invariant.
LEMMA NoRowsAreFew == Cardinality({}) = 0 /\ 0 <= ChunkSize
  BY FS_EmptySet, PurgeTtlAssumption

LEMMA AttemptKeeps ==
    ASSUME TypeOK, NEW inc \in BOOLEAN, NEW t \in Tables, NEW i \in 0..Retries - 1,
           job' = Attempt(inc, t, i) \/ job' = [Idle EXCEPT !.pc = "failed"] \/ job' = Idle,
           now' = now,
           expiry' = expiry, errors' \in 0..MaxErrors, writes' = writes
    PROVE  PurgeInv'
<1>1. /\ job' \in [pc : {"idle", "select", "delete", "failed"}, incremental : BOOLEAN,
                   table : Tables, attempt : 0..Retries - 1,
                   total : 0..MaxToDelete + ChunkSize - 1,
                   read : SUBSET Rows, aborted : BOOLEAN]
      /\ job'.read = {} /\ job'.pc # "delete"
  <2>1. 0 \in 0..Retries - 1 /\ 0 \in 0..MaxToDelete + ChunkSize - 1
    BY PurgeTtlAssumption
  <2>2. CASE job' = Attempt(inc, t, i)
    <3>1. job' = [pc |-> "select", incremental |-> inc, table |-> t, attempt |-> i, total |-> 0,
                  read |-> {}, aborted |-> FALSE]
      BY <2>2 DEF Attempt, Idle
    <3>. QED
      BY <2>1, <3>1
  <2>3. CASE job' = [Idle EXCEPT !.pc = "failed"]
    <3>1. job' = [pc |-> "failed", incremental |-> TRUE, table |-> "batches", attempt |-> 0,
                  total |-> 0, read |-> {}, aborted |-> FALSE]
      BY <2>3 DEF Idle
    <3>. QED
      BY <2>1, <3>1 DEF Tables
  <2>4. CASE job' = Idle
    BY <2>1, <2>4 DEF Idle, Tables
  <2>. QED
    BY <2>2, <2>3, <2>4
<1>2. TypeOK'
  BY <1>1, NoRowsAreFew DEF TypeOK
<1>. QED
  BY <1>1, <1>2 DEF PurgeInv, ReadIsExpired, BelowMaximum

LEMMA DoneKeeps ==
    ASSUME PurgeInv, job' = Done, UNCHANGED <<now, expiry, errors, writes>>
    PROVE  PurgeInv'
<1>1. job.incremental \in BOOLEAN /\ "bsos" \in Tables /\ 0 \in 0..Retries - 1
  BY PurgeTtlAssumption DEF PurgeInv, TypeOK, Tables
<1>2. job' = Attempt(job.incremental, "bsos", 0) \/ job' = Idle
  BY DEF Done
<1>3. errors' \in 0..MaxErrors
  BY DEF PurgeInv, TypeOK
<1>. QED
  BY <1>1, <1>2, <1>3, AttemptKeeps DEF PurgeInv

LEMMA FailedKeeps ==
    ASSUME PurgeInv, NEW retryable \in BOOLEAN, Failed(retryable),
           errors' \in 0..MaxErrors, UNCHANGED <<now, expiry, writes>>
    PROVE  PurgeInv'
<1>1. job.incremental \in BOOLEAN /\ job.table \in Tables /\ job.attempt \in 0..Retries - 1
  BY DEF PurgeInv, TypeOK
<1>2. CASE job.attempt + 1 < Retries /\ (retryable \/ job.table = "bsos")
  <2>1. job.attempt + 1 \in 0..Retries - 1
    BY <1>1, <1>2, PurgeTtlAssumption
  <2>. QED
    BY <1>1, <1>2, <2>1, AttemptKeeps DEF PurgeInv, Failed
<1>3. CASE ~(job.attempt + 1 < Retries /\ (retryable \/ job.table = "bsos"))
  BY <1>1, <1>3, AttemptKeeps DEF PurgeInv, Failed
<1>. QED
  BY <1>2, <1>3

-----------------------------------------------------------------------------
LEMMA InitPurgeInv == Init => PurgeInv
<1>. SUFFICES ASSUME Init PROVE PurgeInv
  OBVIOUS
<1>1. expiry \in [Tables -> [Rows -> 0..MaxTime + Ttl]]
  BY PurgeTtlAssumption DEF Init, Absent
<1>2. job \in [pc : {"idle", "select", "delete", "failed"}, incremental : BOOLEAN,
               table : Tables, attempt : 0..Retries - 1,
               total : 0..MaxToDelete + ChunkSize - 1,
               read : SUBSET Rows, aborted : BOOLEAN]
  BY PurgeTtlAssumption DEF Init, Idle, Tables
<1>. QED
  BY <1>1, <1>2, NoRowsAreFew, PurgeTtlAssumption
     DEF Init, PurgeInv, TypeOK, ReadIsExpired, BelowMaximum, Idle

LEMMA StepPurgeInv == PurgeInv /\ [Next]_vars => PurgeInv'
<1>. SUFFICES ASSUME PurgeInv, [Next]_vars PROVE PurgeInv'
  OBVIOUS
<1>. USE DEF PurgeInv
<1>1. CASE Start
  <2>1. "batches" \in Tables /\ 0 \in 0..Retries - 1 /\ errors' \in 0..MaxErrors
    BY <1>1, PurgeTtlAssumption DEF Start, Tables, TypeOK
  <2>2. PICK inc \in BOOLEAN : job' = Attempt(inc, "batches", 0)
    BY <1>1 DEF Start
  <2>. QED
    BY <1>1, <2>1, <2>2, AttemptKeeps DEF Start
<1>2. CASE Select
  <2>1. PICK rows \in kSubset(Smaller(ChunkSize, Cardinality(Expired(job.table))),
                              Expired(job.table)) :
            job' = IF Enough(rows) THEN Done
                   ELSE [job EXCEPT !.pc = "delete", !.read = rows]
    BY <1>2 DEF Select
  <2>2. job.table \in Tables
    BY DEF TypeOK
  <2>3. /\ rows \subseteq Expired(job.table) /\ rows \subseteq Rows
        /\ Cardinality(rows) <= ChunkSize
    BY <2>2, ChunkIsSmall
  <2>4. CASE Enough(rows)
    BY <1>2, <2>1, <2>4, DoneKeeps DEF Select
  <2>5. CASE ~Enough(rows)
    <3>1. job' = [job EXCEPT !.pc = "delete", !.read = rows]
      BY <2>1, <2>5
    <3>2. job.total < MaxToDelete
      BY <2>5, PurgeTtlAssumption DEF Enough, TypeOK
    <3>3. TypeOK'
      BY <1>2, <2>3, <3>1 DEF Select, TypeOK
    <3>4. ReadIsExpired'
      BY <1>2, <2>3, <3>1 DEF Select, ReadIsExpired, Expired, TypeOK
    <3>. QED
      BY <3>1, <3>2, <3>3, <3>4 DEF BelowMaximum, TypeOK
  <2>. QED
    BY <2>4, <2>5
<1>3. CASE DeleteChunk
  <2>1. job' = [job EXCEPT !.pc = "select", !.total = @ + Cardinality(job.read), !.read = {}]
    BY <1>3 DEF DeleteChunk
  <2>2. Cardinality(job.read) \in Nat /\ Cardinality(job.read) <= ChunkSize
    BY <1>3, FS_Subset, FS_CardinalityType, PurgeTtlAssumption DEF DeleteChunk, TypeOK
  <2>3. job.total + Cardinality(job.read) \in 0..MaxToDelete + ChunkSize - 1
    BY <1>3, <2>2, PurgeTtlAssumption DEF DeleteChunk, BelowMaximum, TypeOK
  <2>4. expiry' \in [Tables -> [Rows -> 0..MaxTime + Ttl]]
    BY <1>3, PurgeTtlAssumption DEF DeleteChunk, TypeOK, Absent
  <2>5. TypeOK'
    BY <1>3, <2>1, <2>3, <2>4, NoRowsAreFew DEF DeleteChunk, TypeOK
  <2>. QED
    BY <2>1, <2>5 DEF ReadIsExpired, BelowMaximum, TypeOK
<1>4. CASE BeginAll
  <2>1. job' = [job EXCEPT !.pc = "delete", !.read = Expired(job.table)]
    BY <1>4 DEF BeginAll
  <2>2. Expired(job.table) \subseteq Rows
    BY DEF Expired
  <2>3. ~job.incremental
    BY <1>4 DEF BeginAll
  <2>4. TypeOK'
    BY <1>4, <2>1, <2>2, <2>3 DEF BeginAll, TypeOK
  <2>5. job'.incremental = job.incremental
    BY <2>1 DEF TypeOK
  <2>6. ReadIsExpired'
    BY <2>3, <2>5 DEF ReadIsExpired
  <2>. QED
    BY <2>3, <2>4, <2>5, <2>6 DEF BelowMaximum
<1>5. CASE DeleteSome
  <2>1. PICK r \in Expired(job.table) : expiry' = [expiry EXCEPT ![job.table][r] = Absent]
    BY <1>5 DEF DeleteSome
  <2>2. ~job.incremental /\ UNCHANGED <<now, job, errors, writes>>
    BY <1>5 DEF DeleteSome
  <2>3. expiry' \in [Tables -> [Rows -> 0..MaxTime + Ttl]]
    BY <2>1, PurgeTtlAssumption DEF TypeOK, Absent, Expired
  <2>. QED
    BY <2>2, <2>3 DEF TypeOK, ReadIsExpired, BelowMaximum
<1>6. CASE DeletedAll
  BY <1>6, DoneKeeps DEF DeletedAll
<1>7. CASE Aborted
  <2>1. errors' \in 0..MaxErrors /\ TRUE \in BOOLEAN
    BY <1>7 DEF Aborted, TypeOK
  <2>. QED
    BY <1>7, <2>1, FailedKeeps DEF Aborted
<1>8. CASE Error
  <2>1. errors' \in 0..MaxErrors
    BY <1>8, PurgeTtlAssumption DEF Error, TypeOK
  <2>2. PICK retryable \in BOOLEAN : Failed(retryable)
    BY <1>8 DEF Error
  <2>. QED
    BY <1>8, <2>1, <2>2, FailedKeeps DEF Error
<1>9. CASE Crash
  <2>1. errors' \in 0..MaxErrors
    BY <1>9, PurgeTtlAssumption DEF Crash, TypeOK
  <2>2. TRUE \in BOOLEAN /\ "batches" \in Tables /\ 0 \in 0..Retries - 1
    BY PurgeTtlAssumption DEF Tables
  <2>. QED
    BY <1>9, <2>1, <2>2, AttemptKeeps DEF Crash
<1>10. CASE Tick
  <2>1. now' \in 1..MaxTime /\ now' >= now
    BY <1>10, PurgeTtlAssumption DEF Tick, TypeOK
  <2>2. \A t \in Tables : Expired(t) \subseteq Expired(t)'
    BY <1>10, <2>1, PurgeTtlAssumption DEF Tick, Expired, TypeOK
  <2>. QED
    BY <1>10, <2>1, <2>2 DEF Tick, TypeOK, ReadIsExpired, BelowMaximum
<1>11. CASE \E t \in Tables, r \in Rows : Request(t, r)
  <2>1. PICK t \in Tables, r \in Rows : Request(t, r)
    BY <1>11
  <2>2. PICK e \in {now + Ttl, Absent} : expiry' = [expiry EXCEPT ![t][r] = e]
    BY <2>1 DEF Request
  <2>3. /\ job' = [job EXCEPT !.aborted = @ \/ (t = job.table /\ r \in job.read)]
        /\ now' = now
    BY <2>1 DEF Request
  <2>4. e \in 0..MaxTime + Ttl
    BY PurgeTtlAssumption DEF TypeOK, Absent
  <2>5. expiry' \in [Tables -> [Rows -> 0..MaxTime + Ttl]]
    BY <2>2, <2>4 DEF TypeOK
  <2>6. TypeOK'
    <3>1. (job.aborted \/ (t = job.table /\ r \in job.read)) \in BOOLEAN
      OBVIOUS
    <3>2. PICK a \in BOOLEAN : job' = [job EXCEPT !.aborted = a]
      BY <2>3, <3>1
    <3>3. writes' \in 0..MaxWrites /\ errors' = errors
      BY <2>1, PurgeTtlAssumption DEF Request, TypeOK
    <3>. QED
      BY <2>3, <2>5, <3>2, <3>3 DEF TypeOK
  <2>7. ReadIsExpired'
    <3>. SUFFICES ASSUME job'.pc = "delete", job'.incremental, ~job'.aborted,
                         NEW x \in job'.read
                  PROVE  x \in Expired(job.table)'
      BY DEF ReadIsExpired
    <3>1. /\ job'.pc = job.pc /\ job'.incremental = job.incremental
          /\ job'.read = job.read /\ job'.table = job.table
          /\ job'.aborted = (job.aborted \/ (t = job.table /\ r \in job.read))
      BY <2>3 DEF TypeOK
    <3>2. x \in Expired(job.table) /\ ~(t = job.table /\ r = x)
      BY <3>1 DEF ReadIsExpired
    <3>3. expiry'[job.table][x] = expiry[job.table][x]
      BY <2>2, <3>2 DEF TypeOK, Expired
    <3>. QED
      BY <2>3, <3>1, <3>2, <3>3 DEF Expired
  <2>. QED
    BY <2>3, <2>6, <2>7 DEF BelowMaximum, TypeOK
<1>12. CASE UNCHANGED vars
  BY <1>12 DEF vars, TypeOK, ReadIsExpired, BelowMaximum, Expired
<1>. QED
  BY <1>1, <1>2, <1>3, <1>4, <1>5, <1>6, <1>7, <1>8, <1>9, <1>10, <1>11, <1>12
     DEF Next, Job

\* What a step of the job changes has expired.
LEMMA StepPurgesOnlyExpired ==
    ASSUME PurgeInv, [Next]_vars, writes' = writes,
           NEW t \in Tables, NEW r \in Rows, expiry'[t][r] # expiry[t][r]
    PROVE  r \in Expired(t)
<1>1. CASE DeleteChunk
  <2>1. /\ job.pc = "delete" /\ job.incremental /\ ~job.aborted
        /\ expiry' = [expiry EXCEPT ![job.table] =
                         [x \in Rows |-> IF x \in job.read THEN Absent ELSE @[x]]]
    BY <1>1 DEF DeleteChunk
  <2>2. t = job.table /\ r \in job.read
    BY <2>1 DEF PurgeInv, TypeOK
  <2>. QED
    BY <2>1, <2>2 DEF PurgeInv, ReadIsExpired
<1>2. CASE DeleteSome
  BY <1>2 DEF DeleteSome, PurgeInv, TypeOK
<1>3. CASE \E t1 \in Tables, r1 \in Rows : Request(t1, r1)
  BY <1>3 DEF Request, PurgeInv, TypeOK
<1>4. CASE UNCHANGED expiry
  BY <1>4
<1>. QED
  BY <1>1, <1>2, <1>3, <1>4
     DEF Next, Job, vars, Start, Select, BeginAll, DeletedAll, Aborted, Error, Crash, Tick

-----------------------------------------------------------------------------
LEMMA AlwaysPurgeInv == Spec => []PurgeInv
  BY InitPurgeInv, StepPurgeInv, PTL DEF Spec

\* A call of the purge stays within its chunk size and its maximum, its table's
\* attempts within PURGE_TTL_RETRY_COUNT (delete_incremental, main).
THEOREM PurgeTypeCorrect == Spec => []TypeOK
<1>1. PurgeInv => TypeOK
  BY DEF PurgeInv
<1>. QED
  BY <1>1, AlwaysPurgeInv, PTL

\* The job deletes no row that requests have refreshed since it was read, by
\* whichever of its ways and however often it starts again (delete_incremental,
\* delete_all).
THEOREM OnlyExpiredRowsArePurged == Spec => PurgesOnlyExpired
<1>1. PurgeInv /\ [Next]_vars =>
        [writes' = writes =>
          \A t \in Tables, r \in Rows : expiry'[t][r] # expiry[t][r] => r \in Expired(t)]_vars
  BY StepPurgesOnlyExpired
<1>. QED
  BY <1>1, AlwaysPurgeInv, PTL DEF Spec, PurgesOnlyExpired
=============================================================================
