--------------------------- MODULE JobQueueProofs ---------------------------
(***************************************************************************)
(* Proofs about JobQueue, for every number of jobs and workers, every      *)
(* attempt limit and every bound on crashes, lost statements and cancels.   *)
(***************************************************************************)
EXTENDS JobQueue, TLAPS

\* Steps of a worker that has claimed a job and not yet reported its end.
Claiming == Executing \cup {"fail"}

\* A worker that has claimed a job knows which, and no heartbeat outlives the
\* execution it was started for.
WorkersKnowTheirJob ==
  \A w \in Workers : /\ pc[w] \in Claiming => job[w] \in Jobs
                     /\ beat[w] # "off" => pc[w] \in Executing

\* A job that is not submitted was never claimed.
UnsubmittedIsUnclaimed == \A j \in Jobs : status[j] = "none" => attempts[j] = 0

\* A worker about to complete a scan has persisted its run.
CompletingScanHasRun ==
  \A w \in Workers : pc[w] = "complete" /\ job[w] \in Scans => persisted[job[w]]

\* No renewal was late, no statement failed, and no client asked for a cancel.
Undisturbed == stalls = 0 /\ cancels = 0

\* Then nobody knows of a cancel request,
NoCancel == /\ \A w \in Workers : ~flag[w]
            /\ \A j \in Jobs : ~cancelRequested[j] /\ reading[j] = None

\* the row of a claimed job is the claimer's until it reports the end,
ClaimersOwn ==
  \A w \in Workers : pc[w] \in Claiming /\ job[w] \notin overtaken =>
    status[job[w]] = "running" /\ owner[job[w]] = w

\* its heartbeat runs as long as the execution does,
ExecutionBeats ==
  \A w \in Workers : pc[w] \in Executing /\ job[w] \notin overtaken => beat[w] # "off"

\* so a lease expires only when its owner is gone,
ExpiredIsAbandoned ==
  \A j \in Jobs, w \in Workers :
    /\ j \notin overtaken
    /\ lease[j] = "expired" /\ owner[j] = w /\ job[w] = j
    => beat[w] = "off" /\ pc[w] # "fail"

\* what a recovery has read as stale stays so until the job is claimed again,
SeenIsExpired ==
  \A w \in Workers, j \in Jobs :
    /\ j \notin overtaken
    /\ seen[w][j] > 0 /\ seen[w][j] = attempts[j] /\ status[j] = "running"
    => lease[j] = "expired"

\* and a failure is reported only after one.
FailuresBroke ==
  /\ \A w \in Workers : pc[w] = "fail" => broken[job[w]] \/ job[w] \in overtaken
  /\ \A j \in Jobs : failure[j] = "error" => broken[j] \/ j \in overtaken

UndisturbedInv == Undisturbed => /\ NoCancel /\ ClaimersOwn /\ ExecutionBeats
                                 /\ ExpiredIsAbandoned /\ SeenIsExpired /\ FailuresBroke

\* What every recovery has read is no later than the row, and only Postgres lets
\* a row change between the read and the write.
SeenIsPast ==
  /\ \A w \in Workers, j \in Jobs : seen[w][j] <= attempts[j]
  /\ backend = "sqlite" => /\ overtaken = {}
                           /\ \A w \in Workers : pc[w] # "recover"

\* Everything a step can do to the row of a job.
KeepsRow(j)    == /\ status'[j] = status[j] /\ attempts'[j] = attempts[j]
                  /\ owner'[j] = owner[j] /\ lease'[j] = lease[j] /\ failure'[j] = failure[j]
SubmitsRow(j)  == /\ status[j] = "none" /\ status'[j] = "queued"
                  /\ attempts'[j] = attempts[j]
                  /\ owner'[j] = owner[j] /\ lease'[j] = lease[j]
ClaimsRow(j)   == /\ status[j] = "queued" /\ status'[j] = "running"
                  /\ attempts'[j] = attempts[j] + 1
                  /\ owner'[j] \in Workers /\ lease'[j] = "live"
RequeuesRow(j) == /\ status[j] = "running" /\ status'[j] = "queued"
                  /\ attempts'[j] = attempts[j]
                  /\ attempts[j] < MaxAttempts \/ j \in overtaken'
                  /\ owner'[j] = None /\ lease'[j] = None
EndsRow(j)     == /\ status[j] = "running" /\ status'[j] \in Terminal
                  /\ attempts'[j] = attempts[j]
                  /\ owner'[j] = None /\ lease'[j] = None
WithdrawsRow(j) == /\ status[j] = "queued" /\ status'[j] = "canceled"
                   /\ attempts'[j] = attempts[j]
                   /\ owner'[j] = owner[j] /\ lease'[j] = lease[j]
LeasesRow(j)   == /\ status[j] = "running" /\ status'[j] = "running"
                  /\ attempts'[j] = attempts[j]
                  /\ owner'[j] = owner[j] /\ lease'[j] \in {"live", "expired"}

RowStep(j) == \/ KeepsRow(j) \/ SubmitsRow(j) \/ ClaimsRow(j) \/ RequeuesRow(j)
              \/ EndsRow(j) \/ WithdrawsRow(j) \/ LeasesRow(j)

-----------------------------------------------------------------------------

\* Type correctness, together with the fact it needs: a worker step never
\* dereferences a job the worker does not have.
THEOREM TypeCorrect == Spec => [](TypeOK /\ WorkersKnowTheirJob)
<1> USE DEF Goto, recovery, table, workers, bounds, Status, Terminal, WorkerPCs, Executing, Claiming
<1>1. Init => TypeOK /\ WorkersKnowTheirJob
  BY BoundsAssumption, BackendsAssumption DEF Init, NothingSeen, TypeOK, WorkersKnowTheirJob
<1>2. TypeOK /\ WorkersKnowTheirJob /\ [Next]_vars => TypeOK' /\ WorkersKnowTheirJob'
  <2> SUFFICES ASSUME TypeOK, WorkersKnowTheirJob, [Next]_vars
               PROVE  TypeOK' /\ WorkersKnowTheirJob'
    OBVIOUS
  <2> USE DEF TypeOK, WorkersKnowTheirJob
  <2>1. ASSUME NEW j \in Jobs, Submit(j) PROVE TypeOK' /\ WorkersKnowTheirJob'
    BY <2>1 DEF Submit
  <2>2. ASSUME NEW j \in Jobs, Expire(j) PROVE TypeOK' /\ WorkersKnowTheirJob'
    BY <2>2 DEF Expire
  <2>3. ASSUME NEW j \in Jobs, Stall(j) PROVE TypeOK' /\ WorkersKnowTheirJob'
    BY <2>3, BoundsAssumption DEF Stall
  <2>4. ASSUME NEW j \in Jobs, CancelRead(j) PROVE TypeOK' /\ WorkersKnowTheirJob'
    BY <2>4, BoundsAssumption DEF CancelRead
  <2>5. ASSUME NEW j \in Jobs, CancelApply(j) PROVE TypeOK' /\ WorkersKnowTheirJob'
    <3>0. cancelRequested' \in [Jobs -> BOOLEAN]
      BY <2>5, ZenonT(30) DEF CancelApply
    <3>1. status' \in [Jobs -> Status]
      <4>1. status' = status \/ status' = [status EXCEPT ![j] = "canceled"]
        BY <2>5, ZenonT(30) DEF CancelApply
      <4>2. QED
        BY <4>1
    <3>2. failure' \in [Jobs -> {None, "error", "canceled", "job_retries_exhausted"}]
      BY <2>5 DEF CancelApply
    <3>3. /\ reading' = [reading EXCEPT ![j] = None]
          /\ UNCHANGED <<order, attempts, owner, lease, persisted, broken, crashes, stalls, cancels>>
          /\ UNCHANGED <<pc, job, flag, beat, seen, overtaken, backend>>
      BY <2>5 DEF CancelApply
    <3>4. QED
      BY <3>0, <3>1, <3>2, <3>3
  <2>6. ASSUME NEW w \in Workers, RecoverStale(w) PROVE TypeOK' /\ WorkersKnowTheirJob'
    BY <2>6 DEF RecoverStale, Recover
  <2>6a. ASSUME NEW w \in Workers, RecoverSelect(w) PROVE TypeOK' /\ WorkersKnowTheirJob'
    BY <2>6a DEF RecoverSelect
  <2>6b. ASSUME NEW w \in Workers, NEW j \in Jobs, RecoverMiss(w, j)
         PROVE  TypeOK' /\ WorkersKnowTheirJob'
    BY <2>6b DEF RecoverMiss
  <2>6c. ASSUME NEW w \in Workers, RecoverCommit(w) PROVE TypeOK' /\ WorkersKnowTheirJob'
    BY <2>6c DEF RecoverCommit, Recover, NothingSeen
  <2>7. ASSUME NEW w \in Workers, NEW j \in Jobs, Claim(w, j)
        PROVE  TypeOK' /\ WorkersKnowTheirJob'
    BY <2>7 DEF Claim
  <2>8. ASSUME NEW w \in Workers, NothingQueued(w) PROVE TypeOK' /\ WorkersKnowTheirJob'
    BY <2>8 DEF NothingQueued
  <2>9. ASSUME NEW w \in Workers, StartJob(w) PROVE TypeOK' /\ WorkersKnowTheirJob'
    BY <2>9 DEF StartJob, CancelSeen
  <2>10. ASSUME NEW w \in Workers, Work(w) PROVE TypeOK' /\ WorkersKnowTheirJob'
    BY <2>10, ZenonT(60) DEF Work, AfterWork
  <2>11. ASSUME NEW w \in Workers, PersistRun(w) PROVE TypeOK' /\ WorkersKnowTheirJob'
    BY <2>11 DEF PersistRun
  <2>12. ASSUME NEW w \in Workers, Complete(w) \/ CancelRunning(w)
         PROVE  TypeOK' /\ WorkersKnowTheirJob'
    <3>1. PICK l \in {"complete", "cancel"}, s \in {"succeeded", "canceled"},
               c \in {None, "canceled"} : CompleteAs(w, l, s, c)
      BY <2>12 DEF Complete, CancelRunning
    <3>2. pc[w] \in {"complete", "cancel"} /\ job[w] \in Jobs
      <4>1. pc[w] = l
        BY <3>1 DEF CompleteAs
      <4>2. QED
        BY <4>1
    <3>3. CASE StillRunning(job[w])
      <4>1. /\ EndJob(job[w], s, c)
            /\ cancelRequested' = [cancelRequested EXCEPT ![job[w]] = FALSE]
        BY <3>1, <3>3 DEF CompleteAs
      <4>2. status' \in [Jobs -> Status] /\ cancelRequested' \in [Jobs -> BOOLEAN]
        BY <3>1, <4>1 DEF EndJob
      <4>3. owner' \in [Jobs -> Workers \cup {None}] /\ lease' \in [Jobs -> {"live", "expired", None}]
        BY <4>1 DEF EndJob
      <4>4. failure' \in [Jobs -> {None, "error", "canceled", "job_retries_exhausted"}]
        BY <4>1 DEF EndJob
      <4>5. pc' \in [Workers -> WorkerPCs] /\ beat' \in [Workers -> {"off", "sleep", "renew"}]
        BY <3>1, <3>3 DEF CompleteAs, Leave
      <4>6. job' \in [Workers -> Jobs \cup {None}] /\ flag' \in [Workers -> BOOLEAN]
        <5>1. job' = [job EXCEPT ![w] = None] /\ flag' = [flag EXCEPT ![w] = FALSE]
          BY <3>1, <3>3 DEF CompleteAs, Leave
        <5>2. QED
          BY <5>1
      <4>7. WorkersKnowTheirJob'
        <5>1. /\ pc' = [pc EXCEPT ![w] = "poll"] /\ job' = [job EXCEPT ![w] = None]
              /\ beat' = [beat EXCEPT ![w] = "off"]
          BY <3>1, <3>3 DEF CompleteAs, Leave
        <5>2. QED
          BY <5>1
      <4>8. UNCHANGED <<order, attempts, persisted, reading, broken, seen, overtaken, backend,
                        crashes, stalls, cancels>>
        BY <3>1 DEF CompleteAs
      <4>9. QED
        BY <4>2, <4>3, <4>4, <4>5, <4>6, <4>7, <4>8
    <3>4. CASE ~StillRunning(job[w])
      BY <3>1, <3>2, <3>4 DEF CompleteAs
    <3>5. QED
      BY <3>3, <3>4
  <2>13. ASSUME NEW w \in Workers, FailJob(w) PROVE TypeOK' /\ WorkersKnowTheirJob'
    <3>1. /\ job[w] \in Jobs /\ pc' = [pc EXCEPT ![w] = "poll"]
          /\ job' = [job EXCEPT ![w] = None] /\ flag' = [flag EXCEPT ![w] = FALSE]
          /\ UNCHANGED <<order, attempts, cancelRequested, persisted, beat, reading, broken,
                         seen, overtaken, backend, crashes, stalls, cancels>>
      BY <2>13 DEF FailJob, Leave
    <3>2. /\ status' \in [Jobs -> Status] /\ owner' \in [Jobs -> Workers \cup {None}]
          /\ lease' \in [Jobs -> {"live", "expired", None}]
          /\ failure' \in [Jobs -> {None, "error", "canceled", "job_retries_exhausted"}]
      BY <2>13 DEF FailJob, EndJob
    <3>3. WorkersKnowTheirJob'
      BY <2>13, <3>1 DEF FailJob
    <3>4. QED
      BY <3>1, <3>2, <3>3
  <2>14. ASSUME NEW w \in Workers, HeartbeatRead(w) PROVE TypeOK' /\ WorkersKnowTheirJob'
    BY <2>14, ZenonT(60) DEF HeartbeatRead, CancelSeen
  <2>15. ASSUME NEW w \in Workers, HeartbeatRenew(w) PROVE TypeOK' /\ WorkersKnowTheirJob'
    BY <2>15 DEF HeartbeatRenew
  <2>16. ASSUME NEW w \in Workers, HeartbeatLost(w) PROVE TypeOK' /\ WorkersKnowTheirJob'
    BY <2>16, BoundsAssumption DEF HeartbeatLost
  <2>17. ASSUME NEW w \in Workers, StatementLost(w) PROVE TypeOK' /\ WorkersKnowTheirJob'
    <3>1. stalls' \in 0 .. MaxStalls
      BY <2>17, BoundsAssumption DEF StatementLost
    <3>2. \/ /\ pc[w] \in {"poll", "recover"} /\ pc' = [pc EXCEPT ![w] = "claim"]
             /\ UNCHANGED <<job, flag, beat>>
          \/ /\ pc[w] \in {"claim", "fail"} /\ pc' = [pc EXCEPT ![w] = "poll"]
             /\ job' = [job EXCEPT ![w] = None] /\ flag' = [flag EXCEPT ![w] = FALSE]
             /\ UNCHANGED beat
          \/ /\ pc[w] \in {"start", "persist", "complete", "cancel"}
             /\ pc' = [pc EXCEPT ![w] = "fail"] /\ beat' = [beat EXCEPT ![w] = "off"]
             /\ UNCHANGED <<job, flag>>
      BY <2>17 DEF StatementLost, Leave
    <3>3. /\ pc' \in [Workers -> WorkerPCs] /\ beat' \in [Workers -> {"off", "sleep", "renew"}]
          /\ job' \in [Workers -> Jobs \cup {None}] /\ flag' \in [Workers -> BOOLEAN]
      BY <3>2
    <3>4. WorkersKnowTheirJob'
      BY <3>2
    <3>5. seen' \in [Workers -> [Jobs -> Nat]]
      BY <2>17 DEF StatementLost, NothingSeen
    <3>6. UNCHANGED <<persisted, overtaken, backend, reading, broken, crashes, cancels, order,
                      status, attempts, owner, lease, cancelRequested, failure>>
      BY <2>17 DEF StatementLost
    <3>7. QED
      BY <3>1, <3>3, <3>4, <3>5, <3>6
  <2>18. ASSUME NEW w \in Workers, Crash(w) PROVE TypeOK' /\ WorkersKnowTheirJob'
    <3>1. /\ pc' = [pc EXCEPT ![w] = "poll"] /\ job' = [job EXCEPT ![w] = None]
          /\ flag' = [flag EXCEPT ![w] = FALSE] /\ beat' = [beat EXCEPT ![w] = "off"]
          /\ seen' = [seen EXCEPT ![w] = NothingSeen]
          /\ UNCHANGED <<persisted, overtaken, backend, reading, broken, stalls, cancels, order,
                         status, attempts, owner, lease, cancelRequested, failure>>
      BY <2>18 DEF Crash, Leave
    <3>2. crashes' \in 0 .. MaxCrashes
      BY <2>18, BoundsAssumption DEF Crash
    <3>3. WorkersKnowTheirJob'
      BY <3>1
    <3>4. QED
      BY <3>1, <3>2, <3>3 DEF NothingSeen
  <2>19. CASE UNCHANGED vars
    BY <2>19 DEF vars
  <2>20. QED
    BY <2>1, <2>2, <2>3, <2>4, <2>5, <2>6, <2>6a, <2>6b, <2>6c, <2>7, <2>8, <2>9, <2>10,
       <2>11, <2>12, <2>13, <2>14, <2>15, <2>16, <2>17, <2>18, <2>19
       DEF Next, WorkerStep, HeartbeatStep
<1>3. QED
  BY <1>1, <1>2, PTL DEF Spec

-----------------------------------------------------------------------------

\* A recovery never reads into the future, and no SQLite recovery is overtaken.
LEMMA SeenIsPastAlways == Spec => []SeenIsPast
<1>1. Init => SeenIsPast
  BY DEF Init, NothingSeen, SeenIsPast
<1>2. ASSUME TypeOK, WorkersKnowTheirJob, SeenIsPast, [Next]_vars PROVE SeenIsPast'
  <2> USE <1>2 DEF Goto, recovery, table, workers, bounds, TypeOK, SeenIsPast
  <2>1. ASSUME NEW w \in Workers, RecoverSelect(w) PROVE SeenIsPast'
    BY <2>1 DEF RecoverSelect
  <2>2. ASSUME NEW w \in Workers, NEW j \in Jobs, RecoverMiss(w, j) PROVE SeenIsPast'
    BY <2>2 DEF RecoverMiss
  <2>3. ASSUME NEW w \in Workers, RecoverCommit(w) PROVE SeenIsPast'
    BY <2>3 DEF RecoverCommit, NothingSeen
  <2>4. ASSUME NEW w \in Workers, NEW j \in Jobs, Claim(w, j) PROVE SeenIsPast'
    <3>1. /\ attempts' = [attempts EXCEPT ![j] = @ + 1] /\ pc' = [pc EXCEPT ![w] = "start"]
          /\ UNCHANGED <<seen, overtaken, backend>>
      BY <2>4 DEF Claim
    <3>2. QED
      BY <3>1
  <2>5. ASSUME NEW w \in Workers, StatementLost(w) PROVE SeenIsPast'
    <3>1. /\ seen' = [seen EXCEPT ![w] = NothingSeen] /\ UNCHANGED <<attempts, overtaken, backend>>
          /\ \E l \in {"claim", "poll", "fail"} : pc' = [pc EXCEPT ![w] = l]
      BY <2>5, ZenonT(30) DEF StatementLost, Leave
    <3>2. QED
      BY <3>1 DEF NothingSeen
  <2>6. ASSUME NEW w \in Workers, Crash(w) PROVE SeenIsPast'
    <3>1. /\ seen' = [seen EXCEPT ![w] = NothingSeen] /\ UNCHANGED <<attempts, overtaken, backend>>
          /\ pc' = [pc EXCEPT ![w] = "poll"]
      BY <2>6 DEF Crash, Leave
    <3>2. QED
      BY <3>1 DEF NothingSeen
  <2>7. ASSUME NEW w \in Workers, RecoverStale(w) \/ NothingQueued(w) \/ StartJob(w)
                 \/ Work(w) \/ PersistRun(w) \/ FailJob(w)
        PROVE  SeenIsPast'
    <3>1. /\ UNCHANGED <<seen, attempts, overtaken, backend>>
          /\ \E l \in WorkerPCs \ {"recover"} : pc' = [pc EXCEPT ![w] = l]
      BY <2>7 DEF RecoverStale, NothingQueued, StartJob, Work, AfterWork, PersistRun, FailJob,
                  Leave, WorkerPCs
    <3>2. QED
      BY <3>1
  <2>8. ASSUME NEW w \in Workers, Complete(w) \/ CancelRunning(w) PROVE SeenIsPast'
    <3>1. /\ UNCHANGED <<seen, attempts, overtaken, backend>>
          /\ \E l \in {"poll", "fail"} : pc' = [pc EXCEPT ![w] = l]
      BY <2>8 DEF Complete, CancelRunning, CompleteAs, Leave
    <3>2. QED
      BY <3>1
  <2>9. ASSUME NEW w \in Workers, HeartbeatStep(w) \/ HeartbeatLost(w) PROVE SeenIsPast'
    BY <2>9 DEF HeartbeatStep, HeartbeatRead, HeartbeatRenew, HeartbeatLost
  <2>10. ASSUME NEW j \in Jobs,
                Submit(j) \/ Expire(j) \/ Stall(j) \/ CancelRead(j) \/ CancelApply(j)
         PROVE  SeenIsPast'
    BY <2>10 DEF Submit, Expire, Stall, CancelRead, CancelApply
  <2>11. CASE UNCHANGED vars
    BY <2>11 DEF vars
  <2>12. QED
    BY <2>1, <2>2, <2>3, <2>4, <2>5, <2>6, <2>7, <2>8, <2>9, <2>10, <2>11
       DEF Next, WorkerStep
<1>3. QED
  BY <1>1, <1>2, TypeCorrect, PTL DEF Spec

\* A job that a recovery overtook stays marked.
LEMMA OvertakenGrows ==
  ASSUME [Next]_vars
  PROVE  overtaken \subseteq overtaken'
BY DEF Next, WorkerStep, HeartbeatStep, Submit, Expire, Stall, CancelRead, CancelApply,
       RecoverStale, RecoverSelect, RecoverMiss, RecoverCommit, Claim, NothingQueued, StartJob,
       Work, PersistRun, Complete, CancelRunning, CompleteAs, FailJob, HeartbeatRead,
       HeartbeatRenew, HeartbeatLost, StatementLost, Crash, recovery, workers, vars

\* Whatever the workers, heartbeats and clients do, one step changes the row of a
\* job only in one of the ways of RowStep.
LEMMA RowSteps ==
  ASSUME TypeOK, WorkersKnowTheirJob, [Next]_vars, NEW k \in Jobs
  PROVE  RowStep(k)
<1> USE DEF Goto, recovery, table, workers, bounds, TypeOK, RowStep, KeepsRow
<1>1. ASSUME NEW j \in Jobs, Submit(j) PROVE RowStep(k)
  BY <1>1 DEF Submit, SubmitsRow
<1>2. ASSUME NEW j \in Jobs, Expire(j) \/ Stall(j) PROVE RowStep(k)
  BY <1>2 DEF Expire, Stall, LeasesRow
<1>3. ASSUME NEW j \in Jobs, CancelRead(j) PROVE RowStep(k)
  BY <1>3 DEF CancelRead
<1>4. ASSUME NEW j \in Jobs, CancelApply(j) PROVE RowStep(k)
  BY <1>4 DEF CancelApply, WithdrawsRow
<1>5. ASSUME NEW w \in Workers, RecoverStale(w) PROVE RowStep(k)
  <2>1. CASE Stale(k) /\ RetriesExhausted(attempts[k])
    BY <1>5, <2>1 DEF RecoverStale, Recover, EndsRow, Stale, Terminal
  <2>2. CASE Stale(k) /\ ~RetriesExhausted(attempts[k])
    BY <1>5, <2>2, AttemptsAssumption
       DEF RecoverStale, Recover, RequeuesRow, Stale, RetriesExhausted
  <2>3. CASE ~Stale(k)
    BY <1>5, <2>3 DEF RecoverStale, Recover
  <2>4. QED
    BY <2>1, <2>2, <2>3
<1>5a. ASSUME NEW w \in Workers, RecoverCommit(w) PROVE RowStep(k)
  <2> DEFINE Hit == seen[w][k] > 0 /\ status[k] = "running"
  <2>1. CASE Hit /\ RetriesExhausted(seen[w][k])
    BY <1>5a, <2>1 DEF RecoverCommit, Recover, EndsRow, Terminal
  <2>2. CASE Hit /\ ~RetriesExhausted(seen[w][k])
    <3>1. attempts[k] < MaxAttempts \/ k \in overtaken'
      BY <1>5a, <2>2, AttemptsAssumption DEF RecoverCommit, RetriesExhausted
    <3>2. QED
      BY <1>5a, <2>2, <3>1 DEF RecoverCommit, Recover, RequeuesRow
  <2>3. CASE ~Hit
    BY <1>5a, <2>3 DEF RecoverCommit, Recover
  <2>4. QED
    BY <2>1, <2>2, <2>3
<1>6. ASSUME NEW w \in Workers, NEW j \in Jobs, Claim(w, j) PROVE RowStep(k)
  BY <1>6 DEF Claim, ClaimsRow
<1>7. ASSUME NEW w \in Workers,
             NothingQueued(w) \/ RecoverSelect(w) \/ StartJob(w) \/ Work(w) \/ PersistRun(w)
               \/ HeartbeatRead(w) \/ HeartbeatLost(w) \/ StatementLost(w) \/ Crash(w)
      PROVE  RowStep(k)
  BY <1>7 DEF NothingQueued, RecoverSelect, StartJob, Work, PersistRun, HeartbeatRead, HeartbeatLost,
              StatementLost, Crash
<1>7a. ASSUME NEW w \in Workers, NEW j \in Jobs, RecoverMiss(w, j) PROVE RowStep(k)
  BY <1>7a DEF RecoverMiss
<1>8. ASSUME NEW j \in Jobs, NEW s \in Terminal, NEW c, EndJob(j, s, c), StillRunning(j),
             UNCHANGED attempts
      PROVE  RowStep(k)
  BY <1>8 DEF EndJob, StillRunning, EndsRow
<1>9. ASSUME NEW w \in Workers, Complete(w) \/ CancelRunning(w) PROVE RowStep(k)
  <2>1. PICK l \in {"complete", "cancel"}, s \in Terminal, c \in {None, "canceled"} :
          CompleteAs(w, l, s, c)
    BY <1>9 DEF Complete, CancelRunning, Terminal
  <2>2. job[w] \in Jobs
    BY <2>1 DEF CompleteAs, WorkersKnowTheirJob, Claiming, Executing
  <2>3. QED
    BY <2>1, <2>2, <1>8 DEF CompleteAs
<1>10. ASSUME NEW w \in Workers, FailJob(w) PROVE RowStep(k)
  <2>1. job[w] \in Jobs
    BY <1>10 DEF FailJob, WorkersKnowTheirJob, Claiming
  <2>2. QED
    BY <1>10, <2>1, <1>8 DEF FailJob, Terminal
<1>11. ASSUME NEW w \in Workers, HeartbeatRenew(w) PROVE RowStep(k)
  BY <1>11 DEF HeartbeatRenew, Holds, WorkersKnowTheirJob, LeasesRow
<1>12. CASE UNCHANGED vars
  BY <1>12 DEF vars
<1>13. QED
  BY <1>1, <1>2, <1>3, <1>4, <1>5, <1>5a, <1>6, <1>7, <1>7a, <1>9, <1>10, <1>11, <1>12
     DEF Next, WorkerStep, HeartbeatStep

\* No claim looks at max_attempts, yet no job is ever claimed more often: a row
\* is put back into the queue only by recovery and only below the limit.  On
\* Postgres this is said of the jobs no recovery overtook; SQLite overtakes none.
THEOREM AttemptsAreLimited == Spec => []AttemptLimit
<1> DEFINE Limited == \A j \in Jobs : \/ j \in overtaken
                                      \/ /\ attempts[j] <= MaxAttempts
                                         /\ status[j] = "queued" => attempts[j] < MaxAttempts
           Inv == Limited /\ UnsubmittedIsUnclaimed
<1>1. Init => Inv
  BY AttemptsAssumption DEF Init, UnsubmittedIsUnclaimed
<1>2. ASSUME TypeOK, WorkersKnowTheirJob, Inv, [Next]_vars PROVE Inv'
  <2>1. ASSUME NEW j \in Jobs
        PROVE  /\ \/ j \in overtaken'
                  \/ /\ attempts'[j] <= MaxAttempts
                     /\ status'[j] = "queued" => attempts'[j] < MaxAttempts
               /\ status'[j] = "none" => attempts'[j] = 0
    <3>1. RowStep(j) /\ overtaken \subseteq overtaken'
      BY <1>2, RowSteps, OvertakenGrows
    <3>2. QED
      BY <1>2, <3>1, AttemptsAssumption
         DEF RowStep, KeepsRow, SubmitsRow, ClaimsRow, RequeuesRow, EndsRow, WithdrawsRow,
             LeasesRow, Terminal, TypeOK, UnsubmittedIsUnclaimed
  <2>2. QED
    BY <2>1 DEF UnsubmittedIsUnclaimed
<1>3. TypeOK /\ SeenIsPast /\ Limited => AttemptLimit
  BY DEF TypeOK, SeenIsPast, AttemptLimit, Overtaken
<1>4. QED
  BY <1>1, <1>2, <1>3, SeenIsPastAlways, TypeCorrect, PTL DEF Spec

\* A running row has an owner and a lease, and no other row has: recovery finds
\* every running row once its lease expires, and a late heartbeat revives none.
THEOREM RunningRowsAreLeased == Spec => []RunningIsLeased
<1>1. Init => RunningIsLeased
  BY DEF Init, RunningIsLeased
<1>2. ASSUME TypeOK, WorkersKnowTheirJob, RunningIsLeased, [Next]_vars PROVE RunningIsLeased'
  <2>1. ASSUME NEW j \in Jobs
        PROVE  /\ status'[j] = "running" <=> owner'[j] # None
               /\ status'[j] = "running" <=> lease'[j] # None
    <3>1. RowStep(j)
      BY <1>2, RowSteps
    <3>2. QED
      BY <1>2, <3>1, NoneAssumption
         DEF RowStep, KeepsRow, SubmitsRow, ClaimsRow, RequeuesRow, EndsRow, WithdrawsRow,
             LeasesRow, Terminal, TypeOK, RunningIsLeased
  <2>2. QED
    BY <2>1 DEF RunningIsLeased
<1>3. QED
  BY <1>1, <1>2, TypeCorrect, PTL DEF Spec

\* A terminal job keeps status, failure, owner and lease for good.
THEOREM TerminalJobsAreFinal == Spec => TerminalIsFinal
<1>1. TypeOK /\ WorkersKnowTheirJob /\ [Next]_vars => [KeepsTerminalRows]_vars
  <2> SUFFICES ASSUME TypeOK, WorkersKnowTheirJob, [Next]_vars,
                      NEW j \in Jobs, status[j] \in Terminal
               PROVE  /\ status'[j] = status[j] /\ failure'[j] = failure[j]
                      /\ owner'[j] = owner[j] /\ lease'[j] = lease[j]
    BY DEF KeepsTerminalRows
  <2>1. RowStep(j)
    BY RowSteps
  <2>2. QED
    BY <2>1 DEF RowStep, KeepsRow, SubmitsRow, ClaimsRow, RequeuesRow, EndsRow,
                WithdrawsRow, LeasesRow, Terminal
<1>2. QED
  BY <1>1, TypeCorrect, PTL DEF Spec, TerminalIsFinal

\* A scan job that succeeded has a persisted run: only a worker whose own
\* persist_scan_run went through completes it, also after it lost its lease.
THEOREM SucceededScansHaveRuns == Spec => []SucceededScanHasRun
<1> DEFINE Inv == SucceededScanHasRun /\ CompletingScanHasRun
<1>1. Init => Inv
  BY ScansAssumption DEF Init, SucceededScanHasRun, CompletingScanHasRun
<1>2. ASSUME TypeOK, WorkersKnowTheirJob, Inv, [Next]_vars PROVE Inv'
  <2> USE <1>2, ScansAssumption
      DEF Goto, recovery, table, workers, bounds, TypeOK, SucceededScanHasRun, CompletingScanHasRun
  <2>1. ASSUME NEW j \in Jobs,
               Submit(j) \/ Expire(j) \/ Stall(j) \/ CancelRead(j) \/ CancelApply(j)
        PROVE  Inv'
    BY <2>1 DEF Submit, Expire, Stall, CancelRead, CancelApply
  <2>2. ASSUME NEW w \in Workers, RecoverStale(w) PROVE Inv'
    BY <2>2 DEF RecoverStale, Recover
  <2>2a. ASSUME NEW w \in Workers, RecoverCommit(w) PROVE Inv'
    BY <2>2a DEF RecoverCommit, Recover
  <2>2b. ASSUME NEW w \in Workers, NEW j \in Jobs, RecoverSelect(w) \/ RecoverMiss(w, j)
         PROVE  Inv'
    BY <2>2b DEF RecoverSelect, RecoverMiss
  <2>3. ASSUME NEW w \in Workers, NEW j \in Jobs, Claim(w, j) PROVE Inv'
    BY <2>3 DEF Claim
  <2>4. ASSUME NEW w \in Workers, NothingQueued(w) \/ StartJob(w) \/ Work(w) PROVE Inv'
    BY <2>4 DEF NothingQueued, StartJob, Work, AfterWork
  <2>5. ASSUME NEW w \in Workers, PersistRun(w) PROVE Inv'
    BY <2>5 DEF PersistRun, WorkersKnowTheirJob, Claiming, Executing
  <2>6. ASSUME NEW w \in Workers, Complete(w) PROVE Inv'
    <3>1. /\ job[w] \in Jobs /\ pc[w] = "complete" /\ UNCHANGED persisted
          /\ \A v \in Workers : v # w => job'[v] = job[v]
      BY <2>6 DEF Complete, CompleteAs, Leave, WorkersKnowTheirJob, Claiming, Executing
    <3>2. CompletingScanHasRun'
      <4>1. \E l \in {"poll", "fail"} : pc' = [pc EXCEPT ![w] = l]
        BY <2>6 DEF Complete, CompleteAs, Leave
      <4>2. QED
        BY <3>1, <4>1
    <3>3. status' = status \/ status' = [status EXCEPT ![job[w]] = "succeeded"]
      BY <2>6 DEF Complete, CompleteAs, EndJob
    <3>4. SucceededScanHasRun'
      BY <3>1, <3>3
    <3>5. QED
      BY <3>2, <3>4
  <2>7. ASSUME NEW w \in Workers, CancelRunning(w) PROVE Inv'
    BY <2>7 DEF CancelRunning, CompleteAs, EndJob, Leave
  <2>8. ASSUME NEW w \in Workers, FailJob(w) PROVE Inv'
    BY <2>8 DEF FailJob, EndJob, Leave
  <2>9. ASSUME NEW w \in Workers, HeartbeatStep(w) \/ HeartbeatLost(w) PROVE Inv'
    BY <2>9 DEF HeartbeatStep, HeartbeatRead, HeartbeatRenew, HeartbeatLost
  <2>9a. ASSUME NEW w \in Workers, StatementLost(w) PROVE Inv'
    <3>1. /\ \E l \in {"claim", "poll", "fail"} : pc' = [pc EXCEPT ![w] = l]
          /\ job' = job \/ job' = [job EXCEPT ![w] = None]
          /\ UNCHANGED <<status, persisted>>
      BY <2>9a, ZenonT(30) DEF StatementLost, Leave
    <3>2. QED
      BY <3>1
  <2>10. ASSUME NEW w \in Workers, Crash(w) PROVE Inv'
    BY <2>10 DEF Crash, Leave
  <2>11. CASE UNCHANGED vars
    BY <2>11 DEF vars
  <2>12. QED
    BY <2>1, <2>2, <2>2a, <2>2b, <2>3, <2>4, <2>5, <2>6, <2>7, <2>8, <2>9, <2>9a, <2>10, <2>11
       DEF Next, WorkerStep
<1>3. QED
  BY <1>1, <1>2, TypeCorrect, PTL DEF Spec

-----------------------------------------------------------------------------

\* One step keeps UndisturbedInv.
LEMMA UndisturbedStep ==
  ASSUME TypeOK, WorkersKnowTheirJob, SeenIsPast, UndisturbedInv, [Next]_vars
  PROVE  UndisturbedInv'
<1> SUFFICES ASSUME Undisturbed'
             PROVE  /\ NoCancel' /\ ClaimersOwn' /\ ExecutionBeats'
                    /\ ExpiredIsAbandoned' /\ SeenIsExpired' /\ FailuresBroke'
  BY DEF UndisturbedInv
<1> DEFINE Goal == /\ NoCancel' /\ ClaimersOwn' /\ ExecutionBeats'
                   /\ ExpiredIsAbandoned' /\ SeenIsExpired' /\ FailuresBroke'
<1> USE DEF Goto, recovery, table, workers, bounds, TypeOK, Executing, Claiming, WorkersKnowTheirJob,
            Undisturbed
<1>1. ASSUME NEW j \in Jobs, Stall(j) \/ CancelRead(j) PROVE FALSE
  BY <1>1, BoundsAssumption DEF Stall, CancelRead
<1>2. ASSUME NEW w \in Workers, HeartbeatLost(w) \/ StatementLost(w) PROVE FALSE
  BY <1>2, BoundsAssumption DEF HeartbeatLost, StatementLost
<1>3. CASE UNCHANGED <<stalls, cancels>>
  <2>1. /\ NoCancel /\ ClaimersOwn /\ ExecutionBeats /\ ExpiredIsAbandoned /\ SeenIsExpired
        /\ FailuresBroke /\ SeenIsPast /\ overtaken \subseteq overtaken'
    BY <1>3, OvertakenGrows DEF UndisturbedInv
  <2> USE <2>1 DEF NoCancel, ClaimersOwn, ExecutionBeats, ExpiredIsAbandoned, SeenIsExpired,
                   FailuresBroke, SeenIsPast
  <2>2. ASSUME NEW j \in Jobs, Submit(j) PROVE Goal
    BY <2>2 DEF Submit
  <2>3. ASSUME NEW j \in Jobs, Expire(j) PROVE Goal
    BY <2>3 DEF Expire, Attended
  <2>4. ASSUME NEW j \in Jobs, CancelApply(j) PROVE FALSE
    BY <2>4 DEF CancelApply
  <2> DEFINE KeptOrRecovered(j) ==
        \/ /\ status'[j] = status[j] /\ failure'[j] = failure[j]
           /\ owner'[j] = owner[j] /\ lease'[j] = lease[j]
        \/ /\ status[j] = "running" /\ (lease[j] = "expired" \/ j \in overtaken')
           /\ status'[j] \in {"failed", "queued"}
           /\ failure'[j] \in {failure[j], "job_retries_exhausted"}
           /\ owner'[j] = None /\ lease'[j] = None
  <2>5. ASSUME NEW w \in Workers, \A j \in Jobs : KeptOrRecovered(j),
               Goto(w, "claim"), pc[w] \in {"poll", "recover"},
               UNCHANGED <<job, flag, beat, cancelRequested, reading, broken, attempts>>,
               \A v \in Workers, j \in Jobs : seen'[v][j] \in {seen[v][j], 0}
        PROVE  Goal
    <3>1. NoCancel' /\ ExecutionBeats'
      BY <2>5
    <3>2. ClaimersOwn'
      BY <2>5
    <3>3. ExpiredIsAbandoned'
      BY <2>5, NoneAssumption
    <3>4. SeenIsExpired'
      <4> SUFFICES ASSUME NEW v \in Workers, NEW j \in Jobs, j \notin overtaken',
                          seen'[v][j] > 0, seen'[v][j] = attempts'[j], status'[j] = "running"
                   PROVE  lease'[j] = "expired"
        BY DEF SeenIsExpired
      <4>1. KeptOrRecovered(j) /\ seen'[v][j] \in {seen[v][j], 0} /\ attempts'[j] = attempts[j]
        BY <2>5
      <4>2. QED
        BY <4>1
    <3>5. FailuresBroke'
      BY <2>5
    <3>6. QED
      BY <3>1, <3>2, <3>3, <3>4, <3>5
  <2>5a. ASSUME NEW w \in Workers, RecoverStale(w) PROVE Goal
    <3>1. /\ pc' = [pc EXCEPT ![w] = "claim"] /\ pc[w] = "poll"
          /\ UNCHANGED <<job, flag, beat, cancelRequested, reading, broken, attempts, seen>>
      BY <2>5a DEF RecoverStale
    <3>2. ASSUME NEW j \in Jobs PROVE KeptOrRecovered(j)
      BY <2>5a DEF RecoverStale, Recover, Stale
    <3> HIDE DEF KeptOrRecovered
    <3>3. QED
      BY <2>5, <3>1, <3>2
  <2>5b. ASSUME NEW w \in Workers, RecoverCommit(w) PROVE Goal
    <3>1. /\ pc' = [pc EXCEPT ![w] = "claim"] /\ pc[w] = "recover"
          /\ UNCHANGED <<job, flag, beat, cancelRequested, reading, broken, attempts>>
      BY <2>5b DEF RecoverCommit
    <3>2. \A v \in Workers, j \in Jobs : seen'[v][j] \in {seen[v][j], 0}
      BY <2>5b DEF RecoverCommit, NothingSeen
    <3>3. ASSUME NEW j \in Jobs PROVE KeptOrRecovered(j)
      <4>1. CASE seen[w][j] > 0 /\ status[j] = "running"
        <5>1. lease[j] = "expired" \/ j \in overtaken'
          BY <2>5b, <4>1 DEF RecoverCommit
        <5>2. QED
          BY <2>5b, <4>1, <5>1 DEF RecoverCommit, Recover
      <4>2. CASE ~(seen[w][j] > 0 /\ status[j] = "running")
        BY <2>5b, <4>2 DEF RecoverCommit, Recover
      <4>3. QED
        BY <4>1, <4>2
    <3> HIDE DEF KeptOrRecovered
    <3>4. QED
      BY <2>5, <3>1, <3>2, <3>3
  <2>5c. ASSUME NEW w \in Workers, RecoverSelect(w) PROVE Goal
    BY <2>5c DEF RecoverSelect, Stale
  <2>5d. ASSUME NEW w \in Workers, NEW j \in Jobs, RecoverMiss(w, j) PROVE Goal
    BY <2>5d DEF RecoverMiss
  <2>6. ASSUME NEW w \in Workers, NEW j \in Jobs, Claim(w, j) PROVE Goal
    BY <2>6 DEF Claim
  <2>7. ASSUME NEW w \in Workers, NothingQueued(w) PROVE Goal
    BY <2>7 DEF NothingQueued
  <2>8. ASSUME NEW w \in Workers, StartJob(w) PROVE Goal
    BY <2>8 DEF StartJob, CancelSeen
  <2>9. ASSUME NEW w \in Workers, Work(w) PROVE Goal
    <3>1. CASE Goto(w, AfterWork(w)) /\ UNCHANGED <<beat, broken>>
      BY <2>9, <3>1 DEF Work, AfterWork
    <3>2. CASE /\ Goto(w, "fail")
               /\ beat' = [beat EXCEPT ![w] = "off"]
               /\ broken' = [broken EXCEPT ![job[w]] = TRUE]
      BY <2>9, <3>2 DEF Work
    <3>3. QED
      BY <2>9, <3>1, <3>2 DEF Work
  <2>10. ASSUME NEW w \in Workers, PersistRun(w) PROVE Goal
    BY <2>10 DEF PersistRun
  <2>11. ASSUME NEW w \in Workers, pc[w] \in Claiming, NEW s \in Terminal, NEW c,
                c = "error" => pc[w] = "fail",
                EndJob(job[w], s, c), Leave(w),
                UNCHANGED <<broken, reading, seen, overtaken, attempts>>,
                \A j \in Jobs : ~cancelRequested'[j],
                beat' = [beat EXCEPT ![w] = "off"] \/ UNCHANGED beat
         PROVE  Goal
    <3> USE DEF Leave
    <3>1. NoCancel' /\ ExecutionBeats'
      BY <2>11, NoneAssumption
    <3>2. ClaimersOwn'
      BY <2>11, NoneAssumption DEF EndJob
    <3>3. ExpiredIsAbandoned'
      BY <2>11, NoneAssumption DEF EndJob
    <3>4. SeenIsExpired'
      BY <2>11 DEF EndJob, Terminal
    <3>5. FailuresBroke'
      BY <2>11 DEF EndJob
    <3>6. QED
      BY <3>1, <3>2, <3>3, <3>4, <3>5
  <2>11a. ASSUME NEW w \in Workers, pc[w] \in Claiming, NEW l \in {"poll", "fail"},
                 l = "fail" => job[w] \in overtaken /\ job' = job /\ flag' = flag,
                 l = "poll" => job' = [job EXCEPT ![w] = None] /\ flag' = [flag EXCEPT ![w] = FALSE],
                 Goto(w, l), beat' = [beat EXCEPT ![w] = "off"] \/ UNCHANGED beat,
                 UNCHANGED <<status, owner, lease, failure, attempts, cancelRequested, reading,
                             broken, seen, overtaken>>,
                 job[w] \in overtaken
          PROVE  Goal
    <3>0. NoCancel'
      <4>1. \A v \in Workers : flag'[v] = flag[v] \/ flag'[v] = FALSE
        BY <2>11a
      <4>2. \A v \in Workers : ~flag[v]
        BY DEF NoCancel
      <4>3. \A v \in Workers : ~flag'[v]
        <5> HIDE <2>1
        <5>1. QED
          BY <4>1, <4>2, Zenon
      <4>4. QED
        BY <2>11a, <4>3
    <3>1. ExecutionBeats'
      BY <2>11a, NoneAssumption
    <3>2. ClaimersOwn'
      BY <2>11a, NoneAssumption
    <3>3. ExpiredIsAbandoned' /\ SeenIsExpired'
      BY <2>11a, NoneAssumption
    <3>4. FailuresBroke'
      BY <2>11a
    <3>5. QED
      BY <3>0, <3>1, <3>2, <3>3, <3>4
  <2>12. ASSUME NEW w \in Workers, Complete(w) \/ CancelRunning(w) PROVE Goal
    <3>1. PICK l \in {"complete", "cancel"}, s \in Terminal, c \in {None, "canceled"} :
            CompleteAs(w, l, s, c)
      BY <2>12 DEF Complete, CancelRunning, Terminal
    <3>2. /\ pc[w] \in Claiming /\ job[w] \in Jobs /\ beat' = [beat EXCEPT ![w] = "off"]
          /\ UNCHANGED <<broken, reading, seen, overtaken, attempts>>
      BY <3>1 DEF CompleteAs
    <3>3. CASE StillRunning(job[w])
      <4>1. c # "error"
        BY NoneAssumption
      <4>2. /\ cancelRequested' = [cancelRequested EXCEPT ![job[w]] = FALSE]
            /\ EndJob(job[w], s, c) /\ Leave(w)
        BY <3>1, <3>3, ZenonT(30) DEF CompleteAs
      <4>3. \A j \in Jobs : ~cancelRequested'[j]
        <5>1. /\ cancelRequested \in [Jobs -> BOOLEAN]
              /\ \A j \in Jobs : ~cancelRequested[j]
          BY <2>1
        <5> HIDE <2>1
        <5>2. QED
          BY <4>2, <5>1, ZenonT(30)
      <4>4. QED
        BY <2>11, <3>2, <4>1, <4>2, <4>3
    <3>4. CASE ~StillRunning(job[w])
      <4>1. /\ pc' = [pc EXCEPT ![w] = "fail"] /\ job' = job /\ flag' = flag
            /\ UNCHANGED <<status, owner, lease, failure, cancelRequested>>
        BY <3>1, <3>4 DEF CompleteAs
      <4>2. job[w] \in overtaken
        BY <3>2, <3>4 DEF StillRunning
      <4>3. QED
        BY <2>11a, <3>2, <4>1, <4>2
    <3>5. QED
      BY <3>3, <3>4
  <2>13. ASSUME NEW w \in Workers, FailJob(w) PROVE Goal
    <3>1. /\ pc[w] = "fail" /\ Leave(w) /\ job[w] \in Jobs
          /\ UNCHANGED <<broken, reading, seen, overtaken, attempts, cancelRequested, beat>>
      BY <2>13 DEF FailJob
    <3>2. CASE StillRunning(job[w])
      <4>1. EndJob(job[w], "failed", "error")
        BY <2>13, <3>2 DEF FailJob
      <4>2. \A j \in Jobs : ~cancelRequested'[j]
        BY <3>1
      <4>3. "failed" \in Terminal
        BY DEF Terminal
      <4>4. QED
        BY <2>11, <3>1, <4>1, <4>2, <4>3
    <3>3. CASE ~StillRunning(job[w])
      <4>1. job[w] \in overtaken
        BY <3>1, <3>3 DEF StillRunning
      <4>2. UNCHANGED <<status, owner, lease, failure>>
        BY <2>13, <3>3 DEF FailJob
      <4>3. QED
        BY <2>11a, <3>1, <4>1, <4>2 DEF Leave
    <3>4. QED
      BY <3>2, <3>3
  <2>14. ASSUME NEW w \in Workers, HeartbeatRead(w) PROVE Goal
    BY <2>14 DEF HeartbeatRead, CancelSeen
  <2>15. ASSUME NEW w \in Workers, HeartbeatRenew(w) PROVE Goal
    BY <2>15 DEF HeartbeatRenew, Holds
  <2>16. ASSUME NEW w \in Workers, Crash(w) PROVE Goal
    BY <2>16, NoneAssumption DEF Crash, Leave, NothingSeen
  <2>17. CASE UNCHANGED vars
    BY <2>17 DEF vars
  <2>18. QED
    BY <1>1, <1>2, <2>2, <2>3, <2>4, <2>5a, <2>5b, <2>5c, <2>5d, <2>6, <2>7, <2>8, <2>9, <2>10, <2>12,
       <2>13, <2>14, <2>15, <2>16, <2>17
       DEF Next, WorkerStep, HeartbeatStep
<1>4. QED
  <2>1. ASSUME NEW j \in Jobs, Submit(j) \/ Expire(j) \/ CancelApply(j)
        PROVE  UNCHANGED <<stalls, cancels>>
    BY <2>1 DEF Submit, Expire, CancelApply
  <2>2. ASSUME NEW w \in Workers, WorkerStep(w) PROVE UNCHANGED <<stalls, cancels>>
    BY <2>2 DEF WorkerStep, RecoverStale, RecoverSelect, RecoverMiss, RecoverCommit, Claim,
                NothingQueued, StartJob, Work, PersistRun, Complete, CancelRunning, CompleteAs,
                FailJob
  <2>3. ASSUME NEW w \in Workers, HeartbeatStep(w) \/ Crash(w)
        PROVE  UNCHANGED <<stalls, cancels>>
    BY <2>3 DEF HeartbeatStep, HeartbeatRead, HeartbeatRenew, Crash
  <2>4. CASE UNCHANGED vars
    BY <2>4, <1>3 DEF vars
  <2>5. QED
    BY <2>1, <2>2, <2>3, <2>4, <1>1, <1>2, <1>3 DEF Next

\* UndisturbedInv holds of every reachable state.
LEMMA UndisturbedAlways == Spec => []UndisturbedInv
<1>1. Init => UndisturbedInv
  BY NoneAssumption
     DEF Init, UndisturbedInv, NoCancel, ClaimersOwn, ExecutionBeats, ExpiredIsAbandoned,
         FailuresBroke, SeenIsExpired, NothingSeen, Executing, Claiming
<1>2. QED
  BY <1>1, UndisturbedStep, SeenIsPastAlways, TypeCorrect, PTL DEF Spec

\* Leases work: unless a renewal is late, a statement fails or a client cancels, no two
\* workers execute one job, whoever crashes, for any number of workers.
THEOREM ExecutionIsExclusive == Spec => []ExclusiveExecution
<1>1. TypeOK /\ SeenIsPast /\ UndisturbedInv => ExclusiveExecution
  BY DEF UndisturbedInv, Undisturbed, ClaimersOwn, Claiming, ExclusiveExecution, Overtaken,
         TypeOK, SeenIsPast
<1>2. QED
  BY <1>1, UndisturbedAlways, SeenIsPastAlways, TypeCorrect, PTL

\* Under the same condition a job is reported failed only if an execution failed.
THEOREM FailuresAreReal == Spec => []FailureIsReal
<1>1. TypeOK /\ SeenIsPast /\ UndisturbedInv => FailureIsReal
  BY DEF UndisturbedInv, Undisturbed, FailuresBroke, FailureIsReal, Overtaken, TypeOK, SeenIsPast
<1>2. QED
  BY <1>1, UndisturbedAlways, SeenIsPastAlways, TypeCorrect, PTL
=============================================================================
