------------------------------ MODULE JobQueue ------------------------------
(***************************************************************************)
(* The durable job queue of `prqnt serve`: the application_jobs table      *)
(* (crates/paraclete-store, SQLite and Postgres backends), the worker      *)
(* tasks with their heartbeats (crates/paraclete-service/src/worker.rs)    *)
(* and the submit and cancel requests of HTTP clients.                     *)
(*                                                                         *)
(* One SQL statement is one action, and so is a SQLite transaction: there  *)
(* one that read before another one committed cannot write.  On Postgres   *)
(* (READ COMMITTED) it can, so the recovery of stale jobs is a read and a  *)
(* write there.  Time is abstracted to one event: a lease nobody renews in *)
(* time expires.  A heartbeat that runs renews well before that, unless    *)
(* the worker stalls.                                                      *)
(***************************************************************************)
EXTENDS Naturals, Sequences

CONSTANTS Jobs,         \* jobs clients may submit
          Scans,        \* the ones of kind scan; the others are repairs and batches
          Workers,
          Backends,     \* databases the server may be configured with
          MaxAttempts,  \* JobRecoveryPolicy.max_attempts
          MaxCrashes,   \* bound on workers lost
          MaxStalls,    \* bound on late lease renewals and failed statements
          MaxCancels,   \* bound on cancel requests
          MaxEvents,    \* bound on submissions and all three together
          None

ASSUME ScansAssumption == Scans \subseteq Jobs
ASSUME AttemptsAssumption == MaxAttempts \in Nat \ {0}
ASSUME BoundsAssumption == MaxCrashes \in Nat /\ MaxStalls \in Nat /\ MaxCancels \in Nat
ASSUME BackendsAssumption == Backends \subseteq {"sqlite", "postgres"}
ASSUME NoneAssumption == None \notin Jobs \cup Workers \cup {"live", "expired", "error"}

VARIABLES
  backend,    \* SqliteStore or PostgresStore, for good
  \* application_jobs
  order,      \* job ids by submitted_at
  status, attempts, owner, lease, cancelRequested, failure,
  \* scan runs in the store
  persisted,  \* has an execution of the scan job persisted a run
  \* workers
  pc, job,    \* what a worker does, for which job
  seen,       \* attempt_count of the stale rows a recovery has read, 0 of others
  flag,       \* CancelFlag of the current execution
  beat,       \* its heartbeat task
  \* HTTP clients cancelling a job: the status they read, or None
  reading,
  \* observations
  broken,     \* jobs some execution of which failed
  overtaken,  \* jobs claimed again between the read and the write of a recovery
  crashes, stalls, cancels

table   == <<order, status, attempts, owner, lease, cancelRequested, failure>>
recovery == <<seen, overtaken, backend>>
workers == <<pc, job, flag, beat, seen, overtaken, backend>>
bounds  == <<crashes, stalls, cancels>>
vars    == <<order, status, attempts, owner, lease, cancelRequested, failure, persisted,
             pc, job, flag, beat, seen, overtaken, backend, reading, broken,
             crashes, stalls, cancels>>

EventsLeft == Len(order) + crashes + stalls + cancels < MaxEvents

Terminal == {"succeeded", "failed", "canceled"}
Status == {"none", "queued", "running"} \cup Terminal
WorkerPCs == {"poll", "recover", "claim", "start", "work", "persist", "complete", "cancel", "fail"}

\* Steps of a worker that is executing a job.
Executing == {"start", "work", "persist", "complete", "cancel"}

\* A recovery that has read no stale row.
NothingSeen == [j \in Jobs |-> 0]

Init ==
  /\ backend \in Backends
  /\ order = <<>>
  /\ status = [j \in Jobs |-> "none"]
  /\ attempts = [j \in Jobs |-> 0]
  /\ owner = [j \in Jobs |-> None]
  /\ lease = [j \in Jobs |-> None]
  /\ cancelRequested = [j \in Jobs |-> FALSE]
  /\ failure = [j \in Jobs |-> None]
  /\ persisted = [j \in Jobs |-> FALSE]
  /\ pc = [w \in Workers |-> "poll"]
  /\ job = [w \in Workers |-> None]
  /\ seen = [w \in Workers |-> NothingSeen]
  /\ overtaken = {}
  /\ flag = [w \in Workers |-> FALSE]
  /\ beat = [w \in Workers |-> "off"]
  /\ reading = [j \in Jobs |-> None]
  /\ broken = [j \in Jobs |-> FALSE]
  /\ crashes = 0 /\ stalls = 0 /\ cancels = 0

Goto(w, l) == pc' = [pc EXCEPT ![w] = l]

\* Back to polling: the execution's job and CancelFlag are dropped.
Leave(w) ==
  /\ Goto(w, "poll")
  /\ job' = [job EXCEPT ![w] = None]
  /\ flag' = [flag EXCEPT ![w] = FALSE]

-----------------------------------------------------------------------------
(* Submission and the worker's polling loop.                                *)

Submit(j) ==
  /\ status[j] = "none" /\ EventsLeft
  /\ status' = [status EXCEPT ![j] = "queued"]
  /\ order' = Append(order, j)
  /\ UNCHANGED <<attempts, owner, lease, cancelRequested, failure, persisted>>
  /\ UNCHANGED <<reading, broken>> /\ UNCHANGED workers /\ UNCHANGED bounds

\* Mutants: the lease is not looked at; jobs with a cancel request are skipped.
AnyRunning(j) == status[j] = "running"
StaleUncancelled(j) == status[j] = "running" /\ lease[j] = "expired" /\ ~cancelRequested[j]

Stale(j) == status[j] = "running" /\ lease[j] = "expired"

OneTooMany(n) == n > MaxAttempts     \* mutant

RetriesExhausted(n) == n >= MaxAttempts

\* What recovery does to the rows of the jobs in js: requeue, or fail when the
\* attempts read for the job are used up.
Recover(js, read) ==
  /\ status' = [j \in Jobs |-> IF j \notin js THEN status[j]
                               ELSE IF RetriesExhausted(read[j]) THEN "failed" ELSE "queued"]
  /\ failure' = [j \in Jobs |-> IF j \in js /\ RetriesExhausted(read[j])
                                  THEN "job_retries_exhausted" ELSE failure[j]]
  /\ owner' = [j \in Jobs |-> IF j \in js THEN None ELSE owner[j]]
  /\ lease' = [j \in Jobs |-> IF j \in js THEN None ELSE lease[j]]

\* recover_stale_scan_jobs on SQLite, one transaction.
RecoverStale(w) ==
  /\ pc[w] = "poll" /\ backend = "sqlite"
  /\ Goto(w, "claim")
  /\ Recover({j \in Jobs : Stale(j)}, attempts)
  /\ UNCHANGED <<order, attempts, cancelRequested, persisted, job, flag, beat>>
  /\ UNCHANGED <<reading, broken>> /\ UNCHANGED recovery /\ UNCHANGED bounds

\* recover_stale_scan_jobs on Postgres: the SELECT of the stale rows ...
RecoverSelect(w) ==
  LET stale == {j \in Jobs : Stale(j)} IN
  /\ pc[w] = "poll" /\ backend = "postgres"
  /\ seen' = [seen EXCEPT ![w] = [j \in Jobs |-> IF j \in stale THEN attempts[j] ELSE 0]]
  /\ Goto(w, IF stale = {} THEN "claim" ELSE "recover")
  /\ UNCHANGED <<persisted, job, flag, beat, overtaken, backend, reading, broken>>
  /\ UNCHANGED table /\ UNCHANGED bounds

\* ... then an UPDATE for each of them.  One that finds its row not running
\* changes nothing ...
RecoverMiss(w, j) ==
  /\ pc[w] = "recover"
  /\ seen[w][j] > 0 /\ status[j] # "running"
  /\ seen' = [seen EXCEPT ![w][j] = 0]
  /\ UNCHANGED <<pc, persisted, job, flag, beat, overtaken, backend, reading, broken>>
  /\ UNCHANGED table /\ UNCHANGED bounds

\* ... the others change theirs, whoever runs it now and on whatever lease, and
\* hold it until the commit.
RecoverCommit(w) ==
  LET hit == {j \in Jobs : seen[w][j] > 0 /\ status[j] = "running"} IN
  /\ pc[w] = "recover"
  /\ Goto(w, "claim")
  /\ Recover(hit, seen[w])
  /\ overtaken' = overtaken \cup {j \in hit : attempts[j] # seen[w][j]}
  /\ seen' = [seen EXCEPT ![w] = NothingSeen]
  /\ UNCHANGED <<order, attempts, cancelRequested, persisted, job, flag, beat>>
  /\ UNCHANGED <<backend, reading, broken>> /\ UNCHANGED bounds

\* claim_next_queued_scan_job of job j, the oldest queued one.
Claim(w, j) ==
  /\ pc[w] = "claim"
  /\ \E i \in 1 .. Len(order) : /\ order[i] = j
                                /\ \A k \in 1 .. i - 1 : status[order[k]] # "queued"
  /\ status[j] = "queued"
  /\ status' = [status EXCEPT ![j] = "running"]
  /\ attempts' = [attempts EXCEPT ![j] = @ + 1]
  /\ owner' = [owner EXCEPT ![j] = w]
  /\ lease' = [lease EXCEPT ![j] = "live"]
  /\ job' = [job EXCEPT ![w] = j]
  /\ flag' = [flag EXCEPT ![w] = FALSE]
  /\ beat' = [beat EXCEPT ![w] = "sleep"]
  /\ Goto(w, "start")
  /\ UNCHANGED <<order, cancelRequested, failure, persisted, reading, broken>>
  /\ UNCHANGED recovery /\ UNCHANGED bounds

NothingQueued(w) ==
  /\ pc[w] = "claim"
  /\ \A j \in Jobs : status[j] # "queued"
  /\ Goto(w, "poll")
  /\ UNCHANGED <<job, flag, beat, persisted, reading, broken>>
  /\ UNCHANGED table /\ UNCHANGED bounds /\ UNCHANGED recovery

-----------------------------------------------------------------------------
(* run_claimed_job.                                                         *)

\* job_cancel_requested: only a running row answers.
CancelSeen(j) == status[j] = "running" /\ cancelRequested[j]

\* Repairs and batches look at the flag before they start, scans do not.
StartJob(w) ==
  LET j == job[w]
      stop == flag[w] \/ CancelSeen(j)
  IN
  /\ pc[w] = "start"
  /\ flag' = [flag EXCEPT ![w] = stop]
  /\ Goto(w, IF stop /\ j \notin Scans THEN "cancel" ELSE "work")
  /\ UNCHANGED <<job, beat, persisted, reading, broken>>
  /\ UNCHANGED table /\ UNCHANGED bounds /\ UNCHANGED recovery

\* Mutant: the scan's result is reported before it is stored.
AfterWorkUnstored(w) == IF job[w] \notin Scans /\ flag[w] THEN "cancel" ELSE "complete"

AfterWork(w) == CASE job[w] \in Scans                 -> "persist"
                  [] job[w] \notin Scans /\ flag[w]  -> "cancel"
                  [] job[w] \notin Scans /\ ~flag[w] -> "complete"

\* The scan, repair or batch itself succeeds or fails; a panic counts as failure.
\* After it, repairs and batches look at the flag once more.
Work(w) ==
  LET j == job[w] IN
  /\ pc[w] = "work"
  /\ \/ /\ Goto(w, AfterWork(w))
        /\ UNCHANGED <<beat, broken>>
     \/ /\ Goto(w, "fail")
        /\ beat' = [beat EXCEPT ![w] = "off"]
        /\ broken' = [broken EXCEPT ![j] = TRUE]
  /\ UNCHANGED <<job, flag, persisted, reading>>
  /\ UNCHANGED recovery /\ UNCHANGED table /\ UNCHANGED bounds

\* persist_scan_run: a new run row, in its own transaction.
PersistRun(w) ==
  /\ pc[w] = "persist"
  /\ persisted' = [persisted EXCEPT ![job[w]] = TRUE]
  /\ Goto(w, "complete")
  /\ UNCHANGED <<job, flag, beat, reading, broken>>
  /\ UNCHANGED recovery /\ UNCHANGED table /\ UNCHANGED bounds

Unguarded(j) == TRUE                \* mutant: no WHERE status = 'running'

\* The WHERE clause of every completion: it asks for no worker_id.
StillRunning(j) == status[j] = "running"

\* The row becomes terminal and loses its owner.
EndJob(j, s, code) ==
  /\ status' = [status EXCEPT ![j] = s]
  /\ failure' = [failure EXCEPT ![j] = code]
  /\ owner' = [owner EXCEPT ![j] = None]
  /\ lease' = [lease EXCEPT ![j] = None]

\* complete_application_job_success / complete_application_job_canceled: when
\* the row is not running any more the job "fails" with that error.
CompleteAs(w, l, s, code) ==
  LET j == job[w] IN
  /\ pc[w] = l
  /\ IF StillRunning(j)
       THEN /\ EndJob(j, s, code)
            /\ cancelRequested' = [cancelRequested EXCEPT ![j] = FALSE]
            /\ Leave(w)
       ELSE /\ Goto(w, "fail")
            /\ UNCHANGED <<status, failure, owner, lease, cancelRequested, job, flag>>
  /\ beat' = [beat EXCEPT ![w] = "off"]
  /\ UNCHANGED <<order, attempts, persisted, reading, broken>>
  /\ UNCHANGED bounds /\ UNCHANGED recovery

Complete(w) == CompleteAs(w, "complete", "succeeded", None)
CancelRunning(w) == CompleteAs(w, "cancel", "canceled", "canceled")

\* fail_job: complete_scan_job_failure, its error ignored.
FailJob(w) ==
  LET j == job[w] IN
  /\ pc[w] = "fail"
  /\ IF StillRunning(j)
       THEN EndJob(j, "failed", "error")
       ELSE UNCHANGED <<status, failure, owner, lease>>
  /\ Leave(w)
  /\ UNCHANGED <<order, attempts, cancelRequested, persisted, beat>>
  /\ UNCHANGED <<reading, broken>> /\ UNCHANGED bounds /\ UNCHANGED recovery

-----------------------------------------------------------------------------
(* Heartbeats, leases and lost workers.                                     *)

\* Every interval: stop once the flag is set, else look for a cancel request ...
HeartbeatRead(w) ==
  /\ beat[w] = "sleep"
  /\ IF flag[w]
       THEN beat' = [beat EXCEPT ![w] = "off"] /\ UNCHANGED flag
       ELSE /\ beat' = [beat EXCEPT ![w] = "renew"]
            /\ flag' = [flag EXCEPT ![w] = CancelSeen(job[w])]
  /\ UNCHANGED <<pc, job, persisted, reading, broken>>
  /\ UNCHANGED recovery /\ UNCHANGED table /\ UNCHANGED bounds

Anyone(w, j) == TRUE                \* mutant: neither worker nor status is compared

Holds(w, j) == status[j] = "running" /\ owner[j] = w

\* ... and renew the lease, if the row is still running for this worker.
HeartbeatRenew(w) ==
  LET j == job[w] IN
  /\ beat[w] = "renew"
  /\ lease' = IF Holds(w, j) THEN [lease EXCEPT ![j] = "live"] ELSE lease
  /\ beat' = [beat EXCEPT ![w] = IF Holds(w, j) THEN "sleep" ELSE "off"]
  /\ UNCHANGED <<order, status, attempts, owner, cancelRequested, failure, persisted>>
  /\ UNCHANGED <<pc, job, flag, reading, broken>> /\ UNCHANGED bounds /\ UNCHANGED recovery

\* The renewal fails (database busy, connection lost): the heartbeat ends, the
\* execution goes on.
HeartbeatLost(w) ==
  /\ beat[w] = "renew"
  /\ stalls < MaxStalls /\ EventsLeft
  /\ stalls' = stalls + 1
  /\ beat' = [beat EXCEPT ![w] = "off"]
  /\ UNCHANGED <<pc, job, flag, persisted, reading, broken, crashes, cancels>>
  /\ UNCHANGED table /\ UNCHANGED recovery

\* Another statement of the worker fails: polling goes on without it, a claimed
\* job is reported failed, and a failure that cannot be reported is dropped.
StatementLost(w) ==
  /\ stalls < MaxStalls /\ EventsLeft
  /\ stalls' = stalls + 1
  /\ \/ pc[w] \in {"poll", "recover"} /\ Goto(w, "claim") /\ UNCHANGED <<job, flag, beat>>
     \/ pc[w] \in {"claim", "fail"} /\ Leave(w) /\ UNCHANGED beat
     \/ /\ pc[w] \in {"start", "persist", "complete", "cancel"}
        /\ Goto(w, "fail")
        /\ beat' = [beat EXCEPT ![w] = "off"]
        /\ UNCHANGED <<job, flag>>
  /\ seen' = [seen EXCEPT ![w] = NothingSeen]
  /\ UNCHANGED <<persisted, overtaken, backend, reading, broken, crashes, cancels>>
  /\ UNCHANGED table

\* The owner's heartbeat for this job is running, or has just been aborted to
\* report a failure: the lease it renewed last has time left.
Attended(j) ==
  \E w \in Workers : owner[j] = w /\ job[w] = j /\ (beat[w] # "off" \/ pc[w] = "fail")

Expire(j) ==
  /\ status[j] = "running" /\ lease[j] = "live"
  /\ ~Attended(j)
  /\ lease' = [lease EXCEPT ![j] = "expired"]
  /\ UNCHANGED <<order, status, attempts, owner, cancelRequested, failure, persisted>>
  /\ UNCHANGED <<reading, broken>> /\ UNCHANGED workers /\ UNCHANGED bounds

\* Heartbeat or failure report are delayed beyond the lease duration.
Stall(j) ==
  /\ status[j] = "running" /\ lease[j] = "live"
  /\ Attended(j)
  /\ stalls < MaxStalls /\ EventsLeft
  /\ stalls' = stalls + 1
  /\ lease' = [lease EXCEPT ![j] = "expired"]
  /\ UNCHANGED <<order, status, attempts, owner, cancelRequested, failure, persisted>>
  /\ UNCHANGED <<reading, broken, crashes, cancels>> /\ UNCHANGED workers

\* The server process dies and starts again: a new worker takes the place.
Crash(w) ==
  /\ pc[w] # "poll"
  /\ crashes < MaxCrashes /\ EventsLeft
  /\ crashes' = crashes + 1
  /\ Leave(w)
  /\ beat' = [beat EXCEPT ![w] = "off"]
  /\ seen' = [seen EXCEPT ![w] = NothingSeen]
  /\ UNCHANGED <<persisted, overtaken, backend, reading, broken, stalls, cancels>>
  /\ UNCHANGED table

-----------------------------------------------------------------------------
(* request_cancel_job: read the row, then a conditional update.             *)

\* Mutant: a row that does not exist is read.
CancelReadMissing(j) ==
  /\ reading[j] = None
  /\ cancels < MaxCancels /\ EventsLeft
  /\ cancels' = cancels + 1
  /\ reading' = [reading EXCEPT ![j] = status[j]]
  /\ UNCHANGED <<persisted, broken, crashes, stalls>> /\ UNCHANGED table /\ UNCHANGED workers

CancelRead(j) ==
  /\ reading[j] = None /\ status[j] # "none"
  /\ cancels < MaxCancels /\ EventsLeft
  /\ cancels' = cancels + 1
  /\ reading' = [reading EXCEPT ![j] = status[j]]
  /\ UNCHANGED <<persisted, broken, crashes, stalls>> /\ UNCHANGED table /\ UNCHANGED workers

CancelApply(j) ==
  /\ reading[j] # None
  /\ reading' = [reading EXCEPT ![j] = None]
  /\ \/ /\ reading[j] = "queued" /\ status[j] = "queued"
        /\ status' = [status EXCEPT ![j] = "canceled"]
        /\ failure' = [failure EXCEPT ![j] = "canceled"]
        /\ UNCHANGED cancelRequested
     \/ /\ reading[j] = "running" /\ status[j] = "running"
        /\ cancelRequested' = [cancelRequested EXCEPT ![j] = TRUE]
        /\ UNCHANGED <<status, failure>>
     \/ /\ reading[j] \in Terminal \/ reading[j] # status[j]
        /\ UNCHANGED <<status, failure, cancelRequested>>
  /\ UNCHANGED <<order, attempts, owner, lease, persisted, broken>>
  /\ UNCHANGED workers /\ UNCHANGED bounds

-----------------------------------------------------------------------------

WorkerStep(w) ==
  \/ RecoverStale(w) \/ RecoverSelect(w) \/ RecoverCommit(w)
  \/ (\E j \in Jobs : RecoverMiss(w, j) \/ Claim(w, j)) \/ NothingQueued(w)
  \/ StartJob(w) \/ Work(w) \/ PersistRun(w)
  \/ Complete(w) \/ CancelRunning(w) \/ FailJob(w)

HeartbeatStep(w) == HeartbeatRead(w) \/ HeartbeatRenew(w)

Next ==
  \/ \E j \in Jobs : Submit(j) \/ Expire(j) \/ Stall(j) \/ CancelRead(j) \/ CancelApply(j)
  \/ \E w \in Workers : WorkerStep(w) \/ HeartbeatStep(w) \/ HeartbeatLost(w) \/ StatementLost(w)
                        \/ Crash(w)

Spec == Init /\ [][Next]_vars

\* The runtime polls workers, executions end, time passes.  Nothing is asked of
\* heartbeats: one that is not polled renews nothing.
FairSpec == /\ Spec
            /\ \A w \in Workers : WF_vars(WorkerStep(w))
            /\ WF_vars(\E j \in Jobs : Expire(j))

-----------------------------------------------------------------------------
(* Properties.                                                              *)

TypeOK ==
  /\ order \in Seq(Jobs)
  /\ status \in [Jobs -> Status]
  /\ attempts \in [Jobs -> Nat]
  /\ owner \in [Jobs -> Workers \cup {None}]
  /\ lease \in [Jobs -> {"live", "expired", None}]
  /\ cancelRequested \in [Jobs -> BOOLEAN]
  /\ failure \in [Jobs -> {None, "error", "canceled", "job_retries_exhausted"}]
  /\ persisted \in [Jobs -> BOOLEAN]
  /\ pc \in [Workers -> WorkerPCs]
  /\ job \in [Workers -> Jobs \cup {None}]
  /\ seen \in [Workers -> [Jobs -> Nat]]
  /\ overtaken \in SUBSET Jobs
  /\ backend \in {"sqlite", "postgres"}
  /\ flag \in [Workers -> BOOLEAN]
  /\ beat \in [Workers -> {"off", "sleep", "renew"}]
  /\ reading \in [Jobs -> (Status \ {"none"}) \cup {None}]
  /\ broken \in [Jobs -> BOOLEAN]
  /\ crashes \in 0 .. MaxCrashes
  /\ stalls \in 0 .. MaxStalls
  /\ cancels \in 0 .. MaxCancels

KeepsTerminalRows ==
  \A j \in Jobs : status[j] \in Terminal =>
    /\ status'[j] = status[j] /\ failure'[j] = failure[j]
    /\ owner'[j] = owner[j] /\ lease'[j] = lease[j]

\* A terminal job stays as it is: no stale worker, late heartbeat, recovery or
\* cancel request changes its status, its failure code or its owner.
TerminalIsFinal == [][KeepsTerminalRows]_vars

\* The one thing that goes wrong with recovery, on Postgres only: a worker has
\* read the row of j as stale, another one recovered and claimed it, and then the
\* first one's UPDATE took it away again.
Overtaken(j) == backend = "postgres" /\ j \in overtaken

\* "Maximum claim attempts (including retries after stale recovery)": no claim
\* looks at the limit, recovery alone has to keep it, also for jobs whose
\* worker lost its lease and came back.  It does on SQLite, and on Postgres for
\* every job that no recovery overtook.
AttemptLimit ==
  \A j \in Jobs : \/ Overtaken(j)
                  \/ /\ attempts[j] <= MaxAttempts
                     /\ status[j] = "queued" => attempts[j] < MaxAttempts

\* A running row always has an owner and a lease, so recovery can find it, and
\* no other row has: a late heartbeat cannot revive a row that was taken away.
RunningIsLeased ==
  \A j \in Jobs : /\ status[j] = "running" <=> owner[j] # None
                  /\ status[j] = "running" <=> lease[j] # None

\* A scan job that succeeded has a persisted run, whoever completed it.
SucceededScanHasRun ==
  \A j \in Scans : status[j] = "succeeded" => persisted[j]

\* A worker executes a job only while the job's row names it.
OwnersExecute ==
  \A w \in Workers : pc[w] \in Executing => owner[job[w]] = w

\* Unless a renewal came too late, a statement failed or a client cancelled, a
\* job is executed by one worker at a time, the one its row names, whoever
\* crashes.  (On Postgres: unless a recovery overtook it.)
ExclusiveExecution ==
  stalls = 0 /\ cancels = 0 =>
    \A w \in Workers : pc[w] \in Executing => owner[job[w]] = w \/ Overtaken(job[w])

\* Under the same condition a job is reported failed with an error only when an
\* execution of it failed: no worker completes a row under another one.  (Jobs
\* whose workers were lost end as job_retries_exhausted.)
FailureIsReal ==
  stalls = 0 /\ cancels = 0 =>
    \A j \in Jobs : failure[j] = "error" => broken[j] \/ Overtaken(j)

\* Every submitted job comes to an end, whatever workers crash or stall on it.
EveryJobTerminates == \A j \in Jobs : status[j] = "queued" ~> status[j] \in Terminal

-----------------------------------------------------------------------------
(* What the repository says and the code does not do.                       *)

\* job_recovery.rs: the worker "renews the lease while a scan runs", so a lease
\* is not lost under a healthy worker because somebody asked for a cancel.
LeaseOutlivesCancel == stalls = 0 => OwnersExecute

=============================================================================
