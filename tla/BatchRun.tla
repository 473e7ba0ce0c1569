------------------------------ MODULE BatchRun ------------------------------
(***************************************************************************)
(* One batch run of the orchestrator (crates/parqonaut-orchestrator) over  *)
(* local datasets: run.rs starts or resumes the process, the scheduler     *)
(* runs at most Jobs dataset tasks, each task is                           *)
(* execute_dataset_with_retries around execute_dataset_once and            *)
(* RepairExecutor::execute, and every state change goes to the journal.    *)
(*                                                                         *)
(* The process can crash at any step; the journal, the lock files and the  *)
(* output directories survive, the cancel flag, the scheduler and the      *)
(* attempt counters in memory do not.  What else can go wrong is a fault:  *)
(* the constant Faults says which kinds happen, MaxFaults how often.       *)
(***************************************************************************)
EXTENDS Naturals, FiniteSets

CONSTANTS Datasets,     \* 1 .. n, in plan order
          Jobs,         \* max_concurrency
          MaxAttempts,  \* max_retries + 1
          Faults,       \* kinds of fault that may happen
          MaxFaults,    \* bound on their number
          None

ASSUME DatasetsAssumption == Datasets \subseteq Nat
ASSUME JobsAssumption == Jobs \in Nat \ {0}
ASSUME AttemptsAssumption == MaxAttempts \in Nat \ {0}
ASSUME FaultsAssumption ==
  /\ Faults \subseteq {"crash", "sigint", "io", "verify", "journal", "source", "panic"}
  /\ MaxFaults \in Nat

DatasetState == {"pending", "planning_validated", "running", "repair_complete", "verifying",
                 "succeeded", "blocked", "failed_recoverable", "failed_permanent",
                 "cancelled", "stale_source", "verification_failed"}
ASSUME NoneAssumption == None \notin DatasetState /\ None \notin {0, 2, 130}

IsTerminal(s) == s \in {"succeeded", "blocked", "failed_permanent", "cancelled",
                        "verification_failed", "stale_source"}

RecoverAfterCrash(s) ==
  IF s \in {"running", "repair_complete", "verifying", "planning_validated"}
    THEN "failed_recoverable" ELSE s

VARIABLES
  \* durable
  row,         \* journal: state of each dataset, None without a row
  tries,       \* journal: attempts of each dataset
  completedAt, \* journal: run marked completed
  cancelledAt, \* journal: run marked cancelled
  lockFile,    \* {output}.parqonaut.lock: None, "empty" (created) or "owned"
  out,         \* output directory: "absent", "partial", "copied", "complete"
  checked,     \* verify_repair of the output: "no", "passed", "failed"
  source,      \* "planned" or "changed" since planning
  \* the process
  proc,        \* "new", "up", "down" (crashed), "exited"
  exitCode,    \* of the last process that ran to its end
  cancel,      \* CancelFlag
  pending,     \* tasks not yet spawned
  pc,          \* what each dataset task does next
  attempt,     \* attempts counter of each task
  err,         \* class of the attempt's failure
  outcome,     \* DatasetExecutionOutcome.state of each task
  \* observations
  made,        \* attempts really made at each dataset, by all processes
  lapsed,      \* datasets whose attempts the journal failed to store or to report
  starts,      \* processes that executed datasets
  faults       \* faults so far

durable == <<row, tries, made, lapsed, completedAt, cancelledAt, lockFile, out, checked, source>>
vars == <<row, tries, made, lapsed, completedAt, cancelledAt, lockFile, out, checked, source,
          proc, exitCode, cancel, pending, pc, attempt, err, outcome, starts, faults>>

Repairing == {"exists", "recheck", "seed", "mkdir", "copy", "verify", "manifest"}
Locked == {"fingerprint", "unlock"} \cup Repairing
TaskPCs == {"off", "spawned", "loop", "lock", "lockWrite", "record", "ended"} \cup Locked

Init ==
  /\ row = [d \in Datasets |-> None]
  /\ tries = [d \in Datasets |-> 0]
  /\ made = [d \in Datasets |-> 0] /\ lapsed = {}
  /\ completedAt = FALSE /\ cancelledAt = FALSE
  /\ lockFile = [d \in Datasets |-> None]
  /\ out = [d \in Datasets |-> "absent"]
  /\ checked = [d \in Datasets |-> "no"]
  /\ source = [d \in Datasets |-> "planned"]
  /\ proc = "new" /\ exitCode = None /\ cancel = FALSE
  /\ pending = {}
  /\ pc = [d \in Datasets |-> "off"]
  /\ attempt = [d \in Datasets |-> 0]
  /\ err = [d \in Datasets |-> "none"]
  /\ outcome = [d \in Datasets |-> None]
  /\ starts = 0 /\ faults = 0

Goto(d, l) == pc' = [pc EXCEPT ![d] = l]

\* A fault of kind k happens in this step.
Fault(k) == k \in Faults /\ faults < MaxFaults /\ faults' = faults + 1

\* upsert_record: a failed journal write is logged and otherwise ignored.
Upsert(d, s) ==
  \/ /\ row' = [row EXCEPT ![d] = s]
     /\ tries' = [tries EXCEPT ![d] = attempt'[d]]
     /\ UNCHANGED <<lapsed, faults>>
  \/ /\ Fault("journal")
     /\ lapsed' = lapsed \cup {d}
     /\ UNCHANGED <<row, tries>>

-----------------------------------------------------------------------------
(* The run's process: execute_batch_plan, resume_batch, the scheduler loop.  *)

StartFresh ==
  /\ proc = "new"
  /\ proc' = "up"
  /\ pending' = Datasets
  /\ starts' = starts + 1
  /\ UNCHANGED <<exitCode, cancel, pc, attempt, err, outcome, faults>>
  /\ UNCHANGED durable

AllJournalled == \A d \in Datasets : row[d] # None      \* mutant: any row will do

RunIsComplete == \A d \in Datasets : row[d] # None /\ IsTerminal(row[d])

\* resume_batch of a finished run: nothing is executed.
ResumeCompleted ==
  /\ proc \in {"down", "exited"}
  /\ RunIsComplete
  /\ completedAt' = TRUE
  /\ proc' = "exited"
  /\ exitCode' = None        \* already_completed: the CLI returns without a verdict
  /\ UNCHANGED <<row, tries, made, lapsed, cancelledAt, lockFile, out, checked, source>>
  /\ UNCHANGED <<cancel, pending, pc, attempt, err, outcome, starts, faults>>

Everything(s) == TRUE               \* mutant

Unfinished(s) == ~IsTerminal(s)

RecoverJournalStates == row' = [d \in Datasets |-> RecoverAfterCrash(row[d])]

\* resume_batch otherwise: recover_journal_states, then every dataset whose row
\* is not terminal is scheduled again.
Resume ==
  /\ proc \in {"down", "exited"}
  /\ ~RunIsComplete
  /\ proc' = "up"
  /\ RecoverJournalStates
  /\ pending' = {d \in Datasets : Unfinished(row'[d])}
  /\ outcome' = [d \in Datasets |-> IF IsTerminal(row'[d]) THEN row'[d] ELSE None]
  /\ cancel' = FALSE
  /\ pc' = [d \in Datasets |-> "off"]
  /\ attempt' = [d \in Datasets |-> 0]
  /\ err' = [d \in Datasets |-> "none"]
  /\ starts' = starts + 1
  /\ UNCHANGED <<tries, made, lapsed, completedAt, cancelledAt, lockFile, out, checked, source>>
  /\ UNCHANGED <<exitCode, faults>>

\* Mutant: an ended task keeps its place.
EverSpawned == {d \in Datasets : pc[d] # "off"}

Spawned == {d \in Datasets : pc[d] \notin {"off", "ended"}}

\* run_bounded_cancellable spawns the next task of the plan.
Spawn(d) ==
  /\ proc = "up"
  /\ ~cancel
  /\ d \in pending /\ \A e \in pending : d <= e
  /\ Cardinality(Spawned) < Jobs
  /\ pending' = pending \ {d}
  /\ Goto(d, "spawned")
  /\ UNCHANGED <<proc, exitCode, cancel, attempt, err, outcome, starts, faults>>
  /\ UNCHANGED durable

\* Mutants: an undocumented code, and failed_permanent taken for success.
ExitOne == IF \A d \in Datasets : outcome[d] \in {None, "succeeded"} THEN 0 ELSE 1
ExitTerminal ==
  IF \A d \in Datasets : outcome[d] = None \/ IsTerminal(outcome[d]) THEN 0 ELSE 2

\* The CLI's verdict over the outcomes it was given.
ExitCode == IF \A d \in Datasets : outcome[d] \in {None, "succeeded"} THEN 0 ELSE 2

\* The tasks are drained: mark the run, print the result, exit.
Finish ==
  /\ proc = "up"
  /\ cancel \/ pending = {}
  /\ Spawned = {}
  /\ proc' = "exited"
  /\ IF cancel
       THEN cancelledAt' = TRUE /\ exitCode' = 130 /\ UNCHANGED completedAt
       ELSE /\ completedAt' = (completedAt \/ RunIsComplete)
            /\ exitCode' = ExitCode
            /\ UNCHANGED cancelledAt
  /\ UNCHANGED <<row, tries, made, lapsed, lockFile, out, checked, source>>
  /\ UNCHANGED <<cancel, pending, pc, attempt, err, outcome, starts, faults>>

\* SIGINT, or interrupt_after_completed.
Sigint ==
  /\ proc = "up" /\ ~cancel
  /\ Fault("sigint")
  /\ cancel' = TRUE
  /\ UNCHANGED <<proc, exitCode, pending, pc, attempt, err, outcome, starts>>
  /\ UNCHANGED durable

Crash ==
  /\ proc = "up"
  /\ Fault("crash")
  /\ proc' = "down"
  /\ pending' = {}
  /\ pc' = [d \in Datasets |-> "off"]
  /\ UNCHANGED <<exitCode, cancel, attempt, err, outcome, starts>>
  /\ UNCHANGED durable

\* Somebody writes to the source dataset.
SourceChanges(d) ==
  /\ source[d] = "planned"
  /\ Fault("source")
  /\ source' = [source EXCEPT ![d] = "changed"]
  /\ UNCHANGED <<row, tries, made, lapsed, completedAt, cancelledAt, lockFile, out, checked>>
  /\ UNCHANGED <<proc, exitCode, cancel, pending, pc, attempt, err, outcome, starts>>

-----------------------------------------------------------------------------
(* The dataset task: execute_dataset_with_retries.                          *)

process == <<proc, exitCode, cancel, pending, starts>>

\* The attempts made so far are the journal's; a journal that cannot be read
\* counts as none.
Begin(d) ==
  /\ pc[d] = "spawned"
  /\ \/ /\ cancel
        /\ outcome' = [outcome EXCEPT ![d] = IF row[d] = None THEN "cancelled" ELSE row[d]]
        /\ Goto(d, "ended") /\ UNCHANGED <<attempt, lapsed, faults>>
     \/ /\ ~cancel
        /\ \/ attempt' = [attempt EXCEPT ![d] = tries[d]] /\ UNCHANGED <<lapsed, faults>>
           \/ /\ Fault("journal")
              /\ attempt' = [attempt EXCEPT ![d] = 0] /\ lapsed' = lapsed \cup {d}
        /\ Goto(d, "loop") /\ UNCHANGED outcome
  /\ UNCHANGED <<row, tries, made, completedAt, cancelledAt, lockFile, out, checked, source, err>>
  /\ UNCHANGED process

LoopHead(d) ==
  /\ pc[d] = "loop"
  /\ IF cancel
       THEN /\ UNCHANGED <<attempt, made>>
            /\ Upsert(d, "cancelled")
            /\ outcome' = [outcome EXCEPT ![d] = "cancelled"]
            /\ Goto(d, "ended")
       ELSE /\ attempt' = [attempt EXCEPT ![d] = @ + 1]
            /\ made' = [made EXCEPT ![d] = @ + 1]
            /\ Upsert(d, "planning_validated")
            /\ Goto(d, "lock") /\ UNCHANGED outcome
  /\ err' = [err EXCEPT ![d] = "none"]
  /\ UNCHANGED <<completedAt, cancelledAt, lockFile, out, checked, source>>
  /\ UNCHANGED process

\* The classes execute_dataset_once can return for a local dataset: an error of
\* an operation, missing authorization included, arrives as PartialExecution.
FailureState(class) ==
  CASE class = "recoverable" -> "failed_recoverable"
    [] class = "permanent"   -> "failed_permanent"
    [] class = "stale"       -> "stale_source"

RetryOnceMore(d) == err[d] = "recoverable" /\ attempt[d] <= MaxAttempts    \* mutant

MayRetry(d) == err[d] = "recoverable" /\ attempt[d] < MaxAttempts

\* The attempt is over and the output lock is gone: journal the result and
\* retry a recoverable failure while attempts remain.
Record(d) ==
  /\ pc[d] = "record"
  /\ LET s == IF err[d] = "none" THEN "succeeded" ELSE FailureState(err[d])
     IN /\ UNCHANGED attempt
        /\ Upsert(d, s)
        /\ Goto(d, IF MayRetry(d) THEN "loop" ELSE "ended")
        /\ outcome' = [outcome EXCEPT ![d] = IF MayRetry(d) THEN @ ELSE s]
  /\ UNCHANGED <<made, completedAt, cancelledAt, lockFile, out, checked, source, err>>
  /\ UNCHANGED process

-----------------------------------------------------------------------------
(* DatasetLock::acquire_inner: create_new, then write the owner.            *)

\* An own lock is stale by assumption and replaced; any other content, an empty
\* file or an own lock that cannot be removed included, is LockHeld, a permanent
\* failure, and so is any other error of creating it.
LockCreate(d) ==
  /\ pc[d] = "lock"
  /\ \/ /\ lockFile[d] \in {None, "owned"}
        /\ lockFile' = [lockFile EXCEPT ![d] = "empty"]
        /\ Goto(d, "lockWrite") /\ UNCHANGED <<err, faults>>
     \/ /\ (lockFile[d] = "empty" /\ UNCHANGED faults) \/ Fault("io")
        /\ err' = [err EXCEPT ![d] = "permanent"]
        /\ Goto(d, "record") /\ UNCHANGED lockFile
  /\ UNCHANGED <<row, tries, made, lapsed, completedAt, cancelledAt, out, checked, source>>
  /\ UNCHANGED <<attempt, outcome>> /\ UNCHANGED process

LockWrite(d) ==
  /\ pc[d] = "lockWrite"
  /\ \/ /\ lockFile' = [lockFile EXCEPT ![d] = "owned"]
        /\ Goto(d, "fingerprint")
        /\ UNCHANGED <<err, faults>>
     \/ /\ Fault("io")              \* no DatasetLock value, so no Drop either
        /\ err' = [err EXCEPT ![d] = "permanent"]
        /\ Goto(d, "record") /\ UNCHANGED lockFile
  /\ UNCHANGED <<row, tries, made, lapsed, completedAt, cancelledAt, out, checked, source>>
  /\ UNCHANGED <<attempt, outcome>> /\ UNCHANGED process

\* Drop for DatasetLock: a file that cannot be removed stays, and nobody hears of it.
DropLock(d) ==
  \/ lockFile' = [lockFile EXCEPT ![d] = None] /\ UNCHANGED faults
  \/ Fault("io") /\ UNCHANGED lockFile

Unlock(d) ==
  /\ pc[d] = "unlock"
  /\ DropLock(d)
  /\ Goto(d, "record")
  /\ UNCHANGED <<row, tries, made, lapsed, completedAt, cancelledAt, out, checked, source>>
  /\ UNCHANGED <<attempt, err, outcome>> /\ UNCHANGED process

-----------------------------------------------------------------------------
(* The attempt under the lock: verify_source_fingerprint, then              *)
(* RepairExecutor::execute.                                                 *)

AttemptFails(d, class) ==
  /\ err' = [err EXCEPT ![d] = class]
  /\ Goto(d, "unlock")

\* The scan of the source panics in the task: unwinding drops the lock, the
\* scheduler drops the task without an outcome.
Panic(d) ==
  /\ pc[d] = "fingerprint"
  /\ Fault("panic")
  /\ \/ lockFile' = [lockFile EXCEPT ![d] = None]
     \/ "io" \in Faults /\ UNCHANGED lockFile
  /\ Goto(d, "ended")
  /\ UNCHANGED <<row, tries, made, lapsed, completedAt, cancelledAt, out, checked, source>>
  /\ UNCHANGED <<attempt, err, outcome>> /\ UNCHANGED process

VerifySourceFingerprint(d) ==
  /\ pc[d] = "fingerprint"
  /\ \/ /\ source[d] = "planned"
        /\ UNCHANGED attempt
        /\ Upsert(d, "running")
        /\ Goto(d, "exists") /\ UNCHANGED err
     \/ /\ source[d] = "changed"
        /\ AttemptFails(d, "stale")
        /\ UNCHANGED <<row, tries, lapsed, attempt, faults>>
     \/ /\ Fault("io")
        /\ \E class \in {"recoverable", "permanent"} : AttemptFails(d, class)
        /\ UNCHANGED <<row, tries, lapsed, attempt>>
  /\ UNCHANGED <<made, completedAt, cancelledAt, lockFile, out, checked, source, outcome>>
  /\ UNCHANGED process

\* Everything one repair step leaves alone.
RepairFrame == /\ UNCHANGED <<row, tries, made, lapsed, completedAt, cancelledAt, lockFile, source>>
               /\ UNCHANGED <<attempt, outcome>> /\ UNCHANGED process

OutputFinished(d) == out[d] = "complete"       \* mutant: partial outputs are built over

OutputExists(d) == out[d] # "absent"

CheckOutput(d) ==
  /\ pc[d] = "exists"
  /\ IF OutputExists(d)
       THEN AttemptFails(d, "permanent")
       ELSE Goto(d, "recheck") /\ UNCHANGED err
  /\ UNCHANGED <<out, checked, faults>> /\ RepairFrame

\* The fingerprint of the scan taken for the repair: DatasetChanged.
RecheckFingerprint(d) ==
  /\ pc[d] = "recheck"
  /\ \/ source[d] = "planned" /\ Goto(d, "seed") /\ UNCHANGED <<err, faults>>
     \/ source[d] = "changed" /\ AttemptFails(d, "stale") /\ UNCHANGED faults
     \/ Fault("io") /\ AttemptFails(d, "permanent")
  /\ UNCHANGED <<out, checked>> /\ RepairFrame

\* Seed the staging directory and run the operations in it; a panic there is a
\* join error.
RunOperations(d) ==
  /\ pc[d] = "seed"
  /\ \/ Goto(d, "mkdir") /\ UNCHANGED <<err, faults>>
     \/ Fault("io") /\ \E class \in {"recoverable", "permanent"} : AttemptFails(d, class)
  /\ UNCHANGED <<out, checked>> /\ RepairFrame

CreateOutput(d) ==
  /\ pc[d] = "mkdir"
  /\ \/ /\ out' = [out EXCEPT ![d] = "partial"]
        /\ Goto(d, "copy") /\ UNCHANGED <<err, faults>>
     \/ Fault("io") /\ AttemptFails(d, "recoverable") /\ UNCHANGED out
  /\ UNCHANGED checked /\ RepairFrame

CopyWorkToOutput(d) ==
  /\ pc[d] = "copy"
  /\ \/ /\ out' = [out EXCEPT ![d] = "copied"]
        /\ Goto(d, "verify") /\ UNCHANGED <<err, faults>>
     \/ Fault("io") /\ AttemptFails(d, "recoverable") /\ UNCHANGED out
  /\ UNCHANGED checked /\ RepairFrame

\* scan_directory(output) may fail; verify_repair reports Failed when rows were
\* lost or a file became unreadable, and the executor goes on either way.
VerifyRepair(d) ==
  /\ pc[d] = "verify"
  /\ \/ /\ checked' = [checked EXCEPT ![d] = "passed"]
        /\ Goto(d, "manifest") /\ UNCHANGED <<err, faults>>
     \/ /\ Fault("verify")
        /\ checked' = [checked EXCEPT ![d] = "failed"]
        /\ Goto(d, "manifest") /\ UNCHANGED err
     \/ Fault("io") /\ AttemptFails(d, "permanent") /\ UNCHANGED checked
  /\ UNCHANGED out /\ RepairFrame

\* Mutant: the error of the manifest write is dropped.
WriteManifestUnchecked(d) ==
  /\ pc[d] = "manifest"
  /\ Goto(d, "unlock") /\ UNCHANGED err
  /\ \/ out' = [out EXCEPT ![d] = "complete"] /\ UNCHANGED faults
     \/ Fault("io") /\ UNCHANGED out
  /\ UNCHANGED checked /\ RepairFrame

WriteManifest(d) ==
  /\ pc[d] = "manifest"
  /\ \/ /\ out' = [out EXCEPT ![d] = "complete"]
        /\ Goto(d, "unlock") /\ UNCHANGED <<err, faults>>
     \/ Fault("io") /\ AttemptFails(d, "recoverable") /\ UNCHANGED out
  /\ UNCHANGED checked /\ RepairFrame

-----------------------------------------------------------------------------

Task(d) ==
  \/ Begin(d) \/ LoopHead(d) \/ Record(d)
  \/ LockCreate(d) \/ LockWrite(d) \/ Unlock(d)
  \/ VerifySourceFingerprint(d) \/ CheckOutput(d) \/ RecheckFingerprint(d)
  \/ RunOperations(d) \/ CreateOutput(d) \/ CopyWorkToOutput(d)
  \/ VerifyRepair(d) \/ WriteManifest(d)

Next ==
  \/ StartFresh \/ ResumeCompleted \/ Resume \/ Finish \/ Sigint \/ Crash
  \/ \E d \in Datasets : Spawn(d) \/ Task(d) \/ Panic(d) \/ SourceChanges(d)

Spec == Init /\ [][Next]_vars

\* The runtime keeps polling the tasks, and an operator resumes the run until
\* it is complete.
FairSpec == /\ Spec
            /\ WF_vars(StartFresh) /\ WF_vars(Resume) /\ WF_vars(ResumeCompleted)
            /\ WF_vars(Finish)
            /\ \A d \in Datasets : WF_vars(Spawn(d)) /\ WF_vars(Task(d))

-----------------------------------------------------------------------------
(* Properties.                                                              *)

TypeOK ==
  /\ row \in [Datasets -> DatasetState \cup {None}]
  /\ tries \in [Datasets -> Nat]
  /\ made \in [Datasets -> Nat] /\ lapsed \subseteq Datasets
  /\ completedAt \in BOOLEAN /\ cancelledAt \in BOOLEAN
  /\ lockFile \in [Datasets -> {None, "empty", "owned"}]
  /\ out \in [Datasets -> {"absent", "partial", "copied", "complete"}]
  /\ checked \in [Datasets -> {"no", "passed", "failed"}]
  /\ source \in [Datasets -> {"planned", "changed"}]
  /\ proc \in {"new", "up", "down", "exited"}
  /\ exitCode \in {None, 0, 2, 130}
  /\ cancel \in BOOLEAN
  /\ pending \subseteq Datasets
  /\ pc \in [Datasets -> TaskPCs]
  /\ attempt \in [Datasets -> Nat]
  /\ err \in [Datasets -> {"none", "recoverable", "permanent", "stale"}]
  /\ outcome \in [Datasets -> DatasetState \cup {None}]
  /\ starts \in Nat
  /\ faults \in 0 .. MaxFaults

\* The journal says Succeeded only of a dataset whose output is complete, with
\* its manifest, whatever crashed before.
SucceededHasOutput == \A d \in Datasets : row[d] = "succeeded" => out[d] = "complete"

\* "without duplicating committed repairs": a dataset journalled Succeeded keeps
\* its row and is not scheduled again by any resume.
SucceededIsFinal ==
  [][\A d \in Datasets : row[d] = "succeeded"
       => row'[d] = "succeeded" /\ tries'[d] = tries[d] /\ pc'[d] \in {"off", "ended"}]_vars

\* An output directory, once there, is never built again: attempts and resumes
\* only move it forward, from partial to copied to complete.
OutputBuiltOnce ==
  [][\A d \in Datasets : out'[d] # out[d] =>
       <<out[d], out'[d]>> \in {<<"absent", "partial">>, <<"partial", "copied">>,
                                <<"copied", "complete">>}]_vars

\* A run marked completed in the journal has a terminal row for every dataset,
\* and so a later resume is a no-op.
CompletedIsTerminal ==
  completedAt => \A d \in Datasets : row[d] # None /\ IsTerminal(row[d])

\* Retries are bounded across crashes.  At a dataset whose attempts the journal
\* always stored and reported, MaxAttempts attempts are made and one more for
\* every time the run was resumed; at any other, MaxAttempts by each process, for
\* a journal that forgets lets a resume start counting again.
AttemptBudget ==
  \A d \in Datasets : made[d] <= IF d \in lapsed THEN MaxAttempts * starts
                                                 ELSE MaxAttempts + starts - 1

\* Exit code 0 of a process that executed datasets means that every dataset the
\* verdict counts has its complete output, even when journal writes were lost
\* and attempts of earlier processes failed.  A panicked task has no outcome and
\* is not counted: the CLI looks only at the outcomes that exist.
ExitZeroMeansRepaired ==
  proc = "exited" /\ exitCode = 0
    => \A d \in Datasets : out[d] = "complete" \/ outcome[d] = None

\* An operator who keeps resuming gets the run completed, whatever combination
\* of crashes, failures and interrupts came before.
EventuallyCompleted == <>[]completedAt

-----------------------------------------------------------------------------
(* What the documentation says and the code does not do.                    *)

\* ADR-0010: "Partial repair failures must not masquerade as valid datasets":
\* what verify_repair reports as Failed is not journalled Succeeded.
SucceededIsVerified == \A d \in Datasets : row[d] = "succeeded" => checked[d] # "failed"

=============================================================================
