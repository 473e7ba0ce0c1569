--------------------------- MODULE BatchRunProofs ---------------------------
(***************************************************************************)
(* Proofs about BatchRun, for every number of datasets, concurrency, retry *)
(* limit, kind and number of faults.                                       *)
(***************************************************************************)
EXTENDS BatchRun, TLAPS

\* Tasks that are not running: not spawned yet, or at their end.
Inactive == {"off", "ended"}

\* Before the first process nothing is journalled and nobody runs; later, tasks
\* run only while the process does.
TasksNeedProcess(d) ==
  /\ proc = "new" => /\ row[d] = None /\ tries[d] = 0 /\ pc[d] = "off"
                     /\ made[d] = 0 /\ starts = 0
  /\ pc[d] \notin Inactive => proc = "up"

\* What is waiting to be spawned has no task and was not journalled Succeeded.
PendingIsOpen(d) == d \in pending => pc[d] = "off" /\ row[d] # "succeeded"

\* How far the output directory is at each step of the repair.
OutputAtStep(d) ==
  /\ pc[d] \in {"recheck", "seed", "mkdir"} => out[d] = "absent"
  /\ pc[d] = "copy" => out[d] = "partial"
  /\ pc[d] \in {"verify", "manifest"} => out[d] = "copied"

\* An attempt that ends without an error leaves a complete output.
GoodEndHasOutput(d) ==
  pc[d] \in {"unlock", "record"} /\ err[d] = "none" => out[d] = "complete"

\* A dataset journalled Succeeded has its output and no running task; an outcome
\* Succeeded has its output.
SucceededIsDone(d) ==
  /\ row[d] = "succeeded" => out[d] = "complete" /\ pc[d] \in Inactive
  /\ outcome[d] = "succeeded" => out[d] = "complete"

\* The journal knows every attempt made at a dataset it never failed to store or
\* report, and so does the task that read it.
JournalKnows(d) ==
  d \notin lapsed => /\ made[d] = tries[d]
                     /\ pc[d] \notin Inactive \cup {"spawned"} => attempt[d] = made[d]

\* A dataset this process has not tried yet is within the budget of the earlier
\* processes; at the head of the loop there is room for one attempt more.
WithinBudget(d) ==
  d \notin lapsed =>
    /\ made[d] + 1 <= MaxAttempts + starts
    /\ d \in pending \/ pc[d] \in {"spawned", "loop"} => made[d] + 2 <= MaxAttempts + starts

\* Whatever the journal forgot, a process makes MaxAttempts attempts at most: what
\* its counter has left is left in the budget of all the processes.
WithinEveryBudget(d) ==
  /\ made[d] <= MaxAttempts * starts
  /\ d \in pending \/ pc[d] = "spawned" => made[d] + MaxAttempts <= MaxAttempts * starts
  /\ pc[d] = "loop" => made[d] + 1 <= MaxAttempts * starts
  /\ pc[d] \notin Inactive \cup {"spawned"} /\ attempt[d] < MaxAttempts
       => made[d] + MaxAttempts - attempt[d] <= MaxAttempts * starts

\* Exit code 0 was given to these outcomes, and they are still the same.
ExitZeroSawSuccess(d) ==
  proc = "exited" /\ exitCode = 0 => outcome[d] \in {None, "succeeded"}

DatasetInv(d) ==
  /\ TasksNeedProcess(d) /\ PendingIsOpen(d) /\ OutputAtStep(d) /\ GoodEndHasOutput(d)
  /\ SucceededIsDone(d) /\ JournalKnows(d) /\ WithinBudget(d) /\ WithinEveryBudget(d)
  /\ ExitZeroSawSuccess(d)

\* A run is marked completed by the last thing its process does.
CompletedRunIsOver == completedAt => proc = "exited" /\ RunIsComplete

BatchInv ==
  /\ proc # "new" => starts >= 1
  /\ CompletedRunIsOver
  /\ \A d \in Datasets : DatasetInv(d)

-----------------------------------------------------------------------------

\* One step of the program leaves the type invariant in place.
LEMMA TypeStep == ASSUME TypeOK, [Next]_vars PROVE TypeOK'
<1> USE FaultsAssumption
    DEF TypeOK, TaskPCs, Locked, Repairing, Goto, Fault, durable, process
<1>1. CASE StartFresh
  BY <1>1 DEF StartFresh
<1>2. CASE ResumeCompleted
  BY <1>2 DEF ResumeCompleted
<1>3. CASE Resume
  <2>1. row' \in [Datasets -> DatasetState \cup {None}]
    BY <1>3 DEF Resume, RecoverJournalStates, RecoverAfterCrash, DatasetState
  <2>2. outcome' \in [Datasets -> DatasetState \cup {None}]
    BY <1>3, <2>1 DEF Resume
  <2>3. attempt' \in [Datasets -> Nat] /\ starts' \in Nat
    BY <1>3 DEF Resume
  <2>4. pending' \subseteq Datasets
    BY <1>3 DEF Resume
  <2>5. err' \in [Datasets -> {"none", "recoverable", "permanent", "stale"}]
    BY <1>3 DEF Resume
  <2>6. pc' \in [Datasets -> TaskPCs]
    BY <1>3 DEF Resume
  <2>7. QED
    BY <1>3, <2>1, <2>2, <2>3, <2>4, <2>5, <2>6 DEF Resume
<1>4. CASE Finish
  BY <1>4 DEF Finish, ExitCode
<1>5. CASE Sigint
  BY <1>5 DEF Sigint
<1>6. CASE Crash
  BY <1>6 DEF Crash
<1>7. ASSUME NEW d \in Datasets, Spawn(d) PROVE TypeOK'
  BY <1>7 DEF Spawn
<1>8. ASSUME NEW d \in Datasets, Panic(d) PROVE TypeOK'
  BY <1>8 DEF Panic
<1>9. ASSUME NEW d \in Datasets, SourceChanges(d) PROVE TypeOK'
  BY <1>9 DEF SourceChanges
<1>10. ASSUME NEW d \in Datasets, Begin(d) PROVE TypeOK'
  <2>1. attempt' \in [Datasets -> Nat] /\ lapsed' \subseteq Datasets /\ faults' \in 0 .. MaxFaults
    BY <1>10 DEF Begin
  <2>2. pc' \in [Datasets -> TaskPCs]
    BY <1>10 DEF Begin
  <2>3. outcome' \in [Datasets -> DatasetState \cup {None}]
    BY <1>10 DEF Begin, DatasetState
  <2>4. QED
    BY <1>10, <2>1, <2>2, <2>3 DEF Begin
<1>11. ASSUME NEW d \in Datasets, NEW s \in DatasetState, Upsert(d, s),
              attempt' \in [Datasets -> Nat]
       PROVE  /\ row' \in [Datasets -> DatasetState \cup {None}]
              /\ tries' \in [Datasets -> Nat]
              /\ faults' \in 0 .. MaxFaults /\ lapsed' \subseteq Datasets
  BY <1>11 DEF Upsert
<1>12. ASSUME NEW d \in Datasets, LoopHead(d) PROVE TypeOK'
  <2>1. attempt' \in [Datasets -> Nat] /\ made' \in [Datasets -> Nat]
    BY <1>12 DEF LoopHead
  <2>2. "cancelled" \in DatasetState /\ "planning_validated" \in DatasetState
    BY DEF DatasetState
  <2>3. PICK s \in DatasetState : Upsert(d, s)
    BY <1>12, <2>2 DEF LoopHead
  <2>4. pc' \in [Datasets -> TaskPCs] /\ outcome' \in [Datasets -> DatasetState \cup {None}]
    BY <1>12, <2>2 DEF LoopHead
  <2>5. err' \in [Datasets -> {"none", "recoverable", "permanent", "stale"}]
    BY <1>12 DEF LoopHead
  <2>6. QED
    BY <1>12, <2>1, <2>3, <2>4, <2>5, <1>11 DEF LoopHead
<1>13. ASSUME NEW d \in Datasets, Record(d) PROVE TypeOK'
  <2> DEFINE s == IF err[d] = "none" THEN "succeeded" ELSE FailureState(err[d])
  <2>1. s \in DatasetState
    BY DEF FailureState, DatasetState
  <2>2. Upsert(d, s) /\ UNCHANGED attempt
    BY <1>13 DEF Record
  <2>3. outcome' \in [Datasets -> DatasetState \cup {None}]
    BY <1>13, <2>1 DEF Record
  <2> HIDE DEF s
  <2>4. QED
    BY <1>13, <1>11, <2>1, <2>2, <2>3 DEF Record
<1>14. ASSUME NEW d \in Datasets, LockCreate(d) \/ LockWrite(d) \/ Unlock(d) PROVE TypeOK'
  BY <1>14 DEF LockCreate, LockWrite, Unlock, DropLock
<1>15. ASSUME NEW d \in Datasets, VerifySourceFingerprint(d) PROVE TypeOK'
  <2>1. CASE Upsert(d, "running") /\ Goto(d, "exists") /\ UNCHANGED <<attempt, err>>
    BY <1>15, <2>1, <1>11 DEF VerifySourceFingerprint, DatasetState
  <2>2. CASE /\ UNCHANGED <<row, tries, lapsed, attempt>>
             /\ UNCHANGED faults \/ Fault("io")
             /\ \E class \in {"stale", "recoverable", "permanent"} : AttemptFails(d, class)
    BY <1>15, <2>2 DEF VerifySourceFingerprint, AttemptFails
  <2>3. QED
    BY <1>15, <2>1, <2>2 DEF VerifySourceFingerprint
<1>16. ASSUME NEW d \in Datasets, CheckOutput(d) \/ RecheckFingerprint(d) \/ RunOperations(d)
       PROVE  TypeOK'
  BY <1>16 DEF CheckOutput, RecheckFingerprint, RunOperations, AttemptFails, RepairFrame
<1>17. ASSUME NEW d \in Datasets,
              CreateOutput(d) \/ CopyWorkToOutput(d) \/ VerifyRepair(d) \/ WriteManifest(d)
       PROVE  TypeOK'
  BY <1>17 DEF CreateOutput, CopyWorkToOutput, VerifyRepair, WriteManifest, AttemptFails, RepairFrame
<1>18. CASE UNCHANGED vars
  BY <1>18 DEF vars
<1>19. QED
  BY <1>1, <1>2, <1>3, <1>4, <1>5, <1>6, <1>7, <1>8, <1>9, <1>10, <1>12, <1>13, <1>14,
     <1>15, <1>16, <1>17, <1>18 DEF Next, Task

\* Every reachable state of a batch run is type-correct: the journal, the output
\* directories, the tasks and the exit code only take the values the code has.
THEOREM TypeCorrect == Spec => []TypeOK
<1>1. ASSUME Init PROVE TypeOK
  <2>1. /\ tries \in [Datasets -> Nat] /\ made \in [Datasets -> Nat] /\ lapsed \subseteq Datasets
        /\ attempt \in [Datasets -> Nat] /\ starts \in Nat
    BY <1>1 DEF Init
  <2>2. faults \in 0 .. MaxFaults
    BY <1>1, FaultsAssumption DEF Init
  <2>3. row \in [Datasets -> DatasetState \cup {None}] /\ outcome \in [Datasets -> DatasetState \cup {None}]
    BY <1>1 DEF Init
  <2>4. pc \in [Datasets -> TaskPCs]
    BY <1>1 DEF Init, TaskPCs
  <2>5. QED
    BY <1>1, <2>1, <2>2, <2>3, <2>4 DEF Init, TypeOK
<1>2. QED
  BY <1>1, TypeStep, PTL DEF Spec

-----------------------------------------------------------------------------

\* What a task does to the process and to the run: nothing.
LEMMA TaskKeepsProcess ==
  ASSUME NEW d \in Datasets, Task(d) \/ Panic(d)
  PROVE  UNCHANGED <<proc, exitCode, cancel, pending, starts, completedAt, cancelledAt>>
BY DEF Task, Panic, Begin, LoopHead, Record, LockCreate, LockWrite, Unlock,
       VerifySourceFingerprint, CheckOutput, RecheckFingerprint, RunOperations, CreateOutput,
       CopyWorkToOutput, VerifyRepair, WriteManifest, RepairFrame, durable, process

\* Tasks do not meddle with each other: a step of one leaves the journal row, the
\* output, the lock and the counters of every other dataset alone.
LEMMA TaskKeepsOthers ==
  ASSUME TypeOK, NEW d \in Datasets, Task(d) \/ Panic(d), NEW e \in Datasets, e # d
  PROVE  /\ row'[e] = row[e] /\ tries'[e] = tries[e]
         /\ made'[e] = made[e] /\ (e \in lapsed' <=> e \in lapsed)
         /\ lockFile'[e] = lockFile[e] /\ out'[e] = out[e]
         /\ pc'[e] = pc[e] /\ attempt'[e] = attempt[e]
         /\ err'[e] = err[e] /\ outcome'[e] = outcome[e]
<1> USE DEF TypeOK, Goto, durable
<1>1. ASSUME NEW s, Upsert(d, s)
      PROVE  row'[e] = row[e] /\ tries'[e] = tries[e] /\ (e \in lapsed' <=> e \in lapsed)
  BY <1>1 DEF Upsert
<1>2. CASE Panic(d) \/ Begin(d)
  BY <1>2 DEF Panic, Begin
<1>3. CASE LoopHead(d)
  BY <1>1, <1>3 DEF LoopHead
<1>4. CASE Record(d)
  BY <1>1, <1>4 DEF Record
<1>5. CASE LockCreate(d) \/ LockWrite(d) \/ Unlock(d)
  BY <1>5 DEF LockCreate, LockWrite, Unlock, DropLock
<1>6. CASE VerifySourceFingerprint(d)
  BY <1>1, <1>6 DEF VerifySourceFingerprint, AttemptFails
<1>7. CASE CheckOutput(d) \/ RecheckFingerprint(d) \/ RunOperations(d)
  BY <1>7 DEF CheckOutput, RecheckFingerprint, RunOperations, AttemptFails, RepairFrame
<1>8. CASE CreateOutput(d) \/ CopyWorkToOutput(d) \/ VerifyRepair(d) \/ WriteManifest(d)
  BY <1>8 DEF CreateOutput, CopyWorkToOutput, VerifyRepair, WriteManifest, AttemptFails, RepairFrame
<1>9. QED
  BY <1>2, <1>3, <1>4, <1>5, <1>6, <1>7, <1>8 DEF Task

\* A task keeps its own dataset's part of the invariant.
LEMMA OwnTask ==
  ASSUME TypeOK, BatchInv, NEW d \in Datasets, Task(d) \/ Panic(d)
  PROVE  DatasetInv(d)'
<1> USE DEF TypeOK, Goto, DatasetInv, Inactive
<1>1. DatasetInv(d) /\ (proc # "new" => starts >= 1)
  BY DEF BatchInv
<1>2. UNCHANGED <<proc, exitCode, cancel, pending, starts>>
  BY TaskKeepsProcess
<1>3. pc[d] \notin Inactive
  BY DEF Task, Panic, Begin, LoopHead, Record, LockCreate, LockWrite, Unlock,
         VerifySourceFingerprint, CheckOutput, RecheckFingerprint, RunOperations, CreateOutput,
         CopyWorkToOutput, VerifyRepair, WriteManifest
<1>4. proc = "up" /\ d \notin pending /\ row[d] # "succeeded" /\ starts >= 1
  BY <1>1, <1>3 DEF TasksNeedProcess, PendingIsOpen, SucceededIsDone
<1>5. TasksNeedProcess(d)' /\ PendingIsOpen(d)' /\ ExitZeroSawSuccess(d)'
  BY <1>2, <1>4 DEF TasksNeedProcess, PendingIsOpen, ExitZeroSawSuccess
<1>6. SUFFICES /\ OutputAtStep(d)' /\ GoodEndHasOutput(d)' /\ SucceededIsDone(d)'
               /\ JournalKnows(d)' /\ WithinBudget(d)' /\ WithinEveryBudget(d)'
  BY <1>5
<1> DEFINE Budget == MaxAttempts * starts
<1>6a. Budget \in Nat /\ Budget' = Budget
  BY <1>2, AttemptsAssumption
<1> USE DEF OutputAtStep, GoodEndHasOutput, SucceededIsDone, JournalKnows, WithinBudget,
            WithinEveryBudget
<1>7. ASSUME NEW s, Upsert(d, s)
      PROVE  /\ row'[d] \in {row[d], s}
             /\ d \notin lapsed' => d \notin lapsed /\ tries'[d] = attempt'[d]
  BY <1>7 DEF Upsert
<1>8. CASE Panic(d)
  BY <1>1, <1>2, <1>4, <1>8 DEF Panic
<1>9. CASE Begin(d)
  BY <1>1, <1>2, <1>4, <1>9, AttemptsAssumption DEF Begin, durable
<1>10. CASE LoopHead(d)
  BY <1>1, <1>2, <1>4, <1>7, <1>10, AttemptsAssumption DEF LoopHead
<1>11. CASE Record(d)
  BY <1>1, <1>2, <1>4, <1>7, <1>11, AttemptsAssumption DEF Record, MayRetry, FailureState
<1>12. CASE LockCreate(d) \/ LockWrite(d) \/ Unlock(d)
  BY <1>1, <1>2, <1>4, <1>12 DEF LockCreate, LockWrite, Unlock, DropLock
<1>13. CASE VerifySourceFingerprint(d)
  BY <1>1, <1>2, <1>4, <1>7, <1>13 DEF VerifySourceFingerprint, AttemptFails
<1>14. CASE CheckOutput(d) \/ RecheckFingerprint(d) \/ RunOperations(d)
  BY <1>1, <1>2, <1>4, <1>14
     DEF CheckOutput, OutputExists, RecheckFingerprint, RunOperations, AttemptFails, RepairFrame
<1>15. CASE CreateOutput(d) \/ CopyWorkToOutput(d) \/ VerifyRepair(d) \/ WriteManifest(d)
  BY <1>1, <1>2, <1>4, <1>15
     DEF CreateOutput, CopyWorkToOutput, VerifyRepair, WriteManifest, AttemptFails, RepairFrame
<1>16. QED
  BY <1>8, <1>9, <1>10, <1>11, <1>12, <1>13, <1>14, <1>15 DEF Task

\* One step of the program keeps the invariant.
LEMMA InvStep == ASSUME TypeOK, BatchInv, [Next]_vars PROVE BatchInv'
<1> USE DEF TypeOK, Inactive, durable
<1>1. ASSUME NEW d \in Datasets, Task(d) \/ Panic(d) PROVE BatchInv'
  <2>1. UNCHANGED <<proc, exitCode, pending, starts, completedAt>>
    BY <1>1, TaskKeepsProcess
  <2>2. proc = "up"
    BY <1>1 DEF Task, Panic, Begin, LoopHead, Record, LockCreate, LockWrite, Unlock,
         VerifySourceFingerprint, CheckOutput, RecheckFingerprint, RunOperations, CreateOutput,
         CopyWorkToOutput, VerifyRepair, WriteManifest, BatchInv, DatasetInv, TasksNeedProcess
  <2>3. ASSUME NEW e \in Datasets PROVE DatasetInv(e)'
    <3>1. CASE e = d
      BY <1>1, <3>1, OwnTask
    <3>2. CASE e # d
      BY <1>1, <2>1, <3>2, TaskKeepsOthers
         DEF BatchInv, DatasetInv, TasksNeedProcess, PendingIsOpen, OutputAtStep,
             GoodEndHasOutput, SucceededIsDone, JournalKnows, WithinBudget, WithinEveryBudget, ExitZeroSawSuccess
    <3>3. QED
      BY <3>1, <3>2
  <2>4. QED
    BY <2>1, <2>2, <2>3 DEF BatchInv, CompletedRunIsOver
<1>2. CASE StartFresh \/ ResumeCompleted \/ Resume \/ Finish \/ Sigint \/ Crash
            \/ (\E d \in Datasets : Spawn(d) \/ SourceChanges(d)) \/ UNCHANGED vars
  <2> USE DEF BatchInv, DatasetInv, TasksNeedProcess, PendingIsOpen, OutputAtStep,
              GoodEndHasOutput, SucceededIsDone, JournalKnows, WithinBudget, WithinEveryBudget, ExitZeroSawSuccess,
              CompletedRunIsOver
  <2>1. CASE StartFresh
    <3>1. /\ proc' = "up" /\ starts' = starts + 1 /\ proc = "new" /\ ~completedAt'
          /\ UNCHANGED <<row, tries, made, lapsed, out, pc, attempt, err, outcome>>
      BY <2>1 DEF StartFresh
    <3>2. ASSUME NEW d \in Datasets PROVE DatasetInv(d)'
      <4>1. /\ row[d] # "succeeded" /\ pc[d] = "off" /\ tries[d] = 0 /\ made[d] = 0
            /\ starts = 0 /\ MaxAttempts * starts' = MaxAttempts
        BY <3>1, NoneAssumption, AttemptsAssumption DEF DatasetState
      <4>2. QED
        BY <3>1, <4>1, AttemptsAssumption
    <3>3. QED
      BY <3>1, <3>2
  <2>2. CASE ResumeCompleted
    BY <2>2, NoneAssumption DEF ResumeCompleted, RunIsComplete
  <2>3. CASE Resume
    <3>1. ~completedAt /\ ~completedAt'
      BY <2>3 DEF Resume
    <3>2. ASSUME NEW d \in Datasets PROVE DatasetInv(d)'
      <4>1. /\ row'[d] = "succeeded" <=> row[d] = "succeeded"
            /\ d \in pending' => row[d] # "succeeded"
            /\ outcome'[d] = "succeeded" => row[d] = "succeeded"
        BY <2>3, NoneAssumption
           DEF Resume, RecoverJournalStates, RecoverAfterCrash, Unfinished, IsTerminal, DatasetState
      <4>2. /\ proc' = "up" /\ pc'[d] = "off" /\ starts' = starts + 1
            /\ UNCHANGED <<tries, made, lapsed, out>>
        BY <2>3 DEF Resume
      <4>3. JournalKnows(d)' /\ WithinBudget(d)'
        <5>1. JournalKnows(d) /\ WithinBudget(d)
          BY DEF BatchInv, DatasetInv
        <5>2. JournalKnows(d)'
          BY <4>2, <5>1
        <5>3. WithinBudget(d)'
          BY <4>2, <5>1, AttemptsAssumption
        <5>4. QED
          BY <5>2, <5>3
      <4>4. MaxAttempts * starts' = MaxAttempts * starts + MaxAttempts
        BY <4>2, AttemptsAssumption
      <4>5. WithinEveryBudget(d)'
        BY <4>2, <4>4, AttemptsAssumption
      <4>6. QED
        BY <4>1, <4>2, <4>3, <4>5
    <3>3. QED
      BY <2>3, <3>1, <3>2 DEF Resume
  <2>4. CASE Finish
    <3>1. \A d \in Datasets : pc[d] \in Inactive
      BY <2>4 DEF Finish, Spawned
    <3>2. CompletedRunIsOver'
      BY <2>4 DEF Finish, RunIsComplete
    <3>3. ASSUME NEW d \in Datasets PROVE DatasetInv(d)'
      BY <2>4, <3>1 DEF Finish, ExitCode
    <3>4. QED
      BY <2>4, <3>2, <3>3 DEF Finish
  <2>5. CASE Sigint
    BY <2>5 DEF Sigint, Fault, RunIsComplete
  <2>6. CASE Crash
    BY <2>6 DEF Crash, Fault, RunIsComplete
  <2>7. ASSUME NEW d \in Datasets, Spawn(d) PROVE BatchInv'
    BY <2>7 DEF Spawn, Goto, RunIsComplete
  <2>8. ASSUME NEW d \in Datasets, SourceChanges(d) PROVE BatchInv'
    BY <2>8 DEF SourceChanges, Fault, RunIsComplete
  <2>9. CASE UNCHANGED vars
    BY <2>9 DEF vars, RunIsComplete
  <2>10. QED
    BY <1>2, <2>1, <2>2, <2>3, <2>4, <2>5, <2>6, <2>7, <2>8, <2>9
<1>3. QED
  BY <1>1, <1>2 DEF Next

\* The invariant holds in every reachable state.
LEMMA InvAlways == Spec => [](TypeOK /\ BatchInv)
<1>1. ASSUME Init PROVE BatchInv
  <2>1. \A d \in Datasets : /\ row[d] = None /\ tries[d] = 0 /\ pc[d] = "off"
                            /\ outcome[d] = None /\ made[d] = 0 /\ d \notin lapsed
    BY <1>1 DEF Init
  <2>2. None # "succeeded" /\ starts = 0 /\ pending = {} /\ proc = "new" /\ ~completedAt
    BY <1>1, NoneAssumption DEF Init, DatasetState
  <2>2a. MaxAttempts * starts = 0
    BY <2>2, AttemptsAssumption
  <2>3. QED
    BY <2>1, <2>2, <2>2a, AttemptsAssumption
       DEF BatchInv, DatasetInv, TasksNeedProcess, PendingIsOpen, OutputAtStep, GoodEndHasOutput,
           SucceededIsDone, JournalKnows, WithinBudget, WithinEveryBudget, ExitZeroSawSuccess, CompletedRunIsOver, Inactive
<1>2. QED
  BY <1>1, TypeCorrect, InvStep, PTL DEF Spec

-----------------------------------------------------------------------------

\* The journal says Succeeded only of a dataset whose output is complete, with
\* its manifest - for any number of datasets, after any crashes, failed writes,
\* locks that could not be removed, lost journal rows and resumes.
THEOREM SucceededRowsHaveOutput == Spec => []SucceededHasOutput
<1>1. BatchInv => SucceededHasOutput
  BY DEF BatchInv, DatasetInv, SucceededIsDone, SucceededHasOutput
<1>2. QED
  BY <1>1, InvAlways, PTL

\* A run that the journal marks completed has a terminal row for every dataset.
THEOREM CompletedRunsAreTerminal == Spec => []CompletedIsTerminal
<1>1. BatchInv => CompletedIsTerminal
  BY DEF BatchInv, CompletedRunIsOver, CompletedIsTerminal, RunIsComplete
<1>2. QED
  BY <1>1, InvAlways, PTL

\* However processes crash and resume, MaxAttempts attempts are made at a dataset
\* and one more for every resume, if the journal never failed for it; and never
\* more than MaxAttempts by each process.
THEOREM AttemptsAreBudgeted == Spec => []AttemptBudget
<1>1. TypeOK /\ BatchInv => AttemptBudget
  BY AttemptsAssumption
     DEF TypeOK, BatchInv, DatasetInv, WithinBudget, WithinEveryBudget, AttemptBudget
<1>2. QED
  BY <1>1, InvAlways, PTL

\* Exit code 0 of a process that executed datasets means that every dataset with
\* an outcome has its complete output.
THEOREM ExitZeroIsHonest == Spec => []ExitZeroMeansRepaired
<1>1. BatchInv => ExitZeroMeansRepaired
  BY DEF BatchInv, DatasetInv, SucceededIsDone, ExitZeroSawSuccess, ExitZeroMeansRepaired
<1>2. QED
  BY <1>1, InvAlways, PTL

\* No resume, retry or late task touches a dataset journalled Succeeded: its row
\* and attempt counter stay, and it is never spawned again.
THEOREM SucceededRowsAreFinal == Spec => SucceededIsFinal
<1>1. ASSUME TypeOK, BatchInv, [Next]_vars, NEW d \in Datasets, row[d] = "succeeded"
      PROVE  row'[d] = "succeeded" /\ tries'[d] = tries[d] /\ pc'[d] \in Inactive
  <2> USE DEF TypeOK, Inactive, durable
  <2>1. pc[d] \in Inactive /\ d \notin pending
    BY <1>1 DEF BatchInv, DatasetInv, SucceededIsDone, PendingIsOpen
  <2>2. ASSUME NEW e \in Datasets, Task(e) \/ Panic(e) PROVE e # d
    BY <2>1, <2>2
       DEF Task, Panic, Begin, LoopHead, Record, LockCreate, LockWrite, Unlock,
           VerifySourceFingerprint, CheckOutput, RecheckFingerprint, RunOperations,
           CreateOutput, CopyWorkToOutput, VerifyRepair, WriteManifest
  <2>3. CASE \E e \in Datasets : Task(e) \/ Panic(e)
    BY <1>1, <2>1, <2>2, <2>3, TaskKeepsOthers
  <2>4. CASE \E e \in Datasets : Spawn(e) \/ SourceChanges(e)
    BY <1>1, <2>1, <2>4 DEF Spawn, SourceChanges, Goto
  <2>5. CASE Resume
    BY <1>1, <2>5 DEF Resume, RecoverJournalStates, RecoverAfterCrash
  <2>6. CASE StartFresh \/ ResumeCompleted \/ Finish \/ Sigint \/ Crash \/ UNCHANGED vars
    BY <1>1, <2>1, <2>6 DEF StartFresh, ResumeCompleted, Finish, Sigint, Crash, vars
  <2>7. QED
    BY <1>1, <2>3, <2>4, <2>5, <2>6 DEF Next
<1>2. TypeOK /\ BatchInv /\ [Next]_vars
        => [\A d \in Datasets : row[d] = "succeeded"
              => row'[d] = "succeeded" /\ tries'[d] = tries[d] /\ pc'[d] \in {"off", "ended"}]_vars
  BY <1>1 DEF Inactive
<1>3. QED
  BY <1>2, InvAlways, PTL DEF Spec, SucceededIsFinal

\* An output directory only moves forward, from absent to partial to copied to
\* complete: no attempt and no resume builds over what another one left.
THEOREM OutputsAreBuiltOnce == Spec => OutputBuiltOnce
<1>1. ASSUME TypeOK, BatchInv, [Next]_vars, NEW d \in Datasets, out'[d] # out[d]
      PROVE  <<out[d], out'[d]>> \in {<<"absent", "partial">>, <<"partial", "copied">>,
                                      <<"copied", "complete">>}
  <2> USE DEF TypeOK, Goto, durable
  <2>1. PICK e \in Datasets : CreateOutput(e) \/ CopyWorkToOutput(e) \/ WriteManifest(e)
    BY <1>1 DEF Next, StartFresh, ResumeCompleted, Resume, Finish, Sigint, Crash, Spawn,
                SourceChanges, Task, Panic, Begin, LoopHead, Record, LockCreate, LockWrite, Unlock,
                VerifySourceFingerprint, CheckOutput, RecheckFingerprint, RunOperations,
                VerifyRepair, vars
  <2>2. e = d
    BY <1>1, <2>1, TaskKeepsOthers DEF Task
  <2>3. OutputAtStep(d)
    BY <1>1 DEF BatchInv, DatasetInv
  <2>4. QED
    BY <1>1, <2>1, <2>2, <2>3 DEF OutputAtStep, CreateOutput, CopyWorkToOutput, WriteManifest
<1>2. TypeOK /\ BatchInv /\ [Next]_vars
        => [\A d \in Datasets : out'[d] # out[d] =>
              <<out[d], out'[d]>> \in {<<"absent", "partial">>, <<"partial", "copied">>,
                                       <<"copied", "complete">>}]_vars
  BY <1>1
<1>3. QED
  BY <1>2, InvAlways, PTL DEF Spec, OutputBuiltOnce
=============================================================================
