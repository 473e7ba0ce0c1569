----------------------------- MODULE Publication -----------------------------
(***************************************************************************)
(* Transactional publication of one dataset prefix on an object store      *)
(* (crates/parqonaut-storage/src/publication.rs and locking.rs), as the    *)
(* batch executor drives it: executor::execute_dataset_once probes the     *)
(* prefix, repair::execute_storage refuses an existing output, and         *)
(* publish_work_dir runs one RemotePublicationSession.                     *)
(*                                                                         *)
(* A process stands for one OS process working for a batch run on this     *)
(* output; its session can die at any step (crash, failed request, failed  *)
(* repair) without releasing anything, and the run is retried or resumed.  *)
(* Every storage request is one action.  Two processes may work for the    *)
(* same run (two `batch resume` of one run directory): RunOf says so.      *)
(***************************************************************************)
EXTENDS Naturals

CONSTANTS Runs,        \* run ids; also the version ids (PublicationVersionId)
          Procs,       \* processes that publish to this prefix
          RunOf,       \* the run each process works for
          N,           \* files in the work directory plus the execution manifest
          Execs,       \* execution ids, a fresh one per attempt
          None,        \* "no such object"
          MaxFailures  \* bound on crashes and failed requests

ASSUME RunOfAssumption == RunOf \in [Procs -> Runs]
ASSUME NAssumption == N \in Nat \ {0}
ASSUME MaxFailuresAssumption == MaxFailures \in Nat

\* The objects of a version, in upload order (WalkDir sorted by file name,
\* then `.parqonaut-manifest.json`).
Objects == 1 .. N

\* "No such object" is none of the values an object or a version can have.
ASSUME NoneAssumption ==
  /\ None \notin Runs \cup Execs \cup {"uploaded", "verified", "manifest_written",
                                      "committed", "current"}
  /\ None \notin [Objects -> Execs]
  /\ None \notin [objects : [Objects -> Execs], manifest : [Objects -> Execs]]

VARIABLES
  \* the object store under the dataset prefix
  lock,       \* owner recorded in .parqonaut/writer.lock, or None
  current,    \* version in .parqonaut/CURRENT, or None
  stateFile,  \* state.json of each version, or None
  data,       \* execution that wrote each data object of each version
  manifest,   \* object records in manifest.json of each version, or None
  marker,     \* does COMMITTED exist for each version
  \* the session of each process
  pc,         \* next storage request
  state,      \* RemotePublicationSession.state
  goal,       \* state that persist_state is writing
  seen,       \* outcome of the last head(): absent, match, or outdated since
  next,       \* next object to upload
  records,    \* object_records collected by publish_work_dir
  exec,       \* execution id of the attempt
  failures    \* crashes and failed requests so far

store   == <<lock, current, stateFile, data, manifest, marker>>
session == <<state, goal, seen, next, records, exec>>
vars    == <<lock, current, stateFile, data, manifest, marker,
             pc, state, goal, seen, next, records, exec, failures>>

PublicationState == {"preparing", "uploading", "uploaded", "verified",
                     "manifest_written", "committed", "current"}

Settled == {"done", "skipped", "refused"}
Working == {"probe", "observe", "available", "acquire", "reclaim", "reclaimDelete",
            "reclaimCreate", "loadMarker", "loadCurrent", "loadState", "put", "create",
            "stateHead", "stateWrite", "manifest", "commitCheck", "marker",
            "promote", "currentHead", "currentWrite", "release"}
PCs == Working \cup Settled \cup {"idle", "failed"}

NoRecords == [o \in Objects |-> None]

\* Execution ids that are not in use anywhere: Uuid::new_v4 is fresh.
FreshExecs == Execs \ ({data[r][o] : r \in Runs, o \in Objects}
                        \cup {exec[p] : p \in Procs})

Init ==
  /\ lock = None
  /\ current = None
  /\ stateFile = [r \in Runs |-> None]
  /\ data = [r \in Runs |-> NoRecords]
  /\ manifest = [r \in Runs |-> None]
  /\ marker = [r \in Runs |-> FALSE]
  /\ pc = [p \in Procs |-> "idle"]
  /\ state = [p \in Procs |-> "preparing"]
  /\ goal = [p \in Procs |-> "preparing"]
  /\ seen = [p \in Procs |-> "absent"]
  /\ next = [p \in Procs |-> 1]
  /\ records = [p \in Procs |-> NoRecords]
  /\ exec = [p \in Procs |-> None]
  /\ failures = 0

Goto(p, l) == pc' = [pc EXCEPT ![p] = l]

-----------------------------------------------------------------------------
(* The attempt up to the writer lock.                                       *)

\* A first attempt, or a retry / `batch resume` after a failed one: everything
\* the previous attempt held in memory is gone, the store is as it left it.
StartAttempt(p) ==
  /\ pc[p] \in {"idle", "failed"}
  /\ \E e \in FreshExecs : exec' = [exec EXCEPT ![p] = e]
  /\ Goto(p, "probe")
  /\ state' = [state EXCEPT ![p] = "preparing"]
  /\ next' = [next EXCEPT ![p] = 1]
  /\ records' = [records EXCEPT ![p] = NoRecords]
  /\ goal' = [goal EXCEPT ![p] = "preparing"]
  /\ seen' = [seen EXCEPT ![p] = "absent"]
  /\ UNCHANGED failures /\ UNCHANGED store

\* A request whose error the executor takes for "not committed".
ErrorIgnored(p, l) == /\ failures < MaxFailures
                      /\ failures' = failures + 1
                      /\ Goto(p, l)

\* remote_output_committed: this run's version is already committed.
ProbeCommitted(p) ==
  /\ pc[p] = "probe"
  /\ \/ Goto(p, IF marker[RunOf[p]] THEN "skipped" ELSE "observe") /\ UNCHANGED failures
     \/ ErrorIgnored(p, "observe")
  /\ UNCHANGED store /\ UNCHANGED session

\* remote_publication_state: the same question once more, through observed_state.
ObserveState(p) ==
  /\ pc[p] = "observe"
  /\ \/ Goto(p, IF marker[RunOf[p]] THEN "skipped" ELSE "available") /\ UNCHANGED failures
     \/ ErrorIgnored(p, "available")
  /\ UNCHANGED store /\ UNCHANGED session

\* ensure_output_available: a CURRENT of any run refuses the output for good.
EnsureOutputAvailable(p) ==
  /\ pc[p] = "available"
  /\ Goto(p, IF current # None THEN "refused" ELSE "acquire")
  /\ UNCHANGED failures /\ UNCHANGED store /\ UNCHANGED session

-----------------------------------------------------------------------------
(* RemotePublicationLock::acquire, reclaim_or_reject and release.           *)

Acquire(p) ==
  /\ pc[p] = "acquire"
  /\ IF lock = None
       THEN lock' = RunOf[p] /\ Goto(p, "loadMarker")
       ELSE UNCHANGED lock /\ Goto(p, "reclaim")
  /\ UNCHANGED <<current, stateFile, data, manifest, marker, failures>>
  /\ UNCHANGED session

AnyLock(p) == lock # None          \* mutant: the owner is not compared

\* The lock found belongs to this run.
OwnLock(p) == lock = RunOf[p]

\* Reads the owner: gone meanwhile or another run is an error, the own run is
\* taken for a stale lock.
ReclaimRead(p) ==
  /\ pc[p] = "reclaim"
  /\ Goto(p, IF OwnLock(p) THEN "reclaimDelete" ELSE "failed")
  /\ UNCHANGED failures /\ UNCHANGED store /\ UNCHANGED session

ReclaimDelete(p) ==
  /\ pc[p] = "reclaimDelete"
  /\ lock' = None
  /\ Goto(p, "reclaimCreate")
  /\ UNCHANGED <<current, stateFile, data, manifest, marker, failures>>
  /\ UNCHANGED session

ReclaimCreate(p) ==
  /\ pc[p] = "reclaimCreate"
  /\ IF lock = None
       THEN lock' = RunOf[p] /\ Goto(p, "loadMarker")
       ELSE UNCHANGED lock /\ Goto(p, "failed")
  /\ UNCHANGED <<current, stateFile, data, manifest, marker, failures>>
  /\ UNCHANGED session

\* An unconditional delete: whoever owns the lock now.
Release(p) ==
  /\ pc[p] = "release"
  /\ lock' = None
  /\ Goto(p, "done")
  /\ UNCHANGED <<current, stateFile, data, manifest, marker, failures>>
  /\ UNCHANGED session

-----------------------------------------------------------------------------
(* load_recovered_state and the rest of begin.                              *)

LoadMarker(p) ==
  /\ pc[p] = "loadMarker"
  /\ Goto(p, IF marker[RunOf[p]] THEN "loadCurrent" ELSE "loadState")
  /\ UNCHANGED failures /\ UNCHANGED store /\ UNCHANGED session

LoadCurrent(p) ==
  /\ pc[p] = "loadCurrent"
  /\ state' = [state EXCEPT ![p] = IF current = RunOf[p] THEN "current" ELSE "committed"]
  /\ Goto(p, "put")
  /\ UNCHANGED <<goal, seen, next, records, exec, failures>> /\ UNCHANGED store

\* persist_state(s) starts: its head() of state.json comes next.
Persist(p, s) ==
  /\ goal' = [goal EXCEPT ![p] = s]
  /\ Goto(p, "stateHead")

LoadState(p) ==
  /\ pc[p] = "loadState"
  /\ LET found == stateFile[RunOf[p]] IN
       IF found \in {None, "preparing"}
         THEN /\ state' = [state EXCEPT ![p] = "preparing"]
              /\ Persist(p, "preparing")
         ELSE /\ state' = [state EXCEPT ![p] = found]
              /\ Goto(p, "put")
              /\ UNCHANGED goal
  /\ UNCHANGED <<seen, next, records, exec, failures>> /\ UNCHANGED store

-----------------------------------------------------------------------------
(* persist_state: head, then conditional create or replace of state.json.   *)

\* Mutant: head() is skipped and every write is a create.
StateHeadBlind(p) ==
  /\ pc[p] = "stateHead"
  /\ seen' = [seen EXCEPT ![p] = "absent"]
  /\ Goto(p, "stateWrite")
  /\ UNCHANGED <<state, goal, next, records, exec, failures>> /\ UNCHANGED store

StateHead(p) ==
  /\ pc[p] = "stateHead"
  /\ seen' = [seen EXCEPT ![p] = IF stateFile[RunOf[p]] = None THEN "absent" ELSE "match"]
  /\ Goto(p, "stateWrite")
  /\ UNCHANGED <<state, goal, next, records, exec, failures>> /\ UNCHANGED store

\* A write of an object changes its ETag: what others have seen at `l` is outdated.
Outdate(p, l, same) ==
  seen' = [q \in Procs |->
             IF q # p /\ pc[q] = l /\ q \in same /\ seen[q] = "match"
               THEN "stale" ELSE seen[q]]

\* Where the code goes on after persist_state(s).
AfterPersist(s) ==
  CASE s = "preparing"        -> "put"
    [] s = "uploading"        -> "create"
    [] s = "uploaded"         -> "stateHead"     \* mark_verified follows
    [] s = "verified"         -> "manifest"
    [] s = "manifest_written" -> "commitCheck"
    [] s = "committed"        -> "promote"
    [] s = "current"          -> "release"

StateWrite(p) ==
  LET r == RunOf[p]
      accepted == \/ seen[p] = "absent" /\ stateFile[r] = None
                  \/ seen[p] = "match"
  IN
  /\ pc[p] = "stateWrite"
  /\ IF accepted
       THEN /\ stateFile' = [stateFile EXCEPT ![r] = goal[p]]
            /\ state' = [state EXCEPT ![p] = goal[p]]
            /\ goal' = [goal EXCEPT ![p] = IF @ = "uploaded" THEN "verified" ELSE @]
            /\ Outdate(p, "stateWrite", {q \in Procs : RunOf[q] = r})
            /\ Goto(p, AfterPersist(goal[p]))
       ELSE /\ Goto(p, "failed")
            /\ UNCHANGED <<stateFile, state, goal, seen>>
  /\ UNCHANGED <<lock, current, data, manifest, marker, next, records, exec, failures>>

-----------------------------------------------------------------------------
(* put_version_object for every file, then mark_uploaded, mark_verified.    *)

\* Mutant: a resumed session whose state.json says uploaded goes on at the manifest.
PutResumed(p) ==
  /\ pc[p] = "put"
  /\ \/ state[p] = "preparing" /\ Persist(p, "uploading")
     \/ state[p] = "uploading" /\ Goto(p, "create") /\ UNCHANGED goal
     \/ /\ state[p] \notin {"preparing", "uploading"}
        /\ Goto(p, "manifest") /\ UNCHANGED goal
  /\ UNCHANGED <<state, seen, next, records, exec, failures>> /\ UNCHANGED store

Put(p) ==
  /\ pc[p] = "put"
  /\ \/ /\ state[p] = "preparing"
        /\ Persist(p, "uploading")
     \/ /\ state[p] = "uploading"
        /\ Goto(p, "create") /\ UNCHANGED goal
     \/ /\ state[p] \notin {"preparing", "uploading"}     \* InvalidTransition
        /\ Goto(p, "failed") /\ UNCHANGED goal
  /\ UNCHANGED <<state, seen, next, records, exec, failures>> /\ UNCHANGED store

Overwriting(r, o) == TRUE          \* mutant: no must_not_exist precondition

\* conditional_create with must_not_exist is accepted.
MayCreate(r, o) == data[r][o] = None

OnePastLast(o) == o > N            \* mutant
OneShort(o) == o >= N - 1          \* mutant

\* The execution manifest, after the last file of the walk.
LastObject(o) == o = N

CreateObject(p) ==
  LET r == RunOf[p]
      o == next[p]
  IN
  /\ pc[p] = "create"
  /\ \/ /\ MayCreate(r, o)
        /\ data' = [data EXCEPT ![r][o] = exec[p]]
        /\ records' = [records EXCEPT ![p][o] = exec[p]]
        /\ IF LastObject(o)
             THEN Persist(p, "uploaded") /\ UNCHANGED next
             ELSE /\ next' = [next EXCEPT ![p] = o + 1]
                  /\ UNCHANGED <<pc, goal>>
     \/ /\ ~MayCreate(r, o)                            \* Conflict
        /\ Goto(p, "failed")
        /\ UNCHANGED <<data, records, goal, next>>
  /\ UNCHANGED <<lock, current, stateFile, manifest, marker, state, seen, exec, failures>>

-----------------------------------------------------------------------------
(* write_manifest, commit and promote_current.                              *)

WriteManifest(p) ==
  LET r == RunOf[p] IN
  /\ pc[p] = "manifest"
  /\ IF manifest[r] = None
       THEN /\ manifest' = [manifest EXCEPT ![r] = records[p]]
            /\ Persist(p, "manifest_written")
       ELSE Goto(p, "failed") /\ UNCHANGED <<manifest, goal>>
  /\ UNCHANGED <<lock, current, stateFile, data, marker, failures>>
  /\ UNCHANGED <<state, seen, next, records, exec>>

CommitCheck(p) ==
  /\ pc[p] = "commitCheck"
  /\ IF marker[RunOf[p]]
       THEN state' = [state EXCEPT ![p] = "committed"] /\ Goto(p, "promote")
       ELSE UNCHANGED state /\ Goto(p, "marker")
  /\ UNCHANGED <<goal, seen, next, records, exec, failures>> /\ UNCHANGED store

WriteMarker(p) ==
  LET r == RunOf[p] IN
  /\ pc[p] = "marker"
  /\ IF ~marker[r]
       THEN marker' = [marker EXCEPT ![r] = TRUE] /\ Persist(p, "committed")
       ELSE Goto(p, "failed") /\ UNCHANGED <<marker, goal>>
  /\ UNCHANGED <<lock, current, stateFile, data, manifest, failures>>
  /\ UNCHANGED <<state, seen, next, records, exec>>

PromoteCheck(p) ==
  /\ pc[p] = "promote"
  /\ Goto(p, IF marker[RunOf[p]] THEN "currentHead" ELSE "failed")
  /\ UNCHANGED failures /\ UNCHANGED store /\ UNCHANGED session

CurrentHead(p) ==
  /\ pc[p] = "currentHead"
  /\ seen' = [seen EXCEPT ![p] = IF current = None THEN "absent" ELSE "match"]
  /\ Goto(p, "currentWrite")
  /\ UNCHANGED <<state, goal, next, records, exec, failures>> /\ UNCHANGED store

CurrentWrite(p) ==
  LET accepted == \/ seen[p] = "absent" /\ current = None
                  \/ seen[p] = "match"
  IN
  /\ pc[p] = "currentWrite"
  /\ IF accepted
       THEN /\ current' = RunOf[p]
            /\ Outdate(p, "currentWrite", Procs)
            /\ Persist(p, "current")
       ELSE /\ Goto(p, "failed")
            /\ UNCHANGED <<current, seen, goal>>
  /\ UNCHANGED <<lock, stateFile, data, manifest, marker>>
  /\ UNCHANGED <<state, next, records, exec, failures>>

-----------------------------------------------------------------------------

\* The attempt dies: process crash, request error, or a failed repair step.
\* publish_work_dir's `?` drops the session; its lock has no Drop.
Fail(p) ==
  /\ pc[p] \in Working
  /\ failures < MaxFailures
  /\ failures' = failures + 1
  /\ Goto(p, "failed")
  /\ UNCHANGED store /\ UNCHANGED session

Step(p) ==
  \/ ProbeCommitted(p) \/ ObserveState(p) \/ EnsureOutputAvailable(p)
  \/ Acquire(p) \/ ReclaimRead(p) \/ ReclaimDelete(p) \/ ReclaimCreate(p) \/ Release(p)
  \/ LoadMarker(p) \/ LoadCurrent(p) \/ LoadState(p)
  \/ StateHead(p) \/ StateWrite(p)
  \/ Put(p) \/ CreateObject(p)
  \/ WriteManifest(p) \/ CommitCheck(p) \/ WriteMarker(p)
  \/ PromoteCheck(p) \/ CurrentHead(p) \/ CurrentWrite(p)

Next == \E p \in Procs : StartAttempt(p) \/ Step(p) \/ Fail(p)

Spec == Init /\ [][Next]_vars

\* A live process keeps issuing its requests, and a run that failed is retried
\* or resumed.
Fairness == \A p \in Procs : WF_vars(Step(p)) /\ WF_vars(StartAttempt(p))
FairSpec == Spec /\ Fairness

-----------------------------------------------------------------------------
(* Properties.                                                              *)

TypeOK ==
  /\ lock \in Runs \cup {None}
  /\ current \in Runs \cup {None}
  /\ stateFile \in [Runs -> PublicationState \cup {None}]
  /\ data \in [Runs -> [Objects -> Execs \cup {None}]]
  /\ manifest \in [Runs -> [Objects -> Execs \cup {None}] \cup {None}]
  /\ marker \in [Runs -> BOOLEAN]
  /\ pc \in [Procs -> PCs]
  /\ state \in [Procs -> PublicationState]
  /\ goal \in [Procs -> PublicationState]
  /\ seen \in [Procs -> {"absent", "match", "stale"}]
  /\ next \in [Procs -> Objects]
  /\ records \in [Procs -> [Objects -> Execs \cup {None}]]
  /\ exec \in [Procs -> Execs \cup {None}]
  /\ failures \in 0 .. MaxFailures

\* What a reader who trusts only COMMITTED finds under version r.
Visible(r) == IF marker[r] THEN [objects |-> data[r], manifest |-> manifest[r]] ELSE None

Abstract == INSTANCE VersionedDataset
              WITH versions <- [r \in Runs |-> Visible(r)], head <- current

\* Publication implements VersionedDataset: however attempts of one or of
\* several runs interleave, crash and are retried, COMMITTED makes visible the
\* complete output of a single execution together with the manifest of exactly
\* those objects, it never changes afterwards, and CURRENT is only ever moved
\* to such a version ("COMMITTED <- written last; sole commit signal").
AtomicPublication == Abstract!Spec

\* state.json, which load_recovered_state trusts, never claims more than the
\* store holds: from uploaded on every object is there, from manifest_written
\* on the manifest is, and committed or current only after the marker.
StateFileSound ==
  \A r \in Runs :
    /\ stateFile[r] \in PublicationState \ {"preparing", "uploading"}
         => \A o \in Objects : data[r][o] # None
    /\ stateFile[r] \in {"manifest_written", "committed", "current"} => manifest[r] # None
    /\ stateFile[r] \in {"committed", "current"} => marker[r]

\* Steps between a successful acquire and the release of the writer lock.
Holding == {"loadMarker", "loadCurrent", "loadState", "put", "create", "stateHead",
            "stateWrite", "manifest", "commitCheck", "marker", "promote",
            "currentHead", "currentWrite", "release"}

\* The writer lock does its work when every process has a run of its own: a
\* session between acquire and release is alone there and owns writer.lock, so
\* neither a reclaim nor a release by anyone else can take it away from it.
WriterExclusion ==
  \A p \in Procs : pc[p] \in Holding =>
    /\ lock = RunOf[p]
    /\ \A q \in Procs : pc[q] \in Holding => p = q

\* Under fair scheduling, in an execution without failures, every run that
\* starts settles: it publishes, or finds CURRENT taken, and never waits for a
\* lock forever.
EveryRunSettles == [](failures = 0) => \A p \in Procs : <>[](pc[p] \in Settled)

\* "Begin or resume a publication for run_id", "state.json progress is used for
\* same-run recovery": a run that is resumed often enough commits its version.
ResumeCommits == \A p \in Procs : <>marker[RunOf[p]]

=============================================================================
