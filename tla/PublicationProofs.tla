-------------------------- MODULE PublicationProofs --------------------------
(***************************************************************************)
(* Proofs about Publication, for every number of runs, processes, objects  *)
(* and failures, and every assignment of processes to runs.                *)
(***************************************************************************)
EXTENDS Publication, TLAPS

\* The session is writing one of the states S to state.json.
Persisting(p, S) == pc[p] \in {"stateHead", "stateWrite"} /\ goal[p] \in S

\* How far the current attempt of p has come.
MarkerDone(p) == \/ Persisting(p, {"committed", "current"})
                 \/ pc[p] \in {"promote", "currentHead", "currentWrite", "release"}
ManifestDone(p) == \/ Persisting(p, {"manifest_written"})
                   \/ pc[p] \in {"commitCheck", "marker"}
                   \/ MarkerDone(p)
UploadDone(p) == \/ Persisting(p, {"uploaded", "verified"})
                 \/ pc[p] = "manifest"
                 \/ ManifestDone(p)

\* A process that has started has an execution id.
Executed(p) == pc[p] # "idle" => exec[p] # None

\* What a session holds agrees with the store: it recorded only objects of its
\* own execution, in upload order and all of them once it is past the upload,
\* and past the manifest and the marker those are in the store.
SessionInv(p) ==
  /\ Executed(p)
  /\ \A o \in Objects : records[p][o] # None =>
       records[p][o] = exec[p] /\ data[RunOf[p]][o] = exec[p]
  /\ \A o \in Objects : o < next[p] => records[p][o] # None
  /\ UploadDone(p) => \A o \in Objects : records[p][o] # None
  /\ ManifestDone(p) => manifest[RunOf[p]] # None
  /\ MarkerDone(p) => marker[RunOf[p]]

\* A manifest describes the whole output of one execution, and that is there.
ManifestsMatch ==
  \A r \in Runs : manifest[r] # None =>
    \E e \in Execs : manifest[r] = [o \in Objects |-> e] /\ data[r] = [o \in Objects |-> e]

\* The marker is written after the manifest, CURRENT after the marker.
MarkedHasManifest == \A r \in Runs : marker[r] => manifest[r] # None
CurrentIsMarked == current # None => marker[current]

\* The inductive invariant.
PublicationInv ==
  /\ \A p \in Procs : SessionInv(p)
  /\ ManifestsMatch /\ MarkedHasManifest /\ CurrentIsMarked /\ StateFileSound

-----------------------------------------------------------------------------

\* Every action is one process's.
LEMMA Steps ==
  ASSUME [Next]_vars, ~UNCHANGED vars
  PROVE  \E p \in Procs : StartAttempt(p) \/ Step(p) \/ Fail(p)
BY DEF Next

\* A step changes the label of its process, to a label.
LEMMA LabelType == ASSUME TypeOK, [Next]_vars PROVE pc' \in [Procs -> PCs]
<1> USE DEF TypeOK, Goto, Persist, PCs, Working, Settled
<1>1. ASSUME NEW p \in Procs, StartAttempt(p) \/ Fail(p) PROVE pc' \in [Procs -> PCs]
  BY <1>1 DEF StartAttempt, Fail
<1>2. ASSUME NEW p \in Procs, NEW l \in PCs, pc' = pc \/ pc' = [pc EXCEPT ![p] = l]
      PROVE  pc' \in [Procs -> PCs]
  BY <1>2
<1>3. ASSUME NEW p \in Procs,
             ProbeCommitted(p) \/ ObserveState(p) \/ EnsureOutputAvailable(p)
               \/ ReclaimDelete(p) \/ Release(p) \/ LoadMarker(p) \/ LoadCurrent(p)
      PROVE  pc' \in [Procs -> PCs]
  BY <1>2, <1>3 DEF ProbeCommitted, ObserveState, ErrorIgnored,
                    EnsureOutputAvailable, ReclaimDelete,
                    Release, LoadMarker, LoadCurrent
<1>4. ASSUME NEW p \in Procs,
             Acquire(p) \/ ReclaimRead(p) \/ ReclaimCreate(p) \/ LoadState(p)
      PROVE  pc' \in [Procs -> PCs]
  BY <1>2, <1>4 DEF Acquire, ReclaimRead, ReclaimCreate, LoadState
<1>5. ASSUME NEW p \in Procs, StateHead(p) \/ Put(p) \/ CreateObject(p) \/ WriteManifest(p)
      PROVE  pc' \in [Procs -> PCs]
  BY <1>2, <1>5 DEF StateHead, Put, CreateObject, WriteManifest
<1>6. ASSUME NEW p \in Procs,
             CommitCheck(p) \/ WriteMarker(p) \/ PromoteCheck(p) \/ CurrentHead(p)
               \/ CurrentWrite(p)
      PROVE  pc' \in [Procs -> PCs]
  BY <1>2, <1>6 DEF CommitCheck, WriteMarker, PromoteCheck, CurrentHead, CurrentWrite
<1>7. ASSUME NEW p \in Procs, StateWrite(p) PROVE pc' \in [Procs -> PCs]
  <2>1. AfterPersist(goal[p]) \in PCs
    BY DEF AfterPersist, PublicationState
  <2>2. QED
    BY <1>2, <1>7, <2>1 DEF StateWrite
<1>8. CASE UNCHANGED vars
  BY <1>8 DEF vars
<1>9. QED
  BY <1>1, <1>3, <1>4, <1>5, <1>6, <1>7, <1>8, Steps DEF Step

\* One step keeps the types.
LEMMA TypeStep == ASSUME TypeOK, [Next]_vars PROVE TypeOK'
<1> USE RunOfAssumption DEF Goto, Persist, store, session
<1>0. pc' \in [Procs -> PCs]
  BY LabelType
<1> USE <1>0 DEF TypeOK
<1>1. ASSUME NEW p \in Procs, StartAttempt(p) PROVE TypeOK'
  BY <1>1, NAssumption DEF StartAttempt, FreshExecs, NoRecords, Objects, PublicationState
<1>2. ASSUME NEW p \in Procs,
             ProbeCommitted(p) \/ ObserveState(p) \/ EnsureOutputAvailable(p)
               \/ ReclaimRead(p) \/ LoadMarker(p) \/ PromoteCheck(p)
      PROVE  TypeOK'
  <2>1. failures' \in 0 .. MaxFailures
    BY <1>2, MaxFailuresAssumption
       DEF ProbeCommitted, ObserveState, ErrorIgnored, EnsureOutputAvailable, ReclaimRead,
           LoadMarker, PromoteCheck
  <2>2. UNCHANGED <<store, session>>
    BY <1>2 DEF ProbeCommitted, ObserveState, EnsureOutputAvailable, ReclaimRead, LoadMarker,
                PromoteCheck
  <2>3. QED
    BY <2>1, <2>2
<1>3. ASSUME NEW p \in Procs,
             Acquire(p) \/ ReclaimDelete(p) \/ ReclaimCreate(p) \/ Release(p)
      PROVE  TypeOK'
  BY <1>3 DEF Acquire, ReclaimDelete, ReclaimCreate, Release
<1>4. ASSUME NEW p \in Procs, LoadCurrent(p) \/ CommitCheck(p) PROVE TypeOK'
  BY <1>4 DEF LoadCurrent, CommitCheck, PublicationState
<1>5. ASSUME NEW p \in Procs, LoadState(p) PROVE TypeOK'
  BY <1>5, ZenonT(60) DEF LoadState, PublicationState
<1>6. ASSUME NEW p \in Procs, StateHead(p) \/ CurrentHead(p) PROVE TypeOK'
  BY <1>6 DEF StateHead, CurrentHead
<1>7. ASSUME NEW p \in Procs, StateWrite(p) PROVE TypeOK'
  <2>1. CASE UNCHANGED <<stateFile, state, goal, seen>>
    BY <1>7, <2>1 DEF StateWrite
  <2>2. CASE /\ stateFile' = [stateFile EXCEPT ![RunOf[p]] = goal[p]]
             /\ state' = [state EXCEPT ![p] = goal[p]]
             /\ goal' = [goal EXCEPT ![p] = IF @ = "uploaded" THEN "verified" ELSE @]
             /\ Outdate(p, "stateWrite", {q \in Procs : RunOf[q] = RunOf[p]})
    <3>1. seen' \in [Procs -> {"absent", "match", "stale"}]
      BY <2>2 DEF Outdate
    <3>2. goal' \in [Procs -> PublicationState]
      BY <2>2 DEF PublicationState
    <3>3. QED
      BY <1>7, <2>2, <3>1, <3>2 DEF StateWrite
  <2>3. QED
    BY <1>7, <2>1, <2>2 DEF StateWrite
<1>8. ASSUME NEW p \in Procs, Put(p) PROVE TypeOK'
  BY <1>8 DEF Put, PublicationState
<1>9. ASSUME NEW p \in Procs, CreateObject(p) PROVE TypeOK'
  <2>1. CASE ~MayCreate(RunOf[p], next[p])
    BY <1>9, <2>1 DEF CreateObject
  <2>2. CASE MayCreate(RunOf[p], next[p])
    <3>1. /\ data' = [data EXCEPT ![RunOf[p]][next[p]] = exec[p]]
          /\ records' = [records EXCEPT ![p][next[p]] = exec[p]]
      BY <1>9, <2>2 DEF CreateObject
    <3>2. data' \in [Runs -> [Objects -> Execs \cup {None}]]
      BY <3>1
    <3>3. records' \in [Procs -> [Objects -> Execs \cup {None}]]
      BY <3>1
    <3>4. CASE LastObject(next[p])
      <4>1. goal' = [goal EXCEPT ![p] = "uploaded"] /\ next' = next
        BY <1>9, <2>2, <3>4 DEF CreateObject
      <4>2. goal' \in [Procs -> PublicationState]
        BY <4>1 DEF PublicationState
      <4>3. QED
        BY <1>9, <3>2, <3>3, <4>1, <4>2 DEF CreateObject
    <3>5. CASE ~LastObject(next[p])
      <4>1. goal' = goal /\ next' = [next EXCEPT ![p] = next[p] + 1]
        BY <1>9, <2>2, <3>5 DEF CreateObject
      <4>2. next' \in [Procs -> Objects]
        BY <3>5, <4>1, NAssumption DEF LastObject, Objects
      <4>3. QED
        BY <1>9, <3>2, <3>3, <4>1, <4>2 DEF CreateObject
    <3>6. QED
      BY <3>4, <3>5
  <2>3. QED
    BY <2>1, <2>2
<1>10. ASSUME NEW p \in Procs, WriteManifest(p) \/ WriteMarker(p) PROVE TypeOK'
  <2>1. goal' \in [Procs -> PublicationState]
    <3>1. \/ goal' = goal
          \/ \E s \in {"manifest_written", "committed"} : goal' = [goal EXCEPT ![p] = s]
      BY <1>10 DEF WriteManifest, WriteMarker
    <3>2. QED
      BY <3>1 DEF PublicationState
  <2>2. CASE WriteManifest(p)
    <3>1. manifest' = manifest \/ manifest' = [manifest EXCEPT ![RunOf[p]] = records[p]]
      BY <2>2 DEF WriteManifest
    <3>2. manifest' \in [Runs -> [Objects -> Execs \cup {None}] \cup {None}]
      BY <3>1
    <3>3. QED
      BY <2>1, <2>2, <3>2 DEF WriteManifest
  <2>3. CASE WriteMarker(p)
    BY <2>1, <2>3 DEF WriteMarker
  <2>4. QED
    BY <1>10, <2>2, <2>3
<1>11. ASSUME NEW p \in Procs, CurrentWrite(p) PROVE TypeOK'
  <2>1. seen' \in [Procs -> {"absent", "match", "stale"}]
    BY <1>11 DEF CurrentWrite, Outdate
  <2>2. /\ goal' = goal \/ goal' = [goal EXCEPT ![p] = "current"]
        /\ current' = current \/ current' = RunOf[p]
    BY <1>11 DEF CurrentWrite
  <2>3. goal' \in [Procs -> PublicationState]
    BY <2>2 DEF PublicationState
  <2>4. current' \in Runs \cup {None}
    BY <2>2
  <2>5. QED
    BY <1>11, <2>1, <2>3, <2>4 DEF CurrentWrite
<1>12. ASSUME NEW p \in Procs, Fail(p) PROVE TypeOK'
  BY <1>12, MaxFailuresAssumption DEF Fail
<1>13. CASE UNCHANGED vars
  BY <1>13 DEF vars
<1>14. QED
  BY <1>1, <1>2, <1>3, <1>4, <1>5, <1>6, <1>7, <1>8, <1>9, <1>10, <1>11, <1>12, <1>13,
     Steps
     DEF Step

\* Type correctness.
THEOREM TypeCorrect == Spec => []TypeOK
<1>1. Init => TypeOK
  BY RunOfAssumption, MaxFailuresAssumption, NAssumption
     DEF Init, TypeOK, NoRecords, Objects, PublicationState, PCs
<1>2. QED
  BY <1>1, TypeStep, PTL DEF Spec

-----------------------------------------------------------------------------

\* The store only grows: objects, manifests and markers are created once and
\* never changed, whoever writes.
LEMMA StoreGrows ==
  ASSUME TypeOK, [Next]_vars, NEW r \in Runs
  PROVE  /\ \A o \in Objects : data[r][o] # None => data'[r][o] = data[r][o]
         /\ manifest[r] # None => manifest'[r] = manifest[r]
         /\ marker[r] => marker'[r]
<1> DEFINE Grows == /\ \A o \in Objects : data[r][o] # None => data'[r][o] = data[r][o]
                    /\ manifest[r] # None => manifest'[r] = manifest[r]
                    /\ marker[r] => marker'[r]
<1> USE RunOfAssumption DEF TypeOK, store
<1>1. ASSUME NEW p \in Procs, CreateObject(p) PROVE Grows
  <2>1. CASE ~MayCreate(RunOf[p], next[p])
    BY <1>1, <2>1 DEF CreateObject
  <2>2. CASE MayCreate(RunOf[p], next[p])
    <3>1. /\ data' = [data EXCEPT ![RunOf[p]][next[p]] = exec[p]]
          /\ data[RunOf[p]][next[p]] = None /\ UNCHANGED <<manifest, marker>>
      BY <1>1, <2>2 DEF CreateObject, MayCreate
    <3>2. QED
      BY <3>1
  <2>3. QED
    BY <2>1, <2>2
<1>2. ASSUME NEW p \in Procs, WriteManifest(p) PROVE Grows
  BY <1>2 DEF WriteManifest
<1>3. ASSUME NEW p \in Procs, WriteMarker(p) PROVE Grows
  BY <1>3 DEF WriteMarker
<1>4. CASE UNCHANGED <<data, manifest, marker>>
  BY <1>4
<1>5. \/ \E p \in Procs : CreateObject(p) \/ WriteManifest(p) \/ WriteMarker(p)
      \/ UNCHANGED <<data, manifest, marker>>
  BY ZenonT(60) DEF Next, Step, StartAttempt, Fail, ProbeCommitted, ObserveState, ErrorIgnored,
                    EnsureOutputAvailable,
                    Acquire, ReclaimRead, ReclaimDelete, ReclaimCreate, Release, LoadMarker, LoadCurrent,
                    LoadState, StateHead, StateWrite, Put, CommitCheck, PromoteCheck, CurrentHead,
                    CurrentWrite, vars
<1>6. QED
  BY <1>1, <1>2, <1>3, <1>4, <1>5

\* A step leaves the sessions of the other processes alone, up to what they have
\* seen of an object that it overwrites.
LEMMA OthersKeep ==
  ASSUME TypeOK, NEW p \in Procs, StartAttempt(p) \/ Step(p) \/ Fail(p),
         NEW q \in Procs, q # p
  PROVE  /\ pc'[q] = pc[q] /\ goal'[q] = goal[q] /\ next'[q] = next[q]
         /\ records'[q] = records[q] /\ exec'[q] = exec[q]
<1> USE DEF TypeOK, Goto, Persist, session
<1>1. CASE StartAttempt(p) \/ Fail(p)
  BY <1>1 DEF StartAttempt, Fail
<1>2. CASE \/ ProbeCommitted(p) \/ ObserveState(p) \/ EnsureOutputAvailable(p)
           \/ Acquire(p) \/ ReclaimRead(p) \/ ReclaimDelete(p) \/ ReclaimCreate(p)
           \/ Release(p) \/ LoadMarker(p) \/ LoadCurrent(p) \/ LoadState(p)
  BY <1>2 DEF ProbeCommitted, ObserveState, ErrorIgnored,
              EnsureOutputAvailable, Acquire, ReclaimRead,
              ReclaimDelete, ReclaimCreate, Release, LoadMarker, LoadCurrent, LoadState
<1>3. CASE \/ StateHead(p) \/ Put(p) \/ WriteManifest(p) \/ CommitCheck(p) \/ WriteMarker(p)
           \/ PromoteCheck(p) \/ CurrentHead(p)
  BY <1>3 DEF StateHead, Put, WriteManifest, CommitCheck, WriteMarker, PromoteCheck,
              CurrentHead
<1>4. CASE StateWrite(p)
  BY <1>4 DEF StateWrite
<1>5. CASE CurrentWrite(p)
  BY <1>5 DEF CurrentWrite
<1>6. CASE CreateObject(p)
  BY <1>6 DEF CreateObject
<1>7. QED
  BY <1>1, <1>2, <1>3, <1>4, <1>5, <1>6 DEF Step

\* The step of a process keeps its own SessionInv.
LEMMA OwnSession ==
  ASSUME TypeOK, [Next]_vars, NEW p \in Procs, StartAttempt(p) \/ Step(p) \/ Fail(p),
         SessionInv(p), MarkedHasManifest
  PROVE  SessionInv(p)'
<1> DEFINE r == RunOf[p]
<1>0. r \in Runs
  BY RunOfAssumption
<1> USE <1>0 DEF TypeOK, Goto, Persist, session, SessionInv, Persisting, MarkerDone,
                 ManifestDone, UploadDone, Executed
\* Data the attempt has recorded stay, whatever this step does.
<1>1. \A o \in Objects : data[r][o] # None => data'[r][o] = data[r][o]
  BY StoreGrows
<1>2. /\ manifest[r] # None => manifest'[r] # None
      /\ marker[r] => marker'[r]
  BY StoreGrows
<1>3. ASSUME UNCHANGED <<records, exec, next>>, pc[p] # "idle",
             UploadDone(p)' => UploadDone(p),
             ManifestDone(p)' => ManifestDone(p), MarkerDone(p)' => MarkerDone(p)
      PROVE  SessionInv(p)'
  BY <1>1, <1>2, <1>3, NoneAssumption
<1>4. CASE StartAttempt(p)
  BY <1>4, NAssumption, NoneAssumption DEF StartAttempt, FreshExecs, NoRecords, Objects
<1>5. CASE Fail(p)
  BY <1>3, <1>5 DEF Fail, Working
<1>6. CASE \/ ProbeCommitted(p) \/ ObserveState(p) \/ EnsureOutputAvailable(p)
           \/ Acquire(p) \/ ReclaimRead(p) \/ ReclaimDelete(p) \/ ReclaimCreate(p)
           \/ Release(p) \/ LoadMarker(p) \/ LoadCurrent(p)
  BY <1>3, <1>6 DEF ProbeCommitted, ObserveState, ErrorIgnored,
                    EnsureOutputAvailable, Acquire, ReclaimRead,
                    ReclaimDelete, ReclaimCreate, Release, LoadMarker, LoadCurrent
<1>7. CASE LoadState(p) \/ Put(p)
  BY <1>3, <1>7 DEF LoadState, Put
<1>8. CASE StateHead(p) \/ PromoteCheck(p) \/ CurrentHead(p)
  BY <1>3, <1>8 DEF StateHead, PromoteCheck, CurrentHead
<1>9. CASE StateWrite(p)
  BY <1>3, <1>9 DEF StateWrite, AfterPersist, PublicationState
<1>10. CASE CreateObject(p)
  <2>1. CASE ~MayCreate(r, next[p])
    BY <1>3, <1>10, <2>1 DEF CreateObject
  <2>2. CASE MayCreate(r, next[p])
    <3>1. /\ data' = [data EXCEPT ![r][next[p]] = exec[p]]
          /\ records' = [records EXCEPT ![p][next[p]] = exec[p]]
          /\ pc[p] = "create" /\ UNCHANGED <<exec, manifest, marker>>
      BY <1>10, <2>2 DEF CreateObject
    <3>2. exec[p] # None
      BY <1>10 DEF CreateObject
    <3>3. \A o \in Objects : records'[p][o] = IF o = next[p] THEN exec[p] ELSE records[p][o]
      BY <3>1
    <3>4. data'[r][next[p]] = exec[p]
      BY <3>1
    <3>5. \A o \in Objects : records'[p][o] # None =>
            records'[p][o] = exec'[p] /\ data'[r][o] = exec'[p]
      BY <1>1, <3>1, <3>3, <3>4
    <3>6. CASE LastObject(next[p])
      <4>1. next' = next /\ goal' = [goal EXCEPT ![p] = "uploaded"]
        BY <1>10, <2>2, <3>6 DEF CreateObject
      <4>2. \A o \in Objects : o < next[p] \/ o = next[p]
        BY <3>6, NAssumption DEF LastObject, Objects
      <4>3. \A o \in Objects : records'[p][o] # None
        BY <3>2, <3>3, <4>2
      <4>4. ~ManifestDone(p)'
        BY <1>10, <2>2, <3>6, <4>1 DEF CreateObject
      <4>5. QED
        BY <3>1, <3>2, <3>5, <4>1, <4>3, <4>4
    <3>7. CASE ~LastObject(next[p])
      <4>1. next' = [next EXCEPT ![p] = next[p] + 1] /\ UNCHANGED pc
        BY <1>10, <2>2, <3>7 DEF CreateObject
      <4>2. \A o \in Objects : o < next'[p] => o < next[p] \/ o = next[p]
        BY <4>1, NAssumption DEF Objects
      <4>3. \A o \in Objects : o < next'[p] => records'[p][o] # None
        BY <3>2, <3>3, <4>2
      <4>4. ~UploadDone(p)'
        BY <3>1, <4>1
      <4>5. QED
        BY <3>1, <3>2, <3>5, <4>1, <4>3, <4>4
    <3>8. QED
      BY <3>6, <3>7
  <2>3. QED
    BY <2>1, <2>2
<1>11. CASE WriteManifest(p)
  <2>1. records[p] # None
    <3>1. \A o \in Objects : records[p][o] \in Execs
      BY <1>11 DEF WriteManifest
    <3>2. QED
      BY <3>1, NoneAssumption
  <2>2. /\ UNCHANGED <<data, records, exec, next>>
        /\ ManifestDone(p)' => manifest'[r] = records[p]
        /\ ~MarkerDone(p)'
    BY <1>11 DEF WriteManifest
  <2>3. QED
    BY <1>11, <2>1, <2>2 DEF WriteManifest
<1>12. CASE CommitCheck(p)
  BY <1>1, <1>2, <1>12 DEF CommitCheck
<1>13. CASE WriteMarker(p)
  BY <1>1, <1>2, <1>13 DEF WriteMarker
<1>14. CASE CurrentWrite(p)
  BY <1>3, <1>14 DEF CurrentWrite
<1>15. QED
  BY <1>4, <1>5, <1>6, <1>7, <1>8, <1>9, <1>10, <1>11, <1>12, <1>13, <1>14 DEF Step

\* A step of one process keeps the SessionInv of every process.
LEMMA Sessions ==
  ASSUME TypeOK, [Next]_vars, \A p \in Procs : SessionInv(p), MarkedHasManifest
  PROVE  \A p \in Procs : SessionInv(p)'
<1>1. CASE UNCHANGED vars
  BY <1>1 DEF vars, SessionInv, Executed, UploadDone, ManifestDone, MarkerDone, Persisting
<1>2. ASSUME NEW p \in Procs, StartAttempt(p) \/ Step(p) \/ Fail(p), NEW q \in Procs
      PROVE  SessionInv(q)'
  <2>1. CASE q = p
    BY <1>2, <2>1, OwnSession
  <2>2. CASE q # p
    <3>1. /\ pc'[q] = pc[q] /\ goal'[q] = goal[q] /\ next'[q] = next[q]
          /\ records'[q] = records[q] /\ exec'[q] = exec[q]
      BY <1>2, <2>2, OthersKeep
    <3>2. /\ UploadDone(q)' = UploadDone(q) /\ ManifestDone(q)' = ManifestDone(q)
          /\ MarkerDone(q)' = MarkerDone(q) /\ Executed(q)' = Executed(q)
      BY <3>1 DEF UploadDone, ManifestDone, MarkerDone, Persisting, Executed
    <3>3. RunOf[q] \in Runs
      BY RunOfAssumption
    <3>4. QED
      BY <3>1, <3>2, <3>3, StoreGrows DEF SessionInv
  <2>3. QED
    BY <2>1, <2>2
<1>3. QED
  BY <1>1, <1>2, Steps

\* A version whose manifest is written does not change any more.
LEMMA ManifestFreezes ==
  ASSUME TypeOK, [Next]_vars, ManifestsMatch, NEW r \in Runs, manifest[r] # None
  PROVE  data'[r] = data[r] /\ manifest'[r] = manifest[r]
<1>1. PICK e \in Execs : manifest[r] = [o \in Objects |-> e] /\ data[r] = [o \in Objects |-> e]
  BY DEF ManifestsMatch
<1>2. \A o \in Objects : data'[r][o] = data[r][o]
  BY <1>1, StoreGrows, NoneAssumption
<1>3. data'[r] = data[r]
  BY <1>2, TypeStep DEF TypeOK
<1>4. QED
  BY <1>3, StoreGrows

\* A step that writes the manifest writes it for a complete upload.
LEMMA ManifestWritten ==
  ASSUME TypeOK, NEW p \in Procs, WriteManifest(p), SessionInv(p),
         manifest[RunOf[p]] = None
  PROVE  \E e \in Execs : /\ manifest'[RunOf[p]] = [o \in Objects |-> e]
                          /\ data'[RunOf[p]] = [o \in Objects |-> e]
<1>1. RunOf[p] \in Runs /\ 1 \in Objects
  BY RunOfAssumption, NAssumption DEF Objects
<1>2. \A o \in Objects : records[p][o] = exec[p] /\ data[RunOf[p]][o] = exec[p]
  BY DEF WriteManifest, SessionInv, UploadDone
<1>3. exec[p] \in Execs
  BY <1>1, <1>2 DEF TypeOK, SessionInv, WriteManifest, UploadDone
<1>4. records[p] = [o \in Objects |-> exec[p]] /\ data[RunOf[p]] = [o \in Objects |-> exec[p]]
  BY <1>1, <1>2 DEF TypeOK
<1>5. manifest'[RunOf[p]] = records[p] /\ data' = data
  BY <1>1 DEF WriteManifest, TypeOK
<1>6. QED
  BY <1>3, <1>4, <1>5

\* One step keeps the inductive invariant.
LEMMA InvStep == ASSUME TypeOK, PublicationInv, [Next]_vars PROVE PublicationInv'
<1> USE DEF PublicationInv
<1>1. \A p \in Procs : SessionInv(p)'
  BY Sessions
<1>2. ManifestsMatch'
  <2> SUFFICES ASSUME NEW r \in Runs, manifest'[r] # None
               PROVE  \E e \in Execs : /\ manifest'[r] = [o \in Objects |-> e]
                                       /\ data'[r] = [o \in Objects |-> e]
    BY DEF ManifestsMatch
  <2>1. CASE manifest[r] # None
    BY <2>1, ManifestFreezes DEF ManifestsMatch
  <2>2. CASE manifest[r] = None
    <3>1. PICK p \in Procs : WriteManifest(p)
      BY <2>2, ZenonT(60) DEF Next, Step, StartAttempt, Fail, ProbeCommitted, ObserveState, ErrorIgnored,
                            EnsureOutputAvailable, Acquire, ReclaimRead, ReclaimDelete, ReclaimCreate,
                            Release, LoadMarker, LoadCurrent, LoadState, StateHead, StateWrite, Put,
                            CreateObject, CommitCheck, WriteMarker, PromoteCheck, CurrentHead,
                            CurrentWrite, store, vars
    <3>2. RunOf[p] = r
      BY <2>2, <3>1, RunOfAssumption DEF WriteManifest, TypeOK
    <3>3. QED
      BY <2>2, <3>1, <3>2, ManifestWritten
  <2>3. QED
    BY <2>1, <2>2
<1>3. MarkedHasManifest'
  <2> SUFFICES ASSUME NEW r \in Runs, marker'[r] PROVE manifest'[r] # None
    BY DEF MarkedHasManifest
  <2>1. CASE marker[r]
    BY <2>1, ManifestFreezes DEF MarkedHasManifest
  <2>2. CASE ~marker[r]
    <3>1. PICK p \in Procs : WriteMarker(p)
      BY <2>2 DEF Next, Step, StartAttempt, Fail, ProbeCommitted, ObserveState, ErrorIgnored,
                  EnsureOutputAvailable, Acquire, ReclaimRead, ReclaimDelete, ReclaimCreate,
                  Release, LoadMarker, LoadCurrent, LoadState, StateHead, StateWrite, Put,
                  CreateObject, CommitCheck, WriteManifest, PromoteCheck, CurrentHead,
                  CurrentWrite, store, vars
    <3>2. RunOf[p] = r
      BY <2>2, <3>1, RunOfAssumption DEF WriteMarker, TypeOK
    <3>3. QED
      BY <3>1, <3>2 DEF WriteMarker, SessionInv, ManifestDone
  <2>3. QED
    BY <2>1, <2>2
<1>4. CurrentIsMarked'
  <2>1. ASSUME NEW p \in Procs, CurrentWrite(p) PROVE CurrentIsMarked'
    BY <2>1, RunOfAssumption DEF CurrentWrite, CurrentIsMarked, SessionInv, MarkerDone
  <2>2. CASE UNCHANGED current
    BY <2>2, StoreGrows DEF CurrentIsMarked, TypeOK
  <2>3. UNCHANGED current \/ \E p \in Procs : CurrentWrite(p)
    BY ZenonT(60) DEF Next, Step, StartAttempt, Fail, ProbeCommitted, ObserveState, ErrorIgnored,
                      EnsureOutputAvailable, Acquire, ReclaimRead, ReclaimDelete, ReclaimCreate,
                      Release, LoadMarker, LoadCurrent, LoadState, StateHead, StateWrite, Put,
                      CreateObject, CommitCheck, WriteManifest, WriteMarker, PromoteCheck, CurrentHead,
                      store, vars
  <2>4. QED
    BY <2>1, <2>2, <2>3
<1>5. StateFileSound'
  <2> SUFFICES ASSUME NEW r \in Runs
               PROVE  /\ stateFile'[r] \in PublicationState \ {"preparing", "uploading"}
                           => \A o \in Objects : data'[r][o] # None
                      /\ stateFile'[r] \in {"manifest_written", "committed", "current"}
                           => manifest'[r] # None
                      /\ stateFile'[r] \in {"committed", "current"} => marker'[r]
    BY DEF StateFileSound
  <2>1. CASE stateFile'[r] = stateFile[r]
    BY <2>1, StoreGrows DEF StateFileSound
  <2>2. CASE stateFile'[r] # stateFile[r]
    <3>1. PICK p \in Procs : StateWrite(p)
      BY <2>2 DEF Next, Step, StartAttempt, Fail, ProbeCommitted, ObserveState, ErrorIgnored,
                  EnsureOutputAvailable, Acquire, ReclaimRead, ReclaimDelete, ReclaimCreate,
                  Release, LoadMarker, LoadCurrent, LoadState, StateHead, Put,
                  CreateObject, CommitCheck, WriteManifest, WriteMarker, PromoteCheck,
                  CurrentHead, CurrentWrite, store, vars
    <3>2. /\ RunOf[p] = r /\ stateFile'[r] = goal[p] /\ pc[p] = "stateWrite"
          /\ UNCHANGED <<data, manifest, marker>>
      BY <2>2, <3>1, RunOfAssumption DEF StateWrite, TypeOK
    <3>3. exec[p] # None
      BY <3>2 DEF SessionInv, Executed
    <3>4. QED
      BY <3>2, <3>3 DEF SessionInv, Persisting, UploadDone, ManifestDone, MarkerDone,
                        PublicationState
  <2>3. QED
    BY <2>1, <2>2
<1>6. QED
  BY <1>1, <1>2, <1>3, <1>4, <1>5

\* PublicationInv holds of every reachable state.
LEMMA InvAlways == Spec => []PublicationInv
<1>1. Init => PublicationInv
  BY RunOfAssumption, NAssumption, NoneAssumption
     DEF Init, PublicationInv, SessionInv, Executed, UploadDone, ManifestDone, MarkerDone,
         Persisting, ManifestsMatch, MarkedHasManifest, CurrentIsMarked, StateFileSound,
         NoRecords, Objects, PublicationState
<1>2. QED
  BY <1>1, InvStep, TypeCorrect, PTL DEF Spec

\* state.json never claims more than the store holds, for any number of runs
\* and processes, several of one run included.
THEOREM StateFilesAreSound == Spec => []StateFileSound
<1>1. PublicationInv => StateFileSound
  BY DEF PublicationInv
<1>2. QED
  BY <1>1, InvAlways, PTL

-----------------------------------------------------------------------------

\* Publication implements VersionedDataset: every step publishes a whole version,
\* promotes a published one, or is invisible to a reader who trusts COMMITTED.
THEOREM PublicationIsAtomic == Spec => AtomicPublication
<1>1. Init => Abstract!Init
  BY DEF Init, Abstract!Init, Visible
<1>2. TypeOK /\ PublicationInv /\ [Next]_vars
        => [Abstract!Next]_<<[r \in Runs |-> Visible(r)], current>>
  <2> SUFFICES ASSUME TypeOK, PublicationInv, [Next]_vars
               PROVE  [Abstract!Next]_<<[r \in Runs |-> Visible(r)], current>>
    OBVIOUS
  <2>1. ASSUME NEW r \in Runs, marker'[r] = marker[r] PROVE Visible(r)' = Visible(r)
    BY <2>1, ManifestFreezes DEF Visible, PublicationInv, MarkedHasManifest
  <2>2. ASSUME NEW p \in Procs, WriteMarker(p), ~marker[RunOf[p]]
        PROVE  Abstract!Publish(RunOf[p])
    <3>1. RunOf[p] \in Runs
      BY RunOfAssumption
    <3>2. /\ marker' = [marker EXCEPT ![RunOf[p]] = TRUE]
          /\ UNCHANGED <<current, data, manifest>>
      BY <2>2 DEF WriteMarker
    <3>3. PICK e \in Execs : /\ manifest[RunOf[p]] = [o \in Objects |-> e]
                             /\ data[RunOf[p]] = [o \in Objects |-> e]
      BY <2>2, <3>1 DEF WriteMarker, PublicationInv, SessionInv, ManifestDone, ManifestsMatch
    <3>4. Visible(RunOf[p])' = Abstract!WholeOutput(e)
      BY <3>1, <3>2, <3>3 DEF Visible, Abstract!WholeOutput, TypeOK
    <3>5. \A r \in Runs \ {RunOf[p]} : Visible(r)' = Visible(r)
      BY <2>1, <3>2 DEF TypeOK
    <3>6. [r \in Runs |-> Visible(r)]'
            = [[r \in Runs |-> Visible(r)] EXCEPT ![RunOf[p]] = Abstract!WholeOutput(e)]
      BY <3>1, <3>4, <3>5
    <3>7. QED
      BY <2>2, <3>1, <3>2, <3>6 DEF Abstract!Publish, Visible
  <2>3. ASSUME NEW p \in Procs, CurrentWrite(p), current' # current
        PROVE  Abstract!Promote(RunOf[p])
    <3>1. RunOf[p] \in Runs
      BY RunOfAssumption
    <3>2. current' = RunOf[p] /\ UNCHANGED <<data, manifest, marker>>
      BY <2>3 DEF CurrentWrite
    <3>3. marker[RunOf[p]]
      BY <2>3 DEF CurrentWrite, PublicationInv, SessionInv, MarkerDone
    <3>4. PICK e \in Execs : /\ manifest[RunOf[p]] = [o \in Objects |-> e]
                             /\ data[RunOf[p]] = [o \in Objects |-> e]
      BY <3>1, <3>3 DEF PublicationInv, MarkedHasManifest, ManifestsMatch
    <3>5. Visible(RunOf[p]) # None
      BY <3>3, <3>4, NoneAssumption DEF Visible
    <3>6. [r \in Runs |-> Visible(r)]' = [r \in Runs |-> Visible(r)]
      BY <3>2 DEF Visible
    <3>7. QED
      BY <3>1, <3>2, <3>5, <3>6 DEF Abstract!Promote
  <2>4. CASE UNCHANGED <<marker, current>>
    <3>1. [r \in Runs |-> Visible(r)]' = [r \in Runs |-> Visible(r)]
      BY <2>1, <2>4
    <3>2. QED
      BY <2>4, <3>1
  <2>5. \/ UNCHANGED <<marker, current>>
        \/ \E p \in Procs : \/ WriteMarker(p) /\ ~marker[RunOf[p]]
                            \/ CurrentWrite(p) /\ current' # current
    BY ZenonT(60) DEF Next, Step, StartAttempt, Fail, ProbeCommitted, ObserveState, ErrorIgnored,
                      EnsureOutputAvailable, Acquire, ReclaimRead, ReclaimDelete, ReclaimCreate,
                      Release, LoadMarker, LoadCurrent, LoadState, StateHead, StateWrite, Put,
                      CreateObject, CommitCheck, WriteManifest, WriteMarker, PromoteCheck, CurrentHead,
                      CurrentWrite, store, vars
  <2>6. QED
    BY <2>2, <2>3, <2>4, <2>5, RunOfAssumption DEF Abstract!Next
<1>3. QED
  BY <1>1, <1>2, TypeCorrect, InvAlways, PTL DEF Spec, AtomicPublication, Abstract!Spec

-----------------------------------------------------------------------------

\* When every process has a run of its own, the writer lock excludes: a session
\* between acquire and release owns writer.lock and is the only one there.
THEOREM WritersExclude ==
  ASSUME \A p, q \in Procs : RunOf[p] = RunOf[q] => p = q
  PROVE  Spec => []WriterExclusion
<1> DEFINE Owns == \A p \in Procs : pc[p] \in Holding \cup {"reclaimDelete"} => lock = RunOf[p]
<1>1. Init => Owns
  BY DEF Init, Holding
<1>2. ASSUME TypeOK, Owns, [Next]_vars PROVE Owns'
  <2> USE <1>2, RunOfAssumption DEF TypeOK, Goto, Persist, Holding, store
  <2>1. ASSUME NEW p \in Procs,
               \/ StartAttempt(p) \/ Fail(p) \/ ProbeCommitted(p) \/ ObserveState(p)
               \/ EnsureOutputAvailable(p)
        PROVE  Owns'
    BY <2>1 DEF StartAttempt, Fail, ProbeCommitted, ObserveState, ErrorIgnored,
                EnsureOutputAvailable
  <2>2. ASSUME NEW p \in Procs, Acquire(p) \/ ReclaimCreate(p) PROVE Owns'
    BY <2>2, NoneAssumption DEF Acquire, ReclaimCreate
  <2>3. ASSUME NEW p \in Procs, ReclaimRead(p) PROVE Owns'
    BY <2>3 DEF ReclaimRead, OwnLock
  <2>4. ASSUME NEW p \in Procs, ReclaimDelete(p) \/ Release(p) PROVE Owns'
    BY <2>4, ZenonT(60) DEF ReclaimDelete, Release
  <2>5. ASSUME NEW p \in Procs,
               LoadMarker(p) \/ LoadCurrent(p) \/ LoadState(p) \/ StateHead(p) \/ Put(p)
        PROVE  Owns'
    BY <2>5 DEF LoadMarker, LoadCurrent, LoadState, StateHead, Put
  <2>6. ASSUME NEW p \in Procs, StateWrite(p) \/ CreateObject(p) \/ CurrentWrite(p) PROVE Owns'
    BY <2>6 DEF StateWrite, CreateObject, CurrentWrite
  <2>7. ASSUME NEW p \in Procs,
               \/ WriteManifest(p) \/ CommitCheck(p) \/ WriteMarker(p)
               \/ PromoteCheck(p) \/ CurrentHead(p)
        PROVE  Owns'
    BY <2>7 DEF WriteManifest, CommitCheck, WriteMarker, PromoteCheck, CurrentHead
  <2>8. CASE UNCHANGED vars
    BY <2>8 DEF vars
  <2>9. QED
    BY <2>1, <2>2, <2>3, <2>4, <2>5, <2>6, <2>7, <2>8, Steps DEF Step
<1>3. Owns => WriterExclusion
  BY DEF WriterExclusion
<1>4. QED
  BY <1>1, <1>2, <1>3, TypeCorrect, PTL DEF Spec
=============================================================================
