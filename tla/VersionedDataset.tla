-------------------------- MODULE VersionedDataset --------------------------
(***************************************************************************)
(* What a published dataset prefix promises its readers: a version appears *)
(* all at once, as the whole output of one repair execution described by   *)
(* its own manifest, never changes afterwards, and CURRENT only ever names *)
(* a version that has appeared.  No locks, no uploads, no failures: this   *)
(* is the abstract specification that module Publication implements.       *)
(***************************************************************************)
CONSTANTS Runs,     \* batch runs; a version id is its run id
          Objects,  \* object keys of one version
          Execs,    \* repair executions (execution_id)
          None      \* "nothing there"

VARIABLES versions, \* what a reader finds committed under each version id
          head      \* the version CURRENT names

\* The output of one execution: all its objects and the manifest of them.
WholeOutput(e) == [objects  |-> [o \in Objects |-> e],
                   manifest |-> [o \in Objects |-> e]]

Init == /\ versions = [r \in Runs |-> None]
        /\ head = None

\* A version becomes visible, complete, in one step.
Publish(r) == /\ versions[r] = None
              /\ \E e \in Execs : versions' = [versions EXCEPT ![r] = WholeOutput(e)]
              /\ UNCHANGED head

\* CURRENT is pointed at a version that is already visible.
Promote(r) == /\ versions[r] # None
              /\ head' = r
              /\ UNCHANGED versions

Next == \E r \in Runs : Publish(r) \/ Promote(r)

Spec == Init /\ [][Next]_<<versions, head>>
=============================================================================
