---------------------------- MODULE MCPublication ----------------------------
(***************************************************************************)
(* Instances of Publication for TLC.                                       *)
(***************************************************************************)
EXTENDS Publication, TLC

CONSTANTS r1, r2, p1, p2, p3

\* Each process works for a run of its own.
OneProcessPerRun == p1 :> r1 @@ p2 :> r2

\* p1 and p2 resume the same run at the same time; p3 works for another one.
SharedRun == p1 :> r1 @@ p2 :> r1 @@ p3 :> r2

\* A single run, a single process.
LoneRun == p1 :> r1

\* Execution ids are interchangeable.
ExecSymmetry == Permutations(Execs)
=============================================================================
