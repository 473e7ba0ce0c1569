--------------------------- MODULE ColumnarJobs ----------------------------
(***************************************************************************)
(* What the columnar jobs of the command line share: the choice of the job *)
(* (parqonaut_stream::run and Pipeline::execute for conversions), the      *)
(* inputs of a conversion, and its output.                                 *)
(*                                                                         *)
(* An input file is a number, its position in the sorted list of           *)
(* discovered files; it holds total[f] batches of rows.  A file of the     *)
(* output is a sequence of what was written to it.                         *)
(***************************************************************************)
EXTENDS Naturals, Sequences, FiniteSets, SequencesExt

CONSTANTS NumFiles,     \* input files
          MaxBatches,   \* batches a file holds at most
          MaxFaults,    \* failed steps and crashes in one behaviour
          Routes,       \* ways of running a columnar job to consider
          None

ASSUME InputsAssumption ==
    /\ NumFiles \in Nat \ {0}
    /\ MaxBatches \in Nat \ {0}
    /\ MaxFaults \in Nat
    /\ None \notin Nat \X Nat /\ None \notin Seq(Nat \X Nat)

VARIABLES route,    \* how the conversion runs
          total,    \* batches in each input file
          output,   \* what is at the output path; None: what was there before
          faults

inputVars == <<route, total>>

Files == 1 .. NumFiles

(* A behaviour is one job; what the other jobs could choose is fixed. *)
Choice(active, S) == IF active THEN S ELSE {CHOOSE x \in S : TRUE}

Converting == route \in {"local", "routed", "remote", "resumable"}

(* discover_inputs returns a sorted list without duplicates; execute        *)
(* refuses an empty one, and files may hold no rows.  --state selects the   *)
(* resumable conversion and is refused for remote paths; an s3:// path      *)
(* selects storage_convert, whose output may still be local.                *)
InputsInit ==
    /\ route \in Routes
    /\ total \in Choice(Converting, [Files -> 0 .. MaxBatches])
    /\ output = None
    /\ faults = 0

Remote == route = "remote"

Fault == faults < MaxFaults /\ faults' = faults + 1

(* The rows of a file as batches, in the order a reader returns them. *)
BatchesOf(f) == [i \in 1 .. total[f] |-> <<f, i>>]

HasRows == \E f \in Files : total[f] > 0
=============================================================================
