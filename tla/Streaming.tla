----------------------------- MODULE Streaming -----------------------------
(***************************************************************************)
(* The columnar jobs of the command line: a conversion (local, through the *)
(* storage backends, or resumable), a partitioned write, or a transform    *)
(* spec.  A behaviour is one job; they share nothing but what they are     *)
(* built from.                                                             *)
(***************************************************************************)
EXTENDS ConvertPipeline, ResumableConvert, Partitioning, TransformSpec

convertVars == <<route, total, output, faults>>
vars == <<convertVars, pipelineVars, resumableVars, partitionVars, specVars>>

(* The choice of the job fixes what the others would choose from. *)
Init ==
    /\ InputsInit
    /\ PipelineInit
    /\ ResumableInit
    /\ PartitionInit
    /\ SpecInit

Next ==
    \/ /\ Pipelined
       /\ PipelineNext
       /\ UNCHANGED <<resumableVars, partitionVars, specVars>>
    \/ /\ route = "resumable"
       /\ ResumableNext
       /\ UNCHANGED <<pipelineVars, partitionVars, specVars>>
    \/ /\ route = "partition"
       /\ PartitionNext
       /\ UNCHANGED <<convertVars, pipelineVars, resumableVars, specVars>>
    \/ /\ route = "spec"
       /\ SpecNext
       /\ UNCHANGED <<convertVars, pipelineVars, resumableVars, partitionVars>>

Spec == Init /\ [][Next]_vars
-----------------------------------------------------------------------------
(* tokio runs every task that can run, threads of the blocking pool are     *)
(* not preempted by one another, and an operator resumes an interrupted     *)
(* conversion.  Failures, modifications and new starts are never forced.    *)
Pipeline(A) == Pipelined /\ Live /\ A /\ UNCHANGED <<inputVars, resumableVars, partitionVars, specVars>>
Resumable(A) == route = "resumable" /\ A /\ UNCHANGED <<inputVars, pipelineVars, partitionVars, specVars>>

Fairness ==
    /\ WF_vars(Pipeline(StartTask))
    /\ \A f \in Files : WF_vars(Pipeline(ReaderStep(f)))
    /\ WF_vars(Pipeline(LocalWriterStep))
    /\ WF_vars(Pipeline(RemoteWriterStep))
    /\ WF_vars(Pipeline(EncoderStep))
    /\ WF_vars(Pipeline(UploaderStep))
    /\ WF_vars(Pipeline(Return))
    /\ WF_vars(Resumable(ProcessStep))
    /\ WF_vars(Resumable(Resume))

FairSpec == Spec /\ Fairness
-----------------------------------------------------------------------------
(* Types.                                                                   *)
Batches == {<<f, i>> : f \in Files, i \in 1 .. MaxBatches}
TypeOK ==
    /\ faults \in 0 .. MaxFaults
    /\ Len(chan) <= Capacity /\ Len(bchan) <= Capacity /\ Len(cchan) <= Capacity
    /\ Cardinality(running) <= pool
    /\ Range(chan) \subseteq Batches /\ Range(bchan) \subseteq Batches
    /\ hand \in Batches \cup {None}
    /\ upload \in {"active", "flush", "last", "put", "complete", "ok", "err"}
    /\ multipart \in {"none", "open", "completed", "aborted"}
    /\ main \in {"readers"} \cup Exited

\* The batches of an input are in a file, each once and in order, and nothing else of it.
HoldsInput(out, f) ==
    /\ \A n \in 1 .. total[f] : \E i \in DOMAIN out : out[i] = <<f, n>>
    /\ \A i \in DOMAIN out : out[i][1] = f => out[i][2] \in 1 .. total[f]
    /\ \A i, j \in DOMAIN out : i < j /\ out[i][1] = f /\ out[j][1] = f => out[i][2] < out[j][2]

(* A conversion that exits with success has written every batch of every    *)
(* input exactly once, each input's in order, and closed the file - however *)
(* the readers' batches were interleaved, wherever a sender or receiver     *)
(* went away, and also when the upload was cut into parts.                  *)
OkMeansWhole ==
    main = "done" =>
        /\ output # None
        /\ Last(output) = Footer
        /\ \A f \in Files : HoldsInput(output, f)

(* An object that a remote conversion leaves at the output holds, if it is  *)
(* complete as a Parquet file, all rows of every input whose reader did not *)
(* fail.  (A failed reader only closes its sender: the object is published  *)
(* without the rest of that input although the command then fails.)         *)
PublishedHoldsEveryGoodInput ==
    Remote /\ output # None /\ Last(output) = Footer =>
        \A f \in Files : reader[f] = "ok" => HoldsInput(output, f)

(* The conversion ends, provided the blocking pool has a thread for every   *)
(* reader and one for each task that empties a channel.                     *)
ConversionEnds ==
    Pipelined /\ pool >= NumFiles + (IF Remote THEN 2 ELSE 1) => <>(main \in Exited)

RowsWanted == {f \in Files : kept[f]}
IsRow(x) == x \notin {Header, Torn}
Rows(out) == {i \in DOMAIN out : IsRow(out[i])}

(* What a committed checkpoint promises: the output holds the rows of every *)
(* input that had any when it was read, once, in the order of the inputs,   *)
(* none older than when the conversion started, under a single header if    *)
(* the first part has one.  Excepted is a checkpoint whose parts a new      *)
(* start threw away before it died (resuming it commits an output without   *)
(* them), and a conversion that found the part of an earlier one in the     *)
(* place of an input that has no rows now.                                  *)
CommittedIsWhole ==
    route = "resumable" /\ ckpt # None /\ ckpt.committed /\ step = "idle" /\ ~spoilt =>
        /\ {output[i][1] : i \in Rows(output)} = RowsWanted
        /\ \A i, j \in Rows(output) : i < j => output[i][1] < output[j][1]
        /\ \A i \in Rows(output) : output[i][2] >= ckpt.ident[output[i][1]]
        /\ format = "csv" /\ kept[1] =>
             {i \in DOMAIN output : output[i] = Header} = {1}
        /\ Torn \notin Range(output)

(* An operator who keeps resuming gets the conversion committed, unless an  *)
(* input changed (STALE CHECKPOINT) or no part is left to finish from: no   *)
(* input had rows for a Parquet output, or the process died between the     *)
(* rename of a single part and the commit.                                  *)
Stranded == IsComplete(ckpt) /\ (staging = None \/ staging = NoParts)
ResumeCompletes ==
    route = "resumable" => <>[](\/ ckpt = None
                                \/ ckpt.committed
                                \/ ~IdentityMatches(ckpt) \/ ~VerifySourcesUnchanged(ckpt)
                                \/ Stranded)
=============================================================================
