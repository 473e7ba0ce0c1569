--------------------------- MODULE TransformSpec ---------------------------
(***************************************************************************)
(* `prqnt transform run`: a spec is a list of operations.  compile_plan    *)
(* cuts it into segments - a split is a barrier of its own, everything     *)
(* between two splits is fused - and predicts which files each segment     *)
(* leaves for the next; execute_plan then runs the segments on local       *)
(* files.                                                                  *)
(*                                                                         *)
(* A file is a set of rows.  A row has a nullable integer column, which    *)
(* filters look at, and a string column, which partitions look at.  A path *)
(* is a root (the inputs, the output or the staging directory of a step)   *)
(* and a name below it.                                                    *)
(***************************************************************************)
EXTENDS ColumnarJobs, FiniteSetsExt, TLC

CONSTANTS SpecRows,     \* contents of input files to consider
          SpecOps,      \* operations a spec may hold
          MaxOps,       \* operations in a spec
          Null

(* A filter is the sequence of the nodes of its expression, each after the  *)
(* nodes it refers to; the last is the whole.  A partition's directory is   *)
(* named after its value, and none has the name of a predicted file.        *)
Comparisons == {"eq", "ne", "lt", "le", "gt", "ge", "in"}
Atoms == Comparisons \cup {"null", "not null", "all"}
Arguments(node) ==
    CASE node.is = "not" -> {node.arg}
      [] node.is \in {"and", "or"} -> {node.left, node.right}
      [] OTHER -> {}
IsFilter(e) ==
    /\ Len(e) \in Nat \ {0} /\ DOMAIN e = 1 .. Len(e)
    /\ \A i \in DOMAIN e :
        e[i].is \in Atoms \cup {"not", "and", "or"} /\ Arguments(e[i]) \subseteq 1 .. i - 1
NoFilter == << [is |-> "all"] >>
MergedFile == "merged.parquet"
RewrittenFile(i) == ToString(i)

ASSUME SpecAssumption ==
    /\ MaxOps \in Nat \ {0}
    /\ \A op \in SpecOps :
        /\ op.is \in {"rewrite", "partition", "merge", "split"}
        /\ op.is = "rewrite" => IsFilter(op.filter)
    /\ \A contents \in SpecRows : \A i, j \in DOMAIN contents : \A r \in contents[i] :
        r.s # MergedFile /\ r.s # RewrittenFile(j)

VARIABLES spec,
          toFile,     \* the output path ends with .parquet
          overwrite,
          disk,       \* the rows of every file there is
          phase, at,  \* compile or execute, and the operation or segment
          current,    \* compile: the files the next segment reads
          plan        \* the segments

specVars == <<spec, toFile, overwrite, disk, phase, at, current, plan>>

Path(root, n, name) == [root |-> root, at |-> n, name |-> name]
Inputs == {p \in DOMAIN disk : p.root = "in"}
OutputFiles == {p \in DOMAIN disk : p.root = "out"}
Stale == [id |-> "stale", n |-> Null, s |-> "old"]

Final == Path("out", 0, "")
Step(i) == Path("step", i, "")
Below(dir, name) == [dir EXCEPT !.name = name]

(* One file, and files written over others. *)
File(p, rows) == [q \in {p} |-> rows]
NoFiles == [q \in {} |-> {}]
Over(new, files) == [p \in DOMAIN new \cup DOMAIN files |-> IF p \in DOMAIN new THEN new[p] ELSE files[p]]

Specified == route = "spec"

(* One or two inputs; the output may exist.  A spec has at least one step.  *)
SpecInit ==
    /\ spec \in Choice(Specified, UNION {[1 .. k -> SpecOps] : k \in 1 .. MaxOps})
    /\ toFile \in Choice(Specified, BOOLEAN)
    /\ overwrite \in Choice(Specified, BOOLEAN)
    /\ \E contents \in Choice(Specified, SpecRows), exists \in Choice(Specified, BOOLEAN) :
         disk = Over([p \in {Path("in", i, "") : i \in DOMAIN contents} |-> contents[p.at]],
                     IF exists THEN File(IF toFile THEN Final ELSE Below(Final, "old"), {Stale}) ELSE NoFiles)
    /\ phase = "compile"
    /\ at = 1
    /\ current = Inputs
    /\ plan = <<>>
-----------------------------------------------------------------------------
(* engine/compat.rs: every comparison with NULL is false, and NOT and !=    *)
(* turn that into true.                                                     *)
Compare(v, test) == v # Null /\ test

EvalIn(v, values) == Compare(v, v \in values)

EvaluateAtom(node, v) ==
    CASE node.is = "all" -> TRUE
      [] node.is = "eq" -> Compare(v, v = node.value)
      [] node.is = "ne" -> ~Compare(v, v = node.value)
      [] node.is = "lt" -> Compare(v, v < node.value)
      [] node.is = "le" -> Compare(v, v <= node.value)
      [] node.is = "gt" -> Compare(v, v > node.value)
      [] node.is = "ge" -> Compare(v, v >= node.value)
      [] node.is = "in" -> EvalIn(v, node.values)
      [] node.is = "null" -> v = Null
      [] node.is = "not null" -> v # Null

EvaluateFilter(e, v) ==
    LET value[i \in DOMAIN e] ==
            CASE e[i].is = "not" -> ~value[e[i].arg]
              [] e[i].is = "and" -> value[e[i].left] /\ value[e[i].right]
              [] e[i].is = "or" -> value[e[i].left] \/ value[e[i].right]
              [] OTHER -> EvaluateAtom(e[i], v)
    IN  value[Len(e)]

FilterTransform(e, rows) == {r \in rows : EvaluateFilter(e, r.n)}
-----------------------------------------------------------------------------
IsBarrier(op) == op.is = "split"

OperationToFused(op) == ~(op.is = "rewrite" /\ op.metadata)

(* validate_step: the number of files that reach the segment. *)
ValidateStep(op) ==
    IF op.is \in {"partition", "split"} THEN Cardinality(current) = 1 ELSE current # {}

(* The end of the run of operations fused with operation i. *)
FusedEnd(i) == Min({j \in i .. Len(spec) : j = Len(spec) \/ IsBarrier(spec[j + 1])})

SegmentEnd(i) == IF IsBarrier(spec[i]) THEN i ELSE FusedEnd(i)

(* predict_outputs and predict_outputs_from_fused.  resolve_inputs of a     *)
(* staging directory that does not exist yet finds nothing.                 *)
Predict(op, out, single) ==
    CASE op.is \in {"partition", "split"} -> {}
      [] op.is = "merge" -> {IF single THEN out ELSE Below(out, MergedFile)}
      [] op.is = "rewrite" -> IF single /\ Cardinality(current) = 1 THEN {out}
                              ELSE {Below(out, RewrittenFile(p.at)) : p \in current}

(* validate_spec and the test for an existing output.                       *)
CompileRefused == ~overwrite /\ OutputFiles # {}

(* One turn of compile_plan's loop. *)
CompileSegment ==
    /\ phase = "compile"
    /\ at <= Len(spec)
    /\ LET end == SegmentEnd(at)
           ops == SubSeq(spec, at, end)
           last == end = Len(spec)
           out == IF last THEN Final ELSE Step(at)
           single == last /\ toFile
       IN  IF CompileRefused \/ \E i \in DOMAIN ops : ~OperationToFused(ops[i]) \/ ~ValidateStep(ops[i])
           THEN phase' = "error" /\ UNCHANGED <<at, current, plan>>
           ELSE /\ plan' = Append(plan, [ops |-> ops, inputs |-> current, out |-> out, single |-> single])
                /\ current' = Predict(ops[Len(ops)], out, single)
                /\ at' = end + 1
                /\ UNCHANGED phase
    /\ UNCHANGED <<spec, toFile, overwrite, disk>>

Compiled ==
    /\ phase = "compile"
    /\ at > Len(spec)
    /\ phase' = "execute"
    /\ at' = 1
    /\ UNCHANGED <<spec, toFile, overwrite, disk, current, plan>>
-----------------------------------------------------------------------------
Write(files) == disk' = Over(files, disk)

\* mutant: a rewrite counts only at the head of its segment
LeadingRewrite(ops) == IF ops[1].is = "rewrite" THEN ops[1].filter ELSE NoFilter

(* collect_fused_batches with the transforms of the first rewrite of the    *)
(* segment; a file without rows yields no batch.                            *)
FirstRewrite(ops) ==
    LET rewrites == {i \in DOMAIN ops : ops[i].is = "rewrite"}
    IN  IF rewrites = {} THEN NoFilter ELSE ops[Min(rewrites)].filter

CollectBatches(seg) == {disk[p] : p \in seg.inputs} \ {{}}

FusedRows(seg) == FilterTransform(FirstRewrite(seg.ops), UNION CollectBatches(seg))

(* partition_record_batches: a file per value of the partition column.      *)
PartitionFiles(out, rows) ==
    [p \in {Below(out, r.s) : r \in rows} |-> {r \in rows : r.s = p.name}]

HasPartition(seg) == \E i \in DOMAIN seg.ops : seg.ops[i].is = "partition"

ExecuteFusedSegment(seg) ==
    \/ /\ HasPartition(seg)
       /\ Write(PartitionFiles(seg.out, FusedRows(seg)))
       /\ at' = at + 1
       /\ UNCHANGED phase
    \/ /\ ~HasPartition(seg)
       /\ seg.single /\ CollectBatches(seg) # {}
       /\ Write(File(seg.out, FusedRows(seg)))
       /\ at' = at + 1
       /\ UNCHANGED phase
    \/ /\ ~HasPartition(seg)
       /\ ~(seg.single /\ CollectBatches(seg) # {})
       /\ phase' = "error"
       /\ UNCHANGED <<at, disk>>

(* A file is where the directory for the parts should be. *)
Blocked(seg) == seg.out \in DOMAIN disk /\ (HasPartition(seg) \/ IsBarrier(seg.ops[1]))

(* split_parquet_file: parts below the output path, whatever its extension. *)
ExecuteSplit(seg) ==
    LET rows == UNION {disk[p] : p \in seg.inputs}
    IN  /\ Write(IF rows = {} THEN NoFiles ELSE File(Below(seg.out, "part"), rows))
        /\ at' = at + 1
        /\ UNCHANGED phase

(* A predicted input that is not there is an error, too. *)
ExecuteSegment ==
    /\ phase = "execute"
    /\ at <= Len(plan)
    /\ LET seg == plan[at]
       IN  IF ~(seg.inputs \subseteq DOMAIN disk) \/ Blocked(seg)
           THEN phase' = "error" /\ UNCHANGED <<at, disk>>
           ELSE IF IsBarrier(seg.ops[1])
                THEN ExecuteSplit(seg)
                ELSE ExecuteFusedSegment(seg)
    /\ UNCHANGED <<spec, toFile, overwrite, current, plan>>

(* The staging directories are removed on success only. *)
FinishPlan ==
    /\ phase = "execute"
    /\ at > Len(plan)
    /\ phase' = "ok"
    /\ disk' = [p \in {q \in DOMAIN disk : q.root # "step"} |-> disk[p]]
    /\ UNCHANGED <<spec, toFile, overwrite, at, current, plan>>

SpecNext == CompileSegment \/ Compiled \/ ExecuteSegment \/ FinishPlan
-----------------------------------------------------------------------------
(* Reference: what the operations say one after the other.  Only a rewrite  *)
(* changes the set of rows.  A comparison with NULL is unknown: it may be   *)
(* either, and so may what depends on it; rows for which the filter is      *)
(* unknown are dropped.                                                     *)
Possible(e, v) ==
    LET values[i \in DOMAIN e] ==
            CASE e[i].is = "not" -> {~a : a \in values[e[i].arg]}
              [] e[i].is = "and" -> {a /\ b : a \in values[e[i].left], b \in values[e[i].right]}
              [] e[i].is = "or" -> {a \/ b : a \in values[e[i].left], b \in values[e[i].right]}
              [] OTHER -> IF e[i].is \in Comparisons /\ v = Null THEN BOOLEAN ELSE {EvaluateAtom(e[i], v)}
    IN  values[Len(e)]
Rewrites == {i \in DOMAIN spec : spec[i].is = "rewrite"}
InputRows == UNION {disk[p] : p \in Inputs}
OutputRows == UNION {disk[p] : p \in OutputFiles}
Wanted == {r \in InputRows : \A i \in Rewrites : Possible(spec[i].filter, r.n) = {TRUE}}
Unknown == {r \in InputRows : \E i \in Rewrites : Possible(spec[i].filter, r.n) = BOOLEAN}
Negative(e) == \E i \in DOMAIN e : e[i].is \in {"ne", "not"}

(* A plan that reports success leaves exactly the rows its operations ask   *)
(* for at the output, whatever the segmentation and the predicted paths     *)
(* were: provided the spec has at most one rewrite (of the rewrites fused   *)
(* into a segment only the first is applied) and the output directory held  *)
(* no files before (those of an earlier output are not removed).  Rows a    *)
(* filter cannot decide are kept only by a filter that negates something.   *)
SpecApplied ==
    phase = "ok" /\ Cardinality(Rewrites) <= 1 /\ Stale \notin OutputRows =>
        /\ Wanted \subseteq OutputRows
        /\ OutputRows \subseteq Wanted \cup Unknown
        /\ OutputRows \cap Unknown # {} => \E i \in Rewrites : Negative(spec[i].filter)
=============================================================================
