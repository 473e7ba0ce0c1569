----------------------------- MODULE ScanEngine ----------------------------
(***************************************************************************)
(* ScanEngine::run: resolve a target into assets, inspect every asset,     *)
(* group the readable Parquet files into datasets, evaluate the rules and  *)
(* assemble a report that validate_report accepts.                         *)
(*                                                                         *)
(* A file is a number, its rank in path order.  What its path says (PathOf)*)
(* is fixed; what it holds (tree) may change while the engine runs, because*)
(* the engine lists the tree first and opens the files later.              *)
(***************************************************************************)
EXTENDS Naturals, Sequences, FiniteSets

CONSTANTS Files,      \* files under the target, in path order
          PathOf,     \* their directories, names and formats
          Contents,   \* what a file may hold
          Trees,      \* directory contents to start from
          Targets,    \* kinds of target a request may name
          MaxFiles,   \* ScanOptions::max_files
          MaxEdits,   \* changes to the tree in one behaviour
          None

ASSUME ScanAssumption ==
    /\ Files \subseteq Nat /\ IsFiniteSet(Files)
    /\ Trees \subseteq [Files -> Contents \cup {None}] /\ Trees # {}
    /\ MaxFiles \in Nat
    /\ None \notin {"text", "io_error", "format_read_error", "probe_decode_error"}

VARIABLES tree,     \* file -> what it holds, None when there is no such file
          edits,    \* changes so far
          target,   \* the kind of target of the request
          named,    \* the file that a "file" target names
          stage,    \* "idle", "inspect", "report", or the outcome
          plan,     \* the scan plan
          record,   \* asset records of the inspected assets
          seen,     \* what the inspection of a Parquet file found
          report,   \* the report, None before
          scanNo    \* scans so far; identifies the UUIDs a scan draws

scanVars == <<target, named, stage, plan, record, seen, report, scanNo>>
-----------------------------------------------------------------------------
(* Paths.  A component is a directory name, or a Hive key=value pair.       *)
Hive(comp) == comp.key # None

DirsOf(f) == IF target = "file" THEN <<>> ELSE PathOf[f].dirs

(* hive_partition_segments looks at every component below the root, the     *)
(* file's name included.                                                    *)
PartitionKeys(f) ==
    LET comps == Append(DirsOf(f), PathOf[f].name)
    IN  {comps[i].key : i \in {j \in DOMAIN comps : Hive(comps[j])}}

(* dataset_anchor_key: the directories up to the last that is not Hive.     *)
Anchor(f) ==
    LET plain == {i \in DOMAIN DirsOf(f) : ~Hive(DirsOf(f)[i])}
    IN  {<<i, DirsOf(f)[i]>> : i \in {j \in DOMAIN DirsOf(f) : \E k \in plain : j <= k}}

(* dataset_id_for_anchor: the root itself is called "default".              *)
DefaultAnchor == {<<1, [name |-> "default", key |-> None]>>}
DatasetId(a) == IF a = {} THEN DefaultAnchor ELSE a

(* ::sig<hash> is appended to the id of a dataset split off by schema.      *)
SplitId(a, sig) == [base |-> DatasetId(a), sig |-> sig]

(* Ids are strings; an asset without a dataset has None.                    *)
DirSteps == DefaultAnchor \cup UNION {{<<i, PathOf[f].dirs[i]>> : i \in DOMAIN PathOf[f].dirs} : f \in Files}
Schemas == {c.schema : c \in Contents}

ASSUME IdAssumption == None \notin [base : SUBSET DirSteps, sig : Schemas \cup {None}]
-----------------------------------------------------------------------------
(* resolve_local_scan_plan.  WalkDir returns the files in no useful order;  *)
(* entries it cannot read and files it cannot stat are left out without a   *)
(* word, and the resolver stops when it has max_files of them, even if      *)
(* there are no more.                                                       *)
Present == {f \in Files : tree[f] # None}

Listable == {f \in Present : tree[f].visible}

Cap == IF MaxFiles = 0 THEN 1 ELSE MaxFiles

\* Mutant: the walk has to go past the cap to be called truncated.
CapExceeded(assets) == Cardinality(assets) > Cap

Truncated(assets) == Cardinality(assets) >= Cap

(* A path that is not UTF-8 ends the walk with an error, unless the cap     *)
(* ends it first.                                                           *)
ResolveDirectory ==
    \E assets \in SUBSET {f \in Listable : PathOf[f].utf8} :
        /\ IF Cardinality(assets) < Cap THEN assets = Listable ELSE Cardinality(assets) = Cap
        /\ plan' = [assets |-> assets, truncated |-> Truncated(assets),
                    small |-> {f \in assets : tree[f].small}]

(* resolve_file takes the named file, whatever its size or format. *)
ResolveFile ==
    /\ named \in Present
    /\ plan' = [assets |-> {named}, truncated |-> FALSE, small |-> {f \in {named} : tree[f].small}]

Resolve ==
    /\ stage = "idle"
    /\ \/ target = "directory" /\ ResolveDirectory
       \/ target = "file" /\ ResolveFile
    /\ stage' = "inspect"
    /\ record' = [f \in {} |-> None] /\ seen' = [f \in {} |-> None]
    /\ report' = None
    /\ scanNo' = scanNo + 1
    /\ UNCHANGED <<target, named, tree, edits>>

(* MissingPath, NonUtf8Path; logical datasets and object stores are         *)
(* unsupported.                                                             *)
ResolveFails ==
    /\ stage = "idle"
    /\ \/ target \notin {"directory", "file"}
       \/ target = "file" /\ named \notin Listable
       \/ target = "directory" /\ \E f \in Present : ~PathOf[f].utf8
    /\ stage' = "resolve failed"
    /\ scanNo' = scanNo + 1
    /\ UNCHANGED <<target, named, plan, record, seen, report, tree, edits>>
-----------------------------------------------------------------------------
(* Inspection of one asset.                                                 *)

(* inspect_parquet_file reads the footer; the text probes read a bounded    *)
(* head.  CSV decodes anything, JSON must parse as far as the head goes.    *)
Readable(f) ==
    /\ tree[f] # None
    /\ CASE PathOf[f].format = "csv"     -> TRUE
         [] PathOf[f].format = "json"    -> tree[f].valid /\ tree[f].head # "long"
         [] OTHER                        -> tree[f].valid

Status(f) ==
    IF PathOf[f].format = "unknown" THEN "skipped"
    ELSE IF Readable(f) THEN "inspected" ELSE "failed"

Text(f) == PathOf[f].format \in {"csv", "json", "ndjson"}

(* probe_common and the confidence rules of the two probes: the head was    *)
(* not the whole file, the first CSV line is blank, or the format is NDJSON.*)
PartialProbe(f) ==
    CASE PathOf[f].format = "csv"    -> tree[f].head \in {"long", "padded", "blank"}
      [] PathOf[f].format = "json"   -> tree[f].head = "padded"
      [] PathOf[f].format = "ndjson" -> TRUE

(* failure_kind: a file that is gone is an IO error, one that does not      *)
(* decode a format or probe error.                                          *)
DecodeKind(f) ==
    IF PathOf[f].format = "parquet" THEN "format_read_error" ELSE "probe_decode_error"

\* Mutant: a file that is gone has no kind of its own.
KindIfThere(f) == IF tree[f] = None THEN None ELSE DecodeKind(f)

FailureKind(f) == IF tree[f] = None THEN "io_error" ELSE DecodeKind(f)

Record(f) ==
    [status  |-> Status(f),
     failure |-> IF Status(f) = "failed" THEN FailureKind(f) ELSE None,
     message |-> IF Status(f) = "failed" THEN "text" ELSE None,
     probe   |-> IF Text(f) /\ Status(f) = "inspected"
                 THEN IF PartialProbe(f) THEN "partial" ELSE "full" ELSE None,
     dataset |-> None]

(* inspect_parquet_file keeps what the footer says of columns and rows.     *)
Inspected(f) ==
    IF PathOf[f].format = "parquet" /\ Readable(f)
    THEN [g \in DOMAIN seen \cup {f} |-> IF g = f THEN tree[f] ELSE seen[g]]
    ELSE seen

Remaining == plan.assets \ DOMAIN record

InspectAsset ==
    /\ stage = "inspect"
    /\ \E f \in Remaining :
         /\ \A g \in Remaining : f <= g
         /\ record' = [g \in DOMAIN record \cup {f} |-> IF g = f THEN Record(f) ELSE record[g]]
         /\ seen' = Inspected(f)
    /\ UNCHANGED <<target, named, stage, plan, report, scanNo, tree, edits>>
-----------------------------------------------------------------------------
(* infer_parquet_datasets: one dataset for each anchor, or one for each     *)
(* schema under it unless all its files are named like parts.               *)
Members(a) == {f \in DOMAIN seen : Anchor(f) = a}
Signatures(a) == {seen[f].schema : f \in Members(a)}
AllPartNamed(a) == \A f \in Members(a) : PathOf[f].part
SplitBySchema(a) == Cardinality(Signatures(a)) > 1 /\ ~AllPartNamed(a)

GroupingKind(a) ==
    IF SplitBySchema(a) THEN "schema_split"
    ELSE IF Cardinality(Members(a)) <= 1 THEN "single_file"
    ELSE IF Cardinality(Signatures(a)) > 1 THEN "part_pattern" ELSE "path_anchor"

(* build_dataset; a Hive segment anywhere makes the layout partitioned.     *)
BuildDataset(a, id, paths) ==
    [id |-> id, anchor |-> a, files |-> paths, kind |-> GroupingKind(a),
     layout |-> IF \E f \in paths : PartitionKeys(f) # {} THEN "hive" ELSE "unpartitioned"]

InferDatasets ==
    UNION {IF SplitBySchema(a)
           THEN {BuildDataset(a, SplitId(a, s), {f \in Members(a) : seen[f].schema = s})
                   : s \in Signatures(a)}
           ELSE {BuildDataset(a, SplitId(a, None), Members(a))}
             : a \in {Anchor(f) : f \in DOMAIN seen}}
-----------------------------------------------------------------------------
(* Findings: a code and what its summary, evidence and locations are about. *)

When(condition, finding) == IF condition THEN {finding} ELSE {}

(* evaluate_scan_rules: per-asset rules.                                    *)
FormatsFound == {PathOf[f].format : f \in plan.assets} \ {"unknown"}
UnknownAssets == {f \in plan.assets : PathOf[f].format = "unknown"}

AssetRules ==
    When(UnknownAssets # {}, <<"format.unknown", UnknownAssets>>)
    \cup When(Cardinality(FormatsFound) >= 2, <<"format.mixed_dataset", FormatsFound>>)
    \cup {<<"metadata.file_too_small", f>> : f \in {g \in plan.small : PathOf[g].format = "parquet"}}
    \cup {<<"metadata.row_group_suspiciously_small", f>> : f \in {g \in DOMAIN seen : seen[g].sliced}}

(* Partition keys that differ between the files of a dataset. *)
InconsistentKeys(d) == Cardinality({PartitionKeys(f) : f \in d.files}) > 1

DatasetRules(ds) == {<<"partition.inconsistent_keys", d.files>> : d \in {e \in ds : InconsistentKeys(e)}}

(* scan_findings: truncation, unreadable Parquet, dataset inventory.        *)
StructuralFindings(ds) ==
    {<<"format.parquet_read_failed", f>> :
        f \in {g \in plan.assets : PathOf[g].format = "parquet" /\ record[g].status = "failed"}}
    \cup When(plan.truncated, <<"target.scan_truncated", plan.assets>>)
    \cup When(Cardinality(ds) >= 2, <<"dataset.multiple_detected", Cardinality(ds)>>)
    \cup {<<"partition.unpartitioned_collection", d.files>> :
            d \in {e \in ds : e.layout = "unpartitioned" /\ Cardinality(e.files) >= 2}}

(* schema_findings: bounded probes, skipped assets, ambiguous grouping.     *)
ProbeFindings ==
    {<<"format.text_probe_bounded", f>> : f \in {g \in plan.assets : record[g].probe # None}}
    \cup {<<"asset.inspection_partial", f>> : f \in {g \in plan.assets : record[g].probe = "partial"}}
    \cup When(UnknownAssets # {}, <<"asset.inspection_skipped", UnknownAssets>>)

GroupingFindings ==
    {<<"dataset.grouping_ambiguous", Members(a)>> :
        a \in {Anchor(f) : f \in {g \in DOMAIN seen : GroupingKind(Anchor(g)) \in {"schema_split", "part_pattern"}}}}

(* Every evidence gets an id of its own, Uuid::new_v4(), drawn by the scan. *)
Evidence(about) == [id |-> <<scanNo, about>>, about |-> about]

(* finding_fingerprint_payload hashes code, texts, locations and all of the *)
(* evidence, its id included.                                               *)
ComputeFingerprint(code, evidence) == <<code, evidence>>

Finalize(f) == [code |-> f[1], fingerprint |-> ComputeFingerprint(f[1], Evidence(f[2]))]

Findings(ds) ==
    {Finalize(f) : f \in AssetRules \cup DatasetRules(ds) \cup StructuralFindings(ds)
                           \cup ProbeFindings \cup GroupingFindings}
-----------------------------------------------------------------------------
(* The report.                                                              *)
CountStatus(recs, s) == Cardinality({f \in DOMAIN recs : recs[f].status = s})

Summary(recs, ds, findings) ==
    [discovered |-> Cardinality(DOMAIN recs),
     inspected  |-> CountStatus(recs, "inspected"),
     failed     |-> CountStatus(recs, "failed"),
     skipped    |-> CountStatus(recs, "skipped"),
     members    |-> Cardinality({f \in DOMAIN recs : recs[f].dataset # None}),
     datasets   |-> Cardinality(ds),
     findings   |-> Cardinality(findings),
     truncated  |-> plan.truncated,
     partial    |-> CountStatus(recs, "failed") > 0 \/ plan.truncated]

(* Inspected Parquet assets get the id of the dataset they belong to. *)
WithDataset(ds) ==
    [f \in DOMAIN record |->
        IF \E d \in ds : f \in d.files
        THEN [record[f] EXCEPT !.dataset = (CHOOSE d \in ds : f \in d.files).id]
        ELSE record[f]]

(* validate_report: the request's id, the counters, the asset records and   *)
(* dataset membership must agree.                                           *)
RecordConsistent(r) ==
    CASE r.status = "failed"    -> r.failure # None /\ r.message \notin {None, ""}
      [] r.status = "inspected" -> r.failure = None /\ r.message = None
      [] r.status = "skipped"   -> /\ r.failure = None /\ r.message = None
                                   /\ r.probe = None /\ r.dataset = None

ValidReport(r) ==
    /\ r.metadataId = r.requestId
    /\ r.summary.findings = Cardinality(r.findings)
    /\ r.summary.datasets = Cardinality(r.datasets)
    /\ r.summary.partial = (r.summary.failed > 0 \/ r.summary.truncated)
    /\ r.summary.discovered = Cardinality(DOMAIN r.assets)
    /\ \A f \in DOMAIN r.assets : RecordConsistent(r.assets[f])
    /\ r.summary.inspected = CountStatus(r.assets, "inspected")
    /\ r.summary.failed = CountStatus(r.assets, "failed")
    /\ r.summary.skipped = CountStatus(r.assets, "skipped")
    /\ r.summary.members = Cardinality({f \in DOMAIN r.assets : r.assets[f].dataset # None})
    /\ \A d \in r.datasets : \A f \in d.files : f \in DOMAIN r.assets /\ r.assets[f].dataset = d.id

(* The tail of run: datasets, findings, summary, validation. *)
BuildReport ==
    LET ds == InferDatasets
        findings == Findings(ds)
        recs == WithDataset(ds)
        r == [requestId |-> scanNo, metadataId |-> scanNo, assets |-> recs, datasets |-> ds,
              findings |-> findings, summary |-> Summary(recs, ds, findings)]
    IN  /\ stage = "inspect" /\ Remaining = {}
        /\ report' = r
        /\ stage' = IF ValidReport(r) THEN "report" ELSE "invalid"
        /\ UNCHANGED <<target, named, plan, record, seen, scanNo, tree, edits>>

(* Somebody else writes, replaces or removes a file. *)
Edit ==
    /\ edits < MaxEdits
    /\ \E f \in Files, c \in Contents \cup {None} : c # tree[f] /\ tree' = [tree EXCEPT ![f] = c]
    /\ edits' = edits + 1
    /\ UNCHANGED scanVars
=============================================================================
