--------------------------- MODULE BatchPlanning ---------------------------
(***************************************************************************)
(* Where the datasets of a batch are read and written: from the text of    *)
(* the configuration through the plan file to the run, and to a resume of  *)
(* it.                                                                     *)
(*                                                                         *)
(* A location is a record: kind ("local" or "s3"), root ("/" for an        *)
(* absolute path, "." for a relative one, else a bucket) and segs, its     *)
(* segments.  Text of a location has the same fields; its kind is "s3",    *)
(* "file" (a URI) or "path" (no scheme).                                   *)
(***************************************************************************)
EXTENDS RepairPlanning

CONSTANTS
    Configs,        \* configurations: base, root, jobs and, for each dataset, id, path, output and files
    TextPrefixes,   \* pairs of segments of which the first is a prefix of the second
    PlanEdits,      \* text of locations that an operator may write into a plan file
    UriReads,       \* what a URI parser makes of a segment with special characters, by kind
    NoHosts,        \* segments that cannot be the host of a URI
    Existing,       \* local paths that exist, as sequences of segments
    PlainFiles,     \* those of them that are no directories
    Links,          \* symbolic links, and the path of what each leads to
    Stored,         \* S3 locations with an object in them
    WorkingDir      \* the directory the commands are called from

VARIABLES
    config,
    planFile,       \* the batch plan on disk
    checked,        \* what prqnt batch check said
    snapshot,       \* the copy of the plan in the run directory
    journal,        \* the identity that the run's journal holds
    batch,          \* locations that the last run or resume works with
    touched         \* what was edited by hand, once in each file: pairs of file and field

batchPlanVars == <<config, planFile, checked, snapshot, journal, batch, touched>>

Local(root, segs) == [kind |-> "local", root |-> root, segs |-> segs]
Members == DOMAIN config.datasets

\* normalize_local_path: ".." takes the last segment back, if there is one.
Up(segs) == IF segs = <<>> THEN segs ELSE Front(segs)
Normal(segs) == FoldLeft(LAMBDA out, s : IF s = ".." THEN Up(out) ELSE Append(out, s), <<>>, segs)

\* How the system follows a path: ".." leads out of the directory that a link leads to.
Follow(path) == IF path \in DOMAIN Links THEN Links[path] ELSE path
Resolve(segs) == FoldLeft(LAMBDA out, s : IF s = ".." THEN Up(out) ELSE Follow(Append(out, s)), <<>>, segs)
Place(loc) ==
    IF loc.kind = "s3" THEN loc
    ELSE Local("/", Resolve(IF loc.root = "/" THEN loc.segs ELSE WorkingDir \o loc.segs))

\* fs::canonicalize leaves neither ".." nor a link in a path.
ASSUME ExistingAssumption == \A path \in Existing : Resolve(path) = path

Canonicalize(loc) ==
    IF loc.kind = "s3" \/ Place(loc).segs \in Existing THEN Place(loc) ELSE None
-----------------------------------------------------------------------------
(* From text to locations and back.                                         *)

\* In a URI "#" and "?" end the path (the segment they are in is cut off there), "%20" of
\* a file URI is decoded, a space of an S3 URI is encoded.
Odd(kind, s) == s = ".." \/ <<kind, s>> \in DOMAIN UriReads
Read(kind, s) == IF <<kind, s>> \in DOMAIN UriReads THEN UriReads[<<kind, s>>] ELSE [segs |-> <<s>>, ends |-> FALSE]
Plain(loc) == \A i \in DOMAIN loc.segs : ~Odd(loc.kind, loc.segs[i])

UriPath(kind, segs) ==
    LET ends == {i \in DOMAIN segs : Read(kind, segs[i]).ends}
        path == IF ends = {} THEN segs ELSE SubSeq(segs, 1, Min(ends))
    IN Normal(FoldLeft(LAMBDA out, s : out \o Read(kind, s).segs, <<>>, Normal(path)))
FromUri(loc) == IF Plain(loc) THEN loc ELSE [loc EXCEPT !.segs = UriPath(loc.kind, @)]

\* DatasetLocation::parse.  What stands before the first "/" of a file URI is its host,
\* which only "localhost" may be; text that is no URI, "file://" and all, is a path.
Parse(text) ==
    LET host == text.segs[1] IN
    CASE text.kind = "path" -> Local(text.root, Normal(text.segs))
      [] text.kind = "s3" -> FromUri(text)
      [] text.kind = "file" /\ text.root = "/" -> FromUri(Local("/", text.segs))
      [] text.kind = "file" /\ text.root # "/" /\ host = "localhost" -> FromUri(Local("/", Tail(text.segs)))
      [] text.kind = "file" /\ text.root # "/" /\ host \in NoHosts -> Local(".", Normal(<<"file:">> \o text.segs))
      [] OTHER -> None

\* display_uri writes a path into a URI as it is.
Display(loc) == IF loc.kind = "s3" THEN loc ELSE [kind |-> "file", root |-> loc.root, segs |-> loc.segs]

Join(base, loc) == IF loc # None /\ loc.root = "." THEN Local(base.root, base.segs \o loc.segs) ELSE loc
-----------------------------------------------------------------------------
(* One of two locations holds the other.  Paths are compared by segments;   *)
(* of S3 locations of one bucket the prefixes are compared as text, so that *)
(* "data" also holds "data2".                                               *)
TextPrefix(a, b) ==
    \/ IsPrefix(a, b)
    \/ a # <<>> /\ Len(a) <= Len(b) /\ IsPrefix(Front(a), b) /\ <<Last(a), b[Len(a)]>> \in TextPrefixes
Within(a, b) ==
    a.root = b.root /\ IF a.kind = "s3" THEN TextPrefix(a.segs, b.segs) ELSE IsPrefix(a.segs, b.segs)
Overlap(a, b) == a.kind = b.kind /\ (Within(a, b) \/ Within(b, a))

\* validate_batch_overlap: the source and the output of a dataset, and everything of
\* one dataset against everything of another.
Disjoint(specs) ==
    /\ \A d \in DOMAIN specs : ~Overlap(specs[d].source, specs[d].output)
    /\ \A d, e \in DOMAIN specs : d # e =>
        \A a \in {specs[d].source, specs[d].output}, b \in {specs[e].source, specs[e].output} : ~Overlap(a, b)
-----------------------------------------------------------------------------
(* Planning.                                                                *)
OutputRoot == Join(config.base, Parse(config.root))

JoinSegment(root, segment) == IF segment = ".." THEN None ELSE [root EXCEPT !.segs = Append(@, segment)]

\* resolve_dataset_output: nothing, an absolute path or URI, a relative path, a name.
OutputOf(d) ==
    LET raw == config.datasets[d].output
        uri == raw # None /\ (raw.kind # "path" \/ raw.root = "/")
        long == raw # None /\ (Len(raw.segs) > 1 \/ raw.segs[1] = "..")
    IN CASE raw = None -> JoinSegment(OutputRoot, config.datasets[d].id)
         [] uri -> Join(config.base, Parse(raw))
         [] ~uri /\ long -> Local(config.base.root, config.base.segs \o raw.segs)
         [] OTHER -> JoinSegment(OutputRoot, raw.segs[1])

SourceOf(d) ==
    LET loc == Join(config.base, Parse(config.datasets[d].path)) IN IF loc = None THEN None ELSE Canonicalize(loc)

Mappings == [d \in Members |-> [source |-> SourceOf(d), output |-> OutputOf(d)]]

\* The configuration is valid, resolve_output_mappings succeeds, and the policy and the
\* target schema of every dataset can be read.
Plannable ==
    /\ config.jobs > 0 /\ config.root # None /\ OutputRoot # None
    /\ \A d, e \in Members : d # e => config.datasets[d].id # config.datasets[e].id
    /\ \A d \in Members : SourceOf(d) # None /\ OutputOf(d) # None /\ config.datasets[d].files = "read"
    /\ \A d, e \in Members : d # e => OutputOf(d) # OutputOf(e)
    /\ Disjoint(Mappings)

Quiet == UNCHANGED <<config, journal, batch>>

\* prqnt batch check plans as well.  It asks more than the plan does: that there is
\* something at an S3 source, and that no file is where the output root is to be.
BatchCheck ==
    /\ checked = "no"
    /\ checked' =
        IF /\ Plannable
           /\ \A d \in Members : SourceOf(d).kind = "s3" => SourceOf(d) \in Stored
           /\ OutputRoot.kind = "s3" \/ Place(OutputRoot).segs \notin PlainFiles
        THEN "ok" ELSE "failed"
    /\ UNCHANGED <<planFile, snapshot, touched>> /\ Quiet

\* The plan holds the locations as text.
PlanBatch ==
    /\ planFile = None /\ Plannable
    /\ planFile' = [d \in Members |-> [source |-> Display(SourceOf(d)), output |-> Display(OutputOf(d))]]
    /\ UNCHANGED <<checked, snapshot, touched>> /\ Quiet

(* An operator corrects a location in the plan, or in the copy of it that a *)
(* resume reads.                                                            *)
Fields == {"source", "output"}
EditPlan ==
    /\ planFile # None
    /\ \E d \in Members, field \in Fields, text \in PlanEdits :
        /\ ({"plan"} \X Fields) \cap touched = {}
        /\ planFile' = [planFile EXCEPT ![d][field] = text]
        /\ touched' = touched \cup {<<"plan", field>>}
    /\ UNCHANGED <<checked, snapshot>> /\ Quiet

EditSnapshot ==
    /\ snapshot # None
    /\ \E d \in Members, field \in Fields, text \in PlanEdits :
        /\ ({"snapshot"} \X Fields) \cap touched = {}
        /\ snapshot' = [snapshot EXCEPT ![d][field] = text]
        /\ touched' = touched \cup {<<"snapshot", field>>}
    /\ UNCHANGED <<checked, planFile>> /\ Quiet
-----------------------------------------------------------------------------
(* Running.                                                                 *)
LocationsOf(plan) == [d \in DOMAIN plan |-> [source |-> Parse(plan[d].source), output |-> Parse(plan[d].output)]]
Parses(plan) == \A d \in DOMAIN plan : {LocationsOf(plan)[d].source, LocationsOf(plan)[d].output} \cap {None} = {}

\* Mutant of ValidBatchPlan: the locations were compared when the plan was made.
OnlyParses(plan) == Parses(plan)

\* validate_batch_plan, in a dry run and in a run.
ValidBatchPlan(plan) == Parses(plan) /\ Disjoint(LocationsOf(plan))

\* The snapshot and the journal are written before the executor validates the plan.
ExecuteBatch ==
    /\ planFile # None /\ journal = None
    /\ snapshot' = planFile
    /\ journal' = planFile
    /\ batch' = IF ValidBatchPlan(planFile) THEN LocationsOf(planFile) ELSE None
    /\ UNCHANGED <<config, planFile, checked, touched>>

\* assert_plan_matches_identity: the digest is of the whole plan.
MatchesIdentity(plan) == plan = journal

ResumeBatch ==
    /\ journal # None
    /\ MatchesIdentity(snapshot)
    /\ batch' = IF ValidBatchPlan(snapshot) THEN LocationsOf(snapshot) ELSE None
    /\ UNCHANGED <<config, planFile, checked, snapshot, journal, touched>>

BatchPlanInit ==
    /\ config \in Choose1("batch", Configs)
    /\ planFile = None /\ snapshot = None /\ journal = None /\ batch = None
    /\ checked = "no"
    /\ touched = {}

BatchPlanStep == BatchCheck \/ PlanBatch \/ EditPlan \/ EditSnapshot \/ ExecuteBatch \/ ResumeBatch
-----------------------------------------------------------------------------
(* Where the system would read and write.                                   *)
Places(specs) == [d \in DOMAIN specs |-> [source |-> Place(specs[d].source), output |-> Place(specs[d].output)]]

(* Whatever a run or a resume works with, no location of it, as it is       *)
(* spelled, is inside another; and what a resume works with is what the run *)
(* was started with.  If nobody edited a source in the plan, a source is    *)
(* the directory that was planned from, however the outputs are spelled,    *)
(* unless its path is one that a URI reads otherwise; and no directory is   *)
(* then written or read inside another, unless an output is relative or     *)
(* behind a link: outputs are compared as text, and plans hold bare paths   *)
(* as URIs.                                                                 *)
RunsAreDisjoint ==
    batch # None =>
        /\ Disjoint(batch)
        /\ batch = LocationsOf(journal)
        /\ <<"plan", "source">> \notin touched =>
            \A d \in DOMAIN batch : Plain(SourceOf(d)) => batch[d].source = SourceOf(d)
        /\ <<"plan", "source">> \notin touched
                /\ (\A d \in DOMAIN batch : Plain(SourceOf(d)) /\ Place(batch[d].output) = batch[d].output) =>
            Disjoint(Places(batch))
=============================================================================
