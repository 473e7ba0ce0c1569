------------------------------ MODULE ScanRuns ------------------------------
(***************************************************************************)
(* A scan of the service, ParacleteService::execute_scan_and_persist: run  *)
(* the engine, take over the id the client chose, validate, redact, and    *)
(* store the run in one transaction: the report and its projections.       *)
(***************************************************************************)
EXTENDS ScanEngine

CONSTANTS Truncations,   \* RedactionPolicy::truncate_failure_messages_to
          MaxScans,      \* scans of one behaviour
          Areas          \* parts of the service to consider

ASSUME RunsAssumption ==
    /\ MaxScans \in Nat
    /\ None \notin {"invalid", "report validation", "stored validation", "unique constraint"}

VARIABLES area,      \* the part of the service this behaviour exercises
          request,   \* what the client fixed: an id, a truncation
          listed,    \* the tree as it was when the scan listed it
          runs,      \* scan_runs with their reports and projections, oldest first
          settled    \* how the last scan ended

runVars == <<request, listed, runs, settled>>

(* A behaviour exercises one part; what the others could choose is fixed. *)
Choose1(part, S) == IF area = part THEN S ELSE {CHOOSE x \in S : TRUE}

ScanRunsInit ==
    /\ tree \in Choose1("scan", Trees) /\ edits = 0 /\ listed = tree
    /\ target \in Choose1("scan", Targets)
    /\ named \in IF target = "file" THEN Files ELSE {CHOOSE f \in Files : TRUE}
    /\ stage = "idle" /\ plan = None /\ record = <<>> /\ seen = <<>> /\ report = None /\ scanNo = 0
    /\ request \in Choose1("scan", [ownId : BOOLEAN, truncate : Truncations])
    /\ runs = <<>> /\ settled = None
-----------------------------------------------------------------------------
(* apply_redaction_policy: probes go, failure messages are cut.             *)
Cut(message) == IF message # None /\ request.truncate = 0 THEN "" ELSE message

Redact(r) ==
    [r EXCEPT !.assets = [f \in DOMAIN r.assets |->
        [r.assets[f] EXCEPT !.probe = None, !.message = Cut(r.assets[f].message)]]]

ClientId == 0

(* The report as the service hands it to the store: the client's scan id    *)
(* replaces the id of the request, and only that one.                       *)
Submitted == IF request.ownId THEN [report EXCEPT !.requestId = ClientId] ELSE report

(* The projections of persist_scan_run and their primary keys.              *)
AssetRows(r) == {[path |-> f, status |-> r.assets[f].status, dataset |-> r.assets[f].dataset]
                    : f \in DOMAIN r.assets}
DatasetRows(r) == {[id |-> d.id, kind |-> d.kind, layout |-> d.layout, files |-> Cardinality(d.files)]
                    : d \in r.datasets}
FindingRows(r) == {[fingerprint |-> f.fingerprint, code |-> f.code] : f \in r.findings}

KeysFree(r) ==
    /\ Cardinality({d.id : d \in r.datasets}) = Cardinality(r.datasets)
    /\ Cardinality({f.fingerprint : f \in r.findings}) = Cardinality(r.findings)

RunOutcome(r) == IF r.summary.partial THEN "completed_partial" ELSE "completed"

StoredRun(r) ==
    [report |-> r, outcome |-> RunOutcome(r), assets |-> AssetRows(r),
     datasets |-> DatasetRows(r), findings |-> FindingRows(r), listed |-> listed]

Settle(how) ==
    /\ settled' = how
    /\ stage' = "idle"
    /\ UNCHANGED <<target, named, plan, record, seen, report, scanNo, tree, edits, request, listed>>

(* One transaction: all rows or none. *)
Persist ==
    LET stored == Redact(Submitted)
    IN  /\ stage = "report"
        /\ ValidReport(Submitted) /\ ValidReport(stored) /\ KeysFree(stored)
        /\ runs' = Append(runs, StoredRun(stored))
        /\ Settle("stored")

PersistRefused ==
    LET stored == Redact(Submitted)
        why == IF ~ValidReport(Submitted) THEN "report validation"
               ELSE IF ~ValidReport(stored) THEN "stored validation"
               ELSE IF ~KeysFree(stored) THEN "unique constraint" ELSE "database"
    IN  /\ stage = "report"
        /\ UNCHANGED runs
        /\ Settle(why)

EngineFailed ==
    /\ stage \in {"resolve failed", "invalid"}
    /\ UNCHANGED runs
    /\ Settle(stage)

ScanStep ==
    \/ /\ scanNo < MaxScans
       /\ Resolve \/ ResolveFails
       /\ listed' = tree /\ settled' = None
       /\ UNCHANGED <<request, runs>>
    \/ /\ InspectAsset \/ BuildReport
       /\ UNCHANGED runVars
    \/ /\ stage = "idle" => scanNo < MaxScans   \* nobody sees an edit after the last scan
       /\ Edit
       /\ UNCHANGED runVars
    \/ Persist \/ PersistRefused \/ EngineFailed
-----------------------------------------------------------------------------
(* Reading runs back.                                                       *)

(* list_runs_for_target: newest first. *)
RunsForTarget(limit) ==
    [i \in 1 .. (IF Len(runs) < limit THEN Len(runs) ELSE limit) |-> runs[Len(runs) + 1 - i]]

(* verify_projection_integrity compares counts with the stored report. *)
ProjectionIntegrity(run) ==
    /\ Cardinality(run.assets) = Cardinality(DOMAIN run.report.assets)
    /\ Cardinality(run.datasets) = Cardinality(run.report.datasets)
    /\ Cardinality(run.findings) = Cardinality(run.report.findings)

(* diff_reports compares finding fingerprints and dataset ids. *)
Fingerprints(r) == {f.fingerprint : f \in r.findings}
DatasetIds(r) == {d.id : d \in r.datasets}
DiffReports(a, b) ==
    [added |-> Fingerprints(b) \ Fingerprints(a), removed |-> Fingerprints(a) \ Fingerprints(b),
     datasetsAdded |-> DatasetIds(b) \ DatasetIds(a),
     datasetsRemoved |-> DatasetIds(a) \ DatasetIds(b)]
-----------------------------------------------------------------------------
(* Properties.                                                              *)

\* A stored run can be believed.  Its projections are those of its report;
\* every dataset row counts the asset rows that name it; and when it is
\* "completed" rather than "completed_partial", no file that the walk could list
\* and stat is missing from it or failed to open.  (A file the walk cannot see is
\* in no report, and a report does not say that there was one.)
StoredRunsAreWhole ==
    \A i \in DOMAIN runs :
        LET run == runs[i]
        IN  /\ ProjectionIntegrity(run)
            /\ \A d \in run.datasets :
                    Cardinality({a \in run.assets : a.dataset = d.id}) = d.files
            /\ run.outcome = "completed" =>
                  \A a \in run.assets : a.status # "failed"
            /\ run.outcome = "completed" /\ target = "directory" =>
                  \A f \in Files : run.listed[f] # None /\ run.listed[f].visible =>
                                      \E a \in run.assets : a.path = f

\* The engine never refuses its own report, whatever happens to the files while
\* it runs, and the service stores what the engine reports except in the cases
\* the code has: the client chose a scan id, asked for failure messages of
\* length 0, or the scan read Parquet files in the root and others in a directory
\* "default", which get the same dataset id.
RefusalsAreExplained ==
    /\ settled # "invalid"
    /\ settled = "report validation" => request.ownId
    /\ settled = "stored validation" => request.truncate = 0
    /\ settled = "unique constraint" => \E f, g \in DOMAIN seen : Anchor(f) = {} /\ Anchor(g) = DefaultAnchor

\* finding.rs calls the fingerprint "stable" and "derived from stable finding
\* fields": two scans of a tree nobody touched report the same findings.
UnchangedScansAgree ==
    LET latest == RunsForTarget(2)
    IN  Len(latest) = 2 /\ edits = 0 /\ ~latest[1].report.summary.truncated =>
            LET d == DiffReports(latest[2].report, latest[1].report) IN d.added = {} /\ d.removed = {}
=============================================================================
