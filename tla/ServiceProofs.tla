--------------------------- MODULE ServiceProofs ----------------------------
(***************************************************************************)
(* Proofs about the scans of the Service, for every tree, every edit while *)
(* a scan runs and every number of scans; and the types of the Service,    *)
(* from the invariants of its three parts.                                 *)
(***************************************************************************)
EXTENDS AuthTokensProofs, ListingsProofs

Statuses == {"inspected", "failed", "skipped"}
Kinds == {"io_error", "format_read_error", "probe_decode_error"}
AssetRecords == [status : Statuses, failure : Kinds \cup {None}, message : {None, "text"},
                 probe : {None, "partial", "full"}, dataset : {None}]

\* The report that the tail of ScanEngine::run assembles.
Built ==
  LET ds == InferDatasets
      recs == WithDataset(ds)
  IN  [requestId |-> scanNo, metadataId |-> scanNo, assets |-> recs, datasets |-> ds,
       findings |-> Findings(ds), summary |-> Summary(recs, ds, Findings(ds))]

\* What was inspected is what was planned, and what is kept of a Parquet file was
\* readable.
RecordsFit ==
  /\ record \in [DOMAIN record -> AssetRecords]
  /\ \A f \in DOMAIN record : RecordConsistent(record[f])
  /\ DOMAIN seen \subseteq DOMAIN record
  /\ \A f \in DOMAIN seen : record[f].status = "inspected" /\ seen[f] \in Contents

PlanFits ==
  /\ plan.assets \subseteq Files /\ plan.small \subseteq plan.assets
  /\ DOMAIN record \subseteq plan.assets

\* A plan that is not truncated has every file that the walk could see.
ListingIsWhole ==
  target = "directory" /\ ~plan.truncated =>
    \A f \in Files : listed[f] # None /\ listed[f].visible => f \in plan.assets

RunIsWhole(run) ==
  /\ ProjectionIntegrity(run)
  /\ \A d \in run.datasets : Cardinality({a \in run.assets : a.dataset = d.id}) = d.files
  /\ run.outcome = "completed" => \A a \in run.assets : a.status # "failed"
  /\ run.outcome = "completed" /\ target = "directory" =>
        \A f \in Files : run.listed[f] # None /\ run.listed[f].visible => \E a \in run.assets : a.path = f

ScanInv ==
  /\ tree \in [Files -> Contents \cup {None}]
  /\ stage \in {"idle", "inspect", "report", "resolve failed"}
  /\ (plan = None /\ stage \in {"idle", "resolve failed"}) \/ PlanFits
  /\ RecordsFit
  /\ stage \in {"inspect", "report"} => ListingIsWhole
  /\ stage = "report" => report = Built /\ DOMAIN record = plan.assets
  /\ scanNo \in 0 .. MaxScans /\ runs \in Seq({runs[i] : i \in DOMAIN runs})
  /\ Len(runs) + (IF stage = "idle" THEN 0 ELSE 1) <= scanNo
  /\ \A i \in DOMAIN runs : RunIsWhole(runs[i])
  /\ RefusalsAreExplained
  /\ stage # "idle" => settled = None
-----------------------------------------------------------------------------
(* Inspection.                                                              *)

\* The record of an asset is consistent whatever the file holds by now.
LEMMA RecordIsConsistent ==
  ASSUME NEW f
  PROVE  /\ Record(f) \in AssetRecords /\ RecordConsistent(Record(f))
         /\ PathOf[f].format = "parquet" /\ Readable(f) => Record(f).status = "inspected"
<1>1. Status(f) \in Statuses
  BY DEF Status, Statuses
<1>2. FailureKind(f) \in Kinds
  BY DEF FailureKind, DecodeKind, Kinds
<1>3. Record(f) \in AssetRecords
  BY <1>1, <1>2 DEF Record, AssetRecords
<1>4. RecordConsistent(Record(f))
  <2>1. CASE Status(f) = "failed"
    BY <1>2, <2>1, ScanAssumption DEF Record, RecordConsistent, Kinds
  <2>2. CASE Status(f) = "inspected"
    BY <2>2 DEF Record, RecordConsistent
  <2>3. CASE Status(f) = "skipped"
    BY <2>3 DEF Record, RecordConsistent
  <2>4. QED
    BY <1>1, <2>1, <2>2, <2>3 DEF Statuses
<1>5. PathOf[f].format = "parquet" /\ Readable(f) => Record(f).status = "inspected"
  BY DEF Record, Status
<1>6. QED
  BY <1>3, <1>4, <1>5
-----------------------------------------------------------------------------
(* Datasets.                                                                *)

DatasetOf(f) ==
  LET a == Anchor(f)
  IN  IF SplitBySchema(a)
      THEN BuildDataset(a, SplitId(a, seen[f].schema), {g \in Members(a) : seen[g].schema = seen[f].schema})
      ELSE BuildDataset(a, SplitId(a, None), Members(a))

\* Every dataset is the dataset of its files, so that no file is in two of them.
LEMMA DatasetsPartition ==
  /\ InferDatasets = {DatasetOf(f) : f \in DOMAIN seen}
  /\ \A d \in InferDatasets : \A f \in d.files : f \in DOMAIN seen /\ d = DatasetOf(f)
  /\ \A f \in DOMAIN seen : f \in DatasetOf(f).files
<1> DEFINE Anchors == {Anchor(f) : f \in DOMAIN seen}
           Split(a, t) == BuildDataset(a, SplitId(a, t), {f \in Members(a) : seen[f].schema = t})
           Whole(a) == BuildDataset(a, SplitId(a, None), Members(a))
           On(a) == IF SplitBySchema(a) THEN {Split(a, t) : t \in Signatures(a)} ELSE {Whole(a)}
<1>1. \A a, t : /\ Split(a, t).files = {f \in Members(a) : seen[f].schema = t}
                /\ Whole(a).files = Members(a)
  BY DEF BuildDataset
<1>2. InferDatasets = UNION {On(a) : a \in Anchors}
  BY DEF InferDatasets
<1>3. \A f : DatasetOf(f) = IF SplitBySchema(Anchor(f)) THEN Split(Anchor(f), seen[f].schema)
                            ELSE Whole(Anchor(f))
  BY DEF DatasetOf
<1>4. \A a : \A f \in Members(a) : f \in DOMAIN seen /\ Anchor(f) = a /\ seen[f].schema \in Signatures(a)
  BY DEF Members, Signatures
<1>5. \A f \in DOMAIN seen : f \in Members(Anchor(f))
  BY DEF Members
<1>6. \A a : \A t \in Signatures(a) : \E f \in Members(a) : seen[f].schema = t
  BY DEF Signatures
<1>7. \A a \in Anchors : \E f \in Members(a) : TRUE
  BY <1>5
<1> HIDE DEF Split, Whole
<1>8. ASSUME NEW d \in InferDatasets
      PROVE  /\ \E f \in DOMAIN seen : d = DatasetOf(f)
             /\ \A f \in d.files : f \in DOMAIN seen /\ d = DatasetOf(f)
  <2>1. PICK a \in Anchors : d \in On(a)
    BY <1>2
  <2>2. CASE SplitBySchema(a)
    <3>1. PICK t \in Signatures(a) : d = Split(a, t)
      BY <2>1, <2>2
    <3>2. PICK g \in Members(a) : seen[g].schema = t
      BY <1>6
    <3>3. g \in DOMAIN seen /\ d = DatasetOf(g)
      BY <1>3, <1>4, <2>2, <3>1, <3>2
    <3>4. \A f \in d.files : f \in Members(a) /\ seen[f].schema = t
      BY <1>1, <3>1
    <3>5. \A f \in d.files : f \in DOMAIN seen /\ d = DatasetOf(f)
      BY <1>3, <1>4, <2>2, <3>1, <3>4
    <3>6. QED
      BY <3>3, <3>5
  <2>3. CASE ~SplitBySchema(a)
    <3>1. d = Whole(a)
      BY <2>1, <2>3
    <3>2. \A f \in Members(a) : f \in DOMAIN seen /\ d = DatasetOf(f)
      BY <1>3, <1>4, <2>3, <3>1
    <3>3. QED
      BY <1>1, <1>7, <3>1, <3>2
  <2>4. QED
    BY <2>2, <2>3
<1>9. ASSUME NEW f \in DOMAIN seen PROVE DatasetOf(f) \in InferDatasets /\ f \in DatasetOf(f).files
  <2>1. Anchor(f) \in Anchors /\ f \in Members(Anchor(f)) /\ seen[f].schema \in Signatures(Anchor(f))
    BY <1>4, <1>5
  <2>2. DatasetOf(f) \in On(Anchor(f))
    BY <1>3, <2>1
  <2>3. f \in DatasetOf(f).files
    BY <1>1, <1>3, <2>1
  <2>4. QED
    BY <1>2, <2>1, <2>2, <2>3
<1>10. QED
  BY <1>8, <1>9

\* An asset carries the id of its dataset, and the other assets none.
LEMMA AssetsNameTheirDataset ==
  ASSUME RecordsFit
  PROVE  LET recs == WithDataset(InferDatasets)
         IN  /\ DOMAIN recs = DOMAIN record
             /\ \A f \in DOMAIN record :
                  /\ f \in DOMAIN seen => recs[f] = [record[f] EXCEPT !.dataset = DatasetOf(f).id]
                  /\ f \notin DOMAIN seen => recs[f] = record[f]
<1> DEFINE ds == InferDatasets
           recs == WithDataset(ds)
<1>1. \A f \in DOMAIN record :
        recs[f] = IF \E d \in ds : f \in d.files
                  THEN [record[f] EXCEPT !.dataset = (CHOOSE d \in ds : f \in d.files).id] ELSE record[f]
  BY DEF WithDataset
<1>2. DOMAIN recs = DOMAIN record
  BY DEF WithDataset
<1>3. ASSUME NEW f \in DOMAIN seen
      PROVE  (\E d \in ds : f \in d.files) /\ (CHOOSE d \in ds : f \in d.files) = DatasetOf(f)
  <2>1. DatasetOf(f) \in ds /\ f \in DatasetOf(f).files
    BY DatasetsPartition
  <2>2. \A d \in ds : f \in d.files => d = DatasetOf(f)
    BY DatasetsPartition
  <2>3. QED
    BY <2>1, <2>2
<1>4. \A f : (\E d \in ds : f \in d.files) => f \in DOMAIN seen
  BY DatasetsPartition
<1> HIDE DEF recs, ds
<1>5. QED
  BY <1>1, <1>2, <1>3, <1>4 DEF recs, ds
-----------------------------------------------------------------------------
(* The report.                                                              *)

LEMMA ImageIsFinite ==
  ASSUME NEW S, IsFiniteSet(S), NEW f, f = [x \in S |-> f[x]]
  PROVE  /\ IsFiniteSet({f[x] : x \in S})
         /\ Cardinality({f[x] : x \in S}) = Cardinality(S) <=> \A x, y \in S : f[x] = f[y] => x = y
<1> DEFINE T == {f[x] : x \in S}
<1>1. f \in [S -> T]
  OBVIOUS
<1>2. \A t \in T : \E x \in S : f[x] = t
  OBVIOUS
<1> HIDE DEF T
<1>3. f \in Surjection(S, T)
  BY <1>1, <1>2, Fun_IsSurj
<1>4. IsFiniteSet(T) /\ (Cardinality(T) = Cardinality(S) <=> f \in Injection(S, T))
  BY <1>3, FS_Surjection
<1>5. f \in Injection(S, T) <=> \A x, y \in S : f[x] = f[y] => x = y
  BY <1>1, Fun_IsInj, Fun_InjectionProperties
<1>6. QED
  BY <1>4, <1>5 DEF T

\* A scan of finitely many files finds finitely many datasets and findings.
LEMMA ScanIsFinite ==
  ASSUME PlanFits, RecordsFit
  PROVE  /\ IsFiniteSet(plan.assets) /\ IsFiniteSet(DOMAIN record) /\ IsFiniteSet(DOMAIN seen)
         /\ IsFiniteSet(InferDatasets) /\ IsFiniteSet(Findings(InferDatasets))
<1>1. IsFiniteSet(plan.assets) /\ IsFiniteSet(plan.small)
  BY FS_Subset, ScanAssumption DEF PlanFits
<1>2. IsFiniteSet(DOMAIN record) /\ IsFiniteSet(DOMAIN seen)
  BY <1>1, FS_Subset DEF PlanFits, RecordsFit
<1>3. IsFiniteSet(InferDatasets)
  <2> DEFINE f == [x \in DOMAIN seen |-> DatasetOf(x)]
  <2>1. f = [x \in DOMAIN seen |-> f[x]] /\ {f[x] : x \in DOMAIN seen} = {DatasetOf(x) : x \in DOMAIN seen}
    OBVIOUS
  <2> HIDE DEF f
  <2>2. QED
    BY <1>2, <2>1, ImageIsFinite, DatasetsPartition
<1> DEFINE ds == InferDatasets
<1> HIDE DEF ds
<1>4. \A S \in SUBSET plan.assets : IsFiniteSet(S)
  BY <1>1, FS_Subset
<1>5. \A S \in SUBSET DOMAIN seen : IsFiniteSet(S)
  BY <1>2, FS_Subset
<1>6. \A S \in SUBSET ds : IsFiniteSet(S)
  BY <1>3, FS_Subset DEF ds
<1>7. ASSUME NEW S, IsFiniteSet(S), NEW c PROVE IsFiniteSet({<<c, x>> : x \in S})
  <2> DEFINE f == [x \in S |-> <<c, x>>]
  <2>1. f = [x \in S |-> f[x]] /\ {<<c, x>> : x \in S} = {f[x] : x \in S}
    OBVIOUS
  <2> HIDE DEF f
  <2>2. QED
    BY <1>7, <2>1, ImageIsFinite
<1>8. ASSUME NEW S \in SUBSET ds, NEW c PROVE IsFiniteSet({<<c, d.files>> : d \in S})
  <2> DEFINE f == [d \in S |-> <<c, d.files>>]
  <2>1. f = [d \in S |-> f[d]] /\ {<<c, d.files>> : d \in S} = {f[d] : d \in S}
    OBVIOUS
  <2> HIDE DEF f
  <2>2. QED
    BY <1>6, <2>1, ImageIsFinite
<1>9. IsFiniteSet(AssetRules)
  <2> DEFINE small == {g \in plan.small : PathOf[g].format = "parquet"}
             sliced == {g \in DOMAIN seen : seen[g].sliced}
  <2>1. IsFiniteSet(small) /\ IsFiniteSet(sliced)
    BY <1>1, <1>5, FS_Subset
  <2> HIDE DEF small, sliced
  <2>2. /\ IsFiniteSet({<<"metadata.file_too_small", f>> : f \in small})
        /\ IsFiniteSet({<<"metadata.row_group_suspiciously_small", f>> : f \in sliced})
    BY <1>7, <2>1
  <2>3. /\ IsFiniteSet(When(UnknownAssets # {}, <<"format.unknown", UnknownAssets>>))
        /\ IsFiniteSet(When(Cardinality(FormatsFound) >= 2, <<"format.mixed_dataset", FormatsFound>>))
    BY FS_EmptySet, FS_Singleton DEF When
  <2>4. QED
    BY <2>2, <2>3, FS_Union DEF AssetRules, small, sliced
<1>10. IsFiniteSet(DatasetRules(ds))
  BY <1>8 DEF DatasetRules
<1>11. IsFiniteSet(StructuralFindings(ds))
  <2> DEFINE failed == {g \in plan.assets : PathOf[g].format = "parquet" /\ record[g].status = "failed"}
             flat == {e \in ds : e.layout = "unpartitioned" /\ Cardinality(e.files) >= 2}
  <2>1. IsFiniteSet(failed) /\ flat \in SUBSET ds
    BY <1>4
  <2> HIDE DEF failed, flat
  <2>2. /\ IsFiniteSet({<<"format.parquet_read_failed", f>> : f \in failed})
        /\ IsFiniteSet({<<"partition.unpartitioned_collection", d.files>> : d \in flat})
    BY <1>7, <1>8, <2>1
  <2>3. /\ IsFiniteSet(When(plan.truncated, <<"target.scan_truncated", plan.assets>>))
        /\ IsFiniteSet(When(Cardinality(ds) >= 2, <<"dataset.multiple_detected", Cardinality(ds)>>))
    BY FS_EmptySet, FS_Singleton DEF When
  <2>4. QED
    BY <2>2, <2>3, FS_Union DEF StructuralFindings, failed, flat
<1>12. IsFiniteSet(ProbeFindings)
  <2> DEFINE bounded == {g \in plan.assets : record[g].probe # None}
             partial == {g \in plan.assets : record[g].probe = "partial"}
  <2>1. IsFiniteSet(bounded) /\ IsFiniteSet(partial)
    BY <1>4
  <2> HIDE DEF bounded, partial
  <2>2. /\ IsFiniteSet({<<"format.text_probe_bounded", f>> : f \in bounded})
        /\ IsFiniteSet({<<"asset.inspection_partial", f>> : f \in partial})
    BY <1>7, <2>1
  <2>3. IsFiniteSet(When(UnknownAssets # {}, <<"asset.inspection_skipped", UnknownAssets>>))
    BY FS_EmptySet, FS_Singleton DEF When
  <2>4. QED
    BY <2>2, <2>3, FS_Union DEF ProbeFindings, bounded, partial
<1>13. IsFiniteSet(GroupingFindings)
  <2> DEFINE S == {g \in DOMAIN seen : GroupingKind(Anchor(g)) \in {"schema_split", "part_pattern"}}
             f == [x \in S |-> <<"dataset.grouping_ambiguous", Members(Anchor(x))>>]
  <2>1. f = [x \in S |-> f[x]] /\ IsFiniteSet(S)
    BY <1>5
  <2>2. {f[x] : x \in S} = GroupingFindings
    BY DEF GroupingFindings
  <2> HIDE DEF f, S
  <2>3. QED
    BY <2>1, <2>2, ImageIsFinite
<1>14. IsFiniteSet(Findings(ds))
  <2> DEFINE U == AssetRules \cup DatasetRules(ds) \cup StructuralFindings(ds) \cup ProbeFindings
                    \cup GroupingFindings
             f == [x \in U |-> Finalize(x)]
  <2>1. IsFiniteSet(U)
    BY <1>9, <1>10, <1>11, <1>12, <1>13, FS_Union
  <2>2. f = [x \in U |-> f[x]] /\ {f[x] : x \in U} = Findings(ds)
    BY DEF Findings
  <2> HIDE DEF U, f
  <2>3. QED
    BY <2>1, <2>2, ImageIsFinite
<1>15. QED
  BY <1>1, <1>2, <1>3, <1>14 DEF ds

\* The assets of the report, field by field.
LEMMA BuiltAssets ==
  ASSUME RecordsFit
  PROVE  /\ DOMAIN Built.assets = DOMAIN record
         /\ \A f \in DOMAIN record :
              /\ Built.assets[f] \in [status : Statuses, failure : Kinds \cup {None}, message : {None, "text"},
                                      probe : {None, "partial", "full"},
                                      dataset : {None} \cup {DatasetOf(g).id : g \in DOMAIN seen}]
              /\ Built.assets[f].status = record[f].status /\ Built.assets[f].failure = record[f].failure
              /\ Built.assets[f].message = record[f].message /\ Built.assets[f].probe = record[f].probe
              /\ Built.assets[f].dataset = IF f \in DOMAIN seen THEN DatasetOf(f).id ELSE None
<1> DEFINE recs == WithDataset(InferDatasets)
           ids == {None} \cup {DatasetOf(g).id : g \in DOMAIN seen}
<1>1. Built.assets = recs
  BY DEF Built
<1>2. DOMAIN recs = DOMAIN record
  BY AssetsNameTheirDataset
<1>3. ASSUME NEW f \in DOMAIN record
      PROVE  /\ recs[f] \in [status : Statuses, failure : Kinds \cup {None}, message : {None, "text"},
                             probe : {None, "partial", "full"}, dataset : ids]
             /\ recs[f].status = record[f].status /\ recs[f].failure = record[f].failure
             /\ recs[f].message = record[f].message /\ recs[f].probe = record[f].probe
             /\ recs[f].dataset = IF f \in DOMAIN seen THEN DatasetOf(f).id ELSE None
  <2>1. record[f] \in AssetRecords
    BY DEF RecordsFit
  <2>2. CASE f \in DOMAIN seen
    <3>1. recs[f] = [record[f] EXCEPT !.dataset = DatasetOf(f).id]
      BY <2>2, AssetsNameTheirDataset
    <3>2. DatasetOf(f).id \in ids
      BY <2>2
    <3> HIDE DEF recs, ids
    <3>3. QED
      BY <2>1, <2>2, <3>1, <3>2 DEF AssetRecords
  <2>3. CASE f \notin DOMAIN seen
    <3>1. recs[f] = record[f]
      BY <2>3, AssetsNameTheirDataset
    <3>2. None \in ids
      OBVIOUS
    <3> HIDE DEF recs, ids
    <3>3. QED
      BY <2>1, <2>3, <3>1, <3>2 DEF AssetRecords
  <2>4. QED
    BY <2>2, <2>3
<1>4. QED
  BY <1>1, <1>2, <1>3

\* The rest of the report.
LEMMA BuiltFields ==
  /\ Built.requestId = scanNo /\ Built.metadataId = scanNo
  /\ Built.datasets = InferDatasets /\ Built.findings = Findings(InferDatasets)
  /\ Built.summary = Summary(Built.assets, InferDatasets, Findings(InferDatasets))
BY DEF Built

\* An inspected Parquet asset may be in a dataset; nothing else of a record counts.
LEMMA ConsistencyOfFields ==
  ASSUME NEW r, NEW q, RecordConsistent(q), q.status \in Statuses,
         r.status = q.status, r.failure = q.failure, r.message = q.message,
         q.status = "inspected" \/ (r.probe = q.probe /\ r.dataset = q.dataset)
  PROVE  RecordConsistent(r)
BY DEF RecordConsistent, Statuses

\* validate_report accepts what the engine built.
LEMMA BuiltIsValid == ASSUME RecordsFit PROVE ValidReport(Built)
<1> DEFINE b == Built
<1>1. /\ b.metadataId = b.requestId /\ b.datasets = InferDatasets
      /\ b.summary = Summary(b.assets, b.datasets, b.findings)
  BY BuiltFields
<1>2. \A f \in DOMAIN b.assets : RecordConsistent(b.assets[f])
  <2> SUFFICES ASSUME NEW f \in DOMAIN record PROVE RecordConsistent(b.assets[f])
    BY BuiltAssets
  <2>1. /\ record[f] \in AssetRecords /\ RecordConsistent(record[f])
        /\ f \in DOMAIN seen => record[f].status = "inspected"
    BY DEF RecordsFit
  <2>2. record[f].status \in Statuses /\ record[f].dataset = None
    BY <2>1 DEF AssetRecords
  <2>3. QED
    BY <2>1, <2>2, BuiltAssets, ConsistencyOfFields
<1>3. \A d \in b.datasets : \A f \in d.files : f \in DOMAIN b.assets /\ b.assets[f].dataset = d.id
  BY <1>1, BuiltAssets, DatasetsPartition DEF RecordsFit
<1> HIDE DEF b
<1>4. /\ b.summary.findings = Cardinality(b.findings) /\ b.summary.datasets = Cardinality(b.datasets)
      /\ b.summary.discovered = Cardinality(DOMAIN b.assets)
      /\ b.summary.inspected = CountStatus(b.assets, "inspected")
      /\ b.summary.failed = CountStatus(b.assets, "failed")
      /\ b.summary.skipped = CountStatus(b.assets, "skipped")
      /\ b.summary.members = Cardinality({f \in DOMAIN b.assets : b.assets[f].dataset # None})
      /\ b.summary.truncated = plan.truncated
      /\ b.summary.partial = (CountStatus(b.assets, "failed") > 0 \/ plan.truncated)
  BY <1>1 DEF Summary
<1>5. ValidReport(b)
  BY <1>1, <1>2, <1>3, <1>4 DEF ValidReport
<1>6. QED
  BY <1>5 DEF b
-----------------------------------------------------------------------------
(* What the service stores of it.                                           *)

Stored == Redact(Submitted)

\* Redaction takes the probes and shortens messages; a chosen id replaces that of
\* the request.
LEMMA StoredFields ==
  ASSUME RecordsFit, report = Built
  PROVE  /\ DOMAIN Stored.assets = DOMAIN record
         /\ \A f \in DOMAIN record :
              /\ Stored.assets[f].status = record[f].status /\ Stored.assets[f].failure = record[f].failure
              /\ Stored.assets[f].message = Cut(record[f].message) /\ Stored.assets[f].probe = None
              /\ Stored.assets[f].dataset = IF f \in DOMAIN seen THEN DatasetOf(f).id ELSE None
         /\ Stored.datasets = InferDatasets /\ Stored.findings = Findings(InferDatasets)
         /\ Stored.summary = Built.summary /\ Stored.metadataId = scanNo
         /\ Stored.requestId = Submitted.requestId
<1> DEFINE u == Submitted
<1>1. /\ u.assets = Built.assets /\ u.datasets = InferDatasets /\ u.findings = Findings(InferDatasets)
      /\ u.summary = Built.summary /\ u.metadataId = scanNo
  <2>1. u = Built \/ u = [Built EXCEPT !.requestId = ClientId]
    BY DEF Submitted
  <2>2. Built = [requestId |-> scanNo, metadataId |-> scanNo, assets |-> Built.assets,
                 datasets |-> InferDatasets, findings |-> Findings(InferDatasets), summary |-> Built.summary]
    BY DEF Built
  <2> HIDE DEF u
  <2>3. QED
    BY <2>1, <2>2
<1>2. u = [requestId |-> u.requestId, metadataId |-> u.metadataId, assets |-> u.assets,
           datasets |-> u.datasets, findings |-> u.findings, summary |-> u.summary]
  <2>1. u = Built \/ u = [Built EXCEPT !.requestId = ClientId]
    BY DEF Submitted
  <2>2. Built = [requestId |-> scanNo, metadataId |-> scanNo, assets |-> Built.assets,
                 datasets |-> InferDatasets, findings |-> Findings(InferDatasets), summary |-> Built.summary]
    BY DEF Built
  <2> HIDE DEF u
  <2>3. QED
    BY <2>1, <2>2
<1> DEFINE cut == [f \in DOMAIN u.assets |->
                     [u.assets[f] EXCEPT !.probe = None, !.message = Cut(u.assets[f].message)]]
<1>3. Stored = [u EXCEPT !.assets = cut]
  BY DEF Stored, Redact
<1>4. DOMAIN cut = DOMAIN record
  BY <1>1, BuiltAssets
<1>5. ASSUME NEW f \in DOMAIN record
      PROVE  /\ cut[f].status = record[f].status /\ cut[f].failure = record[f].failure
             /\ cut[f].message = Cut(record[f].message) /\ cut[f].probe = None
             /\ cut[f].dataset = IF f \in DOMAIN seen THEN DatasetOf(f).id ELSE None
  <2>1. cut[f] = [Built.assets[f] EXCEPT !.probe = None, !.message = Cut(Built.assets[f].message)]
    BY <1>1, BuiltAssets
  <2> HIDE DEF cut
  <2>2. QED
    BY <2>1, BuiltAssets
<1> HIDE DEF cut, u
<1>6. /\ Stored.assets = cut /\ Stored.datasets = u.datasets /\ Stored.findings = u.findings
      /\ Stored.summary = u.summary /\ Stored.metadataId = u.metadataId /\ Stored.requestId = u.requestId
  BY <1>2, <1>3
<1>7. QED
  BY <1>1, <1>4, <1>5, <1>6 DEF u

\* What was a valid report still is one unless messages are cut to nothing.
LEMMA StoredIsValid ==
  ASSUME RecordsFit, report = Built, ValidReport(Submitted), request.truncate # 0
  PROVE  ValidReport(Stored)
<1> DEFINE b == Built
<1>1. Submitted.metadataId = scanNo /\ Submitted.requestId = scanNo
  <2>1. Submitted = Built \/ Submitted = [Built EXCEPT !.requestId = ClientId]
    BY DEF Submitted
  <2>2. Submitted.metadataId = scanNo
    BY <2>1, BuiltFields DEF Built
  <2>3. QED
    BY <2>2 DEF ValidReport
<1>2. ValidReport(b)
  BY BuiltIsValid
<1>3. \A m : Cut(m) = m
  BY DEF Cut
<1>4. /\ DOMAIN Stored.assets = DOMAIN b.assets
      /\ \A f \in DOMAIN b.assets : /\ Stored.assets[f].status = b.assets[f].status
                                    /\ Stored.assets[f].dataset = b.assets[f].dataset
                                    /\ RecordConsistent(Stored.assets[f])
  <2>1. DOMAIN Stored.assets = DOMAIN record /\ DOMAIN b.assets = DOMAIN record
    BY StoredFields, BuiltAssets
  <2>2. ASSUME NEW f \in DOMAIN record
        PROVE  /\ Stored.assets[f].status = b.assets[f].status
               /\ Stored.assets[f].dataset = b.assets[f].dataset
               /\ RecordConsistent(Stored.assets[f])
    <3>1. /\ Stored.assets[f].status = b.assets[f].status
          /\ Stored.assets[f].dataset = b.assets[f].dataset
      BY StoredFields, BuiltAssets
    <3>2. record[f] \in AssetRecords /\ RecordConsistent(record[f])
      BY DEF RecordsFit
    <3>3. /\ Stored.assets[f].status = record[f].status /\ Stored.assets[f].failure = record[f].failure
          /\ Stored.assets[f].message = record[f].message /\ Stored.assets[f].probe = None
          /\ f \notin DOMAIN seen => Stored.assets[f].dataset = None
      BY <1>3, StoredFields
    <3>4. f \in DOMAIN seen => record[f].status = "inspected"
      BY DEF RecordsFit
    <3>5. record[f].status \in Statuses
      BY <3>2 DEF AssetRecords
    <3>6. RecordConsistent(Stored.assets[f])
      BY <3>2, <3>3, <3>4, <3>5 DEF RecordConsistent, Statuses
    <3>7. QED
      BY <3>1, <3>6
  <2>3. QED
    BY <2>1, <2>2
<1>5. /\ Stored.datasets = b.datasets /\ Stored.findings = b.findings /\ Stored.summary = b.summary
      /\ Stored.metadataId = Stored.requestId
  BY <1>1, StoredFields, BuiltFields
<1> HIDE DEF b
<1>6. \A t : CountStatus(Stored.assets, t) = CountStatus(b.assets, t)
  <2> SUFFICES ASSUME NEW t PROVE CountStatus(Stored.assets, t) = CountStatus(b.assets, t)
    OBVIOUS
  <2>1. {f \in DOMAIN Stored.assets : Stored.assets[f].status = t}
          = {f \in DOMAIN b.assets : b.assets[f].status = t}
    BY <1>4
  <2>2. QED
    BY <2>1 DEF CountStatus
<1>7. {f \in DOMAIN Stored.assets : Stored.assets[f].dataset # None}
        = {f \in DOMAIN b.assets : b.assets[f].dataset # None}
  BY <1>4
<1>8. QED
  BY <1>2, <1>4, <1>5, <1>6, <1>7 DEF ValidReport

\* A fingerprint determines its finding.
LEMMA FingerprintsDiffer ==
  ASSUME NEW ds PROVE \A e, f \in Findings(ds) : e.fingerprint = f.fingerprint => e = f
BY DEF Findings, Finalize, ComputeFingerprint

\* The id of a dataset determines it unless there are Parquet files both in the root
\* and in a directory called "default".
NoTwoDefaults == ~\E f, g \in DOMAIN seen : Anchor(f) = {} /\ Anchor(g) = DefaultAnchor

LEMMA DatasetIdsDiffer ==
  ASSUME RecordsFit, NoTwoDefaults
  PROVE  \A d, e \in InferDatasets : d.id = e.id => d = e
<1> SUFFICES ASSUME NEW f \in DOMAIN seen, NEW g \in DOMAIN seen, DatasetOf(f).id = DatasetOf(g).id
             PROVE  DatasetOf(f) = DatasetOf(g)
  BY DatasetsPartition
<1>1. \A h : /\ DatasetOf(h).id.base = DatasetId(Anchor(h))
             /\ SplitBySchema(Anchor(h)) => DatasetOf(h).id.sig = seen[h].schema
  BY DEF DatasetOf, BuildDataset, SplitId
<1>2. DatasetId(Anchor(f)) = DatasetId(Anchor(g))
  BY <1>1
<1>3. Anchor(f) = Anchor(g)
  BY <1>2 DEF DatasetId, NoTwoDefaults
<1>4. CASE SplitBySchema(Anchor(f))
  <2>1. seen[f].schema = seen[g].schema
    BY <1>1, <1>3, <1>4
  <2>2. QED
    BY <1>3, <2>1 DEF DatasetOf
<1>5. CASE ~SplitBySchema(Anchor(f))
  BY <1>3, <1>5 DEF DatasetOf
<1>6. QED
  BY <1>4, <1>5

\* The unique constraints hold then.
LEMMA KeysAreFree ==
  ASSUME PlanFits, RecordsFit, report = Built, NoTwoDefaults
  PROVE  KeysFree(Stored)
<1> DEFINE ds == InferDatasets
           fs == Findings(ds)
<1>1. IsFiniteSet(ds) /\ IsFiniteSet(fs)
  BY ScanIsFinite
<1>2. \A d, e \in ds : d.id = e.id => d = e
  BY DatasetIdsDiffer DEF PlanFits, RecordsFit
<1>3. \A e, f \in fs : e.fingerprint = f.fingerprint => e = f
  BY FingerprintsDiffer
<1>4. Stored.datasets = ds /\ Stored.findings = fs
  BY StoredFields
<1> HIDE DEF ds, fs
<1>5. Cardinality({d.id : d \in ds}) = Cardinality(ds)
  <2> DEFINE f == [d \in ds |-> d.id]
  <2>1. f = [d \in ds |-> f[d]] /\ {d.id : d \in ds} = {f[d] : d \in ds}
    OBVIOUS
  <2>2. \A d, e \in ds : f[d] = f[e] => d = e
    BY <1>2
  <2> HIDE DEF f
  <2>3. QED
    BY <1>1, <2>1, <2>2, ImageIsFinite
<1>6. Cardinality({e.fingerprint : e \in fs}) = Cardinality(fs)
  <2> DEFINE f == [e \in fs |-> e.fingerprint]
  <2>1. f = [e \in fs |-> f[e]] /\ {e.fingerprint : e \in fs} = {f[e] : e \in fs}
    OBVIOUS
  <2>2. \A d, e \in fs : f[d] = f[e] => d = e
    BY <1>3
  <2> HIDE DEF f
  <2>3. QED
    BY <1>1, <2>1, <2>2, ImageIsFinite
<1>7. QED
  BY <1>4, <1>5, <1>6 DEF KeysFree

\* A dataset has an id, which is not the absence of one.
LEMMA IdsAreNotNone ==
  ASSUME PlanFits, RecordsFit, NEW f \in DOMAIN seen
  PROVE  DatasetOf(f).id # None
<1> DEFINE Bases == SUBSET DirSteps
<1>1. f \in Files /\ seen[f] \in Contents
  BY DEF PlanFits, RecordsFit
<1>2. Anchor(f) \in Bases
  <2>1. {<<i, PathOf[f].dirs[i]>> : i \in DOMAIN PathOf[f].dirs} \subseteq DirSteps
    BY <1>1 DEF DirSteps
  <2>2. CASE target = "file"
    BY <2>2 DEF Anchor, DirsOf
  <2>3. CASE target # "file"
    <3>1. DirsOf(f) = PathOf[f].dirs
      BY <2>3 DEF DirsOf
    <3>2. Anchor(f) \subseteq {<<i, PathOf[f].dirs[i]>> : i \in DOMAIN PathOf[f].dirs}
      BY <3>1 DEF Anchor
    <3>3. QED
      BY <2>1, <3>2
  <2>4. QED
    BY <2>2, <2>3
<1>3. DatasetId(Anchor(f)) \in Bases
  BY <1>2 DEF DatasetId, DirSteps
<1>4. seen[f].schema \in Schemas
  BY <1>1 DEF Schemas
<1> HIDE DEF Bases
<1>5. DatasetOf(f).id \in [base : Bases, sig : Schemas \cup {None}]
  BY <1>3, <1>4 DEF DatasetOf, BuildDataset, SplitId
<1>6. QED
  BY <1>5, IdAssumption DEF Bases

\* What the transaction writes is a whole run.
LEMMA StoredRunIsWhole ==
  ASSUME PlanFits, RecordsFit, ListingIsWhole, report = Built, DOMAIN record = plan.assets,
         KeysFree(Stored), ValidReport(Stored)
  PROVE  RunIsWhole(StoredRun(Stored))
<1> DEFINE r == Stored
           run == StoredRun(r)
           ds == InferDatasets
           fs == Findings(ds)
           Row(f) == [path |-> f, status |-> r.assets[f].status, dataset |-> r.assets[f].dataset]
           DRow(d) == [id |-> d.id, kind |-> d.kind, layout |-> d.layout, files |-> Cardinality(d.files)]
           FRow(f) == [fingerprint |-> f.fingerprint, code |-> f.code]
<1>1. /\ DOMAIN r.assets = DOMAIN record /\ r.datasets = ds /\ r.findings = fs
      /\ \A f \in DOMAIN record :
           r.assets[f].dataset = IF f \in DOMAIN seen THEN DatasetOf(f).id ELSE None
  BY StoredFields
<1>2. /\ run.report = r /\ run.listed = listed /\ run.outcome = RunOutcome(r)
      /\ run.assets = {Row(f) : f \in DOMAIN record} /\ run.datasets = {DRow(d) : d \in ds}
      /\ run.findings = {FRow(f) : f \in fs}
  BY <1>1 DEF StoredRun, AssetRows, DatasetRows, FindingRows
<1>3. IsFiniteSet(DOMAIN record) /\ IsFiniteSet(DOMAIN seen) /\ IsFiniteSet(ds) /\ IsFiniteSet(fs)
  BY ScanIsFinite
<1>4. \A f : Row(f).path = f /\ Row(f).status = r.assets[f].status /\ Row(f).dataset = r.assets[f].dataset
  OBVIOUS
<1>5. \A d : DRow(d).id = d.id /\ DRow(d).files = Cardinality(d.files)
  OBVIOUS
<1>6. \A f : FRow(f).fingerprint = f.fingerprint
  OBVIOUS
<1>7. \A d, e \in ds : d.id = e.id => d = e
  <2> DEFINE f == [d \in ds |-> d.id]
  <2>1. f = [d \in ds |-> f[d]] /\ {d.id : d \in ds} = {f[d] : d \in ds}
    OBVIOUS
  <2>2. Cardinality({d.id : d \in ds}) = Cardinality(ds)
    BY <1>1 DEF KeysFree
  <2>3. \A d \in ds : f[d] = d.id
    OBVIOUS
  <2> HIDE DEF f, ds
  <2>4. \A d, e \in ds : f[d] = f[e] => d = e
    BY <1>3, <2>1, <2>2, ImageIsFinite
  <2>5. QED
    BY <2>3, <2>4
<1>8. \A e, f \in fs : e.fingerprint = f.fingerprint => e = f
  BY FingerprintsDiffer
<1>9. ASSUME NEW g \in DOMAIN seen, NEW f \in DOMAIN record
      PROVE  r.assets[f].dataset = DatasetOf(g).id <=> f \in DatasetOf(g).files
  <2>1. DatasetOf(g) \in ds /\ \A h \in DatasetOf(g).files : h \in DOMAIN seen /\ DatasetOf(g) = DatasetOf(h)
    BY DatasetsPartition
  <2>2. f \in DOMAIN seen => DatasetOf(f) \in ds /\ f \in DatasetOf(f).files
    BY DatasetsPartition
  <2>3. DatasetOf(g).id # None
    BY IdsAreNotNone
  <2>4. CASE f \in DOMAIN seen
    <3>1. r.assets[f].dataset = DatasetOf(f).id
      BY <1>1, <2>4
    <3> HIDE DEF ds, r
    <3>2. QED
      BY <1>7, <2>1, <2>2, <2>4, <3>1
  <2>5. CASE f \notin DOMAIN seen
    BY <1>1, <2>1, <2>3, <2>5
  <2>6. QED
    BY <2>4, <2>5
<1>10. r.summary.truncated = plan.truncated
  BY StoredFields, BuiltFields DEF Summary
<1>11. \A d \in ds : (\E g \in DOMAIN seen : d = DatasetOf(g)) /\ d.files \subseteq DOMAIN seen
  BY DatasetsPartition
<1> HIDE DEF r, run, ds, fs, Row, DRow, FRow
<1>12. ProjectionIntegrity(run)
  <2>1. Cardinality(run.assets) = Cardinality(DOMAIN record)
    <3> DEFINE D == DOMAIN record
               f == [x \in D |-> Row(x)]
    <3>1. f = [x \in D |-> f[x]] /\ run.assets = {f[x] : x \in D} /\ IsFiniteSet(D)
      BY <1>2, <1>3
    <3>2. \A x, y \in D : f[x] = f[y] => x = y
      BY <1>4
    <3> HIDE DEF f, D
    <3>3. Cardinality(run.assets) = Cardinality(D)
      BY <3>1, <3>2, ImageIsFinite
    <3>4. QED
      BY <3>3 DEF D
  <2>2. Cardinality(run.datasets) = Cardinality(ds)
    <3> DEFINE f == [x \in ds |-> DRow(x)]
    <3>1. f = [x \in ds |-> f[x]] /\ run.datasets = {f[x] : x \in ds}
      BY <1>2
    <3>2. \A x, y \in ds : f[x] = f[y] => x = y
      BY <1>5, <1>7
    <3> HIDE DEF f
    <3>3. QED
      BY <1>3, <3>1, <3>2, ImageIsFinite
  <2>3. Cardinality(run.findings) = Cardinality(fs)
    <3> DEFINE f == [x \in fs |-> FRow(x)]
    <3>1. f = [x \in fs |-> f[x]] /\ run.findings = {f[x] : x \in fs}
      BY <1>2
    <3>2. \A x, y \in fs : f[x] = f[y] => x = y
      BY <1>6, <1>8
    <3> HIDE DEF f
    <3>3. QED
      BY <1>3, <3>1, <3>2, ImageIsFinite
  <2>4. QED
    BY <1>1, <1>2, <2>1, <2>2, <2>3 DEF ProjectionIntegrity
<1>13. ASSUME NEW x \in run.datasets
       PROVE  Cardinality({a \in run.assets : a.dataset = x.id}) = x.files
  <2>1. PICK d \in ds : x = DRow(d)
    BY <1>2
  <2>2. PICK g \in DOMAIN seen : d = DatasetOf(g)
    BY <1>11
  <2>3. d.files \subseteq DOMAIN record /\ IsFiniteSet(d.files)
    BY <1>3, <1>11, FS_Subset DEF RecordsFit
  <2> DEFINE f == [y \in d.files |-> Row(y)]
  <2>4. f = [y \in d.files |-> f[y]] /\ \A y, z \in d.files : f[y] = f[z] => y = z
    BY <1>4
  <2>5. {a \in run.assets : a.dataset = d.id} = {f[y] : y \in d.files}
    <3>1. ASSUME NEW y \in DOMAIN record PROVE Row(y).dataset = d.id <=> y \in d.files
      BY <1>4, <1>9, <2>2
    <3>2. {a \in run.assets : a.dataset = d.id} = {Row(y) : y \in d.files}
      BY <1>2, <2>3, <3>1
    <3>3. QED
      BY <3>2
  <2> HIDE DEF f
  <2>6. Cardinality({f[y] : y \in d.files}) = Cardinality(d.files)
    BY <2>3, <2>4, ImageIsFinite
  <2>7. QED
    BY <1>5, <2>1, <2>5, <2>6
<1>14. ASSUME run.outcome = "completed"
       PROVE  ~plan.truncated /\ \A f \in DOMAIN record : r.assets[f].status # "failed"
  <2>1. ~r.summary.partial
    BY <1>2, <1>14 DEF RunOutcome
  <2>2. ~(r.summary.failed > 0) /\ ~r.summary.truncated
    BY <2>1 DEF r, ValidReport
  <2>3. r.summary.failed = Cardinality({f \in DOMAIN record : r.assets[f].status = "failed"})
    BY <1>1 DEF r, ValidReport, CountStatus
  <2> DEFINE F == {f \in DOMAIN record : r.assets[f].status = "failed"}
  <2>4. IsFiniteSet(F) /\ Cardinality(F) \in Nat
    BY <1>3, FS_Subset, FS_CardinalityType
  <2>5. Cardinality(F) = 0
    BY <2>2, <2>3, <2>4
  <2>6. F = {}
    BY <2>4, <2>5, FS_EmptySet
  <2>7. QED
    BY <1>10, <2>2, <2>6
<1>15. ASSUME run.outcome = "completed" PROVE \A a \in run.assets : a.status # "failed"
  BY <1>2, <1>4, <1>14, <1>15
<1>16. ASSUME run.outcome = "completed", target = "directory", NEW f \in Files,
             run.listed[f] # None, run.listed[f].visible
       PROVE  \E a \in run.assets : a.path = f
  <2>1. f \in DOMAIN record
    BY <1>2, <1>14, <1>16 DEF ListingIsWhole
  <2>2. QED
    BY <1>2, <1>4, <2>1
<1>17. QED
  BY <1>12, <1>13, <1>15, <1>16 DEF RunIsWhole, run, r
-----------------------------------------------------------------------------
(* Steps.                                                                   *)

\* The report depends on what was planned and inspected, not on the tree.
LEMMA BuiltIsStable ==
  ASSUME UNCHANGED <<target, plan, record, seen, scanNo>> PROVE Built' = Built
<1>1. \A f : DirsOf(f)' = DirsOf(f)
  BY DEF DirsOf
<1>2. \A f : PartitionKeys(f)' = PartitionKeys(f) /\ Anchor(f)' = Anchor(f)
  BY <1>1 DEF PartitionKeys, Anchor
<1>3. \A a : Members(a)' = Members(a)
  BY <1>2 DEF Members
<1>4. \A a : Signatures(a)' = Signatures(a) /\ AllPartNamed(a)' = AllPartNamed(a)
  BY <1>3 DEF Signatures, AllPartNamed
<1>5. \A a : SplitBySchema(a)' = SplitBySchema(a)
  BY <1>4 DEF SplitBySchema
<1>6. \A a : GroupingKind(a)' = GroupingKind(a)
  BY <1>3, <1>4, <1>5 DEF GroupingKind
<1>7. \A a, id, paths : BuildDataset(a, id, paths)' = BuildDataset(a, id, paths)
  BY <1>2, <1>6 DEF BuildDataset
<1>8. InferDatasets' = InferDatasets
  BY <1>2, <1>3, <1>4, <1>5, <1>7 DEF InferDatasets
<1>9. /\ FormatsFound' = FormatsFound /\ UnknownAssets' = UnknownAssets /\ ProbeFindings' = ProbeFindings
      /\ AssetRules' = AssetRules
  BY DEF FormatsFound, UnknownAssets, ProbeFindings, AssetRules
<1>10. \A d : InconsistentKeys(d)' = InconsistentKeys(d)
  BY <1>2 DEF InconsistentKeys
<1>11. \A ds : DatasetRules(ds)' = DatasetRules(ds) /\ StructuralFindings(ds)' = StructuralFindings(ds)
  BY <1>10 DEF DatasetRules, StructuralFindings
<1>12. GroupingFindings' = GroupingFindings
  BY <1>2, <1>3, <1>6 DEF GroupingFindings
<1>13. \A f : Finalize(f)' = Finalize(f)
  BY DEF Finalize, Evidence
<1>14. \A ds : Findings(ds)' = Findings(ds)
  BY <1>9, <1>11, <1>12, <1>13 DEF Findings
<1>15. \A ds : WithDataset(ds)' = WithDataset(ds)
  BY DEF WithDataset
<1>16. \A recs, ds, findings : Summary(recs, ds, findings)' = Summary(recs, ds, findings)
  BY DEF Summary
<1>17. QED
  BY <1>8, <1>14, <1>15, <1>16 DEF Built

LEMMA WholeIsStable == ASSUME UNCHANGED target PROVE \A x : RunIsWhole(x)' <=> RunIsWhole(x)
BY DEF RunIsWhole, ProjectionIntegrity

LEMMA AnchorIsStable == ASSUME UNCHANGED target PROVE \A f : Anchor(f)' = Anchor(f)
<1>1. \A f : DirsOf(f)' = DirsOf(f)
  BY DEF DirsOf
<1>2. QED
  BY <1>1 DEF Anchor

\* Steps that store nothing and settle nothing.
LEMMA RunsStay ==
  ASSUME ScanInv, UNCHANGED <<target, request, runs>>, settled' = None \/ UNCHANGED <<settled, seen>>
  PROVE  (\A i \in DOMAIN runs : RunIsWhole(runs[i]))' /\ RefusalsAreExplained'
         /\ (runs \in Seq({runs[i] : i \in DOMAIN runs}))'
<1>1. (\A i \in DOMAIN runs : RunIsWhole(runs[i]))'
  BY WholeIsStable DEF ScanInv
<1>2. RefusalsAreExplained'
  BY AnchorIsStable, RunsAssumption DEF ScanInv, RefusalsAreExplained
<1>3. QED
  BY <1>1, <1>2 DEF ScanInv

LEMMA ScanCounts ==
  ASSUME ScanInv, stage = "idle", scanNo < MaxScans, scanNo' = scanNo + 1, UNCHANGED runs
  PROVE  scanNo' \in 0 .. MaxScans /\ Len(runs') + 1 <= scanNo'
<1>1. scanNo \in 0 .. MaxScans /\ Len(runs) + 0 <= scanNo /\ MaxScans \in Nat
  BY RunsAssumption DEF ScanInv
<1>2. runs \in Seq({runs[i] : i \in DOMAIN runs})
  BY DEF ScanInv
<1>3. Len(runs) \in Nat
  BY <1>2
<1>4. QED
  BY <1>1, <1>3

LEMMA ResolveKeeps ==
  ASSUME ScanInv, scanNo < MaxScans, Resolve, listed' = tree, settled' = None, UNCHANGED <<request, runs>>
  PROVE  ScanInv'
<1>1. /\ stage = "idle" /\ stage' = "inspect" /\ record' = [f \in {} |-> None] /\ seen' = [f \in {} |-> None]
      /\ scanNo' = scanNo + 1 /\ UNCHANGED <<target, tree, edits>>
  BY DEF Resolve
<1>2. PICK assets \in SUBSET Present :
        \E truncated \in BOOLEAN :
           /\ plan' = [assets |-> assets, truncated |-> truncated, small |-> {f \in assets : tree[f].small}]
           /\ target = "directory" => truncated \/ assets = Listable
  <2>1. CASE target = "directory" /\ ResolveDirectory
    <3>1. PICK assets \in SUBSET {f \in Listable : PathOf[f].utf8} :
            /\ IF Cardinality(assets) < Cap THEN assets = Listable ELSE Cardinality(assets) = Cap
            /\ plan' = [assets |-> assets, truncated |-> Truncated(assets), small |-> {f \in assets : tree[f].small}]
      BY <2>1 DEF ResolveDirectory
    <3>2. Truncated(assets) \in BOOLEAN /\ assets \in SUBSET Present
      BY DEF Truncated, Listable
    <3>3. Cap \in Nat /\ Cardinality(assets) \in Nat
      <4>1. IsFiniteSet(assets)
        BY <3>2, FS_Subset, ScanAssumption DEF Present
      <4>2. QED
        BY <4>1, FS_CardinalityType, ScanAssumption DEF Cap
    <3>4. Truncated(assets) \/ assets = Listable
      BY <3>1, <3>3 DEF Truncated
    <3>5. QED
      BY <3>1, <3>2, <3>4
  <2>2. CASE target = "file" /\ ResolveFile
    <3>1. /\ named \in Present
          /\ plan' = [assets |-> {named}, truncated |-> FALSE, small |-> {f \in {named} : tree[f].small}]
      BY <2>2 DEF ResolveFile
    <3>2. {named} \in SUBSET Present /\ target # "directory"
      BY <2>2, <3>1
    <3>3. QED
      BY <3>1, <3>2
  <2>3. QED
    BY <2>1, <2>2 DEF Resolve
<1>3. PlanFits'
  BY <1>1, <1>2 DEF PlanFits, Present
<1>4. RecordsFit'
  BY <1>1 DEF RecordsFit
<1>5. ListingIsWhole'
  <2> SUFFICES ASSUME target = "directory", ~plan'.truncated, NEW f \in Files, tree[f] # None, tree[f].visible
               PROVE  f \in plan'.assets
    BY <1>1 DEF ListingIsWhole
  <2>1. plan'.assets = assets /\ assets = Listable
    BY <1>2
  <2>2. QED
    BY <2>1 DEF Listable, Present
<1>6. scanNo' \in 0 .. MaxScans /\ Len(runs') + 1 <= scanNo'
  BY <1>1, ScanCounts
<1>7. QED
  BY <1>1, <1>3, <1>4, <1>5, <1>6, RunsStay DEF ScanInv

LEMMA ResolveFailsKeeps ==
  ASSUME ScanInv, scanNo < MaxScans, ResolveFails, listed' = tree, settled' = None, UNCHANGED <<request, runs>>
  PROVE  ScanInv'
<1>1. /\ stage = "idle" /\ stage' = "resolve failed" /\ scanNo' = scanNo + 1
      /\ UNCHANGED <<target, plan, record, seen, report, tree, edits>>
  BY DEF ResolveFails
<1>2. scanNo' \in 0 .. MaxScans /\ Len(runs') + 1 <= scanNo'
  BY <1>1, ScanCounts
<1>3. RecordsFit' /\ ((plan = None) \/ PlanFits)'
  BY <1>1 DEF ScanInv, RecordsFit, PlanFits
<1>4. QED
  BY <1>1, <1>2, <1>3, RunsStay DEF ScanInv

LEMMA InspectKeeps ==
  ASSUME ScanInv, InspectAsset, UNCHANGED runVars PROVE ScanInv'
<1>1. PICK f \in Remaining :
        /\ record' = [g \in DOMAIN record \cup {f} |-> IF g = f THEN Record(f) ELSE record[g]]
        /\ seen' = Inspected(f)
  BY DEF InspectAsset
<1>2. stage = "inspect" /\ UNCHANGED <<target, stage, plan, report, scanNo, tree, edits, request, listed, runs, settled>>
  BY DEF InspectAsset, runVars
<1>3. f \in plan.assets /\ f \in Files /\ f \notin DOMAIN record /\ PlanFits /\ RecordsFit
  BY <1>1, <1>2 DEF Remaining, ScanInv, PlanFits
<1>4. PlanFits'
  BY <1>1, <1>2, <1>3 DEF PlanFits
<1>5. RecordsFit'
  <2>1. /\ DOMAIN record' = DOMAIN record \cup {f} /\ record'[f] = Record(f)
        /\ \A g \in DOMAIN record : record'[g] = record[g]
    BY <1>1, <1>3
  <2>2. record' = [g \in DOMAIN record' |-> record'[g]]
    BY <1>1
  <2>3. record' \in [DOMAIN record' -> AssetRecords] /\ \A g \in DOMAIN record' : RecordConsistent(record'[g])
    BY <1>3, <2>1, <2>2, RecordIsConsistent DEF RecordsFit
  <2>4. CASE PathOf[f].format = "parquet" /\ Readable(f)
    <3>1. DOMAIN seen' = DOMAIN seen \cup {f} /\ seen'[f] = tree[f] /\ \A g \in DOMAIN seen : g # f => seen'[g] = seen[g]
      BY <1>1, <2>4 DEF Inspected
    <3>2. tree[f] \in Contents
      BY <1>3, <2>4 DEF Readable, ScanInv
    <3>3. Record(f).status = "inspected"
      BY <2>4, RecordIsConsistent
    <3>4. QED
      BY <1>3, <2>1, <2>3, <3>1, <3>2, <3>3 DEF RecordsFit
  <2>5. CASE ~(PathOf[f].format = "parquet" /\ Readable(f))
    <3>1. seen' = seen
      BY <1>1, <2>5 DEF Inspected
    <3>2. QED
      BY <1>3, <2>1, <2>3, <3>1 DEF RecordsFit
  <2>6. QED
    BY <2>4, <2>5
<1>6. ListingIsWhole'
  BY <1>2 DEF ListingIsWhole, ScanInv
<1>7. QED
  BY <1>2, <1>4, <1>5, <1>6, RunsStay DEF ScanInv

LEMMA BuildKeeps ==
  ASSUME ScanInv, BuildReport, UNCHANGED runVars PROVE ScanInv'
<1>1. /\ stage = "inspect" /\ Remaining = {} /\ report' = Built
      /\ stage' = IF ValidReport(Built) THEN "report" ELSE "invalid"
      /\ UNCHANGED <<target, plan, record, seen, scanNo, tree, edits, request, listed, runs, settled>>
  BY DEF BuildReport, Built, runVars
<1>2. PlanFits /\ RecordsFit /\ ListingIsWhole
  BY <1>1 DEF ScanInv
<1>3. stage' = "report"
  BY <1>1, <1>2, BuiltIsValid
<1>4. report' = Built'
  BY <1>1, BuiltIsStable
<1>5. DOMAIN record = plan.assets
  BY <1>1, <1>2 DEF Remaining, PlanFits
<1>6. PlanFits' /\ RecordsFit' /\ ListingIsWhole'
  BY <1>1, <1>2 DEF PlanFits, RecordsFit, ListingIsWhole
<1>7. QED
  BY <1>1, <1>3, <1>4, <1>5, <1>6, RunsStay DEF ScanInv

LEMMA EditKeeps ==
  ASSUME ScanInv, tree' \in [Files -> Contents \cup {None}], UNCHANGED <<scanVars, runVars>> PROVE ScanInv'
<1>1. UNCHANGED <<target, stage, plan, record, seen, report, scanNo, request, listed, runs, settled>>
  BY DEF scanVars, runVars
<1>2. Built' = Built
  BY <1>1, BuiltIsStable
<1>3. (PlanFits' <=> PlanFits) /\ (RecordsFit' <=> RecordsFit) /\ (ListingIsWhole' <=> ListingIsWhole)
  BY <1>1 DEF PlanFits, RecordsFit, ListingIsWhole
<1>4. QED
  BY <1>1, <1>2, <1>3, RunsStay DEF ScanInv

LEMMA LengthIsNat == \A S : \A t \in Seq(S) : Len(t) \in Nat
OBVIOUS

LEMMA CountsAdd ==
  /\ 0 \in 0 .. MaxScans /\ 0 .. MaxScans \subseteq Nat
  /\ \A m, n, k \in Nat : m <= n + 1 /\ n + 1 <= k => m + 0 <= k
  /\ \A n, k \in Nat : n + 0 <= k \/ n + 1 <= k => n <= k
<1>1. MaxScans \in Nat
  BY RunsAssumption
<1>2. QED
  BY <1>1

\* Steps that end a scan: only the runs and the outcome change.
LEMMA SettleKeeps ==
  ASSUME ScanInv, stage # "idle", NEW how, Settle(how),
         runs' \in Seq({runs'[i] : i \in DOMAIN runs'}),
         Len(runs') <= Len(runs) + 1, \A i \in DOMAIN runs' : RunIsWhole(runs'[i]),
         /\ how # "invalid"
         /\ how = "report validation" => request.ownId
         /\ how = "stored validation" => request.truncate = 0
         /\ how = "unique constraint" => \E f, g \in DOMAIN seen : Anchor(f) = {} /\ Anchor(g) = DefaultAnchor
  PROVE  ScanInv'
<1>1. /\ settled' = how /\ stage' = "idle"
      /\ UNCHANGED <<target, plan, record, seen, report, scanNo, tree, edits, request, listed>>
  BY DEF Settle
<1>2. (PlanFits' <=> PlanFits) /\ RecordsFit'
  BY <1>1 DEF ScanInv, PlanFits, RecordsFit
<1>3. RefusalsAreExplained'
  BY <1>1, AnchorIsStable DEF RefusalsAreExplained
<1>4. (\A i \in DOMAIN runs : RunIsWhole(runs[i]))'
  BY <1>1, WholeIsStable
<1>5. Len(runs') + 0 <= scanNo'
  <2>1. runs \in Seq({runs[i] : i \in DOMAIN runs}) /\ Len(runs) + 1 <= scanNo /\ scanNo \in 0 .. MaxScans
    BY DEF ScanInv
  <2>2. Len(runs) \in Nat /\ Len(runs') \in Nat
    BY <2>1, LengthIsNat, Zenon
  <2>3. QED
    BY <1>1, <2>1, <2>2, CountsAdd, Zenon
<1>6. QED
  BY <1>1, <1>2, <1>3, <1>4, <1>5 DEF ScanInv

LEMMA AppendIsSequence ==
  ASSUME NEW S, NEW s \in Seq(S), NEW e
  PROVE  LET t == Append(s, e)
         IN  /\ t \in Seq({t[i] : i \in DOMAIN t}) /\ Len(t) <= Len(s) + 1
             /\ \A i \in DOMAIN t : (i \in DOMAIN s /\ t[i] = s[i]) \/ t[i] = e
<1> DEFINE t == Append(s, e)
<1>1. s \in Seq(S \cup {e}) /\ e \in S \cup {e}
  OBVIOUS
<1>2. t \in Seq(S \cup {e}) /\ Len(t) = Len(s) + 1 /\ Len(s) \in Nat /\ DOMAIN s = 1 .. Len(s)
  BY <1>1
<1>3. DOMAIN t = 1 .. Len(t) /\ Len(t) \in Nat
  BY <1>2
<1>4. \A i \in 1 .. Len(t) : (i \in 1 .. Len(s) /\ t[i] = s[i]) \/ t[i] = e
  BY <1>1, <1>2
<1> HIDE DEF t
<1>5. t \in Seq({t[i] : i \in 1 .. Len(t)})
  BY <1>2, <1>3
<1>6. QED
  BY <1>2, <1>3, <1>4, <1>5 DEF t

LEMMA PersistKeeps == ASSUME ScanInv, Persist PROVE ScanInv'
<1>1. /\ stage = "report" /\ ValidReport(Stored) /\ KeysFree(Stored)
      /\ runs' = Append(runs, StoredRun(Stored)) /\ Settle("stored")
  BY DEF Persist, Stored
<1>2. PlanFits /\ RecordsFit /\ ListingIsWhole /\ report = Built /\ DOMAIN record = plan.assets
  BY <1>1 DEF ScanInv
<1>3. RunIsWhole(StoredRun(Stored))
  BY <1>1, <1>2, StoredRunIsWhole
<1>4. /\ runs' \in Seq({runs'[i] : i \in DOMAIN runs'}) /\ Len(runs') <= Len(runs) + 1
      /\ \A i \in DOMAIN runs' : (i \in DOMAIN runs /\ runs'[i] = runs[i]) \/ runs'[i] = StoredRun(Stored)
  <2> DEFINE S == {runs[i] : i \in DOMAIN runs}
             e == StoredRun(Stored)
  <2>1. runs \in Seq(S) /\ runs' = Append(runs, e)
    BY <1>1 DEF ScanInv
  <2> HIDE DEF S, e
  <2>2. QED
    BY <2>1, AppendIsSequence DEF e
<1>5. \A i \in DOMAIN runs' : RunIsWhole(runs'[i])
  BY <1>3, <1>4 DEF ScanInv
<1>6. QED
  BY <1>1, <1>4, <1>5, SettleKeeps

\* A refusal has one of the known reasons.
LEMMA RefusalKeeps == ASSUME ScanInv, PersistRefused PROVE ScanInv'
<1> DEFINE why == IF ~ValidReport(Submitted) THEN "report validation"
                  ELSE IF ~ValidReport(Stored) THEN "stored validation"
                  ELSE IF ~KeysFree(Stored) THEN "unique constraint" ELSE "database"
<1>1. stage = "report" /\ UNCHANGED runs /\ Settle(why)
  BY DEF PersistRefused, Stored
<1>2. PlanFits /\ RecordsFit /\ ListingIsWhole /\ report = Built
  BY <1>1 DEF ScanInv
<1>3. ~ValidReport(Submitted) => request.ownId
  BY <1>2, BuiltIsValid DEF Submitted
<1>4. ValidReport(Submitted) /\ ~ValidReport(Stored) => request.truncate = 0
  BY <1>2, StoredIsValid
<1>5. ~KeysFree(Stored) => \E f, g \in DOMAIN seen : Anchor(f) = {} /\ Anchor(g) = DefaultAnchor
  BY <1>2, KeysAreFree DEF NoTwoDefaults
<1>6. /\ why # "invalid"
      /\ why = "report validation" => request.ownId
      /\ why = "stored validation" => request.truncate = 0
      /\ why = "unique constraint" => \E f, g \in DOMAIN seen : Anchor(f) = {} /\ Anchor(g) = DefaultAnchor
  BY <1>3, <1>4, <1>5
<1> HIDE DEF why
<1>7. /\ runs' \in Seq({runs'[i] : i \in DOMAIN runs'}) /\ Len(runs') <= Len(runs) + 1
      /\ \A i \in DOMAIN runs' : RunIsWhole(runs'[i])
  <2>1. runs \in Seq({runs[i] : i \in DOMAIN runs}) /\ \A i \in DOMAIN runs : RunIsWhole(runs[i])
    BY DEF ScanInv
  <2>2. Len(runs) <= Len(runs) + 1
    BY <2>1
  <2>3. QED
    BY <1>1, <2>1, <2>2
<1>8. QED
  BY <1>1, <1>6, <1>7, SettleKeeps

LEMMA FailureKeeps == ASSUME ScanInv, EngineFailed PROVE ScanInv'
<1>1. stage = "resolve failed" /\ UNCHANGED runs /\ Settle("resolve failed")
  BY DEF EngineFailed, ScanInv
<1>2. runs \in Seq({runs[i] : i \in DOMAIN runs}) /\ \A i \in DOMAIN runs : RunIsWhole(runs[i])
  BY DEF ScanInv
<1>3. Len(runs) <= Len(runs) + 1
  BY <1>2
<1>4. QED
  BY <1>1, <1>2, <1>3, SettleKeeps

\* No step of the service breaks the invariant of the scans.
LEMMA ScanInvInductive == ScanInv /\ [Next]_vars => ScanInv'
<1> SUFFICES ASSUME ScanInv, [Next]_vars PROVE ScanInv'
  OBVIOUS
<1>1. CASE UNCHANGED <<tree, scanVars, runVars>>
  <2>1. tree' \in [Files -> Contents \cup {None}]
    BY <1>1 DEF ScanInv
  <2>2. QED
    BY <1>1, <2>1, EditKeeps
<1>2. CASE ScanStep
  <2>1. CASE /\ scanNo < MaxScans /\ (Resolve \/ ResolveFails)
             /\ listed' = tree /\ settled' = None /\ UNCHANGED <<request, runs>>
    BY <2>1, ResolveKeeps, ResolveFailsKeeps
  <2>2. CASE (InspectAsset \/ BuildReport) /\ UNCHANGED runVars
    BY <2>2, InspectKeeps, BuildKeeps
  <2>3. CASE Edit /\ UNCHANGED runVars
    <3>1. tree' \in [Files -> Contents \cup {None}]
      BY <2>3 DEF Edit, ScanInv
    <3>2. QED
      BY <2>3, <3>1, EditKeeps DEF Edit
  <2>4. QED
    BY <1>2, <2>1, <2>2, <2>3, PersistKeeps, RefusalKeeps, FailureKeeps DEF ScanStep
<1>3. QED
  BY <1>1, <1>2 DEF Next, vars

LEMMA ScanInvHolds == Spec => []ScanInv
<1>1. Init => ScanInv
  <2> SUFFICES ASSUME Init PROVE ScanInv
    OBVIOUS
  <2>1. /\ tree \in Choose1("scan", Trees)
        /\ stage = "idle" /\ plan = None /\ record = <<>> /\ seen = <<>> /\ scanNo = 0
        /\ runs = <<>> /\ settled = None
    BY DEF Init, ScanRunsInit
  <2>2. tree \in [Files -> Contents \cup {None}]
    BY <2>1, ScanAssumption DEF Choose1
  <2>3. RecordsFit
    BY <2>1 DEF RecordsFit
  <2>4. scanNo \in 0 .. MaxScans /\ Len(runs) + 0 <= scanNo /\ DOMAIN runs = {}
    <3>1. Len(<<>>) = 0 /\ DOMAIN <<>> = {}
      OBVIOUS
    <3>2. Len(runs) = 0 /\ DOMAIN runs = {}
      BY <2>1, <3>1, Zenon
    <3>3. Len(runs) + 0 <= 0
      BY <3>2
    <3>4. QED
      BY <2>1, <3>2, <3>3, CountsAdd, Zenon
  <2>5. runs \in Seq({runs[i] : i \in DOMAIN runs})
    <3>1. \A S : <<>> \in Seq(S)
      OBVIOUS
    <3>2. QED
      BY <2>1, <3>1, Zenon
  <2>6. RefusalsAreExplained
    BY <2>1, RunsAssumption DEF RefusalsAreExplained
  <2>7. QED
    BY <2>1, <2>2, <2>3, <2>4, <2>5, <2>6 DEF ScanInv
<1>2. QED
  BY <1>1, ScanInvInductive, PTL DEF Spec

\* A stored run can be believed: its projections are those of its report, every
\* dataset row counts its assets, and a "completed" run has every file the walk could
\* see and none that failed, whatever was edited meanwhile (persist_scan_run).
THEOREM StoredRunsCanBeBelieved == Spec => []StoredRunsAreWhole
<1>1. ScanInv => StoredRunsAreWhole
  BY DEF ScanInv, RunIsWhole, StoredRunsAreWhole
<1>2. QED
  BY <1>1, ScanInvHolds, PTL

\* The engine's report always passes its own validation, and the service refuses to
\* store it only for a chosen scan id, empty failure messages or Parquet files both in
\* the root and in a directory called "default" (validate_report,
\* execute_scan_and_persist).
THEOREM RefusalsHaveAReason == Spec => []RefusalsAreExplained
<1>1. ScanInv => RefusalsAreExplained
  BY DEF ScanInv
<1>2. QED
  BY <1>1, ScanInvHolds, PTL

\* The state of the service is well typed: no scan beyond the plan, no row beyond the
\* inserted ones, and only administrators past the middleware of the token routes.
THEOREM TypeCorrect == Spec => []TypeOK
<1> DEFINE Starts == starts \in 1 .. MaxStarts
<1>1. Init => Starts
  BY TokensAssumption DEF Init, TokensInit
<1>2. Starts /\ [Next]_vars => Starts'
  <2> SUFFICES ASSUME Starts, [Next]_vars PROVE Starts'
    OBVIOUS
  <2>1. CASE UNCHANGED starts
    BY <2>1
  <2>2. CASE Restart
    BY <2>2, TokensAssumption DEF Restart
  <2>3. QED
    BY <2>1, <2>2 DEF Next, vars, tokenVars, TokenStep, Lookup, Touch, Create, RotateRead, RotateWrite,
                      RotateFails, Disable, Timeout
<1>3. ScanInv /\ ListInv /\ TokenInv /\ Starts => TypeOK
  <2> SUFFICES ASSUME ScanInv, ListInv, TokenInv, Starts PROVE TypeOK
    OBVIOUS
  <2>1. /\ tree \in [Files -> Contents \cup {None}] /\ scanNo \in 0 .. MaxScans
        /\ plan = None \/ DOMAIN record \subseteq plan.assets
        /\ DOMAIN seen \subseteq DOMAIN record
    BY DEF ScanInv, PlanFits, RecordsFit
  <2>2. Len(runs) <= scanNo
    <3>1. runs \in Seq({runs[i] : i \in DOMAIN runs}) /\ Len(runs) + (IF stage = "idle" THEN 0 ELSE 1) <= scanNo
      BY DEF ScanInv
    <3>2. Len(runs) \in Nat
      BY <3>1, LengthIsNat, Zenon
    <3>3. QED
      BY <2>1, <3>1, <3>2, CountsAdd, Zenon
  <2>3. status \in [Keys -> Labels \cup {None}] /\ walk.got \in Seq(Keys)
    <3>1. CASE area = "lists"
      BY <3>1 DEF ListInv, ListTypes
    <3>2. CASE area # "lists"
      <4>1. status \in [Keys -> Labels \cup {None}] /\ walk.got = <<>>
        BY <3>2 DEF ListInv
      <4>2. QED
        BY <4>1
    <3>3. QED
      BY <3>1, <3>2
  <2>4. minted \in Ids /\ \A i \in Ids : i > minted => row[i] = None
    BY DEF TokenInv, TokenTypes, HistoryIsPast
  <2>5. \A c \in Clients : call[c].pc \notin {"idle", "touch"} => call[c].role = "admin"
    BY DEF TokenInv, RequestsAreAuthorized, Authorized
  <2>6. QED
    BY <2>1, <2>2, <2>3, <2>4, <2>5 DEF TypeOK
<1>4. Spec => []Starts
  BY <1>1, <1>2, PTL DEF Spec
<1>5. QED
  BY <1>3, <1>4, ScanInvHolds, ListInvHolds, TokenInvHolds, PTL
=============================================================================
