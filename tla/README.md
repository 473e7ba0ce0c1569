# PARQONAUT: TLA+ models, checks and proofs

PARQONAUT scans Parquet datasets, plans repairs, executes them locally or against an
object store, runs batches of repairs with a journal, and offers the same operations as
durable jobs of an HTTP server; it also converts, partitions and transforms columnar files.
This directory holds TLA+ models of the parts where processes, crashes and retries meet and
of the decisions taken before data is written, the TLC runs that check them, and TLAPS
proofs.

Check a run with `tlc -config <cfg> <MC module>`, the proofs with `tlapm <module>.tla` for
each of the eight modules whose name ends in `Proofs`. `PROJECT.json` lists every run, the
source lines behind every definition, the hazards, the mutants and the theorems.

## 1. Inventory

| Component (crate) | State | Operations | What is hard | What makes it correct |
|---|---|---|---|---|
| Remote publication (`parqonaut-storage`: publication, locking; `parqonaut-repair`: execute_storage) | objects under `.parqonaut/`: writer.lock, CURRENT, and per version state.json, manifest.json, data, COMMITTED; the session's state | begin, put_version_object, mark_*, write_manifest, commit, promote_current, finish | each step is a request that may be the last one; several runs, and several processes of one run, share the prefix | a version appears atomically, never mixes executions, never changes; state.json never overstates |
| Batch run (`parqonaut-orchestrator`) | SQLite journal, lock files, output directories; scheduler, cancel flag, attempt counters in memory | execute, resume, spawn, retry, journal, cancel | crash between output and journal, swallowed journal errors, partial outputs, panics | Succeeded means complete output, nothing is done twice, attempts are bounded, the run ends |
| Repair planning (`parqonaut-repair`: diagnose, rules, schema, deps, check) | none; a plan file bound to a fingerprint | plan, check, authorize, order | rules that meet in one plan; many files, one verdict per column | safe operations keep rows and columns; what needs review does not run without it |
| Repair executor (`parqonaut-repair`: execute, verify; `parqonaut-transform`: merge, cast, rename) | staging directory, working set, output directory | fingerprint, seed, operations, copy, verify, manifest | failure at any step leaves what was written; the source may change meanwhile | no output is built over another one; a verified output holds every row once |
| Batch planning (`parqonaut-orchestrator`: config, paths, location, overlap, auth) | configuration, plan file, its snapshot, identity in the journal | check, plan, execute, resume | the same location is spelled, normalised, rendered and parsed at different times | nothing a run writes lies in what it reads; a resume works with what the run was started with |
| Streaming conversion (`parqonaut-stream`; `parqonaut-storage`: columnar sink, multipart) | bounded channels, blocking pool, multipart upload; checkpoint and staging directory | read, align, write, encode, upload; interrupt, resume, commit | tasks end each other by closing channels; crash between two files | exit 0 means a whole output; a commit means all inputs; the pipeline ends |
| Schema unification (`parqonaut-columnar`, `parqonaut-stream`: coercion) | none | unify, align | order of files, exceptions in the ranks | order decides nothing, values survive |
| Transform specs and partitions (`parqonaut-transform`) | segments, staging files; open partitions, part counters | compile, execute, filter, partition, evict | predicted and real files differ; eviction and return of a partition | the rows the spec asks for, each in one part |
| Durable jobs (`paraclete-store`, `paraclete-service`) | table application_jobs, stored runs; worker loop, heartbeat task, cancel flag | submit, claim, renew, recover, complete, fail, cancel | leases against slow workers, completion not fenced by worker, cancel against everything | terminal is final, attempts bounded, one execution at a time while leases are kept, every job ends |
| Scan engine and run store (`paraclete-core`, `paraclete-types`, `paraclete-store`) | report; tables of runs, assets, datasets, findings | resolve, inspect, infer, evaluate rules, validate, redact, persist, diff | files change during the scan; ids that collide; a limit that is met exactly | a stored run can be believed; a refusal has a known reason |
| Lists, tokens (`paraclete-service`, `paraclete-store`) | job and run rows; auth_tokens | count and page; authenticate, create, rotate, disable, bootstrap | two statements per request, concurrent requests, restart | a walk misses nothing; a token has one holder |
| Storage backends (`parqonaut-storage`: s3, memory, local, chaos) | objects with ETags | read, list, conditional create and replace, delete, multipart | lost updates | conditional writes are atomic |
| Reports, plugin protocol, shared types, workflow observers, CLI, application layer | none across calls | render, route, exit codes | none concurrent | |

The server's workers call the application layer, which calls the orchestrator or the repair
executor; a batch dataset with a remote output goes through `execute_storage` and
`publish_work_dir` to a publication session; a batch and a server job are stopped through the
same cooperative cancel flag. Shared state is always external: the object store, the SQLite
journal, the job table, files.

## 2. Modules

| Module | Models | Composes |
|---|---|---|
| `VersionedDataset` | what readers of a published prefix are promised (abstract specification) | |
| `Publication` | publication sessions, writer lock, the batch executor's path to them | refines `VersionedDataset` through `Visible` and `current` |
| `PublicationProofs` | theorems about `Publication` | |
| `BatchRun` | one batch run over local datasets: process, scheduler, tasks, retries, lock files, repair steps, journal | |
| `BatchRunProofs` | theorems about `BatchRun` | |
| `JobQueue` | job table, workers, heartbeats, clients | |
| `JobQueueProofs` | theorems about `JobQueue` | |
| `ColumnarJobs` | what the jobs of the streaming family share: the route, the inputs, the output | |
| `ConvertPipeline` | readers, writer, encoder and uploader of one conversion | on `ColumnarJobs` |
| `ResumableConvert` | a conversion with checkpoint and staged parts | on `ColumnarJobs` |
| `Partitioning` | a partitioned write under a limit of open partitions | on `ColumnarJobs` |
| `TransformSpec` | compilation and execution of a transform spec | on `ColumnarJobs` |
| `Streaming` | one job of the command line | composes the four above |
| `StreamingProofs` | theorems about conversions, partitioned writes and transform specs | |
| `ScanEngine` | one scan of a directory or file | |
| `ScanRuns` | the service's scan: engine, validation, redaction, one transaction | on `ScanEngine` |
| `Listings` | paged lists of jobs, assets, findings and a client that walks them | |
| `AuthTokens` | token table, middleware, admin requests, restart | |
| `Service` | the service | composes the four above |
| `AuthTokensProofs`, `ListingsProofs` | theorems about `Service`: its tokens, its lists | |
| `ServiceProofs` | theorems about `Service`: its scans, its types | on the two above |
| `RepairPlanning` | diagnosis, rules, column comparison, order and safety of operations (operators) | |
| `RepairExecution` | prqnt plan, check, repair and doctor on a dataset others write to | on `RepairPlanning` |
| `BatchPlanning` | the locations of a batch from configuration to resume | |
| `SchemaUnify` | one schema for a conversion, and alignment to it | |
| `Planning` | what is decided before data is written | composes the four above |
| `PlanningProofs` | theorems about batch locations, unified schemas and repairs | |
| `MCPublication`, `MCBatchRun`, `MCJobQueue`, `MCStreaming`, `MCService`, `MCPlanning` | instances for TLC | |

### Publication

Every storage request is one action; `pc[p]` is the next request of process `p`'s session.
`data[r][o]` holds the execution (a fresh id per attempt) that wrote object `o` of version
`r`, which is enough to tell whose bytes a reader sees. `seen` abstracts ETags: what the last
`head()` of the object about to be written showed, outdated when somebody else writes it.
`Fail` is a crash, a failed request or a failed repair step at any point; it releases
nothing, because `RemotePublicationLock` has no `Drop`. The two probes of
`execute_dataset_once` ignore errors, so an error there also lets the attempt go on.
`RunOf` allows several processes for one run: two `batch resume` of the same run directory.
`abandon` and `finish(false)` are called by tests only and have no action.

### BatchRun

Durable variables (journal rows and attempts, lock files, outputs, sources) survive `Crash`;
the others are the process. `Upsert` is `upsert_record`: a failing journal write is logged
and ignored. `made` counts the attempts as they are made, apart from the journal's counter
`tries`; `lapsed` has the datasets of which the journal failed to store an attempt or to give the
count back (`get_dataset` failing is taken for a count of 0). One action is one step that another actor, a crash or a fault can come between.
`execute_dataset_once` and `execute_dataset_with_retries` both journal a failure, the second
write repeating the first; `Record` is the pair. The local lock's two steps (create, write
owner) are separate because a crash between them leaves an empty file; both can fail, and
`DropLock` may leave the file behind, as `Drop` ignores its error. `Panic` is a panic of
the scan inside the task; a panic in `spawn_blocking` is a join error, part of
`RunOperations`. The exit code is computed from the outcomes as `run_repair` and
`run_resume` do.

### JobQueue

One SQL statement is one action, and so is a SQLite transaction, which cannot write once another
one has committed after its first read. `backend` is the database. On Postgres, READ COMMITTED,
recovery is three actions: `RecoverSelect` reads the stale rows and their attempts into `seen`,
an UPDATE that finds its row not running any more changes nothing (`RecoverMiss`), the others
take effect together at the commit (`RecoverCommit`), whoever runs the row by then; the first
UPDATE of a row keeps other writers from it until then. `overtaken` remembers the jobs that were
claimed between the read and the write. Time is abstracted: a lease that a running heartbeat renews does not expire (renewal every
10 s, lease of 30 s) except by `Stall`, and one that nobody renews may expire at any
time. `broken` remembers that an execution failed, `reading` the status a cancelling client
has read. `StatementLost` is a failing database statement anywhere in the worker loop.

### Streaming

A behaviour is one job: `route` is chosen in the initial state and fixes which part moves.
In `ConvertPipeline` one action is one channel operation or one storage request. A local
conversion has a reader per input and a writer on tokio's blocking pool; a remote one has in
place of the writer an async task that feeds an encoder thread, which feeds an uploader. A
task that ends closes its channel ends, and the others notice only by that: `SendersGone`,
`EncoderGone`, `BrokenPipe`. `pool` is the number of blocking threads, handed out in spawning
order. Batches are pairs of input and position; a Parquet output ends with `Footer`. `parts` is
what the uploaded parts hold, in the order of their numbers, which is all that completing the
upload makes of them.
`ResumableConvert` keeps checkpoint and staging directory across `Interrupt`. An input may be
replaced at any time, by one with or without rows (`holds`; `kept` is what it had when it was
read), and the removal of the staging directory may fail unnoticed. `spoilt` remembers that a
fresh start died after it had removed the parts of an older checkpoint, or that a part left by
such a failure is in the place of an input without rows. Several parts are joined one per step (`JoinPart`)
into a file that is torn until the last. `Partitioning` has both implementations, files (the
part number is taken on opening) and objects (on eviction). `TransformSpec` runs the two
phases of `prqnt transform run`, one segment per action; rows are identities with a nullable
number for the filters and a string for the partitions. A filter is a sequence of nodes, each of
which names earlier ones as its arguments, the last being the whole, so that it nests to any
depth. What a filter should keep is stated
apart from what the code evaluates, with SQL's third truth value for comparisons with NULL.

### Service

`ScanEngine` inspects file by file while `Edit` changes the tree; contents are abstracted to
what detection, probes and dataset inference tell apart. A file may be one that the walk cannot
stat and passes over (`visible`, `Listable`), or have a name that is no UTF-8, which ends the
scan; a file target is one file for good (`named`). Every identifier a scan draws is its
number, so the identifiers of two scans differ as UUIDs do. `Persist` is one transaction and
fails on a duplicate key. `Listings` orders rows by a key and gives the client both ways to
end a walk, by the total and by a short page. In `AuthTokens` one action is one statement or,
where the code has one, the part of a transaction another request can come between. SQLite
refuses to write in a transaction whose snapshot is stale; Postgres, READ COMMITTED, does not.

### Planning

`RepairPlanning` has no state: files are footers (size, rows, row groups, codecs, statistics,
columns), and a plan is the set of operations the rules give. `DominantKeys` is a set because
the code takes the maximum over a hash map. In `RepairExecution` a file holds two blocks, the
halves of its rows, so that a split can part them, and a name in path order. A scan (`Scans`)
lists what the walk can stat, up to `ScanCap` files wherever it has got to, and nobody asks
whether it was cut off. The executor has a directory (`work`) and a map of the files it knows in
it (`known`), which can come apart: merged and split parts, the temporary files of rewrites,
renames and casts (`Temp`) and the scratch directories `_merge_out` and `_split_out` may have
names of the dataset. A write over a file forgets its blocks, and inputs whose removal failed
(`left`) stay in the directory, which is what is copied out. The operations give the set of
possible outcomes, empty when they fail; where a merge cuts its parts is not determined by the
model, since it depends on encoded sizes.

`BatchPlanning` keeps the spelling of locations. `Parse`, `Join`, `Normal`, `Display`
(display_uri) and `Canonicalize` are what the code applies at each stage, and overlap is compared
on what each stage has. A plan holds local paths as URIs without percent-encoding: `UriReads`
says what the URI parser makes of a segment with `#`, `?` or `%XX`, and `FromUri` applies it. How
the system follows a path is apart from this: `Place` resolves `..`, symbolic links (`Links`)
and the working directory, which the code does for sources only.

`SchemaUnify` goes through the files in their order, as `from_schemas` does, with the map of the
kinds that the columns met so far have (`TakeSchema`, one file per step); the first column that
does not fit ends it. Then it aligns batch by batch. A Parquet file has one type per column, in
its schema and in its batches; a CSV file is typed by its first records for the schema and again
for every batch (`ArrayType`). `LargeUtf8` is text for the schema and panics when it is aligned.

## 3. Runs

| Run | Bounds | Shows |
|---|---|---|
| `publication_runs` | 2 runs, 2 objects, 4 executions, 2 failures, fair | `TypeOK`, `StateFileSound`, `WriterExclusion`, the refinement `AtomicPublication`, with crashes and lost requests everywhere; `EveryRunSettles` in the behaviours without failures |
| `publication_shared` | 3 processes, two of one run; 5 executions | `AtomicPublication` although the reclaim takes a live writer's lock |
| `publication_resume` | 1 run, 1 failure, fair | **violated**: `ResumeCommits` |
| `batch_run` | 2 datasets, 2 jobs, 2 attempts, 3 faults of any kind, fair | `SucceededHasOutput`, `SucceededIsFinal`, `OutputBuiltOnce`, `CompletedIsTerminal`, `AttemptBudget`, `ExitZeroMeansRepaired`, `TypeOK`, `EventuallyCompleted` |
| `batch_verification` | one failed verification | **violated**: `SucceededIsVerified` |
| `job_queue` | both databases, 2 workers, 2 attempts; two jobs (a scan, a repair) with one, or one job with two of up to two crashes, one stall or failed statement and one cancel; fair | `TerminalIsFinal`, `AttemptLimit`, `RunningIsLeased`, `SucceededScanHasRun`, `ExclusiveExecution`, `FailureIsReal`, `TypeOK`, `EveryJobTerminates` |
| `job_cancel` | 2 workers, one scan, one cancel | **violated**: `LeaseOutlivesCancel` |
| `streaming` | 2 inputs of up to 2 batches, channels of capacity 1, pools of 1 to 4 threads, multipart parts of 2 chunks, 3 faults; 2 starts; 3 batches of 3 values with 0 to 2 open partitions; specs of up to 3 of 12 operations | `OkMeansWhole`, `PublishedHoldsEveryGoodInput`, `ConversionEnds`, `CommittedIsWhole`, `ResumeCompletes`, `PartitionedWhole`, `PartsAreFinal`, `SpecApplied`, `TypeOK` |
| `planning` | 24 datasets, 3 policies, 1 write by others, scans of at most 5 files; 192 configurations, one edit of plan and snapshot each; 3 Parquet files of one column or 2 of two columns, of all 13 types; CSV files of one or two columns whose later batches hold other values | `ManifestIsRight` (`VerifiedRepairIsWhole` and `RowsLostOnlyByClash`), `RunsAreDisjoint`, `UnificationIsFaithful`, `TypeOK` |
| `repair_rows` | a dataset with a file of the name of a merged part, undisturbed | **violated**: `SafeRepairKeepsRows` |
| `service` | 5 choices of 3 of 7 files, 1 edit, at most 3 files per scan, 1 scan; 3 rows, pages of 1 and 2; 3 tokens, 2 clients, 2 starts, both databases | `StoredRunsAreWhole`, `RefusalsAreExplained`, `WalkSeesEveryRow`, `OneHolderPerToken`, `TypeOK` |
| `scan_fingerprint` | 2 scans of an untouched tree | **violated**: `UnchangedScansAgree` |

Why the bounds are enough to be interesting: two objects let an upload end half-way; two runs
compete for lock and CURRENT, three processes add the own-run reclaim beside a competitor;
two attempts give one retry and its limit; three faults combine a crash, the failure of the
resumed attempt and a lost journal write; two workers are a stale one and its successor. Two
inputs with two batches fill a channel of one and leave a reader waiting while another ends;
the pools reach from one thread, where nothing drains the channel, to one for every task; one
open partition evicts at every change of value, two only when an old value returns. The
datasets of `planning` hold at least one case for every rule and every verdict of the schema
comparison, the output of an earlier repair, files named like temporary files or in directories
named like the scratch directories, a file the walk cannot stat, one more file than a scan lists,
and an unreadable file; the configurations hold
relative, absolute, remote and missing paths, `..` in sources and outputs, segments that a URI
cuts off (`a#1`) or decodes (`%61`), a link, a file in the place of the output root, a relative
configuration directory, colliding names. A scan limit of three is met exactly and exceeded
after an edit; the seven paths hold a Parquet file at the root beside a directory called
`default`, Hive directories, a Hive file name and a name that is no UTF-8. One job and two crashes
are enough for the race of two recoveries on Postgres: one reads, the other requeues and claims.

The bound on failures ends every behaviour of the publication runs, and each execution needs a
fresh id; a job of `streaming` ends, or hangs for want of threads; `planning` and `service`
are commands that are done. These runs may stop (`CHECK_DEADLOCK FALSE`); the batch run and the
job queue never do, and deadlock is checked there. Symmetry (execution ids, clients, the workers of `job_cancel`) is used
only where nothing temporal is asked beyond what one step may do.

Each property has a mutant: a plausible bug in one definition (no owner comparison in the
reclaim, a create without precondition, one attempt too many, a completion without
`status = 'running'`, ...) under which TLC reports the property violated.

### Fairness

Weak fairness throughout. *Publication*: a live process issues its next request and an
attempt that failed is repeated (retry loop, or an operator's resume). *BatchRun*: the tokio
runtime polls tasks and scheduler, and the operator resumes until the run is complete; faults
are never fair. *JobQueue*: workers are polled, executions end, an unattended
lease expires. Nothing is assumed of heartbeats, `Submit`, `CancelRead`, `Crash`, `Stall` or
`StatementLost`. *Streaming*: tokio polls every task that can run, a thread of the blocking
pool runs until its task ends, and an operator resumes an interrupted conversion; failures,
modified inputs and fresh starts are never forced. `Planning` and `Service` state no fairness
and have no liveness property.

### What the violated runs show

* `publication_resume`: publication.rs:165 promises to "Begin or resume a publication for
  `run_id`". `publish_work_dir` always uploads from the first file, so after one interrupted
  upload every attempt of the same run conflicts with its own objects, or is refused with
  InvalidTransition when state.json got further; the version is never committed.
* `batch_verification`: ADR-0010:9 "Partial repair failures must not masquerade as valid
  datasets". `RepairExecutor::execute` records the verification report and does not look at
  its outcome.
* `job_cancel`: job_recovery.rs:8 "How often the worker renews the lease while a scan runs."
  The heartbeat ends once it has seen a cancel request, the scan does not; its lease expires
  and a second worker executes it too.
* `repair_rows`: safety.rs:7 calls a safe operation one that "Preserves logical row content".
  A merge writes merged-part-0000.parquet into the working set without looking whether the
  dataset has such a file; after an earlier repair it has, and if that file is too large to be
  merged again its rows are overwritten. `RowsLostOnlyByClash`, checked and proved, says what the
  other ways are: a dataset that uses the name of a part, of a temporary file or of a scratch
  directory (`NamesApart` excludes them), an output of more files than a scan lists, a removal
  that failed. In all other cases a repair ends with every row of the files scanned.
* `scan_fingerprint`: finding.rs:128 "Dedupe-friendly fingerprint derived from stable finding
  fields." The fingerprint covers the identifiers of the evidence, which are random.

Other disagreements met while modelling, visible in the models and not kept as runs:

* locking.rs:4 "Only one active writer may hold the lock": the same run reclaims a lock
  without knowing that it is stale (`publication_shared` shows that publication stays atomic).
* job_recovery.rs:10 "Maximum claim attempts (including retries after stale recovery). When
  exceeded, stale jobs fail.": on Postgres `recover_stale_scan_jobs` selects the stale rows and
  updates them by id and `status = 'running'`. A recovery that read the row, and updates it after
  another one has requeued it and a worker has claimed it, takes a live job away and requeues it
  by the count it had read: one claim more than allowed, and two executions at a time. `Overtaken`
  is the exception this makes in `AttemptLimit`, `ExclusiveExecution` and `FailureIsReal`;
  without it TLC finds each of them violated.
* docs/resume-recovery.md "Incomplete datasets remain resumable": a cancel noticed in the
  retry loop journals the terminal state `cancelled`, which a resume skips.
* docs/resume-recovery.md, Locks: a crash between creating and writing the lock file leaves an
  empty file that the same run does not reacquire.
* A lock file whose removal fails is left behind unnoticed, under a dataset that may be journalled
  succeeded; only the same run takes it over.
* With journal writes or reads lost, more attempts are made than the limit and the resumes allow
  (`lapsed`).
* A crash or failure after the output directory was created ends in `failed_permanent`
  (OutputExists) on the next attempt, not in a repeated repair.
* ADR-0010:13 has verification before promotion; the code promotes first.
* ADR-0012 names the transition graph of states; journal writes do not go through it.
* A panicked task leaves no outcome, so the exit code can be 0 with its dataset unrepaired;
  `ExitZeroMeansRepaired` states the exception.
* docs/streaming.md describes resumable conversions; a fresh start that dies after removing the
  staging directory and before saving its checkpoint leaves the old checkpoint, whose resume
  commits an output without the files it calls processed; one that could not remove the directory
  joins an old part in the place of an input that has no rows now (both `spoilt`); and one that dies between
  the rename of a single part and the commit can never be resumed (`Stranded`).
* With as many inputs as the blocking pool has threads (512 by default) all of them wait for a
  writer that never starts; `ConversionEnds` states how many threads it needs.
* A failed reader ends its input early, and a remote object is completed without the rest of
  it before the command fails; an encoder error completes one without a footer.
* Of several rewrites fused into one segment only the first is applied; a spec with a split
  beside another operation never succeeds; overwriting leaves part files of an earlier output.
* A filter treats every comparison with NULL as false, so `!=` and NOT keep NULL rows.
* The service replaces the report's scan id by a client's and then validates it against the
  engine's, so every scan with an id of its own is refused; a Parquet file at the root beside a
  directory `default` is refused by the store as a duplicate dataset; a scan of exactly
  max_files files is reported as truncated.
* A scan, and so a repair and its verification, passes over entries it cannot read or stat and
  says nothing of them; a repair does not ask whether its scan was truncated, so files beyond
  max_files are in no output.
* Temporary files of rewrites, renames and casts, and what a dataset has in `_merge_out` and
  `_split_out`, are overwritten or removed; inputs that could not be removed are in the output
  twice. The verification notices, and stops nothing.
* A plan names local paths as URIs that are not encoded: a source `a#1` is read back as `a`.
* fingerprint.rs:105 "repair must not write into source tree", overlap.rs:17 "Reject batch plans
  whose dataset source/output locations would collide.": the source is canonicalized, the output
  is compared as it is spelled, so an output behind a symbolic link into the source, or a relative
  one, is accepted.
* docs/streaming.md:13 "Reject incompatible types" under strict: a CSV column is Int64 by its first
  1024 records; a batch with one text value in it is typed Utf8 and parsed to Int64 again, and
  what does not parse is NULL.
* Two rotations of one token, or a rotation and a disable, both succeed on Postgres and leave
  a successor that nobody disabled; on SQLite any commit in between makes a rotation fail.
* A restart deletes every token labelled `bootstrap`, also one created or rotated since.
* A client that walks the job list by the total, or with a status filter, can miss jobs.
* docs/repair-policy.md describes a `[repair]` section; EffectivePolicy::from_toml hands that
  table to a parser that looks for the section inside it, so it changes nothing.
* The verification of a remote repair compares the repaired working set with itself.
* Two files with suspicious row groups give a plan two operations of one identifier, which the
  executor takes for a dependency cycle.
* A column whose third variant is hidden behind a lossless second one is cast with values lost.
* A configuration in a relative directory gives a plan whose locations cannot be parsed again;
  `..` at the start of a relative source is dropped rather than resolved.
* A conversion with excluded columns fails on its first batch; kinds other than five fail or
  become text when aligned; stringify depends on the order of files.
* service.rs answers a cancel of a running job with "worker will stop at next safe boundary";
  a scan never stops.

## 4. Proofs

Every theorem holds for all values of the constants that satisfy the named ASSUMEs, which TLC
evaluates on every run. They say that bounds are natural numbers, sets of choices not empty
where something is chosen, sets that are counted finite, and that `None` is none of the values
it is compared with (`Option::None` is not a value of the type inside). Some say more: `RunOf`
is a function into the runs; `ExistingAssumption` of `BatchPlanning` has the paths there are
lead to themselves, without `..` and links, which is what `fs::canonicalize` returns; `DatasetsAssumption` has the
files of a dataset numbered in path order, finitely many, with footers of the fields that
`ParquetFileMeta` has; `InputsAssumption` has Parquet files of the types `from_arrow_type` knows;
`SpecAssumption` has operations of the four kinds, filters of the grammar, nested as deep as they may be, and no partition value
that reads like the file name of a merge or rewrite (a directory `s=<value>` never does).

Each proof goes through an inductive invariant, which TLC has checked on the instance of the
run before it was proved. The proofs have one step per action. The library's induction rules
cannot be instantiated by the installed provers; where a fact about all sums or all lists is
needed, it is stated as a set of numbers that contains 0 and with k also k + 1, and such a set
is Nat because its complement would have a smallest element (`HoldsForAll`).

`PublicationProofs`

* `TypeCorrect`.
* `StateFilesAreSound`, `PublicationIsAtomic`: from the inductive invariant
  `PublicationInv`. The properties alone are not inductive: that a marker is written only over
  a whole upload needs to be known of the session while it uploads, and because two processes
  may work on one version, the argument cannot come from the lock. It goes through the
  conditional creates: an object, once there, keeps its execution; a session past the upload
  has created every object itself, so all of them carry its execution; the manifest,
  created once, is therefore the manifest of exactly those objects; only then does a marker
  follow. Hence at most one session per version gets past the upload, without any lock.
  `PublicationIsAtomic` is the refinement of `VersionedDataset`: initial states map to initial
  states, every step to `Publish`, `Promote` or a stutter.
* `WritersExclude` assumes that `RunOf` is injective, as the lock itself does: a lock is
  deleted by its own run only, so it survives until its session releases it.

`JobQueueProofs`

* `TypeCorrect` with `WorkersKnowTheirJob`.
* `RowSteps` reduces every action to one of seven ways a job row can change. From it:
  `AttemptsAreLimited` (only recovery requeues, and only by an attempt count below the limit;
  what a recovery has read of a row is its count still, unless it overtakes a claim),
  `RunningRowsAreLeased`, `TerminalJobsAreFinal`. `SucceededScansHaveRuns` adds that a
  worker about to complete a scan has persisted its run.
* `ExecutionIsExclusive`, `FailuresAreReal`: from `UndisturbedInv`. As long as no
  renewal was late, no statement failed and nobody cancelled, the row of a claimed job is the
  claimer's until it reports the end, its heartbeat runs as long as the execution, and a lease
  therefore expires only when its owner is gone. A row that a recovery on Postgres has read as
  stale was one of those; if its attempts are still the ones that were read, nobody has claimed it
  since, and the update takes it from nobody. Where they are not, the job is `Overtaken`, which the
  three properties except.

`BatchRunProofs`

* `TypeCorrect`, and from `BatchInv`: `SucceededRowsHaveOutput`, `CompletedRunsAreTerminal`,
  `AttemptsAreBudgeted`, `ExitZeroIsHonest`, `SucceededRowsAreFinal`, `OutputsAreBuiltOnce`.
  What the journal says is written after the work, by a task that a crash may take at any
  step, so `BatchInv` ties the step of each task to how far its output directory is
  (`OutputAtStep`) and an attempt without an error to a complete output
  (`GoodEndHasOutput`); neither speaks of the lock file, which may stay. What is waiting to be spawned is never journalled succeeded
  (`PendingIsOpen`); this is what makes such a row final. The attempts made are the
  ones the journal counts, except at `lapsed` datasets (`JournalKnows`); `WithinBudget` counts them
  per state of the task: one that this process has not tried yet leaves room for one more.

`AuthTokensProofs`, `ListingsProofs`, `ServiceProofs`

* `TokensHaveOneHolder` from `TokenInv`: a rotation that has read its row and whose SQLite
  snapshot is not stale still sees the row in use (`SnapshotIsLive`), because every commit of
  another request makes the snapshot stale; a row in use has no successor. Nothing of the kind
  holds on Postgres, which the property excepts.
* `WalksMissNothing` from `ListInv`: the rank of a row is its place in the list. For the rows of
  a run, which do not change, the client has exactly those of a rank up to its offset; for
  jobs, new ones only raise the rank of the old ones, so that those the offset has passed were
  seen.
* `StoredRunsCanBeBelieved`, `RefusalsHaveAReason` from `ScanInv`: what is inspected was planned,
  what is kept of a Parquet file was readable when it was read, the records are consistent
  whatever the file holds by now; hence the engine's report passes its own validation, and what
  is stored agrees with it. `TypeCorrect` combines the three invariants.

`PlanningProofs`

* `RunsStayApart` from `BatchPlanInv`: what a run works with is named by its journal, and that
  was validated before the journal was written, whatever the plan file is edited to later.
  The lemmas show that a canonical path survives being rendered as a URI and parsed again if no
  segment of it is one a URI reads otherwise (`Plain`); hence a source is the directory that was
  planned from, and where the outputs are spelled as they lead, what is disjoint as spelled is
  disjoint in the file system. Other outputs are excepted.
* `UnifiedKindsAreLeast` (`UnificationIsFaithful`) from `UnifyInv`: after any number of files the
  map has, for every column met so far, the least kind that holds all its kinds (`MapIsLeast`);
  one more file keeps it so because unifying with one more kind gives the least that holds it as
  well (`LeastOfMore`). A refusal therefore has a column that no kind holds (`RefusalHasCause`),
  and the order of the files decides nothing. The kind of the schema holds that of the file, so a
  batch column of the file's own type is kept, rounded or refused; of CSV batches of another type
  it says nothing. Of `stringify`, where the
  order does matter, it says nothing.
* `VerifiedRepairsAreWhole` from `RepairInv`: while the dataset is as it was scanned, no block is
  in two files of the working set (`WorkSound`), so its rows, counted file by file, are the sum
  over a set of blocks of the dataset. The verification compares this sum with that over all
  blocks of the files that were scanned; if they are equal, what is missing has no rows
  (`SumLeavesZeros`). Nothing is assumed of the names: whatever is written over or removed is
  noticed by the count; an output that is listed in part only counts less than it holds. Without an
  authorisation no rename and no cast has run, and a merge joins files of the same columns. The
  last claim, that a passed check leaves nothing to authorise, uses that plan and verdict are
  functions of the scan (`PlanIsOfItsTime`, `VerdictIsOfItsTime`).
* `RowsAreLostOnlyByClashes` from `KeepInv` and `RepairInv`, the other direction: if the dataset
  uses none of the executor's names and every removal was done, no operation loses a block that has rows (`Complete`). It needs that
  the names of parts still to come are free (`Room`), and that a plan merges once and splits only
  files of its inventory (`PlanShape`). Then the count of the verification comes out equal, provided a scan lists the whole output.
  `ManifestsAreRight` is both together.
* `PlanningIsTyped`, with `RepairInv`, `UnifyInv` and the types of the batch.

`StreamingProofs`

* `PartitionedWritesAreWhole`, `FinishedPartsStay` from `PartitionInv`: the queue names the open
  partitions, each once, so what is evicted is open (`QueueIsOpen`); the number of the next part
  of a partition is above those of its finished parts, so that closing it makes a new part
  (`NumbersAreFresh`); the rows placed so far are spread over open partitions and finished
  parts, each in one place (`Spread`).
* `SuccessfulConversionsAreWhole`, `PublishedObjectsHoldGoodInputs` from `ConvertInv`. It looks
  at the concatenation of everything between the channel and the output (`Stream`). A reader's
  batch is appended to it; every other step moves its pieces along or nothing; the footer is
  appended when nobody sends any more. So it holds, at any time, the batches sent so far, each
  once and in the order of its input (`InOrder`). The rest is about how the stages end:
  a blocking task is queued or running only while the thing it does is not done
  (`TasksAreLive`), a stage that ended well has emptied what is before it (`LocalStages`,
  `RemoteStages`), and what was published is what the upload was given (`UploadIsWhole`). A
  reader may end with Ok before its input does, but only once the writer has failed, and then
  no footer was or will be written (`ClosedMeansSent`).
* `StreamingTypes`: channels keep their capacity and the pool its number of threads.
* `CommittedConversionsAreWhole` from `ResumableInv`. A part is written before its file is
  called processed, and a checkpoint saved after; a torn part belongs to a file that neither
  the process nor the checkpoint calls processed. So the parts of all processed files are
  staged, whole and not older than the fingerprint, wherever the process dies
  (`PartsAreKept`), where no start spoilt them - unless they all became the output by a rename, after which a resume finds
  nothing and commits nothing. The loop that joins them has, before each input, the rows of the
  inputs before it (`JoinedBefore`), and the header of the first CSV part only. The commit
  comes after the loop, and nothing touches the output of a committed checkpoint until a new
  start has replaced it (`CommitIsWhole`).
* `SpecsAreApplied` (`SpecApplied`) from `SpecInv`. A spec that is executed to its end has one
  segment: a split predicts no output files, so that nothing can follow it, and a segment in
  front of a split is staged in a directory, which holds none of the files that were predicted.
  Of that segment the output has the rows that its first rewrite selects from the inputs, and
  besides them only what was there before (`Executed`). The filters are compared with the
  three-valued reference: they differ only on NULL under a negation (`OnlyNegationsGuess`).

Only model-checked:

* all liveness (`EveryRunSettles`, `EventuallyCompleted`, `EveryJobTerminates`,
  `ConversionEnds`, `ResumeCompletes`): fairness and ENABLED are out of the prover's reach;
* the properties of the violated runs, which do not hold.

Every invariant and every action property of a passing run is a theorem.

## 5. Not modelled

Values inside Parquet and CSV files beyond what filters, partitions and casts tell apart;
compression, encodings and statistics; text parsing of filters and configuration files. A
source written to after the last fingerprint check is not noticed, as in the code.

The storage backends' reads and listings and the local backend's object writes; metrics,
redaction of credentials. Rendering of reports, OpenAPI, HTTP routing apart from roles, the
server's policy on storage locations, the plugin protocol (one synchronous call), plan diffs
and batch reports (read-only), observers and progress. The repair plans inside a batch plan
and the remote branch of the batch run are each modelled alone, not composed. Cancellation
between the end of a batch and its exit code, and errors of the journal other than in
`upsert_record` (they end the process with an error before work starts or after it is done),
are left out.

## 6. Plan

Done, in this order: `VersionedDataset` and `Publication`, `BatchRun`, `JobQueue`, the proofs
of the first and the last; then `Streaming`, `Service` and `Planning` with their parts; then
the proofs about `BatchRun`, `Service`, the batch locations, conversions and partitioned
writes; then those about transform specs, unified schemas and repairs; last, the recovery of jobs on
Postgres, failed removals, names that clash, links and URIs, and CSV files typed by batch.

Next, models, where the code leaves room: the remote branch of `execute_dataset_once` composed
with `Publication`, the local backend's temporary files, several runs over one local output.
