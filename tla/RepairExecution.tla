-------------------------- MODULE RepairExecution --------------------------
(***************************************************************************)
(* A repair of one dataset, from the plan to the manifest, while other     *)
(* programs may still write to the dataset.                                *)
(*                                                                         *)
(* Files hold blocks of rows: a file that is written holds two fresh ones, *)
(* so that a split can part them.  The executor keeps a map of the files   *)
(* it works on, and a work directory; they can come apart: names that it   *)
(* writes to, or removes as its own, may be names of the dataset.          *)
(***************************************************************************)
EXTENDS RepairPlanning

CONSTANTS
    Names,      \* names that a writer may use
    Datasets,   \* the datasets to start from: functions from names to footers
    Footers,    \* what a writer may put in place of a file
    Policies,   \* records maxMb, widen, nullwiden, rename
    MaxEdits,   \* writes to the dataset by others
    ScanCap     \* ScanOptions::max_files: a walk ends there

ASSUME DatasetsAssumption ==
    /\ Names \subseteq Nat /\ Footers \subseteq FileFooter /\ MaxEdits \in Nat /\ ScanCap \in Nat \ {0}
    /\ Datasets # {} /\ Policies # {} /\ \A p \in Policies : p.maxMb \in Nat
    /\ \A d \in Datasets :
        IsFiniteSet(DOMAIN d) /\ DOMAIN d \subseteq Nat /\ \A n \in DOMAIN d : d[n] \in FileFooter

VARIABLES
    remote,     \* the dataset is in a remote store
    policy,
    source,     \* the dataset: a file is its footer and when it was written
    edits,
    plan,       \* the plan file
    verdict,    \* exit code of prqnt check
    repair      \* the repair in progress

repairVars == <<remote, policy, source, edits, plan, verdict, repair>>

\* merged-part-000<k>.parquet may be in the dataset: it may be the output of a repair.
MergedPart(k) == 90 + 20 * k

\* Mutant of SplitPart: the parts are not counted.
SplitPartUncounted(name, k) == name + 4

SplitPart(name, k) == name + 4 * (k + 1)

\* Path::with_extension("parqonaut-tmp.parquet") and the like, beside the file and
\* before it in path order.
Temp(class, name) ==
    CASE class = "rename" -> name - 2
      [] class \in {"widen", "cond"} -> name - 3
      [] OTHER -> name - 1
Temps(class, names) == {Temp(class, n) : n \in names}

\* What lies in the directories _merge_out and _split_out.
MergeScratch == 200 .. 219
SplitScratch == 220 .. 239

Without(files, names) == Restrict(files, DOMAIN files \ names)
With(files, name, file) == [n \in DOMAIN files \cup {name} |-> IF n = name THEN file ELSE files[n]]
Over(files, new) == [n \in DOMAIN files \cup DOMAIN new |-> IF n \in DOMAIN new THEN new[n] ELSE files[n]]

Block(name, written, half, rows) == [of |-> name, written |-> written, half |-> half, rows |-> rows]
BlocksOf(files, name) ==
    LET f == files[name]
        first == f.footer.rows \div 2
    IN {Block(name, f.written, 1, first), Block(name, f.written, 2, f.footer.rows - first)}
RowsOf(blocks) == SumFunction([b \in blocks |-> b.rows])

\* resolve_directory passes over what it cannot stat and ends at the cap, wherever the
\* walk has got to; nobody asks whether it was truncated.  A remote store is listed.
Visible(files) == IF remote THEN DOMAIN files ELSE {n \in DOMAIN files : files[n].footer.visible}
Listings(names) == IF remote \/ Cardinality(names) <= ScanCap THEN {names} ELSE kSubset(ScanCap, names)

\* A scan lists files and their sizes; footers are read again where they are needed.
Scans(files) == {[n \in names |-> files[n].footer] : names \in Listings(Visible(files))}
Gone == [readable |-> FALSE]
Inspect(scan) ==
    [n \in DOMAIN scan |->
        IF remote THEN scan[n]
        ELSE IF n \notin DOMAIN source THEN Gone
        ELSE [source[n].footer EXCEPT !.mb = scan[n].mb]]

Idle == [pc |-> "idle"]

RepairInit ==
    /\ remote \in Choose1("repair", BOOLEAN)
    /\ policy \in Choose1("repair", Policies)
    /\ \E d \in Choose1("repair", Datasets) : source = [n \in DOMAIN d |-> [footer |-> d[n], written |-> 0]]
    /\ edits = 0
    /\ plan = None
    /\ verdict = None
    /\ repair = Idle
-----------------------------------------------------------------------------
(* Another program writes or removes a file.                                *)
EditSource ==
    /\ edits < MaxEdits
    /\ edits' = edits + 1
    /\ \E n \in Names :
        \/ \E f \in Footers :
            source' = With(source, n, [footer |-> f, written |-> edits'])
        \/ n \in DOMAIN source /\ source' = Without(source, {n})
    /\ UNCHANGED <<remote, policy, plan, verdict, repair>>

(* prqnt plan, and the first half of prqnt doctor.                          *)
GeneratePlan ==
    /\ plan = None
    /\ \E scan \in Scans(source) :
        /\ Inventoried(scan)
        /\ \E key \in DominantKeys(scan) :
            plan' = [ops |-> Operations(scan, scan, key, policy), fingerprint |-> Fingerprint(scan),
                     scan |-> scan, edits |-> edits]
    /\ UNCHANGED <<remote, policy, source, edits, verdict, repair>>

(* prqnt check plans for itself; an unreadable file makes it fail.          *)
Check ==
    /\ verdict = None /\ plan = None
    /\ \E scan \in Scans(source) : \E key \in DominantKeys(scan) :
        verdict' = [exit |-> IF Inventoried(scan) THEN CheckExit(Operations(scan, scan, key, policy)) ELSE 5,
                    scan |-> scan]
    /\ UNCHANGED <<remote, policy, source, edits, plan, repair>>

(* prqnt repair scans again; prqnt doctor --repair goes on with the scan it *)
(* planned from.                                                            *)
Reviewable == {op \in plan.ops : Safety(op) = "review"}
Starting(scan, at, authorized) ==
    [pc |-> "verify source", scan |-> scan, at |-> at, auth |-> authorized,
     work |-> <<>>, known |-> {}, left |-> {}, toSeed |-> {}, todo |-> plan.ops, done |-> {}, skipped |-> {},
     output |-> None, outcome |-> None]

StartRepair ==
    /\ repair.pc = "idle" /\ plan # None
    /\ \E authorized \in SUBSET Reviewable :
        \/ \E scan \in Scans(source) : repair' = Starting(scan, edits, authorized)
        \/ repair' = Starting(plan.scan, plan.edits, authorized)
    /\ UNCHANGED <<remote, policy, source, edits, plan, verdict>>

Fails == repair' = [repair EXCEPT !.pc = "failed"]

(* The output exists or overlaps the source, or the source is not the one   *)
(* that was planned for.  A remote source is listed again for the copy.     *)
VerifySource ==
    LET now == Inspect(repair.scan) IN
    /\ repair.pc = "verify source"
    /\ \E free \in BOOLEAN :
        IF free /\ Inventoried(now) /\ Fingerprint(now) = plan.fingerprint
        THEN repair' = [repair EXCEPT !.pc = "seed", !.toSeed = IF remote THEN DOMAIN source ELSE DOMAIN repair.scan]
        ELSE Fails
    /\ UNCHANGED <<remote, policy, source, edits, plan, verdict>>
-----------------------------------------------------------------------------
(* The working set is copied file by file.                                  *)
Copy(n) == [blocks |-> BlocksOf(source, n), cols |-> source[n].footer.cols, lost |-> {}]

Seed ==
    /\ repair.pc = "seed" /\ repair.toSeed # {}
    /\ LET n == Min(repair.toSeed) IN
        IF n \in DOMAIN source
        THEN repair' = [repair EXCEPT !.toSeed = @ \ {n}, !.work = With(@, n, Copy(n)), !.known = @ \cup {n}]
        ELSE Fails
    /\ UNCHANGED <<remote, policy, source, edits, plan, verdict>>

Seeded ==
    /\ repair.pc = "seed" /\ repair.toSeed = {}
    /\ IF Sortable(plan.ops) /\ (remote => repair.work # <<>>)
       THEN repair' = [repair EXCEPT !.pc = "apply"]
       ELSE Fails
    /\ UNCHANGED <<remote, policy, source, edits, plan, verdict>>

\* The disk fills or a write fails; the staging directory is kept.
BreakDown ==
    /\ repair.pc \in {"seed", "apply"}
    /\ Fails
    /\ UNCHANGED <<remote, policy, source, edits, plan, verdict>>
-----------------------------------------------------------------------------
(* The operations.  Each gives the possible outcomes: the work directory,   *)
(* the map of the files in it, and the inputs that could not be removed and *)
(* stay (the error is ignored); none if it fails.                           *)
After(work, known, left) == [work |-> work, known |-> known, left |-> left]
Content(work, names) == UNION {work[n].blocks : n \in names}

\* merge_parquet_files: batches go to a part until it is full, in path order; files
\* without rows have no batch.  Two parts stand for two or more.
MergeFiles(work, inputs) ==
    LET filled == {n \in inputs : RowsOf(work[n].blocks) > 0}
        Piece(names) == [blocks |-> Content(work, names),
                         cols |-> work[Min(names)].cols,
                         lost |-> UNION {work[n].lost : n \in names}]
    IN IF ~(inputs \subseteq DOMAIN work) \/ \E m, n \in inputs : work[m].cols # work[n].cols THEN {}
       ELSE IF filled = {} THEN {<<>>}
       ELSE {[k \in {MergedPart(0)} |-> Piece(filled)]}
            \cup {[k \in {MergedPart(0), MergedPart(1)} |->
                    Piece({n \in filled : IF k = MergedPart(0) THEN n <= last ELSE n > last})] :
                    last \in {m \in filled : \E n \in filled : n > m}}

\* The inputs go, the parts are copied into place, the scratch directory goes.
Replaced(work, known, inputs, parts, scratch, left) ==
    After(Without(Over(Without(work, inputs \ left), parts), scratch), (known \ inputs) \cup DOMAIN parts, left)

Merge(work, known, op) ==
    LET inputs == op.paths \cap known
    IN IF Cardinality(inputs) < 2 THEN {After(work, known, {})}
       ELSE {Replaced(work, known, inputs, parts, MergeScratch, left) :
                parts \in MergeFiles(work, inputs), left \in SUBSET inputs}

SplitFile(file, name) ==
    LET Half(k) == [file EXCEPT !.blocks = {b \in @ : b.half = k}]
    IN {[k \in {SplitPart(name, 0)} |-> file],
        [k \in {SplitPart(name, 0), SplitPart(name, 1)} |-> IF k = SplitPart(name, 0) THEN Half(1) ELSE Half(2)]}

\* A file that the map does not have is read where the dataset is.
Split(work, known, op) ==
    LET name == Min(op.paths)
        inputs == op.paths \cap known
    IN CASE name \in known /\ name \in DOMAIN work ->
              {Replaced(work, known, inputs, parts, SplitScratch, left) :
                  parts \in SplitFile(work[name], name), left \in SUBSET inputs}
         [] name \notin known /\ ~remote /\ name \in DOMAIN source ->
              {Replaced(work, known, {}, parts, SplitScratch, {}) : parts \in SplitFile(Copy(name), name)}
         [] OTHER -> {}

\* Row groups, codecs and statistics change; rows and columns do not.  Each file is
\* written under its temporary name, which is then renamed.
Rewrite(work, known, op) ==
    LET targets == op.paths \cap known
    IN IF targets \subseteq DOMAIN work THEN {After(Without(work, Temps(op.class, targets)), known, {})} ELSE {}

\* rewrite_parquet_with_cast: text that is no number becomes null, a column that may
\* not be null then fails the file; Date, and the type names it has no label for.
CastColumn(column, to) ==
    CASE to = "nullable" -> [column EXCEPT !.null = TRUE]
      [] OTHER -> [column EXCEPT !.type = to]
CastFails(column, to) == to = "BYTE_ARRAY" \/ (column.type = "STRING" /\ to # "nullable" /\ ~column.null)
CastLoses(column, to) == to # "nullable" /\ (column.type = "STRING" \/ <<column.type, to>> = <<"DOUBLE", "INT64">>)

Changed(column, op) ==
    IF op.class = "rename" THEN [column EXCEPT !.name = op.to] ELSE CastColumn(column, op.to)

OnColumn(work, known, op) ==
    [n \in DOMAIN work |->
        IF n \notin known THEN work[n]
        ELSE [work[n] EXCEPT !.cols = [i \in DOMAIN @ |-> IF @[i].name = op.column THEN Changed(@[i], op) ELSE @[i]]]]

\* Both rewrite every file of the map, as Rewrite does.
EveryFileHas(work, known, column) ==
    known \subseteq DOMAIN work /\ \A n \in known : column \in {c.name : c \in Range(work[n].cols)}
In(work, n, column) == CHOOSE c \in Range(work[n].cols) : c.name = column

Cast(work, known, op) ==
    LET Loses(n) == n \in known /\ CastLoses(In(work, n, op.column), op.to)
        on == OnColumn(work, known, op)
        cast == [n \in DOMAIN work |-> [on[n] EXCEPT !.lost = IF Loses(n) THEN @ \cup {op.column} ELSE @]]
    IN IF /\ EveryFileHas(work, known, op.column)
          /\ \A n \in known : ~CastFails(In(work, n, op.column), op.to)
       THEN {After(Without(cast, Temps(op.class, known)), known, {})}
       ELSE {}

Rename(work, known, op) ==
    IF /\ EveryFileHas(work, known, op.column)
       /\ \A n \in known : op.to \notin {c.name : c \in Range(work[n].cols)}
    THEN {After(Without(OnColumn(work, known, op), Temps(op.class, known)), known, {})}
    ELSE {}

ApplyOperation(work, known, op) ==
    CASE op.class = "merge" -> Merge(work, known, op)
      [] op.class = "split" -> Split(work, known, op)
      [] op.class \in {"rowgroups", "compress", "stats"} -> Rewrite(work, known, op)
      [] op.class \in {"widen", "cond"} -> Cast(work, known, op)
      [] op.class = "rename" -> Rename(work, known, op)

\* Mutant of MayRun: an operation that needs review runs without it.
MayRunReviewed(op) == Safety(op) # "blocked"

MayRun(op) == Safety(op) = "safe" \/ (Safety(op) = "review" /\ op \in repair.auth)

(* run_repair_operations, one operation.                                    *)
RunOperation ==
    /\ repair.pc = "apply"
    /\ \E op \in Runnable(repair.todo) :
        \/ /\ ~MayRun(op)
           /\ repair' = [repair EXCEPT !.todo = @ \ {op}, !.skipped = @ \cup {op}]
        \/ /\ MayRun(op)
           /\ \E after \in ApplyOperation(repair.work, repair.known, op) :
                repair' = [repair EXCEPT !.todo = @ \ {op}, !.done = @ \cup {op}, !.work = after.work,
                                         !.known = after.known, !.left = @ \cup after.left]
        \/ /\ MayRun(op)
           /\ ApplyOperation(repair.work, repair.known, op) = {}
           /\ Fails
    /\ UNCHANGED <<remote, policy, source, edits, plan, verdict>>
-----------------------------------------------------------------------------
(* The end.  A local repair is copied out, then verified; a remote one is   *)
(* verified in its work directory.                                          *)
CopyOut ==
    /\ repair.pc = IF remote THEN "publish" ELSE "apply"
    /\ repair.todo = {}
    /\ repair' = [repair EXCEPT !.pc = IF remote THEN "done" ELSE "verify", !.output = repair.work]
    /\ UNCHANGED <<remote, policy, source, edits, plan, verdict>>

\* verify_repair compares the rows of the files of two scans.  "Before" is read from
\* the source again; for a remote source both are the work directory just repaired.
RowsIn(files, names) == SumFunction([n \in names |-> RowsOf(files[n].blocks)])
RowCountKept(names) == remote \/ TotalRows(Inspect(repair.scan)) = RowsIn(repair.output, names)

Verify ==
    /\ repair.pc = IF remote THEN "apply" ELSE "verify"
    /\ repair.todo = {}
    /\ IF ~remote /\ ~Inventoried(Inspect(repair.scan)) THEN Fails
       ELSE \E names \in Listings(DOMAIN repair.work) :
                repair' = [repair EXCEPT
                    !.pc = IF remote THEN "publish" ELSE "done",
                    !.outcome = IF RowCountKept(names) THEN "verified" ELSE "failed"]
    /\ UNCHANGED <<remote, policy, source, edits, plan, verdict>>

RepairStep ==
    \/ EditSource \/ GeneratePlan \/ Check \/ StartRepair \/ VerifySource
    \/ Seed \/ Seeded \/ BreakDown \/ RunOperation \/ CopyOut \/ Verify
-----------------------------------------------------------------------------
(* A finished local repair of a dataset nobody has written to since its     *)
(* scan, in which nothing that was to be removed stayed.                    *)
Undisturbed == repair.pc = "done" /\ ~remote /\ repair.at = edits /\ repair.left = {}

(* The files that the scan of the repair listed.                            *)
Listed == [n \in DOMAIN source \cap DOMAIN repair.scan |-> source[n]]

Kept(files) == {b \in UNION {BlocksOf(files, n) : n \in DOMAIN files} : b.rows > 0}
Filled(work) == {b \in Content(work, DOMAIN work) : b.rows > 0}

(* A local repair that its manifest does not call failed has written every  *)
(* row of the files that were scanned exactly once, whatever was merged,    *)
(* split and cast and whichever names clashed; if the operator authorised   *)
(* nothing, every row still has the columns it had and no value was lost;   *)
(* and if prqnt check had passed what the plan was made from, nothing was   *)
(* left for the operator to authorise.  Files that the walk of the scan did *)
(* not come to, or could not stat, are in no output, and nothing says so.   *)
VerifiedRepairIsWhole ==
    Undisturbed /\ repair.outcome = "verified" =>
        /\ Filled(repair.output) = Kept(Listed)
        /\ \A m, n \in DOMAIN repair.output :
            m # n => \A b \in repair.output[m].blocks \cap repair.output[n].blocks : b.rows = 0
        /\ repair.auth = {} =>
            \A n \in DOMAIN repair.output : \A b \in repair.output[n].blocks :
                repair.output[n].cols = Listed[b.of].footer.cols /\ repair.output[n].lost = {}
        /\ verdict # None /\ verdict.scan = plan.scan /\ verdict.exit = 0 => repair.skipped = {}

(* No file that was scanned has a name that the executor writes to or       *)
(* removes: that of a part of a merge or a split, a temporary name beside   *)
(* another file or part, or one in a scratch directory; and no two splits   *)
(* give the same name.                                                      *)
MergedParts == {MergedPart(0), MergedPart(1)}
SplitParts(name) == {SplitPart(name, 0), SplitPart(name, 1)}
AllNames == DOMAIN Listed \cup MergedParts \cup UNION {SplitParts(n) : n \in DOMAIN Listed}
NamesApart ==
    /\ DOMAIN Listed \cap MergedParts = {}
    /\ \A n \in DOMAIN Listed : SplitParts(n) \cap (DOMAIN Listed \cup MergedParts) = {}
    /\ \A m, n \in DOMAIN Listed : m # n => SplitParts(m) \cap SplitParts(n) = {}
    /\ AllNames \cap (MergeScratch \cup SplitScratch) = {}
    /\ \A class \in DOMAIN Order : AllNames \cap Temps(class, AllNames) = {}

(* Whatever is merged, split, renamed and cast, and however the parts are   *)
(* cut, a local repair ends with all rows that were scanned and             *)
(* verify_repair finds them, unless the dataset uses a name that the        *)
(* executor takes for its own, or the output has more files than a scan     *)
(* lists: nothing else that run_repair_operations does can lose a row.      *)
RowsLostOnlyByClash ==
    Undisturbed /\ NamesApart /\ Cardinality(DOMAIN repair.output) <= ScanCap => repair.outcome = "verified"

(* What the manifest of a local repair says of a dataset that nobody wrote  *)
(* to is right both ways: "verified" is never said of an output that lacks  *)
(* or repeats a row of a file that was scanned, and is always said where no *)
(* name clashes.                                                            *)
ManifestIsRight == VerifiedRepairIsWhole /\ RowsLostOnlyByClash

(* A repair that ran nothing but operations classified as safe keeps the    *)
(* rows of the dataset, whether or not its manifest says so.                *)
SafeRepairKeepsRows ==
    Undisturbed /\ (\A op \in repair.done : Safety(op) = "safe") =>
        RowsIn(repair.output, DOMAIN repair.output) = TotalRows(repair.scan)
=============================================================================
