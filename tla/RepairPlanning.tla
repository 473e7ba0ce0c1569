-------------------------- MODULE RepairPlanning ---------------------------
(***************************************************************************)
(* What a repair plan is: the diagnosis of a scanned dataset, the rules    *)
(* that turn findings into operations, the comparison of the columns of    *)
(* its files, and the order in which the operations will run.              *)
(*                                                                         *)
(* An inventory maps file names to footers.  Names are numbers in path     *)
(* order.  Sizes are in MiB.                                               *)
(***************************************************************************)
EXTENDS Integers, Sequences, FiniteSets, FiniteSetsExt, SequencesExt, Functions

CONSTANTS
    None,
    Areas       \* which parts of planning a run exercises

VARIABLE area   \* the one that this behaviour does

\* All of S in behaviours about this part, one member in the others.
Choose1(part, S) == IF area = part THEN S ELSE {CHOOSE x \in S : TRUE}

\* What an inspection reads from a file: its size, its rows, its row groups with the
\* median size of one and the rows of the smallest, the codecs, whether it has
\* statistics, whether a walk can stat it, whether it can be read at all, its columns.
Column == [name : STRING, type : STRING, null : BOOLEAN]
FileFooter ==
    [mb : Nat, rows : Nat, groups : Nat, rgmb : Nat, minrows : Nat,
     codecs : SUBSET STRING, stats : BOOLEAN, visible : BOOLEAN, readable : BOOLEAN, cols : Seq(Column)]

\* RepairPolicy::default; a [repair] section of a policy file changes nothing
\* (EffectivePolicy::from_toml hands the section's own table to a parser that looks
\* for a section in it).
SmallFileMb == 16
MinFilesForMerge == 4
TargetRowGroupMb == 128
MinCodecs == 2

\* The first word of the column's "physical logical" text.
Physical(type) == IF type = "DATE" THEN "INT32" ELSE IF type = "STRING" THEN "BYTE_ARRAY" ELSE type

Columns(file) == Range(file.cols)
ColumnNames(file) == {c.name : c \in Columns(file)}
Signature(file) == {<<c.name, c.type>> : c \in Columns(file)}
StructuralKey(file) == {<<c.name, Physical(c.type), c.null>> : c \in Columns(file)}

\* from_scan_report: one unreadable Parquet file fails the whole inventory.
Inventoried(inv) == \A n \in DOMAIN inv : inv[n].readable
TotalRows(inv) == SumFunction([n \in DOMAIN inv |-> inv[n].rows])
SmallFiles(inv) == {n \in DOMAIN inv : inv[n].mb < SmallFileMb}

\* What a plan is bound to.
Fingerprint(inv) ==
    [n \in DOMAIN inv |-> <<inv[n].mb, inv[n].rows, inv[n].groups, Signature(inv[n]), inv[n].codecs>>]
-----------------------------------------------------------------------------
(* The diagnosis.                                                           *)
ManySmall(inv) == Cardinality(SmallFiles(inv)) >= MinFilesForMerge

BadRowGroups(inv) ==
    \E n \in DOMAIN inv :
        LET f == inv[n] IN
        \/ f.groups >= 8 /\ f.rgmb < TargetRowGroupMb \div 64
        \/ f.rgmb > 2 * TargetRowGroupMb /\ f.groups <= 2 /\ f.rows > 1000
        \/ /\ Cardinality(DOMAIN inv) >= MinFilesForMerge
           /\ f.groups = 1 /\ n \in SmallFiles(inv) /\ f.rows \in 1 .. 5000

MixedCodecs(inv) == Cardinality(UNION {inv[n].codecs : n \in DOMAIN inv}) >= MinCodecs

\* The files of which the scan itself says that their row groups are too small.
SuspiciouslySmall(scan) ==
    {n \in DOMAIN scan : scan[n].readable /\ scan[n].groups >= 4 /\ scan[n].rows >= 200 /\ scan[n].minrows < 48}
-----------------------------------------------------------------------------
(* The rules.  An operation has a class, the files and the column it is     *)
(* about and, for a cast or a rename, what it turns the column into; copies *)
(* counts proposals with the same identifier.                               *)
Operation(class, paths, column, to, copies) ==
    [class |-> class, paths |-> paths, column |-> column, to |-> to, copies |-> copies]
OnFiles(class, paths) == Operation(class, paths, None, None, 1)
When(condition, op) == IF condition THEN {op} ELSE {}

\* The structural schemas that most small files share: the rule takes one of them.
DominantKeys(inv) ==
    LET Sharing(key) == {n \in SmallFiles(inv) : StructuralKey(inv[n]) = key}
        keys == IF SmallFiles(inv) = {} THEN {{}} ELSE {StructuralKey(inv[n]) : n \in SmallFiles(inv)}
    IN {k \in keys : \A other \in keys : Cardinality(Sharing(other)) <= Cardinality(Sharing(k))}

MergeRule(inv, key, policy) ==
    LET inputs == {n \in SmallFiles(inv) : inv[n].mb <= policy.maxMb /\ StructuralKey(inv[n]) = key}
    IN When(ManySmall(inv) /\ Cardinality(inputs) >= MinFilesForMerge, OnFiles("merge", inputs))

RowGroupRule(inv, scan) ==
    LET flagged == Cardinality(SuspiciouslySmall(scan)) IN
    IF BadRowGroups(inv)
    THEN {OnFiles("rowgroups", DOMAIN inv)}
    ELSE When(flagged > 0, Operation("rowgroups", DOMAIN inv, None, None, flagged))

CompressRule(inv) == When(MixedCodecs(inv), OnFiles("compress", DOMAIN inv))

StatsRule(inv) ==
    LET without == {n \in DOMAIN inv : ~inv[n].stats} IN When(without # {}, OnFiles("stats", without))

SplitRule(inv, policy) == {OnFiles("split", {n}) : n \in {m \in DOMAIN inv : inv[m].mb > policy.maxMb}}

RenameRule(inv, policy) ==
    {Operation("rename", DOMAIN inv, r[1], r[2], 1) :
        r \in {p \in policy.rename : p[1] # p[2] /\ \E n \in DOMAIN inv : p[1] \in ColumnNames(inv[n])}}
-----------------------------------------------------------------------------
(* The comparison of one column across the files that have it.              *)
Widening == {<<"INT32", "INT64">>, <<"FLOAT", "DOUBLE">>}
Rounding == {<<"INT32", "DOUBLE">>, <<"INT64", "DOUBLE">>}
WideningRank(phys) ==
    CASE phys = "INT32" -> 2 [] phys = "INT64" -> 3 [] phys = "FLOAT" -> 20 [] phys = "DOUBLE" -> 21 [] OTHER -> 0

NullsFit(from, to, policy) == from.null = to.null \/ (to.null /\ policy.nullwiden)

Classify(from, to, policy) ==
    IF from.phys = to.phys
    THEN IF NullsFit(from, to, policy) THEN "lossless"
         ELSE IF from.null THEN "lossy" ELSE "unsupported"
    ELSE LET pair == <<from.phys, to.phys>> IN
         CASE ~policy.widen -> "unsupported"
           [] policy.widen /\ pair \in Widening -> IF NullsFit(from, to, policy) THEN "lossless" ELSE "conditional"
           [] policy.widen /\ pair \in Rounding -> "lossy"
           [] OTHER -> "unsupported"

Variants(inv, column) ==
    LET having == SetToSortSeq({n \in DOMAIN inv : column \in ColumnNames(inv[n])}, <)
        In(n) == CHOOSE c \in Columns(inv[n]) : c.name = column
    IN [i \in DOMAIN having |-> [phys |-> Physical(In(having[i]).type), null |-> In(having[i]).null]]

Canonical(variants, policy) ==
    LET Better(best, v) ==
            IF Classify(best, v, policy) = "lossless" /\ WideningRank(v.phys) > WideningRank(best.phys) THEN v
            ELSE [best EXCEPT !.null = @ \/ (v.null /\ policy.nullwiden)]
    IN FoldLeft(Better, Head(variants), Tail(variants))

\* The difference reported for a column: the first variant that is not the
\* canonical one stands for all of them.
FirstOther(inv, column, policy) ==
    LET vs == Variants(inv, column)
    IN SelectSeq(vs, LAMBDA v : v # Canonical(vs, policy))

SchemaRule(inv, policy) ==
    LET Harmonize(column) ==
            LET others == FirstOther(inv, column, policy)
                from == Head(others)
                to == Canonical(Variants(inv, column), policy)
                class == CASE Classify(from, to, policy) = "lossless" -> "widen"
                           [] Classify(from, to, policy) = "conditional" -> "cond"
                           [] OTHER -> "blocked"
            IN When(others # <<>>,
                    Operation(class, DOMAIN inv, column, IF from.phys # to.phys THEN to.phys ELSE "nullable", 1))
    IN UNION {Harmonize(column) : column \in UNION {ColumnNames(inv[n]) : n \in DOMAIN inv}}
-----------------------------------------------------------------------------
Safety(op) ==
    CASE op.class = "blocked" -> "blocked"
      [] op.class \in {"cond", "rename", "widen"} -> "review"
      [] OTHER -> "safe"

\* assign_dependencies: an operation depends on all of the kinds before it; those of
\* one kind run in the order of their identifiers, which begin with the rule's name.
Order ==
    [blocked |-> 0, cond |-> 1, rename |-> 2, widen |-> 3, split |-> 4, rowgroups |-> 5, compress |-> 6,
     stats |-> 7, merge |-> 8]
Rank(op) == Order[op.class]

\* sort_by_dependencies: identifiers that occur twice are taken for a cycle.
Sortable(ops) == \A op \in ops : op.copies = 1
Runnable(ops) == {op \in ops : \A other \in ops : Rank(op) <= Rank(other)}

\* generate_plan, for one choice of the dominant schema.
Operations(inv, scan, key, policy) ==
    MergeRule(inv, key, policy) \cup RowGroupRule(inv, scan) \cup CompressRule(inv) \cup StatsRule(inv)
        \cup SplitRule(inv, policy) \cup RenameRule(inv, policy) \cup SchemaRule(inv, policy)

\* evaluate_check with the default CI policy: safe operations do not fail it.
CheckExit(ops) ==
    CASE \E op \in ops : Safety(op) = "blocked" -> 4
      [] (\E op \in ops : Safety(op) = "review") /\ (\A op \in ops : Safety(op) # "blocked") -> 3
      [] OTHER -> 0
=============================================================================
