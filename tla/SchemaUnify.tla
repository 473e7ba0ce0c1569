---------------------------- MODULE SchemaUnify -----------------------------
(***************************************************************************)
(* The one schema of a conversion's output: the types that the input files *)
(* give a column are unified in the order of the files, and every batch is *)
(* then aligned to the result.  A Parquet file has a schema; a CSV file is *)
(* given one by its first records, and every batch of it one by the values *)
(* in the batch.                                                           *)
(***************************************************************************)
EXTENDS RepairPlanning

CONSTANTS
    Inputs,         \* sequences of input files
    Conflicts,      \* how types that do not fit are resolved
    Exclusions      \* sets of columns that the command leaves out

VARIABLES
    inputs,         \* the files, in the order they are read
    conflict,       \* "strict", "widen" or "stringify"
    excluded,       \* --exclude, or what --columns does not name
    columnTypes,    \* from_schemas: the kinds of the columns met so far
    taken,          \* from_schemas: how many files it has gone through
    unified,        \* at most one output schema, a function from columns to kinds
    aligned         \* the batches that were aligned, and what became of each column

unifyVars == <<inputs, conflict, excluded, columnTypes, taken, unified, aligned>>

Kinds == {"Null", "Bool", "I8", "I16", "I32", "I64", "F32", "F64", "Utf8", "Date", "Datetime", "Binary"}

\* Arrow types: two kinds of text are one TypeKind.  from_arrow_type knows no other
\* types: a file that has one is refused.
Types == Kinds \cup {"LargeUtf8"}
KindOf(type) == IF type = "LargeUtf8" THEN "Utf8" ELSE type

\* create_column_array: the type of a column of a batch, from what its values parse as.
Values == {"int", "float", "bool", "text"}
ArrayType(values) ==
    CASE "text" \in values \/ values = {} -> "Utf8"
      [] "text" \notin values /\ "float" \in values -> "F64"
      [] values \cap {"text", "float"} = {} /\ "int" \in values -> "I64"
      [] OTHER -> "Bool"

\* schema_for_input reads 1024 records of a CSV file, with the default delimiter and
\* headers; the reader uses those of the command, so that even the columns may differ.
SchemaOf(file) ==
    IF file.csv THEN [c \in DOMAIN file.sample |-> ArrayType(file.sample[c])] ELSE file.columns
BatchesOf(file) ==
    IF file.csv THEN {[c \in DOMAIN b |-> ArrayType(b[c])] : b \in file.batches} ELSE {file.columns}
Schema(i) == SchemaOf(inputs[i])

ASSUME InputsAssumption ==
    \A files \in Inputs :
        /\ Len(files) \in Nat /\ DOMAIN files = 1 .. Len(files)
        /\ \A i \in DOMAIN files : files[i].csv \/ Range(files[i].columns) \subseteq Types
ASSUME NoneIsNoSchema == None # {}

Numbers == <<"Bool", "I8", "I16", "I32", "I64", "F32", "F64">>
NumberRank(kind) == CHOOSE i \in DOMAIN Numbers : Numbers[i] = kind

\* widen_types: the higher of two numbers, but F64 for I64 and F32.
Wider(left, right) == Numbers[Max({NumberRank(left), NumberRank(right)})]

\* Mutant of Widen: a number is narrowed to the kind of the later file.
WidenToLater(left, right) ==
    IF {left, right} \subseteq Range(Numbers) THEN right ELSE IF left = right THEN left ELSE "error"

Widen(left, right) ==
    LET pair == {left, right} IN
    CASE left = "Null" -> right
      [] left # "Null" /\ (right = "Null" \/ left = right) -> left
      [] left # right /\ pair = {"I64", "F32"} -> "F64"
      [] left # right /\ pair \subseteq Range(Numbers) /\ pair # {"I64", "F32"} -> Wider(left, right)
      [] pair = {"Date", "Datetime"} -> "Datetime"
      [] OTHER -> IF conflict = "stringify" /\ pair \cap {"Utf8", "Binary"} # {} /\ "Null" \notin pair
                  THEN "Utf8" ELSE "error"

AllColumns == UNION {DOMAIN Schema(i) : i \in DOMAIN inputs}

\* One turn of from_schemas' loop: the fields of a file are added to those met so far.
AddFile(types, schema) ==
    [c \in DOMAIN types \cup DOMAIN schema |->
        IF c \notin DOMAIN types THEN KindOf(schema[c])
        ELSE IF c \notin DOMAIN schema THEN types[c] ELSE Widen(types[c], KindOf(schema[c]))]

\* Mutant of Conflicting: types that do not fit are noticed by nobody.
NeverConflicting(types) == FALSE

Conflicting(types) == "error" \in Range(types)
-----------------------------------------------------------------------------
(* coerce_column: what happens to the values of a column of kind `from`     *)
(* that the output has as `to`.  A column of nulls is built as text unless  *)
(* the output has one of four kinds, and text in a column of another kind   *)
(* fails the batch; LargeUtf8 is taken for Utf8, which panics.              *)
NullColumn(to) == IF to \in {"Utf8", "I64", "F64", "Bool"} THEN "nulls" ELSE "error"

Coerce(from, to) ==
    CASE from = "LargeUtf8" -> "error"
      [] from = to -> IF to \in {"I32", "I64", "F64", "Utf8", "Bool"} THEN "kept" ELSE NullColumn(to)
      [] from = "Utf8" /\ to \in {"I64", "F64", "Bool"} -> "parsed"
      [] from = "I64" /\ to = "F64" -> "rounded"
      [] from \notin {to, "LargeUtf8"} /\ to = "Utf8" ->
            IF from \in {"I32", "I64", "F64", "Bool"} THEN "printed" ELSE "type name"
      [] OTHER -> "error"

\* align_batch_with_source: a column that the batch does not have is all nulls, one that
\* the schema does not have is dropped.  The batch is built with the whole schema, so
\* leaving a column out makes it fail.
Align(batchTypes, schema) ==
    [c \in DOMAIN schema |->
        IF c \in excluded THEN "error"
        ELSE IF c \in DOMAIN batchTypes THEN Coerce(batchTypes[c], schema[c]) ELSE NullColumn(schema[c])]

UnifyInit ==
    /\ inputs \in Choose1("schema", Inputs)
    /\ conflict \in Choose1("schema", Conflicts)
    /\ excluded \in Choose1("schema", Exclusions)
    /\ columnTypes = <<>>
    /\ taken = 0
    /\ unified = None
    /\ aligned = {}

(* from_schemas: the first column that cannot be unified ends it.           *)
TakeSchema ==
    /\ unified = None
    /\ taken < Len(inputs)
    /\ LET types == AddFile(columnTypes, Schema(taken + 1)) IN
        IF Conflicting(types)
        THEN unified' = {} /\ UNCHANGED <<columnTypes, taken>>
        ELSE columnTypes' = types /\ taken' = taken + 1 /\ UNCHANGED unified
    /\ UNCHANGED <<inputs, conflict, excluded, aligned>>

Unify ==
    /\ unified = None
    /\ taken = Len(inputs)
    /\ unified' = {columnTypes}
    /\ UNCHANGED <<inputs, conflict, excluded, columnTypes, taken, aligned>>

(* A reader aligns a batch of its file; one that fails is its last.         *)
AlignNext ==
    /\ unified # None
    /\ \E schema \in unified, i \in DOMAIN inputs : \E types \in BatchesOf(inputs[i]) :
        /\ \A one \in aligned : one.file = i => "error" \notin Range(one.fate)
        /\ aligned' = aligned \cup {[file |-> i, types |-> types, fate |-> Align(types, schema)]}
    /\ UNCHANGED <<inputs, conflict, excluded, columnTypes, taken, unified>>

UnifyStep == TakeSchema \/ Unify \/ AlignNext
-----------------------------------------------------------------------------
(* Reference: which kinds hold the values of another.  An I64 does not fit  *)
(* an F32, and nothing but a Date fits a Datetime.                          *)
Fits(from, to) ==
    \/ from = to \/ from = "Null" \/ <<from, to>> = <<"Date", "Datetime">>
    \/ /\ {from, to} \subseteq Range(Numbers)
       /\ NumberRank(from) < NumberRank(to) /\ <<from, to>> # <<"I64", "F32">>

Holds(kind, kinds) == \A k \in kinds : Fits(k, kind)
Least(kind, kinds) == Holds(kind, kinds) /\ \A other \in Kinds : Holds(other, kinds) => Fits(kind, other)
KindsOf(column) == {KindOf(Schema(i)[column]) : i \in {j \in DOMAIN inputs : column \in DOMAIN Schema(j)}}

(* Unless conflicts are turned into text, every column gets the smallest    *)
(* kind that holds what each file's schema has in it, and a conversion is   *)
(* refused only if a column has none: hence the order in which files are    *)
(* found decides nothing.  And a column that a batch has with the type that *)
(* the schema of its file gave it, as every column of a Parquet file, keeps *)
(* its values: it is not filled with nulls, parsed or printed in place of   *)
(* them.                                                                    *)
UnificationIsFaithful ==
    conflict # "stringify" =>
        /\ unified = {} =>
            \E c \in AllColumns : \A kind \in Kinds : ~Holds(kind, KindsOf(c))
        /\ unified # None => \A schema \in unified :
            \A c \in AllColumns : Least(schema[c], KindsOf(c))
        /\ \A one \in aligned : \A c \in DOMAIN Schema(one.file) \cap DOMAIN one.types :
            one.types[c] = Schema(one.file)[c] /\ one.types[c] # "Null" =>
                one.fate[c] \in {"kept", "rounded", "error"}
=============================================================================
