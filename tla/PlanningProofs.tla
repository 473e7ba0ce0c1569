--------------------------- MODULE PlanningProofs ---------------------------
(***************************************************************************)
(* Proofs about what is decided before data is written.  First the batch:  *)
(* a run, and every resume of it, works with locations of which none is    *)
(* inside another.  Then the schema of a conversion: every column gets the *)
(* least kind that holds what the files have in it.  Last the repair of    *)
(* one dataset: what is called verified has every row that its scans saw,  *)
(* once.                                                                   *)
(***************************************************************************)
EXTENDS Planning, NaturalsInduction, WellFoundedInduction, FiniteSetTheorems, SequenceTheorems, TLAPS

-----------------------------------------------------------------------------
(* What a run works with is what its journal names, and that was validated: *)
(* the plan file may since have been edited.                                *)
RunIsValidated ==
    batch # None => journal # None /\ ValidBatchPlan(journal) /\ batch = LocationsOf(journal)

(* Until somebody edits a source in it, the plan has the sources of this    *)
(* configuration as text, and so has the journal of its run.                *)
Sourced(p) ==
    /\ DOMAIN p = Members
    /\ \A d \in Members : SourceOf(d) # None /\ p[d].source = Display(SourceOf(d))
PlansAreSourced ==
    <<"plan", "source">> \notin touched =>
        (planFile # None => Sourced(planFile)) /\ (journal # None => Sourced(journal))

BatchPlanInv == RunIsValidated /\ PlansAreSourced
-----------------------------------------------------------------------------
(* A canonical path without special characters survives being written into  *)
(* the plan as a URI and being parsed again, and it is where it leads.      *)
LEMMA CanonicalPathsSurvive ==
    ASSUME NEW loc, NEW path, path = Canonicalize(loc), path # None
    PROVE  Place(path) = path /\ (Plain(path) => Parse(Display(path)) = path)
<1> DEFINE real == Resolve(IF loc.root = "/" THEN loc.segs ELSE WorkingDir \o loc.segs)
<1> HIDE DEF real
<1>1. CASE loc.kind = "s3"
    <2>1. path = loc
        BY <1>1 DEF Canonicalize, Place
    <2> QED BY <1>1, <2>1 DEF Place, Parse, Display, FromUri
<1>2. CASE loc.kind # "s3"
    <2>1. path = Local("/", real) /\ real \in Existing
        BY <1>2 DEF Canonicalize, Place, Local, real
    <2>2. Place(path) = Local("/", Resolve(real))
        BY <2>1 DEF Place, Local
    <2>3. Display(path) = [kind |-> "file", root |-> "/", segs |-> real]
        BY <2>1 DEF Display, Local
    <2>4. Parse(Display(path)) = FromUri(path)
        BY <2>1, <2>3 DEF Parse
    <2> QED BY <2>1, <2>2, <2>4, ExistingAssumption DEF FromUri
<1> QED BY <1>1, <1>2

(* The configuration is read once: what it maps to does not change.         *)
LEMMA SourcesAreFixed ==
    ASSUME config' = config
    PROVE  /\ Members' = Members /\ \A d : SourceOf(d)' = SourceOf(d)
           /\ \A p : Sourced(p) => Sourced(p)'
<1>1. Members' = Members /\ \A d : SourceOf(d)' = SourceOf(d)
    BY DEF Members, SourceOf
<1>2. ASSUME NEW p, Sourced(p) PROVE Sourced(p)'
    BY <1>1, <1>2 DEF Sourced
<1> QED BY <1>1, <1>2

(* Nothing has been planned at the start.                                   *)
LEMMA BatchPlanInitially == BatchPlanInit => BatchPlanInv
BY DEF BatchPlanInit, BatchPlanInv, RunIsValidated, PlansAreSourced

(* Every command, and every edit of a plan by hand, keeps the invariant.    *)
LEMMA BatchPlanPreserved ==
    ASSUME BatchPlanInv, BatchPlanStep \/ UNCHANGED batchPlanVars
    PROVE  BatchPlanInv'
<1> USE DEF BatchPlanInv
<1>1. config' = config
    BY DEF BatchPlanStep, batchPlanVars, BatchCheck, PlanBatch, EditPlan, EditSnapshot, ExecuteBatch,
           ResumeBatch, Quiet
<1>2. /\ Members' = Members /\ \A d : SourceOf(d)' = SourceOf(d)
      /\ \A p : Sourced(p) => Sourced(p)'
    BY <1>1, SourcesAreFixed
<1>3. CASE BatchCheck \/ UNCHANGED batchPlanVars
    <2>1. UNCHANGED <<planFile, journal, batch, touched>>
        BY <1>3 DEF BatchCheck, batchPlanVars, Quiet
    <2> QED BY <1>2, <2>1 DEF RunIsValidated, PlansAreSourced, Sourced
<1>4. CASE PlanBatch
    <2>1. /\ UNCHANGED <<journal, batch, touched>> /\ Plannable
          /\ planFile' = [d \in Members |-> [source |-> Display(SourceOf(d)), output |-> Display(OutputOf(d))]]
        BY <1>4 DEF PlanBatch, Quiet
    <2>2. \A d \in Members : SourceOf(d) # None
        BY <2>1 DEF Plannable
    <2>3. Sourced(planFile')
        BY <2>1, <2>2 DEF Sourced
    <2> QED BY <1>2, <2>1, <2>3 DEF RunIsValidated, PlansAreSourced, Sourced
<1>5. CASE EditPlan
    <2>1. PICK d \in Members, field \in Fields, text \in PlanEdits :
            /\ planFile' = [planFile EXCEPT ![d][field] = text]
            /\ touched' = touched \cup {<<"plan", field>>}
        BY <1>5 DEF EditPlan
    <2>2. UNCHANGED <<journal, batch>> /\ planFile # None
        BY <1>5 DEF EditPlan, Quiet
    <2>3. ASSUME <<"plan", "source">> \notin touched'
          PROVE  Sourced(planFile') /\ (journal # None => Sourced(journal))
        <3>1. <<"plan", "source">> \notin touched /\ field = "output"
            BY <2>1, <2>3 DEF Fields
        <3>2. Sourced(planFile) /\ (journal # None => Sourced(journal))
            BY <2>2, <3>1 DEF PlansAreSourced
        <3>3. planFile' = [planFile EXCEPT ![d] = [planFile[d] EXCEPT !["output"] = text]]
            BY <2>1, <3>1
        <3>4. DOMAIN planFile' = DOMAIN planFile
            BY <3>3
        <3>5. ASSUME NEW e \in Members PROVE planFile'[e].source = planFile[e].source
            BY <3>2, <3>3 DEF Sourced
        <3> QED BY <3>2, <3>4, <3>5 DEF Sourced
    <2> QED BY <1>2, <2>2, <2>3 DEF RunIsValidated, PlansAreSourced, Sourced
<1>6. CASE EditSnapshot
    <2>1. UNCHANGED <<planFile, journal, batch>> /\ touched \subseteq touched'
        BY <1>6 DEF EditSnapshot, Quiet
    <2> QED BY <1>2, <2>1 DEF RunIsValidated, PlansAreSourced, Sourced
<1>7. CASE ExecuteBatch
    <2>1. RunIsValidated'
        BY <1>7 DEF ExecuteBatch, RunIsValidated
    <2>2. PlansAreSourced'
        BY <1>2, <1>7 DEF ExecuteBatch, PlansAreSourced, Sourced
    <2> QED BY <2>1, <2>2
<1>8. CASE ResumeBatch
    <2>1. RunIsValidated'
        BY <1>8 DEF ResumeBatch, MatchesIdentity, RunIsValidated
    <2>2. PlansAreSourced'
        BY <1>2, <1>8 DEF ResumeBatch, PlansAreSourced, Sourced
    <2> QED BY <2>1, <2>2
<1> QED BY <1>3, <1>4, <1>5, <1>6, <1>7, <1>8 DEF BatchPlanStep

(* The invariant gives the property: the sources of a run are the canonical *)
(* ones that planning compared, and these are where they lead.              *)
LEMMA ValidatedIsDisjoint == BatchPlanInv => RunsAreDisjoint
<1> SUFFICES ASSUME BatchPlanInv, batch # None
             PROVE  /\ Disjoint(batch)
                    /\ batch = LocationsOf(journal)
                    /\ <<"plan", "source">> \notin touched =>
                        \A d \in DOMAIN batch : Plain(SourceOf(d)) => batch[d].source = SourceOf(d)
                    /\ <<"plan", "source">> \notin touched
                        /\ (\A d \in DOMAIN batch : Plain(SourceOf(d)) /\ Place(batch[d].output) = batch[d].output) =>
                            Disjoint(Places(batch))
    BY DEF RunsAreDisjoint
<1>1. journal # None /\ Disjoint(LocationsOf(journal)) /\ batch = LocationsOf(journal)
    BY DEF BatchPlanInv, RunIsValidated, ValidBatchPlan
<1>2. ASSUME <<"plan", "source">> \notin touched, NEW d \in DOMAIN batch, Plain(SourceOf(d))
      PROVE  batch[d].source = SourceOf(d) /\ Place(batch[d].source) = batch[d].source
    <2>1. Sourced(journal)
        BY <1>1, <1>2 DEF BatchPlanInv, PlansAreSourced
    <2>2. d \in DOMAIN journal /\ batch[d].source = Parse(journal[d].source)
        BY <1>1, <1>2 DEF LocationsOf
    <2>3. batch[d].source = Parse(Display(SourceOf(d))) /\ SourceOf(d) # None
        BY <2>1, <2>2 DEF Sourced
    <2>4. SourceOf(d) = Canonicalize(Join(config.base, Parse(config.datasets[d].path)))
        BY <2>3 DEF SourceOf
    <2> QED BY <1>2, <2>3, <2>4, CanonicalPathsSurvive
<1>3. ASSUME <<"plan", "source">> \notin touched,
             \A d \in DOMAIN batch : Plain(SourceOf(d)) /\ Place(batch[d].output) = batch[d].output
      PROVE  Disjoint(Places(batch))
    <2>1. ASSUME NEW d \in DOMAIN batch
          PROVE  Places(batch)[d] = batch[d]
        <3>1. Places(batch)[d] = [source |-> Place(batch[d].source), output |-> Place(batch[d].output)]
            BY DEF Places
        <3>2. batch[d] = [source |-> batch[d].source, output |-> batch[d].output]
            BY <1>1 DEF LocationsOf
        <3>3. Place(batch[d].source) = batch[d].source /\ Place(batch[d].output) = batch[d].output
            BY <1>2, <1>3
        <3> QED BY <3>1, <3>2, <3>3
    <2>2. DOMAIN Places(batch) = DOMAIN batch
        BY DEF Places
    <2>3. Disjoint(batch)
        BY <1>1
    <2> QED BY <2>1, <2>2, <2>3 DEF Disjoint
<1> QED BY <1>1, <1>2, <1>3

(* No location that a batch run or a resume works with is, as it is         *)
(* spelled, inside another, and a resume works with what the run was        *)
(* started with.  If no source was edited in the plan and no source has a   *)
(* character that is special in a URI, the sources are the directories that *)
(* planning saw; if moreover outputs are absolute and behind no link,       *)
(* nothing is read or written inside another directory: for every           *)
(* configuration, every file system and every edit.                         *)
THEOREM RunsStayApart == Spec => []RunsAreDisjoint
<1>1. Init => BatchPlanInv
    BY BatchPlanInitially DEF Init
<1>2. BatchPlanInv /\ [Next]_vars => BatchPlanInv'
    BY BatchPlanPreserved DEF Next, vars
<1> QED BY <1>1, <1>2, ValidatedIsDisjoint, PTL DEF Spec
-----------------------------------------------------------------------------
(* The place of every number in widen_types' table.                         *)
LEMMA Ranks ==
    /\ Range(Numbers) = {"Bool", "I8", "I16", "I32", "I64", "F32", "F64"}
    /\ NumberRank("Bool") = 1 /\ NumberRank("I8") = 2 /\ NumberRank("I16") = 3 /\ NumberRank("I32") = 4
    /\ NumberRank("I64") = 5 /\ NumberRank("F32") = 6 /\ NumberRank("F64") = 7
<1>1. DOMAIN Numbers = 1 .. 7
    BY DEF Numbers
<1>2. /\ Numbers[1] = "Bool" /\ Numbers[2] = "I8" /\ Numbers[3] = "I16" /\ Numbers[4] = "I32"
      /\ Numbers[5] = "I64" /\ Numbers[6] = "F32" /\ Numbers[7] = "F64"
    BY DEF Numbers
<1>3. \A n \in DOMAIN Numbers : n \in {1, 2, 3, 4, 5, 6, 7}
    BY <1>1
<1>4. Range(Numbers) = {"Bool", "I8", "I16", "I32", "I64", "F32", "F64"}
    <2>1. Range(Numbers) = {Numbers[n] : n \in {1, 2, 3, 4, 5, 6, 7}}
        BY <1>1, <1>3 DEF Range
    <2> QED BY <1>2, <2>1
<1>5. \A i \in DOMAIN Numbers : NumberRank(Numbers[i]) = i
    <2> SUFFICES ASSUME NEW i \in DOMAIN Numbers
                 PROVE  (CHOOSE j \in DOMAIN Numbers : Numbers[j] = Numbers[i]) = i
        BY DEF NumberRank
    <2>1. \A j \in DOMAIN Numbers : Numbers[j] = Numbers[i] => j = i
        BY <1>2, <1>3
    <2> QED BY <2>1
<1> QED BY <1>1, <1>2, <1>4, <1>5

(* The higher of two numbers.                                               *)
LEMMA WiderIsHigher ==
    ASSUME NEW a \in Range(Numbers), NEW b \in Range(Numbers)
    PROVE  Wider(a, b) = IF NumberRank(a) > NumberRank(b) THEN a ELSE b
<1>1. /\ NumberRank(a) \in DOMAIN Numbers /\ Numbers[NumberRank(a)] = a
      /\ NumberRank(b) \in DOMAIN Numbers /\ Numbers[NumberRank(b)] = b
    <2>1. \A k \in Range(Numbers) : \E i \in DOMAIN Numbers : Numbers[i] = k
        BY DEF Range
    <2> QED BY <2>1 DEF NumberRank
<1>2. NumberRank(a) \in Int /\ NumberRank(b) \in Int
    BY <1>1 DEF Numbers
<1>3. Max({NumberRank(a), NumberRank(b)}) = IF NumberRank(a) > NumberRank(b) THEN NumberRank(a) ELSE NumberRank(b)
    <2> DEFINE m == IF NumberRank(a) > NumberRank(b) THEN NumberRank(a) ELSE NumberRank(b)
               S == {NumberRank(a), NumberRank(b)}
    <2>1. m \in S /\ \A y \in S : m >= y
        BY <1>2
    <2>2. \A x \in S : (\A y \in S : x >= y) => x = m
        BY <1>2
    <2> QED BY <2>1, <2>2 DEF Max
<1> QED BY <1>1, <1>3 DEF Wider

(* widen_types computes the least kind that holds both, and fails only if   *)
(* there is none.                                                           *)
LEMMA WidenIsLeast ==
    ASSUME conflict # "stringify", NEW a \in Kinds, NEW b \in Kinds
    PROVE  /\ Widen(a, b) # "error" =>
                /\ Widen(a, b) \in Kinds /\ Fits(a, Widen(a, b)) /\ Fits(b, Widen(a, b))
                /\ \A k \in Kinds : Fits(a, k) /\ Fits(b, k) => Fits(Widen(a, b), k)
           /\ Widen(a, b) = "error" => \A k \in Kinds : ~(Fits(a, k) /\ Fits(b, k))
<1>1. CASE a = "Null"
    <2>1. Widen(a, b) = b
        BY <1>1, Ranks DEF Widen
    <2>2. b # "error" /\ Fits(a, b) /\ Fits(b, b)
        BY <1>1 DEF Kinds, Fits
    <2> QED BY <2>1, <2>2
<1>2. CASE a # "Null" /\ (b = "Null" \/ a = b)
    <2>1. Widen(a, b) = a
        BY <1>2, Ranks DEF Widen
    <2>2. a # "error" /\ Fits(a, a) /\ Fits(b, a)
        BY <1>2 DEF Kinds, Fits
    <2> QED BY <2>1, <2>2
<1>3. CASE a # "Null" /\ b # "Null" /\ a # b /\ {a, b} = {"I64", "F32"}
    <2>1. Widen(a, b) = "F64"
        BY <1>3 DEF Widen
    <2>2. (a = "I64" /\ b = "F32") \/ (a = "F32" /\ b = "I64")
        BY <1>3
    <2>3. \A k \in Kinds : Fits("I64", k) /\ Fits("F32", k) => k = "F64"
        BY Ranks DEF Fits, Kinds
    <2>4. Fits("I64", "F64") /\ Fits("F32", "F64") /\ Fits("F64", "F64")
        BY Ranks DEF Fits
    <2> QED BY <2>1, <2>2, <2>3, <2>4 DEF Kinds
<1>4. CASE a # "Null" /\ b # "Null" /\ a # b /\ {a, b} \subseteq Range(Numbers) /\ {a, b} # {"I64", "F32"}
    <2> DEFINE w == IF NumberRank(a) > NumberRank(b) THEN a ELSE b
    <2>1. Widen(a, b) = w
        <3>1. Widen(a, b) = Wider(a, b)
            BY <1>4, Ranks DEF Widen
        <3> QED BY <1>4, <3>1, WiderIsHigher
    <2>2. a # "error" /\ b # "error"
        BY DEF Kinds
    <2>3. NumberRank(a) # NumberRank(b) /\ NumberRank(a) \in Int /\ NumberRank(b) \in Int
        BY <1>4, Ranks
    <2>4. Fits(a, w) /\ Fits(b, w)
        BY <1>4, <2>3 DEF Fits
    <2>5. \A k \in Kinds : Fits(a, k) /\ Fits(b, k) => Fits(w, k)
        BY DEF w
    <2> QED BY <2>1, <2>2, <2>4, <2>5
<1>5. CASE a # "Null" /\ b # "Null" /\ a # b /\ ~({a, b} \subseteq Range(Numbers))
    <2>1. CASE {a, b} = {"Date", "Datetime"}
        <3>1. Widen(a, b) = "Datetime"
            BY <1>5, <2>1 DEF Widen
        <3>2. (a = "Date" /\ b = "Datetime") \/ (a = "Datetime" /\ b = "Date")
            BY <1>5, <2>1
        <3> QED BY <3>1, <3>2, Ranks DEF Fits, Kinds
    <2>2. CASE {a, b} # {"Date", "Datetime"}
        <3>1. Widen(a, b) = "error"
            BY <1>5, <2>2, Ranks DEF Widen
        <3>2. ASSUME NEW k \in Kinds, Fits(a, k), Fits(b, k) PROVE FALSE
            <4>1. CASE a = k
                BY <1>5, <2>2, <3>2, <4>1, Ranks DEF Fits
            <4>2. CASE a # k /\ b = k
                BY <1>5, <2>2, <3>2, <4>2, Ranks DEF Fits
            <4>3. CASE a # k /\ b # k
                BY <1>5, <2>2, <3>2, <4>3, Ranks DEF Fits
            <4> QED BY <4>1, <4>2, <4>3
        <3> QED BY <3>1, <3>2
    <2> QED BY <2>1, <2>2
<1> QED BY <1>1, <1>2, <1>3, <1>4, <1>5

(* What fits a kind fits whatever that kind fits.                           *)
LEMMA FitsIsTransitive ==
    ASSUME NEW a \in Kinds, NEW b \in Kinds, NEW c \in Kinds, Fits(a, b), Fits(b, c)
    PROVE  Fits(a, c)
<1>1. CASE a = b \/ b = c \/ a = "Null" \/ b = "Null"
    BY <1>1, Ranks DEF Fits
<1>2. CASE ~(a = b \/ b = c \/ a = "Null" \/ b = "Null")
    BY <1>2, Ranks DEF Fits, Kinds
<1> QED BY <1>1, <1>2

(* Two kinds are unified to a kind or not at all, under every policy.       *)
LEMMA WidenIsKind ==
    ASSUME NEW a \in Kinds, NEW b \in Kinds
    PROVE  Widen(a, b) \in Kinds \cup {"error"}
<1>1. CASE conflict # "stringify"
    BY <1>1, WidenIsLeast
<1>2. CASE {a, b} \subseteq Range(Numbers)
    <2>1. Wider(a, b) \in Kinds
        BY <1>2, WiderIsHigher
    <2>2. Widen(a, b) \in {a, b, "F64", Wider(a, b)}
        BY <1>2, Ranks DEF Widen
    <2> QED BY <2>1, <2>2 DEF Kinds
<1>3. CASE ~({a, b} \subseteq Range(Numbers))
    <2>1. Widen(a, b) \in {a, b, "Datetime", "Utf8", "error"}
        BY <1>3, Ranks DEF Widen
    <2> QED BY <2>1 DEF Kinds
<1> QED BY <1>1, <1>2, <1>3

(* The least kind is decided by the set of kinds alone.                     *)
LEMMA LeastIsUnique ==
    ASSUME NEW K \in SUBSET Kinds, NEW a \in Kinds, NEW b \in Kinds, Least(a, K), Least(b, K)
    PROVE  a = b
<1>1. Fits(a, b) /\ Fits(b, a)
    BY DEF Least
<1> QED BY <1>1, Ranks DEF Fits, Kinds
-----------------------------------------------------------------------------
(* What the first n files have in a column.                                 *)
Before(n) == {i \in DOMAIN inputs : i <= n}
MetKinds(c, n) == {KindOf(Schema(i)[c]) : i \in {j \in Before(n) : c \in DOMAIN Schema(j)}}

(* The map that from_schemas keeps has the columns of the files it has gone *)
(* through, and a kind for each.                                            *)
MapIsTyped ==
    /\ inputs \in Inputs
    /\ taken \in 0 .. Len(inputs)
    /\ DOMAIN columnTypes = UNION {DOMAIN Schema(i) : i \in Before(taken)}
    /\ \A c \in DOMAIN columnTypes : columnTypes[c] \in Kinds

(* Each is the least that holds what was met: the loop's invariant.         *)
MapIsLeast ==
    conflict # "stringify" =>
        \A c \in DOMAIN columnTypes : Least(columnTypes[c], MetKinds(c, taken))

(* The schema is the map at the end of the loop, and a refusal has a cause. *)
SchemaIsMap ==
    unified # None => unified = {} \/ (unified = {columnTypes} /\ taken = Len(inputs))
RefusalHasCause ==
    conflict # "stringify" /\ unified = {} =>
        \E c \in AllColumns : \A kind \in Kinds : ~Holds(kind, KindsOf(c))

(* Whatever was aligned was a batch of a file, aligned to that schema.      *)
AlignedToSchema ==
    /\ aligned # {} => unified = {columnTypes} /\ taken = Len(inputs)
    /\ \A one \in aligned : one.file \in DOMAIN inputs /\ one.fate = Align(one.types, columnTypes)

UnifyInv ==
    IF area = "schema"
    THEN MapIsTyped /\ MapIsLeast /\ SchemaIsMap /\ RefusalHasCause /\ AlignedToSchema
    ELSE unified = None /\ aligned = {}

(* At the start no file has been looked at.                                 *)
LEMMA UnifyInitially == UnifyInit => UnifyInv
<1> SUFFICES ASSUME UnifyInit PROVE UnifyInv
    OBVIOUS
<1>1. CASE area # "schema"
    BY <1>1 DEF UnifyInit, UnifyInv
<1>2. CASE area = "schema"
    <2>1. inputs \in Inputs
        BY <1>2 DEF UnifyInit, Choose1
    <2>2. Len(inputs) \in Nat /\ DOMAIN inputs = 1 .. Len(inputs)
        BY <2>1, InputsAssumption
    <2>3. Before(0) = {}
        BY <2>2 DEF Before
    <2>4. MapIsTyped /\ MapIsLeast
        BY <2>1, <2>2, <2>3 DEF UnifyInit, MapIsTyped, MapIsLeast
    <2>5. SchemaIsMap /\ RefusalHasCause
        BY NoneIsNoSchema DEF UnifyInit, SchemaIsMap, RefusalHasCause
    <2>6. AlignedToSchema
        BY <2>2 DEF UnifyInit, AlignedToSchema
    <2> QED BY <1>2, <2>4, <2>5, <2>6 DEF UnifyInv
<1> QED BY <1>1, <1>2

(* Unifying with one more kind gives the least that holds it as well.       *)
LEMMA LeastOfMore ==
    ASSUME conflict # "stringify", NEW K \in SUBSET Kinds, NEW a \in Kinds, NEW b \in Kinds, Least(a, K)
    PROVE  /\ Widen(a, b) # "error" => Least(Widen(a, b), K \cup {b})
           /\ Widen(a, b) = "error" => \A k \in Kinds : ~Holds(k, K \cup {b})
<1> DEFINE w == Widen(a, b)
<1>1. \A k \in Kinds : Holds(k, K \cup {b}) => Fits(a, k) /\ Fits(b, k)
    BY DEF Least, Holds
<1>2. ASSUME w # "error" PROVE Least(w, K \cup {b})
    <2>1. w \in Kinds /\ Fits(a, w) /\ Fits(b, w) /\ \A k \in Kinds : Fits(a, k) /\ Fits(b, k) => Fits(w, k)
        BY <1>2, WidenIsLeast
    <2>2. ASSUME NEW k \in K PROVE Fits(k, w)
        <3>1. k \in Kinds /\ Fits(k, a)
            BY <2>2 DEF Least, Holds
        <3> QED BY <2>1, <3>1, FitsIsTransitive
    <2>3. Holds(w, K \cup {b})
        BY <2>1, <2>2 DEF Holds
    <2> QED BY <1>1, <2>1, <2>3 DEF Least
<1>3. ASSUME w = "error" PROVE \A k \in Kinds : ~Holds(k, K \cup {b})
    BY <1>1, <1>3, WidenIsLeast
<1> QED BY <1>2, <1>3

(* The type of a column of CSV values is a kind.                            *)
LEMMA ArrayTypesAreKinds == \A values : ArrayType(values) \in Kinds
BY DEF ArrayType, Kinds

(* The files are what the conversion was given.                             *)
LEMMA FilesAreTyped ==
    ASSUME MapIsTyped
    PROVE  /\ Len(inputs) \in Nat /\ DOMAIN inputs = 1 .. Len(inputs)
           /\ \A i \in DOMAIN inputs : \A c \in DOMAIN Schema(i) : Schema(i)[c] \in Types
           /\ \A i \in DOMAIN inputs : \A c \in DOMAIN Schema(i) : KindOf(Schema(i)[c]) \in Kinds
           /\ \A c, n : MetKinds(c, n) \subseteq Kinds
<1>1. inputs \in Inputs
    BY DEF MapIsTyped
<1>2. Len(inputs) \in Nat /\ DOMAIN inputs = 1 .. Len(inputs)
    BY <1>1, InputsAssumption
<1>3. ASSUME NEW i \in DOMAIN inputs, NEW c \in DOMAIN Schema(i) PROVE Schema(i)[c] \in Types
    <2>1. CASE inputs[i].csv
        BY <1>3, <2>1, ArrayTypesAreKinds DEF Schema, SchemaOf, Types
    <2>2. CASE ~inputs[i].csv
        <3>1. Range(inputs[i].columns) \subseteq Types
            BY <1>1, <2>2, InputsAssumption
        <3> QED BY <1>3, <2>2, <3>1 DEF Schema, SchemaOf, Range
    <2> QED BY <2>1, <2>2
<1>4. \A t \in Types : KindOf(t) \in Kinds
    BY DEF Types, KindOf, Kinds
<1> QED BY <1>2, <1>3, <1>4 DEF MetKinds, Before

(* One turn of the loop: the columns of one more file, each with the least  *)
(* kind, or a column for which there is none.                               *)
LEMMA OneMoreFile ==
    ASSUME MapIsTyped, MapIsLeast, taken < Len(inputs),
           NEW types, types = AddFile(columnTypes, Schema(taken + 1))
    PROVE  /\ DOMAIN types = UNION {DOMAIN Schema(i) : i \in Before(taken + 1)}
           /\ \A c \in DOMAIN types : types[c] \in Kinds \cup {"error"}
           /\ conflict # "stringify" => \A c \in DOMAIN types :
                /\ types[c] # "error" => Least(types[c], MetKinds(c, taken + 1))
                /\ types[c] = "error" => \A k \in Kinds : ~Holds(k, MetKinds(c, taken + 1))
<1> DEFINE schema == Schema(taken + 1)
           file == [c \in DOMAIN schema |-> KindOf(schema[c])]
<1>1. /\ Len(inputs) \in Nat /\ DOMAIN inputs = 1 .. Len(inputs) /\ taken \in Nat
      /\ taken + 1 \in DOMAIN inputs
    BY FilesAreTyped DEF MapIsTyped
<1>2. Before(taken + 1) = Before(taken) \cup {taken + 1}
    BY <1>1 DEF Before
<1>3. /\ DOMAIN types = DOMAIN columnTypes \cup DOMAIN file
      /\ \A c \in DOMAIN types : types[c] =
            IF c \notin DOMAIN columnTypes THEN file[c]
            ELSE IF c \notin DOMAIN file THEN columnTypes[c] ELSE Widen(columnTypes[c], file[c])
    BY DEF AddFile
<1>4. DOMAIN types = UNION {DOMAIN Schema(i) : i \in Before(taken + 1)}
    <2>1. DOMAIN file = DOMAIN Schema(taken + 1)
        OBVIOUS
    <2> HIDE DEF file
    <2> QED BY <1>2, <1>3, <2>1 DEF MapIsTyped
<1>5. /\ \A c \in DOMAIN columnTypes : columnTypes[c] \in Kinds
      /\ \A c \in DOMAIN file : file[c] \in Kinds
    BY <1>1, FilesAreTyped DEF MapIsTyped
<1>6. \A c \in DOMAIN types : types[c] \in Kinds \cup {"error"}
    <2> TAKE c \in DOMAIN types
    <2>1. CASE c \notin DOMAIN columnTypes \/ c \notin DOMAIN file
        BY <1>3, <1>5, <2>1
    <2>2. CASE c \in DOMAIN columnTypes /\ c \in DOMAIN file
        <3>1. types[c] = Widen(columnTypes[c], file[c])
            BY <1>3, <2>2
        <3> QED BY <1>5, <2>2, <3>1, WidenIsKind
    <2> QED BY <2>1, <2>2
<1>7. ASSUME conflict # "stringify", NEW c \in DOMAIN types
      PROVE  /\ types[c] # "error" => Least(types[c], MetKinds(c, taken + 1))
             /\ types[c] = "error" => \A k \in Kinds : ~Holds(k, MetKinds(c, taken + 1))
    <2>1. c \in DOMAIN file => MetKinds(c, taken + 1) = MetKinds(c, taken) \cup {file[c]}
        BY <1>1, <1>2 DEF MetKinds
    <2>2. c \notin DOMAIN file => MetKinds(c, taken + 1) = MetKinds(c, taken)
        BY <1>1, <1>2 DEF MetKinds
    <2>3. c \notin DOMAIN columnTypes => MetKinds(c, taken) = {}
        BY DEF MapIsTyped, MetKinds
    <2>4. c \in DOMAIN columnTypes => Least(columnTypes[c], MetKinds(c, taken))
        BY <1>7 DEF MapIsLeast
    <2>5. MetKinds(c, taken) \in SUBSET Kinds
        BY FilesAreTyped
    <2>6. CASE c \notin DOMAIN columnTypes
        <3>1. types[c] = file[c] /\ c \in DOMAIN file /\ file[c] \in Kinds
            BY <1>3, <1>5, <2>6
        <3>2. MetKinds(c, taken + 1) = {file[c]}
            BY <2>1, <2>3, <2>6, <3>1
        <3>3. Least(file[c], {file[c]})
            BY DEF Least, Holds, Fits
        <3>4. file[c] # "error"
            BY <3>1 DEF Kinds
        <3> QED BY <3>1, <3>2, <3>3, <3>4
    <2>7. CASE c \in DOMAIN columnTypes /\ c \notin DOMAIN file
        <3>1. types[c] = columnTypes[c] /\ columnTypes[c] \in Kinds
            BY <1>3, <1>5, <2>7
        <3>2. columnTypes[c] # "error"
            BY <3>1 DEF Kinds
        <3> QED BY <2>2, <2>4, <2>7, <3>1, <3>2
    <2>8. CASE c \in DOMAIN columnTypes /\ c \in DOMAIN file
        <3>1. types[c] = Widen(columnTypes[c], file[c])
            BY <1>3, <2>8
        <3>2. columnTypes[c] \in Kinds /\ file[c] \in Kinds
            BY <1>5, <2>8
        <3> HIDE DEF file
        <3> QED BY <1>7, <2>1, <2>4, <2>5, <2>8, <3>1, <3>2, LeastOfMore
    <2> QED BY <2>6, <2>7, <2>8
<1> QED BY <1>4, <1>6, <1>7

(* from_schemas goes through one more file, or ends with an error.          *)
LEMMA TakeSchemaPreserves ==
    ASSUME UnifyInv, area = "schema", area' = area, TakeSchema
    PROVE  UnifyInv'
<1> DEFINE types == AddFile(columnTypes, Schema(taken + 1))
<1> HIDE DEF types
<1>1. MapIsTyped /\ MapIsLeast /\ SchemaIsMap /\ RefusalHasCause /\ AlignedToSchema
    BY DEF UnifyInv
<1>2. /\ unified = None /\ taken < Len(inputs)
      /\ inputs' = inputs /\ conflict' = conflict /\ excluded' = excluded /\ aligned' = aligned
    BY DEF TakeSchema
<1>3. /\ DOMAIN types = UNION {DOMAIN Schema(i) : i \in Before(taken + 1)}
      /\ \A c \in DOMAIN types : types[c] \in Kinds \cup {"error"}
      /\ conflict # "stringify" => \A c \in DOMAIN types :
           /\ types[c] # "error" => Least(types[c], MetKinds(c, taken + 1))
           /\ types[c] = "error" => \A k \in Kinds : ~Holds(k, MetKinds(c, taken + 1))
    BY <1>1, <1>2, OneMoreFile DEF types
<1>4. Len(inputs) \in Nat /\ DOMAIN inputs = 1 .. Len(inputs) /\ taken \in Nat
    BY <1>1, FilesAreTyped DEF MapIsTyped
<1>5. aligned = {}
    BY <1>1, <1>2 DEF AlignedToSchema
<1>6. CASE Conflicting(types)
    <2>1. unified' = {} /\ columnTypes' = columnTypes /\ taken' = taken
        BY <1>6 DEF TakeSchema, types
    <2>2. MapIsTyped' /\ MapIsLeast'
        BY <1>1, <1>2, <2>1 DEF MapIsTyped, MapIsLeast, Before, MetKinds, Schema
    <2>3. SchemaIsMap'
        BY <2>1 DEF SchemaIsMap
    <2>4. RefusalHasCause'
        <3> SUFFICES ASSUME conflict # "stringify"
                     PROVE  \E c \in AllColumns : \A kind \in Kinds : ~Holds(kind, KindsOf(c))
            <4>1. AllColumns' = AllColumns /\ \A c : KindsOf(c)' = KindsOf(c)
                BY <1>2 DEF AllColumns, KindsOf, Schema
            <4> QED BY <1>2, <2>1, <4>1 DEF RefusalHasCause, Holds
        <3>1. PICK c \in DOMAIN types : types[c] = "error"
            BY <1>6 DEF Conflicting, Range
        <3>2. \A k \in Kinds : ~Holds(k, MetKinds(c, taken + 1))
            BY <1>3, <3>1
        <3>3. MetKinds(c, taken + 1) \subseteq KindsOf(c)
            BY DEF MetKinds, KindsOf, Before
        <3>4. c \in AllColumns
            BY <1>3 DEF AllColumns, Before
        <3>5. \A k \in Kinds : ~Holds(k, KindsOf(c))
            BY <3>2, <3>3 DEF Holds
        <3> QED BY <3>4, <3>5
    <2>5. AlignedToSchema'
        BY <1>1, <1>2, <1>5 DEF AlignedToSchema
    <2> QED BY <2>2, <2>3, <2>4, <2>5 DEF UnifyInv
<1>7. CASE ~Conflicting(types)
    <2>1. unified' = unified /\ columnTypes' = types /\ taken' = taken + 1
        BY <1>7 DEF TakeSchema, types
    <2>2. \A c \in DOMAIN types : types[c] # "error" /\ types[c] \in Kinds
        BY <1>3, <1>7 DEF Conflicting, Range
    <2>3. MapIsTyped'
        BY <1>1, <1>2, <1>3, <1>4, <2>1, <2>2 DEF MapIsTyped, Before, Schema
    <2>4. MapIsLeast'
        <3> SUFFICES ASSUME conflict # "stringify", NEW c \in DOMAIN types
                     PROVE  Least(types[c], MetKinds(c, taken + 1))
            BY <1>2, <2>1 DEF MapIsLeast, MetKinds, Before, Schema
        <3> QED BY <1>3, <2>2
    <2>5. SchemaIsMap' /\ RefusalHasCause'
        BY <1>2, <2>1, NoneIsNoSchema DEF SchemaIsMap, RefusalHasCause
    <2>6. AlignedToSchema'
        BY <1>1, <1>2, <1>5 DEF AlignedToSchema
    <2> QED BY <2>3, <2>4, <2>5, <2>6 DEF UnifyInv
<1> QED BY <1>6, <1>7

(* The end of the loop, and the alignment of one more file.                 *)
LEMMA AlignPreserves ==
    ASSUME UnifyInv, area = "schema", area' = area, Unify \/ AlignNext
    PROVE  UnifyInv'
<1>1. MapIsTyped /\ MapIsLeast /\ SchemaIsMap /\ RefusalHasCause /\ AlignedToSchema
    BY DEF UnifyInv
<1>2. /\ inputs' = inputs /\ conflict' = conflict /\ excluded' = excluded
      /\ columnTypes' = columnTypes /\ taken' = taken
    BY DEF Unify, AlignNext
<1>3. MapIsTyped' /\ MapIsLeast'
    BY <1>1, <1>2 DEF MapIsTyped, MapIsLeast, Before, MetKinds, Schema
<1>4. CASE Unify
    <2>1. unified' = {columnTypes} /\ taken = Len(inputs) /\ aligned' = aligned /\ unified = None
        BY <1>4 DEF Unify
    <2>2. SchemaIsMap' /\ RefusalHasCause'
        BY <1>2, <2>1 DEF SchemaIsMap, RefusalHasCause
    <2>3. AlignedToSchema'
        BY <1>1, <1>2, <2>1 DEF AlignedToSchema, Align
    <2> QED BY <1>3, <2>2, <2>3 DEF UnifyInv
<1>5. CASE AlignNext
    <2>1. PICK schema \in unified, i \in DOMAIN inputs : \E types :
            aligned' = aligned \cup {[file |-> i, types |-> types, fate |-> Align(types, schema)]}
        BY <1>5 DEF AlignNext
    <2>2. unified' = unified /\ unified # None
        BY <1>5 DEF AlignNext
    <2>3. unified = {columnTypes} /\ taken = Len(inputs) /\ schema = columnTypes
        BY <1>1, <2>1, <2>2 DEF SchemaIsMap
    <2>4. SchemaIsMap' /\ RefusalHasCause'
        BY <1>1, <1>2, <2>2 DEF SchemaIsMap, RefusalHasCause, AllColumns, KindsOf, Schema
    <2>5. AlignedToSchema'
        <3>1. \A b : Align(b, columnTypes)' = Align(b, columnTypes)
            BY <1>2 DEF Align
        <3>2. \A one \in aligned' : one.file \in DOMAIN inputs /\ one.fate = Align(one.types, columnTypes)
            BY <1>1, <2>1, <2>3 DEF AlignedToSchema
        <3> QED BY <1>2, <2>2, <2>3, <3>1, <3>2 DEF AlignedToSchema
    <2> QED BY <1>3, <2>4, <2>5 DEF UnifyInv
<1> QED BY <1>4, <1>5

(* Nothing happens to a conversion's schema but these steps.                *)
LEMMA UnifyPreserved == UnifyInv /\ [Next]_vars => UnifyInv'
<1> SUFFICES ASSUME UnifyInv, [Next]_vars PROVE UnifyInv'
    OBVIOUS
<1>1. area' = area
    BY DEF Next, vars
<1>2. CASE area = "schema" /\ UnifyStep
    BY <1>1, <1>2, TakeSchemaPreserves, AlignPreserves DEF UnifyStep
<1>3. CASE UNCHANGED unifyVars
    <2>1. /\ inputs' = inputs /\ conflict' = conflict /\ excluded' = excluded /\ unified' = unified
          /\ columnTypes' = columnTypes /\ taken' = taken /\ aligned' = aligned
        BY <1>3 DEF unifyVars
    <2>2. MapIsTyped' = MapIsTyped /\ MapIsLeast' = MapIsLeast
        BY <2>1 DEF MapIsTyped, MapIsLeast, Before, MetKinds, Schema
    <2>3. SchemaIsMap' = SchemaIsMap /\ RefusalHasCause' = RefusalHasCause
        BY <2>1 DEF SchemaIsMap, RefusalHasCause, AllColumns, KindsOf, Schema
    <2>4. AlignedToSchema' = AlignedToSchema
        BY <2>1 DEF AlignedToSchema, Align
    <2> QED BY <1>1, <2>1, <2>2, <2>3, <2>4 DEF UnifyInv
<1> QED BY <1>1, <1>2, <1>3 DEF Next, vars

(* A value whose kind fits the kind of the output is kept by coerce_column, *)
(* or rounded, or fails the batch.                                          *)
LEMMA FittingIsKept ==
    ASSUME NEW from \in Types, NEW to \in Kinds, from # "Null", Fits(KindOf(from), to)
    PROVE  Coerce(from, to) \in {"kept", "rounded", "error"}
<1>1. CASE from = "LargeUtf8"
    BY <1>1 DEF Coerce, Kinds
<1>2. CASE from = to /\ from # "LargeUtf8"
    BY <1>2 DEF Coerce, NullColumn, Kinds
<1>3. CASE from # to /\ from # "LargeUtf8"
    <2>1. from # "Utf8" /\ to # "Utf8"
        BY <1>3, Ranks DEF Fits, KindOf
    <2> QED BY <1>3, <2>1 DEF Coerce
<1> QED BY <1>1, <1>2, <1>3

(* The invariant gives the property.                                        *)
LEMMA LeastIsFaithful == UnifyInv => UnificationIsFaithful
<1> SUFFICES ASSUME UnifyInv, conflict # "stringify"
             PROVE  /\ unified = {} => \E c \in AllColumns :
                            \A kind \in Kinds : ~Holds(kind, KindsOf(c))
                    /\ unified # None => \A schema \in unified :
                            \A c \in AllColumns : Least(schema[c], KindsOf(c))
                    /\ \A one \in aligned : \A c \in DOMAIN Schema(one.file) \cap DOMAIN one.types :
                            one.types[c] = Schema(one.file)[c] /\ one.types[c] # "Null" =>
                                one.fate[c] \in {"kept", "rounded", "error"}
    BY DEF UnificationIsFaithful
<1>1. CASE area # "schema"
    BY <1>1, NoneIsNoSchema DEF UnifyInv
<1>2. CASE area = "schema"
    <2>1. MapIsTyped /\ MapIsLeast /\ SchemaIsMap /\ RefusalHasCause /\ AlignedToSchema
        BY <1>2 DEF UnifyInv
    <2>2. Len(inputs) \in Nat /\ DOMAIN inputs = 1 .. Len(inputs)
        BY <2>1, FilesAreTyped
    <2>3. ASSUME taken = Len(inputs)
          PROVE  /\ DOMAIN columnTypes = AllColumns
                 /\ \A c \in AllColumns : Least(columnTypes[c], KindsOf(c))
        <3>1. Before(taken) = DOMAIN inputs
            BY <2>2, <2>3 DEF Before
        <3>2. DOMAIN columnTypes = AllColumns
            BY <2>1, <3>1 DEF MapIsTyped, AllColumns
        <3>3. \A c : MetKinds(c, taken) = KindsOf(c)
            BY <3>1 DEF MetKinds, KindsOf
        <3> QED BY <2>1, <3>2, <3>3 DEF MapIsLeast
    <2>4. unified # None => \A schema \in unified :
            \A c \in AllColumns : Least(schema[c], KindsOf(c))
        BY <2>1, <2>3 DEF SchemaIsMap
    <2>5. ASSUME NEW one \in aligned, NEW c \in DOMAIN Schema(one.file) \cap DOMAIN one.types,
                 one.types[c] = Schema(one.file)[c], one.types[c] # "Null"
          PROVE  one.fate[c] \in {"kept", "rounded", "error"}
        <3> DEFINE i == one.file
        <3>1. taken = Len(inputs) /\ one.fate = Align(one.types, columnTypes) /\ i \in DOMAIN inputs
            BY <2>1, <2>5 DEF AlignedToSchema
        <3>2. c \in AllColumns /\ KindOf(Schema(i)[c]) \in KindsOf(c)
            BY <2>5, <3>1 DEF AllColumns, KindsOf
        <3>3. c \in DOMAIN columnTypes /\ columnTypes[c] \in Kinds /\ one.types[c] \in Types
            BY <2>1, <2>3, <2>5, <3>1, <3>2, FilesAreTyped DEF MapIsTyped
        <3>4. Fits(KindOf(one.types[c]), columnTypes[c])
            BY <2>3, <2>5, <3>1, <3>2 DEF Least, Holds
        <3>5. one.fate[c] = IF c \in excluded THEN "error" ELSE Coerce(one.types[c], columnTypes[c])
            BY <2>5, <3>1, <3>3 DEF Align
        <3> QED BY <2>5, <3>3, <3>4, <3>5, FittingIsKept
    <2> QED BY <2>1, <2>4, <2>5 DEF RefusalHasCause
<1> QED BY <1>1, <1>2

(* from_schemas gives every column the least kind that holds what each file *)
(* declares, whatever the number and the order of the files, and fails only *)
(* if a column has no such kind; align_batch_with_source then keeps the     *)
(* values of a column that its batch has with the type its file's schema    *)
(* gave it, which CSV batches need not have: for every list of Parquet and  *)
(* CSV files and every set of excluded columns.                             *)
THEOREM UnifiedKindsAreLeast == Spec => []UnificationIsFaithful
<1>1. Init => UnifyInv
    BY UnifyInitially DEF Init
<1> QED BY <1>1, UnifyPreserved, LeastIsFaithful, PTL DEF Spec
-----------------------------------------------------------------------------
(* A set of numbers that is not empty has a smallest one.                   *)
LEMMA SmallestExists ==
    ASSUME NEW T \in SUBSET Nat, T # {}
    PROVE  Min(T) \in T /\ \A n \in T : Min(T) <= n
<1>1. PICK x \in T : \A y \in T : ~(<<y, x>> \in OpToRel(<, Nat))
    BY NatLessThanWellFounded, WFMin
<1>2. OpToRel(<, Nat) = {ss \in Nat \X Nat : ss[1] < ss[2]}
    BY Zenon DEF OpToRel
<1>3. \A y \in T : ~(y < x)
    BY <1>1, <1>2
<1>4. \A y \in T : x <= y
    BY <1>3
<1> QED BY <1>4 DEF Min

(* Induction, for a set of numbers instead of a predicate on them.          *)
LEMMA HoldsForAll ==
    ASSUME NEW T \in SUBSET Nat, 0 \in T, \A n \in T : n + 1 \in T
    PROVE  T = Nat
<1> SUFFICES ASSUME T # Nat PROVE FALSE
    OBVIOUS
<1> DEFINE gap == Min(Nat \ T)
<1>1. gap \in Nat \ T /\ \A n \in Nat \ T : gap <= n
    BY SmallestExists
<1> HIDE DEF gap
<1>2. gap # 0 /\ gap - 1 \in Nat
    BY <1>1
<1>3. gap - 1 \in T
    BY <1>1, <1>2
<1>4. (gap - 1) + 1 \in T
    BY <1>3
<1> QED BY <1>1, <1>2, <1>4
-----------------------------------------------------------------------------
(* Sums.  SumFunctionOnSet folds over a set by taking away one member after *)
(* another.  A function does that for the set S when it Adds.               *)
Pick(s) == CHOOSE x \in s : TRUE
Adds(w, S, g) == g = [s \in SUBSET S |-> IF s = {} THEN 0 ELSE w[Pick(s)] + g[s \ {Pick(s)}]]
SumFun(w, S) == CHOOSE g : g = [s \in SUBSET S |-> IF s = {} THEN 0 ELSE w[Pick(s)] + g[s \ {Pick(s)}]]

(* What the community module's operator computes.                           *)
LEMMA SumUnfolds ==
    ASSUME NEW w, NEW S
    PROVE  SumFunctionOnSet(w, S) = SumFun(w, S)[S]
BY DEF SumFunctionOnSet, FoldFunctionOnSet, MapThenFoldSet, SumFun, Pick

(* For a finite set there is such a function: for its subsets of at most k  *)
(* members there is one, whatever k is.                                     *)
LEMMA SumExists ==
    ASSUME NEW w, NEW S, IsFiniteSet(S)
    PROVE  Adds(w, S, SumFun(w, S))
<1> DEFINE Upto(k) == {s \in SUBSET S : Cardinality(s) <= k}
           Partial(k, g) == g = [s \in Upto(k) |-> IF s = {} THEN 0 ELSE w[Pick(s)] + g[s \ {Pick(s)}]]
           Ks == {k \in Nat : \E g : Partial(k, g)}
<1>0. \A s \in SUBSET S : IsFiniteSet(s) /\ Cardinality(s) \in Nat
    BY FS_Subset, FS_CardinalityType
<1>p. \A s \in SUBSET S : s # {} => /\ s \ {Pick(s)} \in SUBSET S
                                    /\ Cardinality(s \ {Pick(s)}) = Cardinality(s) - 1
                                    /\ Pick(s) \in s
    <2> SUFFICES ASSUME NEW s \in SUBSET S, s # {}
                 PROVE  s \ {Pick(s)} \in SUBSET S /\ Cardinality(s \ {Pick(s)}) = Cardinality(s) - 1 /\ Pick(s) \in s
        OBVIOUS
    <2>1. Pick(s) \in s
        BY DEF Pick
    <2> QED BY <2>1, <1>0, FS_RemoveElement
<1>1. 0 \in Ks
    <2> DEFINE g == [s \in Upto(0) |-> 0]
    <2>1. \A s \in Upto(0) : s = {}
        BY <1>0, FS_EmptySet
    <2>2. Partial(0, g)
        BY <2>1
    <2> HIDE DEF g, Partial
    <2> QED BY <2>2
<1>2. \A k \in Ks : k + 1 \in Ks
    <2> SUFFICES ASSUME NEW k \in Ks PROVE k + 1 \in Ks
        OBVIOUS
    <2>1. PICK g : Partial(k, g)
        OBVIOUS
    <2> DEFINE h == [s \in Upto(k + 1) |-> IF s = {} THEN 0 ELSE w[Pick(s)] + g[s \ {Pick(s)}]]
    <2>2. \A s \in Upto(k + 1) : s # {} => s \ {Pick(s)} \in Upto(k)
        BY <1>0, <1>p
    <2>3. \A s \in Upto(k) : h[s] = g[s]
        <3> SUFFICES ASSUME NEW s \in Upto(k) PROVE h[s] = g[s]
            OBVIOUS
        <3>1. s \in Upto(k + 1)
            BY <1>0
        <3>2. h[s] = IF s = {} THEN 0 ELSE w[Pick(s)] + g[s \ {Pick(s)}]
            BY <3>1
        <3>3. g[s] = IF s = {} THEN 0 ELSE w[Pick(s)] + g[s \ {Pick(s)}]
            BY <2>1
        <3> QED BY <3>2, <3>3
    <2>4. Partial(k + 1, h)
        <3>1. \A s \in Upto(k + 1) : s # {} => h[s \ {Pick(s)}] = g[s \ {Pick(s)}]
            BY <2>2, <2>3
        <3> QED BY <3>1
    <2> HIDE DEF h, Partial
    <2> QED BY <2>4
<1> HIDE DEF Ks
<1>3. Cardinality(S) \in Ks
    BY <1>1, <1>2, <1>0, HoldsForAll DEF Ks
<1>4. PICK g : Partial(Cardinality(S), g)
    BY <1>3 DEF Ks
<1>5. Upto(Cardinality(S)) = SUBSET S
    BY FS_Subset
<1>6. g = [s \in SUBSET S |-> IF s = {} THEN 0 ELSE w[Pick(s)] + g[s \ {Pick(s)}]]
    BY <1>4, <1>5
<1> QED BY <1>6 DEF SumFun, Adds

(* The sum over a subset depends on nothing outside it.                     *)
LEMMA AddsIsLocal ==
    ASSUME NEW w, NEW S, IsFiniteSet(S), NEW g, Adds(w, S, g),
           NEW v, NEW R \in SUBSET S, NEW h, Adds(v, R, h), \A x \in R : v[x] = w[x]
    PROVE  \A T \in SUBSET R : g[T] = h[T]
<1> DEFINE Ks == {k \in Nat : \A T \in SUBSET R : Cardinality(T) <= k => g[T] = h[T]}
<1>0. \A T \in SUBSET R : IsFiniteSet(T) /\ Cardinality(T) \in Nat
    BY FS_Subset, FS_CardinalityType
<1>f. ASSUME NEW T \in SUBSET R
      PROVE  /\ T = {} => g[T] = 0 /\ h[T] = 0
             /\ T # {} => g[T] = w[Pick(T)] + g[T \ {Pick(T)}] /\ h[T] = v[Pick(T)] + h[T \ {Pick(T)}]
    <2>1. T \in SUBSET S
        OBVIOUS
    <2> QED BY <2>1 DEF Adds
<1>1. 0 \in Ks
    <2>1. \A T \in SUBSET R : Cardinality(T) <= 0 => T = {}
        BY <1>0, FS_EmptySet
    <2> QED BY <2>1, <1>f
<1>2. \A k \in Ks : k + 1 \in Ks
    <2> SUFFICES ASSUME NEW k \in Ks, NEW T \in SUBSET R, Cardinality(T) <= k + 1
                 PROVE  g[T] = h[T]
        OBVIOUS
    <2>1. CASE T # {}
        <3>1. Pick(T) \in T
            BY <2>1 DEF Pick
        <3> DEFINE U == T \ {Pick(T)}
        <3>2. U \in SUBSET R /\ Cardinality(U) <= k
            BY <3>1, <1>0, FS_RemoveElement
        <3>3. g[U] = h[U] /\ v[Pick(T)] = w[Pick(T)]
            BY <3>1, <3>2
        <3> QED BY <2>1, <3>3, <1>f
    <2> QED BY <2>1, <1>f
<1> HIDE DEF Ks
<1>3. Ks = Nat
    BY <1>1, <1>2, HoldsForAll DEF Ks
<1> QED BY <1>0, <1>3 DEF Ks

(* A sum over a set looks at no weight outside it.                          *)
LEMMA SumIsLocal ==
    ASSUME NEW w, NEW S, IsFiniteSet(S), NEW v, NEW R \in SUBSET S, \A x \in R : v[x] = w[x]
    PROVE  SumFun(w, S)[R] = SumFun(v, R)[R]
<1>1. IsFiniteSet(R)
    BY FS_Subset
<1>2. Adds(w, S, SumFun(w, S)) /\ Adds(v, R, SumFun(v, R))
    BY <1>1, SumExists
<1> QED BY <1>2, AddsIsLocal

(* Equal weights give equal sums.                                           *)
LEMMA SumDependsOnMembers ==
    ASSUME NEW w, NEW S, IsFiniteSet(S), NEW v, \A x \in S : v[x] = w[x]
    PROVE  SumFunctionOnSet(w, S) = SumFunctionOnSet(v, S)
BY SumIsLocal, SumUnfolds

(* The sum over nothing.                                                    *)
LEMMA SumOfNone ==
    ASSUME NEW w
    PROVE  SumFunctionOnSet(w, {}) = 0
<1> DEFINE g == SumFun(w, {})
<1>1. Adds(w, {}, g)
    BY SumExists, FS_EmptySet
<1> HIDE DEF g
<1>2. g[{}] = 0
    BY <1>1 DEF Adds
<1> QED BY <1>2, SumUnfolds DEF g

(* The sum begins with the member that the fold picks.                      *)
LEMMA SumStep ==
    ASSUME NEW w, NEW S, IsFiniteSet(S), S # {}
    PROVE  /\ Pick(S) \in S
           /\ SumFunctionOnSet(w, S) = w[Pick(S)] + SumFunctionOnSet(w, S \ {Pick(S)})
<1>1. Pick(S) \in S
    BY DEF Pick
<1> DEFINE g == SumFun(w, S)
<1>a. Adds(w, S, g)
    BY SumExists
<1> HIDE DEF g
<1>b. S \in SUBSET S
    OBVIOUS
<1>c. g[S] = w[Pick(S)] + g[S \ {Pick(S)}]
    BY <1>a, <1>b DEF Adds
<1>2. SumFun(w, S)[S] = w[Pick(S)] + SumFun(w, S)[S \ {Pick(S)}]
    BY <1>c DEF g
<1> DEFINE R == S \ {Pick(S)}
<1>3. SumFun(w, S)[R] = SumFun(w, R)[R]
    BY SumIsLocal
<1> QED BY <1>1, <1>2, <1>3, SumUnfolds

(* A sum of natural numbers is one.                                         *)
LEMMA SumIsNat ==
    ASSUME NEW w, NEW S, IsFiniteSet(S), \A x \in S : w[x] \in Nat
    PROVE  SumFunctionOnSet(w, S) \in Nat
<1> DEFINE Ks == {k \in Nat : \A T \in SUBSET S : Cardinality(T) <= k => SumFunctionOnSet(w, T) \in Nat}
<1>0. \A T \in SUBSET S : IsFiniteSet(T) /\ Cardinality(T) \in Nat
    BY FS_Subset, FS_CardinalityType
<1>1. 0 \in Ks
    BY <1>0, SumOfNone, FS_EmptySet
<1>2. \A k \in Ks : k + 1 \in Ks
    <2> SUFFICES ASSUME NEW k \in Ks, NEW T \in SUBSET S, Cardinality(T) <= k + 1, T # {}
                 PROVE  SumFunctionOnSet(w, T) \in Nat
        BY SumOfNone
    <2> DEFINE R == T \ {Pick(T)}
    <2>1. Pick(T) \in T /\ SumFunctionOnSet(w, T) = w[Pick(T)] + SumFunctionOnSet(w, R)
        BY <1>0, SumStep
    <2>2. R \in SUBSET S /\ Cardinality(R) <= k
        BY <2>1, <1>0, FS_RemoveElement
    <2>3. SumFunctionOnSet(w, R) \in Nat /\ w[Pick(T)] \in Nat
        BY <2>1, <2>2
    <2> QED BY <2>1, <2>3
<1> HIDE DEF Ks
<1>3. Ks = Nat
    BY <1>1, <1>2, HoldsForAll DEF Ks
<1> QED BY <1>0, <1>3 DEF Ks

(* Any member may be taken away first.                                      *)
LEMMA SumRemove ==
    ASSUME NEW w, NEW S, IsFiniteSet(S), \A x \in S : w[x] \in Nat, NEW x \in S
    PROVE  SumFunctionOnSet(w, S) = w[x] + SumFunctionOnSet(w, S \ {x})
<1> DEFINE AnyFirst(T) == \A y \in T : SumFunctionOnSet(w, T) = w[y] + SumFunctionOnSet(w, T \ {y})
           Ks == {k \in Nat : \A T \in SUBSET S : Cardinality(T) <= k => AnyFirst(T)}
<1>0. \A T \in SUBSET S : IsFiniteSet(T) /\ Cardinality(T) \in Nat
    BY FS_Subset, FS_CardinalityType
<1>n. \A T \in SUBSET S : SumFunctionOnSet(w, T) \in Nat
    BY <1>0, SumIsNat
<1>1. 0 \in Ks
    BY <1>0, FS_EmptySet
<1>2. \A k \in Ks : k + 1 \in Ks
    <2> SUFFICES ASSUME NEW k \in Ks, NEW T \in SUBSET S, Cardinality(T) <= k + 1
                 PROVE  AnyFirst(T)
        <3> HIDE DEF AnyFirst
        <3> QED OBVIOUS
    <2> TAKE y \in T
    <2>1. Pick(T) \in T /\ SumFunctionOnSet(w, T) = w[Pick(T)] + SumFunctionOnSet(w, T \ {Pick(T)})
        BY <1>0, SumStep
    <2>2. CASE y = Pick(T)
        BY <2>1, <2>2
    <2>3. CASE y # Pick(T)
        <3> DEFINE p == Pick(T)
        <3> HIDE DEF p
        <3>1. p \in T /\ p # y
            BY <2>1, <2>3 DEF p
        <3>2. T \ {p} \in SUBSET S /\ Cardinality(T \ {p}) <= k /\ y \in T \ {p}
            BY <3>1, <1>0, FS_RemoveElement
        <3>3. T \ {y} \in SUBSET S /\ Cardinality(T \ {y}) <= k /\ p \in T \ {y}
            BY <3>1, <1>0, FS_RemoveElement
        <3>4. SumFunctionOnSet(w, T \ {p}) = w[y] + SumFunctionOnSet(w, (T \ {p}) \ {y})
            BY <3>2
        <3>5. SumFunctionOnSet(w, T \ {y}) = w[p] + SumFunctionOnSet(w, (T \ {y}) \ {p})
            BY <3>3
        <3>6. (T \ {p}) \ {y} = (T \ {y}) \ {p} /\ (T \ {y}) \ {p} \in SUBSET S
            OBVIOUS
        <3>7. w[p] \in Nat /\ w[y] \in Nat /\ SumFunctionOnSet(w, (T \ {y}) \ {p}) \in Nat
            BY <3>1, <3>6, <1>n
        <3>8. SumFunctionOnSet(w, T) = w[p] + SumFunctionOnSet(w, T \ {p})
            BY <2>1 DEF p
        <3> QED BY <3>4, <3>5, <3>6, <3>7, <3>8
    <2> QED BY <2>2, <2>3
<1> HIDE DEF Ks
<1>3. Ks = Nat
    BY <1>1, <1>2, HoldsForAll DEF Ks
<1> QED BY <1>0, <1>3 DEF Ks

(* Two sets without a common member are summed up one after the other.      *)
LEMMA SumUnion ==
    ASSUME NEW w, NEW A, IsFiniteSet(A), NEW B, IsFiniteSet(B), A \cap B = {},
           \A x \in A \cup B : w[x] \in Nat
    PROVE  SumFunctionOnSet(w, A \cup B) = SumFunctionOnSet(w, A) + SumFunctionOnSet(w, B)
<1> DEFINE Ks == {k \in Nat : \A T \in SUBSET A : Cardinality(T) <= k =>
                    SumFunctionOnSet(w, T \cup B) = SumFunctionOnSet(w, T) + SumFunctionOnSet(w, B)}
<1>0. \A T \in SUBSET A : IsFiniteSet(T) /\ Cardinality(T) \in Nat
    BY FS_Subset, FS_CardinalityType
<1>n. \A T \in SUBSET A : SumFunctionOnSet(w, T) \in Nat /\ SumFunctionOnSet(w, T \cup B) \in Nat
    BY <1>0, SumIsNat, FS_Union
<1>b. SumFunctionOnSet(w, B) \in Nat
    BY SumIsNat
<1>1. 0 \in Ks
    <2>1. \A T \in SUBSET A : Cardinality(T) <= 0 => T = {}
        BY <1>0, FS_EmptySet
    <2>2. {} \cup B = B
        OBVIOUS
    <2> QED BY <2>1, <2>2, <1>b, SumOfNone
<1>2. \A k \in Ks : k + 1 \in Ks
    <2> SUFFICES ASSUME NEW k \in Ks, NEW T \in SUBSET A, Cardinality(T) <= k + 1
                 PROVE  SumFunctionOnSet(w, T \cup B) = SumFunctionOnSet(w, T) + SumFunctionOnSet(w, B)
        OBVIOUS
    <2>1. CASE T = {}
        <3>1. T \cup B = B
            BY <2>1
        <3> QED BY <3>1, <2>1, <1>b, SumOfNone
    <2>2. CASE T # {}
        <3>1. PICK x \in T : TRUE
            BY <2>2
        <3> DEFINE R == T \ {x}
        <3>2. R \in SUBSET A /\ Cardinality(R) <= k
            BY <3>1, <1>0, FS_RemoveElement
        <3>3. SumFunctionOnSet(w, R \cup B) = SumFunctionOnSet(w, R) + SumFunctionOnSet(w, B)
            BY <3>2
        <3>4. SumFunctionOnSet(w, T) = w[x] + SumFunctionOnSet(w, R)
            BY <3>1, <1>0, SumRemove
        <3>5. IsFiniteSet(T \cup B) /\ (T \cup B) \ {x} = R \cup B
            BY <3>1, <1>0, FS_Union
        <3>6. SumFunctionOnSet(w, T \cup B) = w[x] + SumFunctionOnSet(w, (T \cup B) \ {x})
            BY <3>1, <3>5, SumRemove
        <3>7. w[x] \in Nat /\ SumFunctionOnSet(w, R) \in Nat
            BY <3>1, <3>2, <1>n
        <3> QED BY <3>3, <3>4, <3>5, <3>6, <3>7, <1>b
    <2> QED BY <2>1, <2>2
<1> HIDE DEF Ks
<1>3. Ks = Nat
    BY <1>1, <1>2, HoldsForAll DEF Ks
<1> QED BY <1>0, <1>3 DEF Ks

(* The sum of the sums over sets of which no two have a common member.      *)
LEMMA SumNested ==
    ASSUME NEW I, IsFiniteSet(I), NEW parts, NEW w, NEW sums,
           \A i \in I : /\ IsFiniteSet(parts[i]) /\ \A x \in parts[i] : w[x] \in Nat
                        /\ sums[i] = SumFunctionOnSet(w, parts[i]),
           \A i, j \in I : i # j => parts[i] \cap parts[j] = {}
    PROVE  SumFunctionOnSet(sums, I) = SumFunctionOnSet(w, UNION {parts[i] : i \in I})
<1> DEFINE All(J) == UNION {parts[i] : i \in J}
           Ks == {k \in Nat : \A J \in SUBSET I : Cardinality(J) <= k =>
                    IsFiniteSet(All(J)) /\ SumFunctionOnSet(sums, J) = SumFunctionOnSet(w, All(J))}
<1>0. \A J \in SUBSET I : IsFiniteSet(J) /\ Cardinality(J) \in Nat
    BY FS_Subset, FS_CardinalityType
<1>n. \A i \in I : sums[i] \in Nat
    BY SumIsNat
<1>e. IsFiniteSet(All({})) /\ SumFunctionOnSet(sums, {}) = SumFunctionOnSet(w, All({}))
    <2>1. All({}) = {}
        OBVIOUS
    <2> HIDE DEF All
    <2> QED BY <2>1, SumOfNone, FS_EmptySet
<1>1. 0 \in Ks
    <2>1. \A J \in SUBSET I : Cardinality(J) <= 0 => J = {}
        BY <1>0, FS_EmptySet
    <2> HIDE DEF All
    <2> QED BY <2>1, <1>e
<1>2. \A k \in Ks : k + 1 \in Ks
    <2> SUFFICES ASSUME NEW k \in Ks, NEW J \in SUBSET I, Cardinality(J) <= k + 1
                 PROVE  IsFiniteSet(All(J)) /\ SumFunctionOnSet(sums, J) = SumFunctionOnSet(w, All(J))
        OBVIOUS
    <2>1. CASE J = {}
        <3> HIDE DEF All
        <3> QED BY <2>1, <1>e
    <2>2. CASE J # {}
        <3>1. PICK i \in J : TRUE
            BY <2>2
        <3> DEFINE R == J \ {i}
        <3>2. R \in SUBSET I /\ Cardinality(R) <= k
            BY <3>1, <1>0, FS_RemoveElement
        <3>3. IsFiniteSet(All(R)) /\ SumFunctionOnSet(sums, R) = SumFunctionOnSet(w, All(R))
            BY <3>2
        <3>4. SumFunctionOnSet(sums, J) = sums[i] + SumFunctionOnSet(sums, R)
            BY <3>1, <1>0, <1>n, SumRemove
        <3>5. All(J) = parts[i] \cup All(R) /\ parts[i] \cap All(R) = {}
            BY <3>1
        <3>6. IsFiniteSet(parts[i]) /\ \A x \in parts[i] \cup All(R) : w[x] \in Nat
            BY <3>1, <3>2
        <3> HIDE DEF All, R
        <3>u. IsFiniteSet(parts[i] \cup All(R))
            BY <3>3, <3>6, FS_Union
        <3>7. IsFiniteSet(All(J))
            BY <3>5, <3>u
        <3>8. SumFunctionOnSet(w, All(J)) = SumFunctionOnSet(w, parts[i]) + SumFunctionOnSet(w, All(R))
            BY <3>3, <3>5, <3>6, SumUnion
        <3>9. sums[i] = SumFunctionOnSet(w, parts[i])
            BY <3>1
        <3> QED BY <3>3, <3>4, <3>7, <3>8, <3>9
    <2> QED BY <2>1, <2>2
<1> HIDE DEF Ks, All
<1>3. Ks = Nat
    BY <1>1, <1>2, HoldsForAll DEF Ks
<1>4. SumFunctionOnSet(sums, I) = SumFunctionOnSet(w, All(I))
    BY <1>0, <1>3 DEF Ks
<1> QED BY <1>4 DEF All

(* A part that sums up to the whole leaves nothing but zeros.               *)
LEMMA SumLeavesZeros ==
    ASSUME NEW w, NEW S, IsFiniteSet(S), \A x \in S : w[x] \in Nat, NEW T \in SUBSET S,
           SumFunctionOnSet(w, T) = SumFunctionOnSet(w, S)
    PROVE  \A x \in S \ T : w[x] = 0
<1> SUFFICES ASSUME NEW x \in S \ T PROVE w[x] = 0
    OBVIOUS
<1> DEFINE R == S \ T
<1>1. IsFiniteSet(T) /\ IsFiniteSet(R) /\ IsFiniteSet(R \ {x})
    BY FS_Subset
<1>2. T \cup R = S /\ T \cap R = {} /\ x \in R
    OBVIOUS
<1>3. SumFunctionOnSet(w, S) = SumFunctionOnSet(w, T) + SumFunctionOnSet(w, R)
    BY <1>1, <1>2, SumUnion
<1>4. SumFunctionOnSet(w, R) = w[x] + SumFunctionOnSet(w, R \ {x})
    BY <1>1, <1>2, SumRemove
<1>5. /\ SumFunctionOnSet(w, T) \in Nat /\ SumFunctionOnSet(w, R) \in Nat
      /\ SumFunctionOnSet(w, R \ {x}) \in Nat /\ w[x] \in Nat
    BY <1>1, SumIsNat
<1> HIDE DEF R
<1> QED BY <1>3, <1>4, <1>5
-----------------------------------------------------------------------------
(* The files that the repair's scan listed, as a scan, and their blocks.    *)
ListedScan == [n \in DOMAIN Listed |-> Listed[n].footer]
SourceBlocks == UNION {BlocksOf(Listed, n) : n \in DOMAIN Listed}

SourceTyped ==
    /\ edits \in 0 .. MaxEdits
    /\ policy.maxMb \in Nat
    /\ IsFiniteSet(DOMAIN source) /\ DOMAIN source \subseteq Nat
    /\ \A n \in DOMAIN source : source[n].footer \in FileFooter
ListedTyped ==
    /\ IsFiniteSet(DOMAIN Listed) /\ DOMAIN Listed \subseteq Nat
    /\ \A n \in DOMAIN Listed : Listed[n].footer \in FileFooter

(* What makes a plan harmless: it merges once, splits files that it knows,  *)
(* none of them twice, and merges no file that it splits.                   *)
PlanShape(scan, ops) ==
    /\ \A op \in ops : op.class \in DOMAIN Order
    /\ \A a, b \in ops : a.class = "merge" /\ b.class = "merge" => a = b
    /\ \A a \in ops : a.class = "split" => \E n \in DOMAIN scan : a.paths = {n}
    /\ \A a, b \in ops : a.class \in {"merge", "split"} /\ b.class = "split" /\ a # b => a.paths \cap b.paths = {}

(* A plan is about the dataset as it was at some write, the verdict about   *)
(* some scan of it.                                                         *)
PlannedFrom(scan, key) == Operations(scan, scan, key, policy)
PlanIsOfItsTime ==
    plan # None =>
        /\ plan.edits \in 0 .. edits
        /\ plan.edits = edits => plan.scan \in Scans(source)
        /\ plan.fingerprint = Fingerprint(plan.scan)
        /\ PlanShape(plan.scan, plan.ops)
        /\ \E key : plan.ops = PlannedFrom(plan.scan, key)

VerdictIsOfItsScan ==
    verdict # None =>
        /\ verdict.exit \in {0, 3, 4, 5}
        /\ verdict.exit = 0 => \E key : CheckExit(PlannedFrom(verdict.scan, key)) = 0

Running == {"verify source", "seed", "apply", "verify", "publish", "done", "failed"}
RepairTyped ==
    \/ repair = Idle
    \/ /\ plan # None
       /\ repair = [pc |-> repair.pc, scan |-> repair.scan, at |-> repair.at, auth |-> repair.auth,
                    work |-> repair.work, known |-> repair.known, left |-> repair.left,
                    toSeed |-> repair.toSeed, todo |-> repair.todo, done |-> repair.done,
                    skipped |-> repair.skipped, output |-> repair.output, outcome |-> repair.outcome]
       /\ repair.pc \in Running
       /\ repair.at \in 0 .. edits
       /\ repair.at = edits => repair.scan \in Scans(source)

(* Every operation is still to be run, was run, or was skipped for want of  *)
(* an authorisation, and only one of these.                                 *)
OperationsAccounted ==
    repair.pc # "idle" =>
        /\ repair.todo \cup repair.done \cup repair.skipped = plan.ops
        /\ repair.todo \cap repair.done = {} /\ repair.todo \cap repair.skipped = {}
        /\ repair.done \cap repair.skipped = {}
        /\ \A op \in repair.skipped : Safety(op) # "safe"
        /\ repair.output # None => repair.todo = {}

(* A working set made of blocks of the dataset, none of them in two files;  *)
(* without an authorisation, the blocks have their columns.                 *)
FileShape(file) == file = [blocks |-> file.blocks, cols |-> file.cols, lost |-> file.lost]
Untouched(file) == file.lost = {} /\ \A b \in file.blocks : file.cols = Listed[b.of].footer.cols
WorkSound(work) ==
    /\ IsFiniteSet(DOMAIN work) /\ DOMAIN work \subseteq Nat
    /\ \A n \in DOMAIN work : FileShape(work[n]) /\ work[n].blocks \subseteq SourceBlocks
    /\ \A m, n \in DOMAIN work : m # n => work[m].blocks \cap work[n].blocks = {}
    /\ repair.auth = {} => \A n \in DOMAIN work : Untouched(work[n])

Seeding ==
    /\ DOMAIN repair.work = DOMAIN Listed \ repair.toSeed
    /\ repair.toSeed \subseteq DOMAIN Listed
    /\ repair.known = DOMAIN repair.work
    /\ \A n \in DOMAIN repair.work :
        repair.work[n] = [blocks |-> BlocksOf(Listed, n), cols |-> Listed[n].footer.cols, lost |-> {}]

(* No split will have to look for its file outside the work directory.      *)
SplitsKnown(todo, known) == \A op \in todo : op.class = "split" => op.paths \subseteq known

(* A local repair of a dataset that is as it was scanned.                   *)
Fresh == repair.pc # "idle" /\ ~remote /\ repair.at = edits
WorkFollows ==
    Fresh =>
        /\ repair.pc = "verify source" => repair.work = <<>> /\ repair.known = {}
        /\ repair.pc \in {"seed", "apply", "verify", "done"} => DOMAIN plan.fingerprint = DOMAIN repair.scan
        /\ repair.pc = "seed" => Seeding
        /\ repair.pc = "apply" => SplitsKnown(repair.todo, repair.known)
        /\ repair.pc \in {"apply", "verify", "done"} /\ repair.left = {} => WorkSound(repair.work)
        /\ repair.pc \in {"verify", "done"} => repair.output = repair.work
        /\ repair.pc = "done" /\ repair.outcome = "verified" =>
            \E names \in SUBSET DOMAIN repair.work : RowsIn(repair.work, names) = TotalRows(repair.scan)

RepairInv ==
    SourceTyped /\ PlanIsOfItsTime /\ VerdictIsOfItsScan /\ RepairTyped /\ OperationsAccounted /\ WorkFollows
-----------------------------------------------------------------------------
(* A scan lists files of the dataset, with their footers.                   *)
LEMMA ScansListFiles ==
    ASSUME NEW scan \in Scans(source)
    PROVE  DOMAIN scan \subseteq DOMAIN source /\ scan = [n \in DOMAIN scan |-> source[n].footer]
<1>1. PICK names \in Listings(Visible(source)) : scan = [n \in names |-> source[n].footer]
    BY DEF Scans
<1>2. names \subseteq Visible(source)
    BY DEF Listings, kSubset
<1>3. Visible(source) \subseteq DOMAIN source
    BY DEF Visible
<1> QED BY <1>1, <1>2, <1>3

(* What was listed of a typed dataset is one.                               *)
LEMMA ListedIsTyped == SourceTyped => ListedTyped
<1> SUFFICES ASSUME SourceTyped PROVE ListedTyped
    OBVIOUS
<1>1. /\ DOMAIN Listed = DOMAIN source \cap DOMAIN repair.scan
      /\ \A n \in DOMAIN Listed : Listed[n] = source[n]
    BY DEF Listed
<1>2. IsFiniteSet(DOMAIN source \cap DOMAIN repair.scan)
    BY FS_Subset DEF SourceTyped
<1> QED BY <1>1, <1>2 DEF SourceTyped, ListedTyped

(* While nobody writes, the repair's scan is that of the files it listed.   *)
LEMMA ScanIsOfListed ==
    ASSUME repair.scan \in Scans(source)
    PROVE  /\ repair.scan = ListedScan /\ DOMAIN Listed = DOMAIN repair.scan
           /\ DOMAIN Listed \subseteq DOMAIN source
           /\ \A n \in DOMAIN Listed : Listed[n] = source[n] /\ repair.scan[n] = source[n].footer
<1>1. DOMAIN repair.scan \subseteq DOMAIN source /\ repair.scan = [n \in DOMAIN repair.scan |-> source[n].footer]
    BY ScansListFiles
<1>2. /\ DOMAIN Listed = DOMAIN repair.scan
      /\ \A n \in DOMAIN Listed : Listed[n] = source[n]
    BY <1>1 DEF Listed
<1> QED BY <1>1, <1>2 DEF ListedScan

(* The rows of the dataset are those of its blocks.                         *)
BlockRows == [b \in SourceBlocks |-> b.rows]

(* The two blocks of a file: they are its own, and have its rows.           *)
LEMMA BlocksOfFile ==
    ASSUME ListedTyped, NEW n \in DOMAIN Listed
    PROVE  /\ IsFiniteSet(BlocksOf(Listed, n))
           /\ \A b \in BlocksOf(Listed, n) : b.of = n /\ b.rows \in Nat
           /\ SumFunctionOnSet(BlockRows, BlocksOf(Listed, n)) = Listed[n].footer.rows
<1> DEFINE rows == Listed[n].footer.rows
           first == rows \div 2
           B1 == Block(n, Listed[n].written, 1, first)
           B2 == Block(n, Listed[n].written, 2, rows - first)
<1>1. rows \in Nat
    BY DEF ListedTyped, FileFooter
<1>2. first \in Nat /\ rows - first \in Nat /\ first + (rows - first) = rows
    <2> HIDE DEF rows
    <2>1. first \in Nat /\ first <= rows
        BY <1>1
    <2> QED BY <1>1, <2>1
<1>3. BlocksOf(Listed, n) = {B1, B2}
    BY DEF BlocksOf
<1>4. /\ B1.of = n /\ B1.rows = first /\ B2.of = n /\ B2.rows = rows - first
      /\ B1.half = 1 /\ B2.half = 2
    BY DEF Block
<1>5. B1 \in SourceBlocks /\ B2 \in SourceBlocks
    BY <1>3 DEF SourceBlocks
<1>6. BlockRows[B1] = first /\ BlockRows[B2] = rows - first
    BY <1>4, <1>5 DEF BlockRows
<1> HIDE DEF B1, B2, rows, first
<1>7. B1 # B2
    BY <1>4
<1>8. IsFiniteSet({B1, B2})
    <2>1. IsFiniteSet({B1})
        BY FS_Singleton
    <2>2. IsFiniteSet({B1} \cup {B2})
        BY <2>1, FS_AddElement
    <2>3. {B1, B2} = {B1} \cup {B2}
        OBVIOUS
    <2> QED BY <2>2, <2>3
<1>9. SumFunctionOnSet(BlockRows, {B1, B2}) = rows
    <2>1. SumFunctionOnSet(BlockRows, {B1, B2}) = BlockRows[B1] + SumFunctionOnSet(BlockRows, {B1, B2} \ {B1})
        BY <1>2, <1>6, <1>8, SumRemove
    <2>2. {B1, B2} \ {B1} = {B2} /\ {B2} \ {B2} = {}
        BY <1>7
    <2>3. IsFiniteSet({B2})
        BY FS_Singleton
    <2>4. SumFunctionOnSet(BlockRows, {B2}) = BlockRows[B2] + SumFunctionOnSet(BlockRows, {B2} \ {B2})
        BY <2>3, <1>2, <1>6, SumRemove
    <2>5. SumFunctionOnSet(BlockRows, {B2} \ {B2}) = 0
        BY <2>2, SumOfNone
    <2>6. SumFunctionOnSet(BlockRows, {B2}) = rows - first
        BY <2>4, <2>5, <1>2, <1>6
    <2>7. SumFunctionOnSet(BlockRows, {B1, B2} \ {B1}) = rows - first
        BY <2>2, <2>6
    <2>8. SumFunctionOnSet(BlockRows, {B1, B2}) = first + (rows - first)
        BY <2>1, <2>7, <1>6
    <2> QED BY <2>8, <1>2
<1> QED BY <1>2, <1>3, <1>4, <1>8, <1>9 DEF rows

(* RowsOf adds up the rows of blocks.                                       *)
LEMMA RowsOfBlocks ==
    ASSUME NEW blocks, IsFiniteSet(blocks), blocks \subseteq SourceBlocks
    PROVE  RowsOf(blocks) = SumFunctionOnSet(BlockRows, blocks)
<1> DEFINE w == [b \in blocks |-> b.rows]
<1>1. RowsOf(blocks) = SumFunctionOnSet(w, blocks)
    BY DEF RowsOf, SumFunction
<1>2. \A b \in blocks : BlockRows[b] = w[b]
    BY DEF BlockRows
<1> HIDE DEF w
<1> QED BY <1>1, <1>2, SumDependsOnMembers

(* A dataset has finitely many blocks, each with some rows, and the rows of *)
(* the scan are theirs.                                                     *)
LEMMA SourceRows ==
    ASSUME ListedTyped
    PROVE  /\ IsFiniteSet(SourceBlocks)
           /\ \A b \in SourceBlocks : b.rows \in Nat /\ BlockRows[b] = b.rows
           /\ TotalRows(ListedScan) = SumFunctionOnSet(BlockRows, SourceBlocks)
<1> DEFINE parts == [n \in DOMAIN Listed |-> BlocksOf(Listed, n)]
           sums == [n \in DOMAIN Listed |-> Listed[n].footer.rows]
<1>1. IsFiniteSet({BlocksOf(Listed, n) : n \in DOMAIN Listed})
    <2>1. parts \in Surjection(DOMAIN Listed, {BlocksOf(Listed, n) : n \in DOMAIN Listed})
        BY DEF Surjection
    <2> HIDE DEF parts
    <2> QED BY <2>1, FS_Surjection DEF ListedTyped
<1>2. \A T \in {BlocksOf(Listed, n) : n \in DOMAIN Listed} : IsFiniteSet(T)
    BY BlocksOfFile
<1>3. IsFiniteSet(SourceBlocks)
    BY <1>1, <1>2, FS_UNION DEF SourceBlocks
<1>4. \A b \in SourceBlocks : b.rows \in Nat /\ BlockRows[b] = b.rows
    <2> SUFFICES ASSUME NEW n \in DOMAIN Listed, NEW b \in BlocksOf(Listed, n)
                 PROVE  b.rows \in Nat /\ BlockRows[b] = b.rows
        BY DEF SourceBlocks
    <2>1. b \in SourceBlocks
        BY DEF SourceBlocks
    <2> QED BY <2>1, BlocksOfFile DEF BlockRows
<1>5. \A n \in DOMAIN Listed : /\ IsFiniteSet(parts[n])
                               /\ \A b \in parts[n] : b.of = n /\ BlockRows[b] \in Nat
                               /\ sums[n] = SumFunctionOnSet(BlockRows, parts[n])
    BY <1>4, BlocksOfFile DEF SourceBlocks
<1>6. UNION {parts[n] : n \in DOMAIN Listed} = SourceBlocks
    BY DEF SourceBlocks
<1>7. TotalRows(ListedScan) = SumFunctionOnSet(sums, DOMAIN Listed)
    <2>1. DOMAIN ListedScan = DOMAIN Listed /\ \A n \in DOMAIN Listed : ListedScan[n] = Listed[n].footer
        BY DEF ListedScan
    <2>2. [n \in DOMAIN ListedScan |-> ListedScan[n].rows] = sums
        BY <2>1
    <2>3. DOMAIN sums = DOMAIN Listed
        OBVIOUS
    <2> HIDE DEF sums
    <2> QED BY <2>2, <2>3 DEF TotalRows, SumFunction
<1>8. \A m, n \in DOMAIN Listed : m # n => parts[m] \cap parts[n] = {}
    BY <1>5
<1> HIDE DEF parts, sums
<1>f. IsFiniteSet(DOMAIN Listed)
    BY DEF ListedTyped
<1>9. SumFunctionOnSet(sums, DOMAIN Listed) = SumFunctionOnSet(BlockRows, UNION {parts[n] : n \in DOMAIN Listed})
    <2>1. \A n \in DOMAIN Listed : /\ IsFiniteSet(parts[n]) /\ \A b \in parts[n] : BlockRows[b] \in Nat
                                   /\ sums[n] = SumFunctionOnSet(BlockRows, parts[n])
        BY <1>5
    <2> QED BY <2>1, <1>8, <1>f, SumNested
<1> QED BY <1>3, <1>4, <1>6, <1>7, <1>9

(* The rows of files of a sound working set are those of their content.     *)
LEMMA RowsOfWork ==
    ASSUME ListedTyped, NEW work, WorkSound(work), NEW names \in SUBSET DOMAIN work
    PROVE  RowsIn(work, names) = SumFunctionOnSet(BlockRows, Content(work, names))
<1> DEFINE parts == [n \in names |-> work[n].blocks]
           sums == [n \in names |-> RowsOf(work[n].blocks)]
<1>1. \A n \in names : parts[n] \subseteq SourceBlocks /\ IsFiniteSet(parts[n])
    BY SourceRows, FS_Subset DEF WorkSound
<1>2. \A n \in names : /\ \A b \in parts[n] : BlockRows[b] \in Nat
                       /\ sums[n] = SumFunctionOnSet(BlockRows, parts[n])
    BY <1>1, SourceRows, RowsOfBlocks
<1>3. \A m, n \in names : m # n => parts[m] \cap parts[n] = {}
    BY DEF WorkSound
<1>4. IsFiniteSet(names)
    BY FS_Subset DEF WorkSound
<1>5. UNION {parts[n] : n \in names} = Content(work, names)
    BY DEF Content
<1>6. RowsIn(work, names) = SumFunctionOnSet(sums, names)
    BY DEF RowsIn, SumFunction
<1> HIDE DEF parts, sums
<1>7. SumFunctionOnSet(sums, names) = SumFunctionOnSet(BlockRows, UNION {parts[n] : n \in names})
    BY <1>1, <1>2, <1>3, <1>4, SumNested
<1> QED BY <1>5, <1>6, <1>7

(* A sound working set, some files of which have as many rows as the        *)
(* dataset, has every block that holds a row.                               *)
LEMMA RowsFillWork ==
    ASSUME ListedTyped, NEW work, WorkSound(work), NEW names \in SUBSET DOMAIN work,
           RowsIn(work, names) = TotalRows(ListedScan)
    PROVE  Filled(work) = Kept(Listed)
<1> DEFINE content == Content(work, names)
           all == Content(work, DOMAIN work)
<1>1. content \subseteq all /\ all \subseteq SourceBlocks
    BY DEF Content, WorkSound
<1>2. SumFunctionOnSet(BlockRows, content) = SumFunctionOnSet(BlockRows, SourceBlocks)
    BY RowsOfWork, SourceRows
<1> HIDE DEF content, all
<1>3. \A b \in SourceBlocks \ content : BlockRows[b] = 0
    BY <1>1, <1>2, SourceRows, SumLeavesZeros
<1>4. \A b \in SourceBlocks \ all : b.rows = 0
    BY <1>1, <1>3, SourceRows
<1> QED BY <1>1, <1>4 DEF all, Filled, Kept, SourceBlocks
-----------------------------------------------------------------------------
(* What the operations do to a sound working set.  First: to take files out *)
(* of it.                                                                   *)
LEMMA WithoutIsSound ==
    ASSUME NEW work, NEW names, WorkSound(work)
    PROVE  /\ WorkSound(Without(work, names))
           /\ DOMAIN Without(work, names) = DOMAIN work \ names
           /\ \A n \in DOMAIN work \ names : Without(work, names)[n] = work[n]
<1>1. /\ DOMAIN Without(work, names) = DOMAIN work \ names
      /\ \A n \in DOMAIN work \ names : Without(work, names)[n] = work[n]
    BY DEF Without, Restrict
<1>2. IsFiniteSet(DOMAIN work \ names)
    BY FS_Difference DEF WorkSound
<1> QED BY <1>1, <1>2 DEF WorkSound

(* Parts that were made of some files: they hold blocks of these, none      *)
(* twice, and every one with a row.                                         *)
PartsOf(parts, work, names) ==
    /\ IsFiniteSet(DOMAIN parts) /\ DOMAIN parts \subseteq Nat
    /\ \A k \in DOMAIN parts : FileShape(parts[k]) /\ parts[k].blocks \subseteq Content(work, names)
    /\ \A j, k \in DOMAIN parts : j # k => parts[j].blocks \cap parts[k].blocks = {}
    /\ repair.auth = {} => \A k \in DOMAIN parts : Untouched(parts[k])
    /\ \A b \in Content(work, names) : b.rows > 0 => \E k \in DOMAIN parts : b \in parts[k].blocks

(* Files give way to their parts.                                           *)
LEMMA ReplacedIsSound ==
    ASSUME NEW work, WorkSound(work), NEW names \in SUBSET DOMAIN work, NEW parts, PartsOf(parts, work, names),
           NEW known, NEW scratch
    PROVE  WorkSound(Replaced(work, known, names, parts, scratch, {}).work)
<1> DEFINE rest == Without(work, names \ {})
           new == Over(rest, parts)
<1>1. /\ WorkSound(rest) /\ DOMAIN rest = DOMAIN work \ names
      /\ \A n \in DOMAIN work \ names : rest[n] = work[n]
    BY WithoutIsSound
<1>2. /\ DOMAIN new = DOMAIN rest \cup DOMAIN parts
      /\ \A n \in DOMAIN parts : new[n] = parts[n]
      /\ \A n \in DOMAIN new : n \notin DOMAIN parts => n \in DOMAIN rest /\ new[n] = rest[n]
    BY DEF Over
<1>3. Replaced(work, known, names, parts, scratch, {}).work = Without(new, scratch)
    BY DEF Replaced, After
<1> HIDE DEF rest, new
<1>4. Content(work, names) \subseteq SourceBlocks
    BY DEF Content, WorkSound
<1>5. \A n \in DOMAIN rest : rest[n].blocks \cap Content(work, names) = {}
    BY <1>1 DEF Content, WorkSound
<1>6. IsFiniteSet(DOMAIN new) /\ DOMAIN new \subseteq Nat
    <2>1. /\ IsFiniteSet(DOMAIN rest) /\ DOMAIN rest \subseteq Nat
          /\ IsFiniteSet(DOMAIN parts) /\ DOMAIN parts \subseteq Nat
        BY <1>1 DEF WorkSound, PartsOf
    <2>2. IsFiniteSet(DOMAIN rest \cup DOMAIN parts)
        BY <2>1, FS_Union
    <2> QED BY <1>2, <2>1, <2>2
<1>7. \A n \in DOMAIN new : FileShape(new[n]) /\ new[n].blocks \subseteq SourceBlocks
    BY <1>1, <1>2, <1>4 DEF WorkSound, PartsOf
<1>8. \A m, n \in DOMAIN new : m # n => new[m].blocks \cap new[n].blocks = {}
    <2> SUFFICES ASSUME NEW m \in DOMAIN new, NEW n \in DOMAIN new, m # n
                 PROVE  new[m].blocks \cap new[n].blocks = {}
        OBVIOUS
    <2>1. CASE m \in DOMAIN parts /\ n \in DOMAIN parts
        BY <2>1, <1>2 DEF PartsOf
    <2>2. CASE m \in DOMAIN parts /\ n \notin DOMAIN parts
        BY <2>2, <1>2, <1>5 DEF PartsOf
    <2>3. CASE m \notin DOMAIN parts /\ n \in DOMAIN parts
        BY <2>3, <1>2, <1>5 DEF PartsOf
    <2>4. CASE m \notin DOMAIN parts /\ n \notin DOMAIN parts
        BY <2>4, <1>1, <1>2 DEF WorkSound
    <2> QED BY <2>1, <2>2, <2>3, <2>4
<1>9. repair.auth = {} => \A n \in DOMAIN new : Untouched(new[n])
    BY <1>1, <1>2 DEF WorkSound, PartsOf
<1>10. WorkSound(new)
    BY <1>6, <1>7, <1>8, <1>9 DEF WorkSound
<1>11. WorkSound(Without(new, scratch))
    BY <1>10, WithoutIsSound
<1> QED BY <1>3, <1>11, Zenon

(* A file with a row in it is one that a merge reads.                       *)
LEMMA RowsAreSeen ==
    ASSUME ListedTyped, NEW blocks, blocks \subseteq SourceBlocks, NEW b \in blocks, b.rows > 0
    PROVE  RowsOf(blocks) > 0
<1>1. IsFiniteSet(blocks) /\ \A c \in blocks : BlockRows[c] \in Nat
    BY SourceRows, FS_Subset
<1>2. SumFunctionOnSet(BlockRows, blocks) = BlockRows[b] + SumFunctionOnSet(BlockRows, blocks \ {b})
    BY <1>1, SumRemove
<1>3. IsFiniteSet(blocks \ {b})
    BY <1>1, FS_RemoveElement
<1>4. SumFunctionOnSet(BlockRows, blocks \ {b}) \in Nat
    BY <1>1, <1>3, SumIsNat
<1>5. BlockRows[b] = b.rows /\ BlockRows[b] \in Nat
    BY <1>1, SourceRows
<1> QED BY <1>1, <1>2, <1>4, <1>5, RowsOfBlocks

(* merge_parquet_files: a part has the blocks of the files that went into   *)
(* it, and all of these had the same columns.                               *)
LEMMA MergeMakesParts ==
    ASSUME ListedTyped, NEW work, WorkSound(work), NEW inputFiles, NEW parts \in MergeFiles(work, inputFiles)
    PROVE  /\ inputFiles \subseteq DOMAIN work /\ DOMAIN parts \subseteq MergedParts
           /\ PartsOf(parts, work, inputFiles)
<1> DEFINE filled == {n \in inputFiles : RowsOf(work[n].blocks) > 0}
           Piece(names) == [blocks |-> Content(work, names),
                            cols |-> work[Min(names)].cols,
                            lost |-> UNION {work[n].lost : n \in names}]
           Low(last) == {n \in filled : n <= last}
           High(last) == {n \in filled : n > last}
           Cut(k, last) == {n \in filled : IF k = MergedPart(0) THEN n <= last ELSE n > last}
           One == [k \in {MergedPart(0)} |-> Piece(filled)]
           Two(last) == [k \in {MergedPart(0), MergedPart(1)} |-> Piece(Cut(k, last))]
<1>1. inputFiles \subseteq DOMAIN work /\ \A m, n \in inputFiles : work[m].cols = work[n].cols
    BY DEF MergeFiles
<1>2. \/ filled = {} /\ parts = <<>>
      \/ filled # {} /\ parts = One
      \/ \E last \in filled : (\E n \in filled : n > last) /\ parts = Two(last)
    BY <1>1 DEF MergeFiles
<1>3. MergedPart(0) \in Nat /\ MergedPart(1) \in Nat /\ MergedPart(0) # MergedPart(1)
    BY DEF MergedPart
<1>4. ASSUME NEW names \in SUBSET inputFiles, names # {}
      PROVE  /\ FileShape(Piece(names)) /\ Piece(names).blocks = Content(work, names)
             /\ Content(work, names) \subseteq Content(work, inputFiles)
             /\ repair.auth = {} => Untouched(Piece(names))
    <2>1. FileShape(Piece(names)) /\ Piece(names).blocks = Content(work, names)
        BY DEF FileShape
    <2>2. Content(work, names) \subseteq Content(work, inputFiles)
        BY DEF Content
    <2>4. ASSUME repair.auth = {} PROVE Untouched(Piece(names))
        <3>1. names \in SUBSET Nat
            BY <1>1 DEF WorkSound
        <3>2. Min(names) \in names
            BY <3>1, <1>4, SmallestExists
        <3>3. \A n \in names : work[n].cols = Piece(names).cols
            BY <3>2, <1>1
        <3>4. \A n \in names : work[n].lost = {} /\ \A b \in work[n].blocks : work[n].cols = Listed[b.of].footer.cols
            BY <2>4, <1>1 DEF WorkSound, Untouched
        <3>5. Piece(names).lost = {}
            BY <3>4
        <3>6. \A b \in Content(work, names) : Piece(names).cols = Listed[b.of].footer.cols
            BY <3>3, <3>4 DEF Content
        <3> HIDE DEF Piece
        <3> QED BY <2>1, <3>5, <3>6 DEF Untouched
    <2> HIDE DEF Piece
    <2> QED BY <2>1, <2>2, <2>4
<1>5. ASSUME NEW b \in Content(work, inputFiles), b.rows > 0
      PROVE  \E n \in filled : b \in work[n].blocks
    <2>1. PICK n \in inputFiles : b \in work[n].blocks
        BY DEF Content
    <2>2. work[n].blocks \subseteq SourceBlocks
        BY <1>1 DEF WorkSound
    <2>3. RowsOf(work[n].blocks) > 0
        BY <2>1, <2>2, <1>5, RowsAreSeen
    <2> QED BY <2>1, <2>3
<1>6. filled \subseteq inputFiles /\ filled \subseteq Nat
    BY <1>1 DEF WorkSound
<1> HIDE DEF Piece
<1>7. CASE filled = {} /\ parts = <<>>
    <2>1. DOMAIN parts = {}
        BY <1>7
    <2>2. IsFiniteSet({})
        BY FS_EmptySet
    <2>3. \A b \in Content(work, inputFiles) : ~(b.rows > 0)
        BY <1>5, <1>7
    <2> QED BY <1>1, <2>1, <2>2, <2>3 DEF PartsOf
<1>8. CASE filled # {} /\ parts = One
    <2> HIDE DEF filled
    <2>1. DOMAIN parts = {MergedPart(0)} /\ parts[MergedPart(0)] = Piece(filled)
        BY <1>8
    <2>2. IsFiniteSet({MergedPart(0)})
        BY FS_Singleton
    <2>3. \A b \in Content(work, inputFiles) : b.rows > 0 => b \in Piece(filled).blocks
        BY <1>4, <1>5, <1>6, <1>8 DEF Content
    <2>4. /\ FileShape(Piece(filled)) /\ Piece(filled).blocks \subseteq Content(work, inputFiles)
          /\ repair.auth = {} => Untouched(Piece(filled))
        BY <1>4, <1>6, <1>8
    <2> QED BY <1>1, <1>3, <2>1, <2>2, <2>3, <2>4 DEF PartsOf, MergedParts
<1>9. ASSUME NEW last \in filled, \E n \in filled : n > last, parts = Two(last)
      PROVE  /\ inputFiles \subseteq DOMAIN work /\ DOMAIN parts \subseteq MergedParts
             /\ PartsOf(parts, work, inputFiles)
    <2>1. /\ Low(last) \in SUBSET inputFiles /\ Low(last) # {}
          /\ High(last) \in SUBSET inputFiles /\ High(last) # {}
          /\ Low(last) \cap High(last) = {} /\ filled = Low(last) \cup High(last)
        BY <1>6, <1>9
    <2>2. Cut(MergedPart(0), last) = Low(last) /\ Cut(MergedPart(1), last) = High(last)
        BY <1>3
    <2>3. /\ DOMAIN parts = {MergedPart(0), MergedPart(1)}
          /\ parts[MergedPart(0)] = Piece(Low(last)) /\ parts[MergedPart(1)] = Piece(High(last))
        <3> HIDE DEF Low, High, filled, Cut
        <3> QED BY <1>9, <2>2
    <2> HIDE DEF Low, High, filled
    <2>4. Content(work, Low(last)) \cap Content(work, High(last)) = {}
        BY <2>1, <1>1 DEF Content, WorkSound
    <2>5. IsFiniteSet({MergedPart(0), MergedPart(1)})
        <3>1. IsFiniteSet({MergedPart(0)})
            BY FS_Singleton
        <3>2. IsFiniteSet({MergedPart(0)} \cup {MergedPart(1)})
            BY <3>1, FS_AddElement
        <3>3. {MergedPart(0), MergedPart(1)} = {MergedPart(0)} \cup {MergedPart(1)}
            OBVIOUS
        <3> QED BY <3>2, <3>3
    <2>6. /\ FileShape(parts[MergedPart(0)]) /\ FileShape(parts[MergedPart(1)])
          /\ parts[MergedPart(0)].blocks = Content(work, Low(last))
          /\ parts[MergedPart(1)].blocks = Content(work, High(last))
          /\ repair.auth = {} => Untouched(parts[MergedPart(0)]) /\ Untouched(parts[MergedPart(1)])
          /\ Content(work, Low(last)) \subseteq Content(work, inputFiles)
          /\ Content(work, High(last)) \subseteq Content(work, inputFiles)
        BY <1>4, <2>1, <2>3
    <2>7. \A b \in Content(work, inputFiles) :
            b.rows > 0 => b \in Content(work, Low(last)) \/ b \in Content(work, High(last))
        BY <1>5, <2>1 DEF Content
    <2> QED BY <1>1, <1>3, <2>3, <2>4, <2>5, <2>6, <2>7 DEF PartsOf, MergedParts
<1> HIDE DEF filled, One, Two
<1> QED BY <1>2, <1>7, <1>8, <1>9

(* A file of which only the blocks are replaced.                            *)
LEMMA BlocksReplaced ==
    ASSUME NEW file, FileShape(file), NEW blocks
    PROVE  [file EXCEPT !.blocks = blocks] = [blocks |-> blocks, cols |-> file.cols, lost |-> file.lost]
<1>1. PICK b, c, l : file = [blocks |-> b, cols |-> c, lost |-> l]
    BY DEF FileShape
<1> QED BY <1>1

(* The halves of the dataset's blocks.                                      *)
LEMMA BlocksAreHalves == \A b \in SourceBlocks : b.half \in {1, 2}
BY DEF SourceBlocks, BlocksOf, Block

(* split_parquet_file: the two halves of a file.                            *)
LEMMA SplitMakesParts ==
    ASSUME NEW work, WorkSound(work), NEW name \in DOMAIN work, NEW parts \in SplitFile(work[name], name)
    PROVE  PartsOf(parts, work, {name}) /\ DOMAIN parts \subseteq SplitParts(name)
<1> DEFINE file == work[name]
           Half(k) == [file EXCEPT !.blocks = {b \in @ : b.half = k}]
           p0 == SplitPart(name, 0)
           p1 == SplitPart(name, 1)
<1>1. \/ parts = [k \in {p0} |-> file]
      \/ parts = [k \in {p0, p1} |-> IF k = p0 THEN Half(1) ELSE Half(2)]
    BY DEF SplitFile
<1>2. p0 \in Nat /\ p1 \in Nat /\ p0 # p1 /\ SplitParts(name) = {p0, p1}
    BY DEF SplitPart, SplitParts, WorkSound
<1>3. /\ FileShape(file) /\ file.blocks \subseteq SourceBlocks /\ Content(work, {name}) = file.blocks
      /\ repair.auth = {} => Untouched(file)
    BY DEF WorkSound, Content
<1>4. ASSUME NEW k
      PROVE  Half(k) = [blocks |-> {b \in file.blocks : b.half = k}, cols |-> file.cols, lost |-> file.lost]
    BY <1>3, BlocksReplaced
<1> HIDE DEF file, Half, p0, p1
<1>5. ASSUME NEW k
      PROVE  /\ FileShape(Half(k)) /\ Half(k).blocks = {b \in file.blocks : b.half = k}
             /\ repair.auth = {} => Untouched(Half(k))
    <2>1. /\ FileShape(Half(k)) /\ Half(k).blocks = {b \in file.blocks : b.half = k}
          /\ Half(k).cols = file.cols /\ Half(k).lost = file.lost
        BY <1>4 DEF FileShape
    <2>2. repair.auth = {} => Untouched(Half(k))
        BY <2>1, <1>3 DEF Untouched
    <2> QED BY <2>1, <2>2
<1>6. IsFiniteSet({p0}) /\ IsFiniteSet({p0, p1})
    <2>1. IsFiniteSet({p0})
        BY FS_Singleton
    <2>2. IsFiniteSet({p0} \cup {p1})
        BY <2>1, FS_AddElement
    <2>3. {p0, p1} = {p0} \cup {p1}
        OBVIOUS
    <2> QED BY <2>1, <2>2, <2>3
<1>7. CASE parts = [k \in {p0} |-> file]
    BY <1>2, <1>3, <1>6, <1>7 DEF PartsOf
<1>8. CASE parts = [k \in {p0, p1} |-> IF k = p0 THEN Half(1) ELSE Half(2)]
    <2>1. DOMAIN parts = {p0, p1} /\ parts[p0] = Half(1) /\ parts[p1] = Half(2)
        BY <1>2, <1>8
    <2>2. \A b \in file.blocks : b \in Half(1).blocks \/ b \in Half(2).blocks
        BY <1>3, <1>5, BlocksAreHalves
    <2>3. Half(1).blocks \cap Half(2).blocks = {}
        BY <1>5
    <2>4. \A k \in DOMAIN parts : FileShape(parts[k]) /\ parts[k].blocks \subseteq file.blocks
        BY <2>1, <1>5
    <2>5. \A j, k \in DOMAIN parts : j # k => parts[j].blocks \cap parts[k].blocks = {}
        BY <2>1, <2>3
    <2>6. repair.auth = {} => \A k \in DOMAIN parts : Untouched(parts[k])
        BY <2>1, <1>5
    <2>7. \A b \in file.blocks : \E k \in DOMAIN parts : b \in parts[k].blocks
        BY <2>1, <2>2
    <2> QED BY <1>2, <1>3, <1>6, <2>1, <2>4, <2>5, <2>6, <2>7 DEF PartsOf
<1> QED BY <1>1, <1>7, <1>8

(* A rename or a cast leaves the blocks where they are, but for files whose *)
(* names it takes for its own.                                              *)
LEMMA ColumnsKeepBlocks ==
    ASSUME NEW work, \A n \in DOMAIN work : FileShape(work[n]), NEW known, NEW op,
           NEW after \in Cast(work, known, op) \cup Rename(work, known, op)
    PROVE  /\ after.known = known /\ after.left = {}
           /\ DOMAIN after.work = DOMAIN work \ Temps(op.class, known)
           /\ \A n \in DOMAIN after.work : FileShape(after.work[n]) /\ after.work[n].blocks = work[n].blocks
<1> DEFINE on == OnColumn(work, known, op)
<1>1. /\ DOMAIN on = DOMAIN work
      /\ \A n \in DOMAIN work : FileShape(on[n]) /\ on[n].blocks = work[n].blocks
    BY DEF OnColumn, FileShape
<1>2. ASSUME NEW new, DOMAIN new = DOMAIN work,
             \A n \in DOMAIN work : FileShape(new[n]) /\ new[n].blocks = work[n].blocks,
             after = After(Without(new, Temps(op.class, known)), known, {})
      PROVE  /\ after.known = known /\ after.left = {}
             /\ DOMAIN after.work = DOMAIN work \ Temps(op.class, known)
             /\ \A n \in DOMAIN after.work : FileShape(after.work[n]) /\ after.work[n].blocks = work[n].blocks
    <2>1. /\ DOMAIN Without(new, Temps(op.class, known)) = DOMAIN work \ Temps(op.class, known)
          /\ \A n \in DOMAIN work \ Temps(op.class, known) : Without(new, Temps(op.class, known))[n] = new[n]
        BY <1>2 DEF Without, Restrict
    <2> QED BY <1>2, <2>1 DEF After
<1>3. CASE after \in Cast(work, known, op)
    <2> DEFINE Loses(n) == n \in known /\ CastLoses(In(work, n, op.column), op.to)
               cast == [n \in DOMAIN work |-> [on[n] EXCEPT !.lost = IF Loses(n) THEN @ \cup {op.column} ELSE @]]
    <2>1. after = After(Without(cast, Temps(op.class, known)), known, {})
        BY <1>3 DEF Cast
    <2> HIDE DEF on
    <2>2. DOMAIN cast = DOMAIN work
        OBVIOUS
    <2>3. ASSUME NEW n \in DOMAIN work
          PROVE  FileShape(cast[n]) /\ cast[n].blocks = work[n].blocks
        <3>1. PICK lost : cast[n] = [on[n] EXCEPT !.lost = lost]
            OBVIOUS
        <3>2. on[n] = [blocks |-> on[n].blocks, cols |-> on[n].cols, lost |-> on[n].lost]
              /\ on[n].blocks = work[n].blocks
            BY <1>1 DEF FileShape
        <3> HIDE DEF cast
        <3>3. cast[n] = [blocks |-> on[n].blocks, cols |-> on[n].cols, lost |-> lost]
            BY <3>1, <3>2
        <3> QED BY <3>2, <3>3 DEF FileShape
    <2> HIDE DEF cast
    <2> QED BY <2>1, <2>2, <2>3, <1>2
<1>4. CASE after \in Rename(work, known, op)
    <2>1. after = After(Without(on, Temps(op.class, known)), known, {})
        BY <1>4 DEF Rename
    <2> HIDE DEF on
    <2> QED BY <2>1, <1>1, <1>2
<1> QED BY <1>3, <1>4

(* Whatever an operation that may run does to a sound working set, the      *)
(* result is one, if it removed what it was to remove; and the map loses    *)
(* only the files of a merge or a split.                                    *)
LEMMA OperationsAreSound ==
    ASSUME ListedTyped, NEW work, NEW known, NEW op, op.class \in DOMAIN Order, MayRun(op),
           op.class = "split" => \E n \in DOMAIN Listed : op.paths = {n} /\ n \in known,
           NEW after \in ApplyOperation(work, known, op)
    PROVE  /\ WorkSound(work) /\ after.left = {} => WorkSound(after.work)
           /\ \A n \in known : n \notin after.known => op.class \in {"merge", "split"} /\ n \in op.paths
<1>1. op.class \in {"blocked", "cond", "rename", "widen", "split", "rowgroups", "compress", "stats", "merge"}
    BY DEF Order
<1>2. op.class # "blocked"
    BY DEF MayRun, Safety
<1>3. CASE op.class = "merge"
    <2> DEFINE names == op.paths \cap known
    <2>1. after \in Merge(work, known, op)
        BY <1>3 DEF ApplyOperation
    <2>2. CASE after = After(work, known, {})
        BY <2>2 DEF After
    <2>3. ASSUME NEW parts \in MergeFiles(work, names), NEW left,
                 after = Replaced(work, known, names, parts, MergeScratch, left)
          PROVE  /\ WorkSound(work) /\ after.left = {} => WorkSound(after.work)
                 /\ \A n \in known : n \notin after.known => n \in op.paths
        <3>1. after.left = left /\ after.known = (known \ names) \cup DOMAIN parts
            BY <2>3 DEF Replaced, After
        <3>2. ASSUME WorkSound(work) PROVE names \in SUBSET DOMAIN work /\ PartsOf(parts, work, names)
            BY <3>2, MergeMakesParts
        <3>3. WorkSound(work) /\ left = {} => WorkSound(after.work)
            BY <2>3, <3>2, ReplacedIsSound
        <3> QED BY <3>1, <3>3
    <2> QED BY <2>1, <2>2, <2>3, <1>3 DEF Merge
<1>4. CASE op.class = "split"
    <2>1. after \in Split(work, known, op)
        BY <1>4 DEF ApplyOperation
    <2>2. PICK name \in DOMAIN Listed : op.paths = {name} /\ name \in known
        BY <1>4
    <2>3. Min(op.paths) = name
        BY <2>2, SmallestExists DEF ListedTyped
    <2>4. op.paths \cap known = {name}
        BY <2>2
    <2>5. PICK parts, left :
            /\ parts \in SplitFile(work[name], name)
            /\ after = Replaced(work, known, {name}, parts, SplitScratch, left)
            /\ name \in DOMAIN work
        BY <2>1, <2>2, <2>3, <2>4 DEF Split
    <2>6. after.left = left /\ after.known = (known \ {name}) \cup DOMAIN parts
        BY <2>5 DEF Replaced, After
    <2>7. ASSUME WorkSound(work) PROVE {name} \in SUBSET DOMAIN work /\ PartsOf(parts, work, {name})
        BY <2>5, <2>7, SplitMakesParts
    <2>8. WorkSound(work) /\ left = {} => WorkSound(after.work)
        BY <2>5, <2>7, ReplacedIsSound
    <2> QED BY <2>2, <2>6, <2>8, <1>4
<1>5. CASE op.class \in {"rowgroups", "compress", "stats"}
    <2>1. after \in Rewrite(work, known, op)
        BY <1>5 DEF ApplyOperation
    <2>2. after = After(Without(work, Temps(op.class, op.paths \cap known)), known, {})
        BY <2>1 DEF Rewrite
    <2> QED BY <2>2, WithoutIsSound DEF After
<1>6. CASE op.class \in {"cond", "rename", "widen"}
    <2>1. after \in Cast(work, known, op) \cup Rename(work, known, op)
        BY <1>6 DEF ApplyOperation
    <2>2. repair.auth # {}
        BY <1>6 DEF MayRun, Safety
    <2>3. after.known = known
        BY <2>1 DEF Cast, Rename, After
    <2>4. ASSUME WorkSound(work) PROVE WorkSound(after.work)
        <3>1. /\ DOMAIN after.work = DOMAIN work \ Temps(op.class, known)
              /\ \A n \in DOMAIN after.work : FileShape(after.work[n]) /\ after.work[n].blocks = work[n].blocks
            BY <2>1, <2>4, ColumnsKeepBlocks DEF WorkSound
        <3>2. IsFiniteSet(DOMAIN after.work)
            <4>1. IsFiniteSet(DOMAIN work)
                BY <2>4 DEF WorkSound
            <4>2. IsFiniteSet(DOMAIN work \ Temps(op.class, known))
                BY <4>1, FS_Difference
            <4> QED BY <3>1, <4>2
        <3> QED BY <2>2, <2>4, <3>1, <3>2 DEF WorkSound
    <2> QED BY <2>3, <2>4
<1> QED BY <1>1, <1>2, <1>3, <1>4, <1>5, <1>6
-----------------------------------------------------------------------------
(* The invariant, step by step.  Most steps are the repair's own: they      *)
(* leave the dataset, the plan and the verdict alone.                       *)
LEMMA OthersStay ==
    ASSUME SourceTyped, PlanIsOfItsTime, VerdictIsOfItsScan,
           UNCHANGED <<remote, policy, source, edits, plan, verdict>>
    PROVE  SourceTyped' /\ PlanIsOfItsTime' /\ VerdictIsOfItsScan'
<1>1. Scans(source)' = Scans(source)
    BY DEF Scans, Visible, Listings
<1> QED BY <1>1 DEF SourceTyped, PlanIsOfItsTime, VerdictIsOfItsScan, PlannedFrom, PlanShape

(* The dataset stays, and what the scan listed of it.                       *)
LEMMA ListedStays ==
    ASSUME source' = source, repair'.scan = repair.scan
    PROVE  Listed' = Listed /\ ListedScan' = ListedScan /\ SourceBlocks' = SourceBlocks
BY DEF Listed, ListedScan, SourceBlocks, BlocksOf

(* Whether a working set is sound depends on the dataset and on the         *)
(* authorisation alone.                                                     *)
LEMMA SoundStays ==
    ASSUME source' = source, repair'.scan = repair.scan, repair'.auth = repair.auth, WorkSound(repair'.work)
    PROVE  WorkSound(repair.work)'
<1>1. Listed' = Listed /\ SourceBlocks' = SourceBlocks
    BY ListedStays
<1> QED BY <1>1 DEF WorkSound, Untouched

RepairsOwn == UNCHANGED <<remote, policy, source, edits, plan, verdict>>

(* A step of the repair that changes neither the scan nor the books.        *)
LEMMA RepairStays ==
    ASSUME RepairInv, RepairsOwn, repair.pc # "idle",
           repair' = [pc |-> repair'.pc, scan |-> repair.scan, at |-> repair.at, auth |-> repair.auth,
                      work |-> repair'.work, known |-> repair'.known, left |-> repair.left, toSeed |-> repair'.toSeed, todo |-> repair.todo, done |-> repair.done,
                      skipped |-> repair.skipped, output |-> repair'.output, outcome |-> repair'.outcome],
           repair'.pc \in Running,
           repair'.output # None => repair.todo = {} \/ repair'.output = repair.output
    PROVE  SourceTyped' /\ PlanIsOfItsTime' /\ VerdictIsOfItsScan' /\ RepairTyped' /\ OperationsAccounted'
<1>1. SourceTyped' /\ PlanIsOfItsTime' /\ VerdictIsOfItsScan'
    BY OthersStay DEF RepairInv, RepairsOwn
<1>s. Scans(source)' = Scans(source)
    BY DEF RepairsOwn, Scans, Visible, Listings
<1>2. plan # None /\ repair.at \in 0 .. edits /\ (repair.at = edits => repair.scan \in Scans(source))
    BY DEF RepairInv, RepairTyped, Idle
<1>3. RepairTyped'
    BY <1>2, <1>s DEF RepairTyped, RepairsOwn
<1>4. OperationsAccounted'
    BY DEF RepairInv, OperationsAccounted, RepairsOwn
<1> QED BY <1>1, <1>3, <1>4

(* What the invariant says of a started repair.                             *)
LEMMA StartedShape ==
    ASSUME RepairInv, repair.pc # "idle"
    PROVE  /\ plan # None
           /\ repair = [pc |-> repair.pc, scan |-> repair.scan, at |-> repair.at, auth |-> repair.auth,
                    work |-> repair.work, known |-> repair.known, left |-> repair.left, toSeed |-> repair.toSeed, todo |-> repair.todo, done |-> repair.done,
                    skipped |-> repair.skipped, output |-> repair.output, outcome |-> repair.outcome]
           /\ repair.pc \in Running
           /\ repair.at \in 0 .. edits
           /\ repair.at = edits => repair.scan \in Scans(source)
BY DEF RepairInv, RepairTyped, Idle

(* Before a repair starts there is nothing to lose.                         *)
LEMMA RepairInitially == Init => RepairInv
<1> SUFFICES ASSUME Init PROVE RepairInv
    OBVIOUS
<1>1. edits = 0 /\ plan = None /\ verdict = None /\ repair = Idle
    BY DEF Init, RepairInit
<1>2. PICK d \in Choose1("repair", Datasets) : source = [n \in DOMAIN d |-> [footer |-> d[n], written |-> 0]]
    BY DEF Init, RepairInit
<1>3. d \in Datasets
    BY <1>2, DatasetsAssumption DEF Choose1
<1>p. policy.maxMb \in Nat
    BY DatasetsAssumption DEF Init, RepairInit, Choose1
<1>4. SourceTyped
    BY <1>1, <1>2, <1>3, <1>p, DatasetsAssumption DEF SourceTyped
<1> QED BY <1>1, <1>4
    DEF RepairInv, PlanIsOfItsTime, VerdictIsOfItsScan, RepairTyped, OperationsAccounted, WorkFollows, Fresh, Idle

(* A write by another program: what was read before it is no longer current. *)
LEMMA EditKeepsRepair ==
    ASSUME RepairInv, EditSource
    PROVE  RepairInv'
<1>0. /\ edits \in 0 .. MaxEdits /\ edits' = edits + 1 /\ edits' \in 0 .. MaxEdits
      /\ policy' = policy /\ policy.maxMb \in Nat /\ plan' = plan /\ verdict' = verdict /\ repair' = repair
    BY DatasetsAssumption DEF EditSource, RepairInv, SourceTyped
<1>1. SourceTyped'
    <2>1. PICK n \in Names :
            \/ \E f \in Footers : source' = With(source, n, [footer |-> f, written |-> edits'])
            \/ n \in DOMAIN source /\ source' = Without(source, {n})
        BY DEF EditSource
    <2>2. n \in Nat
        BY DatasetsAssumption
    <2>3. CASE source' = Without(source, {n})
        <3>1. DOMAIN source' = DOMAIN source \ {n} /\ \A m \in DOMAIN source' : source'[m] = source[m]
            BY <2>3 DEF Without, Restrict
        <3>2. IsFiniteSet(DOMAIN source')
            BY <3>1, FS_RemoveElement DEF RepairInv, SourceTyped
        <3> QED BY <3>1, <3>2, <1>0 DEF RepairInv, SourceTyped
    <2>4. ASSUME NEW f \in Footers, source' = With(source, n, [footer |-> f, written |-> edits'])
          PROVE  SourceTyped'
        <3>1. DOMAIN source' = DOMAIN source \cup {n}
            BY <2>4 DEF With
        <3>2. \A m \in DOMAIN source' : source'[m].footer = IF m = n THEN f ELSE source[m].footer
            BY <2>4 DEF With
        <3>3. IsFiniteSet(DOMAIN source')
            BY <3>1, FS_AddElement DEF RepairInv, SourceTyped
        <3>4. f \in FileFooter
            BY DatasetsAssumption
        <3>5. \A m \in DOMAIN source' : source'[m].footer \in FileFooter
            BY <3>1, <3>2, <3>4 DEF RepairInv, SourceTyped
        <3>6. DOMAIN source' \subseteq Nat
            BY <3>1, <2>2 DEF RepairInv, SourceTyped
        <3> QED BY <3>3, <3>5, <3>6, <1>0 DEF SourceTyped
    <2> QED BY <2>1, <2>3, <2>4
<1>2. PlanIsOfItsTime'
    BY <1>0 DEF RepairInv, PlanIsOfItsTime, PlanShape, PlannedFrom
<1>3. VerdictIsOfItsScan'
    BY <1>0 DEF RepairInv, VerdictIsOfItsScan, PlannedFrom
<1>4. RepairTyped' /\ OperationsAccounted'
    BY <1>0 DEF RepairInv, RepairTyped, OperationsAccounted
<1>5. WorkFollows'
    <2>1. repair.pc # "idle" => repair.at # edits'
        BY <1>0, StartedShape
    <2> QED BY <2>1, <1>0 DEF WorkFollows, Fresh
<1> QED BY <1>1, <1>2, <1>3, <1>4, <1>5 DEF RepairInv

(* Every operation of a plan is of a kind that deps.rs orders.              *)
LEMMA OperationsHaveClasses ==
    ASSUME NEW inv, NEW scan, NEW key, NEW pol
    PROVE  \A op \in Operations(inv, scan, key, pol) : op.class \in DOMAIN Order
<1>1. DOMAIN Order = {"blocked", "cond", "rename", "widen", "split", "rowgroups", "compress", "stats", "merge"}
    BY DEF Order
<1>2. \A op \in MergeRule(inv, key, pol) : op.class = "merge"
    BY DEF MergeRule, When, OnFiles, Operation
<1>3. \A op \in RowGroupRule(inv, scan) : op.class = "rowgroups"
    BY DEF RowGroupRule, When, OnFiles, Operation
<1>4. \A op \in CompressRule(inv) : op.class = "compress"
    BY DEF CompressRule, When, OnFiles, Operation
<1>5. \A op \in StatsRule(inv) : op.class = "stats"
    BY DEF StatsRule, When, OnFiles, Operation
<1>6. \A op \in SplitRule(inv, pol) : op.class = "split"
    BY DEF SplitRule, OnFiles, Operation
<1>7. \A op \in RenameRule(inv, pol) : op.class = "rename"
    BY DEF RenameRule, Operation
<1>8. \A op \in SchemaRule(inv, pol) : op.class \in {"widen", "cond", "blocked"}
    BY DEF SchemaRule, When, Operation
<1> QED BY <1>1, <1>2, <1>3, <1>4, <1>5, <1>6, <1>7, <1>8 DEF Operations

(* The choice of the dominant schema makes a difference to the merge only,  *)
(* which is safe.                                                           *)
LEMMA SafeForOneKey ==
    ASSUME NEW inv, NEW scan, NEW key, NEW other, NEW pol, CheckExit(Operations(inv, scan, key, pol)) = 0
    PROVE  \A op \in Operations(inv, scan, other, pol) : Safety(op) = "safe"
<1>1. \A op : Safety(op) \in {"safe", "review", "blocked"}
    BY DEF Safety
<1>2. \A op \in Operations(inv, scan, key, pol) : Safety(op) = "safe"
    BY <1>1 DEF CheckExit
<1>3. \A op \in MergeRule(inv, other, pol) : Safety(op) = "safe"
    BY DEF MergeRule, When, OnFiles, Operation, Safety
<1> QED BY <1>2, <1>3 DEF Operations

(* A plan has at most one merge, splits files of its inventory, each once,  *)
(* and merges none of them.                                                 *)
LEMMA PlansHaveShape ==
    ASSUME SourceTyped, NEW scan \in Scans(source), NEW key
    PROVE  PlanShape(scan, PlannedFrom(scan, key))
<1> DEFINE ops == PlannedFrom(scan, key)
<1>0. \A op \in ops : op.class \in DOMAIN Order
    BY OperationsHaveClasses DEF PlannedFrom
<1>1. \A n \in DOMAIN scan : scan[n].mb \in Nat
    <2>1. DOMAIN scan \subseteq DOMAIN source /\ scan = [n \in DOMAIN scan |-> source[n].footer]
        BY ScansListFiles
    <2>2. \A n \in DOMAIN scan : scan[n] \in FileFooter
        BY <2>1 DEF SourceTyped
    <2> QED BY <2>2 DEF FileFooter
<1>2. /\ \A a, b \in MergeRule(scan, key, policy) : a = b
      /\ \A a \in MergeRule(scan, key, policy) :
            a.class = "merge" /\ \A n \in a.paths : n \in DOMAIN scan /\ scan[n].mb <= policy.maxMb
    <2> DEFINE merged == {n \in SmallFiles(scan) : scan[n].mb <= policy.maxMb /\ StructuralKey(scan[n]) = key}
    <2>1. MergeRule(scan, key, policy) \subseteq {OnFiles("merge", merged)}
        BY DEF MergeRule, When
    <2>2. \A n \in merged : n \in DOMAIN scan /\ scan[n].mb <= policy.maxMb
        BY DEF SmallFiles
    <2> HIDE DEF merged
    <2>3. OnFiles("merge", merged).class = "merge" /\ OnFiles("merge", merged).paths = merged
        BY DEF OnFiles, Operation
    <2> QED BY <2>1, <2>2, <2>3
<1>3. \A a \in RowGroupRule(scan, scan) : a.class = "rowgroups"
    BY DEF RowGroupRule, When, OnFiles, Operation
<1>4. \A a \in CompressRule(scan) : a.class = "compress"
    BY DEF CompressRule, When, OnFiles, Operation
<1>5. \A a \in StatsRule(scan) : a.class = "stats"
    BY DEF StatsRule, When, OnFiles, Operation
<1>6. \A a \in SplitRule(scan, policy) :
        \E n \in DOMAIN scan : a = OnFiles("split", {n}) /\ a.class = "split" /\ a.paths = {n} /\ scan[n].mb > policy.maxMb
    BY DEF SplitRule, OnFiles, Operation
<1>7. \A a \in RenameRule(scan, policy) : a.class = "rename"
    BY DEF RenameRule, Operation
<1>8. \A a \in SchemaRule(scan, policy) : a.class \in {"widen", "cond", "blocked"}
    BY DEF SchemaRule, When, Operation
<1>9. \A a \in ops : /\ a.class = "merge" => a \in MergeRule(scan, key, policy)
                     /\ a.class = "split" => a \in SplitRule(scan, policy)
    BY <1>2, <1>3, <1>4, <1>5, <1>6, <1>7, <1>8 DEF PlannedFrom, Operations
<1> HIDE DEF ops
<1>10. ASSUME NEW a \in ops, NEW b \in ops, a.class \in {"merge", "split"}, b.class = "split", a # b
       PROVE  a.paths \cap b.paths = {}
    <2>1. PICK n \in DOMAIN scan : b = OnFiles("split", {n}) /\ b.paths = {n} /\ scan[n].mb > policy.maxMb
        BY <1>6, <1>9, <1>10
    <2>2. CASE a.class = "merge"
        <3>1. \A m \in a.paths : m \in DOMAIN scan /\ scan[m].mb <= policy.maxMb
            BY <2>2, <1>2, <1>9
        <3>2. ~(scan[n].mb <= policy.maxMb)
            BY <2>1, <1>1 DEF SourceTyped
        <3> QED BY <2>1, <3>1, <3>2
    <2>3. CASE a.class = "split"
        <3>1. PICK m \in DOMAIN scan : a = OnFiles("split", {m}) /\ a.paths = {m}
            BY <2>3, <1>6, <1>9
        <3>2. m # n
            BY <3>1, <2>1, <1>10
        <3> QED BY <3>1, <3>2, <2>1
    <2> QED BY <1>10, <2>2, <2>3
<1>11. \A a, b \in ops : a.class = "merge" /\ b.class = "merge" => a = b
    BY <1>2, <1>9
<1>12. \A a \in ops : a.class = "split" => \E n \in DOMAIN scan : a.paths = {n}
    BY <1>6, <1>9
<1>13. PlanShape(scan, ops)
    BY <1>0, <1>10, <1>11, <1>12 DEF PlanShape
<1> QED BY <1>13 DEF ops

(* prqnt plan.                                                              *)
LEMMA PlanKeepsRepair ==
    ASSUME RepairInv, GeneratePlan
    PROVE  RepairInv'
<1>0. plan = None /\ UNCHANGED <<remote, policy, source, edits, verdict, repair>>
    BY DEF GeneratePlan
<1>1. repair = Idle
    BY <1>0 DEF RepairInv, RepairTyped
<1>2. PICK scan, key :
        /\ scan \in Scans(source)
        /\ plan' = [ops |-> PlannedFrom(scan, key), fingerprint |-> Fingerprint(scan), scan |-> scan,
                    edits |-> edits]
    BY DEF GeneratePlan, PlannedFrom
<1>3. /\ edits \in Nat /\ edits' = edits /\ Scans(source)' = Scans(source)
      /\ PlannedFrom(scan, key)' = PlannedFrom(scan, key)
    BY <1>0 DEF RepairInv, SourceTyped, Scans, Visible, Listings, PlannedFrom
<1>4. /\ plan'.edits = edits /\ plan'.ops = PlannedFrom(scan, key) /\ plan'.scan = scan
      /\ plan'.fingerprint = Fingerprint(scan)
    BY <1>2
<1>5. PlanShape(scan, PlannedFrom(scan, key))
    BY <1>2, PlansHaveShape DEF RepairInv
<1>6. PlanIsOfItsTime'
    <2>1. plan'.ops = PlannedFrom(scan, key)'
        BY <1>3, <1>4
    <2>2. PlanShape(plan'.scan, plan'.ops)
        BY <1>4, <1>5
    <2> QED BY <1>2, <2>1, <2>2, <1>3, <1>4 DEF PlanIsOfItsTime, PlanShape, PlannedFrom
<1>7. VerdictIsOfItsScan'
    BY <1>0 DEF RepairInv, VerdictIsOfItsScan, PlannedFrom
<1>8. SourceTyped' /\ RepairTyped' /\ OperationsAccounted' /\ WorkFollows'
    BY <1>0, <1>1 DEF RepairInv, SourceTyped, RepairTyped, OperationsAccounted, WorkFollows, Fresh, Idle
<1> QED BY <1>6, <1>7, <1>8 DEF RepairInv

(* prqnt check.                                                             *)
LEMMA CheckKeepsRepair ==
    ASSUME RepairInv, Check
    PROVE  RepairInv'
<1>0. plan = None /\ plan' = None /\ UNCHANGED <<remote, policy, source, edits, repair>>
    BY DEF Check
<1>1. repair = Idle
    BY <1>0 DEF RepairInv, RepairTyped
<1>2. PICK scan, key :
        verdict' = [exit |-> IF Inventoried(scan) THEN CheckExit(PlannedFrom(scan, key)) ELSE 5, scan |-> scan]
    BY DEF Check, PlannedFrom
<1>4. /\ verdict'.scan = scan
      /\ verdict'.exit = IF Inventoried(scan) THEN CheckExit(PlannedFrom(scan, key)) ELSE 5
    BY <1>2
<1>5. CheckExit(PlannedFrom(scan, key)) \in {0, 3, 4}
    BY DEF CheckExit
<1>6. VerdictIsOfItsScan'
    <2>1. verdict'.exit = 0 => CheckExit(Operations(verdict'.scan, verdict'.scan, key, policy')) = 0
        BY <1>0, <1>4 DEF PlannedFrom
    <2> QED BY <2>1, <1>4, <1>5 DEF VerdictIsOfItsScan, PlannedFrom
<1>7. PlanIsOfItsTime'
    BY <1>0 DEF PlanIsOfItsTime
<1>8. SourceTyped' /\ RepairTyped' /\ OperationsAccounted' /\ WorkFollows'
    BY <1>0, <1>1 DEF RepairInv, SourceTyped, RepairTyped, OperationsAccounted, WorkFollows, Fresh, Idle
<1> QED BY <1>6, <1>7, <1>8 DEF RepairInv

(* prqnt repair, or the second half of prqnt doctor.                        *)
LEMMA StartKeepsRepair ==
    ASSUME RepairInv, StartRepair
    PROVE  RepairInv'
<1>0. RepairsOwn /\ plan # None
    BY DEF StartRepair, RepairsOwn
<1>1. SourceTyped' /\ PlanIsOfItsTime' /\ VerdictIsOfItsScan'
    BY <1>0, OthersStay DEF RepairInv, RepairsOwn
<1>2. PICK scan, at, authorized :
        /\ repair' = Starting(scan, at, authorized)
        /\ (scan \in Scans(source) /\ at = edits) \/ (scan = plan.scan /\ at = plan.edits)
    BY DEF StartRepair
<1>3. at \in 0 .. edits /\ (at = edits => scan \in Scans(source))
    BY <1>0, <1>2 DEF RepairInv, PlanIsOfItsTime, SourceTyped
<1>4. /\ repair' = [pc |-> "verify source", scan |-> scan, at |-> at, auth |-> authorized,
                    work |-> <<>>, known |-> {}, left |-> {}, toSeed |-> {}, todo |-> plan.ops, done |-> {}, skipped |-> {},
                    output |-> None, outcome |-> None]
    BY <1>2 DEF Starting
<1>s. Scans(source)' = Scans(source)
    BY <1>0 DEF RepairsOwn, Scans, Visible, Listings
<1>5. RepairTyped'
    BY <1>0, <1>3, <1>4, <1>s DEF RepairTyped, RepairsOwn, Running
<1>6. OperationsAccounted' /\ WorkFollows'
    BY <1>0, <1>4 DEF OperationsAccounted, WorkFollows, RepairsOwn
<1> QED BY <1>1, <1>5, <1>6 DEF RepairInv

(* A repair that fails claims nothing.                                      *)
LEMMA FailKeepsRepair ==
    ASSUME RepairInv, repair.pc # "idle", Fails, RepairsOwn
    PROVE  RepairInv'
<1>1. repair' = [pc |-> "failed", scan |-> repair.scan, at |-> repair.at, auth |-> repair.auth,
                 work |-> repair.work, known |-> repair.known, left |-> repair.left, toSeed |-> repair.toSeed, todo |-> repair.todo, done |-> repair.done,
                 skipped |-> repair.skipped, output |-> repair.output, outcome |-> repair.outcome]
    BY StartedShape DEF Fails
<1>2. SourceTyped' /\ PlanIsOfItsTime' /\ VerdictIsOfItsScan' /\ RepairTyped' /\ OperationsAccounted'
    BY <1>1, RepairStays DEF Running
<1>3. WorkFollows'
    BY <1>1 DEF WorkFollows
<1> QED BY <1>2, <1>3 DEF RepairInv

(* The source is what was planned for: the copy may begin.                  *)
LEMMA VerifySourceKeepsRepair ==
    ASSUME RepairInv, VerifySource
    PROVE  RepairInv'
<1>0. RepairsOwn /\ repair.pc = "verify source"
    BY DEF VerifySource, RepairsOwn
<1>1. CASE Fails
    BY <1>0, <1>1, FailKeepsRepair
<1>2. CASE repair' = [repair EXCEPT !.pc = "seed", !.toSeed = IF remote THEN DOMAIN source ELSE DOMAIN repair.scan]
    <2>1. repair' = [pc |-> "seed", scan |-> repair.scan, at |-> repair.at, auth |-> repair.auth,
                     work |-> repair.work, known |-> repair.known, left |-> repair.left, toSeed |-> IF remote THEN DOMAIN source ELSE DOMAIN repair.scan,
                     todo |-> repair.todo, done |-> repair.done, skipped |-> repair.skipped,
                     output |-> repair.output, outcome |-> repair.outcome]
        BY <1>0, <1>2, StartedShape
    <2>2. SourceTyped' /\ PlanIsOfItsTime' /\ VerdictIsOfItsScan' /\ RepairTyped' /\ OperationsAccounted'
        BY <1>0, <2>1, RepairStays DEF Running
    <2>3. ASSUME Fresh' PROVE Seeding'
        <3>1. Fresh
            BY <1>0, <2>1, <2>3 DEF Fresh, RepairsOwn
        <3>2. repair.work = <<>> /\ repair.known = {} /\ repair.scan \in Scans(source)
            BY <1>0, <3>1, StartedShape DEF RepairInv, WorkFollows, Fresh
        <3>3. DOMAIN Listed = DOMAIN repair.scan /\ Listed' = Listed
            BY <1>0, <2>1, <3>2, ScanIsOfListed, ListedStays DEF RepairsOwn
        <3>4. /\ repair'.toSeed = DOMAIN Listed' /\ repair'.work = <<>> /\ repair'.known = {}
            BY <2>1, <3>1, <3>2, <3>3 DEF Fresh
        <3>5. DOMAIN repair'.work = {}
            BY <3>4
        <3> QED BY <3>4, <3>5 DEF Seeding
    <2>f. DOMAIN plan'.fingerprint = DOMAIN repair'.scan
        <3>1. Fingerprint(Inspect(repair.scan)) = plan.fingerprint
            BY <1>0, <2>1, StartedShape DEF VerifySource, Fails
        <3>2. DOMAIN Fingerprint(Inspect(repair.scan)) = DOMAIN repair.scan
            BY DEF Fingerprint, Inspect
        <3> QED BY <1>0, <2>1, <3>1, <3>2 DEF RepairsOwn
    <2>4. WorkFollows'
        BY <2>1, <2>3, <2>f DEF WorkFollows
    <2> QED BY <2>2, <2>4 DEF RepairInv
<1> QED BY <1>1, <1>2 DEF VerifySource

(* One file is copied, as it is now.                                        *)
LEMMA SeedKeepsRepair ==
    ASSUME RepairInv, Seed
    PROVE  RepairInv'
<1> DEFINE n == Min(repair.toSeed)
           copy == Copy(n)
<1>0. RepairsOwn /\ repair.pc = "seed" /\ repair.toSeed # {}
    BY DEF Seed, RepairsOwn
<1>1. CASE Fails
    BY <1>0, <1>1, FailKeepsRepair
<1>2. CASE n \in DOMAIN source /\ repair' = [repair EXCEPT !.toSeed = @ \ {n}, !.work = With(@, n, copy), !.known = @ \cup {n}]
    <2> HIDE DEF n
    <2>1. repair' = [pc |-> "seed", scan |-> repair.scan, at |-> repair.at, auth |-> repair.auth,
                     work |-> With(repair.work, n, copy), known |-> repair.known \cup {n}, left |-> repair.left, toSeed |-> repair.toSeed \ {n},
                     todo |-> repair.todo, done |-> repair.done, skipped |-> repair.skipped,
                     output |-> repair.output, outcome |-> repair.outcome]
        BY <1>0, <1>2, StartedShape
    <2>2. SourceTyped' /\ PlanIsOfItsTime' /\ VerdictIsOfItsScan' /\ RepairTyped' /\ OperationsAccounted'
        BY <1>0, <2>1, RepairStays DEF Running
    <2>3. ASSUME Fresh' PROVE Seeding'
        <3>1. Fresh
            BY <1>0, <2>1, <2>3 DEF Fresh, RepairsOwn
        <3>2. Seeding
            BY <1>0, <3>1 DEF RepairInv, WorkFollows
        <3>l. /\ ListedTyped /\ Listed' = Listed
              /\ \A m \in DOMAIN Listed : Listed[m] = source[m]
            BY <1>0, <2>1, ListedIsTyped, ListedStays DEF Listed, RepairInv, RepairsOwn
        <3>3. repair.toSeed \in SUBSET Nat
            BY <3>2, <3>l DEF Seeding, ListedTyped
        <3>4. n \in repair.toSeed
            BY <3>3, <1>0, SmallestExists DEF n
        <3>5. DOMAIN repair'.work = DOMAIN repair.work \cup {n}
            BY <2>1 DEF With
        <3>6. \A m \in DOMAIN repair'.work :
                repair'.work[m] = [blocks |-> BlocksOf(Listed, m), cols |-> Listed[m].footer.cols, lost |-> {}]
            <4>1. n \in DOMAIN Listed /\ Listed[n] = source[n]
                BY <3>2, <3>4, <3>l DEF Seeding
            <4>2. copy = [blocks |-> BlocksOf(Listed, n), cols |-> Listed[n].footer.cols, lost |-> {}]
                BY <4>1 DEF Copy, BlocksOf
            <4> HIDE DEF copy
            <4> QED BY <2>1, <3>2, <4>2 DEF With, Seeding
        <3>7. /\ DOMAIN repair'.work = DOMAIN Listed \ repair'.toSeed /\ repair'.toSeed \subseteq DOMAIN Listed
              /\ repair'.known = DOMAIN repair'.work
            BY <2>1, <3>2, <3>4, <3>5 DEF Seeding
        <3> QED BY <3>6, <3>7, <3>l DEF Seeding, BlocksOf
    <2>f. Fresh' => DOMAIN plan'.fingerprint = DOMAIN repair'.scan
        BY <1>0, <2>1 DEF RepairInv, WorkFollows, Fresh, RepairsOwn
    <2>4. WorkFollows'
        BY <2>1, <2>3, <2>f DEF WorkFollows
    <2> QED BY <2>2, <2>4 DEF RepairInv
<1>3. \/ Fails
      \/ n \in DOMAIN source /\ repair' = [repair EXCEPT !.toSeed = @ \ {n}, !.work = With(@, n, copy), !.known = @ \cup {n}]
    BY DEF Seed
<1> QED BY <1>1, <1>2, <1>3

(* A complete copy is sound.                                                *)
LEMMA SeededKeepsRepair ==
    ASSUME RepairInv, Seeded
    PROVE  RepairInv'
<1>0. RepairsOwn /\ repair.pc = "seed" /\ repair.toSeed = {}
    BY DEF Seeded, RepairsOwn
<1>1. CASE Fails
    BY <1>0, <1>1, FailKeepsRepair
<1>2. CASE repair' = [repair EXCEPT !.pc = "apply"]
    <2>1. repair' = [pc |-> "apply", scan |-> repair.scan, at |-> repair.at, auth |-> repair.auth,
                     work |-> repair.work, known |-> repair.known, left |-> repair.left, toSeed |-> repair.toSeed,
                     todo |-> repair.todo, done |-> repair.done, skipped |-> repair.skipped,
                     output |-> repair.output, outcome |-> repair.outcome]
        BY <1>0, <1>2, StartedShape
    <2>2. SourceTyped' /\ PlanIsOfItsTime' /\ VerdictIsOfItsScan' /\ RepairTyped' /\ OperationsAccounted'
        BY <1>0, <2>1, RepairStays DEF Running
    <2>3. ASSUME Fresh'
          PROVE  /\ WorkSound(repair.work) /\ SplitsKnown(repair.todo, repair.known)
                 /\ DOMAIN plan.fingerprint = DOMAIN repair.scan
        <3>1. Fresh
            BY <1>0, <2>1, <2>3 DEF Fresh, RepairsOwn
        <3>2. Seeding /\ DOMAIN plan.fingerprint = DOMAIN repair.scan
            BY <1>0, <3>1 DEF RepairInv, WorkFollows
        <3>3. DOMAIN repair.work = DOMAIN Listed /\ repair.known = DOMAIN Listed
            BY <1>0, <3>2 DEF Seeding
        <3>l. ListedTyped /\ repair.scan \in Scans(source) /\ DOMAIN Listed = DOMAIN repair.scan
            BY <3>1, StartedShape, ListedIsTyped, ScanIsOfListed DEF Fresh, RepairInv
        <3>4. \A n \in DOMAIN Listed :
                /\ repair.work[n] = [blocks |-> BlocksOf(Listed, n), cols |-> Listed[n].footer.cols, lost |-> {}]
                /\ \A b \in BlocksOf(Listed, n) : b.of = n
            BY <3>2, <3>3, <3>l, BlocksOfFile DEF Seeding
        <3>5. ASSUME NEW n \in DOMAIN Listed
              PROVE  /\ FileShape(repair.work[n]) /\ repair.work[n].blocks \subseteq SourceBlocks
                     /\ Untouched(repair.work[n]) /\ \A b \in repair.work[n].blocks : b.of = n
            <4>1. /\ repair.work[n] = [blocks |-> BlocksOf(Listed, n), cols |-> Listed[n].footer.cols, lost |-> {}]
                  /\ \A b \in BlocksOf(Listed, n) : b.of = n
                BY <3>4, Zenon
            <4>2. FileShape(repair.work[n])
                BY <4>1 DEF FileShape
            <4>3. /\ repair.work[n].blocks = BlocksOf(Listed, n) /\ repair.work[n].cols = Listed[n].footer.cols
                  /\ repair.work[n].lost = {} /\ \A b \in repair.work[n].blocks : b.of = n
                BY <4>1
            <4>4. repair.work[n].blocks \subseteq SourceBlocks
                BY <4>3 DEF SourceBlocks
            <4>5. Untouched(repair.work[n])
                BY <4>3 DEF Untouched
            <4> QED BY <4>2, <4>3, <4>4, <4>5
        <3>6. \A m, n \in DOMAIN Listed : m # n => repair.work[m].blocks \cap repair.work[n].blocks = {}
            BY <3>5
        <3>7. WorkSound(repair.work)
            BY <3>3, <3>5, <3>6, <3>l DEF WorkSound, ListedTyped
        <3>8. repair.todo \subseteq plan.ops /\ plan # None /\ DOMAIN plan.scan = DOMAIN plan.fingerprint
            <4>1. repair.todo \subseteq plan.ops /\ plan # None
                BY <1>0, StartedShape DEF RepairInv, OperationsAccounted
            <4>2. plan.fingerprint = Fingerprint(plan.scan)
                BY <4>1 DEF RepairInv, PlanIsOfItsTime
            <4> QED BY <4>1, <4>2 DEF Fingerprint
        <3>9. SplitsKnown(repair.todo, repair.known)
            BY <3>2, <3>3, <3>8, <3>l DEF SplitsKnown, RepairInv, PlanIsOfItsTime, PlanShape
        <3> QED BY <3>2, <3>7, <3>9
    <2>4. WorkFollows'
        <3>1. Fresh' => WorkSound(repair.work)'
            BY <1>0, <2>1, <2>3, SoundStays DEF RepairsOwn
        <3> QED BY <1>0, <2>1, <2>3, <3>1 DEF WorkFollows, RepairsOwn, SplitsKnown
    <2> QED BY <2>2, <2>4 DEF RepairInv
<1> QED BY <1>1, <1>2 DEF Seeded

(* One operation is run or skipped.                                         *)
LEMMA RunKeepsRepair ==
    ASSUME RepairInv, RunOperation
    PROVE  RepairInv'
<1>0. RepairsOwn /\ repair.pc = "apply"
    BY DEF RunOperation, RepairsOwn
<1>1. PICK op \in Runnable(repair.todo) :
        \/ /\ ~MayRun(op)
           /\ repair' = [repair EXCEPT !.todo = @ \ {op}, !.skipped = @ \cup {op}]
        \/ /\ MayRun(op)
           /\ \E after \in ApplyOperation(repair.work, repair.known, op) :
                repair' = [repair EXCEPT !.todo = @ \ {op}, !.done = @ \cup {op}, !.work = after.work,
                                         !.known = after.known, !.left = @ \cup after.left]
        \/ Fails
    BY DEF RunOperation
<1>2. /\ plan # None /\ op \in repair.todo /\ repair.todo \subseteq plan.ops
      /\ op.class \in DOMAIN Order /\ PlanShape(plan.scan, plan.ops)
    BY <1>0, StartedShape DEF Runnable, RepairInv, OperationsAccounted, PlanIsOfItsTime, PlanShape
<1>s. Scans(source)' = Scans(source)
    BY <1>0 DEF RepairsOwn, Scans, Visible, Listings
<1>3. ASSUME NEW work, NEW known, NEW left, NEW done, NEW skipped,
             repair' = [pc |-> "apply", scan |-> repair.scan, at |-> repair.at, auth |-> repair.auth,
                        work |-> work, known |-> known, left |-> repair.left \cup left,
                        toSeed |-> repair.toSeed, todo |-> repair.todo \ {op}, done |-> done,
                        skipped |-> skipped, output |-> repair.output, outcome |-> repair.outcome],
             \/ done = repair.done \cup {op} /\ skipped = repair.skipped
             \/ done = repair.done /\ skipped = repair.skipped \cup {op} /\ Safety(op) # "safe",
             Fresh => SplitsKnown(repair.todo \ {op}, known),
             Fresh /\ WorkSound(repair.work) /\ left = {} => WorkSound(work)
      PROVE  RepairInv'
    <2>1. SourceTyped' /\ PlanIsOfItsTime' /\ VerdictIsOfItsScan'
        BY <1>0, OthersStay DEF RepairInv, RepairsOwn
    <2>2. RepairTyped'
        BY <1>0, <1>3, <1>s, StartedShape DEF RepairTyped, RepairsOwn, Running
    <2>3. OperationsAccounted'
        BY <1>0, <1>2, <1>3 DEF RepairInv, OperationsAccounted, RepairsOwn
    <2>f. Fresh' => Fresh /\ DOMAIN plan'.fingerprint = DOMAIN repair'.scan
        BY <1>0, <1>3 DEF RepairInv, WorkFollows, Fresh, RepairsOwn
    <2>4. ASSUME Fresh', repair'.left = {} PROVE WorkSound(repair.work)'
        <3>1. Fresh /\ repair.left = {} /\ left = {}
            BY <1>3, <2>f, <2>4
        <3>2. WorkSound(repair.work)
            BY <1>0, <3>1 DEF RepairInv, WorkFollows
        <3>3. WorkSound(repair'.work)
            BY <1>3, <3>1, <3>2
        <3> QED BY <1>0, <1>3, <3>3, SoundStays DEF RepairsOwn
    <2>5. WorkFollows'
        BY <1>3, <2>4, <2>f DEF WorkFollows, SplitsKnown
    <2> QED BY <2>1, <2>2, <2>3, <2>5 DEF RepairInv
<1>k. Fresh => SplitsKnown(repair.todo, repair.known)
    BY <1>0 DEF RepairInv, WorkFollows
<1>4. CASE Fails
    BY <1>0, <1>4, FailKeepsRepair
<1>5. CASE ~MayRun(op) /\ repair' = [repair EXCEPT !.todo = @ \ {op}, !.skipped = @ \cup {op}]
    <2>1. repair' = [pc |-> "apply", scan |-> repair.scan, at |-> repair.at, auth |-> repair.auth,
                     work |-> repair.work, known |-> repair.known, left |-> repair.left \cup {},
                     toSeed |-> repair.toSeed, todo |-> repair.todo \ {op},
                     done |-> repair.done, skipped |-> repair.skipped \cup {op},
                     output |-> repair.output, outcome |-> repair.outcome]
        BY <1>0, <1>5, StartedShape
    <2>2. Safety(op) # "safe"
        BY <1>5 DEF MayRun
    <2>3. Fresh => SplitsKnown(repair.todo \ {op}, repair.known)
        BY <1>k DEF SplitsKnown
    <2> QED BY <1>3, <2>1, <2>2, <2>3
<1>6. ASSUME MayRun(op), NEW after \in ApplyOperation(repair.work, repair.known, op),
             repair' = [repair EXCEPT !.todo = @ \ {op}, !.done = @ \cup {op}, !.work = after.work,
                                      !.known = after.known, !.left = @ \cup after.left]
      PROVE  RepairInv'
    <2>1. repair' = [pc |-> "apply", scan |-> repair.scan, at |-> repair.at, auth |-> repair.auth,
                     work |-> after.work, known |-> after.known, left |-> repair.left \cup after.left,
                     toSeed |-> repair.toSeed, todo |-> repair.todo \ {op},
                     done |-> repair.done \cup {op}, skipped |-> repair.skipped,
                     output |-> repair.output, outcome |-> repair.outcome]
        BY <1>0, <1>6, StartedShape
    <2>2. ASSUME Fresh
          PROVE  /\ WorkSound(repair.work) /\ after.left = {} => WorkSound(after.work)
                 /\ SplitsKnown(repair.todo \ {op}, after.known)
        <3>1. ListedTyped /\ DOMAIN Listed = DOMAIN repair.scan /\ DOMAIN plan.scan = DOMAIN repair.scan
            <4>1. ListedTyped /\ repair.scan \in Scans(source)
                BY <2>2, StartedShape, ListedIsTyped DEF Fresh, RepairInv
            <4>2. DOMAIN plan.fingerprint = DOMAIN repair.scan /\ plan.fingerprint = Fingerprint(plan.scan)
                BY <1>0, <1>2, <2>2 DEF RepairInv, WorkFollows, PlanIsOfItsTime
            <4> QED BY <4>1, <4>2, ScanIsOfListed DEF Fingerprint
        <3>2. op.class = "split" => \E n \in DOMAIN Listed : op.paths = {n} /\ n \in repair.known
            BY <1>2, <1>k, <2>2, <3>1 DEF PlanShape, SplitsKnown
        <3>3. /\ WorkSound(repair.work) /\ after.left = {} => WorkSound(after.work)
              /\ \A n \in repair.known :
                    n \notin after.known => op.class \in {"merge", "split"} /\ n \in op.paths
            BY <1>2, <1>6, <3>1, <3>2, OperationsAreSound
        <3>4. ASSUME NEW other \in repair.todo \ {op}, other.class = "split"
              PROVE  other.paths \subseteq after.known
            <4>1. other.paths \subseteq repair.known
                BY <1>k, <2>2, <3>4 DEF SplitsKnown
            <4>2. op.class \in {"merge", "split"} => op.paths \cap other.paths = {}
                BY <1>2, <3>4 DEF PlanShape
            <4> QED BY <3>3, <4>1, <4>2
        <3> QED BY <3>3, <3>4 DEF SplitsKnown
    <2> QED BY <1>3, <2>1, <2>2
<1> QED BY <1>1, <1>4, <1>5, <1>6

(* The working set is copied to the output.                                 *)
LEMMA CopyOutKeepsRepair ==
    ASSUME RepairInv, CopyOut
    PROVE  RepairInv'
<1>0. RepairsOwn /\ repair.todo = {} /\ repair.pc = IF remote THEN "publish" ELSE "apply"
    BY DEF CopyOut, RepairsOwn
<1>1. repair' = [pc |-> IF remote THEN "done" ELSE "verify", scan |-> repair.scan, at |-> repair.at,
                 auth |-> repair.auth, work |-> repair.work, known |-> repair.known, left |-> repair.left, toSeed |-> repair.toSeed, todo |-> repair.todo,
                 done |-> repair.done, skipped |-> repair.skipped, output |-> repair.work,
                 outcome |-> repair.outcome]
    BY <1>0, StartedShape DEF CopyOut
<1>2. SourceTyped' /\ PlanIsOfItsTime' /\ VerdictIsOfItsScan' /\ RepairTyped' /\ OperationsAccounted'
    BY <1>0, <1>1, RepairStays DEF Running
<1>3. Fresh' => Fresh /\ repair'.pc = "verify" /\ DOMAIN plan'.fingerprint = DOMAIN repair'.scan
    BY <1>0, <1>1 DEF RepairInv, WorkFollows, Fresh, RepairsOwn
<1>4. ASSUME Fresh', repair'.left = {} PROVE WorkSound(repair.work)'
    <2>1. WorkSound(repair'.work)
        BY <1>0, <1>1, <1>3, <1>4 DEF RepairInv, WorkFollows, Fresh
    <2> QED BY <1>0, <1>1, <2>1, SoundStays DEF RepairsOwn
<1>5. WorkFollows'
    BY <1>1, <1>3, <1>4 DEF WorkFollows
<1> QED BY <1>2, <1>5 DEF RepairInv

(* What verify_repair reads from the source again is what was scanned.      *)
LEMMA InspectedRows ==
    ASSUME RepairInv, Fresh
    PROVE  TotalRows(Inspect(repair.scan)) = TotalRows(repair.scan)
<1>1. repair.scan \in Scans(source) /\ ~remote
    BY StartedShape DEF Fresh
<1>2. DOMAIN repair.scan \subseteq DOMAIN source /\ repair.scan = [n \in DOMAIN repair.scan |-> source[n].footer]
    BY <1>1, ScansListFiles
<1>3. \A n \in DOMAIN repair.scan : source[n].footer \in FileFooter
    BY <1>2 DEF RepairInv, SourceTyped
<1>4. \A n \in DOMAIN repair.scan :
        [source[n].footer EXCEPT !.mb = repair.scan[n].mb].rows = source[n].footer.rows
    BY <1>3 DEF FileFooter
<1>5. DOMAIN Inspect(repair.scan) = DOMAIN repair.scan
    BY DEF Inspect
<1>6. \A n \in DOMAIN repair.scan : Inspect(repair.scan)[n].rows = repair.scan[n].rows
    BY <1>1, <1>2, <1>4 DEF Inspect
<1>7. [n \in DOMAIN Inspect(repair.scan) |-> Inspect(repair.scan)[n].rows] =
      [n \in DOMAIN repair.scan |-> repair.scan[n].rows]
    BY <1>5, <1>6
<1> QED BY <1>7 DEF TotalRows

(* The rows are compared.                                                   *)
LEMMA VerifyKeepsRepair ==
    ASSUME RepairInv, Verify
    PROVE  RepairInv'
<1>0. RepairsOwn /\ repair.todo = {} /\ repair.pc = IF remote THEN "apply" ELSE "verify"
    BY DEF Verify, RepairsOwn
<1>1. CASE Fails
    BY <1>0, <1>1, FailKeepsRepair
<1>2. ASSUME NEW names \in Listings(DOMAIN repair.work),
             repair' = [repair EXCEPT !.pc = IF remote THEN "publish" ELSE "done",
                                      !.outcome = IF RowCountKept(names) THEN "verified" ELSE "failed"]
      PROVE  RepairInv'
    <2>1. repair' = [pc |-> IF remote THEN "publish" ELSE "done", scan |-> repair.scan, at |-> repair.at,
                     auth |-> repair.auth, work |-> repair.work, known |-> repair.known, left |-> repair.left,
                     toSeed |-> repair.toSeed, todo |-> repair.todo,
                     done |-> repair.done, skipped |-> repair.skipped, output |-> repair.output,
                     outcome |-> IF RowCountKept(names) THEN "verified" ELSE "failed"]
        BY <1>0, <1>2, StartedShape
    <2>2. SourceTyped' /\ PlanIsOfItsTime' /\ VerdictIsOfItsScan' /\ RepairTyped' /\ OperationsAccounted'
        BY <1>0, <2>1, RepairStays DEF Running
    <2>3. ASSUME Fresh' PROVE Fresh /\ ~remote /\ repair.pc = "verify"
        BY <1>0, <2>1, <2>3 DEF Fresh, RepairsOwn
    <2>4. ASSUME Fresh'
          PROVE  /\ repair'.left = {} => WorkSound(repair.work)'
                 /\ repair'.output = repair'.work /\ DOMAIN plan'.fingerprint = DOMAIN repair'.scan
        <3>1. /\ repair'.left = {} => WorkSound(repair'.work)
              /\ repair.output = repair.work /\ DOMAIN plan.fingerprint = DOMAIN repair.scan
            BY <2>1, <2>3, <2>4 DEF RepairInv, WorkFollows
        <3> QED BY <1>0, <2>1, <3>1, SoundStays DEF RepairsOwn
    <2>5. ASSUME Fresh', repair'.outcome = "verified"
          PROVE  \E some \in SUBSET DOMAIN repair'.work : RowsIn(repair'.work, some) = TotalRows(repair'.scan)
        <3>1. TotalRows(Inspect(repair.scan)) = RowsIn(repair.output, names)
            BY <2>1, <2>3, <2>5 DEF RowCountKept
        <3>2. TotalRows(Inspect(repair.scan)) = TotalRows(repair.scan)
            BY <2>3, <2>5, InspectedRows
        <3>3. repair.output = repair.work
            BY <2>1, <2>4, <2>5
        <3>4. names \in SUBSET DOMAIN repair.work
            BY DEF Listings, kSubset
        <3> QED BY <2>1, <3>1, <3>2, <3>3, <3>4
    <2>6. WorkFollows'
        <3>1. Fresh' => repair'.pc = "done"
            BY <2>1, <2>3
        <3> QED BY <2>4, <2>5, <3>1 DEF WorkFollows, RowsIn, TotalRows
    <2> QED BY <2>2, <2>6 DEF RepairInv
<1> QED BY <1>1, <1>2 DEF Verify

(* Every step of the planner, the executor and the batch keeps RepairInv.   *)
LEMMA RepairPreserved == RepairInv /\ [Next]_vars => RepairInv'
<1> SUFFICES ASSUME RepairInv, [Next]_vars PROVE RepairInv'
    OBVIOUS
<1>1. CASE UNCHANGED repairVars
    <2>1. UNCHANGED <<remote, policy, source, edits, plan, verdict, repair>>
        BY <1>1 DEF repairVars
    <2>2. SourceTyped' /\ PlanIsOfItsTime' /\ VerdictIsOfItsScan'
        BY <2>1, OthersStay DEF RepairInv
    <2>s. Scans(source)' = Scans(source)
        BY <2>1 DEF Scans, Visible, Listings
    <2>3. RepairTyped' /\ OperationsAccounted'
        BY <2>1, <2>s DEF RepairInv, RepairTyped, OperationsAccounted
    <2>4. WorkFollows'
        <3>1. WorkSound(repair.work) => WorkSound(repair.work)'
            BY <2>1, SoundStays
        <3>2. Seeding => Seeding'
            BY <2>1, ListedStays DEF Seeding, BlocksOf
        <3> QED BY <2>1, <3>1, <3>2 DEF RepairInv, WorkFollows, Fresh, SplitsKnown, RowsIn, TotalRows
    <2> QED BY <2>2, <2>3, <2>4 DEF RepairInv
<1>2. CASE RepairStep
    <2>1. CASE BreakDown
        <3>1. RepairsOwn /\ Fails /\ repair.pc # "idle"
            BY <2>1 DEF BreakDown, RepairsOwn
        <3> QED BY <3>1, FailKeepsRepair
    <2> QED BY <1>2, <2>1, EditKeepsRepair, PlanKeepsRepair, CheckKeepsRepair, StartKeepsRepair,
            VerifySourceKeepsRepair, SeedKeepsRepair, SeededKeepsRepair, RunKeepsRepair, CopyOutKeepsRepair,
            VerifyKeepsRepair DEF RepairStep
<1> QED BY <1>1, <1>2 DEF Next, vars, repairVars

(* The invariant gives the property: the rows agree, so the output has      *)
(* every block with a row; and a plan made from a scan that prqnt check had *)
(* passed has nothing but safe operations, none of which is skipped.        *)
LEMMA WholeFollows == RepairInv => VerifiedRepairIsWhole
<1> SUFFICES ASSUME RepairInv, Undisturbed, repair.outcome = "verified"
             PROVE  /\ Filled(repair.output) = Kept(Listed)
                    /\ \A m, n \in DOMAIN repair.output :
                        m # n => \A b \in repair.output[m].blocks \cap repair.output[n].blocks : b.rows = 0
                    /\ repair.auth = {} =>
                        \A n \in DOMAIN repair.output : \A b \in repair.output[n].blocks :
                            repair.output[n].cols = Listed[b.of].footer.cols /\ repair.output[n].lost = {}
                    /\ verdict # None /\ verdict.scan = plan.scan /\ verdict.exit = 0 => repair.skipped = {}
    BY DEF VerifiedRepairIsWhole
<1>1. repair.pc = "done" /\ Fresh /\ repair.left = {}
    BY DEF Undisturbed, Fresh
<1>2. WorkSound(repair.work) /\ repair.output = repair.work
    BY <1>1 DEF RepairInv, WorkFollows
<1>3. Filled(repair.output) = Kept(Listed)
    <2>1. PICK names \in SUBSET DOMAIN repair.work : RowsIn(repair.work, names) = TotalRows(repair.scan)
        BY <1>1 DEF RepairInv, WorkFollows
    <2>2. ListedTyped /\ repair.scan = ListedScan
        BY <1>1, StartedShape, ListedIsTyped, ScanIsOfListed DEF Fresh, RepairInv
    <2>3. RowsIn(repair.work, names) = TotalRows(ListedScan)
        BY <2>1, <2>2
    <2> QED BY <1>2, <2>2, <2>3, RowsFillWork
<1>4. \A m, n \in DOMAIN repair.output :
        m # n => \A b \in repair.output[m].blocks \cap repair.output[n].blocks : b.rows = 0
    BY <1>2 DEF WorkSound
<1>5. repair.auth = {} =>
        \A n \in DOMAIN repair.output : \A b \in repair.output[n].blocks :
            repair.output[n].cols = Listed[b.of].footer.cols /\ repair.output[n].lost = {}
    BY <1>2 DEF WorkSound, Untouched
<1>6. ASSUME verdict # None, verdict.scan = plan.scan, verdict.exit = 0 PROVE repair.skipped = {}
    <2>1. plan # None /\ repair.pc # "idle"
        BY <1>1, StartedShape
    <2>3. PICK key : plan.ops = PlannedFrom(plan.scan, key)
        BY <2>1 DEF RepairInv, PlanIsOfItsTime
    <2>4. PICK other : CheckExit(PlannedFrom(plan.scan, other)) = 0
        BY <1>6 DEF RepairInv, VerdictIsOfItsScan
    <2>5. \A op \in plan.ops : Safety(op) = "safe"
        BY <2>3, <2>4, SafeForOneKey DEF PlannedFrom
    <2> QED BY <2>1, <2>5 DEF RepairInv, OperationsAccounted
<1> QED BY <1>3, <1>4, <1>5, <1>6

(* A local repair that its manifest calls verified, of a dataset that       *)
(* nobody wrote to since its scan and in which every removal succeeded, has *)
(* every row of the files that were scanned once, whatever was merged,      *)
(* split and cast, whichever names clashed and for any dataset; what was    *)
(* not authorised changed no column; and prqnt check had promised no less.  *)
THEOREM VerifiedRepairsAreWhole == Spec => []VerifiedRepairIsWhole
BY RepairInitially, RepairPreserved, WholeFollows, PTL DEF Spec
-----------------------------------------------------------------------------
(* The plan file, its copy and the journal are about the datasets of the    *)
(* configuration.                                                           *)
BatchTyped ==
    /\ checked \in {"no", "ok", "failed"}
    /\ touched \subseteq {"plan", "snapshot"} \X Fields
    /\ planFile # None => DOMAIN planFile = Members
    /\ snapshot # None => DOMAIN snapshot = Members
    /\ journal # None => DOMAIN journal = Members

(* The batch keeps its types, whatever the repair does.                     *)
LEMMA BatchTypesStay == BatchTyped /\ [Next]_vars => BatchTyped'
<1> SUFFICES ASSUME BatchTyped, [Next]_vars PROVE BatchTyped'
    OBVIOUS
<1>1. CASE UNCHANGED batchPlanVars
    BY <1>1 DEF BatchTyped, batchPlanVars, Members
<1>2. CASE BatchPlanStep
    <2>1. CASE BatchCheck
        BY <2>1 DEF BatchCheck, Quiet, BatchTyped, Members
    <2>2. CASE PlanBatch
        BY <2>2 DEF PlanBatch, Quiet, BatchTyped, Members, Mappings
    <2>3. CASE EditPlan
        <3>1. PICK d \in Members, field \in Fields, text \in PlanEdits :
                /\ planFile' = [planFile EXCEPT ![d][field] = text]
                /\ touched' = touched \cup {<<"plan", field>>}
            BY <2>3 DEF EditPlan
        <3>2. DOMAIN planFile' = DOMAIN planFile
            BY <3>1
        <3>3. touched' \subseteq {"plan", "snapshot"} \X Fields
            BY <3>1 DEF BatchTyped
        <3> QED BY <2>3, <3>2, <3>3 DEF EditPlan, Quiet, BatchTyped, Members
    <2>4. CASE EditSnapshot
        <3>1. PICK d \in Members, field \in Fields, text \in PlanEdits :
                /\ snapshot' = [snapshot EXCEPT ![d][field] = text]
                /\ touched' = touched \cup {<<"snapshot", field>>}
            BY <2>4 DEF EditSnapshot
        <3>2. DOMAIN snapshot' = DOMAIN snapshot
            BY <3>1
        <3>3. touched' \subseteq {"plan", "snapshot"} \X Fields
            BY <3>1 DEF BatchTyped
        <3> QED BY <2>4, <3>2, <3>3 DEF EditSnapshot, Quiet, BatchTyped, Members
    <2>5. CASE ExecuteBatch
        BY <2>5 DEF ExecuteBatch, BatchTyped, Members
    <2>6. CASE ResumeBatch
        BY <2>6 DEF ResumeBatch, BatchTyped, Members
    <2> QED BY <1>2, <2>1, <2>2, <2>3, <2>4, <2>5, <2>6 DEF BatchPlanStep
<1> QED BY <1>1, <1>2 DEF Next, vars, batchPlanVars

(* The three invariants give the types.                                     *)
LEMMA TypesFollow == RepairInv /\ BatchTyped /\ UnifyInv => TypeOK
<1> SUFFICES ASSUME RepairInv, BatchTyped, UnifyInv PROVE TypeOK
    OBVIOUS
<1>1. /\ edits \in 0 .. MaxEdits /\ DOMAIN source \subseteq Int
      /\ verdict # None => verdict.exit \in {0, 3, 4, 5}
    BY DEF RepairInv, SourceTyped, VerdictIsOfItsScan
<1>2. repair.pc \in {"idle", "verify source", "seed", "apply", "verify", "publish", "done", "failed"}
    BY StartedShape DEF Running
<1>3. repair.pc # "idle" =>
        /\ repair.todo \cup repair.done \cup repair.skipped = plan.ops
        /\ repair.done \cap repair.skipped = {}
        /\ repair.output # None => repair.todo = {}
    BY DEF RepairInv, OperationsAccounted
<1>4. ASSUME unified # None, NEW schema \in unified
      PROVE  DOMAIN schema = AllColumns /\ Range(schema) \subseteq Kinds
    <2>0. MapIsTyped /\ SchemaIsMap
        BY <1>4 DEF UnifyInv
    <2>1. schema = columnTypes /\ taken = Len(inputs)
        BY <1>4, <2>0 DEF SchemaIsMap
    <2>2. Before(taken) = DOMAIN inputs
        BY <2>0, <2>1, InputsAssumption DEF MapIsTyped, Before
    <2>3. DOMAIN schema = AllColumns
        BY <2>0, <2>1, <2>2, Zenon DEF MapIsTyped, AllColumns
    <2>4. Range(schema) \subseteq Kinds
        BY <2>0, <2>1 DEF MapIsTyped, Range
    <2> QED BY <2>3, <2>4
<1> QED BY <1>1, <1>2, <1>3, <1>4 DEF TypeOK, BatchTyped

(* Types.  In particular the operations of a repair are at every moment     *)
(* those of its plan, each to be run, run or skipped; a run's journal names *)
(* the datasets of the configuration; a schema has the columns of all files. *)
THEOREM PlanningIsTyped == Spec => []TypeOK
<1>1. Init => BatchTyped
    BY DEF Init, BatchPlanInit, BatchTyped
<1>2. Init => UnifyInv
    BY UnifyInitially DEF Init
<1> QED BY <1>1, <1>2, RepairInitially, RepairPreserved, BatchTypesStay, UnifyPreserved, TypesFollow, PTL DEF Spec
-----------------------------------------------------------------------------
(* Nothing is lost where no name clashes.                                   *)
(* No file is about to be written over: the parts of a file appear when it  *)
(* goes, the merged parts when the merge has been run; and every name is    *)
(* one of the dataset or of a part.                                         *)
Room(work, known, todo) ==
    /\ DOMAIN work \subseteq AllNames /\ known \subseteq AllNames
    /\ \A n \in DOMAIN Listed \cap DOMAIN work : SplitParts(n) \cap DOMAIN work = {}
    /\ (\E op \in todo : op.class = "merge") => MergedParts \cap DOMAIN work = {}
Complete(work) == Kept(Listed) \subseteq Content(work, DOMAIN work)

Unclashed == Fresh /\ NamesApart /\ repair.left = {}
NothingLost ==
    Unclashed =>
        /\ repair.pc \in {"apply", "verify", "done"} =>
            Room(repair.work, repair.known, repair.todo) /\ Complete(repair.work)
        /\ repair.pc = "done" /\ Cardinality(DOMAIN repair.output) <= ScanCap => repair.outcome = "verified"

(* Zeros add nothing to a sum.                                              *)
LEMMA SumIgnoresZeros ==
    ASSUME NEW w, NEW S, IsFiniteSet(S), \A x \in S : w[x] \in Nat, NEW T \in SUBSET S, \A x \in S \ T : w[x] = 0
    PROVE  SumFunctionOnSet(w, T) = SumFunctionOnSet(w, S)
<1> DEFINE R == S \ T
           Ks == {k \in Nat : \A U \in SUBSET R : Cardinality(U) <= k => SumFunctionOnSet(w, U) = 0}
<1>0. IsFiniteSet(T) /\ IsFiniteSet(R) /\ \A U \in SUBSET R : IsFiniteSet(U) /\ Cardinality(U) \in Nat
    BY FS_Subset, FS_CardinalityType
<1>z. T \cup R = S /\ T \cap R = {} /\ \A x \in R : w[x] = 0
    OBVIOUS
<1> HIDE DEF R
<1>1. 0 \in Ks
    <2>1. \A U \in SUBSET R : Cardinality(U) <= 0 => U = {}
        BY <1>0, FS_EmptySet
    <2> QED BY <2>1, SumOfNone
<1>2. \A k \in Ks : k + 1 \in Ks
    <2> SUFFICES ASSUME NEW k \in Ks, NEW U \in SUBSET R, Cardinality(U) <= k + 1
                 PROVE  SumFunctionOnSet(w, U) = 0
        OBVIOUS
    <2>1. CASE U # {}
        <3> DEFINE V == U \ {Pick(U)}
        <3>1. Pick(U) \in U /\ SumFunctionOnSet(w, U) = w[Pick(U)] + SumFunctionOnSet(w, V)
            BY <1>0, <2>1, SumStep
        <3>2. V \in SUBSET R /\ Cardinality(V) <= k
            BY <3>1, <1>0, FS_RemoveElement
        <3>3. SumFunctionOnSet(w, V) = 0 /\ w[Pick(U)] = 0
            BY <3>1, <3>2, <1>z
        <3> QED BY <3>1, <3>3
    <2> QED BY <2>1, SumOfNone
<1> HIDE DEF Ks
<1>3. Ks = Nat
    BY <1>1, <1>2, HoldsForAll DEF Ks
<1>4. SumFunctionOnSet(w, R) = 0
    BY <1>0, <1>3 DEF Ks
<1>5. SumFunctionOnSet(w, T \cup R) = SumFunctionOnSet(w, T) + SumFunctionOnSet(w, R)
    BY <1>0, <1>z, SumUnion
<1>6. SumFunctionOnSet(w, T) \in Nat
    BY <1>0, SumIsNat
<1>7. SumFunctionOnSet(w, T \cup R) = SumFunctionOnSet(w, T)
    BY <1>4, <1>5, <1>6
<1> QED BY <1>7, <1>z

(* A complete working set has as many rows as the dataset.                  *)
LEMMA CompleteHasAllRows ==
    ASSUME ListedTyped, NEW work, WorkSound(work), Complete(work)
    PROVE  RowsIn(work, DOMAIN work) = TotalRows(ListedScan)
<1> DEFINE content == Content(work, DOMAIN work)
<1>1. content \in SUBSET SourceBlocks
    BY DEF Content, WorkSound
<1>2. \A b \in SourceBlocks \ content : BlockRows[b] = 0
    <2> TAKE b \in SourceBlocks \ content
    <2>1. b.rows \in Nat /\ BlockRows[b] = b.rows
        BY SourceRows
    <2>2. ~(b.rows > 0)
        BY DEF Complete, Kept, SourceBlocks
    <2> QED BY <2>1, <2>2
<1> HIDE DEF content
<1>3. IsFiniteSet(SourceBlocks) /\ \A b \in SourceBlocks : BlockRows[b] \in Nat
    BY SourceRows
<1>4. SumFunctionOnSet(BlockRows, content) = SumFunctionOnSet(BlockRows, SourceBlocks)
    BY <1>1, <1>2, <1>3, SumIgnoresZeros
<1> QED BY <1>4, RowsOfWork, SourceRows DEF content

(* Complete, file by file.                                                  *)
LEMMA EachBlockHasAFile ==
    ASSUME NEW work
    PROVE  /\ Complete(work) => \A b \in Kept(Listed) : \E n \in DOMAIN work : b \in work[n].blocks
           /\ (\A b \in Kept(Listed) : \E n \in DOMAIN work : b \in work[n].blocks) => Complete(work)
BY DEF Complete, Content

(* Parts with names of their own, outside the scratch directory, take over  *)
(* every block with a row.                                                  *)
Replacement(after, work, known, names, parts, scratch) ==
    /\ Complete(work) /\ names \subseteq DOMAIN work /\ PartsOf(parts, work, names)
    /\ DOMAIN parts \cap (DOMAIN work \ names) = {}
    /\ scratch \cap (DOMAIN work \cup DOMAIN parts) = {}
    /\ after = Replaced(work, known, names, parts, scratch, {})
LEMMA ReplacedLosesNothing ==
    ASSUME NEW after, NEW work, NEW known, NEW names, NEW parts, NEW scratch,
           Replacement(after, work, known, names, parts, scratch)
    PROVE  /\ DOMAIN after.work = (DOMAIN work \ names) \cup DOMAIN parts
           /\ after.known = (known \ names) \cup DOMAIN parts
           /\ Complete(after.work)
<1>0. /\ Complete(work) /\ names \subseteq DOMAIN work /\ PartsOf(parts, work, names)
      /\ DOMAIN parts \cap (DOMAIN work \ names) = {}
      /\ scratch \cap (DOMAIN work \cup DOMAIN parts) = {}
      /\ after = Replaced(work, known, names, parts, scratch, {})
    BY DEF Replacement
<1> DEFINE rest == Without(work, names \ {})
           new == Over(rest, parts)
<1>1. DOMAIN rest = DOMAIN work \ names /\ \A n \in DOMAIN work \ names : rest[n] = work[n]
    BY DEF Without, Restrict
<1>2. /\ DOMAIN new = (DOMAIN work \ names) \cup DOMAIN parts
      /\ \A n \in DOMAIN parts : new[n] = parts[n]
      /\ \A n \in DOMAIN work \ names : new[n] = work[n]
    BY <1>0, <1>1 DEF Over
<1>3. after.work = Without(new, scratch) /\ after.known = (known \ names) \cup DOMAIN parts
    BY <1>0 DEF Replaced, After
<1> HIDE DEF rest, new
<1>4. DOMAIN new \ scratch = DOMAIN new
    BY <1>0, <1>2
<1>5. DOMAIN after.work = DOMAIN new /\ \A n \in DOMAIN new : after.work[n] = new[n]
    BY <1>3, <1>4 DEF Without, Restrict
<1>6. \A b \in Kept(Listed) : \E n \in DOMAIN after.work : b \in after.work[n].blocks
    <2> TAKE b \in Kept(Listed)
    <2>1. PICK n \in DOMAIN work : b \in work[n].blocks
        BY <1>0, EachBlockHasAFile
    <2>2. CASE n \in names
        <3>1. b \in Content(work, names) /\ b.rows > 0
            BY <2>1, <2>2 DEF Content, Kept
        <3>2. PICK k \in DOMAIN parts : b \in parts[k].blocks
            BY <3>1, <1>0 DEF PartsOf
        <3> QED BY <3>2, <1>2, <1>5
    <2>3. CASE n \notin names
        BY <2>1, <2>3, <1>2, <1>5
    <2> QED BY <2>2, <2>3
<1> QED BY <1>2, <1>3, <1>5, <1>6, EachBlockHasAFile

(* No operation that may run writes over a file where no name clashes, and  *)
(* what each leaves has every block with a row.                             *)
LEMMA OperationsLoseNothing ==
    ASSUME ListedTyped, NamesApart, NEW work, NEW known, WorkSound(work), Complete(work),
           NEW todo, Room(work, known, todo), NEW op \in todo, op.class \in DOMAIN Order, MayRun(op),
           \A other \in todo : other.class = "merge" /\ op.class = "merge" => other = op,
           op.class = "split" => \E n \in DOMAIN Listed : op.paths = {n} /\ n \in known,
           NEW after \in ApplyOperation(work, known, op), after.left = {}
    PROVE  Room(after.work, after.known, todo \ {op}) /\ Complete(after.work)
<1>1. op.class \in {"blocked", "cond", "rename", "widen", "split", "rowgroups", "compress", "stats", "merge"}
    BY DEF Order
<1>2. op.class # "blocked"
    BY DEF MayRun, Safety
<1>3. /\ \A n \in DOMAIN Listed \cap DOMAIN work : SplitParts(n) \cap DOMAIN work = {}
      /\ (\E other \in todo : other.class = "merge") => MergedParts \cap DOMAIN work = {}
      /\ DOMAIN work \subseteq AllNames /\ known \subseteq AllNames
    BY DEF Room
<1>m. MergedParts \subseteq AllNames /\ DOMAIN Listed \subseteq AllNames
    BY DEF AllNames
<1>s. \A n \in DOMAIN Listed : SplitParts(n) \subseteq AllNames
    <2> TAKE n \in DOMAIN Listed
    <2>1. SplitParts(n) \subseteq UNION {SplitParts(m) : m \in DOMAIN Listed}
        OBVIOUS
    <2> QED BY <2>1 DEF AllNames
<1>n. /\ MergedParts \subseteq AllNames /\ \A n \in DOMAIN Listed : SplitParts(n) \subseteq AllNames
      /\ DOMAIN Listed \subseteq AllNames
    BY <1>m, <1>s
<1>4. ASSUME DOMAIN after.work = DOMAIN work \ Temps(op.class, known), after.known = known,
             \A n \in DOMAIN after.work : after.work[n].blocks = work[n].blocks
      PROVE  Room(after.work, after.known, todo \ {op}) /\ Complete(after.work)
    <2>1. DOMAIN work \cap Temps(op.class, known) = {}
        BY <1>3 DEF NamesApart, Temps
    <2>2. DOMAIN after.work = DOMAIN work
        BY <1>4, <2>1
    <2>3. \A b \in Kept(Listed) : \E n \in DOMAIN after.work : b \in after.work[n].blocks
        BY <1>4, <2>2, EachBlockHasAFile
    <2> QED BY <1>3, <1>4, <2>2, <2>3, EachBlockHasAFile DEF Room
<1>5. CASE op.class = "merge"
    <2> DEFINE names == op.paths \cap known
    <2>1. after \in Merge(work, known, op)
        BY <1>5 DEF ApplyOperation
    <2>2. CASE after = After(work, known, {})
        <3>1. after.work = work /\ after.known = known
            BY <2>2 DEF After
        <3> QED BY <3>1, <1>3 DEF Room
    <2>3. ASSUME NEW parts \in MergeFiles(work, names), NEW left,
                 after = Replaced(work, known, names, parts, MergeScratch, left)
          PROVE  Room(after.work, after.known, todo \ {op}) /\ Complete(after.work)
        <3>1. left = {}
            BY <2>3 DEF Replaced, After
        <3>2. names \in SUBSET DOMAIN work /\ PartsOf(parts, work, names) /\ DOMAIN parts \subseteq MergedParts
            BY MergeMakesParts
        <3>3. MergedParts \cap DOMAIN work = {}
            BY <1>3, <1>5
        <3>4. MergeScratch \cap (DOMAIN work \cup DOMAIN parts) = {}
            BY <3>2, <1>3, <1>n DEF NamesApart
        <3> HIDE DEF names
        <3>a. DOMAIN parts \cap (DOMAIN work \ names) = {}
            BY <3>2, <3>3
        <3>b. after = Replaced(work, known, names, parts, MergeScratch, {})
            BY <2>3, <3>1
        <3>5. /\ DOMAIN after.work = (DOMAIN work \ names) \cup DOMAIN parts
              /\ after.known = (known \ names) \cup DOMAIN parts
              /\ Complete(after.work)
            <4>1. Replacement(after, work, known, names, parts, MergeScratch)
                BY <3>2, <3>4, <3>a, <3>b DEF Replacement
            <4> QED BY <4>1, ReplacedLosesNothing
        <3>6. ~ \E other \in todo \ {op} : other.class = "merge"
            BY <1>5
        <3>7. \A n \in DOMAIN Listed \cap DOMAIN after.work : SplitParts(n) \cap DOMAIN after.work = {}
            BY <3>2, <3>5, <1>3 DEF NamesApart
        <3> QED BY <3>2, <3>5, <3>6, <3>7, <1>3, <1>n DEF Room
    <2> QED BY <2>1, <2>2, <2>3 DEF Merge
<1>6. CASE op.class = "split"
    <2>1. after \in Split(work, known, op)
        BY <1>6 DEF ApplyOperation
    <2>2. PICK name \in DOMAIN Listed : op.paths = {name} /\ name \in known
        BY <1>6
    <2>3. Min(op.paths) = name
        BY <2>2, SmallestExists DEF ListedTyped
    <2>4. op.paths \cap known = {name}
        BY <2>2
    <2>5. PICK parts, left :
            /\ parts \in SplitFile(work[name], name)
            /\ after = Replaced(work, known, {name}, parts, SplitScratch, left)
            /\ name \in DOMAIN work
        BY <2>1, <2>2, <2>3, <2>4 DEF Split
    <2>6. left = {}
        BY <2>5 DEF Replaced, After
    <2>7. PartsOf(parts, work, {name}) /\ DOMAIN parts \subseteq SplitParts(name)
        BY <2>5, SplitMakesParts
    <2>8. /\ SplitParts(name) \cap DOMAIN work = {}
          /\ SplitScratch \cap (DOMAIN work \cup DOMAIN parts) = {}
        BY <2>5, <2>7, <1>3, <1>n DEF NamesApart
    <2>a. {name} \in SUBSET DOMAIN work /\ DOMAIN parts \cap (DOMAIN work \ {name}) = {}
        BY <2>5, <2>7, <2>8
    <2>b. after = Replaced(work, known, {name}, parts, SplitScratch, {})
        BY <2>5, <2>6
    <2>9. /\ DOMAIN after.work = (DOMAIN work \ {name}) \cup DOMAIN parts
          /\ after.known = (known \ {name}) \cup DOMAIN parts
          /\ Complete(after.work)
        <3>1. Replacement(after, work, known, {name}, parts, SplitScratch)
            BY <2>7, <2>8, <2>a, <2>b DEF Replacement
        <3> QED BY <3>1, ReplacedLosesNothing
    <2>10. (\E other \in todo \ {op} : other.class = "merge") => MergedParts \cap DOMAIN after.work = {}
        BY <2>7, <2>9, <1>3 DEF NamesApart
    <2>11. \A n \in DOMAIN Listed \cap DOMAIN after.work : SplitParts(n) \cap DOMAIN after.work = {}
        <3> TAKE n \in DOMAIN Listed \cap DOMAIN after.work
        <3>1. n \in DOMAIN work /\ n # name
            BY <2>7, <2>9 DEF NamesApart
        <3>2. SplitParts(n) \cap SplitParts(name) = {} /\ SplitParts(n) \cap DOMAIN work = {}
            BY <3>1, <1>3 DEF NamesApart
        <3> QED BY <3>2, <2>7, <2>9
    <2> QED BY <2>7, <2>9, <2>10, <2>11, <1>3, <1>n DEF Room
<1>7. CASE op.class \in {"rowgroups", "compress", "stats"}
    <2> DEFINE gone == Temps(op.class, op.paths \cap known)
    <2>1. after \in Rewrite(work, known, op)
        BY <1>7 DEF ApplyOperation
    <2>2. after.work = Without(work, gone) /\ after.known = known
        BY <2>1 DEF Rewrite, After
    <2>3. DOMAIN work \cap gone = {}
        BY <1>3 DEF NamesApart, Temps
    <2> HIDE DEF gone
    <2>4. DOMAIN work \ gone = DOMAIN work
        BY <2>3
    <2>5. DOMAIN after.work = DOMAIN work /\ \A n \in DOMAIN work : after.work[n] = work[n]
        BY <2>2, <2>4 DEF Without, Restrict
    <2>6. \A b \in Kept(Listed) : \E n \in DOMAIN after.work : b \in after.work[n].blocks
        BY <2>5, EachBlockHasAFile
    <2> QED BY <1>3, <2>2, <2>5, <2>6, EachBlockHasAFile DEF Room
<1>8. CASE op.class \in {"cond", "rename", "widen"}
    <2>1. after \in Cast(work, known, op) \cup Rename(work, known, op)
        BY <1>8 DEF ApplyOperation
    <2>2. /\ after.known = known /\ DOMAIN after.work = DOMAIN work \ Temps(op.class, known)
          /\ \A n \in DOMAIN after.work : after.work[n].blocks = work[n].blocks
        BY <2>1, ColumnsKeepBlocks DEF WorkSound
    <2> QED BY <2>2, <1>4
<1> QED BY <1>1, <1>2, <1>5, <1>6, <1>7, <1>8

(* What the dataset and the working set determine stays as they do.         *)
LEMMA KeepStays ==
    ASSUME source' = source, repair'.scan = repair.scan,
           Room(repair'.work, repair'.known, repair'.todo), Complete(repair'.work)
    PROVE  Room(repair.work, repair.known, repair.todo)' /\ Complete(repair.work)'
<1>1. Listed' = Listed
    BY ListedStays
<1> QED BY <1>1 DEF Room, Complete, Kept, BlocksOf, Content, AllNames

(* Whether names clash depends on the dataset and its scan alone.           *)
LEMMA NamesStay ==
    ASSUME source' = source, repair'.scan = repair.scan
    PROVE  NamesApart' = NamesApart
<1>1. Listed' = Listed
    BY ListedStays
<1> QED BY <1>1 DEF NamesApart, AllNames

(* A step of the repair itself, of a dataset as it was scanned.             *)
LosesNothing ==
    /\ repair'.pc \in {"apply", "verify", "done"} =>
        Room(repair'.work, repair'.known, repair'.todo) /\ Complete(repair'.work)
    /\ repair'.pc = "done" /\ Cardinality(DOMAIN repair'.output) <= ScanCap => repair'.outcome = "verified"

(* It is enough that the step loses nothing while the dataset is as it was  *)
(* scanned.                                                                 *)
LEMMA OwnStepKeeps ==
    ASSUME NothingLost, RepairsOwn, repair.pc # "idle", repair'.at = repair.at, repair'.scan = repair.scan,
           repair'.left = {} => repair.left = {},
           Unclashed /\ repair'.left = {} => LosesNothing
    PROVE  NothingLost'
<1>2. ASSUME Unclashed'
      PROVE  /\ repair'.pc \in {"apply", "verify", "done"} =>
                    Room(repair.work, repair.known, repair.todo)' /\ Complete(repair.work)'
             /\ repair'.pc = "done" /\ Cardinality(DOMAIN repair'.output) <= ScanCap =>
                    repair'.outcome = "verified"
    <2>1. Unclashed /\ repair'.left = {}
        BY <1>2, NamesStay DEF Unclashed, Fresh, RepairsOwn
    <2>2. LosesNothing
        BY <2>1
    <2> QED BY <2>2, KeepStays DEF LosesNothing, RepairsOwn
<1> QED BY <1>2 DEF NothingLost

(* Before the operations there is nothing to show.                          *)
LEMMA EarlyLosesNothing ==
    ASSUME RepairInv, NothingLost, VerifySource \/ Seed
    PROVE  NothingLost'
<1>0. RepairsOwn /\ repair.pc \in {"verify source", "seed"}
    BY DEF VerifySource, Seed, RepairsOwn
<1>1. /\ repair'.at = repair.at /\ repair'.scan = repair.scan /\ repair'.left = repair.left
      /\ repair'.pc \in {"seed", "failed"}
    BY <1>0, StartedShape DEF VerifySource, Seed, Fails
<1> QED BY <1>0, <1>1, OwnStepKeeps DEF LosesNothing

(* The copy of the whole dataset has every row.                             *)
LEMMA SeededLosesNothing ==
    ASSUME RepairInv, NothingLost, Seeded
    PROVE  NothingLost'
<1>0. RepairsOwn /\ repair.pc = "seed" /\ repair.toSeed = {}
    BY DEF Seeded, RepairsOwn
<1>1. /\ repair'.at = repair.at /\ repair'.scan = repair.scan /\ repair'.left = repair.left
      /\ repair'.work = repair.work /\ repair'.known = repair.known
      /\ repair'.todo = repair.todo /\ repair'.pc \in {"apply", "failed"}
    BY <1>0, StartedShape DEF Seeded, Fails
<1>2. ASSUME Fresh, NamesApart PROVE Room(repair.work, repair.known, repair.todo) /\ Complete(repair.work)
    <2>1. Seeding
        BY <1>0, <1>2 DEF RepairInv, WorkFollows
    <2>2. DOMAIN repair.work = DOMAIN Listed /\ repair.known = DOMAIN Listed
        BY <1>0, <2>1 DEF Seeding
    <2>3. Room(repair.work, repair.known, repair.todo)
        BY <1>2, <2>2 DEF Room, NamesApart, AllNames
    <2>4. ASSUME NEW n \in DOMAIN Listed PROVE repair.work[n].blocks = BlocksOf(Listed, n)
        <3>1. repair.work[n] = [blocks |-> BlocksOf(Listed, n), cols |-> Listed[n].footer.cols, lost |-> {}]
            BY <2>1, <2>2, Zenon DEF Seeding
        <3> QED BY <3>1
    <2>5. \A b \in Kept(Listed) : \E n \in DOMAIN repair.work : b \in repair.work[n].blocks
        BY <2>2, <2>4 DEF Kept
    <2> QED BY <2>3, <2>5, EachBlockHasAFile
<1> QED BY <1>0, <1>1, <1>2, OwnStepKeeps DEF LosesNothing, Unclashed

(* An operation of the plan that is run or skipped loses nothing.           *)
LEMMA RunLosesNothing ==
    ASSUME RepairInv, NothingLost, RunOperation
    PROVE  NothingLost'
<1>0. RepairsOwn /\ repair.pc = "apply"
    BY DEF RunOperation, RepairsOwn
<1>1. PICK op \in Runnable(repair.todo) :
        \/ /\ ~MayRun(op)
           /\ repair' = [repair EXCEPT !.todo = @ \ {op}, !.skipped = @ \cup {op}]
        \/ /\ MayRun(op)
           /\ \E after \in ApplyOperation(repair.work, repair.known, op) :
                repair' = [repair EXCEPT !.todo = @ \ {op}, !.done = @ \cup {op}, !.work = after.work,
                                         !.known = after.known, !.left = @ \cup after.left]
        \/ Fails
    BY DEF RunOperation
<1>2. /\ plan # None /\ repair.todo \subseteq plan.ops /\ op \in repair.todo
      /\ op.class \in DOMAIN Order /\ PlanShape(plan.scan, plan.ops)
    BY <1>0, StartedShape DEF Runnable, RepairInv, OperationsAccounted, PlanIsOfItsTime, PlanShape
<1>3. CASE Fails
    <2>1. /\ repair'.pc = "failed" /\ repair'.at = repair.at /\ repair'.scan = repair.scan
          /\ repair'.left = repair.left
        BY <1>0, <1>3, StartedShape DEF Fails
    <2> QED BY <1>0, <2>1, OwnStepKeeps DEF LosesNothing
<1>5. ASSUME Unclashed
      PROVE  /\ WorkSound(repair.work) /\ Room(repair.work, repair.known, repair.todo) /\ Complete(repair.work)
             /\ SplitsKnown(repair.todo, repair.known) /\ DOMAIN plan.fingerprint = DOMAIN repair.scan
    BY <1>0, <1>5 DEF RepairInv, WorkFollows, NothingLost, Unclashed
<1>6. CASE ~MayRun(op) /\ repair' = [repair EXCEPT !.todo = @ \ {op}, !.skipped = @ \cup {op}]
    <2>1. /\ repair'.pc = "apply" /\ repair'.at = repair.at /\ repair'.scan = repair.scan
          /\ repair'.left = repair.left /\ repair'.work = repair.work /\ repair'.known = repair.known
          /\ repair'.todo = repair.todo \ {op}
        BY <1>0, <1>6, StartedShape
    <2>2. Unclashed => Room(repair.work, repair.known, repair.todo \ {op}) /\ Complete(repair.work)
        BY <1>5 DEF Room
    <2> QED BY <1>0, <2>1, <2>2, OwnStepKeeps DEF LosesNothing
<1>7. ASSUME MayRun(op), NEW after \in ApplyOperation(repair.work, repair.known, op),
             repair' = [repair EXCEPT !.todo = @ \ {op}, !.done = @ \cup {op}, !.work = after.work,
                                      !.known = after.known, !.left = @ \cup after.left]
      PROVE  NothingLost'
    <2>1. /\ repair'.pc = "apply" /\ repair'.at = repair.at /\ repair'.scan = repair.scan
          /\ repair'.left = repair.left \cup after.left
          /\ repair'.work = after.work /\ repair'.known = after.known /\ repair'.todo = repair.todo \ {op}
        BY <1>0, <1>7, StartedShape
    <2>2. \A other \in repair.todo : other.class = "merge" /\ op.class = "merge" => other = op
        BY <1>2 DEF PlanShape
    <2>3. ASSUME Unclashed, after.left = {}
          PROVE  Room(after.work, after.known, repair.todo \ {op}) /\ Complete(after.work)
        <3>1. ListedTyped /\ repair.scan \in Scans(source) /\ NamesApart
            BY <2>3, StartedShape, ListedIsTyped DEF Unclashed, Fresh, RepairInv
        <3>2. DOMAIN Listed = DOMAIN plan.scan
            <4>1. plan.fingerprint = Fingerprint(plan.scan) /\ DOMAIN plan.fingerprint = DOMAIN repair.scan
                BY <1>2, <1>5, <2>3 DEF RepairInv, PlanIsOfItsTime
            <4> QED BY <3>1, <4>1, ScanIsOfListed DEF Fingerprint
        <3>3. op.class = "split" => \E n \in DOMAIN Listed : op.paths = {n} /\ n \in repair.known
            BY <1>2, <1>5, <2>3, <3>2 DEF PlanShape, SplitsKnown
        <3> QED BY <1>2, <1>5, <1>7, <2>2, <2>3, <3>1, <3>3, OperationsLoseNothing
    <2> QED BY <1>0, <2>1, <2>3, OwnStepKeeps DEF LosesNothing
<1> QED BY <1>1, <1>3, <1>6, <1>7

(* Copying the working set out leaves it as it is.                          *)
LEMMA CopyOutLosesNothing ==
    ASSUME RepairInv, NothingLost, CopyOut
    PROVE  NothingLost'
<1>0. RepairsOwn /\ repair.pc = IF remote THEN "publish" ELSE "apply"
    BY DEF CopyOut, RepairsOwn
<1>1. /\ repair'.at = repair.at /\ repair'.scan = repair.scan /\ repair'.left = repair.left
      /\ repair'.work = repair.work /\ repair'.known = repair.known /\ repair'.todo = repair.todo
      /\ ~remote => repair'.pc = "verify"
    BY <1>0, StartedShape DEF CopyOut
<1> QED BY <1>0, <1>1, OwnStepKeeps DEF LosesNothing, NothingLost, Unclashed, Fresh

(* The verification of a complete working set finds every row, if its scan  *)
(* lists every file.                                                        *)
LEMMA VerifyLosesNothing ==
    ASSUME RepairInv, NothingLost, Verify
    PROVE  NothingLost'
<1>0. RepairsOwn /\ repair.pc = IF remote THEN "apply" ELSE "verify"
    BY DEF Verify, RepairsOwn
<1>1. CASE Fails
    <2>1. /\ repair'.pc = "failed" /\ repair'.at = repair.at /\ repair'.scan = repair.scan
          /\ repair'.left = repair.left
        BY <1>0, <1>1, StartedShape DEF Fails
    <2> QED BY <1>0, <2>1, OwnStepKeeps DEF LosesNothing
<1>2. ASSUME NEW names \in Listings(DOMAIN repair.work),
             repair' = [repair EXCEPT !.pc = IF remote THEN "publish" ELSE "done",
                                      !.outcome = IF RowCountKept(names) THEN "verified" ELSE "failed"]
      PROVE  NothingLost'
    <2>1. /\ repair'.at = repair.at /\ repair'.scan = repair.scan /\ repair'.left = repair.left
          /\ repair'.work = repair.work /\ repair'.known = repair.known /\ repair'.todo = repair.todo
          /\ repair'.output = repair.output
          /\ ~remote => repair'.pc = "done" /\ (RowCountKept(names) => repair'.outcome = "verified")
        BY <1>0, <1>2, StartedShape
    <2>2. ASSUME Unclashed, Cardinality(DOMAIN repair.output) <= ScanCap PROVE RowCountKept(names)
        <3>1. ~remote /\ Fresh /\ repair.left = {} /\ repair.pc = "verify"
            BY <1>0, <2>2 DEF Unclashed, Fresh
        <3>2. WorkSound(repair.work) /\ Complete(repair.work) /\ repair.output = repair.work
            BY <2>2, <3>1 DEF RepairInv, WorkFollows, NothingLost
        <3>3. names = DOMAIN repair.work
            BY <2>2, <3>1, <3>2 DEF Listings
        <3>4. ListedTyped /\ repair.scan = ListedScan
            BY <3>1, StartedShape, ListedIsTyped, ScanIsOfListed DEF Fresh, RepairInv
        <3>5. RowsIn(repair.work, DOMAIN repair.work) = TotalRows(ListedScan)
            BY <3>2, <3>4, CompleteHasAllRows
        <3>6. TotalRows(Inspect(repair.scan)) = TotalRows(repair.scan)
            BY <3>1, InspectedRows
        <3> QED BY <3>2, <3>3, <3>4, <3>5, <3>6 DEF RowCountKept
    <2> QED BY <1>0, <2>1, <2>2, OwnStepKeeps DEF LosesNothing, NothingLost, Unclashed, Fresh
<1> QED BY <1>1, <1>2 DEF Verify

(* Every other step leaves the repair alone, or is the write of another     *)
(* program, after which the dataset is no longer as it was scanned.         *)
LEMMA KeepPreserved == RepairInv /\ NothingLost /\ [Next]_vars => NothingLost'
<1> SUFFICES ASSUME RepairInv, NothingLost, [Next]_vars PROVE NothingLost'
    OBVIOUS
<1>1. CASE UNCHANGED repairVars
    <2>1. UNCHANGED <<remote, source, edits, plan, repair>>
        BY <1>1 DEF repairVars
    <2>2. Room(repair.work, repair.known, repair.todo) /\ Complete(repair.work) =>
            Room(repair.work, repair.known, repair.todo)' /\ Complete(repair.work)'
        BY <2>1, KeepStays
    <2>3. NamesApart' = NamesApart /\ Fresh' = Fresh
        BY <2>1, NamesStay DEF Fresh
    <2> QED BY <2>1, <2>2, <2>3 DEF NothingLost, Unclashed
<1>2. CASE EditSource
    <2>1. repair' = repair /\ edits' = edits + 1
        BY <1>2 DEF EditSource
    <2>2. ASSUME repair.pc # "idle" PROVE repair.at # edits + 1
        <3>1. repair.at \in 0 .. edits /\ edits \in Nat
            BY <2>2, StartedShape DEF RepairInv, SourceTyped
        <3> QED BY <3>1
    <2>3. ~Fresh'
        BY <2>1, <2>2 DEF Fresh
    <2> QED BY <2>3 DEF NothingLost, Unclashed
<1>3. CASE GeneratePlan \/ Check
    <2>1. repair = Idle /\ repair' = repair
        BY <1>3 DEF GeneratePlan, Check, RepairInv, RepairTyped
    <2> QED BY <2>1 DEF NothingLost, Unclashed, Fresh, Idle
<1>5. CASE StartRepair
    <2>1. PICK scan, at, authorized : repair' = Starting(scan, at, authorized)
        BY <1>5 DEF StartRepair
    <2>2. repair'.pc = "verify source"
        BY <2>1 DEF Starting
    <2> QED BY <2>2 DEF NothingLost
<1>6. CASE BreakDown
    <2>1. RepairsOwn /\ repair.pc # "idle" /\ Fails
        BY <1>6 DEF BreakDown, RepairsOwn
    <2>2. /\ repair'.pc = "failed" /\ repair'.at = repair.at /\ repair'.scan = repair.scan
          /\ repair'.left = repair.left
        BY <2>1, StartedShape DEF Fails
    <2> QED BY <2>1, <2>2, OwnStepKeeps DEF LosesNothing
<1> QED BY <1>1, <1>2, <1>3, <1>5, <1>6, EarlyLosesNothing, SeededLosesNothing,
        RunLosesNothing, CopyOutLosesNothing, VerifyLosesNothing DEF Next, vars, repairVars, RepairStep

(* A local repair that gets to its end, of a dataset that nobody writes to  *)
(* and with no removal that failed, is verified, unless the dataset uses a  *)
(* name that the executor takes for its own or the output has more files    *)
(* than a scan lists: for any dataset and any policy, however the parts are *)
(* cut.                                                                     *)
THEOREM RowsAreLostOnlyByClashes == Spec => []RowsLostOnlyByClash
<1>1. Init => NothingLost
    BY DEF Init, RepairInit, NothingLost, Unclashed, Fresh, Idle
<1>2. NothingLost => RowsLostOnlyByClash
    BY DEF NothingLost, Unclashed, RowsLostOnlyByClash, Undisturbed, Fresh
<1> QED BY <1>1, <1>2, RepairInitially, RepairPreserved, KeepPreserved, PTL DEF Spec

(* Both: for every dataset, policy and authorisation, what verify_repair    *)
(* lets the manifest say of the files that were scanned is right.           *)
THEOREM ManifestsAreRight == Spec => []ManifestIsRight
BY VerifiedRepairsAreWhole, RowsAreLostOnlyByClashes, PTL DEF ManifestIsRight
=============================================================================
