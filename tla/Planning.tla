------------------------------ MODULE Planning ------------------------------
(***************************************************************************)
(* What is decided before data is written: the plan of a repair and its    *)
(* execution on one dataset, the locations of a batch, the schema of a     *)
(* conversion.  A behaviour exercises one of them; they share no state.    *)
(***************************************************************************)
EXTENDS RepairExecution, BatchPlanning, SchemaUnify

vars == <<area, repairVars, batchPlanVars, unifyVars>>

Init ==
    /\ area \in Areas
    /\ RepairInit
    /\ BatchPlanInit
    /\ UnifyInit

Next ==
    /\ UNCHANGED area
    /\ \/ area = "repair" /\ RepairStep /\ UNCHANGED <<batchPlanVars, unifyVars>>
       \/ area = "batch" /\ BatchPlanStep /\ UNCHANGED <<repairVars, unifyVars>>
       \/ area = "schema" /\ UnifyStep /\ UNCHANGED <<repairVars, batchPlanVars>>

Spec == Init /\ [][Next]_vars
-----------------------------------------------------------------------------
(* Types.  A repair's operations are those of its plan, each in one state;  *)
(* nothing is written to the output before all have been dealt with; a      *)
(* schema has exactly the columns of the files.                             *)
TypeOK ==
    /\ edits \in 0 .. MaxEdits
    /\ DOMAIN source \subseteq Int
    /\ verdict # None => verdict.exit \in {0, 3, 4, 5}
    /\ repair.pc \in {"idle", "verify source", "seed", "apply", "verify", "publish", "done", "failed"}
    /\ repair.pc # "idle" =>
        /\ repair.todo \cup repair.done \cup repair.skipped = plan.ops
        /\ repair.done \cap repair.skipped = {}
        /\ repair.output # None => repair.todo = {}
    /\ checked \in {"no", "ok", "failed"}
    /\ touched \subseteq {"plan", "snapshot"} \X Fields
    /\ journal # None => DOMAIN journal = Members
    /\ unified # None => \A schema \in unified :
        DOMAIN schema = AllColumns /\ Range(schema) \subseteq Kinds
=============================================================================
