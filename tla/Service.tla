------------------------------ MODULE Service -------------------------------
(***************************************************************************)
(* The HTTP service: scans that are stored as runs, paged lists, bearer    *)
(* tokens.  A behaviour exercises one of them; they share the database but *)
(* no rows.                                                                *)
(***************************************************************************)
EXTENDS AuthTokens

vars == <<area, tree, edits, scanVars, runVars, listingVars, tokenVars>>

Init ==
    /\ area \in Areas
    /\ ScanRunsInit
    /\ ListingsInit
    /\ TokensInit

Next ==
    /\ UNCHANGED area
    /\ \/ area = "scan" /\ ScanStep /\ UNCHANGED <<listingVars, tokenVars>>
       \/ area = "lists" /\ ListingStep /\ UNCHANGED <<tree, edits, scanVars, runVars, tokenVars>>
       \/ area = "tokens" /\ TokenStep /\ UNCHANGED <<tree, edits, scanVars, runVars, listingVars>>

Spec == Init /\ [][Next]_vars
-----------------------------------------------------------------------------
(* Types.                                                                   *)
TypeOK ==
    /\ tree \in [Files -> Contents \cup {None}]
    /\ scanNo \in 0 .. MaxScans /\ Len(runs) <= scanNo
    /\ plan = None \/ DOMAIN record \subseteq plan.assets
    /\ DOMAIN seen \subseteq DOMAIN record
    /\ status \in [Keys -> Labels \cup {None}]
    /\ walk.got \in Seq(Keys)
    /\ minted \in Ids /\ starts \in 1 .. MaxStarts
    /\ \A i \in Ids : i > minted => row[i] = None
    /\ \A c \in Clients : call[c].pc \notin {"idle", "touch"} => call[c].role = "admin"
=============================================================================
