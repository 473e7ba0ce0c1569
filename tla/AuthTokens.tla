----------------------------- MODULE AuthTokens -----------------------------
(***************************************************************************)
(* Bearer tokens: the auth_tokens table, auth_middleware, and the admin    *)
(* handlers that create, rotate and disable tokens, as the statements and  *)
(* transactions concurrent requests interleave by.                         *)
(*                                                                         *)
(* A secret is the number of the row it was minted for; Env is the secret  *)
(* of PRQNT_BOOTSTRAP_ADMIN_TOKEN.                                         *)
(***************************************************************************)
EXTENDS Listings

CONSTANTS MaxTokens,   \* rows ever inserted
          Clients,     \* concurrent requests
          MaxStarts,   \* server starts
          Backends     \* "sqlite", "postgres"

ASSUME TokensAssumption == MaxTokens \in Nat \ {0} /\ MaxStarts \in Nat \ {0} /\ None \notin Nat

VARIABLES backend,   \* StoreBackend
          row,       \* row id -> auth_tokens row, None: absent or deleted
          minted,    \* rows inserted so far
          call,      \* request in progress of each client
          starts,    \* server starts so far
          parent,    \* row id -> the row it was rotated from (a fact about the past)
          killed     \* rows that were disabled while they were in use

tokenVars == <<backend, row, minted, call, starts, parent, killed>>

Ids == 1 .. MaxTokens
Env == 0
RoleRank == [reader |-> 1, operator |-> 2, admin |-> 3]
Roles == DOMAIN RoleRank
Satisfies(role, required) == RoleRank[role] >= RoleRank[required]

Requests == [is : {"read", "submit", "create"}, id : {None}] \cup [is : {"rotate", "disable"}, id : Ids]

(* required_role: the admin routes, then every POST. *)
AdminIf(op, routes) ==
    IF op.is \in routes THEN "admin" ELSE IF op.is = "read" THEN "reader" ELSE "operator"

\* Mutant: disabling a token is not among the admin routes.
DisableIsAPost(op) == AdminIf(op, {"create", "rotate"})

RequiredRole(op) == AdminIf(op, {"create", "rotate", "disable"})

Idle == [pc |-> "idle", op |-> None, role |-> None, stale |-> FALSE]

TokenRow(secret, label, role) ==
    [secret |-> secret, label |-> label, role |-> role, disabled |-> FALSE, replacedBy |-> None]

Bootstrap == TokenRow(Env, "bootstrap", "admin")

(* The server has started once, with the bootstrap secret in its            *)
(* environment.                                                             *)
TokensInit ==
    /\ backend \in Choose1("tokens", Backends)
    /\ minted = 1
    /\ row = [i \in Ids |-> IF i = 1 THEN Bootstrap ELSE None]
    /\ call = [c \in Clients |-> Idle]
    /\ starts = 1
    /\ parent = [i \in Ids |-> None]
    /\ killed = {}
-----------------------------------------------------------------------------
At(c, pc) == call[c].pc = pc

(* A committed write makes every open read snapshot of SQLite stale. *)
Committed(c, then) ==
    call' = [d \in Clients |-> IF d = c THEN then
                               ELSE IF At(d, "rotate write") THEN [call[d] EXCEPT !.stale = TRUE]
                               ELSE call[d]]

Continue(c, then) == call' = [call EXCEPT ![c] = then]
Respond(c) == Continue(c, Idle)

Secrets == Ids \cup {Env}

(* verify_bearer_token: SELECT by hash where disabled_at IS NULL. *)
Live(i) == row[i] # None /\ ~row[i].disabled
Holders(secret) == {i \in Ids : Live(i) /\ row[i].secret = secret}

(* auth_middleware: a request with a secret nobody holds ends in a 401.     *)
Lookup(c) ==
    /\ At(c, "idle")
    /\ \E op \in Requests, i \in Ids :
         /\ \E s \in Secrets : i \in Holders(s)
         /\ Continue(c, [pc |-> "touch", op |-> op, role |-> row[i].role, stale |-> FALSE])
    /\ UNCHANGED <<row, minted, starts, parent, killed>>

(* UPDATE last_used_at, then the role check.  A failed update is a 500. *)
Handler(c) ==
    CASE call[c].op.is \in {"read", "submit"} -> Idle
      [] call[c].op.is = "rotate" -> [call[c] EXCEPT !.pc = "rotate read"]
      [] OTHER -> [call[c] EXCEPT !.pc = call[c].op.is]

Touch(c) ==
    /\ At(c, "touch")
    /\ \/ Respond(c)
       \/ Committed(c, IF Satisfies(call[c].role, RequiredRole(call[c].op))
                       THEN Handler(c) ELSE Idle)
    /\ UNCHANGED <<row, minted, starts, parent, killed>>

(* create_auth_token *)
Create(c) ==
    /\ At(c, "create") /\ minted < MaxTokens
    /\ \E r \in Roles, l \in {"bootstrap", "team"} :
         row' = [row EXCEPT ![minted + 1] = TokenRow(minted + 1, l, r)]
    /\ minted' = minted + 1
    /\ Committed(c, Idle)
    /\ UNCHANGED <<starts, parent, killed>>

(* rotate_auth_token begins a transaction with a SELECT of the live row... *)
RotateRead(c) ==
    /\ At(c, "rotate read")
    /\ IF Live(call[c].op.id) THEN Continue(c, [call[c] EXCEPT !.pc = "rotate write"])
       ELSE Respond(c)
    /\ UNCHANGED <<row, minted, starts, parent, killed>>

(* ...and goes on to INSERT and UPDATE, both without looking again.  In WAL *)
(* mode SQLite refuses to write in a transaction whose snapshot is stale;   *)
(* Postgres, READ COMMITTED, does not.                                      *)
\* Mutant: the SELECT is not part of the transaction.
NoSnapshot(c) == TRUE

MayWrite(c) == backend = "sqlite" => ~call[c].stale

RotateWrite(c) ==
    LET old == call[c].op.id
        new == minted + 1
    IN  /\ At(c, "rotate write") /\ minted < MaxTokens
        /\ MayWrite(c)
        /\ row' = [row EXCEPT ![new] = TokenRow(new, row[old].label, row[old].role),
                              ![old].disabled = TRUE, ![old].replacedBy = new]
        /\ minted' = new
        /\ parent' = [parent EXCEPT ![new] = old]
        /\ Committed(c, Idle)
        /\ UNCHANGED <<starts, killed>>

RotateFails(c) ==
    /\ At(c, "rotate write") /\ ~MayWrite(c)
    /\ Respond(c)
    /\ UNCHANGED <<row, minted, starts, parent, killed>>

(* disable_auth_token: UPDATE by id; no such row is a 404. *)
Disable(c) ==
    LET i == call[c].op.id
    IN  /\ At(c, "disable")
        /\ IF row[i] = None THEN Respond(c) /\ UNCHANGED <<row, killed>>
           ELSE /\ row' = [row EXCEPT ![i].disabled = TRUE]
                /\ killed' = IF Live(i) THEN killed \cup {i} ELSE killed
                /\ Committed(c, Idle)
        /\ UNCHANGED <<minted, starts, parent>>

(* The 300 s timeout layer may drop the request at any of its awaits; an    *)
(* open transaction rolls back.                                            *)
Timeout(c) ==
    /\ ~At(c, "idle")
    /\ Respond(c)
    /\ UNCHANGED <<row, minted, starts, parent, killed>>

(* prqnt serve: bootstrap_auth_from_env deletes every row labelled          *)
(* "bootstrap", however it came to be, and inserts the secret of the        *)
(* environment.                                                             *)
Restart ==
    /\ starts < MaxStarts /\ minted < MaxTokens
    /\ starts' = starts + 1
    /\ row' = [i \in Ids |-> IF i = minted + 1 THEN Bootstrap
                             ELSE IF row[i] # None /\ row[i].label = "bootstrap" THEN None
                             ELSE row[i]]
    /\ minted' = minted + 1
    /\ call' = [c \in Clients |-> Idle]
    /\ UNCHANGED <<parent, killed>>

TokenStep ==
    /\ \/ \E c \in Clients : \/ Lookup(c) \/ Touch(c) \/ Create(c) \/ RotateRead(c)
                             \/ RotateWrite(c) \/ RotateFails(c) \/ Disable(c) \/ Timeout(c)
       \/ Restart
    /\ UNCHANGED backend
-----------------------------------------------------------------------------
\* On SQLite a token has one holder at a time: concurrent rotations of a row
\* mint one successor, and a row that was disabled while in use never gets one.
\* (On Postgres both fail: the rotation does not look at the row again.)
OneHolderPerToken ==
    backend = "sqlite" =>
        \A i \in Ids : LET successors == {k \in Ids : parent[k] = i}
                       IN  Cardinality(successors) <= (IF i \in killed THEN 0 ELSE 1)
=============================================================================
