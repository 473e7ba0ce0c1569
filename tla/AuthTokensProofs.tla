-------------------------- MODULE AuthTokensProofs --------------------------
(***************************************************************************)
(* Proofs about the tokens of the Service, for every number of rows, of    *)
(* concurrent requests and of server starts.                               *)
(***************************************************************************)
EXTENDS Service, FiniteSetTheorems, TLAPS

TokenRows == [secret : Secrets, label : {"bootstrap", "team"}, role : Roles,
              disabled : BOOLEAN, replacedBy : Ids \cup {None}]
Calls == [pc : {"idle", "touch", "create", "rotate read", "rotate write", "disable"},
          op : Requests \cup {None}, role : Roles \cup {None}, stale : BOOLEAN]

TokenTypes ==
  /\ row \in [Ids -> TokenRows \cup {None}]
  /\ minted \in Ids
  /\ call \in [Clients -> Calls]
  /\ parent \in [Ids -> Ids \cup {None}]
  /\ killed \subseteq Ids
  /\ starts \in Nat

\* A request in progress knows what it asks for, and past the middleware it has
\* the role that the request needs.
Authorized(r) ==
  /\ r.pc # "idle" => r.op \in Requests /\ r.role \in Roles
  /\ r.pc \in {"rotate read", "rotate write"} => r.op.is = "rotate"
  /\ r.pc = "disable" => r.op.is = "disable"
  /\ r.pc \notin {"idle", "touch"} => r.role = "admin"

RequestsAreAuthorized == \A c \in Clients : Authorized(call[c])

\* Only the rows inserted so far exist, have a history and are named by it.
HistoryIsPast ==
  \A i \in Ids : /\ i > minted => row[i] = None /\ parent[i] = None /\ i \notin killed
                 /\ parent[i] # None => parent[i] <= minted

\* The row that a rotation read is still there, and still in use when the
\* snapshot is current: every commit of another request makes the snapshot stale.
SnapshotIsLive ==
  \A c \in Clients : At(c, "rotate write") =>
    /\ call[c].op.id <= minted /\ row[call[c].op.id] \in TokenRows
    /\ ~call[c].stale => Live(call[c].op.id)

\* A row in use was never rotated or disabled; a disabled one was not rotated; no
\* row was rotated twice.
LiveHasNoSuccessor ==
  backend = "sqlite" =>
    /\ \A i, k \in Ids : Live(i) \/ i \in killed => parent[k] # i
    /\ \A i \in killed : ~Live(i)
    /\ \A k, m \in Ids : parent[k] = parent[m] /\ parent[k] # None => k = m

TokenInv == /\ TokenTypes /\ RequestsAreAuthorized /\ HistoryIsPast
            /\ SnapshotIsLive /\ LiveHasNoSuccessor
-----------------------------------------------------------------------------

LEMMA RolesAre == Roles = {"reader", "operator", "admin"}
BY DEF Roles, RoleRank

\* Only an administrator passes the middleware to a handler that changes tokens.
LEMMA AdminPasses ==
  ASSUME NEW r \in Roles, NEW op \in Requests, op.is \in {"create", "rotate", "disable"},
         Satisfies(r, RequiredRole(op))
  PROVE  r = "admin"
BY RolesAre DEF Satisfies, RequiredRole, AdminIf, RoleRank

LEMMA IdleIsFine == Idle \in Calls /\ Authorized(Idle) /\ Idle.pc = "idle"
BY DEF Idle, Calls, Authorized

LEMMA RotateNamesARow ==
  ASSUME NEW op \in Requests, op.is \in {"rotate", "disable"} PROVE op.id \in Ids
BY DEF Requests

\* A row in use is one of the rows inserted so far.
LEMMA LiveRowsExist ==
  ASSUME TokenInv, NEW i \in Ids, Live(i) PROVE i <= minted /\ row[i] \in TokenRows
<1>1. row[i] \in TokenRows
  BY DEF Live, TokenInv, TokenTypes
<1>2. ~(i > minted)
  BY DEF Live, TokenInv, HistoryIsPast
<1>3. QED
  BY <1>1, <1>2, TokensAssumption DEF Ids, TokenInv, TokenTypes

LEMMA IdsAreOrdered ==
  /\ \A i, j, k \in Ids : i <= j /\ j <= k => i <= k
  /\ \A i, j \in Ids : i <= j => i # j + 1
  /\ \A i, j \in Ids : ~(i > j) <=> i <= j
  /\ \A j \in Ids : j < MaxTokens => j + 1 \in Ids /\ j <= j + 1
  /\ \A i, j \in Ids : i > j + 1 => i > j /\ i # j + 1
  /\ None \notin Ids
BY TokensAssumption DEF Ids

\* What the calls look like after a client's step; after a commit every other
\* rotation's snapshot is stale.
LEMMA CallStep ==
  ASSUME TokenTypes, RequestsAreAuthorized, NEW c \in Clients,
         NEW then \in Calls, Authorized(then), Continue(c, then) \/ Committed(c, then)
  PROVE  /\ call' \in [Clients -> Calls] /\ RequestsAreAuthorized'
         /\ call'[c] = then
         /\ \A d \in Clients : d # c =>
              /\ call'[d].pc = call[d].pc /\ call'[d].op = call[d].op
              /\ ~call'[d].stale => ~call[d].stale
              /\ Committed(c, then) /\ call'[d].pc = "rotate write" => call'[d].stale
<1> USE DEF TokenTypes, At
<1>1. CASE ~Committed(c, then)
  <2>1. call' = [call EXCEPT ![c] = then]
    BY <1>1 DEF Continue
  <2>2. call' \in [Clients -> Calls] /\ call'[c] = then
        /\ \A d \in Clients : d # c => call'[d] = call[d]
    BY <2>1
  <2>3. QED
    BY <1>1, <2>2 DEF RequestsAreAuthorized
<1>2. CASE Committed(c, then)
  <2> DEFINE Stale(r) == [r EXCEPT !.stale = TRUE]
  <2>1. \A r \in Calls : /\ Stale(r) \in Calls /\ Stale(r).pc = r.pc /\ Stale(r).op = r.op
                         /\ Stale(r).role = r.role /\ Stale(r).stale
    BY DEF Calls
  <2>2. /\ call' \in [Clients -> Calls]
        /\ call'[c] = then
        /\ \A d \in Clients : d # c => call'[d] = IF call[d].pc = "rotate write" THEN Stale(call[d]) ELSE call[d]
    BY <1>2, <2>1 DEF Committed
  <2> HIDE DEF Stale
  <2>3. ASSUME NEW d \in Clients PROVE Authorized(call'[d])
    <3>1. call[d] \in Calls /\ Authorized(call[d])
      BY DEF RequestsAreAuthorized
    <3>2. Authorized(Stale(call[d]))
      BY <2>1, <3>1 DEF Authorized
    <3>3. QED
      BY <2>2, <3>1, <3>2
  <2>4. ASSUME NEW d \in Clients, d # c PROVE call'[d].pc = call[d].pc /\ call'[d].op = call[d].op
    <3>1. call[d] \in Calls
      OBVIOUS
    <3>2. QED
      BY <2>1, <2>2, <2>4, <3>1
  <2>5. \A d \in Clients : d # c /\ call'[d].pc = "rotate write" => call'[d].stale
    BY <2>1, <2>2, ZenonT(60)
  <2>6. \A d \in Clients : d # c /\ ~call'[d].stale => ~call[d].stale
    BY <2>1, <2>2
  <2>7. QED
    BY <2>2, <2>3, <2>4, <2>5, <2>6 DEF RequestsAreAuthorized
<1>3. QED
  BY <1>1, <1>2

\* Steps that read: they change the requests and nothing else.
LEMMA ReadingKeeps ==
  ASSUME TokenInv, NEW c \in Clients, NEW then \in Calls, Authorized(then),
         Continue(c, then) \/ Committed(c, then),
         then.pc = "rotate write" => Live(then.op.id),
         UNCHANGED <<row, minted, starts, parent, killed, backend>>
  PROVE  TokenInv'
<1> USE DEF TokenInv
<1>1. TokenTypes' /\ RequestsAreAuthorized'
  BY CallStep DEF TokenTypes
<1>2. HistoryIsPast' /\ LiveHasNoSuccessor'
  BY DEF HistoryIsPast, LiveHasNoSuccessor, Live
<1>3. ASSUME NEW d \in Clients, call'[d].pc = "rotate write"
      PROVE  /\ call'[d].op.id <= minted /\ row[call'[d].op.id] \in TokenRows
             /\ ~call'[d].stale => Live(call'[d].op.id)
  <2>1. CASE d = c
    <3>1. call'[c] = then
      BY CallStep
    <3>2. then.op.id \in Ids
      BY <1>3, <2>1, <3>1, RotateNamesARow DEF Authorized
    <3>3. then.op.id <= minted /\ row[then.op.id] \in TokenRows
      BY <1>3, <2>1, <3>1, <3>2, LiveRowsExist
    <3>4. QED
      BY <1>3, <2>1, <3>1, <3>3
  <2>2. CASE d # c
    <3>1. /\ call[d].pc = "rotate write" /\ call'[d].op = call[d].op
          /\ ~call'[d].stale => ~call[d].stale
      BY <1>3, <2>2, CallStep
    <3>2. QED
      BY <3>1 DEF SnapshotIsLive, At
  <2>3. QED
    BY <2>1, <2>2
<1>4. SnapshotIsLive'
  BY <1>3 DEF SnapshotIsLive, At, Live
<1>5. QED
  BY <1>1, <1>2, <1>4

\* Steps that write end the request, and leave no other rotation a current
\* snapshot.
LEMMA WritingEndsSnapshots ==
  ASSUME TokenInv, NEW c \in Clients, Committed(c, Idle),
         \A i \in Ids : row[i] \in TokenRows => row'[i] \in TokenRows,
         minted' \in Ids, minted <= minted'
  PROVE  call' \in [Clients -> Calls] /\ RequestsAreAuthorized' /\ SnapshotIsLive'
<1>1. /\ call' \in [Clients -> Calls] /\ RequestsAreAuthorized' /\ call'[c] = Idle
      /\ \A d \in Clients : d # c => /\ call'[d].pc = call[d].pc /\ call'[d].op = call[d].op
                                     /\ call'[d].pc = "rotate write" => call'[d].stale
  BY IdleIsFine, CallStep DEF TokenInv
<1>2. ASSUME NEW d \in Clients, call'[d].pc = "rotate write"
      PROVE  call'[d].op.id <= minted' /\ row'[call'[d].op.id] \in TokenRows /\ call'[d].stale
  <2>1. d # c /\ call[d].pc = "rotate write" /\ call'[d].op = call[d].op /\ call'[d].stale
    BY <1>1, <1>2, IdleIsFine
  <2>2. call[d].op.id \in Ids /\ call[d].op.id <= minted /\ row[call[d].op.id] \in TokenRows
    BY <2>1, RotateNamesARow DEF TokenInv, RequestsAreAuthorized, Authorized, SnapshotIsLive, At
  <2>3. QED
    BY <2>1, <2>2, IdsAreOrdered DEF TokenInv, TokenTypes
<1>3. QED
  BY <1>1, <1>2 DEF SnapshotIsLive, At

LEMMA LookupKeeps == ASSUME TokenInv, NEW c \in Clients, Lookup(c), UNCHANGED backend PROVE TokenInv'
<1>1. PICK op \in Requests, i \in Ids :
        /\ \E x \in Secrets : i \in Holders(x)
        /\ Continue(c, [pc |-> "touch", op |-> op, role |-> row[i].role, stale |-> FALSE])
  BY DEF Lookup
<1>2. row[i].role \in Roles
  BY <1>1 DEF Holders, Live, TokenInv, TokenTypes, TokenRows
<1> DEFINE then == [pc |-> "touch", op |-> op, role |-> row[i].role, stale |-> FALSE]
<1>3. then \in Calls /\ Authorized(then) /\ then.pc # "rotate write"
  BY <1>2 DEF Calls, Authorized
<1>4. Continue(c, then) /\ UNCHANGED <<row, minted, starts, parent, killed, backend>>
  BY <1>1 DEF Lookup
<1> HIDE DEF then
<1>5. QED
  BY <1>3, <1>4, ReadingKeeps

LEMMA TouchKeeps == ASSUME TokenInv, NEW c \in Clients, Touch(c), UNCHANGED backend PROVE TokenInv'
<1>1. /\ call[c] \in Calls /\ call[c].op \in Requests /\ call[c].role \in Roles
      /\ call[c].pc = "touch"
  BY DEF TokenInv, TokenTypes, RequestsAreAuthorized, Authorized, Touch, At
<1>2. UNCHANGED <<row, minted, starts, parent, killed, backend>>
  BY DEF Touch
<1>3. ASSUME Satisfies(call[c].role, RequiredRole(call[c].op)), call[c].op.is \notin {"read", "submit"}
      PROVE  /\ Handler(c) \in Calls /\ Authorized(Handler(c))
             /\ Handler(c).pc # "rotate write"
  <2>1. call[c].op.is \in {"create", "rotate", "disable"}
    BY <1>1, <1>3 DEF Requests
  <2>2. call[c].role = "admin"
    BY <1>1, <1>3, <2>1, AdminPasses
  <2>3. Handler(c) \in {[call[c] EXCEPT !.pc = "rotate read"], [call[c] EXCEPT !.pc = call[c].op.is]}
    BY <1>3 DEF Handler
  <2>4. CASE call[c].op.is = "rotate"
    <3>1. Handler(c) = [call[c] EXCEPT !.pc = "rotate read"]
      BY <2>4 DEF Handler
    <3>2. QED
      BY <1>1, <2>2, <2>4, <3>1 DEF Calls, Authorized
  <2>5. CASE call[c].op.is \in {"create", "disable"}
    <3>1. Handler(c) = [call[c] EXCEPT !.pc = call[c].op.is]
      BY <2>5 DEF Handler
    <3>2. QED
      BY <1>1, <2>2, <2>5, <3>1 DEF Calls, Authorized
  <2>6. QED
    BY <2>1, <2>4, <2>5
<1>4. PICK then : /\ Continue(c, then) \/ Committed(c, then)
                  /\ \/ then = Idle
                     \/ /\ Satisfies(call[c].role, RequiredRole(call[c].op))
                        /\ call[c].op.is \notin {"read", "submit"}
                        /\ then = Handler(c)
  BY DEF Touch, Respond, Handler
<1>5. then \in Calls /\ Authorized(then) /\ then.pc # "rotate write"
  BY <1>3, <1>4, IdleIsFine
<1>6. QED
  BY <1>2, <1>4, <1>5, ReadingKeeps

LEMMA RotateReadKeeps ==
  ASSUME TokenInv, NEW c \in Clients, RotateRead(c), UNCHANGED backend PROVE TokenInv'
<1>1. /\ call[c] \in Calls /\ Authorized(call[c]) /\ call[c].pc = "rotate read"
      /\ UNCHANGED <<row, minted, starts, parent, killed, backend>>
  BY DEF RotateRead, At, TokenInv, TokenTypes, RequestsAreAuthorized
<1>2. CASE Live(call[c].op.id)
  <2> DEFINE then == [call[c] EXCEPT !.pc = "rotate write"]
  <2>1. then \in Calls /\ Authorized(then) /\ Live(then.op.id)
    BY <1>1, <1>2 DEF Calls, Authorized
  <2>2. Continue(c, then)
    BY <1>2 DEF RotateRead
  <2> HIDE DEF then
  <2>3. QED
    BY <1>1, <2>1, <2>2, ReadingKeeps
<1>3. CASE ~Live(call[c].op.id)
  <2>1. Continue(c, Idle)
    BY <1>3 DEF RotateRead, Respond
  <2>2. QED
    BY <1>1, <2>1, IdleIsFine, ReadingKeeps
<1>4. QED
  BY <1>2, <1>3

LEMMA EndingKeeps ==
  ASSUME TokenInv, NEW c \in Clients, RotateFails(c) \/ Timeout(c), UNCHANGED backend PROVE TokenInv'
BY IdleIsFine, ReadingKeeps DEF RotateFails, Timeout, Respond

\* A new row is nobody's successor unless it says so, and nobody comes from it.
LEMMA CreateKeeps ==
  ASSUME TokenInv, NEW c \in Clients, Create(c), UNCHANGED backend PROVE TokenInv'
<1> USE TokensAssumption DEF Ids
<1>1. PICK r \in Roles, l \in {"bootstrap", "team"} :
        row' = [row EXCEPT ![minted + 1] = TokenRow(minted + 1, l, r)]
  BY DEF Create
<1>2. /\ minted + 1 \in Ids /\ minted' = minted + 1
      /\ UNCHANGED <<starts, parent, killed, backend>>
  BY DEF Create, TokenInv, TokenTypes
<1>3. TokenRow(minted + 1, l, r) \in TokenRows
  BY <1>2 DEF TokenRow, TokenRows, Secrets
<1>4. row' \in [Ids -> TokenRows \cup {None}] /\ \A i \in Ids : i # minted + 1 => row'[i] = row[i]
  BY <1>1, <1>2, <1>3 DEF TokenInv, TokenTypes
<1>5. call' \in [Clients -> Calls] /\ RequestsAreAuthorized' /\ SnapshotIsLive'
  <2>1. \A i \in Ids : row[i] \in TokenRows => row'[i] \in TokenRows
    BY <1>1, <1>2, <1>3, <1>4 DEF TokenInv, TokenTypes
  <2>2. minted' \in Ids /\ minted <= minted'
    BY <1>2 DEF TokenInv, TokenTypes
  <2>3. QED
    BY <2>1, <2>2, WritingEndsSnapshots DEF Create
<1>6. TokenTypes'
  BY <1>2, <1>4, <1>5 DEF TokenInv, TokenTypes
<1>7. HistoryIsPast'
  BY <1>2, <1>4 DEF TokenInv, TokenTypes, HistoryIsPast
<1>8. LiveHasNoSuccessor'
  BY <1>2, <1>4 DEF TokenInv, TokenTypes, HistoryIsPast, LiveHasNoSuccessor, Live
<1>9. QED
  BY <1>5, <1>6, <1>7, <1>8 DEF TokenInv

\* The row that a rotation replaces is the one it read, still in use when the
\* snapshot is current; the new row is its only successor.
LEMMA RotateWriteKeeps ==
  ASSUME TokenInv, NEW c \in Clients, RotateWrite(c), UNCHANGED backend PROVE TokenInv'
<1> DEFINE old == call[c].op.id
           new == minted + 1
<1>1. /\ minted < MaxTokens /\ MayWrite(c) /\ At(c, "rotate write") /\ Committed(c, Idle)
      /\ minted' = new /\ UNCHANGED <<starts, killed, backend>>
      /\ parent' = [parent EXCEPT ![new] = old]
      /\ row' = [row EXCEPT ![new] = TokenRow(new, row[old].label, row[old].role),
                            ![old].disabled = TRUE, ![old].replacedBy = new]
  BY DEF RotateWrite
<1>2. old \in Ids /\ old <= minted /\ row[old] \in TokenRows
  BY <1>1, RotateNamesARow DEF At, TokenInv, RequestsAreAuthorized, Authorized, SnapshotIsLive
<1>3. backend = "sqlite" => Live(old)
  BY <1>1 DEF MayWrite, At, TokenInv, SnapshotIsLive
<1>4. new \in Ids /\ old # new /\ minted \in Ids /\ minted <= new
  BY <1>1, <1>2, IdsAreOrdered DEF TokenInv, TokenTypes
<1> DEFINE spent == [row[old] EXCEPT !.disabled = TRUE, !.replacedBy = new]
           fresh == TokenRow(new, row[old].label, row[old].role)
<1>5. spent \in TokenRows /\ fresh \in TokenRows /\ spent.disabled
  BY <1>2, <1>4 DEF TokenRow, TokenRows, Secrets
<1>6. /\ row' \in [Ids -> TokenRows \cup {None}]
      /\ row'[new] = fresh /\ row'[old] = spent
      /\ \A i \in Ids : i \notin {old, new} => row'[i] = row[i]
  BY <1>1, <1>2, <1>4, <1>5 DEF TokenInv, TokenTypes
<1>7. /\ parent' \in [Ids -> Ids \cup {None}]
      /\ parent'[new] = old /\ \A i \in Ids : i # new => parent'[i] = parent[i]
  BY <1>1, <1>2, <1>4 DEF TokenInv, TokenTypes
<1> HIDE DEF spent, fresh, old, new
<1>8. call' \in [Clients -> Calls] /\ RequestsAreAuthorized' /\ SnapshotIsLive'
  <2>1. \A i \in Ids : row[i] \in TokenRows => row'[i] \in TokenRows
    BY <1>5, <1>6
  <2>2. minted' \in Ids /\ minted <= minted'
    BY <1>1, <1>4
  <2>3. QED
    BY <1>1, <2>1, <2>2, WritingEndsSnapshots
<1>9. TokenTypes'
  BY <1>1, <1>4, <1>6, <1>7, <1>8 DEF TokenInv, TokenTypes
<1>10. HistoryIsPast'
  <2>1. ASSUME NEW i \in Ids, i > new
        PROVE  row'[i] = None /\ parent'[i] = None /\ i \notin killed
    <3>1. i > minted /\ i # new /\ i # old
      BY <1>2, <1>4, <2>1, IdsAreOrdered DEF new
    <3>2. QED
      BY <1>6, <1>7, <3>1 DEF TokenInv, HistoryIsPast
  <2>2. ASSUME NEW i \in Ids, parent'[i] # None PROVE parent'[i] <= new
    <3>1. parent'[i] \in Ids /\ parent'[i] <= minted
      BY <1>2, <1>7, <2>2 DEF TokenInv, TokenTypes, HistoryIsPast
    <3>2. QED
      BY <1>4, <3>1, IdsAreOrdered
  <2>3. QED
    BY <1>1, <2>1, <2>2 DEF HistoryIsPast
<1>11. LiveHasNoSuccessor'
  <2> SUFFICES ASSUME backend = "sqlite" PROVE LiveHasNoSuccessor'
    BY <1>1 DEF LiveHasNoSuccessor
  <2>1. Live(old) /\ old \notin killed /\ \A k \in Ids : parent[k] # old
    BY <1>2, <1>3 DEF TokenInv, LiveHasNoSuccessor
  <2>2. /\ ~(row'[old] # None /\ ~row'[old].disabled)
        /\ \A i \in Ids : i \notin {old, new} /\ row'[i] # None /\ ~row'[i].disabled => Live(i)
    BY <1>5, <1>6 DEF Live
  <2>3. \A k \in Ids : parent[k] # new /\ new \notin killed
    <3>1. new > minted /\ ~(new <= minted)
      BY <1>4, TokensAssumption DEF new, Ids
    <3>2. QED
      BY <1>4, <3>1, IdsAreOrdered DEF TokenInv, HistoryIsPast
  <2>4. ASSUME NEW i \in Ids, NEW k \in Ids,
               i \in killed \/ (row'[i] # None /\ ~row'[i].disabled)
        PROVE  parent'[k] # i
    <3>1. i # old
      BY <2>1, <2>2, <2>4
    <3>2. CASE k = new
      BY <1>7, <3>1, <3>2
    <3>3. CASE k # new /\ i = new
      BY <1>7, <2>3, <3>3
    <3>4. CASE k # new /\ i # new
      BY <1>7, <2>2, <2>4, <3>1, <3>4 DEF TokenInv, LiveHasNoSuccessor
    <3>5. QED
      BY <3>2, <3>3, <3>4
  <2>5. \A i \in killed : ~(row'[i] # None /\ ~row'[i].disabled)
    BY <1>2, <2>1, <2>2, <2>3 DEF TokenInv, TokenTypes, LiveHasNoSuccessor
  <2>6. ASSUME NEW k \in Ids, NEW m \in Ids, parent'[k] = parent'[m], parent'[k] # None
        PROVE  k = m
    BY <1>7, <2>1, <2>6 DEF TokenInv, LiveHasNoSuccessor
  <2>7. QED
    BY <1>1, <2>4, <2>5, <2>6 DEF LiveHasNoSuccessor, Live
<1>12. QED
  BY <1>8, <1>9, <1>10, <1>11 DEF TokenInv

\* Disabling a row in use kills it; it has no successor then, and gets none later.
LEMMA DisableKeeps ==
  ASSUME TokenInv, NEW c \in Clients, Disable(c), UNCHANGED backend PROVE TokenInv'
<1> DEFINE i == call[c].op.id
<1>1. i \in Ids /\ UNCHANGED <<minted, starts, parent, backend>>
  BY RotateNamesARow DEF Disable, At, TokenInv, RequestsAreAuthorized, Authorized
<1>2. CASE row[i] = None
  <2>1. Continue(c, Idle) /\ UNCHANGED <<row, killed>>
    BY <1>2 DEF Disable, Respond
  <2>2. QED
    BY <1>1, <2>1, IdleIsFine, ReadingKeeps
<1>3. CASE row[i] # None
  <2>1. /\ row' = [row EXCEPT ![i].disabled = TRUE] /\ Committed(c, Idle)
        /\ killed' = IF Live(i) THEN killed \cup {i} ELSE killed
    BY <1>3 DEF Disable
  <2>2. row[i] \in TokenRows /\ i <= minted /\ minted \in Ids /\ minted <= minted
    <3>1. ~(i > minted)
      BY <1>1, <1>3 DEF TokenInv, HistoryIsPast
    <3>2. QED
      BY <1>1, <1>3, <3>1, IdsAreOrdered, TokensAssumption DEF TokenInv, TokenTypes, Ids
  <2> DEFINE spent == [row[i] EXCEPT !.disabled = TRUE]
  <2>3. spent \in TokenRows /\ spent.disabled
    BY <2>2 DEF TokenRows
  <2>4. /\ row' \in [Ids -> TokenRows \cup {None}] /\ row'[i] = spent
        /\ \A j \in Ids : j # i => row'[j] = row[j]
    BY <1>1, <2>1, <2>3 DEF TokenInv, TokenTypes
  <2> HIDE DEF spent, i
  <2>5. call' \in [Clients -> Calls] /\ RequestsAreAuthorized' /\ SnapshotIsLive'
    <3>1. \A j \in Ids : row[j] \in TokenRows => row'[j] \in TokenRows
      BY <2>3, <2>4
    <3>2. QED
      BY <1>1, <2>1, <2>2, <3>1, WritingEndsSnapshots
  <2>6. TokenTypes'
    BY <1>1, <2>1, <2>4, <2>5 DEF TokenInv, TokenTypes
  <2>7. HistoryIsPast'
    <3>1. \A j \in Ids : j > minted => j # i
      BY <1>1, <2>2, IdsAreOrdered
    <3>2. QED
      BY <1>1, <2>1, <2>4, <3>1 DEF TokenInv, HistoryIsPast
  <2>8. LiveHasNoSuccessor'
    <3> SUFFICES ASSUME backend = "sqlite" PROVE LiveHasNoSuccessor'
      BY <1>1 DEF LiveHasNoSuccessor
    <3>1. \A j \in Ids : row'[j] # None /\ ~row'[j].disabled => j # i /\ Live(j)
      BY <2>3, <2>4 DEF Live
    <3>2. \A j \in killed' : j \in killed \/ (j = i /\ Live(i))
      BY <2>1
    <3>3. QED
      BY <1>1, <3>1, <3>2 DEF TokenInv, TokenTypes, LiveHasNoSuccessor, Live
  <2>9. QED
    BY <2>5, <2>6, <2>7, <2>8 DEF TokenInv
<1>4. QED
  BY <1>2, <1>3

\* A start forgets the requests, deletes the bootstrap rows and inserts one.
LEMMA RestartKeeps ==
  ASSUME TokenInv, Restart, UNCHANGED backend PROVE TokenInv'
<1> DEFINE new == minted + 1
<1>1. /\ minted < MaxTokens /\ minted' = new /\ starts' = starts + 1
      /\ call' = [c \in Clients |-> Idle] /\ UNCHANGED <<parent, killed, backend>>
      /\ row' = [i \in Ids |-> IF i = new THEN Bootstrap
                               ELSE IF row[i] # None /\ row[i].label = "bootstrap" THEN None
                               ELSE row[i]]
  BY DEF Restart
<1>2. new \in Ids /\ minted \in Ids /\ minted <= new /\ new > minted
  BY <1>1, IdsAreOrdered, TokensAssumption DEF TokenInv, TokenTypes, Ids
<1>3. Bootstrap \in TokenRows
  BY RolesAre DEF Bootstrap, TokenRow, TokenRows, Secrets
<1>4. /\ row' \in [Ids -> TokenRows \cup {None}]
      /\ \A i \in Ids : i # new => row'[i] = None \/ row'[i] = row[i]
  BY <1>1, <1>3 DEF TokenInv, TokenTypes
<1>5. TokenTypes'
  BY <1>1, <1>2, <1>4, IdleIsFine DEF TokenInv, TokenTypes
<1>6. RequestsAreAuthorized' /\ SnapshotIsLive'
  BY <1>1, IdleIsFine DEF RequestsAreAuthorized, SnapshotIsLive, At
<1>7. HistoryIsPast'
  <2>1. ASSUME NEW i \in Ids, i > new PROVE i > minted /\ i # new
    BY <1>2, <2>1, IdsAreOrdered DEF new
  <2>2. ASSUME NEW i \in Ids, parent[i] # None PROVE parent[i] <= new
    <3>1. parent[i] \in Ids /\ parent[i] <= minted
      BY <2>2 DEF TokenInv, TokenTypes, HistoryIsPast
    <3>2. QED
      BY <1>2, <3>1, IdsAreOrdered
  <2> HIDE DEF new
  <2>3. QED
    BY <1>1, <1>4, <2>1, <2>2 DEF TokenInv, HistoryIsPast
<1>8. LiveHasNoSuccessor'
  <2> SUFFICES ASSUME backend = "sqlite" PROVE LiveHasNoSuccessor'
    BY <1>1 DEF LiveHasNoSuccessor
  <2>1. ~(new <= minted)
    BY <1>2, TokensAssumption DEF Ids
  <2>2. \A k \in Ids : parent[k] # new /\ new \notin killed
    BY <1>2, <2>1, IdsAreOrdered DEF TokenInv, HistoryIsPast
  <2>3. \A i \in Ids : row'[i] # None /\ ~row'[i].disabled => i = new \/ Live(i)
    BY <1>4 DEF Live
  <2> HIDE DEF new
  <2>4. QED
    BY <1>1, <2>2, <2>3 DEF TokenInv, TokenTypes, LiveHasNoSuccessor, Live
<1>9. QED
  BY <1>5, <1>6, <1>7, <1>8 DEF TokenInv
-----------------------------------------------------------------------------

\* No step of the service breaks the token invariant.
LEMMA TokenInvInductive == TokenInv /\ [Next]_vars => TokenInv'
<1> SUFFICES ASSUME TokenInv, [Next]_vars PROVE TokenInv'
  OBVIOUS
<1>1. CASE UNCHANGED tokenVars
  BY <1>1 DEF tokenVars, TokenInv, TokenTypes, RequestsAreAuthorized, HistoryIsPast,
              SnapshotIsLive, LiveHasNoSuccessor, Live, At
<1>2. CASE TokenStep
  <2>1. UNCHANGED backend
    BY <1>2 DEF TokenStep
  <2>2. ASSUME NEW c \in Clients, \/ Lookup(c) \/ Touch(c) \/ Create(c) \/ RotateRead(c)
                                  \/ RotateWrite(c) \/ RotateFails(c) \/ Disable(c) \/ Timeout(c)
        PROVE  TokenInv'
    BY <2>1, <2>2, LookupKeeps, TouchKeeps, CreateKeeps, RotateReadKeeps, RotateWriteKeeps,
       EndingKeeps, DisableKeeps
  <2>3. QED
    BY <1>2, <2>1, <2>2, RestartKeeps DEF TokenStep
<1>3. QED
  BY <1>1, <1>2 DEF Next, vars

LEMMA TokenInvHolds == Spec => []TokenInv
<1>1. Init => TokenInv
  <2> SUFFICES ASSUME Init PROVE TokenInv
    OBVIOUS
  <2>1. /\ minted = 1 /\ row = [i \in Ids |-> IF i = 1 THEN Bootstrap ELSE None]
        /\ call = [c \in Clients |-> Idle] /\ starts = 1
        /\ parent = [i \in Ids |-> None] /\ killed = {}
    BY DEF Init, TokensInit
  <2>2. 1 \in Ids /\ \A i \in Ids : i > 1 => i # 1
    BY TokensAssumption DEF Ids
  <2>3. Bootstrap \in TokenRows
    BY RolesAre DEF Bootstrap, TokenRow, TokenRows, Secrets
  <2>4. TokenTypes
    BY <2>1, <2>2, <2>3, IdleIsFine DEF TokenTypes
  <2>5. RequestsAreAuthorized /\ SnapshotIsLive
    BY <2>1, IdleIsFine DEF RequestsAreAuthorized, SnapshotIsLive, At
  <2>6. HistoryIsPast /\ LiveHasNoSuccessor
    BY <2>1, <2>2, IdsAreOrdered DEF HistoryIsPast, LiveHasNoSuccessor
  <2>7. QED
    BY <2>4, <2>5, <2>6 DEF TokenInv
<1>2. QED
  BY <1>1, TokenInvInductive, PTL DEF Spec

\* On SQLite concurrent rotations of a token mint one successor, and a token that
\* was disabled while in use never gets one (rotate_auth_token, disable_auth_token).
THEOREM TokensHaveOneHolder == Spec => []OneHolderPerToken
<1>1. TokenInv => OneHolderPerToken
  <2> SUFFICES ASSUME TokenInv, backend = "sqlite", NEW i \in Ids
               PROVE  Cardinality({k \in Ids : parent[k] = i}) <= (IF i \in killed THEN 0 ELSE 1)
    BY DEF OneHolderPerToken
  <2> DEFINE successors == {k \in Ids : parent[k] = i}
  <2>1. CASE successors = {}
    BY <2>1, FS_EmptySet
  <2>2. CASE successors # {}
    <3>1. PICK k \in successors : TRUE
      BY <2>2
    <3>2. i \notin killed
      BY <3>1 DEF TokenInv, LiveHasNoSuccessor
    <3>3. successors = {k}
      BY <3>1, IdsAreOrdered DEF TokenInv, LiveHasNoSuccessor
    <3>4. Cardinality(successors) = 1
      BY <3>3, FS_Singleton
    <3>5. QED
      BY <3>2, <3>4
  <2>3. QED
    BY <2>1, <2>2
<1>2. QED
  BY <1>1, TokenInvHolds, PTL
=============================================================================
