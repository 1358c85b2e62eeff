-------------------------- MODULE ScopedTransaction --------------------------
(***************************************************************************)
(* packages/db: withPrincipal borrows one pooled client, runs the body in  *)
(* one explicit transaction under a local role and local claims, and hands *)
(* the client back. The bodies are the three the repository runs. Postgres *)
(* (sessions, row policies, unique keys, READ COMMITTED) and pg's pool are *)
(* external. A process that ends is started again by its orchestrator.     *)
(***************************************************************************)
EXTENDS IdentityRows

CONSTANTS Clients,      \* the pool's slots: maxConnections of them
          NoClient, NoClaims,
          Faults        \* which of AllFaults the environment produces

AllFaults == {"connect", "statement", "connection", "idle", "kill"}

\* pg's pool takes a max of 0 as none given and makes it 10.
ASSUME ClientsAssumption ==
  NoClient \notin Clients /\ Clients # {} /\ Faults \subseteq AllFaults

VARIABLES rows,     \* committed rows of accounts and profiles
          session,  \* per slot, the server session behind it
          pc,       \* per request, the step it performs next
          using,    \* per request, the client it has borrowed
          saw,      \* per request, the rows its queries returned
          created,  \* per request, whether its account insert returned a row
          outcome,  \* per request, how withPrincipal settles
          up        \* whether the process runs
vars == <<rows, session, pc, using, saw, created, outcome, up>>

Statements == {"begin", "role", "claims", "insertAccount", "insertProfile",
               "countAccounts", "countProfiles", "findAccount", "commit"}
Steps == Statements \union {"start", "connect", "rollback", "release", "done"}

\* The claims of a session that has none are no principal's.
ASSUME ClaimsAssumption == NoClaims \notin [user : Users, org : Orgs \union {NoOrg}]

Principals == [user : Users, org : Orgs \union {NoOrg}]
Principal(r) == [user |-> UserOf[r], org |-> OrgOf[r]]

Sessions == [state : {"absent", "idle", "open", "aborted", "lost"},
             role : {"login", "authenticated"},
             claims : Principals \union {NoClaims}, wrote : SUBSET Rows]

Absent == [state |-> "absent", role |-> "login", claims |-> NoClaims, wrote |-> {}]
Idle   == [Absent EXCEPT !.state = "idle"]

Init ==
  /\ rows = {}
  /\ session = [c \in Clients |-> Absent]
  /\ pc = [r \in Requests |-> "start"]
  /\ using = [r \in Requests |-> NoClient]
  /\ saw = [r \in Requests |-> {}]
  /\ created = [r \in Requests |-> FALSE]
  /\ outcome = [r \in Requests |-> "none"]
  /\ up = TRUE

Lent(c) == \E r \in Requests : using[r] = c

\* Wrong on purpose: row level security never enabled on accounts.
AdmitsAnyAccount(claims, row) ==
  claims # NoClaims /\ (row[1] = "accounts" \/ row = Profile(claims.user))

\* app.current_org_id() and app.current_user_id() in the policies. nullif
\* makes the empty string a session's claims revert to as absent as no claims.
Admits(claims, row) ==
  /\ claims # NoClaims
  /\ row = Account(claims.org) \/ row = Profile(claims.user)

\* Wrong on purpose: accounts_select compares with app.current_user_id().
VisibleByUser(c, table) ==
  {row \in rows \union session[c].wrote : row[1] = table /\ row[2] = session[c].claims.user}

\* What a query in session c returns: committed rows and its own writes, as
\* far as the policies admit them. Each statement has a snapshot of its own.
Visible(c, table) ==
  {row \in rows \union session[c].wrote :
     row[1] = table /\ session[c].role = "authenticated" /\ Admits(session[c].claims, row)}

\* The row an insert offers: principal.orgId or app.current_org_id(), and
\* principal.userId. They agree because the claims come from the principal.
Offered(r, table) ==
  IF table = "accounts" THEN Account(OrgOf[r]) ELSE Profile(UserOf[r])

\* INSERT waits for a transaction that has the same key uncommitted.
Waits(c, row) == \E d \in Clients \ {c} : row \in session[d].wrote

\* ON CONFLICT DO NOTHING returns no row for a key that is there.
Inserts(c, row) == row \notin rows \union session[c].wrote

------------------------------------------------------------------------------
(* The request's side: runScoped and the bodies.                             *)

FirstOfBody(r) ==
  CASE KindOf[r] = "workspace" /\ OrgOf[r] = NoOrg -> "insertProfile"
    [] KindOf[r] = "workspace" /\ OrgOf[r] # NoOrg -> "insertAccount"
    [] KindOf[r] = "provision" -> "insertAccount"
    [] KindOf[r] = "read"      -> "findAccount"

\* Wrong on purpose: the result is returned without waiting for COMMIT.
SettledAsOnceSent(r) == IF pc[r] = "commit" THEN "ok" ELSE "failed"

\* How a call whose statement failed settles: runScoped rethrows.
SettledAs(r) == "failed"

\* Wrong on purpose: a failure goes straight to the finally clause.
CaughtUnrolled(r) == "release"

\* Where a failed statement leads. BEGIN is outside the try, so its failure
\* skips ROLLBACK; both ways the finally clause releases the client.
Caught(r) == IF pc[r] = "begin" THEN "release" ELSE "rollback"

Goto(r, step) == pc' = [pc EXCEPT ![r] = step]
Settles(r, how) == outcome' = [outcome EXCEPT ![r] = how]

Arrive(r) ==
  /\ up /\ pc[r] = "start"
  /\ Goto(r, "connect")
  /\ UNCHANGED <<rows, session, using, saw, created, outcome, up>>

\* pool.connect lends an idle client, or opens one while slots are left.
Connect(r, c) ==
  /\ up /\ pc[r] = "connect"
  /\ ~Lent(c)
  /\ session[c].state = "idle" \/ \A d \in Clients : Lent(d) \/ session[d].state # "idle"
  /\ using' = [using EXCEPT ![r] = c]
  /\ session' = [session EXCEPT ![c] = IF @.state = "idle" THEN @ ELSE Idle]
  /\ Goto(r, "begin")
  /\ UNCHANGED <<rows, saw, created, outcome, up>>

ConnectFails(r) ==
  /\ up /\ pc[r] = "connect" /\ "connect" \in Faults
  /\ Settles(r, "failed")
  /\ Goto(r, "done")
  /\ UNCHANGED <<rows, session, using, saw, created, up>>

Begin(r) ==
  /\ up /\ pc[r] = "begin"
  /\ session' = [session EXCEPT ![using[r]].state = "open"]
  /\ Goto(r, "role")
  /\ UNCHANGED <<rows, using, saw, created, outcome, up>>

SetRole(r) ==
  /\ up /\ pc[r] = "role"
  /\ session' = [session EXCEPT ![using[r]].role = "authenticated"]
  /\ Goto(r, "claims")
  /\ UNCHANGED <<rows, using, saw, created, outcome, up>>

SetClaims(r) ==
  /\ up /\ pc[r] = "claims"
  /\ session' = [session EXCEPT ![using[r]].claims = Principal(r)]
  /\ Goto(r, FirstOfBody(r))
  /\ UNCHANGED <<rows, using, saw, created, outcome, up>>

\* The insert of a body. The policy's WITH CHECK admits the row or raises
\* 42501, which is one of StatementFails' ways to fail.
Insert(r, table) ==
  LET c   == using[r]
      row == Offered(r, table)
  IN  /\ ~Waits(c, row)
      /\ session[c].role = "authenticated" /\ Admits(session[c].claims, row)
      /\ session' = [session EXCEPT ![c].wrote =
           IF Inserts(c, row) THEN @ \union {row} ELSE @]

\* ensureIdentityRows' first insert, and provisionAccount's: RETURNING tells
\* the latter whether to look the account up instead.
InsertAccount(r) ==
  LET returned == Inserts(using[r], Offered(r, "accounts"))
  IN  /\ up /\ pc[r] = "insertAccount"
      /\ Insert(r, "accounts")
      /\ created' = [created EXCEPT ![r] = returned]
      /\ IF KindOf[r] = "workspace"
         THEN Goto(r, "insertProfile") /\ UNCHANGED saw
         ELSE /\ Goto(r, IF returned THEN "commit" ELSE "findAccount")
              /\ saw' = [saw EXCEPT ![r] =
                   IF returned THEN {Offered(r, "accounts")} ELSE {}]
      /\ UNCHANGED <<rows, using, outcome, up>>

InsertProfile(r) ==
  /\ up /\ pc[r] = "insertProfile"
  /\ Insert(r, "profiles")
  /\ Goto(r, "countAccounts")
  /\ UNCHANGED <<rows, using, saw, created, outcome, up>>

\* countVisibleRows: no WHERE clause, the policies decide.
CountAccounts(r) ==
  /\ up /\ pc[r] = "countAccounts"
  /\ saw' = [saw EXCEPT ![r] = @ \union Visible(using[r], "accounts")]
  /\ Goto(r, "countProfiles")
  /\ UNCHANGED <<rows, session, using, created, outcome, up>>

CountProfiles(r) ==
  /\ up /\ pc[r] = "countProfiles"
  /\ saw' = [saw EXCEPT ![r] = @ \union Visible(using[r], "profiles")]
  /\ Goto(r, "commit")
  /\ UNCHANGED <<rows, session, using, created, outcome, up>>

\* findAccount: no WHERE clause. provisionAccount throws when the account it
\* conflicted with is not visible.
FindAccount(r) ==
  LET found == Visible(using[r], "accounts")
  IN  /\ up /\ pc[r] = "findAccount"
      /\ IF found = {} /\ KindOf[r] = "provision"
         THEN Settles(r, "conflict") /\ Goto(r, "rollback") /\ UNCHANGED saw
         ELSE /\ saw' = [saw EXCEPT ![r] = found]
              /\ Goto(r, "commit")
              /\ UNCHANGED outcome
      /\ UNCHANGED <<rows, session, using, created, up>>

\* COMMIT: the writes become visible to everyone and the local role and the
\* local claims end. The result is returned only after it.
Commit(r) ==
  /\ up /\ pc[r] = "commit"
  /\ rows' = rows \union session[using[r]].wrote
  /\ session' = [session EXCEPT ![using[r]] = Idle]
  /\ Settles(r, "ok")
  /\ Goto(r, "release")
  /\ UNCHANGED <<using, saw, created, up>>

\* A statement is refused (permission, timeout, shutdown) on a connection that
\* stays up: the transaction is aborted, or over when COMMIT was refused.
StatementFails(r) ==
  /\ up /\ pc[r] \in Statements /\ "statement" \in Faults
  /\ session' = [session EXCEPT ![using[r]] =
       IF pc[r] \in {"begin", "commit"} THEN Idle
       ELSE [@ EXCEPT !.state = "aborted", !.wrote = {}]]
  /\ Settles(r, SettledAs(r))
  /\ Goto(r, Caught(r))
  /\ UNCHANGED <<rows, using, saw, created, up>>

\* The connection breaks under a statement: the server rolls back, unless the
\* statement was COMMIT and it got through.
ConnectionLost(r) ==
  /\ up /\ pc[r] \in Statements /\ "connection" \in Faults
  /\ rows' \in {rows} \union
       (IF pc[r] = "commit" THEN {rows \union session[using[r]].wrote} ELSE {})
  /\ session' = [session EXCEPT ![using[r]] = [Absent EXCEPT !.state = "lost"]]
  /\ Settles(r, SettledAs(r))
  /\ Goto(r, Caught(r))
  /\ UNCHANGED <<using, saw, created, up>>

\* ROLLBACK ends the transaction; on a lost connection it fails, which
\* runScoped swallows. Either way the original error stands.
Rollback(r) ==
  /\ up /\ pc[r] = "rollback"
  /\ session' = [session EXCEPT ![using[r]] = IF @.state = "lost" THEN @ ELSE Idle]
  /\ Goto(r, "release")
  /\ UNCHANGED <<rows, using, saw, created, outcome, up>>

\* Wrong on purpose: the client is released after a success only.
ReleaseServed(r) ==
  /\ up /\ pc[r] = "release"
  /\ using' = IF outcome[r] = "ok" THEN [using EXCEPT ![r] = NoClient] ELSE using
  /\ Goto(r, "done")
  /\ UNCHANGED <<rows, session, saw, created, outcome, up>>

\* The finally clause. The pool drops a client whose connection broke and
\* keeps any other as it is: release() is called without an error.
Release(r) ==
  /\ up /\ pc[r] = "release"
  /\ session' = [session EXCEPT ![using[r]] = IF @.state = "lost" THEN Absent ELSE @]
  /\ using' = [using EXCEPT ![r] = NoClient]
  /\ Goto(r, "done")
  /\ UNCHANGED <<rows, saw, created, outcome, up>>

------------------------------------------------------------------------------
(* The process and its orchestrator.                                         *)

\* The requests the process has taken on and not settled.
Unsettled == {r \in Requests : pc[r] \notin {"start", "done"} /\ outcome[r] = "none"}

\* The process ends: every session with it, every request under way without an
\* answer. A COMMIT already on its way may still get through.
ProcessEnds ==
  /\ up' = FALSE
  /\ \E applied \in SUBSET {r \in Unsettled : pc[r] = "commit"} :
       rows' = rows \union UNION {session[using[r]].wrote : r \in applied}
  /\ session' = [c \in Clients |-> Absent]
  /\ using' = [r \in Requests |-> NoClient]
  /\ outcome' = [r \in Requests |-> IF r \in Unsettled THEN "failed" ELSE outcome[r]]
  /\ pc' = [r \in Requests |-> IF pc[r] = "start" THEN "start" ELSE "done"]
  /\ UNCHANGED <<saw, created>>

Killed == up /\ "kill" \in Faults /\ ProcessEnds

\* An idle pooled connection breaks. The pool drops the client and emits
\* "error"; createDatabase adds no listener, so Node ends the process.
IdleClientLost(c) ==
  /\ up /\ "idle" \in Faults
  /\ ~Lent(c) /\ session[c].state = "idle"
  /\ ProcessEnds

Restart ==
  /\ ~up
  /\ up' = TRUE
  /\ UNCHANGED <<rows, session, pc, using, saw, created, outcome>>

Step(r) ==
  \/ \E c \in Clients : Connect(r, c)
  \/ Begin(r) \/ SetRole(r) \/ SetClaims(r)
  \/ InsertAccount(r) \/ InsertProfile(r)
  \/ CountAccounts(r) \/ CountProfiles(r) \/ FindAccount(r)
  \/ Commit(r) \/ Rollback(r) \/ Release(r)

Fault(r) == ConnectFails(r) \/ StatementFails(r) \/ ConnectionLost(r)

Next ==
  \/ \E r \in Requests : Arrive(r) \/ Step(r) \/ Fault(r)
  \/ Killed
  \/ \E c \in Clients : IdleClientLost(c)
  \/ Restart

Spec == Init /\ [][Next]_vars

------------------------------------------------------------------------------
(* Properties.                                                               *)

TypeOK ==
  /\ rows \subseteq Rows
  /\ session \in [Clients -> Sessions]
  /\ pc \in [Requests -> Steps]
  /\ using \in [Requests -> Clients \union {NoClient}]
  /\ saw \in [Requests -> SUBSET Rows]
  /\ created \in [Requests -> BOOLEAN]
  /\ outcome \in [Requests -> {"none", "ok", "failed", "conflict"}]
  /\ up \in BOOLEAN

\* A client in the pool carries nothing of its last borrower to the next: no
\* transaction, no role, no claims, no uncommitted row, however it came back
\* (packages/db/README.md, "a pooled connection does not carry them").
IdleClientIsClean == \A c \in Clients : Lent(c) \/ session[c] \in {Absent, Idle}

\* provisionAccount's "account conflicted on insert but is not visible" is
\* never thrown: whoever made the insert conflict has committed by then.
ConflictIsVisible == \A r \in Requests : outcome[r] # "conflict"

\* Whatever a body has read so far, answered or not, is its principal's own:
\* no other tenant's row, on any client, in any interleaving.
OwnRowsOnly == \A r \in Requests : saw[r] \subseteq Own(r)

\* Requests never all wait for each other: whatever locks and clients they
\* hold, one of those under way can take its next step, so no client is kept
\* for good and no two transactions deadlock.
UnderWay == {r \in Requests : pc[r] \notin {"start", "done"}}
Blocked(r) ==
  \/ pc[r] = "connect" /\ \A c \in Clients : Lent(c)
  \/ pc[r] = "insertAccount" /\ Waits(using[r], Offered(r, "accounts"))
  \/ pc[r] = "insertProfile" /\ Waits(using[r], Offered(r, "profiles"))
SomeRequestGoesOn == UnderWay # {} => \E r \in UnderWay : ~Blocked(r)

\* services/api/src/routes/health.ts: "a database outage does not get the
\* process restarted".
OutageKeepsProcess == up

\* What the caller of withPrincipal has been told.
Told(r) == CASE outcome[r] = "ok"   -> [status |-> "ok", saw |-> saw[r],
                                        created |-> KindOf[r] = "provision" /\ created[r]]
             [] outcome[r] = "none" -> Pending
             [] OTHER               -> Failed

Store == INSTANCE TenantStore WITH answer <- [r \in Requests |-> Told(r)]

\* The promise of the boundary: each call is one step of the store, whatever
\* the connections, the other calls and the process do meanwhile.
StoreImplemented == Store!Spec

\* However many callers of an organization provision it at once, at most one is
\* answered 201 Created.
CreatedOnce == Store!CreatedOnce

\* An answer never shows another's row, nor one that a rollback took away.
ShownIsOwnAndKept == Store!ShownIsOwnAndKept
==============================================================================
