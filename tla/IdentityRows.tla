---------------------------- MODULE IdentityRows -----------------------------
(***************************************************************************)
(* The identity rows of packages/db/migrations and the callers that read   *)
(* and provision them: what TenantStore and ScopedTransaction share.       *)
(***************************************************************************)
CONSTANTS Requests,     \* calls of withPrincipal, each made once
          Users, Orgs, NoOrg,
          UserOf,       \* the verified principal of each request:
          OrgOf,        \*   its user, and its organization or NoOrg
          KindOf        \* the body in the repository the request runs

\* The /app loader, PUT /v1/account and GET /v1/account.
Kinds == {"workspace", "provision", "read"}

ASSUME PrincipalsAssumption ==
  /\ NoOrg \notin Orgs
  /\ UserOf \in [Requests -> Users]
  /\ OrgOf \in [Requests -> Orgs \union {NoOrg}]
  /\ KindOf \in [Requests -> Kinds]
  \* tenantAuth refuses a token without an organization on every /v1 route
  /\ \A r \in Requests : KindOf[r] # "workspace" => OrgOf[r] # NoOrg

Account(o) == <<"accounts", o>>
Profile(u) == <<"profiles", u>>
Rows == {Account(o) : o \in Orgs} \union {Profile(u) : u \in Users}

OwnAccount(r) == IF OrgOf[r] = NoOrg THEN {} ELSE {Account(OrgOf[r])}
OwnProfile(r) == {Profile(UserOf[r])}

\* The rows that are a request's own.
Own(r) == OwnAccount(r) \union OwnProfile(r)

\* The rows a request's body makes sure exist.
Writes(r) == CASE KindOf[r] = "workspace" -> Own(r)
               [] KindOf[r] = "provision" -> OwnAccount(r)
               [] KindOf[r] = "read"      -> {}

Answers == [status : {"pending", "ok", "failed"}, saw : SUBSET Rows, created : BOOLEAN]
Pending == [status |-> "pending", saw |-> {}, created |-> FALSE]
Failed  == [status |-> "failed", saw |-> {}, created |-> FALSE]
==============================================================================
