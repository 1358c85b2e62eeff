----------------------------- MODULE Provisioning -----------------------------
(***************************************************************************)
(* ensureOrganization (packages/auth-session/src/callback.ts) over         *)
(* provisionOrganization (packages/auth-workos/src/provider.ts): from the  *)
(* provider's authentication of a user to tokens that name an              *)
(* organization.  Four calls to the provider, each of which may fail, lose *)
(* its answer after taking effect, or outlive the process that made it,    *)
(* and any number of sign-ins of one person at once.                       *)
(***************************************************************************)
CONSTANTS Handlers, Users, Workspaces, Team, Invited, NoOrg, Nobody, Policy,
          Faults       \* which of AllFaults the environment produces

AllFaults == {"refuse", "lose", "kill"}
Orgs == Workspaces \union {Team}

\* What the constants are: SignIn, which starts these requests, assumes it.
OrganizationsAssumption ==
  /\ Team \notin Workspaces /\ NoOrg \notin Orgs /\ Nobody \notin Users
  /\ Invited \subseteq Users
  /\ Policy \in {"personal", "existing"} /\ Faults \subseteq AllFaults

VARIABLES founder,   \* provider: whom each workspace was created for (history)
          holder,    \* provider: whose external id each workspace holds
          members,   \* provider: <<user, organization>> memberships
          step,      \* per request, the provider call it waits for
          answer,    \* per request, the provider's answer to that call
          user, org, \* per request, the authentication it holds
          target,    \* per request, the organization it provisions
          alive      \* per request, whether its process still runs
atProvider == <<founder, holder, members>>
vars == <<atProvider, step, answer, user, org, target, alive>>

Calls == {"signin", "create", "adopt", "join", "refresh"}
Steps == Calls \union {"idle", "established", "failed"}
Answers == {"none", "ok", "conflict", "failure"}

TypeOK ==
  /\ founder \in [Workspaces -> Users \union {Nobody}]
  /\ holder \in [Workspaces -> Users \union {Nobody}]
  /\ members \subseteq Users \X Orgs
  /\ step \in [Handlers -> Steps]
  /\ answer \in [Handlers -> Answers]
  /\ user \in [Handlers -> Users \union {Nobody}]
  /\ org \in [Handlers -> Orgs \union {NoOrg}]
  /\ target \in [Handlers -> Workspaces \union {NoOrg}]
  /\ alive \in [Handlers -> BOOLEAN]

Init ==
  /\ founder = [o \in Workspaces |-> Nobody]
  /\ holder = [o \in Workspaces |-> Nobody]
  /\ members = {<<u, Team>> : u \in Invited}
  /\ step = [h \in Handlers |-> "idle"]
  /\ answer = [h \in Handlers |-> "none"]
  /\ user = [h \in Handlers |-> Nobody]
  /\ org = [h \in Handlers |-> NoOrg]
  /\ target = [h \in Handlers |-> NoOrg]
  /\ alive = [h \in Handlers |-> TRUE]

-----------------------------------------------------------------------------
(* The provider's side of each call.                                       *)

Waits(h, call) == step[h] = call /\ answer[h] = "none"
Replies(h, how) == answer' = [answer EXCEPT ![h] = how]

\* The organizations a person belongs to.
Of(u) == {o \in Orgs : <<u, o>> \in members}

\* The provider authenticates u for this request. Its token names the one
\* organization u belongs to, or none. It refuses to choose among several.
Authenticate(h, u) ==
  /\ step[h] = "idle" /\ alive[h]
  /\ step' = [step EXCEPT ![h] = "signin"]
  /\ user' = [user EXCEPT ![h] = u]
  /\ \E o \in Orgs \union {NoOrg} :
       /\ Of(u) = IF o = NoOrg THEN {} ELSE {o}
       /\ org' = [org EXCEPT ![h] = o]
  /\ Replies(h, "ok")
  /\ UNCHANGED <<atProvider, target, alive>>

\* Wrong on purpose: no external id is sent.
NoExternalId(h) == Nobody
\* `signup:${authentication.user.id}`.
ExternalId(h) == user[h]

Holding(h) == {o \in Workspaces : holder[o] = ExternalId(h) /\ ExternalId(h) # Nobody}
NotFounded == {o \in Workspaces : founder[o] = Nobody}

\* An external id is unique across the environment.
Create(h) ==
  /\ Waits(h, "create")
  /\ \/ /\ Holding(h) # {}
        /\ Replies(h, "conflict")
        /\ UNCHANGED <<founder, holder, target>>
     \/ /\ Holding(h) = {}
        /\ \E o \in NotFounded :
             /\ founder' = [founder EXCEPT ![o] = user[h]]
             /\ holder' = [holder EXCEPT ![o] = ExternalId(h)]
             /\ target' = [target EXCEPT ![h] = o]
        /\ Replies(h, "ok")
  /\ UNCHANGED <<members, step, user, org, alive>>

\* getOrganizationByExternalId.
Adopt(h) ==
  /\ Waits(h, "adopt")
  /\ \E o \in Holding(h) : target' = [target EXCEPT ![h] = o]
  /\ Replies(h, "ok")
  /\ UNCHANGED <<atProvider, step, user, org, alive>>

\* Creating a membership that already exists returns the existing one.
Join(h) ==
  /\ Waits(h, "join")
  /\ members' = members \union {<<user[h], target[h]>>}
  /\ Replies(h, "ok")
  /\ UNCHANGED <<founder, holder, step, user, org, target, alive>>

\* refreshTokens for the organization: its token names it.
Refresh(h) ==
  /\ Waits(h, "refresh")
  /\ <<user[h], target[h]>> \in members
  /\ org' = [org EXCEPT ![h] = target[h]]
  /\ Replies(h, "ok")
  /\ UNCHANGED <<atProvider, step, user, target, alive>>

-----------------------------------------------------------------------------
(* The handler's side.                                                     *)

\* Wrong on purpose: no refresh once joined.
AfterWithoutRefresh(h) ==
  IF answer[h] = "failure" THEN "failed"
  ELSE CASE step[h] = "signin" -> IF org[h] # NoOrg THEN "established" ELSE "create"
    [] step[h] = "create" -> IF answer[h] = "conflict" THEN "adopt" ELSE "join"
    [] step[h] = "adopt" -> "join"
    [] OTHER -> "established"
\* What the handler does with an answer: the next call, or its end. Every
\* failure but the conflict of a create is thrown to the handler's catch.
After(h) ==
  IF answer[h] = "failure" THEN "failed"
  ELSE CASE step[h] = "signin" ->
         IF Policy = "existing" \/ org[h] # NoOrg THEN "established" ELSE "create"
    [] step[h] = "create" -> IF answer[h] = "conflict" THEN "adopt" ELSE "join"
    [] step[h] = "adopt" -> "join"
    [] step[h] = "join" -> "refresh"
    [] step[h] = "refresh" -> "established"

Continue(h) ==
  /\ alive[h] /\ step[h] \in Calls /\ answer[h] # "none"
  /\ LET next == After(h)
     IN /\ step' = [step EXCEPT ![h] = next]
        /\ answer' = IF next \in Calls THEN [answer EXCEPT ![h] = "none"] ELSE answer
  /\ UNCHANGED <<atProvider, user, org, target, alive>>

\* The provider refuses or cannot be reached; nothing happened there.
Refused(h) ==
  /\ "refuse" \in Faults
  /\ step[h] \in Calls /\ answer[h] = "none"
  /\ Replies(h, "failure")
  /\ UNCHANGED <<atProvider, step, user, org, target, alive>>

\* The call took effect and its answer is lost on the way.
AnswerLost(h) ==
  /\ "lose" \in Faults
  /\ step[h] \in Calls /\ answer[h] \in {"ok", "conflict"}
  /\ Replies(h, "failure")
  /\ UNCHANGED <<atProvider, step, user, org, target, alive>>

\* The process ends. A call it has made may still take effect.
ProcessEnds(h) ==
  /\ "kill" \in Faults
  /\ alive[h] /\ step[h] \in Calls
  /\ alive' = [alive EXCEPT ![h] = FALSE]
  /\ UNCHANGED <<atProvider, step, answer, user, org, target>>

Provider(h) == Create(h) \/ Adopt(h) \/ Join(h) \/ Refresh(h)

Provision(h) == Provider(h) \/ Continue(h) \/ Refused(h) \/ AnswerLost(h) \/ ProcessEnds(h)

Next == \E h \in Handlers : Provision(h) \/ \E u \in Users : Authenticate(h, u)

Spec == Init /\ [][Next]_vars

-----------------------------------------------------------------------------
(* Properties.                                                             *)

\* How each request ended, for whoever made it.
Told(h) ==
  CASE step[h] = "established" -> [status |-> "session", user |-> user[h], org |-> org[h]]
    [] step[h] = "failed"      -> [status |-> "failed", user |-> Nobody, org |-> NoOrg]
    [] OTHER                   -> [status |-> "pending", user |-> Nobody, org |-> NoOrg]

Promise == INSTANCE Signup
             WITH own <- {p \in Users \X Workspaces : founder[p[2]] = p[1]},
                  told <- [h \in Handlers |-> Told(h)]

\* Signing up keeps its promise across repetition, loss and process ends.
SignupImplemented == Promise!Spec

\* A callback delivered twice, or two tabs finishing at once, cannot leave one
\* person holding two organizations.
OneWorkspaceEach == Promise!OneWorkspaceEach
==============================================================================
