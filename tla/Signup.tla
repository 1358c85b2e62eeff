-------------------------------- MODULE Signup --------------------------------
(***************************************************************************)
(* What signing up promises, whatever is repeated, lost or interrupted:    *)
(* a person's workspace is founded once, a sign-in that ends in a session  *)
(* ends in an organization the person belongs to, and nothing founded or   *)
(* joined is ever lost.  Provisioning is shown to implement it.            *)
(***************************************************************************)
CONSTANTS Handlers,    \* requests that sign somebody in, each made once
          Users, Workspaces,
          Team,        \* an organization that is there already
          Invited,     \* the users who belong to Team from the start
          NoOrg, Nobody,
          Policy       \* "personal" or "existing"

VARIABLES own,      \* <<user, workspace>>: who each workspace was founded for
          members,  \* <<user, organization>>
          told      \* per request, how it ended
vars == <<own, members, told>>

Orgs == Workspaces \union {Team}
Pending == [status |-> "pending", user |-> Nobody, org |-> NoOrg]
Refused == [status |-> "failed", user |-> Nobody, org |-> NoOrg]
Session(u, o) == [status |-> "session", user |-> u, org |-> o]

Init == /\ own = {}
        /\ members = {<<u, Team>> : u \in Invited}
        /\ told = [h \in Handlers |-> Pending]

Found(u, o) ==
  /\ \A p \in own : p[1] # u /\ p[2] # o
  /\ own' = own \union {<<u, o>>}
  /\ UNCHANGED <<members, told>>

Join(u, o) ==
  /\ <<u, o>> \in own
  /\ members' = members \union {<<u, o>>}
  /\ UNCHANGED <<own, told>>

\* Only the "existing" policy lets a person in without an organization.
Admit(h, u, o) ==
  /\ told[h] = Pending
  /\ <<u, o>> \in members \/ (Policy = "existing" /\ o = NoOrg)
  /\ told' = [told EXCEPT ![h] = Session(u, o)]
  /\ UNCHANGED <<own, members>>

Refuse(h) ==
  /\ told[h] = Pending
  /\ told' = [told EXCEPT ![h] = Refused]
  /\ UNCHANGED <<own, members>>

Next ==
  \/ \E u \in Users, o \in Workspaces : Found(u, o) \/ Join(u, o)
  \/ \E h \in Handlers : Refuse(h) \/ \E u \in Users, o \in Orgs \union {NoOrg} : Admit(h, u, o)

Spec == Init /\ [][Next]_vars

\* No person ever has two personal workspaces, and none belongs to two people
\* (callback.ts, "cannot leave one person holding two organizations").
OneWorkspaceEach ==
  \A p, q \in own : p[1] = q[1] \/ p[2] = q[2] => p = q
==============================================================================
