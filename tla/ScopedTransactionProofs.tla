----------------------- MODULE ScopedTransactionProofs -----------------------
(***************************************************************************)
(* ScopedTransaction's safety for every pool, set of callers and faults:   *)
(* no leak between borrowers, own rows only, and each request one step of  *)
(* TenantStore. The inductive invariant IInv says what the borrowed        *)
(* session holds at each step of runScoped.                                *)
(***************************************************************************)
EXTENDS ScopedTransaction, TLAPS

Borrowing == Statements \union {"rollback", "release"}

\* A client is borrowed by one request at a time, exactly while it is inside
\* withPrincipal's try and finally.
Lending ==
  /\ \A r \in Requests : using[r] # NoClient <=> pc[r] \in Borrowing
  /\ \A r, q \in Requests : using[r] = using[q] /\ using[r] # NoClient => r = q
  /\ ~up => \A r \in Requests : pc[r] \in {"start", "done"}

\* What is uncommitted is new, and new in one session only.
Apart ==
  /\ \A c \in Clients : session[c].wrote \intersect rows = {}
  /\ \A c, d \in Clients : c # d => session[c].wrote \intersect session[d].wrote = {}

Scoped(r) ==
  /\ session[using[r]].state = "open"
  /\ session[using[r]].role = "authenticated"
  /\ session[using[r]].claims = Principal(r)
  /\ session[using[r]].wrote \subseteq Writes(r)

Stored(r) == rows \union session[using[r]].wrote

\* How far request r has come, and what its session and its result hold then.
AtStep(r) ==
  /\ outcome[r] = "none" <=> pc[r] \in Statements \union {"start", "connect"}
  /\ outcome[r] # "conflict"
  /\ pc[r] \in {"start", "connect", "begin", "role", "claims", "insertAccount",
                "insertProfile", "countAccounts", "findAccount"} => saw[r] = {}
  /\ pc[r] = "begin" => session[using[r]] = Idle
  /\ pc[r] = "role" => session[using[r]] = [Idle EXCEPT !.state = "open"]
  /\ pc[r] = "claims" =>
       session[using[r]] = [Idle EXCEPT !.state = "open", !.role = "authenticated"]
  /\ pc[r] = "insertAccount" =>
       /\ Scoped(r) /\ OrgOf[r] # NoOrg /\ KindOf[r] # "read"
       /\ session[using[r]].wrote = {}
  /\ pc[r] = "insertProfile" =>
       /\ Scoped(r) /\ KindOf[r] = "workspace"
       /\ OwnAccount(r) \subseteq Stored(r)
       /\ session[using[r]].wrote \subseteq OwnAccount(r)
  /\ pc[r] = "countAccounts" =>
       /\ Scoped(r) /\ KindOf[r] = "workspace" /\ Writes(r) \subseteq Stored(r)
  /\ pc[r] = "countProfiles" =>
       /\ Scoped(r) /\ KindOf[r] = "workspace" /\ Writes(r) \subseteq Stored(r)
       /\ saw[r] = OwnAccount(r)
  /\ pc[r] = "findAccount" =>
       /\ Scoped(r) /\ KindOf[r] # "workspace"
       /\ KindOf[r] = "provision" => OwnAccount(r) \subseteq rows /\ ~created[r]
  /\ pc[r] = "commit" =>
       /\ Scoped(r) /\ Writes(r) \subseteq Stored(r)
       /\ KindOf[r] # "read" => saw[r] = Writes(r)
       /\ saw[r] \subseteq Stored(r) \intersect (OwnAccount(r) \union Writes(r))
       /\ KindOf[r] = "provision" => (created[r] <=> Account(OrgOf[r]) \notin rows)
  /\ pc[r] = "rollback" =>
       session[using[r]].state # "lost" \/ session[using[r]] = [Absent EXCEPT !.state = "lost"]
  /\ pc[r] = "release" =>
       session[using[r]] \in {Idle, [Absent EXCEPT !.state = "lost"]}

Progress == \A r \in Requests : AtStep(r)

IInv == TypeOK /\ Lending /\ IdleClientIsClean /\ Apart /\ OwnRowsOnly /\ Progress

-----------------------------------------------------------------------------
(* Type correctness.                                                       *)

LEMMA RowTypes ==
  /\ Absent \in Sessions /\ Idle \in Sessions
  /\ [Absent EXCEPT !.state = "lost"] \in Sessions
  /\ \A r \in Requests :
       /\ Principal(r) \in Principals
       /\ Own(r) \subseteq Rows /\ Writes(r) \subseteq Own(r) /\ OwnAccount(r) \subseteq Own(r)
       /\ FirstOfBody(r) \in Statements
<1>1. Absent \in Sessions /\ Idle \in Sessions /\ [Absent EXCEPT !.state = "lost"] \in Sessions
  BY DEF Absent, Idle, Sessions
<1>2. ASSUME NEW r \in Requests PROVE
        /\ Principal(r) \in Principals
        /\ Own(r) \subseteq Rows /\ Writes(r) \subseteq Own(r) /\ OwnAccount(r) \subseteq Own(r)
        /\ FirstOfBody(r) \in Statements
  <2>1. UserOf[r] \in Users /\ OrgOf[r] \in Orgs \union {NoOrg} /\ KindOf[r] \in Kinds
    BY PrincipalsAssumption
  <2>2. Own(r) \subseteq Rows
    BY <2>1 DEF Own, OwnAccount, OwnProfile, Rows
  <2>3. Writes(r) \subseteq Own(r) /\ OwnAccount(r) \subseteq Own(r)
    BY <2>1 DEF Writes, Own, Kinds
  <2>4. Principal(r) \in Principals
    BY <2>1 DEF Principal, Principals
  <2>5. FirstOfBody(r) \in Statements
    BY <2>1 DEF FirstOfBody, Kinds, Statements
  <2> QED BY <2>2, <2>3, <2>4, <2>5
<1> QED BY <1>1, <1>2

(* A borrowing request has a client, and its session is well formed.       *)
LEMMA Borrows ==
  ASSUME TypeOK, Lending, NEW r \in Requests, pc[r] \in Borrowing
  PROVE  using[r] \in Clients /\ session[using[r]] \in Sessions
BY DEF TypeOK, Lending

LEMMA OfferedType ==
  ASSUME NEW r \in Requests, NEW table \in {"accounts", "profiles"},
         table = "accounts" => OrgOf[r] # NoOrg
  PROVE  Offered(r, table) \in Rows
BY PrincipalsAssumption DEF Offered, Rows

(* A step that gives one session and one request new values of their types. *)
LEMMA OneStepType ==
  ASSUME TypeOK, NEW r \in Requests, NEW c \in Clients, NEW s \in Sessions,
         session' = [session EXCEPT ![c] = s],
         rows' \subseteq Rows,
         using' \in [Requests -> Clients \union {NoClient}],
         NEW step \in Steps, pc' = [pc EXCEPT ![r] = step],
         saw' \in [Requests -> SUBSET Rows],
         created' \in [Requests -> BOOLEAN],
         outcome' \in [Requests -> {"none", "ok", "failed", "conflict"}],
         up' \in BOOLEAN
  PROVE  TypeOK'
<1>1. session' \in [Clients -> Sessions] /\ pc' \in [Requests -> Steps]
  BY DEF TypeOK
<1> QED BY <1>1 DEF TypeOK
-----------------------------------------------------------------------------
(* The inductive step, first for what a borrowing request does.            *)

(* A request whose session, row set and result did not change keeps its     *)
(* place, whatever others commit: what it wrote is still only its own.      *)
LEMMA Frame ==
  ASSUME IInv, NEW q \in Requests, NEW W, NEW r \in Requests, r # q,
         W = {} \/ (using[r] \in Clients /\ W = session[using[r]].wrote),
         rows' = rows \union W,
         pc'[q] = pc[q], using'[q] = using[q], saw'[q] = saw[q],
         created'[q] = created[q], outcome'[q] = outcome[q],
         pc[q] \in Borrowing => session'[using[q]] = session[using[q]]
  PROVE  AtStep(q)'
<1>1. AtStep(q)
  BY DEF IInv, Progress
<1>2. CASE pc[q] \notin Borrowing
  BY <1>1, <1>2 DEF AtStep, Borrowing, Statements
<1>3. CASE pc[q] \in Borrowing
  <2>1. using[q] \in Clients /\ using[q] # using[r] /\ session'[using[q]] = session[using[q]]
    <3>1. TypeOK /\ Lending
      BY DEF IInv
    <3>2. using[q] \in Clients
      BY <1>3, <3>1, Borrows
    <3> QED BY <1>3, <3>1, <3>2, ClientsAssumption DEF Lending
  <2>2. session[using[q]].wrote \intersect W = {}
    BY <2>1 DEF IInv, Apart
  <2>3. Scoped(q) => Scoped(q)'
    BY <2>1 DEF Scoped, Principal
  <2>4. Stored(q) \subseteq Stored(q)'
    BY <2>1 DEF Stored
  <2>5. pc[q] = "commit" /\ KindOf[q] = "provision" =>
          (Account(OrgOf[q]) \notin rows <=> Account(OrgOf[q]) \notin rows')
    <3> SUFFICES ASSUME pc[q] = "commit", KindOf[q] = "provision",
                        Account(OrgOf[q]) \notin rows
                 PROVE  Account(OrgOf[q]) \notin rows'
      OBVIOUS
    <3>1. Account(OrgOf[q]) \in Writes(q)
      BY PrincipalsAssumption DEF Writes, OwnAccount
    <3>2. Account(OrgOf[q]) \in session[using[q]].wrote
      BY <1>1, <3>1 DEF AtStep, Stored
    <3> QED BY <2>2, <3>2
  <2>6. Scoped(q) /\ session'[using'[q]] = session[using[q]] => Scoped(q)'
    BY DEF Scoped, Principal
  <2> QED BY <1>1, <1>3, <2>1, <2>3, <2>4, <2>5 DEF AtStep
<1> QED BY <1>2, <1>3

(* The shape of every step of a request between connect and release.        *)
LEMMA BorrowerStep ==
  ASSUME IInv, NEW r \in Requests, up, pc[r] \in Borrowing,
         NEW s \in Sessions, session' = [session EXCEPT ![using[r]] = s],
         NEW step \in Borrowing, pc' = [pc EXCEPT ![r] = step],
         NEW seen \in SUBSET Own(r), saw' = [saw EXCEPT ![r] = seen],
         NEW new \in BOOLEAN, created' = [created EXCEPT ![r] = new],
         NEW how \in {"none", "ok", "failed", "conflict"},
         outcome' = [outcome EXCEPT ![r] = how],
         UNCHANGED <<using, up>>,
         NEW W, W = {} \/ W = session[using[r]].wrote, rows' = rows \union W,
         s.wrote \intersect rows' = {},
         \A d \in Clients \ {using[r]} : s.wrote \intersect session[d].wrote = {},
         AtStep(r)'
  PROVE  IInv'
<1> DEFINE c == using[r]
<1>1. /\ TypeOK /\ Lending /\ IdleClientIsClean /\ Apart /\ OwnRowsOnly /\ Progress
      /\ c \in Clients /\ session[c] \in Sessions
  BY Borrows DEF IInv
<1>2. /\ session'[c] = s /\ \A d \in Clients \ {c} : session'[d] = session[d]
      /\ pc'[r] = step /\ saw'[r] = seen
      /\ \A q \in Requests \ {r} :
           /\ pc'[q] = pc[q] /\ saw'[q] = saw[q]
           /\ created'[q] = created[q] /\ outcome'[q] = outcome[q]
  BY <1>1 DEF TypeOK
<1>3. TypeOK'
  <2>1. W \subseteq Rows
    BY <1>1 DEF Sessions
  <2>2. step \in Steps /\ Own(r) \subseteq Rows
    BY RowTypes DEF Borrowing, Steps
  <2>3. /\ rows' \subseteq Rows
        /\ saw' \in [Requests -> SUBSET Rows]
        /\ created' \in [Requests -> BOOLEAN]
        /\ outcome' \in [Requests -> {"none", "ok", "failed", "conflict"}]
        /\ using' \in [Requests -> Clients \union {NoClient}]
        /\ up' \in BOOLEAN
    BY <1>1, <2>1, <2>2 DEF TypeOK
  <2> QED BY <1>1, <2>2, <2>3, OneStepType
<1>4. Lending'
  BY <1>1, <1>2 DEF Lending
<1>5. IdleClientIsClean'
  BY <1>1, <1>2 DEF IdleClientIsClean, Lent
<1>6. Apart'
  <2>1. \A d \in Clients \ {c} : session[d].wrote \intersect rows' = {}
    BY <1>1 DEF Apart
  <2> QED BY <1>1, <1>2, <2>1 DEF Apart
<1>7. OwnRowsOnly'
  BY <1>1, <1>2 DEF OwnRowsOnly, Own, OwnAccount, OwnProfile
<1>8. Progress'
  <2> SUFFICES ASSUME NEW q \in Requests, q # r PROVE AtStep(q)'
    BY DEF Progress
  <2>1. pc[q] \in Borrowing => using[q] \in Clients /\ using[q] # c
    BY <1>1, Borrows, ClientsAssumption DEF Lending
  <2> QED BY <1>1, <1>2, <2>1, Frame, SMTT(30)
<1> QED BY <1>3, <1>4, <1>5, <1>6, <1>7, <1>8 DEF IInv
(* What the invariant says of one borrower, in the form the steps use.      *)
LEMMA Borrower ==
  ASSUME IInv, NEW r \in Requests, pc[r] \in Borrowing
  PROVE  /\ using[r] \in Clients /\ session[using[r]] \in Sessions
         /\ AtStep(r) /\ saw[r] \in SUBSET Own(r)
         /\ rows \subseteq Rows /\ session[using[r]].wrote \intersect rows = {}
         /\ \A d \in Clients \ {using[r]} :
              session[using[r]].wrote \intersect session[d].wrote = {}
         /\ pc \in [Requests -> Steps] /\ saw \in [Requests -> SUBSET Rows]
         /\ created \in [Requests -> BOOLEAN]
         /\ outcome \in [Requests -> {"none", "ok", "failed", "conflict"}]
         /\ session \in [Clients -> Sessions]
BY Borrows DEF IInv, TypeOK, Apart, OwnRowsOnly, Progress

(* Row level security under the claims of r returns r's rows and no others. *)
LEMMA VisibleIsOwn ==
  ASSUME IInv, NEW r \in Requests, pc[r] \in Borrowing, Scoped(r)
  PROVE  /\ Visible(using[r], "accounts") = Stored(r) \intersect OwnAccount(r)
         /\ Visible(using[r], "profiles") = Stored(r) \intersect OwnProfile(r)
<1> DEFINE claims == session[using[r]].claims
<1>1. Stored(r) \subseteq Rows
  BY Borrower DEF Stored, Sessions
<1>2. /\ claims = Principal(r) /\ claims.org = OrgOf[r] /\ claims.user = UserOf[r]
      /\ claims # NoClaims
  BY PrincipalsAssumption, ClaimsAssumption DEF Scoped, Principal, Principals
<1>3. \A row \in Stored(r) : Admits(claims, row) <=>
        row = Account(OrgOf[r]) \/ row = Profile(UserOf[r])
  BY <1>2 DEF Admits
<1>4. ASSUME NEW row \in Stored(r) PROVE
        /\ row[1] = "accounts" /\ Admits(claims, row) <=> row \in OwnAccount(r)
        /\ row[1] = "profiles" /\ Admits(claims, row) <=> row \in OwnProfile(r)
  <2>1. (\E o \in Orgs : row = <<"accounts", o>>) \/ (\E u \in Users : row = <<"profiles", u>>)
    BY <1>1, <1>4 DEF Rows, Account, Profile
  <2>2. OrgOf[r] = NoOrg => row # Account(OrgOf[r])
    BY <2>1, PrincipalsAssumption DEF Account
  <2> QED BY <1>3, <2>1, <2>2 DEF Account, Profile, OwnAccount, OwnProfile
<1> QED BY <1>4 DEF Visible, Stored, Scoped

(* A borrower's step that reads nothing, commits nothing and settles nothing. *)
LEMMA QuietStep ==
  ASSUME IInv, NEW r \in Requests, up, pc[r] \in Borrowing,
         NEW s \in Sessions, session' = [session EXCEPT ![using[r]] = s],
         NEW step \in Borrowing, pc' = [pc EXCEPT ![r] = step],
         UNCHANGED <<rows, using, saw, created, outcome, up>>,
         s.wrote \intersect rows = {},
         \A d \in Clients \ {using[r]} : s.wrote \intersect session[d].wrote = {},
         AtStep(r)'
  PROVE  IInv'
<1>1. /\ saw' = [saw EXCEPT ![r] = saw[r]] /\ created' = [created EXCEPT ![r] = created[r]]
      /\ outcome' = [outcome EXCEPT ![r] = outcome[r]] /\ rows' = rows \union {}
      /\ saw[r] \in SUBSET Own(r) /\ created[r] \in BOOLEAN
      /\ outcome[r] \in {"none", "ok", "failed", "conflict"}
  BY Borrower
<1> QED BY <1>1, BorrowerStep

LEMMA BeginStep == ASSUME IInv, NEW r \in Requests, Begin(r) PROVE IInv'
<1> DEFINE s == [Idle EXCEPT !.state = "open"]
<1>1. /\ pc[r] \in Borrowing /\ "role" \in Borrowing /\ pc[r] = "begin" /\ pc'[r] = "role"
      /\ session[using[r]] = Idle
      /\ outcome[r] = "none" /\ outcome[r] # "conflict" /\ saw[r] = {}
  BY Borrower DEF Begin, Goto, Borrowing, Statements, AtStep
<1>2. session' = [session EXCEPT ![using[r]] = s] /\ s \in Sessions /\ s.wrote = {}
  BY <1>1, Borrower DEF Begin, Idle, Absent, Sessions
<1>3. AtStep(r)'
  BY <1>1, <1>2, Borrower DEF AtStep, Statements, Begin
<1> HIDE DEF s
<1> QED BY <1>1, <1>2, <1>3, QuietStep DEF Begin, Goto

LEMMA SetRoleStep == ASSUME IInv, NEW r \in Requests, SetRole(r) PROVE IInv'
<1> DEFINE s == [Idle EXCEPT !.state = "open", !.role = "authenticated"]
<1>1. /\ pc[r] \in Borrowing /\ "claims" \in Borrowing /\ pc[r] = "role" /\ pc'[r] = "claims"
      /\ session[using[r]] = [Idle EXCEPT !.state = "open"]
      /\ outcome[r] = "none" /\ outcome[r] # "conflict" /\ saw[r] = {}
  BY Borrower DEF SetRole, Goto, Borrowing, Statements, AtStep
<1>2. session' = [session EXCEPT ![using[r]] = s] /\ s \in Sessions /\ s.wrote = {}
  BY <1>1, Borrower DEF SetRole, Idle, Absent, Sessions
<1>3. AtStep(r)'
  BY <1>1, <1>2, Borrower DEF AtStep, Statements, SetRole
<1> HIDE DEF s
<1> QED BY <1>1, <1>2, <1>3, QuietStep DEF SetRole, Goto

LEMMA SetClaimsStep == ASSUME IInv, NEW r \in Requests, SetClaims(r) PROVE IInv'
<1> DEFINE s == [Idle EXCEPT !.state = "open", !.role = "authenticated",
                             !.claims = Principal(r)]
<1>1. /\ pc[r] \in Borrowing /\ pc[r] = "claims" /\ pc'[r] = FirstOfBody(r)
      /\ session[using[r]] = [Idle EXCEPT !.state = "open", !.role = "authenticated"]
      /\ outcome[r] = "none" /\ outcome[r] # "conflict" /\ saw[r] = {}
  BY Borrower DEF SetClaims, Goto, Borrowing, Statements, AtStep
<1>2. FirstOfBody(r) \in Borrowing /\ FirstOfBody(r) \in Statements /\ Principal(r) \in Principals
  BY RowTypes DEF Borrowing
<1>3. session' = [session EXCEPT ![using[r]] = s] /\ s \in Sessions /\ s.wrote = {}
  BY <1>1, <1>2, Borrower DEF SetClaims, Idle, Absent, Sessions
<1>4. AtStep(r)'
  <2>1. session'[using'[r]] = s /\ saw'[r] = {} /\ outcome'[r] = "none"
    BY <1>1, <1>3, Borrower DEF SetClaims
  <2>2. Scoped(r)' /\ session'[using'[r]].wrote = {}
    BY <1>3, <2>1, ZenonT(60) DEF Scoped, Idle, Absent, Principal
  <2>3. KindOf[r] \in Kinds /\ (KindOf[r] # "workspace" => OrgOf[r] # NoOrg)
    BY PrincipalsAssumption
  <2>4. CASE FirstOfBody(r) = "insertAccount"
    <3>1. KindOf[r] # "read" /\ OrgOf[r] # NoOrg
      BY <2>3, <2>4 DEF FirstOfBody, Kinds
    <3> QED BY <1>1, <2>1, <2>2, <2>4, <3>1 DEF AtStep, Statements
  <2>5. CASE FirstOfBody(r) = "insertProfile"
    <3>1. KindOf[r] = "workspace" /\ OwnAccount(r) = {}
      BY <2>3, <2>5 DEF FirstOfBody, Kinds, OwnAccount
    <3> QED BY <1>1, <2>1, <2>2, <2>5, <3>1 DEF AtStep, Statements
  <2>6. CASE FirstOfBody(r) = "findAccount"
    <3>1. KindOf[r] = "read"
      BY <2>3, <2>6 DEF FirstOfBody, Kinds
    <3> QED BY <1>1, <2>1, <2>2, <2>6, <3>1 DEF AtStep, Statements
  <2> QED BY <2>3, <2>4, <2>5, <2>6 DEF FirstOfBody, Kinds
<1> HIDE DEF s
<1> QED BY <1>1, <1>2, <1>3, <1>4, QuietStep DEF SetClaims, Goto
(* After an insert the offered row is stored, and still nobody else's.      *)
LEMMA InsertEffect ==
  ASSUME IInv, NEW r \in Requests, pc[r] \in Borrowing, Scoped(r),
         NEW table \in {"accounts", "profiles"},
         Offered(r, table) \in Rows, Offered(r, table) \in Writes(r), Insert(r, table)
  PROVE  \E s \in Sessions :
           /\ session' = [session EXCEPT ![using[r]] = s]
           /\ s.wrote = session[using[r]].wrote \union ({Offered(r, table)} \ rows)
           /\ s.wrote \subseteq Writes(r)
           /\ s.wrote \intersect rows = {}
           /\ \A d \in Clients \ {using[r]} : s.wrote \intersect session[d].wrote = {}
           /\ s.state = "open" /\ s.role = "authenticated" /\ s.claims = Principal(r)
<1> DEFINE row == Offered(r, table)
           old == session[using[r]]
           W == IF Inserts(using[r], row) THEN old.wrote \union {row} ELSE old.wrote
           s == [old EXCEPT !.wrote = W]
<1>1. /\ using[r] \in Clients /\ old \in Sessions /\ old.wrote \intersect rows = {}
      /\ \A d \in Clients \ {using[r]} : old.wrote \intersect session[d].wrote = {}
      /\ old.wrote \subseteq Writes(r)
      /\ old.state = "open" /\ old.role = "authenticated" /\ old.claims = Principal(r)
  BY Borrower DEF Scoped
<1>2. \A d \in Clients \ {using[r]} : row \notin session[d].wrote
  BY DEF Insert, Waits
<1>3. session' = [session EXCEPT ![using[r]] = s]
  BY <1>1, Borrower DEF Insert
<1>4. W = old.wrote \union ({row} \ rows)
  BY <1>1 DEF Inserts
<1>5. W \subseteq Rows
  BY <1>1, <1>4 DEF Sessions
<1>6. s \in Sessions /\ s.wrote = W /\ s.state = "open" /\ s.role = "authenticated"
      /\ s.claims = Principal(r)
  <2> HIDE DEF W
  <2> QED BY <1>1, <1>5 DEF Sessions
<1> HIDE DEF s, W, row
<1>7. W \subseteq Writes(r) /\ W \intersect rows = {}
      /\ \A d \in Clients \ {using[r]} : W \intersect session[d].wrote = {}
  BY <1>1, <1>2, <1>4 DEF row
<1> QED BY <1>3, <1>4, <1>6, <1>7 DEF row

LEMMA InsertAccountStep == ASSUME IInv, NEW r \in Requests, InsertAccount(r) PROVE IInv'
<1> DEFINE row == Offered(r, "accounts")
           returned == Inserts(using[r], row)
<1>1. /\ pc[r] = "insertAccount" /\ pc[r] \in Borrowing /\ Scoped(r)
      /\ OrgOf[r] # NoOrg /\ KindOf[r] \in {"workspace", "provision"}
      /\ session[using[r]].wrote = {} /\ saw[r] = {} /\ outcome[r] = "none"
      /\ using[r] \in Clients
  <2>1. pc[r] = "insertAccount" /\ pc[r] \in Borrowing
    BY DEF InsertAccount, Borrowing, Statements
  <2>2. AtStep(r) /\ using[r] \in Clients
    BY <2>1, Borrower
  <2> QED BY <2>1, <2>2, PrincipalsAssumption DEF AtStep, Kinds, Statements
<1>2. /\ row = Account(OrgOf[r]) /\ OwnAccount(r) = {row} /\ row \in Rows
      /\ row \in Writes(r) /\ OwnAccount(r) \subseteq Own(r)
      /\ KindOf[r] = "provision" => Writes(r) = {row}
  BY <1>1, OfferedType DEF Offered, OwnAccount, Own, Writes
<1>3. PICK s \in Sessions :
        /\ session' = [session EXCEPT ![using[r]] = s]
        /\ s.wrote = {row} \ rows
        /\ s.wrote \subseteq Writes(r)
        /\ s.wrote \intersect rows = {}
        /\ \A d \in Clients \ {using[r]} : s.wrote \intersect session[d].wrote = {}
        /\ s.state = "open" /\ s.role = "authenticated" /\ s.claims = Principal(r)
  BY <1>1, <1>2, InsertEffect, SMTT(30) DEF InsertAccount
<1>4. returned <=> row \notin rows
  BY <1>1 DEF Inserts
<1>5. /\ created' = [created EXCEPT ![r] = returned] /\ returned \in BOOLEAN
      /\ created'[r] = returned
      /\ rows' = rows /\ using' = using /\ outcome' = outcome /\ up /\ up' = up
      /\ outcome' = [outcome EXCEPT ![r] = "none"]
      /\ rows' = rows \union {} /\ {} \in SUBSET Own(r)
  BY <1>1, Borrower DEF InsertAccount, Inserts
<1>6. session'[using'[r]] = s /\ Scoped(r)' /\ row \in Stored(r)'
  BY <1>1, <1>3, <1>5, Borrower DEF Scoped, Stored, Principal
<1>10. /\ {"insertProfile", "commit", "findAccount"} \subseteq Borrowing
       /\ s.wrote \intersect rows' = {} /\ UNCHANGED <<using, up>>
  BY <1>3, <1>5 DEF Borrowing, Statements
<1> HIDE DEF returned, row
<1>7. CASE KindOf[r] = "workspace"
  <2>1. /\ pc' = [pc EXCEPT ![r] = "insertProfile"] /\ pc'[r] = "insertProfile"
        /\ saw' = [saw EXCEPT ![r] = {}] /\ saw'[r] = {}
    BY <1>1, <1>7, Borrower DEF InsertAccount, Goto
  <2>2. AtStep(r)'
    BY <1>1, <1>2, <1>3, <1>5, <1>6, <1>7, <2>1 DEF AtStep, Statements
  <2> QED BY <1>1, <1>3, <1>5, <1>10, <2>1, <2>2, BorrowerStep, ZenonT(60)
<1>8. CASE KindOf[r] = "provision" /\ returned
  <2>1. /\ pc' = [pc EXCEPT ![r] = "commit"] /\ pc'[r] = "commit"
        /\ saw' = [saw EXCEPT ![r] = {row}] /\ saw'[r] = {row}
    BY <1>1, <1>8, Borrower DEF InsertAccount, Goto, returned, row
  <2>2. AtStep(r)'
    BY <1>1, <1>2, <1>4, <1>5, <1>6, <1>8, <2>1 DEF AtStep, Statements
  <2>3. {row} \in SUBSET Own(r)
    BY <1>2
  <2> QED BY <1>1, <1>3, <1>5, <1>10, <2>1, <2>2, <2>3, BorrowerStep, ZenonT(60)
<1>9. CASE KindOf[r] = "provision" /\ ~returned
  <2>1. /\ pc' = [pc EXCEPT ![r] = "findAccount"] /\ pc'[r] = "findAccount"
        /\ saw' = [saw EXCEPT ![r] = {}] /\ saw'[r] = {}
    BY <1>1, <1>9, Borrower DEF InsertAccount, Goto, returned, row
  <2>2. AtStep(r)'
    BY <1>1, <1>2, <1>4, <1>5, <1>6, <1>9, <2>1 DEF AtStep, Statements
  <2> QED BY <1>1, <1>3, <1>5, <1>10, <2>1, <2>2, BorrowerStep, ZenonT(60)
<1> QED BY <1>1, <1>7, <1>8, <1>9

LEMMA InsertProfileStep == ASSUME IInv, NEW r \in Requests, InsertProfile(r) PROVE IInv'
<1> DEFINE row == Offered(r, "profiles")
<1>1. /\ pc[r] = "insertProfile" /\ pc[r] \in Borrowing /\ Scoped(r)
      /\ KindOf[r] = "workspace" /\ OwnAccount(r) \subseteq Stored(r)
      /\ saw[r] = {} /\ outcome[r] = "none" /\ using[r] \in Clients
  <2>1. pc[r] = "insertProfile" /\ pc[r] \in Borrowing
    BY DEF InsertProfile, Borrowing, Statements
  <2>2. AtStep(r) /\ using[r] \in Clients
    BY <2>1, Borrower
  <2> QED BY <2>1, <2>2 DEF AtStep, Statements
<1>2. OwnProfile(r) = {row} /\ row \in Rows /\ row \in Writes(r)
      /\ Writes(r) = OwnAccount(r) \union {row}
  BY <1>1, OfferedType DEF Offered, OwnProfile, Own, Writes
<1>3. PICK s \in Sessions :
        /\ session' = [session EXCEPT ![using[r]] = s]
        /\ s.wrote = session[using[r]].wrote \union ({row} \ rows)
        /\ s.wrote \subseteq Writes(r)
        /\ s.wrote \intersect rows = {}
        /\ \A d \in Clients \ {using[r]} : s.wrote \intersect session[d].wrote = {}
        /\ s.state = "open" /\ s.role = "authenticated" /\ s.claims = Principal(r)
  BY <1>1, <1>2, InsertEffect DEF InsertProfile
<1>4. /\ pc'[r] = "countAccounts" /\ UNCHANGED <<rows, using, saw, created, outcome, up>>
      /\ up /\ pc' = [pc EXCEPT ![r] = "countAccounts"]
  BY <1>1, Borrower DEF InsertProfile, Goto
<1>5. AtStep(r)'
  <2>1. session'[using'[r]] = s
    BY <1>1, <1>3, <1>4, Borrower
  <2>2. Scoped(r)' /\ Writes(r) \subseteq Stored(r)'
    BY <1>1, <1>2, <1>3, <1>4, <2>1 DEF Scoped, Stored, Principal
  <2> QED BY <1>1, <1>4, <2>1, <2>2 DEF AtStep, Statements
<1> QED BY <1>1, <1>3, <1>4, <1>5, QuietStep DEF Borrowing, Statements
(* A query: the session stays as it is and what was seen is remembered.     *)
LEMMA QueryStep ==
  ASSUME IInv, NEW r \in Requests, up, pc[r] \in Borrowing,
         NEW step \in Borrowing, pc' = [pc EXCEPT ![r] = step],
         NEW seen \in SUBSET Own(r), saw' = [saw EXCEPT ![r] = seen],
         NEW how \in {"none", "ok", "failed", "conflict"},
         outcome' = [outcome EXCEPT ![r] = how],
         UNCHANGED <<rows, session, using, created, up>>,
         AtStep(r)'
  PROVE  IInv'
<1> DEFINE s == session[using[r]]
<1>1. /\ session' = [session EXCEPT ![using[r]] = s] /\ s \in Sessions
      /\ created' = [created EXCEPT ![r] = created[r]] /\ created[r] \in BOOLEAN
      /\ rows' = rows \union {}
      /\ s.wrote \intersect rows' = {}
      /\ \A d \in Clients \ {using[r]} : s.wrote \intersect session[d].wrote = {}
  BY Borrower
<1> HIDE DEF s
<1> QED BY <1>1, BorrowerStep

LEMMA CountAccountsStep == ASSUME IInv, NEW r \in Requests, CountAccounts(r) PROVE IInv'
<1> DEFINE seen == saw[r] \union Visible(using[r], "accounts")
<1>1. pc[r] = "countAccounts" /\ pc[r] \in Borrowing /\ AtStep(r) /\ using[r] \in Clients
  BY Borrower DEF CountAccounts, Borrowing, Statements
<1>2. /\ Scoped(r) /\ KindOf[r] = "workspace" /\ Writes(r) \subseteq Stored(r)
      /\ saw[r] = {} /\ outcome[r] = "none"
  BY <1>1 DEF AtStep, Statements
<1>3. seen = OwnAccount(r) /\ seen \in SUBSET Own(r)
  BY <1>1, <1>2, VisibleIsOwn DEF Writes, Own
<1>4. /\ up /\ pc' = [pc EXCEPT ![r] = "countProfiles"] /\ pc'[r] = "countProfiles"
      /\ saw' = [saw EXCEPT ![r] = seen] /\ saw'[r] = seen
      /\ outcome' = [outcome EXCEPT ![r] = "none"] /\ outcome'[r] = "none"
      /\ UNCHANGED <<rows, session, using, created, up>>
  BY <1>1, <1>2, Borrower DEF CountAccounts, Goto
<1> HIDE DEF seen
<1>5. AtStep(r)'
  BY <1>1, <1>2, <1>3, <1>4 DEF AtStep, Scoped, Stored, Principal, Statements
<1> QED BY <1>1, <1>3, <1>4, <1>5, QueryStep DEF Borrowing, Statements

LEMMA CountProfilesStep == ASSUME IInv, NEW r \in Requests, CountProfiles(r) PROVE IInv'
<1> DEFINE seen == saw[r] \union Visible(using[r], "profiles")
<1>1. pc[r] = "countProfiles" /\ pc[r] \in Borrowing /\ AtStep(r) /\ using[r] \in Clients
  BY Borrower DEF CountProfiles, Borrowing, Statements
<1>2. /\ Scoped(r) /\ KindOf[r] = "workspace" /\ Writes(r) \subseteq Stored(r)
      /\ saw[r] = OwnAccount(r) /\ outcome[r] = "none"
  BY <1>1 DEF AtStep, Statements
<1>3. seen = Writes(r) /\ seen \in SUBSET Own(r) /\ seen \subseteq Stored(r)
  BY <1>1, <1>2, VisibleIsOwn DEF Writes, Own
<1>4. /\ up /\ pc' = [pc EXCEPT ![r] = "commit"] /\ pc'[r] = "commit"
      /\ saw' = [saw EXCEPT ![r] = seen] /\ saw'[r] = seen
      /\ outcome' = [outcome EXCEPT ![r] = "none"] /\ outcome'[r] = "none"
      /\ UNCHANGED <<rows, session, using, created, up>>
  BY <1>1, <1>2, Borrower DEF CountProfiles, Goto
<1> HIDE DEF seen
<1>5. Scoped(r)' /\ Stored(r)' = Stored(r)
  BY <1>2, <1>4 DEF Scoped, Stored, Principal
<1>6. AtStep(r)'
  BY <1>1, <1>2, <1>3, <1>4, <1>5 DEF AtStep, Statements
<1> QED BY <1>1, <1>3, <1>4, <1>6, QueryStep DEF Borrowing, Statements

(* What provisionAccount conflicted with is there: it never throws.         *)
LEMMA FindAccountStep == ASSUME IInv, NEW r \in Requests, FindAccount(r) PROVE IInv'
<1> DEFINE found == Visible(using[r], "accounts")
<1>1. pc[r] = "findAccount" /\ pc[r] \in Borrowing /\ AtStep(r) /\ using[r] \in Clients
  BY Borrower DEF FindAccount, Borrowing, Statements
<1>2. /\ Scoped(r) /\ KindOf[r] \in {"provision", "read"} /\ saw[r] = {} /\ outcome[r] = "none"
      /\ KindOf[r] = "provision" => OwnAccount(r) \subseteq rows /\ ~created[r]
      /\ OrgOf[r] # NoOrg
  BY <1>1, PrincipalsAssumption DEF AtStep, Statements, Kinds
<1>3. found = Stored(r) \intersect OwnAccount(r) /\ found \in SUBSET Own(r)
  BY <1>1, <1>2, VisibleIsOwn DEF Own
<1>4. /\ OwnAccount(r) = {Account(OrgOf[r])}
      /\ KindOf[r] = "provision" =>
           /\ found = Writes(r) /\ found # {}
           /\ Account(OrgOf[r]) \in rows /\ Writes(r) \subseteq Stored(r)
      /\ KindOf[r] = "read" => Writes(r) = {}
  BY <1>2, <1>3 DEF OwnAccount, Writes, Stored
<1>5. /\ up /\ pc' = [pc EXCEPT ![r] = "commit"] /\ pc'[r] = "commit"
      /\ saw' = [saw EXCEPT ![r] = found] /\ saw'[r] = found
      /\ outcome' = [outcome EXCEPT ![r] = "none"] /\ outcome'[r] = "none"
      /\ UNCHANGED <<rows, session, using, created, up>>
  BY <1>1, <1>2, <1>4, Borrower DEF FindAccount, Goto
<1> HIDE DEF found
<1>6. Scoped(r)' /\ Stored(r)' = Stored(r)
  BY <1>2, <1>5 DEF Scoped, Stored, Principal
<1>7. AtStep(r)'
  BY <1>1, <1>2, <1>3, <1>4, <1>5, <1>6 DEF AtStep, Statements
<1> QED BY <1>1, <1>3, <1>5, <1>7, QueryStep DEF Borrowing, Statements

(* The steps that settle a request, and ROLLBACK: afterwards its session    *)
(* holds no uncommitted row.                                                *)
LEMMA SettlingStep ==
  ASSUME IInv, NEW r \in Requests, up, pc[r] \in Borrowing,
         NEW s \in Sessions, session' = [session EXCEPT ![using[r]] = s], s.wrote = {},
         NEW step \in {"rollback", "release"}, pc' = [pc EXCEPT ![r] = step],
         step = "release" => s \in {Idle, [Absent EXCEPT !.state = "lost"]},
         s.state # "lost" \/ s = [Absent EXCEPT !.state = "lost"],
         NEW how \in {"ok", "failed"}, outcome' = [outcome EXCEPT ![r] = how],
         UNCHANGED <<using, saw, created, up>>,
         NEW W, W = {} \/ W = session[using[r]].wrote, rows' = rows \union W
  PROVE  IInv'
<1>1. /\ saw' = [saw EXCEPT ![r] = saw[r]] /\ saw[r] \in SUBSET Own(r)
      /\ created' = [created EXCEPT ![r] = created[r]] /\ created[r] \in BOOLEAN
      /\ step \in Borrowing
      /\ pc'[r] = step /\ outcome'[r] = how /\ session'[using'[r]] = s
  BY Borrower DEF Borrowing
<1>2. AtStep(r)'
  BY <1>1 DEF AtStep, Statements
<1> QED BY <1>1, <1>2, BorrowerStep, ZenonT(60)

LEMMA CommitStep == ASSUME IInv, NEW r \in Requests, Commit(r) PROVE IInv'
<1>1. pc[r] \in Borrowing /\ Idle \in Sessions /\ Idle.wrote = {} /\ Idle.state # "lost"
  BY RowTypes DEF Commit, Borrowing, Statements, Idle, Absent
<1> QED BY <1>1, SettlingStep DEF Commit, Goto, Settles

LEMMA StatementFailsStep == ASSUME IInv, NEW r \in Requests, StatementFails(r) PROVE IInv'
<1> DEFINE s == IF pc[r] \in {"begin", "commit"} THEN Idle
                ELSE [session[using[r]] EXCEPT !.state = "aborted", !.wrote = {}]
<1>1. pc[r] \in Borrowing /\ using[r] \in Clients /\ session[using[r]] \in Sessions
  BY Borrower DEF StatementFails, Borrowing
<1>2. s \in Sessions /\ s.wrote = {} /\ (Caught(r) = "release" => s = Idle)
      /\ s.state # "lost"
  BY <1>1, RowTypes DEF Sessions, Idle, Absent, Caught
<1>3. session' = [session EXCEPT ![using[r]] = s] /\ rows' = rows \union {}
      /\ Caught(r) \in {"rollback", "release"}
  BY <1>1, Borrower DEF StatementFails, Caught
<1> HIDE DEF s
<1> QED BY <1>1, <1>2, <1>3, SettlingStep DEF StatementFails, Goto, Settles, SettledAs

LEMMA ConnectionLostStep == ASSUME IInv, NEW r \in Requests, ConnectionLost(r) PROVE IInv'
<1> DEFINE s == [Absent EXCEPT !.state = "lost"]
<1>1. /\ pc[r] \in Borrowing /\ s \in Sessions /\ s.wrote = {}
      /\ Caught(r) \in {"rollback", "release"}
  BY RowTypes DEF ConnectionLost, Borrowing, Absent, Caught
<1>2. rows' = rows \union {} \/ rows' = rows \union session[using[r]].wrote
  BY DEF ConnectionLost
<1> QED BY <1>1, <1>2, SettlingStep DEF ConnectionLost, Goto, Settles, SettledAs

LEMMA RollbackStep == ASSUME IInv, NEW r \in Requests, Rollback(r) PROVE IInv'
<1> DEFINE s == IF session[using[r]].state = "lost" THEN session[using[r]] ELSE Idle
<1>1. /\ pc[r] = "rollback" /\ pc[r] \in Borrowing /\ using[r] \in Clients
      /\ AtStep(r) /\ session[using[r]] \in Sessions
  BY Borrower DEF Rollback, Borrowing
<1>2. outcome[r] \in {"ok", "failed"} /\ outcome' = [outcome EXCEPT ![r] = outcome[r]]
  BY <1>1, Borrower DEF AtStep, Statements, Rollback
<1>3. session' = [session EXCEPT ![using[r]] = s] /\ rows' = rows \union {}
  BY <1>1, Borrower DEF Rollback
<1>4. s \in Sessions /\ s.wrote = {} /\ s \in {Idle, [Absent EXCEPT !.state = "lost"]}
  BY <1>1, RowTypes DEF AtStep, Idle, Absent
<1>5. s.state # "lost" \/ s = [Absent EXCEPT !.state = "lost"]
  BY <1>4 DEF Idle, Absent
<1> HIDE DEF s
<1> QED BY <1>1, <1>2, <1>3, <1>4, <1>5, SettlingStep DEF Rollback, Goto

-----------------------------------------------------------------------------
(* The steps before, after and outside the borrowing.                       *)

LEMMA ArriveStep == ASSUME IInv, NEW r \in Requests, Arrive(r) PROVE IInv'
<1>1. /\ pc[r] = "start" /\ pc' = [pc EXCEPT ![r] = "connect"] /\ rows' = rows \union {}
      /\ UNCHANGED <<rows, session, using, saw, created, outcome, up>> /\ up
      /\ TypeOK /\ Lending /\ AtStep(r)
  BY DEF Arrive, Goto, IInv, Progress
<1>2. /\ pc'[r] = "connect" /\ \A q \in Requests \ {r} : pc'[q] = pc[q]
      /\ pc' \in [Requests -> Steps]
  BY <1>1 DEF TypeOK, Steps
<1>3. AtStep(r)'
  BY <1>1, <1>2 DEF AtStep, Statements
<1>4. \A q \in Requests \ {r} : AtStep(q)'
  BY <1>1, <1>2, Frame
<1>5. TypeOK' /\ Lending'
  BY <1>1, <1>2 DEF TypeOK, Lending, Borrowing, Statements
<1>6. IdleClientIsClean' /\ Apart' /\ OwnRowsOnly'
  BY <1>1 DEF IInv, IdleClientIsClean, Lent, Apart, OwnRowsOnly, Own, OwnAccount, OwnProfile
<1> QED BY <1>3, <1>4, <1>5, <1>6 DEF IInv, Progress

LEMMA ConnectStep ==
  ASSUME IInv, NEW r \in Requests, NEW c \in Clients, Connect(r, c) PROVE IInv'
<1>1. /\ TypeOK /\ Lending /\ IdleClientIsClean /\ Apart /\ OwnRowsOnly /\ Progress
      /\ pc[r] = "connect" /\ ~Lent(c) /\ up /\ AtStep(r)
      /\ UNCHANGED <<rows, saw, created, outcome, up>>
  BY DEF Connect, IInv, Progress
<1>2. session[c] \in {Absent, Idle} /\ session' = [session EXCEPT ![c] = Idle]
  <2>1. session[c] \in {Absent, Idle}
    BY <1>1 DEF IdleClientIsClean
  <2>2. (IF session[c].state = "idle" THEN session[c] ELSE Idle) = Idle
    BY <2>1 DEF Absent, Idle
  <2> QED BY <1>1, <2>1, <2>2 DEF Connect, TypeOK
<1>3. /\ using' = [using EXCEPT ![r] = c] /\ pc' = [pc EXCEPT ![r] = "begin"]
      /\ using'[r] = c /\ pc'[r] = "begin" /\ session'[c] = Idle
      /\ \A q \in Requests \ {r} : pc'[q] = pc[q] /\ using'[q] = using[q] /\ using[q] # c
      /\ \A d \in Clients \ {c} : session'[d] = session[d]
      /\ using' \in [Requests -> Clients \union {NoClient}] /\ pc' \in [Requests -> Steps]
  BY <1>1, <1>2 DEF Connect, Goto, TypeOK, Lent, Steps, Statements
<1>4. TypeOK'
  <2>1. Idle \in Sessions /\ "begin" \in Steps
    BY RowTypes DEF Steps, Statements
  <2> QED BY <1>1, <1>2, <1>3, <2>1, OneStepType DEF TypeOK
<1>5. Lending'
  BY <1>1, <1>3, ClientsAssumption DEF Lending, Borrowing, Statements
<1>6. IdleClientIsClean' /\ OwnRowsOnly'
  <2>1. using[r] = NoClient
    BY <1>1 DEF Lending, Borrowing, Statements
  <2>2. ASSUME NEW d \in Clients \ {c} PROVE Lent(d)' \/ session'[d] \in {Absent, Idle}
    BY <1>1, <1>3, <2>1, ClientsAssumption DEF IdleClientIsClean, Lent
  <2>3. Lent(c)'
    BY <1>3 DEF Lent
  <2> QED BY <1>1, <2>2, <2>3
          DEF IdleClientIsClean, OwnRowsOnly, Own, OwnAccount, OwnProfile, Absent, Idle
<1>7. Apart'
  <2>1. session'[c].wrote = {}
    BY <1>3 DEF Idle, Absent
  <2> QED BY <1>1, <1>3, <2>1 DEF Apart
<1>8. AtStep(r)'
  BY <1>1, <1>3 DEF AtStep, Statements
<1>9. ASSUME NEW q \in Requests \ {r} PROVE AtStep(q)'
  <2>1. pc[q] \in Borrowing => session'[using[q]] = session[using[q]]
    BY <1>1, <1>3, Borrows
  <2>2. rows' = rows \union {} /\ q # r
    BY <1>1
  <2> QED BY <1>1, <1>3, <2>1, <2>2, Frame, ZenonT(60)
<1> QED BY <1>4, <1>5, <1>6, <1>7, <1>8, <1>9 DEF IInv, Progress

LEMMA ConnectFailsStep == ASSUME IInv, NEW r \in Requests, ConnectFails(r) PROVE IInv'
<1>1. /\ pc[r] = "connect" /\ pc' = [pc EXCEPT ![r] = "done"] /\ rows' = rows \union {}
      /\ outcome' = [outcome EXCEPT ![r] = "failed"]
      /\ UNCHANGED <<rows, session, using, saw, created, up>> /\ up
      /\ TypeOK /\ Lending /\ AtStep(r)
  BY DEF ConnectFails, Goto, Settles, IInv, Progress
<1>2. /\ pc'[r] = "done" /\ outcome'[r] = "failed"
      /\ \A q \in Requests \ {r} : pc'[q] = pc[q] /\ outcome'[q] = outcome[q]
      /\ pc' \in [Requests -> Steps]
      /\ outcome' \in [Requests -> {"none", "ok", "failed", "conflict"}]
  BY <1>1 DEF TypeOK, Steps
<1>3. AtStep(r)'
  BY <1>1, <1>2 DEF AtStep, Statements
<1>4. \A q \in Requests \ {r} : AtStep(q)'
  BY <1>1, <1>2, Frame
<1>5. TypeOK' /\ Lending'
  BY <1>1, <1>2 DEF TypeOK, Lending, Borrowing, Statements
<1>6. IdleClientIsClean' /\ Apart' /\ OwnRowsOnly'
  BY <1>1 DEF IInv, IdleClientIsClean, Lent, Apart, OwnRowsOnly, Own, OwnAccount, OwnProfile
<1> QED BY <1>3, <1>4, <1>5, <1>6 DEF IInv, Progress

LEMMA ReleaseStep == ASSUME IInv, NEW r \in Requests, Release(r) PROVE IInv'
<1> DEFINE c == using[r]
           s == IF session[c].state = "lost" THEN Absent ELSE session[c]
<1>1. /\ TypeOK /\ Lending /\ IdleClientIsClean /\ Apart /\ OwnRowsOnly /\ Progress
      /\ pc[r] = "release" /\ pc[r] \in Borrowing /\ up /\ AtStep(r)
      /\ c \in Clients /\ session[c] \in Sessions
      /\ UNCHANGED <<rows, saw, created, outcome, up>>
  BY Borrower DEF Release, IInv, Borrowing
<1>2. s \in {Absent, Idle} /\ s \in Sessions /\ s.wrote = {}
  <2>1. session[c] \in {Idle, [Absent EXCEPT !.state = "lost"]}
    BY <1>1 DEF AtStep
  <2> QED BY <2>1, RowTypes DEF Idle, Absent
<1>3. session' = [session EXCEPT ![c] = s]
  BY <1>1 DEF Release, TypeOK
<1> HIDE DEF s
<1>4. /\ using' = [using EXCEPT ![r] = NoClient] /\ pc' = [pc EXCEPT ![r] = "done"]
      /\ using'[r] = NoClient /\ pc'[r] = "done" /\ session'[c] = s
      /\ \A q \in Requests \ {r} : pc'[q] = pc[q] /\ using'[q] = using[q] /\ using[q] # c
      /\ \A d \in Clients \ {c} : session'[d] = session[d]
      /\ using' \in [Requests -> Clients \union {NoClient}] /\ pc' \in [Requests -> Steps]
  BY <1>1, <1>3, ClientsAssumption DEF Release, Goto, TypeOK, Lending, Steps
<1>5. TypeOK'
  BY <1>1, <1>2, <1>3, <1>4, OneStepType DEF TypeOK, Steps
<1>6. Lending'
  BY <1>1, <1>4 DEF Lending, Borrowing, Statements
<1>7. IdleClientIsClean' /\ OwnRowsOnly'
  BY <1>1, <1>2, <1>4 DEF IdleClientIsClean, Lent, OwnRowsOnly, Own, OwnAccount, OwnProfile
<1>8. Apart'
  BY <1>1, <1>2, <1>4 DEF Apart
<1>9. AtStep(r)'
  BY <1>1, <1>4 DEF AtStep, Statements
<1>10. ASSUME NEW q \in Requests \ {r} PROVE AtStep(q)'
  <2>1. pc[q] \in Borrowing => session'[using[q]] = session[using[q]]
    BY <1>1, <1>4, Borrows
  <2>2. rows' = rows \union {} /\ q # r
    BY <1>1
  <2> QED BY <1>1, <1>4, <2>1, <2>2, Frame, ZenonT(60)
<1> QED BY <1>5, <1>6, <1>7, <1>8, <1>9, <1>10 DEF IInv, Progress

LEMMA ProcessEndsStep == ASSUME IInv, ProcessEnds PROVE IInv'
<1>1. TypeOK /\ Lending /\ Apart /\ OwnRowsOnly /\ Progress
  BY DEF IInv
<1>2. PICK applied \in SUBSET {r \in Unsettled : pc[r] = "commit"} :
        rows' = rows \union UNION {session[using[r]].wrote : r \in applied}
  BY DEF ProcessEnds
<1>3. \A r \in applied : session[using[r]].wrote \subseteq Rows
  <2>1. \A r \in applied : r \in Requests /\ pc[r] \in Borrowing
    BY <1>2 DEF Unsettled, Borrowing, Statements
  <2> QED BY <1>1, <2>1, Borrows DEF Sessions
<1>4. /\ session' = [c \in Clients |-> Absent] /\ using' = [r \in Requests |-> NoClient]
      /\ outcome' = [r \in Requests |-> IF r \in Unsettled THEN "failed" ELSE outcome[r]]
      /\ pc' = [r \in Requests |-> IF pc[r] = "start" THEN "start" ELSE "done"]
      /\ up' = FALSE /\ UNCHANGED <<saw, created>>
  BY DEF ProcessEnds
<1>5. TypeOK'
  <2>1. rows' \subseteq Rows
    BY <1>1, <1>2, <1>3 DEF TypeOK
  <2>2. session' \in [Clients -> Sessions] /\ using' \in [Requests -> Clients \union {NoClient}]
    BY <1>4, RowTypes
  <2>3. /\ pc' \in [Requests -> Steps]
        /\ outcome' \in [Requests -> {"none", "ok", "failed", "conflict"}]
    BY <1>1, <1>4 DEF TypeOK, Steps
  <2> QED BY <1>1, <1>4, <2>1, <2>2, <2>3 DEF TypeOK
<1>6. Lending'
  BY <1>4 DEF Lending, Borrowing, Statements
<1>7. IdleClientIsClean' /\ Apart' /\ OwnRowsOnly'
  BY <1>1, <1>4
     DEF IdleClientIsClean, Apart, OwnRowsOnly, Absent, Own, OwnAccount, OwnProfile
<1>8. ASSUME NEW r \in Requests PROVE AtStep(r)'
  <2>1. AtStep(r) /\ outcome[r] \in {"none", "ok", "failed", "conflict"}
    BY <1>1 DEF Progress, TypeOK
  <2>2. CASE pc[r] = "start"
    BY <1>4, <2>1, <2>2 DEF AtStep, Unsettled, Statements
  <2>3. CASE pc[r] # "start"
    <3>1. pc'[r] = "done" /\ outcome'[r] \in {"ok", "failed"}
      BY <1>1, <1>4, <2>1, <2>3 DEF AtStep, Unsettled, Statements, TypeOK, Steps
    <3> QED BY <3>1 DEF AtStep, Statements
  <2> QED BY <2>2, <2>3
<1> QED BY <1>5, <1>6, <1>7, <1>8 DEF IInv, Progress

LEMMA UnchangedStep ==
  ASSUME IInv, UNCHANGED <<rows, session, pc, using, saw, created, outcome>>,
         up' = up \/ Restart
  PROVE  IInv'
<1>1. up' \in BOOLEAN /\ (~up' => ~up)
  BY DEF IInv, TypeOK, Restart
<1>2. TypeOK' /\ Lending' /\ IdleClientIsClean' /\ Apart' /\ OwnRowsOnly'
  BY <1>1 DEF IInv, TypeOK, Lending, IdleClientIsClean, Lent, Apart, OwnRowsOnly,
              Own, OwnAccount, OwnProfile
<1>3. Progress'
  BY SMTT(30) DEF IInv, Progress, AtStep, Scoped, Stored, Principal
<1> QED BY <1>2, <1>3 DEF IInv

LEMMA InitIInv == Init => IInv
<1> SUFFICES ASSUME Init PROVE IInv
  OBVIOUS
<1>1. TypeOK
  BY RowTypes DEF Init, TypeOK, Steps
<1>2. Lending /\ IdleClientIsClean /\ Apart /\ OwnRowsOnly
  BY DEF Init, Lending, Borrowing, Statements, IdleClientIsClean, Apart, OwnRowsOnly, Absent
<1>3. Progress
  BY DEF Init, Progress, AtStep, Statements
<1> QED BY <1>1, <1>2, <1>3 DEF IInv

LEMMA NextIInv == IInv /\ [Next]_vars => IInv'
<1> SUFFICES ASSUME IInv, [Next]_vars PROVE IInv'
  OBVIOUS
<1>1. CASE UNCHANGED vars
  BY <1>1, UnchangedStep DEF vars
<1>2. ASSUME NEW r \in Requests, Arrive(r) \/ ConnectFails(r) PROVE IInv'
  BY <1>2, ArriveStep, ConnectFailsStep
<1>3. ASSUME NEW r \in Requests, NEW c \in Clients, Connect(r, c) PROVE IInv'
  BY <1>3, ConnectStep
<1>4. ASSUME NEW r \in Requests,
             Begin(r) \/ SetRole(r) \/ SetClaims(r) \/ InsertAccount(r) \/ InsertProfile(r)
      PROVE  IInv'
  BY <1>4, BeginStep, SetRoleStep, SetClaimsStep, InsertAccountStep, InsertProfileStep
<1>5. ASSUME NEW r \in Requests, CountAccounts(r) \/ CountProfiles(r) \/ FindAccount(r)
      PROVE  IInv'
  BY <1>5, CountAccountsStep, CountProfilesStep, FindAccountStep
<1>6. ASSUME NEW r \in Requests, Commit(r) \/ Rollback(r) \/ Release(r) PROVE IInv'
  BY <1>6, CommitStep, RollbackStep, ReleaseStep
<1>7. ASSUME NEW r \in Requests, StatementFails(r) \/ ConnectionLost(r) PROVE IInv'
  BY <1>7, StatementFailsStep, ConnectionLostStep
<1>8. CASE Killed \/ \E c \in Clients : IdleClientLost(c)
  BY <1>8, ProcessEndsStep DEF Killed, IdleClientLost
<1>9. CASE Restart
  BY <1>9, UnchangedStep DEF Restart
<1> QED BY <1>1, <1>2, <1>3, <1>4, <1>5, <1>6, <1>7, <1>8, <1>9 DEF Next, Step, Fault

(* Every value of every variable is one the code can hold.                  *)
THEOREM TypeCorrect == Spec => []TypeOK
<1>1. IInv => TypeOK
  BY DEF IInv
<1> QED BY <1>1, InitIInv, NextIInv, PTL DEF Spec

(* A pooled connection carries nothing of one request to the next: however  *)
(* withPrincipal was left, the client in the pool has no transaction, no    *)
(* role, no claims and no uncommitted row.                                  *)
THEOREM IdleClientIsCleanAlways == Spec => []IdleClientIsClean
<1>1. IInv => IdleClientIsClean
  BY DEF IInv
<1> QED BY <1>1, InitIInv, NextIInv, PTL DEF Spec

(* Row level security under the transaction's claims shows a body its own   *)
(* principal's rows and no others.                                          *)
THEOREM OwnRowsOnlyAlways == Spec => []OwnRowsOnly
<1>1. IInv => OwnRowsOnly
  BY DEF IInv
<1> QED BY <1>1, InitIInv, NextIInv, PTL DEF Spec

(* provisionAccount never throws "account conflicted on insert but is not   *)
(* visible", because the insert waited for the transaction it lost to.      *)
THEOREM ConflictIsVisibleAlways == Spec => []ConflictIsVisible
<1>1. IInv => ConflictIsVisible
  BY DEF IInv, Progress, AtStep, ConflictIsVisible
<1> QED BY <1>1, InitIInv, NextIInv, PTL DEF Spec

-----------------------------------------------------------------------------
(* Nobody waits for a request that waits for somebody who waits: chains of   *)
(* waiting end after two.                                                    *)

(* An uncommitted row is held by a borrower that has inserted it.            *)
LEMMA HolderIsBorrower ==
  ASSUME IInv, NEW d \in Clients, NEW row, row \in session[d].wrote
  PROVE  \E q \in Requests :
           /\ using[q] = d /\ pc[q] \in Borrowing /\ q \in UnderWay
           /\ pc[q] \notin {"connect", "insertAccount"}
           /\ pc[q] = "insertProfile" => row \in OwnAccount(q)
<1>1. Lent(d)
  BY DEF IInv, IdleClientIsClean, Absent, Idle
<1>2. PICK q \in Requests : using[q] = d
  BY <1>1 DEF Lent
<1>3. pc[q] \in Borrowing /\ AtStep(q)
  BY <1>2, ClientsAssumption DEF IInv, Lending, Progress
<1>4. q \in UnderWay /\ pc[q] # "connect"
  BY <1>3 DEF UnderWay, Borrowing, Statements
<1>5. pc[q] # "insertAccount" /\ (pc[q] = "insertProfile" => row \in OwnAccount(q))
  BY <1>2, <1>3 DEF AtStep
<1> QED BY <1>2, <1>3, <1>4, <1>5

(* Whoever holds a profile's key has nothing left to wait for.               *)
LEMMA ProfileHolderGoesOn ==
  ASSUME IInv, NEW r \in Requests, pc[r] = "insertProfile", Blocked(r)
  PROVE  \E q \in UnderWay : ~Blocked(q)
<1> DEFINE row == Profile(UserOf[r])
<1>1. PICK d \in Clients : row \in session[d].wrote
  BY DEF Blocked, Waits, Offered
<1> HIDE DEF row
<1>2. PICK q \in UnderWay :
        /\ pc[q] \notin {"connect", "insertAccount"}
        /\ pc[q] = "insertProfile" => row \in OwnAccount(q)
  BY <1>1, HolderIsBorrower
<1>3. row \notin OwnAccount(q)
  <2>1. row[1] = "profiles" /\ Account(OrgOf[q])[1] = "accounts"
    BY DEF row, Profile, Account
  <2> QED BY <2>1 DEF OwnAccount
<1> QED BY <1>2, <1>3 DEF Blocked

(* Whoever holds an account's key goes on, or waits for a profile's.         *)
LEMMA BorrowerGoesOn ==
  ASSUME IInv, NEW r \in Requests, pc[r] \in Borrowing
  PROVE  \E q \in UnderWay : ~Blocked(q)
<1>1. CASE ~Blocked(r)
  BY <1>1 DEF UnderWay, Borrowing, Statements
<1>2. CASE pc[r] = "insertProfile" /\ Blocked(r)
  BY <1>2, ProfileHolderGoesOn
<1>3. CASE pc[r] = "insertAccount" /\ Blocked(r)
  <2> DEFINE row == Offered(r, "accounts")
  <2>1. PICK d \in Clients : row \in session[d].wrote
    BY <1>3 DEF Blocked, Waits
  <2> HIDE DEF row
  <2>2. PICK q \in UnderWay : pc[q] \notin {"connect", "insertAccount"}
    BY <2>1, HolderIsBorrower
  <2>3. CASE pc[q] = "insertProfile" /\ Blocked(q)
    BY <2>3, ProfileHolderGoesOn DEF UnderWay
  <2> QED BY <2>2, <2>3 DEF Blocked
<1> QED BY <1>1, <1>2, <1>3 DEF Blocked, Borrowing, Statements

(* withPrincipal never deadlocks, on the pool's clients and the rows' keys   *)
(* together: both bodies that insert take the account before the profile,    *)
(* and whoever waits for a client waits for somebody who holds one.          *)
THEOREM SomeRequestGoesOnAlways == Spec => []SomeRequestGoesOn
<1>1. ASSUME IInv, NEW r \in UnderWay PROVE \E q \in UnderWay : ~Blocked(q)
  <2>1. CASE pc[r] \in Borrowing
    BY <1>1, <2>1, BorrowerGoesOn DEF UnderWay
  <2>2. CASE pc[r] = "connect" /\ \A c \in Clients : Lent(c)
    <3>1. PICK c \in Clients, q \in Requests : using[q] = c
      BY <2>2, ClientsAssumption DEF Lent
    <3>2. pc[q] \in Borrowing
      BY <1>1, <3>1, ClientsAssumption DEF IInv, Lending
    <3> QED BY <1>1, <3>2, BorrowerGoesOn
  <2>3. CASE ~Blocked(r)
    BY <2>3
  <2> QED BY <1>1, <2>1, <2>2, <2>3 DEF Blocked, IInv, TypeOK, UnderWay, Steps, Borrowing
<1>2. IInv => SomeRequestGoesOn
  BY <1>1 DEF SomeRequestGoesOn
<1> QED BY <1>2, InitIInv, NextIInv, PTL DEF Spec

-----------------------------------------------------------------------------
(* The refinement: every step is a step of the store, or changes nothing of  *)
(* it.                                                                       *)

(* The store reads the identity rows the way this module does.              *)
LEMMA SameRows ==
  /\ Store!Pending = Pending /\ Store!Failed = Failed
  /\ \A o : Store!Account(o) = Account(o)
  /\ \A r \in Requests : Store!OwnAccount(r) = OwnAccount(r) /\ Store!Writes(r) = Writes(r)
BY PrincipalsAssumption
   DEF Store!Pending, Pending, Store!Failed, Failed, Store!Account, Account,
       Store!OwnAccount, OwnAccount, Store!Writes, Writes, Store!Own, Own,
       Store!OwnProfile, OwnProfile, Store!Profile, Profile

(* A step that commits nothing and settles nobody is invisible.              *)
LEMMA Invisible ==
  ASSUME rows' = rows,
         \A r \in Requests :
           /\ outcome'[r] = outcome[r]
           /\ outcome[r] # "none" => saw'[r] = saw[r] /\ created'[r] = created[r]
  PROVE  UNCHANGED Store!vars
<1>1. \A r \in Requests : Told(r)' = Told(r)
  BY DEF Told
<1> QED BY <1>1 DEF Store!vars

LEMMA FailRefines ==
  ASSUME IInv, NEW R \in SUBSET Requests, NEW applied \in SUBSET R,
         \A r \in R : outcome[r] = "none" /\ outcome'[r] = "failed",
         \A r \in Requests \ R : outcome'[r] = outcome[r],
         UNCHANGED <<saw, created>>,
         rows' = rows \union UNION {Writes(r) : r \in applied}
  PROVE  Store!Fail(R, applied)
<1>1. \A r \in R : Told(r) = Pending /\ Told(r)' = Failed
  BY DEF Told
<1>2. \A r \in Requests \ R : Told(r)' = Told(r)
  BY DEF Told
<1> QED BY <1>1, <1>2, SameRows DEF Store!Fail

(* What COMMIT adds to the rows is the request's writes.                     *)
LEMMA CommitAdds ==
  ASSUME IInv, NEW r \in Requests, pc[r] = "commit"
  PROVE  rows \union session[using[r]].wrote = rows \union Writes(r)
BY DEF IInv, Progress, AtStep, Scoped, Stored

LEMMA CommitRefines == ASSUME IInv, NEW r \in Requests, Commit(r) PROVE Store!Serve(r)
<1>1. /\ pc[r] = "commit" /\ pc[r] \in Borrowing /\ AtStep(r)
      /\ rows' = rows \union Writes(r)
      /\ outcome \in [Requests -> {"none", "ok", "failed", "conflict"}]
  BY Borrower, CommitAdds DEF Commit, Borrowing, Statements
<1>2. /\ outcome[r] = "none" /\ outcome'[r] = "ok" /\ UNCHANGED <<saw, created>>
      /\ \A q \in Requests \ {r} : outcome'[q] = outcome[q]
  BY <1>1 DEF AtStep, Statements, Commit, Settles
<1>3. /\ KindOf[r] # "read" => saw[r] = Writes(r)
      /\ saw[r] \in SUBSET (OwnAccount(r) \union Writes(r)) /\ saw[r] \subseteq rows'
      /\ KindOf[r] = "provision" => (created[r] <=> Account(OrgOf[r]) \notin rows)
  <2>1. Stored(r) = rows'
    BY <1>1, CommitAdds DEF Stored
  <2> QED BY <1>1, <2>1 DEF AtStep
<1>4. created[r] \in BOOLEAN
  BY DEF IInv, TypeOK
<1>5. (KindOf[r] = "provision" /\ created[r]) =
        (KindOf[r] = "provision" /\ Account(OrgOf[r]) \notin rows)
  BY <1>3, <1>4
<1>6. /\ Told(r) = Pending
      /\ Told(r)' = [status |-> "ok", saw |-> saw[r],
                     created |-> KindOf[r] = "provision" /\ Account(OrgOf[r]) \notin rows]
  BY <1>2, <1>5 DEF Told
<1>7. \A q \in Requests \ {r} : Told(q)' = Told(q)
  BY <1>2 DEF Told
<1>8. [q \in Requests |-> Told(q)]' = [[q \in Requests |-> Told(q)] EXCEPT ![r] =
         [status |-> "ok", saw |-> saw[r],
          created |-> KindOf[r] = "provision" /\ Account(OrgOf[r]) \notin rows]]
  BY <1>6, <1>7
<1> QED BY <1>1, <1>3, <1>6, <1>8, SameRows DEF Store!Serve

LEMMA OneFails ==
  ASSUME IInv, NEW r \in Requests, ConnectFails(r) \/ StatementFails(r) \/ ConnectionLost(r)
  PROVE  Store!Next
<1>1. /\ AtStep(r) /\ pc[r] \in Statements \union {"connect"}
      /\ outcome \in [Requests -> {"none", "ok", "failed", "conflict"}]
  BY DEF IInv, TypeOK, Progress, ConnectFails, StatementFails, ConnectionLost
<1>2. /\ outcome[r] = "none" /\ outcome'[r] = "failed" /\ UNCHANGED <<saw, created>>
      /\ \A q \in Requests \ {r} : outcome'[q] = outcome[q]
  BY <1>1 DEF AtStep, ConnectFails, StatementFails, ConnectionLost, Settles, SettledAs
<1>3. CASE rows' = rows
  <2>1. Store!Fail({r}, {})
    BY <1>2, <1>3, FailRefines
  <2> QED BY <2>1 DEF Store!Next
<1>4. CASE rows' = rows \union Writes(r)
  <2>1. UNION {Writes(q) : q \in {r}} = Writes(r)
    OBVIOUS
  <2>2. Store!Fail({r}, {r})
    BY <1>2, <1>4, <2>1, FailRefines
  <2> QED BY <2>2 DEF Store!Next
<1>5. rows' = rows \/ rows' = rows \union Writes(r)
  BY CommitAdds DEF ConnectFails, StatementFails, ConnectionLost
<1> QED BY <1>3, <1>4, <1>5

LEMMA ProcessEndsRefines == ASSUME IInv, ProcessEnds PROVE Store!Next
<1>1. PICK applied \in SUBSET {r \in Unsettled : pc[r] = "commit"} :
        rows' = rows \union UNION {session[using[r]].wrote : r \in applied}
  BY DEF ProcessEnds
<1>2. rows' = rows \union UNION {Writes(r) : r \in applied}
  <2>1. \A r \in applied : rows \union session[using[r]].wrote = rows \union Writes(r)
    BY <1>1, CommitAdds DEF Unsettled
  <2> QED BY <1>1, <2>1
<1>3. /\ \A r \in Unsettled : outcome[r] = "none" /\ outcome'[r] = "failed"
      /\ \A r \in Requests \ Unsettled : outcome'[r] = outcome[r]
      /\ UNCHANGED <<saw, created>>
      /\ Unsettled \in SUBSET Requests /\ applied \in SUBSET Unsettled
  BY <1>1 DEF ProcessEnds, Unsettled
<1>4. Store!Fail(Unsettled, applied)
  BY <1>2, <1>3, FailRefines
<1> QED BY <1>3, <1>4 DEF Store!Next

LEMMA StepRefines == IInv /\ [Next]_vars => [Store!Next]_Store!vars
<1> SUFFICES ASSUME IInv, [Next]_vars PROVE [Store!Next]_Store!vars
  OBVIOUS
<1>1. CASE UNCHANGED vars
  BY <1>1, Invisible DEF vars
<1>2. ASSUME NEW r \in Requests,
             \/ Arrive(r) \/ (\E c \in Clients : Connect(r, c))
             \/ Begin(r) \/ SetRole(r) \/ SetClaims(r) \/ InsertProfile(r)
             \/ Rollback(r) \/ Release(r)
      PROVE  UNCHANGED Store!vars
  <2>1. UNCHANGED <<rows, saw, created, outcome>>
    BY <1>2 DEF Arrive, Connect, Begin, SetRole, SetClaims, InsertProfile, Rollback, Release
  <2> QED BY <2>1, Invisible
<1>3. ASSUME NEW r \in Requests,
             InsertAccount(r) \/ CountAccounts(r) \/ CountProfiles(r) \/ FindAccount(r)
      PROVE  UNCHANGED Store!vars
  <2>1. IInv'
    BY <1>3, InsertAccountStep, CountAccountsStep, CountProfilesStep, FindAccountStep
  <2>2. /\ rows' = rows /\ AtStep(r) /\ outcome'[r] # "conflict"
        /\ saw \in [Requests -> SUBSET Rows] /\ created \in [Requests -> BOOLEAN]
        /\ pc[r] \in Statements
    BY <1>3, <2>1 DEF IInv, TypeOK, Progress, AtStep, InsertAccount, CountAccounts,
                      CountProfiles, FindAccount, Statements
  <2>3. outcome[r] = "none"
    BY <2>2 DEF AtStep
  <2>4. \A q \in Requests \ {r} : saw'[q] = saw[q] /\ created'[q] = created[q]
    BY <1>3, <2>2 DEF InsertAccount, CountAccounts, CountProfiles, FindAccount
  <2>5. outcome' = outcome
    <3>1. outcome' = outcome \/ outcome' = [outcome EXCEPT ![r] = "conflict"]
      BY <1>3 DEF InsertAccount, CountAccounts, CountProfiles, FindAccount, Settles
    <3>2. outcome \in [Requests -> {"none", "ok", "failed", "conflict"}]
      BY DEF IInv, TypeOK
    <3> QED BY <2>2, <3>1, <3>2
  <2> QED BY <2>2, <2>3, <2>4, <2>5, Invisible
<1>4. ASSUME NEW r \in Requests, Commit(r) PROVE Store!Next
  BY <1>4, CommitRefines DEF Store!Next
<1>5. ASSUME NEW r \in Requests, Fault(r) PROVE Store!Next
  BY <1>5, OneFails DEF Fault
<1>6. CASE Killed \/ \E c \in Clients : IdleClientLost(c)
  BY <1>6, ProcessEndsRefines DEF Killed, IdleClientLost
<1>7. CASE Restart
  BY <1>7, Invisible DEF Restart
<1> QED BY <1>1, <1>2, <1>3, <1>4, <1>5, <1>6, <1>7 DEF Next, Step

(* withPrincipal and the three bodies implement the store: every call takes  *)
(* effect at its COMMIT, wholly or not at all, and is answered accordingly.  *)
THEOREM StoreImplementedAlways == Spec => StoreImplemented
<1>1. Init => Store!Init
  <2> SUFFICES ASSUME Init PROVE Store!Init
    OBVIOUS
  <2>1. \A r \in Requests : Told(r) = Pending
    BY DEF Init, Told
  <2> QED BY <2>1, SameRows DEF Init, Store!Init
<1> QED BY <1>1, InitIInv, NextIInv, StepRefines, PTL DEF Spec, StoreImplemented, Store!Spec

-----------------------------------------------------------------------------
(* What the store guarantees, whatever implements it.                        *)

LEMMA OwnIsTyped ==
  \A r \in Requests :
    /\ Own(r) \subseteq Rows /\ Writes(r) \subseteq Own(r) /\ OwnAccount(r) \subseteq Own(r)
    /\ KindOf[r] = "provision" => Writes(r) = {Account(OrgOf[r])}
BY PrincipalsAssumption DEF Own, OwnAccount, OwnProfile, Writes, Rows, Kinds

\* Who was told 201 finds the account there, so nobody is told so again; what a
\* request was told of is its own, and there.
StoreInv ==
  /\ rows \subseteq Rows
  /\ \A r \in Requests :
       /\ Told(r) \in Answers
       /\ Told(r).created => KindOf[r] = "provision" /\ Account(OrgOf[r]) \in rows
       /\ Told(r).saw \subseteq Own(r) \intersect rows
  /\ \A r, q \in Requests :
       Told(r).created /\ Told(q).created /\ OrgOf[r] = OrgOf[q] => r = q

LEMMA ServeKeepsInv == ASSUME StoreInv, NEW r \in Requests, Store!Serve(r) PROVE StoreInv'
<1>1. PICK seen \in SUBSET (OwnAccount(r) \union Writes(r)) :
        /\ seen \subseteq rows'
        /\ [q \in Requests |-> Told(q)]' = [[q \in Requests |-> Told(q)] EXCEPT ![r] =
             [status |-> "ok", saw |-> seen,
              created |-> KindOf[r] = "provision" /\ Account(OrgOf[r]) \notin rows]]
  BY SameRows DEF Store!Serve
<1>2. rows' = rows \union Writes(r) /\ rows \subseteq Rows
  BY SameRows DEF Store!Serve, StoreInv
<1> DEFINE first == KindOf[r] = "provision" /\ Account(OrgOf[r]) \notin rows
<1>3. Told(r)' = [status |-> "ok", saw |-> seen, created |-> first]
  BY <1>1
<1>4. \A q \in Requests \ {r} : Told(q)' = Told(q)
  BY <1>1
<1>5. seen \subseteq Own(r) /\ seen \subseteq Rows /\ rows' \subseteq Rows
  BY <1>2, OwnIsTyped
<1>6. Told(r)' \in Answers /\ Told(r)'.saw = seen /\ Told(r)'.created = first
  <2>1. first \in BOOLEAN
    OBVIOUS
  <2> HIDE DEF first
  <2> QED BY <1>3, <1>5, <2>1 DEF Answers
<1>7. \A q \in Requests : Told(q).created => KindOf[q] = "provision" /\ Account(OrgOf[q]) \in rows
  BY DEF StoreInv
<1>8. \A q \in Requests :
        /\ Told(q)' \in Answers
        /\ Told(q)'.created => KindOf[q] = "provision" /\ Account(OrgOf[q]) \in rows'
        /\ Told(q)'.saw \subseteq Own(q) \intersect rows'
  BY <1>1, <1>2, <1>4, <1>5, <1>6, OwnIsTyped DEF StoreInv
<1>9. \A p, q \in Requests :
        Told(p)'.created /\ Told(q)'.created /\ OrgOf[p] = OrgOf[q] => p = q
  BY <1>4, <1>6, <1>7 DEF StoreInv
<1>10. \A q \in Requests : Own(q)' = Own(q)
  BY DEF Own, OwnAccount, OwnProfile
<1> QED BY <1>5, <1>8, <1>9, <1>10 DEF StoreInv

LEMMA FailKeepsInv ==
  ASSUME StoreInv, NEW R \in SUBSET Requests, NEW applied \in SUBSET R, Store!Fail(R, applied)
  PROVE  StoreInv'
<1>1. /\ rows' = rows \union UNION {Writes(r) : r \in applied}
      /\ [r \in Requests |-> Told(r)]' =
           [r \in Requests |-> IF r \in R THEN Failed ELSE [q \in Requests |-> Told(q)][r]]
  BY SameRows DEF Store!Fail
<1>2. \A r \in Requests : Told(r)' = IF r \in R THEN Failed ELSE Told(r)
  BY <1>1
<1>3. rows' \subseteq Rows
  BY <1>1, OwnIsTyped DEF StoreInv
<1>4. Failed \in Answers /\ Failed.saw = {} /\ ~Failed.created
  BY DEF Failed, Answers
<1>5. \A r \in Requests :
        /\ Told(r)' \in Answers
        /\ Told(r)'.created => KindOf[r] = "provision" /\ Account(OrgOf[r]) \in rows'
        /\ Told(r)'.saw \subseteq Own(r) \intersect rows'
  BY <1>1, <1>2, <1>4 DEF StoreInv
<1>6. \A r, q \in Requests :
        Told(r)'.created /\ Told(q)'.created /\ OrgOf[r] = OrgOf[q] => r = q
  BY <1>2, <1>4 DEF StoreInv
<1>7. \A r \in Requests : Own(r)' = Own(r)
  BY DEF Own, OwnAccount, OwnProfile
<1> QED BY <1>3, <1>5, <1>6, <1>7 DEF StoreInv

LEMMA NextStoreInv == ASSUME StoreInv, [Store!Next]_Store!vars PROVE StoreInv'
<1>1. CASE UNCHANGED Store!vars
  <2>1. rows' = rows /\ [r \in Requests |-> Told(r)]' = [r \in Requests |-> Told(r)]
    BY <1>1 DEF Store!vars
  <2>2. \A r \in Requests : Told(r)' = Told(r)
    BY <2>1
  <2>3. \A r \in Requests : Own(r)' = Own(r)
    BY DEF Own, OwnAccount, OwnProfile
  <2> QED BY <2>1, <2>2, <2>3 DEF StoreInv
<1> QED BY <1>1, ServeKeepsInv, FailKeepsInv DEF Store!Next

LEMMA StoreInvInvariant == Spec => []StoreInv
<1>1. Init => StoreInv
  <2> SUFFICES ASSUME Init PROVE StoreInv
    OBVIOUS
  <2>1. \A r \in Requests : Told(r) = Pending
    BY DEF Init, Told
  <2>2. Pending \in Answers /\ Pending.saw = {} /\ ~Pending.created
    BY DEF Pending, Answers
  <2> QED BY <2>1, <2>2 DEF Init, StoreInv
<1>2. IInv /\ StoreInv /\ [Next]_vars => StoreInv'
  BY StepRefines, NextStoreInv
<1> QED BY <1>1, <1>2, InitIInv, NextIInv, PTL DEF Spec

(* Hence at most one PUT per organization is answered 201 Created, however   *)
(* its callers interleave, fail and are retried.                             *)
THEOREM CreatedOnceAlways == Spec => []CreatedOnce
<1>1. StoreInv => CreatedOnce
  BY DEF StoreInv, CreatedOnce, Store!CreatedOnce
<1> QED BY <1>1, StoreInvInvariant, PTL

(* And what an answer showed was its caller's own and stays.                 *)
THEOREM ShownIsOwnAndKeptAlways == Spec => []ShownIsOwnAndKept
<1>1. \A r \in Requests : Store!Own(r) = Own(r)
  BY DEF Store!Own, Own, Store!OwnAccount, OwnAccount, Store!OwnProfile, OwnProfile,
         Store!Account, Account, Store!Profile, Profile
<1>2. StoreInv => ShownIsOwnAndKept
  BY <1>1 DEF StoreInv, ShownIsOwnAndKept, Store!ShownIsOwnAndKept
<1> QED BY <1>2, StoreInvInvariant, PTL
=============================================================================
