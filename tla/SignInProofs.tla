----------------------------- MODULE SignInProofs -----------------------------
(***************************************************************************)
(* What holds of the redirect sign-in for any number of browsers, tabs,    *)
(* requests and people, whatever is repeated, lost or interrupted.         *)
(***************************************************************************)
EXTENDS SignIn, TLAPS

-----------------------------------------------------------------------------
(* The provider and the requests it answers.                               *)

\* What each request knows of the provider's side of it.
CallInv(h) ==
  /\ step[h] = "idle" <=> user[h] = Nobody
  /\ step[h] = "idle" => target[h] = NoOrg /\ org[h] = NoOrg
  /\ target[h] # NoOrg => founder[target[h]] = user[h]
  /\ step[h] \in {"join", "refresh"} => target[h] # NoOrg
  /\ step[h] \in {"create", "adopt"} /\ answer[h] = "ok" => target[h] # NoOrg
  /\ answer[h] = "conflict" => step[h] = "create"
  /\ org[h] # NoOrg => <<user[h], org[h]>> \in members
  /\ step[h] = "refresh" /\ answer[h] = "ok" => org[h] # NoOrg
  /\ step[h] = "established" => org[h] # NoOrg \/ Policy = "existing"

\* The external id a workspace holds is the one of whom it was founded for,
\* so that nobody is founded a second one.
ProviderInv ==
  /\ P!TypeOK
  /\ \A o \in Workspaces : holder[o] = founder[o]
  /\ \A o, q \in Workspaces :
       founder[o] = founder[q] /\ founder[o] # Nobody => o = q
  /\ \A h \in Handlers : CallInv(h)

\* What Continue does, a line per call, read off After.
LEMMA AfterCall ==
  ASSUME NEW h \in Handlers, step[h] \in P!Calls
  PROVE  /\ answer[h] = "failure" => P!After(h) = "failed"
         /\ answer[h] # "failure" =>
              /\ step[h] = "signin" =>
                   P!After(h) = IF Policy = "existing" \/ org[h] # NoOrg
                                THEN "established" ELSE "create"
              /\ step[h] = "create" =>
                   P!After(h) = IF answer[h] = "conflict" THEN "adopt" ELSE "join"
              /\ step[h] = "adopt" => P!After(h) = "join"
              /\ step[h] = "join" => P!After(h) = "refresh"
              /\ step[h] = "refresh" => P!After(h) = "established"
  <1>1. CASE answer[h] = "failure"
    BY <1>1 DEF P!After
  <1>2. CASE answer[h] # "failure"
    BY <1>2, Zenon DEF P!After
  <1>3. QED
    BY <1>1, <1>2

LEMMA ProviderInit == Init => ProviderInv
  <1> SUFFICES ASSUME Init PROVE ProviderInv
    OBVIOUS
  <1> USE ProvisioningAssumption DEF P!OrganizationsAssumption, Init, P!Init
  <1>1. P!TypeOK
    BY DEF P!TypeOK, P!Steps, P!Answers, P!Orgs
  <1>2. QED
    BY <1>1 DEF ProviderInv, CallInv

LEMMA AuthenticateKeeps ==
  ASSUME ProviderInv, NEW h \in Handlers, NEW u \in Users, P!Authenticate(h, u)
  PROVE  ProviderInv'
  <1> USE ProvisioningAssumption DEF P!OrganizationsAssumption, ProviderInv
  <1>1. P!TypeOK'
    BY DEF P!TypeOK, P!Authenticate, P!Replies, P!Steps, P!Calls, P!Answers, P!Orgs, P!atProvider
  <1>2. CallInv(h)'
    BY ZenonT(60) DEF P!TypeOK, P!Authenticate, P!Replies, P!Of, P!Orgs, P!atProvider, CallInv
  <1>3. ASSUME NEW g \in Handlers, g # h PROVE CallInv(g)'
    BY <1>3 DEF P!TypeOK, P!Authenticate, P!Replies, P!atProvider, CallInv
  <1>4. QED
    BY <1>1, <1>2, <1>3 DEF P!Authenticate, P!atProvider

LEMMA CreateKeeps ==
  ASSUME ProviderInv, NEW h \in Handlers, P!Create(h)
  PROVE  ProviderInv'
  <1> USE ProvisioningAssumption DEF P!OrganizationsAssumption, ProviderInv
  <1>1. P!TypeOK'
    BY DEF P!TypeOK, P!Create, P!Waits, P!Replies, P!Answers, P!NotFounded, P!ExternalId
  <1>2. CallInv(h)'
    BY DEF P!TypeOK, P!Create, P!Waits, P!Replies, P!NotFounded, P!ExternalId, P!Orgs, CallInv
  <1>3. ASSUME NEW g \in Handlers, g # h PROVE CallInv(g)'
    BY <1>3 DEF P!TypeOK, P!Create, P!Waits, P!Replies, P!NotFounded, P!ExternalId, CallInv
  <1>4. /\ \A o \in Workspaces : holder'[o] = founder'[o]
        /\ \A o, q \in Workspaces :
             founder'[o] = founder'[q] /\ founder'[o] # Nobody => o = q
    BY DEF P!TypeOK, P!Create, P!Waits, P!Holding, P!NotFounded, P!ExternalId, CallInv
  <1>5. QED
    BY <1>1, <1>2, <1>3, <1>4

LEMMA AdoptKeeps ==
  ASSUME ProviderInv, NEW h \in Handlers, P!Adopt(h)
  PROVE  ProviderInv'
  <1> USE ProvisioningAssumption DEF P!OrganizationsAssumption, ProviderInv
  <1>1. P!TypeOK'
    BY DEF P!TypeOK, P!Adopt, P!Holding, P!Replies, P!Answers, P!atProvider
  <1>2. CallInv(h)'
    BY DEF P!TypeOK, P!Adopt, P!Waits, P!Holding, P!Replies, P!ExternalId, P!Orgs, P!atProvider, CallInv
  <1>3. ASSUME NEW g \in Handlers, g # h PROVE CallInv(g)'
    BY <1>3 DEF P!TypeOK, P!Adopt, P!Holding, P!Replies, P!atProvider, CallInv
  <1>4. QED
    BY <1>1, <1>2, <1>3 DEF P!Adopt, P!atProvider

LEMMA JoinKeeps ==
  ASSUME ProviderInv, NEW h \in Handlers, P!Join(h)
  PROVE  ProviderInv'
  <1> USE ProvisioningAssumption DEF P!OrganizationsAssumption, ProviderInv
  <1>1. P!TypeOK'
    <2>1. user[h] \in Users /\ target[h] \in Workspaces
      BY DEF P!TypeOK, P!Join, P!Waits, CallInv
    <2>2. members' \subseteq Users \X P!Orgs
      BY <2>1 DEF P!TypeOK, P!Join, P!Orgs
    <2>3. QED
      BY <2>2 DEF P!TypeOK, P!Join, P!Replies, P!Answers
  <1>2. ASSUME NEW g \in Handlers PROVE CallInv(g)'
    BY <1>2 DEF P!TypeOK, P!Join, P!Waits, P!Replies, CallInv
  <1>3. QED
    BY <1>1, <1>2 DEF P!Join

LEMMA RefreshKeeps ==
  ASSUME ProviderInv, NEW h \in Handlers, P!Refresh(h)
  PROVE  ProviderInv'
  <1> USE ProvisioningAssumption DEF P!OrganizationsAssumption, ProviderInv
  <1>1. P!TypeOK'
    BY DEF P!TypeOK, P!Refresh, P!Waits, P!Replies, P!Answers, P!Orgs, P!atProvider
  <1>2. ASSUME NEW g \in Handlers PROVE CallInv(g)'
    BY <1>2 DEF P!TypeOK, P!Refresh, P!Waits, P!Replies, P!atProvider, CallInv
  <1>3. QED
    BY <1>1, <1>2 DEF P!Refresh, P!atProvider

LEMMA ContinueKeeps ==
  ASSUME ProviderInv, NEW h \in Handlers, P!Continue(h)
  PROVE  ProviderInv'
  <1> USE ProvisioningAssumption DEF P!OrganizationsAssumption, ProviderInv
  <1>0. /\ step[h] \in P!Calls /\ answer[h] # "none"
        /\ step' = [step EXCEPT ![h] = P!After(h)]
        /\ answer' = IF P!After(h) \in P!Calls THEN [answer EXCEPT ![h] = "none"] ELSE answer
        /\ UNCHANGED <<founder, holder, members, user, org, target, alive>>
    BY DEF P!Continue, P!atProvider
  <1>1. P!After(h) \in P!Steps \ {"idle", "signin"}
    BY <1>0, AfterCall DEF P!Calls, P!Steps
  <1>2. P!TypeOK'
    BY <1>0, <1>1 DEF P!TypeOK, P!Steps, P!Answers
  <1>3. CallInv(h)'
    <2>1. step'[h] = P!After(h) /\ CallInv(h)
      BY <1>0 DEF P!TypeOK
    <2>2. answer'[h] = IF P!After(h) \in P!Calls THEN "none" ELSE answer[h]
      BY <1>0 DEF P!TypeOK
    <2>3. QED
      BY <1>0, <1>1, <2>1, <2>2, AfterCall DEF P!TypeOK, P!Calls, P!Steps, P!Answers, CallInv
  <1>4. ASSUME NEW g \in Handlers, g # h PROVE CallInv(g)'
    BY <1>0, <1>4 DEF P!TypeOK, CallInv
  <1>5. QED
    BY <1>0, <1>2, <1>3, <1>4

LEMMA MishapKeeps ==
  ASSUME ProviderInv, NEW h \in Handlers,
         P!Refused(h) \/ P!AnswerLost(h) \/ P!ProcessEnds(h)
  PROVE  ProviderInv'
  <1> USE ProvisioningAssumption DEF P!OrganizationsAssumption, ProviderInv
  <1>1. P!TypeOK'
    BY DEF P!TypeOK, P!Refused, P!AnswerLost, P!ProcessEnds, P!Replies, P!Answers, P!atProvider
  <1>2. ASSUME NEW g \in Handlers PROVE CallInv(g)'
    BY <1>2 DEF P!TypeOK, P!Refused, P!AnswerLost, P!ProcessEnds, P!Replies, P!atProvider, CallInv
  <1>3. QED
    BY <1>1, <1>2 DEF P!Refused, P!AnswerLost, P!ProcessEnds, P!atProvider

LEMMA ProvisionKeeps ==
  ASSUME ProviderInv, NEW h \in Handlers, P!Provision(h)
  PROVE  ProviderInv'
  BY CreateKeeps, AdoptKeeps, JoinKeeps, RefreshKeeps, ContinueKeeps, MishapKeeps
     DEF P!Provision, P!Provider

-----------------------------------------------------------------------------
(* The browsers, their attempts and the callbacks they request.            *)

Matched(h) == of[h] \in Attempts /\ from[h] = BrowserOf[of[h]]

\* What a callback request is, by how far it has come.
CallbackInv(h) ==
  /\ phase[h] # "unsent" => of[h] \in Attempts /\ from[h] \in Browsers
                            /\ attempt[of[h]] \in {"code", "denied"}
  /\ phase[h] = "unsent" => of[h] = NoAttempt /\ ~clears[h]
  /\ phase[h] \in {"unsent", "exchanging", "answered"} => step[h] = "idle"
  /\ phase[h] = "exchanging" => attempt[of[h]] = "code" /\ Matched(h)
  /\ step[h] # "idle" => of[h] \in spent /\ Matched(h) /\ user[h] = chosen[of[h]]

\* A state is only remembered by the browser it was minted in, and only an
\* attempt somebody completed is exchanged.
AttemptsInv ==
  /\ \A b \in Browsers : stateCookie[b] # NoAttempt =>
       BrowserOf[stateCookie[b]] = b /\ attempt[stateCookie[b]] # "new"
  /\ \A a \in Attempts : attempt[a] = "code" => chosen[a] \in Users
  /\ \A a \in spent : attempt[a] = "code"

BrowserInv ==
  /\ TypeOK
  /\ AttemptsInv
  /\ \A h \in Handlers : CallbackInv(h)
  /\ SessionIsOwnSignIn

IInv == ProviderInv /\ BrowserInv

LEMMA BrowserInit == Init => BrowserInv
  <1> SUFFICES ASSUME Init PROVE BrowserInv
    OBVIOUS
  <1>1. TypeOK
    BY BrowsersAssumption, ProviderInit DEF Init, ProviderInv, TypeOK, SignedOut
  <1>2. AttemptsInv /\ SessionIsOwnSignIn
    BY DEF Init, AttemptsInv, SessionIsOwnSignIn
  <1>3. \A h \in Handlers : CallbackInv(h)
    BY DEF Init, P!Init, CallbackInv
  <1>4. QED
    BY <1>1, <1>2, <1>3 DEF BrowserInv

LEMMA StartKeeps ==
  ASSUME BrowserInv, NEW a \in Attempts, Start(a)
  PROVE  BrowserInv'
  <1> USE BrowsersAssumption DEF BrowserInv, provisioning
  <1>1. TypeOK'
    BY DEF Start, TypeOK, P!TypeOK
  <1>2. AttemptsInv'
    BY DEF Start, TypeOK, AttemptsInv
  <1>3. \A h \in Handlers : CallbackInv(h)'
    BY DEF Start, TypeOK, CallbackInv, Matched
  <1>4. SessionIsOwnSignIn'
    BY DEF Start, SessionIsOwnSignIn
  <1>5. QED
    BY <1>1, <1>2, <1>3, <1>4

LEMMA ReturnKeeps ==
  ASSUME BrowserInv, NEW a \in Attempts, Return(a)
  PROVE  BrowserInv'
  <1> USE BrowsersAssumption DEF BrowserInv, provisioning, browsers
  <1>1. TypeOK'
    BY SMTT(30) DEF Return, TypeOK, P!TypeOK
  <1>2. AttemptsInv'
    BY DEF Return, TypeOK, AttemptsInv
  <1>3. \A h \in Handlers : CallbackInv(h)'
    BY DEF Return, TypeOK, AttemptsInv, CallbackInv, Matched
  <1>4. SessionIsOwnSignIn'
    BY DEF Return, TypeOK, AttemptsInv, SessionIsOwnSignIn
  <1>5. QED
    BY <1>1, <1>2, <1>3, <1>4

LEMMA ExpireKeeps ==
  ASSUME BrowserInv, NEW b \in Browsers, Expire(b)
  PROVE  BrowserInv'
  <1> USE BrowsersAssumption DEF BrowserInv, provisioning, attempts
  <1>1. TypeOK'
    BY DEF Expire, TypeOK, P!TypeOK
  <1>2. AttemptsInv'
    BY DEF Expire, TypeOK, AttemptsInv
  <1>3. \A h \in Handlers : CallbackInv(h)'
    BY DEF Expire, CallbackInv, Matched
  <1>4. SessionIsOwnSignIn'
    BY DEF Expire, SessionIsOwnSignIn
  <1>5. QED
    BY <1>1, <1>2, <1>3, <1>4

LEMMA CallbackKeeps ==
  ASSUME BrowserInv, NEW h \in Handlers, NEW a \in Attempts, NEW b \in Browsers,
         Callback(h, a, b)
  PROVE  BrowserInv'
  <1> USE BrowsersAssumption DEF BrowserInv, provisioning, browsers, attempts
  <1>1. TypeOK'
    BY DEF Callback, TypeOK, P!TypeOK, Clears, StateMatches
  <1>2. AttemptsInv'
    BY DEF Callback, AttemptsInv
  <1>3. ASSUME NEW g \in Handlers PROVE CallbackInv(g)'
    BY <1>3 DEF Callback, TypeOK, AttemptsInv, CallbackInv, Matched, StateMatches
  <1>4. SessionIsOwnSignIn'
    BY DEF Callback, SessionIsOwnSignIn
  <1>5. QED
    BY <1>1, <1>2, <1>3, <1>4

LEMMA ExchangeKeeps ==
  ASSUME IInv, NEW h \in Handlers, Exchange(h)
  PROVE  IInv'
  <1> USE BrowsersAssumption DEF IInv, BrowserInv, browsers
  <1>1. chosen[of[h]] \in Users /\ of[h] \in Attempts
    BY DEF Exchange, CallbackInv, AttemptsInv, Matched
  <1>2. ProviderInv'
    BY <1>1, AuthenticateKeeps DEF Exchange
  <1>3. TypeOK'
    BY <1>1, <1>2 DEF Exchange, TypeOK, ProviderInv
  <1>4. AttemptsInv'
    BY DEF Exchange, AttemptsInv, CallbackInv
  <1>5. ASSUME NEW g \in Handlers PROVE CallbackInv(g)'
    BY <1>1, <1>5 DEF Exchange, TypeOK, P!TypeOK, P!Authenticate, CallbackInv, Matched
  <1>6. SessionIsOwnSignIn'
    BY DEF Exchange, SessionIsOwnSignIn
  <1>7. QED
    BY <1>2, <1>3, <1>4, <1>5, <1>6

LEMMA RefusalKeeps ==
  ASSUME BrowserInv, NEW h \in Handlers, ExchangeRefused(h) \/ ExchangeAbandoned(h)
  PROVE  BrowserInv'
  <1> USE BrowsersAssumption DEF BrowserInv, provisioning, browsers, attempts
  <1>1. of[h] \in Attempts /\ attempt[of[h]] = "code"
    BY DEF ExchangeRefused, ExchangeAbandoned, CallbackInv, Matched
  <1>2. TypeOK'
    <2>1. CASE ExchangeRefused(h)
      BY <1>1, <2>1 DEF ExchangeRefused, TypeOK, P!TypeOK
    <2>2. CASE ExchangeAbandoned(h)
      BY <1>1, <2>2 DEF ExchangeAbandoned, TypeOK, P!TypeOK
    <2>3. QED
      BY <2>1, <2>2
  <1>3. AttemptsInv'
    BY <1>1 DEF ExchangeRefused, ExchangeAbandoned, AttemptsInv
  <1>4. ASSUME NEW g \in Handlers PROVE CallbackInv(g)'
    BY <1>4 DEF ExchangeRefused, ExchangeAbandoned, TypeOK, CallbackInv, Matched
  <1>5. SessionIsOwnSignIn'
    BY DEF ExchangeRefused, ExchangeAbandoned, SessionIsOwnSignIn
  <1>6. QED
    BY <1>2, <1>3, <1>4, <1>5

\* A provisioning request keeps the person it authenticated, and no request
\* begins or forgets one.
LEMMA ProvisionEffect ==
  ASSUME ProviderInv, NEW h \in Handlers, P!Provision(h)
  PROVE  /\ UNCHANGED user
         /\ \A g \in Handlers : step'[g] = "idle" <=> step[g] = "idle"
         /\ \A g \in Handlers : g # h => step'[g] = step[g]
  <1>1. CASE P!Continue(h)
    <2>1. step[h] \in P!Calls /\ step' = [step EXCEPT ![h] = P!After(h)]
      BY <1>1 DEF P!Continue
    <2>2. P!After(h) # "idle"
      BY <1>1, <2>1, AfterCall DEF P!Continue, P!Calls
    <2>3. QED
      BY <1>1, <2>1, <2>2 DEF P!Continue, P!Calls, ProviderInv, P!TypeOK
  <1>2. CASE P!Create(h)
    BY <1>2 DEF P!Create
  <1>3. CASE P!Adopt(h) \/ P!Join(h) \/ P!Refresh(h)
    BY <1>3 DEF P!Adopt, P!Join, P!Refresh
  <1>4. CASE P!Refused(h) \/ P!AnswerLost(h) \/ P!ProcessEnds(h)
    BY <1>4 DEF P!Refused, P!AnswerLost, P!ProcessEnds
  <1>5. QED
    BY <1>1, <1>2, <1>3, <1>4 DEF P!Provision, P!Provider

LEMMA ProvisioningKeeps ==
  ASSUME IInv, NEW h \in Handlers, Provision(h)
  PROVE  IInv'
  <1> USE DEF IInv, BrowserInv, browsers, attempts
  <1>1. ProviderInv'
    BY ProvisionKeeps DEF Provision
  <1>2. TypeOK'
    BY <1>1 DEF Provision, TypeOK, ProviderInv
  <1>3. AttemptsInv' /\ SessionIsOwnSignIn'
    BY DEF Provision, AttemptsInv, SessionIsOwnSignIn
  <1>4. \A g \in Handlers : CallbackInv(g)'
    BY ProvisionEffect DEF Provision, CallbackInv, Matched
  <1>5. QED
    BY <1>1, <1>2, <1>3, <1>4

LEMMA DeliverKeeps ==
  ASSUME IInv, NEW h \in Handlers, Deliver(h) \/ Drop(h)
  PROVE  BrowserInv'
  <1> USE BrowsersAssumption DEF IInv, BrowserInv, provisioning, browsers, attempts
  <1>1. phase[h] # "unsent" /\ from[h] \in Browsers
    BY DEF Deliver, Drop, Answered, CallbackInv
  <1>2. step[h] = "established" => of[h] \in spent /\ from[h] = BrowserOf[of[h]]
                                   /\ user[h] = chosen[of[h]] /\ user[h] \in Users
    <2>1. CallbackInv(h) /\ CallInv(h) /\ user[h] \in Users \union {Nobody}
      BY DEF ProviderInv, P!TypeOK
    <2>2. QED
      BY <2>1 DEF CallbackInv, CallInv, Matched
  <1>3. Carries(h) \in [user : Users \union {Nobody}, org : P!Orgs \union {NoOrg}]
    BY <1>1 DEF Carries, TypeOK, P!TypeOK
  <1>4. TypeOK'
    <2>1. CASE Deliver(h)
      <3>1. sessionCookie' \in [Browsers -> [user : Users \union {Nobody},
                                             org : P!Orgs \union {NoOrg}]]
        BY <1>1, <1>3, <2>1 DEF Deliver, TypeOK
      <3>2. QED
        BY <1>1, <2>1, <3>1 DEF Deliver, TypeOK, P!TypeOK
    <2>2. CASE Drop(h)
      BY <2>2 DEF Drop, TypeOK, P!TypeOK
    <2>3. QED
      BY <2>1, <2>2
  <1>5. AttemptsInv'
    BY <1>1 DEF Deliver, Drop, TypeOK, AttemptsInv
  <1>6. ASSUME NEW g \in Handlers PROVE CallbackInv(g)'
    <2>1. phase' = [phase EXCEPT ![h] = "over"]
          /\ UNCHANGED <<of, from, clears, attempt, chosen, spent, step, user>>
      BY DEF Deliver, Drop
    <2>2. QED
      BY <1>1, <1>6, <2>1 DEF TypeOK, CallbackInv, Matched
  <1>7. SessionIsOwnSignIn'
    <2>1. sessionCookie' = [sessionCookie EXCEPT ![from[h]] = Carries(h)]
          \/ sessionCookie' = sessionCookie
      BY DEF Deliver, Drop
    <2>2. UNCHANGED <<chosen, spent>>
      BY DEF Deliver, Drop
    <2>3. ASSUME NEW b \in Browsers, sessionCookie'[b] # SignedOut
          PROVE  \E a \in spent : BrowserOf[a] = b /\ chosen[a] = sessionCookie'[b].user
      <3>1. CASE sessionCookie'[b] = sessionCookie[b]
        BY <2>3, <3>1 DEF SessionIsOwnSignIn
      <3>2. CASE b = from[h] /\ sessionCookie'[b] = Carries(h)
        BY <1>2, <2>3, <3>2 DEF Carries, SessionIsOwnSignIn
      <3>3. QED
        BY <1>1, <2>1, <3>1, <3>2 DEF TypeOK
    <2>4. QED
      BY <2>2, <2>3 DEF SessionIsOwnSignIn
  <1>8. QED
    BY <1>4, <1>5, <1>6, <1>7

LEMMA IInvInit == Init => IInv
  BY ProviderInit, BrowserInit DEF IInv

\* The actions of the browser leave the provider and its requests alone.
LEMMA ProviderRests ==
  ASSUME ProviderInv, UNCHANGED provisioning
  PROVE  ProviderInv'
  BY DEF ProviderInv, CallInv, provisioning, P!TypeOK

LEMMA IInvStep == IInv /\ [Next]_vars => IInv'
  <1> SUFFICES ASSUME IInv, [Next]_vars PROVE IInv'
    OBVIOUS
  <1>1. ASSUME NEW a \in Attempts, Start(a) \/ Return(a) PROVE IInv'
    BY <1>1, StartKeeps, ReturnKeeps, ProviderRests DEF IInv, Start, Return
  <1>2. ASSUME NEW b \in Browsers, Expire(b) PROVE IInv'
    BY <1>2, ExpireKeeps, ProviderRests DEF IInv, Expire
  <1>3. ASSUME NEW h \in Handlers, NEW a \in Attempts, NEW b \in Browsers,
               Callback(h, a, b) PROVE IInv'
    BY <1>3, CallbackKeeps, ProviderRests DEF IInv, Callback
  <1>4. ASSUME NEW h \in Handlers, Exchange(h) \/ Provision(h) PROVE IInv'
    BY <1>4, ExchangeKeeps, ProvisioningKeeps
  <1>5. ASSUME NEW h \in Handlers, ExchangeRefused(h) \/ ExchangeAbandoned(h) PROVE IInv'
    BY <1>5, RefusalKeeps, ProviderRests DEF IInv, ExchangeRefused, ExchangeAbandoned
  <1>6. ASSUME NEW h \in Handlers, Deliver(h) \/ Drop(h) PROVE IInv'
    BY <1>6, DeliverKeeps, ProviderRests DEF IInv, Deliver, Drop
  <1>7. CASE UNCHANGED vars
    <2>1. UNCHANGED provisioning /\ ProviderInv'
      BY <1>7, ProviderRests DEF vars, IInv
    <2>2. QED
      BY <1>7, <2>1 DEF vars, browsers, attempts, provisioning, IInv, BrowserInv, TypeOK,
         P!TypeOK, AttemptsInv, CallbackInv, Matched, SessionIsOwnSignIn
  <1>8. QED
    BY <1>1, <1>2, <1>3, <1>4, <1>5, <1>6, <1>7 DEF Next

LEMMA Invariant == Spec => []IInv
  BY IInvInit, IInvStep, PTL DEF Spec

\* TypeOK is an invariant: every variable of the sign-in and of the
\* provisioning under it keeps its type.
THEOREM TypeCorrect == Spec => []TypeOK
  <1>1. IInv => TypeOK
    BY DEF IInv, BrowserInv
  <1>2. QED
    BY Invariant, <1>1, PTL

\* A browser is only ever signed in as somebody who completed an attempt that
\* very browser started (handleCallback compares the state with the cookie
\* before it exchanges anything).
THEOREM OwnSignIn == Spec => []SessionIsOwnSignIn
  <1>1. IInv => SessionIsOwnSignIn
    BY DEF IInv, BrowserInv
  <1>2. QED
    BY Invariant, <1>1, PTL

\* No person is founded two workspaces, however many callbacks, tabs and
\* retries ask for one (the external id of provisionOrganization is unique).
THEOREM OneWorkspace == Spec => []OneWorkspaceEach
  <1>1. IInv => OneWorkspaceEach
    <2> SUFFICES ASSUME IInv,
                        NEW p \in Users \X Workspaces, founder[p[2]] = p[1],
                        NEW q \in Users \X Workspaces, founder[q[2]] = q[1],
                        p[1] = q[1] \/ p[2] = q[2]
                 PROVE  p = q
      BY DEF OneWorkspaceEach, P!OneWorkspaceEach, P!Promise!OneWorkspaceEach
    <2>1. p[1] # Nobody
      BY ProvisioningAssumption DEF P!OrganizationsAssumption
    <2>2. p[2] = q[2]
      BY <2>1 DEF IInv, ProviderInv
    <2>3. p[1] = q[1]
      BY <2>2
    <2>4. QED
      BY <2>2, <2>3
  <1>2. QED
    BY Invariant, <1>1, PTL

-----------------------------------------------------------------------------
(* Signing up implements Signup, step by step.                             *)

own == {p \in Users \X Workspaces : founder[p[2]] = p[1]}
Promised == P!Promise!Next \/ UNCHANGED P!Promise!vars

LEMMA Tells ==
  ASSUME NEW h \in Handlers
  PROVE  /\ step[h] = "established" => P!Told(h) = P!Promise!Session(user[h], org[h])
         /\ step[h] = "failed" => P!Told(h) = P!Promise!Refused
         /\ step[h] \notin {"established", "failed"} => P!Told(h) = P!Promise!Pending
  BY Zenon DEF P!Told, P!Promise!Session, P!Promise!Refused, P!Promise!Pending

LEMMA TellsNext ==
  ASSUME NEW h \in Handlers
  PROVE  /\ step'[h] = "established" => P!Told(h)' = P!Promise!Session(user'[h], org'[h])
         /\ step'[h] = "failed" => P!Told(h)' = P!Promise!Refused
         /\ step'[h] \notin {"established", "failed"} => P!Told(h)' = P!Promise!Pending
  BY Zenon DEF P!Told, P!Promise!Session, P!Promise!Refused, P!Promise!Pending

\* What is told of a request is settled by the step it has reached and the
\* authentication it holds.
LEMMA ToldStays ==
  ASSUME NEW h \in Handlers, step'[h] = step[h],
         step[h] = "established" => user'[h] = user[h] /\ org'[h] = org[h]
  PROVE  P!Told(h)' = P!Told(h)
  BY Tells, TellsNext

LEMMA NothingTold ==
  ASSUME UNCHANGED <<founder, members>>, \A h \in Handlers : P!Told(h)' = P!Told(h)
  PROVE  UNCHANGED P!Promise!vars
  BY DEF P!Promise!vars

LEMMA CreateFounds ==
  ASSUME ProviderInv, NEW h \in Handlers, P!Create(h)
  PROVE  Promised
  <1> USE ProvisioningAssumption DEF P!OrganizationsAssumption
  <1>1. \A g \in Handlers : P!Told(g)' = P!Told(g)
    BY ToldStays DEF P!Create
  <1>2. CASE UNCHANGED founder
    BY <1>1, <1>2, NothingTold DEF Promised, P!Create
  <1>3. CASE ~UNCHANGED founder
    <2>1. PICK o \in Workspaces :
            /\ founder[o] = Nobody /\ founder' = [founder EXCEPT ![o] = user[h]]
            /\ P!Holding(h) = {}
      BY <1>3 DEF P!Create, P!NotFounded
    <2>2. user[h] \in Users
      BY DEF P!Create, P!Waits, ProviderInv, CallInv, P!TypeOK
    <2>3. \A q \in Workspaces : founder[q] # user[h]
      BY <2>1, <2>2 DEF P!Holding, P!ExternalId, ProviderInv
    <2>4. \A p \in own : p[1] # user[h] /\ p[2] # o
      BY <2>1, <2>3 DEF own
    <2>5. own' = own \union {<<user[h], o>>}
      BY <2>1, <2>2, <2>3 DEF own, ProviderInv, P!TypeOK
    <2>6. P!Promise!Found(user[h], o)
      BY <1>1, <2>4, <2>5 DEF P!Promise!Found, P!Create, own
    <2>7. QED
      BY <2>2, <2>6 DEF Promised, P!Promise!Next
  <1>4. QED
    BY <1>2, <1>3

LEMMA JoinJoins ==
  ASSUME ProviderInv, NEW h \in Handlers, P!Join(h)
  PROVE  Promised
  <1>1. user[h] \in Users /\ target[h] \in Workspaces /\ founder[target[h]] = user[h]
    BY ProvisioningAssumption DEF P!OrganizationsAssumption, P!Join, P!Waits, ProviderInv, CallInv, P!TypeOK
  <1>2. \A g \in Handlers : P!Told(g)' = P!Told(g)
    BY ToldStays DEF P!Join
  <1>3. P!Promise!Join(user[h], target[h])
    BY <1>1, <1>2 DEF P!Promise!Join, P!Join
  <1>4. QED
    BY <1>1, <1>3 DEF Promised, P!Promise!Next

LEMMA ContinueTells ==
  ASSUME ProviderInv, ProviderInv', NEW h \in Handlers, P!Continue(h)
  PROVE  Promised
  <1> USE ProvisioningAssumption DEF P!OrganizationsAssumption
  <1>0. /\ step[h] \in P!Calls
        /\ step' = [step EXCEPT ![h] = P!After(h)]
        /\ UNCHANGED <<founder, holder, members, user, org, target, alive>>
    BY DEF P!Continue, P!atProvider
  <1>1. step'[h] = P!After(h) /\ \A g \in Handlers : g # h => step'[g] = step[g]
    BY <1>0 DEF ProviderInv, P!TypeOK
  <1>2. \A g \in Handlers : g # h => P!Told(g)' = P!Told(g)
    BY <1>0, <1>1, ToldStays
  <1>3. P!Told(h) = P!Promise!Pending
    BY <1>0, Tells DEF P!Calls
  <1>4. CASE P!After(h) = "established"
    <2>1. P!Told(h)' = P!Promise!Session(user[h], org[h])
      BY <1>0, <1>1, <1>4, TellsNext
    <2>2. /\ user[h] \in Users /\ org[h] \in P!Promise!Orgs \union {NoOrg}
          /\ <<user[h], org[h]>> \in members \/ (Policy = "existing" /\ org[h] = NoOrg)
      <3>1. /\ CallInv(h) /\ user[h] \in Users \union {Nobody}
            /\ org[h] \in P!Orgs \union {NoOrg}
        BY DEF ProviderInv, P!TypeOK
      <3>2. org[h] # NoOrg \/ Policy = "existing"
        BY <1>0, <1>1, <1>4 DEF ProviderInv, CallInv
      <3>3. step[h] # "idle"
        BY <1>0 DEF P!Calls
      <3>4. user[h] \in Users /\ org[h] \in P!Promise!Orgs \union {NoOrg}
        BY <3>1, <3>3 DEF CallInv, P!Orgs, P!Promise!Orgs
      <3>5. QED
        BY <3>1, <3>2, <3>4 DEF CallInv
    <2>3. P!Promise!Admit(h, user[h], org[h])
      BY <1>0, <1>2, <1>3, <2>1, <2>2 DEF P!Promise!Admit
    <2>4. QED
      BY <2>2, <2>3 DEF Promised, P!Promise!Next
  <1>5. CASE P!After(h) = "failed"
    <2>1. P!Told(h)' = P!Promise!Refused
      BY <1>0, <1>1, <1>5, TellsNext
    <2>2. P!Promise!Refuse(h)
      BY <1>0, <1>2, <1>3, <2>1 DEF P!Promise!Refuse
    <2>3. QED
      BY <2>2 DEF Promised, P!Promise!Next
  <1>6. CASE P!After(h) \notin {"established", "failed"}
    <2>1. P!Told(h)' = P!Told(h)
      BY <1>1, <1>3, <1>6, TellsNext
    <2>2. QED
      BY <1>0, <1>2, <2>1, NothingTold DEF Promised
  <1>7. QED
    BY <1>4, <1>5, <1>6

LEMMA ProvisionPromised ==
  ASSUME ProviderInv, ProviderInv', NEW h \in Handlers, P!Provision(h)
  PROVE  Promised
  <1>1. CASE P!Create(h) \/ P!Join(h) \/ P!Continue(h)
    BY <1>1, CreateFounds, JoinJoins, ContinueTells
  <1>2. CASE P!Adopt(h)
    <2>1. \A g \in Handlers : P!Told(g)' = P!Told(g)
      BY <1>2, ToldStays DEF P!Adopt
    <2>2. QED
      BY <1>2, <2>1, NothingTold DEF P!Adopt, P!atProvider, Promised
  <1>3. CASE P!Refresh(h)
    <2>1. step[h] = "refresh" /\ org' = [org EXCEPT ![h] = target[h]] /\ UNCHANGED <<step, user>>
      BY <1>3 DEF P!Refresh, P!Waits
    <2>2. \A g \in Handlers : step[g] = "established" => org'[g] = org[g]
      BY <2>1 DEF ProviderInv, P!TypeOK
    <2>3. \A g \in Handlers : P!Told(g)' = P!Told(g)
      BY <2>1, <2>2, ToldStays
    <2>4. QED
      BY <1>3, <2>3, NothingTold DEF P!Refresh, P!atProvider, Promised
  <1>4. CASE P!Refused(h) \/ P!AnswerLost(h) \/ P!ProcessEnds(h)
    <2>1. UNCHANGED <<founder, members, step, user, org>>
      BY <1>4 DEF P!Refused, P!AnswerLost, P!ProcessEnds, P!atProvider
    <2>2. \A g \in Handlers : P!Told(g)' = P!Told(g)
      BY <2>1, ToldStays
    <2>3. QED
      BY <2>1, <2>2, NothingTold DEF Promised
  <1>5. QED
    BY <1>1, <1>2, <1>3, <1>4 DEF P!Provision, P!Provider

LEMMA AuthenticatePromised ==
  ASSUME ProviderInv, NEW h \in Handlers, NEW u \in Users, P!Authenticate(h, u)
  PROVE  Promised
  <1>1. /\ step[h] = "idle" /\ step' = [step EXCEPT ![h] = "signin"]
        /\ user' = [user EXCEPT ![h] = u] /\ UNCHANGED <<founder, members>>
    BY DEF P!Authenticate, P!atProvider
  <1>2. PICK o : org' = [org EXCEPT ![h] = o]
    BY DEF P!Authenticate
  <1>3. \A g \in Handlers : g # h =>
          step'[g] = step[g] /\ user'[g] = user[g] /\ org'[g] = org[g]
    BY <1>1, <1>2 DEF ProviderInv, P!TypeOK
  <1>4. \A g \in Handlers : g # h => P!Told(g)' = P!Told(g)
    BY <1>3, ToldStays
  <1>5. step'[h] = "signin"
    BY <1>1 DEF ProviderInv, P!TypeOK
  <1>6. P!Told(h)' = P!Told(h)
    BY <1>1, <1>5, Tells, TellsNext
  <1>7. QED
    BY <1>1, <1>4, <1>6, NothingTold DEF Promised

LEMMA PromiseInit == Init => P!Promise!Init
  <1> SUFFICES ASSUME Init PROVE P!Promise!Init
    OBVIOUS
  <1>1. {p \in Users \X Workspaces : founder[p[2]] = p[1]} = {}
    BY ProvisioningAssumption DEF P!OrganizationsAssumption, Init, P!Init
  <1>2. \A h \in Handlers : P!Told(h) = P!Promise!Pending
    BY Tells DEF Init, P!Init
  <1>3. QED
    BY <1>1, <1>2 DEF Init, P!Init, P!Promise!Init

LEMMA StepPromised == IInv /\ IInv' /\ [Next]_vars => Promised
  <1> SUFFICES ASSUME IInv, IInv', [Next]_vars PROVE Promised
    OBVIOUS
  <1>1. ASSUME NEW h \in Handlers, Provision(h) PROVE Promised
    BY <1>1, ProvisionPromised DEF IInv, Provision
  <1>2. ASSUME NEW h \in Handlers, Exchange(h) PROVE Promised
    BY <1>2, AuthenticatePromised DEF IInv, BrowserInv, Exchange, CallbackInv, AttemptsInv, Matched
  <1>3. CASE UNCHANGED provisioning
    <2>1. UNCHANGED <<founder, members, step, user, org>>
      BY <1>3 DEF provisioning
    <2>2. \A g \in Handlers : P!Told(g)' = P!Told(g)
      BY <2>1, ToldStays
    <2>3. QED
      BY <2>1, <2>2, NothingTold DEF Promised
  <1>4. QED
    BY <1>1, <1>2, <1>3 DEF Next, vars, Start, Return, Expire, Callback, ExchangeRefused,
       ExchangeAbandoned, Deliver, Drop

\* Whatever is repeated, lost or interrupted, the sign-in implements Signup: a
\* workspace is founded once for a person, and a session names an organization
\* the person belongs to (handleCallback over ensureOrganization).
THEOREM ImplementsSignup == Spec => SignupImplemented
  <1>1. P!Promise!Init /\ [][P!Promise!Next]_(P!Promise!vars) => SignupImplemented
    BY PTL DEF SignupImplemented, P!SignupImplemented, P!Promise!Spec
  <1>2. IInv /\ IInv' /\ [Next]_vars => [P!Promise!Next]_(P!Promise!vars)
    BY StepPromised DEF Promised
  <1>3. QED
    BY <1>1, <1>2, PromiseInit, Invariant, PTL DEF Spec

-----------------------------------------------------------------------------
(* Some tab gets in.                                                       *)

\* Of what arrived undisturbed: every exchange is some request's, which told
\* its browser; a browser that started remembers a state until a request that
\* matched it is over.
Undisturbed ==
  /\ \A h \in Handlers : phase[h] = "over" /\ step[h] # "idle" =>
       \/ step[h] = "failed"
       \/ step[h] = "established" /\ sessionCookie[from[h]] # SignedOut
  /\ \A a \in spent : \E h \in Handlers : of[h] = a /\ step[h] # "idle"
  /\ \A h \in Handlers : clears[h] /\ phase[h] # "exchanging" =>
       attempt[of[h]] = "denied" \/ of[h] \in spent
  /\ \A a \in Attempts : attempt[a] # "new" =>
       \/ stateCookie[BrowserOf[a]] # NoAttempt
       \/ \E h \in Handlers : clears[h] /\ phase[h] = "over" /\ from[h] = BrowserOf[a]

TabsInv ==
  /\ \A h \in Handlers : clears[h] => Matched(h)
  /\ \A h \in Handlers : of[h] # NoAttempt /\ stateCookie[from[h]] = of[h] => clears[h]
  /\ ~disturbed => Undisturbed

LEMMA TabsInit == Init => TabsInv
  BY DEF Init, P!Init, TabsInv, Undisturbed

LEMMA TabsStart ==
  ASSUME IInv, TabsInv, NEW a \in Attempts, Start(a)
  PROVE  TabsInv'
  <1> USE BrowsersAssumption DEF IInv, BrowserInv, provisioning
  <1>1. /\ attempt[a] = "new" /\ attempt' = [attempt EXCEPT ![a] = "away"]
        /\ stateCookie' = [stateCookie EXCEPT ![BrowserOf[a]] = a]
        /\ UNCHANGED <<step, sessionCookie, chosen, spent, phase, of, from, clears, disturbed>>
    BY DEF Start
  <1>2. \A h \in Handlers : of[h] # a
    BY <1>1 DEF CallbackInv
  <1>3. \A h \in Handlers : clears'[h] => Matched(h)'
    BY <1>1 DEF TabsInv, Matched
  <1>4. \A h \in Handlers : of'[h] # NoAttempt /\ stateCookie'[from'[h]] = of'[h] => clears'[h]
    <2> TAKE h \in Handlers
    <2>1. CASE of[h] = NoAttempt
      BY <1>1, <2>1
    <2>2. CASE of[h] # NoAttempt
      BY <1>1, <1>2, <2>2 DEF TabsInv, TypeOK, CallbackInv
    <2>3. QED
      BY <2>1, <2>2
  <1>5. Undisturbed => Undisturbed'
    BY <1>1, <1>2 DEF Undisturbed, TypeOK
  <1>6. QED
    BY <1>1, <1>3, <1>4, <1>5 DEF TabsInv

LEMMA TabsReturn ==
  ASSUME IInv, TabsInv, NEW a \in Attempts, Return(a)
  PROVE  TabsInv'
  <1> USE BrowsersAssumption DEF IInv, BrowserInv
  <1>1. /\ attempt[a] = "away"
        /\ UNCHANGED <<step, stateCookie, sessionCookie, spent, phase, of, from, clears, disturbed>>
    BY DEF Return, provisioning, browsers
  <1>2. \A g \in Attempts : g # a => attempt'[g] = attempt[g]
    BY DEF Return, TypeOK
  <1>3. \A h \in Handlers : of[h] # a
    BY <1>1 DEF CallbackInv
  <1>4. Undisturbed => Undisturbed'
    <2> SUFFICES ASSUME Undisturbed PROVE Undisturbed'
      OBVIOUS
    <2>1. \A h \in Handlers : clears[h] => of[h] \in Attempts /\ of[h] # a
      BY <1>3 DEF TabsInv, Matched
    <2>2. QED
      BY <1>1, <1>2, <2>1 DEF Undisturbed
  <1>5. QED
    BY <1>1, <1>4 DEF TabsInv, Matched

LEMMA TabsCallback ==
  ASSUME IInv, TabsInv, NEW h \in Handlers, NEW a \in Attempts, NEW b \in Browsers,
         Callback(h, a, b)
  PROVE  TabsInv'
  <1> USE BrowsersAssumption DEF IInv, BrowserInv
  <1>1. /\ phase[h] = "unsent" /\ attempt[a] \in {"code", "denied"}
        /\ of' = [of EXCEPT ![h] = a] /\ from' = [from EXCEPT ![h] = b]
        /\ clears' = [clears EXCEPT ![h] = (stateCookie[b] = a)]
        /\ phase' = [phase EXCEPT ![h] =
             IF stateCookie[b] = a /\ attempt[a] = "code" THEN "exchanging" ELSE "answered"]
        /\ UNCHANGED <<step, attempt, stateCookie, sessionCookie, spent, disturbed>>
    BY DEF Callback, Clears, StateMatches, provisioning, browsers, attempts
  <1>2. of[h] = NoAttempt /\ step[h] = "idle" /\ ~clears[h]
    BY <1>1 DEF CallbackInv
  <1>3. stateCookie[b] = a => BrowserOf[a] = b
    BY DEF AttemptsInv
  <1>4. of'[h] = a /\ from'[h] = b /\ (clears'[h] <=> stateCookie[b] = a)
        /\ phase'[h] = IF stateCookie[b] = a /\ attempt[a] = "code" THEN "exchanging" ELSE "answered"
    BY <1>1 DEF TypeOK
  <1>5. \A g \in Handlers : g # h => /\ of'[g] = of[g] /\ from'[g] = from[g]
                                     /\ clears'[g] = clears[g] /\ phase'[g] = phase[g]
    BY <1>1 DEF TypeOK
  <1>6. \A g \in Handlers : clears'[g] => Matched(g)'
    <2>1. clears'[h] => Matched(h)'
      BY <1>3, <1>4 DEF Matched
    <2>2. \A g \in Handlers : g # h => (clears'[g] => Matched(g)')
      BY <1>5 DEF TabsInv, Matched
    <2>3. QED
      BY <2>1, <2>2
  <1>7. \A g \in Handlers : of'[g] # NoAttempt /\ stateCookie'[from'[g]] = of'[g] => clears'[g]
    BY <1>1, <1>4, <1>5 DEF TabsInv
  <1>8. Undisturbed => Undisturbed'
    <2> SUFFICES ASSUME Undisturbed PROVE Undisturbed'
      OBVIOUS
    <2>1. \A g \in Handlers : phase'[g] = "over" /\ step'[g] # "idle" =>
            \/ step'[g] = "failed"
            \/ step'[g] = "established" /\ sessionCookie'[from'[g]] # SignedOut
      BY <1>1, <1>2, <1>5 DEF Undisturbed
    <2>2. \A c \in spent' : \E g \in Handlers : of'[g] = c /\ step'[g] # "idle"
      BY <1>1, <1>2, <1>5 DEF Undisturbed
    <2>3. \A g \in Handlers : clears'[g] /\ phase'[g] # "exchanging" =>
            attempt'[of'[g]] = "denied" \/ of'[g] \in spent'
      <3>1. clears'[h] /\ phase'[h] # "exchanging" => attempt[a] = "denied"
        BY <1>1, <1>4
      <3>2. QED
        BY <1>1, <1>4, <1>5, <3>1 DEF Undisturbed
    <2>4. \A c \in Attempts : attempt'[c] # "new" =>
            \/ stateCookie'[BrowserOf[c]] # NoAttempt
            \/ \E g \in Handlers : clears'[g] /\ phase'[g] = "over" /\ from'[g] = BrowserOf[c]
      BY <1>1, <1>2, <1>5 DEF Undisturbed
    <2>5. QED
      BY <2>1, <2>2, <2>3, <2>4 DEF Undisturbed
  <1>9. QED
    BY <1>1, <1>6, <1>7, <1>8 DEF TabsInv

LEMMA TabsExchange ==
  ASSUME IInv, TabsInv, NEW h \in Handlers, Exchange(h)
  PROVE  TabsInv'
  <1> USE BrowsersAssumption DEF IInv, BrowserInv
  <1>1. /\ phase[h] = "exchanging" /\ spent' = spent \union {of[h]}
        /\ step' = [step EXCEPT ![h] = "signin"]
        /\ phase' = [phase EXCEPT ![h] = "provisioning"]
        /\ UNCHANGED <<attempt, stateCookie, sessionCookie, of, from, clears, disturbed>>
    BY DEF Exchange, P!Authenticate, browsers
  <1>2. step[h] = "idle" /\ step'[h] = "signin" /\ phase'[h] = "provisioning"
    BY <1>1 DEF CallbackInv, TypeOK, P!TypeOK
  <1>3. \A g \in Handlers : g # h => step'[g] = step[g] /\ phase'[g] = phase[g]
    BY <1>1 DEF TypeOK, P!TypeOK
  <1>4. Undisturbed => Undisturbed'
    BY <1>1, <1>2, <1>3 DEF Undisturbed
  <1>5. QED
    BY <1>1, <1>4 DEF TabsInv, Matched

LEMMA TabsRefusal ==
  ASSUME IInv, TabsInv, NEW h \in Handlers, ExchangeRefused(h) \/ ExchangeAbandoned(h)
  PROVE  TabsInv'
  <1> USE BrowsersAssumption DEF IInv, BrowserInv
  <1>1. /\ phase[h] = "exchanging"
        /\ UNCHANGED <<step, attempt, stateCookie, sessionCookie, of, from, clears>>
    BY DEF ExchangeRefused, ExchangeAbandoned, provisioning, browsers, attempts
  <1>2. CASE disturbed'
    BY <1>1, <1>2 DEF TabsInv, Matched
  <1>3. CASE ~disturbed'
    <2>1. ~disturbed /\ of[h] \in spent /\ spent' = spent
          /\ phase' = [phase EXCEPT ![h] = "answered"]
      BY <1>3 DEF ExchangeRefused, ExchangeAbandoned, attempts, TypeOK
    <2>2. step[h] = "idle" /\ phase'[h] = "answered"
          /\ \A g \in Handlers : g # h => phase'[g] = phase[g]
      BY <1>1, <2>1 DEF CallbackInv, TypeOK
    <2>3. Undisturbed
      BY <2>1 DEF TabsInv
    <2>4. Undisturbed'
      BY <1>1, <2>1, <2>2, <2>3 DEF Undisturbed
    <2>5. QED
      BY <1>1, <2>4 DEF TabsInv, Matched
  <1>4. QED
    BY <1>2, <1>3

LEMMA TabsProvision ==
  ASSUME IInv, TabsInv, NEW h \in Handlers, Provision(h)
  PROVE  TabsInv'
  <1> USE DEF IInv
  <1>1. /\ phase[h] = "provisioning"
        /\ UNCHANGED <<attempt, stateCookie, sessionCookie, spent, phase, of, from, clears, disturbed>>
    BY DEF Provision, browsers, attempts
  <1>2. /\ \A g \in Handlers : step'[g] = "idle" <=> step[g] = "idle"
        /\ \A g \in Handlers : g # h => step'[g] = step[g]
    BY ProvisionEffect DEF Provision
  <1>3. Undisturbed => Undisturbed'
    BY <1>1, <1>2 DEF Undisturbed
  <1>4. QED
    BY <1>1, <1>3 DEF TabsInv, Matched

LEMMA TabsDeliver ==
  ASSUME IInv, TabsInv, NEW h \in Handlers, Deliver(h)
  PROVE  TabsInv'
  <1> USE BrowsersAssumption DEF IInv, BrowserInv
  <1>1. /\ phase[h] # "unsent" /\ phase[h] # "exchanging" /\ from[h] \in Browsers
        /\ step[h] # "idle" => step[h] \in {"established", "failed"}
    BY DEF Deliver, Answered, CallbackInv
  <1>2. /\ sessionCookie' = [sessionCookie EXCEPT ![from[h]] = Carries(h)]
        /\ stateCookie' = IF clears[h] THEN [stateCookie EXCEPT ![from[h]] = NoAttempt]
                          ELSE stateCookie
        /\ phase' = [phase EXCEPT ![h] = "over"]
        /\ UNCHANGED <<step, user, attempt, spent, of, from, clears, disturbed>>
    BY DEF Deliver, provisioning, attempts
  <1>3. phase'[h] = "over" /\ \A g \in Handlers : g # h => phase'[g] = phase[g]
    BY <1>2 DEF TypeOK
  <1>4. step[h] = "established" => Carries(h) # SignedOut
    <2> SUFFICES ASSUME step[h] = "established" PROVE Carries(h).user # Nobody
      BY DEF SignedOut
    <2>1. user[h] # Nobody
      BY DEF ProviderInv, CallInv
    <2>2. QED
      BY <2>1 DEF Carries
  <1>5. step[h] # "established" => Carries(h) = sessionCookie[from[h]]
    BY DEF Carries
  <1>6. \A b \in Browsers : /\ sessionCookie[b] # SignedOut => sessionCookie'[b] # SignedOut
                            /\ b = from[h] /\ step[h] = "established" => sessionCookie'[b] # SignedOut
    BY <1>1, <1>2, <1>4, <1>5 DEF TypeOK
  <1>7. \A b \in Browsers : \/ stateCookie'[b] = stateCookie[b]
                            \/ b = from[h] /\ clears[h] /\ stateCookie'[b] = NoAttempt
    BY <1>1, <1>2 DEF TypeOK
  <1>8. \A g \in Handlers : clears'[g] => Matched(g)'
    BY <1>2 DEF TabsInv, Matched
  <1>9. \A g \in Handlers : of'[g] # NoAttempt /\ stateCookie'[from'[g]] = of'[g] => clears'[g]
    <2> TAKE g \in Handlers
    <2>1. CASE from[g] \in Browsers
      BY <1>2, <1>7, <2>1 DEF TabsInv
    <2>2. CASE of[g] = NoAttempt
      BY <1>2, <2>2
    <2>3. QED
      BY <2>1, <2>2 DEF CallbackInv
  <1>10. Undisturbed => Undisturbed'
    <2> SUFFICES ASSUME Undisturbed PROVE Undisturbed'
      OBVIOUS
    <2>1. ASSUME NEW g \in Handlers, phase'[g] = "over", step'[g] # "idle"
          PROVE  \/ step'[g] = "failed"
                 \/ step'[g] = "established" /\ sessionCookie'[from'[g]] # SignedOut
      <3>1. CASE g = h
        BY <1>1, <1>2, <1>6, <2>1, <3>1
      <3>2. CASE g # h
        BY <1>2, <1>3, <1>6, <2>1, <3>2 DEF Undisturbed, CallbackInv
      <3>3. QED
        BY <3>1, <3>2
    <2>2. \A c \in spent' : \E g \in Handlers : of'[g] = c /\ step'[g] # "idle"
      BY <1>2 DEF Undisturbed
    <2>3. \A g \in Handlers : clears'[g] /\ phase'[g] # "exchanging" =>
            attempt'[of'[g]] = "denied" \/ of'[g] \in spent'
      BY <1>1, <1>2, <1>3 DEF Undisturbed
    <2>4. ASSUME NEW c \in Attempts, attempt'[c] # "new"
          PROVE  \/ stateCookie'[BrowserOf[c]] # NoAttempt
                 \/ \E g \in Handlers : clears'[g] /\ phase'[g] = "over" /\ from'[g] = BrowserOf[c]
      BY <1>2, <1>3, <1>7, <2>4 DEF Undisturbed
    <2>5. QED
      BY <2>1, <2>2, <2>3, <2>4 DEF Undisturbed
  <1>11. QED
    BY <1>2, <1>8, <1>9, <1>10 DEF TabsInv

\* Once something was lost, only the states still remembered matter.
LEMMA TabsDisturbed ==
  ASSUME IInv, TabsInv, (\E b \in Browsers : Expire(b)) \/ \E h \in Handlers : Drop(h)
  PROVE  TabsInv'
  <1>1. /\ disturbed' /\ UNCHANGED <<of, from, clears>>
        /\ \A b \in Browsers : stateCookie'[b] \in {stateCookie[b], NoAttempt}
    BY DEF IInv, BrowserInv, TypeOK, Expire, Drop, browsers
  <1>2. \A h \in Handlers : of[h] # NoAttempt => from[h] \in Browsers
    BY DEF IInv, BrowserInv, CallbackInv
  <1>3. QED
    BY <1>1, <1>2 DEF TabsInv, Matched

LEMMA TabsStep == IInv /\ TabsInv /\ [Next]_vars => TabsInv'
  <1> SUFFICES ASSUME IInv, TabsInv, [Next]_vars PROVE TabsInv'
    OBVIOUS
  <1>1. CASE UNCHANGED vars
    BY <1>1 DEF vars, provisioning, browsers, attempts, TabsInv, Undisturbed, Matched
  <1>2. CASE Next
    BY <1>2, TabsStart, TabsReturn, TabsCallback, TabsExchange, TabsRefusal, TabsProvision,
       TabsDeliver, TabsDisturbed DEF Next
  <1>3. QED
    BY <1>1, <1>2

\* Tabs that overwrite each other's state do not shut the person out (the
\* callback clears a state only once it has matched).
THEOREM SomeTab == Spec => []SomeTabGetsIn
  <1>1. IInv /\ TabsInv => SomeTabGetsIn
    <2> SUFFICES ASSUME IInv, TabsInv, NEW b \in Browsers, ~disturbed,
                        NEW c \in Attempts, BrowserOf[c] = b, attempt[c] # "new",
                        \A a \in Attempts : BrowserOf[a] = b /\ attempt[a] # "new" =>
                          /\ attempt[a] = "code"
                          /\ \E h \in Handlers : of[h] = a /\ from[h] = b
                          /\ \A h \in Handlers : of[h] = a =>
                               phase[h] = "over" /\ step[h] # "failed"
                 PROVE  sessionCookie[b] # SignedOut
      BY DEF SomeTabGetsIn
    <2> USE BrowsersAssumption DEF IInv, BrowserInv
    <2>1. Undisturbed
      BY DEF TabsInv
    <2>2. PICK h \in Handlers : clears[h] /\ phase[h] = "over" /\ from[h] = b
      <3>1. CASE stateCookie[b] # NoAttempt
        <4>1. /\ stateCookie[b] \in Attempts /\ BrowserOf[stateCookie[b]] = b
              /\ attempt[stateCookie[b]] # "new"
          BY <3>1 DEF TypeOK, AttemptsInv
        <4>2. PICK h \in Handlers : of[h] = stateCookie[b] /\ from[h] = b
          BY <4>1
        <4>3. QED
          BY <3>1, <4>1, <4>2 DEF TabsInv
      <3>2. CASE stateCookie[b] = NoAttempt
        BY <2>1, <3>2 DEF Undisturbed
      <3>3. QED
        BY <3>1, <3>2
    <2>3. of[h] \in Attempts /\ BrowserOf[of[h]] = b /\ attempt[of[h]] = "code"
      BY <2>2 DEF TabsInv, Matched, CallbackInv
    <2>4. PICK g \in Handlers : of[g] = of[h] /\ step[g] # "idle"
      BY <2>1, <2>2, <2>3 DEF Undisturbed
    <2>5. from[g] = b /\ phase[g] = "over" /\ step[g] # "failed"
      BY <2>3, <2>4 DEF CallbackInv, Matched
    <2>6. QED
      BY <2>1, <2>4, <2>5 DEF Undisturbed
  <1>2. Spec => []TabsInv
    BY IInvInit, TabsInit, IInvStep, TabsStep, Invariant, PTL DEF Spec
  <1>3. QED
    BY Invariant, <1>1, <1>2, PTL
==============================================================================
