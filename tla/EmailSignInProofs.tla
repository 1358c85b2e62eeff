--------------------------- MODULE EmailSignInProofs ---------------------------
(***************************************************************************)
(* Theorems about the email-code sign-in: whom a browser's cookies may     *)
(* name, that nothing but time costs a browser its address, and how often  *)
(* one code is guessed at.                                                 *)
(***************************************************************************)
EXTENDS EmailSignIn, FiniteSetTheorems, TLAPS

-----------------------------------------------------------------------------
(* Types, one conjunct for each group of variables.                        *)

Phases == {"idle", "client", "address", "provider", "provisioning", "answered"}
Replies == {"none", "entry", "retry", "failed", "expired", "session", "limited"}
Request == [phase : Phases, step : EmailSteps, from : Browsers \union {None},
            address : Users \union {None}, typed : Codes \union {NoCode},
            reply : Replies]

ThrottleTypes ==
  /\ at \in 0..MaxTime
  /\ spent \in [Keys -> Nat] /\ \A k \in Keys : spent[k] <= Attempts[k]
  /\ resetsAt \in [Keys -> 0..(MaxTime + Window)]
ProviderTypes ==
  /\ issued \in [Users -> 0..MostCodes] /\ live \in [Users -> 0..MostCodes]
  /\ \A u \in Users : live[u] \in {0, issued[u]}
  /\ sentAt \in [Users -> 0..MaxTime] /\ \A u \in Users : sentAt[u] <= at
BrowserTypes ==
  /\ emailCookie \in [Browsers -> Users \union {None}]
  /\ session \in [Browsers -> Users \union {None}]
  /\ begun \in [Browsers -> SUBSET Users] /\ lapsed \subseteq Browsers
HistoryTypes == guesses \in [Users -> Nat] /\ early \in [Users -> Nat]
Types == /\ ThrottleTypes /\ ProviderTypes /\ BrowserTypes
         /\ HistoryTypes /\ request \in [Requests -> Request]

LEMMA IdleIsRequest ==
  /\ Idle \in Request /\ Idle.phase = "idle" /\ Idle.step = "email-start" /\ Idle.from = None
  /\ Idle.address = None /\ Idle.typed = NoCode /\ Idle.reply = "none"
  BY EmailAssumption DEF Idle, Request, Phases, Replies, EmailSteps

LEMMA KeyTypes ==
  \A k \in Keys : Attempts[k] \in Nat \ {0}
  <1> SUFFICES ASSUME NEW k \in Keys PROVE Attempts[k] \in Nat \ {0}
    OBVIOUS
  <1>1. k.step \in EmailSteps
    BY DEF Keys
  <1>2. QED
    BY <1>1, EmailAssumption DEF Attempts

\* There are finitely many keys, so the throttle never has to forget one.
LEMMA KeysAreFinite == IsFiniteSet(Keys)
  <1> DEFINE Whos == Browsers \union Users
             f == [p \in EmailSteps \X Whos |-> [step |-> p[1], who |-> p[2]]]
  <1>1. IsFiniteSet(Whos)
    BY EmailAssumption, FS_Union
  <1>2. IsFiniteSet(EmailSteps)
    <2>1. EmailSteps = {"email-start"} \union {"email-verify"}
      BY DEF EmailSteps
    <2>2. QED
      BY <2>1, FS_Singleton, FS_Union
  <1>3. IsFiniteSet(EmailSteps \X Whos)
    BY <1>1, <1>2, FS_Product
  <1>4. f \in Surjection(EmailSteps \X Whos, Keys)
    <2>1. f \in [EmailSteps \X Whos -> Keys]
      BY DEF Keys
    <2>2. ASSUME NEW k \in Keys PROVE \E p \in EmailSteps \X Whos : f[p] = k
      <3>1. k.step \in EmailSteps /\ k.who \in Whos /\ k = [step |-> k.step, who |-> k.who]
        BY DEF Keys
      <3>2. <<k.step, k.who>> \in EmailSteps \X Whos /\ f[<<k.step, k.who>>] = k
        BY <3>1
      <3>3. QED
        BY <3>2
    <2>3. QED
      BY <2>1, <2>2 DEF Surjection
  <1>5. QED
    BY <1>3, <1>4, FS_Surjection

LEMMA SameCardinality == \A S : L!Cardinality(S) = Cardinality(S)
  BY DEF L!Cardinality, Cardinality, L!IsFiniteSet, IsFiniteSet

LEMMA RoomForAll ==
  ASSUME NEW k \in Keys, k \notin L!InUse
  PROVE  Cardinality(L!InUse) < Cardinality(Keys)
  <1>1. L!InUse \in SUBSET Keys /\ L!InUse # Keys
    BY DEF L!InUse
  <1>2. /\ Cardinality(L!InUse) <= Cardinality(Keys)
        /\ Cardinality(L!InUse) # Cardinality(Keys)
        /\ IsFiniteSet(L!InUse)
    BY <1>1, KeysAreFinite, FS_Subset
  <1>3. Cardinality(L!InUse) \in Nat /\ Cardinality(Keys) \in Nat
    BY <1>2, KeysAreFinite, FS_CardinalityType
  <1>4. QED
    BY <1>2, <1>3

-----------------------------------------------------------------------------
(* What each step does to the requests and to the throttle.                *)

\* An ask draws on one budget: opens its window, or counts while it may.
LEMMA DrawEffect ==
  ASSUME Types, NEW k \in Keys, L!Draw(k)
  PROVE  /\ spent' \in [Keys -> Nat] /\ \A j \in Keys : spent'[j] <= Attempts[j]
         /\ resetsAt' \in [Keys -> 0..(MaxTime + Window)]
         /\ \A j \in Keys : j # k => spent'[j] = spent[j] /\ resetsAt'[j] = resetsAt[j]
         /\ spent[k] = 0 => spent'[k] = 1 /\ resetsAt'[k] = at + Window
         /\ spent[k] > 0 => /\ resetsAt'[k] = resetsAt[k]
                            /\ spent[k] < Attempts[k] => spent'[k] = spent[k] + 1
                            /\ spent[k] >= Attempts[k] => spent'[k] = spent[k]
         /\ L!Allows(k) <=> spent[k] < Attempts[k]
  <1> USE DEF Types, ThrottleTypes
  <1>1. at + Window \in 0..(MaxTime + Window) /\ Attempts[k] \in Nat \ {0}
    BY EmailAssumption, KeyTypes
  <1>2. L!Allows(k) <=> spent[k] < Attempts[k]
    BY DEF L!Allows
  <1>3. CASE spent[k] > 0
    <2>1. k \in L!InUse
      BY <1>3 DEF L!InUse
    <2>2. /\ spent' = IF spent[k] < Attempts[k] THEN [spent EXCEPT ![k] = @ + 1] ELSE spent
          /\ UNCHANGED resetsAt
      BY <2>1, <1>2 DEF L!Draw
    <2>3. QED
      BY <1>1, <1>2, <1>3, <2>2, KeyTypes
  <1>4. CASE spent[k] = 0
    <2>1. k \notin L!InUse
      BY <1>4 DEF L!InUse
    <2>2. Cardinality(L!InUse) < Cardinality(Keys)
      BY <2>1, RoomForAll
    <2>3. /\ spent' = [j \in Keys |-> IF j = k THEN 1 ELSE spent[j]]
          /\ resetsAt' = [j \in Keys |-> IF j = k THEN at + Window ELSE resetsAt[j]]
      <3>1. PICK lost \in {{}} :
              /\ spent' = [j \in Keys |-> IF j = k THEN 1 ELSE IF j \in lost THEN 0 ELSE spent[j]]
              /\ resetsAt' = [j \in Keys |-> IF j = k THEN at + Window
                                             ELSE IF j \in lost THEN 0 ELSE resetsAt[j]]
        BY <2>1, <2>2, SameCardinality, Zenon DEF L!Draw
      <3>2. lost = {}
        OBVIOUS
      <3>3. QED
        BY <3>1, <3>2
    <2>4. QED
      BY <1>1, <1>2, <1>4, <2>3, KeyTypes
  <1>5. QED
    BY <1>3, <1>4

LEMMA AnswerEffect ==
  ASSUME Types, NEW r \in Requests, NEW how \in Replies, Answer(r, how)
  PROVE  /\ request' \in [Requests -> Request]
         /\ \A q \in Requests : q # r => request'[q] = request[q]
         /\ request'[r].phase = "answered" /\ request'[r].reply = how
         /\ request'[r].step = request[r].step /\ request'[r].from = request[r].from
         /\ request'[r].address = request[r].address
  BY ZenonT(60) DEF Types, Answer, Request, Phases

LEMMA StartEffect ==
  ASSUME Types, NEW r \in Requests, NEW b \in Browsers, NEW u \in Users, Start(r, b, u)
  PROVE  /\ request[r].phase = "idle"
         /\ request' \in [Requests -> Request]
         /\ \A q \in Requests : q # r => request'[q] = request[q]
         /\ request'[r].phase = "client" /\ request'[r].reply = "none"
         /\ request'[r].step = "email-start" /\ request'[r].from = b
         /\ request'[r].address = u
  BY IdleIsRequest DEF Types, Start, Request, Phases

LEMMA VerifyEffect ==
  ASSUME Types, NEW r \in Requests, NEW b \in Browsers, NEW c \in Sent \union {NoCode},
         Verify(r, b, c)
  PROVE  /\ request[r].phase = "idle"
         /\ request' \in [Requests -> Request]
         /\ \A q \in Requests : q # r => request'[q] = request[q]
         /\ request'[r].step = "email-verify" /\ request'[r].from = b
         /\ request'[r].address = emailCookie[b]
         /\ \/ /\ emailCookie[b] = None
               /\ request'[r].phase = "answered" /\ request'[r].reply = "expired"
            \/ /\ emailCookie[b] # None
               /\ request'[r].phase = "client" /\ request'[r].reply = "none"
  <1>1. c \in Codes \union {NoCode} /\ emailCookie[b] \in Users \union {None}
    BY DEF Sent, Types, BrowserTypes
  <1>2. QED
    BY <1>1, IdleIsRequest
    DEF Types, Verify, AddressOf, Request, Phases, Replies, EmailSteps

LEMMA AskEffect ==
  ASSUME Types, NEW r \in Requests, request[r].address \in Users,
         request[r].from \in Browsers, AskThrottle(r)
  PROVE  /\ Key(r) \in Keys /\ L!Draw(Key(r)) /\ UNCHANGED at
         /\ request[r].phase \in {"client", "address"}
         /\ request' \in [Requests -> Request]
         /\ \A q \in Requests : q # r => request'[q] = request[q]
         /\ request'[r].step = request[r].step /\ request'[r].from = request[r].from
         /\ request'[r].address = request[r].address
         /\ spent[Key(r)] < Attempts[Key(r)] =>
              /\ request'[r].phase = IF request[r].phase = "client" THEN "address" ELSE "provider"
              /\ request'[r].reply = request[r].reply
         /\ spent[Key(r)] >= Attempts[Key(r)] =>
              request'[r].phase = "answered" /\ request'[r].reply = "limited"
  <1>1. Key(r) \in Keys
    BY DEF Key, Keys, Types, Request
  <1>2. L!Draw(Key(r)) /\ UNCHANGED at /\ request[r].phase \in {"client", "address"}
    BY DEF AskThrottle
  <1>3. L!Allows(Key(r)) <=> spent[Key(r)] < Attempts[Key(r)]
    BY DEF L!Allows
  <1>4. spent[Key(r)] \in Nat /\ Attempts[Key(r)] \in Nat
    BY <1>1, KeyTypes DEF Types, ThrottleTypes
  <1>5. request' = [request EXCEPT ![r] =
          IF L!Allows(Key(r)) THEN [request[r] EXCEPT !.phase = NextAfter(r)]
          ELSE [request[r] EXCEPT !.phase = "answered", !.reply = "limited"]]
    BY DEF AskThrottle
  <1>6. request \in [Requests -> Request] /\ request[r] \in Request
    BY DEF Types
  <1>7. CASE spent[Key(r)] < Attempts[Key(r)]
    <2> DEFINE next == IF request[r].phase = "client" THEN "address" ELSE "provider"
    <2>1. request' = [request EXCEPT ![r] = [request[r] EXCEPT !.phase = next]]
      BY <1>3, <1>5, <1>7 DEF NextAfter
    <2>2. next \in Phases
      BY DEF Phases
    <2> HIDE DEF next
    <2>3. /\ request' \in [Requests -> Request]
          /\ request'[r] = [request[r] EXCEPT !.phase = next]
          /\ \A q \in Requests : q # r => request'[q] = request[q]
      BY <1>6, <2>1, <2>2 DEF Request
    <2>4. /\ request'[r].phase = next /\ request'[r].reply = request[r].reply
          /\ request'[r].step = request[r].step /\ request'[r].from = request[r].from
          /\ request'[r].address = request[r].address
      BY <1>6, <2>3 DEF Request
    <2>5. QED
      BY <1>1, <1>2, <1>4, <1>7, <2>3, <2>4 DEF next
  <1>8. CASE spent[Key(r)] >= Attempts[Key(r)]
    <2>1. request' = [request EXCEPT ![r] =
            [request[r] EXCEPT !.phase = "answered", !.reply = "limited"]]
      <3>1. ~L!Allows(Key(r))
        BY <1>3, <1>4, <1>8
      <3>2. QED
        BY <1>5, <3>1, Zenon
    <2>2. /\ request' \in [Requests -> Request]
          /\ request'[r] = [request[r] EXCEPT !.phase = "answered", !.reply = "limited"]
          /\ \A q \in Requests : q # r => request'[q] = request[q]
      BY <1>6, <2>1, ZenonT(60) DEF Request, Phases, Replies
    <2>3. /\ request'[r].phase = "answered" /\ request'[r].reply = "limited"
          /\ request'[r].step = request[r].step /\ request'[r].from = request[r].from
          /\ request'[r].address = request[r].address
      BY <1>6, <2>2 DEF Request
    <2>4. QED
      BY <1>1, <1>2, <1>4, <1>8, <2>2, <2>3
  <1>9. QED
    BY <1>4, <1>7, <1>8

\* The requests on their way can be counted.
LEMMA AllowedIsFinite ==
  ASSUME NEW u \in Users
  PROVE  IsFiniteSet(Allowed(u)) /\ Cardinality(Allowed(u)) \in Nat
  <1>1. Allowed(u) \in SUBSET Requests
    BY DEF Allowed
  <1>2. QED
    BY <1>1, EmailAssumption, FS_Subset, FS_CardinalityType

LEMMA SendEffect ==
  ASSUME Types, NEW u \in Users, Send(u)
  PROVE  /\ issued' \in [Users -> 0..MostCodes] /\ live' \in [Users -> 0..MostCodes]
         /\ sentAt' \in [Users -> 0..MaxTime] /\ HistoryTypes'
         /\ issued'[u] = issued[u] + 1 /\ live'[u] = issued'[u]
         /\ sentAt'[u] = at /\ guesses'[u] = 0 /\ early'[u] = Cardinality(Allowed(u))
         /\ \A v \in Users : v # u => /\ issued'[v] = issued[v] /\ live'[v] = live[v]
                                      /\ sentAt'[v] = sentAt[v] /\ guesses'[v] = guesses[v]
                                      /\ early'[v] = early[v]
  <1>1. Cardinality(Allowed(u)) \in Nat
    BY AllowedIsFinite
  <1>2. QED
    BY <1>1, EmailAssumption DEF Types, ProviderTypes, ThrottleTypes, HistoryTypes, Send

LEMMA CookieValue ==
  ASSUME NEW r \in Requests
  PROVE  /\ request[r].reply = "entry" => Cookie(r) = request[r].address
         /\ request[r].reply = "session" => Cookie(r) = None
         /\ request[r].reply \notin {"entry", "session"} =>
              Cookie(r) = emailCookie[request[r].from]
  <1>1. request[r].reply = "entry" => request[r].reply # "session"
    OBVIOUS
  <1>2. QED
    BY <1>1, Zenon DEF Cookie

-----------------------------------------------------------------------------
(* Where an address comes from: what a request that is under way knows.    *)

CallInv(r) ==
  /\ request[r].phase # "idle" => request[r].from \in Browsers
  /\ request[r].phase \in {"client", "address", "provider", "provisioning"} =>
       request[r].address \in Users /\ request[r].reply = "none"
  /\ request[r].phase = "provisioning" => request[r].step = "email-verify"
  /\ request[r].phase # "answered" => request[r].reply = "none"
  /\ request[r].reply = "entry" =>
       request[r].address \in Users /\ issued[request[r].address] > 0
  /\ request[r].reply = "session" =>
       request[r].address \in Users /\ request[r].step = "email-verify"
  /\ request[r].step = "email-verify" /\ request[r].phase # "idle" =>
       request[r].address \in begun[request[r].from] \union {None}

\* A browser's address is one whose entry page it was sent to.
CookieBegun == \A b \in Browsers : emailCookie[b] \in begun[b] \union {None}

IInv ==
  /\ Types /\ \A r \in Requests : CallInv(r)
  /\ CookieBegun /\ CookieNamesAddressee /\ SessionBegunHere /\ AddressKeptUntilSignedIn

LEMMA IInvInit == Init => IInv
  <1> SUFFICES ASSUME Init PROVE IInv
    OBVIOUS
  <1>1. 0 \in 0..MaxTime /\ 0 \in 0..MostCodes /\ 0 \in 0..(MaxTime + Window)
    BY EmailAssumption
  <1>2. ThrottleTypes
    BY <1>1, KeyTypes DEF Init, ThrottleTypes
  <1>3. ProviderTypes
    BY <1>1 DEF Init, ProviderTypes
  <1>4. BrowserTypes
    BY DEF Init, BrowserTypes
  <1>5. HistoryTypes /\ request \in [Requests -> Request]
    BY IdleIsRequest DEF Init, HistoryTypes
  <1>6. \A r \in Requests : CallInv(r)
    BY IdleIsRequest, EmailAssumption DEF Init, CallInv
  <1>7. QED
    BY <1>2, <1>3, <1>4, <1>5, <1>6
    DEF Init, IInv, Types, CookieBegun, CookieNamesAddressee, SessionBegunHere,
        AddressKeptUntilSignedIn

\* A request at rest is not disturbed: codes are only added, and so are the entry
\* pages a browser was sent to.
LEMMA CallRests ==
  ASSUME Types, NEW q \in Requests, CallInv(q), request'[q] = request[q],
         \A u \in Users : issued[u] <= issued'[u] /\ issued'[u] \in Nat,
         \A b \in Browsers : begun[b] \subseteq begun'[b]
  PROVE  CallInv(q)'
  <1>1. \A u \in Users : issued[u] \in Nat
    BY EmailAssumption DEF Types, ProviderTypes
  <1>2. QED
    BY <1>1 DEF CallInv

\* The browser's part, where no answer is delivered.
LEMMA BrowserRests ==
  ASSUME IInv, UNCHANGED <<emailCookie, session, begun, lapsed>>,
         \A u \in Users : issued[u] <= issued'[u] /\ issued'[u] \in Nat
  PROVE  /\ BrowserTypes' /\ CookieBegun' /\ CookieNamesAddressee'
         /\ SessionBegunHere' /\ AddressKeptUntilSignedIn'
  <1>1. \A u \in Users : issued[u] \in Nat
    BY EmailAssumption DEF IInv, Types, ProviderTypes
  <1>2. \A b \in Browsers : emailCookie[b] \in Users \union {None}
    BY DEF IInv, Types, BrowserTypes
  <1>3. QED
    BY <1>1, <1>2 DEF IInv, Types, BrowserTypes, CookieBegun, CookieNamesAddressee,
       SessionBegunHere, AddressKeptUntilSignedIn

\* A step of one request that delivers nothing: what is known of it afterwards
\* is all there is to show.
LEMMA OneRequest ==
  ASSUME IInv, NEW r \in Requests,
         request' \in [Requests -> Request],
         \A q \in Requests : q # r => request'[q] = request[q],
         ThrottleTypes', ProviderTypes', HistoryTypes',
         UNCHANGED <<emailCookie, session, begun, lapsed>>,
         \A u \in Users : issued[u] <= issued'[u] /\ issued'[u] \in Nat,
         CallInv(r)'
  PROVE  IInv'
  <1>1. /\ BrowserTypes' /\ CookieBegun' /\ CookieNamesAddressee'
        /\ SessionBegunHere' /\ AddressKeptUntilSignedIn'
    BY BrowserRests
  <1>2. Types'
    BY <1>1 DEF Types
  <1>3. \A q \in Requests : CallInv(q)'
    <2> TAKE q \in Requests
    <2>1. CASE q = r
      BY <2>1
    <2>2. CASE q # r
      BY <2>2, CallRests DEF IInv
    <2>3. QED
      BY <2>1, <2>2
  <1>4. QED
    BY <1>1, <1>2, <1>3 DEF IInv

\* Where the provider rests too.
LEMMA ProviderRests ==
  ASSUME Types, UNCHANGED <<issued, live, sentAt, at>>
  PROVE  ProviderTypes' /\ \A u \in Users : issued[u] <= issued'[u] /\ issued'[u] \in Nat
  BY EmailAssumption DEF Types, ProviderTypes

LEMMA HistoryRests == ASSUME Types, UNCHANGED history PROVE HistoryTypes'
  BY DEF Types, HistoryTypes, history

LEMMA ThrottleRests ==
  ASSUME Types, UNCHANGED throttle
  PROVE  ThrottleTypes' /\ UNCHANGED at
  BY DEF Types, ThrottleTypes, throttle

LEMMA ArrivalKeeps ==
  ASSUME IInv, NEW r \in Requests, NEW b \in Browsers,
         (\E u \in Users : Start(r, b, u)) \/ \E c \in Sent \union {NoCode} : Verify(r, b, c)
  PROVE  IInv'
  <1>1. UNCHANGED <<throttle, issued, live, sentAt, emailCookie, session, begun, lapsed, history>>
    BY DEF Start, Verify, provider, browser, entries
  <1>2. /\ ThrottleTypes' /\ ProviderTypes'
        /\ \A u \in Users : issued[u] <= issued'[u] /\ issued'[u] \in Nat
        /\ HistoryTypes'
    BY <1>1, ThrottleRests, ProviderRests, HistoryRests DEF IInv, Types
  <1>3. ASSUME NEW u \in Users, Start(r, b, u) PROVE IInv'
    <2>1. /\ request' \in [Requests -> Request]
          /\ \A q \in Requests : q # r => request'[q] = request[q]
          /\ request'[r].phase = "client" /\ request'[r].reply = "none"
          /\ request'[r].step = "email-start" /\ request'[r].from = b
          /\ request'[r].address = u
      BY <1>3, StartEffect DEF IInv
    <2>2. CallInv(r)'
      BY <1>2, <2>1 DEF CallInv
    <2>3. QED
      BY <1>1, <1>2, <2>1, <2>2, OneRequest
  <1>4. ASSUME NEW c \in Sent \union {NoCode}, Verify(r, b, c) PROVE IInv'
    <2>1. /\ request' \in [Requests -> Request]
          /\ \A q \in Requests : q # r => request'[q] = request[q]
          /\ request'[r].step = "email-verify" /\ request'[r].from = b
          /\ request'[r].address = emailCookie[b]
          /\ \/ /\ emailCookie[b] = None
                /\ request'[r].phase = "answered" /\ request'[r].reply = "expired"
             \/ /\ emailCookie[b] # None
                /\ request'[r].phase = "client" /\ request'[r].reply = "none"
      BY <1>4, VerifyEffect DEF IInv
    <2>2. emailCookie[b] \in begun[b] \union {None} /\ emailCookie[b] \in Users \union {None}
      BY DEF IInv, CookieBegun, Types, BrowserTypes
    <2>3. CallInv(r)'
      BY <1>1, <1>2, <2>1, <2>2 DEF CallInv
    <2>4. QED
      BY <1>1, <1>2, <2>1, <2>3, OneRequest
  <1>5. QED
    BY <1>3, <1>4

LEMMA AskKeeps == ASSUME IInv, NEW r \in Requests, AskThrottle(r) PROVE IInv'
  <1>1. UNCHANGED <<at, issued, live, sentAt, emailCookie, session, begun, lapsed, history>>
    BY DEF AskThrottle, provider, browser, entries
  <1>2. /\ request[r].phase \in {"client", "address"} /\ request[r].reply = "none"
        /\ request[r].address \in Users /\ request[r].from \in Browsers
    BY DEF IInv, CallInv, AskThrottle
  <1>3. /\ Key(r) \in Keys /\ L!Draw(Key(r))
        /\ request' \in [Requests -> Request]
        /\ \A q \in Requests : q # r => request'[q] = request[q]
        /\ request'[r].step = request[r].step /\ request'[r].from = request[r].from
        /\ request'[r].address = request[r].address
        /\ \/ request'[r].phase \in {"address", "provider"} /\ request'[r].reply = "none"
           \/ request'[r].phase = "answered" /\ request'[r].reply = "limited"
    BY <1>2, AskEffect, KeyTypes DEF IInv, Types, ThrottleTypes
  <1>4. ThrottleTypes'
    BY <1>1, <1>3, DrawEffect DEF IInv, Types, ThrottleTypes
  <1>5. /\ ProviderTypes' /\ HistoryTypes'
        /\ \A u \in Users : issued[u] <= issued'[u] /\ issued'[u] \in Nat
    BY <1>1, ProviderRests, HistoryRests DEF IInv, Types
  <1>6. CallInv(r)'
    BY <1>1, <1>2, <1>3 DEF IInv, CallInv
  <1>7. QED
    BY <1>1, <1>3, <1>4, <1>5, <1>6, OneRequest

LEMMA SendKeeps == ASSUME IInv, NEW r \in Requests, SendMagicAuthCode(r) PROVE IInv'
  <1>1. UNCHANGED <<throttle, emailCookie, session, begun, lapsed>>
    BY DEF SendMagicAuthCode, browser, entries
  <1>2. /\ request[r].phase = "provider" /\ request[r].step = "email-start"
        /\ request[r].address \in Users /\ request[r].from \in Browsers
    BY DEF IInv, CallInv, SendMagicAuthCode, AtProvider
  <1> DEFINE u == request[r].address
  <1>3. /\ issued' \in [Users -> 0..MostCodes] /\ live' \in [Users -> 0..MostCodes]
        /\ sentAt' \in [Users -> 0..MaxTime] /\ HistoryTypes'
        /\ issued'[u] = issued[u] + 1 /\ live'[u] = issued'[u] /\ sentAt'[u] = at
        /\ \A v \in Users : v # u => /\ issued'[v] = issued[v] /\ live'[v] = live[v]
                                     /\ sentAt'[v] = sentAt[v]
    BY <1>2, SendEffect DEF IInv, SendMagicAuthCode
  <1>4. ThrottleTypes' /\ UNCHANGED at
    BY <1>1, ThrottleRests DEF IInv
  <1>5. \A v \in Users : issued[v] \in Nat /\ issued'[v] \in Nat /\ issued[v] <= issued'[v]
    BY <1>2, <1>3, EmailAssumption DEF IInv, Types, ProviderTypes
  <1>6. ProviderTypes'
    BY <1>2, <1>3, <1>4, EmailAssumption DEF IInv, Types, ProviderTypes, ThrottleTypes
  <1>7. PICK how \in {"entry", "failed"} : Answer(r, how)
    BY DEF SendMagicAuthCode
  <1>8. /\ request' \in [Requests -> Request]
        /\ \A q \in Requests : q # r => request'[q] = request[q]
        /\ request'[r].phase = "answered" /\ request'[r].reply = how
        /\ request'[r].step = request[r].step /\ request'[r].from = request[r].from
        /\ request'[r].address = request[r].address
    BY <1>7, AnswerEffect DEF IInv, Replies
  <1>9. CallInv(r)'
    BY <1>2, <1>3, <1>5, <1>8 DEF IInv, CallInv
  <1>10. QED
    BY <1>1, <1>3, <1>4, <1>5, <1>6, <1>8, <1>9, OneRequest

\* The provider answers a guess: it matches and the code is used up, or not.
LEMMA GuessEffect ==
  ASSUME IInv, NEW r \in Requests, VerifyMagicAuthCode(r)
  PROVE  /\ request[r].phase = "provider" /\ request[r].step = "email-verify"
         /\ request[r].address \in Users /\ request[r].from \in Browsers
         /\ request' \in [Requests -> Request]
         /\ \A q \in Requests : q # r => request'[q] = request[q]
         /\ request'[r].step = request[r].step /\ request'[r].from = request[r].from
         /\ request'[r].address = request[r].address
         /\ \/ request'[r].phase = "provisioning" /\ request'[r].reply = "none"
            \/ request'[r].phase = "answered" /\ request'[r].reply \in {"retry", "failed"}
  <1>1. /\ request[r].phase = "provider" /\ request[r].step = "email-verify"
        /\ request[r].address \in Users /\ request[r].from \in Browsers
        /\ request[r].reply = "none"
    BY DEF IInv, CallInv, VerifyMagicAuthCode, AtProvider
  <1>2. CASE Answer(r, "failed")
    BY <1>1, <1>2, AnswerEffect DEF IInv, Replies
  <1>3. CASE Matches(r) /\ ~Answer(r, "failed")
    <2>1. request' = [request EXCEPT ![r].phase = "provisioning", ![r].reply = "none"]
      BY <1>3 DEF VerifyMagicAuthCode
    <2>2. QED
      BY <1>1, <2>1, ZenonT(60) DEF IInv, Types, Request, Phases, Replies
  <1>4. CASE ~Matches(r) /\ ~Answer(r, "failed")
    <2>1. request' = [request EXCEPT ![r].phase = "answered", ![r].reply = "retry"]
      BY <1>4 DEF VerifyMagicAuthCode
    <2>2. QED
      BY <1>1, <2>1 DEF IInv, Types, Request, Phases, Replies
  <1>5. QED
    BY <1>2, <1>3, <1>4

LEMMA GuessKeeps == ASSUME IInv, NEW r \in Requests, VerifyMagicAuthCode(r) PROVE IInv'
  <1>1. UNCHANGED <<throttle, issued, sentAt, emailCookie, session, begun, lapsed>>
    BY DEF VerifyMagicAuthCode, browser, entries
  <1>2. ThrottleTypes' /\ UNCHANGED at
    BY <1>1, ThrottleRests DEF IInv
  <1>3. request[r].address \in Users
    BY GuessEffect
  <1>4. HistoryTypes'
    <2>1. /\ \/ guesses' = guesses
             \/ guesses' = [guesses EXCEPT ![request[r].address] = @ + 1]
          /\ early' = early
      BY DEF VerifyMagicAuthCode
    <2>2. QED
      BY <1>3, <2>1 DEF IInv, Types, HistoryTypes
  <1>5. ProviderTypes'
    <2>1. live' = live \/ live' = [live EXCEPT ![request[r].address] = 0]
      BY DEF VerifyMagicAuthCode
    <2>2. QED
      BY <1>1, <1>2, <1>3, <2>1, EmailAssumption DEF IInv, Types, ProviderTypes
  <1>6. \A u \in Users : issued[u] <= issued'[u] /\ issued'[u] \in Nat
    BY <1>1, EmailAssumption DEF IInv, Types, ProviderTypes
  <1>7. CallInv(r)'
    BY <1>1, GuessEffect DEF IInv, CallInv
  <1>8. QED
    BY <1>1, <1>2, <1>4, <1>5, <1>6, <1>7, GuessEffect, OneRequest

LEMMA AnswerKeeps ==
  ASSUME IInv, NEW r \in Requests, Refused(r) \/ Provision(r) \/ Drop(r)
  PROVE  IInv'
  <1>1. UNCHANGED <<throttle, issued, live, sentAt, emailCookie, session, begun, lapsed, history>>
    BY DEF Refused, Provision, Drop, provider, browser, entries
  <1>2. /\ ThrottleTypes' /\ ProviderTypes' /\ HistoryTypes'
        /\ \A u \in Users : issued[u] <= issued'[u] /\ issued'[u] \in Nat
    BY <1>1, ThrottleRests, ProviderRests, HistoryRests DEF IInv, Types
  <1>3. ASSUME NEW how \in {"failed", "session"}, Answer(r, how),
               request[r].phase \in {"provider", "provisioning"},
               how = "session" => request[r].phase = "provisioning"
        PROVE  IInv'
    <2>1. /\ request' \in [Requests -> Request]
          /\ \A q \in Requests : q # r => request'[q] = request[q]
          /\ request'[r].phase = "answered" /\ request'[r].reply = how
          /\ request'[r].step = request[r].step /\ request'[r].from = request[r].from
          /\ request'[r].address = request[r].address
      BY <1>3, AnswerEffect DEF IInv, Replies
    <2>2. CallInv(r)'
      BY <1>1, <1>3, <2>1 DEF IInv, CallInv
    <2>3. QED
      BY <1>1, <1>2, <2>1, <2>2, OneRequest
  <1>4. CASE Drop(r)
    <2>1. /\ request' \in [Requests -> Request] /\ request'[r] = Idle
          /\ \A q \in Requests : q # r => request'[q] = request[q]
      BY <1>4, IdleIsRequest DEF Drop, IInv, Types
    <2>2. CallInv(r)'
      BY <2>1, IdleIsRequest, EmailAssumption DEF CallInv
    <2>3. QED
      BY <1>1, <1>2, <2>1, <2>2, OneRequest
  <1>5. QED
    BY <1>3, <1>4 DEF Refused, Provision

LEMMA DeliverKeeps == ASSUME IInv, NEW r \in Requests, Deliver(r) PROVE IInv'
  <1> USE DEF IInv
  <1> DEFINE b == request[r].from
             u == request[r].address
  <1>1. /\ UNCHANGED <<throttle, issued, live, sentAt, history>>
        /\ request[r].phase = "answered" /\ b \in Browsers
        /\ emailCookie' = [emailCookie EXCEPT ![b] = Cookie(r)]
        /\ session' = IF request[r].reply # "session" THEN session
                      ELSE [session EXCEPT ![b] = u]
        /\ begun' = IF request[r].reply # "entry" THEN begun
                    ELSE [begun EXCEPT ![b] = @ \union {u}]
        /\ lapsed' = IF request[r].reply = "entry" THEN lapsed \ {b} ELSE lapsed
        /\ request' = [request EXCEPT ![r] = Idle]
    BY DEF Deliver, provider, CallInv
  <1>2. /\ ThrottleTypes' /\ ProviderTypes' /\ HistoryTypes'
        /\ \A v \in Users : issued[v] <= issued'[v] /\ issued'[v] \in Nat
    BY <1>1, ThrottleRests, ProviderRests, HistoryRests DEF Types
  <1>3. /\ request[r].reply = "entry" => /\ Cookie(r) = u /\ u \in Users /\ issued[u] > 0
        /\ request[r].reply = "session" => /\ Cookie(r) = None /\ u \in Users
                                           /\ u \in begun[b]
        /\ request[r].reply \notin {"entry", "session"} => Cookie(r) = emailCookie[b]
        /\ u # None \/ request[r].reply \notin {"entry", "session"}
    BY <1>1, CookieValue, EmailAssumption DEF CallInv
  <1>4. /\ emailCookie \in [Browsers -> Users \union {None}]
        /\ session \in [Browsers -> Users \union {None}]
        /\ begun \in [Browsers -> SUBSET Users] /\ lapsed \subseteq Browsers
    BY DEF Types, BrowserTypes
  <1>5. /\ BrowserTypes' /\ CookieBegun' /\ CookieNamesAddressee'
        /\ SessionBegunHere' /\ AddressKeptUntilSignedIn'
        /\ \A c \in Browsers : begun[c] \subseteq begun'[c]
    <2>1. CASE request[r].reply = "entry"
      <3>1. /\ emailCookie'[b] = u /\ begun'[b] = begun[b] \union {u} /\ lapsed' = lapsed \ {b}
            /\ session' = session
            /\ \A c \in Browsers : c # b => emailCookie'[c] = emailCookie[c] /\ begun'[c] = begun[c]
            /\ BrowserTypes'
        BY <1>1, <1>3, <1>4, <2>1 DEF BrowserTypes
      <3>2. QED
        BY <1>1, <1>3, <1>4, <2>1, <3>1
        DEF CookieBegun, CookieNamesAddressee, SessionBegunHere, AddressKeptUntilSignedIn
    <2>2. CASE request[r].reply = "session"
      <3>1. /\ emailCookie'[b] = None /\ session'[b] = u /\ UNCHANGED <<begun, lapsed>>
            /\ \A c \in Browsers : c # b => /\ emailCookie'[c] = emailCookie[c]
                                            /\ session'[c] = session[c]
            /\ BrowserTypes'
        BY <1>1, <1>3, <1>4, <2>2 DEF BrowserTypes
      <3>2. QED
        BY <1>1, <1>3, <1>4, <2>2, <3>1
        DEF CookieBegun, CookieNamesAddressee, SessionBegunHere, AddressKeptUntilSignedIn
    <2>3. CASE request[r].reply \notin {"entry", "session"}
      <3>1. UNCHANGED <<emailCookie, session, begun, lapsed>>
        BY <1>1, <1>3, <1>4, <2>3
      <3>2. QED
        BY <1>2, <3>1, BrowserRests
    <2>4. QED
      BY <2>1, <2>2, <2>3
  <1>6. /\ request' \in [Requests -> Request] /\ request'[r] = Idle
        /\ \A q \in Requests : q # r => request'[q] = request[q]
    BY <1>1, IdleIsRequest DEF Types
  <1>7. \A q \in Requests : CallInv(q)'
    <2> TAKE q \in Requests
    <2>1. CASE q = r
      BY <1>6, <2>1, IdleIsRequest, EmailAssumption DEF CallInv
    <2>2. CASE q # r
      BY <1>2, <1>5, <1>6, <2>2, CallRests
    <2>3. QED
      BY <2>1, <2>2
  <1>8. QED
    BY <1>2, <1>5, <1>6, <1>7 DEF Types

LEMMA ExpireKeeps == ASSUME IInv, NEW b \in Browsers, Expire(b) PROVE IInv'
  <1> USE DEF IInv
  <1>1. /\ UNCHANGED <<throttle, issued, live, sentAt, history, request, session, begun>>
        /\ emailCookie' = [emailCookie EXCEPT ![b] = None] /\ lapsed' = lapsed \union {b}
    BY DEF Expire, provider
  <1>2. /\ ThrottleTypes' /\ ProviderTypes' /\ HistoryTypes'
        /\ \A u \in Users : issued[u] <= issued'[u] /\ issued'[u] \in Nat
    BY <1>1, ThrottleRests, ProviderRests, HistoryRests DEF Types
  <1>3. /\ BrowserTypes' /\ CookieBegun' /\ CookieNamesAddressee'
        /\ SessionBegunHere' /\ AddressKeptUntilSignedIn'
    BY <1>1 DEF Types, BrowserTypes, CookieBegun, CookieNamesAddressee, SessionBegunHere,
       AddressKeptUntilSignedIn
  <1>4. \A q \in Requests : CallInv(q)'
    BY <1>1, <1>2, CallRests
  <1>5. QED
    BY <1>1, <1>2, <1>3, <1>4 DEF Types

LEMMA TickKeeps == ASSUME IInv, Tick PROVE IInv'
  <1> USE DEF IInv
  <1>1. /\ UNCHANGED <<issued, live, sentAt, emailCookie, session, begun, lapsed, history, request>>
        /\ at < MaxTime /\ at' = at + 1
        /\ spent' = [k \in Keys |-> IF resetsAt[k] > at + 1 THEN spent[k] ELSE 0]
        /\ resetsAt' = [k \in Keys |-> IF resetsAt[k] > at + 1 THEN resetsAt[k] ELSE 0]
    BY DEF Tick, L!Tick, provider, browser, entries
  <1>2. ThrottleTypes'
    BY <1>1, EmailAssumption, KeyTypes DEF Types, ThrottleTypes
  <1>3. ProviderTypes' /\ \A u \in Users : issued[u] <= issued'[u] /\ issued'[u] \in Nat
    BY <1>1, EmailAssumption DEF Types, ThrottleTypes, ProviderTypes
  <1>4. /\ BrowserTypes' /\ CookieBegun' /\ CookieNamesAddressee'
        /\ SessionBegunHere' /\ AddressKeptUntilSignedIn'
    BY <1>1, <1>3, BrowserRests
  <1>5. \A q \in Requests : CallInv(q)'
    BY <1>1, <1>3, CallRests
  <1>6. QED
    BY <1>1, <1>2, <1>3, <1>4, <1>5 DEF Types, HistoryTypes, history

LEMMA IInvStep == IInv /\ [Next]_vars => IInv'
  <1> SUFFICES ASSUME IInv, [Next]_vars PROVE IInv'
    OBVIOUS
  <1>1. CASE UNCHANGED vars
    <2>1. UNCHANGED <<throttle, issued, live, sentAt, emailCookie, session, begun, lapsed, history,
                      request>>
      BY <1>1 DEF vars, provider, browser, entries
    <2>2. /\ ThrottleTypes' /\ ProviderTypes'
          /\ \A u \in Users : issued[u] <= issued'[u] /\ issued'[u] \in Nat
      BY <2>1, ThrottleRests, ProviderRests, HistoryRests DEF IInv, Types
    <2>3. \A q \in Requests : CallInv(q)'
      BY <2>1, <2>2, CallRests DEF IInv
    <2>4. QED
      BY <2>1, <2>2, <2>3, BrowserRests DEF IInv, Types, HistoryTypes, history
  <1>2. QED
    BY <1>1, ArrivalKeeps, AskKeeps, SendKeeps, GuessKeeps, AnswerKeeps, DeliverKeeps,
       ExpireKeeps, TickKeeps DEF Next

LEMMA Invariant == Spec => []IInv
  BY IInvInit, IInvStep, PTL DEF Spec

\* TypeOK is an invariant: no budget is overdrawn and no more codes are sent
\* than were issued.
THEOREM TypeCorrect == Spec => []TypeOK
  <1>1. IInv => TypeOK
    <2> SUFFICES ASSUME IInv PROVE TypeOK
      OBVIOUS
    <2>1. \A k \in Keys : spent[k] \in 0..Attempts[k]
      BY KeyTypes DEF IInv, Types, ThrottleTypes
    <2>2. request \in [Requests -> Request] /\ HistoryTypes
      BY DEF IInv, Types
    <2>3. QED
      BY <2>1, <2>2 DEF IInv, Types, ThrottleTypes, ProviderTypes, BrowserTypes, HistoryTypes,
         TypeOK, Request, Phases, Replies
  <1>2. QED
    BY Invariant, <1>1, PTL

\* A browser's address cookie always names an address a code was really sent to
\* (startEmailSignIn writes it only after the provider took the address).
THEOREM CookieNamesAddresseeAlways == Spec => []CookieNamesAddressee
  BY Invariant, PTL DEF IInv

\* A browser is only ever signed in as somebody whose entry page it was sent to,
\* so a code typed in somebody else's browser signs nobody in
\* (completeEmailSignIn checks a code against the cookie's address).
THEOREM SessionBegunHereAlways == Spec => []SessionBegunHere
  BY Invariant, PTL DEF IInv

\* Unless its cookie expired, a browser that was sent to the entry page can still
\* verify its address or is signed in, whatever was refused, limited or lost
\* (completeEmailSignIn clears the cookie only with a session).
THEOREM AddressKeptAlways == Spec => []AddressKeptUntilSignedIn
  BY Invariant, PTL DEF IInv

-----------------------------------------------------------------------------
(* How often one code is guessed at. A guess that the throttle has allowed *)
(* counts as soon as it is allowed: it may reach the provider much later.  *)

VerifyKey(u) == [step |-> "email-verify", who |-> u]
Budget == Limits["email-verify"]["address"]

Counted(u) == guesses[u] + Cardinality(Allowed(u))

\* Of the windows that meet a code's lifetime, the first was opened before the
\* code was sent, by an ask that is not counted or was on its way then; the
\* second outlasts it.
Within(u) ==
  live[u] # 0 /\ at < sentAt[u] + Lifetime =>
    /\ spent[VerifyKey(u)] = 0 => Counted(u) < Budget + early[u]
    /\ spent[VerifyKey(u)] > 0 /\ resetsAt[VerifyKey(u)] < sentAt[u] + Window =>
         Counted(u) < spent[VerifyKey(u)] + early[u]
    /\ spent[VerifyKey(u)] > 0 /\ resetsAt[VerifyKey(u)] >= sentAt[u] + Window =>
         Counted(u) < spent[VerifyKey(u)] + Budget + early[u]

GuessInv == \A u \in Users : Within(u) /\ guesses[u] < 2 * Budget + early[u]

LEMMA VerifyKeyTypes ==
  ASSUME NEW u \in Users
  PROVE  VerifyKey(u) \in Keys /\ Attempts[VerifyKey(u)] = Budget /\ Budget \in Nat \ {0}
  <1>1. VerifyKey(u) \in Keys /\ u \notin Browsers
    BY EmailAssumption DEF VerifyKey, Keys, EmailSteps
  <1>2. QED
    BY <1>1, EmailAssumption DEF VerifyKey, Attempts, Budget, EmailSteps

LEMMA CountedTypes ==
  ASSUME Types, NEW u \in Users
  PROVE  /\ IsFiniteSet(Allowed(u)) /\ Cardinality(Allowed(u)) \in Nat
         /\ early[u] \in Nat /\ Counted(u) \in Nat /\ guesses[u] \in Nat /\ guesses[u] <= Counted(u)
  BY AllowedIsFinite DEF Counted, Types, HistoryTypes

\* Where nobody is newly allowed, what is counted does not grow.
LEMMA CountedRests ==
  ASSUME Types, NEW u \in Users, Allowed(u)' \subseteq Allowed(u), guesses'[u] = guesses[u]
  PROVE  Counted(u)' <= Counted(u) /\ Counted(u)' \in Nat
  <1>1. IsFiniteSet(Allowed(u)) /\ Cardinality(Allowed(u)) \in Nat /\ guesses[u] \in Nat
    BY CountedTypes
  <1>2. /\ Cardinality(Allowed(u)') <= Cardinality(Allowed(u)) /\ IsFiniteSet(Allowed(u)')
    BY <1>1, FS_Subset
  <1>3. Cardinality(Allowed(u)') \in Nat
    BY <1>2, FS_CardinalityType
  <1>4. QED
    BY <1>1, <1>2, <1>3 DEF Counted

LEMMA WithinRests ==
  ASSUME Types, NEW u \in Users, Within(u),
         Allowed(u)' \subseteq Allowed(u), guesses'[u] = guesses[u], early'[u] = early[u],
         UNCHANGED at, live'[u] = live[u], sentAt'[u] = sentAt[u],
         spent'[VerifyKey(u)] = spent[VerifyKey(u)],
         resetsAt'[VerifyKey(u)] = resetsAt[VerifyKey(u)]
  PROVE  Within(u)'
  <1>1. /\ Counted(u)' <= Counted(u) /\ Counted(u)' \in Nat
        /\ Counted(u) \in Nat /\ early[u] \in Nat
    BY CountedRests, CountedTypes
  <1>2. spent[VerifyKey(u)] \in Nat /\ Budget \in Nat
    BY VerifyKeyTypes DEF Types, ThrottleTypes
  <1>3. QED
    BY <1>1, <1>2 DEF Within, VerifyKey

\* Steps of the browser, and of a request whose guess is not being allowed or
\* answered.
LEMMA GuessRests ==
  ASSUME IInv, GuessInv, UNCHANGED <<at, spent, resetsAt, live, sentAt, history>>,
         \A r \in Requests : request'[r].phase = "provider" => request'[r] = request[r]
  PROVE  GuessInv'
  <1> SUFFICES ASSUME NEW u \in Users PROVE Within(u)' /\ guesses'[u] < 2 * Budget + early'[u]
    BY DEF GuessInv, Budget
  <1>1. Allowed(u)' \subseteq Allowed(u)
    BY DEF Allowed, AtProvider
  <1>2. QED
    BY <1>1, WithinRests DEF IInv, GuessInv, history

LEMMA AskBounded == ASSUME IInv, GuessInv, NEW r \in Requests, AskThrottle(r) PROVE GuessInv'
  <1> SUFFICES ASSUME NEW u \in Users PROVE Within(u)' /\ guesses'[u] < 2 * Budget + early'[u]
    BY DEF GuessInv, Budget
  <1>1. /\ UNCHANGED <<at, live, sentAt, history>>
        /\ request[r].phase \in {"client", "address"}
        /\ request[r].address \in Users /\ request[r].from \in Browsers
    BY DEF AskThrottle, provider, IInv, CallInv
  <1>2. /\ Key(r) \in Keys /\ L!Draw(Key(r))
        /\ \A q \in Requests : q # r => request'[q] = request[q]
        /\ request'[r].step = request[r].step /\ request'[r].address = request[r].address
        /\ request'[r].phase = "provider" =>
             request[r].phase = "address" /\ spent[Key(r)] < Attempts[Key(r)]
    BY <1>1, AskEffect, KeyTypes DEF IInv, Types, ThrottleTypes
  <1>3. /\ guesses'[u] < 2 * Budget + early'[u]
        /\ guesses'[u] = guesses[u] /\ early'[u] = early[u]
    BY <1>1 DEF GuessInv, history
  <1>4. Types /\ Within(u)
    BY DEF IInv, GuessInv
  <1>5. CASE Key(r) # VerifyKey(u)
    <2>1. r \notin Allowed(u)'
      <3>1. CASE request[r].phase = "address"
        BY <1>2, <1>5, <3>1 DEF Allowed, AtProvider, Key, VerifyKey
      <3>2. CASE request[r].phase # "address"
        BY <1>2, <3>2 DEF Allowed, AtProvider
      <3>3. QED
        BY <3>1, <3>2
    <2>2. Allowed(u)' \subseteq Allowed(u)
      BY <1>1, <1>2, <2>1 DEF Allowed, AtProvider
    <2>3. spent'[VerifyKey(u)] = spent[VerifyKey(u)] /\ resetsAt'[VerifyKey(u)] = resetsAt[VerifyKey(u)]
      BY <1>2, <1>4, <1>5, DrawEffect, VerifyKeyTypes
    <2>4. QED
      BY <1>1, <1>3, <1>4, <2>2, <2>3, WithinRests
  <1>6. CASE Key(r) = VerifyKey(u) /\ spent[Key(r)] >= Attempts[Key(r)]
    <2>1. spent[Key(r)] \in Nat /\ Attempts[Key(r)] \in Nat \ {0}
      BY <1>2, <1>4, KeyTypes DEF Types, ThrottleTypes
    <2>2. Allowed(u)' \subseteq Allowed(u)
      BY <1>1, <1>2, <1>6, <2>1 DEF Allowed, AtProvider
    <2>3. spent'[VerifyKey(u)] = spent[VerifyKey(u)] /\ resetsAt'[VerifyKey(u)] = resetsAt[VerifyKey(u)]
      BY <1>2, <1>4, <1>6, <2>1, DrawEffect
    <2>4. QED
      BY <1>1, <1>3, <1>4, <2>2, <2>3, WithinRests
  <1>7. CASE Key(r) = VerifyKey(u) /\ spent[Key(r)] < Attempts[Key(r)]
    <2> DEFINE k == VerifyKey(u)
    <2>1. Allowed(u)' \subseteq Allowed(u) \union {r}
      BY <1>1, <1>2 DEF Allowed, AtProvider
    <2>2. /\ IsFiniteSet(Allowed(u)) /\ Cardinality(Allowed(u)) \in Nat
          /\ guesses[u] \in Nat /\ early[u] \in Nat
      BY <1>4, CountedTypes
    <2>3. /\ IsFiniteSet(Allowed(u) \union {r})
          /\ Cardinality(Allowed(u) \union {r}) <= Cardinality(Allowed(u)) + 1
      <3>1. /\ IsFiniteSet(Allowed(u) \union {r})
            /\ Cardinality(Allowed(u) \union {r}) =
                 IF r \in Allowed(u) THEN Cardinality(Allowed(u)) ELSE Cardinality(Allowed(u)) + 1
        BY <2>2, FS_AddElement
      <3>2. QED
        BY <2>2, <3>1
    <2>4. /\ IsFiniteSet(Allowed(u)')
          /\ Cardinality(Allowed(u)') <= Cardinality(Allowed(u) \union {r})
      BY <2>1, <2>3, FS_Subset
    <2>5. Cardinality(Allowed(u)') \in Nat /\ Cardinality(Allowed(u) \union {r}) \in Nat
      BY <2>3, <2>4, FS_CardinalityType
    <2>6. /\ Counted(u)' <= Counted(u) + 1 /\ Counted(u)' \in Nat /\ Counted(u) \in Nat
      BY <1>3, <2>2, <2>3, <2>4, <2>5 DEF Counted
    <2>7. /\ spent[k] = 0 => spent'[k] = 1 /\ resetsAt'[k] = at + Window
          /\ spent[k] > 0 => spent'[k] = spent[k] + 1 /\ resetsAt'[k] = resetsAt[k]
      BY <1>2, <1>4, <1>7, DrawEffect
    <2>8. /\ spent[k] \in Nat /\ Budget \in Nat \ {0} /\ at \in Nat
          /\ sentAt[u] \in Nat /\ sentAt[u] <= at /\ Window \in Nat
      BY <1>4, VerifyKeyTypes, EmailAssumption DEF Types, ThrottleTypes, ProviderTypes
    <2> HIDE DEF k
    <2>9. QED
      BY <1>1, <1>3, <1>4, <2>2, <2>6, <2>7, <2>8 DEF Within, k, VerifyKey
  <1>8. QED
    <2>1. spent[Key(r)] \in Nat /\ Attempts[Key(r)] \in Nat
      BY <1>2, <1>4, KeyTypes DEF Types, ThrottleTypes
    <2>2. QED
      BY <1>5, <1>6, <1>7, <2>1

LEMMA SendBounded == ASSUME IInv, GuessInv, NEW r \in Requests, SendMagicAuthCode(r) PROVE GuessInv'
  <1> SUFFICES ASSUME NEW u \in Users PROVE Within(u)' /\ guesses'[u] < 2 * Budget + early'[u]
    BY DEF GuessInv, Budget
  <1>1. /\ UNCHANGED <<at, spent, resetsAt>> /\ request[r].phase = "provider"
        /\ request[r].address \in Users /\ Send(request[r].address)
        /\ \E how \in {"entry", "failed"} : Answer(r, how)
    BY DEF SendMagicAuthCode, AtProvider, throttle, IInv, CallInv
  <1>2. /\ \A q \in Requests : q # r => request'[q] = request[q]
        /\ request'[r].phase = "answered" /\ request[r].step = "email-start"
    BY <1>1, AnswerEffect DEF IInv, Replies, SendMagicAuthCode, AtProvider
  <1>3. Types /\ Within(u) /\ Budget \in Nat \ {0}
    BY VerifyKeyTypes DEF IInv, GuessInv
  <1>4. CASE u # request[r].address
    <2>1. /\ live'[u] = live[u] /\ sentAt'[u] = sentAt[u] 
          /\ guesses'[u] = guesses[u] /\ early'[u] = early[u]
      BY <1>1, <1>3, <1>4, SendEffect
    <2>2. Allowed(u)' \subseteq Allowed(u)
      BY <1>2, <2>1 DEF Allowed, AtProvider
    <2>3. QED
      BY <1>1, <1>3, <2>1, <2>2, WithinRests DEF GuessInv
  <1>5. CASE u = request[r].address
    <2>1. /\ guesses'[u] = 0 /\ early'[u] = Cardinality(Allowed(u))
      BY <1>1, <1>3, <1>5, SendEffect
    <2>2. Allowed(u)' = Allowed(u)
      <3>1. r \notin Allowed(u) /\ r \notin Allowed(u)'
        BY <1>2 DEF Allowed, AtProvider
      <3>2. QED
        BY <1>2, <3>1 DEF Allowed, AtProvider
    <2>3. Counted(u)' = early'[u] /\ early'[u] \in Nat
      BY <2>1, <2>2, AllowedIsFinite DEF Counted
    <2>4. spent'[VerifyKey(u)] \in Nat
      BY <1>1, <1>3, VerifyKeyTypes DEF Types, ThrottleTypes
    <2>5. QED
      BY <1>3, <2>1, <2>3, <2>4 DEF Within, Budget, VerifyKey
  <1>6. QED
    BY <1>4, <1>5

LEMMA GuessBounded ==
  ASSUME IInv, GuessInv, NEW r \in Requests, VerifyMagicAuthCode(r)
  PROVE  GuessInv'
  <1> SUFFICES ASSUME NEW u \in Users PROVE Within(u)' /\ guesses'[u] < 2 * Budget + early'[u]
    BY DEF GuessInv, Budget
  <1> DEFINE v == request[r].address
             counts == live[v] # 0 /\ at < sentAt[v] + Lifetime
  <1>1. /\ UNCHANGED <<at, spent, resetsAt, sentAt, early>>
        /\ guesses' = IF counts THEN [guesses EXCEPT ![v] = @ + 1] ELSE guesses
        /\ live' = live \/ live' = [live EXCEPT ![v] = 0]
    BY DEF VerifyMagicAuthCode, throttle
  <1>2. /\ request[r].phase = "provider" /\ request[r].step = "email-verify" /\ v \in Users
        /\ \A q \in Requests : q # r => request'[q] = request[q]
        /\ request'[r].phase # "provider"
    BY GuessEffect
  <1>3. Types /\ Within(u) /\ Budget \in Nat \ {0} /\ guesses[u] < 2 * Budget + early[u]
    BY VerifyKeyTypes DEF IInv, GuessInv
  <1>4. CASE u = v /\ counts
    <2>1. r \in Allowed(u)
      BY <1>2, <1>4 DEF Allowed, AtProvider
    <2>2. /\ IsFiniteSet(Allowed(u)) /\ Cardinality(Allowed(u)) \in Nat
          /\ guesses[u] \in Nat /\ early[u] \in Nat
      BY <1>3, CountedTypes
    <2>3. /\ IsFiniteSet(Allowed(u) \ {r})
          /\ Cardinality(Allowed(u) \ {r}) = Cardinality(Allowed(u)) - 1
      BY <2>1, <2>2, FS_RemoveElement
    <2>4. Cardinality(Allowed(u) \ {r}) \in Nat
      BY <2>3, FS_CardinalityType
    <2>5. guesses'[u] = guesses[u] + 1
      BY <1>1, <1>3, <1>4 DEF Types, HistoryTypes
    <2>6. guesses'[u] <= Counted(u) /\ Counted(u) \in Nat
      BY <2>2, <2>3, <2>4, <2>5 DEF Counted
    <2>7. /\ spent[VerifyKey(u)] \in Nat /\ spent[VerifyKey(u)] <= Budget
          /\ resetsAt[VerifyKey(u)] \in Nat /\ sentAt[u] \in Nat /\ Window \in Nat
      BY <1>3, VerifyKeyTypes, EmailAssumption DEF Types, ThrottleTypes, ProviderTypes
    <2>8. Counted(u) < 2 * Budget + early[u]
      BY <1>3, <1>4, <2>2, <2>6, <2>7 DEF Within
    <2>9. Within(u)'
      <3>1. CASE live' = live
        <4>1. Allowed(u)' \in SUBSET (Allowed(u) \ {r})
          BY <1>2, <3>1 DEF Allowed, AtProvider
        <4>2. /\ Cardinality(Allowed(u)') <= Cardinality(Allowed(u) \ {r})
              /\ IsFiniteSet(Allowed(u)')
          BY <2>3, <4>1, FS_Subset
        <4>3. Cardinality(Allowed(u)') \in Nat
          BY <4>2, FS_CardinalityType
        <4>4. Counted(u)' <= Counted(u) /\ Counted(u)' \in Nat
          BY <2>2, <2>3, <2>4, <2>5, <4>2, <4>3 DEF Counted
        <4>5. QED
          BY <1>1, <1>3, <2>2, <2>6, <2>7, <3>1, <4>4 DEF Within, VerifyKey, Budget
      <3>2. CASE live' = [live EXCEPT ![v] = 0]
        BY <1>3, <1>4, <3>2 DEF Within, Types, ProviderTypes
      <3>3. QED
        BY <1>1, <3>1, <3>2
    <2>10. QED
      BY <1>1, <1>3, <2>2, <2>5, <2>6, <2>8, <2>9
  <1>5. CASE ~(u = v /\ counts)
    <2>1. guesses'[u] = guesses[u] /\ early'[u] = early[u]
      BY <1>1, <1>2, <1>3, <1>5 DEF Types, HistoryTypes
    <2>2. CASE live'[u] = live[u]
      <3>1. Allowed(u)' \subseteq Allowed(u)
        BY <1>2, <2>2 DEF Allowed, AtProvider
      <3>2. QED
        BY <1>1, <1>3, <2>1, <2>2, <3>1, WithinRests
    <2>3. CASE live'[u] # live[u]
      <3>1. live'[u] = 0
        BY <1>1, <1>2, <1>3, <2>3 DEF Types, ProviderTypes
      <3>2. QED
        BY <1>3, <2>1, <3>1 DEF Within
    <2>4. QED
      BY <2>2, <2>3
  <1>6. QED
    BY <1>4, <1>5

\* A window that closes within the code's lifetime was opened before the code
\* was sent; this is where the windows of EMAIL_LIMITS are as long as a code
\* lives.
LEMMA TickBounded == ASSUME IInv, GuessInv, Tick PROVE GuessInv'
  <1> SUFFICES ASSUME NEW u \in Users PROVE Within(u)' /\ guesses'[u] < 2 * Budget + early'[u]
    BY DEF GuessInv, Budget
  <1> DEFINE k == VerifyKey(u)
  <1>1. /\ UNCHANGED <<live, sentAt, history, request>> /\ at' = at + 1
        /\ spent' = [j \in Keys |-> IF resetsAt[j] > at + 1 THEN spent[j] ELSE 0]
        /\ resetsAt' = [j \in Keys |-> IF resetsAt[j] > at + 1 THEN resetsAt[j] ELSE 0]
    BY DEF Tick, L!Tick, provider
  <1>2. Types /\ Within(u) /\ guesses[u] < 2 * Budget + early[u]
    BY DEF IInv, GuessInv
  <1>3. /\ k \in Keys /\ Budget \in Nat \ {0} /\ spent[k] \in Nat /\ spent[k] <= Budget
        /\ resetsAt[k] \in Nat /\ at \in Nat /\ sentAt[u] \in Nat
        /\ Window \in Nat /\ Lifetime \in Nat /\ Lifetime <= Window
    BY <1>2, VerifyKeyTypes, EmailAssumption DEF Types, ThrottleTypes, ProviderTypes
  <1>4. /\ Counted(u)' = Counted(u) /\ Counted(u) \in Nat
        /\ early[u] \in Nat /\ early'[u] = early[u] /\ guesses'[u] = guesses[u]
    BY <1>1, <1>2, CountedTypes DEF Counted, Allowed, AtProvider, history
  <1>5. /\ resetsAt[k] > at + 1 => spent'[k] = spent[k] /\ resetsAt'[k] = resetsAt[k]
        /\ resetsAt[k] <= at + 1 => spent'[k] = 0
    BY <1>1, <1>3
  <1> HIDE DEF k
  <1>6. Within(u)'
    BY <1>1, <1>2, <1>3, <1>4, <1>5 DEF Within, k, VerifyKey, Budget
  <1>7. QED
    BY <1>2, <1>4, <1>6

LEMMA GuessStep == IInv /\ GuessInv /\ [Next]_vars => GuessInv'
  <1> SUFFICES ASSUME IInv, GuessInv, [Next]_vars PROVE GuessInv'
    OBVIOUS
  <1>1. CASE UNCHANGED vars
    BY <1>1, GuessRests DEF vars, throttle, provider
  <1>2. ASSUME NEW r \in Requests, NEW b \in Browsers,
               \/ \E u \in Users : Start(r, b, u)
               \/ \E c \in Sent \union {NoCode} : Verify(r, b, c)
        PROVE  GuessInv'
    <2>1. UNCHANGED <<at, spent, resetsAt, live, sentAt, history>>
      BY <1>2 DEF Start, Verify, throttle, provider
    <2>2. /\ request'[r].phase # "provider"
          /\ \A q \in Requests : q # r => request'[q] = request[q]
      BY <1>2, StartEffect, VerifyEffect DEF IInv
    <2>3. QED
      BY <2>1, <2>2, GuessRests
  <1>3. ASSUME NEW r \in Requests, Refused(r) \/ Provision(r) PROVE GuessInv'
    <2>1. UNCHANGED <<at, spent, resetsAt, live, sentAt, history>>
      BY <1>3 DEF Refused, Provision, throttle, provider
    <2>2. /\ request'[r].phase # "provider"
          /\ \A q \in Requests : q # r => request'[q] = request[q]
      BY <1>3, AnswerEffect DEF IInv, Refused, Provision, Replies
    <2>3. QED
      BY <2>1, <2>2, GuessRests
  <1>4. ASSUME NEW r \in Requests, Deliver(r) \/ Drop(r) PROVE GuessInv'
    <2>1. /\ UNCHANGED <<at, spent, resetsAt, live, sentAt, history>>
          /\ request' = [request EXCEPT ![r] = Idle]
      BY <1>4 DEF Deliver, Drop, throttle, provider
    <2>2. /\ request'[r].phase # "provider"
          /\ \A q \in Requests : q # r => request'[q] = request[q]
      BY <2>1, IdleIsRequest DEF IInv, Types
    <2>3. QED
      BY <2>1, <2>2, GuessRests
  <1>5. ASSUME NEW b \in Browsers, Expire(b) PROVE GuessInv'
    BY <1>5, GuessRests DEF Expire, throttle, provider
  <1>6. QED
    BY <1>1, <1>2, <1>3, <1>4, <1>5, AskBounded, SendBounded, GuessBounded, TickBounded DEF Next

\* One code is tried less often than two windows of its address allow, besides
\* the tries that were on their way when it was sent, in whatever order tries are
\* allowed and reach the provider, for any number of requests and any budgets (completeEmailSignIn asks the throttle before it calls
\* the provider; a window is as long as a code lives).
THEOREM GuessesBoundedAlways == Spec => []GuessesBounded
  <1>1. Init => GuessInv
    <2> SUFFICES ASSUME Init, NEW u \in Users PROVE Within(u) /\ guesses[u] < 2 * Budget + early[u]
      BY DEF GuessInv
    <2>1. live[u] = 0 /\ guesses[u] = 0 /\ early[u] = 0 /\ Budget \in Nat \ {0}
      BY VerifyKeyTypes DEF Init
    <2>2. QED
      BY <2>1 DEF Within
  <1>2. GuessInv => GuessesBounded
    BY DEF GuessInv, GuessesBounded, Budget
  <1>3. QED
    BY Invariant, GuessStep, <1>1, <1>2, PTL DEF Spec
===============================================================================
