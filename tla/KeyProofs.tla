------------------------------- MODULE KeyProofs -------------------------------
(***************************************************************************)
(* Keys that change while they are in use: rotating the cookie password    *)
(* signs nobody out, for any number of instances, browsers, passwords and  *)
(* overlapping rotations, and any lengths of sessions, tokens and cookies; *)
(* and what a shared, cached set of the provider's keys may get wrong, and *)
(* does not, for any requests and keys, and whatever the times of the      *)
(* cache are.                                                              *)
(***************************************************************************)
EXTENDS KeyRotation, BearerAuth, TLAPS

-----------------------------------------------------------------------------
(* The passwords that seal cookies.                                        *)

OpenEverywhere(k) == /\ k \in Opens(target)
                     /\ \A i \in Instances : k \in Opens(conf[i])

\* Every key that a cookie somebody presents is sealed with, or may come to be,
\* opens at every instance and at those to come.
NeededOpen ==
  /\ OpenEverywhere(target.current)
  /\ \A i \in Instances : OpenEverywhere(conf[i].current)
  /\ \A r \in flight : OpenEverywhere(r.sealed.key)
  /\ \A b \in Browsers : Live(cookie[b]) => OpenEverywhere(cookie[b].key)

\* No cookie outlives what the provider and the browser give it.
Bounded ==
  /\ \A b \in Browsers : cookie[b] # NoCookie =>
       /\ cookie[b].discard <= now + MaxAge
       /\ cookie[b].session <= now + SessionLength
       /\ cookie[b].token <= now + TokenLength
  /\ \A r \in flight : /\ r.sealed.session <= now + SessionLength
                       /\ r.sealed.token <= now + TokenLength

\* A retired password seals nothing any more, and what it sealed was delivered
\* before it was retired.
RetiredUnused ==
  \A k \in Keys : retired[k] # Never =>
    /\ retired[k] <= now /\ k < rotating
    /\ k # target.current
    /\ \A i \in Instances : conf[i].current # k
    /\ \A r \in flight : r.sealed.key # k
    /\ \A b \in Browsers : cookie[b] # NoCookie /\ cookie[b].key = k =>
         /\ cookie[b].discard <= retired[k] + MaxAge
         /\ cookie[b].session <= retired[k] + SessionLength
         /\ cookie[b].token <= retired[k] + TokenLength

\* Where the rotation stands.
Staged ==
  /\ stage = "staged" => /\ rotating > 1 /\ target.current = rotating - 1
                         /\ rotating \in target.previous /\ retired[rotating - 1] = Never
  /\ stage = "promoted" => /\ rotating > 1 /\ target.current = rotating
                           /\ rotating - 1 \in target.previous /\ retired[rotating - 1] = Never
                           /\ \A i \in Instances : rotating - 1 \in Opens(conf[i])
  /\ stage = "steady" => target.current = rotating

IInv == TypeOK /\ NeededOpen /\ Bounded /\ RetiredUnused /\ Staged

-----------------------------------------------------------------------------

LEMMA TypeInit == Init => TypeOK
  BY RotationAssumption DEF Init, TypeOK, Config, Keys, Stored, Cookie

LEMMA TypeStep == TypeOK /\ Staged /\ [Next]_vars => TypeOK'
<1> SUFFICES ASSUME TypeOK, Staged, [Next]_vars PROVE TypeOK'
  OBVIOUS
<1> USE RotationAssumption DEF TypeOK, Config, Keys
<1>1. CASE Tick
  BY <1>1 DEF Tick, operator
<1>2. ASSUME NEW b \in Browsers, NEW i \in Instances, NEW s \in Int, Sends(b, i, s)
      PROVE  TypeOK'
  <2>1. conf[i].current \in Keys
    OBVIOUS
  <2>2. [browser |-> b,
         sealed |-> [key |-> Seals(conf[i]), session |-> s, token |-> now + TokenLength]]
          \in [browser : Browsers, sealed : Cookie]
    BY <2>1 DEF Seals, Cookie
  <2>3. flight' \subseteq [browser : Browsers, sealed : Cookie]
    BY <1>2, <2>2 DEF Sends
  <2> QED  BY <1>2, <2>3 DEF Sends, operator
<1>3. ASSUME NEW b \in Browsers, NEW i \in Instances, SignIn(b, i) PROVE TypeOK'
  BY <1>2, <1>3 DEF SignIn
<1>4. ASSUME NEW b \in Browsers, NEW i \in Instances, Renew(b, i) PROVE TypeOK'
  BY <1>2, <1>4 DEF Renew, Live, Stored
<1>5. ASSUME NEW r \in flight, Deliver(r) PROVE TypeOK'
  <2>1. /\ r.browser \in Browsers
        /\ [key |-> r.sealed.key, session |-> r.sealed.session,
            token |-> r.sealed.token, discard |-> now + MaxAge] \in Stored
    BY DEF Cookie, Stored
  <2>2. cookie' \in [Browsers -> Stored \union {NoCookie}]
    BY <1>5, <2>1 DEF Deliver
  <2> QED  BY <1>5, <2>2 DEF Deliver, operator
<1>6. ASSUME NEW i \in Instances, Roll(i) PROVE TypeOK'
  BY <1>6 DEF Roll, Loads, operator
<1>7. CASE Stage
  BY <1>7 DEF Stage
<1>8. CASE Promote
  BY <1>8 DEF Promote
<1>9. CASE Correct
  BY <1>9 DEF Correct
<1>10. CASE RollBack
  BY <1>10 DEF RollBack
<1>11. CASE Retire
  BY <1>11 DEF Retire
<1>12. ASSUME NEW k \in Keys, Remove(k) PROVE TypeOK'
  BY <1>12 DEF Remove
<1>13. CASE UNCHANGED vars
  BY <1>13 DEF vars, operator
<1> QED
  BY <1>1, <1>3, <1>4, <1>5, <1>6, <1>7, <1>8, <1>9, <1>10, <1>11, <1>12, <1>13 DEF Next

-----------------------------------------------------------------------------
(* What a step may do to cookies and keys, whichever step it is.           *)

\* No cookie appears but by a response, with the bytes that were on their way.
LEMMA BoundedStep == TypeOK /\ Bounded /\ [Next]_vars => Bounded'
<1> SUFFICES ASSUME TypeOK, Bounded, [Next]_vars PROVE Bounded'
  OBVIOUS
<1> USE RotationAssumption DEF TypeOK, Bounded
<1>1. CASE Tick
  BY <1>1 DEF Tick, Stored, Cookie
<1>2. ASSUME NEW b \in Browsers, NEW i \in Instances, NEW s \in Int,
             s <= now + SessionLength, Sends(b, i, s)
      PROVE  Bounded'
  BY <1>2 DEF Sends
<1>3. ASSUME NEW b \in Browsers, NEW i \in Instances, SignIn(b, i) PROVE Bounded'
  BY <1>2, <1>3 DEF SignIn
<1>4. ASSUME NEW b \in Browsers, NEW i \in Instances, Renew(b, i) PROVE Bounded'
  BY <1>2, <1>4 DEF Renew, Live, Stored
<1>5. ASSUME NEW r \in flight, Deliver(r) PROVE Bounded'
  <2>1. \A b \in Browsers : cookie'[b] # NoCookie =>
          \/ cookie'[b] = cookie[b]
          \/ cookie'[b] = [key |-> r.sealed.key, session |-> r.sealed.session,
                           token |-> r.sealed.token, discard |-> now + MaxAge]
    BY <1>5 DEF Deliver
  <2>2. now' = now /\ flight' \subseteq flight
    BY <1>5 DEF Deliver
  <2> QED  BY <2>1, <2>2
<1>6. ASSUME UNCHANGED <<now, cookie, flight>> PROVE Bounded'
  BY <1>6
<1>7. ASSUME NEW i \in Instances, Roll(i) PROVE Bounded'
  BY <1>6, <1>7 DEF Roll
<1>8. ASSUME NEW k \in Keys, Remove(k) PROVE Bounded'
  BY <1>6, <1>8 DEF Remove
<1>9. CASE Stage \/ Promote \/ Correct \/ RollBack \/ Retire \/ UNCHANGED vars
  BY <1>6, <1>9 DEF Stage, Promote, Correct, RollBack, Retire, vars
<1> QED
  BY <1>1, <1>3, <1>4, <1>5, <1>7, <1>8, <1>9 DEF Next

LEMMA StagedStep == IInv /\ [Next]_vars => Staged'
<1> SUFFICES ASSUME IInv, [Next]_vars PROVE Staged'
  OBVIOUS
<1> USE DEF IInv, TypeOK, Staged, Keys, Config
<1>1. ASSUME UNCHANGED <<conf, operator>> PROVE Staged'
  BY <1>1 DEF operator, Opens
<1>2. CASE Tick
  BY <1>1, <1>2 DEF Tick
<1>3. ASSUME NEW b \in Browsers, NEW i \in Instances, SignIn(b, i) \/ Renew(b, i)
      PROVE  Staged'
  BY <1>1, <1>3 DEF SignIn, Renew, Sends
<1>4. ASSUME NEW r \in flight, Deliver(r) PROVE Staged'
  BY <1>1, <1>4 DEF Deliver
<1>5. ASSUME NEW i \in Instances, Roll(i) PROVE Staged'
  BY <1>5 DEF Roll, operator, Opens
<1>6. CASE Stage
  BY <1>6, RotationAssumption, SMTT(30) DEF Stage, RetiredUnused
<1>7. CASE Promote
  BY <1>7, RotationAssumption DEF Promote, RolledOut, Opens, RetiredUnused
<1>8. CASE Correct
  BY <1>8 DEF Correct, Opens
<1>9. CASE RollBack
  BY <1>9, RotationAssumption DEF RollBack
<1>10. CASE Retire
  BY <1>10 DEF Retire
<1>11. ASSUME NEW k \in Keys, Remove(k) PROVE Staged'
  BY <1>11 DEF Remove
<1>12. CASE UNCHANGED vars
  BY <1>1, <1>12 DEF vars
<1> QED
  BY <1>2, <1>3, <1>4, <1>5, <1>6, <1>7, <1>8, <1>9, <1>10, <1>11, <1>12 DEF Next

LEMMA RetiredStep == IInv /\ [Next]_vars => RetiredUnused'
<1> SUFFICES ASSUME IInv, [Next]_vars PROVE RetiredUnused'
  OBVIOUS
<1> USE RotationAssumption DEF IInv, TypeOK, Staged, RetiredUnused, Keys, Config
<1>1. ASSUME UNCHANGED <<operator, conf, cookie, flight>>, now' \in Nat, now' >= now
      PROVE  RetiredUnused'
  BY <1>1, SMTT(30) DEF operator
<1>2. CASE Tick
  BY <1>1, <1>2 DEF Tick
<1>3. ASSUME NEW b \in Browsers, NEW i \in Instances, SignIn(b, i) \/ Renew(b, i)
      PROVE  RetiredUnused'
  <2>1. PICK s : Sends(b, i, s)
    BY <1>3 DEF SignIn, Renew
  <2> QED  BY <2>1 DEF Sends, Seals, operator
<1>4. ASSUME NEW r \in flight, Deliver(r) PROVE RetiredUnused'
  <2>1. \A b \in Browsers : cookie'[b] = cookie[b] \/ cookie'[b].key = r.sealed.key
    BY <1>4 DEF Deliver
  <2>2. UNCHANGED <<now, conf, operator>> /\ flight' \subseteq flight
    BY <1>4 DEF Deliver
  <2> QED  BY <2>1, <2>2 DEF operator
<1>5. ASSUME NEW i \in Instances, Roll(i) PROVE RetiredUnused'
  BY <1>5 DEF Roll, operator
<1>6. CASE Stage
  BY <1>6 DEF Stage
<1>7. CASE Promote
  BY <1>7 DEF Promote
<1>8. CASE Correct
  BY <1>8 DEF Correct
<1>9. CASE RollBack
  BY <1>9 DEF RollBack
<1>10. CASE Retire
  <2>1. \A i \in Instances : conf[i].current # rotating - 1
    BY <1>10 DEF Retire, RolledOut
  <2>2. \A k \in Keys : retired'[k] = IF k = rotating - 1 THEN now ELSE retired[k]
    BY <1>10 DEF Retire
  <2> QED  BY <1>10, <2>1, <2>2 DEF Retire, Bounded
<1>11. ASSUME NEW k \in Keys, Remove(k) PROVE RetiredUnused'
  BY <1>11 DEF Remove
<1>12. CASE UNCHANGED vars
  BY <1>1, <1>12 DEF vars
<1> QED
  BY <1>2, <1>3, <1>4, <1>5, <1>6, <1>7, <1>8, <1>9, <1>10, <1>11, <1>12 DEF Next

\* A cookie sealed with a password whose wait is over is of no use.
LEMMA WaitIsEnough ==
  ASSUME IInv, NEW k \in Keys, retired[k] # Never, now >= retired[k] + Wait,
         NEW b \in Browsers, Live(cookie[b])
  PROVE  cookie[b].key # k
<1> SUFFICES ASSUME cookie[b].key = k PROVE FALSE
  OBVIOUS
<1>1. /\ cookie[b].discard <= retired[k] + MaxAge
      /\ cookie[b].session <= retired[k] + SessionLength
      /\ cookie[b].token <= retired[k] + TokenLength
  BY DEF IInv, RetiredUnused, Live
<1>2. /\ cookie[b].discard \in Int /\ cookie[b].session \in Int /\ cookie[b].token \in Int
      /\ retired[k] \in Nat /\ now \in Nat
  BY DEF IInv, TypeOK, Live, Stored
<1> QED  BY <1>1, <1>2, RotationAssumption DEF Live, Wait

LEMMA OpenStep == IInv /\ [Next]_vars => NeededOpen'
<1> SUFFICES ASSUME IInv, [Next]_vars PROVE NeededOpen'
  OBVIOUS
<1> USE DEF IInv, NeededOpen
<1>1. ASSUME UNCHANGED <<conf, target, cookie, flight>>, now' \in Nat, now' >= now
      PROVE  NeededOpen'
  BY <1>1 DEF OpenEverywhere, Opens, Live, TypeOK, Stored
<1>2. CASE Tick
  BY <1>1, <1>2 DEF Tick, operator, TypeOK
<1>3. ASSUME NEW b \in Browsers, NEW i \in Instances, SignIn(b, i) \/ Renew(b, i)
      PROVE  NeededOpen'
  <2>1. PICK s : Sends(b, i, s)
    BY <1>3 DEF SignIn, Renew
  <2>2. \A k : OpenEverywhere(k) <=> (OpenEverywhere(k))'
    BY <2>1 DEF Sends, operator, OpenEverywhere, Opens
  <2>3. \A x \in Browsers : Live(cookie[x])' <=> Live(cookie[x])
    BY <2>1 DEF Sends, Live
  <2>4. \A r \in flight' : r \in flight \/ r.sealed.key = conf[i].current
    BY <2>1 DEF Sends, Seals
  <2> QED  BY <2>1, <2>2, <2>3, <2>4 DEF Sends, operator
<1>4. ASSUME NEW r \in flight, Deliver(r) PROVE NeededOpen'
  <2>1. /\ UNCHANGED <<now, conf, target>> /\ flight' \subseteq flight
        /\ \A b \in Browsers : cookie'[b] = cookie[b] \/ cookie'[b].key = r.sealed.key
    BY <1>4 DEF Deliver, operator, TypeOK
  <2>2. \A k : OpenEverywhere(k) <=> (OpenEverywhere(k))'
    BY <2>1 DEF OpenEverywhere, Opens
  <2>3. \A b \in Browsers : cookie'[b] = cookie[b] => (Live(cookie[b])' <=> Live(cookie[b]))
    BY <2>1 DEF Live
  <2> QED  BY <2>1, <2>2, <2>3
<1>5. ASSUME NEW i \in Instances, Roll(i) PROVE NeededOpen'
  <2>1. \A k : OpenEverywhere(k) => OpenEverywhere(k)'
    BY <1>5 DEF Roll, operator, OpenEverywhere, TypeOK, Config
  <2>2. \A j \in Instances : conf'[j] \in {conf[j], target}
    BY <1>5 DEF Roll, TypeOK
  <2>3. \A b \in Browsers : Live(cookie[b])' <=> Live(cookie[b])
    BY <1>5 DEF Roll, Live
  <2> QED  BY <1>5, <2>1, <2>2, <2>3 DEF Roll, operator
\* Only Remove takes a key out of what the target opens, and the new target's
\* own key opens everywhere already.
<1>6. ASSUME UNCHANGED <<now, conf, cookie, flight>>,
             Opens(target) \subseteq Opens(target)', OpenEverywhere(target'.current)
      PROVE  NeededOpen'
  <2>1. \A k : OpenEverywhere(k) => OpenEverywhere(k)'
    BY <1>6 DEF OpenEverywhere, Opens
  <2>2. \A b \in Browsers : Live(cookie[b])' <=> Live(cookie[b])
    BY <1>6 DEF Live
  <2> QED  BY <1>6, <2>1, <2>2
<1>7. CASE Stage
  BY <1>6, <1>7 DEF Stage, Opens, TypeOK, Config
<1>8. CASE Promote
  BY <1>6, <1>8, RotationAssumption DEF Promote, RolledOut, OpenEverywhere, Opens, Staged, TypeOK, Config
<1>9. CASE Correct
  BY <1>6, <1>9 DEF Correct, OpenEverywhere, Opens, TypeOK, Config
<1>10. CASE RollBack
  BY <1>6, <1>10 DEF RollBack, RolledOut, OpenEverywhere, Opens, Staged, TypeOK, Config
<1>11. CASE Retire
  BY <1>1, <1>11 DEF Retire, TypeOK
<1>12. ASSUME NEW k \in Keys, Remove(k) PROVE NeededOpen'
  <2>1. /\ k # target.current
        /\ \A i \in Instances : conf[i].current # k
        /\ \A r \in flight : r.sealed.key # k
        /\ \A b \in Browsers : Live(cookie[b]) => cookie[b].key # k
    BY <1>12, WaitIsEnough DEF Remove, RetiredUnused
  <2>2. \A other : other # k /\ OpenEverywhere(other) => OpenEverywhere(other)'
    BY <1>12 DEF Remove, OpenEverywhere, Opens, TypeOK, Config
  <2>3. \A b \in Browsers : Live(cookie[b])' <=> Live(cookie[b])
    BY <1>12 DEF Remove, Live
  <2>4. target'.current = target.current
    BY <1>12 DEF Remove, TypeOK, Config
  <2> QED  BY <1>12, <2>1, <2>2, <2>3, <2>4 DEF Remove
<1>13. CASE UNCHANGED vars
  BY <1>1, <1>13 DEF vars, operator, TypeOK
<1> QED
  BY <1>2, <1>3, <1>4, <1>5, <1>7, <1>8, <1>9, <1>10, <1>11, <1>12, <1>13 DEF Next

-----------------------------------------------------------------------------
(* The theorems.                                                           *)

LEMMA InvInit == Init => IInv
<1> SUFFICES ASSUME Init PROVE IInv
  OBVIOUS
<1>1. TypeOK
  BY TypeInit
<1>2. NeededOpen
  BY DEF Init, NeededOpen, OpenEverywhere, Opens, Live
<1>3. Bounded /\ RetiredUnused /\ Staged
  BY DEF Init, Bounded, RetiredUnused, Staged
<1> QED  BY <1>1, <1>2, <1>3 DEF IInv

LEMMA InvStep == IInv /\ [Next]_vars => IInv'
  BY TypeStep, OpenStep, BoundedStep, RetiredStep, StagedStep DEF IInv

\* Type correctness, and with it that no instance runs with its current
\* password among its previous ones.
THEOREM TypeCorrect == Spec => []TypeOK
<1>1. IInv => TypeOK
  BY DEF IInv
<1> QED  BY <1>1, InvInit, InvStep, PTL DEF Spec

\* Whichever instance a request reaches, whatever rollouts, rollbacks and
\* overlapping rotations are under way, a cookie with something in it opens.
THEOREM RotationSignsNobodyOut == Spec => []NobodySignedOut
<1>1. IInv => NobodySignedOut
  BY DEF IInv, NeededOpen, OpenEverywhere, NobodySignedOut
<1> QED  BY <1>1, InvInit, InvStep, PTL DEF Spec

-----------------------------------------------------------------------------
(* The keys that sign tokens.                                              *)

\* Keys that were read from the provider so long ago are those it published
\* then: one that is among them is published, or was taken down since; one that
\* is not, and is published, was published since.
Since(p, keys, age) ==
  /\ \A k \in keys : p[k].is = "published" \/ (p[k].is = "taken down" /\ p[k].age <= age)
  /\ \A k \in SigningKeys \ keys : p[k].is = "published" => p[k].age <= age

\* A token that waits for keys is one that can have been signed.
Signed(token) == token.key # Forged => provider[token.key].is # "unpublished"

\* The inductive invariant: a set in use is as old as it says and as its fetch
\* took, at most.
BearerInv ==
  /\ BearerTypeOK
  /\ Since(provider, cache.keys, cache.age + Timeout)
  /\ fetch.at = "answered" => Since(provider, fetch.keys, fetch.age)
  /\ \A r \in Requests : Waiting(r) => Signed(request[r].token)

-----------------------------------------------------------------------------
(* The types.                                                              *)

LEMMA InitTypes == ASSUME BearerInit PROVE BearerTypeOK
BY BearerAssumption DEF BearerInit, BearerTypeOK, Long, NoFetch, Idle, NoToken, Tokens

LEMMA PresentedAreTokens == \A t \in Presented : t \in Tokens
BY DEF Presented

\* The sets the variables range over.
Providers == [SigningKeys -> [is : {"unpublished", "published", "taken down"}, age : 0..Long]]
Caches == [keys : SUBSET SigningKeys, age : 0..Long]
Fetches == [at : {"none", "asked", "answered"}, age : 0..Timeout, keys : SUBSET SigningKeys]
States == [at : {"idle", "fetch", "route", "answered"}, token : Tokens,
           status : {0, 200, 201, 401, 403, 404, 500, 503},
           error : {"none", "missing_token", "malformed_token", "expired_token", "invalid_token",
                    "forbidden", "auth_unavailable", "account_not_found", "unavailable",
                    "internal"}]

LEMMA Types ==
  BearerTypeOK <=> /\ provider \in Providers /\ cache \in Caches /\ fetch \in Fetches
                   /\ request \in [Requests -> States]
BY DEF BearerTypeOK, Providers, Caches, Fetches, States

LEMMA NoTokenIsOne == NoToken \in Tokens
BY BearerAssumption DEF NoToken, Tokens

LEMMA NoFetchIsOne == NoFetch \in Fetches
BY BearerAssumption DEF NoFetch, Fetches

LEMMA RejectedIsState ==
  ASSUME NEW token \in Tokens, NEW code \in DOMAIN responses PROVE Rejected(token, code) \in States
BY DEF Rejected, Answered, responses, States

LEMMA IdleIsState ==
  ASSUME NEW token \in Tokens, NEW at \in {"idle", "fetch", "route"}
  PROVE  [Idle EXCEPT !.at = at, !.token = token] \in States
BY ZenonT(60) DEF Idle, States

LEMMA FoundIsState ==
  ASSUME NEW token \in Tokens, NEW keys PROVE Found(token, keys) \in States
<1>1. {"expired_token", "invalid_token", "forbidden"} \subseteq DOMAIN responses
  BY DEF responses
<1>2. Verified(token) \in States
  BY <1>1, RejectedIsState, IdleIsState DEF Verified
<1> QED BY <1>1, <1>2, RejectedIsState DEF Found

LEMMA OlderIsAge ==
  ASSUME NEW age \in 0..Long
  PROVE  Older(age) \in 0..Long /\ age <= Older(age) /\ Older(age) <= age + 1
BY BearerAssumption DEF Older, Long

LEMMA NextTypes == ASSUME BearerTypeOK, [BearerNext]_bearerVars PROVE BearerTypeOK'
<1>1. Timeout \in Nat /\ Long \in Nat /\ Lifetime \in Nat
  BY BearerAssumption DEF Long
<1>2. /\ provider \in Providers /\ cache \in Caches /\ fetch \in Fetches
      /\ request \in [Requests -> States]
  BY Types
<1>3. ASSUME /\ provider' \in Providers /\ cache' \in Caches /\ fetch' \in Fetches
             /\ request' \in [Requests -> States]
      PROVE  BearerTypeOK'
  BY <1>3, ZenonT(60) DEF BearerTypeOK, Providers, Caches, Fetches, States
<1>4. ASSUME NEW r \in Requests, Unreadable(r) PROVE BearerTypeOK'
  <2>1. PICK code \in {"missing_token", "malformed_token"} :
          request' = [request EXCEPT ![r] = Rejected(NoToken, code)]
    BY <1>4 DEF Unreadable
  <2>2. Rejected(NoToken, code) \in States
    BY NoTokenIsOne, RejectedIsState DEF responses
  <2> QED BY <1>2, <1>3, <1>4, <2>1, <2>2 DEF Unreadable
<1>5. ASSUME NEW r \in Requests, NEW token \in Presented, Verify(r, token) PROVE BearerTypeOK'
  <2>1. token \in Tokens
    BY PresentedAreTokens
  <2>2. CASE Usable(token)
    BY <1>2, <1>3, <1>5, <2>1, <2>2, FoundIsState DEF Verify
  <2>3. CASE ~Usable(token)
    <3>1. [Idle EXCEPT !.at = "fetch", !.token = token] \in States
      BY <2>1, IdleIsState
    <3>2. [NoFetch EXCEPT !.at = "asked"] \in Fetches
      BY <1>1 DEF NoFetch, Fetches
    <3> QED BY <1>2, <1>3, <1>5, <2>3, <3>1, <3>2 DEF Verify
  <2> QED BY <2>2, <2>3
<1>6. ASSUME NEW r \in Requests, GetAccount(r) \/ PutAccount(r) \/ handleError(r) PROVE BearerTypeOK'
  <2>1. \A status \in {200, 201, 404, 500, 503},
           error \in {"none", "account_not_found", "unavailable", "internal"} :
          Answered(NoToken, status, error) \in States
    BY NoTokenIsOne DEF Answered, States
  <2> QED BY <1>2, <1>3, <1>6, <2>1 DEF GetAccount, PutAccount, handleError, Answer
<1>7. ASSUME NEW r \in Requests, Collect(r) PROVE BearerTypeOK'
  <2>1. Idle \in States
    BY NoTokenIsOne DEF Idle, States
  <2> QED BY <1>2, <1>3, <1>7, <2>1 DEF Collect
<1>8. CASE ProviderAnswers
  <2>1. [fetch EXCEPT !.at = "answered", !.keys = Published] \in Fetches
    BY <1>2 DEF Fetches, Published
  <2> QED BY <1>2, <1>3, <1>8, <2>1 DEF ProviderAnswers
<1>9. CASE KeysArrive
  <2>1. request' \in [Requests -> States]
    <3>1. \A r \in Requests : request[r].token \in Tokens
      BY <1>2 DEF States
    <3> QED BY <1>2, <1>9, <3>1, FoundIsState DEF KeysArrive
  <2>2. cache' \in Caches
    BY <1>1, <1>2, <1>9 DEF KeysArrive, Caches, Fetches
  <2> QED BY <1>2, <1>3, <1>9, <2>1, <2>2, NoFetchIsOne DEF KeysArrive
<1>10. CASE FetchFails
  <2>1. request' \in [Requests -> States]
    <3>1. \A r \in Requests : request[r].token \in Tokens
      BY <1>2 DEF States
    <3>2. Unavailable \in DOMAIN responses
      BY DEF Unavailable, responses
    <3> QED BY <1>2, <1>10, <3>1, <3>2, RejectedIsState DEF FetchFails
  <2> QED BY <1>2, <1>3, <1>10, <2>1, NoFetchIsOne DEF FetchFails
<1>11. ASSUME NEW k \in SigningKeys, Publish(k) \/ TakeDown(k) PROVE BearerTypeOK'
  <2>1. \A is \in {"published", "taken down"} :
          [is |-> is, age |-> 0] \in [is : {"unpublished", "published", "taken down"}, age : 0..Long]
    <3>1. 0 \in 0..Long
      BY <1>1
    <3> QED BY <3>1
  <2>2. provider' \in Providers
    BY <1>2, <1>11, <2>1 DEF Publish, TakeDown, Becomes, Providers
  <2> QED BY <1>2, <1>3, <1>11, <2>2 DEF Publish, TakeDown, Becomes
<1>12. CASE TimePasses
  <2>1. provider' \in Providers
    BY <1>2, <1>12, OlderIsAge DEF TimePasses, Providers
  <2>2. cache' \in Caches
    BY <1>2, <1>12, OlderIsAge DEF TimePasses, Caches
  <2>3. fetch' \in Fetches
    BY <1>1, <1>2, <1>12 DEF TimePasses, Fetches
  <2>4. ASSUME NEW r \in Requests, request[r].token.left > 0
        PROVE  [request[r] EXCEPT !.token.left = @ - 1] \in States
    <3>1. request[r].token \in Tokens
      BY <1>2 DEF States
    <3>2. request[r].token.left - 1 \in 0..Lifetime
      <4>1. request[r].token.left \in 0..Lifetime
        BY <3>1 DEF Tokens
      <4> QED BY <1>1, <2>4, <4>1
    <3>3. \A left \in 0..Lifetime : [request[r].token EXCEPT !.left = left] \in Tokens
      BY <3>1 DEF Tokens
    <3>4. [request[r] EXCEPT !.token = [request[r].token EXCEPT !.left = @ - 1]] \in States
      BY <1>2, <3>2, <3>3 DEF States
    <3> QED BY <3>4
  <2>5. request' \in [Requests -> States]
    BY <1>2, <1>12, <2>4 DEF TimePasses
  <2> QED BY <1>3, <2>1, <2>2, <2>3, <2>5
<1>13. CASE UNCHANGED bearerVars
  BY <1>2, <1>3, <1>13 DEF bearerVars
<1> QED BY <1>4, <1>5, <1>6, <1>7, <1>8, <1>9, <1>10, <1>11, <1>12, <1>13 DEF BearerNext

-----------------------------------------------------------------------------
(* How old the keys are.                                                   *)

LEMMA BearerInitInv == ASSUME BearerInit PROVE BearerInv
<1>1. BearerTypeOK
  BY InitTypes
<1>2. Since(provider, cache.keys, cache.age + Timeout)
  <2>1. Long \in Nat /\ Timeout \in Nat
    BY BearerAssumption DEF Long
  <2>2. cache.keys = {} /\ cache.age = Long /\ \A k \in SigningKeys : provider[k].age = Long
    BY DEF BearerInit
  <2> QED BY <2>1, <2>2 DEF Since
<1> QED BY <1>1, <1>2 DEF BearerInv, BearerInit, NoFetch, Waiting, Idle

LEMMA TokenTypes ==
  ASSUME BearerTypeOK, NEW r \in Requests
  PROVE  request[r].token \in Tokens /\ request[r].token.key \in SigningKeys \union {Forged}
<1>1. request[r].token \in Tokens
  BY Types DEF States
<1> QED BY <1>1 DEF Tokens

LEMMA KeyTypes ==
  ASSUME BearerTypeOK, NEW k \in SigningKeys
  PROVE  provider[k].age \in 0..Long /\ provider[k].age \in Nat
<1>1. provider[k] \in [is : {"unpublished", "published", "taken down"}, age : 0..Long]
  BY Types DEF Providers
<1>2. Long \in Nat
  BY BearerAssumption DEF Long
<1>3. provider[k].age \in 0..Long
  BY <1>1
<1> QED BY <1>2, <1>3

\* A set may always be taken to be older.
LEMMA SinceLonger ==
  ASSUME BearerTypeOK, NEW keys \in SUBSET SigningKeys, NEW age \in Nat, NEW longer \in Nat,
         age <= longer, Since(provider, keys, age)
  PROVE  Since(provider, keys, longer)
<1>1. ASSUME NEW k \in SigningKeys, provider[k].age <= age PROVE provider[k].age <= longer
  BY <1>1, KeyTypes
<1> QED BY <1>1 DEF Since

\* Time makes a key as much older as it makes the sets.
LEMMA KeysAge ==
  ASSUME BearerTypeOK, TimePasses, NEW keys \in SUBSET SigningKeys, NEW age \in Nat,
         Since(provider, keys, age), NEW later \in Nat, later = age + 1 \/ later >= Long
  PROVE  Since(provider', keys, later)
<1>1. ASSUME NEW k \in SigningKeys
      PROVE  /\ provider'[k].is = provider[k].is /\ provider'[k].age \in 0..Long
             /\ provider'[k].age <= provider[k].age + 1
  <2>1. provider'[k] = [provider[k] EXCEPT !.age = Older(provider[k].age)]
    BY DEF TimePasses
  <2>2. provider[k] \in [is : {"unpublished", "published", "taken down"}, age : 0..Long]
    BY Types DEF Providers
  <2> QED BY <2>1, <2>2, OlderIsAge
<1>2. Long \in Nat
  BY BearerAssumption DEF Long
<1>3. ASSUME NEW k \in SigningKeys, provider[k].age <= age PROVE provider'[k].age <= later
  BY <1>1, <1>2, <1>3, KeyTypes
<1> QED BY <1>1, <1>3 DEF Since

LEMMA NothingIsYounger == \A n \in Nat : 0 <= n
OBVIOUS

\* A key that is published or taken down is brand new in its state.
LEMMA KeyBecomes ==
  ASSUME BearerTypeOK, NEW k \in SigningKeys, NEW state \in {"published", "taken down"},
         provider' = [provider EXCEPT ![k] = [is |-> state, age |-> 0]],
         state = "published" => provider[k].is = "unpublished",
         NEW keys \in SUBSET SigningKeys, NEW old \in Nat, Since(provider, keys, old)
  PROVE  Since(provider', keys, old)
<1>1. \A x \in SigningKeys \ {k} : provider'[x] = provider[x]
  BY Types DEF Providers
<1>2. provider'[k].is = state /\ provider'[k].age = 0
  BY Types DEF Providers
<1>3. provider'[k].age <= old
  BY <1>2, NothingIsYounger
<1>4. state = "published" => k \notin keys
  BY DEF Since
<1>5. ASSUME NEW x \in keys
      PROVE  provider'[x].is = "published" \/ (provider'[x].is = "taken down" /\ provider'[x].age <= old)
  <2>1. CASE x = k
    BY <1>2, <1>3, <1>4, <2>1
  <2>2. CASE x # k
    BY <1>1, <1>5, <2>2 DEF Since
  <2> QED BY <2>1, <2>2
<1>6. ASSUME NEW x \in SigningKeys \ keys, provider'[x].is = "published" PROVE provider'[x].age <= old
  <2>1. CASE x = k
    BY <1>3, <2>1
  <2>2. CASE x # k
    BY <1>1, <1>6, <2>2 DEF Since
  <2> QED BY <2>1, <2>2
<1> QED BY <1>5, <1>6 DEF Since

\* What is published now, is.
LEMMA PublishedNow == ASSUME NEW age \in Nat PROVE Since(provider, Published, age)
BY DEF Since, Published

LEMMA PresentedAreSigned == \A t \in Presented : Signed(t)
BY DEF Presented, Signed, Published, NoToken

LEMMA BearerNextInv == ASSUME BearerInv, [BearerNext]_bearerVars PROVE BearerInv'
<1>1. BearerTypeOK /\ BearerTypeOK'
  BY NextTypes DEF BearerInv
<1>2. Timeout \in Nat /\ Long \in Nat /\ Long = CacheMaxAge + Timeout + 1 /\ CacheMaxAge \in Nat
  BY BearerAssumption DEF Long
<1>3. /\ cache \in Caches /\ fetch \in Fetches /\ provider \in Providers
      /\ request \in [Requests -> States]
  BY <1>1, Types
<1>4. /\ cache.keys \in SUBSET SigningKeys /\ fetch.keys \in SUBSET SigningKeys
      /\ cache.age \in 0..Long /\ fetch.age \in 0..Timeout
  BY <1>3 DEF Caches, Fetches
<1>5. fetch.age \in Nat /\ fetch.age <= Timeout /\ cache.age + Timeout \in Nat
  BY <1>2, <1>4
<1>6. /\ Since(provider, cache.keys, cache.age + Timeout)
      /\ fetch.at = "answered" => Since(provider, fetch.keys, fetch.age)
      /\ \A r \in Requests : Waiting(r) => Signed(request[r].token)
  BY DEF BearerInv
<1>7. ASSUME /\ Since(provider', cache'.keys, cache'.age + Timeout)
             /\ fetch'.at = "answered" => Since(provider', fetch'.keys, fetch'.age)
             /\ \A r \in Requests : Waiting(r)' => Signed(request[r].token)'
      PROVE  BearerInv'
  BY <1>1, <1>7 DEF BearerInv
<1>8. ASSUME NEW r \in Requests, NEW to, request' = [request EXCEPT ![r] = to], to.at # "fetch",
             provider' = provider, cache' = cache, fetch' = fetch
      PROVE  BearerInv'
  <2>1. \A x \in Requests : Waiting(x)' => Waiting(x) /\ request'[x] = request[x]
    BY <1>3, <1>8 DEF Waiting
  <2> QED BY <1>6, <1>7, <1>8, <2>1 DEF Signed
<1>9. ASSUME NEW token, NEW code PROVE Rejected(token, code).at = "answered"
  BY DEF Rejected, Answered
<1>10. ASSUME NEW token, NEW keys PROVE Found(token, keys).at # "fetch"
  BY <1>9 DEF Found, Verified, Idle
<1>11. ASSUME NEW r \in Requests,
              Unreadable(r) \/ GetAccount(r) \/ PutAccount(r) \/ handleError(r) \/ Collect(r)
       PROVE  BearerInv'
  <2>1. PICK to : request' = [request EXCEPT ![r] = to] /\ to.at # "fetch"
    BY <1>9, <1>11 DEF Unreadable, GetAccount, PutAccount, handleError, Collect, Answer, Answered, Idle
  <2> QED BY <1>8, <1>11, <2>1 DEF Unreadable, GetAccount, PutAccount, handleError, Collect, Answer
<1>12. ASSUME NEW r \in Requests, NEW token \in Presented, Verify(r, token) PROVE BearerInv'
  <2>1. CASE Usable(token)
    BY <1>8, <1>10, <1>12, <2>1 DEF Verify
  <2>2. CASE ~Usable(token)
    <3>1. \A x \in Requests : Waiting(x)' => Signed(request[x].token)'
      BY <1>3, <1>6, <1>12, <2>2, PresentedAreSigned DEF Verify, Waiting, Signed, Idle
    <3>2. fetch' = fetch \/ fetch'.at = "asked"
      BY <1>12, <2>2 DEF Verify, NoFetch
    <3> QED BY <1>6, <1>7, <1>12, <3>1, <3>2 DEF Verify
  <2> QED BY <2>1, <2>2
<1>13. CASE ProviderAnswers
  <2>1. fetch'.at = "answered" /\ fetch'.keys = Published /\ fetch'.age = fetch.age
    BY <1>3, <1>13 DEF ProviderAnswers, Fetches
  <2>2. Since(provider, Published, fetch.age)
    BY <1>5, PublishedNow
  <2> QED BY <1>6, <1>7, <1>13, <2>1, <2>2 DEF ProviderAnswers, Signed, Waiting
<1>14. CASE KeysArrive
  <2>1. cache'.keys = fetch.keys /\ cache'.age = 0 /\ fetch'.at = "none" /\ provider' = provider
    BY <1>14 DEF KeysArrive, NoFetch
  <2>2. Since(provider, fetch.keys, fetch.age)
    BY <1>6, <1>14 DEF KeysArrive
  <2>3. Since(provider, fetch.keys, Timeout)
    BY <1>1, <1>2, <1>4, <1>5, <2>2, SinceLonger
  <2>4. \A r \in Requests : ~Waiting(r)'
    BY <1>3, <1>10, <1>14 DEF KeysArrive, Waiting
  <2>5. cache'.age + Timeout = Timeout
    BY <1>2, <2>1
  <2> QED BY <1>7, <2>1, <2>3, <2>4, <2>5
<1>15. CASE FetchFails
  <2>1. \A r \in Requests : ~Waiting(r)'
    BY <1>3, <1>9, <1>15 DEF FetchFails, Waiting
  <2> QED BY <1>6, <1>7, <1>15, <2>1 DEF FetchFails, NoFetch
<1>16. ASSUME NEW k \in SigningKeys, Publish(k) \/ TakeDown(k) PROVE BearerInv'
  <2>1. cache' = cache /\ fetch' = fetch /\ request' = request
    BY <1>16 DEF Publish, TakeDown, Becomes
  <2>2. PICK state \in {"published", "taken down"} :
          /\ provider' = [provider EXCEPT ![k] = [is |-> state, age |-> 0]]
          /\ state = "published" => provider[k].is = "unpublished"
    BY <1>16 DEF Publish, TakeDown, Becomes
  <2>3. Since(provider', cache.keys, cache.age + Timeout)
    BY <1>1, <1>4, <1>5, <1>6, <2>2, KeyBecomes
  <2>4. fetch.at = "answered" => Since(provider', fetch.keys, fetch.age)
    BY <1>1, <1>4, <1>5, <1>6, <2>2, KeyBecomes
  <2>5. ASSUME NEW x \in SigningKeys, provider[x].is # "unpublished" PROVE provider'[x].is # "unpublished"
    BY <1>3, <2>5, <2>2 DEF Providers
  <2>6. ASSUME NEW r \in Requests, Waiting(r) PROVE Signed(request[r].token)'
    <3>1. request[r].token.key \in SigningKeys \union {Forged}
      BY <1>1, TokenTypes
    <3> QED BY <1>6, <2>1, <2>5, <2>6, <3>1 DEF Signed
  <2>7. \A r \in Requests : Waiting(r)' => Waiting(r)
    BY <2>1 DEF Waiting
  <2> QED BY <1>7, <2>1, <2>3, <2>4, <2>6, <2>7
<1>17. CASE TimePasses
  <2>1. Since(provider', cache'.keys, cache'.age + Timeout)
    <3>1. cache'.keys = cache.keys /\ cache'.age = Older(cache.age)
      BY <1>3, <1>17 DEF TimePasses, Caches
    <3>2. cache'.age + Timeout \in Nat
      BY <1>2, <1>4, <3>1, OlderIsAge
    <3>3. cache'.age + Timeout = (cache.age + Timeout) + 1 \/ cache'.age + Timeout >= Long
      BY <1>2, <1>4, <3>1 DEF Older
    <3> QED BY <1>1, <1>4, <1>5, <1>6, <1>17, <3>1, <3>2, <3>3, KeysAge
  <2>2. ASSUME fetch'.at = "answered" PROVE Since(provider', fetch'.keys, fetch'.age)
    <3>1. /\ fetch.at = "answered" /\ fetch'.keys = fetch.keys
          /\ fetch'.age = fetch.age + 1
      BY <1>3, <1>17, <2>2 DEF TimePasses, Fetches, NoFetch
    <3>2. fetch'.age \in Nat
      BY <1>5, <3>1
    <3> QED BY <1>1, <1>4, <1>5, <1>6, <1>17, <3>1, <3>2, KeysAge
  <2>3. ASSUME NEW r \in Requests, Waiting(r)' PROVE Signed(request[r].token)'
    <3>1. request[r] \in States /\ request[r].token \in Tokens
      BY <1>3 DEF States
    <3>2. request'[r] = request[r] \/ request'[r] = [request[r] EXCEPT !.token.left = @ - 1]
      BY <1>17 DEF TimePasses
    <3>3. request'[r].at = request[r].at /\ request'[r].token.key = request[r].token.key
      <4>1. [request[r] EXCEPT !.token.left = @ - 1].at = request[r].at
        BY <3>1 DEF States
      <4>2. [request[r] EXCEPT !.token.left = @ - 1].token.key = request[r].token.key
        BY <3>1, ZenonT(60) DEF States, Tokens
      <4> QED BY <3>2, <4>1, <4>2
    <3>4. request[r].token.key \in SigningKeys \union {Forged}
      BY <3>1 DEF Tokens
    <3>5. \A k \in SigningKeys : provider'[k].is = provider[k].is
      BY <1>3, <1>17 DEF TimePasses, Providers
    <3> QED BY <1>6, <2>3, <3>3, <3>4, <3>5 DEF Signed, Waiting
  <2> QED BY <1>7, <2>1, <2>2, <2>3
<1>18. CASE UNCHANGED bearerVars
  BY <1>6, <1>7, <1>18 DEF bearerVars, Signed, Waiting
<1> QED
  BY <1>11, <1>12, <1>13, <1>14, <1>15, <1>16, <1>17, <1>18 DEF BearerNext

-----------------------------------------------------------------------------
(* The theorems.                                                           *)

\* Every variable of the service's key set and its requests keeps its type.
THEOREM BearerTypeCorrect == BearerSpec => []BearerTypeOK
<1>1. BearerInit => BearerTypeOK
  BY InitTypes
<1>2. BearerTypeOK /\ [BearerNext]_bearerVars => BearerTypeOK'
  BY NextTypes
<1> QED BY <1>1, <1>2, PTL DEF BearerSpec

LEMMA BearerInvInvariant == BearerSpec => []BearerInv
<1>1. BearerInit => BearerInv
  BY BearerInitInv
<1>2. BearerInv /\ [BearerNext]_bearerVars => BearerInv'
  BY BearerNextInv
<1> QED BY <1>1, <1>2, PTL DEF BearerSpec

\* Settling a request ends with what its keys found, or with its own fault.
LEMMA FoundSays ==
  ASSUME NEW token, NEW keys
  PROVE  /\ Found(token, keys).error = "invalid_token" =>
              token.key \notin keys \/ token.claims = "unusable"
         /\ Found(token, keys).at = "route" => token.key \in keys
BY DEF Found, Verified, Rejected, Answered, Idle

\* The step that settles a request looks its key up among keys of some age, or
\* says why not.
LEMMA SettledByKeys ==
  ASSUME BearerInv, [BearerNext]_bearerVars, NEW r \in Requests, Settled(r),
         request'[r].error = "invalid_token" \/ request'[r].at = "route"
  PROVE  /\ \E keys \in SUBSET SigningKeys, age \in Nat :
              /\ Since(provider, keys, age) /\ age <= CacheMaxAge + Timeout
              /\ request'[r] = Found(request'[r].token, keys)
              /\ request'[r].token.key \notin keys => age < Cooldown + Timeout
         /\ request'[r].token \in Tokens /\ Signed(request'[r].token)
<1>1. /\ Timeout \in Nat /\ CacheMaxAge \in Nat /\ Cooldown \in Nat /\ 0 < Cooldown
      /\ Long \in Nat /\ Long = CacheMaxAge + Timeout + 1
  BY BearerAssumption DEF Long
<1>2. BearerTypeOK /\ Since(provider, cache.keys, cache.age + Timeout)
  BY DEF BearerInv
<1>3. /\ cache \in Caches /\ fetch \in Fetches /\ request \in [Requests -> States]
  BY <1>2, Types
<1>4. /\ cache.keys \in SUBSET SigningKeys /\ fetch.keys \in SUBSET SigningKeys
      /\ cache.age \in 0..Long /\ fetch.age \in 0..Timeout
  BY <1>3 DEF Caches, Fetches
<1>5. \A token, keys : /\ Found(token, keys).at = "route" => Found(token, keys).token = token
                       /\ Found(token, keys).error = "invalid_token" => Found(token, keys).token = token
  BY DEF Found, Verified, Rejected, Answered, Idle
<1>6. ASSUME NEW token \in Presented, Verify(r, token) PROVE
        /\ \E keys \in SUBSET SigningKeys, age \in Nat :
              /\ Since(provider, keys, age) /\ age <= CacheMaxAge + Timeout
              /\ request'[r] = Found(request'[r].token, keys)
              /\ request'[r].token.key \notin keys => age < Cooldown + Timeout
         /\ request'[r].token \in Tokens /\ Signed(request'[r].token)
  <2>1. Usable(token) /\ request'[r] = Found(token, cache.keys)
    BY <1>3, <1>6 DEF Verify, Settled, Idle
  <2>2. request'[r].token = token
    BY <1>5, <2>1
  <2>3. /\ cache.age + Timeout \in Nat /\ cache.age + Timeout <= CacheMaxAge + Timeout
        /\ token.key \notin cache.keys => cache.age + Timeout < Cooldown + Timeout
    BY <1>1, <1>4, <2>1 DEF Usable, fresh, coolingDown
  <2> QED BY <1>2, <1>4, <2>1, <2>2, <2>3, PresentedAreTokens, PresentedAreSigned
<1>7. CASE KeysArrive
  <2>1. Waiting(r) /\ request'[r] = Found(request[r].token, fetch.keys) /\ fetch.at = "answered"
    BY <1>3, <1>7 DEF KeysArrive, Settled, Waiting
  <2>2. request'[r].token = request[r].token
    BY <1>5, <2>1
  <2>3. Since(provider, fetch.keys, fetch.age) /\ Signed(request[r].token)
    BY <2>1 DEF BearerInv
  <2>4. /\ fetch.age \in Nat /\ fetch.age <= CacheMaxAge + Timeout /\ fetch.age < Cooldown + Timeout
    BY <1>1, <1>4
  <2>5. request[r].token \in Tokens
    BY <1>3 DEF States
  <2> QED BY <1>4, <2>1, <2>2, <2>3, <2>4, <2>5
<1>8. \/ \E token \in Presented : Verify(r, token)
      \/ KeysArrive
  <2>1. ASSUME NEW x \in Requests, Unreadable(x) PROVE FALSE
    <3>1. PICK code \in {"missing_token", "malformed_token"} :
            request' = [request EXCEPT ![x] = Rejected(NoToken, code)]
      BY <2>1 DEF Unreadable
    <3> QED BY <1>3, <3>1 DEF Settled, Rejected, Answered
  <2>2. ASSUME NEW x \in Requests,
               Collect(x) \/ GetAccount(x) \/ PutAccount(x) \/ handleError(x)
        PROVE  FALSE
    BY <1>3, <2>2 DEF Settled, Collect, GetAccount, PutAccount, handleError, Answer, Answered, Idle
  <2>3. ASSUME NEW x \in Requests, NEW token \in Presented, Verify(x, token), x # r PROVE FALSE
    BY <1>3, <2>3 DEF Settled, Verify
  <2>4. ~ProviderAnswers /\ (\A k \in SigningKeys : ~Publish(k) /\ ~TakeDown(k)) /\ ~UNCHANGED bearerVars
    BY DEF Settled, ProviderAnswers, Publish, TakeDown, Becomes, bearerVars
  <2>5. CASE FetchFails
    BY <1>3, <2>5 DEF FetchFails, Settled, Rejected, Answered, Unavailable
  <2>6. CASE TimePasses
    <3>1. request'[r] = request[r] \/ request'[r] = [request[r] EXCEPT !.token.left = @ - 1]
      BY <2>6 DEF TimePasses
    <3>2. request'[r].at = request[r].at
      BY <1>3, <3>1 DEF States
    <3> QED BY <3>2 DEF Settled
  <2> QED BY <2>1, <2>2, <2>3, <2>4, <2>5, <2>6 DEF BearerNext
<1> QED BY <1>6, <1>7, <1>8

\* A client is told to sign in again only for its token's sake.
THEOREM GoodTokensAreNotRefusedAlways == BearerSpec => GoodTokensAreNotRefused
<1>1. ASSUME BearerInv, [BearerNext]_bearerVars, NEW r \in Requests PROVE GoodTokenNotRefused(r)
  <2> SUFFICES ASSUME Settled(r), request'[r].error = "invalid_token"
               PROVE  \/ request'[r].token.key = Forged \/ request'[r].token.claims = "unusable"
                      \/ provider[request'[r].token.key].is = "taken down"
                      \/ provider[request'[r].token.key].age < Cooldown + Timeout
    BY DEF GoodTokenNotRefused
  <2> DEFINE t == request'[r].token
  <2>1. t \in Tokens /\ Signed(t)
    BY <1>1, SettledByKeys
  <2>2. PICK keys \in SUBSET SigningKeys, age \in Nat :
          /\ Since(provider, keys, age)
          /\ request'[r] = Found(t, keys)
          /\ t.key \notin keys => age < Cooldown + Timeout
    BY <1>1, SettledByKeys
  <2>3. t.key \notin keys \/ t.claims = "unusable"
    BY <2>2, FoundSays
  <2>4. ASSUME t.key # Forged, t.key \notin keys, provider[t.key].is # "taken down"
        PROVE  provider[t.key].age < Cooldown + Timeout
    <3>1. t.key \in SigningKeys
      BY <2>1, <2>4 DEF Tokens
    <3>2. provider[t.key].is = "published"
      BY <1>1, <2>1, <2>4, <3>1, Types DEF BearerInv, Signed, Providers
    <3>3. provider[t.key].age <= age
      BY <2>2, <2>4, <3>1, <3>2 DEF Since
    <3>4. provider[t.key].age \in Nat
      BY <1>1, <3>1, KeyTypes DEF BearerInv
    <3>5. Cooldown + Timeout \in Nat
      BY BearerAssumption
    <3>6. age < Cooldown + Timeout
      BY <2>2, <2>4
    <3> QED BY <3>3, <3>4, <3>5, <3>6
  <2> QED BY <2>3, <2>4
<1>2. BearerInv /\ [BearerNext]_bearerVars => [\A r \in Requests : GoodTokenNotRefused(r)]_bearerVars
  BY <1>1
<1> QED BY <1>2, BearerInvInvariant, PTL DEF BearerSpec, GoodTokensAreNotRefused

\* A key that was taken down opens nothing for longer than the times of the
\* cache allow.
THEOREM TakenDownKeysExpireAlways == BearerSpec => TakenDownKeysExpire
<1>1. ASSUME BearerInv, [BearerNext]_bearerVars, NEW r \in Requests PROVE ServedOnLiveKey(r)
  <2> SUFFICES ASSUME Settled(r), request'[r].at = "route"
               PROVE  LET key == request'[r].token.key
                      IN  /\ key # Forged
                          /\ \/ provider[key].is = "published"
                             \/ provider[key].age <= CacheMaxAge + Timeout
    BY DEF ServedOnLiveKey
  <2>1. PICK keys \in SUBSET SigningKeys, age \in Nat :
          /\ Since(provider, keys, age) /\ age <= CacheMaxAge + Timeout
          /\ request'[r] = Found(request'[r].token, keys)
    BY <1>1, SettledByKeys
  <2>2. request'[r].token.key \in keys
    BY <2>1, FoundSays
  <2>3. request'[r].token.key \in SigningKeys /\ request'[r].token.key # Forged
    BY <2>2, BearerAssumption
  <2>4. provider[request'[r].token.key].age \in Nat /\ CacheMaxAge + Timeout \in Nat
    BY <1>1, <2>3, KeyTypes, BearerAssumption DEF BearerInv
  <2>5. \/ provider[request'[r].token.key].is = "published"
        \/ provider[request'[r].token.key].age <= age
    BY <2>1, <2>2 DEF Since
  <2>6. provider[request'[r].token.key].age <= age => provider[request'[r].token.key].age <= CacheMaxAge + Timeout
    BY <2>1, <2>4
  <2> QED BY <2>3, <2>5, <2>6
<1>2. BearerInv /\ [BearerNext]_bearerVars => [\A r \in Requests : ServedOnLiveKey(r)]_bearerVars
  BY <1>1
<1> QED BY <1>2, BearerInvInvariant, PTL DEF BearerSpec, TakenDownKeysExpire
================================================================================
