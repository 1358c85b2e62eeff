------------------------------- MODULE BearerAuth -------------------------------
(***************************************************************************)
(* A bearer token's way through the service: auth-http reads it            *)
(* (authenticate.ts, bearer.ts), auth verifies it (verify.ts, principal.ts)*)
(* with keys that jose fetches from the provider and keeps, and the routes *)
(* of services/api answer, or their error handler.  Requests share the one *)
(* key set and the one fetch of it, while the provider publishes keys and  *)
(* takes them down, and is out of reach at times.                          *)
(***************************************************************************)
EXTENDS Naturals

CONSTANTS Requests, SigningKeys,
          CacheMaxAge,  \* jose: how long a fetched key set is used
          Cooldown,     \* jose: how long after a fetch an unknown key starts no other
          Timeout,      \* jose: how long a fetch may take
          Lifetime,     \* of an access token, with the skew verify.ts allows past its end
          Forged        \* the key of a signature nobody published

ASSUME BearerAssumption ==
  /\ {CacheMaxAge, Cooldown, Timeout, Lifetime} \subseteq Nat
  /\ 0 < Cooldown /\ Cooldown <= CacheMaxAge /\ Forged \notin SigningKeys

\* Nothing asks how long ago a thing was beyond this.
Long == CacheMaxAge + Timeout + 1
Tokens == [key : SigningKeys \union {Forged}, left : 0..Lifetime,
           claims : {"good", "no organization", "unusable"}]

VARIABLES provider,       \* of each key, what the provider does with it, and for how long
          cache,          \* the key set, and how long ago it came
          fetch,          \* the one under way, for how long, and the keys it will bring
          request
bearerVars == <<provider, cache, fetch, request>>

NoFetch == [at |-> "none", age |-> 0, keys |-> {}]
NoToken == [key |-> Forged, left |-> 0, claims |-> "good"]
Idle == [at |-> "idle", token |-> NoToken, status |-> 0, error |-> "none"]

BearerTypeOK ==
  /\ provider \in [SigningKeys -> [is : {"unpublished", "published", "taken down"}, age : 0..Long]]
  /\ cache \in [keys : SUBSET SigningKeys, age : 0..Long]
  /\ fetch \in [at : {"none", "asked", "answered"}, age : 0..Timeout, keys : SUBSET SigningKeys]
  /\ request \in [Requests ->
       [at : {"idle", "fetch", "route", "answered"}, token : Tokens,
        status : {0, 200, 201, 401, 403, 404, 500, 503},
        error : {"none", "missing_token", "malformed_token", "expired_token", "invalid_token",
                 "forbidden", "auth_unavailable", "account_not_found", "unavailable",
                 "internal"}]]

BearerInit ==
  /\ \E first \in SigningKeys :
       provider = [k \in SigningKeys |-> [is |-> IF k = first THEN "published" ELSE "unpublished",
                                   age |-> Long]]
  /\ cache = [keys |-> {}, age |-> Long] /\ fetch = NoFetch
  /\ request = [r \in Requests |-> Idle]

Published == {k \in SigningKeys : provider[k].is = "published"}

-----------------------------------------------------------------------------
(* Verification.                                                           *)

\* responses: an outage is not the token's fault, and is no 401.
responses == [missing_token |-> 401, malformed_token |-> 401, expired_token |-> 401,
              invalid_token |-> 401, forbidden |-> 403, auth_unavailable |-> 503]
Answered(token, status, error) ==
  [at |-> "answered", token |-> token, status |-> status, error |-> error]
Rejected(token, code) == Answered(token, responses[code], code)

\* Once its key is known: codeFor of what jose or toPrincipal found wrong, and
\* then tenantAuth, which asks for an organization.
Verified(token) ==
  IF token.left = 0 THEN Rejected(token, "expired_token")
  ELSE IF token.claims = "unusable" THEN Rejected(token, "invalid_token")
  ELSE IF token.claims = "no organization" THEN Rejected(token, "forbidden")
  ELSE [Idle EXCEPT !.at = "route", !.token = token]
Found(token, keys) == IF token.key \in keys THEN Verified(token) ELSE Rejected(token, "invalid_token")

\* jose: createRemoteJWKSet.
fresh == cache.age < CacheMaxAge
coolingDown == cache.age < Cooldown

\* Wrong on purpose: keys that were fetched once are used until one is missing.
UsableEver(token) == token.key \in cache.keys \/ coolingDown
\* The keys at hand settle the matter.
Usable(token) == fresh /\ (token.key \in cache.keys \/ coolingDown)

-----------------------------------------------------------------------------
(* Requests.                                                               *)

\* readBearerToken: none, or another scheme; two, or no token at all.
Unreadable(r) ==
  /\ request[r].at = "idle"
  /\ \E code \in {"missing_token", "malformed_token"} :
       request' = [request EXCEPT ![r] = Rejected(NoToken, code)]
  /\ UNCHANGED <<provider, cache, fetch>>

\* With the keys at hand, or with those of the fetch under way, or of its own.
Verify(r, token) ==
  /\ request[r].at = "idle"
  /\ IF Usable(token)
     THEN request' = [request EXCEPT ![r] = Found(token, cache.keys)] /\ UNCHANGED fetch
     ELSE /\ request' = [request EXCEPT ![r] = [Idle EXCEPT !.at = "fetch", !.token = token]]
          /\ fetch' = IF fetch = NoFetch THEN [NoFetch EXCEPT !.at = "asked"] ELSE fetch
  /\ UNCHANGED <<provider, cache>>

\* The provider answers the fetch, and its answer arrives.
ProviderAnswers ==
  /\ fetch.at = "asked"
  /\ fetch' = [fetch EXCEPT !.at = "answered", !.keys = Published]
  /\ UNCHANGED <<provider, cache, request>>

Waiting(r) == request[r].at = "fetch"
KeysArrive ==
  /\ fetch.at = "answered"
  /\ cache' = [keys |-> fetch.keys, age |-> 0]
  /\ fetch' = NoFetch
  /\ request' = [r \in Requests |->
                   IF Waiting(r) THEN Found(request[r].token, fetch.keys) ELSE request[r]]
  /\ UNCHANGED provider

\* Wrong on purpose: a fetch that failed is a key that was not found.
FetchFailure == "invalid_token"
\* translate: no answer in time, an error status, no key set, no connection.
Unavailable == "auth_unavailable"
FetchFails ==
  /\ fetch # NoFetch
  /\ fetch' = NoFetch
  /\ request' = [r \in Requests |-> IF Waiting(r) THEN Rejected(request[r].token, Unavailable)
                   ELSE request[r]]
  /\ UNCHANGED <<provider, cache>>

\* The route runs its transaction: there is an account or none, it fails as
\* errors.ts tells apart.
Answer(r, status, error) ==
  /\ request[r].at = "route"
  /\ request' = [request EXCEPT ![r] = Answered(NoToken, status, error)]
  /\ UNCHANGED <<provider, cache, fetch>>
GetAccount(r) == Answer(r, 200, "none") \/ Answer(r, 404, "account_not_found")
PutAccount(r) == Answer(r, 201, "none") \/ Answer(r, 200, "none")
handleError(r) == Answer(r, 503, "unavailable") \/ Answer(r, 500, "internal")

\* The client has its answer.
Collect(r) ==
  /\ request[r].at = "answered"
  /\ request' = [request EXCEPT ![r] = Idle]
  /\ UNCHANGED <<provider, cache, fetch>>

-----------------------------------------------------------------------------
(* The provider, and time.                                                 *)

Becomes(k, is) ==
  /\ provider' = [provider EXCEPT ![k] = [is |-> is, age |-> 0]]
  /\ UNCHANGED <<cache, fetch, request>>
Publish(k) == provider[k].is = "unpublished" /\ Becomes(k, "published")
\* It keeps one, to sign with.
TakeDown(k) == k \in Published /\ Published # {k} /\ Becomes(k, "taken down")

Older(age) == IF age < Long THEN age + 1 ELSE Long
\* A fetch ends before its time is over, and a client collects its answer at once.
TimePasses ==
  /\ fetch # NoFetch => fetch.age < Timeout
  /\ \A r \in Requests : request[r].at # "answered"
  /\ provider' = [k \in SigningKeys |-> [provider[k] EXCEPT !.age = Older(@)]]
  /\ cache' = [cache EXCEPT !.age = Older(@)]
  /\ fetch' = IF fetch = NoFetch THEN NoFetch ELSE [fetch EXCEPT !.age = @ + 1]
  /\ request' = [r \in Requests |->
                   IF Waiting(r) /\ request[r].token.left > 0 THEN [request[r] EXCEPT !.token.left = @ - 1]
                   ELSE request[r]]

\* Tokens signed with a key there was, and a forged one.
Presented ==
  {t \in Tokens : \/ t.key # Forged /\ provider[t.key].is # "unpublished" /\ t.claims = "good"
                  \/ t.key \in Published /\ t.left = Lifetime
                  \/ t = [NoToken EXCEPT !.left = Lifetime]}

BearerNext ==
  \/ \E r \in Requests :
       \/ Unreadable(r) \/ Collect(r)
       \/ GetAccount(r) \/ PutAccount(r) \/ handleError(r)
       \/ request[r].at = "idle" /\ \E token \in Presented : Verify(r, token)
  \/ ProviderAnswers \/ KeysArrive \/ FetchFails
  \/ (\E k \in SigningKeys : Publish(k) \/ TakeDown(k))
  \/ TimePasses

BearerSpec == BearerInit /\ [][BearerNext]_bearerVars

-----------------------------------------------------------------------------
(* Properties.                                                             *)

Settled(r) == request[r].at \in {"idle", "fetch"} /\ request'[r].at \in {"route", "answered"}

GoodTokenNotRefused(r) ==
  Settled(r) /\ request'[r].error = "invalid_token" =>
    LET t == request'[r].token
    IN  \/ t.key = Forged \/ t.claims = "unusable"
        \/ provider[t.key].is = "taken down" \/ provider[t.key].age < Cooldown + Timeout
ServedOnLiveKey(r) ==
  Settled(r) /\ request'[r].at = "route" =>
    LET key == request'[r].token.key
    IN  key # Forged /\ (provider[key].is = "published" \/ provider[key].age <= CacheMaxAge + Timeout)

\* A client is told to sign in again (401) only for its token's sake.  One with
\* time left whose key the provider shows, and has shown for a cooldown and a
\* fetch, is served, or told to come back: whatever was fetched when, whoever
\* else waits for the fetch, and while the provider is out of reach.
GoodTokensAreNotRefused == [][\A r \in Requests : GoodTokenNotRefused(r)]_bearerVars

\* A key that was taken down opens nothing for longer than a fetched set is used
\* and a fetch takes.
TakenDownKeysExpire == [][\A r \in Requests : ServedOnLiveKey(r)]_bearerVars
=============================================================================
