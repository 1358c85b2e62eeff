----------------------------- MODULE MCEmailSignIn -----------------------------
\* Two questions of small instances, a behaviour being about one of them.
\* "people": two browsers and two people at one instant, with every mishap and a
\* budget of one.  "codes": one browser and one person while the clock moves, a
\* second code replaces the first, and calls to the provider are late.
EXTENDS EmailSignIn, TLC

CONSTANTS r1, r2, laptop, phone, ann, bob

VARIABLE about

MCLimits == [step \in EmailSteps |-> [by \in {"client", "address"} |->
               IF step = "email-start" THEN 1 ELSE IF by = "client" THEN 3 ELSE 2]]
Symmetry == Permutations(Requests) \union Permutations(Browsers) \union Permutations(Users)

TwoPeople ==
  /\ at' = 0
  /\ \A k \in Keys : spent'[k] <= 1

\* An answer is delivered as soon as it is there, and none is a failure.
Collected(r) == request[r].phase = "answered" /\ request'[r].phase = "idle"
OnePerson ==
  /\ \E b \in Browsers, u \in Users :
       /\ \A k \in Keys : resetsAt'[k] = 0 \/ k.who \in {b, u}
       /\ \A r \in Requests : request'[r].from \in {b, None} /\ request'[r].address \in {u, None}
  /\ lapsed' = {}
  /\ \A r \in Requests : request'[r].reply # "failed" /\ (Collected(r) => Deliver(r))

MCInit == Init /\ about \in {"people", "codes"}
MCNext ==
  /\ Next
  /\ (about = "people" /\ TwoPeople) \/ (about = "codes" /\ OnePerson)
  /\ UNCHANGED about
MCSpec == MCInit /\ [][MCNext]_<<vars, about>>
==============================================================================
