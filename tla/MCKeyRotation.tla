---------------------------- MODULE MCKeyRotation ----------------------------
\* Keys change while they are in use: the passwords that seal cookies, with two
\* instances, a browser whose response is on its way, and two rotations that
\* overlap; and the provider's keys that sign tokens, with two requests and one
\* key that replaces the other.  A behaviour is about one of the two.
EXTENDS KeyRotation, BearerAuth, TLC

VARIABLE about

\* What a behaviour is not about stays as it was at the start.
MCInit == Init /\ BearerInit /\ about \in {"cookies", "tokens"}
MCNext ==
  /\ UNCHANGED about
  /\ \/ about = "cookies" /\ Next /\ UNCHANGED bearerVars
     \/ about = "tokens" /\ BearerNext /\ UNCHANGED vars
MCSpec == MCInit /\ [][MCNext]_<<about, vars, bearerVars>>

Symmetry == Permutations(Requests) \union Permutations(SigningKeys)
==============================================================================
