------------------------------- MODULE MCSignIn -------------------------------
\* Two tabs of ann's browser, and one of a browser she shares with bob, who was
\* invited to a team.
EXTENDS SignIn, TLC

CONSTANTS h1, h2, w1, w2, ann, bob, laptop, shared, tab1, tab2, tab3

MCBrowserOf == [a \in Attempts |-> IF a = tab3 THEN shared ELSE laptop]
MCAccountsOf == [b \in Browsers |-> IF b = shared THEN {ann, bob} ELSE {ann}]
Symmetry == Permutations(Handlers) \union Permutations(Workspaces)
==============================================================================
