--------------------------- MODULE MCThrottleBudget ---------------------------
\* Three keys over a map of two windows; k1 has a budget of two, the others of
\* one. The clock ticks twice a second.
EXTENDS ThrottleBudget

CONSTANTS k1, k2, k3

MCAttempts == [k \in Keys |-> IF k = k1 THEN 2 ELSE 1]
==============================================================================
