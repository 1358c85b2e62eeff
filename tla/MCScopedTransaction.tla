------------------------- MODULE MCScopedTransaction --------------------------
\* Callers of two organizations, x and y, and of none: ann's tab opens x's
\* workspace, solo has no organization; put1 and put2 provision x, get3 reads y.
EXTENDS ScopedTransaction

CONSTANTS tab1, put1, put2, get3, solo, ann, bob, x, y

MCUserOf == [r \in Requests |-> IF r \in {tab1, put1} THEN ann ELSE bob]
MCOrgOf  == [r \in Requests |-> CASE r = solo -> NoOrg
                                 [] r = get3 -> y
                                 [] OTHER    -> x]
MCKindOf == [r \in Requests |-> CASE r \in {tab1, solo} -> "workspace"
                                 [] r \in {put1, put2} -> "provision"
                                 [] OTHER              -> "read"]
==============================================================================
