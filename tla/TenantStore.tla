----------------------------- MODULE TenantStore -----------------------------
(***************************************************************************)
(* What the database boundary promises the code above it: one store of     *)
(* identity rows, read and grown by one indivisible step per request,      *)
(* whatever connections, transactions and processes do underneath.         *)
(* ScopedTransaction is shown to implement it.                             *)
(***************************************************************************)
EXTENDS IdentityRows

VARIABLES rows,     \* the committed rows
          answer    \* what each request was told
vars == <<rows, answer>>

Init == rows = {} /\ answer = [r \in Requests |-> Pending]

\* A request takes effect and is answered. The workspace reads back exactly
\* its own rows; a provision says whether it created the account; a read sees
\* its organization's account if that was there in time.
Serve(r) ==
  /\ answer[r] = Pending
  /\ rows' = rows \union Writes(r)
  /\ \E saw \in SUBSET (OwnAccount(r) \union Writes(r)) :
       /\ saw \subseteq rows'
       /\ KindOf[r] # "read" => saw = Writes(r)
       /\ answer' = [answer EXCEPT ![r] =
            [status |-> "ok", saw |-> saw,
             created |-> KindOf[r] = "provision" /\ Account(OrgOf[r]) \notin rows]]

\* Requests fail, together when their process ends. Those whose COMMIT was on
\* its way may have taken effect all the same.
Fail(R, applied) ==
  /\ \A r \in R : answer[r] = Pending
  /\ rows' = rows \union UNION {Writes(r) : r \in applied}
  /\ answer' = [r \in Requests |-> IF r \in R THEN Failed ELSE answer[r]]

Next == \/ \E r \in Requests : Serve(r)
        \/ \E R \in SUBSET Requests : \E applied \in SUBSET R : Fail(R, applied)

Spec == Init /\ [][Next]_vars

TypeOK == rows \subseteq Rows /\ answer \in [Requests -> Answers]

\* However many people of an organization arrive at once, at most one PUT is
\* answered 201: the account is created once.
CreatedOnce ==
  \A r, q \in Requests :
    answer[r].created /\ answer[q].created /\ OrgOf[r] = OrgOf[q] => r = q

\* What a request was shown was its own, and it is there for good: an answer
\* never rests on a row a rollback took away.
ShownIsOwnAndKept == \A r \in Requests : answer[r].saw \subseteq Own(r) \intersect rows
==============================================================================
