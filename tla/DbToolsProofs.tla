------------------------------ MODULE DbToolsProofs ------------------------------
(***************************************************************************)
(* The database tools. What rls-verify says is so, whatever the database   *)
(* holds, wherever its connections lead and whichever statement fails, and *)
(* it leaves the database it was given as it was. Tasks that share a       *)
(* scratch container, kill each other's processes and lose its name to     *)
(* others, keep the databases they use, and a person's. A drizzle-check    *)
(* passes only on migrations that were current while it ran.               *)
(***************************************************************************)
EXTENDS RlsVerify, PostgresContainer, DbCommands, TLAPS

RunSteps == {"start", "admin", "create", "setup", "files", "verify", "role", "claims-check",
          "check 1", "check 2", "check 3", "check 4", "empty", "drop", "exit", "done"}
Sessions == [on : {"original", "scratch"}, claims : {"unset", "blank"}]

RunTypes ==
  /\ at \in RunSteps /\ mode \in {"read-only", "disposable", "script"}
  /\ session \in Sessions /\ failures \in Nat /\ failure \in BOOLEAN
  /\ at = "start" => failures = 0 /\ ~failure /\ scratch = "none" /\ mode = "read-only"
  /\ at # "done" => exitCode = Running

-----------------------------------------------------------------------------
(* Nothing is written where it should not be.                              *)

\* Files are applied only where the scratch database is, and the script, whose
\* connection may write, has none but a scratch database's.
Writers ==
  /\ at = "files" => session.on = "scratch"
  /\ mode = "script" /\ at # "start" =>
       /\ at \in {"claims-check", "check 1", "check 2", "check 3", "check 4", "exit", "done"}
       /\ session.on = "scratch"

WriteInv == RunTypes /\ Writers /\ OriginalNeverWritten

LEMMA InitTypes == ASSUME Init PROVE RunTypes
BY DEF Init, RunTypes, RunSteps, Sessions

LEMMA TypesStep == ASSUME RunTypes, [Next]_vars PROVE RunTypes'
<1>1. CASE StopEarly
  BY <1>1 DEF StopEarly, RunTypes, RunSteps, asked, verdict
<1>2. ASSUME NEW m \in {"read-only", "disposable", "script"}, NEW r \in Roles,
             NEW content \in Contents, NEW lost \in BOOLEAN, Begin(m, r, content, lost)
      PROVE  RunTypes'
  <2>1. session' \in Sessions
    BY <1>2 DEF Begin, RunTypes, Sessions
  <2>2. at' \in {"verify", "admin", "claims-check"} /\ mode' = m
    BY <1>2 DEF Begin
  <2>3. failures' = failures /\ failure' = failure /\ exitCode' = exitCode /\ at = "start"
    BY <1>2 DEF Begin, verdict
  <2>4. exitCode = Running
    BY <2>3 DEF RunTypes
  <2> QED BY <2>1, <2>2, <2>3, <2>4 DEF RunTypes, RunSteps
<1>3. ASSUME Throw, at \notin {"start", "done"} PROVE RunTypes'
  <2>1. at' \in {"drop", "exit"} /\ failure' = TRUE
    BY <1>3 DEF Throw
  <2>2. mode' = mode /\ session' = session /\ failures' = failures /\ exitCode' = exitCode
    BY <1>3 DEF Throw, asked
  <2> QED BY <1>3, <2>1, <2>2 DEF RunTypes, RunSteps
<1>4. CASE Fails
  BY <1>3, <1>4 DEF Fails
<1>5. CASE ConnectAdmin
  BY <1>5 DEF ConnectAdmin, RunTypes, RunSteps, asked, verdict
<1>6. CASE Create
  BY <1>3, <1>6 DEF Create, RunTypes, RunSteps, asked, verdict
<1>7. NewSession("scratch") \in Sessions /\ NewSession("original") \in Sessions
  BY DEF NewSession, Sessions
<1>8. CASE ConnectSetup
  BY <1>3, <1>7, <1>8 DEF ConnectSetup, RunTypes, RunSteps, asked, verdict
<1>9. CASE RunFile
  BY <1>9 DEF RunFile, RunTypes, RunSteps, asked, verdict
<1>10. CASE ConnectVerify
  BY <1>7, <1>10 DEF ConnectVerify, RunTypes, RunSteps, asked, verdict
<1>11. CASE LookUpRole
  BY <1>3, <1>11 DEF LookUpRole, RunTypes, RunSteps, asked, verdict
<1>12. CASE Check
  <2>1. PICK outcome \in rlsChecks(at) :
          IF outcome = "error" THEN Throw
          ELSE /\ failures' = failures + (IF outcome = "failed" THEN 1 ELSE 0)
               /\ at' = After(at)
               /\ session' = [session EXCEPT !.claims = ClaimsAt(at)]
               /\ UNCHANGED <<asked, applied, failure, exitCode>>
    BY <1>12 DEF Check
  <2>2. CASE outcome = "error"
    BY <1>3, <1>12, <2>1, <2>2 DEF Check
  <2>3. CASE outcome # "error"
    <3>1. ClaimsAt(at) \in {"unset", "blank"}
      BY DEF ClaimsAt, RunTypes, Sessions
    <3>2. session' \in Sessions
      BY <2>1, <2>3, <3>1 DEF RunTypes, Sessions
    <3>3. After(at) \in RunSteps \ {"start"}
      BY <1>12 DEF Check, After, RunSteps
    <3>4. failures' \in Nat
      <4>1. CASE outcome = "failed"
        BY <2>1, <2>3, <4>1 DEF RunTypes
      <4>2. CASE outcome # "failed"
        BY <2>1, <2>3, <4>2 DEF RunTypes
      <4> QED BY <4>1, <4>2
    <3>5. mode' = mode /\ failure' = failure /\ exitCode' = exitCode /\ at' = After(at)
      BY <2>1, <2>3 DEF asked
    <3>6. at # "done"
      BY <1>12 DEF Check
    <3>7. at' # "start" /\ at' \in RunSteps
      BY <3>3, <3>5
    <3> QED BY <3>2, <3>4, <3>5, <3>6, <3>7 DEF RunTypes
  <2> QED BY <2>2, <2>3
<1>13. CASE CheckRepository
  <2>1. session' \in Sessions
    BY <1>13 DEF CheckRepository, RunTypes, Sessions
  <2>2. failures' = (IF SeesOwnOnly(subject["accounts"]) THEN 0 ELSE 1)
                  + (IF SeesOwnOnly(subject["profiles"]) THEN 0 ELSE 1)
                  + (IF RefusesForeign(subject["accounts"]) THEN 0 ELSE 1)
    BY <1>13 DEF CheckRepository
  <2>3. failures' \in Nat
    BY <2>2
  <2> QED BY <1>13, <2>1, <2>3 DEF CheckRepository, RunTypes, RunSteps, asked
<1>14. CASE NoteEmptyTables
  BY <1>14 DEF NoteEmptyTables, RunTypes, RunSteps, asked, verdict
<1>15. CASE Drop
  BY <1>15 DEF Drop, RunTypes, RunSteps, asked
<1>16. CASE Exit
  BY <1>16 DEF Exit, RunTypes, RunSteps, asked, verdict
<1>17. CASE UNCHANGED vars
  BY <1>17 DEF vars, RunTypes, asked, verdict
<1> QED
  BY <1>1, <1>2, <1>4, <1>5, <1>6, <1>8, <1>9, <1>10, <1>11, <1>12, <1>13, <1>14, <1>15,
     <1>16, <1>17 DEF Next

\* What a step does to the three things WriteInv is about, apart from checks.
LEMMA ThrowKeepsWriters ==
  ASSUME WriteInv, Throw, at \notin {"start", "done"}
  PROVE  WriteInv'
<1>1. at' \in {"drop", "exit"} /\ (mode = "script" => at' = "exit")
  BY DEF Throw
<1>2. mode' = mode /\ session' = session /\ dirty' = dirty
  BY DEF Throw, asked
<1>3. RunTypes'
  BY <1>1, <1>2 DEF Throw, WriteInv, RunTypes, RunSteps
<1> QED BY <1>1, <1>2, <1>3 DEF WriteInv, Writers, OriginalNeverWritten

LEMMA WriteInvStep == ASSUME WriteInv, [Next]_vars PROVE WriteInv'
<1>1. RunTypes'
  BY TypesStep DEF WriteInv
<1>2. CASE StopEarly
  <2>1. mode = "read-only"
    BY <1>2 DEF StopEarly, WriteInv, RunTypes
  <2> QED BY <1>1, <1>2, <2>1 DEF StopEarly, WriteInv, Writers, OriginalNeverWritten, asked
<1>3. ASSUME NEW m \in {"read-only", "disposable", "script"}, NEW r \in Roles,
             NEW content \in Contents, NEW lost \in BOOLEAN, Begin(m, r, content, lost)
      PROVE  WriteInv'
  <2>1. at' = IF m = "read-only" THEN "verify" ELSE IF m = "disposable" THEN "admin" ELSE "claims-check"
    BY <1>3 DEF Begin
  <2>2. session' = [session EXCEPT !.on = IF m = "script" THEN "scratch" ELSE @]
    BY <1>3 DEF Begin
  <2>3. m = "script" => session'.on = "scratch"
    BY <2>2 DEF WriteInv, RunTypes, Sessions
  <2>4. mode' = m /\ dirty' = dirty
    BY <1>3 DEF Begin
  <2> QED BY <1>1, <2>1, <2>3, <2>4 DEF WriteInv, Writers, OriginalNeverWritten
<1>4. CASE Fails
  BY <1>4, ThrowKeepsWriters DEF Fails
<1>5. CASE ConnectAdmin
  BY <1>1, <1>5 DEF ConnectAdmin, WriteInv, Writers, OriginalNeverWritten, asked
<1>6. CASE Create
  <2>1. CASE Throw
    BY <1>6, <2>1, ThrowKeepsWriters DEF Create
  <2>2. CASE ~Throw
    <3>1. PICK restored \in BOOLEAN :
            /\ at' = IF restored THEN "setup" ELSE "drop"
            /\ mode' = mode /\ session' = session /\ dirty' = dirty
      BY <1>6, <2>2 DEF Create, asked
    <3>2. at = "create"
      BY <1>6 DEF Create
    <3> QED BY <1>1, <3>1, <3>2 DEF WriteInv, Writers, OriginalNeverWritten
  <2> QED BY <2>1, <2>2
<1>7. CASE ConnectSetup
  <2>1. CASE ReachedScratch
    BY <1>1, <1>7, <2>1 DEF ConnectSetup, ReachedScratch, WriteInv, Writers,
       OriginalNeverWritten, asked
  <2>2. CASE ~ReachedScratch
    BY <1>7, <2>2, ThrowKeepsWriters DEF ConnectSetup
  <2> QED BY <2>1, <2>2
<1>8. CASE RunFile
  BY <1>1, <1>8 DEF RunFile, WriteInv, Writers, OriginalNeverWritten, asked
<1>9. CASE ConnectVerify
  BY <1>1, <1>9 DEF ConnectVerify, WriteInv, Writers, OriginalNeverWritten, asked
<1>10. CASE LookUpRole
  <2>1. CASE role \in {"absent", "unsettable"}
    BY <1>10, <2>1, ThrowKeepsWriters DEF LookUpRole
  <2>2. CASE role \notin {"absent", "unsettable"}
    BY <1>1, <1>10, <2>2 DEF LookUpRole, WriteInv, Writers, OriginalNeverWritten, asked
  <2> QED BY <2>1, <2>2
<1>11. CASE Check
  <2>1. PICK outcome \in rlsChecks(at) :
          IF outcome = "error" THEN Throw
          ELSE /\ failures' = failures + (IF outcome = "failed" THEN 1 ELSE 0)
               /\ at' = After(at)
               /\ session' = [session EXCEPT !.claims = ClaimsAt(at)]
               /\ dirty' = (dirty \/ (/\ session.on = "original"
                                      /\ at \in {"check 3", "check 4"}
                                      /\ \E n \in DOMAIN subject : Writes(subject[n])))
               /\ UNCHANGED <<asked, applied, failure, exitCode>>
    BY <1>11 DEF Check
  <2>2. CASE outcome = "error"
    BY <1>11, <2>1, <2>2, ThrowKeepsWriters DEF Check
  <2>3. CASE outcome # "error"
    \* Only the script's connection may write, and it is a scratch database's.
    <3>1. mode # "script" => \A n \in DOMAIN subject : ~Writes(subject[n])
      BY DEF Writes, ReadOnly
    <3>2. mode = "script" => session.on = "scratch"
      BY <1>11 DEF Check, WriteInv, Writers
    <3>3. ~(session.on = "original" /\ \E n \in DOMAIN subject : Writes(subject[n]))
      BY <3>1, <3>2
    <3>4. ~dirty'
      BY <2>1, <2>3, <3>3 DEF WriteInv, OriginalNeverWritten
    <3>5. session'.on = session.on /\ mode' = mode
      BY <2>1, <2>3 DEF WriteInv, RunTypes, Sessions, asked
    <3>6. at' # "files" /\ (mode = "script" => at' \in {"check 2", "check 3", "check 4", "exit"})
      BY <1>11, <2>1, <2>3 DEF Check, After
    <3> QED BY <1>1, <3>2, <3>4, <3>5, <3>6 DEF WriteInv, Writers, OriginalNeverWritten
  <2> QED BY <2>2, <2>3
<1>12. CASE CheckRepository
  <2>1. session' = [session EXCEPT !.claims = "blank"] /\ at' = "check 1"
    BY <1>12 DEF CheckRepository
  <2>2. mode' = mode /\ dirty' = dirty
    BY <1>12 DEF CheckRepository, asked
  <2>3. session'.on = session.on
    BY <2>1 DEF WriteInv, RunTypes, Sessions
  <2>4. mode = "script" => session.on = "scratch"
    BY <1>12 DEF CheckRepository, WriteInv, Writers
  <2> QED BY <1>1, <2>1, <2>2, <2>3, <2>4 DEF WriteInv, Writers, OriginalNeverWritten
<1>13. CASE NoteEmptyTables
  BY <1>1, <1>13 DEF NoteEmptyTables, WriteInv, Writers, OriginalNeverWritten, asked
<1>14. CASE Drop
  BY <1>1, <1>14 DEF Drop, WriteInv, Writers, OriginalNeverWritten, asked
<1>15. CASE Exit
  BY <1>1, <1>15 DEF Exit, WriteInv, Writers, OriginalNeverWritten, asked
<1>16. CASE UNCHANGED vars
  BY <1>1, <1>16 DEF vars, asked, WriteInv, Writers, OriginalNeverWritten
<1> QED
  BY <1>2, <1>3, <1>4, <1>5, <1>6, <1>7, <1>8, <1>9, <1>10, <1>11, <1>12, <1>13, <1>14,
     <1>15, <1>16 DEF Next

\* The database in the URL is never written by rls-verify (cli.ts): neither by
\* the files of a disposable run whose connections are all led to it, nor by a
\* policy of its own that writes when a check reads it.
THEOREM OriginalNeverWrittenAlways == Spec => []OriginalNeverWritten
<1>1. Init => WriteInv
  <2>1. Init => RunTypes
    BY InitTypes
  <2> QED BY <2>1 DEF Init, WriteInv, Writers, OriginalNeverWritten
<1>2. WriteInv /\ [Next]_vars => WriteInv'
  BY WriteInvStep
<1>3. WriteInv => OriginalNeverWritten
  BY DEF WriteInv
<1> QED BY <1>1, <1>2, <1>3, PTL DEF Spec

-----------------------------------------------------------------------------
(* The exit code says what is so.                                          *)

\* What each check that finds nothing wrong has shown.
Shown0 ==
  mode = "script" =>
    RefusesForeign(subject["accounts"]) /\ \A n \in {"accounts", "profiles"} : SeesOwnOnly(subject[n])
Shown2 == DOMAIN subject # {} /\ \A n \in DOMAIN subject : subject[n].enabled /\ subject[n].forced
ReadsNothing(claims) ==
  \A n \in DOMAIN subject : subject[n].readable => Select(subject[n], claims) = "none"

Ended == at \in {"drop", "exit"} /\ ~failure
\* As long as no check has failed, each of those that were made has shown its part.
Made ==
  failures = 0 =>
    /\ at \in {"check 1", "check 2", "check 3", "check 4", "empty"} \/ Ended => Shown0
    /\ at \in {"check 2", "check 3", "check 4", "empty"} \/ Ended => role = "plain"
    /\ at \in {"check 3", "check 4", "empty"} \/ Ended => Shown2
    /\ (at \in {"check 4", "empty"} \/ Ended) /\ mode # "script" => ReadsNothing("unset")
    /\ at = "empty" \/ Ended => ReadsNothing("blank")
\* A check that failed had something to show.
Justified == failures > 0 /\ mode # "script" => ~Protected({"unset", "blank"})
\* The claims left on the connection, until the last check.
Left ==
  /\ at \in {"role", "check 1", "check 2", "check 3"} /\ mode # "script" => session.claims = "unset"
  /\ at = "check 3" /\ mode = "script" => session.claims = "blank"
  /\ at \in {"check 1", "check 2"} /\ mode = "script" => session.claims = "blank"
  /\ at = "claims-check" => mode = "script"

VerdictInv ==
  /\ WriteInv /\ (at = "start" => subject = Nothing)
  /\ Made /\ Justified /\ Left /\ VerdictIsTrue

LEMMA ProtectedShown ==
  ASSUME NEW settings
  PROVE  Protected(settings) <=>
           role = "plain" /\ Shown2 /\ \A claims \in settings : ReadsNothing(claims)
BY DEF Protected, Shown2, ReadsNothing

LEMMA ProtectedUnderBoth ==
  Protected({"unset", "blank"}) <=>
    role = "plain" /\ Shown2 /\ ReadsNothing("unset") /\ ReadsNothing("blank")
BY ProtectedShown

\* RunCheck's two sides: "ok" only if every table answered "none", "failed" only
\* if one did not.
LEMMA RowsAnswer ==
  ASSUME NEW claims, NEW outcome \in RowsWithoutClaims(claims)
  PROVE  /\ outcome = "ok" => ReadsNothing(claims)
         /\ outcome = "failed" => ~ReadsNothing(claims)
         /\ outcome \in {"ok", "failed", "error"}
<1> DEFINE read == {x \in DOMAIN subject : subject[x].readable}
           answers == {Select(subject[n], claims) : n \in read}
           errors == answers \ {"none", "rows"}
<1>1. outcome \in RunCheck(answers)
  BY DEF RowsWithoutClaims
<1>2. ReadsNothing(claims) <=> \A a \in answers : a = "none"
  BY DEF ReadsNothing
<1>3. CASE errors = {}
  <2>1. outcome = IF "rows" \in answers THEN "failed" ELSE "ok"
    BY <1>1, <1>3 DEF RunCheck
  <2> QED BY <1>2, <1>3, <2>1
<1>4. CASE errors # {}
  <2>1. PICK e \in errors \ {"waits"} : outcome = IF e \in Observed THEN "failed" ELSE "error"
    BY <1>1, <1>4 DEF RunCheck
  <2>2. ~ReadsNothing(claims)
    BY <1>2, <2>1
  <2> QED BY <2>1, <2>2
<1> QED BY <1>3, <1>4

\* The run asks the same question throughout.
LEMMA SameQuestion ==
  ASSUME UNCHANGED asked
  PROVE  /\ Shown0' = Shown0 /\ Shown2' = Shown2
         /\ \A settings : Protected(settings)' = Protected(settings)
         /\ role' = role /\ mode' = mode /\ subject' = subject
         /\ \A claims : ReadsNothing(claims)' = ReadsNothing(claims)
<1>1. role' = role /\ mode' = mode /\ subject' = subject
  BY DEF asked
<1>2. Shown0' = Shown0 /\ Shown2' = Shown2
  BY <1>1 DEF Shown0, Shown2, SeesOwnOnly, RefusesForeign, Exempt
<1>3. /\ \A settings : Protected(settings)' = Protected(settings)
      /\ \A claims : ReadsNothing(claims)' = ReadsNothing(claims)
  BY <1>1 DEF Protected, ReadsNothing, Select, Exempt, ReadOnly
<1> QED BY <1>1, <1>2, <1>3

LEMMA NoVerdictYet == ASSUME exitCode' = Running PROVE VerdictIsTrue'
<1>1. exitCode' # exitCodes.passed /\ exitCode' # exitCodes.failed
  BY DEF exitCodes, Running
<1> QED BY <1>1, Zenon DEF VerdictIsTrue

\* RunSteps that make no check and reach no verdict.
LEMMA QuietStep ==
  ASSUME VerdictInv, WriteInv', UNCHANGED <<asked, failures, exitCode>>, at \notin {"start", "done"},
         \/ at' \in {"create", "setup", "files", "verify"}
         \/ at' \in {"drop", "exit"} /\ failure'
  PROVE  VerdictInv'
<1>1. exitCode = Running
  BY DEF VerdictInv, WriteInv, RunTypes
<1>2. VerdictIsTrue'
  BY <1>1, NoVerdictYet
<1>3. Justified'
  BY SameQuestion DEF VerdictInv, Justified
<1>4. Made' /\ Left'
  BY DEF Made, Left, Ended
<1> QED BY <1>2, <1>3, <1>4 DEF VerdictInv

LEMMA ThrowKeepsVerdict ==
  ASSUME VerdictInv, WriteInv', Throw, at \notin {"start", "done"}
  PROVE  VerdictInv'
<1>1. at' \in {"drop", "exit"} /\ failure' /\ UNCHANGED <<asked, failures, exitCode>>
  BY DEF Throw
<1> QED BY <1>1, QuietStep

LEMMA CheckKeepsVerdict ==
  ASSUME VerdictInv, WriteInv', Check
  PROVE  VerdictInv'
<1>1. at \in {"check 1", "check 2", "check 3", "check 4"} /\ exitCode = Running
  BY DEF Check, VerdictInv, WriteInv, RunTypes
<1>2. PICK outcome \in rlsChecks(at) :
        IF outcome = "error" THEN Throw
        ELSE /\ failures' = failures + (IF outcome = "failed" THEN 1 ELSE 0)
             /\ at' = After(at)
             /\ session' = [session EXCEPT !.claims = ClaimsAt(at)]
             /\ UNCHANGED <<asked, applied, failure, exitCode>>
  BY DEF Check
<1>3. CASE outcome = "error"
  BY <1>1, <1>2, <1>3, ThrowKeepsVerdict
<1>4. CASE outcome # "error"
  <2>1. UNCHANGED <<asked, failure, exitCode>> /\ at' = After(at)
    BY <1>2, <1>4
  <2>2. /\ outcome = "failed" => failures' > 0
        /\ outcome # "failed" => failures' = failures
        /\ failures' = 0 => failures = 0 /\ outcome # "failed"
    <3>1. failures \in Nat
      BY DEF VerdictInv, WriteInv, RunTypes
    <3>2. failures' = failures + (IF outcome = "failed" THEN 1 ELSE 0)
      BY <1>2, <1>4
    <3> QED BY <3>1, <3>2
  <2>3. VerdictIsTrue'
    BY <1>1, <2>1, NoVerdictYet
  <2>4. session'.claims = ClaimsAt(at) /\ mode' = mode
    BY <1>2, <1>4 DEF VerdictInv, WriteInv, RunTypes, Sessions, asked
  <2>5. Justified' /\ Made'
    <3>1. CASE at = "check 1"
      <4>1. outcome = IF role = "plain" THEN "ok" ELSE "failed"
        BY <3>1 DEF rlsChecks, RoleCannotBypass
      <4>2. at' = "check 2"
        BY <2>1, <3>1 DEF After
      <4>3. Justified'
        BY <2>2, <2>1, <4>1, SameQuestion, ProtectedUnderBoth DEF VerdictInv, Justified
      <4>4. Made'
        BY <2>2, <2>1, <3>1, <4>1, <4>2, SameQuestion DEF VerdictInv, Made, Ended
      <4> QED BY <4>3, <4>4
    <3>2. CASE at = "check 2"
      <4>1. outcome = IF Shown2 THEN "ok" ELSE "failed"
        BY <3>2 DEF rlsChecks, EveryTableForced, Shown2
      <4>2. at' = "check 3"
        BY <2>1, <3>2 DEF After
      <4>3. Justified'
        BY <2>2, <2>1, <4>1, SameQuestion, ProtectedUnderBoth DEF VerdictInv, Justified
      <4>4. Made'
        BY <2>2, <2>1, <3>2, <4>1, <4>2, SameQuestion DEF VerdictInv, Made, Ended
      <4> QED BY <4>3, <4>4
    <3>3. CASE at = "check 3"
      <4> DEFINE claims == session.claims
      <4>1. outcome \in RowsWithoutClaims(claims)
        BY <3>3 DEF rlsChecks, ClaimsAt
      <4>2. claims \in {"unset", "blank"} /\ (mode # "script" => claims = "unset")
        BY <3>3 DEF VerdictInv, Left, WriteInv, RunTypes, Sessions
      <4>3. /\ outcome = "ok" => ReadsNothing(claims)
            /\ outcome = "failed" => ~ReadsNothing(claims)
            /\ outcome \in {"ok", "failed"}
        BY <1>4, <4>1, RowsAnswer
      <4>4. outcome = "ok" /\ mode # "script" => ReadsNothing("unset")
        BY <4>2, <4>3
      <4>5. at' = "check 4"
        BY <2>1, <3>3 DEF After
      <4>6. Justified'
        BY <2>2, <2>1, <4>2, <4>3, SameQuestion, ProtectedUnderBoth DEF VerdictInv, Justified
      <4>7. Made'
        BY <2>2, <2>1, <3>3, <4>3, <4>4, <4>5, SameQuestion DEF VerdictInv, Made, Ended
      <4> QED BY <4>6, <4>7
    <3>4. CASE at = "check 4"
      <4>1. outcome \in RowsWithoutClaims("blank")
        BY <3>4 DEF rlsChecks, ClaimsAt
      <4>2. /\ outcome = "ok" => ReadsNothing("blank")
            /\ outcome = "failed" => ~ReadsNothing("blank")
            /\ outcome \in {"ok", "failed"}
        BY <1>4, <4>1, RowsAnswer
      <4>3. at' \in {"exit", "empty"}
        BY <2>1, <3>4 DEF After
      <4>4. Justified'
        BY <2>2, <2>1, <4>2, SameQuestion, ProtectedUnderBoth DEF VerdictInv, Justified
      <4>5. Made'
        BY <2>2, <2>1, <3>4, <4>2, <4>3, SameQuestion DEF VerdictInv, Made, Ended
      <4> QED BY <4>4, <4>5
    <3> QED BY <1>1, <3>1, <3>2, <3>3, <3>4
  <2>6. Left'
    <3>1. at' = "check 2" \/ at' = "check 3" => session'.claims = session.claims /\ at \in {"check 1", "check 2"}
      BY <1>1, <2>1, <2>4 DEF After, ClaimsAt
    <3>2. at' \in {"check 2", "check 3", "check 4", "empty", "exit"}
      BY <1>1, <2>1 DEF After
    <3> QED BY <2>4, <3>1, <3>2 DEF VerdictInv, Left
  <2>7. at' # "start"
    BY <1>1, <2>1 DEF After
  <2> QED BY <2>3, <2>5, <2>6, <2>7 DEF VerdictInv
<1> QED BY <1>3, <1>4

LEMMA VerdictStep == ASSUME VerdictInv, [Next]_vars PROVE VerdictInv'
<1>1. WriteInv'
  BY WriteInvStep DEF VerdictInv
<1>2. CASE StopEarly
  <2>1. at = "start" /\ at' = "done" /\ UNCHANGED <<asked, verdict>> /\ failures = 0
    BY <1>2 DEF StopEarly, VerdictInv, WriteInv, RunTypes
  <2>2. subject' = Nothing /\ failures' = 0
    BY <2>1 DEF VerdictInv, asked, verdict
  <2> QED BY <1>1, <2>1, <2>2 DEF VerdictInv, VerdictIsTrue, Made, Ended, Justified, Left
<1>3. ASSUME NEW m \in {"read-only", "disposable", "script"}, NEW r \in Roles,
             NEW content \in Contents, NEW lost \in BOOLEAN, Begin(m, r, content, lost)
      PROVE  VerdictInv'
  <2>1. at' = IF m = "read-only" THEN "verify" ELSE IF m = "disposable" THEN "admin" ELSE "claims-check"
    BY <1>3 DEF Begin
  <2>2. mode' = m /\ failures' = failures /\ exitCode' = exitCode /\ at = "start"
    BY <1>3 DEF Begin, verdict
  <2>3. failures' = 0 /\ exitCode' = Running
    BY <2>2 DEF VerdictInv, WriteInv, RunTypes
  <2>4. VerdictIsTrue'
    BY <2>3, NoVerdictYet
  <2>5. Made' /\ Justified' /\ Left'
    BY <2>1, <2>2, <2>3 DEF Made, Ended, Justified, Left
  <2> QED BY <1>1, <2>1, <2>4, <2>5 DEF VerdictInv
<1>4. CASE Fails
  BY <1>1, <1>4, ThrowKeepsVerdict DEF Fails
<1>5. CASE ConnectAdmin
  BY <1>1, <1>5, QuietStep DEF ConnectAdmin, verdict
<1>6. CASE Create
  <2>1. CASE Throw
    BY <1>1, <1>6, <2>1, ThrowKeepsVerdict DEF Create
  <2>2. CASE ~Throw
    <3>1. PICK restored \in BOOLEAN :
            /\ failure' = ~restored
            /\ at' = IF restored THEN "setup" ELSE "drop"
            /\ UNCHANGED <<asked, failures, exitCode>>
      BY <1>6, <2>2 DEF Create
    <3>2. at = "create"
      BY <1>6 DEF Create
    <3>3. CASE restored
      BY <1>1, <3>1, <3>2, <3>3, QuietStep
    <3>4. CASE ~restored
      BY <1>1, <3>1, <3>2, <3>4, QuietStep
    <3> QED BY <3>3, <3>4
  <2> QED BY <2>1, <2>2
<1>7. CASE ConnectSetup
  <2>1. CASE ReachedScratch
    BY <1>1, <1>7, <2>1, QuietStep DEF ConnectSetup, verdict
  <2>2. CASE ~ReachedScratch
    BY <1>1, <1>7, <2>2, ThrowKeepsVerdict DEF ConnectSetup
  <2> QED BY <2>1, <2>2
<1>8. CASE RunFile
  BY <1>1, <1>8, QuietStep DEF RunFile, verdict
<1>9. CASE ConnectVerify
  <2>1. at = "verify" /\ at' = "role" /\ UNCHANGED <<asked, verdict, exitCode>>
    BY <1>9 DEF ConnectVerify
  <2>2. session'.claims = "unset"
    BY <1>9 DEF ConnectVerify, NewSession
  <2>3. exitCode' = Running
    BY <2>1 DEF VerdictInv, WriteInv, RunTypes
  <2>4. VerdictIsTrue'
    BY <2>3, NoVerdictYet
  <2>5. Justified'
    BY <2>1, SameQuestion DEF VerdictInv, Justified, verdict
  <2>6. Made' /\ Left'
    BY <2>1, <2>2 DEF Made, Ended, Left
  <2> QED BY <1>1, <2>1, <2>4, <2>5, <2>6 DEF VerdictInv
<1>10. CASE LookUpRole
  <2>1. CASE role \in {"absent", "unsettable"}
    BY <1>1, <1>10, <2>1, ThrowKeepsVerdict DEF LookUpRole
  <2>2. CASE role \notin {"absent", "unsettable"}
    <3>1. at = "role" /\ at' = "check 1" /\ UNCHANGED <<asked, session, verdict, exitCode>>
      BY <1>10, <2>2 DEF LookUpRole
    <3>2. exitCode' = Running
      BY <3>1 DEF VerdictInv, WriteInv, RunTypes
    <3>3. VerdictIsTrue'
      BY <3>2, NoVerdictYet
    <3>4. Justified'
      BY <3>1, SameQuestion DEF VerdictInv, Justified, verdict
    \* The script does not come this way.
    <3>5. mode # "script" /\ mode' = mode
      BY <3>1 DEF VerdictInv, WriteInv, Writers, asked
    <3>6. Made' /\ Left'
      BY <3>1, <3>5 DEF VerdictInv, Made, Shown0, Ended, Left
    <3> QED BY <1>1, <3>1, <3>3, <3>4, <3>6 DEF VerdictInv
  <2> QED BY <2>1, <2>2
<1>11. CASE Check
  BY <1>1, <1>11, CheckKeepsVerdict
<1>12. CASE CheckRepository
  <2>1. /\ at = "claims-check" /\ at' = "check 1" /\ UNCHANGED <<asked, exitCode>>
        /\ session' = [session EXCEPT !.claims = "blank"]
    BY <1>12 DEF CheckRepository
  <2>2. mode = "script" /\ mode' = mode
    BY <2>1 DEF VerdictInv, Left, asked
  <2>3. session'.claims = "blank"
    BY <2>1 DEF VerdictInv, WriteInv, RunTypes, Sessions
  <2>4. failures' = (IF SeesOwnOnly(subject["accounts"]) THEN 0 ELSE 1)
                  + (IF SeesOwnOnly(subject["profiles"]) THEN 0 ELSE 1)
                  + (IF RefusesForeign(subject["accounts"]) THEN 0 ELSE 1)
    BY <1>12 DEF CheckRepository
  <2>5. failures' = 0 => /\ SeesOwnOnly(subject["accounts"]) /\ SeesOwnOnly(subject["profiles"])
                         /\ RefusesForeign(subject["accounts"])
    BY <2>4
  <2>6. failures' = 0 => Shown0
    BY <2>5 DEF Shown0
  <2>7. Made'
    BY <2>1, <2>6, SameQuestion DEF Made, Ended
  <2>8. exitCode' = Running
    BY <2>1 DEF VerdictInv, WriteInv, RunTypes
  <2>9. VerdictIsTrue'
    BY <2>8, NoVerdictYet
  <2>10. Justified' /\ Left'
    BY <2>1, <2>2, <2>3 DEF Justified, Left
  <2> QED BY <1>1, <2>1, <2>7, <2>9, <2>10 DEF VerdictInv
<1>13. ASSUME at \in {"empty", "drop"}, at' \in {"drop", "exit"}, at = "drop" => (~failure' => ~failure),
              UNCHANGED <<asked, failures, exitCode>>
       PROVE  VerdictInv'
  <2>1. exitCode' = Running
    BY <1>13 DEF VerdictInv, WriteInv, RunTypes
  <2>2. VerdictIsTrue'
    BY <2>1, NoVerdictYet
  <2>3. Justified'
    BY <1>13, SameQuestion DEF VerdictInv, Justified
  <2>4. Made'
    BY <1>13, SameQuestion DEF VerdictInv, Made, Ended
  <2>5. Left' /\ at' # "start"
    BY <1>13 DEF Left
  <2> QED BY <1>1, <2>2, <2>3, <2>4, <2>5 DEF VerdictInv
<1>14. CASE NoteEmptyTables
  BY <1>13, <1>14 DEF NoteEmptyTables, verdict
<1>15. CASE Drop
  BY <1>13, <1>15 DEF Drop
<1>16. CASE Exit
  <2>1. at = "exit" /\ at' = "done" /\ exitCode' = ExitCode /\ UNCHANGED <<asked, failures, failure>>
    BY <1>16 DEF Exit, verdict
  <2>2. failures \in Nat /\ failure \in BOOLEAN
    BY DEF VerdictInv, WriteInv, RunTypes
  <2>3. exitCode' = exitCodes.passed => ~failure /\ failures = 0
    BY <2>1, <2>2 DEF ExitCode, exitCodes
  <2>4. exitCode' = exitCodes.failed /\ mode # "script" => failures > 0
    BY <2>1, <2>2 DEF ExitCode, exitCodes
  <2>5. exitCode' = exitCodes.passed =>
          Shown0 /\ Protected(IF mode = "script" THEN {"blank"} ELSE {"unset", "blank"})
    BY <2>1, <2>3, ProtectedShown DEF VerdictInv, Made, Ended
  <2>6. exitCode' = exitCodes.failed /\ mode # "script" => ~Protected({"unset", "blank"})
    BY <2>4 DEF VerdictInv, Justified
  <2>7. VerdictIsTrue'
    <3>1. /\ exitCode' = exitCodes.passed =>
               Shown0' /\ Protected(IF mode = "script" THEN {"blank"} ELSE {"unset", "blank"})'
          /\ exitCode' = exitCodes.failed /\ mode # "script" => ~Protected({"unset", "blank"})'
          /\ mode' = mode
      BY <2>1, <2>5, <2>6, SameQuestion
    <3> QED BY <3>1 DEF VerdictIsTrue, Shown0, exitCodes
  <2>8. Justified'
    BY <2>1, SameQuestion DEF VerdictInv, Justified
  <2>9. Made' /\ Left'
    BY <2>1 DEF Made, Ended, Left
  <2> QED BY <1>1, <2>1, <2>7, <2>8, <2>9 DEF VerdictInv
<1>17. CASE UNCHANGED vars
  <2>1. UNCHANGED <<asked, verdict, exitCode, at, session>>
    BY <1>17 DEF vars
  <2>2. UNCHANGED <<mode, role, subject, failures, failure>>
    BY <2>1 DEF asked, verdict
  <2>3. Justified'
    BY <2>1, <2>2, SameQuestion DEF VerdictInv, Justified
  <2>4. Made'
    BY <2>1, <2>2, SameQuestion DEF VerdictInv, Made, Ended
  <2>5. Left'
    BY <2>1, <2>2 DEF VerdictInv, Left
  <2>6. VerdictIsTrue'
    <3>1. \A settings : Protected(settings)' = Protected(settings)
      BY <2>1, SameQuestion
    <3>2. \A n : RefusesForeign(subject[n])' = RefusesForeign(subject[n])
                 /\ SeesOwnOnly(subject[n])' = SeesOwnOnly(subject[n])
      BY <2>2 DEF RefusesForeign, SeesOwnOnly, Exempt
    <3> QED BY <2>1, <2>2, <3>1, <3>2 DEF VerdictInv, VerdictIsTrue
  <2> QED BY <1>1, <2>1, <2>2, <2>3, <2>4, <2>5, <2>6 DEF VerdictInv
<1> QED
  BY <1>2, <1>3, <1>4, <1>5, <1>6, <1>7, <1>8, <1>9, <1>10, <1>11, <1>12, <1>14, <1>15,
     <1>16, <1>17 DEF Next

\* What the exit code of rls-verify and of this repository's own script says
\* (cli.ts main, rls-verify.mjs) is so of the database it is about, whatever
\* that holds, whichever statements fail and wherever connections lead.
THEOREM VerdictIsTrueAlways == Spec => []VerdictIsTrue
<1>1. Init => VerdictInv
  <2>1. ASSUME Init PROVE RunTypes
    BY <2>1, InitTypes
  <2>2. ASSUME Init PROVE VerdictInv
    <3>1. at = "start" /\ subject = Nothing /\ mode = "read-only" /\ failures = 0 /\ ~dirty
      BY <2>2 DEF Init
    <3>2. WriteInv
      BY <2>1, <2>2, <3>1 DEF WriteInv, Writers, OriginalNeverWritten
    <3>3. Made /\ Justified /\ Left /\ VerdictIsTrue
      BY <3>1 DEF Made, Ended, Justified, Left, VerdictIsTrue
    <3> QED BY <3>1, <3>2, <3>3 DEF VerdictInv
  <2> QED BY <2>2
<1>2. VerdictInv /\ [Next]_vars => VerdictInv'
  BY VerdictStep
<1>3. VerdictInv => VerdictIsTrue
  BY DEF VerdictInv
<1> QED BY <1>1, <1>2, <1>3, PTL DEF Spec

-----------------------------------------------------------------------------
(* A verdict is given after the scratch database is gone.                  *)

Dropped ==
  /\ scratch = "there" => mode = "disposable" /\ at # "start"
  /\ at \in {"admin", "create"} => mode = "disposable"
  /\ at = "exit" /\ ~failure => scratch # "there"
  /\ NothingLeftBehind

DroppedInv == RunTypes /\ Dropped

LEMMA DroppedStep == ASSUME DroppedInv, [Next]_vars PROVE DroppedInv'
<1>1. RunTypes'
  BY TypesStep DEF DroppedInv
\* Before the exit, a step need only say where a database it leaves came from.
<1>2. ASSUME exitCode' = Running, scratch' = "there" => mode' = "disposable" /\ at' # "start",
             at' \in {"admin", "create"} => mode' = "disposable",
             at' = "exit" /\ ~failure' => scratch' # "there"
      PROVE  DroppedInv'
  <2>1. exitCode' \notin {exitCodes.passed, exitCodes.failed}
    BY <1>2 DEF exitCodes, Running
  <2> QED BY <1>1, <1>2, <2>1 DEF DroppedInv, Dropped, NothingLeftBehind
<1>3. CASE StopEarly
  <2>1. scratch' = "none" /\ at' = "done"
    BY <1>3 DEF StopEarly, DroppedInv, RunTypes
  <2> QED BY <1>1, <2>1 DEF DroppedInv, Dropped, NothingLeftBehind
<1>4. ASSUME NEW m \in {"read-only", "disposable", "script"}, NEW r \in Roles,
             NEW content \in Contents, NEW lost \in BOOLEAN, Begin(m, r, content, lost)
      PROVE  DroppedInv'
  <2>1. at = "start" /\ scratch' = scratch /\ exitCode' = exitCode /\ mode' = m
        /\ at' = IF m = "read-only" THEN "verify" ELSE IF m = "disposable" THEN "admin" ELSE "claims-check"
    BY <1>4 DEF Begin
  <2>2. scratch' = "none" /\ exitCode' = Running
    BY <2>1 DEF DroppedInv, RunTypes
  <2> QED BY <1>2, <2>1, <2>2
<1>5. ASSUME Throw, at \notin {"start", "done"}, scratch' = "there" => mode = "disposable"
      PROVE  DroppedInv'
  <2>1. at' \in {"drop", "exit"} /\ failure' /\ mode' = mode /\ exitCode' = exitCode
    BY <1>5 DEF Throw, asked
  <2>2. exitCode' = Running
    BY <1>5, <2>1 DEF DroppedInv, RunTypes
  <2> QED BY <1>2, <1>5, <2>1, <2>2
\* A step that leaves the scratch database as it is, and ends the run only where
\* there is none.
<1>6. ASSUME at \notin {"start", "done"}, at' \notin {"start", "admin"},
             at' = "create" => at = "admin", at' = "exit" => mode # "disposable",
             UNCHANGED <<mode, scratch, exitCode>>
      PROVE  DroppedInv'
  <2>1. exitCode' = Running
    BY <1>6 DEF DroppedInv, RunTypes
  <2> QED BY <1>2, <1>6, <2>1 DEF DroppedInv, Dropped
<1>7. scratch = "there" => mode = "disposable"
  BY DEF DroppedInv, Dropped
<1>8. CASE Fails
  BY <1>5, <1>7, <1>8 DEF Fails
<1>9. CASE ConnectAdmin
  BY <1>6, <1>9 DEF ConnectAdmin, asked
<1>10. CASE Create
  <2>1. at = "create" /\ mode = "disposable"
    BY <1>10 DEF Create, DroppedInv, Dropped
  <2>2. CASE Throw
    BY <1>5, <2>1, <2>2
  <2>3. CASE ~Throw
    <3>1. mode' = mode /\ exitCode' = exitCode /\ at' \in {"setup", "drop"}
      BY <1>10, <2>3 DEF Create, asked
    <3>2. exitCode' = Running
      BY <2>1, <3>1 DEF DroppedInv, RunTypes
    <3> QED BY <1>2, <2>1, <3>1, <3>2
  <2> QED BY <2>2, <2>3
<1>11. CASE ConnectSetup
  <2>1. CASE ReachedScratch
    BY <1>6, <1>11, <2>1 DEF ConnectSetup, asked
  <2>2. CASE ~ReachedScratch
    BY <1>5, <1>7, <1>11, <2>2 DEF ConnectSetup
  <2> QED BY <2>1, <2>2
<1>12. CASE RunFile
  BY <1>6, <1>12 DEF RunFile, asked
<1>13. CASE ConnectVerify
  BY <1>6, <1>13 DEF ConnectVerify, asked
<1>14. CASE LookUpRole
  <2>1. CASE role \in {"absent", "unsettable"}
    BY <1>5, <1>7, <1>14, <2>1 DEF LookUpRole
  <2>2. CASE role \notin {"absent", "unsettable"}
    BY <1>6, <1>14, <2>2 DEF LookUpRole, asked
  <2> QED BY <2>1, <2>2
<1>15. CASE Check
  <2>1. PICK outcome \in rlsChecks(at) :
          IF outcome = "error" THEN Throw
          ELSE at' = After(at) /\ UNCHANGED <<asked, exitCode>>
    BY <1>15 DEF Check
  <2>2. scratch' = scratch /\ at \in {"check 1", "check 2", "check 3", "check 4"}
    BY <1>15 DEF Check
  <2>3. CASE outcome = "error"
    BY <1>5, <1>7, <2>1, <2>2, <2>3
  <2>4. CASE outcome # "error"
    <3>1. at' = After(at) /\ mode' = mode /\ exitCode' = exitCode
      BY <2>1, <2>4 DEF asked
    <3>2. /\ at' \in {"check 2", "check 3", "check 4", "empty", "exit"}
          /\ at' = "exit" => mode = "script"
      BY <2>2, <3>1 DEF After
    <3> QED BY <1>6, <2>2, <3>1, <3>2
  <2> QED BY <2>3, <2>4
<1>16. CASE CheckRepository
  BY <1>6, <1>16 DEF CheckRepository, asked
<1>17. CASE NoteEmptyTables
  BY <1>6, <1>17 DEF NoteEmptyTables, asked
<1>18. CASE Drop
  <2>1. at = "drop" /\ at' = "exit" /\ scratch' = "dropped" /\ exitCode' = exitCode
    BY <1>18 DEF Drop
  <2>2. exitCode' = Running
    BY <2>1 DEF DroppedInv, RunTypes
  <2> QED BY <1>2, <2>1, <2>2
<1>19. CASE Exit
  <2>1. /\ at = "exit" /\ at' = "done" /\ exitCode' = ExitCode
        /\ UNCHANGED <<mode, scratch, failure>>
    BY <1>19 DEF Exit, asked, verdict
  <2>2. failure /\ mode = "disposable" => ExitCode = exitCodes.setup
    BY DEF ExitCode
  <2>3. scratch = "there" => exitCode' = exitCodes.setup
    BY <1>7, <2>1, <2>2 DEF DroppedInv, Dropped
  <2>4. exitCodes.setup \notin {exitCodes.passed, exitCodes.failed}
    BY DEF exitCodes
  <2>5. NothingLeftBehind'
    BY <2>1, <2>3, <2>4 DEF NothingLeftBehind
  <2> QED BY <1>1, <1>7, <2>1, <2>5 DEF DroppedInv, Dropped
<1>20. CASE UNCHANGED vars
  BY <1>1, <1>20 DEF vars, asked, verdict, DroppedInv, Dropped, NothingLeftBehind
<1> QED
  BY <1>3, <1>4, <1>8, <1>9, <1>10, <1>11, <1>12, <1>13, <1>14, <1>15, <1>16, <1>17, <1>18,
     <1>19, <1>20 DEF Next

\* A run of rls-verify that says whether the policies hold has dropped the
\* scratch database it made (cli.ts), however many of its steps failed or lost
\* their answers; one that could not says so instead.
THEOREM NothingLeftBehindAlways == Spec => []NothingLeftBehind
<1>1. Init => DroppedInv
  <2>1. ASSUME Init PROVE RunTypes
    BY <2>1, InitTypes
  <2>2. ASSUME Init PROVE DroppedInv
    BY <2>1, <2>2 DEF Init, DroppedInv, Dropped, NothingLeftBehind
  <2> QED BY <2>2
<1>2. DroppedInv /\ [Next]_vars => DroppedInv'
  BY DroppedStep
<1>3. DroppedInv => NothingLeftBehind
  BY DEF DroppedInv, Dropped
<1> QED BY <1>1, <1>2, <1>3, PTL DEF Spec

-----------------------------------------------------------------------------
(* The scratch container: types, and where each task may be.               *)

Begun(t) == pc[t] # "new"
Places == Steps \union {"new", "done", "failed", "killed"}

\* Steps at which a task acts on the container it inspected or made.
Boxed == {"remove", "running", "start", "wait", "list", "reap", "create", "comment", "use", "drop"}
Placed ==
  /\ \A t \in Tasks : pc[t] \in Boxed => box[t] \in Boxes
  /\ \A c \in Cleaners : pc[c] \in {"new", "inspect", "remove", "done", "failed", "killed"}
ContainerTypes == ContainerTypeOK /\ Placed

LEMMA GoesTo ==
  ASSUME ContainerTypes, NEW t \in Tasks, NEW step \in Places, Goes(t, step)
  PROVE  /\ pc' \in [Tasks -> Places] /\ pc'[t] = step
         /\ \A o \in Tasks \ {t} : pc'[o] = pc[o]
BY DEF ContainerTypes, ContainerTypeOK, Goes, Places

\* Docker's own steps, and what the tasks make it do.
DockerOK ==
  /\ name \in Boxes \union {NoBox}
  /\ state \in [Boxes -> States]
  /\ made \in [Boxes -> Shapes]
  /\ owned \subseteq Boxes
  /\ dbs \subseteq Database
  /\ \A d \in dbs : state[d.box] \in {"booting", "ready"}
  /\ name # NoBox => state[name] \notin {"absent", "removed"}
Counted == pid \in [Tasks -> AnyPid] /\ mishaps \in 0..MaxMishaps
TasksOK ==
  /\ pc \in [Tasks -> Places]
  /\ box \in [Tasks -> Boxes \union {NoBox}]
  /\ stale \in [Tasks -> SUBSET Database]
  /\ Counted

LEMMA TwoParts == ContainerTypeOK <=> DockerOK /\ TasksOK
BY DEF ContainerTypeOK, DockerOK, TasksOK, Counted, Places

LEMMA DestroyTyped == ASSUME DockerOK, NEW b \in Boxes, Destroy(b) PROVE DockerOK'
BY DEF DockerOK, Destroy, States, Database

LEMMA StartsTyped ==
  ASSUME DockerOK, NEW b \in Boxes, DockerStarts(b), UNCHANGED <<name, made, owned, dbs>>
  PROVE  DockerOK'
<1> DEFINE next == IF state[b] = "created" THEN "booting" ELSE state[b]
<1>1. state' = [state EXCEPT ![b] = next]
  BY DEF DockerStarts
<1>2. next \in States /\ (state[b] \in {"booting", "ready"} => next = state[b])
      /\ (state[b] \notin {"absent", "removed"} => next \notin {"absent", "removed"})
  BY DEF DockerOK, States
<1> HIDE DEF next
<1>3. state' \in [Boxes -> States] /\ \A c \in Boxes : state'[c] = IF c = b THEN next ELSE state[c]
  BY <1>1, <1>2 DEF DockerOK
<1>4. \A d \in dbs : d.box \in Boxes
  BY DEF DockerOK, Database
<1>5. \A d \in dbs' : state'[d.box] \in {"booting", "ready"}
  BY <1>2, <1>3, <1>4 DEF DockerOK
<1>6. name # NoBox => state'[name] \notin {"absent", "removed"}
  BY <1>2, <1>3 DEF DockerOK
<1> QED BY <1>3, <1>5, <1>6 DEF DockerOK

\* A container that is made new has no databases.
LEMMA MakesTyped ==
  ASSUME DockerOK, NEW b \in Boxes, state[b] = "absent", NEW s \in {"reserved", "ready"},
         name' = b, state' = [state EXCEPT ![b] = s],
         NEW shape \in Shapes, made' = [made EXCEPT ![b] = shape],
         owned' \subseteq Boxes,
         \/ dbs' = dbs
         \/ s = "ready" /\ dbs' = dbs \union {[box |-> b, owner |-> Person, marked |-> FALSE]}
  PROVE  DockerOK'
<1>1. state' \in [Boxes -> States] /\ \A c \in Boxes : state'[c] = IF c = b THEN s ELSE state[c]
  BY DEF DockerOK, States
<1>2. \A d \in dbs : d.box \in Boxes \ {b}
  BY DEF DockerOK, Database
<1>3. [box |-> b, owner |-> Person, marked |-> FALSE] \in Database
  BY DEF Database
<1>4. dbs' \subseteq Database
  BY <1>3 DEF DockerOK
<1>5. \A d \in dbs' : state'[d.box] \in {"booting", "ready"}
  BY <1>1, <1>2 DEF DockerOK
<1> QED BY <1>1, <1>4, <1>5 DEF DockerOK

LEMMA InitContainerTypes == ASSUME ContainerInit PROVE ContainerTypes
<1>1. \A t \in Tasks : (CHOOSE p \in Pids[t] : TRUE) \in AnyPid
  BY ContainerAssumption DEF AnyPid
<1>2. pid \in [Tasks -> AnyPid]
  BY <1>1 DEF ContainerInit
<1> QED
  BY <1>2, ContainerAssumption
     DEF ContainerInit, ContainerTypes, ContainerTypeOK, Placed, Boxed, States, Shapes, Tasks

\* Where a task may go: to a step that has a box if it needs one.
Moves(t) ==
  \E step \in Places :
    /\ Goes(t, step)
    /\ step \in Boxed => box'[t] \in Boxes
    /\ t \in Cleaners => step \in {"new", "inspect", "remove", "done", "failed", "killed"}

\* The box and the list of one task may change.
BoxMoves(t) ==
  \/ box' = box
  \/ name # NoBox /\ box' = [box EXCEPT ![t] = name]
  \/ \E b \in Unmade : box' = [box EXCEPT ![t] = b]
StaleMoves(t) == stale' = stale \/ \E s \in SUBSET Database : stale' = [stale EXCEPT ![t] = s]

LEMMA TaskAdvances ==
  ASSUME ContainerTypes, NEW t \in Tasks, Moves(t), BoxMoves(t), StaleMoves(t),
         Counted', DockerOK'
  PROVE  ContainerTypes'
<1>1. PICK step \in Places :
        /\ Goes(t, step)
        /\ step \in Boxed => box'[t] \in Boxes
        /\ t \in Cleaners => step \in {"new", "inspect", "remove", "done", "failed", "killed"}
  BY DEF Moves
<1>2. /\ pc' \in [Tasks -> Places] /\ pc'[t] = step
      /\ \A o \in Tasks \ {t} : pc'[o] = pc[o]
  BY <1>1, GoesTo
<1>3. /\ box' \in [Tasks -> Boxes \union {NoBox}]
      /\ \A o \in Tasks \ {t} : box'[o] = box[o]
  BY TwoParts DEF BoxMoves, ContainerTypes, TasksOK, DockerOK, Unmade
<1>4. stale' \in [Tasks -> SUBSET Database]
  BY TwoParts DEF StaleMoves, ContainerTypes, TasksOK
<1>5. Placed'
  BY <1>1, <1>2, <1>3 DEF Placed, ContainerTypes, Tasks
<1> QED
  BY <1>2, <1>3, <1>4, <1>5, TwoParts
     DEF ContainerTypes, ContainerTypeOK, DockerOK, TasksOK, Counted, Places

LEMMA DockerStays == ASSUME DockerOK, Stays PROVE DockerOK'
BY DEF DockerOK, Stays, docker

LEMMA AddsTyped ==
  ASSUME DockerOK, UNCHANGED docker, NEW b \in Boxes, NEW o \in Gates \union {Person},
         state[b] = "ready",
         dbs' = dbs \union {[box |-> b, owner |-> o, marked |-> FALSE]}
  PROVE  DockerOK'
<1>1. [box |-> b, owner |-> o, marked |-> FALSE] \in Database
  BY DEF Database
<1>2. \A d \in dbs' : d \in dbs \/ d.box = b
  OBVIOUS
<1> QED BY <1>1, <1>2 DEF DockerOK, docker

LEMMA MarksTyped ==
  ASSUME DockerOK, UNCHANGED docker, NEW D \in SUBSET dbs,
         dbs' = (dbs \ D) \union {[d EXCEPT !.marked = TRUE] : d \in D}
  PROVE  DockerOK'
<1>1. \A d \in D : [d EXCEPT !.marked = TRUE] \in Database /\ [d EXCEPT !.marked = TRUE].box = d.box
  BY DEF DockerOK, Database
<1>2. \A e \in dbs' : e \in dbs \/ (e \in Database /\ \E d \in dbs : e.box = d.box)
  BY <1>1
<1>3. dbs' \subseteq Database
  BY <1>2 DEF DockerOK
<1>4. \A d \in dbs' : state[d.box] \in {"booting", "ready"}
  BY <1>2 DEF DockerOK
<1> QED BY <1>3, <1>4 DEF DockerOK, docker

LEMMA KeepsBox ==
  ASSUME ContainerTypes, NEW t \in Tasks
  PROVE  /\ DockerOK /\ TasksOK
         /\ pc[t] \in Boxed => box[t] \in Boxes
         /\ t \in Cleaners => pc[t] \in {"new", "inspect", "remove", "done", "failed", "killed"}
         /\ t \in Cleaners <=> t \notin Gates
         /\ t # Person
BY TwoParts, ContainerAssumption DEF ContainerTypes, Placed, Tasks

\* A step of a task moves its box and its list, and nothing else of the tasks'.
LEMMA TaskMoves == ASSUME ContainerTypes, NEW t \in Tasks, Task(t)
                   PROVE  mishaps' = mishaps /\ Counted' /\ BoxMoves(t) /\ StaleMoves(t)
<1> USE KeepsBox DEF From
<1>1. mishaps' = mishaps /\ Counted'
  <2>1. CASE BeginTask(t)
    BY <2>1 DEF BeginTask, TasksOK, Counted, AnyPid
  <2>2. CASE ~BeginTask(t)
    <3>1. UNCHANGED <<pid, mishaps>>
      BY <2>2 DEF Task, Inspect, Remove, Run, RunStarts, Reinspect, Await, StartBox,
             WaitForPostgres, PsqlFails, ListStale, Reap, ReapDone, CreateDatabase, Comment,
             UseEnds, DropDatabase, CleanInspects, Psql
    <3> QED BY <3>1 DEF TasksOK, Counted
  <2> QED BY <2>1, <2>2
<1>2. BoxMoves(t)
  BY DEF BoxMoves, Task, BeginTask, Inspect, Remove, Run, RunStarts, Reinspect, Await, StartBox,
         WaitForPostgres, PsqlFails, ListStale, Reap, ReapDone, CreateDatabase, Comment,
         UseEnds, DropDatabase, CleanInspects, Psql, Inspectable, Checked
<1>3. StaleMoves(t)
  <2>1. {d \in dbs : d.box = box[t] /\ d.marked} \in SUBSET Database
    BY DEF DockerOK
  <2>2. \A d : stale[t] \ {d} \in SUBSET Database
    BY DEF TasksOK
  <2>3. ListStale(t) \/ Reap(t) \/ stale' = stale
    BY DEF Task, BeginTask, Inspect, Remove, Run, RunStarts, Reinspect, Await, StartBox,
           WaitForPostgres, PsqlFails, ReapDone, CreateDatabase, Comment,
           UseEnds, DropDatabase, CleanInspects, Psql
  <2> QED BY <2>1, <2>2, <2>3 DEF StaleMoves, ListStale, Reap
<1> QED BY <1>1, <1>2, <1>3

LEMMA TaskTypes == ASSUME ContainerTypes, NEW t \in Tasks, Task(t) PROVE ContainerTypes'
<1>1. Counted' /\ BoxMoves(t) /\ StaleMoves(t)
  BY TaskMoves
<1>2. ASSUME Moves(t), DockerOK' PROVE ContainerTypes'
  BY <1>1, <1>2, TaskAdvances
<1> USE KeepsBox, DockerStays DEF From, Moves, Boxed, Places, Steps
<1>3. CASE BeginTask(t)
  BY <1>2, <1>3 DEF BeginTask
<1>4. CASE Inspect(t)
  <2>1. Moves(t)
    <3>1. name \in Boxes => [box EXCEPT ![t] = name][t] = name
      BY DEF TasksOK
    <3> QED BY <1>4, <3>1 DEF Inspect, Inspectable, DockerOK
  <2>2. DockerOK'
    BY <1>4 DEF Inspect
  <2> QED BY <1>2, <2>1, <2>2
<1>5. CASE Remove(t)
  <2>1. Moves(t)
    BY <1>5 DEF Remove
  <2>2. DockerOK'
    BY <1>5, DestroyTyped DEF Remove, Removes
  <2> QED BY <1>2, <2>1, <2>2
<1>6. CASE Run(t)
  <2>1. CASE \E b \in Unmade :
               /\ Reserve(b, Wants[t]) /\ owned' = owned \union {b}
               /\ state' = [state EXCEPT ![b] = "reserved"]
               /\ box' = [box EXCEPT ![t] = b] /\ Goes(t, "running") /\ UNCHANGED dbs
    <3>1. PICK b \in Unmade : /\ Reserve(b, Wants[t]) /\ owned' = owned \union {b}
                              /\ state' = [state EXCEPT ![b] = "reserved"]
                              /\ box' = [box EXCEPT ![t] = b] /\ Goes(t, "running")
                              /\ UNCHANGED dbs
      BY <2>1
    <3>2. b \in Boxes /\ state[b] = "absent" /\ t \in Gates
      BY <1>6, <3>1 DEF Unmade, Run
    <3>3. Wants[t] \in Shapes /\ owned' \subseteq Boxes
      BY <3>1, <3>2 DEF Shapes, DockerOK
    <3>4. DockerOK'
      BY <3>1, <3>2, <3>3, MakesTyped DEF Reserve
    <3>5. box'[t] = b
      BY <3>1 DEF TasksOK
    <3>6. Moves(t)
      BY <3>1, <3>2, <3>5
    <3> QED BY <1>2, <3>4, <3>6
  <2>2. CASE Goes(t, "await") /\ Stays
    <3>1. t \in Gates
      BY <1>6 DEF Run
    <3> QED BY <1>2, <2>2, <3>1
  <2> QED BY <1>6, <2>1, <2>2 DEF Run, Stays
<1>7. CASE RunStarts(t)
  BY <1>2, <1>7, StartsTyped DEF RunStarts
<1>8. CASE Reinspect(t)
  BY <1>2, <1>8 DEF Reinspect, Checked, Inspectable, DockerOK, TasksOK
<1>9. CASE Await(t)
  BY <1>2, <1>9 DEF Await, Checked, Awaits, Inspectable, DockerOK, TasksOK
<1>10. CASE StartBox(t)
  BY <1>2, <1>10, StartsTyped DEF StartBox
<1>11. CASE WaitForPostgres(t)
  BY <1>2, <1>11 DEF WaitForPostgres
<1>12. CASE PsqlFails(t)
  BY <1>2, <1>12 DEF PsqlFails
<1>13. CASE ListStale(t)
  <2>1. Moves(t)
    BY <1>13 DEF ListStale, Psql
  <2>2. DockerOK'
    BY <1>13 DEF ListStale
  <2> QED BY <1>2, <2>1, <2>2
<1>14. CASE Reap(t)
  <2>1. Moves(t)
    <3>1. Goes(t, pc[t])
      BY <1>14 DEF Reap, Goes, TasksOK
    <3> QED BY <1>14, <3>1 DEF Reap, Psql
  <2>2. DockerOK'
    BY <1>14 DEF Reap, Psql, DockerOK, docker
  <2> QED BY <1>2, <2>1, <2>2
<1>15. CASE ReapDone(t)
  <2>1. Moves(t)
    BY <1>15 DEF ReapDone, Psql
  <2>2. DockerOK'
    BY <1>15 DEF ReapDone
  <2> QED BY <1>2, <2>1, <2>2
<1>16. CASE CreateDatabase(t)
  <2>1. Moves(t)
    BY <1>16 DEF CreateDatabase, Psql
  <2>2. DockerOK'
    <3>1. [box |-> box[t], owner |-> t, marked |-> FALSE] \in Database
      <4>1. pc[t] = "create" /\ t \in Gates /\ box[t] \in Boxes
        BY <1>16 DEF CreateDatabase, Psql
      <4> QED BY <4>1 DEF Database
    <3> QED BY <1>16, <3>1, AddsTyped DEF CreateDatabase, Psql
  <2> QED BY <1>2, <2>1, <2>2
<1>17. CASE Comment(t)
  <2>1. Moves(t)
    BY <1>17 DEF Comment, Psql
  <2>2. DockerOK'
    BY <1>17, MarksTyped DEF Comment, Own
  <2> QED BY <1>2, <2>1, <2>2
<1>18. CASE UseEnds(t)
  <2>1. Moves(t)
    BY <1>18 DEF UseEnds
  <2>2. DockerOK'
    BY <1>18 DEF UseEnds
  <2> QED BY <1>2, <2>1, <2>2
<1>19. CASE DropDatabase(t)
  <2>1. Moves(t)
    BY <1>19 DEF DropDatabase, Psql
  <2>2. DockerOK'
    BY <1>19 DEF DropDatabase, DockerOK, docker
  <2> QED BY <1>2, <2>1, <2>2
<1>20. CASE CleanInspects(t)
  BY <1>2, <1>20 DEF CleanInspects, Inspectable, DockerOK, TasksOK
<1> QED
  BY <1>3, <1>4, <1>5, <1>6, <1>7, <1>8, <1>9, <1>10, <1>11, <1>12, <1>13, <1>14, <1>15,
     <1>16, <1>17, <1>18, <1>19, <1>20 DEF Task

LEMMA OthersTypes ==
  ASSUME ContainerTypes,
         \/ \E t \in Tasks : Kill(t) \/ Breaks(t)
         \/ \E b \in Boxes : Appears(b) \/ Boots(b)
         \/ OldScript \/ PersonRemoves
  PROVE  ContainerTypes'
<1>1. DockerOK /\ TasksOK /\ Placed
  BY TwoParts DEF ContainerTypes
<1>2. ASSUME TasksOK', Placed', DockerOK' PROVE ContainerTypes'
  BY <1>2, TwoParts DEF ContainerTypes, ContainerTypeOK, DockerOK, TasksOK, Counted, Places
<1>3. ASSUME UNCHANGED <<pc, box, stale>>, Counted', DockerOK'
      PROVE  ContainerTypes'
  BY <1>1, <1>2, <1>3 DEF TasksOK, Placed
<1>4. Mishap => Counted'
  BY <1>1, ContainerAssumption DEF Mishap, TasksOK, Counted
<1>5. ASSUME NEW t \in Tasks, Kill(t) PROVE ContainerTypes'
  <2>1. Moves(t)
    BY <1>5 DEF Kill, Moves, Boxed, Places
  <2> QED BY <1>1, <1>4, <1>5, <2>1, TaskAdvances, DockerStays DEF Kill, BoxMoves, StaleMoves
<1>6. ASSUME NEW t \in Tasks, Breaks(t) PROVE ContainerTypes'
  <2>1. /\ pc[t] \in {"create", "drop", "comment", "use"} => t \in Gates /\ box[t] \in Boxes
        /\ t \in Cleaners => pc[t] \notin {"comment", "use"}
    BY <1>6, KeepsBox DEF Boxed
  <2>2. Moves(t)
    <3>1. CASE pc[t] \in {"comment", "use"}
      BY <1>6, <2>1, <3>1 DEF Breaks, Moves, Boxed, Places, Steps
    <3>2. CASE pc[t] \notin {"comment", "use"}
      BY <1>6, <2>1, <3>2 DEF Breaks, Moves, Boxed, Places, Steps
    <3> QED BY <3>1, <3>2
  <2>3. DockerOK'
    <3>1. CASE UNCHANGED dbs
      BY <1>1, <1>6, <3>1 DEF Breaks, DockerOK, docker
    <3>2. CASE dbs' = dbs \ Own(t)
      BY <1>1, <1>6, <3>2 DEF Breaks, DockerOK, docker
    <3>3. CASE /\ pc[t] = "create" /\ state[box[t]] = "ready"
               /\ dbs' = dbs \union {[box |-> box[t], owner |-> t, marked |-> FALSE]}
      BY <1>1, <1>6, <2>1, <3>3, AddsTyped DEF Breaks
    <3> QED BY <1>6, <3>1, <3>2, <3>3 DEF Breaks
  <2> QED BY <1>4, <1>6, <2>2, <2>3, TaskAdvances DEF Breaks, BoxMoves, StaleMoves
<1>7. ASSUME NEW b \in Boxes, Appears(b) \/ Boots(b) PROVE ContainerTypes'
  <2>1. UNCHANGED <<name, made, owned, dbs, pc, pid, box, stale, mishaps>>
    BY <1>7 DEF Appears, Boots
  <2>2. DockerOK'
    BY <1>1, <1>7, <2>1 DEF Appears, Boots, DockerOK, States, Database
  <2> QED BY <1>1, <1>3, <2>1, <2>2 DEF TasksOK, Counted
<1>8. CASE OldScript
  <2>1. PICK b \in Unmade :
          /\ Reserve(b, Legacy)
          /\ state' = [state EXCEPT ![b] = "ready"]
          /\ dbs' = dbs \union {[box |-> b, owner |-> Person, marked |-> FALSE]}
    BY <1>8 DEF OldScript
  <2>2. b \in Boxes /\ state[b] = "absent" /\ Legacy \in Shapes /\ owned' \subseteq Boxes
    BY <1>1, <1>8 DEF Unmade, Shapes, OldScript, DockerOK
  <2>3. DockerOK'
    BY <1>1, <2>1, <2>2, MakesTyped DEF Reserve
  <2> QED BY <1>3, <1>4, <1>8, <2>3 DEF OldScript
<1>9. CASE PersonRemoves
  <2>1. name \in Boxes /\ Destroy(name)
    BY <1>1, <1>9 DEF PersonRemoves, DockerOK
  <2>2. DockerOK'
    BY <1>1, <2>1, DestroyTyped
  <2> QED BY <1>3, <1>4, <1>9, <2>2 DEF PersonRemoves
<1> QED BY <1>5, <1>6, <1>7, <1>8, <1>9

LEMMA ContainerTypesStep ==
  ASSUME ContainerTypes, [ContainerNext]_containerVars PROVE ContainerTypes'
<1>1. CASE UNCHANGED containerVars
  BY <1>1 DEF containerVars, docker, ContainerTypes, ContainerTypeOK, Placed
<1>2. CASE \E t \in Tasks : Task(t)
  BY <1>2, TaskTypes
<1> QED BY <1>1, <1>2, OthersTypes DEF ContainerNext

LEMMA ContainerTypesHold == ContainerSpec => []ContainerTypes
BY InitContainerTypes, ContainerTypesStep, PTL DEF ContainerSpec

\* A task's step leaves the others where they are.
LEMMA OthersStay ==
  ASSUME ContainerTypes, NEW t \in Tasks, Task(t) \/ Kill(t) \/ Breaks(t)
  PROVE  \A o \in Tasks \ {t} : pc'[o] = pc[o] /\ box'[o] = box[o] /\ stale'[o] = stale[o]
<1>1. \A o \in Tasks \ {t} : pc'[o] = pc[o]
  <2>1. \A step : Goes(t, step) => \A o \in Tasks \ {t} : pc'[o] = pc[o]
    BY KeepsBox DEF Goes, TasksOK
  <2> QED
    BY <2>1 DEF Task, Kill, Breaks, BeginTask, Inspect, Remove, Run, RunStarts, Reinspect, Await,
                StartBox, WaitForPostgres, PsqlFails, ListStale, Reap, ReapDone, CreateDatabase,
                Comment, UseEnds, DropDatabase, CleanInspects, Checked
<1>2. BoxMoves(t) /\ StaleMoves(t)
  BY TaskMoves DEF Kill, Breaks, BoxMoves, StaleMoves
<1>3. \A o \in Tasks \ {t} : box'[o] = box[o] /\ stale'[o] = stale[o]
  BY <1>2, KeepsBox DEF BoxMoves, StaleMoves, TasksOK
<1> QED BY <1>1, <1>3

-----------------------------------------------------------------------------
(* What is not marked as scratch space.                                    *)

Labelled ==
  /\ \A b \in owned : state[b] # "absent"
  /\ \A t \in Tasks : pc[t] = "remove" => box[t] \in owned
  /\ \A d \in dbs : d.owner = Person => ~d.marked /\ d.box \notin owned
  /\ \A t \in Tasks : \A d \in stale[t] : d.marked

\* What a step does to the containers and what is in them: a container that is
\* labelled, or gets a person's database, is made by that step.
Docks ==
  /\ \A b \in Boxes : state[b] # "absent" => state'[b] # "absent"
  /\ \A b \in owned' \ owned : b \in Boxes /\ state[b] = "absent" /\ state'[b] # "absent"
  /\ \A d \in dbs' \ dbs :
       d.owner \in Tasks \/ (~d.marked /\ state[d.box] = "absent" /\ owned' = owned)
  /\ owned \subseteq owned'

LEMMA StaysDocks == ASSUME Stays PROVE Docks
BY DEF Stays, Docks, docker

LEMMA DestroyDocks == ASSUME DockerOK, NEW b \in Boxes, Destroy(b) PROVE Docks
BY DEF Destroy, Docks, DockerOK

LEMMA StartsDocks ==
  ASSUME DockerOK, NEW b \in Boxes, DockerStarts(b), UNCHANGED <<name, made, owned, dbs>>
  PROVE  Docks
BY DEF DockerStarts, Docks, DockerOK

LEMMA AddsDocks ==
  ASSUME UNCHANGED docker, NEW t \in Tasks,
         \A d \in dbs' \ dbs : d.owner = t
  PROVE  Docks
<1>1. state' = state /\ owned' = owned
  BY DEF docker
<1>2. \A d \in dbs' \ dbs : d.owner \in Tasks
  OBVIOUS
<1> QED BY <1>1, <1>2 DEF Docks

LEMMA StepDocks == ASSUME ContainerTypes, ContainerNext PROVE Docks
<1>1. DockerOK /\ TasksOK
  BY TwoParts DEF ContainerTypes
<1>2. ASSUME NEW t \in Tasks, Task(t) PROVE Docks
  <2>1. CASE Remove(t)
    BY <2>1, <1>1, KeepsBox, DestroyDocks, StaysDocks DEF Remove, Removes, From, Boxed
  <2>2. CASE Run(t)
    <3>1. CASE Stays
      BY <3>1, StaysDocks
    <3>2. CASE ~Stays
      <4>1. PICK b \in Unmade : /\ owned' = owned \union {b} /\ UNCHANGED dbs
                                /\ state' = [state EXCEPT ![b] = "reserved"]
        BY <2>2, <3>2 DEF Run, Stays
      <4> QED BY <4>1, <1>1 DEF Docks, Unmade, DockerOK
    <3> QED BY <3>1, <3>2
  <2>3. CASE RunStarts(t) \/ StartBox(t)
    BY <2>3, <1>1, KeepsBox, StartsDocks DEF RunStarts, StartBox, From, Boxed
  <2>4. CASE Reap(t)
    BY <2>4, AddsDocks DEF Reap
  <2>5. CASE CreateDatabase(t)
    BY <2>5, AddsDocks DEF CreateDatabase
  <2>6. CASE Comment(t)
    <3>1. \A d \in Own(t) : [d EXCEPT !.marked = TRUE].owner = t
      BY <1>1 DEF Own, DockerOK, Database
    <3>2. \A d \in dbs' \ dbs : d.owner = t
      BY <2>6, <3>1 DEF Comment
    <3> QED BY <2>6, <3>2, AddsDocks DEF Comment
  <2>7. CASE DropDatabase(t)
    BY <2>7, AddsDocks DEF DropDatabase
  <2> QED
    BY <1>2, <2>1, <2>2, <2>3, <2>4, <2>5, <2>6, <2>7, StaysDocks
       DEF Task, BeginTask, Inspect, Reinspect, Await, WaitForPostgres, PsqlFails, ListStale,
           ReapDone, UseEnds, CleanInspects
<1>3. ASSUME NEW t \in Tasks, Breaks(t) PROVE Docks
  <2>1. \A d \in dbs' \ dbs : d.owner = t
    BY <1>3 DEF Breaks
  <2> QED BY <1>3, <2>1, AddsDocks DEF Breaks
<1>4. ASSUME NEW b \in Boxes, Appears(b) \/ Boots(b) PROVE Docks
  BY <1>1, <1>4 DEF Appears, Boots, Docks, DockerOK
<1>5. CASE OldScript
  <2>1. PICK b \in Unmade :
          /\ state' = [state EXCEPT ![b] = "ready"]
          /\ dbs' = dbs \union {[box |-> b, owner |-> Person, marked |-> FALSE]}
    BY <1>5 DEF OldScript
  <2> QED BY <1>1, <1>5, <2>1 DEF OldScript, Docks, Unmade, DockerOK
<1>6. CASE PersonRemoves
  BY <1>1, <1>6, DestroyDocks DEF PersonRemoves, DockerOK
<1> QED BY <1>2, <1>3, <1>4, <1>5, <1>6, StaysDocks DEF ContainerNext, Kill

LEMMA LabelledStep == ASSUME ContainerTypes, Labelled, ContainerNext PROVE Labelled'
<1>1. DockerOK /\ TasksOK /\ Docks
  BY TwoParts, StepDocks DEF ContainerTypes
<1>2. \A b \in owned' : state'[b] # "absent"
  BY <1>1 DEF Labelled, Docks, DockerOK
<1>3. \A t \in Tasks : pc'[t] = "remove" =>
        (pc[t] = "remove" /\ box'[t] = box[t]) \/ box'[t] \in owned
  <2>1. ASSUME NEW t \in Tasks, Task(t) \/ Kill(t) \/ Breaks(t), pc'[t] = "remove"
        PROVE  (pc[t] = "remove" /\ box'[t] = box[t]) \/ box'[t] \in owned
    <3>1. \A step : Goes(t, step) => pc'[t] = step
      BY <1>1, <2>1 DEF Goes, TasksOK
    <3>2. CASE Inspect(t) \/ CleanInspects(t)
      BY <1>1, <2>1, <3>1, <3>2 DEF Inspect, CleanInspects, Replaces, TasksOK
    <3> QED
      BY <2>1, <3>1, <3>2
         DEF Task, Kill, Breaks, BeginTask, Remove, Run, RunStarts, Reinspect, Await,
             StartBox, WaitForPostgres, PsqlFails, ListStale, Reap, ReapDone, CreateDatabase,
             Comment, UseEnds, DropDatabase, Checked, Psql, From
  <2> QED
    BY <2>1, OthersStay DEF ContainerNext, Appears, Boots, OldScript, PersonRemoves
<1>4. \A t \in Tasks : pc'[t] = "remove" => box'[t] \in owned'
  BY <1>1, <1>3 DEF Labelled, Docks
<1>5. \A d \in dbs' : d.owner = Person => ~d.marked /\ d.box \notin owned'
  <2>1. \A d \in dbs : state[d.box] # "absent"
    BY <1>1 DEF DockerOK
  <2>2. \A d \in dbs' \ dbs : d.owner = Person => ~d.marked /\ d.box \notin owned'
    BY <1>1, ContainerAssumption DEF Docks, Labelled
  <2>3. \A d \in dbs : d.owner = Person => ~d.marked /\ d.box \notin owned'
    BY <1>1, <2>1 DEF Docks, Labelled
  <2> QED BY <2>2, <2>3
<1>6. \A t \in Tasks : \A d \in stale'[t] : d.marked
  <2>1. ASSUME NEW t \in Tasks, Task(t) \/ Kill(t) \/ Breaks(t)
        PROVE  \A d \in stale'[t] : d \in stale[t] \/ d.marked
    BY <1>1, <2>1
       DEF Task, Kill, Breaks, BeginTask, Inspect, Remove, Run, RunStarts, Reinspect, Await,
           StartBox, WaitForPostgres, PsqlFails, ListStale, Reap, ReapDone, CreateDatabase,
           Comment, UseEnds, DropDatabase, CleanInspects, TasksOK
  <2>2. \A t \in Tasks : \A d \in stale'[t] : d \in stale[t] \/ d.marked
    BY <2>1, OthersStay DEF ContainerNext, Appears, Boots, OldScript, PersonRemoves
  <2> QED BY <2>2 DEF Labelled
<1> QED BY <1>2, <1>4, <1>5, <1>6 DEF Labelled

LEMMA LabelledHolds == ContainerSpec => [](ContainerTypes /\ Labelled)
<1>1. ContainerInit => Labelled
  BY DEF ContainerInit, Labelled
<1>2. ContainerTypes /\ Labelled /\ [ContainerNext]_containerVars => Labelled'
  <2>1. Labelled /\ UNCHANGED containerVars => Labelled'
    BY DEF Labelled, containerVars, docker
  <2> QED BY <2>1, LabelledStep
<1> QED BY <1>1, <1>2, InitContainerTypes, ContainerTypesStep, PTL DEF ContainerSpec

\* What is not marked as scratch space is removed by nobody but a person.
THEOREM PersonalDataStaysAlways == ContainerSpec => PersonalDataStays
<1>1. ASSUME ContainerTypes, Labelled, ContainerNext, ~PersonRemoves PROVE Personal \subseteq dbs'
  <2>1. DockerOK /\ TasksOK
    BY <1>1, TwoParts DEF ContainerTypes
  <2>2. ASSUME NEW d \in dbs, d.owner = Person PROVE d \in dbs'
    <3>1. \A t \in Tasks : d \notin Own(t) /\ d \notin stale[t]
      BY <1>1, <2>2, ContainerAssumption DEF Labelled, Own
    <3>2. ASSUME NEW t \in Tasks, Remove(t) PROVE d \in dbs'
      BY <1>1, <2>2, <3>2 DEF Remove, Removes, Destroy, Labelled, Stays, From
    <3>3. ASSUME NEW t \in Tasks, Task(t), ~Remove(t) PROVE d \in dbs'
      BY <2>2, <3>1, <3>3
         DEF Task, BeginTask, Inspect, Run, RunStarts, Reinspect, Await,
             StartBox, WaitForPostgres, PsqlFails, ListStale, Reap, ReapDone, CreateDatabase,
             Comment, UseEnds, DropDatabase, CleanInspects, Stays
    <3> QED
      BY <1>1, <2>2, <3>1, <3>2, <3>3
         DEF ContainerNext, Kill, Breaks, Appears, Boots, OldScript, Stays
  <2> QED BY <2>2 DEF Personal
<1>2. ContainerTypes /\ Labelled /\ [ContainerNext]_containerVars
        => [Personal \subseteq dbs' \/ PersonRemoves]_containerVars
  BY <1>1
<1> QED BY <1>2, LabelledHolds, PTL DEF ContainerSpec, PersonalDataStays

-----------------------------------------------------------------------------
(* The database a task works in.                                           *)

\* A task that works in its database has one in the container it inspected or
\* made, while that is there.
Using == {"comment", "use", "drop"}
HasDatabase(t) == \E d \in Own(t) : d.box = box[t]
UsedInv == \A t \in Gates : pc[t] \in Using => state[box[t]] = "removed" \/ HasDatabase(t)

LEMMA RemovedStays ==
  ASSUME ContainerTypes, ContainerNext, NEW b \in Boxes, state[b] = "removed"
  PROVE  state'[b] = "removed"
<1>1. DockerOK
  BY TwoParts DEF ContainerTypes
<1>2. ASSUME NEW t \in Tasks, Task(t) PROVE state'[b] = "removed"
  <2>1. state' = state \/ Remove(t) \/ Run(t) \/ RunStarts(t) \/ StartBox(t)
    BY <1>2 DEF Task, BeginTask, Inspect, Reinspect, Await, WaitForPostgres, PsqlFails, ListStale,
                Reap, ReapDone, CreateDatabase, Comment, UseEnds, DropDatabase, CleanInspects,
                Stays, docker
  <2>2. CASE Remove(t)
    BY <1>1, <2>2 DEF Remove, Destroy, Stays, docker, DockerOK
  <2>3. CASE Run(t)
    BY <1>1, <2>3 DEF Run, docker, Unmade, DockerOK
  <2>4. CASE RunStarts(t) \/ StartBox(t)
    BY <1>1, <2>4 DEF RunStarts, StartBox, DockerStarts, DockerOK
  <2> QED BY <2>1, <2>2, <2>3, <2>4
<1>3. CASE OldScript
  BY <1>1, <1>3 DEF OldScript, Unmade, DockerOK
<1>4. CASE PersonRemoves
  BY <1>1, <1>4 DEF PersonRemoves, Destroy, DockerOK
<1>5. ASSUME NEW c \in Boxes, Appears(c) \/ Boots(c) PROVE state'[b] = "removed"
  BY <1>1, <1>5 DEF Appears, Boots, DockerOK
<1> QED BY <1>2, <1>3, <1>4, <1>5 DEF ContainerNext, Kill, Breaks, Stays, docker

\* Nobody else's step takes a task's database: it goes with its container, or
\* its task has ended.
LEMMA NobodyElseTakes ==
  ASSUME ContainerTypes, Labelled, NEW t \in Gates, Alive(t), NEW d \in Own(t),
         \/ \E o \in Tasks \ {t} : Task(o) \/ Kill(o) \/ Breaks(o)
         \/ \E b \in Boxes : Appears(b) \/ Boots(b)
         \/ OldScript \/ PersonRemoves
  PROVE  d \in dbs' \/ state'[d.box] = "removed"
<1>1. DockerOK /\ d \in dbs /\ d.owner = t /\ t \in Tasks /\ t # Person /\ d.box \in Boxes
  BY TwoParts, ContainerAssumption DEF ContainerTypes, Own, Tasks, DockerOK, Database
<1>2. ASSUME NEW b, Destroy(b) PROVE d \in dbs' \/ state'[d.box] = "removed"
  BY <1>1, <1>2 DEF Destroy, DockerOK
<1>3. ASSUME NEW o \in Tasks \ {t}, Task(o) PROVE d \in dbs' \/ state'[d.box] = "removed"
  <2>1. d \notin Own(o)
    BY <1>1, <1>3 DEF Own
  <2>2. CASE Remove(o)
    BY <1>1, <1>2, <2>2 DEF Remove, Stays
  <2>3. CASE Reap(o)
    <3>1. ~Reaps(o, d)
      BY <1>1 DEF Reaps, Runs
    <3> QED BY <1>1, <2>3, <3>1 DEF Reap
  <2>4. CASE Comment(o) \/ DropDatabase(o) \/ CreateDatabase(o)
    BY <1>1, <2>1, <2>4 DEF Comment, DropDatabase, CreateDatabase
  <2> QED
    BY <1>1, <1>3, <2>2, <2>3, <2>4
       DEF Task, BeginTask, Inspect, Run, RunStarts, Reinspect, Await, StartBox,
           WaitForPostgres, PsqlFails, ListStale, ReapDone, UseEnds, CleanInspects, Stays
<1>4. ASSUME NEW o \in Tasks \ {t}, Kill(o) \/ Breaks(o) PROVE d \in dbs'
  <2>1. d \notin Own(o)
    BY <1>1, <1>4 DEF Own
  <2> QED BY <1>1, <1>4, <2>1 DEF Kill, Breaks, Stays
<1> QED BY <1>1, <1>2, <1>3, <1>4 DEF Appears, Boots, OldScript, PersonRemoves

\* A task's own step: it gets its database before it works in it, and marks it.
LEMMA OwnStepKeeps ==
  ASSUME ContainerTypes, UsedInv, NEW t \in Gates, Task(t) \/ Kill(t) \/ Breaks(t),
         pc'[t] \in Using
  PROVE  state'[box'[t]] = "removed" \/ HasDatabase(t)'
<1>1. DockerOK /\ TasksOK /\ t \in Tasks
  BY TwoParts DEF ContainerTypes, Tasks
<1>2. \A step : Goes(t, step) => pc'[t] = step
  BY <1>1 DEF Goes, TasksOK
<1>3. CreateDatabase(t) \/ Comment(t) \/ UseEnds(t) \/ Breaks(t)
  BY <1>2 DEF Task, Kill, BeginTask, Inspect, Remove, Run, RunStarts, Reinspect, Await,
              StartBox, WaitForPostgres, PsqlFails, ListStale, Reap, ReapDone,
              DropDatabase, CleanInspects, Checked, Psql, From, Using
<1>4. CASE CreateDatabase(t)
  <2>1. [box |-> box[t], owner |-> t, marked |-> FALSE] \in dbs' /\ box'[t] = box[t]
    BY <1>4 DEF CreateDatabase
  <2> QED BY <2>1 DEF HasDatabase, Own
<1>5. CASE Comment(t)
  <2>1. pc[t] \in Using /\ box' = box /\ state' = state
    BY <1>5 DEF Comment, Psql, From, Using, docker
  <2>2. ASSUME NEW d \in Own(t), d.box = box[t] PROVE HasDatabase(t)'
    <3>1. LET e == [d EXCEPT !.marked = TRUE]
          IN  e \in dbs' /\ e.owner = t /\ e.box = box[t]
      BY <1>1, <1>5, <2>2 DEF Comment, Own, DockerOK, Database
    <3> QED BY <2>1, <3>1 DEF HasDatabase, Own
  <2> QED BY <2>1, <2>2 DEF UsedInv, HasDatabase
<1>6. CASE UseEnds(t) \/ Breaks(t)
  <2>1. pc[t] \in {"comment", "use"} /\ UNCHANGED dbs
    BY <1>2, <1>6 DEF UseEnds, Breaks, From, Using, Stays
  <2>2. box' = box /\ state' = state
    BY <1>6 DEF UseEnds, Breaks, Stays, docker
  <2> QED BY <2>1, <2>2 DEF UsedInv, HasDatabase, Own, Using
<1> QED BY <1>3, <1>4, <1>5, <1>6

LEMMA UsedStep ==
  ASSUME ContainerTypes, Labelled, UsedInv, ContainerNext PROVE UsedInv'
<1> SUFFICES ASSUME NEW t \in Gates, pc'[t] \in Using
             PROVE  state'[box'[t]] = "removed" \/ HasDatabase(t)'
  BY DEF UsedInv
<1>1. t \in Tasks /\ DockerOK
  BY TwoParts DEF Tasks, ContainerTypes
<1>2. CASE Task(t) \/ Kill(t) \/ Breaks(t)
  BY <1>2, OwnStepKeeps
<1>3. CASE \/ \E o \in Tasks \ {t} : Task(o) \/ Kill(o) \/ Breaks(o)
           \/ \E b \in Boxes : Appears(b) \/ Boots(b)
           \/ OldScript \/ PersonRemoves
  <2>1. pc'[t] = pc[t] /\ box'[t] = box[t]
    BY <1>1, <1>3, OthersStay DEF Appears, Boots, OldScript, PersonRemoves
  <2>2. Alive(t) /\ box[t] \in Boxes
    BY <1>1, <2>1, KeepsBox DEF Alive, Using, Steps, Boxed
  <2>3. CASE state[box[t]] = "removed"
    BY <2>1, <2>2, <2>3, RemovedStays
  <2>4. ASSUME NEW d \in Own(t), d.box = box[t]
        PROVE  state'[box'[t]] = "removed" \/ HasDatabase(t)'
    <3>1. d \in dbs' \/ state'[d.box] = "removed"
      BY <1>3, <2>2, NobodyElseTakes
    <3> QED BY <2>1, <2>4, <3>1 DEF HasDatabase, Own
  <2> QED BY <2>1, <2>3, <2>4 DEF UsedInv, HasDatabase
<1> QED BY <1>2, <1>3 DEF ContainerNext

\* Nobody else's cleanup drops the database a task works in: not a reaper that
\* listed it, not one that meets the same process id.
THEOREM UsedDatabaseStaysAlways == ContainerSpec => []UsedDatabaseStays
<1>1. ContainerInit => UsedInv
  BY DEF ContainerInit, UsedInv, Using, Tasks
<1>2. ContainerTypes /\ Labelled /\ UsedInv /\ [ContainerNext]_containerVars => UsedInv'
  <2>1. UsedInv /\ UNCHANGED containerVars => UsedInv'
    BY DEF UsedInv, HasDatabase, Own, containerVars, docker
  <2> QED BY <2>1, UsedStep
<1>3. UsedInv => UsedDatabaseStays
  BY DEF UsedInv, UsedDatabaseStays, HasDatabase, Using
<1> QED BY <1>1, <1>2, <1>3, LabelledHolds, PTL DEF ContainerSpec

-----------------------------------------------------------------------------
(* Losing the race for the name.                                           *)

\* Nothing has gone wrong, nobody cleans, and everybody wants the same.
Calm ==
  /\ mishaps = 0
  /\ \A c \in Cleaners : pc[c] = "new"
  /\ \A g, h \in Gates : Begun(g) /\ Begun(h) => Wants[g] = Wants[h]

\* Then there is one container at most, which has the name, is what everybody
\* wants, and comes up before anybody works in it.
Holding == (Boxed \ {"remove"}) \union {"reinspect"}
Up == {"list", "reap", "create", "comment", "use", "drop"}
Going(g) ==
  /\ pc[g] \notin {"remove", "failed", "killed"}
  /\ pc[g] = "await" => name # NoBox
  /\ pc[g] \in Holding => name # NoBox /\ box[g] = name
  /\ pc[g] \in Holding \ {"running"} => state[name] # "reserved"
  /\ pc[g] \in Up => state[name] = "ready"
OneContainer ==
  /\ \A b \in Boxes : state[b] # "absent" => b = name
  /\ name # NoBox => name \in owned /\ \E g \in Gates : Begun(g) /\ made[name] = Wants[g]
Peace == OneContainer /\ \A g \in Gates : Going(g)
CalmInv == Calm => Peace

LEMMA CalmBefore ==
  ASSUME ContainerTypes, ContainerNext, Calm'
  PROVE  /\ Calm
         /\ \/ \E g \in Gates : Task(g)
            \/ \E b \in Boxes : Appears(b) \/ Boots(b)
         /\ \A g \in Gates : Begun(g) => Begun(g)'
<1>1. TasksOK
  BY TwoParts DEF ContainerTypes
<1>2. ~Mishap
  BY <1>1, ContainerAssumption DEF Mishap, TasksOK, Counted, Calm
<1>3. ASSUME NEW t \in Tasks, Task(t) PROVE pc'[t] # "new" /\ mishaps' = mishaps
  <2>1. \A step : Goes(t, step) => pc'[t] = step
    BY <1>1 DEF Goes, TasksOK
  <2> QED
    BY <1>3, <2>1, TaskMoves
       DEF Task, BeginTask, Inspect, Remove, Run, RunStarts, Reinspect, Await,
           StartBox, WaitForPostgres, PsqlFails, ListStale, Reap, ReapDone, CreateDatabase,
           Comment, UseEnds, DropDatabase, CleanInspects, Checked, Psql, From
<1>4. /\ \A c \in Cleaners : ~Task(c)
      /\ \/ \E g \in Gates : Task(g)
         \/ \E b \in Boxes : Appears(b) \/ Boots(b)
  BY <1>2, <1>3 DEF Calm, ContainerNext, Kill, Breaks, OldScript, PersonRemoves, Tasks
<1>5. \A t \in Tasks : Begun(t) => Begun(t)'
  BY <1>3, <1>4, OthersStay DEF Begun, Appears, Boots, Tasks
<1>6. mishaps' = mishaps
  BY <1>3, <1>4 DEF Appears, Boots, Tasks
<1> QED BY <1>4, <1>5, <1>6 DEF Calm, Begun, Tasks

\* While the container only comes further up, nobody is disturbed.
LEMMA OthersGoOn ==
  ASSUME NEW q \in Gates, Going(q), pc'[q] = pc[q], box'[q] = box[q], name' = name,
         name # NoBox /\ state[name] # "reserved" => state'[name] # "reserved",
         name # NoBox /\ state[name] = "ready" => state'[name] = "ready"
  PROVE  Going(q)'
BY DEF Going, Holding, Up, Boxed

LEMMA OneContainerStays ==
  ASSUME OneContainer, name' = name, made' = made, owned' = owned,
         \A b \in Boxes : state'[b] # "absent" => state[b] # "absent",
         \A g \in Gates : Begun(g) => Begun(g)'
  PROVE  OneContainer'
BY DEF OneContainer

LEMMA UpStarts ==
  ASSUME DockerOK, name \in Boxes, state[name] # "reserved", DockerStarts(name)
  PROVE  /\ state'[name] # "reserved"
         /\ state[name] = "ready" => state'[name] = "ready"
         /\ \A b \in Boxes : state'[b] # "absent" => state[b] # "absent"
BY DEF DockerStarts, DockerOK

LEMMA GateGoesOn ==
  ASSUME ContainerTypes, Calm, Calm', Peace, NEW g \in Gates, Task(g),
         \A h \in Gates : Begun(h) => Begun(h)'
  PROVE  Peace'
<1>1. DockerOK /\ TasksOK /\ g \in Tasks /\ g \notin Cleaners /\ Going(g)
  BY TwoParts, ContainerAssumption DEF ContainerTypes, Tasks, Peace
<1>2. \A step : Goes(g, step) => pc'[g] = step
  BY <1>1 DEF Goes, TasksOK
<1>3. \A q \in Gates \ {g} : pc'[q] = pc[q] /\ box'[q] = box[q] /\ Going(q)
  BY <1>1, OthersStay DEF Tasks, Peace
<1>4. name # NoBox => name \in Boxes
  BY <1>1 DEF DockerOK
<1>5. Begun(g) /\ name # NoBox => made[name] = Wants[g]
  BY DEF Calm, Peace, OneContainer
\* Where the containers stay as they are.
<1>6. ASSUME UNCHANGED docker, Going(g)' PROVE Peace'
  <2>1. OneContainer'
    BY <1>6, OneContainerStays DEF docker, Peace
  <2>2. \A q \in Gates \ {g} : Going(q)'
    BY <1>3, <1>6, OthersGoOn DEF docker
  <2> QED BY <1>6, <2>1, <2>2 DEF Peace
\* Where it is started.
<1>7. ASSUME name \in Boxes, state[name] # "reserved", DockerStarts(name),
             UNCHANGED <<name, made, owned>>, Going(g)'
      PROVE  Peace'
  <2>1. OneContainer'
    BY <1>1, <1>7, UpStarts, OneContainerStays DEF Peace
  <2>2. \A q \in Gates \ {g} : Going(q)'
    BY <1>1, <1>3, <1>7, UpStarts, OthersGoOn
  <2> QED BY <1>7, <2>1, <2>2 DEF Peace
<1>8. CASE BeginTask(g)
  <2>1. Going(g)'
    BY <1>2, <1>8 DEF BeginTask, Going, Holding, Up, Boxed
  <2> QED BY <1>6, <1>8, <2>1 DEF BeginTask, Stays
<1>9. CASE Inspect(g)
  <2>1. Begun(g)
    BY <1>9 DEF Inspect, From, Begun
  <2>2. Going(g)'
    <3>1. CASE Inspectable(name)
      <4>1. pc'[g] = "start" /\ box'[g] = name /\ name # NoBox /\ state[name] # "reserved"
        BY <1>1, <1>2, <1>5, <1>9, <2>1, <3>1 DEF Inspect, Inspectable, TasksOK
      <4> QED BY <1>9, <4>1 DEF Inspect, Stays, docker, Going, Holding, Up, Boxed
    <3>2. CASE ~Inspectable(name)
      BY <1>2, <1>9, <3>2 DEF Inspect, Going, Holding, Up, Boxed
    <3> QED BY <3>1, <3>2
  <2> QED BY <1>6, <1>9, <2>2 DEF Inspect, Stays
<1>10. CASE Run(g)
  <2>1. CASE name = NoBox
    <3>1. PICK b \in Unmade :
            /\ Reserve(b, Wants[g]) /\ owned' = owned \union {b}
            /\ state' = [state EXCEPT ![b] = "reserved"]
            /\ box' = [box EXCEPT ![g] = b] /\ Goes(g, "running")
      BY <1>10, <2>1 DEF Run
    <3>2. /\ b \in Boxes /\ b # NoBox /\ name' = b /\ made'[b] = Wants[g]
          /\ box'[g] = b /\ pc'[g] = "running" /\ state'[b] = "reserved"
          /\ \A c \in Boxes \ {b} : state'[c] = state[c]
      BY <1>1, <1>2, <3>1, ContainerAssumption DEF Unmade, Reserve, DockerOK, TasksOK
    <3>3. \A c \in Boxes : state[c] = "absent"
      BY <2>1, ContainerAssumption DEF Peace, OneContainer
    <3>4. OneContainer'
      BY <3>1, <3>2, <3>3 DEF OneContainer, Begun
    <3>5. Going(g)'
      BY <3>2 DEF Going, Holding, Up, Boxed
    <3>6. \A q \in Gates \ {g} : pc[q] \notin Holding /\ pc[q] # "await"
      BY <1>3, <2>1 DEF Going
    <3>7. Up \subseteq Holding
      BY DEF Up, Holding, Boxed
    <3>8. \A q \in Gates \ {g} : Going(q)'
      BY <1>3, <3>6, <3>7 DEF Going
    <3> QED BY <3>4, <3>5, <3>8 DEF Peace
  <2>2. CASE name # NoBox
    <3>1. pc'[g] = "await" /\ UNCHANGED docker
      BY <1>2, <1>10, <2>2 DEF Run, Reserve
    <3>2. Going(g)'
      BY <2>2, <3>1 DEF docker, Going, Holding, Up, Boxed
    <3> QED BY <1>6, <3>1, <3>2
  <2> QED BY <2>1, <2>2
<1>11. CASE RunStarts(g) \/ StartBox(g)
  <2>1. pc[g] \in {"running", "start"} /\ pc[g] \in Holding
    BY <1>11 DEF RunStarts, StartBox, From, Holding, Boxed
  <2>2. /\ box[g] = name /\ name \in Boxes /\ state[name] \notin {"reserved", "removed"}
        /\ DockerStarts(name) /\ UNCHANGED <<name, made, owned, box>>
    BY <1>1, <1>4, <1>11, <2>1 DEF Going, RunStarts, StartBox, DockerOK, From
  <2>3. pc'[g] \in {"reinspect", "wait"}
    BY <1>2, <1>11, <2>2 DEF RunStarts, StartBox
  <2>4. state'[name] # "reserved"
    BY <1>1, <2>2, UpStarts
  <2>5. Going(g)'
    BY <2>2, <2>3, <2>4, ContainerAssumption DEF Going, Holding, Up, Boxed
  <2> QED BY <1>7, <2>2, <2>5
<1>12. CASE Reinspect(g) \/ Await(g)
  <2>1. Inspectable(name) /\ Begun(g)
    BY <1>1, <1>4, <1>12
       DEF Reinspect, Await, Awaits, Inspectable, From, Begun, Going, Holding, DockerOK, States
  <2>2. pc'[g] = "start" /\ box'[g] = name /\ name # NoBox /\ state[name] # "reserved"
    BY <1>1, <1>2, <1>5, <1>12, <2>1 DEF Reinspect, Await, Checked, Inspectable, TasksOK
  <2>3. Going(g)'
    BY <1>12, <2>2 DEF Reinspect, Await, Stays, docker, Going, Holding, Up, Boxed
  <2> QED BY <1>6, <1>12, <2>3 DEF Reinspect, Await, Stays
<1>13. CASE WaitForPostgres(g)
  <2>1. box[g] = name /\ name # NoBox /\ state[name] = "ready"
    BY <1>1, <1>13 DEF WaitForPostgres, From, Going, Holding, Boxed, DockerOK
  <2>2. pc'[g] = "list" /\ box' = box /\ UNCHANGED docker
    BY <1>2, <1>13, <2>1 DEF WaitForPostgres, Stays
  <2>3. Going(g)'
    BY <2>1, <2>2 DEF docker, Going, Holding, Up, Boxed
  <2> QED BY <1>6, <2>2, <2>3
<1>14. CASE pc[g] \in Up
  <2>1. box[g] = name /\ name # NoBox /\ state[name] = "ready"
    BY <1>1, <1>14 DEF Going, Up, Holding, Boxed
  <2>2. box' = box /\ UNCHANGED docker /\ pc'[g] \in Up \union {"done"}
    BY <1>1, <1>2, <1>14, <2>1
       DEF Task, BeginTask, Inspect, Remove, Run, RunStarts, Reinspect, Await,
           StartBox, WaitForPostgres, PsqlFails, ListStale, Reap, ReapDone, CreateDatabase,
           Comment, UseEnds, DropDatabase, CleanInspects, Psql, From, Up, Stays
  <2>3. Going(g)'
    BY <2>1, <2>2 DEF docker, Going, Holding, Up, Boxed
  <2> QED BY <1>6, <2>2, <2>3
<1>15. ~Remove(g) /\ ~CleanInspects(g)
  BY <1>1 DEF Remove, CleanInspects, From, Going
<1> QED
  BY <1>8, <1>9, <1>10, <1>11, <1>12, <1>13, <1>14, <1>15
     DEF Task, PsqlFails, ListStale, Reap, ReapDone, CreateDatabase, Comment, UseEnds,
         DropDatabase, Psql, From, Up

LEMMA CalmStep == ASSUME ContainerTypes, CalmInv, ContainerNext PROVE CalmInv'
<1> SUFFICES ASSUME Calm' PROVE Peace'
  BY DEF CalmInv
<1>1. Calm /\ Peace /\ \A g \in Gates : Begun(g) => Begun(g)'
  BY CalmBefore DEF CalmInv
<1>2. ASSUME NEW b \in Boxes, Appears(b) \/ Boots(b) PROVE Peace'
  <2>1. /\ UNCHANGED <<name, made, owned, pc, box>> /\ DockerOK
        /\ \A c \in Boxes : state'[c] # "absent" => state[c] # "absent"
        /\ \A c \in Boxes : /\ state[c] # "reserved" => state'[c] # "reserved"
                            /\ state[c] = "ready" => state'[c] = "ready"
    BY <1>2, TwoParts DEF Appears, Boots, ContainerTypes, DockerOK
  <2>2. OneContainer'
    BY <1>1, <2>1, OneContainerStays DEF Peace
  <2>3. \A g \in Gates : Going(g)'
    BY <1>1, <2>1, OthersGoOn DEF Peace, DockerOK
  <2> QED BY <2>2, <2>3 DEF Peace
<1> QED BY <1>1, <1>2, CalmBefore, GateGoesOn

\* Losing the race for the name costs no task its database: a task fails only
\* because of a mishap, or of another that asks for another image or cleans.
THEOREM FailsOnlyIfDisturbedAlways == ContainerSpec => []FailsOnlyIfDisturbed
<1>1. ContainerInit => CalmInv
  BY ContainerAssumption
     DEF ContainerInit, CalmInv, Peace, OneContainer, Going, Holding, Up, Boxed, Tasks
<1>2. ContainerTypes /\ CalmInv /\ [ContainerNext]_containerVars => CalmInv'
  <2>1. CalmInv /\ UNCHANGED containerVars => CalmInv'
    BY DEF CalmInv, Calm, Peace, OneContainer, Going, Begun, containerVars, docker
  <2> QED BY <2>1, CalmStep
<1>3. ContainerTypes /\ CalmInv => FailsOnlyIfDisturbed
  <2>1. ContainerTypes => mishaps \in Nat
    BY TwoParts, ContainerAssumption DEF ContainerTypes, TasksOK, Counted
  <2> SUFFICES ASSUME ContainerTypes, CalmInv, NEW t \in Gates, pc[t] = "failed",
                      mishaps = 0, \A c \in Cleaners : pc[c] = "new",
                      \A g \in Gates : Wants[g] # Wants[t] => pc[g] = "new"
               PROVE  FALSE
    BY <2>1 DEF FailsOnlyIfDisturbed
  <2>2. Calm
    BY DEF Calm, Begun
  <2> QED BY <2>2 DEF CalmInv, Peace, Going
<1> QED BY <1>1, <1>2, <1>3, InitContainerTypes, ContainerTypesStep, PTL DEF ContainerSpec

\* The types, and that a database is in a container that is up.
THEOREM ContainerTypeCorrect == ContainerSpec => []ContainerTypeOK
<1>1. ContainerTypes => ContainerTypeOK
  BY DEF ContainerTypes
<1> QED BY <1>1, ContainerTypesHold, PTL

-----------------------------------------------------------------------------
(* drizzle-check passes only on what it found current.                     *)

TaskSteps == {"idle", "tools", "database", "work", "compare", "rm", "copy", "done"}
TaskRecords ==
  [at : TaskSteps, command : Commands,
   exit : {taskExitCodes[o] : o \in DOMAIN taskExitCodes} \union {Unfinished},
   since : 0..MaxVersion, candidate : 0..MaxVersion, listed : Directories]

\* What a command under way knows: it began at a version that was the checkout's
\* then, and a check has generated its candidate from one that was since. A run
\* that only gives help is no command's.
TaskInv(t) ==
  /\ task[t].at = "idle" => task[t].command = IdleTask.command
  /\ task[t].at \notin {"idle", "done"} => task[t].since \in 1..migrations
  /\ task[t].at \in {"rm", "copy"} => task[t].command = "drizzle-generate"
  /\ task[t].at = "compare" =>
       /\ task[t].command = "drizzle-check"
       /\ task[t].candidate \in task[t].since..migrations

CheckInv == DbTypeOK /\ \A t \in Invocations : TaskInv(t)

LEMMA CodeTypes ==
  /\ taskExitCodes.passed = 0 /\ taskExitCodes.failed = 1
  /\ taskExitCodes.usage = 2 /\ taskExitCodes.setup = 3
  /\ {taskExitCodes[o] : o \in DOMAIN taskExitCodes} = {0, 1, 2, 3}
BY DEF taskExitCodes

LEMMA DbTypes ==
  /\ Empty \in Directories /\ IdleTask \in TaskRecords
  /\ DbTypeOK <=> /\ setting \in Machines /\ migrations \in 0..MaxVersion
                  /\ out \in Directories /\ task \in [Invocations -> TaskRecords]
<1>1. "clean" \in Commands
  BY Zenon DEF Commands, accepts
<1>2. Empty \in Directories
  BY VersionAssumption DEF Empty, Directories, Foreign
<1> QED BY <1>1, <1>2, VersionAssumption
        DEF IdleTask, TaskRecords, TaskSteps, DbTypeOK

(* A step of one task leaves the others theirs.                            *)
LEMMA TaskStepKeeps ==
  ASSUME CheckInv, NEW t \in Invocations, NEW record \in TaskRecords,
         task' = [task EXCEPT ![t] = record], UNCHANGED setting,
         migrations' \in migrations..MaxVersion, out' \in Directories,
         TaskInv(t)'
  PROVE  CheckInv'
<1>1. migrations \in 0..MaxVersion /\ migrations' \in 0..MaxVersion /\ migrations <= migrations'
  BY VersionAssumption, DbTypes DEF CheckInv
<1>2. \A u \in Invocations \ {t} : task'[u] = task[u] /\ task[u] \in TaskRecords
  BY DbTypes DEF CheckInv
<1>3. ASSUME NEW u \in Invocations \ {t} PROVE TaskInv(u)'
  BY <1>1, <1>2, VersionAssumption DEF CheckInv, TaskInv, TaskRecords
<1>4. DbTypeOK'
  BY <1>1, DbTypes, VersionAssumption DEF CheckInv, DbTypeOK, TaskRecords, TaskSteps
<1> QED BY <1>3, <1>4 DEF CheckInv

LEMMA InitCheckInv == ASSUME DbInit PROVE CheckInv
<1>1. DbTypeOK
  BY DbTypes, VersionAssumption DEF DbInit, Machines
<1> QED BY <1>1 DEF DbInit, CheckInv, TaskInv, IdleTask

(* What the steps of one task have in common.                               *)
LEMMA OfTask ==
  ASSUME CheckInv, NEW t \in Invocations
  PROVE  /\ task \in [Invocations -> TaskRecords] /\ task[t] \in TaskRecords /\ TaskInv(t)
         /\ migrations \in 0..MaxVersion /\ migrations \in migrations..MaxVersion
         /\ out \in Directories /\ setting \in Machines
BY DbTypes, VersionAssumption DEF CheckInv

LEMMA ExitKeeps ==
  ASSUME CheckInv, NEW t \in Invocations, NEW o \in DOMAIN taskExitCodes, TaskExits(t, o),
         UNCHANGED setting, migrations' \in migrations..MaxVersion, out' \in Directories
  PROVE  CheckInv'
<1> DEFINE record == [task[t] EXCEPT !.at = "done", !.exit = taskExitCodes[o]]
<1>1. record \in TaskRecords /\ record.at = "done"
  BY OfTask DEF TaskRecords, TaskSteps
<1>2. task' = [task EXCEPT ![t] = record]
  BY OfTask DEF TaskExits
<1> HIDE DEF record
<1>3. TaskInv(t)'
  BY <1>1, <1>2, OfTask DEF TaskInv
<1> QED BY <1>1, <1>2, <1>3, TaskStepKeeps

LEMMA EndKeeps ==
  ASSUME CheckInv, NEW t \in Invocations, task' = [task EXCEPT ![t] = IdleTask],
         UNCHANGED <<setting, migrations>>, out' \in Directories
  PROVE  CheckInv'
<1>1. TaskInv(t)' /\ IdleTask \in TaskRecords
  BY OfTask, DbTypes DEF TaskInv, IdleTask
<1> QED BY <1>1, OfTask, TaskStepKeeps

LEMMA GoesKeeps ==
  ASSUME CheckInv, NEW t \in Invocations, NEW step \in TaskSteps, TaskGoes(t, step),
         task[t].at \notin {"idle", "done"}, UNCHANGED <<setting, migrations>>,
         out' \in Directories, step \notin {"idle", "compare"},
         step \in {"rm", "copy"} => task[t].at \in {"rm", "copy"}
  PROVE  CheckInv'
<1> DEFINE record == [task[t] EXCEPT !.at = step]
<1>1. /\ record \in TaskRecords /\ record.at = step
      /\ record.since = task[t].since /\ record.command = task[t].command
  BY OfTask DEF TaskRecords
<1>2. task' = [task EXCEPT ![t] = record]
  BY OfTask DEF TaskGoes
<1> HIDE DEF record
<1>3. TaskInv(t)'
  BY <1>1, <1>2, OfTask DEF TaskInv
<1> QED BY <1>1, <1>2, <1>3, OfTask, TaskStepKeeps

LEMMA BeginCommandKeeps ==
  ASSUME CheckInv, NEW t \in Invocations, NEW c \in Commands, BeginCommand(t, c)
  PROVE  CheckInv'
<1> DEFINE record == [IdleTask EXCEPT !.at = "tools", !.command = c, !.since = migrations]
<1>1. record \in TaskRecords /\ record.at = "tools" /\ record.since = migrations
  BY OfTask, DbTypes DEF TaskRecords, TaskSteps
<1>2. task' = [task EXCEPT ![t] = record] /\ UNCHANGED <<setting, migrations, out>>
      /\ migrations \in 1..migrations
  BY OfTask, VersionAssumption DEF BeginCommand
<1> HIDE DEF record
<1>3. TaskInv(t)'
  BY <1>1, <1>2, OfTask DEF TaskInv
<1> QED BY <1>1, <1>2, <1>3, OfTask, TaskStepKeeps

LEMMA GenerateIntoKeeps ==
  ASSUME CheckInv, NEW t \in Invocations, GenerateInto(t) PROVE CheckInv'
<1> DEFINE step == IF task[t].command = "drizzle-check" THEN "compare" ELSE "rm"
           record == [task[t] EXCEPT !.candidate = migrations, !.at = step]
<1>1. /\ task[t].command \in {"drizzle-generate", "drizzle-check"}
      /\ task[t].since \in 1..migrations
  BY OfTask DEF GenerateInto, TaskAt, TaskInv
<1>2. task' = [task EXCEPT ![t] = record] /\ UNCHANGED <<setting, migrations, out>>
  BY OfTask DEF GenerateInto
<1>3. step \in TaskSteps /\ step \in {"compare", "rm"}
      /\ (step = "compare" <=> task[t].command = "drizzle-check")
  BY DEF TaskSteps
<1> HIDE DEF step
<1>4. /\ record \in TaskRecords /\ record.at = step /\ record.since = task[t].since
      /\ record.command = task[t].command /\ record.candidate = migrations
  BY <1>3, OfTask DEF TaskRecords
<1> HIDE DEF record
<1>5. migrations \in task[t].since..migrations
  BY <1>1, OfTask, VersionAssumption
<1>6. TaskInv(t)'
  BY <1>1, <1>2, <1>3, <1>4, <1>5, OfTask DEF TaskInv
<1> QED BY <1>2, <1>4, <1>6, OfTask, TaskStepKeeps

LEMMA ListKeeps == ASSUME CheckInv, NEW t \in Invocations, List(t) PROVE CheckInv'
<1>1. CASE TaskExits(t, "failed")
  BY <1>1, OfTask, ExitKeeps DEF List, taskExitCodes
<1>2. CASE task' = [task EXCEPT ![t].listed = out]
  <2> DEFINE record == [task[t] EXCEPT !.listed = out]
  <2>1. /\ record \in TaskRecords /\ record.at = task[t].at /\ record.since = task[t].since
        /\ record.command = task[t].command /\ record.candidate = task[t].candidate
    BY OfTask DEF TaskRecords
  <2>2. task' = [task EXCEPT ![t] = record] /\ UNCHANGED <<setting, migrations, out>>
    BY <1>2, OfTask DEF List
  <2> HIDE DEF record
  <2>3. TaskInv(t)'
    BY <2>1, <2>2, OfTask DEF TaskInv
  <2> QED BY <2>1, <2>2, <2>3, OfTask, TaskStepKeeps
<1> QED BY <1>1, <1>2 DEF List

LEMMA NextCheckInv == ASSUME CheckInv, [DbNext]_dbVars PROVE CheckInv'
<1>1. CASE UNCHANGED dbVars
  BY <1>1 DEF dbVars, CheckInv, DbTypeOK, TaskInv
<1>2. ASSUME NEW t \in Invocations,
             \/ Usage(t) \/ Skip(t) \/ RequireTools(t) \/ OpenDatabase(t) \/ ToolFails(t)
             \/ AtlasDiff(t) \/ AtlasLint(t) \/ AtlasApply(t) \/ RlsVerify(t) \/ Clean(t)
             \/ Compare(t)
      PROVE  CheckInv'
  <2>1. \/ \E o \in DOMAIN taskExitCodes : TaskExits(t, o)
        \/ /\ task[t].at \in {"tools", "database"}
           /\ TaskGoes(t, "work") \/ TaskGoes(t, "database")
    BY <1>2 DEF Usage, Skip, RequireTools, OpenDatabase, ToolFails, TaskFails, AtlasDiff,
                AtlasLint, AtlasApply, RlsVerify, Clean, Passes, Compare, TaskAt, taskExitCodes
  <2>2. UNCHANGED <<setting, out>> /\ migrations' \in migrations..MaxVersion
    BY <1>2, OfTask, VersionAssumption
       DEF Usage, Skip, RequireTools, OpenDatabase, ToolFails, AtlasDiff,
           AtlasLint, AtlasApply, RlsVerify, Clean, Passes, Compare
  <2>3. out' \in Directories
    BY <2>2, OfTask
  <2>4. CASE \E o \in DOMAIN taskExitCodes : TaskExits(t, o)
    BY <2>2, <2>3, <2>4, ExitKeeps
  <2>5. CASE /\ task[t].at \in {"tools", "database"}
             /\ TaskGoes(t, "work") \/ TaskGoes(t, "database")
    <3>1. UNCHANGED migrations
      BY <1>2, <2>5 DEF Usage, Skip, RequireTools, OpenDatabase, ToolFails, AtlasDiff,
           AtlasLint, AtlasApply, RlsVerify, Clean, Passes, Compare, TaskAt
    <3> QED BY <2>2, <2>3, <2>5, <3>1, GoesKeeps DEF TaskSteps
  <2> QED BY <2>1, <2>4, <2>5
<1>3. ASSUME NEW t \in Invocations, NEW c \in Commands, BeginCommand(t, c) PROVE CheckInv'
  BY <1>3, BeginCommandKeeps
<1>4. ASSUME NEW t \in Invocations, GenerateInto(t) PROVE CheckInv'
  BY <1>4, GenerateIntoKeeps
<1>5. ASSUME NEW t \in Invocations, RemoveOut(t) PROVE CheckInv'
  BY <1>5, DbTypes, GoesKeeps DEF RemoveOut, TaskAt, TaskSteps
<1>6. ASSUME NEW t \in Invocations, CopyCandidate(t) PROVE CheckInv'
  <2>1. task[t].candidate \in 0..Foreign
    BY OfTask, VersionAssumption DEF TaskRecords, Foreign
  <2>2. out' \in Directories
    BY <1>6, <2>1, OfTask DEF CopyCandidate, Directories
  <2> QED BY <1>6, <2>2, OfTask, ExitKeeps DEF CopyCandidate, taskExitCodes
<1>7. ASSUME NEW t \in Invocations, List(t) PROVE CheckInv'
  BY <1>7, ListKeeps
<1>8. ASSUME NEW t \in Invocations, KillTask(t) \/ Collect(t) PROVE CheckInv'
  <2>1. out' \in Directories
    BY <1>8, OfTask, VersionAssumption DEF KillTask, Collect, Directories, Foreign
  <2> QED BY <1>8, <2>1, EndKeeps DEF KillTask, Collect
<1>9. CASE EditCheckout
  <2>1. /\ migrations' \in migrations..MaxVersion /\ out' \in Directories
        /\ UNCHANGED <<setting, task>> /\ migrations \in 0..MaxVersion
    BY <1>9, DbTypes, VersionAssumption DEF EditCheckout, CheckInv, Directories, Foreign
  <2>2. ASSUME NEW t \in Invocations PROVE TaskInv(t)'
    BY <2>1, OfTask, VersionAssumption DEF TaskInv, TaskRecords
  <2> QED BY <2>1, <2>2, VersionAssumption DEF CheckInv, DbTypeOK
<1>10. ASSUME NEW s \in Machines, Checkout(s) PROVE CheckInv'
  <2>1. migrations = 0 /\ migrations' = 1 /\ setting' = s /\ UNCHANGED task
        /\ 1 \in 0..MaxVersion
    BY <1>10, VersionAssumption DEF Checkout
  <2>2. \A t \in Invocations : task[t].at \in {"idle", "done"}
    BY <2>1, OfTask DEF TaskInv
  <2>3. out' \in Directories
    <3>1. 0 \in 0..Foreign /\ 1 \in 0..Foreign /\ Foreign \in 0..Foreign
      BY VersionAssumption DEF Foreign
    <3>2. PICK version \in 0..1, stray \in {0, Foreign} :
            out' = [GeneratedFrom(version) EXCEPT !["stray.ts"] = stray]
      BY <1>10 DEF Checkout
    <3>3. version \in 0..Foreign /\ stray \in 0..Foreign
      BY <3>1
    <3> QED BY <3>1, <3>2, <3>3 DEF Directories, GeneratedFrom, Empty
  <2> QED BY <2>1, <2>2, <2>3 DEF CheckInv, DbTypeOK, TaskInv
<1> QED BY <1>1, <1>2, <1>3, <1>4, <1>5, <1>6, <1>7, <1>8, <1>9, <1>10 DEF DbNext, TaskStep

(* A comparison that matches has found the candidate's one file, and its      *)
(* bytes, and nothing else.                                                   *)
LEMMA MatchIsCurrent ==
  ASSUME CheckInv, NEW t \in Invocations, task[t].at = "compare",
         directoriesMatch(GeneratedFrom(task[t].candidate), task[t].listed, out)
  PROVE  /\ Present(task[t].listed) = {"schema.ts"}
         /\ out["schema.ts"] \in task[t].since..migrations
<1> DEFINE candidate == task[t].candidate
           generated == GeneratedFrom(candidate)
<1>1. candidate \in task[t].since..migrations /\ task[t].since \in 1..migrations
  BY OfTask DEF TaskInv
<1>2. candidate # 0 /\ generated["schema.ts"] = candidate /\ generated["stray.ts"] = 0
  BY <1>1, OfTask DEF GeneratedFrom, Empty, Names
<1> HIDE DEF candidate, generated
<1>3. Present(generated) = {"schema.ts"}
  BY <1>2 DEF Present, Names
<1>4. out["schema.ts"] = candidate
  BY <1>2, <1>3 DEF directoriesMatch, candidate, generated
<1> QED BY <1>1, <1>3, <1>4 DEF directoriesMatch, candidate, generated

(* drizzle-check exits with 0, in CI and wherever there is Docker, only after *)
(* it found the one generated file and nothing else, with bytes that were     *)
(* current since it began: whatever other tasks and people do to the          *)
(* directory and the migrations meanwhile.                                    *)
THEOREM CheckPassesOnlyIfCurrentAlways == DbSpec => CheckPassesOnlyIfCurrent
<1>1. ASSUME CheckInv, DbNext PROVE PassesCurrent
  <2> SUFFICES ASSUME NEW t \in Invocations, task[t].command = "drizzle-check",
                      setting.ci \/ setting.docker,
                      task[t].exit = Unfinished, task'[t].exit = taskExitCodes.passed
               PROVE  /\ Present(task[t].listed) = {"schema.ts"}
                      /\ out["schema.ts"] \in task[t].since..migrations
    BY DEF PassesCurrent
  <2>1. task'[t].exit # task[t].exit
    BY CodeTypes DEF Unfinished
  <2>2. PICK u \in Invocations : TaskStep(u)
    BY <1>1, <2>1 DEF DbNext, EditCheckout, Checkout
  <2>3. u = t
    <3>1. \A v \in Invocations \ {u} : task'[v] = task[v]
      BY <1>1, <2>2, OfTask
         DEF TaskStep, Usage, BeginCommand, Skip, RequireTools, OpenDatabase, ToolFails,
             TaskFails, AtlasDiff, AtlasLint, AtlasApply, RlsVerify, Clean, Passes,
             GenerateInto, RemoveOut, CopyCandidate, List, Compare, KillTask, Collect,
             TaskExits, TaskGoes
    <3> QED BY <2>1, <3>1
  <2>4. ASSUME NEW o \in {"failed", "usage", "setup"}, TaskExits(t, o) PROVE FALSE
    BY <1>1, <2>4, OfTask, CodeTypes DEF TaskExits, TaskRecords
  <2>5. ASSUME NEW step, TaskGoes(t, step) PROVE FALSE
    BY <1>1, <2>1, <2>5, OfTask DEF TaskGoes, TaskRecords
  <2>6. ~Usage(t) /\ ~ToolFails(t)
    <3>1. task[t].at # "idle"
      BY <1>1, OfTask DEF TaskInv, IdleTask
    <3> QED BY <2>4, <3>1 DEF Usage, ToolFails, TaskFails, TaskAt
  <2>7. ~Skip(t) /\ ~RequireTools(t) /\ ~OpenDatabase(t) /\ ~RemoveOut(t)
    BY <2>4, <2>5 DEF Skip, Skips, RequireTools, OpenDatabase, RemoveOut
  <2>8. ~AtlasDiff(t) /\ ~AtlasLint(t) /\ ~AtlasApply(t) /\ ~RlsVerify(t) /\ ~Clean(t)
    <3>1. ASSUME NEW c, c # "drizzle-check", Passes(t, c) PROVE FALSE
      BY <3>1 DEF Passes
    <3> QED BY <3>1 DEF AtlasDiff, AtlasLint, AtlasApply, RlsVerify, Clean
  <2>9. ~GenerateInto(t) /\ ~KillTask(t) /\ ~Collect(t) /\ \A c \in Commands : ~BeginCommand(t, c)
    <3>1. \A record : task' = [task EXCEPT ![t] = record] => record.exit = taskExitCodes.passed
      BY <1>1, OfTask
    <3>2. IdleTask.exit = Unfinished /\ Unfinished # taskExitCodes.passed
      BY CodeTypes DEF IdleTask, Unfinished
    <3>3. ~KillTask(t) /\ ~Collect(t)
      BY <3>1, <3>2 DEF KillTask, Collect
    <3>4. ASSUME NEW c \in Commands, BeginCommand(t, c) PROVE FALSE
      <4> DEFINE record == [IdleTask EXCEPT !.at = "tools", !.command = c, !.since = migrations]
      <4>1. record.exit = IdleTask.exit
        BY DEF IdleTask
      <4> QED BY <3>1, <3>2, <3>4, <4>1 DEF BeginCommand
    <3>5. ~GenerateInto(t)
      BY <1>1, <2>1, OfTask DEF GenerateInto, TaskRecords
    <3> QED BY <3>3, <3>4, <3>5
  <2>10. ~CopyCandidate(t)
    BY <1>1, OfTask DEF CopyCandidate, TaskAt, TaskInv
  <2>11. ~List(t)
    BY <1>1, <2>1, <2>4, OfTask DEF List, TaskRecords
  <2>12. Compare(t)
    BY <2>2, <2>3, <2>6, <2>7, <2>8, <2>9, <2>10, <2>11 DEF TaskStep
  <2>13. directoriesMatch(GeneratedFrom(task[t].candidate), task[t].listed, out)
    BY <2>4, <2>12 DEF Compare
  <2> QED BY <1>1, <2>12, <2>13, MatchIsCurrent DEF Compare, TaskAt
<1>2. CheckInv /\ [DbNext]_dbVars => [PassesCurrent]_dbVars
  BY <1>1
<1> QED BY <1>2, InitCheckInv, NextCheckInv, PTL DEF DbSpec, CheckPassesOnlyIfCurrent
================================================================================
