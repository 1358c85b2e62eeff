-------------------------------- MODULE RlsVerify --------------------------------
(***************************************************************************)
(* rls-verify (packages/db-tools/src/cli.ts and checks.ts) and this        *)
(* repository's own run of the same checks (scripts/rls-verify.mjs): does  *)
(* row level security hold in a database?  The answer is an exit code.     *)
(*                                                                         *)
(* A database is what the checks can tell apart: how the request role may  *)
(* escape its policies, and a few tables.  Any statement may fail, and the *)
(* answer to one that took effect may be lost.                             *)
(***************************************************************************)
EXTENDS Naturals

CONSTANTS Contents,    \* what the schemas of a database may hold: names to tables
          Roles,       \* what the request role may be
          Files,       \* how many files are applied to a scratch database
          Nothing

\* A table, as the role sees it; "owned" is: by the role.
Tables == [enabled : BOOLEAN, forced : BOOLEAN, owned : BOOLEAN, readable : BOOLEAN,
           filled : BOOLEAN,
           policy : {"scoped", "open", "casts", "lenient", "strict", "writes", "hangs"}, \* USING
           guarded : BOOLEAN]                                                  \* WITH CHECK

ASSUME RlsAssumption ==
  /\ \A c \in Contents : \A n \in DOMAIN c : c[n] \in Tables
  /\ Roles \subseteq {"plain", "super", "bypass", "absent", "unsettable"}
  /\ Files \in Nat \ {0} /\ Nothing \notin Contents

VARIABLES at,          \* the step the run is at
          mode,        \* "read-only", "disposable", or the repository's "script"
          role, subject,   \* the role, and what the database to be checked holds
          rerouted,    \* every connection reaches the URL's database, whatever it names
          scratch,     \* "none", "there" or "dropped"
          applied,     \* files applied to it
          session,     \* the connection that checks: its database, and the claims left on it
          failures, failure,          \* checks that failed, and an error in flight
          dirty,       \* the URL's database was written (history)
          exitCode
asked == <<mode, role, subject, rerouted>>
verdict == <<failures, failure>>
vars == <<at, asked, scratch, applied, session, verdict, dirty, exitCode>>

exitCodes == [passed |-> 0, failed |-> 1, usage |-> 2, setup |-> 3]
Running == 9             \* no exit code yet
Exits == {exitCodes[outcome] : outcome \in DOMAIN exitCodes}

TypeOK ==
  /\ at \in {"start", "admin", "create", "setup", "files", "verify", "role", "claims-check",
             "check 1", "check 2", "check 3", "check 4", "empty", "drop", "exit", "done"}
  /\ mode \in {"read-only", "disposable", "script"}
  /\ role \in Roles \union {"plain"}
  /\ subject # Nothing => \A n \in DOMAIN subject : subject[n] \in Tables
  /\ rerouted \in BOOLEAN /\ scratch \in {"none", "there", "dropped"}
  /\ applied \in 0..Files
  /\ session \in [on : {"original", "scratch"}, claims : {"unset", "blank"}]
  /\ failures \in 0..7 /\ failure \in BOOLEAN /\ dirty \in BOOLEAN
  /\ exitCode \in Exits \union {Running}

NewSession(database) ==
  [on |-> IF rerouted THEN "original" ELSE database, claims |-> "unset"]

Init ==
  /\ at = "start" /\ mode = "read-only" /\ role = "plain"
  /\ subject = Nothing /\ rerouted = FALSE
  /\ scratch = "none" /\ applied = 0
  /\ session = [on |-> "original", claims |-> "unset"]
  /\ failures = 0 /\ failure = FALSE /\ dirty = FALSE /\ exitCode = Running

-----------------------------------------------------------------------------
(* Postgres: what a statement of the role's answers on one table.          *)

\* Wrong on purpose: a session that is only read-only by default, which a
\* function that writes switches off first.
DefaultReadOnly == mode # "script" /\ \A n \in DOMAIN subject : subject[n].policy # "writes"
\* readOnlyClient: whatever a function does to the session, every query of a
\* check begins a read-only transaction.  The script's client is a plain one.
ReadOnly == mode # "script"

Exempt(t) == role \in {"super", "bypass"} \/ ~t.enabled \/ (t.owned /\ ~t.forced)

\* SELECT 1 FROM t LIMIT 1: a policy is evaluated on rows.  What it makes of a
\* setting that was never made, and of one that is blank because it was local to
\* a transaction, is its own affair: "casts" casts the claims without nullif(),
\* "lenient" lets everybody in while the setting IS NULL, and "strict" reads it
\* without missing_ok.  "writes" scopes through a function that writes, which the
\* script's connection allows; "hangs" takes a lock or time, of which only a
\* read-only client has a limit.
Select(t, claims) ==
  CASE ~t.filled -> "none"
    [] t.filled /\ (Exempt(t) \/ t.policy = "open") -> "rows"
    [] t.filled /\ ~Exempt(t) /\ t.policy = "casts" /\ claims = "blank" -> "22P02"
    [] t.filled /\ ~Exempt(t) /\ t.policy = "lenient" /\ claims = "unset" -> "rows"
    [] t.filled /\ ~Exempt(t) /\ t.policy = "strict" /\ claims = "unset" -> "42704"
    [] t.filled /\ ~Exempt(t) /\ t.policy = "writes" /\ ReadOnly -> "25006"
    [] t.filled /\ ~Exempt(t) /\ t.policy = "hangs" -> IF ReadOnly THEN "57014" ELSE "waits"
    [] OTHER -> "none"

\* Whether reading the table wrote to its database.
Writes(t) == t.filled /\ t.readable /\ ~Exempt(t) /\ t.policy = "writes" /\ ~ReadOnly

\* Under claims that name one of two owners of rows: the role sees that owner's
\* alone, and adds none of the other's, if Postgres answers at all.
SeesOwnOnly(t) == ~Exempt(t) /\ t.readable /\ t.policy \notin {"open", "hangs"}
Answers(t) == ~Exempt(t) /\ t.readable => t.policy # "hangs"
RefusesForeign(t) == ~Exempt(t) /\ t.guarded

-----------------------------------------------------------------------------
(* The command line.                                                       *)

\* main stops before it connects: bad options, no URL, a URL that is not
\* Postgres's, files without --disposable; or prints its help.  The script
\* skips, with 0, on a developer's machine without Docker.
StopEarly ==
  /\ at = "start"
  /\ at' = "done"
  /\ exitCode' \in {exitCodes.usage, exitCodes.passed}
  /\ UNCHANGED <<asked, scratch, applied, session, verdict, dirty>>

\* A run begins; the script's database is one withPostgres made, its tables
\* seeded with rows of two owners.
Seeded(content) == [n \in DOMAIN content |-> [content[n] EXCEPT !.filled = TRUE]]

Begin(m, r, content, lost) ==
  /\ at = "start"
  /\ lost => m = "disposable"
  /\ m = "script" => /\ {"accounts", "profiles"} \subseteq DOMAIN content
                     /\ r \notin {"absent", "unsettable"}   \* the migrations make the role
  /\ mode' = m /\ role' = r /\ rerouted' = lost
  /\ subject' = IF m = "script" THEN Seeded(content) ELSE content
  /\ at' = CASE m = "read-only" -> "verify" [] m = "disposable" -> "admin"
             [] m = "script" -> "claims-check"
  /\ session' = [session EXCEPT !.on = IF m = "script" THEN "scratch" ELSE @]
  /\ UNCHANGED <<scratch, applied, verdict, dirty, exitCode>>

\* An error leaves the step: a scratch database that is known to exist is
\* dropped first.
Throw ==
  /\ failure' = TRUE
  /\ at' = IF mode = "disposable" /\ at \notin {"admin", "create", "drop"} THEN "drop" ELSE "exit"
  /\ UNCHANGED <<asked, applied, session, failures, dirty, exitCode>>

\* Any connection or statement may fail or take too long, with no effect.
Fails ==
  /\ at \notin {"start", "exit", "done"}
  /\ Throw
  /\ UNCHANGED scratch

-----------------------------------------------------------------------------
(* --disposable: a database of its own.                                    *)

\* sqlFiles finds some, and the connection to the URL's database opens.
ConnectAdmin ==
  /\ at = "admin"
  /\ at' = "create"
  /\ UNCHANGED <<asked, scratch, applied, session, verdict, dirty, exitCode>>

\* writableFor around one statement: its answer is lost, or it succeeds, and
\* then the session is made read-only again, which may fail too.
Create ==
  /\ at = "create"
  /\ scratch' = "there"
  /\ \/ Throw
     \/ \E restored \in BOOLEAN :
          /\ failure' = ~restored
          /\ at' = IF restored THEN "setup" ELSE "drop"
          /\ UNCHANGED <<asked, applied, session, failures, dirty, exitCode>>

\* Wrong on purpose: whatever was reached is migrated.
ReachedAny == TRUE
ReachedScratch == NewSession("scratch").on = "scratch"

\* The setup connection: read-only until it is known to have reached the
\* scratch database.
ConnectSetup ==
  /\ at = "setup"
  /\ IF ReachedScratch
     THEN /\ at' = "files"
          /\ session' = NewSession("scratch")
          /\ UNCHANGED <<asked, scratch, applied, verdict, dirty, exitCode>>
     ELSE Throw /\ UNCHANGED scratch

\* runFile: one file, in a transaction of its own.
RunFile ==
  /\ at = "files"
  /\ applied' = applied + 1
  /\ dirty' = (dirty \/ session.on = "original")
  /\ at' = IF applied' = Files THEN "verify" ELSE "files"
  /\ UNCHANGED <<asked, scratch, session, verdict, exitCode>>

-----------------------------------------------------------------------------
(* verify: a read-only session, and the checks in order.                   *)

ConnectVerify ==
  /\ at = "verify"
  /\ session' = NewSession(IF mode = "disposable" THEN "scratch" ELSE "original")
  /\ at' = "role"
  /\ UNCHANGED <<asked, scratch, applied, verdict, dirty, exitCode>>

\* The role must exist and be one the connected user can set.
LookUpRole ==
  /\ at = "role"
  /\ IF role \in {"absent", "unsettable"} THEN Throw /\ UNCHANGED scratch
     ELSE /\ at' = "check 1"
          /\ UNCHANGED <<asked, scratch, applied, session, verdict, dirty, exitCode>>

\* The codes runChecks takes for an answer; any other error ends the run.
Observed == {"22P02", "42501", "25006", "P0001"}
\* What a check that met these answers comes to, if to anything: it waits for an
\* answer without a limit.  Tables are read by name, so which of two errors comes
\* first is left open.
RunCheck(answers) ==
  LET errors == answers \ {"none", "rows"}
  IN  IF errors = {} THEN {IF "rows" \in answers THEN "failed" ELSE "ok"}
      ELSE {IF e \in Observed THEN "failed" ELSE "error" : e \in errors \ {"waits"}}

\* Every readable table, as the role and without claims.
RowsWithoutClaims(claims) ==
  RunCheck({Select(subject[n], claims) : n \in {x \in DOMAIN subject : subject[x].readable}})

RoleCannotBypass == IF role = "plain" THEN {"ok"} ELSE {"failed"}
EveryTableForced ==
  IF /\ DOMAIN subject # {}
     /\ \A n \in DOMAIN subject : subject[n].enabled /\ subject[n].forced
  THEN {"ok"} ELSE {"failed"}

\* Wrong on purpose: no transaction has set claims when the last check looks.
ClaimsStillUnset(number) == session.claims
\* asRole's claims are local to a transaction, and leave an empty setting.
ClaimsAt(number) == IF number = "check 4" THEN "blank" ELSE session.claims

rlsChecks(number) ==
  CASE number = "check 1" -> RoleCannotBypass
    [] number = "check 2" -> EveryTableForced
    [] number \in {"check 3", "check 4"} -> RowsWithoutClaims(ClaimsAt(number))

After(number) ==
  CASE number = "check 1" -> "check 2" [] number = "check 2" -> "check 3"
    [] number = "check 3" -> "check 4"
    [] number = "check 4" -> IF mode = "script" THEN "exit" ELSE "empty"

Check ==
  /\ at \in {"check 1", "check 2", "check 3", "check 4"}
  /\ \E outcome \in rlsChecks(at) :
       IF outcome = "error" THEN Throw
       ELSE /\ failures' = failures + (IF outcome = "failed" THEN 1 ELSE 0)
            /\ at' = After(at)
            /\ session' = [session EXCEPT !.claims = ClaimsAt(at)]
            /\ dirty' = (dirty \/ (/\ session.on = "original"
                                   /\ at \in {"check 3", "check 4"}
                                   /\ \E n \in DOMAIN subject : Writes(subject[n])))
            /\ UNCHANGED <<asked, applied, failure, exitCode>>
  /\ UNCHANGED scratch

\* The script's three checks of accounts and profiles come first, on the same
\* connection: each table shows one owner's row, and no account is created for
\* another organization.
CheckRepository ==
  /\ at = "claims-check"
  /\ \A n \in {"accounts", "profiles"} : Answers(subject[n])
  /\ failures' = (IF SeesOwnOnly(subject["accounts"]) THEN 0 ELSE 1)
               + (IF SeesOwnOnly(subject["profiles"]) THEN 0 ELSE 1)
               + (IF RefusesForeign(subject["accounts"]) THEN 0 ELSE 1)
  /\ session' = [session EXCEPT !.claims = "blank"]
  /\ at' = "check 1"
  /\ UNCHANGED <<asked, scratch, applied, failure, dirty, exitCode>>

\* emptyTables only adds a note.
NoteEmptyTables ==
  /\ at = "empty"
  /\ at' = IF mode = "disposable" THEN "drop" ELSE "exit"
  /\ UNCHANGED <<asked, scratch, applied, session, verdict, dirty, exitCode>>

\* The drop, writableFor again: what fails now is reported with what failed
\* before.
Drop ==
  /\ at = "drop"
  /\ scratch' = "dropped"
  /\ at' = "exit"
  /\ failure' \in {failure, TRUE}
  /\ UNCHANGED <<asked, applied, session, failures, dirty, exitCode>>

\* Wrong on purpose: an error after the checks counts as a failed check.
CodeOfFailures ==
  IF failures > 0 \/ failure THEN exitCodes.failed ELSE exitCodes.passed
\* main's answer; the script has one code for every way to fail.
ExitCode ==
  CASE failure -> IF mode = "script" THEN exitCodes.failed ELSE exitCodes.setup
    [] ~failure /\ failures > 0 -> exitCodes.failed
    [] OTHER -> exitCodes.passed

Exit ==
  /\ at = "exit"
  /\ at' = "done"
  /\ exitCode' = ExitCode
  /\ UNCHANGED <<asked, scratch, applied, session, verdict, dirty>>

Next ==
  \/ StopEarly \/ Fails \/ ConnectAdmin \/ Create \/ ConnectSetup \/ RunFile \/ ConnectVerify
  \/ LookUpRole \/ Check \/ CheckRepository \/ NoteEmptyTables \/ Drop \/ Exit
  \/ at = "start" /\ \E m \in {"read-only", "disposable", "script"}, r \in Roles,
                       content \in Contents, lost \in BOOLEAN : Begin(m, r, content, lost)

Spec == Init /\ [][Next]_vars

-----------------------------------------------------------------------------
(* Properties.                                                             *)

\* The database in the URL is never written, even when every connection of a
\* disposable run is led to it.
OriginalNeverWritten == ~dirty

\* What a verdict is about: every table enforces its policies on everybody, and
\* a role that carries no claims reads nothing, and meets no error, under any of
\* these settings.
Protected(settings) ==
  /\ role = "plain" /\ DOMAIN subject # {}
  /\ \A n \in DOMAIN subject :
       /\ subject[n].enabled /\ subject[n].forced
       /\ subject[n].readable => \A claims \in settings : Select(subject[n], claims) = "none"

\* "exit 1 means row level security was observed to be broken", and 0, after
\* the checks ran, that it holds, on a fresh connection and on one that has
\* carried claims.  The script has carried some before it looks, so its 0 is
\* about the second alone, and about rows of another owner; its 1 may also mean
\* that it could not finish.
VerdictIsTrue ==
  subject # Nothing =>
    /\ mode # "script" => /\ exitCode = exitCodes.passed => Protected({"unset", "blank"})
                          /\ exitCode = exitCodes.failed => ~Protected({"unset", "blank"})
    /\ exitCode = exitCodes.passed /\ mode = "script" =>
         /\ Protected({"blank"}) /\ RefusesForeign(subject["accounts"])
         /\ \A n \in {"accounts", "profiles"} : SeesOwnOnly(subject[n])

\* A run that has a verdict left no database behind.
NothingLeftBehind ==
  exitCode \in {exitCodes.passed, exitCodes.failed} => scratch # "there"
==============================================================================
