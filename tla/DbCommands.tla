------------------------------- MODULE DbCommands -------------------------------
(***************************************************************************)
(* The db-tools command line (packages/db-tools/src/commands.ts over       *)
(* atlas.ts, drizzle.ts and tools.ts): the tasks of one checkout, any two  *)
(* of which may run at once and be killed, while a person edits the        *)
(* migrations and the generated schema.  Databases come from module        *)
(* PostgresContainer, the verdict of rls-verify from RlsVerify; here they  *)
(* are had or not, good or bad.                                            *)
(***************************************************************************)
EXTENDS Naturals

CONSTANTS Invocations,  \* runs of the command line, its tasks
          MaxVersion   \* bound: versions of the migrations

ASSUME VersionAssumption == MaxVersion \in Nat \ {0}

\* The files the artifact directory may hold, each 0 when it is missing and
\* otherwise the version of the migrations it was generated from.
Names == {"schema.ts", "stray.ts"}
Foreign == MaxVersion + 1   \* edited by hand, or cut short
Directories == [Names -> 0..Foreign]
Empty == [n \in Names |-> 0]
GeneratedFrom(version) == [Empty EXCEPT !["schema.ts"] = version]

VARIABLES setting,      \* what the checkout's machine has: tools, and whether it is CI's
          migrations,   \* their version
          out,          \* the artifact directory
          task
dbVars == <<setting, migrations, out, task>>

Machines == [docker : BOOLEAN, atlas : BOOLEAN, kit : BOOLEAN, ci : BOOLEAN]

taskExitCodes == [passed |-> 0, failed |-> 1, usage |-> 2, setup |-> 3]
Unfinished == 9

\* Each command's options; any other is refused.
container == {"root", "port", "image"}
accepts ==
  [c \in {"atlas-diff", "atlas-lint", "atlas-apply", "drizzle-generate", "drizzle-check",
          "rls-verify", "clean"} |->
     CASE c = "atlas-diff" -> {"migrations", "to"} \union container
       [] c = "atlas-lint" -> {"migrations", "git-base"} \union container
       [] c = "atlas-apply" -> {"migrations", "url"}
       [] c \in {"drizzle-generate", "drizzle-check"} -> {"migrations", "out"} \union container
       [] c = "rls-verify" -> {"migrations", "seed", "schema", "role"} \union container
       [] c = "clean" -> {"root"}]
Commands == DOMAIN accepts
options == UNION {accepts[c] : c \in Commands}
Checks == {"atlas-lint", "drizzle-check", "rls-verify"}

IdleTask == [at |-> "idle", command |-> "clean", exit |-> Unfinished, since |-> 0,
         candidate |-> 0, listed |-> Empty]

DbTypeOK ==
  /\ setting \in Machines /\ migrations \in 0..MaxVersion /\ out \in Directories
  /\ task \in [Invocations ->
       [at : {"idle", "tools", "database", "work", "compare", "rm", "copy", "done"},
        command : Commands, exit : {taskExitCodes[o] : o \in DOMAIN taskExitCodes} \union {Unfinished},
        since : 0..MaxVersion, candidate : 0..MaxVersion, listed : Directories]]

DbInit ==
  /\ setting = [docker |-> TRUE, atlas |-> TRUE, kit |-> TRUE, ci |-> FALSE]
  /\ migrations = 0 /\ out = Empty
  /\ task = [t \in Invocations |-> IdleTask]

\* A checkout, as committed: nothing was generated yet, or from these
\* migrations, or by hand.
Checkout(s) ==
  /\ migrations = 0
  /\ migrations' = 1 /\ setting' = s
  /\ \E version \in 0..1, stray \in {0, Foreign} :
       out' = [GeneratedFrom(version) EXCEPT !["stray.ts"] = stray]
  /\ UNCHANGED task

-----------------------------------------------------------------------------
(* One task.                                                               *)

TaskAt(t, step) == task[t].at = step
TaskGoes(t, step) == task' = [task EXCEPT ![t].at = step]
TaskExits(t, outcome) == task' = [task EXCEPT ![t].at = "done", ![t].exit = taskExitCodes[outcome]]
\* What main makes of an error: a tool that ran and failed, or anything else.
TaskFails(t) == \/ task[t].command # "clean" /\ TaskExits(t, "failed")
                \/ TaskExits(t, "setup")

\* main, up to the command: help, alone or with a command; no name or an unknown
\* one, bad options or a port that is no number; an option the command does not
\* take; no URL.
Usage(t) ==
  /\ TaskAt(t, "idle") /\ migrations > 0
  /\ \/ TaskExits(t, "passed")
     \/ /\ \E c \in Commands, o \in options :
             \/ o \notin accepts[c]
             \/ o = "port"
             \/ c = "atlas-apply" /\ o = "url"
        /\ TaskExits(t, "usage")
  /\ UNCHANGED <<setting, migrations, out>>

BeginCommand(t, c) ==
  /\ TaskAt(t, "idle") /\ migrations > 0
  /\ task' = [task EXCEPT ![t] = [IdleTask EXCEPT !.at = "tools", !.command = c, !.since = migrations]]
  /\ UNCHANGED <<setting, migrations, out>>

\* Wrong on purpose: a check without Docker is skipped wherever it runs.
SkipsAnywhere(t) == task[t].command \in Checks /\ ~setting.docker
\* skipWithoutDocker: a check, on a laptop.
Skips(t) == task[t].command \in Checks /\ ~setting.docker /\ ~setting.ci

Skip(t) ==
  /\ TaskAt(t, "tools") /\ Skips(t)
  /\ TaskExits(t, "passed")
  /\ UNCHANGED <<setting, migrations, out>>

\* requireAtlas and drizzleKitBin, before any container starts.
AtlasMissing(t) == task[t].command \notin {"rls-verify", "clean"} /\ ~setting.atlas
KitMissing(t) == task[t].command \in {"drizzle-generate", "drizzle-check"} /\ ~setting.kit

RequireTools(t) ==
  /\ TaskAt(t, "tools") /\ ~Skips(t)
  /\ IF AtlasMissing(t) \/ KitMissing(t) \/ (task[t].command \in Checks /\ ~setting.docker)
     THEN TaskExits(t, "setup")
     ELSE TaskGoes(t, IF task[t].command \in {"atlas-apply", "clean"} THEN "work" ELSE "database")
  /\ UNCHANGED <<setting, migrations, out>>

\* withPostgres or startPostgres: a database is had, or the task fails.
OpenDatabase(t) ==
  /\ TaskAt(t, "database")
  /\ \/ setting.docker /\ TaskGoes(t, "work")
     \/ TaskExits(t, "setup")
  /\ UNCHANGED <<setting, migrations, out>>

\* runTool, and the drop of the database that follows: something failed.
ToolFails(t) ==
  /\ TaskAt(t, "work")
  /\ TaskFails(t)
  /\ UNCHANGED <<setting, migrations, out>>

\* atlas migrate diff may write one more migration.
AtlasDiff(t) ==
  /\ TaskAt(t, "work") /\ task[t].command = "atlas-diff"
  /\ migrations' \in {migrations, migrations + 1} /\ migrations' <= MaxVersion
  /\ TaskExits(t, "passed")
  /\ UNCHANGED <<setting, out>>

\* What else passes leaves nothing here: a lint without findings, migrations
\* applied to some other database, the verification, and the container's removal.
Passes(t, c) ==
  /\ TaskAt(t, "work") /\ task[t].command = c
  /\ TaskExits(t, "passed")
  /\ UNCHANGED <<setting, migrations, out>>
AtlasLint(t) == Passes(t, "atlas-lint")
AtlasApply(t) == Passes(t, "atlas-apply")
RlsVerify(t) == Passes(t, "rls-verify")
Clean(t) == Passes(t, "clean")

\* generateInto a temporary directory: the migrations as they are now, applied
\* and introspected.
GenerateInto(t) ==
  /\ TaskAt(t, "work") /\ task[t].command \in {"drizzle-generate", "drizzle-check"}
  /\ task' = [task EXCEPT ![t].candidate = migrations,
                          ![t].at = IF task[t].command = "drizzle-check" THEN "compare" ELSE "rm"]
  /\ UNCHANGED <<setting, migrations, out>>

-----------------------------------------------------------------------------
(* The artifact.                                                           *)

\* generateDrizzleSchema: rm and mkdir leave nothing to list, then the copy.
RemoveOut(t) ==
  /\ TaskAt(t, "rm")
  /\ out' = Empty
  /\ TaskGoes(t, "copy")
  /\ UNCHANGED <<setting, migrations>>

CopyCandidate(t) ==
  /\ TaskAt(t, "copy")
  /\ out' = [out EXCEPT !["schema.ts"] = task[t].candidate]
  /\ TaskExits(t, "passed")
  /\ UNCHANGED <<setting, migrations>>

Present(directory) == {n \in Names : directory[n] # 0}

\* Wrong on purpose: every generated file is there, whatever else is.
CandidateIsThere(candidate, listed, read) ==
  \A n \in Present(candidate) : n \in Present(listed) /\ candidate[n] = read[n]
\* directoriesMatch: the two lists of files, and then their bytes.
directoriesMatch(candidate, listed, read) ==
  /\ Present(candidate) = Present(listed)
  /\ \A n \in Present(candidate) : candidate[n] = read[n]

\* A file of the list may be gone when it is read.
List(t) ==
  /\ TaskAt(t, "compare") /\ task[t].listed = Empty
  /\ IF out = Empty THEN TaskExits(t, "failed")
     ELSE task' = [task EXCEPT ![t].listed = out]
  /\ UNCHANGED <<setting, migrations, out>>

Compare(t) ==
  /\ TaskAt(t, "compare") /\ task[t].listed # Empty
  /\ LET candidate == GeneratedFrom(task[t].candidate)
     IN  IF directoriesMatch(candidate, task[t].listed, out) THEN TaskExits(t, "passed")
         ELSE \E outcome \in {"failed", "setup"} :
                /\ outcome = "setup" => out["schema.ts"] = 0
                /\ TaskExits(t, outcome)
  /\ UNCHANGED <<setting, migrations, out>>

-----------------------------------------------------------------------------
(* Around the tasks.                                                       *)

\* A task is killed; what it wrote stays, a file it was writing is cut short.
KillTask(t) ==
  /\ task[t].at \notin {"idle", "done"}
  /\ task' = [task EXCEPT ![t] = IdleTask]
  /\ \/ UNCHANGED out
     \/ TaskAt(t, "copy") /\ out' = [out EXCEPT !["schema.ts"] = Foreign]
  /\ UNCHANGED <<setting, migrations>>

\* Its exit code is read, and another command may follow.
Collect(t) ==
  /\ TaskAt(t, "done")
  /\ task' = [task EXCEPT ![t] = IdleTask]
  /\ UNCHANGED <<setting, migrations, out>>

\* A person writes a migration, or a file into the artifact.
EditCheckout ==
  /\ migrations > 0
  /\ \/ migrations < MaxVersion /\ migrations' = migrations + 1 /\ UNCHANGED out
     \/ \E n \in Names : out' = [out EXCEPT ![n] = Foreign] /\ UNCHANGED migrations
  /\ UNCHANGED <<setting, task>>

TaskStep(t) ==
  \/ Usage(t) \/ \E c \in Commands : BeginCommand(t, c)
  \/ Skip(t) \/ RequireTools(t) \/ OpenDatabase(t) \/ ToolFails(t) \/ AtlasDiff(t)
  \/ AtlasLint(t) \/ AtlasApply(t) \/ RlsVerify(t) \/ Clean(t)
  \/ GenerateInto(t) \/ RemoveOut(t) \/ CopyCandidate(t) \/ List(t) \/ Compare(t)
  \/ KillTask(t) \/ Collect(t)

DbNext == EditCheckout \/ (\E s \in Machines : Checkout(s)) \/ \E t \in Invocations : TaskStep(t)

DbSpec == DbInit /\ [][DbNext]_dbVars

-----------------------------------------------------------------------------
(* Properties.                                                             *)

PassesCurrent ==
  \A t \in Invocations :
    /\ task[t].command = "drizzle-check"
    /\ setting.ci \/ setting.docker
    /\ task[t].exit = Unfinished /\ task'[t].exit = taskExitCodes.passed
    => /\ Present(task[t].listed) = {"schema.ts"}
       /\ out["schema.ts"] \in task[t].since..migrations

\* In CI, and wherever there is Docker, drizzle-check exits with 0 only after
\* it found the one generated file and nothing else, with the bytes that
\* migrations generate which were current since it began: not beside a stray
\* file, not after a generate that was killed half-way, and never unchecked.
CheckPassesOnlyIfCurrent == [][PassesCurrent]_dbVars
==============================================================================
