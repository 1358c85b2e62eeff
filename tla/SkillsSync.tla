------------------------------- MODULE SkillsSync -------------------------------
(***************************************************************************)
(* scripts/sync-skills.mjs copies the committed skills into a checkout of  *)
(* the catalog, after the checks of module SkillFiles.  The repository     *)
(* moves meanwhile: people commit, edit and tag; and the copy, one file    *)
(* after another, may be cut short.                                        *)
(***************************************************************************)
EXTENDS SkillFiles, FiniteSets

CONSTANTS SkillSets,    \* what a commit may hold under skills/lilo
          Trees,        \* and elsewhere
          Older,        \* what the catalog holds before
          MostCommits   \* bound
None == 0

\* A commit holds files by their names.
ASSUME SkillsAssumption == \A skills \in SkillSets : skills = [f \in DOMAIN skills |-> skills[f]]

VARIABLES commits,   \* the history of main: [skills, files]
          unsaved,   \* the working copy of the skills was edited
          releases,  \* release: <<major, minor, patch>> to commit
          catalog,   \* catalog/skills/lilo
          stage, given,      \* the run: its step, and whether --ref and --tag were given
          release, commit,   \* what it resolved them to
          left,      \* files it has still to write
          syncExit,
          cut        \* the last run was killed while it wrote
repository == <<commits, unsaved, releases>>
syncRun == <<stage, given, release, commit, left, syncExit>>
syncVars == <<repository, catalog, syncRun, cut>>

SyncTypeOK ==
  /\ Len(commits) <= MostCommits /\ unsaved \in BOOLEAN /\ cut \in BOOLEAN
  /\ stage \in {"idle", "status", "tag", "ref", "check", "remove", "write"}
  /\ given \in [ref : BOOLEAN, tag : BOOLEAN]
  /\ {release, commit} \subseteq 0..Len(commits)
  /\ syncExit \in {0, 1, 2}

NotAsked == [ref |-> FALSE, tag |-> FALSE]

SyncInit ==
  /\ commits = <<>> /\ unsaved = FALSE /\ releases = [t \in {} |-> None]
  /\ catalog = Older
  /\ stage = "idle" /\ given = NotAsked
  /\ release = None /\ commit = None /\ left = {} /\ syncExit = 0 /\ cut = FALSE

Head1 == Len(commits)
\* The run ends, and another may follow.
EndSync(code) ==
  /\ stage' = "idle" /\ syncExit' = code
  /\ given' = NotAsked /\ release' = None /\ commit' = None /\ left' = {}
\* A step that passes, or fails, and writes nothing.
SyncStep(from, passes, to) ==
  /\ stage = from
  /\ IF passes THEN stage' = to /\ UNCHANGED <<given, left, syncExit>>
     ELSE EndSync(1)
  /\ UNCHANGED <<repository, catalog, cut>>

\* The arguments, and a catalog that is not this checkout.
BeginSync(options) ==
  /\ stage = "idle" /\ commits # <<>>
  /\ stage' = "status" /\ given' = options /\ syncExit' = 0
  /\ UNCHANGED <<repository, catalog, release, commit, left, cut>>

SyncUsage ==
  /\ stage = "idle" /\ commits # <<>>
  /\ EndSync(2)
  /\ UNCHANGED <<repository, catalog, cut>>

\* "never from unsaved edits"
Status ==
  /\ SyncStep("status", given.ref \/ ~unsaved, "tag")
  /\ UNCHANGED <<release, commit>>

\* --tag, or the newest; and then the commit it is on.
ResolveTag ==
  /\ SyncStep("tag", DOMAIN releases # {}, "ref")
  /\ DOMAIN releases # {} => \E t \in DOMAIN releases :
       /\ given.tag \/ t = latestReleaseTag(DOMAIN releases)
       /\ release' = releases[t]
  /\ UNCHANGED commit

\* HEAD, or --ref.
ResolveRef ==
  /\ SyncStep("ref", TRUE, "check")
  /\ \E c \in IF given.ref THEN 1..Head1 ELSE {Head1} : commit' = c
  /\ UNCHANGED release

\* Wrong on purpose: HEAD is asked again for what to check.
HeadNow == commits[Head1].skills
\* skillsAt, the objects of the one commit.
Checked == commits[commit].skills

CheckSkills ==
  /\ SyncStep("check", /\ DOMAIN Checked # {} /\ ~shapeProblems(Checked)
                       /\ checkCitations(Checked, commits[release].files) = {}, "remove")
  /\ stage' = "remove" => UNCHANGED <<release, commit>>

RemoveOld ==
  /\ stage = "remove"
  /\ catalog' = [f \in {} |-> Link]
  /\ left' = DOMAIN commits[commit].skills
  /\ stage' = "write"
  /\ UNCHANGED <<repository, given, release, commit, syncExit, cut>>

\* The files in the order of the listing, any one here.
WriteSkill(f) ==
  /\ stage = "write" /\ f \in left
  /\ catalog' = [x \in DOMAIN catalog \union {f} |->
                   IF x = f THEN commits[commit].skills[f] ELSE catalog[x]]
  /\ IF left = {f} THEN EndSync(0) /\ cut' = FALSE
     ELSE left' = left \ {f} /\ UNCHANGED <<stage, given, release, commit, syncExit, cut>>
  /\ UNCHANGED repository

\* A signal, a full disk, a directory that cannot be written.
Killed ==
  /\ stage # "idle"
  /\ EndSync(1)
  /\ cut' = (cut \/ stage = "write")
  /\ UNCHANGED <<repository, catalog>>

-----------------------------------------------------------------------------
(* The repository.                                                         *)

Commit(skills, files) ==
  /\ Head1 < MostCommits
  /\ commits' = Append(commits, [skills |-> skills, files |-> files])
  /\ unsaved' = FALSE
  /\ UNCHANGED <<releases, catalog, syncRun, cut>>

EditSkills ==
  /\ commits # <<>> /\ ~unsaved
  /\ unsaved' = TRUE
  /\ UNCHANGED <<commits, releases, catalog, syncRun, cut>>

\* The release pipeline tags main's commit with a newer version.
Versions == {<<0, 9, 0>>, <<0, 10, 0>>}
Tag(t) ==
  /\ commits # <<>> /\ t \notin DOMAIN releases
  /\ \A other \in DOMAIN releases : Newer(t, other)
  /\ releases' = [x \in DOMAIN releases \union {t} |-> IF x = t THEN Head1 ELSE releases[x]]
  /\ UNCHANGED <<commits, unsaved, catalog, syncRun, cut>>

SyncNext ==
  \/ \E options \in [ref : BOOLEAN, tag : BOOLEAN] : BeginSync(options)
  \/ SyncUsage \/ Status \/ ResolveTag \/ ResolveRef \/ CheckSkills \/ RemoveOld
  \/ (\E f \in left : WriteSkill(f))
  \/ Killed
  \/ Head1 < MostCommits /\ \E s \in SkillSets, files \in Trees : Commit(s, files)
  \/ EditSkills
  \/ \E t \in Versions : Tag(t)

SyncSpec == SyncInit /\ [][SyncNext]_syncVars

-----------------------------------------------------------------------------
(* Properties.                                                             *)

\* What the catalog's generator can render: files, skills with distinct names,
\* bundles of skills there are.
Renders(skills) ==
  LET named == {f \in DOMAIN skills : f.base = "SKILL.md"}
  IN  /\ \A f, g \in named : Generated(f) = Generated(g) => f = g
      /\ \A f \in named : \E i \in DOMAIN skills[f].header :
           skills[f].header[i].key = "name" /\ skills[f].header[i].value = f.dirs[2]
      /\ \A f \in DOMAIN skills : ~skills[f].symlink
      /\ Settings \in DOMAIN skills =>
           LET bundles == parseBundles(skills[Settings].lines).bundles
           IN  \A i \in DOMAIN bundles : \A member \in ToSet(bundles[i].members) :
                 \E f \in named : f.dirs = member

\* Unless the last copy was cut short, or is under way, the catalog holds what
\* it held before any run, or the skills of one commit, all of them and nothing
\* else, which it can render, and which cite at some release what is there: "so
\* the catalog's generator renders what this repository reviewed".
CatalogHoldsReviewed ==
  cut \/ stage = "write" \/ catalog = Older
  \/ /\ \E c \in 1..Head1 : catalog = commits[c].skills
     /\ Renders(catalog)
     /\ \E t \in DOMAIN releases : checkCitations(catalog, commits[releases[t]].files) = {}
==============================================================================
