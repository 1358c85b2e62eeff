----------------------------- MODULE TemplateBuild -----------------------------
(***************************************************************************)
(* The build of create-app's template (packages/create-app/src/generate):  *)
(* it is derived from the reference app and the root of this repository,   *)
(* which people keep changing.  What the build does not know it must       *)
(* refuse, not drop or keep: everything a project receives comes from here.*)
(*                                                                         *)
(* A path is a directory and a name.  A file's text is the anchors the     *)
(* build rewrites in it, each a passage found some number of times, and    *)
(* the anchors it has strays of: passages of this repository's own that    *)
(* were reworded, or written beside the ones the edit was made for, so     *)
(* that no edit covers them.                                               *)
(***************************************************************************)
EXTENDS Template, FiniteSets, TLC

CONSTANT MostEdits   \* bound: edits to the reference as it is

Under(directory, names) == {<<directory, name>> : name \in names}
Top(names) == Under(".", names)
WEB == "apps/web"
SERVICE == "services/api"
SCHEMA == "db/drizzle"
MIGRATIONS == "packages/db/migrations"
WORKFLOWS == ".github/workflows"
ENV == <<".", ".env.example">>

-----------------------------------------------------------------------------
(* What the build knows of the root.                                       *)

copy == {".editorconfig", ".npmrc", ".oxlintrc.json", ".prototools", ".secretlintignore",
         ".secretlintrc.json", ".vscode", "commitlint.config.js", "justfile", "lefthook.yml",
         "tsconfig.options.json", "vitest.config.ts"}
generate == {".env.example", ".github", ".gitignore", ".moon", ".oxfmtrc.json", "apps", "db",
             "moon.yml", "package.json", "packages", "pnpm-workspace.yaml", "renovate.json",
             "scripts", "services", "tsconfig.json"}
ofReference == {".changeset", "AGENTS.md", "LICENSE", "README.md", "SECURITY.md", "docs",
                "pnpm-lock.yaml", "renovate", "skills"}
ROOT == copy \union generate \union ofReference

GITHUB == {"ci.yml", "moon-ci.yml", "published-shape.yml", "release.yml", "workos-contract.yml"}

TASKS ==
  [project |-> {"audit", "clean", "format", "format-check", "lint", "lint-fix", "project-refs",
                "secrets", "tsgolint-lockstep"},
   database |-> {"atlas-apply", "atlas-diff", "atlas-lint", "drizzle-check",
                 "drizzle-generate", "rls-verify"},
   reference |-> {"packed-secrets", "prune-references", "published-shape", "release-rehearsal",
                  "scripts-test", "skills-check", "skills-sync"}]

REFERENCE_TOOLS == {"@arethetypeswrong/cli", "@changesets/changelog-github", "@changesets/cli",
                    "drizzle-orm", "publint", "yaml"}
DATABASE_TOOLS == {"@littleorgans/db-tools", "pg"}
DATABASE_VARIANTS == {TRUE, FALSE}

WEB_PARAGRAPHS == {"WORKOS_API_KEY=", "WORKOS_REDIRECT_URI=", "WORKOS_COOKIE_PASSWORD=",
                   "WORKOS_COOKIE_PASSWORD_PREVIOUS="}
DATABASE_PARAGRAPHS == {"#Persistence", "DATABASE_URL="}
ENV_PARAGRAPHS ==
  [m \in {"#Copy-to-.env.local.", "#Identity", "WORKOS_CLIENT_ID=", "#Derived", "#Not-set-here"}
         \union WEB_PARAGRAPHS \union DATABASE_PARAGRAPHS |->
     IF m \in WEB_PARAGRAPHS THEN [web |-> TRUE]
     ELSE IF m \in DATABASE_PARAGRAPHS THEN [database |-> TRUE] ELSE [part \in {} |-> TRUE]]
Variables == {"WORKOS_CLIENT_ID=", "WORKOS_API_KEY=", "WORKOS_REDIRECT_URI=",
              "WORKOS_COOKIE_PASSWORD=", "WORKOS_COOKIE_PASSWORD_PREVIOUS=", "DATABASE_URL="}
ENV_VARIANTS == {[web |-> TRUE, database |-> TRUE], [web |-> TRUE, database |-> FALSE],
                 [web |-> FALSE, database |-> TRUE]}

\* The passages rewritten in a file: how often each must be there, and the
\* tokens that take its place.
Anchors(file, rows) ==
  {[file |-> file, passage |-> row[1], count |-> row[2], leaves |-> row[3]] : row \in rows}
webAnchors ==
  Anchors(<<WEB, "tsconfig.json">>, {<<"outDir", 1, {"web"}>>})
  \union Anchors(<<WEB, "moon.yml">>, {<<"PORT", 1, {"webPort"}>>})
  \union Anchors(<<WEB, "vite.config.ts">>, {<<"server.port", 1, {"webPort"}>>})
  \union Anchors(<<WEB, "src/server/auth.ts">>,
                 {<<"organizationPolicy", 1, {"organizationPolicy"}>>})
serviceAnchors ==
  Anchors(<<SERVICE, "tsconfig.json">>, {<<"outDir", 1, {"service"}>>})
  \union Anchors(<<SERVICE, "moon.yml">>,
           {<<"preview-port", 1, {}>>, <<"PORT", 2, {"servicePort"}>>,
            <<"--filter", 1, {"project", "service"}>>, <<"--tag", 1, {"project", "service"}>>,
            <<"inputs", 2, {}>>})
  \union Anchors(<<SERVICE, "Dockerfile">>,
           {<<"image-for", 1, {"service"}>>, <<"moon-run", 1, {"service"}>>})
rootAnchors ==
  Anchors(<<".", "moon.yml">>,
     {<<"packages/db/migrations", 1, {}>>, <<"db/schema.sql", 1, {}>>, <<"db/drizzle", 1, {}>>,
      <<".changeset", 1, {}>>, <<"db-tools-clean", 1, {}>>,
      <<"deps", 7, {}>>, <<"db-tools--migrations", 5, {}>>, <<"scripts/rls-verify.mjs", 2, {}>>,
      <<"inputs", 4, {}>>})
  \union Anchors(<<".moon", "toolchains.yml">>, {<<"project-graph", 1, {}>>})
  \union Anchors(<<".", ".gitignore">>, {<<"skills", 1, {}>>})
  \union Anchors(<<".", "package.json">>, {<<"changeset-scripts", 2, {}>>})
  \union Anchors(<<".", "pnpm-workspace.yaml">>, {<<"catalogs.react-peer", 1, {}>>})
  \union Anchors(<<".", ".oxfmtrc.json">>, {<<"sortImports", 1, {"project"}>>})
  \union Anchors(<<".", "renovate.json">>, {<<"extends", 1, {}>>, <<"customManagers", 1, {}>>})
  \union Anchors(<<WORKFLOWS, "ci.yml">>, {<<"uses", 1, {}>>})
  \union Anchors(<<"db", "schema.sql">>, {<<"ships", 1, {}>>, <<"migrations", 2, {}>>})
  \union Anchors(ENV,
           {<<"WORKOS_COOKIE_PASSWORD=generate", 1, {}>>, <<"/callback", 1, {"webPort"}>>,
            <<"packages/-reads", 1, {}>>, <<"NPM_PUBLISH_ENABLED", 1, {}>>,
            <<"docs/maintaining.md", 1, {}>>})
anchors == webAnchors \union serviceAnchors \union rootAnchors

\* editSequence edits the first of these entries and leaves the others.  (A second
\* entry below packages/db, or a second scripts/rls-verify.mjs, is left too, but
\* then the printed file still names it and is refused.)
FirstOnly == {"db/schema.sql", "db/drizzle", ".changeset"}
\* Renovate's custom managers all go, if one of them is the release's.
AllDropped == {"customManagers"}

\* The paragraphs of the environment with a passage of these.
Inside(a, markers) ==
  a.file = ENV /\ \E m \in markers :
    <<a.passage, m>> \in {<<"WORKOS_COOKIE_PASSWORD=generate", "WORKOS_COOKIE_PASSWORD=">>,
                         <<"/callback", "WORKOS_REDIRECT_URI=">>,
                         <<"packages/-reads", "#Copy-to-.env.local.">>,
                         <<"NPM_PUBLISH_ENABLED", "#Not-set-here">>,
                         <<"docs/maintaining.md", "#Not-set-here">>}

-----------------------------------------------------------------------------
(* The reference.                                                          *)

VARIABLES reference,  \* the repository a build would read
          edits,      \* how many it had
          template,   \* the last one built: its files and catalog
          built       \* "no", "refused" or "yes"
buildVars == <<reference, edits, template, built>>

Deps(workspace, catalog, pinned) ==
  [d \in workspace |-> "workspace:"] @@ [d \in catalog |-> "catalog:"] @@ [d \in pinned |-> "1.0.0"]
schema == "@littleorgans/drizzle-schema"
PROJECT_SCHEMA == "@__LILO_PROJECT__/drizzle-schema"

TodaysDeps ==
  ("." :> Deps({"@littleorgans/db-tools", "@littleorgans/tsconfig"},
               {"drizzle-orm", "pg", "typescript", "yaml"},
               {"@arethetypeswrong/cli", "@changesets/changelog-github", "@changesets/cli",
                "oxfmt", "publint"}))
  @@ (WEB :> Deps({"@littleorgans/auth", schema}, {"react", "pg"}, {}))
  @@ (SERVICE :> Deps({"@littleorgans/auth", "@littleorgans/db-tools", schema},
                      {"hono", "pg"}, {}))
  @@ (SCHEMA :> Deps({}, {"drizzle-orm", "pg"}, {}))

\* Today's, with some of its dependencies and migrations for all.
Today ==
  [entries |-> ROOT,
   files |->
     Top((copy \ {".vscode"}) \union {".env.example", ".gitignore", ".oxfmtrc.json", "moon.yml",
         "package.json", "pnpm-workspace.yaml", "renovate.json", "tsconfig.json"})
     \union {<<".vscode", "settings.json">>, <<"db", "schema.sql">>}
     \union Under(WORKFLOWS, GITHUB)
     \union Under(".moon", {"workspace.yml", "toolchains.yml", "tasks/node.yml"})
     \union Under(WEB, {"package.json", "tsconfig.json", "moon.yml", "vite.config.ts",
                        "src/server/auth.ts"})
     \union Under(SERVICE, {"package.json", "tsconfig.json", "moon.yml", "Dockerfile",
                            "README.md"})
     \union Under(SCHEMA, {"package.json", "tsconfig.json"})
     \union Under(MIGRATIONS, {"0001.sql", "atlas.sum"})
     \union Under("scripts", {"install-hooks.mjs", "check-security.mjs", "release.mjs",
                              "assert-tsgolint-lockstep.mjs", "rls-verify.mjs"}),
   unreadable |-> {},      \* symbolic links, binary files, values of an environment
   found |-> [a \in anchors |-> a.count],
   strays |-> {},          \* anchors with passages that no edit covers
   added |-> {},           \* anchors beside which people wrote another (history)
   tasks |-> UNION {TASKS[kind] : kind \in DOMAIN TASKS},
   runs |-> [t \in {"secrets", "prepare", "lint", "tsgolint-lockstep"} |->
               CASE t = "secrets" -> {"check-security.mjs"}
                 [] t = "prepare" -> {"install-hooks.mjs"}
                 [] t = "lint" -> {}
                 [] t = "tsgolint-lockstep" -> {"assert-tsgolint-lockstep.mjs"}],
   imports |-> {"release.mjs", "rls-verify.mjs"},   \* scripts that import a neighbour
   references |-> {WEB, SERVICE, SCHEMA},           \* of the root tsconfig.json
   deps |-> TodaysDeps,
   pins |-> {"drizzle-kit", "drizzle-orm", "hono", "pg", "react", "typescript", "yaml"},
   packages |-> [p \in {"@littleorgans/auth", "@littleorgans/create-app",
                        "@littleorgans/db-tools", "@littleorgans/tsconfig"} |-> 1],
   env |-> {[markers |-> {m}, assigns |-> {m} \intersect Variables] :
              m \in DOMAIN ENV_PARAGRAPHS}]

NoTemplate == [files |-> {}, catalog |-> {}]
BuildTypeOK ==
  /\ edits \in 0..MostEdits /\ built \in {"no", "refused", "yes"}
  /\ DOMAIN reference = DOMAIN Today /\ DOMAIN reference.found = anchors
  /\ \A f \in template.files :
       f.tokens \subseteq TOKENS /\ DOMAIN f.when \subseteq {"web", "service", "database"}

BuildInit == reference = Today /\ edits = 0 /\ template = NoTemplate /\ built = "no"

-----------------------------------------------------------------------------
(* The generator: for each of its parts, what it refuses and what it makes.*)

Private == 0
published(r) == {p \in DOMAIN r.packages : r.packages[p] # Private}
ReleasedApart(r) == \E p \in published(r) : r.packages[p] # r.packages["@littleorgans/create-app"]

\* Wrong on purpose: an anchor must occur, however often.
AnchoredSomewhere(r, a) == r.found[a] > 0
\* replace, replaceAt, removeAt, expectAt: as often as expected; editSequence and
\* the custom managers: once at least.
Anchored(r, a) ==
  /\ r.found[a] >= a.count
  /\ a.passage \notin FirstOnly \union AllDropped => r.found[a] = a.count

\* Passages of this repository's own that the edit leaves in the text.
Left(r, a) ==
  /\ a.passage \notin AllDropped
  /\ a \in r.strays \/ (a.passage \in FirstOnly /\ r.found[a] > a.count)

\* A file taken from source, its anchors rewritten.
File(r, source, path, when, tokens) ==
  [path |-> path, when |-> when,
   tokens |-> tokens \union UNION {a.leaves : a \in {x \in anchors : x.file = source}},
   left |-> {a \in anchors : a.file = source /\ Left(r, a)}, holds |-> {}]
Always == [part \in {} |-> TRUE]
WithDatabase == [database |-> TRUE]

checkRootEntries(r) ==
  /\ r.entries \subseteq ROOT
  /\ {f \in r.files : f[1] = WORKFLOWS} \subseteq Under(WORKFLOWS, GITHUB)
TaskFiles == {"tasks/node.yml", "tasks/rust.yml"}
KnownMoonFiles(r) ==
  {f \in r.files : f[1] = ".moon"}
    \subseteq Under(".moon", {"workspace.yml", "toolchains.yml"} \union TaskFiles)

\* The script of an entry that runs none.
NoScript == ""

copied == Top(copy \ {".vscode"})
Whole(r) == {f \in r.files : f[1] \in {".moon", ".vscode"}}

known == UNION {TASKS[kind] : kind \in DOMAIN TASKS}
\* Wrong on purpose: a project without a database keeps the database's tasks.
KeptWithDatabase(r, database) == r.tasks \ TASKS.reference
\* The tasks of the root that stay, with the scripts they run.  A project's
\* rls-verify is db-tools' own.
Kept(r, database) == r.tasks \ (TASKS.reference \union (IF database THEN {} ELSE TASKS.database))
Scripts(r, task) == IF task \in DOMAIN r.runs /\ task # "rls-verify" THEN r.runs[task] ELSE {}
StillNamed(r) == \E t \in Kept(r, TRUE) : "rls-verify.mjs" \in Scripts(r, t)
rootMoon(r, database) ==
  [File(r, <<".", "moon.yml">>, <<".", "moon.yml">>, [database |-> database], {}) EXCEPT
     !.holds = {<<t, NoScript>> : t \in Kept(r, database)}
               \union UNION {{<<t, s>> : s \in Scripts(r, t)} : t \in Kept(r, database)}]

\* releasedManifest: published packages come from the catalog, the typed schema
\* under the project's name.
Releasable(r) ==
  \A m \in DOMAIN r.deps : \A d \in DOMAIN r.deps[m] :
    r.deps[m][d] = "workspace:" => d \in published(r) \union {schema}
releasedManifest(r, m) ==
  {CASE r.deps[m][d] # "workspace:" -> <<d, r.deps[m][d]>>
     [] r.deps[m][d] = "workspace:" /\ d = schema -> <<PROJECT_SCHEMA, "workspace:">>
     [] OTHER -> <<d, "catalog:">> : d \in DOMAIN r.deps[m]}
Tooled(r) ==
  /\ REFERENCE_TOOLS \union DATABASE_TOOLS \subseteq DOMAIN r.deps["."]
  /\ "drizzle-kit" \notin DOMAIN r.deps["."]
rootManifest(r, database) ==
  {d \in releasedManifest(r, ".") :
     d[1] \notin REFERENCE_TOOLS \union (IF database THEN {} ELSE DATABASE_TOOLS)}
  \union (IF database THEN {<<"drizzle-kit", "catalog:">>} ELSE {})

Manifest(r, directory, when, tokens, deps) ==
  [File(r, <<directory, "package.json">>, <<directory, "package.json">>, when,
        tokens \union {"project"}) EXCEPT !.holds = deps]
manifests(r) ==
  {Manifest(r, ".", [database |-> v], {}, rootManifest(r, v)) : v \in DATABASE_VARIANTS}
  \union {Manifest(r, "apps/__LILO_WEB__", [web |-> TRUE], {"web"}, releasedManifest(r, WEB)),
          Manifest(r, "services/__LILO_SERVICE__", [service |-> TRUE], {"service"},
                   releasedManifest(r, SERVICE)),
          Manifest(r, SCHEMA, Always, {}, releasedManifest(r, SCHEMA))}

\* workspace: the catalog is what the manifests install.
wanted(r) == {d[1] : d \in {x \in UNION {m.holds : m \in manifests(r)} : x[2] = "catalog:"}}
Pinned(r) ==
  /\ wanted(r) \subseteq r.pins \union published(r)
  /\ \A m \in manifests(r) : \A d \in m.holds : d[2] # "catalog:react-peer"
installed(r) == wanted(r) \intersect (r.pins \union published(r))

ReferencesProjects(r) == {WEB, SCHEMA, SERVICE} \subseteq r.references
rootTsconfig(r, parts) ==
  [File(r, <<".", "tsconfig.json">>, <<".", "tsconfig.json">>, parts,
        (IF parts.web THEN {"web"} ELSE {}) \union (IF parts.service THEN {"service"} ELSE {}))
   EXCEPT !.holds = {<<d, "tsconfig.json">> :
     d \in {SCHEMA} \union (IF parts.web THEN {"apps/__LILO_WEB__"} ELSE {})
                    \union (IF parts.service THEN {"services/__LILO_SERVICE__"} ELSE {})}]

\* .env.example by paragraph: each has exactly one rule, and sets no other
\* paragraph's variable.  That a paragraph is there at all, or that it sets its
\* variable, nothing asks.
Classified(r) ==
  \A p \in r.env : /\ \E m \in DOMAIN ENV_PARAGRAPHS : p.markers = {m}
                   /\ p.assigns \subseteq p.markers
environment(r) ==
  LET Chosen(v) == {p \in r.env : \A m \in p.markers : matches(ENV_PARAGRAPHS[m], v)}
      Holds(v) == UNION {p.assigns : p \in Chosen(v)}
      Redirects(v) == \E p \in Chosen(v) : "WORKOS_REDIRECT_URI=" \in p.markers
  IN  {[File(r, ENV, ENV, v, {}) EXCEPT
          !.tokens = IF Redirects(v) THEN @ ELSE @ \ {"webPort"},
          !.holds = {<<variable, NoScript>> : variable \in Holds(v)}] : v \in ENV_VARIANTS}

\* project: every file of it moves, but the service's README.md.
project(r, source, target, when, tokens) ==
  {File(r, f, <<target, f[2]>>, when, tokens) :
     f \in {x \in r.files : x[1] = source} \ {<<source, "package.json">>, <<SERVICE, "README.md">>}}
projects(r) ==
  project(r, WEB, "apps/__LILO_WEB__", [web |-> TRUE], {"web"})
  \union project(r, SERVICE, "services/__LILO_SERVICE__", [service |-> TRUE], {"service"})
  \union project(r, SCHEMA, SCHEMA, Always, {})

databaseFiles(r) ==
  {File(r, <<"db", "schema.sql">>, <<"db", "schema.sql">>, WithDatabase, {}),
   File(r, <<"owned", "rls-seed.sql">>, <<"db", "rls-seed.sql">>, WithDatabase, {})}
  \union {File(r, f, <<"db/migrations", f[2]>>, WithDatabase, {}) :
            f \in {x \in r.files : x[1] = MIGRATIONS}}

\* scriptFiles: the scripts the files of the root name, each on its own.  Its
\* pattern sees those right under scripts/ alone.
Nested == {"lib/lint.mjs"}
named(r) ==
  (r.runs.prepare
   \union UNION {{h[2] : h \in f.holds} :
                 f \in {rootMoon(r, v) : v \in DATABASE_VARIANTS}}) \ ({NoScript} \union Nested)
Standalone(r) == named(r) \intersect r.imports = {}

rootFiles(r) ==
  {File(r, f, f, Always, {}) :
     f \in copied \union Whole(r) \union Top({".gitignore", ".oxfmtrc.json", "renovate.json",
          "pnpm-workspace.yaml"}) \union Under(WORKFLOWS, {"ci.yml"})
         \union Under("scripts", named(r))}
  \union {File(r, <<"owned", "AGENTS.md">>, <<".", "AGENTS.md">>, Always, {})}
  \union {rootMoon(r, v) : v \in DATABASE_VARIANTS}
  \union {rootTsconfig(r, v) : v \in {p \in [web : BOOLEAN, service : BOOLEAN] :
      p.web \/ p.service}}
  \union environment(r) \union databaseFiles(r)

\* Reference.read: tracked files, of text, none with an environment's values.
ReadFiles(r) ==
  {f \in r.files : f[1] \in {WEB, SERVICE, SCHEMA, MIGRATIONS, ".moon", ".vscode"}}
  \union {a.file : a \in anchors} \union copied
  \union Top({"moon.yml", "package.json", "pnpm-workspace.yaml", "tsconfig.json"})
  \union {<<d, "package.json">> : d \in {WEB, SERVICE, SCHEMA}}
  \union Under("scripts", named(r))
Readable(r) ==
  /\ ReadFiles(r) \subseteq r.files \ r.unreadable
  /\ \E f \in r.files : f[1] = MIGRATIONS

generateTemplate(r) ==
  [files |-> rootFiles(r) \union projects(r) \union manifests(r), catalog |-> installed(r)]

Accepts(r) ==
  /\ ~ReleasedApart(r) /\ checkRootEntries(r) /\ KnownMoonFiles(r)
  /\ Readable(r) /\ Standalone(r)
  /\ \A a \in anchors : Anchored(r, a)
  /\ r.tasks = known /\ ~StillNamed(r)
  /\ Releasable(r) /\ Tooled(r) /\ Pinned(r)
  /\ ReferencesProjects(r) /\ Classified(r)
  /\ OncePerPath(generateTemplate(r).files)

\* main: the template is written whole, or not at all.
Build ==
  /\ built = "no"
  /\ IF Accepts(reference)
     THEN built' = "yes" /\ template' = generateTemplate(reference)
     ELSE built' = "refused" /\ UNCHANGED template
  /\ UNCHANGED <<reference, edits>>

\* The formatter cannot be run, or refuses a file.
FormatFails ==
  /\ built = "no"
  /\ built' = "refused"
  /\ UNCHANGED <<reference, edits, template>>

-----------------------------------------------------------------------------
(* What people do to the reference.                                        *)

\* A passage is found until it is reworded or removed.  People may copy it, or
\* write another like it, in the same file and paragraph.
Rewords(r, a) == [r EXCEPT !.found[a] = @ - 1, !.strays = @ \union {a}]
Removes(r, a) == [r EXCEPT !.found[a] = @ - 1]
Copies(r, a) == [r EXCEPT !.found[a] = @ + 1, !.added = @ \union {a}]
Paraphrases(r, a) == [r EXCEPT !.strays = @ \union {a}, !.added = @ \union {a}]

\* A paragraph of the environment goes with the passages in it; or its variable
\* is commented out.
DropsParagraph(r, p) ==
  [r EXCEPT !.env = @ \ {p},
            !.found = [a \in anchors |-> IF Inside(a, p.markers) THEN 0 ELSE r.found[a]],
            !.strays = {a \in r.strays : ~Inside(a, p.markers)}]
CommentsOut(r, p) == [r EXCEPT !.env = (@ \ {p}) \union {[p EXCEPT !.assigns = {}]}]

Secret == {"WORKOS_API_KEY=", "DATABASE_URL="}
Added(deps, d, spec) == deps @@ (d :> spec)
PlainChanges(r) ==
  {[r EXCEPT !.entries = @ \union {"Makefile"}],
   [r EXCEPT !.references = @ \ {WEB}],
   [r EXCEPT !.imports = @ \union {"check-security.mjs"}],
   [r EXCEPT !.packages["@littleorgans/auth"] = Private],
   [r EXCEPT !.packages["@littleorgans/create-app"] = 2],
   [r EXCEPT !.tasks = @ \union {"deploy"}], [r EXCEPT !.tasks = @ \ {"audit"}],
   [r EXCEPT !.pins = @ \union {"vite"}]}
EnvChanges(r) ==
  {[r EXCEPT !.env = @ \union {[markers |-> {}, assigns |-> {"SENTRY_DSN="}]}],
   [r EXCEPT !.env = (@ \ {[markers |-> {v}, assigns |-> {v}] : v \in Secret})
                     \union {[markers |-> Secret, assigns |-> Secret]}]}
  \union {DropsParagraph(r, p) : p \in r.env} \union {CommentsOut(r, p) : p \in r.env}
FileChanges(r) ==
  {[r EXCEPT !.files = @ \union {f}] : f \in
     Under(WORKFLOWS, {"nightly.yml"}) \union Under(".moon", {"tasks/rust.yml", "hooks.yml"})
     \union Under(WEB, {"src/new.ts"}) \union Under(MIGRATIONS, {"0002.sql"})}
  \union {[r EXCEPT !.files = @ \ {f}] : f \in r.files}
  \union {[r EXCEPT !.unreadable = @ \union {f}] :
            f \in Under(WEB, {"vite.config.ts"}) \union Top({"justfile"})}
PassageChanges(r) ==
  LET Found == {a \in anchors : r.found[a] > 0}
  IN  {Rewords(r, a) : a \in Found} \union {Removes(r, a) : a \in Found}
      \union {Copies(r, a) : a \in anchors} \union {Paraphrases(r, a) : a \in anchors}
ScriptChanges(r) ==
  {[r EXCEPT !.runs["lint"] = {script}] :
     script \in {"rls-verify.mjs", "release.mjs", "lint.mjs"} \union Nested}
  \union {[r EXCEPT !.files = @ \union Under("scripts", {"lint.mjs"}),
                   !.runs["lint"] = {"lint.mjs"}]}
DependencyChanges(r) ==
  {[r EXCEPT !.deps[m] = Added(@, d, spec)] :
     m \in DOMAIN r.deps, d \in {"@littleorgans/tsconfig", "vite", "drizzle-kit"},
     spec \in {"workspace:", "catalog:", "catalog:react-peer", "1.0.0"}}
  \union {[r EXCEPT !.deps["."] = [d \in DOMAIN @ \ {gone} |-> @[d]]] : gone \in {"yaml", "pg"}}
  \union {[r EXCEPT !.pins = @ \ {pin}] : pin \in {"drizzle-kit", "yaml", "hono"}}
Changes(r) ==
  PlainChanges(r) \union EnvChanges(r) \union FileChanges(r) \union PassageChanges(r)
  \union ScriptChanges(r) \union DependencyChanges(r)

Edit ==
  /\ built = "no" /\ edits < MostEdits
  /\ reference' \in Changes(reference)
  /\ edits' = edits + 1
  /\ UNCHANGED <<template, built>>

BuildNext == Build \/ FormatFails \/ Edit

BuildSpec == BuildInit /\ [][BuildNext]_buildVars

-----------------------------------------------------------------------------
(* Properties.                                                             *)

\* The variables an application reads: the web app all of WorkOS's
\* (apps/web/src/server/startup.ts), a service the client's id, and whatever has a
\* database its URL.
VariablesFor(parts) ==
  {"WORKOS_CLIENT_ID="}
  \union (IF parts.web THEN {"WORKOS_API_KEY=", "WORKOS_REDIRECT_URI=", "WORKOS_COOKIE_PASSWORD=",
                             "WORKOS_COOKIE_PASSWORD_PREVIOUS="} ELSE {})
  \union (IF parts.database THEN {"DATABASE_URL="} ELSE {})

StandsAlone(made, r, parts) ==
  LET chosen == Selected(made.files, parts)
      paths == {f.path : f \in chosen}
      At(name) == {f \in chosen : f.path = <<".", name>>}
      Holds(name) == UNION {f.holds : f \in At(name)}
      deps == UNION {f.holds : f \in {x \in chosen : x.path[2] = "package.json"}}
      tasks == {t[1] : t \in Holds("moon.yml")}
      lost == Under(SCHEMA, {"tsconfig.json"}) \ r.files
  IN  /\ \A f \in chosen : f.tokens \subseteq values(parts)
      /\ \A name \in {"moon.yml", "package.json", "tsconfig.json", ".env.example"} :
           Cardinality(At(name)) = 1
      /\ \A d \in deps :
           /\ d[2] = "catalog:" => d[1] \in made.catalog
           /\ d[2] = "workspace:" => d[1] = PROJECT_SCHEMA /\ <<SCHEMA, "package.json">> \in paths
           /\ d[2] \notin {"catalog:react-peer"}
      /\ Holds("tsconfig.json") \ lost = {p \in paths : p[1] # "." /\ p[2] = "tsconfig.json"}
      /\ \A t \in Holds("moon.yml") :
           t[2] \notin Nested \union {NoScript} => <<"scripts", t[2]>> \in paths
      /\ tasks \intersect TASKS.database # {} =>
           /\ {"@littleorgans/db-tools", "drizzle-kit", "pg"}
                \subseteq {d[1] : d \in Holds("package.json")}
           /\ <<"db", "schema.sql">> \in paths /\ \E p \in paths : p[1] = "db/migrations"
      /\ {h[1] : h \in Holds(".env.example")}
           = VariablesFor(parts) \intersect UNION {p.assigns : p \in r.env}

\* No passage of this repository's own but those people wrote beside the ones
\* the edits were made for, no task or tool of its publishing, no task nobody
\* classified.
NothingOfTheReference(made, r) ==
  \A f \in made.files :
    /\ f.left \subseteq r.added
    /\ f.path = <<".", "moon.yml">> =>
         {t[1] : t \in f.holds} \subseteq TASKS.project \union TASKS.database
    /\ f.path = <<".", "package.json">> => {d[1] : d \in f.holds} \intersect REFERENCE_TOOLS = {}
    /\ f.path[2] = "package.json" => <<schema, "workspace:">> \notin f.holds

\* However many of these edits the reference had, the template a build wrote makes
\* a project of every choice: each token has a value, its catalog has what it
\* installs, its root builds exactly the projects it has, its tasks run scripts and
\* tools that are in it, its environment is that of its parts, and a passage of
\* this repository's own that an edit was made for does not stay in it, reworded
\* or not.  What the build does not ask, the reference must have: the tsconfig.json
\* of db/drizzle, a variable's paragraph, scripts right under scripts/.
ProjectsStandAlone ==
  template # NoTemplate =>
    /\ \A parts \in CHOICES : StandsAlone(template, reference, parts)
    /\ NothingOfTheReference(template, reference)
=============================================================================
