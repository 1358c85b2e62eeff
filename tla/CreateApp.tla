------------------------------- MODULE CreateApp -------------------------------
(***************************************************************************)
(* The create-app command (packages/create-app/src/cli.ts, choices.ts and  *)
(* scaffold.ts): flags and answers become choices, and the template's      *)
(* files are written into a directory.  Two commands may be given the same *)
(* directory, a person may use it meanwhile, and a command may be killed.  *)
(***************************************************************************)
EXTENDS Template, Sequences, FiniteSets

CONSTANTS Runs,        \* commands, each run once
          Requests,    \* what their flags say
          FILES,       \* the template's files, in the order they are written
          Extra,       \* a path no template has
          MostAdded    \* bound: files the person adds

\* A name, as far as the checks look: it is lowercase letters, digits and dashes
\* and ends in none; it starts with pg and a dash, or is pg; and how long it is.
Named(is, good, pg, length) == [is |-> is, good |-> good, pg |-> pg, length |-> length]
NoName == Named("", FALSE, FALSE, 0)
NoPort == 100000
NoPolicy == "none given"
ORGANIZATION_POLICIES == {"personal", "existing"}
defaults == [web |-> Named("web", TRUE, FALSE, 3), webPort |-> 5199,
             service |-> Named("api", TRUE, FALSE, 3), servicePort |-> 8787]
NoRequest == [directory |-> NoName, name |-> NoName, web |-> FALSE, webName |-> NoName,
              webPort |-> NoPort, policy |-> NoPolicy, service |-> FALSE,
              serviceName |-> NoName, servicePort |-> NoPort, database |-> "undefined"]

\* Of two names the checks tell apart what they are told apart by: one string.
AppNames == {q.webName : q \in Requests} \union {q.serviceName : q \in Requests}
            \union {NoName, defaults.web, defaults.service}
ASSUME RequestsAssumption ==
  /\ \A q \in Requests : DOMAIN q = DOMAIN NoRequest
  /\ \A x, y \in AppNames : x.is = y.is => x = y

\* The files of every choice are written with values for all their tokens, each
\* path once (ProjectsStandAlone of module TemplateBuild), and the first of them
\* is everyone's: the root's files come first, and of them those copied.
ASSUME TemplateAssumption ==
  /\ FILES # <<>> /\ FILES \in Seq({FILES[i] : i \in DOMAIN FILES})
  /\ OncePerPath({FILES[i] : i \in DOMAIN FILES})
  /\ \A parts \in CHOICES : \A i \in DOMAIN FILES :
       matches(FILES[i].when, parts) => FILES[i].tokens \subseteq values(parts)
  /\ DOMAIN FILES[1].when = {}

VARIABLES target,    \* the files in the directory: who wrote each, and whether to the end
          run
appVars == <<target, run>>

appExitCodes == [created |-> 0, failed |-> 1, usage |-> 2]
NotEnded == 9
Paths == {FILES[i].path : i \in DOMAIN FILES} \union {Extra, ".git"}
IdleRun == [at |-> "start", terminal |-> FALSE, request |-> NoRequest, next |-> 1, exit |-> NotEnded]

AppTypeOK ==
  /\ DOMAIN target \subseteq Paths
  /\ \A p \in DOMAIN target : target[p] \in [by : Runs \union {"person"}, whole : BOOLEAN]
  /\ DOMAIN run = Runs
  /\ \A r \in Runs :
       /\ run[r].at \in {"start", "directory", "kind", "policy", "database", "resolve", "check",
                         "write", "done", "stopped"}
       /\ run[r].next \in 1..(Len(FILES) + 1)
       /\ run[r].exit \in {appExitCodes[o] : o \in DOMAIN appExitCodes} \union {NotEnded}

AppInit == target = [p \in {} |-> 0] /\ run = [r \in Runs |-> IdleRun]

RunAt(r, step) == run[r].at = step
RunGoes(r, fields) ==
  run' = [run EXCEPT ![r] = [f \in DOMAIN run[r] |-> IF f \in DOMAIN fields THEN fields[f] ELSE @[f]]]
\* Only of a project that was created is the rest of any interest.
Stops(r, code) ==
  run' = [run EXCEPT ![r] =
            [(IF code = appExitCodes.created THEN @ ELSE IdleRun) EXCEPT !.at = "done", !.exit = code]]
RunExits(r, code) == Stops(r, code) /\ UNCHANGED target

-----------------------------------------------------------------------------
(* The flags, and a person's answers to what they leave open.              *)

\* Unknown options, two directories; or --help.
StopRunEarly(r) ==
  /\ RunAt(r, "start")
  /\ \E outcome \in {"usage", "created"} : RunGoes(r, [at |-> "stopped", exit |-> appExitCodes[outcome]])
  /\ UNCHANGED target

BeginRun(r) ==
  /\ RunAt(r, "start")
  /\ \E request \in Requests, terminal \in BOOLEAN :
       RunGoes(r, [at |-> IF terminal THEN "directory" ELSE "resolve", terminal |-> terminal,
                request |-> request])
  /\ UNCHANGED target

\* A question is asked where its flag is missing.
Question(r, step, missing, next, Answered(_), answers) ==
  /\ RunAt(r, step)
  /\ IF missing
     THEN \E answer \in answers : RunGoes(r, [at |-> next, request |-> Answered(answer)])
     ELSE RunGoes(r, [at |-> next])
  /\ UNCHANGED target

AskDirectory(r) ==
  LET q == run[r].request
  IN  Question(r, "directory", q.directory = NoName, "kind",
               LAMBDA a : [q EXCEPT !.directory = a], {NoName, Named("acme", TRUE, FALSE, 4)})
AskKind(r) ==
  LET q == run[r].request
  IN  Question(r, "kind", ~q.web /\ ~q.service, "policy",
               LAMBDA a : [q EXCEPT !.web = a # "service", !.service = a # "web"],
               {"web", "service", "both"})
AskPolicy(r) ==
  LET q == run[r].request
  IN  Question(r, "policy", q.web /\ q.policy = NoPolicy, "database",
               LAMBDA a : [q EXCEPT !.policy = a], ORGANIZATION_POLICIES \union {"other"})
AskDatabase(r) ==
  LET q == run[r].request
  IN  Question(r, "database", ~q.service /\ q.database = "undefined", "resolve",
               LAMBDA a : [q EXCEPT !.database = a], {"yes", "no"})

\* No such kind, neither yes nor no.
AnswerError(r) ==
  /\ \/ RunAt(r, "kind") /\ ~run[r].request.web /\ ~run[r].request.service
     \/ RunAt(r, "database") /\ ~run[r].request.service /\ run[r].request.database = "undefined"
  /\ RunExits(r, appExitCodes.usage)

-----------------------------------------------------------------------------
(* choices.ts.                                                             *)

Given(name, fallback) == IF name = NoName THEN fallback ELSE name
GivenPort(port, fallback) == IF port = NoPort THEN fallback ELSE port

\* checkName: for --name, the published scope is reserved; for an app, what the
\* workspace ignores as output.
TAKEN == {"root", "drizzle-schema"}
GoodName(name) == name.good /\ name.is \notin TAKEN
GoodProject(name) == GoodName(name) /\ name.is # "littleorgans"
GoodApp(name) == GoodName(name) /\ name.is \notin {"dist", "build", "out", "coverage"}
GoodPort(port) == port \in 1..65535

choices(q) ==
  [project |-> Given(q.name, q.directory),
   parts |-> [web |-> q.web, service |-> q.service, database |-> q.service \/ q.database = "yes"],
   apps |-> (IF q.web THEN {[is |-> "web", name |-> Given(q.webName, defaults.web),
                             port |-> GivenPort(q.webPort, defaults.webPort)]} ELSE {})
            \union (IF q.service THEN {[is |-> "service",
                             name |-> Given(q.serviceName, defaults.service),
                             port |-> GivenPort(q.servicePort, defaults.servicePort)]} ELSE {})]

\* "@project/app", and the role project_app.
PackageLength(project, name) == project.length + name.length + 2
drizzleSchema == Named("drizzle-schema", TRUE, FALSE, 14)
RoleLength(project, name) == project.length + name.length + 1

\* Wrong on purpose: only the names are compared.
SameNames(a, b) == a.name # b.name
Apart(a, b) == a.name # b.name /\ a.port # b.port

Unused(q) ==
  /\ ~q.web => q.webName = NoName /\ q.webPort = NoPort /\ q.policy = NoPolicy
  /\ ~q.service => q.serviceName = NoName /\ q.servicePort = NoPort

Valid(q) ==
  LET c == choices(q)
  IN  /\ q.directory # NoName /\ GoodProject(c.project)
      /\ q.web \/ q.service
      /\ q.web => q.policy \in ORGANIZATION_POLICIES
      /\ Unused(q)
      /\ ~(q.service /\ q.database = "no")
      /\ \A app \in c.apps : GoodApp(app.name) /\ GoodPort(app.port)
      /\ \A a, b \in c.apps : a # b => Apart(a, b)
      /\ \A name \in {app.name : app \in c.apps} \union {drizzleSchema} :
           PackageLength(c.project, name) <= 214
      /\ c.parts.database =>
           ~c.project.pg /\ \A app \in c.apps : RoleLength(c.project, app.name) <= 63

resolveChoices(r) ==
  /\ RunAt(r, "resolve")
  /\ IF Valid(run[r].request) THEN RunGoes(r, [at |-> "check"]) /\ UNCHANGED target
     ELSE RunExits(r, appExitCodes.usage)

-----------------------------------------------------------------------------
(* scaffold.ts.                                                            *)

partsOf(r) == choices(run[r].request).parts

CheckTarget(r) ==
  /\ RunAt(r, "check")
  /\ IF DOMAIN target \subseteq {".git"} THEN RunGoes(r, [at |-> "write"]) /\ UNCHANGED target
     ELSE RunExits(r, appExitCodes.failed)

Put(path, file) == [p \in DOMAIN target \union {path} |-> IF p = path THEN file ELSE target[p]]

\* Wrong on purpose: without the flag, what is there is replaced.
Replaceable(path) == TRUE
\* The flag "wx".
Creatable(path) == path \notin DOMAIN target

\* The next file that the choices select; or, after the last, the report.
WriteFile(r) ==
  /\ RunAt(r, "write")
  /\ LET i == run[r].next
     IN  IF i > Len(FILES) THEN RunExits(r, appExitCodes.created)
         ELSE IF ~matches(FILES[i].when, partsOf(r)) THEN RunGoes(r, [next |-> i + 1]) /\ UNCHANGED target
         ELSE IF Creatable(FILES[i].path)
         THEN /\ target' = Put(FILES[i].path, [by |-> r, whole |-> TRUE])
              /\ RunGoes(r, [next |-> i + 1])
         ELSE RunExits(r, appExitCodes.failed)

\* Killed, at a question too; or an error: a directory that is a file, no space.
\* What was written stays, and the file it was at may be cut short.
Die(r) ==
  /\ run[r].at \notin {"start", "done", "stopped"}
  /\ Stops(r, appExitCodes.failed)
  /\ \/ UNCHANGED target
     \/ /\ RunAt(r, "write") /\ run[r].next <= Len(FILES)
        /\ matches(FILES[run[r].next].when, partsOf(r)) /\ Creatable(FILES[run[r].next].path)
        /\ target' = Put(FILES[run[r].next].path, [by |-> r, whole |-> FALSE])

\* The person adds a file: git init, or one of their own.
Add(path) ==
  /\ path \notin DOMAIN target
  /\ Cardinality({p \in DOMAIN target : target[p].by = "person"}) < MostAdded
  /\ target' = Put(path, [by |-> "person", whole |-> TRUE])
  /\ UNCHANGED run

AppNext ==
  \/ \E r \in Runs :
       \/ StopRunEarly(r) \/ BeginRun(r)
       \/ AskDirectory(r) \/ AskKind(r) \/ AskPolicy(r) \/ AskDatabase(r) \/ AnswerError(r)
       \/ resolveChoices(r) \/ CheckTarget(r) \/ WriteFile(r) \/ Die(r)
  \/ \E path \in Paths : Add(path)

AppSpec == AppInit /\ [][AppNext]_appVars

-----------------------------------------------------------------------------
(* Properties.                                                             *)

\* A command that reports success left a whole project: every file its choices
\* select, written by it to the end, none of another command's, and apps that can
\* run side by side.
CreatedIsWhole ==
  \A r \in Runs : run[r].at = "done" /\ run[r].exit = appExitCodes.created =>
    LET c == choices(run[r].request)
    IN  /\ \A f \in Selected({FILES[i] : i \in DOMAIN FILES}, c.parts) :
             f.path \in DOMAIN target /\ target[f.path] = [by |-> r, whole |-> TRUE]
        /\ \A p \in DOMAIN target : target[p].by \in {r, "person"}
        /\ \A a, b \in c.apps : a # b => a.port # b.port /\ a.name.is # b.name.is
=============================================================================
