# Verification of lilo-moon-template

TLA+ models of the template's own core logic, the TLC runs that check them on
small instances, and the theorems TLAPS proves for every instance. Paths are
relative to the repository root. `PROJECT.json` holds the same facts in machine
form: which definition stands for which lines, which run checks which property,
which hazard each property is for.

## 1. The system

A web application and services that share one identity. A browser signs in
through WorkOS, the application keeps the two tokens in a sealed cookie, every
request verifies (and if need be renews) the access token, services accept that
token as a bearer token, and every database statement runs in a transaction
scoped to the token's user and organization by row level security. Around it are
the commands the template is kept with: the checks of its schema and policies,
the release, the skills catalog, and `create-app`, which cuts a project out of
the reference app.

| Component | Code | State it keeps | Operations |
|---|---|---|---|
| Session access and refresh | `packages/auth-session/src/access.ts`, `session.ts`, `signout.ts`, `packages/auth/src/verify.ts` | the session cookie; a map of refreshes under way per process; at the provider the pairs issued, when each was spent, whether the session is revoked | `readAccess`, `verified`, `refreshed`, `sharedRefresh`, `writeSession`, `signOut` |
| Scoped transactions | `packages/db/src/database.ts`, `scoped.ts`, `packages/db/migrations` | the pool's clients; each server session's transaction, role, claims and uncommitted rows; the committed rows | `withPrincipal`, `runScoped`, the row policies |
| Identity rows | `services/api/src/features/accounts/account.ts`, `apps/web/src/server/identity.ts` | rows of `accounts` and `profiles` | `provisionAccount`, `findAccount`, `ensureIdentityRows`, `countVisibleRows` |
| Sign-in | `packages/auth-session/src/authorize.ts`, `callback.ts`, `packages/auth-workos/src/provider.ts` | state cookie; codes, organizations and memberships at the provider | `startAuthorization`, `handleCallback`, `ensureOrganization`, `provisionOrganization` |
| Email-code sign-in | `packages/auth-session/src/email.ts`, `throttle.ts`, `apps/web/src/server/throttle.ts` | address cookie; codes at the provider; throttle windows | `startEmailSignIn`, `completeEmailSignIn`, `throttled`, `memoryThrottle` |
| Service lifecycle | `services/api/src/server/service.ts`, `main.ts` | listening socket, running handlers, the pool, the memoized stop | `startService`, `stop`, `drain`, `stopOnSignals` |
| Release pipeline | `scripts/release.mjs`, `.github/workflows/release.yml` | tarballs and their record, the registry, git tags, the GitHub release | `pack`, `preflight`, `publish`, `tag`, `smoke` |
| Scratch Postgres | `packages/db-tools/src/postgres.ts` | a Docker container per checkout, marked databases | `ensurePostgres`, `withPostgres`, `dropStaleDatabases`, `removePostgres` |
| Cookie keys | `packages/auth-session/src/config.ts`, `session.ts` | the current and previous cookie passwords of each instance | `unsealWithAny`, a rolling rotation |
| Service authentication | `packages/auth-http/src`, `packages/auth/src/verify.ts`, `services/api/src/routes` | per process, the provider's key set as last fetched and the one fetch under way | `createAuthenticator`, `tenantAuth`, `errorHandler` |
| Schema and RLS checks | `packages/db-tools/src/cli.ts`, `checks.ts`, `commands.ts`, `drizzle.ts`, `atlas.ts`, `scripts/rls-verify.mjs` | a scratch database, one read-only connection; the migrations, the generated schema and its directory | `rls-verify`, the migrations' checks, `drizzle-generate`, `drizzle-check` |
| Skills catalog | `scripts/lib/skills.mjs`, `scripts/sync-skills.mjs`, `scripts/check-skills.mjs` | the skills of a commit, the catalog's copy of them | the rules of a skill, `parseBundles`, the sync |
| Project generator | `packages/create-app/src` | the template cut from this repository; the directory of a new project | `buildTemplate`, `resolveChoices`, `scaffold` |
| Everything else | wiring, published shapes, views, configuration | none that outlives a call | see section 8 |

How they interact: the browser carries cookies to handlers and takes cookies
from their responses, in any order; handlers call the provider over the network;
the loader and the API call `withPrincipal` with the principal of a verified
token; the service lifecycle ends the pool `withPrincipal` borrows from; a
session's refresh and a bearer token are verified by the same code with the same
kind of key set. The commands share a checkout, its container and a machine.

What is hard here: parallel requests of one browser against a provider that
rotates a token on first use; responses that arrive out of order; a pooled
connection that outlives the request whose identity it carried; a lost answer to
COMMIT or to a token rotation; two tabs that sign one person up at once; a
process that ends between two steps; a drain deadline that passes while handlers
run; a key set every request of a process shares while the provider's keys
change; and, of the commands, a check that executes code of the database it
checks, directories replaced in several steps while another command reads them,
and a template derived from files people keep changing. `PROJECT.json` lists
each hazard at its line.

What makes each part correct, in a sentence:

- **Session**: parallel requests never end a session that lives, never leave a
  browser with a spent token, and never serve a token that did not verify.
- **Transactions and rows**: a body reads its own tenant's rows only, a pooled
  client carries nothing of its last borrower, and each call takes effect wholly
  or not at all.
- **Sign-in**: a browser is signed in by an attempt of its own, in an
  organization the person belongs to, and a person gets one workspace.
- **Email codes**: a code is guessed a bounded number of times, and nothing that
  can go wrong costs a person the address they are typing a code for.
- **Lifecycle**: a signalled service ends, and no request that can still be
  answered loses its database.
- **Release**: packages of one version come from one commit, dependencies first,
  and a tag says the truth about the registry.
- **Scratch Postgres**: no cleanup takes a database in use or a person's data,
  and leftovers are dropped.
- **Cookie keys**: the rotation procedure signs nobody out.
- **Service authentication**: nobody with a good token is told to sign in again,
  and a key that was taken down stops opening anything.
- **Schema and RLS checks**: the database in the URL is never written, the exit
  code is true, and `drizzle-check` passes only on what is current.
- **Skills catalog**: what reaches the catalog is what was checked, and settings
  are read as TOML would read them.
- **Project generator**: every project that can be asked for stands alone, or the
  build stops; a project that was created is whole.

## 2. Modules

| Module | Models | Uses |
|---|---|---|
| `SessionRefresh` | `access.ts`, `session.ts`, `signout.ts`: one browser session, its parallel requests, instances and provider | |
| `SessionRefreshProofs` | theorems about it | `SessionRefresh` |
| `IdentityRows` | the rows and policies of the migrations, the callers and what each writes | |
| `TenantStore` | abstract: one store grown and read in one step per request | `IdentityRows` |
| `ScopedTransaction` | `withPrincipal` with the repository's bodies over a pool and Postgres; implements `TenantStore` | `IdentityRows`, `TenantStore` |
| `ScopedTransactionProofs` | theorems about the three, the refinement among them | `ScopedTransaction` |
| `Signup` | abstract: what signing up promises | |
| `Provisioning` | `ensureOrganization` over `provisionOrganization`; implements `Signup` | `Signup` |
| `SignIn` | `startAuthorization` and `handleCallback`, which ends in `Provisioning` | `Provisioning` |
| `SignInProofs` | theorems about them, the refinement of `Signup` among them | `SignIn` |
| `Limiter` | abstract: budgets refilled by fixed windows | |
| `MemoryThrottle` | `memoryThrottle`, an ordered map with sweep and ceiling; implements `Limiter` | `Limiter` |
| `ThrottleBudget` | `MemoryThrottle` with a history of what it allowed | `MemoryThrottle` |
| `EmailSignIn` | `startEmailSignIn` and `completeEmailSignIn` behind the throttle | `Limiter` |
| `EmailSignInProofs` | theorems about it | `EmailSignIn` |
| `ServiceLifecycle` | `main.ts`, `service.ts`: start, serve, signals, drain, exit | |
| `ServerProofs` | theorems about the service and the throttle, the refinement of `Limiter` among them | `ServiceLifecycle`, `ThrottleBudget` |
| `ReleaseVersion` | abstract: what releasing one version promises | |
| `Release` | the workflow's jobs over `release.mjs`; implements `ReleaseVersion` | `ReleaseVersion` |
| `PublishOrder` | the search of `publishOrder`, for the orders `MCRelease` gives `Release` | |
| `PostgresContainer` | `postgres.ts` over Docker's names and containers | |
| `KeyRotation` | which key seals and opens, under rolling deploys | |
| `BearerAuth` | `auth-http` over `verify.ts`: a header's way to an answer, the shared key set and its fetch | |
| `KeyProofs` | theorems about keys that change while in use | `KeyRotation`, `BearerAuth` |
| `RlsVerify` | `rls-verify` in its three modes, down to each statement that may fail, and what Postgres answers the role | |
| `DbCommands` | the `db-tools` command line: tasks of one checkout that race over migrations and generated files | |
| `DbToolsProofs` | theorems about `rls-verify`, the scratch container and `drizzle-check` | `RlsVerify`, `PostgresContainer`, `DbCommands` |
| `SkillFiles` | the rules of `lib/skills.mjs` as operators over a commit's files | |
| `SettingsReader` | `parseBundles`, line by line, over every settings file | `SkillFiles` |
| `SkillsSync` | `sync-skills.mjs` while people commit, edit and tag | `SkillFiles` |
| `Template` | conditions and tokens of the template's files | |
| `TemplateBuild` | the build of the template from the reference, which drifts | `Template` |
| `CreateApp` | `create-app`: flags, questions, choices, exclusive writes | `Template` |
| `RepositoryProofs` | theorems about releases, the refinement of `ReleaseVersion` among them, about created projects, the skills catalog and its settings reader, and about the template build | `Release`, `CreateApp`, `SkillsSync`, `SettingsReader`, `TemplateBuild` |

Each `MC...` module extends or instantiates one or more of these, gives the
function-valued constants their values and, where only invariants and action
properties are checked, states the symmetry. Three of them check several
questions in one run: `MCEmailSignIn` two instances, `MCKeyRotation` the two kinds
of key, `MCRepositoryTools` six tools that share nothing. There a variable
(`about`, `tool`), chosen at the start and never changed, says which of them a
behaviour is of, and the variables of the others stay as they are.

An action is one uninterrupted piece of the code: what runs between two awaits, or one provider call, database statement
or `docker` command that others can interleave with. What a remote call did and
what its caller learns are separate, so an answer can be lost after it took
effect. `PROJECT.json` "map" gives the lines of each definition; definitions
without lines there stand for things outside the repository (the browser, the
provider, Postgres, Docker, npm and git hosts, the operator).

Data is abstract wherever no property looks at it: tokens are the number of
their issue, a key is the number of its password, an organization, address or
package is a model value. Sealing, digests and JWT decoding are injective, and
verification is the two facts the code uses: expiry against the tolerance and
whether the key is in the set the process fetched last.

### How the larger ones correspond to the code

- **SessionRefresh.** `inFlight` is the module-level map of `access.ts`, one per
  instance; `Handle` is `verified` up to its first await and `Refresh` the call
  made by `sharedRefresh`, its settling and the deletion of its entry.
  `cookie` is the browser's jar, `reply` what a handler answered, and responses
  are delivered in any order or not at all. The provider accepts a spent token
  again inside `ReuseWindow`. `keys` is the set each instance verifies with: the
  provider withdraws a key without telling anybody, and an instance learns of it
  when a set outgrows its age, or when a token of an unknown key makes it fetch
  again after the cooldown. Until then it goes on accepting the withdrawn key, and
  two instances may disagree.
- **ScopedTransaction.** `pc` walks `connect`, `begin`, `set local role`,
  `set_config`, the body's statements, `commit` or `rollback`, `release`, as
  `scoped.ts` sends them. `session` is the Postgres side of each pooled client.
  An insert waits for the uncommitted row it conflicts with and, under READ
  COMMITTED, sees what was committed meanwhile.
- **Provisioning, SignIn.** One handler makes up to four provider calls, each of
  which may be refused, lose its answer, or outlive the process.
  `Mishaps` of the browser's side: denied, repeated, opened in another browser,
  expired, dropped.
- **MemoryThrottle.** `windows` is the `Map` as a function whose domain is the keys
  it holds, `order` its insertion order as a relation among them; `Inserted` is
  the `delete` and `set` that puts a reopened window last, `Evicted` the ceiling
  that drops the first.
- **EmailSignIn.** The throttle is a `Limiter`; a request passes it long before
  its call reaches the provider, and the window can turn or a new code be sent in
  between. `guesses` counts every try that reaches the provider while a code
  lives, `early` those that were on their way when it was sent.
- **Release.** A run holds one commit and one program counter over the jobs; the
  concurrency group runs one at a time and keeps one pending. Every step may
  fail before its effect or after it.
- **PostgresContainer.** A task inspects, then acts on a container that may have
  changed meanwhile: names are reserved before containers appear, ids never
  return, process ids do.
- **BearerAuth.** `cache` and `fetch` are the key set that `createRemoteJWKSet`
  keeps, with the cache age, the cooldown and the timeout of `jose` as
  `verify.ts` uses them; a request that needs a fetch joins the one under way.
  Ages are counted up to the first that no guard tells from a greater one, so
  time itself has no bound.
- **RlsVerify.** `at` walks `main`, the disposable database's steps and the checks
  in their order, `session` is the one connection the checks share and what
  earlier transactions left on it. A table is what the checks can tell apart:
  forced or not, whose, filled, and a policy that is right, open, lenient or
  strict about a setting never made, casts without `nullif`, writes or hangs
  (which only a read-only client has a limit for). A statement fails with or
  without its effect.
- **DbCommands.** A task reads, replaces and compares in the steps of the code;
  between any two another task, a person or a kill may come.
- **SkillFiles, SettingsReader, SkillsSync.** A line is what it is to the
  checks: a fence, a citation of a path, a link, a field. The reader takes the
  settings one line at a time and is compared with what the accepted text means;
  the sync reads one commit file by file.
- **Template, TemplateBuild, CreateApp.** A file of the reference is its path,
  what the build knows of it, and the anchors it is edited at, each found some
  number of times and perhaps with strays that no edit covers. `TemplateBuild`
  runs the whole build on the reference as it is today and after each drift of
  one or two edits: files and paragraphs added and dropped, passages reworded,
  removed, copied and paraphrased, tasks, scripts and dependencies changed. `CreateApp` keeps two commands' program counters over one
  directory.

## 3. The plan

Order of work: what a signed-in request depends on first.

1. Done: `SessionRefresh`, `IdentityRows`, `TenantStore`, `ScopedTransaction` and
   their proofs; then sign-in (`Signup`, `Provisioning`, `SignIn`), email codes
   (`Limiter`, `MemoryThrottle`, `ThrottleBudget`, `EmailSignIn`),
   `ServiceLifecycle`, `Release`, `PublishOrder`, `PostgresContainer`,
   `KeyRotation` and its proofs.
2. Done: `BearerAuth` and its proofs; `RlsVerify` and its proofs, `DbCommands`;
   `SkillFiles`, `SettingsReader`, `SkillsSync`; `Template`, `TemplateBuild`,
   `CreateApp`.
3. Done: the theorems of the remaining components with state: what a live session
   keeps, sign-in and `Signup`, email codes, the service, `Release` and
   `ReleaseVersion`, the scratch container, the throttle and `Limiter`.
4. Done: the theorems of the repository's tools (`CreateApp`, `DbCommands`,
   `SkillsSync`, `SettingsReader`, `TemplateBuild`), and that `withPrincipal` never deadlocks.
5. Next compositions: `SignIn` over `EmailSignIn` in one browser (two ways to be
   signed in, one session cookie); `ServiceLifecycle` over `ScopedTransaction`
   (the pool that ends under transactions).

## 4. What the runs check

| Run | Instance | What it shows |
|---|---|---|
| `session_races` | 3 requests of one browser, 2 instances, outages of the key set and the provider | `LiveSessionNeverEnds`, `BrowserNeverStranded`: whatever the interleaving and the order of responses, only the provider ends a session |
| `session_mishaps` | 2 requests, 2 instances with key sets of their own age; revocation, a key withdrawn, sign-out, crashes, lost answers and responses | `ServedWasValidWhenSent`, `RevocationBites`, `RefreshesAreShared` |
| `tx_calls` | 4 callers (two of one organization race `PUT /account`, a tab, one without organization), 2 pooled clients, every fault | `StoreImplemented` (each call is one step of `TenantStore`), `IdleClientIsClean`, `OwnRowsOnly`, `SomeRequestGoesOn` |
| `tx_outage` | 2 callers, an idle connection that breaks | violated: `OutageKeepsProcess`, see section 7 |
| `signin` | 2 tabs of one browser and one of another, 2 callbacks, every mishap and every provider fault | `SessionIsOwnSignIn`, `SomeTabGetsIn`, `OneWorkspaceEach`, `SignupImplemented` |
| `throttle` | 3 keys, room for 2 windows, a half-second clock | `LimiterImplemented`, `RetryAfterSuffices`, `TwiceTheBudgetAtMost` |
| `email` | either 2 browsers, 2 people, 2 requests at once, budgets of one and every mishap; or 1 browser, 2 codes, 2 requests at once over several windows | `CookieNamesAddressee`, `SessionBegunHere`, `AddressKeptUntilSignedIn`, `GuessesBounded` |
| `service` | 3 connections, 2 clients, both signals | `OpenRequestKeepsPool`, `StopsCleanly`, `SignalEndsProcess` |
| `release` | 3 packages, 3 commits, 3 failures | `VersionImplemented`, `PublishedFromOneCommit`, `EventuallyReleased`; as assumptions, `RefusesExactlyCycles` and `DependenciesFirst` of `publishOrder` on all 4096 relations of 3 packages and an outsider |
| `container` | 3 tasks of two images and labels, process ids given again, 1 cleaner, 3 containers, 1 mishap | `UsedDatabaseStays`, `FailsOnlyIfDisturbed`, `PersonalDataStays`, `LeftoversReaped` |
| `rotation` | either 2 instances, 1 browser, 2 overlapping rotations with rollbacks; or 2 bearer requests, 2 keys of the provider and a forger's | `NobodySignedOut`; `GoodTokensAreNotRefused`, `TakenDownKeysExpire` |
| `tools` | `rls-verify` over some 620 databases; 2 `db-tools` tasks; the sync over 2 commits; settings files of 11 lines; the template build after 2 edits; 2 `create-app` commands with 16 requests | `OriginalNeverWritten`, `VerdictIsTrue`; `CheckPassesOnlyIfCurrent`; `CatalogHoldsReviewed`; `SettingsReadRight`; `ProjectsStandAlone`; `CreatedIsWhole` |

What a refinement implies is not checked a second time: a session with a
tenant follows from `Signup`, a truthful tag from `ReleaseVersion`, one answer
`201` and answers that show kept rows from `TenantStore` (all but the first are
proved as theorems of their own). Each module states its type invariant for the
reader; those of `SessionRefresh`, `ScopedTransaction`, `SignIn`, `EmailSignIn`,
`MemoryThrottle`, `ServiceLifecycle`, `Release`, `PostgresContainer`,
`KeyRotation` and `BearerAuth` are proved instead of checked (section 7).

Every checked property has a mutant in
`PROJECT.json`: a definition written next to the one it replaces ("Wrong on
purpose"), which is the code with a plausible mistake, and with which the run
finds the property violated.

## 5. Bounds

Every bound is a constant named as one in its module. What makes them enough:

- **Session.** Three requests are the least with which one joins another's call
  while a third runs on the other instance; two suffice for what one request
  does to another. In `session_races` one unit is five seconds: the margin is 2,
  the tolerance 1, the reuse window 4 (shorter than the provider's 30 seconds, so
  that it can run out), and the request's longest time is the largest the margin
  allows; a key set outlasts the clock there, since no key is withdrawn.
  `MaxTime` lets a token that was refreshed once come due again. `session_mishaps`
  shrinks every length to one and the cool-down of a key set to none (`BearerAuth`
  has one); a token lives three, so that the one key withdrawn (`MaxRetired`)
  is still in use on one instance, fetched again on the other and aged out on
  both before the token itself expires, and `MaxTime` is long enough for a
  request sent after a revoked session's last token has.
- **Transactions.** Two clients make one request wait for another's row and a
  third for a client. Four callers put two tenants and none on one client.
- **Sign-in.** Two handlers are the least that race to provision; a third
  attempt belongs to another browser so that callbacks can be opened in the
  wrong one. There are as many workspaces as handlers, so founding one
  too many is possible.
- **Throttle.** One key more than the ceiling, so that it evicts; a clock long
  enough to close a window, reopen it and close it again; budgets of one and two
  so that being used up and being open differ. `MostAsks` lets a key ask once
  more than it may.
- **Email codes.** Budgets of one or two are spent in a few steps; two codes let
  a try meet the next code, and two requests leave one on its way as that is
  sent: without `early`, `GuessesBounded` is violated there. The people's instance holds the clock still, because
  no property it is for depends on time; the codes' instance moves it.
- **Service.** One connection more than clients, so that one queues.
- **Release.** Three commits give a run under way, one that waits and one that
  replaces it; three failures stop each of them once. Three packages give a
  middle one.
- **Scratch Postgres.** A task of the same label may be given the process id of
  the one killed before it, or one of its own: with the first its database stays
  (`postgres.ts:307` accepts that), with the second it must go. A container to
  replace, its replacement and an old script's; one mishap at a time, since each of them already leads to a
  different recovery.
- **Rotation.** Three passwords overlap two rotations; the clock outlasts the
  wait of the first inside the second.
- **Service authentication.** A cache age of three, with a cooldown and a timeout
  of one, keeps the three apart: a key set can be too young to be fetched again,
  old enough, and too old to be used. Two requests join one fetch or start the
  next. Ages stop at the first that no guard tells from a greater one, so the run
  covers behaviours of any length.
- **Schema and RLS checks.** One table of every kind, and pairs of those whose
  answers interfere; two files, so that one is applied before the other fails. Two
  tasks are the least that interfere; the migrations change once under them.
- **Skills.** The commits have one thing right or wrong each. Eleven lines are
  the fewest that hold two bundles, one with two members over several lines.
- **Project generator.** Two edits let one drift hide another. Two commands share
  a directory with a person who adds one file; of the requests, most have
  one thing wrong.

Deadlock is not checked where the system really stops: all requests answered,
all tasks ended, a clock at its bound. The session and throttle runs keep the
check. Where a run disables it, the configuration says why.

## 6. Liveness and fairness

| Property | Fairness | Why the code justifies it |
|---|---|---|
| `SignalEndsProcess` | weak on the deadline, the end of the pool, the exit, and on each handler's own steps; `Answer` only once the socket is cut | the deadline is a timer; statements and provider calls settle; a client need not read, so an answer on an open socket is not assumed |
| `EventuallyReleased` | weak on jobs and on starting the queued run, strong on re-running what failed | Actions runs a job to its end and starts what is queued; somebody re-runs a failed job, again if it fails again, as `docs/releasing.md` asks; failures are finitely many |
| `LeftoversReaped` | weak on each task's next step and on Docker's creation and boot | a task awaits each command and every command has a deadline |

Nothing here is assumed fair about a browser, a person or a mishap. Requests of
`ScopedTransaction` are covered by the safety property `SomeRequestGoesOn`
instead: whatever they hold, one of those under way has a step to take.

## 7. What is proved, what is only checked, what disagrees

Proved with TLAPS for every value of the constants, from the assumptions the
modules name: `InstantsAssumption`, `FaultsAssumption`, `NowhereAssumption` of
`SessionRefresh`; `ClientsAssumption`, `ClaimsAssumption` and those of
`IdentityRows`; `BrowsersAssumption` and `ProvisioningAssumption` of `SignIn`;
`EmailAssumption`; `ThrottleAssumption`; `ServiceAssumption`; `ReleaseAssumption`;
`ContainerAssumption`; `RotationAssumption`; `BearerAssumption`;
`VersionAssumption` of `DbCommands`; `RequestsAssumption` and
`TemplateAssumption` of `CreateApp`; `SkillsAssumption`. They say that
names differ, that sets that are counted are finite, that a pool has a client to
lend (`pg` takes a max of 0 for none given, which is ten), that the template's
files are given once and the first is in every project, and what the code's own
numbers are to each other. Two theorems assume more and say so in their
statement: the two about a live session.

- **`SessionRefreshProofs`**: `TypeCorrect`, `RefreshesAreSharedAlways` (the map of
  refreshes under way holds exactly the calls under way, one for a token),
  `ServedWasValidWhenSentAlways`, `RevocationBitesAlways`,
  `LiveSessionNeverEndsAlways`, `BrowserNeverStrandedAlways`. Five invariants, each
  built on those before. `TypeInv` is `TypeOK` with `Placed` (a request under
  way is on an instance), without which the map cannot be indexed. `CallsInv` is
  `EntriesAreLive` with its converse `CallsAreEntries` and `KeysAreUnique`: an
  entry is live only because calls and entries come and go together. `ServedInv`
  relates what was proven, what is served and when it was sent, with a bound on
  every expiry; its part `KeysInv` says that a set in use is within its age and
  that each of its keys was published as it was asked for. `KeyIsKnown` is about a
  key nobody withdrew: every set holds it, so no token of it is refused for its
  signature. `LiveInv` is about a session the provider keeps: every request
  carries the newest pair or, if it was sent soon enough, the one before
  (`Current`); the cookie is one of these two, and if it is the older, the
  response that brings the newer is still on its way (`CookieInv`, `Brings`).
  It needs what `NothingLost` and `PromptRequests` say: no answer, response or
  process is lost, verification fails only by being unavailable, and two requests
  in a row fit into the provider's reuse window and into the time before a
  refreshed token is due again. The second is sharp: with a reuse window, or a
  margin, one unit off, TLC violates `LiveSessionNeverEnds` and
  `BrowserNeverStranded` on the instance of `session_races`.
- **`ScopedTransactionProofs`**: `TypeCorrect`, `IdleClientIsCleanAlways`,
  `OwnRowsOnlyAlways`, `ConflictIsVisibleAlways`, `StoreImplementedAlways`,
  `CreatedOnceAlways`, `ShownIsOwnAndKeptAlways`, `SomeRequestGoesOnAlways`. The inductive invariant
  `IInv` adds to the type `Lending` (a request holds a client exactly at the
  steps that use one), `Apart` (no two hold the same, no two uncommitted rows
  clash) and `Progress` (at each step, what the client's role, claims and rows
  are). With it every step maps to a step of `TenantStore` or a stutter. That the
  abstract store answers one creation per account and shows only rows that are
  there is proved of it alone (`StoreInv`) and carries over. That there is no
  deadlock needs no induction over who waits for whom, because the chains are
  short: who waits for a client waits for somebody who holds one; who holds one
  and waits at the profile's insert waits for a transaction that has its profile
  in place, which waits for nobody (`ProfileHolderGoesOn`); and who waits at the
  account's insert waits for one that is past it (`BorrowerGoesOn`).
- **`SignInProofs`**: `TypeCorrect`, `OwnSignIn`, `OneWorkspace`,
  `ImplementsSignup`, `SomeTab`. `IInv` joins `ProviderInv` (a workspace's external
  id names whom it was founded for, nobody has two, and `CallInv`: what each
  handler knows at its step is true at the provider, whatever answers were lost)
  and `BrowserInv` (a state is remembered only by the browser it was minted in;
  a handler that provisions does so for whoever completed its attempt). Every
  call and every lost answer then maps to a step of `Signup` or a stutter.
  `TabsInv` is for `SomeTab` alone: as long as nobody disturbs the browser, an
  attempt whose state was cleared has a handler that answers for it.
- **`EmailSignInProofs`**: `TypeCorrect`, `CookieNamesAddresseeAlways`,
  `SessionBegunHereAlways`, `AddressKeptAlways`, `GuessesBoundedAlways`. The first
  four are one invariant, with `CookieBegun` (a browser's address is one whose
  entry page it was sent to) and what each request carries. The bound on guesses
  counts what is tried and what is allowed and still on its way (`Counted`), from
  what was on its way as the code was sent, and follows the two windows a code's
  lifetime can meet (`Within`): of the first, opened before the code was sent, at
  least one ask is not among what it allowed since. It uses
  `Lifetime <= Window`, which `throttle.ts` gives as the reason for its length.
- **`ServerProofs`**, the service: `TypeCorrect` (in particular, the pool never lends
  more clients than its max), `OpenRequestKeepsPoolAlways`,
  `StopsCleanlyAlways`. `IInv` adds `PoolAfterServer` (a pool ends only when no
  connection is open and none will open), `StoppedOnce` (one call of `stop` waits,
  or it has ended the pool) and `FailedToStart` (what exits with 1 never started).
- **`ServerProofs`**, the throttle: `ThrottleTypeCorrect`,
  `RetryAfterSufficesAlways`, `ThrottleImplementsLimiter`,
  `TwiceTheBudgetAtMostAlways`. What makes the ceiling drop the budget closest
  to reopening is that the order of the map is the order windows close in
  (`ClosesInOrder`), which holds because a reopened window is put last.
  `WellOrdered` says of the order that it is total and that every nonempty set of
  keys has a first; the latter would follow by induction over a finite set, which
  the prover does not have, so it is part of the invariant. Twice the budget:
  `Accounted` says when the key's last window was opened and how much of it is
  used (`Ledger`), and that what was granted before is not since that instant, and
  what was granted a whole budget before is a window older (`Dated`).
- **`RepositoryProofs`**, the release: `TypeCorrect`, `TagsTellTheTruth`, `ImplementsVersion`,
  `StandsOnOneCommitAlways`. `IInv` adds `WholeJobs` (a run that failed in the publish job
  starts that job over, preflight first), `Uploaded` (what the publish loop has
  gone through is in the registry as this commit packed it) and `Released` (when
  tagging starts all of it is). That the package uploaded next has its
  dependencies in the registry is then `ReleaseAssumption`'s, that an order is
  one `publishOrder` gives. `PublishedFromOneCommit` is false of commits that
  publish in different orders (below); what holds of all of them is
  `StandsOnOneCommit`: by `Uploaded`, what a commit adds stands on what it
  publishes earlier, in its own bytes, and a version once there never changes.
  The statement is the theorem's own; the run has commits of one order, for
  which `PublishedFromOneCommit` says more.
- **`RepositoryProofs`**, created projects: `CreatedIsWholeAlways`, for any template,
  requests and number of commands in one directory. `WholeInv` says that a
  command has written to its end each of its files before the one it is at
  (`Written`), and that whoever wrote any file wrote the first
  (`FirstIsWriters`): a write is exclusive, so no two commands write in one
  directory, and what a command finds there later is nobody's or the person's.
- **`RepositoryProofs`**, the template build: `ProjectsStandAloneAlways`, for any
  number of edits (`MostEdits`) to the reference as it is today. Most of the proof
  is about one accepted reference: each file of a template is of one of a few
  kinds (`Kinds`), every choice of parts gets exactly one file of root tasks, one
  `tsconfig.json`, one environment and one manifest of the root, and each of these
  names only what the same choice receives. `Sound` is what the edits must keep
  for that, and what the build cannot see for itself: beside a passage of which
  nobody wrote a second one, the passage is found at most as often as expected,
  and less often once it was reworded (`Counted`), so that the count the build
  asks for is what catches the rewording; no manifest or `tsconfig.json` appears
  where no project is (`KnownProjects`), scripts are not manifests
  (`PlainScripts`), and the paragraphs of the environment set variables it knows
  (`KnownVariables`). Where the build asks nothing, the theorem does not either:
  the environment has what the reference still sets, `db/drizzle` a
  `tsconfig.json` if the reference has one (section 7). Edits outside `Changes`
  are outside the theorem, a passage moved to another paragraph or file among
  them.
- **`RepositoryProofs`**, the catalog: `CatalogHoldsReviewedAlways`. `CopyInv` adds to
  what is known of the release (`HistoryInv`, `SyncInv`: the commit written is
  the one whose skills passed the checks, and tags stay) that while it writes,
  the catalog and what is left to write are together the commit's files.
- **`RepositoryProofs`**, the settings reader: `SettingsReadRightAlways`, for files of
  any length. The format (`WellFormed`) is about the whole file and the reader
  sees a line at a time. `ReaderInv` says what it may rely on: after a misplaced
  line the file is not well formed, and nothing that may follow would make it so,
  since reading stops; before one, `Shape`: the records are the
  bundles of the tables, one each, every one complete (`Segment`) up to the
  next table, and the last one as far as the file goes. One lemma for each kind of
  line says how the last bundle grows by it; `BadLine` that a line the reader
  does not take where it stands is one that no well-formed file ends with; and
  `ShapeAccepted` that what is then accepted is what the format says.
- **`DbToolsProofs`**, `rls-verify`: `OriginalNeverWrittenAlways`,
  `VerdictIsTrueAlways`, `NothingLeftBehindAlways`, for every content of a
  database. `WriteInv` adds where the connection leads at the steps that may
  write; `VerdictInv` adds `Made` (what each check made so far has shown while
  none has failed), `Justified` (a check that failed had something to show) and
  `Left` (the claims on the connection, without which the third and the fourth
  check would ask the same); `DroppedInv` adds where a scratch database can still
  be there. A verdict without a leftover is a theorem only; no run repeats it.
- **`DbToolsProofs`**, the scratch container: `ContainerTypeCorrect`,
  `PersonalDataStaysAlways`, `UsedDatabaseStaysAlways`,
  `FailsOnlyIfDisturbedAlways`. `Labelled` says that a task about to remove a
  container read its label there, that a person's database is in a container
  without the label and carries no mark, and that what a task lists as stale is
  marked. `UsedInv` says a task at work has its database, or its container was
  removed. `CalmInv` is about tasks left alone: there is one container, it has the
  name and is what everybody asks for, and it is up when somebody works in it.
- **`DbToolsProofs`**, the tasks: `CheckPassesOnlyIfCurrentAlways`. `CheckInv` says what a
  task under way knows: it began at a version that was the checkout's then, and
  what a check is about to compare was generated from one that was since.
- **`KeyProofs`**, the cookie password: `TypeCorrect` and `RotationSignsNobodyOut`.
  `IInv` adds `NeededOpen` (whatever cookie is or may still be in use opens at
  every instance), `Bounded` (how long a cookie can be), `RetiredUnused` (a
  password whose wait has ended seals nothing live) and `Staged` (what instances
  run at each stage). The lemma `WaitIsEnough` is the arithmetic of step 4 of the
  procedure.
- **`KeyProofs`**, bearer tokens: `BearerTypeCorrect`,
  `GoodTokensAreNotRefusedAlways`, `TakenDownKeysExpireAlways`. The invariant adds
  to the type that a key set agrees with what the provider published since it was
  asked (`Since`, of the cache and of an answer on its way), and that a token
  waiting for a fetch is one the provider can have signed, or a forgery. The rest
  is arithmetic on three ages.

Only model-checked:

- `SignalEndsProcess`, `EventuallyReleased` and `LeftoversReaped`: liveness is
  beyond the prover.
- The search of `PublishOrder`, which is recursive. `ReleaseAssumption` is what
  `Release` needs of its results; the release run checks them on every relation of
  its bounds.

The code and its documents disagree in these places. The first is a run:

- **`tx_outage`.** `services/api/src/routes/health.ts:5` says a database outage
  does not get the process restarted; `createDatabase` adds no listener for the
  pool's `error` event, which `pg` emits when an idle client's connection breaks,
  and an unheard `error` event ends the process.

The others are consequences of the models that no run keeps:

- `access.ts:170` serves the token it verified before the wait on the provider, so
  a slow failing refresh can answer with a token that has since expired;
  `ServedWasValidWhenSent` is the strongest bound that holds. By the same
  property a withdrawn key goes on opening sessions until each instance's set is
  past its age.
- `callback.ts:121` says a state is spent the moment it is checked; it is spent
  when the response that clears the cookie arrives. Two requests of one callback
  both pass, and the provider, which takes a code once, is what stops the second.
- `apps/web/src/server/throttle.ts:15` says a window never outlasts the code it
  guards; a window opens at the first guess, after the code was sent, and has
  the same length. And a try allowed before a code was sent is a try of it if it
  reaches the provider afterwards. `GuessesBounded` states what follows: less than
  two budgets, besides the tries on their way when the code was sent.
- The repository's script makes its claim checks first, on the connection that
  the checks of the package then use (`rls-verify.mjs:85`), so it never looks at
  a connection whose claims are unset. Its 0 says nothing of a policy that lets
  everybody in while the setting is null; `VerdictIsTrue` asks of the script
  what holds on a used connection, and both of `rls-verify`.
- `services/api/src/main.ts:23` says a second signal ends the process at once;
  that is so only of a second signal of the same kind.
- `docs/releasing.md:11` says a release comes from one commit. `publish` compares
  bytes one package at a time, so two commits of one version with different
  publish orders can each upload something; `PublishedFromOneCommit` is checked,
  and holds, for commits with one order; whatever the orders, a package stands on
  one commit's bytes of all it needs (`StandsOnOneCommitAlways`).
- `reference.ts:120` says a reference that moved or reworded an anchor fails the
  build. `replace` counts a passage, so one that was copied and then reworded in
  one of the two places passes, and the reworded text ships;
  `editSequence` (`yaml.ts:71`) takes the first entry of a kind and leaves a
  second. `ProjectsStandAlone` allows both, and only beside a passage that people
  wrote again.
- The build accepts references whose projects lack something: a paragraph of
  `.env.example` that was dropped or commented out (`root.ts:408` classifies the
  paragraphs there are and requires none), a deleted `db/drizzle/tsconfig.json`
  that the project's root still references (`projects.ts:295` requires no file),
  and a root task that runs a script in a directory below `scripts/`, which the
  pattern of `root.ts:498` does not see. `ProjectsStandAlone` asks for these only
  as far as the reference has them.
- `docs/releasing.md:187` says every step can be rerun. After the last tag and
  before the GitHub release, Re-run all jobs ends as already released; re-running
  the failed job, which the page prefers, completes it (`EventuallyReleased`).

## 8. What is not modelled

- **Published package shape**: structural checks of tarballs, of files and type
  resolution, with nothing that changes over time; the one order behind them,
  `publishOrder`, is in `PublishOrder`.
- **Web runtime wiring, look and views, configuration**: hand values to the code
  modelled here, or render; no state of their own.
- **Provider contract tests**: run against the live provider; they are where the
  modules' assumptions about rotation, replay, external ids and conflicts come
  from.
- **API routes**: the request log, `/health` and unknown paths, which touch no
  state.
- **Project generator**: the report's wording; the references that a member's
  `tsconfig.json` keeps into `packages/`; the description in a service's
  manifest; a passage of the reference moved to another paragraph or file; a
  dependency listed in two sections of a manifest; directories of `apps/` and
  `services/` that no list names.
- Inside the modelled parts: wording and layout of failure pages, logging, the
  shapes of tokens and cookies, the cipher, HTTP methods and origin checks that
  answer before any state changes, `delegate.ts` (which hands `readAccess`'s
  answer on) and `auth-http/src/config.ts` (which reads the environment once).
  One clock is shared by the instances and the provider; the remedy for a skewed
  clock is outside the code.

Hazards the models reach and no property rules out, because the code accepts
them: the response that carries a rotated pair is lost (`access.ts:177`) and,
after the reuse window, the browser has to sign in again; Re-run all jobs after
the repository's tag and before the GitHub release (`release.yml:73`, section
7); `db-tools clean`, or a task that asks for another image, removes a container
other tasks use (`postgres.ts:225`), which `UsedDatabaseStays` leaves out as a
thing the person asked for.
