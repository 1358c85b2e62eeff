--------------------------- MODULE MCRepositoryTools ---------------------------
\* Small instances of the commands this repository is built and released with.
\* They share nothing but the machine, so one run checks them side by side: a
\* behaviour is that of one tool, chosen at the start.
EXTENDS RlsVerify, DbCommands, SkillsSync, SettingsReader, TemplateBuild, CreateApp, TLC

CONSTANTS one, other, m1, m2

VARIABLE tool

-----------------------------------------------------------------------------
\* Databases without a table, with one of every kind whose writes are checked,
\* and with two.
MCTables == [enabled : BOOLEAN, forced : BOOLEAN, owned : BOOLEAN, readable : BOOLEAN,
             filled : BOOLEAN, policy : {"scoped", "open", "casts", "lenient", "strict",
                                         "writes", "hangs"},
             guarded : BOOLEAN]
MCPaired == {t \in MCTables : /\ t.readable /\ ~t.owned /\ t.enabled = t.forced /\ t.filled
                              /\ t.policy \in {"scoped", "casts", "open", "lenient", "strict"}}
MCContents == {[n \in {} |-> 0]} \union [{"accounts"} -> {t \in MCTables : t.guarded}]
              \union [{"accounts", "profiles"} -> MCPaired]
MCRoles == {"plain", "super", "bypass", "absent", "unsettable"}

\* Commits of the skills, each with one thing right or wrong about it.
MCField(key, value) == [key |-> key, value |-> value, indented |-> FALSE]
MCDoc(name, lines) == [symlink |-> FALSE, closed |-> TRUE, lines |-> lines,
                       header |-> <<MCField("name", name), MCField("description", <<"d">>)>>]
MCSkill(domain, name) == [dirs |-> <<domain, name>>, base |-> "SKILL.md"]
MCCites(path, slash) == [is |-> "cites", path |-> path, directoryOnly |-> slash, placeholder |-> FALSE]
MCLinks(file) == [is |-> "links", target |-> file]
MCFence == [is |-> "fence", char |-> "tick", length |-> 3, bare |-> TRUE]
MCLine(is, value, comma) == [is |-> is, value |-> value, comma |-> comma]
MCSettings(members) ==
  [symlink |-> FALSE,
   lines |-> <<MCLine("schema", "1", FALSE), MCLine("table", "core", FALSE),
               MCLine("description", "d", FALSE), MCLine("members", "none", FALSE)>>
             \o [i \in DOMAIN members |-> MCLine("member", members[i], TRUE)]
             \o <<MCLine("close", "none", FALSE)>>]
a == <<"a">>
b == <<"b">>
ab == <<"a", "b">>
MCOne(lines) == MCSkill(a, b) :> MCDoc(b, lines)
MCGuide == <<{"docs"}, {"guide"}>>
MCBoth == <<{"docs"}, {"guide", "new"}>>
MCSkillSets ==
  { MCOne(<<MCCites(MCGuide, FALSE), MCCites(<<{"docs"}>>, TRUE)>>),
    MCOne(<<MCCites(MCBoth, FALSE), MCLinks(MCSkill(a, b))>>) @@ (Settings :> MCSettings(<<<<a, b>>>>)),
    MCOne(<<MCFence, MCCites(MCBoth, FALSE), MCFence, MCCites(<<{"docs"}, {"**"}>>, FALSE)>>)
      @@ (MCSkill(a, ab) :> MCDoc(ab, <<>>)),
    MCOne(<<MCCites(MCGuide, TRUE)>>),
    MCOne(<<MCLinks(MCSkill(b, b))>>) @@ (Settings :> MCSettings(<<<<b, b>>>>)),
    MCOne(<<>>) @@ (Settings :> Link) @@ ([dirs |-> <<a, a>>, base |-> "notes.md"] :> MCDoc(a, <<>>)),
    (MCSkill(a, ab) :> MCDoc(ab, <<>>)) @@ (MCSkill(<<"a", "a">>, b) :> MCDoc(b, <<>>)) }
MCTrees == {{<<"docs", "guide">>}, {<<"docs", "guide">>, <<"docs", "new">>}}
MCOlder == MCSkill(b, a) :> MCDoc(a, <<>>)

\* A template with a file of each condition, and requests of which most have one
\* thing wrong.
MCFile(path, when, tokens) == [path |-> path, when |-> when, tokens |-> tokens]
MCFILES ==
  <<MCFile("editorconfig", [p \in {} |-> TRUE], {}),
    MCFile("moon.yml", [database |-> TRUE], {"project"}),
    MCFile("moon.yml", [database |-> FALSE], {"project"}),
    MCFile("apps/moon.yml", [web |-> TRUE], {"webPort"}),
    MCFile("services/moon.yml", [service |-> TRUE], {"service"})>>
MCNamed(is, pg, length) == [is |-> is, good |-> is # "", pg |-> pg, length |-> length]
MCNone == MCNamed("", FALSE, 0)
acme == MCNamed("acme", FALSE, 4)
MCNothingAsked == [directory |-> MCNone, name |-> MCNone, web |-> FALSE, webName |-> MCNone,
                   webPort |-> 100000, policy |-> "none given", service |-> FALSE,
                   serviceName |-> MCNone, servicePort |-> 100000, database |-> "undefined"]
MCRequest(flags) ==
  [f \in DOMAIN MCNothingAsked |->
     IF f \in DOMAIN flags THEN flags[f] ELSE IF f = "directory" THEN acme ELSE MCNothingAsked[f]]
MCWebAndService == [web |-> TRUE, service |-> TRUE, policy |-> "personal"]
MCRequests ==
  {MCNothingAsked, MCRequest([service |-> FALSE]),
   MCRequest([web |-> TRUE, policy |-> "personal"]),
   MCRequest([web |-> TRUE, policy |-> "existing", database |-> "yes"]),
   MCRequest([service |-> TRUE]),
   MCRequest([service |-> TRUE, database |-> "no"]),
   MCRequest([service |-> TRUE, webPort |-> 80]),
   MCRequest(MCWebAndService @@ [servicePort |-> 5199]),
   MCRequest(MCWebAndService @@ [webName |-> MCNamed("api", FALSE, 3)]),
   MCRequest(MCWebAndService @@ [webPort |-> 65536]),
   MCRequest(MCWebAndService @@ [servicePort |-> 65535]),
   MCRequest([directory |-> MCNamed("pg", TRUE, 2), web |-> TRUE, policy |-> "personal"]),
   MCRequest([name |-> MCNamed("n59", FALSE, 59), service |-> TRUE]),
   MCRequest([name |-> MCNamed("n60", FALSE, 60), service |-> TRUE]),
   MCRequest([name |-> MCNamed("littleorgans", FALSE, 12), service |-> TRUE]),
   MCRequest([serviceName |-> MCNamed("dist", FALSE, 4), service |-> TRUE])}

-----------------------------------------------------------------------------
\* A tool that was not chosen stays as it starts, or has no state to speak of.
NoRls ==
  /\ at = Nothing /\ exitCode = Nothing
  /\ mode = Nothing /\ role = Nothing /\ subject = Nothing /\ rerouted = Nothing
  /\ scratch = Nothing /\ applied = Nothing /\ session = Nothing /\ failures = Nothing
  /\ failure = Nothing /\ dirty = FALSE

NoGenerator ==
  reference = Nothing /\ edits = Nothing /\ template = NoTemplate /\ built = Nothing

MCInit ==
  /\ tool \in {"rls", "db", "sync", "reader", "generator", "create"}
  /\ IF tool = "rls" THEN Init ELSE NoRls
  /\ IF tool = "generator" THEN BuildInit ELSE NoGenerator
  /\ DbInit /\ SyncInit /\ ReaderInit /\ AppInit

MCNext ==
  /\ UNCHANGED tool
  /\ \/ tool = "rls" /\ Next /\ UNCHANGED <<dbVars, syncVars, readerVars, buildVars, appVars>>
     \/ tool = "db" /\ DbNext /\ UNCHANGED <<vars, syncVars, readerVars, buildVars, appVars>>
     \/ tool = "sync" /\ SyncNext /\ UNCHANGED <<vars, dbVars, readerVars, buildVars, appVars>>
     \/ tool = "reader" /\ ReaderNext /\ UNCHANGED <<vars, dbVars, syncVars, buildVars, appVars>>
     \/ /\ tool = "generator" /\ BuildNext
        /\ UNCHANGED <<vars, dbVars, syncVars, readerVars, appVars>>
     \/ tool = "create" /\ AppNext /\ UNCHANGED <<vars, dbVars, syncVars, readerVars, buildVars>>

toolVars == <<tool, vars, dbVars, syncVars, readerVars, buildVars, appVars>>
MCSpec == MCInit /\ [][MCNext]_toolVars

Symmetry == Permutations({one, other}) \union Permutations({m1, m2})
==============================================================================
