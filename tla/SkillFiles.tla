------------------------------- MODULE SkillFiles -------------------------------
(***************************************************************************)
(* What scripts/lib/skills.mjs asks of the skills under skills/lilo before *)
(* they reach the catalog.                                                 *)
(*                                                                         *)
(* A path is the sequence of its segments; a file of the skills is a       *)
(* sequence of directories, each a sequence of words ("web-app" is two),   *)
(* and a base name.  A file's content is its header, and what its lines    *)
(* are to these checks; a symbolic link has none.                          *)
(***************************************************************************)
EXTENDS Naturals, SequencesExt

OWNER == "lilo"
Link == [symlink |-> TRUE]
ROOT_FILES == {<<"justfile">>, <<"AGENTS.md">>}
ROOT_DIRECTORIES == {"docs", "packages"}
Settings == [dirs |-> <<>>, base |-> "settings.toml"]
IsMarkdown(file, content) == ~content.symlink /\ file.base \notin {"settings.toml", "data.json"}

-----------------------------------------------------------------------------
(* Cited paths.                                                            *)

\* A fence ends at a bare line of its own character, at least as long.
Fences(state, line) ==
  IF state.fence # <<>>
  THEN IF /\ line.is = "fence" /\ line.char = state.fence[1].char
          /\ line.length >= state.fence[1].length /\ line.bare
       THEN [state EXCEPT !.fence = <<>>] ELSE state
  ELSE IF line.is = "fence" THEN [state EXCEPT !.fence = <<line>>]
  ELSE [state EXCEPT !.kept = Append(@, line)]
withoutFences(lines) == FoldLeft(Fences, [fence |-> <<>>, kept |-> <<>>], lines).kept

\* A citation gives for each segment the choices between braces.
expandBraces(path) ==
  {p \in [1..Len(path) -> UNION ToSet(path)] : \A i \in DOMAIN path : p[i] \in path[i]}

citations(lines, directories) ==
  {line \in ToSet(withoutFences(lines)) :
     /\ line.is = "cites" /\ ~line.placeholder
     /\ \/ ~line.directoryOnly /\ \E f \in ROOT_FILES : expandBraces(line.path) = {f}
        \/ /\ Len(line.path) > 1 \/ line.directoryOnly
           /\ \E d \in ROOT_DIRECTORIES \union directories : line.path[1] = {d}}

\* A segment "*" stands for any one, "**" for any number of directories, and at
\* the end for anything below.
Fits(pattern, path) ==
  Len(pattern) = Len(path) /\ \A i \in DOMAIN path : pattern[i] \in {"*", path[i]}
globPattern(pattern, path) ==
  \/ Fits(pattern, path)
  \/ \E i \in DOMAIN pattern :
       LET after == SubSeq(pattern, i + 1, Len(pattern))
           end == Len(path) - Len(after)
       IN  /\ pattern[i] = "**" /\ end >= i - 1
           /\ after = <<>> => end >= i
           /\ Fits(SubSeq(pattern, 1, i - 1), SubSeq(path, 1, i - 1))
           /\ Fits(after, SubSeq(path, end + 1, Len(path)))

directoriesOf(files) == UNION {{SubSeq(f, 1, i) : i \in 1..(Len(f) - 1)} : f \in files}

\* Every choice must name a file or a directory; with a trailing slash, a directory.
exists(citation, files) ==
  \A path \in expandBraces(citation.path) :
    \E found \in directoriesOf(files) \union (IF citation.directoryOnly THEN {} ELSE files) :
      globPattern(path, found)

checkCitations(skills, tree) ==
  LET topLevel == {d[1] : d \in {x \in directoriesOf(tree) : Len(x) = 1}}
      Missing(file) == {c \in citations(skills[file].lines, topLevel) : ~exists(c, tree)}
  IN  UNION {Missing(file) : file \in {f \in DOMAIN skills : IsMarkdown(f, skills[f])}}

\* The newest tag, of <<major, minor, patch>>; 0 when there is none.
Newer(a, b) == \E i \in 1..3 : a[i] > b[i] /\ \A j \in 1..(i - 1) : a[j] = b[j]
latestReleaseTag(tags) ==
  IF tags = {} THEN 0 ELSE CHOOSE t \in tags : \A other \in tags \ {t} : Newer(t, other)

-----------------------------------------------------------------------------
(* settings.toml, one line at a time.                                      *)

NoBundle == [name |-> "none", description |-> FALSE, members |-> <<>>, keys |-> {}]
Unread == [schema |-> "none", bundles |-> <<>>, open |-> FALSE, needsComma |-> FALSE, problems |-> 0]
Bad(reader) == [reader EXCEPT !.problems = @ + 1]
Current(reader) == Len(reader.bundles)

\* Wrong on purpose: a member may follow one without a comma.
MemberAnyComma(reader, line) ==
  [reader EXCEPT !.bundles[Current(reader)].members = Append(@, line.value)]
Member(reader, line) ==
  LET read == [reader EXCEPT !.bundles[Current(reader)].members = Append(@, line.value),
                             !.needsComma = ~line.comma]
  IN  IF reader.needsComma THEN Bad(read) ELSE read

Once(reader, key, read) ==
  LET kept == [read EXCEPT !.bundles[Current(reader)].keys = @ \union {key}]
  IN  IF key \in reader.bundles[Current(reader)].keys THEN Bad(kept) ELSE kept

ReadLine(reader, line) ==
  CASE line.is = "blank" -> reader
    [] reader.open /\ line.is = "member" -> Member(reader, line)
    [] reader.open /\ line.is = "close" -> [reader EXCEPT !.open = FALSE]
    [] ~reader.open /\ line.is = "table" ->
         LET read == [reader EXCEPT !.bundles = Append(@, [NoBundle EXCEPT !.name = line.value])]
         IN  IF \E i \in DOMAIN reader.bundles : reader.bundles[i].name = line.value
             THEN Bad(read) ELSE read
    [] ~reader.open /\ line.is = "schema" /\ reader.bundles = <<>> ->
         LET read == [reader EXCEPT !.schema = line.value]
         IN  IF reader.schema # "none" THEN Bad(read) ELSE read
    [] ~reader.open /\ line.is = "description" /\ reader.bundles # <<>> ->
         Once(reader, "description",
              [reader EXCEPT !.bundles[Current(reader)].description = line.value # "none"])
    [] ~reader.open /\ line.is = "members" /\ reader.bundles # <<>> ->
         Once(reader, "members", [reader EXCEPT !.open = TRUE, !.needsComma = FALSE])
    [] OTHER -> Bad(reader)

\* What has been read, as a whole.
Lacking(bundle) ==
  ~bundle.description \/ bundle.members = <<>> \/ ~IsInjective(bundle.members)
Accepted(reader) ==
  /\ reader.problems = 0 /\ reader.schema = "1" /\ ~reader.open
  /\ \A i \in DOMAIN reader.bundles : ~Lacking(reader.bundles[i])

parseBundles(text) ==
  LET read == FoldLeft(ReadLine, Unread, text)
  IN  [bundles |-> read.bundles, ok |-> Accepted(read)]

-----------------------------------------------------------------------------
(* The shape of the whole.                                                 *)

\* The places of the top-level fields of a header that is closed.
frontmatter(content) ==
  {i \in DOMAIN content.header : content.closed /\ ~content.header[i].indented}

IsSkill(file) == file.base = "SKILL.md" /\ Len(file.dirs) = 2
\* Words joined with dashes, whatever directory they came from.
Generated(file) == <<OWNER>> \o file.dirs[1] \o file.dirs[2]

OneField(content, key, Good(_)) ==
  LET found == {i \in frontmatter(content) : content.header[i].key = key}
  IN  \E i \in found : found = {i} /\ Good(content.header[i].value)

SkillProblem(file, skills) ==
  \/ \E other \in DOMAIN skills \ {file} :
       IsSkill(other) /\ ~skills[other].symlink /\ Generated(other) = Generated(file)
  \/ ~OneField(skills[file], "name", LAMBDA value : value = file.dirs[2])
  \/ ~OneField(skills[file], "description", LAMBDA value : value # <<>>)

\* Some file of the skills is not as the catalog takes it.  The names of files
\* and bundles are valid here.
shapeProblems(skills) ==
  LET files == {f \in DOMAIN skills : ~skills[f].symlink}
      named == {f \in files : IsSkill(f)}
      skillDirectories == {f.dirs : f \in named}
      settings == parseBundles(skills[Settings].lines)
      Links(f) == {l \in ToSet(withoutFences(skills[f].lines)) : l.is = "links"}
  IN  \/ files # DOMAIN skills
      \/ \E f \in files : f.base = "SKILL.md" /\ ~IsSkill(f)
      \/ \E f \in named : SkillProblem(f, skills)
      \/ named = {}
      \/ \E f \in files \ {Settings} :
           Len(f.dirs) < 2 \/ SubSeq(f.dirs, 1, 2) \notin skillDirectories
      \/ Settings \in files /\ ~settings.ok
      \/ Settings \in files /\ \E i \in DOMAIN settings.bundles :
           ~(ToSet(settings.bundles[i].members) \subseteq skillDirectories)
      \/ \E f \in files : IsMarkdown(f, skills[f]) /\ \E l \in Links(f) : l.target \notin DOMAIN skills
=============================================================================
