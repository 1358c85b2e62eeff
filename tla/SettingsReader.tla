----------------------------- MODULE SettingsReader -----------------------------
(***************************************************************************)
(* parseBundles of scripts/lib/skills.mjs over every settings file, one    *)
(* line after another, up to its first misplaced line: what the reader of  *)
(* module SkillFiles accepts is what the catalog's format says.            *)
(***************************************************************************)
EXTENDS SkillFiles

CONSTANTS BundleNames, MemberNames,
          MostLines   \* bound

VARIABLES text, reader
readerVars == <<text, reader>>

Line(is, value, comma) == [is |-> is, value |-> value, comma |-> comma]
Lines ==
  {Line("schema", v, FALSE) : v \in {"1", "2"}}
  \union {Line("table", n, FALSE) : n \in BundleNames}
  \union {Line("description", v, FALSE) : v \in {"none", "some"}}
  \union {Line("members", "none", FALSE), Line("close", "none", FALSE), Line("other", "none", FALSE)}
  \union UNION {{Line("member", m, c) : c \in BOOLEAN} : m \in MemberNames}

ReaderTypeOK == text \in Seq(Lines) /\ Len(text) <= MostLines /\ reader.problems \in 0..1

ReaderInit == text = <<>> /\ reader = Unread

\* A misplaced line is a problem whatever follows it: reading can stop there.
Read(line) ==
  /\ Len(text) < MostLines /\ reader.problems = 0
  /\ text' = Append(text, line)
  /\ reader' = ReadLine(reader, line)

ReaderNext == \E line \in Lines : Read(line)
ReaderSpec == ReaderInit /\ [][ReaderNext]_readerVars

-----------------------------------------------------------------------------
(* The format.                                                             *)

\* A member list: distinct members, a comma after each, the last one's optional.
MemberList(lines) ==
  LET members == SubSeq(lines, 2, Len(lines) - 1)
  IN  /\ Len(lines) > 2 /\ lines[1].is = "members" /\ Last(lines).is = "close"
      /\ \A i \in DOMAIN members :
           /\ members[i].is = "member"
           /\ i < Len(members) => members[i].comma
           /\ \A j \in 1..(i - 1) : members[j].value # members[i].value
Description(line) == line.is = "description" /\ line.value # "none"

\* A bundle: its table, then its description and its members, in either order.
Bundle(lines) ==
  /\ Len(lines) > 4 /\ lines[1].is = "table"
  /\ \/ Description(lines[2]) /\ MemberList(SubSeq(lines, 3, Len(lines)))
     \/ Description(Last(lines)) /\ MemberList(SubSeq(lines, 2, Len(lines) - 1))

\* The lines that begin a table, and where a table ends: at the next, or with the file.
TableLines(lines) == {i \in DOMAIN lines : lines[i].is = "table"}
TableEnds(lines, i) == {j \in TableLines(lines) : j > i} \union {Len(lines) + 1}
End(lines, i) == CHOOSE j \in TableEnds(lines, i) : \A k \in TableEnds(lines, i) : j <= k

WellFormed(lines) ==
  /\ lines # <<>> /\ lines[1] = Line("schema", "1", FALSE) /\ End(lines, 1) = 2
  /\ \A i \in TableLines(lines) : Bundle(SubSeq(lines, i, End(lines, i) - 1))
  /\ \A i, j \in TableLines(lines) : i # j => lines[i].value # lines[j].value

\* The reader takes a file exactly when it is well formed: no file the catalog
\* could not read passes, and none it could is refused.
SettingsReadRight == Accepted(reader) <=> WellFormed(text)
=============================================================================
