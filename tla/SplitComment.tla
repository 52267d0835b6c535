---------------------------- MODULE SplitComment ----------------------------
(* pkg/github/client.go splitComment and truncateSection: a report too long   *)
(* for one comment is cut at its </details> tags, and a section too long by   *)
(* itself is truncated.  A body is a sequence of lines; a line has size 1 and *)
(* a kind, and a limit counts lines where the code counts bytes.  One action  *)
(* is one turn of the loop over the sections.                                 *)
EXTENDS Naturals, Sequences, FiniteSets

CONSTANTS
  Bodies,   \* the bodies to split: sequences of kinds of lines
  Limit,    \* effectiveMax
  Reserve   \* what truncateSection keeps free for the lines it adds

(* Kinds of lines.  "tick" and "shut" are lines of a manifest, inside a code  *)
(* block, that contain ``` and </details>.                                    *)
Kinds == {"text", "open", "fence", "close", "tick", "shut"}

\* No report is empty: it has a title.  truncateSection adds at most a note, a
\* fence and a closing tag.
ASSUME SplitAssumption ==
  /\ Bodies \subseteq Seq(Kinds) \ {<<>>}
  /\ Limit \in Nat /\ Reserve \in 3..Limit

VARIABLES
  body,     \* the body: its lines, numbered [pos, kind]
  at,       \* the position of the next section's first line
  current,  \* currentPart
  parts,    \* parts
  done      \* splitComment has returned

vars == <<body, at, current, parts, done>>

Lines(kinds) == [i \in 1..Len(kinds) |-> [pos |-> i, kind |-> kinds[i]]]
Added(kind)  == <<[pos |-> 0, kind |-> kind]>>

Init ==
  /\ \E kinds \in Bodies : body = Lines(kinds)
  /\ at = 1 /\ current = <<>> /\ parts = <<>> /\ done = FALSE
-----------------------------------------------------------------------------
\* A section ends with the next </details>, wherever it stands, or the body does.
EndsSection(b, p) == b[p].kind \in {"close", "shut"} \/ p = Len(b)
SectionEnd == CHOOSE e \in at..Len(body) :
                EndsSection(body, e) /\ \A q \in at..e - 1 : ~EndsSection(body, q)
Section == SubSeq(body, at, SectionEnd)

Occurrences(s, kinds) == Cardinality({n \in DOMAIN s : s[n].kind \in kinds})

InCodeBlock(s) == Occurrences(s, {"fence", "tick"}) % 2 = 1
InDetails(s)   == Occurrences(s, {"open"}) > Occurrences(s, {"close", "shut"})

MutantSuffix(s) == Added("text") \o (IF InDetails(s) THEN Added("close") ELSE <<>>)
Suffix(s) ==
  Added("text") \o (IF InCodeBlock(s) THEN Added("fence") ELSE <<>>)
                \o (IF InDetails(s) THEN Added("close") ELSE <<>>)

\* Lines are short against the 500 bytes the code looks back for a line break.
TruncateSection(s) ==
  IF Len(s) <= Limit THEN s
  ELSE LET kept == SubSeq(s, 1, Limit - Reserve)
       IN  kept \o Suffix(kept)
-----------------------------------------------------------------------------
Saved == IF current # <<>> THEN Append(parts, current) ELSE parts

ReturnWhole ==
  /\ ~done /\ at = 1 /\ Len(body) <= Limit
  /\ parts' = <<body>> /\ done' = TRUE
  /\ UNCHANGED <<body, at, current>>

InLoop == ~done /\ Len(body) > Limit /\ at <= Len(body)

MutantTruncate ==
  /\ InLoop /\ Len(Section) > Limit
  /\ parts' = Append(parts, TruncateSection(Section))
  /\ current' = <<>>
  /\ at' = SectionEnd + 1
  /\ UNCHANGED <<body, done>>
Truncate ==
  /\ InLoop /\ Len(Section) > Limit
  /\ parts' = Append(Saved, TruncateSection(Section))
  /\ current' = <<>>
  /\ at' = SectionEnd + 1
  /\ UNCHANGED <<body, done>>

MutantOverflows(s) == Len(current) + Len(s) > Limit + 1 /\ current # <<>>
Overflows(s) == Len(current) + Len(s) > Limit /\ current # <<>>

Pack ==
  /\ InLoop /\ Len(Section) <= Limit
  /\ IF Overflows(Section)
       THEN parts' = Append(parts, current) /\ current' = Section
       ELSE current' = current \o Section /\ UNCHANGED parts
  /\ at' = SectionEnd + 1
  /\ UNCHANGED <<body, done>>

\* After the loop; a blank section after the last </details> was skipped.
ReturnParts ==
  /\ ~done /\ Len(body) > Limit /\ at > Len(body)
  /\ parts' = IF Saved # <<>> THEN Saved ELSE <<TruncateSection(body)>>
  /\ done' = TRUE
  /\ UNCHANGED <<body, at, current>>

Next == ReturnWhole \/ Truncate \/ Pack \/ ReturnParts

Spec == Init /\ [][Next]_vars /\ WF_vars(Next)
-----------------------------------------------------------------------------
Line == [pos : Nat, kind : Kinds]

TypeOK ==
  /\ body \in Seq(Line)
  /\ at \in Nat \ {0}
  /\ current \in Seq(Line)
  /\ parts \in Seq(Seq(Line) \ {<<>>})
  /\ done \in BOOLEAN

\* No part is longer than a comment may be, and there is always one to post.
PartsFit ==
  /\ \A i \in DOMAIN parts : Len(parts[i]) <= Limit
  /\ done => parts # <<>>

StartOf(p) ==   \* the first line of the section of line p
  CHOOSE q \in 1..p : /\ q = 1 \/ EndsSection(body, q - 1)
                      /\ \A m \in q..p - 1 : ~EndsSection(body, m)
Oversized(p) ==
  \A e \in StartOf(p)..StartOf(p) + Limit - 1 : e < Len(body) /\ ~EndsSection(body, e)
Kept(p) ==
  Len(body) <= Limit \/ ~Oversized(p) \/ p < StartOf(p) + Limit - Reserve

\* The parts ps, read one after the other, are the report up to line q: every line
\* of it once and in order, but for those behind the cut of an oversized section.
IsReport(ps, q) ==
  LET Pos(i, n) == ps[i][n].pos
      InOrder(i, n, j, m) == i < j \/ (i = j /\ n < m)
  IN  /\ \A i \in DOMAIN ps : \A n \in DOMAIN ps[i] : Pos(i, n) # 0 =>
           Pos(i, n) \in 1..q - 1 /\ Kept(Pos(i, n)) /\ ps[i][n] = body[Pos(i, n)]
      /\ \A p \in 1..q - 1 : Kept(p) =>
           \E i \in DOMAIN ps : \E n \in DOMAIN ps[i] : Pos(i, n) = p
      /\ \A i, j \in DOMAIN ps : \A n \in DOMAIN ps[i], m \in DOMAIN ps[j] :
           InOrder(i, n, j, m) /\ Pos(i, n) # 0 /\ Pos(j, m) # 0 => Pos(i, n) < Pos(j, m)

\* Nothing of a report is lost on the way to the comments, and nothing is posted
\* twice, but for the tails of sections no comment can hold.
NothingLost == done => IsReport(parts, Len(body) + 1)

(* What a Markdown renderer makes of a line depends on whether it stands in a  *)
(* details block, and in a code block there.                                  *)
InBlock(s, n) ==
  \E m \in 1..n - 1 : s[m].kind = "open" /\ \A k \in m + 1..n - 1 : s[k].kind # "close"
InCode(s, n) == Cardinality({m \in 1..n - 1 : s[m].kind = "fence"}) % 2 = 1

Renders(s, n) ==
  /\ s[n].kind = "open" => ~InBlock(s, n)
  /\ s[n].kind \in {"fence", "close"} => InBlock(s, n)
  /\ s[n].kind = "close" => ~InCode(s, n)
  /\ s[n].kind \in {"tick", "shut"} => InCode(s, n)
WellFormed(s) == (\A n \in DOMAIN s : Renders(s, n)) /\ ~InBlock(s, Len(s) + 1)

\* Every part is a comment of its own and renders as one: whatever is cut off,
\* code blocks and details blocks are closed where the part ends ("while
\* preserving markdown structure", client.go:195).
PartsWellFormed ==
  \A i \in DOMAIN parts : WellFormed(parts[i])

\* Reports as formatReport writes them, unless a manifest quotes a code fence or a
\* closing tag.
PlainReports(bodies) ==
  \A kinds \in bodies : /\ WellFormed(Lines(kinds))
                        /\ \A n \in DOMAIN kinds : kinds[n] \notin {"tick", "shut"}
=============================================================================
