------------------------- MODULE SplitCommentProofs -------------------------
(* Proofs about SplitComment, for every report, every limit and whatever      *)
(* truncation keeps free: every part fits into a comment, the parts are the   *)
(* report but for what no comment can hold, and every part renders by itself. *)
EXTENDS SplitComment, SequenceTheorems, FiniteSetTheorems, WellFoundedInduction, TLAPS

\* The loop never accumulates more than one part may hold.
CurrentFits == Len(current) <= Limit

\* What the loop knows of the lines it has still to read.
LEMMA BodyTyped ==
  ASSUME NEW kinds \in Bodies
  PROVE  Lines(kinds) \in Seq(Line)
<1>1. kinds \in Seq(Kinds)
  BY SplitAssumption
<1> QED BY <1>1 DEF Lines, Line

\* A section that begins inside the body ends inside it.
LEMMA SectionEndExists ==
  ASSUME body \in Seq(Line), at \in Nat \ {0}, at <= Len(body)
  PROVE  /\ SectionEnd \in at..Len(body) /\ EndsSection(body, SectionEnd)
         /\ \A q \in at..SectionEnd - 1 : ~EndsSection(body, q)
<1> DEFINE ends == {e \in at..Len(body) : EndsSection(body, e)}
<1>1. Len(body) \in ends
  BY DEF EndsSection
<1>2. ends \subseteq Nat /\ ends # {}
  BY <1>1
<1>3. PICK e \in ends : \A q \in ends : ~(<<q, e>> \in OpToRel(<, Nat))
  BY <1>2, NatLessThanWellFounded, WFMin
<1>4. \A q \in ends : ~(q < e)
  BY <1>2, <1>3 DEF OpToRel
<1>5. e \in at..Len(body) /\ EndsSection(body, e)
  OBVIOUS
<1>6. \A q \in at..e - 1 : ~EndsSection(body, q)
  <2> SUFFICES ASSUME NEW q \in at..e - 1, EndsSection(body, q) PROVE FALSE
    OBVIOUS
  <2>1. q \in at..Len(body) /\ q < e
    BY <1>5
  <2> QED BY <1>4, <2>1
<1> QED BY <1>5, <1>6 DEF SectionEnd

LEMMA SectionTyped ==
  ASSUME body \in Seq(Line), at \in Nat \ {0}, at <= Len(body)
  PROVE  /\ Section \in Seq(Line) /\ Section # <<>>
         /\ SectionEnd + 1 \in Nat \ {0}
<1>1. SectionEnd \in at..Len(body)
  BY SectionEndExists
<1> DEFINE e == SectionEnd
<1> HIDE DEF e
<1>2. e \in at..Len(body)
  BY <1>1 DEF e
<1>3. SubSeq(body, at, e) \in Seq(Line) /\ Len(SubSeq(body, at, e)) = e - at + 1
  BY <1>2
<1>4. SubSeq(body, at, e) # <<>> /\ e + 1 \in Nat \ {0}
  BY <1>2, <1>3
<1> QED BY <1>3, <1>4 DEF e, Section

LEMMA AddedTyped ==
  ASSUME NEW k \in Kinds
  PROVE  Added(k) \in Seq(Line) /\ Len(Added(k)) = 1
  BY DEF Added, Line

\* truncateSection adds between one and three lines.
LEMMA SuffixFits ==
  ASSUME NEW s
  PROVE  Suffix(s) \in Seq(Line) /\ Len(Suffix(s)) \in Nat
         /\ 1 <= Len(Suffix(s)) /\ Len(Suffix(s)) <= 3
<1>1. "text" \in Kinds /\ "fence" \in Kinds /\ "close" \in Kinds
  BY DEF Kinds
<1>2. <<>> \in Seq(Line) /\ Len(<<>>) = 0
  OBVIOUS
<1> DEFINE t == Added("text")
           f == IF InCodeBlock(s) THEN Added("fence") ELSE <<>>
           c == IF InDetails(s) THEN Added("close") ELSE <<>>
<1>3. t \in Seq(Line) /\ Len(t) = 1
  BY <1>1, AddedTyped
<1>4. f \in Seq(Line) /\ Len(f) \in 0..1
  <2>1. CASE InCodeBlock(s)
    <3>1. f = Added("fence")
      BY <2>1
    <3> QED BY <1>1, <3>1, AddedTyped
  <2>2. CASE ~InCodeBlock(s)
    BY <1>2, <2>2
  <2> QED BY <2>1, <2>2
<1>5. c \in Seq(Line) /\ Len(c) \in 0..1
  <2>1. CASE InDetails(s)
    <3>1. c = Added("close")
      BY <2>1
    <3> QED BY <1>1, <3>1, AddedTyped
  <2>2. CASE ~InDetails(s)
    BY <1>2, <2>2
  <2> QED BY <2>1, <2>2
<1>6. Suffix(s) = (t \o f) \o c
  BY DEF Suffix
<1> HIDE DEF t, f, c
<1>7. t \o f \in Seq(Line) /\ Len(t \o f) = Len(t) + Len(f)
  BY <1>3, <1>4, ConcatProperties
<1>8. (t \o f) \o c \in Seq(Line) /\ Len((t \o f) \o c) = Len(t \o f) + Len(c)
  BY <1>5, <1>7, ConcatProperties
<1> QED BY <1>3, <1>4, <1>5, <1>6, <1>7, <1>8

\* Truncation keeps enough room for all it adds.
LEMMA TruncationFits ==
  ASSUME NEW s \in Seq(Line), s # <<>>
  PROVE  /\ TruncateSection(s) \in Seq(Line) \ {<<>>}
         /\ Len(TruncateSection(s)) <= Limit
<1>1. CASE Len(s) <= Limit
  BY <1>1 DEF TruncateSection
<1>2. CASE ~(Len(s) <= Limit)
  <2> DEFINE kept == SubSeq(s, 1, Limit - Reserve)
  <2>1. Limit \in Nat /\ Reserve \in Nat /\ 3 <= Reserve /\ Reserve <= Limit
    BY SplitAssumption
  <2>2. kept \in Seq(Line) /\ Len(kept) = Limit - Reserve
    BY <1>2, <2>1
  <2>3. TruncateSection(s) = kept \o Suffix(kept)
    BY <1>2 DEF TruncateSection
  <2> HIDE DEF kept
  <2>4. /\ Suffix(kept) \in Seq(Line) /\ Len(Suffix(kept)) \in Nat
        /\ 1 <= Len(Suffix(kept)) /\ Len(Suffix(kept)) <= 3
    BY SuffixFits
  <2>5. /\ kept \o Suffix(kept) \in Seq(Line)
        /\ Len(kept \o Suffix(kept)) = Len(kept) + Len(Suffix(kept))
    BY <2>2, <2>4, ConcatProperties
  <2>6. Len(kept \o Suffix(kept)) \in 1..Limit
    <3>1. Len(kept) \in Nat /\ Len(kept) + 3 <= Limit
      BY <2>1, <2>2
    <3>2. Len(Suffix(kept)) \in Nat /\ 1 <= Len(Suffix(kept)) /\ Len(Suffix(kept)) <= 3
      BY <2>4
    <3> DEFINE m == Len(kept)
               n == Len(Suffix(kept))
    <3> HIDE DEF m, n
    <3>3. m + n \in 1..Limit
      BY <2>1, <3>1, <3>2 DEF m, n
    <3> QED BY <2>5, <3>3 DEF m, n
  <2> QED BY <2>3, <2>5, <2>6
<1> QED BY <1>1, <1>2

\* What is saved of the accumulated lines fits, and is no empty part.
LEMMA SavedFits ==
  ASSUME TypeOK, PartsFit, CurrentFits
  PROVE  /\ Saved \in Seq(Seq(Line) \ {<<>>})
         /\ \A i \in DOMAIN Saved : Len(Saved[i]) <= Limit
  BY DEF Saved, TypeOK, PartsFit, CurrentFits

\* A part that fits, appended to parts that fit.
LEMMA AppendFits ==
  ASSUME NEW ps \in Seq(Seq(Line) \ {<<>>}), \A i \in DOMAIN ps : Len(ps[i]) <= Limit,
         NEW s \in Seq(Line) \ {<<>>}, Len(s) <= Limit
  PROVE  /\ Append(ps, s) \in Seq(Seq(Line) \ {<<>>})
         /\ \A i \in DOMAIN Append(ps, s) : Len(Append(ps, s)[i]) <= Limit
  OBVIOUS

SplitInv == TypeOK /\ PartsFit /\ CurrentFits /\ body # <<>>

LEMMA SplitInit == Init => SplitInv
<1> SUFFICES ASSUME Init PROVE SplitInv
  OBVIOUS
<1>1. PICK kinds \in Bodies : body = Lines(kinds)
  BY DEF Init
<1>2. body \in Seq(Line) /\ body # <<>>
  <2>1. kinds \in Seq(Kinds) /\ kinds # <<>>
    BY SplitAssumption
  <2>2. Len(kinds) \in Nat \ {0}
    BY <2>1
  <2>3. body # <<>>
    BY <1>1, <2>1, <2>2 DEF Lines
  <2> QED BY <1>1, <2>3, BodyTyped
<1>3. at = 1 /\ current = <<>> /\ parts = <<>> /\ done = FALSE
  BY DEF Init
<1>4. /\ <<>> \in Seq(Line) /\ Len(<<>>) = 0
      /\ <<>> \in Seq(Seq(Line) \ {<<>>}) /\ DOMAIN <<>> = {}
  OBVIOUS
<1>5. Limit \in Nat
  BY SplitAssumption
<1>6. TypeOK
  <2>1. at \in Nat \ {0}
    BY <1>3, SMT
  <2>3. done \in BOOLEAN
    BY <1>3, Zenon
  <2>2. current \in Seq(Line) /\ parts \in Seq(Seq(Line) \ {<<>>})
    BY <1>3, <1>4, Zenon
  <2> QED BY <1>2, <2>1, <2>2, <2>3 DEF TypeOK
<1>7. PartsFit /\ CurrentFits
  BY <1>3, <1>4, <1>5 DEF PartsFit, CurrentFits
<1> QED BY <1>2, <1>6, <1>7 DEF SplitInv

LEMMA SplitStep == SplitInv /\ [Next]_vars => SplitInv'
<1> SUFFICES ASSUME SplitInv, [Next]_vars PROVE SplitInv'
  OBVIOUS
<1>1. /\ body \in Seq(Line) /\ body # <<>> /\ at \in Nat \ {0} /\ current \in Seq(Line)
      /\ parts \in Seq(Seq(Line) \ {<<>>}) /\ done \in BOOLEAN
      /\ \A i \in DOMAIN parts : Len(parts[i]) <= Limit
      /\ Len(current) <= Limit
  BY DEF SplitInv, TypeOK, PartsFit, CurrentFits
<1>2. Saved \in Seq(Seq(Line) \ {<<>>}) /\ \A i \in DOMAIN Saved : Len(Saved[i]) <= Limit
  BY SavedFits DEF SplitInv
<1>3. Limit \in Nat
  BY SplitAssumption
<1>4. CASE ReturnWhole
  <2>1. /\ parts' = <<body>> /\ done' = TRUE /\ Len(body) <= Limit
        /\ UNCHANGED <<body, at, current>>
    BY <1>4 DEF ReturnWhole
  <2>2. <<body>> \in Seq(Seq(Line) \ {<<>>}) /\ <<body>> # <<>>
        /\ \A i \in DOMAIN <<body>> : Len(<<body>>[i]) <= Limit
    BY <1>1, <2>1
  <2> QED BY <1>1, <2>1, <2>2 DEF SplitInv, TypeOK, PartsFit, CurrentFits
<1>5. CASE Truncate
  <2>1. /\ parts' = Append(Saved, TruncateSection(Section)) /\ current' = <<>>
        /\ at' = SectionEnd + 1 /\ at <= Len(body) /\ ~done
        /\ UNCHANGED <<body, done>>
    BY <1>5 DEF Truncate, InLoop
  <2>2. /\ Section \in Seq(Line) /\ Section # <<>> /\ at' \in Nat \ {0}
    BY <1>1, <2>1, SectionTyped
  <2>3. TruncateSection(Section) \in Seq(Line) \ {<<>>} /\ Len(TruncateSection(Section)) <= Limit
    BY <2>2, TruncationFits
  <2>4. /\ parts' \in Seq(Seq(Line) \ {<<>>})
        /\ \A i \in DOMAIN parts' : Len(parts'[i]) <= Limit
    BY <1>2, <2>1, <2>3, AppendFits
  <2>5. current' \in Seq(Line) /\ Len(current') <= Limit
    BY <1>3, <2>1
  <2> QED BY <1>1, <2>1, <2>2, <2>4, <2>5 DEF SplitInv, TypeOK, PartsFit, CurrentFits
<1>6. CASE Pack
  <2>1. /\ Len(Section) <= Limit /\ at' = SectionEnd + 1 /\ at <= Len(body) /\ ~done
        /\ UNCHANGED <<body, done>>
    BY <1>6 DEF Pack, InLoop
  <2>2. /\ Section \in Seq(Line) /\ Section # <<>> /\ at' \in Nat \ {0}
    BY <1>1, <2>1, SectionTyped
  <2>3. CASE Overflows(Section)
    <3>1. parts' = Append(parts, current) /\ current' = Section /\ current # <<>>
      BY <1>6, <2>3 DEF Pack, Overflows
    <3>2. /\ parts' \in Seq(Seq(Line) \ {<<>>})
          /\ \A i \in DOMAIN parts' : Len(parts'[i]) <= Limit
      BY <1>1, <3>1, AppendFits
    <3> QED BY <1>1, <2>1, <2>2, <3>1, <3>2 DEF SplitInv, TypeOK, PartsFit, CurrentFits
  <2>4. CASE ~Overflows(Section)
    <3>1. parts' = parts /\ current' = current \o Section
      BY <1>6, <2>4 DEF Pack
    <3>2. current \o Section \in Seq(Line) /\ Len(current \o Section) = Len(current) + Len(Section)
      BY <1>1, <2>2, ConcatProperties
    <3>3. Len(current) + Len(Section) <= Limit
      <4>1. CASE current = <<>>
        BY <1>3, <2>1, <2>2, <4>1
      <4>2. CASE current # <<>>
        BY <1>1, <1>3, <2>2, <2>4, <4>2 DEF Overflows
      <4> QED BY <4>1, <4>2
    <3> QED BY <1>1, <2>1, <2>2, <3>1, <3>2, <3>3 DEF SplitInv, TypeOK, PartsFit, CurrentFits
  <2> QED BY <2>3, <2>4
<1>7. CASE ReturnParts
  <2>1. /\ parts' = IF Saved # <<>> THEN Saved ELSE <<TruncateSection(body)>>
        /\ done' = TRUE /\ UNCHANGED <<body, at, current>>
    BY <1>7 DEF ReturnParts
  <2>2. TruncateSection(body) \in Seq(Line) \ {<<>>} /\ Len(TruncateSection(body)) <= Limit
    BY <1>1, TruncationFits
  <2>3. /\ parts' \in Seq(Seq(Line) \ {<<>>}) /\ parts' # <<>>
        /\ \A i \in DOMAIN parts' : Len(parts'[i]) <= Limit
    <3> DEFINE whole == TruncateSection(body)
    <3> HIDE DEF whole
    <3>1. /\ <<whole>> \in Seq(Seq(Line) \ {<<>>}) /\ <<whole>> # <<>>
          /\ \A i \in DOMAIN <<whole>> : Len(<<whole>>[i]) <= Limit
      BY <2>2 DEF whole
    <3> QED BY <1>2, <2>1, <3>1 DEF whole
  <2> QED BY <1>1, <2>1, <2>3 DEF SplitInv, TypeOK, PartsFit, CurrentFits
<1>8. CASE UNCHANGED vars
  BY <1>1, <1>8 DEF vars, SplitInv, TypeOK, PartsFit, CurrentFits
<1> QED BY <1>4, <1>5, <1>6, <1>7, <1>8 DEF Next

\* splitComment never makes a part that is empty or longer than a comment may be,
\* and returns at least one, which PostComment's callers rely on.
THEOREM SplitPartsFit == Spec => [](TypeOK /\ PartsFit)
<1>1. SplitInv => TypeOK /\ PartsFit
  BY DEF SplitInv
<1> QED BY <1>1, SplitInit, SplitStep, PTL DEF Spec
-----------------------------------------------------------------------------
(* Nothing is lost: what has been read of the report is in the parts and in   *)
(* the part being filled, which begins where a section does.                  *)

Boundary(q) == q = 1 \/ EndsSection(body, q - 1)
From == at - Len(current)   \* the first line of the part being filled

BodyInv == \A p \in DOMAIN body : body[p].pos = p

\* The loop is at line a, the parts ps are the report up to q, c is the rest.
Reading(a, ps, c, q) ==
  /\ a \in 1..Len(body) + 1 /\ Boundary(a)
  /\ q \in 1..a /\ Boundary(q) /\ q = a - Len(c)
  /\ \A n \in DOMAIN c : c[n] = body[q - 1 + n]
  /\ \A p \in q..a - 1 : Kept(p)
  /\ IsReport(ps, q)
  /\ a = 1 \/ c # <<>> \/ ps # <<>>
ReadInv == ~done => Reading(at, parts, current, From)

\* What a part tells of the lines from a to b - 1.
Tells(s, a, b) ==
  /\ \A n \in DOMAIN s : s[n].pos # 0 =>
       s[n].pos \in a..b - 1 /\ Kept(s[n].pos) /\ s[n] = body[s[n].pos]
  /\ \A p \in a..b - 1 : Kept(p) => \E n \in DOMAIN s : s[n].pos = p
  /\ \A n, m \in DOMAIN s : n < m /\ s[n].pos # 0 /\ s[m].pos # 0 => s[n].pos < s[m].pos

LEMMA ConcatAt ==
  ASSUME NEW S, NEW s \in Seq(S), NEW t \in Seq(S)
  PROVE  /\ s \o t \in Seq(S) /\ Len(s \o t) = Len(s) + Len(t)
         /\ DOMAIN (s \o t) = 1..Len(s) + Len(t)
         /\ \A n \in 1..Len(s) : (s \o t)[n] = s[n]
         /\ \A n \in 1..Len(s) + Len(t) : n > Len(s) => (s \o t)[n] = t[n - Len(s)]
OBVIOUS

LEMMA AppendTells ==
  ASSUME NEW ps \in Seq(Seq(Line) \ {<<>>}), NEW s \in Seq(Line) \ {<<>>},
         NEW a \in Nat, NEW b \in Nat, 1 <= a, a <= b,
         IsReport(ps, a), Tells(s, a, b)
  PROVE  IsReport(Append(ps, s), b)
<1> DEFINE qs == Append(ps, s)
           k == Len(ps) + 1
<1>1. /\ k \in Nat /\ 1 <= k /\ DOMAIN qs = 1..k /\ DOMAIN ps = 1..k - 1 /\ qs[k] = s
      /\ \A i \in 1..k - 1 : qs[i] = ps[i] /\ ps[i] \in Seq(Line)
  OBVIOUS
<1>t. \A i \in 1..k : \A n \in DOMAIN qs[i] : qs[i][n].pos \in Nat /\ n \in Nat
  <2> SUFFICES ASSUME NEW i \in 1..k, NEW n \in DOMAIN qs[i] PROVE qs[i][n].pos \in Nat /\ n \in Nat
    OBVIOUS
  <2>1. qs[i] \in Seq(Line)
    BY <1>1
  <2>2. qs[i][n] \in Line /\ n \in Nat
    BY <2>1
  <2> QED BY <2>2 DEF Line
<1> HIDE DEF qs, k
<1>2. ASSUME NEW i \in DOMAIN qs, NEW n \in DOMAIN qs[i], qs[i][n].pos # 0
      PROVE  qs[i][n].pos \in 1..b - 1 /\ Kept(qs[i][n].pos) /\ qs[i][n] = body[qs[i][n].pos]
  <2>1. CASE i = k
    BY <1>1, <1>2, <2>1 DEF Tells
  <2>2. CASE i # k
    <3>1. i \in DOMAIN ps /\ qs[i] = ps[i]
      BY <1>1, <2>2
    <3>2. ps[i][n].pos \in 1..a - 1 /\ Kept(ps[i][n].pos) /\ ps[i][n] = body[ps[i][n].pos]
      BY <1>2, <3>1 DEF IsReport
    <3> QED BY <3>1, <3>2
  <2> QED BY <2>1, <2>2
<1>3. ASSUME NEW p \in 1..b - 1, Kept(p)
      PROVE  \E i \in DOMAIN qs : \E n \in DOMAIN qs[i] : qs[i][n].pos = p
  <2>1. CASE p < a
    <3>1. PICK i \in DOMAIN ps : \E n \in DOMAIN ps[i] : ps[i][n].pos = p
      BY <1>3, <2>1 DEF IsReport
    <3>a. i \in 1..k - 1
      BY <1>1, Zenon
    <3>2. i \in 1..k
      BY <1>1, <3>a
    <3>3. i \in DOMAIN qs /\ qs[i] = ps[i]
      BY <1>1, <3>a, <3>2, Zenon
    <3> QED BY <3>1, <3>3
  <2>2. CASE ~(p < a)
    <3>1. p \in a..b - 1
      BY <2>2
    <3>2. \E n \in DOMAIN s : s[n].pos = p
      BY <1>3, <3>1 DEF Tells
    <3>3. k \in DOMAIN qs
      BY <1>1
    <3> QED BY <1>1, <3>2, <3>3
  <2> QED BY <2>1, <2>2
<1>4. ASSUME NEW i \in DOMAIN qs, NEW j \in DOMAIN qs, NEW n \in DOMAIN qs[i], NEW m \in DOMAIN qs[j],
             i < j \/ (i = j /\ n < m), qs[i][n].pos # 0, qs[j][m].pos # 0
      PROVE  qs[i][n].pos < qs[j][m].pos
  <2>1. CASE j # k
    <3>1. i \in DOMAIN ps /\ j \in DOMAIN ps /\ qs[i] = ps[i] /\ qs[j] = ps[j]
      BY <1>1, <1>4, <2>1
    <3> QED BY <1>4, <3>1 DEF IsReport
  <2>2. CASE j = k /\ i = k
    BY <1>1, <1>4, <2>2 DEF Tells
  <2>3. CASE j = k /\ i # k
    <3>1. i \in DOMAIN ps /\ qs[i] = ps[i] /\ qs[j] = s
      BY <1>1, <2>3
    <3>2. ps[i][n].pos \in 1..a - 1 /\ s[m].pos \in a..b - 1
      BY <1>4, <3>1 DEF IsReport, Tells
    <3> QED BY <3>1, <3>2
  <2> QED BY <2>1, <2>2, <2>3
<1> QED BY <1>2, <1>3, <1>4 DEF IsReport, qs

\* A stretch of the report that is kept tells all of it.
LEMMA StretchTells ==
  ASSUME body \in Seq(Line), BodyInv, NEW s \in Seq(Line),
         NEW a \in Nat, NEW b \in Nat, 1 <= a, a <= b, b <= Len(body) + 1, Len(s) = b - a,
         \A n \in DOMAIN s : s[n] = body[a - 1 + n],
         \A p \in a..b - 1 : Kept(p)
  PROVE  Tells(s, a, b)
<1>1. DOMAIN s = 1..b - a /\ DOMAIN body = 1..Len(body) /\ Len(body) \in Nat
  OBVIOUS
<1>2. \A n \in DOMAIN s : a - 1 + n \in a..b - 1 /\ a - 1 + n \in DOMAIN body
  BY <1>1
<1>3. \A n \in DOMAIN s : s[n].pos = a - 1 + n
  BY <1>2 DEF BodyInv
<1>4. ASSUME NEW p \in a..b - 1 PROVE \E n \in DOMAIN s : s[n].pos = p
  <2>1. p - a + 1 \in DOMAIN s /\ a - 1 + (p - a + 1) = p
    BY <1>1
  <2> QED BY <1>3, <2>1
<1>5. \A n, m \in DOMAIN s : n < m => s[n].pos < s[m].pos
  BY <1>1, <1>3
<1> QED BY <1>2, <1>3, <1>4, <1>5 DEF Tells

\* The section of a line begins where the one before it ended.
LEMMA StartIsBoundary ==
  ASSUME NEW a \in 1..Len(body), Boundary(a), NEW p \in a..Len(body), Len(body) \in Nat,
         \A q \in a..p - 1 : ~EndsSection(body, q)
  PROVE  StartOf(p) = a
<1> DEFINE Begins(q) == /\ q = 1 \/ EndsSection(body, q - 1)
                        /\ \A m \in q..p - 1 : ~EndsSection(body, m)
<1>1. a \in 1..p /\ Begins(a)
  BY DEF Boundary
<1>2. ASSUME NEW q \in 1..p, Begins(q) PROVE q = a
  <2>1. CASE q < a
    <3>1. a - 1 \in q..p - 1 /\ a # 1
      BY <2>1
    <3>2. EndsSection(body, a - 1)
      BY <3>1 DEF Boundary
    <3> QED BY <1>2, <3>1, <3>2
  <2>2. CASE a < q
    <3>1. q - 1 \in a..p - 1 /\ q # 1
      BY <2>2
    <3> QED BY <1>2, <3>1
  <2> QED BY <2>1, <2>2
<1>3. StartOf(p) = CHOOSE q \in 1..p : Begins(q)
  BY DEF StartOf
<1> HIDE DEF Begins
<1> QED BY <1>1, <1>2, <1>3

\* The section the loop is at, and which of its lines are kept.
SectionIs(e) ==
  /\ e \in at..Len(body) /\ SectionEnd = e /\ EndsSection(body, e)
  /\ \A q \in at..e - 1 : ~EndsSection(body, q)
  /\ Section \in Seq(Line) /\ Section # <<>> /\ Len(Section) = e + 1 - at
  /\ \A n \in DOMAIN Section : Section[n] = body[at - 1 + n]
  /\ \A p \in at..e : StartOf(p) = at

LEMMA SectionFound ==
  ASSUME body \in Seq(Line), at \in 1..Len(body), Boundary(at)
  PROVE  \E e \in at..Len(body) : SectionIs(e)
<1>1. Len(body) \in Nat /\ at \in Nat \ {0} /\ at <= Len(body)
  OBVIOUS
<1>2. /\ SectionEnd \in at..Len(body) /\ EndsSection(body, SectionEnd)
      /\ \A q \in at..SectionEnd - 1 : ~EndsSection(body, q)
  BY <1>1, SectionEndExists
<1>3. PICK e : e = SectionEnd
  OBVIOUS
<1>4. /\ e \in at..Len(body) /\ EndsSection(body, e)
      /\ \A q \in at..e - 1 : ~EndsSection(body, q)
  BY <1>2, <1>3
<1>5. Section = SubSeq(body, at, e)
  BY <1>3 DEF Section
<1>6. /\ SubSeq(body, at, e) \in Seq(Line) /\ Len(SubSeq(body, at, e)) = e + 1 - at
      /\ \A n \in 1..e + 1 - at : SubSeq(body, at, e)[n] = body[at - 1 + n]
  <2>1. Len(SubSeq(body, at, e)) = e - at + 1 /\ SubSeq(body, at, e) \in Seq(Line)
    BY <1>1, <1>4
  <2>2. \A n \in 1..e - at + 1 : SubSeq(body, at, e)[n] = body[at - 1 + n]
    BY <1>1, <1>4
  <2>3. e - at + 1 = e + 1 - at
    BY <1>1, <1>4
  <2> QED BY <2>1, <2>2, <2>3
<1>7. Section # <<>> /\ DOMAIN Section = 1..e + 1 - at
  <2>1. Len(Section) # 0
    BY <1>1, <1>4, <1>5, <1>6
  <2>2. Section \in Seq(Line) /\ Len(Section) = e + 1 - at
    BY <1>5, <1>6
  <2>3. DOMAIN Section = 1..Len(Section) /\ Len(<<>>) = 0
    BY <2>2
  <2>4. DOMAIN Section = 1..e + 1 - at
    BY <2>2, <2>3, Zenon
  <2> QED BY <2>1, <2>3, <2>4
<1>8. \A n \in DOMAIN Section : Section[n] = body[at - 1 + n]
  BY <1>5, <1>6, <1>7, Zenon
<1>9. \A p \in at..e : StartOf(p) = at
  <2> SUFFICES ASSUME NEW p \in at..e PROVE StartOf(p) = at
    OBVIOUS
  <2>1. p \in at..Len(body) /\ \A q \in at..p - 1 : q \in at..e - 1
    BY <1>1, <1>4
  <2> QED BY <1>1, <1>4, <2>1, StartIsBoundary
<1> QED BY <1>3, <1>4, <1>5, <1>6, <1>7, <1>8, <1>9 DEF SectionIs

LEMMA SmallSectionKept ==
  ASSUME body \in Seq(Line), at \in 1..Len(body), NEW e \in at..Len(body), SectionIs(e),
         Len(Section) <= Limit
  PROVE  \A p \in at..e : Kept(p)
<1> SUFFICES ASSUME NEW p \in at..e PROVE Kept(p)
  OBVIOUS
<1>1. e \in at..at + Limit - 1 /\ EndsSection(body, e) /\ StartOf(p) = at
  BY SplitAssumption DEF SectionIs
<1> QED BY <1>1 DEF Kept, Oversized

LEMMA LargeSectionKept ==
  ASSUME body \in Seq(Line), at \in 1..Len(body), NEW e \in at..Len(body), SectionIs(e),
         Len(Section) > Limit, Len(body) > Limit
  PROVE  \A p \in at..e : Kept(p) <=> p < at + Limit - Reserve
<1> SUFFICES ASSUME NEW p \in at..e PROVE Kept(p) <=> p < at + Limit - Reserve
  OBVIOUS
<1>1. Limit \in Nat /\ Reserve \in Nat /\ Len(body) \in Nat
  BY SplitAssumption
<1>2. StartOf(p) = at /\ Len(Section) = e + 1 - at
  BY DEF SectionIs
<1>3. ASSUME NEW q \in at..at + Limit - 1 PROVE q < Len(body) /\ ~EndsSection(body, q)
  <2>1. q \in at..e - 1 /\ q < Len(body)
    BY <1>1, <1>2
  <2> QED BY <2>1 DEF SectionIs
<1>4. Oversized(p)
  BY <1>2, <1>3 DEF Oversized
<1> QED BY <1>1, <1>2, <1>4 DEF Kept

\* What truncation adds are lines of its own.
LEMMA SuffixIsAdded ==
  ASSUME NEW s
  PROVE  \A n \in DOMAIN Suffix(s) : Suffix(s)[n].pos = 0
<1>1. /\ Added("text") = <<[pos |-> 0, kind |-> "text"]>>
      /\ Added("fence") = <<[pos |-> 0, kind |-> "fence"]>>
      /\ Added("close") = <<[pos |-> 0, kind |-> "close"]>>
  BY DEF Added
<1>2. /\ [pos |-> 0, kind |-> "text"] \in Line /\ [pos |-> 0, kind |-> "fence"] \in Line
      /\ [pos |-> 0, kind |-> "close"] \in Line
  BY DEF Line, Kinds
<1> DEFINE T == {l \in Line : l.pos = 0}
<1>a. /\ [pos |-> 0, kind |-> "text"] \in T /\ [pos |-> 0, kind |-> "fence"] \in T
      /\ [pos |-> 0, kind |-> "close"] \in T
  BY <1>2
<1>3. Added("text") \in Seq(T) /\ Added("fence") \in Seq(T) /\ Added("close") \in Seq(T)
  <2> HIDE DEF T
  <2>1. \A x \in T : <<x>> \in Seq(T)
    OBVIOUS
  <2> QED BY <1>1, <1>a, <2>1, Zenon
<1>4. <<>> \in Seq(T)
  OBVIOUS
<1> HIDE DEF T
<1>5. (IF InCodeBlock(s) THEN Added("fence") ELSE <<>>) \in Seq(T)
  BY <1>3, <1>4
<1>6. (IF InDetails(s) THEN Added("close") ELSE <<>>) \in Seq(T)
  BY <1>3, <1>4
<1>7. Suffix(s) \in Seq(T)
  BY <1>3, <1>5, <1>6, ConcatProperties DEF Suffix
<1> QED BY <1>7 DEF T

\* A truncated section tells what is kept of it.
LEMMA TruncatedTells ==
  ASSUME body \in Seq(Line), BodyInv, at \in 1..Len(body), NEW e \in at..Len(body), SectionIs(e),
         Len(Section) > Limit, Len(body) > Limit
  PROVE  Tells(TruncateSection(Section), at, e + 1)
<1> DEFINE L == Limit - Reserve
           kept == SubSeq(Section, 1, L)
           suf == Suffix(kept)
           t == TruncateSection(Section)
<1>1. /\ Limit \in Nat /\ L \in Nat /\ L <= Limit /\ Len(body) \in Nat /\ DOMAIN body = 1..Len(body)
      /\ at \in Nat /\ 1 <= at /\ e \in Nat /\ at <= e /\ e <= Len(body)
  BY SplitAssumption
<1>2. /\ Section \in Seq(Line) /\ Len(Section) = e + 1 - at /\ DOMAIN Section = 1..e + 1 - at
      /\ \A n \in DOMAIN Section : Section[n] = body[at - 1 + n]
  <2>1. /\ Section \in Seq(Line) /\ Len(Section) = e + 1 - at
        /\ \A n \in DOMAIN Section : Section[n] = body[at - 1 + n]
    BY DEF SectionIs
  <2>2. DOMAIN Section = 1..Len(Section)
    BY <2>1
  <2> QED BY <2>1, <2>2, Zenon
<1>3. L < e + 1 - at
  BY <1>1, <1>2, SplitAssumption
<1>4. kept \in Seq(Line) /\ Len(kept) = L /\ \A n \in 1..L : kept[n] = Section[n]
  BY <1>1, <1>2, <1>3
<1>5. /\ suf \in Seq(Line) /\ \A n \in DOMAIN suf : suf[n].pos = 0
      /\ DOMAIN suf = 1..Len(suf) /\ Len(suf) \in Nat
  <2> HIDE DEF kept
  <2>1. suf \in Seq(Line)
    BY SuffixFits
  <2>2. DOMAIN suf = 1..Len(suf) /\ Len(suf) \in Nat
    BY <2>1
  <2> QED BY <2>1, <2>2, SuffixIsAdded
<1>6. t = kept \o suf
  <2>1. ~(Len(Section) <= Limit)
    BY <1>1, <1>2
  <2> QED BY <2>1 DEF TruncateSection
<1> HIDE DEF kept, suf, t, L
<1>7. /\ DOMAIN t = 1..L + Len(suf) /\ \A n \in 1..L : t[n] = kept[n]
      /\ \A n \in 1..L + Len(suf) : n > L => t[n] = suf[n - L]
  <2>1. /\ DOMAIN (kept \o suf) = 1..Len(kept) + Len(suf)
        /\ \A n \in 1..Len(kept) : (kept \o suf)[n] = kept[n]
        /\ \A n \in 1..Len(kept) + Len(suf) : n > Len(kept) => (kept \o suf)[n] = suf[n - Len(kept)]
    <3>1. kept \in Seq(Line) /\ suf \in Seq(Line)
      BY <1>4, <1>5
    <3> QED BY <3>1, ConcatAt
  <2> QED BY <1>4, <1>6, <2>1, Zenon
<1>8. \A n \in DOMAIN t : n > L => t[n].pos = 0
  <2> SUFFICES ASSUME NEW n \in DOMAIN t, n > L PROVE t[n].pos = 0
    OBVIOUS
  <2>1. n - L \in 1..Len(suf) /\ t[n] = suf[n - L]
    BY <1>1, <1>5, <1>7
  <2> QED BY <1>5, <2>1
<1>9. \A n \in 1..L : /\ n \in DOMAIN t /\ t[n] = body[at - 1 + n] /\ t[n].pos = at - 1 + n
                      /\ at - 1 + n \in at..e /\ Kept(at - 1 + n)
  <2> SUFFICES ASSUME NEW n \in 1..L
               PROVE  /\ n \in DOMAIN t /\ t[n] = body[at - 1 + n] /\ t[n].pos = at - 1 + n
                      /\ at - 1 + n \in at..e /\ Kept(at - 1 + n)
    OBVIOUS
  <2>1. n \in 1..e + 1 - at /\ at - 1 + n \in at..e /\ at - 1 + n \in 1..Len(body)
        /\ at - 1 + n < at + L
    BY <1>1, <1>3
  <2>2. n \in DOMAIN t
    BY <1>1, <1>5, <1>7
  <2>3. t[n] = body[at - 1 + n]
    BY <1>2, <1>4, <1>7, <2>1, Zenon
  <2>4. body[at - 1 + n].pos = at - 1 + n
    BY <1>1, <2>1, Zenon DEF BodyInv
  <2>5. at + L = at + Limit - Reserve
    BY <1>1, SplitAssumption DEF L
  <2>6. Kept(at - 1 + n) <=> at - 1 + n < at + Limit - Reserve
    BY <2>1, LargeSectionKept
  <2> QED BY <2>1, <2>2, <2>3, <2>4, <2>5, <2>6
<1>10. \A n \in DOMAIN t : t[n].pos # 0 => n \in 1..L
  <2> SUFFICES ASSUME NEW n \in DOMAIN t, t[n].pos # 0 PROVE n \in 1..L
    OBVIOUS
  <2>1. ~(n > L)
    BY <1>8
  <2> QED BY <1>1, <1>5, <1>7, <2>1
<1>11. ASSUME NEW n \in DOMAIN t, t[n].pos # 0
       PROVE  t[n].pos \in at..e + 1 - 1 /\ Kept(t[n].pos) /\ t[n] = body[t[n].pos]
  <2>1. n \in 1..L
    BY <1>10, <1>11
  <2>2. e + 1 - 1 = e
    BY <1>1
  <2> QED BY <1>9, <2>1, <2>2
<1>12. ASSUME NEW p \in at..e + 1 - 1, Kept(p) PROVE \E n \in DOMAIN t : t[n].pos = p
  <2>1. p \in at..e /\ p < at + Limit - Reserve
    <3>1. p \in at..e
      BY <1>1
    <3> QED BY <1>12, <3>1, LargeSectionKept
  <2>2. p - at + 1 \in 1..L /\ at - 1 + (p - at + 1) = p
    BY <1>1, <2>1, SplitAssumption DEF L
  <2> QED BY <1>9, <2>2
<1>13. ASSUME NEW n \in DOMAIN t, NEW m \in DOMAIN t, n < m, t[n].pos # 0, t[m].pos # 0
       PROVE  t[n].pos < t[m].pos
  <2>1. n \in 1..L /\ m \in 1..L
    BY <1>10, <1>13
  <2> QED BY <1>1, <1>9, <1>13, <2>1
<1> QED BY <1>11, <1>12, <1>13 DEF Tells, t

\* What is said of the report stays said of it.
LEMMA KeptStays ==
  ASSUME body' = body
  PROVE  \A p : Kept(p)' <=> Kept(p)
BY DEF Kept, Oversized, StartOf, EndsSection

LEMMA ReadOn ==
  ASSUME body' = body, NEW CONSTANT a, NEW CONSTANT ps, NEW CONSTANT c, NEW CONSTANT q,
         at' = a, parts' = ps, current' = c, Reading(a, ps, c, q)
  PROVE  ReadInv'
<1>1. From' = q
  BY DEF From, Reading
<1>2. IsReport(parts, From)'
  BY <1>1, KeptStays DEF Reading, IsReport
<1>3. \A p \in (From..at - 1)' : Kept(p)'
  BY <1>1, KeptStays DEF Reading
<1>4. Boundary(at)' /\ Boundary(From)'
  BY <1>1 DEF Reading, Boundary, EndsSection
<1>5. /\ (at \in 1..Len(body) + 1)' /\ (From \in 1..at)' /\ (From = at - Len(current))'
      /\ (\A n \in DOMAIN current : current[n] = body[From - 1 + n])'
      /\ (at = 1 \/ current # <<>> \/ parts # <<>>)'
  BY <1>1 DEF Reading
<1> QED BY <1>2, <1>3, <1>4, <1>5 DEF ReadInv, Reading

WholeInv == SplitInv /\ BodyInv /\ ReadInv /\ NothingLost

LEMMA WholeInit == Init => WholeInv
<1> SUFFICES ASSUME Init PROVE WholeInv
  OBVIOUS
<1>1. SplitInv
  BY SplitInit
<1>2. BodyInv
  BY DEF Init, Lines, BodyInv
<1>3. at = 1 /\ current = <<>> /\ parts = <<>> /\ done = FALSE /\ body \in Seq(Line)
  BY <1>1 DEF Init, SplitInv, TypeOK
<1>4. Len(current) = 0 /\ From = 1 /\ DOMAIN current = {} /\ DOMAIN parts = {}
      /\ 1 \in 1..Len(body) + 1
  BY <1>3 DEF From
<1>5. ReadInv
  <2>1. IsReport(parts, From)
    BY <1>4 DEF IsReport
  <2>2. From \in 1..at /\ \A p \in From..at - 1 : Kept(p)
    BY <1>3, <1>4
  <2> QED BY <1>3, <1>4, <2>1, <2>2 DEF ReadInv, Reading, Boundary
<1> QED BY <1>1, <1>2, <1>3, <1>5, Zenon DEF WholeInv, NothingLost

\* What is saved tells all that was read.
LEMMA SavedTells ==
  ASSUME WholeInv, ~done
  PROVE  IsReport(Saved, at)
<1>1. /\ body \in Seq(Line) /\ BodyInv /\ current \in Seq(Line) /\ parts \in Seq(Seq(Line) \ {<<>>})
      /\ at \in 1..Len(body) + 1 /\ Len(body) \in Nat /\ at \in Nat
      /\ From \in 1..at /\ \A n \in DOMAIN current : current[n] = body[From - 1 + n]
      /\ \A p \in From..at - 1 : Kept(p)
      /\ IsReport(parts, From)
  BY DEF WholeInv, SplitInv, TypeOK, ReadInv, Reading
<1>2. /\ From \in Nat /\ 1 <= From /\ From <= at /\ at <= Len(body) + 1
      /\ Len(current) \in Nat /\ Len(current) = at - From
  BY <1>1 DEF From
<1>3. CASE current = <<>>
  <2>1. Saved = parts /\ From = at
    BY <1>1, <1>2, <1>3 DEF Saved
  <2> QED BY <1>1, <2>1
<1>4. CASE current # <<>>
  <2>1. Tells(current, From, at)
    BY <1>1, <1>2, StretchTells
  <2>2. IsReport(Append(parts, current), at)
    BY <1>1, <1>2, <1>4, <2>1, AppendTells
  <2> QED BY <1>4, <2>2 DEF Saved
<1> QED BY <1>3, <1>4

LEMMA WholeStep == WholeInv /\ [Next]_vars => WholeInv'
<1> SUFFICES ASSUME WholeInv, [Next]_vars PROVE WholeInv'
  OBVIOUS
<1>a. SplitInv'
  BY SplitStep DEF WholeInv
<1>b. body' = body
  BY DEF Next, vars, ReturnWhole, Truncate, Pack, ReturnParts
<1>c. BodyInv'
  BY <1>b DEF WholeInv, BodyInv
<1>1. /\ body \in Seq(Line) /\ body # <<>> /\ BodyInv
      /\ current \in Seq(Line) /\ parts \in Seq(Seq(Line) \ {<<>>}) /\ Len(current) <= Limit
      /\ Len(body) \in Nat /\ Len(current) \in Nat
  BY DEF WholeInv, SplitInv, TypeOK, CurrentFits
<1>2. ASSUME ~done
      PROVE  /\ at \in 1..Len(body) + 1 /\ Boundary(at) /\ at \in Nat
             /\ From \in 1..at /\ Boundary(From) /\ From = at - Len(current)
             /\ \A n \in DOMAIN current : current[n] = body[From - 1 + n]
             /\ \A p \in From..at - 1 : Kept(p)
             /\ IsReport(parts, From)
             /\ at = 1 \/ current # <<>> \/ parts # <<>>
  BY <1>1, <1>2 DEF WholeInv, ReadInv, Reading, From
<1>3. ~done => IsReport(Saved, at) /\ Saved \in Seq(Seq(Line) \ {<<>>})
  BY SavedTells, SavedFits DEF WholeInv, SplitInv
<1>4. Limit \in Nat
  BY SplitAssumption
<1>d. Append(parts, current) # <<>>
  <2>1. parts \in Seq(Seq(Line)) /\ current \in Seq(Line)
    BY <1>1
  <2>2. Len(Append(parts, current)) = Len(parts) + 1 /\ Len(parts) \in Nat
    BY <2>1
  <2>3. Len(<<>>) = 0
    OBVIOUS
  <2> QED BY <2>2, <2>3
<1>5. CASE ReturnWhole
  <2>1. /\ ~done /\ at = 1 /\ Len(body) <= Limit /\ parts' = <<body>> /\ done'
    BY <1>5 DEF ReturnWhole
  <2>2. \A p \in 1..Len(body) + 1 - 1 : Kept(p)
    BY <2>1 DEF Kept
  <2> DEFINE b == Len(body) + 1
  <2>n. /\ 1 \in Nat /\ b \in Nat /\ 1 <= 1 /\ 1 <= b /\ b <= Len(body) + 1 /\ Len(body) = b - 1
        /\ \A n \in DOMAIN body : body[n] = body[1 - 1 + n]
    BY <1>1
  <2>3. Tells(body, 1, b)
    <3>1. \A p \in 1..b - 1 : Kept(p)
      BY <2>2
    <3> HIDE DEF b
    <3> QED BY <1>1, <2>n, <3>1, StretchTells
  <2>4. IsReport(<<>>, 1) /\ <<>> \in Seq(Seq(Line) \ {<<>>})
    BY DEF IsReport
  <2>5. IsReport(Append(<<>>, body), b)
    <3> DEFINE none == <<>>
    <3>1. none \in Seq(Seq(Line) \ {<<>>}) /\ IsReport(none, 1) /\ body \in Seq(Line) \ {<<>>}
      BY <1>1, <2>4
    <3> HIDE DEF none, b
    <3>2. IsReport(Append(none, body), b)
      BY <2>n, <2>3, <3>1, AppendTells
    <3> QED BY <3>2 DEF none
  <2>6. Append(<<>>, body) = <<body>>
    OBVIOUS
  <2>7. IsReport(<<body>>, Len(body) + 1)
    BY <2>5, <2>6
  <2>8. NothingLost'
    BY <1>b, <2>1, <2>7, KeptStays DEF NothingLost, IsReport
  <2>9. ReadInv'
    BY <2>1 DEF ReadInv
  <2> QED BY <1>a, <1>c, <2>8, <2>9 DEF WholeInv
<1>6. CASE Truncate
  <2>1. /\ ~done /\ ~done' /\ at <= Len(body) /\ Len(body) > Limit /\ Len(Section) > Limit
        /\ parts' = Append(Saved, TruncateSection(Section)) /\ current' = <<>>
        /\ at' = SectionEnd + 1
    BY <1>6, <1>b DEF Truncate, InLoop
  <2>2. at \in 1..Len(body)
    BY <1>1, <1>2, <2>1
  <2>3. PICK e \in at..Len(body) : SectionIs(e)
    BY <1>1, <1>2, <2>1, <2>2, SectionFound
  <2>4. Tells(TruncateSection(Section), at, e + 1)
    BY <1>1, <2>1, <2>2, <2>3, TruncatedTells
  <2>5. TruncateSection(Section) \in Seq(Line) \ {<<>>}
    BY <2>3, TruncationFits DEF SectionIs
  <2>6. PICK ps : ps = parts'
    OBVIOUS
  <2>7. e \in Nat /\ at \in Nat /\ 1 <= at /\ at <= e + 1 /\ e + 1 \in 1..Len(body) + 1 /\ e + 1 \in Nat
    BY <1>1, <2>2, <2>3
  <2>8. IsReport(ps, e + 1) /\ ps # <<>>
    <3> DEFINE t == TruncateSection(Section)
               sv == Saved
    <3>1. sv \in Seq(Seq(Line) \ {<<>>}) /\ IsReport(sv, at)
      BY <1>3, <2>1
    <3>2. ps = Append(sv, t)
      BY <2>1, <2>6
    <3>3. t \in Seq(Line) \ {<<>>} /\ Tells(t, at, e + 1)
      BY <2>4, <2>5
    <3> HIDE DEF t, sv
    <3>4. IsReport(Append(sv, t), e + 1)
      BY <2>7, <3>1, <3>3, AppendTells
    <3>5. Append(sv, t) # <<>>
      BY <3>1, <3>3
    <3> QED BY <3>2, <3>4, <3>5
  <2>9. Boundary(e + 1)
    <3>1. EndsSection(body, e) /\ e + 1 - 1 = e
      BY <2>3, <2>7 DEF SectionIs
    <3> QED BY <3>1 DEF Boundary
  <2>10. at' = e + 1
    BY <2>1, <2>3 DEF SectionIs
  <2>11. /\ e + 1 = e + 1 - Len(<<>>) /\ e + 1 \in 1..e + 1 /\ DOMAIN <<>> = {}
         /\ \A p \in e + 1..e + 1 - 1 : Kept(p)
    BY <2>7
  <2>12. Reading(e + 1, ps, <<>>, e + 1)
    BY <2>7, <2>8, <2>9, <2>11 DEF Reading
  <2>14. ReadInv'
    <3> DEFINE a == e + 1
    <3>1. at' = a /\ Reading(a, ps, <<>>, a)
      BY <2>10, <2>12
    <3> HIDE DEF a
    <3> QED BY <1>b, <2>1, <2>6, <3>1, ReadOn
  <2>13. NothingLost'
    BY <2>1 DEF NothingLost
  <2> QED BY <1>a, <1>c, <2>13, <2>14 DEF WholeInv
<1>7. CASE Pack
  <2>1. /\ ~done /\ ~done' /\ at <= Len(body) /\ Len(body) > Limit /\ Len(Section) <= Limit
        /\ at' = SectionEnd + 1
    BY <1>7, <1>b DEF Pack, InLoop
  <2>2. at \in 1..Len(body)
    BY <1>1, <1>2, <2>1
  <2>3. PICK e \in at..Len(body) : SectionIs(e)
    BY <1>1, <1>2, <2>1, <2>2, SectionFound
  <2>4. /\ e \in Nat /\ at \in Nat /\ 1 <= at /\ at <= e /\ e + 1 \in 1..Len(body) + 1
        /\ at' = e + 1
    BY <1>1, <2>1, <2>2, <2>3 DEF SectionIs
  <2>5. /\ Section \in Seq(Line) /\ Section # <<>> /\ Len(Section) = e + 1 - at
        /\ \A n \in DOMAIN Section : Section[n] = body[at - 1 + n]
    BY <2>3 DEF SectionIs
  <2>6. \A p \in at..e : Kept(p)
    BY <1>1, <2>1, <2>2, <2>3, SmallSectionKept
  <2>7. Boundary(e + 1)
    <3>1. EndsSection(body, e) /\ e + 1 - 1 = e
      BY <2>3, <2>4 DEF SectionIs
    <3> QED BY <3>1 DEF Boundary
  <2>8. NothingLost'
    BY <2>1 DEF NothingLost
  <2>9. PICK ps : ps = parts'
    OBVIOUS
  <2>10. PICK c : c = current'
    OBVIOUS
  <2>11. CASE Overflows(Section)
    <3>1. ps = Append(parts, current) /\ c = Section /\ current # <<>>
      BY <1>7, <2>9, <2>10, <2>11 DEF Pack, Overflows
    <3>2. IsReport(ps, at) /\ ps # <<>>
      <4>1. Saved = Append(parts, current)
        BY <3>1 DEF Saved
      <4>2. Append(parts, current) # <<>>
        BY <1>d
      <4> QED BY <1>3, <2>1, <3>1, <4>1, <4>2
    <3>3. at = e + 1 - Len(c) /\ at \in 1..e + 1 /\ e + 1 - 1 = e
      BY <2>4, <2>5, <3>1
    <3>4. /\ \A n \in DOMAIN c : c[n] = body[at - 1 + n]
          /\ \A p \in at..e + 1 - 1 : Kept(p)
      BY <2>5, <2>6, <3>1, <3>3
    <3>5. Reading(e + 1, ps, c, at)
      <4>1. Boundary(at)
        BY <1>2, <2>1
      <4> QED BY <2>4, <2>7, <3>2, <3>3, <3>4, <4>1 DEF Reading
    <3>6. ReadInv'
      <4> DEFINE a == e + 1
                 q == at
      <4>1. at' = a /\ Reading(a, ps, c, q)
        BY <2>4, <3>5
      <4> HIDE DEF a, q
      <4>2. PICK r : r = q
        OBVIOUS
      <4> QED BY <1>b, <2>9, <2>10, <4>1, <4>2, ReadOn
    <3> QED BY <1>a, <1>c, <2>8, <3>6 DEF WholeInv
  <2>12. CASE ~Overflows(Section)
    <3>1. ps = parts /\ c = current \o Section
      BY <1>7, <2>9, <2>10, <2>12 DEF Pack
    <3>0. PICK q : q = From
      OBVIOUS
    <3> DEFINE k == Len(current)
    <3>2. /\ q \in Nat /\ 1 <= q /\ q <= at /\ k = at - q /\ k \in Nat /\ Boundary(q)
          /\ \A n \in DOMAIN current : current[n] = body[q - 1 + n]
          /\ \A p \in q..at - 1 : Kept(p)
          /\ IsReport(parts, q)
      BY <1>1, <1>2, <2>1, <2>4, <3>0
    <3>3. DOMAIN current = 1..k /\ DOMAIN Section = 1..e + 1 - at
      <4>1. DOMAIN current = 1..k /\ DOMAIN Section = 1..Len(Section)
        BY <1>1, <2>5
      <4> QED BY <2>5, <4>1, Zenon
    <3>4. /\ c \in Seq(Line) /\ Len(c) = k + (e + 1 - at)
          /\ DOMAIN c = 1..k + (e + 1 - at)
          /\ \A n \in 1..k : c[n] = current[n]
          /\ \A n \in 1..k + (e + 1 - at) : n > k => c[n] = Section[n - k]
      <4>1. Len(Section) = e + 1 - at /\ c = current \o Section
        BY <2>5, <3>1
      <4>2. /\ current \o Section \in Seq(Line)
            /\ Len(current \o Section) = Len(current) + Len(Section)
            /\ DOMAIN (current \o Section) = 1..Len(current) + Len(Section)
            /\ \A n \in 1..Len(current) : (current \o Section)[n] = current[n]
            /\ \A n \in 1..Len(current) + Len(Section) :
                 n > Len(current) => (current \o Section)[n] = Section[n - Len(current)]
        BY <1>1, <2>5, ConcatAt
      <4> QED BY <4>1, <4>2, Zenon
    <3> HIDE DEF k
    <3>5. q = e + 1 - Len(c) /\ q \in 1..e + 1 /\ Len(c) # 0
      BY <2>4, <3>2, <3>4
    <3>6. ASSUME NEW n \in DOMAIN c PROVE c[n] = body[q - 1 + n]
      <4>1. CASE n <= k
        <5>1. n \in DOMAIN current /\ c[n] = current[n]
          BY <3>2, <3>3, <3>4, <3>6, <4>1
        <5> QED BY <3>2, <5>1
      <4>2. CASE ~(n <= k)
        <5>0. n \in 1..k + (e + 1 - at) /\ n > k
          BY <3>2, <3>4, <3>6, <4>2
        <5>a. c[n] = Section[n - k]
          BY <3>4, <5>0, Zenon
        <5>1. n - k \in 1..e + 1 - at /\ at - 1 + (n - k) = q - 1 + n
          BY <2>4, <3>2, <5>0
        <5>2. Section[n - k] = body[at - 1 + (n - k)]
          BY <2>5, <3>3, <5>1, Zenon
        <5> QED BY <5>a, <5>1, <5>2
      <4> QED BY <4>1, <4>2
    <3>7. \A p \in q..e + 1 - 1 : Kept(p)
      <4> SUFFICES ASSUME NEW p \in q..e + 1 - 1 PROVE Kept(p)
        OBVIOUS
      <4>1. p \in q..at - 1 \/ p \in at..e
        BY <2>4, <3>2
      <4> QED BY <2>6, <3>2, <4>1
    <3>8. c # <<>>
      BY <3>4, <3>5
    <3>9. Reading(e + 1, ps, c, q)
      BY <2>4, <2>7, <3>1, <3>2, <3>5, <3>6, <3>7, <3>8 DEF Reading
    <3>10. ReadInv'
      <4> DEFINE a == e + 1
      <4>1. at' = a /\ Reading(a, ps, c, q)
        BY <2>4, <3>9
      <4> HIDE DEF a
      <4> QED BY <1>b, <2>9, <2>10, <4>1, ReadOn
    <3> QED BY <1>a, <1>c, <2>8, <3>10 DEF WholeInv
  <2> QED BY <2>11, <2>12
<1>8. CASE ReturnParts
  <2>1. /\ ~done /\ at > Len(body) /\ done'
        /\ parts' = IF Saved # <<>> THEN Saved ELSE <<TruncateSection(body)>>
    BY <1>8 DEF ReturnParts
  <2>2. at = Len(body) + 1 /\ Len(body) # 0
    BY <1>1, <1>2, <2>1
  <2>3. Saved # <<>>
    <3>1. current # <<>> \/ parts # <<>>
      BY <1>1, <1>2, <2>1, <2>2
    <3>2. Append(parts, current) # <<>>
      BY <1>d
    <3> QED BY <3>1, <3>2 DEF Saved
  <2>4. PICK ps : ps = parts'
    OBVIOUS
  <2>5. IsReport(ps, Len(body) + 1)
    BY <1>3, <2>1, <2>2, <2>3, <2>4
  <2>6. NothingLost'
    BY <1>b, <2>4, <2>5, KeptStays DEF NothingLost, IsReport
  <2>7. ReadInv'
    BY <2>1 DEF ReadInv
  <2> QED BY <1>a, <1>c, <2>6, <2>7 DEF WholeInv
<1>9. CASE UNCHANGED vars
  <2>1. body' = body /\ at' = at /\ current' = current /\ parts' = parts /\ done' = done
    BY <1>9 DEF vars
  <2>2. NothingLost'
    BY <2>1, KeptStays DEF WholeInv, NothingLost, IsReport
  <2>3. ReadInv'
    <3>1. CASE done
      BY <2>1, <3>1 DEF ReadInv
    <3>2. CASE ~done
      <4>1. PICK a, ps, c, q : a = at /\ ps = parts /\ c = current /\ q = From
        OBVIOUS
      <4>2. at' = a /\ parts' = ps /\ current' = c /\ Reading(a, ps, c, q)
        BY <2>1, <3>2, <4>1 DEF WholeInv, ReadInv
      <4> QED BY <2>1, <4>2, ReadOn
    <3> QED BY <3>1, <3>2
  <2> QED BY <1>a, <1>c, <2>2, <2>3 DEF WholeInv
<1> QED BY <1>5, <1>6, <1>7, <1>8, <1>9 DEF Next

LEMMA WholeInvariant == Spec => []WholeInv
BY WholeInit, WholeStep, PTL DEF Spec

\* Every line of every report reaches a comment, once and in order, but for the tails
\* of sections that no comment can hold.
THEOREM NothingIsLost == Spec => []NothingLost
<1>1. WholeInv => NothingLost
  BY DEF WholeInv
<1> QED BY <1>1, WholeInvariant, PTL

-----------------------------------------------------------------------------
(* Every part renders by itself, if the report does and quotes no markup: the *)
(* state of the renderer at a line of a part is that at the line in the report*)
(* because a part begins where nothing is open.                               *)

Fences(s, n) == {m \in 1..n - 1 : s[m].kind = "fence"}

LEMMA FencesFinite ==
  ASSUME NEW s, NEW n \in Nat
  PROVE  /\ IsFiniteSet(Fences(s, n)) /\ Cardinality(Fences(s, n)) \in Nat
         /\ Fences(s, n) \subseteq 1..n - 1
         /\ InCode(s, n) <=> Cardinality(Fences(s, n)) % 2 = 1
<1>1. IsFiniteSet(1..n - 1)
  BY FS_Interval
<1>2. Fences(s, n) \subseteq 1..n - 1
  BY DEF Fences
<1> QED BY <1>1, <1>2, FS_Subset, FS_CardinalityType DEF Fences, InCode

\* One line more.
LEMMA BlockStep ==
  ASSUME NEW s, NEW n \in Nat \ {0}
  PROVE  InBlock(s, n + 1) <=> s[n].kind = "open" \/ (InBlock(s, n) /\ s[n].kind # "close")
<1>0. n \in Nat /\ 1 <= n /\ n + 1 - 1 = n
  OBVIOUS
<1>1. ASSUME InBlock(s, n), s[n].kind # "close" PROVE InBlock(s, n + 1)
  <2>1. PICK m \in 1..n - 1 : s[m].kind = "open" /\ \A k \in m + 1..n - 1 : s[k].kind # "close"
    BY <1>1 DEF InBlock
  <2>2. m \in 1..n + 1 - 1
    OBVIOUS
  <2>3. \A k \in m + 1..n + 1 - 1 : s[k].kind # "close"
    <3> SUFFICES ASSUME NEW k \in m + 1..n + 1 - 1 PROVE s[k].kind # "close"
      OBVIOUS
    <3>1. k = n \/ k \in m + 1..n - 1
      BY <1>0
    <3> QED BY <1>1, <2>1, <3>1
  <2> QED BY <2>1, <2>2, <2>3 DEF InBlock
<1>2. ASSUME InBlock(s, n + 1), s[n].kind # "open" PROVE InBlock(s, n)
  <2>1. PICK m \in 1..n + 1 - 1 : s[m].kind = "open" /\ \A k \in m + 1..n + 1 - 1 : s[k].kind # "close"
    BY <1>2 DEF InBlock
  <2>2. m # n
    BY <1>2, <2>1
  <2>3. m \in 1..n - 1
    BY <1>0, <2>2
  <2>4. \A k \in m + 1..n - 1 : k \in m + 1..n + 1 - 1
    BY <1>0, <2>3
  <2> QED BY <2>1, <2>3, <2>4 DEF InBlock
<1>3. ASSUME InBlock(s, n + 1), s[n].kind = "close" PROVE FALSE
  <2>1. PICK m \in 1..n + 1 - 1 : s[m].kind = "open" /\ \A k \in m + 1..n + 1 - 1 : s[k].kind # "close"
    BY <1>3 DEF InBlock
  <2>2. m # n
    BY <1>3, <2>1
  <2>3. n \in m + 1..n + 1 - 1
    BY <1>0, <2>2
  <2> QED BY <1>3, <2>1, <2>3
<1>4. ASSUME s[n].kind = "open" PROVE InBlock(s, n + 1)
  <2>1. n \in 1..n + 1 - 1 /\ \A k \in n + 1..n + 1 - 1 : FALSE
    BY <1>0
  <2> QED BY <1>4, <2>1 DEF InBlock
<1>5. "open" # "close"
  OBVIOUS
<1> QED BY <1>1, <1>2, <1>3, <1>4, <1>5

LEMMA CodeStep ==
  ASSUME NEW s, NEW n \in Nat \ {0}
  PROVE  /\ s[n].kind # "fence" => (InCode(s, n + 1) <=> InCode(s, n))
         /\ s[n].kind = "fence" => (InCode(s, n + 1) <=> ~InCode(s, n))
<1>0. n \in Nat /\ 1 <= n /\ n + 1 \in Nat
  OBVIOUS
<1>1. CASE s[n].kind # "fence"
  <2>1. Fences(s, n + 1) = Fences(s, n)
    <3>1. \A m \in 1..n + 1 - 1 : m = n \/ m \in 1..n - 1
      BY <1>0
    <3>2. \A m \in 1..n - 1 : m \in 1..n + 1 - 1
      BY <1>0
    <3> QED BY <1>1, <3>1, <3>2 DEF Fences
  <2> QED BY <1>0, <1>1, <2>1, FencesFinite
<1>2. CASE s[n].kind = "fence"
  <2>1. Fences(s, n + 1) = Fences(s, n) \cup {n}
    <3>1. \A m \in 1..n + 1 - 1 : m = n \/ m \in 1..n - 1
      BY <1>0
    <3>2. \A m \in 1..n - 1 : m \in 1..n + 1 - 1
      BY <1>0
    <3>3. n \in 1..n + 1 - 1
      BY <1>0
    <3> QED BY <1>2, <3>1, <3>2, <3>3 DEF Fences
  <2>2. n \notin Fences(s, n) /\ IsFiniteSet(Fences(s, n)) /\ Cardinality(Fences(s, n)) \in Nat
    <3>1. ~(n \in 1..n - 1)
      BY <1>0
    <3> QED BY <1>0, <3>1, FencesFinite
  <2>3. Cardinality(Fences(s, n + 1)) = Cardinality(Fences(s, n)) + 1
    BY <2>1, <2>2, FS_AddElement
  <2>4. \A c \in Nat : (c + 1) % 2 = 1 <=> ~(c % 2 = 1)
    OBVIOUS
  <2> QED BY <1>0, <1>2, <2>2, <2>3, <2>4, FencesFinite
<1> QED BY <1>1, <1>2

\* Sequences that agree up to a line have the renderer in one state there.
LEMMA SameState ==
  ASSUME NEW s, NEW t, NEW n \in Nat, \A m \in 1..n - 1 : s[m] = t[m]
  PROVE  (InBlock(s, n) <=> InBlock(t, n)) /\ (InCode(s, n) <=> InCode(t, n))
<1>1. Fences(s, n) = Fences(t, n)
  BY DEF Fences
<1>2. ASSUME NEW m \in 1..n - 1, NEW k \in m + 1..n - 1 PROVE k \in 1..n - 1
  OBVIOUS
<1>3. InBlock(s, n) <=> InBlock(t, n)
  BY <1>2 DEF InBlock
<1> QED BY <1>1, <1>3, FencesFinite

\* Code stands in details blocks only.
LEMMA CodeInBlock ==
  ASSUME NEW s, NEW k \in Nat, \A n \in 1..k : Renders(s, n)
  PROVE  \A n \in 1..k + 1 : InCode(s, n) => InBlock(s, n)
<1> DEFINE Bad == {n \in 1..k + 1 : InCode(s, n) /\ ~InBlock(s, n)}
<1> SUFFICES ASSUME Bad # {} PROVE FALSE
  OBVIOUS
<1>1. Bad \subseteq Nat
  OBVIOUS
<1>2. PICK n \in Bad : \A q \in Bad : ~(<<q, n>> \in OpToRel(<, Nat))
  BY <1>1, NatLessThanWellFounded, WFMin
<1>3. n \in 1..k + 1 /\ InCode(s, n) /\ ~InBlock(s, n)
  BY <1>2
<1>4. \A q \in 1..n - 1 : InCode(s, q) => InBlock(s, q)
  <2> SUFFICES ASSUME NEW q \in 1..n - 1, InCode(s, q), ~InBlock(s, q) PROVE FALSE
    OBVIOUS
  <2>1. q \in 1..k + 1 /\ q < n /\ q \in Nat /\ n \in Nat
    BY <1>3
  <2>2. q \in Bad
    BY <2>1
  <2> QED BY <1>2, <2>1, <2>2 DEF OpToRel
<1> HIDE DEF Bad
<1>5. CASE n = 1
  <2>1. Fences(s, 1) = {}
    BY DEF Fences
  <2>2. Cardinality(Fences(s, 1)) = 0 /\ 0 % 2 = 0
    BY <2>1, FS_EmptySet
  <2> QED BY <1>3, <1>5, <2>2, FencesFinite
<1>6. CASE n # 1
  <2> DEFINE p == n - 1
  <2>1. p \in Nat \ {0} /\ p \in 1..k /\ p \in 1..n - 1 /\ n = p + 1
    BY <1>3, <1>6
  <2> HIDE DEF p
  <2>2. Renders(s, p)
    BY <2>1
  <2>3. InBlock(s, p) /\ s[p].kind # "close"
    <3>1. CASE s[p].kind = "fence"
      BY <2>2, <3>1 DEF Renders
    <3>2. CASE s[p].kind # "fence"
      <4>1. InCode(s, p)
        BY <1>3, <2>1, <3>2, CodeStep
      <4> QED BY <1>4, <2>1, <2>2, <4>1 DEF Renders
    <3> QED BY <3>1, <3>2
  <2> QED BY <1>3, <2>1, <2>3, BlockStep
<1> QED BY <1>5, <1>6

\* A sequence that repeats a stretch of another, from a line where nothing is open,
\* has the renderer in the same states.
Repeats(s, b, o, k) == \A n \in 1..k : s[n] = b[o + n]
StateIs(s, b, o, n) == /\ InBlock(s, n) <=> InBlock(b, o + n)
                       /\ InCode(s, n) <=> InCode(b, o + n)

LEMMA Shifted ==
  ASSUME NEW s, NEW b, NEW o \in Nat, NEW k \in Nat,
         Repeats(s, b, o, k), ~InBlock(b, o + 1), ~InCode(b, o + 1)
  PROVE  \A n \in 1..k + 1 : StateIs(s, b, o, n)
<1> DEFINE Same(n) == StateIs(s, b, o, n)
           Bad == {n \in 1..k + 1 : ~Same(n)}
<1> SUFFICES ASSUME Bad # {} PROVE FALSE
  OBVIOUS
<1>1. Bad \subseteq Nat
  OBVIOUS
<1>2. PICK n \in Bad : \A q \in Bad : ~(<<q, n>> \in OpToRel(<, Nat))
  BY <1>1, NatLessThanWellFounded, WFMin
<1>3. n \in 1..k + 1 /\ ~Same(n)
  BY <1>2
<1>4. \A q \in 1..n - 1 : Same(q)
  <2> SUFFICES ASSUME NEW q \in 1..n - 1, ~Same(q) PROVE FALSE
    OBVIOUS
  <2>1. q \in 1..k + 1 /\ q < n /\ q \in Nat /\ n \in Nat
    BY <1>3
  <2>2. q \in Bad
    BY <2>1
  <2> QED BY <1>2, <2>1, <2>2 DEF OpToRel
<1> HIDE DEF Bad
<1>5. CASE n = 1
  <2>1. Fences(s, 1) = {} /\ ~InBlock(s, 1)
    BY DEF Fences, InBlock
  <2>2. Cardinality(Fences(s, 1)) = 0 /\ 0 % 2 = 0
    BY <2>1, FS_EmptySet
  <2>3. ~InCode(s, 1)
    BY <2>2, FencesFinite
  <2> QED BY <1>3, <1>5, <2>1, <2>3 DEF StateIs
<1>6. CASE n # 1
  <2> DEFINE p == n - 1
             r == o + p
  <2>1. p \in Nat \ {0} /\ p \in 1..k /\ p \in 1..n - 1 /\ n = p + 1
        /\ r \in Nat \ {0} /\ r = o + p /\ o + n = r + 1
    BY <1>3, <1>6
  <2> HIDE DEF p, r
  <2>2. Same(p) /\ s[p] = b[r]
    BY <1>4, <2>1 DEF Repeats
  <2>3. InBlock(s, p + 1) <=> InBlock(b, r + 1)
    BY <2>1, <2>2, BlockStep DEF StateIs
  <2>4. InCode(s, p + 1) <=> InCode(b, r + 1)
    BY <2>1, <2>2, CodeStep DEF StateIs
  <2> QED BY <1>3, <2>1, <2>3, <2>4 DEF StateIs
<1> QED BY <1>5, <1>6

\* The report renders, and quotes neither a code fence nor a closing tag.
PlainBody ==
  /\ \A n \in DOMAIN body : Renders(body, n) /\ body[n].kind \notin {"tick", "shut"}
  /\ ~InBlock(body, Len(body) + 1)

\* Nothing is open where a section begins.
LEMMA NothingOpen ==
  ASSUME body \in Seq(Line), PlainBody, NEW a \in 1..Len(body) + 1, Boundary(a)
  PROVE  ~InBlock(body, a) /\ ~InCode(body, a)
<1>1. Len(body) \in Nat /\ DOMAIN body = 1..Len(body)
  OBVIOUS
<1>2. InCode(body, a) => InBlock(body, a)
  <2>1. \A n \in 1..Len(body) : Renders(body, n)
    BY <1>1 DEF PlainBody
  <2> QED BY <1>1, <2>1, CodeInBlock
<1>3. CASE a = 1
  BY <1>2, <1>3 DEF InBlock
<1>4. CASE a # 1
  <2> DEFINE p == a - 1
  <2>1. p \in Nat \ {0} /\ p \in 1..Len(body) /\ a = p + 1
    BY <1>1, <1>4
  <2>2. EndsSection(body, p)
    BY <1>4 DEF Boundary
  <2> HIDE DEF p
  <2>3. CASE p = Len(body)
    BY <1>2, <2>1, <2>3 DEF PlainBody
  <2>4. CASE p # Len(body)
    <3>1. body[p].kind = "close"
      BY <1>1, <2>1, <2>2, <2>4 DEF EndsSection, PlainBody
    <3>2. ~InBlock(body, p + 1)
      BY <2>1, <3>1, BlockStep
    <3> QED BY <1>2, <2>1, <3>2
  <2> QED BY <2>3, <2>4
<1> QED BY <1>3, <1>4

\* Lines of the report from one beginning of a section to another render by themselves.
LEMMA StretchRenders ==
  ASSUME body \in Seq(Line), PlainBody, NEW s \in Seq(Line),
         NEW a \in 1..Len(body) + 1, NEW b \in a..Len(body) + 1, Boundary(a), Boundary(b),
         Len(s) = b - a, \A n \in DOMAIN s : s[n] = body[a - 1 + n]
  PROVE  WellFormed(s)
<1> DEFINE o == a - 1
           k == b - a
<1>1. /\ o \in Nat /\ k \in Nat /\ o + 1 = a /\ o + (k + 1) = b /\ Len(body) \in Nat
      /\ DOMAIN body = 1..Len(body) /\ b \in 1..Len(body) + 1
  OBVIOUS
<1>2. DOMAIN s = 1..k /\ \A n \in 1..k : s[n] = body[o + n] /\ o + n \in 1..Len(body)
  <2>1. DOMAIN s = 1..Len(s)
    OBVIOUS
  <2>2. DOMAIN s = 1..k
    BY <2>1
  <2>3. \A n \in 1..k : o + n \in 1..Len(body)
    BY <1>1
  <2> QED BY <2>2, <2>3
<1>3. Len(s) = k
  OBVIOUS
<1> HIDE DEF o, k
<1>4. ~InBlock(body, o + 1) /\ ~InCode(body, o + 1)
  BY <1>1, NothingOpen
<1>r. Repeats(s, body, o, k)
  BY <1>2 DEF Repeats
<1>5. \A n \in 1..k + 1 : StateIs(s, body, o, n)
  BY <1>1, <1>r, <1>4, Shifted
<1>6. ASSUME NEW n \in DOMAIN s PROVE Renders(s, n)
  <2>1. n \in 1..k /\ n \in 1..k + 1 /\ o + n \in DOMAIN body /\ s[n] = body[o + n]
    BY <1>1, <1>2, <1>6
  <2>2. Renders(body, o + n)
    BY <2>1 DEF PlainBody
  <2> QED BY <1>5, <2>1, <2>2 DEF Renders, StateIs
<1>7. ~InBlock(s, k + 1)
  <2>1. k + 1 \in 1..k + 1
    BY <1>1
  <2>2. ~InBlock(body, b)
    BY <1>1, NothingOpen
  <2> QED BY <1>1, <1>5, <2>1, <2>2 DEF StateIs
<1> QED BY <1>3, <1>6, <1>7 DEF WellFormed

\* Where nothing closes a block, the one that opened last is open.
LEMMA OpenBlock ==
  ASSUME NEW s, NEW k \in Nat, \A n \in 1..k : s[n].kind # "close"
  PROVE  InBlock(s, k + 1) <=> \E m \in 1..k : s[m].kind = "open"
<1> DEFINE q == k + 1
<1>1. 1..q - 1 = 1..k /\ \A m \in 1..k : \A n \in m + 1..q - 1 : n \in 1..k
  OBVIOUS
<1> HIDE DEF q
<1>2. InBlock(s, q) <=> \E m \in 1..k : s[m].kind = "open"
  BY <1>1 DEF InBlock
<1> QED BY <1>2 DEF q

\* A truncated section renders by itself: truncateSection closes what its cut leaves open.
LEMMA TruncatedRenders ==
  ASSUME body \in Seq(Line), PlainBody, at \in 1..Len(body), Boundary(at),
         NEW e \in at..Len(body), SectionIs(e), Len(Section) > Limit
  PROVE  WellFormed(TruncateSection(Section))
<1> DEFINE L == Limit - Reserve
           o == at - 1
           kept == SubSeq(Section, 1, L)
           suf == Suffix(kept)
           t == TruncateSection(Section)
<1>1. /\ Limit \in Nat /\ L \in Nat /\ L <= Limit /\ Len(body) \in Nat /\ DOMAIN body = 1..Len(body)
      /\ o \in Nat /\ o + 1 = at /\ at \in 1..Len(body) + 1 /\ e \in Nat /\ at <= e /\ e <= Len(body)
  BY SplitAssumption
<1>2. /\ Section \in Seq(Line) /\ Len(Section) = e + 1 - at
      /\ \A n \in DOMAIN Section : Section[n] = body[at - 1 + n]
      /\ \A q \in at..e - 1 : ~EndsSection(body, q)
  BY DEF SectionIs
<1>d. DOMAIN Section = 1..e + 1 - at
  <2>1. DOMAIN Section = 1..Len(Section)
    BY <1>2
  <2> QED BY <1>2, <2>1, Zenon
<1>3. L < e + 1 - at
  BY <1>1, <1>2, SplitAssumption
<1>4. /\ kept \in Seq(Line) /\ Len(kept) = L /\ DOMAIN kept = 1..L
      /\ \A n \in 1..L : kept[n] = Section[n]
  BY <1>1, <1>2, <1>3, SMTT(30)
<1>5. suf \in Seq(Line)
  <2> HIDE DEF kept
  <2> QED BY SuffixFits
<1>6. t = kept \o suf
  <2>1. ~(Len(Section) <= Limit)
    BY <1>1, <1>2
  <2> QED BY <2>1 DEF TruncateSection
<1>s. suf = Suffix(kept)
  OBVIOUS
<1> HIDE DEF kept, suf, t, L, o
<1>7. ASSUME NEW n \in 1..L
      PROVE  /\ kept[n] = body[o + n] /\ Renders(body, o + n)
             /\ kept[n].kind \notin {"close", "tick", "shut"}
  <2>1. n \in 1..e + 1 - at /\ o + n \in at..e - 1 /\ o + n \in 1..Len(body) /\ at - 1 + n = o + n
        /\ o + n # Len(body)
    BY <1>1, <1>3 DEF o
  <2>2. kept[n] = body[o + n]
    BY <1>2, <1>d, <1>4, <2>1, Zenon
  <2>3. ~EndsSection(body, o + n)
    BY <1>2, <2>1
  <2>4. Renders(body, o + n) /\ body[o + n].kind \notin {"tick", "shut"}
    BY <1>1, <2>1 DEF PlainBody
  <2> QED BY <2>2, <2>3, <2>4 DEF EndsSection
<1>8. \A n \in 1..L + 1 : StateIs(kept, body, o, n)
  <2>1. Repeats(kept, body, o, L)
    BY <1>7 DEF Repeats
  <2>2. ~InBlock(body, o + 1) /\ ~InCode(body, o + 1)
    BY <1>1, NothingOpen
  <2> QED BY <1>1, <2>1, <2>2, Shifted
<1>9. \A n \in 1..L : Renders(kept, n)
  <2> SUFFICES ASSUME NEW n \in 1..L PROVE Renders(kept, n)
    OBVIOUS
  <2>1. n \in 1..L + 1
    BY <1>1
  <2> QED BY <1>7, <1>8, <2>1 DEF Renders, StateIs
<1>10. InCodeBlock(kept) <=> InCode(kept, L + 1)
  <2>1. {n \in DOMAIN kept : kept[n].kind \in {"fence", "tick"}} = Fences(kept, L + 1)
    <3>1. 1..L + 1 - 1 = 1..L
      BY <1>1
    <3> QED BY <1>4, <1>7, <3>1 DEF Fences
  <2>2. L + 1 \in Nat
    BY <1>1
  <2> QED BY <2>1, <2>2, FencesFinite DEF InCodeBlock, Occurrences
<1>11. InDetails(kept) <=> InBlock(kept, L + 1)
  <2> DEFINE opens  == {n \in DOMAIN kept : kept[n].kind \in {"open"}}
             closes == {n \in DOMAIN kept : kept[n].kind \in {"close", "shut"}}
  <2>1. closes = {}
    BY <1>4, <1>7
  <2>2. IsFiniteSet(opens)
    <3>1. IsFiniteSet(1..L)
      <4>1. \A k \in Nat : IsFiniteSet(1..k)
        BY FS_Interval
      <4> QED BY <1>1, <4>1
    <3>2. opens \subseteq 1..L
      BY <1>4
    <3> QED BY <3>1, <3>2, FS_Subset
  <2>3. InDetails(kept) <=> Cardinality(opens) > Cardinality(closes)
    BY DEF InDetails, Occurrences
  <2>4. Cardinality(closes) = 0
    BY <2>1, FS_EmptySet
  <2>5. Cardinality(opens) \in Nat /\ (Cardinality(opens) = 0 <=> opens = {})
    BY <2>2, FS_CardinalityType, FS_EmptySet
  <2>6. InDetails(kept) <=> opens # {}
    <3> HIDE DEF opens, closes
    <3> QED BY <2>3, <2>4, <2>5
  <2>7. InBlock(kept, L + 1) <=> \E m \in 1..L : kept[m].kind = "open"
    <3>1. \A n \in 1..L : kept[n].kind # "close"
      BY <1>7
    <3> HIDE DEF opens, closes
    <3> QED BY <1>1, <3>1, OpenBlock
  <2>8. opens # {} <=> \E m \in 1..L : kept[m].kind = "open"
    BY <1>4
  <2> QED BY <2>6, <2>7, <2>8
<1>12. InCode(kept, L + 1) => InBlock(kept, L + 1)
  <2>1. L + 1 \in 1..L + 1
    BY <1>1
  <2> QED BY <1>1, <1>9, <2>1, CodeInBlock
<1>13. /\ DOMAIN t = 1..L + Len(suf) /\ Len(t) = L + Len(suf) /\ Len(suf) \in Nat
       /\ \A n \in 1..L : t[n] = kept[n]
       /\ \A n \in 1..L + Len(suf) : n > L => t[n] = suf[n - L]
  <2>1. /\ DOMAIN (kept \o suf) = 1..Len(kept) + Len(suf)
        /\ Len(kept \o suf) = Len(kept) + Len(suf) /\ Len(suf) \in Nat
        /\ \A n \in 1..Len(kept) : (kept \o suf)[n] = kept[n]
        /\ \A n \in 1..Len(kept) + Len(suf) : n > Len(kept) => (kept \o suf)[n] = suf[n - Len(kept)]
    <3>1. kept \in Seq(Line) /\ suf \in Seq(Line)
      BY <1>4, <1>5
    <3>2. Len(suf) \in Nat
      BY <3>1
    <3> QED BY <3>1, <3>2, ConcatAt
  <2> QED BY <1>4, <1>6, <2>1, Zenon
<1>e. ASSUME NEW m \in 1..Len(suf) PROVE t[L + m] = suf[m]
  <2> DEFINE n == L + m
  <2>1. n \in 1..L + Len(suf) /\ n > L /\ n - L = m
    BY <1>1, <1>13
  <2> HIDE DEF n
  <2>2. t[n] = suf[n - L]
    BY <1>13, <2>1
  <2> QED BY <2>1, <2>2 DEF n
<1>14. ASSUME NEW n \in 1..L + 1
       PROVE  (InBlock(t, n) <=> InBlock(kept, n)) /\ (InCode(t, n) <=> InCode(kept, n))
  <2>1. n \in Nat /\ \A m \in 1..n - 1 : t[m] = kept[m]
    BY <1>1, <1>13
  <2> QED BY <2>1, SameState
<1>15. ASSUME NEW n \in 1..L PROVE Renders(t, n)
  <2>1. n \in 1..L + 1 /\ t[n] = kept[n] /\ Renders(kept, n)
    BY <1>1, <1>9, <1>13
  <2> QED BY <1>14, <2>1 DEF Renders
<1> DEFINE T == [pos |-> 0, kind |-> "text"]
           F == [pos |-> 0, kind |-> "fence"]
           C == [pos |-> 0, kind |-> "close"]
<1>16. /\ Added("text") = <<T>> /\ Added("fence") = <<F>> /\ Added("close") = <<C>>
       /\ T.kind = "text" /\ F.kind = "fence" /\ C.kind = "close"
       /\ T \in Line /\ F \in Line /\ C \in Line
  BY DEF Added, Line, Kinds
<1> HIDE DEF T, F, C
<1>17. /\ L + 1 \in 1..L + 1 /\ L + 1 \in Nat \ {0} /\ L + 2 \in Nat \ {0} /\ L + 3 \in Nat \ {0}
       /\ L + 1 - L = 1 /\ L + 2 - L = 2 /\ L + 3 - L = 3 /\ L + 1 > L /\ L + 2 > L /\ L + 3 > L
       /\ L + 1 + 1 = L + 2 /\ L + 2 + 1 = L + 3 /\ L + 3 + 1 = L + 4
  BY <1>1
<1>18. CASE InBlock(kept, L + 1) /\ InCode(kept, L + 1)
  <2>1. suf = <<T>> \o <<F>> \o <<C>>
    BY <1>s, <1>10, <1>11, <1>16, <1>18, Zenon DEF Suffix
  <2>2. Len(suf) = 3 /\ suf[1] = T /\ suf[2] = F /\ suf[3] = C
    <3> DEFINE two == <<T>> \o <<F>>
    <3>1. <<T>> \in Seq(Line) /\ <<F>> \in Seq(Line) /\ <<C>> \in Seq(Line)
      BY <1>16
    <3>2. two \in Seq(Line) /\ Len(two) = 2 /\ two[1] = T /\ two[2] = F
      BY <3>1
    <3> HIDE DEF two
    <3>c. <<C>> \in Seq(Line) /\ two \in Seq(Line) /\ Len(two) = 2
      BY <3>1, <3>2
    <3>6. /\ Len(two \o <<C>>) = Len(two) + Len(<<C>>)
          /\ \A n \in 1..Len(two) : (two \o <<C>>)[n] = two[n]
          /\ \A n \in 1..Len(two) + Len(<<C>>) : n > Len(two) => (two \o <<C>>)[n] = <<C>>[n - Len(two)]
      BY <3>c, ConcatAt
    <3>3. /\ Len(two \o <<C>>) = 2 + Len(<<C>>)
          /\ \A n \in 1..2 : (two \o <<C>>)[n] = two[n]
          /\ \A n \in 1..2 + Len(<<C>>) : n > 2 => (two \o <<C>>)[n] = <<C>>[n - 2]
      BY <3>c, <3>6, Zenon
    <3>5. Len(<<C>>) = 1 /\ <<C>>[1] = C /\ 3 - 2 = 1 /\ 3 \in 1..2 + 1 /\ 3 > 2 /\ 1 \in 1..2 /\ 2 \in 1..2
      OBVIOUS
    <3>4. Len(two \o <<C>>) = 3 /\ (two \o <<C>>)[1] = T /\ (two \o <<C>>)[2] = F /\ (two \o <<C>>)[3] = C
      BY <3>2, <3>3, <3>5
    <3> QED BY <2>1, <3>4 DEF two
  <2>3. /\ \A n \in DOMAIN t : n \in 1..L \/ n = L + 1 \/ n = L + 2 \/ n = L + 3
        /\ L + 1 \in 1..L + Len(suf) /\ L + 2 \in 1..L + Len(suf) /\ L + 3 \in 1..L + Len(suf)
        /\ Len(t) + 1 = L + 4
    BY <1>1, <1>13, <2>2
  <2>4. t[L + 1] = T /\ t[L + 2] = F /\ t[L + 3] = C
    <3>1. \A m \in 1..Len(suf) : t[L + m] = suf[m]
      BY <1>e
    <3> QED BY <2>2, <3>1
  <2>5. InBlock(t, L + 1) /\ InCode(t, L + 1)
    BY <1>14, <1>17, <1>18
  <2>6. InBlock(t, L + 2) /\ InCode(t, L + 2)
    BY <1>16, <1>17, <2>4, <2>5, BlockStep, CodeStep
  <2>7. InBlock(t, L + 3) /\ ~InCode(t, L + 3)
    BY <1>16, <1>17, <2>4, <2>6, BlockStep, CodeStep
  <2>8. ~InBlock(t, L + 4)
    BY <1>16, <1>17, <2>4, BlockStep
  <2>9. Renders(t, L + 1) /\ Renders(t, L + 2) /\ Renders(t, L + 3)
    BY <1>16, <2>4, <2>6, <2>7 DEF Renders
  <2> QED BY <1>15, <2>3, <2>8, <2>9 DEF WellFormed, t
<1>19. CASE InBlock(kept, L + 1) /\ ~InCode(kept, L + 1)
  <2>1. suf = <<T>> \o <<>> \o <<C>>
    BY <1>s, <1>10, <1>11, <1>16, <1>19, Zenon DEF Suffix
  <2>2. Len(suf) = 2 /\ suf[1] = T /\ suf[2] = C
    BY <2>1
  <2>a. DOMAIN t = 1..L + 2 /\ Len(t) = L + 2
    BY <1>13, <2>2, Zenon
  <2>3. /\ \A n \in DOMAIN t : n \in 1..L \/ n = L + 1 \/ n = L + 2
        /\ Len(t) + 1 = L + 3
    BY <1>1, <2>a
  <2>4. t[L + 1] = T /\ t[L + 2] = C
    <3>1. \A m \in 1..Len(suf) : t[L + m] = suf[m]
      BY <1>e
    <3> QED BY <2>2, <3>1
  <2>5. InBlock(t, L + 1) /\ ~InCode(t, L + 1)
    BY <1>14, <1>17, <1>19
  <2>6. InBlock(t, L + 2) /\ ~InCode(t, L + 2)
    BY <1>16, <1>17, <2>4, <2>5, BlockStep, CodeStep
  <2>7. ~InBlock(t, L + 3)
    BY <1>16, <1>17, <2>4, BlockStep
  <2>8. Renders(t, L + 1) /\ Renders(t, L + 2)
    BY <1>16, <2>4, <2>6 DEF Renders
  <2> QED BY <1>15, <2>3, <2>7, <2>8 DEF WellFormed, t
<1>20. CASE ~InBlock(kept, L + 1)
  <2>1. suf = <<T>> \o <<>> \o <<>>
    BY <1>s, <1>10, <1>11, <1>12, <1>16, <1>20, Zenon DEF Suffix
  <2>2. Len(suf) = 1 /\ suf[1] = T
    BY <2>1
  <2>3. /\ \A n \in DOMAIN t : n \in 1..L \/ n = L + 1
        /\ L + 1 \in 1..L + Len(suf) /\ Len(t) + 1 = L + 2
    BY <1>1, <1>13, <2>2
  <2>4. t[L + 1] = T
    <3>1. \A m \in 1..Len(suf) : t[L + m] = suf[m]
      BY <1>e
    <3> QED BY <2>2, <3>1
  <2>5. ~InBlock(t, L + 1)
    BY <1>14, <1>17, <1>20
  <2>6. ~InBlock(t, L + 2)
    BY <1>16, <1>17, <2>4, <2>5, BlockStep
  <2>7. Renders(t, L + 1)
    BY <1>16, <2>4 DEF Renders
  <2> QED BY <1>15, <2>3, <2>6, <2>7 DEF WellFormed, t
<1> QED BY <1>12, <1>18, <1>19, <1>20

LEMMA AppendedAre ==
  ASSUME NEW S, NEW ps \in Seq(S), NEW s \in S
  PROVE  \A i \in DOMAIN Append(ps, s) :
           Append(ps, s)[i] = s \/ (i \in DOMAIN ps /\ Append(ps, s)[i] = ps[i])
OBVIOUS

ShapeInv == PlainBody /\ PartsWellFormed

\* What is saved renders.
LEMMA SavedRenders ==
  ASSUME WholeInv, ShapeInv, ~done
  PROVE  \A i \in DOMAIN Saved : WellFormed(Saved[i])
<1>1. /\ body \in Seq(Line) /\ current \in Seq(Line) /\ parts \in Seq(Seq(Line))
      /\ at \in 1..Len(body) + 1 /\ Boundary(at) /\ From \in 1..at /\ Boundary(From)
      /\ From = at - Len(current) /\ Len(current) \in Nat /\ Len(body) \in Nat
      /\ \A n \in DOMAIN current : current[n] = body[From - 1 + n]
      /\ PlainBody /\ \A i \in DOMAIN parts : WellFormed(parts[i])
  BY DEF WholeInv, SplitInv, TypeOK, ReadInv, Reading, ShapeInv, PartsWellFormed
<1>2. WellFormed(current)
  <2>1. /\ From \in 1..Len(body) + 1 /\ at \in From..Len(body) + 1 /\ Len(current) = at - From
    BY <1>1
  <2> QED BY <1>1, <2>1, StretchRenders
<1>3. CASE current = <<>>
  BY <1>1, <1>3 DEF Saved
<1>4. CASE current # <<>>
  <2>1. Saved = Append(parts, current)
    BY <1>4 DEF Saved
  <2>2. \A i \in DOMAIN Append(parts, current) :
           Append(parts, current)[i] = current \/ (i \in DOMAIN parts /\ Append(parts, current)[i] = parts[i])
    <3>1. parts \in Seq(Seq(Line)) /\ current \in Seq(Line)
      BY <1>1
    <3> QED BY <3>1, AppendedAre
  <2>3. \A i \in DOMAIN Append(parts, current) : WellFormed(Append(parts, current)[i])
    BY <1>1, <1>2, <2>2
  <2> QED BY <2>1, <2>3
<1> QED BY <1>3, <1>4

LEMMA ShapeStep == WholeInv /\ ShapeInv /\ [Next]_vars => ShapeInv'
<1> SUFFICES ASSUME WholeInv, ShapeInv, [Next]_vars PROVE ShapeInv'
  OBVIOUS
<1>1. /\ body \in Seq(Line) /\ body # <<>> /\ Len(body) \in Nat /\ PlainBody
      /\ \A i \in DOMAIN parts : WellFormed(parts[i])
      /\ parts \in Seq(Seq(Line)) /\ current \in Seq(Line)
  BY DEF WholeInv, SplitInv, TypeOK, ShapeInv, PartsWellFormed
<1>2. body' = body
  BY DEF Next, vars, ReturnWhole, Truncate, Pack, ReturnParts
<1>3. PlainBody'
  BY <1>1, <1>2 DEF PlainBody
<1>4. PICK ps : ps = parts'
  OBVIOUS
<1> SUFFICES \A i \in DOMAIN ps : WellFormed(ps[i])
  BY <1>3, <1>4 DEF ShapeInv, PartsWellFormed
<1>5. ~done => /\ \A i \in DOMAIN Saved : WellFormed(Saved[i])
               /\ Saved \in Seq(Seq(Line))
  <2>1. ~done => Saved \in Seq(Seq(Line) \ {<<>>})
    BY SavedFits DEF WholeInv, SplitInv
  <2> QED BY <2>1, SavedRenders
<1>6. CASE ReturnWhole
  <2>1. ps = <<body>>
    BY <1>4, <1>6 DEF ReturnWhole
  <2>2. WellFormed(body)
    BY <1>1 DEF WellFormed, PlainBody
  <2> QED BY <2>1, <2>2
<1>7. CASE Truncate
  <2>1. /\ ~done /\ at \in 1..Len(body) /\ Boundary(at) /\ Len(Section) > Limit
        /\ ps = Append(Saved, TruncateSection(Section))
    <3>1. /\ ~done /\ at <= Len(body) /\ Len(Section) > Limit
          /\ ps = Append(Saved, TruncateSection(Section))
      BY <1>4, <1>7 DEF Truncate, InLoop
    <3>2. at \in 1..Len(body) + 1 /\ Boundary(at)
      BY <3>1 DEF WholeInv, ReadInv, Reading
    <3> QED BY <1>1, <3>1, <3>2
  <2>2. PICK e \in at..Len(body) : SectionIs(e)
    BY <1>1, <2>1, SectionFound
  <2> DEFINE t == TruncateSection(Section)
             sv == Saved
  <2>3. WellFormed(t)
    BY <1>1, <2>1, <2>2, TruncatedRenders
  <2>4. sv \in Seq(Seq(Line)) /\ (\A i \in DOMAIN sv : WellFormed(sv[i])) /\ ps = Append(sv, t)
    BY <1>5, <2>1
  <2> HIDE DEF t, sv
  <2>5. \A i \in DOMAIN Append(sv, t) : Append(sv, t)[i] = t \/ (i \in DOMAIN sv /\ Append(sv, t)[i] = sv[i])
    <3>1. sv \in Seq(Seq(Line)) /\ t \in Seq(Line)
      <4>1. Section \in Seq(Line) /\ Section # <<>>
        BY <2>2 DEF SectionIs
      <4>2. t \in Seq(Line)
        BY <4>1, TruncationFits DEF t
      <4> QED BY <2>4, <4>2
    <3> QED BY <3>1, AppendedAre
  <2> QED BY <2>3, <2>4, <2>5
<1>8. CASE Pack
  <2>1. ~done /\ (ps = parts \/ (ps = Append(parts, current) /\ current # <<>>))
    BY <1>4, <1>8 DEF Pack, InLoop, Overflows
  <2>2. ps = parts \/ ps = Saved
    BY <2>1 DEF Saved
  <2> QED BY <1>1, <1>5, <2>1, <2>2
<1>9. CASE ReturnParts
  <2>1. /\ ~done /\ at > Len(body)
        /\ ps = IF Saved # <<>> THEN Saved ELSE <<TruncateSection(body)>>
    BY <1>4, <1>9 DEF ReturnParts
  <2>2. Saved # <<>>
    <3>1. at # 1
      <4>1. Len(body) # 0
        BY <1>1
      <4> QED BY <1>1, <2>1, <4>1
    <3>2. current # <<>> \/ parts # <<>>
      BY <2>1, <3>1 DEF WholeInv, ReadInv, Reading
    <3>3. Append(parts, current) # <<>>
      <4>1. Len(Append(parts, current)) = Len(parts) + 1 /\ Len(parts) \in Nat
        BY <1>1
      <4>2. Len(<<>>) = 0
        OBVIOUS
      <4> QED BY <4>1, <4>2
    <3> QED BY <3>2, <3>3 DEF Saved
  <2> QED BY <1>5, <2>1, <2>2
<1>10. CASE UNCHANGED vars
  BY <1>1, <1>4, <1>10 DEF vars
<1> QED BY <1>6, <1>7, <1>8, <1>9, <1>10 DEF Next

LEMMA ShapeInit ==
  ASSUME PlainReports(Bodies)
  PROVE  Init => ShapeInv
<1> SUFFICES ASSUME Init PROVE ShapeInv
  OBVIOUS
<1>1. PICK kinds \in Bodies : body = Lines(kinds)
  BY DEF Init
<1>2. kinds \in Seq(Kinds)
  BY SplitAssumption
<1>3. /\ DOMAIN body = 1..Len(kinds) /\ DOMAIN kinds = 1..Len(kinds)
      /\ \A n \in 1..Len(kinds) : body[n].kind = kinds[n]
  BY <1>1, <1>2 DEF Lines
<1>4. WellFormed(body) /\ \A n \in DOMAIN kinds : kinds[n] \notin {"tick", "shut"}
  BY <1>1 DEF PlainReports
<1>5. PlainBody
  BY <1>3, <1>4 DEF PlainBody, WellFormed
<1>6. DOMAIN parts = {}
  BY DEF Init
<1> QED BY <1>5, <1>6 DEF ShapeInv, PartsWellFormed

\* Every comment renders by itself, code and details blocks closed at its end, if the
\* report does and no manifest quotes the markup that splitComment looks for.
THEOREM PartsRender ==
  ASSUME PlainReports(Bodies)
  PROVE  Spec => []PartsWellFormed
<1>1. Init => WholeInv /\ ShapeInv
  BY WholeInit, ShapeInit
<1>2. WholeInv /\ ShapeInv /\ [Next]_vars => (WholeInv /\ ShapeInv)'
  BY WholeStep, ShapeStep
<1>3. WholeInv /\ ShapeInv => PartsWellFormed
  BY DEF ShapeInv
<1> QED BY <1>1, <1>2, <1>3, PTL DEF Spec
=============================================================================
