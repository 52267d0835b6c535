-------------------------- MODULE DiffEngineProofs --------------------------
(* Proofs about UnifiedDiff and DiffEngine, for texts of any length, documents *)
(* in any number and any context: a diff is a faithful and tight account of    *)
(* both texts, the patch it prints applies, and the comparison reports exactly *)
(* the documents that changed, whatever order the maps are visited in.         *)
EXTENDS DiffEngine, SequenceTheorems, FiniteSetTheorems, WellFoundedInduction, TLAPS

\* Which part of the state each loop has not touched yet.
Untouched ==
  /\ step \in {"compare", "pair"} => \A l \in DOMAIN old : parent[l] = 0 /\ rank[l] = 0
  /\ step \in {"compare", "pair", "rank"} => at = 0 /\ chain = <<>>
  /\ step \in {"compare", "pair", "rank", "trace"} => oldIdx = 0 /\ newIdx = 0 /\ script = <<>>
  /\ step \in {"compare", "pair", "rank", "trace", "emit"} => hunks = <<>> /\ hunkStart = 0

\* Anchors are equal lines.
PairInv == \A l \in DOMAIN old : match[l] # 0 => old[l] = new[match[l]]

\* A predecessor is an anchor before this one in both texts.
RankInv ==
  \A l \in DOMAIN old :
    /\ rank[l] <= l
    /\ parent[l] # 0 =>
         /\ parent[l] < l
         /\ match[parent[l]] # 0 /\ match[parent[l]] < match[l]

\* The chain rises in both texts, and what is to come before it is smaller.
ChainInv ==
  /\ \A n \in DOMAIN chain : match[chain[n]] # 0
  /\ \A m, n \in DOMAIN chain :
       m < n => chain[m] < chain[n] /\ match[chain[m]] < match[chain[n]]
  /\ at # 0 =>
       /\ match[at] # 0
       /\ \A n \in DOMAIN chain : at < chain[n] /\ match[at] < match[chain[n]]

\* Neither text is read past the next line that is kept.
EmitInv ==
  step = "emit" => turn <= Len(chain) + 1 /\ oldIdx < NextOld /\ newIdx < NextNew

\* What a line of the script says is so: its text is that of the lines it names.
LineInv ==
  \A n \in DOMAIN script :
    /\ script[n].change # "+" =>
         script[n].oldLine \in 1..oldIdx /\ script[n].text = old[script[n].oldLine]
    /\ script[n].change # "-" =>
         script[n].newLine \in 1..newIdx /\ script[n].text = new[script[n].newLine]
    /\ script[n].change = "+" => script[n].oldLine = 0
    /\ script[n].change = "-" => script[n].newLine = 0

\* The lines of each text come in their order.
OrderInv ==
  \A m, n \in DOMAIN script : m < n =>
    /\ script[n].change # "+" => script[m].oldLine < script[n].oldLine
    /\ script[n].change # "-" => script[m].newLine < script[n].newLine

\* Every line read so far is in the script.
CoverInv ==
  /\ \A l \in 1..oldIdx : \E n \in DOMAIN script : script[n].oldLine = l
  /\ \A l \in 1..newIdx : \E n \in DOMAIN script : script[n].newLine = l

WholeInv ==
  step = "hunks" \/ (step = "done" /\ old # new) => oldIdx = Len(old) /\ newIdx = Len(new)

\* A hunk is a longest stretch of lines near a change.
Stretch(first, last) ==
  /\ \A n \in first..last : NearChange(n)
  /\ first = 1 \/ ~NearChange(first - 1)

HunkInv ==
  /\ \A h \in DOMAIN hunks :
       /\ hunks[h].first <= hunks[h].last
       /\ Stretch(hunks[h].first, hunks[h].last)
       /\ hunks[h].last = Len(script) \/ ~NearChange(hunks[h].last + 1)
  /\ step = "hunks" =>
       /\ turn <= Len(script) + 1
       /\ hunkStart # 0 => hunkStart < turn /\ Stretch(hunkStart, turn - 1)
       /\ hunkStart = 0 => turn = 1 \/ ~NearChange(turn - 1)

InSomeHunk(n) == \E h \in DOMAIN hunks : hunks[h].first <= n /\ n <= hunks[h].last

FoundInv ==
  /\ step = "hunks" =>
       \A n \in 1..turn - 1 : NearChange(n) => InSomeHunk(n) \/ (hunkStart # 0 /\ hunkStart <= n)
  /\ step = "done" => \A n \in DOMAIN script : NearChange(n) => InSomeHunk(n)

MatchInv == Untouched /\ PairInv /\ RankInv /\ ChainInv
ScriptInv == EmitInv /\ LineInv /\ OrderInv /\ CoverInv /\ WholeInv
DiffInv == DiffTypeOK /\ MatchInv /\ ScriptInv /\ HunkInv /\ FoundInv

\* The script tells both texts line by line: when it is complete, every line of
\* either text is in it exactly once and in order, with its text, and a line that
\* is printed as unchanged is in both.
ScriptExact ==
  step = "hunks" \/ (step = "done" /\ old # new) =>
    /\ \A l \in DOMAIN old : \E n \in DOMAIN script :
         /\ script[n].oldLine = l /\ script[n].text = old[l] /\ script[n].change # "+"
         /\ \A m \in DOMAIN script : script[m].oldLine = l => m = n
    /\ \A l \in DOMAIN new : \E n \in DOMAIN script :
         /\ script[n].newLine = l /\ script[n].text = new[l] /\ script[n].change # "-"
         /\ \A m \in DOMAIN script : script[m].newLine = l => m = n
    /\ OrderInv
-----------------------------------------------------------------------------
LEMMA Start == DiffInit => DiffTypeOK /\ MatchInv /\ ScriptInv /\ HunkInv /\ FoundInv
<1> SUFFICES ASSUME DiffInit
             PROVE  DiffTypeOK /\ MatchInv /\ ScriptInv /\ HunkInv /\ FoundInv
  OBVIOUS
<1> USE DEF DiffInit
<1>1. DiffTypeOK
  BY DEF DiffTypeOK
<1>2. MatchInv
  BY DEF MatchInv, Untouched, PairInv, RankInv, ChainInv
<1>3. ScriptInv
  BY DEF ScriptInv, EmitInv, LineInv, OrderInv, CoverInv, WholeInv
<1>4. HunkInv /\ FoundInv
  BY DEF HunkInv, FoundInv
<1> QED BY <1>1, <1>2, <1>3, <1>4

\* Of any anchors there is a first best one.
LEMMA BestExists ==
  ASSUME DiffTypeOK, NEW S \in SUBSET Anchors, S # {}
  PROVE  \E m \in S : FirstBest(m, S)
<1> DEFINE Short == {Len(old) - rank[m] : m \in S}
<1>1. /\ DOMAIN old = 1..Len(old) /\ Len(old) \in Nat /\ S \subseteq DOMAIN old
      /\ \A m \in S : m \in Nat /\ rank[m] \in 0..Len(old)
  BY DEF DiffTypeOK, Anchors
<1>2. Short \subseteq Nat /\ Short # {}
  BY <1>1
<1>3. PICK s \in Short : \A t \in Short : ~(<<t, s>> \in OpToRel(<, Nat))
  BY <1>2, NatLessThanWellFounded, WFMin
<1>4. PICK b \in S : s = Len(old) - rank[b]
  OBVIOUS
<1>5. \A n \in S : rank[n] <= rank[b]
  <2> SUFFICES ASSUME NEW n \in S, rank[n] > rank[b] PROVE FALSE
    BY <1>1
  <2>1. Len(old) - rank[n] \in Short /\ Len(old) - rank[n] < s
    BY <1>1, <1>4
  <2>2. <<Len(old) - rank[n], s>> \in OpToRel(<, Nat)
    BY <2>1, <1>2 DEF OpToRel
  <2> QED BY <2>1, <2>2, <1>3
<1> DEFINE Best == {n \in S : rank[n] = rank[b]}
<1>6. Best \subseteq Nat /\ Best # {}
  BY <1>1
<1>7. PICK m \in Best : \A n \in Best : ~(<<n, m>> \in OpToRel(<, Nat))
  BY <1>6, NatLessThanWellFounded, WFMin
<1>8. \A n \in Best : ~(n < m)
  BY <1>6, <1>7 DEF OpToRel
<1>9. m \in S /\ rank[m] = rank[b]
  OBVIOUS
<1>10. \A n \in S : n < m => rank[n] < rank[m]
  <2> SUFFICES ASSUME NEW n \in S, n < m PROVE rank[n] < rank[m]
    OBVIOUS
  <2>1. rank[n] <= rank[m] /\ rank[n] # rank[m]
    BY <1>5, <1>8, <1>9
  <2> QED BY <2>1, <1>1, <1>9
<1> QED BY <1>5, <1>9, <1>10 DEF FirstBest

LEMMA Lengths ==
  ASSUME DiffTypeOK
  PROVE  /\ Len(old) \in Nat /\ DOMAIN old = 1..Len(old)
         /\ Len(new) \in Nat /\ DOMAIN new = 1..Len(new)
         /\ Len(chain) \in Nat /\ DOMAIN chain = 1..Len(chain)
         /\ Len(script) \in Nat /\ DOMAIN script = 1..Len(script)
         /\ Len(hunks) \in Nat /\ DOMAIN hunks = 1..Len(hunks)
BY DEF DiffTypeOK

\* The next lines to keep lie in the texts, or just behind them.
LEMMA NextTyped ==
  ASSUME DiffTypeOK
  PROVE  NextOld \in 1..Len(old) + 1 /\ NextNew \in 0..Len(new) + 1
<1>1. CASE turn \in DOMAIN chain
  <2>1. chain[turn] \in DOMAIN old
    BY <1>1 DEF DiffTypeOK
  <2>2. match[chain[turn]] \in 0..Len(new)
    BY <2>1 DEF DiffTypeOK
  <2> QED BY <1>1, <2>1, <2>2, Lengths DEF NextOld, NextNew
<1>2. CASE turn \notin DOMAIN chain
  BY <1>2, Lengths DEF NextOld, NextNew
<1> QED BY <1>1, <1>2

\* A line is kept when both texts have been read up to it: it is the next of both.
LEMMA KeptIsNext ==
  ASSUME DiffTypeOK, ChainInv, EmitInv, Keep
  PROVE  /\ turn \in DOMAIN chain
         /\ oldIdx + 1 = chain[turn] /\ newIdx + 1 = match[chain[turn]]
         /\ chain[turn] \in DOMAIN old /\ match[chain[turn]] \in DOMAIN new
<1>1. turn \in DOMAIN chain /\ step = "emit"
  BY DEF Keep, Emitting
<1>2. NextOld = chain[turn] /\ NextNew = match[chain[turn]]
  BY <1>1 DEF NextOld, NextNew
<1>3. chain[turn] \in DOMAIN old
  BY <1>1 DEF DiffTypeOK
<1>4. match[chain[turn]] \in 0..Len(new) /\ match[chain[turn]] # 0
  BY <1>1, <1>3 DEF DiffTypeOK, ChainInv
<1>a. oldIdx \in 0..Len(old) /\ newIdx \in 0..Len(new)
  BY DEF DiffTypeOK
<1>5. oldIdx \in Nat /\ newIdx \in Nat /\ chain[turn] \in Nat /\ match[chain[turn]] \in Nat
  BY <1>a, <1>3, <1>4, Lengths
<1>6. oldIdx < chain[turn] /\ newIdx < match[chain[turn]]
  BY <1>1, <1>2 DEF EmitInv
<1>7. oldIdx + 1 >= chain[turn] /\ newIdx + 1 >= match[chain[turn]]
  BY <1>2 DEF Keep
<1> QED BY <1>1, <1>3, <1>4, <1>5, <1>6, <1>7, Lengths

\* Every action keeps the types.
LEMMA TypesStep == DiffInv /\ DiffNext => DiffTypeOK'
<1> SUFFICES ASSUME DiffInv, DiffNext PROVE DiffTypeOK'
  OBVIOUS
<1> USE DEF DiffInv, MatchInv, ScriptInv
<1>0. /\ Len(old) \in Nat /\ DOMAIN old = 1..Len(old)
      /\ Len(new) \in Nat /\ DOMAIN new = 1..Len(new)
      /\ Len(script) \in Nat /\ DOMAIN script = 1..Len(script)
  BY Lengths
<1>1. CASE \E o, n \in Seq(Lines) \ {<<>>} : Call(o, n)
  BY <1>1 DEF Call, DiffTypeOK
<1>2. CASE Compare \/ PairingDone \/ TraceDone \/ EmitDone
  <2>1. /\ step' \in {"pair", "rank", "emit", "hunks", "done"} /\ turn' = 1
        /\ UNCHANGED <<pairVars, rankVars, chainVars, scriptVars, hunkVars>>
    BY <1>2 DEF Compare, PairingDone, TraceDone, EmitDone, Goto
  <2> QED BY <2>1 DEF DiffTypeOK, pairVars, rankVars, chainVars, scriptVars, hunkVars
<1>3. CASE Pair
  BY <1>3, <1>0 DEF Pair, InPairing, NextTurn, DiffTypeOK, rankVars, chainVars, scriptVars, hunkVars
<1>4. CASE NoPair \/ NoAnchor \/ StayInHunk \/ StayOutside
  <2>1. /\ step' = step /\ turn' = turn + 1
        /\ UNCHANGED <<pairVars, rankVars, chainVars, scriptVars, hunkVars>>
    BY <1>4 DEF NoPair, NoAnchor, StayInHunk, StayOutside, NextTurn
  <2> QED BY <2>1 DEF DiffTypeOK, pairVars, rankVars, chainVars, scriptVars, hunkVars
<1>5. CASE RankFirst
  BY <1>5, <1>0 DEF RankFirst, InRanking, NextTurn, DiffTypeOK, pairVars, chainVars, scriptVars, hunkVars
<1>6. CASE RankAfter
  <2>1. PICK m \in Before(turn) :
          /\ rank' = [rank EXCEPT ![turn] = rank[m] + 1]
          /\ parent' = [parent EXCEPT ![turn] = m]
    BY <1>6 DEF RankAfter
  <2>2. turn \in DOMAIN old /\ m \in DOMAIN old /\ m < turn /\ rank[m] <= m
    BY <1>6, <2>1 DEF RankAfter, InRanking, Before, Anchors, MatchInv, RankInv
  <2>3. rank[m] + 1 \in 0..Len(old) /\ m \in 0..Len(old)
    BY <2>2, <1>0 DEF DiffTypeOK
  <2>4. rank' \in [DOMAIN old -> 0..Len(old)] /\ parent' \in [DOMAIN old -> 0..Len(old)]
    BY <2>1, <2>2, <2>3 DEF DiffTypeOK
  <2>5. turn' = turn + 1 /\ UNCHANGED <<step, pairVars, chainVars, scriptVars, hunkVars>>
    BY <1>6 DEF RankAfter, NextTurn
  <2> QED BY <2>4, <2>5 DEF DiffTypeOK, pairVars, chainVars, scriptVars, hunkVars
<1>7. CASE RankingDone
  <2>1. at' \in 0..Len(old)
    <3>1. CASE Anchors = {}
      BY <1>7, <3>1, <1>0 DEF RankingDone
    <3>2. CASE Anchors # {}
      <4>1. \E m \in Anchors : FirstBest(m, Anchors)
        BY <3>2, BestExists
      <4>2. at' \in Anchors
        BY <1>7, <3>2, <4>1 DEF RankingDone
      <4> QED BY <4>2, <1>0 DEF Anchors
    <3> QED BY <3>1, <3>2
  <2> QED BY <1>7, <2>1 DEF RankingDone, Goto, DiffTypeOK, pairVars, rankVars, scriptVars, hunkVars
<1>8. CASE Trace
  <2>1. at \in DOMAIN old /\ chain \in Seq(DOMAIN old)
    BY <1>8, <1>0 DEF Trace, DiffTypeOK
  <2>2. <<at>> \o chain \in Seq(DOMAIN old)
    BY <2>1, ConcatProperties
  <2>3. parent[at] \in 0..Len(old)
    BY <2>1 DEF DiffTypeOK
  <2> QED BY <1>8, <2>2, <2>3 DEF Trace, DiffTypeOK, pairVars, rankVars, scriptVars, hunkVars
<1>9. CASE Delete
  <2>1. oldIdx + 1 \in DOMAIN old
    BY <1>9, <1>0, NextTyped DEF Delete, DiffTypeOK
  <2>a. old[oldIdx + 1] \in Lines /\ oldIdx + 1 \in Nat
    BY <2>1 DEF DiffTypeOK
  <2>2. [text |-> old[oldIdx + 1], change |-> "-", oldLine |-> oldIdx + 1, newLine |-> 0] \in ScriptLine
    BY <2>a DEF ScriptLine
  <2>3. script' \in Seq(ScriptLine) /\ Len(script') = Len(script) + 1
    BY <1>9, <2>2 DEF Delete, Emit, DiffTypeOK
  <2>4. hunks = <<>> /\ hunkStart = 0
    BY <1>9 DEF Delete, Emitting, MatchInv, Untouched
  <2> QED BY <1>9, <2>1, <2>3, <2>4, <1>0 DEF Delete, DiffTypeOK, pairVars, rankVars, chainVars, hunkVars
<1>10. CASE Add
  <2>1. newIdx + 1 \in DOMAIN new
    BY <1>10, <1>0, NextTyped DEF Add, DiffTypeOK
  <2>a. new[newIdx + 1] \in Lines /\ newIdx + 1 \in Nat
    BY <2>1 DEF DiffTypeOK
  <2>2. [text |-> new[newIdx + 1], change |-> "+", oldLine |-> 0, newLine |-> newIdx + 1] \in ScriptLine
    BY <2>a DEF ScriptLine
  <2>3. script' \in Seq(ScriptLine) /\ Len(script') = Len(script) + 1
    BY <1>10, <2>2 DEF Add, Emit, DiffTypeOK
  <2>4. hunks = <<>> /\ hunkStart = 0
    BY <1>10 DEF Add, Emitting, MatchInv, Untouched
  <2> QED BY <1>10, <2>1, <2>3, <2>4, <1>0 DEF Add, DiffTypeOK, pairVars, rankVars, chainVars, hunkVars
<1>11. CASE Keep
  <2>1. oldIdx + 1 \in DOMAIN old /\ newIdx + 1 \in DOMAIN new
    BY <1>11, <1>0, KeptIsNext DEF DiffTypeOK
  <2>2. old[oldIdx + 1] \in Lines /\ oldIdx + 1 \in Nat /\ newIdx + 1 \in Nat
    BY <2>1 DEF DiffTypeOK
  <2>3. [text |-> old[oldIdx + 1], change |-> " ", oldLine |-> oldIdx + 1, newLine |-> newIdx + 1]
          \in ScriptLine
    BY <2>2 DEF ScriptLine
  <2>a. script \in Seq(ScriptLine)
    BY DEF DiffTypeOK
  <2>4. script' \in Seq(ScriptLine) /\ Len(script') = Len(script) + 1
    <3>1. PICK line \in ScriptLine : script' = Append(script, line)
      BY <1>11, <2>3 DEF Keep, Emit
    <3> QED BY <3>1, <2>a, AppendProperties
  <2>5. hunks = <<>> /\ hunkStart = 0
    BY <1>11 DEF Keep, Emitting, MatchInv, Untouched
  <2>6. /\ oldIdx' = oldIdx + 1 /\ newIdx' = newIdx + 1 /\ turn' = turn + 1
        /\ UNCHANGED <<step, pairVars, rankVars, chainVars, hunkVars>>
    BY <1>11 DEF Keep, NextTurn
  <2> QED BY <2>1, <2>4, <2>5, <2>6, <1>0 DEF DiffTypeOK, pairVars, rankVars, chainVars, hunkVars
<1>12. CASE OpenHunk
  BY <1>12, <1>0 DEF OpenHunk, InHunks, NextTurn, DiffTypeOK, pairVars, rankVars, chainVars, scriptVars
<1>13. CASE CloseHunk
  <2>1. hunkStart \in DOMAIN script /\ turn - 1 \in DOMAIN script
    BY <1>13, <1>0, SMTT(30) DEF CloseHunk, InHunks, DiffTypeOK, HunkInv
  <2>2. [first |-> hunkStart, last |-> turn - 1] \in [first : DOMAIN script, last : DOMAIN script]
    BY <2>1
  <2> QED BY <1>13, <2>2, <1>0
          DEF CloseHunk, NextTurn, DiffTypeOK, pairVars, rankVars, chainVars, scriptVars
<1>14. CASE HunksDone
  <2>1. hunkStart # 0 => hunkStart \in DOMAIN script /\ Len(script) \in DOMAIN script
    BY <1>14, <1>0 DEF HunksDone, DiffTypeOK, HunkInv
  <2>2. hunkStart # 0 =>
          [first |-> hunkStart, last |-> Len(script)] \in [first : DOMAIN script, last : DOMAIN script]
    BY <2>1
  <2>3. hunks' \in Seq([first : DOMAIN script, last : DOMAIN script])
    <3>1. CASE hunkStart = 0
      BY <1>14, <3>1 DEF HunksDone, DiffTypeOK
    <3>2. CASE hunkStart # 0
      BY <1>14, <3>2, <2>2 DEF HunksDone, DiffTypeOK
    <3> QED BY <3>1, <3>2
  <2>4. /\ step' = "done" /\ turn' = 1
        /\ UNCHANGED <<hunkStart, pairVars, rankVars, chainVars, scriptVars>>
    BY <1>14 DEF HunksDone, Goto
  <2> QED BY <2>3, <2>4 DEF DiffTypeOK, pairVars, rankVars, chainVars, scriptVars
<1> QED BY <1>1, <1>2, <1>3, <1>4, <1>5, <1>6, <1>7, <1>8, <1>9, <1>10, <1>11, <1>12, <1>13, <1>14
        DEF DiffNext, DiffTurn
-----------------------------------------------------------------------------
\* Each part of the state is written by the actions of its own loop only.
LEMMA Frames ==
  ASSUME DiffTurn
  PROVE  /\ UNCHANGED <<old, new>>
         /\ Pair \/ UNCHANGED pairVars
         /\ RankFirst \/ RankAfter \/ UNCHANGED rankVars
         /\ RankingDone \/ Trace \/ UNCHANGED chainVars
         /\ Delete \/ Add \/ Keep \/ UNCHANGED scriptVars
         /\ OpenHunk \/ CloseHunk \/ HunksDone \/ UNCHANGED hunkVars
<1>1. UNCHANGED <<old, new>> /\ (Pair \/ UNCHANGED pairVars)
  BY DEF DiffTurn, Compare, Pair, NoPair, PairingDone, RankFirst, RankAfter, NoAnchor, RankingDone,
     Trace, TraceDone, Delete, Add, Keep, EmitDone, OpenHunk, CloseHunk, StayInHunk, StayOutside,
     HunksDone, pairVars
<1>2. RankFirst \/ RankAfter \/ UNCHANGED rankVars
  BY DEF DiffTurn, Compare, Pair, NoPair, PairingDone, NoAnchor, RankingDone,
     Trace, TraceDone, Delete, Add, Keep, EmitDone, OpenHunk, CloseHunk, StayInHunk, StayOutside,
     HunksDone
<1>3. RankingDone \/ Trace \/ UNCHANGED chainVars
  BY DEF DiffTurn, Compare, Pair, NoPair, PairingDone, RankFirst, RankAfter, NoAnchor,
     TraceDone, Delete, Add, Keep, EmitDone, OpenHunk, CloseHunk, StayInHunk, StayOutside,
     HunksDone
<1>4. Delete \/ Add \/ Keep \/ UNCHANGED scriptVars
  BY DEF DiffTurn, Compare, Pair, NoPair, PairingDone, RankFirst, RankAfter, NoAnchor, RankingDone,
     Trace, TraceDone, EmitDone, OpenHunk, CloseHunk, StayInHunk, StayOutside, HunksDone
<1>5. OpenHunk \/ CloseHunk \/ HunksDone \/ UNCHANGED hunkVars
  BY DEF DiffTurn, Compare, Pair, NoPair, PairingDone, RankFirst, RankAfter, NoAnchor, RankingDone,
     Trace, TraceDone, Delete, Add, Keep, EmitDone, StayInHunk, StayOutside
<1> QED BY <1>1, <1>2, <1>3, <1>4, <1>5

\* A call starts from nothing.
LEMMA CallStarts ==
  ASSUME NEW o \in Seq(Lines), NEW n \in Seq(Lines), Call(o, n)
  PROVE  (MatchInv /\ ScriptInv /\ HunkInv /\ FoundInv)'
<1> USE DEF Call
<1>1. MatchInv'
  BY DEF MatchInv, Untouched, PairInv, RankInv, ChainInv
<1>2. ScriptInv'
  BY DEF ScriptInv, EmitInv, LineInv, OrderInv, CoverInv, WholeInv
<1>3. HunkInv' /\ FoundInv'
  BY DEF HunkInv, FoundInv
<1> QED BY <1>1, <1>2, <1>3

\* How the call moves from loop to loop.
LEMMA UntouchedStep == DiffInv /\ DiffTurn => Untouched'
<1> SUFFICES ASSUME DiffInv, DiffTurn PROVE Untouched'
  OBVIOUS
<1> USE DEF Untouched, Goto, NextTurn, rankVars, chainVars, scriptVars, hunkVars, pairVars
<1>0. Untouched /\ DOMAIN old \subseteq Nat
  BY Lengths DEF DiffInv, MatchInv
<1>1. CASE Compare \/ PairingDone \/ TraceDone \/ EmitDone
  BY <1>0, <1>1 DEF Compare, PairingDone, TraceDone, EmitDone
<1>2. CASE Pair \/ NoPair
  BY <1>0, <1>2 DEF Pair, NoPair, InPairing
<1>3. CASE RankFirst \/ RankAfter \/ NoAnchor \/ RankingDone
  BY <1>0, <1>3 DEF RankFirst, RankAfter, NoAnchor, RankingDone, InRanking
<1>4. CASE Trace
  BY <1>0, <1>4 DEF Trace
<1>5. CASE Delete \/ Add \/ Keep
  BY <1>0, <1>5 DEF Delete, Add, Keep, Emitting
<1>6. CASE OpenHunk \/ CloseHunk \/ StayInHunk \/ StayOutside \/ HunksDone
  BY <1>0, <1>6 DEF OpenHunk, CloseHunk, StayInHunk, StayOutside, HunksDone, InHunks
<1> QED BY <1>1, <1>2, <1>3, <1>4, <1>5, <1>6 DEF DiffTurn

\* Pairs stay equal lines, and ranks stay those of earlier anchors.
LEMMA PairStep == DiffInv /\ DiffTurn => PairInv'
<1> SUFFICES ASSUME DiffInv, DiffTurn PROVE PairInv'
  OBVIOUS
<1>1. CASE UNCHANGED pairVars
  BY <1>1 DEF DiffInv, MatchInv, PairInv, pairVars
<1>2. CASE Pair
  <2>1. PICK p \in DOMAIN old : Candidate(p) /\ match' = [match EXCEPT ![p] = turn]
    BY <1>2 DEF Pair
  <2>2. UNCHANGED <<old, new>> /\ match \in [DOMAIN old -> 0..Len(new)]
    BY <1>2 DEF Pair, DiffInv, DiffTypeOK
  <2> QED BY <2>1, <2>2 DEF Candidate, DiffInv, MatchInv, PairInv
<1> QED BY <1>1, <1>2, Frames

LEMMA RankStep == DiffInv /\ DiffTurn => RankInv'
<1> SUFFICES ASSUME DiffInv, DiffTurn PROVE RankInv'
  OBVIOUS
<1>0. /\ RankInv /\ Untouched /\ Len(old) \in Nat /\ DOMAIN old = 1..Len(old) /\ UNCHANGED <<old, new>>
      /\ Len(new) \in Nat
      /\ match \in [DOMAIN old -> 0..Len(new)]
      /\ rank \in [DOMAIN old -> 0..Len(old)] /\ parent \in [DOMAIN old -> 0..Len(old)]
  BY Lengths, Frames DEF DiffInv, MatchInv, DiffTypeOK
<1>1. CASE Pair
  <2>1. PICK p \in DOMAIN old : Candidate(p) /\ match' = [match EXCEPT ![p] = turn]
    BY <1>1 DEF Pair
  <2>2. \A l \in DOMAIN old : parent'[l] = 0 /\ rank'[l] = 0
    BY <1>0, <1>1 DEF Pair, InPairing, Untouched, rankVars
  <2> QED BY <2>2, <1>0 DEF RankInv
<1>2. CASE RankFirst
  <2>1. /\ turn \in DOMAIN old /\ rank' = [rank EXCEPT ![turn] = 1]
        /\ UNCHANGED <<match, parent>>
    BY <1>2 DEF RankFirst, InRanking, pairVars
  <2> QED BY <2>1, <1>0 DEF RankInv
<1>3. CASE RankAfter
  <2>1. PICK m \in Before(turn) :
          /\ rank' = [rank EXCEPT ![turn] = rank[m] + 1]
          /\ parent' = [parent EXCEPT ![turn] = m]
    BY <1>3 DEF RankAfter
  <2>2. /\ turn \in DOMAIN old /\ m \in DOMAIN old /\ m < turn
        /\ match[m] # 0 /\ match[m] < match[turn]
    BY <1>3, <2>1 DEF RankAfter, InRanking, Before, Anchors
  <2>3. rank[m] <= m /\ rank[m] \in Nat /\ UNCHANGED match
    BY <1>3, <1>0, <2>2 DEF RankAfter, RankInv, pairVars
  <2>4. rank[m] + 1 <= turn
    BY <1>0, <2>2, <2>3
  <2> QED BY <2>1, <2>2, <2>3, <2>4, <1>0 DEF RankInv
<1>4. CASE UNCHANGED <<pairVars, rankVars>>
  BY <1>0, <1>4 DEF RankInv, pairVars, rankVars
<1>5. Pair \/ RankFirst \/ RankAfter \/ UNCHANGED <<pairVars, rankVars>>
  BY Frames
<1> QED BY <1>1, <1>2, <1>3, <1>4, <1>5

LEMMA ChainStep == DiffInv /\ DiffTurn => ChainInv'
<1> SUFFICES ASSUME DiffInv, DiffTurn PROVE ChainInv'
  OBVIOUS
<1>0. /\ ChainInv /\ Untouched /\ RankInv /\ UNCHANGED <<old, new>>
      /\ Len(old) \in Nat /\ DOMAIN old = 1..Len(old) /\ Len(new) \in Nat
      /\ match \in [DOMAIN old -> 0..Len(new)] /\ parent \in [DOMAIN old -> 0..Len(old)]
      /\ chain \in Seq(DOMAIN old) /\ at \in 0..Len(old)
  BY Lengths, Frames DEF DiffInv, MatchInv, DiffTypeOK
<1>1. CASE Pair
  BY <1>0, <1>1 DEF Pair, InPairing, Untouched, chainVars, ChainInv
<1>2. CASE RankingDone
  <2>1. at = 0 /\ chain = <<>> /\ UNCHANGED <<chain, match>>
    BY <1>0, <1>2 DEF RankingDone, Untouched, pairVars
  <2>2. at' # 0 => match[at'] # 0
    <3>1. CASE Anchors = {}
      BY <1>2, <3>1 DEF RankingDone
    <3>2. CASE Anchors # {}
      <4>1. \E m \in Anchors : FirstBest(m, Anchors)
        BY <3>2, BestExists DEF DiffInv
      <4>2. at' \in Anchors
        BY <1>2, <3>2, <4>1 DEF RankingDone
      <4> QED BY <4>2 DEF Anchors
    <3> QED BY <3>1, <3>2
  <2> QED BY <2>1, <2>2 DEF ChainInv
<1>3. CASE Trace
  <2>1. /\ chain' = <<at>> \o chain /\ at' = parent[at] /\ UNCHANGED match
        /\ at \in DOMAIN old /\ Len(chain) \in Nat /\ DOMAIN chain = 1..Len(chain)
    BY <1>0, <1>3 DEF Trace, pairVars
  <2>2. /\ DOMAIN chain' = 1..Len(chain) + 1
        /\ chain'[1] = at
        /\ \A n \in DOMAIN chain' : n # 1 => n - 1 \in DOMAIN chain /\ chain'[n] = chain[n - 1]
    BY <2>1, <1>0
  <2>3. /\ match[at] # 0
        /\ \A n \in DOMAIN chain : at < chain[n] /\ match[at] < match[chain[n]]
    BY <1>0, <1>3 DEF Trace, ChainInv
  <2>4. \A n \in DOMAIN chain : chain[n] \in Nat /\ match[chain[n]] \in Nat /\ match[chain[n]] # 0
    BY <1>0 DEF ChainInv
  <2>5. \A n \in DOMAIN chain' : match[chain'[n]] # 0
    BY <2>2, <2>3, <2>4
  <2>6. ASSUME NEW m \in DOMAIN chain', NEW n \in DOMAIN chain', m < n
        PROVE  chain'[m] < chain'[n] /\ match[chain'[m]] < match[chain'[n]]
    <3>1. n # 1 /\ n - 1 \in DOMAIN chain /\ chain'[n] = chain[n - 1]
      BY <2>6, <2>2, <2>1
    <3>2. CASE m = 1
      BY <3>1, <3>2, <2>2, <2>3
    <3>3. CASE m # 1
      <4>1. m - 1 \in DOMAIN chain /\ chain'[m] = chain[m - 1] /\ m - 1 < n - 1
        BY <3>3, <2>6, <2>2, <2>1
      <4> QED BY <4>1, <3>1, <1>0 DEF ChainInv
    <3> QED BY <3>2, <3>3
  <2>7. at' # 0 => /\ at' < at /\ match[at'] # 0 /\ match[at'] < match[at] /\ at' \in DOMAIN old
    BY <2>1, <1>0 DEF RankInv
  <2>8. ASSUME at' # 0, NEW n \in DOMAIN chain'
        PROVE  at' < chain'[n] /\ match[at'] < match[chain'[n]]
    <3>1. match[at'] \in Nat /\ match[at] \in Nat /\ at' \in Nat /\ at \in Nat
      BY <2>7, <2>8, <2>1, <1>0
    <3>2. CASE n = 1
      BY <3>2, <2>2, <2>7, <2>8
    <3>3. CASE n # 1
      <4>1. n - 1 \in DOMAIN chain /\ chain'[n] = chain[n - 1]
        BY <3>3, <2>2
      <4> QED BY <4>1, <3>1, <2>3, <2>4, <2>7, <2>8
    <3> QED BY <3>2, <3>3
  <2> QED BY <2>1, <2>5, <2>6, <2>7, <2>8 DEF ChainInv
<1>4. CASE UNCHANGED <<pairVars, chainVars>>
  BY <1>0, <1>4 DEF ChainInv, pairVars, chainVars
<1>5. Pair \/ RankingDone \/ Trace \/ UNCHANGED <<pairVars, chainVars>>
  BY Frames
<1> QED BY <1>1, <1>2, <1>3, <1>4, <1>5
-----------------------------------------------------------------------------
\* The lines that are kept come up in order.
LEMMA EmitStep == DiffInv /\ DiffTurn => EmitInv'
<1> SUFFICES ASSUME DiffInv, DiffTurn, step' = "emit"
             PROVE  turn' <= Len(chain') + 1 /\ oldIdx' < NextOld' /\ newIdx' < NextNew'
  BY DEF EmitInv
<1>0. /\ EmitInv /\ Untouched /\ ChainInv /\ DiffTypeOK /\ UNCHANGED <<old, new>>
      /\ Len(old) \in Nat /\ Len(new) \in Nat /\ Len(chain) \in Nat /\ DOMAIN chain = 1..Len(chain)
      /\ oldIdx \in 0..Len(old) /\ newIdx \in 0..Len(new) /\ turn \in Nat
  BY Lengths, Frames DEF DiffInv, MatchInv, ScriptInv, DiffTypeOK
<1>1. CASE TraceDone
  <2>1. oldIdx' = 0 /\ newIdx' = 0 /\ turn' = 1 /\ UNCHANGED <<chain, match>>
    BY <1>0, <1>1 DEF TraceDone, Goto, Untouched, chainVars, scriptVars, pairVars
  <2>2. CASE turn' \in DOMAIN chain
    <3>1. NextOld' = chain[1] /\ NextNew' = match[chain[1]] /\ 1 \in DOMAIN chain
      BY <2>1, <2>2 DEF NextOld, NextNew
    <3>b. chain \in Seq(DOMAIN old) /\ DOMAIN old = 1..Len(old)
      BY Lengths, <1>0 DEF DiffTypeOK
    <3>2. chain[1] \in 1..Len(old)
      BY <3>1, <3>b
    <3>a. match \in [DOMAIN old -> 0..Len(new)] /\ DOMAIN old = 1..Len(old)
      BY Lengths, <1>0 DEF DiffTypeOK
    <3>3. match[chain[1]] \in 0..Len(new) /\ match[chain[1]] # 0
      BY <3>1, <3>2, <3>a, <1>0 DEF ChainInv
    <3> QED BY <2>1, <3>1, <3>2, <3>3, <1>0
  <2>3. CASE turn' \notin DOMAIN chain
    <3>1. NextOld' = Len(old) + 1 /\ NextNew' = Len(new) + 1
      BY <2>1, <2>3, <1>0 DEF NextOld, NextNew
    <3> QED BY <2>1, <3>1, <1>0
  <2> QED BY <2>2, <2>3
<1>2. CASE Delete
  <2>1. UNCHANGED <<turn, chain, match, newIdx>> /\ oldIdx' = oldIdx + 1 /\ step = "emit"
        /\ oldIdx + 1 < NextOld
    BY <1>2 DEF Delete, Emitting, chainVars, pairVars
  <2>2. NextOld' = NextOld /\ NextNew' = NextNew
    BY <2>1, <1>0 DEF NextOld, NextNew
  <2> QED BY <2>1, <2>2, <1>0 DEF EmitInv
<1>3. CASE Add
  <2>1. UNCHANGED <<turn, chain, match, oldIdx>> /\ newIdx' = newIdx + 1 /\ step = "emit"
        /\ newIdx + 1 < NextNew
    BY <1>3 DEF Add, Emitting, chainVars, pairVars
  <2>2. NextOld' = NextOld /\ NextNew' = NextNew
    BY <2>1, <1>0 DEF NextOld, NextNew
  <2> QED BY <2>1, <2>2, <1>0 DEF EmitInv
<1>4. CASE Keep
  <2>1. /\ turn \in DOMAIN chain /\ oldIdx + 1 = chain[turn] /\ newIdx + 1 = match[chain[turn]]
        /\ chain[turn] \in DOMAIN old /\ match[chain[turn]] \in DOMAIN new
    BY <1>4, <1>0, KeptIsNext
  <2>2. turn' = turn + 1 /\ oldIdx' = chain[turn] /\ newIdx' = match[chain[turn]]
        /\ UNCHANGED <<chain, match>>
    BY <1>4, <2>1 DEF Keep, NextTurn, chainVars, pairVars
  <2>3. turn' <= Len(chain) + 1
    BY <2>1, <2>2, <1>0
  <2>4. CASE turn' \in DOMAIN chain
    <3>1. chain[turn] < chain[turn + 1] /\ match[chain[turn]] < match[chain[turn + 1]]
      BY <2>1, <2>2, <2>4, <1>0 DEF ChainInv
    <3>2. NextOld' = chain[turn + 1] /\ NextNew' = match[chain[turn + 1]]
      BY <2>2, <2>4 DEF NextOld, NextNew
    <3> QED BY <2>2, <2>3, <3>1, <3>2
  <2>5. CASE turn' \notin DOMAIN chain
    <3>1. NextOld' = Len(old) + 1 /\ NextNew' = Len(new) + 1
      BY <2>2, <2>5, <1>0 DEF NextOld, NextNew
    <3>2. chain[turn] \in 1..Len(old) /\ match[chain[turn]] \in 1..Len(new)
      BY <2>1, Lengths, <1>0
    <3> QED BY <2>2, <2>3, <3>1, <3>2, <1>0
  <2> QED BY <2>4, <2>5
<1>5. TraceDone \/ Delete \/ Add \/ Keep
  BY DEF DiffTurn, Compare, Pair, NoPair, PairingDone, RankFirst, RankAfter, NoAnchor, RankingDone,
     Trace, EmitDone, OpenHunk, CloseHunk, StayInHunk, StayOutside, HunksDone, InPairing, InRanking,
     InHunks, Goto, NextTurn
<1> QED BY <1>1, <1>2, <1>3, <1>4, <1>5

\* A line of the script names lines that have been read, or none.
LEMMA Bounded ==
  ASSUME DiffInv
  PROVE  \A n \in DOMAIN script :
           /\ script[n].oldLine \in 0..oldIdx /\ script[n].newLine \in 0..newIdx
           /\ script[n].oldLine = 0 <=> script[n].change = "+"
           /\ script[n].newLine = 0 <=> script[n].change = "-"
<1>1. oldIdx \in Nat /\ newIdx \in Nat
  BY Lengths DEF DiffInv, DiffTypeOK
<1> QED BY <1>1 DEF DiffInv, ScriptInv, LineInv

\* A turn that adds no line leaves the account of the texts as it is.
LEMMA ScriptKept ==
  ASSUME DiffInv, UNCHANGED <<old, new>>, UNCHANGED scriptVars
  PROVE  (LineInv /\ OrderInv /\ CoverInv)'
BY DEF DiffInv, ScriptInv, LineInv, OrderInv, CoverInv, scriptVars

\* What the script says of the lines it had stays so when one line is added at its
\* end: a deleted line, an added line, or one of both texts.
LEMMA LineAdded ==
  ASSUME DiffInv, UNCHANGED <<old, new>>,
         NEW line,
         script' = Append(script, line),
         oldIdx' = IF line.change = "+" THEN oldIdx ELSE oldIdx + 1,
         newIdx' = IF line.change = "-" THEN newIdx ELSE newIdx + 1,
         line.oldLine = IF line.change = "+" THEN 0 ELSE oldIdx + 1,
         line.newLine = IF line.change = "-" THEN 0 ELSE newIdx + 1,
         line.change # "+" => line.text = old[oldIdx + 1],
         line.change # "-" => line.text = new[newIdx + 1]
  PROVE  (LineInv /\ OrderInv /\ CoverInv)'
<1>1. /\ Len(script) \in Nat /\ DOMAIN script = 1..Len(script) /\ script \in Seq(ScriptLine)
      /\ oldIdx \in Nat /\ newIdx \in Nat
  BY Lengths DEF DiffInv, DiffTypeOK
<1>2. /\ DOMAIN script' = 1..Len(script) + 1
      /\ script'[Len(script) + 1] = line
      /\ \A n \in DOMAIN script' : n # Len(script) + 1 => n \in DOMAIN script /\ script'[n] = script[n]
      /\ \A n \in DOMAIN script : n \in DOMAIN script' /\ n < Len(script) + 1 /\ script'[n] = script[n]
  BY <1>1
<1>3. oldIdx' \in Nat /\ newIdx' \in Nat /\ oldIdx <= oldIdx' /\ newIdx <= newIdx'
  BY <1>1
<1>4. LineInv'
  <2> SUFFICES ASSUME NEW n \in DOMAIN script'
               PROVE /\ script'[n].change # "+" =>
                          script'[n].oldLine \in 1..oldIdx' /\ script'[n].text = old[script'[n].oldLine]
                     /\ script'[n].change # "-" =>
                          script'[n].newLine \in 1..newIdx' /\ script'[n].text = new[script'[n].newLine]
                     /\ script'[n].change = "+" => script'[n].oldLine = 0
                     /\ script'[n].change = "-" => script'[n].newLine = 0
    BY DEF LineInv
  <2>1. CASE n = Len(script) + 1
    BY <2>1, <1>1, <1>2, <1>3
  <2>2. CASE n # Len(script) + 1
    <3>1. n \in DOMAIN script /\ script'[n] = script[n]
      BY <2>2, <1>2
    <3> QED BY <3>1, <1>1, <1>3 DEF DiffInv, ScriptInv, LineInv
  <2> QED BY <2>1, <2>2
<1>5. OrderInv'
  <2> SUFFICES ASSUME NEW m \in DOMAIN script', NEW n \in DOMAIN script', m < n
               PROVE /\ script'[n].change # "+" => script'[m].oldLine < script'[n].oldLine
                     /\ script'[n].change # "-" => script'[m].newLine < script'[n].newLine
    BY DEF OrderInv
  <2>0. m \in DOMAIN script /\ script'[m] = script[m]
    BY <1>1, <1>2
  <2>1. CASE n = Len(script) + 1
    <3>1. script[m].oldLine \in 0..oldIdx /\ script[m].newLine \in 0..newIdx
      BY <2>0, Bounded
    <3> QED BY <2>0, <2>1, <3>1, <1>1, <1>2
  <2>2. CASE n # Len(script) + 1
    <3>1. n \in DOMAIN script /\ script'[n] = script[n]
      BY <2>2, <1>2
    <3> QED BY <2>0, <3>1 DEF DiffInv, ScriptInv, OrderInv
  <2> QED BY <2>1, <2>2
<1>6. CoverInv'
  <2>1. ASSUME NEW l \in 1..oldIdx' PROVE \E n \in DOMAIN script' : script'[n].oldLine = l
    <3>1. CASE l \in 1..oldIdx
      BY <3>1, <1>2 DEF DiffInv, ScriptInv, CoverInv
    <3>2. CASE l \notin 1..oldIdx
      <4>1. line.oldLine = l
        BY <3>2, <2>1, <1>1
      <4> QED BY <4>1, <1>1, <1>2
    <3> QED BY <3>1, <3>2
  <2>2. ASSUME NEW l \in 1..newIdx' PROVE \E n \in DOMAIN script' : script'[n].newLine = l
    <3>1. CASE l \in 1..newIdx
      BY <3>1, <1>2 DEF DiffInv, ScriptInv, CoverInv
    <3>2. CASE l \notin 1..newIdx
      <4>1. line.newLine = l
        BY <3>2, <2>2, <1>1
      <4> QED BY <4>1, <1>1, <1>2
    <3> QED BY <3>1, <3>2
  <2> QED BY <2>1, <2>2 DEF CoverInv
<1> QED BY <1>4, <1>5, <1>6

LEMMA AccountStep == DiffInv /\ DiffTurn => (LineInv /\ OrderInv /\ CoverInv)'
<1> SUFFICES ASSUME DiffInv, DiffTurn PROVE (LineInv /\ OrderInv /\ CoverInv)'
  OBVIOUS
<1>0. UNCHANGED <<old, new>> /\ oldIdx \in Nat /\ newIdx \in Nat
  BY Frames, Lengths DEF DiffInv, DiffTypeOK
<1>1. CASE Delete
  <2> DEFINE line == [text |-> old[oldIdx + 1], change |-> "-", oldLine |-> oldIdx + 1, newLine |-> 0]
  <2>1. script' = Append(script, line) /\ oldIdx' = oldIdx + 1 /\ newIdx' = newIdx
    BY <1>1 DEF Delete, Emit
  <2>2. line.change = "-" /\ line.oldLine = oldIdx + 1 /\ line.newLine = 0 /\ line.text = old[oldIdx + 1]
    OBVIOUS
  <2> HIDE DEF line
  <2> QED BY <2>1, <2>2, <1>0, LineAdded
<1>2. CASE Add
  <2> DEFINE line == [text |-> new[newIdx + 1], change |-> "+", oldLine |-> 0, newLine |-> newIdx + 1]
  <2>1. script' = Append(script, line) /\ oldIdx' = oldIdx /\ newIdx' = newIdx + 1
    BY <1>2 DEF Add, Emit
  <2>2. line.change = "+" /\ line.oldLine = 0 /\ line.newLine = newIdx + 1 /\ line.text = new[newIdx + 1]
    OBVIOUS
  <2> HIDE DEF line
  <2> QED BY <2>1, <2>2, <1>0, LineAdded
<1>3. CASE Keep
  <2> DEFINE line == [text |-> old[oldIdx + 1], change |-> " ",
                      oldLine |-> oldIdx + 1, newLine |-> newIdx + 1]
  <2>1. script' = Append(script, line) /\ oldIdx' = oldIdx + 1 /\ newIdx' = newIdx + 1
    BY <1>3 DEF Keep, Emit
  <2>2. line.change = " " /\ line.oldLine = oldIdx + 1 /\ line.newLine = newIdx + 1
        /\ line.text = old[oldIdx + 1]
    OBVIOUS
  <2>3. old[oldIdx + 1] = new[newIdx + 1]
    <3>1. /\ oldIdx + 1 = chain[turn] /\ newIdx + 1 = match[chain[turn]]
          /\ chain[turn] \in DOMAIN old /\ match[chain[turn]] \in DOMAIN new
      BY <1>3, KeptIsNext DEF DiffInv, MatchInv, ScriptInv
    <3>2. match[chain[turn]] # 0
      BY <3>1, <1>0
    <3> QED BY <3>1, <3>2 DEF DiffInv, MatchInv, PairInv
  <2> HIDE DEF line
  <2> QED BY <2>1, <2>2, <2>3, <1>0, LineAdded
<1>4. CASE UNCHANGED scriptVars
  BY <1>0, <1>4, ScriptKept
<1> QED BY <1>1, <1>2, <1>3, <1>4, Frames

LEMMA WholeStep == DiffInv /\ DiffTurn => WholeInv'
<1> SUFFICES ASSUME DiffInv, DiffTurn PROVE WholeInv'
  OBVIOUS
<1> USE DEF WholeInv, Goto, NextTurn, scriptVars, pairVars
<1>0. WholeInv
  BY DEF DiffInv, ScriptInv
<1>1. CASE Compare \/ PairingDone \/ TraceDone \/ EmitDone
  BY <1>0, <1>1 DEF Compare, PairingDone, TraceDone, EmitDone
<1>2. CASE Pair \/ NoPair
  BY <1>0, <1>2 DEF Pair, NoPair, InPairing
<1>3. CASE RankFirst \/ RankAfter \/ NoAnchor \/ RankingDone
  BY <1>0, <1>3 DEF RankFirst, RankAfter, NoAnchor, RankingDone, InRanking
<1>4. CASE Trace
  BY <1>0, <1>4 DEF Trace
<1>5. CASE Delete \/ Add \/ Keep
  BY <1>0, <1>5 DEF Delete, Add, Keep, Emitting
<1>6. CASE OpenHunk \/ CloseHunk \/ StayInHunk \/ StayOutside \/ HunksDone
  BY <1>0, <1>6 DEF OpenHunk, CloseHunk, StayInHunk, StayOutside, HunksDone, InHunks
<1> QED BY <1>1, <1>2, <1>3, <1>4, <1>5, <1>6 DEF DiffTurn
-----------------------------------------------------------------------------
\* Hunks are cut while the script stands still.
LEMMA CutsStandStill ==
  ASSUME UNCHANGED scriptVars
  PROVE  \A n : NearChange(n)' <=> NearChange(n)
BY DEF NearChange, Changed, scriptVars

LEMMA HunkStep == DiffInv /\ DiffTurn => HunkInv' /\ FoundInv'
<1> SUFFICES ASSUME DiffInv, DiffTurn PROVE HunkInv' /\ FoundInv'
  OBVIOUS
<1>0. /\ HunkInv /\ FoundInv /\ Untouched
      /\ Len(script) \in Nat /\ DOMAIN script = 1..Len(script)
      /\ Len(hunks) \in Nat /\ DOMAIN hunks = 1..Len(hunks)
      /\ turn \in Nat \ {0} /\ hunkStart \in 0..Len(script)
      /\ hunks \in Seq([first : DOMAIN script, last : DOMAIN script])
  BY Lengths DEF DiffInv, MatchInv, DiffTypeOK
<1>1. CASE step' \notin {"hunks", "done"}
  <2>1. hunks' = <<>>
    BY <1>1, <1>0, UntouchedStep DEF DiffTurn, Compare, Pair, NoPair, PairingDone, RankFirst, RankAfter,
       NoAnchor, RankingDone, Trace, TraceDone, Delete, Add, Keep, EmitDone, OpenHunk, CloseHunk,
       StayInHunk, StayOutside, HunksDone, InPairing, InRanking, InHunks, Emitting, Goto, NextTurn,
       hunkVars, Untouched
  <2> QED BY <1>1, <2>1 DEF HunkInv, FoundInv
<1>2. CASE Compare /\ step' = "done"
  <2>1. hunks' = <<>> /\ script' = <<>>
    BY <1>2, <1>0 DEF Compare, Untouched, hunkVars, scriptVars
  <2> QED BY <1>2, <2>1 DEF HunkInv, FoundInv
<1>3. CASE EmitDone
  <2>1. hunks' = <<>> /\ hunkStart' = 0 /\ turn' = 1 /\ step' = "hunks" /\ script' = script
    BY <1>3, <1>0 DEF EmitDone, Emitting, Goto, Untouched, hunkVars, scriptVars
  <2> QED BY <2>1, <1>0 DEF HunkInv, FoundInv
<1>4. CASE OpenHunk \/ CloseHunk \/ StayInHunk \/ StayOutside
  <2>0. /\ UNCHANGED scriptVars /\ script' = script /\ step = "hunks" /\ step' = "hunks"
        /\ turn \in DOMAIN script /\ turn' = turn + 1
    BY <1>4 DEF OpenHunk, CloseHunk, StayInHunk, StayOutside, InHunks, NextTurn, scriptVars
  <2>1. \A n : NearChange(n)' <=> NearChange(n)
    BY <2>0, CutsStandStill
  <2>2. /\ hunkStart # 0 => hunkStart < turn /\ Stretch(hunkStart, turn - 1)
        /\ hunkStart = 0 => turn = 1 \/ ~NearChange(turn - 1)
        /\ \A n \in 1..turn - 1 : NearChange(n) => InSomeHunk(n) \/ (hunkStart # 0 /\ hunkStart <= n)
    BY <1>0, <2>0 DEF HunkInv, FoundInv
  <2>3. turn' <= Len(script') + 1
    BY <2>0, <1>0
  <2>4. CASE OpenHunk
    <3>1. NearChange(turn) /\ hunkStart = 0 /\ hunkStart' = turn /\ hunks' = hunks
      BY <2>4 DEF OpenHunk
    <3>2. Stretch(turn, turn)
      BY <3>1, <2>2, <1>0 DEF Stretch
    <3>3. HunkInv'
      BY <1>0, <2>0, <2>1, <2>3, <3>1, <3>2 DEF HunkInv, Stretch
    <3>4. \A n \in 1..turn' - 1 : n \in 1..turn - 1 \/ n = turn
      BY <1>0, <2>0
    <3>5. \A n \in 1..turn - 1 : NearChange(n) => InSomeHunk(n)
      BY <2>2, <3>1
    <3>6. \A n \in 1..turn' - 1 : NearChange(n)' => InSomeHunk(n)' \/ turn <= n
      <4>1. \A n : InSomeHunk(n)' <=> InSomeHunk(n)
        BY <3>1 DEF InSomeHunk
      <4>2. turn <= turn
        BY <1>0
      <4> QED BY <2>1, <3>4, <3>5, <4>1, <4>2
    <3> QED BY <3>1, <3>3, <3>6, <2>0, <1>0 DEF FoundInv
  <2>5. CASE CloseHunk
    <3>1. /\ ~NearChange(turn) /\ hunkStart # 0 /\ hunkStart' = 0
          /\ hunks' = Append(hunks, [first |-> hunkStart, last |-> turn - 1])
      BY <2>5 DEF CloseHunk
    <3>2. /\ DOMAIN hunks' = 1..Len(hunks) + 1
          /\ hunks'[Len(hunks) + 1].first = hunkStart /\ hunks'[Len(hunks) + 1].last = turn - 1
          /\ \A h \in DOMAIN hunks' : h # Len(hunks) + 1 => h \in DOMAIN hunks /\ hunks'[h] = hunks[h]
          /\ \A h \in DOMAIN hunks : h \in DOMAIN hunks' /\ hunks'[h] = hunks[h]
      BY <3>1, <1>0
    <3>3. /\ hunkStart <= turn - 1 /\ Stretch(hunkStart, turn - 1) /\ turn - 1 + 1 = turn
      BY <3>1, <2>2, <1>0
    <3>4. ASSUME NEW h \in DOMAIN hunks'
          PROVE /\ hunks'[h].first <= hunks'[h].last
                /\ Stretch(hunks'[h].first, hunks'[h].last)
                /\ hunks'[h].last = Len(script) \/ ~NearChange(hunks'[h].last + 1)
      <4>1. CASE h = Len(hunks) + 1
        BY <4>1, <3>1, <3>2, <3>3
      <4>2. CASE h # Len(hunks) + 1
        BY <4>2, <3>2, <1>0 DEF HunkInv
      <4> QED BY <4>1, <4>2
    <3>5. turn' - 1 = turn /\ turn' # 1
      BY <2>0, <1>0
    <3>6. HunkInv'
      BY <2>0, <2>1, <2>3, <3>1, <3>4, <3>5 DEF HunkInv, Stretch
    <3>7. ASSUME NEW n \in 1..turn' - 1, NearChange(n) PROVE InSomeHunk(n)'
      <4>1. n \in 1..turn - 1
        BY <3>7, <3>1, <3>5, <1>0
      <4>2. CASE InSomeHunk(n)
        BY <4>2, <3>2 DEF InSomeHunk
      <4>3. CASE hunkStart <= n
        <5>1. Len(hunks) + 1 \in DOMAIN hunks'
          BY <3>2, <1>0
        <5>2. hunks'[Len(hunks) + 1].first <= n /\ n <= hunks'[Len(hunks) + 1].last
          BY <4>1, <4>3, <3>2, <1>0
        <5> QED BY <5>1, <5>2 DEF InSomeHunk
      <4> QED BY <3>7, <4>1, <4>2, <4>3, <2>2
    <3>8. \A n \in 1..turn' - 1 : NearChange(n)' => InSomeHunk(n)'
      BY <3>7, <2>1
    <3> QED BY <3>6, <3>8, <2>0 DEF FoundInv
  <2>6. CASE StayInHunk
    <3>1. NearChange(turn) /\ hunkStart # 0 /\ hunkStart' = hunkStart /\ hunks' = hunks
      BY <2>6 DEF StayInHunk, hunkVars
    <3>2. turn' - 1 = turn /\ hunkStart < turn'
      BY <2>0, <2>2, <3>1, <1>0
    <3>3. \A n \in hunkStart..turn : n \in hunkStart..turn - 1 \/ n = turn
      BY <1>0
    <3>4. Stretch(hunkStart, turn)
      BY <3>1, <3>3, <2>2 DEF Stretch
    <3>5. HunkInv'
      BY <1>0, <2>0, <2>1, <2>3, <3>1, <3>2, <3>4 DEF HunkInv, Stretch
    <3>6. \A n \in 1..turn' - 1 : n \in 1..turn - 1 \/ n = turn
      BY <1>0, <2>0
    <3>7. hunkStart <= turn
      BY <2>2, <3>1, <1>0
    <3>8. \A n \in 1..turn' - 1 : NearChange(n)' => InSomeHunk(n)' \/ hunkStart <= n
      BY <2>1, <2>2, <3>1, <3>6, <3>7 DEF InSomeHunk
    <3> QED BY <3>1, <3>5, <3>8, <2>0 DEF FoundInv
  <2>7. CASE StayOutside
    <3>1. ~NearChange(turn) /\ hunkStart = 0 /\ hunkStart' = 0 /\ hunks' = hunks
      BY <2>7 DEF StayOutside, hunkVars
    <3>2. turn' - 1 = turn
      BY <2>0, <1>0
    <3>3. HunkInv'
      BY <1>0, <2>0, <2>1, <2>3, <3>1, <3>2 DEF HunkInv, Stretch
    <3>4. \A n \in 1..turn' - 1 : n \in 1..turn - 1 \/ n = turn
      BY <1>0, <2>0
    <3>5. \A n \in 1..turn' - 1 : NearChange(n)' => InSomeHunk(n)'
      BY <2>1, <2>2, <3>1, <3>4 DEF InSomeHunk
    <3> QED BY <3>3, <3>5, <2>0 DEF FoundInv
  <2> QED BY <1>4, <2>4, <2>5, <2>6, <2>7
<1>5. CASE HunksDone
  <2>0. /\ UNCHANGED scriptVars /\ script' = script /\ step = "hunks" /\ step' = "done"
        /\ turn \notin DOMAIN script
    BY <1>5 DEF HunksDone, Goto, scriptVars
  <2>1. \A n : NearChange(n)' <=> NearChange(n)
    BY <2>0, CutsStandStill
  <2>2. turn = Len(script) + 1 /\ turn - 1 = Len(script)
    BY <2>0, <1>0 DEF HunkInv
  <2>3. /\ hunkStart # 0 => hunkStart < turn /\ Stretch(hunkStart, turn - 1)
        /\ \A n \in DOMAIN script : NearChange(n) => InSomeHunk(n) \/ (hunkStart # 0 /\ hunkStart <= n)
    BY <1>0, <2>0, <2>2 DEF HunkInv, FoundInv
  <2>4. CASE hunkStart = 0
    <3>1. hunks' = hunks
      BY <2>4, <1>5 DEF HunksDone
    <3> QED BY <3>1, <2>0, <2>1, <2>3, <2>4, <1>0 DEF HunkInv, FoundInv, InSomeHunk, Stretch
  <2>5. CASE hunkStart # 0
    <3>1. hunks' = Append(hunks, [first |-> hunkStart, last |-> Len(script)])
      BY <2>5, <1>5 DEF HunksDone
    <3>2. /\ DOMAIN hunks' = 1..Len(hunks) + 1
          /\ hunks'[Len(hunks) + 1].first = hunkStart /\ hunks'[Len(hunks) + 1].last = Len(script)
          /\ \A h \in DOMAIN hunks' : h # Len(hunks) + 1 => h \in DOMAIN hunks /\ hunks'[h] = hunks[h]
          /\ \A h \in DOMAIN hunks : h \in DOMAIN hunks' /\ hunks'[h] = hunks[h]
      BY <3>1, <1>0
    <3>3. hunkStart <= Len(script) /\ Stretch(hunkStart, Len(script))
      BY <2>2, <2>3, <2>5, <1>0
    <3>4. ASSUME NEW h \in DOMAIN hunks'
          PROVE /\ hunks'[h].first <= hunks'[h].last
                /\ Stretch(hunks'[h].first, hunks'[h].last)
                /\ hunks'[h].last = Len(script) \/ ~NearChange(hunks'[h].last + 1)
      <4>1. CASE h = Len(hunks) + 1
        BY <4>1, <3>2, <3>3
      <4>2. CASE h # Len(hunks) + 1
        BY <4>2, <3>2, <1>0 DEF HunkInv
      <4> QED BY <4>1, <4>2
    <3>5. HunkInv'
      BY <2>0, <2>1, <3>4 DEF HunkInv, Stretch
    <3>6. ASSUME NEW n \in DOMAIN script, NearChange(n) PROVE InSomeHunk(n)'
      <4>1. CASE InSomeHunk(n)
        BY <4>1, <3>2 DEF InSomeHunk
      <4>2. CASE hunkStart <= n
        <5>1. Len(hunks) + 1 \in DOMAIN hunks' /\ n <= Len(script)
          BY <3>2, <1>0
        <5> QED BY <4>2, <5>1, <3>2 DEF InSomeHunk
      <4> QED BY <3>6, <4>1, <4>2, <2>3
    <3> QED BY <3>5, <3>6, <2>0, <2>1 DEF FoundInv
  <2> QED BY <2>4, <2>5
<1>6. \/ step' \notin {"hunks", "done"} \/ (Compare /\ step' = "done") \/ EmitDone
      \/ OpenHunk \/ CloseHunk \/ StayInHunk \/ StayOutside \/ HunksDone
  BY DEF DiffTurn, Compare, Pair, NoPair, PairingDone, RankFirst, RankAfter, NoAnchor, RankingDone,
     Trace, TraceDone, Delete, Add, Keep, InPairing, InRanking, Emitting, Goto, NextTurn
<1> QED BY <1>1, <1>2, <1>3, <1>4, <1>5, <1>6

LEMMA DiffInductive == DiffInv /\ [DiffNext]_diffVars => DiffInv'
<1> SUFFICES ASSUME DiffInv, [DiffNext]_diffVars PROVE DiffInv'
  OBVIOUS
<1>1. CASE \E o, n \in Seq(Lines) \ {<<>>} : Call(o, n)
  BY <1>1, TypesStep, CallStarts DEF DiffInv, DiffNext
<1>2. CASE DiffTurn
  <2>1. MatchInv'
    BY <1>2, UntouchedStep, PairStep, RankStep, ChainStep DEF MatchInv
  <2>2. ScriptInv'
    BY <1>2, EmitStep, AccountStep, WholeStep DEF ScriptInv
  <2> QED BY <1>2, <2>1, <2>2, TypesStep, HunkStep DEF DiffInv, DiffNext
<1>3. CASE UNCHANGED diffVars
  <2> USE <1>3 DEF diffVars
  <2>1. DiffTypeOK'
    BY DEF DiffInv, DiffTypeOK
  <2>2. MatchInv'
    BY DEF DiffInv, MatchInv, Untouched, PairInv, RankInv, ChainInv
  <2>3. EmitInv' /\ WholeInv'
    BY DEF DiffInv, ScriptInv, EmitInv, WholeInv, NextOld, NextNew
  <2>4. (LineInv /\ OrderInv /\ CoverInv)'
    BY ScriptKept DEF scriptVars
  <2>5. \A n : NearChange(n)' <=> NearChange(n)
    BY CutsStandStill DEF scriptVars
  <2>6. HunkInv'
    BY <2>5 DEF DiffInv, HunkInv, Stretch
  <2>7. FoundInv'
    BY <2>5 DEF DiffInv, FoundInv, InSomeHunk
  <2> QED BY <2>1, <2>2, <2>3, <2>4, <2>6, <2>7 DEF DiffInv, ScriptInv
<1> QED BY <1>1, <1>2, <1>3 DEF DiffNext

LEMMA DiffInvariant == DiffSpec => []DiffInv
<1>1. DiffInit => DiffInv
  BY Start DEF DiffInv
<1> QED BY <1>1, DiffInductive, PTL DEF DiffSpec
-----------------------------------------------------------------------------
LEMMA HunksTyped ==
  ASSUME DiffTypeOK
  PROVE  \A h \in DOMAIN hunks : hunks[h].first \in 1..Len(script) /\ hunks[h].last \in 1..Len(script)
<1> TAKE h \in DOMAIN hunks
<1>1. hunks \in Seq([first : DOMAIN script, last : DOMAIN script])
  BY DEF DiffTypeOK
<1>2. hunks[h] \in [first : DOMAIN script, last : DOMAIN script]
  BY <1>1, ElementOfSeq, Lengths
<1>3. hunks[h].first \in DOMAIN script /\ hunks[h].last \in DOMAIN script
  BY <1>2
<1> QED BY <1>3, Lengths

\* A line near a change lies in a hunk with all lines of its neighbourhood.
LEMMA HunkClosed ==
  ASSUME DiffInv, NEW h \in DOMAIN hunks, NEW n \in hunks[h].first..hunks[h].last,
         NEW c \in DOMAIN script, Changed(c), n <= c + ContextLines, c <= n + ContextLines
  PROVE  c \in hunks[h].first..hunks[h].last
<1>1. /\ Len(script) \in Nat /\ DOMAIN script = 1..Len(script) /\ ContextLines \in Nat
      /\ hunks[h].first \in 1..Len(script) /\ hunks[h].last \in 1..Len(script)
  BY Lengths, HunksTyped, ContextAssumption DEF DiffInv
<1>2. /\ hunks[h].first = 1 \/ ~NearChange(hunks[h].first - 1)
      /\ hunks[h].last = Len(script) \/ ~NearChange(hunks[h].last + 1)
  BY DEF DiffInv, HunkInv, Stretch
<1>3. ASSUME c < hunks[h].first PROVE FALSE
  <2>1. hunks[h].first - 1 <= c + ContextLines /\ c <= hunks[h].first - 1 + ContextLines
    BY <1>1, <1>3
  <2>2. NearChange(hunks[h].first - 1)
    BY <2>1 DEF NearChange
  <2> QED BY <1>1, <1>2, <1>3, <2>2
<1>4. ASSUME c > hunks[h].last PROVE FALSE
  <2>1. hunks[h].last + 1 <= c + ContextLines /\ c <= hunks[h].last + 1 + ContextLines
    BY <1>1, <1>4
  <2>2. NearChange(hunks[h].last + 1)
    BY <2>1 DEF NearChange
  <2> QED BY <1>1, <1>2, <1>4, <2>2
<1> QED BY <1>1, <1>3, <1>4

LEMMA Tight == DiffInv => HunksTight
<1> DEFINE InHunk(n, h) == hunks[h].first <= n /\ n <= hunks[h].last
           Apart(c, d) == c < d /\ Changed(c) /\ Changed(d) /\ \A n \in c + 1..d - 1 : ~Changed(n)
<1> SUFFICES ASSUME DiffInv, step = "done"
             PROVE /\ \A c, d \in DOMAIN script : Apart(c, d) =>
                        ((\E h \in DOMAIN hunks : InHunk(c, h) /\ InHunk(d, h))
                           <=> d - c - 1 <= 2 * ContextLines)
                   /\ \A h \in DOMAIN hunks : \A n \in hunks[h].first..hunks[h].last :
                        \E c \in hunks[h].first..hunks[h].last :
                          Changed(c) /\ n <= c + ContextLines /\ c <= n + ContextLines
                   /\ \A h \in DOMAIN hunks :
                        /\ hunks[h].first = 1 \/ ~NearChange(hunks[h].first - 1)
                        /\ hunks[h].last = Len(script) \/ ~NearChange(hunks[h].last + 1)
  BY DEF HunksTight
<1>0. /\ Len(script) \in Nat /\ DOMAIN script = 1..Len(script) /\ ContextLines \in Nat
      /\ \A h \in DOMAIN hunks : hunks[h].first \in 1..Len(script) /\ hunks[h].last \in 1..Len(script)
  BY Lengths, HunksTyped, ContextAssumption DEF DiffInv
<1>1. ASSUME NEW h \in DOMAIN hunks, NEW n \in hunks[h].first..hunks[h].last
      PROVE  \E c \in hunks[h].first..hunks[h].last :
               Changed(c) /\ n <= c + ContextLines /\ c <= n + ContextLines
  <2>1. NearChange(n)
    BY DEF DiffInv, HunkInv, Stretch
  <2>2. PICK c \in DOMAIN script : n <= c + ContextLines /\ c <= n + ContextLines /\ Changed(c)
    BY <2>1 DEF NearChange
  <2>3. c \in hunks[h].first..hunks[h].last
    BY <2>2, HunkClosed
  <2> QED BY <2>2, <2>3
<1>2. ASSUME NEW c \in DOMAIN script, NEW d \in DOMAIN script, Apart(c, d),
             NEW h \in DOMAIN hunks, InHunk(c, h), InHunk(d, h)
      PROVE  d - c - 1 <= 2 * ContextLines
  <2> SUFFICES ASSUME d - c - 1 > 2 * ContextLines PROVE FALSE
    BY <1>0
  <2>1. c + ContextLines + 1 \in hunks[h].first..hunks[h].last
    BY <1>0, <1>2
  <2>2. PICK e \in hunks[h].first..hunks[h].last :
          Changed(e) /\ c + ContextLines + 1 <= e + ContextLines /\ e <= c + ContextLines + 1 + ContextLines
    BY <1>1, <2>1
  <2>3. e \in c + 1..d - 1
    BY <1>0, <2>2
  <2> QED BY <1>2, <2>2, <2>3
<1>3. ASSUME NEW c \in DOMAIN script, NEW d \in DOMAIN script, Apart(c, d),
             d - c - 1 <= 2 * ContextLines
      PROVE  \E h \in DOMAIN hunks : InHunk(c, h) /\ InHunk(d, h)
  <2>1. NearChange(c)
    BY <1>0, <1>3 DEF NearChange
  <2>2. PICK h \in DOMAIN hunks : InHunk(c, h)
    BY <2>1 DEF DiffInv, FoundInv, InSomeHunk
  <2>3. ASSUME hunks[h].last < d PROVE FALSE
    <3>1. \/ hunks[h].last + 1 <= c + ContextLines
          \/ d <= hunks[h].last + 1 + ContextLines
      BY <1>0, <1>3
    <3>2. NearChange(hunks[h].last + 1)
      <4>1. CASE hunks[h].last + 1 <= c + ContextLines
        <5>1. c <= hunks[h].last + 1 + ContextLines
          BY <1>0, <2>2
        <5> QED BY <4>1, <5>1, <1>3 DEF NearChange
      <4>2. CASE d <= hunks[h].last + 1 + ContextLines
        <5>1. hunks[h].last + 1 <= d + ContextLines
          BY <1>0, <2>3
        <5> QED BY <4>2, <5>1, <1>3 DEF NearChange
      <4> QED BY <3>1, <4>1, <4>2
    <3>3. hunks[h].last # Len(script)
      BY <1>0, <2>3
    <3> QED BY <3>2, <3>3 DEF DiffInv, HunkInv
  <2>4. hunks[h].first <= d /\ d <= hunks[h].last
    BY <1>0, <1>3, <2>2, <2>3
  <2> QED BY <2>2, <2>4
<1>4. \A h \in DOMAIN hunks :
        /\ hunks[h].first = 1 \/ ~NearChange(hunks[h].first - 1)
        /\ hunks[h].last = Len(script) \/ ~NearChange(hunks[h].last + 1)
  BY DEF DiffInv, HunkInv, Stretch
<1> HIDE DEF InHunk
<1> QED BY <1>1, <1>2, <1>3, <1>4

LEMMA Exact == DiffInv => ScriptExact
<1> SUFFICES ASSUME DiffInv, step = "hunks" \/ (step = "done" /\ old # new)
             PROVE /\ \A l \in DOMAIN old : \E n \in DOMAIN script :
                        /\ script[n].oldLine = l /\ script[n].text = old[l] /\ script[n].change # "+"
                        /\ \A m \in DOMAIN script : script[m].oldLine = l => m = n
                   /\ \A l \in DOMAIN new : \E n \in DOMAIN script :
                        /\ script[n].newLine = l /\ script[n].text = new[l] /\ script[n].change # "-"
                        /\ \A m \in DOMAIN script : script[m].newLine = l => m = n
                   /\ OrderInv
  BY DEF ScriptExact
<1>0. /\ oldIdx = Len(old) /\ newIdx = Len(new) /\ LineInv /\ OrderInv /\ CoverInv
      /\ DOMAIN old = 1..oldIdx /\ DOMAIN new = 1..newIdx /\ oldIdx \in Nat /\ newIdx \in Nat
      /\ Len(script) \in Nat /\ DOMAIN script = 1..Len(script)
      /\ \A n \in DOMAIN script : script[n].oldLine \in Nat /\ script[n].newLine \in Nat
  BY Lengths, Bounded DEF DiffInv, ScriptInv, WholeInv
<1>1. ASSUME NEW l \in DOMAIN old
      PROVE  \E n \in DOMAIN script :
               /\ script[n].oldLine = l /\ script[n].text = old[l] /\ script[n].change # "+"
               /\ \A m \in DOMAIN script : script[m].oldLine = l => m = n
  <2>1. PICK n \in DOMAIN script : script[n].oldLine = l
    BY <1>0 DEF CoverInv
  <2>2. script[n].change # "+" /\ script[n].text = old[l]
    BY <1>0, <2>1 DEF LineInv
  <2>3. ASSUME NEW m \in DOMAIN script, script[m].oldLine = l PROVE m = n
    <3>1. script[m].change # "+"
      BY <1>0, <2>3 DEF LineInv
    <3>2. ~(m < n) /\ ~(n < m)
      BY <1>0, <2>1, <2>2, <2>3, <3>1 DEF OrderInv
    <3> QED BY <1>0, <3>2
  <2> QED BY <2>1, <2>2, <2>3
<1>2. ASSUME NEW l \in DOMAIN new
      PROVE  \E n \in DOMAIN script :
               /\ script[n].newLine = l /\ script[n].text = new[l] /\ script[n].change # "-"
               /\ \A m \in DOMAIN script : script[m].newLine = l => m = n
  <2>1. PICK n \in DOMAIN script : script[n].newLine = l
    BY <1>0 DEF CoverInv
  <2>2. script[n].change # "-" /\ script[n].text = new[l]
    BY <1>0, <2>1 DEF LineInv
  <2>3. ASSUME NEW m \in DOMAIN script, script[m].newLine = l PROVE m = n
    <3>1. script[m].change # "-"
      BY <1>0, <2>3 DEF LineInv
    <3>2. ~(m < n) /\ ~(n < m)
      BY <1>0, <2>1, <2>2, <2>3, <3>1 DEF OrderInv
    <3> QED BY <1>0, <3>2
  <2> QED BY <2>1, <2>2, <2>3
<1> QED BY <1>0, <1>1, <1>2

\* generateUnifiedDiff keeps its state well typed: no index it computes leaves the
\* text it is used on.
THEOREM DiffTypes == DiffSpec => []DiffTypeOK
<1>1. DiffInv => DiffTypeOK
  BY DEF DiffInv
<1> QED BY <1>1, DiffInvariant, PTL

\* The hunks of every diff are tight and complete, for any context width.
THEOREM HunksAreTight == DiffSpec => []HunksTight
BY Tight, DiffInvariant, PTL

\* The script of every diff is a faithful account of both texts.
THEOREM ScriptIsExact == DiffSpec => []ScriptExact
BY Exact, DiffInvariant, PTL
-----------------------------------------------------------------------------
(* The chain is a longest one.  The rank of an anchor bounds every set of     *)
(* anchors in order that ends with it; the chain is as long as the best rank. *)

InOrder(S) == \A l, m \in S : l < m => match[l] < match[m]
EndsWith(S, l) == l \in S /\ \A m \in S : m <= l

Ranked == {l \in Anchors : step = "rank" => l < turn}

BestInv ==
  /\ step = "rank" => \A l \in DOMAIN old : turn <= l => parent[l] = 0
  /\ step \in {"rank", "trace", "emit"} => \A l \in Ranked :
       /\ parent[l] = 0 => rank[l] = 1
       /\ parent[l] # 0 => parent[l] \in Ranked /\ rank[l] = rank[parent[l]] + 1
       /\ \A S \in SUBSET Anchors : InOrder(S) /\ EndsWith(S, l) => Cardinality(S) <= rank[l]

\* Nothing has a better rank than what has been read and what is still to be read.
TraceInv ==
  /\ step = "trace" => \A m \in Anchors :
       rank[m] <= Len(chain) + (IF at = 0 THEN 0 ELSE rank[at])
  /\ step = "emit" => \A m \in Anchors : rank[m] <= Len(chain)

\* A set of anchors is finite, and has a last one.
LEMMA AnchorSets ==
  ASSUME DiffTypeOK, NEW S \in SUBSET Anchors
  PROVE  /\ IsFiniteSet(S) /\ Cardinality(S) \in Nat
         /\ \A l \in S : l \in Nat /\ l \in DOMAIN old /\ rank[l] \in Nat /\ match[l] \in Nat
         /\ S # {} => \E l \in S : EndsWith(S, l)
<1>1. /\ DOMAIN old = 1..Len(old) /\ Len(old) \in Nat /\ S \subseteq DOMAIN old
      /\ \A m \in S : m \in Nat /\ rank[m] \in 0..Len(old) /\ match[m] \in 0..Len(new)
      /\ Len(new) \in Nat
  BY DEF DiffTypeOK, Anchors
<1>2. IsFiniteSet(S) /\ Cardinality(S) \in Nat
  <2>1. IsFiniteSet(1..Len(old))
    BY <1>1, FS_Interval
  <2>2. IsFiniteSet(S)
    BY <1>1, <2>1, FS_Subset
  <2> QED BY <2>2, FS_CardinalityType
<1>3. ASSUME S # {} PROVE \E l \in S : EndsWith(S, l)
  <2> DEFINE Rest == {Len(old) - m : m \in S}
  <2>1. Rest \subseteq Nat /\ Rest # {}
    BY <1>1, <1>3
  <2>2. PICK r \in Rest : \A t \in Rest : ~(<<t, r>> \in OpToRel(<, Nat))
    BY <2>1, NatLessThanWellFounded, WFMin
  <2>3. \A t \in Rest : ~(t < r)
    BY <2>1, <2>2 DEF OpToRel
  <2>4. PICK l \in S : r = Len(old) - l
    OBVIOUS
  <2>5. ASSUME NEW m \in S PROVE m <= l
    <3>1. ~(Len(old) - m < Len(old) - l)
      BY <2>3, <2>4
    <3>2. m \in Nat /\ l \in Nat
      BY <1>1
    <3> QED BY <1>1, <3>1, <3>2
  <2> QED BY <2>5 DEF EndsWith
<1> QED BY <1>1, <1>2, <1>3

\* Before its last anchor a set in order has one that ends with an earlier anchor of
\* smaller match, or nothing.
LEMMA LastOff ==
  ASSUME DiffTypeOK, NEW l \in Anchors, NEW S \in SUBSET Anchors, InOrder(S), EndsWith(S, l)
  PROVE  \/ Cardinality(S) = 1
         \/ \E m \in Before(l) : /\ InOrder(S \ {l}) /\ EndsWith(S \ {l}, m)
                                /\ Cardinality(S) = Cardinality(S \ {l}) + 1
<1> DEFINE T == S \ {l}
<1>1. /\ IsFiniteSet(S) /\ Cardinality(S) \in Nat
      /\ T \in SUBSET Anchors /\ IsFiniteSet(T) /\ Cardinality(T) \in Nat
      /\ Cardinality(T) = Cardinality(S) - 1
  BY AnchorSets, FS_RemoveElement DEF EndsWith
<1>2. CASE T = {}
  BY <1>1, <1>2, FS_EmptySet
<1>3. CASE T # {}
  <2>1. PICK m \in T : EndsWith(T, m)
    BY <1>1, <1>3, AnchorSets
  <2>2. m \in Nat /\ l \in Nat /\ m <= l /\ m # l
    BY <1>1, <2>1, AnchorSets DEF EndsWith
  <2>3. m < l
    BY <2>2
  <2>4. match[m] < match[l] /\ m \in Anchors
    BY <2>1, <2>3 DEF InOrder, EndsWith
  <2>5. m \in Before(l)
    BY <2>3, <2>4 DEF Before
  <2>6. InOrder(T)
    BY DEF InOrder
  <2> QED BY <1>1, <2>1, <2>5, <2>6
<1> QED BY <1>2, <1>3

LEMMA RankedStep ==
  ASSUME DiffInv, BestInv, step = "rank", turn \in Anchors,
         Anchors' = Anchors, match' = match, old' = old, turn' = turn + 1, step' = step,
         NEW r \in Nat, rank' = [rank EXCEPT ![turn] = r],
         \/ parent' = parent /\ r = 1 /\ Before(turn) = {}
         \/ \E m \in Before(turn) : /\ FirstBest(m, Before(turn)) /\ r = rank[m] + 1
                                  /\ parent' = [parent EXCEPT ![turn] = m]
  PROVE  BestInv'
<1> USE DEF DiffInv
<1>1. /\ turn \in DOMAIN old /\ turn \in Nat /\ rank \in [DOMAIN old -> 0..Len(old)]
      /\ parent \in [DOMAIN old -> 0..Len(old)] /\ DOMAIN old = 1..Len(old) /\ Len(old) \in Nat
      /\ \A l \in Anchors : l \in Nat /\ l \in DOMAIN old
  BY Lengths, SMTT(30) DEF Anchors, DiffTypeOK
<1>2. Ranked' = Ranked \cup {turn} /\ turn \notin Ranked
  BY <1>1 DEF Ranked
<1>3. \A l \in Ranked : rank'[l] = rank[l] /\ parent'[l] = parent[l] /\ l \in DOMAIN old
  BY <1>1, <1>2 DEF Ranked
<1>4. rank'[turn] = r
  BY <1>1
<1>5. \A m \in Before(turn) : m \in Ranked /\ m \in DOMAIN old /\ m # 0
  BY <1>1 DEF Before, Ranked
<1>6. /\ parent'[turn] = 0 => rank'[turn] = 1
      /\ parent'[turn] # 0 => parent'[turn] \in Ranked' /\ rank'[turn] = rank'[parent'[turn]] + 1
  <2>1. CASE parent' = parent /\ r = 1 /\ Before(turn) = {}
    <3>1. parent[turn] = 0
      BY <1>1 DEF BestInv
    <3> QED BY <2>1, <3>1, <1>4
  <2>2. ASSUME NEW m \in Before(turn), r = rank[m] + 1, parent' = [parent EXCEPT ![turn] = m]
        PROVE /\ parent'[turn] = 0 => rank'[turn] = 1
              /\ parent'[turn] # 0 => parent'[turn] \in Ranked' /\ rank'[turn] = rank'[parent'[turn]] + 1
    <3>1. parent'[turn] = m /\ m # 0 /\ m \in Ranked /\ rank'[m] = rank[m]
      BY <1>1, <1>3, <1>5, <2>2
    <3> QED BY <1>2, <1>4, <2>2, <3>1
  <2> QED BY <2>1, <2>2
<1>7. ASSUME NEW S \in SUBSET Anchors, InOrder(S), EndsWith(S, turn)
      PROVE  Cardinality(S) <= r
  <2>1. Cardinality(S) = 1 => Cardinality(S) <= r
    <3>1. r >= 1
      <4>1. \A m \in Before(turn) : rank[m] \in Nat
        BY <1>1, <1>5
      <4> QED BY <4>1
    <3> QED BY <3>1
  <2>2. ASSUME NEW m \in Before(turn), InOrder(S \ {turn}), EndsWith(S \ {turn}, m),
               Cardinality(S) = Cardinality(S \ {turn}) + 1
        PROVE  Cardinality(S) <= r
    <3>1. PICK b \in Before(turn) : FirstBest(b, Before(turn)) /\ r = rank[b] + 1
      BY <2>2
    <3>2. rank[m] <= rank[b] /\ rank[m] \in Nat /\ rank[b] \in Nat
      BY <1>1, <1>5, <2>2, <3>1 DEF FirstBest
    <3>3. S \ {turn} \in SUBSET Anchors /\ Cardinality(S \ {turn}) \in Nat
      BY AnchorSets
    <3>4. Cardinality(S \ {turn}) <= rank[m]
      BY <1>5, <2>2, <3>3 DEF BestInv
    <3> QED BY <2>2, <3>1, <3>2, <3>3, <3>4
  <2> QED BY <1>7, <2>1, <2>2, LastOff
<1>8. \A l \in DOMAIN old' : turn' <= l => parent'[l] = 0
  <2>1. \A l \in DOMAIN old : turn + 1 <= l => l # turn /\ turn <= l
    BY <1>1
  <2>2. \A l \in DOMAIN old : l # turn => parent'[l] = parent[l]
    BY <1>1
  <2> QED BY <2>1, <2>2 DEF BestInv
<1>9. ASSUME NEW l \in Ranked'
      PROVE  /\ parent'[l] = 0 => rank'[l] = 1
             /\ parent'[l] # 0 => parent'[l] \in Ranked' /\ rank'[l] = rank'[parent'[l]] + 1
             /\ \A S \in SUBSET Anchors : InOrder(S) /\ EndsWith(S, l) => Cardinality(S) <= rank'[l]
  <2>1. CASE l = turn
    BY <2>1, <1>4, <1>6, <1>7
  <2>2. CASE l # turn
    <3>1. l \in Ranked
      BY <1>2, <2>2
    <3>2. /\ parent[l] = 0 => rank[l] = 1
          /\ parent[l] # 0 => parent[l] \in Ranked /\ rank[l] = rank[parent[l]] + 1
          /\ \A S \in SUBSET Anchors : InOrder(S) /\ EndsWith(S, l) => Cardinality(S) <= rank[l]
      BY <3>1 DEF BestInv
    <3> QED BY <1>2, <1>3, <3>1, <3>2
  <2> QED BY <2>1, <2>2
<1>10. \A S : InOrder(S)' <=> InOrder(S)
  BY DEF InOrder
<1> QED BY <1>8, <1>9, <1>10 DEF BestInv, EndsWith

\* Where the anchors, their ranks and the chain stand still so do the bounds.
LEMMA BestKept ==
  ASSUME BestInv, UNCHANGED <<pairVars, rankVars>>, Ranked' = Ranked,
         step \in {"rank", "trace", "emit"},
         step' = "rank" => step = "rank" /\ turn <= turn' /\ turn \in Nat /\ turn' \in Nat,
         DOMAIN old \subseteq Nat
  PROVE  BestInv'
<1>1. Anchors' = Anchors /\ \A S : InOrder(S)' <=> InOrder(S)
  BY DEF pairVars, Anchors, InOrder
<1>2. step' = "rank" => \A l \in DOMAIN old : turn' <= l => parent[l] = 0
  <2>1. step' = "rank" => \A l \in DOMAIN old : turn' <= l => turn <= l
    OBVIOUS
  <2> QED BY <2>1 DEF BestInv
<1> QED BY <1>1, <1>2 DEF BestInv, EndsWith, pairVars, rankVars

LEMMA LongStep == DiffInv /\ BestInv /\ TraceInv /\ [DiffNext]_diffVars => BestInv' /\ TraceInv'
<1> SUFFICES ASSUME DiffInv, BestInv, TraceInv, [DiffNext]_diffVars PROVE BestInv' /\ TraceInv'
  OBVIOUS
<1>0. /\ DiffTypeOK /\ Untouched /\ ChainInv
      /\ DOMAIN old = 1..Len(old) /\ Len(old) \in Nat /\ turn \in Nat /\ turn # 0
      /\ \A l \in Anchors : l \in DOMAIN old /\ l # 0
      /\ rank \in [DOMAIN old -> 0..Len(old)] /\ chain \in Seq(DOMAIN old)
      /\ Len(chain) \in Nat
  BY Lengths DEF DiffInv, MatchInv, DiffTypeOK, Anchors
<1>1. ASSUME step' \notin {"rank", "trace", "emit"} PROVE BestInv' /\ TraceInv'
  BY <1>1 DEF BestInv, TraceInv
<1>2. CASE PairingDone
  <2>1. /\ step = "pair" /\ step' = "rank" /\ turn' = 1
        /\ UNCHANGED <<old, match, parent>>
    BY <1>2 DEF PairingDone, Goto, pairVars, rankVars
  <2>2. Ranked' = {}
    BY <2>1, <1>0 DEF Ranked, Anchors
  <2>3. \A l \in DOMAIN old : parent[l] = 0
    BY <2>1, <1>0 DEF Untouched
  <2> QED BY <2>1, <2>2, <2>3 DEF BestInv, TraceInv
<1>3. CASE RankFirst
  <2>1. /\ step = "rank" /\ step' = "rank" /\ turn' = turn + 1 /\ turn \in Anchors
        /\ Before(turn) = {} /\ rank' = [rank EXCEPT ![turn] = 1] /\ parent' = parent
        /\ old' = old /\ match' = match /\ Anchors' = Anchors
    BY <1>3 DEF RankFirst, InRanking, NextTurn, pairVars, Anchors
  <2>2. BestInv'
    BY <2>1, RankedStep
  <2> QED BY <2>1, <2>2 DEF TraceInv
<1>4. CASE RankAfter
  <2>1. /\ step = "rank" /\ step' = "rank" /\ turn' = turn + 1 /\ turn \in Anchors
        /\ old' = old /\ match' = match /\ Anchors' = Anchors
    BY <1>4 DEF RankAfter, InRanking, NextTurn, pairVars, Anchors
  <2>2. PICK m \in Before(turn) :
          /\ FirstBest(m, Before(turn)) /\ rank' = [rank EXCEPT ![turn] = rank[m] + 1]
          /\ parent' = [parent EXCEPT ![turn] = m]
    BY <1>4 DEF RankAfter
  <2>3. rank[m] + 1 \in Nat
    <3>1. m \in DOMAIN old
      BY <1>0 DEF Before
    <3> QED BY <1>0, <3>1
  <2>4. BestInv'
    BY <2>1, <2>2, <2>3, RankedStep
  <2> QED BY <2>1, <2>4 DEF TraceInv
<1>5. CASE NoAnchor
  <2>1. /\ step = "rank" /\ step' = "rank" /\ turn' = turn + 1 /\ turn \notin Anchors
        /\ UNCHANGED <<pairVars, rankVars>>
    BY <1>5 DEF NoAnchor, InRanking, NextTurn
  <2>2. \A l \in Anchors : l < turn + 1 <=> l < turn
    BY <1>0, <2>1
  <2>3. Ranked' = Ranked
    BY <2>1, <2>2 DEF Ranked, Anchors, pairVars
  <2>4. BestInv'
    BY <1>0, <2>1, <2>3, BestKept
  <2> QED BY <2>1, <2>4 DEF TraceInv
<1>6. CASE RankingDone
  <2>1. /\ step = "rank" /\ step' = "trace" /\ turn \notin DOMAIN old
        /\ UNCHANGED <<pairVars, rankVars, chain>> /\ chain = <<>>
        /\ at' = IF Anchors = {} THEN 0 ELSE CHOOSE m \in Anchors : FirstBest(m, Anchors)
    BY <1>0, <1>6 DEF RankingDone, Goto, Untouched
  <2>2. \A l \in Anchors : l < turn
    BY <1>0, <2>1
  <2>3. Ranked' = Ranked /\ Anchors' = Anchors
    BY <2>1, <2>2 DEF Ranked, Anchors, pairVars
  <2>4. BestInv'
    BY <1>0, <2>1, <2>3, BestKept
  <2>5. ASSUME NEW m \in Anchors PROVE at' \in Anchors /\ rank[m] <= rank[at']
    <3>1. \E b \in Anchors : FirstBest(b, Anchors)
      BY <1>0, <2>5, BestExists
    <3>2. at' \in Anchors /\ FirstBest(at', Anchors)
      BY <2>1, <2>5, <3>1
    <3> QED BY <3>2 DEF FirstBest
  <2>6. \A m \in Anchors : rank[m] <= Len(chain) + (IF at' = 0 THEN 0 ELSE rank[at'])
    BY <1>0, <2>1, <2>5, SMTT(30)
  <2> QED BY <2>1, <2>3, <2>4, <2>6 DEF TraceInv, rankVars
<1>7. CASE Trace
  <2>1. /\ step = "trace" /\ step' = "trace" /\ at # 0 /\ at' = parent[at]
        /\ chain' = <<at>> \o chain /\ UNCHANGED <<pairVars, rankVars>>
    BY <1>7 DEF Trace
  <2>2. at \in Anchors
    BY <1>0, <2>1 DEF DiffTypeOK, ChainInv, Anchors
  <2>3. Ranked' = Ranked /\ Anchors' = Anchors /\ Ranked = Anchors
    BY <2>1 DEF Ranked, Anchors, pairVars
  <2>4. BestInv'
    BY <1>0, <2>1, <2>3, BestKept
  <2>5. Len(chain') = Len(chain) + 1
    BY <1>0, <2>1, <2>2
  <2>6. /\ parent[at] = 0 => rank[at] = 1
        /\ parent[at] # 0 => parent[at] \in Anchors /\ rank[at] = rank[parent[at]] + 1
    BY <2>1, <2>2, <2>3 DEF BestInv
  <2>7. \A m \in Anchors : rank[m] <= Len(chain) + rank[at]
    BY <2>1 DEF TraceInv
  <2>8. Len(chain) + rank[at] = Len(chain') + (IF parent[at] = 0 THEN 0 ELSE rank[parent[at]])
    <3>1. parent[at] # 0 => rank[parent[at]] \in Nat
      BY <1>0, <2>6
    <3> QED BY <1>0, <2>5, <2>6, <3>1, SMTT(30)
  <2> QED BY <2>1, <2>3, <2>4, <2>7, <2>8 DEF TraceInv, rankVars
<1>8. CASE TraceDone
  <2>1. /\ step = "trace" /\ step' = "emit" /\ at = 0
        /\ UNCHANGED <<pairVars, rankVars, chainVars>>
    BY <1>8 DEF TraceDone, Goto
  <2>2. Ranked' = Ranked /\ Anchors' = Anchors
    BY <2>1 DEF Ranked, Anchors, pairVars
  <2>3. BestInv'
    BY <1>0, <2>1, <2>2, BestKept
  <2>4. \A m \in Anchors : rank[m] <= Len(chain)
    BY <1>0, <2>1 DEF TraceInv
  <2> QED BY <2>1, <2>2, <2>3, <2>4 DEF TraceInv, rankVars, chainVars
<1>9. CASE Delete \/ Add \/ Keep
  <2>1. /\ step = "emit" /\ step' = "emit" /\ UNCHANGED <<pairVars, rankVars, chainVars>>
    BY <1>9 DEF Delete, Add, Keep, Emitting, NextTurn
  <2>2. Ranked' = Ranked /\ Anchors' = Anchors
    BY <2>1 DEF Ranked, Anchors, pairVars
  <2>3. BestInv'
    BY <1>0, <2>1, <2>2, BestKept
  <2> QED BY <2>1, <2>2, <2>3 DEF TraceInv, rankVars, chainVars
<1>10. CASE UNCHANGED diffVars
  BY <1>10 DEF diffVars, BestInv, TraceInv, Ranked, Anchors, InOrder, EndsWith
<1>11. \/ step' \notin {"rank", "trace", "emit"}
       \/ PairingDone \/ RankFirst \/ RankAfter \/ NoAnchor \/ RankingDone \/ Trace \/ TraceDone
       \/ Delete \/ Add \/ Keep \/ UNCHANGED diffVars
  BY DEF DiffNext, DiffTurn, Call, Compare, Pair, NoPair, EmitDone, OpenHunk, CloseHunk, StayInHunk,
     StayOutside, HunksDone, InPairing, InHunks, Goto, NextTurn
<1> QED BY <1>1, <1>2, <1>3, <1>4, <1>5, <1>6, <1>7, <1>8, <1>9, <1>10, <1>11

LEMMA Longest == DiffInv /\ BestInv /\ TraceInv => LongestChain
<1> SUFFICES ASSUME DiffInv, BestInv, TraceInv, step = "emit"
             PROVE  LET kept == {chain[n] : n \in DOMAIN chain}
                    IN  /\ \A m, n \in DOMAIN chain : m < n => chain[m] < chain[n]
                        /\ kept \subseteq Anchors /\ InOrder(kept)
                        /\ \A S \in SUBSET Anchors : InOrder(S) => Cardinality(S) <= Len(chain)
  BY DEF LongestChain, InOrder
<1> DEFINE kept == {chain[n] : n \in DOMAIN chain}
<1>0. /\ DiffTypeOK /\ ChainInv /\ chain \in Seq(DOMAIN old) /\ DOMAIN chain = 1..Len(chain)
      /\ Len(chain) \in Nat /\ DOMAIN old = 1..Len(old) /\ Len(old) \in Nat
  BY Lengths DEF DiffInv, MatchInv, DiffTypeOK
<1>1. \A n \in DOMAIN chain : chain[n] \in DOMAIN old /\ chain[n] \in Nat /\ n \in Nat
  BY <1>0
<1>2. \A m, n \in DOMAIN chain :
        m < n => chain[m] < chain[n] /\ match[chain[m]] < match[chain[n]]
  BY <1>0 DEF ChainInv
<1>3. kept \subseteq Anchors
  BY <1>0, <1>1 DEF ChainInv, Anchors
<1>4. InOrder(kept)
  <2> SUFFICES ASSUME NEW m \in DOMAIN chain, NEW n \in DOMAIN chain, chain[m] < chain[n]
               PROVE  match[chain[m]] < match[chain[n]]
    BY DEF InOrder
  <2>1. m # n /\ ~(n < m)
    BY <1>1, <1>2
  <2>2. m < n
    BY <1>1, <2>1
  <2> QED BY <1>2, <2>2
<1>5. ASSUME NEW S \in SUBSET Anchors, InOrder(S) PROVE Cardinality(S) <= Len(chain)
  <2>1. CASE S = {}
    BY <1>0, <2>1, FS_EmptySet
  <2>2. CASE S # {}
    <3>1. PICK l \in S : EndsWith(S, l)
      BY <1>0, <2>2, AnchorSets
    <3>2. l \in Ranked
      BY DEF Ranked
    <3>3. Cardinality(S) <= rank[l] /\ rank[l] <= Len(chain)
      BY <1>5, <3>1, <3>2 DEF BestInv, TraceInv
    <3>4. Cardinality(S) \in Nat /\ rank[l] \in Nat
      BY <1>0, AnchorSets
    <3> QED BY <1>0, <3>3, <3>4
  <2> QED BY <2>1, <2>2
<1> QED BY <1>2, <1>3, <1>4, <1>5

\* The chain that is kept is a longest one, for all texts.
THEOREM ChainIsLongest == DiffSpec => []LongestChain
<1>1. DiffInit => BestInv /\ TraceInv
  BY DEF DiffInit, BestInv, TraceInv
<1> QED BY <1>1, LongStep, Longest, DiffInvariant, PTL DEF DiffSpec

-----------------------------------------------------------------------------
(* Selected: the elements at the places of a set, in their order. *)

LEMMA Places ==
  ASSUME NEW K \in SUBSET Nat, IsFiniteSet(K)
  PROVE  /\ Cardinality(K) \in Nat
         /\ \A k \in K : Place(K, k) \in 1..Cardinality(K)
         /\ \A j, k \in K : j < k => Place(K, j) < Place(K, k)
         /\ \A m \in 1..Cardinality(K) : \E k \in K : Place(K, k) = m
<1> DEFINE UpTo(k) == {j \in K : j <= k}
           n == Cardinality(K)
<1>0. n \in Nat
  BY FS_CardinalityType
<1>1. \A k \in K : IsFiniteSet(UpTo(k)) /\ Cardinality(UpTo(k)) \in Nat /\ Cardinality(UpTo(k)) <= n
  BY FS_Subset, FS_CardinalityType
<1>2. ASSUME NEW k \in K PROVE Place(K, k) \in 1..n
  <2>1. k \in UpTo(k)
    OBVIOUS
  <2>2. Cardinality(UpTo(k)) # 0
    BY <1>1, <2>1, FS_EmptySet
  <2> QED BY <1>0, <1>1, <2>2 DEF Place
<1>3. ASSUME NEW j \in K, NEW k \in K, j < k PROVE Place(K, j) < Place(K, k)
  <2>0. j \in Nat /\ k \in Nat /\ \A i \in K : i \in Nat
    OBVIOUS
  <2>a. \A i \in K : i <= j => i <= k
    BY <1>3, <2>0
  <2>b. k <= k /\ ~(k <= j)
    BY <1>3, <2>0
  <2>1. UpTo(j) \in SUBSET UpTo(k) /\ k \in UpTo(k) /\ k \notin UpTo(j)
    BY <2>a, <2>b
  <2>2. Cardinality(UpTo(j)) <= Cardinality(UpTo(k)) /\ Cardinality(UpTo(j)) # Cardinality(UpTo(k))
    BY <1>1, <2>1, FS_Subset
  <2> QED BY <1>1, <2>2 DEF Place
<1>4. ASSUME NEW m \in 1..n PROVE \E k \in K : Place(K, k) = m
  <2> DEFINE f == [k \in K |-> Place(K, k)]
  <2>1. \A j, k \in K : j # k => Place(K, j) # Place(K, k)
    <3> SUFFICES ASSUME NEW j \in K, NEW k \in K, j # k PROVE Place(K, j) # Place(K, k)
      OBVIOUS
    <3>1. j \in Nat /\ k \in Nat /\ Place(K, j) \in Nat /\ Place(K, k) \in Nat
      BY <1>2
    <3>2. j < k \/ k < j
      BY <3>1
    <3> QED BY <1>3, <3>1, <3>2
  <2>2. f \in Injection(K, 1..n)
    BY <1>2, <2>1 DEF Injection, IsInjective
  <2>3. IsFiniteSet(1..n) /\ Cardinality(1..n) = n
    BY <1>0, FS_Interval
  <2>4. f \in Surjection(K, 1..n)
    BY <2>2, <2>3, FS_Injection
  <2> QED BY <2>4 DEF Surjection
<1> QED BY <1>0, <1>2, <1>3, <1>4

LEMMA SelectedElements ==
  ASSUME NEW S, NEW s \in Seq(S), NEW K \in SUBSET DOMAIN s
  PROVE  /\ Selected(s, K) \in Seq(S) /\ Len(Selected(s, K)) = Cardinality(K)
         /\ Cardinality(K) \in Nat /\ DOMAIN Selected(s, K) = 1..Cardinality(K)
         /\ \A k \in K : /\ Place(K, k) \in 1..Cardinality(K)
                         /\ Selected(s, K)[Place(K, k)] = s[k]
         /\ \A m \in 1..Cardinality(K) : \E k \in K : Place(K, k) = m
<1>1. /\ DOMAIN s = 1..Len(s) /\ Len(s) \in Nat /\ K \in SUBSET Nat
      /\ \A k \in K : s[k] \in S
  OBVIOUS
<1>2. IsFiniteSet(K)
  <2>1. IsFiniteSet(1..Len(s))
    BY <1>1, FS_Interval
  <2> QED BY <1>1, <2>1, FS_Subset
<1> DEFINE n == Cardinality(K)
           At(m) == CHOOSE k \in K : Place(K, k) = m
<1>3. n \in Nat /\ \A m \in 1..n : At(m) \in K /\ Place(K, At(m)) = m
  BY <1>1, <1>2, Places
<1>4. ASSUME NEW k \in K PROVE Place(K, k) \in 1..n /\ At(Place(K, k)) = k
  <2>1. Place(K, k) \in 1..n
    BY <1>1, <1>2, Places
  <2> DEFINE j == At(Place(K, k))
  <2>2. j \in K /\ Place(K, j) = Place(K, k) /\ j \in Nat /\ k \in Nat /\ Place(K, k) \in Nat
    BY <1>1, <1>3, <2>1
  <2> HIDE DEF j
  <2>3. ~(j < k) /\ ~(k < j)
    BY <1>1, <1>2, <2>2, Places
  <2>4. j = k
    BY <2>2, <2>3
  <2> QED BY <2>1, <2>4 DEF j
<1>5. Selected(s, K) = [m \in 1..n |-> s[At(m)]]
  BY DEF Selected
<1> HIDE DEF n, At
<1>6. Selected(s, K) \in Seq(S) /\ Len(Selected(s, K)) = n /\ DOMAIN Selected(s, K) = 1..n
  <2>1. \A m \in 1..n : s[At(m)] \in S
    BY <1>1, <1>3
  <2> QED BY <1>3, <1>5, <2>1
<1>7. \A k \in K : Place(K, k) \in 1..n /\ Selected(s, K)[Place(K, k)] = s[k]
  BY <1>4, <1>5
<1>8. \A m \in 1..n : \E k \in K : Place(K, k) = m
  BY <1>3
<1> QED BY <1>3, <1>6, <1>7, <1>8 DEF n

-----------------------------------------------------------------------------
(* Texts that differ have a hunk: as long as the script has no change, what   *)
(* has been read of the two texts is the same.                                *)

SameInv ==
  step \in {"compare", "pair", "rank", "trace", "emit", "hunks"} =>
    \/ \E n \in DOMAIN script : Changed(n)
    \/ oldIdx = newIdx /\ \A l \in 1..oldIdx : old[l] = new[l]

ChangedAtEnd ==
  step \in {"hunks", "done"} /\ old # new => \E n \in DOMAIN script : Changed(n)

LEMMA SameStep ==
  DiffInv /\ SameInv /\ ChangedAtEnd /\ [DiffNext]_diffVars => SameInv' /\ ChangedAtEnd'
<1> SUFFICES ASSUME DiffInv, SameInv, ChangedAtEnd, [DiffNext]_diffVars
             PROVE  SameInv' /\ ChangedAtEnd'
  OBVIOUS
<1>0. /\ DiffTypeOK /\ PairInv /\ ChainInv /\ EmitInv /\ Untouched
      /\ Len(script) \in Nat /\ DOMAIN script = 1..Len(script)
      /\ oldIdx \in Nat /\ newIdx \in Nat
  BY Lengths DEF DiffInv, MatchInv, ScriptInv, DiffTypeOK
\* A line is appended to the script.
<1>a. ASSUME NEW line, script' = Append(script, line)
      PROVE  /\ (\E n \in DOMAIN script : Changed(n)) => \E n \in DOMAIN script' : Changed(n)'
             /\ line.change # " " => \E n \in DOMAIN script' : Changed(n)'
  <2>1. /\ \A n \in DOMAIN script : n \in DOMAIN script' /\ script'[n] = script[n]
        /\ Len(script) + 1 \in DOMAIN script' /\ script'[Len(script) + 1] = line
    BY <1>0, <1>a
  <2> QED BY <2>1 DEF Changed
<1>1. CASE \E o, n \in Seq(Lines) \ {<<>>} : Call(o, n)
  BY <1>1 DEF Call, SameInv, ChangedAtEnd
<1>2. CASE Compare
  <2>1. /\ step = "compare" /\ oldIdx = 0 /\ newIdx = 0 /\ UNCHANGED <<old, new, script, oldIdx, newIdx>>
        /\ step' = IF old = new THEN "done" ELSE "pair"
    BY <1>0, <1>2 DEF Compare, Untouched, Goto, pairVars, scriptVars
  <2> QED BY <2>1 DEF SameInv, ChangedAtEnd
<1>3. ASSUME UNCHANGED <<old, new, script, oldIdx, newIdx>>,
             step' \in {"compare", "pair", "rank", "trace", "emit"},
             step \in {"compare", "pair", "rank", "trace", "emit"}
      PROVE  SameInv' /\ ChangedAtEnd'
  BY <1>3 DEF SameInv, ChangedAtEnd, Changed
<1>4. CASE Delete
  <2>1. step' = "emit" /\ \E line : line.change # " " /\ script' = Append(script, line)
    BY <1>4 DEF Delete, Emit, Emitting
  <2> QED BY <1>a, <2>1 DEF SameInv, ChangedAtEnd
<1>5. CASE Add
  <2>1. step' = "emit" /\ \E line : line.change # " " /\ script' = Append(script, line)
    BY <1>5 DEF Add, Emit, Emitting
  <2> QED BY <1>a, <2>1 DEF SameInv, ChangedAtEnd
<1>6. CASE Keep
  <2>1. /\ step = "emit" /\ step' = "emit" /\ oldIdx' = oldIdx + 1 /\ newIdx' = newIdx + 1
        /\ old' = old /\ new' = new
    BY <1>6 DEF Keep, Emitting, NextTurn, pairVars
  <2>2. PICK line : script' = Append(script, line)
    BY <1>6 DEF Keep, Emit
  <2>3. old[oldIdx + 1] = new[newIdx + 1]
    <3>1. /\ oldIdx + 1 \in DOMAIN old /\ match[oldIdx + 1] = newIdx + 1
      BY <1>0, <1>6, KeptIsNext
    <3>2. match[oldIdx + 1] # 0
      BY <1>0, <3>1
    <3> QED BY <1>0, <3>1, <3>2 DEF PairInv
  <2>4. CASE \E n \in DOMAIN script : Changed(n)
    BY <1>a, <2>1, <2>2, <2>4 DEF SameInv, ChangedAtEnd
  <2>5. CASE oldIdx = newIdx /\ \A l \in 1..oldIdx : old[l] = new[l]
    <3>1. \A l \in 1..oldIdx + 1 : l \in 1..oldIdx \/ l = oldIdx + 1
      BY <1>0
    <3>2. \A l \in 1..oldIdx' : old'[l] = new'[l]
      BY <2>1, <2>3, <2>5, <3>1
    <3> QED BY <2>1, <2>5, <3>2 DEF SameInv, ChangedAtEnd
  <2> QED BY <2>1, <2>4, <2>5 DEF SameInv
<1>7. CASE EmitDone
  <2>1. /\ step = "emit" /\ step' = "hunks" /\ UNCHANGED <<old, new, script, oldIdx, newIdx>>
        /\ oldIdx = Len(old) /\ newIdx = Len(new)
    BY <1>7 DEF EmitDone, Emitting, Goto, pairVars, scriptVars
  <2>2. ASSUME oldIdx = newIdx, \A l \in 1..oldIdx : old[l] = new[l] PROVE old = new
    <3>1. old \in Seq(Lines) /\ new \in Seq(Lines) /\ Len(old) = Len(new)
      BY <1>0, <2>1, <2>2 DEF DiffTypeOK
    <3> QED BY <2>1, <2>2, <3>1, SeqEqual
  <2> QED BY <2>1, <2>2 DEF SameInv, ChangedAtEnd, Changed
<1>8. ASSUME step \in {"hunks", "done"}, UNCHANGED <<old, new, script, oldIdx, newIdx>>,
             step' \in {step, "done"}
      PROVE  SameInv' /\ ChangedAtEnd'
  BY <1>8 DEF SameInv, ChangedAtEnd, Changed
<1>9. CASE UNCHANGED diffVars
  BY <1>9 DEF diffVars, SameInv, ChangedAtEnd, Changed
<1>10. CASE Pair \/ NoPair \/ PairingDone \/ RankFirst \/ RankAfter \/ NoAnchor \/ RankingDone
            \/ Trace \/ TraceDone
  BY <1>3, <1>10 DEF Pair, NoPair, PairingDone, RankFirst, RankAfter, NoAnchor, RankingDone, Trace,
     TraceDone, InPairing, InRanking, Goto, NextTurn, pairVars, scriptVars
<1>11. CASE OpenHunk \/ CloseHunk \/ StayInHunk \/ StayOutside \/ HunksDone
  BY <1>8, <1>11 DEF OpenHunk, CloseHunk, StayInHunk, StayOutside, HunksDone, InHunks, Goto,
     NextTurn, pairVars, scriptVars
<1> QED BY <1>1, <1>2, <1>4, <1>5, <1>6, <1>7, <1>9, <1>10, <1>11 DEF DiffNext, DiffTurn

\* generateUnifiedDiff returns something exactly when the texts differ.
LEMMA SomeHunk ==
  ASSUME DiffInv, ChangedAtEnd, step = "done", old # new
  PROVE  Output # <<>>
<1>1. PICK c \in DOMAIN script : Changed(c)
  BY DEF ChangedAtEnd
<1>2. NearChange(c)
  BY <1>1, Lengths, ContextAssumption DEF NearChange, DiffInv
<1>3. PICK h \in DOMAIN hunks : TRUE
  BY <1>2 DEF DiffInv, FoundInv, InSomeHunk
<1>4. h \in DOMAIN Output
  BY DEF Output
<1> QED BY <1>4

-----------------------------------------------------------------------------
(* The hunks are cut one behind the other. *)

CutsInv ==
  /\ \A g, h \in DOMAIN hunks : g < h => hunks[g].last < hunks[h].first
  /\ step = "hunks" => \A h \in DOMAIN hunks :
       hunks[h].last < turn /\ (hunkStart # 0 => hunks[h].last < hunkStart)

LEMMA CutsStep == DiffInv /\ CutsInv /\ [DiffNext]_diffVars => CutsInv'
<1> SUFFICES ASSUME DiffInv, CutsInv, [DiffNext]_diffVars PROVE CutsInv'
  OBVIOUS
<1>0. /\ hunks \in Seq([first : DOMAIN script, last : DOMAIN script])
      /\ turn \in Nat /\ hunkStart \in Nat /\ Len(script) \in Nat /\ DOMAIN script = 1..Len(script)
      /\ \A h \in DOMAIN hunks : hunks[h].first \in Nat /\ hunks[h].last \in Nat
                                   /\ hunks[h].first <= hunks[h].last
      /\ step = "hunks" /\ hunkStart # 0 => hunkStart < turn
  <2>1. /\ hunks \in Seq([first : DOMAIN script, last : DOMAIN script])
        /\ turn \in Nat /\ hunkStart \in 0..Len(script)
    BY DEF DiffInv, DiffTypeOK
  <2>2. Len(script) \in Nat /\ DOMAIN script = 1..Len(script)
    BY Lengths DEF DiffInv
  <2>3. \A h \in DOMAIN hunks : hunks[h].first \in 1..Len(script) /\ hunks[h].last \in 1..Len(script)
    BY HunksTyped DEF DiffInv
  <2>4. /\ \A h \in DOMAIN hunks : hunks[h].first <= hunks[h].last
        /\ step = "hunks" /\ hunkStart # 0 => hunkStart < turn
    BY DEF DiffInv, HunkInv
  <2> QED BY <2>1, <2>2, <2>3, <2>4
<1>1. CASE \E o, n \in Seq(Lines) \ {<<>>} : Call(o, n)
  BY <1>1 DEF Call, CutsInv
<1>2. CASE EmitDone
  <2>1. hunks' = <<>>
    BY <1>2 DEF EmitDone, Emitting, DiffInv, MatchInv, Untouched, hunkVars
  <2> QED BY <2>1 DEF CutsInv
<1>3. ASSUME UNCHANGED hunks, step' # "hunks" \/ (step' = step /\ UNCHANGED <<turn, hunkStart>>)
      PROVE  CutsInv'
  BY <1>3 DEF CutsInv
<1>4. ASSUME step = "hunks", UNCHANGED hunks, step' = "hunks", turn' = turn + 1,
             hunkStart' = hunkStart \/ hunkStart' = turn
      PROVE  CutsInv'
  BY <1>0, <1>4 DEF CutsInv
<1>5. ASSUME step = "hunks", hunkStart # 0, NEW last \in Nat, last >= turn - 1,
             hunks' = Append(hunks, [first |-> hunkStart, last |-> last]),
             \/ step' = "done"
             \/ step' = "hunks" /\ turn' = turn + 1 /\ hunkStart' = 0 /\ last = turn - 1
      PROVE  CutsInv'
  <2> DEFINE cut == [first |-> hunkStart, last |-> last]
  <2>1. cut.first = hunkStart /\ cut.last = last
    OBVIOUS
  <2>2. PICK T : hunks \in Seq(T)
    BY <1>0
  <2>3. hunks \in Seq(T \cup {cut}) /\ cut \in T \cup {cut}
    BY <2>2
  <2> HIDE DEF cut
  <2>4. /\ Len(hunks) \in Nat /\ DOMAIN hunks = 1..Len(hunks) /\ DOMAIN hunks' = 1..Len(hunks) + 1
        /\ hunks'[Len(hunks) + 1] = cut /\ \A h \in DOMAIN hunks : hunks'[h] = hunks[h]
    BY <1>5, <2>2, <2>3 DEF cut
  <2>5. \A h \in DOMAIN hunks' : h \in DOMAIN hunks \/ h = Len(hunks) + 1
    BY <2>4
  <2>6. \A h \in DOMAIN hunks : hunks[h].last < hunkStart /\ hunks[h].last < turn
    BY <1>5 DEF CutsInv
  <2>7. ASSUME NEW g \in DOMAIN hunks', NEW h \in DOMAIN hunks', g < h
        PROVE  hunks'[g].last < hunks'[h].first
    <3>1. CASE h \in DOMAIN hunks
      <4>1. g \in DOMAIN hunks
        BY <2>4, <2>7, <3>1
      <4> QED BY <2>4, <2>7, <3>1, <4>1 DEF CutsInv
    <3>2. CASE h = Len(hunks) + 1
      <4>1. g \in DOMAIN hunks
        BY <2>4, <2>7, <3>2
      <4> QED BY <2>1, <2>4, <2>6, <3>2, <4>1
    <3> QED BY <2>5, <3>1, <3>2
  <2>8. ASSUME step' = "hunks", NEW h \in DOMAIN hunks' PROVE hunks'[h].last < turn'
    <3>1. turn' = turn + 1 /\ last < turn + 1
      BY <1>0, <1>5, <2>8
    <3>2. CASE h \in DOMAIN hunks
      BY <1>0, <2>4, <2>6, <3>1, <3>2
    <3>3. CASE h = Len(hunks) + 1
      BY <2>1, <2>4, <3>1, <3>3
    <3> QED BY <2>5, <3>2, <3>3
  <2>9. step' = "hunks" => hunkStart' = 0
    BY <1>5
  <2> QED BY <2>7, <2>8, <2>9 DEF CutsInv
<1>6. CASE OpenHunk \/ StayInHunk \/ StayOutside
  BY <1>4, <1>6 DEF OpenHunk, StayInHunk, StayOutside, InHunks, NextTurn, hunkVars
<1>7. CASE CloseHunk
  <2>1. turn - 1 \in Nat
    BY <1>0 DEF DiffInv, DiffTypeOK
  <2> QED BY <1>0, <1>5, <1>7, <2>1 DEF CloseHunk, InHunks, NextTurn
<1>8. CASE HunksDone
  <2>1. /\ step = "hunks" /\ step' = "done" /\ Len(script) >= turn - 1
        /\ hunks' = IF hunkStart = 0 THEN hunks
                    ELSE Append(hunks, [first |-> hunkStart, last |-> Len(script)])
    BY <1>0, <1>8 DEF HunksDone, Goto, DiffInv, HunkInv
  <2>2. CASE hunkStart = 0
    BY <1>3, <2>1, <2>2
  <2>3. CASE hunkStart # 0
    BY <1>0, <1>5, <2>1, <2>3
  <2> QED BY <2>2, <2>3
<1>9. CASE UNCHANGED diffVars
  BY <1>3, <1>9 DEF diffVars
<1>10. CASE Compare \/ Pair \/ NoPair \/ PairingDone \/ RankFirst \/ RankAfter \/ NoAnchor
            \/ RankingDone \/ Trace \/ TraceDone \/ Delete \/ Add \/ Keep
  <2>1. step' # "hunks" /\ UNCHANGED hunks
    BY <1>10 DEF Compare, Pair, NoPair, PairingDone, RankFirst, RankAfter, NoAnchor, RankingDone,
       Trace, TraceDone, Delete, Add, Keep, InPairing, InRanking, Emitting, Goto, NextTurn, hunkVars
  <2> QED BY <1>3, <2>1
<1> QED BY <1>1, <1>2, <1>6, <1>7, <1>8, <1>9, <1>10 DEF DiffNext, DiffTurn

-----------------------------------------------------------------------------
(* The maps of GenerateDiffWithOptions, said of the documents. *)

LEMMA Documents ==
  ASSUME input \in Inputs, NEW side \in Sides
  PROVE  /\ DOMAIN input[side] \subseteq Nat /\ IsFiniteSet(DOMAIN input[side])
         /\ \A n \in DOMAIN input[side] :
              /\ DOMAIN input[side][n] =
                   {"parses", "kind", "name", "generateName", "ns", "meta", "body"}
              /\ NameLine(input[side][n]) \in Lines
              /\ input[side][n].meta \in Seq(Lines) /\ input[side][n].body \in Seq(Lines)
              /\ None # Key(input[side][n]) /\ None # [Key(input[side][n]) EXCEPT !.ns = None]
BY InputAssumption

LEMMA ThreePieces ==
  ASSUME NEW S, NEW x \in S, NEW s \in Seq(S), NEW t \in Seq(S)
  PROVE  <<x>> \o s \o t \in Seq(S) \ {<<>>}
<1>1. <<x>> \in Seq(S) /\ Len(<<x>>) = 1
  OBVIOUS
<1>2. <<x>> \o s \in Seq(S) /\ Len(<<x>> \o s) = 1 + Len(s)
  BY <1>1, ConcatProperties
<1>3. (<<x>> \o s) \o t \in Seq(S) /\ Len((<<x>> \o s) \o t) = 1 + Len(s) + Len(t)
  BY <1>2, ConcatProperties
<1>4. Len(s) \in Nat /\ Len(t) \in Nat /\ Len(<<>>) = 0
  OBVIOUS
<1> QED BY <1>3, <1>4

\* Filtering the metadata of a document leaves the rest of it, its key included.
LEMMA FilteredDocument ==
  ASSUME input \in Inputs, NEW side \in Sides, NEW n \in DOMAIN input[side]
  PROVE  LET d == input[side][n]
             e == FilterEntries(d, input.ignored)
         IN  /\ Key(e) = Key(d) /\ KeyFor(e) = KeyFor(d) /\ KeyFor(e) # None
             /\ Raw(e) \in Seq(Lines) \ {<<>>}
<1> DEFINE d == input[side][n]
           K == {m \in DOMAIN d.meta : ~ShouldFilterKey(d.meta[m].key, input.ignored)}
           e == FilterEntries(d, input.ignored)
<1>1. /\ DOMAIN d = {"parses", "kind", "name", "generateName", "ns", "meta", "body"}
      /\ NameLine(d) \in Lines /\ d.meta \in Seq(Lines) /\ d.body \in Seq(Lines)
      /\ None # Key(d) /\ None # [Key(d) EXCEPT !.ns = None]
  BY Documents
<1>2. e = [d EXCEPT !.meta = Selected(d.meta, K)]
  BY DEF FilterEntries
<1>3. Selected(d.meta, K) \in Seq(Lines)
  BY <1>1, SelectedElements
<1> HIDE DEF d, e, K
<1>4. /\ e.kind = d.kind /\ e.name = d.name /\ e.generateName = d.generateName /\ e.ns = d.ns
      /\ e.meta = Selected(d.meta, K) /\ e.body = d.body
  BY <1>1, <1>2
<1>5. Key(e) = Key(d) /\ NameLine(e) = NameLine(d)
  BY <1>4 DEF Key, Identity, NameLine
<1>6. KeyFor(e) = KeyFor(d) /\ KeyFor(e) # None
  BY <1>1, <1>4, <1>5 DEF KeyFor
<1>7. Raw(e) \in Seq(Lines) \ {<<>>}
  <2>1. NameLine(e) \in Lines /\ e.meta \in Seq(Lines) /\ e.body \in Seq(Lines)
    BY <1>1, <1>3, <1>4, <1>5
  <2> QED BY <2>1, ThreePieces DEF Raw
<1> QED BY <1>5, <1>6, <1>7 DEF d, e

\* What is left of a side: the documents that can be shown, at their places.
LEMMA FilteredSide ==
  ASSUME input \in Inputs, NEW side \in Sides
  PROVE  /\ DOMAIN Filtered(input[side]) = {n \in DOMAIN input[side] : CanBeShown(input[side][n])}
         /\ \A n \in DOMAIN Filtered(input[side]) :
              Filtered(input[side])[n] = FilterEntries(input[side][n], input.ignored)
<1> DEFINE docs == input[side]
           P == ParseManifests(docs)
           H == FilterHelmHooks(P)
<1>1. /\ DOMAIN P = {n \in DOMAIN docs : docs[n].parses /\ Identity(docs[n]) # None}
      /\ \A n \in DOMAIN P : P[n] = docs[n]
  BY DEF ParseManifests, Restrict
<1>2. DOMAIN H = {n \in DOMAIN P : ~IsHook(P[n])} /\ \A n \in DOMAIN H : H[n] = P[n]
  BY DEF FilterHelmHooks, Restrict
<1>3. \A n \in DOMAIN docs : Identity(docs[n]) # None <=> {docs[n].name, docs[n].generateName} # {None}
  BY DEF Identity
<1>4. DOMAIN H = {n \in DOMAIN docs : CanBeShown(docs[n])} /\ \A n \in DOMAIN H : H[n] = docs[n]
  BY <1>1, <1>2, <1>3 DEF CanBeShown
<1>5. /\ DOMAIN Filtered(docs) = DOMAIN H
      /\ \A n \in DOMAIN H : Filtered(docs)[n] = FilterEntries(H[n], input.ignored)
  BY DEF Filtered, FilterMetadata
<1> QED BY <1>4, <1>5

\* The keys of the maps say which documents are one resource.
LEMMA KeySaysResource ==
  ASSUME NEW d, NEW e
  PROVE  /\ KeyFor(d) = KeyFor(e) <=> SameResource(d, e)
         /\ Key(d) = Key(e) => KeyFor(d) = KeyFor(e)
<1>1. /\ KeyFor(d) = [kind |-> d.kind, id |-> Identity(d),
                      ns |-> IF input.dest # None /\ d.ns = input.dest THEN None ELSE d.ns]
      /\ KeyFor(e) = [kind |-> e.kind, id |-> Identity(e),
                      ns |-> IF input.dest # None /\ e.ns = input.dest THEN None ELSE e.ns]
  BY DEF KeyFor, Key
<1>2. Key(d) = Key(e) => d.kind = e.kind /\ d.ns = e.ns /\ Identity(d) = Identity(e)
  BY DEF Key
<1>3. KeyFor(d) = KeyFor(e) <=>
        /\ d.kind = e.kind /\ Identity(d) = Identity(e)
        /\ (IF input.dest # None /\ d.ns = input.dest THEN None ELSE d.ns)
             = (IF input.dest # None /\ e.ns = input.dest THEN None ELSE e.ns)
  BY <1>1
<1> QED BY <1>2, <1>3 DEF SameResource

\* A nonempty finite set of places has a last one.
LEMMA LastPlace ==
  ASSUME NEW K \in SUBSET Nat, IsFiniteSet(K), K # {}
  PROVE  Max(K) \in K /\ \A k \in K : k <= Max(K)
<1>1. Cardinality(K) \in 1..Cardinality(K)
  <2>1. Cardinality(K) \in Nat /\ Cardinality(K) # 0
    BY FS_CardinalityType, FS_EmptySet
  <2> QED BY <2>1
<1>2. PICK b \in K : Place(K, b) = Cardinality(K)
  BY <1>1, Places
<1>3. \A k \in K : b >= k
  <2> SUFFICES ASSUME NEW k \in K, b < k PROVE FALSE
    OBVIOUS
  <2>1. Place(K, b) < Place(K, k) /\ Place(K, k) \in 1..Cardinality(K)
    BY Places
  <2> QED BY <1>1, <1>2, <2>1
<1>4. Max(K) \in K /\ \A k \in K : Max(K) >= k
  BY <1>3 DEF Max
<1> QED BY <1>4

\* The map of a side: of each resource the last document that can be shown.
LEMMA MapMeans ==
  ASSUME input \in Inputs, NEW side \in Sides
  PROVE  LET M == MapOf(Filtered(input[side]))
             docs == input[side]
         IN  /\ \A n \in Counting(side) :
                  KeyFor(docs[n]) \in DOMAIN M
                    /\ M[KeyFor(docs[n])] = FilterEntries(docs[n], input.ignored)
             /\ \A key \in DOMAIN M : \E n \in Counting(side) : KeyFor(docs[n]) = key
             /\ \A key \in DOMAIN M : /\ KeyFor(M[key]) = key /\ key # None
                                      /\ Raw(M[key]) \in Seq(Lines) \ {<<>>}
<1> DEFINE docs == input[side]
           rs == Filtered(docs)
           M == MapOf(rs)
           Of(key) == {n \in DOMAIN rs : KeyFor(rs[n]) = key}
<1>1. /\ DOMAIN rs = {n \in DOMAIN docs : CanBeShown(docs[n])}
      /\ \A n \in DOMAIN rs : rs[n] = FilterEntries(docs[n], input.ignored)
  BY FilteredSide
<1>2. \A n \in DOMAIN rs : /\ KeyFor(rs[n]) = KeyFor(docs[n]) /\ KeyFor(rs[n]) # None
                           /\ Raw(rs[n]) \in Seq(Lines) \ {<<>>}
  BY <1>1, FilteredDocument
<1>3. /\ DOMAIN M = {KeyFor(rs[n]) : n \in DOMAIN rs}
      /\ \A key \in DOMAIN M : M[key] = rs[Max(Of(key))]
  BY DEF MapOf
<1>4. \A n, m \in DOMAIN docs : KeyFor(docs[n]) = KeyFor(docs[m]) <=> SameResource(docs[n], docs[m])
  BY KeySaysResource
<1>5. DOMAIN docs \subseteq Nat /\ IsFiniteSet(DOMAIN docs)
  BY Documents
<1>6. Counting(side) = {n \in DOMAIN docs : /\ CanBeShown(docs[n])
                          /\ \A m \in DOMAIN docs : m > n /\ CanBeShown(docs[m]) => ~SameResource(docs[n], docs[m])}
  BY DEF Counting
<1> HIDE DEF rs, M, docs
<1>7. ASSUME NEW key \in DOMAIN M
      PROVE  /\ Max(Of(key)) \in DOMAIN rs /\ KeyFor(rs[Max(Of(key))]) = key
             /\ \A n \in Of(key) : n <= Max(Of(key))
  <2>1. Of(key) # {} /\ Of(key) \in SUBSET Nat /\ IsFiniteSet(Of(key))
    <3>1. Of(key) \in SUBSET DOMAIN docs
      BY <1>1
    <3> QED BY <1>3, <1>5, <3>1, FS_Subset
  <2> QED BY <2>1, LastPlace
<1>8. ASSUME NEW key \in DOMAIN M PROVE Max(Of(key)) \in Counting(side)
  <2> DEFINE n == Max(Of(key))
  <2>1. n \in DOMAIN rs /\ n \in DOMAIN docs /\ CanBeShown(docs[n]) /\ KeyFor(docs[n]) = key
    BY <1>1, <1>2, <1>7
  <2>2. ASSUME NEW m \in DOMAIN docs, m > n, CanBeShown(docs[m]), SameResource(docs[n], docs[m])
        PROVE  FALSE
    <3>1. m \in DOMAIN rs /\ KeyFor(docs[m]) = key
      BY <1>1, <1>4, <2>1, <2>2
    <3>2. m \in Of(key)
      BY <1>2, <3>1
    <3>3. m <= n /\ m \in Nat /\ n \in Nat
      BY <1>5, <1>7, <2>1, <3>2
    <3> QED BY <2>2, <3>3
  <2> QED BY <1>6, <2>1, <2>2
<1>9. ASSUME NEW n \in Counting(side)
      PROVE  KeyFor(docs[n]) \in DOMAIN M /\ M[KeyFor(docs[n])] = FilterEntries(docs[n], input.ignored)
  <2>1. n \in DOMAIN rs /\ n \in DOMAIN docs /\ KeyFor(rs[n]) = KeyFor(docs[n])
    BY <1>1, <1>2, <1>6
  <2>2. KeyFor(docs[n]) \in DOMAIN M
    BY <1>3, <2>1
  <2> DEFINE m == Max(Of(KeyFor(docs[n])))
  <2>3. m \in DOMAIN rs /\ KeyFor(rs[m]) = KeyFor(docs[n]) /\ n <= m
    BY <1>7, <2>1, <2>2
  <2>4. m \in DOMAIN docs /\ CanBeShown(docs[m]) /\ SameResource(docs[n], docs[m])
    BY <1>1, <1>2, <1>4, <2>1, <2>3
  <2>5. ~(m > n) /\ m \in Nat /\ n \in Nat
    BY <1>5, <1>6, <2>1, <2>4
  <2>6. m = n
    BY <2>3, <2>5
  <2> QED BY <1>1, <1>3, <2>1, <2>2, <2>6
<1>10. ASSUME NEW key \in DOMAIN M PROVE \E n \in Counting(side) : KeyFor(docs[n]) = key
  BY <1>2, <1>7, <1>8
<1>11. ASSUME NEW key \in DOMAIN M
       PROVE  KeyFor(M[key]) = key /\ key # None /\ Raw(M[key]) \in Seq(Lines) \ {<<>>}
  BY <1>2, <1>3, <1>7
<1> QED BY <1>9, <1>10, <1>11 DEF M, docs, rs

-----------------------------------------------------------------------------
(* A call of GenerateDiffWithOptions.  The calls of generateUnifiedDiff it    *)
(* makes are those of DiffSpec, but that their result is taken in the end.    *)

WorkInv == DiffInv /\ BestInv /\ TraceInv /\ SameInv /\ ChangedAtEnd /\ CutsInv

\* What is left to visit, and whose unified diff is being made.
CallInv ==
  /\ input \in Inputs
  /\ stage \in {"parse", "base", "head", "returned"}
  /\ resources = [side \in Sides |-> IF stage = "parse" THEN <<>> ELSE Filtered(input[side])]
  /\ stage = "parse" => left = {} /\ diffs = <<>>
  /\ stage = "base" => left \subseteq DOMAIN BaseMap
  /\ stage = "head" => left \subseteq DOMAIN HeadMap
  /\ stage = "returned" => left = {}
  /\ current = None <=> step = "idle"
  /\ current # None =>
       /\ stage = "base" /\ current \in DOMAIN BaseMap \cap DOMAIN HeadMap /\ current \notin left
       /\ old = Raw(BaseMap[current]) /\ new = Raw(HeadMap[current]) /\ old # new

Changes == {"deleted", "modified", "added"}

\* The keys a change is to be reported of, and those the loops are done with.
ToReport(change) ==
  CASE change = "deleted"  -> DOMAIN BaseMap \ DOMAIN HeadMap
    [] change = "modified" -> {key \in DOMAIN BaseMap \cap DOMAIN HeadMap :
                                 Raw(BaseMap[key]) # Raw(HeadMap[key])}
    [] change = "added"    -> DOMAIN HeadMap \ DOMAIN BaseMap

Seen(change, key) ==
  IF change = "added" THEN stage = "returned" \/ (stage = "head" /\ key \notin left)
  ELSE stage \in {"head", "returned"} \/ (stage = "base" /\ key \notin left /\ key # current)

Title(change, key) == Key(IF change = "deleted" THEN BaseMap[key] ELSE HeadMap[key])

\* So far each change that was seen is told once, and nothing else is.
ReportInv ==
  /\ \E S : diffs \in Seq(S)
  /\ \A n \in DOMAIN diffs :
       /\ diffs[n].body # <<>>
       /\ \E change \in Changes : \E key \in ToReport(change) :
            Seen(change, key) /\ diffs[n].change = change /\ diffs[n].title = Title(change, key)
  /\ \A change \in Changes : \A key \in ToReport(change) : Seen(change, key) =>
       \E n \in DOMAIN diffs : diffs[n].change = change /\ diffs[n].title = Title(change, key)
  /\ \A m, n \in DOMAIN diffs :
       m # n => diffs[m].change # diffs[n].change \/ diffs[m].title # diffs[n].title

Of(change) == {n \in DOMAIN diffs : diffs[n].change = change}

CountInv ==
  /\ hasChanges = (diffs # <<>>)
  /\ deleted \in Nat /\ modified \in Nat /\ added \in Nat
  /\ added + modified + deleted = Len(diffs)
  /\ Cardinality(Of("deleted")) = deleted
  /\ Cardinality(Of("modified")) = modified
  /\ Cardinality(Of("added")) = added

EngineInv == WorkInv /\ CallInv /\ ReportInv /\ CountInv

LEMMA WorkTurn == WorkInv /\ [DiffNext]_diffVars => WorkInv'
BY DiffInductive, LongStep, SameStep, CutsStep DEF WorkInv

LEMMA WorkTaken ==
  ASSUME WorkInv, step = "done", step' = "idle",
         UNCHANGED <<turn, pairVars, rankVars, chainVars, scriptVars, hunkVars>>
  PROVE  WorkInv'
<1> USE DEF pairVars, rankVars, chainVars, scriptVars, hunkVars
<1>1. DiffTypeOK'
  BY DEF WorkInv, DiffInv, DiffTypeOK
<1>2. MatchInv'
  BY DEF WorkInv, DiffInv, MatchInv, Untouched, PairInv, RankInv, ChainInv
<1>3. ScriptInv'
  BY DEF WorkInv, DiffInv, ScriptInv, EmitInv, LineInv, OrderInv, CoverInv, WholeInv
<1>4. HunkInv'
  BY DEF WorkInv, DiffInv, HunkInv, Stretch, NearChange, Changed
<1>5. FoundInv' /\ BestInv' /\ TraceInv' /\ SameInv' /\ ChangedAtEnd' /\ CutsInv'
  BY DEF WorkInv, FoundInv, BestInv, TraceInv, SameInv, ChangedAtEnd, CutsInv
<1> QED BY <1>1, <1>2, <1>3, <1>4, <1>5 DEF WorkInv, DiffInv

\* The maps, once they are made.
LEMMA Mapped ==
  ASSUME CallInv, stage # "parse"
  PROVE  /\ BaseMap = MapOf(Filtered(input["base"])) /\ HeadMap = MapOf(Filtered(input["head"]))
         /\ \A key \in DOMAIN BaseMap : /\ KeyFor(BaseMap[key]) = key /\ key # None
                                        /\ Raw(BaseMap[key]) \in Seq(Lines) \ {<<>>}
         /\ \A key \in DOMAIN HeadMap : /\ KeyFor(HeadMap[key]) = key /\ key # None
                                        /\ Raw(HeadMap[key]) \in Seq(Lines) \ {<<>>}
<1>1. input \in Inputs /\ "base" \in Sides /\ "head" \in Sides
  BY DEF CallInv, Sides
<1>2. resources["base"] = Filtered(input["base"]) /\ resources["head"] = Filtered(input["head"])
  BY <1>1 DEF CallInv
<1>3. BaseMap = MapOf(Filtered(input["base"])) /\ HeadMap = MapOf(Filtered(input["head"]))
  BY <1>2 DEF BaseMap, HeadMap
<1>4. /\ \A key \in DOMAIN MapOf(Filtered(input["base"])) :
           LET M == MapOf(Filtered(input["base"]))
           IN  KeyFor(M[key]) = key /\ key # None /\ Raw(M[key]) \in Seq(Lines) \ {<<>>}
      /\ \A key \in DOMAIN MapOf(Filtered(input["head"])) :
           LET M == MapOf(Filtered(input["head"]))
           IN  KeyFor(M[key]) = key /\ key # None /\ Raw(M[key]) \in Seq(Lines) \ {<<>>}
  BY <1>1, MapMeans
<1> QED BY <1>3, <1>4

\* A title names its key.
LEMMA TitleNamesKey ==
  ASSUME CallInv, stage # "parse", NEW change \in Changes,
         NEW j \in ToReport(change), NEW k \in ToReport(change), Title(change, j) = Title(change, k)
  PROVE  j = k
<1> DEFINE At(key) == IF change = "deleted" THEN BaseMap[key] ELSE HeadMap[key]
<1>1. KeyFor(At(j)) = j /\ KeyFor(At(k)) = k
  BY Mapped DEF ToReport, Changes
<1>2. Key(At(j)) = Key(At(k))
  BY DEF Title
<1>3. KeyFor(At(j)) = KeyFor(At(k))
  BY <1>2, KeySaysResource
<1> QED BY <1>1, <1>3

\* A turn that reports nothing.
LEMMA NothingReported ==
  ASSUME ReportInv, UNCHANGED <<input, resources, diffs>>,
         \A change \in Changes : \A key \in ToReport(change) : Seen(change, key)' <=> Seen(change, key)
  PROVE  ReportInv'
<1>1. BaseMap' = BaseMap /\ HeadMap' = HeadMap
  BY DEF BaseMap, HeadMap, MapOf, KeyFor
<1>2. /\ \A change : ToReport(change)' = ToReport(change)
      /\ \A change, key : Title(change, key)' = Title(change, key)
  BY <1>1 DEF ToReport, Title
<1> QED BY <1>2 DEF ReportInv

\* A turn that reports a change of a key.
LEMMA OneReported ==
  ASSUME CallInv, ReportInv, stage # "parse", UNCHANGED <<input, resources>>,
         NEW change \in Changes, NEW key \in ToReport(change), NEW body, body # <<>>,
         diffs' = Append(diffs, [change |-> change, title |-> Title(change, key), body |-> body]),
         ~Seen(change, key), Seen(change, key)',
         \A c \in Changes : \A k \in ToReport(c) :
           c # change \/ k # key => (Seen(c, k)' <=> Seen(c, k))
  PROVE  ReportInv'
<1>1. BaseMap' = BaseMap /\ HeadMap' = HeadMap
  BY DEF BaseMap, HeadMap, MapOf, KeyFor
<1>2. /\ \A c : ToReport(c)' = ToReport(c)
      /\ \A c, k : Title(c, k)' = Title(c, k)
  BY <1>1 DEF ToReport, Title
<1> DEFINE d == [change |-> change, title |-> Title(change, key), body |-> body]
<1>3. PICK S : diffs \in Seq(S)
  BY DEF ReportInv
<1>4. d.change = change /\ d.title = Title(change, key) /\ d.body = body
  OBVIOUS
<1> HIDE DEF d
<1>5. diffs \in Seq(S \cup {d}) /\ d \in S \cup {d}
  BY <1>3
<1>6. /\ diffs' \in Seq(S \cup {d}) /\ Len(diffs) \in Nat
      /\ DOMAIN diffs = 1..Len(diffs) /\ DOMAIN diffs' = 1..Len(diffs) + 1
      /\ diffs'[Len(diffs) + 1] = d /\ \A n \in DOMAIN diffs : diffs'[n] = diffs[n]
  BY <1>5 DEF d
<1>7. \A n \in DOMAIN diffs' : n \in DOMAIN diffs \/ n = Len(diffs) + 1
  BY <1>6
<1>8. \A c \in Changes : \A k \in ToReport(c) : Seen(c, k) => Seen(c, k)'
  OBVIOUS
<1>9. ASSUME NEW n \in DOMAIN diffs'
      PROVE  /\ diffs'[n].body # <<>>
             /\ \E c \in Changes : \E k \in ToReport(c) :
                  Seen(c, k)' /\ diffs'[n].change = c /\ diffs'[n].title = Title(c, k)
  <2>1. CASE n \in DOMAIN diffs
    BY <1>6, <1>8, <2>1 DEF ReportInv
  <2>2. CASE n = Len(diffs) + 1
    BY <1>4, <1>6, <2>2
  <2> QED BY <1>7, <2>1, <2>2
<1>10. ASSUME NEW c \in Changes, NEW k \in ToReport(c), Seen(c, k)'
       PROVE  \E n \in DOMAIN diffs' : diffs'[n].change = c /\ diffs'[n].title = Title(c, k)
  <2>1. CASE c = change /\ k = key
    <3>1. Len(diffs) + 1 \in DOMAIN diffs'
      BY <1>6
    <3> QED BY <1>4, <1>6, <2>1, <3>1
  <2>2. CASE c # change \/ k # key
    <3>1. PICK n \in DOMAIN diffs : diffs[n].change = c /\ diffs[n].title = Title(c, k)
      BY <1>10, <2>2 DEF ReportInv
    <3>2. n \in DOMAIN diffs' /\ diffs'[n] = diffs[n]
      BY <1>6
    <3> QED BY <3>1, <3>2
  <2> QED BY <2>1, <2>2
<1>11. ASSUME NEW n \in DOMAIN diffs
       PROVE  diffs[n].change # d.change \/ diffs[n].title # d.title
  <2> SUFFICES ASSUME diffs[n].change = change, diffs[n].title = Title(change, key) PROVE FALSE
    BY <1>4
  <2>1. PICK k \in ToReport(change) : Seen(change, k) /\ Title(change, key) = Title(change, k)
    BY <1>11 DEF ReportInv
  <2>2. k = key
    BY <2>1, TitleNamesKey
  <2> QED BY <2>1, <2>2
<1>12. ASSUME NEW m \in DOMAIN diffs', NEW n \in DOMAIN diffs', m # n
       PROVE  diffs'[m].change # diffs'[n].change \/ diffs'[m].title # diffs'[n].title
  <2>1. CASE m \in DOMAIN diffs /\ n \in DOMAIN diffs
    BY <1>6, <1>12, <2>1 DEF ReportInv
  <2>2. CASE m \in DOMAIN diffs /\ n = Len(diffs) + 1
    BY <1>6, <1>11, <2>2
  <2>3. CASE n \in DOMAIN diffs /\ m = Len(diffs) + 1
    BY <1>6, <1>11, <2>3
  <2> QED BY <1>7, <1>12, <2>1, <2>2, <2>3
<1>13. \E T : diffs' \in Seq(T)
  BY <1>6
<1>14. \A n \in DOMAIN diffs' :
         /\ diffs'[n].body # <<>>
         /\ \E c \in Changes : \E k \in ToReport(c)' :
              Seen(c, k)' /\ diffs'[n].change = c /\ diffs'[n].title = Title(c, k)'
  BY <1>2, <1>9
<1>15. \A c \in Changes : \A k \in ToReport(c)' : Seen(c, k)' =>
         \E n \in DOMAIN diffs' : diffs'[n].change = c /\ diffs'[n].title = Title(c, k)'
  BY <1>2, <1>10
<1> HIDE DEF ToReport, Title, Seen
<1> QED BY <1>12, <1>13, <1>14, <1>15 DEF ReportInv

\* How the counts follow a change that is reported.
LEMMA OneCounted ==
  ASSUME CountInv, ReportInv, NEW d, d.change \in Changes, diffs' = Append(diffs, d), hasChanges' = TRUE,
         deleted' = IF d.change = "deleted" THEN deleted + 1 ELSE deleted,
         modified' = IF d.change = "modified" THEN modified + 1 ELSE modified,
         added' = IF d.change = "added" THEN added + 1 ELSE added
  PROVE  CountInv'
<1>1. PICK S : diffs \in Seq(S)
  BY DEF ReportInv
<1>2. diffs \in Seq(S \cup {d}) /\ d \in S \cup {d}
  BY <1>1
<1>3. /\ Len(diffs) \in Nat /\ Len(diffs') = Len(diffs) + 1 /\ diffs' # <<>>
      /\ DOMAIN diffs = 1..Len(diffs) /\ DOMAIN diffs' = 1..Len(diffs) + 1
      /\ diffs'[Len(diffs) + 1] = d /\ \A n \in DOMAIN diffs : diffs'[n] = diffs[n]
  BY <1>2
<1>4. ASSUME NEW c
      PROVE  /\ IsFiniteSet(Of(c)) /\ Cardinality(Of(c)) \in Nat
             /\ Cardinality(Of(c))' = IF d.change = c THEN Cardinality(Of(c)) + 1 ELSE Cardinality(Of(c))
  <2>1. IsFiniteSet(1..Len(diffs))
    BY <1>3, FS_Interval
  <2>2. IsFiniteSet(Of(c)) /\ Cardinality(Of(c)) \in Nat
    BY <1>3, <2>1, FS_Subset, FS_CardinalityType DEF Of
  <2>3. Of(c)' = IF d.change = c THEN Of(c) \cup {Len(diffs) + 1} ELSE Of(c)
    <3>1. \A n : n \in DOMAIN diffs' <=> n \in DOMAIN diffs \/ n = Len(diffs) + 1
      BY <1>3
    <3> QED BY <1>3, <3>1 DEF Of
  <2>4. Len(diffs) + 1 \notin Of(c)
    BY <1>3 DEF Of
  <2>5. Cardinality(Of(c) \cup {Len(diffs) + 1}) = Cardinality(Of(c)) + 1
    BY <2>2, <2>4, FS_AddElement
  <2> QED BY <2>2, <2>3, <2>5
<1>5. /\ Cardinality(Of("deleted"))' = deleted' /\ Cardinality(Of("modified"))' = modified'
      /\ Cardinality(Of("added"))' = added'
  BY <1>4 DEF CountInv
<1>6. deleted' \in Nat /\ modified' \in Nat /\ added' \in Nat
  BY DEF CountInv
<1>7. added' + modified' + deleted' = Len(diffs')
  BY <1>3 DEF CountInv, Changes
<1> QED BY <1>3, <1>5, <1>6, <1>7 DEF CountInv

LEMMA EngineStart == EngineInit => EngineInv
<1> SUFFICES ASSUME EngineInit PROVE EngineInv
  OBVIOUS
<1>1. DiffInit /\ DiffInv
  BY Start DEF EngineInit, DiffInv
<1>2. WorkInv
  BY <1>1 DEF WorkInv, DiffInit, BestInv, TraceInv, SameInv, ChangedAtEnd, CutsInv
<1>3. CallInv
  BY <1>1 DEF EngineInit, CallInv, DiffInit
<1>4. diffs = <<>> /\ DOMAIN diffs = {} /\ Len(diffs) = 0 /\ diffs \in Seq({})
  BY DEF EngineInit
<1>5. ReportInv
  <2>1. \A change \in Changes : \A key : ~Seen(change, key)
    BY DEF EngineInit, Seen
  <2> QED BY <1>4, <2>1 DEF ReportInv
<1>6. CountInv
  <2>1. \A c : Cardinality(Of(c)) = 0
    BY <1>4, FS_EmptySet DEF Of
  <2>2. deleted = 0 /\ modified = 0 /\ added = 0 /\ ~hasChanges /\ hasChanges = (diffs # <<>>)
    BY DEF EngineInit
  <2> QED BY <1>4, <2>1, <2>2 DEF CountInv
<1> QED BY <1>2, <1>3, <1>5, <1>6 DEF EngineInv

\* What a turn of generateUnifiedDiff does to a call: nothing.
LEMMA DifferStep == EngineInv /\ Differ => EngineInv'
<1> SUFFICES ASSUME EngineInv, Differ PROVE EngineInv'
  OBVIOUS
<1> USE DEF engineVars, resultVars
<1>1. WorkInv'
  BY WorkTurn DEF EngineInv, Differ, DiffNext
<1>2. BaseMap' = BaseMap /\ HeadMap' = HeadMap /\ \A side \in Sides : Filtered(input[side])' = Filtered(input[side])
  BY DEF Differ, BaseMap, HeadMap, MapOf, KeyFor, Filtered
<1>3. step # "idle" /\ step' # "idle" /\ old' = old /\ new' = new
  BY DEF Differ, DiffTurn, Compare, Pair, NoPair, PairingDone, RankFirst, RankAfter, NoAnchor,
     RankingDone, Trace, TraceDone, Delete, Add, Keep, EmitDone, OpenHunk, CloseHunk, StayInHunk,
     StayOutside, HunksDone, InPairing, InRanking, Emitting, InHunks, Goto, NextTurn, pairVars
<1>4. CallInv'
  BY <1>2, <1>3 DEF EngineInv, Differ, CallInv
<1>5. ReportInv'
  <2>1. UNCHANGED <<input, resources, diffs>>
    BY DEF Differ
  <2>2. \A change, key : Seen(change, key)' = Seen(change, key)
    BY DEF Differ, Seen
  <2> QED BY <2>1, <2>2, NothingReported DEF EngineInv
<1>6. CountInv'
  BY DEF EngineInv, Differ, CountInv, Of
<1> QED BY <1>1, <1>4, <1>5, <1>6 DEF EngineInv

\* The steps that call or take no unified diff leave the last one alone.
LEMMA WorkFrame == EngineInv /\ UNCHANGED diffVars => WorkInv'
BY WorkTurn DEF EngineInv

LEMMA PrepareStep == EngineInv /\ Prepare => EngineInv'
<1> SUFFICES ASSUME EngineInv, Prepare PROVE EngineInv'
  OBVIOUS
<1> USE DEF resultVars
<1>1. WorkInv'
  BY WorkFrame DEF Prepare
<1>2. /\ stage = "parse" /\ stage' = "base" /\ left' = DOMAIN BaseMap' /\ diffs' = <<>>
      /\ UNCHANGED <<input, current, diffs, hasChanges, added, modified, deleted, step>>
      /\ current = None
  BY DEF Prepare, EngineInv, CallInv, BaseMap, MapOf, KeyFor, diffVars
<1>3. CallInv'
  <2>1. resources' = [side \in Sides |-> Filtered(input'[side])]
    BY <1>2 DEF Prepare
  <2> QED BY <1>2, <2>1 DEF CallInv, EngineInv, Filtered
<1>4. ReportInv'
  <2>1. \A change \in Changes : \A key \in ToReport(change)' : ~Seen(change, key)'
    BY <1>2 DEF Seen, ToReport, Changes
  <2>2. diffs' \in Seq({}) /\ DOMAIN diffs' = {}
    BY <1>2
  <2> QED BY <2>1, <2>2 DEF ReportInv
<1>5. CountInv'
  BY <1>2 DEF EngineInv, CountInv, Of
<1> QED BY <1>1, <1>3, <1>4, <1>5 DEF EngineInv

\* The turns of the loops that report nothing.
LEMMA QuietStep ==
  ASSUME EngineInv,
         \/ \E key \in left : Unchanged(key) \/ Modified(key) \/ InBoth(key)
         \/ BaseVisited \/ HeadVisited
         \/ UNCHANGED <<engineVars, diffVars>>
  PROVE  EngineInv'
<1> USE DEF engineVars, resultVars
<1>0. UNCHANGED <<input, resources, diffs, hasChanges, added, modified, deleted>>
  BY DEF Unchanged, Modified, InBoth, BaseVisited, HeadVisited
<1>1. BaseMap' = BaseMap /\ HeadMap' = HeadMap /\ \A side \in Sides : Filtered(input[side])' = Filtered(input[side])
  BY <1>0 DEF BaseMap, HeadMap, MapOf, KeyFor, Filtered
<1>2. CountInv'
  BY <1>0 DEF EngineInv, CountInv, Of
<1>3. stage # "parse" \/ UNCHANGED <<engineVars, diffVars>>
  BY DEF EngineInv, CallInv, BaseVisited, HeadVisited
<1>4. ASSUME NEW key \in left, Unchanged(key) \/ InBoth(key)
      PROVE  /\ WorkInv' /\ CallInv'
             /\ \A c \in Changes : \A k \in ToReport(c) : Seen(c, k)' <=> Seen(c, k)
  <2>1. WorkInv'
    BY <1>4, WorkFrame DEF Unchanged, InBoth
  <2>2. /\ current = None /\ left' = left \ {key} /\ UNCHANGED <<stage, current, diffVars>>
        /\ stage \in {"base", "head"}
    BY <1>4 DEF Unchanged, InBoth, Visit
  <2>3. CallInv'
    BY <1>0, <1>1, <2>2 DEF EngineInv, CallInv, diffVars
  <2>4. \/ stage = "base" /\ key \notin ToReport("deleted") /\ key \notin ToReport("modified")
        \/ stage = "head" /\ key \notin ToReport("added")
    <3>1. CASE Unchanged(key)
      BY <3>1 DEF Unchanged, Visit, ToReport
    <3>2. CASE InBoth(key)
      BY <3>2 DEF InBoth, Visit, ToReport
    <3> QED BY <1>4, <3>1, <3>2
  <2>5. \A c \in Changes : \A k \in ToReport(c) : Seen(c, k)' <=> Seen(c, k)
    BY <2>2, <2>4 DEF Seen, Changes
  <2> QED BY <2>1, <2>3, <2>5
<1>5. ASSUME NEW key \in left, Modified(key)
      PROVE  /\ WorkInv' /\ CallInv'
             /\ \A c \in Changes : \A k \in ToReport(c) : Seen(c, k)' <=> Seen(c, k)
  <2>1. /\ stage = "base" /\ current = None /\ current' = key /\ left' = left \ {key} /\ stage' = stage
        /\ key \in DOMAIN HeadMap /\ Call(Raw(BaseMap[key]), Raw(HeadMap[key]))
        /\ Raw(BaseMap[key]) # Raw(HeadMap[key])
    BY <1>5 DEF Modified, Visit
  <2>2. key \in DOMAIN BaseMap /\ key # None
    BY <2>1, Mapped DEF EngineInv, CallInv
  <2>3. Raw(BaseMap[key]) \in Seq(Lines) \ {<<>>} /\ Raw(HeadMap[key]) \in Seq(Lines) \ {<<>>}
    BY <2>1, <2>2, Mapped DEF EngineInv
  <2>4. DiffNext
    BY <2>1, <2>3 DEF DiffNext
  <2>5. WorkInv'
    BY <2>4, WorkTurn DEF EngineInv
  <2>6. step' = "compare" /\ old' = Raw(BaseMap[key]) /\ new' = Raw(HeadMap[key])
    BY <2>1 DEF Call
  <2>7. CallInv'
    BY <1>0, <1>1, <2>1, <2>2, <2>6 DEF EngineInv, CallInv
  <2>8. \A c \in Changes : \A k \in ToReport(c) : Seen(c, k)' <=> Seen(c, k)
    <3>1. \A k \in DOMAIN BaseMap : k # None
      BY <2>1, Mapped DEF EngineInv
    <3>2. \A c \in Changes : c # "added" => ToReport(c) \subseteq DOMAIN BaseMap
      BY DEF ToReport, Changes
    <3> QED BY <2>1, <3>1, <3>2 DEF Seen
  <2> QED BY <2>5, <2>7, <2>8
<1>6. ASSUME BaseVisited \/ HeadVisited
      PROVE  /\ WorkInv' /\ CallInv'
             /\ \A c \in Changes : \A k \in ToReport(c) : Seen(c, k)' <=> Seen(c, k)
  <2>1. WorkInv'
    BY <1>6, WorkFrame DEF BaseVisited, HeadVisited
  <2>2. left = {} /\ current = None /\ UNCHANGED <<current, diffVars>>
    BY <1>6 DEF BaseVisited, HeadVisited, EngineInv, CallInv
  <2>3. \/ stage = "base" /\ stage' = "head" /\ left' = DOMAIN HeadMap
        \/ stage = "head" /\ stage' = "returned" /\ left' = {}
    BY <1>6 DEF BaseVisited, HeadVisited
  <2>4. CallInv'
    BY <1>0, <1>1, <2>2, <2>3 DEF EngineInv, CallInv, diffVars
  <2>5. \A c \in Changes : \A k \in ToReport(c) : Seen(c, k)' <=> Seen(c, k)
    <3>1. \A k \in DOMAIN BaseMap : k # None
      BY <2>3, Mapped DEF EngineInv
    <3>2. /\ ToReport("added") \subseteq DOMAIN HeadMap
          /\ \A c \in Changes : c # "added" => ToReport(c) \subseteq DOMAIN BaseMap
      BY DEF ToReport, Changes
    <3> QED BY <2>2, <2>3, <3>1, <3>2 DEF Seen
  <2> QED BY <2>1, <2>4, <2>5
<1>7. ASSUME UNCHANGED <<engineVars, diffVars>>
      PROVE  /\ WorkInv' /\ CallInv'
             /\ \A c \in Changes : \A k \in ToReport(c) : Seen(c, k)' <=> Seen(c, k)
  <2>1. WorkInv'
    BY <1>7, WorkFrame
  <2>2. CallInv'
    BY <1>1, <1>7 DEF EngineInv, CallInv, diffVars
  <2>3. \A c, k : Seen(c, k)' <=> Seen(c, k)
    BY <1>7 DEF Seen
  <2> QED BY <2>1, <2>2, <2>3
<1>8. /\ WorkInv' /\ CallInv'
      /\ \A c \in Changes : \A k \in ToReport(c) : Seen(c, k)' <=> Seen(c, k)
  BY <1>4, <1>5, <1>6, <1>7
<1>9. ReportInv'
  BY <1>0, <1>8, NothingReported DEF EngineInv
<1> QED BY <1>2, <1>8, <1>9 DEF EngineInv

LEMMA DeletedStep == ASSUME EngineInv, NEW key \in left, Deleted(key) PROVE EngineInv'
<1> USE DEF resultVars
<1>1. /\ stage = "base" /\ current = None /\ left' = left \ {key} /\ key \notin DOMAIN HeadMap
      /\ UNCHANGED <<input, resources, stage, current, step, diffVars>>
      /\ hasChanges' = TRUE /\ deleted' = deleted + 1 /\ added' = added /\ modified' = modified
      /\ diffs' = Append(diffs, [change |-> "deleted", title |-> Key(BaseMap[key]), body |-> Raw(BaseMap[key])])
  BY DEF Deleted, Visit, Report, diffVars
<1>2. key \in DOMAIN BaseMap /\ Raw(BaseMap[key]) # <<>>
  BY <1>1, Mapped DEF EngineInv, CallInv
<1>3. WorkInv'
  BY <1>1, WorkFrame
<1>4. BaseMap' = BaseMap /\ HeadMap' = HeadMap /\ \A side \in Sides : Filtered(input[side])' = Filtered(input[side])
  BY <1>1 DEF BaseMap, HeadMap, MapOf, KeyFor, Filtered
<1>5. CallInv'
  BY <1>1, <1>4 DEF EngineInv, CallInv, diffVars
<1>6. ReportInv'
  <2>1. "deleted" \in Changes /\ key \in ToReport("deleted") /\ Title("deleted", key) = Key(BaseMap[key])
    BY <1>1, <1>2 DEF Changes, ToReport, Title
  <2>2. key # None
    BY <1>1, <1>2, Mapped DEF EngineInv
  <2>3. ~Seen("deleted", key) /\ Seen("deleted", key)'
    BY <1>1, <2>2 DEF Seen
  <2>4. \A c \in Changes : \A k \in ToReport(c) : c # "deleted" \/ k # key => (Seen(c, k)' <=> Seen(c, k))
    <3>1. key \notin ToReport("modified")
      BY <1>1 DEF ToReport
    <3> QED BY <1>1, <3>1 DEF Seen, Changes
  <2> QED BY <1>1, <1>2, <2>1, <2>3, <2>4, OneReported DEF EngineInv
<1>7. CountInv'
  <2> DEFINE d == [change |-> "deleted", title |-> Key(BaseMap[key]), body |-> Raw(BaseMap[key])]
  <2>1. d.change = "deleted" /\ d.change \in Changes
    BY DEF Changes
  <2> QED BY <1>1, <2>1, OneCounted DEF EngineInv
<1> QED BY <1>3, <1>5, <1>6, <1>7 DEF EngineInv

LEMMA AddedStep == ASSUME EngineInv, NEW key \in left, Added(key) PROVE EngineInv'
<1> USE DEF resultVars
<1>1. /\ stage = "head" /\ current = None /\ left' = left \ {key} /\ key \notin DOMAIN BaseMap
      /\ UNCHANGED <<input, resources, stage, current, step, diffVars>>
      /\ hasChanges' = TRUE /\ added' = added + 1 /\ deleted' = deleted /\ modified' = modified
      /\ diffs' = Append(diffs, [change |-> "added", title |-> Key(HeadMap[key]), body |-> Raw(HeadMap[key])])
  BY DEF Added, Visit, Report, diffVars
<1>2. key \in DOMAIN HeadMap /\ Raw(HeadMap[key]) # <<>>
  BY <1>1, Mapped DEF EngineInv, CallInv
<1>3. WorkInv'
  BY <1>1, WorkFrame
<1>4. BaseMap' = BaseMap /\ HeadMap' = HeadMap /\ \A side \in Sides : Filtered(input[side])' = Filtered(input[side])
  BY <1>1 DEF BaseMap, HeadMap, MapOf, KeyFor, Filtered
<1>5. CallInv'
  BY <1>1, <1>4 DEF EngineInv, CallInv, diffVars
<1>6. ReportInv'
  <2>1. "added" \in Changes /\ key \in ToReport("added") /\ Title("added", key) = Key(HeadMap[key])
    BY <1>1, <1>2 DEF Changes, ToReport, Title
  <2>2. ~Seen("added", key) /\ Seen("added", key)'
    BY <1>1 DEF Seen
  <2>3. \A c \in Changes : \A k \in ToReport(c) : c # "added" \/ k # key => (Seen(c, k)' <=> Seen(c, k))
    BY <1>1 DEF Seen, Changes
  <2> QED BY <1>1, <1>2, <2>1, <2>2, <2>3, OneReported DEF EngineInv
<1>7. CountInv'
  <2> DEFINE d == [change |-> "added", title |-> Key(HeadMap[key]), body |-> Raw(HeadMap[key])]
  <2>1. d.change = "added" /\ d.change \in Changes
    BY DEF Changes
  <2> QED BY <1>1, <2>1, OneCounted DEF EngineInv
<1> QED BY <1>3, <1>5, <1>6, <1>7 DEF EngineInv

LEMMA TakeDiffStep == EngineInv /\ TakeDiff => EngineInv'
<1> SUFFICES ASSUME EngineInv, TakeDiff PROVE EngineInv'
  OBVIOUS
<1>0. PICK key, body : key = current /\ body = Output
  OBVIOUS
<1>1. /\ step = "done" /\ step' = "idle" /\ current' = None
      /\ UNCHANGED <<input, resources, stage, left, turn, pairVars, rankVars, chainVars, scriptVars, hunkVars>>
      /\ hasChanges' = TRUE /\ modified' = modified + 1 /\ deleted' = deleted /\ added' = added
      /\ diffs' = Append(diffs, [change |-> "modified", title |-> Key(HeadMap[key]), body |-> body])
  BY <1>0 DEF TakeDiff, Report
<1>2. /\ current = key /\ key # None /\ stage = "base" /\ key \in DOMAIN BaseMap \cap DOMAIN HeadMap
      /\ key \notin left /\ old = Raw(BaseMap[key]) /\ new = Raw(HeadMap[key]) /\ old # new
  BY <1>0, <1>1 DEF EngineInv, CallInv
<1>3. body # <<>>
  BY <1>0, <1>1, <1>2, SomeHunk DEF EngineInv, WorkInv
<1>4. WorkInv'
  BY <1>1, WorkTaken DEF EngineInv
<1>5. BaseMap' = BaseMap /\ HeadMap' = HeadMap /\ \A side \in Sides : Filtered(input[side])' = Filtered(input[side])
  BY <1>1 DEF BaseMap, HeadMap, MapOf, KeyFor, Filtered
<1>6. CallInv'
  BY <1>1, <1>2, <1>5 DEF EngineInv, CallInv
<1>7. ReportInv'
  <2>1. /\ "modified" \in Changes /\ key \in ToReport("modified")
        /\ Title("modified", key) = Key(HeadMap[key])
    BY <1>2 DEF Changes, ToReport, Title
  <2>2. ~Seen("modified", key) /\ Seen("modified", key)'
    BY <1>1, <1>2 DEF Seen
  <2>3. \A c \in Changes : \A k \in ToReport(c) : c # "modified" \/ k # key => (Seen(c, k)' <=> Seen(c, k))
    <3>1. key \notin ToReport("deleted")
      BY <1>2 DEF ToReport
    <3>2. \A k \in DOMAIN BaseMap : k # None
      BY <1>2, Mapped DEF EngineInv
    <3>3. \A c \in Changes : c # "added" => ToReport(c) \subseteq DOMAIN BaseMap
      BY DEF ToReport, Changes
    <3> QED BY <1>1, <1>2, <3>1, <3>2, <3>3 DEF Seen, Changes
  <2> QED BY <1>1, <1>2, <1>3, <2>1, <2>2, <2>3, OneReported DEF EngineInv
<1>8. CountInv'
  <2> DEFINE d == [change |-> "modified", title |-> Key(HeadMap[key]), body |-> body]
  <2>1. d.change = "modified" /\ d.change \in Changes
    BY DEF Changes
  <2> QED BY <1>1, <2>1, OneCounted DEF EngineInv
<1> QED BY <1>4, <1>6, <1>7, <1>8 DEF EngineInv

LEMMA EngineInvariant == EngineSpec => []EngineInv
<1>1. EngineInv /\ [EngineNext]_<<engineVars, diffVars>> => EngineInv'
  BY DifferStep, PrepareStep, QuietStep, DeletedStep, AddedStep, TakeDiffStep DEF EngineNext
<1> QED BY <1>1, EngineStart, PTL DEF EngineSpec

-----------------------------------------------------------------------------
LEMMA EngineTyped == EngineInv => EngineTypeOK
<1> SUFFICES ASSUME EngineInv PROVE EngineTypeOK
  OBVIOUS
<1>1. DiffTypeOK
  BY DEF EngineInv, WorkInv, DiffInv
<1>2. ASSUME NEW side \in Sides PROVE DOMAIN resources[side] \subseteq DOMAIN input[side]
  <2>1. CASE stage = "parse"
    <3>1. resources[side] = <<>>
      BY <2>1 DEF EngineInv, CallInv
    <3> QED BY <3>1
  <2>2. CASE stage # "parse"
    <3>1. resources[side] = Filtered(input[side]) /\ input \in Inputs
      BY <2>2 DEF EngineInv, CallInv
    <3> QED BY <3>1, FilteredSide
  <2> QED BY <2>1, <2>2
<1>3. left \subseteq DOMAIN BaseMap \cup DOMAIN HeadMap
  BY DEF EngineInv, CallInv
<1>4. hasChanges \in BOOLEAN /\ added \in Nat /\ modified \in Nat /\ deleted \in Nat
  BY DEF EngineInv, CountInv
<1>5. /\ stage \in {"parse", "base", "head", "returned"}
      /\ current = None <=> step = "idle"
      /\ current # None => stage = "base" /\ current \in DOMAIN BaseMap \cap DOMAIN HeadMap
  BY DEF EngineInv, CallInv
<1> QED BY <1>1, <1>2, <1>3, <1>4, <1>5 DEF EngineTypeOK

LEMMA Consistent == EngineInv => ResultConsistent
<1> SUFFICES ASSUME EngineInv PROVE ResultConsistent
  OBVIOUS
<1>1. /\ hasChanges <=> diffs # <<>>
      /\ added + modified + deleted = Len(diffs)
  BY DEF EngineInv, CountInv
<1>2. ASSUME NEW change \in {<<"added", added>>, <<"modified", modified>>, <<"deleted", deleted>>}
      PROVE  Cardinality({n \in DOMAIN diffs : diffs[n].change = change[1]}) = change[2]
  <2>1. Cardinality(Of(change[1])) = change[2]
    BY DEF EngineInv, CountInv
  <2> QED BY <2>1 DEF Of
<1>3. \A m, n \in DOMAIN diffs : m # n => diffs[m] # diffs[n]
  BY DEF EngineInv, ReportInv
<1> QED BY <1>1, <1>2, <1>3 DEF ResultConsistent

\* What a side's map holds, said of the documents of that side.
LEMMA SideMeans ==
  ASSUME input \in Inputs, NEW side \in Sides
  PROVE  LET M == MapOf(Filtered(input[side]))
             docs == input[side]
         IN  /\ \A n \in Counting(side) :
                  /\ KeyFor(docs[n]) \in DOMAIN M
                  /\ Key(M[KeyFor(docs[n])]) = Key(docs[n])
                  /\ Raw(M[KeyFor(docs[n])]) = Shown(docs[n])
             /\ \A key \in DOMAIN M : \E n \in Counting(side) : KeyFor(docs[n]) = key
             /\ \A d : MissingFrom(side, d) <=> KeyFor(d) \notin DOMAIN M
<1> DEFINE docs == input[side]
           M == MapOf(Filtered(docs))
<1>1. /\ \A n \in Counting(side) : /\ KeyFor(docs[n]) \in DOMAIN M
                                   /\ M[KeyFor(docs[n])] = FilterEntries(docs[n], input.ignored)
      /\ \A key \in DOMAIN M : \E n \in Counting(side) : KeyFor(docs[n]) = key
  BY MapMeans
<1>2. \A n \in Counting(side) : n \in DOMAIN docs
  BY DEF Counting
<1>3. \A n \in DOMAIN docs : Key(FilterEntries(docs[n], input.ignored)) = Key(docs[n])
  BY FilteredDocument
<1>4. \A n \in DOMAIN docs : Raw(FilterEntries(docs[n], input.ignored)) = Shown(docs[n])
  BY DEF Shown
<1>5. \A d : MissingFrom(side, d) <=> \A m \in Counting(side) : KeyFor(d) # KeyFor(docs[m])
  BY KeySaysResource DEF MissingFrom
<1> HIDE DEF docs, M
<1>6. \A d : MissingFrom(side, d) <=> KeyFor(d) \notin DOMAIN M
  BY <1>1, <1>5
<1>7. \A n \in Counting(side) : /\ KeyFor(docs[n]) \in DOMAIN M
                                /\ Key(M[KeyFor(docs[n])]) = Key(docs[n])
                                /\ Raw(M[KeyFor(docs[n])]) = Shown(docs[n])
  BY <1>1, <1>2, <1>3, <1>4
<1> QED BY <1>1, <1>6, <1>7 DEF docs, M

\* Expected, which speaks of documents, is what the maps are to report.
LEMMA ExpectedChanges ==
  ASSUME EngineInv, stage # "parse", NEW x
  PROVE  x \in Expected <=>
           \E c \in Changes : \E k \in ToReport(c) : x = [change |-> c, title |-> Title(c, k)]
<1>1. /\ input \in Inputs /\ "base" \in Sides /\ "head" \in Sides
      /\ BaseMap = MapOf(Filtered(input["base"])) /\ HeadMap = MapOf(Filtered(input["head"]))
  BY Mapped DEF EngineInv, CallInv, Sides
<1>2. /\ \A n \in Counting("base") :
           LET d == input.base[n]
           IN  /\ KeyFor(d) \in DOMAIN BaseMap
               /\ Key(BaseMap[KeyFor(d)]) = Key(d) /\ Raw(BaseMap[KeyFor(d)]) = Shown(d)
      /\ \A key \in DOMAIN BaseMap : \E n \in Counting("base") : KeyFor(input.base[n]) = key
      /\ \A d : MissingFrom("base", d) <=> KeyFor(d) \notin DOMAIN BaseMap
  BY <1>1, SideMeans
<1>3. /\ \A n \in Counting("head") :
           LET d == input.head[n]
           IN  /\ KeyFor(d) \in DOMAIN HeadMap
               /\ Key(HeadMap[KeyFor(d)]) = Key(d) /\ Raw(HeadMap[KeyFor(d)]) = Shown(d)
      /\ \A key \in DOMAIN HeadMap : \E n \in Counting("head") : KeyFor(input.head[n]) = key
      /\ \A d : MissingFrom("head", d) <=> KeyFor(d) \notin DOMAIN HeadMap
  BY <1>1, SideMeans
<1> DEFINE Tells(c) == \E k \in ToReport(c) : x = [change |-> c, title |-> Title(c, k)]
           Gone == {n \in Counting("base") : MissingFrom("head", input.base[n])}
           New == {n \in Counting("head") : MissingFrom("base", input.head[n])}
           Both == {n \in Counting("head") : \E m \in Counting("base") :
                      /\ SameResource(input.base[m], input.head[n])
                      /\ Shown(input.base[m]) # Shown(input.head[n])}
<1>4. x \in Expected <=>
        \/ \E n \in Gone : x = [change |-> "deleted", title |-> Key(input.base[n])]
        \/ \E n \in New  : x = [change |-> "added", title |-> Key(input.head[n])]
        \/ \E n \in Both : x = [change |-> "modified", title |-> Key(input.head[n])]
  BY DEF Expected
<1>5. (\E n \in Gone : x = [change |-> "deleted", title |-> Key(input.base[n])]) <=> Tells("deleted")
  <2>1. ASSUME NEW n \in Gone PROVE /\ KeyFor(input.base[n]) \in ToReport("deleted")
                                    /\ Title("deleted", KeyFor(input.base[n])) = Key(input.base[n])
    BY <1>2, <1>3 DEF ToReport, Title
  <2>2. ASSUME NEW k \in ToReport("deleted")
        PROVE  \E n \in Gone : Title("deleted", k) = Key(input.base[n])
    <3>1. k \in DOMAIN BaseMap /\ k \notin DOMAIN HeadMap
      BY DEF ToReport
    <3>2. PICK n \in Counting("base") : KeyFor(input.base[n]) = k
      BY <1>2, <3>1
    <3>3. n \in Gone
      BY <1>3, <3>1, <3>2
    <3> QED BY <1>2, <3>2, <3>3 DEF Title
  <2> QED BY <2>1, <2>2
<1>6. (\E n \in New : x = [change |-> "added", title |-> Key(input.head[n])]) <=> Tells("added")
  <2>1. ASSUME NEW n \in New PROVE /\ KeyFor(input.head[n]) \in ToReport("added")
                                   /\ Title("added", KeyFor(input.head[n])) = Key(input.head[n])
    BY <1>2, <1>3 DEF ToReport, Title
  <2>2. ASSUME NEW k \in ToReport("added")
        PROVE  \E n \in New : Title("added", k) = Key(input.head[n])
    <3>1. k \in DOMAIN HeadMap /\ k \notin DOMAIN BaseMap
      BY DEF ToReport
    <3>2. PICK n \in Counting("head") : KeyFor(input.head[n]) = k
      BY <1>3, <3>1
    <3>3. n \in New
      BY <1>2, <3>1, <3>2
    <3> QED BY <1>3, <3>2, <3>3 DEF Title
  <2> QED BY <2>1, <2>2
<1>7. (\E n \in Both : x = [change |-> "modified", title |-> Key(input.head[n])]) <=> Tells("modified")
  <2>1. ASSUME NEW n \in Both PROVE /\ KeyFor(input.head[n]) \in ToReport("modified")
                                    /\ Title("modified", KeyFor(input.head[n])) = Key(input.head[n])
    <3>1. PICK m \in Counting("base") : /\ SameResource(input.base[m], input.head[n])
                                        /\ Shown(input.base[m]) # Shown(input.head[n])
      OBVIOUS
    <3>2. KeyFor(input.base[m]) = KeyFor(input.head[n])
      BY <3>1, KeySaysResource
    <3>3. n \in Counting("head")
      OBVIOUS
    <3> QED BY <1>2, <1>3, <3>1, <3>2, <3>3 DEF ToReport, Title
  <2>2. ASSUME NEW k \in ToReport("modified")
        PROVE  \E n \in Both : Title("modified", k) = Key(input.head[n])
    <3>1. k \in DOMAIN HeadMap /\ k \in DOMAIN BaseMap /\ Raw(BaseMap[k]) # Raw(HeadMap[k])
      BY DEF ToReport
    <3>2. PICK n \in Counting("head") : KeyFor(input.head[n]) = k
      BY <1>3, <3>1
    <3>3. PICK m \in Counting("base") : KeyFor(input.base[m]) = k
      BY <1>2, <3>1
    <3>4. SameResource(input.base[m], input.head[n])
      BY <3>2, <3>3, KeySaysResource
    <3>5. n \in Both
      BY <1>2, <1>3, <3>1, <3>2, <3>3, <3>4
    <3> QED BY <1>3, <3>2, <3>5 DEF Title
  <2> QED BY <2>1, <2>2
<1> QED BY <1>4, <1>5, <1>6, <1>7 DEF Changes

LEMMA Complete == EngineInv => DiffsExact
<1> SUFFICES ASSUME EngineInv, stage = "returned" PROVE
      /\ {[change |-> d.change, title |-> d.title] : d \in ToSet(diffs)} = Expected
      /\ Len(diffs) = Cardinality(Expected)
      /\ \A d \in ToSet(diffs) : d.body # <<>>
  BY DEF DiffsExact
<1> DEFINE f == [n \in DOMAIN diffs |-> [change |-> diffs[n].change, title |-> diffs[n].title]]
<1>1. ReportInv /\ \A c \in Changes : \A k \in ToReport(c) : Seen(c, k)
  BY DEF EngineInv, CallInv, Seen
<1>2. DOMAIN diffs = 1..Len(diffs) /\ Len(diffs) \in Nat
  BY <1>1 DEF ReportInv
<1>3. \A n \in DOMAIN diffs : f[n] \in Expected
  <2> SUFFICES ASSUME NEW n \in DOMAIN diffs PROVE f[n] \in Expected
    OBVIOUS
  <2>1. PICK c \in Changes : \E k \in ToReport(c) :
          diffs[n].change = c /\ diffs[n].title = Title(c, k)
    BY <1>1 DEF ReportInv
  <2>2. PICK k \in ToReport(c) : diffs[n].change = c /\ diffs[n].title = Title(c, k)
    BY <2>1
  <2>3. f[n] = [change |-> c, title |-> Title(c, k)]
    BY <2>2
  <2> HIDE DEF f
  <2> QED BY <2>3, ExpectedChanges
<1>4. \A x \in Expected : \E n \in DOMAIN diffs : f[n] = x
  <2> SUFFICES ASSUME NEW x \in Expected PROVE \E n \in DOMAIN diffs : f[n] = x
    OBVIOUS
  <2>1. PICK c \in Changes : \E k \in ToReport(c) : x = [change |-> c, title |-> Title(c, k)]
    BY ExpectedChanges
  <2>2. PICK k \in ToReport(c) : x = [change |-> c, title |-> Title(c, k)]
    BY <2>1
  <2>3. PICK n \in DOMAIN diffs : diffs[n].change = c /\ diffs[n].title = Title(c, k)
    BY <1>1 DEF ReportInv
  <2> QED BY <2>2, <2>3
<1>5. \A m, n \in DOMAIN diffs : m # n => f[m] # f[n]
  BY <1>1 DEF ReportInv
<1>6. {[change |-> d.change, title |-> d.title] : d \in ToSet(diffs)} = Expected
  BY <1>3, <1>4 DEF ToSet
<1>7. Len(diffs) = Cardinality(Expected)
  <2> DEFINE L == Len(diffs)
  <2>1. f \in Bijection(1..L, Expected)
    BY <1>2, <1>3, <1>4, <1>5 DEF Bijection, Injection, Surjection, IsInjective
  <2>2. L \in Nat
    BY <1>2
  <2> HIDE DEF L, f
  <2>3. IsFiniteSet(1..L) /\ Cardinality(1..L) = L
    BY <2>2, FS_Interval
  <2>4. Cardinality(1..L) = Cardinality(Expected)
    BY <2>1, <2>3, FS_Bijection DEF ExistsBijection
  <2> QED BY <2>3, <2>4 DEF L
<1>8. \A d \in ToSet(diffs) : d.body # <<>>
  BY <1>1 DEF ReportInv, ToSet
<1> QED BY <1>6, <1>7, <1>8

\* Every variable of a call keeps its type, for any inputs and any context.
THEOREM EngineTypes == EngineSpec => []EngineTypeOK
BY EngineInvariant, EngineTyped, PTL

\* What GenerateDiffWithOptions returns is what it must report: in whatever order
\* the maps are visited, every change is there once and nothing else is.
THEOREM DiffsAreExact == EngineSpec => []DiffsExact
BY EngineInvariant, Complete, PTL

\* HasChanges and the counts agree with the diffs at every step of both loops.
THEOREM ResultIsConsistent == EngineSpec => []ResultConsistent
BY EngineInvariant, Consistent, PTL

-----------------------------------------------------------------------------
(* The finished diff as a patch.  What is said of one text is said of both.   *)

Finished == DiffInv /\ CutsInv /\ step = "done" /\ old # new /\ old # <<>> /\ new # <<>>

TextOf(side) == IF side = "old" THEN old ELSE new
OtherMark(side) == IF side = "old" THEN "+" ELSE "-"
OnSide(side, n) == script[n].change # OtherMark(side)
LineOn(side, n) == IF side = "old" THEN script[n].oldLine ELSE script[n].newLine

\* How far a text is read once the script is told up to p.
ReadTo(side, p, l) ==
  \A n \in DOMAIN script : OnSide(side, n) => (n <= p <=> LineOn(side, n) <= l)
Read(side, p) == CHOOSE l \in 0..Len(TextOf(side)) : ReadTo(side, p, l)

LEMMA Account ==
  ASSUME Finished, NEW side \in {"old", "new"}
  PROVE  /\ TextOf(side) \in Seq(Lines) /\ Len(TextOf(side)) \in Nat \ {0}
         /\ Len(script) \in Nat /\ DOMAIN script = 1..Len(script)
         /\ \A n \in DOMAIN script : OnSide(side, n) =>
              /\ LineOn(side, n) \in 1..Len(TextOf(side))
              /\ script[n].text = TextOf(side)[LineOn(side, n)]
         /\ \A m, n \in DOMAIN script :
              m < n /\ OnSide(side, m) /\ OnSide(side, n) => LineOn(side, m) < LineOn(side, n)
         /\ \A l \in 1..Len(TextOf(side)) :
              \E n \in DOMAIN script : OnSide(side, n) /\ LineOn(side, n) = l
<1>1. /\ DiffTypeOK /\ LineInv /\ OrderInv /\ CoverInv
      /\ oldIdx = Len(old) /\ newIdx = Len(new)
  BY DEF Finished, DiffInv, ScriptInv, WholeInv
<1>2. Len(script) \in Nat /\ DOMAIN script = 1..Len(script)
  BY <1>1, Lengths
<1>3. TextOf(side) \in Seq(Lines) /\ TextOf(side) # <<>>
  BY <1>1 DEF DiffTypeOK, TextOf, Finished
<1>4. Len(TextOf(side)) \in Nat \ {0}
  BY <1>3, EmptySeq
<1>5. CASE side = "old"
  <2>1. /\ TextOf(side) = old /\ \A n : OnSide(side, n) <=> script[n].change # "+"
        /\ \A n : LineOn(side, n) = script[n].oldLine
    BY <1>5 DEF TextOf, OnSide, OtherMark, LineOn
  <2>2. \A l \in 1..Len(old) : \E n \in DOMAIN script : script[n].change # "+" /\ script[n].oldLine = l
    <3> SUFFICES ASSUME NEW l \in 1..Len(old)
                 PROVE  \E n \in DOMAIN script : script[n].change # "+" /\ script[n].oldLine = l
      OBVIOUS
    <3>1. PICK n \in DOMAIN script : script[n].oldLine = l
      BY <1>1 DEF CoverInv
    <3>2. l # 0
      OBVIOUS
    <3> QED BY <1>1, <3>1, <3>2 DEF LineInv
  <2>3. \A n \in DOMAIN script : script[n].change # "+" =>
          script[n].oldLine \in 1..Len(old) /\ script[n].text = old[script[n].oldLine]
    BY <1>1 DEF LineInv
  <2>4. \A m, n \in DOMAIN script : m < n /\ script[m].change # "+" /\ script[n].change # "+" =>
          script[m].oldLine < script[n].oldLine
    BY <1>1 DEF OrderInv
  <2> QED BY <1>2, <1>3, <1>4, <2>1, <2>2, <2>3, <2>4, SMTT(30)
<1>6. CASE side = "new"
  <2>1. /\ TextOf(side) = new /\ \A n : OnSide(side, n) <=> script[n].change # "-"
        /\ \A n : LineOn(side, n) = script[n].newLine
    BY <1>6 DEF TextOf, OnSide, OtherMark, LineOn
  <2>2. \A l \in 1..Len(new) : \E n \in DOMAIN script : script[n].change # "-" /\ script[n].newLine = l
    <3> SUFFICES ASSUME NEW l \in 1..Len(new)
                 PROVE  \E n \in DOMAIN script : script[n].change # "-" /\ script[n].newLine = l
      OBVIOUS
    <3>1. PICK n \in DOMAIN script : script[n].newLine = l
      BY <1>1 DEF CoverInv
    <3>2. l # 0
      OBVIOUS
    <3> QED BY <1>1, <3>1, <3>2 DEF LineInv
  <2>3. \A n \in DOMAIN script : script[n].change # "-" =>
          script[n].newLine \in 1..Len(new) /\ script[n].text = new[script[n].newLine]
    BY <1>1 DEF LineInv
  <2>4. \A m, n \in DOMAIN script : m < n /\ script[m].change # "-" /\ script[n].change # "-" =>
          script[m].newLine < script[n].newLine
    BY <1>1 DEF OrderInv
  <2> QED BY <1>2, <1>3, <1>4, <2>1, <2>2, <2>3, <2>4, SMTT(30)
<1> QED BY <1>5, <1>6

\* At every point of the script there is a line up to which a text is read.
LEMMA ReadSoFar ==
  ASSUME Finished, NEW side \in {"old", "new"}, NEW p \in 0..Len(script)
  PROVE  Read(side, p) \in 0..Len(TextOf(side)) /\ ReadTo(side, p, Read(side, p))
<1> DEFINE all == Len(TextOf(side))
           Behind == {l \in Nat : \A n \in DOMAIN script :
                        n <= p /\ OnSide(side, n) => LineOn(side, n) <= l}
<1>1. /\ all \in Nat /\ p \in Nat /\ Len(script) \in Nat /\ DOMAIN script = 1..Len(script)
      /\ \A n \in DOMAIN script : OnSide(side, n) => LineOn(side, n) \in 1..all
      /\ \A m, n \in DOMAIN script :
           m < n /\ OnSide(side, m) /\ OnSide(side, n) => LineOn(side, m) < LineOn(side, n)
  BY Account
<1> HIDE DEF all
<1>2. Behind \subseteq Nat /\ all \in Behind
  BY <1>1
<1>3. PICK l \in Behind : \A k \in Behind : ~(<<k, l>> \in OpToRel(<, Nat))
  BY <1>2, NatLessThanWellFounded, WFMin
<1>4. l \in Nat /\ \A k \in Behind : ~(k < l)
  BY <1>2, <1>3 DEF OpToRel
<1>5. l \in 0..all
  BY <1>1, <1>2, <1>4
<1>6. ASSUME NEW n \in DOMAIN script, OnSide(side, n), p < n PROVE l < LineOn(side, n)
  <2>1. LineOn(side, n) \in Nat \ {0}
    BY <1>1, <1>6
  <2>2. CASE l = 0
    BY <2>1, <2>2
  <2>3. CASE l # 0
    <3>1. l - 1 \in Nat /\ l - 1 < l
      BY <1>4, <2>3
    <3>2. PICK m \in DOMAIN script : m <= p /\ OnSide(side, m) /\ ~(LineOn(side, m) <= l - 1)
      BY <1>4, <3>1
    <3>3. LineOn(side, m) \in Nat /\ m < n
      BY <1>1, <1>6, <3>2
    <3>4. LineOn(side, m) < LineOn(side, n)
      BY <1>1, <1>6, <3>2, <3>3
    <3> QED BY <1>4, <2>1, <3>2, <3>3, <3>4
  <2> QED BY <2>2, <2>3
<1>7. ReadTo(side, p, l)
  <2> SUFFICES ASSUME NEW n \in DOMAIN script, OnSide(side, n)
               PROVE  n <= p <=> LineOn(side, n) <= l
    BY DEF ReadTo
  <2>1. n <= p => LineOn(side, n) <= l
    BY <1>3
  <2>2. n \in Nat /\ LineOn(side, n) \in Nat
    BY <1>1
  <2>3. ASSUME ~(n <= p) PROVE ~(LineOn(side, n) <= l)
    <3>1. p < n
      BY <1>1, <2>2, <2>3
    <3>2. l < LineOn(side, n)
      BY <1>6, <3>1
    <3> QED BY <1>4, <2>2, <3>2
  <2> QED BY <2>1, <2>3
<1> QED BY <1>5, <1>7 DEF Read, all

\* Both ends.
LEMMA ReadAll ==
  ASSUME Finished, NEW side \in {"old", "new"}
  PROVE  Read(side, 0) = 0 /\ Read(side, Len(script)) = Len(TextOf(side))
<1> DEFINE all == Len(TextOf(side))
<1>1. /\ all \in Nat \ {0} /\ Len(script) \in Nat /\ DOMAIN script = 1..Len(script)
      /\ \A l \in 1..all : \E n \in DOMAIN script : OnSide(side, n) /\ LineOn(side, n) = l
  BY Account
<1>2. /\ Read(side, 0) \in 0..all /\ ReadTo(side, 0, Read(side, 0))
      /\ Read(side, Len(script)) \in 0..all /\ ReadTo(side, Len(script), Read(side, Len(script)))
  BY <1>1, ReadSoFar
<1> HIDE DEF all
<1>3. ASSUME Read(side, 0) # 0 PROVE FALSE
  <2>1. Read(side, 0) \in 1..all
    BY <1>1, <1>2, <1>3
  <2>2. PICK n \in DOMAIN script : OnSide(side, n) /\ LineOn(side, n) = Read(side, 0)
    BY <1>1, <2>1
  <2>3. ~(n <= 0) /\ Read(side, 0) <= Read(side, 0)
    BY <1>1, <2>1
  <2> QED BY <1>2, <2>2, <2>3 DEF ReadTo
<1>4. all <= Read(side, Len(script))
  <2>1. PICK n \in DOMAIN script : OnSide(side, n) /\ LineOn(side, n) = all
    BY <1>1
  <2>2. n <= Len(script)
    BY <1>1
  <2> QED BY <1>2, <2>1, <2>2 DEF ReadTo
<1> QED BY <1>1, <1>2, <1>3, <1>4 DEF all

\* The places of a set whose elements are numbered in their order.
Numbers(f, K, lo, hi) ==
  /\ f \in [K -> lo + 1..hi]
  /\ \A j, k \in K : j < k => f[j] < f[k]
  /\ \A l \in lo + 1..hi : \E k \in K : f[k] = l

LEMMA Numbered ==
  ASSUME NEW K \in SUBSET Nat, NEW lo \in Nat, NEW hi \in Nat, lo <= hi,
         NEW f, Numbers(f, K, lo, hi)
  PROVE  /\ IsFiniteSet(K) /\ Cardinality(K) = hi - lo
         /\ \A k \in K : Place(K, k) = f[k] - lo
<1> USE DEF Numbers
<1>1. \A j, k \in K : /\ j \in Nat /\ k \in Nat /\ f[j] \in Nat /\ f[k] \in Nat
                      /\ j # k => f[j] # f[k]
                      /\ j <= k <=> f[j] <= f[k]
  <2> SUFFICES ASSUME NEW j \in K, NEW k \in K
               PROVE  /\ j \in Nat /\ k \in Nat /\ f[j] \in Nat /\ f[k] \in Nat
                      /\ j # k => f[j] # f[k]
                      /\ j <= k <=> f[j] <= f[k]
    OBVIOUS
  <2>1. j \in Nat /\ k \in Nat /\ f[j] \in Nat /\ f[k] \in Nat
    OBVIOUS
  <2>2. (j < k => f[j] < f[k]) /\ (k < j => f[k] < f[j])
    OBVIOUS
  <2> QED BY <2>1, <2>2
\* The first of them, up to some number.
<1>2. ASSUME NEW b \in lo..hi, NEW J \in SUBSET K, \A k \in K : k \in J <=> f[k] <= b
      PROVE  IsFiniteSet(J) /\ Cardinality(J) = b - lo
  <2> DEFINE g == [k \in J |-> f[k]]
  <2>1. \A k \in J : f[k] \in lo + 1..b
    BY <1>2
  <2>2. \A l \in lo + 1..b : \E k \in J : f[k] = l
    <3> SUFFICES ASSUME NEW l \in lo + 1..b PROVE \E k \in J : f[k] = l
      OBVIOUS
    <3>1. l \in lo + 1..hi /\ l <= b
      OBVIOUS
    <3> QED BY <1>2, <3>1
  <2>3. g \in Injection(J, lo + 1..b) /\ g \in Surjection(J, lo + 1..b)
    BY <1>1, <2>1, <2>2 DEF Injection, Surjection, IsInjective
  <2>4. IsFiniteSet(lo + 1..b) /\ Cardinality(lo + 1..b) = b - lo
    <3>1. lo + 1 \in Int /\ b \in Int
      OBVIOUS
    <3>2. /\ IsFiniteSet(lo + 1..b)
          /\ Cardinality(lo + 1..b) = IF lo + 1 > b THEN 0 ELSE b - (lo + 1) + 1
      BY <3>1, FS_Interval
    <3> QED BY <3>2
  <2> QED BY <2>3, <2>4, FS_Injection
<1>3. IsFiniteSet(K) /\ Cardinality(K) = hi - lo
  <2>1. hi \in lo..hi /\ \A k \in K : k \in K <=> f[k] <= hi
    OBVIOUS
  <2> QED BY <1>2, <2>1
<1>4. ASSUME NEW k \in K PROVE Place(K, k) = f[k] - lo
  <2>1. f[k] \in lo..hi
    OBVIOUS
  <2>2. \A j \in K : j \in {i \in K : i <= k} <=> f[j] <= f[k]
    BY <1>1
  <2>3. Cardinality({i \in K : i <= k}) = f[k] - lo
    BY <1>2, <2>1, <2>2
  <2> QED BY <2>3 DEF Place
<1> QED BY <1>3, <1>4

\* Some lines of a stretch, and those of them that are on a side.
OnlySide(ls, side) == Selected(ls, {n \in DOMAIN ls : ls[n].change # OtherMark(side)})
Piece(ls, p, q) ==
  /\ \E T : ls \in Seq(T)
  /\ Len(ls) = q - p
  /\ \A n \in 1..q - p : ls[n].change = script[p + n].change /\ ls[n].text = script[p + n].text

\* What ls, lines of a text, are when the script is told from p to q.
Told(side, p, q, ls, s) ==
  LET lo == Read(side, p)
      hi == Read(side, q)
  IN  /\ lo \in Nat /\ hi \in Nat /\ lo <= hi /\ hi <= Len(TextOf(side)) /\ Len(s) = hi - lo
      /\ DOMAIN s = 1..Len(s)
      /\ SubSeq(TextOf(side), lo + 1, hi) = Texts(s)
      /\ \A m \in 1..Len(s) :
           \E k \in DOMAIN ls : s[m] = ls[k] /\ LineOn(side, p + k) = lo + m
      /\ \A n \in p + 1..q : OnSide(side, n) => Len(s) # 0

\* A stretch of the script holds, of each text, the lines between its ends.
LEMMA SidePart ==
  ASSUME Finished, NEW side \in {"old", "new"}, NEW p \in Nat, NEW q \in Nat,
         p <= q, q <= Len(script), NEW ls, Piece(ls, p, q)
  PROVE  Told(side, p, q, ls, OnlySide(ls, side))
<1>a. PICK T : ls \in Seq(T)
  BY DEF Piece
<1>b. /\ Len(ls) = q - p
      /\ \A n \in 1..q - p : ls[n].change = script[p + n].change /\ ls[n].text = script[p + n].text
  BY DEF Piece
<1> DEFINE K == {n \in DOMAIN ls : ls[n].change # OtherMark(side)}
           s == Selected(ls, K)
           lo == Read(side, p)
           hi == Read(side, q)
           text == TextOf(side)
           f == [n \in K |-> LineOn(side, p + n)]
<1>c. p \in 0..Len(script) /\ q \in 0..Len(script)
  BY Account
<1>1. /\ text \in Seq(Lines) /\ Len(text) \in Nat /\ Len(script) \in Nat
      /\ DOMAIN script = 1..Len(script) /\ p \in Nat /\ q \in Nat /\ p <= Len(script) /\ q <= Len(script)
      /\ \A n \in DOMAIN script : OnSide(side, n) =>
           LineOn(side, n) \in 1..Len(text) /\ script[n].text = text[LineOn(side, n)]
      /\ \A m, n \in DOMAIN script :
           m < n /\ OnSide(side, m) /\ OnSide(side, n) => LineOn(side, m) < LineOn(side, n)
      /\ \A l \in 1..Len(text) : \E n \in DOMAIN script : OnSide(side, n) /\ LineOn(side, n) = l
  BY Account
<1>2. /\ lo \in 0..Len(text) /\ ReadTo(side, p, lo)
      /\ hi \in 0..Len(text) /\ ReadTo(side, q, hi)
  BY <1>c, ReadSoFar
<1>3. DOMAIN ls = 1..q - p /\ K \subseteq 1..q - p
  BY <1>a, <1>b
<1>4. \A n \in 1..q - p : n \in K <=> OnSide(side, p + n)
  BY <1>3, <1>b DEF OnSide
<1> HIDE DEF K, s, lo, hi, text
<1>5. lo <= hi
  <2> SUFFICES ASSUME ~(lo <= hi) PROVE FALSE
    OBVIOUS
  <2>1. lo \in 1..Len(text)
    BY <1>1, <1>2
  <2>2. PICK n \in DOMAIN script : OnSide(side, n) /\ LineOn(side, n) = lo
    BY <1>1, <2>1
  <2>3. n <= p
    BY <1>1, <1>2, <2>2 DEF ReadTo
  <2>4. n <= q
    BY <1>1, <2>3
  <2> QED BY <1>2, <2>2, <2>4 DEF ReadTo
<1>6. ASSUME NEW n \in K
      PROVE  /\ n \in Nat /\ p + n \in DOMAIN script /\ OnSide(side, p + n)
             /\ LineOn(side, p + n) \in lo + 1..hi
  <2>1. n \in 1..q - p /\ p + n \in DOMAIN script /\ OnSide(side, p + n) /\ ~(p + n <= p) /\ p + n <= q
    BY <1>1, <1>3, <1>4
  <2>2. ~(LineOn(side, p + n) <= lo) /\ LineOn(side, p + n) <= hi
    BY <1>2, <2>1 DEF ReadTo
  <2>3. LineOn(side, p + n) \in Nat
    BY <1>1, <2>1
  <2> QED BY <1>1, <1>2, <2>1, <2>2, <2>3
<1>7. f \in [K -> lo + 1..hi] /\ K \in SUBSET Nat
  BY <1>6
<1>8. \A j, k \in K : j < k => f[j] < f[k]
  <2> SUFFICES ASSUME NEW j \in K, NEW k \in K, j < k PROVE LineOn(side, p + j) < LineOn(side, p + k)
    OBVIOUS
  <2>1. p + j < p + k
    BY <1>1, <1>6
  <2> QED BY <1>1, <1>6, <2>1
<1>9. \A l \in lo + 1..hi : \E k \in K : f[k] = l
  <2> SUFFICES ASSUME NEW l \in lo + 1..hi PROVE \E k \in K : f[k] = l
    OBVIOUS
  <2>1. l \in 1..Len(text) /\ l <= hi /\ ~(l <= lo)
    BY <1>1, <1>2
  <2>2. PICK n \in DOMAIN script : OnSide(side, n) /\ LineOn(side, n) = l
    BY <1>1, <2>1
  <2>3. n <= q /\ ~(n <= p)
    BY <1>2, <2>1, <2>2 DEF ReadTo
  <2>4. n - p \in 1..q - p /\ p + (n - p) = n
    BY <1>1, <2>3
  <2>5. n - p \in K
    BY <1>4, <2>2, <2>4
  <2>6. f[n - p] = l
    BY <2>2, <2>4, <2>5
  <2> QED BY <2>5, <2>6
<1>10. lo \in Nat /\ hi \in Nat
  BY <1>1, <1>2
<1>11. Cardinality(K) = hi - lo /\ \A k \in K : Place(K, k) = LineOn(side, p + k) - lo
  <2>1. \A k \in K : f[k] = LineOn(side, p + k)
    OBVIOUS
  <2> HIDE DEF f
  <2>2. Numbers(f, K, lo, hi)
    BY <1>7, <1>8, <1>9 DEF Numbers
  <2>3. Cardinality(K) = hi - lo /\ \A k \in K : Place(K, k) = f[k] - lo
    BY <1>5, <1>7, <1>10, <2>2, Numbered
  <2> QED BY <2>1, <2>3
<1>12. /\ Len(s) = hi - lo /\ DOMAIN s = 1..hi - lo
       /\ \A k \in K : s[Place(K, k)] = ls[k]
       /\ \A m \in 1..hi - lo : \E k \in K : Place(K, k) = m
  <2>1. K \in SUBSET DOMAIN ls
    BY <1>3
  <2> QED BY <1>a, <1>11, <2>1, SelectedElements DEF s
<1>13. ASSUME NEW m \in 1..hi - lo
       PROVE  \E k \in K : s[m] = ls[k] /\ LineOn(side, p + k) = lo + m
  <2>1. PICK k \in K : Place(K, k) = m
    BY <1>12
  <2>2. m = LineOn(side, p + k) - lo /\ s[m] = ls[k]
    BY <1>11, <1>12, <2>1
  <2>3. LineOn(side, p + k) \in Nat /\ m \in Nat
    BY <1>6, <1>10
  <2> QED BY <1>10, <2>2, <2>3
<1>14. SubSeq(text, lo + 1, hi) = Texts(s)
  <2>1. /\ SubSeq(text, lo + 1, hi) = [m \in 1..hi - lo |-> text[lo + m]]
    <3>1. SubSeq(text, lo + 1, hi) = [m \in 1..(1 + hi - (lo + 1)) |-> text[lo + 1 + m - 1]]
      BY <1>1, <1>2
    <3>2. 1 + hi - (lo + 1) = hi - lo /\ \A m \in 1..hi - lo : lo + 1 + m - 1 = lo + m
      BY <1>10
    <3> QED BY <3>1, <3>2
  <2>2. ASSUME NEW m \in 1..hi - lo PROVE text[lo + m] = s[m].text
    <3>1. PICK k \in K : s[m] = ls[k] /\ LineOn(side, p + k) = lo + m
      BY <1>13
    <3>2. script[p + k].text = text[lo + m]
      BY <1>1, <1>6, <3>1
    <3>3. k \in 1..q - p
      BY <1>3
    <3> QED BY <1>b, <3>1, <3>2, <3>3
  <2>3. Texts(s) = [m \in 1..hi - lo |-> s[m].text]
    BY <1>12 DEF Texts
  <2> QED BY <2>1, <2>2, <2>3
<1>15. ASSUME NEW n \in p + 1..q, OnSide(side, n) PROVE hi - lo # 0
  <2>1. n - p \in 1..q - p /\ p + (n - p) = n
    BY <1>1
  <2>2. n - p \in K
    BY <1>4, <1>15, <2>1
  <2>3. LineOn(side, p + (n - p)) \in lo + 1..hi
    BY <1>6, <2>2
  <2> QED BY <1>10, <2>3
<1>16. hi <= Len(text)
  BY <1>1, <1>2
<1>17. \A m \in 1..hi - lo : \E k \in DOMAIN ls : s[m] = ls[k] /\ LineOn(side, p + k) = lo + m
  BY <1>3, <1>13
<1> QED BY <1>5, <1>10, <1>12, <1>14, <1>15, <1>16, <1>17 DEF K, s, lo, hi, text, OnlySide, Told

\* A hunk: its lines, and what is printed of them.
LinesOf(h) == SubSeq(script, hunks[h].first, hunks[h].last)
Printed(h) == [n \in DOMAIN LinesOf(h) |-> [text |-> LinesOf(h)[n].text,
                                            change |-> LinesOf(h)[n].change]]
NumberOf(line, side) == IF side = "old" THEN line.oldLine ELSE line.newLine

LEMMA HunkPlaces ==
  ASSUME Finished
  PROVE  /\ Len(hunks) \in Nat /\ DOMAIN hunks = 1..Len(hunks)
         /\ Len(script) \in Nat /\ DOMAIN script = 1..Len(script)
         /\ \A h \in DOMAIN hunks :
              /\ hunks[h].first \in 1..Len(script) /\ hunks[h].last \in 1..Len(script)
              /\ hunks[h].first \in Nat /\ hunks[h].last \in Nat /\ hunks[h].first - 1 \in Nat
              /\ hunks[h].first <= hunks[h].last /\ hunks[h].last <= Len(script)
              /\ hunks[h].first = 1 \/ ~NearChange(hunks[h].first - 1)
              /\ hunks[h].last = Len(script) \/ ~NearChange(hunks[h].last + 1)
         /\ \A g, h \in DOMAIN hunks : g < h => hunks[g].last < hunks[h].first
<1>1. /\ Len(hunks) \in Nat /\ DOMAIN hunks = 1..Len(hunks)
      /\ Len(script) \in Nat /\ DOMAIN script = 1..Len(script)
  BY Lengths DEF Finished, DiffInv
<1>2. \A h \in DOMAIN hunks :
        /\ hunks[h].first \in 1..Len(script) /\ hunks[h].last \in 1..Len(script)
  BY HunksTyped DEF Finished, DiffInv
<1>3. \A h \in DOMAIN hunks :
        /\ hunks[h].first <= hunks[h].last
        /\ hunks[h].first = 1 \/ ~NearChange(hunks[h].first - 1)
        /\ hunks[h].last = Len(script) \/ ~NearChange(hunks[h].last + 1)
  BY DEF Finished, DiffInv, HunkInv, Stretch
<1>4. \A g, h \in DOMAIN hunks : g < h => hunks[g].last < hunks[h].first
  BY DEF Finished, CutsInv
<1>5. \A h \in DOMAIN hunks : /\ hunks[h].first \in Nat /\ hunks[h].last \in Nat
                             /\ hunks[h].first - 1 \in Nat /\ hunks[h].last <= Len(script)
  BY <1>1, <1>2
<1> QED BY <1>1, <1>2, <1>3, <1>4, <1>5

\* Without a line of the text in a hunk there is no context, and so no text.
LEMMA OnBothSides ==
  ASSUME Finished, NEW side \in {"old", "new"}, NEW h \in DOMAIN hunks
  PROVE  \E n \in hunks[h].first..hunks[h].last : OnSide(side, n)
<1> DEFINE first == hunks[h].first
           last == hunks[h].last
<1>1. /\ Len(script) \in Nat /\ DOMAIN script = 1..Len(script)
      /\ first \in 1..Len(script) /\ last \in 1..Len(script) /\ first <= last
      /\ first \in Nat /\ last \in Nat
      /\ first = 1 \/ ~NearChange(first - 1)
      /\ last = Len(script) \/ ~NearChange(last + 1)
  BY HunkPlaces
<1> HIDE DEF first, last
<1>2. /\ first \in Nat /\ last \in Nat /\ first <= last
      /\ first \in first..last /\ last \in first..last /\ first \in DOMAIN script /\ last \in DOMAIN script
  <2>1. first \in Nat /\ last \in Nat /\ first <= last
    BY <1>1
  <2>2. first \in first..last /\ last \in first..last
    BY <2>1
  <2> QED BY <1>1, <2>1, <2>2
<1>3. ContextLines \in Nat /\ ContextLines >= 1
  BY ContextAssumption
<1>a. /\ first - 1 <= first + ContextLines /\ first <= first - 1 + ContextLines
      /\ last + 1 <= last + ContextLines /\ last <= last + 1 + ContextLines
      /\ first \in DOMAIN script /\ last \in DOMAIN script
  BY <1>2, <1>3
<1> SUFFICES ASSUME \A n \in first..last : ~OnSide(side, n) PROVE FALSE
  BY DEF first, last
<1>b. Changed(first) /\ Changed(last)
  BY <1>2 DEF OnSide, OtherMark, Changed
<1>4. NearChange(first - 1) /\ NearChange(last + 1)
  BY <1>a, <1>b DEF NearChange
<1>5. first = 1 /\ last = Len(script)
  BY <1>1, <1>4
<1>6. 1 \in 1..Len(TextOf(side))
  BY Account
<1>7. PICK n \in DOMAIN script : OnSide(side, n)
  BY <1>6, Account
<1> QED BY <1>1, <1>5, <1>7

LEMMA HunkSide ==
  ASSUME Finished, NEW side \in {"old", "new"}, NEW h \in DOMAIN hunks
  PROVE  LET lo == Read(side, hunks[h].first - 1)
             hi == Read(side, hunks[h].last)
             s == OnlySide(LinesOf(h), side)
         IN  /\ lo \in Nat /\ hi \in Nat /\ lo < hi /\ hi <= Len(TextOf(side))
             /\ s # <<>> /\ NumberOf(s[1], side) = lo + 1 /\ Len(s) = hi - lo
             /\ SubSeq(TextOf(side), lo + 1, hi) = Texts(OnlySide(Printed(h), side))
<1> DEFINE first == hunks[h].first
           last == hunks[h].last
           p == first - 1
           lo == Read(side, p)
           hi == Read(side, last)
           lines == LinesOf(h)
           s == OnlySide(lines, side)
<1>1. /\ Len(script) \in Nat /\ DOMAIN script = 1..Len(script)
      /\ first \in 1..Len(script) /\ last \in 1..Len(script) /\ first <= last
      /\ first \in Nat /\ last \in Nat /\ p \in Nat /\ p <= last /\ last <= Len(script)
  BY HunkPlaces
<1>2. script \in Seq(ScriptLine)
  BY DEF Finished, DiffInv, DiffTypeOK
<1>3. /\ lines \in Seq(ScriptLine) /\ Len(lines) = last - p /\ DOMAIN lines = 1..last - p
      /\ \A n \in 1..last - p : lines[n] = script[p + n]
  <2>1. first..last \subseteq 1..Len(script)
    BY <1>1
  <2>2. /\ lines \in Seq(ScriptLine)
        /\ Len(lines) = IF first <= last THEN last - first + 1 ELSE 0
        /\ \A i \in 1..last - first + 1 : lines[i] = script[first + i - 1]
    BY <1>1, <1>2, <2>1, SubSeqProperties, SMTT(30) DEF LinesOf
  <2>3. last - first + 1 = last - p /\ first \in Int /\ last \in Int
    BY <1>1
  <2>4. \A i \in Int : first + i - 1 = p + i
    BY <2>3
  <2>5. Len(lines) = last - p
    BY <1>1, <2>2, <2>3
  <2>6. ASSUME NEW i \in 1..last - p PROVE lines[i] = script[p + i]
    <3>1. i \in 1..last - first + 1 /\ i \in Int
      BY <2>3
    <3>2. lines[i] = script[first + i - 1] /\ first + i - 1 = p + i
      BY <2>2, <2>4, <3>1
    <3> QED BY <3>2
  <2>7. DOMAIN lines = 1..last - p
    BY <2>2, <2>5
  <2> QED BY <2>2, <2>5, <2>6, <2>7
<1>4. PICK n \in p + 1..last : OnSide(side, n)
  BY <1>1, OnBothSides
<1>5. Piece(lines, p, last)
  BY <1>3 DEF Piece
<1> HIDE DEF first, last, p, lo, hi, lines, s
<1>6. /\ lo \in Nat /\ hi \in Nat /\ lo <= hi /\ hi <= Len(TextOf(side)) /\ Len(s) = hi - lo
      /\ DOMAIN s = 1..Len(s)
      /\ \A m \in 1..Len(s) : \E k \in DOMAIN lines : s[m] = lines[k] /\ LineOn(side, p + k) = lo + m
      /\ Len(s) # 0
  <2>1. Told(side, p, last, lines, s)
    BY <1>1, <1>5, SidePart DEF s
  <2> QED BY <1>4, <2>1 DEF Told, lo, hi
<1>7. s # <<>> /\ 1 \in 1..Len(s) /\ lo < hi
  BY <1>6
<1>8. NumberOf(s[1], side) = lo + 1
  <2>1. PICK k \in DOMAIN lines : s[1] = lines[k] /\ LineOn(side, p + k) = lo + 1
    BY <1>6, <1>7
  <2>2. s[1] = script[p + k]
    BY <1>3, <2>1
  <2> QED BY <2>1, <2>2 DEF NumberOf, LineOn
<1>9. SubSeq(TextOf(side), lo + 1, hi) = Texts(OnlySide(Printed(h), side))
  <2> DEFINE out == Printed(h)
             k == last - p
             T == {out[i] : i \in 1..k}
  <2>1. out = [i \in 1..k |-> [text |-> lines[i].text, change |-> lines[i].change]]
    BY <1>3 DEF Printed, lines
  <2>2. k \in Nat
    BY <1>1
  <2>3. /\ \A i \in 1..k : out[i].text = lines[i].text /\ out[i].change = lines[i].change
        /\ \A i \in 1..k : out[i] \in T
    BY <2>1
  <2> HIDE DEF k
  <2>4. out \in Seq(T) /\ Len(out) = k
    <3> HIDE DEF T
    <3> QED BY <2>1, <2>2, <2>3
  <2>5. \A i \in 1..k : out[i].change = script[p + i].change /\ out[i].text = script[p + i].text
    BY <1>3, <2>3 DEF k
  <2> HIDE DEF out, T
  <2>6. Piece(out, p, last)
    BY <2>4, <2>5 DEF Piece, k
  <2>7. Told(side, p, last, out, OnlySide(out, side))
    BY <1>1, <2>6, SidePart
  <2> QED BY <2>7 DEF Told, lo, hi, out
<1> QED BY <1>6, <1>7, <1>8, <1>9 DEF first, last, p, lo, hi, lines, s

\* The headers tell the truth.
LEMMA Headers ==
  ASSUME Finished, NEW h \in DOMAIN hunks
  PROVE  /\ Output[h].lines = Printed(h)
         /\ OldSide(Printed(h)) = OnlySide(Printed(h), "old")
         /\ NewSide(Printed(h)) = OnlySide(Printed(h), "new")
         /\ OldStart(h) = Read("old", hunks[h].first - 1) + 1 /\ OldEnd(h) = Read("old", hunks[h].last)
         /\ NewStart(h) = Read("new", hunks[h].first - 1) + 1 /\ NewEnd(h) = Read("new", hunks[h].last)
<1>1. \A ls : OldSide(ls) = OnlySide(ls, "old") /\ NewSide(ls) = OnlySide(ls, "new")
  BY DEF OldSide, NewSide, OnlySide, OtherMark
<1>2. Output[h] = [header |-> Header(LinesOf(h)), lines |-> Printed(h)]
  BY DEF Output, LinesOf, Printed
<1> DEFINE olds == OnlySide(LinesOf(h), "old")
           news == OnlySide(LinesOf(h), "new")
<1>3. Header(LinesOf(h)) = [oldStart |-> IF olds = <<>> THEN 1 ELSE olds[1].oldLine, oldCount |-> Len(olds),
                            newStart |-> IF news = <<>> THEN 1 ELSE news[1].newLine, newCount |-> Len(news)]
  BY <1>1 DEF Header
<1> HIDE DEF olds, news
<1>4. /\ Output[h].header.oldStart = (IF olds = <<>> THEN 1 ELSE olds[1].oldLine)
      /\ Output[h].header.oldCount = Len(olds)
      /\ Output[h].header.newStart = (IF news = <<>> THEN 1 ELSE news[1].newLine)
      /\ Output[h].header.newCount = Len(news)
  BY <1>2, <1>3
<1>5. LET lo == Read("old", hunks[h].first - 1)
          hi == Read("old", hunks[h].last)
      IN  lo \in Nat /\ hi \in Nat /\ olds # <<>> /\ olds[1].oldLine = lo + 1 /\ Len(olds) = hi - lo
  BY HunkSide DEF olds, NumberOf
<1>6. LET lo == Read("new", hunks[h].first - 1)
          hi == Read("new", hunks[h].last)
      IN  lo \in Nat /\ hi \in Nat /\ news # <<>> /\ news[1].newLine = lo + 1 /\ Len(news) = hi - lo
  BY HunkSide DEF news, NumberOf
<1>7. ~(h > Len(hunks)) /\ h # 0
  BY HunkPlaces
<1>8. /\ OldStart(h) = Output[h].header.oldStart
      /\ OldEnd(h) = Output[h].header.oldStart + Output[h].header.oldCount - 1
      /\ NewStart(h) = Output[h].header.newStart
      /\ NewEnd(h) = Output[h].header.newStart + Output[h].header.newCount - 1
  BY <1>7 DEF OldStart, OldEnd, NewStart, NewEnd
<1>9. /\ OldStart(h) = Read("old", hunks[h].first - 1) + 1 /\ OldEnd(h) = Read("old", hunks[h].last)
  BY <1>4, <1>5, <1>8
<1>10. /\ NewStart(h) = Read("new", hunks[h].first - 1) + 1 /\ NewEnd(h) = Read("new", hunks[h].last)
  BY <1>4, <1>6, <1>8
<1> QED BY <1>1, <1>2, <1>9, <1>10

\* Between two stretches that hold every change the texts are the same.
LEMMA Gap ==
  ASSUME Finished, NEW p \in Nat, NEW q \in Nat, p <= q, q <= Len(script),
         \A n \in p + 1..q : ~Changed(n)
  PROVE  SubSeq(old, Read("old", p) + 1, Read("old", q)) = SubSeq(new, Read("new", p) + 1, Read("new", q))
<1> DEFINE ls == SubSeq(script, p + 1, q)
<1>1. script \in Seq(ScriptLine) /\ Len(script) \in Nat /\ p \in Nat /\ q \in Nat
  BY Lengths DEF Finished, DiffInv, DiffTypeOK
<1>2. /\ ls \in Seq(ScriptLine) /\ Len(ls) = q - p /\ DOMAIN ls = 1..q - p
      /\ \A n \in 1..q - p : ls[n] = script[p + n]
  <2>1. p + 1..q \subseteq 1..Len(script)
    BY <1>1
  <2>2. /\ ls \in Seq(ScriptLine)
        /\ Len(ls) = IF p + 1 <= q THEN q - (p + 1) + 1 ELSE 0
        /\ \A i \in 1..q - (p + 1) + 1 : ls[i] = script[p + 1 + i - 1]
    BY <1>1, <2>1, SubSeqProperties
  <2>3. /\ q - (p + 1) + 1 = q - p /\ \A i \in Int : p + 1 + i - 1 = p + i
        /\ ~(p + 1 <= q) => q - p = 0
    BY <1>1
  <2> QED BY <1>1, <2>2, <2>3
<1> HIDE DEF ls
<1>3. Piece(ls, p, q)
  BY <1>2 DEF Piece
<1>4. \A n \in DOMAIN ls : ls[n].change = " "
  <2> SUFFICES ASSUME NEW n \in 1..q - p PROVE script[p + n].change = " "
    BY <1>2
  <2>1. p + n \in p + 1..q
    BY <1>1
  <2> QED BY <2>1 DEF Changed
<1>5. {n \in DOMAIN ls : ls[n].change # OtherMark("old")} = {n \in DOMAIN ls : ls[n].change # OtherMark("new")}
  BY <1>4 DEF OtherMark
<1>6. OnlySide(ls, "old") = OnlySide(ls, "new")
  BY <1>5 DEF OnlySide
<1>7. SubSeq(TextOf("old"), Read("old", p) + 1, Read("old", q)) = Texts(OnlySide(ls, "old"))
  <2>1. Told("old", p, q, ls, OnlySide(ls, "old"))
    BY <1>3, SidePart
  <2> QED BY <2>1 DEF Told
<1>8. SubSeq(TextOf("new"), Read("new", p) + 1, Read("new", q)) = Texts(OnlySide(ls, "new"))
  <2>1. Told("new", p, q, ls, OnlySide(ls, "new"))
    BY <1>3, SidePart
  <2> QED BY <2>1 DEF Told
<1> QED BY <1>6, <1>7, <1>8 DEF TextOf

LEMMA Spot ==
  ASSUME NEW n \in Nat, NEW h \in 0..n
  PROVE  /\ h \in Nat /\ h <= n
         /\ h # 0 => h \in 1..n
         /\ h # n => h < n /\ h + 1 \in 1..n
         /\ \A g \in 1..n : g \in Nat /\ g <= n /\ g # 0 /\ (g > h => h # n)
OBVIOUS

LEMMA Within ==
  ASSUME NEW l \in Nat, NEW q \in Nat, q <= l, NEW n \in Nat, n # 0, n <= q
  PROVE  n \in 1..l
OBVIOUS

\* Where a hunk ends, or the first gap begins.
LEMMA EndsOfHunks ==
  ASSUME Finished, NEW h \in 0..Len(hunks)
  PROVE  \E p \in Nat : /\ p <= Len(script)
                        /\ OldEnd(h) = Read("old", p) /\ NewEnd(h) = Read("new", p)
                        /\ p = IF h = 0 THEN 0 ELSE hunks[h].last
<1>1. CASE h = 0
  <2>1. 0 \in Nat /\ 0 <= Len(script)
    BY HunkPlaces
  <2>2. OldEnd(h) = Read("old", 0) /\ NewEnd(h) = Read("new", 0)
    BY <1>1, ReadAll DEF OldEnd, NewEnd
  <2> QED BY <1>1, <2>1, <2>2
<1>2. CASE h # 0
  <2>1. h \in DOMAIN hunks
    BY <1>2, HunkPlaces
  <2>2. hunks[h].last \in Nat /\ hunks[h].last <= Len(script)
    BY <2>1, HunkPlaces
  <2>3. OldEnd(h) = Read("old", hunks[h].last) /\ NewEnd(h) = Read("new", hunks[h].last)
    BY <2>1, Headers
  <2> QED BY <1>2, <2>2, <2>3
<1> QED BY <1>1, <1>2

\* Where the next one starts, or the last gap ends.
LEMMA StartsOfHunks ==
  ASSUME Finished, NEW h \in 0..Len(hunks)
  PROVE  \E q \in Nat : /\ q <= Len(script)
                        /\ OldStart(h + 1) - 1 = Read("old", q) /\ NewStart(h + 1) - 1 = Read("new", q)
                        /\ q = IF h = Len(hunks) THEN Len(script) ELSE hunks[h + 1].first - 1
<1>0. Len(hunks) \in Nat /\ DOMAIN hunks = 1..Len(hunks) /\ Len(script) \in Nat
  BY HunkPlaces
<1>1. h \in Nat /\ h <= Len(hunks)
  BY <1>0, Spot, Zenon
<1>2. CASE h = Len(hunks)
  <2>1. h + 1 > Len(hunks) /\ Len(old) \in Nat /\ Len(new) \in Nat
    BY <1>0, <1>2, Lengths DEF Finished, DiffInv
  <2>2. OldStart(h + 1) = Len(old) + 1 /\ NewStart(h + 1) = Len(new) + 1
    BY <2>1 DEF OldStart, NewStart
  <2>3. Read("old", Len(script)) = Len(old) /\ Read("new", Len(script)) = Len(new)
    BY ReadAll DEF TextOf
  <2>4. OldStart(h + 1) - 1 = Read("old", Len(script)) /\ NewStart(h + 1) - 1 = Read("new", Len(script))
    BY <2>1, <2>2, <2>3
  <2>5. Len(script) \in Nat /\ Len(script) <= Len(script)
    BY <1>0
  <2> QED BY <1>2, <2>4, <2>5
<1>3. CASE h # Len(hunks)
  <2>2. h + 1 \in 1..Len(hunks)
    BY <1>0, <1>3, Spot, Zenon
  <2>3. h + 1 \in DOMAIN hunks
    BY <1>0, <2>2
  <2> DEFINE g == h + 1
             q == hunks[g].first - 1
  <2>4. /\ q \in Nat /\ hunks[g].first \in Nat /\ hunks[g].last \in Nat
        /\ hunks[g].first <= hunks[g].last /\ hunks[g].last <= Len(script)
    BY <2>3, HunkPlaces
  <2>5. OldStart(g) = Read("old", q) + 1 /\ NewStart(g) = Read("new", q) + 1
    BY <2>3, Headers
  <2>6. q <= Len(script)
    BY <1>0, <2>4
  <2>7. Len(old) \in Nat /\ Len(new) \in Nat /\ q \in 0..Len(script)
    BY <1>0, <2>4, <2>6, Lengths DEF Finished, DiffInv
  <2> HIDE DEF q
  <2>8. Read("old", q) \in 0..Len(TextOf("old")) /\ Read("new", q) \in 0..Len(TextOf("new"))
    BY <2>7, ReadSoFar
  <2>9. Read("old", q) \in Nat /\ Read("new", q) \in Nat
    BY <2>7, <2>8 DEF TextOf
  <2>10. OldStart(g) - 1 = Read("old", q) /\ NewStart(g) - 1 = Read("new", q)
    BY <2>5, <2>9
  <2> QED BY <1>3, <2>4, <2>6, <2>10 DEF q
<1> QED BY <1>2, <1>3

\* No change is between two hunks.
LEMMA NothingBetween ==
  ASSUME Finished, NEW h \in 0..Len(hunks), NEW p \in Nat, NEW q \in Nat,
         p = (IF h = 0 THEN 0 ELSE hunks[h].last), q <= Len(script),
         q = (IF h = Len(hunks) THEN Len(script) ELSE hunks[h + 1].first - 1)
  PROVE  p <= q /\ \A n \in p + 1..q : ~Changed(n)
<1>0. Len(hunks) \in Nat /\ DOMAIN hunks = 1..Len(hunks)
      /\ Len(script) \in Nat /\ DOMAIN script = 1..Len(script)
  BY HunkPlaces
<1>1. h \in Nat /\ h <= Len(hunks)
  BY <1>0, Spot, Zenon
<1>2. /\ h # 0 => h \in DOMAIN hunks
      /\ h # Len(hunks) => h + 1 \in DOMAIN hunks
  <2>1. /\ h # 0 => h \in 1..Len(hunks)
        /\ h # Len(hunks) => h + 1 \in 1..Len(hunks)
    BY <1>0, Spot, Zenon
  <2> QED BY <1>0, <2>1, Zenon
\* A hunk is behind the gap or before it.
<1>3. ASSUME NEW g \in DOMAIN hunks
      PROVE  \/ hunks[g].last <= p
             \/ hunks[g].first > q
  <2>0. g \in Nat /\ hunks[g].first \in Nat /\ hunks[g].last \in Nat /\ g <= Len(hunks) /\ g # 0
    <3>1. g \in Nat /\ g <= Len(hunks) /\ g # 0
      BY <1>0, Spot, Zenon
    <3> QED BY <3>1, HunkPlaces
  <2>1. CASE g = h
    BY <2>0, <2>1
  <2>2. CASE g < h
    <3>1. h # 0
      BY <1>1, <2>0, <2>2
    <3>2. h \in DOMAIN hunks /\ p = hunks[h].last
      BY <1>2, <3>1
    <3>3. /\ hunks[g].last < hunks[h].first /\ hunks[h].first <= hunks[h].last
          /\ hunks[h].first \in Nat
      BY <2>2, <3>2, HunkPlaces
    <3> QED BY <2>0, <3>2, <3>3
  <2>3. CASE g > h
    <3>1. h # Len(hunks)
      BY <1>0, <2>3, Spot, Zenon
    <3>2. h + 1 \in DOMAIN hunks /\ q = hunks[h + 1].first - 1
      BY <1>2, <3>1
    <3>3. hunks[h + 1].first \in Nat /\ hunks[h + 1].last \in Nat /\ hunks[h + 1].first <= hunks[h + 1].last
      BY <3>2, HunkPlaces
    <3>4. CASE g = h + 1
      BY <3>2, <3>3, <3>4
    <3>5. CASE g > h + 1
      <4>1. hunks[h + 1].last < hunks[g].first
        BY <3>2, <3>5, HunkPlaces
      <4> QED BY <2>0, <3>2, <3>3, <4>1
    <3> QED BY <1>1, <2>0, <2>3, <3>4, <3>5
  <2> QED BY <1>1, <2>0, <2>1, <2>2, <2>3
<1>4. p <= q
  <2>1. CASE h = 0
    BY <2>1
  <2>2. CASE h = Len(hunks) /\ h # 0
    <3>1. h \in DOMAIN hunks /\ p = hunks[h].last /\ q = Len(script)
      BY <1>2, <2>2
    <3> QED BY <3>1, HunkPlaces
  <2>3. CASE h # 0 /\ h # Len(hunks)
    <3>1. h \in DOMAIN hunks /\ h + 1 \in DOMAIN hunks /\ h < h + 1
      BY <1>1, <1>2, <2>3
    <3>2. /\ hunks[h].last < hunks[h + 1].first /\ hunks[h].last \in Nat /\ hunks[h + 1].first \in Nat
      BY <3>1, HunkPlaces
    <3> QED BY <2>3, <3>2
  <2> QED BY <2>1, <2>2, <2>3
<1>5. ASSUME NEW n \in p + 1..q, Changed(n) PROVE FALSE
  <2>1. n \in Nat /\ p < n /\ n <= q /\ n # 0
    OBVIOUS
  <2>2. n \in DOMAIN script
    <3>1. n \in 1..Len(script)
      BY <1>0, <2>1, Within, Zenon
    <3> QED BY <1>0, <3>1, Zenon
  <2>3. n <= n + ContextLines
    BY <2>1, ContextAssumption
  <2>4. NearChange(n)
    BY <1>5, <2>2, <2>3 DEF NearChange
  <2>5. PICK g \in DOMAIN hunks : hunks[g].first <= n /\ n <= hunks[g].last
    BY <2>2, <2>4 DEF Finished, DiffInv, FoundInv, InSomeHunk
  <2>6. hunks[g].first \in Nat /\ hunks[g].last \in Nat
    BY HunkPlaces
  <2> QED BY <1>3, <2>1, <2>5, <2>6
<1> QED BY <1>4, <1>5

LEMMA Patch == Finished => PatchApplies
<1> SUFFICES ASSUME Finished PROVE PatchApplies
  OBVIOUS
<1>0. /\ Len(hunks) \in Nat /\ DOMAIN hunks = 1..Len(hunks)
      /\ Len(script) \in Nat /\ DOMAIN script = 1..Len(script)
      /\ \A h \in DOMAIN hunks :
           /\ hunks[h].first \in Nat /\ hunks[h].last \in Nat /\ hunks[h].first - 1 \in Nat
           /\ hunks[h].first <= hunks[h].last /\ hunks[h].last <= Len(script)
      /\ \A g, h \in DOMAIN hunks : g < h => hunks[g].last < hunks[h].first
  BY HunkPlaces
<1>1. ASSUME NEW h \in DOMAIN hunks
      PROVE  /\ OldStart(h) >= 1 /\ OldEnd(h) <= Len(old)
             /\ NewStart(h) >= 1 /\ NewEnd(h) <= Len(new)
             /\ SubSeq(old, OldStart(h), OldEnd(h)) = Texts(OldSide(Output[h].lines))
             /\ SubSeq(new, NewStart(h), NewEnd(h)) = Texts(NewSide(Output[h].lines))
  <2>1. LET lo == Read("old", hunks[h].first - 1)
            hi == Read("old", hunks[h].last)
        IN  /\ lo \in Nat /\ hi \in Nat /\ hi <= Len(old)
            /\ SubSeq(old, lo + 1, hi) = Texts(OnlySide(Printed(h), "old"))
    BY HunkSide DEF TextOf
  <2>2. LET lo == Read("new", hunks[h].first - 1)
            hi == Read("new", hunks[h].last)
        IN  /\ lo \in Nat /\ hi \in Nat /\ hi <= Len(new)
            /\ SubSeq(new, lo + 1, hi) = Texts(OnlySide(Printed(h), "new"))
    BY HunkSide DEF TextOf
  <2>3. OldStart(h) >= 1 /\ NewStart(h) >= 1 /\ OldEnd(h) <= Len(old) /\ NewEnd(h) <= Len(new)
    BY <2>1, <2>2, Headers
  <2>4. SubSeq(old, OldStart(h), OldEnd(h)) = Texts(OldSide(Output[h].lines))
    BY <2>1, Headers
  <2>5. SubSeq(new, NewStart(h), NewEnd(h)) = Texts(NewSide(Output[h].lines))
    BY <2>2, Headers
  <2> QED BY <2>3, <2>4, <2>5
<1>2. ASSUME NEW h \in 0..Len(hunks)
      PROVE  SubSeq(old, OldEnd(h) + 1, OldStart(h + 1) - 1)
               = SubSeq(new, NewEnd(h) + 1, NewStart(h + 1) - 1)
  <2>1. PICK p \in Nat : /\ p <= Len(script)
                         /\ OldEnd(h) = Read("old", p) /\ NewEnd(h) = Read("new", p)
                         /\ p = IF h = 0 THEN 0 ELSE hunks[h].last
    BY EndsOfHunks
  <2>2. PICK q \in Nat : /\ q <= Len(script)
                         /\ OldStart(h + 1) - 1 = Read("old", q) /\ NewStart(h + 1) - 1 = Read("new", q)
                         /\ q = IF h = Len(hunks) THEN Len(script) ELSE hunks[h + 1].first - 1
    BY StartsOfHunks
  <2>3. p <= q /\ \A n \in p + 1..q : ~Changed(n)
    BY <2>1, <2>2, NothingBetween
  <2>4. SubSeq(old, Read("old", p) + 1, Read("old", q)) = SubSeq(new, Read("new", p) + 1, Read("new", q))
    BY <2>1, <2>2, <2>3, Gap
  <2> QED BY <2>1, <2>2, <2>4
<1> QED BY <1>1, <1>2 DEF PatchApplies

\* A call of GenerateDiffWithOptions compares texts that differ and have lines.
LEMMA CallFinishes == EngineInv /\ step = "done" => Finished
<1> SUFFICES ASSUME EngineInv, step = "done" PROVE Finished
  OBVIOUS
<1>1. /\ current # None /\ stage # "parse" /\ old # new
      /\ current \in DOMAIN BaseMap /\ current \in DOMAIN HeadMap
      /\ old = Raw(BaseMap[current]) /\ new = Raw(HeadMap[current])
  BY DEF EngineInv, CallInv
<1>2. old # <<>> /\ new # <<>>
  BY <1>1, Mapped DEF EngineInv
<1> QED BY <1>1, <1>2 DEF Finished, EngineInv, WorkInv

\* The diff of a modified resource, taken at its headers' word, turns the old text
\* into the new one, for texts of any length and any context width.
THEOREM PatchesApply == EngineSpec => []PatchApplies
<1>1. EngineInv => PatchApplies
  <2>1. CASE step = "done"
    BY <2>1, CallFinishes, Patch
  <2>2. CASE step # "done"
    BY <2>2 DEF PatchApplies
  <2> QED BY <2>1, <2>2
<1> QED BY <1>1, EngineInvariant, PTL

\* What is proved of unified diffs alone holds of those a call makes.
THEOREM CallsDiffWell == EngineSpec => [](ScriptExact /\ HunksTight /\ LongestChain)
<1>1. EngineInv => ScriptExact /\ HunksTight /\ LongestChain
  BY Exact, Tight, Longest DEF EngineInv, WorkInv
<1> QED BY <1>1, EngineInvariant, PTL
=============================================================================
