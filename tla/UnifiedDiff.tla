----------------------------- MODULE UnifiedDiff -----------------------------
(* pkg/diff/engine.go generateUnifiedDiff, one call after another: the lines  *)
(* of two texts are paired, a longest increasing chain of the pairs is kept,  *)
(* everything else is deleted or added, and the result is cut into hunks.     *)
(* One action is one turn of a loop.  Lines are only ever compared, so the    *)
(* hash that finds candidates is left out.  Indices count from 1, 0 is none.  *)
EXTENDS Naturals, Selection

CONSTANTS
  Lines,         \* the lines of texts
  ContextLines   \* unchanged lines around a change (3 for generateResourceDiff)

ASSUME ContextAssumption == ContextLines \in Nat \ {0}

VARIABLES
  old, new,        \* oldLines and newLines
  step,            \* the loop the call is in
  turn,            \* the turn of that loop
  match,           \* anchors: the new line paired with each old one, or 0
  rank, parent,    \* dp and parent of each anchor, kept at its old line
  at,              \* idx, while the subsequence is read backwards
  chain,           \* lis, as the old lines of its anchors
  oldIdx, newIdx,  \* how many lines of each text are in the script
  script,          \* result: [text, change, oldLine, newLine]
  hunks,           \* [first, last], in positions of the script
  hunkStart        \* 0 outside a hunk

diffVars == <<old, new, step, turn, match, rank, parent, at, chain, oldIdx, newIdx,
              script, hunks, hunkStart>>
pairVars   == <<old, new, match>>
rankVars   == <<rank, parent>>
chainVars  == <<at, chain>>
scriptVars == <<oldIdx, newIdx, script>>
hunkVars   == <<hunks, hunkStart>>

DiffInit ==
  /\ step = "idle" /\ turn = 1 /\ at = 0 /\ oldIdx = 0 /\ newIdx = 0 /\ hunkStart = 0
  /\ old = <<>> /\ new = <<>> /\ match = <<>> /\ rank = <<>> /\ parent = <<>>
  /\ chain = <<>> /\ script = <<>> /\ hunks = <<>>

\* strings.Split never returns an empty slice: a text has at least one line.
Call(o, n) ==
  /\ step = "idle"
  /\ old' = o /\ new' = n
  /\ step' = "compare" /\ turn' = 1 /\ at' = 0
  /\ match' = [l \in DOMAIN o |-> 0]
  /\ rank' = [l \in DOMAIN o |-> 0] /\ parent' = [l \in DOMAIN o |-> 0]
  /\ oldIdx' = 0 /\ newIdx' = 0 /\ hunkStart' = 0
  /\ chain' = <<>> /\ script' = <<>> /\ hunks' = <<>>

Goto(s) == step' = s /\ turn' = 1
NextTurn == turn' = turn + 1 /\ UNCHANGED step

\* Equal texts: the answer is the empty string.
Compare ==
  /\ step = "compare"
  /\ Goto(IF old = new THEN "done" ELSE "pair")
  /\ UNCHANGED <<pairVars, rankVars, chainVars, scriptVars, hunkVars>>
-----------------------------------------------------------------------------
(* The anchors: each new line takes the first equal old line nobody took. *)

InPairing == step = "pair" /\ turn \in DOMAIN new

Candidate(l) == match[l] = 0 /\ old[l] = new[turn]

Pair ==
  /\ InPairing
  /\ \E l \in DOMAIN old :
       /\ Candidate(l)
       /\ \A m \in 1..l - 1 : ~Candidate(m)
       /\ match' = [match EXCEPT ![l] = turn]
  /\ NextTurn
  /\ UNCHANGED <<old, new, rankVars, chainVars, scriptVars, hunkVars>>

NoPair ==
  /\ InPairing
  /\ \A l \in DOMAIN old : ~Candidate(l)
  /\ NextTurn
  /\ UNCHANGED <<pairVars, rankVars, chainVars, scriptVars, hunkVars>>

PairingDone ==
  /\ step = "pair" /\ turn \notin DOMAIN new
  /\ Goto("rank")
  /\ UNCHANGED <<pairVars, rankVars, chainVars, scriptVars, hunkVars>>
-----------------------------------------------------------------------------
(* The longest increasing subsequence, over the anchors sorted by old line.   *)
(* rank is the length of the longest one that ends at the anchor; of several  *)
(* best predecessors, and of several best ends, the first is taken.           *)

Anchors == {l \in DOMAIN old : match[l] # 0}
InRanking == step = "rank" /\ turn \in DOMAIN old

MutantBefore(l) == {m \in Anchors : m < l}
Before(l) == {m \in Anchors : m < l /\ match[m] < match[l]}

FirstBest(m, S) ==
  m \in S /\ \A n \in S : rank[n] <= rank[m] /\ (n < m => rank[n] < rank[m])

RankFirst ==
  /\ InRanking /\ turn \in Anchors /\ Before(turn) = {}
  /\ rank' = [rank EXCEPT ![turn] = 1]
  /\ NextTurn
  /\ UNCHANGED <<pairVars, parent, chainVars, scriptVars, hunkVars>>

RankAfter ==
  /\ InRanking /\ turn \in Anchors
  /\ \E m \in Before(turn) :
       /\ FirstBest(m, Before(turn))
       /\ rank' = [rank EXCEPT ![turn] = rank[m] + 1]
       /\ parent' = [parent EXCEPT ![turn] = m]
  /\ NextTurn
  /\ UNCHANGED <<pairVars, chainVars, scriptVars, hunkVars>>

NoAnchor ==
  /\ InRanking /\ turn \notin Anchors
  /\ NextTurn
  /\ UNCHANGED <<pairVars, rankVars, chainVars, scriptVars, hunkVars>>

RankingDone ==
  /\ step = "rank" /\ turn \notin DOMAIN old
  /\ Goto("trace")
  /\ at' = IF Anchors = {} THEN 0 ELSE CHOOSE m \in Anchors : FirstBest(m, Anchors)
  /\ UNCHANGED <<pairVars, rankVars, chain, scriptVars, hunkVars>>

\* parent is 0 exactly when maxLen anchors have been read.
Trace ==
  /\ step = "trace" /\ at # 0
  /\ chain' = <<at>> \o chain
  /\ at' = parent[at]
  /\ UNCHANGED <<step, turn, pairVars, rankVars, scriptVars, hunkVars>>

TraceDone ==
  /\ step = "trace" /\ at = 0
  /\ Goto("emit")
  /\ UNCHANGED <<pairVars, rankVars, chainVars, scriptVars, hunkVars>>
-----------------------------------------------------------------------------
(* The script: up to the next line kept (or the end), first what is deleted,  *)
(* then what is added, then the line itself.                                  *)

Emitting == step = "emit"
NextOld == IF turn \in DOMAIN chain THEN chain[turn] ELSE Len(old) + 1
NextNew == IF turn \in DOMAIN chain THEN match[chain[turn]] ELSE Len(new) + 1

Emit(text, change, oldLine, newLine) ==
  script' = Append(script, [text |-> text, change |-> change,
                            oldLine |-> oldLine, newLine |-> newLine])

Delete ==
  /\ Emitting /\ oldIdx + 1 < NextOld
  /\ Emit(old[oldIdx + 1], "-", oldIdx + 1, 0)
  /\ oldIdx' = oldIdx + 1
  /\ UNCHANGED <<newIdx, step, turn, pairVars, rankVars, chainVars, hunkVars>>

Add ==
  /\ Emitting /\ oldIdx + 1 >= NextOld /\ newIdx + 1 < NextNew
  /\ Emit(new[newIdx + 1], "+", 0, newIdx + 1)
  /\ newIdx' = newIdx + 1
  /\ UNCHANGED <<oldIdx, step, turn, pairVars, rankVars, chainVars, hunkVars>>

Keep ==
  /\ Emitting /\ oldIdx + 1 >= NextOld /\ newIdx + 1 >= NextNew
  /\ turn \in DOMAIN chain
  /\ Emit(old[oldIdx + 1], " ", oldIdx + 1, newIdx + 1)
  /\ oldIdx' = oldIdx + 1 /\ newIdx' = newIdx + 1
  /\ NextTurn
  /\ UNCHANGED <<pairVars, rankVars, chainVars, hunkVars>>

\* hasChanges is true here: only equal texts give a script without changes.
EmitDone ==
  /\ Emitting /\ turn \notin DOMAIN chain
  /\ oldIdx = Len(old) /\ newIdx = Len(new)
  /\ Goto("hunks")
  /\ UNCHANGED <<pairVars, rankVars, chainVars, scriptVars, hunkVars>>
-----------------------------------------------------------------------------
(* The hunks: the stretches of the script within ContextLines of a change. *)

Changed(n) == script[n].change # " "
MutantNearChange(n) ==
  \E c \in DOMAIN script : n <= c + ContextLines + 1 /\ c <= n + ContextLines /\ Changed(c)
NearChange(n) ==
  \E c \in DOMAIN script : n <= c + ContextLines /\ c <= n + ContextLines /\ Changed(c)

InHunks == step = "hunks" /\ turn \in DOMAIN script

OpenHunk ==
  /\ InHunks /\ NearChange(turn) /\ hunkStart = 0
  /\ hunkStart' = turn
  /\ NextTurn
  /\ UNCHANGED <<hunks, pairVars, rankVars, chainVars, scriptVars>>

CloseHunk ==
  /\ InHunks /\ ~NearChange(turn) /\ hunkStart # 0
  /\ hunks' = Append(hunks, [first |-> hunkStart, last |-> turn - 1])
  /\ hunkStart' = 0
  /\ NextTurn
  /\ UNCHANGED <<pairVars, rankVars, chainVars, scriptVars>>

StayInHunk ==
  /\ InHunks /\ NearChange(turn) /\ hunkStart # 0
  /\ NextTurn
  /\ UNCHANGED <<pairVars, rankVars, chainVars, scriptVars, hunkVars>>

StayOutside ==
  /\ InHunks /\ ~NearChange(turn) /\ hunkStart = 0
  /\ NextTurn
  /\ UNCHANGED <<pairVars, rankVars, chainVars, scriptVars, hunkVars>>

MutantHunksDone ==
  /\ step = "hunks" /\ turn \notin DOMAIN script
  /\ hunks' = IF hunkStart = 0 THEN hunks
              ELSE Append(hunks, [first |-> hunkStart, last |-> turn])
  /\ Goto("done")
  /\ UNCHANGED <<hunkStart, pairVars, rankVars, chainVars, scriptVars>>
HunksDone ==
  /\ step = "hunks" /\ turn \notin DOMAIN script
  /\ hunks' = IF hunkStart = 0 THEN hunks
              ELSE Append(hunks, [first |-> hunkStart, last |-> Len(script)])
  /\ Goto("done")
  /\ UNCHANGED <<hunkStart, pairVars, rankVars, chainVars, scriptVars>>

DiffTurn ==
  \/ Compare
  \/ Pair \/ NoPair \/ PairingDone
  \/ RankFirst \/ RankAfter \/ NoAnchor \/ RankingDone \/ Trace \/ TraceDone
  \/ Delete \/ Add \/ Keep \/ EmitDone
  \/ OpenHunk \/ CloseHunk \/ StayInHunk \/ StayOutside \/ HunksDone
-----------------------------------------------------------------------------
(* What is printed: each hunk's header and its lines of the script. *)

OldSide(lines) == Selected(lines, {n \in DOMAIN lines : lines[n].change # "+"})
NewSide(lines) == Selected(lines, {n \in DOMAIN lines : lines[n].change # "-"})

\* The side's first line number, or 1 for a side without lines.
MutantHeader(lines) ==
  LET olds == OldSide(lines)  news == NewSide(lines)
  IN  [oldStart |-> lines[1].oldLine, oldCount |-> Len(olds),
       newStart |-> lines[1].newLine, newCount |-> Len(news)]
Header(lines) ==
  LET olds == OldSide(lines)  news == NewSide(lines)
  IN  [oldStart |-> IF olds = <<>> THEN 1 ELSE olds[1].oldLine, oldCount |-> Len(olds),
       newStart |-> IF news = <<>> THEN 1 ELSE news[1].newLine, newCount |-> Len(news)]

Output ==
  [h \in DOMAIN hunks |->
     LET lines == SubSeq(script, hunks[h].first, hunks[h].last)
     IN  [header |-> Header(lines),
          lines  |-> [n \in DOMAIN lines |-> [text |-> lines[n].text,
                                              change |-> lines[n].change]]]]
-----------------------------------------------------------------------------
DiffNext == (\E o, n \in Seq(Lines) \ {<<>>} : Call(o, n)) \/ DiffTurn

DiffSpec == DiffInit /\ [][DiffNext]_diffVars
-----------------------------------------------------------------------------
ScriptLine == [text : Lines, change : {" ", "-", "+"}, oldLine : Nat, newLine : Nat]

DiffTypeOK ==
  /\ old \in Seq(Lines) /\ new \in Seq(Lines)
  /\ step \in {"idle", "compare", "pair", "rank", "trace", "emit", "hunks", "done"}
  /\ turn \in Nat \ {0}
  /\ match \in [DOMAIN old -> 0..Len(new)]
  /\ rank \in [DOMAIN old -> 0..Len(old)] /\ parent \in [DOMAIN old -> 0..Len(old)]
  /\ at \in 0..Len(old) /\ chain \in Seq(DOMAIN old)
  /\ oldIdx \in 0..Len(old) /\ newIdx \in 0..Len(new)
  /\ script \in Seq(ScriptLine)
  /\ hunks \in Seq([first : DOMAIN script, last : DOMAIN script])
  /\ hunkStart \in 0..Len(script)

\* The anchors that are kept are a longest increasing subsequence: of all sets of
\* anchors that are in the same order in both texts none is larger.
LongestChain ==
  step = "emit" /\ script = <<>> =>
    LET InOrder(S) == \A l, m \in S : l < m => match[l] < match[m]
        kept == {chain[n] : n \in DOMAIN chain}
    IN  /\ \A m, n \in DOMAIN chain : m < n => chain[m] < chain[n]
        /\ kept \subseteq Anchors /\ InOrder(kept)
        /\ \A S \in SUBSET Anchors : InOrder(S) => Cardinality(S) <= Len(chain)

(* What a reader, or the program patch, makes of the output: between two hunks
   the texts agree, and a hunk replaces the lines its header counts, from the
   line its header names, by its own.                                        *)
Texts(lines) == [n \in DOMAIN lines |-> lines[n].text]
OldEnd(h) == IF h = 0 THEN 0 ELSE Output[h].header.oldStart + Output[h].header.oldCount - 1
NewEnd(h) == IF h = 0 THEN 0 ELSE Output[h].header.newStart + Output[h].header.newCount - 1
OldStart(h) == IF h > Len(hunks) THEN Len(old) + 1 ELSE Output[h].header.oldStart
NewStart(h) == IF h > Len(hunks) THEN Len(new) + 1 ELSE Output[h].header.newStart

\* The printed diff, taken at its headers' word, turns the old text into the new
\* one, and back.
PatchApplies ==
  step = "done" =>
    /\ \A h \in DOMAIN hunks :
         /\ OldStart(h) >= 1 /\ OldEnd(h) <= Len(old)
         /\ NewStart(h) >= 1 /\ NewEnd(h) <= Len(new)
         /\ SubSeq(old, OldStart(h), OldEnd(h)) = Texts(OldSide(Output[h].lines))
         /\ SubSeq(new, NewStart(h), NewEnd(h)) = Texts(NewSide(Output[h].lines))
    /\ \A h \in 0..Len(hunks) :
         SubSeq(old, OldEnd(h) + 1, OldStart(h + 1) - 1)
           = SubSeq(new, NewEnd(h) + 1, NewStart(h + 1) - 1)

\* A hunk begins and ends with at most ContextLines unchanged lines, and with fewer
\* only at an end of the text; two changes are in one hunk exactly when no more
\* than twice as many unchanged lines part them.
HunksTight ==
  step = "done" =>
    LET InHunk(n, h) == hunks[h].first <= n /\ n <= hunks[h].last
        Apart(c, d) == c < d /\ Changed(c) /\ Changed(d)
                         /\ \A n \in c + 1..d - 1 : ~Changed(n)
    IN  /\ \A c, d \in DOMAIN script : Apart(c, d) =>
             ((\E h \in DOMAIN hunks : InHunk(c, h) /\ InHunk(d, h))
                <=> d - c - 1 <= 2 * ContextLines)
        /\ \A h \in DOMAIN hunks : \A n \in hunks[h].first..hunks[h].last :
             \E c \in hunks[h].first..hunks[h].last :
               Changed(c) /\ n <= c + ContextLines /\ c <= n + ContextLines
        /\ \A h \in DOMAIN hunks :
             /\ hunks[h].first = 1 \/ ~NearChange(hunks[h].first - 1)
             /\ hunks[h].last = Len(script) \/ ~NearChange(hunks[h].last + 1)
=============================================================================
