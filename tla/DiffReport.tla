----------------------------- MODULE DiffReport -----------------------------
(* pkg/diff/engine.go NewDiffReportWithOptions and deduplicateResults: the    *)
(* results of a job's applications, the duplicates among them marked, and the *)
(* number of applications with changes.  One action is one turn of a loop.    *)
(* The diffs of a result come in any order: GenerateDiffWithOptions collects  *)
(* them while it ranges over maps.                                            *)
EXTENDS Naturals, Sequences, SequencesExt

CONSTANTS
  Apps,      \* application names; two applications may have the same name
  Texts,     \* the texts of resource diffs
  Reports,   \* the sequences of results a report is made of
  NoApp      \* DuplicateOf of a result that is no duplicate

Kinds == {"error", "same", "changed"}   \* ErrorMessage set; HasChanges false; true

\* A result has diffs exactly when it has changes.  The texts of one result
\* differ: each has the key of its resource as its title.
ResultsIn == [app : Apps, kind : Kinds, diffs : Seq(Texts)]
ASSUME ReportAssumption ==
  /\ NoApp \notin Apps
  /\ Reports \subseteq Seq(ResultsIn)
  /\ \A results \in Reports : \A i \in DOMAIN results :
       results[i].kind = "changed" <=> results[i].diffs # <<>>

VARIABLES
  results,        \* DiffReport.Results
  duplicateOf,    \* DuplicateOf of each result
  dedupe,         \* DedupeDiffs
  originals,      \* diffHashToApp, NoApp where a hash is not in the map
  i,              \* the result the loop is at
  phase,          \* the loop: "dedupe", "count" or "done"
  appsWithDiffs   \* AppsWithDiffs

vars == <<results, duplicateOf, dedupe, originals, i, phase, appsWithDiffs>>

Init ==
  /\ results \in Reports /\ dedupe \in BOOLEAN
  /\ duplicateOf = [k \in DOMAIN results |-> NoApp]
  /\ originals = [hash \in SUBSET Texts |-> NoApp]
  /\ i = 1 /\ phase = IF dedupe THEN "dedupe" ELSE "count"
  /\ appsWithDiffs = 0
-----------------------------------------------------------------------------
\* computeDiffHash sorts a copy of the diffs first: their order is forgotten.
MutantDiffHash(diffs) == IF diffs = <<>> THEN {} ELSE {CHOOSE t \in ToSet(diffs) : TRUE}
UnsortedDiffHash(diffs) == IF diffs = <<>> THEN {} ELSE {Head(diffs)}
DiffHash(diffs) == ToSet(diffs)

Deduplicated(r) == r.kind = "changed"

InLoop(name) == phase = name /\ i <= Len(results)

Skip ==
  /\ InLoop("dedupe") /\ ~Deduplicated(results[i])
  /\ i' = i + 1
  /\ UNCHANGED <<results, duplicateOf, dedupe, originals, phase, appsWithDiffs>>

MarkDuplicate ==
  /\ InLoop("dedupe") /\ Deduplicated(results[i])
  /\ originals[DiffHash(results[i].diffs)] # NoApp
  /\ duplicateOf' = [duplicateOf EXCEPT ![i] = originals[DiffHash(results[i].diffs)]]
  /\ i' = i + 1
  /\ UNCHANGED <<results, dedupe, originals, phase, appsWithDiffs>>

KeepOriginal ==
  /\ InLoop("dedupe") /\ Deduplicated(results[i])
  /\ originals[DiffHash(results[i].diffs)] = NoApp
  /\ originals' = [originals EXCEPT ![DiffHash(results[i].diffs)] = results[i].app]
  /\ i' = i + 1
  /\ UNCHANGED <<results, duplicateOf, dedupe, phase, appsWithDiffs>>

Counted(r) == IF r.kind = "changed" THEN 1 ELSE 0

CountApp ==
  /\ InLoop("count")
  /\ appsWithDiffs' = appsWithDiffs + Counted(results[i])
  /\ i' = i + 1
  /\ UNCHANGED <<results, duplicateOf, dedupe, originals, phase>>

NextLoop ==
  /\ phase # "done" /\ i > Len(results)
  /\ phase' = IF phase = "dedupe" THEN "count" ELSE "done"
  /\ i' = 1
  /\ UNCHANGED <<results, duplicateOf, dedupe, originals, appsWithDiffs>>

Next == Skip \/ MarkDuplicate \/ KeepOriginal \/ CountApp \/ NextLoop

Spec == Init /\ [][Next]_vars /\ WF_vars(Next)
-----------------------------------------------------------------------------
\* FormatAppDiff writes the diffs of a changed application that is no duplicate.
ShownInFull(k) == results[k].kind = "changed" /\ duplicateOf[k] = NoApp

SameDiffs(j, k) == ToSet(results[j].diffs) = ToSet(results[k].diffs)

TypeOK ==
  /\ results \in Seq(ResultsIn)
  /\ duplicateOf \in [DOMAIN results -> Apps \cup {NoApp}]
  /\ dedupe \in BOOLEAN
  /\ originals \in [SUBSET Texts -> Apps \cup {NoApp}]
  /\ i \in Nat \ {0}
  /\ phase \in {"dedupe", "count", "done"}
  /\ appsWithDiffs \in Nat /\ appsWithDiffs <= Len(results)

\* "Same diff as X" is true and can be looked up: an earlier result of X has the
\* same resource diffs, whatever order the map gave them, and shows them.
DuplicatesAreShown ==
  \A k \in DOMAIN results :
    duplicateOf[k] # NoApp =>
      \E j \in 1..k - 1 :
        results[j].app = duplicateOf[k] /\ ShownInFull(j) /\ SameDiffs(j, k)

\* With deduplication no diff is written twice, however the maps were visited.
EqualDiffsShownOnce ==
  phase # "dedupe" /\ dedupe =>
    \A j, k \in DOMAIN results :
      ShownInFull(j) /\ ShownInFull(k) /\ SameDiffs(j, k) => j = k
=============================================================================
