-------------------------- MODULE DiffReportProofs --------------------------
(* Proofs about DiffReport: what "Same diff as X" means to a reader, for any  *)
(* number of applications and diffs.                                          *)
EXTENDS DiffReport, TLAPS

\* What the map diffHashToApp holds: the name of a result already seen that shows
\* the diffs with this hash; and what it must hold of every result already seen.
MapInv ==
  \A hash \in SUBSET Texts :
    originals[hash] # NoApp =>
      \E j \in DOMAIN results :
        /\ j < i \/ phase # "dedupe"
        /\ results[j].app = originals[hash]
        /\ ShownInFull(j) /\ ToSet(results[j].diffs) = hash

\* Marks are made only by the first loop, and only behind its position.
MarkInv ==
  \A k \in DOMAIN results :
    duplicateOf[k] # NoApp =>
      /\ dedupe /\ results[k].kind = "changed"
      /\ k < i \/ phase # "dedupe"

\* The results behind the loop that show their diffs are exactly the ones the map
\* names: each shown set of diffs is in the map, and shown once.
SeenInv ==
  \A k \in DOMAIN results :
    dedupe /\ (k < i \/ phase # "dedupe") /\ ShownInFull(k) =>
      /\ originals[ToSet(results[k].diffs)] # NoApp
      /\ \A j \in 1..k - 1 : ~(ShownInFull(j) /\ SameDiffs(j, k))

PhaseInv ==
  /\ phase = "dedupe" => dedupe
  /\ phase # "done" => i <= Len(results) + 1
  /\ phase = "dedupe" => appsWithDiffs = 0
  /\ phase = "count" => appsWithDiffs < i
  /\ appsWithDiffs <= Len(results)

Types ==
  /\ results \in Seq(ResultsIn)
  /\ duplicateOf \in [DOMAIN results -> Apps \cup {NoApp}]
  /\ dedupe \in BOOLEAN
  /\ originals \in [SUBSET Texts -> Apps \cup {NoApp}]
  /\ i \in Nat \ {0}
  /\ phase \in {"dedupe", "count", "done"}
  /\ appsWithDiffs \in Nat
  /\ \A k \in DOMAIN results : results[k].kind = "changed" <=> results[k].diffs # <<>>

ReportInv == Types /\ PhaseInv /\ MarkInv /\ MapInv /\ SeenInv /\ DuplicatesAreShown

LEMMA ReportInit == Init => ReportInv
<1> SUFFICES ASSUME Init PROVE ReportInv
  OBVIOUS
<1>1. /\ results \in Seq(ResultsIn)
      /\ \A k \in DOMAIN results : results[k].kind = "changed" <=> results[k].diffs # <<>>
  BY ReportAssumption DEF Init
<1>2. /\ dedupe \in BOOLEAN /\ i = 1 /\ appsWithDiffs = 0
      /\ phase = IF dedupe THEN "dedupe" ELSE "count"
      /\ duplicateOf = [k \in DOMAIN results |-> NoApp]
      /\ originals = [hash \in SUBSET Texts |-> NoApp]
  BY DEF Init
<1>3. DOMAIN results = 1..Len(results) /\ Len(results) \in Nat
  BY <1>1
<1>4. Types
  BY <1>1, <1>2 DEF Types
<1>5. PhaseInv
  BY <1>2, <1>3 DEF PhaseInv
<1>6. MarkInv /\ DuplicatesAreShown
  BY <1>2 DEF MarkInv, DuplicatesAreShown
<1>7. MapInv
  BY <1>2 DEF MapInv
<1>8. SeenInv
  BY <1>2, <1>3 DEF SeenInv
<1> QED BY <1>4, <1>5, <1>6, <1>7, <1>8 DEF ReportInv

LEMMA HashTyped ==
  ASSUME Types, NEW k \in DOMAIN results
  PROVE  DiffHash(results[k].diffs) \in SUBSET Texts /\ results[k].app \in Apps
<1>1. results[k] \in ResultsIn
  BY DEF Types
<1>2. results[k].diffs \in Seq(Texts) /\ results[k].app \in Apps
  BY <1>1 DEF ResultsIn
<1> QED BY <1>2 DEF DiffHash, ToSet

\* A turn of the first loop that only moves on.
LEMMA SkipStep == ReportInv /\ Skip => ReportInv'
<1> SUFFICES ASSUME ReportInv, Skip PROVE ReportInv'
  OBVIOUS
<1> USE DEF ReportInv
<1>1. /\ phase = "dedupe" /\ i \in Nat \ {0} /\ i <= Len(results) /\ i' = i + 1
      /\ results[i].kind # "changed"
      /\ UNCHANGED <<results, duplicateOf, dedupe, originals, phase, appsWithDiffs>>
  BY DEF Skip, InLoop, Deduplicated, Types
<1>2. DOMAIN results = 1..Len(results) /\ Len(results) \in Nat
  BY DEF Types
<1>3. \A k \in DOMAIN results : ShownInFull(k)' <=> ShownInFull(k)
  BY <1>1 DEF ShownInFull
<1>4. Types' /\ PhaseInv'
  BY <1>1, <1>2 DEF Types, PhaseInv
<1>5. MarkInv' /\ DuplicatesAreShown'
  BY <1>1, <1>2 DEF MarkInv, DuplicatesAreShown, ShownInFull, SameDiffs
<1>6. MapInv'
  BY <1>1, <1>2 DEF MapInv, ShownInFull
<1>7. SeenInv'
  BY <1>1, <1>2 DEF SeenInv, ShownInFull, SameDiffs
<1> QED BY <1>4, <1>5, <1>6, <1>7

LEMMA MarkStep == ReportInv /\ MarkDuplicate => ReportInv'
<1> SUFFICES ASSUME ReportInv, MarkDuplicate PROVE ReportInv'
  OBVIOUS
<1> USE DEF ReportInv
<1> DEFINE h == DiffHash(results[i].diffs)
<1>1. /\ phase = "dedupe" /\ i \in Nat \ {0} /\ i <= Len(results) /\ i' = i + 1
      /\ results[i].kind = "changed" /\ originals[h] # NoApp
      /\ duplicateOf' = [duplicateOf EXCEPT ![i] = originals[h]]
      /\ UNCHANGED <<results, dedupe, originals, phase, appsWithDiffs>>
  BY DEF MarkDuplicate, InLoop, Deduplicated, Types
<1>a. DOMAIN results = 1..Len(results) /\ Len(results) \in Nat
  BY DEF Types
<1>2. DOMAIN results = 1..Len(results) /\ Len(results) \in Nat /\ i \in DOMAIN results
  BY <1>1, <1>a
<1>b. PICK n \in DOMAIN results : n = i
  BY <1>2
<1>3. h \in SUBSET Texts /\ h = ToSet(results[i].diffs)
  BY <1>2, HashTyped DEF DiffHash
<1>4. originals[h] \in Apps
  BY <1>1, <1>3 DEF Types
<1>5. PICK m \in DOMAIN results : /\ m < i /\ results[m].app = originals[h]
                                  /\ ShownInFull(m) /\ ToSet(results[m].diffs) = h
  BY <1>1, <1>3 DEF MapInv
<1> HIDE DEF h
<1>6. duplicateOf'[i] = originals[h] /\ \A k \in DOMAIN results : k # i => duplicateOf'[k] = duplicateOf[k]
  BY <1>1, <1>2 DEF Types
<1>c. ~ShownInFull(n)'
  BY <1>1, <1>6, <1>b DEF ShownInFull
<1>7. \A k \in DOMAIN results : k # n => (ShownInFull(k)' <=> ShownInFull(k))
  BY <1>1, <1>6, <1>b DEF ShownInFull
<1>8. Types' /\ PhaseInv'
  BY <1>1, <1>2, <1>4 DEF Types, PhaseInv
<1>9. MarkInv'
  BY <1>1, <1>2, <1>6 DEF MarkInv, PhaseInv
<1>10. DuplicatesAreShown'
  <2> SUFFICES ASSUME NEW k \in DOMAIN results, duplicateOf'[k] # NoApp
               PROVE  \E j \in 1..k - 1 : /\ results[j].app = duplicateOf'[k]
                                          /\ ShownInFull(j)' /\ SameDiffs(j, k)
    BY <1>1 DEF DuplicatesAreShown, SameDiffs
  <2>1. CASE k = i
    <3>1. m \in 1..k - 1 /\ m # i
      BY <1>2, <1>5, <2>1
    <3>2. SameDiffs(m, k)
      BY <1>3, <1>5, <2>1 DEF SameDiffs
    <3> QED BY <1>5, <1>6, <1>7, <1>b, <2>1, <3>1, <3>2
  <2>2. CASE k # i
    <3>1. duplicateOf'[k] = duplicateOf[k] /\ k < i
      BY <1>1, <1>6, <2>2 DEF MarkInv
    <3>2. PICK j \in 1..k - 1 : results[j].app = duplicateOf[k] /\ ShownInFull(j) /\ SameDiffs(j, k)
      BY <3>1 DEF DuplicatesAreShown
    <3>3. j \in DOMAIN results /\ j # i
      BY <1>2, <3>1
    <3> QED BY <1>7, <1>b, <3>1, <3>2, <3>3
  <2> QED BY <2>1, <2>2
<1>11. MapInv'
  <2> SUFFICES ASSUME NEW hash \in SUBSET Texts, originals[hash] # NoApp
               PROVE  \E j \in DOMAIN results :
                        /\ j < i' /\ results[j].app = originals[hash]
                        /\ ShownInFull(j)' /\ ToSet(results[j].diffs) = hash
    BY <1>1 DEF MapInv
  <2>1. PICK j \in DOMAIN results : /\ j < i /\ results[j].app = originals[hash]
                                    /\ ShownInFull(j) /\ ToSet(results[j].diffs) = hash
    BY <1>1 DEF MapInv
  <2>2. j # i /\ j < i'
    BY <1>1, <1>2, <2>1
  <2> QED BY <1>7, <1>b, <2>1, <2>2
<1>12. SeenInv'
  <2> SUFFICES ASSUME NEW k \in DOMAIN results, dedupe, k < i', ShownInFull(k)'
               PROVE  /\ originals[ToSet(results[k].diffs)] # NoApp
                      /\ \A j \in 1..k - 1 : ~(ShownInFull(j)' /\ SameDiffs(j, k))
    BY <1>1 DEF SeenInv, SameDiffs
  <2>0. k # n
    BY <1>c
  <2>1. k # i /\ k < i /\ ShownInFull(k)
    BY <1>1, <1>2, <1>7, <1>b, <2>0
  <2>2. \A j \in 1..k - 1 : j \in DOMAIN results /\ j # i
    BY <1>2, <2>1
  <2> QED BY <1>7, <1>b, <2>1, <2>2 DEF SeenInv
<1> QED BY <1>8, <1>9, <1>10, <1>11, <1>12

LEMMA KeepStep == ReportInv /\ KeepOriginal => ReportInv'
<1> SUFFICES ASSUME ReportInv, KeepOriginal PROVE ReportInv'
  OBVIOUS
<1> USE DEF ReportInv
<1> DEFINE h == DiffHash(results[i].diffs)
<1>1. /\ phase = "dedupe" /\ i \in Nat \ {0} /\ i <= Len(results) /\ i' = i + 1
      /\ results[i].kind = "changed" /\ originals[h] = NoApp
      /\ originals' = [originals EXCEPT ![h] = results[i].app]
      /\ UNCHANGED <<results, duplicateOf, dedupe, phase, appsWithDiffs>>
  BY DEF KeepOriginal, InLoop, Deduplicated, Types
<1>2. DOMAIN results = 1..Len(results) /\ Len(results) \in Nat /\ i \in DOMAIN results
  BY <1>1 DEF Types
<1>3. h \in SUBSET Texts /\ h = ToSet(results[i].diffs) /\ results[i].app \in Apps
  BY <1>2, HashTyped DEF DiffHash
<1> HIDE DEF h
<1>4. /\ originals'[h] = results[i].app /\ originals'[h] # NoApp
      /\ \A hash \in SUBSET Texts : hash # h => originals'[hash] = originals[hash]
  BY <1>1, <1>3, ReportAssumption DEF Types
<1>5. duplicateOf[i] = NoApp
  BY <1>1, <1>2 DEF MarkInv
<1>6. ShownInFull(i)
  BY <1>1, <1>5 DEF ShownInFull
<1>7. Types' /\ PhaseInv'
  BY <1>1, <1>2, <1>3 DEF Types, PhaseInv
<1>8. MarkInv' /\ DuplicatesAreShown'
  BY <1>1, <1>2 DEF MarkInv, DuplicatesAreShown, ShownInFull, SameDiffs
<1>9. MapInv'
  <2> SUFFICES ASSUME NEW hash \in SUBSET Texts, originals'[hash] # NoApp
               PROVE  \E j \in DOMAIN results :
                        /\ j < i' /\ results[j].app = originals'[hash]
                        /\ ShownInFull(j) /\ ToSet(results[j].diffs) = hash
    BY <1>1 DEF MapInv, ShownInFull
  <2>1. CASE hash = h
    BY <1>1, <1>2, <1>3, <1>4, <1>6, <2>1
  <2>2. CASE hash # h
    <3>1. PICK j \in DOMAIN results : /\ j < i /\ results[j].app = originals[hash]
                                      /\ ShownInFull(j) /\ ToSet(results[j].diffs) = hash
      BY <1>1, <1>4, <2>2 DEF MapInv
    <3>2. j < i'
      BY <1>1, <1>2, <3>1
    <3> QED BY <1>4, <2>2, <3>1, <3>2
  <2> QED BY <2>1, <2>2
<1>10. SeenInv'
  <2> SUFFICES ASSUME NEW k \in DOMAIN results, dedupe, k < i', ShownInFull(k)
               PROVE  /\ originals'[ToSet(results[k].diffs)] # NoApp
                      /\ \A j \in 1..k - 1 : ~(ShownInFull(j) /\ SameDiffs(j, k))
    BY <1>1 DEF SeenInv, ShownInFull, SameDiffs
  <2>0. ToSet(results[k].diffs) \in SUBSET Texts
    BY HashTyped DEF DiffHash
  <2>1. CASE k = i
    <3>1. SUFFICES ASSUME NEW j \in 1..k - 1, ShownInFull(j), SameDiffs(j, k) PROVE FALSE
      BY <1>3, <1>4, <2>1
    <3>2. j \in DOMAIN results /\ j < i
      BY <1>2, <2>1
    <3>3. originals[ToSet(results[j].diffs)] # NoApp
      BY <3>1, <3>2 DEF SeenInv
    <3> QED BY <1>1, <1>3, <2>1, <3>1, <3>3 DEF SameDiffs
  <2>2. CASE k # i
    <3>1. k < i
      BY <1>1, <1>2, <2>2
    <3>2. originals[ToSet(results[k].diffs)] # NoApp
      BY <3>1 DEF SeenInv
    <3> QED BY <1>4, <2>0, <3>1, <3>2 DEF SeenInv
  <2> QED BY <2>1, <2>2
<1> QED BY <1>7, <1>8, <1>9, <1>10

LEMMA CountStep == ReportInv /\ CountApp => ReportInv'
<1> SUFFICES ASSUME ReportInv, CountApp PROVE ReportInv'
  OBVIOUS
<1> USE DEF ReportInv
<1>1. /\ phase = "count" /\ i \in Nat \ {0} /\ i <= Len(results) /\ i' = i + 1
      /\ appsWithDiffs' = appsWithDiffs \/ appsWithDiffs' = appsWithDiffs + 1
      /\ UNCHANGED <<results, duplicateOf, dedupe, originals, phase>>
  BY DEF CountApp, InLoop, Counted, Types
<1>2. Len(results) \in Nat /\ appsWithDiffs \in Nat /\ appsWithDiffs < i
  BY <1>1 DEF Types, PhaseInv
<1>3. Types' /\ PhaseInv'
  BY <1>1, <1>2 DEF Types, PhaseInv
<1>4. MarkInv' /\ DuplicatesAreShown' /\ MapInv' /\ SeenInv'
  BY <1>1 DEF MarkInv, DuplicatesAreShown, MapInv, SeenInv, ShownInFull, SameDiffs
<1> QED BY <1>3, <1>4

LEMMA NextLoopStep == ReportInv /\ NextLoop => ReportInv'
<1> SUFFICES ASSUME ReportInv, NextLoop PROVE ReportInv'
  OBVIOUS
<1> USE DEF ReportInv
<1>1. /\ i > Len(results) /\ i' = 1 /\ phase' \in {"count", "done"} /\ phase # "done"
      /\ phase' = "count" => phase = "dedupe"
      /\ UNCHANGED <<results, duplicateOf, dedupe, originals, appsWithDiffs>>
  BY DEF NextLoop, Types
<1>2. DOMAIN results = 1..Len(results) /\ Len(results) \in Nat /\ i \in Nat \ {0}
  BY DEF Types
<1>3. \A k \in DOMAIN results : k < i
  BY <1>1, <1>2
<1>4. Types' /\ PhaseInv'
  BY <1>1, <1>2 DEF Types, PhaseInv
<1>5. MarkInv' /\ DuplicatesAreShown' /\ MapInv'
  BY <1>1 DEF MarkInv, DuplicatesAreShown, MapInv, ShownInFull, SameDiffs
<1>6. SeenInv'
  BY <1>1, <1>3 DEF SeenInv, ShownInFull, SameDiffs
<1> QED BY <1>4, <1>5, <1>6

LEMMA ReportStep == ReportInv /\ [Next]_vars => ReportInv'
<1> SUFFICES ASSUME ReportInv, [Next]_vars PROVE ReportInv'
  OBVIOUS
<1>1. CASE UNCHANGED vars
  BY <1>1 DEF vars, ReportInv, Types, PhaseInv, MarkInv, MapInv, SeenInv,
              DuplicatesAreShown, ShownInFull, SameDiffs
<1> QED BY <1>1, SkipStep, MarkStep, KeepStep, CountStep, NextLoopStep DEF Next

LEMMA ReportInvariant == Spec => []ReportInv
  BY ReportInit, ReportStep, PTL DEF Spec

\* The types of the report, with no more applications counted than there are.
THEOREM ReportTypes == Spec => []TypeOK
<1>1. ReportInv => TypeOK
  BY DEF ReportInv, Types, PhaseInv, TypeOK
<1> QED BY <1>1, ReportInvariant, PTL

\* Whatever the applications and their diffs, and in whatever order the maps gave
\* them: "Same diff as X" names an earlier result that shows the same diffs.
THEOREM ReportDuplicatesAreShown == Spec => []DuplicatesAreShown
<1>1. ReportInv => DuplicatesAreShown
  BY DEF ReportInv
<1> QED BY <1>1, ReportInvariant, PTL

\* With deduplication no two results of a report show the same diffs.
THEOREM ReportShowsOnce == Spec => []EqualDiffsShownOnce
<1>1. ReportInv => EqualDiffsShownOnce
  <2> SUFFICES ASSUME ReportInv, phase # "dedupe", dedupe,
                      NEW j \in DOMAIN results, NEW k \in DOMAIN results,
                      ShownInFull(j), ShownInFull(k), SameDiffs(j, k), j # k
               PROVE  FALSE
    BY DEF EqualDiffsShownOnce
  <2>1. DOMAIN results = 1..Len(results) /\ Len(results) \in Nat
    BY DEF ReportInv, Types
  <2>2. j \in 1..k - 1 \/ k \in 1..j - 1
    BY <2>1
  <2>3. SameDiffs(k, j)
    BY DEF SameDiffs
  <2> QED BY <2>2, <2>3 DEF ReportInv, SeenInv
<1> QED BY <1>1, ReportInvariant, PTL
=============================================================================
