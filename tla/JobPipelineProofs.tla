-------------------------- MODULE JobPipelineProofs --------------------------
(* Proofs about JobPipeline: which applications are matched, what is reported *)
(* and what a returned nil means, for any applications, pushes, number of     *)
(* attempts and number of parts.                                              *)
EXTENDS JobPipeline, SequenceTheorems, FunctionTheorems, FiniteSetTheorems, TLAPS

\* The results are those of the first affected applications, and while the loop
\* runs there is one more to come.
MapInv ==
  /\ Len(results) <= Len(affected)
  /\ \A i \in DOMAIN results : results[i].app = affected[i]
  /\ pc \in {"fetch", "diff"} => Len(results) < Len(affected)

\* Which body is posted says how far the job came.
BodyInv ==
  /\ pc \in {"github", "argocd", "list"} => affected = <<>> /\ results = <<>>
  /\ pc \in {"github", "argocd", "list", "fetch", "diff"} => body = "none"
  /\ pc \in {"clear", "create"} => body # "none"
  /\ body = "empty" => affected = <<>>
  /\ body = "report" => Len(results) = Len(affected) /\ affected # <<>>

\* Parts are created one by one, and nil is returned with the last.
ThreadInv ==
  /\ pc = "create" => thread.parts < parts
  /\ result # "none" <=> pc = "returned"
  /\ result = "nil" => /\ thread = [kind |-> body, parts |-> parts]
                       /\ body \in {"empty", "report"}

\* A delay follows an attempt that was not the last.
RetryInv == waiting => attempt < Attempts

PInv == TypeOK /\ RetryInv /\ MapInv /\ BodyInv /\ ThreadInv

Apps == ToSet(AppList)
Kinds == {"changed", "same", "error"}

(* Selected: the elements at the places of a set, in their order. *)

\* The place of an element among those below it numbers a finite set.
LEMMA Places ==
  ASSUME NEW K \in SUBSET Nat, IsFiniteSet(K)
  PROVE  /\ Cardinality(K) \in Nat
         /\ \A k \in K : Place(K, k) \in 1..Cardinality(K)
         /\ \A j, k \in K : j < k => Place(K, j) < Place(K, k)
         /\ \A m \in 1..Cardinality(K) : \E k \in K : Place(K, k) = m
<1> DEFINE UpTo(k) == {j \in K : j <= k}
           n == Cardinality(K)
<1>0. n \in Nat
  BY FS_CardinalityType
<1>1. \A k \in K : IsFiniteSet(UpTo(k)) /\ Cardinality(UpTo(k)) \in Nat /\ Cardinality(UpTo(k)) <= n
  BY FS_Subset, FS_CardinalityType
<1>2. ASSUME NEW k \in K PROVE Place(K, k) \in 1..n
  <2>1. k \in UpTo(k)
    OBVIOUS
  <2>2. Cardinality(UpTo(k)) # 0
    BY <1>1, <2>1, FS_EmptySet
  <2> QED BY <1>0, <1>1, <2>2 DEF Place
<1>3. ASSUME NEW j \in K, NEW k \in K, j < k PROVE Place(K, j) < Place(K, k)
  <2>0. j \in Nat /\ k \in Nat /\ \A i \in K : i \in Nat
    OBVIOUS
  <2>a. \A i \in K : i <= j => i <= k
    BY <1>3, <2>0
  <2>b. k <= k /\ ~(k <= j)
    BY <1>3, <2>0
  <2>1. UpTo(j) \in SUBSET UpTo(k) /\ k \in UpTo(k) /\ k \notin UpTo(j)
    BY <2>a, <2>b
  <2>2. Cardinality(UpTo(j)) <= Cardinality(UpTo(k)) /\ Cardinality(UpTo(j)) # Cardinality(UpTo(k))
    BY <1>1, <2>1, FS_Subset
  <2> QED BY <1>1, <2>2 DEF Place
<1>4. ASSUME NEW m \in 1..n PROVE \E k \in K : Place(K, k) = m
  <2> DEFINE f == [k \in K |-> Place(K, k)]
  <2>1. \A j, k \in K : j # k => Place(K, j) # Place(K, k)
    <3> SUFFICES ASSUME NEW j \in K, NEW k \in K, j # k PROVE Place(K, j) # Place(K, k)
      OBVIOUS
    <3>1. j \in Nat /\ k \in Nat /\ Place(K, j) \in Nat /\ Place(K, k) \in Nat
      BY <1>2
    <3>2. j < k \/ k < j
      BY <3>1
    <3> QED BY <1>3, <3>1, <3>2
  <2>2. f \in Injection(K, 1..n)
    BY <1>2, <2>1 DEF Injection, IsInjective
  <2>3. IsFiniteSet(1..n) /\ Cardinality(1..n) = n
    BY <1>0, FS_Interval
  <2>4. f \in Surjection(K, 1..n)
    BY <2>2, <2>3, FS_Injection
  <2> QED BY <2>4 DEF Surjection
<1> QED BY <1>0, <1>2, <1>3, <1>4

\* Why the elements selected are in the order of the sequence, each once.
InOrder(q, s, K) ==
  \E place \in [DOMAIN q -> DOMAIN s] :
    /\ \A i, j \in DOMAIN q : i < j => place[i] < place[j]
    /\ \A i \in DOMAIN q : q[i] = s[place[i]]
    /\ {place[i] : i \in DOMAIN q} = K

\* What is selected at a set of places stands in their order.
LEMMA SelectedInOrder ==
  ASSUME NEW S, NEW s \in Seq(S), NEW K \in SUBSET DOMAIN s
  PROVE  Selected(s, K) \in Seq(S) /\ InOrder(Selected(s, K), s, K)
<1>1. /\ DOMAIN s = 1..Len(s) /\ Len(s) \in Nat /\ K \in SUBSET Nat
      /\ \A k \in K : s[k] \in S
  OBVIOUS
<1>2. IsFiniteSet(K)
  <2>1. IsFiniteSet(1..Len(s))
    <3>1. \A n \in Nat : IsFiniteSet(1..n)
      BY FS_Interval
    <3> QED BY <1>1, <3>1
  <2> QED BY <1>1, <2>1, FS_Subset
<1> DEFINE n == Cardinality(K)
           at == [m \in 1..n |-> CHOOSE k \in K : Place(K, k) = m]
<1>3. /\ n \in Nat
      /\ \A k \in K : Place(K, k) \in 1..n
      /\ \A j, k \in K : j < k => Place(K, j) < Place(K, k)
      /\ \A m \in 1..n : \E k \in K : Place(K, k) = m
  BY <1>1, <1>2, Places
<1>4. \A m \in 1..n : at[m] \in K /\ Place(K, at[m]) = m
  BY <1>3
<1>5. Selected(s, K) = [m \in 1..n |-> s[at[m]]]
  BY DEF Selected
<1>6. at \in [1..n -> K]
  BY <1>4
<1> HIDE DEF n, at
<1>7. Selected(s, K) \in Seq(S) /\ DOMAIN Selected(s, K) = 1..n
  <2>1. \A m \in 1..n : s[at[m]] \in S
    BY <1>1, <1>4
  <2> QED BY <1>3, <1>5, <2>1
<1>8. ASSUME NEW i \in 1..n, NEW j \in 1..n, i < j PROVE at[i] < at[j]
  <2>1. at[i] \in K /\ at[j] \in K /\ Place(K, at[i]) = i /\ Place(K, at[j]) = j
    BY <1>4
  <2>2. at[i] \in Nat /\ at[j] \in Nat /\ i \in Nat /\ j \in Nat
    BY <1>1, <1>3, <2>1
  <2>3. at[i] # at[j] /\ ~(at[j] < at[i])
    <3>1. at[j] < at[i] => j < i
      BY <1>3, <2>1
    <3>2. ~(j < i) /\ i # j
      BY <1>8, <2>2
    <3> QED BY <2>1, <3>1, <3>2
  <2> QED BY <2>2, <2>3
<1>9. {at[m] : m \in 1..n} = K
  <2>1. ASSUME NEW k \in K PROVE \E m \in 1..n : at[m] = k
    <3>1. PICK m \in 1..n : m = Place(K, k)
      BY <1>3
    <3>2. at[m] \in K /\ Place(K, at[m]) = Place(K, k) /\ at[m] \in Nat /\ k \in Nat
      BY <1>1, <1>4, <3>1
    <3>3. ~(Place(K, at[m]) < Place(K, k)) /\ ~(Place(K, k) < Place(K, at[m]))
      <4>1. m \in Nat /\ Place(K, k) = m /\ Place(K, at[m]) = m
        BY <1>3, <3>1, <3>2
      <4> QED BY <4>1
    <3>4. ~(at[m] < k) /\ ~(k < at[m])
      BY <1>3, <3>2, <3>3
    <3> QED BY <3>2, <3>4
  <2> QED BY <1>4, <2>1
<1>10. at \in [DOMAIN Selected(s, K) -> DOMAIN s]
  BY <1>6, <1>7
<1>11. \A i \in DOMAIN Selected(s, K) : Selected(s, K)[i] = s[at[i]]
  BY <1>5, <1>7
<1> QED BY <1>7, <1>8, <1>9, <1>10, <1>11 DEF InOrder

\* The places of the applications that a push matches.
MatchedPlaces(s, p) ==
  {n \in DOMAIN AppList : /\ ClusterSet(p) = {} \/ s[AppList[n]].cluster \in ClusterSet(p)
                          /\ MatchApp(s[AppList[n]], p)}

\* MatchApplications returns what it matches, in the order of the list.
LEMMA Matched ==
  ASSUME NEW s, NEW p
  PROVE  /\ MatchApplications(AppList, s, p) \in Seq(Apps)
         /\ InOrder(MatchApplications(AppList, s, p), AppList, MatchedPlaces(s, p))
<1>1. MatchApplications(AppList, s, p) = Selected(AppList, MatchedPlaces(s, p))
  BY DEF MatchApplications, MatchedPlaces
<1>2. MatchedPlaces(s, p) \in SUBSET DOMAIN AppList
  BY DEF MatchedPlaces
<1>3. AppList \in Seq(Apps)
  BY PipelineAssumption DEF Apps
<1> QED BY <1>1, <1>2, <1>3, SelectedInOrder

\* A job begins with nothing done.
LEMMA PInvInit == Init => PInv
<1> SUFFICES ASSUME Init PROVE PInv
  OBVIOUS
<1>a. 1 \in 1..Attempts /\ 1 \in 1..MaxParts /\ MaxParts \in 0..MaxParts
  BY PipelineAssumption
<1>b. thread \in [kind : {"old", "none", "error", "empty", "report"}, parts : 0..MaxParts]
  BY <1>a DEF Init
<1>c. /\ affected \in Seq(ToSet(AppList))
      /\ results \in Seq([app : ToSet(AppList), kind : {"changed", "same", "error"}])
  BY DEF Init
<1>1. TypeOK
  <2>1. push \in Pushes /\ spec \in Specs /\ attempt \in 1..Attempts /\ parts \in 1..MaxParts
    BY <1>a DEF Init
  <2>2. /\ pc = "github" /\ ctxDone = FALSE /\ waiting = FALSE /\ refused = FALSE
        /\ side = "base" /\ body = "none" /\ result = "none"
    BY DEF Init
  <2> QED BY <1>b, <1>c, <2>1, <2>2 DEF TypeOK
<1>2. RetryInv /\ MapInv /\ BodyInv /\ ThreadInv
  BY DEF Init, RetryInv, MapInv, BodyInv, ThreadInv
<1> QED BY <1>1, <1>2 DEF PInv

\* The bodies and results are only those of the loop.
LEMMA Lengths ==
  ASSUME TypeOK
  PROVE  /\ Len(results) \in Nat /\ DOMAIN results = 1..Len(results)
         /\ Len(affected) \in Nat /\ DOMAIN affected = 1..Len(affected)
         /\ results \in Seq([app : Apps, kind : Kinds])
         /\ affected \in Seq(Apps)
BY DEF TypeOK, Apps, Kinds

LEMMA RetryKept ==
  ASSUME PInv, Fresh \/ UNCHANGED <<attempt, waiting>>
  PROVE  waiting' \in BOOLEAN /\ attempt' \in 1..Attempts /\ RetryInv'
<1>1. waiting \in BOOLEAN /\ attempt \in 1..Attempts /\ RetryInv
  BY DEF PInv, TypeOK
<1>2. CASE Fresh
  <2>1. waiting' = FALSE /\ attempt' = 1
    BY <1>2 DEF Fresh
  <2>2. 1 \in 1..Attempts
    BY PipelineAssumption
  <2> QED BY <2>1, <2>2 DEF RetryInv
<1>3. CASE UNCHANGED <<attempt, waiting>>
  BY <1>1, <1>3 DEF RetryInv
<1> QED BY <1>2, <1>3

\* Entering PostComment with a body that fits what was done keeps everything.
LEMMA PostStep ==
  ASSUME PInv, NEW b \in {"error", "empty", "report"}, Post(b), pc # "returned",
         UNCHANGED <<push, spec, affected, ctxDone, refused, result, side>>,
         Fresh \/ UNCHANGED <<attempt, waiting>>, UNCHANGED results,
         b = "empty" => affected = <<>>,
         b # "report"
  PROVE  PInv'
<1>1. /\ parts' \in 1..MaxParts /\ pc' = "clear" /\ body' = b /\ UNCHANGED thread
  BY DEF Post
<1>2. waiting' \in BOOLEAN /\ attempt' \in 1..Attempts /\ RetryInv'
  BY RetryKept
<1>3. TypeOK'
  BY <1>1, <1>2 DEF PInv, TypeOK
<1>4. (MapInv /\ BodyInv /\ ThreadInv)'
  BY <1>1 DEF PInv, MapInv, BodyInv, ThreadInv
<1> QED BY <1>2, <1>3, <1>4 DEF PInv

\* An application's result takes its place behind the others.
LEMMA FinishStep ==
  ASSUME PInv, NEW kind \in Kinds, FinishApp(kind), pc \in {"fetch", "diff"},
         UNCHANGED <<push, spec, affected, ctxDone, refused, result>>,
         Fresh \/ UNCHANGED <<attempt, waiting>>
  PROVE  PInv'
<1> DEFINE line == [app |-> App, kind |-> kind]
<1>0. /\ Len(results) \in Nat /\ DOMAIN results = 1..Len(results)
      /\ Len(affected) \in Nat /\ DOMAIN affected = 1..Len(affected)
      /\ results \in Seq([app : Apps, kind : Kinds]) /\ affected \in Seq(Apps)
      /\ Len(results) < Len(affected)
  BY Lengths DEF PInv, MapInv
<1>1. App = affected[Len(results) + 1] /\ App \in Apps
  BY <1>0 DEF App
<1>2. line \in [app : Apps, kind : Kinds] /\ line.app = affected[Len(results) + 1]
  BY <1>1
<1>3. results' = Append(results, line) /\ side' = "base"
  BY DEF FinishApp
<1> HIDE DEF line
<1>4. /\ results' \in Seq([app : Apps, kind : Kinds]) /\ Len(results') = Len(results) + 1
      /\ DOMAIN results' = 1..Len(results) + 1
      /\ results'[Len(results) + 1] = line
      /\ \A i \in DOMAIN results : results'[i] = results[i]
  BY <1>0, <1>2, <1>3, AppendProperties
<1>5. \A i \in DOMAIN results' : results'[i].app = affected[i]
  <2> TAKE i \in DOMAIN results'
  <2>1. CASE i = Len(results) + 1
    BY <2>1, <1>2, <1>4
  <2>2. CASE i # Len(results) + 1
    BY <2>2, <1>0, <1>4 DEF PInv, MapInv
  <2> QED BY <2>1, <2>2
<1>6. affected # <<>>
  BY <1>0
<1>r. waiting' \in BOOLEAN /\ attempt' \in 1..Attempts /\ RetryInv'
  BY RetryKept
<1>7. CASE Len(results') = Len(affected)
  <2>1. parts' \in 1..MaxParts /\ pc' = "clear" /\ body' = "report" /\ UNCHANGED thread
    BY <1>7 DEF FinishApp, Post
  <2>2. TypeOK'
    BY <2>1, <1>3, <1>4, <1>r DEF PInv, TypeOK, Apps, Kinds
  <2>3. MapInv'
    BY <2>1, <1>0, <1>5, <1>7 DEF MapInv
  <2>a. BodyInv'
    BY <2>1, <1>6, <1>7 DEF BodyInv
  <2>4. ThreadInv'
    BY <2>1 DEF PInv, ThreadInv
  <2> QED BY <1>r, <2>2, <2>3, <2>a, <2>4 DEF PInv
<1>8. CASE Len(results') # Len(affected)
  <2>1. pc' = "fetch" /\ UNCHANGED <<body, parts, thread>>
    BY <1>8 DEF FinishApp, postVars
  <2>2. TypeOK'
    BY <2>1, <1>3, <1>4, <1>r DEF PInv, TypeOK, Apps, Kinds
  <2>a. Len(results') < Len(affected)
    <3>1. Len(results) \in Nat /\ Len(affected) \in Nat /\ Len(results) < Len(affected)
      BY <1>0
    <3>2. Len(results') = Len(results) + 1
      BY <1>4
    <3> QED BY <1>8, <3>1, <3>2
  <2>3. MapInv'
    BY <2>1, <2>a, <1>0, <1>4, <1>5 DEF MapInv
  <2>4. BodyInv' /\ ThreadInv'
    BY <2>1 DEF PInv, BodyInv, ThreadInv
  <2> QED BY <1>r, <2>2, <2>3, <2>4 DEF PInv
<1> QED BY <1>7, <1>8

\* Every call, answer, failure and delay keeps the invariant.
LEMMA PInvStep == PInv /\ [Next]_vars => PInv'
<1> SUFFICES ASSUME PInv, [Next]_vars PROVE PInv'
  OBVIOUS
<1> USE PipelineAssumption DEF retryVars, workVars, matchVars, postVars
<1>0. 1 \in 1..Attempts /\ attempt \in 1..Attempts
  BY DEF PInv, TypeOK
<1>1. CASE CtxExpires
  <2>1. ctxDone' = TRUE
        /\ UNCHANGED <<pc, attempt, waiting, push, spec, affected, results, side, body, parts, thread,
                       refused, result>>
    BY <1>1 DEF CtxExpires
  <2> QED BY <2>1 DEF PInv, TypeOK, RetryInv, MapInv, BodyInv, ThreadInv
<1>2. CASE NewGithubClient
  <2>1. /\ pc = "github" /\ UNCHANGED <<ctxDone, attempt, waiting, push, spec, affected, results, side,
                                        body, parts, thread>>
        /\ \/ pc' = "argocd" /\ UNCHANGED <<refused, result>>
           \/ pc' = "returned" /\ result' = "err" /\ refused' = TRUE
    BY <1>2 DEF NewGithubClient, Return
  <2> QED BY <2>1 DEF PInv, TypeOK, RetryInv, MapInv, BodyInv, ThreadInv
<1>3. CASE NewArgocdClient
  <2>1. /\ pc = "argocd"
        /\ UNCHANGED <<ctxDone, attempt, waiting, push, spec, affected, results, side, refused, result>>
        /\ (pc' = "list" /\ UNCHANGED <<body, parts, thread>>) \/ Post("error")
    BY <1>3 DEF NewArgocdClient
  <2>2. CASE pc' = "list" /\ UNCHANGED <<body, parts, thread>>
    BY <2>1, <2>2 DEF PInv, TypeOK, RetryInv, MapInv, BodyInv, ThreadInv
  <2>3. CASE Post("error")
    BY <2>1, <2>3, PostStep DEF PInv, TypeOK
  <2> QED BY <2>1, <2>2, <2>3
<1>4. CASE CallFails
  <2>1. /\ waiting' = TRUE
        /\ UNCHANGED <<pc, ctxDone, attempt, push, spec, affected, results, side, body, parts, thread,
                       refused, result>>
    BY <1>4 DEF CallFails
  <2>2. attempt < Attempts
    BY <1>4 DEF CallFails
  <2>3. TypeOK'
    BY <2>1 DEF PInv, TypeOK
  <2>4. RetryInv' /\ MapInv' /\ BodyInv' /\ ThreadInv'
    BY <2>1, <2>2 DEF PInv, RetryInv, MapInv, BodyInv, ThreadInv
  <2> QED BY <2>3, <2>4 DEF PInv
<1>5. CASE DelayOver
  <2>1. /\ waiting' = FALSE
        /\ UNCHANGED <<pc, ctxDone, push, spec, affected, results, side, body, parts, thread,
                       refused, result>>
    BY <1>5 DEF DelayOver
  <2>2. attempt' \in 1..Attempts /\ waiting = TRUE
    BY <1>5 DEF DelayOver, NextAttempt, PInv, TypeOK, RetryInv
  <2>3. TypeOK'
    <3>1. /\ TypeOK /\ waiting' = FALSE /\ attempt' \in 1..Attempts
          /\ UNCHANGED <<pc, ctxDone, push, spec, affected, results, side, body, parts, thread,
                         refused, result>>
      BY <2>1, <2>2 DEF PInv
    <3>2. TypeOK' <=> TypeOK /\ waiting' \in BOOLEAN /\ attempt' \in 1..Attempts
      <4>1. /\ push' = push /\ spec' = spec /\ pc' = pc /\ ctxDone' = ctxDone /\ affected' = affected
            /\ results' = results /\ side' = side /\ body' = body /\ parts' = parts
            /\ thread' = thread /\ refused' = refused /\ result' = result
        BY <3>1
      <4> QED BY <3>1, <4>1, ZenonT(40) DEF TypeOK
    <3> QED BY <3>1, <3>2
  <2>4. RetryInv' /\ MapInv' /\ BodyInv' /\ ThreadInv'
    BY <2>1 DEF PInv, RetryInv, MapInv, BodyInv, ThreadInv
  <2> QED BY <2>3, <2>4 DEF PInv
<1>6. CASE ListSucceeds
  <2>1. /\ pc = "list" /\ Fresh /\ affected' = MatchApplications(AppList, spec, push)
        /\ UNCHANGED <<push, spec, ctxDone, results, side, refused, result>>
        /\ IF affected' = <<>> THEN Post("empty") ELSE pc' = "fetch" /\ UNCHANGED <<body, parts, thread>>
    BY <1>6 DEF ListSucceeds
  <2>2. affected' \in Seq(ToSet(AppList))
    BY <2>1, Matched DEF Apps
  <2>3. waiting' \in BOOLEAN /\ attempt' \in 1..Attempts /\ RetryInv'
    BY <2>1, RetryKept
  <2>4. results = <<>> /\ body = "none" /\ result # "nil"
    BY <2>1 DEF PInv, BodyInv, ThreadInv
  <2>5. CASE affected' = <<>>
    <3>1. body' = "empty" /\ pc' = "clear" /\ parts' \in 1..MaxParts /\ UNCHANGED thread
      BY <2>1, <2>5 DEF Post
    <3>2. TypeOK'
      BY <3>1, <2>1, <2>2, <2>3 DEF PInv, TypeOK
    <3>3. (MapInv /\ BodyInv /\ ThreadInv)'
      BY <3>1, <2>1, <2>4, <2>5 DEF PInv, MapInv, BodyInv, ThreadInv
    <3> QED BY <3>2, <3>3, <2>3 DEF PInv
  <2>6. CASE affected' # <<>>
    <3>1. pc' = "fetch" /\ UNCHANGED <<body, parts, thread>>
      BY <2>1, <2>6
    <3>2. TypeOK'
      BY <3>1, <2>1, <2>2, <2>3 DEF PInv, TypeOK
    <3>3. Len(affected') \in Nat /\ Len(affected') # 0 /\ Len(results') = 0 /\ results' = <<>>
      BY <2>1, <2>2, <2>4, <2>6
    <3>4. (MapInv /\ BodyInv /\ ThreadInv)'
      BY <3>1, <3>3, <2>1, <2>4 DEF PInv, MapInv, BodyInv, ThreadInv
    <3> QED BY <3>2, <3>4, <2>3 DEF PInv
  <2> QED BY <2>5, <2>6
<1>7. CASE ListFails
  <2>1. /\ pc = "list" /\ Post("error") /\ Fresh
        /\ UNCHANGED <<push, spec, affected, results, side, ctxDone, refused, result>>
    BY <1>7 DEF ListFails
  <2> QED BY <2>1, PostStep
<1>8. CASE FetchSucceeds
  <2>1. /\ pc = "fetch" /\ Fresh /\ pc' \in {"fetch", "diff"} /\ side' \in {"base", "head"}
        /\ UNCHANGED <<push, spec, affected, results, ctxDone, body, parts, thread, refused, result>>
    BY <1>8 DEF FetchSucceeds, PInv, TypeOK
  <2>2. waiting' \in BOOLEAN /\ attempt' \in 1..Attempts /\ RetryInv'
    BY <2>1, RetryKept
  <2>3. TypeOK'
    BY <2>1, <2>2 DEF PInv, TypeOK
  <2>4. (MapInv /\ BodyInv /\ ThreadInv)'
    BY <2>1 DEF PInv, MapInv, BodyInv, ThreadInv
  <2> QED BY <2>2, <2>3, <2>4 DEF PInv
<1>9. CASE FetchFails
  <2>1. /\ pc = "fetch" /\ FinishApp("error") /\ Fresh
        /\ UNCHANGED <<push, spec, affected, ctxDone, refused, result>>
    BY <1>9 DEF FetchFails
  <2> QED BY <2>1, FinishStep DEF Kinds
<1>10. CASE Diff
  <2>1. PICK kind \in Kinds : FinishApp(kind)
    BY <1>10 DEF Diff, Kinds
  <2>2. pc = "diff" /\ UNCHANGED <<attempt, waiting, push, spec, affected, ctxDone, refused, result>>
    BY <1>10 DEF Diff
  <2> QED BY <2>1, <2>2, FinishStep
<1>11. CASE Clear
  <2>1. /\ pc = "clear" /\ pc' = "create" /\ thread' = Cleared
        /\ UNCHANGED <<ctxDone, attempt, waiting, push, spec, affected, results, side, body, parts,
                       refused, result>>
    BY <1>11 DEF Clear
  <2>2. TypeOK'
    BY <2>1, PipelineAssumption DEF PInv, TypeOK, Cleared
  <2>3. (RetryInv /\ MapInv /\ BodyInv)'
    BY <2>1 DEF PInv, RetryInv, MapInv, BodyInv
  <2>4. ThreadInv'
    BY <2>1 DEF PInv, ThreadInv, TypeOK, Cleared
  <2> QED BY <2>2, <2>3, <2>4 DEF PInv
<1>12. CASE CreatePart
  <2>1. /\ pc = "create" /\ thread' = [kind |-> body, parts |-> thread.parts + 1]
        /\ UNCHANGED <<ctxDone, attempt, waiting, push, spec, affected, results, side, body, parts,
                       refused>>
        /\ IF thread.parts + 1 = parts THEN Return(PostResult) ELSE UNCHANGED <<pc, result>>
    BY <1>12 DEF CreatePart
  <2>2. /\ thread.parts \in 0..MaxParts /\ parts \in 1..MaxParts /\ thread.parts < parts
        /\ body \in {"error", "empty", "report"} /\ result = "none"
    BY <2>1 DEF PInv, TypeOK, BodyInv, ThreadInv
  <2>3. thread' \in [kind : {"old", "none", "error", "empty", "report"}, parts : 0..MaxParts]
    BY <2>1, <2>2
  <2>4. PostResult = "nil" => body \in {"empty", "report"}
    BY <2>2 DEF PostResult
  <2>5. PostResult \in {"nil", "err"}
    BY DEF PostResult
  <2>6. TypeOK'
    BY <2>1, <2>3, <2>5 DEF PInv, TypeOK, Return
  <2>7. (RetryInv /\ MapInv /\ BodyInv)'
    BY <2>1 DEF PInv, RetryInv, MapInv, BodyInv, Return
  <2>8. ThreadInv'
    <3>1. CASE thread.parts + 1 = parts
      BY <3>1, <2>1, <2>4, <2>5 DEF ThreadInv, Return
    <3>2. CASE thread.parts + 1 # parts
      BY <3>2, <2>1, <2>2 DEF ThreadInv
    <3> QED BY <3>1, <3>2
  <2> QED BY <2>6, <2>7, <2>8 DEF PInv
<1>13. CASE PostFails
  <2>1. /\ pc \in {"clear", "create"} /\ pc' = "returned" /\ result' = "err"
        /\ refused' \in BOOLEAN
        /\ UNCHANGED <<ctxDone, attempt, waiting, push, spec, affected, results, side, body, parts>>
    BY <1>13 DEF PostFails, Return, PInv, TypeOK
  <2>2. thread' \in [kind : {"old", "none", "error", "empty", "report"}, parts : 0..MaxParts]
    <3>1. thread \in [kind : {"old", "none", "error", "empty", "report"}, parts : 0..MaxParts]
          /\ body \in {"none", "error", "empty", "report"} /\ parts \in 1..MaxParts
      BY DEF PInv, TypeOK
    <3>2. pc = "create" => thread.parts < parts
      BY DEF PInv, ThreadInv
    <3>3. \/ thread' = thread \/ thread' = [kind |-> "none", parts |-> 0]
          \/ pc = "create" /\ thread' = [kind |-> body, parts |-> thread.parts + 1]
          \/ \E n \in 1..thread.parts : thread' = [thread EXCEPT !.parts = n]
      BY <1>13 DEF PostFails, Cleared
    <3>4. ASSUME NEW n \in 1..thread.parts, thread' = [thread EXCEPT !.parts = n]
          PROVE  thread' \in [kind : {"old", "none", "error", "empty", "report"}, parts : 0..MaxParts]
      <4>1. n \in 0..MaxParts
        BY <3>1, PipelineAssumption
      <4> QED BY <3>1, <3>4, <4>1
    <3> QED BY <3>1, <3>2, <3>3, <3>4
  <2>3. TypeOK'
    BY <2>1, <2>2 DEF PInv, TypeOK
  <2>4. (RetryInv /\ MapInv /\ BodyInv /\ ThreadInv)'
    BY <2>1 DEF PInv, RetryInv, MapInv, BodyInv, ThreadInv
  <2> QED BY <2>3, <2>4 DEF PInv
<1>14. CASE UNCHANGED vars
  BY <1>14 DEF vars, PInv, TypeOK, RetryInv, MapInv, BodyInv, ThreadInv
<1> QED BY <1>1, <1>2, <1>3, <1>4, <1>5, <1>6, <1>7, <1>8, <1>9, <1>10, <1>11, <1>12, <1>13, <1>14
        DEF Next, Step

\* So the invariant holds throughout.
LEMMA PInvariant == Spec => []PInv
BY PInvInit, PInvStep, PTL DEF Spec

\* A job's report has exactly one result for each affected application, in their
\* order, whichever calls fail and whenever the context expires.
THEOREM ReportIsComplete == Spec => []OneResultPerApp
<1>1. PInv => OneResultPerApp
  <2> SUFFICES ASSUME PInv PROVE OneResultPerApp
    OBVIOUS
  <2> DEFINE reported == [i \in DOMAIN results |-> results[i].app]
  <2>1. /\ Len(results) \in Nat /\ DOMAIN results = 1..Len(results)
        /\ Len(affected) \in Nat /\ DOMAIN affected = 1..Len(affected)
        /\ affected \in Seq(Apps) /\ Len(results) <= Len(affected)
        /\ \A i \in DOMAIN results : results[i].app = affected[i]
    BY Lengths DEF PInv, MapInv
  <2>2. /\ reported \in Seq(Apps) /\ Len(reported) = Len(results)
        /\ \A i \in 1..Len(results) : reported[i] = affected[i]
    BY <2>1
  <2> HIDE DEF reported
  <2>3. IsPrefix(reported, affected)
    BY <2>1, <2>2 DEF IsPrefix
  <2>4. body = "report" => reported = affected
    <3> SUFFICES ASSUME body = "report" PROVE reported = affected
      OBVIOUS
    <3>1. Len(results) = Len(affected)
      BY DEF PInv, BodyInv
    <3> QED BY <3>1, <2>1, <2>2
  <2> QED BY <2>3, <2>4 DEF OneResultPerApp, reported
<1> QED BY <1>1, PInvariant, PTL

\* processJob returns nil only when every part of the whole answer is on the pull
\* request.
THEOREM NilMeansReported == Spec => []SuccessMeansReported
<1>1. PInv => SuccessMeansReported
  <2> SUFFICES ASSUME PInv, result = "nil"
               PROVE /\ thread = [kind |-> body, parts |-> parts]
                     /\ body = IF affected = <<>> THEN "empty" ELSE "report"
    BY DEF SuccessMeansReported
  <2>1. thread = [kind |-> body, parts |-> parts] /\ body \in {"empty", "report"}
    BY DEF PInv, ThreadInv
  <2>2. (body = "empty" => affected = <<>>) /\ (body = "report" => affected # <<>>)
    BY DEF PInv, BodyInv
  <2> QED BY <2>1, <2>2
<1> QED BY <1>1, PInvariant, PTL

-----------------------------------------------------------------------------
(* What MatchApplications matches is what a push affects, for URLs and paths  *)
(* of the usual forms.                                                        *)

\* The host in front of a repository's two names is cut off.
LEMMA HostDropped ==
  ASSUME NEW h, NEW q \in Seq(Names), Len(q) = 2
  PROVE  /\ Len(<<h>> \o q) >= 3
         /\ Tail(<<h>> \o q) = q
<1> DEFINE S == Names \cup {h}
           one == <<h>>
<1>1. q \in Seq(S) /\ one \in Seq(S) /\ Len(one) = 1
  OBVIOUS
<1> HIDE DEF S, one
<1>2. one \o q \in Seq(S) /\ Len(one \o q) = 3
  <2>1. one \o q \in Seq(S) /\ Len(one \o q) = Len(one) + Len(q)
    BY <1>1, ConcatProperties
  <2>2. 1 + 2 = 3
    OBVIOUS
  <2> QED BY <1>1, <2>1, <2>2, Zenon
<1>3. SubSeq(one \o q, 2, 3) = q
  <2>1. 2 \in Len(one) + 1..Len(one) + Len(q) /\ 3 \in Len(one) + 1..Len(one) + Len(q)
    BY <1>1
  <2>2. SubSeq(one \o q, 2, 3) = SubSeq(q, 2 - Len(one), 3 - Len(one))
    BY <1>1, <2>1, SubSeqOfConcat2
  <2>3. 2 - Len(one) = 1 /\ 3 - Len(one) = Len(q)
    BY <1>1
  <2>4. SubSeq(q, 1, Len(q)) = q
    BY SubSeqFull
  <2> QED BY <2>2, <2>3, <2>4, Zenon
<1>4. one \o q # <<>>
  <2>1. Len(<<>>) = 0 /\ 3 # 0
    OBVIOUS
  <2> QED BY <1>2, <2>1
<1>5. Tail(one \o q) = SubSeq(one \o q, 2, Len(one \o q))
  BY <1>2, <1>4, TailIsSubSeq
<1>7. Tail(one \o q) = q
  BY <1>2, <1>3, <1>5, Zenon
<1>8. 3 >= 3
  OBVIOUS
<1> QED BY <1>2, <1>7, <1>8, Zenon DEF one

\* A repository is known by the last two names of its URL's path.
LEMMA UsualNormalized ==
  ASSUME NEW u, UsualURL(u)
  PROVE  NormalizeRepoURL(u) = SubSeq(u.path, Len(u.path) - 1, Len(u.path))
<1> DEFINE p == u.path
<1>1. p \in Seq(Names) /\ Len(p) \in Nat
  BY DEF UsualURL
<1>2. TrimSuffixes(u) = p
  BY DEF UsualURL, TrimSuffixes
<1>3. CASE Len(p) = 2 /\ ~(u.host # NoName /\ u.sep = ":" /\ p[1] \in Digits)
  <2>1. SubSeq(p, Len(p) - 1, Len(p)) = p
    BY <1>1, <1>3
  <2>2. CASE u.host = NoName
    <3>1. HostAndPath(u) = p
      BY <1>2, <2>2 DEF HostAndPath
    <3>2. NormalizeRepoURL(u) = p
      <4>1. ~(Len(p) >= 3)
        BY <1>3
      <4> QED BY <3>1, <4>1, Zenon DEF NormalizeRepoURL
    <3> QED BY <2>1, <3>2
  <2>3. CASE u.host # NoName
    <3>1. ~(u.sep = ":" /\ Len(p) > 1 /\ p[1] \in Digits)
      BY <1>3, <2>3
    <3>2. HostAndPath(u) = <<u.host>> \o p
      BY <1>2, <2>3, <3>1, Zenon DEF HostAndPath
    <3> QED BY <1>1, <1>3, <2>1, <3>2, HostDropped DEF NormalizeRepoURL
  <2> QED BY <2>2, <2>3
<1>4. CASE Len(p) = 3 /\ u.host # NoName /\ u.sep = ":" /\ p[1] \in Digits
  <2>1. HostAndPath(u) = <<u.host>> \o Tail(p)
    <3>1. Len(p) > 1
      BY <1>4
    <3> QED BY <1>2, <1>4, <3>1, Zenon DEF HostAndPath
  <2>2. Tail(p) \in Seq(Names) /\ Len(Tail(p)) = 2
    BY <1>1, <1>4
  <2>3. NormalizeRepoURL(u) = Tail(p)
    BY <2>1, <2>2, HostDropped DEF NormalizeRepoURL
  <2>4. SubSeq(p, Len(p) - 1, Len(p)) = Tail(p)
    <3> HIDE DEF p
    <3>1. Len(p) - 1 = 2 /\ Len(p) = 3
      BY <1>4
    <3>2. p # <<>>
      BY <1>1, <3>1
    <3>4. Tail(p) = SubSeq(p, 2, Len(p))
      BY <1>1, <3>2, TailIsSubSeq
    <3> QED BY <3>1, <3>4, Zenon
  <2> QED BY <2>3, <2>4
<1> QED BY <1>3, <1>4 DEF UsualURL

\* Two URLs name one repository when their last two names agree.
LEMMA SameRepoExact ==
  ASSUME NEW u, NEW v, UsualURL(u), UsualURL(v)
  PROVE  SameRepo(u, v) <=> NormalizeRepoURL(u) = NormalizeRepoURL(v)
BY UsualNormalized DEF SameRepo

\* The directories above a file are the prefixes of its names.
LEMMA AboveAre ==
  ASSUME NEW S, NEW fs \in Seq(S), NEW k \in 0..Len(fs)
  PROVE  /\ Len(SubSeq(fs, 1, k)) = k /\ DOMAIN SubSeq(fs, 1, k) = 1..k
         /\ \A n \in 1..k : SubSeq(fs, 1, k)[n] = fs[n]
OBVIOUS

\* A file lies in the directory of a path, or matches its pattern.
LEMMA HoldsExact ==
  ASSUME NEW p, NEW f, UsualPath(p), UsualFile(f)
  PROVE  Holds(p, f) <=> IsWholeRepo(p) \/ DirectMatch(p, f) \/ GlobMatch(p, f)
<1> DEFINE ps == p.segs
           fs == f.segs
           k == Len(ps)
           l == Len(fs)
           Fits(dir) == Len(dir) = Len(ps) /\ \A n \in DOMAIN dir : NameMatches(ps[n], dir[n])
           Equal(m) == m = k /\ \A n \in 1..m : NameMatches(ps[n], fs[n])
           starred == \E n \in DOMAIN ps : ps[n] \in DOMAIN Stars
<1>1. /\ p \in [lead : BOOLEAN, segs : Seq(Names), trail : {FALSE}]
      /\ ps = <<>> => ~p.lead
  BY DEF UsualPath
<1>t. /\ p.segs \in Seq(Names) /\ p.trail = FALSE /\ p.lead \in BOOLEAN
      /\ p = [lead |-> p.lead, segs |-> p.segs, trail |-> p.trail]
  <2> DEFINE T == Seq(Names)
  <2>1. p \in [lead : BOOLEAN, segs : T, trail : {FALSE}]
    BY <1>1
  <2> HIDE DEF T
  <2>2. /\ p.segs \in T /\ p.trail \in {FALSE} /\ p.lead \in BOOLEAN
        /\ p = [lead |-> p.lead, segs |-> p.segs, trail |-> p.trail]
    BY <2>1
  <2>3. p.trail = FALSE
    BY <2>2, Zenon
  <2> QED BY <2>2, <2>3, Zenon DEF T
<1>2. ps \in Seq(Names) /\ k \in Nat /\ DOMAIN ps = 1..k
  BY <1>t
<1>3. fs \in Seq(Names \ DOMAIN Stars) /\ fs # <<>>
  BY DEF UsualFile
<1>4. /\ l \in Nat /\ l # 0 /\ l - 1 \in 0..l /\ l \in 0..l /\ DOMAIN fs = 1..l
      /\ \A n \in 1..l : fs[n] \in Names \ DOMAIN Stars
  BY <1>3
<1>5. Holds(p, f) <=> IF starred THEN \E m \in {l - 1, l} : Fits(SubSeq(fs, 1, m))
                                 ELSE \E m \in 0..l : Fits(SubSeq(fs, 1, m))
  BY DEF Holds, HasStar
<1>6. ASSUME NEW m \in 0..l PROVE Fits(SubSeq(fs, 1, m)) <=> Equal(m)
  <2>1. /\ Len(SubSeq(fs, 1, m)) = m /\ DOMAIN SubSeq(fs, 1, m) = 1..m
        /\ \A n \in 1..m : SubSeq(fs, 1, m)[n] = fs[n]
    BY <1>3, <1>6, AboveAre
  <2> QED BY <2>1
<1>7. IsPrefix(ps, fs) <=> k <= l /\ \A n \in 1..k : ps[n] = fs[n]
  <2>1. CASE ~(k <= l)
    BY <2>1 DEF IsPrefix
  <2>2. CASE k <= l
    <3>1. k \in 0..l /\ k \in 0..k
      BY <1>2, <1>4, <2>2
    <3>2. /\ Len(SubSeq(fs, 1, k)) = k /\ DOMAIN SubSeq(fs, 1, k) = 1..k
          /\ \A n \in 1..k : SubSeq(fs, 1, k)[n] = fs[n]
      BY <1>3, <3>1, AboveAre
    <3>3. SubSeq(ps, 1, k) = ps
      BY <1>2, SubSeqFull
    <3>4. SubSeq(fs, 1, k) \in Seq(Names \ DOMAIN Stars)
      BY <1>3, <1>4, <3>1
    <3>5. ps = SubSeq(fs, 1, k) <=> \A n \in 1..k : ps[n] = fs[n]
      <4>1. ASSUME \A n \in 1..k : ps[n] = fs[n] PROVE ps = SubSeq(fs, 1, k)
        <5>1. SubSeq(fs, 1, k) \in Seq(Names) /\ ps \in Seq(Names)
          BY <1>2, <3>4, SeqMonotonic
        <5>2. Len(ps) = Len(SubSeq(fs, 1, k)) /\ \A n \in 1..Len(ps) : ps[n] = SubSeq(fs, 1, k)[n]
          BY <3>2, <4>1
        <5> QED BY <5>1, <5>2, SeqEqual
      <4> QED BY <3>2, <4>1
    <3> QED BY <2>2, <3>3, <3>5 DEF IsPrefix
  <2> QED BY <2>1, <2>2
<1>8. IsWholeRepo(p) <=> ps = <<>>
  <2>1. ASSUME ps = <<>> PROVE IsWholeRepo(p)
    <3>1. p.lead = FALSE
      BY <1>1, <1>t, <2>1, Zenon
    <3> QED BY <1>t, <2>1, <3>1, Zenon DEF IsWholeRepo
  <2>2. IsWholeRepo(p) => ps = <<>>
    BY DEF IsWholeRepo
  <2> QED BY <2>1, <2>2
<1>9. DirectMatch(p, f) <=> ps # <<>> /\ IsPrefix(ps, fs)
  BY <1>t DEF DirectMatch
<1>10. ps = <<>> <=> k = 0
  BY <1>2
<1>11. GlobMatch(p, f) <=> starred /\ (Equal(l) \/ Equal(l - 1))
  <2>1. HasStar(p) <=> starred
    BY DEF HasStar
  <2>2. PatternMatches(p, fs) <=> Equal(l)
    BY <1>2, <1>t, <1>4 DEF PatternMatches
  <2>3. PatternMatches(p, Front(fs)) <=> Equal(l - 1)
    <3>1. /\ Len(SubSeq(fs, 1, l - 1)) = l - 1 /\ DOMAIN SubSeq(fs, 1, l - 1) = 1..l - 1
          /\ \A n \in 1..l - 1 : SubSeq(fs, 1, l - 1)[n] = fs[n]
      BY <1>3, <1>4, AboveAre
    <3> QED BY <1>2, <1>t, <3>1 DEF PatternMatches, Front
  <2> QED BY <2>1, <2>2, <2>3 DEF GlobMatch
<1>12. CASE starred
  <2>1. PICK n \in 1..k : ps[n] \in DOMAIN Stars
    BY <1>2, <1>12
  <2>2. k # 0 /\ ~IsPrefix(ps, fs)
    <3>1. k # 0
      BY <2>1
    <3>2. k <= l => n \in 1..l
      BY <1>2, <1>4, <2>1
    <3> QED BY <1>4, <1>7, <2>1, <3>1, <3>2
  <2>3. Holds(p, f) <=> Equal(l) \/ Equal(l - 1)
    <3>1. Holds(p, f) <=> Fits(SubSeq(fs, 1, l)) \/ Fits(SubSeq(fs, 1, l - 1))
      BY <1>5, <1>12
    <3> HIDE DEF Fits, Equal
    <3> QED BY <1>4, <1>6, <3>1
  <2> HIDE DEF Equal
  <2> QED BY <1>8, <1>9, <1>10, <1>11, <1>12, <2>2, <2>3
<1>13. CASE ~starred
  <2>1. Holds(p, f) <=> \E m \in 0..l : Equal(m)
    <3>1. Holds(p, f) <=> \E m \in 0..l : Fits(SubSeq(fs, 1, m))
      BY <1>5, <1>13
    <3> HIDE DEF Fits, Equal
    <3> QED BY <1>6, <3>1
  <2>2. \A n \in 1..k : NameMatches(ps[n], fs[n]) <=> (ps[n] = fs[n])
    BY <1>2, <1>13 DEF NameMatches
  <2>3. (\E m \in 0..l : Equal(m)) <=> k <= l /\ \A n \in 1..k : ps[n] = fs[n]
    <3>1. k <= l => k \in 0..l
      BY <1>2, <1>4
    <3>2. \A m \in 0..l : m <= l
      BY <1>4
    <3> HIDE DEF k, l
    <3> QED BY <2>2, <3>1, <3>2
  <2>4. ps = <<>> => IsPrefix(ps, fs)
    BY <1>4, <1>7, <1>10
  <2> HIDE DEF Equal
  <2> QED BY <1>7, <1>8, <1>9, <1>11, <1>13, <2>1, <2>3, <2>4
<1> QED BY <1>12, <1>13

\* An application's definition is a file of its name under a directory of definitions.
LEMMA DefinitionExact ==
  ASSUME NEW f, NEW app, UsualFile(f)
  PROVE  IsAppDefinitionFile(f, app) <=>
           DefinedBy(app, f)
<1>1. f.segs \in Seq(Names \ DOMAIN Stars) /\ Len(f.segs) \in Nat
  BY DEF UsualFile
<1> QED BY <1>1 DEF IsAppDefinitionFile, DefinedBy, Last

\* A source matches when it is in the repository and one of the files is its.
LEMMA SourceExact ==
  ASSUME NEW source, NEW repo, NEW files, UsualURL(source.repoURL), UsualURL(repo),
         UsualPath(source.path), \A f \in files : UsualFile(f)
  PROVE  MatchesSource(source, repo, files) <=>
           \E f \in files : SameRepo(source.repoURL, repo) /\ Holds(source.path, f)
<1>1. SameRepo(source.repoURL, repo) <=> NormalizeRepoURL(source.repoURL) = NormalizeRepoURL(repo)
  BY SameRepoExact
<1>2. ASSUME NEW f \in files
      PROVE  Holds(source.path, f) <=>
               IsWholeRepo(source.path) \/ DirectMatch(source.path, f) \/ GlobMatch(source.path, f)
  BY <1>2, HoldsExact
<1> QED BY <1>1, <1>2 DEF MatchesSource

\* The matcher decides as the tree of files does, for one application.
LEMMA MatchExact ==
  ASSUME UsualForms(Specs, Pushes), push \in Pushes, spec \in Specs, NEW a \in Apps
  PROVE  IsAffected(spec[a]) <=>
           /\ ClusterSet(push) = {} \/ spec[a].cluster \in ClusterSet(push)
           /\ MatchApp(spec[a], push)
<1>1. PICK app : app = spec[a]
  OBVIOUS
<1>2. PICK p : p = push
  OBVIOUS
<1>3. /\ UsualURL(p.repo) /\ \A f \in p.files : UsualFile(f)
      /\ \A n \in DOMAIN app.sources :
           UsualURL(app.sources[n].repoURL) /\ UsualPath(app.sources[n].path)
  BY <1>1, <1>2 DEF UsualForms, Apps
<1>4. IsAffected(app) <=>
        /\ p.clusters \subseteq {NoName} \/ (app.cluster # NoName /\ app.cluster \in p.clusters)
        /\ \E f \in p.files :
             \/ DefinedBy(app, f)
             \/ \E n \in DOMAIN app.sources :
                  SameRepo(app.sources[n].repoURL, p.repo) /\ Holds(app.sources[n].path, f)
  BY <1>2, Zenon DEF IsAffected, InRepo
<1>5. (p.clusters \subseteq {NoName} \/ (app.cluster # NoName /\ app.cluster \in p.clusters))
        <=> (ClusterSet(p) = {} \/ app.cluster \in ClusterSet(p))
  BY DEF ClusterSet
<1>6. \A f \in p.files : IsAppDefinitionFile(f, app) <=>
        DefinedBy(app, f)
  BY <1>3, DefinitionExact
<1>7. ASSUME NEW n \in DOMAIN app.sources
      PROVE  MatchesSource(app.sources[n], p.repo, p.files) <=>
               \E f \in p.files : SameRepo(app.sources[n].repoURL, p.repo) /\ Holds(app.sources[n].path, f)
  BY <1>3, SourceExact
<1>8. MatchApp(app, p) <=>
        \/ \E f \in p.files : IsAppDefinitionFile(f, app)
        \/ \E n \in DOMAIN app.sources : MatchesSource(app.sources[n], p.repo, p.files)
  BY DEF MatchApp, ToSet
<1>9. IsAffected(app) <=> (ClusterSet(p) = {} \/ app.cluster \in ClusterSet(p)) /\ MatchApp(app, p)
  <2>1. (\E f \in p.files :
             \/ DefinedBy(app, f)
             \/ \E n \in DOMAIN app.sources :
                  SameRepo(app.sources[n].repoURL, p.repo) /\ Holds(app.sources[n].path, f))
        <=> MatchApp(app, p)
    BY <1>6, <1>7, <1>8, Zenon
  <2> QED BY <1>4, <1>5, <2>1, Zenon
<1> QED BY <1>1, <1>2, <1>9, Zenon

\* The job works on what matching returned.
MatchInv == Listed => affected = MatchApplications(AppList, spec, push)

\* Nothing changes what was matched once it is known.
LEMMA MatchStep == PInv /\ MatchInv /\ [Next]_vars => MatchInv'
<1> SUFFICES ASSUME PInv, MatchInv, [Next]_vars PROVE MatchInv'
  OBVIOUS
<1> USE DEF retryVars, workVars, matchVars, postVars
<1>1. push' = push /\ spec' = spec
  BY DEF Next, Step, vars, CtxExpires, NewGithubClient, NewArgocdClient, CallFails, DelayOver,
         ListSucceeds, ListFails, FetchSucceeds, FetchFails, Diff, Clear, CreatePart, PostFails
<1>2. PICK s, p : s = spec /\ p = push
  OBVIOUS
<1>3. CASE ListSucceeds
  <2>1. affected' = MatchApplications(AppList, s, p)
    BY <1>2, <1>3, Zenon DEF ListSucceeds
  <2> QED BY <1>1, <1>2, <2>1, Zenon DEF MatchInv
<1>4. CASE ~ListSucceeds
  <2>1. affected' = affected /\ (Listed' => Listed)
    <3>1. CASE CtxExpires \/ CallFails \/ DelayOver \/ Clear \/ CreatePart \/ PostFails \/ UNCHANGED vars
      BY <3>1 DEF CtxExpires, CallFails, DelayOver, Clear, CreatePart, PostFails, Return, vars, Listed
    <3>2. CASE NewGithubClient \/ NewArgocdClient \/ ListFails
      BY <3>2 DEF NewGithubClient, NewArgocdClient, ListFails, Return, Post, Listed
    <3>3. CASE FetchSucceeds \/ FetchFails \/ Diff
      BY <3>3 DEF FetchSucceeds, FetchFails, Diff, Listed
    <3> QED BY <1>4, <3>1, <3>2, <3>3 DEF Next, Step
  <2>2. Listed' => affected' = MatchApplications(AppList, s, p)
    BY <1>2, <2>1, Zenon DEF MatchInv
  <2> QED BY <1>1, <1>2, <2>2, Zenon DEF MatchInv
<1> QED BY <1>3, <1>4

\* A job works on exactly the applications that its push affects, in ArgoCD's order,
\* for any applications, files and clusters, and for URLs and paths of the usual forms.
THEOREM MatchingIsExact ==
  ASSUME UsualForms(Specs, Pushes)
  PROVE  Spec => []AffectedExact
<1>1. Init => MatchInv
  BY DEF Init, MatchInv, Listed
<1>2. ASSUME PInv, MatchInv PROVE AffectedExact
  <2> SUFFICES ASSUME Listed PROVE InOrder(affected, AppList, {n \in DOMAIN AppList : IsAffected(spec[AppList[n]])})
    BY DEF AffectedExact, InOrder
  <2>1. push \in Pushes /\ spec \in Specs
    BY <1>2 DEF PInv, TypeOK
  <2>2. \A n \in DOMAIN AppList : AppList[n] \in Apps
    BY PipelineAssumption DEF Apps
  <2>3. {n \in DOMAIN AppList : IsAffected(spec[AppList[n]])} = MatchedPlaces(spec, push)
    <3>1. ASSUME NEW n \in DOMAIN AppList
          PROVE  IsAffected(spec[AppList[n]]) <=>
                   /\ ClusterSet(push) = {} \/ spec[AppList[n]].cluster \in ClusterSet(push)
                   /\ MatchApp(spec[AppList[n]], push)
      BY <2>1, <2>2, MatchExact
    <3> QED BY <3>1 DEF MatchedPlaces
  <2>4. affected = MatchApplications(AppList, spec, push)
    BY <1>2 DEF MatchInv
  <2>5. InOrder(MatchApplications(AppList, spec, push), AppList, MatchedPlaces(spec, push))
    <3>1. PICK s, p : s = spec /\ p = push
      OBVIOUS
    <3>2. InOrder(MatchApplications(AppList, s, p), AppList, MatchedPlaces(s, p))
      BY Matched
    <3> QED BY <3>1, <3>2, Zenon
  <2> QED BY <2>3, <2>4, <2>5, Zenon
<1> QED BY <1>1, <1>2, MatchStep, PInvInit, PInvStep, PTL DEF Spec
=============================================================================
