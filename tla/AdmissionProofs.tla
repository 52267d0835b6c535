--------------------------- MODULE AdmissionProofs ---------------------------
(* Proofs about the admission of requests.  First the limiter: its bounds, for*)
(* every rate, window and set of keys.  Then the server over it: what it does *)
(* to the limiter is what the limiter is specified to do, every job is paid   *)
(* for by its own repository, for any number of handlers, and nobody the      *)
(* allowlist does not name leaves a trace.                                    *)
EXTENDS Admission, FiniteSetTheorems, TLAPS

(* The grants of one key fall into windows: each lies in its own, a window    *)
(* begins with a grant and holds at most Rate of them, and two windows begin  *)
(* more than Window apart.                                                    *)
InOwnWindow(k) ==
  \A i \in 1..Len(grants[k]) :
    /\ grants[k][i].start <= grants[k][i].at
    /\ grants[k][i].at <= grants[k][i].start + Window
    /\ grants[k][i].at <= now

Ordered(k) ==
  \A i, j \in 1..Len(grants[k]) :
    i <= j => /\ grants[k][i].start <= grants[k][j].start
              /\ grants[k][i].at <= grants[k][j].at

AtMostRatePerStart(k) ==
  \A i, j \in 1..Len(grants[k]) :
    j = i + Rate => grants[k][j].start > grants[k][i].start + Window

OpenedByGrant(k) ==
  \A i \in 1..Len(grants[k]) :
    \/ grants[k][i].at = grants[k][i].start
    \/ i > 1 /\ grants[k][i - 1].start = grants[k][i].start

(* The bucket of a key counts the last grants; without one, or once it has    *)
(* expired, every grant is more than a window old.                            *)
NoBucketInv(k) ==
  limits[k] = NoBucket =>
    \A i \in 1..Len(grants[k]) : now > grants[k][i].start + Window

BucketInv(k) ==
  limits[k] # NoBucket =>
    /\ limits[k].count >= 1 /\ limits[k].count <= Len(grants[k])
    /\ limits[k].resetAt >= Window /\ limits[k].resetAt - Window <= now
    /\ \A i \in 1..Len(grants[k]) :
         IF i > Len(grants[k]) - limits[k].count
           THEN grants[k][i].start + Window = limits[k].resetAt
           ELSE grants[k][i].start + Window < limits[k].resetAt - Window

HistoryInv(k) == InOwnWindow(k) /\ Ordered(k) /\ AtMostRatePerStart(k) /\ OpenedByGrant(k)
KeyInv(k)     == HistoryInv(k) /\ NoBucketInv(k) /\ BucketInv(k)
IInv          == TypeOK /\ \A k \in Keys : KeyInv(k)

LEMMA AppendGrant ==
  ASSUME NEW s \in Seq(Grant), NEW g \in Grant
  PROVE  /\ Append(s, g) \in Seq(Grant)
         /\ Len(Append(s, g)) = Len(s) + 1
         /\ \A i \in 1..Len(s) : Append(s, g)[i] = s[i]
         /\ Append(s, g)[Len(s) + 1] = g
  OBVIOUS

LEMMA IInvInit == Init => IInv
<1> SUFFICES ASSUME Init PROVE IInv
  OBVIOUS
<1>1. now \in 0..MaxTime /\ nextTick \in Nat
  BY LimiterAssumption DEF Init
<1>2. limits \in [Keys -> Bucket] /\ \A k \in Keys : limits[k].count <= Rate
  BY LimiterAssumption DEF Init, NoBucket, Bucket
<1>3. tick \in BOOLEAN /\ done \in BOOLEAN /\ cleaner \in {"running", "exited"}
  BY DEF Init
<1>4. grants \in [Keys -> Seq(Grant)] /\ denials \in [Keys -> SUBSET Nat]
  BY DEF Init
<1>5. TypeOK
  BY <1>1, <1>2, <1>3, <1>4 DEF TypeOK
<1>6. \A k \in Keys : limits[k] = NoBucket /\ Len(grants[k]) = 0
  BY DEF Init
<1>7. ASSUME NEW k \in Keys PROVE 1..Len(grants[k]) = {}
  <2>1. Len(grants[k]) = 0
    BY <1>6
  <2> QED BY <2>1
<1>8. \A k \in Keys : HistoryInv(k)
  BY <1>7 DEF HistoryInv, InOwnWindow, Ordered, AtMostRatePerStart, OpenedByGrant
<1>9. \A k \in Keys : NoBucketInv(k) /\ BucketInv(k)
  BY <1>6, <1>7 DEF NoBucketInv, BucketInv
<1> QED BY <1>5, <1>8, <1>9 DEF IInv, KeyInv

(* A grant at time now in the window that began at start keeps the history    *)
(* well-formed if that window is not older than the last one, is not full,    *)
(* and is opened by this grant or was opened before.                          *)
LEMMA HistoryExtends ==
  ASSUME IInv, NEW k \in Keys, NEW start \in Nat,
         start <= now, now <= start + Window, now' = now,
         grants' = [grants EXCEPT ![k] = Append(@, [at |-> now, start |-> start])],
         \A i \in 1..Len(grants[k]) : grants[k][i].start <= start,
         \A i \in 1..Len(grants[k]) :
            i = Len(grants[k]) + 1 - Rate => start > grants[k][i].start + Window,
         \/ start = now
         \/ Len(grants[k]) >= 1 /\ grants[k][Len(grants[k])].start = start
  PROVE  /\ grants' \in [Keys -> Seq(Grant)]
         /\ HistoryInv(k)'
         /\ Len(grants'[k]) = Len(grants[k]) + 1
         /\ \A i \in 1..Len(grants[k]) : grants'[k][i] = grants[k][i]
         /\ grants'[k][Len(grants[k]) + 1] = [at |-> now, start |-> start]
         /\ \A j \in Keys \ {k} : grants'[j] = grants[j]
<1> DEFINE g == grants[k]
           n == Len(grants[k])
           r == [at |-> now, start |-> start]
<1> USE LimiterAssumption
<1>1. r \in Grant /\ g \in Seq(Grant) /\ n \in Nat /\ now \in Nat
  BY DEF IInv, TypeOK, Grant
<1>2. /\ grants' \in [Keys -> Seq(Grant)]
      /\ grants'[k] = Append(g, r)
      /\ \A j \in Keys \ {k} : grants'[j] = grants[j]
  BY <1>1, AppendGrant DEF IInv, TypeOK
<1>3. /\ Len(grants'[k]) = n + 1
      /\ \A i \in 1..n : grants'[k][i] = g[i]
      /\ grants'[k][n + 1] = r
  BY <1>1, <1>2, AppendGrant
<1>4. \A i \in 1..n : g[i].at \in Nat /\ g[i].start \in Nat
  <2>1. \A i \in 1..n : g[i] \in Grant
    BY <1>1
  <2> QED BY <2>1 DEF Grant
<1>5. r.at = now /\ r.start = start
  OBVIOUS
<1>6. /\ HistoryInv(k)
      /\ \A i \in 1..n : g[i].start <= start
      /\ \A i \in 1..n : i = n + 1 - Rate => start > g[i].start + Window
      /\ start = now \/ (n >= 1 /\ g[n].start = start)
  <2>1. HistoryInv(k)
    BY Zenon DEF IInv, KeyInv
  <2>2. \A i \in 1..n : g[i].start <= start
    OBVIOUS
  <2>3. \A i \in 1..n : i = n + 1 - Rate => start > g[i].start + Window
    OBVIOUS
  <2>4. start = now \/ (n >= 1 /\ g[n].start = start)
    OBVIOUS
  <2> QED BY <2>1, <2>2, <2>3, <2>4
<1>7. /\ \A i \in 1..n : /\ g[i].start <= g[i].at
                          /\ g[i].at <= g[i].start + Window
                          /\ g[i].at <= now
      /\ \A i, j \in 1..n : i <= j => g[i].start <= g[j].start /\ g[i].at <= g[j].at
      /\ \A i, j \in 1..n : j = i + Rate => g[j].start > g[i].start + Window
      /\ \A i \in 1..n : g[i].at = g[i].start \/ (i > 1 /\ g[i - 1].start = g[i].start)
  <2>1. InOwnWindow(k) /\ Ordered(k) /\ AtMostRatePerStart(k) /\ OpenedByGrant(k)
    BY <1>6 DEF HistoryInv
  <2>2. \A i \in 1..n : /\ g[i].start <= g[i].at
                        /\ g[i].at <= g[i].start + Window
                        /\ g[i].at <= now
    BY <2>1 DEF InOwnWindow
  <2>3. \A i, j \in 1..n : i <= j => g[i].start <= g[j].start /\ g[i].at <= g[j].at
    BY <2>1 DEF Ordered
  <2>4. \A i, j \in 1..n : j = i + Rate => g[j].start > g[i].start + Window
    BY <2>1 DEF AtMostRatePerStart
  <2>5. \A i \in 1..n : g[i].at = g[i].start \/ (i > 1 /\ g[i - 1].start = g[i].start)
    BY <2>1 DEF OpenedByGrant
  <2> QED BY <2>2, <2>3, <2>4, <2>5
<1> HIDE DEF g, n, r
<1>8. \A i \in 1..(n + 1) : i \in 1..n \/ i = n + 1
  BY <1>1
<1>9. InOwnWindow(k)'
  <2> SUFFICES ASSUME NEW i \in 1..(n + 1)
               PROVE  /\ grants'[k][i].start <= grants'[k][i].at
                      /\ grants'[k][i].at <= grants'[k][i].start + Window
                      /\ grants'[k][i].at <= now
    BY <1>3 DEF InOwnWindow
  <2>1. CASE i = n + 1
    BY <2>1, <1>1, <1>3, <1>5
  <2>2. CASE i \in 1..n
    BY <2>2, <1>3, <1>7
  <2> QED BY <1>8, <2>1, <2>2
<1>10. Ordered(k)'
  <2> SUFFICES ASSUME NEW i \in 1..(n + 1), NEW j \in 1..(n + 1), i <= j
               PROVE  /\ grants'[k][i].start <= grants'[k][j].start
                      /\ grants'[k][i].at <= grants'[k][j].at
    BY <1>3 DEF Ordered
  <2>1. CASE i \in 1..n /\ j = n + 1
    BY <2>1, <1>3, <1>4, <1>5, <1>6, <1>7
  <2>2. CASE i \in 1..n /\ j \in 1..n
    BY <2>2, <1>3, <1>7
  <2>3. CASE i = n + 1 /\ j = n + 1
    BY <2>3, <1>3, <1>5, <1>1
  <2>4. ~(i = n + 1 /\ j \in 1..n)
    BY <1>1
  <2> QED BY <1>8, <2>1, <2>2, <2>3, <2>4
<1>11. AtMostRatePerStart(k)'
  <2> SUFFICES ASSUME NEW i \in 1..(n + 1), NEW j \in 1..(n + 1), j = i + Rate
               PROVE  grants'[k][j].start > grants'[k][i].start + Window
    BY <1>3 DEF AtMostRatePerStart
  <2>1. i \in 1..n
    BY <1>1
  <2>2. CASE j = n + 1
    <3>1. i = n + 1 - Rate
      BY <1>1, <2>2
    <3> QED BY <2>1, <2>2, <3>1, <1>3, <1>5, <1>6
  <2>3. CASE j \in 1..n
    BY <2>1, <2>3, <1>3, <1>7
  <2> QED BY <1>8, <2>2, <2>3
<1>12. OpenedByGrant(k)'
  <2> SUFFICES ASSUME NEW i \in 1..(n + 1)
               PROVE  \/ grants'[k][i].at = grants'[k][i].start
                      \/ i > 1 /\ grants'[k][i - 1].start = grants'[k][i].start
    BY <1>3 DEF OpenedByGrant
  <2>1. CASE i = n + 1
    <3>1. CASE start = now
      BY <2>1, <3>1, <1>3, <1>5
    <3>2. CASE n >= 1 /\ g[n].start = start
      <4>1. n \in 1..n /\ i > 1 /\ i - 1 = n
        BY <1>1, <2>1, <3>2
      <4> QED BY <2>1, <3>2, <4>1, <1>3, <1>5
    <3> QED BY <3>1, <3>2, <1>6
  <2>2. CASE i \in 1..n
    <3>1. i > 1 => i - 1 \in 1..n
      BY <1>1, <2>2
    <3> QED BY <2>2, <3>1, <1>3, <1>7
  <2> QED BY <1>8, <2>1, <2>2
<1> QED BY <1>2, <1>3, <1>9, <1>10, <1>11, <1>12 DEF HistoryInv, r, g, n
-----------------------------------------------------------------------------
LEMMA AdvanceStep == IInv /\ Advance => IInv'
<1> SUFFICES ASSUME IInv, Advance PROVE IInv'
  OBVIOUS
<1> USE LimiterAssumption
<1>1. now' = now + 1 /\ now \in Nat /\ UNCHANGED <<limits, grants>>
  BY DEF Advance, IInv, TypeOK
<1>2. TypeOK'
  <2>1. now' \in 0..MaxTime
    BY DEF Advance, IInv, TypeOK
  <2>2. tick' \in BOOLEAN /\ nextTick' \in Nat
    <3>1. tick \in BOOLEAN /\ nextTick \in Nat /\ AdvanceTicker
      BY DEF Advance, IInv, TypeOK
    <3>2. CASE now' >= nextTick /\ ~done
      BY <3>1, <3>2 DEF AdvanceTicker
    <3>3. CASE ~(now' >= nextTick /\ ~done)
      BY <3>1, <3>3 DEF AdvanceTicker
    <3> QED BY <3>2, <3>3
  <2> QED BY <2>1, <2>2 DEF Advance, IInv, TypeOK
<1>3. ASSUME NEW k \in Keys PROVE KeyInv(k)'
  <2>1. grants[k] \in Seq(Grant) /\ limits[k] \in Bucket
    BY DEF IInv, TypeOK
  <2>2. \A i \in 1..Len(grants[k]) : grants[k][i].at \in Nat /\ grants[k][i].start \in Nat
    <3>1. \A i \in 1..Len(grants[k]) : grants[k][i] \in Grant
      BY <2>1
    <3> QED BY <3>1 DEF Grant
  <2>3. HistoryInv(k) /\ NoBucketInv(k) /\ BucketInv(k)
    BY DEF IInv, KeyInv
  <2>4. InOwnWindow(k)'
    BY <1>1, <2>2, <2>3 DEF HistoryInv, InOwnWindow
  <2>5. Ordered(k)' /\ AtMostRatePerStart(k)' /\ OpenedByGrant(k)'
    BY <1>1, <2>3 DEF HistoryInv, Ordered, AtMostRatePerStart, OpenedByGrant
  <2>6. NoBucketInv(k)'
    BY <1>1, <2>2, <2>3 DEF NoBucketInv
  <2>7. BucketInv(k)'
    BY <1>1, <2>1, <2>3 DEF BucketInv, Bucket
  <2> QED BY <2>4, <2>5, <2>6, <2>7 DEF KeyInv, HistoryInv
<1> QED BY <1>2, <1>3 DEF IInv

\* Keys other than the one asked for keep their invariant.
LEMMA OtherKeys ==
  ASSUME IInv, NEW k \in Keys, NEW j \in Keys \ {k}, now' = now,
         grants'[j] = grants[j], limits'[j] = limits[j]
  PROVE  KeyInv(j)'
<1>1. HistoryInv(j) /\ NoBucketInv(j) /\ BucketInv(j)
  BY DEF IInv, KeyInv
<1>2. HistoryInv(j)'
  BY <1>1 DEF HistoryInv, InOwnWindow, Ordered, AtMostRatePerStart, OpenedByGrant
<1>3. NoBucketInv(j)' /\ BucketInv(j)'
  BY <1>1 DEF NoBucketInv, BucketInv
<1> QED BY <1>2, <1>3 DEF KeyInv

LEMMA NewBucketStep ==
  ASSUME IInv, NEW k \in Keys, AllowNewBucket(k) PROVE IInv'
<1> USE LimiterAssumption
<1> DEFINE n == Len(grants[k])
           b == [count |-> 1, resetAt |-> now + Window]
<1>1. /\ now \in Nat /\ limits[k] \in Bucket /\ n \in Nat
      /\ \A i \in 1..n : grants[k][i].at \in Nat /\ grants[k][i].start \in Nat
  <2>1. grants[k] \in Seq(Grant)
    BY DEF IInv, TypeOK
  <2>2. \A i \in 1..n : grants[k][i] \in Grant
    BY <2>1
  <2> QED BY <2>1, <2>2 DEF IInv, TypeOK, Grant
<1>2. \A i \in 1..n : now > grants[k][i].start + Window
  <2>1. CASE limits[k] = NoBucket
    BY <2>1 DEF IInv, KeyInv, NoBucketInv
  <2>2. CASE limits[k] # NoBucket
    <3>1. now > limits[k].resetAt
      BY <2>2 DEF AllowNewBucket, NeedsNewBucket, Expired
    <3>2. BucketInv(k)
      BY DEF IInv, KeyInv
    <3>3. limits[k].resetAt \in Nat
      BY <1>1 DEF Bucket
    <3>4. ASSUME NEW i \in 1..n PROVE grants[k][i].start + Window <= limits[k].resetAt
      <4>1. \/ grants[k][i].start + Window = limits[k].resetAt
            \/ grants[k][i].start + Window < limits[k].resetAt - Window
        BY <2>2, <3>2 DEF BucketInv
      <4> QED BY <4>1, <3>3, <1>1
    <3> QED BY <1>1, <3>1, <3>3, <3>4
  <2> QED BY <2>1, <2>2
<1>3. /\ grants' \in [Keys -> Seq(Grant)]
      /\ HistoryInv(k)'
      /\ Len(grants'[k]) = n + 1
      /\ \A i \in 1..n : grants'[k][i] = grants[k][i]
      /\ grants'[k][n + 1] = [at |-> now, start |-> now]
      /\ \A j \in Keys \ {k} : grants'[j] = grants[j]
  <2>1. \A i \in 1..n : grants[k][i].start <= now
    BY <1>1, <1>2
  <2>2. now <= now + Window /\ now <= now
    BY <1>1
  <2>3. now' = now /\ grants' = [grants EXCEPT ![k] = Append(@, [at |-> now, start |-> now])]
    BY DEF AllowNewBucket, RecordGrant
  <2> QED BY <1>1, <1>2, <2>1, <2>2, <2>3, HistoryExtends
<1>4. limits' = [limits EXCEPT ![k] = b] /\ limits \in [Keys -> Bucket] /\ now' = now
  BY DEF AllowNewBucket, IInv, TypeOK
<1>5. b \in Bucket /\ b.count = 1 /\ b.resetAt = now + Window /\ b # NoBucket /\ b.count <= Rate
  BY <1>1 DEF Bucket, NoBucket
<1> HIDE DEF b, n
<1>6. limits' \in [Keys -> Bucket] /\ limits'[k] = b /\ \A j \in Keys \ {k} : limits'[j] = limits[j]
  BY <1>4, <1>5
<1>7. TypeOK'
  BY <1>3, <1>5, <1>6 DEF AllowNewBucket, IInv, TypeOK
<1>8. NoBucketInv(k)'
  BY <1>5, <1>6 DEF NoBucketInv
<1>9. BucketInv(k)'
  <2> SUFFICES /\ 1 >= 1 /\ 1 <= n + 1
               /\ now + Window >= Window /\ (now + Window) - Window <= now
               /\ \A i \in 1..(n + 1) :
                    IF i > (n + 1) - 1
                      THEN grants'[k][i].start + Window = now + Window
                      ELSE grants'[k][i].start + Window < (now + Window) - Window
    BY <1>3, <1>4, <1>5, <1>6 DEF BucketInv
  <2>1. ASSUME NEW i \in 1..n
        PROVE  /\ ~(i > (n + 1) - 1)
               /\ grants'[k][i].start + Window < (now + Window) - Window
    <3>1. ~(i > (n + 1) - 1)
      BY <1>1
    <3>2. grants[k][i].start + Window < now /\ grants[k][i].start \in Nat
      BY <1>1, <1>2
    <3> QED BY <3>1, <3>2, <1>1, <1>3
  <2>2. grants'[k][n + 1].start + Window = now + Window /\ n + 1 > (n + 1) - 1
    BY <1>1, <1>3
  <2>3. \A i \in 1..(n + 1) : i \in 1..n \/ i = n + 1
    BY <1>1
  <2>4. 1 <= n + 1 /\ now + Window >= Window /\ (now + Window) - Window <= now
    BY <1>1
  <2> QED BY <2>1, <2>2, <2>3, <2>4
<1>10. ASSUME NEW j \in Keys, j # k PROVE KeyInv(j)'
  BY <1>3, <1>4, <1>6, <1>10, OtherKeys
<1> QED BY <1>3, <1>7, <1>8, <1>9, <1>10 DEF IInv, KeyInv

LEMMA CountedStep ==
  ASSUME IInv, NEW k \in Keys, AllowCounted(k) PROVE IInv'
<1> USE LimiterAssumption
<1> DEFINE n == Len(grants[k])
           c == limits[k].count
           t == limits[k].resetAt
           b == [limits[k] EXCEPT !.count = @ + 1]
           start == t - Window
<1>1. /\ now \in Nat /\ c \in Nat /\ t \in Nat /\ n \in Nat
      /\ \A i \in 1..n : grants[k][i].at \in Nat /\ grants[k][i].start \in Nat
  <2>1. grants[k] \in Seq(Grant) /\ limits[k] \in Bucket
    BY DEF IInv, TypeOK
  <2>2. \A i \in 1..n : grants[k][i] \in Grant
    BY <2>1
  <2> QED BY <2>1, <2>2 DEF IInv, TypeOK, Grant, Bucket
<1>2. limits[k] # NoBucket /\ ~(now > t) /\ c < Rate
  BY DEF AllowCounted, NeedsNewBucket, Expired, BelowRate
<1>3. /\ c >= 1 /\ c <= n /\ t >= Window /\ start <= now
      /\ \A i \in 1..n : IF i > n - c THEN grants[k][i].start + Window = t
                                      ELSE grants[k][i].start + Window < start
  BY <1>2 DEF IInv, KeyInv, BucketInv
<1>4. now' = now /\ grants' = [grants EXCEPT ![k] = Append(@, [at |-> now, start |-> start])]
  BY DEF AllowCounted, RecordGrant
<1>5. /\ limits' = [limits EXCEPT ![k] = b] /\ limits \in [Keys -> Bucket]
      /\ b \in Bucket /\ b.count = c + 1 /\ b.resetAt = t
  <2>1. limits[k] \in Bucket /\ limits \in [Keys -> Bucket]
    BY DEF IInv, TypeOK
  <2>2. b \in Bucket /\ b.count = c + 1 /\ b.resetAt = t
    BY <2>1, <1>1 DEF Bucket
  <2>3. limits' = [limits EXCEPT ![k] = b]
    BY DEF AllowCounted
  <2> QED BY <2>1, <2>2, <2>3
<1> HIDE DEF n, c, t, b
<1>6. start \in Nat /\ now <= start + Window
  BY <1>1, <1>2, <1>3
<1>7. \A i \in 1..n : grants[k][i].start <= start
  BY <1>1, <1>3
<1>8. ASSUME NEW i \in 1..n, i = n + 1 - Rate PROVE start > grants[k][i].start + Window
  <2>1. ~(i > n - c)
    BY <1>1, <1>2, <1>8
  <2> QED BY <2>1, <1>1, <1>3
<1>9. n >= 1 /\ grants[k][n].start = start
  <2>1. n >= 1 /\ n \in 1..n /\ n > n - c
    BY <1>1, <1>3
  <2> QED BY <2>1, <1>1, <1>3
<1> HIDE DEF start
<1>10. /\ grants' \in [Keys -> Seq(Grant)]
       /\ HistoryInv(k)'
       /\ Len(grants'[k]) = n + 1
       /\ \A i \in 1..n : grants'[k][i] = grants[k][i]
       /\ grants'[k][n + 1] = [at |-> now, start |-> start]
       /\ \A j \in Keys \ {k} : grants'[j] = grants[j]
  <2>1. start <= now
    BY <1>3
  <2>2. start = now \/ (n >= 1 /\ grants[k][n].start = start)
    BY <1>9
  <2>3. \A i \in 1..n : i = n + 1 - Rate => start > grants[k][i].start + Window
    BY <1>8
  <2> QED BY <1>4, <1>6, <1>7, <2>1, <2>2, <2>3, HistoryExtends DEF n
<1>11. limits' \in [Keys -> Bucket] /\ limits'[k] = b /\ \A j \in Keys \ {k} : limits'[j] = limits[j]
  BY <1>5
<1>12. c + 1 <= Rate
  BY <1>1, <1>2
<1>13. TypeOK'
  BY <1>5, <1>10, <1>11, <1>12 DEF AllowCounted, IInv, TypeOK
<1>14. b # NoBucket
  BY <1>1, <1>3, <1>5 DEF NoBucket
<1>15. NoBucketInv(k)'
  BY <1>11, <1>14 DEF NoBucketInv
<1>16. BucketInv(k)'
  <2> SUFFICES /\ c + 1 >= 1 /\ c + 1 <= n + 1
               /\ t >= Window /\ t - Window <= now
               /\ \A i \in 1..(n + 1) :
                    IF i > (n + 1) - (c + 1)
                      THEN grants'[k][i].start + Window = t
                      ELSE grants'[k][i].start + Window < t - Window
    BY <1>4, <1>5, <1>10, <1>11 DEF BucketInv
  <2>1. \A i \in 1..(n + 1) : i \in 1..n \/ i = n + 1
    BY <1>1
  <2>2. \A i \in 1..n : i > (n + 1) - (c + 1) <=> i > n - c
    BY <1>1
  <2>3. grants'[k][n + 1].start = start /\ start + Window = t /\ n + 1 > (n + 1) - (c + 1)
    BY <1>1, <1>3, <1>10 DEF start
  <2>4. c + 1 >= 1 /\ c + 1 <= n + 1
    BY <1>1, <1>3
  <2>5. ASSUME NEW i \in 1..n
        PROVE  IF i > (n + 1) - (c + 1) THEN grants'[k][i].start + Window = t
                                        ELSE grants'[k][i].start + Window < t - Window
    <3>1. IF i > n - c THEN grants[k][i].start + Window = t
                       ELSE grants[k][i].start + Window < t - Window
      BY <1>3 DEF start
    <3> QED BY <3>1, <2>2, <1>10
  <2> QED BY <1>3, <2>1, <2>3, <2>4, <2>5 DEF start
<1>17. ASSUME NEW j \in Keys, j # k PROVE KeyInv(j)'
  BY <1>4, <1>10, <1>11, <1>17, OtherKeys
<1> QED BY <1>10, <1>13, <1>15, <1>16, <1>17 DEF IInv, KeyInv

LEMMA CleanupStep == IInv /\ Cleanup => IInv'
<1> SUFFICES ASSUME IInv, Cleanup PROVE IInv'
  OBVIOUS
<1> USE LimiterAssumption
<1>1. /\ UNCHANGED <<now, nextTick, done, cleaner, grants, denials>> /\ tick' = FALSE
      /\ limits' = [k \in Keys |-> IF Expired(limits[k]) THEN NoBucket ELSE limits[k]]
  BY DEF Cleanup
<1>2. NoBucket \in Bucket /\ NoBucket.count <= Rate
  BY DEF NoBucket, Bucket
<1>3. TypeOK'
  <2>1. limits' \in [Keys -> Bucket] /\ \A k \in Keys : limits'[k].count <= Rate
    BY <1>1, <1>2 DEF IInv, TypeOK
  <2> QED BY <1>1, <2>1 DEF IInv, TypeOK
<1>4. ASSUME NEW k \in Keys PROVE KeyInv(k)'
  <2>1. HistoryInv(k) /\ NoBucketInv(k) /\ BucketInv(k)
    BY DEF IInv, KeyInv
  <2>2. HistoryInv(k)'
    BY <1>1, <2>1 DEF HistoryInv, InOwnWindow, Ordered, AtMostRatePerStart, OpenedByGrant
  <2>3. CASE limits'[k] = limits[k]
    BY <1>1, <2>1, <2>2, <2>3 DEF KeyInv, NoBucketInv, BucketInv
  <2>4. CASE limits'[k] # limits[k]
    <3>1. limits'[k] = NoBucket /\ limits[k] # NoBucket /\ now > limits[k].resetAt
      BY <1>1, <2>4 DEF Expired
    <3>2. /\ now \in Nat /\ limits[k].count \in Nat /\ limits[k].resetAt \in Nat
          /\ \A i \in 1..Len(grants[k]) : grants[k][i].start \in Nat
      <4>1. grants[k] \in Seq(Grant) /\ limits[k] \in Bucket /\ now \in Nat
        BY DEF IInv, TypeOK
      <4>2. \A i \in 1..Len(grants[k]) : grants[k][i] \in Grant
        BY <4>1
      <4> QED BY <4>1, <4>2 DEF Grant, Bucket
    <3>3. \A i \in 1..Len(grants[k]) : now > grants[k][i].start + Window
      BY <2>1, <3>1, <3>2, SMTT(30) DEF BucketInv
    <3>4. NoBucketInv(k)' /\ BucketInv(k)'
      BY <1>1, <3>1, <3>3 DEF NoBucketInv, BucketInv
    <3> QED BY <2>2, <3>4 DEF KeyInv
  <2> QED BY <2>3, <2>4
<1> QED BY <1>3, <1>4 DEF IInv

LEMMA IdleStep ==
  ASSUME IInv, UNCHANGED <<now, limits, nextTick, tick, grants>>,
         done' \in BOOLEAN, cleaner' \in {"running", "exited"},
         denials' \in [Keys -> SUBSET Nat]
  PROVE  IInv'
<1>1. TypeOK'
  BY DEF IInv, TypeOK
<1>2. ASSUME NEW k \in Keys PROVE KeyInv(k)'
  <2>1. HistoryInv(k) /\ NoBucketInv(k) /\ BucketInv(k)
    BY DEF IInv, KeyInv
  <2>2. HistoryInv(k)'
    BY <2>1 DEF HistoryInv, InOwnWindow, Ordered, AtMostRatePerStart, OpenedByGrant
  <2>3. NoBucketInv(k)' /\ BucketInv(k)'
    BY <2>1 DEF NoBucketInv, BucketInv
  <2> QED BY <2>2, <2>3 DEF KeyInv
<1> QED BY <1>1, <1>2 DEF IInv

LEMMA IInvStep == IInv /\ [Next]_vars => IInv'
<1> SUFFICES ASSUME IInv, [Next]_vars PROVE IInv'
  OBVIOUS
<1>1. ASSUME NEW k \in Keys, Deny(k) PROVE IInv'
  <2>1. denials' \in [Keys -> SUBSET Nat]
    BY <1>1, LimiterAssumption DEF Deny, IInv, TypeOK
  <2> QED BY <1>1, <2>1, IdleStep DEF Deny, IInv, TypeOK
<1>2. CASE CleanerExit
  BY <1>2, IdleStep DEF CleanerExit, IInv, TypeOK
<1>3. CASE Stop
  BY <1>3, IdleStep DEF Stop, IInv, TypeOK
<1>4. CASE UNCHANGED vars
  BY <1>4, IdleStep DEF vars, IInv, TypeOK
<1> QED
  BY <1>1, <1>2, <1>3, <1>4, AdvanceStep, NewBucketStep, CountedStep, CleanupStep
  DEF Next, Allow

LEMMA IInvariant == Spec => []IInv
  BY IInvInit, IInvStep, PTL DEF Spec

\* The limiter's state stays in its types, and no bucket counts past the rate.
THEOREM LimiterTypes == Spec => []TypeOK
<1>1. IInv => TypeOK
  BY DEF IInv
<1> QED BY <1>1, IInvariant, PTL
-----------------------------------------------------------------------------
LEMMA GrantTimes ==
  ASSUME IInv, NEW k \in Keys
  PROVE  /\ Len(grants[k]) \in Nat
         /\ \A i \in 1..Len(grants[k]) :
              grants[k][i].at \in Nat /\ grants[k][i].start \in Nat
<1>1. grants[k] \in Seq(Grant)
  BY DEF IInv, TypeOK
<1>2. \A i \in 1..Len(grants[k]) : grants[k][i] \in Grant
  BY <1>1
<1> QED BY <1>1, <1>2 DEF Grant

LEMMA WindowsApart == IInv => SlidingBound
<1> SUFFICES ASSUME IInv, NEW k \in Keys,
                    NEW i \in 1..Len(grants[k]), NEW j \in 1..Len(grants[k]),
                    j = i + 2 * Rate - 1
             PROVE  grants[k][j].at > grants[k][i].at + Window
  BY DEF SlidingBound
<1> USE LimiterAssumption
<1> DEFINE g == grants[k]
           n == Len(grants[k])
<1>1. /\ n \in Nat
      /\ \A m \in 1..n : g[m].at \in Nat /\ g[m].start \in Nat
  BY GrantTimes
<1>2. InOwnWindow(k) /\ Ordered(k) /\ AtMostRatePerStart(k) /\ OpenedByGrant(k)
  BY DEF IInv, KeyInv, HistoryInv
<1>3. \A l, m \in 1..n : m = l + Rate => g[m].start > g[l].start + Window
  BY <1>2 DEF AtMostRatePerStart
<1>4. \A l, m \in 1..n : l <= m => g[l].start <= g[m].start
  BY <1>2 DEF Ordered
<1>5. g[i].at <= g[i].start + Window /\ g[j].start <= g[j].at
  BY <1>2 DEF InOwnWindow
<1>6. g[i].at = g[i].start \/ (i > 1 /\ g[i - 1].start = g[i].start)
  BY <1>2 DEF OpenedByGrant
<1>7. i \in 1..n /\ j \in 1..n
  OBVIOUS
<1> HIDE DEF g, n
<1>8. CASE g[i].at = g[i].start
  <2>1. i + Rate \in 1..n /\ i + Rate <= j
    BY <1>1, <1>7
  <2>2. g[i + Rate].start > g[i].start + Window /\ g[i + Rate].start <= g[j].start
    BY <1>3, <1>4, <1>7, <2>1
  <2>3. g[j].at > g[i].at + Window
    <3>1. /\ g[i].at = g[i].start /\ g[j].start <= g[j].at
          /\ g[i + Rate].start > g[i].start + Window /\ g[i + Rate].start <= g[j].start
      BY <1>5, <1>8, <2>2
    <3>2. /\ g[i].at \in Nat /\ g[i].start \in Nat /\ g[j].at \in Nat /\ g[j].start \in Nat
          /\ g[i + Rate].start \in Nat
      BY <1>1, <1>7, <2>1, Zenon
    <3>3. \A s, t, u, v \in Nat : t > s + Window /\ t <= u /\ u <= v => v > s + Window
      OBVIOUS
    <3> QED BY <3>1, <3>2, <3>3, Zenon
  <2> QED BY <2>3 DEF g
<1>9. CASE i > 1 /\ g[i - 1].start = g[i].start
  <2> DEFINE p == (i - 1) + Rate
  <2>1. i - 1 \in 1..n /\ p \in 1..n /\ j = p + Rate
    BY <1>1, <1>7, <1>9
  <2>2. g[p].start > g[i - 1].start + Window /\ g[j].start > g[p].start + Window
    BY <1>3, <1>7, <2>1
  <2> HIDE DEF p
  <2>3. /\ g[i].at \in Nat /\ g[i].start \in Nat /\ g[p].start \in Nat
        /\ g[j].start \in Nat /\ g[j].at \in Nat
    BY <1>1, <1>7, <2>1
  <2>4. g[p].start > g[i].start + Window
    BY <1>9, <2>2
  <2>5. ASSUME NEW ai \in Nat, NEW si \in Nat, NEW sp \in Nat, NEW sj \in Nat,
               NEW aj \in Nat, ai <= si + Window, sp > si + Window,
               sj > sp + Window, sj <= aj
        PROVE  aj > ai + Window
    BY <2>5
  <2>6. g[j].start > g[p].start + Window
    BY <2>2
  <2>7. g[j].at > g[i].at + Window
    BY <1>5, <2>3, <2>4, <2>5, <2>6
  <2> QED BY <2>7 DEF g
<1> QED BY <1>6, <1>8, <1>9

\* Whatever the schedule of requests and cleanup passes, 2 * Rate successive
\* grants to a key take more than one window (limiter.go:39-61 and 69-85).
THEOREM LimiterSlidingBound == Spec => []SlidingBound
BY WindowsApart, IInvariant, PTL
-----------------------------------------------------------------------------
\* A step only appends to the history of grants.
LEMMA GrantsOnlyGrow ==
  ASSUME IInv, [Next]_vars, NEW k \in Keys
  PROVE  /\ Len(grants[k]) <= Len(grants'[k])
         /\ \A i \in 1..Len(grants[k]) : grants'[k][i] = grants[k][i]
<1>1. /\ grants \in [Keys -> Seq(Grant)] /\ grants' \in [Keys -> Seq(Grant)]
  BY IInvStep DEF IInv, TypeOK
<1>2. CASE UNCHANGED grants
  BY <1>1, <1>2
<1>3. ASSUME NEW j \in Keys, NEW s, RecordGrant(j, s)
      PROVE  /\ Len(grants[k]) <= Len(grants'[k])
             /\ \A i \in 1..Len(grants[k]) : grants'[k][i] = grants[k][i]
  <2>1. CASE j # k
    BY <1>1, <1>3, <2>1 DEF RecordGrant
  <2>2. CASE j = k
    <3>1. grants'[k] = Append(grants[k], [at |-> now, start |-> s])
      BY <1>1, <1>3, <2>2 DEF RecordGrant
    <3>2. /\ grants[k] \in Seq(Grant) /\ Len(grants[k]) \in Nat
          /\ Len(grants'[k]) = Len(grants[k]) + 1
          /\ \A i \in 1..Len(grants[k]) : grants'[k][i] = grants[k][i]
      BY <1>1, <3>1
    <3> QED BY <3>2
  <2> QED BY <2>1, <2>2
<1> QED
  BY <1>2, <1>3 DEF Next, Advance, Allow, AllowNewBucket, AllowCounted, Deny, Cleanup,
                   CleanerExit, Stop, vars

LEMMA DenialStep == IInv /\ DenialJustified /\ [Next]_vars => DenialJustified'
<1> DEFINE Justified(k, t) == \E i, j \in 1..Len(grants[k]) :
                                 /\ j = i + Rate - 1
                                 /\ grants[k][j].at <= t /\ t <= grants[k][i].at + Window
<1> SUFFICES ASSUME IInv, DenialJustified, [Next]_vars,
                    NEW k \in Keys, NEW t \in denials'[k]
             PROVE  Justified(k, t)'
  BY DEF DenialJustified
<1> USE LimiterAssumption
<1>1. CASE t \in denials[k]
  <2>1. PICK i \in 1..Len(grants[k]), j \in 1..Len(grants[k]) :
           /\ j = i + Rate - 1
           /\ grants[k][j].at <= t /\ t <= grants[k][i].at + Window
    BY <1>1 DEF DenialJustified
  <2>2. /\ Len(grants[k]) <= Len(grants'[k])
        /\ \A m \in 1..Len(grants[k]) : grants'[k][m] = grants[k][m]
    BY GrantsOnlyGrow
  <2>3. Len(grants[k]) \in Nat /\ Len(grants'[k]) \in Nat
    BY IInvStep, GrantTimes DEF IInv, TypeOK
  <2>4. i \in 1..Len(grants'[k]) /\ j \in 1..Len(grants'[k])
    BY <2>2, <2>3
  <2> QED BY <2>1, <2>2, <2>4
<1>2. CASE t \notin denials[k]
  <2>1. Deny(k) /\ t = now
    <3>1. PICK l \in Keys : Deny(l)
      BY <1>2 DEF Next, vars, Advance, Allow, AllowNewBucket, AllowCounted, Cleanup,
                  CleanerExit, Stop
    <3> QED BY <3>1, <1>2 DEF Deny, IInv, TypeOK
  <2> DEFINE n == Len(grants[k])
             i == n - Rate + 1
  <2>2. /\ n \in Nat
        /\ \A m \in 1..n : grants[k][m].at \in Nat /\ grants[k][m].start \in Nat
    BY GrantTimes
  <2>3. now \in Nat /\ limits[k].count \in Nat /\ limits[k].resetAt \in Nat
    BY DEF IInv, TypeOK, Bucket
  <2>4. limits[k] # NoBucket /\ now <= limits[k].resetAt /\ limits[k].count >= Rate
    BY <2>1, <2>3 DEF Deny, NeedsNewBucket, Expired, BelowRate
  <2>5. limits[k].count <= Rate
    BY DEF IInv, TypeOK
  <2>6. limits[k].count = Rate /\ Rate <= n
    BY <2>3, <2>4, <2>5 DEF IInv, KeyInv, BucketInv
  <2>7. \A m \in 1..n : m > n - Rate => grants[k][m].start + Window = limits[k].resetAt
    BY <2>4, <2>6 DEF IInv, KeyInv, BucketInv
  <2>8. \A m \in 1..n : /\ grants[k][m].start <= grants[k][m].at
                        /\ grants[k][m].at <= now
    BY DEF IInv, KeyInv, HistoryInv, InOwnWindow
  <2>9. UNCHANGED grants
    BY <2>1 DEF Deny
  <2> HIDE DEF n
  <2>10. i \in 1..n /\ n \in 1..n /\ i > n - Rate /\ n = i + Rate - 1
    BY <2>2, <2>6
  <2> HIDE DEF i
  <2>11. grants[k][n].at <= t /\ t <= grants[k][i].at + Window
    BY <2>1, <2>2, <2>3, <2>4, <2>7, <2>8, <2>10
  <2> QED BY <2>9, <2>10, <2>11 DEF n
<1> QED BY <1>1, <1>2

\* A request is turned away only after Rate grants to its key within the window
\* that ends with it: cleanup and the renewal of windows never cost a grant.
THEOREM LimiterDenialJustified == Spec => []DenialJustified
<1>1. Init => DenialJustified
  BY DEF Init, DenialJustified
<1> QED BY <1>1, DenialStep, IInvariant, PTL DEF Spec
-----------------------------------------------------------------------------
(* The server. *)

allVars == <<admissionVars, vars>>
Repos == {LowerCase(k) : k \in Keys}
Serving(k) == {h \in Handlers : handler[h] = k}

\* Each step of the server is one of the limiter, or none.
LEMMA StepRefines == [AdmissionNext]_allVars => [Next]_vars
<1> SUFFICES ASSUME [AdmissionNext]_allVars PROVE [Next]_vars
  OBVIOUS
<1>1. CASE Load
  BY <1>1 DEF Load
<1>2. ASSUME NEW q \in Requests, RefuseRequest(q) PROVE [Next]_vars
  BY <1>2, AdmissionAssumption DEF RefuseRequest, Next, Allow
<1>3. ASSUME NEW q \in Requests, NEW h \in Handlers, CountRequest(h, q) PROVE [Next]_vars
  BY <1>3, AdmissionAssumption DEF CountRequest, Next, Allow
<1>4. ASSUME NEW h \in Handlers, NEW p \in Payloads, AcceptJob(h, p) \/ RejectPayload(h, p)
      PROVE [Next]_vars
  BY <1>4 DEF AcceptJob, RejectPayload
<1>5. CASE LimiterAdvance \/ LimiterCleanup \/ LimiterStop
  BY <1>5 DEF LimiterAdvance, LimiterCleanup, LimiterStop, Next
<1>6. CASE UNCHANGED allVars
  BY <1>6 DEF allVars
<1> QED BY <1>1, <1>2, <1>3, <1>4, <1>5, <1>6 DEF AdmissionNext

\* The server implements its limiter.
THEOREM LimiterImplemented == AdmissionSpec => Init /\ [][Next]_vars
<1>1. AdmissionInit => Init
  BY DEF AdmissionInit
<1> QED BY <1>1, StepRefines, PTL DEF AdmissionSpec, allVars

LEMMA LimiterInvariant == AdmissionSpec => []IInv
BY LimiterImplemented, IInvInit, IInvStep, PTL

\* In the server, too, no window of time holds 2 * Rate grants to a repository.
THEOREM ServedSlidingBound == AdmissionSpec => []SlidingBound
BY LimiterInvariant, WindowsApart, PTL

\* In the server, too, a repository is denied only after Rate grants in a window.
THEOREM ServedDenialJustified == AdmissionSpec => []DenialJustified
<1>1. Init => DenialJustified
  BY DEF Init, DenialJustified
<1> QED BY <1>1, DenialStep, LimiterInvariant, LimiterImplemented, PTL
-----------------------------------------------------------------------------
\* Before it serves, the process has no handler at work and no job.
NothingYet ==
  server # "serving" =>
    /\ \A h \in Handlers : handler[h] = Idle
    /\ \A r \in Repos : jobs[r] = 0

OwnTypes ==
  /\ env \in Envs /\ server \in {"loading", "serving", "failed"}
  /\ server = "serving" => Loads(env)
  /\ handler \in [Handlers -> Keys \cup {Idle}]
  /\ jobs \in [Repos -> Nat]

AInv == OwnTypes /\ NothingYet /\ JobsArePaid

LEMMA AInvInit == AdmissionInit => AInv
<1> SUFFICES ASSUME AdmissionInit PROVE AInv
  OBVIOUS
<1>1. OwnTypes
  BY DEF AdmissionInit, OwnTypes, Repos
<1>2. NothingYet
  BY DEF AdmissionInit, NothingYet, Repos
<1>3. JobsArePaid
  BY DEF AdmissionInit, JobsArePaid, LimiterRuns
<1> QED BY <1>1, <1>2, <1>3 DEF AInv

LEMMA ServingFinite ==
  ASSUME NEW k
  PROVE  IsFiniteSet(Serving(k)) /\ Cardinality(Serving(k)) \in Nat
BY AdmissionAssumption, FS_Subset, FS_CardinalityType DEF Serving

\* A handler that turns to a repository, or away from it, is one more or one less.
LEMMA Turns ==
  ASSUME OwnTypes, NEW h \in Handlers, NEW r, handler' = [handler EXCEPT ![h] = r], NEW k \in Keys
  PROVE  /\ r = k /\ handler[h] # k => Cardinality(Serving(k)') = Cardinality(Serving(k)) + 1
         /\ r # k /\ handler[h] = k => Cardinality(Serving(k)') = Cardinality(Serving(k)) - 1
         /\ r # k /\ handler[h] # k => Cardinality(Serving(k)') = Cardinality(Serving(k))
<1>0. /\ handler'[h] = r /\ \A g \in Handlers \ {h} : handler'[g] = handler[g]
      /\ IsFiniteSet(Serving(k)) /\ Cardinality(Serving(k)) \in Nat
  BY ServingFinite DEF OwnTypes
<1>1. CASE r = k
  <2>1. Serving(k)' = Serving(k) \cup {h}
    BY <1>0, <1>1 DEF Serving
  <2>2. h \in Serving(k) <=> handler[h] = k
    BY DEF Serving
  <2> QED BY <1>0, <1>1, <2>1, <2>2, FS_AddElement
<1>2. CASE r # k
  <2>1. Serving(k)' = Serving(k) \ {h}
    BY <1>0, <1>2 DEF Serving
  <2>2. h \in Serving(k) <=> handler[h] = k
    BY DEF Serving
  <2> QED BY <1>0, <1>2, <2>1, <2>2, FS_RemoveElement
<1> QED BY <1>1, <1>2

\* JobsArePaid, with the set of handlers named.
Paid(k) == jobs[LowerCase(k)] + Cardinality(Serving(k)) <= Len(grants[k])

LEMMA PaidOf == JobsArePaid <=> (LimiterRuns => \A k \in Keys : Paid(k))
BY DEF JobsArePaid, Paid, Serving

LEMMA Counts ==
  ASSUME IInv, OwnTypes, NEW k \in Keys
  PROVE  /\ jobs[LowerCase(k)] \in Nat /\ LowerCase(k) \in Repos
         /\ Cardinality(Serving(k)) \in Nat
         /\ Len(grants[k]) \in Nat
<1>1. LowerCase(k) \in Repos
  BY DEF Repos
<1> QED BY <1>1, ServingFinite, GrantTimes DEF OwnTypes

LEMMA CountStep ==
  ASSUME IInv, AInv, NEW q \in Requests, NEW h \in Handlers, CountRequest(h, q)
  PROVE  AInv'
<1>0. /\ q.repo \in Keys /\ handler[h] = Idle /\ Idle \notin Keys /\ server = "serving"
      /\ handler' = [handler EXCEPT ![h] = q.repo] /\ UNCHANGED <<env, server, jobs>>
  BY AdmissionAssumption DEF CountRequest
<1>1. OwnTypes'
  BY <1>0 DEF AInv, OwnTypes
<1>2. NothingYet'
  BY <1>0 DEF NothingYet
<1>3. JobsArePaid'
  <2> SUFFICES ASSUME LimiterRuns', NEW k \in Keys PROVE Paid(k)'
    BY PaidOf DEF JobsArePaid, Paid, Serving
  <2>1. Limited /\ Paid(k)
    BY <1>0, PaidOf DEF AInv, LimiterRuns, Limited
  <2>2. PICK start : RecordGrant(q.repo, start)
    BY <2>1 DEF CountRequest, AllowNewBucket, AllowCounted
  <2>3. grants \in [Keys -> Seq(Grant)]
    BY DEF IInv, TypeOK
  <2>4. CASE k = q.repo
    <3>1. Cardinality(Serving(k)') = Cardinality(Serving(k)) + 1
      <4>1. OwnTypes /\ handler[h] # k
        BY <1>0 DEF AInv
      <4> QED BY <4>1, <1>0, <2>4, Turns
    <3>2. grants'[k] = Append(grants[k], [at |-> now, start |-> start])
      BY <2>2, <2>3, <2>4 DEF RecordGrant
    <3>3. Len(grants'[k]) = Len(grants[k]) + 1
      BY <3>2, <2>3
    <3> QED BY <2>1, <3>1, <3>3, <1>0, Counts DEF AInv, Paid
  <2>5. CASE k # q.repo
    <3>1. Cardinality(Serving(k)') = Cardinality(Serving(k))
      <4>1. OwnTypes /\ handler[h] # k
        BY <1>0 DEF AInv
      <4> QED BY <4>1, <1>0, <2>5, Turns
    <3>2. grants'[k] = grants[k]
      BY <2>2, <2>3, <2>5 DEF RecordGrant
    <3> QED BY <2>1, <3>1, <3>2, <1>0 DEF Paid
  <2> QED BY <2>4, <2>5
<1> QED BY <1>1, <1>2, <1>3 DEF AInv

LEMMA AnswerStep ==
  ASSUME IInv, AInv, NEW h \in Handlers, NEW p \in Payloads, AcceptJob(h, p) \/ RejectPayload(h, p)
  PROVE  AInv'
<1> DEFINE r == handler[h]
<1>0. /\ r \in Keys /\ handler' = [handler EXCEPT ![h] = Idle] /\ UNCHANGED <<env, server, vars>>
      /\ Idle \notin Keys /\ server = "serving"
  BY AdmissionAssumption DEF AcceptJob, RejectPayload, AInv, OwnTypes, NothingYet
<1>1. /\ LowerCase(r) \in Repos
      /\ \/ jobs' = [jobs EXCEPT ![LowerCase(r)] = @ + 1]
         \/ jobs' = jobs
  BY <1>0 DEF AcceptJob, RejectPayload, Accepts, Repos
<1>2. OwnTypes'
  <2>1. jobs \in [Repos -> Nat] /\ jobs[LowerCase(r)] \in Nat
    BY <1>1 DEF AInv, OwnTypes
  <2>2. jobs' \in [Repos -> Nat]
    BY <1>1, <2>1
  <2> QED BY <1>0, <2>2 DEF AInv, OwnTypes
<1>3. NothingYet'
  BY <1>0 DEF NothingYet
<1>4. JobsArePaid'
  <2> SUFFICES ASSUME LimiterRuns', NEW k \in Keys PROVE Paid(k)'
    BY PaidOf DEF JobsArePaid, Paid, Serving
  <2>1. Paid(k) /\ grants' = grants
    BY <1>0, PaidOf DEF AInv, LimiterRuns, Limited, vars
  <2>2. /\ k = r => Cardinality(Serving(k)') = Cardinality(Serving(k)) - 1
        /\ k # r => Cardinality(Serving(k)') = Cardinality(Serving(k))
    <3>1. OwnTypes /\ Idle # k
      BY <1>0 DEF AInv
    <3> QED BY <3>1, <1>0, Turns
  <2>3. jobs \in [Repos -> Nat] /\ LowerCase(k) \in Repos
    BY Counts DEF AInv, OwnTypes
  <2>4. CASE k = r
    <3>1. jobs'[LowerCase(k)] \in {jobs[LowerCase(k)], jobs[LowerCase(k)] + 1}
      BY <1>1, <2>3, <2>4
    <3> QED BY <2>1, <2>2, <2>4, <3>1, Counts DEF AInv, Paid
  <2>5. CASE k # r
    <3>1. LowerCase(k) # LowerCase(r)
      BY <1>0, <2>5, AdmissionAssumption
    <3>2. jobs'[LowerCase(k)] = jobs[LowerCase(k)]
      BY <1>1, <2>3, <3>1
    <3> QED BY <2>1, <2>2, <2>5, <3>2, Counts DEF AInv, Paid
  <2> QED BY <2>4, <2>5
<1> QED BY <1>2, <1>3, <1>4 DEF AInv

\* What leaves handlers and jobs alone leaves everything paid.
LEMMA LimiterStep ==
  ASSUME IInv, AInv, UNCHANGED admissionVars, UNCHANGED grants
  PROVE  AInv'
BY DEF AInv, OwnTypes, NothingYet, JobsArePaid, LimiterRuns, Limited, Serving, admissionVars

LEMMA LoadStep == ASSUME IInv, AInv, Load PROVE AInv'
<1>0. /\ server' \in {"serving", "failed"} /\ (server' = "serving" => Loads(env))
      /\ UNCHANGED <<env, handler, jobs, grants>> /\ server = "loading"
  BY DEF Load, vars
<1>1. OwnTypes'
  BY <1>0 DEF AInv, OwnTypes
<1>2. NothingYet'
  BY <1>0 DEF AInv, NothingYet
<1>3. JobsArePaid'
  <2> SUFFICES ASSUME NEW k \in Keys PROVE Paid(k)'
    BY PaidOf DEF JobsArePaid, Paid, Serving
  <2>1. Serving(k) = {} /\ jobs[LowerCase(k)] = 0
    BY <1>0, Counts, AdmissionAssumption DEF AInv, NothingYet, Serving
  <2>2. Serving(k)' = {} /\ jobs'[LowerCase(k)] = 0 /\ grants'[k] = grants[k]
    BY <2>1, <1>0 DEF Serving
  <2> QED BY <2>2, FS_EmptySet, Counts DEF AInv, Paid
<1> QED BY <1>1, <1>2, <1>3 DEF AInv

LEMMA AInvStep == IInv /\ AInv /\ [AdmissionNext]_allVars => AInv'
<1> SUFFICES ASSUME IInv, AInv, [AdmissionNext]_allVars PROVE AInv'
  OBVIOUS
<1>1. ASSUME NEW q \in Requests, RefuseRequest(q) PROVE AInv'
  BY <1>1, LimiterStep DEF RefuseRequest, Deny
<1>2. CASE LimiterAdvance \/ LimiterCleanup \/ LimiterStop
  BY <1>2, LimiterStep DEF LimiterAdvance, LimiterCleanup, LimiterStop, Advance, Cleanup, CleanerExit, Stop
<1>3. CASE UNCHANGED allVars
  BY <1>3, LimiterStep DEF allVars, vars
<1> QED BY <1>1, <1>2, <1>3, LoadStep, CountStep, AnswerStep DEF AdmissionNext

LEMMA AInvariant == AdmissionSpec => []AInv
BY AInvInit, AInvStep, LimiterInvariant, PTL DEF AdmissionSpec, allVars

\* The state of the server stays in its types, and it serves only with a
\* configuration that loads.
THEOREM AdmissionTypes == AdmissionSpec => []AdmissionTypeOK
<1>1. IInv /\ AInv => AdmissionTypeOK
  BY DEF IInv, AInv, OwnTypes, Repos, AdmissionTypeOK
<1> QED BY <1>1, LimiterInvariant, AInvariant, PTL

\* No repository submits jobs on behalf of another and bypasses its rate limit.
THEOREM EveryJobIsPaid == AdmissionSpec => []JobsArePaid
<1>1. AInv => JobsArePaid
  BY DEF AInv
<1> QED BY <1>1, AInvariant, PTL

-----------------------------------------------------------------------------
(* The allowlist. *)

\* A lower-cased repository or pattern is a sequence of the same length.
LEMMA LowerCaseSeq ==
  ASSUME NEW s \in Seq(DOMAIN Lower)
  PROVE  /\ LowerCase(s) \in Seq({Lower[x] : x \in DOMAIN Lower})
         /\ Len(LowerCase(s)) = Len(s)
         /\ \A n \in 1..Len(s) : LowerCase(s)[n] = Lower[s[n]]
<1>1. DOMAIN s = 1..Len(s) /\ Len(s) \in Nat /\ \A n \in 1..Len(s) : s[n] \in DOMAIN Lower
  OBVIOUS
<1>2. LowerCase(s) = [n \in 1..Len(s) |-> Lower[s[n]]]
  BY <1>1 DEF LowerCase
<1> QED BY <1>1, <1>2

\* The patterns the matching accepts are the three the operator can mean.
LEMMA MatchMeans ==
  ASSUME NEW pattern \in Seq(DOMAIN Lower), NEW k \in Keys, MatchPattern(pattern, k)
  PROVE  LowerCase(pattern) \in
           {LowerCase(k), <<Lower[k[1]], Star>>, <<Star, Star>>}
<1> DEFINE p == LowerCase(pattern)
           r == LowerCase(k)
           L == {Lower[x] : x \in DOMAIN Lower}
<1>1. /\ p \in Seq(L) /\ r \in Seq(L) /\ Len(r) = 2 /\ r[1] = Lower[k[1]]
  <2>1. k \in Seq(DOMAIN Lower) /\ Len(k) = 2
    BY AdmissionAssumption
  <2>2. 1 \in 1..Len(k)
    BY <2>1
  <2> QED BY <2>1, <2>2, LowerCaseSeq
<1>2. CASE p = <<Star, Star>> \/ p = r
  BY <1>2
<1>3. CASE /\ Len(p) > 1 /\ Last(p) = Star
           /\ Len(r) >= Len(p) /\ SubSeq(r, 1, Len(p) - 1) = Front(p)
  <2> HIDE DEF p, r, L
  <2>1. Len(p) = 2
    <3>1. Len(p) \in Nat
      BY <1>1
    <3> QED BY <1>1, <1>3, <3>1
  <2>2. p[2] = Star /\ SubSeq(r, 1, 1) = SubSeq(p, 1, 1)
    BY <1>3, <2>1 DEF Last, Front
  <2>3. ASSUME NEW s \in Seq(L), Len(s) = 2 PROVE SubSeq(s, 1, 1)[1] = s[1]
    BY <2>3
  <2>4. p[1] = r[1]
    BY <1>1, <2>1, <2>2, <2>3
  <2>5. p = <<p[1], p[2]>>
    BY <1>1, <2>1
  <2> QED BY <1>1, <2>2, <2>4, <2>5 DEF p, r
<1> QED BY <1>2, <1>3 DEF MatchPattern

LEMMA AllowedMeans ==
  ASSUME env \in Envs, NEW k \in Keys, IsRepoAllowed(k)
  PROVE  Allowed(k)
<1>1. PICK p \in ToSet(env.REPO_ALLOWLIST) : MatchPattern(p, k)
  BY DEF IsRepoAllowed, ParseAllowlist
<1>2. p \in Seq(DOMAIN Lower)
  BY <1>1, EnvironmentAssumption
<1>3. PICK n \in DOMAIN env.REPO_ALLOWLIST : env.REPO_ALLOWLIST[n] = p
  BY <1>1 DEF ToSet
<1> QED BY <1>1, <1>2, <1>3, MatchMeans DEF Allowed

\* A handler that is serving has been through the allowlist.
HandlersAllowed ==
  \A h \in Handlers : handler[h] # Idle => Allowed(handler[h])

LEMMA OnlyAllowedStep ==
  ASSUME IInv, AInv, OnlyAllowed, HandlersAllowed, [AdmissionNext]_allVars
  PROVE  OnlyAllowed' /\ HandlersAllowed'
<1> DEFINE Known(k) == jobs[LowerCase(k)] > 0 \/ limits[k] # NoBucket \/ denials[k] # {}
<1>t. /\ limits \in [Keys -> Bucket] /\ denials \in [Keys -> SUBSET Nat]
      /\ handler \in [Handlers -> Keys \cup {Idle}] /\ jobs \in [Repos -> Nat]
      /\ Idle \notin Keys /\ env \in Envs
  BY AdmissionAssumption DEF IInv, TypeOK, AInv, OwnTypes
\* What an action adds must be allowed; what was known stays so.
<1>a. ASSUME env' = env, server' = server,
             \A k \in Keys : Known(k)' => Known(k) \/ (server = "serving" /\ Allowed(k))
      PROVE  OnlyAllowed'
  BY <1>a DEF OnlyAllowed, Allowed
<1>b. ASSUME env' = env, \A h \in Handlers : handler'[h] \in {Idle, handler[h]}
      PROVE  HandlersAllowed'
  BY <1>b DEF HandlersAllowed, Allowed
<1>1. CASE Load
  <2>1. /\ server = "loading" /\ env' = env
        /\ UNCHANGED <<jobs, limits, denials, handler>>
    BY <1>1 DEF Load, vars
  <2> QED BY <2>1, <1>b DEF OnlyAllowed
<1>2. ASSUME NEW q \in Requests, RefuseRequest(q) PROVE OnlyAllowed' /\ HandlersAllowed'
  <2>1. q.repo \in Keys /\ server = "serving" /\ Allowed(q.repo)
    BY <1>2, <1>t, AdmissionAssumption, AllowedMeans DEF RefuseRequest, ReachesLimiter
  <2>2. UNCHANGED <<env, server, handler, jobs, limits>>
        /\ denials' = [denials EXCEPT ![q.repo] = @ \cup {now}]
    BY <1>2 DEF RefuseRequest, Deny, admissionVars
  <2>3. \A k \in Keys : Known(k)' => Known(k) \/ k = q.repo
    BY <1>t, <2>2
  <2> QED BY <1>a, <1>b, <2>1, <2>2, <2>3
<1>3. ASSUME NEW q \in Requests, NEW h \in Handlers, CountRequest(h, q)
      PROVE  OnlyAllowed' /\ HandlersAllowed'
  <2>1. q.repo \in Keys /\ server = "serving" /\ Allowed(q.repo)
    BY <1>3, <1>t, AdmissionAssumption, AllowedMeans DEF CountRequest, ReachesLimiter
  <2>2. /\ UNCHANGED <<env, server, jobs, denials>>
        /\ handler' = [handler EXCEPT ![h] = q.repo]
        /\ \A k \in Keys \ {q.repo} : limits'[k] = limits[k]
    BY <1>3, <1>t DEF CountRequest, AllowNewBucket, AllowCounted, vars
  <2>3. \A k \in Keys : Known(k)' => Known(k) \/ k = q.repo
    BY <2>2
  <2>4. HandlersAllowed'
    BY <1>t, <2>1, <2>2 DEF HandlersAllowed, Allowed
  <2> QED BY <1>a, <2>1, <2>2, <2>3, <2>4
<1>4. ASSUME NEW h \in Handlers, NEW p \in Payloads, AcceptJob(h, p)
      PROVE  OnlyAllowed' /\ HandlersAllowed'
  <2>1. /\ handler[h] \in Keys /\ Allowed(handler[h]) /\ server = "serving"
        /\ LowerCase(p.repository) = LowerCase(handler[h])
    BY <1>4, <1>t DEF AcceptJob, Accepts, HandlersAllowed, AInv, NothingYet
  <2>2. /\ jobs' = [jobs EXCEPT ![LowerCase(handler[h])] = @ + 1]
        /\ handler' = [handler EXCEPT ![h] = Idle]
        /\ UNCHANGED <<env, server, limits, denials>>
    BY <1>4, <2>1 DEF AcceptJob, vars
  <2>3. ASSUME NEW k \in Keys, Known(k)' PROVE Known(k) \/ k = handler[h]
    <3>1. CASE LowerCase(k) = LowerCase(handler[h])
      BY <2>1, <3>1, AdmissionAssumption
    <3>2. CASE LowerCase(k) # LowerCase(handler[h])
      <4>1. jobs'[LowerCase(k)] = jobs[LowerCase(k)]
        BY <1>t, <2>2, <3>2 DEF Repos
      <4> QED BY <2>2, <2>3, <4>1
    <3> QED BY <3>1, <3>2
  <2>4. \A g \in Handlers : handler'[g] \in {Idle, handler[g]}
    BY <1>t, <2>2
  <2> QED BY <1>a, <1>b, <2>1, <2>2, <2>3, <2>4
<1>5. ASSUME NEW h \in Handlers, NEW p \in Payloads, RejectPayload(h, p)
      PROVE  OnlyAllowed' /\ HandlersAllowed'
  <2>1. /\ handler' = [handler EXCEPT ![h] = Idle]
        /\ UNCHANGED <<env, server, jobs, limits, denials>>
    BY <1>5 DEF RejectPayload, vars
  <2>2. \A g \in Handlers : handler'[g] \in {Idle, handler[g]}
    BY <1>t, <2>1
  <2> QED BY <1>a, <1>b, <2>1, <2>2
<1>6. CASE LimiterAdvance \/ LimiterCleanup \/ LimiterStop
  <2>1. /\ UNCHANGED <<env, server, jobs, handler, denials>>
        /\ \A k \in Keys : limits'[k] \in {NoBucket, limits[k]}
    BY <1>6 DEF LimiterAdvance, LimiterCleanup, LimiterStop, Advance, Cleanup, CleanerExit,
                Stop, admissionVars
  <2>2. \A k \in Keys : Known(k)' => Known(k)
    BY <2>1
  <2> QED BY <1>a, <1>b, <2>1, <2>2
<1>7. CASE UNCHANGED allVars
  BY <1>7 DEF allVars, admissionVars, vars, OnlyAllowed, HandlersAllowed, Allowed
<1> QED BY <1>1, <1>2, <1>3, <1>4, <1>5, <1>6, <1>7 DEF AdmissionNext

\* config.go:127-163, main.go:191-195: a repository the allowlist does not name gets no job
\* and no place in the limiter's map.
THEOREM AllowlistKept == AdmissionSpec => []OnlyAllowed
<1>1. AdmissionInit => OnlyAllowed /\ HandlersAllowed
  <2> SUFFICES ASSUME AdmissionInit, NEW k \in Keys
               PROVE  ~(jobs[LowerCase(k)] > 0 \/ limits[k] # NoBucket \/ denials[k] # {})
    BY Zenon DEF AdmissionInit, OnlyAllowed, HandlersAllowed
  <2>1. LowerCase(k) \in {LowerCase(l) : l \in Keys}
    OBVIOUS
  <2> QED BY <2>1 DEF AdmissionInit, Init
<1>2. IInv /\ AInv /\ OnlyAllowed /\ HandlersAllowed /\ [AdmissionNext]_allVars
        => OnlyAllowed' /\ HandlersAllowed'
  BY OnlyAllowedStep
<1> QED BY <1>1, <1>2, LimiterInvariant, AInvariant, PTL DEF AdmissionSpec, allVars
=============================================================================
