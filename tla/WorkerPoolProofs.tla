-------------------------- MODULE WorkerPoolProofs --------------------------
(* Theorems about WorkerPool for every finite set of jobs, workers and        *)
(* stoppers and every queue size, with machine-checked proofs.                *)
EXTENDS WorkerPool, FiniteSetTheorems, TLAPS

(* The protocol of Stop against Submit: who may be inside closeOnce, and what *)
(* the write lock excludes.                                                   *)
InsideOnce(s) == stop[s] \in {"lock", "close"}
PastOnce(s)   == stop[s] \in {"wait", "graceful", "timedout"}

LockInv ==
  /\ \A s \in Stoppers :
       /\ stop[s] # "idle" => draining
       /\ InsideOnce(s) => once = "running"
       /\ PastOnce(s) => once = "done"
       /\ stop[s] = "close" => Readers = {}
  /\ \A s, t \in Stoppers : InsideOnce(s) /\ InsideOnce(t) => s = t
  /\ once = "done" <=> closed
  /\ closed => draining
  /\ closed => \A j \in Jobs : submit[j] \notin {"sending", "counting"}
  /\ ~panicked

THEOREM TypeInvariant == Spec => []TypeOK
<1>1. Init => TypeOK
  <2>1. Init => queue \in Seq(Jobs) /\ Len(queue) <= QueueSize
    BY PoolAssumption DEF Init
  <2>2. Init => held \in [Workers -> Jobs \cup {NoJob}]
    BY DEF Init
  <2>3. Init => /\ submit \in [Jobs -> SubmitStates]
                /\ stop \in [Stoppers -> StopStates]
                /\ wpc \in [Workers -> WorkerStates]
                /\ outcome \in [Jobs -> {"none", "success", "failure"}]
    BY DEF Init, SubmitStates, StopStates, WorkerStates
  <2>4. Init => /\ draining \in BOOLEAN /\ closed \in BOOLEAN
                /\ panicked \in BOOLEAN /\ once \in {"unused", "running", "done"}
    BY DEF Init
  <2>5. Init => gauge \in Int /\ activeJobs \in Int
    BY DEF Init
  <2> QED BY <2>1, <2>2, <2>3, <2>4, <2>5 DEF TypeOK
<1>2. TypeOK /\ [Next]_vars => TypeOK'
  <2> SUFFICES ASSUME TypeOK, [Next]_vars PROVE TypeOK'
    OBVIOUS
  <2> USE DEF TypeOK, SubmitStates, StopStates, WorkerStates,
              submitterVars, stopperVars, workerVars
  <2>1. ASSUME NEW j \in Jobs, Call(j) PROVE TypeOK'
    BY <2>1 DEF Call
  <2>2. ASSUME NEW j \in Jobs, AcquireRead(j) PROVE TypeOK'
    BY <2>2 DEF AcquireRead
  <2>3. ASSUME NEW j \in Jobs, CheckDraining(j) PROVE TypeOK'
    BY <2>3 DEF CheckDraining, AfterDrainCheck
  <2>4. ASSUME NEW j \in Jobs, Send(j) PROVE TypeOK'
    <3>1. queue' \in Seq(Jobs) /\ Len(queue') <= QueueSize
      <4>1. ASSUME HasRoom PROVE Append(queue, j) \in Seq(Jobs)
                                 /\ Len(Append(queue, j)) <= QueueSize
        BY <4>1, PoolAssumption DEF HasRoom
      <4> QED BY <2>4, <4>1 DEF Send
    <3>2. submit' \in [Jobs -> SubmitStates]
      BY <2>4 DEF Send
    <3> QED BY <2>4, <3>1, <3>2 DEF Send
  <2>5. ASSUME NEW j \in Jobs, CountQueued(j) PROVE TypeOK'
    BY <2>5 DEF CountQueued
  <2>6. ASSUME NEW s \in Stoppers, BeginStop(s) PROVE TypeOK'
    BY <2>6 DEF BeginStop
  <2>7. ASSUME NEW s \in Stoppers, EnterOnce(s) PROVE TypeOK'
    BY <2>7 DEF EnterOnce
  <2>8. ASSUME NEW s \in Stoppers, AcquireWrite(s) PROVE TypeOK'
    BY <2>8 DEF AcquireWrite
  <2>9. ASSUME NEW s \in Stoppers, CloseQueue(s) PROVE TypeOK'
    BY <2>9 DEF CloseQueue
  <2>10. ASSUME NEW s \in Stoppers, StopGraceful(s) PROVE TypeOK'
    BY <2>10 DEF StopGraceful
  <2>11. ASSUME NEW s \in Stoppers, StopTimeout(s) PROVE TypeOK'
    BY <2>11 DEF StopTimeout
  <2>12. ASSUME NEW w \in Workers, Receive(w) PROVE TypeOK'
    <3>1. /\ Head(queue) \in Jobs
          /\ Tail(queue) \in Seq(Jobs)
          /\ Len(Tail(queue)) <= QueueSize
      BY <2>12, PoolAssumption DEF Receive
    <3> QED BY <2>12, <3>1 DEF Receive
  <2>13. ASSUME NEW w \in Workers, BeginJob(w) PROVE TypeOK'
    BY <2>13 DEF BeginJob
  <2>14. ASSUME NEW w \in Workers, FinishJob(w) PROVE TypeOK'
    <3>1. outcome' \in [Jobs -> {"none", "success", "failure"}]
      BY <2>14 DEF FinishJob
    <3>2. activeJobs' \in Int
      BY <2>14 DEF FinishJob
    <3> QED BY <2>14, <3>1, <3>2 DEF FinishJob
  <2>15. ASSUME NEW w \in Workers, Exit(w) PROVE TypeOK'
    BY <2>15 DEF Exit
  <2>16. ASSUME UNCHANGED vars PROVE TypeOK'
    BY <2>16 DEF vars
  <2> QED
    BY <2>1, <2>2, <2>3, <2>4, <2>5, <2>6, <2>7, <2>8, <2>9, <2>10, <2>11,
       <2>12, <2>13, <2>14, <2>15, <2>16
    DEF Next, SubmitStep, StopStep, WorkerStep, Terminated
<1> QED BY <1>1, <1>2, PTL DEF Spec
-----------------------------------------------------------------------------
(* Why neither a send on the closed channel nor a second close can happen.    *)

LEMMA LockInvInit == Init => LockInv
  BY DEF Init, LockInv, InsideOnce, PastOnce

LEMMA LockInvStep == TypeOK /\ LockInv /\ [Next]_vars => LockInv'
  <1> SUFFICES ASSUME TypeOK, LockInv, [Next]_vars PROVE LockInv'
    OBVIOUS
  <1> USE DEF LockInv, InsideOnce, PastOnce, Readers, TypeOK, SubmitStates,
              StopStates, submitterVars, stopperVars, workerVars
  <1>1. ASSUME NEW j \in Jobs, Call(j) PROVE LockInv'
    BY <1>1 DEF Call
  <1>2. ASSUME NEW j \in Jobs, AcquireRead(j) PROVE LockInv'
    BY <1>2 DEF AcquireRead, WriterPending
  <1>3. ASSUME NEW j \in Jobs, CheckDraining(j) PROVE LockInv'
    BY <1>3 DEF CheckDraining, AfterDrainCheck
  <1>4. ASSUME NEW j \in Jobs, Send(j) PROVE LockInv'
    BY <1>4 DEF Send
  <1>5. ASSUME NEW j \in Jobs, CountQueued(j) PROVE LockInv'
    BY <1>5 DEF CountQueued
  <1>6. ASSUME NEW s \in Stoppers, BeginStop(s) PROVE LockInv'
    BY <1>6 DEF BeginStop
  <1>7. ASSUME NEW s \in Stoppers, EnterOnce(s) PROVE LockInv'
    BY <1>7 DEF EnterOnce
  <1>8. ASSUME NEW s \in Stoppers, AcquireWrite(s) PROVE LockInv'
    BY <1>8 DEF AcquireWrite, NoReaderLeft
  <1>9. ASSUME NEW s \in Stoppers, CloseQueue(s) PROVE LockInv'
    BY <1>9 DEF CloseQueue
  <1>10. ASSUME NEW s \in Stoppers, StopGraceful(s) PROVE LockInv'
    BY <1>10 DEF StopGraceful
  <1>11. ASSUME NEW s \in Stoppers, StopTimeout(s) PROVE LockInv'
    BY <1>11 DEF StopTimeout
  <1>12. ASSUME NEW w \in Workers, WorkerStep(w) PROVE LockInv'
    BY <1>12 DEF WorkerStep, Receive, BeginJob, FinishJob, Exit
  <1>13. ASSUME UNCHANGED vars PROVE LockInv'
    BY <1>13 DEF vars
  <1> QED
    BY <1>1, <1>2, <1>3, <1>4, <1>5, <1>6, <1>7, <1>8, <1>9, <1>10, <1>11,
       <1>12, <1>13 DEF Next, SubmitStep, StopStep, Terminated

LEMMA LockInvariant == Spec => []LockInv
  BY TypeInvariant, LockInvInit, LockInvStep, PTL DEF Spec

\* No schedule of Submit and Stop calls sends on the closed jobQueue or closes it
\* twice: draining, the RWMutex and closeOnce (pool.go:53-81) suffice.
THEOREM PoolNeverPanics == Spec => []NoPanic
<1>1. LockInv => NoPanic
  BY DEF LockInv, NoPanic
<1> QED BY <1>1, LockInvariant, PTL
-----------------------------------------------------------------------------
(* Where each accepted job is. *)

HoldInv ==
  \A w \in Workers : wpc[w] \in {"received", "running"} <=> held[w] # NoJob

LEMMA HoldInvStep == TypeOK /\ HoldInv /\ [Next]_vars => HoldInv'
  <1> SUFFICES ASSUME TypeOK, HoldInv, [Next]_vars PROVE HoldInv'
    OBVIOUS
  <1> USE DEF HoldInv, TypeOK, WorkerStates, submitterVars, stopperVars, workerVars
  <1>1. ASSUME NEW w \in Workers, Receive(w) PROVE HoldInv'
    <2>1. Head(queue) \in Jobs
      BY <1>1 DEF Receive
    <2> QED BY <1>1, <2>1, PoolAssumption DEF Receive
  <1>2. ASSUME NEW w \in Workers, BeginJob(w) PROVE HoldInv'
    BY <1>2 DEF BeginJob
  <1>3. ASSUME NEW w \in Workers, FinishJob(w) PROVE HoldInv'
    BY <1>3 DEF FinishJob
  <1>4. ASSUME NEW w \in Workers, Exit(w) PROVE HoldInv'
    BY <1>4 DEF Exit
  <1>5. ASSUME UNCHANGED <<wpc, held>> PROVE HoldInv'
    BY <1>5
  <1> QED
    BY <1>1, <1>2, <1>3, <1>4, <1>5
    DEF Next, vars, SubmitStep, StopStep, WorkerStep, Terminated, Call, AcquireRead,
        CheckDraining, Send, CountQueued, BeginStop, EnterOnce, AcquireWrite,
        CloseQueue, StopGraceful, StopTimeout

LEMMA JobConservedInit == Init => JobConserved
<1> SUFFICES ASSUME Init PROVE JobConserved
  OBVIOUS
<1>1. Len(queue) = 0
  BY DEF Init
<1>2. \A j \in Jobs : ~InQueue(j) /\ ~Held(j) /\ ~Finished(j) /\ j \notin Accepted
  BY <1>1, PoolAssumption DEF Init, InQueue, Held, Finished, Accepted
<1> QED BY <1>1, <1>2 DEF Init, JobConserved

LEMMA JobConservedStep ==
  TypeOK /\ HoldInv /\ JobConserved /\ [Next]_vars => JobConserved'
  <1> SUFFICES ASSUME TypeOK, HoldInv, JobConserved, [Next]_vars PROVE JobConserved'
    OBVIOUS
  <1> USE DEF submitterVars, stopperVars, workerVars
  <1>1. ASSUME NEW k \in Jobs, Send(k) PROVE JobConserved'
    <2>1. CASE ~closed /\ HasRoom
      <3>1. /\ queue' = Append(queue, k) /\ submit' = [submit EXCEPT ![k] = "counting"]
            /\ submit[k] = "sending" /\ UNCHANGED <<held, outcome>>
        BY <1>1, <2>1 DEF Send
      <3>2. k \notin Accepted
        BY <3>1 DEF Accepted
      <3>3. Accepted' = Accepted \cup {k}
        BY <3>1 DEF Accepted, TypeOK
      <3>4. /\ queue \in Seq(Jobs)
            /\ Len(queue') = Len(queue) + 1 /\ queue'[Len(queue) + 1] = k
            /\ \A i \in 1..Len(queue) : queue'[i] = queue[i]
        BY <3>1 DEF TypeOK
      <3>5. \A j \in Jobs : InQueue(j)' <=> InQueue(j) \/ j = k
        BY <3>4 DEF InQueue
      <3>6. \A j \in Jobs : (Held(j)' <=> Held(j)) /\ (Finished(j)' <=> Finished(j))
        BY <3>1 DEF Held, Finished
      <3>7. ~InQueue(k) /\ ~Held(k) /\ ~Finished(k)
        BY <3>2 DEF JobConserved
      <3>8. \A i, l \in 1..Len(queue') : queue'[i] = queue'[l] => i = l
        <4> SUFFICES ASSUME NEW i \in 1..Len(queue'), NEW l \in 1..Len(queue'),
                            queue'[i] = queue'[l]
                     PROVE  i = l
          OBVIOUS
        <4>1. \A m \in 1..Len(queue) : queue'[m] # k
          BY <3>4, <3>7 DEF InQueue
        <4> QED BY <3>4, <4>1 DEF JobConserved
      <3> QED BY <3>1, <3>3, <3>5, <3>6, <3>7, <3>8 DEF JobConserved
    <2>2. CASE ~(~closed /\ HasRoom)
      <3>1. Accepted' = Accepted /\ UNCHANGED <<queue, held, outcome>>
        BY <1>1, <2>2 DEF Send, Accepted, TypeOK
      <3> QED BY <3>1 DEF JobConserved, InQueue, Held, Finished
    <2> QED BY <2>1, <2>2
  <1>2. ASSUME NEW w \in Workers, Receive(w) PROVE JobConserved'
    <2> DEFINE k == Head(queue)
    <2>1. /\ queue' = Tail(queue) /\ held' = [held EXCEPT ![w] = k]
          /\ queue # <<>> /\ wpc[w] = "idle" /\ UNCHANGED <<submit, outcome>>
      BY <1>2 DEF Receive
    <2>2. /\ queue \in Seq(Jobs) /\ Len(queue) \in Nat /\ Len(queue) >= 1
          /\ k \in Jobs /\ k = queue[1]
          /\ Len(queue') = Len(queue) - 1
          /\ \A i \in 1..Len(queue') : queue'[i] = queue[i + 1]
      BY <2>1 DEF TypeOK
    <2>3. held[w] = NoJob
      BY <2>1 DEF HoldInv, TypeOK
    <2>4. held \in [Workers -> Jobs \cup {NoJob}]
      BY DEF TypeOK
    <2> HIDE DEF k
    <2>5. \A j \in Jobs : InQueue(j)' <=> InQueue(j) /\ j # k
      <3> SUFFICES ASSUME NEW j \in Jobs PROVE InQueue(j)' <=> InQueue(j) /\ j # k
        OBVIOUS
      <3>1. InQueue(j)' => InQueue(j) /\ j # k
        BY <2>2 DEF InQueue, JobConserved
      <3>2. ASSUME InQueue(j), j # k PROVE InQueue(j)'
        <4>1. PICK i \in 1..Len(queue) : queue[i] = j
          BY <3>2 DEF InQueue
        <4>2. i - 1 \in 1..Len(queue') /\ queue'[i - 1] = j
          BY <4>1, <3>2, <2>2
        <4> QED BY <4>2 DEF InQueue
      <3> QED BY <3>1, <3>2
    <2>6. \A j \in Jobs : Held(j)' <=> Held(j) \/ j = k
      BY <2>1, <2>2, <2>3, <2>4, PoolAssumption DEF Held
    <2>7. InQueue(k)
      BY <2>2 DEF InQueue
    <2>8. \A i, l \in 1..Len(queue') : queue'[i] = queue'[l] => i = l
      BY <2>2 DEF JobConserved
    <2>9. \A u, v \in Workers : held'[u] = held'[v] => u = v \/ held'[u] = NoJob
      <3>1. \A u \in Workers : held[u] # k
        BY <2>2, <2>7 DEF JobConserved, Held
      <3> QED BY <2>1, <2>4, <3>1 DEF JobConserved
    <2>10. Accepted' = Accepted /\ \A j \in Jobs : Finished(j)' <=> Finished(j)
      BY <2>1 DEF Accepted, Finished
    <2> QED BY <2>2, <2>5, <2>6, <2>7, <2>8, <2>9, <2>10 DEF JobConserved
  <1>3. ASSUME NEW w \in Workers, FinishJob(w) PROVE JobConserved'
    <2> DEFINE k == held[w]
    <2>1. /\ held' = [held EXCEPT ![w] = NoJob] /\ wpc[w] = "running"
          /\ UNCHANGED <<submit, queue>>
      BY <1>3 DEF FinishJob
    <2>2. k \in Jobs /\ held \in [Workers -> Jobs \cup {NoJob}]
      BY <2>1 DEF HoldInv, TypeOK
    <2>3. \E r \in {"success", "failure"} : outcome' = [outcome EXCEPT ![k] = r]
      BY <1>3 DEF FinishJob
    <2>4. \A j \in Jobs : Finished(j)' <=> Finished(j) \/ j = k
      BY <2>2, <2>3 DEF Finished, TypeOK
    <2>5. \A j \in Jobs : Held(j)' <=> Held(j) /\ j # k
      BY <2>1, <2>2, PoolAssumption DEF Held, JobConserved
    <2>6. Held(k)
      BY <2>2 DEF Held
    <2>7. Accepted' = Accepted /\ \A j \in Jobs : InQueue(j)' <=> InQueue(j)
      BY <2>1 DEF Accepted, InQueue
    <2>8. \A u, v \in Workers : held'[u] = held'[v] => u = v \/ held'[u] = NoJob
      BY <2>1, <2>2 DEF JobConserved
    <2> HIDE DEF k
    <2> QED BY <2>1, <2>2, <2>4, <2>5, <2>6, <2>7, <2>8 DEF JobConserved
  <1>4. ASSUME NEW j \in Jobs, Call(j) \/ AcquireRead(j) \/ CheckDraining(j) \/ CountQueued(j)
        PROVE  JobConserved'
    <2>1. Accepted' = Accepted /\ UNCHANGED <<queue, held, outcome>>
      BY <1>4 DEF Call, AcquireRead, CheckDraining, AfterDrainCheck, CountQueued,
                  Accepted, TypeOK
    <2> QED BY <2>1 DEF JobConserved, InQueue, Held, Finished
  <1>5. ASSUME UNCHANGED <<submit, queue, held, outcome>> PROVE JobConserved'
    BY <1>5 DEF JobConserved, Accepted, InQueue, Held, Finished
  <1> QED
    BY <1>1, <1>2, <1>3, <1>4, <1>5
    DEF Next, vars, SubmitStep, StopStep, WorkerStep, Terminated, BeginStop, EnterOnce,
        AcquireWrite, CloseQueue, StopGraceful, StopTimeout, BeginJob, Exit

\* Every job Submit accepted is in the channel, with one worker or processed, and
\* in one of these once: nothing is lost or processed twice inside the pool.
THEOREM PoolConservesJobs == Spec => []JobConserved
<1>1. Init => HoldInv
  BY DEF Init, HoldInv
<1> QED
  BY <1>1, TypeInvariant, HoldInvStep, JobConservedInit, JobConservedStep, PTL DEF Spec
-----------------------------------------------------------------------------
(* What a graceful Stop means. *)

ExitInv ==
  /\ \A w \in Workers : wpc[w] = "exited" => closed /\ queue = <<>>
  /\ (\E s \in Stoppers : stop[s] = "graceful") => AllDone

LEMMA ExitInvStep == TypeOK /\ LockInv /\ ExitInv /\ [Next]_vars => ExitInv'
  <1> SUFFICES ASSUME TypeOK, LockInv, ExitInv, [Next]_vars PROVE ExitInv'
    OBVIOUS
  <1> USE DEF ExitInv, AllDone, TypeOK, WorkerStates, StopStates,
              submitterVars, stopperVars, workerVars
  <1>1. ASSUME NEW j \in Jobs, Send(j) PROVE ExitInv'
    <2>1. UNCHANGED queue \/ ~closed
      BY <1>1 DEF Send
    <2> QED BY <1>1, <2>1 DEF Send
  <1>2. ASSUME NEW w \in Workers, Receive(w) PROVE ExitInv'
    BY <1>2 DEF Receive
  <1>3. ASSUME NEW w \in Workers, BeginJob(w) \/ FinishJob(w) PROVE ExitInv'
    BY <1>3 DEF BeginJob, FinishJob
  <1>4. ASSUME NEW w \in Workers, Exit(w) PROVE ExitInv'
    BY <1>4 DEF Exit, MayExit
  <1>5. ASSUME NEW s \in Stoppers,
               BeginStop(s) \/ EnterOnce(s) \/ AcquireWrite(s) \/ CloseQueue(s)
                 \/ StopGraceful(s) \/ StopTimeout(s)
        PROVE  ExitInv'
    BY <1>5 DEF BeginStop, EnterOnce, AcquireWrite, CloseQueue, StopGraceful, StopTimeout
  <1>6. ASSUME UNCHANGED <<queue, closed, stop, wpc>> PROVE ExitInv'
    BY <1>6
  <1> QED
    BY <1>1, <1>2, <1>3, <1>4, <1>5, <1>6
    DEF Next, vars, SubmitStep, StopStep, WorkerStep, Terminated, Call, AcquireRead,
        CheckDraining, CountQueued

LEMMA ExitInvariant == Spec => []ExitInv
<1>1. Init => ExitInv
  BY DEF Init, ExitInv
<1> QED BY <1>1, TypeInvariant, LockInvariant, ExitInvStep, PTL DEF Spec

LEMMA HoldInvariant == Spec => []HoldInv
<1>1. Init => HoldInv
  BY DEF Init, HoldInv
<1> QED BY <1>1, TypeInvariant, HoldInvStep, PTL DEF Spec

\* "Worker pool stopped gracefully" is the truth: the queue is closed and every
\* job Submit ever accepted has been processed.
THEOREM GracefulStopDrains == Spec => []GracefulMeansDrained
<1>1. TypeOK /\ LockInv /\ HoldInv /\ ExitInv /\ JobConserved => GracefulMeansDrained
  <2> SUFFICES ASSUME TypeOK, LockInv, HoldInv, ExitInv, JobConserved,
                      \E s \in Stoppers : stop[s] = "graceful"
               PROVE  closed /\ \A j \in Accepted : submit[j] = "accepted" /\ Finished(j)
    BY DEF GracefulMeansDrained
  <2>1. AllDone /\ closed /\ queue = <<>>
    BY PoolAssumption DEF ExitInv, AllDone
  <2>2. \A w \in Workers : held[w] = NoJob
    BY <2>1 DEF AllDone, HoldInv
  <2>3. ASSUME NEW j \in Accepted PROVE submit[j] = "accepted" /\ Finished(j)
    <3>1. j \in Jobs /\ submit[j] = "accepted"
      BY <2>1 DEF Accepted, LockInv
    <3>2. ~InQueue(j)
      BY <2>1 DEF InQueue
    <3>3. ~Held(j)
      BY <2>2, <3>1, PoolAssumption DEF Held
    <3> QED BY <3>1, <3>2, <3>3 DEF JobConserved
  <2> QED BY <2>1, <2>3
<1> QED
  BY <1>1, TypeInvariant, LockInvariant, HoldInvariant, ExitInvariant,
     PoolConservesJobs, PTL
-----------------------------------------------------------------------------
(* The pool implements the job service. *)

Running == {held[w] : w \in Workers} \ {NoJob}

\* A worker that holds nothing leaves room for one more running job.
LEMMA RoomForOneMore ==
  ASSUME TypeOK, NEW w \in Workers, held[w] = NoJob
  PROVE  Cardinality(Running) < Cardinality(Workers)
<1> DEFINE busy == Workers \ {w}
           f    == [v \in busy |-> held[v]]
           all  == {held[v] : v \in busy}
<1>1. IsFiniteSet(Workers) /\ IsFiniteSet(busy)
  BY PoolAssumption, FS_RemoveElement
<1>2. Cardinality(busy) = Cardinality(Workers) - 1
  BY PoolAssumption, FS_RemoveElement
<1>3. IsFiniteSet(all) /\ Cardinality(all) <= Cardinality(busy)
  <2>1. f \in Surjection(busy, all)
    BY DEF Surjection
  <2> HIDE DEF f, busy, all
  <2> QED BY <1>1, <2>1, FS_Surjection
<1>4. Running \subseteq all
  BY DEF Running
<1>5. IsFiniteSet(Running) /\ Cardinality(Running) <= Cardinality(all)
  BY <1>3, <1>4, FS_Subset
<1>6. /\ Cardinality(Running) \in Nat /\ Cardinality(all) \in Nat
      /\ Cardinality(busy) \in Nat /\ Cardinality(Workers) \in Nat
  BY <1>1, <1>3, <1>5, FS_CardinalityType
<1> HIDE DEF busy, all, f
<1> QED BY <1>2, <1>3, <1>5, <1>6

PoolInv == TypeOK /\ LockInv /\ HoldInv /\ ExitInv /\ JobConserved

\* A job on its way into the pool is new to the service.
LEMMA FreshBeforeSend ==
  ASSUME PoolInv, NEW j \in Jobs, submit[j] \in {"locked", "sending"}
  PROVE  Service!Fresh(j)
<1>1. ~InQueue(j) /\ ~Held(j) /\ ~Finished(j)
  BY DEF PoolInv, JobConserved, Accepted
<1>2. j \notin Service!Waiting
  BY <1>1 DEF InQueue, Service!Waiting
<1>3. j \notin {held[w] : w \in Workers} \ {NoJob}
  BY <1>1 DEF Held
<1>4. j \notin {k \in Jobs : outcome[k] # "none"} /\ j \notin {k \in Jobs : submit[k] = "rejected"}
  BY <1>1 DEF Finished
<1> QED BY <1>2, <1>3, <1>4 DEF Service!Fresh

ServiceInit == Service!Init
ServiceNext == [Service!Next]_(Service!svcVars)

LEMMA RefinesInit == Init => ServiceInit
<1> SUFFICES ASSUME Init PROVE Service!Init
  BY DEF ServiceInit
<1>1. {held[w] : w \in Workers} \ {NoJob} = {}
  BY DEF Init
<1>2. {j \in Jobs : outcome[j] # "none"} = {} /\ {j \in Jobs : submit[j] = "rejected"} = {}
  BY DEF Init
<1>3. (\E s \in Stoppers : stop[s] = "graceful") = FALSE
  BY DEF Init
<1> QED BY <1>1, <1>2, <1>3 DEF Init, Service!Init

\* A step that changes none of the variables the service sees is a stutter.
LEMMA Stutter ==
  ASSUME UNCHANGED <<closed, draining, queue, held, outcome>>,
         {j \in Jobs : submit'[j] = "rejected"} = {j \in Jobs : submit[j] = "rejected"},
         (\E s \in Stoppers : stop'[s] = "graceful") <=> (\E s \in Stoppers : stop[s] = "graceful")
  PROVE  UNCHANGED Service!svcVars
<1>1. (\E s \in Stoppers : stop'[s] = "graceful") = (\E s \in Stoppers : stop[s] = "graceful")
  OBVIOUS
<1> QED BY <1>1 DEF Service!svcVars

LEMMA RefineSubmit ==
  ASSUME PoolInv, NEW j \in Jobs, Call(j) \/ SubmitStep(j)
  PROVE  ServiceNext
<1> USE DEF stopperVars, workerVars
<1>1. submit \in [Jobs -> SubmitStates]
  BY DEF PoolInv, TypeOK
<1>2. ASSUME Call(j) \/ AcquireRead(j) \/ CountQueued(j) PROVE ServiceNext
  <2>1. {k \in Jobs : submit'[k] = "rejected"} = {k \in Jobs : submit[k] = "rejected"}
    BY <1>1, <1>2 DEF Call, AcquireRead, CountQueued
  <2> QED BY <1>2, <2>1, Stutter DEF Call, AcquireRead, CountQueued, ServiceNext
<1>3. ASSUME UNCHANGED <<queue, stopperVars, workerVars>>,
             submit[j] \in {"locked", "sending"},
             submit' = [submit EXCEPT ![j] = "rejected"],
             draining \/ Len(queue) = QueueSize
      PROVE  Service!Refuse(j)
  <2>1. Service!Fresh(j)
    BY <1>3, FreshBeforeSend
  <2>2. {k \in Jobs : submit'[k] = "rejected"} = {k \in Jobs : submit[k] = "rejected"} \cup {j}
    BY <1>1, <1>3
  <2> QED BY <1>3, <2>1, <2>2 DEF Service!Refuse
<1>4. ASSUME CheckDraining(j) PROVE ServiceNext
  <2>1. CASE draining
    BY <1>3, <1>4, <2>1 DEF CheckDraining, AfterDrainCheck, ServiceNext, Service!Next
  <2>2. CASE ~draining
    <3>1. {k \in Jobs : submit'[k] = "rejected"} = {k \in Jobs : submit[k] = "rejected"}
      BY <1>1, <1>4, <2>2 DEF CheckDraining, AfterDrainCheck
    <3> QED BY <1>4, <3>1, Stutter DEF CheckDraining, ServiceNext
  <2> QED BY <2>1, <2>2
<1>5. ASSUME Send(j) PROVE ServiceNext
  <2>1. ~closed
    BY <1>5 DEF Send, PoolInv, LockInv
  <2>2. CASE HasRoom
    <3>1. /\ queue' = Append(queue, j) /\ submit' = [submit EXCEPT ![j] = "counting"]
          /\ submit[j] = "sending" /\ Len(queue) < QueueSize
          /\ UNCHANGED <<stopperVars, workerVars>>
      BY <1>5, <2>1, <2>2 DEF Send, HasRoom
    <3>2. Service!Fresh(j)
      BY <3>1, FreshBeforeSend
    <3>3. {k \in Jobs : submit'[k] = "rejected"} = {k \in Jobs : submit[k] = "rejected"}
      BY <1>1, <3>1
    <3>4. Service!Accept(j)
      BY <2>1, <3>1, <3>2, <3>3 DEF Service!Accept
    <3> QED BY <3>4 DEF ServiceNext, Service!Next
  <2>3. CASE ~HasRoom
    <3>1. Len(queue) = QueueSize
      BY <2>3, PoolAssumption DEF HasRoom, PoolInv, TypeOK
    <3>2. /\ submit[j] = "sending" /\ submit' = [submit EXCEPT ![j] = "rejected"]
          /\ UNCHANGED <<queue, stopperVars, workerVars>>
      BY <1>5, <2>1, <2>3 DEF Send
    <3>3. Service!Refuse(j)
      BY <3>1, <3>2, <1>3
    <3> QED BY <3>3 DEF ServiceNext, Service!Next
  <2> QED BY <2>2, <2>3
<1> QED BY <1>2, <1>4, <1>5 DEF SubmitStep

LEMMA RefineStop ==
  ASSUME PoolInv, NEW s \in Stoppers, BeginStop(s) \/ StopStep(s)
  PROVE  ServiceNext
<1> USE DEF submitterVars, workerVars
<1> DEFINE Reported == \E t \in Stoppers : stop[t] = "graceful"
<1>1. stop \in [Stoppers -> StopStates]
  BY DEF PoolInv, TypeOK
<1>2. ASSUME NEW x \in {"begun", "lock", "close", "wait", "timedout"},
             stop' = [stop EXCEPT ![s] = x], stop[s] # "graceful"
      PROVE  Reported' <=> Reported
  BY <1>1, <1>2
<1>3. ASSUME EnterOnce(s) \/ AcquireWrite(s) \/ StopTimeout(s) PROVE ServiceNext
  <2>1. Reported' <=> Reported
    BY <1>2, <1>3 DEF EnterOnce, AcquireWrite, StopTimeout
  <2> QED BY <1>3, <2>1, Stutter DEF EnterOnce, AcquireWrite, StopTimeout, ServiceNext
<1>4. ASSUME BeginStop(s) PROVE ServiceNext
  <2>1. Reported' = Reported
    BY <1>2, <1>4 DEF BeginStop
  <2>2. Service!AskStop
    BY <1>4, <2>1 DEF BeginStop, Service!AskStop
  <2> QED BY <2>2 DEF ServiceNext, Service!Next
<1>5. ASSUME CloseQueue(s) PROVE ServiceNext
  <2>1. Reported' = Reported
    BY <1>2, <1>5 DEF CloseQueue
  <2>2. draining /\ ~closed
    BY <1>5 DEF CloseQueue, PoolInv, LockInv, InsideOnce
  <2>3. Service!Close
    BY <1>5, <2>1, <2>2 DEF CloseQueue, Service!Close
  <2> QED BY <2>3 DEF ServiceNext, Service!Next
<1>6. ASSUME StopGraceful(s) PROVE ServiceNext
  <2>1. closed /\ queue = <<>>
    BY <1>6, PoolAssumption DEF StopGraceful, AllDone, PoolInv, ExitInv
  <2>2. {held[w] : w \in Workers} \ {NoJob} = {}
    BY <1>6 DEF StopGraceful, AllDone, PoolInv, HoldInv
  <2>3. Reported' = TRUE
    BY <1>1, <1>6 DEF StopGraceful
  <2>4. Service!ReportDrained
    BY <1>6, <2>1, <2>2, <2>3 DEF StopGraceful, Service!ReportDrained
  <2> QED BY <2>4 DEF ServiceNext, Service!Next
<1> QED BY <1>3, <1>4, <1>5, <1>6 DEF StopStep

LEMMA RefineWorker ==
  ASSUME PoolInv, NEW w \in Workers, WorkerStep(w)
  PROVE  ServiceNext
<1> USE DEF submitterVars, stopperVars
<1>1. held \in [Workers -> Jobs \cup {NoJob}] /\ outcome \in [Jobs -> {"none", "success", "failure"}]
  BY DEF PoolInv, TypeOK
<1>2. ASSUME BeginJob(w) \/ Exit(w) PROVE ServiceNext
  BY <1>2, Stutter DEF BeginJob, Exit, ServiceNext
<1>3. ASSUME Receive(w) PROVE ServiceNext
  <2> DEFINE k == Head(queue)
  <2>1. /\ held' = [held EXCEPT ![w] = k] /\ queue' = Tail(queue) /\ queue # <<>>
        /\ wpc[w] = "idle" /\ UNCHANGED <<submit, outcome, stopperVars>>
    BY <1>3 DEF Receive
  <2>2. held[w] = NoJob
    BY <2>1 DEF PoolInv, HoldInv
  <2>3. Cardinality(Running) < Cardinality(Workers)
    BY <2>2, RoomForOneMore DEF PoolInv
  <2>4. k \in Jobs
    BY <2>1 DEF PoolInv, TypeOK
  <2>5. Running' = Running \cup {k}
    BY <1>1, <2>1, <2>2, <2>4, PoolAssumption DEF Running
  <2>6. /\ UNCHANGED <<closed, draining>>
        /\ {j \in Jobs : outcome'[j] # "none"} = {j \in Jobs : outcome[j] # "none"}
        /\ {j \in Jobs : submit'[j] = "rejected"} = {j \in Jobs : submit[j] = "rejected"}
        /\ (\E s \in Stoppers : stop'[s] = "graceful") = (\E s \in Stoppers : stop[s] = "graceful")
    BY <2>1
  <2>7. /\ {held'[v] : v \in Workers} \ {NoJob} = ({held[v] : v \in Workers} \ {NoJob}) \cup {Head(queue)}
        /\ Cardinality({held[v] : v \in Workers} \ {NoJob}) < Cardinality(Workers)
    BY <2>3, <2>5 DEF Running
  <2>8. Service!Cardinality({held[v] : v \in Workers} \ {NoJob}) < Cardinality(Workers)
    BY <2>7 DEF Service!Cardinality, Cardinality
  <2>9. Service!Begin
    <3>1. UNCHANGED <<~closed, draining, {j \in Jobs : outcome[j] # "none"},
                      {j \in Jobs : submit[j] = "rejected"},
                      \E s \in Stoppers : stop[s] = "graceful">>
      BY <2>6
    <3>2. ({held[v] : v \in Workers} \ {NoJob})' = ({held[v] : v \in Workers} \ {NoJob}) \cup {Head(queue)}
      BY <2>7
    <3>3. queue # <<>> /\ queue' = Tail(queue)
      BY <2>1
    <3> QED BY <2>8, <3>1, <3>2, <3>3, Zenon DEF Service!Begin
  <2> QED BY <2>9 DEF ServiceNext, Service!Next
<1>4. ASSUME FinishJob(w) PROVE ServiceNext
  <2>0. PICK k \in Jobs : k = held[w]
    BY <1>1, <1>4 DEF FinishJob, PoolInv, HoldInv
  <2>1. /\ held' = [held EXCEPT ![w] = NoJob] /\ wpc[w] = "running"
        /\ UNCHANGED <<submit, queue, stopperVars>>
    BY <1>4 DEF FinishJob
  <2>3. \E r \in {"success", "failure"} : outcome' = [outcome EXCEPT ![k] = r]
    BY <1>4, <2>0 DEF FinishJob
  <2>4. \A v \in Workers : held[v] = k => v = w
    BY <2>0, PoolAssumption DEF PoolInv, JobConserved
  <2>5. Running' = Running \ {k} /\ k \in Running
    BY <1>1, <2>0, <2>1, <2>4, PoolAssumption DEF Running
  <2>6. {j \in Jobs : outcome'[j] # "none"} = {j \in Jobs : outcome[j] # "none"} \cup {k}
    BY <1>1, <2>3
  <2>7. Service!Finish(k)
    BY <2>1, <2>5, <2>6 DEF Service!Finish, Running
  <2> QED BY <2>7 DEF ServiceNext, Service!Next
<1> QED BY <1>2, <1>3, <1>4 DEF WorkerStep

LEMMA RefinesStep == PoolInv /\ [Next]_vars => [Service!Next]_(Service!svcVars)
<1> SUFFICES ASSUME PoolInv, [Next]_vars PROVE ServiceNext
  BY DEF ServiceNext
<1>1. CASE UNCHANGED vars
  BY <1>1, Stutter DEF vars, ServiceNext
<1> QED BY <1>1, RefineSubmit, RefineStop, RefineWorker DEF Next, Terminated

\* Seen through the refinement mapping, every step of the goroutines is a step of
\* the bounded, loss-free job service or leaves it unchanged: the safety part of
\* ImplementsService, for every number of jobs, workers and stoppers.
THEOREM PoolImplementsService == Spec => Service!Init /\ [][Service!Next]_(Service!svcVars)
<1>1. Spec => []PoolInv
  BY TypeInvariant, LockInvariant, HoldInvariant, ExitInvariant, PoolConservesJobs, PTL
  DEF PoolInv
<1>2. Spec => ServiceInit /\ [][Service!Next]_(Service!svcVars)
  BY <1>1, RefinesInit, RefinesStep, PTL DEF Spec
<1> QED BY <1>2 DEF ServiceInit
-----------------------------------------------------------------------------
(* The counters. *)

\* A set counts one more with a new element, one less without an old one.
LEMMA OneMoreOneLess ==
  ASSUME NEW A, IsFiniteSet(A), NEW B, NEW x
  PROVE  /\ Cardinality(A) \in Nat
         /\ x \notin A /\ B = A \cup {x} => Cardinality(B) = Cardinality(A) + 1
         /\ x \in A /\ B = A \ {x} => Cardinality(B) = Cardinality(A) - 1
BY FS_CardinalityType, FS_AddElement, FS_RemoveElement

CountingSet == {j \in Jobs : submit[j] = "counting"}
ReceivedSet == {w \in Workers : wpc[w] = "received"}
RunningSet  == {w \in Workers : wpc[w] = "running"}

LEMMA SubmitCount ==
  ASSUME TypeOK, NEW j \in Jobs, NEW v, submit' = [submit EXCEPT ![j] = v]
  PROVE  /\ v = "counting" /\ submit[j] # "counting" =>
              Cardinality(CountingSet') = Cardinality(CountingSet) + 1
         /\ v # "counting" /\ submit[j] = "counting" =>
              Cardinality(CountingSet') = Cardinality(CountingSet) - 1
         /\ v # "counting" /\ submit[j] # "counting" => CountingSet' = CountingSet
<1>1. /\ v = "counting" => CountingSet' = CountingSet \cup {j}
      /\ v # "counting" => CountingSet' = CountingSet \ {j}
      /\ j \in CountingSet <=> submit[j] = "counting"
  BY DEF CountingSet, TypeOK
<1>2. IsFiniteSet(CountingSet)
  BY PoolAssumption, FS_Subset DEF CountingSet
<1>3. submit[j] # "counting" /\ v # "counting" => CountingSet' = CountingSet
  BY <1>1
<1> QED BY <1>1, <1>2, <1>3, OneMoreOneLess

LEMMA WorkerCount ==
  ASSUME TypeOK, NEW w \in Workers, NEW v, wpc' = [wpc EXCEPT ![w] = v]
  PROVE  /\ v = "received" /\ wpc[w] # "received" =>
              Cardinality(ReceivedSet') = Cardinality(ReceivedSet) + 1
         /\ v # "received" /\ wpc[w] = "received" =>
              Cardinality(ReceivedSet') = Cardinality(ReceivedSet) - 1
         /\ v # "received" /\ wpc[w] # "received" => ReceivedSet' = ReceivedSet
         /\ v = "running" /\ wpc[w] # "running" =>
              Cardinality(RunningSet') = Cardinality(RunningSet) + 1
         /\ v # "running" /\ wpc[w] = "running" =>
              Cardinality(RunningSet') = Cardinality(RunningSet) - 1
         /\ v # "running" /\ wpc[w] # "running" => RunningSet' = RunningSet
<1>1. /\ v = "received" => ReceivedSet' = ReceivedSet \cup {w}
      /\ v # "received" => ReceivedSet' = ReceivedSet \ {w}
      /\ w \in ReceivedSet <=> wpc[w] = "received"
  BY DEF ReceivedSet, TypeOK
<1>2. /\ v = "running" => RunningSet' = RunningSet \cup {w}
      /\ v # "running" => RunningSet' = RunningSet \ {w}
      /\ w \in RunningSet <=> wpc[w] = "running"
  BY DEF RunningSet, TypeOK
<1>3. IsFiniteSet(ReceivedSet) /\ IsFiniteSet(RunningSet)
  BY PoolAssumption, FS_Subset DEF ReceivedSet, RunningSet
<1>4. /\ v = "received" /\ wpc[w] # "received" =>
           Cardinality(ReceivedSet') = Cardinality(ReceivedSet) + 1
      /\ v # "received" /\ wpc[w] = "received" =>
           Cardinality(ReceivedSet') = Cardinality(ReceivedSet) - 1
      /\ v # "received" /\ wpc[w] # "received" => ReceivedSet' = ReceivedSet
  BY <1>1, <1>3, OneMoreOneLess
<1>5. /\ v = "running" /\ wpc[w] # "running" =>
           Cardinality(RunningSet') = Cardinality(RunningSet) + 1
      /\ v # "running" /\ wpc[w] = "running" =>
           Cardinality(RunningSet') = Cardinality(RunningSet) - 1
      /\ v # "running" /\ wpc[w] # "running" => RunningSet' = RunningSet
  BY <1>2, <1>3, OneMoreOneLess
<1> QED BY <1>4, <1>5

LEMMA CountersExactStep == TypeOK /\ CountersExact /\ [Next]_vars => CountersExact'
<1> SUFFICES ASSUME TypeOK, CountersExact, [Next]_vars PROVE CountersExact'
  OBVIOUS
<1> USE DEF submitterVars, stopperVars, workerVars
<1>0. /\ gauge = Len(queue) + Cardinality(ReceivedSet) - Cardinality(CountingSet)
      /\ activeJobs = Cardinality(RunningSet)
      /\ submit \in [Jobs -> SubmitStates] /\ wpc \in [Workers -> WorkerStates]
      /\ queue \in Seq(Jobs) /\ Len(queue) \in Nat
      /\ IsFiniteSet(Jobs) /\ IsFiniteSet(Workers)
      /\ Cardinality(CountingSet) \in Nat /\ Cardinality(ReceivedSet) \in Nat
      /\ Cardinality(RunningSet) \in Nat
  BY PoolAssumption, FS_Subset, FS_CardinalityType
  DEF CountersExact, TypeOK, CountingSet, ReceivedSet, RunningSet
<1>a. /\ "rejected" # "counting" /\ "accepted" # "counting" /\ "sending" # "counting"
      /\ \A v \in {"idle", "running", "exited"} : v # "received"
      /\ \A v \in {"idle", "received", "exited"} : v # "running"
  OBVIOUS
<1>b. UNCHANGED submit => CountingSet' = CountingSet
  BY DEF CountingSet
<1>c. UNCHANGED wpc => ReceivedSet' = ReceivedSet /\ RunningSet' = RunningSet
  BY DEF ReceivedSet, RunningSet
<1> SUFFICES /\ gauge' = Len(queue') + Cardinality(ReceivedSet') - Cardinality(CountingSet')
             /\ activeJobs' = Cardinality(RunningSet')
  BY DEF CountersExact, CountingSet, ReceivedSet, RunningSet
<1>1. ASSUME NEW j \in Jobs, Call(j) \/ AcquireRead(j) \/ CheckDraining(j)
      PROVE  /\ gauge' = Len(queue') + Cardinality(ReceivedSet') - Cardinality(CountingSet')
             /\ activeJobs' = Cardinality(RunningSet')
  <2>1. PICK v \in {"waiting", "locked", "rejected", "sending"} : submit' = [submit EXCEPT ![j] = v]
    BY <1>1 DEF Call, AcquireRead, CheckDraining, AfterDrainCheck
  <2>2. submit[j] # "counting" /\ UNCHANGED <<queue, gauge, wpc, activeJobs>>
    BY <1>1 DEF Call, AcquireRead, CheckDraining
  <2> QED BY <1>0, SubmitCount, <1>c, <2>1, <2>2
<1>2. ASSUME NEW j \in Jobs, Send(j)
      PROVE  /\ gauge' = Len(queue') + Cardinality(ReceivedSet') - Cardinality(CountingSet')
             /\ activeJobs' = Cardinality(RunningSet')
  <2>1. submit[j] = "sending" /\ UNCHANGED <<gauge, wpc, activeJobs>>
    BY <1>2 DEF Send
  <2>2. CASE submit' = [submit EXCEPT ![j] = "counting"] /\ queue' = Append(queue, j)
    <3>1. Len(queue') = Len(queue) + 1
      BY <2>2, <1>0
    <3>2. Cardinality(CountingSet') = Cardinality(CountingSet) + 1
      BY <1>a, SubmitCount, <2>1, <2>2
    <3> QED BY <1>0, <1>c, <2>1, <3>1, <3>2
  <2>3. CASE submit' = [submit EXCEPT ![j] = "rejected"] /\ UNCHANGED queue
    <3>1. Cardinality(CountingSet') = Cardinality(CountingSet)
      BY <1>a, SubmitCount, <2>1, <2>3
    <3> QED BY <1>0, <1>c, <2>1, <2>3, <3>1
  <2> QED BY <1>2, <2>2, <2>3 DEF Send
<1>3. ASSUME NEW j \in Jobs, CountQueued(j)
      PROVE  /\ gauge' = Len(queue') + Cardinality(ReceivedSet') - Cardinality(CountingSet')
             /\ activeJobs' = Cardinality(RunningSet')
  <2>1. /\ submit[j] = "counting" /\ submit' = [submit EXCEPT ![j] = "accepted"]
        /\ gauge' = gauge + 1 /\ UNCHANGED <<queue, wpc, activeJobs>>
    BY <1>3 DEF CountQueued
  <2>2. Cardinality(CountingSet') = Cardinality(CountingSet) - 1
    BY <1>a, SubmitCount, <2>1
  <2> QED BY <1>0, <1>c, <2>1, <2>2
<1>4. ASSUME NEW w \in Workers, Receive(w)
      PROVE  /\ gauge' = Len(queue') + Cardinality(ReceivedSet') - Cardinality(CountingSet')
             /\ activeJobs' = Cardinality(RunningSet')
  <2>1. /\ wpc[w] = "idle" /\ wpc' = [wpc EXCEPT ![w] = "received"] /\ queue # <<>>
        /\ queue' = Tail(queue) /\ UNCHANGED <<gauge, submit, activeJobs>>
    BY <1>4 DEF Receive
  <2>2. Len(queue') = Len(queue) - 1
    BY <2>1, <1>0
  <2>3. /\ Cardinality(ReceivedSet') = Cardinality(ReceivedSet) + 1
        /\ Cardinality(RunningSet') = Cardinality(RunningSet)
    BY <1>a, WorkerCount, <2>1
  <2> QED BY <1>0, <1>b, <2>1, <2>2, <2>3
<1>5. ASSUME NEW w \in Workers, BeginJob(w)
      PROVE  /\ gauge' = Len(queue') + Cardinality(ReceivedSet') - Cardinality(CountingSet')
             /\ activeJobs' = Cardinality(RunningSet')
  <2>1. /\ wpc[w] = "received" /\ wpc' = [wpc EXCEPT ![w] = "running"]
        /\ gauge' = gauge - 1 /\ activeJobs' = activeJobs + 1 /\ UNCHANGED <<submit, queue>>
    BY <1>5 DEF BeginJob
  <2>2. /\ Cardinality(ReceivedSet') = Cardinality(ReceivedSet) - 1
        /\ Cardinality(RunningSet') = Cardinality(RunningSet) + 1
    BY <1>a, WorkerCount, <2>1
  <2> QED BY <1>0, <1>b, <2>1, <2>2
<1>6. ASSUME NEW w \in Workers, FinishJob(w)
      PROVE  /\ gauge' = Len(queue') + Cardinality(ReceivedSet') - Cardinality(CountingSet')
             /\ activeJobs' = Cardinality(RunningSet')
  <2>1. /\ wpc[w] = "running" /\ wpc' = [wpc EXCEPT ![w] = "idle"]
        /\ activeJobs' = activeJobs - 1 /\ UNCHANGED <<submit, queue, gauge>>
    BY <1>6 DEF FinishJob
  <2>2. /\ Cardinality(ReceivedSet') = Cardinality(ReceivedSet)
        /\ Cardinality(RunningSet') = Cardinality(RunningSet) - 1
    BY <1>a, WorkerCount, <2>1
  <2> QED BY <1>0, <1>b, <2>1, <2>2
<1>7. ASSUME NEW w \in Workers, Exit(w)
      PROVE  /\ gauge' = Len(queue') + Cardinality(ReceivedSet') - Cardinality(CountingSet')
             /\ activeJobs' = Cardinality(RunningSet')
  <2>1. /\ wpc[w] = "idle" /\ wpc' = [wpc EXCEPT ![w] = "exited"]
        /\ UNCHANGED <<submit, queue, gauge, activeJobs>>
    BY <1>7 DEF Exit
  <2>2. /\ Cardinality(ReceivedSet') = Cardinality(ReceivedSet)
        /\ Cardinality(RunningSet') = Cardinality(RunningSet)
    BY <1>a, WorkerCount, <2>1
  <2> QED BY <1>0, <1>b, <2>1, <2>2
<1>8. ASSUME UNCHANGED <<submit, wpc, queue, gauge, activeJobs>>
      PROVE  /\ gauge' = Len(queue') + Cardinality(ReceivedSet') - Cardinality(CountingSet')
             /\ activeJobs' = Cardinality(RunningSet')
  BY <1>0, <1>b, <1>c, <1>8
<1> QED
  BY <1>1, <1>2, <1>3, <1>4, <1>5, <1>6, <1>7, <1>8
  DEF Next, vars, SubmitStep, StopStep, WorkerStep, Terminated, BeginStop, EnterOnce, AcquireWrite,
      CloseQueue, StopGraceful, StopTimeout

LEMMA CountersExactInit == Init => CountersExact
<1> SUFFICES ASSUME Init PROVE CountersExact
  OBVIOUS
<1>1. CountingSet = {} /\ ReceivedSet = {} /\ RunningSet = {}
  BY DEF Init, CountingSet, ReceivedSet, RunningSet
<1>2. /\ Cardinality(CountingSet) = 0 /\ Cardinality(ReceivedSet) = 0
      /\ Cardinality(RunningSet) = 0
  BY <1>1, FS_EmptySet
<1>3. gauge = 0 /\ activeJobs = 0 /\ Len(queue) = 0
  BY DEF Init
<1>4. /\ gauge = Len(queue) + Cardinality(ReceivedSet) - Cardinality(CountingSet)
      /\ activeJobs = Cardinality(RunningSet)
  BY <1>2, <1>3
<1> QED BY <1>4 DEF CountersExact, CountingSet, ReceivedSet, RunningSet

\* The gauge, which no lock protects, is off the length of the channel by no more
\* than the updates under way (pool.go:62, 131), and activeJobs is the number of
\* processors running (pool.go:132, 147), for every number of jobs and workers.
THEOREM CountersStayExact == Spec => []CountersExact
BY TypeInvariant, CountersExactInit, CountersExactStep, PTL DEF Spec
=============================================================================
