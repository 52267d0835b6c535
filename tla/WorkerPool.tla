----------------------------- MODULE WorkerPool -----------------------------
(* pkg/worker/pool.go: goroutines that call Submit, the worker goroutines,    *)
(* and goroutines that call Stop, over one buffered channel, one RWMutex, one *)
(* sync.Once and a WaitGroup.  One action per step another goroutine can see; *)
(* a step that only releases a lock is part of the step before it.            *)
(* Init is the pool just after NewPool and Start.                             *)
EXTENDS Integers, Sequences, FiniteSets

CONSTANTS
  Jobs,       \* the jobs, each submitted at most once by its own goroutine
  Workers,    \* the worker goroutines, workerCount of them
  Stoppers,   \* the goroutines that call Stop
  QueueSize,  \* the capacity of jobQueue
  NoJob       \* what a worker holds when it holds no job

ASSUME PoolAssumption ==
  /\ IsFiniteSet(Jobs) /\ IsFiniteSet(Workers) /\ Workers # {}
  /\ QueueSize \in Nat \ {0}
  /\ NoJob \notin Jobs

VARIABLES
  submit,      \* where each job's Submit call is
  draining,    \* Pool.draining
  queue,       \* the contents of jobQueue, oldest first
  closed,      \* jobQueue has been closed
  once,        \* the state of closeOnce
  stop,        \* where each Stop call is
  wpc,         \* where each worker goroutine is
  held,        \* the job a worker took from the channel and has not finished
  gauge,       \* metrics.JobsInQueue
  activeJobs,  \* Pool.activeJobs
  outcome,     \* what the processor returned for each job
  panicked     \* a send on, or a close of, a closed channel happened

vars == <<submit, draining, queue, closed, once, stop, wpc, held, gauge,
          activeJobs, outcome, panicked>>

submitterVars == <<submit>>
stopperVars   == <<draining, closed, once, stop>>
workerVars    == <<wpc, held, activeJobs, outcome>>

SubmitStates == {"new", "waiting", "locked", "sending", "counting",
                 "accepted", "rejected"}
StopStates   == {"idle", "begun", "lock", "close", "wait", "graceful", "timedout"}
WorkerStates == {"idle", "received", "running", "exited"}

Init ==
  /\ submit = [j \in Jobs |-> "new"]
  /\ draining = FALSE
  /\ queue = <<>> /\ closed = FALSE
  /\ once = "unused"
  /\ stop = [s \in Stoppers |-> "idle"]
  /\ wpc = [w \in Workers |-> "idle"]
  /\ held = [w \in Workers |-> NoJob]
  /\ gauge = 0 /\ activeJobs = 0
  /\ outcome = [j \in Jobs |-> "none"]
  /\ panicked = FALSE
-----------------------------------------------------------------------------
(* The RWMutex.  A reader is a Submit between RLock and RUnlock.  A pending   *)
(* or active writer keeps new readers out; a writer waits for the readers.    *)

MutantReaders == {j \in Jobs : submit[j] \in {"locked", "sending", "counting", "rejected"}}
Readers == {j \in Jobs : submit[j] \in {"locked", "sending", "counting"}}

WriterPending == \E s \in Stoppers : stop[s] \in {"lock", "close"}

MutantNoReaderLeft == TRUE
NoReaderLeft == Readers = {}
-----------------------------------------------------------------------------
(* Submit *)

Call(j) ==
  /\ submit[j] = "new"
  /\ submit' = [submit EXCEPT ![j] = "waiting"]
  /\ UNCHANGED <<queue, gauge, panicked, stopperVars, workerVars>>

AcquireRead(j) ==
  /\ submit[j] = "waiting"
  /\ ~WriterPending
  /\ submit' = [submit EXCEPT ![j] = "locked"]
  /\ UNCHANGED <<queue, gauge, panicked, stopperVars, workerVars>>

AfterDrainCheck == IF draining THEN "rejected" ELSE "sending"

CheckDraining(j) ==
  /\ submit[j] = "locked"
  /\ submit' = [submit EXCEPT ![j] = AfterDrainCheck]
  /\ UNCHANGED <<queue, gauge, panicked, stopperVars, workerVars>>

MutantHasRoom == Len(queue) <= QueueSize
HasRoom == Len(queue) < QueueSize

\* The select: a closed channel makes the send panic, a full one takes default.
MutantSend(j) ==
  /\ submit[j] = "sending"
  /\ submit' = [submit EXCEPT ![j] = "counting"]
  /\ queue' = IF HasRoom THEN Append(queue, j) ELSE queue
  /\ panicked' = (panicked \/ closed)
  /\ UNCHANGED <<gauge, stopperVars, workerVars>>
Send(j) ==
  /\ submit[j] = "sending"
  /\ \/ /\ closed
        /\ panicked' = TRUE
        /\ submit' = [submit EXCEPT ![j] = "rejected"]
        /\ UNCHANGED queue
     \/ /\ ~closed /\ HasRoom
        /\ submit' = [submit EXCEPT ![j] = "counting"]
        /\ queue' = Append(queue, j)
        /\ UNCHANGED panicked
     \/ /\ ~closed /\ ~HasRoom
        /\ submit' = [submit EXCEPT ![j] = "rejected"]
        /\ UNCHANGED <<queue, panicked>>
  /\ UNCHANGED <<gauge, stopperVars, workerVars>>

\* JobsInQueue.Inc() comes after the send: a worker may already hold the job.
MutantCountQueued(j) ==
  /\ submit[j] = "counting"
  /\ submit' = [submit EXCEPT ![j] = "accepted"]
  /\ gauge' = Len(queue)
  /\ UNCHANGED <<queue, panicked, stopperVars, workerVars>>
CountQueued(j) ==
  /\ submit[j] = "counting"
  /\ submit' = [submit EXCEPT ![j] = "accepted"]
  /\ gauge' = gauge + 1
  /\ UNCHANGED <<queue, panicked, stopperVars, workerVars>>
-----------------------------------------------------------------------------
(* Stop *)

BeginStop(s) ==
  /\ stop[s] = "idle"
  /\ draining' = TRUE
  /\ stop' = [stop EXCEPT ![s] = "begun"]
  /\ UNCHANGED <<queue, closed, once, gauge, panicked, submitterVars, workerVars>>

\* closeOnce.Do: the first caller runs the function, the others wait for it.
EnterOnce(s) ==
  /\ stop[s] = "begun"
  /\ \/ /\ once = "unused"
        /\ once' = "running"
        /\ stop' = [stop EXCEPT ![s] = "lock"]
     \/ /\ once = "done"
        /\ stop' = [stop EXCEPT ![s] = "wait"]
        /\ UNCHANGED once
  /\ UNCHANGED <<queue, draining, closed, gauge, panicked, submitterVars, workerVars>>

AcquireWrite(s) ==
  /\ stop[s] = "lock"
  /\ NoReaderLeft
  /\ stop' = [stop EXCEPT ![s] = "close"]
  /\ UNCHANGED <<queue, draining, closed, once, gauge, panicked, submitterVars, workerVars>>

CloseQueue(s) ==
  /\ stop[s] = "close"
  /\ closed' = TRUE
  /\ panicked' = (panicked \/ closed)
  /\ once' = "done"
  /\ stop' = [stop EXCEPT ![s] = "wait"]
  /\ UNCHANGED <<queue, draining, gauge, submitterVars, workerVars>>

MutantAllDone == \A w \in Workers : wpc[w] # "running"
AllDone == \A w \in Workers : wpc[w] = "exited"   \* wg.Wait() returns

StopGraceful(s) ==
  /\ stop[s] = "wait"
  /\ AllDone
  /\ stop' = [stop EXCEPT ![s] = "graceful"]
  /\ UNCHANGED <<queue, draining, closed, once, gauge, panicked, submitterVars, workerVars>>

StopTimeout(s) ==
  /\ stop[s] = "wait"
  /\ stop' = [stop EXCEPT ![s] = "timedout"]
  /\ UNCHANGED <<queue, draining, closed, once, gauge, panicked, submitterVars, workerVars>>
-----------------------------------------------------------------------------
(* worker *)

Receive(w) ==
  /\ wpc[w] = "idle" /\ queue # <<>>
  /\ held' = [held EXCEPT ![w] = Head(queue)]
  /\ queue' = Tail(queue)
  /\ wpc' = [wpc EXCEPT ![w] = "received"]
  /\ UNCHANGED <<gauge, activeJobs, outcome, panicked, submitterVars, stopperVars>>

BeginJob(w) ==
  /\ wpc[w] = "received"
  /\ wpc' = [wpc EXCEPT ![w] = "running"]
  /\ gauge' = gauge - 1
  /\ activeJobs' = activeJobs + 1
  /\ UNCHANGED <<queue, held, outcome, panicked, submitterVars, stopperVars>>

FinishJob(w) ==
  /\ wpc[w] = "running"
  /\ \E result \in {"success", "failure"} :
       outcome' = [outcome EXCEPT ![held[w]] = result]
  /\ wpc' = [wpc EXCEPT ![w] = "idle"]
  /\ held' = [held EXCEPT ![w] = NoJob]
  /\ activeJobs' = activeJobs - 1
  /\ UNCHANGED <<queue, gauge, panicked, submitterVars, stopperVars>>

\* range over the channel ends when it is closed and empty; wg.Done() follows.
MayExit == closed /\ queue = <<>>

Exit(w) ==
  /\ wpc[w] = "idle" /\ MayExit
  /\ wpc' = [wpc EXCEPT ![w] = "exited"]
  /\ UNCHANGED <<queue, held, gauge, activeJobs, outcome, panicked,
                 submitterVars, stopperVars>>
-----------------------------------------------------------------------------
SubmitStep(j) == AcquireRead(j) \/ CheckDraining(j) \/ Send(j) \/ CountQueued(j)
StopStep(s)   == EnterOnce(s) \/ AcquireWrite(s) \/ CloseQueue(s)
                   \/ StopGraceful(s) \/ StopTimeout(s)
WorkerStep(w) == Receive(w) \/ BeginJob(w) \/ FinishJob(w) \/ Exit(w)

\* Nobody calls the pool any more and no goroutine is left inside it.
Terminated ==
  /\ \A j \in Jobs : submit[j] \in {"accepted", "rejected"}
  /\ \A s \in Stoppers : stop[s] \in {"graceful", "timedout"}
  /\ AllDone
  /\ UNCHANGED vars

Next ==
  \/ \E j \in Jobs : Call(j) \/ SubmitStep(j)
  \/ \E s \in Stoppers : BeginStop(s) \/ StopStep(s)
  \/ \E w \in Workers : WorkerStep(w)
  \/ Terminated

(* The Go scheduler runs every goroutine that can run; the processor returns  *)
(* because its context expires after jobTimeout; the timer of Stop fires.     *)
(* Nothing obliges anyone to call Submit or Stop.                             *)
Fairness ==
  /\ \A j \in Jobs : WF_vars(SubmitStep(j))
  /\ \A s \in Stoppers : WF_vars(StopStep(s))
  /\ \A w \in Workers : WF_vars(WorkerStep(w))

Spec == Init /\ [][Next]_vars /\ Fairness
-----------------------------------------------------------------------------
Accepted == {j \in Jobs : submit[j] \in {"counting", "accepted"}}
InQueue(j)  == \E i \in 1..Len(queue) : queue[i] = j
Held(j)     == \E w \in Workers : held[w] = j
Finished(j) == outcome[j] # "none"

TypeOK ==
  /\ submit \in [Jobs -> SubmitStates]
  /\ draining \in BOOLEAN /\ closed \in BOOLEAN /\ panicked \in BOOLEAN
  /\ queue \in Seq(Jobs) /\ Len(queue) <= QueueSize
  /\ once \in {"unused", "running", "done"}
  /\ stop \in [Stoppers -> StopStates]
  /\ wpc \in [Workers -> WorkerStates]
  /\ held \in [Workers -> Jobs \cup {NoJob}]
  /\ gauge \in Int /\ activeJobs \in Int
  /\ outcome \in [Jobs -> {"none", "success", "failure"}]

\* No interleaving of Submit and Stop sends on the closed channel or closes it
\* twice (the write lock and closeOnce, pool.go:75-81).
NoPanic == ~panicked

\* A job Submit returned true for is in exactly one place (the channel, one
\* worker, or processed), once; a refused one is nowhere.
JobConserved ==
  /\ \A j \in Jobs :
       /\ j \in Accepted <=> InQueue(j) \/ Held(j) \/ Finished(j)
       /\ ~(InQueue(j) /\ Held(j))
       /\ ~(Finished(j) /\ (InQueue(j) \/ Held(j)))
  /\ \A i, k \in 1..Len(queue) : queue[i] = queue[k] => i = k
  /\ \A v, w \in Workers : held[v] = held[w] => v = w \/ held[v] = NoJob

\* When Stop reports "stopped gracefully" every accepted job has been processed
\* and none can be accepted afterwards.
GracefulMeansDrained ==
  (\E s \in Stoppers : stop[s] = "graceful") =>
     /\ closed
     /\ \A j \in Accepted : submit[j] = "accepted" /\ Finished(j)

\* The two counters, updated outside any lock: the gauge differs from the length
\* of the channel only by the jobs whose Inc or Dec has not run yet (it may read
\* -1 for a moment), and Status().ActiveJobs is the number of running processors.
CountersExact ==
  /\ gauge = Len(queue)
             + Cardinality({w \in Workers : wpc[w] = "received"})
             - Cardinality({j \in Jobs : submit[j] = "counting"})
  /\ activeJobs = Cardinality({w \in Workers : wpc[w] = "running"})

\* Submit never blocks for ever, even against a Stop that waits for its lock.
SubmitReturns ==
  \A j \in Jobs : submit[j] = "waiting" ~> submit[j] \in {"accepted", "rejected"}

\* Stop returns to its caller, also when another Stop is running closeOnce.
StopReturns ==
  \A s \in Stoppers : stop[s] = "begun" ~> stop[s] \in {"graceful", "timedout"}
-----------------------------------------------------------------------------
(* The pool implements the job service. *)
Service == INSTANCE JobService WITH
  Capacity    <- QueueSize,
  Concurrency <- Cardinality(Workers),
  open        <- ~closed,
  stopping    <- draining,
  backlog     <- queue,
  running     <- {held[w] : w \in Workers} \ {NoJob},
  finished    <- {j \in Jobs : outcome[j] # "none"},
  refused     <- {j \in Jobs : submit[j] = "rejected"},
  drained     <- \E s \in Stoppers : stop[s] = "graceful"

\* Every behaviour of the pool is one of the bounded, loss-free job service:
\* order of arrival, refusals only with a cause, drained only when all is done,
\* and the service's own progress.
ImplementsService == Service!Spec
=============================================================================
