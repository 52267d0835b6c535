------------------------------- MODULE Server -------------------------------
(* cmd/server/main.go: the webhook handlers, the slots that bound synchronous *)
(* jobs, and the shutdown sequence of main, over the worker pool taken as the *)
(* JobService that WorkerPool implements.  A job is named by the request that *)
(* brought it; processing it (JobPipeline) ends with "nil" or "err".          *)
EXTENDS Naturals, Sequences, FiniteSets

CONSTANTS
  Requests,     \* webhook requests, each made once
  WorkerCount,  \* cfg.WorkerCount: workers of the pool and capacity of syncSem
  QueueSize     \* cfg.QueueSize

ASSUME ServerAssumption ==
  /\ IsFiniteSet(Requests)
  /\ WorkerCount \in Nat \ {0} /\ QueueSize \in Nat \ {0}

VARIABLES
  main,      \* where the goroutine of main is
  handler,   \* where the handler of each request is
  answer,    \* the status each handler wrote, 0 before
  seen,      \* the status each client received: 0 before, or when it was lost
  syncSem,   \* the number of tokens in the channel syncSem
  verdict,   \* what processJob returned to each synchronous handler
  late,      \* history: Shutdown gave up on running handlers
  gaveUp,    \* history: pool.Stop timed out
  open, stopping, backlog, running, finished, refused, drained  \* the pool

poolVars == <<open, stopping, backlog, running, finished, refused, drained>>
httpVars == <<handler, answer, seen, syncSem>>
mainVars == <<main, late, gaveUp>>
vars == <<mainVars, httpVars, verdict, poolVars>>

Pool == INSTANCE JobService WITH
  Jobs <- Requests, Capacity <- QueueSize, Concurrency <- WorkerCount

Init ==
  /\ main = "serving" /\ late = FALSE /\ gaveUp = FALSE
  /\ handler = [r \in Requests |-> "new"]
  /\ answer = [r \in Requests |-> 0] /\ seen = [r \in Requests |-> 0]
  /\ syncSem = 0
  /\ verdict = [r \in Requests |-> "none"]
  /\ Pool!Init

Alive == main # "exited"
-----------------------------------------------------------------------------
(* handleWebhook.  http.Server answers a request that came before Shutdown    *)
(* closed the listener; its handler then runs, whatever main does.            *)

Write(r, status, next) ==
  /\ answer' = [answer EXCEPT ![r] = status]
  /\ handler' = [handler EXCEPT ![r] = next]

Arrive(r) ==
  /\ main = "serving" /\ handler[r] = "new"
  /\ handler' = [handler EXCEPT ![r] = "checking"]
  /\ UNCHANGED <<mainVars, answer, seen, syncSem, verdict, poolVars>>

\* Method, token, allowlist, rate limit, body, payload, repository: the first
\* check that fails answers (405, 401, 403, 429 or 400, here 400 for them all); a
\* request that passes asks for one of two modes.
Check(r) ==
  /\ handler[r] = "checking"
  /\ \/ Write(r, 400, "written")
     \/ \E mode \in {"sync", "async"} :
          handler' = [handler EXCEPT ![r] = mode] /\ UNCHANGED answer
  /\ UNCHANGED <<mainVars, seen, syncSem, verdict, poolVars>>

MutantSlotFree == syncSem <= WorkerCount
SlotFree == syncSem < WorkerCount

TakeSlot(r) ==
  /\ handler[r] = "sync"
  /\ \/ /\ SlotFree
        /\ syncSem' = syncSem + 1
        /\ handler' = [handler EXCEPT ![r] = "processing"]
        /\ UNCHANGED answer
     \/ /\ ~SlotFree
        /\ Write(r, 503, "written")
        /\ UNCHANGED syncSem
  /\ UNCHANGED <<mainVars, seen, verdict, poolVars>>

\* processJob returns (at the latest some time after JobTimeout, or after the
\* client went away) and the answer is written; the slot is still taken.
MutantStatusOf(v) == 200
StatusOf(v) == IF v = "nil" THEN 200 ELSE 500
FinishSync(r) ==
  /\ handler[r] = "processing"
  /\ \E v \in {"nil", "err"} :
       /\ verdict' = [verdict EXCEPT ![r] = v]
       /\ Write(r, StatusOf(v), "holding")
  /\ UNCHANGED <<mainVars, seen, syncSem, poolVars>>

MutantReleaseSlot(r) ==
  /\ handler[r] = "holding"
  /\ syncSem' = IF answer[r] = 200 THEN syncSem - 1 ELSE syncSem
  /\ handler' = [handler EXCEPT ![r] = "written"]
  /\ UNCHANGED <<mainVars, answer, seen, verdict, poolVars>>
StuckReleaseSlot(r) ==
  /\ handler[r] = "holding" /\ answer[r] = 200
  /\ syncSem' = syncSem - 1
  /\ handler' = [handler EXCEPT ![r] = "written"]
  /\ UNCHANGED <<mainVars, answer, seen, verdict, poolVars>>
ReleaseSlot(r) ==   \* deferred: when the handler returns
  /\ handler[r] = "holding"
  /\ syncSem' = syncSem - 1
  /\ handler' = [handler EXCEPT ![r] = "written"]
  /\ UNCHANGED <<mainVars, answer, seen, verdict, poolVars>>

SubmitAccepted(r) ==
  /\ handler[r] = "async"
  /\ Pool!Accept(r)
  /\ handler' = [handler EXCEPT ![r] = "queued"]
  /\ UNCHANGED <<mainVars, answer, seen, syncSem, verdict>>

SubmitRefused(r) ==
  /\ handler[r] = "async"
  /\ Pool!Refuse(r)
  /\ Write(r, 503, "written")
  /\ UNCHANGED <<mainVars, seen, syncSem, verdict>>

WriteAccepted(r) ==
  /\ handler[r] = "queued"
  /\ Write(r, 202, "written")
  /\ UNCHANGED <<mainVars, seen, syncSem, verdict, poolVars>>

\* The response leaves the process when the handler is done, unless the client
\* is gone or WriteTimeout has passed.
Deliver(r) ==
  /\ handler[r] = "written"
  /\ handler' = [handler EXCEPT ![r] = "returned"]
  /\ seen' \in {seen, [seen EXCEPT ![r] = answer[r]]}
  /\ UNCHANGED <<mainVars, answer, syncSem, verdict, poolVars>>

HandlerStep(r) ==
  \/ Check(r) \/ TakeSlot(r) \/ FinishSync(r) \/ ReleaseSlot(r)
  \/ SubmitAccepted(r) \/ SubmitRefused(r) \/ WriteAccepted(r) \/ Deliver(r)
-----------------------------------------------------------------------------
(* The workers of the pool, whose processor is processJob. *)

WorkerBegins == Pool!Begin /\ UNCHANGED <<mainVars, httpVars, verdict>>

\* What processJob returned is only logged and counted.
WorkerFinishes(r) == Pool!Finish(r) /\ UNCHANGED <<mainVars, httpVars, verdict>>
-----------------------------------------------------------------------------
(* main, from the signal (or a failed listener) to os.Exit. *)

Signal ==
  /\ main = "serving"
  /\ main' = "shutdown"
  /\ UNCHANGED <<late, gaveUp, httpVars, verdict, poolVars>>

InFlight(r) == handler[r] \notin {"new", "returned"}

\* server.Shutdown waits for the handlers, for 30 seconds.
MutantShutdownReturns ==
  /\ main = "shutdown"
  /\ late' = FALSE
  /\ main' = "stopping"
  /\ UNCHANGED <<gaveUp, httpVars, verdict, poolVars>>
ShutdownReturns ==
  /\ main = "shutdown"
  /\ late' = \E r \in Requests : InFlight(r)
  /\ main' = "stopping"
  /\ UNCHANGED <<gaveUp, httpVars, verdict, poolVars>>

PoolStopBegins ==
  /\ main = "stopping"
  /\ Pool!AskStop
  /\ main' = "closing"
  /\ UNCHANGED <<late, gaveUp, httpVars, verdict>>

PoolCloses ==
  /\ main = "closing"
  /\ Pool!Close
  /\ main' = "waiting"
  /\ UNCHANGED <<late, gaveUp, httpVars, verdict>>

\* pool.Stop(25s) returns when the workers are done, or when its time is up.
PoolDrained ==
  /\ main = "waiting"
  /\ Pool!ReportDrained
  /\ main' = "exiting"
  /\ UNCHANGED <<late, gaveUp, httpVars, verdict>>

PoolStopTimesOut ==
  /\ main = "waiting"
  /\ main' = "exiting" /\ gaveUp' = TRUE
  /\ UNCHANGED <<late, httpVars, verdict, poolVars>>

\* os.Exit ends every goroutine of the process.
MutantExit ==
  /\ main = "exiting" /\ drained
  /\ main' = "exited"
  /\ UNCHANGED <<late, gaveUp, httpVars, verdict, poolVars>>
Exit ==
  /\ main = "exiting"
  /\ main' = "exited"
  /\ UNCHANGED <<late, gaveUp, httpVars, verdict, poolVars>>

MainStep == ShutdownReturns \/ PoolStopBegins \/ PoolCloses \/ PoolDrained
              \/ PoolStopTimesOut \/ Exit

Next ==
  /\ Alive
  /\ \/ \E r \in Requests : Arrive(r) \/ HandlerStep(r) \/ WorkerFinishes(r)
     \/ WorkerBegins
     \/ Signal \/ MainStep

(* Goroutines are scheduled, processJob returns (its context expires), and    *)
(* the timers of Shutdown and Stop fire.  Nobody has to send a request or a   *)
(* signal.                                                                    *)
Fairness ==
  /\ \A r \in Requests : WF_vars(Alive /\ HandlerStep(r)) /\ WF_vars(Alive /\ WorkerFinishes(r))
  /\ WF_vars(Alive /\ WorkerBegins)
  /\ WF_vars(Alive /\ MainStep)

Spec == Init /\ [][Next]_vars /\ Fairness
-----------------------------------------------------------------------------
Statuses == {0, 200, 202, 400, 500, 503}

TypeOK ==
  /\ main \in {"serving", "shutdown", "stopping", "closing", "waiting", "exiting", "exited"}
  /\ handler \in [Requests -> {"new", "checking", "sync", "async", "processing", "holding",
                               "queued", "written", "returned"}]
  /\ answer \in [Requests -> Statuses] /\ seen \in [Requests -> Statuses]
  /\ syncSem \in 0..WorkerCount
  /\ verdict \in [Requests -> {"none", "nil", "err"}]
  /\ late \in BOOLEAN /\ gaveUp \in BOOLEAN
  /\ open \in BOOLEAN /\ stopping \in BOOLEAN /\ drained \in BOOLEAN
  /\ backlog \in Seq(Requests) /\ Len(backlog) <= QueueSize
  /\ running \subseteq Requests /\ finished \subseteq Requests /\ refused \subseteq Requests

Processing == running \cup {r \in Requests : handler[r] = "processing"}

\* A slot is taken exactly by the handlers between the select and the deferred
\* release, so at most twice WorkerCount jobs are processed at any time.
SlotsBoundJobs ==
  /\ syncSem = Cardinality({r \in Requests : handler[r] \in {"processing", "holding"}})
  /\ Cardinality(Processing) <= 2 * WorkerCount

\* What a client was told is true: 200 means its job succeeded, 500 that it
\* failed, 202 that the pool has the job, and with any other answer no job of
\* this request exists.
AnswersAreTrue ==
  \A r \in Requests :
    LET inPool == r \in Pool!Waiting \cup running \cup finished
    IN  /\ seen[r] = 200 => verdict[r] = "nil" /\ ~inPool
        /\ seen[r] = 500 => verdict[r] = "err" /\ ~inPool
        /\ seen[r] = 202 => inPool
        /\ seen[r] \notin {0, 200, 500, 202} => verdict[r] = "none" /\ ~inPool

\* The process ends without losing work unless a timeout of its shutdown passed:
\* every handler has returned and every job the pool accepted is processed.
CleanExit ==
  main = "exited" /\ ~late /\ ~gaveUp =>
    \A r \in Requests :
      /\ ~InFlight(r)
      /\ answer[r] = 202 => r \in finished

\* The handler of a request that arrived returns, or the process exits.
RequestAnswered ==
  \A r \in Requests : handler[r] = "checking" ~> handler[r] = "returned" \/ ~Alive

\* A signal ends the process, whatever handlers and workers are doing.
SignalEnds == main = "shutdown" ~> main = "exited"
=============================================================================
