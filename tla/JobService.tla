----------------------------- MODULE JobService -----------------------------
(* What the worker pool of pkg/worker promises to its callers, without locks, *)
(* channels or goroutines: a bounded backlog in arrival order, refusals only  *)
(* with a cause, and a "drained" report that means every accepted job is done.*)
EXTENDS Naturals, Sequences, FiniteSets

CONSTANTS Jobs, Capacity, Concurrency

VARIABLES
  open,      \* jobs can still be accepted
  stopping,  \* a stop has been asked for
  backlog,   \* accepted jobs not yet begun, in order of acceptance
  running,   \* jobs a worker has taken
  finished,  \* jobs processed, successfully or not
  refused,   \* jobs whose submission was turned down
  drained    \* a stop has reported that everything is done

svcVars == <<open, stopping, backlog, running, finished, refused, drained>>

Waiting  == {backlog[i] : i \in 1..Len(backlog)}
Fresh(j) == j \notin Waiting \cup running \cup finished \cup refused

Init ==
  /\ open = TRUE /\ stopping = FALSE /\ drained = FALSE
  /\ backlog = <<>>
  /\ running = {} /\ finished = {} /\ refused = {}

Accept(j) ==
  /\ open /\ Fresh(j) /\ Len(backlog) < Capacity
  /\ backlog' = Append(backlog, j)
  /\ UNCHANGED <<open, stopping, running, finished, refused, drained>>

\* A refusal has a cause: the service is stopping or the backlog is full.
Refuse(j) ==
  /\ Fresh(j)
  /\ stopping \/ Len(backlog) = Capacity
  /\ refused' = refused \cup {j}
  /\ UNCHANGED <<open, stopping, backlog, running, finished, drained>>

Begin ==
  /\ backlog # <<>> /\ Cardinality(running) < Concurrency
  /\ running' = running \cup {Head(backlog)}
  /\ backlog' = Tail(backlog)
  /\ UNCHANGED <<open, stopping, finished, refused, drained>>

Finish(j) ==
  /\ j \in running
  /\ running' = running \ {j}
  /\ finished' = finished \cup {j}
  /\ UNCHANGED <<open, stopping, backlog, refused, drained>>

AskStop ==
  /\ stopping' = TRUE
  /\ UNCHANGED <<open, backlog, running, finished, refused, drained>>

Close ==
  /\ stopping /\ open
  /\ open' = FALSE
  /\ UNCHANGED <<stopping, backlog, running, finished, refused, drained>>

ReportDrained ==
  /\ ~open /\ backlog = <<>> /\ running = {}
  /\ drained' = TRUE
  /\ UNCHANGED <<open, stopping, backlog, running, finished, refused>>

Next ==
  \/ \E j \in Jobs : Accept(j) \/ Refuse(j) \/ Finish(j)
  \/ Begin \/ AskStop \/ Close \/ ReportDrained

Fairness ==
  /\ WF_svcVars(Begin)
  /\ \A j \in Jobs : WF_svcVars(Finish(j))
  /\ WF_svcVars(Close)

Spec == Init /\ [][Next]_svcVars /\ Fairness
=============================================================================
