---------------------------- MODULE ServerProofs ----------------------------
(* Proofs about Server, for any number of requests, workers and slots: slots  *)
(* come back, answers are true, an exit without a timeout loses nothing.      *)
EXTENDS Server, FiniteSetTheorems, TLAPS

Positions == {"new", "checking", "sync", "async", "processing", "holding",
              "queued", "written", "returned"}

(* The types, without the bound of the slots. *)
Types ==
  /\ main \in {"serving", "shutdown", "stopping", "closing", "waiting", "exiting", "exited"}
  /\ handler \in [Requests -> Positions]
  /\ answer \in [Requests -> Statuses] /\ seen \in [Requests -> Statuses]
  /\ verdict \in [Requests -> {"none", "nil", "err"}]
  /\ late \in BOOLEAN /\ gaveUp \in BOOLEAN
  /\ open \in BOOLEAN /\ stopping \in BOOLEAN /\ drained \in BOOLEAN
  /\ backlog \in Seq(Requests) /\ Len(backlog) <= QueueSize
  /\ running \subseteq Requests /\ finished \subseteq Requests /\ refused \subseteq Requests

LEMMA TypesInit == Init => Types
<1> SUFFICES ASSUME Init PROVE Types
  OBVIOUS
<1>1. /\ handler \in [Requests -> Positions]
      /\ answer \in [Requests -> Statuses] /\ seen \in [Requests -> Statuses]
      /\ verdict \in [Requests -> {"none", "nil", "err"}]
  BY DEF Init, Positions, Statuses
<1>2. backlog \in Seq(Requests) /\ Len(backlog) <= QueueSize
  BY ServerAssumption DEF Init, Pool!Init
<1>3. /\ open \in BOOLEAN /\ stopping \in BOOLEAN /\ drained \in BOOLEAN
      /\ running \subseteq Requests /\ finished \subseteq Requests /\ refused \subseteq Requests
  BY DEF Init, Pool!Init
<1> QED BY <1>1, <1>2, <1>3 DEF Init, Types

LEMMA TypesStep == Types /\ [Next]_vars => Types'
<1> SUFFICES ASSUME Types, [Next]_vars PROVE Types'
  OBVIOUS
<1> USE DEF Types, Positions, Statuses, mainVars, httpVars, poolVars, Write
<1>1. ASSUME NEW r \in Requests, Arrive(r) PROVE Types'
  BY <1>1 DEF Arrive
<1>2. ASSUME NEW r \in Requests, Check(r) PROVE Types'
  BY <1>2 DEF Check
<1>3. ASSUME NEW r \in Requests, TakeSlot(r) PROVE Types'
  BY <1>3 DEF TakeSlot
<1>4. ASSUME NEW r \in Requests, FinishSync(r) PROVE Types'
  BY <1>4 DEF FinishSync, StatusOf
<1>5. ASSUME NEW r \in Requests, ReleaseSlot(r) PROVE Types'
  BY <1>5 DEF ReleaseSlot
<1>6. ASSUME NEW r \in Requests, SubmitAccepted(r) PROVE Types'
  <2>1. backlog' \in Seq(Requests) /\ Len(backlog') <= QueueSize
    BY <1>6, ServerAssumption DEF SubmitAccepted, Pool!Accept
  <2> QED BY <1>6, <2>1 DEF SubmitAccepted, Pool!Accept
<1>7. ASSUME NEW r \in Requests, SubmitRefused(r) PROVE Types'
  BY <1>7 DEF SubmitRefused, Pool!Refuse
<1>8. ASSUME NEW r \in Requests, WriteAccepted(r) PROVE Types'
  BY <1>8 DEF WriteAccepted
<1>9. ASSUME NEW r \in Requests, Deliver(r) PROVE Types'
  BY <1>9 DEF Deliver
<1>10. ASSUME WorkerBegins PROVE Types'
  <2>1. /\ Head(backlog) \in Requests
        /\ Tail(backlog) \in Seq(Requests) /\ Len(Tail(backlog)) <= QueueSize
    BY <1>10, ServerAssumption DEF WorkerBegins, Pool!Begin
  <2> QED BY <1>10, <2>1 DEF WorkerBegins, Pool!Begin
<1>11. ASSUME NEW r \in Requests, WorkerFinishes(r) PROVE Types'
  BY <1>11 DEF WorkerFinishes, Pool!Finish
<1>12. ASSUME Signal PROVE Types'
  BY <1>12 DEF Signal
<1>13. ASSUME ShutdownReturns PROVE Types'
  BY <1>13 DEF ShutdownReturns
<1>14. ASSUME PoolStopBegins PROVE Types'
  BY <1>14 DEF PoolStopBegins, Pool!AskStop
<1>15. ASSUME PoolCloses PROVE Types'
  BY <1>15 DEF PoolCloses, Pool!Close
<1>16. ASSUME PoolDrained PROVE Types'
  BY <1>16 DEF PoolDrained, Pool!ReportDrained
<1>17. ASSUME PoolStopTimesOut PROVE Types'
  BY <1>17 DEF PoolStopTimesOut
<1>18. ASSUME Exit PROVE Types'
  BY <1>18 DEF Exit
<1>19. ASSUME UNCHANGED vars PROVE Types'
  BY <1>19 DEF vars
<1> QED
  BY <1>1, <1>2, <1>3, <1>4, <1>5, <1>6, <1>7, <1>8, <1>9, <1>10, <1>11, <1>12,
     <1>13, <1>14, <1>15, <1>16, <1>17, <1>18, <1>19 DEF Next, HandlerStep, MainStep
-----------------------------------------------------------------------------
(* The slots: one token for each handler between the select and the deferred  *)
(* release, and no more jobs running in the pool than it has workers.         *)
Taking  == {"processing", "holding"}
Holders == {r \in Requests : handler[r] \in Taking}

SlotInv ==
  /\ syncSem \in 0..WorkerCount /\ syncSem = Cardinality(Holders)
  /\ Cardinality(running) <= WorkerCount

LEMMA HoldersFinite ==
  ASSUME Types
  PROVE  IsFiniteSet(Holders) /\ IsFiniteSet(running)
<1>1. Holders \subseteq Requests /\ running \subseteq Requests
  BY DEF Holders, Types
<1> QED BY <1>1, ServerAssumption, FS_Subset

\* A handler that moves takes a slot, gives one back, or does neither.
LEMMA HolderMoves ==
  ASSUME Types, NEW r \in Requests, NEW p \in Positions,
         handler' = [handler EXCEPT ![r] = p]
  PROVE  /\ (handler[r] \in Taking <=> p \in Taking) => Holders' = Holders
         /\ handler[r] \notin Taking /\ p \in Taking =>
              Holders' = Holders \cup {r} /\ r \notin Holders
         /\ handler[r] \in Taking /\ p \notin Taking =>
              Holders' = Holders \ {r} /\ r \in Holders
<1>1. \A q \in Requests : handler'[q] = IF q = r THEN p ELSE handler[q]
  BY DEF Types
<1>2. (handler[r] \in Taking <=> p \in Taking) => Holders' = Holders
  BY <1>1 DEF Holders
<1>3. handler[r] \notin Taking /\ p \in Taking =>
        Holders' = Holders \cup {r} /\ r \notin Holders
  BY <1>1 DEF Holders
<1>4. handler[r] \in Taking /\ p \notin Taking =>
        Holders' = Holders \ {r} /\ r \in Holders
  BY <1>1 DEF Holders
<1> QED BY <1>2, <1>3, <1>4

LEMMA SlotInit == Init => SlotInv
<1> SUFFICES ASSUME Init PROVE SlotInv
  OBVIOUS
<1>1. Holders = {} /\ running = {} /\ syncSem = 0
  BY DEF Init, Pool!Init, Holders, Taking
<1> QED BY <1>1, FS_EmptySet, ServerAssumption DEF SlotInv

LEMMA SlotStep == Types /\ SlotInv /\ [Next]_vars => SlotInv'
<1> SUFFICES ASSUME Types, SlotInv, [Next]_vars PROVE SlotInv'
  OBVIOUS
<1> USE DEF mainVars, httpVars, poolVars, Write
<1>a. ASSUME Holders' = Holders, syncSem' = syncSem, running' = running PROVE SlotInv'
  BY <1>a DEF SlotInv
<1>b. ASSUME NEW r \in Requests, NEW p \in Positions \ Taking, handler[r] \notin Taking,
             handler' = [handler EXCEPT ![r] = p], syncSem' = syncSem, running' = running
      PROVE  SlotInv'
  BY <1>a, <1>b, HolderMoves
<1>c. ASSUME handler' = handler PROVE Holders' = Holders
  BY <1>c DEF Holders
<1> HIDE DEF SlotInv
<1>1. ASSUME NEW r \in Requests, Arrive(r) PROVE SlotInv'
  BY <1>1, <1>b DEF Arrive, Positions, Taking
<1>2. ASSUME NEW r \in Requests, Check(r) PROVE SlotInv'
  BY <1>2, <1>b DEF Check, Positions, Taking
<1>3. ASSUME NEW r \in Requests, TakeSlot(r) PROVE SlotInv'
  <2>1. CASE SlotFree /\ syncSem' = syncSem + 1 /\ handler' = [handler EXCEPT ![r] = "processing"]
    <3>1. Holders' = Holders \cup {r} /\ r \notin Holders
      BY <1>3, <2>1, HolderMoves DEF TakeSlot, Positions, Taking
    <3>2. Cardinality(Holders') = Cardinality(Holders) + 1
      BY <3>1, HoldersFinite, FS_AddElement
    <3>3. running' = running
      BY <1>3 DEF TakeSlot
    <3> QED BY <2>1, <3>2, <3>3, ServerAssumption DEF SlotInv, SlotFree
  <2>2. CASE handler' = [handler EXCEPT ![r] = "written"] /\ UNCHANGED syncSem
    BY <1>3, <1>b, <2>2 DEF TakeSlot, Positions, Taking
  <2> QED BY <1>3, <2>1, <2>2 DEF TakeSlot
<1>4. ASSUME NEW r \in Requests, FinishSync(r) PROVE SlotInv'
  <2>1. /\ handler[r] = "processing" /\ handler' = [handler EXCEPT ![r] = "holding"]
        /\ syncSem' = syncSem /\ running' = running
    BY <1>4 DEF FinishSync
  <2>2. Holders' = Holders
    BY <2>1, HolderMoves DEF Positions, Taking
  <2> QED BY <1>a, <2>1, <2>2
<1>5. ASSUME NEW r \in Requests, ReleaseSlot(r) PROVE SlotInv'
  <2>1. /\ handler[r] = "holding" /\ handler' = [handler EXCEPT ![r] = "written"]
        /\ syncSem' = syncSem - 1 /\ running' = running
    BY <1>5 DEF ReleaseSlot
  <2>2. Holders' = Holders \ {r} /\ r \in Holders
    BY <2>1, HolderMoves DEF Positions, Taking
  <2>3. Cardinality(Holders') = Cardinality(Holders) - 1 /\ Cardinality(Holders) # 0
    BY <2>2, HoldersFinite, FS_RemoveElement, FS_EmptySet
  <2> QED BY <2>1, <2>3, ServerAssumption DEF SlotInv
<1>6. ASSUME NEW r \in Requests, SubmitAccepted(r) PROVE SlotInv'
  BY <1>6, <1>b DEF SubmitAccepted, Pool!Accept, Positions, Taking
<1>7. ASSUME NEW r \in Requests, SubmitRefused(r) PROVE SlotInv'
  BY <1>7, <1>b DEF SubmitRefused, Pool!Refuse, Positions, Taking
<1>8. ASSUME NEW r \in Requests, WriteAccepted(r) PROVE SlotInv'
  BY <1>8, <1>b DEF WriteAccepted, Positions, Taking
<1>9. ASSUME NEW r \in Requests, Deliver(r) PROVE SlotInv'
  BY <1>9, <1>b DEF Deliver, Positions, Taking
<1>10. ASSUME WorkerBegins PROVE SlotInv'
  <2>1. /\ running' = running \cup {Head(backlog)} /\ handler' = handler /\ syncSem' = syncSem
        /\ Pool!Cardinality(running) < WorkerCount
    BY <1>10 DEF WorkerBegins, Pool!Begin
  <2>2. Pool!Cardinality(running) = Cardinality(running)
    BY DEF Pool!Cardinality, Cardinality
  <2>3. /\ IsFiniteSet(running \cup {Head(backlog)})
        /\ \/ Cardinality(running \cup {Head(backlog)}) = Cardinality(running)
           \/ Cardinality(running \cup {Head(backlog)}) = Cardinality(running) + 1
    BY HoldersFinite, FS_AddElement
  <2>4. Holders' = Holders
    BY <1>c, <2>1
  <2>5. Cardinality(running) \in Nat
    BY HoldersFinite, FS_CardinalityType
  <2>6. Cardinality(running) < WorkerCount
    BY <2>1, <2>2
  <2>7. Cardinality(running \cup {Head(backlog)}) <= WorkerCount
    BY <2>3, <2>5, <2>6, ServerAssumption
  <2> QED BY <2>1, <2>4, <2>7 DEF SlotInv
<1>11. ASSUME NEW r \in Requests, WorkerFinishes(r) PROVE SlotInv'
  <2>1. running' = running \ {r} /\ handler' = handler /\ syncSem' = syncSem
    BY <1>11 DEF WorkerFinishes, Pool!Finish
  <2>2. running' \in SUBSET running
    BY <2>1
  <2>3. Cardinality(running') <= Cardinality(running)
    BY <2>2, HoldersFinite, FS_Subset
  <2>4. Cardinality(running') \in Nat /\ Cardinality(running) \in Nat
    BY <2>2, HoldersFinite, FS_Subset, FS_CardinalityType
  <2>5. Holders' = Holders
    BY <1>c, <2>1
  <2> QED BY <2>1, <2>3, <2>4, <2>5, ServerAssumption DEF SlotInv
<1>12. ASSUME Signal PROVE SlotInv'
  BY <1>12, <1>a, <1>c DEF Signal
<1>13. ASSUME ShutdownReturns PROVE SlotInv'
  BY <1>13, <1>a, <1>c DEF ShutdownReturns
<1>14. ASSUME PoolStopBegins PROVE SlotInv'
  BY <1>14, <1>a, <1>c DEF PoolStopBegins, Pool!AskStop
<1>15. ASSUME PoolCloses PROVE SlotInv'
  BY <1>15, <1>a, <1>c DEF PoolCloses, Pool!Close
<1>16. ASSUME PoolDrained PROVE SlotInv'
  BY <1>16, <1>a, <1>c DEF PoolDrained, Pool!ReportDrained
<1>17. ASSUME PoolStopTimesOut PROVE SlotInv'
  BY <1>17, <1>a, <1>c DEF PoolStopTimesOut
<1>18. ASSUME Exit PROVE SlotInv'
  BY <1>18, <1>a, <1>c DEF Exit
<1>19. ASSUME UNCHANGED vars PROVE SlotInv'
  BY <1>19, <1>a, <1>c DEF vars
<1> QED
  BY <1>1, <1>2, <1>3, <1>4, <1>5, <1>6, <1>7, <1>8, <1>9, <1>10, <1>11, <1>12,
     <1>13, <1>14, <1>15, <1>16, <1>17, <1>18, <1>19 DEF Next, HandlerStep, MainStep
-----------------------------------------------------------------------------
(* Where a request is, what its handler has answered and where its job is.    *)
InPool(r) == r \in Pool!Waiting \cup running \cup finished

\* Where a job is while its handler has answered nothing.
Unanswered(r) ==
  /\ answer[r] = 0
  /\ handler[r] # "queued" => verdict[r] = "none" /\ ~InPool(r)
  /\ handler[r] = "queued" => InPool(r)

\* What the status a handler wrote says of its job.
Meant(r) ==
  \/ answer[r] = 200 /\ verdict[r] = "nil" /\ ~InPool(r)
  \/ answer[r] = 500 /\ verdict[r] = "err" /\ ~InPool(r)
  \/ answer[r] \in {400, 503} /\ verdict[r] = "none" /\ ~InPool(r) /\ handler[r] # "holding"
  \/ answer[r] = 202 /\ InPool(r) /\ handler[r] # "holding"

AnswerInv ==
  \A r \in Requests :
    /\ seen[r] \in {0, answer[r]}
    /\ IF handler[r] \in {"holding", "written", "returned"} THEN Meant(r) ELSE Unanswered(r)

LEMMA AnswerInit == Init => AnswerInv
<1> SUFFICES ASSUME Init, NEW r \in Requests
             PROVE  seen[r] = 0 /\ answer[r] = 0 /\ handler[r] = "new"
                    /\ verdict[r] = "none" /\ ~InPool(r)
  BY DEF AnswerInv, Unanswered
<1>1. Pool!Waiting = {} /\ running = {} /\ finished = {}
  BY DEF Init, Pool!Init, Pool!Waiting
<1> QED BY <1>1 DEF Init, InPool

\* The pool takes in only the job it accepts, and gives none away.
LEMMA AcceptMoves ==
  ASSUME Types, NEW j \in Requests, Pool!Accept(j)
  PROVE  \A r \in Requests : InPool(r)' <=> InPool(r) \/ r = j
<1>1. backlog' = Append(backlog, j) /\ running' = running /\ finished' = finished
  BY DEF Pool!Accept
<1>2. backlog \in Seq(Requests)
  BY DEF Types
<1>3. Pool!Waiting' = Pool!Waiting \cup {j}
  <2>1. Len(backlog') = Len(backlog) + 1 /\ Len(backlog) \in Nat /\ backlog'[Len(backlog) + 1] = j
        /\ \A i \in 1..Len(backlog) : backlog'[i] = backlog[i]
    BY <1>1, <1>2
  <2>2. \A x : x \in Pool!Waiting' <=> x \in Pool!Waiting \cup {j}
    BY <2>1 DEF Pool!Waiting
  <2> QED BY <2>2
<1> QED BY <1>1, <1>3 DEF InPool

LEMMA BeginMoves ==
  ASSUME Types, Pool!Begin
  PROVE  \A r \in Requests : InPool(r)' <=> InPool(r)
<1>1. /\ backlog # <<>> /\ backlog' = Tail(backlog)
      /\ running' = running \cup {Head(backlog)} /\ finished' = finished
  BY DEF Pool!Begin
<1>2. backlog \in Seq(Requests)
  BY DEF Types
<1>3. Pool!Waiting = Pool!Waiting' \cup {Head(backlog)}
  <2>1. /\ Len(backlog) \in Nat \ {0} /\ Len(backlog') = Len(backlog) - 1
        /\ Head(backlog) = backlog[1]
        /\ \A i \in 1..Len(backlog') : backlog'[i] = backlog[i + 1]
    BY <1>1, <1>2
  <2>2. ASSUME NEW x \in Pool!Waiting PROVE x \in Pool!Waiting' \cup {Head(backlog)}
    <3>1. PICK i \in 1..Len(backlog) : x = backlog[i]
      BY <2>2 DEF Pool!Waiting
    <3>2. CASE i = 1
      BY <2>1, <3>1, <3>2
    <3>3. CASE i # 1
      <4>1. i - 1 \in 1..Len(backlog') /\ backlog'[i - 1] = x
        BY <2>1, <3>1, <3>3
      <4> QED BY <4>1 DEF Pool!Waiting
    <3> QED BY <3>2, <3>3
  <2>3. ASSUME NEW x \in Pool!Waiting' \cup {Head(backlog)} PROVE x \in Pool!Waiting
    BY <2>1, <2>3 DEF Pool!Waiting
  <2> QED BY <2>2, <2>3
<1> QED BY <1>1, <1>3 DEF InPool

LEMMA FinishMoves ==
  ASSUME NEW j \in Requests, Pool!Finish(j)
  PROVE  \A r \in Requests : InPool(r)' <=> InPool(r)
  BY DEF Pool!Finish, Pool!Waiting, InPool

LEMMA PoolUnchanged ==
  ASSUME backlog' = backlog, running' = running, finished' = finished
  PROVE  \A r \in Requests : InPool(r)' <=> InPool(r)
  BY DEF Pool!Waiting, InPool

LEMMA AnswerStep == Types /\ AnswerInv /\ [Next]_vars => AnswerInv'
<1> SUFFICES ASSUME Types, AnswerInv, [Next]_vars PROVE AnswerInv'
  OBVIOUS
<1> USE DEF mainVars, httpVars, poolVars
<1> DEFINE Same(q) == /\ handler'[q] = handler[q] /\ answer'[q] = answer[q]
                      /\ seen'[q] = seen[q] /\ verdict'[q] = verdict[q]
                      /\ InPool(q)' <=> InPool(q)
           Good(q) == /\ seen[q] \in {0, answer[q]}
                      /\ IF handler[q] \in {"holding", "written", "returned"}
                           THEN Meant(q) ELSE Unanswered(q)
<1>a. ASSUME NEW q \in Requests, Same(q) PROVE Good(q)'
  BY <1>a DEF AnswerInv, Meant, Unanswered
\* Only the request of the handler that moves changes.
<1>b. ASSUME NEW r \in Requests, \A q \in Requests \ {r} : Same(q), Good(r)' PROVE AnswerInv'
  BY <1>a, <1>b DEF AnswerInv
<1>c. ASSUME \A q \in Requests : Same(q) PROVE AnswerInv'
  BY <1>a, <1>c DEF AnswerInv
<1> USE DEF Types, Write
<1>1. ASSUME NEW r \in Requests, Arrive(r) PROVE AnswerInv'
  <2>1. \A q \in Requests : InPool(q)' <=> InPool(q)
    BY <1>1, PoolUnchanged DEF Arrive
  <2>2. \A q \in Requests \ {r} : Same(q)
    BY <1>1, <2>1 DEF Arrive
  <2>3. Good(r)'
    BY <1>1, <2>1 DEF Arrive, AnswerInv, Unanswered, Meant
  <2> QED BY <1>b, <2>2, <2>3
<1>2. ASSUME NEW r \in Requests, Check(r) PROVE AnswerInv'
  <2>1. \A q \in Requests : InPool(q)' <=> InPool(q)
    BY <1>2, PoolUnchanged DEF Check
  <2>2. \A q \in Requests \ {r} : Same(q)
    BY <1>2, <2>1 DEF Check
  <2>3. Good(r)'
    BY <1>2, <2>1 DEF Check, AnswerInv, Unanswered, Meant
  <2> QED BY <1>b, <2>2, <2>3
<1>3. ASSUME NEW r \in Requests, TakeSlot(r) PROVE AnswerInv'
  <2>1. \A q \in Requests : InPool(q)' <=> InPool(q)
    BY <1>3, PoolUnchanged DEF TakeSlot
  <2>2. \A q \in Requests \ {r} : Same(q)
    BY <1>3, <2>1 DEF TakeSlot
  <2>3. Good(r)'
    BY <1>3, <2>1 DEF TakeSlot, AnswerInv, Unanswered, Meant
  <2> QED BY <1>b, <2>2, <2>3
<1>4. ASSUME NEW r \in Requests, FinishSync(r) PROVE AnswerInv'
  <2>1. \A q \in Requests : InPool(q)' <=> InPool(q)
    BY <1>4, PoolUnchanged DEF FinishSync
  <2>2. \A q \in Requests \ {r} : Same(q)
    BY <1>4, <2>1 DEF FinishSync
  <2>3. Good(r)'
    BY <1>4, <2>1 DEF FinishSync, StatusOf, AnswerInv, Unanswered, Meant
  <2> QED BY <1>b, <2>2, <2>3
<1>5. ASSUME NEW r \in Requests, ReleaseSlot(r) PROVE AnswerInv'
  <2>1. \A q \in Requests : InPool(q)' <=> InPool(q)
    BY <1>5, PoolUnchanged DEF ReleaseSlot
  <2>2. \A q \in Requests \ {r} : Same(q)
    BY <1>5, <2>1 DEF ReleaseSlot
  <2>3. Good(r)'
    BY <1>5, <2>1 DEF ReleaseSlot, AnswerInv, Unanswered, Meant
  <2> QED BY <1>b, <2>2, <2>3
<1>6. ASSUME NEW r \in Requests, SubmitAccepted(r) PROVE AnswerInv'
  <2>1. \A q \in Requests : InPool(q)' <=> InPool(q) \/ q = r
    BY <1>6, AcceptMoves DEF SubmitAccepted
  <2>2. \A q \in Requests \ {r} : Same(q)
    BY <1>6, <2>1 DEF SubmitAccepted
  <2>3. Good(r)'
    BY <1>6, <2>1 DEF SubmitAccepted, AnswerInv, Unanswered, Meant
  <2> QED BY <1>b, <2>2, <2>3
<1>7. ASSUME NEW r \in Requests, SubmitRefused(r) PROVE AnswerInv'
  <2>1. \A q \in Requests : InPool(q)' <=> InPool(q)
    BY <1>7, PoolUnchanged DEF SubmitRefused, Pool!Refuse
  <2>2. \A q \in Requests \ {r} : Same(q)
    BY <1>7, <2>1 DEF SubmitRefused
  <2>3. Good(r)'
    BY <1>7, <2>1 DEF SubmitRefused, AnswerInv, Unanswered, Meant
  <2> QED BY <1>b, <2>2, <2>3
<1>8. ASSUME NEW r \in Requests, WriteAccepted(r) PROVE AnswerInv'
  <2>1. \A q \in Requests : InPool(q)' <=> InPool(q)
    BY <1>8, PoolUnchanged DEF WriteAccepted
  <2>2. \A q \in Requests \ {r} : Same(q)
    BY <1>8, <2>1 DEF WriteAccepted
  <2>3. Good(r)'
    BY <1>8, <2>1 DEF WriteAccepted, AnswerInv, Unanswered, Meant
  <2> QED BY <1>b, <2>2, <2>3
<1>9. ASSUME NEW r \in Requests, Deliver(r) PROVE AnswerInv'
  <2>1. \A q \in Requests : InPool(q)' <=> InPool(q)
    BY <1>9, PoolUnchanged DEF Deliver
  <2>2. \A q \in Requests \ {r} : Same(q)
    BY <1>9, <2>1 DEF Deliver
  <2>3. Good(r)'
    BY <1>9, <2>1 DEF Deliver, AnswerInv, Unanswered, Meant
  <2> QED BY <1>b, <2>2, <2>3
<1>10. ASSUME WorkerBegins PROVE AnswerInv'
  BY <1>10, <1>c, BeginMoves DEF WorkerBegins
<1>11. ASSUME NEW r \in Requests, WorkerFinishes(r) PROVE AnswerInv'
  BY <1>11, <1>c, FinishMoves DEF WorkerFinishes
<1>12. ASSUME Signal PROVE AnswerInv'
  BY <1>12, <1>c, PoolUnchanged DEF Signal
<1>13. ASSUME ShutdownReturns PROVE AnswerInv'
  BY <1>13, <1>c, PoolUnchanged DEF ShutdownReturns
<1>14. ASSUME PoolStopBegins PROVE AnswerInv'
  BY <1>14, <1>c, PoolUnchanged DEF PoolStopBegins, Pool!AskStop
<1>15. ASSUME PoolCloses PROVE AnswerInv'
  BY <1>15, <1>c, PoolUnchanged DEF PoolCloses, Pool!Close
<1>16. ASSUME PoolDrained PROVE AnswerInv'
  BY <1>16, <1>c, PoolUnchanged DEF PoolDrained, Pool!ReportDrained
<1>17. ASSUME PoolStopTimesOut PROVE AnswerInv'
  BY <1>17, <1>c, PoolUnchanged DEF PoolStopTimesOut
<1>18. ASSUME Exit PROVE AnswerInv'
  BY <1>18, <1>c, PoolUnchanged DEF Exit
<1>19. ASSUME UNCHANGED vars PROVE AnswerInv'
  BY <1>19, <1>c, PoolUnchanged DEF vars
<1> QED
  BY <1>1, <1>2, <1>3, <1>4, <1>5, <1>6, <1>7, <1>8, <1>9, <1>10, <1>11, <1>12,
     <1>13, <1>14, <1>15, <1>16, <1>17, <1>18, <1>19 DEF Next, HandlerStep, MainStep
-----------------------------------------------------------------------------
(* What main knows at each stage of the shutdown.                             *)
PastShutdown == {"stopping", "closing", "waiting", "exiting", "exited"}

ExitInv ==
  /\ main \in PastShutdown /\ ~late => \A q \in Requests : ~InFlight(q)
  /\ main \in {"exiting", "exited"} /\ ~gaveUp => drained
  /\ drained => ~open /\ backlog = <<>> /\ running = {}

LEMMA ExitInit == Init => ExitInv
  BY DEF Init, Pool!Init, ExitInv, PastShutdown

LEMMA ExitStep == Types /\ ExitInv /\ [Next]_vars => ExitInv'
<1> SUFFICES ASSUME Types, ExitInv, [Next]_vars PROVE ExitInv'
  OBVIOUS
<1> USE DEF Types, ExitInv, PastShutdown, InFlight, mainVars, httpVars, poolVars
<1>1. ASSUME NEW r \in Requests, Arrive(r) PROVE ExitInv'
  BY <1>1 DEF Arrive
<1>2. ASSUME NEW r \in Requests, Check(r) PROVE ExitInv'
  BY <1>2 DEF Check, Write
<1>3. ASSUME NEW r \in Requests, TakeSlot(r) PROVE ExitInv'
  BY <1>3 DEF TakeSlot, Write
<1>4. ASSUME NEW r \in Requests, FinishSync(r) PROVE ExitInv'
  BY <1>4 DEF FinishSync, Write
<1>5. ASSUME NEW r \in Requests, ReleaseSlot(r) PROVE ExitInv'
  BY <1>5 DEF ReleaseSlot
<1>6. ASSUME NEW r \in Requests, SubmitAccepted(r) PROVE ExitInv'
  BY <1>6 DEF SubmitAccepted, Pool!Accept
<1>7. ASSUME NEW r \in Requests, SubmitRefused(r) PROVE ExitInv'
  BY <1>7 DEF SubmitRefused, Pool!Refuse, Write
<1>8. ASSUME NEW r \in Requests, WriteAccepted(r) PROVE ExitInv'
  BY <1>8 DEF WriteAccepted, Write
<1>9. ASSUME NEW r \in Requests, Deliver(r) PROVE ExitInv'
  BY <1>9 DEF Deliver
<1>10. ASSUME WorkerBegins PROVE ExitInv'
  BY <1>10 DEF WorkerBegins, Pool!Begin
<1>11. ASSUME NEW r \in Requests, WorkerFinishes(r) PROVE ExitInv'
  BY <1>11 DEF WorkerFinishes, Pool!Finish
<1>12. ASSUME Signal PROVE ExitInv'
  BY <1>12 DEF Signal
<1>13. ASSUME ShutdownReturns PROVE ExitInv'
  BY <1>13 DEF ShutdownReturns
<1>14. ASSUME PoolStopBegins PROVE ExitInv'
  BY <1>14 DEF PoolStopBegins, Pool!AskStop
<1>15. ASSUME PoolCloses PROVE ExitInv'
  BY <1>15 DEF PoolCloses, Pool!Close
<1>16. ASSUME PoolDrained PROVE ExitInv'
  BY <1>16 DEF PoolDrained, Pool!ReportDrained
<1>17. ASSUME PoolStopTimesOut PROVE ExitInv'
  BY <1>17 DEF PoolStopTimesOut
<1>18. ASSUME Exit PROVE ExitInv'
  BY <1>18 DEF Exit
<1>19. ASSUME UNCHANGED vars PROVE ExitInv'
  BY <1>19 DEF vars
<1> QED
  BY <1>1, <1>2, <1>3, <1>4, <1>5, <1>6, <1>7, <1>8, <1>9, <1>10, <1>11, <1>12,
     <1>13, <1>14, <1>15, <1>16, <1>17, <1>18, <1>19 DEF Next, HandlerStep, MainStep
-----------------------------------------------------------------------------
ServerInv == Types /\ SlotInv /\ AnswerInv /\ ExitInv

LEMMA ServerInvariant == Spec => []ServerInv
<1>1. Init => ServerInv
  BY TypesInit, SlotInit, AnswerInit, ExitInit DEF ServerInv
<1>2. ServerInv /\ [Next]_vars => ServerInv'
  BY TypesStep, SlotStep, AnswerStep, ExitStep DEF ServerInv
<1> QED BY <1>1, <1>2, PTL DEF Spec

\* The types, with never more slots taken than there are.
THEOREM ServerTypes == Spec => []TypeOK
<1>1. ServerInv => TypeOK
  BY DEF ServerInv, Types, SlotInv, TypeOK, Positions
<1> QED BY <1>1, ServerInvariant, PTL

\* Every slot comes back, and slots and workers together bound the jobs that are
\* processed at a time by 2 * WorkerCount.
THEOREM ServerBoundsJobs == Spec => []SlotsBoundJobs
<1>1. ASSUME ServerInv PROVE SlotsBoundJobs
  <2> USE DEF ServerInv
  <2> DEFINE P == {r \in Requests : handler[r] = "processing"}
  <2>1. Holders = {r \in Requests : handler[r] \in {"processing", "holding"}}
    BY DEF Holders, Taking
  <2>2. /\ IsFiniteSet(P) /\ IsFiniteSet(running) /\ IsFiniteSet(P \cap running)
        /\ Cardinality(P) <= Cardinality(Holders)
    <3>1. P \in SUBSET Holders
      BY DEF Holders, Taking
    <3>2. IsFiniteSet(P) /\ Cardinality(P) <= Cardinality(Holders)
      BY <1>1, <3>1, HoldersFinite, FS_Subset
    <3>3. IsFiniteSet(P \cap running)
      BY <3>2, FS_Subset
    <3> QED BY <1>1, <3>2, <3>3, HoldersFinite
  <2>3. Cardinality(running \cup P)
          = Cardinality(running) + Cardinality(P) - Cardinality(running \cap P)
    BY <2>2, FS_Union
  <2>4. IsFiniteSet(running \cap P)
    BY <2>2, FS_Subset
  <2>5. /\ Cardinality(running) \in Nat /\ Cardinality(P) \in Nat
        /\ Cardinality(running \cap P) \in Nat
    BY <2>2, <2>4, FS_CardinalityType
  <2>6. Cardinality(running \cup P) <= 2 * WorkerCount
    <3> HIDE DEF P
    <3>1. Cardinality(P) <= WorkerCount /\ Cardinality(running) <= WorkerCount
      BY <1>1, <2>2, <2>5, ServerAssumption DEF SlotInv
    <3> QED BY <2>3, <2>5, <3>1, ServerAssumption
  <2> QED BY <1>1, <2>1, <2>6 DEF SlotsBoundJobs, SlotInv, Processing
<1> QED BY <1>1, ServerInvariant, PTL

\* Every answer a client received is true, whatever the pool and the shutdown do.
THEOREM ServerAnswersAreTrue == Spec => []AnswersAreTrue
<1>1. ServerInv => AnswersAreTrue
  BY DEF ServerInv, AnswerInv, Meant, Unanswered, InPool, AnswersAreTrue
<1> QED BY <1>1, ServerInvariant, PTL

\* An exit in which no timeout passed has lost no handler and no accepted job.
THEOREM ServerExitsClean == Spec => []CleanExit
<1>1. ServerInv => CleanExit
  <2> SUFFICES ASSUME ServerInv, main = "exited", ~late, ~gaveUp, NEW r \in Requests
               PROVE  ~InFlight(r) /\ (answer[r] = 202 => r \in finished)
    BY DEF CleanExit
  <2>1. ~InFlight(r) /\ backlog = <<>> /\ running = {}
    BY DEF ServerInv, ExitInv, PastShutdown
  <2>2. Pool!Waiting = {}
    BY <2>1 DEF Pool!Waiting
  <2>3. answer[r] = 202 => InPool(r)
    BY DEF ServerInv, AnswerInv, Meant, Unanswered
  <2> QED BY <2>1, <2>2, <2>3 DEF InPool
<1> QED BY <1>1, ServerInvariant, PTL
=============================================================================
