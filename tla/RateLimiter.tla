----------------------------- MODULE RateLimiter -----------------------------
(* pkg/ratelimit/limiter.go: a fixed-window limiter per key, and the goroutine*)
(* that throws away expired windows.  Allow and one pass of cleanup hold the  *)
(* mutex from end to end, the reading of the clock included, so each is one   *)
(* action.  Time is a natural number; the ticker has a channel of capacity 1. *)
EXTENDS Naturals, Sequences

CONSTANTS
  Keys,     \* the keys asked for: repositories
  Rate,     \* requests per window
  Window,   \* the length of a window
  MaxTime   \* bound: the clock stops here

\* main.go:87 makes a limiter only for a positive rate.
ASSUME LimiterAssumption ==
  Rate \in Nat \ {0} /\ Window \in Nat \ {0} /\ MaxTime \in Nat

NoBucket == [count |-> 0, resetAt |-> 0]   \* the key is not in the map

VARIABLES
  now,       \* the clock
  limits,    \* Limiter.limits: [count, resetAt] of each key, or NoBucket
  nextTick,  \* when cleanupT fires next
  tick,      \* a tick waits in cleanupT.C
  done,      \* Stop was called: done is closed, the ticker stopped
  cleaner,   \* the cleanup goroutine: "running" or "exited"
  grants,    \* history: each key's grants, [at: when, start: of which window]
  denials    \* history: the times at which each key was denied

vars == <<now, limits, nextTick, tick, done, cleaner, grants, denials>>

Init ==
  /\ now = 0
  /\ limits = [k \in Keys |-> NoBucket]
  /\ nextTick = 2 * Window /\ tick = FALSE
  /\ done = FALSE /\ cleaner = "running"
  /\ grants = [k \in Keys |-> <<>>]
  /\ denials = [k \in Keys |-> {}]

AdvanceTicker ==
  IF now' >= nextTick /\ ~done
    THEN tick' = TRUE /\ nextTick' = nextTick + 2 * Window
    ELSE UNCHANGED <<tick, nextTick>>

Advance ==
  /\ now < MaxTime
  /\ now' = now + 1
  /\ AdvanceTicker
  /\ UNCHANGED <<limits, done, cleaner, grants, denials>>

MutantExpired(b) == now >= b.resetAt
Expired(b) == now > b.resetAt

(* Allow: its three outcomes. *)
NeedsNewBucket(k) == limits[k] = NoBucket \/ Expired(limits[k])

MutantBelowRate(k) == limits[k].count < Rate + 1
BelowRate(k) == limits[k].count < Rate

RecordGrant(k, start) ==
  grants' = [grants EXCEPT ![k] = Append(@, [at |-> now, start |-> start])]

AllowNewBucket(k) ==
  /\ NeedsNewBucket(k)
  /\ limits' = [limits EXCEPT ![k] = [count |-> 1, resetAt |-> now + Window]]
  /\ RecordGrant(k, now)
  /\ UNCHANGED <<now, nextTick, tick, done, cleaner, denials>>

AllowCounted(k) ==
  /\ ~NeedsNewBucket(k)
  /\ BelowRate(k)
  /\ limits' = [limits EXCEPT ![k].count = @ + 1]
  /\ RecordGrant(k, limits[k].resetAt - Window)
  /\ UNCHANGED <<now, nextTick, tick, done, cleaner, denials>>

MutantDeny(k) ==
  /\ ~NeedsNewBucket(k)
  /\ limits[k].count >= Rate - 1
  /\ denials' = [denials EXCEPT ![k] = @ \cup {now}]
  /\ UNCHANGED <<now, limits, nextTick, tick, done, cleaner, grants>>
Deny(k) ==
  /\ ~NeedsNewBucket(k)
  /\ ~BelowRate(k)
  /\ denials' = [denials EXCEPT ![k] = @ \cup {now}]
  /\ UNCHANGED <<now, limits, nextTick, tick, done, cleaner, grants>>

Allow(k) == AllowNewBucket(k) \/ AllowCounted(k) \/ Deny(k)

MutantCleanup ==
  /\ cleaner = "running" /\ tick
  /\ tick' = FALSE /\ cleaner' = "exited"
  /\ limits' = [k \in Keys |-> IF Expired(limits[k]) THEN NoBucket ELSE limits[k]]
  /\ UNCHANGED <<now, nextTick, done, grants, denials>>

\* The select of cleanup takes either ready case, so a last pass may follow Stop.
Cleanup ==
  /\ cleaner = "running" /\ tick
  /\ tick' = FALSE
  /\ limits' = [k \in Keys |-> IF Expired(limits[k]) THEN NoBucket ELSE limits[k]]
  /\ UNCHANGED <<now, nextTick, done, cleaner, grants, denials>>

CleanerExit ==
  /\ cleaner = "running" /\ done
  /\ cleaner' = "exited"
  /\ UNCHANGED <<now, limits, nextTick, tick, done, grants, denials>>

\* Called once, by main; a second close of done would panic.
Stop ==
  /\ ~done
  /\ done' = TRUE
  /\ UNCHANGED <<now, limits, nextTick, tick, cleaner, grants, denials>>

Next ==
  \/ Advance
  \/ \E k \in Keys : Allow(k)
  \/ Cleanup \/ CleanerExit \/ Stop

\* Time passes and the cleanup goroutine is scheduled; nobody has to ask.
Fairness == WF_vars(Advance) /\ WF_vars(Cleanup \/ CleanerExit)

Spec == Init /\ [][Next]_vars /\ Fairness
-----------------------------------------------------------------------------
Grant  == [at : Nat, start : Nat]
Bucket == [count : Nat, resetAt : Nat]

TypeOK ==
  /\ now \in 0..MaxTime
  /\ limits \in [Keys -> Bucket]
  /\ \A k \in Keys : limits[k].count <= Rate
  /\ nextTick \in Nat /\ tick \in BOOLEAN
  /\ done \in BOOLEAN /\ cleaner \in {"running", "exited"}
  /\ grants \in [Keys -> Seq(Grant)]
  /\ denials \in [Keys -> SUBSET Nat]

\* What the window bounds, whatever the cleanup goroutine throws away and when:
\* of any 2 * Rate successive grants to a key the last comes more than a window
\* after the first, so no stretch of one window holds 2 * Rate of them.
SlidingBound ==
  \A k \in Keys : \A i, j \in 1..Len(grants[k]) :
    j = i + 2 * Rate - 1 => grants[k][j].at > grants[k][i].at + Window

\* A key is denied only when it had Rate grants in the window before.
DenialJustified ==
  \A k \in Keys : \A t \in denials[k] :
    \E i, j \in 1..Len(grants[k]) :
      /\ j = i + Rate - 1
      /\ grants[k][j].at <= t /\ t <= grants[k][i].at + Window

\* The map does not grow for ever: an expired window is thrown away, or replaced,
\* by the tick that follows, unless the limiter is stopped first.
ExpiredIsReclaimed ==
  \A k \in Keys, r \in 1..MaxTime :
    (limits[k].resetAt = r /\ r + 2 * Window <= MaxTime)
      ~> (limits[k].resetAt # r \/ done)
=============================================================================
