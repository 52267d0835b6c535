------------------------------ MODULE Admission ------------------------------
(* pkg/config/config.go and the checks of cmd/server/main.go handleWebhook:   *)
(* from the environment to a server, and from a request to a job, over the    *)
(* rate limiter.  A handler counts the request before it has read the body,   *)
(* so time passes and other requests are counted in between.  Which refusal   *)
(* the client is told is not kept, and a refusal before the limiter changes   *)
(* nothing.  A repository is the sequence of the names between its slashes.   *)
EXTENDS RateLimiter, FiniteSets, SequencesExt

CONSTANTS
  Envs,      \* environments the process may be started in
  Requests,  \* what a handler sees first: [post, bearer, genuine, repo]
  Payloads,  \* what a handler finds in a body
  Handlers,  \* the handlers that may run at a time
  Lower,     \* strings.ToLower, on names
  Names,     \* names of letters, digits, dashes, dots and underscores
  Star,      \* the name "*"
  Unset, Malformed,  \* an environment variable is not set, or not of its type
  Idle,      \* a handler that has no request
  MaxJobs    \* bound: so many jobs of a repository are counted

LowerCase(repo) == [n \in DOMAIN repo |-> Lower[repo[n]]]
-----------------------------------------------------------------------------
(* config.Load.  JOB_TIMEOUT is in seconds. *)

Default == [PORT |-> 8080, METRICS_PORT |-> 9090, WORKER_COUNT |-> 1, QUEUE_SIZE |-> 100,
            RATE_LIMIT_PER_REPO |-> 10, JOB_TIMEOUT |-> 600, ARGOCD_PLAINTEXT |-> TRUE]

Setting(e, name) == IF e[name] = Unset THEN Default[name] ELSE e[name]

Validate(e) ==
  /\ Setting(e, "PORT") \in 1..65535 /\ Setting(e, "METRICS_PORT") \in 1..65535
  /\ Setting(e, "WORKER_COUNT") >= 1 /\ Setting(e, "QUEUE_SIZE") >= 1
  /\ Setting(e, "RATE_LIMIT_PER_REPO") >= 0
  /\ Setting(e, "JOB_TIMEOUT") > 0

\* Entries are separated by commas, and blank ones are dropped.
ParseAllowlist(entries) == ToSet(entries) \ {<<>>}

Loads(e) ==
  /\ \A name \in DOMAIN Default : e[name] # Malformed
  /\ Validate(e)
  /\ ParseAllowlist(e.REPO_ALLOWLIST) # {}

MatchPattern(pattern, repo) ==
  LET p == LowerCase(pattern)
      r == LowerCase(repo)
  IN  \/ p = <<Star, Star>>
      \/ p = r
      \/ Len(p) > 1 /\ Last(p) = Star
           /\ Len(r) >= Len(p) /\ SubSeq(r, 1, Len(p) - 1) = Front(p)

\* GitHub writes a repository in its tokens as an owner and a name, and spells it in
\* one way only.
ASSUME AdmissionAssumption ==
  /\ IsFiniteSet(Handlers) /\ Idle \notin Keys
  /\ \A k \in Keys : k \in Seq(DOMAIN Lower) /\ Len(k) = 2
  /\ \A k, l \in Keys : LowerCase(k) = LowerCase(l) => k = l
  /\ \A q \in Requests : q.repo \in Keys
  /\ MaxJobs \in Nat

\* RateLimiter's Rate is the one the environment sets, if it sets one.
ASSUME EnvironmentAssumption ==
  \A e \in Envs :
    /\ \A pattern \in ToSet(e.REPO_ALLOWLIST) : pattern \in Seq(DOMAIN Lower)
    /\ Loads(e) => Setting(e, "RATE_LIMIT_PER_REPO") \in {0, Rate}
-----------------------------------------------------------------------------
VARIABLES
  env,      \* the environment, which Config is read from
  server,   \* main: "loading", "serving" or "failed"
  handler,  \* the repository of the token each handler is serving, or Idle
  jobs      \* history: how many jobs passed every check, by their repository

admissionVars == <<env, server, handler, jobs>>

AdmissionInit ==
  /\ env \in Envs /\ server = "loading"
  /\ handler = [h \in Handlers |-> Idle]
  /\ jobs = [r \in {LowerCase(k) : k \in Keys} |-> 0]
  /\ Init

\* The environment may load and the keys of the OIDC provider still be out of reach.
Load ==
  /\ server = "loading"
  /\ \/ Loads(env) /\ server' = "serving"
     \/ server' = "failed"
  /\ UNCHANGED <<env, handler, jobs, vars>>

Limited == Setting(env, "RATE_LIMIT_PER_REPO") > 0

IsRepoAllowed(repo) ==
  \E p \in ParseAllowlist(env.REPO_ALLOWLIST) : MatchPattern(p, repo)

\* Method, bearer token, its validation, allowlist.
MutantReachesLimiter(q) == q.post /\ q.bearer /\ q.genuine
ReachesLimiter(q) == q.post /\ q.bearer /\ q.genuine /\ IsRepoAllowed(q.repo)

CountRequest(h, q) ==
  /\ server = "serving" /\ handler[h] = Idle
  /\ \A r \in DOMAIN jobs : jobs[r] < MaxJobs
  /\ ReachesLimiter(q)
  /\ IF Limited THEN AllowNewBucket(q.repo) \/ AllowCounted(q.repo) ELSE UNCHANGED vars
  /\ handler' = [handler EXCEPT ![h] = q.repo]
  /\ UNCHANGED <<env, server, jobs>>

RefuseRequest(q) ==
  /\ server = "serving"
  /\ ReachesLimiter(q)
  /\ Limited /\ Deny(q.repo)
  /\ UNCHANGED admissionVars

IsValidRepository(repo) == Len(repo) = 2 /\ ToSet(repo) \subseteq Names

\* The strings of a payload are their lengths; of the workflow name it also counts
\* whether all its characters are safe.
ValidatePayload(p) ==
  /\ p.githubToken > 0 /\ p.argocdToken > 0
  /\ p.repositoryLength \in 1..256 /\ IsValidRepository(p.repository)
  /\ p.prNumber \in 1..1000000
  /\ p.baseRef \in 1..256 /\ p.headRef \in 1..256
  /\ p.changedFiles \in 1..1000 /\ p.longestFile <= 512
  /\ p.workflowName <= 128 /\ p.workflowSafe

MutantAccepts(p, repo) == p.json /\ ValidatePayload(p)
Accepts(p, repo) ==
  p.json /\ ValidatePayload(p) /\ LowerCase(p.repository) = LowerCase(repo)

AcceptJob(h, p) ==
  /\ handler[h] # Idle /\ Accepts(p, handler[h])
  /\ jobs' = [jobs EXCEPT ![LowerCase(p.repository)] = @ + 1]
  /\ handler' = [handler EXCEPT ![h] = Idle]
  /\ UNCHANGED <<env, server, vars>>

RejectPayload(h, p) ==
  /\ handler[h] # Idle /\ ~Accepts(p, handler[h])
  /\ handler' = [handler EXCEPT ![h] = Idle]
  /\ UNCHANGED <<env, server, jobs, vars>>

\* Time, and the goroutine of a limiter, if there is one.
LimiterRuns == server = "serving" /\ Limited
LimiterAdvance == LimiterRuns /\ Advance /\ UNCHANGED admissionVars
LimiterCleanup == LimiterRuns /\ (Cleanup \/ CleanerExit) /\ UNCHANGED admissionVars
LimiterStop == LimiterRuns /\ Stop /\ UNCHANGED admissionVars

AdmissionNext ==
  \/ Load
  \/ \E q \in Requests : RefuseRequest(q) \/ \E h \in Handlers : CountRequest(h, q)
  \/ \E h \in Handlers, p \in Payloads : AcceptJob(h, p) \/ RejectPayload(h, p)
  \/ LimiterAdvance \/ LimiterCleanup \/ LimiterStop

AdmissionFairness ==
  WF_<<admissionVars, vars>>(LimiterAdvance) /\ WF_<<admissionVars, vars>>(LimiterCleanup)

AdmissionSpec ==
  AdmissionInit /\ [][AdmissionNext]_<<admissionVars, vars>> /\ AdmissionFairness
-----------------------------------------------------------------------------
AdmissionTypeOK ==
  /\ TypeOK
  /\ env \in Envs /\ server \in {"loading", "serving", "failed"}
  /\ server = "serving" => Loads(env)
  /\ handler \in [Handlers -> Keys \cup {Idle}]
  /\ jobs \in [{LowerCase(k) : k \in Keys} -> Nat]

\* main.go:217-219: no repository can submit jobs on behalf of another and bypass
\* its rate limit.  Every job of a repository, and every handler that may still
\* make one, was counted by the limiter for that repository.
JobsArePaid ==
  LimiterRuns => \A k \in Keys :
    jobs[LowerCase(k)] + Cardinality({h \in Handlers : handler[h] = k}) <= Len(grants[k])

\* What the operator wrote: the repository, its owner and a star, or two stars.
Allowed(repo) ==
  \E n \in DOMAIN env.REPO_ALLOWLIST :
    LowerCase(env.REPO_ALLOWLIST[n]) \in
      {LowerCase(repo), <<Lower[repo[1]], Star>>, <<Star, Star>>}

\* A repository the allowlist does not name gets no job, and no place in the
\* limiter's map either, which would otherwise grow with whoever asks.
OnlyAllowed ==
  \A k \in Keys :
    jobs[LowerCase(k)] > 0 \/ limits[k] # NoBucket \/ denials[k] # {}
      => server = "serving" /\ Allowed(k)
=============================================================================
