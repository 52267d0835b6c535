# argo-diff, specified and verified

This directory holds a TLA+ verification of argo-diff: modules translated from the Go source,
TLC configurations that check them on small instances, and proofs, checked by TLAPS, of what
matters most for every value of the constants. Paths below are relative to `src/`.

## 1. The system

argo-diff is a webhook server. A CI workflow sends it a pull request; it asks ArgoCD which
applications the changed files touch, fetches each one's manifests at the base and at the head
revision, compares them, and posts the report as comments on the pull request.

```
 CI --HTTP--> handleWebhook --+-- async: pool.Submit --> jobQueue --> worker --+
             (token, allow-   |                                                |
              list, limiter,  +-- sync: syncSem slot -----------------> processJob
              payload)                                                         |
 SIGTERM --> main: Shutdown, pool.Stop, limiter.Stop, os.Exit                  |
                                                                               v
            ArgoCD (list, manifests; with retries) <---- matcher, diff ---- PostComment --> GitHub
```

### Inventory

| component | state it keeps | operations | what is hard | what makes it correct |
|---|---|---|---|---|
| worker pool, `pkg/worker/pool.go` | `jobQueue` (buffered channel), `draining`, `stateMu`, `closeOnce`, `wg`, `activeJobs`, the gauge `jobs_in_queue` | `Submit`, `Stop`, `worker`, `Status` | Submit races Stop around the close of the channel; two Stops; a full queue; a timeout racing the last worker; counters outside any lock | never panics; no accepted job lost or run twice; "graceful" means drained; everybody returns |
| rate limiter, `pkg/ratelimit/limiter.go` | a window (`count`, `resetAt`) per repository, a ticker, `done` | `Allow`, `cleanup`, `Stop` | the edge of a window; cleanup between two requests; a stop racing a tick | what the window bounds; no denial without cause; the map is reclaimed |
| HTTP server, `cmd/server/main.go` | `syncSem`, the handlers in flight, the phase of the shutdown | `handleWebhook`, shutdown in `main` | slots and their release, a shutdown that gives up on handlers, a pool stopped under running handlers, lost answers | answers are true; slots come back; an exit without a timeout loses nothing; a signal ends the process |
| job, `processJob` | the results so far; nothing shared | one call after the other | every call can fail, the context can expire anywhere, the error path posts too | one result per application; nil means the report is there; it returns |
| ArgoCD client, `pkg/argocd/client.go` | a connection | `ListApplications`, `GetManifests`, `retry` | retries against an expiring context | bounded attempts |
| GitHub comments, `pkg/github/client.go` | the thread on GitHub, shared | `PostComment`, `DeleteOldComments` | list, delete and create are separate calls: other jobs and users act in between; paging over a thread that shrinks; answers lost | no report deletes another's parts; old reports go, and nothing of another workflow or without identifier; a failed call mixes nothing |
| splitting, `splitComment`, `truncateSection` | the parts so far | one loop | limits, sections longer than a part, markup quoted by a manifest | parts fit, nothing is lost but a truncated tail, each part renders alone |
| diff engine, `pkg/diff` | the documents of both sides, the diffs and counts, `diffHashToApp` | `GenerateDiff`, `generateUnifiedDiff`, `NewDiffReport`, `FormatReport` | map order, colliding keys, documents that do not parse, hooks and ignored metadata; anchors, their chain, edges of hunks; equal diffs in any order | exactly the changes are reported; the printed patch applies; duplicates name what the report shows |
| matcher, `pkg/matcher` | none | `MatchApplications` | slashes around paths, stars, forms of a URL, lists of clusters | the applications that changed files belong to, or are named after, are found, and no others |
| configuration and allowlist, `pkg/config` | `Config`, read once | `Load`, `validate`, `IsRepoAllowed` | blank entries, letter case, patterns half written; a limit of 0 | starts only with sound values; admits only what the list names |
| OIDC validation, `pkg/auth` | the library's key cache | `ValidateToken` | | |
| sanitizer, metrics, logging | none anybody reads back, but for the queue gauge | | | |

Interactions: handlers call the limiter and the pool directly; the pool calls `processJob` through
`JobProcessor` with a context of `JobTimeout`; synchronous handlers call `processJob` with a context
derived from the request; `main` stops the HTTP server, then the pool, then the limiter, then exits.
Jobs share nothing in the process: they meet on GitHub, in the comment thread.

The hazards found while reading are listed in `PROJECT.json`, each with its line and the properties
that would catch it.

## 2. Modules

| module | models | composes |
|---|---|---|
| `JobService` | what the pool promises: bounded backlog, refusals with a cause, drained means done | |
| `WorkerPool` | `Submit`, `Stop`, `worker`, one action per lock, atomic or channel operation | implements `JobService` |
| `RateLimiter` | `Allow`, the cleanup goroutine and its ticker, `Stop` | |
| `Admission` | `config.Load`, the allowlist, the checks of `handleWebhook` from the request to the job | `RateLimiter` (EXTENDS) |
| `Server` | handlers, `syncSem`, the shutdown | the pool as `JobService` (by INSTANCE) |
| `Selection` | the loops that append what passes a test, as the elements at a set of places | |
| `Matcher` | `MatchApplications`, as pure operators | `Selection` (EXTENDS) |
| `JobPipeline` | `processJob` and `retry` | `Matcher` (EXTENDS) |
| `UnifiedDiff` | `generateUnifiedDiff`, one action per turn of a loop | `Selection` (EXTENDS) |
| `DiffEngine` | `GenerateDiffWithOptions` over parsed documents | `UnifiedDiff` (EXTENDS) |
| `DiffReport` | `deduplicateResults` and the counting of `NewDiffReportWithOptions` | |
| `PRComments` | `PostComment`, `DeleteOldComments` of several jobs on one thread | |
| `SplitComment` | `splitComment`, `truncateSection` | |
| `...Proofs` | theorems about the module they are named after, and about those it EXTENDS | |
| `MC...` | instances for TLC | |

`AdmissionProofs` thus holds the proofs about `RateLimiter`, `DiffEngineProofs` those about
`UnifiedDiff` and `JobPipelineProofs` those about `Matcher`. `Selection` says what `SelectSeq` says,
in a form of which proofs can speak: the elements of a sequence whose places are in a set.

`Server` uses the abstract `JobService` where the program has a `Pool`: `WorkerPool` is proved to
implement it, so the locks of the pool need not be interleaved with the handlers again.

How state and actions correspond to the code:

* **WorkerPool.** `submit[j]` is the position of the goroutine that submits job `j`: waiting for
  `stateMu`, holding it before and after the check of `draining`, between the send and
  `JobsInQueue.Inc()`, returned. `Readers` and `WriterPending` are the RWMutex, with Go's rule that a
  waiting writer keeps new readers out. `once` and `stop[s]` are `closeOnce` and the callers of
  `Stop`; `wpc[w]` the workers. A send on, or a close of, a closed channel sets `panicked`.
  `AcquireWrite` waits for the readers; `StopTimeout` can fire at any moment of the wait. A step that
  only unlocks is merged into the step before it, since nobody can see the difference.
* **RateLimiter.** Time is a number; `Allow` has three outcomes, each atomic because the mutex is held
  throughout and the clock is read inside. The ticker's channel holds one tick. `grants` and `denials`
  are history for the properties.
* **Admission.** `server` is the start of the process: `Load` reads `env`, and a process whose
  environment does not load, or that cannot reach the OIDC provider, never serves. `handler[h]` is the repository of the token a handler is
  serving. The handler counts the request before it reads the body, so `CountRequest` and
  `AcceptJob` are two actions with time and other requests between them. A repository is the sequence
  of names between its slashes, a payload the lengths `Validate` compares. `jobs` is history. The
  limiter's own actions are those of `RateLimiter`, which run only in a server whose limit is not 0.
* **Server.** `handler[r]` is the position of request `r` in `handleWebhook`. The checks before the
  job are one choice: an error answer (all error statuses of the checks count as one, 400) or one of
  two modes. `answer` is what the handler wrote and `seen` what its client received; `Deliver` may
  lose it (client gone, `WriteTimeout`). `main` walks through `Shutdown` (30 s), `pool.Stop` (25 s) and `os.Exit`.
* **JobPipeline.** `pc` is the call `processJob` is at, `attempt` and `waiting` the state of `retry`,
  `thread` what the job left on GitHub. The context may expire at any step; GitHub may refuse any
  call, before or after it took effect, or with only a part of the old comment deleted; here `PostComment`
  is seen from the job, its interleavings with other jobs are those of `PRComments`. `push` and `spec` are the job's payload and what ArgoCD says
  of each application; what a diff says is a choice.
* **Matcher.** A path is the names between its slashes and whether it begins or ends with one; a URL
  is its host, what separates it from the path, the path's names and the suffixes. The three ways a
  file can match a source are translated on these. `Stars` gives each name with a star in it (`*`,
  `*.yaml`) the names it matches.
* **UnifiedDiff.** `step` is the loop the call is in and `turn` its turn. `match`, `rank`, `parent`
  and `chain` are the anchors, `dp`, `parent` and the subsequence, kept by old line; `script` is the
  list of kept, deleted and added lines, `hunks` the stretches of it that are printed. Lines are only
  compared, so the hash that finds candidates is left out.
* **DiffEngine.** A document is a record of its kind, names, namespace, labels, annotations and other
  lines, or does not parse. `left` are the keys a `range` over a map has still to visit, in any order.
  A modified resource calls `UnifiedDiff`, whose turns are steps of the engine.
* **PRComments.** `comments` is the thread on GitHub, a set of comments with ids that grow with time,
  so the order of ids is that of the thread. Each API call is an action; between two calls
  other jobs post and delete and users write. `page`, `batch` and `next` are the locals of
  `DeleteOldComments`. A deletion of a comment that is gone answers 404.
* **SplitComment.** Bodies are sequences of lines of a kind (text, `<details>`, fence, `</details>`,
  and manifest lines that quote a fence or a closing tag); limits count lines where the code counts
  bytes. Lines are numbered, so "nothing is lost" can be said.
* **DiffReport.** One action per turn of the two loops. The hash of a list of diffs is their set,
  because the code sorts a copy before hashing.

`PROJECT.json` maps every definition to its lines.

## 3. What is checked

| run | instance | shows |
|---|---|---|
| `pool` | 3 jobs, 2 workers, 2 stops, queue of 1 | `NoPanic`, `JobConserved`, `GracefulMeansDrained`, `CountersExact`, `SubmitReturns`, `StopReturns`, and `ImplementsService`: the pool implements `JobService`, its progress included |
| `admission` | 7 environments, 5 requests of 2 repositories, 7 payloads, 2 handlers, rate 2, window of 1 instant, clock to 4 | `SlidingBound`, `DenialJustified`, `ExpiredIsReclaimed` of the limiter under the handlers; `JobsArePaid`, `OnlyAllowed` |
| `comments` | two posters of one workflow (2 parts each), one of another, a user who may quote the report of the latter; pages of 3 | `SoleReport`, `ReportsNotMixed`, `SurvivingReport`, `OnlyOwnRemoved`, `PostReturns` |
| `job` | 3 applications with 26 specifications, 40 pushes, 3 attempts, up to 3 parts | `AffectedExact`, `OneResultPerApp`, `SuccessMeansReported`, `JobReturns` |
| `engine` | all pairs of texts of up to 4 lines over 2 letters and up to 3 lines over 3, all pairs of orders of 4 lines; all pairs of up to 2 of 9 documents, with 3 settings of ignored metadata | `LongestChain`, `PatchApplies`, `HunksTight` of each unified diff, `DiffsExact`, `ResultConsistent` of the comparison |
| `server` | 3 requests, 1 worker, 1 slot, queue of 1 | `SlotsBoundJobs`, `AnswersAreTrue`, `CleanExit`, `RequestAnswered`, `SignalEnds` |
| `split` | all reports of up to 3 resources of up to 4 manifest lines, limit 8 | `PartsFit`, `NothingLost`, `PartsWellFormed` |
| `report` | all reports of up to 3 results of 2 names with up to 2 of 2 diffs | `DuplicatesAreShown`, `EqualDiffsShownOnce` |

`pool`, `admission`, `engine` and `server` also check a type invariant (with the bounds of queues,
counters and indices). Deadlock is checked for the pool, whose only terminal states are those where
every call has returned and every worker has ended; the other systems stop by themselves (a job
returns, the process exits, the clock ends).

What the less obvious properties say:

* `JobsArePaid`: the jobs of a repository, together with the handlers that may still make one, never
  outnumber what the limiter granted that repository. It is what main.go:217-219 is there for: the
  payload's repository is the client's word, the token's is not.
* `OnlyAllowed` compares the parsed allowlist with what the operator wrote, and adds that a
  repository it does not name gets no place in the limiter's map either.
* `ReportsNotMixed` is about calls that fail: wherever the error comes from, and whether or not the
  call took effect, a poster nobody disturbs leaves nothing of its report, or a beginning of it
  without a gap and no comment of the older report beside it.
* `OnlyOwnRemoved` is an action property: no step removes a comment that lacks the identifier of the
  workflow of a poster that is deleting. Comments of users without an identifier thus stay; those with
  one are deleted, in this run too, as the first of the oddities below says.
* `AffectedExact` compares the matcher with a definition on the tree of files: the changed file lies
  in the directory of a source whose repository is the push's (or matches its stars), or it is under a
  directory of definitions and named after the application. The second way takes no account of the
  repository, as matcher.go:107-111 says ("known limitation", "spurious diff"); the instance has
  applications with every source elsewhere, and such an application counts as affected there.
* `PatchApplies` reads the output as the program `patch` does, by its headers: it turns the old text
  into the new one, and back. `LongestChain` is quantified over all subsets of the anchors.
* `DiffsExact` defines the expected report on documents, without keys or maps, and says that every
  order of the maps gives it; `ResultConsistent` is what `NewDiffReport` relies on.

Four runs show a disagreement between the code and what its comments or documents say:

| run | what TLC finds |
|---|---|
| `comments_pages` | `DeleteOldComments` deletes from page n and goes on at page n+1 of a thread that is now shorter: old reports survive, against IMPLEMENTATION.md:225. |
| `job_error` | a job that failed because its context expired posts its error with the same context: no error comment, against IMPLEMENTATION.md:272. |
| `job_paths` | a source path written with a slash at its end matches none of the files under it, so its application is not in the report, against IMPLEMENTATION.md:142. |
| `split_quoted` | fences and closing tags quoted by a manifest are taken for markup, so a part ends inside a code block, against client.go:195. |

Weaker disagreements and oddities, seen while modelling, that no run is spent on:

* `DeleteOldComments` looks only for the identifier, never at the author, where IMPLEMENTATION.md:224
  says "Filter by: `github-actions[bot]` user and workflow identifier": a comment in which a user
  quotes the identifier is deleted with the reports. That users' comments are kept is therefore not a
  property of this code; `OnlyOwnRemoved` is what remains of it.
* A changed file named after an application affects it although none of its sources is in the
  repository, where IMPLEMENTATION.md:140 says "Filter apps by repository URL". The comment at
  matcher.go:107-111 owns up to it; `AffectedExact` is stated with it.
* A namespace that is merely spelled out is reported as a change. IMPLEMENTATION.md:171, "Filter
  redundant namespace changes", can be read to deny it; the comment at engine.go:94-97 and the tests
  want it so, and `DiffsExact` follows them.
* Slots and workers are counted apart, so `2 * WorkerCount` jobs run at a time (main.go:278 suggests
  one limit); `SlotsBoundJobs` states the true bound.
* The queue gauge may read -1 for a moment; `CountersExact` says by how much it is off.
* A fixed window allows almost twice the rate around its end (README.md:43); `SlidingBound` is the
  true bound.
* Jobs answered with 202 are lost when the pool's 25 seconds pass (IMPLEMENTATION.md:284);
  `CleanExit` has to exclude it.
* The anchors are taken greedily, first line first, so the diff is not always a smallest one, as the
  word "Myers" at engine.go:517 lets one think; `LongestChain` is about the anchors found.
* An owner that is a number is taken for a port in scp syntax, and a URL that ends in ".git/" keeps
  its ".git": such an application is not matched. `AffectedExact` has the usual forms.

Bounds, and why they are enough:

* **pool:** with a queue of 1 the third job meets a full queue or finds a worker that holds the first;
  two workers can hold two jobs while a third waits; two stops meet in `closeOnce`. Every lock has at
  most one more contender than it takes to block. Safety is proved for any numbers.
* **admission:** a rate of 2 is the least with a request between the first and the one refused; a
  window of one instant and a clock of four give requests on, before and after an edge and two ticks
  of the cleanup; two handlers are the least that count and accept in another order; `MaxJobs`, 4,
  is more than two windows grant. The environments are: a list with blank, starred, half-written
  and mixed-case entries, two servers without a limit, and four that must not load. The proofs hold
  for all of them.
* **comments:** two posters of a workflow are the least that interfere; the third shows that
  workflows do not; with pages of 3 the thread grows over a page. The user writes one comment, with
  the identifier of the third poster's workflow or with none.
* **job:** three attempts as in the code; three applications have a first, a middle and a last. The
  first goes through every form of URL and of path, stars for whole names and for a part of one
  included, the third has two sources, one definition file
  lies in, one below and one outside the directory of definitions.
* **engine:** one line of context instead of three, so that texts of four lines have hunks that meet
  and hunks that do not, at either end; orders of four distinct lines have every tie between chains.
  Two documents on a side collide in a key, hide each other and cross the sides; a third would only
  repeat this, since keys are compared in pairs.
* **server:** with one worker, one slot and a queue of one, the second request meets each limit and
  the third meets both; requests are symmetric and do not meet otherwise.
* **split:** the limit of 8 lies between one resource and two; a title of 6 lines or a tail of 9 makes
  sections that are longer than a part.
* **report:** the third result can duplicate either of two others and bear either's name.

### Fairness

* `WorkerPool`: weak fairness of every goroutine's steps, because the Go scheduler runs what can run;
  a running job ends because its context expires after `jobTimeout`, and the timer of `Stop` fires.
  No fairness for calling `Submit` or `Stop`. Weak fairness is enough for the locks: a waiting writer
  keeps new readers out, so readers cannot starve it, and there is one writer.
* `Admission`: time passes (`LimiterAdvance`) and the limiter's goroutine is scheduled
  (`LimiterCleanup`) while a server with a limit runs. No fairness for requests, handlers or `Stop`.
* `Server`: handlers, workers and `main` go on while the process is alive; `processJob` returns. No
  fairness for requests or signals.
* `JobPipeline`, `PRComments`: calls return, with an answer or an error; delays end.
* `SplitComment`, `DiffReport`: loops go on. `UnifiedDiff` and `DiffEngine` state no liveness and no
  fairness.

## 4. What is proved

All proofs hold for every value of the constants that satisfies the named assumptions:

| assumption | says |
|---|---|
| `PoolAssumption` | finite sets of jobs and workers, at least one worker, a positive queue size |
| `ServerAssumption` | finitely many requests, positive numbers of workers and queue places |
| `LimiterAssumption` | a positive rate and window |
| `AdmissionAssumption` | finitely many handlers; a repository is an owner and a name, and tokens spell it in one way |
| `EnvironmentAssumption` | patterns of the allowlist are texts of the same letters; the `Rate` of the limiter is the one an environment that loads sets, if it sets one |
| `PRAssumption` | each poster names one workflow and has at least one part; pages have a place; at the start the thread has comments of users and of earlier processes |
| `PipelineAssumption` | ArgoCD's list is a list; at least one attempt and one part |
| `InputAssumption` | a side is a finite set of documents at places of the manifest, each with kind, names, metadata and body |
| `ContextAssumption` | a positive number of lines of context |
| `SplitAssumption` | non-empty bodies, a reserve of at least three lines within the limit |
| `ReportAssumption` | a result has diffs exactly when it has changes |

Two properties are false of some inputs, as the findings and oddities of section 3 show, and their
theorems say for which inputs they hold. TLC evaluates each of these conditions on the instance of
the run (an `ASSUME` of the MC module, or the value in the .cfg), so none is empty:

| theorem | condition |
|---|---|
| `PartsRender` | `PlainReports(Bodies)`: the report as a whole renders, and no manifest line is a fence or a closing tag |
| `MatchingIsExact` | `UsualForms(Specs, Pushes)`: URLs of an owner and a name, where a number after a colon is a port, source paths without a slash at the end, files named without stars |

* **`WorkerPoolProofs`.** `TypeInvariant`; `PoolNeverPanics`; `PoolConservesJobs`;
  `GracefulStopDrains`; `CountersStayExact`;
  `PoolImplementsService` (the safety part of the refinement: initial states map to initial states,
  every step to a step or a stutter). The properties are not inductive. `NoPanic` rests on `LockInv`:
  the channel is closed only by the one caller inside `closeOnce`, who holds the write lock, and a
  Submit that passed the check of `draining` holds the read lock, so a close implies `draining` and no
  reader past the check. `JobConserved` rests on `HoldInv` (a worker holds a job exactly when it is
  past the receive), `GracefulMeansDrained` on `ExitInv` (a worker has ended only with the queue closed
  and empty). `PoolInv` is their conjunction. `CountersStayExact` is inductive by itself: each step
  moves one goroutine into or out of the sets the counters are compared with.
* **`AdmissionProofs`.** Of the limiter: `LimiterTypes`, `LimiterSlidingBound`,
  `LimiterDenialJustified`. The invariant describes the history of grants of a key as windows: each
  grant lies in its own, a window begins with a grant and holds at most `Rate` of them, two windows
  begin more than `Window` apart; and it ties the bucket to the last grants, and an absent or expired
  bucket to grants that are all old. The last part is what makes the cleanup harmless.
  Of the server: `LimiterImplemented`: through any request, handler and payload the limiter
  behaves as `RateLimiter` says (initial states and steps; a step of the server is one of the limiter
  or leaves it alone), so `ServedSlidingBound` and `ServedDenialJustified` follow from the proofs
  about the limiter. `AdmissionTypes`, and `EveryJobIsPaid` for `JobsArePaid`: a handler that counts
  adds one to both sides, one that accepts moves from the handlers to the jobs of the same
  repository, because the payload's repository equals the token's up to letter case; nothing has a
  job or a handler before the server serves (`NothingYet`). `AllowlistKept` for `OnlyAllowed`: what
  `parseList` keeps of the operator's list, and the three forms of a pattern, decide exactly as the
  list read entry by entry, and a handler has only repositories that this admits.
* **`PRCommentsProofs`.** `PRInvariant`, and from it `ReportSurvives` (`SurvivingReport`),
  `ReportIsSole` (`SoleReport`), `NeverMixed` (`ReportsNotMixed`) and `OnlyOwnWorkflow` (the action
  property `OnlyOwnRemoved`). None is inductive. `IdInv` makes ids unique and older than the next; `AimInv`
  says that what a poster has still to delete is of its workflow; `OwnInv` how much of its report each
  has made. `SurvivingReport` rests on `LastListerInv`: among the posters of a workflow that started
  there is one that will list the thread again, or has failed, or is `Settled`: its parts are whole
  and nobody has them in hand for deletion. When a poster lists, it takes over this role from
  whoever had it. This is the argument a
  reviewer has to make about posters that delete each other's comments, for any number of them, of
  parts and of pages. `AloneInv` and `OnePageInv` are for `SoleReport` and
  `ReportsNotMixed`: a poster nobody disturbed has every older comment of its workflow in hand while it
  deletes, so none is left when it creates its first part, and a call that fails later adds nothing
  but the next part. `AimInv` is what `OnlyOwnRemoved` rests on: ids are never reused, so the comment
  behind an id listed long ago is still of the workflow.
* **`JobPipelineProofs`.** `ReportIsComplete` for `OneResultPerApp`, `NilMeansReported` for
  `SuccessMeansReported`. The invariant says how far the loop is (`MapInv`: the results are those of
  the first applications, and fewer than all while one is fetched), what is being posted and why
  (`BodyInv`), and how much of it is on the pull request (`ThreadInv`). `MatchingIsExact` for
  `AffectedExact`: lemmas show that the matcher's tests decide as the tree of files does
  (`UsualNormalized`: two URLs are normalized to the same names exactly when their owners and names
  agree; `HoldsExact`: a file lies below a path, or in what its stars match, exactly when one of
  the three tests says so), and `Matched` that the loop keeps ArgoCD's order.
* **`DiffEngineProofs`.** Of one call of `generateUnifiedDiff`, for texts of any length. `DiffTypes`:
  no index leaves the text or script it is used on. `ScriptIsExact`: the script has every line of
  both texts once, in order, and a line shown as unchanged is in both at the places it names. `HunksAreTight` for
  `HunksTight`. The invariant `DiffInv` follows the loops: pairs are of equal lines and no new line is
  taken twice, a parent is an earlier anchor of the rank below (`RankInv`), the chain read so far
  rises on both sides (`ChainInv`); what is emitted is what lies before the two indices (`EmitInv`,
  `CoverInv`, `OrderInv`); the hunks closed so far are the maximal stretches near a change
  (`HunkInv`, `FoundInv`). It is why `Delete`, `Add` and `Keep` never meet a line out of order.
  `ChainIsLongest` for `LongestChain` adds `BestInv` (no set of anchors in order that ends in a
  ranked one has more of them than its rank) and `TraceInv` (no rank exceeds what the backward walk
  has read and has still to read). `PatchesApply` for `PatchApplies` is the longest argument: the
  side of a hunk is the stretch of the text between two lines its header names, the lines between two
  hunks are the same on both sides (`SameInv`, `CutsInv`), and so the hunks read from the first to the
  last copy the text up to each hunk, and at the end the whole of it.
  Of the engine: `EngineTypes`, `DiffsAreExact` and `ResultIsConsistent`. Its invariant
  `EngineInv == WorkInv /\ CallInv /\ ReportInv /\ CountInv` says of each moment which keys are done
  with, in whatever order the maps give them (`Seen`), that each change of one of these is told once
  and nothing else is (`ReportInv`), and what the counters count (`CountInv`). `CallInv` says that a
  unified diff is only made of a key both maps have and of two texts that differ; `CallsDiffWell`
  carries the properties of a call over to every call the engine makes.
* **`SplitCommentProofs`.** `SplitPartsFit`: every part of every report fits, and there is one to post.
  The invariant `SplitInv` adds that the part being filled fits and that no saved part is empty; a
  lemma shows, by well-foundedness of the naturals, that every section ends inside the body.
  `NothingIsLost` for `NothingLost`: `ReadInv` says that the loop stands at the end of a section, that
  the saved parts are the report up to where the part being filled begins, and that this part is the
  report from there to where the loop stands; truncation cuts a section and nothing else.
  `PartsRender` for `PartsWellFormed`: in a report that renders as a whole sections end outside every
  block, so parts that begin and end there render too, and what `truncateSection` appends closes what
  its cut left open.
* **`DiffReportProofs`.** `ReportTypes`, `ReportDuplicatesAreShown`, `ReportShowsOnce`. The invariant says what `diffHashToApp` means: it names a result behind the
  loop that shows exactly these diffs (`MapInv`), every shown result behind the loop is in it
  (`SeenInv`), and marks are made only behind the loop (`MarkInv`).
* **`ServerProofs`.** `ServerTypes`, `ServerBoundsJobs`, `ServerAnswersAreTrue`, `ServerExitsClean`. Four
  parts make the invariant inductive: the types; `SlotInv` (the tokens in `syncSem` are as many as the
  handlers between the select and the deferred release, and the pool runs no more jobs than it has
  workers); `AnswerInv` (for each position of a handler, what it has answered and whether the pool has
  its job); `ExitInv` (what `main` knows after each stage of the shutdown: no handler in flight, the
  pool drained, nothing queued or running).

Every safety invariant that a passing run checks is proved. Only model-checked: all liveness
(`SubmitReturns`, `StopReturns`, `ExpiredIsReclaimed`, `PostReturns`, `JobReturns`,
`RequestAnswered`, `SignalEnds`; fairness and ENABLED are beyond the prover) and the progress part of
the refinement `ImplementsService`.

## 5. What is not modelled

* Parsing of YAML and JSON, splitting a manifest into documents and rendering one into lines:
  `DiffEngine` begins with the documents and their lines.
* OIDC: the signature, the issuer and the keys. Whether a token is genuine is given with a request of
  `Admission`; a key cache that is refreshed belongs to the library.
* TLS and HTTP parsing; which error a client is told (`Server` has one for all the checks).
* In the matcher: protocols, "user@", letter case of URLs; the matched paths and the reasons, which
  nobody reads. Of the patterns of `filepath.Match` only stars, in place of a name or of a part of
  one: not `?`, `[...]` and `\`, which count only beside a star, and not a pattern such as `.*` that
  matches the "." which `filepath.Dir` returns for a file at the top.
* In `truncateSection`, a cut inside a line, which the code makes when no line ends within the last
  500 bytes before the limit: the model always cuts between lines. What is lost is then the rest of
  that line too; the blocks open at the cut are the same, unless that line itself quotes markup.
* In `filterMetadata`, that the document is encoded again: ArgoCD's manifests are JSON, which the
  parser has already encoded with sorted keys by the same encoder, so nothing else changes. Of
  manifests that are YAML the code would also hide changes of order and layout.
* Durations: contexts, timers and delays end at any moment. That `WriteTimeout` is below `JobTimeout`
  shows only as an answer that may be lost.
* In the configuration: `LOG_LEVEL` and `ARGOCD_SERVER`, which may be any text.
* Formatting, sanitizing, logging and metrics other than the queue gauge: no state anybody reads back.
* `Status` and `IsReady`: they read three fields without a lock, for the health page.
* `NewClient` and `Close` of the clients: one call that may fail. The queries' contents.
* Collapsing `<details open>` when a report has many resources: layout.
* The Helm chart, the examples and the scripts.

## 6. Plan

Done, in this order: `JobService` and `WorkerPool` with their proofs; `RateLimiter` with its proofs;
`PRComments`; `JobPipeline`; `Server` with its proofs; `SplitComment` and `DiffReport` with their
proofs; `UnifiedDiff` with its proofs and `DiffEngine`; `Matcher` inside the job, with the job's
proofs; `Admission` with its proofs; the counters of the pool; then the proofs about `PRComments`, the
allowlist, the engine and its patches, what splitting keeps, and the matcher.

Left: action properties worth stating and proving of the other components (an answer is not taken
back, a window is not shortened, a part posted is not changed by its poster), and refinement beyond
the pool's: a job of `Server` is one of `JobPipeline`, its posts are those of `PRComments`.
