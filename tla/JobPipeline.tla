----------------------------- MODULE JobPipeline -----------------------------
(* cmd/server/main.go processJob with the retries of pkg/argocd/client.go: one*)
(* job from its first call to its return, against an ArgoCD and a GitHub that *)
(* may refuse any call and a context that may expire between any two steps    *)
(* (JobTimeout, or the client of a synchronous request going away).  Which of *)
(* ArgoCD's applications a push affects is for Matcher.                       *)
EXTENDS Matcher

CONSTANTS
  AppList,   \* the applications ArgoCD lists, in its order
  Specs,     \* their specifications: functions to [definitions, cluster, sources]
  Pushes,    \* what the job is about: [repo, files, clusters]
  Attempts,  \* how often retry calls its function (3 in the code)
  MaxParts   \* bound: the number of comments a body is split into

ASSUME PipelineAssumption ==
  /\ AppList \in Seq(ToSet(AppList))
  /\ Attempts \in Nat \ {0} /\ MaxParts \in Nat \ {0}

VARIABLES
  push,      \* the job's Repository, ChangedFiles and DestinationClusters
  spec,      \* what ArgoCD says of each application
  pc,        \* the step processJob is at
  ctxDone,   \* the job's context has expired
  attempt,   \* the attempt retry is at, from 1
  waiting,   \* retry waits for its delay or for the context
  affected,  \* affectedApps
  results,   \* diffResults: [app, kind] of each
  side,      \* which manifests of the current application are fetched
  body,      \* the comment being posted: "none", "error", "empty" or "report"
  parts,     \* into how many parts it is split
  thread,    \* the workflow's comments on the pull request: [kind, parts]
  refused,   \* history: no client was made for GitHub, or GitHub refused a call of this job
  result     \* what processJob returned: "none" before, "nil" or "err"

vars == <<push, spec, pc, ctxDone, attempt, waiting, affected, results, side, body, parts,
          thread, refused, result>>
retryVars == <<attempt, waiting>>
workVars  == <<push, spec, affected, results, side>>
matchVars == <<push, spec, affected>>
postVars  == <<body, parts, thread>>

Init ==
  /\ push \in Pushes /\ spec \in Specs
  /\ pc = "github" /\ ctxDone = FALSE
  /\ attempt = 1 /\ waiting = FALSE
  /\ affected = <<>> /\ results = <<>> /\ side = "base"
  /\ body = "none" /\ parts = 1
  /\ thread = [kind |-> "old", parts |-> MaxParts]
  /\ refused = FALSE /\ result = "none"

Return(r) == pc' = "returned" /\ result' = r

\* PostComment is entered: its body and into how many parts it will be split.
Post(b) ==
  /\ body' = b /\ pc' = "clear"
  /\ \E n \in 1..MaxParts : parts' = n
  /\ UNCHANGED thread

CtxExpires ==
  /\ pc # "returned" /\ ~ctxDone
  /\ ctxDone' = TRUE
  /\ UNCHANGED <<pc, retryVars, workVars, postVars, refused, result>>

NewGithubClient ==
  /\ pc = "github"
  /\ \/ pc' = "argocd" /\ UNCHANGED <<refused, result>>
     \/ Return("err") /\ refused' = TRUE
  /\ UNCHANGED <<ctxDone, retryVars, workVars, postVars>>

NewArgocdClient ==
  /\ pc = "argocd"
  /\ \/ pc' = "list" /\ UNCHANGED postVars
     \/ Post("error")
  /\ UNCHANGED <<ctxDone, retryVars, workVars, refused, result>>
-----------------------------------------------------------------------------
(* retry: a call that fails is followed by a delay the context can cut short. *)

Calling == pc \in {"list", "fetch"} /\ ~waiting
Answered == Calling /\ ~ctxDone

MutantNextAttempt == attempt
NextAttempt == attempt + 1

CallFails ==
  /\ Calling /\ attempt < Attempts
  /\ waiting' = TRUE
  /\ UNCHANGED <<pc, ctxDone, attempt, workVars, postVars, refused, result>>

DelayOver ==
  /\ waiting
  /\ waiting' = FALSE /\ attempt' = NextAttempt
  /\ UNCHANGED <<pc, ctxDone, workVars, postVars, refused, result>>

\* The last attempt failed, or the context expired during a delay.
GivesUp == \/ Calling /\ attempt = Attempts
           \/ waiting /\ ctxDone

Fresh == attempt' = 1 /\ waiting' = FALSE
-----------------------------------------------------------------------------
ListSucceeds ==
  /\ pc = "list" /\ Answered
  /\ affected' = MatchApplications(AppList, spec, push)
  /\ IF affected' = <<>> THEN Post("empty")
                         ELSE pc' = "fetch" /\ UNCHANGED postVars
  /\ Fresh
  /\ UNCHANGED <<push, spec, ctxDone, results, side, refused, result>>

ListFails ==
  /\ pc = "list" /\ GivesUp
  /\ Post("error")
  /\ Fresh
  /\ UNCHANGED <<ctxDone, workVars, refused, result>>

App == affected[Len(results) + 1]

\* The result of one application is appended; the loop goes on or the report is posted.
MutantFinishApp(kind) ==
  /\ results' = IF kind = "error" /\ side = "head"
                  THEN results ELSE Append(results, [app |-> App, kind |-> kind])
  /\ side' = "base"
  /\ IF Len(results) + 1 = Len(affected)
       THEN Post("report")
       ELSE pc' = "fetch" /\ UNCHANGED postVars
FinishApp(kind) ==
  /\ results' = Append(results, [app |-> App, kind |-> kind])
  /\ side' = "base"
  /\ IF Len(results') = Len(affected)
       THEN Post("report")
       ELSE pc' = "fetch" /\ UNCHANGED postVars

FetchSucceeds ==
  /\ pc = "fetch" /\ Answered
  /\ \/ side = "base" /\ side' = "head" /\ pc' = "fetch"
     \/ side = "head" /\ pc' = "diff" /\ UNCHANGED side
  /\ Fresh
  /\ UNCHANGED <<ctxDone, matchVars, results, postVars, refused, result>>

FetchFails ==
  /\ pc = "fetch" /\ GivesUp
  /\ FinishApp("error")
  /\ Fresh
  /\ UNCHANGED <<ctxDone, matchVars, refused, result>>

Diff ==
  /\ pc = "diff"
  /\ \E kind \in {"changed", "same", "error"} : FinishApp(kind)
  /\ UNCHANGED <<ctxDone, retryVars, matchVars, refused, result>>
-----------------------------------------------------------------------------
(* PostComment, seen from the job: clear the old comments, create the parts.  *)

MutantPostResult == "nil"
PostResult == IF body = "error" THEN "err" ELSE "nil"

Cleared == [kind |-> "none", parts |-> 0]

Clear ==
  /\ pc = "clear" /\ ~ctxDone
  /\ thread' = Cleared
  /\ pc' = "create"
  /\ UNCHANGED <<ctxDone, retryVars, workVars, body, parts, refused, result>>

CreatePart ==
  /\ pc = "create" /\ ~ctxDone
  /\ thread' = [kind |-> body, parts |-> thread.parts + 1]
  /\ IF thread'.parts = parts
       THEN Return(PostResult)
       ELSE UNCHANGED <<pc, result>>
  /\ UNCHANGED <<ctxDone, retryVars, workVars, body, parts, refused>>

\* A call to GitHub returns an error, having taken effect or not, and part of the old
\* comment may be deleted by then: postError drops the error, the other callers return
\* it.  An expired context fails every call.
PostFails ==
  /\ pc \in {"clear", "create"}
  /\ \/ UNCHANGED thread
     \/ pc = "clear" /\ thread' = Cleared
     \/ pc = "clear" /\ \E n \in 1..thread.parts : thread' = [thread EXCEPT !.parts = n]
     \/ pc = "create" /\ ~ctxDone /\ thread' = [kind |-> body, parts |-> thread.parts + 1]
  /\ refused' = (refused \/ ~ctxDone)
  /\ Return("err")
  /\ UNCHANGED <<ctxDone, retryVars, workVars, body, parts>>

Step ==
  \/ NewGithubClient \/ NewArgocdClient
  \/ CallFails \/ DelayOver
  \/ ListSucceeds \/ ListFails \/ FetchSucceeds \/ FetchFails \/ Diff
  \/ Clear \/ CreatePart \/ PostFails

Next == CtxExpires \/ Step

\* Calls return (gRPC and HTTP honour the context) and delays end.
Fairness == WF_vars(Step)

Spec == Init /\ [][Next]_vars /\ Fairness
-----------------------------------------------------------------------------
TypeOK ==
  /\ push \in Pushes /\ spec \in Specs
  /\ pc \in {"github", "argocd", "list", "fetch", "diff", "clear", "create", "returned"}
  /\ ctxDone \in BOOLEAN /\ waiting \in BOOLEAN /\ refused \in BOOLEAN
  /\ attempt \in 1..Attempts
  /\ affected \in Seq(ToSet(AppList))
  /\ results \in Seq([app : ToSet(AppList), kind : {"changed", "same", "error"}])
  /\ side \in {"base", "head"}
  /\ body \in {"none", "error", "empty", "report"}
  /\ parts \in 1..MaxParts
  /\ thread \in [kind : {"old", "none", "error", "empty", "report"}, parts : 0..MaxParts]
  /\ result \in {"none", "nil", "err"}

Listed == pc \in {"fetch", "diff"} \/ body \in {"empty", "report"}

(* What a push affects, said of the tree of files: an application one of whose *)
(* sources is the repository and holds a changed file in its directory, or     *)
(* after which a changed file is named, under a directory of definitions.  The *)
(* repository does not count for the latter, which matcher.go:107-111 calls a  *)
(* known limitation: such a file may lead to a spurious diff.                  *)
(* A repository is known by its last two names.                                *)
SameRepo(u, v) ==
  LET Named(url) == SubSeq(url.path, Len(url.path) - 1, Len(url.path)) IN Named(u) = Named(v)

Holds(path, file) ==
  LET Fits(dir) == Len(dir) = Len(path.segs)
                     /\ \A n \in DOMAIN dir : NameMatches(path.segs[n], dir[n])
      Above(n) == SubSeq(file.segs, 1, n)
  IN  IF HasStar(path)
        THEN \E n \in {Len(file.segs) - 1, Len(file.segs)} : Fits(Above(n))
        ELSE \E n \in 0..Len(file.segs) : Fits(Above(n))

DefinedBy(app, f) ==
  f.segs[1] \in AppDirs /\ \E n \in 2..Len(f.segs) :
    n = Len(f.segs) /\ f.segs[n] \in app.definitions
InRepo(app, n) == SameRepo(app.sources[n].repoURL, push.repo)

IsAffected(app) ==
  /\ \/ push.clusters \subseteq {NoName}
     \/ app.cluster # NoName /\ app.cluster \in push.clusters
  /\ \E f \in push.files :
       \/ DefinedBy(app, f)
       \/ \E n \in DOMAIN app.sources : InRepo(app, n) /\ Holds(app.sources[n].path, f)

\* A job works on exactly the applications that a changed file of the push belongs
\* to or is named after, in ArgoCD's order, for URLs and paths of the usual forms.
AffectedExact ==
  Listed =>
    \E place \in [DOMAIN affected -> DOMAIN AppList] :
      /\ \A i, j \in DOMAIN affected : i < j => place[i] < place[j]
      /\ \A i \in DOMAIN affected : affected[i] = AppList[place[i]]
      /\ {place[i] : i \in DOMAIN affected}
           = {n \in DOMAIN AppList : IsAffected(spec[AppList[n]])}

(* The usual forms: owner/repo with or without a host, where a number behind a *)
(* colon is a port and nothing else; a path without a slash at its end, the    *)
(* whole repository being the empty path; files named without stars.           *)
UsualURL(u) ==
  /\ u.path \in Seq(Names) /\ ~(u.git /\ u.slash)
  /\ LET afterColon == u.host # NoName /\ u.sep = ":"
         number == u.path[1] \in Digits
     IN  \/ Len(u.path) = 2 /\ ~(afterColon /\ number)
         \/ Len(u.path) = 3 /\ afterColon /\ number
UsualPath(p) ==
  /\ p \in [lead : BOOLEAN, segs : Seq(Names), trail : {FALSE}]
  /\ p.segs = <<>> => ~p.lead
UsualFile(f) == f.segs \in Seq(Names \ DOMAIN Stars) \ {<<>>}

UsualForms(specs, pushes) ==
  /\ \A p \in pushes : UsualURL(p.repo) /\ \A f \in p.files : UsualFile(f)
  /\ \A s \in specs, a \in ToSet(AppList) : \A n \in DOMAIN s[a].sources :
       UsualURL(s[a].sources[n].repoURL) /\ UsualPath(s[a].sources[n].path)

\* One failed application never costs another its place: the report has exactly
\* one result per affected application, in ArgoCD's order.
OneResultPerApp ==
  LET reported == [i \in DOMAIN results |-> results[i].app]
  IN  /\ IsPrefix(reported, affected)
      /\ body = "report" => reported = affected

\* processJob returns nil only with the whole answer on the pull request: every
\* part of the report, or of the "no applications" note when none is affected.
SuccessMeansReported ==
  result = "nil" =>
    /\ thread = [kind |-> body, parts |-> parts]
    /\ body = IF affected = <<>> THEN "empty" ELSE "report"

\* processJob returns, however often ArgoCD refuses.
JobReturns == <>(result # "none")

\* IMPLEMENTATION.md:272, "On error: Post error comment to PR": a job that fails
\* while GitHub accepts its calls leaves an error comment.
ErrorCommentPosted ==
  result = "err" /\ ~refused => thread.kind = "error"

\* IMPLEMENTATION.md:142, "Path prefix: `changed_file` starts with
\* `app.spec.source.path`": such an application is among the affected ones.
PathPrefixMatches ==
  Listed /\ push.clusters = {} =>
    \A a \in ToSet(AppList) : \A s \in ToSet(spec[a].sources) : \A f \in push.files :
      LET p == s.path
          StartsWith == /\ p.lead = f.lead /\ IsPrefix(p.segs, f.segs)
                        /\ p.trail => Len(p.segs) < Len(f.segs)
      IN  SameRepo(s.repoURL, push.repo) /\ StartsWith => a \in ToSet(affected)
=============================================================================
