----------------------------- MODULE PRComments -----------------------------
(* pkg/github/client.go: PostComment and DeleteOldComments of several jobs on *)
(* the comment thread of one pull request.  The thread lives on GitHub; every *)
(* API call is one action, and other posters and users act between two calls. *)
EXTENDS Naturals, Sequences, FiniteSets

CONSTANTS
  Posters,    \* calls of PostComment: one per job, or per error report of a job
  Workflows,  \* workflow names
  Workflow,   \* the workflow name each poster passes
  Parts,      \* into how many parts splitComment splits each poster's body
  PageSize,   \* comments per page of the list call (100 in the code)
  OldThread,  \* the thread at the start: [wf, by] of each comment, oldest first
  UserMarks,  \* the workflow identifiers users' comments may contain
  User,       \* the author of comments argo-diff did not post
  Earlier,    \* the author of the reports of earlier processes
  NoWorkflow, \* the workflow of a comment without identifier
  MaxUser     \* bound: how many comments users add

ASSUME PRAssumption ==
  /\ Workflow \in [Posters -> Workflows]
  /\ Parts \in [Posters -> Nat \ {0}]    \* splitComment never returns no part
  /\ PageSize \in Nat \ {0} /\ MaxUser \in Nat
  /\ UserMarks \subseteq Workflows
  /\ NoWorkflow \notin Workflows /\ {User, Earlier} \cap Posters = {}
  /\ OldThread \in Seq([wf : Workflows \cup {NoWorkflow}, by : {User, Earlier}])

VARIABLES
  comments,   \* the thread, a set of [id, wf, by, part]; a newer one has a greater id
  nextId,     \* the id GitHub gives the next comment
  pc,         \* where each PostComment call is
  page,       \* opts.Page of each call (the first page is 1)
  batch,      \* ids on the listed page still to be deleted, smallest first
  next,       \* resp.NextPage of the last list call, 0 at the end
  posted,     \* parts created by each call
  latest,     \* history: the poster of each workflow that started last
  disturbed,  \* history: posters that met another poster of their workflow, or a second page
  userPosts   \* history: ids of the comments users added, and how many

vars == <<comments, nextId, pc, page, batch, next, posted, latest, disturbed, userPosts>>
scratch == <<page, batch, next>>
history == <<latest, disturbed, userPosts>>

Active(p) == pc[p] \in {"list", "delete", "create"}

Init ==
  /\ comments = {[id |-> i, wf |-> OldThread[i].wf, by |-> OldThread[i].by, part |-> 1] :
                   i \in 1..Len(OldThread)}
  /\ nextId = Len(OldThread) + 1
  /\ pc = [p \in Posters |-> "idle"]
  /\ page = [p \in Posters |-> 1]
  /\ batch = [p \in Posters |-> {}]
  /\ next = [p \in Posters |-> 0]
  /\ posted = [p \in Posters |-> 0]
  /\ latest = [w \in Workflows |-> Earlier]
  /\ disturbed = {} /\ userPosts = {}

(* GitHub.  A thread is listed by its ids, PageSize comments a page. *)
Removed(id) == {c \in comments : c.id # id}
Add(wf, by, part) ==
  /\ comments' = comments \cup {[id |-> nextId, wf |-> wf, by |-> by, part |-> part]}
  /\ nextId' = nextId + 1
Exists(id) == \E c \in comments : c.id = id

Older(c) == {d \in comments : d.id < c.id}
OnPage(n) ==
  {c \in comments : Cardinality(Older(c)) \in (n - 1) * PageSize..n * PageSize - 1}
NextPage(n) == IF n * PageSize < Cardinality(comments) THEN n + 1 ELSE 0

(* isWorkflowComment: the body contains the identifier, whoever wrote it. *)
MutantIsWorkflowComment(c, p) == c.wf # NoWorkflow
IsWorkflowComment(c, p) == c.wf = Workflow[p]

(* What follows the work on a page: the next deletion, the next page, or the  *)
(* creation of the parts.                                                     *)
MutantAfterDelete(p, rest, more) ==
  /\ batch' = [batch EXCEPT ![p] = rest]
  /\ next' = [next EXCEPT ![p] = more]
  /\ page' = page
  /\ pc' = [pc EXCEPT ![p] = IF rest # {} THEN "delete"
                             ELSE IF more # 0 THEN "list" ELSE "create"]
AfterDelete(p, rest, more) ==
  /\ batch' = [batch EXCEPT ![p] = rest]
  /\ next' = [next EXCEPT ![p] = more]
  /\ page' = [page EXCEPT ![p] = IF rest = {} /\ more # 0 THEN more ELSE @]
  /\ pc' = [pc EXCEPT ![p] = IF rest # {} THEN "delete"
                             ELSE IF more # 0 THEN "list" ELSE "create"]

Start(p) ==
  /\ pc[p] = "idle"
  /\ pc' = [pc EXCEPT ![p] = "list"]
  /\ latest' = [latest EXCEPT ![Workflow[p]] = p]
  /\ LET others == {q \in Posters : Active(q) /\ Workflow[q] = Workflow[p]}
     IN  disturbed' = disturbed \cup others \cup (IF others = {} THEN {} ELSE {p})
  /\ UNCHANGED <<comments, nextId, scratch, posted, userPosts>>

List(p) ==
  /\ pc[p] = "list"
  /\ LET mine == {c \in OnPage(page[p]) : IsWorkflowComment(c, p)}
     IN  AfterDelete(p, {c.id : c \in mine}, NextPage(page[p]))
  /\ disturbed' = IF NextPage(page[p]) # 0 THEN disturbed \cup {p} ELSE disturbed
  /\ UNCHANGED <<comments, nextId, posted, latest, userPosts>>

Oldest(ids) == CHOOSE id \in ids : \A other \in ids : id <= other

\* A comment that is already gone answers 404: an error like any other.
Delete(p) ==
  /\ pc[p] = "delete"
  /\ \/ /\ Exists(Oldest(batch[p]))
        /\ comments' = Removed(Oldest(batch[p]))
        /\ AfterDelete(p, batch[p] \ {Oldest(batch[p])}, next[p])
     \/ /\ ~Exists(Oldest(batch[p]))
        /\ pc' = [pc EXCEPT ![p] = "failed"]
        /\ UNCHANGED <<comments, scratch>>
  /\ UNCHANGED <<nextId, posted, history>>

MutantAllPosted(p) == posted[p] >= Parts[p]
AllPosted(p) == posted[p] + 1 = Parts[p]

Create(p) ==
  /\ pc[p] = "create"
  /\ Add(Workflow[p], p, posted[p] + 1)
  /\ posted' = [posted EXCEPT ![p] = @ + 1]
  /\ pc' = [pc EXCEPT ![p] = IF AllPosted(p) THEN "ok" ELSE @]
  /\ UNCHANGED <<scratch, history>>

(* Any API call can return an error: GitHub refuses it, the job's context     *)
(* expires, or the process exits.  The call may have taken effect before the  *)
(* answer was lost.  Nothing is retried and nothing is undone.                *)
MutantFail(p) ==
  /\ Active(p)
  /\ pc' = [pc EXCEPT ![p] = IF @ = "create" THEN "failed" ELSE "create"]
  /\ UNCHANGED <<comments, nextId, scratch, posted, history>>
Fail(p) ==
  /\ Active(p)
  /\ pc' = [pc EXCEPT ![p] = "failed"]
  /\ \/ UNCHANGED <<comments, nextId>>
     \/ /\ pc[p] = "delete"
        /\ comments' = Removed(Oldest(batch[p]))
        /\ UNCHANGED nextId
     \/ /\ pc[p] = "create"
        /\ Add(Workflow[p], p, posted[p] + 1)
  /\ UNCHANGED <<scratch, posted, history>>

UserComment ==
  /\ Cardinality(userPosts) < MaxUser
  /\ \E wf \in UserMarks \cup {NoWorkflow} : Add(wf, User, 1)
  /\ userPosts' = userPosts \cup {nextId}
  /\ UNCHANGED <<pc, scratch, posted, latest, disturbed>>

PostStep(p) == List(p) \/ Delete(p) \/ Create(p)

Next == UserComment \/ \E p \in Posters : Start(p) \/ PostStep(p) \/ Fail(p)

\* A call that was started goes on unless it fails: its goroutine runs and GitHub
\* answers.  No failure is needed for that.
Fairness == \A p \in Posters : WF_vars(PostStep(p))

Spec == Init /\ [][Next]_vars /\ Fairness
-----------------------------------------------------------------------------
PartsOn(p) == {c \in comments : c.by = p}

\* The first n parts, each once and one below the other.
FirstParts(p, n) ==
  /\ {c.part : c \in PartsOn(p)} = 1..n
  /\ \A c, d \in PartsOn(p) : c.id < d.id => c.part < d.part
  /\ \A c, d \in PartsOn(p) : c.part = d.part => c = d
CompleteReport(p) == FirstParts(p, Parts[p])

\* A poster that met no other of its workflow and no second page.
Undisturbed(p) == latest[Workflow[p]] = p /\ p \notin disturbed
OnlyReport(p) == \A c \in comments : c.wf = Workflow[p] => c.by = p \/ c.id \in userPosts

\* An undisturbed PostComment that succeeds leaves the thread with its own parts, in
\* order, as the only report of its workflow: the older report is gone, and posters
\* of other workflows took nothing away.
SoleReport ==
  \A p \in Posters : pc[p] = "ok" /\ Undisturbed(p) => CompleteReport(p) /\ OnlyReport(p)

\* Whichever call fails, and whether or not it took effect: an undisturbed poster has
\* nothing on the thread, or a beginning of its report without a gap and nothing left
\* of the older one.  No pull request shows an old report mixed with a new one.
ReportsNotMixed ==
  \A p \in Posters :
    Undisturbed(p) /\ PartsOn(p) # {} =>
      (\E n \in 1..Parts[p] : FirstParts(p, n)) /\ OnlyReport(p)

\* However the posters of a workflow interleave, and over however many pages:
\* when all that started have succeeded, a whole report is on the pull request.
\* (Two posters can never delete each other's parts.)
SurvivingReport ==
  \A w \in Workflows :
    LET started == {p \in Posters : Workflow[p] = w /\ pc[p] # "idle"}
    IN  started # {} /\ (\A p \in started : pc[p] = "ok")
          => \E p \in started : CompleteReport(p)

\* A comment disappears only at the hands of a poster that deletes, and only if it
\* has the identifier of that poster's workflow: pages that shift, users that write
\* and jobs of other workflows never turn a deletion on another comment.  (The author
\* does not count: a comment in which a user quotes the identifier has it.)
OwnRemoved ==
  \A c \in comments \ comments' : \E p \in Posters : pc[p] = "delete" /\ c.wf = Workflow[p]
OnlyOwnRemoved == [][OwnRemoved]_vars

\* IMPLEMENTATION.md:223-225: the previous comments of the workflow are deleted,
\* with pagination to get all of them.  Stated of a poster nobody disturbs.
OldReportsDeleted ==
  \A p \in Posters :
    pc[p] = "ok" /\ (\A q \in Posters \ {p} : pc[q] = "idle") =>
      \A c \in comments : c.wf = Workflow[p] => c.by = p

\* Every PostComment that was called returns.
PostReturns ==
  \A p \in Posters : pc[p] = "list" ~> pc[p] \in {"ok", "failed"}
=============================================================================
