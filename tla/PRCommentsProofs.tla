-------------------------- MODULE PRCommentsProofs --------------------------
(* What PostComment leaves on the thread, for every number of jobs, workflows,*)
(* parts and comments, and every size of a page, with machine-checked proofs. *)
EXTENDS PRComments, FiniteSetTheorems, WellFoundedInduction, TLAPS

Comment == [id : Nat, wf : Workflows \cup {NoWorkflow}, by : Posters \cup {User, Earlier},
            part : Nat]

PRTypeOK ==
  /\ comments \subseteq Comment /\ IsFiniteSet(comments)
  /\ nextId \in Nat
  /\ pc \in [Posters -> {"idle", "list", "delete", "create", "ok", "failed"}]
  /\ page \in [Posters -> Nat] /\ next \in [Posters -> Nat]
  /\ batch \in [Posters -> SUBSET Nat]
  /\ posted \in [Posters -> Nat]
  /\ latest \in [Workflows -> Posters \cup {Earlier}]
  /\ disturbed \subseteq Posters /\ userPosts \subseteq Nat

\* Ids are unique, and all that are in use were given.
IdInv ==
  /\ \A c, d \in comments : c.id = d.id => c = d
  /\ \A c \in comments : c.id < nextId
  /\ \A p \in Posters : \A id \in batch[p] : id < nextId
  /\ \A id \in userPosts : id < nextId

\* A poster has something to delete while it deletes, and what it deletes has the
\* identifier of its workflow.
AimInv ==
  \A p \in Posters :
    /\ pc[p] = "delete" => batch[p] # {}
    /\ \A id \in batch[p] : \A c \in comments : c.id = id => c.wf = Workflow[p]

\* What a poster creates has its workflow's identifier, and how much of its report
\* it has created.
OwnInv ==
  \A p \in Posters :
    /\ \A c \in PartsOn(p) : c.wf = Workflow[p]
    /\ pc[p] \in {"idle", "list", "delete"} => posted[p] = 0 /\ PartsOn(p) = {}
    /\ pc[p] = "create" => posted[p] < Parts[p]
    /\ pc[p] = "ok" => posted[p] = Parts[p]

\* The parts it created are all there, one below the other.
Whole(p) == FirstParts(p, posted[p])

\* Of the posters of a workflow that succeed the last one to list the thread keeps
\* its parts: nobody has seen them, and nobody will look again.
WillList(p) == pc[p] = "list" \/ (pc[p] = "delete" /\ next[p] # 0)
Settled(p) ==
  /\ pc[p] \in {"delete", "create", "ok"} /\ ~WillList(p)
  /\ Whole(p)
  /\ \A q \in Posters : \A c \in PartsOn(p) : c.id \notin batch[q]
Started(w) == {p \in Posters : Workflow[p] = w /\ pc[p] # "idle"}
LastListerInv ==
  \A w \in Workflows : Started(w) # {} =>
    \E p \in Started(w) : WillList(p) \/ pc[p] = "failed" \/ Settled(p)

\* A poster nobody disturbed has the thread of its workflow for itself, as long as
\* no other starts: on its one page it lists every comment of the workflow.
OnePageInv ==
  \A p \in Posters \ disturbed :
    /\ pc[p] \in {"idle", "list"} => page[p] = 1
    /\ pc[p] = "delete" => next[p] = 0
Left(p) == {c \in comments : c.wf = Workflow[p] /\ c.by # p /\ c.id \notin userPosts}
Begun(p) == \E n \in 1..Parts[p] : FirstParts(p, n)
AloneInv ==
  \A p \in Posters : Undisturbed(p) =>
    /\ pc[p] # "idle"
    /\ \A q \in Posters \ {p} : Workflow[q] = Workflow[p] => ~Active(q)
    /\ pc[p] = "delete" => \A c \in Left(p) : c.id \in batch[p]
    /\ pc[p] \in {"create", "ok"} => Left(p) = {}
    /\ pc[p] \in {"delete", "create", "ok"} => Whole(p)
    /\ pc[p] = "failed" /\ PartsOn(p) # {} => Left(p) = {} /\ Begun(p)

PRInv == PRTypeOK /\ IdInv /\ AimInv /\ OwnInv /\ LastListerInv /\ OnePageInv /\ AloneInv

LEMMA OldestIsOne ==
  ASSUME NEW ids \in SUBSET Nat, ids # {}
  PROVE  Oldest(ids) \in ids
<1>1. PICK id \in ids : \A q \in ids : ~(<<q, id>> \in OpToRel(<, Nat))
  BY NatLessThanWellFounded, WFMin
<1>2. \A q \in ids : ~(q < id)
  BY <1>1 DEF OpToRel
<1>3. \A q \in ids : id <= q
  BY <1>2
<1> QED BY <1>3 DEF Oldest

-----------------------------------------------------------------------------
(* The types. *)

LEMMA PRTypesInit == Init => PRTypeOK
<1> SUFFICES ASSUME Init PROVE PRTypeOK
  OBVIOUS
<1> DEFINE n == Len(OldThread)
           Old(i) == [id |-> i, wf |-> OldThread[i].wf, by |-> OldThread[i].by, part |-> 1]
           f == [i \in 1..n |-> Old(i)]
<1> DEFINE Remark == [wf : Workflows \cup {NoWorkflow}, by : {User, Earlier}]
<1>a. OldThread \in Seq(Remark)
  BY PRAssumption
<1> HIDE DEF Remark
<1>1. n \in Nat /\ \A i \in 1..n : OldThread[i] \in Remark
  BY <1>a
<1> USE DEF Remark
<1>2. comments = {Old(i) : i \in 1..n}
  BY DEF Init
<1>3. comments \subseteq Comment
  BY <1>1, <1>2 DEF Comment
<1>4. IsFiniteSet(comments)
  <2>1. f \in Surjection(1..n, comments)
    BY <1>2 DEF Surjection
  <2>2. IsFiniteSet(1..n)
    <3>1. \A k \in Nat : IsFiniteSet(1..k)
      BY FS_Interval
    <3> QED BY <1>1, <3>1
  <2> QED BY <2>1, <2>2, FS_Surjection
<1>5. nextId \in Nat
  BY <1>1 DEF Init
<1> QED BY <1>3, <1>4, <1>5, PRAssumption DEF Init, PRTypeOK

\* The thread after each of the changes GitHub makes to it.
LEMMA ThreadTyped ==
  ASSUME PRTypeOK
  PROVE  /\ \A id : Removed(id) \subseteq Comment /\ IsFiniteSet(Removed(id))
         /\ \A wf \in Workflows \cup {NoWorkflow}, by \in Posters \cup {User}, part \in Nat :
              Add(wf, by, part) =>
                comments' \subseteq Comment /\ IsFiniteSet(comments') /\ nextId' \in Nat
<1>1. ASSUME NEW id PROVE Removed(id) \subseteq Comment /\ IsFiniteSet(Removed(id))
  BY FS_Subset DEF PRTypeOK, Removed
<1>2. ASSUME NEW wf \in Workflows \cup {NoWorkflow}, NEW by \in Posters \cup {User},
             NEW part \in Nat, Add(wf, by, part)
      PROVE  comments' \subseteq Comment /\ IsFiniteSet(comments') /\ nextId' \in Nat
  <2>1. [id |-> nextId, wf |-> wf, by |-> by, part |-> part] \in Comment
    BY DEF PRTypeOK, Comment
  <2> QED BY <1>2, <2>1, FS_AddElement DEF PRTypeOK, Add
<1> QED BY <1>1, <1>2

LEMMA PRTypesStep == PRTypeOK /\ [Next]_vars => PRTypeOK'
<1> SUFFICES ASSUME PRTypeOK, [Next]_vars PROVE PRTypeOK'
  OBVIOUS
<1> USE DEF scratch, history
<1>1. ASSUME NEW p \in Posters, Start(p) PROVE PRTypeOK'
  BY <1>1, PRAssumption DEF Start, PRTypeOK
<1>2. ASSUME NEW p \in Posters, List(p) PROVE PRTypeOK'
  <2>1. {c.id : c \in {c \in OnPage(page[p]) : IsWorkflowComment(c, p)}} \in SUBSET Nat
    BY DEF PRTypeOK, OnPage, Comment
  <2>2. NextPage(page[p]) \in Nat
    BY DEF PRTypeOK, NextPage
  <2> QED BY <1>2, <2>1, <2>2 DEF List, AfterDelete, PRTypeOK
<1>3. ASSUME NEW p \in Posters, Delete(p) PROVE PRTypeOK'
  <2>1. comments' \subseteq Comment /\ IsFiniteSet(comments')
    BY <1>3, ThreadTyped DEF Delete, PRTypeOK
  <2> QED BY <1>3, <2>1 DEF Delete, AfterDelete, PRTypeOK
<1>4. ASSUME NEW p \in Posters, Create(p) PROVE PRTypeOK'
  <2>a. Workflow[p] \in Workflows /\ posted[p] + 1 \in Nat
    BY PRAssumption DEF PRTypeOK
  <2>1. comments' \subseteq Comment /\ IsFiniteSet(comments') /\ nextId' \in Nat
    BY <1>4, <2>a, ThreadTyped DEF Create
  <2> QED BY <1>4, <2>1 DEF Create, PRTypeOK
<1>5. ASSUME NEW p \in Posters, Fail(p) PROVE PRTypeOK'
  <2>a. Workflow[p] \in Workflows /\ posted[p] + 1 \in Nat
    BY PRAssumption DEF PRTypeOK
  <2>b. CASE UNCHANGED <<comments, nextId>>
    BY <1>5, <2>b DEF Fail, PRTypeOK
  <2>c. CASE comments' = Removed(Oldest(batch[p])) /\ UNCHANGED nextId
    BY <1>5, <2>c, ThreadTyped DEF Fail, PRTypeOK
  <2>d. CASE Add(Workflow[p], p, posted[p] + 1)
    <3>1. comments' \subseteq Comment /\ IsFiniteSet(comments') /\ nextId' \in Nat
      BY <2>a, <2>d, ThreadTyped
    <3> QED BY <1>5, <3>1 DEF Fail, PRTypeOK
  <2> QED BY <1>5, <2>b, <2>c, <2>d DEF Fail
<1>6. ASSUME UserComment PROVE PRTypeOK'
  <2>1. comments' \subseteq Comment /\ IsFiniteSet(comments') /\ nextId' \in Nat
    BY <1>6, ThreadTyped, PRAssumption DEF UserComment, PRTypeOK
  <2> QED BY <1>6, <2>1 DEF UserComment, PRTypeOK
<1>7. ASSUME UNCHANGED vars PROVE PRTypeOK'
  BY <1>7 DEF vars, PRTypeOK
<1> QED BY <1>1, <1>2, <1>3, <1>4, <1>5, <1>6, <1>7 DEF Next, PostStep

-----------------------------------------------------------------------------
(* Ids, and what the posters aim at. *)

LEMMA IdInit == Init => IdInv /\ AimInv /\ OwnInv
<1> SUFFICES ASSUME Init PROVE IdInv /\ AimInv /\ OwnInv
  OBVIOUS
<1> DEFINE n == Len(OldThread)
           Remark == [wf : Workflows \cup {NoWorkflow}, by : {User, Earlier}]
<1>a. OldThread \in Seq(Remark)
  BY PRAssumption
<1> HIDE DEF Remark
<1>1. n \in Nat /\ \A i \in 1..n : OldThread[i] \in Remark
  BY <1>a
<1> USE DEF Remark
<1>2. \A c \in comments : c.id \in 1..n /\ c.by \in {User, Earlier}
                          /\ c = [id |-> c.id, wf |-> OldThread[c.id].wf,
                                  by |-> OldThread[c.id].by, part |-> 1]
  BY <1>1 DEF Init
<1>3. IdInv
  BY <1>1, <1>2 DEF Init, IdInv
<1>4. AimInv
  BY DEF Init, AimInv
<1>5. \A p \in Posters : PartsOn(p) = {}
  BY <1>2, PRAssumption DEF PartsOn
<1>6. OwnInv
  BY <1>5 DEF Init, OwnInv
<1> QED BY <1>3, <1>4, <1>6

\* What a call changes on the thread.  Only the comments of its own workflow go
\* away, with an id it had listed; a new comment has a new id.
Gone(p) ==
  /\ comments' = Removed(Oldest(batch[p])) /\ nextId' = nextId
  /\ Oldest(batch[p]) \in batch[p]

LEMMA IdKept ==
  ASSUME PRTypeOK, IdInv, userPosts' = userPosts \/ userPosts' = userPosts \cup {nextId},
         \A p \in Posters : batch'[p] \subseteq batch[p] \cup {c.id : c \in comments},
         \/ comments' \subseteq comments /\ nextId' = nextId /\ userPosts' = userPosts
         \/ \E wf, by, part : Add(wf, by, part)
  PROVE  IdInv'
<1>1. CASE comments' \subseteq comments /\ nextId' = nextId /\ userPosts' = userPosts
  BY <1>1 DEF IdInv
<1>2. CASE \E wf, by, part : Add(wf, by, part)
  <2> PICK wf, by, part : Add(wf, by, part)
    BY <1>2
  <2> DEFINE new == [id |-> nextId, wf |-> wf, by |-> by, part |-> part]
  <2>1. comments' = comments \cup {new} /\ nextId' = nextId + 1 /\ new.id = nextId
    BY DEF Add
  <2> HIDE DEF new
  <2>2. nextId \in Nat /\ \A c \in comments : c.id \in Nat
    BY DEF PRTypeOK, Comment
  <2>3. \A c, d \in comments' : c.id = d.id => c = d
    BY <2>1, <2>2 DEF IdInv
  <2>4. \A c \in comments' : c.id < nextId'
    BY <2>1, <2>2 DEF IdInv
  <2>5. ASSUME NEW p \in Posters, NEW id \in batch'[p] PROVE id < nextId'
    <3>1. id \in Nat /\ id < nextId
      BY <2>2, <2>5 DEF IdInv, PRTypeOK
    <3> QED BY <3>1, <2>1, <2>2
  <2>6. ASSUME NEW id \in userPosts' PROVE id < nextId'
    <3>1. id = nextId \/ (id \in Nat /\ id < nextId)
      <4>1. id \in userPosts \/ id = nextId
        BY <2>6
      <4>2. \A i \in userPosts : i \in Nat /\ i < nextId
        BY DEF IdInv, PRTypeOK
      <4> QED BY <4>1, <4>2
    <3> QED BY <3>1, <2>1, <2>2
  <2> QED BY <2>3, <2>4, <2>5, <2>6 DEF IdInv
<1> QED BY <1>1, <1>2

LEMMA DeleteAims ==
  ASSUME PRTypeOK, AimInv, NEW p \in Posters, pc[p] = "delete"
  PROVE  /\ Oldest(batch[p]) \in batch[p]
         /\ \A c \in comments : c.id = Oldest(batch[p]) => c.wf = Workflow[p]
<1>1. batch[p] \in SUBSET Nat /\ batch[p] # {}
  BY DEF PRTypeOK, AimInv
<1>2. Oldest(batch[p]) \in batch[p]
  BY <1>1, OldestIsOne
<1> QED BY <1>2 DEF AimInv

LEMMA ListedIds ==
  ASSUME NEW p \in Posters, List(p)
  PROVE  /\ batch' = [batch EXCEPT ![p] =
                        {c.id : c \in {c \in OnPage(page[p]) : IsWorkflowComment(c, p)}}]
         /\ next' = [next EXCEPT ![p] = NextPage(page[p])]
         /\ comments' = comments /\ nextId' = nextId /\ posted' = posted
         /\ userPosts' = userPosts /\ latest' = latest
  BY DEF List, AfterDelete

LEMMA IdStep == PRTypeOK /\ IdInv /\ AimInv /\ [Next]_vars => IdInv'
<1> SUFFICES ASSUME PRTypeOK, IdInv, AimInv, [Next]_vars PROVE IdInv'
  OBVIOUS
<1> USE DEF scratch, history
<1>1. ASSUME NEW p \in Posters, Start(p) PROVE IdInv'
  BY <1>1 DEF Start, IdInv
<1>2. ASSUME NEW p \in Posters, List(p) PROVE IdInv'
  <2>1. \A q \in Posters : batch'[q] \subseteq batch[q] \cup {c.id : c \in comments}
    BY <1>2, ListedIds DEF OnPage, PRTypeOK
  <2> QED BY <1>2, <2>1, IdKept, ListedIds
<1>3. ASSUME NEW p \in Posters, Delete(p) PROVE IdInv'
  <2>1. \A q \in Posters : batch'[q] \subseteq batch[q] \cup {c.id : c \in comments}
    BY <1>3 DEF Delete, AfterDelete, PRTypeOK
  <2>2. comments' \subseteq comments /\ nextId' = nextId /\ userPosts' = userPosts
    BY <1>3 DEF Delete, Removed
  <2> QED BY <2>1, <2>2, IdKept
<1>4. ASSUME NEW p \in Posters, Create(p) PROVE IdInv'
  BY <1>4, IdKept DEF Create
<1>5. ASSUME NEW p \in Posters, Fail(p) PROVE IdInv'
  <2>1. batch' = batch /\ userPosts' = userPosts
    BY <1>5 DEF Fail
  <2>2. \/ comments' \subseteq comments /\ nextId' = nextId
        \/ Add(Workflow[p], p, posted[p] + 1)
    BY <1>5 DEF Fail, Removed
  <2> QED BY <2>1, <2>2, IdKept
<1>6. ASSUME UserComment PROVE IdInv'
  <2>1. \E wf, by, part : Add(wf, by, part)
    BY <1>6 DEF UserComment
  <2>2. batch' = batch /\ userPosts' = userPosts \cup {nextId}
    BY <1>6 DEF UserComment
  <2> QED BY <2>1, <2>2, IdKept
<1>7. ASSUME UNCHANGED vars PROVE IdInv'
  BY <1>7 DEF vars, IdInv
<1> QED BY <1>1, <1>2, <1>3, <1>4, <1>5, <1>6, <1>7 DEF Next, PostStep

LEMMA AimStep == PRTypeOK /\ IdInv /\ AimInv /\ [Next]_vars => AimInv'
<1> SUFFICES ASSUME PRTypeOK, IdInv, AimInv, [Next]_vars PROVE AimInv'
  OBVIOUS
<1> USE DEF scratch, history
<1>a. \A p \in Posters : \A id \in batch[p] : id \in Nat /\ id < nextId /\ id # nextId
  BY DEF PRTypeOK, IdInv
<1>b. ASSUME NEW wf, NEW by, NEW part, Add(wf, by, part), batch' = batch,
             \A p \in Posters : pc'[p] = "delete" => pc[p] = "delete"
      PROVE  AimInv'
  <2>1. \A c \in comments' : c \in comments \/ c.id = nextId
    BY <1>b DEF Add
  <2> QED BY <1>a, <1>b, <2>1 DEF AimInv
<1>1. ASSUME NEW p \in Posters, Start(p) PROVE AimInv'
  BY <1>1 DEF Start, AimInv, PRTypeOK
<1>2. ASSUME NEW p \in Posters, List(p) PROVE AimInv'
  <2> DEFINE ids == {c.id : c \in {c \in OnPage(page[p]) : IsWorkflowComment(c, p)}}
  <2>1. \A id \in ids : \A c \in comments : c.id = id => c.wf = Workflow[p]
    BY DEF OnPage, IsWorkflowComment, IdInv
  <2>2. pc'[p] = "delete" => ids # {}
    BY <1>2 DEF List, AfterDelete, PRTypeOK
  <2> HIDE DEF ids
  <2>3. batch' = [batch EXCEPT ![p] = ids] /\ comments' = comments
    BY <1>2, ListedIds DEF ids
  <2>4. \A q \in Posters \ {p} : pc'[q] = pc[q]
    BY <1>2 DEF List, AfterDelete, PRTypeOK
  <2> QED BY <2>1, <2>2, <2>3, <2>4 DEF AimInv, PRTypeOK
<1>3. ASSUME NEW p \in Posters, Delete(p) PROVE AimInv'
  <2>1. \A q \in Posters : batch'[q] \subseteq batch[q]
    BY <1>3 DEF Delete, AfterDelete, PRTypeOK
  <2>2. comments' \subseteq comments
    BY <1>3 DEF Delete, Removed
  <2>3. pc'[p] = "delete" => batch'[p] # {}
    BY <1>3 DEF Delete, AfterDelete, PRTypeOK
  <2>4. \A q \in Posters \ {p} : pc'[q] = pc[q] /\ batch'[q] = batch[q]
    BY <1>3 DEF Delete, AfterDelete, PRTypeOK
  <2> QED BY <2>1, <2>2, <2>3, <2>4 DEF AimInv
<1>4. ASSUME NEW p \in Posters, Create(p) PROVE AimInv'
  <2>1. \A q \in Posters : pc'[q] = "delete" => pc[q] = "delete"
    BY <1>4 DEF Create, PRTypeOK
  <2> QED BY <1>4, <1>b, <2>1 DEF Create
<1>5. ASSUME NEW p \in Posters, Fail(p) PROVE AimInv'
  <2>1. batch' = batch /\ \A q \in Posters : pc'[q] = "delete" => pc[q] = "delete"
    BY <1>5 DEF Fail, PRTypeOK
  <2>2. \/ comments' \subseteq comments
        \/ Add(Workflow[p], p, posted[p] + 1)
    BY <1>5 DEF Fail, Removed
  <2>3. CASE comments' \subseteq comments
    BY <2>1, <2>3 DEF AimInv
  <2> QED BY <1>b, <2>1, <2>2, <2>3
<1>6. ASSUME UserComment PROVE AimInv'
  <2>1. \E wf, by, part : Add(wf, by, part)
    BY <1>6 DEF UserComment
  <2> QED BY <1>6, <1>b, <2>1 DEF UserComment
<1>7. ASSUME UNCHANGED vars PROVE AimInv'
  BY <1>7 DEF vars, AimInv
<1> QED BY <1>1, <1>2, <1>3, <1>4, <1>5, <1>6, <1>7 DEF Next, PostStep

-----------------------------------------------------------------------------
(* A poster's own report. *)

\* A comment of p is created by p only, and deleted only with an id in a batch.
LEMMA PartsOnAdd ==
  ASSUME NEW p \in Posters, NEW wf, NEW by, NEW part, Add(wf, by, part)
  PROVE  PartsOn(p)' = PartsOn(p) \cup
           (IF by = p THEN {[id |-> nextId, wf |-> wf, by |-> by, part |-> part]} ELSE {})
  BY DEF PartsOn, Add

LEMMA OwnStep == PRTypeOK /\ OwnInv /\ [Next]_vars => OwnInv'
<1> SUFFICES ASSUME PRTypeOK, OwnInv, [Next]_vars PROVE OwnInv'
  OBVIOUS
<1> USE DEF scratch, history
<1>a. ASSUME comments' \subseteq comments, posted' = posted,
             \A p \in Posters : pc'[p] \in {"idle", "list", "delete"} =>
                                pc[p] \in {"idle", "list", "delete"},
             \A p \in Posters : pc'[p] = "create" => pc[p] \in {"list", "delete", "create"},
             \A p \in Posters : pc'[p] = "ok" => pc[p] = "ok"
      PROVE  OwnInv'
  <2>1. \A p \in Posters : PartsOn(p)' \subseteq PartsOn(p)
    BY <1>a DEF PartsOn
  <2>2. \A p \in Posters : 0 < Parts[p]
    BY PRAssumption
  <2> QED BY <1>a, <2>1, <2>2 DEF OwnInv
<1>1. ASSUME NEW p \in Posters, Start(p) PROVE OwnInv'
  BY <1>1, <1>a DEF Start, PRTypeOK
<1>2. ASSUME NEW p \in Posters, List(p) PROVE OwnInv'
  BY <1>2, <1>a DEF List, AfterDelete, PRTypeOK
<1>3. ASSUME NEW p \in Posters, Delete(p) PROVE OwnInv'
  <2>1. comments' \subseteq comments
    BY <1>3 DEF Delete, Removed
  <2> QED BY <1>3, <1>a, <2>1 DEF Delete, AfterDelete, PRTypeOK
<1>4. ASSUME NEW p \in Posters, Create(p) PROVE OwnInv'
  <2> DEFINE new == [id |-> nextId, wf |-> Workflow[p], by |-> p, part |-> posted[p] + 1]
  <2>0. Add(Workflow[p], p, posted[p] + 1)
    BY <1>4 DEF Create
  <2>1. PartsOn(p)' = PartsOn(p) \cup {new}
    BY <2>0, PartsOnAdd
  <2>2. \A q \in Posters \ {p} : PartsOn(q)' = PartsOn(q)
    BY <2>0, PartsOnAdd
  <2>3. new.wf = Workflow[p]
    OBVIOUS
  <2> HIDE DEF new
  <2>4. pc[p] = "create" /\ posted[p] < Parts[p] /\ posted[p] \in Nat /\ Parts[p] \in Nat
    BY <1>4, PRAssumption DEF Create, OwnInv, PRTypeOK
  <2>5. /\ posted'[p] = posted[p] + 1
        /\ pc'[p] = IF posted[p] + 1 = Parts[p] THEN "ok" ELSE "create"
        /\ \A q \in Posters \ {p} : pc'[q] = pc[q] /\ posted'[q] = posted[q]
    BY <1>4 DEF Create, AllPosted, PRTypeOK
  <2>6. /\ \A c \in PartsOn(p)' : c.wf = Workflow[p]
        /\ pc'[p] \notin {"idle", "list", "delete"}
        /\ pc'[p] = "create" => posted'[p] < Parts[p]
        /\ pc'[p] = "ok" => posted'[p] = Parts[p]
    BY <2>1, <2>3, <2>4, <2>5 DEF OwnInv
  <2> QED BY <2>2, <2>5, <2>6 DEF OwnInv
<1>5. ASSUME NEW p \in Posters, Fail(p) PROVE OwnInv'
  <2>1. /\ pc'[p] = "failed" /\ posted' = posted
        /\ \A q \in Posters \ {p} : pc'[q] = pc[q]
    BY <1>5 DEF Fail, PRTypeOK
  <2>2. CASE comments' \subseteq comments
    BY <1>a, <2>1, <2>2
  <2>3. CASE Add(Workflow[p], p, posted[p] + 1)
    <3>1. \A q \in Posters \ {p} : PartsOn(q)' = PartsOn(q)
      BY <2>3, PartsOnAdd
    <3>2. \A c \in PartsOn(p)' : c.wf = Workflow[p]
      BY <2>3, PartsOnAdd DEF OwnInv
    <3> QED BY <2>1, <3>1, <3>2 DEF OwnInv
  <2> QED BY <1>5, <2>2, <2>3 DEF Fail, Removed
<1>6. ASSUME UserComment PROVE OwnInv'
  <2>1. \A p \in Posters : PartsOn(p)' = PartsOn(p)
    BY <1>6, PartsOnAdd, PRAssumption DEF UserComment
  <2> QED BY <1>6, <2>1 DEF UserComment, OwnInv
<1>7. ASSUME UNCHANGED vars PROVE OwnInv'
  BY <1>7 DEF vars, OwnInv, PartsOn
<1> QED BY <1>1, <1>2, <1>3, <1>4, <1>5, <1>6, <1>7 DEF Next, PostStep

\* A report stays whole while nobody touches it and while its poster appends to it.
LEMMA WholeKept ==
  ASSUME NEW p \in Posters, Whole(p), PartsOn(p)' = PartsOn(p), posted'[p] = posted[p]
  PROVE  Whole(p)'
  BY DEF Whole, FirstParts

LEMMA NextPart ==
  ASSUME PRTypeOK, IdInv, NEW p \in Posters, Whole(p),
         Add(Workflow[p], p, posted[p] + 1), NEW m, m = posted[p] + 1
  PROVE  FirstParts(p, m)'
<1> DEFINE new == [id |-> nextId, wf |-> Workflow[p], by |-> p, part |-> posted[p] + 1]
           n == posted[p]
<1>1. PartsOn(p)' = PartsOn(p) \cup {new} /\ new.id = nextId /\ new.part = n + 1
  BY PartsOnAdd
<1> HIDE DEF new
<1>2. n \in Nat /\ nextId \in Nat
  BY DEF PRTypeOK
<1>3. \A c \in PartsOn(p) : c.id \in Nat /\ c.id < nextId /\ c.part \in 1..n
  BY DEF IdInv, PartsOn, Whole, FirstParts, PRTypeOK, Comment
<1>4. {c.part : c \in PartsOn(p)'} = 1..(n + 1)
  <2>1. {c.part : c \in PartsOn(p)'} = {c.part : c \in PartsOn(p)} \cup {n + 1}
    BY <1>1
  <2>2. {c.part : c \in PartsOn(p)} = 1..n
    BY DEF Whole, FirstParts
  <2>3. (1..n) \cup {n + 1} = 1..(n + 1)
    BY <1>2
  <2> QED BY <2>1, <2>2, <2>3
<1>5. \A c, d \in PartsOn(p)' : c.id < d.id => c.part < d.part
  BY <1>1, <1>2, <1>3 DEF Whole, FirstParts
<1>6. \A c, d \in PartsOn(p)' : c.part = d.part => c = d
  BY <1>1, <1>2, <1>3 DEF Whole, FirstParts
<1> QED BY <1>4, <1>5, <1>6 DEF FirstParts

LEMMA WholeGrows ==
  ASSUME PRTypeOK, IdInv, NEW p \in Posters, Whole(p),
         Add(Workflow[p], p, posted[p] + 1), posted'[p] = posted[p] + 1
  PROVE  Whole(p)'
<1> PICK m : m = posted[p] + 1
  OBVIOUS
<1>1. FirstParts(p, m)'
  BY NextPart
<1>2. posted'[p] = m
  OBVIOUS
<1> QED BY <1>1, <1>2 DEF Whole, FirstParts

\* Nothing of a report whose poster is not yet creating is the whole of it so far.
LEMMA WholeAtFirst ==
  ASSUME OwnInv, NEW p \in Posters, pc[p] \in {"idle", "list", "delete"}
  PROVE  Whole(p)
<1>1. posted[p] = 0 /\ PartsOn(p) = {}
  BY DEF OwnInv
<1> QED BY <1>1 DEF Whole, FirstParts

\* What a call of q does to the report of another poster, or to its own.
LEMMA PartsOfOthers ==
  ASSUME PRTypeOK, IdInv, AimInv, OwnInv, NEW p \in Posters, NEW q \in Posters, p # q,
         List(q) \/ Delete(q) \/ Create(q) \/ Fail(q),
         pc[q] # "delete" \/ Workflow[p] # Workflow[q]
           \/ \A c \in PartsOn(p) : c.id \notin batch[q]
  PROVE  PartsOn(p)' = PartsOn(p) /\ posted'[p] = posted[p]
<1> USE DEF scratch, history
<1>1. posted'[p] = posted[p]
  BY DEF List, Delete, Create, Fail, PRTypeOK
<1>2. CASE Add(Workflow[q], q, posted[q] + 1)
  BY <1>1, <1>2, PartsOnAdd
<1>3. CASE comments' = comments
  BY <1>1, <1>3 DEF PartsOn
<1>4. CASE pc[q] = "delete" /\ comments' = Removed(Oldest(batch[q]))
  <2>1. /\ Oldest(batch[q]) \in batch[q]
        /\ \A c \in comments : c.id = Oldest(batch[q]) => c.wf = Workflow[q]
    BY <1>4, DeleteAims
  <2>2. \A c \in PartsOn(p) : c.id # Oldest(batch[q])
    BY <1>4, <2>1 DEF PartsOn, OwnInv
  <2>3. PartsOn(p)' = PartsOn(p)
    BY <1>4, <2>2 DEF PartsOn, Removed
  <2> QED BY <1>1, <2>3
<1> QED BY <1>2, <1>3, <1>4 DEF List, Delete, Create, Fail

-----------------------------------------------------------------------------
(* The last one to list keeps its report. *)

LEMMA LastListerStep ==
  PRTypeOK /\ IdInv /\ AimInv /\ OwnInv /\ LastListerInv /\ [Next]_vars => LastListerInv'
<1> SUFFICES ASSUME PRTypeOK, IdInv, AimInv, OwnInv, LastListerInv, [Next]_vars,
                    NEW w \in Workflows, Started(w)' # {}
             PROVE  \E p \in Started(w)' : (WillList(p) \/ pc[p] = "failed" \/ Settled(p))'
  BY DEF LastListerInv
<1> USE DEF scratch, history
<1> DEFINE Good(p) == WillList(p) \/ pc[p] = "failed" \/ Settled(p)
\* A witness is enough, and one that was good needs a reason only if it is settled.
<1>a. ASSUME NEW p \in Posters, Workflow[p] = w, pc'[p] # "idle", Good(p)'
      PROVE  \E r \in Started(w)' : Good(r)'
  BY <1>a DEF Started
<1>b. ASSUME NEW p \in Posters, pc'[p] = pc[p], next'[p] = next[p], posted'[p] = posted[p],
             Good(p), Settled(p) => PartsOn(p)' = PartsOn(p),
             Settled(p) => \A q \in Posters : \A c \in PartsOn(p) : c.id \notin batch'[q]
      PROVE  Good(p)'
  <2>1. CASE Settled(p)
    <3>1. Whole(p)'
      BY <1>b, <2>1, WholeKept DEF Settled
    <3>2. \A q \in Posters : \A c \in PartsOn(p)' : c.id \notin batch'[q]
      BY <1>b, <2>1
    <3> QED BY <1>b, <2>1, <3>1, <3>2 DEF Settled, WillList
  <2> QED BY <1>b, <2>1 DEF WillList
\* Somebody of w had started, unless this is the step that starts the first.
<1>c. ASSUME Started(w) # {}
      PROVE  \E p \in Posters : Workflow[p] = w /\ pc[p] # "idle" /\ Good(p)
  BY <1>c DEF LastListerInv, Started
<1>1. ASSUME NEW q \in Posters, Start(q) PROVE \E p \in Started(w)' : Good(p)'
  <2>1. pc' = [pc EXCEPT ![q] = "list"] /\ pc[q] = "idle" /\ comments' = comments
        /\ UNCHANGED <<batch, next, posted>>
    BY <1>1 DEF Start
  <2>2. CASE Workflow[q] = w
    <3>1. pc'[q] = "list"
      BY <2>1 DEF PRTypeOK
    <3> QED BY <1>a, <2>2, <3>1 DEF WillList
  <2>3. CASE Workflow[q] # w
    <3>1. Started(w) # {}
      BY <2>1, <2>3 DEF Started, PRTypeOK
    <3> PICK p \in Posters : Workflow[p] = w /\ pc[p] # "idle" /\ Good(p)
      BY <3>1, <1>c
    <3>2. pc'[p] = pc[p] /\ PartsOn(p)' = PartsOn(p)
      BY <2>1, <2>3 DEF PartsOn, PRTypeOK
    <3>3. Good(p)'
      BY <1>b, <2>1, <3>2 DEF Settled
    <3> QED BY <1>a, <3>2, <3>3
  <2> QED BY <2>2, <2>3
\* The calls: a poster that has just listed its last page is the new witness of
\* its workflow; any other step leaves the witness good.
<1>2. ASSUME NEW q \in Posters, List(q) \/ Delete(q) \/ Create(q) \/ Fail(q)
      PROVE  \E p \in Started(w)' : Good(p)'
  <2>1. /\ pc[q] \in {"list", "delete", "create"} /\ pc'[q] # "idle"
        /\ \A p \in Posters \ {q} : pc'[p] = pc[p] /\ next'[p] = next[p]
                                    /\ batch'[p] = batch[p]
    BY <1>2 DEF List, Delete, Create, Fail, AfterDelete, Active, PRTypeOK
  <2>2. Started(w) # {}
    BY <2>1 DEF Started
  <2> PICK p \in Posters : Workflow[p] = w /\ pc[p] # "idle" /\ Good(p)
    BY <2>2, <1>c
  <2>3. CASE pc'[q] = "failed" /\ p = q
    BY <1>a, <2>1, <2>3
  <2>4. CASE List(q) /\ Workflow[q] = w
    <3>1. pc'[q] = "list" \/ (pc'[q] = "delete" /\ next'[q] # 0) \/
            (pc'[q] \in {"delete", "create"} /\ next'[q] = 0)
      BY <2>4 DEF List, AfterDelete, PRTypeOK
    <3>2. posted[q] = 0 /\ PartsOn(q) = {}
      BY <2>4 DEF List, OwnInv
    <3>3. posted'[q] = 0 /\ PartsOn(q)' = {}
      BY <2>4, <3>2 DEF List, PartsOn
    <3>4. Whole(q)'
      BY <3>3 DEF Whole, FirstParts
    <3>5. Good(q)'
      BY <3>1, <3>3, <3>4 DEF WillList, Settled
    <3> QED BY <1>a, <2>1, <2>4, <3>5
  <2>5. CASE ~(List(q) /\ Workflow[q] = w) /\ p # q
    <3>1. Settled(p) => PartsOn(p)' = PartsOn(p)
      BY <1>2, <2>5, PartsOfOthers DEF Settled
    <3>2. posted'[p] = posted[p]
      BY <1>2, <2>5 DEF List, Delete, Create, Fail, PRTypeOK
    <3>3. ASSUME Settled(p), NEW c \in PartsOn(p) PROVE c.id \notin batch'[q]
      <4>1. c.id \notin batch[q] /\ c \in comments /\ c.wf = w
        BY <3>3 DEF Settled, PartsOn, OwnInv
      <4>2. CASE List(q)
        <5> DEFINE ids == {d.id : d \in {d \in OnPage(page[q]) : IsWorkflowComment(d, q)}}
        <5>1. batch'[q] = ids
          BY <4>2, ListedIds DEF PRTypeOK
        <5>2. c.id \notin ids
          BY <2>5, <4>1, <4>2 DEF OnPage, IsWorkflowComment, IdInv
        <5> QED BY <5>1, <5>2
      <4>3. CASE Delete(q) \/ Create(q) \/ Fail(q)
        <5>1. batch'[q] \subseteq batch[q]
          BY <4>3 DEF Delete, Create, Fail, AfterDelete, PRTypeOK
        <5> QED BY <4>1, <5>1
      <4> QED BY <1>2, <4>2, <4>3
    <3>4. Settled(p) => \A r \in Posters : \A c \in PartsOn(p) : c.id \notin batch'[r]
      BY <2>1, <3>3 DEF Settled
    <3>5. Good(p)'
      BY <1>b, <2>1, <2>5, <3>1, <3>2, <3>4
    <3> QED BY <1>a, <2>1, <2>5, <3>5
  <2>6. CASE Delete(q) /\ p = q /\ pc'[q] # "failed"
    <3>1. /\ pc[q] = "delete" /\ posted' = posted /\ next'[q] = next[q]
          /\ pc'[q] = "delete" \/ (pc'[q] = "list" /\ next[q] # 0)
               \/ (pc'[q] = "create" /\ next[q] = 0)
          /\ comments' \subseteq comments
      BY <2>6 DEF Delete, AfterDelete, Removed, PRTypeOK
    <3>2. posted'[q] = 0 /\ PartsOn(q)' = {}
      BY <3>1 DEF PartsOn, OwnInv
    <3>3. Whole(q)'
      BY <3>2 DEF Whole, FirstParts
    <3>4. Good(q)'
      BY <3>1, <3>2, <3>3 DEF WillList, Settled
    <3> QED BY <1>a, <2>1, <2>6, <3>4
  <2>7. CASE Create(q) /\ p = q
    <3>1. /\ Add(Workflow[q], q, posted[q] + 1) /\ posted'[q] = posted[q] + 1
          /\ pc[q] = "create" /\ pc'[q] \in {"create", "ok"} /\ batch' = batch
      BY <2>7 DEF Create, PRTypeOK
    <3>2. Settled(q)
      BY <2>7, <3>1 DEF WillList
    <3>3. Whole(q)'
      BY <3>1, <3>2, WholeGrows DEF Settled
    <3>4. ASSUME NEW r \in Posters, NEW c \in PartsOn(q)' PROVE c.id \notin batch'[r]
      <4>1. c \in PartsOn(q) \/ c.id = nextId
        BY <3>1, PartsOnAdd
      <4>2. \A id \in batch[r] : id \in Nat /\ id < nextId /\ nextId \in Nat
        BY DEF IdInv, PRTypeOK
      <4>3. nextId \notin batch[r]
        BY <4>2
      <4> QED BY <3>1, <3>2, <4>1, <4>3 DEF Settled
    <3>5. Settled(q)'
      BY <3>1, <3>3, <3>4 DEF Settled, WillList
    <3> QED BY <1>a, <2>1, <2>7, <3>5
  <2>8. Fail(q) => pc'[q] = "failed"
    BY DEF Fail, PRTypeOK
  <2> QED BY <1>2, <2>3, <2>4, <2>5, <2>6, <2>7, <2>8
<1>3. ASSUME UserComment PROVE \E p \in Started(w)' : Good(p)'
  <2>1. \A p \in Posters : PartsOn(p)' = PartsOn(p)
    BY <1>3, PartsOnAdd, PRAssumption DEF UserComment
  <2>2. UNCHANGED <<pc, batch, next, posted>>
    BY <1>3 DEF UserComment
  <2>3. Started(w) # {}
    BY <2>2 DEF Started
  <2> PICK p \in Posters : Workflow[p] = w /\ pc[p] # "idle" /\ Good(p)
    BY <2>3, <1>c
  <2>4. Good(p)'
    BY <1>b, <2>1, <2>2 DEF Settled
  <2> QED BY <1>a, <2>2, <2>4
<1>4. ASSUME UNCHANGED vars PROVE \E p \in Started(w)' : Good(p)'
  <2>1. UNCHANGED <<pc, batch, next, posted, comments>>
    BY <1>4 DEF vars
  <2>2. Started(w) # {}
    BY <2>1 DEF Started
  <2> PICK p \in Posters : Workflow[p] = w /\ pc[p] # "idle" /\ Good(p)
    BY <2>2, <1>c
  <2>4. Good(p)'
    BY <1>b, <2>1 DEF Settled, PartsOn
  <2> QED BY <1>a, <2>1, <2>4
<1> QED BY <1>1, <1>2, <1>3, <1>4 DEF Next, PostStep

-----------------------------------------------------------------------------
(* The poster nobody disturbs. *)

\* The only page of a thread shows all of it.
LEMMA OnlyPage ==
  ASSUME PRTypeOK, NextPage(1) = 0
  PROVE  OnPage(1) = comments
<1>1. Cardinality(comments) \in Nat /\ IsFiniteSet(comments)
  BY FS_CardinalityType DEF PRTypeOK
<1>2. Cardinality(comments) <= PageSize /\ PageSize \in Nat
  BY <1>1, PRAssumption DEF NextPage
<1>3. ASSUME NEW c \in comments PROVE Cardinality(Older(c)) \in 0..PageSize - 1
  <2>1. Older(c) \subseteq comments /\ Older(c) # comments
    BY <1>3 DEF Older, PRTypeOK, Comment
  <2>2. /\ IsFiniteSet(Older(c)) /\ Cardinality(Older(c)) < Cardinality(comments)
    <3>1. /\ IsFiniteSet(Older(c)) /\ Cardinality(Older(c)) <= Cardinality(comments)
          /\ Cardinality(Older(c)) # Cardinality(comments)
      BY <1>1, <2>1, FS_Subset
    <3>2. Cardinality(Older(c)) \in Nat
      BY <3>1, FS_CardinalityType
    <3> QED BY <1>1, <3>1, <3>2
  <2>3. Cardinality(Older(c)) \in Nat
    BY <2>2, FS_CardinalityType
  <2> QED BY <1>1, <1>2, <2>2, <2>3
<1>4. (1 - 1) * PageSize = 0 /\ 1 * PageSize - 1 = PageSize - 1
  BY <1>2
<1> QED BY <1>3, <1>4 DEF OnPage

LEMMA OnePageStep == PRTypeOK /\ OnePageInv /\ [Next]_vars => OnePageInv'
<1> SUFFICES ASSUME PRTypeOK, OnePageInv, [Next]_vars,
                    NEW p \in Posters \ disturbed'
             PROVE  /\ pc'[p] \in {"idle", "list"} => page'[p] = 1
                    /\ pc'[p] = "delete" => next'[p] = 0
  BY DEF OnePageInv
<1> USE DEF scratch, history
<1>0. p \notin disturbed
  BY DEF Next, PostStep, Start, List, Delete, Create, Fail, UserComment, vars
<1>a. /\ pc[p] \in {"idle", "list"} => page[p] = 1
      /\ pc[p] = "delete" => next[p] = 0
  BY <1>0 DEF OnePageInv
<1>1. ASSUME NEW q \in Posters, Start(q) \/ Create(q) \/ Fail(q)
      PROVE  /\ pc'[p] \in {"idle", "list"} => page'[p] = 1
             /\ pc'[p] = "delete" => next'[p] = 0
  BY <1>a, <1>1 DEF Start, Create, Fail, PRTypeOK
<1>2. ASSUME NEW q \in Posters, List(q)
      PROVE  /\ pc'[p] \in {"idle", "list"} => page'[p] = 1
             /\ pc'[p] = "delete" => next'[p] = 0
  <2>1. CASE q = p
    <3>1. NextPage(page[p]) = 0
      BY <1>2, <2>1 DEF List
    <3>2. pc'[p] \in {"delete", "create"} /\ next'[p] = 0
      BY <1>2, <2>1, <3>1 DEF List, AfterDelete, PRTypeOK
    <3> QED BY <3>2
  <2>2. CASE q # p
    BY <1>a, <1>2, <2>2 DEF List, AfterDelete, PRTypeOK
  <2> QED BY <2>1, <2>2
<1>3. ASSUME NEW q \in Posters, Delete(q)
      PROVE  /\ pc'[p] \in {"idle", "list"} => page'[p] = 1
             /\ pc'[p] = "delete" => next'[p] = 0
  BY <1>a, <1>3 DEF Delete, AfterDelete, PRTypeOK
<1>4. CASE UserComment \/ UNCHANGED vars
  BY <1>a, <1>4 DEF UserComment, vars
<1> QED BY <1>1, <1>2, <1>3, <1>4 DEF Next, PostStep

LEMMA AloneStep ==
  PRTypeOK /\ IdInv /\ AimInv /\ OwnInv /\ OnePageInv /\ AloneInv /\ [Next]_vars => AloneInv'
<1> DEFINE Alone(p) ==
      /\ pc[p] # "idle"
      /\ \A q \in Posters \ {p} : Workflow[q] = Workflow[p] => ~Active(q)
      /\ pc[p] = "delete" => \A c \in Left(p) : c.id \in batch[p]
      /\ pc[p] \in {"create", "ok"} => Left(p) = {}
      /\ pc[p] \in {"delete", "create", "ok"} => Whole(p)
      /\ pc[p] = "failed" /\ PartsOn(p) # {} => Left(p) = {} /\ Begun(p)
<1> SUFFICES ASSUME PRTypeOK, IdInv, AimInv, OwnInv, OnePageInv, AloneInv, [Next]_vars,
                    NEW p \in Posters, Undisturbed(p)'
             PROVE  Alone(p)'
  BY DEF AloneInv
<1> USE DEF scratch, history
<1>w. Workflow[p] \in Workflows
  BY PRAssumption
<1>1. ASSUME NEW q \in Posters, Start(q) PROVE Alone(p)'
  <2>1. /\ pc[q] = "idle" /\ pc' = [pc EXCEPT ![q] = "list"] /\ comments' = comments
        /\ latest' = [latest EXCEPT ![Workflow[q]] = q]
        /\ UNCHANGED <<batch, posted, userPosts>> /\ disturbed \subseteq disturbed'
    BY <1>1 DEF Start
  <2>2. CASE q = p
    <3>1. \A r \in Posters \ {p} : Workflow[r] = Workflow[p] => ~Active(r)
      BY <1>1, <2>2 DEF Start, Undisturbed, Active
    <3>2. pc'[p] = "list" /\ \A r \in Posters \ {p} : pc'[r] = pc[r]
      BY <2>1, <2>2 DEF PRTypeOK
    <3> QED BY <3>1, <3>2 DEF Active
  <2>3. CASE q # p
    <3>1. Workflow[q] # Workflow[p]
      BY <1>w, <2>1, <2>3 DEF Undisturbed, PRTypeOK
    <3>2. Undisturbed(p)
      BY <1>w, <2>1, <3>1 DEF Undisturbed, PRTypeOK
    <3>3. Alone(p)
      BY <3>2 DEF AloneInv
    <3>4. /\ pc'[q] = "list" /\ \A r \in Posters \ {q} : pc'[r] = pc[r]
          /\ Left(p)' = Left(p) /\ batch' = batch
      BY <2>1 DEF PRTypeOK, Left
    <3>5. PartsOn(p)' = PartsOn(p) /\ (Whole(p) => Whole(p)') /\ (Begun(p) => Begun(p)')
      BY <2>1 DEF Whole, Begun, FirstParts, PartsOn
    <3>6. \A r \in Posters \ {p} : Workflow[r] = Workflow[p] => ~Active(r)'
      BY <3>1, <3>3, <3>4 DEF Active
    <3> QED BY <2>3, <3>3, <3>4, <3>5, <3>6
  <2> QED BY <2>2, <2>3
\* Every other step leaves the history of p as it is, or has p disturbed.
<1>a. ASSUME disturbed \subseteq disturbed', latest' = latest
      PROVE  Undisturbed(p) /\ Alone(p)
  <2>1. Undisturbed(p)
    BY <1>a DEF Undisturbed
  <2> QED BY <2>1 DEF AloneInv
<1>2. ASSUME NEW q \in Posters, List(q) \/ Delete(q) \/ Create(q) \/ Fail(q)
      PROVE  Alone(p)'
  <2>1. /\ disturbed \subseteq disturbed' /\ latest' = latest /\ userPosts' = userPosts
        /\ pc[q] \in {"list", "delete", "create"}
        /\ \A r \in Posters \ {q} : pc'[r] = pc[r] /\ batch'[r] = batch[r]
        /\ pc'[q] # "idle"
    BY <1>2 DEF List, Delete, Create, Fail, AfterDelete, Active, PRTypeOK
  <2>2. Alone(p) /\ Undisturbed(p)
    BY <1>a, <2>1
  <2>3. Active(q)
    BY <2>1 DEF Active
  <2>4. \A r \in Posters \ {p} : Workflow[r] = Workflow[p] => ~Active(r)'
    BY <2>1, <2>2, <2>3 DEF Active
  <2>5. CASE q # p
    <3>1. Workflow[q] # Workflow[p]
      BY <2>2, <2>3, <2>5
    <3>2. PartsOn(p)' = PartsOn(p) /\ posted'[p] = posted[p]
      BY <1>2, <2>5, <3>1, PartsOfOthers
    <3>3. (Whole(p) => Whole(p)') /\ (Begun(p) => Begun(p)')
      BY <3>2, WholeKept DEF Begun, FirstParts
    <3>4. Left(p)' \subseteq Left(p)
      <4>1. \A c \in comments' : c \in comments \/ c.wf = Workflow[q]
        BY <1>2 DEF List, Delete, Create, Fail, Add, Removed
      <4> QED BY <2>1, <3>1, <4>1 DEF Left
    <3> QED BY <2>1, <2>2, <2>4, <2>5, <3>2, <3>3, <3>4
  <2>6. CASE q = p /\ List(p)
    <3>1. NextPage(page[p]) = 0 /\ page[p] = 1
      BY <2>2, <2>6 DEF List, Undisturbed, OnePageInv
    <3>2. OnPage(page[p]) = comments
      BY <3>1, OnlyPage
    <3> DEFINE ids == {c.id : c \in {c \in OnPage(page[p]) : IsWorkflowComment(c, p)}}
    <3>3. \A c \in Left(p) : c.id \in ids
      BY <3>2 DEF Left, IsWorkflowComment
    <3> HIDE DEF ids
    <3>4. /\ batch'[p] = ids /\ comments' = comments
          /\ pc'[p] = IF ids # {} THEN "delete" ELSE "create"
      BY <2>6, <3>1 DEF List, AfterDelete, PRTypeOK, ids
    <3>5. Left(p)' = Left(p)
      BY <2>1, <3>4 DEF Left
    <3>6. Whole(p)
      BY <2>6, WholeAtFirst DEF List
    <3>7. Whole(p)'
      BY <2>6, <3>4, <3>6, WholeKept DEF List, PartsOn
    <3> QED BY <2>1, <2>4, <2>6, <3>3, <3>4, <3>5, <3>7
  <2>7. CASE q = p /\ Delete(p) /\ pc'[p] # "failed"
    <3>1. /\ comments' = Removed(Oldest(batch[p])) /\ posted' = posted
          /\ batch'[p] = batch[p] \ {Oldest(batch[p])}
          /\ pc[p] = "delete"
          /\ pc'[p] = IF batch'[p] # {} THEN "delete" ELSE IF next[p] # 0 THEN "list" ELSE "create"
      BY <2>7 DEF Delete, AfterDelete, PRTypeOK
    <3>2. next[p] = 0
      BY <2>2, <3>1 DEF Undisturbed, OnePageInv
    <3>3. \A c \in Left(p)' : c.id \in batch'[p]
      BY <2>1, <2>2, <3>1 DEF Left, Removed
    <3>4. posted'[p] = 0 /\ PartsOn(p)' = {}
      BY <3>1 DEF PartsOn, OwnInv, Removed
    <3>5. Whole(p)'
      BY <3>4 DEF Whole, FirstParts
    <3> QED BY <2>1, <2>4, <2>7, <3>1, <3>2, <3>3, <3>5
  <2>8. CASE q = p /\ Create(p)
    <3>1. /\ Add(Workflow[p], p, posted[p] + 1) /\ posted'[p] = posted[p] + 1
          /\ pc[p] = "create" /\ pc'[p] \in {"create", "ok"}
      BY <2>8 DEF Create, PRTypeOK
    <3>2. Whole(p)'
      BY <2>2, <3>1, WholeGrows
    <3>3. Left(p)' = {}
      BY <2>1, <2>2, <3>1 DEF Left, Add
    <3> QED BY <2>4, <3>1, <3>2, <3>3
  <2>9. CASE q = p /\ pc'[p] = "failed"
    <3>1. \/ comments' = comments
          \/ pc[p] = "delete" /\ comments' = Removed(Oldest(batch[p]))
          \/ pc[p] = "create" /\ Add(Workflow[p], p, posted[p] + 1)
      BY <1>2, <2>9 DEF List, Delete, Create, Fail, AfterDelete, PRTypeOK
    <3>2. CASE pc[p] \in {"list", "delete"}
      <4>1. PartsOn(p) = {}
        BY <3>2 DEF OwnInv
      <4>2. PartsOn(p)' = {}
        BY <3>1, <3>2, <4>1 DEF PartsOn, Removed
      <4> QED BY <2>1, <2>4, <2>9, <4>2
    <3>3. CASE pc[p] = "create"
      <4>1. Left(p) = {} /\ Whole(p) /\ posted[p] \in Nat /\ posted[p] < Parts[p] /\ Parts[p] \in Nat
        BY <2>2, <3>3, PRAssumption DEF OwnInv, PRTypeOK
      <4>2. CASE comments' = comments
        <5>1. PartsOn(p)' = PartsOn(p) /\ Left(p)' = Left(p)
          BY <2>1, <4>2 DEF PartsOn, Left
        <5>2. PartsOn(p) # {} => Begun(p)
          BY <4>1 DEF Whole, FirstParts, Begun
        <5>3. Begun(p) => Begun(p)'
          BY <5>1 DEF Begun, FirstParts
        <5> QED BY <2>1, <2>4, <2>9, <4>1, <5>1, <5>2, <5>3
      <4>3. CASE Add(Workflow[p], p, posted[p] + 1)
        <5> PICK m : m = posted[p] + 1
          OBVIOUS
        <5>1. FirstParts(p, m)' /\ m \in 1..Parts[p]
          BY <4>1, <4>3, NextPart
        <5>2. Begun(p)'
          BY <5>1 DEF Begun
        <5>3. Left(p)' = {}
          BY <2>1, <4>1, <4>3 DEF Left, Add
        <5> QED BY <2>1, <2>4, <2>9, <5>2, <5>3
      <4> QED BY <3>1, <3>3, <4>2, <4>3
    <3> QED BY <2>1, <2>9, <3>2, <3>3
  <2>10. Fail(p) => pc'[p] = "failed"
    BY DEF Fail, PRTypeOK
  <2> QED BY <1>2, <2>5, <2>6, <2>7, <2>8, <2>9, <2>10
<1>3. ASSUME UserComment PROVE Alone(p)'
  <2>1. UNCHANGED <<pc, batch, posted, latest, disturbed>>
    BY <1>3 DEF UserComment
  <2>2. Alone(p)
    BY <1>a, <2>1
  <2>3. PartsOn(p)' = PartsOn(p)
    BY <1>3, PartsOnAdd, PRAssumption DEF UserComment
  <2>4. (Whole(p) => Whole(p)') /\ (Begun(p) => Begun(p)')
    BY <2>1, <2>3, WholeKept DEF Begun, FirstParts
  <2>5. Left(p)' \subseteq Left(p)
    BY <1>3 DEF UserComment, Add, Left
  <2> QED BY <2>1, <2>2, <2>3, <2>4, <2>5 DEF Active
<1>4. ASSUME UNCHANGED vars PROVE Alone(p)'
  <2>1. Alone(p)
    BY <1>a, <1>4 DEF vars
  <2> QED BY <1>4, <2>1 DEF vars, Active, Left, Whole, Begun, FirstParts, PartsOn
<1> QED BY <1>1, <1>2, <1>3, <1>4 DEF Next, PostStep

-----------------------------------------------------------------------------
(* The theorems. *)

LEMMA PRInitial == Init => PRInv
<1> SUFFICES ASSUME Init PROVE PRInv
  OBVIOUS
<1>1. PRTypeOK /\ IdInv /\ AimInv /\ OwnInv
  BY PRTypesInit, IdInit
<1>2. LastListerInv
  BY DEF Init, LastListerInv, Started
<1>3. OnePageInv
  BY DEF Init, OnePageInv
<1>4. AloneInv
  BY PRAssumption DEF Init, AloneInv, Undisturbed
<1> QED BY <1>1, <1>2, <1>3, <1>4 DEF PRInv

\* The inductive invariant: the types; ids are never reused; a poster deletes
\* comments of its own workflow only; and, for each of the two promises, what the
\* poster that keeps it has done so far.
THEOREM PRInvariant == Spec => []PRInv
<1>1. Init => PRInv
  BY PRInitial
<1>2. PRInv /\ [Next]_vars => PRInv'
  BY PRTypesStep, IdStep, AimStep, OwnStep, LastListerStep, OnePageStep, AloneStep DEF PRInv
<1> QED BY <1>1, <1>2, PTL DEF Spec

THEOREM PRTypes == Spec => []PRTypeOK
<1>1. PRInv => PRTypeOK
  BY DEF PRInv
<1> QED BY <1>1, PRInvariant, PTL

LEMMA WholeIsComplete ==
  ASSUME NEW p \in Posters, Whole(p), posted[p] = Parts[p]
  PROVE  CompleteReport(p)
BY DEF Whole, CompleteReport

\* client.go:53-127: the jobs of a workflow that all succeed never delete the report
\* of each other completely, whatever the order of their calls.
THEOREM ReportSurvives == Spec => []SurvivingReport
<1>1. PRInv => SurvivingReport
  <2> SUFFICES ASSUME PRInv, NEW w \in Workflows, Started(w) # {},
                      \A p \in Started(w) : pc[p] = "ok"
               PROVE  \E p \in Started(w) : CompleteReport(p)
    BY DEF SurvivingReport, Started
  <2> PICK p \in Started(w) : WillList(p) \/ pc[p] = "failed" \/ Settled(p)
    BY DEF PRInv, LastListerInv
  <2>1. p \in Posters /\ pc[p] = "ok" /\ Whole(p)
    BY DEF Started, WillList, Settled
  <2>2. posted[p] = Parts[p]
    BY <2>1 DEF PRInv, OwnInv
  <2> QED BY <2>1, <2>2, WholeIsComplete
<1> QED BY <1>1, PRInvariant, PTL

\* client.go:53-127: a call nobody of its workflow disturbs, on a thread of one page,
\* replaces the reports of its workflow by its own.
THEOREM ReportIsSole == Spec => []SoleReport
<1>1. PRInv => SoleReport
  <2> SUFFICES ASSUME PRInv, NEW p \in Posters, pc[p] = "ok", Undisturbed(p)
               PROVE  CompleteReport(p) /\ OnlyReport(p)
    BY DEF SoleReport
  <2>1. Whole(p) /\ Left(p) = {}
    BY DEF PRInv, AloneInv
  <2>2. posted[p] = Parts[p]
    BY DEF PRInv, OwnInv
  <2> QED BY <2>1, <2>2, WholeIsComplete DEF Left, OnlyReport
<1> QED BY <1>1, PRInvariant, PTL

\* client.go:53-127: an undisturbed call that fails, wherever it fails, leaves nothing of
\* its report or a beginning of it with nothing of the older one beside it.
THEOREM NeverMixed == Spec => []ReportsNotMixed
<1>1. PRInv => ReportsNotMixed
  <2> SUFFICES ASSUME PRInv, NEW p \in Posters, Undisturbed(p), PartsOn(p) # {}
               PROVE  Begun(p) /\ OnlyReport(p)
    BY DEF ReportsNotMixed, Begun
  <2>1. pc[p] \in {"create", "ok", "failed"}
    BY DEF PRInv, OwnInv, PRTypeOK
  <2>2. CASE pc[p] = "failed"
    BY <2>2 DEF PRInv, AloneInv, Left, OnlyReport
  <2>3. CASE pc[p] \in {"create", "ok"}
    <3>1. Whole(p) /\ Left(p) = {}
      BY <2>3 DEF PRInv, AloneInv
    <3>2. posted[p] \in Nat /\ posted[p] <= Parts[p] /\ Parts[p] \in Nat
      BY <2>3, PRAssumption DEF PRInv, OwnInv, PRTypeOK
    <3>3. posted[p] # 0
      BY <3>1 DEF Whole, FirstParts
    <3>4. posted[p] \in 1..Parts[p]
      BY <3>2, <3>3
    <3> QED BY <3>1, <3>4 DEF Whole, Begun, Left, OnlyReport
  <2> QED BY <2>1, <2>2, <2>3
<1> QED BY <1>1, PRInvariant, PTL

\* client.go:107-119: a comment disappears only at the hands of a poster of the workflow
\* whose identifier it has, and only while that poster deletes.
THEOREM OnlyOwnWorkflow == Spec => OnlyOwnRemoved
<1>1. PRInv /\ [Next]_vars => [OwnRemoved]_vars
  <2> SUFFICES ASSUME PRInv, Next, NEW c \in comments, c \notin comments'
               PROVE  \E p \in Posters : pc[p] = "delete" /\ c.wf = Workflow[p]
    BY DEF OwnRemoved
  <2>1. PICK p \in Posters : pc[p] = "delete" /\ comments' = Removed(Oldest(batch[p]))
    BY DEF Next, PostStep, Start, List, Delete, Create, Fail, UserComment, Add
  <2>2. c.id = Oldest(batch[p])
    BY <2>1 DEF Removed
  <2>3. c.wf = Workflow[p]
    BY <2>1, <2>2, DeleteAims DEF PRInv
  <2> QED BY <2>1, <2>3
<1> QED BY <1>1, PRInvariant, PTL DEF Spec, OnlyOwnRemoved
=============================================================================
