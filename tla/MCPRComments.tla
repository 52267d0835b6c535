---------------------------- MODULE MCPRComments ----------------------------
(* Small instances of PRComments: p1 and p2 report for workflow A, p3 for     *)
(* workflow B; a page holds two or three comments.                            *)
EXTENDS PRComments

CONSTANTS p1, p2, p3, A, B

\* Two posters of one workflow and one of another.
MCWorkflow == [p \in Posters |-> IF p = p3 THEN B ELSE A]
MCParts    == [p \in Posters |-> IF p = p3 THEN 1 ELSE 2]

Report(w) == [wf |-> w, by |-> Earlier]
Remark    == [wf |-> NoWorkflow, by |-> User]

OneOldReport    == <<Report(A), Remark>>
ThreePartReport == <<Report(A), Report(A), Report(A)>>
=============================================================================
