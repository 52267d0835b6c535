---------------------------- MODULE MCDiffReport ----------------------------
(* Small instances of DiffReport: up to three results of two names; a changed *)
(* application has one or two resource diffs, in either order.                *)
EXTENDS DiffReport

Diffs   == {s \in [1..1 -> Texts] \cup [1..2 -> Texts] : IsInjective(s)}
Results == [app : Apps, kind : {"error", "same"}, diffs : {<<>>}]
             \cup [app : Apps, kind : {"changed"}, diffs : Diffs]

MCReports == UNION {[1..n -> Results] : n \in 1..3}
=============================================================================
