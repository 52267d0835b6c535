---------------------------- MODULE MCDiffEngine ----------------------------
(* Small instances of DiffEngine.  One resource with every pair of short      *)
(* texts is for the unified diff; up to two documents on each side, every     *)
(* combination of them, are for the comparison by key.                        *)
EXTENDS DiffEngine

CONSTANTS l1, l2, l3, l4, x, y, job, destNs, otherNs, argocd, label, helm, hook, version

Doc(name, generateName, ns, meta, body) ==
  [parses |-> TRUE, kind |-> job, name |-> name, generateName |-> generateName,
   ns |-> ns, meta |-> meta, body |-> body]

UpTo(n, S) == UNION {[1..k -> S] : k \in 0..n}
Bodies  == UpTo(4, {l1, l2}) \cup UpTo(3, {l1, l2, l3})
Orders  == {f \in [1..4 -> {l1, l2, l3, l4}] : IsInjective(f)}

OneText(o, n, ns) ==
  [base |-> <<Doc(x, None, None, <<>>, o)>>, head |-> <<Doc(x, None, ns, <<>>, n)>>,
   dest |-> destNs, ignored |-> {}]

TextInputs ==
  {OneText(o, n, ns) : o \in UpTo(4, {l1, l2}), n \in UpTo(4, {l1, l2}), ns \in {None, destNs}}
  \cup {OneText(o, n, ns) : o \in UpTo(3, {l1, l2, l3}), n \in UpTo(3, {l1, l2, l3}),
                            ns \in {None, destNs}}
  \cup {OneText(o, n, None) : o \in Orders, n \in Orders}

Tracked(v) == [of |-> "label", key |-> [prefix |-> argocd, name |-> label], value |-> v]
Versioned(v) == [of |-> "label", key |-> [prefix |-> None, name |-> version], value |-> v]
Hooked(of) == [of |-> of, key |-> HookKey, value |-> l1]

DocInstances == {
  Doc(x, None, None, <<>>, <<l1>>),
  Doc(x, None, destNs, <<>>, <<l1>>),
  Doc(x, None, otherNs, <<Hooked("label")>>, <<l1>>),
  Doc(x, None, None, <<Tracked(l1), Versioned(l1)>>, <<l1>>),
  Doc(x, None, destNs, <<Tracked(l2), Versioned(l2)>>, <<l2>>),
  Doc(y, None, None, <<Hooked("annotation")>>, <<l1>>),
  Doc(None, x, None, <<>>, <<l2>>),
  [Doc(y, None, None, <<>>, <<l1>>) EXCEPT !.parses = FALSE],
  Doc(None, None, None, <<>>, <<l1>>)}

DocInputs ==
  [base : UpTo(2, DocInstances), head : UpTo(2, DocInstances), dest : {None, destNs},
   ignored : {{}, {[prefix |-> argocd, name |-> AnyName]},
              {[prefix |-> None, name |-> version], [prefix |-> helm, name |-> AnyName]}}]

MCHookKey == [prefix |-> helm, name |-> hook]
MCInputs == TextInputs \cup DocInputs
MCLines ==
  {l1, l2, l3, l4} \cup {Hooked(of) : of \in {"label", "annotation"}} \cup {Tracked(v) : v \in {l1, l2}} \cup {Versioned(v) : v \in {l1, l2}}
    \cup [name : {None, x, y}, generateName : {None, x}, ns : {None, destNs, otherNs}]
=============================================================================
