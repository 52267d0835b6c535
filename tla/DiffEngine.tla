----------------------------- MODULE DiffEngine -----------------------------
(* pkg/diff/engine.go GenerateDiffWithOptions: the manifests of an application*)
(* at the two revisions are parsed, filtered and paired by their keys; what is*)
(* only on one side or differs becomes a diff.  Maps are visited in any order.*)
(* A document is what YAML makes of it: a manifest is split into documents    *)
(* before this model begins, and one that is not JSON after all has none that *)
(* parses.                                                                    *)
EXTENDS UnifiedDiff, SequencesExt

CONSTANTS
  Inputs,     \* what a call is given: [base, head, dest, ignored]
  None,       \* an empty name, generateName or namespace
  AnyName,    \* the rest of a pattern that ends in a slash
  HookKey     \* the key "helm.sh/hook"

Sides == {"base", "head"}

VARIABLES
  input,      \* the arguments of the call
  stage,      \* where GenerateDiffWithOptions is
  resources,  \* what is left of each side after parsing and filtering
  left,       \* the keys the range loop has not visited yet
  current,    \* the key whose unified diff is being made
  diffs,      \* Diffs: [change, title, body] of each
  hasChanges, added, modified, deleted

engineVars == <<input, stage, resources, left, current, diffs, hasChanges, added,
                modified, deleted>>
resultVars == <<diffs, hasChanges, added, modified, deleted>>

EngineInit ==
  /\ input \in Inputs
  /\ stage = "parse"
  /\ resources = [side \in Sides |-> <<>>]
  /\ left = {} /\ current = None
  /\ diffs = <<>> /\ hasChanges = FALSE
  /\ added = 0 /\ modified = 0 /\ deleted = 0
  /\ DiffInit
-----------------------------------------------------------------------------
(* parseManifests, filterHelmHooks, filterMetadata.  A document that is left  *)
(* keeps its place among those of its side.                                   *)

Identity(d) == IF d.name # None THEN d.name ELSE d.generateName

ParseManifests(docs) ==
  Restrict(docs, {n \in DOMAIN docs : docs[n].parses /\ Identity(docs[n]) # None})

IsHook(d) == \E e \in ToSet(d.meta) : e.of = "annotation" /\ e.key = HookKey
FilterHelmHooks(rs) == Restrict(rs, {n \in DOMAIN rs : ~IsHook(rs[n])})

ShouldFilterKey(key, patterns) ==
  \E p \in patterns : p.prefix = key.prefix /\ p.name \in {AnyName, key.name}

\* What is left is encoded again, with its keys in order.  The manifests of ArgoCD are
\* JSON, which the parser has encoded in that way already: nothing else changes.
FilterEntries(d, patterns) ==
  [d EXCEPT !.meta =
     Selected(d.meta, {n \in DOMAIN d.meta : ~ShouldFilterKey(d.meta[n].key, patterns)})]
FilterMetadata(rs, patterns) == [n \in DOMAIN rs |-> FilterEntries(rs[n], patterns)]

MutantFiltered(docs) == FilterHelmHooks(FilterMetadata(ParseManifests(docs), input.ignored))
Filtered(docs) == FilterMetadata(FilterHelmHooks(ParseManifests(docs)), input.ignored)

\* raw, as lines: metadata.name and so on are one of them, then the entries.
NameLine(d) == [name |-> d.name, generateName |-> d.generateName, ns |-> d.ns]
Raw(d) == <<NameLine(d)>> \o d.meta \o d.body
-----------------------------------------------------------------------------
(* The two maps.  Of several resources with one key the last one is kept. *)

Key(d) == [kind |-> d.kind, ns |-> d.ns, id |-> Identity(d)]

KeyFor(d) ==
  IF input.dest # None /\ d.ns = input.dest THEN [Key(d) EXCEPT !.ns = None] ELSE Key(d)

MapOf(rs) ==
  [key \in {KeyFor(rs[n]) : n \in DOMAIN rs} |->
     rs[Max({n \in DOMAIN rs : KeyFor(rs[n]) = key})]]

\* A document: whether it parses and names its kind, its names and namespace, its
\* labels and annotations as entries [of, key, value], a key being [prefix, name], and
\* other lines.  No key is the empty name.
ASSUME InputAssumption ==
  \A in \in Inputs : \A side \in Sides :
    /\ DOMAIN in[side] \subseteq Nat /\ IsFiniteSet(DOMAIN in[side])
    /\ \A n \in DOMAIN in[side] :
         LET d == in[side][n]
         IN  /\ DOMAIN d = {"parses", "kind", "name", "generateName", "ns", "meta", "body"}
             /\ d.parses \in BOOLEAN
             /\ NameLine(d) \in Lines /\ d.meta \in Seq(Lines) /\ d.body \in Seq(Lines)
             /\ None \notin {Key(d), [Key(d) EXCEPT !.ns = None]}

BaseMap == MapOf(resources["base"])
HeadMap == MapOf(resources["head"])

Prepare ==
  /\ stage = "parse"
  /\ resources' = [side \in Sides |-> Filtered(input[side])]
  /\ stage' = "base"
  /\ left' = DOMAIN MapOf(resources'["base"])
  /\ UNCHANGED <<input, current, resultVars, diffVars>>
-----------------------------------------------------------------------------
(* The two range loops. *)

Report(change, title, body) ==
  /\ diffs' = Append(diffs, [change |-> change, title |-> title, body |-> body])
  /\ hasChanges' = TRUE

Visit(loop, key) == stage = loop /\ current = None /\ key \in left /\ left' = left \ {key}

Unchanged(key) ==
  /\ Visit("base", key)
  /\ key \in DOMAIN HeadMap /\ Raw(BaseMap[key]) = Raw(HeadMap[key])
  /\ UNCHANGED <<input, stage, resources, current, resultVars, diffVars>>

Modified(key) ==
  /\ Visit("base", key)
  /\ key \in DOMAIN HeadMap /\ Raw(BaseMap[key]) # Raw(HeadMap[key])
  /\ Call(Raw(BaseMap[key]), Raw(HeadMap[key]))
  /\ current' = key
  /\ UNCHANGED <<input, stage, resources, resultVars>>

\* generateUnifiedDiff is at work for the current key.
Differ == DiffTurn /\ UNCHANGED engineVars

TakeDiff ==
  /\ step = "done"
  /\ Report("modified", Key(HeadMap[current]), Output)
  /\ modified' = modified + 1
  /\ current' = None /\ step' = "idle"
  /\ UNCHANGED <<input, stage, resources, left, added, deleted, turn, pairVars, rankVars,
                 chainVars, scriptVars, hunkVars>>

MutantDeleted(key) ==
  /\ Visit("base", key) /\ key \notin DOMAIN HeadMap
  /\ Report("deleted", Key(BaseMap[key]), Raw(BaseMap[key]))
  /\ modified' = modified + 1 /\ deleted' = deleted + 1
  /\ UNCHANGED <<input, stage, resources, current, added, diffVars>>
Deleted(key) ==
  /\ Visit("base", key) /\ key \notin DOMAIN HeadMap
  /\ Report("deleted", Key(BaseMap[key]), Raw(BaseMap[key]))
  /\ deleted' = deleted + 1
  /\ UNCHANGED <<input, stage, resources, current, added, modified, diffVars>>

BaseVisited ==
  /\ stage = "base" /\ current = None /\ left = {}
  /\ stage' = "head"
  /\ left' = DOMAIN HeadMap
  /\ UNCHANGED <<input, resources, current, resultVars, diffVars>>

Added(key) ==
  /\ Visit("head", key) /\ key \notin DOMAIN BaseMap
  /\ Report("added", Key(HeadMap[key]), Raw(HeadMap[key]))
  /\ added' = added + 1
  /\ UNCHANGED <<input, stage, resources, current, modified, deleted, diffVars>>

InBoth(key) ==
  /\ Visit("head", key) /\ key \in DOMAIN BaseMap
  /\ UNCHANGED <<input, stage, resources, current, resultVars, diffVars>>

HeadVisited ==
  /\ stage = "head" /\ left = {}
  /\ stage' = "returned"
  /\ UNCHANGED <<input, resources, left, current, resultVars, diffVars>>

EngineNext ==
  \/ Prepare
  \/ \E key \in left :
       \/ Unchanged(key) \/ Modified(key) \/ Deleted(key)
       \/ Added(key) \/ InBoth(key)
  \/ Differ \/ TakeDiff
  \/ BaseVisited \/ HeadVisited

EngineSpec == EngineInit /\ [][EngineNext]_<<engineVars, diffVars>>
-----------------------------------------------------------------------------
EngineTypeOK ==
  /\ DiffTypeOK
  /\ stage \in {"parse", "base", "head", "returned"}
  /\ \A side \in Sides : DOMAIN resources[side] \subseteq DOMAIN input[side]
  /\ left \subseteq DOMAIN BaseMap \cup DOMAIN HeadMap
  /\ current = None <=> step = "idle"
  /\ current # None => stage = "base" /\ current \in DOMAIN BaseMap \cap DOMAIN HeadMap
  /\ hasChanges \in BOOLEAN
  /\ added \in Nat /\ modified \in Nat /\ deleted \in Nat

(* What a call must report, said of the documents and not of maps.  Two        *)
(* documents are one resource when they agree in kind and name and live in one *)
(* namespace, which is the destination where none is named; of several         *)
(* documents of one resource the last one that can be shown counts.            *)
SameResource(d, e) ==
  LET Home(r) == IF r.ns = None THEN input.dest ELSE r.ns
  IN  d.kind = e.kind /\ Identity(d) = Identity(e) /\ Home(d) = Home(e)

\* A hook is a hook whatever metadata is ignored.
CanBeShown(d) == d.parses /\ {d.name, d.generateName} # {None} /\ ~IsHook(d)

Counting(side) ==
  {n \in DOMAIN input[side] :
     /\ CanBeShown(input[side][n])
     /\ \A m \in DOMAIN input[side] :
          m > n /\ CanBeShown(input[side][m]) => ~SameResource(input[side][n], input[side][m])}

Shown(d) == Raw(FilterEntries(d, input.ignored))

MissingFrom(side, d) == \A m \in Counting(side) : ~SameResource(d, input[side][m])

Expected ==
  {[change |-> "deleted", title |-> Key(d)] :
     d \in {input.base[n] : n \in {n \in Counting("base") : MissingFrom("head", input.base[n])}}}
  \cup
  {[change |-> "added", title |-> Key(d)] :
     d \in {input.head[n] : n \in {n \in Counting("head") : MissingFrom("base", input.head[n])}}}
  \cup
  {[change |-> "modified", title |-> Key(d)] :
     d \in {input.head[n] : n \in {n \in Counting("head") : \E m \in Counting("base") :
              /\ SameResource(input.base[m], input.head[n])
              /\ Shown(input.base[m]) # Shown(input.head[n])}}}

\* In whatever order the maps are visited, each resource that was deleted, added or
\* changed beyond its ignored metadata is reported once, and nothing else is; a
\* namespace that is spelled out, the destination's, is a change and not another
\* resource; no diff of a change is empty.
DiffsExact ==
  stage = "returned" =>
    /\ {[change |-> d.change, title |-> d.title] : d \in ToSet(diffs)} = Expected
    /\ Len(diffs) = Cardinality(Expected)
    /\ \A d \in ToSet(diffs) : d.body # <<>>

\* What NewDiffReport relies on: HasChanges says whether there are diffs, the counts
\* add up to them, and no two of them have the same text.
ResultConsistent ==
  /\ hasChanges <=> diffs # <<>>
  /\ added + modified + deleted = Len(diffs)
  /\ \A change \in {<<"added", added>>, <<"modified", modified>>, <<"deleted", deleted>>} :
       Cardinality({n \in DOMAIN diffs : diffs[n].change = change[1]}) = change[2]
  /\ \A m, n \in DOMAIN diffs : m # n => diffs[m] # diffs[n]
=============================================================================
