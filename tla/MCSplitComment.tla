--------------------------- MODULE MCSplitComment ---------------------------
(* Small instances of SplitComment: reports of a title and up to three        *)
(* resources, whose manifests have up to MaxManifest lines.                   *)
EXTENDS SplitComment, SequencesExt

CONSTANT MaxManifest

Text(n) == [i \in 1..n |-> "text"]
Block(manifest) == <<"open", "fence">> \o manifest \o <<"fence", "close">>
Resource(title, n) == Text(title) \o Block(Text(n))

Resources == {Resource(t, n) : t \in {0, 1, 6}, n \in 0..MaxManifest}

\* Before and after a resource stand lines about other applications, many of
\* them perhaps; a report ends with a resource or with such lines.
MCBodies ==
  {Text(1) \o FlattenSeq(rs) \o Text(last) :
     rs \in UNION {[1..k -> Resources] : k \in 0..3}, last \in {0, 1, 9}}

\* They are the reports that the proofs are about.
ASSUME PlainInstance == PlainReports(MCBodies)

\* One resource whose manifest quotes a code fence or a </details>.
QuotingBodies ==
  {Text(1) \o Block(Text(n) \o <<quoted>> \o Text(MaxManifest)) :
     n \in 0..MaxManifest, quoted \in {"tick", "shut"}}
=============================================================================
