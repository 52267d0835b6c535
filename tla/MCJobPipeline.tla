--------------------------- MODULE MCJobPipeline ---------------------------
(* Small instances of JobPipeline: three applications, three attempts.  The   *)
(* first application has each kind of source in turn, the second keeps a      *)
(* directory of the repository and the third two sources.                     *)
EXTENDS JobPipeline, TLC

CONSTANTS app1, app2, app3, owner, repo, other, host, port, apps, dir, sub, file,
          def1, def2, prod, test, Star, StarDef

MCAppList == <<app1, app2, app3>>
MCNames == {owner, repo, other, host, port, apps, dir, sub, file, def1, def2, Star, StarDef}

\* "*" and a pattern such as "*.yaml", which the definitions match.
MCStars == Star :> MCNames @@ StarDef :> {def1, def2, StarDef}

Path(segs) == [lead |-> FALSE, segs |-> segs, trail |-> FALSE]
Rooted(p)  == [p EXCEPT !.lead = TRUE]
Slashed(p) == [p EXCEPT !.trail = TRUE]

URL(h, sep, path) == [host |-> h, sep |-> sep, path |-> path, git |-> FALSE, slash |-> FALSE]
Short == URL(NoName, "/", <<owner, repo>>)
Https == URL(host, "/", <<owner, repo>>)
URLs == {Short, [Https EXCEPT !.git = TRUE], [Https EXCEPT !.slash = TRUE],
         URL(host, ":", <<owner, repo>>), URL(host, ":", <<port, owner, repo>>),
         URL(host, "/", <<owner, other>>), URL(NoName, "/", <<other, repo>>)}

Paths == {Path(<<>>), Path(<<dir>>), Rooted(Path(<<dir, sub>>)), Path(<<dir, Star>>),
          Path(<<Star>>), Path(<<dir, Star, file>>), Path(<<sub>>),
          Path(<<dir, StarDef>>), Path(<<apps, Star, StarDef>>)}

Application(defs, cluster, sources) == [definitions |-> defs, cluster |-> cluster, sources |-> sources]
Source(u, p) == [repoURL |-> u, path |-> p]

SpecWith(sources, cluster) ==
  app1 :> Application({def1}, cluster, sources)
    @@ app2 :> Application({def2}, test, <<Source(Https, Path(<<dir, sub>>))>>)
    @@ app3 :> Application({}, prod, <<Source(URL(host, "/", <<other, repo>>), Path(<<>>)),
                               Source(Https, Path(<<sub>>))>>)

MCSpecs ==
  {SpecWith(<<Source(u, Path(<<dir>>))>>, prod) : u \in URLs}
    \cup {SpecWith(<<Source(Https, p)>>, c) : p \in Paths, c \in {prod, NoName}}
    \cup {SpecWith(<<>>, prod)}

Files == {Path(<<file>>), Path(<<dir, file>>), Rooted(Path(<<dir, sub, file>>)),
          Path(<<sub, dir, file>>), Path(<<apps, def1>>), Path(<<apps, dir, def2>>), Path(<<def1>>),
          Path(<<dir, def2>>)}
MCPushes ==
  {[repo |-> Short, files |-> fs, clusters |-> {}] : fs \in {{f, g} : f, g \in Files}}
    \cup {[repo |-> Short, files |-> {Path(<<dir, sub, file>>), Path(<<sub>>)}, clusters |-> c] :
            c \in {{}, {NoName}, {prod}, {test, NoName}}}

\* They are the forms that the proofs are about.
ASSUME UsualInstance == UsualForms(MCSpecs, MCPushes)

\* Source paths that end in a slash.
SlashedSpecs == {SpecWith(<<Source(Https, Slashed(p))>>, prod) : p \in Paths \ {Path(<<>>)}}
OnePush == {[repo |-> Short, files |-> {Path(<<dir, file>>)}, clusters |-> {}]}
=============================================================================
