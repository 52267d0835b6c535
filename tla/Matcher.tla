------------------------------ MODULE Matcher ------------------------------
(* pkg/matcher/matcher.go: which of ArgoCD's applications the changed files   *)
(* of a push affect.  Pure functions: nothing here changes state.             *)
(*                                                                            *)
(* A path is [lead, segs, trail]: the names between its slashes, and whether  *)
(* it begins and ends with one.  A repository URL is [host, sep, path, git,   *)
(* slash]: the names of its path, the first of them after a colon (scp syntax *)
(* or a port) or a slash, a suffix ".git" and a slash at the end.  Protocols, *)
(* "git@" and letter case, which normalizeRepoURL drops first, are left out.  *)
EXTENDS Naturals, SequencesExt, Selection

CONSTANTS
  Names,    \* of directories, files, hosts and repositories
  NoName,   \* the empty string
  Stars,    \* the names with a star in them, each with the set of names it matches
  AppDirs,  \* the directories of application definitions
  Digits    \* the names that are numbers

\* TrimPrefix(path, "/") only forgets lead, but "/" itself is then not the path "".
IsWholeRepo(path) == path = [lead |-> FALSE, segs |-> <<>>, trail |-> FALSE]

\* The file is sourcePath, or begins with sourcePath and a slash.
DirectMatch(path, file) ==
  path.segs # <<>> /\ ~path.trail /\ IsPrefix(path.segs, file.segs)

HasStar(path) == \E n \in DOMAIN path.segs : path.segs[n] \in DOMAIN Stars

\* filepath.Match: a star matches a name or a part of one, never a slash.
NameMatches(pattern, name) ==
  \/ pattern = name
  \/ pattern \in DOMAIN Stars /\ name \in Stars[pattern]
PatternMatches(path, segs) ==
  /\ ~path.trail /\ Len(segs) = Len(path.segs)
  /\ \A n \in DOMAIN segs : NameMatches(path.segs[n], segs[n])

MutantGlobMatch(path, file) ==
  HasStar(path) /\ PatternMatches(path, file.segs)
GlobMatch(path, file) ==
  /\ HasStar(path)
  /\ PatternMatches(path, file.segs) \/ PatternMatches(path, Front(file.segs))

\* A suffix ".git" is only cut off where no slash follows it.
TrimSuffixes(url) ==
  IF url.git /\ url.slash
    THEN [url.path EXCEPT ![Len(url.path)] = [withGit |-> @]]
    ELSE url.path

\* What follows a colon is a port when it is a number with more path behind it.
HostAndPath(url) ==
  LET path == TrimSuffixes(url)
      rest == IF url.sep = ":" /\ Len(path) > 1 /\ path[1] \in Digits THEN Tail(path) ELSE path
  IN  IF url.host = NoName THEN path ELSE <<url.host>> \o rest

\* Of three parts or more the first is taken for the host.
NormalizeRepoURL(url) ==
  LET parts == HostAndPath(url)
  IN  IF Len(parts) >= 3 THEN Tail(parts) ELSE parts

MatchesSource(source, repo, files) ==
  /\ NormalizeRepoURL(source.repoURL) = NormalizeRepoURL(repo)
  /\ \E f \in files :
       \/ IsWholeRepo(source.path)
       \/ DirectMatch(source.path, f)
       \/ GlobMatch(source.path, f)

\* <app>.yaml or .yml, in one of the directories or below.
IsAppDefinitionFile(file, app) ==
  /\ Last(file.segs) \in app.definitions
  /\ Len(file.segs) > 1 /\ file.segs[1] \in AppDirs

\* Spec.Source, if there is one, and Spec.Sources are one sequence here.
MatchApp(app, push) ==
  \/ \E f \in push.files : IsAppDefinitionFile(f, app)
  \/ \E s \in ToSet(app.sources) : MatchesSource(s, push.repo, push.files)

\* An empty name in the list filters nothing, nor does a list of empty names.
ClusterSet(push) == push.clusters \ {NoName}

MatchApplications(apps, spec, push) ==
  Selected(apps, {n \in DOMAIN apps :
    LET app == spec[apps[n]]
    IN  /\ ClusterSet(push) = {} \/ app.cluster \in ClusterSet(push)
        /\ MatchApp(app, push)})
=============================================================================
