----------------------------- MODULE MCAdmission -----------------------------
(* A small instance of Admission: two requests a window and two handlers.  A  *)
(* window lasts until the next instant.  Most of the environments must not    *)
(* load.                                                                      *)
EXTENDS Admission, Integers, TLC

CONSTANTS owner, OWNER, app, lib, guest, odd

MCLower == [n \in {owner, app, lib, guest, odd, Star} |-> n] @@ (OWNER :> owner)

MCKeys == {<<OWNER, app>>, <<guest, lib>>}

MCRequests ==
  {[post |-> TRUE, bearer |-> TRUE, genuine |-> TRUE, repo |-> r] : r \in {<<OWNER, app>>, <<guest, lib>>}}
    \cup {[post |-> b[1], bearer |-> b[2], genuine |-> b[3], repo |-> <<OWNER, app>>] :
            b \in {<<FALSE, TRUE, TRUE>>, <<TRUE, FALSE, TRUE>>, <<TRUE, TRUE, FALSE>>}}

Good(repo) ==
  [json |-> TRUE, githubToken |-> 1, argocdToken |-> 1, repositoryLength |-> 256,
   repository |-> repo, prNumber |-> 1000000, baseRef |-> 256, headRef |-> 1,
   changedFiles |-> 1000, longestFile |-> 512, workflowName |-> 0, workflowSafe |-> TRUE]
MCPayloads ==
  {Good(<<owner, app>>), Good(<<guest, lib>>), Good(<<app>>), Good(<<owner, odd>>),
   [Good(<<owner, app>>) EXCEPT !.json = FALSE],
   [Good(<<owner, app>>) EXCEPT !.prNumber = 0],
   [Good(<<owner, app>>) EXCEPT !.workflowSafe = FALSE]}

Plain == [name \in DOMAIN Default |-> Unset]
WithList(e, entries) ==
  [name \in DOMAIN Default \cup {"REPO_ALLOWLIST"} |->
     IF name = "REPO_ALLOWLIST" THEN entries ELSE e[name]]
Rated(n) == [Plain EXCEPT !["RATE_LIMIT_PER_REPO"] = n]
MCEnvs ==
  {WithList(Rated(Rate), << <<>>, <<OWNER, Star>>, <<Star, lib>>, <<Star>> >>),
   WithList(Rated(0), << <<guest, lib>> >>),
   WithList(Rated(0), << <<Star, Star>> >>),
   WithList(Rated(Rate), << <<>> >>),
   WithList(Rated(-1), << <<Star, Star>> >>),
   WithList(Rated(Malformed), << <<Star, Star>> >>),
   WithList([Rated(Rate) EXCEPT !["WORKER_COUNT"] = 0], << <<Star, Star>> >>)}
=============================================================================
