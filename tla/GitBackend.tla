----------------------------- MODULE GitBackend -----------------------------
(***************************************************************************)
(* The git backend, support/download/git, inside the wrapper of Download:  *)
(* for the URIs that use it, Download's Fetch becomes the steps below.  It  *)
(* keeps a clone next to the downloaded files, which all builds and all    *)
(* versions of the package share under the wrapper's lock, and in which    *)
(* whoever was killed before may have left anything.  On an error the clone *)
(* is removed and the backend runs itself once more.                       *)
(***************************************************************************)
EXTENDS Download

CONSTANTS
    GitUris,    \* the indices of the URIs that are repositories
    Upstreams,  \* what such a repository may have under the name asked for
    MaxBreaks   \* bound: commands that fail for no reason modelled here

ASSUME GitAssumption ==
    /\ GitUris \subseteq 1..Len(Serves)
    /\ \A i \in GitUris : Serves[i] = Outcome
    /\ Upstreams \subseteq {"good", "bad", "lacks", "down"}
    /\ MaxBreaks \in Nat

VARIABLES
    upstream,   \* the commit the name stands for upstream, if it can be reached
    repo,       \* the .git of the clone: "none", "sound" or "damaged"
    commit,     \* the commit that the name stands for in the clone, or "none"
    worktree,   \* its files: "empty", those of a commit, or "mixed"
    step,       \* where a build is in the backend
    again,      \* BR_GIT_BACKEND_FIRST_FAULT
    breaks      \* unexplained failures so far

clone == <<repo, commit, worktree>>
gvars == <<vars, upstream, clone, step, again, breaks>>

\* Another version of the package, or a build that was killed, left the clone.
GInit ==
    /\ Init
    /\ upstream \in Upstreams
    /\ repo \in {"none", "sound", "damaged"}
    /\ commit \in IF repo = "none" THEN {"none"} ELSE {"none", "good", "bad"}
    /\ worktree \in IF repo = "none" THEN {"empty"} ELSE {"mixed"}
    /\ step = [b \in Build |-> "off"]
    /\ again = [b \in Build |-> FALSE]
    /\ breaks = 0

GoStep(b, s) == step' = [step EXCEPT ![b] = s]

\* The backend exits, having left o under the name it was given.
GitExit(b, o) ==
    /\ Deliver(b, o)
    /\ GoStep(b, "off") /\ again' = [again EXCEPT ![b] = FALSE]

-----------------------------------------------------------------------------
(* The steps, in the order of the script.                                  *)

\* git init makes a repository, or repairs one that lacks some of its files;
\* the origin is set to the URI.
Initialised(b) ==
    /\ repo' \in IF repo = "damaged" THEN {"sound", "damaged"} ELSE {"sound"}
    /\ GoStep(b, "fetch")
    /\ UNCHANGED <<vars, upstream, commit, worktree, again, breaks>>

GitStart(b) ==
    /\ pc[b] = "fetch" /\ uri[b] \in GitUris /\ step[b] = "off"
    /\ Initialised(b)

GitAfresh(b) == step[b] = "init" /\ Initialised(b)

\* What the clone may have under the name after a fetch of it: a branch that is
\* checked out stays where it is, and so does a ref that upstream did not just
\* move forward.
Fetched ==
    IF upstream = "lacks" THEN {commit} ELSE {upstream} \cup ({commit} \ {"none"})

\* Branches and tags of origin, then the name itself, of which a failure is
\* taken to mean that the name is not special: it is ignored, whatever its cause.
GitFetch(b) ==
    /\ step[b] = "fetch" /\ upstream /= "down"
    /\ \/ commit' \in Fetched /\ UNCHANGED breaks
       \/ UNCHANGED commit /\ breaks < MaxBreaks /\ breaks' = breaks + 1
    /\ GoStep(b, "checkout")
    /\ UNCHANGED <<vars, upstream, repo, worktree, again>>

\* No such commit: exit without going through the trap, the clone is kept.
GitMissing(b) ==
    /\ step[b] = "checkout" /\ commit = "none"
    /\ GitExit(b, "fail")
    /\ UNCHANGED <<upstream, clone, breaks>>

\* Drop the submodules' directories and check out by force: the files of the
\* commit are there, and maybe others that no commit knows of.
GitCheckout(b) ==
    /\ step[b] = "checkout" /\ commit /= "none" /\ repo = "sound"
    /\ worktree' \in IF worktree \in {"empty", commit} THEN {commit} ELSE {commit, "mixed"}
    /\ GoStep(b, "clean")
    /\ UNCHANGED <<vars, upstream, repo, commit, again, breaks>>

\* (mutant) what is not of the commit stays
GitCleanNone(b) ==
    /\ step[b] = "clean"
    /\ GoStep(b, "archive")
    /\ UNCHANGED <<vars, upstream, clone, again, breaks>>

\* git clean -ffdx
GitClean(b) ==
    /\ step[b] = "clean"
    /\ worktree' = commit
    /\ GoStep(b, "archive")
    /\ UNCHANGED <<vars, upstream, repo, commit, again, breaks>>

\* The submodules, the list of all files, tar and gzip.
GitArchive(b) ==
    /\ step[b] = "archive"
    /\ GitExit(b, IF worktree = "good" THEN "good" ELSE "bad")
    /\ UNCHANGED <<upstream, clone, breaks>>

\* A fetch fails when upstream is not reached, when the clone is damaged, and
\* when a tag was moved upstream; a checkout when the clone lacks objects.
MayFail(b) ==
    \/ /\ step[b] = "fetch"
       /\ \/ upstream = "down" \/ repo = "damaged"
          \/ upstream /= "lacks" /\ commit \notin {"none", upstream}
    \/ step[b] = "checkout" /\ commit /= "none" /\ repo = "damaged"

\* (mutant) whatever is wrong with the clone, it is kept
OnErrorKeep(b) == GitExit(b, "fail") /\ UNCHANGED clone

\* The trap: remove the clone and start afresh, the second time give up.
OnError(b) ==
    \/ ~again[b] /\ again' = [again EXCEPT ![b] = TRUE] /\ GoStep(b, "init")
       /\ repo' = "none" /\ commit' = "none" /\ worktree' = "empty"
       /\ UNCHANGED vars
    \/ again[b] /\ GitExit(b, "fail") /\ UNCHANGED clone

GitFails(b) ==
    /\ \/ MayFail(b) /\ UNCHANGED breaks
       \/ step[b] \notin {"off", "init"} /\ (step[b] = "checkout" => commit /= "none")
          /\ breaks < MaxBreaks /\ breaks' = breaks + 1
    /\ OnError(b)
    /\ UNCHANGED upstream

Git(b) ==
    \/ GitStart(b) \/ GitAfresh(b) \/ GitFetch(b) \/ GitMissing(b)
    \/ GitCheckout(b) \/ GitClean(b) \/ GitArchive(b) \/ GitFails(b)

-----------------------------------------------------------------------------
(* The wrapper around it.                                                  *)

GWork(b) ==
    \/ Git(b)
    \/ /\ ~(pc[b] = "fetch" /\ uri[b] \in GitUris)
       /\ Work(b)
       /\ UNCHANGED <<upstream, clone, step, again, breaks>>

\* A build killed in the backend may leave the clone as it is, damaged, or with
\* some of the files of what it was checking out.
GCrash(b) ==
    /\ Crash(b)
    /\ IF step[b] = "off" THEN UNCHANGED clone
       ELSE /\ repo' \in {repo, "damaged"} /\ worktree' \in {worktree, "mixed"}
            /\ UNCHANGED commit
    /\ GoStep(b, "off") /\ again' = [again EXCEPT ![b] = FALSE]
    /\ UNCHANGED <<upstream, breaks>>

GNext == \E b \in Build :
    \/ GWork(b)
    \/ (Start(b) \/ FailCopy(b)) /\ UNCHANGED <<upstream, clone, step, again, breaks>>
    \/ GCrash(b)

GSpec == GInit /\ [][GNext]_gvars

\* A wrapper that runs goes on, and so do the git commands it runs.
GFairSpec == GSpec /\ \A b \in Build : WF_gvars(GWork(b))

-----------------------------------------------------------------------------
(* Properties.                                                             *)

\* A repository that has the commit delivers exactly its files, whatever was
\* left in the clone, unless a command fails without one of the reasons above.
\* There is one way around it: a clone that had the name before may keep what
\* the name stood for then, and deliver the files of that.  Never so the second
\* attempt.  (A fetch that fails without a reason is ignored, too: the commit may
\* then be missing.)
GoodUpstreamDelivers ==
    [][\A b \in Build :
         /\ step[b] /= "off" /\ step'[b] = "off" /\ pc'[b] /= "idle"
         /\ upstream = "good" /\ breaks' = breaks /\ mode /= "unknown"
         => \/ tmp'[b] = "good"
            \/ step[b] = "archive" /\ commit /= upstream /\ ~again[b]
            \/ step[b] = "checkout" /\ commit = "none" /\ breaks > 0]_gvars
=============================================================================
