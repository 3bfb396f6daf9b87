-------------------------- MODULE GitBackendProofs --------------------------
(***************************************************************************)
(* The composition of the wrapper and its git backend implements Download, *)
(* in which a backend is one step that leaves something or fails.  What is *)
(* proved of Download then holds of the composition.  And whatever was     *)
(* left in the clone, a repository that has the commit delivers it.        *)
(***************************************************************************)
EXTENDS GitBackend, DownloadProofs

\* While a build is in the backend, its wrapper waits at a URI that is a
\* repository.
Steps == {"off", "init", "fetch", "checkout", "clean", "archive"}

InBackend == \A b \in Build :
    step[b] /= "off" => pc[b] = "fetch" /\ uri[b] \in GitUris

GInv == TypeOK /\ step \in [Build -> Steps] /\ InBackend

\* However it ends, the backend is one of the outcomes that Download allows.
LEMMA ExitFetches ==
  ASSUME GInv, NEW b \in Build, step[b] /= "off", NEW o \in Outcome, Deliver(b, o)
  PROVE  Fetch(b)
<1>1. pc[b] = "fetch" /\ uri[b] \in GitUris
  BY DEF GInv, InBackend
<1>2. uri[b] <= Len(Serves) /\ o \in Serves[uri[b]]
  <2>1. uri[b] \in 1..Len(Serves) /\ Serves[uri[b]] = Outcome
    BY <1>1, GitAssumption
  <2>2. Len(Serves) \in Nat
    BY DlAssumption
  <2> QED
    BY <2>1, <2>2
<1> QED
  BY <1>1, <1>2 DEF Fetch

\* Every step of the backend is a Fetch of Download or leaves it alone.
LEMMA GitMaps ==
  ASSUME GInv, NEW b \in Build, Git(b)
  PROVE  Fetch(b) \/ UNCHANGED vars
<1>1. CASE GitMissing(b)
  BY <1>1, ExitFetches DEF GitMissing, GitExit, Outcome
<1>2. CASE GitArchive(b)
  <2>1. \E o \in Outcome : Deliver(b, o)
    BY <1>2 DEF GitArchive, GitExit, Outcome
  <2> QED
    BY <1>2, <2>1, ExitFetches DEF GitArchive
<1>3. CASE GitFails(b)
  <2>1. step[b] /= "off"
    BY <1>3 DEF GitFails, MayFail
  <2> QED
    BY <1>3, <2>1, ExitFetches DEF GitFails, OnError, GitExit, Outcome
<1>4. CASE \/ GitStart(b) \/ GitAfresh(b) \/ GitFetch(b) \/ GitCheckout(b) \/ GitClean(b)
  BY <1>4 DEF GitStart, GitAfresh, Initialised, GitFetch, GitCheckout, GitClean
<1> QED
  BY <1>1, <1>2, <1>3, <1>4 DEF Git

LEMMA StepMaps == GInv /\ [GNext]_gvars => [Next]_vars
<1> SUFFICES ASSUME GInv, [GNext]_gvars PROVE [Next]_vars
  OBVIOUS
<1>1. CASE UNCHANGED gvars
  BY <1>1 DEF gvars
<1>2. ASSUME NEW b \in Build, Git(b) PROVE [Next]_vars
  BY <1>2, GitMaps DEF Next, Work
<1>3. ASSUME NEW b \in Build, Work(b) \/ Start(b) \/ FailCopy(b) \/ Crash(b) PROVE [Next]_vars
  BY <1>3 DEF Next
<1> QED
  BY <1>1, <1>2, <1>3 DEF GNext, GWork, GCrash

\* A build leaves "fetch", or goes on to another URI, only by leaving the
\* backend.
LEMMA InBackendStep == GInv /\ [GNext]_gvars => (step \in [Build -> Steps] /\ InBackend)'
<1> SUFFICES ASSUME GInv, [GNext]_gvars PROVE (step \in [Build -> Steps] /\ InBackend)'
  OBVIOUS
<1>0. /\ pc \in [Build -> {"idle", "wait", "ok", "failed"} \cup Active] /\ step \in [Build -> Steps]
      /\ uri \in [Build -> 1..Len(Serves) + 1]
  BY DEF GInv, TypeOK
<1>1. CASE UNCHANGED gvars
  BY <1>1 DEF gvars, vars, GInv, InBackend
<1>2. ASSUME NEW b \in Build, Git(b) PROVE (step \in [Build -> Steps] /\ InBackend)'
  <2>1. ASSUME GitExit(b, "fail") \/ GitExit(b, "good") \/ GitExit(b, "bad")
        PROVE  (step \in [Build -> Steps] /\ InBackend)'
    <3>1. step' = [step EXCEPT ![b] = "off"]
      BY <2>1 DEF GitExit, GoStep
    <3>2. \A c \in Build \ {b} : pc'[c] = pc[c] /\ uri'[c] = uri[c] /\ step'[c] = step[c]
      BY <1>0, <2>1, <3>1 DEF GitExit, Deliver, Goto
    <3> QED
      BY <1>0, <3>1, <3>2 DEF GInv, InBackend, Steps
  <2>2. ASSUME NEW s \in Steps, GoStep(b, s), UNCHANGED vars, pc[b] = "fetch", uri[b] \in GitUris
        PROVE  (step \in [Build -> Steps] /\ InBackend)'
    BY <1>0, <2>2 DEF GoStep, vars, GInv, InBackend
  <2>3. step[b] /= "off" => pc[b] = "fetch" /\ uri[b] \in GitUris
    BY DEF GInv, InBackend
  <2>4. CASE GitMissing(b) \/ GitArchive(b)
    BY <2>1, <2>4 DEF GitMissing, GitArchive
  <2>5. CASE GitFails(b)
    <3>1. step[b] /= "off"
      BY <2>5 DEF GitFails, MayFail
    <3> QED
      BY <2>1, <2>2, <2>3, <2>5, <3>1 DEF GitFails, OnError, Steps
  <2>6. CASE GitStart(b) \/ GitAfresh(b)
    BY <2>2, <2>3, <2>6 DEF GitStart, GitAfresh, Initialised, Steps
  <2>7. CASE GitFetch(b) \/ GitCheckout(b) \/ GitClean(b)
    BY <2>2, <2>3, <2>7 DEF GitFetch, GitCheckout, GitClean, Steps
  <2> QED
    BY <1>2, <2>4, <2>5, <2>6, <2>7 DEF Git
<1>3. ASSUME NEW b \in Build, UNCHANGED step,
             \/ ~(pc[b] = "fetch" /\ uri[b] \in GitUris) /\ Work(b)
             \/ Start(b) \/ FailCopy(b)
      PROVE (step \in [Build -> Steps] /\ InBackend)'
  <2>1. step[b] = "off"
    <3>1. CASE ~(pc[b] = "fetch" /\ uri[b] \in GitUris)
      BY <3>1 DEF GInv, InBackend
    <3>2. CASE Start(b) \/ FailCopy(b)
      BY <3>2 DEF Start, FailCopy, GInv, InBackend
    <3> QED
      BY <1>3, <3>1, <3>2
  <2>2. \A c \in Build \ {b} : pc'[c] = pc[c] /\ uri'[c] = uri[c]
    BY <1>0, <1>3 DEF Work, Start, FailCopy, Lock, UseOld, NoOld, EndCopy, FileOk, FileUnchecked,
       FileBad, Remove, NoFile, Fetch, Deliver, GiveUp, Stage, CopyOut, Rename, Goto, Exit
  <2> QED
    BY <1>0, <1>3, <2>1, <2>2 DEF GInv, InBackend
<1>4. ASSUME NEW b \in Build, GCrash(b) PROVE (step \in [Build -> Steps] /\ InBackend)'
  <2>1. step' = [step EXCEPT ![b] = "off"]
    BY <1>4 DEF GCrash, GoStep
  <2>2. \A c \in Build \ {b} : pc'[c] = pc[c] /\ uri'[c] = uri[c]
    BY <1>0, <1>4 DEF GCrash, Crash, Exit, Goto
  <2> QED
    BY <1>0, <2>1, <2>2 DEF GInv, InBackend, Steps
<1> QED
  BY <1>1, <1>2, <1>3, <1>4 DEF GNext, GWork

LEMMA GInitInv == GInit => Init /\ step \in [Build -> Steps] /\ InBackend
BY DEF GInit, InBackend, Steps

\* The wrapper with its git backend implements the wrapper for which a backend
\* is one step with any outcome.
THEOREM GitImplementsFetch == GSpec => Spec
<1>1. IInv /\ (step \in [Build -> Steps] /\ InBackend) /\ [GNext]_gvars => [Next]_vars
  BY StepMaps DEF GInv, IInv
<1>2. IInv /\ [Next]_vars => IInv'
  BY Inductive
<1>3. IInv /\ (step \in [Build -> Steps] /\ InBackend) /\ [GNext]_gvars
      => (step \in [Build -> Steps] /\ InBackend)'
  BY InBackendStep DEF GInv, IInv
<1>4. Init => IInv
  BY InitInv
<1> QED
  BY <1>1, <1>2, <1>3, <1>4, GInitInv, PTL DEF GSpec, Spec

\* Whatever git does, a build whose download succeeded keeps finding a file that
\* passes check-hash.
THEOREM GitSuccessIsUsable == GSpec => []SuccessUsable
BY GitImplementsFetch, SuccessIsUsable, PTL

\* The wrapper with its git backend implements the abstract cache.
THEOREM GitImplementsCache == GSpec => CacheRefined
BY GitImplementsFetch, ImplementsCache, PTL

-----------------------------------------------------------------------------
(* What a repository that has the commit delivers.                          *)

\* The build in the backend, of which there is one at most, has fetched some
\* commit that the name stands for, or once stood for, upstream; what it archives
\* is that commit; and the second attempt works in a clone of its own making,
\* where the name never stood for anything else.
CloneInv ==
    /\ breaks \in Nat
    /\ \A b \in Build :
        /\ step[b] \in {"checkout", "clean", "archive"} /\ upstream = "good" =>
               /\ commit = "none" => step[b] = "checkout" /\ breaks > 0
               /\ again[b] => commit \in {"none", "good"}
        /\ step[b] = "archive" => worktree = commit
        /\ step[b] = "init" => repo = "none" /\ commit = "none"
        /\ again[b] => /\ step[b] /= "off"
                       /\ step[b] = "fetch" => repo = "sound" /\ commit = "none"
                       /\ step[b] = "checkout" => repo = "sound"

BInv == GInv /\ LockInv /\ again \in [Build -> BOOLEAN] /\ CloneInv

LEMMA AloneInBackend ==
  ASSUME BInv, NEW b \in Build, pc[b] \in Active
  PROVE  \A c \in Build \ {b} : step[c] = "off" /\ ~again[c]
<1>1. \A c \in Build : c /= b => pc[c] \notin Active
  BY Alone DEF BInv
<1>2. \A c \in Build \ {b} : step[c] = "off"
  BY <1>1 DEF BInv, GInv, InBackend, Active
<1> QED
  BY <1>2 DEF BInv, CloneInv

\* CloneInv is about the one build in the backend.
LEMMA CloneOfOne ==
  ASSUME BInv, NEW b \in Build, pc[b] \in Active, breaks' \in Nat,
         \A c \in Build \ {b} : step'[c] = step[c] /\ again'[c] = again[c],
         /\ step'[b] \in {"checkout", "clean", "archive"} /\ upstream' = "good" =>
                /\ commit' = "none" => step'[b] = "checkout" /\ breaks' > 0
                /\ again'[b] => commit' \in {"none", "good"}
         /\ step'[b] = "archive" => worktree' = commit'
         /\ step'[b] = "init" => repo' = "none" /\ commit' = "none"
         /\ again'[b] => /\ step'[b] /= "off"
                         /\ step'[b] = "fetch" => repo' = "sound" /\ commit' = "none"
                         /\ step'[b] = "checkout" => repo' = "sound"
  PROVE  CloneInv'
<1>1. \A c \in Build \ {b} : step'[c] = "off" /\ ~again'[c]
  BY AloneInBackend
<1> QED
  BY <1>1 DEF CloneInv

LEMMA CloneStep ==
  BInv /\ [GNext]_gvars => again' \in [Build -> BOOLEAN] /\ CloneInv'
<1> SUFFICES ASSUME BInv, [GNext]_gvars PROVE again' \in [Build -> BOOLEAN] /\ CloneInv'
  OBVIOUS
<1>0. /\ step \in [Build -> Steps] /\ again \in [Build -> BOOLEAN] /\ breaks \in Nat
      /\ \A b \in Build : step[b] /= "off" => pc[b] = "fetch" /\ pc[b] \in Active
  BY DEF BInv, GInv, InBackend, CloneInv, Active
<1>1. ASSUME UNCHANGED <<upstream, clone, step, again, breaks>>
      PROVE  again' \in [Build -> BOOLEAN] /\ CloneInv'
  BY <1>0, <1>1 DEF clone, BInv, CloneInv
<1>2. ASSUME NEW b \in Build, Git(b) PROVE again' \in [Build -> BOOLEAN] /\ CloneInv'
  <2>0. pc[b] \in Active
    BY <1>0, <1>2 DEF Git, GitStart, GitAfresh, GitFetch, GitMissing, GitCheckout, GitClean,
       GitArchive, GitFails, MayFail, Active
  <2>1. CASE GitStart(b) \/ GitAfresh(b)
    <3>1. /\ step' = [step EXCEPT ![b] = "fetch"] /\ UNCHANGED <<upstream, commit, again, breaks>>
          /\ repo' \in IF repo = "damaged" THEN {"sound", "damaged"} ELSE {"sound"}
      BY <2>1 DEF GitStart, GitAfresh, Initialised, GoStep
    <3>2. again[b] => repo = "none" /\ commit = "none"
      BY <2>1 DEF GitStart, GitAfresh, BInv, CloneInv
    <3>3. again'[b] => repo' = "sound" /\ commit' = "none"
      BY <3>1, <3>2
    <3> QED
      BY <1>0, <2>0, <3>1, <3>3, CloneOfOne
  <2>2. CASE GitFetch(b)
    <3>1. /\ step' = [step EXCEPT ![b] = "checkout"] /\ UNCHANGED <<upstream, repo, again>>
          /\ breaks' \in Nat /\ (commit' = "none" /\ upstream = "good" => breaks' > 0)
          /\ upstream = "good" => commit' \in {"good", commit}
      BY <1>0, <2>2 DEF GitFetch, GoStep, Fetched
    <3>2. again[b] => repo = "sound" /\ commit = "none"
      BY <2>2 DEF GitFetch, BInv, CloneInv
    <3> QED
      BY <1>0, <2>0, <3>1, <3>2, CloneOfOne
  <2>3. CASE GitCheckout(b)
    <3>1. /\ step' = [step EXCEPT ![b] = "clean"]
          /\ UNCHANGED <<upstream, repo, commit, again, breaks>>
          /\ commit /= "none" /\ (upstream = "good" /\ again[b] => commit = "good")
      BY <2>3 DEF GitCheckout, GoStep, BInv, CloneInv
    <3> QED
      BY <1>0, <2>0, <3>1, CloneOfOne
  <2>4. CASE GitClean(b)
    <3>1. /\ step' = [step EXCEPT ![b] = "archive"]
          /\ UNCHANGED <<upstream, repo, commit, again, breaks>> /\ worktree' = commit
          /\ upstream = "good" => commit /= "none" /\ (again[b] => commit = "good")
      BY <2>4 DEF GitClean, GoStep, BInv, CloneInv
    <3> QED
      BY <1>0, <2>0, <3>1, CloneOfOne
  <2>5. ASSUME NEW o, GitExit(b, o), breaks' \in Nat
        PROVE  again' \in [Build -> BOOLEAN] /\ CloneInv'
    <3>1. step' = [step EXCEPT ![b] = "off"] /\ again' = [again EXCEPT ![b] = FALSE]
      BY <2>5 DEF GitExit, GoStep
    <3>2. again' \in [Build -> BOOLEAN] /\ ~again'[b] /\ step'[b] = "off"
      BY <1>0, <3>1
    <3>3. \A c \in Build \ {b} : step'[c] = step[c] /\ again'[c] = again[c]
      BY <1>0, <3>1
    <3> QED
      BY <2>0, <2>5, <3>2, <3>3, CloneOfOne
  <2>6. CASE GitMissing(b) \/ GitArchive(b)
    BY <1>0, <2>5, <2>6 DEF GitMissing, GitArchive
  <2>7. CASE GitFails(b)
    <3>1. breaks' \in Nat
      BY <1>0, <2>7 DEF GitFails
    <3>2. CASE \E o : GitExit(b, o)
      BY <2>5, <3>1, <3>2
    <3>3. CASE /\ again' = [again EXCEPT ![b] = TRUE] /\ GoStep(b, "init")
               /\ repo' = "none" /\ commit' = "none" /\ worktree' = "empty"
      <4>1. step' = [step EXCEPT ![b] = "init"]
        BY <3>3 DEF GoStep
      <4> QED
        BY <1>0, <2>0, <3>1, <3>3, <4>1, CloneOfOne
    <3> QED
      BY <2>7, <3>2, <3>3 DEF GitFails, OnError
  <2> QED
    BY <1>2, <2>1, <2>2, <2>3, <2>4, <2>6, <2>7 DEF Git
<1>3. ASSUME NEW b \in Build, GCrash(b) PROVE again' \in [Build -> BOOLEAN] /\ CloneInv'
  <2>1. /\ step' = [step EXCEPT ![b] = "off"] /\ again' = [again EXCEPT ![b] = FALSE]
        /\ breaks' = breaks /\ pc[b] \in Active
    BY <1>3 DEF GCrash, GoStep, Crash
  <2>2. again' \in [Build -> BOOLEAN] /\ ~again'[b] /\ step'[b] = "off"
    BY <1>0, <2>1
  <2>3. \A c \in Build \ {b} : step'[c] = step[c] /\ again'[c] = again[c]
    BY <1>0, <2>1
  <2> QED
    BY <1>0, <2>1, <2>2, <2>3, CloneOfOne
<1>4. CASE UNCHANGED gvars
  BY <1>1, <1>4 DEF gvars
<1> QED
  BY <1>1, <1>2, <1>3, <1>4 DEF GNext, GWork

LEMMA BackendInductive == GSpec => [](IInv /\ BInv)
<1>1. IInv /\ BInv /\ [GNext]_gvars => (IInv /\ BInv)'
  <2> SUFFICES ASSUME IInv, BInv, [GNext]_gvars PROVE (IInv /\ BInv)'
    OBVIOUS
  <2>1. [Next]_vars
    BY StepMaps DEF BInv
  <2>2. IInv'
    BY <2>1, Inductive
  <2>3. (step \in [Build -> Steps] /\ InBackend)'
    BY InBackendStep DEF BInv
  <2> QED
    BY <2>2, <2>3, CloneStep DEF IInv, BInv, GInv
<1>2. GInit => IInv /\ BInv
  <2> SUFFICES ASSUME GInit PROVE IInv /\ BInv
    OBVIOUS
  <2>1. IInv /\ step \in [Build -> Steps] /\ InBackend
    BY InitInv, GInitInv
  <2>2. again \in [Build -> BOOLEAN] /\ \A b \in Build : ~again[b]
    BY DEF GInit
  <2>3. breaks \in Nat /\ \A b \in Build : step[b] = "off"
    BY DEF GInit
  <2> QED
    BY <2>1, <2>2, <2>3 DEF IInv, BInv, GInv, CloneInv
<1> QED
  BY <1>1, <1>2, PTL DEF GSpec

\* A repository that has the commit delivers exactly its files, whatever was
\* left in the clone - but for a clone that keeps what the name stood for before,
\* which the second attempt never does.
THEOREM GitDelivers == GSpec => GoodUpstreamDelivers
<1> DEFINE Delivers ==
             \A b \in Build :
                 /\ step[b] /= "off" /\ step'[b] = "off" /\ pc'[b] /= "idle"
                 /\ upstream = "good" /\ breaks' = breaks /\ mode /= "unknown"
                 => \/ tmp'[b] = "good"
                    \/ step[b] = "archive" /\ commit /= upstream /\ ~again[b]
                    \/ step[b] = "checkout" /\ commit = "none" /\ breaks > 0
<1>1. ASSUME IInv, BInv, [GNext]_gvars PROVE Delivers
  <2> SUFFICES ASSUME NEW b \in Build, step[b] /= "off", step'[b] = "off", pc'[b] /= "idle",
                      upstream = "good", breaks' = breaks, mode /= "unknown",
                      ~(step[b] = "archive" /\ commit /= upstream /\ ~again[b]),
                      ~(step[b] = "checkout" /\ commit = "none" /\ breaks > 0)
               PROVE  tmp'[b] = "good"
    OBVIOUS
  <2>0. /\ TypeOK /\ step \in [Build -> Steps] /\ breaks \in Nat /\ CloneInv
        /\ pc[b] = "fetch" /\ uri[b] \in GitUris
    BY <1>1 DEF BInv, GInv, InBackend, CloneInv
  <2>1. PICK c \in Build : Git(c) \/ GCrash(c)
    BY <1>1 DEF GNext, GWork, gvars
  <2>2. c = b
    <3> SUFFICES ASSUME c /= b PROVE step'[b] = step[b]
      OBVIOUS
    <3> QED
      BY <2>0, <2>1 DEF Git, GitStart, GitAfresh, Initialised, GitFetch, GitMissing, GitCheckout,
         GitClean, GitArchive, GitFails, OnError, GitExit, GCrash, GoStep
  <2>3. ~GCrash(b)
    BY <2>0 DEF GCrash, Crash, Exit, Goto, TypeOK
  <2>4. GitMissing(b) \/ GitArchive(b) \/ GitFails(b)
    BY <2>0, <2>1, <2>2, <2>3 DEF Git, GitStart, GitAfresh, Initialised, GitFetch, GitCheckout,
       GitClean, GoStep
  <2>5. ~GitMissing(b)
    BY <2>0 DEF GitMissing, CloneInv
  <2>6. ~GitFails(b)
    <3> SUFFICES ASSUME GitFails(b) PROVE FALSE
      OBVIOUS
    <3>1. MayFail(b)
      BY <2>0 DEF GitFails
    <3>2. again[b]
      BY <2>0 DEF GitFails, OnError, GoStep
    <3> QED
      BY <2>0, <3>1, <3>2 DEF MayFail, CloneInv
  <2>7. Deliver(b, "good")
    BY <2>0, <2>4, <2>5, <2>6 DEF GitArchive, GitExit, CloneInv
  <2>8. CheckHash(mode, "good") \in {0, 3}
    <3>1. mode \in {"hashes", "nofile", "nohash", "unknown"}
      BY <2>0, DlAssumption DEF TypeOK
    <3> QED
      BY <3>1 DEF CheckHash
  <2> QED
    BY <2>0, <2>7, <2>8 DEF Deliver, TypeOK
<1>2. IInv /\ BInv /\ [GNext]_gvars => [Delivers]_gvars
  BY <1>1
<1> QED
  BY BackendInductive, <1>2, PTL DEF GSpec, GoodUpstreamDelivers

\* With hashes to check, the wrapper and its git backend fail only when no URI
\* is left, or because of a fault.
THEOREM GitFailureExhausts == GSpec => FailureExhaustsUris
BY GitImplementsFetch, FailureExhausts, PTL
=============================================================================
