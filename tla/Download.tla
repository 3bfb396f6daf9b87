------------------------------ MODULE Download ------------------------------
(***************************************************************************)
(* The download of one file by support/download/dl-wrapper, as run by      *)
(* several builds that share a BR2_DL_DIR: package/pkg-download.mk runs    *)
(* the wrapper under a flock on the package's download directory.  A build *)
(* may be killed at any point; the kernel then drops its lock and the      *)
(* files stay as they are.                                                 *)
(***************************************************************************)
EXTENDS Naturals, Sequences

CONSTANTS
    Build,      \* the builds that share the download directory
    Serves,     \* what each URI of DOWNLOAD_URIS may deliver, in their order
    Modes,      \* what the package's .hash file may say, see CheckHash
    MaxRuns,    \* bound: runs of the wrapper per build
    MaxFaults   \* bound: crashes and file system errors

\* "good" matches every hash, "bad" is complete but does not, "part" is the
\* beginning of a file.
Content == {"good", "bad", "part"}
Absent == "absent"
Outcome == {"fail", "good", "bad"}

ASSUME DlAssumption ==
    /\ Serves \in Seq(SUBSET Outcome)
    /\ \A i \in 1..Len(Serves) : Serves[i] /= {}
    /\ Modes \subseteq {"hashes", "nofile", "nohash", "unknown"}
    /\ MaxRuns \in Nat /\ MaxFaults \in Nat

\* The exit status of check-hash: the .hash file lists hashes of the file, is
\* not there at all, has no line for the file, or uses an unknown hash type.
CheckHash(mode, c) ==
    CASE mode = "hashes"  -> IF c = "good" THEN 0 ELSE 2
      [] mode = "nofile"  -> 0
      [] mode = "nohash"  -> 3
      [] mode = "unknown" -> 4

VARIABLES
    mode,       \* what the .hash file says
    old,        \* the file in the global (legacy) download directory
    output,     \* the file in the package's download directory
    lock,       \* the builds that hold the flock
    pc,         \* where each build is
    uri,        \* the index of the URI a build is to try next
    tmp,        \* what a build has fetched into its temporary directory
    rc,         \* the status a build will return
    runs,       \* runs of the wrapper started by a build
    cut,        \* the output is a copy of the old file that was cut short
    faults      \* faults so far

vars == <<mode, old, output, lock, pc, uri, tmp, rc, runs, cut, faults>>

Active == {"legacy", "copying", "check", "remove", "fetch", "stage", "copy", "rename"}

TypeOK ==
    /\ mode \in Modes
    /\ old \in {"good", "bad", Absent}
    /\ output \in Content \cup {Absent}
    /\ lock \subseteq Build
    /\ pc \in [Build -> {"idle", "wait", "ok", "failed"} \cup Active]
    /\ uri \in [Build -> 1..Len(Serves) + 1]
    /\ tmp \in [Build -> {"good", "bad", Absent}]
    /\ rc \in [Build -> {0, 1}]
    /\ runs \in [Build -> 0..MaxRuns]
    /\ cut \in BOOLEAN
    /\ faults \in 0..MaxFaults

\* Earlier builds may have left a file, whatever its hashes are now.
Init ==
    /\ mode \in Modes
    /\ old \in {"good", "bad", Absent}
    /\ output \in {"good", "bad", Absent}
    /\ lock = {}
    /\ pc = [b \in Build |-> "idle"]
    /\ uri = [b \in Build |-> 1]
    /\ tmp = [b \in Build |-> Absent]
    /\ rc = [b \in Build |-> 1]
    /\ runs = [b \in Build |-> 0]
    /\ cut = FALSE
    /\ faults = 0

Goto(b, l) == pc' = [pc EXCEPT ![b] = l]

Fault == faults < MaxFaults /\ faults' = faults + 1

-----------------------------------------------------------------------------
Start(b) ==
    /\ pc[b] \in {"idle", "ok", "failed"} /\ runs[b] < MaxRuns
    /\ runs' = [runs EXCEPT ![b] = @ + 1]
    /\ uri' = [uri EXCEPT ![b] = 1]
    /\ rc' = [rc EXCEPT ![b] = 1]
    /\ Goto(b, "wait")
    /\ UNCHANGED <<mode, old, output, lock, tmp, cut, faults>>

\* (mutant) no flock around the wrapper
LockFree(b) ==
    /\ pc[b] = "wait"
    /\ lock' = lock \cup {b}
    /\ Goto(b, "legacy")
    /\ UNCHANGED <<mode, old, output, uri, tmp, rc, runs, cut, faults>>

Lock(b) ==
    /\ pc[b] = "wait" /\ lock = {}
    /\ lock' = {b}
    /\ Goto(b, "legacy")
    /\ UNCHANGED <<mode, old, output, uri, tmp, rc, runs, cut, faults>>

\* (mutant) the lock outlives the wrapper
ExitKeepLock(b, l) == Goto(b, l) /\ lock' = lock /\ tmp' = [tmp EXCEPT ![b] = Absent]

\* The wrapper exits, and flock with it.
Exit(b, l) == Goto(b, l) /\ lock' = lock \ {b} /\ tmp' = [tmp EXCEPT ![b] = Absent]

\* Hard-link the file of the old download directory, if there is one and it is
\* needed; copy it if that cannot be done, and go on if neither can.
UseOld(b) ==
    /\ pc[b] = "legacy" /\ output = Absent /\ old /= Absent
    /\ \/ output' = old /\ Goto(b, "check") /\ UNCHANGED faults
       \/ output' = "part" /\ Goto(b, "copying") /\ UNCHANGED faults
       \/ Fault /\ Goto(b, "check") /\ UNCHANGED output
    /\ UNCHANGED <<mode, old, lock, uri, tmp, rc, runs, cut>>

NoOld(b) ==
    /\ pc[b] = "legacy" /\ (output /= Absent \/ old = Absent)
    /\ Goto(b, "check")
    /\ UNCHANGED <<mode, old, output, lock, uri, tmp, rc, runs, cut, faults>>

EndCopy(b) ==
    /\ pc[b] = "copying"
    /\ output' = old
    /\ Goto(b, "check")
    /\ UNCHANGED <<mode, old, lock, uri, tmp, rc, runs, cut, faults>>

\* cp fails half way, for want of space; "|| true" goes on.
FailCopy(b) ==
    /\ pc[b] = "copying" /\ Fault
    /\ cut' = TRUE
    /\ Goto(b, "check")
    /\ UNCHANGED <<mode, old, output, lock, uri, tmp, rc, runs>>

FileOk(b) ==
    /\ pc[b] = "check" /\ output /= Absent /\ CheckHash(mode, output) = 0
    /\ Exit(b, "ok")
    /\ UNCHANGED <<mode, old, output, uri, rc, runs, cut, faults>>

\* No hash to check against, or an unknown one: a hard error.
FileUnchecked(b) ==
    /\ pc[b] = "check" /\ output /= Absent /\ CheckHash(mode, output) \notin {0, 2}
    /\ Exit(b, "failed")
    /\ UNCHANGED <<mode, old, output, uri, rc, runs, cut, faults>>

\* A wrong hash: remove the file and download it again.
FileBad(b) ==
    /\ pc[b] = "check" /\ output /= Absent /\ CheckHash(mode, output) = 2
    /\ Goto(b, "remove")
    /\ UNCHANGED <<mode, old, output, lock, uri, tmp, rc, runs, cut, faults>>

Remove(b) ==
    /\ pc[b] = "remove"
    /\ output' = Absent
    /\ cut' = FALSE
    /\ Goto(b, "fetch")
    /\ UNCHANGED <<mode, old, lock, uri, tmp, rc, runs, faults>>

NoFile(b) ==
    /\ pc[b] = "check" /\ output = Absent
    /\ Goto(b, "fetch")
    /\ UNCHANGED <<mode, old, output, lock, uri, tmp, rc, runs, cut, faults>>

\* (mutant) the first URI that fails ends the search
FetchOnce(b) ==
    /\ pc[b] = "fetch" /\ uri[b] <= Len(Serves)
    /\ \E o \in Serves[uri[b]] :
          IF o /= "fail" /\ CheckHash(mode, o) \in {0, 3}
          THEN /\ tmp' = [tmp EXCEPT ![b] = o]
               /\ rc' = [rc EXCEPT ![b] = IF CheckHash(mode, o) = 0 THEN 0 ELSE 1]
               /\ Goto(b, "stage")
               /\ UNCHANGED lock
          ELSE Exit(b, "failed") /\ UNCHANGED rc
    /\ UNCHANGED <<mode, old, output, uri, runs, cut, faults>>

\* What becomes of what a backend left: it is checked, and kept if it passes or
\* if there is nothing to check it against; else the next URI is tried.
Deliver(b, o) ==
    /\ IF o /= "fail" /\ CheckHash(mode, o) \in {0, 3}
       THEN /\ tmp' = [tmp EXCEPT ![b] = o]
            /\ rc' = [rc EXCEPT ![b] = IF CheckHash(mode, o) = 0 THEN 0 ELSE 1]
            /\ Goto(b, "stage")
            /\ UNCHANGED uri
       ELSE /\ uri' = [uri EXCEPT ![b] = @ + 1]
            /\ UNCHANGED <<tmp, rc, pc>>
    /\ UNCHANGED <<mode, old, output, lock, runs, cut, faults>>

\* Run the backend for the next URI.
Fetch(b) ==
    /\ pc[b] = "fetch" /\ uri[b] <= Len(Serves)
    /\ \E o \in Serves[uri[b]] : Deliver(b, o)

GiveUp(b) ==
    /\ pc[b] = "fetch" /\ uri[b] > Len(Serves)
    /\ Exit(b, "failed")
    /\ UNCHANGED <<mode, old, output, uri, rc, runs, cut, faults>>

\* (mutant) the file is filled under its final name
StageInPlace(b) ==
    /\ pc[b] = "stage"
    /\ output' = "part"
    /\ Goto(b, "copy")
    /\ UNCHANGED <<mode, old, lock, uri, tmp, rc, runs, cut, faults>>

\* An empty file next to the output, with the right mode.
Stage(b) ==
    /\ pc[b] = "stage"
    /\ Goto(b, "copy")
    /\ UNCHANGED <<mode, old, output, lock, uri, tmp, rc, runs, cut, faults>>

\* cat into it
CopyOut(b) ==
    /\ pc[b] = "copy"
    /\ \/ Goto(b, "rename") /\ UNCHANGED <<lock, tmp, faults>>
       \/ Exit(b, "failed") /\ Fault
    /\ UNCHANGED <<mode, old, output, uri, rc, runs, cut>>

\* mv over the output, which is atomic
Rename(b) ==
    /\ pc[b] = "rename"
    /\ \/ output' = tmp[b] /\ Exit(b, IF rc[b] = 0 THEN "ok" ELSE "failed") /\ UNCHANGED faults
       \/ Exit(b, "failed") /\ Fault /\ UNCHANGED output
    /\ UNCHANGED <<mode, old, uri, rc, runs, cut>>

\* The build is killed, or its machine stops.
Crash(b) ==
    /\ pc[b] \in Active /\ Fault
    /\ cut' = (cut \/ pc[b] = "copying")
    /\ Exit(b, "idle")
    /\ UNCHANGED <<mode, old, output, uri, rc, runs>>

Work(b) ==
    \/ Lock(b) \/ UseOld(b) \/ NoOld(b) \/ EndCopy(b)
    \/ FileOk(b) \/ FileUnchecked(b) \/ FileBad(b) \/ Remove(b) \/ NoFile(b)
    \/ Fetch(b) \/ GiveUp(b) \/ Stage(b) \/ CopyOut(b) \/ Rename(b)

Next == \E b \in Build : Work(b) \/ Start(b) \/ FailCopy(b) \/ Crash(b)

Spec == Init /\ [][Next]_vars

\* A wrapper that runs goes on, and a free lock is eventually granted.
FairSpec == Spec /\ \A b \in Build : WF_vars(Work(b))

-----------------------------------------------------------------------------
(* Properties.                                                             *)

\* A build whose download succeeded finds, from then on, a file that passes
\* check-hash under the final name, whatever the other builds are doing.
SuccessUsable ==
    \A b \in Build : pc[b] = "ok" => output /= Absent /\ CheckHash(mode, output) = 0

\* No half-written file is ever visible under the final name, but for the copy
\* of an old file that is in progress or was cut short.
NeverPartial ==
    output = "part" => cut \/ \E b \in lock : pc[b] = "copying"

\* With hashes to check, a download fails only for want of a URI that delivers
\* a matching file, or because of a fault of this run.
FailureExhaustsUris ==
    [][\A b \in Build :
         pc[b] \in Active /\ pc'[b] = "failed" /\ faults' = faults /\ mode = "hashes"
         => uri[b] > Len(Serves)]_vars

Copying == \E b \in Build : pc[b] = "copying"

\* Every wrapper that was started ends.
WrapperEnds == \A b \in Build : pc[b] = "wait" ~> pc[b] \in {"idle", "ok", "failed"}

\* The abstract cache: an acceptable file, once there, is there to stay.  A copy
\* in progress does not count as a file yet.
Cache == INSTANCE DlCache WITH
    Content <- Content, Absent <- Absent,
    keep <- {c \in Content : CheckHash(mode, c) /= 2},
    cache <- IF Copying THEN Absent ELSE output

CacheRefined == Cache!CacheSpec
=============================================================================
