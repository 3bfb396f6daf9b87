--------------------------- MODULE DownloadProofs ---------------------------
(***************************************************************************)
(* Proofs about Download, for any number of builds and of URIs: what a     *)
(* successful build can rely on, that the shared directory implements the  *)
(* abstract cache, and that a wrapper gives up only after its last URI.    *)
(***************************************************************************)
EXTENDS Download, TLAPS

Holding == {"stage", "copy", "rename"}

Emptied == {"fetch", "stage", "copy", "rename"}

\* The flock: the active builds hold it, and there is at most one.
LockInv ==
    /\ \A b \in Build : pc[b] \in Active <=> b \in lock
    /\ \A b, c \in lock : b = c

\* What the build that holds the lock knows of the file and of its own copy.
FileInv == \A b \in Build :
    /\ pc[b] \in Emptied => output = Absent
    /\ pc[b] = "copying" => output = "part" /\ old /= Absent
    /\ pc[b] = "remove" => output /= Absent /\ CheckHash(mode, output) = 2
    /\ pc[b] \in Holding => /\ tmp[b] \in {"good", "bad"}
                            /\ rc[b] = 0 => CheckHash(mode, tmp[b]) = 0

IInv == TypeOK /\ LockInv /\ FileInv /\ SuccessUsable /\ NeverPartial

LEMMA InitInv == Init => IInv
<1> SUFFICES ASSUME Init PROVE IInv
  OBVIOUS
<1>1. cut \in BOOLEAN
  BY Zenon DEF Init
<1>2. TypeOK
  BY <1>1, DlAssumption DEF Init, TypeOK, Content, Absent
<1>3. LockInv /\ FileInv
  BY DEF Init, LockInv, FileInv, Active, Emptied, Holding
<1>4. SuccessUsable /\ NeverPartial
  BY DEF Init, SuccessUsable, NeverPartial, Absent
<1> QED
  BY <1>2, <1>3, <1>4 DEF IInv

LEMMA CutType == TypeOK /\ [Next]_vars => cut' \in BOOLEAN
<1> SUFFICES ASSUME TypeOK, [Next]_vars PROVE cut' \in BOOLEAN
  OBVIOUS
<1>1. CASE cut' = cut
  BY <1>1 DEF TypeOK
<1>2. CASE cut' = TRUE \/ cut' = FALSE
  BY <1>2, Zenon
<1>3. ASSUME NEW b \in Build, Crash(b) PROVE cut' \in BOOLEAN
  BY <1>3, Zenon DEF Crash, TypeOK
<1>4. \/ cut' = cut \/ cut' = TRUE \/ cut' = FALSE
      \/ \E b \in Build : Crash(b)
  BY DEF Next, Work, Start, Lock, UseOld, NoOld, EndCopy, FailCopy, FileOk, FileUnchecked,
     FileBad, Remove, NoFile, Fetch, Deliver, GiveUp, Stage, CopyOut, Rename, vars
<1> QED
  BY <1>1, <1>2, <1>3, <1>4

Pc == {"idle", "wait", "ok", "failed"} \cup Active

LEMMA PcType ==
  ASSUME TypeOK, NEW b \in Build, NEW l \in Pc, Goto(b, l)
  PROVE  pc' \in [Build -> Pc]
BY DEF TypeOK, Goto, Pc

LEMMA ExitType ==
  ASSUME TypeOK, NEW b \in Build, NEW l \in {"idle", "ok", "failed"}, Exit(b, l)
  PROVE  /\ pc' \in [Build -> Pc]
         /\ lock' \subseteq Build
         /\ tmp' \in [Build -> {"good", "bad", Absent}]
<1>1. l \in Pc
  BY DEF Pc
<1> QED
  BY <1>1, PcType DEF Exit, TypeOK

\* The components of TypeOK that an action changes, one by one.
LEMMA TypeParts == TypeOK /\ FileInv /\ [Next]_vars =>
    /\ mode' \in Modes /\ old' \in {"good", "bad", Absent}
    /\ output' \in Content \cup {Absent}
    /\ lock' \subseteq Build
    /\ pc' \in [Build -> Pc]
    /\ uri' \in [Build -> 1..Len(Serves) + 1]
    /\ tmp' \in [Build -> {"good", "bad", Absent}]
    /\ rc' \in [Build -> {0, 1}]
    /\ runs' \in [Build -> 0..MaxRuns]
    /\ faults' \in 0..MaxFaults
<1> SUFFICES ASSUME TypeOK, FileInv, [Next]_vars
             PROVE  /\ mode' \in Modes /\ old' \in {"good", "bad", Absent}
                    /\ output' \in Content \cup {Absent}
                    /\ lock' \subseteq Build
                    /\ pc' \in [Build -> Pc]
                    /\ uri' \in [Build -> 1..Len(Serves) + 1]
                    /\ tmp' \in [Build -> {"good", "bad", Absent}]
                    /\ rc' \in [Build -> {0, 1}]
                    /\ runs' \in [Build -> 0..MaxRuns]
                    /\ faults' \in 0..MaxFaults
  OBVIOUS
<1> DEFINE Parts ==
             /\ mode' \in Modes /\ old' \in {"good", "bad", Absent}
             /\ output' \in Content \cup {Absent}
             /\ lock' \subseteq Build
             /\ pc' \in [Build -> Pc]
             /\ uri' \in [Build -> 1..Len(Serves) + 1]
             /\ tmp' \in [Build -> {"good", "bad", Absent}]
             /\ rc' \in [Build -> {0, 1}]
             /\ runs' \in [Build -> 0..MaxRuns]
             /\ faults' \in 0..MaxFaults
<1>0. /\ {"wait", "legacy", "copying", "check", "remove", "fetch", "stage", "copy", "rename"}
         \subseteq Pc
      /\ 1 \in 1..Len(Serves) + 1
  BY DlAssumption DEF Pc, Active
<1>f. Fault => faults' \in 0..MaxFaults
  BY DlAssumption DEF Fault, TypeOK
<1>1. ASSUME NEW b \in Build, Start(b) PROVE Parts
  <2>1. pc' \in [Build -> Pc]
    BY <1>0, <1>1, PcType DEF Start
  <2>2. runs' \in [Build -> 0..MaxRuns] /\ rc' \in [Build -> {0, 1}]
    BY <1>1, DlAssumption DEF Start, TypeOK
  <2>3. uri' \in [Build -> 1..Len(Serves) + 1]
    BY <1>0, <1>1 DEF Start, TypeOK
  <2> QED
    BY <1>1, <2>1, <2>2, <2>3 DEF Start, TypeOK
<1>2. ASSUME NEW b \in Build, Lock(b) \/ NoOld(b) \/ NoFile(b) \/ FileBad(b) \/ Stage(b) PROVE Parts
  <2>1. pc' \in [Build -> Pc]
    BY <1>0, <1>2, PcType DEF Lock, NoOld, NoFile, FileBad, Stage
  <2> QED
    BY <1>2, <2>1 DEF Lock, NoOld, NoFile, FileBad, Stage, TypeOK
<1>3. ASSUME NEW b \in Build, UseOld(b) \/ EndCopy(b) \/ FailCopy(b) \/ Remove(b) PROVE Parts
  <2>1. pc' \in [Build -> Pc]
    BY <1>0, <1>3, PcType DEF UseOld, EndCopy, FailCopy, Remove
  <2>2. output' \in Content \cup {Absent}
    BY <1>3 DEF UseOld, EndCopy, FailCopy, Remove, Content, TypeOK
  <2> QED
    BY <1>3, <1>f, <2>1, <2>2 DEF UseOld, EndCopy, FailCopy, Remove, TypeOK
<1>4. ASSUME NEW b \in Build, FileOk(b) \/ FileUnchecked(b) \/ GiveUp(b) \/ Crash(b) PROVE Parts
  <2>1. \E l \in {"idle", "ok", "failed"} : Exit(b, l)
    BY <1>4 DEF FileOk, FileUnchecked, GiveUp, Crash
  <2> QED
    BY <1>4, <1>f, <2>1, ExitType DEF FileOk, FileUnchecked, GiveUp, Crash, TypeOK
<1>5. ASSUME NEW b \in Build, Fetch(b) PROVE Parts
  <2>1. PICK o \in Serves[uri[b]] :
          IF o /= "fail" /\ CheckHash(mode, o) \in {0, 3}
          THEN /\ tmp' = [tmp EXCEPT ![b] = o]
               /\ rc' = [rc EXCEPT ![b] = IF CheckHash(mode, o) = 0 THEN 0 ELSE 1]
               /\ Goto(b, "stage")
               /\ UNCHANGED uri
          ELSE /\ uri' = [uri EXCEPT ![b] = @ + 1]
               /\ UNCHANGED <<tmp, rc, pc>>
    BY <1>5 DEF Fetch, Deliver
  <2>2. uri[b] \in 1..Len(Serves) /\ o \in Outcome
    BY <1>5, <2>1, DlAssumption DEF Fetch, Deliver, TypeOK
  <2>3. CASE o /= "fail" /\ CheckHash(mode, o) \in {0, 3}
    <3>1. pc' \in [Build -> Pc]
      BY <1>0, <2>1, <2>3, PcType
    <3>2. tmp' \in [Build -> {"good", "bad", Absent}] /\ rc' \in [Build -> {0, 1}]
      BY <2>1, <2>2, <2>3 DEF Outcome, TypeOK
    <3> QED
      BY <1>5, <2>1, <2>3, <3>1, <3>2 DEF Fetch, Deliver, TypeOK
  <2>4. CASE ~(o /= "fail" /\ CheckHash(mode, o) \in {0, 3})
    <3>1. uri' \in [Build -> 1..Len(Serves) + 1]
      BY <2>1, <2>2, <2>4, DlAssumption DEF TypeOK
    <3> QED
      BY <1>5, <2>1, <2>4, <3>1 DEF Fetch, Deliver, TypeOK, Pc
  <2> QED
    BY <2>3, <2>4
<1>6. ASSUME NEW b \in Build, CopyOut(b) PROVE Parts
  <2>1. CASE Goto(b, "rename") /\ UNCHANGED <<lock, tmp, faults>>
    <3>1. pc' \in [Build -> Pc]
      BY <1>0, <2>1, PcType
    <3> QED
      BY <1>6, <2>1, <3>1 DEF CopyOut, TypeOK
  <2>2. CASE Exit(b, "failed") /\ Fault
    BY <1>6, <1>f, <2>2, ExitType DEF CopyOut, TypeOK
  <2> QED
    BY <1>6, <2>1, <2>2 DEF CopyOut
<1>7. ASSUME NEW b \in Build, Rename(b) PROVE Parts
  <2>1. \E l \in {"idle", "ok", "failed"} : Exit(b, l)
    BY <1>7 DEF Rename
  <2>2. output' \in Content \cup {Absent}
    BY <1>7 DEF Rename, Content, TypeOK
  <2> QED
    BY <1>7, <1>f, <2>1, <2>2, ExitType DEF Rename, TypeOK
<1>8. CASE UNCHANGED vars
  BY <1>8 DEF vars, TypeOK, Pc
<1> QED
  BY <1>1, <1>2, <1>3, <1>4, <1>5, <1>6, <1>7, <1>8 DEF Next, Work

LEMMA TypeStep == TypeOK /\ FileInv /\ [Next]_vars => TypeOK'
BY TypeParts, CutType DEF TypeOK, Pc

-----------------------------------------------------------------------------
\* The holder of the lock is the only active build.
LEMMA Alone ==
  ASSUME LockInv, NEW b \in Build, pc[b] \in Active
  PROVE  lock = {b} /\ \A c \in Build : c /= b => pc[c] \notin Active
BY DEF LockInv

\* What every step leaves alone, and whom it moves.
LEMMA Moves ==
  ASSUME TypeOK, LockInv, [Next]_vars
  PROVE  /\ mode' = mode /\ old' = old
         /\ \/ pc' = pc /\ lock' = lock /\ output' = output /\ cut' = cut
            \/ \E b \in Build :
                 /\ \A c \in Build : c /= b => pc'[c] = pc[c] /\ tmp'[c] = tmp[c] /\ rc'[c] = rc[c]
                 /\ \/ Start(b) \/ Lock(b) \/ pc[b] \in Active
<1>1. CASE UNCHANGED vars
  BY <1>1 DEF vars
<1>2. ASSUME NEW b \in Build, Work(b) \/ Start(b) \/ FailCopy(b) \/ Crash(b)
      PROVE  /\ mode' = mode /\ old' = old
             /\ \A c \in Build : c /= b => pc'[c] = pc[c] /\ tmp'[c] = tmp[c] /\ rc'[c] = rc[c]
             /\ \/ Start(b) \/ Lock(b) \/ pc[b] \in Active
  <2>1. mode' = mode /\ old' = old
    BY <1>2 DEF Work, Start, Lock, UseOld, NoOld, EndCopy, FailCopy, FileOk, FileUnchecked, FileBad,
       Remove, NoFile, Fetch, Deliver, GiveUp, Stage, CopyOut, Rename, Crash
  <2>2. \A c \in Build : c /= b => pc'[c] = pc[c]
    BY <1>2 DEF TypeOK, Goto, Exit, Work, Start, Lock, UseOld, NoOld, EndCopy, FailCopy, FileOk,
       FileUnchecked, FileBad, Remove, NoFile, Fetch, Deliver, GiveUp, Stage, CopyOut, Rename, Crash
  <2>3. \A c \in Build : c /= b => tmp'[c] = tmp[c] /\ rc'[c] = rc[c]
    BY <1>2 DEF TypeOK, Exit, Work, Start, Lock, UseOld, NoOld, EndCopy, FailCopy, FileOk,
       FileUnchecked, FileBad, Remove, NoFile, Fetch, Deliver, GiveUp, Stage, CopyOut, Rename, Crash
  <2>4. Start(b) \/ Lock(b) \/ pc[b] \in Active
    BY <1>2 DEF Active, Work, UseOld, NoOld, EndCopy, FailCopy, FileOk,
       FileUnchecked, FileBad, Remove, NoFile, Fetch, Deliver, GiveUp, Stage, CopyOut, Rename, Crash
  <2> QED
    BY <2>1, <2>2, <2>3, <2>4
<1> QED
  BY <1>1, <1>2 DEF Next

LEMMA LockStep == TypeOK /\ LockInv /\ [Next]_vars => LockInv'
<1> SUFFICES ASSUME TypeOK, LockInv, [Next]_vars PROVE LockInv'
  OBVIOUS
<1>1. ASSUME NEW b \in Build, pc[b] \in Active, NEW l, l \notin Active, Exit(b, l) PROVE LockInv'
  BY <1>1 DEF LockInv, TypeOK, Exit, Goto
<1>2. ASSUME NEW b \in Build, pc[b] \in Active, NEW l \in Active, Goto(b, l), lock' = lock
      PROVE  LockInv'
  BY <1>2 DEF LockInv, TypeOK, Goto
<1>3. ASSUME NEW b \in Build, Start(b) PROVE LockInv'
  BY <1>3 DEF Start, LockInv, TypeOK, Goto, Active
<1>4. ASSUME NEW b \in Build, Lock(b) PROVE LockInv'
  BY <1>4 DEF Lock, LockInv, TypeOK, Goto, Active
<1>5. CASE pc' = pc /\ lock' = lock
  BY <1>5 DEF LockInv
<1>6. ASSUME NEW b \in Build, Work(b) \/ FailCopy(b) \/ Crash(b), ~Lock(b), ~(pc' = pc /\ lock' = lock)
      PROVE  /\ pc[b] \in Active
             /\ \/ \E l : l \notin Active /\ Exit(b, l)
                \/ \E l \in Active : Goto(b, l) /\ lock' = lock
  <2>1. pc[b] \in Active
    BY <1>6 DEF Active, Work, UseOld, NoOld, EndCopy, FailCopy, FileOk, FileUnchecked, FileBad,
       Remove, NoFile, Fetch, Deliver, GiveUp, Stage, CopyOut, Rename, Crash
  <2>2. CASE FileOk(b) \/ FileUnchecked(b) \/ GiveUp(b) \/ Rename(b) \/ Crash(b)
    BY <2>1, <2>2 DEF Active, FileOk, FileUnchecked, GiveUp, Rename, Crash
  <2>3. CASE UseOld(b) \/ NoOld(b) \/ EndCopy(b) \/ FailCopy(b) \/ FileBad(b) \/ Remove(b)
             \/ NoFile(b) \/ Stage(b)
    BY <2>1, <2>3 DEF Active, UseOld, NoOld, EndCopy, FailCopy, FileBad, Remove, NoFile, Stage
  <2>4. CASE CopyOut(b)
    BY <2>1, <2>4 DEF Active, CopyOut
  <2>5. CASE Fetch(b)
    BY <1>6, <2>1, <2>5 DEF Active, Fetch, Deliver
  <2> QED
    BY <1>6, <2>2, <2>3, <2>4, <2>5 DEF Work
<1> QED
  BY <1>1, <1>2, <1>3, <1>4, <1>5, <1>6 DEF Next, vars

\* What FileInv says of one build.
FileOf(b) ==
    /\ pc[b] \in Emptied => output = Absent
    /\ pc[b] = "copying" => output = "part" /\ old /= Absent
    /\ pc[b] = "remove" => output /= Absent /\ CheckHash(mode, output) = 2
    /\ pc[b] \in Holding => /\ tmp[b] \in {"good", "bad"}
                            /\ rc[b] = 0 => CheckHash(mode, tmp[b]) = 0

LEMMA FileStep == TypeOK /\ LockInv /\ FileInv /\ [Next]_vars => FileInv'
<1> SUFFICES ASSUME TypeOK, LockInv, FileInv, [Next]_vars, NEW c \in Build PROVE FileOf(c)'
  BY DEF FileInv, FileOf
<1>0. FileOf(c)
  BY DEF FileInv, FileOf
<1> DEFINE Away == pc'[c] \notin Active
<1>a. Away => FileOf(c)'
  BY DEF FileOf, Active, Emptied, Holding
<1>1. CASE UNCHANGED vars
  BY <1>0, <1>1 DEF vars, FileOf, CheckHash
<1>2. ASSUME NEW b \in Build, pc[b] \in Active, b /= c PROVE FileOf(c)'
  <2>1. pc[c] \notin Active
    BY <1>2, Alone
  <2>2. pc'[c] = pc[c] \/ Start(c) \/ Lock(c)
    BY <2>1, Moves
  <2>3. ~Lock(c)
    BY <1>2, Alone DEF Lock
  <2>4. Start(c) => Away
    BY DEF Start, Goto, TypeOK, Active
  <2> QED
    BY <1>a, <2>1, <2>2, <2>3, <2>4
<1>3. ASSUME NEW b \in Build, Start(b) PROVE FileOf(c)'
  BY <1>0, <1>3 DEF Start, Goto, TypeOK, FileOf, CheckHash, Emptied, Holding
<1>4. ASSUME NEW b \in Build, Lock(b) PROVE FileOf(c)'
  BY <1>0, <1>4 DEF Lock, Goto, TypeOK, FileOf, CheckHash, Emptied, Holding
<1>5. CASE UseOld(c)
  BY <1>5 DEF UseOld, Goto, TypeOK, FileOf, Emptied, Holding
<1>6. CASE NoOld(c) \/ EndCopy(c) \/ FailCopy(c)
  BY <1>6 DEF NoOld, EndCopy, FailCopy, Goto, TypeOK, FileOf, Emptied, Holding
<1>7. CASE FileOk(c) \/ FileUnchecked(c) \/ GiveUp(c) \/ Rename(c) \/ Crash(c)
  BY <1>7, <1>a DEF FileOk, FileUnchecked, GiveUp, Rename, Crash, Exit, Goto, TypeOK, Active
<1>8. CASE FileBad(c)
  BY <1>8 DEF FileBad, Goto, TypeOK, FileOf, CheckHash, Emptied, Holding
<1>9. CASE Remove(c) \/ NoFile(c)
  BY <1>9 DEF Remove, NoFile, Goto, TypeOK, FileOf, Emptied, Holding
<1>10. CASE Fetch(c)
  <2>1. output = Absent /\ output' = output /\ mode' = mode
    BY <1>0, <1>10 DEF Fetch, Deliver, FileOf, Emptied
  <2>2. PICK o \in Serves[uri[c]] :
          IF o /= "fail" /\ CheckHash(mode, o) \in {0, 3}
          THEN /\ tmp' = [tmp EXCEPT ![c] = o]
               /\ rc' = [rc EXCEPT ![c] = IF CheckHash(mode, o) = 0 THEN 0 ELSE 1]
               /\ Goto(c, "stage")
               /\ UNCHANGED uri
          ELSE /\ uri' = [uri EXCEPT ![c] = @ + 1]
               /\ UNCHANGED <<tmp, rc, pc>>
    BY <1>10 DEF Fetch, Deliver
  <2>3. o \in Outcome
    BY <1>10, <2>2, DlAssumption DEF Fetch, Deliver, TypeOK
  <2>4. CASE o /= "fail" /\ CheckHash(mode, o) \in {0, 3}
    <3>1. pc'[c] = "stage" /\ tmp'[c] = o /\ rc'[c] = IF CheckHash(mode, o) = 0 THEN 0 ELSE 1
      BY <2>2, <2>4 DEF TypeOK, Goto
    <3>2. o \in {"good", "bad"}
      BY <2>3, <2>4 DEF Outcome
    <3>3. CheckHash(mode', o) = CheckHash(mode, o)
      BY <2>1 DEF CheckHash
    <3>4. rc'[c] = 0 => CheckHash(mode', tmp'[c]) = 0
      BY <3>1, <3>3
    <3> QED
      BY <2>1, <3>1, <3>2, <3>4 DEF FileOf, Emptied, Holding
  <2>5. CASE ~(o /= "fail" /\ CheckHash(mode, o) \in {0, 3})
    BY <1>10, <2>1, <2>2, <2>5 DEF Fetch, Deliver, FileOf, Emptied, Holding
  <2> QED
    BY <2>4, <2>5
<1>11. CASE Stage(c)
  BY <1>0, <1>11 DEF Stage, Goto, TypeOK, FileOf, CheckHash, Emptied, Holding
<1>12. CASE CopyOut(c)
  <2>1. CASE Goto(c, "rename") /\ UNCHANGED <<lock, tmp, faults>>
    BY <1>0, <1>12, <2>1 DEF CopyOut, Goto, TypeOK, FileOf, CheckHash, Emptied, Holding
  <2>2. CASE Exit(c, "failed") /\ Fault
    BY <1>a, <2>2 DEF Exit, Goto, TypeOK, Active
  <2> QED
    BY <1>12, <2>1, <2>2 DEF CopyOut
<1>13. ASSUME NEW b \in Build, Work(b) \/ FailCopy(b) \/ Crash(b), ~Lock(b) PROVE pc[b] \in Active
  BY <1>13 DEF Active, Work, UseOld, NoOld, EndCopy, FailCopy, FileOk, FileUnchecked, FileBad,
     Remove, NoFile, Fetch, Deliver, GiveUp, Stage, CopyOut, Rename, Crash
<1>14. ASSUME NEW b \in Build, Work(b) \/ FailCopy(b) \/ Crash(b), ~Lock(b) PROVE FileOf(c)'
  <2>1. CASE b /= c
    BY <1>2, <1>13, <1>14, <2>1
  <2>2. CASE b = c
    BY <1>5, <1>6, <1>7, <1>8, <1>9, <1>10, <1>11, <1>12, <1>14, <2>2 DEF Work
  <2> QED
    BY <2>1, <2>2
<1> QED
  BY <1>1, <1>3, <1>4, <1>14 DEF Next

LEMMA SuccessStep == IInv /\ [Next]_vars => SuccessUsable'
<1> SUFFICES ASSUME TypeOK, LockInv, FileInv, SuccessUsable, [Next]_vars, NEW d \in Build,
                    pc'[d] = "ok"
             PROVE  output' /= Absent /\ CheckHash(mode', output') = 0
  BY DEF IInv, SuccessUsable, CheckHash
<1> DEFINE Usable == output' /= Absent /\ CheckHash(mode', output') = 0
<1>0. mode' = mode /\ old' = old
  BY Moves
<1>1. CASE pc[d] = "ok" /\ output' = output
  <2>1. output /= Absent /\ CheckHash(mode, output) = 0
    BY <1>1 DEF SuccessUsable
  <2> QED
    BY <1>0, <1>1, <2>1 DEF CheckHash
<1>2. ASSUME NEW b \in Build, UseOld(b) PROVE Usable
  <2>1. pc[d] = "ok"
    BY <1>2 DEF UseOld, Goto, TypeOK
  <2> QED
    BY <1>2, <2>1 DEF UseOld, SuccessUsable
<1>3. ASSUME NEW b \in Build, EndCopy(b) PROVE Usable
  <2>1. pc[d] = "ok" /\ output' = old
    BY <1>3 DEF EndCopy, Goto, TypeOK
  <2>2. output = "part" /\ old /= Absent
    BY <1>3 DEF EndCopy, FileInv
  <2>3. CheckHash(mode, "part") = 0
    BY <2>1, <2>2 DEF SuccessUsable
  <2>4. mode \in {"hashes", "nofile", "nohash", "unknown"}
    BY DlAssumption DEF TypeOK
  <2>5. mode = "nofile"
    BY <2>3, <2>4 DEF CheckHash
  <2> QED
    BY <1>0, <2>1, <2>2, <2>5 DEF CheckHash
<1>4. ASSUME NEW b \in Build, Remove(b) PROVE Usable
  <2>1. pc[d] = "ok"
    BY <1>4 DEF Remove, Goto, TypeOK
  <2>2. CheckHash(mode, output) = 2
    BY <1>4 DEF Remove, FileInv
  <2> QED
    BY <2>1, <2>2 DEF SuccessUsable
<1>5. ASSUME NEW b \in Build, Rename(b) PROVE Usable
  <2>1. output = Absent /\ tmp[b] \in {"good", "bad"} /\ (rc[b] = 0 => CheckHash(mode, tmp[b]) = 0)
    BY <1>5 DEF Rename, FileInv, Emptied, Holding
  <2>2. pc[d] /= "ok"
    BY <2>1 DEF SuccessUsable
  <2>3. b = d
    BY <1>5, <2>2 DEF Rename, Exit, Goto, TypeOK
  <2>4. output' = tmp[d] /\ rc[d] = 0
    BY <1>5, <2>3 DEF Rename, Exit, Goto, TypeOK
  <2> QED
    BY <1>0, <2>1, <2>3, <2>4 DEF CheckHash, Absent
<1>6. ASSUME NEW b \in Build, FileOk(b), ~(pc[d] = "ok") PROVE Usable
  <2>1. b = d /\ output' = output /\ output /= Absent /\ CheckHash(mode, output) = 0
    BY <1>6 DEF FileOk, Exit, Goto, TypeOK
  <2> QED
    BY <1>0, <2>1 DEF CheckHash
<1>7. ASSUME NEW b \in Build,
             \/ Start(b) \/ Lock(b) \/ NoOld(b) \/ FailCopy(b) \/ FileUnchecked(b) \/ FileBad(b)
             \/ NoFile(b) \/ Fetch(b) \/ GiveUp(b) \/ Stage(b) \/ CopyOut(b) \/ Crash(b)
      PROVE  pc[d] = "ok" /\ output' = output
  BY <1>7 DEF Start, Lock, NoOld, FailCopy, FileUnchecked, FileBad, NoFile, Fetch, Deliver, GiveUp, Stage,
     CopyOut, Crash, Exit, Goto, TypeOK
<1>8. ASSUME NEW b \in Build, FileOk(b) PROVE output' = output
  BY <1>8 DEF FileOk
<1>9. CASE UNCHANGED vars
  BY <1>1, <1>9 DEF vars
<1> QED
  BY <1>1, <1>2, <1>3, <1>4, <1>5, <1>6, <1>7, <1>8, <1>9 DEF Next, Work

LEMMA PartialStep == IInv /\ [Next]_vars => NeverPartial'
<1> SUFFICES ASSUME TypeOK, LockInv, FileInv, NeverPartial, [Next]_vars, output' = "part"
             PROVE  cut' \/ \E d \in lock' : pc'[d] = "copying"
  BY DEF IInv, NeverPartial
<1> DEFINE Excused == cut' \/ \E d \in lock' : pc'[d] = "copying"
<1>1. ASSUME output = "part", cut' = cut,
             \A d \in lock : pc[d] = "copying" => d \in lock' /\ pc'[d] = "copying"
      PROVE  Excused
  BY <1>1 DEF NeverPartial
<1>2. CASE UNCHANGED vars
  BY <1>1, <1>2 DEF vars
<1>3. ASSUME NEW b \in Build, UseOld(b) PROVE Excused
  <2>1. pc'[b] = "copying" \/ output' = Absent \/ output' = old
    BY <1>3 DEF UseOld, Goto, TypeOK
  <2>2. b \in lock'
    BY <1>3 DEF UseOld, LockInv, Active
  <2> QED
    BY <2>1, <2>2 DEF TypeOK, Absent
<1>4. ASSUME NEW b \in Build, EndCopy(b) \/ Remove(b) PROVE FALSE
  BY <1>4 DEF EndCopy, Remove, TypeOK, Absent
<1>5. ASSUME NEW b \in Build, Rename(b) PROVE FALSE
  BY <1>5 DEF Rename, FileInv, Emptied, Holding, Absent
<1>6. ASSUME NEW b \in Build, FailCopy(b) PROVE cut'
  BY <1>6, Zenon DEF FailCopy
<1>7. ASSUME NEW b \in Build, Crash(b) PROVE Excused
  <2>0. cut' = (cut \/ pc[b] = "copying") /\ output' = output /\ pc[b] \in Active
    BY <1>7 DEF Crash
  <2>1. CASE pc[b] = "copying"
    BY <2>0, <2>1, Zenon
  <2>2. CASE pc[b] /= "copying"
    <3>1. lock = {b}
      BY <2>0, Alone
    <3>2. cut
      BY <2>0, <2>2, <3>1 DEF NeverPartial
    <3> QED
      BY <2>0, <3>2, Zenon
  <2> QED
    BY <2>1, <2>2
<1>8. ASSUME NEW b \in Build, Start(b) PROVE Excused
  <2>1. \A d \in lock : pc[d] = "copying" => d \in lock' /\ pc'[d] = "copying"
    BY <1>8 DEF Start, Goto, TypeOK
  <2> QED
    BY <1>1, <1>8, <2>1 DEF Start
<1>9. ASSUME NEW b \in Build, Lock(b) PROVE Excused
  BY <1>1, <1>9 DEF Lock
<1>10. ASSUME NEW b \in Build, pc[b] \in Active, pc[b] /= "copying", output' = output, cut' = cut
       PROVE  Excused
  <2>1. lock = {b}
    BY <1>10, Alone
  <2> QED
    BY <1>10, <2>1 DEF NeverPartial
<1>11. ASSUME NEW b \in Build,
             \/ NoOld(b) \/ FileOk(b) \/ FileUnchecked(b) \/ FileBad(b)
             \/ NoFile(b) \/ Fetch(b) \/ GiveUp(b) \/ Stage(b) \/ CopyOut(b)
      PROVE  Excused
  <2>1. pc[b] \in Active /\ pc[b] /= "copying" /\ output' = output /\ cut' = cut
    BY <1>11 DEF NoOld, FileOk, FileUnchecked, FileBad, NoFile, Fetch, Deliver, GiveUp, Stage, CopyOut, Active
  <2> QED
    BY <1>10, <2>1
<1> QED
  BY <1>2, <1>3, <1>4, <1>5, <1>6, <1>7, <1>8, <1>9, <1>11 DEF Next, Work

LEMMA Inductive == IInv /\ [Next]_vars => IInv'
BY TypeStep, LockStep, FileStep, SuccessStep, PartialStep DEF IInv

LEMMA Invariance == Spec => []IInv
<1>1. IInv /\ [Next]_vars => IInv'
  BY Inductive
<1> QED
  BY InitInv, <1>1, PTL DEF Spec

\* The state of the wrappers and of the directory they share stays well typed.
THEOREM TypeCorrect == Spec => []TypeOK
<1>1. IInv => TypeOK
  BY DEF IInv
<1> QED
  BY <1>1, Invariance, PTL

\* A build whose wrapper succeeded keeps finding a file that passes check-hash,
\* whatever the other builds do under the same lock.
THEOREM SuccessIsUsable == Spec => []SuccessUsable
<1>1. IInv => SuccessUsable
  BY DEF IInv
<1> QED
  BY <1>1, Invariance, PTL

\* The download is renamed into place: only the legacy cp writes under the
\* final name.
THEOREM NoPartialFile == Spec => []NeverPartial
<1>1. IInv => NeverPartial
  BY DEF IInv
<1> QED
  BY <1>1, Invariance, PTL

-----------------------------------------------------------------------------
\* The file as the abstract cache sees it.
Shown == IF Copying THEN Absent ELSE output

LEMMA CacheInitial == Init => Cache!CacheInit
BY DEF Init, Cache!CacheInit, Copying, Content

\* A step of a build that holds the lock: only its own pc says who copies.
LEMMA Copies ==
  ASSUME TypeOK, LockInv, NEW b \in Build, pc[b] \in Active, NEW l, Goto(b, l)
  PROVE  /\ Copying <=> pc[b] = "copying"
         /\ Copying' <=> l = "copying"
<1>1. \A c \in Build : c /= b => pc[c] \notin Active
  BY Alone
<1>2. pc'[b] = l /\ \A c \in Build : c /= b => pc'[c] = pc[c]
  BY DEF Goto, TypeOK
<1> QED
  BY <1>1, <1>2 DEF Copying, Active

LEMMA CacheStep ==
  ASSUME IInv, [Next]_vars
  PROVE  [Cache!CacheNext]_<<Shown, {c \in Content : CheckHash(mode, c) /= 2}>>
<1> DEFINE keep == {c \in Content : CheckHash(mode, c) /= 2}
<1> DEFINE Place == Shown = Absent /\ Shown' \in Content
<1> DEFINE Discard == Shown \notin keep /\ Shown' = Absent
<1> USE DEF IInv
<1>0. keep' = keep
  <2>1. mode' = mode
    BY Moves
  <2> QED
    BY <2>1 DEF CheckHash
<1>1. ASSUME UNCHANGED vars PROVE Shown' = Shown
  BY <1>1 DEF vars, Shown, Copying
<1>2. ASSUME NEW b \in Build, Start(b) \/ Lock(b) PROVE Shown' = Shown
  BY <1>2 DEF Start, Lock, Goto, TypeOK, Shown, Copying
<1>3. ASSUME NEW b \in Build, UseOld(b) PROVE Place \/ Shown' = Shown
  <2>1. pc[b] = "legacy" /\ pc[b] \in Active /\ output = Absent
    BY <1>3 DEF UseOld, Active
  <2>2. CASE Goto(b, "copying")
    <3>1. Copying' /\ ~Copying
      BY <2>1, <2>2, Copies
    <3> QED
      BY <2>1, <3>1 DEF Shown
  <2>3. CASE Goto(b, "check") /\ (output' = old \/ output' = output)
    <3>1. ~Copying' /\ ~Copying
      BY <2>1, <2>3, Copies
    <3> QED
      BY <2>1, <2>3, <3>1 DEF Shown, TypeOK, Content
  <2> QED
    BY <1>3, <2>2, <2>3 DEF UseOld
<1>4. ASSUME NEW b \in Build, EndCopy(b) \/ FailCopy(b) PROVE Place
  <2>1. pc[b] = "copying" /\ pc[b] \in Active /\ Goto(b, "check")
    BY <1>4 DEF EndCopy, FailCopy, Active
  <2>2. Copying /\ ~Copying'
    BY <2>1, Copies
  <2>3. output' \in Content
    BY <1>4, <2>1 DEF EndCopy, FailCopy, FileInv, TypeOK, Content
  <2> QED
    BY <2>2, <2>3 DEF Shown
<1>5. ASSUME NEW b \in Build, Remove(b) PROVE Discard
  <2>1. pc[b] = "remove" /\ pc[b] \in Active /\ Goto(b, "fetch") /\ output' = Absent
    BY <1>5 DEF Remove, Active
  <2>2. ~Copying /\ ~Copying'
    BY <2>1, Copies
  <2>3. CheckHash(mode, output) = 2
    BY <2>1 DEF FileInv
  <2> QED
    BY <2>1, <2>2, <2>3 DEF Shown
<1>6. ASSUME NEW b \in Build, Rename(b) PROVE Place \/ Shown' = Shown
  <2>1. pc[b] = "rename" /\ pc[b] \in Active /\ (output' = tmp[b] \/ output' = output)
    BY <1>6 DEF Rename, Active
  <2>2. PICK l \in {"ok", "failed"} : Goto(b, l)
    BY <1>6 DEF Rename, Exit
  <2>3. ~Copying /\ ~Copying'
    BY <2>1, <2>2, Copies
  <2>4. output = Absent /\ tmp[b] \in Content
    BY <2>1 DEF FileInv, Emptied, Holding, Content
  <2> QED
    BY <2>1, <2>3, <2>4 DEF Shown
<1>7. ASSUME NEW b \in Build, Crash(b) PROVE Place \/ Shown' = Shown
  <2>1. pc[b] \in Active /\ Goto(b, "idle") /\ output' = output
    BY <1>7 DEF Crash, Exit
  <2>2. Copying <=> pc[b] = "copying"
    BY <2>1, Copies
  <2>3. ~Copying'
    BY <2>1, Copies
  <2>4. pc[b] = "copying" => output \in Content
    BY <2>1 DEF FileInv, Content
  <2> QED
    BY <2>1, <2>2, <2>3, <2>4 DEF Shown
<1>8. ASSUME NEW b \in Build,
             \/ NoOld(b) \/ FileOk(b) \/ FileUnchecked(b) \/ FileBad(b)
             \/ NoFile(b) \/ Fetch(b) \/ GiveUp(b) \/ Stage(b) \/ CopyOut(b)
      PROVE  Shown' = Shown
  <2>1. pc[b] \in Active /\ pc[b] /= "copying" /\ output' = output
    BY <1>8 DEF NoOld, FileOk, FileUnchecked, FileBad, NoFile, Fetch, Deliver, GiveUp, Stage, CopyOut, Active
  <2>2. pc' = pc \/ \E l \in {"check", "remove", "fetch", "stage", "copy", "rename", "ok", "failed"} :
                        Goto(b, l)
    BY <1>8 DEF NoOld, FileOk, FileUnchecked, FileBad, NoFile, Fetch, Deliver, GiveUp, Stage, CopyOut, Exit
  <2>3. CASE pc' = pc
    BY <2>1, <2>3 DEF Shown, Copying
  <2>4. ASSUME NEW l \in {"check", "remove", "fetch", "stage", "copy", "rename", "ok", "failed"},
               Goto(b, l)
        PROVE  Shown' = Shown
    <3>1. ~Copying /\ ~Copying'
      BY <2>1, <2>4, Copies
    <3> QED
      BY <2>1, <3>1 DEF Shown
  <2> QED
    BY <2>2, <2>3, <2>4
<1>9. Place \/ Discard \/ Shown' = Shown
  <2> HIDE DEF Place, Discard
  <2> QED
    BY <1>1, <1>2, <1>3, <1>4, <1>5, <1>6, <1>7, <1>8 DEF Next, Work
<1> QED
  BY <1>0, <1>9 DEF Cache!CacheNext, Cache!Place, Cache!Discard, Shown

\* The wrapper implements the abstract cache: what is under the final name is
\* replaced or removed only when check-hash rejects it.
THEOREM ImplementsCache == Spec => CacheRefined
<1>1. IInv /\ [Next]_vars => [Cache!CacheNext]_<<Shown, {c \in Content : CheckHash(mode, c) /= 2}>>
  BY CacheStep
<1> QED
  BY CacheInitial, <1>1, Invariance, PTL DEF Spec, CacheRefined, Cache!CacheSpec, Shown

-----------------------------------------------------------------------------
\* With hashes to check, what is held for the final name matches them.
HeldMatches == \A b \in Build : pc[b] \in Holding /\ mode = "hashes" => rc[b] = 0

LEMMA HeldStep == IInv /\ HeldMatches /\ [Next]_vars => HeldMatches'
<1> SUFFICES ASSUME TypeOK, LockInv, HeldMatches, [Next]_vars, NEW c \in Build,
                    pc'[c] \in Holding, mode' = "hashes"
             PROVE  rc'[c] = 0
  BY DEF IInv, HeldMatches
<1>0. mode = "hashes"
  BY Moves
<1>1. CASE pc[c] \in Holding /\ rc'[c] = rc[c]
  BY <1>0, <1>1 DEF HeldMatches
<1>2. CASE Fetch(c)
  <2>1. PICK o \in Serves[uri[c]] : Deliver(c, o)
    BY <1>2 DEF Fetch
  <2>2. pc[c] = "fetch"
    BY <1>2 DEF Fetch
  <2>3. o /= "fail" /\ CheckHash(mode, o) \in {0, 3}
    BY <2>1, <2>2 DEF Deliver, Holding
  <2>4. CheckHash(mode, o) = 0
    BY <1>0, <2>3 DEF CheckHash
  <2> QED
    BY <2>1, <2>3, <2>4 DEF Deliver, TypeOK
<1>3. CASE UNCHANGED vars
  BY <1>1, <1>3 DEF vars
<1>4. CASE ~Fetch(c) /\ ~UNCHANGED vars /\ ~(pc[c] \in Holding /\ rc'[c] = rc[c])
  <2>1. PICK b \in Build : Work(b) \/ Start(b) \/ FailCopy(b) \/ Crash(b)
    BY <1>4 DEF Next
  <2>2. b = c
    <3> SUFFICES ASSUME b /= c PROVE pc'[c] = pc[c] /\ rc'[c] = rc[c]
      BY <1>4
    <3>1. pc'[c] = pc[c]
      BY <2>1 DEF TypeOK, Goto, Exit, Work, Start, Lock, UseOld, NoOld, EndCopy, FailCopy, FileOk,
         FileUnchecked, FileBad, Remove, NoFile, Fetch, Deliver, GiveUp, Stage, CopyOut, Rename, Crash
    <3>2. rc'[c] = rc[c]
      BY <2>1 DEF TypeOK, Work, Start, Lock, UseOld, NoOld, EndCopy, FailCopy, FileOk,
         FileUnchecked, FileBad, Remove, NoFile, Fetch, Deliver, GiveUp, Stage, CopyOut, Rename, Crash
    <3> QED
      BY <3>1, <3>2
  <2>3. pc[c] \notin Holding => pc'[c] \notin Holding
    BY <1>4, <2>1, <2>2 DEF Holding, TypeOK, Goto, Exit, Work, Start, Lock, UseOld, NoOld, EndCopy,
       FailCopy, FileOk, FileUnchecked, FileBad, Remove, NoFile, GiveUp, Stage, CopyOut, Rename, Crash
  <2>4. pc[c] \in Holding => rc'[c] = rc[c]
    BY <2>1, <2>2 DEF Holding, Work, Start, Lock, UseOld, NoOld, EndCopy, FailCopy, FileOk,
       FileUnchecked, FileBad, Remove, NoFile, Fetch, GiveUp, Stage, CopyOut, Rename, Crash
  <2> QED
    BY <1>4, <2>3, <2>4
<1> QED
  BY <1>1, <1>2, <1>3, <1>4

\* With hashes to check, a wrapper fails only when no URI is left, or because of
\* a fault.
THEOREM FailureExhausts == Spec => FailureExhaustsUris
<1> DEFINE Exhausted ==
             \A b \in Build :
                 pc[b] \in Active /\ pc'[b] = "failed" /\ faults' = faults /\ mode = "hashes"
                 => uri[b] > Len(Serves)
<1>1. ASSUME IInv, HeldMatches, [Next]_vars PROVE Exhausted
  <2> SUFFICES ASSUME NEW b \in Build, pc[b] \in Active, pc'[b] = "failed", faults' = faults,
                      mode = "hashes"
               PROVE  uri[b] > Len(Serves)
    OBVIOUS
  <2>1. pc[b] /= "failed" /\ TypeOK /\ faults \in Nat /\ ~Fault
    BY <1>1, DlAssumption DEF Active, IInv, TypeOK, Fault
  <2>2. PICK c \in Build : Work(c) \/ Start(c) \/ FailCopy(c) \/ Crash(c)
    BY <1>1, <2>1 DEF Next, vars
  <2>3. c = b
    BY <2>1, <2>2 DEF TypeOK, Goto, Exit, Work, Start, Lock, UseOld, NoOld, EndCopy, FailCopy, FileOk,
       FileUnchecked, FileBad, Remove, NoFile, Fetch, Deliver, GiveUp, Stage, CopyOut, Rename, Crash
  <2>4. GiveUp(b) \/ FileUnchecked(b) \/ Rename(b)
    BY <2>1, <2>2, <2>3 DEF TypeOK, Goto, Exit, Work, Start, Lock, UseOld, NoOld, EndCopy, FailCopy,
       FileOk, FileBad, Remove, NoFile, Fetch, Deliver, Stage, CopyOut, Crash
  <2>5. ~FileUnchecked(b)
    <3>1. CheckHash(mode, output) \in {0, 2}
      BY DEF CheckHash
    <3> QED
      BY <3>1 DEF FileUnchecked
  <2>6. ~Rename(b)
    <3>1. Rename(b) => rc[b] = 0
      BY <1>1 DEF Rename, HeldMatches, Holding
    <3> QED
      BY <2>1, <3>1 DEF Rename, Exit, Goto, TypeOK
  <2>7. GiveUp(b)
    BY <2>4, <2>5, <2>6
  <2>8. uri[b] \in Nat /\ Len(Serves) \in Nat
    BY <2>1, DlAssumption DEF TypeOK
  <2> QED
    BY <2>7 DEF GiveUp
<1>2. Init => HeldMatches
  BY DEF Init, HeldMatches, Holding
<1>3. IInv /\ HeldMatches /\ [Next]_vars => [Exhausted]_vars
  BY <1>1
<1> QED
  BY InitInv, Inductive, HeldStep, <1>2, <1>3, PTL DEF Spec, FailureExhaustsUris
=============================================================================
