--------------------------- MODULE PkgBuildProofs ---------------------------
(***************************************************************************)
(* Proofs about PkgBuild, for every set of packages, dependency graph and  *)
(* bound: type correctness, what a stamp vouches for, and the order in     *)
(* which packages are built; and what make does again: what a successful   *)
(* make installs was built with the configuration saved last,              *)
(* <pkg>-rebuild picks up the sources of the moment and restarts where it  *)
(* says, what has been completely built is left alone, and a run fails     *)
(* only for a fault.                                                       *)
(***************************************************************************)
EXTENDS PkgBuild, SequenceTheorems, TLAPS

(* What the helpers return.                                                *)

LEMMA InstallsStamp == \A p \in Pkg : Installs(p) \subseteq Stamp
BY DEF Installs, InstallSteps, Stamp, Step

LEMMA NormalStamp == \A x \in Stamp : Normal(x) \subseteq Stamp
BY DEF Normal, Stamp, Step, InstallSteps

LEMMA PrereqsStamp == \A x \in Stamp : Prereqs(x) \subseteq Stamp
<1>1. \A x \in Stamp : OrderOnly(x) \subseteq Stamp
  <2> SUFFICES ASSUME NEW x \in Stamp, NEW y \in OrderOnly(x) PROVE y \in Stamp
    OBVIOUS
  <2>0. x[1] \in Pkg /\ x[2] \in Step
    BY DEF Stamp
  <2>1. CASE x[2] = "downloaded"
    BY <2>0, <2>1, InstallsStamp, PkgAssumption DEF OrderOnly
  <2>2. CASE x[2] = "extracted"
    BY <2>0, <2>2, InstallsStamp, PkgAssumption DEF OrderOnly
  <2>3. CASE x[2] = "patched"
    BY <2>0, <2>3, PkgAssumption DEF OrderOnly, TreeStep, Stamp, Step
  <2>4. CASE x[2] = "configured"
    <3>1. y \in UNION {Installs(q) : q \in Deps[x[1]]} \/ y = <<x[1], "rsynced">>
      BY <2>0, <2>4 DEF OrderOnly
    <3> QED
      BY <3>1, <2>0, InstallsStamp, PkgAssumption DEF Stamp, Step
  <2>5. CASE x[2] = "dotconfig"
    <3>1. y \in UNION {Installs(q) : q \in KconfigDeps[x[1]]} \/ y = <<x[1], TreeStep(x[1])>>
      BY <2>0, <2>5 DEF OrderOnly
    <3> QED
      BY <3>1, <2>0, InstallsStamp, PkgAssumption DEF Stamp, Step, TreeStep
  <2>6. CASE x[2] \notin {"downloaded", "extracted", "patched", "dotconfig", "configured"}
    BY <2>6 DEF OrderOnly
  <2> QED
    BY <2>1, <2>2, <2>3, <2>4, <2>5, <2>6
<1> QED
  BY <1>1, NormalStamp DEF Prereqs

LEMMA CleanForSeq ==
  ASSUME NEW p \in Pkg, NEW kind \in Kinds
  PROVE  CleanFor(p, kind) \in Seq(Stamp)
<1> DEFINE a == IF p \in Override THEN <<<<p, "rsynced">>>> ELSE <<>>
           b == <<<<p, "staging">>, <<p, "target">>, <<p, "images">>, <<p, "host">>>>
           c == IF kind \in {"rebuild", "reconfigure"} THEN <<<<p, "built">>>> ELSE <<>>
           e == IF kind = "reconfigure" /\ p \in Kconfig THEN <<<<p, "fixup">>>> ELSE <<>>
           d == IF kind = "reconfigure" THEN <<<<p, "configured">>>> ELSE <<>>
<1>0. \A s \in Step : <<p, s>> \in Stamp
  BY DEF Stamp
<1>1. /\ a \in Seq(Stamp) /\ b \in Seq(Stamp) /\ c \in Seq(Stamp)
      /\ e \in Seq(Stamp) /\ d \in Seq(Stamp)
  BY <1>0 DEF Step
<1> HIDE DEF a, b, c, d, e
<1>2. a \o b \o c \o e \o d \in Seq(Stamp)
  BY <1>1
<1> QED
  BY <1>2 DEF CleanFor, a, b, c, d, e

LEMMA EditorCleanSeq == \A p \in Pkg : EditorClean(p) \in Seq(Stamp)
BY DEF EditorClean, Stamp, Step

LEMMA TopPop ==
  ASSUME NEW s \in Seq(Stamp), s /= <<>>
  PROVE  s[Len(s)] \in Stamp /\ SubSeq(s, 1, Len(s) - 1) \in Seq(Stamp)
OBVIOUS

-----------------------------------------------------------------------------
(* The inductive invariant: while make runs, what it has finished with is   *)
(* closed under prerequisites and up to date.                               *)

RunShape ==
    /\ status /= "run" => seen = {} /\ stack = <<>> /\ todo = <<>> /\ ~busy
    /\ todo /= <<>> => seen = {} /\ stack = <<>> /\ ~busy
    /\ busy => stack /= <<>> /\ Prereqs(Top) \subseteq seen /\ ~UpToDate(Top)

SeenDone == \A x \in seen :
    /\ UpToDate(x)
    /\ Prereqs(x) \subseteq seen
    /\ x[1] \notin torn => prod[x] = "done"

IInv == TypeOK /\ RunShape /\ StampMeansDone /\ SeenDone

\* The part of TypeOK about configurations.
ConfigType ==
    /\ custom \in [Pkg -> Configs \cup {Half}]
    /\ dot \in [Pkg -> Configs \cup {Half}]
    /\ conf \in [Stamp -> Configs \cup {Half}]
    /\ loose \subseteq Pkg

LEMMA ConfigKept ==
  ASSUME ConfigType, UNCHANGED config
  PROVE  ConfigType'
BY DEF ConfigType, config

LEMMA RunType ==
  ASSUME TypeOK, NEW kind \in Kinds, NEW goal \in SUBSET Stamp, NEW at \in 0..MaxEdits,
         NEW clean \in Seq(Stamp), Run(kind, goal, at, clean), settled' \subseteq Pkg
  PROVE  TypeOK'
<1>1. cmd' \in Command
  BY DEF Run, Command
<1>2. stack' = <<>> /\ seen' = {} /\ busy' = FALSE
  BY DEF Run
<1>3. todo' \in Seq(Stamp) /\ status' \in {"ready", "run", "ok", "failed"}
  BY DEF Run
<1>4. UNCHANGED <<stamp, stale, prod, ver, torn, config, src, faults>>
  BY DEF Run, files
<1>5. busy' \in BOOLEAN
  BY <1>2, Zenon
<1>6. stack' \in Seq(Stamp) /\ seen' \subseteq Stamp
  BY <1>2
<1>7. /\ stamp' \subseteq Stamp /\ stale' \subseteq stamp' /\ torn' \subseteq Pkg
      /\ prod' \in [Stamp -> {"none", "partial", "done"}]
      /\ ver' \in [Stamp -> 0..MaxEdits] /\ src' \in [Pkg -> 0..MaxEdits]
      /\ faults' \in 0..MaxFaults
  BY <1>4 DEF TypeOK
<1>8. ConfigType'
  BY <1>4, ConfigKept DEF TypeOK, ConfigType
<1> QED
  BY <1>1, <1>3, <1>5, <1>6, <1>7, <1>8 DEF TypeOK, ConfigType

LEMMA StopType ==
  ASSUME TypeOK, NEW result \in {"ok", "failed"}, Stop(result)
  PROVE  /\ cmd' \in Command
         /\ status' \in {"ready", "run", "ok", "failed"}
         /\ todo' \in Seq(Stamp) /\ stack' \in Seq(Stamp) /\ seen' \subseteq Stamp
         /\ busy' \in BOOLEAN
<1>1. NoCommand \in Command
  BY PkgAssumption DEF NoCommand, Command, Kinds, Again
<1>2. cmd' \in Command
  BY <1>1 DEF Stop, TypeOK
<1>3. todo' \in Seq(Stamp) /\ stack' \in Seq(Stamp)
  BY DEF Stop
<1> QED
  BY <1>2, <1>3 DEF Stop

(* The state always has the declared types.                                *)
LEMMA TypeStep == TypeOK /\ RunShape /\ [Next]_vars => TypeOK'
<1> SUFFICES ASSUME TypeOK, RunShape, [Next]_vars PROVE TypeOK'
  OBVIOUS
<1>1. ASSUME MakeAll PROVE TypeOK'
  <2>1. (UNION {Installs(p) : p \in Pkg}) \subseteq Stamp
    BY InstallsStamp
  <2>2. <<>> \in Seq(Stamp) /\ 0 \in 0..MaxEdits /\ settled' \subseteq Pkg
    BY <1>1, PkgAssumption DEF MakeAll, TypeOK
  <2> QED
    BY <1>1, <2>1, <2>2, RunType DEF MakeAll, Kinds, Again
<1>2. ASSUME NEW p \in Pkg, NEW s \in Step, MakeStep(p, s) PROVE TypeOK'
  <2>1. {<<p, s>>} \subseteq Stamp
    BY DEF Stamp
  <2>2. <<>> \in Seq(Stamp) /\ 0 \in 0..MaxEdits /\ settled' \subseteq Pkg
    BY <1>2, PkgAssumption DEF MakeStep, TypeOK
  <2> QED
    BY <1>2, <2>1, <2>2, RunType DEF MakeStep, Kinds, Again
<1>3. ASSUME NEW p \in Pkg, NEW kind \in Again,
             MakeAgain(p, kind)
      PROVE TypeOK'
  <2>1. kind \in Kinds
    BY DEF Kinds, Again
  <2>2. CleanFor(p, kind) \in Seq(Stamp)
    BY <2>1, CleanForSeq
  <2>3. src[p] \in 0..MaxEdits /\ settled' \subseteq Pkg /\ Installs(p) \subseteq Stamp
    BY <1>3, InstallsStamp DEF MakeAgain, TypeOK
  <2> QED
    BY <1>3, <2>1, <2>2, <2>3, RunType DEF MakeAgain
<1>4. NoCommand \in Command
  BY PkgAssumption DEF NoCommand, Command, Kinds, Again
<1>5. ASSUME NEW p \in Pkg, Dirclean(p) \/ DircleanCut(p) PROVE TypeOK'
  <2>1. stamp' \subseteq Stamp /\ stale' \subseteq stamp' /\ settled' \subseteq Pkg
    BY <1>5 DEF Dirclean, DircleanCut, ForgetTree, TypeOK
  <2>2. prod' \in [Stamp -> {"none", "partial", "done"}] /\ torn' \subseteq Pkg
    BY <1>5 DEF Dirclean, DircleanCut, TypeOK
  <2>3. ver' \in [Stamp -> 0..MaxEdits] /\ faults' \in 0..MaxFaults
    <3>1. CASE Dirclean(p)
      BY <3>1, PkgAssumption DEF Dirclean, TypeOK
    <3>2. CASE DircleanCut(p)
      <4>1. ver' = ver /\ faults' = faults + 1 /\ faults < MaxFaults
        BY <3>2 DEF DircleanCut
      <4> QED
        BY <4>1, PkgAssumption DEF TypeOK
    <3> QED
      BY <1>5, <3>1, <3>2
  <2>4. ConfigType'
    <3>1. CASE Dirclean(p)
      BY <3>1 DEF Dirclean, ForgetTree, TypeOK, ConfigType
    <3>2. CASE DircleanCut(p)
      <4>1. custom' = custom /\ conf' = conf /\ loose' = loose \ {p}
        BY <3>2 DEF DircleanCut, ForgetTree
      <4>2. PICK c \in {dot[p], Half} : dot' = [dot EXCEPT ![p] = c]
        BY <3>2 DEF DircleanCut
      <4> QED
        BY <4>1, <4>2 DEF TypeOK, ConfigType
    <3> QED
      BY <1>5, <3>1, <3>2
  <2>5. /\ cmd' = NoCommand /\ status' = "ready"
        /\ UNCHANGED <<src, todo, stack, seen, busy>>
    BY <1>5 DEF Dirclean, DircleanCut, ForgetTree
  <2> QED
    BY <1>4, <2>1, <2>2, <2>3, <2>4, <2>5 DEF TypeOK, ConfigType
<1>6. ASSUME NEW p \in Pkg, Edit(p) PROVE TypeOK'
  BY <1>6, PkgAssumption DEF Edit, TypeOK, files, config, session
<1>7. ASSUME CleanStamp PROVE TypeOK'
  <2>1. ConfigType'
    BY <1>7 DEF CleanStamp, TypeOK, ConfigType
  <2>2. stamp' \subseteq Stamp /\ stale' \subseteq stamp' /\ todo' \in Seq(Stamp)
    BY <1>7 DEF CleanStamp, TypeOK
  <2> QED
    BY <1>7, <2>1, <2>2 DEF CleanStamp, TypeOK, ConfigType
<1>8. ASSUME NEW x \in Stamp, Descend(x) PROVE TypeOK'
  BY <1>8 DEF Descend, TypeOK, files, config
<1>9. ASSUME NEW x \in Stamp, Skip(x) PROVE TypeOK'
  <2>1. stack' \in Seq(Stamp)
    BY <1>9, TopPop DEF Skip, AtTop, Pop, TypeOK
  <2> QED
    BY <1>9, <2>1 DEF Skip, TypeOK, files, config
<1>10. ASSUME NEW x \in Stamp, StartStep(x) PROVE TypeOK'
  <2>1. ConfigType'
    BY <1>10 DEF StartStep, TypeOK, ConfigType
  <2>2. prod' \in [Stamp -> {"none", "partial", "done"}] /\ ver' \in [Stamp -> 0..MaxEdits]
    BY <1>10, PkgAssumption DEF StartStep, TypeOK
  <2>3. busy' \in BOOLEAN
    BY <1>10, Zenon DEF StartStep
  <2> QED
    BY <1>10, <2>1, <2>2, <2>3 DEF StartStep, TypeOK, ConfigType
<1>11. ASSUME NEW x \in Stamp, RefuseStep(x) PROVE TypeOK'
  BY <1>11, StopType DEF RefuseStep, TypeOK, files, config
<1>12. ASSUME NEW x \in Stamp, FinishStep(x) PROVE TypeOK'
  <2>1. stack' \in Seq(Stamp)
    BY <1>12, TopPop DEF FinishStep, RunShape, Pop, TypeOK
  <2>2. InputVer(x) \in 0..MaxEdits
    BY PkgAssumption DEF InputVer, Stamp, Step, TreeStep, TypeOK
  <2>3. stamp' \subseteq Stamp /\ stale' \subseteq stamp'
    BY <1>12 DEF FinishStep, Touch, TypeOK
  <2>4. ConfigType'
    <3>1. InputConf(x) \in Configs \cup {Half}
      BY DEF InputConf, Stamp, Step, TypeOK
    <3>2. NewDot(x) \in [Pkg -> Configs \cup {Half}]
      BY DEF NewDot, Stamp, TypeOK
    <3>3. loose' \subseteq Pkg
      BY <1>12 DEF FinishStep, TypeOK
    <3> QED
      BY <1>12, <3>1, <3>2, <3>3 DEF FinishStep, TypeOK, ConfigType
  <2> QED
    BY <1>12, <2>1, <2>2, <2>3, <2>4 DEF FinishStep, TypeOK, ConfigType
<1>13. ASSUME FailStep \/ Interrupt PROVE TypeOK'
  <2>1. Stop("failed") /\ faults' \in 0..MaxFaults
    BY <1>13, PkgAssumption DEF FailStep, Interrupt, TypeOK
  <2> QED
    BY <1>13, <2>1, StopType DEF FailStep, Interrupt, TypeOK, files, config
<1>14. ASSUME Succeed PROVE TypeOK'
  BY <1>14, StopType DEF Succeed, TypeOK, files, config
<1>15. ASSUME UNCHANGED vars PROVE TypeOK'
  BY <1>15 DEF vars, config, TypeOK
<1>16. ASSUME NEW p \in Pkg, EditCustom(p) \/ UpdateConfig(p) \/ UpdateCut(p)
       PROVE  TypeOK'
  <2>1. ConfigType'
    <3>1. dot' = dot /\ conf' = conf /\ loose' = loose
      BY <1>16 DEF EditCustom, UpdateConfig, UpdateCut
    <3>2. \E c \in Configs \cup {dot[p], Half} : custom' = [custom EXCEPT ![p] = c]
      BY <1>16 DEF EditCustom, UpdateConfig, UpdateCut
    <3> QED
      BY <3>1, <3>2 DEF TypeOK, ConfigType
  <2>2. /\ stale' \subseteq stamp' /\ settled' \subseteq Pkg /\ torn' \subseteq Pkg
        /\ faults' \in 0..MaxFaults /\ cmd' \in Command
    BY <1>4, <1>16, PkgAssumption DEF EditCustom, UpdateConfig, UpdateCut, TypeOK
  <2> QED
    BY <1>16, <2>1, <2>2 DEF EditCustom, UpdateConfig, UpdateCut, TypeOK, ConfigType
<1>17. ASSUME NEW p \in Pkg, Editor(p) PROVE TypeOK'
  <2>1. {<<p, "fixup">>} \subseteq Stamp
    BY DEF Stamp, Step
  <2>2. <<>> \in Seq(Stamp) /\ 0 \in 0..MaxEdits /\ settled' \subseteq Pkg
    BY <1>17, PkgAssumption DEF Editor, TypeOK
  <2> QED
    BY <1>17, <2>1, <2>2, RunType DEF Editor, Kinds, Again
<1>18. ASSUME NEW p \in Pkg, EditorExits(p) PROVE TypeOK'
  <2>1. ConfigType'
    BY <1>18 DEF EditorExits, TypeOK, ConfigType
  <2>2. cmd' \in Command
    BY <1>18 DEF EditorExits, TypeOK, Command, Kinds, Again
  <2>3. todo' \in Seq(Stamp) /\ seen' \subseteq Stamp
    BY <1>18, EditorCleanSeq DEF EditorExits
  <2> QED
    BY <1>18, <2>1, <2>2, <2>3 DEF EditorExits, TypeOK, ConfigType
<1>19. ASSUME NEW p \in Pkg, ApplyFixup(p) PROVE TypeOK'
  <2>1. <<p, "fixup">> \in Stamp
    BY DEF Stamp, Step
  <2>2. /\ stamp' \subseteq Stamp /\ stale' \subseteq stamp'
        /\ prod' \in [Stamp -> {"none", "partial", "done"}]
    BY <1>19, <2>1 DEF ApplyFixup, Touch, TypeOK
  <2>3. ConfigType'
    BY <1>19, ConfigKept DEF ApplyFixup, TypeOK, ConfigType
  <2> QED
    BY <1>19, <2>2, <2>3, StopType DEF ApplyFixup, TypeOK, ConfigType
<1> QED
  BY <1>1, <1>2, <1>3, <1>5, <1>6, <1>7, <1>8, <1>9, <1>10, <1>11, <1>12, <1>13,
     <1>14, <1>15, <1>16, <1>17, <1>18, <1>19 DEF Next, User, Make, Fault

LEMMA StopInv ==
  ASSUME IInv, NEW result \in {"ok", "failed"}, Stop(result), UNCHANGED files
  PROVE  (RunShape /\ StampMeansDone /\ SeenDone)'
<1>1. RunShape'
  BY DEF RunShape, Stop
<1>2. StampMeansDone'
  BY DEF IInv, StampMeansDone, files
<1>3. SeenDone'
  BY DEF SeenDone, Stop
<1> QED
  BY <1>1, <1>2, <1>3

LEMMA RunInv ==
  ASSUME IInv, NEW kind, NEW goal, NEW at, NEW clean, Run(kind, goal, at, clean)
  PROVE  (RunShape /\ StampMeansDone /\ SeenDone)'
<1>1. RunShape'
  BY DEF RunShape, Run
<1>2. StampMeansDone'
  BY DEF IInv, StampMeansDone, files, Run
<1>3. SeenDone'
  BY DEF SeenDone, Run
<1> QED
  BY <1>1, <1>2, <1>3

LEMMA InvStep == IInv /\ [Next]_vars => (RunShape /\ StampMeansDone /\ SeenDone)'
<1> SUFFICES ASSUME IInv, [Next]_vars PROVE (RunShape /\ StampMeansDone /\ SeenDone)'
  OBVIOUS
<1>1. CASE \/ MakeAll
           \/ \E p \in Pkg, s \in Step : MakeStep(p, s)
           \/ \E p \in Pkg, k \in Again : MakeAgain(p, k)
  BY <1>1, RunInv DEF MakeAll, MakeStep, MakeAgain
<1>2. ASSUME NEW p \in Pkg, Dirclean(p) \/ DircleanCut(p)
      PROVE  (RunShape /\ StampMeansDone /\ SeenDone)'
  <2>1. seen = {} /\ stack = <<>> /\ todo = <<>> /\ ~busy
    BY <1>2 DEF Dirclean, DircleanCut, ForgetTree, Idle, IInv, RunShape
  <2>2. seen' = {} /\ stack' = <<>> /\ todo' = <<>> /\ ~busy'
    BY <1>2, <2>1 DEF Dirclean, DircleanCut, ForgetTree
  <2>3. StampMeansDone'
    <3> SUFFICES ASSUME NEW x \in stamp', x \notin stale', x[1] \notin torn'
                 PROVE  prod'[x] = "done"
      BY DEF StampMeansDone
    <3>1. x \in Stamp /\ x \in stamp /\ x \notin stale /\ x[1] /= p /\ x[1] \notin torn
      BY <1>2 DEF Dirclean, DircleanCut, ForgetTree, IInv, TypeOK, Stamp
    <3>2. prod'[x] = prod[x]
      BY <1>2, <3>1 DEF Dirclean, DircleanCut
    <3> QED
      BY <3>1, <3>2 DEF IInv, StampMeansDone
  <2> QED
    BY <2>2, <2>3 DEF RunShape, SeenDone
<1>3. ASSUME NEW p \in Pkg, Edit(p) PROVE (RunShape /\ StampMeansDone /\ SeenDone)'
  BY <1>3 DEF Edit, files, session, IInv, RunShape, StampMeansDone, SeenDone, UpToDate, Top
<1>4. ASSUME CleanStamp PROVE (RunShape /\ StampMeansDone /\ SeenDone)'
  <2>1. seen' = {} /\ stack' = <<>> /\ ~busy' /\ status' = "run"
    BY <1>4 DEF CleanStamp, IInv, RunShape
  <2>2. StampMeansDone'
    BY <1>4 DEF CleanStamp, IInv, StampMeansDone
  <2> QED
    BY <2>1, <2>2 DEF RunShape, SeenDone
<1>5. ASSUME NEW x \in Stamp, Descend(x) PROVE (RunShape /\ StampMeansDone /\ SeenDone)'
  <2>1. RunShape'
    BY <1>5 DEF Descend, Considering, IInv, RunShape
  <2> QED
    BY <1>5, <2>1 DEF Descend, files, IInv, StampMeansDone, SeenDone, UpToDate
<1>6. ASSUME NEW x \in Stamp, Skip(x) PROVE (RunShape /\ StampMeansDone /\ SeenDone)'
  <2>1. RunShape'
    BY <1>6 DEF Skip, AtTop, Considering, IInv, RunShape
  <2>2. x[1] \notin torn => prod[x] = "done"
    BY <1>6 DEF Skip, UpToDate, IInv, StampMeansDone
  <2>3. SeenDone'
    BY <1>6, <2>2 DEF Skip, AtTop, files, IInv, SeenDone, UpToDate
  <2> QED
    BY <1>6, <2>1, <2>3 DEF Skip, files, IInv, StampMeansDone
<1>7. ASSUME NEW x \in Stamp, StartStep(x) PROVE (RunShape /\ StampMeansDone /\ SeenDone)'
  <2>1. RunShape'
    BY <1>7 DEF StartStep, AtTop, Considering, UpToDate, Top, IInv, RunShape
  <2>2. x \notin seen
    BY <1>7 DEF StartStep, IInv, SeenDone
  <2>3. \A y \in Stamp \ {x} : prod'[y] = prod[y]
    BY <1>7 DEF StartStep, IInv, TypeOK
  <2>4. SeenDone'
    BY <1>7, <2>2, <2>3 DEF StartStep, IInv, SeenDone, UpToDate, TypeOK
  <2>5. StampMeansDone'
    BY <1>7, <2>3 DEF StartStep, IInv, StampMeansDone, UpToDate, TypeOK
  <2> QED
    BY <2>1, <2>4, <2>5
<1>8. ASSUME NEW x \in Stamp, FinishStep(x) PROVE (RunShape /\ StampMeansDone /\ SeenDone)'
  <2>1. Prereqs(x) \subseteq seen /\ x \notin seen
    BY <1>8 DEF FinishStep, IInv, RunShape, SeenDone
  <2>2. status = "run" /\ todo = <<>>
    BY <1>8 DEF FinishStep, IInv, RunShape
  <2>3. RunShape'
    BY <1>8, <2>2 DEF FinishStep, RunShape
  <2>4. prod'[x] = "done" /\ \A y \in Stamp \ {x} : prod'[y] = prod[y]
    BY <1>8 DEF FinishStep, IInv, TypeOK
  <2>5. x \in stamp' /\ x \notin stale'
    BY <1>8 DEF FinishStep, Touch
  <2>6. ASSUME NEW y \in seen PROVE y \in stamp' /\ y \notin stale'
    <3>1. x \notin Normal(y)
      BY <2>1, <2>6 DEF IInv, SeenDone, Prereqs
    <3> QED
      BY <1>8, <3>1, <2>6 DEF FinishStep, Touch, IInv, SeenDone, UpToDate
  <2>7. SeenDone'
    BY <1>8, <2>1, <2>4, <2>5, <2>6 DEF FinishStep, IInv, SeenDone, UpToDate, TypeOK
  <2>8. StampMeansDone'
    BY <1>8, <2>4 DEF FinishStep, Touch, IInv, StampMeansDone, TypeOK
  <2> QED
    BY <2>3, <2>7, <2>8
<1>9. ASSUME \/ \E x \in Stamp : RefuseStep(x)
             \/ FailStep \/ Interrupt \/ Succeed
      PROVE  (RunShape /\ StampMeansDone /\ SeenDone)'
  <2>1. UNCHANGED files /\ \E result \in {"ok", "failed"} : Stop(result)
    BY <1>9 DEF RefuseStep, FailStep, Interrupt, Succeed, files
  <2> QED
    BY <2>1, StopInv
<1>10. CASE UNCHANGED vars
  BY <1>10 DEF vars, IInv, RunShape, StampMeansDone, SeenDone, UpToDate, Top
<1>11. ASSUME NEW p \in Pkg, EditCustom(p) \/ UpdateConfig(p) \/ UpdateCut(p)
       PROVE  (RunShape /\ StampMeansDone /\ SeenDone)'
  <2>1. seen = {} /\ stack = <<>> /\ todo = <<>> /\ ~busy
    BY <1>11 DEF EditCustom, UpdateConfig, UpdateCut, Idle, IInv, RunShape
  <2>2. seen' = {} /\ stack' = <<>> /\ todo' = <<>> /\ ~busy'
    BY <1>11, <2>1 DEF EditCustom, UpdateConfig, UpdateCut
  <2>3. StampMeansDone'
    <3> SUFFICES ASSUME NEW x \in stamp', x \notin stale', x[1] \notin torn'
                 PROVE  prod'[x] = "done"
      BY DEF StampMeansDone
    <3>1. x \in stamp /\ x[1] \notin torn /\ prod' = prod
      BY <1>11 DEF EditCustom, UpdateConfig, UpdateCut
    <3>2. CASE x \notin stale
      BY <3>1, <3>2 DEF IInv, StampMeansDone
    <3>3. CASE x \in stale
      <4>1. x = <<p, "dotconfig">> /\ UpdateConfig(p)
        BY <1>11, <3>3 DEF EditCustom, UpdateConfig, UpdateCut
      <4>2. p \notin torn'
        BY <4>1
      <4> QED
        BY <3>1, <4>1, <4>2 DEF UpdateConfig
    <3> QED
      BY <3>2, <3>3
  <2> QED
    BY <2>2, <2>3 DEF RunShape, SeenDone
<1>12. ASSUME NEW p \in Pkg, Editor(p) PROVE (RunShape /\ StampMeansDone /\ SeenDone)'
  BY <1>12, RunInv DEF Editor
<1>13. ASSUME NEW p \in Pkg, EditorExits(p)
       PROVE  (RunShape /\ StampMeansDone /\ SeenDone)'
  <2>1. seen' = {} /\ stack' = <<>> /\ ~busy' /\ status' = "run"
    BY <1>13 DEF EditorExits, Considering
  <2>2. StampMeansDone'
    BY <1>13 DEF EditorExits, IInv, StampMeansDone
  <2> QED
    BY <2>1, <2>2 DEF RunShape, SeenDone
<1>14. ASSUME NEW p \in Pkg, ApplyFixup(p)
       PROVE  (RunShape /\ StampMeansDone /\ SeenDone)'
  <2>1. RunShape'
    BY <1>14 DEF ApplyFixup, Stop, RunShape
  <2>2. <<p, "fixup">> \in Stamp
    BY DEF Stamp, Step
  <2>3. /\ prod'[<<p, "fixup">>] = "done"
        /\ \A y \in Stamp \ {<<p, "fixup">>} : prod'[y] = prod[y]
    BY <1>14, <2>2 DEF ApplyFixup, IInv, TypeOK
  <2>4. StampMeansDone'
    BY <1>14, <2>3 DEF ApplyFixup, Touch, IInv, StampMeansDone, TypeOK
  <2>5. SeenDone'
    BY <1>14 DEF ApplyFixup, Stop, SeenDone
  <2> QED
    BY <2>1, <2>4, <2>5
<1> QED
  BY <1>1, <1>2, <1>3, <1>4, <1>5, <1>6, <1>7, <1>8, <1>9, <1>10, <1>11, <1>12,
     <1>13, <1>14 DEF Next, User, Make, Fault

LEMMA InitInv == Init => IInv
<1> SUFFICES ASSUME Init PROVE IInv
  OBVIOUS
<1>1. NoCommand \in Command /\ <<>> \in Seq(Stamp)
  BY PkgAssumption DEF NoCommand, Command, Kinds, Again
<1>2. busy \in BOOLEAN
  BY Zenon DEF Init
<1>3. TypeOK
  BY <1>1, <1>2, PkgAssumption DEF Init, TypeOK
<1> QED
  BY <1>3 DEF Init, IInv, RunShape, StampMeansDone, SeenDone

LEMMA Inductive == Spec => []IInv
<1>1. IInv /\ [Next]_vars => IInv'
  BY TypeStep, InvStep DEF IInv
<1> QED
  BY InitInv, <1>1, PTL DEF Spec

\* Type correctness: PkgBuild never leaves the declared state space.
THEOREM TypeCorrect == Spec => []TypeOK
<1>1. IInv => TypeOK
  BY DEF IInv
<1> QED
  BY <1>1, Inductive, PTL

\* A stamp that is in place and not out of date vouches for a completed step,
\* through every interruption of make and every clean but a torn dirclean.
THEOREM StampsVouch == Spec => []StampMeansDone
<1>1. IInv => StampMeansDone
  BY DEF IInv
<1> QED
  BY <1>1, Inductive, PTL

-----------------------------------------------------------------------------
(* The build order.                                                        *)

\* A package reaches its configure step, hence any later one, only over its
\* own earlier steps and its dependencies' installations.
LEMMA LatePrereqs ==
  ASSUME IInv, NEW x \in Stamp, x[2] \in Late, Prereqs(x) \subseteq seen
  PROVE  \A q \in BuildDeps[x[1]] : Installs(q) \subseteq seen
<1> DEFINE p == x[1]
<1>0. p \in Pkg /\ x = <<p, x[2]>> /\ x[2] \in Step
  BY DEF Stamp
<1>1. \A y \in seen : Prereqs(y) \subseteq seen
  BY DEF IInv, SeenDone
<1>2. Prereqs(<<p, "configured">>) \subseteq seen
  <2>1. CASE x[2] = "configured"
    BY <1>0, <2>1
  <2>2. CASE x[2] = "built"
    <3>1. <<p, "configured">> \in Prereqs(x)
      BY <1>0, <2>2 DEF Prereqs, Normal
    <3> QED
      BY <1>1, <3>1
  <2>3. CASE x[2] \in {"staging", "target", "images", "host"}
    <3>1. <<p, "built">> \in Prereqs(x)
      BY <1>0, <2>3 DEF Prereqs, Normal
    <3>2. <<p, "configured">> \in Prereqs(<<p, "built">>)
      BY <1>0 DEF Prereqs, Normal
    <3> QED
      BY <1>1, <3>1, <3>2
  <2> QED
    BY <2>1, <2>2, <2>3 DEF Late
<1>3. \A q \in Deps[p] : Installs(q) \subseteq Prereqs(<<p, "configured">>)
  BY <1>0 DEF Prereqs, OrderOnly
<1>4. ASSUME p \notin Override, NEW q \in DownloadDeps[p] \cup ExtractDeps[p]
      PROVE  Installs(q) \subseteq seen
  <2>1. <<p, "patched">> \in Prereqs(<<p, "configured">>)
    BY <1>0, <1>4 DEF Prereqs, Normal
  <2>2. <<p, "extracted">> \in Prereqs(<<p, "patched">>)
    BY <1>0 DEF Prereqs, Normal
  <2>3. <<p, "downloaded">> \in Prereqs(<<p, "extracted">>)
    BY <1>0 DEF Prereqs, Normal
  <2>4. <<p, "extracted">> \in seen /\ <<p, "downloaded">> \in seen
    BY <1>1, <1>2, <2>1, <2>2, <2>3
  <2>5. Installs(q) \subseteq Prereqs(<<p, "downloaded">>) \cup Prereqs(<<p, "extracted">>)
    BY <1>0, <1>4 DEF Prereqs, OrderOnly
  <2> QED
    BY <1>1, <2>4, <2>5
<1> QED
  BY <1>0, <1>2, <1>3, <1>4 DEF BuildDeps

\* What a late step needs, directly or not, is among the targets make is done
\* with: that set of packages is closed under BuildDeps.
LEMMA NeededSeen ==
  ASSUME IInv, NEW x \in Stamp, x[2] \in Late, Prereqs(x) \subseteq seen
  PROVE  \A q \in Needed[x[1]] : q \in Pkg /\ Installs(q) \subseteq seen
<1> DEFINE S == {q \in Pkg : Installs(q) \subseteq seen}
<1>0. x[1] \in Pkg
  BY DEF Stamp
<1>1. \A q \in Pkg : BuildDeps[q] \subseteq Pkg
  BY PkgAssumption DEF BuildDeps
<1>2. BuildDeps[x[1]] \subseteq S
  BY <1>0, <1>1, LatePrereqs
<1>3. ASSUME NEW r \in S PROVE BuildDeps[r] \subseteq S
  <2>1. CASE InstallSteps(r) = {}
    BY <2>1 DEF BuildDeps
  <2>2. CASE InstallSteps(r) /= {}
    <3>1. PICK s \in InstallSteps(r) : TRUE
      BY <2>2
    <3>2. s \in Late
      BY <3>1 DEF InstallSteps, Late
    <3>3. <<r, s>> \in Stamp /\ <<r, s>> \in seen
      BY <3>1, InstallsStamp DEF Installs
    <3>4. Prereqs(<<r, s>>) \subseteq seen
      BY <3>3 DEF IInv, SeenDone
    <3> QED
      BY <1>1, <3>2, <3>3, <3>4, LatePrereqs
  <2> QED
    BY <2>1, <2>2
<1>4. S \in SUBSET Pkg
  OBVIOUS
<1>5. Needed[x[1]] \subseteq S
  <2>1. Needed[x[1]] = Reach(BuildDeps, x[1])
    BY <1>0 DEF Needed
  <2> HIDE DEF S
  <2> QED
    BY <2>1, <1>2, <1>3, <1>4 DEF Reach
<1> QED
  BY <1>5

LEMMA SeenComplete ==
  ASSUME IInv, NEW q \in Pkg \ torn, Installs(q) \subseteq seen
  PROVE  \A y \in Installs(q) : Complete(y)
BY DEF IInv, SeenDone, UpToDate, Complete, Installs

\* No package is configured, built or installed before everything it depends
\* on, directly or through other packages, is completely installed.
THEOREM BuildOrder == Spec => []DepsInstalled
<1>1. IInv => DepsInstalled
  <2> SUFFICES ASSUME IInv, busy, Top[2] \in Late, NEW q \in Needed[Top[1]] \ torn
               PROVE  \A y \in Installs(q) : Complete(y)
    BY DEF DepsInstalled
  <2>1. Top \in Stamp /\ Prereqs(Top) \subseteq seen
    BY TopPop DEF IInv, RunShape, Top, TypeOK
  <2>2. q \in Pkg /\ Installs(q) \subseteq seen
    BY <2>1, NeededSeen
  <2> QED
    BY <2>2, SeenComplete
<1> QED
  BY <1>1, Inductive, PTL

\* What can come of a step as long as make has reported a success: it does not
\* change what is known of it.
LEMMA SuccessSteps ==
  ASSUME IInv, [Next]_vars
  PROVE  \/ UNCHANGED <<status, cmd, files>> \/ Succeed \/ status' /= "ok"
         \/ \E p \in Pkg : ApplyFixup(p)
<1>1. CASE UNCHANGED vars
  BY <1>1 DEF vars, files, config
<1>2. CASE MakeAll \/ (\E p \in Pkg, s \in Step : MakeStep(p, s))
  BY <1>2 DEF MakeAll, MakeStep, Run
<1>3. ASSUME NEW p \in Pkg, \/ \E kind \in Again : MakeAgain(p, kind)
                           \/ Editor(p)
      PROVE  status' /= "ok"
  BY <1>3 DEF MakeAgain, Editor, Run
<1>4. ASSUME NEW p \in Pkg, Dirclean(p) \/ DircleanCut(p) PROVE status' /= "ok"
  BY <1>4 DEF Dirclean, DircleanCut, ForgetTree
<1>5. ASSUME NEW p \in Pkg, Edit(p) PROVE UNCHANGED <<status, cmd, files>>
  BY <1>5 DEF Edit, session
<1>6. ASSUME NEW p \in Pkg, EditCustom(p) \/ UpdateConfig(p) \/ UpdateCut(p) PROVE status' /= "ok"
  BY <1>6 DEF EditCustom, UpdateConfig, UpdateCut
<1>7. CASE CleanStamp
  BY <1>7 DEF CleanStamp
<1>8. ASSUME NEW x \in Stamp, Descend(x) \/ Skip(x) \/ StartStep(x) \/ RefuseStep(x) PROVE status' /= "ok"
  BY <1>8 DEF Descend, Skip, StartStep, RefuseStep, AtTop, Considering, Stop
<1>9. ASSUME NEW x \in Stamp, FinishStep(x) PROVE status' /= "ok"
  BY <1>9 DEF FinishStep, IInv, RunShape
<1>10. ASSUME NEW p \in Pkg, EditorExits(p) PROVE status' /= "ok"
  BY <1>10 DEF EditorExits, Considering
<1>11. CASE Fault
  BY <1>11 DEF Fault, FailStep, Interrupt, Stop
<1> QED
  BY <1>1, <1>2, <1>3, <1>4, <1>5, <1>6, <1>7, <1>8, <1>9, <1>10, <1>11 DEF Next, User, Make

\* A make that reports success leaves its goals complete, and everything they
\* depend on completely installed.
THEOREM SuccessSound == Spec => []SuccessMeansInstalled
<1>1. Init => SuccessMeansInstalled
  BY DEF Init, SuccessMeansInstalled
<1>2. ASSUME IInv, SuccessMeansInstalled, [Next]_vars PROVE SuccessMeansInstalled'
  <2>1. CASE UNCHANGED <<status, cmd, files>>
    BY <2>1, <1>2 DEF SuccessMeansInstalled, Complete, files
  <2>2. CASE Succeed
    <3> SUFFICES ASSUME NEW x \in cmd.goal
                 PROVE  /\ x[1] \notin torn => Complete(x)
                        /\ x[2] \in Late =>
                             \A q \in Needed[x[1]] \ torn : \A y \in Installs(q) : Complete(y)
      BY <2>2 DEF Succeed, Stop, files, SuccessMeansInstalled, Complete
    <3>1. x \in Stamp /\ x \in seen
      BY <1>2, <2>2 DEF Succeed, IInv, TypeOK, Command
    <3>2. x[1] \notin torn => Complete(x)
      BY <1>2, <3>1 DEF IInv, SeenDone, UpToDate, Complete
    <3>3. ASSUME x[2] \in Late, NEW q \in Needed[x[1]] \ torn
          PROVE  \A y \in Installs(q) : Complete(y)
      <4>1. Prereqs(x) \subseteq seen
        BY <1>2, <3>1 DEF IInv, SeenDone
      <4>2. q \in Pkg /\ Installs(q) \subseteq seen
        BY <1>2, <3>1, <3>3, <4>1, NeededSeen
      <4> QED
        BY <1>2, <3>3, <4>2, SeenComplete
    <3> QED
      BY <3>2, <3>3
  <2>3. CASE status' /= "ok"
    BY <2>3 DEF SuccessMeansInstalled
  <2>4. ASSUME NEW p \in Pkg, ApplyFixup(p) PROVE SuccessMeansInstalled'
    <3>1. cmd' = cmd /\ cmd.goal = {<<p, "fixup">>} /\ <<p, "fixup">> \in Stamp
      BY <2>4 DEF ApplyFixup, Stop, Stamp, Step
    <3>2. Complete(<<p, "fixup">>)'
      BY <1>2, <2>4, <3>1 DEF ApplyFixup, Touch, Complete, IInv, TypeOK
    <3> QED
      BY <3>1, <3>2 DEF SuccessMeansInstalled, Late
  <2>5. \/ UNCHANGED <<status, cmd, files>> \/ Succeed \/ status' /= "ok"
        \/ \E p \in Pkg : ApplyFixup(p)
    BY <1>2, SuccessSteps
  <2> QED
    BY <2>1, <2>2, <2>3, <2>4, <2>5
<1> QED
  BY <1>1, <1>2, Inductive, PTL DEF Spec

-----------------------------------------------------------------------------
(* The configuration of a package *)

Fresh == stamp \ stale

Chain(p) == {<<p, "fixup">>, <<p, "configured">>, <<p, "built">>}

\* A build with nothing out of date behind it was made with the .config that is
\* there, unless that changed behind the stamps.
BuiltConf ==
    \A p \in Kconfig \ (torn \cup loose) :
        prod[<<p, "dotconfig">>] = "done" /\ Chain(p) \subseteq Fresh
        => conf[<<p, "built">>] = dot[p]

\* An installation newer than the build installed that build.
InstalledConf ==
    \A p \in Pkg : \A s \in InstallSteps(p) :
        {<<p, s>>, <<p, "built">>} \subseteq Fresh
        => conf[<<p, s>>] = conf[<<p, "built">>]

CInv == IInv /\ BuiltConf /\ InstalledConf

LEMMA StepsStamp ==
  /\ Kconfig \subseteq Pkg
  /\ \A p \in Pkg, s \in Step : <<p, s>> \in Stamp
  /\ \A p \in Pkg : InstallSteps(p) \subseteq {"host", "staging", "target", "images"}
BY PkgAssumption DEF Stamp, InstallSteps

\* Nothing is new that the stamps could be wrong about.
LEMMA NothingNew ==
  ASSUME CInv, Fresh' \subseteq Fresh, UNCHANGED <<prod, conf, dot>>,
         \A p \in Kconfig \ (torn' \cup loose') :
             p \notin torn \cup loose \/ ~(Chain(p) \subseteq Fresh')
  PROVE  BuiltConf' /\ InstalledConf'
<1>1. BuiltConf'
  <2> SUFFICES ASSUME NEW p \in Kconfig \ (torn' \cup loose'),
                      prod[<<p, "dotconfig">>] = "done", Chain(p) \subseteq Fresh'
               PROVE  conf[<<p, "built">>] = dot[p]
    BY DEF BuiltConf, Chain
  <2>1. p \in Kconfig \ (torn \cup loose) /\ Chain(p) \subseteq Fresh
    OBVIOUS
  <2> QED
    BY <2>1 DEF CInv, BuiltConf
<1>2. InstalledConf'
  BY DEF CInv, InstalledConf
<1> QED
  BY <1>1, <1>2

LEMMA FinishConf ==
  ASSUME CInv, NEW x \in Stamp, FinishStep(x)
  PROVE  BuiltConf' /\ InstalledConf'
<1>0. /\ x[1] \in Pkg /\ x[2] \in Step /\ x = <<x[1], x[2]>>
      /\ \A y \in Stamp \ {x} : conf'[y] = conf[y] /\ prod'[y] = prod[y]
      /\ conf'[x] = InputConf(x)
      /\ stamp \subseteq Stamp
  BY DEF FinishStep, CInv, IInv, TypeOK, Stamp
<1>1. \A y \in Fresh' : x \notin Normal(y) \/ y = x
  BY DEF FinishStep, Touch, Fresh
<1>2. Fresh' \subseteq Fresh \cup {x}
  BY DEF FinishStep, Touch, Fresh
<1>3. BuiltConf'
  <2> SUFFICES ASSUME NEW p \in Kconfig \ (torn' \cup loose'),
                      prod'[<<p, "dotconfig">>] = "done", Chain(p) \subseteq Fresh'
               PROVE  conf'[<<p, "built">>] = dot'[p]
    BY DEF BuiltConf, Chain
  <2>0. p \in Pkg /\ <<p, "built">> \in Stamp /\ <<p, "dotconfig">> \in Stamp
    BY StepsStamp DEF Step
  <2>1. CASE x = <<p, "built">>
    BY <1>0, <2>1, <2>0 DEF FinishStep, InputConf, NewDot
  <2>2. CASE x /= <<p, "built">>
    <3>1. x \notin {<<p, "dotconfig">>, <<p, "fixup">>, <<p, "configured">>}
      BY <1>1, <2>0 DEF Chain, Normal
    <3>2. Chain(p) \subseteq Fresh /\ prod[<<p, "dotconfig">>] = "done"
      BY <1>0, <1>2, <2>0, <2>2, <3>1 DEF Chain
    <3>3. p \notin torn \cup loose
      BY <1>0, <2>2 DEF FinishStep
    <3>4. dot'[p] = dot[p]
      BY <1>0, <2>0, <3>1 DEF FinishStep, NewDot, CInv, IInv, TypeOK
    <3> QED
      BY <1>0, <2>0, <2>2, <3>2, <3>3, <3>4 DEF CInv, BuiltConf
  <2> QED
    BY <2>1, <2>2
<1>4. InstalledConf'
  <2> SUFFICES ASSUME NEW p \in Pkg, NEW s \in InstallSteps(p),
                      {<<p, s>>, <<p, "built">>} \subseteq Fresh'
               PROVE  conf'[<<p, s>>] = conf'[<<p, "built">>]
    BY DEF InstalledConf
  <2>0. /\ s \in {"host", "staging", "target", "images"}
        /\ <<p, "built">> \in Stamp /\ <<p, s>> \in Stamp
    BY StepsStamp DEF Step
  <2>1. <<p, "built">> \in Normal(<<p, s>>) /\ <<p, "built">> /= <<p, s>>
    BY <2>0 DEF Normal
  <2>2. x /= <<p, "built">>
    BY <1>1, <2>1
  <2>3. CASE x = <<p, s>>
    <3>1. InputConf(x) = conf[<<p, "built">>]
      BY <2>0, <2>3 DEF InputConf
    <3> QED
      BY <1>0, <2>0, <2>2, <2>3, <3>1
  <2>4. CASE x /= <<p, s>>
    BY <1>0, <1>2, <2>0, <2>2, <2>4 DEF CInv, InstalledConf
  <2> QED
    BY <2>3, <2>4
<1> QED
  BY <1>3, <1>4

LEMMA StartConf ==
  ASSUME CInv, NEW x \in Stamp, StartStep(x)
  PROVE  BuiltConf' /\ InstalledConf'
<1>0. /\ Fresh' = Fresh /\ x \notin Fresh
      /\ \A y \in Stamp \ {x} : conf'[y] = conf[y] /\ prod'[y] = prod[y]
      /\ prod'[x] = "partial"
      /\ x[1] \in Pkg /\ x = <<x[1], x[2]>>
      /\ UNCHANGED <<torn, loose>>
  BY DEF StartStep, UpToDate, Fresh, CInv, IInv, TypeOK, Stamp
<1>1. BuiltConf'
  <2> SUFFICES ASSUME NEW p \in Kconfig \ (torn \cup loose),
                      prod'[<<p, "dotconfig">>] = "done", Chain(p) \subseteq Fresh
               PROVE  conf'[<<p, "built">>] = dot'[p]
    BY <1>0 DEF BuiltConf, Chain
  <2>0. p \in Pkg /\ <<p, "built">> \in Stamp /\ <<p, "dotconfig">> \in Stamp
    BY StepsStamp DEF Step
  <2>1. x /= <<p, "built">> /\ x /= <<p, "dotconfig">>
    BY <1>0 DEF Chain
  <2>2. dot'[p] = dot[p]
    BY <1>0, <2>0, <2>1 DEF StartStep, CInv, IInv, TypeOK
  <2> QED
    BY <1>0, <2>0, <2>1, <2>2 DEF CInv, BuiltConf
<1>2. InstalledConf'
  <2> SUFFICES ASSUME NEW p \in Pkg, NEW s \in InstallSteps(p),
                      {<<p, s>>, <<p, "built">>} \subseteq Fresh
               PROVE  conf'[<<p, s>>] = conf'[<<p, "built">>]
    BY <1>0 DEF InstalledConf
  <2>1. <<p, "built">> \in Stamp /\ <<p, s>> \in Stamp
    BY StepsStamp DEF Step
  <2> QED
    BY <1>0, <2>1 DEF CInv, InstalledConf
<1> QED
  BY <1>1, <1>2

LEMMA ForgetConf ==
  ASSUME CInv, NEW p \in Pkg, Dirclean(p) \/ DircleanCut(p)
  PROVE  BuiltConf' /\ InstalledConf'
<1>1. CASE Dirclean(p)
  <2>0. /\ Fresh' = {y \in Fresh : y[1] /= p} /\ loose \subseteq loose' \cup {p}
        /\ torn' = torn \ {p} /\ stamp \subseteq Stamp
        /\ \A y \in Stamp : y[1] /= p => conf'[y] = conf[y] /\ prod'[y] = prod[y]
        /\ \A q \in Pkg \ {p} : dot'[q] = dot[q]
    BY <1>1 DEF Dirclean, ForgetTree, Fresh, CInv, IInv, TypeOK, Stamp
  <2>1. BuiltConf'
    <3> SUFFICES ASSUME NEW q \in Kconfig \ (torn' \cup loose'),
                        prod'[<<q, "dotconfig">>] = "done", Chain(q) \subseteq Fresh'
                 PROVE  conf'[<<q, "built">>] = dot'[q]
      BY DEF BuiltConf, Chain
    <3>1. q \in Pkg /\ q /= p /\ q \notin torn \cup loose
      BY <2>0, StepsStamp DEF Chain
    <3>2. <<q, "built">> \in Stamp /\ <<q, "dotconfig">> \in Stamp
      BY <3>1, StepsStamp DEF Step
    <3> QED
      BY <2>0, <3>1, <3>2 DEF CInv, BuiltConf
  <2>2. InstalledConf'
    <3> SUFFICES ASSUME NEW q \in Pkg, NEW s \in InstallSteps(q),
                        {<<q, s>>, <<q, "built">>} \subseteq Fresh'
                 PROVE  conf'[<<q, s>>] = conf'[<<q, "built">>]
      BY DEF InstalledConf
    <3>1. q /= p /\ <<q, "built">> \in Stamp /\ <<q, s>> \in Stamp
      BY <2>0, StepsStamp DEF Step
    <3> QED
      BY <2>0, <3>1 DEF CInv, InstalledConf
  <2> QED
    BY <2>1, <2>2
<1>2. CASE DircleanCut(p)
  <2>0. /\ Fresh' \subseteq Fresh /\ loose \subseteq loose' \cup {p}
        /\ torn' = torn \cup {p} /\ conf' = conf
        /\ \A y \in Stamp : y[1] /= p => prod'[y] = prod[y]
        /\ \A q \in Pkg \ {p} : dot'[q] = dot[q]
    BY <1>2 DEF DircleanCut, ForgetTree, Fresh, CInv, IInv, TypeOK, Stamp
  <2>1. BuiltConf'
    <3> SUFFICES ASSUME NEW q \in Kconfig \ (torn' \cup loose'),
                        prod'[<<q, "dotconfig">>] = "done", Chain(q) \subseteq Fresh'
                 PROVE  conf'[<<q, "built">>] = dot'[q]
      BY DEF BuiltConf, Chain
    <3>1. q \in Pkg /\ q /= p /\ q \notin torn \cup loose
      BY <2>0, StepsStamp
    <3>2. <<q, "dotconfig">> \in Stamp
      BY <3>1, StepsStamp DEF Step
    <3> QED
      BY <2>0, <3>1, <3>2 DEF CInv, BuiltConf
  <2>2. InstalledConf'
    BY <2>0 DEF CInv, InstalledConf
  <2> QED
    BY <2>1, <2>2
<1> QED
  BY <1>1, <1>2

\* EditCustom, UpdateConfig and UpdateCut reach no stamp but dotconfig's.
LEMMA CustomConf ==
  ASSUME CInv, NEW p \in Pkg, EditCustom(p) \/ UpdateConfig(p) \/ UpdateCut(p)
  PROVE  BuiltConf' /\ InstalledConf'
<1>0. /\ Fresh' \subseteq Fresh \cup {<<p, "dotconfig">>}
      /\ UNCHANGED <<prod, conf, dot, loose>> /\ torn \subseteq torn'
  BY DEF EditCustom, UpdateConfig, UpdateCut, Fresh
<1>1. BuiltConf'
  <2> SUFFICES ASSUME NEW q \in Kconfig \ (torn \cup loose),
                      prod[<<q, "dotconfig">>] = "done", Chain(q) \subseteq Fresh'
               PROVE  conf[<<q, "built">>] = dot[q]
    BY <1>0 DEF BuiltConf, Chain
  <2>1. Chain(q) \subseteq Fresh
    BY <1>0 DEF Chain
  <2> QED
    BY <2>1 DEF CInv, BuiltConf
<1>2. InstalledConf'
  <2> SUFFICES ASSUME NEW q \in Pkg, NEW s \in InstallSteps(q),
                      {<<q, s>>, <<q, "built">>} \subseteq Fresh'
               PROVE  conf[<<q, s>>] = conf[<<q, "built">>]
    BY <1>0 DEF InstalledConf
  <2>1. <<q, s>> \in Fresh /\ <<q, "built">> \in Fresh
    BY <1>0, StepsStamp
  <2> QED
    BY <2>1 DEF CInv, InstalledConf
<1> QED
  BY <1>1, <1>2

LEMMA EditorConf ==
  ASSUME CInv, NEW p \in Pkg, EditorExits(p) \/ ApplyFixup(p)
  PROVE  BuiltConf' /\ InstalledConf'
<1>1. CASE EditorExits(p)
  <2>0. /\ Fresh' = Fresh /\ UNCHANGED <<stamp, prod, conf, torn>>
        /\ loose \subseteq loose'
        /\ \A q \in Pkg : dot'[q] /= dot[q] => q \in loose' \/ <<q, "built">> \notin Fresh
    BY <1>1 DEF EditorExits, Fresh, CInv, IInv, TypeOK
  <2>1. BuiltConf'
    <3> SUFFICES ASSUME NEW q \in Kconfig \ (torn \cup loose'),
                        prod[<<q, "dotconfig">>] = "done", Chain(q) \subseteq Fresh
                 PROVE  conf[<<q, "built">>] = dot'[q]
      BY <2>0 DEF BuiltConf, Chain
    <3>1. dot'[q] = dot[q]
      BY <2>0, StepsStamp DEF Chain
    <3> QED
      BY <2>0, <3>1 DEF CInv, BuiltConf
  <2>2. InstalledConf'
    BY <2>0 DEF CInv, InstalledConf
  <2> QED
    BY <2>1, <2>2
<1>2. CASE ApplyFixup(p)
  <2>0. /\ Fresh' \subseteq Fresh \cup {<<p, "fixup">>}
        /\ UNCHANGED <<conf, dot, torn, loose>>
        /\ \A q \in Pkg : prod'[<<q, "dotconfig">>] = prod[<<q, "dotconfig">>]
    <3>1. \A q \in Pkg : <<q, "dotconfig">> \in Stamp /\ <<q, "dotconfig">> /= <<p, "fixup">>
      BY StepsStamp DEF Step
    <3> QED
      BY <1>2, <3>1 DEF ApplyFixup, Touch, Fresh, config, CInv, IInv, TypeOK
  <2>1. ~(Chain(p) \subseteq Fresh') \/ p \notin Kconfig
    <3>1. ASSUME p \in Kconfig PROVE <<p, "configured">> \notin Fresh'
      <4>1. <<p, "fixup">> \in Normal(<<p, "configured">>)
        BY <3>1 DEF Normal
      <4> QED
        BY <1>2, <4>1 DEF ApplyFixup, Touch, Fresh
    <3> QED
      BY <3>1 DEF Chain
  <2>2. BuiltConf'
    <3> SUFFICES ASSUME NEW q \in Kconfig \ (torn \cup loose),
                        prod'[<<q, "dotconfig">>] = "done", Chain(q) \subseteq Fresh'
                 PROVE  conf[<<q, "built">>] = dot[q]
      BY <2>0 DEF BuiltConf, Chain
    <3>1. q \in Pkg /\ q /= p
      BY <2>1, StepsStamp
    <3>2. Chain(q) \subseteq Fresh
      BY <2>0, <3>1 DEF Chain
    <3> QED
      BY <2>0, <3>1, <3>2 DEF CInv, BuiltConf
  <2>3. InstalledConf'
    <3> SUFFICES ASSUME NEW q \in Pkg, NEW s \in InstallSteps(q),
                        {<<q, s>>, <<q, "built">>} \subseteq Fresh'
                 PROVE  conf[<<q, s>>] = conf[<<q, "built">>]
      BY <2>0 DEF InstalledConf
    <3>1. <<q, s>> \in Fresh /\ <<q, "built">> \in Fresh
      BY <2>0, StepsStamp
    <3> QED
      BY <3>1 DEF CInv, InstalledConf
  <2> QED
    BY <2>2, <2>3
<1> QED
  BY <1>1, <1>2

LEMMA ConfStep == CInv /\ [Next]_vars => BuiltConf' /\ InstalledConf'
<1> SUFFICES ASSUME CInv, [Next]_vars PROVE BuiltConf' /\ InstalledConf'
  OBVIOUS
<1>1. CASE UNCHANGED files
  <2>1. Fresh' = Fresh /\ UNCHANGED <<prod, conf, dot, torn, loose>>
    BY <1>1 DEF files, config, Fresh
  <2> QED
    BY <2>1, NothingNew
<1>2. CASE CleanStamp
  <2>1. Fresh' \subseteq Fresh /\ UNCHANGED <<prod, conf, dot, torn>>
    BY <1>2 DEF CleanStamp, Fresh
  <2>2. \A p \in Kconfig : p \in loose \ loose' => <<p, "built">> \notin Fresh'
    <3>1. todo /= <<>> /\ Head(todo) \in Stamp
      BY <1>2 DEF CleanStamp, CInv, IInv, TypeOK
    <3>2. Head(todo) = <<Head(todo)[1], Head(todo)[2]>>
      BY <3>1 DEF Stamp
    <3> QED
      BY <1>2, <3>2 DEF CleanStamp, Fresh
  <2> QED
    BY <2>1, <2>2, NothingNew DEF Chain
<1>3. CASE \E x \in Stamp : StartStep(x) \/ FinishStep(x)
  BY <1>3, StartConf, FinishConf
<1>4. CASE \E p \in Pkg : Dirclean(p) \/ DircleanCut(p)
  BY <1>4, ForgetConf
<1>5. CASE \E p \in Pkg : EditCustom(p) \/ UpdateConfig(p) \/ UpdateCut(p)
  BY <1>5, CustomConf
<1>6. CASE \E p \in Pkg : EditorExits(p) \/ ApplyFixup(p)
  BY <1>6, EditorConf
<1>7. \/ UNCHANGED files \/ CleanStamp
      \/ \E x \in Stamp : StartStep(x) \/ FinishStep(x)
      \/ \E p \in Pkg : Dirclean(p) \/ DircleanCut(p)
      \/ \E p \in Pkg : EditCustom(p) \/ UpdateConfig(p) \/ UpdateCut(p)
      \/ \E p \in Pkg : EditorExits(p) \/ ApplyFixup(p)
  BY DEF Next, User, Make, Fault, MakeAll, MakeStep, MakeAgain, Editor, Run, Edit,
     Descend, Skip, RefuseStep, FailStep, Interrupt, Succeed, vars, files, config
<1> QED
  BY <1>1, <1>2, <1>3, <1>4, <1>5, <1>6, <1>7

LEMMA ConfInductive == Spec => []CInv
<1>1. Init => BuiltConf /\ InstalledConf
  BY DEF Init, BuiltConf, InstalledConf, Chain, Fresh
<1>2. CInv /\ [Next]_vars => CInv'
  BY TypeStep, InvStep, ConfStep DEF CInv, IInv
<1> QED
  BY InitInv, <1>1, <1>2, PTL DEF Spec, CInv

\* A make that reports success has installed each package with a configuration
\* as the .config or the KCONFIG_FILE that the user saved last has it.
THEOREM ConfigSound == Spec => []ConfigUsed
<1>1. Init => ConfigUsed
  BY DEF Init, ConfigUsed
<1>2. ASSUME CInv, ConfigUsed, [Next]_vars PROVE ConfigUsed'
  <2>1. CASE UNCHANGED <<status, cmd, files>>
    BY <2>1, <1>2 DEF ConfigUsed, Wanted, files, config
  <2>2. CASE Succeed
    <3> SUFFICES ASSUME NEW x \in cmd.goal, x[1] \in Kconfig \ (torn \cup loose),
                        x[2] \in InstallSteps(x[1])
                 PROVE  conf[x] = Wanted(x[1])
      BY <2>2 DEF Succeed, Stop, files, config, ConfigUsed, Wanted
    <3> DEFINE p == x[1]
    <3>0. p \in Pkg /\ x \in Stamp /\ x = <<p, x[2]>> /\ x \in seen
      BY <1>2, <2>2 DEF Succeed, CInv, IInv, TypeOK, Command, Stamp
    <3>1. \A y \in seen : UpToDate(y) /\ Prereqs(y) \subseteq seen
                           /\ (y[1] \notin torn => prod[y] = "done")
      BY <1>2 DEF CInv, IInv, SeenDone
    <3>2. <<p, "built">> \in seen
      <4>1. x[2] \in {"host", "staging", "target", "images"}
        BY <3>0, StepsStamp
      <4>2. <<p, "built">> \in Prereqs(x)
        BY <4>1 DEF Prereqs, Normal
      <4> QED
        BY <3>0, <3>1, <4>2
    <3>3. <<p, "configured">> \in seen
      BY <3>1, <3>2 DEF Prereqs, Normal
    <3>4. <<p, "fixup">> \in seen
      BY <3>1, <3>3 DEF Prereqs, Normal
    <3>5. <<p, "dotconfig">> \in seen
      BY <3>1, <3>4 DEF Prereqs, Normal
    <3>6. Chain(p) \subseteq Fresh /\ prod[<<p, "dotconfig">>] = "done"
      BY <3>1, <3>2, <3>3, <3>4, <3>5 DEF Chain, Fresh, UpToDate
    <3>7. conf[<<p, "built">>] = dot[p]
      BY <1>2, <3>6 DEF CInv, BuiltConf
    <3>8. conf[x] = conf[<<p, "built">>]
      BY <1>2, <3>0, <3>1, <3>2 DEF CInv, InstalledConf, Fresh, UpToDate
    <3> QED
      BY <3>1, <3>5, <3>7, <3>8 DEF Wanted, UpToDate
  <2>3. CASE status' /= "ok"
    BY <2>3 DEF ConfigUsed
  <2>4. ASSUME NEW p \in Pkg, ApplyFixup(p) PROVE ConfigUsed'
    <3>1. cmd' = cmd /\ cmd.goal = {<<p, "fixup">>}
      BY <2>4 DEF ApplyFixup, Stop
    <3>2. "fixup" \notin InstallSteps(p)
      BY StepsStamp
    <3> QED
      BY <3>1, <3>2 DEF ConfigUsed
  <2>5. \/ UNCHANGED <<status, cmd, files>> \/ Succeed \/ status' /= "ok"
        \/ \E p \in Pkg : ApplyFixup(p)
    BY <1>2, SuccessSteps DEF CInv
  <2> QED
    BY <2>1, <2>2, <2>3, <2>4, <2>5
<1> QED
  BY <1>1, <1>2, ConfInductive, PTL DEF Spec

-----------------------------------------------------------------------------
(* What is done again and what is not *)

Ordered(s, x) == \E i \in 1..Len(s) : s[i] = x

LEMMA OrderedTail ==
  ASSUME NEW s \in Seq(Stamp), s /= <<>>, NEW x, Ordered(s, x), x /= Head(s)
  PROVE  Ordered(Tail(s), x)
<1>1. PICK i \in 1..Len(s) : s[i] = x
  BY DEF Ordered
<1>2. i /= 1
  BY <1>1
<1>3. i - 1 \in 1..Len(Tail(s)) /\ Tail(s)[i - 1] = x
  BY <1>1, <1>2
<1> QED
  BY <1>3 DEF Ordered

LEMMA OrderedConcat ==
  ASSUME NEW s \in Seq(Stamp), NEW t \in Seq(Stamp), NEW x, Ordered(s, x) \/ Ordered(t, x)
  PROVE  Ordered(s \o t, x)
<1>0. Len(s \o t) = Len(s) + Len(t) /\ Len(s) \in Nat /\ Len(t) \in Nat
  OBVIOUS
<1>1. ASSUME NEW i \in 1..Len(s), s[i] = x PROVE Ordered(s \o t, x)
  <2>1. (s \o t)[i] = x /\ i \in 1..Len(s \o t)
    BY <1>1
  <2> QED
    BY <2>1 DEF Ordered
<1>2. ASSUME NEW i \in 1..Len(t), t[i] = x PROVE Ordered(s \o t, x)
  <2>1. (s \o t)[Len(s) + i] = x /\ Len(s) + i \in 1..Len(s \o t)
    BY <1>2
  <2> QED
    BY <2>1 DEF Ordered
<1> QED
  BY <1>1, <1>2 DEF Ordered

LEMMA OrderedOne == \A x : Ordered(<<x>>, x)
<1> SUFFICES ASSUME NEW x PROVE Ordered(<<x>>, x)
  OBVIOUS
<1>1. Len(<<x>>) = 1 /\ <<x>>[1] = x /\ 1 \in 1..1
  OBVIOUS
<1> QED
  BY <1>1 DEF Ordered

\* <pkg>-rebuild removes the stamps of the sync and of the build, -reconfigure
\* also that of configuring.
Redone(kind) ==
    {"rsynced", "built"} \cup IF kind = "reconfigure" THEN {"configured"} ELSE {}

LEMMA RebuildOrders ==
  ASSUME NEW p \in Override, NEW kind \in {"rebuild", "reconfigure"}
  PROVE  \A b \in Redone(kind) : Ordered(CleanFor(p, kind), <<p, b>>)
<1> DEFINE a == <<<<p, "rsynced">>>>
           b == <<<<p, "staging">>, <<p, "target">>, <<p, "images">>, <<p, "host">>>>
           c == <<<<p, "built">>>>
           e == IF kind = "reconfigure" /\ p \in Kconfig THEN <<<<p, "fixup">>>> ELSE <<>>
           d == IF kind = "reconfigure" THEN <<<<p, "configured">>>> ELSE <<>>
<1>0. p \in Pkg /\ \A s \in Step : <<p, s>> \in Stamp
  BY PkgAssumption DEF Stamp
<1>1. CleanFor(p, kind) = a \o b \o c \o e \o d
  BY DEF CleanFor
<1>2. /\ a \in Seq(Stamp) /\ b \in Seq(Stamp) /\ c \in Seq(Stamp)
      /\ e \in Seq(Stamp) /\ d \in Seq(Stamp)
  BY <1>0 DEF Step
<1>3. /\ Ordered(a, <<p, "rsynced">>) /\ Ordered(c, <<p, "built">>)
      /\ kind = "reconfigure" => Ordered(d, <<p, "configured">>)
  BY OrderedOne
<1> HIDE DEF a, b, c, d, e
<1>4. a \o b \in Seq(Stamp) /\ a \o b \o c \in Seq(Stamp) /\ a \o b \o c \o e \in Seq(Stamp)
  BY <1>2
<1>5. Ordered(a \o b, <<p, "rsynced">>)
  BY <1>2, <1>3, OrderedConcat
<1>6. Ordered(a \o b \o c, <<p, "rsynced">>) /\ Ordered(a \o b \o c, <<p, "built">>)
  BY <1>2, <1>3, <1>4, <1>5, OrderedConcat
<1>7. /\ Ordered(a \o b \o c \o e, <<p, "rsynced">>)
      /\ Ordered(a \o b \o c \o e, <<p, "built">>)
  BY <1>2, <1>4, <1>6, OrderedConcat
<1>8. /\ Ordered(a \o b \o c \o e \o d, <<p, "rsynced">>)
      /\ Ordered(a \o b \o c \o e \o d, <<p, "built">>)
      /\ kind = "reconfigure" => Ordered(a \o b \o c \o e \o d, <<p, "configured">>)
  BY <1>2, <1>3, <1>4, <1>7, OrderedConcat
<1> QED
  BY <1>1, <1>8 DEF Redone

\* An installation newer than the build installed that build.
InstalledVer ==
    \A p \in Pkg : \A s \in InstallSteps(p) :
        {<<p, s>>, <<p, "built">>} \subseteq Fresh
        => ver[<<p, s>>] = ver[<<p, "built">>]

\* A rebuild has still to remove what is older than itself.
RebuildOlder ==
    status \in {"run", "ok"} /\ cmd.kind \in {"rebuild", "reconfigure"} =>
        \E p \in Pkg :
            /\ cmd.goal = Installs(p) /\ cmd.at <= src[p]
            /\ p \in Override =>
                  \A b \in Redone(cmd.kind) :
                      \/ Ordered(todo, <<p, b>>)
                      \/ <<p, b>> \notin Fresh
                      \/ ver[<<p, b>>] >= cmd.at

RInv == IInv /\ InstalledVer /\ RebuildOlder

LEMMA VerKept ==
  ASSUME RInv, Fresh' \subseteq Fresh, \A y \in Fresh' : ver'[y] = ver[y]
  PROVE  InstalledVer'
<1> SUFFICES ASSUME NEW p \in Pkg, NEW s \in InstallSteps(p),
                    {<<p, s>>, <<p, "built">>} \subseteq Fresh'
             PROVE  ver'[<<p, s>>] = ver'[<<p, "built">>]
  BY DEF InstalledVer
<1> QED
  BY DEF RInv, InstalledVer

LEMMA FinishVer ==
  ASSUME RInv, NEW x \in Stamp, FinishStep(x)
  PROVE  InstalledVer' /\ RebuildOlder'
<1>0. /\ x[1] \in Pkg /\ x = <<x[1], x[2]>> /\ stamp \subseteq Stamp
      /\ \A y \in Stamp \ {x} : ver'[y] = ver[y]
      /\ ver'[x] = InputVer(x)
      /\ UNCHANGED <<src, cmd, status, todo>>
  BY DEF FinishStep, RInv, IInv, TypeOK, Stamp
<1>1. \A y \in Fresh' : x \notin Normal(y) \/ y = x
  BY DEF FinishStep, Touch, Fresh
<1>2. Fresh' \subseteq Fresh \cup {x}
  BY DEF FinishStep, Touch, Fresh
<1>3. InstalledVer'
  <2> SUFFICES ASSUME NEW p \in Pkg, NEW s \in InstallSteps(p),
                      {<<p, s>>, <<p, "built">>} \subseteq Fresh'
               PROVE  ver'[<<p, s>>] = ver'[<<p, "built">>]
    BY DEF InstalledVer
  <2>0. /\ s \in {"host", "staging", "target", "images"}
        /\ <<p, "built">> \in Stamp /\ <<p, s>> \in Stamp
    BY StepsStamp DEF Step
  <2>1. <<p, "built">> \in Normal(<<p, s>>) /\ <<p, "built">> /= <<p, s>>
    BY <2>0 DEF Normal
  <2>2. x /= <<p, "built">>
    BY <1>1, <2>1
  <2>3. CASE x = <<p, s>>
    <3>1. InputVer(x) = ver[<<p, "built">>]
      BY <2>0, <2>3 DEF InputVer
    <3> QED
      BY <1>0, <2>0, <2>2, <2>3, <3>1
  <2>4. CASE x /= <<p, s>>
    BY <1>0, <1>2, <2>0, <2>2, <2>4 DEF RInv, InstalledVer
  <2> QED
    BY <2>3, <2>4
<1>4. RebuildOlder'
  <2> SUFFICES ASSUME status \in {"run", "ok"}, cmd.kind \in {"rebuild", "reconfigure"}
               PROVE  RebuildOlder'
    BY <1>0 DEF RebuildOlder
  <2>1. PICK p \in Pkg :
            /\ cmd.goal = Installs(p) /\ cmd.at <= src[p]
            /\ p \in Override =>
                  \A b \in Redone(cmd.kind) :
                      \/ Ordered(todo, <<p, b>>)
                      \/ <<p, b>> \notin Fresh
                      \/ ver[<<p, b>>] >= cmd.at
    BY DEF RInv, RebuildOlder
  <2>2. todo = <<>> /\ Prereqs(x) \subseteq seen
    BY DEF FinishStep, RInv, IInv, RunShape
  <2>3. \A y : ~Ordered(todo, y)
    BY <2>2 DEF Ordered
  <2>4. ASSUME p \in Override, NEW b \in Redone(cmd.kind), <<p, b>> \in Fresh'
        PROVE  ver'[<<p, b>>] >= cmd.at
    <3>0. <<p, b>> \in Stamp /\ b \in {"rsynced", "built", "configured"}
      BY StepsStamp DEF Step, Redone
    <3>1. CASE x /= <<p, b>>
      BY <1>0, <1>2, <2>1, <2>3, <2>4, <3>0, <3>1
    <3>2. CASE x = <<p, "rsynced">>
      <4>1. b = "rsynced" \/ x /= <<p, b>>
        BY <3>2
      <4>2. InputVer(x) = src[p]
        BY <3>2 DEF InputVer
      <4> QED
        BY <1>0, <2>1, <3>1, <3>2, <4>1, <4>2
    <3>3. CASE x = <<p, "built">>
      <4>1. b = "built" \/ x /= <<p, b>>
        BY <3>3
      <4>2. InputVer(x) = ver[<<p, "rsynced">>]
        BY <2>4, <3>3 DEF InputVer, TreeStep
      <4>3. <<p, "configured">> \in Prereqs(x)
        BY <3>3 DEF Prereqs, Normal
      <4>4. <<p, "rsynced">> \in Prereqs(<<p, "configured">>)
        BY <2>4 DEF Prereqs, OrderOnly
      <4>5. <<p, "rsynced">> \in Fresh
        BY <2>2, <4>3, <4>4 DEF RInv, IInv, SeenDone, UpToDate, Fresh
      <4>6. ver[<<p, "rsynced">>] >= cmd.at
        BY <2>1, <2>3, <2>4, <4>5 DEF Redone
      <4> QED
        BY <1>0, <3>1, <3>3, <4>1, <4>2, <4>6
    <3>4. CASE x = <<p, "configured">>
      <4>1. b = "configured" \/ x /= <<p, b>>
        BY <3>4
      <4>2. InputVer(x) = ver[<<p, "rsynced">>]
        BY <2>4, <3>4 DEF InputVer, TreeStep
      <4>3. <<p, "rsynced">> \in Prereqs(x)
        BY <2>4, <3>4 DEF Prereqs, OrderOnly
      <4>4. <<p, "rsynced">> \in Fresh
        BY <2>2, <4>3 DEF RInv, IInv, SeenDone, UpToDate, Fresh
      <4>5. ver[<<p, "rsynced">>] >= cmd.at
        BY <2>1, <2>3, <2>4, <4>4 DEF Redone
      <4> QED
        BY <1>0, <3>1, <3>4, <4>1, <4>2, <4>5
    <3> QED
      BY <3>0, <3>1, <3>2, <3>3, <3>4
  <2> QED
    BY <1>0, <2>1, <2>4 DEF RebuildOlder
<1> QED
  BY <1>3, <1>4

\* A step that is not the beginning of a run and finishes no recipe.
LEMMA OlderKept ==
  ASSUME RInv, UNCHANGED <<cmd, status>>, Fresh' \subseteq Fresh,
         \A y \in Fresh' : ver'[y] = ver[y],
         \A p \in Pkg : src'[p] \in Nat /\ src[p] <= src'[p],
         \A y \in Fresh' : Ordered(todo, y) => Ordered(todo', y)
  PROVE  RebuildOlder'
<1> SUFFICES ASSUME status \in {"run", "ok"}, cmd.kind \in {"rebuild", "reconfigure"}
             PROVE  RebuildOlder'
  BY DEF RebuildOlder
<1>1. PICK p \in Pkg :
          /\ cmd.goal = Installs(p) /\ cmd.at <= src[p]
          /\ p \in Override =>
                \A b \in Redone(cmd.kind) :
                    \/ Ordered(todo, <<p, b>>)
                    \/ <<p, b>> \notin Fresh
                    \/ ver[<<p, b>>] >= cmd.at
  BY DEF RInv, RebuildOlder
<1>2. cmd.at <= src'[p]
  <2>1. cmd.at \in Nat /\ src[p] \in Nat
    BY PkgAssumption DEF RInv, IInv, TypeOK, Command
  <2>2. src[p] <= src'[p]
    OBVIOUS
  <2> QED
    BY <1>1, <2>1, <2>2
<1> QED
  BY <1>1, <1>2 DEF RebuildOlder

LEMMA RedoStep == RInv /\ [Next]_vars => InstalledVer' /\ RebuildOlder'
<1> SUFFICES ASSUME RInv, [Next]_vars PROVE InstalledVer' /\ RebuildOlder'
  OBVIOUS
<1>0. \A p \in Pkg : src[p] \in Nat
  BY PkgAssumption DEF RInv, IInv, TypeOK
<1>1. CASE UNCHANGED <<files, src, cmd, status, todo>>
  <2>1. Fresh' = Fresh /\ ver' = ver
    BY <1>1 DEF files, Fresh
  <2> QED
    BY <1>0, <1>1, <2>1, VerKept, OlderKept
<1>2. CASE UNCHANGED files /\ cmd'.kind \notin {"rebuild", "reconfigure"}
  <2>1. Fresh' = Fresh /\ ver' = ver
    BY <1>2 DEF files, Fresh
  <2> QED
    BY <1>2, <2>1, VerKept DEF RebuildOlder
<1>3. ASSUME NEW p \in Pkg, NEW kind \in Again,
             MakeAgain(p, kind)
      PROVE  InstalledVer' /\ RebuildOlder'
  <2>1. Fresh' = Fresh /\ ver' = ver /\ src' = src
    BY <1>3 DEF MakeAgain, Run, files, Fresh
  <2>2. /\ cmd'.kind = kind /\ cmd'.goal = Installs(p) /\ cmd'.at = src[p]
        /\ todo' = CleanFor(p, kind)
    BY <1>3 DEF MakeAgain, Run
  <2>3. RebuildOlder'
    <3> SUFFICES ASSUME kind \in {"rebuild", "reconfigure"} PROVE RebuildOlder'
      BY <2>2 DEF RebuildOlder
    <3>1. p \in Override => \A b \in Redone(kind) : Ordered(todo', <<p, b>>)
      BY <2>2, RebuildOrders
    <3>2. src[p] <= src[p]
      BY <1>0
    <3> QED
      BY <2>1, <2>2, <3>1, <3>2 DEF RebuildOlder
  <2> QED
    BY <2>1, <2>3, VerKept
<1>4. CASE Succeed
  <2>1. Fresh' = Fresh /\ ver' = ver /\ src' = src /\ cmd' = cmd
    BY <1>4 DEF Succeed, Stop, files, Fresh
  <2>2. status = "run" /\ todo = <<>> /\ \A y : ~Ordered(todo, y)
    BY <1>4 DEF Succeed, Considering, Ordered
  <2>3. RebuildOlder'
    BY <2>1, <2>2 DEF RInv, RebuildOlder
  <2> QED
    BY <2>1, <2>3, VerKept
<1>5. CASE CleanStamp
  <2>1. /\ Fresh' \subseteq Fresh /\ Head(todo) \notin Fresh'
        /\ UNCHANGED <<ver, src, cmd, status>>
    BY <1>5 DEF CleanStamp, Fresh
  <2>2. todo \in Seq(Stamp) /\ todo /= <<>> /\ todo' = Tail(todo)
    BY <1>5 DEF CleanStamp, RInv, IInv, TypeOK
  <2>3. \A y \in Fresh' : Ordered(todo, y) => Ordered(todo', y)
    BY <2>1, <2>2, OrderedTail
  <2> QED
    BY <1>0, <2>1, <2>3, VerKept, OlderKept
<1>6. ASSUME NEW x \in Stamp, StartStep(x) PROVE InstalledVer' /\ RebuildOlder'
  <2>1. /\ Fresh' = Fresh /\ x \notin Fresh /\ stamp \subseteq Stamp
        /\ \A y \in Stamp \ {x} : ver'[y] = ver[y]
        /\ UNCHANGED <<src, cmd, status, todo>>
    BY <1>6 DEF StartStep, UpToDate, Fresh, RInv, IInv, TypeOK
  <2>2. \A y \in Fresh' : ver'[y] = ver[y]
    BY <2>1 DEF Fresh
  <2> QED
    BY <1>0, <2>1, <2>2, VerKept, OlderKept
<1>7. ASSUME NEW x \in Stamp, FinishStep(x) PROVE InstalledVer' /\ RebuildOlder'
  BY <1>7, FinishVer
<1>8. ASSUME NEW p \in Pkg, Dirclean(p) \/ DircleanCut(p)
      PROVE  InstalledVer' /\ RebuildOlder'
  <2>1. cmd' = NoCommand /\ Fresh' \subseteq Fresh /\ stamp \subseteq Stamp
    BY <1>8 DEF Dirclean, DircleanCut, ForgetTree, Fresh, RInv, IInv, TypeOK
  <2>2. \A y \in Fresh' : ver'[y] = ver[y]
    <3>1. CASE Dirclean(p)
      <4>1. \A y \in Fresh' : y \in Stamp /\ y[1] /= p
        BY <2>1, <3>1 DEF Dirclean, ForgetTree, Fresh, Stamp
      <4> QED
        BY <3>1, <4>1 DEF Dirclean
    <3>2. CASE DircleanCut(p)
      BY <3>2 DEF DircleanCut
    <3> QED
      BY <1>8, <3>1, <3>2
  <2> QED
    BY <2>1, <2>2, VerKept DEF RebuildOlder, NoCommand
<1>9. ASSUME NEW p \in Pkg, EditCustom(p) \/ UpdateConfig(p) \/ UpdateCut(p)
      PROVE  InstalledVer' /\ RebuildOlder'
  <2>1. cmd' = NoCommand /\ ver' = ver /\ Fresh' \subseteq Fresh \cup {<<p, "dotconfig">>}
    BY <1>9 DEF EditCustom, UpdateConfig, UpdateCut, Fresh
  <2>2. InstalledVer'
    <3> SUFFICES ASSUME NEW q \in Pkg, NEW s \in InstallSteps(q),
                        {<<q, s>>, <<q, "built">>} \subseteq Fresh'
                 PROVE  ver[<<q, s>>] = ver[<<q, "built">>]
      BY <2>1 DEF InstalledVer
    <3>1. <<q, s>> \in Fresh /\ <<q, "built">> \in Fresh
      BY <2>1, StepsStamp
    <3> QED
      BY <3>1 DEF RInv, InstalledVer
  <2> QED
    BY <2>1, <2>2 DEF RebuildOlder, NoCommand
<1>10. ASSUME NEW p \in Pkg, ApplyFixup(p) PROVE InstalledVer' /\ RebuildOlder'
  <2>1. cmd'.kind = "fixup" /\ ver' = ver /\ Fresh' \subseteq Fresh \cup {<<p, "fixup">>}
    BY <1>10 DEF ApplyFixup, Stop, Touch, Fresh
  <2>2. InstalledVer'
    <3> SUFFICES ASSUME NEW q \in Pkg, NEW s \in InstallSteps(q),
                        {<<q, s>>, <<q, "built">>} \subseteq Fresh'
                 PROVE  ver[<<q, s>>] = ver[<<q, "built">>]
      BY <2>1 DEF InstalledVer
    <3>1. <<q, s>> \in Fresh /\ <<q, "built">> \in Fresh
      BY <2>1, StepsStamp
    <3> QED
      BY <3>1 DEF RInv, InstalledVer
  <2> QED
    BY <2>1, <2>2 DEF RebuildOlder
<1>11. ASSUME NEW p \in Pkg, EditorExits(p) PROVE InstalledVer' /\ RebuildOlder'
  <2>1. cmd'.kind = "fixup" /\ ver' = ver /\ Fresh' = Fresh
    BY <1>11 DEF EditorExits, Fresh, RInv, IInv, TypeOK, Command
  <2> QED
    BY <2>1, VerKept DEF RebuildOlder
<1>12. ASSUME NEW p \in Pkg, Edit(p) PROVE InstalledVer' /\ RebuildOlder'
  <2>1. Fresh' = Fresh /\ UNCHANGED <<ver, cmd, status, todo>>
    BY <1>12 DEF Edit, files, session, Fresh
  <2>2. \A q \in Pkg : src'[q] \in Nat /\ src[q] <= src'[q]
    BY <1>0, <1>12 DEF Edit, RInv, IInv, TypeOK
  <2> QED
    BY <2>1, <2>2, VerKept, OlderKept
<1>13. CASE MakeAll \/ (\E p \in Pkg : Editor(p)) \/ \E p \in Pkg, s \in Step : MakeStep(p, s)
  BY <1>2, <1>13 DEF MakeAll, Editor, MakeStep, Run
<1>14. CASE FailStep \/ Interrupt \/ \E x \in Stamp : RefuseStep(x)
  BY <1>2, <1>14 DEF FailStep, Interrupt, RefuseStep, Stop, NoCommand
<1>15. CASE \E x \in Stamp : Descend(x) \/ Skip(x)
  BY <1>1, <1>15 DEF Descend, Skip
<1>16. CASE UNCHANGED vars
  BY <1>1, <1>16 DEF vars, files
<1> QED
  BY <1>3, <1>4, <1>5, <1>6, <1>7, <1>8, <1>9, <1>10, <1>11, <1>12, <1>13, <1>14,
     <1>15, <1>16 DEF Next, User, Make, Fault

LEMMA RedoInductive == Spec => []RInv
<1>1. Init => InstalledVer /\ RebuildOlder
  BY DEF Init, InstalledVer, RebuildOlder, Fresh
<1>2. RInv /\ [Next]_vars => RInv'
  BY TypeStep, InvStep, RedoStep DEF RInv, IInv
<1> QED
  BY InitInv, <1>1, <1>2, PTL DEF Spec, RInv

\* A <pkg>-rebuild or -reconfigure that reports success has installed what was
\* built from sources at least as recent as those of the command's moment.
THEOREM RebuildSound == Spec => []RebuildPicksUpEdit
<1>1. Init => RebuildPicksUpEdit
  BY DEF Init, RebuildPicksUpEdit
<1>2. ASSUME RInv, RebuildPicksUpEdit, [Next]_vars PROVE RebuildPicksUpEdit'
  <2>1. CASE UNCHANGED <<status, cmd, files>>
    BY <2>1, <1>2 DEF RebuildPicksUpEdit, files
  <2>2. CASE Succeed
    <3> SUFFICES ASSUME cmd.kind \in {"rebuild", "reconfigure"}, NEW x \in cmd.goal,
                        x[1] \in Override \ torn
                 PROVE  /\ ver[x] >= cmd.at
                        /\ cmd.kind = "reconfigure" => ver[<<x[1], "configured">>] >= cmd.at
      BY <2>2 DEF Succeed, Stop, files, RebuildPicksUpEdit
    <3>1. PICK p \in Pkg :
              /\ cmd.goal = Installs(p) /\ cmd.at <= src[p]
              /\ p \in Override =>
                    \A b \in Redone(cmd.kind) :
                        \/ Ordered(todo, <<p, b>>)
                        \/ <<p, b>> \notin Fresh
                        \/ ver[<<p, b>>] >= cmd.at
      BY <1>2, <2>2 DEF Succeed, Considering, RInv, RebuildOlder
    <3>2. x[1] = p /\ x = <<p, x[2]>> /\ x[2] \in InstallSteps(p) /\ x \in seen
      BY <2>2, <3>1 DEF Succeed, Installs
    <3>3. \A b : ~Ordered(todo, <<p, b>>)
      BY <2>2 DEF Succeed, Considering, Ordered
    <3>4. <<p, "built">> \in Prereqs(x)
      BY <3>2, StepsStamp DEF Prereqs, Normal
    <3>5. x \in Fresh /\ <<p, "built">> \in Fresh
      BY <1>2, <3>2, <3>4 DEF RInv, IInv, SeenDone, UpToDate, Fresh
    <3>6. ver[x] = ver[<<p, "built">>]
      BY <1>2, <3>2, <3>5 DEF RInv, InstalledVer
    <3>7. ver[<<p, "built">>] >= cmd.at
      BY <3>1, <3>2, <3>3, <3>5 DEF Redone
    <3>8. ASSUME cmd.kind = "reconfigure" PROVE ver[<<p, "configured">>] >= cmd.at
      <4>1. <<p, "configured">> \in Prereqs(<<p, "built">>)
        BY DEF Prereqs, Normal
      <4>2. <<p, "configured">> \in Fresh
        BY <1>2, <3>2, <3>4, <4>1 DEF RInv, IInv, SeenDone, UpToDate, Fresh
      <4> QED
        BY <3>1, <3>2, <3>3, <3>8, <4>2 DEF Redone
    <3> QED
      BY <3>2, <3>6, <3>7, <3>8
  <2>3. CASE status' /= "ok"
    BY <2>3 DEF RebuildPicksUpEdit
  <2>4. ASSUME NEW p \in Pkg, ApplyFixup(p) PROVE RebuildPicksUpEdit'
    BY <2>4 DEF ApplyFixup, Stop, RebuildPicksUpEdit
  <2>5. \/ UNCHANGED <<status, cmd, files>> \/ Succeed \/ status' /= "ok"
        \/ \E p \in Pkg : ApplyFixup(p)
    BY <1>2, SuccessSteps DEF RInv
  <2> QED
    BY <2>1, <2>2, <2>3, <2>4, <2>5
<1> QED
  BY <1>1, <1>2, RedoInductive, PTL DEF Spec

-----------------------------------------------------------------------------
(* What has been completely built is left alone.                           *)

\* The steps of p that a complete build of p, or a use of p, can run.
OwnSteps(p) ==
    InstallSteps(p) \cup {"built", "configured", TreeStep(p)}
    \cup (IF p \in Override THEN {} ELSE {"extracted", "downloaded"})
    \cup (IF p \in Kconfig THEN {"fixup", "dotconfig"} ELSE {})

Own == {x \in Stamp : x[2] \in OwnSteps(x[1])}

\* All steps of a settled package are up to date.
Quiet == \A x \in Own : x[1] \in settled => x \in Fresh

\* What make looks at or is asked for, and that what it is about to clean or
\* to touch up is not settled.
Asked ==
    /\ cmd.goal \subseteq Own
    /\ \A i \in 1..Len(stack) : stack[i] \in Own
    /\ \A i \in 1..Len(todo) : todo[i][1] \notin settled
    /\ status = "run" /\ cmd.kind \in {"editor", "fixup"} =>
           \E p \in Kconfig \ settled : cmd.goal = {<<p, "fixup">>}

QInv == IInv /\ Quiet /\ Asked

LEMMA OwnPrereqs == \A x \in Own : Prereqs(x) \subseteq Own
<1> SUFFICES ASSUME NEW x \in Own, NEW y \in Prereqs(x) PROVE y \in Own
  OBVIOUS
<1> DEFINE p == x[1]
<1>0. x \in Stamp /\ y \in Stamp /\ p \in Pkg /\ x = <<p, x[2]>> /\ x[2] \in OwnSteps(p)
  BY PrereqsStamp DEF Own, Stamp
<1>1. \A q \in Pkg : Installs(q) \subseteq Own
  BY InstallsStamp DEF Own, Installs, OwnSteps
<1>2. \A q \in Pkg : <<q, TreeStep(q)>> \in Own
  BY DEF Own, OwnSteps, TreeStep, Stamp, Step
<1>3. CASE y \in Normal(x)
  <2>1. y = <<p, y[2]>>
    BY <1>3 DEF Normal
  <2>2. y[2] \in OwnSteps(p)
    <3>1. CASE x[2] = "extracted"
      BY <1>0, <1>3, <3>1, StepsStamp DEF Normal, OwnSteps, TreeStep
    <3>2. CASE x[2] = "patched"
      BY <1>0, <1>3, <3>2, StepsStamp DEF Normal, OwnSteps, TreeStep
    <3>3. CASE x[2] = "fixup"
      BY <1>0, <1>3, <3>3, StepsStamp DEF Normal, OwnSteps, TreeStep
    <3>4. CASE x[2] = "configured"
      BY <1>3, <3>4 DEF Normal, OwnSteps, TreeStep
    <3>5. CASE x[2] = "built"
      BY <1>3, <3>5 DEF Normal, OwnSteps
    <3>6. CASE x[2] \in {"host", "staging", "target", "images"}
      BY <1>3, <3>6 DEF Normal, OwnSteps
    <3>7. x[2] \in {"extracted", "patched", "fixup", "configured", "built",
                    "host", "staging", "target", "images"}
      BY <1>3 DEF Normal
    <3> QED
      BY <3>1, <3>2, <3>3, <3>4, <3>5, <3>6, <3>7
  <2> QED
    BY <1>0, <2>1, <2>2 DEF Own
<1>4. CASE y \in OrderOnly(x)
  <2>1. CASE x[2] = "downloaded"
    BY <1>0, <1>1, <1>4, <2>1, PkgAssumption DEF OrderOnly
  <2>2. CASE x[2] = "extracted"
    BY <1>0, <1>1, <1>4, <2>2, PkgAssumption DEF OrderOnly
  <2>3. CASE x[2] = "patched"
    BY <1>0, <1>2, <1>4, <2>3, PkgAssumption DEF OrderOnly
  <2>4. CASE x[2] = "dotconfig"
    <3>1. y \in UNION {Installs(q) : q \in KconfigDeps[p]} \/ y = <<p, TreeStep(p)>>
      BY <1>4, <2>4 DEF OrderOnly
    <3> QED
      BY <1>0, <1>1, <1>2, <3>1, PkgAssumption
  <2>5. CASE x[2] = "configured"
    <3>1. \/ y \in UNION {Installs(q) : q \in Deps[p]}
          \/ p \in Override /\ y = <<p, "rsynced">>
      BY <1>4, <2>5 DEF OrderOnly
    <3> QED
      BY <1>0, <1>1, <1>2, <3>1, PkgAssumption DEF TreeStep
  <2>6. x[2] \in {"downloaded", "extracted", "patched", "dotconfig", "configured"}
    BY <1>4 DEF OrderOnly
  <2> QED
    BY <2>1, <2>2, <2>3, <2>4, <2>5, <2>6
<1> QED
  BY <1>3, <1>4 DEF Prereqs

\* A package of which all installations are done with has all its own steps up
\* to date.
LEMMA SettledFresh ==
  ASSUME IInv, NEW p \in Pkg, Installs(p) /= {}, Installs(p) \subseteq seen
  PROVE  \A s \in OwnSteps(p) : <<p, s>> \in Fresh
<1>1. \A y \in seen : UpToDate(y) /\ Prereqs(y) \subseteq seen
  BY DEF IInv, SeenDone
<1>2. <<p, "built">> \in seen
  <2>1. PICK s \in InstallSteps(p) : <<p, s>> \in seen
    BY DEF Installs
  <2>2. <<p, "built">> \in Prereqs(<<p, s>>)
    BY StepsStamp DEF Prereqs, Normal
  <2> QED
    BY <1>1, <2>1, <2>2
<1>3. <<p, "configured">> \in seen
  BY <1>1, <1>2 DEF Prereqs, Normal
<1>4. <<p, TreeStep(p)>> \in seen
  BY <1>1, <1>3 DEF Prereqs, Normal, OrderOnly, TreeStep
<1>5. p \notin Override => <<p, "extracted">> \in seen
  BY <1>1, <1>4 DEF Prereqs, Normal, TreeStep
<1>6. p \notin Override => <<p, "downloaded">> \in seen
  BY <1>1, <1>5 DEF Prereqs, Normal
<1>7. p \in Kconfig => <<p, "fixup">> \in seen
  BY <1>1, <1>3 DEF Prereqs, Normal
<1>8. p \in Kconfig => <<p, "dotconfig">> \in seen
  BY <1>1, <1>7 DEF Prereqs, Normal
<1>9. \A s \in OwnSteps(p) : <<p, s>> \in seen
  BY <1>2, <1>3, <1>4, <1>5, <1>6, <1>7, <1>8 DEF OwnSteps, Installs
<1> QED
  BY <1>1, <1>9 DEF UpToDate, Fresh

LEMMA CleanOwn ==
  ASSUME NEW p \in Pkg
  PROVE  /\ \A kind \in Kinds : CleanFor(p, kind) \in Seq({p} \X Step)
         /\ EditorClean(p) \in Seq({p} \X Step)
<1>0. \A s \in Step : <<p, s>> \in {p} \X Step
  OBVIOUS
<1>1. ASSUME NEW kind \in Kinds PROVE CleanFor(p, kind) \in Seq({p} \X Step)
  <2> DEFINE a == IF p \in Override THEN <<<<p, "rsynced">>>> ELSE <<>>
             b == <<<<p, "staging">>, <<p, "target">>, <<p, "images">>, <<p, "host">>>>
             c == IF kind \in {"rebuild", "reconfigure"} THEN <<<<p, "built">>>> ELSE <<>>
             e == IF kind = "reconfigure" /\ p \in Kconfig THEN <<<<p, "fixup">>>> ELSE <<>>
             d == IF kind = "reconfigure" THEN <<<<p, "configured">>>> ELSE <<>>
  <2>1. /\ a \in Seq({p} \X Step) /\ b \in Seq({p} \X Step) /\ c \in Seq({p} \X Step)
        /\ e \in Seq({p} \X Step) /\ d \in Seq({p} \X Step)
    BY <1>0 DEF Step
  <2> HIDE DEF a, b, c, d, e
  <2>2. a \o b \o c \o e \o d \in Seq({p} \X Step)
    BY <2>1
  <2> QED
    BY <2>2 DEF CleanFor, a, b, c, d, e
<1>2. EditorClean(p) \in Seq({p} \X Step)
  BY <1>0 DEF EditorClean, Step
<1> QED
  BY <1>1, <1>2

\* The beginning of a run, the end of a run without success.
LEMMA RunQuiet ==
  ASSUME QInv, NEW kind \in Kinds, NEW goal \in SUBSET Own, NEW at, NEW p \in Pkg,
         NEW clean \in Seq({p} \X Step), Run(kind, goal, at, clean),
         settled' \subseteq settled, clean = <<>> \/ p \notin settled',
         kind \in {"editor", "fixup"} => p \in Kconfig \ settled' /\ goal = {<<p, "fixup">>}
  PROVE  Quiet' /\ Asked'
<1>1. Fresh' = Fresh /\ stack' = <<>> /\ todo' = clean /\ cmd'.goal = goal /\ cmd'.kind = kind
  BY DEF Run, files, Fresh
<1>2. Quiet'
  BY <1>1 DEF QInv, Quiet
<1>3. \A i \in 1..Len(todo') : todo'[i][1] \notin settled'
  <2> SUFFICES ASSUME NEW i \in 1..Len(clean) PROVE clean[i][1] \notin settled'
    BY <1>1
  <2>1. clean[i] \in {p} \X Step /\ clean /= <<>>
    OBVIOUS
  <2> QED
    BY <2>1
<1>4. \A i \in 1..Len(stack') : stack'[i] \in Own
  BY <1>1
<1> QED
  BY <1>1, <1>2, <1>3, <1>4 DEF Asked

LEMMA QuitQuiet ==
  ASSUME QInv, cmd' = NoCommand, stack' = <<>>, todo' = <<>>, status' /= "run",
         \A x \in Own : x[1] \in settled' => x[1] \in settled /\ (x \in Fresh => x \in Fresh')
  PROVE  Quiet' /\ Asked'
BY DEF QInv, Quiet, Asked, NoCommand

LEMMA PopOwn ==
  ASSUME Asked, NEW s \in Seq(Stamp), s = stack, s /= <<>>
  PROVE  LET t == SubSeq(s, 1, Len(s) - 1) IN \A i \in 1..Len(t) : t[i] \in Own
BY DEF Asked

LEMMA QuietStep == QInv /\ [Next]_vars => Quiet' /\ Asked'
<1> SUFFICES ASSUME QInv, [Next]_vars PROVE Quiet' /\ Asked'
  OBVIOUS
<1> USE DEF QInv
<1>0. stamp \subseteq Stamp /\ stack \in Seq(Stamp) /\ todo \in Seq(Stamp)
  BY DEF IInv, TypeOK
<1>1. ASSUME MakeAll, Pkg /= {} PROVE Quiet' /\ Asked'
  <2>1. (UNION {Installs(p) : p \in Pkg}) \subseteq Own
    BY InstallsStamp DEF Own, Installs, OwnSteps
  <2>2. PICK p \in Pkg : TRUE
    BY <1>1
  <2>3. <<>> \in Seq({p} \X Step)
    OBVIOUS
  <2> QED
    BY <1>1, <2>1, <2>3, RunQuiet DEF MakeAll, Kinds, Again
<1>2. ASSUME MakeAll, Pkg = {} PROVE Quiet' /\ Asked'
  <2>1. Own = {} /\ (UNION {Installs(p) : p \in Pkg}) = {}
    BY <1>2 DEF Own, Stamp
  <2> QED
    BY <1>2, <2>1 DEF MakeAll, Run, Quiet, Asked
<1>3. ASSUME NEW p \in Pkg, NEW s \in Step, MakeStep(p, s) PROVE Quiet' /\ Asked'
  <2>1. {<<p, s>>} \subseteq Own /\ <<>> \in Seq({p} \X Step)
    BY <1>3 DEF MakeStep, Own, OwnSteps, Stamp
  <2> QED
    BY <1>3, <2>1, RunQuiet DEF MakeStep, Kinds, Again
<1>4. ASSUME NEW p \in Pkg, NEW kind \in Again,
             MakeAgain(p, kind)
      PROVE  Quiet' /\ Asked'
  <2>1. Installs(p) \subseteq Own /\ kind \in Kinds
    BY InstallsStamp DEF Own, Installs, OwnSteps, Kinds, Again
  <2>2. CleanFor(p, kind) \in Seq({p} \X Step)
    BY <2>1, CleanOwn
  <2> QED
    BY <1>4, <2>1, <2>2, RunQuiet DEF MakeAgain, Again
<1>5. ASSUME NEW p \in Pkg, Editor(p) PROVE Quiet' /\ Asked'
  <2>1. {<<p, "fixup">>} \subseteq Own /\ <<>> \in Seq({p} \X Step)
    BY <1>5 DEF Editor, Own, OwnSteps, Stamp, Step
  <2> QED
    BY <1>5, <2>1, RunQuiet DEF Editor, Kinds, Again
<1>6. ASSUME NEW p \in Pkg,
             \/ Dirclean(p) \/ DircleanCut(p)
             \/ EditCustom(p) \/ UpdateConfig(p) \/ UpdateCut(p)
      PROVE  Quiet' /\ Asked'
  <2>1. cmd' = NoCommand /\ stack' = <<>> /\ todo' = <<>> /\ status' /= "run"
    BY <1>6 DEF Dirclean, DircleanCut, ForgetTree, EditCustom, UpdateConfig, UpdateCut,
       Idle, IInv, RunShape
  <2>2. settled' \subseteq settled /\ \A y \in Fresh : y[1] /= p => y \in Fresh'
    BY <1>6 DEF Dirclean, DircleanCut, ForgetTree, EditCustom, UpdateConfig, UpdateCut, Fresh
  <2>3. p \notin settled' \/ Fresh \subseteq Fresh'
    BY <1>6 DEF Dirclean, DircleanCut, ForgetTree, EditCustom, UpdateConfig, UpdateCut, Fresh
  <2> QED
    BY <2>1, <2>2, <2>3, QuitQuiet
<1>7. ASSUME FailStep \/ Interrupt \/ \E x \in Stamp : RefuseStep(x)
      PROVE  Quiet' /\ Asked'
  <2>1. cmd' = NoCommand /\ stack' = <<>> /\ todo' = <<>> /\ status' /= "run"
    BY <1>7 DEF FailStep, Interrupt, RefuseStep, Stop
  <2>2. settled' = settled /\ Fresh' = Fresh
    BY <1>7 DEF FailStep, Interrupt, RefuseStep, files, Fresh
  <2> QED
    BY <2>1, <2>2, QuitQuiet
<1>8. ASSUME NEW x \in Stamp, Descend(x) PROVE Quiet' /\ Asked'
  <2>1. Fresh' = Fresh /\ UNCHANGED <<settled, todo, cmd, status>> /\ stack' = Append(stack, x)
    BY <1>8 DEF Descend, files, Fresh
  <2>2. x \in Own
    <3>1. CASE stack = <<>>
      BY <1>8, <3>1 DEF Descend, Asked
    <3>2. CASE stack /= <<>>
      <4>1. Top \in Own
        BY <1>0, <3>2 DEF Top, Asked
      <4> QED
        BY <1>8, <3>2, <4>1, OwnPrereqs DEF Descend
    <3> QED
      BY <3>1, <3>2
  <2>3. \A i \in 1..Len(stack') : stack'[i] \in Own
    BY <1>0, <2>1, <2>2 DEF Asked
  <2> QED
    BY <2>1, <2>3 DEF Quiet, Asked
<1>9. ASSUME NEW x \in Stamp, Skip(x) PROVE Quiet' /\ Asked'
  <2>1. Fresh' = Fresh /\ UNCHANGED <<settled, todo, cmd, status>> /\ stack' = Pop /\ stack /= <<>>
    BY <1>9 DEF Skip, AtTop, files, Fresh
  <2>2. \A i \in 1..Len(stack') : stack'[i] \in Own
    BY <1>0, <2>1, PopOwn DEF Pop
  <2> QED
    BY <2>1, <2>2 DEF Quiet, Asked
<1>10. ASSUME NEW x \in Stamp, StartStep(x) PROVE Quiet' /\ Asked'
  BY <1>10 DEF StartStep, Fresh, Quiet, Asked
<1>11. ASSUME NEW x \in Stamp, FinishStep(x) PROVE Quiet' /\ Asked'
  <2>1. stack /= <<>> /\ x = Top /\ x \notin Fresh
    BY <1>11 DEF FinishStep, IInv, RunShape, UpToDate, Fresh
  <2>2. x \in Own
    BY <1>0, <2>1 DEF Top, Asked
  <2>3. x[1] \notin settled
    BY <2>1, <2>2 DEF Quiet
  <2>4. UNCHANGED <<settled, todo, cmd, status>> /\ stack' = Pop
    BY <1>11 DEF FinishStep
  <2>5. \A i \in 1..Len(stack') : stack'[i] \in Own
    BY <1>0, <2>1, <2>4, PopOwn DEF Pop
  <2>6. Quiet'
    <3> SUFFICES ASSUME NEW y \in Own, y[1] \in settled PROVE y \in Fresh'
      BY <2>4 DEF Quiet
    <3>1. y \in Fresh /\ y /= x
      BY <2>3 DEF Quiet
    <3>2. x \notin Normal(y)
      BY <2>3 DEF Normal
    <3> QED
      BY <1>11, <3>1, <3>2 DEF FinishStep, Touch, Fresh
  <2> QED
    BY <2>4, <2>5, <2>6 DEF Asked
<1>12. ASSUME CleanStamp PROVE Quiet' /\ Asked'
  <2>1. /\ Fresh' = Fresh \ {Head(todo)} /\ todo /= <<>> /\ todo' = Tail(todo)
        /\ UNCHANGED <<settled, stack, cmd, status>>
    BY <1>12 DEF CleanStamp, Fresh
  <2>2. Head(todo)[1] \notin settled
    BY <1>0, <2>1 DEF Asked
  <2>3. \A i \in 1..Len(todo') : todo'[i][1] \notin settled
    BY <1>0, <2>1 DEF Asked
  <2> QED
    BY <2>1, <2>2, <2>3 DEF Quiet, Asked
<1>13. ASSUME NEW p \in Pkg, EditorExits(p) PROVE Quiet' /\ Asked'
  <2>1. /\ Fresh' = Fresh /\ UNCHANGED <<settled, stack, status>>
        /\ status = "run" /\ cmd.kind = "editor" /\ cmd.goal = {<<p, "fixup">>}
        /\ cmd'.goal = cmd.goal /\ todo' = EditorClean(p)
    BY <1>13 DEF EditorExits, Considering, Fresh, IInv, TypeOK, Command
  <2>2. p \in Kconfig \ settled
    BY <2>1 DEF Asked
  <2>3. \A i \in 1..Len(todo') : todo'[i][1] \notin settled'
    <3> SUFFICES ASSUME NEW i \in 1..Len(EditorClean(p))
                 PROVE  EditorClean(p)[i][1] \notin settled
      BY <2>1
    <3>1. EditorClean(p) \in Seq({p} \X Step)
      BY CleanOwn
    <3>2. EditorClean(p)[i] \in {p} \X Step
      BY <3>1
    <3> QED
      BY <2>2, <3>2
  <2> QED
    BY <2>1, <2>2, <2>3 DEF Quiet, Asked
<1>14. ASSUME NEW p \in Pkg, ApplyFixup(p) PROVE Quiet' /\ Asked'
  <2>1. /\ status = "run" /\ cmd.kind = "fixup" /\ cmd.goal = {<<p, "fixup">>}
        /\ cmd' = cmd /\ status' = "ok" /\ todo' = <<>> /\ stack' = <<>> /\ settled' = settled
    BY <1>14 DEF ApplyFixup, Stop
  <2>2. p \notin settled
    BY <2>1 DEF Asked
  <2>3. \A y \in Fresh : y[1] /= p => y \in Fresh'
    <3> SUFFICES ASSUME NEW y \in Fresh, y[1] /= p PROVE y \in Fresh'
      OBVIOUS
    <3>1. <<p, "fixup">> \notin Normal(y) /\ y /= <<p, "fixup">>
      BY DEF Normal
    <3> QED
      BY <1>14, <3>1 DEF ApplyFixup, Touch, Fresh
  <2> QED
    BY <2>1, <2>2, <2>3 DEF Quiet, Asked
<1>15. ASSUME Succeed PROVE Quiet' /\ Asked'
  <2>1. /\ Fresh' = Fresh /\ status' = "ok" /\ cmd' = cmd /\ todo' = <<>> /\ stack' = <<>>
        /\ settled' \subseteq settled \cup
               {p \in Pkg : Installs(p) /= {} /\ Installs(p) \subseteq seen}
    BY <1>15 DEF Succeed, Stop, files, Fresh
  <2>2. Quiet'
    <3> SUFFICES ASSUME NEW y \in Own, y[1] \in settled' PROVE y \in Fresh
      BY <2>1 DEF Quiet
    <3>1. y = <<y[1], y[2]>> /\ y[1] \in Pkg /\ y[2] \in OwnSteps(y[1])
      BY DEF Own, Stamp
    <3>2. CASE y[1] \in settled
      BY <3>2 DEF Quiet
    <3>3. CASE y[1] \notin settled
      BY <2>1, <3>1, <3>3, SettledFresh
    <3> QED
      BY <3>2, <3>3
  <2> QED
    BY <2>1, <2>2 DEF Asked
<1>16. ASSUME NEW p \in Pkg, Edit(p) PROVE Quiet' /\ Asked'
  BY <1>16 DEF Edit, files, session, Fresh, Quiet, Asked
<1>17. CASE UNCHANGED vars
  BY <1>17 DEF vars, Fresh, Quiet, Asked
<1> QED
  BY <1>1, <1>2, <1>3, <1>4, <1>5, <1>6, <1>7, <1>8, <1>9, <1>10, <1>11, <1>12,
     <1>13, <1>14, <1>15, <1>16, <1>17 DEF Next, User, Make, Fault

LEMMA QuietInductive == Spec => []QInv
<1>1. Init => Quiet /\ Asked
  BY DEF Init, Quiet, Asked, NoCommand
<1>2. QInv /\ [Next]_vars => QInv'
  BY TypeStep, InvStep, QuietStep DEF QInv, IInv
<1> QED
  BY InitInv, <1>1, <1>2, PTL DEF Spec, QInv

\* A package once completely built has none of its steps run again until the
\* user asks to redo or clean it, whatever happens to the packages it uses.
THEOREM SettledLeftAlone == Spec => []SettledStaysQuiet
<1>1. QInv => SettledStaysQuiet
  <2> SUFFICES ASSUME QInv, busy PROVE Top[1] \notin settled
    BY DEF SettledStaysQuiet
  <2>1. stack \in Seq(Stamp) /\ stack /= <<>> /\ ~UpToDate(Top)
    BY DEF QInv, IInv, TypeOK, RunShape
  <2>2. Top \in Own
    BY <2>1 DEF QInv, Asked, Top
  <2> QED
    BY <2>1, <2>2 DEF QInv, Quiet, UpToDate, Fresh
<1> QED
  BY <1>1, QuietInductive, PTL

-----------------------------------------------------------------------------
(* What redoing a package does not redo.                                   *)

\* Make has nothing but the steps asked for to do again in a package that was
\* completely built: all its other steps are up to date, and stay so.
Spared ==
    status = "run" /\ cmd.whole =>
        /\ cmd.kind \in Again
        /\ \A i \in 1..Len(todo) : todo[i][2] \in Restarted(cmd.kind)
        /\ \A x \in Own :
              (\E g \in cmd.goal : g[1] = x[1]) /\ x[2] \notin Restarted(cmd.kind)
              => x \in Fresh

SInv == QInv /\ Spared

LEMMA CleanRestarts ==
  ASSUME NEW p \in Pkg, NEW kind \in Again
  PROVE  CleanFor(p, kind) \in Seq({p} \X Restarted(kind))
<1> DEFINE R == {p} \X Restarted(kind)
           a == IF p \in Override THEN <<<<p, "rsynced">>>> ELSE <<>>
           b == <<<<p, "staging">>, <<p, "target">>, <<p, "images">>, <<p, "host">>>>
           c == IF kind \in {"rebuild", "reconfigure"} THEN <<<<p, "built">>>> ELSE <<>>
           e == IF kind = "reconfigure" /\ p \in Kconfig THEN <<<<p, "fixup">>>> ELSE <<>>
           d == IF kind = "reconfigure" THEN <<<<p, "configured">>>> ELSE <<>>
<1>0. \A s \in Restarted(kind) : <<p, s>> \in R
  OBVIOUS
<1> HIDE DEF R
<1>1. a \in Seq(R) /\ b \in Seq(R) /\ c \in Seq(R) /\ e \in Seq(R) /\ d \in Seq(R)
  BY <1>0 DEF Restarted
<1> HIDE DEF a, b, c, d, e
<1>2. a \o b \o c \o e \o d \in Seq(R)
  BY <1>1
<1> QED
  BY <1>2 DEF CleanFor, R, a, b, c, d, e

LEMMA SparedKept ==
  ASSUME SInv, UNCHANGED <<cmd, status, todo>>, Fresh \subseteq Fresh'
  PROVE  Spared'
BY DEF SInv, Spared

LEMMA SparedStep == SInv /\ [Next]_vars => Spared'
<1> SUFFICES ASSUME SInv, [Next]_vars PROVE Spared'
  OBVIOUS
<1>0. stamp \subseteq Stamp /\ stack \in Seq(Stamp) /\ todo \in Seq(Stamp)
  BY DEF SInv, QInv, IInv, TypeOK
<1>1. CASE \/ MakeAll \/ (\E p \in Pkg, s \in Step : MakeStep(p, s)) \/ \E p \in Pkg : Editor(p)
  <2>1. ASSUME NEW kind, NEW goal, NEW at, NEW clean,
               Run(kind, goal, at, clean), kind \notin Again
        PROVE  ~cmd'.whole
    <3>1. cmd'.whole = (kind \in Again /\ \A x \in goal : x[1] \in settled)
      BY <2>1 DEF Run
    <3> QED
      BY <2>1, <3>1, Zenon
  <2>2. "install" \notin Again /\ "editor" \notin Again
    BY DEF Again
  <2>3. ~cmd'.whole
    BY <1>1, <2>1, <2>2 DEF MakeAll, MakeStep, Editor
  <2> QED
    BY <2>3 DEF Spared
<1>2. ASSUME NEW p \in Pkg, NEW kind \in Again, MakeAgain(p, kind), cmd'.whole PROVE Spared'
  <2>1. /\ cmd'.kind = kind /\ cmd'.goal = Installs(p) /\ todo' = CleanFor(p, kind)
        /\ \A x \in Installs(p) : x[1] \in settled
        /\ Fresh' = Fresh
    BY <1>2 DEF MakeAgain, Run, files, Fresh
  <2>2. \A i \in 1..Len(todo') : todo'[i][2] \in Restarted(kind)
    <3> SUFFICES ASSUME NEW s \in Seq({p} \X Restarted(kind)), NEW i \in 1..Len(s)
                 PROVE  s[i][2] \in Restarted(kind)
      BY <2>1, CleanRestarts
    <3>1. s[i] \in {p} \X Restarted(kind)
      OBVIOUS
    <3> QED
      BY <3>1
  <2>3. \A x \in Own : (\E g \in Installs(p) : g[1] = x[1]) => x \in Fresh
    BY <2>1 DEF SInv, QInv, Quiet
  <2> QED
    BY <2>1, <2>2, <2>3 DEF Spared
<1>3. CASE status' /= "run"
  BY <1>3 DEF Spared
<1>4. CASE CleanStamp
  <2>1. /\ Fresh' = Fresh \ {Head(todo)} /\ todo /= <<>> /\ todo' = Tail(todo)
        /\ UNCHANGED <<cmd, status>>
    BY <1>4 DEF CleanStamp, Fresh
  <2> SUFFICES ASSUME status = "run", cmd.whole PROVE Spared'
    BY <2>1 DEF Spared
  <2>2. Head(todo)[2] \in Restarted(cmd.kind)
    BY <1>0, <2>1 DEF SInv, Spared
  <2>3. \A i \in 1..Len(todo') : todo'[i][2] \in Restarted(cmd.kind)
    BY <1>0, <2>1 DEF SInv, Spared
  <2> QED
    BY <2>1, <2>2, <2>3 DEF SInv, Spared
<1>5. ASSUME NEW x \in Stamp, Descend(x) \/ Skip(x) \/ StartStep(x) PROVE Spared'
  BY <1>5, SparedKept DEF Descend, Skip, StartStep, files, Fresh
<1>6. ASSUME NEW x \in Stamp, FinishStep(x) PROVE Spared'
  <2>1. stack /= <<>> /\ x = Top /\ x \notin Fresh /\ UNCHANGED <<cmd, status, todo>>
    BY <1>6 DEF FinishStep, SInv, QInv, IInv, RunShape, UpToDate, Fresh
  <2>2. x \in Own
    BY <1>0, <2>1 DEF Top, SInv, QInv, Asked
  <2> SUFFICES ASSUME status = "run", cmd.whole, NEW y \in Own,
                      \E g \in cmd.goal : g[1] = y[1], y[2] \notin Restarted(cmd.kind)
               PROVE  y \in Fresh'
    BY <2>1 DEF SInv, Spared
  <2>3. y \in Fresh /\ y /= x
    BY <2>1 DEF SInv, Spared
  <2>4. ASSUME x \in Normal(y) PROVE FALSE
    <3>1. x[1] = y[1]
      BY <2>4 DEF Normal
    <3>2. x[2] \in Restarted(cmd.kind) /\ cmd.kind \in Again
      BY <2>1, <2>2, <3>1 DEF SInv, Spared
    <3>3. x[2] /= "rsynced"
      BY <2>4 DEF Normal, InstallSteps
    <3> QED
      BY <2>4, <3>2, <3>3, StepsStamp DEF Normal, Restarted, Again
  <2> QED
    BY <1>6, <2>3, <2>4 DEF FinishStep, Touch, Fresh
<1>7. ASSUME NEW p \in Pkg, EditorExits(p) PROVE Spared'
  <2>1. status = "run" /\ cmd.kind = "editor" /\ cmd'.whole = cmd.whole
    BY <1>7 DEF EditorExits, Considering, SInv, QInv, IInv, TypeOK, Command
  <2> QED
    BY <2>1 DEF SInv, Spared, Again
<1>8. ASSUME NEW p \in Pkg, Edit(p) PROVE Spared'
  BY <1>8, SparedKept DEF Edit, files, session, Fresh
<1>9. CASE UNCHANGED vars
  BY <1>9, SparedKept DEF vars, Fresh
<1>10. ASSUME NEW p \in Pkg, \/ Dirclean(p) \/ DircleanCut(p) \/ EditCustom(p)
                            \/ UpdateConfig(p) \/ UpdateCut(p) \/ ApplyFixup(p)
       PROVE  status' /= "run"
  BY <1>10 DEF Dirclean, DircleanCut, ForgetTree, EditCustom, UpdateConfig, UpdateCut,
     ApplyFixup, Stop
<1>11. ASSUME Fault \/ Succeed \/ \E x \in Stamp : RefuseStep(x) PROVE status' /= "run"
  BY <1>11 DEF Fault, FailStep, Interrupt, Succeed, RefuseStep, Stop
<1>12. ASSUME ~cmd'.whole PROVE Spared'
  BY <1>12 DEF Spared
<1> QED
  BY <1>1, <1>2, <1>3, <1>4, <1>5, <1>6, <1>7, <1>8, <1>9, <1>10, <1>11, <1>12
     DEF Next, User, Make

LEMMA SparedInductive == Spec => []SInv
<1>1. Init => Spared
  BY DEF Init, Spared
<1>2. SInv /\ [Next]_vars => SInv'
  BY TypeStep, InvStep, QuietStep, SparedStep DEF SInv, QInv, IInv
<1>3. Init => SInv
  BY <1>1, InitInv DEF SInv, QInv, Init, Quiet, Asked, NoCommand
<1> QED
  BY <1>2, <1>3, PTL DEF Spec

\* Redoing a package that was completely built runs none of its steps but those
\* that the command is for: a rebuild with new sources does not configure again.
THEOREM RestartsInPlace == Spec => []RestartsThere
<1>1. SInv => RestartsThere
  <2> SUFFICES ASSUME SInv, busy, cmd.whole, NEW x \in cmd.goal, x[1] = Top[1]
               PROVE  Top[2] \in Restarted(cmd.kind)
    BY DEF RestartsThere
  <2>1. status = "run" /\ stack \in Seq(Stamp) /\ stack /= <<>> /\ ~UpToDate(Top)
    BY DEF SInv, QInv, IInv, TypeOK, RunShape
  <2>2. Top \in Own
    BY <2>1 DEF SInv, QInv, Asked, Top
  <2> QED
    BY <2>1, <2>2 DEF SInv, Spared, UpToDate, Fresh
<1> QED
  BY <1>1, SparedInductive, PTL

-----------------------------------------------------------------------------
(* What a failure needs.                                                    *)

\* The steps of p whose redoing would find its patches applied already.
BeforePatch(p) == {p} \X {"downloaded", "extracted", "patched"}

\* Patches completely applied are vouched for by stamps that are up to date,
\* from the download on.
Applied == \A p \in Pkg : prod[<<p, "patched">>] = "done" => BeforePatch(p) \subseteq Fresh

\* No command removes the stamp of one of those steps.
PatchesSpared == \A i \in 1..Len(todo) : todo[i] \notin BeforePatch(todo[i][1])

AInv == IInv /\ Applied /\ PatchesSpared

\* What CleanFor and EditorClean list.
Cleaned == {"rsynced", "staging", "target", "images", "host", "built", "fixup", "configured"}

LEMMA CleanSpares ==
  ASSUME NEW p \in Pkg
  PROVE  /\ \A kind \in Kinds : CleanFor(p, kind) \in Seq({p} \X Cleaned)
         /\ EditorClean(p) \in Seq({p} \X Cleaned)
<1>0. \A s \in Cleaned : <<p, s>> \in {p} \X Cleaned
  OBVIOUS
<1>1. ASSUME NEW kind \in Kinds PROVE CleanFor(p, kind) \in Seq({p} \X Cleaned)
  <2> DEFINE a == IF p \in Override THEN <<<<p, "rsynced">>>> ELSE <<>>
             b == <<<<p, "staging">>, <<p, "target">>, <<p, "images">>, <<p, "host">>>>
             c == IF kind \in {"rebuild", "reconfigure"} THEN <<<<p, "built">>>> ELSE <<>>
             e == IF kind = "reconfigure" /\ p \in Kconfig THEN <<<<p, "fixup">>>> ELSE <<>>
             d == IF kind = "reconfigure" THEN <<<<p, "configured">>>> ELSE <<>>
  <2>1. /\ a \in Seq({p} \X Cleaned) /\ b \in Seq({p} \X Cleaned) /\ c \in Seq({p} \X Cleaned)
        /\ e \in Seq({p} \X Cleaned) /\ d \in Seq({p} \X Cleaned)
    BY <1>0 DEF Cleaned
  <2> HIDE DEF a, b, c, d, e
  <2>2. a \o b \o c \o e \o d \in Seq({p} \X Cleaned)
    BY <2>1
  <2> QED
    BY <2>2 DEF CleanFor, a, b, c, d, e
<1>2. EditorClean(p) \in Seq({p} \X Cleaned)
  BY <1>0 DEF EditorClean, Cleaned
<1> QED
  BY <1>1, <1>2

LEMMA SparedBy ==
  ASSUME NEW p \in Pkg, NEW s \in Seq({p} \X Cleaned), todo' = s
  PROVE  PatchesSpared'
<1> SUFFICES ASSUME NEW i \in 1..Len(s) PROVE s[i] \notin BeforePatch(s[i][1])
  BY DEF PatchesSpared
<1>1. s[i] \in {p} \X Cleaned
  OBVIOUS
<1> QED
  BY <1>1 DEF BeforePatch, Cleaned

LEMMA NoneSpared == todo' = <<>> => PatchesSpared'
BY DEF PatchesSpared

\* Applied survives if no patches are completed and no stamp of a package that
\* has its patches is lost.
LEMMA AppliedKept ==
  ASSUME Applied,
         \A p \in Pkg : prod'[<<p, "patched">>] = "done" =>
             /\ prod[<<p, "patched">>] = "done"
             /\ BeforePatch(p) \subseteq Fresh => BeforePatch(p) \subseteq Fresh'
  PROVE  Applied'
BY DEF Applied

LEMMA FinishApplied ==
  ASSUME AInv, NEW x \in Stamp, FinishStep(x)
  PROVE  Applied'
<1>0. /\ \A y \in Stamp \ {x} : prod'[y] = prod[y]
      /\ x = Top /\ Prereqs(x) \subseteq seen /\ x \notin Fresh
  BY DEF FinishStep, AInv, IInv, TypeOK, RunShape, UpToDate, Fresh
<1>1. \A y \in Fresh : x \notin Normal(y) => y \in Fresh'
  BY DEF FinishStep, Touch, Fresh
<1>2. x \in Fresh'
  <2>1. x \in stamp' /\ x \notin {y \in stamp \ {x} : x \in Normal(y)}
    BY DEF FinishStep, Touch
  <2> QED
    BY <2>1 DEF FinishStep, Touch, Fresh
<1> SUFFICES ASSUME NEW p \in Pkg, prod'[<<p, "patched">>] = "done"
             PROVE  BeforePatch(p) \subseteq Fresh'
  BY DEF Applied
<1>3. <<p, "patched">> \in Stamp /\ <<p, "extracted">> \in Stamp /\ <<p, "downloaded">> \in Stamp
  BY StepsStamp DEF Step
<1>4. /\ Normal(<<p, "downloaded">>) = {} /\ Normal(<<p, "extracted">>) = {<<p, "downloaded">>}
      /\ Normal(<<p, "patched">>) = {<<p, "extracted">>}
  BY DEF Normal
<1>5. CASE x = <<p, "patched">>
  <2>1. <<p, "extracted">> \in seen
    BY <1>0, <1>4, <1>5 DEF Prereqs
  <2>2. <<p, "downloaded">> \in seen
    BY <1>4, <2>1 DEF AInv, IInv, SeenDone, Prereqs
  <2>3. <<p, "extracted">> \in Fresh /\ <<p, "downloaded">> \in Fresh
    BY <2>1, <2>2 DEF AInv, IInv, SeenDone, UpToDate, Fresh
  <2> QED
    BY <1>1, <1>2, <1>4, <1>5, <2>3 DEF BeforePatch
<1>6. CASE x /= <<p, "patched">>
  <2>1. BeforePatch(p) \subseteq Fresh
    BY <1>0, <1>3, <1>6 DEF AInv, Applied
  <2>2. x \notin BeforePatch(p)
    BY <1>0, <2>1
  <2> QED
    BY <1>1, <1>4, <2>1, <2>2 DEF BeforePatch
<1> QED
  BY <1>5, <1>6

LEMMA AppliedStep == AInv /\ [Next]_vars => Applied' /\ PatchesSpared'
<1> SUFFICES ASSUME AInv, [Next]_vars PROVE Applied' /\ PatchesSpared'
  OBVIOUS
<1>0. /\ stamp \subseteq Stamp /\ todo \in Seq(Stamp) /\ Applied /\ PatchesSpared
      /\ prod \in [Stamp -> {"none", "partial", "done"}]
      /\ \A p \in Pkg : <<p, "patched">> \in Stamp
  BY StepsStamp DEF AInv, IInv, TypeOK, Step
<1>a. UNCHANGED files => Applied'
  BY <1>0 DEF files, Applied, Fresh
<1>1. CASE MakeAll \/ (\E p \in Pkg : Editor(p)) \/ \E p \in Pkg, s \in Step : MakeStep(p, s)
  BY <1>1, <1>a, NoneSpared DEF MakeAll, Editor, MakeStep, Run
<1>2. ASSUME NEW p \in Pkg, NEW kind \in Again,
             MakeAgain(p, kind)
      PROVE  Applied' /\ PatchesSpared'
  <2>1. todo' = CleanFor(p, kind) /\ UNCHANGED files
    BY <1>2 DEF MakeAgain, Run
  <2>2. CleanFor(p, kind) \in Seq({p} \X Cleaned)
    BY CleanSpares DEF Kinds, Again
  <2> QED
    BY <1>a, <2>1, <2>2, SparedBy
<1>3. ASSUME NEW p \in Pkg, Dirclean(p) \/ DircleanCut(p)
      PROVE  Applied' /\ PatchesSpared'
  <2>1. todo' = todo /\ \A y \in Fresh : y[1] /= p => y \in Fresh'
    BY <1>3 DEF Dirclean, DircleanCut, ForgetTree, Fresh
  <2>2. prod'[<<p, "patched">>] /= "done"
    BY <1>0, <1>3 DEF Dirclean, DircleanCut, InTree
  <2>3. \A q \in Pkg \ {p} : prod'[<<q, "patched">>] = prod[<<q, "patched">>]
    BY <1>0, <1>3 DEF Dirclean, DircleanCut
  <2>4. Applied'
    BY <1>0, <2>1, <2>2, <2>3, AppliedKept DEF BeforePatch
  <2> QED
    BY <1>0, <2>1, <2>4 DEF PatchesSpared
<1>4. ASSUME NEW p \in Pkg, EditCustom(p) \/ UpdateConfig(p) \/ UpdateCut(p)
      PROVE  Applied' /\ PatchesSpared'
  <2>1. /\ todo' = todo /\ prod' = prod
        /\ \A y \in Fresh : y /= <<p, "dotconfig">> => y \in Fresh'
    BY <1>4 DEF EditCustom, UpdateConfig, UpdateCut, Fresh
  <2>2. Applied'
    BY <1>0, <2>1, AppliedKept DEF BeforePatch
  <2> QED
    BY <1>0, <2>1, <2>2 DEF PatchesSpared
<1>5. CASE CleanStamp
  <2>1. /\ todo /= <<>> /\ todo' = Tail(todo) /\ prod' = prod
        /\ Fresh' = Fresh \ {Head(todo)}
    BY <1>5 DEF CleanStamp, Fresh
  <2>2. \A q \in Pkg : Head(todo) \notin BeforePatch(q)
    BY <1>0, <2>1 DEF PatchesSpared, BeforePatch
  <2>3. Applied'
    BY <1>0, <2>1, <2>2, AppliedKept
  <2>4. PatchesSpared'
    BY <1>0, <2>1 DEF PatchesSpared
  <2> QED
    BY <2>3, <2>4
<1>6. ASSUME NEW x \in Stamp, StartStep(x) PROVE Applied' /\ PatchesSpared'
  <2>1. Fresh' = Fresh /\ todo' = todo /\ \A y \in Stamp : prod'[y] \in {prod[y], "partial"}
    BY <1>0, <1>6 DEF StartStep, Fresh
  <2>2. Applied'
    BY <1>0, <2>1, AppliedKept
  <2> QED
    BY <1>0, <2>1, <2>2 DEF PatchesSpared
<1>7. ASSUME NEW x \in Stamp, FinishStep(x) PROVE Applied' /\ PatchesSpared'
  <2>1. todo' = todo
    BY <1>7 DEF FinishStep
  <2> QED
    BY <1>0, <1>7, <2>1, FinishApplied DEF PatchesSpared
<1>8. ASSUME NEW p \in Pkg, EditorExits(p) PROVE Applied' /\ PatchesSpared'
  <2>1. Fresh' = Fresh /\ prod' = prod /\ todo' = EditorClean(p)
    BY <1>8 DEF EditorExits, Fresh
  <2>2. EditorClean(p) \in Seq({p} \X Cleaned)
    BY CleanSpares
  <2> QED
    BY <1>0, <2>1, <2>2, AppliedKept, SparedBy
<1>9. ASSUME NEW p \in Pkg, ApplyFixup(p) PROVE Applied' /\ PatchesSpared'
  <2>1. todo' = <<>> /\ \A q \in Pkg : prod'[<<q, "patched">>] = prod[<<q, "patched">>]
    BY <1>0, <1>9 DEF ApplyFixup, Stop
  <2>2. \A y \in Fresh : <<p, "fixup">> \notin Normal(y) => y \in Fresh'
    BY <1>9 DEF ApplyFixup, Touch, Fresh
  <2>3. \A q \in Pkg : \A y \in BeforePatch(q) : <<p, "fixup">> \notin Normal(y)
    BY DEF BeforePatch, Normal
  <2>4. Applied'
    BY <1>0, <2>1, <2>2, <2>3, AppliedKept
  <2> QED
    BY <2>1, <2>4, NoneSpared
<1>10. CASE FailStep \/ Interrupt \/ Succeed \/ \E x \in Stamp : RefuseStep(x)
  BY <1>10, <1>a, NoneSpared DEF FailStep, Interrupt, Succeed, RefuseStep, Stop
<1>11. CASE \E x \in Stamp : Descend(x) \/ Skip(x)
  BY <1>0, <1>11, <1>a DEF Descend, Skip, PatchesSpared
<1>12. CASE \E p \in Pkg : Edit(p)
  BY <1>0, <1>12, <1>a DEF Edit, session, PatchesSpared
<1>13. CASE UNCHANGED vars
  BY <1>0, <1>13, <1>a DEF vars, files, PatchesSpared
<1> QED
  BY <1>1, <1>2, <1>3, <1>4, <1>5, <1>6, <1>7, <1>8, <1>9, <1>10, <1>11, <1>12, <1>13
     DEF Next, User, Make, Fault

LEMMA AppliedInductive == Spec => []AInv
<1>1. Init => Applied /\ PatchesSpared
  <2> SUFFICES ASSUME Init PROVE Applied /\ PatchesSpared
    OBVIOUS
  <2>1. \A p \in Pkg : prod[<<p, "patched">>] = "none"
    BY StepsStamp DEF Init, Step
  <2> QED
    BY <2>1 DEF Init, Applied, PatchesSpared
<1>2. AInv /\ [Next]_vars => AInv'
  BY TypeStep, InvStep, AppliedStep DEF AInv, IInv
<1> QED
  BY InitInv, <1>1, <1>2, PTL DEF Spec, AInv

\* Without a new fault a run fails only over patches that an interrupted step or
\* dirclean left half applied: complete ones are never applied again.
THEOREM FailureIsCaused == Spec => FailureHasCause
<1> DEFINE Cause == status = "run" /\ status' = "failed" /\ faults' = faults =>
                        Top[2] = "patched" /\ prod[Top] = "partial"
<1>1. ASSUME AInv, [Next]_vars PROVE Cause
  <2> SUFFICES ASSUME status = "run", status' = "failed", faults' = faults
               PROVE  Top[2] = "patched" /\ prod[Top] = "partial"
    OBVIOUS
  <2>1. faults \in Nat
    BY <1>1, PkgAssumption DEF AInv, IInv, TypeOK
  <2>2. ~Fault
    BY <2>1 DEF Fault, FailStep, Interrupt
  <2>3. PICK x \in Stamp : RefuseStep(x)
    BY <1>1, <2>2 DEF Next, User, MakeAll, MakeStep, MakeAgain, Run, Idle, Dirclean, DircleanCut,
       ForgetTree, Edit, session, EditCustom, Editor, UpdateConfig, UpdateCut, Make, CleanStamp,
       Descend, Skip, StartStep, FinishStep, EditorExits, ApplyFixup, Succeed, Stop, vars
  <2>4. Top = x /\ x[2] = "patched" /\ prod[x] /= "none" /\ ~UpToDate(x)
    BY <2>3 DEF RefuseStep, AtTop, Refused
  <2>5. prod[x] /= "done"
    <3>1. x = <<x[1], "patched">> /\ x[1] \in Pkg
      BY <2>4 DEF Stamp
    <3>2. x \in BeforePatch(x[1])
      BY <3>1 DEF BeforePatch
    <3>3. x \notin Fresh
      BY <2>4 DEF UpToDate, Fresh
    <3> QED
      BY <1>1, <3>1, <3>2, <3>3 DEF AInv, Applied
  <2>6. prod[x] \in {"none", "partial", "done"}
    BY <1>1 DEF AInv, IInv, TypeOK
  <2> QED
    BY <2>4, <2>5, <2>6
<1>2. AInv /\ [Next]_vars => [Cause]_vars
  BY <1>1
<1> QED
  BY AppliedInductive, <1>2, PTL DEF Spec, FailureHasCause
=============================================================================
