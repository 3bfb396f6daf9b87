------------------------------ MODULE PkgBuild ------------------------------
(***************************************************************************)
(* The package infrastructure of buildstaq/package/pkg-generic.mk: every   *)
(* package goes through steps, each step's recipe ends with "touch" of a   *)
(* stamp file, and make decides from the stamps what is left to do.        *)
(*                                                                         *)
(* Modification times are abstracted to the set "stale" of stamps older    *)
(* than one of their normal prerequisites.  One make runs at a time, one   *)
(* recipe at a time (.NOTPARALLEL); between runs the user edits sources,   *)
(* asks for a clean or reruns make.  A recipe, a clean or a dirclean can   *)
(* be cut short by an error, a Ctrl-C or a crash.                          *)
(*                                                                         *)
(* A package of package/pkg-kconfig.mk (linux, busybox...) has two steps   *)
(* more: its .config is made from a file of the user, which is outside of  *)
(* the build directory, and fixed up.  The user changes either.            *)
(***************************************************************************)
EXTENDS Naturals, Sequences

CONSTANTS
    Pkg,            \* the packages of the configuration
    Host,           \* those built for the host
    Override,       \* those with <PKG>_OVERRIDE_SRCDIR
    Staging,        \* <PKG>_INSTALL_STAGING = YES
    Target,         \* <PKG>_INSTALL_TARGET = YES
    Images,         \* <PKG>_INSTALL_IMAGES = YES
    HasPatches,     \* packages with at least one patch to apply
    Deps,           \* Deps[p]: <PKG>_FINAL_DEPENDENCIES
    DownloadDeps,   \* <PKG>_FINAL_DOWNLOAD_DEPENDENCIES
    ExtractDeps,    \* <PKG>_FINAL_EXTRACT_DEPENDENCIES
    PatchDeps,      \* <PKG>_FINAL_PATCH_DEPENDENCIES
    Kconfig,        \* those with a configuration, kconfig-package
    KconfigDeps,    \* <PKG>_KCONFIG_DEPENDENCIES
    Configs,        \* configurations that the user may want
    MaxEdits,       \* bound: edits of the override source directories
    MaxFaults,      \* bound: runs of make that fail or are cut short
    MayTear         \* bound: packages whose dirclean can be cut short

ASSUME PkgAssumption ==
    /\ Host \subseteq Pkg /\ Override \subseteq Pkg /\ HasPatches \subseteq Pkg
    /\ Staging \subseteq Pkg /\ Target \subseteq Pkg /\ Images \subseteq Pkg
    /\ Deps \in [Pkg -> SUBSET Pkg] /\ DownloadDeps \in [Pkg -> SUBSET Pkg]
    /\ ExtractDeps \in [Pkg -> SUBSET Pkg] /\ PatchDeps \in [Pkg -> SUBSET Pkg]
    /\ Kconfig \subseteq Pkg /\ KconfigDeps \in [Pkg -> SUBSET Pkg]
    /\ \A p \in Pkg : KconfigDeps[p] \subseteq Deps[p]
    /\ MaxEdits \in Nat /\ MaxFaults \in Nat /\ MayTear \subseteq Pkg

\* The least set that holds D[p] and, with a package q, also D[q].
Reach(D, p) ==
    {q \in Pkg : \A S \in SUBSET Pkg :
        (D[p] \subseteq S /\ \A r \in S : D[r] \subseteq S) => q \in S}

\* <PKG>_FINAL_ALL_DEPENDENCIES and <PKG>_FINAL_RECURSIVE_DEPENDENCIES
AllDeps == [p \in Pkg |-> Deps[p] \cup DownloadDeps[p] \cup ExtractDeps[p] \cup PatchDeps[p]]
RecursiveDeps(p) == Reach(AllDeps, p)

ASSUME AcyclicAssumption == \A p \in Pkg : p \notin RecursiveDeps(p)

Step == {"downloaded", "extracted", "rsynced", "patched", "dotconfig", "fixup",
         "configured", "built", "staging", "target", "images", "host"}

Stamp == Pkg \X Step

-----------------------------------------------------------------------------
(* The sequencing rules.                                                   *)

\* The last step before configuring: the one that leaves the source tree ready.
TreeStep(p) == IF p \in Override THEN "rsynced" ELSE "patched"

\* What the phony target <pkg>-install stands for.
InstallSteps(p) ==
    IF p \in Host THEN {"host"}
    ELSE (IF p \in Staging THEN {"staging"} ELSE {})
         \cup (IF p \in Target THEN {"target"} ELSE {})
         \cup (IF p \in Images THEN {"images"} ELSE {})

Installs(p) == {p} \X InstallSteps(p)

\* Steps whose product lies in the build directory, hence goes with it.
InTree == {"extracted", "rsynced", "patched", "dotconfig", "fixup", "configured", "built"}

\* (mutant) the dependencies of a package are normal prerequisites
NormalDeps(x) ==
    LET p == x[1]
        own == CASE x[2] = "extracted"  -> {"downloaded"}
                 [] x[2] = "patched"    -> {"extracted"}
                 [] x[2] = "configured" -> IF p \in Override THEN {} ELSE {"patched"}
                 [] x[2] = "built"      -> {"configured"}
                 [] x[2] = "target"     -> {"built"} \cup (InstallSteps(p) \cap {"staging"})
                 [] x[2] \in {"staging", "images", "host"} -> {"built"}
                 [] OTHER -> {}
    IN  ({p} \X own) \cup IF x[2] = "configured" THEN UNION {Installs(q) : q \in Deps[p]} ELSE {}

\* (mutant) the configuration is looked at only if there is none
NormalNoFixup(x) ==
    IF x[2] = "fixup" THEN {} ELSE
    LET p == x[1] IN
    {p} \X
    CASE x[2] = "extracted"  -> {"downloaded"}
      [] x[2] = "patched"    -> {"extracted"}
      [] x[2] = "configured" -> (IF p \in Override THEN {} ELSE {"patched"})
                                \cup (IF p \in Kconfig THEN {"fixup"} ELSE {})
      [] x[2] = "built"      -> {"configured"}
      [] x[2] = "target"     -> {"built"} \cup (InstallSteps(p) \cap {"staging"})
      [] x[2] \in {"staging", "images", "host"} -> {"built"}
      [] OTHER -> {}

\* (mutant) configure is newer than the sources it was given
NormalRsync(x) ==
    LET p == x[1] IN
    {p} \X
    CASE x[2] = "extracted"  -> {"downloaded"}
      [] x[2] = "patched"    -> {"extracted"}
      [] x[2] = "fixup"      -> {"dotconfig"}
      [] x[2] = "configured" -> {TreeStep(p)} \cup (IF p \in Kconfig THEN {"fixup"} ELSE {})
      [] x[2] = "built"      -> {"configured"}
      [] x[2] = "target"     -> {"built"} \cup (InstallSteps(p) \cap {"staging"})
      [] x[2] \in {"staging", "images", "host"} -> {"built"}
      [] OTHER -> {}

\* Prerequisites of the same package that make compares by time.
Normal(x) ==
    LET p == x[1] IN
    {p} \X
    CASE x[2] = "extracted"  -> {"downloaded"}
      [] x[2] = "patched"    -> {"extracted"}
      [] x[2] = "fixup"      -> {"dotconfig"}
      [] x[2] = "configured" -> (IF p \in Override THEN {} ELSE {"patched"})
                                \cup (IF p \in Kconfig THEN {"fixup"} ELSE {})
      [] x[2] = "built"      -> {"configured"}
      [] x[2] = "target"     -> {"built"} \cup (InstallSteps(p) \cap {"staging"})
      [] x[2] \in {"staging", "images", "host"} -> {"built"}
      [] OTHER -> {}

\* (mutant) a kind of dependency is forgotten
OrderOnlyNoDeps(x) ==
    CASE x[2] = "extracted"  -> UNION {Installs(q) : q \in ExtractDeps[x[1]]}
      [] x[2] = "configured" -> IF x[1] \in Override THEN {<<x[1], "rsynced">>} ELSE {}
      [] OTHER -> {}

\* Prerequisites behind "|": made first, their time does not count.
OrderOnly(x) ==
    LET p == x[1] IN
    CASE x[2] = "downloaded" -> UNION {Installs(q) : q \in DownloadDeps[p]}
      [] x[2] = "extracted"  -> UNION {Installs(q) : q \in ExtractDeps[p]}
      [] x[2] = "patched"    -> {<<q, TreeStep(q)>> : q \in PatchDeps[p]}
      [] x[2] = "dotconfig"  -> {<<p, TreeStep(p)>>} \cup UNION {Installs(q) : q \in KconfigDeps[p]}
      [] x[2] = "configured" -> (UNION {Installs(q) : q \in Deps[p]})
                                \cup (IF p \in Override THEN {<<p, "rsynced">>} ELSE {})
      [] OTHER -> {}

Prereqs(x) == Normal(x) \cup OrderOnly(x)

\* (mutant) the sources are not synced again
CleanForNoRsync(p, kind) ==
    <<<<p, "staging">>, <<p, "target">>, <<p, "images">>, <<p, "host">>>>
    \o (IF kind \in {"rebuild", "reconfigure"} THEN <<<<p, "built">>>> ELSE <<>>)

\* (mutant) reconfiguring also drops the extraction
CleanForExtract(p, kind) ==
    CleanForNoRsync(p, kind)
    \o (IF kind = "reconfigure" THEN <<<<p, "configured">>, <<p, "extracted">>>> ELSE <<>>)

\* The stamps <pkg>-reinstall, -rebuild and -reconfigure remove, in order.
CleanFor(p, kind) ==
    (IF p \in Override THEN <<<<p, "rsynced">>>> ELSE <<>>)
    \o <<<<p, "staging">>, <<p, "target">>, <<p, "images">>, <<p, "host">>>>
    \o (IF kind \in {"rebuild", "reconfigure"} THEN <<<<p, "built">>>> ELSE <<>>)
    \o (IF kind = "reconfigure" /\ p \in Kconfig THEN <<<<p, "fixup">>>> ELSE <<>>)
    \o (IF kind = "reconfigure" THEN <<<<p, "configured">>>> ELSE <<>>)

\* The stamps a configuration editor removes when it has been left.
EditorClean(p) ==
    <<<<p, "fixup">>, <<p, "configured">>, <<p, "built">>,
      <<p, "target">>, <<p, "staging">>, <<p, "images">>>>

-----------------------------------------------------------------------------
VARIABLES
    stamp,    \* the stamp files that exist
    stale,    \* existing stamps older than a normal prerequisite
    prod,     \* what a step left: "none", "partial" or "done"
    ver,      \* the source version a step's product was made from
    src,      \* the version in the override source directory
    torn,     \* packages whose dirclean was cut short, or whose half-made
              \* .config was saved back
    custom,   \* the configuration in a package's KCONFIG_FILE
    dot,      \* the one in its .config
    conf,     \* the one that a step's product was made from
    loose,    \* packages whose .config changed behind their stamps
    cmd,      \* the command of the current or last make run
    status,   \* "ready", "run", "ok" or "failed"
    todo,     \* stamps the command still has to remove
    stack,    \* the targets make is descending into, innermost last
    seen,     \* the targets make has finished with in this run
    busy,     \* the recipe of the innermost target is running
    settled,  \* packages fully built and not asked to be redone since
    faults    \* faults so far

config  == <<custom, dot, conf, loose>>
files   == <<stamp, stale, prod, ver, torn, config>>
session == <<cmd, status, todo, stack, seen, busy>>
vars    == <<stamp, stale, prod, ver, src, torn, config, cmd, status, todo, stack, seen,
             busy, settled, faults>>

Again == {"reinstall", "rebuild", "reconfigure"}
Kinds == {"install", "editor", "fixup"} \cup Again

\* What a file holds that is not there, or of which only a part was written.
Half == "half"

\* The command, what it makes, the version of the sources when it was given, and
\* whether it redoes a package that was completely built, and left alone, until then.
Command == [kind : Kinds, goal : SUBSET Stamp, at : 0..MaxEdits, whole : BOOLEAN]

NoCommand == [kind |-> "install", goal |-> {}, at |-> 0, whole |-> FALSE]

TypeOK ==
    /\ stamp \subseteq Stamp
    /\ stale \subseteq stamp
    /\ prod \in [Stamp -> {"none", "partial", "done"}]
    /\ ver \in [Stamp -> 0..MaxEdits]
    /\ src \in [Pkg -> 0..MaxEdits]
    /\ torn \subseteq Pkg
    /\ custom \in [Pkg -> Configs \cup {Half}]
    /\ dot \in [Pkg -> Configs \cup {Half}]
    /\ conf \in [Stamp -> Configs \cup {Half}]
    /\ loose \subseteq Pkg
    /\ cmd \in Command
    /\ status \in {"ready", "run", "ok", "failed"}
    /\ todo \in Seq(Stamp)
    /\ stack \in Seq(Stamp)
    /\ seen \subseteq Stamp
    /\ busy \in BOOLEAN
    /\ settled \subseteq Pkg
    /\ faults \in 0..MaxFaults

\* A clean output directory.
Init ==
    /\ stamp = {} /\ stale = {}
    /\ prod = [x \in Stamp |-> "none"]
    /\ ver = [x \in Stamp |-> 0]
    /\ src = [p \in Pkg |-> 0]
    /\ torn = {}
    /\ custom \in [Pkg -> Configs]
    /\ dot = [p \in Pkg |-> Half]
    /\ conf = [x \in Stamp |-> Half]
    /\ loose = {}
    /\ cmd = NoCommand
    /\ status = "ready"
    /\ todo = <<>> /\ stack = <<>> /\ seen = {} /\ busy = FALSE
    /\ settled = {}
    /\ faults = 0

-----------------------------------------------------------------------------
(* What the user does between two runs of make.                            *)

Idle == status /= "run"

Run(kind, goal, at, clean) ==
    /\ Idle
    /\ cmd' = [kind |-> kind, goal |-> goal, at |-> at,
               whole |-> kind \in Again /\ \A x \in goal : x[1] \in settled]
    /\ status' = "run"
    /\ todo' = clean
    /\ stack' = <<>> /\ seen' = {} /\ busy' = FALSE
    /\ UNCHANGED <<files, src, faults>>

\* make (the packages of "world")
MakeAll ==
    /\ Run("install", UNION {Installs(p) : p \in Pkg}, 0, <<>>)
    /\ UNCHANGED settled

\* make <pkg>-source, -extract, -patch or -rsync, -configure, -build, or
\* -install-target and the like
MakeStep(p, s) ==
    /\ s \in {"configured", "built", TreeStep(p)} \cup InstallSteps(p)
             \cup (IF p \in Override THEN {} ELSE {"downloaded", "extracted"})
    /\ Run("install", {<<p, s>>}, 0, <<>>)
    /\ UNCHANGED settled

\* make <pkg>-reinstall, <pkg>-rebuild or <pkg>-reconfigure
MakeAgain(p, kind) ==
    /\ Run(kind, Installs(p), src[p], CleanFor(p, kind))
    /\ settled' = settled \ {p}

\* make <pkg>-dirclean: rm -Rf of the build directory
ForgetTree(p, S) ==
    /\ Idle
    /\ stamp' = stamp \ S /\ stale' = stale \ S
    /\ settled' = settled \ {p}
    /\ status' = "ready"
    /\ cmd' = NoCommand
    /\ loose' = loose \ {p}
    /\ UNCHANGED <<src, custom, todo, stack, seen, busy>>

Dirclean(p) ==
    /\ ForgetTree(p, {p} \X Step)
    /\ ver' = [x \in Stamp |-> IF x[1] = p /\ x[2] \in InTree THEN 0 ELSE ver[x]]
    /\ conf' = [x \in Stamp |-> IF x[1] = p /\ x[2] \in InTree THEN Half ELSE conf[x]]
    /\ prod' = [x \in Stamp |-> IF x[1] = p /\ x[2] \in InTree THEN "none" ELSE prod[x]]
    /\ torn' = torn \ {p}
    /\ dot' = [dot EXCEPT ![p] = Half]
    /\ UNCHANGED faults

\* rm -Rf cut short: any of the files may be left, any may be gone.
DircleanCut(p) ==
    /\ p \in MayTear /\ faults < MaxFaults
    /\ \E S \in SUBSET (stamp \cap ({p} \X Step)) : ForgetTree(p, S)
    /\ prod' = [x \in Stamp |-> IF x[1] = p /\ x[2] \in InTree /\ prod[x] /= "none"
                                THEN "partial" ELSE prod[x]]
    /\ torn' = torn \cup {p}
    /\ \E c \in {dot[p], Half} : dot' = [dot EXCEPT ![p] = c]
    /\ faults' = faults + 1
    /\ UNCHANGED <<ver, conf>>

\* The developer changes the sources of an overridden package, at any time.
Edit(p) ==
    /\ p \in Override /\ src[p] < MaxEdits
    /\ src' = [src EXCEPT ![p] = @ + 1]
    /\ UNCHANGED <<files, session, settled, faults>>

\* The user changes KCONFIG_FILE, between two runs of make.
EditCustom(p) ==
    /\ Idle /\ p \in Kconfig
    /\ \E c \in Configs \ {custom[p]} : custom' = [custom EXCEPT ![p] = c]
    /\ stale' = stale \cup (stamp \cap {<<p, "dotconfig">>})
    /\ settled' = settled \ {p}
    /\ status' = "ready" /\ cmd' = NoCommand
    /\ UNCHANGED <<stamp, prod, ver, torn, dot, conf, loose, src, todo, stack, seen, busy, faults>>

\* make <pkg>-menuconfig and the like
Editor(p) ==
    /\ p \in Kconfig
    /\ Run("editor", {<<p, "fixup">>}, 0, <<>>)
    /\ settled' = settled \ {p}

\* make <pkg>-update-config, refused unless the package has been configured: the
\* .config is copied over KCONFIG_FILE, which is then given the time of the
\* stamp.  If .config was half made, the stamp now vouches for it.
UpdateConfig(p) ==
    /\ Idle /\ p \in Kconfig /\ {<<p, "dotconfig">>, <<p, "fixup">>} \subseteq stamp
    /\ custom' = [custom EXCEPT ![p] = dot[p]]
    /\ stale' = stale \ {<<p, "dotconfig">>}
    /\ torn' = IF prod[<<p, "dotconfig">>] = "done" THEN torn ELSE torn \cup {p}
    /\ status' = "ready" /\ cmd' = NoCommand
    /\ UNCHANGED <<stamp, prod, ver, dot, conf, loose, src, todo, stack, seen, busy, settled, faults>>

\* It is cut short before the time is set back, or while it copies.
UpdateCut(p) ==
    /\ Idle /\ p \in Kconfig /\ <<p, "fixup">> \in stamp
    /\ faults < MaxFaults /\ faults' = faults + 1
    /\ \E c \in {dot[p], Half} : custom' = [custom EXCEPT ![p] = c]
    /\ stale' = stale \cup (stamp \cap {<<p, "dotconfig">>})
    /\ settled' = settled \ {p}
    /\ status' = "ready" /\ cmd' = NoCommand
    /\ UNCHANGED <<stamp, prod, ver, torn, dot, conf, loose, src, todo, stack, seen, busy>>

-----------------------------------------------------------------------------
(* One run of make.                                                        *)

Top == stack[Len(stack)]
Pop == SubSeq(stack, 1, Len(stack) - 1)

Stop(result) ==
    /\ status' = result
    /\ cmd' = IF result = "ok" THEN cmd ELSE NoCommand
    /\ todo' = <<>> /\ stack' = <<>> /\ seen' = {} /\ busy' = FALSE

\* The rm commands of <pkg>-clean-for-* come before the package's own goals.
CleanStamp ==
    /\ status = "run" /\ todo /= <<>>
    /\ stamp' = stamp \ {Head(todo)} /\ stale' = stale \ {Head(todo)}
    /\ todo' = Tail(todo)
    /\ loose' = IF Head(todo)[2] = "built" THEN loose \ {Head(todo)[1]} ELSE loose
    /\ UNCHANGED <<prod, ver, torn, custom, dot, conf, src, cmd, status, stack, seen, busy, settled, faults>>

Considering == status = "run" /\ todo = <<>> /\ ~busy /\ cmd.kind /= "fixup"

\* touch x: newer than its prerequisites, and what waits on x is older.
Touch(x) ==
    /\ stamp' = stamp \cup {x}
    /\ stale' = (stale \ {x}) \cup {y \in stamp \ {x} : x \in Normal(y)}

\* Take up a goal, or descend into a prerequisite not finished with yet.
Descend(x) ==
    /\ Considering
    /\ x \notin seen
    /\ IF stack = <<>> THEN x \in cmd.goal ELSE x \in Prereqs(Top)
    /\ stack' = Append(stack, x)
    /\ UNCHANGED <<files, src, cmd, status, todo, seen, busy, settled, faults>>

AtTop(x) == Considering /\ stack /= <<>> /\ Top = x /\ Prereqs(x) \subseteq seen

UpToDate(x) == x \in stamp /\ x \notin stale

Skip(x) ==
    /\ AtTop(x) /\ UpToDate(x)
    /\ seen' = seen \cup {x} /\ stack' = Pop
    /\ UNCHANGED <<files, src, cmd, status, todo, busy, settled, faults>>

\* apply-patches.sh refuses a patch that the tree's list already names: all of
\* them, once the step is done, and any or none if it was cut short.
Refused(x, left) ==
    x[2] = "patched" /\ x[1] \in HasPatches /\ prod[x] \in left

\* (mutant) the stamp is touched before the commands
StartStepTouch(x) ==
    /\ AtTop(x) /\ ~UpToDate(x) /\ ~Refused(x, {"done"})
    /\ busy' = TRUE
    /\ prod' = [prod EXCEPT ![x] = "partial"]
    /\ Touch(x)
    /\ UNCHANGED <<ver, torn, config, src, cmd, status, todo, stack, seen, settled, faults>>

StartStep(x) ==
    /\ AtTop(x) /\ ~UpToDate(x) /\ ~Refused(x, {"done"})
    /\ busy' = TRUE
    /\ prod' = [prod EXCEPT ![x] = "partial"]
    /\ ver' = [ver EXCEPT ![x] = 0] /\ conf' = [conf EXCEPT ![x] = Half]
    /\ dot' = IF x[2] = "dotconfig" THEN [dot EXCEPT ![x[1]] = Half] ELSE dot
    /\ UNCHANGED <<stamp, stale, torn, custom, loose, src, cmd, status, todo, stack, seen, settled, faults>>

RefuseStep(x) ==
    /\ AtTop(x) /\ ~UpToDate(x) /\ Refused(x, {"partial", "done"})
    /\ Stop("failed")
    /\ UNCHANGED <<files, src, settled, faults>>

\* The version of what the recipe of x reads.
InputVer(x) ==
    CASE x[2] = "rsynced" -> src[x[1]]
      [] x[2] \in {"configured", "built"} -> ver[<<x[1], TreeStep(x[1])>>]
      [] x[2] \in {"staging", "target", "images", "host"} -> ver[<<x[1], "built">>]
      [] OTHER -> 0

\* The .config that is merged from KCONFIG_FILE, and the one that the build
\* of the package reads.
NewDot(x) == IF x[2] = "dotconfig" THEN [dot EXCEPT ![x[1]] = custom[x[1]]] ELSE dot
InputConf(x) ==
    CASE x[2] = "built" -> dot[x[1]]
      [] x[2] \in {"staging", "target", "images", "host"} -> conf[<<x[1], "built">>]
      [] OTHER -> conf[x]

FinishStep(x) ==
    /\ busy /\ Top = x
    /\ prod' = [prod EXCEPT ![x] = "done"]
    /\ ver' = [ver EXCEPT ![x] = InputVer(x)]
    /\ dot' = NewDot(x)
    /\ conf' = [conf EXCEPT ![x] = InputConf(x)]
    /\ loose' = IF x[2] = "built" THEN loose \ {x[1]} ELSE loose
    /\ Touch(x)
    /\ busy' = FALSE
    /\ seen' = seen \cup {x} /\ stack' = Pop
    /\ UNCHANGED <<torn, custom, src, cmd, status, todo, settled, faults>>

\* (mutant) the recipe goes on to the touch after a failed command
FailStepNoExit ==
    /\ busy /\ faults < MaxFaults /\ faults' = faults + 1
    /\ Touch(Top)
    /\ busy' = FALSE
    /\ seen' = seen \cup {Top} /\ stack' = Pop
    /\ UNCHANGED <<prod, ver, torn, config, src, cmd, status, todo, settled>>

\* A command of the recipe fails: the stamp is not touched.
FailStep ==
    /\ busy /\ faults < MaxFaults /\ faults' = faults + 1
    /\ Stop("failed")
    /\ UNCHANGED <<files, src, settled>>

\* Ctrl-C, or the machine goes down, outside of a recipe.
Interrupt ==
    /\ status = "run" /\ ~busy /\ faults < MaxFaults
    /\ faults' = faults + 1
    /\ Stop("failed")
    /\ UNCHANGED <<files, src, settled>>

\* The editor is left, .config changed or not; its recipe goes on to remove the
\* stamps of what depends on .config.
EditorExits(p) ==
    /\ Considering /\ stack = <<>> /\ cmd.goal \subseteq seen
    /\ cmd.kind = "editor" /\ cmd.goal = {<<p, "fixup">>}
    /\ \E c \in Configs \cup {dot[p]} :
          /\ dot' = [dot EXCEPT ![p] = c]
          /\ loose' = IF c /= dot[p] /\ <<p, "built">> \in stamp THEN loose \cup {p} ELSE loose
    /\ cmd' = [cmd EXCEPT !.kind = "fixup"]
    /\ todo' = EditorClean(p)
    /\ seen' = {}
    /\ UNCHANGED <<stamp, stale, prod, ver, torn, custom, conf, src, status, stack, busy, settled, faults>>

\* The last command of the editor's recipe.
ApplyFixup(p) ==
    /\ status = "run" /\ todo = <<>> /\ cmd.kind = "fixup" /\ cmd.goal = {<<p, "fixup">>}
    /\ prod' = [prod EXCEPT ![<<p, "fixup">>] = "done"]
    /\ Touch(<<p, "fixup">>)
    /\ Stop("ok")
    /\ UNCHANGED <<ver, torn, config, src, settled, faults>>

Succeed ==
    /\ Considering /\ stack = <<>> /\ cmd.goal \subseteq seen /\ cmd.kind /= "editor"
    /\ settled' = settled \cup {p \in Pkg \ torn : Installs(p) /= {} /\ Installs(p) \subseteq seen}
    /\ Stop("ok")
    /\ UNCHANGED <<files, src, faults>>

User ==
    \/ MakeAll
    \/ \E p \in Pkg, s \in Step : MakeStep(p, s)
    \/ \E p \in Pkg, kind \in Again : MakeAgain(p, kind)
    \/ \E p \in Pkg : \/ Dirclean(p) \/ DircleanCut(p) \/ Edit(p)
                      \/ EditCustom(p) \/ Editor(p) \/ UpdateConfig(p) \/ UpdateCut(p)

Make ==
    \/ CleanStamp
    \/ \E x \in Stamp : \/ Descend(x) \/ Skip(x) \/ StartStep(x)
                        \/ RefuseStep(x) \/ FinishStep(x)
    \/ \E p \in Pkg : EditorExits(p) \/ ApplyFixup(p)
    \/ Succeed

Fault == FailStep \/ Interrupt

Next == User \/ Make \/ Fault

Spec == Init /\ [][Next]_vars

-----------------------------------------------------------------------------
(* Properties.                                                             *)

\* Dependencies that the whole build of p waits for: an overridden package is
\* neither downloaded nor extracted, so it does not wait for what those need.
\* A package that installs nothing is never built.
BuildDeps == [p \in Pkg |->
                IF InstallSteps(p) = {} THEN {}
                ELSE IF p \in Override THEN Deps[p]
                ELSE Deps[p] \cup DownloadDeps[p] \cup ExtractDeps[p]]
Needed == [p \in Pkg |-> Reach(BuildDeps, p)]

Late == {"configured", "built", "staging", "target", "images", "host"}

Complete(x) == x \in stamp /\ x \notin stale /\ prod[x] = "done"

\* A stamp vouches for its step: if the product of a step is missing or half
\* made, then its stamp is missing or out of date, so that the next make redoes
\* it - whatever was interrupted or cleaned in between.  Only a dirclean that was
\* itself interrupted breaks this, or an update-config in the middle of a merge.
StampMeansDone ==
    \A x \in stamp \ stale : x[1] \notin torn => prod[x] = "done"

\* When a package is configured, built or installed, everything it depends on,
\* directly or through other packages, is completely installed.
DepsInstalled ==
    busy /\ Top[2] \in Late =>
        \A q \in Needed[Top[1]] \ torn : \A y \in Installs(q) : Complete(y)

\* When make reports success, what it was asked for is complete, and so are
\* all the packages that depends on.
SuccessMeansInstalled ==
    status = "ok" =>
        \A x \in cmd.goal :
            /\ x[1] \notin torn => Complete(x)
            /\ x[2] \in Late =>
                   \A q \in Needed[x[1]] \ torn : \A y \in Installs(q) : Complete(y)

\* A package once completely built is left alone until the user asks to redo
\* or to clean that package: rebuilding a package it depends on does not
\* re-execute its steps (the reason for the order-only dependencies).
SettledStaysQuiet == busy => Top[1] \notin settled

\* After "make <pkg>-rebuild" has succeeded, what is installed was built from
\* sources at least as recent as those the user had when giving the command.
\* After "make <pkg>-reconfigure" these have been configured, too, although the
\* step that brings them is no normal prerequisite of configuring.
RebuildPicksUpEdit ==
    status = "ok" /\ cmd.kind \in {"rebuild", "reconfigure"} =>
        \A x \in cmd.goal : x[1] \in Override \ torn =>
            /\ ver[x] >= cmd.at
            /\ cmd.kind = "reconfigure" => ver[<<x[1], "configured">>] >= cmd.at

\* The steps that <pkg>-reinstall, -rebuild and -reconfigure are for.
Restarted(kind) ==
    {"rsynced", "staging", "target", "images", "host"}
    \cup (IF kind \in {"rebuild", "reconfigure"} THEN {"built"} ELSE {})
    \cup (IF kind = "reconfigure" THEN {"fixup", "configured"} ELSE {})

\* "make <pkg>-rebuild" of a package that was completely built restarts it from
\* the build step: new sources are synced, but neither that nor anything else
\* makes the configure step, or the one that makes its .config, run again (the
\* reason for the order-only rsync stamp).  Likewise the other two.
RestartsThere ==
    busy /\ cmd.whole /\ (\E x \in cmd.goal : x[1] = Top[1])
    => Top[2] \in Restarted(cmd.kind)

\* The configuration that counts: KCONFIG_FILE, once it is newer than the stamp
\* of what was made of it.
Wanted(p) == IF <<p, "dotconfig">> \in stamp \ stale THEN dot[p] ELSE custom[p]

\* When make reports success, what is installed of a package was built with the
\* configuration that the user saved last, in the editor or in KCONFIG_FILE -
\* unless the editor was cut short between its save and the removal of the
\* stamps (loose), or the .config of an interrupted merge was saved back.
ConfigUsed ==
    status = "ok" =>
        \A x \in cmd.goal :
            x[1] \in Kconfig \ (torn \cup loose) /\ x[2] \in InstallSteps(x[1])
            => conf[x] = Wanted(x[1])

\* Without a new fault a run fails only in a package whose patch step, or whose
\* dirclean after it, was interrupted before: a complete step is never redone in
\* a way that its own leftovers make impossible.
FailureHasCause ==
    [][status = "run" /\ status' = "failed" /\ faults' = faults =>
         Top[2] = "patched" /\ prod[Top] = "partial"]_vars
=============================================================================
