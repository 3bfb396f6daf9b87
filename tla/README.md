# A TLA+ development of BuildStaq, the build system of CoreStaq

CoreStaq is configured and built by BuildStaq, a tree of makefiles, shell scripts and C programs
(`src/buildstaq`, derived from Buildroot) behind the small front end `src/corestaq-build.sh`. A build takes
hours, is interrupted often, shares its download directory with other builds, and leaves its state in files
whose meaning is only a convention: a stamp *means* that a step was completed, a file in the download
directory *means* that its hash was checked, a line of `.config` *means* that the user wanted it. This
directory models the parts that keep such state, checks them with TLC on small instances, and proves the most
important properties for every instance with TLAPS.

Paths below are relative to `src/buildstaq` unless they start with `src/`.

## 1. Inventory

### 1.1 The parts, their state and their operations

| Part | Code | State it keeps | Operations | Model |
|---|---|---|---|---|
| package infrastructure | `package/pkg-generic.mk` | stamp files `.stamp_*` of each package, the build tree, the files installed; in a run of make: what is being made and what has been | each step's recipe; `make`, `<pkg>-<step>`, `-reinstall`, `-rebuild`, `-reconfigure`, `-dirclean` | `PkgBuild` |
| kconfig packages | `package/pkg-kconfig.mk` | two stamps of a package's own `.config`, the user's file it is made from | make it, fix it up, edit it, save it back (update-config) | `PkgBuild` |
| download wrapper | `support/download/dl-wrapper`, `check-hash`, `package/pkg-download.mk` | the shared download directory, its lock, a temporary directory | look for an old copy, check, remove, try the URIs, move in place | `Download`, `DlCache` |
| git backend | `support/download/git` | a clone that all builds and versions share | fetch, check out, clean, archive, start afresh | `GitBackend` |
| users and groups | `support/scripts/mkusers` | `passwd`, `group`, `gshadow` of the target tree, the ids handed out | five passes over the table of users | `MkUsers` |
| kconfig expressions | `support/kconfig/expr.c` | trees, rewritten in place | transform, eliminate, compare, evaluate | `KconfigExpr` |
| kconfig menus | `support/kconfig/menu.c`, `symbol.c:1100-1342` | the menu tree, dependencies of entries and properties, reverse dependencies; the stack of the search for recursions | `menu_finalize`, `sym_check_deps` | `KconfigMenu` |
| kconfig symbols and files | `support/kconfig/symbol.c`, `confdata.c`, `conf.c`, `mconf.c` | answers, cached values, marks of what to write; `.config`, `.config.old`, the defconfig | set, calculate, read, write; menuconfig, defconfig, olddefconfig, savedefconfig | `KconfigSym` |
| make oldconfig, syncconfig | `support/kconfig/conf.c`, `confdata.c:843-1060` | which question is next; `auto.conf`, `autoconf.h`, a file per symbol | ask, list, go through again; split, write, rename | `KconfigConf` |
| make menuconfig | `support/kconfig/mconf.c`, `lxdialog/` | a stack of functions, each with a box on the screen | read a key, open and close boxes, search, jump, load, save | `Mconf`, `LxDialog` |
| make xconfig | `support/kconfig/qconf.cc` | three lists of rows, kept in step with the menu tree | update, change, go into menus and back, search, load, save | `Qconf` |
| installed files, target tree | `pkg-generic.mk:58-97`, `Makefile:736-816`, `fs/common.mk` | lists of files per package, the target tree, the images | step_pkg_size, check-uniq-files, target-finalize, one copy per image | not modelled (6) |
| other backends | `support/download/svn`, `hg`, `wget`, ... | none between runs | one command each | an outcome of `Download` |
| patches | `support/scripts/apply-patches.sh` | `.applied_patches_list` in the tree | apply, refuse | in `PkgBuild`, by its outcome |
| parser, nconf, gconf | `support/kconfig/zconf.y`, `nconf.c`, `gconf.c` | | the input of `KconfigMenu`; two more front ends | not modelled |
| front end | `src/corestaq-build.sh` | the template directory | copy, concatenate, call make | not modelled |
| infrastructures for languages, recipes, boards, toolchain, skeleton | `package/pkg-*.mk`, `package/*`, `toolchain`, ... | none of their own | fill in the commands of the steps | not modelled |
| makedevs, reports, checks of binaries, tests, utilities | `package/makedevs`, `support/scripts`, `utils`, `support/testing` | none between runs | one pass over their input | not modelled |

`PROJECT.json` lists each part with its sources, and what of it is left out.

### 1.2 How they interact

- `corestaq-build.sh` pastes fragments into `template/corestaq_defconfig` and runs `make corestaq_defconfig`;
  `conf` reads that file and writes `.config`. The file has lines that override each other, and may have lines
  for symbols that are gone: `KconfigSym` reads such files.
- The parser hands the entries of `Config.in` to `menu_finalize` (`KconfigMenu`), which rewrites their
  conditions with the operations of `expr.c` (`KconfigExpr`); what is left is what `sym_calc_value` evaluates
  (`KconfigSym`), and the tree is what the programs that ask for values walk (`KconfigTree`).
- `mconf`, `qconf` and `conf` change the answers, and read and write the same files: `Mconf`, `Qconf` and
  `KconfigConf` all extend `KconfigTree` and through it `KconfigSym`.
- make includes `auto.conf`, which `conf --syncconfig` makes of `.config`; it decides which packages there are and what each
  depends on. These are the CONSTANTS of `PkgBuild`.
- The step `.stamp_downloaded` calls `DOWNLOAD`, that is `dl-wrapper` under a lock (`Download`), which calls a
  backend for each URI (`GitBackend`); in `PkgBuild` it is a step that succeeds or fails.
- When all packages are installed, the target tree is finalized, and each image is made of a copy of it, where
  `mkusers` (`MkUsers`) adds the users that the packages asked for.

### 1.3 What is hard

- **Interruption.** Every command may be cut short by an error, a Ctrl-C or a power failure. There is no journal:
  the next run of make believes the stamps, the next download the file, the next menuconfig `.config`.
- **Sharing.** Builds on one machine share the download directory and the clones in it.
- **Order.** Packages are made one at a time (`.NOTPARALLEL`), and what each finds depends on what is installed.
  mkusers makes five passes over its table because ids handed out must not clash with ids wanted later.
  conf goes through a menu in the middle of looking through all of them, and each answer changes what is there to ask.
- **Rewriting in place.** `expr.c` simplifies trees it is walking, with two pointers to each; `menu_finalize`
  relinks the lists it is walking.
- **Caching.** Symbol values are calculated on demand, and marked invalid only when a change is seen; the rows of
  xconfig are drawn again only when a mark says so; the boxes of menuconfig keep a position in a list that changes.
- **Redundancy.** A defconfig leaves out what is a default, and what is a default depends on the rest.

`PROJECT.json` lists these hazards at their lines with the properties that would catch each.

### 1.4 What makes each part correct

- *Packages*: a stamp vouches for a completed step; nothing is built before what it needs; success means complete;
  what is built is left alone; a rebuild picks up edits, a make the configuration saved last; what is redone restarts where it was asked to; a run fails only for a cause.
- *Downloads*: who was told that the file is there keeps finding a good one; nobody sees half of it; a failure
  means that no location had it; a wrapper ends. Whatever was left in a clone, a repository that has the commit
  delivers it, or at worst what the clone had under that name before.
- *Users*: no two users share a uid; ids and memberships asked for are honoured, in every order of the entries;
  homes belong to their users; a table that can be satisfied is.
- *Kconfig, before the questions*: an expression means the same after rewriting; selects are not lost; the tree loses no entry, and puts
  below a symbol what depends on it; a recursion is told exactly when there is one.
- *Kconfig, values and files*: shown values are up to date; files read back as what was written; a saved configuration is never lost.
- *conf*: the questions end and leave nothing unanswered; an answer is kept; <Enter> is the default; auto.conf counts as up to date only
  when all that depends on it is.
- *menuconfig, xconfig*: keys act on what is shown; a link and the way back lead to a row that is there.

## 2. Modules

| Module | Models | Composed with |
|---|---|---|
| `PkgBuild` | steps, stamps and make; the `.config` of a package | - |
| `PkgBuildProofs` | theorems about it | EXTENDS it |
| `DlCache` | abstract: a file that appears whole and, if to be kept, stays | - |
| `Download` | dl-wrapper in several builds | INSTANCE `DlCache` |
| `GitBackend` | the git backend inside the wrapper | EXTENDS `Download` |
| `DownloadProofs`, `GitBackendProofs` | theorems; the refinements | EXTEND these |
| `MkUsers`, `MkUsersProofs` | mkusers, and theorems | - |
| `KconfigExpr` | rewriting and evaluation, as operators | - |
| `KconfigMenu` | menu_finalize and sym_check_deps, over the linked tree | EXTENDS `KconfigExpr` |
| `KconfigSym` | symbols, programs and files | - |
| `KconfigTree` | the finished menu tree: what is visible, what counts as answered by being shown | EXTENDS `KconfigSym` |
| `KconfigConf` | conf's questions and syncconfig's files | EXTENDS `KconfigTree` |
| `LxDialog` | the five boxes of lxdialog | - |
| `Mconf` | mconf.c | EXTENDS `KconfigTree`, `LxDialog` |
| `Qconf` | qconf.cc | EXTENDS `KconfigTree` |
| `KconfigSymProofs` | theorems about values, files and the menu tree | EXTENDS `KconfigTree` |
| `KconfigConfProofs` | theorems about conf | EXTENDS `KconfigConf`, `KconfigSymProofs` |
| `MconfProofs` | theorems about mconf and its boxes | EXTENDS `Mconf`, `KconfigSymProofs` |
| `QconfProofs` | theorems about qconf.cc | EXTENDS `Qconf`, `KconfigSymProofs` |
| `MC*` | instances for TLC | EXTEND one of the above |

Definitions marked `(mutant)` are not used by the specifications: each is a plausible mistake in the definition
that follows it, which one of the properties catches. `PROJECT.json` maps each definition to its lines.

### 2.1 PkgBuild

The state of the disk is `stamp` (the stamp files), `stale` (those older than one of their normal prerequisites),
`prod` (what the recipe of a step has left: nothing, part of it, all of it), `ver` (from which version of the
sources) and `torn` (build directories that a `dirclean` left half removed). Times are abstracted to `stale`
because make compares nothing else: `Touch(x)` makes `x` newer than all, hence its dependents older.

A run of make is `cmd` and `status`, the stamps that a `-clean-for-*` still has to remove (`todo`), make's descent
(`stack`, `seen`), and whether the recipe of the innermost target runs (`busy`). `Normal` and `OrderOnly` are the
prerequisites before and after the `|` of the rules at pkg-generic.mk:722-833, and the order in which make takes
prerequisites is left open, which covers every order of the package list. `Descend`, `Skip`, `StartStep` and
`FinishStep` are make's handling of one target. `FailStep` and `Interrupt` cut a run short; a recipe that fails
does not reach its `touch $@`. `RefuseStep` is apply-patches.sh that finds a patch in its own
list: always when the step was completed before, and maybe, by how far it came, when it was cut short (`Refused`).
`Edit` changes the sources of an overridden package at any time, also during a run. `whole` in a command says that it redoes packages that
were complete until then: what RestartsThere is about.

A package of pkg-kconfig.mk has two steps more: `dotconfig` copies the file of the user (`custom`) to the build tree
(`dot`), `fixup` applies the fixups. `Editor`, `EditorExits`, `EditorClean` are the targets that edit `.config` in place and then remove the stamps;
`UpdateConfig` saves it back and sets its time back, so that nothing is built again. `conf` records from which configuration each
step was made. An editor killed between its save and the removal of the stamps leaves a package in `loose`.

### 2.2 Download, DlCache and GitBackend

One program counter per build (`pc`), through the lock, the legacy copy (dl-wrapper:53-63), the check of a file
that is there (65-81), the loop over the URIs (83-164), and the move into place (166-210). File contents are
`good` (passes every check), `bad` and `part`; `.hash` files are the four cases that check-hash tells apart by its
exit status. A crash drops the lock, as the kernel does with flock, and leaves the files. `DlCache` says what the
builds can rely on: `Place` a whole file where there was none, `Discard` one that is not to be kept.

`GitBackend` replaces the one step `Fetch` of `Download`, for the URIs that are repositories, by those of the git backend:
`step` is where a build is in it, `repo`, `commit` and `worktree` are what is in the clone, which another build may have
left in any state; `again` is the second run after the trap has removed the clone. A damaged clone makes a
fetch or a checkout fail, not `git rev-parse` alone; an error inside `$(git log ...)` does not reach the trap, and is not modelled.
`Fetched` is what the clone may have under a name after `git fetch` of it (git:125): what upstream has, or, for a branch that is checked out and a ref that would not just
move forward, what it had before; the script ignores that failure, and any other of this command. Nobody is told: GoodUpstreamDelivers allows
for it in the first attempt only, where it comes from an earlier version of the package; the manual advises against branch names (docs/manual/adding-packages-generic.txt:209). A branch that
is named as the one `git init` starts with can never be fetched into, which is not modelled.

### 2.3 MkUsers

`pass` and `i` are the loop and the line of `main`; `uid`, `ugid`, `gid`, `members`, `gshadow` the contents of
the files; `chown` the lines printed for fakeroot. The table and the skeleton are chosen in `Init` and stay.
`Generate` is generate_uid and generate_gid, `Rejected` check_user_validity, `AddGroup` and `AddUser` the functions
that rewrite the files.

### 2.4 KconfigExpr and KconfigMenu

Expressions are records as `struct expr` is; each function of expr.c that rewrites them is an operator of nearly the
same name that returns what is left in the tree. The tree of `KconfigMenu` is kept by the pointers list, next and parent, as in the
C code, and `MenuFinalize` goes through the loops of menu_finalize in their order, relinking as they do. `SymCheckDeps` calls
sym_check_deps for the defined symbols in any order, as they are in a hash table. Symbols are bool and tristate, although
BuildStaq's Config.in files have no tristates: the code handles them, and the difference matters (2.9).

### 2.5 KconfigSym

`user` holds what `def[S_DEF_USER]` and the flag SYMBOL_DEF_USER hold (`val`, `has`) and the answers to choices
(`pick`); `now` what was last calculated: `curr`, the visible symbols, the selected ones, and those marked
SYMBOL_WRITE. `Calculate` is sym_calc_value over all symbols in the order of their dependencies. The code
calculates lazily: that both come to the same is what CacheFresh says, and OnlySolution proves that the order does not matter. Conditions are
in disjunctive form, since their rewriting is the matter of KconfigExpr. Each program reads a file (`Load`), and writes `.config` in three
steps (`Write`, `MoveOld`, `MoveNew`), with a kill or a failure in between.

Named assumptions say what the Config.in files are like: `OrderAssumption` and `KconfigAssumption` (symbols can be put in an order in which a
condition names only earlier ones, which is what sym_check_deps is there to ensure, and no choice value has a default of its
own, of which menu.c:507 warns), `FileAssumption` (a file is a sequence of lines with a value that a symbol of that type can have; `None`
is no text). TLC evaluates them in every run.

### 2.6 KconfigTree, KconfigConf

`KconfigTree` has `Visible` (menu_is_visible) and `Marked`: looking whether an entry is visible marks symbols as answered that
are shown only for what is below them (menu.c:659). `TreeAssumption` says that `Children` is a finite tree below `Root`, `ChoiceAssumption` that the
entries of a choice are its values and have prompts, as menu_finalize ensures.

In `KconfigConf`, `todo` is the list of calls of check_conf and conf that are still to be made: a step makes the first, answers the question if it
asks one, and puts the calls for what is below in its place. `NextPass` is the loop of main (conf.c:672-685). `chosen` are the choices
that count as answered, which the cache of symbol.c keeps apart from the values. `given` and `plain` record what was answered and whether by
<Enter> only. syncconfig then touches a file for each changed symbol (`Touch`, in any order), and writes `header` and `auto`,
of which the second marks the completion; `stale` is make's comparison of its time with that of `.config`, and `Build` a make that used it.
`AskAssumption` only says that the mark "not asked" is no answer.

### 2.7 LxDialog, Mconf

A box of lxdialog is a record: the local variables of its function, and what is on the screen; `MenuKey`, `ListKey`, `InputKey`,
`TextKey`, `AskKey` are their loops. In `Mconf`, `stack` has a frame for each function of mconf.c that is active; a step reads a key, or handles what
the box returned, or opens the box of the top function from the values of the symbols. A terminal may be resized at any key.

### 2.8 Qconf

`win` has for each of the three lists the rows below each row and what each shows, and `flagged`, the entries with MENU_CHANGED.
`UpdateList` walks the menu tree along the rows as updateMenuList does: `Child` is the body of its loop and recognises a row only when it is the next one, `Updated` the
loop, `Below` the recursion. `late` is history: values were calculated since all lists were updated, which only a save does (2.9).

### 2.9 Disagreements found

Three runs are expected to fail; each shows that the code does something else than a text of the repository says.

1. `MCMkUsersGid`: a fixed gid replaces the gid of a group of the skeleton before the check that would
   refuse it (mkusers:116, :396).
2. `MCKconfigSymRetry`: when the last rename of conf_write fails and the user saves again, the second save
   finds no symbol marked and writes a configuration without any (confdata.c:807, :832).
3. `MCMconfResize`: a menu that was opened scrolled prints items past its last one when the terminal grows (menubox.c:43, :281).

Noticed while modelling, without a run of their own:

- *downloads*: the git backend ignores that a fetch of the name itself fails, since "we'll eventually fail at checking out that cset, below, if there is an issue anyway" (git:121); when the clone already
  has the name, with an older commit, it does not fail, but archives that (2.2). A copy of an old file that is cut short is accepted when there is no .hash file (dl-wrapper:62). A network failure costs the clone
  as much as a damaged one (git:43).
- *packages*: `update-config` overwrites an edit of the user's file that was not built yet, and after an interrupted merge saves back half a
  `.config`, for which the stamp vouches (pkg-kconfig.mk:26). An editor killed between its save and the removal of the stamps leaves a
  configuration that make does not notice (`loose`, exempt from ConfigUsed). A `dirclean` cut short leaves patches applied and their list gone or not
  (pkg-generic.mk:349, `torn`).
- *users*: a uid below -1 is skipped rather than refused (mkusers:426); gshadow loses the members that group keeps
  (mkusers:236); a user of the skeleton other than root that has uid 0 keeps it.
- *menus*: recursions are told but never counted as an error (zconf.y:555, symbol.c:1339); those through `imply` also
  (symbol.c:1249); the entry of a symbol defined twice has the dependencies of one place only (menu.c:496); `!T` and `T=n` of a tristate are taken for the
  same, and an entry is put below a symbol whose dependencies it does not have (menu.c:472).
- *symbols*: savedefconfig empties its file before it fails (confdata.c:673); a string that conf_read dropped keeps its text, and entering it again
  has no effect (symbol.c:713, confdata.c:455): KconfigConf has it too, and AsksInv of `KconfigConfProofs` shows that syncconfig is not affected.
  A choice value that is y by its own default while it is invisible would break the cache; no Config.in has one.
- *conf*: looking through a menu marks symbols as answered (menu.c:659). conf_choice sets what it takes, so that an answer that is hidden while the choice is gone
  through again is lost (conf.c:330-335).
- *front ends*: a save calculates again and updates no list, so that xconfig shows a string that was entered again and saved with its old value, and what depends on it, until the
  next change (confdata.c:789, qconf.cc:1541). xconfig loses a configuration that was loaded and then the window closed, as loading does not count as a change (qconf.cc:1536, :1722), and
  "save as" ignores the name chosen (qconf.cc:1555). In gconf, by reading only: update_tree returns after it has removed the last row, load_filename does not clear the
  tree, renderer_edited always starts from rootmenu. mconf.c:883 and :990 take a failure for an answer. To load a file that is not there makes menuconfig forget
  that something was changed, and so end without asking whether to save it (confdata.c:413, mconf.c:962).

## 3. Runs

| Run | Instance | States | Checks |
|---|---|---|---|
| `MCPkgBuild` | an overridden library and a patched application that needs it; one fault, also in its dirclean | 631 thousand | StampMeansDone, DepsInstalled, SuccessMeansInstalled, SettledStaysQuiet, FailureHasCause |
| `MCPkgBuildEdit` | one overridden package with a configuration; one edit of each, one fault, symmetric configurations | 1165 thousand | RebuildPicksUpEdit, RestartsThere, ConfigUsed |
| `MCDownload` | two builds, two wrappers each, three URIs of which one is a repository, two faults and one unexplained failure of git, every kind of .hash file, any clone | 737 thousand | SuccessUsable, NeverPartial, FailureExhaustsUris, GoodUpstreamDelivers, CacheRefined; WrapperEnds under `GFairSpec` |
| `MCMkUsers` | every table of two entries of some hundred, two skeletons, two ids to hand out | 371 thousand | UidsUnique, EntriesHonoured, ChownMatches, MembersKept, ConsistentSucceeds |
| `MCMkUsersGid` | the same | | violates GroupKeepsGid |
| `MCKconfigMenu` | menus of two entries with every dependency of two or three operands of a dozen kinds; trees of four entries in six shapes | 165 thousand | MeansWritten, BoolSubmenuGone, OutrightGoesBelow, TreeKept, RecursionTold |
| `MCKconfigSym` | nine symbols and choices, three states of the Config.in files, two programs, two edits, one failure | 332 thousand | CacheFresh, ReadBack, SavedSurvives |
| `MCKconfigSymRetry` | the same | | violates SavedWhole |
| `MCKconfigConf` | a tree of two menus, a menuconfig and a choice, with symbols that only later answers bring up; two states of the Config.in files, two programs, one edit, one failure | 316 thousand | AsksToTheEnd, EnterIsDefault, AnswersKept, AutoConfLast, ChangesTouched; AskingEnds |
| `MCMconf` | a tree with a submenu, a menuconfig, a choice, a string and an entry without prompt; three sizes of the terminal, two edits or other actions | 831 thousand | RowsInStep, BoxesInStep, OnlyWhatIsShown, JumpShowsTarget |
| `MCMconfResize` | the same | | violates ItemsExist |
| `MCQconf` | a tree with a menuconfig below a symbol in a menu, a choice, a string and an entry without prompt; two edits | 42 thousand | RowsFresh, IconsFresh, WaysShow |

**Bounds, and why they are enough.**

- `MaxFaults`, `MaxFails`, `MaxBreaks`: one or two. A fault only leaves a state that a later run starts from; what is left by one fault and
  by two differ in that two packages or two builds were hit, and the theorems (4) do not depend on the bound.
- `MaxEdits` of `PkgBuild`: one version after the first one. The property compares the version that was installed with the one at
  the time of the command; `Configs` has two configurations, of which the names do not matter.
- `MayTear`: only the application may have its dirclean cut short, as only patched packages behave differently then.
- `MaxRuns` of `Download`: each build downloads twice, so that each can find what the other left, successfully or not.
- `MinId .. MaxId`: two ids, so that two entries use up the range, and one of them may be taken by the skeleton.
- Dependencies of two operands (`MCKconfigMenu`): each rewriting rule of expr.c looks at one node and its two
  operands, or at one operand of each of two trees; the dependencies of the menu and of the entry give the second level.
- `MaxRuns` and `MaxEdits` of `KconfigSym` and `KconfigConf`: one program writes what the other reads; an edit makes a symbol visible and
  the second one sets it. The properties on files quantify over what any answer would write, not only over what was written.
- `MaxDepth`, `MaxSpent` and `Tried` of `Mconf`: three functions deep is a box above a menu in a menu; what is tried on a box leaves out keys whose effect
  does not depend on where the box is scrolled to. Terminals of 4, 3 and 1 lines stand for ones where all boxes fit, where no choice fits, and where no menu fits.

**Deadlock** is checked in the runs of `PkgBuild`, where the user can always give another command. The others stop when
their bounded programs have ended.

**Fairness.** `GFairSpec` has weak fairness of the steps of each
build: a wrapper that was not killed goes on, and a lock that stays free is granted. The number of runs is bounded, so that a
waiting build at last finds the lock free for good; were the others to start for ever, flock would have to be fair.
`CSpec` has weak fairness of conf's walk, with its ENABLED written out (`RunsOn`): the program runs on, and each question is at last
given an answer that it accepts. `Spins` is the one state with questions left in which no step is possible, as conf_choice would loop by itself: were it reachable,
AskingEnds would fail there.

## 4. Proofs

### 4.1 What is proved

All theorems hold for every value of the constants that satisfies the named assumptions of the modules (4.3), and for any bound on runs, edits and faults.

| Theorem | Property | For every |
|---|---|---|
| `PkgBuildProofs!TypeCorrect` | TypeOK | set of packages |
| `PkgBuildProofs!StampsVouch` | StampMeansDone | set of packages, number of faults |
| `PkgBuildProofs!BuildOrder` | DepsInstalled | dependency graph |
| `PkgBuildProofs!SuccessSound` | SuccessMeansInstalled | dependency graph |
| `PkgBuildProofs!ConfigSound` | ConfigUsed | set of packages and configurations |
| `PkgBuildProofs!RebuildSound` | RebuildPicksUpEdit | set of packages, number of edits |
| `PkgBuildProofs!RestartsInPlace` | RestartsThere | " |
| `PkgBuildProofs!SettledLeftAlone` | SettledStaysQuiet | dependency graph |
| `PkgBuildProofs!FailureIsCaused` | FailureHasCause | set of packages |
| `DownloadProofs!TypeCorrect` | TypeOK | number of builds and URIs |
| `DownloadProofs!SuccessIsUsable` | SuccessUsable | " |
| `DownloadProofs!NoPartialFile` | NeverPartial | " |
| `DownloadProofs!ImplementsCache` | CacheRefined | " |
| `DownloadProofs!FailureExhausts` | FailureExhaustsUris | " |
| `GitBackendProofs!GitImplementsFetch` | `GSpec => Spec`, of `Download` | number of builds, any clone |
| `GitBackendProofs!GitSuccessIsUsable` | SuccessUsable | " |
| `GitBackendProofs!GitImplementsCache` | CacheRefined | " |
| `GitBackendProofs!GitDelivers` | GoodUpstreamDelivers | " |
| `GitBackendProofs!GitFailureExhausts` | FailureExhaustsUris | " |
| `MkUsersProofs!TypeCorrect` | TypeOK | table and skeleton |
| `MkUsersProofs!UniqueUids` | UidsUnique | " |
| `MkUsersProofs!HomesMatch` | ChownMatches | " |
| `MkUsersProofs!EntriesAreHonoured` | EntriesHonoured | " |
| `MkUsersProofs!MembersStay` | MembersKept | " |
| `MkUsersProofs!ConsistentTablesSucceed` | ConsistentSucceeds | " |
| `KconfigSymProofs!OnlySolution` | one set of values agrees with the answers | Config.in without circular conditions |
| `KconfigSymProofs!BothReadBack` | ReadBack | " |
| `KconfigSymProofs!MenusAreFresh` | CacheFresh | " |
| `KconfigConfProofs!SavedIsKept` | SavedSurvives | " |
| `KconfigConfProofs!ChangesAreTouched` | ChangesTouched | " and every menu tree |
| `KconfigConfProofs!AsksAll` | AsksToTheEnd | " |
| `KconfigConfProofs!EnterChangesNothing` | EnterIsDefault | " |
| `KconfigConfProofs!AnswersAreKept` | AnswersKept | " |
| `KconfigConfProofs!AutoConfIsLast` | AutoConfLast | " |
| `MconfProofs!MAlways` | MInv, the inductive invariant | ", and any terminals and texts |
| `MconfProofs!RowsAlwaysInStep` | RowsInStep | " |
| `MconfProofs!BoxesAlwaysInStep` | BoxesInStep | " |
| `MconfProofs!OnlyWhatIsShownChanges` | OnlyWhatIsShown | " |
| `QconfProofs!RowsAreFresh` | RowsFresh | ", and any results of searches |
| `QconfProofs!IconsAreFresh` | IconsFresh | " |

### 4.2 The inductive invariants, and why they are needed

- *PkgBuild*, `IInv`: StampMeansDone does not survive a step by itself, because `FinishStep` touches the stamp of whatever is on top of the
  stack. `RunShape` says that a recipe runs only with a target on the stack and that a product being made has no valid
  stamp; `SeenDone` that what make has finished with in this run is complete. BuildOrder then follows by looking at what make
  had to see before it started the recipe: all prerequisites, hence, by the closure of the needed packages, all that those need.
  Each further theorem adds what it is about: `CInv` that the chain dotconfig, fixup, built, as long as no stamp of it is stale, carries one configuration;
  `RInv` that an installation newer than the build installed that build, and that the rsync and build stamps of a package to be rebuilt are still to be removed, out of
  date, or at least as recent as the command; `SInv` that the steps before the one a command is named for keep their stamps, none of them stale (`Spared`), whatever runs after them; `QInv` that all steps of a settled package are up to date, that make only looks at steps that a complete build has, and that what it is about to clean is
  not settled; `AInv` that patches completely applied are vouched for by the stamps from the download on, and that no command removes one of these.
- *Download*, `IInv`: `LockInv` (at most one build is at work, and it holds the lock) and `FileInv` (what is known of the file
  at each point of the wrapper). The refinement maps a copy in progress to an absent file, and each step to `Place`, `Discard` or a stutter. FailureExhausts
  is of the step that fails, from what is known before it.
- *GitBackend*: `GInv` (a build in the backend is one whose wrapper waits at a repository) gives the step simulation of `Download` by `GitBackend`, so
  that the theorems about `Download` hold of the composition; `BInv` adds `CloneInv` - what is archived is the commit of the clone, which is upstream's or what the name stood for before, and the second attempt works in a clone of its own
  making - from which GitDelivers follows.
- *MkUsers*: `GroupsMade` and `ChownInv` for the first theorems; `ServedInv`, an entry that main has been past has what it asks for and nothing later takes it away; and for
  ConsistentTablesSucceed `RoomInv`: as long as the table can be honoured, the ids in use are those of distinct names of the table or the skeleton. A pigeonhole argument on the
  range of ids (with `FiniteSetTheorems`) shows that there is one left, and `UidsApart` that nobody has an id that a later entry fixes.
- *KconfigSym*: `Calculate` folds over the symbols. The lemma `Calculated` shows, along the order, that its result `Solves` the equations of the values; OnlySolution,
  by a least symbol on which two solutions differ, that there is no other. Everything else argues with solutions instead of the fold. BothReadBack:
  the lines that are left out of a defconfig are what the solution has by default, so that the values saved also solve the equations of the answers that are read from
  it. `FreshInv` says that in menuconfig the cache is a solution up to the marks that a write takes away.
- *KconfigConf*: `AutoInv` - what differs from the auto.conf of the last build has been touched or is about to be - and `AskInv` - in a pass that has found nothing new, a call is still to come for an ancestor of each
  entry that is new.
- *The answers* (`KconfigConfProofs`): `Visible` and `Marked` recurse on the tree; `TreeRecursion` shows once, from the well-foundedness in `TreeAssumption`, that a
  function defined by what it has further down (or up) exists and is unique, and `VisibleIs`, `MarkedIs` unfold them. `AnswersInv` says that the values solve the equations of the answers, but for a string whose text was left over and never calculated (`Trusted`), and that with <Enter> only they
  are those that were read: EnterChangesNothing. `KeptInv` (`Kept`: the answers are those of .config but for what was asked since) gives AnswersAreKept. For AutoConfIsLast, syncconfig skips the write when nothing changed, so .config must then say what
  auto.conf will: `AsksInv` says that as long as nothing changed .config has the lines of the values, and that either no text is left over (`Loud`), or nothing is new and the tree
  is only looked through (`Quiet`); `SyncInv` carries the lines from .config to the header and auto.conf.
- *menuconfig*, `MInv`: none of the three properties is inductive, as a box is opened, drawn and closed by different functions. `CallsInv` says that the functions on the stack
  call one another as those of mconf.c do, that each calls about an entry of its kind, and that the box on the screen is one of the function on top (`BoxOk`). Each box is in step with itself: `MenuFits` and
  `ListOk` (scroll, highlight and screen, for which `DrawLoop` unfolds the loop that prints the rows), `CursorFits` (cursor, first character and position of a text that may be longer than the field), `TextFits` (where the page
  starts, so that `PageTop` finds it back by `BackLines`). `RowsIn` and `ChoiceRowsIn` show for every tree, with `TreeRecursion`, that the items that build_conf and conf_choice make are entries with a tag that fits
  their symbol, and that a choice with a visible value has items. `FoundIn` does it for the results of a search, whose jump keys lead to entries. OnlyWhatIsShownChanges goes through the steps with this.
- *xconfig*, `QInv`: that the rows are as if made anew depends on what they were before. `WinOk` says that the rows below each row are in the order of the menu, some of its children and
  each once (`InOrder`), and that the top of a list is the row "..", the row of a menuconfig gone into, or rows in order, as the mode demands (`TopOk`). From any rows in order, `UpdatedIs` shows for
  every set of hidden entries that the loop of updateMenuList ends with the ideal ones: `Compared` is its loop invariant, of the old rows against none. `BelowIs` unfolds the recursion with `TreeRecursion`,
  and `LevelsAre`, `SameRows` put the levels together. For the icons: what a row shows wrongly is flagged (`IconsTold`), and remains so while one list after another is updated and clears the flags,
  since the first that comes to an entry draws it in all (`DrawnKeeps`). Together (`Stands`): unless `late`, each list is `Right` for the values; `ViewsAgain` that all are after updateListAll, `SetRootOk`, `InViewOk`, `OptOk` after
  the changes of view, and `SavedOk` that a save changes nothing that is not flagged. `SkipValues` and `ShowsValues` say that the rows depend on nothing else than the values.

Type correctness is proved for `PkgBuild`, `Download` and `MkUsers`, and not run.

### 4.3 Assumptions

`PkgAssumption`, `AcyclicAssumption`: sets of packages and a dependency graph without cycles, which make would refuse. `DlAssumption`: each URI delivers something or fails.
`GitAssumption`: a repository is a URI that may deliver anything. `UsersAssumption`: the range of ids is one of naturals from 1, no two names of the skeleton share an id. `OrderAssumption`, `KconfigAssumption`, `FileAssumption`
(2.5), `TreeAssumption`, `ChoiceAssumption`, `AskAssumption` (2.6). `TextsAssumption`: texts are strings, that is, closed under erasing a character and, up to the length that the field has room for, under inserting one; a blank and the letters of the buttons are such characters. `BoxesAssumption`: there is a largest terminal,
a terminal that a box fits in has room for one row of it, `PromptsOf` names the entries that prompt for a symbol. `RootAssumption`: rootmenu is a menu without symbol, and the
marks for the row "..", the top and nobody are not entries. `SearchAssumption`: a search finds entries. `PlaceAssumption`: no entry is twice in the list of a menu. TLC evaluates each of them in the runs.

### 4.4 What is only model-checked

- Liveness (WrapperEnds, AskingEnds), which needs fairness and ENABLED.
- `KconfigExpr` and `KconfigMenu` (MeansWritten, BoolSubmenuGone, OutrightGoesBelow, TreeKept, RecursionTold): their operators are RECURSIVE over expressions and over a tree kept by pointers;
  what they compute for every input is an induction over data.
- `Mconf`: JumpShowsTarget. That a jump shows its target needs more than the tree: the conditions of the Config.in files must make an entry visible only where what it is below of is.
- `Qconf`: WaysShow. As with JumpShowsTarget, what is shown must be below what is shown, which is a matter of the Config.in files and not of qconf.cc. It does not hold for all of them: what is below a symbol
  that is selected although it depends on a hidden one is shown, and the hidden one, which it is further below of, is not.

## 5. What is not modelled, and why

- Commands of packages, file contents, messages, colours and columns: no property is about them.
- In `PkgBuild`: the instrumentation of the installed files (step_pkg_size, pkg-generic.mk:66-97), the show and graph targets; what `<pkg>-legal-source` downloads besides; make's choice between
  equal times, clocks that go backwards. Of pkg-kconfig.mk: fragments, KCONFIG_DEFCONFIG, the environment of the configurators; the user's file is edited between runs only.
  A failure in a torn tree counts as a fault.
- In `Download`: options; the backends other than git, which are what they deliver.
- In `KconfigMenu`: the types of symbols that menu_finalize passes on, and its warnings. In `KconfigSym`: tristates, imply, ranges, optional choices (BuildStaq's Config.in files have none).
- In `KconfigConf`: randconfig, KCONFIG_NOSILENTUPDATE, tristate.conf; help and answers that are not accepted, which are asked for again. Whether a choice still counts as
  answered is settled at each answer, and not when sym_calc_choice next comes to it (symbol.c:304-320): a value that one answer shows and the next one hides makes the choice new in the model, and in
  the code only if it was calculated in between.
- In `Mconf`: an interrupt; regular expressions, which find what `Matches` says; of the prompts of a symbol that has several, each with its own condition, all are visible when the symbol is. In `Qconf`: columns, what is selected, the help pane. nconf and gconf.
- Target finalization and the images (`fs/common.mk:119`, `Makefile:736-816`), and the parts that keep no state of their own, see 1.1.

## 6. Plan

Done, in the order of their weight: `PkgBuild` with `pkg-kconfig.mk`, `Download` with `GitBackend`, `MkUsers`, `KconfigExpr`, `KconfigMenu`, `KconfigSym`, `KconfigConf`, `Mconf`, `Qconf`; the theorems of 4.1.

Next:

1. `PkgFiles`: the lists of installed files (step_pkg_size at the end of each installation, interrupted or repeated), check-uniq-files,
   target-finalize and the copies for the images. Properties: every file of the target tree is attributed to a package that installed it; a file
   that two packages installed is reported; an image has what the finalized tree has.
2. nconf and gconf, as two more walks over `KconfigTree`.
