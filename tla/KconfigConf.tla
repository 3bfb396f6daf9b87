----------------------------- MODULE KconfigConf -----------------------------
(***************************************************************************)
(* The program conf of support/kconfig that asks its questions on a        *)
(* terminal: make config (oldaskconfig), oldconfig, syncconfig,            *)
(* listnewconfig, and the ones that ask nothing, olddefconfig and          *)
(* allyesconfig and its like; with the files that syncconfig leaves for    *)
(* make, from confdata.c.                                                  *)
(*                                                                         *)
(* The functions conf and check_conf call one another down the menu tree:  *)
(* todo has the calls that are still to be made, and a step makes the      *)
(* first, which is where the user answers.  An answer that is not accepted,*)
(* and one that asks for help, is asked for again: no step at all.         *)
(***************************************************************************)
EXTENDS KconfigTree

CONSTANTS Seeds           \* what KCONFIG_ALLCONFIG may name

VARIABLES mode,           \* input_mode
          todo,           \* the calls to come
          root,           \* rootEntry
          again,          \* conf_cnt is not 0
          chosen,         \* the choices with SYMBOL_DEF_USER
          given,          \* (history) the answers to the questions asked, or what took their place
          plain,          \* (history) all of them were only <Enter>
          listed,         \* what listnewconfig has printed
          auto, header,   \* auto.conf and autoconf.h
          touched,        \* the files below the directory of auto.conf touched since built
          stale,          \* auto.conf is older than .config
          built           \* (history) the auto.conf of the last build

talk == <<mode, todo, root, again, chosen, given, plain, listed>>
sync == <<auto, header, touched, stale, built>>
cvars == <<vars, talk, sync>>

NotAsked == "not asked"
NobodyAsked == [s \in Symbols \cup ChoiceSyms |-> NotAsked]

ASSUME AskAssumption == NotAsked \notin Texts \cup Symbols \cup {"y", "n", None}

Silent == /\ mode' = "none" /\ todo' = <<>> /\ root' = Nobody /\ again' = FALSE /\ chosen' = {}
          /\ given' = NobodyAsked /\ plain' = TRUE /\ listed' = {}
-----------------------------------------------------------------------------
(* Choices that count as answered *)

Showing(k, n, c) == Holds(k.prompt[c], n.cur)

\* sym_calc_choice: a choice with a visible value that is new is new itself.
StillChosen(k, u, n, cs) ==
    {c \in cs : Showing(k, n, c) => \A s \in VisibleMembers(k, c, n.cur) : s \in u.has}

\* conf_read
ChosenWhenRead ==
    IF dot = Missing THEN {}
    ELSE LET u == UserOf(dot)
             n == Calculate(kconfig, u)
         IN  {c \in StillChosen(kconfig, u, n, ChoiceSyms) : Unsaved(u, n) \/ Showing(kconfig, n, c)}

HasAnswer(s, u) == IF s \in ChoiceSyms THEN s \in chosen ELSE s \in u.has

\* (mutant) an answered choice stays new
AnswerForgotten(u, new, cs) ==
    /\ Clear(u, new)
    /\ chosen' = IF new THEN StillChosen(kconfig, u, now', chosen) ELSE chosen

\* The answers are u now, also those of the choices cs; new values, if they are.
\* sym_calc_choice takes the mark off a choice when it is next calculated: here
\* at once, also if another answer hides the value again before that.
Answer(u, new, cs) ==
    /\ Clear(u, new)
    /\ chosen' = IF new THEN StillChosen(kconfig, u, now', chosen \cup cs) ELSE chosen \cup cs
-----------------------------------------------------------------------------
(* The calls *)

Call(fn, e) == [fn |-> fn, menu |-> e]
Below(fn, e) == [i \in DOMAIN Children[e] |-> Call(fn, Children[e][i])]

Calling(fns) == pc = "ask" /\ todo # <<>> /\ Head(todo).fn \in fns
Here == Head(todo).menu
Sym == SymOf[Here]

\* The calls that this one makes, before those that were to come.
Make(calls) == todo' = calls \o Tail(todo)

\* The answers, with those that menu_is_visible has marked.
Seen == [user EXCEPT !.has = @ \cup Marked(Here, now)]

Asking == UNCHANGED <<kconfig, pc, prog, out, files, bounds, mode, sync>>
NothingNew == UNCHANGED <<now, changed, chosen, given, plain>>

Hidden ==
    /\ Calling({"check", "conf"}) /\ ~Visible(Here, now)
    /\ Make(<<>>) /\ user' = Seen
    /\ Asking /\ NothingNew /\ UNCHANGED <<root, again, listed>>

\* check_conf: what is new can be set, or is a choice.
IsNew(e, u) ==
    /\ SymOf[e] # Nobody /\ ~HasAnswer(SymOf[e], u)
    /\ Changable(now, SymOf[e]) \/ (SymOf[e] \in ChoiceSyms /\ IsYes(e, now))

CheckOld ==
    /\ Calling({"check"}) /\ Visible(Here, now) /\ ~IsNew(Here, Seen)
    /\ Make(Below("check", Here)) /\ user' = Seen
    /\ Asking /\ NothingNew /\ UNCHANGED <<root, again, listed>>

List ==
    /\ Calling({"check"}) /\ Visible(Here, now) /\ IsNew(Here, Seen) /\ mode = "listnewconfig"
    /\ listed' = listed \cup ({Sym} \cap Symbols)
    /\ Make(Below("check", Here)) /\ user' = Seen
    /\ Asking /\ NothingNew /\ UNCHANGED <<root, again>>

\* (mutant) it is not counted
RestartUncounted ==
    /\ Calling({"check"}) /\ Visible(Here, now) /\ IsNew(Here, Seen) /\ mode # "listnewconfig"
    /\ root' = MenuOf(Here)
    /\ Make(<<Call("conf", MenuOf(Here))>> \o Below("check", Here)) /\ user' = Seen
    /\ Asking /\ NothingNew /\ UNCHANGED <<again, listed>>

\* All of the menu that has something new is gone through.
Restart ==
    /\ Calling({"check"}) /\ Visible(Here, now) /\ IsNew(Here, Seen) /\ mode # "listnewconfig"
    /\ again' = TRUE /\ root' = MenuOf(Here)
    /\ Make(<<Call("conf", MenuOf(Here))>> \o Below("check", Here)) /\ user' = Seen
    /\ Asking /\ NothingNew /\ UNCHANGED listed

\* conf of a menu within: it is only looked through for something new.
ConfMenu ==
    /\ Calling({"conf"}) /\ Visible(Here, now)
    /\ Kind[Here] \in {"menu", "menuconfig"} /\ mode # "oldaskconfig" /\ root # Here
    /\ Make(<<Call("check", Here)>>) /\ user' = Seen
    /\ Asking /\ NothingNew /\ UNCHANGED <<root, again, listed>>

Entering ==
    /\ Calling({"conf"}) /\ Visible(Here, now)
    /\ ~(Kind[Here] \in {"menu", "menuconfig"} /\ mode # "oldaskconfig" /\ root # Here)
    /\ Asking /\ UNCHANGED <<root, again, listed>>

ConfNoSymbol ==
    /\ Entering /\ Sym = Nobody
    /\ Make(Below("conf", Here)) /\ user' = Seen /\ NothingNew

\* conf_askvalue
Asked(s) == Changable(now, s) /\ (s \notin Seen.has \/ mode = "oldaskconfig")

\* conf_sym, conf_string of what is not asked
ConfKnown ==
    /\ Entering /\ Sym \in Symbols /\ ~Asked(Sym)
    /\ Make(Below("conf", Here)) /\ user' = Seen /\ NothingNew

\* The answer y to a choice value is one to its choice.
Given(s, v) ==
    /\ given' = IF IsValue(s) /\ v = "y" THEN [given EXCEPT ![s] = v, ![ChoiceOf[s]] = s] ELSE [given EXCEPT ![s] = v]
    /\ plain' = (plain /\ v = now.cur[s])

ConfSym(v) ==
    /\ Entering /\ Sym \in Bools /\ Asked(Sym) /\ Accepts(Sym, v)
    /\ Answer(Answered(Seen, Sym, v), v # now.cur[Sym], {})
    /\ Given(Sym, v) /\ Make(Below("conf", Here))

\* An empty line is <Enter>.
ConfString(t) ==
    /\ Entering /\ Sym \in Strings /\ Asked(Sym) /\ (t # "" \/ now.cur[Sym] = "")
    /\ Answer(Entered(Seen, Sym, t), Seen.val[Sym] # t, {})
    /\ Given(Sym, t) /\ Make(Below("conf", Here))

\* What conf_choice offers.
Offered == {e \in ToSet(Children[Here]) : SymOf[e] # Nobody /\ Visible(e, now)}
Looked == [Seen EXCEPT !.has = @ \cup UNION {Marked(e, now) : e \in ToSet(Children[Here])}]

\* (mutant) the first one is taken when none is asked for
TakenFirst(e) ==
    \A i, j \in DOMAIN Children[Here] : Children[Here][i] = e /\ Children[Here][j] \in Offered => i <= j

OnlyOne == \E e \in Offered : Offered = {e}

\* Which is taken without a question: the only one, or the one that it is.
Taken(e) == OnlyOne \/ SymOf[e] = now.cur[Sym]

AsksChoice == ~OnlyOne /\ (Sym \notin chosen \/ mode = "oldaskconfig")

\* An answer that cannot be seen is lost when another value is taken.
Lost == user.pick[Sym] \notin now.vis

\* Only what is below the chosen one is gone through.
Choose(e) ==
    /\ Entering /\ Sym \in ChoiceSyms /\ IsYes(Here, now)
    /\ e \in Offered /\ (AsksChoice \/ Taken(e))
    /\ IF Accepts(SymOf[e], "y")
       THEN Answer(Answered(Looked, SymOf[e], "y"), now.cur[SymOf[e]] # "y", {Sym})
       ELSE user' = Looked /\ UNCHANGED <<now, changed, chosen>>
    /\ IF AsksChoice THEN Given(Sym, SymOf[e])
       ELSE given' = (IF Lost THEN [given EXCEPT ![Sym] = SymOf[e]] ELSE given) /\ UNCHANGED plain
    /\ Make(Below("conf", e))

\* A choice without a visible value is passed over.
ConfEmpty ==
    /\ Entering /\ Sym \in ChoiceSyms /\ ~IsYes(Here, now)
    /\ Make(<<>>) /\ user' = Seen /\ NothingNew

\* All was gone through: once more, until nothing is new.
NextPass ==
    /\ pc = "ask" /\ todo = <<>> /\ (again \/ mode = "oldaskconfig")
    /\ todo' = <<Call("check", Root)>> /\ again' = FALSE
    /\ mode' = IF mode = "oldaskconfig" THEN "oldconfig" ELSE mode
    /\ UNCHANGED <<vars, root, chosen, given, plain, listed, sync>>

Finished == pc = "ask" /\ todo = <<>> /\ ~again /\ mode # "oldaskconfig"

EndAsking ==
    /\ Finished
    /\ IF mode = "listnewconfig" THEN Exit /\ Silent
       ELSE pc' = (IF prog = "sync" /\ ~changed THEN "split" ELSE "write") /\ UNCHANGED <<prog, user, now, changed, out, talk>>
    /\ UNCHANGED <<kconfig, files, bounds, sync>>

Walk == \/ Hidden \/ CheckOld \/ List \/ Restart \/ ConfMenu \/ ConfNoSymbol \/ ConfKnown
        \/ \E v \in {"y", "n"} : ConfSym(v)
        \/ \E t \in Texts : ConfString(t)
        \/ \E e \in Entries : Choose(e)
        \/ ConfEmpty \/ NextPass \/ EndAsking
-----------------------------------------------------------------------------
(* main *)

Begin(m) ==
    /\ Load(ReadDot, IF m = "syncconfig" THEN "sync" ELSE "conf", "ask")
    /\ m = "syncconfig" => dot # Missing
    /\ mode' = m /\ chosen' = ChosenWhenRead
    /\ todo' = <<Call(IF m = "oldaskconfig" THEN "conf" ELSE "check", Root)>>
    /\ root' = IF m = "oldaskconfig" THEN Root ELSE Nobody
    /\ UNCHANGED <<again, given, plain, listed, sync>>

NewDefaults == OldDefconfig /\ UNCHANGED <<talk, sync>>

\* conf_set_all_new_symbols: all that has no value in the seed gets this one,
\* hidden or not.  For a bool, m of allmodconfig is as good as y.
AllOf(seed, m) ==
    LET new == Bools \ seed.has
    IN  IF m = "alldefconfig" THEN seed
        ELSE [seed EXCEPT !.val = [s \in Symbols |-> IF s \notin new THEN @[s] ELSE IF m = "allnoconfig" THEN "n" ELSE "y"],
                          !.has = @ \cup new]

\* make allyesconfig, allnoconfig, alldefconfig, and with .config as the seed
\* allyespackageconfig and allnopackageconfig; make runs olddefconfig next.
AllConfig(m, seed) ==
    LET u == AllOf(IF seed = Missing THEN Blank ELSE UserOf(seed), m)
    IN  /\ Load([user |-> u, now |-> Calculate(kconfig, u), changed |-> TRUE], "conf", "write")
        /\ UNCHANGED <<talk, sync>>
-----------------------------------------------------------------------------
(* The files *)

Save == Write /\ UNCHANGED <<talk, sync>>
SaveOld == MoveOld /\ UNCHANGED <<talk, sync>>

SaveNew ==
    /\ Replace
    /\ IF prog = "sync" THEN GoOn("split") /\ UNCHANGED talk ELSE Exit /\ Silent
    /\ stale' = TRUE
    /\ UNCHANGED <<auto, header, touched, built>>

SaveFails == MoveNewFails /\ Silent /\ UNCHANGED sync

\* What auto.conf has a line for: all that is to be written but what is n.
Stored(n) == Lines(n, {s \in Written(n) : s \in Strings \/ n.cur[s] # "n"})

InAuto == IF auto = Missing THEN {} ELSE ToSet(auto)

\* (mutant) what has no value any more is not looked at
DiffersNow == {l[1] : l \in ToSet(Stored(Calculate(kconfig, user))) \ InAuto}

\* conf_split_config: what is another than in auto.conf, or is in only one of them.
Differs ==
    LET new == ToSet(Stored(Calculate(kconfig, user)))
    IN  {l[1] : l \in (new \cup InAuto) \ (new \cap InAuto)}

\* One after the other, in the order of a hash table.
Touch ==
    /\ pc = "split"
    /\ \E s \in Differs \ touched : touched' = touched \cup {s}
    /\ UNCHANGED <<vars, talk, auto, header, stale, built>>

EndSplit ==
    /\ pc = "split" /\ Differs \subseteq touched
    /\ pc' = "header" /\ now' = Calculate(kconfig, user)
    /\ UNCHANGED <<kconfig, prog, user, changed, out, files, bounds, talk, sync>>

\* (mutant) auto.conf is renamed first
MoveAutoFirst ==
    /\ pc = "header"
    /\ auto' = Stored(now) /\ stale' = FALSE /\ pc' = "auto"
    /\ UNCHANGED <<kconfig, prog, user, now, changed, out, files, bounds, talk, header, touched, built>>

\* conf_write_autoconf: the header,
MoveHeader ==
    /\ pc = "header"
    /\ header' = Stored(now) /\ pc' = "auto"
    /\ UNCHANGED <<kconfig, prog, user, now, changed, out, files, bounds, talk, auto, touched, stale, built>>

\* ... and last auto.conf.
MoveAuto ==
    /\ pc = "auto"
    /\ auto' = Stored(now) /\ stale' = FALSE
    /\ Exit /\ Silent
    /\ UNCHANGED <<kconfig, files, bounds, header, touched, built>>

Killed == Kill /\ Silent /\ UNCHANGED sync

NewTree == Upgrade /\ UNCHANGED <<talk, sync>>

\* An editor, or cp.
EditDot ==
    /\ pc = "idle" /\ edits < MaxEdits /\ runs \in 1 .. MaxRuns - 1
    /\ edits' = edits + 1
    /\ dot' \in Defconfigs \ {dot} /\ saved' = dot' /\ stale' = TRUE
    /\ UNCHANGED <<kconfig, pc, prog, user, now, changed, out, old, defc, runs, fails, talk, auto, header, touched, built>>

\* make, once it finds auto.conf up to date.
UpToDate == auto # Missing /\ dot # Missing /\ ~stale
Build ==
    /\ pc = "idle" /\ UpToDate
    /\ built' = auto /\ touched' = {}
    /\ UNCHANGED <<vars, talk, auto, header, stale>>

\* No program here reads the defconfig.
CInit ==
    /\ Init /\ defc = CHOOSE d \in Defconfigs : TRUE
    /\ mode = "none" /\ todo = <<>> /\ root = Nobody /\ again = FALSE /\ chosen = {}
    /\ given = NobodyAsked /\ plain = TRUE /\ listed = {}
    /\ auto = Missing /\ header = Missing /\ touched = {} /\ stale = TRUE /\ built = Missing

CNext ==
    \/ \E m \in {"oldaskconfig", "oldconfig", "syncconfig", "listnewconfig"} : Begin(m)
    \/ NewDefaults
    \/ \E m \in {"allyesconfig", "allnoconfig", "alldefconfig"}, seed \in Seeds : AllConfig(m, seed)
    \/ Walk
    \/ Save \/ SaveOld \/ SaveNew \/ SaveFails
    \/ Touch \/ EndSplit \/ MoveHeader \/ MoveAuto
    \/ Killed \/ NewTree \/ EditDot \/ Build

\* conf_choice finds neither what to take nor what to ask.
Spins == Calling({"conf"}) /\ Sym \in ChoiceSyms /\ IsYes(Here, now) /\ ~AsksChoice /\ \A e \in Offered : ~Taken(e)

\* Weak fairness of Walk, with its ENABLED written out: the program runs on, and
\* each question is at last given an answer that it accepts.
RunsOn == []<>(pc # "ask" \/ Spins) \/ []<><<Walk>>_cvars
CSpec == CInit /\ [][CNext]_cvars /\ RunsOn
-----------------------------------------------------------------------------
(* Properties *)

\* However the answers make new questions appear, the questions end: a pass
\* that asked something leaves less that is new (conf.c:672-685).
AskingEnds == pc = "ask" ~> pc # "ask"

\* The entry and all that it is below of.
Ancestry == [e \in Entries |->
    {a \in Entries : \A S \in SUBSET Entries :
        e \in S /\ (\A x \in S \ {Root} : Parent[x] \in S) => a \in S}]

\* The menus that an entry is in are visible, and so is the entry.
Reachable(e) == \A a \in Ancestry[e] : Visible(a, now)

\* When they end, nothing that can be seen is left without an answer, or, by
\* listnewconfig, unlisted: also what only the last answers brought up, anywhere
\* in the tree (conf.c:412-449).
AsksToTheEnd ==
    Finished => \A e \in Entries :
        Reachable(e) /\ IsNew(e, user) => mode = "listnewconfig" /\ SymOf[e] \in listed \cup ChoiceSyms

\* Who answers all questions with <Enter> has what olddefconfig would have made
\* (conf.c:594-601, Makefile:1075).
EnterIsDefault == Finished /\ plain => now.cur = ReadDot.now.cur

\* What the user answered, now or in the .config that was read, is what is
\* saved, whatever was asked since, where it still can be set; of a string, what
\* is the answer from then on, as it may be LeftOver (symbol.c:532-566).  Of a
\* choice it is not, once another value was taken because it could not be seen:
\* conf_choice sets what it takes (conf.c:330-335).
AnswersKept ==
    Finished =>
        LET read == ReadDot
            value(s) == IF s \in Strings THEN user.val[s] ELSE now.cur[s]
        IN  /\ \A s \in Symbols : Changable(now, s) /\ ~IsValue(s) =>
                   /\ given[s] # NotAsked => value(s) = given[s]
                   /\ given[s] = NotAsked /\ s \in read.user.has => value(s) = read.user.val[s]
            /\ \A c \in ChoiceSyms :
                   /\ given[c] \in now.vis => now.cur[c] = given[c]
                   /\ given[c] = NotAsked /\ read.user.pick[c] \in now.vis => now.cur[c] = read.user.pick[c]

\* make is only ever told that auto.conf is up to date when the header agrees
\* with it and both with .config, wherever syncconfig was killed
\* (confdata.c:1052: "this marks the successful completion of the previous steps").
AutoConfLast ==
    UpToDate => /\ header = auto
                /\ ToSet(auto) = {l \in ToSet(dot) : l[1] \in Strings \/ l[2] # "n"}

\* ... and what was built with other values than it has now has been touched
\* since (confdata.c:843-969).
ChangesTouched ==
    UpToDate /\ built # Missing =>
        {l[1] : l \in (ToSet(built) \cup ToSet(auto)) \ (ToSet(built) \cap ToSet(auto))} \subseteq touched
=============================================================================
