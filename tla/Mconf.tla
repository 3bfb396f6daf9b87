-------------------------------- MODULE Mconf --------------------------------
(***************************************************************************)
(* make menuconfig: support/kconfig/mconf.c, with what it uses of menu.c.  *)
(* The dialog boxes are those of LxDialog, the answers and the files those *)
(* of KconfigSym.                                                          *)
(*                                                                         *)
(* The functions of mconf.c call one another, and each shows a box and     *)
(* waits for what it returns: stack has a frame for each of them.  A step  *)
(* reads a key, or handles what a box returned and closes it, or opens the *)
(* box of the function on top of the stack from the values of the symbols. *)
(***************************************************************************)
EXTENDS LxDialog, KconfigTree

CONSTANTS Hot, Initial,       \* the letter that picks an entry in a menu, and in a choice
          Matches,            \* the symbols whose names match what may be searched for
          PromptsOf,          \* the entries that prompt for a symbol, as they are defined
          DotConfig, Writable,\* the name of .config, and the names a file can be given
          HelpLines,          \* how long the help of an entry is
          Terminals,          \* the sizes of a terminal, in lines
          Frame, Needs,       \* the lines of a box around its rows, and those it needs
          Keyboard,           \* the keys
          Tried(_, _),        \* whether a key is tried on a box: a bound
          MaxSpent, MaxDepth  \* bounds on the searches, loads, saves, spent and
                              \* views of all there is in a run, and on the stack

\* A text is a string of letters: one that is shorter than MaxLen can be made
\* longer by each.
AreStrings(texts) ==
    \A t \in texts :
        /\ Len(t) \in Nat
        /\ \A p \in 1 .. Len(t) :
               LET erased == SubSeq(t, 1, p - 1) \o SubSeq(t, p + 1, Len(t))
               IN  erased \in texts /\ Len(erased) = Len(t) - 1
        /\ \A p \in 0 .. Len(t), letter \in Letters :
               LET longer == SubSeq(t, 1, p) \o letter \o SubSeq(t, p + 1, Len(t))
               IN  Len(t) < MaxLen => longer \in texts /\ Len(longer) = Len(t) + 1

ASSUME TextsAssumption ==
    /\ {Space, "o", "h", "x"} \subseteq Letters
    /\ {"", DotConfig} \cup Writable \subseteq Texts /\ AreStrings(Texts)
    /\ \A k \in Kconfigs, s \in Strings : \A i \in DOMAIN k.default[s] : k.default[s][i].val \in Texts
    /\ \A d \in Defconfigs : \A i \in DOMAIN d : d[i][1] \in Strings => d[i][2] \in Texts

\* A box that fits has a row.
ASSUME BoxesAssumption ==
    /\ Terminals \subseteq Nat /\ \E most \in Terminals : \A n \in Terminals : n <= most
    /\ {Frame.menu, Frame.text, Needs.menu, Needs.text} \subseteq Nat
    /\ Frame.menu < Needs.menu /\ Frame.text < Needs.text
    /\ HelpLines \in [Entries -> Nat \ {0}]
    /\ Matches \in [Texts -> Seq(Symbols)]
    /\ PromptsOf \in [Symbols -> Seq(Entries)] /\ Nobody \notin Entries
    /\ \A s \in Symbols : ToSet(PromptsOf[s]) = {e \in Entries \cap Prompted : SymOf[e] = s}

VARIABLES stack,     \* the functions called, each with its local variables
          box,       \* the box on the screen
          all,       \* show_all_options
          quiet,     \* save_and_exit
          name,      \* filename
          alt,       \* the configuration files other than .config
          lines,     \* the size of the terminal
          spent      \* how much of MaxSpent went for what is no answer

ui == <<stack, box, all, quiet, name, alt, lines, spent>>
mvars == <<vars, ui>>

Closed == [kind |-> "none", res |-> "none"]
Call(fn, menu) == [fn |-> fn, menu |-> menu, active |-> Nobody, vscroll |-> 0, hscroll |-> 0, find |-> ""]
Top == Last(stack)
-----------------------------------------------------------------------------
(* build_conf *)

Row(e, tag) == [data |-> e, tag |-> tag, hot |-> Hot[e]]
Passed(e) == IF all THEN e \notin Prompted ELSE ~Visible(e, now)

\* The choice value that is shown beside the prompt of the choice: def_menu
Chosen(e) ==
    LET those == {i \in DOMAIN Children[e] : /\ Visible(Children[e][i], now)
                                             /\ SymOf[Children[e][i]] = now.cur[SymOf[e]]}
    IN  {Children[e][i] : i \in {j \in those : \A k \in those : k <= j}}

\* The items that build_conf makes of an entry, in the menu that is open.
Rows(e, menu) ==
    LET rows[x \in Entries] ==
          LET below == FlattenSeq([i \in DOMAIN Children[x] |-> rows[Children[x][i]]])
              value == SymOf[x] \in Bools /\ IsValue(SymOf[x])
          IN  CASE Passed(x) -> <<>>
                [] Kind[x] = "menu" -> IF x = menu THEN below ELSE <<Row(x, "m")>>
                [] Kind[x] = "comment" -> <<Row(x, ":")>> \o below
                [] Kind[x] = "choice" /\ IsYes(x, now) ->
                       IF \E c \in Chosen(x) : Children[c] # <<>>
                       THEN <<Row(x, "t")>> \o rows[CHOOSE c \in Chosen(x) : TRUE]
                       ELSE <<Row(x, IF Chosen(x) # {} THEN "t" ELSE ":")>>
                [] Kind[x] = "choice" -> <<Row(x, ":")>> \o below
                [] x = menu -> <<Row(x, ":")>> \o below
                [] SymOf[x] \in Strings -> <<Row(x, "s")>> \o below
                [] OTHER -> <<Row(x, IF value /\ IsYes(x, now) THEN ":" ELSE "t")>>
                            \o (IF Kind[x] = "menuconfig" THEN <<>> ELSE below)
    IN  rows[e]

\* What is marked as answered meanwhile.
MarkedBy(e, menu) ==
    LET marked[x \in Entries] ==
          Marked(x, now) \cup
          CASE Passed(x) -> {}
            [] x # menu /\ Kind[x] \in {"menu", "menuconfig"} -> MarkedUpTo(x, now)
            [] Kind[x] = "choice" /\ IsYes(x, now) ->
                   (UNION {Marked(c, now) : c \in ToSet(Children[x])})
                   \cup UNION {marked[c] : c \in {y \in Chosen(x) : Children[y] # <<>>}}
            [] OTHER -> UNION {marked[c] : c \in ToSet(Children[x])}
    IN  marked[e]

\* The items of conf_choice: all that is visible in the choice.
ChoiceRows(e) ==
    LET shown == Among(Children[e], {c \in ToSet(Children[e]) : Visible(c, now)})
    IN  [i \in DOMAIN shown |->
            [data |-> shown[i], hot |-> IF SymOf[shown[i]] = Nobody THEN "*" ELSE Initial[shown[i]],
             tag |-> IF SymOf[shown[i]] = now.cur[SymOf[e]] THEN "X"
                     ELSE IF SymOf[shown[i]] = Nobody THEN ":" ELSE " "]]

\* What is to be highlighted: the value there was, or that help was asked for.
Picked(f) == {e \in ToSet(Children[f.menu]) : SymOf[e] = f.active}
-----------------------------------------------------------------------------
(* get_relations_str *)

\* The entries that e is below of, the nearest eight of them
Above(e) ==
    LET above[x \in Entries] ==
          IF x = Root \/ ParentOf(x) = Root THEN <<>> ELSE <<ParentOf(x)>> \o above[ParentOf(x)]
        way == above[e]
    IN  SubSeq(way, 1, Lesser(8, Len(way)))

\* get_prompt_str: where the entry is, or else the nearest menu it is below of
JumpOf(e) ==
    LET up == Among(Above(e), {p \in ToSet(Above(e)) : Visible(p, now)})
    IN  IF up = <<>> THEN {} ELSE {[target |-> IF Visible(e, now) THEN e ELSE up[1], at |-> up[1]]}

\* What menu_is_visible is asked about for it
Asked(e) == ToSet(Above(e)) \cup IF JumpOf(e) = {} THEN {} ELSE {e}

\* What is told of a symbol: its name and type, its prompts, and two empty lines.
Parts(s) == <<Nobody>> \o PromptsOf[s] \o <<Nobody>>

\* The lines of a part: of a prompt, itself and the way there, from the outermost
\* menu on.
Size(part) == IF part = Nobody THEN 2 ELSE 1 + IF Above(part) = <<>> THEN 0 ELSE 1 + Len(Above(part))

Found(syms) ==
    LET parts == FlattenSeq([i \in DOMAIN syms |-> Parts(syms[i])])
        start[i \in 1 .. Len(parts) + 1] == IF i = 1 THEN 0 ELSE start[i - 1] + Size(parts[i - 1])
        with == Among([i \in DOMAIN parts |-> i], {i \in DOMAIN parts : parts[i] # Nobody /\ JumpOf(parts[i]) # {}})
        jump(i) == CHOOSE j \in JumpOf(parts[i]) : TRUE
        place(i) == Len(Above(parts[i])) - (CHOOSE j \in DOMAIN Above(parts[i]) : Above(parts[i])[j] = jump(i).at)
    IN  [ lines |-> IF parts = <<>> THEN 1 ELSE start[Len(parts) + 1],
          ended |-> TRUE, search |-> TRUE,
          jumps |-> [n \in DOMAIN with |-> [target |-> jump(with[n]).target,
                                            line |-> start[with[n]] + 2 + place(with[n]),
                                            key |-> ToString(((n - 1) % JumpNb) + 1)]] ]

\* A help text; a message is a line without end in a box of its own size.
Text(n) == [lines |-> n, ended |-> TRUE, search |-> FALSE, jumps |-> <<>>]
Message == [Text(1) EXCEPT !.ended = FALSE]
-----------------------------------------------------------------------------
(* The boxes *)

Fits(kind, b) == IF lines < Needs[kind] THEN [kind |-> kind, res |-> "small"] ELSE b

\* The box that the function on top of the stack shows.
BoxOf(f) ==
    CASE f.fn = "conf"   -> Fits("menu", MenuOpen(Rows(f.menu, f.menu), f.active, f.vscroll, lines - Frame.menu))
      [] f.fn = "choice" -> Fits("list", ListOpen(ChoiceRows(f.menu), Picked(f)))
      [] f.fn = "string" -> Fits("input", InputOpen(now.cur[SymOf[f.menu]]))
      [] f.fn \in {"load", "save"} -> Fits("input", InputOpen(name))
      [] f.fn = "search" -> Fits("input", InputOpen(""))
      [] f.fn = "results" -> Fits("text", TextOpen(Found(Matches[f.find]), f.vscroll, f.hscroll, lines - Frame.text))
      [] f.fn = "help"   -> Fits("text", TextOpen(Text(HelpLines[f.menu]), 0, 0, lines - Frame.text))
      [] f.fn = "message" -> Fits("text", TextOpen(Message, 0, 0, 2))
      [] f.fn = "exit"   -> Fits("ask", AskOpen)

Looked(f) ==
    CASE f.fn = "conf"    -> MarkedBy(f.menu, f.menu)
      [] f.fn = "choice"  -> UNION {Marked(e, now) : e \in ToSet(Children[f.menu])}
      [] f.fn = "results" -> UNION {Marked(e, now) : e \in UNION {Asked(x) :
                                           x \in UNION {ToSet(PromptsOf[s]) : s \in ToSet(Matches[f.find])}}}
      [] OTHER            -> {}

Open ==
    /\ pc = "edit" /\ box = Closed
    /\ box' = BoxOf(Top)
    /\ user' = [user EXCEPT !.has = @ \cup Looked(Top)]
    /\ UNCHANGED <<kconfig, pc, prog, now, changed, out, files, bounds, stack, all, quiet, name, alt, lines, spent>>

\* What a key is not tried for, so that the bounds are kept.
TooMany(b) ==
    \/ /\ edits + spent >= MaxSpent
       /\ \/ b.res \in {"search", "load", "save", "all"}
          \/ b.kind = "menu" /\ b.res \in {"yes", "no", "toggle"}
          \/ Top.fn \in {"choice", "string"} /\ b.res = "select"
    \/ /\ Len(stack) = MaxDepth
       /\ \/ b.res \in {"help", "save", "load", "search", "jump"}
          \/ b.kind = "menu" /\ b.res \in {"select", "toggle"}

Key(key) ==
    /\ pc = "edit" /\ box.res = "wait" /\ Tried(box, key)
    /\ LET b == BoxKey(box, key)
       IN  /\ b # box /\ ~TooMany(b)
           /\ box' = b
           /\ spent' = IF b.res \in {"search", "load", "save", "all"} THEN spent + 1 ELSE spent
    /\ UNCHANGED <<vars, stack, all, quiet, name, alt, lines>>

Resize ==
    /\ pc = "edit" /\ box.res = "wait" /\ edits + spent < MaxSpent
    /\ spent' = spent + 1
    /\ lines' \in Terminals \ {lines}
    /\ box' = IF lines' < Needs[box.kind] THEN [box EXCEPT !.res = "small"]
              ELSE BoxResize(box, IF box.kind = "menu" THEN lines' - Frame.menu
                                 ELSE IF Top.fn = "message" THEN 2 ELSE lines' - Frame.text)
    /\ UNCHANGED <<vars, stack, all, quiet, name, alt>>
-----------------------------------------------------------------------------
(* What the functions do with what their boxes return *)

Handling(fns, res) == pc = "edit" /\ box.res \in res /\ Top.fn \in fns

\* The stack from now on; the box on top of it is opened next.
Continue(frames) == stack' = frames /\ box' = Closed /\ UNCHANGED <<quiet, lines, spent>>
Show(fn, e) == <<Call(fn, e)>>
Here == Item(box, box.at)
Unchanged == UNCHANGED <<vars, all, name, alt>>

\* conf remembers the entry and how far the menu was scrolled.
Resumed ==
    Append(Front(stack), [Top EXCEPT !.vscroll = box.saved, !.active = IF Count(box) = 0 THEN Nobody ELSE Here.data])

ConfSelect ==
    /\ Handling({"conf"}, {"select"})
    /\ Unchanged
    /\ IF Count(box) = 0 THEN Continue(Resumed)
       ELSE LET e == Here.data
                choice == Here.tag = "t" /\ Kind[e] = "choice" /\ IsYes(e, now)
            IN  Continue(Resumed \o
                    CASE Here.tag = "m" \/ (Here.tag = "t" /\ Kind[e] = "menuconfig") -> Show("conf", e)
                      [] choice          -> <<[Call("choice", e) EXCEPT !.active = now.cur[SymOf[e]]]>>
                      [] Here.tag = "s"  -> Show("string", e)
                      [] OTHER           -> <<>>)

\* The other buttons, search and help.
ConfCall ==
    /\ Handling({"conf"}, {"help", "save", "load", "search"})
    /\ Unchanged
    /\ Continue(Resumed \o Show(box.res, IF Count(box) = 0 \/ SymOf[Here.data] = Nobody THEN Root ELSE Here.data))

\* (mutant) the row is looked up by the item that was first to be highlighted
SettableAtFirst ==
    LET e == Item(box, 0).data
    IN  IF Count(box) # 0 /\ Here.tag = "t" THEN {SymOf[e]} \cap Bools ELSE {}

\* The symbols that the row can be the answer of.
Settable == IF Count(box) # 0 /\ Here.tag = "t" THEN {SymOf[Here.data]} \cap Bools ELSE {}

\* sym_set_tristate_value, when it is accepted
Try(s, v) == IF Accepts(s, v) THEN SetBool(s, v) ELSE UNCHANGED vars

\* m sets no bool.
ConfSet ==
    /\ Handling({"conf"}, {"yes", "no", "mod"})
    /\ IF Settable = {} \/ box.res = "mod" THEN UNCHANGED vars
       ELSE \E s \in Settable : Try(s, IF box.res = "yes" THEN "y" ELSE "n")
    /\ Continue(Resumed) /\ UNCHANGED <<all, name, alt>>

\* sym_toggle_tristate_value: a value that cannot be left is set again.
ConfToggle ==
    /\ Handling({"conf"}, {"toggle"})
    /\ IF Settable = {} THEN UNCHANGED vars
       ELSE \E s \in Settable :
                LET other == IF now.cur[s] = "y" THEN "n" ELSE "y"
                IN  SetBool(s, IF Accepts(s, other) THEN other ELSE now.cur[s])
    /\ Continue(Resumed \o IF Count(box) # 0 /\ Here.tag = "m" THEN Show("conf", Here.data) ELSE <<>>)
    /\ UNCHANGED <<all, name, alt>>

ConfShowAll ==
    /\ Handling({"conf"}, {"all"})
    /\ all' = ~all
    /\ Continue(Resumed) /\ UNCHANGED <<vars, name, alt>>

\* All functions return when their box is left, conf also when it does not fit.
Return ==
    /\ \/ Handling({"conf"}, {"exit", "esc", "small"}) /\ Len(stack) > 1
       \/ Handling({"choice", "search"}, {"esc", "small"})
       \/ Handling({"string", "load", "save"}, {"esc"})
       \/ Handling({"results", "help", "message"}, {"exit", "small"})
    /\ Continue(Front(stack)) /\ Unchanged

\* These try again, and again, when theirs does not fit.
Again == Handling({"string", "load", "save"}, {"small"}) /\ Continue(stack) /\ Unchanged

BoxHelp ==
    /\ Handling({"choice", "string", "load", "save", "search"}, {"help"})
    /\ IF Top.fn = "choice"
       THEN Continue(Append(Front(stack), [Top EXCEPT !.active = SymOf[Here.data]]) \o Show("help", Here.data))
       ELSE Continue(stack \o Show("help", Top.menu))
    /\ Unchanged

ChoiceSelect ==
    /\ Handling({"choice"}, {"select"})
    /\ IF SymOf[Here.data] = Nobody THEN Continue(stack) /\ UNCHANGED vars
       ELSE Continue(Front(stack)) /\ Try(SymOf[Here.data], "y")
    /\ UNCHANGED <<all, name, alt>>

StringSelect ==
    /\ Handling({"string"}, {"select"})
    /\ SetString(SymOf[Top.menu], box.text)
    /\ Continue(Front(stack)) /\ UNCHANGED <<all, name, alt>>

\* (mutant) the menu that is jumped to is taken for the entry in it
JumpToMenu(j) == [Call("conf", ParentOf(j.target)) EXCEPT !.active = ParentOf(j.target)]

JumpTo(j) == [Call("conf", ParentOf(j.target)) EXCEPT !.active = j.target]

SearchSelect ==
    /\ Handling({"search"}, {"select"})
    /\ Continue(Append(Front(stack), [Call("results", Root) EXCEPT !.find = box.text])) /\ Unchanged

\* The place in the results is kept, and they are shown again afterwards.
Jump ==
    /\ Handling({"results"}, {"jump"})
    /\ Continue(Front(stack) \o <<[Top EXCEPT !.vscroll = box.pos, !.hscroll = box.hscroll], JumpTo(box.keys[box.at])>>)
    /\ Unchanged

FileAt(n) == IF n = DotConfig THEN dot ELSE IF n \in DOMAIN alt THEN alt[n] ELSE Missing

\* conf_read forgets that there are changes before it finds that there is no file.
LoadSelect ==
    /\ Handling({"load"}, {"select"})
    /\ LET from == FileAt(box.text)
       IN  IF box.text = "" THEN Continue(Front(stack)) /\ UNCHANGED <<name, user, now, changed>>
           ELSE IF from = Missing
           THEN /\ Continue(stack \o Show("message", Root))
                /\ changed' = FALSE
                /\ UNCHANGED <<name, user, now>>
           ELSE /\ Continue(Front(stack))
                /\ name' = box.text
                /\ LET r == Read(kconfig, from) IN user' = r.user /\ now' = r.now
                /\ changed' = TRUE
    /\ UNCHANGED <<kconfig, pc, prog, out, files, bounds, all, alt>>

\* conf_write to another file than .config, in one step
WriteAs(n) ==
    /\ alt' = [m \in DOMAIN alt \cup {n} |-> IF m = n THEN Lines(ToWrite, Written(ToWrite)) ELSE alt[m]]
    /\ now' = [ToWrite EXCEPT !.wr = {}]
    /\ changed' = FALSE
    /\ name' = n
    /\ UNCHANGED <<kconfig, pc, prog, user, out, files, bounds, all>>

Told(frames) == frames \o IF quiet THEN <<>> ELSE Show("message", Root)

SaveSelect ==
    /\ Handling({"save"}, {"select"})
    /\ CASE box.text = ""        -> Continue(Front(stack)) /\ Unchanged
         [] box.text = DotConfig -> Write /\ Continue(stack) /\ UNCHANGED <<all, name, alt>>
         [] box.text \in Writable \ {DotConfig} -> WriteAs(box.text) /\ Continue(Told(Front(stack)))
         [] OTHER                -> Continue(stack \o Show("message", Root)) /\ Unchanged

\* The renames of conf_write, while no box is shown
Rename == MoveOld /\ UNCHANGED ui
Saved == MoveNew /\ Top.fn = "save" /\ Continue(Told(Front(stack))) /\ name' = DotConfig /\ UNCHANGED <<all, alt>>
SaveFails == MoveNewFails /\ Top.fn = "save" /\ Continue(stack \o Show("message", Root)) /\ UNCHANGED <<all, name, alt>>

-----------------------------------------------------------------------------
(* main, handle_exit *)

Start ==
    /\ Menuconfig
    /\ stack' = <<Call("conf", Root)>> /\ box' = Closed
    /\ all' = FALSE /\ quiet' = FALSE /\ name' = DotConfig
    /\ UNCHANGED <<alt, lines, spent>>

End ==
    /\ Exit
    /\ stack' = <<>> /\ box' = Closed /\ all' = FALSE /\ quiet' = FALSE /\ name' = DotConfig
    /\ UNCHANGED <<kconfig, defc, old, bounds, lines, spent>>

\* The outermost menu is left.
HandleExit ==
    /\ Handling({"conf"}, {"exit", "esc", "small"}) /\ Len(stack) = 1
    /\ IF changed
       THEN /\ stack' = Show("exit", Root) /\ box' = Closed /\ quiet' = TRUE
            /\ UNCHANGED <<vars, all, name, alt, lines, spent>>
       ELSE End /\ UNCHANGED <<dot, saved, alt>>

ExitYes ==
    /\ Handling({"exit"}, {"yes"})
    /\ IF name = DotConfig THEN Write /\ Continue(stack) /\ UNCHANGED <<all, name, alt>>
       ELSE /\ alt' = [alt EXCEPT ![name] = Lines(ToWrite, Written(ToWrite))]
            /\ End /\ UNCHANGED <<dot, saved>>

ExitSaved == pc = "moved" /\ Top.fn = "exit" /\ dot' = out /\ saved' = out /\ End /\ UNCHANGED alt
ExitUnsaved == Handling({"exit"}, {"no", "small"}) /\ End /\ UNCHANGED <<dot, saved, alt>>

\* Not to leave after all: the outermost menu is shown as at first.
ExitBack == Handling({"exit"}, {"esc"}) /\ Continue(Show("conf", Root)) /\ Unchanged

MInit == /\ Init /\ stack = <<>> /\ box = Closed /\ all = FALSE /\ quiet = FALSE /\ name = DotConfig
         /\ alt = [n \in {} |-> <<>>] /\ lines = Max(Terminals) /\ spent = 0

MNext ==
    \/ Start \/ Open \/ \E key \in Keyboard : Key(key)
    \/ Resize
    \/ ConfSelect \/ ConfCall \/ ConfSet \/ ConfToggle \/ ConfShowAll
    \/ Return \/ Again \/ BoxHelp \/ ChoiceSelect \/ StringSelect
    \/ SearchSelect \/ Jump \/ LoadSelect \/ SaveSelect \/ Rename \/ Saved \/ SaveFails
    \/ HandleExit \/ ExitYes \/ ExitSaved \/ ExitUnsaved \/ ExitBack

MSpec == MInit /\ [][MNext]_mvars
-----------------------------------------------------------------------------
(* Properties *)

Redrawn == box.kind = "menu" /\ box.redrawn
Listing == box.kind \in {"menu", "list"} /\ box.res \notin {"small", "crash", "none"}

\* Each row of a list box shows the item that the keys take it for, and only
\* the row that they act on is highlighted, however the rows were scrolled
\* (menubox.c:290-369, checklist.c:208-285); a menu that the terminal was
\* resized under is left to ItemsExist.
RowsInStep ==
    Listing /\ ~Redrawn =>
        /\ \A row \in 0 .. box.max - 1 : box.screen[row] = box.scroll + row
        /\ box.lit = IF Count(box) = 0 THEN {} ELSE {box.choice}
        /\ box.scroll + box.max <= Count(box)

\* What is seen of an input field is what is edited, at the cursor
\* (inputbox.c:122-231).
CursorInStep ==
    box.kind = "input" /\ box.res # "small" =>
        /\ box.show + box.x = box.pos /\ box.x \in 0 .. BoxWidth - 1
        /\ box.pos <= Len(box.text)
        /\ box.view = Window(box)

\* The box of a text knows where it is: going back by what it shows is where
\* its page begins, it refuses to go up at the first line only, and the keys it
\* offers are those of the places on the page (textbox.c:280-336, mconf.c:364).
TextInStep ==
    box.kind = "text" /\ box.res = "wait" /\ box.text.ended =>
        /\ BackLines(box, box.length).pos = box.top
        /\ box.begin => box.top = 0 \/ box.text.search
        /\ box.top = 0 => box.begin
        /\ LET page == Among(box.text.jumps, {j \in ToSet(box.text.jumps) : j.line \in box.top .. box.top + box.height - 1})
           IN  box.text.search => box.keys = SubSeq(page, 1, Lesser(JumpNb, Len(page)))

\* The boxes that count where they are in several ways stay in step with
\* themselves, in whatever order keys, resizes and jumps come.
BoxesInStep == CursorInStep /\ TextInStep

\* The row on the screen that is highlighted.
Highlighted == {Item(box, box.screen[row]).data : row \in box.lit}

\* However one moved, scrolled and jumped, only the answer to the row that was
\* highlighted, or to the string on the screen, changes (mconf.c:660-751).
OnlyWhatIsShown ==
    [][ user'.val # user.val /\ pc' = pc /\ Top.fn # "load" =>
            \A s \in Symbols : user'.val[s] # user.val[s] =>
                \/ Listing /\ \E e \in Highlighted : SymOf[e] = s
                \/ Redrawn
                \/ Top.fn = "string" /\ SymOf[Top.menu] = s /\ user'.val[s] = box.text ]_mvars

\* The key of a search result leads to a menu with that entry highlighted; a
\* choice value is found in the choice, the only row there (mconf.c:450-455).
JumpShowsTarget ==
    [][ box = Closed /\ box'.kind = "menu" /\ box'.res = "wait" /\ Top.active # Nobody
        /\ Len(stack) > 1 /\ stack[Len(stack) - 1].fn = "results" /\ Top.vscroll = 0 =>
            LET lit == {Item(box', box'.screen[row]).data : row \in box'.lit}
            IN  lit = {Top.active} \/ (Kind[Top.menu] = "choice" /\ lit = {Top.menu}) ]_mvars

\* Every row that a menu prints is an item, whatever the size of the terminal
\* (menubox.c:43: "lxdialog is crash-safe against ... menus change their size on the fly").
ItemsExist == box.res # "crash"
=============================================================================
