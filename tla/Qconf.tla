-------------------------------- MODULE Qconf --------------------------------
(***************************************************************************)
(* make xconfig, qconf.cc of support/kconfig: lists of rows that are kept  *)
(* in step with the menu tree by adding and removing rows, and by drawing  *)
(* again only the rows of entries that MENU_CHANGED marks.                 *)
(*                                                                         *)
(* There are three lists: the one of settings, beside it in the split view *)
(* the one of menus, and the one of a search.  Columns, pixmaps, the label *)
(* (NEW) and what is selected and expanded are left out; a row shows the   *)
(* value of its symbol, a menu, or nothing.                                *)
(***************************************************************************)
EXTENDS KconfigTree

CONSTANTS Searches,     \* what a search may find: sequences of entries
          OptionModes   \* what of enum optionMode is used

VARIABLE win            \* the lists

qvars == <<vars, win>>

Widgets == {"search", "config", "menu"}   \* the instances of ConfigList
Up == "up"              \* the row ".."
Top == "top"            \* where rows are that are below no other
IsMenu(e) == Kind[e] \in {"menu", "menuconfig"}

\* rootmenu is a menu, and no entry is twice in a list.
ASSUME RootAssumption == IsMenu(Root) /\ SymOf[Root] = Nobody /\ {Up, Top, Nobody} \cap Entries = {}
ASSUME SearchAssumption == Searches \subseteq Seq(Entries)
ASSUME PlaceAssumption ==
    \A e \in Entries : \A i, j \in DOMAIN Children[e] : Children[e][i] = Children[e][j] => i = j

NoRows == [p \in Entries \cup {Top} |-> <<>>]
Undrawn == [e \in Entries |-> "none"]
Closed == [ mode |-> "single", opt |-> "normal",  \* mode and optMode of the list of settings,
            root |-> Nobody, left |-> Nobody,      \* rootEntry of it and of the list of menus
            rows |-> [l \in Widgets |-> NoRows],    \* the rows below each row
            icon |-> [l \in Widgets |-> Undrawn],   \* what they show
            flagged |-> {},                        \* the entries with MENU_CHANGED
            late |-> FALSE ]                       \* (history) values were calculated since all were updated
-----------------------------------------------------------------------------
(* fixup_rootmenu: the entries with MENU_ROOT *)

MenuRoots ==
    LET fixed[m \in Entries] == [within \in BOOLEAN |->
          {m} \cup UNION {fixed[c][within \/ IsMenu(c)] : c \in {c \in ToSet(Children[m]) : IsMenu(c) \/ ~within}}]
    IN  fixed[Root][FALSE]

ModeOf(w, l) == CASE l = "config" -> w.mode [] l = "menu" -> "menu" [] OTHER -> "list"
OptOf(w, l) == IF l = "search" THEN "normal" ELSE w.opt
RootOf(w, l) == CASE l = "config" -> w.root [] l = "menu" -> w.left [] OTHER -> Nobody

\* menuSkip
Skipped(opt, e, n) ==
    CASE opt = "normal" -> ~Visible(e, n)
      [] opt = "prompt" -> e \notin Prompted
      [] OTHER          -> FALSE

HiddenBy(mode, e) == CASE mode = "menu" -> e \notin MenuRoots [] mode = "symbol" -> e \in MenuRoots [] OTHER -> FALSE

\* updateMenu: what a row of e in the list l shows
Shows(w, l, e, n) ==
    LET mode == ModeOf(w, l)
        asMenu == IsMenu(e) /\ IF mode \in {"single", "symbol"} THEN ~(SymOf[e] # Nobody /\ w.root = e) ELSE SymOf[e] = Nobody
        s == SymOf[e]
    IN  CASE asMenu -> "menu"
          [] ~asMenu /\ s = Nobody -> "blank"
          [] ~asMenu /\ s \in Strings -> n.cur[s]
          [] ~asMenu /\ s \in ChoiceSyms -> IF OptOf(w, l) = "normal" \/ n.cur[s] = None THEN "blank" ELSE "y"
          [] OTHER -> IF ~Changable(n, s) /\ OptOf(w, l) = "normal" THEN "blank" ELSE n.cur[s]
-----------------------------------------------------------------------------
(* updateMenuList *)

HasNoRow(c) == SymOf[c] = Nobody /\ Children[c] = <<>> /\ c \notin Prompted

\* What is done for the child c of a menu, when the rows up to last are those of
\* the children before it and next are those that follow: the row of c is only
\* recognised if it is the first of these.  kept are the rows that stay.

\* (mutant) after a row that is removed, the one that follows is passed over
ChildSkip(skip, c, a) ==
    LET there == a.next # <<>> /\ Head(a.next) = c
        shown == c \notin skip /\ ~HasNoRow(c)
        pass == Len(a.next) > 1
    IN  CASE shown /\ there    -> [last |-> Append(a.last, c), next |-> Tail(a.next), kept |-> a.kept \cup {c}]
          [] shown /\ ~there   -> [a EXCEPT !.last = Append(@, c)]
          [] c \in skip /\ there -> [a EXCEPT !.last = IF pass THEN Append(@, a.next[2]) ELSE @,
                                            !.next = IF pass THEN Tail(Tail(@)) ELSE <<>>]
          [] OTHER -> a

Child(skip, c, a) ==
    LET there == a.next # <<>> /\ Head(a.next) = c
        shown == c \notin skip /\ ~HasNoRow(c)
    IN  CASE shown /\ there    -> [last |-> Append(a.last, c), next |-> Tail(a.next), kept |-> a.kept \cup {c}]
          [] shown /\ ~there   -> [a EXCEPT !.last = Append(@, c)]
          [] c \in skip /\ there -> [a EXCEPT !.next = Tail(@)]
          [] OTHER -> a

\* What the loop leaves: the rows that follow the last stay.
Looped(a) == [rows |-> a.last \o a.next, kept |-> a.kept]

\* The rows of the children of m but those in skip, from the rows that there were
Updated(skip, m, rows) ==
    LET up == rows # <<>> /\ Head(rows) = Up
        upTo[i \in 0 .. Len(Children[m])] ==
          IF i = 0 THEN [last |-> IF up THEN <<Up>> ELSE <<>>, next |-> IF up THEN Tail(rows) ELSE rows, kept |-> {}]
          ELSE Child(skip, Children[m][i], upTo[i - 1])
    IN  Looped(upTo[Len(Children[m])])

Level(p, a) == [at |-> p, rows |-> a.rows, kept |-> a.kept]

\* What is in a menu is only shown below it in the full view and in the list of
\* menus.
Opened(mode, rows) == {c \in ToSet(rows) \ {Up} : mode \in {"full", "menu"} \/ ~IsMenu(c)}

\* The levels of rows below the row of m, that was there or is new
Below(w, l, skip, m, was) ==
    LET below[x \in Entries] == [there \in BOOLEAN |->
          LET a == Updated(skip, x, IF there THEN w.rows[l][x] ELSE <<>>)
          IN  {Level(x, a)} \cup UNION {below[c][(c \in a.kept)] : c \in Opened(ModeOf(w, l), a.rows)}]
    IN  below[m][was]

\* A menuconfig that was gone into is a row itself.
HasUp(w, l) == LET r == RootOf(w, l) IN r # Root /\ (ModeOf(w, l) = "single" \/ (ModeOf(w, l) = "symbol" /\ ParentOf(r) # Root))
Alone(w, l) ==
    LET r == RootOf(w, l)
    IN  (ModeOf(w, l) = "single" \/ (ModeOf(w, l) = "symbol" /\ r \notin MenuRoots)) /\ SymOf[r] # Nobody /\ r \in Prompted

\* updateList: the whole list
LevelsOf(w, l, n) ==
    LET r == RootOf(w, l)
        skip == {e \in Entries : HiddenBy(ModeOf(w, l), e) \/ Skipped(OptOf(w, l), e, n)}
        were == w.rows[l][Top]
        top == IF HasUp(w, l) /\ were = <<>> THEN <<Up>> ELSE were
        there == r \in ToSet(top)
        a == Updated(skip, r, top)
    IN  IF r = Nobody THEN {}
        ELSE IF Alone(w, l)
        THEN {[at |-> Top, rows |-> IF there THEN top ELSE Append(top, r), kept |-> {r} \cap ToSet(top)]}
             \cup Below(w, l, skip, r, there)
        ELSE {Level(Top, a)} \cup UNION {Below(w, l, skip, c, c \in a.kept) : c \in Opened(ModeOf(w, l), a.rows)}

RowsIn(w, l) == (UNION {ToSet(w.rows[l][p]) : p \in Entries \cup {Top}}) \ {Up}

\* (mutant) only the row itself is drawn again
DrawnAlone(w, l, tested, all, n) ==
    [w EXCEPT !.icon = [k \in Widgets |-> [e \in Entries |->
                  IF e \notin RowsIn(w, k) THEN "none"
                  ELSE IF k = l /\ (e \notin tested \/ e \in w.flagged \/ all) THEN Shows(w, k, e, n) ELSE w.icon[k][e]]],
              !.flagged = @ \ tested]

\* init of the rows that are new, testUpdateMenu of those that were there: the
\* first that finds its entry flagged draws the rows of it in all lists.
Drawn(w, l, tested, all, n) ==
    LET due(k, e) == \/ k = l /\ (e \notin tested \/ all)
                     \/ e \in tested \cap w.flagged
        icons(k, there) == [e \in Entries |->
                                IF e \notin there THEN "none"
                                ELSE IF due(k, e) THEN Shows(w, k, e, n) ELSE w.icon[k][e]]
    IN  [w EXCEPT !.icon = [k \in Widgets |-> icons(k, RowsIn(w, k))],
                  !.flagged = @ \ tested]

RowsOf(levels) ==
    LET at(p) == {v \in levels : v.at = p}
    IN  [p \in Entries \cup {Top} |-> IF at(p) = {} THEN <<>> ELSE (CHOOSE v \in at(p) : TRUE).rows]

\* The list l has the levels of rows now.
Listed(w, l, levels, all, n) == Drawn([w EXCEPT !.rows[l] = RowsOf(levels)], l, UNION {v.kept : v \in levels}, all, n)

\* updateList, and with all updateListAll, of one list
UpdateList(w, l, all, n) ==
    IF l = "search" THEN Drawn(w, l, RowsIn(w, l), all, n)
    ELSE Listed(w, l, LevelsOf(w, l, n), all, n)

\* ConfigView::updateList: the view made last comes first.
UpdateViews(w, all, n) ==
    [UpdateList(UpdateList(UpdateList(w, "search", all, n), "config", all, n), "menu", all, n) EXCEPT !.late = FALSE]

\* setRootMenu
SetRoot(w, m, n) ==
    IF w.root = m \/ ~IsMenu(m) THEN w
    ELSE UpdateList([w EXCEPT !.rows["config"] = NoRows, !.root = m], "config", TRUE, n)
-----------------------------------------------------------------------------
(* What menu_is_visible marks while the lists are updated *)

LookedAt(w, l) ==
    IF l = "search" THEN RowsIn(w, l)
    ELSE {c \in Entries \ {Root} :
             /\ ~HiddenBy(ModeOf(w, l), c)
             /\ \/ ParentOf(c) \in {RootOf(w, l)}
                \/ ParentOf(c) \in RowsIn(w, l) /\ (ModeOf(w, l) \in {"full", "menu"} \/ ~IsMenu(ParentOf(c)))}

Marks(w, ls, n) == UNION {UNION {Marked(e, n) : e \in LookedAt(w, l)} : l \in ls}

\* The lists ls were updated to w, with the answers u and the values n.
Show(u, n, w, ls) ==
    /\ user' = [u EXCEPT !.has = @ \cup Marks(w, ls, n)]
    /\ now' = n
    /\ win' = w

\* sym_set_changed
Flag(w, S) == [w EXCEPT !.flagged = @ \cup {e \in Entries : SymOf[e] \in S}]

\* What has another value, or is visible or selected where it was not.
Differing(n, m) == {s \in Symbols \cup ChoiceSyms : \/ n.cur[s] # m.cur[s]
                                                    \/ (s \in n.vis) # (s \in m.vis)
                                                    \/ (s \in n.sel) # (s \in m.sel)}

\* The SYMBOL_CHANGED of a choice is never cleared: its values are flagged always.
Flagged(w, n, m) == Flag(w, Differing(n, m) \cup {s \in Symbols : IsValue(s)})

\* The answers are u now, with one to s, and with new values or not; all lists
\* are updated.
Changed(s, u, new) ==
    LET n == IF new THEN Calculate(kconfig, u) ELSE now
        w == Flag(win, {s} \ user.has)
    IN  /\ changed' = (changed \/ new)
        /\ Show(u, n, UpdateViews(IF new THEN Flagged(w, now, n) ELSE w, FALSE, n), Widgets)

Here == pc = "edit" /\ UNCHANGED <<kconfig, pc, prog, out, files, runs, fails>>
Edited == Here /\ edits < MaxEdits /\ edits' = edits + 1
Moved == Here /\ UNCHANGED <<edits, changed>>

InLists(w, e) == e \in RowsIn(w, "config") \/ (w.mode = "symbol" /\ e \in RowsIn(w, "menu"))

\* The rows that can be seen, of the search too
Rows == RowsIn(win, "search") \cup RowsIn(win, "config") \cup IF win.mode = "symbol" THEN RowsIn(win, "menu") ELSE {}
-----------------------------------------------------------------------------
(* The rows *)

\* setValue, by the keys N and Y and a click on their columns
SetValue(e, v) ==
    /\ Edited /\ SymOf[e] \in Bools /\ Accepts(SymOf[e], v)
    /\ Changed(SymOf[e], Answered(user, SymOf[e], v), v # now.cur[SymOf[e]])

\* changeValue of what cannot be another value: its value becomes its answer.
ChangeNothing(e) ==
    LET s == SymOf[e]
    IN  /\ Edited /\ s \in Bools
        /\ ~\E v \in {"y", "n"} \ {now.cur[s]} : Accepts(s, v)
        /\ user' = Answered(user, s, now.cur[s])
        /\ win' = Flag(win, {s} \ user.has)
        /\ UNCHANGED <<now, changed>>

\* ConfigLineEdit: Return.  Anything else that is done closes it.
EnterText(e, t) ==
    /\ Edited /\ SymOf[e] \in Strings
    /\ Changed(SymOf[e], Entered(user, SymOf[e], t), user.val[SymOf[e]] # t)

\* A menu is gone into, from either list.
ChangeMenu(e) ==
    /\ Moved /\ IsMenu(e) /\ win.root # e
    /\ win.mode # "full" /\ InLists(win, e)
    /\ Show(user, now, SetRoot(win, e, now), {"config"})

\* (mutant) to the entry above
BackUp == SetRoot(win, ParentOf(win.root), now)

\* setParentMenu: to the menu above
Back == SetRoot(win, MenuOf(ParentOf(win.root)), now)

GoBack ==
    /\ Moved /\ win.root # Root
    /\ Show(user, now, Back, {"config"})

Search(found) ==
    /\ Moved /\ win.rows["search"][Top] # found
    /\ LET w == [win EXCEPT !.rows["search"][Top] = found, !.icon["search"] = Undrawn]
       IN  Show(user, now, Drawn(w, "search", {}, FALSE, now), {"search"})

\* (mutant) to what the entry is below
LinkedUp(e) == IF win.mode = "full" THEN win ELSE SetRoot(win, ParentOf(e), now)

\* setMenuLink
Linked(e) ==
    CASE win.mode = "single" -> SetRoot(win, MenuOf(e), now)
      [] win.mode = "symbol" -> SetRoot(win, IF e \in MenuRoots THEN e ELSE MenuOf(ParentOf(e)), now)
      [] OTHER -> win

\* A result of a search is selected.
SetMenuLink(e) ==
    /\ Moved /\ e \in RowsIn(win, "search") /\ ~Skipped(win.opt, e, now)
    /\ Show(user, now, Linked(e), {"config"})
-----------------------------------------------------------------------------
(* The main window *)

\* showSingleView, showSplitView, showFullView: the list of menus is made for
\* the first split view, and kept after it.
InView(w, mode, n) ==
    LET s == [w EXCEPT !.mode = mode]
        t == IF s.root = Root THEN UpdateList(s, "config", TRUE, n) ELSE SetRoot(s, Root, n)
    IN  IF mode = "symbol" /\ t.left # Root THEN UpdateList([t EXCEPT !.left = Root], "menu", TRUE, n) ELSE t

ShowView(mode) ==
    /\ Moved /\ win.mode # mode
    /\ Show(user, now, InView(win, mode, now), {"config", "menu"})

SetOptionMode(opt) ==
    /\ Moved /\ win.opt # opt
    /\ Show(user, now, UpdateList(UpdateList([win EXCEPT !.opt = opt], "config", TRUE, now), "menu", TRUE, now), {"config", "menu"})

\* main, with the view of the last time
Start(mode) ==
    /\ pc = "idle" /\ runs < MaxRuns
    /\ runs' = runs + 1 /\ pc' = "edit" /\ prog' = "qconf"
    /\ changed' = ReadDot.changed
    /\ Show(ReadDot.user, ReadDot.now, InView(Flagged(Closed, NotCalculated, ReadDot.now), mode, ReadDot.now), {"config", "menu"})
    /\ UNCHANGED <<kconfig, out, files, edits, fails>>

LoadConfig(lines) ==
    /\ Edited
    /\ LET r == Read(kconfig, lines)
       IN  /\ changed' = r.changed
           /\ Show(r.user, r.now, UpdateViews(Flagged(win, now, r.now), TRUE, r.now), Widgets)

Ended == Exit /\ win' = Closed

\* conf_write calculates all again when nothing was changed, and no list is
\* updated after it.
Recalculated ==
    IF changed THEN win
    ELSE [Flagged(win, now, ToWrite) EXCEPT !.late = @ \/ Differing(now, ToWrite) # {}]

\* saveConfig, saveConfigAs whatever file is named, and closeEvent, Yes: all of
\* conf_write, as nothing else is done meanwhile
SaveConfig(quit) ==
    /\ pc = "edit" /\ edits < MaxEdits /\ edits' = edits + 1 /\ (quit => changed)
    /\ old' = IF dot = Missing THEN old ELSE dot
    /\ dot' = Lines(ToWrite, Written(ToWrite)) /\ saved' = dot'
    /\ IF quit THEN Ended
       ELSE /\ now' = [ToWrite EXCEPT !.wr = {}] /\ changed' = FALSE
            /\ win' = Recalculated
            /\ UNCHANGED <<pc, prog, user, out>>
    /\ UNCHANGED <<kconfig, defc, runs, fails>>

\* The second rename fails: a message says so, and the window stays.
SaveFails ==
    /\ pc = "edit" /\ edits < MaxEdits /\ edits' = edits + 1
    /\ old' = IF dot = Missing THEN old ELSE dot
    /\ dot' = Missing
    /\ now' = [ToWrite EXCEPT !.wr = {}] /\ changed' = TRUE
    /\ win' = Recalculated
    /\ UNCHANGED <<kconfig, pc, prog, user, out, defc, saved, runs, fails>>

\* closeEvent: there is nothing to save, or the answer is No.
Close == pc = "edit" /\ Ended /\ UNCHANGED <<kconfig, files, bounds>>

\* There is a .config; no program here reads a defconfig.
QInit == Init /\ dot = defc /\ win = Closed

Views == {"single", "symbol", "full"}
QNext ==
    \/ \E mode \in Views : Start(mode) \/ ShowView(mode)
    \/ \E e \in Rows : \/ \E v \in {"y", "n"} : SetValue(e, v)
                       \/ ChangeNothing(e)
                       \/ \E t \in Texts : EnterText(e, t)
                       \/ ChangeMenu(e)
    \/ GoBack
    \/ \E found \in Searches : Search(found)
    \/ \E e \in Entries : SetMenuLink(e)
    \/ \E opt \in OptionModes : SetOptionMode(opt)
    \/ \E lines \in Defconfigs : LoadConfig(lines)
    \/ \E quit \in BOOLEAN : SaveConfig(quit)
    \/ SaveFails \/ Close

QSpec == QInit /\ [][QNext]_qvars
-----------------------------------------------------------------------------
(* Properties *)

\* Adding and removing rows one at a time leaves the lists as if they had been
\* made anew: in the order of the menus, none twice, none missing, whatever was
\* changed and whichever views were seen in between (qconf.cc:586-714); but for
\* what a save calculates, which no list shows before the next change.
RowsFresh ==
    pc = "edit" /\ ~win.late =>
        \A l \in {"config", "menu"} :
            win.rows[l] = RowsOf(LevelsOf([win EXCEPT !.rows[l] = NoRows], l, now))

\* No list shows a value that its symbol no longer has, nor one that cannot be
\* changed as if it could, although each entry is marked once for all lists and
\* the first to look clears the mark (qconf.cc:224-240).  What a save calculates
\* leaves its mark, for the next change to draw.
IconsFresh ==
    pc = "edit" =>
        \A l \in Widgets : \A e \in RowsIn(win, l) :
            \/ win.icon[l][e] = Shows(win, l, e, now)
            \/ win.late /\ e \in win.flagged

\* The result of a search that would be selected is a row in the main window
\* then, or it is the menu that is shown there, in every view (qconf.cc:1574-1624).
LinkShows ==
    pc = "edit" =>
        \A e \in RowsIn(win, "search") :
            ~Skipped(win.opt, e, now) => LET w == Linked(e) IN w.root = e \/ InLists(w, e)

\* Going back would lead out of the menu, to where it is a row, if it can still
\* be seen (qconf.cc:556-577).
BackShows ==
    pc = "edit" /\ win.root # Root =>
        /\ Back.root # win.root
        /\ Skipped(win.opt, win.root, now) \/ InLists(Back, win.root)

\* Wherever one goes, by a link or back, leads to what it names.
WaysShow == LinkShows /\ BackShows
=============================================================================
