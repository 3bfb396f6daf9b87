------------------------------ MODULE LxDialog ------------------------------
(***************************************************************************)
(* The dialog boxes of make menuconfig: support/kconfig/lxdialog.  A box   *)
(* is a record: what the local variables of its function hold (kind says   *)
(* which function), what it has drawn on the screen, and in res what it    *)
(* returned, "wait" while it reads keys.  Items, rows and lines of text    *)
(* are counted from 0 as in the code; an item is a record of what item_make*)
(* is told of: data, tag and hot, the letter that picks it.                *)
(*                                                                         *)
(* Colours, frames and the columns of a row are left out.  A key is the    *)
(* name of a key or a letter; "esc" is <ESC><ESC>.                         *)
(***************************************************************************)
EXTENDS Integers, SequencesExt, FiniteSetsExt

CONSTANTS Letters,        \* the characters a text is made of
          BoxWidth,       \* the width of an input field
          MaxLen,         \* MAX_LEN: no text entered is longer
          MaxScroll,      \* MAX_LEN again: no text shown is scrolled further
          ListHeight,     \* the rows of a checklist
          JumpNb          \* JUMP_NB: the most places to go to from a page of text

Space == " "  \* what the key "space" types

ASSUME SizesAssumption == {BoxWidth, MaxLen, MaxScroll, ListHeight, JumpNb} \subseteq Nat \ {0}

Blank0 == -1              \* a row with nothing on it

Lesser(a, b) == IF a < b THEN a ELSE b
Greater(a, b) == IF a > b THEN a ELSE b
Count(b) == Len(b.items)
Item(b, i) == b.items[i + 1]

\* What a loop makes of x.
Iterate(f(_), n, x) ==
    LET after[i \in 0 .. n] == IF i = 0 THEN x ELSE f(after[i - 1])
    IN  after[n]

\* The elements of s that are in S, in their order
Among(s, S) ==
    LET upTo[i \in 0 .. Len(s)] ==
          IF i = 0 THEN <<>> ELSE IF s[i] \in S THEN Append(upTo[i - 1], s[i]) ELSE upTo[i - 1]
    IN  upTo[Len(s)]
-----------------------------------------------------------------------------
(* What the list boxes draw.  screen[row] is the item printed there, lit   *)
(* the rows printed as selected.                                           *)

\* print_item; item_set past the last item leaves no item to print.
PrintItem(b, item, row, selected) ==
    IF item \notin 0 .. Count(b) - 1 THEN [b EXCEPT !.res = "crash"]
    ELSE [b EXCEPT !.screen[row] = item,
                   !.lit = IF selected THEN @ \cup {row} ELSE @ \ {row}]

\* do_scroll, wscrl: the rows move up by n.
Shift(b, n) ==
    [b EXCEPT !.scroll = @ + n,
              !.screen = [row \in DOMAIN @ |-> IF row + n \in DOMAIN @ THEN @[row + n] ELSE Blank0],
              !.lit = {row - n : row \in @} \cap DOMAIN b.screen]

DrawRows(b, first) ==
    LET cleared == [b EXCEPT !.screen = [row \in 0 .. b.max - 1 |-> Blank0], !.lit = {}]
        drawn[i \in 0 .. b.max] ==
          IF i = 0 THEN cleared
          ELSE LET c == drawn[i - 1]
               IN  IF c.res = "crash" THEN c ELSE PrintItem(c, first + i - 1, i - 1, i - 1 = b.choice)
    IN  drawn[b.max]

\* The buttons of every box: one further, or one back.
Turn(button, key, n) == IF key = "left" THEN (button + n - 1) % n ELSE (button + 1) % n
-----------------------------------------------------------------------------
(* dialog_menu *)

\* (mutant) a scrolled menu is opened where its rows begin
MenuDrawFromTop(b, height) ==
    LET max == Lesser(height, Count(b))
        here == {i \in 0 .. Count(b) - 1 : Item(b, i).data = b.selected}
        at == IF here = {} THEN b.choice ELSE Max(here)
        kept == b.saved \in 0 .. at /\ b.saved + max > at /\ b.saved + max <= Count(b)
    IN  DrawRows([b EXCEPT !.max = max, !.scroll = IF kept THEN b.saved ELSE 0,
                           !.choice = IF kept THEN at - b.saved ELSE Lesser(at, max - 1)], 0)

\* From do_resize to the first key.  What was the first row is only forgotten
\* when the box is opened again; so is what was selected, when nothing is now.
MenuDraw(b, height) ==
    LET n == Count(b)
        max == Lesser(height, n)
        here == {i \in 0 .. n - 1 : Item(b, i).data = b.selected}
        at == IF here = {} THEN b.choice ELSE Max(here)
        kept == b.saved \in 0 .. at /\ b.saved + max > at /\ b.saved + max <= n
        below == (IF kept THEN at - b.saved ELSE at) >= max
        scroll == IF below THEN IF at >= n - max \div 2 THEN n - max ELSE at - max \div 2
                  ELSE IF kept THEN b.saved ELSE 0
        first == IF below \/ kept THEN scroll ELSE b.first
    IN  DrawRows([b EXCEPT !.max = max, !.scroll = scroll, !.first = first, !.choice = at - scroll], first)

MenuOpen(items, selected, saved, height) ==
    MenuDraw([kind |-> "menu", res |-> "wait", items |-> items, selected |-> selected, saved |-> saved,
              button |-> 0, max |-> 0, scroll |-> 0, choice |-> 0, first |-> 0, at |-> Blank0,
              screen |-> <<>>, lit |-> {}, redrawn |-> FALSE], height)

\* The next row from the highlighted one on, or else from the top, with the letter.
HotRows(b, key) == {row \in 0 .. b.max - 1 : key \in Letters \ {"y", "n", "m", "h", Space} /\ Item(b, b.scroll + row).hot = key}
NextHot(b, key) ==
    LET below == {row \in HotRows(b, key) : row > b.choice}
    IN  IF below # {} THEN Min(below) ELSE Min(HotRows(b, key))

\* (mutant) a row early, the menu is scrolled while its last row is shown
MenuDownEarly(b) ==
    IF b.choice + 3 > b.max /\ b.scroll + b.max <= Count(b)
    THEN LET s == Shift(b, 1) IN PrintItem(s, Lesser(s.scroll + s.max, Count(s)) - 1, s.max - 1, FALSE)
    ELSE [b EXCEPT !.choice = Lesser(@ + 1, b.max - 1)]

MenuDown(b) ==
    IF b.choice + 3 > b.max /\ b.scroll + b.max < Count(b)
    THEN LET s == Shift(b, 1) IN PrintItem(s, s.scroll + s.max - 1, s.max - 1, FALSE)
    ELSE [b EXCEPT !.choice = Lesser(@ + 1, b.max - 1)]

MenuUp(b) ==
    IF b.choice < 2 /\ b.scroll # 0
    THEN LET s == Shift(b, -1) IN PrintItem(s, s.scroll, 0, FALSE)
    ELSE [b EXCEPT !.choice = Greater(@ - 1, 0)]

MenuPageUp(b) ==
    IF b.scroll > 0 THEN LET s == Shift(b, -1) IN PrintItem(s, s.scroll, 0, FALSE)
    ELSE [b EXCEPT !.choice = Greater(@ - 1, 0)]

MenuPageDown(b) ==
    IF b.scroll + b.max < Count(b) THEN LET s == Shift(b, 1) IN PrintItem(s, s.scroll + s.max - 1, s.max - 1, FALSE)
    ELSE [b EXCEPT !.choice = Lesser(@ + 1, b.max - 1)]

Moves == {"up", "down", "pgup", "pgdn"}

\* The highlight is taken off, the row found, and the highlight put on again.
MenuMove(b, key) ==
    LET off == PrintItem(b, b.scroll + b.choice, b.choice, FALSE)
        to == CASE key = "up"   -> MenuUp(off)
                [] key = "down" -> MenuDown(off)
                [] key = "pgup" -> Iterate(MenuPageUp, b.max, off)
                [] key = "pgdn" -> Iterate(MenuPageDown, b.max, off)
                [] OTHER        -> [off EXCEPT !.choice = NextHot(b, key)]
    IN  PrintItem(to, to.scroll + to.choice, to.choice, TRUE)

Buttons == <<"select", "exit", "help", "save", "load">>
MenuResults == [h |-> "help", s |-> "yes", y |-> "yes", n |-> "no", m |-> "mod",
                space |-> "toggle", slash |-> "search", z |-> "all"]

\* A letter of an item is looked for before the letter is a command.
MenuKey(b, key) ==
    IF Count(b) # 0 /\ (key \in Moves \/ HotRows(b, key) # {}) THEN MenuMove(b, key)
    ELSE IF key \in {"left", "right"} THEN [b EXCEPT !.button = Turn(@, key, 5)]
    ELSE IF key \in {"esc", "e", "x"} THEN [b EXCEPT !.res = "esc"]
    ELSE IF key \in DOMAIN MenuResults \cup {"enter"}
         THEN [b EXCEPT !.res = IF key = "enter" THEN Buttons[b.button + 1] ELSE MenuResults[key],
                        !.saved = b.scroll, !.at = b.scroll + b.choice]
    ELSE b
-----------------------------------------------------------------------------
(* dialog_checklist *)

ListDraw(b) ==
    LET over == Greater(b.choice - ListHeight + 1, 0)
        c == [b EXCEPT !.max = Lesser(ListHeight, Count(b)), !.choice = @ - over,
                       !.scroll = IF over > 0 THEN over ELSE @]
    IN  DrawRows(c, c.scroll)

\* The item that is asked for is highlighted, or else the one that is chosen.
ListOpen(items, selected) ==
    LET picked == {i \in 0 .. Len(items) - 1 : items[i + 1].data \in selected}
        chosen == {i \in 0 .. Len(items) - 1 : items[i + 1].tag = "X"}
    IN  ListDraw([kind |-> "list", res |-> "wait", items |-> items, button |-> 0, max |-> 0, scroll |-> 0,
                  choice |-> IF picked # {} THEN Min(picked) ELSE IF chosen # {} THEN Max(chosen) ELSE 0,
                  at |-> Blank0, screen |-> <<>>, lit |-> {}])

ListHot(b, key) == {row \in 0 .. b.max - 1 : Item(b, b.scroll + row).hot = key}

ListTo(b, row) ==
    IF row = b.choice THEN b
    ELSE PrintItem([PrintItem(b, b.scroll + b.choice, b.choice, FALSE) EXCEPT !.choice = row], b.scroll + row, row, TRUE)

ListUp(b) ==
    IF b.choice > 0 THEN ListTo(b, b.choice - 1)
    ELSE IF b.scroll = 0 THEN b
    ELSE LET s == Shift(PrintItem(b, b.scroll, 0, FALSE), -1) IN PrintItem(s, s.scroll, 0, TRUE)

\* (mutant) what was the last row stays highlighted
ListDownLit(b) ==
    IF b.choice # b.max - 1 THEN ListTo(b, b.choice + 1)
    ELSE IF b.scroll + b.choice >= Count(b) - 1 THEN b
    ELSE LET s == Shift(b, 1) IN PrintItem(s, s.scroll + s.max - 1, s.max - 1, TRUE)

ListDown(b) ==
    IF b.choice # b.max - 1 THEN ListTo(b, b.choice + 1)
    ELSE IF b.scroll + b.choice >= Count(b) - 1 THEN b
    ELSE LET s == Shift(PrintItem(b, b.scroll + b.max - 1, b.max - 1, FALSE), 1)
         IN  PrintItem(s, s.scroll + s.max - 1, s.max - 1, TRUE)

ListKey(b, key) ==
    IF key = "up" THEN ListUp(b)
    ELSE IF key = "down" THEN ListDown(b)
    ELSE IF ListHot(b, key) # {} THEN ListTo(b, Min(ListHot(b, key)))
    ELSE IF key \in {"left", "right"} THEN [b EXCEPT !.button = Turn(@, key, 2)]
    ELSE IF key \in {"x", "esc"} THEN [b EXCEPT !.res = "esc"]
    ELSE IF key \in {"h", "s", "space", "enter"}
         THEN [b EXCEPT !.res = IF key = "h" \/ b.button = 1 THEN "help" ELSE "select", !.at = b.scroll + b.choice]
    ELSE b
-----------------------------------------------------------------------------
(* dialog_inputbox.  view is what is drawn in the field.                   *)

Window(b) == SubSeq(b.text, b.show + 1, Lesser(Len(b.text), b.show + BoxWidth))

InputDraw(b) ==
    LET over == Greater(Len(b.text) - BoxWidth + 1, 0)
        c == [b EXCEPT !.pos = Len(b.text), !.show = over, !.x = Len(b.text) - over]
    IN  [c EXCEPT !.view = Window(c)]

InputOpen(text) == InputDraw([kind |-> "input", res |-> "wait", text |-> text, button |-> -1,
                              pos |-> 0, show |-> 0, x |-> 0, view |-> ""])

Redraw(b) == [b EXCEPT !.view = Window(b)]

\* (mutant) the text does not move along with the cursor
BackSkip(b) == IF b.x > 0 THEN [b EXCEPT !.x = @ - 1, !.pos = @ - 1] ELSE [b EXCEPT !.pos = @ - 1]

Back(b) == IF b.x > 0 THEN [b EXCEPT !.x = @ - 1, !.pos = @ - 1]
           ELSE Redraw([b EXCEPT !.show = @ - 1, !.pos = @ - 1])

Forth(b) == IF b.x < BoxWidth - 1 THEN [b EXCEPT !.x = @ + 1, !.pos = @ + 1]
            ELSE Redraw([b EXCEPT !.show = @ + 1, !.pos = @ + 1])

Erase(b) == Redraw([Back(b) EXCEPT !.text = SubSeq(@, 1, b.pos - 1) \o SubSeq(@, b.pos + 1, Len(@))])

Insert(b, letter) ==
    Redraw([Forth(b) EXCEPT !.text = SubSeq(@, 1, b.pos) \o letter \o SubSeq(@, b.pos + 1, Len(@))])

\* A key that prints is typed into the field, while that is what is selected.
Char(key) == IF key = "space" THEN Space ELSE key

FieldKey(b, key) ==
    IF key = "left" THEN IF b.pos > 0 THEN Back(b) ELSE b
    ELSE IF key = "right" THEN IF b.pos < Len(b.text) THEN Forth(b) ELSE b
    ELSE IF key = "backspace" THEN IF b.pos > 0 THEN Erase(b) ELSE b
    ELSE IF Len(b.text) < MaxLen THEN Insert(b, Char(key)) ELSE b

\* The field is -1, "Ok" 0 and "Help" 1.
InputKey(b, key) ==
    IF b.button = -1 /\ key \in Letters \cup {"space", "left", "right", "backspace"} THEN FieldKey(b, key)
    ELSE IF key = "o" THEN [b EXCEPT !.res = "select"]
    ELSE IF key = "h" THEN [b EXCEPT !.res = "help"]
    ELSE IF key \in {"up", "left"} THEN [b EXCEPT !.button = ((@ + 3) % 3) - 1]
    ELSE IF key \in {"tab", "down", "right"} THEN [b EXCEPT !.button = ((@ + 2) % 3) - 1]
    ELSE IF key \in {"space", "enter"} THEN [b EXCEPT !.res = IF b.button = 1 THEN "help" ELSE "select"]
    ELSE IF key \in {"x", "esc"} THEN [b EXCEPT !.res = "esc"]
    ELSE b
-----------------------------------------------------------------------------
(* dialog_textbox.  A text is a record: its number of lines, whether the   *)
(* last one ends in a newline, and, in what a search found, the places to   *)
(* jump to, each with its line and key.  pos is the line page points to.   *)

GetLine(b) ==
    IF b.text.ended /\ b.pos < b.text.lines THEN [b EXCEPT !.pos = @ + 1, !.end = FALSE]
    ELSE IF ~b.text.ended /\ b.pos < b.text.lines - 1 THEN [b EXCEPT !.pos = @ + 1, !.end = FALSE]
    ELSE [b EXCEPT !.pos = b.text.lines, !.end = TRUE]

\* (mutant) the end, once reached, is not counted
BackLinesNoEnd(b, n) == [b EXCEPT !.begin = n >= 1 /\ n >= b.pos, !.end = FALSE, !.pos = Greater(@ - n, 0)]

\* One of the lines is the end, when that has been reached.
BackLines(b, n) ==
    LET atEnd == n > 0 /\ b.end /\ b.pos = b.text.lines
        m == IF atEnd THEN n - 1 ELSE n
    IN  [b EXCEPT !.begin = m >= 1 /\ m >= b.pos,
                  !.end = @ /\ ~atEnd,
                  !.pos = Greater(@ - Greater(m, 0), 0)]

\* (mutant) the places of the page before are offered
UpdateTextLate(b, start, end) ==
    [b EXCEPT !.keys = Among(b.text.jumps, {j \in ToSet(b.text.jumps) : j.line \in start - 1 .. end - 1})]

\* update_text: the jumps of the page, as many as there are keys for them
UpdateText(b, start, end) ==
    LET shown == Among(b.text.jumps, {j \in ToSet(b.text.jumps) : j.line \in start .. end - 1})
    IN  [b EXCEPT !.keys = SubSeq(shown, 1, Lesser(JumpNb, Len(shown)))]

PrintLine(b) ==
    LET c == GetLine(b)
    IN  [c EXCEPT !.length = IF b.passed THEN @ ELSE @ + 1, !.passed = @ \/ c.end]

\* print_page
PrintPage(b) ==
    LET end == Iterate(GetLine, b.height, b)
        back == BackLines(end, b.height)
        start == IF b.text.search THEN UpdateText(back, back.pos, end.pos) ELSE b
    IN  Iterate(PrintLine, b.height, [start EXCEPT !.top = start.pos, !.length = 0, !.passed = FALSE])

TextOpen(text, vscroll, hscroll, height) ==
    LET b == [kind |-> "text", res |-> "wait", text |-> text, begin |-> TRUE, end |-> FALSE, passed |-> FALSE,
              length |-> 0, hscroll |-> hscroll, pos |-> 0, top |-> 0, height |-> height, keys |-> <<>>, at |-> 0]
    IN  PrintPage(IF vscroll = 0 THEN b ELSE Iterate(GetLine, vscroll, [b EXCEPT !.begin = FALSE]))

\* Where the text is when it is opened again: vscroll is pos.
TextEnd(b, res, at) == [BackLines(b, b.length) EXCEPT !.res = res, !.at = at]

\* The jump with this key.
Jumped(b, key) == {i \in DOMAIN b.keys : b.keys[i].key = key}

TextKey(b, key) ==
    CASE key \in {"e", "x", "enter", "esc"} -> TextEnd(b, "exit", 0)
      [] Jumped(b, key) # {} -> TextEnd(b, "jump", Min(Jumped(b, key)))
      [] key = "home" /\ ~b.begin -> PrintPage([b EXCEPT !.begin = TRUE, !.pos = 0])
      [] key = "end" -> PrintPage(BackLines([b EXCEPT !.end = TRUE, !.pos = b.text.lines], b.height))
      [] key = "up" /\ ~b.begin -> PrintPage(BackLines(b, b.length + 1))
      [] key = "pgup" /\ ~b.begin -> PrintPage(BackLines(b, b.length + b.height))
      [] key = "down" /\ ~b.end -> PrintPage(BackLines(b, b.length - 1))
      [] key \in {"pgdn", "space"} /\ ~b.end -> PrintPage([b EXCEPT !.begin = FALSE])
      [] key \in {"left", "h"} /\ b.hscroll > 0 -> PrintPage(BackLines([b EXCEPT !.hscroll = @ - 1], b.length))
      [] key = "0" /\ b.hscroll > 0 -> PrintPage(BackLines([b EXCEPT !.hscroll = 0], b.length))
      [] key = "right" /\ b.hscroll < MaxScroll -> PrintPage(BackLines([b EXCEPT !.hscroll = @ + 1], b.length))
      [] OTHER -> b
-----------------------------------------------------------------------------
(* dialog_yesno *)

AskOpen == [kind |-> "ask", res |-> "wait", button |-> 0]

AskKey(b, key) ==
    IF key = "y" THEN [b EXCEPT !.res = "yes"]
    ELSE IF key = "n" THEN [b EXCEPT !.res = "no"]
    ELSE IF key \in {"left", "right"} THEN [b EXCEPT !.button = Turn(@, key, 2)]
    ELSE IF key \in {"space", "enter"} THEN [b EXCEPT !.res = IF b.button = 0 THEN "yes" ELSE "no"]
    ELSE IF key = "esc" THEN [b EXCEPT !.res = "esc"]
    ELSE b
-----------------------------------------------------------------------------
BoxKey(b, key) ==
    CASE b.kind = "menu"  -> MenuKey(b, key)
      [] b.kind = "list"  -> ListKey(b, key)
      [] b.kind = "input" -> InputKey(b, key)
      [] b.kind = "text"  -> TextKey(b, key)
      [] b.kind = "ask"   -> AskKey(b, key)

\* KEY_RESIZE: the box is drawn anew for the size the terminal has now.
BoxResize(b, height) ==
    CASE b.kind = "menu"  -> [MenuDraw(b, height) EXCEPT !.redrawn = TRUE]
      [] b.kind = "list"  -> ListDraw(b)
      [] b.kind = "input" -> InputDraw(b)
      [] b.kind = "text"  -> PrintPage(BackLines([b EXCEPT !.height = height], b.height + 4))
      [] b.kind = "ask"   -> b
=============================================================================
