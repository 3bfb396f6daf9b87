----------------------------- MODULE KconfigTree -----------------------------
(***************************************************************************)
(* The menu tree that menu_finalize made of the Config.in files, as the    *)
(* programs that ask for values walk it: menu.c of support/kconfig over    *)
(* the symbols of KconfigSym.                                              *)
(***************************************************************************)
EXTENDS KconfigSym

CONSTANTS Entries, Root,      \* the menu entries, and rootmenu
          Children,           \* the list of each
          Kind,               \* "menu", "comment", "config", "menuconfig" or "choice"
          SymOf,              \* the symbol of an entry, or Nobody
          Prompted,           \* the entries with a prompt
          ShownIf, VisibleIf  \* the condition of an entry without symbol, and of "visible if"

Nobody == "nobody"        \* no menu entry, no symbol

Parent == [e \in Entries \ {Root} |-> CHOOSE p \in Entries : e \in ToSet(Children[p])]
ParentOf(e) == Parent[e]

ASSUME TreeAssumption ==
    /\ Root \in Entries /\ Children \in [Entries -> Seq(Entries)]
    /\ SymOf \in [Entries -> Symbols \cup ChoiceSyms \cup {Nobody}]
    /\ \A e \in Entries \ {Root} : \E p \in Entries : e \in ToSet(Children[p])
    /\ \A S \in SUBSET (Entries \ {Root}) : S # {} => \E e \in S : Parent[e] \notin S
    /\ \A S \in SUBSET Entries : S # {} => \E e \in S : ToSet(Children[e]) \cap S = {}

\* Every symbol in the list of a choice is made a value of it, with a prompt,
\* and only a menu has a "visible if".
ASSUME ChoiceAssumption ==
    /\ Nobody \notin Symbols \cup ChoiceSyms
    /\ \A e \in Entries : Kind[e] = "choice" <=> SymOf[e] \in ChoiceSyms
    /\ \A e \in Entries : Kind[e] = "choice" =>
           LET values == {c \in ToSet(Children[e]) : SymOf[c] # Nobody}
           IN  /\ {SymOf[c] : c \in values} = Members(SymOf[e])
               /\ \A c \in values : c \in Prompted /\ VisibleIf[c] = {{}}

\* menu_get_parent_menu: a menu is its own
MenuOf(e) ==
    LET menu[x \in Entries] == IF x = Root \/ Kind[x] \in {"menu", "menuconfig"} THEN x ELSE menu[ParentOf(x)]
    IN  menu[e]

\* In the calculated values n,
IsYes(e, n) ==
    IF Kind[e] = "choice" THEN n.cur[SymOf[e]] # None
    ELSE SymOf[e] \in Bools /\ n.cur[SymOf[e]] = "y"

PromptVisible(e, n) ==
    CASE SymOf[e] \in ChoiceSyms -> Holds(kconfig.prompt[SymOf[e]], n.cur)
      [] SymOf[e] \in Symbols    -> SymOf[e] \in n.vis
      [] OTHER                   -> Holds(ShownIf[e], n.cur)

\* menu_is_visible: an entry is also shown for the sake of what is below it.
Visible(e, n) ==
    LET visible[x \in Entries] ==
          /\ x \in Prompted /\ Holds(VisibleIf[x], n.cur)
          /\ \/ PromptVisible(x, n)
             \/ IsYes(x, n) /\ \E c \in ToSet(Children[x]) : visible[c]
    IN  visible[e]

\* The children that are looked at until one is visible.
LookedThrough(e, n) ==
    LET seen == Children[e]
        first == {i \in DOMAIN seen : Visible(seen[i], n)}
    IN  {seen[i] : i \in 1 .. (IF first = {} THEN Len(seen) ELSE Min(first))}

\* What menu_is_visible marks as answered: symbols that are only shown so.
Marked(e, n) ==
    LET marked[x \in Entries] ==
          IF x \notin Prompted \/ PromptVisible(x, n) \/ ~IsYes(x, n) \/ ~Holds(VisibleIf[x], n.cur) THEN {}
          ELSE (UNION {marked[c] : c \in LookedThrough(x, n)})
               \cup IF Visible(x, n) THEN {SymOf[x]} \cap Symbols ELSE {}
    IN  marked[e]

\* menu_is_empty
MarkedUpTo(e, n) == UNION {Marked(c, n) : c \in LookedThrough(e, n)}
=============================================================================
