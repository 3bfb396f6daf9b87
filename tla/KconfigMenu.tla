---------------------------- MODULE KconfigMenu ----------------------------
(***************************************************************************)
(* What conf_parse of support/kconfig does with a Config.in once it is     *)
(* read: menu_finalize of menu.c hands dependencies down the tree of       *)
(* menus, gathers selects, makes submenus of entries that depend on the    *)
(* symbol before them, makes the entries of a choice its values and lifts  *)
(* out what is in an if; sym_check_deps of symbol.c then looks for symbols *)
(* that depend on themselves.                                              *)
(*                                                                         *)
(* The tree is kept as the C code keeps it, by the pointers list, next and *)
(* parent.  The types of symbols are given, and warnings left out.         *)
(***************************************************************************)
EXTENDS KconfigExpr, SequencesExt

CONSTANT Kconfigs    \* sets of Config.in files: sequences of entries, in the order
                     \* they are written in, each with the entry up that it is
                     \* in, its kind ("config", "choice", "optional" for a choice
                     \* that may be n, "menu" or "if"), its symbol or Nobody, what
                     \* it depends on, what it is `visible if', and its properties,
                     \* sequences of [kind, cond, arg], with arg what is selected,
                     \* implied or the default

VARIABLES pc,        \* whether the Config.in is read, or finalized too
          kconfig,   \* the Config.in that is read
          tree,      \* what is made of it
          left,      \* the symbols that sym_check_deps is still called for
          check,     \* what it found
          yynerrs    \* whether conf_parse counted an error

vars == <<pc, kconfig, tree, left, check, yynerrs>>

Root == 0
Nil == -1
Nobody == ""

SymOf(m) == IF m = Root THEN Nobody ELSE kconfig[m].sym
IsChoice(m) == m # Root /\ kconfig[m].kind \in {"choice", "optional"}
\* Each symbol has a property P_SYMBOL first, for where it is defined.
PropsOf(k, m) ==
    IF k[m].sym = Nobody THEN k[m].props
    ELSE <<[kind |-> "symbol", cond |-> NoExpr, arg |-> NoExpr]>> \o k[m].props
HasPrompt(m) == \E i \in DOMAIN PropsOf(kconfig, m) : PropsOf(kconfig, m)[i].kind = "prompt"
-----------------------------------------------------------------------------
(* The tree that the parser leaves *)

FirstOf(S) == IF S = {} THEN Nil ELSE Min(S)

\* What the menus from m up are `visible if' is added to the condition e of a
\* prompt in them, not to the prompt of a menu.
RECURSIVE Visibility(_, _, _)
Visibility(k, m, e) == IF m = Root THEN e ELSE Visibility(k, k[m].up, AllocAnd(e, k[m].vis))

CondRead(k, m, prop) == IF prop.kind = "prompt" /\ k[m].kind # "menu" THEN Visibility(k, k[m].up, prop.cond) ELSE prop.cond

Parsed(k) ==
    LET nodes == DOMAIN k
        none == [s \in Bool \cup Tristate |-> NoExpr]
    IN  [ list    |-> [m \in nodes \cup {Root} |-> FirstOf({c \in nodes : k[c].up = m})],
          next    |-> [m \in nodes |-> FirstOf({c \in nodes : c > m /\ k[c].up = k[m].up})],
          parent  |-> [m \in nodes |-> k[m].up],
          dep     |-> [m \in nodes |-> k[m].dep],                       \* menu->dep
          cond    |-> [m \in nodes |-> [i \in DOMAIN PropsOf(k, m) |-> CondRead(k, m, PropsOf(k, m)[i])]],  \* prop->visible
          rev     |-> none, implied |-> none, dir |-> none,             \* of the symbols
          values  |-> [s \in {k[m].sym : m \in {c \in nodes : k[c].kind \in {"choice", "optional"}}} |-> <<>>] ]

PromptOf(t, m) == t.cond[m][CHOOSE i \in DOMAIN t.cond[m] : PropsOf(kconfig, m)[i].kind = "prompt"]

\* m and what follows it
RECURSIVE Chain(_, _)
Chain(t, m) == IF m = Nil THEN <<>> ELSE <<m>> \o Chain(t, t.next[m])
-----------------------------------------------------------------------------
(* menu_finalize: the dependencies of p are handed down to m. *)

ParentDep(t, p) ==
    CASE p = Root -> NoExpr
      [] IsChoice(p) -> Sym(SymOf(p))
      [] HasPrompt(p) -> PromptOf(t, p)
      [] OTHER -> t.dep[p]

\* The condition e of a property, the dependency d of its entry handed down.
PropVisible(d, e, s) ==
    LET v == EliminateDups(AllocAnd(d, Transform(RewriteM(e))))
    IN  IF s # Nobody /\ ~IsTristate(s) THEN TransBool(v) ELSE v

\* A select by s under the condition e, added to the reverse dependency r.
AddSelect(r, s, e) == AllocOr(r, AllocAnd(Sym(s), e))

FinalizeProp(t, m, i) ==
    LET prop == PropsOf(kconfig, m)[i]
        e == PropVisible(t.dep[m], t.cond[m][i], SymOf(m))
        u == [t EXCEPT !.cond[m][i] = e]
    IN  CASE prop.kind = "select" -> [u EXCEPT !.rev[prop.arg.sym] = AddSelect(@, SymOf(m), e)]
          [] prop.kind = "imply" -> [u EXCEPT !.implied[prop.arg.sym] = AddSelect(@, SymOf(m), e)]
          [] OTHER -> u

HandedDown(t, p, m) ==
    LET d == EliminateDups(AllocAnd(ParentDep(t, p), Transform(RewriteM(t.dep[m]))))
    IN  FoldLeftDomain(LAMBDA u, i : FinalizeProp(u, m, i), [t EXCEPT !.dep[m] = d], t.cond[m])
-----------------------------------------------------------------------------
(* menu_finalize: the entries after p that become a submenu of it *)

\* What is compared to tell whether an entry has at least the dependencies of
\* the symbol before it.
NotNo(e) == EliminateDups(Transform(TransCompare(e, "ne", "n")))

Dependency(t, m) == IF HasPrompt(m) THEN PromptOf(t, m) ELSE t.dep[m]
Superset(t, p, e) ==
    EliminateEq(NotNo(e), NotNo(IF HasPrompt(p) THEN PromptOf(t, p) ELSE NoExpr))[2] \in {NoExpr, Sym("y")}

\* (mutant) an absolute dependency is not looked for
GoesBelowSuperset(t, p, m) ==
    LET e == Dependency(t, m)
    IN  ContainsSymbol(e, SymOf(p)) /\ Superset(t, p, e)

GoesBelow(t, p, m) ==
    LET e == Dependency(t, m)
    IN  ContainsSymbol(e, SymOf(p)) /\ (DependsSymbol(e, SymOf(p)) \/ Superset(t, p, e))
-----------------------------------------------------------------------------
(* menu_finalize: what is done to m of the list of p when all of it is final *)

\* (mutant) what is lifted out keeps its parent
SplicedLoose(t, p, m) ==
    LET ms == Chain(t, t.list[m])
    IN  [t EXCEPT !.next[Last(ms)] = t.next[m], !.next[m] = t.list[m], !.list[m] = Nil]

\* What is below m goes behind it.
Spliced(t, p, m) ==
    LET ms == Chain(t, t.list[m])
    IN  [t EXCEPT !.parent = [n \in DOMAIN @ |-> IF n \in ToSet(ms) THEN p ELSE @[n]],
                  !.next[Last(ms)] = t.next[m], !.next[m] = t.list[m], !.list[m] = Nil]

Flattened(t, p, m) == IF t.list[m] # Nil /\ ~HasPrompt(m) THEN Spliced(t, p, m) ELSE t

IsValue(t, s) == \E c \in DOMAIN t.values : Contains(t.values[c], s)

\* A value of a tristate choice that is a bool can only be y when the choice is.
WithValue(t, p, m) ==
    LET c == SymOf(p)
        onlyY(e) == IF IsTristate(c) /\ ~IsTristate(SymOf(m)) THEN AllocAnd(Comp("eq", c, "y"), e) ELSE e
    IN  [t EXCEPT !.values[c] = Append(@, SymOf(m)),
                  !.dep[m] = onlyY(@),
                  !.cond[m] = [i \in DOMAIN @ |-> onlyY(@[i])]]

MadeValue(t, p, m) ==
    IF IsChoice(p) /\ SymOf(m) # Nobody /\ ~IsValue(t, SymOf(m)) THEN WithValue(t, p, m) ELSE t

RECURSIVE Settled(_, _, _)
Settled(t, p, m) ==
    IF m = Nil THEN t
    ELSE LET u == Flattened(MadeValue(t, p, m), p, m) IN Settled(u, p, u.next[m])

\* A choice that is not optional is at least m when it can be seen.
Required(t, p) ==
    IF p # Root /\ kconfig[p].kind = "choice" /\ HasPrompt(p)
    THEN [t EXCEPT !.rev[SymOf(p)] = AllocOr(@, AllocAnd(PromptOf(t, p), Sym("m")))] ELSE t
-----------------------------------------------------------------------------
(* menu_finalize *)

RECURSIVE Finalize(_, _), FinalizeFrom(_, _), Gathered(_, _, _, _)

FinalizeFrom(t, m) == IF m = Nil THEN t ELSE LET u == Finalize(t, m) IN FinalizeFrom(u, u.next[m])

\* What follows p from m on is put below it, as far as it depends on it; last
\* is the last that was.
Gathered(t, p, m, last) ==
    IF m = Nil \/ ~GoesBelow(t, p, m) THEN <<t, last>>
    ELSE LET u == Finalize(t, m) IN Gathered([u EXCEPT !.parent[m] = p], p, u.next[m], m)

Submenu(t, p) ==
    LET g == Gathered(t, p, t.next[p], Nil)
        u == g[1]
        last == g[2]
        v == IF last = Nil THEN u
             ELSE [u EXCEPT !.list[p] = u.next[p], !.next[p] = u.next[last], !.next[last] = Nil]
    IN  [v EXCEPT !.dir[SymOf(p)] = AllocOr(@, v.dep[p])]

Finalize(t, p) ==
    LET u == CASE t.list[p] # Nil ->
                    FinalizeFrom(FoldLeft(LAMBDA a, m : HandedDown(a, p, m), t, Chain(t, t.list[p])), t.list[p])
               [] t.list[p] = Nil /\ SymOf(p) # Nobody -> Submenu(t, p)
               [] OTHER -> t
    IN  Required(Settled(u, p, u.list[p]), p)
-----------------------------------------------------------------------------
(* sym_check_deps: a state has the symbols with SYMBOL_CHECK and those with  *)
(* SYMBOL_CHECKED, the symbols on the stack, the recursions that were told   *)
(* and what the call returns.                                                *)

Unchecked == [busy |-> {}, checked |-> {}, stack |-> <<>>, told |-> {}, res |-> Nobody]

ChoiceOf(s) == IF IsValue(tree, s) THEN CHOOSE c \in DOMAIN tree.values : Contains(tree.values[c], s) ELSE s
Returning(st, s) == [st EXCEPT !.res = s]
Pushed(st, s) == [st EXCEPT !.stack = Append(@, s)]
Popped(st) == [st EXCEPT !.stack = Front(@)]
Marked(st, S) == [st EXCEPT !.busy = @ \cup S, !.checked = @ \cup S]

\* sym_check_print_recursive: the stack from the symbol s on, for a value from
\* its choice on
Tell(st, s) ==
    LET stack == IF ChoiceOf(s) = s THEN st.stack ELSE Append(st.stack, s)
        at == SelectLastInSeq(stack, LAMBDA x : x = ChoiceOf(s))
    IN  [st EXCEPT !.told = @ \cup {SubSeq(stack, at, Len(stack))}]

\* What is looked into for s: its reverse dependency, the conditions of all its
\* properties but selects, and its defaults.
PropExprs(s, m, i) ==
    LET prop == PropsOf(kconfig, m)[i]
    IN  CASE prop.kind = "select" -> <<>>
          [] prop.kind = "default" /\ ~IsChoice(m) -> <<tree.cond[m][i], prop.arg>>
          [] OTHER -> <<tree.cond[m][i]>>

ExprsOf(s) ==
    LET nodes == SetToSortSeq({m \in DOMAIN kconfig : SymOf(m) = s}, <)
        of(m) == FoldLeftDomain(LAMBDA a, i : a \o PropExprs(s, m, i), <<>>, tree.cond[m])
    IN  FoldLeft(LAMBDA a, m : a \o of(m), <<tree.rev[s]>>, nodes)

RECURSIVE CheckDeps(_, _), CheckExpr(_, _)

CheckExpr(st, e) ==
    CASE e.op = "none" -> Returning(st, Nobody)
      [] e.op = "not" -> CheckExpr(st, e.arg)
      [] IsTwo(e) -> LET a == CheckExpr(st, e.left) IN IF a.res # Nobody THEN a ELSE CheckExpr(a, e.right)
      [] IsComp(e) -> LET a == CheckDeps(st, e.sym) IN IF a.res # Nobody THEN a ELSE CheckDeps(a, e.val)
      [] e.op = "sym" -> CheckDeps(st, e.sym)

CheckSymDeps(st, s) ==
    Popped(FoldLeft(LAMBDA a, e : IF a.res # Nobody THEN a ELSE CheckExpr(a, e),
                    Returning(Pushed(st, s), Nobody), ExprsOf(s)))

\* (mutant) the values are not marked
CheckChoiceAlone(st, c) ==
    LET a == CheckSymDeps(Marked(Pushed(st, c), {c}), c)
        b == FoldLeft(LAMBDA x, v : IF x.res # Nobody THEN x ELSE CheckSymDeps(x, v),
                      [a EXCEPT !.busy = @ \ {c}], tree.values[c])
    IN  Popped(b)

\* The values are marked while the choice is looked into, and while they are
\* themselves.
CheckChoice(st, c) ==
    LET vs == ToSet(tree.values[c])
        a == CheckSymDeps(Marked(Pushed(st, c), vs \cup {c}), c)
        b == FoldLeft(LAMBDA x, v : IF x.res # Nobody THEN x ELSE CheckSymDeps(x, v),
                      [a EXCEPT !.busy = @ \ {c}], tree.values[c])
    IN  Popped([b EXCEPT !.busy = @ \ vs, !.res = IF @ \in vs THEN c ELSE @])

CheckSym(st, s) == LET a == CheckSymDeps(Marked(st, {s}), s) IN [a EXCEPT !.busy = @ \ {s}]

CheckDeps(st, s) ==
    LET back(a) == IF a.res = s THEN Returning(a, Nobody) ELSE a
    IN  CASE s \in st.busy -> Returning(Tell(st, s), s)
          [] s \in st.checked \cup Literal -> Returning(st, Nobody)
          [] IsValue(tree, s) -> back(Popped(CheckDeps(Pushed(st, s), ChoiceOf(s))))
          [] s \in DOMAIN tree.values -> back(CheckChoice(st, s))
          [] OTHER -> back(CheckSym(st, s))
-----------------------------------------------------------------------------
(* conf_parse *)

\* Those that have anything to look into.
Defined == {s \in Bool \cup Tristate : tree.rev[s] # NoExpr \/ \E m \in DOMAIN kconfig : SymOf(m) = s}

Init ==
    /\ pc = "read"
    /\ \E i \in DOMAIN Kconfigs : kconfig \in Kconfigs[i]
    /\ tree = Parsed(kconfig)
    /\ left = {}
    /\ check = Unchecked /\ yynerrs = FALSE

MenuFinalize ==
    /\ pc = "read" /\ pc' = "final"
    /\ UNCHANGED <<kconfig, check, yynerrs>>
    /\ tree' = Finalize(tree, Root)
    /\ left' = Defined'

\* for_all_symbols, in the order of their hashes
SymCheckDeps(s) ==
    /\ s \in left
    /\ left' = left \ {s}
    /\ LET a == CheckDeps(check, s)
       IN  check' = Returning(a, Nobody) /\ yynerrs' = (yynerrs \/ a.res # Nobody)
    /\ UNCHANGED <<pc, kconfig, tree>>

Next == MenuFinalize \/ \E s \in left : SymCheckDeps(s)

Spec == Init /\ [][Next]_vars

-----------------------------------------------------------------------------
(* Properties *)

Finalized == pc = "final" /\ check = Unchecked

\* What Config.in says the entry m depends on, and what is in it
RECURSIVE Written(_), WrittenIn(_)
Written(m) == AllocAnd(WrittenIn(kconfig[m].up), RewriteM(kconfig[m].dep))
WrittenIn(p) ==
    CASE p = Root -> NoExpr
      [] IsChoice(p) -> Sym(SymOf(p))
      [] OTHER -> Written(p)

\* ... and its property i
WrittenCond(m, i) == AllocAnd(Written(m), RewriteM(CondRead(kconfig, m, PropsOf(kconfig, m)[i])))

\* A bool that is a value of a tristate choice is only there when that is y.
AsValue(m, e) ==
    LET p == tree.parent[m]
    IN  IF IsChoice(p) /\ SymOf(m) # Nobody /\ IsTristate(SymOf(p)) /\ ~IsTristate(SymOf(m))
        THEN AllocAnd(Comp("eq", SymOf(p), "y"), e) ELSE e

\* The properties of a kind, as <<m, i>>, and when those of them hold that name
\* the symbol s
OfKind(kind) == {mi \in (DOMAIN kconfig) \X (1 .. 3) :
                    mi[2] \in DOMAIN tree.cond[mi[1]] /\ PropsOf(kconfig, mi[1])[mi[2]].kind = kind}
WrittenFor(kind, s) ==
    {Two("and", Sym(SymOf(mi[1])), WrittenCond(mi[1], mi[2])) :
        mi \in {x \in OfKind(kind) : PropsOf(kconfig, x[1])[x[2]].arg = Sym(s)}}
WrittenChoice(s) == {WrittenCond(mi[1], mi[2]) : mi \in {x \in OfKind("prompt") : kconfig[x[1]].kind = "choice" /\ SymOf(x[1]) = s}}

Holds(e, v) == CalcValue(e, v) # 0

\* All the rewriting on the way down the tree leaves what Config.in says, for
\* all values of the symbols: the dependency of an entry has the value of what
\* is written there and in the menus around it, and its properties are there
\* when they say so (menu.c:343-398); a symbol is selected, or implied, when one
\* of those that do so is not n, and a choice that is not optional when its
\* prompt is there (menu.c:404-412, 600).
MeansWritten ==
    Finalized =>
        /\ \A m \in DOMAIN kconfig :
              /\ LET e == AsValue(m, Written(m))
                 IN  \A v \in Assignments : CalcValue(tree.dep[m], v) = CalcValue(e, v)
              /\ \A i \in DOMAIN tree.cond[m] :
                    LET e == AsValue(m, WrittenCond(m, i))
                    IN  \A v \in Assignments : Holds(tree.cond[m][i], v) <=> Holds(e, v)
        /\ \A s \in Bool \cup Tristate :
              LET gathered(e, es) == \A v \in Assignments : (e # NoExpr /\ Holds(e, v)) <=> \E x \in es : Holds(x, v)
              IN  /\ gathered(tree.rev[s], WrittenFor("select", s) \cup WrittenChoice(s))
                  /\ gathered(tree.implied[s], WrittenFor("imply", s))

\* What the entry m shows of itself: its prompt, or its dependency.
WrittenOf(m) ==
    IF HasPrompt(m) THEN WrittenCond(m, CHOOSE i \in DOMAIN tree.cond[m] : PropsOf(kconfig, m)[i].kind = "prompt")
    ELSE Written(m)
NeverThere(m) == \A v \in Assignments : ~Holds(WrittenOf(m), v)

\* An entry is put below a symbol only when it is gone for all values of the
\* symbols for which that is n, or for all those for which its prompt is hidden.
SubmenuGone ==
    \A m \in DOMAIN kconfig :
        LET p == tree.parent[m]
        IN  p # Root /\ kconfig[p].kind = "config" =>
                LET e == WrittenOf(m)
                IN  \/ \A v \in Assignments : Holds(e, v) => v[SymOf(p)] # 0
                    \/ \A v \in Assignments : Holds(e, v) => Holds(PromptOf(tree, p), v)

\* ... which holds where no tristate is spoken of, as in BuildStaq's Config.in
\* files; for a tristate T the comparison of menu.c:472 takes !T for T=n.
SpeaksOf(m, s) ==
    \/ SymOf(m) = s \/ ContainsSymbol(kconfig[m].dep, s) \/ ContainsSymbol(kconfig[m].vis, s)
    \/ \E i \in DOMAIN kconfig[m].props : ContainsSymbol(kconfig[m].props[i].cond, s)
BoolMenu == \A s \in Tristate : \A m \in DOMAIN kconfig : ~SpeaksOf(m, s)

BoolSubmenuGone == Finalized /\ BoolMenu => SubmenuGone

\* Entries that Config.in says outright to depend on the symbol before them are
\* put below it, whatever else they depend on and however that is simplified,
\* unless one of them can never be there (menu.c:454-494).
RECURSIVE Conjuncts(_)
Conjuncts(e) == IF e.op = "and" THEN Conjuncts(e.left) \cup Conjuncts(e.right) ELSE {e}

RECURSIVE Above(_)
Above(m) == IF m = Root THEN {} ELSE {tree.parent[m]} \cup Above(tree.parent[m])

OutrightGoesBelow ==
    Finalized => \A p, m \in DOMAIN kconfig :
        LET between == {n \in p + 1 .. m : kconfig[n].up = kconfig[p].up}
        IN  /\ m \in between /\ kconfig[p].kind = "config" /\ HasPrompt(p)
            /\ \A n \in between : Sym(SymOf(p)) \in Conjuncts(kconfig[n].dep)
            => p \in Above(m) \/ \E n \in between : NeverThere(n)

\* No relinking loses an entry, shows one twice or changes their order; each
\* knows where it is, and only what can be shown has anything below it
\* (menu.c:490-577).
RECURSIVE Below(_)
Below(p) == FoldLeft(LAMBDA a, m : a \o <<m>> \o Below(m), <<>>, Chain(tree, tree.list[p]))

TreeKept ==
    Finalized =>
        /\ Below(Root) = [m \in DOMAIN kconfig |-> m]
        /\ \A p \in DOMAIN tree.list : \A m \in ToSet(Chain(tree, tree.list[p])) :
              tree.parent[m] = p /\ (p # Root => HasPrompt(p))

\* What the value of the symbol s depends on, as sym_calc_value reads it
SymbolsIn(e) == {s \in Bool \cup Tristate : ContainsSymbol(e, s)}
DependsOn(s) ==
    LET of(m, i) == LET prop == PropsOf(kconfig, m)[i]
                    IN  CASE prop.kind = "prompt" -> SymbolsIn(tree.cond[m][i])
                          [] prop.kind = "default" -> SymbolsIn(tree.cond[m][i]) \cup IF IsChoice(m) THEN {} ELSE SymbolsIn(prop.arg)
                          [] OTHER -> {}
    IN  SymbolsIn(tree.rev[s]) \cup SymbolsIn(tree.implied[s]) \cup SymbolsIn(tree.dir[s])
        \cup UNION {UNION {of(m, i) : i \in DOMAIN tree.cond[m]} : m \in {n \in DOMAIN kconfig : SymOf(n) = s}}

\* A choice and its values stand and fall together; that a value depends on the
\* choice is not counted.
Recursive ==
    LET needs == [s \in Bool \cup Tristate |-> DependsOn(s)]
        direct == {st \in (Bool \cup Tristate) \X (Bool \cup Tristate) :
                      st[2] \in needs[st[1]] /\ (st[1] # ChoiceOf(st[1]) => st[2] # ChoiceOf(st[1]))}
        edges == {<<ChoiceOf(st[1]), ChoiceOf(st[2])>> : st \in direct}
    IN  \E S \in SUBSET {e[1] : e \in edges} \ {{}} : \A c \in S : \E d \in S : <<c, d>> \in edges

\* What was told: that each depends on the next, and the last on the first
TellsTruth(chain) ==
    /\ chain # <<>>
    /\ \A i \in DOMAIN chain :
          LET s == chain[i]
              t == chain[IF i = Len(chain) THEN 1 ELSE i + 1]
          IN  t \in DependsOn(s) \/ ChoiceOf(s) = t \/ ChoiceOf(t) = s

\* Whatever symbol is looked into first, a recursion is told exactly when the
\* value of a symbol depends on itself, and what is told is one
\* (symbol.c:1206-1342); what is implied is not looked into (symbol.c:1249).
RecursionTold ==
    pc = "final" /\ left = {} /\ OfKind("imply") = {} =>
        /\ (check.told # {}) <=> Recursive
        /\ \A chain \in check.told : TellsTruth(chain)
=============================================================================
