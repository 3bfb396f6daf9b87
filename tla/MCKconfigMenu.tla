--------------------------- MODULE MCKconfigMenu ---------------------------
(* Menus of two entries, with every dependency of two or three operands;   *)
(* and trees of four entries, with ifs, menus and choices, and few.        *)
EXTENDS KconfigMenu

Prompt(e) == [kind |-> "prompt", cond |-> e, arg |-> NoExpr]
Select(s, e) == [kind |-> "select", cond |-> e, arg |-> Sym(s)]
Imply(s, e) == [kind |-> "imply", cond |-> e, arg |-> Sym(s)]
Default(e) == [kind |-> "default", cond |-> NoExpr, arg |-> e]
Entry(up, kind, s, dep, vis, props) == [up |-> up, kind |-> kind, sym |-> s, dep |-> dep, vis |-> vis, props |-> props]
Menu(dep) == Entry(0, "menu", "", dep, NoExpr, <<Prompt(NoExpr)>>)
Config(s, dep, prop) == Entry(1, "config", s, dep, NoExpr, <<prop>>)

Atoms == {Sym("A"), Sym("B"), Sym("T"), Sym("m"), Comp("eq", "T", "m"), Comp("ne", "T", "n"),
          Comp("ne", "A", "y"), Comp("eq", "T", "y"), Comp("ne", "T", "m"), Comp("ge", "T", "m")}
Pairs == {Two(op, a, b) : op \in {"and", "or"}, a, b \in Atoms \cup {Not(Sym("B")), Not(Sym("T"))}}
Deps == Atoms \cup {Not(e) : e \in Atoms} \cup Pairs
BorT == Not(Two("and", Sym("B"), Comp("ne", "T", "n")))
Parents == {NoExpr, Comp("ne", "T", "n"), BorT}

TriMenus == {<<Menu(parent), Config("A", d, prop[1]), Config("T", e, prop[2])>> :
                parent \in Parents, d \in {NoExpr, Comp("eq", "T", "n")}, e \in Deps,
                prop \in {<<Prompt(NoExpr), Prompt(BorT)>>, <<Select("B", NoExpr), Select("B", Two("or", Sym("A"), Sym("T")))>>}}

BoolAtoms == {Sym("A"), Sym("B"), Sym("MODULES"), Comp("eq", "B", "n"), Not(Sym("A")), Not(Sym("B"))}
BoolPairs == {Two(op, a, b) : op \in {"and", "or"}, a, b \in BoolAtoms}
BoolTriples == {Two(op, p, a) : op \in {"and", "or"}, p \in BoolPairs, a \in {Sym("A"), Not(Sym("MODULES"))}}
BoolDeps == BoolAtoms \cup BoolPairs \cup BoolTriples \cup {Not(p) : p \in BoolPairs}

\* The first entry has the symbol A, so neither it nor the menu depends on A.
WithoutA == {NoExpr, Two("or", Sym("MODULES"), Sym("B")), Two("and", Sym("B"), Not(Sym("MODULES")))}

BoolMenus == {<<Menu(parent), Config("A", d, first), Config("D", e, Prompt(NoExpr))>> :
                 parent \in {NoExpr, Sym("B")}, d \in WithoutA, e \in BoolDeps,
                 first \in {Prompt(NoExpr), Select("MODULES", NoExpr)}}

\* Trees of four entries: of which the first is a menu, an if or a choice, and
\* the third is a menu, an if or an entry.
Some(kind, s, vis, prop) == [kind |-> kind, sym |-> s, vis |-> vis, props |-> prop]
First == {Some("menu", "", Sym("B"), <<Prompt(NoExpr)>>), Some("if", "", NoExpr, <<>>),
          Some("choice", "D", NoExpr, <<Prompt(NoExpr)>>), Some("choice", "T", NoExpr, <<Prompt(NoExpr)>>),
          Some("optional", "D", NoExpr, <<Prompt(Sym("A"))>>)}
Second == {Some("config", "A", NoExpr, props) : props \in {<<>>, <<Prompt(NoExpr)>>, <<Prompt(NoExpr), Select("B", NoExpr)>>}}
Third == {Some("menu", "", NoExpr, <<Prompt(NoExpr)>>), Some("if", "", NoExpr, <<>>),
          Some("config", "MODULES", NoExpr, <<Prompt(NoExpr)>>), Some("config", "MODULES", NoExpr, <<Default(Not(Sym("B")))>>)}
Fourth == {Some("config", "B", NoExpr, <<p>>) : p \in {Prompt(NoExpr), Select("A", Sym("D")), Imply("A", NoExpr)}}
Ups == {<<0, 1, 1, 3>>, <<0, 1, 1, 1>>, <<0, 1, 0, 3>>, <<0, 1, 1, 0>>, <<0, 0, 0, 3>>, <<0, 0, 0, 0>>}

Container == {"menu", "if", "choice", "optional"}
\* A choice only holds entries and ifs.
Grammar(t) ==
    \A m \in 1 .. 4 : LET p == t[m].up
                      IN  p # 0 => t[p].kind \in Container /\ (t[m].kind = "menu" => t[p].kind \in {"menu", "if"})

Placed(e, up, dep) == Entry(up, e.kind, e.sym, dep, e.vis, e.props)
Trees == {t \in {<<Placed(first, up[1], NoExpr), Placed(second, up[2], d2), Placed(third, up[3], d3), Placed(fourth, up[4], d4)>> :
                    up \in Ups, first \in First, second \in Second, third \in Third, fourth \in Fourth,
                    d2 \in {NoExpr, Sym("B")}, d3 \in {NoExpr, Sym("A")},
                    d4 \in {NoExpr, Sym("A"), Two("or", Sym("A"), Not(Sym("D")))}} : Grammar(t)}

MCKconfigs == <<TriMenus, BoolMenus, Trees>>
=============================================================================
