---------------------------- MODULE KconfigExpr ----------------------------
(***************************************************************************)
(* The dependency expressions of support/kconfig/expr.c: trees over        *)
(* symbols, comparisons, !, && and ||, the rewriting that menu.c and       *)
(* symbol.c apply to them and the value they have.  The C code rewrites    *)
(* the trees in place; an operator here takes a tree and returns the tree  *)
(* that is left, and expr_eliminate_dups1, which walks one tree with two   *)
(* pointers into it, takes the two pointers as paths.                      *)
(***************************************************************************)
EXTENDS Integers, Sequences, FiniteSets

CONSTANTS Bool,      \* the symbols of type bool
          Tristate,  \* the symbols of type tristate
          Modules    \* modules_sym

Literal == {"n", "m", "y"}
IsTristate(s) == s \in Tristate

NoExpr == [op |-> "none"]
Sym(s) == [op |-> "sym", sym |-> s]
Comp(op, s, t) == [op |-> op, sym |-> s, val |-> t]
Not(e) == [op |-> "not", arg |-> e]
Two(op, l, r) == [op |-> op, left |-> l, right |-> r]
AllocAnd(l, r) == IF l = NoExpr THEN r ELSE IF r = NoExpr THEN l ELSE Two("and", l, r)
AllocOr(l, r) == IF l = NoExpr THEN r ELSE IF r = NoExpr THEN l ELSE Two("or", l, r)

Comparisons == {"eq", "ne", "lt", "le", "gt", "ge"}
IsComp(e) == e.op \in Comparisons
IsTwo(e) == e.op \in {"and", "or"}

-----------------------------------------------------------------------------
(* The value of an expression under the values v of the symbols: n, m and  *)
(* y are 0, 1 and 2.                                                       *)

SymValue(v, s) == CASE s = "n" -> 0 [] s = "m" -> 1 [] s = "y" -> 2 [] OTHER -> v[s]

\* The constants have no type of their own, and what is compared with one is
\* compared as a string: m comes before n.
Rank(v, s, t) ==
    IF {s, t} \cap Literal = {} THEN v[s]
    ELSE CASE SymValue(v, s) = 1 -> 0 [] SymValue(v, s) = 0 -> 1 [] OTHER -> 2

Related(op, a, b) ==
    CASE op = "eq" -> a = b  [] op = "ne" -> a /= b
      [] op = "lt" -> a < b  [] op = "le" -> a <= b
      [] op = "gt" -> a > b  [] op = "ge" -> a >= b

RECURSIVE CalcValue(_, _)
CalcValue(e, v) ==
    CASE e.op = "none" -> 2
      [] e.op = "sym" -> SymValue(v, e.sym)
      [] e.op = "not" -> 2 - CalcValue(e.arg, v)
      [] IsTwo(e) -> LET a == CalcValue(e.left, v)
                         b == CalcValue(e.right, v)
                     IN  IF (a < b) <=> (e.op = "and") THEN a ELSE b
      [] IsComp(e) -> IF Related(e.op, Rank(v, e.sym, e.val), Rank(v, e.val, e.sym)) THEN 2 ELSE 0

\* What the symbols can be: a bool is never m, and no tristate is m without
\* modules.
Assignments ==
    {v \in [Bool \cup Tristate -> 0..2] :
        /\ \A s \in Bool : v[s] /= 1
        /\ SymValue(v, Modules) = 0 => \A s \in Tristate : v[s] /= 1}

-----------------------------------------------------------------------------
(* Simplification.                                                         *)

Unit(op) == Sym(IF op = "and" THEN "y" ELSE "n")
Zero(op) == Sym(IF op = "and" THEN "n" ELSE "y")

RECURSIVE EliminateYn(_)
EliminateYn(e) ==
    IF ~IsTwo(e) THEN e
    ELSE LET l == EliminateYn(e.left)
             r == EliminateYn(e.right)
         IN  IF Zero(e.op) \in {l, r} THEN Zero(e.op)
             ELSE IF l = Unit(e.op) THEN r
             ELSE IF r = Unit(e.op) THEN l
             ELSE Two(e.op, l, r)

\* expr_eq and the two functions it is mutually recursive with.
RECURSIVE Equal(_, _), ElimEq1(_, _)
ElimEq1(op, p) ==
    IF p[1].op = op
    THEN LET a == ElimEq1(op, <<p[1].left, p[2]>>)
             b == ElimEq1(op, <<p[1].right, a[2]>>)
         IN  <<Two(op, a[1], b[1]), b[2]>>
    ELSE IF p[2].op = op
    THEN LET a == ElimEq1(op, <<p[1], p[2].left>>)
             b == ElimEq1(op, <<a[1], p[2].right>>)
         IN  <<b[1], Two(op, a[2], b[2])>>
    ELSE IF p[1] \in {Sym("y"), Sym("n")} \/ ~Equal(p[1], p[2]) THEN p
    ELSE <<Unit(op), Unit(op)>>

ElimOther(p) == IF p[1].op /= p[2].op /\ IsTwo(p[2]) THEN ElimEq1(p[2].op, p) ELSE p
ElimYnBoth(p) == <<EliminateYn(p[1]), EliminateYn(p[2])>>

EliminateEq(e1, e2) ==
    IF NoExpr \in {e1, e2} THEN <<e1, e2>>
    ELSE ElimYnBoth(ElimOther(IF IsTwo(e1) THEN ElimEq1(e1.op, <<e1, e2>>) ELSE <<e1, e2>>))

SameSymbol(p) == p[1].op = "sym" /\ p[1] = p[2]
Equal(e1, e2) ==
    /\ e1.op = e2.op
    /\ CASE e1.op = "not" -> Equal(e1.arg, e2.arg)
         [] IsTwo(e1) -> SameSymbol(EliminateEq(e1, e2))
         [] OTHER -> e1 = e2

\* The symbol that a leaf speaks of and that both leaves must share for
\* expr_join_or and expr_join_and to go on; "" when there is none.
LeafSym(e) == IF e.op \in {"eq", "ne", "sym"} THEN e.sym ELSE ""
JoinSym(e1, e2) ==
    LET s1 == IF e1.op = "not" THEN LeafSym(e1.arg) ELSE LeafSym(e1)
        s2 == IF e2.op /= "not" THEN LeafSym(e2)
              ELSE IF e2.arg.op = "sym" THEN e2.arg.sym ELSE ""
    IN  IF s1 = s2 /\ s1 \in Bool \cup Tristate THEN s1 ELSE ""

\* e1 || e2 and e1 && e2 for two leaves that speak of the symbol s.
OrOn(s, e1, e2) ==
    LET Both(a, b) == {e1, e2} = {Comp("eq", s, a), Comp("eq", s, b)}
    IN  CASE IsTristate(s) /\ Both("y", "m") -> Comp("ne", s, "n")
          [] IsTristate(s) /\ Both("y", "n") -> Comp("ne", s, "m")
          [] IsTristate(s) /\ Both("m", "n") -> Comp("ne", s, "y")
          [] s \in Bool /\ {e1, e2} = {Sym(s), Not(Sym(s))} -> Sym("y")
          [] OTHER -> NoExpr

\* (mutant) the two constants are not compared
EqAndNeUnchecked(s, eq, ne) == IF {eq.val, ne.val} \subseteq Literal THEN Comp("eq", s, eq.val) ELSE NoExpr

\* (a='b') && (a!='c'), whichever comes first
EqAndNe(s, eq, ne) ==
    CASE ~({eq.val, ne.val} \subseteq Literal) -> NoExpr
      [] eq.val /= ne.val -> Comp("eq", s, eq.val)
      [] OTHER -> Sym("n")

AndOn(s, e1, e2) ==
    LET With(op, a) == {e1, e2} = {Sym(s), Comp(op, s, a)}
        Neither(a, b) == {e1, e2} = {Comp("ne", s, a), Comp("ne", s, b)}
    IN  CASE s = "" -> NoExpr
          [] With("eq", "y") -> Comp("eq", s, "y")
          [] With("ne", "n") -> Sym(s)
          [] With("ne", "m") -> Comp("eq", s, "y")
          [] ~IsTristate(s) -> NoExpr
          [] e1.op = "eq" /\ e2.op = "ne" -> EqAndNe(s, e1, e2)
          [] e1.op = "ne" /\ e2.op = "eq" -> EqAndNe(s, e2, e1)
          [] Neither("y", "n") -> Comp("eq", s, "m")
          [] Neither("y", "m") -> Comp("eq", s, "n")
          [] Neither("m", "n") -> Comp("eq", s, "y")
          [] OTHER -> NoExpr

\* expr_join_or and expr_join_and
Join(op, e1, e2) ==
    IF Equal(e1, e2) THEN e1
    ELSE IF op = "or" THEN OrOn(JoinSym(e1, e2), e1, e2)
    ELSE AndOn(JoinSym(e1, e2), e1, e2)

\* The subtree of e at a path, and e with that subtree replaced.
RECURSIVE At(_, _), Put(_, _, _)
At(e, p) == IF p = <<>> THEN e ELSE At(e[Head(p)], Tail(p))
Put(e, p, new) ==
    IF p = <<>> THEN new ELSE [e EXCEPT ![Head(p)] = Put(e[Head(p)], Tail(p), new)]

\* What the tree becomes when the operands at p and q are joined into j.
Joined(op, p, q, st, j) ==
    IF j = NoExpr THEN st
    ELSE [tree |-> Put(Put(st.tree, p, Unit(op)), q, j), count |-> st.count + 1]

Compared(op, p, q, st) == Joined(op, p, q, st, Join(op, At(st.tree, p), At(st.tree, q)))

\* One walk of two pointers over the operands of one level: st is the tree and
\* trans_count.
RECURSIVE Dups1(_, _, _, _)
Dups1(op, p, q, st) ==
    LET op1 == At(st.tree, p).op
        L == <<"left">>
        R == <<"right">>
    IN  IF op1 = op THEN Dups1(op, p \o R, q, Dups1(op, p \o L, q, st))
        ELSE IF At(st.tree, q).op = op THEN Dups1(op, p, q \o R, Dups1(op, p, q \o L, st))
        ELSE IF p = q THEN st
        ELSE Compared(op, p, q, IF op1 \in {"and", "or"} THEN Dups1(op1, p, p, st) ELSE st)

RECURSIVE EliminateDups(_)

Again(st) == IF st.count = 0 THEN st.tree ELSE EliminateDups(EliminateYn(st.tree))

EliminateDups(e) ==
    Again(IF IsTwo(e) THEN Dups1(e.op, <<>>, <<>>, [tree |-> e, count |-> 0])
          ELSE [tree |-> e, count |-> 0])

-----------------------------------------------------------------------------
(* The rewriting of menu_finalize.                                         *)

RECURSIVE RewriteM(_)
RewriteM(e) ==
    CASE e.op = "not" -> Not(RewriteM(e.arg))
      [] IsTwo(e) -> Two(e.op, RewriteM(e.left), RewriteM(e.right))
      [] e = Sym("m") -> AllocAnd(e, Sym(Modules))
      [] OTHER -> e

\* A comparison of a bool with a constant.
TransformComp(e) ==
    CASE ~(e.op \in {"eq", "ne"} /\ e.sym \in Bool /\ e.val \in Literal) -> e
      [] e.val = "m" -> Sym(IF e.op = "eq" THEN "n" ELSE "y")
      [] (e.val = "y") <=> (e.op = "eq") -> Sym(e.sym)
      [] OTHER -> Not(Sym(e.sym))

Opposite == [eq |-> "ne", ne |-> "eq", le |-> "gt", gt |-> "le", ge |-> "lt", lt |-> "ge"]
NotLiteral == [y |-> "n", m |-> "m", n |-> "y"]

RECURSIVE Transform(_)
Transform(e) ==
    LET a == Transform(e.arg)
    IN  CASE IsComp(e) -> TransformComp(e)
          [] IsTwo(e) -> Two(e.op, Transform(e.left), Transform(e.right))
          [] e.op /= "not" -> e
          [] a.op = "not" -> Transform(a.arg)
          [] IsComp(a) -> Comp(Opposite[a.op], a.sym, a.val)
          [] IsTwo(a) -> Transform(Two(IF a.op = "or" THEN "and" ELSE "or", Not(a.left), Not(a.right)))
          [] a.op = "sym" /\ a.sym \in Literal -> Sym(NotLiteral[a.sym])
          [] OTHER -> Not(a)

RECURSIVE TransBool(_)
TransBool(e) ==
    CASE e.op = "not" -> Not(TransBool(e.arg))
      [] IsTwo(e) -> Two(e.op, TransBool(e.left), TransBool(e.right))
      [] e.op = "ne" /\ IsTristate(e.sym) /\ e.val = "n" -> Sym(e.sym)
      [] OTHER -> e

\* expr_trans_compare for the constants its callers pass, y and n.
RECURSIVE TransCompare(_, _, _)
TransCompare(e, op, s) ==
    LET Neg(x, b) == IF b THEN Not(x) ELSE x
    IN  CASE e.op = "none" -> Neg(Sym(s), op = "ne")
          [] IsTwo(e) ->
                LET to == IF s = "y" THEN e.op ELSE IF e.op = "and" THEN "or" ELSE "and"
                IN  Neg(Two(to, TransCompare(e.left, "eq", s), TransCompare(e.right, "eq", s)), op = "ne")
          [] e.op = "not" -> TransCompare(e.arg, IF op = "eq" THEN "ne" ELSE "eq", s)
          [] IsComp(e) -> Neg(e, (op = "eq") /= (s = "y"))
          [] e.op = "sym" -> Comp(op, e.sym, s)

RECURSIVE ContainsSymbol(_, _)
ContainsSymbol(e, s) ==
    CASE e.op = "none" -> FALSE
      [] IsTwo(e) -> ContainsSymbol(e.left, s) \/ ContainsSymbol(e.right, s)
      [] e.op = "not" -> ContainsSymbol(e.arg, s)
      [] e.op = "sym" -> e.sym = s
      [] IsComp(e) -> s \in {e.sym, e.val}

\* (mutant) the case of || falls through to that of &&
RECURSIVE DependsSymbolEither(_, _)
DependsSymbolEither(e, s) ==
    \/ IsTwo(e) /\ (DependsSymbolEither(e.left, s) \/ DependsSymbolEither(e.right, s))
    \/ e \in {Sym(s), Comp("eq", s, "y"), Comp("eq", s, "m"), Comp("ne", s, "n")}

RECURSIVE DependsSymbol(_, _)
DependsSymbol(e, s) ==
    \/ e.op = "and" /\ (DependsSymbol(e.left, s) \/ DependsSymbol(e.right, s))
    \/ e \in {Sym(s), Comp("eq", s, "y"), Comp("eq", s, "m"), Comp("ne", s, "n")}
=============================================================================
