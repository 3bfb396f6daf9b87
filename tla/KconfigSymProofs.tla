--------------------------- MODULE KconfigSymProofs ---------------------------
(***************************************************************************)
(* Proofs about the values of the symbols, for all Config.in files whose   *)
(* conditions are not circular, and about what shows in a tree of menus.   *)
(***************************************************************************)
EXTENDS KconfigTree, NaturalsInduction, WellFoundedInduction, TLAPS

All == Symbols \cup ChoiceSyms

LEMMA LeastOf ==
  ASSUME NEW S \in SUBSET Nat, S # {}
  PROVE  \E n \in S : \A m \in S : n <= m
<1>1. \E n \in S : \A m \in S : <<m, n>> \notin OpToRel(<, Nat)
  BY WFMin, NatLessThanWellFounded, Zenon
<1>2. PICK n \in S : \A m \in S : <<m, n>> \notin OpToRel(<, Nat)
  BY <1>1
<1>3. \A m \in S : ~(m < n)
  BY <1>2, Zenon DEF OpToRel
<1> QED
  BY <1>3

-----------------------------------------------------------------------------
(* Recursion.  A theorem by induction would take an operator as parameter: *)
(* what follows is about functions, and tells that there is one that       *)
(* satisfies the equations of a recursive definition.                      *)

\* f finds what H makes at a node of what is found at those that dep gives.
Finds(N, V, H, D, f) == f \in [N -> V] /\ \A x \in D : f[x] = H[x][f]

Founded(N, dep) == \A S \in SUBSET N : S # {} => \E e \in S : dep[e] \cap S = {}
Local(N, dep, V, H) ==
    \A x \in N : \A f, g \in [N -> V] : (\A y \in dep[x] : f[y] = g[y]) => H[x][f] = H[x][g]
ClosedUnder(N, dep, D) == D \in SUBSET N /\ \A x \in D : dep[x] \subseteq D

LEMMA OneFound ==
  ASSUME NEW N, NEW dep \in [N -> SUBSET N],
         Founded(N, dep),
         NEW V, NEW H,
         Local(N, dep, V, H),
         NEW D, ClosedUnder(N, dep, D), NEW E, ClosedUnder(N, dep, E),
         NEW f, NEW g, Finds(N, V, H, D, f), Finds(N, V, H, E, g)
  PROVE  \A x \in D \cap E : f[x] = g[x]
<1> DEFINE S == {x \in D \cap E : f[x] # g[x]}
<1> SUFFICES ASSUME S # {} PROVE FALSE
  OBVIOUS
<1>0. S \in SUBSET N
  BY DEF ClosedUnder
<1>1. PICK x \in S : dep[x] \cap S = {}
  BY <1>0 DEF Founded
<1>2. \A y \in dep[x] : f[y] = g[y]
  BY <1>1 DEF ClosedUnder
<1>3. H[x][f] = H[x][g]
  <2>1. f \in [N -> V] /\ g \in [N -> V] /\ x \in N
    BY <1>0 DEF Finds
  <2> HIDE DEF S
  <2> QED
    BY <1>2, <2>1 DEF Local
<1> QED
  BY <1>3 DEF Finds

\* What a recursion that goes along dep needs, and what it gives.
Recursion(N, dep, V, H) ==
    /\ dep \in [N -> SUBSET N] /\ Founded(N, dep)
    /\ H \in [N -> [[N -> V] -> V]] /\ Local(N, dep, V, H)
Ends(N, V, H) == \E f \in [N -> V] : \A x \in N : f[x] = H[x][f]

LEMMA TreeRecursion ==
  ASSUME NEW N, NEW dep, NEW V, NEW v \in V, NEW H, Recursion(N, dep, V, H)
  PROVE  Ends(N, V, H)
<1>0. /\ dep \in [N -> SUBSET N] /\ Founded(N, dep)
      /\ H \in [N -> [[N -> V] -> V]] /\ Local(N, dep, V, H)
  BY DEF Recursion
<1> DEFINE Part(x, D, f) == x \in D /\ ClosedUnder(N, dep, D) /\ Finds(N, V, H, D, f)
           W == {x \in N : \E D, f : Part(x, D, f)}
           of == [x \in W |-> CHOOSE f : \E D : Part(x, D, f)]
           F == [x \in N |-> IF x \in W THEN of[x][x] ELSE v]
<1>1. \A x \in W : \E D : Part(x, D, of[x])
  <2> TAKE x \in W
  <2>1. \E f : \E D : Part(x, D, f)
    OBVIOUS
  <2> HIDE DEF Part, W
  <2> QED
    BY <2>1
<1> HIDE DEF of
<1>2. ASSUME NEW x, NEW D, NEW f, Part(x, D, f) PROVE D \subseteq W /\ \A y \in D : f[y] = F[y]
  <2>1. \A y \in D : Part(y, D, f)
    BY <1>2
  <2>2. D \subseteq W
    BY <2>1, <1>2 DEF ClosedUnder
  <2>3. ASSUME NEW y \in D PROVE f[y] = F[y]
    <3>1. PICK E : Part(y, E, of[y])
      BY <1>1, <2>2
    <3> DEFINE g == of[y]
    <3>2. ClosedUnder(N, dep, D) /\ Finds(N, V, H, D, f) /\ ClosedUnder(N, dep, E) /\ Finds(N, V, H, E, g) /\ y \in D \cap E
      BY <1>2, <3>1
    <3> HIDE DEF g
    <3>3. f[y] = g[y]
      BY <1>0, <3>2, OneFound
    <3> QED
      BY <2>2, <3>3 DEF g
  <2> QED
    BY <2>2, <2>3
<1>3. F \in [N -> V]
  <2>1. ASSUME NEW x \in W PROVE of[x][x] \in V
    <3>1. PICK D : Part(x, D, of[x])
      BY <1>1
    <3> QED
      BY <3>1 DEF Finds
  <2> QED
    BY <2>1
<1> HIDE DEF F
<1>4. \A x \in W : dep[x] \subseteq W /\ F[x] = H[x][F]
  <2> TAKE x \in W
  <2>1. PICK D, f : Part(x, D, f)
    OBVIOUS
  <2>2. D \subseteq W /\ \A y \in D : f[y] = F[y]
    <3> HIDE DEF Part
    <3> QED
      BY <1>2, <2>1
  <2>3. dep[x] \subseteq W /\ \A y \in dep[x] : f[y] = F[y]
    BY <2>1, <2>2 DEF ClosedUnder
  <2>4. f \in [N -> V] /\ f[x] = H[x][f] /\ x \in N
    BY <2>1 DEF Finds, ClosedUnder
  <2>5. H[x][f] = H[x][F]
    <3> HIDE DEF W
    <3> QED
      BY <1>0, <1>3, <2>3, <2>4 DEF Local
  <2> QED
    BY <2>1, <2>2, <2>3, <2>4, <2>5
<1>5. W = N
  <2> SUFFICES ASSUME N \ W # {} PROVE FALSE
    OBVIOUS
  <2>1. PICK x \in N \ W : dep[x] \cap (N \ W) = {}
    <3> HIDE DEF W
    <3> QED
      BY <1>0 DEF Founded
  <2> DEFINE G == [y \in N |-> IF y = x THEN H[x][F] ELSE F[y]]
             D == W \cup {x}
  <2>2. dep[x] \subseteq W
    <3>1. dep[x] \in SUBSET N
      BY <1>0
    <3> HIDE DEF W
    <3> QED
      BY <2>1, <3>1
  <2>3. H[x][F] \in V
    BY <1>0, <1>3
  <2>4. G \in [N -> V]
    BY <1>3, <2>3
  <2>5. ASSUME NEW y \in D PROVE dep[y] \subseteq W /\ G[y] = H[y][G]
    <3>1. dep[y] \subseteq W
      BY <1>4, <2>2, <2>5
    <3>2. \A z \in dep[y] : F[z] = G[z]
      BY <2>1, <3>1
    <3>3. H[y][F] = H[y][G]
      <4>1. y \in N
        BY <2>1, <2>5
      <4> HIDE DEF W, G, D
      <4> QED
        BY <1>0, <1>3, <2>4, <3>2, <4>1 DEF Local
    <3>4. G[y] = H[y][F]
      BY <1>4, <2>1, <2>5
    <3> QED
      BY <3>1, <3>3, <3>4
  <2> HIDE DEF G
  <2>6. Finds(N, V, H, D, G)
    BY <2>4, <2>5 DEF Finds
  <2>7. x \in D /\ ClosedUnder(N, dep, D)
    BY <2>1, <2>5 DEF ClosedUnder
  <2>8. \E E, f : Part(x, E, f)
    BY <2>6, <2>7
  <2>9. x \in W
    BY <2>8
  <2> QED
    BY <2>1, <2>9
<1> QED
  BY <1>3, <1>4, <1>5 DEF Ends

\* A loop: its i-th round makes R[i][v] of v.
Rounds(n, V, R) == R \in [1 .. n -> [V -> V]]
LoopFrom(n, V, v, R) == \E f \in [0 .. n -> V] : f[0] = v /\ \A i \in 1 .. n : f[i] = R[i][f[i - 1]]

LEMMA LoopEnds ==
  ASSUME NEW n \in Nat, NEW V, NEW v \in V, NEW R, Rounds(n, V, R)
  PROVE  LoopFrom(n, V, v, R)
<1> DEFINE IsLoop(f, j) == f \in [0 .. j -> V] /\ f[0] = v /\ \A i \in 1 .. j : f[i] = R[i][f[i - 1]]
           S == {j \in 0 .. n : ~ \E f : IsLoop(f, j)}
<1>0. R \in [1 .. n -> [V -> V]]
  BY DEF Rounds
<1>1. S = {}
  <2> SUFFICES ASSUME S # {} PROVE FALSE
    OBVIOUS
  <2>1. PICK j \in S : \A m \in S : j <= m
    <3>1. S \in SUBSET Nat
      OBVIOUS
    <3> HIDE DEF S
    <3> QED
      BY <3>1, LeastOf
  <2>2. CASE j = 0
    <3>1. IsLoop([i \in 0 .. 0 |-> v], 0)
      OBVIOUS
    <3> QED
      BY <2>2, <3>1
  <2>3. CASE j # 0
    <3>1. j - 1 \in 0 .. n /\ j - 1 \notin S /\ j \in 1 .. n
      <4>1. j \in 0 .. n /\ \A m \in S : j <= m
        BY <2>1
      <4> HIDE DEF S
      <4> QED
        BY <4>1, <2>3
    <3>2. PICK f : IsLoop(f, j - 1)
      BY <3>1
    <3> DEFINE g == [i \in 0 .. j |-> IF i = j THEN R[j][f[j - 1]] ELSE f[i]]
    <3>3. R[j][f[j - 1]] \in V
      <4>1. f[j - 1] \in V
        BY <3>1, <3>2
      <4>2. R[j] \in [V -> V]
        BY <1>0, <3>1
      <4> QED
        BY <4>1, <4>2
    <3>4. g \in [0 .. j -> V] /\ g[0] = v
      BY <3>1, <3>2, <3>3
    <3>5. ASSUME NEW i \in 1 .. j PROVE g[i] = R[i][g[i - 1]]
      <4>1. g[i - 1] = f[i - 1]
        BY <3>1
      <4>2. CASE i = j
        BY <4>1, <4>2
      <4>3. CASE i # j
        <5>1. i \in 1 .. j - 1 /\ g[i] = f[i]
          BY <3>1, <4>3
        <5> QED
          BY <3>2, <4>1, <5>1
      <4> QED
        BY <4>2, <4>3
    <3> HIDE DEF g
    <3>6. IsLoop(g, j)
      BY <3>4, <3>5
    <3> QED
      BY <2>1, <3>6
  <2> QED
    BY <2>2, <2>3
<1>2. n \notin S
  BY <1>1
<1> QED
  BY <1>2 DEF LoopFrom

\* ... and never leaves V.
LEMMA LoopStays ==
  ASSUME NEW n \in Nat, NEW V, NEW R, Rounds(n, V, R), NEW h, h[0] \in V,
         \A i \in 1 .. n : h[i - 1] \in V => h[i] = R[i][h[i - 1]]
  PROVE  \A i \in 0 .. n : h[i] \in V
<1> DEFINE S == {i \in 0 .. n : h[i] \notin V}
<1> SUFFICES ASSUME S # {} PROVE FALSE
  OBVIOUS
<1>1. PICK i \in S : \A j \in S : i <= j
  <2>1. S \in SUBSET Nat
    OBVIOUS
  <2> HIDE DEF S
  <2> QED
    BY <2>1, LeastOf
<1>2. i \in 0 .. n /\ i # 0
  BY <1>1
<1>3. i \in 1 .. n /\ i - 1 \in 0 .. n /\ ~(i <= i - 1)
  BY <1>2
<1>4. h[i - 1] \in V
  BY <1>1, <1>3
<1>5. R[i] \in [V -> V]
  BY <1>3 DEF Rounds
<1> QED
  BY <1>1, <1>3, <1>4, <1>5

-----------------------------------------------------------------------------
(* The calculation, one symbol after the other                             *)

IsRun(k, u, j, f) == f = [i \in 0 .. j |-> IF i = 0 THEN NotCalculated ELSE Calc(k, u, f[i - 1], Order[i])]
Run(k, u) == CHOOSE f : IsRun(k, u, Len(Order), f)

LEMMA RunExists ==
  ASSUME NEW k, NEW u, NEW l \in Nat
  PROVE  \E f : IsRun(k, u, l, f)
<1> DEFINE S == {j \in Nat : ~ \E f : IsRun(k, u, j, f)}
<1> SUFFICES ASSUME S # {} PROVE FALSE
  OBVIOUS
<1>1. PICK j \in S : \A m \in S : j <= m
  BY LeastOf
<1>2. CASE j = 0
  <2>1. IsRun(k, u, 0, [i \in 0 .. 0 |-> NotCalculated])
    BY DEF IsRun
  <2> QED
    BY <1>2, <2>1
<1>3. CASE j # 0
  <2>1. j - 1 \in Nat /\ j - 1 \notin S
    BY <1>1, <1>3
  <2>2. PICK f : IsRun(k, u, j - 1, f)
    BY <2>1
  <2> DEFINE g == [i \in 0 .. j |-> IF i = j THEN Calc(k, u, f[j - 1], Order[j]) ELSE f[i]]
  <2>3. \A i \in 0 .. j - 1 : f[i] = IF i = 0 THEN NotCalculated ELSE Calc(k, u, f[i - 1], Order[i])
    BY <2>2 DEF IsRun
  <2>4. ASSUME NEW i \in 0 .. j
        PROVE  g[i] = IF i = 0 THEN NotCalculated ELSE Calc(k, u, g[i - 1], Order[i])
    <3>1. CASE i = j
      BY <1>3, <3>1
    <3>2. CASE i # j
      <4>1. i \in 0 .. j - 1 /\ g[i] = f[i] /\ (i # 0 => g[i - 1] = f[i - 1])
        BY <3>2
      <4> QED
        BY <2>3, <4>1
    <3> QED
      BY <3>1, <3>2
  <2>5. IsRun(k, u, j, g)
    BY <2>4 DEF IsRun
  <2> QED
    BY <2>5
<1> QED
  BY <1>2, <1>3

LEMMA RunIs ==
  ASSUME NEW k, NEW u
  PROVE  /\ Calculate(k, u) = Run(k, u)[Len(Order)] /\ Len(Order) \in Nat
         /\ Run(k, u)[0] = NotCalculated
         /\ \A i \in 1 .. Len(Order) : Run(k, u)[i] = Calc(k, u, Run(k, u)[i - 1], Order[i])
<1>1. Len(Order) \in Nat
  BY OrderAssumption
<1>2. IsRun(k, u, Len(Order), Run(k, u))
  BY <1>1, RunExists DEF Run
<1>3. Calculate(k, u) = Run(k, u)[Len(Order)]
  BY DEF Calculate, Run, IsRun
<1> QED
  BY <1>1, <1>2, <1>3 DEF IsRun

-----------------------------------------------------------------------------
(* What conditions come to depends on what they name                       *)

ChoiceOrSelf(s) == IF IsValue(s) THEN ChoiceOf[s] ELSE s

LEMMA HoldsSame ==
  ASSUME NEW cond, NEW c, NEW d, \A x \in Names(cond) : c[x] = d[x]
  PROVE  Holds(cond, c) <=> Holds(cond, d)
<1>1. \A p \in cond : \A l \in p : c[l[1]] = d[l[1]]
  BY DEF Names
<1> QED
  BY <1>1 DEF Holds

LEMMA Sorts ==
  ASSUME NEW s \in All
  PROVE  /\ s \in ChoiceSyms => s \notin Symbols /\ s \notin Bools /\ s \notin Strings /\ ~IsValue(s)
         /\ s \in Strings => s \notin Bools /\ ~IsValue(s)
         /\ IsValue(s) => s \in Bools /\ ChoiceOf[s] \in ChoiceSyms
         /\ ChoiceOrSelf(s) \in All
BY OrderAssumption DEF All, Symbols, IsValue, ChoiceOrSelf

LEMMA PromptSame ==
  ASSUME NEW k \in Kconfigs, NEW s \in All, NEW c, NEW d, \A x \in Before(ChoiceOrSelf(s)) : c[x] = d[x]
  PROVE  Holds(k.prompt[s], c) <=> Holds(k.prompt[s], d)
<1>1. Names(k.prompt[s]) \subseteq Before(ChoiceOrSelf(s))
  BY KconfigAssumption DEF All, ChoiceOrSelf
<1> QED
  BY <1>1, HoldsSame

LEMMA DefaultSame ==
  ASSUME NEW k \in Kconfigs, NEW s \in All, NEW c, NEW d, \A x \in Before(s) : c[x] = d[x]
  PROVE  /\ Default(k, s, c) = Default(k, s, d) /\ DefaultText(k, s, c) = DefaultText(k, s, d)
         /\ s \in Bools => (DefaultsToYes(k, s, c) <=> DefaultsToYes(k, s, d))
<1>1. ASSUME NEW i \in DOMAIN k.default[s]
      PROVE  Holds(k.default[s][i].if, c) <=> Holds(k.default[s][i].if, d)
  <2>1. Names(k.default[s][i].if) \subseteq Before(s)
    BY KconfigAssumption DEF All
  <2> QED
    BY <2>1, HoldsSame
<1>2. Default(k, s, c) = Default(k, s, d)
  BY <1>1 DEF Default
<1>3. ASSUME s \in Bools, NEW e \in Default(k, s, d) PROVE Holds(e.val, c) <=> Holds(e.val, d)
  <2>1. PICK i \in DOMAIN k.default[s] : e = k.default[s][i]
    BY DEF Default
  <2>2. Names(e.val) \subseteq Before(s)
    BY <1>3, <2>1, KconfigAssumption DEF All
  <2> QED
    BY <2>2, HoldsSame
<1> QED
  BY <1>2, <1>3 DEF DefaultsToYes, DefaultText

LEMMA MembersAre ==
  ASSUME NEW c, NEW t \in Members(c)
  PROVE  IsValue(t) /\ t \in All /\ t \in Bools /\ ChoiceOf[t] = c /\ ChoiceOrSelf(t) = c
BY OrderAssumption DEF Members, IsValue, All, Symbols, ChoiceOrSelf

LEMMA ChoiceSame ==
  ASSUME NEW k \in Kconfigs, NEW s \in ChoiceSyms, NEW c, NEW d, \A x \in Before(s) : c[x] = d[x]
  PROVE  /\ VisibleMembers(k, s, c) = VisibleMembers(k, s, d)
         /\ ChoiceDefault(k, s, c) = ChoiceDefault(k, s, d)
<1>0. s \in All /\ ChoiceOrSelf(s) = s
  BY Sorts DEF All, ChoiceOrSelf
<1>1. Holds(k.prompt[s], c) <=> Holds(k.prompt[s], d)
  BY <1>0, PromptSame
<1>2. \A t \in Members(s) : Holds(k.prompt[t], c) <=> Holds(k.prompt[t], d)
  BY MembersAre, PromptSame
<1>3. VisibleMembers(k, s, c) = VisibleMembers(k, s, d)
  BY <1>1, <1>2 DEF VisibleMembers
<1>4. ASSUME NEW i \in DOMAIN k.default[s]
      PROVE  Holds(k.default[s][i].if, c) <=> Holds(k.default[s][i].if, d)
  <2>1. Names(k.default[s][i].if) \subseteq Before(s)
    BY <1>0, KconfigAssumption DEF All
  <2> QED
    BY <2>1, HoldsSame
<1>5. {i \in DOMAIN k.default[s] : Holds(k.default[s][i].if, c) /\ k.default[s][i].val \in VisibleMembers(k, s, c)}
    = {i \in DOMAIN k.default[s] : Holds(k.default[s][i].if, d) /\ k.default[s][i].val \in VisibleMembers(k, s, d)}
  BY <1>3, <1>4
<1> QED
  BY <1>3, <1>5 DEF ChoiceDefault

LEMMA SelectSame ==
  ASSUME NEW k \in Kconfigs, NEW s \in Bools, ~IsValue(s), NEW c, NEW d, \A x \in Before(s) : c[x] = d[x]
  PROVE  Holds(k.select[s], c) <=> Holds(k.select[s], d)
<1>1. Names(k.select[s]) \subseteq Before(s)
  BY KconfigAssumption DEF Symbols
<1> QED
  BY <1>1, HoldsSame

LEMMA NoDefault ==
  ASSUME NEW k \in Kconfigs, NEW s \in All, IsValue(s), NEW c
  PROVE  Default(k, s, c) = {} /\ ~DefaultsToYes(k, s, c)
<1>1. k.default[s] = <<>>
  BY KconfigAssumption DEF All
<1>2. DOMAIN k.default[s] = {}
  BY <1>1
<1> QED
  BY <1>2 DEF Default, DefaultsToYes

-----------------------------------------------------------------------------
(* The equations that the values are the solution of                       *)

Lit(k, n) == {s \in Symbols : IF IsValue(s) THEN s \in VisibleMembers(k, ChoiceOf[s], n.cur) ELSE Holds(k.prompt[s], n.cur)}
Selected(k, n) == {s \in Bools : ~IsValue(s) /\ Holds(k.select[s], n.cur)}
ToSave(k, n) == {s \in Symbols : \/ s \in Lit(k, n) \/ s \in Selected(k, n)
                                 \/ s \in Strings /\ Default(k, s, n.cur) # {}
                                 \/ s \in Bools /\ DefaultsToYes(k, s, n.cur)}
Value(k, u, n, s) ==
    IF s \in ChoiceSyms THEN IF u.pick[s] \in VisibleMembers(k, s, n.cur) THEN u.pick[s] ELSE ChoiceDefault(k, s, n.cur)
    ELSE IF s \in Strings THEN IF s \in Lit(k, n) /\ s \in u.has THEN u.val[s] ELSE DefaultText(k, s, n.cur)
    ELSE IF \/ IsValue(s) /\ s \in Lit(k, n) /\ n.cur[ChoiceOf[s]] = s
            \/ ~IsValue(s) /\ s \in Selected(k, n)
            \/ ~IsValue(s) /\ s \in Lit(k, n) /\ s \in u.has /\ u.val[s] = "y"
            \/ ~IsValue(s) /\ ~(s \in Lit(k, n) /\ s \in u.has) /\ DefaultsToYes(k, s, n.cur)
         THEN "y" ELSE "n"

\* Those in D are what they are to be, the others what they are at first.
SolvesFor(k, u, n, D) ==
    n = [ cur |-> [s \in All |-> IF s \in D THEN Value(k, u, n, s) ELSE NotCalculated.cur[s]],
          vis |-> {s \in Lit(k, n) : ChoiceOrSelf(s) \in D},
          sel |-> Selected(k, n) \cap D,
          wr  |-> ToSave(k, n) \cap D ]
Solves(k, u, n) ==
    n = [ cur |-> [s \in All |-> Value(k, u, n, s)], vis |-> Lit(k, n), sel |-> Selected(k, n), wr |-> ToSave(k, n) ]

LEMMA LitSame ==
  ASSUME NEW k \in Kconfigs, NEW s \in Symbols, NEW n, NEW m, \A x \in Before(ChoiceOrSelf(s)) : n.cur[x] = m.cur[x]
  PROVE  s \in Lit(k, n) <=> s \in Lit(k, m)
<1>0. s \in All
  BY DEF All
<1>1. CASE IsValue(s)
  BY <1>0, <1>1, Sorts, ChoiceSame DEF Lit, ChoiceOrSelf
<1>2. CASE ~IsValue(s)
  BY <1>0, <1>2, PromptSame DEF Lit
<1> QED
  BY <1>1, <1>2

\* A choice comes before its values, and what its conditions name before it.
LEMMA Earlier ==
  ASSUME NEW s \in All
  PROVE  /\ At(s) \in 1 .. Len(Order) /\ Order[At(s)] = s
         /\ \A i \in 1 .. Len(Order) : Order[i] = s => i = At(s)
         /\ s \notin Before(s) /\ Before(s) \subseteq All
         /\ \A t \in All : t \in Before(s) <=> At(t) < At(s)
<1>1. Order \in Seq(All) /\ Len(Order) \in Nat /\ DOMAIN Order = 1 .. Len(Order)
  BY OrderAssumption DEF All
<1>2. \A t \in All : At(t) \in 1 .. Len(Order) /\ Order[At(t)] = t
  BY <1>1, OrderAssumption DEF All, At
<1>3. \A i, j \in 1 .. Len(Order) : Order[i] = Order[j] => i = j
  BY <1>1, OrderAssumption
<1>4. \A i \in 1 .. Len(Order) : Order[i] \in All
  BY <1>1
<1> QED
  BY <1>1, <1>2, <1>3, <1>4 DEF Before

LEMMA EarlierChoice ==
  ASSUME NEW k \in Kconfigs, NEW s \in All
  PROVE  /\ IsValue(s) => ChoiceOf[s] \in Before(s)
         /\ Before(ChoiceOrSelf(s)) \subseteq Before(s)
<1>1. IsValue(s) => ChoiceOf[s] \in Before(s)
  BY KconfigAssumption DEF All
<1>2. IsValue(s) => ChoiceOf[s] \in All
  BY Sorts DEF All
<1>3. At(s) \in Int /\ (IsValue(s) => At(ChoiceOf[s]) \in Int /\ At(ChoiceOf[s]) < At(s))
  BY <1>1, <1>2, Earlier
<1> QED
  BY <1>1, <1>3 DEF ChoiceOrSelf, Before

\* ... so that what a symbol is depends on those before it.
LEMMA SameFor ==
  ASSUME NEW k \in Kconfigs, NEW u, NEW s \in All, NEW n, NEW m, \A x \in Before(s) : n.cur[x] = m.cur[x]
  PROVE  /\ Value(k, u, n, s) = Value(k, u, m, s)
         /\ s \in Lit(k, n) <=> s \in Lit(k, m)
         /\ s \in Selected(k, n) <=> s \in Selected(k, m)
         /\ s \in ToSave(k, n) <=> s \in ToSave(k, m)
<1>1. \A x \in Before(ChoiceOrSelf(s)) : n.cur[x] = m.cur[x]
  BY EarlierChoice
<1>2. s \in Lit(k, n) <=> s \in Lit(k, m)
  BY <1>1, LitSame DEF Lit
<1>3. s \in Selected(k, n) <=> s \in Selected(k, m)
  BY SelectSame DEF Selected
<1>4. /\ Default(k, s, n.cur) = Default(k, s, m.cur) /\ DefaultText(k, s, n.cur) = DefaultText(k, s, m.cur)
      /\ s \in Bools => (DefaultsToYes(k, s, n.cur) <=> DefaultsToYes(k, s, m.cur))
  BY DefaultSame
<1>5. s \in ToSave(k, n) <=> s \in ToSave(k, m)
  BY <1>2, <1>3, <1>4 DEF ToSave
<1>6. Value(k, u, n, s) = Value(k, u, m, s)
  <2>1. CASE s \in ChoiceSyms
    BY <2>1, ChoiceSame DEF Value
  <2>2. CASE s \in Strings
    BY <1>2, <1>4, <2>2, Sorts DEF Value
  <2>3. CASE s \in Bools /\ IsValue(s)
    <3>1. n.cur[ChoiceOf[s]] = m.cur[ChoiceOf[s]]
      BY <2>3, EarlierChoice
    <3>2. s \notin ChoiceSyms /\ s \notin Strings
      BY <2>3, Sorts
    <3> QED
      BY <1>2, <2>3, <3>1, <3>2 DEF Value
  <2>4. CASE s \in Bools /\ ~IsValue(s)
    <3>1. s \notin ChoiceSyms /\ s \notin Strings
      BY <2>4, OrderAssumption DEF Symbols
    <3> QED
      BY <1>2, <1>3, <1>4, <2>4, <3>1 DEF Value
  <2> QED
    BY <2>1, <2>2, <2>3, <2>4 DEF All, Symbols
<1> QED
  BY <1>2, <1>3, <1>5, <1>6

-----------------------------------------------------------------------------
(* What is calculated is the solution                                      *)

Done(i) == {Order[j] : j \in 1 .. i}

\* One symbol after those before it.
LEMMA StepOf ==
  ASSUME NEW k \in Kconfigs, NEW u, NEW i \in 1 .. Len(Order), NEW n, SolvesFor(k, u, n, Done(i - 1))
  PROVE  SolvesFor(k, u, Calc(k, u, n, Order[i]), Done(i))
<1> DEFINE s == Order[i]
           q == Calc(k, u, n, s)
           D == Done(i - 1)
<1>0. /\ s \in All /\ i = At(s) /\ D = Before(s) /\ s \notin D /\ Done(i) = D \cup {s} /\ D \subseteq All
  <2>1. Order \in Seq(All) /\ Len(Order) \in Nat
    BY OrderAssumption DEF All
  <2>2. s \in All
    BY <2>1
  <2>3. i = At(s)
    BY <2>2, Earlier
  <2>4. Done(i) = D \cup {s}
    BY DEF Done
  <2> QED
    BY <2>2, <2>3, <2>4, Earlier DEF Done, Before
<1>1. /\ n.cur = [t \in All |-> IF t \in D THEN Value(k, u, n, t) ELSE NotCalculated.cur[t]]
      /\ n.vis = {t \in Lit(k, n) : ChoiceOrSelf(t) \in D}
      /\ n.sel = Selected(k, n) \cap D /\ n.wr = ToSave(k, n) \cap D
      /\ n = [cur |-> n.cur, vis |-> n.vis, sel |-> n.sel, wr |-> n.wr]
  BY DEF SolvesFor
<1> DEFINE new == {t \in Lit(k, n) : ChoiceOrSelf(t) = s}
<1>2. q = [ cur |-> [n.cur EXCEPT ![s] = Value(k, u, n, s)],
            vis |-> n.vis \cup new,
            sel |-> n.sel \cup (Selected(k, n) \cap {s}),
            wr  |-> n.wr \cup (ToSave(k, n) \cap {s}) ]
  <2>1. CASE s \in ChoiceSyms
    <3>1. q = [ cur |-> [n.cur EXCEPT ![s] = Value(k, u, n, s)],
                vis |-> n.vis \cup VisibleMembers(k, s, n.cur), sel |-> n.sel, wr |-> n.wr ]
      <4>1. s \notin Strings /\ ~IsValue(s)
        BY <1>0, <2>1, Sorts
      <4>2. q = CalcChoice(k, u, n, s)
        BY <2>1, <4>1 DEF Calc
      <4> HIDE DEF q
      <4> QED
        BY <2>1, <4>2 DEF CalcChoice, Value
    <3>2. new = VisibleMembers(k, s, n.cur)
      <4>1. \A t \in new : IsValue(t)
        BY <2>1, Sorts DEF ChoiceOrSelf, All, Lit
      <4>2. \A t \in VisibleMembers(k, s, n.cur) : t \in Members(s) /\ IsValue(t) /\ t \in Symbols /\ ChoiceOf[t] = s
        BY MembersAre DEF VisibleMembers, Symbols
      <4> QED
        BY <4>1, <4>2 DEF ChoiceOrSelf, Lit
    <3>3. Selected(k, n) \cap {s} = {} /\ ToSave(k, n) \cap {s} = {}
      BY <1>0, <2>1, Sorts DEF Selected, ToSave
    <3> HIDE DEF s, q, new
    <3> QED
      BY <1>1, <3>1, <3>2, <3>3
  <2>2. CASE s \in Strings
    <3>1. /\ s \notin ChoiceSyms /\ ~IsValue(s) /\ s \notin Bools
          /\ s \in Lit(k, n) <=> Holds(k.prompt[s], n.cur)
      BY <1>0, <2>2, Sorts DEF Lit, Symbols
    <3>2. q = [ cur |-> [n.cur EXCEPT ![s] = Value(k, u, n, s)],
                vis |-> IF s \in Lit(k, n) THEN n.vis \cup {s} ELSE n.vis,
                sel |-> n.sel,
                wr  |-> IF s \in Lit(k, n) \/ Default(k, s, n.cur) # {} THEN n.wr \cup {s} ELSE n.wr ]
      BY <2>2, <3>1 DEF Calc, CalcString, Value
    <3>3. new = Lit(k, n) \cap {s}
      BY <1>0, <3>1, Sorts DEF ChoiceOrSelf, Lit, All
    <3>4. Selected(k, n) \cap {s} = {}
      BY <3>1 DEF Selected
    <3>5. s \in ToSave(k, n) <=> s \in Lit(k, n) \/ Default(k, s, n.cur) # {}
      BY <2>2, <3>1 DEF ToSave, Selected, Symbols
    <3> HIDE DEF s, q, new
    <3>6. /\ (IF s \in Lit(k, n) THEN n.vis \cup {s} ELSE n.vis) = n.vis \cup new
          /\ n.sel = n.sel \cup (Selected(k, n) \cap {s})
      BY <3>3, <3>4
    <3>7. (IF s \in Lit(k, n) \/ Default(k, s, n.cur) # {} THEN n.wr \cup {s} ELSE n.wr) = n.wr \cup (ToSave(k, n) \cap {s})
      BY <3>5
    <3> QED
      BY <3>2, <3>6, <3>7
  <2>3. CASE s \in Bools /\ IsValue(s)
    <3>1. s \notin ChoiceSyms /\ s \notin Strings /\ ChoiceOf[s] \in D
      BY <1>0, <2>3, Sorts, EarlierChoice
    <3>2. s \in n.vis <=> s \in Lit(k, n)
      BY <1>1, <2>3, <3>1 DEF ChoiceOrSelf
    <3>3. ~DefaultsToYes(k, s, n.cur) /\ Default(k, s, n.cur) = {}
      BY <1>0, <2>3, NoDefault
    <3>4. q = [ cur |-> [n.cur EXCEPT ![s] = Value(k, u, n, s)], vis |-> n.vis, sel |-> n.sel,
                wr  |-> IF s \in Lit(k, n) THEN n.wr \cup {s} ELSE n.wr ]
      BY <2>3, <3>1, <3>2, <3>3 DEF Calc, CalcValueOfChoice, Value
    <3>5. new = {}
      <4>1. \A t \in Symbols : ChoiceOrSelf(t) # s
        BY <2>3, <3>1, Sorts DEF ChoiceOrSelf, All
      <4> QED
        BY <4>1 DEF Lit
    <3>6. Selected(k, n) \cap {s} = {}
      BY <2>3 DEF Selected
    <3>7. s \in ToSave(k, n) <=> s \in Lit(k, n)
      BY <2>3, <3>1, <3>3 DEF ToSave, Selected, Symbols
    <3> HIDE DEF s, q, new
    <3>8. n.vis = n.vis \cup new /\ n.sel = n.sel \cup (Selected(k, n) \cap {s})
      BY <3>5, <3>6
    <3>9. (IF s \in Lit(k, n) THEN n.wr \cup {s} ELSE n.wr) = n.wr \cup (ToSave(k, n) \cap {s})
      BY <3>7
    <3> QED
      BY <3>4, <3>8, <3>9
  <2>4. CASE s \in Bools /\ ~IsValue(s)
    <3>1. s \notin ChoiceSyms /\ s \notin Strings
      BY <2>4, OrderAssumption DEF Symbols
    <3>2. /\ s \in Lit(k, n) <=> Holds(k.prompt[s], n.cur)
          /\ s \in Selected(k, n) <=> Holds(k.select[s], n.cur)
      BY <2>4 DEF Lit, Selected, Symbols
    <3>3. q = [ cur |-> [n.cur EXCEPT ![s] = Value(k, u, n, s)],
                vis |-> IF s \in Lit(k, n) THEN n.vis \cup {s} ELSE n.vis,
                sel |-> IF s \in Selected(k, n) THEN n.sel \cup {s} ELSE n.sel,
                wr  |-> IF s \in Lit(k, n) \/ s \in Selected(k, n) \/ DefaultsToYes(k, s, n.cur) THEN n.wr \cup {s} ELSE n.wr ]
      BY <2>4, <3>1, <3>2 DEF Calc, CalcBool, Value
    <3>4. new = Lit(k, n) \cap {s}
      BY <1>0, <2>4, <3>1, Sorts DEF ChoiceOrSelf, Lit, All
    <3>5. s \in ToSave(k, n) <=> s \in Lit(k, n) \/ s \in Selected(k, n) \/ DefaultsToYes(k, s, n.cur)
      BY <2>4, <3>1 DEF ToSave, Symbols
    <3> HIDE DEF s, q, new
    <3>6. /\ (IF s \in Lit(k, n) THEN n.vis \cup {s} ELSE n.vis) = n.vis \cup new
          /\ (IF s \in Selected(k, n) THEN n.sel \cup {s} ELSE n.sel) = n.sel \cup (Selected(k, n) \cap {s})
      BY <3>4
    <3>7. (IF s \in Lit(k, n) \/ s \in Selected(k, n) \/ DefaultsToYes(k, s, n.cur) THEN n.wr \cup {s} ELSE n.wr)
          = n.wr \cup (ToSave(k, n) \cap {s})
      BY <3>5
    <3> QED
      BY <3>3, <3>6, <3>7
  <2> QED
    BY <1>0, <2>1, <2>2, <2>3, <2>4 DEF All, Symbols
<1> HIDE DEF q
<1>3. \A t \in All : t # s => q.cur[t] = n.cur[t]
  BY <1>0, <1>1, <1>2
<1>4. ASSUME NEW t \in Done(i)
      PROVE  /\ t \in All /\ Value(k, u, q, t) = Value(k, u, n, t)
             /\ t \in Selected(k, q) <=> t \in Selected(k, n)
             /\ t \in ToSave(k, q) <=> t \in ToSave(k, n)
  <2>1. t \in All /\ s \notin Before(t) /\ Before(t) \subseteq All
    <3>1. t \in All
      BY <1>0
    <3>2. t \in D => At(t) < At(s)
      BY <1>0, <3>1, Earlier
    <3>3. At(t) \in Int /\ At(s) \in Int
      BY <1>0, <3>1, Earlier
    <3> QED
      BY <1>0, <3>1, <3>2, <3>3, Earlier
  <2>2. \A x \in Before(t) : q.cur[x] = n.cur[x]
    BY <1>3, <2>1
  <2> QED
    BY <2>1, <2>2, SameFor
<1>5. ASSUME NEW t \in Symbols, ChoiceOrSelf(t) \in Done(i)
      PROVE  t \in Lit(k, q) <=> t \in Lit(k, n)
  <2>1. t \in All /\ ChoiceOrSelf(t) \in All
    BY Sorts DEF All
  <2>2. \A x \in Before(ChoiceOrSelf(t)) : q.cur[x] = n.cur[x]
    <3> DEFINE c == ChoiceOrSelf(t)
    <3>1. c \in D => At(c) < At(s)
      BY <1>0, <2>1, Earlier
    <3>2. At(c) \in Int /\ At(s) \in Int /\ c \in Done(i)
      BY <1>0, <1>5, <2>1, Earlier
    <3>3. s \notin Before(c) /\ Before(c) \subseteq All
      BY <1>0, <2>1, <3>1, <3>2, Earlier
    <3> QED
      BY <1>3, <3>3
  <2> QED
    BY <2>2, LitSame
<1>6. q.cur = [t \in All |-> IF t \in Done(i) THEN Value(k, u, q, t) ELSE NotCalculated.cur[t]]
  <2>1. q.cur = [t \in All |-> IF t = s THEN Value(k, u, n, s) ELSE n.cur[t]]
    BY <1>0, <1>1, <1>2
  <2>2. \A t \in All : t \in D => n.cur[t] = Value(k, u, n, t)
    BY <1>1
  <2>3. \A t \in All : t \notin D => n.cur[t] = NotCalculated.cur[t]
    BY <1>1
  <2>4. ASSUME NEW t \in All
        PROVE  (IF t = s THEN Value(k, u, n, s) ELSE n.cur[t]) = IF t \in Done(i) THEN Value(k, u, q, t) ELSE NotCalculated.cur[t]
    <3> HIDE DEF s, D
    <3>1. CASE t = s
      BY <1>0, <1>4, <3>1
    <3>2. CASE t # s /\ t \in D
      BY <1>0, <1>4, <2>2, <3>2
    <3>3. CASE t # s /\ t \notin D
      BY <1>0, <2>3, <3>3
    <3> QED
      BY <3>1, <3>2, <3>3
  <2> QED
    BY <2>1, <2>4
<1>7. q.vis = {t \in Lit(k, q) : ChoiceOrSelf(t) \in Done(i)}
  <2>1. q.vis = {t \in Lit(k, n) : ChoiceOrSelf(t) \in Done(i)}
    BY <1>0, <1>1, <1>2
  <2>2. \A m : Lit(k, m) \subseteq Symbols
    BY DEF Lit
  <2> QED
    BY <1>5, <2>1, <2>2
<1>8. q.sel = Selected(k, q) \cap Done(i) /\ q.wr = ToSave(k, q) \cap Done(i)
  <2>1. q.sel = Selected(k, n) \cap Done(i) /\ q.wr = ToSave(k, n) \cap Done(i)
    BY <1>0, <1>1, <1>2
  <2> QED
    BY <1>4, <2>1
<1>9. q = [cur |-> q.cur, vis |-> q.vis, sel |-> q.sel, wr |-> q.wr]
  BY <1>2
<1> QED
  BY <1>6, <1>7, <1>8, <1>9 DEF SolvesFor, q

LEMMA Calculated ==
  ASSUME NEW k \in Kconfigs, NEW u
  PROVE  Solves(k, u, Calculate(k, u))
<1> DEFINE R == Run(k, u)
           S == {j \in 0 .. Len(Order) : ~SolvesFor(k, u, R[j], Done(j))}
<1>1. /\ Calculate(k, u) = R[Len(Order)] /\ Len(Order) \in Nat /\ R[0] = NotCalculated
      /\ \A j \in 1 .. Len(Order) : R[j] = Calc(k, u, R[j - 1], Order[j])
  BY RunIs
<1> HIDE DEF R
<1>2. S = {}
  <2> SUFFICES ASSUME S # {} PROVE FALSE
    OBVIOUS
  <2>1. S \in SUBSET Nat
    BY <1>1
  <2>2. PICK j \in S : \A m \in S : j <= m
    BY <2>1, LeastOf
  <2>3. CASE j = 0
    <3>1. Done(0) = {}
      BY DEF Done
    <3>2. NotCalculated = [cur |-> [t \in All |-> NotCalculated.cur[t]], vis |-> {}, sel |-> {}, wr |-> {}]
      BY DEF NotCalculated, All
    <3>3. SolvesFor(k, u, NotCalculated, {})
      BY <3>2 DEF SolvesFor
    <3> QED
      BY <1>1, <2>2, <2>3, <3>1, <3>3
  <2>4. CASE j # 0
    <3>1. j \in 1 .. Len(Order) /\ j - 1 \in 0 .. Len(Order) /\ ~(j <= j - 1)
      BY <1>1, <2>2, <2>4
    <3>2. SolvesFor(k, u, R[j - 1], Done(j - 1))
      BY <2>2, <3>1
    <3>3. SolvesFor(k, u, R[j], Done(j))
      BY <1>1, <3>1, <3>2, StepOf
    <3> QED
      BY <2>2, <3>3
  <2> QED
    BY <2>3, <2>4
<1>3. SolvesFor(k, u, R[Len(Order)], Done(Len(Order)))
  BY <1>1, <1>2
<1>4. All = Done(Len(Order))
  <2>1. \A s \in All : s \in Done(Len(Order))
    BY Earlier DEF Done
  <2>2. Order \in Seq(All)
    BY OrderAssumption DEF All
  <2>3. \A j \in 1 .. Len(Order) : Order[j] \in All
    BY <2>2
  <2>4. Done(Len(Order)) \subseteq All
    BY <2>3 DEF Done
  <2> QED
    BY <2>1, <2>4
<1>5. ASSUME NEW n PROVE Lit(k, n) = {t \in Lit(k, n) : ChoiceOrSelf(t) \in All}
  BY Sorts DEF Lit, All
<1>6. ASSUME NEW n PROVE Selected(k, n) \cap All = Selected(k, n) /\ ToSave(k, n) \cap All = ToSave(k, n)
  BY DEF Selected, ToSave, All, Symbols
<1>7. ASSUME NEW n, SolvesFor(k, u, n, All) PROVE Solves(k, u, n)
  <2>1. [t \in All |-> IF t \in All THEN Value(k, u, n, t) ELSE NotCalculated.cur[t]] = [t \in All |-> Value(k, u, n, t)]
    OBVIOUS
  <2> QED
    BY <1>5, <1>6, <1>7, <2>1 DEF SolvesFor, Solves
<1> QED
  BY <1>1, <1>3, <1>4, <1>7

\* There is no other solution, so that it does not matter in which order the
\* symbols are calculated, nor which of them again.
THEOREM OnlySolution ==
  ASSUME NEW k \in Kconfigs, NEW u, NEW n, NEW m, Solves(k, u, n), Solves(k, u, m)
  PROVE  n = m
<1> DEFINE S == {At(s) : s \in {t \in All : n.cur[t] # m.cur[t]}}
<1>1. \A s \in All : n.cur[s] = Value(k, u, n, s) /\ m.cur[s] = Value(k, u, m, s)
  BY DEF Solves
<1>2. \A s \in All : n.cur[s] = m.cur[s]
  <2> SUFFICES ASSUME S # {} PROVE FALSE
    OBVIOUS
  <2>1. S \in SUBSET Nat
    BY Earlier, RunIs
  <2>2. PICK j \in S : \A h \in S : j <= h
    BY <2>1, LeastOf
  <2>3. PICK s \in All : n.cur[s] # m.cur[s] /\ j = At(s)
    BY <2>2
  <2>4. ASSUME NEW x \in Before(s) PROVE n.cur[x] = m.cur[x]
    <3>1. x \in All /\ At(x) < At(s)
      BY <2>3, <2>4, Earlier
    <3>2. At(x) \in Int /\ At(s) \in Int
      BY <2>3, <3>1, Earlier
    <3> QED
      BY <2>2, <2>3, <3>1, <3>2
  <2>5. Value(k, u, n, s) = Value(k, u, m, s)
    BY <2>4, SameFor
  <2> QED
    BY <1>1, <2>3, <2>5
<1>3. \A s \in All : /\ Value(k, u, n, s) = Value(k, u, m, s)
                     /\ s \in Lit(k, n) <=> s \in Lit(k, m)
                     /\ s \in Selected(k, n) <=> s \in Selected(k, m)
                     /\ s \in ToSave(k, n) <=> s \in ToSave(k, m)
  BY <1>2, Earlier, SameFor
<1>4. \A h : Lit(k, h) \subseteq All /\ Selected(k, h) \subseteq All /\ ToSave(k, h) \subseteq All
  BY DEF Lit, Selected, ToSave, All, Symbols
<1>5. Lit(k, n) = Lit(k, m) /\ Selected(k, n) = Selected(k, m) /\ ToSave(k, n) = ToSave(k, m)
  BY <1>3, <1>4
<1>6. [s \in All |-> Value(k, u, n, s)] = [s \in All |-> Value(k, u, m, s)]
  BY <1>3
<1> QED
  BY <1>5, <1>6 DEF Solves

LEMMA SolutionIs ==
  ASSUME NEW k \in Kconfigs, NEW u, NEW n, Solves(k, u, n)
  PROVE  Calculate(k, u) = n
BY Calculated, OnlySolution

-----------------------------------------------------------------------------
(* The lines of a file                                                     *)

IsGathering(n, S, j, f) ==
    f = [i \in 0 .. j |->
            IF i = 0 THEN <<>>
            ELSE IF Order[i] \in S THEN Append(f[i - 1], <<Order[i], n.cur[Order[i]]>>)
            ELSE f[i - 1]]
Gathering(n, S) == CHOOSE f : IsGathering(n, S, Len(Order), f)

LEMMA GatheringExists ==
  ASSUME NEW n, NEW S, NEW l \in Nat
  PROVE  \E f : IsGathering(n, S, l, f)
<1> DEFINE J == {j \in Nat : ~ \E f : IsGathering(n, S, j, f)}
<1> SUFFICES ASSUME J # {} PROVE FALSE
  OBVIOUS
<1>1. PICK j \in J : \A m \in J : j <= m
  BY LeastOf
<1>2. CASE j = 0
  <2>1. IsGathering(n, S, 0, [i \in 0 .. 0 |-> <<>>])
    BY DEF IsGathering
  <2> QED
    BY <1>2, <2>1
<1>3. CASE j # 0
  <2>1. j - 1 \in Nat /\ j - 1 \notin J
    BY <1>1, <1>3
  <2>2. PICK f : IsGathering(n, S, j - 1, f)
    BY <2>1
  <2> DEFINE next(x, i) == IF Order[i] \in S THEN Append(x, <<Order[i], n.cur[Order[i]]>>) ELSE x
             g == [i \in 0 .. j |-> IF i = j THEN next(f[j - 1], j) ELSE f[i]]
  <2>3. \A i \in 0 .. j - 1 : f[i] = IF i = 0 THEN <<>> ELSE next(f[i - 1], i)
    BY <2>2 DEF IsGathering
  <2>4. ASSUME NEW i \in 0 .. j PROVE g[i] = IF i = 0 THEN <<>> ELSE next(g[i - 1], i)
    <3> HIDE DEF next
    <3>1. CASE i = j
      BY <1>3, <3>1
    <3>2. CASE i # j
      <4>1. i \in 0 .. j - 1 /\ g[i] = f[i] /\ (i # 0 => g[i - 1] = f[i - 1])
        BY <3>2
      <4> QED
        BY <2>3, <4>1
    <3> QED
      BY <3>1, <3>2
  <2>5. IsGathering(n, S, j, g)
    BY <2>4 DEF IsGathering
  <2> QED
    BY <2>5
<1> QED
  BY <1>2, <1>3

\* A list of lines with exactly one for each symbol of D, its value in n.
ListOf(L, n, D) ==
    /\ L \in Seq({<<s, n.cur[s]>> : s \in D})
    /\ \A s \in D : \E h \in DOMAIN L : L[h] = <<s, n.cur[s]>>
    /\ \A h, g \in DOMAIN L : L[h][1] = L[g][1] => h = g

LEMMA AppendLine ==
  ASSUME NEW L, NEW n, NEW D, ListOf(L, n, D), NEW s, s \notin D
  PROVE  ListOf(Append(L, <<s, n.cur[s]>>), n, D \cup {s})
<1> DEFINE T == {<<t, n.cur[t]>> : t \in D}
           V == {<<t, n.cur[t]>> : t \in D \cup {s}}
           l == <<s, n.cur[s]>>
           M == Append(L, l)
<1>1. L \in Seq(T) /\ T \subseteq V /\ l \in V
  BY DEF ListOf
<1>2. \A h \in DOMAIN L : L[h][1] \in D
  <2>1. \A h \in DOMAIN L : L[h] \in T
    BY <1>1
  <2> QED
    BY <2>1
<1>3. /\ DOMAIN M = 1 .. Len(L) + 1 /\ DOMAIN L = 1 .. Len(L) /\ Len(L) \in Nat
      /\ M[Len(L) + 1] = l /\ \A h \in DOMAIN L : M[h] = L[h]
  <2> HIDE DEF T, l
  <2> QED
    BY <1>1
<1>4. M \in Seq(V)
  <2>1. L \in Seq(V)
    <3> HIDE DEF T, V
    <3> QED
      BY <1>1
  <2> HIDE DEF V, l
  <2> QED
    BY <1>1, <2>1
<1>5. \A t \in D \cup {s} : \E h \in DOMAIN M : M[h] = <<t, n.cur[t]>>
  <2>1. \A t \in D : \E h \in DOMAIN L : L[h] = <<t, n.cur[t]>>
    BY DEF ListOf
  <2>2. DOMAIN L \subseteq DOMAIN M /\ Len(L) + 1 \in DOMAIN M
    BY <1>3
  <2>3. M[Len(L) + 1] = <<s, n.cur[s]>>
    BY <1>3
  <2> HIDE DEF M, l
  <2> QED
    BY <1>3, <2>1, <2>2, <2>3
<1>6. ASSUME NEW h \in DOMAIN M, NEW g \in DOMAIN M, M[h][1] = M[g][1] PROVE h = g
  <2>1. l[1] = s
    OBVIOUS
  <2>2. h \in DOMAIN L \/ h = Len(L) + 1
    BY <1>3
  <2>3. g \in DOMAIN L \/ g = Len(L) + 1
    BY <1>3
  <2> HIDE DEF M, l
  <2> QED
    BY <1>2, <1>3, <1>6, <2>1, <2>2, <2>3 DEF ListOf
<1> QED
  BY <1>4, <1>5, <1>6 DEF ListOf

LEMMA LinesAre ==
  ASSUME NEW n, NEW S \in SUBSET All
  PROVE  ListOf(Lines(n, S), n, S)
<1> DEFINE f == Gathering(n, S)
           Good(j) == ListOf(f[j], n, Done(j) \cap S)
           J == {j \in 0 .. Len(Order) : ~Good(j)}
<1>1. Len(Order) \in Nat /\ Order \in Seq(All)
  BY OrderAssumption DEF All
<1>2. IsGathering(n, S, Len(Order), f)
  BY <1>1, GatheringExists DEF Gathering
<1>3. Lines(n, S) = f[Len(Order)]
  BY DEF Lines, Gathering, IsGathering
<1>4. /\ f[0] = <<>>
      /\ \A j \in 1 .. Len(Order) : f[j] = IF Order[j] \in S THEN Append(f[j - 1], <<Order[j], n.cur[Order[j]]>>) ELSE f[j - 1]
  <2> HIDE DEF f
  <2> DEFINE next(x, i) == IF Order[i] \in S THEN Append(x, <<Order[i], n.cur[Order[i]]>>) ELSE x
  <2>1. \A i \in 0 .. Len(Order) : f[i] = IF i = 0 THEN <<>> ELSE next(f[i - 1], i)
    BY <1>2 DEF IsGathering
  <2> HIDE DEF next
  <2>2. f[0] = <<>> /\ \A j \in 1 .. Len(Order) : f[j] = next(f[j - 1], j)
    BY <1>1, <2>1
  <2> QED
    BY <2>2 DEF next
<1> HIDE DEF f
<1>5. J = {}
  <2> SUFFICES ASSUME J # {} PROVE FALSE
    OBVIOUS
  <2>1. J \in SUBSET Nat
    BY <1>1
  <2>2. PICK j \in J : \A m \in J : j <= m
    BY <2>1, LeastOf
  <2>3. CASE j = 0
    <3>1. Done(0) = {}
      BY DEF Done
    <3>2. ListOf(<<>>, n, {})
      BY DEF ListOf
    <3> QED
      BY <1>4, <2>2, <2>3, <3>1, <3>2
  <2>4. CASE j # 0
    <3> DEFINE s == Order[j]
               D == Done(j - 1) \cap S
    <3>1. j \in 1 .. Len(Order) /\ j - 1 \in 0 .. Len(Order) /\ ~(j <= j - 1)
      BY <1>1, <2>2, <2>4
    <3>2. ListOf(f[j - 1], n, D)
      BY <2>2, <3>1
    <3>3. /\ s \in All /\ s \notin D
          /\ Done(j) = Done(j - 1) \cup {s}
      <4>1. s \in All
        BY <1>1, <3>1
      <4>2. j = At(s) /\ s \notin Before(s)
        BY <3>1, <4>1, Earlier
      <4>3. Done(j - 1) = Before(s)
        BY <4>2 DEF Before, Done
      <4>4. Done(j) = Done(j - 1) \cup {s}
        BY <3>1 DEF Done
      <4> QED
        BY <4>1, <4>2, <4>3, <4>4
    <3>4. CASE s \in S
      <4>1. Done(j) \cap S = D \cup {s}
        BY <3>3, <3>4
      <4>2. f[j] = Append(f[j - 1], <<s, n.cur[s]>>)
        BY <1>4, <3>1, <3>4
      <4>3. ListOf(f[j], n, D \cup {s})
        BY <3>2, <3>3, <4>2, AppendLine
      <4> QED
        BY <2>2, <4>1, <4>3
    <3>5. CASE s \notin S
      <4>1. Done(j) \cap S = D
        BY <3>3, <3>5
      <4>2. f[j] = f[j - 1]
        BY <1>4, <3>1, <3>5
      <4> QED
        BY <2>2, <3>2, <4>1, <4>2
    <3> QED
      BY <3>4, <3>5
  <2> QED
    BY <2>3, <2>4
<1>6. Good(Len(Order))
  <2> HIDE DEF Good
  <2> QED
    BY <1>1, <1>5
<1>7. Done(Len(Order)) \cap S = S
  <2>1. \A s \in All : s \in Done(Len(Order))
    BY Earlier DEF Done
  <2> QED
    BY <2>1
<1> QED
  BY <1>3, <1>6, <1>7

-----------------------------------------------------------------------------
(* Files read back                                                         *)

\* What a solution says of choices.
LEMMA FirstOfIn ==
  ASSUME NEW S \in SUBSET All, S # {}
  PROVE  FirstOf(S) \in S
<1>1. {At(s) : s \in S} \in SUBSET Nat /\ {At(s) : s \in S} # {}
  BY Earlier, RunIs
<1>2. PICK j \in {At(s) : s \in S} : \A m \in {At(s) : s \in S} : j <= m
  BY <1>1, LeastOf
<1>3. \E s \in S : \A t \in S : At(s) <= At(t)
  BY <1>2
<1> QED
  BY <1>3 DEF FirstOf

LEMMA ChoiceDefaultIn ==
  ASSUME NEW k \in Kconfigs, NEW c \in ChoiceSyms, NEW cur
  PROVE  IF VisibleMembers(k, c, cur) = {} THEN ChoiceDefault(k, c, cur) = None
         ELSE ChoiceDefault(k, c, cur) \in VisibleMembers(k, c, cur)
<1> DEFINE lit == VisibleMembers(k, c, cur)
           on == {i \in DOMAIN k.default[c] : Holds(k.default[c][i].if, cur) /\ k.default[c][i].val \in lit}
<1>1. ChoiceDefault(k, c, cur) = IF on # {} THEN k.default[c][Min(on)].val ELSE FirstOf(lit)
  BY DEF ChoiceDefault
<1>2. lit = {} => on = {} /\ FirstOf(lit) = None
  BY DEF FirstOf
<1>3. lit # {} => FirstOf(lit) \in lit
  <2>1. lit \in SUBSET All
    BY MembersAre DEF VisibleMembers
  <2> QED
    BY <2>1, FirstOfIn
<1>4. on # {} => k.default[c][Min(on)].val \in lit
  <2> SUFFICES ASSUME on # {} PROVE k.default[c][Min(on)].val \in lit
    OBVIOUS
  <2>1. on \in SUBSET Nat
    BY KconfigAssumption
  <2>2. PICK m \in on : \A x \in on : m <= x
    <3> HIDE DEF on
    <3> QED
      BY <2>1, LeastOf
  <2>3. Min(on) \in on
    <3> HIDE DEF on
    <3> QED
      BY <2>2 DEF Min
  <2> QED
    BY <2>3
<1> HIDE DEF lit, on
<1> QED
  BY <1>1, <1>2, <1>3, <1>4 DEF lit

\* Each choice has a value that shows, or none does and it has none.
LEMMA ChoiceIs ==
  ASSUME NEW k \in Kconfigs, NEW u, NEW n, Solves(k, u, n), NEW c \in ChoiceSyms
  PROVE  LET lit == VisibleMembers(k, c, n.cur)
         IN  /\ n.cur[c] = IF u.pick[c] \in lit THEN u.pick[c] ELSE ChoiceDefault(k, c, n.cur)
             /\ lit # {} => n.cur[c] \in lit
             /\ lit = {} => n.cur[c] = None
             /\ \A s \in lit : s \in Symbols /\ s \in Bools /\ IsValue(s) /\ ChoiceOf[s] = c /\ None # s
<1>1. c \in All
  BY DEF All
<1>2. n.cur[c] = IF u.pick[c] \in VisibleMembers(k, c, n.cur) THEN u.pick[c] ELSE ChoiceDefault(k, c, n.cur)
  BY <1>1 DEF Solves, Value
<1>3. \A s \in VisibleMembers(k, c, n.cur) : s \in Symbols /\ s \in Bools /\ IsValue(s) /\ ChoiceOf[s] = c /\ None # s
  BY MembersAre, OrderAssumption DEF VisibleMembers, Symbols
<1> QED
  BY <1>2, <1>3, ChoiceDefaultIn

\* ... and of its values the one that is y is its value.
LEMMA ValueIs ==
  ASSUME NEW k \in Kconfigs, NEW u, NEW n, Solves(k, u, n), NEW s \in Symbols, IsValue(s)
  PROVE  /\ s \in n.vis <=> s \in VisibleMembers(k, ChoiceOf[s], n.cur)
         /\ s \in n.wr <=> s \in n.vis
         /\ s \notin n.sel
         /\ n.cur[s] = IF s \in n.vis /\ n.cur[ChoiceOf[s]] = s THEN "y" ELSE "n"
<1>1. s \in All /\ s \in Bools /\ s \notin ChoiceSyms /\ s \notin Strings
  BY OrderAssumption DEF All, Symbols, IsValue
<1>2. n.vis = Lit(k, n) /\ n.wr = ToSave(k, n) /\ n.sel = Selected(k, n) /\ n.cur[s] = Value(k, u, n, s)
  BY <1>1 DEF Solves
<1>3. ~DefaultsToYes(k, s, n.cur) /\ s \notin Selected(k, n)
  BY <1>1, NoDefault DEF Selected
<1> QED
  BY <1>1, <1>2, <1>3 DEF Lit, ToSave, Value

\* The answers that differ in nothing that counts have the same solution.
LEMMA SameAnswers ==
  ASSUME NEW k \in Kconfigs, NEW u, NEW w, NEW n, Solves(k, u, n),
         \A s \in Symbols : ~IsValue(s) /\ s \in n.vis =>
            IF s \in w.has
            THEN IF s \in Strings THEN n.cur[s] = w.val[s] ELSE n.cur[s] = "y" <=> (w.val[s] = "y" \/ s \in n.sel)
            ELSE s \notin u.has,
         \A c \in ChoiceSyms : \/ w.pick[c] = n.cur[c]
                               \/ /\ n.cur[c] = ChoiceDefault(k, c, n.cur)
                                  /\ w.pick[c] \notin VisibleMembers(k, c, n.cur)
  PROVE  Solves(k, w, n)
<1>0. n.vis = Lit(k, n) /\ n.sel = Selected(k, n)
  BY DEF Solves
<1>1. ASSUME NEW s \in All PROVE n.cur[s] = Value(k, w, n, s)
  <2>1. n.cur[s] = Value(k, u, n, s)
    BY DEF Solves
  <2>2. CASE s \in ChoiceSyms
    <3>1. /\ VisibleMembers(k, s, n.cur) # {} => n.cur[s] \in VisibleMembers(k, s, n.cur)
          /\ VisibleMembers(k, s, n.cur) = {} => n.cur[s] = ChoiceDefault(k, s, n.cur)
      BY <2>2, ChoiceIs, ChoiceDefaultIn
    <3> QED
      BY <2>2, <3>1 DEF Value
  <2>3. CASE s \in Strings
    <3>1. s \in Symbols /\ s \notin ChoiceSyms /\ ~IsValue(s)
      BY <2>3, Sorts DEF Symbols
    <3> QED
      BY <1>0, <2>1, <2>3, <3>1 DEF Value
  <2>4. CASE s \in Bools /\ IsValue(s)
    <3>1. s \notin ChoiceSyms /\ s \notin Strings
      BY <2>4, Sorts
    <3> QED
      BY <2>1, <2>4, <3>1 DEF Value
  <2>5. CASE s \in Bools /\ ~IsValue(s)
    <3>1. s \in Symbols /\ s \notin ChoiceSyms /\ s \notin Strings
      BY <2>5, OrderAssumption DEF Symbols
    <3>2. CASE s \in Lit(k, n) /\ s \in w.has
      <4>1. n.cur[s] = "y" <=> (w.val[s] = "y" \/ s \in Selected(k, n))
        BY <1>0, <2>5, <3>1, <3>2
      <4>2. n.cur[s] \in {"y", "n"}
        BY <2>1, <3>1 DEF Value
      <4>3. Value(k, w, n, s) = IF w.val[s] = "y" \/ s \in Selected(k, n) THEN "y" ELSE "n"
        BY <2>5, <3>1, <3>2 DEF Value
      <4> QED
        BY <4>1, <4>2, <4>3
    <3>3. CASE s \in Lit(k, n) /\ s \notin w.has
      <4>1. s \notin u.has
        BY <1>0, <2>5, <3>1, <3>3
      <4> QED
        BY <2>1, <2>5, <3>1, <3>3, <4>1 DEF Value
    <3>4. CASE s \notin Lit(k, n)
      BY <2>1, <2>5, <3>1, <3>4 DEF Value
    <3> QED
      BY <3>2, <3>3, <3>4
  <2> QED
    BY <2>2, <2>3, <2>4, <2>5 DEF All, Symbols
<1>2. [s \in All |-> Value(k, u, n, s)] = [s \in All |-> Value(k, w, n, s)]
  BY <1>1 DEF Solves
<1> QED
  BY <1>2 DEF Solves

LEMMA ReadLines ==
  ASSUME NEW k \in Kconfigs, NEW u, NEW n, Solves(k, u, n), NEW S \in SUBSET n.wr
  PROVE  LET w == UserOf(Lines(n, S))
         IN  /\ w.has = S /\ S \subseteq Symbols
             /\ \A s \in S : w.val[s] = n.cur[s]
             /\ \A c \in ChoiceSyms : w.pick[c] = IF n.cur[c] \in S \cap VisibleMembers(k, c, n.cur) THEN n.cur[c] ELSE None
             /\ ~Odd(Lines(n, S))
<1> DEFINE L == Lines(n, S)
           w == UserOf(L)
           of(s) == {i \in DOMAIN L : L[i][1] = s}
           picks(c) == {i \in DOMAIN L : IsValue(L[i][1]) /\ ChoiceOf[L[i][1]] = c /\ L[i][2] = "y"}
<1>1. S \subseteq Symbols /\ S \in SUBSET All
  BY DEF Solves, ToSave, All
<1>2. ListOf(L, n, S)
  BY <1>1, LinesAre
<1>3. \A i \in DOMAIN L : L[i][1] \in S /\ L[i][2] = n.cur[L[i][1]]
  <2> DEFINE T == {<<s, n.cur[s]>> : s \in S}
  <2>1. \A i \in DOMAIN L : L[i] \in T
    <3>1. L \in Seq(T)
      BY <1>2 DEF ListOf
    <3> HIDE DEF T, L
    <3> QED
      BY <3>1
  <2> HIDE DEF L
  <2> QED
    BY <2>1
<1>4. /\ w.val = [s \in Symbols |-> IF of(s) = {} THEN Blank.val[s] ELSE L[Max(of(s))][2]]
      /\ w.has = {s \in Symbols : of(s) # {}}
      /\ w.pick = [c \in ChoiceSyms |-> IF picks(c) = {} THEN None ELSE L[Max(picks(c))][1]]
  BY DEF UserOf
<1>5. \A i \in DOMAIN L : i \in Nat
  BY <1>2 DEF ListOf
<1> HIDE DEF L, w
<1>6. ASSUME NEW i \in DOMAIN L PROVE Max({i}) = i
  BY <1>5 DEF Max
<1>7. ASSUME NEW s \in S PROVE \E i \in DOMAIN L : of(s) = {i} /\ L[i][1] = s /\ L[i][2] = n.cur[s]
  <2>1. PICK i \in DOMAIN L : L[i] = <<s, n.cur[s]>>
    BY <1>2 DEF ListOf
  <2>2. \A g \in DOMAIN L : L[g][1] = s => g = i
    BY <1>2, <2>1 DEF ListOf
  <2> QED
    BY <2>1, <2>2
<1>8. w.has = S
  <2>1. \A s \in Symbols : of(s) # {} <=> s \in S
    BY <1>3, <1>7
  <2> HIDE DEF of
  <2> QED
    BY <1>1, <1>4, <2>1
<1>9. ASSUME NEW s \in S PROVE w.val[s] = n.cur[s]
  <2>1. PICK i \in DOMAIN L : of(s) = {i} /\ L[i][2] = n.cur[s]
    BY <1>7
  <2>2. of(s) # {} /\ Max(of(s)) = i
    BY <1>6, <2>1
  <2> HIDE DEF of
  <2> QED
    BY <1>1, <1>4, <2>1, <2>2
<1>10. ASSUME NEW s \in Symbols, IsValue(s), n.cur[s] = "y" PROVE s = n.cur[ChoiceOf[s]]
  <2>1. n.cur[s] = IF s \in n.vis /\ n.cur[ChoiceOf[s]] = s THEN "y" ELSE "n"
    BY <1>10, ValueIs
  <2> QED
    BY <1>10, <2>1
<1>11. ASSUME NEW c \in ChoiceSyms
       PROVE  w.pick[c] = IF n.cur[c] \in S \cap VisibleMembers(k, c, n.cur) THEN n.cur[c] ELSE None
  <2> DEFINE s == n.cur[c]
  <2>1. ASSUME NEW i \in picks(c) PROVE L[i][1] = s /\ s \in S \cap VisibleMembers(k, c, n.cur) /\ picks(c) = {i}
    <3>1. i \in DOMAIN L /\ L[i][1] \in S /\ IsValue(L[i][1]) /\ ChoiceOf[L[i][1]] = c /\ n.cur[L[i][1]] = "y"
      BY <1>3
    <3>2. L[i][1] = s /\ s \in S /\ s \in Symbols /\ s \in n.wr
      BY <1>1, <1>10, <3>1
    <3>3. s \in VisibleMembers(k, c, n.cur)
      BY <3>1, <3>2, ValueIs
    <3>4. ASSUME NEW j \in picks(c) PROVE j = i
      <4>1. j \in DOMAIN L /\ L[j][1] \in S /\ IsValue(L[j][1]) /\ ChoiceOf[L[j][1]] = c /\ n.cur[L[j][1]] = "y"
        BY <1>3
      <4>2. L[j][1] = s
        BY <1>1, <1>10, <4>1
      <4> QED
        BY <1>2, <3>1, <3>2, <4>1, <4>2 DEF ListOf
    <3> QED
      BY <3>2, <3>3, <3>4
  <2>2. CASE s \in S \cap VisibleMembers(k, c, n.cur)
    <3>1. s \in Symbols /\ IsValue(s) /\ ChoiceOf[s] = c /\ s \in n.vis
      BY <2>2, ChoiceIs, ValueIs
    <3>2. n.cur[s] = "y"
      BY <3>1, ValueIs
    <3>3. PICK i \in DOMAIN L : L[i][1] = s /\ L[i][2] = n.cur[s]
      BY <1>7, <2>2
    <3>4. i \in picks(c)
      BY <3>1, <3>2, <3>3
    <3>5. picks(c) # {} /\ Max(picks(c)) = i /\ L[i][1] = s
      BY <1>6, <2>1, <3>4
    <3> HIDE DEF picks, s
    <3>6. w.pick[c] = s
      BY <1>4, <3>5
    <3> QED
      BY <2>2, <3>6 DEF s
  <2>3. CASE s \notin S \cap VisibleMembers(k, c, n.cur)
    <3>1. picks(c) = {}
      BY <2>1, <2>3
    <3> HIDE DEF picks
    <3> QED
      BY <1>4, <2>3, <3>1
  <2> QED
    BY <2>2, <2>3
<1>12. ~Odd(L)
  <2>1. \A i \in DOMAIN L : L[i][1] \in Symbols
    BY <1>1, <1>3
  <2>2. ASSUME NEW i \in DOMAIN L, NEW j \in DOMAIN L, i < j
        PROVE  /\ L[i][1] # L[j][1]
               /\ ~ /\ IsValue(L[i][1]) /\ IsValue(L[j][1]) /\ ChoiceOf[L[i][1]] = ChoiceOf[L[j][1]]
                    /\ L[i][2] = "y" /\ L[j][2] = "y"
    <3>1. i # j
      BY <1>5, <2>2
    <3>2. L[i][1] # L[j][1]
      BY <1>2, <3>1 DEF ListOf
    <3> QED
      BY <1>3, <1>10, <2>1, <3>2
  <2> QED
    BY <2>1, <2>2 DEF Odd
<1> QED
  BY <1>1, <1>8, <1>9, <1>11, <1>12 DEF L, w

LEMMA BothRead ==
  ASSUME NEW k \in Kconfigs, NEW u
  PROVE  LET n == Calculate(k, u)
             back == Read(k, Lines(n, Written(n)))
         IN  /\ back.now = n /\ ~back.changed
             /\ Read(k, MinimalLines(k, n)).now = n
<1> DEFINE n == Calculate(k, u)
<1>1. Solves(k, u, n)
  BY Calculated
<1> HIDE DEF n
<1>2. /\ n.vis = Lit(k, n) /\ n.sel = Selected(k, n) /\ n.wr = ToSave(k, n)
      /\ \A s \in All : n.cur[s] = Value(k, u, n, s)
      /\ n.vis \subseteq n.wr /\ n.wr \subseteq Symbols
  BY <1>1 DEF Solves, Lit, ToSave
<1>3. ASSUME NEW s \in Symbols, ~IsValue(s), s \in n.vis, s \in Bools
      PROVE  n.cur[s] \in {"y", "n"} /\ (s \in n.sel => n.cur[s] = "y")
  <2>1. s \notin ChoiceSyms /\ s \notin Strings /\ s \in All
    BY <1>3, OrderAssumption DEF Symbols, All
  <2> QED
    BY <1>2, <1>3, <2>1 DEF Value
<1>4. LET w == UserOf(Lines(n, Written(n)))
      IN  Solves(k, w, n) /\ w.has = n.wr /\ (\A s \in n.wr : w.val[s] = n.cur[s]) /\ ~Odd(Lines(n, Written(n)))
  <2> DEFINE w == UserOf(Lines(n, Written(n)))
  <2>1. Written(n) = n.wr
    BY <1>2 DEF Written
  <2>2. /\ w.has = n.wr /\ ~Odd(Lines(n, Written(n)))
        /\ \A s \in n.wr : w.val[s] = n.cur[s]
        /\ \A c \in ChoiceSyms : w.pick[c] = IF n.cur[c] \in n.wr \cap VisibleMembers(k, c, n.cur) THEN n.cur[c] ELSE None
    BY <1>1, <2>1, ReadLines
  <2> HIDE DEF w
  <2>3. ASSUME NEW s \in Symbols, ~IsValue(s), s \in n.vis
        PROVE  IF s \in w.has
               THEN IF s \in Strings THEN n.cur[s] = w.val[s] ELSE n.cur[s] = "y" <=> (w.val[s] = "y" \/ s \in n.sel)
               ELSE s \notin u.has
    BY <1>2, <1>3, <2>2, <2>3 DEF Symbols
  <2>4. ASSUME NEW c \in ChoiceSyms PROVE w.pick[c] = n.cur[c]
    <3>1. CASE VisibleMembers(k, c, n.cur) = {}
      BY <1>1, <2>2, <3>1, ChoiceIs
    <3>2. CASE VisibleMembers(k, c, n.cur) # {}
      <4>1. n.cur[c] \in VisibleMembers(k, c, n.cur) /\ n.cur[c] \in Symbols /\ IsValue(n.cur[c]) /\ ChoiceOf[n.cur[c]] = c
        BY <1>1, <3>2, ChoiceIs
      <4>2. n.cur[c] \in n.vis
        BY <1>1, <4>1, ValueIs
      <4> QED
        BY <1>2, <2>2, <4>1, <4>2
    <3> QED
      BY <3>1, <3>2
  <2>5. Solves(k, w, n)
    BY <1>1, <2>3, <2>4, SameAnswers
  <2> QED
    BY <2>2, <2>5 DEF w
<1>5. LET back == Read(k, Lines(n, Written(n))) IN back.now = n /\ ~back.changed
  <2> DEFINE lines == Lines(n, Written(n))
             w == UserOf(lines)
  <2>1. Calculate(k, w) = n
    BY <1>4, SolutionIs
  <2>2. ~Unsaved(w, n)
    BY <1>4 DEF Unsaved, Agrees
  <2> QED
    BY <1>4, <2>1, <2>2 DEF Read
<1>6. LET x == UserOf(MinimalLines(k, n)) IN Solves(k, x, n)
  <2> DEFINE M == {s \in Written(n) : Changable(n, s) /\ ~IsDefault(k, n, s)}
             x == UserOf(MinimalLines(k, n))
  <2>1. MinimalLines(k, n) = Lines(n, M) /\ M \in SUBSET n.wr
    BY DEF MinimalLines, Written
  <2>2. /\ x.has = M
        /\ \A s \in M : x.val[s] = n.cur[s]
        /\ \A c \in ChoiceSyms : x.pick[c] = IF n.cur[c] \in M \cap VisibleMembers(k, c, n.cur) THEN n.cur[c] ELSE None
    BY <1>1, <2>1, ReadLines
  <2> HIDE DEF x
  <2>3. ASSUME NEW s \in All PROVE n.cur[s] = Value(k, x, n, s)
    <3>1. CASE s \in ChoiceSyms
      <4> DEFINE lit == VisibleMembers(k, s, n.cur)
      <4>1. /\ lit # {} => n.cur[s] \in lit
            /\ lit = {} => n.cur[s] = None
            /\ \A t \in lit : t \in Symbols /\ t \in Bools /\ IsValue(t) /\ ChoiceOf[t] = s /\ None # t
        BY <1>1, <3>1, ChoiceIs
      <4>2. CASE lit = {}
        BY <3>1, <4>1, <4>2, ChoiceDefaultIn DEF Value
      <4>3. CASE lit # {} /\ n.cur[s] \in M
        BY <2>2, <3>1, <4>1, <4>3 DEF Value
      <4>4. CASE lit # {} /\ n.cur[s] \notin M
        <5> DEFINE t == n.cur[s]
        <5>1. t \in lit /\ t \in Symbols /\ t \in Bools /\ IsValue(t) /\ ChoiceOf[t] = s
          BY <4>1, <4>4
        <5> HIDE DEF t
        <5>2. t \in n.vis /\ t \in n.wr /\ t \notin n.sel /\ n.cur[t] = "y"
          <6>1. t \in n.vis
            BY <1>1, <5>1, ValueIs
          <6> QED
            BY <1>1, <5>1, <6>1, ValueIs DEF t
        <5>3. IsDefault(k, n, t)
          BY <4>4, <5>1, <5>2 DEF Written, Changable, t
        <5>4. ~DefaultsToYes(k, t, n.cur) /\ t \notin Strings
          BY <5>1, NoDefault, OrderAssumption DEF All
        <5>5. t = ChoiceDefault(k, s, n.cur)
          BY <5>1, <5>2, <5>3, <5>4 DEF IsDefault
        <5>6. x.pick[s] = None /\ None \notin lit
          BY <2>2, <3>1, <4>1, <4>4
        <5> QED
          BY <3>1, <5>5, <5>6 DEF Value, t
      <4> QED
        BY <4>2, <4>3, <4>4
    <3>2. CASE s \in Strings
      <4>1. s \in Symbols /\ s \notin ChoiceSyms /\ ~IsValue(s)
        BY <3>2, Sorts DEF Symbols
      <4>2. CASE s \in n.vis /\ s \notin M
        <5>1. s \notin n.sel
          BY <1>2, <3>2, Sorts DEF Selected
        <5>2. n.cur[s] = DefaultText(k, s, n.cur)
          BY <1>2, <3>2, <4>1, <4>2, <5>1 DEF Written, Changable, IsDefault
        <5> QED
          BY <2>2, <3>2, <4>1, <4>2, <5>2 DEF Value
      <4>3. CASE s \in n.vis /\ s \in M
        BY <1>2, <2>2, <3>2, <4>1, <4>3 DEF Value
      <4>4. CASE s \notin n.vis
        BY <1>2, <3>2, <4>1, <4>4 DEF Value
      <4> QED
        BY <4>2, <4>3, <4>4
    <3>3. CASE s \in Bools /\ IsValue(s)
      <4>1. s \notin ChoiceSyms /\ s \notin Strings
        BY <3>3, Sorts
      <4> QED
        BY <1>2, <3>3, <4>1 DEF Value
    <3>4. CASE s \in Bools /\ ~IsValue(s)
      <4>1. s \in Symbols /\ s \notin ChoiceSyms /\ s \notin Strings
        BY <3>4, OrderAssumption DEF Symbols
      <4>2. CASE s \in n.vis /\ s \in M
        <5>1. n.cur[s] \in {"y", "n"} /\ s \notin n.sel
          BY <1>3, <3>4, <4>1, <4>2 DEF Changable
        <5> QED
          BY <1>2, <2>2, <3>4, <4>1, <4>2, <5>1 DEF Value
      <4>3. CASE s \in n.vis /\ s \notin M /\ s \notin n.sel
        <5>1. IsDefault(k, n, s)
          BY <1>2, <4>3 DEF Written, Changable
        <5>2. n.cur[s] = IF DefaultsToYes(k, s, n.cur) THEN "y" ELSE "n"
          BY <3>4, <4>1, <4>3, <5>1 DEF IsDefault
        <5> QED
          BY <1>2, <2>2, <3>4, <4>1, <4>3, <5>2 DEF Value
      <4>4. CASE s \in n.vis /\ s \in n.sel
        BY <1>2, <1>3, <3>4, <4>1, <4>4 DEF Value
      <4>5. CASE s \notin n.vis
        BY <1>2, <3>4, <4>1, <4>5 DEF Value
      <4> QED
        BY <4>2, <4>3, <4>4, <4>5
    <3> QED
      BY <3>1, <3>2, <3>3, <3>4 DEF All, Symbols
  <2>4. [s \in All |-> Value(k, u, n, s)] = [s \in All |-> Value(k, x, n, s)]
    BY <1>2, <2>3
  <2>5. Solves(k, x, n)
    BY <1>1, <2>4 DEF Solves
  <2> QED
    BY <2>5 DEF x
<1>7. Read(k, MinimalLines(k, n)).now = n
  <2>1. Calculate(k, UserOf(MinimalLines(k, n))) = n
    BY <1>6, SolutionIs
  <2> QED
    BY <2>1 DEF Read
<1> QED
  BY <1>5, <1>7 DEF n

Known == kconfig \in Kconfigs

LEMMA KnownStays == Spec => []Known
<1>1. Init => Known
  BY DEF Init, Known
<1>2. Known /\ [Next]_vars => Known'
  BY DEF Known, Next, vars, Menuconfig, OldDefconfig, Defconfig, Load, SaveDefconfig, EndSaveDefconfig, SetBool, SetString,
         Edit, Write, MoveOld, MoveNew, Replace, MoveNewFails, Quit, Kill, Upgrade
<1> QED
  BY <1>1, <1>2, PTL DEF Spec

\* In either form in which it can be kept, a configuration reads back as it was,
\* for all answers and all Config.in files.
THEOREM BothReadBack == Spec => []ReadBack
<1>1. Known => ReadBack
  BY BothRead DEF ReadBack, Known
<1> QED
  BY <1>1, KnownStays, PTL

-----------------------------------------------------------------------------
(* What was calculated stays right                                         *)

IsAnswers(u) == u.val = [s \in Symbols |-> u.val[s]] /\ u.pick = [c \in ChoiceSyms |-> u.pick[c]]

\* Only whether a symbol that shows has an answer counts.
LEMMA SameWhereSeen ==
  ASSUME NEW k \in Kconfigs, NEW u, NEW w, NEW n, Solves(k, u, n), w.val = u.val, w.pick = u.pick,
         \A s \in Symbols : ~IsValue(s) /\ s \in n.vis => (s \in w.has <=> s \in u.has)
  PROVE  Solves(k, w, n)
<1>0. n.vis = Lit(k, n)
  BY DEF Solves
<1>1. ASSUME NEW s \in All PROVE Value(k, u, n, s) = Value(k, w, n, s)
  <2>1. CASE s \in Symbols /\ ~IsValue(s)
    BY <1>0, <2>1 DEF Value
  <2>2. CASE s \in ChoiceSyms
    BY <2>2 DEF Value
  <2>3. CASE s \in Bools /\ IsValue(s)
    <3>1. s \notin ChoiceSyms /\ s \notin Strings
      BY <2>3, Sorts
    <3> QED
      BY <2>3, <3>1 DEF Value
  <2>4. CASE s \in Symbols /\ IsValue(s)
    BY <2>3, <2>4, Sorts
  <2> QED
    BY <2>1, <2>2, <2>4 DEF All
<1>2. [s \in All |-> Value(k, u, n, s)] = [s \in All |-> Value(k, w, n, s)]
  BY <1>1
<1> QED
  BY <1>2 DEF Solves

\* What conf_read forgets because nobody sees it does not count.
LEMMA ReadFresh ==
  ASSUME NEW k \in Kconfigs, NEW lines
  PROVE  LET r == Read(k, lines) IN Solves(k, r.user, r.now) /\ IsAnswers(r.user)
<1> DEFINE u == UserOf(lines)
           n == Calculate(k, u)
           w == [u EXCEPT !.has = {s \in @ : IsValue(s) \/ s \in n.vis}]
<1>1. Solves(k, u, n)
  BY Calculated
<1>2. u = [val |-> u.val, has |-> u.has, pick |-> u.pick] /\ IsAnswers(u)
  BY DEF UserOf, IsAnswers
<1>3. Read(k, lines).now = n /\ Read(k, lines).user = IF Unsaved(u, n) THEN u ELSE w
  BY DEF Read
<1> HIDE DEF n, u
<1>4. w.val = u.val /\ w.pick = u.pick /\ w.has = {s \in u.has : IsValue(s) \/ s \in n.vis}
  BY <1>2
<1> HIDE DEF w
<1>5. Solves(k, w, n)
  BY <1>1, <1>4, SameWhereSeen
<1>6. IsAnswers(w)
  BY <1>2, <1>4 DEF IsAnswers
<1> QED
  BY <1>1, <1>2, <1>3, <1>5, <1>6

LEMMA DotFresh ==
  ASSUME kconfig \in Kconfigs
  PROVE  Solves(kconfig, ReadDot.user, ReadDot.now) /\ IsAnswers(ReadDot.user)
<1>1. CASE dot = Missing
  <2>1. ReadDot.user = Blank /\ ReadDot.now = Calculate(kconfig, Blank)
    BY <1>1 DEF ReadDot
  <2>2. IsAnswers(Blank)
    BY DEF IsAnswers, Blank
  <2> QED
    BY <2>1, <2>2, Calculated
<1>2. CASE dot # Missing
  BY <1>2, ReadFresh DEF ReadDot
<1> QED
  BY <1>1, <1>2

\* The answer that a bool has anyway changes no value,
LEMMA SameBool ==
  ASSUME NEW k \in Kconfigs, NEW u, IsAnswers(u), NEW n, Solves(k, u, n), NEW s \in Bools
  PROVE  Solves(k, Answered(u, s, n.cur[s]), n)
<1> DEFINE v == n.cur[s]
           w == Answered(u, s, v)
           C == IF IsValue(s) /\ v = "y" THEN Members(ChoiceOf[s]) \cap now.vis ELSE {}
<1>0. /\ w.val = [u.val EXCEPT ![s] = v] /\ w.has = u.has \cup {s} \cup C
      /\ w.pick = IF IsValue(s) /\ v = "y" THEN [u.pick EXCEPT ![ChoiceOf[s]] = s] ELSE u.pick
      /\ s \in Symbols /\ s \notin Strings /\ s \notin ChoiceSyms
  BY OrderAssumption DEF Answered, Symbols
<1>1. \A t \in C : IsValue(t)
  BY MembersAre
<1>2. n.vis = Lit(k, n) /\ n.sel = Selected(k, n) /\ \A t \in All : n.cur[t] = Value(k, u, n, t)
  BY DEF Solves
<1> HIDE DEF w, C
<1>3. ASSUME NEW t \in Symbols, ~IsValue(t), t \in n.vis
      PROVE  IF t \in w.has
             THEN IF t \in Strings THEN n.cur[t] = w.val[t] ELSE n.cur[t] = "y" <=> (w.val[t] = "y" \/ t \in n.sel)
             ELSE t \notin u.has
  <2>1. t \in All /\ t \notin ChoiceSyms /\ (t \in Strings \/ (t \in Bools /\ t \notin Strings))
    BY OrderAssumption DEF Symbols, All
  <2>2. CASE t = s
    <3>1. w.val[t] = n.cur[t] /\ t \in w.has /\ t \notin Strings
      BY <1>0, <2>2 DEF IsAnswers
    <3>2. t \in n.sel => n.cur[t] = "y"
      BY <1>2, <1>3, <2>1, <3>1 DEF Value
    <3> QED
      BY <3>1, <3>2
  <2>3. CASE t # s
    <3>1. w.val[t] = u.val[t] /\ (t \in w.has <=> t \in u.has)
      BY <1>0, <1>1, <1>3, <2>3 DEF IsAnswers
    <3>2. CASE t \in Strings
      BY <1>2, <1>3, <2>1, <3>1, <3>2 DEF Value
    <3>3. CASE t \notin Strings /\ t \in u.has
      <4>1. n.cur[t] = IF u.val[t] = "y" \/ t \in Selected(k, n) THEN "y" ELSE "n"
        BY <1>2, <1>3, <2>1, <3>3 DEF Value
      <4> QED
        BY <1>2, <3>1, <3>3, <4>1
    <3>4. CASE t \notin u.has
      BY <3>1, <3>4
    <3> QED
      BY <3>2, <3>3, <3>4
  <2> QED
    BY <2>2, <2>3
<1>4. ASSUME NEW c \in ChoiceSyms
      PROVE  \/ w.pick[c] = n.cur[c]
             \/ n.cur[c] = ChoiceDefault(k, c, n.cur) /\ w.pick[c] \notin VisibleMembers(k, c, n.cur)
  <2>1. CASE IsValue(s) /\ v = "y" /\ c = ChoiceOf[s]
    <3>1. w.pick[c] = s
      BY <1>0, <2>1 DEF IsAnswers
    <3>2. n.cur[c] = s
      BY <1>0, <2>1, ValueIs
    <3> QED
      BY <3>1, <3>2
  <2>2. CASE ~(IsValue(s) /\ v = "y" /\ c = ChoiceOf[s])
    <3>1. w.pick[c] = u.pick[c]
      BY <1>0, <2>2 DEF IsAnswers
    <3> QED
      BY <3>1, ChoiceIs
  <2> QED
    BY <2>1, <2>2
<1>5. Solves(k, w, n)
  BY <1>3, <1>4, SameAnswers
<1> QED
  BY <1>5 DEF w

\* ... nor does the text that a string has.
LEMMA SameString ==
  ASSUME NEW k \in Kconfigs, NEW u, IsAnswers(u), NEW n, Solves(k, u, n), NEW s \in Strings, NEW t,
         s \in n.vis => n.cur[s] = t
  PROVE  Solves(k, Entered(u, s, t), n)
<1> DEFINE w == Entered(u, s, t)
<1>0. /\ w.val = [u.val EXCEPT ![s] = t] /\ w.has = u.has \cup {s} /\ w.pick = u.pick /\ s \in Symbols
  BY DEF Entered, Symbols
<1>2. n.vis = Lit(k, n) /\ n.sel = Selected(k, n) /\ \A x \in All : n.cur[x] = Value(k, u, n, x)
  BY DEF Solves
<1> HIDE DEF w
<1>3. ASSUME NEW x \in Symbols, ~IsValue(x), x \in n.vis
      PROVE  IF x \in w.has
             THEN IF x \in Strings THEN n.cur[x] = w.val[x] ELSE n.cur[x] = "y" <=> (w.val[x] = "y" \/ x \in n.sel)
             ELSE x \notin u.has
  <2>1. x \in All /\ x \notin ChoiceSyms /\ (x \in Strings \/ (x \in Bools /\ x \notin Strings))
    BY OrderAssumption DEF Symbols, All
  <2>2. CASE x = s
    BY <1>0, <1>3, <2>2 DEF IsAnswers
  <2>3. CASE x # s
    <3>1. w.val[x] = u.val[x] /\ (x \in w.has <=> x \in u.has)
      BY <1>0, <2>3 DEF IsAnswers
    <3>2. CASE x \in Strings
      BY <1>2, <1>3, <2>1, <3>1, <3>2 DEF Value
    <3>3. CASE x \notin Strings /\ x \in u.has
      <4>1. n.cur[x] = IF u.val[x] = "y" \/ x \in Selected(k, n) THEN "y" ELSE "n"
        BY <1>2, <1>3, <2>1, <3>3 DEF Value
      <4> QED
        BY <1>2, <3>1, <3>3, <4>1
    <3>4. CASE x \notin u.has
      BY <3>1, <3>4
    <3> QED
      BY <3>2, <3>3, <3>4
  <2> QED
    BY <2>2, <2>3
<1>4. ASSUME NEW c \in ChoiceSyms
      PROVE  \/ w.pick[c] = n.cur[c]
             \/ n.cur[c] = ChoiceDefault(k, c, n.cur) /\ w.pick[c] \notin VisibleMembers(k, c, n.cur)
  BY <1>0, ChoiceIs
<1>5. Solves(k, w, n)
  BY <1>3, <1>4, SameAnswers
<1> QED
  BY <1>5 DEF w

IsCalculated(n) == n = [cur |-> n.cur, vis |-> n.vis, sel |-> n.sel, wr |-> n.wr]

LEMMA SolutionsAreCalculated ==
  ASSUME NEW k, NEW u, NEW n, Solves(k, u, n)
  PROVE  IsCalculated(n)
BY DEF Solves, IsCalculated

Shown == LET fresh == Calculate(kconfig, user) IN now.cur = fresh.cur /\ now.vis = fresh.vis

\* The menus only run in mconf, and whatever it does there they are fresh, up to
\* the marks that a write takes away.
FreshInv ==
    /\ Known
    /\ IsAnswers(user) /\ IsCalculated(now) /\ fails \in Nat
    /\ pc = "edit" => prog = "mconf"
    /\ prog = "mconf" => pc \in {"edit", "written", "moved"}
    /\ prog = "mconf" /\ ~LeftOver => Shown
    /\ pc = "edit" /\ ~LeftOver /\ changed /\ fails = 0 => now.wr = Calculate(kconfig, user).wr

LEMMA FreshStart == Init => FreshInv
<1> SUFFICES ASSUME Init PROVE FreshInv
  OBVIOUS
<1>1. IsAnswers(Blank) /\ IsCalculated(NotCalculated)
  BY DEF IsAnswers, Blank, IsCalculated, NotCalculated
<1> QED
  BY <1>1 DEF Init, FreshInv, Known

\* A program that ends, or has read what it is to read,
LEMMA FreshExit ==
  ASSUME FreshInv, Exit, kconfig' = kconfig, fails' \in Nat
  PROVE  FreshInv'
<1>1. IsAnswers(Blank) /\ IsCalculated(NotCalculated)
  BY DEF IsAnswers, Blank, IsCalculated, NotCalculated
<1>2. IsAnswers(user)' /\ IsCalculated(now)'
  BY <1>1 DEF Exit
<1> QED
  BY <1>2 DEF FreshInv, Exit, Known

LEMMA FreshLoad ==
  ASSUME FreshInv, NEW r, NEW p, NEW next, Load(r, p, next),
         Solves(kconfig, r.user, r.now), IsAnswers(r.user),
         \/ p = "mconf" /\ next = "edit"
         \/ p = "conf" /\ next = "write"
  PROVE  FreshInv'
<1>1. Calculate(kconfig, r.user) = r.now /\ IsCalculated(r.now)
  BY SolutionIs, SolutionsAreCalculated DEF FreshInv, Known
<1>2. /\ user' = r.user /\ now' = r.now /\ kconfig' = kconfig /\ fails' = fails /\ prog' = p /\ pc' = next
  BY DEF Load
<1>3. Shown' /\ now'.wr = Calculate(kconfig', user').wr
  BY <1>1, <1>2 DEF Shown
<1>4. IsAnswers(user)' /\ IsCalculated(now)'
  BY <1>1, <1>2
<1> QED
  BY <1>2, <1>3, <1>4 DEF FreshInv, Known

\* ... and an answer, new or not.
LEMMA FreshAnswer ==
  ASSUME FreshInv, Edit, NEW u, NEW new, Clear(u, new), IsAnswers(u),
         ~new /\ ~LeftOver' => ~LeftOver /\ Solves(kconfig, u, Calculate(kconfig, user))
  PROVE  FreshInv'
<1>1. /\ kconfig' = kconfig /\ fails' = fails /\ pc = "edit" /\ pc' = "edit" /\ prog' = prog /\ user' = u
      /\ prog = "mconf"
  BY DEF Edit, Clear, FreshInv
<1>2. IsAnswers(user)'
  BY <1>1
<1>3. CASE new
  <2>1. now' = Calculate(kconfig, u) /\ Solves(kconfig, u, now')
    BY <1>3, Calculated DEF Clear, FreshInv, Known
  <2>2. IsCalculated(now)'
    BY <2>1, SolutionsAreCalculated
  <2>3. Shown' /\ now'.wr = Calculate(kconfig', user').wr
    BY <1>1, <2>1 DEF Shown
  <2> QED
    BY <1>1, <1>2, <2>2, <2>3 DEF FreshInv, Known
<1>4. CASE ~new
  <2>1. now' = now /\ (changed' => changed)
    BY <1>4 DEF Clear
  <2>2. IsCalculated(now)'
    BY <2>1 DEF FreshInv
  <2>3. ASSUME ~LeftOver' PROVE ~LeftOver /\ Calculate(kconfig, u) = Calculate(kconfig, user)
    BY <1>4, <2>3, SolutionIs DEF FreshInv, Known
  <2>4. ASSUME ~LeftOver' PROVE Shown'
    BY <1>1, <2>1, <2>3, <2>4 DEF FreshInv, Shown
  <2>5. ASSUME ~LeftOver', changed', fails' = 0 PROVE now'.wr = Calculate(kconfig', user').wr
    BY <1>1, <2>1, <2>3, <2>5 DEF FreshInv
  <2> QED
    BY <1>1, <1>2, <2>2, <2>4, <2>5 DEF FreshInv, Known
<1> QED
  BY <1>3, <1>4

LEMMA FreshBool ==
  ASSUME FreshInv, NEW s \in Bools, NEW v \in {"y", "n"}, SetBool(s, v)
  PROVE  FreshInv'
<1> DEFINE u == Answered(user, s, v)
           fresh == Calculate(kconfig, user)
<1>1. Edit /\ Clear(u, v # now.cur[s])
  BY DEF SetBool
<1>2. /\ IsAnswers(u) /\ \A t \in Strings : (t \in u.has <=> t \in user.has) /\ u.val[t] = user.val[t]
  <2>1. /\ u.val = [user.val EXCEPT ![s] = v] /\ user.val = [t \in Symbols |-> user.val[t]]
        /\ user.pick = [c \in ChoiceSyms |-> user.pick[c]]
        /\ u.pick = IF IsValue(s) /\ v = "y" THEN [user.pick EXCEPT ![ChoiceOf[s]] = s] ELSE user.pick
        /\ u.has = user.has \cup {s} \cup IF IsValue(s) /\ v = "y" THEN Members(ChoiceOf[s]) \cap now.vis ELSE {}
    BY DEF Answered, FreshInv, IsAnswers
  <2>2. \A t \in Strings : t \in Symbols /\ t # s /\ \A c : t \notin Members(c)
    BY OrderAssumption DEF Symbols, Members
  <2>3. u.val = [t \in Symbols |-> u.val[t]] /\ u.pick = [c \in ChoiceSyms |-> u.pick[c]]
    BY <2>1
  <2> HIDE DEF u
  <2> QED
    BY <2>1, <2>2, <2>3 DEF IsAnswers
<1>3. ASSUME v = now.cur[s], ~LeftOver' PROVE ~LeftOver /\ Solves(kconfig, u, fresh)
  <2>1. user' = u /\ now' = now
    BY <1>1, <1>3 DEF Clear
  <2>2. ~LeftOver
    BY <1>2, <1>3, <2>1 DEF LeftOver
  <2>3. now.cur = fresh.cur
    BY <1>1, <2>2 DEF FreshInv, Shown, Edit
  <2>4. Solves(kconfig, user, fresh)
    BY Calculated DEF FreshInv, Known
  <2> HIDE DEF fresh
  <2>5. Solves(kconfig, Answered(user, s, fresh.cur[s]), fresh)
    BY <2>4, SameBool DEF FreshInv, Known
  <2> QED
    BY <1>3, <2>2, <2>3, <2>5
<1> QED
  BY <1>1, <1>2, <1>3, FreshAnswer

LEMMA FreshString ==
  ASSUME FreshInv, NEW s \in Strings, NEW t \in Texts, SetString(s, t)
  PROVE  FreshInv'
<1> DEFINE u == Entered(user, s, t)
           fresh == Calculate(kconfig, user)
<1>1. Edit /\ Clear(u, user.val[s] # t)
  BY DEF SetString
<1>2. /\ u.val = [user.val EXCEPT ![s] = t] /\ user.val = [x \in Symbols |-> user.val[x]]
      /\ u.has = user.has \cup {s} /\ u.pick = user.pick /\ user.pick = [c \in ChoiceSyms |-> user.pick[c]]
      /\ s \in Symbols
  BY DEF Entered, FreshInv, IsAnswers, Symbols
<1> HIDE DEF u
<1>3. IsAnswers(u)
  BY <1>2 DEF IsAnswers
<1>4. ASSUME user.val[s] = t, ~LeftOver' PROVE ~LeftOver /\ Solves(kconfig, u, fresh)
  <2>1. user' = u /\ now' = now
    BY <1>1, <1>4 DEF Clear
  <2>2. u.val = user.val
    BY <1>2, <1>4
  <2>3. ~LeftOver
    BY <1>2, <1>4, <2>1, <2>2 DEF LeftOver
  <2>4. now.cur = fresh.cur /\ now.vis = fresh.vis
    BY <1>1, <2>3 DEF FreshInv, Shown, Edit
  <2>5. s \in now.vis => now.cur[s] = t
    BY <1>2, <1>4, <2>1, <2>2 DEF LeftOver
  <2>6. Solves(kconfig, user, fresh)
    BY Calculated DEF FreshInv, Known
  <2> HIDE DEF fresh
  <2>7. Solves(kconfig, Entered(user, s, t), fresh)
    BY <2>4, <2>5, <2>6, SameString DEF FreshInv, Known
  <2> QED
    BY <2>3, <2>7 DEF u
<1> QED
  BY <1>1, <1>3, <1>4, FreshAnswer

\* What conf_write calculates again is what the answers come to.
LEMMA FreshWrite ==
  ASSUME FreshInv, Write
  PROVE  FreshInv'
<1> DEFINE w == ToWrite
<1>1. /\ kconfig' = kconfig /\ fails' = fails /\ pc' = "written" /\ prog' = prog /\ user' = user
      /\ now' = [w EXCEPT !.wr = {}]
  BY DEF Write, files, bounds
<1>2. IsCalculated(w) /\ (changed => w = now) /\ (~changed => w = Calculate(kconfig, user))
  BY Calculated, SolutionsAreCalculated DEF ToWrite, FreshInv, Known
<1> HIDE DEF w
<1>3. IsCalculated(now)' /\ now'.cur = w.cur /\ now'.vis = w.vis
  BY <1>1, <1>2 DEF IsCalculated
<1>4. ASSUME prog' = "mconf", ~LeftOver' PROVE Shown'
  <2>1. CASE changed
    BY <1>1, <1>2, <1>3, <1>4, <2>1 DEF FreshInv, LeftOver, Shown
  <2>2. CASE ~changed
    BY <1>1, <1>2, <1>3, <2>2 DEF Shown
  <2> QED
    BY <2>1, <2>2
<1>5. IsAnswers(user)'
  BY <1>1 DEF FreshInv
<1> QED
  BY <1>1, <1>3, <1>4, <1>5 DEF FreshInv, Known

LEMMA FreshStep == FreshInv /\ [Next]_vars => FreshInv'
<1> SUFFICES ASSUME FreshInv, [Next]_vars PROVE FreshInv'
  OBVIOUS
<1>1. CASE Menuconfig
  BY <1>1, FreshLoad, DotFresh DEF Menuconfig, FreshInv, Known
<1>2. CASE OldDefconfig
  BY <1>2, FreshLoad, DotFresh DEF OldDefconfig, FreshInv, Known
<1>3. CASE Defconfig
  <2> DEFINE r == Read(kconfig, defc)
             q == [r EXCEPT !.now = Calculate(kconfig, r.user), !.changed = TRUE]
  <2>1. r.user = q.user /\ q.now = Calculate(kconfig, r.user)
    BY DEF Read
  <2>2. Load(q, "conf", "write")
    BY <1>3 DEF Defconfig
  <2>3. IsAnswers(r.user)
    BY ReadFresh DEF FreshInv, Known
  <2> HIDE DEF q, r
  <2>4. Solves(kconfig, q.user, q.now)
    BY <2>1, Calculated DEF FreshInv, Known
  <2> QED
    BY <2>1, <2>2, <2>3, <2>4, FreshLoad
<1>4. CASE SaveDefconfig
  <2> DEFINE r == ReadDot
  <2>1. /\ user' = r.user /\ now' = r.now /\ kconfig' = kconfig /\ fails' = fails /\ prog' = prog
        /\ pc = "idle" /\ pc' = "defconfig"
    BY <1>4 DEF SaveDefconfig
  <2>2. Solves(kconfig, r.user, r.now) /\ IsAnswers(r.user)
    BY DotFresh DEF FreshInv, Known
  <2> HIDE DEF r
  <2>3. IsAnswers(user)' /\ IsCalculated(now)'
    BY <2>1, <2>2, SolutionsAreCalculated
  <2> QED
    BY <2>1, <2>3 DEF FreshInv, Known
<1>5. CASE EndSaveDefconfig
  BY <1>5, FreshExit DEF EndSaveDefconfig, bounds, FreshInv
<1>6. CASE \E s \in Bools, v \in {"y", "n"} : SetBool(s, v)
  BY <1>6, FreshBool
<1>7. CASE \E s \in Strings, t \in Texts : SetString(s, t)
  BY <1>7, FreshString
<1>8. CASE Write
  BY <1>8, FreshWrite
<1>9. CASE MoveOld
  <2>1. /\ kconfig' = kconfig /\ fails' = fails /\ pc' = "moved" /\ prog' = prog /\ user' = user /\ now' = now
    BY <1>9 DEF MoveOld, bounds
  <2> QED
    BY <2>1 DEF FreshInv, Known, LeftOver, Shown
<1>10. CASE MoveNew
  <2>1. CASE prog = "mconf"
    <3>1. /\ kconfig' = kconfig /\ fails' = fails /\ pc' = "edit" /\ prog' = prog /\ user' = user /\ now' = now
          /\ changed' = FALSE
      BY <1>10, <2>1 DEF MoveNew, Replace, GoOn, bounds
    <3> QED
      BY <2>1, <3>1 DEF FreshInv, Known, LeftOver, Shown
  <2>2. CASE prog # "mconf"
    BY <1>10, <2>2, FreshExit DEF MoveNew, Replace, bounds, FreshInv
  <2> QED
    BY <2>1, <2>2
<1>11. CASE MoveNewFails
  <2>1. fails' \in Nat /\ fails' # 0 /\ kconfig' = kconfig
    BY <1>11 DEF MoveNewFails, FreshInv
  <2>2. CASE prog = "mconf"
    <3>1. pc' = "edit" /\ prog' = prog /\ user' = user /\ now' = now
      BY <1>11, <2>2 DEF MoveNewFails
    <3> QED
      BY <2>1, <2>2, <3>1 DEF FreshInv, Known, LeftOver, Shown
  <2>3. CASE prog # "mconf"
    BY <1>11, <2>1, <2>3, FreshExit DEF MoveNewFails
  <2> QED
    BY <2>2, <2>3
<1>12. CASE Quit
  BY <1>12, FreshExit DEF Quit, bounds, FreshInv
<1>13. CASE Kill
  BY <1>13, FreshExit DEF Kill, FreshInv
<1>14. CASE Upgrade
  BY <1>14 DEF Upgrade, bounds, FreshInv, Known
<1>15. CASE UNCHANGED vars
  BY <1>15 DEF vars, bounds, FreshInv, Known, LeftOver, Shown
<1> QED
  BY <1>1, <1>2, <1>3, <1>4, <1>5, <1>6, <1>7, <1>8, <1>9, <1>10, <1>11, <1>12, <1>13, <1>14, <1>15 DEF Next

\* The menus show what the answers come to, for all Config.in files and all
\* answers, although little is ever calculated again.
THEOREM MenusAreFresh == Spec => []CacheFresh
<1>1. FreshInv => CacheFresh
  BY DEF FreshInv, CacheFresh, Shown
<1> QED
  BY <1>1, FreshStart, FreshStep, PTL DEF Spec

-----------------------------------------------------------------------------
(* The tree of menus is walked by recursion: Visible and Marked are        *)
(* instances of what is said above of a recursion along a founded relation.*)

Lists == [x \in Entries |-> ToSet(Children[x])]

LEMMA ListsFounded == Lists \in [Entries -> SUBSET Entries] /\ Founded(Entries, Lists)
<1>1. \A x \in Entries : ToSet(Children[x]) \subseteq Entries
  BY TreeAssumption DEF ToSet
<1> QED
  BY <1>1, TreeAssumption DEF Lists, Founded

IsVisible(n, f) ==
    f = [x \in Entries |->
            /\ x \in Prompted /\ Holds(VisibleIf[x], n.cur)
            /\ \/ PromptVisible(x, n)
               \/ IsYes(x, n) /\ \E c \in ToSet(Children[x]) : f[c]]

LEMMA VisibleIs ==
  ASSUME NEW n, NEW e \in Entries
  PROVE  Visible(e, n) <=> /\ e \in Prompted /\ Holds(VisibleIf[e], n.cur)
                           /\ \/ PromptVisible(e, n)
                              \/ IsYes(e, n) /\ \E c \in ToSet(Children[e]) : Visible(c, n)
<1> DEFINE P(x) == x \in Prompted /\ Holds(VisibleIf[x], n.cur)
           Q(x) == PromptVisible(x, n)
           R(x) == IsYes(x, n)
           H == [x \in Entries |-> [f \in [Entries -> BOOLEAN] |->
                    P(x) /\ (Q(x) \/ (R(x) /\ \E c \in Lists[x] : f[c]))]]
           fn == CHOOSE f : IsVisible(n, f)
<1>1. \E f \in [Entries -> BOOLEAN] : \A x \in Entries : f[x] = H[x][f]
  <2>1. H \in [Entries -> [[Entries -> BOOLEAN] -> BOOLEAN]]
    OBVIOUS
  <2>2. Local(Entries, Lists, BOOLEAN, H)
    <3> SUFFICES ASSUME NEW x \in Entries, NEW f \in [Entries -> BOOLEAN], NEW g \in [Entries -> BOOLEAN],
                        \A y \in Lists[x] : f[y] = g[y]
                 PROVE  H[x][f] = H[x][g]
      BY DEF Local
    <3> HIDE DEF P, Q, R
    <3> QED
      OBVIOUS
  <2> DEFINE V == BOOLEAN
             v == TRUE
  <2>3. v \in V
    OBVIOUS
  <2>4. Recursion(Entries, Lists, BOOLEAN, H)
    BY <2>1, <2>2, ListsFounded DEF Recursion
  <2> HIDE DEF H, V, v
  <2>5. Ends(Entries, V, H)
    BY <2>3, <2>4, TreeRecursion DEF V
  <2> QED
    BY <2>5 DEF Ends, V
<1>2. PICK g \in [Entries -> BOOLEAN] : \A x \in Entries : g[x] = H[x][g]
  BY <1>1
<1>3. \A x \in Entries : g[x] = (P(x) /\ (Q(x) \/ (R(x) /\ \E c \in ToSet(Children[x]) : g[c])))
  <2> HIDE DEF P, Q, R
  <2> QED
    BY <1>2 DEF Lists
<1>4. IsVisible(n, g)
  <2>1. g = [x \in Entries |-> g[x]]
    OBVIOUS
  <2> QED
    BY <1>3, <2>1 DEF IsVisible
<1>5. IsVisible(n, fn)
  BY <1>4
<1>6. \A x : Visible(x, n) = fn[x]
  BY DEF Visible, IsVisible
<1> HIDE DEF fn
<1>7. fn[e] = (P(e) /\ (Q(e) \/ (R(e) /\ \E c \in ToSet(Children[e]) : fn[c])))
  BY <1>5 DEF IsVisible
<1> QED
  BY <1>6, <1>7

LEMMA LookedThroughIn ==
  ASSUME NEW n, NEW e \in Entries
  PROVE  LookedThrough(e, n) \subseteq ToSet(Children[e])
<1> DEFINE L == Children[e]
           first == {i \in DOMAIN L : Visible(L[i], n)}
<1>1. L \in Seq(Entries)
  BY TreeAssumption
<1>2. (IF first = {} THEN Len(L) ELSE Min(first)) \in DOMAIN L \cup {0}
  <2>1. CASE first = {}
    BY <1>1, <2>1
  <2>2. CASE first # {}
    <3>1. first \in SUBSET Nat
      BY <1>1
    <3> HIDE DEF first
    <3>2. \E i \in first : \A j \in first : i <= j
      BY <2>2, <3>1, LeastOf
    <3>3. Min(first) \in first
      BY <3>2 DEF Min
    <3> QED
      BY <2>2, <3>3 DEF first
  <2> QED
    BY <2>1, <2>2
<1> HIDE DEF first
<1> QED
  BY <1>1, <1>2 DEF LookedThrough, ToSet, first

IsMarked(n, f) ==
    f = [x \in Entries |->
            IF x \notin Prompted \/ PromptVisible(x, n) \/ ~IsYes(x, n) \/ ~Holds(VisibleIf[x], n.cur) THEN {}
            ELSE (UNION {f[c] : c \in LookedThrough(x, n)})
                 \cup IF Visible(x, n) THEN {SymOf[x]} \cap Symbols ELSE {}]

\* What shows without a look at what is below it is not marked.
LEMMA MarkedIs ==
  ASSUME NEW n, NEW e \in Entries
  PROVE  \A s \in Marked(e, n) : \/ \E c \in ToSet(Children[e]) : s \in Marked(c, n)
                                 \/ s = SymOf[e] /\ s \in Bools /\ ~PromptVisible(e, n)
<1> DEFINE V == SUBSET Symbols
           P(x) == x \notin Prompted \/ PromptVisible(x, n) \/ ~IsYes(x, n) \/ ~Holds(VisibleIf[x], n.cur)
           T(x) == LookedThrough(x, n)
           O(x) == IF Visible(x, n) THEN {SymOf[x]} \cap Symbols ELSE {}
           H == [x \in Entries |-> [f \in [Entries -> V] |->
                    IF P(x) THEN {} ELSE (UNION {f[c] : c \in T(x)}) \cup O(x)]]
           fn == CHOOSE f : IsMarked(n, f)
<1>0. \A x \in Entries : T(x) \subseteq Lists[x] /\ Lists[x] \subseteq Entries /\ O(x) \subseteq Symbols
  BY LookedThroughIn, ListsFounded DEF Lists
<1>1. \E f \in [Entries -> V] : \A x \in Entries : f[x] = H[x][f]
  <2> HIDE DEF P, T, O
  <2>1. H \in [Entries -> [[Entries -> V] -> V]]
    <3>1. ASSUME NEW x \in Entries, NEW f \in [Entries -> V]
          PROVE  (IF P(x) THEN {} ELSE (UNION {f[c] : c \in T(x)}) \cup O(x)) \in V
      <4>1. \A c \in T(x) : f[c] \in SUBSET Symbols
        BY <1>0
      <4>2. UNION {f[c] : c \in T(x)} \subseteq Symbols
        BY <4>1
      <4>3. O(x) \subseteq Symbols
        BY <1>0
      <4> DEFINE A == UNION {f[c] : c \in T(x)}
      <4> HIDE DEF A
      <4>4. A \cup O(x) \subseteq Symbols
        BY <4>2, <4>3 DEF A
      <4> QED
        BY <4>4 DEF A
    <3> QED
      BY <3>1
  <2>2. Local(Entries, Lists, V, H)
    <3> SUFFICES ASSUME NEW x \in Entries, NEW f \in [Entries -> V], NEW g \in [Entries -> V],
                        \A y \in Lists[x] : f[y] = g[y]
                 PROVE  H[x][f] = H[x][g]
      BY DEF Local
    <3>1. {f[c] : c \in T(x)} = {g[c] : c \in T(x)}
      BY <1>0
    <3> QED
      BY <3>1
  <2>3. {} \in V
    OBVIOUS
  <2> HIDE DEF H, V
  <2>4. Recursion(Entries, Lists, V, H)
    BY <2>1, <2>2, ListsFounded DEF Recursion
  <2>5. Ends(Entries, V, H)
    BY <2>3, <2>4, TreeRecursion
  <2> QED
    BY <2>5 DEF Ends
<1>2. PICK g \in [Entries -> V] : \A x \in Entries : g[x] = H[x][g]
  BY <1>1
<1>3. \A x \in Entries : g[x] = IF P(x) THEN {} ELSE (UNION {g[c] : c \in T(x)}) \cup O(x)
  <2> HIDE DEF P, T, O
  <2> QED
    BY <1>2
<1>4. IsMarked(n, g)
  <2>1. g = [x \in Entries |-> g[x]]
    OBVIOUS
  <2> QED
    BY <1>3, <2>1 DEF IsMarked
<1>5. IsMarked(n, fn)
  BY <1>4
<1>6. \A x : Marked(x, n) = fn[x]
  BY DEF Marked, IsMarked
<1> HIDE DEF fn
<1>7. fn[e] = IF P(e) THEN {} ELSE (UNION {fn[c] : c \in T(e)}) \cup O(e)
  BY <1>5 DEF IsMarked
<1>8. ASSUME NEW s \in fn[e]
      PROVE  (\E c \in Lists[e] : s \in fn[c]) \/ (s = SymOf[e] /\ s \in Bools /\ ~PromptVisible(e, n))
  <2> DEFINE A == UNION {fn[c] : c \in T(e)}
  <2>0. fn[e] = IF P(e) THEN {} ELSE A \cup O(e)
    BY <1>7
  <2> HIDE DEF A
  <2>1. ~P(e) /\ (s \in A \/ s \in O(e))
    <3> HIDE DEF P, O
    <3> QED
      BY <1>8, <2>0
  <2>2. CASE s \in O(e)
    <3>1. s = SymOf[e] /\ s \in Symbols /\ IsYes(e, n) /\ ~PromptVisible(e, n)
      BY <2>1, <2>2
    <3>2. s \in Bools
      BY <3>1, ChoiceAssumption, OrderAssumption DEF IsYes
    <3> QED
      BY <3>1, <3>2
  <2>3. CASE s \in A
    BY <1>0, <2>3 DEF A
  <2> QED
    BY <2>1, <2>2, <2>3
<1>9. Lists[e] = ToSet(Children[e])
  BY DEF Lists
<1> HIDE DEF P, T, O, V, H
<1>10. ASSUME NEW s \in Marked(e, n)
       PROVE  \/ \E c \in ToSet(Children[e]) : s \in Marked(c, n)
              \/ s = SymOf[e] /\ s \in Bools /\ ~PromptVisible(e, n)
  BY <1>6, <1>8, <1>9, <1>10
<1> QED
  BY <1>10

\* No string, and nothing that shows by itself, is ever marked.
LEMMA MarkedHidden ==
  ASSUME NEW n, NEW e \in Entries
  PROVE  Marked(e, n) \subseteq Bools \ n.vis
<1> DEFINE S == {x \in Entries : ~(Marked(x, n) \subseteq Bools \ n.vis)}
<1> SUFFICES ASSUME S # {} PROVE FALSE
  OBVIOUS
<1>1. PICK x \in S : Lists[x] \cap S = {}
  BY ListsFounded DEF Founded
<1>2. PICK s \in Marked(x, n) : s \notin Bools \ n.vis
  BY <1>1
<1>3. CASE \E c \in ToSet(Children[x]) : s \in Marked(c, n)
  BY <1>1, <1>2, <1>3, ListsFounded DEF Lists
<1>4. CASE s = SymOf[x] /\ s \in Bools /\ ~PromptVisible(x, n)
  <2>1. SymOf[x] \in Symbols /\ SymOf[x] \notin ChoiceSyms
    BY <1>4, OrderAssumption DEF Symbols
  <2> QED
    BY <1>2, <1>4, <2>1 DEF PromptVisible
<1> QED
  BY <1>2, <1>3, <1>4, MarkedIs

(* The menu that an entry is in *)

LEMMA ParentIs ==
  ASSUME NEW e \in Entries \ {Root}
  PROVE  Parent[e] \in Entries /\ e \in ToSet(Children[Parent[e]])
<1>1. \E p \in Entries : e \in ToSet(Children[p])
  BY TreeAssumption
<1> QED
  BY <1>1 DEF Parent

Upward == [x \in Entries |-> IF x = Root THEN {} ELSE {Parent[x]}]
IsMenuOf(f) == f = [x \in Entries |-> IF x = Root \/ Kind[x] \in {"menu", "menuconfig"} THEN x ELSE f[ParentOf(x)]]

LEMMA MenuOfIn ==
  ASSUME NEW e \in Entries
  PROVE  MenuOf(e) \in Entries
<1> DEFINE P(x) == x = Root \/ Kind[x] \in {"menu", "menuconfig"}
           H == [x \in Entries |-> [f \in [Entries -> Entries] |-> IF P(x) THEN x ELSE f[ParentOf(x)]]]
           fn == CHOOSE f : IsMenuOf(f)
<1>0. \A x \in Entries \ {Root} : Parent[x] \in Entries
  BY ParentIs
<1>1. Upward \in [Entries -> SUBSET Entries]
  BY <1>0 DEF Upward
<1>2. Founded(Entries, Upward)
  <2> SUFFICES ASSUME NEW S \in SUBSET Entries, S # {} PROVE \E e_1 \in S : Upward[e_1] \cap S = {}
    BY DEF Founded
  <2>1. CASE Root \in S
    BY <2>1 DEF Upward
  <2>2. CASE Root \notin S
    <3>1. S \in SUBSET (Entries \ {Root})
      BY <2>2
    <3>2. PICK x \in S : Parent[x] \notin S
      BY <3>1, TreeAssumption
    <3> QED
      BY <3>1, <3>2 DEF Upward
  <2> QED
    BY <2>1, <2>2
<1>3. Ends(Entries, Entries, H)
  <2>1. Recursion(Entries, Upward, Entries, H)
    <3>1. H \in [Entries -> [[Entries -> Entries] -> Entries]]
      BY <1>0 DEF ParentOf
    <3>2. Local(Entries, Upward, Entries, H)
      <4> SUFFICES ASSUME NEW x \in Entries, NEW f \in [Entries -> Entries], NEW g \in [Entries -> Entries],
                          \A y \in Upward[x] : f[y] = g[y]
                   PROVE  H[x][f] = H[x][g]
        BY DEF Local
      <4> QED
        BY DEF Upward, ParentOf
    <3> QED
      BY <1>1, <1>2, <3>1, <3>2 DEF Recursion
  <2>2. Root \in Entries
    BY TreeAssumption
  <2> HIDE DEF H
  <2> QED
    BY <2>1, <2>2, TreeRecursion
<1>4. PICK g \in [Entries -> Entries] : \A x \in Entries : g[x] = H[x][g]
  BY <1>3 DEF Ends
<1>5. IsMenuOf(g)
  <2>1. g = [x \in Entries |-> g[x]] /\ \A x \in Entries : g[x] = IF P(x) THEN x ELSE g[ParentOf(x)]
    BY <1>4
  <2> QED
    BY <2>1 DEF IsMenuOf
<1>6. IsMenuOf(fn)
  BY <1>5
<1>7. MenuOf(e) = fn[e]
  BY DEF MenuOf, IsMenuOf
<1> HIDE DEF fn
<1> DEFINE S == {x \in Entries : fn[x] \notin Entries}
<1>8. S = {}
  <2> SUFFICES ASSUME S # {} PROVE FALSE
    OBVIOUS
  <2>1. PICK x \in S : Upward[x] \cap S = {}
    BY <1>2 DEF Founded
  <2>2. fn[x] = IF P(x) THEN x ELSE fn[ParentOf(x)]
    BY <1>6, <2>1 DEF IsMenuOf
  <2>3. ~P(x) /\ x # Root /\ Parent[x] \in Entries /\ fn[Parent[x]] \notin Entries
    BY <1>0, <2>1, <2>2 DEF ParentOf
  <2> QED
    BY <2>1, <2>3 DEF Upward
<1> QED
  BY <1>7, <1>8
=============================================================================
