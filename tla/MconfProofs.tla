----------------------------- MODULE MconfProofs -----------------------------
(***************************************************************************)
(* Proofs about make menuconfig, for every tree of menus, all Config.in    *)
(* files, terminals and texts: the boxes stay in step with themselves, and *)
(* what is changed is what was on the screen.                              *)
(***************************************************************************)
EXTENDS Mconf, KconfigSymProofs

(* The rows of a menu *)

Tags == {"m", "t", "s", ":", "X", " "}
Hots == {Hot[e] : e \in Entries} \cup {Initial[e] : e \in Entries} \cup {"*"}
Items == {i \in [data : Entries, tag : Tags, hot : Hots] : i.tag = "s" => SymOf[i.data] \in Strings}

\* What b is like as long as it is not drawn anew.
MenuLike(b) ==
    [ kind : {"menu"}, res : {b.res, "crash"}, items : {b.items}, selected : {b.selected}, saved : {b.saved},
      button : {b.button}, max : {b.max}, scroll : Nat, choice : Nat, first : {b.first}, at : {b.at},
      screen : [0 .. b.max - 1 -> Int], lit : SUBSET Int, redrawn : {b.redrawn} ]

MenuFits(b) ==
    /\ Len(b.items) \in Nat /\ b.max \in 0 .. Count(b) /\ (Count(b) # 0 => b.max # 0)
    /\ b.scroll + b.max <= Count(b)
    /\ IF Count(b) = 0 THEN b.choice = 0 ELSE b.choice < b.max

Clean(b, lit) ==
    /\ b.res # "crash" /\ b.lit = lit
    /\ b.screen = [row \in 0 .. b.max - 1 |-> b.scroll + row]

LEMMA MenuPrint ==
  ASSUME NEW b, NEW c \in MenuLike(b), NEW item \in Int, NEW row \in Int, NEW selected \in BOOLEAN
  PROVE  /\ PrintItem(c, item, row, selected) \in MenuLike(b)
         /\ LET d == PrintItem(c, item, row, selected) IN d.scroll = c.scroll /\ d.choice = c.choice
<1> DEFINE d == [c EXCEPT !.screen[row] = item, !.lit = IF selected THEN @ \cup {row} ELSE @ \ {row}]
           e == [c EXCEPT !.res = "crash"]
<1>1. d \in MenuLike(b) /\ d.scroll = c.scroll /\ d.choice = c.choice
  BY DEF MenuLike
<1>2. e \in MenuLike(b) /\ e.scroll = c.scroll /\ e.choice = c.choice
  BY DEF MenuLike
<1> QED
  BY <1>1, <1>2 DEF PrintItem

\* The rows are printed one after the other.
Cleared(b) == [b EXCEPT !.screen = [row \in 0 .. b.max - 1 |-> Blank0], !.lit = {}]
Draws(b, first, f) ==
    f = [i \in 0 .. b.max |->
            IF i = 0 THEN Cleared(b)
            ELSE LET c == f[i - 1]
                 IN  IF c.res = "crash" THEN c ELSE PrintItem(c, first + i - 1, i - 1, i - 1 = b.choice)]

PrintsIn(V) == \A c \in V : \A item, row \in Int : \A selected \in BOOLEAN : PrintItem(c, item, row, selected) \in V
Drawn(b, first, V, f) ==
    /\ f \in [0 .. b.max -> V] /\ f[0] = Cleared(b) /\ DrawRows(b, first) = f[b.max]
    /\ \A i \in 1 .. b.max :
           f[i] = IF f[i - 1].res = "crash" THEN f[i - 1]
                  ELSE PrintItem(f[i - 1], first + i - 1, i - 1, i - 1 = b.choice)

LEMMA DrawLoop ==
  ASSUME NEW b, NEW first \in Int, b.max \in Nat, NEW V, Cleared(b) \in V, PrintsIn(V)
  PROVE  \E f : Drawn(b, first, V, f)
<1> DEFINE next(c, i) == IF c.res = "crash" THEN c ELSE PrintItem(c, first + i - 1, i - 1, i - 1 = b.choice)
           R == [i \in 1 .. b.max |-> [c \in V |-> next(c, i)]]
           v == Cleared(b)
           n == b.max
           fn == CHOOSE f : Draws(b, first, f)
<1>1. R \in [1 .. n -> [V -> V]]
  <2>1. \A i \in 1 .. n : \A c \in V : next(c, i) \in V
    <3> TAKE i \in 1 .. n
    <3> TAKE c \in V
    <3>1. first + i - 1 \in Int /\ i - 1 \in Int /\ (i - 1 = b.choice) \in BOOLEAN
      OBVIOUS
    <3>2. PrintItem(c, first + i - 1, i - 1, i - 1 = b.choice) \in V
      BY <3>1 DEF PrintsIn
    <3> QED
      BY <3>2
  <2> HIDE DEF next
  <2> QED
    BY <2>1
<1>2. PICK g \in [0 .. n -> V] : g[0] = v /\ \A i \in 1 .. n : g[i] = R[i][g[i - 1]]
  <2>1. n \in Nat /\ v \in V /\ Rounds(n, V, R)
    BY <1>1 DEF Rounds
  <2> HIDE DEF R, n, v
  <2>2. LoopFrom(n, V, v, R)
    BY <2>1, LoopEnds
  <2> QED
    BY <2>2 DEF LoopFrom
<1>3. \A i \in 1 .. n : g[i] = next(g[i - 1], i)
  <2> TAKE i \in 1 .. n
  <2>1. g[i - 1] \in V
    BY <1>2
  <2>2. g[i] = R[i][g[i - 1]]
    BY <1>2
  <2> HIDE DEF next
  <2> QED
    BY <2>1, <2>2
<1>4. g = [i \in 0 .. n |-> IF i = 0 THEN v ELSE next(g[i - 1], i)]
  <2>1. g = [i \in 0 .. n |-> g[i]]
    OBVIOUS
  <2>2. \A i \in 0 .. n : g[i] = IF i = 0 THEN v ELSE next(g[i - 1], i)
    <3> HIDE DEF next, v
    <3> QED
      BY <1>2, <1>3
  <2> HIDE DEF next, v
  <2> QED
    BY <2>1, <2>2
<1>5. Draws(b, first, g)
  BY <1>4 DEF Draws
<1>6. Draws(b, first, fn)
  BY <1>5
<1>7. DrawRows(b, first) = fn[n]
  BY DEF DrawRows, Draws, Cleared
<1> HIDE DEF fn
<1>8. fn[0] = v /\ \A i \in 1 .. n : fn[i] = next(fn[i - 1], i)
  <2>1. fn = [i \in 0 .. n |-> IF i = 0 THEN v ELSE next(fn[i - 1], i)]
    BY <1>6 DEF Draws
  <2> HIDE DEF next, v
  <2> QED
    BY <2>1
<1>9. fn \in [0 .. n -> V]
  <2>1. \A i \in 1 .. n : fn[i - 1] \in V => fn[i] = R[i][fn[i - 1]]
    <3> SUFFICES ASSUME NEW i \in 1 .. n, fn[i - 1] \in V PROVE fn[i] = R[i][fn[i - 1]]
      OBVIOUS
    <3>1. fn[i] = next(fn[i - 1], i)
      BY <1>8
    <3> HIDE DEF next
    <3> QED
      BY <3>1
  <2>2. fn[0] \in V /\ n \in Nat /\ Rounds(n, V, R)
    BY <1>1, <1>8 DEF Rounds
  <2> HIDE DEF R, n, next
  <2>3. \A i \in 0 .. n : fn[i] \in V
    BY <2>1, <2>2, LoopStays
  <2>4. fn = [i \in 0 .. n |-> fn[i]]
    BY <1>6 DEF Draws, n
  <2> QED
    BY <2>3, <2>4
<1> QED
  BY <1>7, <1>8, <1>9 DEF Drawn

\* What it comes to when there are items for all rows
LEMMA RowsDrawn ==
  ASSUME NEW b, NEW first \in Nat, b.max \in Nat, Len(b.items) \in Nat, first + b.max <= Count(b),
         NEW V, NEW f, Drawn(b, first, V, f),
         \A c \in V : {"res", "screen", "lit"} \subseteq DOMAIN c /\ c.items = b.items,
         Cleared(b).res # "crash",
         Cleared(b).screen = [row \in 0 .. b.max - 1 |-> Blank0], Cleared(b).lit = {}
  PROVE  LET d == DrawRows(b, first)
         IN  /\ d.res = Cleared(b).res
             /\ d.screen = [row \in 0 .. b.max - 1 |-> first + row]
             /\ d.lit = {b.choice} \cap (0 .. b.max - 1)
<1>0. /\ f[0] = Cleared(b) /\ DrawRows(b, first) = f[b.max]
      /\ f[0].res # "crash" /\ f[0].screen = [row \in 0 .. b.max - 1 |-> Blank0] /\ f[0].lit = {}
      /\ \A i \in 0 .. b.max : {"res", "screen", "lit"} \subseteq DOMAIN f[i] /\ f[i].items = b.items
      /\ \A i \in 1 .. b.max : f[i] = IF f[i - 1].res = "crash" THEN f[i - 1]
                                      ELSE PrintItem(f[i - 1], first + i - 1, i - 1, i - 1 = b.choice)
  BY DEF Drawn
<1> DEFINE Upto(i) == [row \in 0 .. b.max - 1 |-> IF row < i THEN first + row ELSE Blank0]
           Through(i) == f[i].res = f[0].res /\ f[i].screen = Upto(i) /\ f[i].lit = {b.choice} \cap (0 .. i - 1)
           S == {i \in 0 .. b.max : ~Through(i)}
<1>1. S = {}
  <2> SUFFICES ASSUME S # {} PROVE FALSE
    OBVIOUS
  <2>1. PICK i \in S : \A j \in S : i <= j
    <3>1. S \in SUBSET Nat
      OBVIOUS
    <3> HIDE DEF S
    <3> QED
      BY <3>1, LeastOf
  <2>2. Through(0)
    <3>1. Upto(0) = [row \in 0 .. b.max - 1 |-> Blank0]
      OBVIOUS
    <3>2. {b.choice} \cap (0 .. 0 - 1) = {}
      OBVIOUS
    <3> HIDE DEF Upto
    <3> QED
      BY <1>0, <3>1, <3>2
  <2>3. i \in 1 .. b.max /\ i - 1 \in 0 .. b.max /\ i - 1 \notin S
    <3>1. i \in 0 .. b.max /\ i # 0 /\ ~(i <= i - 1)
      BY <2>1, <2>2
    <3> HIDE DEF S, Through
    <3> QED
      BY <2>1, <3>1
  <2>4. Through(i - 1)
    BY <2>3
  <2> DEFINE c == f[i - 1]
             d == [c EXCEPT !.screen[i - 1] = first + i - 1, !.lit = IF i - 1 = b.choice THEN @ \cup {i - 1} ELSE @ \ {i - 1}]
  <2>5. f[i] = d
    <3>1. Count(c) = Count(b) /\ first + i - 1 \in 0 .. Count(b) - 1
      BY <1>0, <2>3 DEF Count
    <3> QED
      BY <1>0, <2>3, <2>4, <3>1 DEF PrintItem
  <2>6. d.screen = Upto(i) /\ d.lit = {b.choice} \cap (0 .. i - 1) /\ d.res = f[0].res
    <3>1. d.res = c.res /\ d.screen = [c.screen EXCEPT ![i - 1] = first + i - 1]
          /\ d.lit = IF i - 1 = b.choice THEN c.lit \cup {i - 1} ELSE c.lit \ {i - 1}
      <4>1. {"res", "screen", "lit"} \subseteq DOMAIN c
        BY <1>0, <2>3
      <4> HIDE DEF c
      <4> QED
        BY <4>1
    <3>2. [Upto(i - 1) EXCEPT ![i - 1] = first + i - 1] = Upto(i)
      <4> DEFINE were == Upto(i - 1)
      <4>1. /\ i - 1 \in 0 .. b.max - 1 /\ first + i - 1 = first + (i - 1)
            /\ \A row \in 0 .. b.max - 1 : row < i <=> row < i - 1 \/ row = i - 1
        BY <2>3
      <4>2. \A row \in 0 .. b.max - 1 : [were EXCEPT ![i - 1] = first + i - 1][row]
                                      = IF row < i THEN first + row ELSE Blank0
        BY <4>1
      <4>3. [were EXCEPT ![i - 1] = first + i - 1] = [row \in 0 .. b.max - 1 |-> [were EXCEPT ![i - 1] = first + i - 1][row]]
        OBVIOUS
      <4> QED
        BY <4>2, <4>3
    <3>3. c.screen = Upto(i - 1) /\ c.lit = {b.choice} \cap (0 .. i - 2) /\ c.res = f[0].res
      BY <2>3, <2>4
    <3> HIDE DEF Upto, c, d
    <3>4. d.screen = Upto(i)
      BY <3>1, <3>2, <3>3
    <3>5. d.lit = {b.choice} \cap (0 .. i - 1)
      BY <2>3, <3>1, <3>3
    <3> QED
      BY <3>1, <3>3, <3>4, <3>5
  <2> QED
    BY <2>1, <2>5, <2>6
<1>2. Through(b.max)
  <2> HIDE DEF Through
  <2> QED
    BY <1>1
<1> QED
  BY <1>0, <1>2

MenuReturns == {"wait", "select", "exit", "help", "save", "load", "yes", "no", "mod", "toggle", "search", "all", "esc", "crash"}
Menu(b) ==
    b \in [ kind : {"menu"}, res : MenuReturns, items : Seq(Items), selected : {b.selected}, saved : Nat,
            button : 0 .. 4, max : Nat, scroll : Nat, choice : Nat, first : Int, at : Int,
            screen : {b.screen}, lit : {b.lit}, redrawn : BOOLEAN ]

LEMMA MenuDrawn ==
  ASSUME NEW b, Menu(b), NEW first \in Int
  PROVE  LET d == DrawRows(b, first)
         IN  /\ d \in MenuLike(Cleared(b)) /\ d.scroll = b.scroll /\ d.choice = b.choice
             /\ b.res # "crash" /\ first \in Nat /\ first + b.max <= Count(b) =>
                    /\ d.res = b.res /\ d.screen = [row \in 0 .. b.max - 1 |-> first + row]
                    /\ d.lit = {b.choice} \cap (0 .. b.max - 1)
<1> DEFINE a == Cleared(b)
           V == {c \in MenuLike(a) : c.scroll = b.scroll /\ c.choice = b.choice}
<1>0. b.max \in Nat /\ Len(b.items) \in Nat /\ b.items \in Seq(Items)
  BY DEF Menu
<1>1. /\ a \in V /\ a.items = b.items /\ a.res = b.res /\ a.lit = {}
      /\ a.screen = [row \in 0 .. b.max - 1 |-> Blank0] /\ a.max = b.max
  <2> DEFINE blank == [row \in 0 .. b.max - 1 |-> Blank0]
  <2>1. blank \in [0 .. b.max - 1 -> Int]
    BY DEF Blank0
  <2>2. a = [b EXCEPT !.screen = blank, !.lit = {}]
    BY DEF Cleared
  <2> HIDE DEF blank, a
  <2>3. /\ a \in MenuLike(a) /\ a.items = b.items /\ a.res = b.res /\ a.lit = {} /\ a.screen = blank
        /\ a.max = b.max /\ a.scroll = b.scroll /\ a.choice = b.choice
    BY <2>1, <2>2 DEF Menu, MenuLike
  <2> QED
    BY <2>3 DEF blank
<1>2. PrintsIn(V)
  <2> HIDE DEF a
  <2> QED
    BY MenuPrint DEF PrintsIn
<1>3. \A c \in V : {"res", "screen", "lit"} \subseteq DOMAIN c /\ c.items = b.items
  BY <1>1 DEF MenuLike
<1> HIDE DEF V
<1>4. PICK f : Drawn(b, first, V, f)
  BY <1>0, <1>1, <1>2, DrawLoop
<1>5. DrawRows(b, first) \in V
  BY <1>0, <1>4 DEF Drawn
<1>6. ASSUME b.res # "crash", first \in Nat, first + b.max <= Count(b)
      PROVE  LET d == DrawRows(b, first)
             IN  /\ d.res = b.res /\ d.screen = [row \in 0 .. b.max - 1 |-> first + row]
                 /\ d.lit = {b.choice} \cap (0 .. b.max - 1)
  BY <1>0, <1>1, <1>3, <1>4, <1>6, RowsDrawn
<1> QED
  BY <1>5, <1>6 DEF V

LEMMA MaxIn ==
  ASSUME NEW n \in Nat, NEW S \in SUBSET (0 .. n - 1), S # {}
  PROVE  Max(S) \in S
<1> DEFINE T == {n - i : i \in S}
<1>1. T \in SUBSET Nat /\ T # {}
  <2>1. \A i \in S : n - i \in Nat
    OBVIOUS
  <2> QED
    BY <2>1
<1> HIDE DEF T
<1>2. PICK t \in T : \A x \in T : t <= x
  BY <1>1, LeastOf
<1>3. PICK i \in S : t = n - i
  BY <1>2 DEF T
<1>4. \A j \in S : n - i <= n - j
  BY <1>2, <1>3 DEF T
<1>5. \A j \in S : i >= j
  BY <1>4
<1> QED
  BY <1>5 DEF Max

LEMMA MinIn ==
  ASSUME NEW S \in SUBSET Nat, S # {}
  PROVE  Min(S) \in S
<1>1. \E i \in S : \A j \in S : i <= j
  BY LeastOf
<1> QED
  BY <1>1 DEF Min

\* A menu box: it is all in step, but for what a resize leaves on the screen.
MenuOk(b) ==
    /\ Menu(b) /\ b \in MenuLike(b) /\ MenuFits(b)
    /\ ~b.redrawn => Clean(b, IF Count(b) = 0 THEN {} ELSE {b.choice})
    /\ b.res \notin {"wait", "esc", "crash"} => b.at = b.scroll + b.choice

\* From do_resize to the first key, whatever was to be highlighted
LEMMA MenuDrawOk ==
  ASSUME NEW b, Menu(b), NEW height \in Nat, height # 0,
         IF Count(b) = 0 THEN b.choice = 0 ELSE b.choice < Count(b),
         b.res # "crash"
  PROVE  LET d == MenuDraw(b, height)
         IN  /\ d.items = b.items /\ d.selected = b.selected /\ d.redrawn = b.redrawn /\ d.res \in {b.res, "crash"}
             /\ Menu(d) /\ d \in MenuLike(d) /\ MenuFits(d)
             /\ b.first = 0 => Clean(d, IF Count(b) = 0 THEN {} ELSE {d.choice})
<1> DEFINE n == Count(b)
           max == Lesser(height, n)
           here == {i \in 0 .. n - 1 : Item(b, i).data = b.selected}
           at == IF here = {} THEN b.choice ELSE Max(here)
           kept == b.saved \in 0 .. at /\ b.saved + max > at /\ b.saved + max <= n
           below == (IF kept THEN at - b.saved ELSE at) >= max
           scroll == IF below THEN IF at >= n - max \div 2 THEN n - max ELSE at - max \div 2
                     ELSE IF kept THEN b.saved ELSE 0
           first == IF below \/ kept THEN scroll ELSE b.first
           c == [b EXCEPT !.max = max, !.scroll = scroll, !.first = first, !.choice = at - scroll]
<1>0. n \in Nat /\ b.choice \in Nat /\ b.saved \in Nat /\ b.first \in Int
  BY DEF Menu, Count
<1>1. max \in 0 .. n /\ (n # 0 => max # 0)
  BY <1>0 DEF Lesser
<1>2. at \in Nat /\ (IF n = 0 THEN at = 0 ELSE at < n)
  <2>1. CASE here = {}
    BY <1>0, <2>1
  <2>2. CASE here # {}
    <3>1. here \in SUBSET (0 .. n - 1)
      OBVIOUS
    <3> HIDE DEF n, here
    <3>2. Max(here) \in here
      BY <1>0, <2>2, <3>1, MaxIn
    <3>3. Max(here) \in 0 .. n - 1
      BY <3>1, <3>2
    <3>4. at = Max(here)
      BY <2>2
    <3> HIDE DEF at
    <3> QED
      BY <1>0, <3>3, <3>4
  <2> QED
    BY <2>1, <2>2
<1> HIDE DEF at
<1>3. /\ scroll \in Nat /\ scroll + max <= n /\ at - scroll \in Nat
      /\ IF n = 0 THEN at - scroll = 0 ELSE at - scroll < max
      /\ ~(below \/ kept) => scroll = 0
  <2> HIDE DEF n, max
  <2>1. max \div 2 \in Nat /\ 2 * (max \div 2) <= max /\ max <= 2 * (max \div 2) + 1
    BY <1>1
  <2> QED
    BY <1>0, <1>1, <1>2, <2>1
<1> HIDE DEF scroll, below, kept, max, n
<1>4. first \in Int
  BY <1>0, <1>3
<1> HIDE DEF first
<1>5. /\ Menu(c) /\ c.items = b.items /\ c.max = max /\ c.scroll = scroll /\ c.choice = at - scroll
      /\ c.res = b.res /\ c.selected = b.selected /\ c.redrawn = b.redrawn
  <2> DEFINE choice == at - scroll
  <2>1. max \in Nat /\ scroll \in Nat /\ choice \in Nat /\ first \in Int
    BY <1>0, <1>1, <1>3, <1>4
  <2>2. c = [b EXCEPT !.max = max, !.scroll = scroll, !.first = first, !.choice = choice]
    OBVIOUS
  <2> HIDE DEF choice, c
  <2>3. c.screen = b.screen /\ c.lit = b.lit /\ c.choice = choice
    BY <2>2 DEF Menu
  <2>4. Menu(c)
    BY <2>1, <2>2, <2>3 DEF Menu
  <2> QED
    BY <2>2, <2>3, <2>4 DEF Menu, choice
<1>6. MenuDraw(b, height) = DrawRows(c, first)
  BY DEF MenuDraw, n, max, here, at, kept, below, scroll, first
<1> HIDE DEF c
<1> DEFINE d == DrawRows(c, first)
<1>7. /\ d \in MenuLike(Cleared(c)) /\ d.scroll = c.scroll /\ d.choice = c.choice
      /\ first = scroll =>
             /\ d.res = c.res /\ d.screen = [row \in 0 .. max - 1 |-> scroll + row]
             /\ d.lit = {at - scroll} \cap (0 .. max - 1)
  <2>1. /\ d \in MenuLike(Cleared(c)) /\ d.scroll = c.scroll /\ d.choice = c.choice
        /\ c.res # "crash" /\ first \in Nat /\ first + c.max <= Count(c) =>
               /\ d.res = c.res /\ d.screen = [row \in 0 .. c.max - 1 |-> first + row]
               /\ d.lit = {c.choice} \cap (0 .. c.max - 1)
    BY <1>4, <1>5, MenuDrawn
  <2>2. Count(c) = n /\ c.res # "crash"
    BY <1>5 DEF Count, n
  <2> HIDE DEF d
  <2> QED
    BY <1>3, <1>5, <2>1, <2>2
<1> HIDE DEF d
<1>8. /\ Menu(d) /\ d \in MenuLike(d) /\ d.items = b.items /\ d.max = max
      /\ d.selected = b.selected /\ d.redrawn = b.redrawn /\ d.res \in {b.res, "crash"}
  <2> DEFINE a == Cleared(c)
  <2>1. /\ a.items = c.items /\ a.max = c.max /\ a.selected = c.selected /\ a.redrawn = c.redrawn
        /\ a.saved = c.saved /\ a.button = c.button /\ a.first = c.first /\ a.at = c.at /\ a.res = c.res
    BY <1>5 DEF Cleared, Menu
  <2> HIDE DEF a
  <2>2. /\ d \in MenuLike(a) /\ d.items = c.items /\ d.max = c.max /\ d.selected = c.selected /\ d.redrawn = c.redrawn
        /\ d.saved = c.saved /\ d.button = c.button /\ d.first = c.first /\ d.at = c.at /\ d.res \in {c.res, "crash"}
        /\ d.screen \in [0 .. d.max - 1 -> Int]
    BY <1>7, <2>1 DEF MenuLike, a
  <2>3. d \in MenuLike(d)
    BY <2>1, <2>2 DEF MenuLike
  <2>4. Menu(d)
    BY <1>5, <2>2 DEF Menu, MenuLike, MenuReturns
  <2> QED
    BY <1>5, <2>2, <2>3, <2>4
<1>9. Count(d) = n
  BY <1>8 DEF Count, n
<1>10. MenuFits(d)
  BY <1>0, <1>1, <1>3, <1>5, <1>7, <1>8, <1>9 DEF MenuFits, Count
<1>11. ASSUME b.first = 0 PROVE first = scroll
  BY <1>3, <1>11 DEF first
<1>12. ASSUME b.first = 0 PROVE Clean(d, IF Count(b) = 0 THEN {} ELSE {d.choice})
  <2>1. d.lit = IF n = 0 THEN {} ELSE {d.choice}
    <3>1. d.lit = {at - scroll} \cap (0 .. max - 1) /\ d.choice = at - scroll
      BY <1>5, <1>7, <1>11, <1>12
    <3>2. CASE n = 0
      BY <1>1, <3>1, <3>2
    <3>3. CASE n # 0
      BY <1>1, <1>3, <3>1, <3>3
    <3> QED
      BY <3>2, <3>3
  <2> QED
    BY <1>5, <1>7, <1>8, <1>11, <1>12, <2>1 DEF Clean, n
<1> QED
  BY <1>6, <1>8, <1>10, <1>12 DEF d

\* The boxes between a key and the next, while no row is highlighted
Off(b, clean) == {c \in MenuLike(b) : MenuFits(c) /\ (clean => Clean(c, {}))}

LEMMA MenuShift ==
  ASSUME NEW b, Menu(b), NEW clean \in BOOLEAN, NEW c \in Off(b, clean), Count(b) # 0,
         NEW n \in {-1, 1}, c.scroll + n \in 0 .. Count(c) - c.max
  PROVE  LET s == Shift(c, n)
             row == IF n = 1 THEN s.max - 1 ELSE 0
         IN  PrintItem(s, s.scroll + row, row, FALSE) \in Off(b, clean)
<1> DEFINE s == Shift(c, n)
           row == IF n = 1 THEN s.max - 1 ELSE 0
           d == PrintItem(s, s.scroll + row, row, FALSE)
<1>0. c \in MenuLike(b) /\ MenuFits(c) /\ c.max = b.max /\ c.items = b.items /\ b.max \in Nat /\ Count(c) = Count(b) /\ Len(b.items) \in Nat
  BY DEF Off, MenuLike, Menu, Count
<1>1. /\ s \in MenuLike(b) /\ s.scroll = c.scroll + n /\ s.choice = c.choice /\ s.max = c.max /\ s.items = c.items
      /\ s.res = c.res
      /\ s.screen = [r \in 0 .. b.max - 1 |-> IF r + n \in 0 .. b.max - 1 THEN c.screen[r + n] ELSE Blank0]
      /\ s.lit = {r - n : r \in c.lit} \cap (0 .. b.max - 1)
  <2> DEFINE screen == [r \in 0 .. b.max - 1 |-> IF r + n \in 0 .. b.max - 1 THEN c.screen[r + n] ELSE Blank0]
             lit == {r - n : r \in c.lit} \cap (0 .. b.max - 1)
  <2>1. c.screen \in [0 .. b.max - 1 -> Int] /\ c.lit \in SUBSET Int /\ c.scroll + n \in Nat
    BY <1>0 DEF MenuLike
  <2>2. screen \in [0 .. b.max - 1 -> Int] /\ lit \in SUBSET Int
    BY <1>0, <2>1 DEF Blank0
  <2>3. s = [c EXCEPT !.scroll = c.scroll + n, !.screen = screen, !.lit = lit]
    BY <1>0 DEF Shift, MenuLike
  <2> HIDE DEF screen, lit, s
  <2>4. s \in MenuLike(b) /\ s.scroll = c.scroll + n /\ s.choice = c.choice /\ s.max = c.max /\ s.items = c.items
        /\ s.res = c.res /\ s.screen = screen /\ s.lit = lit
    BY <1>0, <2>1, <2>2, <2>3 DEF MenuLike
  <2> QED
    BY <2>4 DEF screen, lit
<1> HIDE DEF s
<1>2. row \in 0 .. b.max - 1 /\ s.scroll + row \in 0 .. Count(b) - 1 /\ Count(s) = Count(b)
  BY <1>0, <1>1 DEF MenuFits, Count
<1> HIDE DEF row
<1>3. d \in MenuLike(b) /\ d.scroll = s.scroll /\ d.choice = s.choice
  <2> DEFINE item == s.scroll + row
  <2>1. item \in Int /\ row \in Int /\ s \in MenuLike(b) /\ FALSE \in BOOLEAN
    BY <1>1, <1>2
  <2> HIDE DEF item
  <2>2. LET x == PrintItem(s, item, row, FALSE) IN x \in MenuLike(b) /\ x.scroll = s.scroll /\ x.choice = s.choice
    BY <2>1, MenuPrint
  <2> QED
    BY <2>2 DEF item
<1>4. d.items = b.items /\ d.max = b.max
  BY <1>3 DEF MenuLike
<1>5. MenuFits(d)
  <2> HIDE DEF d
  <2>1. Count(d) = Count(b) /\ d.scroll = c.scroll + n /\ d.choice = c.choice /\ c.scroll \in Nat
    BY <1>0, <1>1, <1>3, <1>4 DEF Count, MenuLike
  <2>2. c.scroll + n + b.max <= Count(b)
    <3>1. c.scroll + n \in 0 .. Count(b) - b.max /\ Count(b) \in Nat
      BY <1>0 DEF Count
    <3> QED
      BY <1>0, <2>1, <3>1
  <2>3. /\ b.max \in 0 .. Count(b) /\ (Count(b) # 0 => b.max # 0)
        /\ IF Count(b) = 0 THEN c.choice = 0 ELSE c.choice < b.max
    BY <1>0 DEF MenuFits
  <2> QED
    BY <1>0, <1>4, <2>1, <2>2, <2>3 DEF MenuFits
<1>6. ASSUME clean PROVE Clean(d, {})
  <2>1. c.res # "crash" /\ c.lit = {} /\ c.screen = [r \in 0 .. b.max - 1 |-> c.scroll + r]
    BY <1>0, <1>6 DEF Off, Clean
  <2>2. d = [s EXCEPT !.screen[row] = s.scroll + row, !.lit = @ \ {row}]
    BY <1>2 DEF PrintItem
  <2>3. d.lit = s.lit \ {row} /\ d.screen = [s.screen EXCEPT ![row] = s.scroll + row] /\ d.res = s.res
    BY <1>1, <2>2 DEF MenuLike
  <2>4. s.lit = {}
    BY <1>1, <2>1
  <2>5. \A r \in 0 .. b.max - 1 : r # row => s.screen[r] = s.scroll + r
    <3> TAKE r \in 0 .. b.max - 1
    <3> HAVE r # row
    <3>1. r + n \in 0 .. b.max - 1
      BY <1>1, <1>0 DEF row
    <3>2. s.screen[r] = c.scroll + (r + n)
      BY <1>1, <2>1, <3>1
    <3> QED
      BY <1>1, <3>1, <3>2, <1>0 DEF MenuLike
  <2>6. d.screen = [r \in 0 .. b.max - 1 |-> s.scroll + r]
    <3>1. d.screen = [r \in 0 .. b.max - 1 |-> d.screen[r]]
      BY <1>3 DEF MenuLike
    <3>2. \A r \in 0 .. b.max - 1 : d.screen[r] = s.scroll + r
      BY <1>1, <1>2, <2>3, <2>5 DEF MenuLike
    <3> QED
      BY <3>1, <3>2
  <2> QED
    BY <1>1, <1>3, <1>4, <2>1, <2>3, <2>4, <2>6 DEF Clean
<1>7. d \in Off(b, clean)
  <2> HIDE DEF d
  <2> QED
    BY <1>3, <1>5, <1>6 DEF Off
<1> QED
  BY <1>7 DEF d, row, s

\* The highlight alone moves,
LEMMA MenuChoose ==
  ASSUME NEW b, Menu(b), NEW clean \in BOOLEAN, NEW c \in Off(b, clean), Count(b) # 0,
         NEW choice \in 0 .. b.max - 1
  PROVE  [c EXCEPT !.choice = choice] \in Off(b, clean)
<1> DEFINE d == [c EXCEPT !.choice = choice]
<1>0. c \in MenuLike(b) /\ MenuFits(c) /\ (clean => Clean(c, {})) /\ c.items = b.items /\ choice \in Nat
  BY DEF Off, MenuLike, Menu
<1>1. /\ d \in MenuLike(b) /\ d.choice = choice /\ d.scroll = c.scroll /\ d.max = c.max /\ d.items = c.items
      /\ d.screen = c.screen /\ d.lit = c.lit /\ d.res = c.res /\ c.max = b.max
  BY <1>0 DEF MenuLike
<1> HIDE DEF d
<1>2. MenuFits(d)
  BY <1>0, <1>1 DEF MenuFits, Count
<1>3. clean => Clean(d, {})
  BY <1>0, <1>1 DEF Clean
<1>4. d \in Off(b, clean)
  BY <1>1, <1>2, <1>3 DEF Off
<1> QED
  BY <1>4 DEF d

\* ... or the rows, for all keys that move it.
LEMMA MenuTurns ==
  ASSUME NEW b, Menu(b), NEW clean \in BOOLEAN, Count(b) # 0, NEW c \in Off(b, clean)
  PROVE  /\ MenuUp(c) \in Off(b, clean) /\ MenuDown(c) \in Off(b, clean)
         /\ MenuPageUp(c) \in Off(b, clean) /\ MenuPageDown(c) \in Off(b, clean)
<1> DEFINE up == LET s == Shift(c, -1) IN PrintItem(s, s.scroll, 0, FALSE)
           down == LET s == Shift(c, 1) IN PrintItem(s, s.scroll + s.max - 1, s.max - 1, FALSE)
<1>0. /\ c \in MenuLike(b) /\ MenuFits(c) /\ c.max = b.max /\ Count(c) = Count(b) /\ c.scroll \in Nat /\ c.choice \in Nat
      /\ b.max \in Nat /\ b.max # 0 /\ c.choice < b.max /\ c.scroll + b.max <= Count(c) /\ Count(c) \in Nat
  BY DEF Off, MenuLike, MenuFits, Count, Menu
<1>1. ASSUME c.scroll # 0 PROVE up \in Off(b, clean)
  <2> DEFINE s == Shift(c, -1)
             n == -1
  <2>1. c.scroll + n \in 0 .. Count(c) - c.max /\ n \in {-1, 1} /\ n # 1
    BY <1>0, <1>1
  <2>2. PrintItem(s, s.scroll + 0, 0, FALSE) \in Off(b, clean)
    <3> DEFINE t == Shift(c, n)
               row == IF n = 1 THEN t.max - 1 ELSE 0
    <3>1. PrintItem(t, t.scroll + row, row, FALSE) \in Off(b, clean)
      <4> HIDE DEF n
      <4> QED
        BY <2>1, MenuShift
    <3>2. row = 0 /\ t = s
      BY <2>1
    <3> HIDE DEF row, t, s
    <3> QED
      BY <3>1, <3>2
  <2>3. s.scroll = c.scroll + (-1)
    BY <1>0 DEF Shift, MenuLike
  <2>4. s.scroll + 0 = s.scroll
    BY <1>0, <2>3
  <2> QED
    BY <2>2, <2>4
<1>2. ASSUME c.scroll + c.max < Count(c) PROVE down \in Off(b, clean)
  <2> DEFINE s == Shift(c, 1)
  <2>1. c.scroll + 1 \in 0 .. Count(c) - c.max
    BY <1>0, <1>2
  <2>2. PrintItem(s, s.scroll + (s.max - 1), s.max - 1, FALSE) \in Off(b, clean)
    BY <2>1, MenuShift
  <2>3. s.scroll = c.scroll + 1 /\ s.max = c.max
    BY <1>0 DEF Shift, MenuLike
  <2>4. s.scroll + (s.max - 1) = s.scroll + s.max - 1
    BY <1>0, <2>3
  <2> QED
    BY <2>2, <2>4
<1> HIDE DEF up, down
<1> DEFINE back == [c EXCEPT !.choice = Greater(@ - 1, 0)]
           forth == [c EXCEPT !.choice = Lesser(@ + 1, b.max - 1)]
<1>3. back \in Off(b, clean)
  <2> DEFINE x == Greater(c.choice - 1, 0)
  <2>1. x \in 0 .. b.max - 1
    BY <1>0 DEF Greater
  <2>2. back = [c EXCEPT !.choice = x]
    BY <1>0 DEF MenuLike
  <2> HIDE DEF x, back
  <2> QED
    BY <2>1, <2>2, MenuChoose
<1>4. forth \in Off(b, clean)
  <2> DEFINE x == Lesser(c.choice + 1, b.max - 1)
  <2>1. x \in 0 .. b.max - 1
    BY <1>0 DEF Lesser
  <2>2. forth = [c EXCEPT !.choice = x]
    BY <1>0 DEF MenuLike
  <2> HIDE DEF x, forth
  <2> QED
    BY <2>1, <2>2, MenuChoose
<1>5. MenuUp(c) = (IF c.choice < 2 /\ c.scroll # 0 THEN up ELSE back)
      /\ MenuPageUp(c) = (IF c.scroll > 0 THEN up ELSE back)
  BY DEF MenuUp, MenuPageUp, up
<1>6. MenuDown(c) = (IF c.choice + 3 > c.max /\ c.scroll + c.max < Count(c) THEN down ELSE forth)
      /\ MenuPageDown(c) = (IF c.scroll + c.max < Count(c) THEN down ELSE forth)
  BY <1>0 DEF MenuDown, MenuPageDown, down
<1> HIDE DEF back, forth
<1> QED
  BY <1>0, <1>1, <1>2, <1>3, <1>4, <1>5, <1>6

\* Pages are turned row by row.
LEMMA PagesUp ==
  ASSUME NEW b, Menu(b), NEW clean \in BOOLEAN, Count(b) # 0, NEW x \in Off(b, clean), NEW n \in Nat
  PROVE  Iterate(MenuPageUp, n, x) \in Off(b, clean)
<1> DEFINE V == Off(b, clean)
<1>0. x \in V /\ \A c \in V : MenuPageUp(c) \in V
  BY MenuTurns
<1> HIDE DEF V
<1> DEFINE R == [i \in 1 .. n |-> [c \in V |-> MenuPageUp(c)]]
           Is(f) == f = [i \in 0 .. n |-> IF i = 0 THEN x ELSE MenuPageUp(f[i - 1])]
           fn == CHOOSE f : Is(f)
<1>1. Rounds(n, V, R) /\ \A i \in 1 .. n : \A c \in V : R[i][c] = MenuPageUp(c)
  BY <1>0 DEF Rounds
<1> HIDE DEF R
<1>2. PICK g \in [0 .. n -> V] : g[0] = x /\ \A i \in 1 .. n : g[i] = R[i][g[i - 1]]
  <2>1. LoopFrom(n, V, x, R)
    BY <1>0, <1>1, LoopEnds
  <2> QED
    BY <2>1 DEF LoopFrom
<1>3. Is(g)
  <2>1. \A i \in 1 .. n : g[i] = MenuPageUp(g[i - 1])
    BY <1>1, <1>2
  <2>2. g = [i \in 0 .. n |-> g[i]]
    OBVIOUS
  <2>3. \A i \in 0 .. n : g[i] = IF i = 0 THEN x ELSE MenuPageUp(g[i - 1])
    BY <1>2, <2>1
  <2> QED
    BY <2>2, <2>3
<1>4. Is(fn)
  BY <1>3
<1>5. Iterate(MenuPageUp, n, x) = fn[n]
  BY DEF Iterate
<1> HIDE DEF fn
<1>6. fn[0] = x /\ \A i \in 1 .. n : fn[i] = MenuPageUp(fn[i - 1])
  BY <1>4
<1>7. \A i \in 0 .. n : fn[i] \in V
  BY <1>0, <1>1, <1>6, LoopStays
<1> QED
  BY <1>5, <1>7 DEF V

LEMMA PagesDown ==
  ASSUME NEW b, Menu(b), NEW clean \in BOOLEAN, Count(b) # 0, NEW x \in Off(b, clean), NEW n \in Nat
  PROVE  Iterate(MenuPageDown, n, x) \in Off(b, clean)
<1> DEFINE V == Off(b, clean)
<1>0. x \in V /\ \A c \in V : MenuPageDown(c) \in V
  BY MenuTurns
<1> HIDE DEF V
<1> DEFINE R == [i \in 1 .. n |-> [c \in V |-> MenuPageDown(c)]]
           Is(f) == f = [i \in 0 .. n |-> IF i = 0 THEN x ELSE MenuPageDown(f[i - 1])]
           fn == CHOOSE f : Is(f)
<1>1. Rounds(n, V, R) /\ \A i \in 1 .. n : \A c \in V : R[i][c] = MenuPageDown(c)
  BY <1>0 DEF Rounds
<1> HIDE DEF R
<1>2. PICK g \in [0 .. n -> V] : g[0] = x /\ \A i \in 1 .. n : g[i] = R[i][g[i - 1]]
  <2>1. LoopFrom(n, V, x, R)
    BY <1>0, <1>1, LoopEnds
  <2> QED
    BY <2>1 DEF LoopFrom
<1>3. Is(g)
  <2>1. \A i \in 1 .. n : g[i] = MenuPageDown(g[i - 1])
    BY <1>1, <1>2
  <2>2. g = [i \in 0 .. n |-> g[i]]
    OBVIOUS
  <2>3. \A i \in 0 .. n : g[i] = IF i = 0 THEN x ELSE MenuPageDown(g[i - 1])
    BY <1>2, <2>1
  <2> QED
    BY <2>2, <2>3
<1>4. Is(fn)
  BY <1>3
<1>5. Iterate(MenuPageDown, n, x) = fn[n]
  BY DEF Iterate
<1> HIDE DEF fn
<1>6. fn[0] = x /\ \A i \in 1 .. n : fn[i] = MenuPageDown(fn[i - 1])
  BY <1>4
<1>7. \A i \in 0 .. n : fn[i] \in V
  BY <1>0, <1>1, <1>6, LoopStays
<1> QED
  BY <1>5, <1>7 DEF V

\* The row of the highlight is printed again.
LEMMA MenuHighlight ==
  ASSUME NEW b, Menu(b), Count(b) # 0, NEW c \in MenuLike(b), MenuFits(c), NEW selected \in BOOLEAN
  PROVE  LET d == PrintItem(c, c.scroll + c.choice, c.choice, selected)
         IN  /\ d \in MenuLike(b) /\ MenuFits(d) /\ d.scroll = c.scroll /\ d.choice = c.choice /\ d.res = c.res
             /\ d.lit = IF selected THEN c.lit \cup {c.choice} ELSE c.lit \ {c.choice}
             /\ \A lit : Clean(c, lit) => Clean(d, d.lit)
<1> DEFINE item == c.scroll + c.choice
           d == PrintItem(c, item, c.choice, selected)
<1>0. /\ Count(c) = Count(b) /\ c.max = b.max /\ c.scroll \in Nat /\ c.choice \in Nat /\ c.choice < b.max
      /\ c.scroll + b.max <= Count(b) /\ b.max \in Nat /\ Count(b) \in Nat /\ c.items = b.items
  BY DEF MenuLike, MenuFits, Menu, Count
<1>1. item \in 0 .. Count(c) - 1 /\ item \in Int /\ c.choice \in Int
  BY <1>0
<1> HIDE DEF item
<1>2. d = [c EXCEPT !.screen[c.choice] = item, !.lit = IF selected THEN @ \cup {c.choice} ELSE @ \ {c.choice}]
  BY <1>1 DEF PrintItem
<1>3. d \in MenuLike(b) /\ d.scroll = c.scroll /\ d.choice = c.choice
  BY <1>1, MenuPrint
<1>4. /\ d.screen = [c.screen EXCEPT ![c.choice] = item] /\ d.res = c.res
      /\ d.lit = IF selected THEN c.lit \cup {c.choice} ELSE c.lit \ {c.choice}
  BY <1>2 DEF MenuLike
<1> HIDE DEF d
<1>5. d.max = b.max /\ d.items = b.items
  BY <1>3 DEF MenuLike
<1>6. MenuFits(d)
  BY <1>0, <1>3, <1>5 DEF MenuFits, Count
<1>7. ASSUME NEW lit, Clean(c, lit) PROVE Clean(d, d.lit)
  <2>1. c.res # "crash" /\ c.screen = [r \in 0 .. b.max - 1 |-> c.scroll + r]
    BY <1>0, <1>7 DEF Clean
  <2>2. d.screen = c.screen
    <3>1. c.screen[c.choice] = item
      BY <1>0, <2>1 DEF item
    <3> QED
      BY <1>4, <2>1, <3>1
  <2> QED
    BY <1>0, <1>3, <1>4, <1>5, <2>1, <2>2 DEF Clean
<1> QED
  BY <1>3, <1>4, <1>6, <1>7 DEF d, item

LEMMA NextHotIs ==
  ASSUME NEW b, b.max \in Nat, NEW key, HotRows(b, key) # {}
  PROVE  NextHot(b, key) \in 0 .. b.max - 1
<1> DEFINE below == {row \in HotRows(b, key) : row > b.choice}
<1>1. HotRows(b, key) \in SUBSET (0 .. b.max - 1) /\ HotRows(b, key) \in SUBSET Nat
  BY DEF HotRows
<1>2. below # {} => Min(below) \in below
  <2>1. below \in SUBSET Nat
    BY <1>1
  <2> HIDE DEF below
  <2> QED
    BY <2>1, MinIn
<1>3. Min(HotRows(b, key)) \in HotRows(b, key)
  BY <1>1, MinIn
<1>4. NextHot(b, key) = IF below # {} THEN Min(below) ELSE Min(HotRows(b, key))
  BY DEF NextHot
<1>5. below \subseteq HotRows(b, key)
  OBVIOUS
<1> HIDE DEF below
<1> QED
  BY <1>1, <1>2, <1>3, <1>4, <1>5

\* Whatever key moves the highlight, what is on the screen stays in step.
LEMMA MenuMoveOk ==
  ASSUME NEW b, MenuOk(b), Count(b) # 0, b.res = "wait", NEW key, key \in Moves \/ HotRows(b, key) # {}
  PROVE  LET d == MenuMove(b, key) IN MenuOk(d) /\ d.items = b.items /\ d.redrawn = b.redrawn
<1> DEFINE off == PrintItem(b, b.scroll + b.choice, b.choice, FALSE)
           to == CASE key = "up"   -> MenuUp(off)
                   [] key = "down" -> MenuDown(off)
                   [] key = "pgup" -> Iterate(MenuPageUp, b.max, off)
                   [] key = "pgdn" -> Iterate(MenuPageDown, b.max, off)
                   [] OTHER        -> [off EXCEPT !.choice = NextHot(b, key)]
           clean == ~b.redrawn
           V == Off(b, clean)
<1>0. Menu(b) /\ b \in MenuLike(b) /\ MenuFits(b) /\ b.max \in Nat /\ clean \in BOOLEAN /\ (clean => Clean(b, {b.choice}))
  BY DEF MenuOk, Menu
<1>1. off \in V
  <2>1. off \in MenuLike(b) /\ MenuFits(off) /\ (clean => Clean(off, off.lit)) /\ off.lit = b.lit \ {b.choice}
    BY <1>0, MenuHighlight
  <2>2. clean => b.lit = {b.choice}
    BY <1>0 DEF Clean
  <2>3. clean => Clean(off, {})
    BY <2>1, <2>2
  <2> HIDE DEF off
  <2> QED
    BY <2>1, <2>3 DEF Off
<1> HIDE DEF off
<1>2. to \in V
  <2>1. \A c \in V : /\ MenuUp(c) \in V /\ MenuDown(c) \in V
                     /\ MenuPageUp(c) \in V /\ MenuPageDown(c) \in V
    BY <1>0, MenuTurns
  <2> HIDE DEF V
  <2>2. Iterate(MenuPageUp, b.max, off) \in V
    BY <1>0, <1>1, PagesUp DEF V
  <2>3. Iterate(MenuPageDown, b.max, off) \in V
    BY <1>0, <1>1, PagesDown DEF V
  <2>4. HotRows(b, key) # {} => [off EXCEPT !.choice = NextHot(b, key)] \in V
    BY <1>0, <1>1, NextHotIs, MenuChoose DEF V
  <2> QED
    BY <1>1, <2>1, <2>2, <2>3, <2>4 DEF Moves
<1> HIDE DEF to
<1> DEFINE d == PrintItem(to, to.scroll + to.choice, to.choice, TRUE)
<1>3. to \in MenuLike(b) /\ MenuFits(to) /\ (clean => Clean(to, {}))
  BY <1>2 DEF Off
<1>4. /\ d \in MenuLike(b) /\ MenuFits(d) /\ d.choice = to.choice /\ d.lit = to.lit \cup {to.choice}
      /\ clean => Clean(d, d.lit)
  BY <1>0, <1>3, MenuHighlight
<1>5. clean => to.lit = {}
  BY <1>3 DEF Clean
<1>6. MenuMove(b, key) = d
  BY DEF MenuMove, d, to, off
<1> HIDE DEF d
<1>7. clean => Clean(d, {d.choice})
  BY <1>4, <1>5
<1>8. /\ d.items = b.items /\ d.redrawn = b.redrawn /\ d.max = b.max /\ d.selected = b.selected /\ d.saved = b.saved
      /\ d.button = b.button /\ d.first = b.first /\ d.at = b.at /\ d.res \in {"wait", "crash"}
      /\ d.screen \in [0 .. b.max - 1 -> Int] /\ d.scroll \in Nat /\ d.choice \in Nat
  BY <1>4 DEF MenuLike
<1>9. d \in MenuLike(d)
  BY <1>4, <1>8 DEF MenuLike
<1>10. Menu(d)
  BY <1>0, <1>4, <1>8 DEF Menu, MenuLike, MenuReturns
<1>11. Count(d) = Count(b)
  BY <1>8 DEF Count
<1> QED
  BY <1>4, <1>6, <1>7, <1>8, <1>9, <1>10, <1>11 DEF MenuOk
\* What a menu returns is about the row that is highlighted.
Press(b, button, res, scroll, at) == [b EXCEPT !.button = button, !.res = res, !.saved = scroll, !.at = at]

LEMMA MenuPress ==
  ASSUME NEW b, MenuOk(b), b.res = "wait", NEW button \in 0 .. 4, NEW res \in MenuReturns, res # "crash",
         NEW scroll \in Nat, NEW at \in Int, res \in {"wait", "esc"} \/ at = b.scroll + b.choice
  PROVE  LET d == Press(b, button, res, scroll, at) IN MenuOk(d) /\ d.items = b.items /\ d.redrawn = b.redrawn
<1> USE DEF Press
<1> DEFINE d == Press(b, button, res, scroll, at)
<1>0. Menu(b) /\ b \in MenuLike(b) /\ MenuFits(b) /\ (~b.redrawn => Clean(b, IF Count(b) = 0 THEN {} ELSE {b.choice}))
  BY DEF MenuOk
<1>1. /\ d.items = b.items /\ d.redrawn = b.redrawn /\ d.max = b.max /\ d.scroll = b.scroll /\ d.choice = b.choice
      /\ d.screen = b.screen /\ d.lit = b.lit /\ d.res = res /\ d.at = at /\ d.selected = b.selected /\ d.first = b.first
      /\ d.saved = scroll /\ d.button = button /\ d.kind = b.kind
  BY <1>0 DEF Menu
<1>2. Menu(d)
  BY <1>0 DEF Menu
<1>3. d \in MenuLike(d)
  BY <1>0, <1>1, <1>2 DEF MenuLike, Menu
<1> HIDE DEF d
<1>4. MenuFits(d) /\ Count(d) = Count(b)
  BY <1>0, <1>1 DEF MenuFits, Count
<1>5. ~d.redrawn => Clean(d, IF Count(d) = 0 THEN {} ELSE {d.choice})
  BY <1>0, <1>1, <1>4 DEF Clean
<1>6. d.res \notin {"wait", "esc", "crash"} => d.at = d.scroll + d.choice
  BY <1>1
<1>7. MenuOk(d)
  BY <1>2, <1>3, <1>4, <1>5, <1>6 DEF MenuOk
<1> QED
  BY <1>1, <1>7 DEF d

LEMMA MenuKeyOk ==
  ASSUME NEW b, MenuOk(b), b.res = "wait", NEW key
  PROVE  LET d == MenuKey(b, key) IN MenuOk(d) /\ d.items = b.items /\ d.redrawn = b.redrawn
<1> DEFINE Goal(d) == MenuOk(d) /\ d.items = b.items /\ d.redrawn = b.redrawn
<1>0. /\ Menu(b) /\ b.button \in 0 .. 4 /\ b.saved \in Nat /\ b.at \in Int /\ b.scroll \in Nat /\ b.choice \in Nat
      /\ Count(b) \in Nat /\ "wait" \in MenuReturns /\ "esc" \in MenuReturns
  BY DEF MenuOk, Menu, MenuReturns, Count
<1>1. CASE Count(b) # 0 /\ (key \in Moves \/ HotRows(b, key) # {})
  <2>1. Goal(MenuMove(b, key))
    BY <1>1, MenuMoveOk
  <2> QED
    BY <1>1, <2>1 DEF MenuKey
<1> DEFINE turned == [b EXCEPT !.button = Turn(@, key, 5)]
           left == [b EXCEPT !.res = "esc"]
           res == IF key = "enter" THEN Buttons[b.button + 1] ELSE MenuResults[key]
           pressed == [b EXCEPT !.res = res, !.saved = b.scroll, !.at = b.scroll + b.choice]
<1>2. Goal(turned)
  <2> DEFINE x == Turn(b.button, key, 5)
  <2>1. x \in 0 .. 4
    BY <1>0 DEF Turn
  <2>2. turned = Press(b, x, "wait", b.saved, b.at)
    BY <1>0 DEF Menu, Press
  <2> HIDE DEF x
  <2>3. Goal(Press(b, x, "wait", b.saved, b.at))
    BY <1>0, <2>1, MenuPress
  <2> QED
    BY <2>2, <2>3
<1>3. Goal(left)
  <2>1. left = Press(b, b.button, "esc", b.saved, b.at)
    BY <1>0 DEF Menu, Press
  <2>2. Goal(Press(b, b.button, "esc", b.saved, b.at))
    BY <1>0, MenuPress
  <2> QED
    BY <2>1, <2>2
<1>4. ASSUME key \in DOMAIN MenuResults \cup {"enter"} PROVE Goal(pressed)
  <2> DEFINE at == b.scroll + b.choice
  <2>1. res \in MenuReturns /\ res # "crash"
    <3>1. key = "enter" => res \in {"select", "exit", "help", "save", "load"}
      <4>1. b.button \in {0, 1, 2, 3, 4}
        BY <1>0
      <4> QED
        BY <4>1 DEF Buttons
    <3>2. key # "enter" => res \in {"help", "yes", "no", "mod", "toggle", "search", "all"}
      BY <1>4 DEF MenuResults
    <3> QED
      BY <3>1, <3>2 DEF MenuReturns
  <2> HIDE DEF res
  <2>2. pressed = Press(b, b.button, res, b.scroll, at)
    BY <1>0 DEF Menu, Press
  <2>3. at \in Int /\ at = b.scroll + b.choice
    BY <1>0
  <2>4. Goal(Press(b, b.button, res, b.scroll, at))
    <3> HIDE DEF at
    <3> QED
      BY <1>0, <2>1, <2>3, MenuPress
  <2> QED
    BY <2>2, <2>4
<1>5. MenuKey(b, key) \in {MenuMove(b, key), turned, left, pressed, b}
  BY DEF MenuKey
<1>6. MenuKey(b, key) = IF Count(b) # 0 /\ (key \in Moves \/ HotRows(b, key) # {}) THEN MenuMove(b, key)
                        ELSE IF key \in {"left", "right"} THEN turned
                        ELSE IF key \in {"esc", "e", "x"} THEN left
                        ELSE IF key \in DOMAIN MenuResults \cup {"enter"} THEN pressed ELSE b
  BY DEF MenuKey
<1> HIDE DEF turned, left, pressed
<1>7. Goal(b)
  OBVIOUS
<1> HIDE DEF Goal
<1>8. Goal(MenuKey(b, key))
  <2>1. Count(b) # 0 /\ (key \in Moves \/ HotRows(b, key) # {}) => Goal(MenuMove(b, key))
    BY MenuMoveOk DEF Goal
  <2> QED
    BY <1>2, <1>3, <1>4, <1>6, <1>7, <2>1
<1> QED
  BY <1>8 DEF Goal

\* As it is opened, whatever was highlighted and at the top before
LEMMA MenuOpenOk ==
  ASSUME NEW items \in Seq(Items), NEW selected, NEW from \in Nat, NEW height \in Nat, height # 0
  PROVE  LET d == MenuOpen(items, selected, from, height)
         IN  MenuOk(d) /\ d.items = items /\ ~d.redrawn /\ d.res = "wait"
<1> DEFINE b == [kind |-> "menu", res |-> "wait", items |-> items, selected |-> selected, saved |-> from,
                 button |-> 0, max |-> 0, scroll |-> 0, choice |-> 0, first |-> 0, at |-> Blank0,
                 screen |-> <<>>, lit |-> {}, redrawn |-> FALSE]
           d == MenuDraw(b, height)
<1>1. /\ Menu(b) /\ b.res = "wait" /\ b.first = 0 /\ b.items = items /\ b.redrawn = FALSE /\ b.choice = 0
      /\ Len(items) \in Nat
  <2>1. b.screen = <<>> /\ b.lit = {} /\ b.selected = selected
    OBVIOUS
  <2>2. Len(items) \in Nat
    OBVIOUS
  <2> QED
    BY <2>1, <2>2 DEF Menu, MenuReturns, Blank0
<1>2. MenuOpen(items, selected, from, height) = d
  BY DEF MenuOpen
<1> HIDE DEF b
<1>3. IF Count(b) = 0 THEN b.choice = 0 ELSE b.choice < Count(b)
  BY <1>1 DEF Count
<1>4. /\ d.items = b.items /\ d.redrawn = b.redrawn
      /\ Menu(d) /\ d \in MenuLike(d) /\ MenuFits(d) /\ Clean(d, IF Count(b) = 0 THEN {} ELSE {d.choice})
      /\ d.res \in {"wait", "crash"}
  BY <1>1, <1>3, MenuDrawOk
<1> HIDE DEF d
<1>5. d.res = "wait"
  BY <1>4 DEF Clean
<1>6. MenuOk(d)
  BY <1>1, <1>4, <1>5 DEF MenuOk, Count
<1> QED
  BY <1>1, <1>2, <1>4, <1>5, <1>6

\* ... and as it is drawn anew
LEMMA MenuResizeOk ==
  ASSUME NEW b, MenuOk(b), b.res = "wait", NEW height \in Nat, height # 0
  PROVE  LET d == [MenuDraw(b, height) EXCEPT !.redrawn = TRUE]
         IN  MenuOk(d) /\ d.items = b.items /\ d.redrawn
<1> DEFINE c == MenuDraw(b, height)
           d == [c EXCEPT !.redrawn = TRUE]
<1>0. Menu(b) /\ MenuFits(b)
  BY DEF MenuOk
<1>1. IF Count(b) = 0 THEN b.choice = 0 ELSE b.choice < Count(b)
  BY <1>0 DEF MenuFits, Menu, Count
<1>2. c.items = b.items /\ Menu(c) /\ c \in MenuLike(c) /\ MenuFits(c) /\ c.res \in {"wait", "crash"}
  BY <1>0, <1>1, MenuDrawOk
<1> HIDE DEF c
<1>3. /\ d.items = b.items /\ d.redrawn = TRUE /\ d.max = c.max /\ d.scroll = c.scroll /\ d.choice = c.choice
      /\ d.res = c.res /\ d.screen = c.screen /\ d.lit = c.lit /\ d.selected = c.selected
  BY <1>2 DEF Menu
<1>4. Menu(d)
  BY <1>2 DEF Menu
<1>5. d \in MenuLike(d)
  BY <1>2, <1>3, <1>4 DEF MenuLike, Menu
<1> HIDE DEF d
<1>6. MenuFits(d)
  BY <1>2, <1>3 DEF MenuFits, Count
<1>7. MenuOk(d)
  BY <1>2, <1>3, <1>4, <1>5, <1>6 DEF MenuOk
<1> QED
  BY <1>3, <1>7 DEF d, c
-----------------------------------------------------------------------------
(* The rows of a list: there always is one, and so no key prints another   *)
(* item than there is.                                                     *)

List(b) ==
    b \in [ kind : {"list"}, res : {"wait", "help", "select", "esc"}, items : Seq(Items), button : 0 .. 1, max : Nat,
            scroll : Nat, choice : Nat, at : Int, screen : {b.screen}, lit : {b.lit} ]

ListOk(b) ==
    /\ List(b) /\ Count(b) # 0
    /\ b.max = Lesser(ListHeight, Count(b)) /\ b.choice < b.max /\ b.scroll + b.max <= Count(b)
    /\ Clean(b, {b.choice})
    /\ b.res \notin {"wait", "esc"} => b.at = b.scroll + b.choice

ListLike(b) ==
    [ kind : {"list"}, res : {b.res, "crash"}, items : {b.items}, button : {b.button}, max : {b.max}, scroll : {b.scroll},
      choice : {b.choice}, at : {b.at}, screen : [0 .. b.max - 1 -> Int], lit : SUBSET Int ]

LEMMA ListDrawn ==
  ASSUME NEW b, List(b), NEW first \in Nat, first + b.max <= Count(b)
  PROVE  DrawRows(b, first) = [b EXCEPT !.screen = [row \in 0 .. b.max - 1 |-> first + row],
                                        !.lit = {b.choice} \cap (0 .. b.max - 1)]
<1> DEFINE a == Cleared(b)
           V == ListLike(a)
           d == DrawRows(b, first)
<1>0. b.max \in Nat /\ Len(b.items) \in Nat /\ first \in Int /\ b.res # "crash"
  BY DEF List
<1>1. /\ a \in V /\ a.lit = {} /\ a.screen = [row \in 0 .. b.max - 1 |-> Blank0]
      /\ a.items = b.items /\ a.res = b.res /\ a.max = b.max /\ a.scroll = b.scroll /\ a.choice = b.choice
      /\ a.button = b.button /\ a.at = b.at /\ a.kind = b.kind
  <2> DEFINE blank == [row \in 0 .. b.max - 1 |-> Blank0]
  <2>1. blank \in [0 .. b.max - 1 -> Int]
    BY DEF Blank0
  <2>2. a = [b EXCEPT !.screen = blank, !.lit = {}]
    BY DEF Cleared
  <2> HIDE DEF blank, a
  <2>3. /\ a \in V /\ a.lit = {} /\ a.screen = blank
        /\ a.items = b.items /\ a.res = b.res /\ a.max = b.max /\ a.scroll = b.scroll /\ a.choice = b.choice
        /\ a.button = b.button /\ a.at = b.at /\ a.kind = b.kind
    BY <2>1, <2>2 DEF List, ListLike
  <2> QED
    BY <2>3 DEF blank
<1>2. PrintsIn(V)
  <2> HIDE DEF a
  <2> SUFFICES ASSUME NEW c \in V, NEW item \in Int, NEW row \in Int, NEW selected \in BOOLEAN
               PROVE  PrintItem(c, item, row, selected) \in V
    BY DEF PrintsIn
  <2>1. [c EXCEPT !.res = "crash"] \in V
    BY DEF ListLike
  <2>2. [c EXCEPT !.screen[row] = item, !.lit = IF selected THEN @ \cup {row} ELSE @ \ {row}] \in V
    BY DEF ListLike
  <2> QED
    BY <2>1, <2>2 DEF PrintItem
<1>3. \A c \in V : {"res", "screen", "lit"} \subseteq DOMAIN c /\ c.items = b.items
  BY <1>1 DEF ListLike
<1> HIDE DEF V
<1>4. PICK f : Drawn(b, first, V, f)
  BY <1>0, <1>1, <1>2, DrawLoop
<1>5. d \in V
  BY <1>0, <1>4 DEF Drawn
<1>6. /\ d.res = b.res /\ d.screen = [row \in 0 .. b.max - 1 |-> first + row]
      /\ d.lit = {b.choice} \cap (0 .. b.max - 1)
  BY <1>0, <1>1, <1>3, <1>4, RowsDrawn
<1> HIDE DEF a, d
<1> DEFINE screen == [row \in 0 .. b.max - 1 |-> first + row]
           lit == {b.choice} \cap (0 .. b.max - 1)
<1> HIDE DEF screen, lit
<1>7. d = [b EXCEPT !.screen = screen, !.lit = lit]
  <2> DEFINE e == [ kind |-> "list", res |-> b.res, items |-> b.items, button |-> b.button, max |-> b.max,
                    scroll |-> b.scroll, choice |-> b.choice, at |-> b.at, screen |-> screen, lit |-> lit ]
  <2>1. d.screen = screen /\ d.lit = lit /\ d.res = b.res
    BY <1>6 DEF screen, lit
  <2>2. d = e
    BY <1>1, <1>5, <2>1 DEF V, ListLike
  <2> DEFINE x == [b EXCEPT !.screen = screen, !.lit = lit]
  <2>3. x \in [ kind : {"list"}, res : {b.res}, items : {b.items}, button : {b.button}, max : {b.max},
                scroll : {b.scroll}, choice : {b.choice}, at : {b.at}, screen : {screen}, lit : {lit} ]
    BY DEF List
  <2> HIDE DEF x
  <2>4. x = e
    BY <2>3
  <2> QED
    BY <2>2, <2>4 DEF x
<1> QED
  BY <1>7 DEF d, screen, lit

\* What a list is like with another row at the top, or highlighted
Moved(b, scroll, choice) ==
    [b EXCEPT !.scroll = scroll, !.choice = choice, !.screen = [row \in 0 .. b.max - 1 |-> scroll + row], !.lit = {choice}]

LEMMA ListMoved ==
  ASSUME NEW b, List(b), Count(b) # 0, b.max = Lesser(ListHeight, Count(b)), b.res = "wait",
         NEW scroll \in Nat, NEW choice \in Nat, choice < b.max, scroll + b.max <= Count(b)
  PROVE  LET d == Moved(b, scroll, choice) IN ListOk(d) /\ d.items = b.items
<1> DEFINE screen == [row \in 0 .. b.max - 1 |-> scroll + row]
           lit == {choice}
           d == Moved(b, scroll, choice)
<1>1. d = [b EXCEPT !.scroll = scroll, !.choice = choice, !.screen = screen, !.lit = lit]
  BY DEF Moved
<1> HIDE DEF screen, lit, d
<1>2. /\ d.items = b.items /\ d.max = b.max /\ d.scroll = scroll /\ d.choice = choice /\ d.screen = screen
      /\ d.lit = lit /\ d.res = b.res
  BY <1>1 DEF List
<1>3. List(d)
  BY <1>1, <1>2 DEF List
<1>4. Count(d) = Count(b)
  BY <1>2 DEF Count
<1>5. Clean(d, {d.choice})
  BY <1>2 DEF Clean, screen, lit
<1> QED
  BY <1>2, <1>3, <1>4, <1>5 DEF ListOk, d

LEMMA ListToOk ==
  ASSUME NEW b, ListOk(b), b.res = "wait", NEW row \in 0 .. b.max - 1
  PROVE  LET d == ListTo(b, row) IN ListOk(d) /\ d.items = b.items
<1> DEFINE here == b.scroll + b.choice
           there == b.scroll + row
           c == PrintItem(b, here, b.choice, FALSE)
           d == PrintItem([c EXCEPT !.choice = row], there, row, TRUE)
           screen == [r \in 0 .. b.max - 1 |-> b.scroll + r]
<1>0. /\ List(b) /\ b.max \in Nat /\ b.scroll \in Nat /\ b.choice \in Nat /\ b.choice < b.max /\ Count(b) \in Nat
      /\ b.scroll + b.max <= Count(b) /\ b.screen = screen /\ b.lit = {b.choice} /\ row \in Nat /\ row < b.max
  BY DEF ListOk, List, Clean, Count
<1>1. here \in 0 .. Count(b) - 1 /\ there \in 0 .. Count(b) - 1
  BY <1>0
<1>2. [screen EXCEPT ![b.choice] = here] = screen /\ [screen EXCEPT ![row] = there] = screen
  BY <1>0
<1>3. c = [b EXCEPT !.lit = {}]
  <2>1. c = [b EXCEPT !.screen[b.choice] = here, !.lit = @ \ {b.choice}]
    BY <1>1 DEF PrintItem
  <2> HIDE DEF here, c, screen
  <2>2. c = [b EXCEPT !.screen = screen, !.lit = {}]
    BY <1>0, <1>2, <2>1 DEF List
  <2>3. [b EXCEPT !.screen = screen, !.lit = {}] = [b EXCEPT !.lit = {}]
    BY <1>0 DEF List
  <2> QED
    BY <2>2, <2>3
<1> HIDE DEF c
<1>4. d = Moved(b, b.scroll, row)
  <2> DEFINE e == [c EXCEPT !.choice = row]
  <2>1. e = [b EXCEPT !.choice = row, !.lit = {}]
    BY <1>0, <1>3 DEF List
  <2> HIDE DEF e
  <2>2. Count(e) = Count(b) /\ e.screen = screen /\ e.lit = {}
    BY <1>0, <2>1 DEF List, Count
  <2>3. d = [e EXCEPT !.screen[row] = there, !.lit = @ \cup {row}]
    BY <1>1, <2>2 DEF PrintItem, e
  <2> HIDE DEF d, there, screen
  <2>4. d = [e EXCEPT !.screen = screen, !.lit = {row}]
    <3>1. {} \cup {row} = {row}
      OBVIOUS
    <3>2. d = [e EXCEPT !.screen = [screen EXCEPT ![row] = there], !.lit = {} \cup {row}]
      BY <1>0, <2>1, <2>2, <2>3 DEF List
    <3> QED
      BY <1>2, <3>1, <3>2
  <2>5. d = [b EXCEPT !.scroll = b.scroll, !.choice = row, !.screen = screen, !.lit = {row}]
    BY <1>0, <2>1, <2>4 DEF List
  <2> QED
    BY <2>5 DEF Moved, screen
<1>5. LET m == Moved(b, b.scroll, row) IN ListOk(m) /\ m.items = b.items
  BY <1>0, ListMoved DEF ListOk
<1>6. ListTo(b, row) = IF row = b.choice THEN b ELSE d
  BY DEF ListTo, c
<1> HIDE DEF d
<1> QED
  BY <1>4, <1>5, <1>6

\* The highlight is taken off a row at the end, all are shifted, and the new one
\* is highlighted.
LEMMA ListShiftOk ==
  ASSUME NEW b, ListOk(b), b.res = "wait", NEW n \in {-1, 1}, b.scroll + n \in 0 .. Count(b) - b.max,
         b.choice = IF n = 1 THEN b.max - 1 ELSE 0
  PROVE  LET s == Shift(PrintItem(b, b.scroll + b.choice, b.choice, FALSE), n)
             d == PrintItem(s, s.scroll + s.choice, s.choice, TRUE)
         IN  ListOk(d) /\ d.items = b.items /\ s.scroll = b.scroll + n /\ s.max = b.max /\ s.choice = b.choice
<1> DEFINE here == b.scroll + b.choice
           to == b.scroll + n
           there == to + b.choice
           c == PrintItem(b, here, b.choice, FALSE)
           s == Shift(c, n)
           d == PrintItem(s, s.scroll + s.choice, s.choice, TRUE)
           rows == [r \in 0 .. b.max - 1 |-> b.scroll + r]
           shifted == [r \in 0 .. b.max - 1 |-> IF r + n \in 0 .. b.max - 1 THEN rows[r + n] ELSE Blank0]
           screen == [r \in 0 .. b.max - 1 |-> to + r]
<1>0. /\ List(b) /\ b.max \in Nat /\ b.scroll \in Nat /\ b.choice \in Nat /\ b.choice < b.max /\ Count(b) \in Nat
      /\ b.scroll + b.max <= Count(b) /\ b.screen = rows /\ b.lit = {b.choice} /\ to \in Nat /\ to + b.max <= Count(b)
  BY DEF ListOk, List, Clean, Count
<1>1. here \in 0 .. Count(b) - 1 /\ there \in 0 .. Count(b) - 1
  <2> HIDE DEF rows, to
  <2>1. /\ b.max \in Nat /\ b.scroll \in Nat /\ b.choice \in Nat /\ b.choice < b.max /\ Count(b) \in Nat
        /\ b.scroll + b.max <= Count(b) /\ to \in Nat /\ to + b.max <= Count(b)
    BY <1>0
  <2> HIDE <1>0
  <2> QED
    BY <2>1
<1>2. [rows EXCEPT ![b.choice] = here] = rows
  BY <1>0
<1>3. [shifted EXCEPT ![b.choice] = there] = screen
  <2>1. \A r \in 0 .. b.max - 1 : r # b.choice => r + n \in 0 .. b.max - 1
    BY <1>0
  <2>2. \A r \in 0 .. b.max - 1 : r # b.choice => shifted[r] = to + r
    <3> TAKE r \in 0 .. b.max - 1
    <3> HAVE r # b.choice
    <3>1. r + n \in 0 .. b.max - 1
      BY <2>1
    <3>2. shifted[r] = b.scroll + (r + n)
      BY <3>1
    <3> QED
      BY <1>0, <3>2
  <2> HIDE DEF shifted
  <2>3. \A r \in 0 .. b.max - 1 : [shifted EXCEPT ![b.choice] = there][r] = to + r
    BY <1>0, <2>2 DEF shifted
  <2> QED
    BY <2>3 DEF shifted
<1>4. c = [b EXCEPT !.lit = {}]
  <2>1. c = [b EXCEPT !.screen[b.choice] = here, !.lit = @ \ {b.choice}]
    BY <1>1 DEF PrintItem
  <2> HIDE DEF here, c, rows
  <2>2. c = [b EXCEPT !.screen = rows, !.lit = {}]
    BY <1>0, <1>2, <2>1 DEF List
  <2>3. [b EXCEPT !.screen = rows, !.lit = {}] = [b EXCEPT !.lit = {}]
    BY <1>0 DEF List
  <2> QED
    BY <2>2, <2>3
<1> HIDE DEF c
<1>5. s = [b EXCEPT !.scroll = to, !.screen = shifted, !.lit = {}]
  <2>1. c.screen = rows /\ c.lit = {} /\ c.scroll = b.scroll /\ DOMAIN rows = 0 .. b.max - 1
    BY <1>0, <1>4 DEF List
  <2> DEFINE moved == [r \in DOMAIN rows |-> IF r + n \in DOMAIN rows THEN rows[r + n] ELSE Blank0]
             lit == {r - n : r \in {}} \cap DOMAIN rows
  <2>2. s = [c EXCEPT !.scroll = b.scroll + n, !.screen = moved, !.lit = lit]
    BY <1>0, <1>4, <2>1 DEF Shift, List
  <2>3. moved = shifted /\ lit = {}
    BY <2>1
  <2> HIDE DEF s, moved, lit, shifted, rows
  <2> QED
    BY <1>0, <1>4, <2>2, <2>3 DEF List
<1> HIDE DEF s, shifted
<1>6. Count(s) = Count(b) /\ s.scroll = to /\ s.choice = b.choice /\ s.max = b.max /\ s.lit = {} /\ s.screen = shifted
  BY <1>0, <1>5 DEF List, Count
<1>7. d = Moved(b, to, b.choice)
  <2>1. d = [s EXCEPT !.screen[b.choice] = there, !.lit = @ \cup {b.choice}]
    BY <1>1, <1>6 DEF PrintItem
  <2> HIDE DEF d, there, screen, to
  <2>2. {} \cup {b.choice} = {b.choice}
    OBVIOUS
  <2>3. d = [s EXCEPT !.screen = [shifted EXCEPT ![b.choice] = there], !.lit = {} \cup {b.choice}]
    BY <1>0, <1>5, <1>6, <2>1 DEF List
  <2>4. d = [b EXCEPT !.scroll = to, !.choice = b.choice, !.screen = screen, !.lit = {b.choice}]
    BY <1>0, <1>3, <1>5, <2>2, <2>3 DEF List
  <2> QED
    BY <2>4 DEF Moved, screen
<1>8. LET m == Moved(b, to, b.choice) IN ListOk(m) /\ m.items = b.items
  BY <1>0, ListMoved DEF ListOk
<1> HIDE DEF d
<1>9. ListOk(d) /\ d.items = b.items /\ s.scroll = b.scroll + n /\ s.max = b.max /\ s.choice = b.choice
  BY <1>6, <1>7, <1>8
<1> QED
  BY <1>9 DEF d, s, c
\* A list returns what is highlighted, or the button that was turned to.
Pick(b, button, res, at) == [b EXCEPT !.button = button, !.res = res, !.at = at]

LEMMA ListPick ==
  ASSUME NEW b, ListOk(b), b.res = "wait", NEW button \in 0 .. 1, NEW res \in {"wait", "help", "select", "esc"},
         NEW at \in Int, res \in {"wait", "esc"} \/ at = b.scroll + b.choice
  PROVE  LET d == Pick(b, button, res, at) IN ListOk(d) /\ d.items = b.items
<1> DEFINE d == Pick(b, button, res, at)
<1>0. List(b)
  BY DEF ListOk
<1>1. /\ d.items = b.items /\ d.max = b.max /\ d.scroll = b.scroll /\ d.choice = b.choice /\ d.screen = b.screen
      /\ d.lit = b.lit /\ d.res = res /\ d.at = at
  BY <1>0 DEF List, Pick
<1>2. List(d)
  BY <1>0, <1>1 DEF List, Pick
<1> HIDE DEF d
<1>3. Count(d) = Count(b)
  BY <1>1 DEF Count
<1>4. Clean(d, {d.choice})
  BY <1>1 DEF ListOk, Clean
<1> QED
  BY <1>1, <1>2, <1>3, <1>4 DEF ListOk, d

LEMMA ListUpOk ==
  ASSUME NEW b, ListOk(b), b.res = "wait"
  PROVE  LET d == ListUp(b) IN ListOk(d) /\ d.items = b.items
<1>0. b.scroll \in Nat /\ b.choice \in Nat /\ b.max \in Nat /\ Count(b) \in Nat /\ b.choice < b.max /\ b.scroll + b.max <= Count(b)
  BY DEF ListOk, List, Count
<1>1. CASE b.choice > 0
  <2> DEFINE row == b.choice - 1
  <2>1. row \in 0 .. b.max - 1
    BY <1>0, <1>1
  <2>2. LET d == ListTo(b, row) IN ListOk(d) /\ d.items = b.items
    BY <2>1, ListToOk
  <2> QED
    BY <1>1, <2>2 DEF ListUp
<1>2. CASE ~(b.choice > 0) /\ b.scroll # 0
  <2> DEFINE n == -1
             s == Shift(PrintItem(b, b.scroll + b.choice, b.choice, FALSE), n)
             d == PrintItem(s, s.scroll + s.choice, s.choice, TRUE)
  <2>1. n \in {-1, 1} /\ b.scroll + n \in 0 .. Count(b) - b.max /\ b.choice = IF n = 1 THEN b.max - 1 ELSE 0
    BY <1>0, <1>2
  <2>2. ListOk(d) /\ d.items = b.items /\ s.scroll = b.scroll + n /\ s.choice = b.choice
    <3> HIDE DEF n
    <3> QED
      BY <2>1, ListShiftOk
  <2>3. b.choice = 0 /\ b.scroll + b.choice = b.scroll
    BY <1>0, <1>2
  <2> DEFINE t == Shift(PrintItem(b, b.scroll, 0, FALSE), n)
  <2>4. t = s
    BY <2>3
  <2>5. ListUp(b) = PrintItem(t, t.scroll, 0, TRUE)
    BY <1>2 DEF ListUp
  <2> HIDE DEF s, t
  <2>6. s.scroll + s.choice = s.scroll /\ s.choice = 0
    BY <1>0, <2>1, <2>2, <2>3
  <2>7. ListUp(b) = d
    BY <2>4, <2>5, <2>6
  <2> QED
    BY <2>2, <2>7
<1>3. CASE ~(b.choice > 0) /\ b.scroll = 0
  BY <1>3 DEF ListUp
<1> QED
  BY <1>1, <1>2, <1>3

LEMMA ListDownOk ==
  ASSUME NEW b, ListOk(b), b.res = "wait"
  PROVE  LET d == ListDown(b) IN ListOk(d) /\ d.items = b.items
<1>0. b.scroll \in Nat /\ b.choice \in Nat /\ b.max \in Nat /\ Count(b) \in Nat /\ b.choice < b.max /\ b.scroll + b.max <= Count(b)
  BY DEF ListOk, List, Count
<1>1. CASE b.choice # b.max - 1
  <2> DEFINE row == b.choice + 1
  <2>1. row \in 0 .. b.max - 1
    BY <1>0, <1>1
  <2>2. LET d == ListTo(b, row) IN ListOk(d) /\ d.items = b.items
    BY <2>1, ListToOk
  <2> QED
    BY <1>1, <2>2 DEF ListDown
<1>2. CASE b.choice = b.max - 1 /\ ~(b.scroll + b.choice >= Count(b) - 1)
  <2> DEFINE s == Shift(PrintItem(b, b.scroll + b.choice, b.choice, FALSE), 1)
             d == PrintItem(s, s.scroll + s.choice, s.choice, TRUE)
  <2>1. b.scroll + 1 \in 0 .. Count(b) - b.max
    BY <1>0, <1>2
  <2>2. ListOk(d) /\ d.items = b.items /\ s.scroll = b.scroll + 1 /\ s.choice = b.choice /\ s.max = b.max
    BY <1>2, <2>1, ListShiftOk
  <2> DEFINE t == Shift(PrintItem(b, b.scroll + b.max - 1, b.max - 1, FALSE), 1)
  <2>3. b.max - 1 = b.choice /\ b.scroll + b.max - 1 = b.scroll + b.choice
    BY <1>0, <1>2
  <2>4. t = s
    BY <2>3
  <2>5. ListDown(b) = PrintItem(t, t.scroll + t.max - 1, t.max - 1, TRUE)
    BY <1>2 DEF ListDown
  <2> HIDE DEF s, t
  <2>6. s.scroll + s.max - 1 = s.scroll + s.choice /\ s.max - 1 = s.choice
    BY <1>0, <2>2, <2>3
  <2>7. ListDown(b) = d
    BY <2>4, <2>5, <2>6
  <2> QED
    BY <2>2, <2>7
<1>3. CASE b.choice = b.max - 1 /\ b.scroll + b.choice >= Count(b) - 1
  BY <1>3 DEF ListDown
<1> QED
  BY <1>1, <1>2, <1>3

LEMMA ListKeyOk ==
  ASSUME NEW b, ListOk(b), b.res = "wait", NEW key
  PROVE  LET d == ListKey(b, key) IN ListOk(d) /\ d.items = b.items
<1> DEFINE Goal(d) == ListOk(d) /\ d.items = b.items
           to == ListTo(b, Min(ListHot(b, key)))
           turned == [b EXCEPT !.button = Turn(@, key, 2)]
           left == [b EXCEPT !.res = "esc"]
           res == IF key = "h" \/ b.button = 1 THEN "help" ELSE "select"
           picked == [b EXCEPT !.res = res, !.at = b.scroll + b.choice]
<1>0. List(b) /\ b.scroll \in Nat /\ b.choice \in Nat /\ b.max \in Nat /\ b.button \in 0 .. 1 /\ b.at \in Int
  BY DEF ListOk, List
<1>1. ListHot(b, key) # {} => Goal(to)
  <2> SUFFICES ASSUME ListHot(b, key) # {} PROVE Goal(to)
    OBVIOUS
  <2>1. ListHot(b, key) \in SUBSET (0 .. b.max - 1) /\ ListHot(b, key) \in SUBSET Nat
    BY <1>0 DEF ListHot
  <2>2. Min(ListHot(b, key)) \in 0 .. b.max - 1
    BY <2>1, MinIn
  <2> QED
    BY <2>2, ListToOk
<1>2. Goal(turned)
  <2> DEFINE x == Turn(b.button, key, 2)
  <2>1. x \in 0 .. 1
    BY <1>0 DEF Turn
  <2>2. turned = Pick(b, x, "wait", b.at)
    BY <1>0 DEF List, Pick
  <2> HIDE DEF x
  <2>3. Goal(Pick(b, x, "wait", b.at))
    BY <1>0, <2>1, ListPick
  <2> QED
    BY <2>2, <2>3
<1>3. Goal(left)
  <2>1. left = Pick(b, b.button, "esc", b.at)
    BY <1>0 DEF List, Pick
  <2>2. Goal(Pick(b, b.button, "esc", b.at))
    BY <1>0, ListPick
  <2> QED
    BY <2>1, <2>2
<1>4. Goal(picked)
  <2> DEFINE at == b.scroll + b.choice
  <2>1. res \in {"help", "select"} /\ res \in {"wait", "help", "select", "esc"}
    OBVIOUS
  <2> HIDE DEF res
  <2>2. picked = Pick(b, b.button, res, at)
    BY <1>0 DEF List, Pick
  <2>3. at \in Int /\ at = b.scroll + b.choice
    BY <1>0
  <2>4. Goal(Pick(b, b.button, res, at))
    <3> HIDE DEF at
    <3> QED
      BY <1>0, <2>1, <2>3, ListPick
  <2> QED
    BY <2>2, <2>4
<1>5. Goal(ListUp(b)) /\ Goal(ListDown(b)) /\ Goal(b)
  BY ListUpOk, ListDownOk
<1>6. ListKey(b, key) = IF key = "up" THEN ListUp(b)
                        ELSE IF key = "down" THEN ListDown(b)
                        ELSE IF ListHot(b, key) # {} THEN to
                        ELSE IF key \in {"left", "right"} THEN turned
                        ELSE IF key \in {"x", "esc"} THEN left
                        ELSE IF key \in {"h", "s", "space", "enter"} THEN picked ELSE b
  BY DEF ListKey
<1> HIDE DEF turned, left, picked, to, Goal
<1>7. Goal(ListKey(b, key))
  BY <1>1, <1>2, <1>3, <1>4, <1>5, <1>6
<1> QED
  BY <1>7 DEF Goal

LEMMA ListDrawOk ==
  ASSUME NEW b, List(b), b.res = "wait", Count(b) # 0, b.choice < Count(b),
         IF b.choice >= ListHeight THEN b.scroll = 0 ELSE b.scroll + Lesser(ListHeight, Count(b)) <= Count(b)
  PROVE  LET d == ListDraw(b) IN ListOk(d) /\ d.items = b.items /\ d.res = "wait"
<1> DEFINE over == Greater(b.choice - ListHeight + 1, 0)
           max == Lesser(ListHeight, Count(b))
           choice == b.choice - over
           scroll == IF over > 0 THEN over ELSE b.scroll
           c == [b EXCEPT !.max = max, !.choice = choice, !.scroll = scroll]
<1>0. ListHeight \in Nat /\ ListHeight # 0 /\ Count(b) \in Nat /\ b.choice \in Nat /\ b.scroll \in Nat
  BY SizesAssumption DEF List, Count
<1>1. max \in Nat /\ choice \in Nat /\ scroll \in Nat /\ choice < max /\ scroll + max <= Count(b)
  BY <1>0 DEF Greater, Lesser
<1>2. ListDraw(b) = DrawRows(c, c.scroll)
  <2>1. c = [b EXCEPT !.max = Lesser(ListHeight, Count(b)), !.choice = @ - over,
                      !.scroll = IF over > 0 THEN over ELSE @]
    BY DEF List
  <2> QED
    BY <2>1 DEF ListDraw
<1>30. max = Lesser(ListHeight, Count(b))
  OBVIOUS
<1> HIDE DEF max, choice, scroll, c
<1>3. /\ List(c) /\ c.items = b.items /\ c.max = max /\ c.choice = choice /\ c.scroll = scroll /\ c.res = "wait"
      /\ Count(c) = Count(b)
  BY <1>1 DEF List, Count, c
<1> DEFINE d == DrawRows(c, c.scroll)
<1>4. d = [c EXCEPT !.screen = [row \in 0 .. c.max - 1 |-> c.scroll + row], !.lit = {c.choice} \cap (0 .. c.max - 1)]
  BY <1>1, <1>3, ListDrawn
<1>5. {c.choice} \cap (0 .. c.max - 1) = {c.choice}
  BY <1>1, <1>3
<1>6. d = Moved(c, c.scroll, c.choice)
  <2> DEFINE screen == [row \in 0 .. c.max - 1 |-> c.scroll + row]
  <2>1. d = [c EXCEPT !.screen = screen, !.lit = {c.choice}]
    BY <1>4, <1>5
  <2>2. Moved(c, c.scroll, c.choice) = [c EXCEPT !.scroll = c.scroll, !.choice = c.choice, !.screen = screen, !.lit = {c.choice}]
    BY DEF Moved
  <2> HIDE DEF screen, d
  <2> QED
    BY <1>3, <2>1, <2>2 DEF List
<1>7. LET m == Moved(c, c.scroll, c.choice) IN ListOk(m) /\ m.items = c.items
  BY <1>1, <1>3, <1>30, ListMoved
<1>8. Moved(c, c.scroll, c.choice).res = c.res
  BY <1>3 DEF Moved, List
<1> QED
  BY <1>2, <1>3, <1>6, <1>7, <1>8

LEMMA ListOpenOk ==
  ASSUME NEW items \in Seq(Items), items # <<>>, NEW selected
  PROVE  LET d == ListOpen(items, selected) IN ListOk(d) /\ d.items = items /\ d.res = "wait"
<1> DEFINE picked == {i \in 0 .. Len(items) - 1 : items[i + 1].data \in selected}
           chosen == {i \in 0 .. Len(items) - 1 : items[i + 1].tag = "X"}
           choice == IF picked # {} THEN Min(picked) ELSE IF chosen # {} THEN Max(chosen) ELSE 0
           b == [kind |-> "list", res |-> "wait", items |-> items, button |-> 0, max |-> 0, scroll |-> 0,
                 choice |-> choice, at |-> Blank0, screen |-> <<>>, lit |-> {}]
<1>0. Len(items) \in Nat /\ Len(items) # 0
  OBVIOUS
<1>1. choice \in 0 .. Len(items) - 1
  <2>1. picked \in SUBSET Nat /\ picked \in SUBSET (0 .. Len(items) - 1) /\ chosen \in SUBSET (0 .. Len(items) - 1)
    BY <1>0
  <2> HIDE DEF picked, chosen
  <2>2. picked # {} => Min(picked) \in picked
    BY <2>1, MinIn
  <2>3. chosen # {} => Max(chosen) \in chosen
    BY <1>0, <2>1, MaxIn
  <2>4. picked # {} => Min(picked) \in 0 .. Len(items) - 1
    BY <2>1, <2>2
  <2>5. chosen # {} => Max(chosen) \in 0 .. Len(items) - 1
    BY <2>1, <2>3
  <2>6. 0 \in 0 .. Len(items) - 1
    BY <1>0
  <2> QED
    BY <2>4, <2>5, <2>6
<1>2. ListOpen(items, selected) = ListDraw(b)
  BY DEF ListOpen
<1> HIDE DEF choice
<1>3. b.screen = <<>> /\ b.lit = {} /\ b.items = items /\ b.res = "wait" /\ b.choice = choice /\ b.scroll = 0
  OBVIOUS
<1>4. List(b)
  BY <1>1, <1>3 DEF List, Blank0
<1> HIDE DEF b
<1>5. Count(b) # 0 /\ b.choice < Count(b) /\ b.scroll + Lesser(ListHeight, Count(b)) <= Count(b)
  BY <1>0, <1>1, <1>3, SizesAssumption DEF Count, Lesser
<1> QED
  BY <1>2, <1>3, <1>4, <1>5, ListDrawOk

LEMMA ListResizeOk ==
  ASSUME NEW b, ListOk(b), b.res = "wait"
  PROVE  LET d == ListDraw(b) IN ListOk(d) /\ d.items = b.items
<1>1. List(b) /\ Count(b) # 0 /\ b.choice \in Nat /\ b.max = Lesser(ListHeight, Count(b)) /\ b.choice < b.max
      /\ b.scroll + b.max <= Count(b) /\ Count(b) \in Nat /\ b.scroll \in Nat
  BY DEF ListOk, List, Count
<1>2. b.choice < Count(b) /\ ~(b.choice >= ListHeight)
  BY <1>1, SizesAssumption DEF Lesser
<1> QED
  BY <1>1, <1>2, ListDrawOk
-----------------------------------------------------------------------------
(* The text of an input field *)

Input(b) ==
    b \in [ kind : {"input"}, res : {"wait", "help", "select", "esc"}, text : Texts, button : -1 .. 1,
            pos : Nat, show : Nat, x : Nat, view : {b.view} ]

CursorFits(b) == b.show + b.x = b.pos /\ b.x \in 0 .. BoxWidth - 1 /\ b.pos <= Len(b.text)
InputOk(b) == Input(b) /\ CursorFits(b) /\ b.view = Window(b)

View(text, show) == SubSeq(text, show + 1, Lesser(Len(text), show + BoxWidth))
Typed(b, text, pos, show, x) ==
    [b EXCEPT !.text = text, !.pos = pos, !.show = show, !.x = x, !.view = View(text, show)]

Cursor(text, pos, show, x) ==
    pos \in Nat /\ show \in Nat /\ x \in Nat /\ show + x = pos /\ x < BoxWidth /\ pos <= Len(text)

LEMMA TypedOk ==
  ASSUME NEW b, Input(b), NEW text \in Texts, NEW pos, NEW show, NEW x, Cursor(text, pos, show, x)
  PROVE  LET d == Typed(b, text, pos, show, x) IN InputOk(d) /\ d.res = b.res
<1> DEFINE d == Typed(b, text, pos, show, x)
<1> USE DEF Cursor
<1>1. /\ d.text = text /\ d.pos = pos /\ d.show = show /\ d.x = x /\ d.view = View(text, show) /\ d.res = b.res
      /\ Input(d)
  BY DEF Input, Typed
<1> HIDE DEF d
<1>2. d.view = Window(d)
  BY <1>1 DEF Window, View
<1>3. BoxWidth \in Nat
  BY SizesAssumption
<1> QED
  BY <1>1, <1>2, <1>3 DEF InputOk, CursorFits, d

LEMMA InputDrawOk ==
  ASSUME NEW b, Input(b)
  PROVE  LET d == InputDraw(b) IN InputOk(d) /\ d.res = b.res
<1> DEFINE n == Len(b.text)
           over == Greater(n - BoxWidth + 1, 0)
           x == n - over
           c == [b EXCEPT !.pos = n, !.show = over, !.x = x]
<1>0. n \in Nat /\ BoxWidth \in Nat /\ BoxWidth # 0 /\ b.text \in Texts
  BY TextsAssumption, SizesAssumption DEF Input, AreStrings
<1>1. over \in Nat /\ x \in Nat /\ over + x = n /\ x < BoxWidth
  <2> HIDE DEF n
  <2> QED
    BY <1>0 DEF Greater
<1>2. LET d == Typed(b, b.text, n, over, x) IN InputOk(d) /\ d.res = b.res
  <2>1. Cursor(b.text, n, over, x)
    <3> HIDE DEF over, x
    <3> QED
      BY <1>0, <1>1 DEF Cursor
  <2> HIDE DEF n, over, x
  <2> QED
    BY <1>0, <2>1, TypedOk
<1>3. InputDraw(b) = Typed(b, b.text, n, over, x)
  <2>1. InputDraw(b) = [c EXCEPT !.view = Window(c)]
    BY DEF InputDraw
  <2> HIDE DEF n, over, x
  <2>2. c.text = b.text /\ c.show = over
    BY DEF Input
  <2>3. Window(c) = View(b.text, over)
    BY <2>2 DEF Window, View
  <2>4. InputDraw(b) = [c EXCEPT !.view = View(b.text, over)]
    BY <2>1, <2>3
  <2> QED
    BY <2>4 DEF Input, Typed
<1> QED
  BY <1>2, <1>3

LEMMA InputOpenOk ==
  ASSUME NEW text \in Texts
  PROVE  LET d == InputOpen(text) IN InputOk(d) /\ d.res = "wait"
<1> DEFINE b == [kind |-> "input", res |-> "wait", text |-> text, button |-> -1, pos |-> 0, show |-> 0, x |-> 0, view |-> ""]
<1>1. Input(b) /\ b.res = "wait"
  <2>1. b.view = ""
    OBVIOUS
  <2> QED
    BY <2>1 DEF Input
<1>2. InputOpen(text) = InputDraw(b)
  BY DEF InputOpen
<1> HIDE DEF b
<1> QED
  BY <1>1, <1>2, InputDrawOk

\* The cursor, one further back or forth
LEMMA BackIs ==
  ASSUME NEW b, InputOk(b), b.pos > 0
  PROVE  \E show, x \in Nat : /\ show + x = b.pos - 1 /\ x < BoxWidth
                              /\ Back(b) = Typed(b, b.text, b.pos - 1, show, x)
<1>0. /\ Input(b) /\ b.show \in Nat /\ b.x \in Nat /\ b.pos \in Nat /\ b.show + b.x = b.pos /\ b.x < BoxWidth
      /\ b.view = View(b.text, b.show) /\ BoxWidth \in Nat /\ BoxWidth # 0
  BY SizesAssumption DEF InputOk, Input, CursorFits, Window, View
<1>1. CASE b.x > 0
  <2> DEFINE pos == b.pos - 1
             x == b.x - 1
  <2>1. pos \in Nat /\ x \in Nat /\ b.show + x = pos /\ x < BoxWidth
    BY <1>0, <1>1
  <2>2. Back(b) = [b EXCEPT !.x = x, !.pos = pos]
    BY <1>0, <1>1 DEF Back, Input
  <2> HIDE DEF pos, x
  <2>3. Back(b) = Typed(b, b.text, pos, b.show, x)
    BY <1>0, <2>2 DEF Input, Typed
  <2> QED
    BY <1>0, <2>1, <2>3 DEF pos
<1>2. CASE ~(b.x > 0)
  <2> DEFINE pos == b.pos - 1
             show == b.show - 1
             c == [b EXCEPT !.show = show, !.pos = pos]
  <2>1. pos \in Nat /\ show \in Nat /\ b.x = 0 /\ show + b.x = pos
    BY <1>0, <1>2
  <2>2. Back(b) = Redraw(c)
    BY <1>0, <1>2 DEF Back, Input
  <2> HIDE DEF pos, show
  <2>3. Window(c) = View(b.text, show)
    <3>1. c.text = b.text /\ c.show = show
      BY <1>0 DEF Input
    <3> QED
      BY <3>1 DEF Window, View
  <2>4. Redraw(c) = [c EXCEPT !.view = View(b.text, show)]
    BY <2>3 DEF Redraw
  <2>5. Redraw(c) = Typed(b, b.text, pos, show, b.x)
    BY <1>0, <2>4 DEF Input, Typed
  <2> QED
    BY <1>0, <2>1, <2>2, <2>5 DEF pos
<1> QED
  BY <1>1, <1>2

LEMMA ForthIs ==
  ASSUME NEW b, InputOk(b)
  PROVE  \E show, x \in Nat : /\ show + x = b.pos + 1 /\ x < BoxWidth
                              /\ Forth(b) = Typed(b, b.text, b.pos + 1, show, x)
<1>0. /\ Input(b) /\ b.show \in Nat /\ b.x \in Nat /\ b.pos \in Nat /\ b.show + b.x = b.pos /\ b.x < BoxWidth
      /\ b.view = View(b.text, b.show) /\ BoxWidth \in Nat /\ BoxWidth # 0
  BY SizesAssumption DEF InputOk, Input, CursorFits, Window, View
<1>1. CASE b.x < BoxWidth - 1
  <2> DEFINE pos == b.pos + 1
             x == b.x + 1
  <2>1. pos \in Nat /\ x \in Nat /\ b.show + x = pos /\ x < BoxWidth
    BY <1>0, <1>1
  <2>2. Forth(b) = [b EXCEPT !.x = x, !.pos = pos]
    BY <1>0, <1>1 DEF Forth, Input
  <2> HIDE DEF pos, x
  <2>3. Forth(b) = Typed(b, b.text, pos, b.show, x)
    BY <1>0, <2>2 DEF Input, Typed
  <2> QED
    BY <1>0, <2>1, <2>3 DEF pos
<1>2. CASE ~(b.x < BoxWidth - 1)
  <2> DEFINE pos == b.pos + 1
             show == b.show + 1
             c == [b EXCEPT !.show = show, !.pos = pos]
  <2>1. pos \in Nat /\ show \in Nat /\ show + b.x = pos
    BY <1>0
  <2>2. Forth(b) = Redraw(c)
    BY <1>0, <1>2 DEF Forth, Input
  <2> HIDE DEF pos, show
  <2>3. Window(c) = View(b.text, show)
    <3>1. c.text = b.text /\ c.show = show
      BY <1>0 DEF Input
    <3> QED
      BY <3>1 DEF Window, View
  <2>4. Redraw(c) = [c EXCEPT !.view = View(b.text, show)]
    BY <2>3 DEF Redraw
  <2>5. Redraw(c) = Typed(b, b.text, pos, show, b.x)
    BY <1>0, <2>4 DEF Input, Typed
  <2> QED
    BY <1>0, <2>1, <2>2, <2>5 DEF pos
<1> QED
  BY <1>1, <1>2

\* ... and with another text
LEMMA RetypedIs ==
  ASSUME NEW b, Input(b), NEW text, NEW new, NEW pos, NEW show, NEW x
  PROVE  Redraw([Typed(b, text, pos, show, x) EXCEPT !.text = new]) = Typed(b, new, pos, show, x)
<1> DEFINE t == Typed(b, text, pos, show, x)
           c == [t EXCEPT !.text = new]
<1>1. c.text = new /\ c.show = show
  BY DEF Input, Typed
<1>2. Window(c) = View(new, show)
  BY <1>1 DEF Window, View
<1>3. Redraw(c) = [c EXCEPT !.view = View(new, show)]
  BY <1>2 DEF Redraw
<1> QED
  BY <1>3 DEF Input, Typed

LEMMA FieldKeyOk ==
  ASSUME NEW b, InputOk(b), NEW key \in Letters \cup {"space", "left", "right", "backspace"}
  PROVE  LET d == FieldKey(b, key) IN InputOk(d) /\ d.res = b.res
<1> DEFINE Goal(d) == InputOk(d) /\ d.res = b.res
<1>0. Input(b) /\ b.text \in Texts /\ Len(b.text) \in Nat /\ b.pos \in Nat /\ b.pos <= Len(b.text) /\ Goal(b)
  BY TextsAssumption DEF InputOk, Input, CursorFits, AreStrings
<1>1. ASSUME b.pos > 0 PROVE Goal(Back(b)) /\ Goal(Erase(b))
  <2>1. PICK show \in Nat, x \in Nat : /\ show + x = b.pos - 1 /\ x < BoxWidth
                                       /\ Back(b) = Typed(b, b.text, b.pos - 1, show, x)
    BY <1>1, BackIs
  <2> DEFINE pos == b.pos - 1
             erased == SubSeq(b.text, 1, b.pos - 1) \o SubSeq(b.text, b.pos + 1, Len(b.text))
  <2>2. pos \in Nat /\ pos <= Len(b.text) /\ show + x = pos
    BY <1>0, <1>1, <2>1
  <2>3. erased \in Texts /\ Len(erased) = Len(b.text) - 1
    <3>1. b.pos \in 1 .. Len(b.text)
      BY <1>0, <1>1
    <3> QED
      BY <1>0, <3>1, TextsAssumption DEF AreStrings
  <2>4. Erase(b) = Typed(b, erased, pos, show, x)
    <3> DEFINE back == Typed(b, b.text, pos, show, x)
    <3>1. back.text = b.text
      BY <1>0 DEF Typed, Input
    <3>2. [back EXCEPT !.text = SubSeq(@, 1, b.pos - 1) \o SubSeq(@, b.pos + 1, Len(@))] = [back EXCEPT !.text = erased]
      <4> HIDE DEF back
      <4> QED
        BY <3>1
    <3>3. Erase(b) = Redraw([back EXCEPT !.text = erased])
      <4> HIDE DEF erased
      <4> QED
        BY <2>1, <3>2 DEF Erase
    <3> HIDE DEF erased, pos
    <3>4. Redraw([back EXCEPT !.text = erased]) = Typed(b, erased, pos, show, x)
      BY <1>0, RetypedIs
    <3> QED
      BY <3>3, <3>4
  <2> HIDE DEF erased
  <2>5. pos <= Len(erased) /\ Len(erased) \in Nat
    BY <1>0, <1>1, <2>2, <2>3
  <2> HIDE DEF pos
  <2>6. Goal(Typed(b, b.text, pos, show, x)) /\ Goal(Typed(b, erased, pos, show, x))
    <3>1. Cursor(erased, pos, show, x) /\ Cursor(b.text, pos, show, x)
      BY <2>1, <2>2, <2>5 DEF Cursor
    <3> QED
      BY <1>0, <2>3, <3>1, TypedOk
  <2> QED
    BY <2>1, <2>4, <2>6 DEF pos
<1>2. ASSUME b.pos < Len(b.text) PROVE Goal(Forth(b))
  <2>1. PICK show \in Nat, x \in Nat : /\ show + x = b.pos + 1 /\ x < BoxWidth
                                       /\ Forth(b) = Typed(b, b.text, b.pos + 1, show, x)
    BY ForthIs
  <2> DEFINE pos == b.pos + 1
  <2>2. pos \in Nat /\ pos <= Len(b.text) /\ show + x = pos
    BY <1>0, <1>2, <2>1
  <2> HIDE DEF pos
  <2>3. Goal(Typed(b, b.text, pos, show, x))
    <3>1. Cursor(b.text, pos, show, x)
      BY <2>1, <2>2 DEF Cursor
    <3> QED
      BY <1>0, <3>1, TypedOk
  <2> QED
    BY <2>1, <2>3 DEF pos
<1>3. ASSUME Len(b.text) < MaxLen, NEW letter \in Letters PROVE Goal(Insert(b, letter))
  <2>1. PICK show \in Nat, x \in Nat : /\ show + x = b.pos + 1 /\ x < BoxWidth
                                       /\ Forth(b) = Typed(b, b.text, b.pos + 1, show, x)
    BY ForthIs
  <2> DEFINE pos == b.pos + 1
             longer == SubSeq(b.text, 1, b.pos) \o letter \o SubSeq(b.text, b.pos + 1, Len(b.text))
  <2>2. pos \in Nat /\ show + x = pos
    BY <1>0, <2>1
  <2>3. longer \in Texts /\ Len(longer) = Len(b.text) + 1
    <3>1. b.pos \in 0 .. Len(b.text)
      BY <1>0
    <3> QED
      BY <1>0, <1>3, <3>1, TextsAssumption DEF AreStrings
  <2>4. Insert(b, letter) = Typed(b, longer, pos, show, x)
    <3> DEFINE forth == Typed(b, b.text, pos, show, x)
    <3>1. forth.text = b.text
      BY <1>0 DEF Typed, Input
    <3>2. [forth EXCEPT !.text = SubSeq(@, 1, b.pos) \o letter \o SubSeq(@, b.pos + 1, Len(@))] = [forth EXCEPT !.text = longer]
      <4> HIDE DEF forth
      <4> QED
        BY <3>1
    <3>3. Insert(b, letter) = Redraw([forth EXCEPT !.text = longer])
      <4> HIDE DEF longer
      <4> QED
        BY <2>1, <3>2 DEF Insert
    <3> HIDE DEF longer, pos
    <3>4. Redraw([forth EXCEPT !.text = longer]) = Typed(b, longer, pos, show, x)
      BY <1>0, RetypedIs
    <3> QED
      BY <3>3, <3>4
  <2>5. pos <= Len(longer)
    BY <1>0, <2>2, <2>3
  <2> HIDE DEF pos, longer
  <2>6. Goal(Typed(b, longer, pos, show, x))
    <3>1. Cursor(longer, pos, show, x)
      BY <2>1, <2>2, <2>5 DEF Cursor
    <3> QED
      BY <1>0, <2>3, <3>1, TypedOk
  <2> QED
    BY <2>4, <2>6
<1> HIDE DEF Goal
<1>4. Goal(FieldKey(b, key))
  <2>1. FieldKey(b, key) = IF key = "left" THEN IF b.pos > 0 THEN Back(b) ELSE b
                           ELSE IF key = "right" THEN IF b.pos < Len(b.text) THEN Forth(b) ELSE b
                           ELSE IF key = "backspace" THEN IF b.pos > 0 THEN Erase(b) ELSE b
                           ELSE IF Len(b.text) < MaxLen THEN Insert(b, Char(key)) ELSE b
    BY DEF FieldKey
  <2>2. Len(b.text) < MaxLen /\ key \in Letters \cup {"space"} => Goal(Insert(b, Char(key)))
    <3>1. key \in Letters \cup {"space"} => Char(key) \in Letters
      BY TextsAssumption DEF Char
    <3> QED
      BY <1>3, <3>1
  <2> QED
    BY <1>0, <1>1, <1>2, <2>1, <2>2
<1> QED
  BY <1>4 DEF Goal

LEMMA InputKeyOk ==
  ASSUME NEW b, InputOk(b), b.res = "wait", NEW key
  PROVE  InputOk(InputKey(b, key))
<1>0. Input(b) /\ CursorFits(b) /\ b.view = Window(b)
  BY DEF InputOk
<1>1. ASSUME NEW button \in -1 .. 1, NEW res \in {"wait", "help", "select", "esc"}
      PROVE  InputOk([b EXCEPT !.button = button, !.res = res])
  <2> DEFINE d == [b EXCEPT !.button = button, !.res = res]
  <2>1. Input(d) /\ d.text = b.text /\ d.pos = b.pos /\ d.show = b.show /\ d.x = b.x /\ d.view = b.view
    BY <1>0 DEF Input
  <2> HIDE DEF d
  <2>2. InputOk(d)
    BY <1>0, <2>1 DEF InputOk, CursorFits, Window
  <2> QED
    BY <2>2 DEF d
<1>2. ASSUME NEW res \in {"wait", "help", "select", "esc"} PROVE InputOk([b EXCEPT !.res = res])
  <2>1. [b EXCEPT !.res = res] = [b EXCEPT !.button = b.button, !.res = res] /\ b.button \in -1 .. 1
    BY <1>0 DEF Input
  <2> QED
    BY <1>1, <2>1
<1>3. ASSUME NEW button \in -1 .. 1 PROVE InputOk([b EXCEPT !.button = button])
  <2>1. [b EXCEPT !.button = button] = [b EXCEPT !.button = button, !.res = "wait"]
    BY <1>0 DEF Input
  <2> QED
    BY <1>1, <2>1
<1>4. ((b.button + 3) % 3) - 1 \in -1 .. 1 /\ ((b.button + 2) % 3) - 1 \in -1 .. 1
  <2>1. b.button \in -1 .. 1
    BY <1>0 DEF Input
  <2> QED
    BY <2>1
<1>5. InputOk([b EXCEPT !.button = ((@ + 3) % 3) - 1]) /\ InputOk([b EXCEPT !.button = ((@ + 2) % 3) - 1])
  <2> DEFINE up == ((b.button + 3) % 3) - 1
             down == ((b.button + 2) % 3) - 1
  <2>1. /\ [b EXCEPT !.button = ((@ + 3) % 3) - 1] = [b EXCEPT !.button = up]
        /\ [b EXCEPT !.button = ((@ + 2) % 3) - 1] = [b EXCEPT !.button = down]
    BY <1>0 DEF Input
  <2> HIDE DEF up, down
  <2>2. up \in -1 .. 1 /\ down \in -1 .. 1
    BY <1>4 DEF up, down
  <2>3. InputOk([b EXCEPT !.button = up]) /\ InputOk([b EXCEPT !.button = down])
    BY <1>3, <2>2
  <2> QED
    BY <2>1, <2>3
<1>6. InputOk([b EXCEPT !.res = IF b.button = 1 THEN "help" ELSE "select"])
  BY <1>2
<1>7. key \in Letters \cup {"space", "left", "right", "backspace"} => InputOk(FieldKey(b, key))
  BY FieldKeyOk
<1> QED
  BY <1>2, <1>5, <1>6, <1>7 DEF InputKey
-----------------------------------------------------------------------------
(* The pages of a text *)

Jumps == [target : Entries \ {Root}, line : Nat, key : {ToString(n) : n \in Nat}]
Pages ==
    {t \in [lines : Nat \ {0}, ended : BOOLEAN, search : BOOLEAN, jumps : Seq(Jumps)] :
        t.search => t.ended /\ \A j \in ToSet(t.jumps) : j.line < t.lines}

TextBox(b) ==
    /\ b \in [ kind : {"text"}, res : {"wait", "exit", "jump"}, text : Pages, begin : BOOLEAN, end : BOOLEAN,
               passed : BOOLEAN, length : Nat, hscroll : Nat, pos : Nat, top : Nat, height : Nat \ {0},
               keys : Seq(Jumps), at : Nat ]
    /\ b.pos <= b.text.lines

\* Two loops that do the same do so all the way.
LEMMA SameSteps ==
  ASSUME NEW n \in Nat, NEW g, NEW h, g[0] = h[0], \A i \in 1 .. n : g[i - 1] = h[i - 1] => g[i] = h[i]
  PROVE  \A i \in 0 .. n : g[i] = h[i]
<1> DEFINE S == {i \in 0 .. n : g[i] # h[i]}
<1> SUFFICES ASSUME S # {} PROVE FALSE
  OBVIOUS
<1>1. PICK i \in S : \A j \in S : i <= j
  <2>1. S \in SUBSET Nat
    OBVIOUS
  <2> HIDE DEF S
  <2> QED
    BY <2>1, LeastOf
<1>2. i \in 0 .. n /\ i # 0
  BY <1>1
<1>3. i \in 1 .. n /\ i - 1 \in 0 .. n /\ ~(i <= i - 1)
  BY <1>2
<1>4. g[i - 1] = h[i - 1]
  BY <1>1, <1>3
<1> QED
  BY <1>1, <1>3, <1>4

\* What n calls of get_line make of a box: the last line is passed once.
LastLine(b) == IF b.text.ended THEN b.text.lines ELSE b.text.lines - 1
LineAt(b, n) == IF b.pos + n <= LastLine(b) THEN b.pos + n ELSE b.text.lines
Got(b, n) == IF n = 0 THEN b ELSE [b EXCEPT !.pos = LineAt(b, n), !.end = b.pos + n > LastLine(b)]

LEMMA GetLineIs ==
  ASSUME NEW b, TextBox(b)
  PROVE  GetLine(b) = IF b.pos < LastLine(b) THEN [b EXCEPT !.pos = b.pos + 1, !.end = FALSE]
                      ELSE [b EXCEPT !.pos = b.text.lines, !.end = TRUE]
<1>1. b.text.lines \in Nat /\ b.pos \in Nat /\ b.text.ended \in BOOLEAN
  BY DEF TextBox, Pages
<1>2. [b EXCEPT !.pos = @ + 1, !.end = FALSE] = [b EXCEPT !.pos = b.pos + 1, !.end = FALSE]
  BY DEF TextBox
<1> QED
  BY <1>1, <1>2 DEF GetLine, LastLine

LEMMA GotBox ==
  ASSUME NEW b, TextBox(b), NEW n \in Nat
  PROVE  LET d == Got(b, n)
         IN  /\ TextBox(d) /\ d.text = b.text /\ d.length = b.length /\ d.passed = b.passed /\ d.begin = b.begin
             /\ d.height = b.height /\ d.top = b.top /\ d.hscroll = b.hscroll /\ d.keys = b.keys /\ d.res = b.res
             /\ d.at = b.at /\ d.pos = LineAt(b, n)
             /\ n # 0 => d.end = (b.pos + n > LastLine(b))
<1>0. /\ b.text.lines \in Nat /\ b.text.lines # 0 /\ b.pos \in Nat /\ b.pos <= b.text.lines /\ b.text.ended \in BOOLEAN
      /\ LastLine(b) \in Nat /\ LastLine(b) <= b.text.lines /\ b.text.lines <= LastLine(b) + 1
  BY DEF TextBox, Pages, LastLine
<1>1. LineAt(b, n) \in Nat /\ LineAt(b, n) <= b.text.lines
  BY <1>0 DEF LineAt
<1>2. CASE n = 0
  <2>1. LineAt(b, n) = b.pos
    BY <1>0, <1>2 DEF LineAt
  <2> QED
    BY <1>2, <2>1 DEF Got
<1>3. CASE n # 0
  <2> DEFINE pos == LineAt(b, n)
             end == b.pos + n > LastLine(b)
             d == [b EXCEPT !.pos = pos, !.end = end]
  <2>1. end \in BOOLEAN /\ pos \in Nat /\ pos <= b.text.lines
    BY <1>1
  <2> HIDE DEF end, pos
  <2>2. /\ TextBox(d) /\ d.text = b.text /\ d.length = b.length /\ d.passed = b.passed /\ d.begin = b.begin
        /\ d.height = b.height /\ d.top = b.top /\ d.hscroll = b.hscroll /\ d.keys = b.keys /\ d.res = b.res
        /\ d.at = b.at /\ d.pos = pos /\ d.end = end
    BY <2>1 DEF TextBox
  <2>3. Got(b, n) = d
    BY <1>3 DEF Got, end, pos
  <2> QED
    BY <2>2, <2>3 DEF end, pos
<1> QED
  BY <1>2, <1>3

LEMMA GetLines ==
  ASSUME NEW b, TextBox(b), NEW n \in Nat
  PROVE  Iterate(GetLine, n, b) = Got(b, n)
<1> DEFINE Is(f) == f = [i \in 0 .. n |-> IF i = 0 THEN b ELSE GetLine(f[i - 1])]
           fn == CHOOSE f : Is(f)
           g == [i \in 0 .. n |-> Got(b, i)]
<1>0. /\ b.text.lines \in Nat /\ b.pos \in Nat /\ b.pos <= b.text.lines
      /\ LastLine(b) \in Nat /\ LastLine(b) <= b.text.lines /\ b.text.lines <= LastLine(b) + 1
  BY DEF TextBox, Pages, LastLine
<1>1. \A i \in 1 .. n : Got(b, i) = GetLine(Got(b, i - 1))
  <2> TAKE i \in 1 .. n
  <2> DEFINE c == Got(b, i - 1)
  <2>0. i \in Nat /\ i # 0 /\ i - 1 \in Nat
    OBVIOUS
  <2>1. TextBox(c) /\ c.text = b.text /\ c.pos = LineAt(b, i - 1) /\ LastLine(c) = LastLine(b)
    BY <2>0, GotBox DEF LastLine
  <2>2. GetLine(c) = IF c.pos < LastLine(b) THEN [c EXCEPT !.pos = c.pos + 1, !.end = FALSE]
                     ELSE [c EXCEPT !.pos = b.text.lines, !.end = TRUE]
    BY <2>1, GetLineIs
  <2>3. \A pos, end : [c EXCEPT !.pos = pos, !.end = end] = [b EXCEPT !.pos = pos, !.end = end]
    BY DEF Got, TextBox
  <2> DEFINE pos == LineAt(b, i)
             end == b.pos + i > LastLine(b)
  <2>4. /\ c.pos < LastLine(b) => pos = c.pos + 1 /\ end = FALSE
        /\ ~(c.pos < LastLine(b)) => pos = b.text.lines /\ end = TRUE
    <3> HIDE DEF c
    <3> QED
      BY <1>0, <2>0, <2>1 DEF LineAt
  <2>5. Got(b, i) = [b EXCEPT !.pos = pos, !.end = end]
    BY <2>0 DEF Got
  <2> HIDE DEF c, pos, end
  <2>6. Got(b, i) = GetLine(c)
    BY <2>2, <2>3, <2>4, <2>5
  <2> QED
    BY <2>6 DEF c
<1>2. Got(b, 0) = b
  BY DEF Got
<1>3. Is(g)
  <2>1. \A i \in 0 .. n : Got(b, i) = IF i = 0 THEN b ELSE GetLine(g[i - 1])
    BY <1>1, <1>2
  <2> QED
    BY <2>1
<1>4. Is(fn)
  BY <1>3
<1>5. Iterate(GetLine, n, b) = fn[n]
  BY DEF Iterate
<1> HIDE DEF fn
<1>6. \A i \in 0 .. n : fn[i] = g[i]
  <2>1. fn[0] = b /\ \A i \in 1 .. n : fn[i] = GetLine(fn[i - 1])
    BY <1>4
  <2>2. g[0] = b /\ \A i \in 1 .. n : g[i] = GetLine(g[i - 1])
    BY <1>1, <1>2
  <2> HIDE DEF g
  <2>3. fn[0] = g[0] /\ \A i \in 1 .. n : fn[i - 1] = g[i - 1] => fn[i] = g[i]
    BY <2>1, <2>2
  <2> QED
    BY <2>3, SameSteps
<1> QED
  BY <1>5, <1>6

\* ... and n calls of print_line, which counts the lines until then
LinesTo(b, n) == Lesser(n, Greater(1, LastLine(b) - b.pos + 1))
Printed(b, n) ==
    IF n = 0 THEN b
    ELSE [b EXCEPT !.pos = LineAt(b, n), !.end = b.pos + n > LastLine(b),
                   !.length = LinesTo(b, n), !.passed = b.pos + n > LastLine(b)]

LEMMA PrintedBox ==
  ASSUME NEW b, TextBox(b), b.length = 0, b.passed = FALSE, NEW n \in Nat
  PROVE  LET d == Printed(b, n)
         IN  /\ TextBox(d) /\ d.text = b.text /\ d.begin = b.begin
             /\ d.height = b.height /\ d.top = b.top /\ d.hscroll = b.hscroll /\ d.keys = b.keys /\ d.res = b.res
             /\ d.at = b.at /\ d.pos = LineAt(b, n)
             /\ n # 0 => /\ d.length = LinesTo(b, n) /\ d.end = (b.pos + n > LastLine(b)) /\ d.passed = d.end
<1>0. /\ b.text.lines \in Nat /\ b.text.lines # 0 /\ b.pos \in Nat /\ b.pos <= b.text.lines /\ b.text.ended \in BOOLEAN
      /\ LastLine(b) \in Nat /\ LastLine(b) <= b.text.lines /\ b.text.lines <= LastLine(b) + 1
  BY DEF TextBox, Pages, LastLine
<1>1. LineAt(b, n) \in Nat /\ LineAt(b, n) <= b.text.lines /\ LinesTo(b, n) \in Nat
  BY <1>0 DEF LineAt, LinesTo, Lesser, Greater
<1>2. CASE n = 0
  <2>1. LineAt(b, n) = b.pos
    BY <1>0, <1>2 DEF LineAt
  <2> QED
    BY <1>2, <2>1 DEF Printed
<1>3. CASE n # 0
  <2> DEFINE pos == LineAt(b, n)
             end == b.pos + n > LastLine(b)
             length == LinesTo(b, n)
             d == [b EXCEPT !.pos = pos, !.end = end, !.length = length, !.passed = end]
  <2>1. end \in BOOLEAN /\ pos \in Nat /\ pos <= b.text.lines /\ length \in Nat
    BY <1>1
  <2> HIDE DEF end, pos, length
  <2>2. /\ TextBox(d) /\ d.text = b.text /\ d.length = length /\ d.passed = end /\ d.begin = b.begin
        /\ d.height = b.height /\ d.top = b.top /\ d.hscroll = b.hscroll /\ d.keys = b.keys /\ d.res = b.res
        /\ d.at = b.at /\ d.pos = pos /\ d.end = end
    BY <2>1 DEF TextBox
  <2>3. Printed(b, n) = d
    BY <1>3 DEF Printed, end, pos, length
  <2> QED
    BY <2>2, <2>3 DEF end, pos, length
<1> QED
  BY <1>2, <1>3

\* What is true of b before, and of d after it, as PrintedBox says.
Begun(b) == TextBox(b) /\ b.length = 0 /\ b.passed = FALSE
BoxPrinted(d, b, n) ==
    /\ TextBox(d) /\ d.text = b.text /\ d.begin = b.begin /\ d.height = b.height /\ d.top = b.top
    /\ d.hscroll = b.hscroll /\ d.keys = b.keys /\ d.res = b.res /\ d.pos = LineAt(b, n)
    /\ d.length = LinesTo(b, n) /\ (d.end <=> b.pos + n > LastLine(b))

LEMMA PrintedIs ==
  ASSUME NEW b, Begun(b), NEW n \in Nat, n # 0
  PROVE  BoxPrinted(Printed(b, n), b, n)
<1> DEFINE d == Printed(b, n)
<1>1. /\ TextBox(d) /\ d.text = b.text /\ d.begin = b.begin
      /\ d.height = b.height /\ d.top = b.top /\ d.hscroll = b.hscroll /\ d.keys = b.keys /\ d.res = b.res
      /\ d.at = b.at /\ d.pos = LineAt(b, n)
      /\ n # 0 => /\ d.length = LinesTo(b, n) /\ d.end = (b.pos + n > LastLine(b)) /\ d.passed = d.end
  BY PrintedBox DEF Begun
<1> HIDE DEF d
<1>2. BoxPrinted(d, b, n)
  BY <1>1 DEF BoxPrinted
<1> QED
  BY <1>2 DEF d

LEMMA PrintedOver ==
  ASSUME NEW b, TextBox(b), NEW p, NEW e, NEW l, NEW a, NEW q, NEW f, NEW m, NEW c
  PROVE  [[b EXCEPT !.pos = q, !.end = f, !.length = m, !.passed = c] EXCEPT !.pos = p, !.end = e, !.length = l, !.passed = a]
         = [b EXCEPT !.pos = p, !.end = e, !.length = l, !.passed = a]
BY DEF TextBox

LEMMA PrintLines ==
  ASSUME NEW b, TextBox(b), b.length = 0, b.passed = FALSE, NEW n \in Nat
  PROVE  Iterate(PrintLine, n, b) = Printed(b, n)
<1> DEFINE Is(f) == f = [i \in 0 .. n |-> IF i = 0 THEN b ELSE PrintLine(f[i - 1])]
           fn == CHOOSE f : Is(f)
           g == [i \in 0 .. n |-> Printed(b, i)]
<1>0. /\ b.text.lines \in Nat /\ b.pos \in Nat /\ b.pos <= b.text.lines
      /\ LastLine(b) \in Nat /\ LastLine(b) <= b.text.lines /\ b.text.lines <= LastLine(b) + 1
  BY DEF TextBox, Pages, LastLine
<1>1. \A i \in 1 .. n : Printed(b, i) = PrintLine(Printed(b, i - 1))
  <2> TAKE i \in 1 .. n
  <2> DEFINE c == Printed(b, i - 1)
             e == GetLine(c)
  <2>0. i \in Nat /\ i # 0 /\ i - 1 \in Nat
    OBVIOUS
  <2>1. /\ TextBox(c) /\ c.text = b.text /\ c.pos = LineAt(b, i - 1) /\ LastLine(c) = LastLine(b)
        /\ i # 1 => c.length = LinesTo(b, i - 1) /\ c.passed = (b.pos + (i - 1) > LastLine(b))
        /\ i = 1 => c.length = 0 /\ c.passed = FALSE
    <3>1. i = 1 => c = b
      BY DEF Printed
    <3> HIDE DEF c
    <3>2. /\ TextBox(c) /\ c.text = b.text /\ c.pos = LineAt(b, i - 1)
          /\ i - 1 # 0 => c.length = LinesTo(b, i - 1) /\ c.end = (b.pos + (i - 1) > LastLine(b)) /\ c.passed = c.end
      BY <2>0, PrintedBox DEF c
    <3> QED
      BY <2>0, <3>1, <3>2 DEF LastLine
  <2>2. e = IF c.pos < LastLine(b) THEN [c EXCEPT !.pos = c.pos + 1, !.end = FALSE]
            ELSE [c EXCEPT !.pos = b.text.lines, !.end = TRUE]
    BY <2>1, GetLineIs
  <2> DEFINE pos == LineAt(b, i)
             end == b.pos + i > LastLine(b)
             length == LinesTo(b, i)
  <2>3. /\ c.pos < LastLine(b) => pos = c.pos + 1 /\ end = FALSE
        /\ ~(c.pos < LastLine(b)) => pos = b.text.lines /\ end = TRUE
    <3> HIDE DEF c, e
    <3> QED
      BY <1>0, <2>0, <2>1 DEF LineAt
  <2>4. e = [c EXCEPT !.pos = pos, !.end = end]
    <3> HIDE DEF c, e, pos, end
    <3> QED
      BY <2>2, <2>3
  <2>5. length = IF c.passed THEN c.length ELSE c.length + 1
    <3>1. CASE i = 1
      <4> HIDE DEF c, e
      <4> QED
        BY <1>0, <2>0, <2>1, <3>1 DEF LinesTo, Lesser, Greater
    <3>2. CASE i # 1
      <4> HIDE DEF c, e
      <4>1. c.length = LinesTo(b, i - 1) /\ c.passed = (b.pos + (i - 1) > LastLine(b))
        BY <2>1, <3>2
      <4>2. CASE b.pos + (i - 1) > LastLine(b)
        <5>1. LinesTo(b, i - 1) = LinesTo(b, i)
          BY <1>0, <2>0, <3>2, <4>2 DEF LinesTo, Lesser, Greater
        <5> QED
          BY <4>1, <4>2, <5>1
      <4>3. CASE ~(b.pos + (i - 1) > LastLine(b))
        <5>1. LinesTo(b, i - 1) + 1 = LinesTo(b, i)
          BY <1>0, <2>0, <3>2, <4>3 DEF LinesTo, Lesser, Greater
        <5> QED
          BY <4>1, <4>3, <5>1
      <4> QED
        BY <4>2, <4>3
    <3> QED
      BY <3>1, <3>2
  <2>6. (c.passed \/ end) = end /\ end \in BOOLEAN /\ c.passed \in BOOLEAN
    <3>1. c.passed \in BOOLEAN
      BY <2>1 DEF TextBox
    <3> HIDE DEF c, e
    <3>2. c.passed => end
      <4>1. CASE i = 1
        BY <2>1, <4>1
      <4>2. CASE i # 1
        <5>1. c.passed = (b.pos + (i - 1) > LastLine(b))
          BY <2>1, <4>2
        <5>2. b.pos + (i - 1) > LastLine(b) => end
          BY <1>0, <2>0
        <5> QED
          BY <5>1, <5>2
      <4> QED
        BY <4>1, <4>2
    <3> HIDE DEF end
    <3>3. end \in BOOLEAN
      BY DEF end
    <3> QED
      BY <3>1, <3>2, <3>3
  <2>7. PrintLine(c) = [c EXCEPT !.pos = pos, !.end = end, !.length = length, !.passed = end]
    <3>1. PrintLine(c) = [e EXCEPT !.length = IF c.passed THEN @ ELSE @ + 1, !.passed = @ \/ e.end]
      BY DEF PrintLine
    <3> HIDE DEF c, e, pos, end, length
    <3>2. e.length = c.length /\ e.passed = c.passed /\ e.end = end
      BY <2>1, <2>4 DEF TextBox
    <3>3. PrintLine(c) = [e EXCEPT !.length = length, !.passed = end]
      <4>1. PrintLine(c) = [e EXCEPT !.length = IF c.passed THEN e.length ELSE e.length + 1, !.passed = e.passed \/ e.end]
        BY <2>1, <2>4, <3>1 DEF TextBox
      <4>2. (IF c.passed THEN e.length ELSE e.length + 1) = length /\ (e.passed \/ e.end) = end
        BY <2>5, <2>6, <3>2
      <4> QED
        BY <4>1, <4>2
    <3> QED
      BY <2>1, <2>4, <3>3 DEF TextBox
  <2>8. \A p, en, l, pa : [c EXCEPT !.pos = p, !.end = en, !.length = l, !.passed = pa]
                        = [b EXCEPT !.pos = p, !.end = en, !.length = l, !.passed = pa]
    BY PrintedOver DEF Printed
  <2>9. Printed(b, i) = [b EXCEPT !.pos = pos, !.end = end, !.length = length, !.passed = end]
    BY <2>0 DEF Printed
  <2> HIDE DEF c, pos, end, length
  <2>10. Printed(b, i) = PrintLine(c)
    BY <2>7, <2>8, <2>9
  <2> QED
    BY <2>10 DEF c
<1>2. Printed(b, 0) = b
  BY DEF Printed
<1>3. Is(g)
  <2>1. \A i \in 0 .. n : Printed(b, i) = IF i = 0 THEN b ELSE PrintLine(g[i - 1])
    BY <1>1, <1>2
  <2> QED
    BY <2>1
<1>4. Is(fn)
  BY <1>3
<1>5. Iterate(PrintLine, n, b) = fn[n]
  BY DEF Iterate
<1> HIDE DEF fn
<1>6. \A i \in 0 .. n : fn[i] = g[i]
  <2>1. fn[0] = b /\ \A i \in 1 .. n : fn[i] = PrintLine(fn[i - 1])
    BY <1>4
  <2>2. g[0] = b /\ \A i \in 1 .. n : g[i] = PrintLine(g[i - 1])
    BY <1>1, <1>2
  <2> HIDE DEF g
  <2>3. fn[0] = g[0] /\ \A i \in 1 .. n : fn[i - 1] = g[i - 1] => fn[i] = g[i]
    BY <2>1, <2>2
  <2> QED
    BY <2>3, SameSteps
<1> QED
  BY <1>5, <1>6
\* Among leaves only elements of S, and one if there is one.
LEMMA AmongIs ==
  ASSUME NEW A, NEW s \in Seq(A), NEW S
  PROVE  /\ Among(s, S) \in Seq(A \cap S)
         /\ (\E i \in DOMAIN s : s[i] \in S) => Among(s, S) # <<>>
<1> DEFINE n == Len(s)
           next(v, i) == IF s[i] \in S THEN Append(v, s[i]) ELSE v
           V == Seq(A \cap S)
           R == [i \in 1 .. n |-> [v \in V |-> next(v, i)]]
           Is(f) == f = [i \in 0 .. n |-> IF i = 0 THEN <<>> ELSE IF s[i] \in S THEN Append(f[i - 1], s[i]) ELSE f[i - 1]]
           fn == CHOOSE f : Is(f)
<1>0. n \in Nat /\ DOMAIN s = 1 .. n /\ \A i \in 1 .. n : s[i] \in A
  OBVIOUS
<1>1. \A i \in 1 .. n : \A v \in V : next(v, i) \in V
  BY <1>0
<1>2. Rounds(n, V, R) /\ \A i \in 1 .. n : \A v \in V : R[i][v] = next(v, i)
  <2> HIDE DEF next
  <2> QED
    BY <1>1 DEF Rounds
<1>3. <<>> \in V
  OBVIOUS
<1> HIDE DEF R, V, n
<1>4. PICK g \in [0 .. n -> V] : g[0] = <<>> /\ \A i \in 1 .. n : g[i] = R[i][g[i - 1]]
  <2>1. LoopFrom(n, V, <<>>, R)
    BY <1>0, <1>2, <1>3, LoopEnds
  <2> QED
    BY <2>1 DEF LoopFrom
<1>5. Is(g)
  <2>1. \A i \in 1 .. n : g[i] = next(g[i - 1], i)
    <3> HIDE DEF next
    <3> QED
      BY <1>0, <1>2, <1>4
  <2>2. g = [i \in 0 .. n |-> g[i]]
    OBVIOUS
  <2>3. \A i \in 0 .. n : g[i] = IF i = 0 THEN <<>> ELSE next(g[i - 1], i)
    <3> HIDE DEF next
    <3> QED
      BY <1>4, <2>1
  <2>4. g = [i \in 0 .. n |-> IF i = 0 THEN <<>> ELSE next(g[i - 1], i)]
    <3> HIDE DEF next
    <3> QED
      BY <2>2, <2>3
  <2> QED
    BY <2>4
<1>6. Is(fn)
  BY <1>5
<1>7. Among(s, S) = fn[n]
  BY DEF Among, n
<1> HIDE DEF fn
<1>8. fn[0] = <<>> /\ \A i \in 1 .. n : fn[i] = next(fn[i - 1], i)
  <2>1. fn = [i \in 0 .. n |-> IF i = 0 THEN <<>> ELSE next(fn[i - 1], i)]
    BY <1>6
  <2> HIDE DEF next
  <2> QED
    BY <1>0, <2>1
<1>9. \A i \in 0 .. n : fn[i] \in V
  <2> HIDE DEF next
  <2>1. fn[0] \in V /\ \A i \in 1 .. n : fn[i - 1] \in V => fn[i] = R[i][fn[i - 1]]
    BY <1>2, <1>3, <1>8
  <2> QED
    BY <1>0, <1>2, <2>1, LoopStays
<1>10. ASSUME NEW i \in 1 .. n, s[i] \in S PROVE fn[n] # <<>>
  <2> DEFINE T == {j \in i .. n : fn[j] = <<>>}
  <2> SUFFICES ASSUME T # {} PROVE FALSE
    BY <1>0
  <2>1. PICK j \in T : \A k \in T : j <= k
    <3>1. T \in SUBSET Nat
      OBVIOUS
    <3> HIDE DEF T
    <3> QED
      BY <3>1, LeastOf
  <2>2. j \in 1 .. n /\ fn[j] = next(fn[j - 1], j) /\ fn[j - 1] \in V
    <3>1. j \in 1 .. n /\ j - 1 \in 0 .. n
      BY <1>0, <2>1
    <3> HIDE DEF next
    <3> QED
      BY <1>8, <1>9, <3>1
  <2>3. s[j] \notin S
    <3> DEFINE v == fn[j - 1]
    <3>1. v \in Seq(A \cap S) /\ fn[j] = <<>> /\ s[j] \in A
      BY <1>0, <2>1, <2>2 DEF V
    <3> HIDE DEF v
    <3>2. s[j] \in S => Append(v, s[j]) # <<>>
      <4> DEFINE w == Append(v, s[j])
      <4>1. s[j] \in S => Len(w) = Len(v) + 1 /\ Len(v) \in Nat
        BY <3>1
      <4> HIDE DEF w
      <4>2. w = <<>> => Len(w) = 0
        OBVIOUS
      <4>3. s[j] \in S => w # <<>>
        BY <4>1, <4>2
      <4> QED
        BY <4>3 DEF w
    <3> QED
      BY <2>2, <3>1, <3>2 DEF v
  <2>4. j # i /\ j - 1 \in i .. n /\ fn[j - 1] = <<>>
    BY <1>0, <1>10, <2>1, <2>2, <2>3
  <2> QED
    BY <1>0, <2>1, <2>4
<1> QED
  BY <1>0, <1>7, <1>9, <1>10 DEF V

\* What the box of a text is like while it reads keys
PageKeys(b) ==
    LET page == Among(b.text.jumps, {j \in ToSet(b.text.jumps) : j.line \in b.top .. b.top + b.height - 1})
    IN  SubSeq(page, 1, Lesser(JumpNb, Len(page)))

TextFits(b) ==
    /\ b.top <= b.text.lines
    /\ b.pos = IF b.top + b.height <= b.text.lines THEN b.top + b.height ELSE b.text.lines
    /\ b.end <=> b.top + b.height > b.text.lines
    /\ b.length = Lesser(b.height, b.text.lines - b.top + 1)
    /\ b.top = 0 => b.begin
    /\ b.begin => b.top = 0 \/ b.text.search
    /\ b.text.search => b.keys = PageKeys(b)

TextOk(b) ==
    /\ TextBox(b)
    /\ b.res = "jump" => b.at \in DOMAIN b.keys
    /\ b.res = "wait" /\ b.text.ended => TextFits(b)

\* One goes back, and knows whether that is to the beginning.
LinesBack(b, n) == IF n > 0 /\ b.end /\ b.pos = b.text.lines THEN n - 1 ELSE n

LEMMA BackBox ==
  ASSUME NEW b, TextBox(b), NEW n \in Int
  PROVE  LET d == BackLines(b, n)
             m == LinesBack(b, n)
         IN  /\ TextBox(d) /\ d.text = b.text /\ d.height = b.height /\ d.res = b.res /\ d.at = b.at /\ d.keys = b.keys
             /\ d.hscroll = b.hscroll
             /\ d.begin = (m >= 1 /\ m >= b.pos) /\ d.pos = Greater(b.pos - Greater(m, 0), 0)
             /\ b.pos # 0 => (d.begin <=> d.pos = 0)
<1> DEFINE atEnd == n > 0 /\ b.end /\ b.pos = b.text.lines
           m == IF atEnd THEN n - 1 ELSE n
           begin == m >= 1 /\ m >= b.pos
           end == b.end /\ ~atEnd
           pos == Greater(b.pos - Greater(m, 0), 0)
           d == [b EXCEPT !.begin = begin, !.end = end, !.pos = pos]
<1>0. b.pos \in Nat /\ b.text.lines \in Nat /\ b.pos <= b.text.lines /\ b.end \in BOOLEAN
  BY DEF TextBox, Pages
<1>1. m \in Int
  BY <1>0
<1>2. atEnd \in BOOLEAN /\ end \in BOOLEAN
  <2> HIDE DEF m
  <2> QED
    BY <1>0
<1> HIDE DEF atEnd, m
<1>3. begin \in BOOLEAN /\ pos \in Nat /\ pos <= b.pos /\ pos <= b.text.lines /\ (b.pos # 0 => (begin <=> pos = 0))
  BY <1>0, <1>1 DEF Greater
<1>4. BackLines(b, n) = d
  <2> DEFINE p == b.pos
  <2>1. BackLines(b, n) = [b EXCEPT !.begin = m >= 1 /\ m >= b.pos, !.end = @ /\ ~atEnd, !.pos = Greater(@ - Greater(m, 0), 0)]
    BY DEF BackLines, m, atEnd
  <2>2. [b EXCEPT !.begin = m >= 1 /\ m >= b.pos, !.end = @ /\ ~atEnd, !.pos = Greater(@ - Greater(m, 0), 0)] = d
    BY DEF TextBox
  <2> QED
    BY <2>1, <2>2
<1> HIDE DEF begin, end, pos
<1>5. /\ TextBox(d) /\ d.text = b.text /\ d.height = b.height /\ d.res = b.res /\ d.at = b.at /\ d.keys = b.keys
      /\ d.hscroll = b.hscroll /\ d.begin = begin /\ d.pos = pos
  BY <1>2, <1>3 DEF TextBox
<1> QED
  BY <1>3, <1>4, <1>5 DEF begin, pos, m, atEnd, LinesBack

\* ... and back to where the page begins, by what it shows
LEMMA PageTop ==
  ASSUME NEW b, TextBox(b), TextFits(b)
  PROVE  BackLines(b, b.length).pos = b.top /\ b.pos # 0
<1>0. /\ b.pos \in Nat /\ b.top \in Nat /\ b.height \in Nat /\ b.height # 0 /\ b.text.lines \in Nat /\ b.text.lines # 0
      /\ b.length \in Nat /\ b.end \in BOOLEAN
  BY DEF TextBox, Pages
<1> DEFINE m == LinesBack(b, b.length)
<1>1. BackLines(b, b.length).pos = Greater(b.pos - Greater(m, 0), 0)
  <2>1. b.length \in Int
    BY <1>0
  <2> QED
    BY <2>1, BackBox
<1>2. CASE b.top + b.height <= b.text.lines
  <2>1. b.pos = b.top + b.height /\ b.end = FALSE /\ b.length = b.height
    BY <1>0, <1>2 DEF TextFits, Lesser
  <2>2. m = b.height
    BY <2>1 DEF LinesBack
  <2> HIDE DEF m
  <2> QED
    BY <1>0, <1>1, <2>1, <2>2 DEF Greater
<1>3. CASE ~(b.top + b.height <= b.text.lines)
  <2>1. b.pos = b.text.lines /\ b.end = TRUE /\ b.length = b.text.lines - b.top + 1 /\ b.top <= b.text.lines
    BY <1>0, <1>3 DEF TextFits, Lesser
  <2>2. m = b.text.lines - b.top
    BY <1>0, <2>1 DEF LinesBack
  <2> HIDE DEF m
  <2> QED
    BY <1>0, <1>1, <2>1, <2>2 DEF Greater
<1> QED
  BY <1>2, <1>3
\* print_page: update_text makes the keys of a search page those of the lines
\* that are printed.
LEMMA PrintPageOk ==
  ASSUME NEW b, TextBox(b), b.res = "wait", b.text.ended /\ ~b.text.search => (b.begin <=> b.pos = 0)
  PROVE  LET d == PrintPage(b)
         IN  TextOk(d) /\ d.text = b.text /\ d.height = b.height /\ d.res = "wait" /\ d.hscroll = b.hscroll
<1> DEFINE end == Iterate(GetLine, b.height, b)
           back == BackLines(end, b.height)
           start == IF b.text.search THEN UpdateText(back, back.pos, end.pos) ELSE b
           begun == [start EXCEPT !.top = start.pos, !.length = 0, !.passed = FALSE]
           d == PrintPage(b)
           lines0 == b.text.lines
<1>0. /\ b.height \in Nat /\ b.height # 0 /\ b.pos \in Nat /\ lines0 \in Nat /\ lines0 # 0 /\ b.pos <= lines0
      /\ b.text \in Pages /\ b.text.jumps \in Seq(Jumps) /\ b.text.search \in BOOLEAN /\ b.text.ended \in BOOLEAN
      /\ b.height \in Int /\ (b.text.search => b.text.ended)
  BY DEF TextBox, Pages
<1>1. /\ TextBox(end) /\ end.text = b.text /\ end.height = b.height /\ end.res = b.res /\ end.pos = LineAt(b, b.height)
      /\ end.hscroll = b.hscroll /\ (end.end <=> b.pos + b.height > LastLine(b))
  <2>1. end = Got(b, b.height)
    BY <1>0, GetLines
  <2> HIDE DEF end
  <2> QED
    BY <1>0, <2>1, GotBox
<1>2. /\ TextBox(back) /\ back.text = b.text /\ back.height = b.height /\ back.res = b.res /\ back.hscroll = b.hscroll
      /\ (back.begin <=> LinesBack(end, b.height) >= 1 /\ LinesBack(end, b.height) >= end.pos)
      /\ back.pos = Greater(end.pos - Greater(LinesBack(end, b.height), 0), 0)
  <2> HIDE DEF end
  <2> QED
    BY <1>0, <1>1, BackBox
<1> HIDE DEF end, back
<1>3. ASSUME b.text.search
      PROVE  /\ back.pos <= lines0 /\ (back.pos = 0 => back.begin)
             /\ \A line \in Nat : line < lines0 =>
                    (line \in back.pos .. end.pos - 1 <=> line \in back.pos .. back.pos + b.height - 1)
  <2>1. LastLine(b) = lines0
    BY <1>0, <1>3 DEF LastLine
  <2>2. CASE b.pos + b.height <= lines0
    <3>1. end.pos = b.pos + b.height /\ ~end.end
      BY <1>0, <1>1, <2>1, <2>2 DEF LineAt
    <3>2. LinesBack(end, b.height) = b.height
      BY <3>1 DEF LinesBack
    <3>3. back.pos = b.pos /\ (back.pos = 0 => back.begin)
      BY <1>0, <1>2, <3>1, <3>2 DEF Greater
    <3> QED
      BY <1>0, <3>1, <3>3
  <2>3. CASE ~(b.pos + b.height <= lines0)
    <3>1. end.pos = lines0 /\ end.end
      BY <1>0, <1>1, <2>1, <2>3 DEF LineAt
    <3>2. LinesBack(end, b.height) = b.height - 1
      BY <1>0, <1>1, <3>1 DEF LinesBack
    <3>3. back.pos = Greater(lines0 - (b.height - 1), 0) /\ (back.pos = 0 => back.begin)
      BY <1>0, <1>2, <3>1, <3>2 DEF Greater
    <3>4. back.pos \in Nat /\ back.pos <= lines0 /\ back.pos + b.height - 1 >= lines0
      BY <1>0, <3>3 DEF Greater
    <3> QED
      BY <1>0, <3>1, <3>3, <3>4
  <2> QED
    BY <2>2, <2>3
<1>4. /\ TextBox(start) /\ start.text = b.text /\ start.height = b.height /\ start.res = "wait" /\ start.hscroll = b.hscroll
      /\ b.text.ended /\ ~b.text.search => (start.begin <=> start.pos = 0)
      /\ b.text.search => /\ start.begin = back.begin /\ start.pos = back.pos
                          /\ LET page == Among(b.text.jumps, {j \in ToSet(b.text.jumps) : j.line \in back.pos .. end.pos - 1})
                             IN  start.keys = SubSeq(page, 1, Lesser(JumpNb, Len(page)))
  <2>1. CASE ~b.text.search
    BY <2>1
  <2>2. CASE b.text.search
    <3> DEFINE S == {j \in ToSet(b.text.jumps) : j.line \in back.pos .. end.pos - 1}
               page == Among(b.text.jumps, S)
               keys == SubSeq(page, 1, Lesser(JumpNb, Len(page)))
    <3>1. start = [back EXCEPT !.keys = keys]
      BY <1>2, <2>2 DEF UpdateText
    <3>2. page \in Seq(Jumps)
      <4> HIDE DEF S
      <4>1. page \in Seq(Jumps \cap S)
        BY <1>0, AmongIs
      <4> HIDE DEF page
      <4> QED
        BY <4>1
    <3>3. keys \in Seq(Jumps)
      <4>1. Len(page) \in Nat /\ JumpNb \in Nat
        BY <3>2, SizesAssumption
      <4>2. Lesser(JumpNb, Len(page)) \in 0 .. Len(page)
        BY <4>1 DEF Lesser
      <4> HIDE DEF page
      <4> QED
        BY <3>2, <4>2
    <3> HIDE DEF keys, start
    <3>4. /\ TextBox(start) /\ start.text = b.text /\ start.height = b.height /\ start.res = "wait" /\ start.hscroll = b.hscroll
          /\ start.begin = back.begin /\ start.pos = back.pos /\ start.keys = keys
      BY <1>2, <3>1, <3>3 DEF TextBox
    <3> QED
      BY <2>2, <3>4 DEF keys
  <2> QED
    BY <2>1, <2>2
<1>5. d = Iterate(PrintLine, b.height, begun)
  BY DEF PrintPage, start, back, end
<1> HIDE DEF start
<1>6. /\ TextBox(begun) /\ begun.length = 0 /\ begun.passed = FALSE /\ begun.top = start.pos /\ begun.pos = start.pos
      /\ begun.text = b.text /\ begun.height = b.height /\ begun.res = "wait" /\ begun.begin = start.begin
      /\ begun.keys = start.keys /\ begun.hscroll = b.hscroll
  BY <1>4 DEF TextBox
<1> HIDE DEF begun
<1>7. d = Printed(begun, b.height)
  BY <1>0, <1>5, <1>6, PrintLines
<1> HIDE DEF d
<1>8. /\ TextBox(d) /\ d.text = b.text /\ d.begin = start.begin /\ d.height = b.height /\ d.top = start.pos
      /\ d.hscroll = b.hscroll /\ d.keys = start.keys /\ d.res = "wait" /\ d.pos = LineAt(begun, b.height)
      /\ d.length = LinesTo(begun, b.height) /\ (d.end <=> begun.pos + b.height > LastLine(begun))
  <2> DEFINE n == b.height
             e == Printed(begun, n)
  <2>1. n \in Nat /\ n # 0 /\ d = e
    BY <1>0, <1>7
  <2>2. BoxPrinted(e, begun, n)
    <3>1. Begun(begun)
      BY <1>6 DEF Begun
    <3> HIDE DEF n
    <3> QED
      BY <2>1, <3>1, PrintedIs
  <2> HIDE DEF e
  <2> QED
    BY <1>6, <2>1, <2>2 DEF BoxPrinted
<1>9. ASSUME b.text.ended PROVE TextFits(d)
  <2>1. LastLine(begun) = lines0 /\ start.pos \in Nat /\ start.pos <= lines0
    BY <1>4, <1>6, <1>9 DEF LastLine, TextBox
  <2>2. /\ d.pos = IF start.pos + b.height <= lines0 THEN start.pos + b.height ELSE lines0
        /\ d.end <=> start.pos + b.height > lines0
    BY <1>6, <1>8, <2>1 DEF LineAt
  <2>3. d.length = Lesser(b.height, lines0 - start.pos + 1)
    <3>1. Greater(1, lines0 - start.pos + 1) = lines0 - start.pos + 1
      BY <1>0, <2>1 DEF Greater
    <3> QED
      BY <1>6, <1>8, <2>1, <3>1 DEF LinesTo
  <2>4. (start.pos = 0 => start.begin) /\ (start.begin => start.pos = 0 \/ b.text.search)
    BY <1>0, <1>3, <1>4, <1>9
  <2>5. b.text.search => start.keys = PageKeys(d)
    <3> SUFFICES ASSUME b.text.search PROVE start.keys = PageKeys(d)
      OBVIOUS
    <3> DEFINE S == {j \in ToSet(b.text.jumps) : j.line \in back.pos .. end.pos - 1}
               T == {j \in ToSet(b.text.jumps) : j.line \in d.top .. d.top + d.height - 1}
    <3>1. \A j \in ToSet(b.text.jumps) : j.line \in Nat /\ j.line < lines0
      <4>1. \A j \in ToSet(b.text.jumps) : j \in Jumps /\ j.line < lines0
        BY <1>0 DEF Pages, ToSet
      <4> QED
        BY <4>1 DEF Jumps
    <3>2. d.top = back.pos /\ d.height = b.height
      BY <1>4, <1>8
    <3>3. S = T
      BY <1>3, <3>1, <3>2
    <3>4. start.keys = SubSeq(Among(b.text.jumps, S), 1, Lesser(JumpNb, Len(Among(b.text.jumps, S))))
      BY <1>4
    <3>5. PageKeys(d) = SubSeq(Among(b.text.jumps, T), 1, Lesser(JumpNb, Len(Among(b.text.jumps, T))))
      BY <1>8 DEF PageKeys
    <3> HIDE DEF S, T
    <3> QED
      BY <3>3, <3>4, <3>5
  <2> QED
    BY <1>8, <2>1, <2>2, <2>3, <2>4, <2>5 DEF TextFits
<1> QED
  BY <1>8, <1>9 DEF TextOk, d

LEMMA TextOpenOk ==
  ASSUME NEW text \in Pages, NEW vscroll \in Nat, NEW hscroll \in Nat, NEW height \in Nat, height # 0
  PROVE  TextOk(TextOpen(text, vscroll, hscroll, height)) /\ TextOpen(text, vscroll, hscroll, height).res = "wait"
<1> DEFINE b == [kind |-> "text", res |-> "wait", text |-> text, begin |-> TRUE, end |-> FALSE, passed |-> FALSE,
                 length |-> 0, hscroll |-> hscroll, pos |-> 0, top |-> 0, height |-> height, keys |-> <<>>, at |-> 0]
           c == [b EXCEPT !.begin = FALSE]
           e == Iterate(GetLine, vscroll, c)
           p == IF vscroll = 0 THEN b ELSE e
<1>1. TextBox(b) /\ b.res = "wait" /\ b.begin = TRUE /\ b.pos = 0
  <2>1. text.lines \in Nat /\ <<>> \in Seq(Jumps)
    BY DEF Pages
  <2>2. b.text = text /\ b.res = "wait" /\ b.begin = TRUE /\ b.pos = 0
    OBVIOUS
  <2>3. b.pos <= b.text.lines
    BY <2>1
  <2>4. b \in [ kind : {"text"}, res : {"wait", "exit", "jump"}, text : Pages, begin : BOOLEAN, end : BOOLEAN,
                 passed : BOOLEAN, length : Nat, hscroll : Nat, pos : Nat, top : Nat, height : Nat \ {0},
                 keys : Seq(Jumps), at : Nat ]
    BY <2>1
  <2> QED
    BY <2>2, <2>3, <2>4 DEF TextBox
<1> HIDE DEF b
<1>2. TextBox(c) /\ c.res = "wait" /\ c.begin = FALSE /\ c.pos = 0 /\ c.text.lines \in Nat /\ c.text.lines # 0
  BY <1>1 DEF TextBox, Pages
<1> HIDE DEF c
<1>3. e = Got(c, vscroll)
  BY <1>2, GetLines
<1>4. TextBox(e) /\ e.res = "wait" /\ e.begin = FALSE /\ e.pos = LineAt(c, vscroll)
  BY <1>2, <1>3, GotBox
<1> HIDE DEF e
<1>5. vscroll # 0 => e.pos # 0
  BY <1>2, <1>4 DEF LineAt
<1>6. TextBox(p) /\ p.res = "wait" /\ (p.begin <=> p.pos = 0)
  BY <1>1, <1>4, <1>5
<1>7. TextOpen(text, vscroll, hscroll, height) = PrintPage(p)
  BY DEF TextOpen, b, c, e
<1> HIDE DEF p
<1> QED
  BY <1>6, <1>7, PrintPageOk

\* A page further back or on
LEMMA TextBackOk ==
  ASSUME NEW b, TextBox(b), b.res = "wait", NEW n \in Int, b.text.ended => b.pos # 0
  PROVE  TextOk(PrintPage(BackLines(b, n)))
<1> DEFINE d == BackLines(b, n)
<1>1. TextBox(d) /\ d.text = b.text /\ d.res = "wait" /\ (b.pos # 0 => (d.begin <=> d.pos = 0))
  BY BackBox
<1> HIDE DEF d
<1>2. d.text.ended /\ ~d.text.search => (d.begin <=> d.pos = 0)
  BY <1>1
<1>3. TextOk(PrintPage(d))
  BY <1>1, <1>2, PrintPageOk
<1> QED
  BY <1>3 DEF d

LEMMA TextEndOk ==
  ASSUME NEW b, TextBox(b), NEW res \in {"exit", "jump"}, NEW at \in Nat, res = "jump" => at \in DOMAIN b.keys
  PROVE  TextOk(TextEnd(b, res, at))
<1> DEFINE d == BackLines(b, b.length)
<1>1. TextBox(d) /\ d.keys = b.keys
  <2>1. b.length \in Int
    BY DEF TextBox
  <2> QED
    BY <2>1, BackBox
<1>2. TextEnd(b, res, at) = [d EXCEPT !.res = res, !.at = at]
  BY DEF TextEnd
<1> HIDE DEF d
<1>3. TextBox([d EXCEPT !.res = res, !.at = at])
  BY <1>1 DEF TextBox
<1>4. /\ [d EXCEPT !.res = res, !.at = at].res = res /\ [d EXCEPT !.res = res, !.at = at].at = at
      /\ [d EXCEPT !.res = res, !.at = at].keys = b.keys
  BY <1>1 DEF TextBox
<1> QED
  BY <1>2, <1>3, <1>4 DEF TextOk

LEMMA TextKeyOk ==
  ASSUME NEW b, TextOk(b), b.res = "wait", NEW key
  PROVE  TextOk(TextKey(b, key))
<1>1. TextBox(b)
  BY DEF TextOk
<1>2. /\ b.pos \in Nat /\ b.text.lines \in Nat /\ b.text.lines # 0 /\ b.length \in Nat /\ b.height \in Nat /\ b.height # 0
      /\ b.hscroll \in Nat /\ b.keys \in Seq(Jumps)
  BY <1>1 DEF TextBox, Pages
<1>3. b.text.ended => b.pos # 0
  BY <1>1, PageTop DEF TextOk
<1>4. TextOk(TextEnd(b, "exit", 0))
  <2> DEFINE zero == 0
  <2>1. zero \in Nat
    OBVIOUS
  <2> HIDE DEF zero
  <2>2. TextOk(TextEnd(b, "exit", zero))
    BY <1>1, <2>1, TextEndOk
  <2> QED
    BY <2>2 DEF zero
<1>5. Jumped(b, key) # {} => TextOk(TextEnd(b, "jump", Min(Jumped(b, key))))
  <2> SUFFICES ASSUME Jumped(b, key) # {} PROVE TextOk(TextEnd(b, "jump", Min(Jumped(b, key))))
    OBVIOUS
  <2> DEFINE i == Min(Jumped(b, key))
  <2>1. Jumped(b, key) \subseteq DOMAIN b.keys /\ DOMAIN b.keys \subseteq Nat
    BY <1>2 DEF Jumped
  <2>2. i \in Jumped(b, key)
    <3> DEFINE S == Jumped(b, key)
    <3>1. S \in SUBSET Nat /\ S # {}
      BY <2>1
    <3> HIDE DEF S
    <3> QED
      BY <3>1, MinIn DEF S
  <2> HIDE DEF i
  <2>3. i \in Nat /\ i \in DOMAIN b.keys
    BY <2>1, <2>2
  <2>4. TextOk(TextEnd(b, "jump", i))
    BY <1>1, <2>3, TextEndOk
  <2> QED
    BY <2>4 DEF i
<1>6. TextOk(PrintPage([b EXCEPT !.begin = TRUE, !.pos = 0]))
  <2> DEFINE c == [b EXCEPT !.begin = TRUE, !.pos = 0]
  <2>0. b.text \in Pages /\ 0 \in Nat /\ 0 <= b.text.lines
    BY <1>1, <1>2 DEF TextBox
  <2>1. TextBox(c) /\ c.res = "wait" /\ c.begin = TRUE /\ c.pos = 0
    BY <1>1, <2>0 DEF TextBox
  <2> HIDE DEF c
  <2>2. TextOk(PrintPage(c))
    BY <2>1, PrintPageOk
  <2> QED
    BY <2>2 DEF c
<1>7. TextOk(PrintPage(BackLines([b EXCEPT !.end = TRUE, !.pos = b.text.lines], b.height)))
  <2> DEFINE c == [b EXCEPT !.end = TRUE, !.pos = b.text.lines]
  <2>0. b.text \in Pages /\ b.text.lines <= b.text.lines
    BY <1>1, <1>2 DEF TextBox
  <2>1. TextBox(c) /\ c.res = "wait" /\ c.pos = b.text.lines
    BY <1>1, <1>2, <2>0 DEF TextBox
  <2>2. b.height \in Int /\ c.pos # 0
    BY <1>2, <2>1
  <2> HIDE DEF c
  <2>3. TextOk(PrintPage(BackLines(c, b.height)))
    BY <2>1, <2>2, TextBackOk
  <2> QED
    BY <2>3 DEF c
<1>8. \A n \in Int : TextOk(PrintPage(BackLines(b, n)))
  BY <1>1, <1>3, TextBackOk
<1>9. TextOk(PrintPage([b EXCEPT !.begin = FALSE]))
  <2> DEFINE c == [b EXCEPT !.begin = FALSE]
  <2>1. TextBox(c) /\ c.res = "wait" /\ c.begin = FALSE /\ c.text = b.text /\ c.pos = b.pos
    BY <1>1, <1>2 DEF TextBox
  <2> HIDE DEF c
  <2>2. TextOk(PrintPage(c))
    BY <1>3, <2>1, PrintPageOk
  <2> QED
    BY <2>2 DEF c
<1>10. ASSUME NEW h \in Nat PROVE TextOk(PrintPage(BackLines([b EXCEPT !.hscroll = h], b.length)))
  <2> DEFINE c == [b EXCEPT !.hscroll = h]
  <2>1. TextBox(c) /\ c.res = "wait" /\ c.text = b.text /\ c.pos = b.pos /\ b.length \in Int
    BY <1>1, <1>2 DEF TextBox
  <2> HIDE DEF c
  <2>2. TextOk(PrintPage(BackLines(c, b.length)))
    BY <1>3, <2>1, TextBackOk
  <2> QED
    BY <2>2 DEF c
<1>11. /\ b.hscroll > 0 => TextOk(PrintPage(BackLines([b EXCEPT !.hscroll = @ - 1], b.length)))
       /\ TextOk(PrintPage(BackLines([b EXCEPT !.hscroll = 0], b.length)))
       /\ TextOk(PrintPage(BackLines([b EXCEPT !.hscroll = @ + 1], b.length)))
  <2>1. /\ b.hscroll > 0 => [b EXCEPT !.hscroll = @ - 1] = [b EXCEPT !.hscroll = b.hscroll - 1] /\ b.hscroll - 1 \in Nat
        /\ [b EXCEPT !.hscroll = @ + 1] = [b EXCEPT !.hscroll = b.hscroll + 1] /\ b.hscroll + 1 \in Nat /\ 0 \in Nat
    BY <1>1, <1>2 DEF TextBox
  <2> QED
    BY <1>10, <2>1
<1>12. /\ TextOk(PrintPage(BackLines(b, b.length + 1))) /\ TextOk(PrintPage(BackLines(b, b.length + b.height)))
       /\ TextOk(PrintPage(BackLines(b, b.length - 1)))
  BY <1>2, <1>8
<1> QED
  BY <1>4, <1>5, <1>6, <1>7, <1>9, <1>11, <1>12, Zenon DEF TextKey

LEMMA TextResizeOk ==
  ASSUME NEW b, TextOk(b), b.res = "wait", NEW height \in Nat, height # 0
  PROVE  TextOk(PrintPage(BackLines([b EXCEPT !.height = height], b.height + 4)))
<1>1. TextBox(b)
  BY DEF TextOk
<1>2. b.text.ended => b.pos # 0
  BY <1>1, PageTop DEF TextOk
<1> DEFINE c == [b EXCEPT !.height = height]
<1>3. TextBox(c) /\ c.res = "wait" /\ c.text = b.text /\ c.pos = b.pos /\ b.height + 4 \in Int
  <2>1. c.res = b.res /\ c.text = b.text /\ c.pos = b.pos /\ b.height + 4 \in Int
    BY <1>1 DEF TextBox
  <2>2. TextBox(c)
    BY <1>1 DEF TextBox
  <2> QED
    BY <2>1, <2>2
<1> HIDE DEF c
<1>4. TextOk(PrintPage(BackLines(c, b.height + 4)))
  BY <1>2, <1>3, TextBackOk
<1> QED
  BY <1>4 DEF c
-----------------------------------------------------------------------------
(* What the functions show: rows of entries *)

LEMMA FlattenSeqIn ==
  ASSUME NEW A, NEW s \in Seq(Seq(A))
  PROVE  FlattenSeq(s) \in Seq(A)
<1> DEFINE n == Len(s)
           V == Seq(A)
           next(v, i) == IF i = 1 THEN s[i] ELSE v \o s[i]
           R == [i \in 1 .. n |-> [v \in V |-> next(v, i)]]
           Is(f) == f = [i \in 1 .. n |-> IF i = 1 THEN s[i] ELSE f[i - 1] \o s[i]]
           fn == CHOOSE f : Is(f)
<1>0. n \in Nat /\ \A i \in 1 .. n : s[i] \in V
  OBVIOUS
<1>1. CASE n = 0
  <2>1. FlattenSeq(s) = s /\ s = <<>>
    BY <1>1 DEF FlattenSeq
  <2> QED
    BY <2>1
<1>2. CASE n # 0
  <2>1. \A i \in 1 .. n : \A v \in V : next(v, i) \in V
    <3> TAKE i \in 1 .. n
    <3> TAKE v \in V
    <3>1. s[i] \in Seq(A) /\ v \in Seq(A)
      BY <1>0
    <3>2. v \o s[i] \in Seq(A)
      <4> DEFINE t == s[i]
      <4> HIDE DEF t
      <4>1. t \in Seq(A)
        BY <3>1 DEF t
      <4>2. v \o t \in Seq(A)
        BY <3>1, <4>1
      <4> QED
        BY <4>2 DEF t
    <3> QED
      BY <3>1, <3>2
  <2>2. Rounds(n, V, R) /\ \A i \in 1 .. n : \A v \in V : R[i][v] = next(v, i)
    <3> HIDE DEF next
    <3> QED
      BY <2>1 DEF Rounds
  <2>3. <<>> \in V
    OBVIOUS
  <2> HIDE DEF R, V, n
  <2>4. PICK g \in [0 .. n -> V] : g[0] = <<>> /\ \A i \in 1 .. n : g[i] = R[i][g[i - 1]]
    <3>1. LoopFrom(n, V, <<>>, R)
      BY <1>0, <2>2, <2>3, LoopEnds
    <3> QED
      BY <3>1 DEF LoopFrom
  <2> DEFINE h == [i \in 1 .. n |-> g[i]]
  <2>5. \A i \in 1 .. n : g[i] = next(g[i - 1], i)
    <3> TAKE i \in 1 .. n
    <3>1. i - 1 \in 0 .. n
      BY <1>0
    <3>2. g[i - 1] \in V
      BY <2>4, <3>1
    <3> HIDE DEF next
    <3> QED
      BY <2>2, <2>4, <3>2
  <2>6. Is(h)
    <3>1. \A i \in 1 .. n : g[i] = IF i = 1 THEN s[i] ELSE h[i - 1] \o s[i]
      <4> TAKE i \in 1 .. n
      <4>1. i # 1 => i - 1 \in 1 .. n
        BY <1>0
      <4>2. i # 1 => h[i - 1] = g[i - 1]
        BY <4>1
      <4> HIDE DEF h
      <4> QED
        BY <2>5, <4>2
    <3> QED
      BY <3>1
  <2>7. Is(fn)
    <3> HIDE DEF h
    <3> QED
      BY <2>6
  <2>8. FlattenSeq(s) = fn[n]
    BY <1>2 DEF FlattenSeq, n
  <2> HIDE DEF fn
  <2> DEFINE k == [i \in 0 .. n |-> IF i = 0 THEN <<>> ELSE fn[i]]
  <2>9. k[0] \in V /\ \A i \in 1 .. n : k[i - 1] \in V => k[i] = R[i][k[i - 1]]
    <3>1. \A i \in 1 .. n : fn[i] = IF i = 1 THEN s[i] ELSE fn[i - 1] \o s[i]
      BY <2>7
    <3>2. \A i \in 1 .. n : k[i] = next(k[i - 1], i)
      <4> TAKE i \in 1 .. n
      <4>1. k[i] = fn[i] /\ (i # 1 => k[i - 1] = fn[i - 1])
        BY <1>0
      <4> HIDE DEF k
      <4> QED
        BY <3>1, <4>1
    <3>3. k[0] \in V
      BY <1>0, <2>3
    <3> HIDE DEF k, next
    <3> QED
      BY <2>2, <3>2, <3>3
  <2> HIDE DEF k
  <2>10. \A i \in 0 .. n : k[i] \in V
    BY <1>0, <2>2, <2>9, LoopStays
  <2>11. k[n] = fn[n] /\ n \in 0 .. n
    BY <1>0, <1>2 DEF k
  <2> QED
    BY <2>8, <2>10, <2>11 DEF V
<1> QED
  BY <1>1, <1>2
IsRows(menu, f) ==
    f = [x \in Entries |->
          LET below == FlattenSeq([i \in DOMAIN Children[x] |-> f[Children[x][i]]])
              value == SymOf[x] \in Bools /\ IsValue(SymOf[x])
          IN  CASE Passed(x) -> <<>>
                [] Kind[x] = "menu" -> IF x = menu THEN below ELSE <<Row(x, "m")>>
                [] Kind[x] = "comment" -> <<Row(x, ":")>> \o below
                [] Kind[x] = "choice" /\ IsYes(x, now) ->
                       IF \E c \in Chosen(x) : Children[c] # <<>>
                       THEN <<Row(x, "t")>> \o f[CHOOSE c \in Chosen(x) : TRUE]
                       ELSE <<Row(x, IF Chosen(x) # {} THEN "t" ELSE ":")>>
                [] Kind[x] = "choice" -> <<Row(x, ":")>> \o below
                [] x = menu -> <<Row(x, ":")>> \o below
                [] SymOf[x] \in Strings -> <<Row(x, "s")>> \o below
                [] OTHER -> <<Row(x, IF value /\ IsYes(x, now) THEN ":" ELSE "t")>>
                            \o (IF Kind[x] = "menuconfig" THEN <<>> ELSE below)]

\* The rows that build_conf makes of an entry, from those of the entries below it.
RowsFrom(x, menu, below, chosen) ==
    LET value == SymOf[x] \in Bools /\ IsValue(SymOf[x])
    IN  CASE Passed(x) -> <<>>
          [] Kind[x] = "menu" -> IF x = menu THEN below ELSE <<Row(x, "m")>>
          [] Kind[x] = "comment" -> <<Row(x, ":")>> \o below
          [] Kind[x] = "choice" /\ IsYes(x, now) ->
                 IF \E c \in Chosen(x) : Children[c] # <<>>
                 THEN <<Row(x, "t")>> \o chosen
                 ELSE <<Row(x, IF Chosen(x) # {} THEN "t" ELSE ":")>>
          [] Kind[x] = "choice" -> <<Row(x, ":")>> \o below
          [] x = menu -> <<Row(x, ":")>> \o below
          [] SymOf[x] \in Strings -> <<Row(x, "s")>> \o below
          [] OTHER -> <<Row(x, IF value /\ IsYes(x, now) THEN ":" ELSE "t")>>
                      \o (IF Kind[x] = "menuconfig" THEN <<>> ELSE below)

LEMMA RowIn ==
  ASSUME NEW x \in Entries, NEW tag \in Tags, tag = "s" => SymOf[x] \in Strings
  PROVE  Row(x, tag) \in Items
<1>1. Hot[x] \in Hots
  BY DEF Hots
<1> QED
  BY <1>1 DEF Items, Row

LEMMA RowAnd ==
  ASSUME NEW x \in Entries, NEW tag \in Tags, tag = "s" => SymOf[x] \in Strings, NEW s \in Seq(Items)
  PROVE  <<Row(x, tag)>> \o s \in Seq(Items)
<1> DEFINE r == Row(x, tag)
<1>1. r \in Items
  BY RowIn
<1> HIDE DEF r
<1>2. <<r>> \in Seq(Items)
  BY <1>1
<1>3. <<r>> \o s \in Seq(Items)
  BY <1>2
<1> QED
  BY <1>3 DEF r

LEMMA RowsFromIn ==
  ASSUME NEW x \in Entries, NEW menu, NEW below \in Seq(Items), NEW chosen,
         (\E c \in Chosen(x) : Children[c] # <<>>) => chosen \in Seq(Items)
  PROVE  RowsFrom(x, menu, below, chosen) \in Seq(Items)
<1> DEFINE value == SymOf[x] \in Bools /\ IsValue(SymOf[x])
           none == <<>>
           m == <<Row(x, "m")>>
           c == <<Row(x, ":")>> \o below
           t == <<Row(x, "t")>> \o chosen
           tag1 == IF Chosen(x) # {} THEN "t" ELSE ":"
           o == <<Row(x, tag1)>>
           s == <<Row(x, "s")>> \o below
           tag2 == IF value /\ IsYes(x, now) THEN ":" ELSE "t"
           rest == IF Kind[x] = "menuconfig" THEN none ELSE below
           d == <<Row(x, tag2)>> \o rest
           some == \E y \in Chosen(x) : Children[y] # <<>>
<1>1. {"m", ":", "t", "s", tag1, tag2} \subseteq Tags /\ tag1 # "s" /\ tag2 # "s"
  BY DEF Tags
<1>2. none \in Seq(Items) /\ rest \in Seq(Items)
  OBVIOUS
<1>3. m \in Seq(Items) /\ o \in Seq(Items)
  <2>1. \A tag \in Tags : tag # "s" => <<Row(x, tag)>> \in Seq(Items)
    <3> TAKE tag \in Tags
    <3> HAVE tag # "s"
    <3> DEFINE r == Row(x, tag)
    <3>1. r \in Items
      BY RowIn
    <3> HIDE DEF r
    <3>2. <<r>> \in Seq(Items)
      BY <3>1
    <3> QED
      BY <3>2 DEF r
  <2> HIDE DEF tag1
  <2> QED
    BY <1>1, <2>1
<1>4. c \in Seq(Items) /\ (some => t \in Seq(Items)) /\ (SymOf[x] \in Strings => s \in Seq(Items)) /\ d \in Seq(Items)
  <2> HIDE DEF tag2, rest
  <2> QED
    BY <1>1, <1>2, RowAnd
<1>5. RowsFrom(x, menu, below, chosen) =
        CASE Passed(x) -> none
          [] Kind[x] = "menu" -> IF x = menu THEN below ELSE m
          [] Kind[x] = "comment" -> c
          [] Kind[x] = "choice" /\ IsYes(x, now) -> IF some THEN t ELSE o
          [] Kind[x] = "choice" -> c
          [] x = menu -> c
          [] SymOf[x] \in Strings -> s
          [] OTHER -> d
  BY DEF RowsFrom
<1> HIDE DEF none, m, c, t, o, s, d, some
<1> QED
  BY <1>2, <1>3, <1>4, <1>5

LEMMA ChosenIn ==
  ASSUME NEW e \in Entries
  PROVE  Chosen(e) \subseteq ToSet(Children[e])
BY DEF Chosen, ToSet

LEMMA RowsFromSame ==
  ASSUME NEW x, NEW menu, NEW below, NEW chosen
  PROVE  RowsFrom(x, menu, below, chosen) = RowsFrom(x, menu, below, IF \E c \in Chosen(x) : Children[c] # <<>> THEN chosen ELSE <<>>)
<1>1. CASE \E c \in Chosen(x) : Children[c] # <<>>
  BY <1>1
<1>2. CASE ~ \E c \in Chosen(x) : Children[c] # <<>>
  <2>1. (IF \E c \in Chosen(x) : Children[c] # <<>> THEN chosen ELSE <<>>) = <<>>
    BY <1>2
  <2>2. RowsFrom(x, menu, below, chosen) = RowsFrom(x, menu, below, <<>>)
    BY <1>2 DEF RowsFrom
  <2> QED
    BY <2>1, <2>2
<1> QED
  BY <1>1, <1>2

LEMMA ChildIn ==
  ASSUME NEW x \in Entries
  PROVE  /\ Len(Children[x]) \in Nat /\ DOMAIN Children[x] = 1 .. Len(Children[x])
         /\ \A i \in DOMAIN Children[x] : Children[x][i] \in Entries /\ Children[x][i] \in Lists[x]
         /\ \A c \in ToSet(Children[x]) : c \in Entries
<1> DEFINE s == Children[x]
<1>1. s \in Seq(Entries) /\ Lists[x] = ToSet(s)
  BY TreeAssumption DEF Lists
<1> HIDE DEF s
<1>2. Len(s) \in Nat /\ DOMAIN s = 1 .. Len(s) /\ \A i \in DOMAIN s : s[i] \in Entries
  BY <1>1
<1> QED
  BY <1>1, <1>2 DEF s, ToSet

LEMMA RowsIn ==
  ASSUME NEW e \in Entries, NEW menu
  PROVE  Rows(e, menu) \in Seq(Items)
<1> DEFINE V == Seq(Items)
           Below(x, f) == FlattenSeq([i \in DOMAIN Children[x] |-> f[Children[x][i]]])
           some(x) == \E c \in Chosen(x) : Children[c] # <<>>
           one(x) == CHOOSE c \in Chosen(x) : TRUE
           H == [x \in Entries |-> [f \in [Entries -> V] |->
                    RowsFrom(x, menu, Below(x, f), IF some(x) THEN f[one(x)] ELSE <<>>)]]
           fn == CHOOSE f : IsRows(menu, f)
<1>0. /\ \A x \in Entries : /\ Lists[x] = ToSet(Children[x]) /\ Lists[x] \subseteq Entries
                            /\ Children[x] \in Seq(Entries) /\ (some(x) => one(x) \in Lists[x])
      /\ <<>> \in V
  <2>1. ASSUME NEW x \in Entries PROVE some(x) => one(x) \in Lists[x]
    BY ChosenIn DEF Lists
  <2> QED
    BY <2>1, ListsFounded, TreeAssumption DEF Lists
<1>1. \A x \in Entries, f \in [Entries -> V] : Below(x, f) \in V
  <2> TAKE x \in Entries, f \in [Entries -> V]
  <2> DEFINE s == [i \in DOMAIN Children[x] |-> f[Children[x][i]]]
  <2>1. s \in Seq(V)
    <3>1. Len(Children[x]) \in Nat /\ DOMAIN Children[x] = 1 .. Len(Children[x])
      BY ChildIn
    <3>2. \A i \in DOMAIN Children[x] : Children[x][i] \in Entries
      BY ChildIn
    <3>3. \A i \in DOMAIN Children[x] : f[Children[x][i]] \in V
      BY <3>2
    <3> HIDE DEF V
    <3> QED
      BY <3>1, <3>3
  <2> HIDE DEF s
  <2>2. FlattenSeq(s) \in Seq(Items)
    BY <2>1, FlattenSeqIn
  <2> QED
    BY <2>2 DEF s
<1>2. \E f \in [Entries -> V] : \A x \in Entries : f[x] = H[x][f]
  <2>1. H \in [Entries -> [[Entries -> V] -> V]]
    <3>1. ASSUME NEW x \in Entries, NEW f \in [Entries -> V]
          PROVE  RowsFrom(x, menu, Below(x, f), IF some(x) THEN f[one(x)] ELSE <<>>) \in V
      <4> DEFINE b == Below(x, f)
                 c == IF some(x) THEN f[one(x)] ELSE <<>>
      <4>1. b \in Seq(Items) /\ c \in Seq(Items)
        BY <1>0, <1>1
      <4> HIDE DEF b, c
      <4>2. RowsFrom(x, menu, b, c) \in Seq(Items)
        BY <4>1, RowsFromIn
      <4> QED
        BY <4>2 DEF b, c
    <3> HIDE DEF V
    <3> QED
      BY <3>1
  <2>2. Local(Entries, Lists, V, H)
    <3> SUFFICES ASSUME NEW x \in Entries, NEW f \in [Entries -> V], NEW g \in [Entries -> V],
                        \A y \in Lists[x] : f[y] = g[y]
                 PROVE  H[x][f] = H[x][g]
      BY DEF Local
    <3>1. [i \in DOMAIN Children[x] |-> f[Children[x][i]]] = [i \in DOMAIN Children[x] |-> g[Children[x][i]]]
      BY ChildIn
    <3>2. Below(x, f) = Below(x, g)
      BY <3>1
    <3>3. (IF some(x) THEN f[one(x)] ELSE <<>>) = (IF some(x) THEN g[one(x)] ELSE <<>>)
      BY <1>0
    <3> HIDE DEF Below, some, one, V
    <3> QED
      BY <3>2, <3>3
  <2> DEFINE v == <<>>
  <2>3. v \in V
    OBVIOUS
  <2> HIDE DEF H, V, v
  <2>4. Recursion(Entries, Lists, V, H)
    BY <2>1, <2>2, ListsFounded DEF Recursion
  <2>5. Ends(Entries, V, H)
    BY <2>3, <2>4, TreeRecursion
  <2> QED
    BY <2>5 DEF Ends
<1>3. PICK g \in [Entries -> V] : \A x \in Entries : g[x] = H[x][g]
  BY <1>2
<1>4. \A f : \A x \in Entries : RowsFrom(x, menu, Below(x, f), IF some(x) THEN f[one(x)] ELSE <<>>)
                              = RowsFrom(x, menu, Below(x, f), f[one(x)])
  <2> HIDE DEF Below, one
  <2> QED
    BY RowsFromSame
<1>5. \A x \in Entries : g[x] = RowsFrom(x, menu, Below(x, g), g[one(x)])
  <2> HIDE DEF Below, one, some, V
  <2> QED
    BY <1>3, <1>4
<1>6. \A f : IsRows(menu, f) <=> f = [x \in Entries |-> RowsFrom(x, menu, Below(x, f), f[one(x)])]
  BY DEF IsRows, RowsFrom
<1>7. IsRows(menu, g)
  <2>1. g = [x \in Entries |-> g[x]]
    OBVIOUS
  <2> HIDE DEF Below, one
  <2>2. g = [x \in Entries |-> RowsFrom(x, menu, Below(x, g), g[one(x)])]
    BY <1>5, <2>1
  <2> QED
    BY <1>6, <2>2
<1>8. IsRows(menu, fn)
  BY <1>7
<1>9. Rows(e, menu) = fn[e]
  BY DEF Rows, IsRows
<1> HIDE DEF fn
<1>10. fn = [x \in Entries |-> RowsFrom(x, menu, Below(x, fn), fn[one(x)])]
  BY <1>6, <1>8
<1> DEFINE S == {x \in Entries : fn[x] \notin V}
<1>11. S = {}
  <2> SUFFICES ASSUME S # {} PROVE FALSE
    OBVIOUS
  <2>1. PICK x \in S : Lists[x] \cap S = {}
    BY ListsFounded DEF Founded
  <2>2. \A y \in Lists[x] : fn[y] \in V
    BY <1>0, <2>1
  <2> DEFINE s == [i \in DOMAIN Children[x] |-> fn[Children[x][i]]]
  <2>3. s \in Seq(V)
    <3>1. Len(Children[x]) \in Nat /\ DOMAIN Children[x] = 1 .. Len(Children[x])
      BY <2>1, ChildIn
    <3>2. \A i \in DOMAIN Children[x] : fn[Children[x][i]] \in V
      BY <2>1, <2>2, ChildIn
    <3> HIDE DEF V
    <3> QED
      BY <3>1, <3>2
  <2> HIDE DEF s
  <2>4. FlattenSeq(s) \in Seq(Items)
    BY <2>3, FlattenSeqIn
  <2> DEFINE b == Below(x, fn)
             c == fn[one(x)]
  <2>5. b \in Seq(Items) /\ (some(x) => c \in Seq(Items))
    BY <1>0, <2>2, <2>4 DEF s
  <2>6. fn[x] = RowsFrom(x, menu, b, c)
    BY <1>10
  <2> HIDE DEF b, c
  <2>7. RowsFrom(x, menu, b, c) \in Seq(Items)
    BY <2>5, RowsFromIn
  <2> QED
    BY <2>1, <2>6, <2>7
<1> QED
  BY <1>9, <1>11

\* The items of a choice are those of its values, and of comments.
ValueItems == {i \in Items : SymOf[i.data] \in Bools \cup {Nobody}}

LEMMA ValuesOf ==
  ASSUME NEW e \in Entries, Kind[e] = "choice", NEW c \in ToSet(Children[e])
  PROVE  c \in Entries /\ SymOf[c] \in Bools \cup {Nobody}
<1>1. SymOf[c] # Nobody => SymOf[c] \in Members(SymOf[e])
  BY ChoiceAssumption
<1> QED
  BY <1>1, ChildIn, MembersAre

LEMMA ChoiceRowsIn ==
  ASSUME NEW e \in Entries, Kind[e] = "choice"
  PROVE  /\ ChoiceRows(e) \in Seq(ValueItems)
         /\ (\E c \in ToSet(Children[e]) : Visible(c, now)) => ChoiceRows(e) # <<>>
<1> DEFINE S == {c \in ToSet(Children[e]) : Visible(c, now)}
           shown == Among(Children[e], S)
           item(i) == [data |-> shown[i], hot |-> IF SymOf[shown[i]] = Nobody THEN "*" ELSE Initial[shown[i]],
                       tag |-> IF SymOf[shown[i]] = now.cur[SymOf[e]] THEN "X"
                               ELSE IF SymOf[shown[i]] = Nobody THEN ":" ELSE " "]
<1>1. /\ shown \in Seq(Entries \cap S)
      /\ (\E i \in DOMAIN Children[e] : Children[e][i] \in S) => shown # <<>>
  <2>1. Children[e] \in Seq(Entries)
    BY TreeAssumption
  <2> HIDE DEF S
  <2> QED
    BY <2>1, AmongIs
<1>2. (\E c \in ToSet(Children[e]) : Visible(c, now)) => shown # <<>>
  BY <1>1 DEF ToSet
<1> HIDE DEF shown
<1>3. Len(shown) \in Nat /\ DOMAIN shown = 1 .. Len(shown) /\ \A i \in 1 .. Len(shown) : shown[i] \in Entries \cap S
  BY <1>1
<1>4. \A i \in 1 .. Len(shown) : item(i) \in ValueItems
  <2> TAKE i \in 1 .. Len(shown)
  <2> DEFINE x == shown[i]
  <2>1. x \in Entries /\ SymOf[x] \in Bools \cup {Nobody}
    BY <1>3, ValuesOf
  <2> HIDE DEF x
  <2> DEFINE tag == IF SymOf[x] = now.cur[SymOf[e]] THEN "X" ELSE IF SymOf[x] = Nobody THEN ":" ELSE " "
             hot == IF SymOf[x] = Nobody THEN "*" ELSE Initial[x]
  <2>2. tag \in Tags /\ tag # "s" /\ hot \in Hots
    BY <2>1 DEF Tags, Hots
  <2> HIDE DEF tag, hot
  <2>3. [data |-> x, hot |-> hot, tag |-> tag] \in ValueItems
    BY <2>1, <2>2 DEF ValueItems, Items
  <2> QED
    BY <2>3 DEF x, tag, hot
<1>5. ChoiceRows(e) = [i \in 1 .. Len(shown) |-> item(i)]
  BY <1>3 DEF ChoiceRows, shown
<1> HIDE DEF item, S
<1>6. ChoiceRows(e) \in Seq(ValueItems) /\ Len(ChoiceRows(e)) = Len(shown)
  BY <1>3, <1>4, <1>5
<1> QED
  BY <1>1, <1>2, <1>3, <1>6

\* What a choice has as its value is on the screen.
ChoicesMade(n) ==
    \A c \in ChoiceSyms : n.cur[c] # None => n.cur[c] \in Members(c) \cap n.vis

LEMMA ChoiceShown ==
  ASSUME NEW n, ChoicesMade(n), NEW e \in Entries, Kind[e] = "choice", IsYes(e, n)
  PROVE  \E c \in ToSet(Children[e]) : Visible(c, n)
<1> DEFINE s == n.cur[SymOf[e]]
<1>1. SymOf[e] \in ChoiceSyms /\ s \in Members(SymOf[e]) /\ s \in n.vis
  BY ChoiceAssumption DEF IsYes, ChoicesMade
<1>2. s \in Bools /\ s \notin ChoiceSyms /\ s # Nobody
  <2>1. s \in Bools
    BY <1>1, MembersAre
  <2> QED
    BY <2>1, OrderAssumption, ChoiceAssumption DEF Symbols
<1> HIDE DEF s
<1>3. PICK c \in ToSet(Children[e]) : SymOf[c] = s /\ c \in Prompted /\ VisibleIf[c] = {{}}
  BY <1>1, <1>2, ChoiceAssumption
<1>4. c \in Entries /\ Kind[c] # "choice"
  BY <1>2, <1>3, ChildIn, ChoiceAssumption
<1>5. Holds(VisibleIf[c], n.cur)
  BY <1>3 DEF Holds
<1>6. PromptVisible(c, n)
  BY <1>1, <1>2, <1>3 DEF PromptVisible, Symbols
<1> QED
  BY <1>3, <1>4, <1>5, <1>6, VisibleIs

\* What is marked as answered is no string.
IsMarks(menu, f) ==
    f = [x \in Entries |->
          Marked(x, now) \cup
          CASE Passed(x) -> {}
            [] x # menu /\ Kind[x] \in {"menu", "menuconfig"} -> MarkedUpTo(x, now)
            [] Kind[x] = "choice" /\ IsYes(x, now) ->
                   (UNION {Marked(c, now) : c \in ToSet(Children[x])})
                   \cup UNION {f[c] : c \in {y \in Chosen(x) : Children[y] # <<>>}}
            [] OTHER -> UNION {f[c] : c \in ToSet(Children[x])}]

LEMMA MarkedByIn ==
  ASSUME NEW e \in Entries, NEW menu
  PROVE  MarkedBy(e, menu) \subseteq Bools
<1> DEFINE V == SUBSET Bools
           own(x) == Marked(x, now)
           upTo(x) == MarkedUpTo(x, now)
           kids(x) == UNION {Marked(c, now) : c \in ToSet(Children[x])}
           one(x, f) == UNION {f[c] : c \in {y \in Chosen(x) : Children[y] # <<>>}}
           below(x, f) == UNION {f[c] : c \in ToSet(Children[x])}
           rest(x, f) == CASE Passed(x) -> {}
                           [] x # menu /\ Kind[x] \in {"menu", "menuconfig"} -> upTo(x)
                           [] Kind[x] = "choice" /\ IsYes(x, now) -> kids(x) \cup one(x, f)
                           [] OTHER -> below(x, f)
           H == [x \in Entries |-> [f \in [Entries -> V] |-> own(x) \cup rest(x, f)]]
           fn == CHOOSE f : IsMarks(menu, f)
<1>0. \A x \in Entries : /\ Lists[x] = ToSet(Children[x]) /\ Lists[x] \subseteq Entries
                         /\ Chosen(x) \subseteq Lists[x]
  BY ListsFounded, ChosenIn DEF Lists
<1>1. \A x \in Entries : own(x) \in V /\ upTo(x) \in V /\ kids(x) \in V
  BY <1>0, MarkedHidden, LookedThroughIn DEF MarkedUpTo
<1>2. \A x \in Entries : \A f : (\A y \in Lists[x] : f[y] \in V) => own(x) \cup rest(x, f) \in V
  <2> TAKE x \in Entries
  <2> SUFFICES ASSUME NEW f, \A y \in Lists[x] : f[y] \in V PROVE own(x) \cup rest(x, f) \in V
    OBVIOUS
  <2>1. one(x, f) \in V /\ below(x, f) \in V
    BY <1>0
  <2> HIDE DEF own, upTo, kids, one, below
  <2> QED
    BY <1>1, <2>1
<1>3. H \in [Entries -> [[Entries -> V] -> V]]
  <2>1. \A x \in Entries : \A f \in [Entries -> V] : own(x) \cup rest(x, f) \in V
    BY <1>0, <1>2
  <2> HIDE DEF own, rest, V
  <2> QED
    BY <2>1
<1>4. Local(Entries, Lists, V, H)
  <2> SUFFICES ASSUME NEW x \in Entries, NEW f \in [Entries -> V], NEW g \in [Entries -> V],
                      \A y \in Lists[x] : f[y] = g[y]
               PROVE  H[x][f] = H[x][g]
    BY DEF Local
  <2>1. one(x, f) = one(x, g) /\ below(x, f) = below(x, g)
    BY <1>0
  <2> HIDE DEF own, upTo, kids, one, below, V
  <2>2. rest(x, f) = rest(x, g)
    BY <2>1
  <2> HIDE DEF rest
  <2> QED
    BY <2>2
<1>5. \E f \in [Entries -> V] : \A x \in Entries : f[x] = H[x][f]
  <2> DEFINE v == {}
  <2>2. v \in V
    OBVIOUS
  <2> HIDE DEF H, V, v
  <2>3. Recursion(Entries, Lists, V, H)
    BY <1>3, <1>4, ListsFounded DEF Recursion
  <2>4. Ends(Entries, V, H)
    BY <2>2, <2>3, TreeRecursion
  <2> QED
    BY <2>4 DEF Ends
<1>6. PICK g \in [Entries -> V] : \A x \in Entries : g[x] = H[x][g]
  BY <1>5
<1>7. \A f : IsMarks(menu, f) <=> f = [x \in Entries |-> own(x) \cup rest(x, f)]
  BY DEF IsMarks
<1>8. IsMarks(menu, g)
  <2>1. g = [x \in Entries |-> g[x]]
    OBVIOUS
  <2> HIDE DEF own, rest, V
  <2>2. g = [x \in Entries |-> own(x) \cup rest(x, g)]
    BY <1>6, <2>1
  <2> QED
    BY <1>7, <2>2
<1>9. IsMarks(menu, fn)
  BY <1>8
<1>10. MarkedBy(e, menu) = fn[e]
  BY DEF MarkedBy, IsMarks
<1> HIDE DEF fn
<1>11. fn = [x \in Entries |-> own(x) \cup rest(x, fn)]
  BY <1>7, <1>9
<1> DEFINE S == {x \in Entries : fn[x] \notin V}
<1>12. S = {}
  <2> SUFFICES ASSUME S # {} PROVE FALSE
    OBVIOUS
  <2>1. PICK x \in S : Lists[x] \cap S = {}
    BY ListsFounded DEF Founded
  <2>2. \A y \in Lists[x] : fn[y] \in V
    BY <1>0, <2>1
  <2>3. x \in Entries /\ fn[x] \notin V
    BY <2>1
  <2> HIDE DEF own, rest, V, S
  <2>4. fn[x] = own(x) \cup rest(x, fn)
    BY <1>11, <2>3
  <2>5. own(x) \cup rest(x, fn) \in V
    BY <1>2, <2>2, <2>3
  <2> QED
    BY <2>3, <2>4, <2>5
<1> QED
  BY <1>10, <1>12

\* What a search found: the way to each entry, and where it can be jumped to
IsWays(f) ==
    f = [x \in Entries |->
          IF x = Root \/ ParentOf(x) = Root THEN <<>> ELSE <<ParentOf(x)>> \o f[ParentOf(x)]]

LEMMA ParentIn ==
  ASSUME NEW e \in Entries, e # Root
  PROVE  ParentOf(e) \in Entries
<1>1. \E p \in Entries : e \in ToSet(Children[p])
  BY TreeAssumption
<1> QED
  BY <1>1 DEF ParentOf, Parent

LEMMA AboveIn ==
  ASSUME NEW e \in Entries
  PROVE  Above(e) \in Seq(Entries \ {Root}) /\ (e = Root => Above(e) = <<>>)
<1> DEFINE V == Seq(Entries \ {Root})
           last(x) == x = Root \/ ParentOf(x) = Root
           dep == [x \in Entries |-> IF last(x) THEN {} ELSE {ParentOf(x)}]
           way(x, f) == IF last(x) THEN <<>> ELSE <<ParentOf(x)>> \o f[ParentOf(x)]
           H == [x \in Entries |-> [f \in [Entries -> V] |-> way(x, f)]]
           fn == CHOOSE f : IsWays(f)
<1>0. \A x \in Entries : ~last(x) => ParentOf(x) \in Entries \ {Root}
  BY ParentIn
<1>1. dep \in [Entries -> SUBSET Entries] /\ Founded(Entries, dep)
  <2>1. dep \in [Entries -> SUBSET Entries]
    <3> HIDE DEF last
    <3> QED
      BY <1>0
  <2>2. ASSUME NEW S \in SUBSET Entries, S # {} PROVE \E x \in S : dep[x] \cap S = {}
    <3>1. CASE Root \in S
      <4>1. dep[Root] = {}
        BY TreeAssumption
      <4> QED
        BY <3>1, <4>1
    <3>2. CASE Root \notin S
      <4>1. S \in SUBSET (Entries \ {Root})
        BY <3>2
      <4>2. PICK x \in S : Parent[x] \notin S
        BY <2>2, <4>1, TreeAssumption
      <4>3. dep[x] \subseteq {Parent[x]}
        BY DEF ParentOf
      <4> QED
        BY <4>2, <4>3
    <3> QED
      BY <3>1, <3>2
  <2> HIDE DEF dep
  <2> QED
    BY <2>1, <2>2 DEF Founded
<1>2. \A x \in Entries : \A f : (\A y \in dep[x] : f[y] \in V) => way(x, f) \in V
  <2> SUFFICES ASSUME NEW x \in Entries, NEW f, \A y \in dep[x] : f[y] \in V PROVE way(x, f) \in V
    OBVIOUS
  <2>1. CASE last(x)
    <3> HIDE DEF last
    <3> QED
      BY <2>1
  <2>2. CASE ~last(x)
    <3> DEFINE p == ParentOf(x)
               s == f[p]
    <3>1. p \in Entries \ {Root} /\ s \in V
      BY <1>0, <2>2
    <3> HIDE DEF p, s
    <3>2. <<p>> \in V
      BY <3>1
    <3>3. <<p>> \o s \in V
      BY <3>1, <3>2
    <3>4. way(x, f) = <<p>> \o s
      BY <2>2 DEF p, s
    <3> QED
      BY <3>3, <3>4
  <2> QED
    BY <2>1, <2>2
<1>3. H \in [Entries -> [[Entries -> V] -> V]]
  <2>1. \A x \in Entries : \A f \in [Entries -> V] : way(x, f) \in V
    BY <1>1, <1>2
  <2> HIDE DEF way, V
  <2> QED
    BY <2>1
<1>4. Local(Entries, dep, V, H)
  <2> SUFFICES ASSUME NEW x \in Entries, NEW f \in [Entries -> V], NEW g \in [Entries -> V],
                      \A y \in dep[x] : f[y] = g[y]
               PROVE  H[x][f] = H[x][g]
    BY DEF Local
  <2>1. way(x, f) = way(x, g)
    <3>1. ~last(x) => f[ParentOf(x)] = g[ParentOf(x)]
      OBVIOUS
    <3> HIDE DEF last
    <3> QED
      BY <3>1
  <2> HIDE DEF way, V
  <2> QED
    BY <2>1
<1>5. \E f \in [Entries -> V] : \A x \in Entries : f[x] = H[x][f]
  <2> DEFINE v == <<>>
  <2>2. v \in V
    OBVIOUS
  <2> HIDE DEF H, V, v, dep
  <2>3. Recursion(Entries, dep, V, H)
    BY <1>1, <1>3, <1>4 DEF Recursion
  <2>4. Ends(Entries, V, H)
    BY <2>2, <2>3, TreeRecursion
  <2> QED
    BY <2>4 DEF Ends
<1>6. PICK g \in [Entries -> V] : \A x \in Entries : g[x] = H[x][g]
  BY <1>5
<1>7. \A f : IsWays(f) <=> f = [x \in Entries |-> way(x, f)]
  BY DEF IsWays
<1>8. IsWays(g)
  <2>1. g = [x \in Entries |-> g[x]]
    OBVIOUS
  <2> HIDE DEF way, V
  <2>2. g = [x \in Entries |-> way(x, g)]
    BY <1>6, <2>1
  <2> QED
    BY <1>7, <2>2
<1>9. IsWays(fn)
  BY <1>8
<1>10. Above(e) = SubSeq(fn[e], 1, Lesser(8, Len(fn[e])))
  BY DEF Above, IsWays
<1> HIDE DEF fn
<1>11. fn = [x \in Entries |-> way(x, fn)]
  BY <1>7, <1>9
<1> DEFINE S == {x \in Entries : fn[x] \notin V}
<1>12. S = {}
  <2> SUFFICES ASSUME S # {} PROVE FALSE
    OBVIOUS
  <2>1. PICK x \in S : dep[x] \cap S = {}
    <3> HIDE DEF dep
    <3> QED
      BY <1>1 DEF Founded
  <2>2. \A y \in dep[x] : fn[y] \in V
    BY <1>1, <2>1
  <2>3. x \in Entries /\ fn[x] \notin V
    BY <2>1
  <2> HIDE DEF way, V, S, dep
  <2>4. fn[x] = way(x, fn) /\ way(x, fn) \in V
    BY <1>2, <1>11, <2>2, <2>3
  <2> QED
    BY <2>3, <2>4
<1>13. e = Root => fn[e] = <<>>
  BY <1>11
<1> DEFINE s == fn[e]
<1>14. s \in V /\ (e = Root => s = <<>>)
  BY <1>12, <1>13
<1> HIDE DEF s
<1>15. Len(s) \in Nat /\ Lesser(8, Len(s)) \in 0 .. Len(s)
  BY <1>14 DEF Lesser
<1>16. SubSeq(s, 1, Lesser(8, Len(s))) \in V
  BY <1>14, <1>15
<1>17. e = Root => SubSeq(s, 1, Lesser(8, Len(s))) = <<>>
  BY <1>14, <1>15
<1> QED
  BY <1>10, <1>16, <1>17 DEF s

LEMMA JumpIn ==
  ASSUME NEW e \in Entries
  PROVE  \A j \in JumpOf(e) : j.target \in Entries \ {Root} /\ j.at \in ToSet(Above(e))
<1> DEFINE way == Above(e)
           S == {p \in ToSet(way) : Visible(p, now)}
           up == Among(way, S)
<1>1. way \in Seq(Entries \ {Root}) /\ (e = Root => way = <<>>)
  BY AboveIn
<1> HIDE DEF way
<1>2. up \in Seq((Entries \ {Root}) \cap S)
  <2> HIDE DEF S
  <2> QED
    BY <1>1, AmongIs
<1>3. JumpOf(e) = IF up = <<>> THEN {} ELSE {[target |-> IF Visible(e, now) THEN e ELSE up[1], at |-> up[1]]}
  BY DEF JumpOf, way
<1>4. ASSUME up # <<>> PROVE up[1] \in (Entries \ {Root}) \cap S /\ e # Root
  <2>1. up[1] \in (Entries \ {Root}) \cap S
    <3> HIDE DEF up, S
    <3> QED
      BY <1>2, <1>4
  <2>2. up[1] \in ToSet(way)
    BY <2>1
  <2>3. way # <<>>
    <3> SUFFICES ASSUME way = <<>> PROVE FALSE
      OBVIOUS
    <3>1. ToSet(way) = {}
      BY DEF ToSet
    <3> HIDE DEF up
    <3> QED
      BY <2>2, <3>1
  <2> QED
    BY <1>1, <2>1, <2>3
<1> HIDE DEF up
<1> QED
  BY <1>3, <1>4 DEF way

\* The lines where the entries found begin, one after the other
Begins(n, size, f) == f = [i \in 1 .. n + 1 |-> IF i = 1 THEN 0 ELSE f[i - 1] + size[i - 1]]
Increases(n, size, f) ==
    /\ f \in [1 .. n + 1 -> Nat] /\ f[1] = 0
    /\ \A i \in 1 .. n : f[i + 1] = f[i] + size[i] /\ f[i + 1] <= f[n + 1]

LEMMA Beginnings ==
  ASSUME NEW n \in Nat, NEW size \in [1 .. n -> Nat]
  PROVE  /\ \E f : Begins(n, size, f)
         /\ \A f : Begins(n, size, f) => Increases(n, size, f)
<1> DEFINE N == 1 .. n + 1
           R == [i \in 1 .. n |-> [v \in Nat |-> v + size[i]]]
<1>1. \E f : Begins(n, size, f)
  <2>1. Rounds(n, Nat, R)
    BY DEF Rounds
  <2> DEFINE v == 0
  <2>2. v \in Nat
    OBVIOUS
  <2> HIDE DEF R, v
  <2>3. LoopFrom(n, Nat, v, R)
    BY <2>1, <2>2, LoopEnds
  <2>4. PICK g \in [0 .. n -> Nat] : g[0] = v /\ \A i \in 1 .. n : g[i] = R[i][g[i - 1]]
    BY <2>3 DEF LoopFrom
  <2>5. \A i \in 1 .. n : g[i] = g[i - 1] + size[i]
    <3> TAKE i \in 1 .. n
    <3>1. g[i - 1] \in Nat /\ g[i] = R[i][g[i - 1]]
      BY <2>4
    <3> QED
      BY <3>1 DEF R
  <2> DEFINE f == [i \in N |-> g[i - 1]]
  <2>6. \A i \in N : f[i] = IF i = 1 THEN 0 ELSE f[i - 1] + size[i - 1]
    <3> TAKE i \in N
    <3>1. CASE i = 1
      BY <2>4, <3>1 DEF v
    <3>2. CASE i # 1
      <4>1. i - 1 \in 1 .. n /\ i - 1 \in N /\ i - 1 - 1 = i - 2
        BY <3>2
      <4>2. g[i - 1] = g[i - 2] + size[i - 1]
        BY <2>5, <4>1
      <4> QED
        BY <3>2, <4>1, <4>2
    <3> QED
      BY <3>1, <3>2
  <2>7. f = [i \in N |-> f[i]]
    OBVIOUS
  <2> HIDE DEF f
  <2>8. f = [i \in N |-> IF i = 1 THEN 0 ELSE f[i - 1] + size[i - 1]]
    BY <2>6, <2>7
  <2> QED
    BY <2>8 DEF Begins
<1>2. ASSUME NEW f, Begins(n, size, f) PROVE Increases(n, size, f)
  <2>1. f[1] = 0 /\ f = [i \in N |-> f[i]]
    BY <1>2 DEF Begins
  <2>2. \A i \in 1 .. n : f[i + 1] = f[i] + size[i]
    <3> TAKE i \in 1 .. n
    <3>1. i + 1 \in N /\ i + 1 # 1 /\ i + 1 - 1 = i
      OBVIOUS
    <3> QED
      BY <1>2, <3>1 DEF Begins
  <2> DEFINE S == {i \in N : f[i] \notin Nat}
             T == {j \in 0 .. n : ~(f[n + 1 - j] <= f[n + 1])}
  <2>3. S = {}
    <3> SUFFICES ASSUME S # {} PROVE FALSE
      OBVIOUS
    <3>1. PICK i \in S : \A j \in S : i <= j
      <4>1. S \in SUBSET Nat
        OBVIOUS
      <4> HIDE DEF S
      <4> QED
        BY <4>1, LeastOf
    <3>2. i \in N /\ f[i] \notin Nat /\ i # 1
      BY <2>1, <3>1
    <3>3. i - 1 \in 1 .. n /\ i - 1 \in N /\ ~(i <= i - 1) /\ i - 1 + 1 = i
      BY <3>2
    <3>4. f[i - 1] \in Nat /\ f[i] = f[i - 1] + size[i - 1]
      BY <2>2, <3>1, <3>3
    <3> QED
      BY <3>2, <3>3, <3>4
  <2>4. \A i \in N : f[i] \in Nat
    BY <2>3
  <2>5. T = {}
    <3> SUFFICES ASSUME T # {} PROVE FALSE
      OBVIOUS
    <3>1. PICK j \in T : \A h \in T : j <= h
      <4>1. T \in SUBSET Nat
        OBVIOUS
      <4> HIDE DEF T
      <4> QED
        BY <4>1, LeastOf
    <3>2. n + 1 \in N /\ f[n + 1] \in Nat
      BY <2>4
    <3>3. j \in 0 .. n /\ ~(f[n + 1 - j] <= f[n + 1]) /\ j # 0
      BY <3>1, <3>2
    <3>4. j - 1 \in 0 .. n /\ ~(j <= j - 1) /\ n + 1 - j \in 1 .. n /\ n + 1 - j \in N /\ n + 1 - j + 1 = n + 1 - (j - 1)
          /\ n + 1 - (j - 1) \in N
      BY <3>3
    <3>5. f[n + 1 - (j - 1)] <= f[n + 1]
      BY <3>1, <3>4
    <3>6. f[n + 1 - (j - 1)] = f[n + 1 - j] + size[n + 1 - j]
      BY <2>2, <3>4
    <3>7. f[n + 1 - j] \in Nat /\ size[n + 1 - j] \in Nat
      BY <2>4, <3>4
    <3> QED
      BY <3>2, <3>3, <3>5, <3>6, <3>7
  <2>6. \A i \in 1 .. n : f[i + 1] <= f[n + 1]
    <3> TAKE i \in 1 .. n
    <3>1. n - i \in 0 .. n /\ n + 1 - (n - i) = i + 1
      OBVIOUS
    <3>2. n - i \notin T
      BY <2>5
    <3> HIDE DEF T
    <3>3. f[n + 1 - (n - i)] <= f[n + 1]
      BY <3>1, <3>2 DEF T
    <3> QED
      BY <3>1, <3>3
  <2>7. f \in [N -> Nat]
    BY <2>1, <2>4
  <2> QED
    BY <2>1, <2>2, <2>6, <2>7 DEF Increases
<1> QED
  BY <1>1, <1>2

\* The text of a search: each place is on a line of its own entry.
LEMMA FoundIn ==
  ASSUME NEW syms \in Seq(Symbols)
  PROVE  Found(syms) \in Pages
<1> DEFINE parts == FlattenSeq([i \in DOMAIN syms |-> Parts(syms[i])])
           n == Len(parts)
           size == [i \in 1 .. n |-> Size(parts[i])]
           start == CHOOSE f : Begins(n, size, f)
           ones == [i \in DOMAIN parts |-> i]
           able == {i \in DOMAIN parts : parts[i] # Nobody /\ JumpOf(parts[i]) # {}}
           with == Among(ones, able)
           jump(i) == CHOOSE j \in JumpOf(parts[i]) : TRUE
           step(i) == CHOOSE j \in DOMAIN Above(parts[i]) : Above(parts[i])[j] = jump(i).at
           place(i) == Len(Above(parts[i])) - step(i)
           item(m) == [target |-> jump(with[m]).target, line |-> start[with[m]] + 2 + place(with[m]),
                       key |-> ToString(((m - 1) % JumpNb) + 1)]
           lines0 == IF parts = <<>> THEN 1 ELSE start[n + 1]
           jumps == [m \in DOMAIN with |-> item(m)]
<1>12. parts \in Seq(Entries \cup {Nobody})
  <2> DEFINE pieces == [i \in DOMAIN syms |-> Parts(syms[i])]
  <2>1. \A s \in Symbols : Parts(s) \in Seq(Entries \cup {Nobody})
    <3> TAKE s \in Symbols
    <3> DEFINE p == PromptsOf[s]
               P == Entries \cup {Nobody}
    <3>1. p \in Seq(P) /\ <<Nobody>> \in Seq(P)
      BY BoxesAssumption
    <3> HIDE DEF p, P
    <3>2. <<Nobody>> \o p \o <<Nobody>> \in Seq(P)
      BY <3>1
    <3> QED
      BY <3>2 DEF Parts, p, P
  <2>2. pieces \in Seq(Seq(Entries \cup {Nobody}))
    <3> DEFINE l == Len(syms)
               P == Seq(Entries \cup {Nobody})
    <3>1. l \in Nat /\ DOMAIN syms = 1 .. l /\ \A i \in 1 .. l : syms[i] \in Symbols
      OBVIOUS
    <3>2. \A i \in 1 .. l : Parts(syms[i]) \in P
      BY <2>1, <3>1
    <3> HIDE DEF P, l
    <3>3. pieces \in [1 .. l -> P]
      BY <3>1, <3>2
    <3> HIDE DEF pieces
    <3>4. pieces \in Seq(P)
      BY <3>1, <3>3
    <3> QED
      BY <3>4 DEF P
  <2> HIDE DEF pieces
  <2>3. FlattenSeq(pieces) \in Seq(Entries \cup {Nobody})
    BY <2>2, FlattenSeqIn
  <2> QED
    BY <2>3 DEF pieces
<1> HIDE DEF parts
<1>0. n \in Nat /\ DOMAIN parts = 1 .. n /\ (parts = <<>> <=> n = 0)
  BY <1>12
<1>1. \A i \in 1 .. n : parts[i] \in Entries \/ parts[i] = Nobody
  BY <1>12
<1> DEFINE Long(e) == /\ Len(Above(e)) \in Nat /\ DOMAIN Above(e) = 1 .. Len(Above(e))
                      /\ Above(e) # <<>> => Size(e) = 2 + Len(Above(e))
<1>2. \A i \in 1 .. n : /\ Size(parts[i]) \in Nat /\ Size(parts[i]) # 0
                        /\ i \in able => Long(parts[i])
  <2> TAKE i \in 1 .. n
  <2>1. CASE parts[i] = Nobody
    BY <2>1 DEF Size
  <2>2. CASE parts[i] \in Entries /\ parts[i] # Nobody
    <3> DEFINE e == parts[i]
               way == Above(e)
    <3>1. way \in Seq(Entries \ {Root}) /\ Size(e) = 1 + IF way = <<>> THEN 0 ELSE 1 + Len(way)
      BY <2>2, AboveIn DEF Size
    <3> HIDE DEF e, way
    <3>2. Len(way) \in Nat /\ DOMAIN way = 1 .. Len(way) /\ Size(e) \in Nat /\ Size(e) # 0 /\ (way # <<>> => Size(e) = 2 + Len(way))
      BY <3>1
    <3> QED
      BY <2>2, <3>2 DEF e, way
  <2> QED
    BY <1>1, <2>1, <2>2
<1>3. Increases(n, size, start)
  <2>1. size \in [1 .. n -> Nat]
    BY <1>2
  <2> HIDE DEF size
  <2>2. Begins(n, size, start)
    BY <1>0, <2>1, Beginnings
  <2> QED
    BY <1>0, <2>1, <2>2, Beginnings
<1>4. Found(syms) = [lines |-> lines0, ended |-> TRUE, search |-> TRUE, jumps |-> jumps]
  <2>1. \A f : Begins(n, size, f) <=> f = [i \in 1 .. Len(parts) + 1 |-> IF i = 1 THEN 0 ELSE f[i - 1] + Size(parts[i - 1])]
    <3> TAKE f
    <3>1. \A i \in 1 .. n + 1 : i # 1 => size[i - 1] = Size(parts[i - 1])
      BY <1>0
    <3>2. [i \in 1 .. n + 1 |-> IF i = 1 THEN 0 ELSE f[i - 1] + size[i - 1]]
          = [i \in 1 .. n + 1 |-> IF i = 1 THEN 0 ELSE f[i - 1] + Size(parts[i - 1])]
      <4> HIDE DEF size, parts
      <4> QED
        BY <3>1
    <3> QED
      BY <3>2 DEF Begins
  <2>2. start = CHOOSE f : f = [i \in 1 .. Len(parts) + 1 |-> IF i = 1 THEN 0 ELSE f[i - 1] + Size(parts[i - 1])]
    <3> HIDE DEF size, parts
    <3> QED
      BY <2>1, Zenon
  <2> HIDE DEF start, size
  <2> QED
    BY <2>2 DEF Found, parts
<1> HIDE DEF start
<1>5. \A i \in 1 .. n : start[i] \in Nat /\ start[i] + Size(parts[i]) <= start[n + 1] /\ start[n + 1] \in Nat
  <2> TAKE i \in 1 .. n
  <2>1. i \in 1 .. n + 1 /\ n + 1 \in 1 .. n + 1 /\ size[i] = Size(parts[i])
    BY <1>0
  <2> HIDE DEF size, parts
  <2> QED
    BY <2>1, <1>3 DEF Increases
<1>6. with \in Seq(able) /\ able \subseteq 1 .. n
  <2>1. ones \in Seq(1 .. n)
    BY <1>0
  <2> HIDE DEF ones, able
  <2>2. with \in Seq((1 .. n) \cap able)
    BY <2>1, AmongIs
  <2>3. able \subseteq 1 .. n
    BY <1>0 DEF able
  <2>4. (1 .. n) \cap able = able
    BY <2>3
  <2> QED
    BY <2>2, <2>3, <2>4
<1> HIDE DEF with
<1>7. \A i \in able : /\ i \in 1 .. n /\ jump(i).target \in Entries \ {Root} /\ place(i) \in Nat
                      /\ start[i] + 2 + place(i) \in Nat /\ start[i] + 2 + place(i) < start[n + 1]
  <2> TAKE i \in able
  <2>1. i \in 1 .. n /\ jump(i) \in JumpOf(parts[i])
    BY <1>0
  <2>2. jump(i).target \in Entries \ {Root} /\ jump(i).at \in ToSet(Above(parts[i]))
    <3> HIDE DEF jump, parts
    <3> QED
      BY <1>1, <2>1, JumpIn
  <2> DEFINE way == Above(parts[i])
             l == Len(way)
  <2>3. step(i) \in DOMAIN way /\ way # <<>>
    <3>1. \E j \in DOMAIN way : way[j] = jump(i).at
      BY <2>2 DEF ToSet
    <3> HIDE DEF jump, parts
    <3> QED
      BY <3>1
  <2>4. l \in Nat /\ step(i) \in 1 .. l /\ Size(parts[i]) = 2 + l
    <3>1. i \in able
      OBVIOUS
    <3>2. Long(parts[i])
      <4> HIDE DEF Long, able, jump
      <4> QED
        BY <1>2, <2>1, <3>1
    <3> HIDE DEF step, jump, able, size, parts
    <3> QED
      BY <2>3, <3>2
  <2>5. start[i] \in Nat /\ start[n + 1] \in Nat /\ start[i] + Size(parts[i]) <= start[n + 1]
    BY <1>5, <2>1
  <2>6. place(i) = l - step(i)
    OBVIOUS
  <2> DEFINE s == start[i]
             p == place(i)
             size1 == Size(parts[i])
             last == start[n + 1]
  <2>7. s \in Nat /\ last \in Nat /\ s + size1 <= last /\ size1 = 2 + l /\ l \in Nat /\ p \in 0 .. l - 1
    <3> HIDE DEF l, step, place, parts, last
    <3> QED
      BY <2>4, <2>5, <2>6 DEF last
  <2>8. p \in Nat /\ s + 2 + p \in Nat /\ s + 2 + p < last
    <3> HIDE DEF l, p, size1, s, last
    <3> QED
      BY <2>7
  <2> HIDE DEF l, step, parts, place, jump
  <2> QED
    BY <2>1, <2>2, <2>8
<1>8. \A m \in DOMAIN with : item(m) \in Jumps /\ item(m).line < start[n + 1]
  <2> TAKE m \in DOMAIN with
  <2> DEFINE i == with[m]
             k == ((m - 1) % JumpNb) + 1
             t == jump(i).target
             l == start[i] + 2 + place(i)
  <2>1. i \in able /\ m \in Nat
    <3> HIDE DEF able
    <3> QED
      BY <1>6
  <2>2. t \in Entries \ {Root} /\ l \in Nat /\ l < start[n + 1]
    <3> HIDE DEF i, able, jump, place
    <3> QED
      BY <1>7, <2>1
  <2>3. k \in Nat
    <3>1. JumpNb \in Nat \ {0} /\ m - 1 \in Int
      BY <2>1, SizesAssumption
    <3> QED
      BY <3>1
  <2>4. item(m) = [target |-> t, line |-> l, key |-> ToString(k)]
    OBVIOUS
  <2> HIDE DEF t, l, k, item
  <2>5. item(m) \in Jumps /\ item(m).line = l
    BY <2>2, <2>3, <2>4 DEF Jumps
  <2> QED
    BY <2>2, <2>5
<1>9. lines0 \in Nat \ {0}
  <2>1. n # 0 => start[n + 1] \in Nat \ {0}
    <3> SUFFICES ASSUME n # 0 PROVE start[n + 1] \in Nat \ {0}
      OBVIOUS
    <3>1. n \in 1 .. n
      BY <1>0
    <3> HIDE DEF n, parts
    <3> QED
      BY <1>2, <1>5, <3>1
  <2> QED
    BY <1>0, <2>1
<1>10. jumps \in Seq(Jumps) /\ \A j \in ToSet(jumps) : j.line < lines0
  <2>1. Len(with) \in Nat /\ DOMAIN with = 1 .. Len(with) /\ (n = 0 => Len(with) = 0)
    <3>1. n = 0 => able = {}
      BY <1>6
    <3> HIDE DEF able
    <3>2. Len(with) \in Nat /\ DOMAIN with = 1 .. Len(with) /\ \A m \in 1 .. Len(with) : with[m] \in able
      BY <1>6
    <3>3. n = 0 => ~(1 \in 1 .. Len(with))
      BY <3>1, <3>2
    <3> HIDE DEF n
    <3> QED
      BY <3>2, <3>3
  <2> HIDE DEF item
  <2>2. jumps \in Seq(Jumps) /\ DOMAIN jumps = DOMAIN with /\ \A m \in DOMAIN with : jumps[m] = item(m)
    BY <1>8, <2>1
  <2>3. \A m \in DOMAIN with : lines0 = start[n + 1]
    BY <1>0, <2>1
  <2> HIDE DEF jumps, lines0
  <2> QED
    BY <1>8, <2>2, <2>3 DEF ToSet
<1> HIDE DEF lines0, jumps
<1> QED
  BY <1>4, <1>9, <1>10 DEF Pages

\* A help text, and a message
LEMMA TextIn ==
  ASSUME NEW n \in Nat \ {0}
  PROVE  Text(n) \in Pages /\ Message \in Pages
<1>1. <<>> \in Seq(Jumps)
  OBVIOUS
<1>2. Text(n) \in Pages
  BY <1>1 DEF Text, Pages
<1>3. Message \in Pages
  <2> DEFINE t == Text(1)
             P == [lines : Nat \ {0}, ended : BOOLEAN, search : {FALSE}, jumps : Seq(Jumps)]
  <2>1. t \in P
    BY <1>1 DEF Text
  <2>2. Message = [t EXCEPT !.ended = FALSE]
    BY DEF Message
  <2> HIDE DEF t
  <2>3. Message \in P
    BY <2>1, <2>2
  <2> QED
    BY <2>3 DEF Pages
<1> QED
  BY <1>2, <1>3
-----------------------------------------------------------------------------
(* The values: those of strings are texts, in memory and in the files.     *)

TextsIn(file) ==
    /\ Len(file) \in Nat /\ DOMAIN file = 1 .. Len(file)
    /\ \A i \in DOMAIN file : file[i][1] \in Strings => file[i][2] \in Texts

UserOk(u) ==
    /\ IsAnswers(u) /\ u = [val |-> u.val, has |-> u.has, pick |-> u.pick]
    /\ \A s \in Strings \cap u.has : u.val[s] \in Texts

NowOk(n) == IsCalculated(n) /\ ChoicesMade(n) /\ \A s \in Strings : n.cur[s] \in Texts

LEMMA DefaultIn ==
  ASSUME NEW k \in Kconfigs, NEW s \in Strings, NEW cur
  PROVE  DefaultText(k, s, cur) \in Texts
<1> DEFINE D == Default(k, s, cur)
<1>1. \A d \in D : d.val \in Texts
  BY TextsAssumption DEF Default
<1>2. DefaultText(k, s, cur) = IF D = {} THEN "" ELSE (CHOOSE d \in D : TRUE).val
  BY DEF DefaultText
<1> HIDE DEF D
<1>3. "" \in Texts
  BY TextsAssumption
<1> QED
  BY <1>1, <1>2, <1>3

LEMMA CalculateIn ==
  ASSUME NEW k \in Kconfigs, NEW u, UserOk(u)
  PROVE  NowOk(Calculate(k, u))
<1> DEFINE n == Calculate(k, u)
<1>1. Solves(k, u, n)
  BY Calculated
<1> HIDE DEF n
<1>2. IsCalculated(n)
  BY <1>1, SolutionsAreCalculated
<1>3. \A s \in Strings : n.cur[s] \in Texts
  <2> TAKE s \in Strings
  <2>1. s \in All /\ s \notin ChoiceSyms
    BY OrderAssumption DEF All, Symbols
  <2>2. n.cur = [x \in All |-> Value(k, u, n, x)]
    BY <1>1 DEF Solves
  <2>3. n.cur[s] = Value(k, u, n, s)
    BY <2>1, <2>2
  <2>4. Value(k, u, n, s) = IF s \in Lit(k, n) /\ s \in u.has THEN u.val[s] ELSE DefaultText(k, s, n.cur)
    BY <2>1 DEF Value
  <2> QED
    BY <2>3, <2>4, DefaultIn DEF UserOk
<1>4. ChoicesMade(n)
  <2> SUFFICES ASSUME NEW c \in ChoiceSyms, n.cur[c] # None PROVE n.cur[c] \in Members(c) \cap n.vis
    BY DEF ChoicesMade
  <2> DEFINE lit == VisibleMembers(k, c, n.cur)
             s == n.cur[c]
  <2>1. s \in lit /\ s \in Symbols /\ IsValue(s) /\ ChoiceOf[s] = c
    BY <1>1, ChoiceIs
  <2>2. s \in Members(c)
    BY <2>1 DEF VisibleMembers
  <2> HIDE DEF lit, s
  <2>3. s \in n.vis
    BY <1>1, <2>1, ValueIs DEF lit
  <2> QED
    BY <2>2, <2>3 DEF s
<1> QED
  BY <1>2, <1>3, <1>4 DEF NowOk, n

LEMMA NotCalculatedIn == NowOk(NotCalculated)
<1>1. IsCalculated(NotCalculated)
  BY DEF IsCalculated, NotCalculated
<1>2. NotCalculated.cur = [s \in Symbols \cup ChoiceSyms |-> IF s \in Bools THEN "n" ELSE IF s \in Strings THEN "" ELSE None]
  BY DEF NotCalculated
<1>3. \A s \in Strings : s \in Symbols /\ s \notin Bools
  BY OrderAssumption DEF Symbols
<1>4. \A c \in ChoiceSyms : c \notin Bools /\ c \notin Strings
  BY OrderAssumption DEF Symbols
<1>5. \A s \in Strings : NotCalculated.cur[s] \in Texts
  BY <1>2, <1>3, TextsAssumption
<1>6. \A c \in ChoiceSyms : NotCalculated.cur[c] = None
  BY <1>2, <1>4
<1> QED
  BY <1>1, <1>5, <1>6 DEF NowOk, ChoicesMade

LEMMA BlankIn == UserOk(Blank)
BY DEF UserOk, Blank, IsAnswers

LEMMA LatestIn ==
  ASSUME NEW file, Len(file) \in Nat, NEW S \in SUBSET (1 .. Len(file)), S # {}
  PROVE  Max(S) \in S
<1> DEFINE n == Len(file) + 1
<1>1. n \in Nat /\ S \in SUBSET (0 .. n - 1)
  OBVIOUS
<1> HIDE DEF n
<1> QED
  BY <1>1, MaxIn

LEMMA ReadIn ==
  ASSUME NEW k \in Kconfigs, NEW file, TextsIn(file)
  PROVE  LET r == Read(k, file) IN UserOk(r.user) /\ NowOk(r.now)
<1> DEFINE u == UserOf(file)
           n == Calculate(k, u)
           w == [u EXCEPT !.has = {s \in @ : IsValue(s) \/ s \in n.vis}]
           of(s) == {i \in DOMAIN file : file[i][1] = s}
<1>1. IsAnswers(u) /\ u = [val |-> u.val, has |-> u.has, pick |-> u.pick]
  BY DEF UserOf, IsAnswers
<1>2. \A s \in Strings \cap u.has : u.val[s] \in Texts
  <2> TAKE s \in Strings \cap u.has
  <2>1. s \in Symbols /\ of(s) # {} /\ u.val[s] = file[Max(of(s))][2]
    BY DEF UserOf, Symbols
  <2>2. Max(of(s)) \in of(s)
    <3>1. of(s) \in SUBSET (1 .. Len(file)) /\ Len(file) \in Nat
      BY DEF TextsIn
    <3> HIDE DEF of
    <3> QED
      BY <2>1, <3>1, LatestIn
  <2> DEFINE i == Max(of(s))
  <2>3. i \in DOMAIN file /\ file[i][1] = s /\ u.val[s] = file[i][2]
    BY <2>1, <2>2
  <2> HIDE DEF i, u
  <2> QED
    BY <2>3 DEF TextsIn
<1> HIDE DEF u
<1>3. UserOk(u)
  BY <1>1, <1>2 DEF UserOk
<1>4. NowOk(n)
  BY <1>3, CalculateIn
<1>5. Read(k, file).now = n /\ Read(k, file).user = IF Unsaved(u, n) THEN u ELSE w
  BY DEF Read, u
<1> HIDE DEF n
<1>6. w = [val |-> u.val, has |-> {s \in u.has : IsValue(s) \/ s \in n.vis}, pick |-> u.pick]
  <2> DEFINE H == {s \in u.has : IsValue(s) \/ s \in n.vis}
  <2>1. w = [u EXCEPT !.has = H]
    BY <1>1
  <2> HIDE DEF H, w
  <2>2. w = [val |-> u.val, has |-> H, pick |-> u.pick]
    BY <1>1, <2>1
  <2> QED
    BY <2>2 DEF H
<1>7. w.val = u.val /\ w.pick = u.pick /\ w.has \subseteq u.has /\ w = [val |-> w.val, has |-> w.has, pick |-> w.pick]
  BY <1>6
<1> HIDE DEF w
<1>8. UserOk(w)
  BY <1>1, <1>2, <1>7 DEF UserOk, IsAnswers
<1> QED
  BY <1>3, <1>4, <1>5, <1>8

LEMMA LinesIn ==
  ASSUME NEW n, NowOk(n)
  PROVE  TextsIn(Lines(n, Written(n)))
<1> DEFINE S == Written(n)
           L == Lines(n, S)
<1>1. S \in SUBSET All
  BY DEF Written, All
<1> HIDE DEF S
<1>2. L \in Seq({<<s, n.cur[s]>> : s \in S})
  BY <1>1, LinesAre DEF ListOf
<1> HIDE DEF L
<1>3. Len(L) \in Nat /\ DOMAIN L = 1 .. Len(L) /\ \A i \in 1 .. Len(L) : \E s \in S : L[i] = <<s, n.cur[s]>>
  BY <1>2
<1>4. \A i \in DOMAIN L : L[i][1] \in Strings => L[i][2] \in Texts
  BY <1>3 DEF NowOk
<1> QED
  BY <1>3, <1>4 DEF TextsIn, L, S

LEMMA ToWriteIn ==
  ASSUME kconfig \in Kconfigs, UserOk(user), NowOk(now)
  PROVE  NowOk(ToWrite) /\ NowOk([ToWrite EXCEPT !.wr = {}]) /\ TextsIn(Lines(ToWrite, Written(ToWrite)))
<1> DEFINE n == ToWrite
           m == [n EXCEPT !.wr = {}]
<1>1. NowOk(n)
  BY CalculateIn DEF ToWrite
<1> HIDE DEF n
<1>2. m = [cur |-> n.cur, vis |-> n.vis, sel |-> n.sel, wr |-> {}]
  BY <1>1 DEF NowOk, IsCalculated
<1>3. m.cur = n.cur /\ m.vis = n.vis /\ IsCalculated(m)
  BY <1>2 DEF IsCalculated
<1> HIDE DEF m
<1>4. NowOk(m)
  BY <1>1, <1>3 DEF NowOk, ChoicesMade
<1> QED
  BY <1>1, <1>4, LinesIn DEF n, m

LEMMA AnswerIn ==
  ASSUME kconfig \in Kconfigs, UserOk(user), NowOk(now), NEW u, NEW new, UserOk(u), Clear(u, new)
  PROVE  UserOk(user') /\ NowOk(now')
<1>1. user' = u /\ now' = (IF new THEN Calculate(kconfig, u) ELSE now)
  BY DEF Clear
<1> QED
  BY <1>1, CalculateIn

LEMMA BoolIn ==
  ASSUME NEW u, UserOk(u), NEW s \in Bools, NEW v
  PROVE  UserOk(Answered(u, s, v))
<1> DEFINE w == Answered(u, s, v)
           more == IF IsValue(s) /\ v = "y" THEN Members(ChoiceOf[s]) \cap now.vis ELSE {}
<1>1. w.val = [u.val EXCEPT ![s] = v] /\ w.has = u.has \cup {s} \cup more
      /\ w = [val |-> w.val, has |-> w.has, pick |-> w.pick]
      /\ w.pick = IF IsValue(s) /\ v = "y" THEN [u.pick EXCEPT ![ChoiceOf[s]] = s] ELSE u.pick
  BY DEF Answered
<1>2. \A t \in Strings : t # s /\ t \notin more
  <2>1. more \subseteq Bools
    BY MembersAre
  <2> HIDE DEF more
  <2> QED
    BY <2>1, OrderAssumption
<1> HIDE DEF w, more
<1>3. IsAnswers(w)
  BY <1>1 DEF UserOk, IsAnswers
<1>4. \A t \in Strings \cap w.has : w.val[t] \in Texts
  <2> TAKE t \in Strings \cap w.has
  <2>1. t # s /\ t \in u.has /\ t \in Symbols
    BY <1>1, <1>2 DEF Symbols
  <2>2. w.val[t] = u.val[t]
    BY <1>1, <2>1 DEF UserOk, IsAnswers
  <2> QED
    BY <2>1, <2>2 DEF UserOk
<1> QED
  BY <1>1, <1>3, <1>4 DEF UserOk, w

LEMMA TextAnswerIn ==
  ASSUME NEW u, UserOk(u), NEW s \in Strings, NEW t \in Texts
  PROVE  UserOk(Entered(u, s, t))
<1> DEFINE w == Entered(u, s, t)
<1>1. /\ w.val = [u.val EXCEPT ![s] = t] /\ w.has = u.has \cup {s} /\ w.pick = u.pick
      /\ w = [val |-> w.val, has |-> w.has, pick |-> w.pick]
  BY DEF Entered
<1> HIDE DEF w
<1>2. IsAnswers(w)
  BY <1>1 DEF UserOk, IsAnswers
<1>3. \A x \in Strings \cap w.has : w.val[x] \in Texts
  <2> TAKE x \in Strings \cap w.has
  <2>1. x \in Symbols /\ (x # s => x \in u.has)
    BY <1>1 DEF Symbols
  <2>2. w.val[x] = IF x = s THEN t ELSE u.val[x]
    BY <1>1, <2>1 DEF UserOk, IsAnswers
  <2> QED
    BY <2>1, <2>2 DEF UserOk
<1> QED
  BY <1>1, <1>2, <1>3 DEF UserOk, w

LEMMA MarksIn ==
  ASSUME NEW u, UserOk(u), NEW S \in SUBSET Bools
  PROVE  LET w == [u EXCEPT !.has = @ \cup S] IN UserOk(w) /\ w.val = u.val
<1> DEFINE w == [u EXCEPT !.has = @ \cup S]
<1>1. w = [val |-> u.val, has |-> u.has \cup S, pick |-> u.pick]
  BY DEF UserOk
<1>2. /\ w.val = u.val /\ w.pick = u.pick /\ w.has = u.has \cup S
      /\ w = [val |-> w.val, has |-> w.has, pick |-> w.pick]
  BY <1>1
<1> HIDE DEF w
<1>3. \A t \in Strings \cap w.has : t \in u.has
  BY <1>2, OrderAssumption
<1> QED
  BY <1>2, <1>3 DEF UserOk, IsAnswers, w
-----------------------------------------------------------------------------
(* The functions called: which calls which, and of what                     *)

Fns == {"conf", "choice", "string", "load", "save", "search", "results", "help", "message", "exit"}
Calls == ({"conf"} \X {"conf", "choice", "string", "help", "save", "load", "search", "results", "message"})
         \cup ({"choice", "string", "load", "save", "search"} \X {"help"})
         \cup ({"load", "save"} \X {"message"}) \cup ({"results"} \X {"conf"})

Frames ==
    {f \in [fn : Fns, menu : Entries, active : Entries \cup All \cup {Nobody, None}, vscroll : Nat, hscroll : Nat, find : Texts] :
        /\ f.fn = "string" => SymOf[f.menu] \in Strings
        /\ f.fn = "choice" => Kind[f.menu] = "choice"}

Stacks(fs) ==
    /\ fs \in Seq(Frames) /\ fs # <<>> /\ fs[1].fn \in {"conf", "exit"}
    /\ \A i \in 1 .. Len(fs) - 1 : <<fs[i].fn, fs[i + 1].fn>> \in Calls

LEMMA StackIs ==
  ASSUME NEW fs, Stacks(fs)
  PROVE  /\ Len(fs) \in Nat /\ Len(fs) # 0 /\ \A i \in 1 .. Len(fs) : fs[i] \in Frames
         /\ Last(fs) \in Frames /\ Last(fs) = fs[Len(fs)]
         /\ Last(fs).fn \notin {"conf", "exit"} => Len(fs) > 1
BY DEF Stacks, Last

LEMMA PopOk ==
  ASSUME NEW fs, Stacks(fs), Len(fs) > 1
  PROVE  /\ Stacks(Front(fs)) /\ Len(Front(fs)) = Len(fs) - 1
         /\ \A i \in 1 .. Len(fs) - 1 : Front(fs)[i] = fs[i]
<1>0. fs \in Seq(Frames) /\ Len(fs) \in Nat /\ Len(fs) - 1 \in Nat /\ 1 \in 1 .. Len(fs) - 1
  BY StackIs DEF Stacks
<1> DEFINE gs == SubSeq(fs, 1, Len(fs) - 1)
<1>1. gs \in Seq(Frames) /\ Len(gs) = Len(fs) - 1 /\ \A i \in 1 .. Len(fs) - 1 : gs[i] = fs[i]
  BY <1>0
<1> HIDE DEF gs
<1>2. gs # <<>> /\ gs[1] = fs[1]
  BY <1>0, <1>1
<1>3. \A i \in 1 .. Len(gs) - 1 : <<gs[i].fn, gs[i + 1].fn>> \in Calls
  <2> TAKE i \in 1 .. Len(gs) - 1
  <2>1. i \in 1 .. Len(fs) - 1 /\ i + 1 \in 1 .. Len(fs) - 1
    BY <1>0, <1>1
  <2> QED
    BY <1>1, <2>1 DEF Stacks
<1>4. Stacks(gs)
  BY <1>1, <1>2, <1>3 DEF Stacks
<1> QED
  BY <1>1, <1>4 DEF gs, Front

LEMMA PushOk ==
  ASSUME NEW fs, Stacks(fs), NEW f \in Frames, <<Last(fs).fn, f.fn>> \in Calls
  PROVE  /\ Stacks(fs \o <<f>>) /\ Len(fs \o <<f>>) = Len(fs) + 1
         /\ (fs \o <<f>>)[Len(fs) + 1] = f /\ \A i \in 1 .. Len(fs) : (fs \o <<f>>)[i] = fs[i]
<1>0. fs \in Seq(Frames) /\ Len(fs) \in Nat /\ 1 \in 1 .. Len(fs)
  BY StackIs DEF Stacks
<1> DEFINE gs == fs \o <<f>>
<1>1. gs \in Seq(Frames) /\ Len(gs) = Len(fs) + 1 /\ gs[Len(fs) + 1] = f /\ \A i \in 1 .. Len(fs) : gs[i] = fs[i]
  BY <1>0
<1> HIDE DEF gs
<1>2. gs # <<>> /\ gs[1] = fs[1]
  BY <1>0, <1>1
<1>3. \A i \in 1 .. Len(gs) - 1 : <<gs[i].fn, gs[i + 1].fn>> \in Calls
  <2> TAKE i \in 1 .. Len(gs) - 1
  <2>1. CASE i = Len(fs)
    BY <1>0, <1>1, <2>1, StackIs
  <2>2. CASE i # Len(fs)
    <3>1. i \in 1 .. Len(fs) - 1 /\ i \in 1 .. Len(fs) /\ i + 1 \in 1 .. Len(fs)
      BY <1>0, <1>1, <2>2
    <3> QED
      BY <1>1, <3>1 DEF Stacks
  <2> QED
    BY <2>1, <2>2
<1>4. Stacks(gs)
  BY <1>1, <1>2, <1>3 DEF Stacks
<1> QED
  BY <1>1, <1>4 DEF gs

\* Another frame instead of the one on top, for the same function or one that
\* can be called as well.
LEMMA SetOk ==
  ASSUME NEW fs, Stacks(fs), NEW f \in Frames,
         f.fn = Last(fs).fn \/ (Last(fs).fn = "search" /\ f.fn = "results")
  PROVE  LET gs == Append(Front(fs), f)
         IN  /\ Stacks(gs) /\ Len(gs) = Len(fs) /\ Last(gs) = f /\ gs[Len(fs)] = f
             /\ \A i \in 1 .. Len(fs) - 1 : gs[i] = fs[i]
<1>0. fs \in Seq(Frames) /\ Len(fs) \in Nat /\ Len(fs) # 0 /\ Last(fs) = fs[Len(fs)]
  BY StackIs DEF Stacks
<1> DEFINE es == SubSeq(fs, 1, Len(fs) - 1)
           gs == Append(es, f)
<1>1. es \in Seq(Frames) /\ Len(es) = Len(fs) - 1 /\ \A i \in 1 .. Len(fs) - 1 : es[i] = fs[i]
  <2> DEFINE l == Len(fs)
             n == l - 1
  <2>1. n \in Nat /\ n + 1 = l /\ n <= l
    <3>1. l \in Nat /\ l # 0
      BY <1>0
    <3> HIDE DEF l
    <3> QED
      BY <3>1
  <2>2. fs \in Seq(Frames) /\ \A i \in 1 .. n : fs[i] \in Frames /\ i \in 1 .. Len(fs)
    BY <1>0, <2>1
  <2> HIDE DEF n
  <2>3. SubSeq(fs, 1, n) \in Seq(Frames)
    BY <2>1, <2>2
  <2>4. Len(SubSeq(fs, 1, n)) = n
    BY <2>1, <2>2
  <2>5. \A i \in 1 .. n : SubSeq(fs, 1, n)[i] = fs[i]
    BY <2>1, <2>2
  <2> QED
    BY <2>3, <2>4, <2>5 DEF n
<1> HIDE DEF es
<1>2. gs \in Seq(Frames) /\ Len(gs) = Len(fs) /\ gs[Len(fs)] = f /\ \A i \in 1 .. Len(fs) - 1 : gs[i] = fs[i]
  BY <1>0, <1>1
<1> HIDE DEF gs
<1>3. gs # <<>> /\ gs[1].fn \in {"conf", "exit"}
  <2>1. CASE Len(fs) = 1
    <3>1. Last(fs).fn \in {"conf", "exit"}
      BY <2>1, StackIs
    <3> QED
      BY <1>2, <2>1, <3>1
  <2>2. CASE Len(fs) # 1
    <3> DEFINE l == Len(fs)
    <3>1. l \in Nat /\ l # 0 /\ l # 1
      BY <1>0, <2>2
    <3> HIDE DEF l
    <3>2. 1 \in 1 .. l - 1
      BY <3>1
    <3>3. gs[1] = fs[1]
      BY <1>2, <3>2 DEF l
    <3> QED
      BY <1>0, <1>2, <3>3 DEF Stacks
  <2> QED
    BY <2>1, <2>2
<1>4. \A i \in 1 .. Len(gs) - 1 : <<gs[i].fn, gs[i + 1].fn>> \in Calls
  <2> TAKE i \in 1 .. Len(gs) - 1
  <2>1. i \in 1 .. Len(fs) - 1 /\ <<fs[i].fn, fs[i + 1].fn>> \in Calls /\ gs[i] = fs[i]
    BY <1>0, <1>2 DEF Stacks
  <2>2. CASE i + 1 = Len(fs)
    <3>1. gs[i + 1] = f /\ fs[i + 1] = Last(fs)
      BY <1>0, <1>2, <2>2
    <3>2. <<fs[i].fn, "search">> \in Calls => <<fs[i].fn, "results">> \in Calls
      BY DEF Calls
    <3> QED
      BY <2>1, <3>1, <3>2
  <2>3. CASE i + 1 # Len(fs)
    <3>1. i + 1 \in 1 .. Len(fs) - 1
      BY <1>0, <2>1, <2>3
    <3> QED
      BY <1>2, <2>1, <3>1
  <2> QED
    BY <2>2, <2>3
<1>5. Stacks(gs)
  BY <1>2, <1>3, <1>4 DEF Stacks
<1> QED
  BY <1>2, <1>5 DEF gs, es, Front, Last

\* Only a choice that is left, or the help of one, is open.
LEMMA NoChoiceBelow ==
  ASSUME NEW fs, Stacks(fs), Last(fs).fn # "help"
  PROVE  \A i \in 1 .. Len(fs) - 1 : fs[i].fn # "choice"
<1> SUFFICES ASSUME NEW i \in 1 .. Len(fs) - 1, fs[i].fn = "choice" PROVE FALSE
  OBVIOUS
<1>0. Len(fs) \in Nat /\ Last(fs) = fs[Len(fs)]
  BY StackIs
<1>1. fs[i + 1].fn = "help"
  BY DEF Stacks, Calls
<1>2. i + 1 \in 1 .. Len(fs) - 1
  BY <1>0, <1>1
<1>3. <<fs[i + 1].fn, fs[i + 1 + 1].fn>> \in Calls
  BY <1>2 DEF Stacks
<1> QED
  BY <1>1, <1>3 DEF Calls
-----------------------------------------------------------------------------
(* The box of the function on top is in step.                              *)

Fields == {"string", "load", "save", "search"}
Readers == {"results", "help", "message"}
KindOf(f) ==
    CASE f.fn = "conf" -> "menu" [] f.fn = "choice" -> "list" [] f.fn \in Fields -> "input"
      [] f.fn \in Readers -> "text" [] f.fn = "exit" -> "ask"

AskOk(b) == b \in [kind : {"ask"}, res : {"wait", "yes", "no", "esc"}, button : 0 .. 1]

BoxOk(b, f) ==
    \/ b.kind = KindOf(f) /\ b.res = "small"
    \/ f.fn = "conf" /\ MenuOk(b)
    \/ f.fn = "choice" /\ ListOk(b) /\ b.items \in Seq(ValueItems)
    \/ f.fn \in Fields /\ InputOk(b)
    \/ f.fn \in Readers /\ TextOk(b)
    \/ f.fn = "exit" /\ AskOk(b)

Shows(f) == f.fn = "choice" => \E c \in ToSet(Children[f.menu]) : Visible(c, now)

LEMMA Kinds ==
  ASSUME NEW b, NEW f \in Frames, BoxOk(b, f), b.res # "small"
  PROVE  /\ b.kind = KindOf(f)
         /\ f.fn = "conf" => MenuOk(b) /\ b.kind = "menu"
         /\ f.fn = "choice" => ListOk(b) /\ b.items \in Seq(ValueItems) /\ b.kind = "list"
         /\ f.fn \in Fields => InputOk(b) /\ b.kind = "input"
         /\ f.fn \in Readers => TextOk(b) /\ b.kind = "text"
         /\ f.fn = "exit" => AskOk(b) /\ b.kind = "ask"
<1>1. f.fn \in Fns
  BY DEF Frames
<1>2. /\ MenuOk(b) => b.kind = "menu"
      /\ ListOk(b) => b.kind = "list"
      /\ InputOk(b) => b.kind = "input"
      /\ TextOk(b) => b.kind = "text"
      /\ AskOk(b) => b.kind = "ask"
  BY DEF MenuOk, Menu, ListOk, List, InputOk, Input, TextOk, TextBox, AskOk
<1> QED
  BY <1>1, <1>2 DEF BoxOk, KindOf, Fields, Readers, Fns

LEMMA HeightIn ==
  ASSUME NEW n \in Nat, NEW kind \in {"menu", "text"}, ~(n < Needs[kind])
  PROVE  n - Frame[kind] \in Nat /\ n - Frame[kind] # 0
<1>1. Frame.menu \in Nat /\ Frame.text \in Nat /\ Needs.menu \in Nat /\ Needs.text \in Nat
      /\ Frame.menu < Needs.menu /\ Frame.text < Needs.text
  BY BoxesAssumption
<1>2. CASE kind = "menu"
  BY <1>1, <1>2
<1>3. CASE kind = "text"
  BY <1>1, <1>3
<1> QED
  BY <1>2, <1>3

Opened(b, f) == BoxOk(b, f) /\ b.res \in {"wait", "small"}
WhenItFits(kind, b, f) == ~(lines < Needs[kind]) => BoxOk(b, f) /\ b.res = "wait"

LEMMA FitsOk ==
  ASSUME NEW f, NEW b, NEW kind, KindOf(f) = kind, WhenItFits(kind, b, f)
  PROVE  Opened(Fits(kind, b), f)
BY DEF Fits, BoxOk, Opened, WhenItFits

LEMMA BoxOpens ==
  ASSUME NEW f \in Frames, Shows(f), lines \in Terminals, name \in Texts, NowOk(now)
  PROVE  Opened(BoxOf(f), f)
<1>0. /\ lines \in Nat /\ f.fn \in Fns /\ f.menu \in Entries /\ f.vscroll \in Nat /\ f.hscroll \in Nat /\ f.find \in Texts
      /\ "" \in Texts
  BY BoxesAssumption, TextsAssumption DEF Frames
<1>10. /\ f.fn = "conf" => KindOf(f) = "menu"
       /\ f.fn = "choice" => KindOf(f) = "list"
       /\ f.fn \in Fields => KindOf(f) = "input"
       /\ f.fn \in Readers => KindOf(f) = "text"
       /\ f.fn = "exit" => KindOf(f) = "ask"
  BY DEF KindOf, Fields, Readers
<1>2. CASE f.fn = "conf"
  <2> DEFINE height == lines - Frame.menu
             items == Rows(f.menu, f.menu)
             sel == f.active
             v == f.vscroll
             b == MenuOpen(items, sel, v, height)
  <2>1. items \in Seq(Items) /\ v \in Nat
    BY <1>0, RowsIn
  <2>2. ASSUME ~(lines < Needs["menu"]) PROVE MenuOk(b) /\ b.res = "wait"
    <3>1. height \in Nat /\ height # 0
      BY <1>0, <2>2, HeightIn
    <3> HIDE DEF height, items, sel, v
    <3> QED
      BY <2>1, <3>1, MenuOpenOk
  <2> HIDE DEF b
  <2>4. MenuOk(b) => BoxOk(b, f)
    BY <1>2 DEF BoxOk
  <2>3. Opened(Fits("menu", b), f)
    <3>1. WhenItFits("menu", b, f)
      BY <2>2, <2>4 DEF WhenItFits
    <3> QED
      BY <1>2, <1>10, <3>1, FitsOk
  <2> QED
    BY <1>2, <2>3 DEF BoxOf, b
<1>3. CASE f.fn = "choice"
  <2> DEFINE items == ChoiceRows(f.menu)
             picked == Picked(f)
             b == ListOpen(items, picked)
  <2>1. items \in Seq(ValueItems) /\ items # <<>>
    <3>1. Kind[f.menu] = "choice" /\ \E c \in ToSet(Children[f.menu]) : Visible(c, now)
      BY <1>3 DEF Frames, Shows
    <3> QED
      BY <1>0, <3>1, ChoiceRowsIn
  <2>2. ListOk(b) /\ b.items = items /\ b.res = "wait"
    <3>1. items \in Seq(Items)
      <4> HIDE DEF items
      <4> QED
        BY <2>1 DEF ValueItems
    <3> HIDE DEF items, picked
    <3> QED
      BY <2>1, <3>1, ListOpenOk
  <2> HIDE DEF b, items
  <2>3. Opened(Fits("list", b), f)
    <3>1. BoxOk(b, f) /\ b.res = "wait"
      BY <1>3, <2>1, <2>2 DEF BoxOk
    <3>2. WhenItFits("list", b, f)
      BY <3>1 DEF WhenItFits
    <3> QED
      BY <1>3, <1>10, <3>2, FitsOk
  <2> QED
    BY <1>3, <2>3 DEF BoxOf, b, items
<1>4. CASE f.fn \in Fields
  <2> DEFINE text == CASE f.fn = "string" -> now.cur[SymOf[f.menu]] [] f.fn \in {"load", "save"} -> name [] f.fn = "search" -> ""
             b == InputOpen(text)
  <2>1. text \in Texts
    <3>1. f.fn = "string" => now.cur[SymOf[f.menu]] \in Texts
      BY DEF Frames, NowOk
    <3> QED
      BY <1>0, <1>4, <3>1 DEF Fields
  <2>2. BoxOf(f) = Fits("input", b)
    BY <1>4 DEF BoxOf, Fields
  <2> HIDE DEF text
  <2>3. InputOk(b) /\ b.res = "wait"
    BY <2>1, InputOpenOk
  <2> HIDE DEF b
  <2>4. BoxOk(b, f)
    BY <1>4, <2>3 DEF BoxOk
  <2>5. WhenItFits("input", b, f)
    BY <2>3, <2>4 DEF WhenItFits
  <2> QED
    BY <1>4, <1>10, <2>2, <2>5, FitsOk
<1>5. ASSUME NEW t \in Pages, NEW v \in Nat, NEW h \in Nat, NEW height, f.fn \in Readers,
             ~(lines < Needs["text"]) => height \in Nat /\ height # 0
      PROVE  Opened(Fits("text", TextOpen(t, v, h, height)), f)
  <2> DEFINE b == TextOpen(t, v, h, height)
  <2>1. ~(lines < Needs["text"]) => TextOk(b) /\ b.res = "wait"
    BY <1>5, TextOpenOk
  <2> HIDE DEF b
  <2>2. WhenItFits("text", b, f)
    BY <1>5, <2>1 DEF WhenItFits, BoxOk
  <2>3. Opened(Fits("text", b), f)
    BY <1>5, <1>10, <2>2, FitsOk
  <2> QED
    BY <2>3 DEF b
<1>6. CASE f.fn = "results"
  <2> DEFINE t == Found(Matches[f.find])
             height == lines - Frame.text
             v == f.vscroll
             h == f.hscroll
  <2>1. t \in Pages
    <3> DEFINE syms == Matches[f.find]
    <3>1. syms \in Seq(Symbols)
      BY <1>0, BoxesAssumption
    <3> HIDE DEF syms
    <3>2. Found(syms) \in Pages
      BY <3>1, FoundIn
    <3> QED
      BY <3>2 DEF syms
  <2>2. ~(lines < Needs["text"]) => height \in Nat /\ height # 0
    BY <1>0, HeightIn
  <2>3. BoxOf(f) = Fits("text", TextOpen(t, v, h, height)) /\ v \in Nat /\ h \in Nat
    BY <1>0, <1>6 DEF BoxOf
  <2> HIDE DEF t, height, v, h
  <2> QED
    BY <1>5, <1>6, <2>1, <2>2, <2>3 DEF Readers
<1>7. CASE f.fn = "help"
  <2> DEFINE t == Text(HelpLines[f.menu])
             height == lines - Frame.text
             v == 0
  <2>1. t \in Pages
    <3> DEFINE n == HelpLines[f.menu]
    <3>1. n \in Nat \ {0}
      BY <1>0, BoxesAssumption
    <3> HIDE DEF n
    <3>2. Text(n) \in Pages
      BY <3>1, TextIn
    <3> QED
      BY <3>2 DEF n
  <2>2. ~(lines < Needs["text"]) => height \in Nat /\ height # 0
    BY <1>0, HeightIn
  <2>3. BoxOf(f) = Fits("text", TextOpen(t, v, v, height)) /\ v \in Nat
    BY <1>7 DEF BoxOf
  <2> HIDE DEF t, height, v
  <2> QED
    BY <1>5, <1>7, <2>1, <2>2, <2>3 DEF Readers
<1>8. CASE f.fn = "message"
  <2> DEFINE t == Message
             v == 0
             height == 2
  <2>1. t \in Pages
    <3> DEFINE n == 1
    <3>1. n \in Nat \ {0}
      OBVIOUS
    <3> HIDE DEF n
    <3> QED
      BY <3>1, TextIn
  <2>2. BoxOf(f) = Fits("text", TextOpen(t, v, v, height)) /\ v \in Nat /\ height \in Nat /\ height # 0
    BY <1>8 DEF BoxOf
  <2> HIDE DEF t, height, v
  <2> QED
    BY <1>5, <1>8, <2>1, <2>2 DEF Readers
<1>9. CASE f.fn = "exit"
  <2>1. AskOk(AskOpen) /\ AskOpen.res = "wait"
    BY DEF AskOk, AskOpen
  <2>2. WhenItFits("ask", AskOpen, f)
    BY <1>9, <2>1 DEF BoxOk, WhenItFits
  <2>3. BoxOf(f) = Fits("ask", AskOpen)
    BY <1>9 DEF BoxOf
  <2> QED
    BY <1>9, <1>10, <2>2, <2>3, FitsOk
<1> QED
  BY <1>0, <1>2, <1>3, <1>4, <1>6, <1>7, <1>8, <1>9 DEF Fns, Fields

\* One key, ...
LEMMA BoxPressed ==
  ASSUME NEW f \in Frames, NEW b, BoxOk(b, f), b.res = "wait", NEW key
  PROVE  BoxOk(BoxKey(b, key), f)
<1>0. f.fn \in Fns
  BY DEF Frames
<1>1. /\ f.fn = "conf" => MenuOk(b) /\ b.kind = "menu"
      /\ f.fn = "choice" => ListOk(b) /\ b.items \in Seq(ValueItems) /\ b.kind = "list"
      /\ f.fn \in Fields => InputOk(b) /\ b.kind = "input"
      /\ f.fn \in Readers => TextOk(b) /\ b.kind = "text"
      /\ f.fn = "exit" => AskOk(b) /\ b.kind = "ask"
  BY Kinds
<1>2. CASE f.fn = "conf"
  <2>1. MenuOk(MenuKey(b, key))
    BY <1>1, <1>2, MenuKeyOk
  <2> QED
    BY <1>1, <1>2, <2>1 DEF BoxKey, BoxOk
<1>3. CASE f.fn = "choice"
  <2>1. ListOk(ListKey(b, key)) /\ ListKey(b, key).items = b.items
    BY <1>1, <1>3, ListKeyOk
  <2> QED
    BY <1>1, <1>3, <2>1 DEF BoxKey, BoxOk
<1>4. CASE f.fn \in Fields
  <2>1. InputOk(InputKey(b, key))
    BY <1>1, <1>4, InputKeyOk
  <2> QED
    BY <1>1, <1>4, <2>1 DEF BoxKey, BoxOk
<1>5. CASE f.fn \in Readers
  <2>1. TextOk(TextKey(b, key))
    BY <1>1, <1>5, TextKeyOk
  <2> QED
    BY <1>1, <1>5, <2>1 DEF BoxKey, BoxOk
<1>6. CASE f.fn = "exit"
  <2>1. AskOk(b)
    BY <1>1, <1>6
  <2>2. Turn(b.button, key, 2) \in 0 .. 1
    <3>1. b.button \in 0 .. 1
      BY <2>1 DEF AskOk
    <3> QED
      BY <3>1 DEF Turn
  <2> DEFINE turned == [b EXCEPT !.button = Turn(@, key, 2)]
             res == IF b.button = 0 THEN "yes" ELSE "no"
             taken == [b EXCEPT !.res = res]
  <2>3. AskOk(turned) /\ AskOk(taken) /\ AskOk([b EXCEPT !.res = "yes"]) /\ AskOk([b EXCEPT !.res = "no"]) /\ AskOk([b EXCEPT !.res = "esc"])
    <3>1. AskOk(turned)
      BY <2>1, <2>2 DEF AskOk
    <3>2. \A r \in {"yes", "no", "esc"} : AskOk([b EXCEPT !.res = r])
      BY <2>1 DEF AskOk
    <3>3. res \in {"yes", "no", "esc"}
      OBVIOUS
    <3> HIDE DEF turned, res
    <3> QED
      BY <3>1, <3>2, <3>3
  <2>4. AskOk(AskKey(b, key))
    <3> HIDE DEF turned, taken
    <3>1. AskKey(b, key) \in {turned, taken, [b EXCEPT !.res = "yes"], [b EXCEPT !.res = "no"], [b EXCEPT !.res = "esc"], b}
      BY Zenon DEF AskKey, turned, taken
    <3> QED
      BY <2>1, <2>3, <3>1
  <2> QED
    BY <1>1, <1>6, <2>4 DEF BoxKey, BoxOk
<1> QED
  BY <1>0, <1>2, <1>3, <1>4, <1>5, <1>6 DEF Fns, Fields, Readers

\* ... and the terminal resized
Small(b) == [b EXCEPT !.res = "small"]
Resized(b, f, n) ==
    IF n < Needs[b.kind] THEN Small(b)
    ELSE BoxResize(b, IF b.kind = "menu" THEN n - Frame.menu ELSE IF f.fn = "message" THEN 2 ELSE n - Frame.text)

LEMMA BoxResized ==
  ASSUME NEW f \in Frames, NEW b, BoxOk(b, f), b.res = "wait", NEW n \in Nat
  PROVE  BoxOk(Resized(b, f, n), f)
<1>0. f.fn \in Fns /\ b.kind = KindOf(f)
  BY Kinds DEF Frames
<1>1. /\ f.fn = "conf" => MenuOk(b) /\ b.kind = "menu"
      /\ f.fn = "choice" => ListOk(b) /\ b.items \in Seq(ValueItems) /\ b.kind = "list"
      /\ f.fn \in Fields => InputOk(b) /\ b.kind = "input"
      /\ f.fn \in Readers => TextOk(b) /\ b.kind = "text"
      /\ f.fn = "exit" => AskOk(b) /\ b.kind = "ask"
  BY Kinds
<1>2. CASE n < Needs[b.kind]
  <2>1. {"kind", "res"} \subseteq DOMAIN b
    <3>1. /\ MenuOk(b) => {"kind", "res"} \subseteq DOMAIN b
          /\ ListOk(b) => {"kind", "res"} \subseteq DOMAIN b
          /\ InputOk(b) => {"kind", "res"} \subseteq DOMAIN b
          /\ TextOk(b) => {"kind", "res"} \subseteq DOMAIN b
          /\ AskOk(b) => {"kind", "res"} \subseteq DOMAIN b
      BY DEF MenuOk, Menu, ListOk, List, InputOk, Input, TextOk, TextBox, AskOk
    <3> QED
      BY <1>0, <1>1, <3>1 DEF Fns, Fields, Readers
  <2>2. Small(b).kind = KindOf(f) /\ Small(b).res = "small"
    BY <1>0, <2>1 DEF Small
  <2> QED
    BY <1>2, <2>2 DEF Resized, BoxOk
<1>3. CASE ~(n < Needs[b.kind])
  <2> DEFINE height == IF b.kind = "menu" THEN n - Frame.menu ELSE IF f.fn = "message" THEN 2 ELSE n - Frame.text
             d == BoxResize(b, height)
  <2>1. Resized(b, f, n) = d
    BY <1>3 DEF Resized
  <2>2. b.kind \in {"menu", "text"} => height \in Nat /\ height # 0
    <3>1. CASE b.kind = "menu"
      BY <1>3, <3>1, HeightIn
    <3>2. CASE b.kind = "text"
      BY <1>3, <3>2, HeightIn
    <3> QED
      BY <3>1, <3>2
  <2> HIDE DEF height
  <2>3. CASE f.fn = "conf"
    <3> DEFINE e == [MenuDraw(b, height) EXCEPT !.redrawn = TRUE]
    <3>1. MenuOk(e)
      BY <1>1, <2>2, <2>3, MenuResizeOk
    <3>2. d = e
      BY <1>1, <2>3 DEF BoxResize
    <3> QED
      BY <2>1, <2>3, <3>1, <3>2 DEF BoxOk
  <2>4. CASE f.fn = "choice"
    <3>1. ListOk(ListDraw(b)) /\ ListDraw(b).items = b.items
      BY <1>1, <2>4, ListResizeOk
    <3>2. d = ListDraw(b)
      BY <1>1, <2>4 DEF BoxResize
    <3> QED
      BY <1>1, <2>1, <2>4, <3>1, <3>2 DEF BoxOk
  <2>5. CASE f.fn \in Fields
    <3>1. InputOk(InputDraw(b))
      BY <1>1, <2>5, InputDrawOk DEF InputOk
    <3>2. d = InputDraw(b)
      BY <1>1, <2>5 DEF BoxResize
    <3> QED
      BY <2>1, <2>5, <3>1, <3>2 DEF BoxOk
  <2>6. CASE f.fn \in Readers
    <3> DEFINE e == PrintPage(BackLines([b EXCEPT !.height = height], b.height + 4))
    <3>1. TextOk(e)
      BY <1>1, <2>2, <2>6, TextResizeOk
    <3>2. d = e
      BY <1>1, <2>6 DEF BoxResize
    <3> QED
      BY <2>1, <2>6, <3>1, <3>2 DEF BoxOk
  <2>7. CASE f.fn = "exit"
    <3>1. d = b
      BY <1>1, <2>7 DEF BoxResize
    <3> QED
      BY <2>1, <3>1
  <2> QED
    BY <1>0, <2>3, <2>4, <2>5, <2>6, <2>7 DEF Fns, Fields, Readers
<1> QED
  BY <1>2, <1>3
-----------------------------------------------------------------------------
(* The invariant: the functions on the stack, what they were called with,  *)
(* and the box of the one on top                                           *)

DataInv ==
    /\ Known /\ UserOk(user) /\ NowOk(now) /\ name \in Texts /\ lines \in Terminals
    /\ TextsIn(out) /\ (dot # Missing => TextsIn(dot))
    /\ alt = [n \in DOMAIN alt |-> alt[n]] /\ \A n \in DOMAIN alt : TextsIn(alt[n])

AllShow(fs) == \A i \in 1 .. Len(fs) : Shows(fs[i])
NoChoice(fs) == \A i \in 1 .. Len(fs) : fs[i].fn # "choice"

CallsInv ==
    /\ pc \in {"idle", "edit", "written", "moved"}
    /\ pc # "idle" => prog = "mconf" /\ Stacks(stack) /\ AllShow(stack)
    /\ box # Closed => pc = "edit" /\ BoxOk(box, Top)

MInv == DataInv /\ CallsInv

LEMMA ShowsSame ==
  ASSUME kconfig' = kconfig, now' = now, NEW f
  PROVE  Shows(f)' <=> Shows(f)
BY DEF Shows, Visible, PromptVisible, IsYes, Holds

LEMMA DataSame ==
  ASSUME DataInv, UNCHANGED <<kconfig, user, now, name, lines, out, dot, alt>>
  PROVE  DataInv'
BY DEF DataInv, Known

LEMMA ValuesNew ==
  ASSUME DataInv, kconfig' = kconfig, UserOk(user'), NowOk(now'), UNCHANGED <<name, lines, out, dot, alt>>
  PROVE  DataInv'
BY DEF DataInv, Known

\* A step after which another function, or the same one, is on top, and its box
\* not open yet.
LEMMA Goes ==
  ASSUME DataInv', pc' \in {"edit", "written", "moved"}, prog' = "mconf", box' = Closed,
         NEW fs, stack' = fs, Stacks(fs),
         NoChoice(fs) \/ (kconfig' = kconfig /\ now' = now /\ AllShow(fs))
  PROVE  MInv'
<1>1. Stacks(stack')
  OBVIOUS
<1>2. AllShow(fs)'
  <2>1. CASE NoChoice(fs)
    <3>1. \A i \in 1 .. Len(fs) : fs[i].fn # "choice"
      BY <2>1 DEF NoChoice
    <3> QED
      BY <3>1 DEF AllShow, Shows
  <2>2. CASE kconfig' = kconfig /\ now' = now /\ AllShow(fs)
    <3>1. \A i \in 1 .. Len(fs) : Shows(fs[i])
      BY <2>2 DEF AllShow
    <3>2. \A i \in 1 .. Len(fs) : Shows(fs[i])'
      BY <2>2, <3>1, ShowsSame
    <3> QED
      BY <3>2 DEF AllShow
  <2> QED
    BY <2>1, <2>2
<1>3. AllShow(stack)'
  BY <1>2 DEF AllShow
<1> QED
  BY <1>1, <1>3 DEF MInv, CallsInv

LEMMA AtTop ==
  ASSUME CallsInv, pc # "idle"
  PROVE  /\ prog = "mconf" /\ Stacks(stack) /\ AllShow(stack) /\ Top \in Frames /\ Len(stack) \in Nat
         /\ Top.fn \notin {"conf", "exit"} => Len(stack) > 1
         /\ Top.fn # "help" => NoChoice(Front(stack)) \/ Len(stack) = 1
         /\ Top.fn \notin {"help", "choice"} => NoChoice(stack)
         /\ box # Closed => BoxOk(box, Top)
<1>1. prog = "mconf" /\ Stacks(stack) /\ AllShow(stack) /\ (box # Closed => BoxOk(box, Top))
  BY DEF CallsInv
<1>2. Top \in Frames /\ Top = stack[Len(stack)] /\ Len(stack) \in Nat /\ Len(stack) # 0
      /\ (Top.fn \notin {"conf", "exit"} => Len(stack) > 1)
  BY <1>1, StackIs DEF Top
<1>3. Top.fn # "help" => \A i \in 1 .. Len(stack) - 1 : stack[i].fn # "choice"
  BY <1>1, NoChoiceBelow DEF Top
<1>4. Top.fn # "help" => NoChoice(Front(stack)) \/ Len(stack) = 1
  <2> SUFFICES ASSUME Top.fn # "help", Len(stack) # 1 PROVE NoChoice(Front(stack))
    OBVIOUS
  <2>1. Len(stack) > 1
    BY <1>2
  <2>2. Len(Front(stack)) = Len(stack) - 1 /\ \A i \in 1 .. Len(stack) - 1 : Front(stack)[i] = stack[i]
    BY <1>1, <2>1, PopOk
  <2> QED
    BY <1>3, <2>2 DEF NoChoice
<1>5. Top.fn \notin {"help", "choice"} => NoChoice(stack)
  <2> SUFFICES ASSUME Top.fn \notin {"help", "choice"}, NEW i \in 1 .. Len(stack) PROVE stack[i].fn # "choice"
    BY DEF NoChoice
  <2>1. i = Len(stack) \/ i \in 1 .. Len(stack) - 1
    BY <1>2
  <2> QED
    BY <1>2, <1>3, <2>1
<1> QED
  BY <1>1, <1>2, <1>4, <1>5

\* What is on top is left, ...
LEMMA Pops ==
  ASSUME CallsInv, DataInv', pc = "edit", pc' = "edit", prog' = prog, box' = Closed, stack' = Front(stack),
         Len(stack) > 1, Top.fn # "help" \/ (kconfig' = kconfig /\ now' = now)
  PROVE  MInv'
<1> DEFINE fs == Front(stack)
<1>1. prog = "mconf" /\ Stacks(stack) /\ AllShow(stack)
  BY AtTop
<1>2. Stacks(fs) /\ Len(fs) = Len(stack) - 1 /\ \A i \in 1 .. Len(stack) - 1 : fs[i] = stack[i]
  BY <1>1, PopOk
<1>3. NoChoice(fs) \/ (kconfig' = kconfig /\ now' = now /\ AllShow(fs))
  <2>1. Top.fn # "help" => NoChoice(fs)
    BY AtTop
  <2>2. AllShow(fs)
    <3>1. Len(stack) \in Nat
      BY AtTop
    <3> QED
      BY <1>1, <1>2, <3>1 DEF AllShow
  <2> QED
    BY <2>1, <2>2
<1> HIDE DEF fs
<1>4. stack' = fs /\ pc' \in {"edit", "written", "moved"} /\ prog' = "mconf"
  BY <1>1 DEF fs
<1> QED
  BY <1>2, <1>3, <1>4, Goes

\* ... and tried again, ...
LEMMA Stays ==
  ASSUME CallsInv, DataInv', pc # "idle", pc' \in {"edit", "written", "moved"}, prog' = prog, box' = Closed, stack' = stack,
         Top.fn \notin {"help", "choice"} \/ (kconfig' = kconfig /\ now' = now)
  PROVE  MInv'
<1>1. prog = "mconf" /\ Stacks(stack) /\ AllShow(stack) /\ (Top.fn \notin {"help", "choice"} => NoChoice(stack))
  BY AtTop
<1> DEFINE fs == stack
<1>2. stack' = fs /\ Stacks(fs) /\ (NoChoice(fs) \/ (kconfig' = kconfig /\ now' = now /\ AllShow(fs)))
  BY <1>1
<1> HIDE DEF fs
<1>3. prog' = "mconf"
  BY <1>1
<1> QED
  BY <1>2, <1>3, Goes

\* ... and another function called.
LEMMA Pushes ==
  ASSUME DataInv', pc' = "edit", prog' = "mconf", box' = Closed, NEW fs, Stacks(fs), NEW f \in Frames,
         <<Last(fs).fn, f.fn>> \in Calls, stack' = fs \o <<f>>,
         \/ NoChoice(fs) /\ f.fn # "choice"
         \/ AllShow(fs) /\ Shows(f) /\ kconfig' = kconfig /\ now' = now
  PROVE  MInv'
<1> DEFINE gs == fs \o <<f>>
<1>1. Stacks(gs) /\ Len(gs) = Len(fs) + 1 /\ gs[Len(fs) + 1] = f /\ (\A i \in 1 .. Len(fs) : gs[i] = fs[i]) /\ Len(fs) \in Nat
  BY PushOk, StackIs
<1>2. \A i \in 1 .. Len(fs) + 1 : i = Len(fs) + 1 \/ i \in 1 .. Len(fs)
  BY <1>1
<1>3. stack' = gs
  OBVIOUS
<1> HIDE DEF gs
<1>4. NoChoice(fs) /\ f.fn # "choice" => NoChoice(gs)
  BY <1>1, <1>2 DEF NoChoice
<1>5. AllShow(fs) /\ Shows(f) => AllShow(gs)
  BY <1>1, <1>2 DEF AllShow
<1> QED
  BY <1>1, <1>3, <1>4, <1>5, Goes

LEMMA CallIn ==
  ASSUME NEW fn \in Fns, NEW e \in Entries, fn = "string" => SymOf[e] \in Strings, fn = "choice" => Kind[e] = "choice"
  PROVE  /\ Call(fn, e) \in Frames /\ Call(fn, e).fn = fn /\ Call(fn, e).menu = e
         /\ \A a \in Entries \cup All \cup {Nobody, None} :
                LET f == [Call(fn, e) EXCEPT !.active = a] IN f \in Frames /\ f.fn = fn /\ f.menu = e
<1>0. "" \in Texts
  BY TextsAssumption
<1> DEFINE c == Call(fn, e)
<1>1. c \in Frames /\ c.fn = fn /\ c.menu = e
  BY <1>0 DEF Call, Frames
<1> HIDE DEF c
<1>2. \A a \in Entries \cup All \cup {Nobody, None} :
          LET f == [c EXCEPT !.active = a] IN f \in Frames /\ f.fn = fn /\ f.menu = e
  BY <1>1 DEF Frames
<1> QED
  BY <1>1, <1>2 DEF c
-----------------------------------------------------------------------------
(* The steps                                                               *)

LEMMA Handles ==
  ASSUME MInv, NEW fns, NEW res, Handling(fns, res), "none" \notin res
  PROVE  /\ CallsInv /\ DataInv /\ pc = "edit" /\ box # Closed /\ BoxOk(box, Top)
         /\ Top \in Frames /\ Top.fn \in fns /\ box.res \in res
<1>1. pc = "edit" /\ Top.fn \in fns /\ box.res \in res /\ CallsInv /\ DataInv
  BY DEF Handling, MInv
<1>2. box # Closed
  BY <1>1 DEF Closed
<1> QED
  BY <1>1, <1>2, AtTop

\* The row that the keys act on is an item.
LEMMA HereInMenu ==
  ASSUME MenuOk(box), Count(box) # 0, box.res \notin {"wait", "esc", "crash"}
  PROVE  /\ Here \in Items /\ box.at = box.scroll + box.choice /\ box.at \in 0 .. Count(box) - 1
         /\ box.choice \in 0 .. box.max - 1 /\ box.scroll \in Nat
<1>1. /\ box.items \in Seq(Items) /\ Count(box) \in Nat /\ Count(box) = Len(box.items)
      /\ box.scroll \in Nat /\ box.choice \in Nat /\ box.max \in Nat
      /\ box.scroll + box.max <= Count(box) /\ box.choice < box.max /\ box.at = box.scroll + box.choice
  BY DEF MenuOk, Menu, MenuFits, Count
<1>2. box.at \in 0 .. Count(box) - 1 /\ box.choice \in 0 .. box.max - 1
  BY <1>1
<1>3. box.items[box.at + 1] \in Items
  BY <1>1, <1>2
<1> QED
  BY <1>1, <1>2, <1>3 DEF Here, Item

LEMMA HereInList ==
  ASSUME ListOk(box), box.items \in Seq(ValueItems), box.res \notin {"wait", "esc"}
  PROVE  /\ Here \in ValueItems /\ Here.data \in Entries /\ SymOf[Here.data] \in Bools \cup {Nobody}
         /\ box.at = box.scroll + box.choice /\ box.at \in 0 .. Count(box) - 1
         /\ box.choice \in 0 .. box.max - 1 /\ box.scroll \in Nat
<1>1. /\ Count(box) \in Nat /\ Count(box) = Len(box.items)
      /\ box.scroll \in Nat /\ box.choice \in Nat /\ box.max \in Nat
      /\ box.scroll + box.max <= Count(box) /\ box.choice < box.max /\ box.at = box.scroll + box.choice
  BY DEF ListOk, List, Count
<1>2. box.at \in 0 .. Count(box) - 1 /\ box.choice \in 0 .. box.max - 1
  BY <1>1
<1>3. box.items[box.at + 1] \in ValueItems
  BY <1>1, <1>2
<1> QED
  BY <1>1, <1>2, <1>3 DEF Here, Item, ValueItems, Items

LEMMA ResumedOk ==
  ASSUME CallsInv, pc # "idle", Top.fn = "conf", MenuOk(box), box.res \notin {"wait", "esc", "crash"}
  PROVE  /\ Stacks(Resumed) /\ Len(Resumed) = Len(stack) /\ Last(Resumed) \in Frames /\ Last(Resumed).fn = "conf"
         /\ NoChoice(Resumed) /\ (Resumed \o <<>>) = Resumed
<1> DEFINE a == IF Count(box) = 0 THEN Nobody ELSE Here.data
           f == [Top EXCEPT !.vscroll = box.saved, !.active = a]
<1>1. Top \in Frames /\ Stacks(stack) /\ NoChoice(stack) /\ Len(stack) \in Nat
  BY AtTop
<1>2. a \in Entries \cup {Nobody} /\ box.saved \in Nat
  <2>1. Count(box) # 0 => Here.data \in Entries
    BY HereInMenu DEF Items
  <2> QED
    BY <2>1 DEF MenuOk, Menu
<1>3. f \in Frames /\ f.fn = "conf"
  <2> HIDE DEF a
  <2> QED
    BY <1>1, <1>2 DEF Frames
<1>4. Resumed = Append(Front(stack), f)
  BY DEF Resumed
<1> HIDE DEF f
<1>5. /\ Stacks(Resumed) /\ Len(Resumed) = Len(stack) /\ Last(Resumed) = f /\ Resumed[Len(stack)] = f
      /\ \A i \in 1 .. Len(stack) - 1 : Resumed[i] = stack[i]
  BY <1>1, <1>3, <1>4, SetOk DEF Top
<1>6. NoChoice(Resumed)
  BY <1>1, <1>3, <1>5 DEF NoChoice
<1>7. (Resumed \o <<>>) = Resumed
  <2>1. Resumed \in Seq(Frames)
    BY <1>5 DEF Stacks
  <2> QED
    BY <2>1
<1> QED
  BY <1>3, <1>5, <1>6, <1>7

\* A function was called from a menu, or none.
LEMMA ConfGoes ==
  ASSUME MInv, DataInv', NEW res, Handling({"conf"}, res), res \cap {"none", "wait", "esc", "crash", "small"} = {},
         pc' = "edit", prog' = prog, box' = Closed,
         \/ stack' = Resumed
         \/ \E f \in Frames : /\ stack' = Resumed \o <<f>> /\ <<"conf", f.fn>> \in Calls
                              /\ f.fn = "choice" => Shows(f) /\ kconfig' = kconfig /\ now' = now
  PROVE  MInv'
<1>1. CallsInv /\ pc = "edit" /\ BoxOk(box, Top) /\ Top \in Frames /\ Top.fn = "conf" /\ box.res \in res
  BY Handles
<1>2. MenuOk(box)
  BY <1>1, Kinds
<1> DEFINE fs == Resumed
<1>3. Stacks(fs) /\ Last(fs) \in Frames /\ Last(fs).fn = "conf" /\ NoChoice(fs)
  BY <1>1, <1>2, ResumedOk
<1>4. prog' = "mconf"
  BY <1>1, AtTop
<1> HIDE DEF fs
<1>6. CASE stack' = fs
  BY <1>3, <1>4, <1>6, Goes
<1>7. CASE stack' # fs
  <2>1. PICK f \in Frames : /\ stack' = fs \o <<f>> /\ <<"conf", f.fn>> \in Calls
                            /\ f.fn = "choice" => Shows(f) /\ kconfig' = kconfig /\ now' = now
    BY <1>7 DEF fs
  <2>2. NoChoice(fs) => AllShow(fs)
    BY DEF NoChoice, AllShow, Shows
  <2>3. \/ NoChoice(fs) /\ f.fn # "choice"
        \/ AllShow(fs) /\ Shows(f) /\ kconfig' = kconfig /\ now' = now
    BY <1>3, <2>1, <2>2
  <2>4. <<Last(fs).fn, f.fn>> \in Calls
    BY <1>3, <2>1
  <2> QED
    BY <1>3, <1>4, <2>1, <2>3, <2>4, Pushes
<1> QED
  BY <1>6, <1>7

\* To show a box marks no string.
LEMMA LookedIn ==
  ASSUME NEW f \in Frames
  PROVE  Looked(f) \subseteq Bools
<1>0. f.menu \in Entries /\ f.fn \in Fns
  BY DEF Frames
<1>1. \A e \in Entries : Marked(e, now) \subseteq Bools
  BY MarkedHidden
<1>2. MarkedBy(f.menu, f.menu) \subseteq Bools
  BY <1>0, MarkedByIn
<1>3. UNION {Marked(e, now) : e \in ToSet(Children[f.menu])} \subseteq Bools
  BY <1>0, <1>1, ChildIn
<1> DEFINE found == UNION {ToSet(PromptsOf[s]) : s \in ToSet(Matches[f.find])}
           seen == UNION {Asked(x) : x \in found}
           marks == UNION {Marked(e, now) : e \in seen}
<1>4. marks \subseteq Bools
  <2>1. \A x \in Entries : ToSet(Above(x)) \subseteq Entries
    <3> TAKE x \in Entries
    <3> DEFINE w == Above(x)
    <3>1. w \in Seq(Entries \ {Root})
      BY AboveIn
    <3> HIDE DEF w
    <3>2. \A i \in DOMAIN w : w[i] \in Entries
      BY <3>1
    <3> QED
      BY <3>2 DEF ToSet, w
  <2>2. \A x \in Entries : Asked(x) \subseteq Entries
    BY <2>1 DEF Asked
  <2>3. found \subseteq Entries
    <3>1. \A s \in ToSet(Matches[f.find]) : s \in Symbols
      <4> DEFINE syms == Matches[f.find]
      <4>1. syms \in Seq(Symbols)
        BY BoxesAssumption DEF Frames
      <4> HIDE DEF syms
      <4>2. \A s \in ToSet(syms) : s \in Symbols
        BY <4>1 DEF ToSet
      <4> QED
        BY <4>2 DEF syms
    <3>2. \A s \in Symbols : ToSet(PromptsOf[s]) \subseteq Entries
      BY BoxesAssumption
    <3> QED
      BY <3>1, <3>2
  <2> HIDE DEF found
  <2>4. seen \subseteq Entries
    BY <2>2, <2>3
  <2> HIDE DEF seen
  <2> QED
    BY <1>1, <2>4
<1>5. f.fn = "results" => Looked(f) = marks
  BY DEF Looked
<1> HIDE DEF marks
<1>6. f.fn = "conf" => Looked(f) = MarkedBy(f.menu, f.menu)
  BY DEF Looked
<1>7. f.fn = "choice" => Looked(f) = UNION {Marked(e, now) : e \in ToSet(Children[f.menu])}
  BY DEF Looked
<1>8. f.fn \notin {"conf", "choice", "results"} => Looked(f) = {}
  BY DEF Looked
<1> QED
  BY <1>2, <1>3, <1>4, <1>5, <1>6, <1>7, <1>8

LEMMA StartStep == ASSUME MInv, Start PROVE MInv'
<1>0. kconfig \in Kconfigs /\ DataInv /\ name' = DotConfig /\ DotConfig \in Texts
  BY TextsAssumption DEF MInv, DataInv, Known, Start
<1> DEFINE r == ReadDot
<1>1. UserOk(r.user) /\ NowOk(r.now)
  <2>1. CASE dot = Missing
    <3>1. r.user = Blank /\ r.now = Calculate(kconfig, Blank)
      BY <2>1 DEF ReadDot
    <3> QED
      BY <1>0, <3>1, BlankIn, CalculateIn
  <2>2. CASE dot # Missing
    <3>1. r = Read(kconfig, dot) /\ TextsIn(dot)
      BY <1>0, <2>2 DEF ReadDot, DataInv
    <3> QED
      BY <1>0, <3>1, ReadIn
  <2> QED
    BY <2>1, <2>2
<1>2. /\ user' = r.user /\ now' = r.now /\ kconfig' = kconfig /\ UNCHANGED <<out, dot, alt, lines>>
      /\ pc' = "edit" /\ prog' = "mconf"
  BY DEF Start, Menuconfig, Load, files
<1> HIDE DEF r
<1>3. DataInv'
  BY <1>0, <1>1, <1>2 DEF DataInv, Known
<1> DEFINE f == Call("conf", Root)
           fs == <<f>>
<1>4. f \in Frames /\ f.fn = "conf"
  BY CallIn, TreeAssumption DEF Fns
<1>5. stack' = fs /\ box' = Closed
  BY DEF Start
<1>6. fs \in Seq(Frames) /\ Len(fs) = 1 /\ fs[1] = f /\ fs # <<>>
  <2> HIDE DEF f
  <2> QED
    BY <1>4
<1> HIDE DEF fs
<1>7. Stacks(fs) /\ NoChoice(fs)
  BY <1>4, <1>6 DEF Stacks, NoChoice
<1> QED
  BY <1>2, <1>3, <1>5, <1>7, Goes

LEMMA OpenStep == ASSUME MInv, Open PROVE MInv' /\ user'.val = user.val
<1>0. CallsInv /\ DataInv /\ pc = "edit" /\ UNCHANGED <<kconfig, pc, prog, now, out, dot, stack, name, alt, lines>>
      /\ box' = BoxOf(Top)
  BY DEF MInv, Open, files
<1>1. Top \in Frames /\ Stacks(stack) /\ AllShow(stack) /\ prog = "mconf"
  BY <1>0, AtTop
<1>2. Shows(Top)
  <2>1. Top = stack[Len(stack)] /\ Len(stack) \in Nat /\ Len(stack) # 0
    BY <1>1, StackIs DEF Top
  <2> QED
    BY <1>1, <2>1 DEF AllShow
<1>3. user' = [user EXCEPT !.has = @ \cup Looked(Top)] /\ UserOk(user)
  BY <1>0 DEF Open, DataInv
<1>4. UserOk(user') /\ user'.val = user.val
  <2> DEFINE S == Looked(Top)
  <2>1. S \in SUBSET Bools
    BY <1>1, LookedIn
  <2> HIDE DEF S
  <2>2. UserOk([user EXCEPT !.has = @ \cup S]) /\ [user EXCEPT !.has = @ \cup S].val = user.val
    BY <1>3, <2>1, MarksIn
  <2> QED
    BY <1>3, <2>2 DEF S
<1>5. DataInv'
  BY <1>0, <1>4 DEF DataInv, Known
<1>6. Opened(BoxOf(Top), Top)
  BY <1>0, <1>1, <1>2, BoxOpens DEF DataInv
<1>7. BoxOk(box', Top)
  BY <1>0, <1>6 DEF Opened
<1>8. BoxOk(box, Top)'
  <2>1. Top' = Top
    BY <1>0 DEF Top
  <2> QED
    BY <1>7, <2>1
<1>9. AllShow(stack)'
  BY <1>0, <1>1, ShowsSame DEF AllShow
<1> QED
  BY <1>0, <1>1, <1>4, <1>5, <1>8, <1>9 DEF MInv, CallsInv

\* A box that goes on reading keys, or returns.
LEMMA BoxStep ==
  ASSUME MInv, DataInv', pc = "edit", UNCHANGED <<kconfig, pc, prog, now, stack>>, BoxOk(box', Top)
  PROVE  MInv'
<1>1. Stacks(stack) /\ AllShow(stack) /\ prog = "mconf"
  BY AtTop DEF MInv
<1>2. Top' = Top
  BY DEF Top
<1>3. AllShow(stack)'
  BY <1>1, ShowsSame DEF AllShow
<1>4. BoxOk(box, Top)'
  BY <1>2
<1> QED
  BY <1>1, <1>3, <1>4 DEF MInv, CallsInv

LEMMA KeyStep == ASSUME MInv, NEW key, Key(key) PROVE MInv' /\ user' = user
<1>0. /\ CallsInv /\ DataInv /\ pc = "edit" /\ box.res = "wait" /\ box' = BoxKey(box, key)
      /\ UNCHANGED <<kconfig, pc, prog, user, now, out, dot, stack, name, alt, lines>>
  BY DEF MInv, Key, vars, files
<1>1. box # Closed
  BY <1>0 DEF Closed
<1>2. Top \in Frames /\ BoxOk(box, Top)
  BY <1>0, <1>1, AtTop
<1>3. BoxOk(box', Top)
  BY <1>0, <1>2, BoxPressed
<1> QED
  BY <1>0, <1>3, BoxStep, DataSame

LEMMA ResizeStep == ASSUME MInv, Resize PROVE MInv' /\ user' = user
<1>0. /\ CallsInv /\ DataInv /\ pc = "edit" /\ box.res = "wait" /\ lines' \in Terminals
      /\ UNCHANGED <<kconfig, pc, prog, user, now, out, dot, stack, name, alt>>
  BY DEF MInv, Resize, vars, files
<1>1. box # Closed
  BY <1>0 DEF Closed
<1>2. Top \in Frames /\ BoxOk(box, Top)
  BY <1>0, <1>1, AtTop
<1> DEFINE n == lines'
<1>3. box' = Resized(box, Top, n)
  BY DEF Resize, Resized, Small
<1>4. n \in Nat
  BY <1>0, BoxesAssumption
<1> HIDE DEF n
<1>5. BoxOk(box', Top)
  BY <1>0, <1>2, <1>3, <1>4, BoxResized
<1>6. DataInv'
  BY <1>0 DEF DataInv, Known
<1> QED
  BY <1>0, <1>5, <1>6, BoxStep

LEMMA ConfSelectStep == ASSUME MInv, ConfSelect PROVE MInv'
<1> DEFINE res == {"select"}
<1>0. Handling({"conf"}, res) /\ res \cap {"none", "wait", "esc", "crash", "small"} = {} /\ "none" \notin res
  BY DEF ConfSelect
<1> HIDE DEF res
<1>1. CallsInv /\ DataInv /\ pc = "edit" /\ BoxOk(box, Top) /\ Top \in Frames /\ Top.fn = "conf" /\ box.res \in res
  BY <1>0, Handles
<1>2. MenuOk(box) /\ box.res \notin {"wait", "esc", "crash"}
  BY <1>0, <1>1, Kinds
<1>3. UNCHANGED <<kconfig, pc, prog, user, now, out, dot, name, lines, alt>> /\ box' = Closed
  BY DEF ConfSelect, Unchanged, vars, files, Continue
<1>4. DataInv'
  BY <1>1, <1>3, DataSame
<1>5. \/ stack' = Resumed
      \/ \E f \in Frames : /\ stack' = Resumed \o <<f>> /\ <<"conf", f.fn>> \in Calls
                           /\ f.fn = "choice" => Shows(f) /\ kconfig' = kconfig /\ now' = now
  <2>1. CASE Count(box) = 0
    BY <2>1 DEF ConfSelect, Continue
  <2>2. CASE Count(box) # 0
    <3> DEFINE e == Here.data
               choice == Here.tag = "t" /\ Kind[e] = "choice" /\ IsYes(e, now)
               conf == Here.tag = "m" \/ (Here.tag = "t" /\ Kind[e] = "menuconfig")
               a == now.cur[SymOf[e]]
               called == [Call("choice", e) EXCEPT !.active = a]
    <3>1. e \in Entries /\ (Here.tag = "s" => SymOf[e] \in Strings)
      BY <1>2, <2>2, HereInMenu DEF Items
    <3>2. stack' = Resumed \o CASE conf -> <<Call("conf", e)>>
                                [] choice -> <<called>>
                                [] Here.tag = "s" -> <<Call("string", e)>>
                                [] OTHER -> <<>>
      BY <2>2 DEF ConfSelect, Continue, Show
    <3>3. choice => a \in All /\ (\E c \in ToSet(Children[e]) : Visible(c, now)) /\ Kind[e] = "choice"
      <4> SUFFICES ASSUME choice PROVE a \in All /\ \E c \in ToSet(Children[e]) : Visible(c, now)
        BY Zenon
      <4>1. ChoicesMade(now)
        BY <1>1 DEF DataInv, NowOk
      <4>2. SymOf[e] \in ChoiceSyms /\ a # None
        BY <3>1, ChoiceAssumption DEF IsYes
      <4>3. a \in Members(SymOf[e])
        BY <4>1, <4>2 DEF ChoicesMade
      <4>4. a \in All
        BY <4>2, <4>3, MembersAre DEF All, Symbols
      <4>5. \E c \in ToSet(Children[e]) : Visible(c, now)
        BY <3>1, <4>1, ChoiceShown
      <4> QED
        BY <4>4, <4>5
    <3>8. ~(conf /\ choice) /\ (Here.tag = "s" => ~conf /\ ~choice)
      OBVIOUS
    <3> HIDE DEF e, a
    <3>4. CASE conf
      <4>1. stack' = Resumed \o <<Call("conf", e)>>
        <5> HIDE DEF conf, choice, called
        <5> QED
          BY <3>2, <3>4, <3>8
      <4>2. Call("conf", e) \in Frames /\ Call("conf", e).fn = "conf"
        BY <3>1, CallIn DEF Fns
      <4>3. <<"conf", "conf">> \in Calls
        BY DEF Calls
      <4> QED
        BY <4>1, <4>2, <4>3
    <3>5. CASE ~conf /\ choice
      <4>1. stack' = Resumed \o <<called>>
        <5> HIDE DEF conf, choice, called
        <5> QED
          BY <3>2, <3>5, <3>8
      <4>2. called \in Frames /\ called.fn = "choice" /\ called.menu = e
        <5>1. \A x \in Entries \cup All \cup {Nobody, None} :
                  LET f == [Call("choice", e) EXCEPT !.active = x] IN f \in Frames /\ f.fn = "choice" /\ f.menu = e
          <6>1. "choice" \in Fns /\ Kind[e] = "choice"
            BY <3>3, <3>5 DEF Fns
          <6> QED
            BY <3>1, <6>1, CallIn
        <5> QED
          BY <3>3, <3>5, <5>1
      <4>3. <<"conf", "choice">> \in Calls
        BY DEF Calls
      <4>4. Shows(called)
        BY <3>3, <3>5, <4>2 DEF Shows
      <4> HIDE DEF called
      <4> QED
        BY <1>3, <4>1, <4>2, <4>3, <4>4
    <3>6. CASE ~conf /\ ~choice /\ Here.tag = "s"
      <4>1. stack' = Resumed \o <<Call("string", e)>>
        <5> HIDE DEF conf, choice, called
        <5> QED
          BY <3>2, <3>6
      <4>2. Call("string", e) \in Frames /\ Call("string", e).fn = "string"
        BY <3>1, <3>6, CallIn DEF Fns
      <4>3. <<"conf", "string">> \in Calls
        BY DEF Calls
      <4> QED
        BY <4>1, <4>2, <4>3
    <3>7. CASE ~conf /\ ~choice /\ Here.tag # "s"
      <4>1. stack' = Resumed \o <<>>
        <5> HIDE DEF conf, choice, called
        <5> QED
          BY <3>2, <3>7
      <4> QED
        BY <1>1, <1>2, <4>1, ResumedOk
    <3> QED
      <4> HIDE DEF conf, choice
      <4> QED
        BY <3>4, <3>5, <3>6, <3>7
  <2> QED
    BY <2>1, <2>2
<1> QED
  BY <1>0, <1>1, <1>3, <1>4, <1>5, ConfGoes

LEMMA ConfCallStep == ASSUME MInv, ConfCall PROVE MInv'
<1> DEFINE res == {"help", "save", "load", "search"}
<1>0. Handling({"conf"}, res) /\ res \cap {"none", "wait", "esc", "crash", "small"} = {} /\ "none" \notin res
  BY DEF ConfCall
<1>1. CallsInv /\ DataInv /\ pc = "edit" /\ BoxOk(box, Top) /\ Top \in Frames /\ Top.fn = "conf" /\ box.res \in res
  BY <1>0, Handles
<1>2. MenuOk(box) /\ box.res \notin {"wait", "esc", "crash"} /\ box.res \in Fns /\ <<"conf", box.res>> \in Calls
      /\ box.res \notin {"string", "choice"}
  BY <1>0, <1>1, Kinds DEF Fns, Calls
<1> HIDE DEF res
<1>3. UNCHANGED <<kconfig, pc, prog, user, now, out, dot, name, lines, alt>> /\ box' = Closed
  BY DEF ConfCall, Unchanged, vars, files, Continue
<1>4. DataInv'
  BY <1>1, <1>3, DataSame
<1> DEFINE e == IF Count(box) = 0 \/ SymOf[Here.data] = Nobody THEN Root ELSE Here.data
           fn == box.res
<1>5. stack' = Resumed \o <<Call(fn, e)>>
  BY DEF ConfCall, Continue, Show
<1>6. e \in Entries
  <2>1. Count(box) # 0 => Here.data \in Entries
    BY <1>2, HereInMenu DEF Items
  <2> QED
    BY <2>1, TreeAssumption
<1> HIDE DEF e, fn
<1>7. fn \in Fns /\ <<"conf", fn>> \in Calls /\ fn \notin {"string", "choice"}
  BY <1>2 DEF fn
<1>8. Call(fn, e) \in Frames /\ Call(fn, e).fn = fn
  BY <1>6, <1>7, CallIn
<1>9. \E f \in Frames : /\ stack' = Resumed \o <<f>> /\ <<"conf", f.fn>> \in Calls
                        /\ f.fn = "choice" => Shows(f) /\ kconfig' = kconfig /\ now' = now
  <2> DEFINE f == Call(fn, e)
  <2>1. stack' = Resumed \o <<f>> /\ f \in Frames /\ f.fn = fn
    BY <1>5, <1>8
  <2> HIDE DEF f
  <2> QED
    BY <1>7, <2>1
<1> QED
  BY <1>0, <1>1, <1>3, <1>4, <1>9, ConfGoes

LEMMA ConfShowAllStep == ASSUME MInv, ConfShowAll PROVE MInv'
<1> DEFINE res == {"all"}
<1>0. Handling({"conf"}, res) /\ res \cap {"none", "wait", "esc", "crash", "small"} = {} /\ DataInv
  BY DEF ConfShowAll, MInv
<1>1. pc = "edit" /\ UNCHANGED <<kconfig, pc, prog, user, now, out, dot, name, lines, alt>> /\ box' = Closed /\ stack' = Resumed
  BY DEF ConfShowAll, Handling, vars, files, Continue
<1> HIDE DEF res
<1>2. DataInv'
  BY <1>0, <1>1, DataSame
<1> QED
  BY <1>0, <1>1, <1>2, ConfGoes

\* An answer changes no other value, ...
OnlyOf(s) == \A t \in Symbols : user'.val[t] # user.val[t] => t = s
OnlyShown ==
    user'.val # user.val /\ pc' = pc /\ Top.fn # "load" =>
        \A s \in Symbols : user'.val[s] # user.val[s] =>
            \/ Listing /\ \E e \in Highlighted : SymOf[e] = s
            \/ Redrawn
            \/ Top.fn = "string" /\ SymOf[Top.menu] = s /\ user'.val[s] = box.text

LEMMA SetIs ==
  ASSUME DataInv, NEW s \in Bools, NEW v, SetBool(s, v)
  PROVE  UserOk(user') /\ NowOk(now') /\ OnlyOf(s) /\ UNCHANGED <<kconfig, pc, prog, out, dot>>
<1>1. UserOk(Answered(user, s, v)) /\ kconfig \in Kconfigs /\ UserOk(user) /\ NowOk(now)
  BY BoolIn DEF DataInv, Known
<1>2. PICK new : Clear(Answered(user, s, v), new)
  BY DEF SetBool
<1>3. UserOk(user') /\ NowOk(now')
  BY <1>1, <1>2, AnswerIn
<1>4. user'.val = [user.val EXCEPT ![s] = v]
  BY <1>2 DEF Clear, Answered
<1>5. OnlyOf(s)
  BY <1>1, <1>4 DEF OnlyOf, UserOk, IsAnswers
<1> QED
  BY <1>3, <1>5 DEF SetBool, Edit, files

LEMMA TryIs ==
  ASSUME DataInv, NEW s \in Bools, NEW v, Try(s, v)
  PROVE  UserOk(user') /\ NowOk(now') /\ OnlyOf(s) /\ UNCHANGED <<kconfig, pc, prog, out, dot>>
<1>1. CASE Accepts(s, v)
  BY <1>1, SetIs DEF Try
<1>2. CASE ~Accepts(s, v)
  BY <1>2 DEF Try, DataInv, OnlyOf, vars, files
<1> QED
  BY <1>1, <1>2

\* ... and that is the one on the row highlighted.
LEMMA RowLit ==
  ASSUME NEW i \in 0 .. box.max - 1, box.screen[i] = box.at, i \in box.lit
  PROVE  Here.data \in Highlighted
BY DEF Here, Highlighted

LEMMA HereIsLit ==
  ASSUME box.kind \in {"menu", "list"}, box.res \notin {"wait", "esc", "crash", "small", "none"},
         \/ MenuOk(box) /\ Count(box) # 0 /\ ~box.redrawn
         \/ ListOk(box) /\ box.items \in Seq(ValueItems)
  PROVE  Listing /\ Here.data \in Highlighted
<1>1. Listing
  BY DEF Listing
<1>2. /\ box.at = box.scroll + box.choice /\ box.choice \in 0 .. box.max - 1 /\ box.lit = {box.choice}
      /\ box.screen[box.choice] = box.scroll + box.choice
  <2>1. CASE MenuOk(box) /\ Count(box) # 0 /\ ~box.redrawn
    <3>1. box.at = box.scroll + box.choice /\ box.choice \in 0 .. box.max - 1
      BY <2>1, HereInMenu
    <3>2. Clean(box, {box.choice})
      BY <2>1 DEF MenuOk
    <3> QED
      BY <3>1, <3>2 DEF Clean
  <2>2. CASE ListOk(box) /\ box.items \in Seq(ValueItems)
    <3>1. box.at = box.scroll + box.choice /\ box.choice \in 0 .. box.max - 1
      BY <2>2, HereInList
    <3>2. Clean(box, {box.choice})
      BY <2>2 DEF ListOk
    <3> QED
      BY <3>1, <3>2 DEF Clean
  <2> QED
    BY <2>1, <2>2
<1>3. box.choice \in box.lit /\ box.screen[box.choice] = box.at
  BY <1>2
<1> QED
  BY <1>1, <1>2, <1>3, RowLit

LEMMA MenuAnswered ==
  ASSUME MInv, NEW res, Handling({"conf"}, res), res \cap {"none", "wait", "esc", "crash", "small"} = {},
         NEW s \in Settable, OnlyOf(s)
  PROVE  OnlyShown
<1>1. CallsInv /\ BoxOk(box, Top) /\ Top \in Frames /\ Top.fn = "conf" /\ box.res \in res
  BY Handles
<1>2. MenuOk(box) /\ box.kind = "menu" /\ box.res \notin {"wait", "esc", "crash", "small", "none"}
  BY <1>1, Kinds
<1>3. Count(box) # 0 /\ s = SymOf[Here.data]
  BY DEF Settable
<1>4. ~box.redrawn => Listing /\ Here.data \in Highlighted
  BY <1>2, <1>3, HereIsLit
<1>5. box.redrawn => Redrawn
  BY <1>2 DEF Redrawn
<1> QED
  BY <1>3, <1>4, <1>5 DEF OnlyShown, OnlyOf

LEMMA ConfSetStep == ASSUME MInv, ConfSet PROVE MInv' /\ OnlyShown
<1> DEFINE res == {"yes", "no", "mod"}
<1>0. Handling({"conf"}, res) /\ res \cap {"none", "wait", "esc", "crash", "small"} = {} /\ DataInv
  BY DEF ConfSet, MInv
<1> HIDE DEF res
<1>1. pc = "edit" /\ box' = Closed /\ stack' = Resumed /\ UNCHANGED <<name, alt, lines>>
  BY DEF ConfSet, Handling, Continue
<1>2. UserOk(user') /\ NowOk(now') /\ UNCHANGED <<kconfig, pc, prog, out, dot>> /\ OnlyShown
  <2>1. CASE Settable = {} \/ box.res = "mod"
    BY <1>0, <2>1 DEF ConfSet, vars, files, DataInv, OnlyShown
  <2>2. CASE ~(Settable = {} \/ box.res = "mod")
    <3>1. PICK s \in Settable : Try(s, IF box.res = "yes" THEN "y" ELSE "n")
      BY <2>2 DEF ConfSet
    <3>2. s \in Bools
      BY DEF Settable
    <3> QED
      BY <1>0, <3>1, <3>2, TryIs, MenuAnswered
  <2> QED
    BY <2>1, <2>2
<1>3. DataInv'
  BY <1>0, <1>1, <1>2, ValuesNew
<1> QED
  BY <1>0, <1>1, <1>2, <1>3, ConfGoes

LEMMA ConfToggleStep == ASSUME MInv, ConfToggle PROVE MInv' /\ OnlyShown
<1> DEFINE res == {"toggle"}
<1>0. Handling({"conf"}, res) /\ res \cap {"none", "wait", "esc", "crash", "small"} = {} /\ DataInv /\ "none" \notin res
  BY DEF ConfToggle, MInv
<1> HIDE DEF res
<1>1. pc = "edit" /\ box' = Closed /\ UNCHANGED <<name, alt, lines>>
  BY DEF ConfToggle, Handling, Continue
<1>2. UserOk(user') /\ NowOk(now') /\ UNCHANGED <<kconfig, pc, prog, out, dot>> /\ OnlyShown
  <2>1. CASE Settable = {}
    BY <1>0, <2>1 DEF ConfToggle, vars, files, DataInv, OnlyShown
  <2>2. CASE Settable # {}
    <3>1. PICK s \in Settable : \E v : SetBool(s, v)
      BY <2>2 DEF ConfToggle
    <3>2. s \in Bools
      BY DEF Settable
    <3> QED
      BY <1>0, <3>1, <3>2, SetIs, MenuAnswered
  <2> QED
    BY <2>1, <2>2
<1>3. DataInv'
  BY <1>0, <1>1, <1>2, ValuesNew
<1>4. CallsInv /\ BoxOk(box, Top) /\ Top \in Frames /\ Top.fn = "conf" /\ box.res \in res
  BY <1>0, Handles
<1>5. MenuOk(box) /\ box.res \notin {"wait", "esc", "crash"}
  BY <1>0, <1>4, Kinds
<1>6. \/ stack' = Resumed
      \/ \E f \in Frames : /\ stack' = Resumed \o <<f>> /\ <<"conf", f.fn>> \in Calls
                           /\ f.fn = "choice" => Shows(f) /\ kconfig' = kconfig /\ now' = now
  <2>1. stack' = Resumed \o IF Count(box) # 0 /\ Here.tag = "m" THEN <<Call("conf", Here.data)>> ELSE <<>>
    BY DEF ConfToggle, Continue, Show
  <2>2. CASE Count(box) # 0 /\ Here.tag = "m"
    <3> DEFINE f == Call("conf", Here.data)
    <3>1. Here.data \in Entries
      BY <1>5, <2>2, HereInMenu DEF Items
    <3>2. f \in Frames /\ f.fn = "conf"
      BY <3>1, CallIn DEF Fns
    <3>3. stack' = Resumed \o <<f>>
      BY <2>1, <2>2
    <3> HIDE DEF f
    <3>4. <<"conf", "conf">> \in Calls
      BY DEF Calls
    <3> QED
      BY <3>2, <3>3, <3>4
  <2>3. CASE ~(Count(box) # 0 /\ Here.tag = "m")
    BY <1>1, <1>4, <1>5, <2>1, <2>3, ResumedOk
  <2> QED
    BY <2>2, <2>3
<1> QED
  BY <1>0, <1>1, <1>2, <1>3, <1>6, ConfGoes

LEMMA ReturnStep == ASSUME MInv, Return PROVE MInv'
<1>0. CallsInv /\ DataInv /\ pc = "edit" /\ Top.fn \in Fns \ {"exit"} /\ (Top.fn = "conf" => Len(stack) > 1)
  BY DEF Return, Handling, MInv, Fns
<1>1. UNCHANGED <<kconfig, pc, prog, user, now, out, dot, name, lines, alt>> /\ box' = Closed /\ stack' = Front(stack)
  BY DEF Return, Continue, Unchanged, vars, files
<1>2. Len(stack) > 1
  BY <1>0, AtTop
<1>3. DataInv'
  BY <1>0, <1>1, DataSame
<1> QED
  BY <1>0, <1>1, <1>2, <1>3, Pops

LEMMA AgainStep == ASSUME MInv, Again PROVE MInv'
<1>0. CallsInv /\ DataInv /\ pc = "edit"
  BY DEF Again, Handling, MInv
<1>1. UNCHANGED <<kconfig, pc, prog, user, now, out, dot, name, lines, alt>> /\ box' = Closed /\ stack' = stack
  BY DEF Again, Continue, Unchanged, vars, files
<1>3. DataInv'
  BY <1>0, <1>1, DataSame
<1> QED
  BY <1>0, <1>1, <1>3, Stays

LEMMA BoxHelpStep == ASSUME MInv, BoxHelp PROVE MInv'
<1> DEFINE res == {"help"}
           fns == {"choice", "string", "load", "save", "search"}
<1>0. Handling(fns, res) /\ "none" \notin res
  BY DEF BoxHelp
<1> HIDE DEF res, fns
<1>1. CallsInv /\ DataInv /\ pc = "edit" /\ BoxOk(box, Top) /\ Top \in Frames /\ Top.fn \in fns /\ box.res \in res
  BY <1>0, Handles
<1>2. Top.fn \in {"choice", "string", "load", "save", "search"} /\ box.res \notin {"wait", "esc", "small"}
  BY <1>1 DEF fns, res
<1>3. UNCHANGED <<kconfig, pc, prog, user, now, out, dot, name, lines, alt>> /\ box' = Closed
  BY DEF BoxHelp, Continue, Unchanged, vars, files
<1>4. DataInv'
  BY <1>1, <1>3, DataSame
<1>5. Stacks(stack) /\ AllShow(stack) /\ prog = "mconf" /\ Len(stack) \in Nat
  BY <1>1, AtTop
<1>6. <<Top.fn, "help">> \in Calls
  BY <1>2 DEF Calls
<1>7. CASE Top.fn = "choice"
  <2> DEFINE f == [Top EXCEPT !.active = SymOf[Here.data]]
             fs == Append(Front(stack), f)
             h == Call("help", Here.data)
  <2>1. Here.data \in Entries /\ SymOf[Here.data] \in Bools \cup {Nobody}
    BY <1>1, <1>2, <1>7, Kinds, HereInList
  <2>2. SymOf[Here.data] \in All \cup {Nobody}
    BY <2>1 DEF All, Symbols
  <2>3. f \in Frames /\ f.fn = "choice" /\ f.menu = Top.menu
    <3> DEFINE a == SymOf[Here.data]
    <3>1. a \in All \cup {Nobody}
      BY <2>2
    <3> HIDE DEF a
    <3>2. [Top EXCEPT !.active = a] \in Frames /\ [Top EXCEPT !.active = a].fn = "choice" /\ [Top EXCEPT !.active = a].menu = Top.menu
      BY <1>1, <1>7, <3>1 DEF Frames
    <3> QED
      BY <3>2 DEF a
  <2>4. h \in Frames /\ h.fn = "help"
    BY <2>1, CallIn DEF Fns
  <2>5. stack' = fs \o <<h>>
    BY <1>7 DEF BoxHelp, Continue, Show
  <2> HIDE DEF h, f
  <2>6. /\ Stacks(fs) /\ Len(fs) = Len(stack) /\ Last(fs) = f /\ fs[Len(stack)] = f
        /\ \A i \in 1 .. Len(stack) - 1 : fs[i] = stack[i]
    BY <1>5, <1>7, <2>3, SetOk DEF Top
  <2> HIDE DEF fs
  <2>7. AllShow(fs)
    <3>1. Shows(f)
      <4>1. Top = stack[Len(stack)] /\ Len(stack) # 0
        BY <1>5, StackIs DEF Top
      <4>2. Shows(Top)
        BY <1>5, <4>1 DEF AllShow
      <4> QED
        BY <1>7, <2>3, <4>2 DEF Shows
    <3>2. \A i \in 1 .. Len(fs) : i = Len(stack) \/ i \in 1 .. Len(stack) - 1
      BY <1>5, <2>6
    <3> QED
      BY <1>5, <2>6, <3>1, <3>2 DEF AllShow
  <2>8. Shows(h) /\ <<Last(fs).fn, h.fn>> \in Calls
    BY <1>6, <1>7, <2>3, <2>4, <2>6 DEF Shows
  <2> QED
    BY <1>1, <1>3, <1>4, <1>5, <2>4, <2>5, <2>6, <2>7, <2>8, Pushes
<1>8. CASE Top.fn # "choice"
  <2> DEFINE h == Call("help", Top.menu)
  <2>1. h \in Frames /\ h.fn = "help"
    <3>1. Top.menu \in Entries
      BY <1>1 DEF Frames
    <3> QED
      BY <3>1, CallIn DEF Fns
  <2>2. stack' = stack \o <<h>>
    BY <1>8 DEF BoxHelp, Continue, Show
  <2> HIDE DEF h
  <2>3. Shows(h) /\ <<Last(stack).fn, h.fn>> \in Calls
    BY <1>6, <2>1 DEF Shows, Top
  <2> QED
    BY <1>1, <1>3, <1>4, <1>5, <2>1, <2>2, <2>3, Pushes
<1> QED
  BY <1>7, <1>8

LEMMA ChoiceSelectStep == ASSUME MInv, ChoiceSelect PROVE MInv' /\ OnlyShown
<1> DEFINE res == {"select"}
           fns == {"choice"}
<1>0. Handling(fns, res) /\ "none" \notin res
  BY DEF ChoiceSelect
<1>1. CallsInv /\ DataInv /\ pc = "edit" /\ BoxOk(box, Top) /\ Top \in Frames /\ Top.fn = "choice" /\ box.res = "select"
  BY <1>0, Handles
<1>2. ListOk(box) /\ box.items \in Seq(ValueItems) /\ box.kind = "list"
  BY <1>1, Kinds
<1>3. SymOf[Here.data] \in Bools \cup {Nobody} /\ Listing /\ Here.data \in Highlighted
  BY <1>1, <1>2, HereInList, HereIsLit
<1>4. box' = Closed /\ UNCHANGED <<name, alt, lines>>
  BY DEF ChoiceSelect, Continue
<1>5. CASE SymOf[Here.data] = Nobody
  <2>1. stack' = stack /\ UNCHANGED <<kconfig, pc, prog, user, now, out, dot>>
    BY <1>5 DEF ChoiceSelect, Continue, vars, files
  <2>2. DataInv' /\ OnlyShown
    BY <1>1, <1>4, <2>1, DataSame DEF OnlyShown
  <2> QED
    BY <1>1, <1>4, <2>1, <2>2, Stays
<1>6. CASE SymOf[Here.data] # Nobody
  <2> DEFINE s == SymOf[Here.data]
  <2>1. stack' = Front(stack) /\ Try(s, "y") /\ s \in Bools
    BY <1>3, <1>6 DEF ChoiceSelect, Continue
  <2>2. UserOk(user') /\ NowOk(now') /\ OnlyOf(s) /\ UNCHANGED <<kconfig, pc, prog, out, dot>>
    <3> HIDE DEF s
    <3> QED
      BY <1>1, <2>1, TryIs
  <2>3. DataInv'
    BY <1>1, <1>4, <2>2, ValuesNew
  <2>4. OnlyShown
    BY <1>3, <2>2 DEF OnlyShown, OnlyOf
  <2>5. Len(stack) > 1
    BY <1>1, AtTop
  <2> QED
    BY <1>1, <1>4, <2>1, <2>2, <2>3, <2>4, <2>5, Pops
<1> QED
  BY <1>5, <1>6

LEMMA StringSelectStep == ASSUME MInv, StringSelect PROVE MInv' /\ OnlyShown
<1> DEFINE res == {"select"}
           fns == {"string"}
<1>0. Handling(fns, res) /\ "none" \notin res
  BY DEF StringSelect
<1>1. CallsInv /\ DataInv /\ pc = "edit" /\ BoxOk(box, Top) /\ Top \in Frames /\ Top.fn = "string" /\ box.res = "select"
  BY <1>0, Handles
<1> DEFINE s == SymOf[Top.menu]
           t == box.text
<1>2. t \in Texts
  BY <1>1, Kinds DEF Fields, InputOk, Input
<1>3. s \in Strings
  BY <1>1 DEF Frames
<1>4. SetString(s, t) /\ stack' = Front(stack) /\ box' = Closed /\ UNCHANGED <<name, alt, lines>>
  BY DEF StringSelect, Continue
<1> HIDE DEF s, t
<1>5. UserOk(Entered(user, s, t)) /\ kconfig \in Kconfigs /\ UserOk(user) /\ NowOk(now)
  BY <1>1, <1>2, <1>3, TextAnswerIn DEF DataInv, Known
<1>6. PICK new : Clear(Entered(user, s, t), new)
  BY <1>4 DEF SetString
<1>7. UserOk(user') /\ NowOk(now') /\ UNCHANGED <<kconfig, pc, prog, out, dot>>
  BY <1>4, <1>5, <1>6, AnswerIn DEF SetString, Edit, files
<1>8. user'.val = [user.val EXCEPT ![s] = t] /\ s \in Symbols
  BY <1>3, <1>6 DEF Clear, Entered, Symbols
<1>9. OnlyOf(s) /\ user'.val[s] = t
  BY <1>5, <1>8 DEF OnlyOf, UserOk, IsAnswers
<1>10. OnlyShown
  BY <1>1, <1>9 DEF OnlyShown, OnlyOf, s, t
<1>11. DataInv' /\ Len(stack) > 1
  BY <1>1, <1>4, <1>7, ValuesNew, AtTop
<1> QED
  BY <1>1, <1>4, <1>7, <1>10, <1>11, Pops

LEMMA SearchSelectStep == ASSUME MInv, SearchSelect PROVE MInv'
<1> DEFINE res == {"select"}
           fns == {"search"}
<1>0. Handling(fns, res) /\ "none" \notin res
  BY DEF SearchSelect
<1>1. CallsInv /\ DataInv /\ pc = "edit" /\ BoxOk(box, Top) /\ Top \in Frames /\ Top.fn = "search" /\ box.res = "select"
  BY <1>0, Handles
<1> DEFINE t == box.text
           c == Call("results", Root)
           f == [c EXCEPT !.find = t]
           fs == Append(Front(stack), f)
<1>2. t \in Texts
  BY <1>1, Kinds DEF Fields, InputOk, Input
<1>3. stack' = fs /\ UNCHANGED <<kconfig, pc, prog, user, now, out, dot, name, lines, alt>> /\ box' = Closed
  BY DEF SearchSelect, Continue, Unchanged, vars, files
<1>4. c \in Frames /\ c.fn = "results"
  BY CallIn, TreeAssumption DEF Fns
<1> HIDE DEF c, t
<1>5. f \in Frames /\ f.fn = "results"
  BY <1>2, <1>4 DEF Frames
<1> HIDE DEF f
<1>6. Stacks(stack) /\ AllShow(stack) /\ prog = "mconf" /\ Len(stack) \in Nat
  BY <1>1, AtTop
<1>7. Stacks(fs) /\ Len(fs) = Len(stack) /\ fs[Len(stack)] = f /\ \A i \in 1 .. Len(stack) - 1 : fs[i] = stack[i]
  BY <1>1, <1>5, <1>6, SetOk DEF Top
<1> HIDE DEF fs
<1>8. NoChoice(stack)
  BY <1>1, AtTop
<1>9. NoChoice(fs)
  BY <1>5, <1>6, <1>7, <1>8 DEF NoChoice
<1>10. DataInv'
  BY <1>1, <1>3, DataSame
<1> QED
  BY <1>1, <1>3, <1>6, <1>7, <1>9, <1>10, Goes

LEMMA JumpStep == ASSUME MInv, Jump PROVE MInv'
<1> DEFINE res == {"jump"}
           fns == {"results"}
<1>0. Handling(fns, res) /\ "none" \notin res
  BY DEF Jump
<1>1. CallsInv /\ DataInv /\ pc = "edit" /\ BoxOk(box, Top) /\ Top \in Frames /\ Top.fn = "results" /\ box.res = "jump"
  BY <1>0, Handles
<1> DEFINE j == box.keys[box.at]
           f == [Top EXCEPT !.vscroll = box.pos, !.hscroll = box.hscroll]
           fs == Append(Front(stack), f)
           g == JumpTo(j)
<1>2. j \in Jumps /\ box.pos \in Nat /\ box.hscroll \in Nat
  <2>1. TextOk(box)
    BY <1>1, Kinds DEF Readers
  <2> QED
    BY <1>1, <2>1 DEF TextOk, TextBox
<1>3. stack' = Front(stack) \o <<f, g>> /\ UNCHANGED <<kconfig, pc, prog, user, now, out, dot, name, lines, alt>> /\ box' = Closed
  BY DEF Jump, Continue, Unchanged, vars, files
<1>4. f \in Frames /\ f.fn = "results"
  BY <1>1, <1>2 DEF Frames
<1> HIDE DEF f
<1>5. Stacks(stack) /\ prog = "mconf" /\ Len(stack) \in Nat /\ Len(stack) > 1
  BY <1>1, AtTop
<1>6. Stacks(fs) /\ Len(fs) = Len(stack) /\ Last(fs) = f /\ fs[Len(stack)] = f /\ \A i \in 1 .. Len(stack) - 1 : fs[i] = stack[i]
  <2>1. Stacks(stack) /\ f \in Frames /\ f.fn = Last(stack).fn
    BY <1>1, <1>4, <1>5 DEF Top
  <2> QED
    BY <2>1, SetOk
<1>7. g \in Frames /\ g.fn = "conf"
  <2> DEFINE t == j.target
             p == ParentOf(t)
  <2>1. t \in Entries /\ p \in Entries
    BY <1>2, ParentIn DEF Jumps
  <2>2. g = [Call("conf", p) EXCEPT !.active = t]
    BY DEF JumpTo
  <2> HIDE DEF g, p, t
  <2>3. t \in Entries \cup All \cup {Nobody, None} /\ "conf" \in Fns
    BY <2>1 DEF Fns
  <2> QED
    BY <2>1, <2>2, <2>3, CallIn
<1> HIDE DEF g
<1>8. stack' = fs \o <<g>>
  <2>1. Front(stack) \in Seq(Frames)
    BY <1>5, PopOk DEF Stacks
  <2> DEFINE w == Front(stack)
  <2>2. w \in Seq(Frames)
    BY <2>1
  <2> HIDE DEF w
  <2>3. w \o <<f, g>> = Append(w, f) \o <<g>>
    BY <1>4, <1>7, <2>2
  <2> QED
    BY <1>3, <2>3 DEF w
<1> HIDE DEF fs
<1>9. NoChoice(stack)
  BY <1>1, AtTop
<1>10. NoChoice(fs)
  BY <1>4, <1>5, <1>6, <1>9 DEF NoChoice
<1>11. DataInv'
  BY <1>1, <1>3, DataSame
<1>12. <<Last(fs).fn, g.fn>> \in Calls
  BY <1>4, <1>6, <1>7 DEF Calls
<1> QED
  BY <1>1, <1>3, <1>5, <1>6, <1>7, <1>8, <1>10, <1>11, <1>12, Pushes

\* What is not said to be there is no file that is read.
LEMMA FileIn ==
  ASSUME DataInv, NEW n, FileAt(n) # Missing
  PROVE  TextsIn(FileAt(n))
BY DEF DataInv, FileAt

LEMMA SaysSo ==
  ASSUME CallsInv, DataInv', pc # "idle", pc' = "edit", prog' = prog, box' = Closed, Top.fn \in {"load", "save"},
         stack' = stack \o Show("message", Root)
  PROVE  MInv'
<1> DEFINE f == Call("message", Root)
           fs == stack
<1>1. Stacks(fs) /\ NoChoice(fs) /\ prog = "mconf"
  BY AtTop
<1>2. f \in Frames /\ f.fn = "message"
  BY CallIn, TreeAssumption DEF Fns
<1>3. stack' = fs \o <<f>>
  BY DEF Show
<1>4. <<Last(fs).fn, f.fn>> \in Calls
  BY <1>2 DEF Calls, Top
<1> HIDE DEF f, fs
<1> QED
  BY <1>1, <1>2, <1>3, <1>4, Pushes

LEMMA TellsSo ==
  ASSUME CallsInv, DataInv', pc # "idle", pc' = "edit", prog' = prog, box' = Closed, Top.fn = "save",
         stack' = Told(Front(stack))
  PROVE  MInv'
<1> DEFINE f == Call("message", Root)
           fs == Front(stack)
<1>1. Stacks(stack) /\ prog = "mconf" /\ Len(stack) \in Nat /\ Len(stack) > 1 /\ NoChoice(Front(stack))
  <2>1. Stacks(stack) /\ prog = "mconf" /\ Len(stack) \in Nat /\ Len(stack) > 1
    BY AtTop
  <2> DEFINE n == Len(stack)
  <2>3. n \in Nat /\ n > 1
    BY <2>1
  <2> HIDE DEF n
  <2>4. n # 1
    BY <2>3
  <2>2. Len(stack) # 1
    BY <2>4 DEF n
  <2> QED
    BY <2>1, <2>2, AtTop
<1>2. Stacks(fs) /\ Len(fs) = Len(stack) - 1 /\ fs \in Seq(Frames) /\ \A i \in 1 .. Len(stack) - 1 : fs[i] = stack[i]
  BY <1>1, PopOk DEF Stacks
<1>3. f \in Frames /\ f.fn = "message"
  BY CallIn, TreeAssumption DEF Fns
<1>4. stack' = fs \o <<f>> \/ stack' = fs
  <2>1. stack' = IF quiet THEN fs \o <<>> ELSE fs \o <<f>>
    BY DEF Told, Show
  <2> HIDE DEF fs, f
  <2>2. fs \o <<>> = fs
    BY <1>2
  <2> QED
    BY <2>1, <2>2
<1>5. <<Last(fs).fn, f.fn>> \in Calls
  <2> DEFINE i == Len(stack) - 1
  <2>1. i \in 1 .. Len(stack) - 1 /\ i + 1 = Len(stack)
    BY <1>1
  <2>2. <<stack[i].fn, stack[i + 1].fn>> \in Calls
    BY <1>1, <2>1 DEF Stacks
  <2>3. stack[i + 1].fn = "save"
    BY <1>1, <2>1, StackIs DEF Top
  <2>4. stack[i].fn = "conf"
    BY <2>2, <2>3 DEF Calls
  <2>5. Last(fs) = stack[i]
    <3>1. Last(fs) = fs[Len(fs)]
      BY <1>2, StackIs
    <3> QED
      BY <1>2, <2>1, <3>1
  <2> QED
    BY <1>3, <2>4, <2>5 DEF Calls
<1>6. NoChoice(fs)
  BY <1>1
<1> HIDE DEF f, fs
<1>7. CASE stack' = fs
  BY <1>1, <1>2, <1>6, <1>7, Goes
<1>8. CASE stack' = fs \o <<f>>
  BY <1>1, <1>2, <1>3, <1>5, <1>6, <1>8, Pushes
<1> QED
  BY <1>4, <1>7, <1>8

LEMMA LoadSelectStep == ASSUME MInv, LoadSelect PROVE MInv'
<1> DEFINE res == {"select"}
           fns == {"load"}
<1>0. Handling(fns, res) /\ "none" \notin res
  BY DEF LoadSelect
<1>1. CallsInv /\ DataInv /\ pc = "edit" /\ BoxOk(box, Top) /\ Top \in Frames /\ Top.fn = "load" /\ box.res = "select"
  BY <1>0, Handles
<1>2. box.text \in Texts
  BY <1>1, Kinds DEF Fields, InputOk, Input
<1>3. Len(stack) > 1
  BY <1>1, AtTop
<1>4. CASE box.text = ""
  <2>1. stack' = Front(stack) /\ UNCHANGED <<kconfig, pc, prog, user, now, out, dot, name, lines, alt>> /\ box' = Closed
    BY <1>4 DEF LoadSelect, Continue, files
  <2>2. DataInv'
    BY <1>1, <2>1, DataSame
  <2> QED
    BY <1>1, <1>3, <2>1, <2>2, Pops
<1>5. CASE box.text # "" /\ FileAt(box.text) = Missing
  <2>1. /\ stack' = stack \o Show("message", Root)
        /\ UNCHANGED <<kconfig, pc, prog, user, now, out, dot, name, lines, alt>> /\ box' = Closed
    BY <1>5 DEF LoadSelect, Continue, files
  <2>2. DataInv'
    BY <1>1, <2>1, DataSame
  <2> QED
    BY <1>1, <2>1, <2>2, SaysSo
<1>6. CASE box.text # "" /\ FileAt(box.text) # Missing
  <2> DEFINE file == FileAt(box.text)
             r == Read(kconfig, file)
  <2>1. /\ stack' = Front(stack) /\ box' = Closed /\ name' = box.text /\ user' = r.user /\ now' = r.now
        /\ UNCHANGED <<kconfig, pc, prog, out, dot, lines, alt>>
    BY <1>6 DEF LoadSelect, Continue, files
  <2>2. TextsIn(file) /\ kconfig \in Kconfigs
    BY <1>1, <1>6, FileIn DEF DataInv, Known
  <2> HIDE DEF file
  <2>3. UserOk(r.user) /\ NowOk(r.now)
    BY <2>2, ReadIn
  <2> HIDE DEF r
  <2>4. DataInv'
    BY <1>1, <1>2, <2>1, <2>3 DEF DataInv, Known
  <2> QED
    BY <1>1, <1>3, <2>1, <2>4, Pops
<1> QED
  BY <1>4, <1>5, <1>6

LEMMA OneOn ==
  ASSUME NEW f \in Frames, f.fn \in {"conf", "exit"}
  PROVE  Stacks(<<f>>) /\ NoChoice(<<f>>)
<1> DEFINE fs == <<f>>
<1>1. fs \in Seq(Frames) /\ Len(fs) = 1 /\ fs[1] = f /\ fs # <<>>
  OBVIOUS
<1> HIDE DEF fs
<1>2. Stacks(fs) /\ NoChoice(fs)
  BY <1>1 DEF Stacks, NoChoice
<1> QED
  BY <1>2 DEF fs

LEMMA WriteIn ==
  ASSUME DataInv, Write, UNCHANGED <<name, lines, alt>>
  PROVE  DataInv' /\ pc' = "written" /\ prog' = prog
<1>1. kconfig \in Kconfigs /\ UserOk(user) /\ NowOk(now)
  BY DEF DataInv, Known
<1>2. NowOk(now') /\ TextsIn(out') /\ UNCHANGED <<kconfig, prog, user, dot>> /\ pc' = "written"
  BY <1>1, ToWriteIn DEF Write, files
<1> QED
  BY <1>2 DEF DataInv, Known

LEMMA AsWrittenIn ==
  ASSUME DataInv, NEW n, NEW names, alt' = [m \in names |-> IF m = n THEN Lines(ToWrite, Written(ToWrite)) ELSE alt[m]],
         names \ {n} \subseteq DOMAIN alt
  PROVE  alt' = [m \in DOMAIN alt' |-> alt'[m]] /\ \A m \in DOMAIN alt' : TextsIn(alt'[m])
<1> DEFINE file == Lines(ToWrite, Written(ToWrite))
<1>1. TextsIn(file) /\ \A m \in DOMAIN alt : TextsIn(alt[m])
  BY ToWriteIn DEF DataInv, Known
<1> HIDE DEF file
<1>2. alt' = [m \in names |-> IF m = n THEN file ELSE alt[m]]
  BY DEF file
<1> QED
  BY <1>1, <1>2

LEMMA SaveSelectStep == ASSUME MInv, SaveSelect PROVE MInv'
<1> DEFINE res == {"select"}
           fns == {"save"}
           t == box.text
<1>0. Handling(fns, res) /\ "none" \notin res
  BY DEF SaveSelect
<1>1. CallsInv /\ DataInv /\ pc = "edit" /\ BoxOk(box, Top) /\ Top \in Frames /\ Top.fn = "save" /\ box.res = "select"
  BY <1>0, Handles
<1>2. t \in Texts
  BY <1>1, Kinds DEF Fields, InputOk, Input
<1>3. Len(stack) > 1
  BY <1>1, AtTop
<1>4. \/ Continue(Front(stack)) /\ Unchanged
      \/ Write /\ Continue(stack) /\ UNCHANGED <<all, name, alt>>
      \/ WriteAs(t) /\ Continue(Told(Front(stack)))
      \/ Continue(stack \o Show("message", Root)) /\ Unchanged
  BY DEF SaveSelect
<1> HIDE DEF t
<1>5. CASE Continue(Front(stack)) /\ Unchanged
  <2>1. stack' = Front(stack) /\ UNCHANGED <<kconfig, pc, prog, user, now, out, dot, name, lines, alt>> /\ box' = Closed
    BY <1>5 DEF Continue, Unchanged, vars, files
  <2>2. DataInv'
    BY <1>1, <2>1, DataSame
  <2> QED
    BY <1>1, <1>3, <2>1, <2>2, Pops
<1>6. CASE Write /\ Continue(stack) /\ UNCHANGED <<all, name, alt>>
  <2>1. stack' = stack /\ box' = Closed /\ UNCHANGED <<name, lines, alt>>
    BY <1>6 DEF Continue
  <2>2. DataInv' /\ pc' = "written" /\ prog' = prog
    BY <1>1, <1>6, <2>1, WriteIn
  <2> QED
    BY <1>1, <2>1, <2>2, Stays
<1>7. CASE WriteAs(t) /\ Continue(Told(Front(stack)))
  <2>1. stack' = Told(Front(stack)) /\ box' = Closed /\ UNCHANGED <<kconfig, pc, prog, user, out, dot, lines>> /\ name' = t
    BY <1>7 DEF WriteAs, Continue, files
  <2>2. NowOk(now')
    BY <1>1, <1>7, ToWriteIn DEF WriteAs, DataInv, Known
  <2>3. alt' = [m \in DOMAIN alt' |-> alt'[m]] /\ \A m \in DOMAIN alt' : TextsIn(alt'[m])
    <3> DEFINE names == DOMAIN alt \cup {t}
    <3>1. alt' = [m \in names |-> IF m = t THEN Lines(ToWrite, Written(ToWrite)) ELSE alt[m]] /\ names \ {t} \subseteq DOMAIN alt
      BY <1>7 DEF WriteAs
    <3> HIDE DEF names
    <3> QED
      BY <1>1, <3>1, AsWrittenIn
  <2>4. DataInv'
    BY <1>1, <1>2, <2>1, <2>2, <2>3 DEF DataInv, Known
  <2> QED
    BY <1>1, <2>1, <2>4, TellsSo
<1>8. CASE Continue(stack \o Show("message", Root)) /\ Unchanged
  <2>1. /\ stack' = stack \o Show("message", Root)
        /\ UNCHANGED <<kconfig, pc, prog, user, now, out, dot, name, lines, alt>> /\ box' = Closed
    BY <1>8 DEF Continue, Unchanged, vars, files
  <2>2. DataInv'
    BY <1>1, <2>1, DataSame
  <2> QED
    BY <1>1, <2>1, <2>2, SaysSo
<1> QED
  BY <1>4, <1>5, <1>6, <1>7, <1>8

LEMMA RenameStep == ASSUME MInv, Rename PROVE MInv'
<1>1. /\ CallsInv /\ DataInv /\ pc = "written" /\ pc' = "moved" /\ dot' = Missing
      /\ UNCHANGED <<kconfig, prog, user, now, out, stack, box, name, alt, lines>>
  BY DEF Rename, MoveOld, ui, MInv
<1>2. box = Closed
  BY <1>1 DEF CallsInv
<1>3. DataInv'
  BY <1>1 DEF DataInv, Known
<1> QED
  BY <1>1, <1>2, <1>3, Stays

LEMMA SavedStep == ASSUME MInv, Saved PROVE MInv'
<1>1. /\ CallsInv /\ DataInv /\ pc = "moved" /\ Top.fn = "save" /\ stack' = Told(Front(stack)) /\ box' = Closed /\ name' = DotConfig
      /\ UNCHANGED <<lines, alt>>
  BY DEF Saved, MoveNew, Replace, Continue, MInv
<1>2. prog = "mconf"
  BY <1>1, AtTop
<1>3. UNCHANGED <<kconfig, prog, user, now>> /\ pc' = "edit" /\ dot' = out /\ out' = <<>>
  BY <1>2 DEF Saved, MoveNew, Replace, GoOn
<1>4. TextsIn(out')
  BY <1>3 DEF TextsIn
<1>5. DataInv'
  BY <1>1, <1>3, <1>4, TextsAssumption DEF DataInv, Known
<1> QED
  BY <1>1, <1>3, <1>5, TellsSo

LEMMA SaveFailsStep == ASSUME MInv, SaveFails PROVE MInv'
<1>1. /\ CallsInv /\ DataInv /\ pc = "moved" /\ Top.fn = "save" /\ stack' = stack \o Show("message", Root) /\ box' = Closed
      /\ UNCHANGED <<kconfig, dot, name, lines, alt>>
  BY DEF SaveFails, MoveNewFails, Continue, files, MInv
<1>2. prog = "mconf"
  BY <1>1, AtTop
<1>3. UNCHANGED <<prog, user, now>> /\ pc' = "edit" /\ out' = <<>>
  BY <1>2 DEF SaveFails, MoveNewFails
<1>4. TextsIn(out')
  BY <1>3 DEF TextsIn
<1>5. DataInv'
  BY <1>1, <1>3, <1>4 DEF DataInv, Known
<1> QED
  BY <1>1, <1>3, <1>5, SaysSo

\* The program ends: nothing is on the stack.
LEMMA EndStep ==
  ASSUME MInv, End, dot' = dot \/ dot' = out, alt' = [m \in DOMAIN alt' |-> alt'[m]], \A m \in DOMAIN alt' : TextsIn(alt'[m])
  PROVE  MInv'
<1>1. /\ DataInv /\ user' = Blank /\ now' = NotCalculated /\ out' = <<>> /\ pc' = "idle" /\ box' = Closed
      /\ name' = DotConfig /\ UNCHANGED <<kconfig, lines>>
  BY DEF End, Exit, MInv
<1>2. TextsIn(out') /\ (dot' # Missing => TextsIn(dot'))
  BY <1>1 DEF TextsIn, DataInv
<1>3. UserOk(user') /\ NowOk(now') /\ name' \in Texts
  BY <1>1, BlankIn, NotCalculatedIn, TextsAssumption
<1> QED
  BY <1>1, <1>2, <1>3 DEF MInv, DataInv, CallsInv, Known

LEMMA HandleExitStep == ASSUME MInv, HandleExit PROVE MInv'
<1>0. CallsInv /\ DataInv /\ pc = "edit"
  BY DEF MInv, HandleExit, Handling
<1>1. CASE changed
  <2> DEFINE f == Call("exit", Root)
             fs == <<f>>
  <2>1. stack' = fs /\ box' = Closed /\ UNCHANGED <<kconfig, pc, prog, user, now, out, dot, name, lines, alt>>
    BY <1>1 DEF HandleExit, Show, vars, files
  <2>2. Stacks(fs) /\ NoChoice(fs)
    BY OneOn, CallIn, TreeAssumption DEF Fns
  <2> HIDE DEF fs
  <2>3. prog = "mconf" /\ DataInv'
    BY <1>0, <2>1, AtTop, DataSame
  <2> QED
    BY <1>0, <2>1, <2>2, <2>3, Goes
<1>2. CASE ~changed
  BY <1>0, <1>2, EndStep DEF HandleExit, DataInv
<1> QED
  BY <1>1, <1>2

LEMMA ExitYesStep == ASSUME MInv, ExitYes PROVE MInv'
<1>0. CallsInv /\ DataInv /\ pc = "edit" /\ Top.fn = "exit"
  BY DEF MInv, ExitYes, Handling
<1>1. CASE name = DotConfig
  <2>1. Write /\ stack' = stack /\ box' = Closed /\ UNCHANGED <<name, lines, alt>>
    BY <1>1 DEF ExitYes, Continue
  <2>2. DataInv' /\ pc' = "written" /\ prog' = prog
    BY <1>0, <2>1, WriteIn
  <2> QED
    BY <1>0, <2>1, <2>2, Stays
<1>2. CASE name # DotConfig
  <2>1. End /\ dot' = dot /\ alt' = [alt EXCEPT ![name] = Lines(ToWrite, Written(ToWrite))]
    BY <1>2 DEF ExitYes
  <2> DEFINE names == DOMAIN alt
  <2>2. alt' = [m \in names |-> IF m = name THEN Lines(ToWrite, Written(ToWrite)) ELSE alt[m]] /\ names \ {name} \subseteq DOMAIN alt
    BY <2>1
  <2> HIDE DEF names
  <2>3. alt' = [m \in DOMAIN alt' |-> alt'[m]] /\ \A m \in DOMAIN alt' : TextsIn(alt'[m])
    <3> DEFINE n == name
    <3>1. alt' = [m \in names |-> IF m = n THEN Lines(ToWrite, Written(ToWrite)) ELSE alt[m]] /\ names \ {n} \subseteq DOMAIN alt
      BY <2>2
    <3> HIDE DEF n
    <3> QED
      BY <1>0, <3>1, AsWrittenIn
  <2> QED
    BY <2>1, <2>3, EndStep
<1> QED
  BY <1>1, <1>2

LEMMA ExitSavedStep == ASSUME MInv, ExitSaved PROVE MInv'
BY EndStep DEF ExitSaved, MInv, DataInv

LEMMA ExitUnsavedStep == ASSUME MInv, ExitUnsaved PROVE MInv'
BY EndStep DEF ExitUnsaved, MInv, DataInv

LEMMA ExitBackStep == ASSUME MInv, ExitBack PROVE MInv'
<1>0. CallsInv /\ DataInv /\ pc = "edit"
  BY DEF MInv, ExitBack, Handling
<1> DEFINE f == Call("conf", Root)
           fs == <<f>>
<1>1. stack' = fs /\ box' = Closed /\ UNCHANGED <<kconfig, pc, prog, user, now, out, dot, name, lines, alt>>
  BY DEF ExitBack, Continue, Unchanged, Show, vars, files
<1>2. Stacks(fs) /\ NoChoice(fs)
  BY OneOn, CallIn, TreeAssumption DEF Fns
<1> HIDE DEF fs
<1>3. prog = "mconf" /\ DataInv'
  BY <1>0, <1>1, AtTop, DataSame
<1> QED
  BY <1>0, <1>1, <1>2, <1>3, Goes
-----------------------------------------------------------------------------
(* All of it together                                                      *)

LEMMA MInitOk == MInit => MInv
<1> SUFFICES ASSUME MInit PROVE MInv
  OBVIOUS
<1>1. kconfig \in Kconfigs /\ user = Blank /\ now = NotCalculated /\ out = <<>> /\ dot \in Defconfigs \cup {Missing} /\ pc = "idle"
  BY DEF MInit, Init
<1>2. box = Closed /\ name = DotConfig /\ DOMAIN alt = {} /\ alt = [n \in {} |-> <<>>] /\ lines = Max(Terminals)
  BY DEF MInit
<1>3. Max(Terminals) \in Terminals
  <2>1. Max(Terminals) = CHOOSE x \in Terminals : \A y \in Terminals : x >= y
    BY DEF Max
  <2>2. PICK most \in Terminals : \A n \in Terminals : n <= most
    BY BoxesAssumption
  <2>3. \A y \in Terminals : most >= y
    BY <2>2, BoxesAssumption
  <2> QED
    BY <2>1, <2>3
<1>4. dot # Missing => TextsIn(dot)
  BY <1>1, FileAssumption, TextsAssumption DEF TextsIn
<1>5. TextsIn(out)
  BY <1>1 DEF TextsIn
<1>6. UserOk(user) /\ NowOk(now) /\ name \in Texts
  BY <1>1, <1>2, BlankIn, NotCalculatedIn, TextsAssumption
<1>7. alt = [n \in DOMAIN alt |-> alt[n]] /\ \A n \in DOMAIN alt : TextsIn(alt[n])
  BY <1>2
<1> QED
  BY <1>1, <1>2, <1>3, <1>4, <1>5, <1>6, <1>7 DEF MInv, DataInv, CallsInv, Known

LEMMA StutterStep == ASSUME MInv, UNCHANGED mvars PROVE MInv'
<1>1. UNCHANGED <<kconfig, pc, prog, user, now, out, dot, stack, box, name, lines, alt>> /\ DataInv /\ CallsInv
  BY DEF mvars, vars, ui, files, MInv
<1>2. DataInv'
  BY <1>1, DataSame
<1>3. box = Closed \/ (pc = "edit" /\ BoxOk(box, Top))
  BY <1>1 DEF CallsInv
<1>4. AllShow(stack)' <=> AllShow(stack)
  BY <1>1, ShowsSame DEF AllShow
<1>5. Top' = Top
  BY <1>1 DEF Top
<1> QED
  BY <1>1, <1>2, <1>3, <1>4, <1>5 DEF MInv, CallsInv

LEMMA MInvKept == MInv /\ [MNext]_mvars => MInv' /\ (OnlyShown \/ UNCHANGED mvars)
<1> SUFFICES ASSUME MInv, [MNext]_mvars PROVE MInv' /\ (OnlyShown \/ UNCHANGED mvars)
  OBVIOUS
<1> DEFINE Same == user' = user
<1>1. Same => OnlyShown
  BY DEF OnlyShown
<1>2. CASE Start
  <2>1. pc' # pc
    BY <1>2 DEF Start, Menuconfig, Load
  <2> QED
    BY <1>2, <2>1, StartStep DEF OnlyShown
<1>3. CASE Open
  BY <1>3, OpenStep DEF OnlyShown
<1>4. CASE \E key \in Keyboard : Key(key)
  BY <1>1, <1>4, KeyStep
<1>5. CASE Resize
  BY <1>1, <1>5, ResizeStep
<1>6. CASE ConfSelect
  <2>1. Same
    BY <1>6 DEF ConfSelect, Unchanged, vars
  <2> QED
    BY <1>1, <1>6, <2>1, ConfSelectStep
<1>7. CASE ConfCall
  <2>1. Same
    BY <1>7 DEF ConfCall, Unchanged, vars
  <2> QED
    BY <1>1, <1>7, <2>1, ConfCallStep
<1>8. CASE ConfSet
  BY <1>8, ConfSetStep
<1>9. CASE ConfToggle
  BY <1>9, ConfToggleStep
<1>10. CASE ConfShowAll
  <2>1. Same
    BY <1>10 DEF ConfShowAll, vars
  <2> QED
    BY <1>1, <1>10, <2>1, ConfShowAllStep
<1>11. CASE Return
  <2>1. Same
    BY <1>11 DEF Return, Unchanged, vars
  <2> QED
    BY <1>1, <1>11, <2>1, ReturnStep
<1>12. CASE Again
  <2>1. Same
    BY <1>12 DEF Again, Unchanged, vars
  <2> QED
    BY <1>1, <1>12, <2>1, AgainStep
<1>13. CASE BoxHelp
  <2>1. Same
    BY <1>13 DEF BoxHelp, Unchanged, vars
  <2> QED
    BY <1>1, <1>13, <2>1, BoxHelpStep
<1>14. CASE ChoiceSelect
  BY <1>14, ChoiceSelectStep
<1>15. CASE StringSelect
  BY <1>15, StringSelectStep
<1>16. CASE SearchSelect
  <2>1. Same
    BY <1>16 DEF SearchSelect, Unchanged, vars
  <2> QED
    BY <1>1, <1>16, <2>1, SearchSelectStep
<1>17. CASE Jump
  <2>1. Same
    BY <1>17 DEF Jump, Unchanged, vars
  <2> QED
    BY <1>1, <1>17, <2>1, JumpStep
<1>18. CASE LoadSelect
  <2>1. Top.fn = "load"
    BY <1>18 DEF LoadSelect, Handling
  <2> QED
    BY <1>18, <2>1, LoadSelectStep DEF OnlyShown
<1>19. CASE SaveSelect
  <2>1. Same
    <3>1. \/ Unchanged \/ Write \/ WriteAs(box.text)
      BY <1>19 DEF SaveSelect
    <3> QED
      BY <3>1 DEF Unchanged, vars, Write, WriteAs
  <2> QED
    BY <1>1, <1>19, <2>1, SaveSelectStep
<1>20. CASE Rename
  <2>1. Same
    BY <1>20 DEF Rename, MoveOld
  <2> QED
    BY <1>1, <1>20, <2>1, RenameStep
<1>21. CASE Saved
  <2>1. pc' # pc
    BY <1>21 DEF Saved, MoveNew, Replace, GoOn, Exit
  <2> QED
    BY <1>21, <2>1, SavedStep DEF OnlyShown
<1>22. CASE SaveFails
  <2>1. pc' # pc
    BY <1>22 DEF SaveFails, MoveNewFails, Exit
  <2> QED
    BY <1>22, <2>1, SaveFailsStep DEF OnlyShown
<1>23. CASE HandleExit
  <2>1. Same \/ pc' # pc
    BY <1>23 DEF HandleExit, Handling, End, Exit, vars
  <2> QED
    BY <1>1, <1>23, <2>1, HandleExitStep DEF OnlyShown
<1>24. CASE ExitYes
  <2>1. Same \/ pc' # pc
    BY <1>24 DEF ExitYes, Handling, End, Exit, Write
  <2> QED
    BY <1>1, <1>24, <2>1, ExitYesStep DEF OnlyShown
<1>25. CASE ExitSaved
  <2>1. pc' # pc
    BY <1>25 DEF ExitSaved, End, Exit
  <2> QED
    BY <1>25, <2>1, ExitSavedStep DEF OnlyShown
<1>26. CASE ExitUnsaved
  <2>1. pc' # pc
    BY <1>26 DEF ExitUnsaved, Handling, End, Exit
  <2> QED
    BY <1>26, <2>1, ExitUnsavedStep DEF OnlyShown
<1>27. CASE ExitBack
  <2>1. Same
    BY <1>27 DEF ExitBack, Unchanged, vars
  <2> QED
    BY <1>1, <1>27, <2>1, ExitBackStep
<1>28. CASE UNCHANGED mvars
  BY <1>28, StutterStep
<1> HIDE DEF Same
<1> QED
  BY <1>2, <1>3, <1>4, <1>5, <1>6, <1>7, <1>8, <1>9, <1>10, <1>11, <1>12, <1>13, <1>14, <1>15, <1>16, <1>17, <1>18,
     <1>19, <1>20, <1>21, <1>22, <1>23, <1>24, <1>25, <1>26, <1>27, <1>28 DEF MNext

\* The invariant of make menuconfig: the functions on the stack call one another
\* as those of mconf.c do, and the box on the screen is that of the one on top,
\* in step with itself.
THEOREM MAlways == MSpec => []MInv
<1> QED
  BY MInitOk, MInvKept, PTL DEF MSpec

\* What the two list boxes show and highlight is what their keys act on, for
\* every menu and every size of the terminal (menubox.c:290-369,
\* checklist.c:208-285).
THEOREM RowsAlwaysInStep == MSpec => []RowsInStep
<1>1. MInv => RowsInStep
  <2> SUFFICES ASSUME MInv, Listing, ~Redrawn
               PROVE  /\ \A row \in 0 .. box.max - 1 : box.screen[row] = box.scroll + row
                      /\ box.lit = IF Count(box) = 0 THEN {} ELSE {box.choice}
                      /\ box.scroll + box.max <= Count(box)
    BY DEF RowsInStep
  <2>1. CallsInv /\ box # Closed /\ box.res \notin {"small", "crash", "none"} /\ box.kind \in {"menu", "list"}
    BY DEF MInv, Listing, Closed
  <2>2. pc = "edit" /\ Top \in Frames /\ BoxOk(box, Top)
    BY <2>1, AtTop DEF CallsInv
  <2>3. (box.kind = "menu" /\ MenuOk(box)) \/ (box.kind = "list" /\ ListOk(box))
    BY <2>1, <2>2, Kinds DEF KindOf, Frames, Fns, Fields, Readers
  <2>4. CASE box.kind = "menu" /\ MenuOk(box)
    <3>1. box.redrawn = FALSE
      BY <2>4 DEF Redrawn, MenuOk, Menu
    <3> QED
      BY <2>4, <3>1 DEF MenuOk, MenuFits, Clean
  <2>5. CASE box.kind = "list" /\ ListOk(box)
    BY <2>5 DEF ListOk, Clean
  <2> QED
    BY <2>3, <2>4, <2>5
<1> QED
  BY <1>1, MAlways, PTL

\* The input field shows what is edited at the cursor, and the box of a text
\* knows where its page is, for every text and every sequence of keys, resizes
\* and jumps (inputbox.c:122-231, textbox.c:280-336).
THEOREM BoxesAlwaysInStep == MSpec => []BoxesInStep
<1>1. MInv => BoxesInStep
  <2> SUFFICES ASSUME MInv PROVE BoxesInStep
    OBVIOUS
  <2>1. CallsInv
    BY DEF MInv
  <2>2. ASSUME box.kind = "input", box.res # "small" PROVE InputOk(box)
    <3>1. box # Closed
      BY <2>2 DEF Closed
    <3>2. Top \in Frames /\ BoxOk(box, Top)
      BY <2>1, <3>1, AtTop DEF CallsInv
    <3> QED
      BY <2>2, <3>2, Kinds DEF KindOf, Frames, Fns, Fields, Readers
  <2>3. ASSUME box.kind = "text", box.res = "wait" PROVE TextOk(box)
    <3>1. box # Closed
      BY <2>3 DEF Closed
    <3>2. Top \in Frames /\ BoxOk(box, Top)
      BY <2>1, <3>1, AtTop DEF CallsInv
    <3> QED
      BY <2>3, <3>2, Kinds DEF KindOf, Frames, Fns, Fields, Readers
  <2>4. CursorInStep
    BY <2>2 DEF CursorInStep, InputOk, CursorFits
  <2>5. TextInStep
    <3> SUFFICES ASSUME box.kind = "text", box.res = "wait", box.text.ended
                 PROVE  /\ BackLines(box, box.length).pos = box.top
                        /\ box.begin => box.top = 0 \/ box.text.search
                        /\ box.top = 0 => box.begin
                        /\ box.text.search => box.keys = PageKeys(box)
      BY DEF TextInStep, PageKeys
    <3>1. TextBox(box) /\ TextFits(box)
      BY <2>3 DEF TextOk
    <3>2. BackLines(box, box.length).pos = box.top
      BY <3>1, PageTop
    <3> QED
      BY <3>1, <3>2 DEF TextFits
  <2> QED
    BY <2>4, <2>5 DEF BoxesInStep
<1> QED
  BY <1>1, MAlways, PTL

\* However one moved, scrolled, jumped and resized: what is answered is what was
\* highlighted, or the string on the screen (mconf.c:660-751).
THEOREM OnlyWhatIsShownChanges == MSpec => OnlyWhatIsShown
<1>1. MInv /\ [MNext]_mvars => [OnlyShown]_mvars
  BY MInvKept
<1>2. [OnlyShown]_mvars <=>
        [user'.val # user.val /\ pc' = pc /\ Top.fn # "load" =>
            \A s \in Symbols : user'.val[s] # user.val[s] =>
                \/ Listing /\ \E e \in Highlighted : SymOf[e] = s
                \/ Redrawn
                \/ Top.fn = "string" /\ SymOf[Top.menu] = s /\ user'.val[s] = box.text]_mvars
  BY DEF OnlyShown
<1> QED
  BY <1>1, <1>2, MAlways, PTL DEF MSpec, OnlyWhatIsShown
=============================================================================
