----------------------------- MODULE QconfProofs -----------------------------
(***************************************************************************)
(* Proofs about make xconfig, for every tree of menus and all Config.in    *)
(* files: the rows of the lists, and what they show, are as if made anew.  *)
(***************************************************************************)
EXTENDS Qconf, KconfigSymProofs


(* The children of one menu *)

Items == Entries \cup {Up}
Loops == [last : Seq(Items), next : Seq(Items), kept : SUBSET Entries]

Begun(rows) ==
    LET up == rows # <<>> /\ Head(rows) = Up
    IN  [last |-> IF up THEN <<Up>> ELSE <<>>, next |-> IF up THEN Tail(rows) ELSE rows, kept |-> {}]
IsUpdate(skip, m, rows, f) ==
    f = [i \in 0 .. Len(Children[m]) |-> IF i = 0 THEN Begun(rows) ELSE Child(skip, Children[m][i], f[i - 1])]

LEMMA ListIn ==
  ASSUME NEW m \in Entries
  PROVE  /\ Len(Children[m]) \in Nat /\ DOMAIN Children[m] = 1 .. Len(Children[m])
         /\ \A i \in DOMAIN Children[m] : Children[m][i] \in Entries /\ Children[m][i] \in Lists[m]
         /\ Lists[m] = {Children[m][i] : i \in DOMAIN Children[m]} /\ Lists[m] \subseteq Entries
<1> DEFINE s == Children[m]
<1>1. s \in Seq(Entries) /\ Lists[m] = ToSet(s)
  BY TreeAssumption DEF Lists
<1> HIDE DEF s
<1>2. Len(s) \in Nat /\ DOMAIN s = 1 .. Len(s) /\ \A i \in DOMAIN s : s[i] \in Entries
  BY <1>1
<1> QED
  BY <1>1, <1>2 DEF s, ToSet

LEMMA ChildType ==
  ASSUME NEW skip, NEW c \in Entries, NEW a \in Loops
  PROVE  Child(skip, c, a) \in Loops
<1>1. a.last \in Seq(Items) /\ a.next \in Seq(Items) /\ a.kept \subseteq Entries /\ c \in Items
  BY DEF Loops, Items
<1>2. a.next # <<>> => Tail(a.next) \in Seq(Items)
  BY <1>1
<1>3. Append(a.last, c) \in Seq(Items)
  BY <1>1
<1> QED
  BY <1>1, <1>2, <1>3 DEF Child, Loops

LEMMA BegunType ==
  ASSUME NEW rows \in Seq(Items)
  PROVE  Begun(rows) \in Loops
<1>1. rows # <<>> => Tail(rows) \in Seq(Items)
  OBVIOUS
<1>2. <<Up>> \in Seq(Items) /\ <<>> \in Seq(Items)
  BY DEF Items
<1> QED
  BY <1>1, <1>2 DEF Begun, Loops

\* Updated goes through the children one after the other.
Goes(skip, m, rows, f) ==
    /\ f \in [0 .. Len(Children[m]) -> Loops] /\ f[0] = Begun(rows)
    /\ \A i \in 1 .. Len(Children[m]) : f[i] = Child(skip, Children[m][i], f[i - 1])
    /\ LET all == f[Len(Children[m])] IN Updated(skip, m, rows) = [rows |-> all.last \o all.next, kept |-> all.kept]

LEMMA UpdatedGoes ==
  ASSUME NEW skip, NEW m \in Entries, NEW rows \in Seq(Items)
  PROVE  \E f : Goes(skip, m, rows, f)
<1> DEFINE n == Len(Children[m])
           next(i, a) == Child(skip, Children[m][i], a)
           R == [i \in 1 .. n |-> [a \in Loops |-> next(i, a)]]
           v == Begun(rows)
           fn == CHOOSE f : IsUpdate(skip, m, rows, f)
<1>0. n \in Nat /\ \A i \in 1 .. n : Children[m][i] \in Entries
  BY ListIn
<1>1. Rounds(n, Loops, R) /\ \A i \in 1 .. n : \A a \in Loops : R[i][a] = next(i, a) /\ next(i, a) \in Loops
  <2>1. \A i \in 1 .. n : \A a \in Loops : next(i, a) \in Loops
    BY <1>0, ChildType
  <2> HIDE DEF next
  <2> QED
    BY <2>1 DEF Rounds
<1>2. v \in Loops
  BY BegunType
<1> HIDE DEF R, v, n, next
<1>3. PICK g \in [0 .. n -> Loops] : g[0] = v /\ \A i \in 1 .. n : g[i] = R[i][g[i - 1]]
  <2>1. LoopFrom(n, Loops, v, R)
    BY <1>0, <1>1, <1>2, LoopEnds
  <2> QED
    BY <2>1 DEF LoopFrom
<1>4. IsUpdate(skip, m, rows, g)
  <2>1. \A i \in 0 .. n : g[i] = IF i = 0 THEN v ELSE next(i, g[i - 1])
    BY <1>0, <1>1, <1>3
  <2>2. g = [i \in 0 .. n |-> g[i]]
    OBVIOUS
  <2>3. g = [i \in 0 .. n |-> IF i = 0 THEN v ELSE next(i, g[i - 1])]
    BY <2>1, <2>2
  <2> QED
    BY <2>3 DEF IsUpdate, v, n, next
<1>5. IsUpdate(skip, m, rows, fn)
  BY <1>4
<1>6. Updated(skip, m, rows) = [rows |-> fn[n].last \o fn[n].next, kept |-> fn[n].kept]
  BY DEF Updated, Looped, Begun, IsUpdate, n
<1> HIDE DEF fn
<1>7. fn[0] = v /\ \A i \in 1 .. n : fn[i] = next(i, fn[i - 1])
  <2>1. fn = [i \in 0 .. n |-> IF i = 0 THEN v ELSE next(i, fn[i - 1])]
    BY <1>5 DEF IsUpdate, v, n, next
  <2> QED
    BY <1>0, <2>1
<1>8. \A i \in 0 .. n : fn[i] \in Loops
  <2>1. fn[0] \in Loops /\ \A i \in 1 .. n : fn[i - 1] \in Loops => fn[i] = R[i][fn[i - 1]]
    BY <1>1, <1>2, <1>7
  <2> QED
    BY <1>0, <1>1, <2>1, LoopStays
<1>9. fn \in [0 .. n -> Loops]
  <2>1. DOMAIN fn = 0 .. n /\ fn = [i \in DOMAIN fn |-> fn[i]]
    BY <1>5 DEF IsUpdate, n
  <2> QED
    BY <1>8, <2>1
<1> QED
  BY <1>6, <1>7, <1>9 DEF Goes, v, n, next

\* rows are some of the children of m from the i-th on, in their order.
InOrder(rows, m, i) ==
    /\ rows \in Seq(Entries)
    /\ \A k \in DOMAIN rows : ~HasNoRow(rows[k]) /\ \E p \in DOMAIN Children[m] : i <= p /\ Children[m][p] = rows[k]
    /\ \A k, h \in DOMAIN rows : \A p, q \in DOMAIN Children[m] :
           k < h /\ Children[m][p] = rows[k] /\ Children[m][q] = rows[h] => p < q

LEMMA InOrderTail ==
  ASSUME NEW m \in Entries, NEW i \in Nat, NEW rows, InOrder(rows, m, i), rows # <<>>,
         Head(rows) = Children[m][i], i \in DOMAIN Children[m]
  PROVE  InOrder(Tail(rows), m, i + 1) /\ ToSet(Tail(rows)) \subseteq ToSet(rows)
<1> DEFINE t == Tail(rows)
           kids == Children[m]
<1>0. DOMAIN kids \subseteq Nat
  BY ListIn
<1>1. /\ rows \in Seq(Entries) /\ 1 \in DOMAIN rows /\ rows[1] = kids[i]
      /\ t \in Seq(Entries) /\ \A k \in DOMAIN t : k \in Nat /\ k + 1 \in DOMAIN rows /\ t[k] = rows[k + 1] /\ 1 < k + 1
  BY DEF InOrder
<1> HIDE DEF t, kids
<1>2. ASSUME NEW k \in DOMAIN t PROVE ~HasNoRow(t[k]) /\ \E p \in DOMAIN kids : i + 1 <= p /\ kids[p] = t[k]
  <2>1. PICK p \in DOMAIN kids : kids[p] = rows[k + 1]
    BY <1>1 DEF InOrder, kids
  <2>2. i < p
    BY <1>1, <2>1 DEF InOrder, kids
  <2> QED
    BY <1>0, <1>1, <2>1, <2>2 DEF InOrder, kids
<1>3. ASSUME NEW k \in DOMAIN t, NEW h \in DOMAIN t, NEW p \in DOMAIN kids, NEW q \in DOMAIN kids,
             k < h, kids[p] = t[k], kids[q] = t[h]
      PROVE  p < q
  <2>1. k + 1 \in DOMAIN rows /\ h + 1 \in DOMAIN rows /\ k + 1 < h + 1 /\ kids[p] = rows[k + 1] /\ kids[q] = rows[h + 1]
    BY <1>1, <1>3
  <2> QED
    BY <2>1 DEF InOrder, kids
<1>4. InOrder(t, m, i + 1)
  BY <1>1, <1>2, <1>3 DEF InOrder, kids
<1>5. ToSet(t) \subseteq ToSet(rows)
  BY <1>1 DEF ToSet
<1> QED
  BY <1>4, <1>5 DEF t

\* Rows that begin further on
LEMMA InOrderNext ==
  ASSUME NEW m \in Entries, NEW i \in DOMAIN Children[m], NEW rows, InOrder(rows, m, i),
         rows # <<>> => Head(rows) # Children[m][i]
  PROVE  InOrder(rows, m, i + 1)
<1> DEFINE kids == Children[m]
<1>0. DOMAIN kids \subseteq Nat /\ rows \in Seq(Entries)
  BY ListIn DEF InOrder
<1>1. ASSUME NEW k \in DOMAIN rows PROVE \E p \in DOMAIN kids : i + 1 <= p /\ kids[p] = rows[k]
  <2>1. PICK p \in DOMAIN kids : i <= p /\ kids[p] = rows[k]
    BY DEF InOrder
  <2>2. 1 \in DOMAIN rows /\ rows # <<>> /\ Head(rows) = rows[1] /\ k \in Nat /\ 1 <= k
    BY <1>0
  <2>3. PICK q \in DOMAIN kids : i <= q /\ kids[q] = rows[1]
    BY <2>2 DEF InOrder
  <2>4. q # i
    BY <2>2, <2>3
  <2>5. CASE k = 1
    BY <1>0, <2>3, <2>4, <2>5
  <2>6. CASE k # 1
    <3>1. q < p
      BY <2>1, <2>2, <2>3, <2>6 DEF InOrder
    <3> QED
      BY <1>0, <2>1, <2>3, <3>1
  <2> QED
    BY <2>5, <2>6
<1> QED
  BY <1>1 DEF InOrder

LEMMA InOrderAppend ==
  ASSUME NEW m \in Entries, NEW i \in DOMAIN Children[m], NEW rows, InOrder(rows, m, 1), ~HasNoRow(Children[m][i]),
         \A k \in DOMAIN rows : \A p \in DOMAIN Children[m] : Children[m][p] = rows[k] => p < i
  PROVE  LET more == Append(rows, Children[m][i])
         IN  /\ InOrder(more, m, 1)
             /\ \A k \in DOMAIN more : \A p \in DOMAIN Children[m] : Children[m][p] = more[k] => p < i + 1
<1> DEFINE kids == Children[m]
           more == Append(rows, kids[i])
           n == Len(rows)
<1>0. /\ DOMAIN kids \subseteq Nat /\ \A p \in DOMAIN kids : 1 <= p
      /\ \A p, q \in DOMAIN kids : kids[p] = kids[q] => p = q
  BY ListIn, PlaceAssumption
<1>1. /\ rows \in Seq(Entries) /\ n \in Nat /\ DOMAIN rows = 1 .. n /\ more \in Seq(Entries) /\ DOMAIN more = 1 .. n + 1
      /\ \A k \in DOMAIN rows : more[k] = rows[k]
      /\ more[n + 1] = kids[i]
  BY ListIn DEF InOrder
<1>2. \A k \in DOMAIN more : k \in DOMAIN rows \/ k = n + 1
  BY <1>1
<1> HIDE DEF more, kids, n
<1>3. ASSUME NEW k \in DOMAIN more PROVE ~HasNoRow(more[k]) /\ \E p \in DOMAIN kids : 1 <= p /\ kids[p] = more[k]
  <2>1. CASE k \in DOMAIN rows
    BY <1>1, <2>1 DEF InOrder, kids
  <2>2. CASE k = n + 1
    BY <1>0, <1>1, <2>2 DEF kids
  <2> QED
    BY <1>2, <2>1, <2>2
<1>4. ASSUME NEW k \in DOMAIN more, NEW p \in DOMAIN kids, kids[p] = more[k] PROVE p < i + 1
  <2>1. CASE k \in DOMAIN rows
    <3>1. p < i
      BY <1>1, <1>4, <2>1 DEF kids
    <3> QED
      BY <1>0, <3>1 DEF kids
  <2>2. CASE k = n + 1
    <3>1. p = i
      BY <1>0, <1>1, <1>4, <2>2 DEF kids
    <3> QED
      BY <1>0, <3>1
  <2> QED
    BY <1>2, <2>1, <2>2
<1>5. ASSUME NEW k \in DOMAIN more, NEW h \in DOMAIN more, NEW p \in DOMAIN kids, NEW q \in DOMAIN kids,
             k < h, kids[p] = more[k], kids[q] = more[h]
      PROVE  p < q
  <2>1. k \in DOMAIN rows
    BY <1>1, <1>5
  <2>2. CASE h \in DOMAIN rows
    BY <1>1, <1>5, <2>1, <2>2 DEF InOrder, kids
  <2>3. CASE h = n + 1
    <3>1. q = i
      BY <1>0, <1>1, <1>5, <2>3 DEF kids
    <3>2. p < i
      BY <1>1, <1>5, <2>1 DEF kids
    <3> QED
      BY <3>1, <3>2
  <2> QED
    BY <1>2, <2>2, <2>3
<1>6. InOrder(more, m, 1)
  BY <1>1, <1>3, <1>5 DEF InOrder, kids
<1> QED
  BY <1>4, <1>6 DEF more, kids

\* The rows as they are made anew
Ideal(skip, m) == Updated(skip, m, <<>>).rows

\* From the rows up \o s there is at each child what is made anew, after up.
Compared(m, i, up, s, a, b) ==
    /\ b.next = <<>> /\ InOrder(b.last, m, 1)
    /\ \A k \in DOMAIN b.last : \A p \in DOMAIN Children[m] : Children[m][p] = b.last[k] => p < i + 1
    /\ a.last = up \o b.last
    /\ InOrder(a.next, m, i + 1) /\ ToSet(a.next) \subseteq ToSet(s) /\ a.kept \subseteq ToSet(s)

LEMMA ComparedFirst ==
  ASSUME NEW m \in Entries, NEW up \in {<<>>, <<Up>>}, NEW s, InOrder(s, m, 1)
  PROVE  /\ up \o s \in Seq(Items) /\ <<>> \in Seq(Items)
         /\ Compared(m, 0, up, s, Begun(up \o s), Begun(<<>>))
<1>1. s \in Seq(Entries) /\ Up \notin Entries
  BY RootAssumption DEF InOrder
<1>2. s \in Seq(Items) /\ up \in Seq(Items) /\ <<>> \in Seq(Items)
  <2>1. Entries \subseteq Items /\ Up \in Items
    BY DEF Items
  <2>2. s \in Seq(Items) /\ <<>> \in Seq(Items) /\ <<Up>> \in Seq(Items)
    BY <1>1, <2>1
  <2> QED
    BY <2>2
<1>3. Begun(<<>>) = [last |-> <<>>, next |-> <<>>, kept |-> {}]
  BY DEF Begun
<1>4. Begun(up \o s) = [last |-> up, next |-> s, kept |-> {}]
  <2>1. CASE up = <<>>
    <3>1. up \o s = s
      BY <1>1, <2>1
    <3>2. s # <<>> => Head(s) \in Entries
      BY <1>1
    <3> QED
      BY <1>1, <2>1, <3>1, <3>2 DEF Begun
  <2>2. CASE up = <<Up>>
    <3>1. up \o s # <<>> /\ Head(up \o s) = Up /\ Tail(up \o s) = s
      BY <1>2, <2>2
    <3> QED
      BY <2>2, <3>1 DEF Begun
  <2> QED
    BY <2>1, <2>2
<1>5. InOrder(<<>>, m, 1) /\ up \o <<>> = up
  BY DEF InOrder
<1>6. up \o s \in Seq(Items)
  BY <1>2
<1> QED
  BY <1>2, <1>3, <1>4, <1>5, <1>6 DEF Compared

LEMMA ComparedNext ==
  ASSUME NEW m \in Entries, NEW i \in DOMAIN Children[m], NEW up \in {<<>>, <<Up>>}, NEW s, NEW skip,
         NEW a \in Loops, NEW b \in Loops, Compared(m, i - 1, up, s, a, b)
  PROVE  LET c == Children[m][i] IN Compared(m, i, up, s, Child(skip, c, a), Child(skip, c, b))
<1> DEFINE c == Children[m][i]
           x == Child(skip, c, a)
           y == Child(skip, c, b)
           kids == Children[m]
<1>0. /\ DOMAIN kids \subseteq Nat /\ i \in Nat /\ (i - 1) + 1 = i /\ c \in Entries /\ c \in Items
      /\ a.last \in Seq(Items) /\ a.next \in Seq(Items) /\ b.last \in Seq(Items) /\ up \in Seq(Items)
      /\ InOrder(a.next, m, i) /\ i - 1 \in Nat
  <2>1. Up \in Items /\ Entries \subseteq Items
    BY DEF Items
  <2>2. up \in Seq(Items)
    <3>1. <<>> \in Seq(Items) /\ <<Up>> \in Seq(Items)
      BY <2>1
    <3> QED
      BY <3>1
  <2>3. DOMAIN kids \subseteq Nat /\ i \in Nat /\ c \in Entries /\ 1 <= i
    BY ListIn
  <2>4. (i - 1) + 1 = i /\ i - 1 \in Nat
    BY <2>3
  <2>5. InOrder(a.next, m, i)
    BY <2>4 DEF Compared
  <2>6. a.last \in Seq(Items) /\ a.next \in Seq(Items) /\ b.last \in Seq(Items)
    BY DEF Loops
  <2> QED
    BY <2>1, <2>2, <2>3, <2>4, <2>5, <2>6
<1>1. \A r : r # <<>> /\ InOrder(r, m, i) => ~HasNoRow(Head(r)) /\ Head(r) \in ToSet(r)
  <2> TAKE r
  <2> HAVE r # <<>> /\ InOrder(r, m, i)
  <2>1. r \in Seq(Entries)
    BY DEF InOrder
  <2>2. 1 \in DOMAIN r /\ Head(r) = r[1]
    BY <2>1
  <2>3. ~HasNoRow(r[1])
    BY <2>2 DEF InOrder
  <2> QED
    BY <2>2, <2>3 DEF ToSet
<1>2. up \o Append(b.last, c) = Append(up \o b.last, c)
  BY <1>0
<1>3. \A k \in DOMAIN b.last : \A p \in DOMAIN kids : kids[p] = b.last[k] => p < i
  BY <1>0 DEF Compared
<1>4. \A k \in DOMAIN b.last : \A p \in DOMAIN kids : kids[p] = b.last[k] => p < i + 1
  BY <1>0, <1>3
<1>5. a.next # <<>> /\ Head(a.next) = c => InOrder(Tail(a.next), m, i + 1) /\ ToSet(Tail(a.next)) \subseteq ToSet(s) /\ c \in ToSet(s)
  <2> HAVE a.next # <<>> /\ Head(a.next) = c
  <2>1. InOrder(Tail(a.next), m, i + 1) /\ ToSet(Tail(a.next)) \subseteq ToSet(a.next)
    BY <1>0, InOrderTail
  <2> QED
    BY <1>0, <1>1, <2>1 DEF Compared
<1>6. (a.next # <<>> => Head(a.next) # c) => InOrder(a.next, m, i + 1)
  BY <1>0, InOrderNext
<1>7. ~HasNoRow(c) => /\ InOrder(Append(b.last, c), m, 1)
                      /\ \A k \in DOMAIN Append(b.last, c) : \A p \in DOMAIN kids : kids[p] = Append(b.last, c)[k] => p < i + 1
  BY <1>3, InOrderAppend DEF Compared
<1>8. CASE c \in skip
  <2>1. y = b
    BY <1>8 DEF Child, Compared
  <2>2. CASE a.next # <<>> /\ Head(a.next) = c
    <3>1. x = [a EXCEPT !.next = Tail(@)]
      BY <1>8, <2>2 DEF Child
    <3>2. x.next = Tail(a.next) /\ x.last = a.last /\ x.kept = a.kept
      BY <3>1 DEF Loops
    <3> QED
      BY <1>4, <1>5, <2>1, <2>2, <3>2 DEF Compared
  <2>3. CASE ~(a.next # <<>> /\ Head(a.next) = c)
    <3>1. x = a
      BY <1>8, <2>3 DEF Child
    <3> QED
      BY <1>4, <1>6, <2>1, <2>3, <3>1 DEF Compared
  <2> QED
    BY <2>2, <2>3
<1>9. CASE c \notin skip /\ HasNoRow(c)
  <2>1. x = a /\ y = b
    BY <1>9 DEF Child
  <2>2. a.next # <<>> => Head(a.next) # c
    BY <1>0, <1>1, <1>9
  <2> QED
    BY <1>4, <1>6, <2>1, <2>2 DEF Compared
<1>10. CASE c \notin skip /\ ~HasNoRow(c)
  <2>1. y = [b EXCEPT !.last = Append(@, c)]
    BY <1>10 DEF Child, Compared
  <2>2. y.last = Append(b.last, c) /\ y.next = <<>>
    BY <2>1 DEF Loops, Compared
  <2>3. CASE a.next # <<>> /\ Head(a.next) = c
    <3>1. x = [last |-> Append(a.last, c), next |-> Tail(a.next), kept |-> a.kept \cup {c}]
      BY <1>10, <2>3 DEF Child
    <3>2. x.last = Append(a.last, c) /\ x.next = Tail(a.next) /\ x.kept = a.kept \cup {c}
      BY <3>1
    <3>3. x.kept \subseteq ToSet(s) /\ x.last = up \o y.last
      BY <1>2, <1>5, <2>2, <2>3, <3>2 DEF Compared
    <3> QED
      BY <1>5, <1>7, <1>10, <2>2, <2>3, <3>2, <3>3 DEF Compared
  <2>4. CASE ~(a.next # <<>> /\ Head(a.next) = c)
    <3>1. x = [a EXCEPT !.last = Append(@, c)]
      BY <1>10, <2>4 DEF Child
    <3>2. x.last = Append(a.last, c) /\ x.next = a.next /\ x.kept = a.kept
      BY <3>1 DEF Loops
    <3>3. x.last = up \o y.last
      BY <1>2, <2>2, <3>2 DEF Compared
    <3> QED
      BY <1>6, <1>7, <1>10, <2>2, <2>4, <3>2, <3>3 DEF Compared
  <2> QED
    BY <2>3, <2>4
<1> QED
  BY <1>8, <1>9, <1>10

\* What comes of the rows of a menu is what would be made anew, after "..".
LEMMA UpdatedIs ==
  ASSUME NEW skip, NEW m \in Entries, NEW up \in {<<>>, <<Up>>}, NEW s, InOrder(s, m, 1)
  PROVE  /\ Updated(skip, m, up \o s).rows = up \o Ideal(skip, m) /\ InOrder(Ideal(skip, m), m, 1)
         /\ Updated(skip, m, up \o s).kept \subseteq ToSet(s)
<1> DEFINE n == Len(Children[m])
<1>0. n \in Nat /\ DOMAIN Children[m] = 1 .. n
  BY ListIn
<1>1. up \o s \in Seq(Items) /\ <<>> \in Seq(Items) /\ Compared(m, 0, up, s, Begun(up \o s), Begun(<<>>))
  BY ComparedFirst
<1>2. PICK f : Goes(skip, m, up \o s, f)
  BY <1>1, UpdatedGoes
<1>3. PICK g : Goes(skip, m, <<>>, g)
  BY <1>1, UpdatedGoes
<1> DEFINE S == {i \in 0 .. n : ~Compared(m, i, up, s, f[i], g[i])}
<1>4. S = {}
  <2> SUFFICES ASSUME S # {} PROVE FALSE
    OBVIOUS
  <2>1. PICK i \in S : \A j \in S : i <= j
    <3>1. S \in SUBSET Nat
      BY <1>0
    <3> HIDE DEF S
    <3> QED
      BY <3>1, LeastOf
  <2>2. i # 0
    BY <1>1, <1>2, <1>3, <2>1 DEF Goes
  <2>3. i \in 1 .. n /\ i - 1 \in 0 .. n /\ ~(i <= i - 1)
    BY <1>0, <2>1, <2>2
  <2>4. Compared(m, i - 1, up, s, f[i - 1], g[i - 1])
    BY <2>1, <2>3
  <2>5. f[i - 1] \in Loops /\ g[i - 1] \in Loops
    BY <1>2, <1>3, <2>3 DEF Goes
  <2>6. f[i] = Child(skip, Children[m][i], f[i - 1]) /\ g[i] = Child(skip, Children[m][i], g[i - 1])
    BY <1>2, <1>3, <2>3 DEF Goes
  <2>7. i \in DOMAIN Children[m]
    BY <1>0, <2>3
  <2>8. Compared(m, i, up, s, f[i], g[i])
    BY <2>4, <2>5, <2>6, <2>7, ComparedNext
  <2> QED
    BY <2>1, <2>8
<1>5. Compared(m, n, up, s, f[n], g[n]) /\ f[n] \in Loops /\ g[n] \in Loops
  <2>1. n \in 0 .. n
    BY <1>0
  <2> QED
    BY <1>2, <1>3, <1>4, <2>1 DEF Goes
<1>6. f[n].next = <<>>
  <2>1. f[n].next \in Seq(Entries) /\ InOrder(f[n].next, m, n + 1)
    BY <1>5 DEF Compared, InOrder
  <2>2. ASSUME NEW k \in DOMAIN f[n].next PROVE FALSE
    <3>1. PICK p \in DOMAIN Children[m] : n + 1 <= p
      BY <2>1, <2>2 DEF InOrder
    <3> QED
      BY <1>0, <3>1
  <2>3. 1 \notin DOMAIN f[n].next
    BY <2>2
  <2> QED
    BY <2>1, <2>3
<1>7. g[n].last \in Seq(Entries) /\ g[n].next = <<>> /\ f[n].last = up \o g[n].last /\ f[n].last \in Seq(Items)
  BY <1>5 DEF Compared, InOrder, Loops
<1>8. Ideal(skip, m) = g[n].last
  <2>1. Updated(skip, m, <<>>) = [rows |-> g[n].last \o g[n].next, kept |-> g[n].kept]
    BY <1>3 DEF Goes
  <2> QED
    BY <1>7, <2>1 DEF Ideal
<1>9. Updated(skip, m, up \o s).rows = f[n].last /\ Updated(skip, m, up \o s).kept = f[n].kept
  <2>1. Updated(skip, m, up \o s) = [rows |-> f[n].last \o f[n].next, kept |-> f[n].kept]
    BY <1>2 DEF Goes
  <2>2. f[n].last \o f[n].next = f[n].last
    BY <1>6, <1>7
  <2> QED
    BY <2>1, <2>2
<1> QED
  BY <1>5, <1>7, <1>8, <1>9 DEF Compared

(* The rows below a row *)

InRows(w, l) == \A x \in Entries : InOrder(w.rows[l][x], x, 1)

UpdatedRow(w, l, skip, x, there) == Updated(skip, x, IF there THEN w.rows[l][x] ELSE <<>>)

RowIs(w, l, skip, x, a) ==
    /\ a.rows = Ideal(skip, x) /\ a.kept \subseteq ToSet(w.rows[l][x]) /\ a.kept \subseteq Entries
    /\ InOrder(Ideal(skip, x), x, 1) /\ ToSet(Ideal(skip, x)) \subseteq Lists[x]

LEMMA UpdatedRowIs ==
  ASSUME NEW w, NEW l, NEW skip, NEW x \in Entries, NEW there \in BOOLEAN, InRows(w, l)
  PROVE  RowIs(w, l, skip, x, UpdatedRow(w, l, skip, x, there))
<1> DEFINE s == IF there THEN w.rows[l][x] ELSE <<>>
<1>1. InOrder(w.rows[l][x], x, 1) /\ InOrder(<<>>, x, 1)
  BY DEF InRows, InOrder
<1>2. InOrder(s, x, 1) /\ <<>> \o s = s
  <2>1. InOrder(s, x, 1)
    BY <1>1
  <2>2. s \in Seq(Entries)
    BY <2>1 DEF InOrder
  <2> HIDE DEF s
  <2> QED
    BY <2>1, <2>2
<1>3. ToSet(s) \subseteq ToSet(w.rows[l][x]) /\ ToSet(s) \subseteq Entries
  <2>1. w.rows[l][x] \in Seq(Entries) /\ s \in Seq(Entries)
    BY <1>1, <1>2 DEF InOrder
  <2>2. ToSet(<<>>) = {}
    BY DEF ToSet
  <2>3. ToSet(s) \subseteq ToSet(w.rows[l][x])
    BY <2>2
  <2> HIDE DEF s
  <2>4. ToSet(s) \subseteq Entries
    BY <2>1 DEF ToSet
  <2> QED
    BY <2>3, <2>4
<1> HIDE DEF s
<1>4. /\ Updated(skip, x, s).rows = <<>> \o Ideal(skip, x) /\ InOrder(Ideal(skip, x), x, 1)
      /\ Updated(skip, x, s).kept \subseteq ToSet(s)
  BY <1>2, UpdatedIs
<1>5. Ideal(skip, x) \in Seq(Entries)
  BY <1>4 DEF InOrder
<1>6. Updated(skip, x, s).rows = Ideal(skip, x)
  BY <1>4, <1>5
<1>7. ToSet(Ideal(skip, x)) \subseteq Lists[x]
  BY <1>4, ListIn DEF InOrder, ToSet
<1> QED
  BY <1>3, <1>4, <1>6, <1>7 DEF s, UpdatedRow, RowIs

IsBelow(w, l, skip, f) ==
    f = [x \in Entries |-> [there \in BOOLEAN |->
           LET a == Updated(skip, x, IF there THEN w.rows[l][x] ELSE <<>>)
           IN  {Level(x, a)} \cup UNION {f[c][(c \in a.kept)] : c \in Opened(ModeOf(w, l), a.rows)}]]

OpenedIn(w, l, skip, m) == Opened(ModeOf(w, l), Ideal(skip, m))
BelowOf(w, l, skip, m, was) ==
    LET a == UpdatedRow(w, l, skip, m, was)
    IN  {Level(m, a)} \cup UNION {Below(w, l, skip, c, (c \in a.kept)) : c \in OpenedIn(w, l, skip, m)}

LEMMA BelowIs ==
  ASSUME NEW w, NEW l, NEW skip, NEW m \in Entries, NEW was \in BOOLEAN, InRows(w, l)
  PROVE  Below(w, l, skip, m, was) = BelowOf(w, l, skip, m, was)
<1> DEFINE V == [BOOLEAN -> SUBSET [at : Entries, rows : Seq(Entries), kept : SUBSET Entries]]
           A(x, there) == UpdatedRow(w, l, skip, x, there)
           L(x, there) == {Level(x, A(x, there))}
           T(x) == Opened(ModeOf(w, l), Ideal(skip, x))
           B(x, there, f) == L(x, there) \cup UNION {f[c][(c \in A(x, there).kept)] : c \in T(x)}
           H == [x \in Entries |-> [f \in [Entries -> V] |-> [there \in BOOLEAN |-> B(x, there, f)]]]
           fn == CHOOSE f : IsBelow(w, l, skip, f)
           C(x, there, f) == LET a == Updated(skip, x, IF there THEN w.rows[l][x] ELSE <<>>)
                             IN  {Level(x, a)} \cup UNION {f[c][(c \in a.kept)] : c \in Opened(ModeOf(w, l), a.rows)}
<1>0. \A x \in Entries, there \in BOOLEAN :
          /\ T(x) \subseteq Lists[x] /\ Lists[x] \subseteq Entries
          /\ L(x, there) \subseteq [at : Entries, rows : Seq(Entries), kept : SUBSET Entries]
          /\ A(x, there).rows = Ideal(skip, x)
  <2> TAKE x \in Entries, there \in BOOLEAN
  <2>0. RowIs(w, l, skip, x, A(x, there))
    BY UpdatedRowIs, Zenon
  <2>1. /\ A(x, there).rows = Ideal(skip, x) /\ A(x, there).kept \subseteq Entries
        /\ InOrder(Ideal(skip, x), x, 1) /\ ToSet(Ideal(skip, x)) \subseteq Lists[x]
    <3> HIDE DEF A
    <3> QED
      BY <2>0 DEF RowIs
  <2>2. Ideal(skip, x) \in Seq(Entries)
    BY <2>1 DEF InOrder
  <2>3. Lists[x] \subseteq Entries
    BY ListsFounded
  <2>4. T(x) \subseteq Lists[x]
    BY <2>1 DEF Opened
  <2>5. Level(x, A(x, there)) = [at |-> x, rows |-> Ideal(skip, x), kept |-> A(x, there).kept]
    BY <2>1 DEF Level
  <2> HIDE DEF A, T
  <2> QED
    BY <2>1, <2>2, <2>3, <2>4, <2>5
<1>1. \E f \in [Entries -> V] : \A x \in Entries : f[x] = H[x][f]
  <2> HIDE DEF A, L, T
  <2>1. H \in [Entries -> [[Entries -> V] -> V]]
    <3> DEFINE W == [at : Entries, rows : Seq(Entries), kept : SUBSET Entries]
    <3>1. ASSUME NEW x \in Entries, NEW f \in [Entries -> V], NEW there \in BOOLEAN
          PROVE  B(x, there, f) \in SUBSET W
      <4> DEFINE g(c) == f[c][(c \in A(x, there).kept)]
      <4>1. \A c \in T(x) : g(c) \in SUBSET W
        <5> TAKE c \in T(x)
        <5>1. f[c] \in V /\ (c \in A(x, there).kept) \in BOOLEAN
          BY <1>0
        <5> HIDE DEF W
        <5> QED
          BY <5>1 DEF W
      <4> HIDE DEF g
      <4> DEFINE D == UNION {g(c) : c \in T(x)}
      <4>2. D \subseteq W
        BY <4>1
      <4>3. L(x, there) \subseteq W
        BY <1>0
      <4> HIDE DEF D
      <4>4. L(x, there) \cup D \subseteq W
        BY <4>2, <4>3
      <4> QED
        BY <4>4 DEF D, g
    <3> HIDE DEF B, W
    <3>2. ASSUME NEW x \in Entries, NEW f \in [Entries -> V] PROVE [there \in BOOLEAN |-> B(x, there, f)] \in V
      BY <3>1, <3>2 DEF W
    <3> HIDE DEF V
    <3> QED
      BY <3>2
  <2>2. Local(Entries, Lists, V, H)
    <3> SUFFICES ASSUME NEW x \in Entries, NEW f \in [Entries -> V], NEW g \in [Entries -> V],
                        \A y \in Lists[x] : f[y] = g[y]
                 PROVE  H[x][f] = H[x][g]
      BY DEF Local
    <3>1. ASSUME NEW there \in BOOLEAN PROVE B(x, there, f) = B(x, there, g)
      <4> DEFINE p(c) == f[c][(c \in A(x, there).kept)]
                 q(c) == g[c][(c \in A(x, there).kept)]
      <4>1. \A c \in T(x) : p(c) = q(c)
        BY <1>0
      <4> HIDE DEF p, q
      <4>2. {p(c) : c \in T(x)} = {q(c) : c \in T(x)}
        BY <4>1
      <4> QED
        BY <4>2 DEF p, q
    <3> HIDE DEF B
    <3>2. [there \in BOOLEAN |-> B(x, there, f)] = [there \in BOOLEAN |-> B(x, there, g)]
      BY <3>1
    <3> HIDE DEF V
    <3> QED
      BY <3>2
  <2>3. [there \in BOOLEAN |-> {}] \in V
    OBVIOUS
  <2> HIDE DEF H, V
  <2>4. Recursion(Entries, Lists, V, H)
    BY <2>1, <2>2, ListsFounded DEF Recursion
  <2>5. Ends(Entries, V, H)
    BY <2>3, <2>4, TreeRecursion
  <2> QED
    BY <2>5 DEF Ends
<1>2. PICK g \in [Entries -> V] : \A x \in Entries : g[x] = H[x][g]
  BY <1>1
<1>3. \A x \in Entries : g[x] = [there \in BOOLEAN |-> B(x, there, g)]
  <2> HIDE DEF B, V
  <2> QED
    BY <1>2
<1>4. \A f : \A x \in Entries : \A there \in BOOLEAN : B(x, there, f) = C(x, there, f)
  <2> TAKE f
  <2> TAKE x \in Entries
  <2> TAKE there \in BOOLEAN
  <2>1. A(x, there).rows = Ideal(skip, x)
    BY <1>0
  <2>2. B(x, there, f) = LET a == A(x, there)
                         IN  {Level(x, a)} \cup UNION {f[c][(c \in a.kept)] : c \in Opened(ModeOf(w, l), a.rows)}
    BY <2>1
  <2> HIDE DEF B
  <2> QED
    BY <2>2 DEF UpdatedRow
<1>5. IsBelow(w, l, skip, g)
  <2> HIDE DEF B, C, V
  <2>1. \A x \in Entries : g[x] = [there \in BOOLEAN |-> C(x, there, g)]
    <3> TAKE x \in Entries
    <3>1. [there \in BOOLEAN |-> B(x, there, g)] = [there \in BOOLEAN |-> C(x, there, g)]
      BY <1>4
    <3> QED
      BY <1>3, <3>1
  <2>2. g = [x \in Entries |-> g[x]]
    BY DEF V
  <2>3. g = [x \in Entries |-> [there \in BOOLEAN |-> C(x, there, g)]]
    BY <2>1, <2>2
  <2> QED
    BY <2>3 DEF IsBelow, C
<1>6. IsBelow(w, l, skip, fn)
  BY <1>5
<1>7. \A x, there : Below(w, l, skip, x, there) = fn[x][there]
  BY DEF Below, IsBelow
<1> HIDE DEF fn
<1>8. fn[m][was] = B(m, was, fn)
  <2>1. fn = [x \in Entries |-> [there \in BOOLEAN |-> C(x, there, fn)]]
    BY <1>6 DEF IsBelow
  <2> HIDE DEF B, C
  <2>2. fn[m] = [there \in BOOLEAN |-> C(m, there, fn)]
    BY <2>1
  <2> QED
    BY <1>4, <2>2
<1> QED
  BY <1>7, <1>8 DEF BelowOf, OpenedIn

LevelIs(w, l, skip, v) ==
    v.at \in Entries /\ v.rows = Ideal(skip, v.at) /\ v.kept \subseteq ToSet(w.rows[l][v.at]) /\ v.kept \subseteq Entries

LEMMA BelowIn ==
  ASSUME NEW w, NEW l, NEW skip, NEW m \in Entries, NEW was \in BOOLEAN, InRows(w, l),
         NEW v \in Below(w, l, skip, m, was)
  PROVE  \/ v.at = m /\ LevelIs(w, l, skip, v)
         \/ \E c \in OpenedIn(w, l, skip, m), there \in BOOLEAN : v \in Below(w, l, skip, c, there)
<1> DEFINE a == UpdatedRow(w, l, skip, m, was)
           O == OpenedIn(w, l, skip, m)
           D == UNION {Below(w, l, skip, c, (c \in a.kept)) : c \in O}
<1>1. Below(w, l, skip, m, was) = {Level(m, a)} \cup D
  <2>1. Below(w, l, skip, m, was) = BelowOf(w, l, skip, m, was)
    BY BelowIs
  <2>2. BelowOf(w, l, skip, m, was) = {Level(m, a)} \cup D
    BY DEF BelowOf
  <2> QED
    BY <2>1, <2>2
<1>2. RowIs(w, l, skip, m, a)
  BY UpdatedRowIs
<1> HIDE DEF a, O
<1>3. CASE v = Level(m, a)
  BY <1>2, <1>3 DEF Level, RowIs, LevelIs
<1>4. CASE v \in D
  <2>1. PICK c \in O : v \in Below(w, l, skip, c, (c \in a.kept))
    BY <1>4
  <2>2. (c \in a.kept) \in BOOLEAN
    OBVIOUS
  <2> QED
    BY <2>1, <2>2 DEF O
<1> HIDE DEF D
<1> QED
  BY <1>1, <1>3, <1>4

\* ... and below its row are the levels of what is opened.
LEMMA BelowHas ==
  ASSUME NEW w, NEW l, NEW skip, NEW m \in Entries, NEW was \in BOOLEAN, InRows(w, l)
  PROVE  /\ \E v \in Below(w, l, skip, m, was) : v.at = m
         /\ \A c \in OpenedIn(w, l, skip, m) : \E there \in BOOLEAN :
                Below(w, l, skip, c, there) \subseteq Below(w, l, skip, m, was)
         /\ OpenedIn(w, l, skip, m) \subseteq Lists[m]
<1> DEFINE a == UpdatedRow(w, l, skip, m, was)
           O == OpenedIn(w, l, skip, m)
           D == UNION {Below(w, l, skip, c, (c \in a.kept)) : c \in O}
<1>1. Below(w, l, skip, m, was) = {Level(m, a)} \cup D
  <2>1. Below(w, l, skip, m, was) = BelowOf(w, l, skip, m, was)
    BY BelowIs
  <2>2. BelowOf(w, l, skip, m, was) = {Level(m, a)} \cup D
    BY DEF BelowOf
  <2> QED
    BY <2>1, <2>2
<1>2. RowIs(w, l, skip, m, a)
  BY UpdatedRowIs
<1>3. O \subseteq Lists[m]
  BY <1>2 DEF RowIs, OpenedIn, Opened
<1> HIDE DEF a, O
<1>4. ASSUME NEW c \in O PROVE \E there \in BOOLEAN : Below(w, l, skip, c, there) \subseteq D
  <2>1. (c \in a.kept) \in BOOLEAN /\ Below(w, l, skip, c, (c \in a.kept)) \subseteq D
    OBVIOUS
  <2> QED
    BY <2>1
<1>5. Level(m, a).at = m
  BY DEF Level
<1> HIDE DEF D
<1> QED
  BY <1>1, <1>3, <1>4, <1>5 DEF O

LEMMA LevelsBelow ==
  ASSUME NEW w, NEW l, NEW skip, NEW m \in Entries, NEW was \in BOOLEAN, InRows(w, l)
  PROVE  \A v \in Below(w, l, skip, m, was) : LevelIs(w, l, skip, v)
<1> DEFINE S == {x \in Entries : \E there \in BOOLEAN : \E v \in Below(w, l, skip, x, there) : ~LevelIs(w, l, skip, v)}
<1> SUFFICES ASSUME S # {} PROVE FALSE
  OBVIOUS
<1>1. PICK x \in S : Lists[x] \cap S = {}
  BY ListsFounded DEF Founded
<1>2. PICK there \in BOOLEAN : \E v \in Below(w, l, skip, x, there) : ~LevelIs(w, l, skip, v)
  BY <1>1
<1>0. PICK v \in Below(w, l, skip, x, there) : ~LevelIs(w, l, skip, v)
  BY <1>2
<1>3. PICK c \in OpenedIn(w, l, skip, x), b \in BOOLEAN : v \in Below(w, l, skip, c, b)
  BY <1>0, BelowIn
<1>4. c \in Lists[x] /\ c \in Entries
  BY <1>1, BelowHas, ListsFounded
<1>5. c \in S
  BY <1>0, <1>3, <1>4
<1> QED
  BY <1>1, <1>4, <1>5

HasLevel(levels, p) == \E v \in levels : v.at = p

\* Which they are does not depend on the rows that were there.
LEMMA SameBelow ==
  ASSUME NEW w, NEW d, NEW l, NEW skip, InRows(w, l), InRows(d, l), ModeOf(w, l) = ModeOf(d, l), NEW p,
         NEW m \in Entries, NEW was \in BOOLEAN, NEW is \in BOOLEAN, HasLevel(Below(w, l, skip, m, was), p)
  PROVE  HasLevel(Below(d, l, skip, m, is), p)
<1> DEFINE S == {x \in Entries : \E a, b \in BOOLEAN :
                    HasLevel(Below(w, l, skip, x, a), p) /\ ~HasLevel(Below(d, l, skip, x, b), p)}
<1> SUFFICES ASSUME S # {} PROVE FALSE
  OBVIOUS
<1>1. PICK x \in S : Lists[x] \cap S = {}
  BY ListsFounded DEF Founded
<1>2. PICK a \in BOOLEAN, b \in BOOLEAN : HasLevel(Below(w, l, skip, x, a), p) /\ ~HasLevel(Below(d, l, skip, x, b), p)
  BY <1>1
<1>3. PICK v \in Below(w, l, skip, x, a) : v.at = p
  BY <1>2 DEF HasLevel
<1>4. p # x
  <2>1. \E u \in Below(d, l, skip, x, b) : u.at = x
    BY BelowHas
  <2> QED
    BY <1>2, <2>1 DEF HasLevel
<1>5. PICK c \in OpenedIn(w, l, skip, x), there \in BOOLEAN : v \in Below(w, l, skip, c, there)
  BY <1>3, <1>4, BelowIn
<1>6. c \in OpenedIn(d, l, skip, x)
  BY <1>5 DEF OpenedIn
<1>7. PICK too \in BOOLEAN : Below(d, l, skip, c, too) \subseteq Below(d, l, skip, x, b)
  BY <1>6, BelowHas
<1>8. HasLevel(Below(w, l, skip, c, there), p) /\ ~HasLevel(Below(d, l, skip, c, too), p)
  BY <1>2, <1>3, <1>5, <1>7 DEF HasLevel
<1>9. c \in Lists[x] /\ c \in Entries
  BY <1>1, <1>5, BelowHas, ListsFounded
<1> QED
  BY <1>1, <1>8, <1>9

(* A whole list *)

SkipOf(w, l, n) == {e \in Entries : HiddenBy(ModeOf(w, l), e) \/ Skipped(OptOf(w, l), e, n)}
UpOf(w, l) == IF HasUp(w, l) THEN <<Up>> ELSE <<>>

\* The rows at the top are none, the menuconfig that was gone into, or children
\* of the menu that is shown.
TopOk(w, l) ==
    LET r == RootOf(w, l)
        t == w.rows[l][Top]
    IN  \/ t = <<>>
        \/ r \in Entries /\ Alone(w, l) /\ t = Append(UpOf(w, l), r)
        \/ r \in Entries /\ ~Alone(w, l) /\ \E s : InOrder(s, r, 1) /\ t = UpOf(w, l) \o s
RowsLike(w, l) == RootOf(w, l) \in Entries \cup {Nobody} /\ InRows(w, l) /\ TopOk(w, l)

IdealTop(w, l, n) ==
    IF Alone(w, l) THEN Append(UpOf(w, l), RootOf(w, l))
    ELSE UpOf(w, l) \o Ideal(SkipOf(w, l, n), RootOf(w, l))

IsLevel(w, l, n, v) ==
    /\ v.at = Top => v.rows = IdealTop(w, l, n)
    /\ v.at # Top => v.at \in Entries /\ v.rows = Ideal(SkipOf(w, l, n), v.at)
    /\ v.kept \subseteq ToSet(w.rows[l][v.at]) /\ v.kept \subseteq Entries

LEMMA TopNot == Top \notin Entries /\ Up \notin Entries /\ Up # Top
BY RootAssumption DEF Up, Top

LEMMA UpFirst ==
  ASSUME NEW w, NEW l, NEW s \in Seq(Entries)
  PROVE  ToSet(UpOf(w, l) \o s) \ {Up} = ToSet(s)
<1>1. Up \notin Entries
  BY TopNot
<1>2. CASE HasUp(w, l)
  <2> DEFINE t == <<Up>> \o s
  <2>0. UpOf(w, l) \o s = t
    BY <1>2 DEF UpOf
  <2>1. /\ DOMAIN s = 1 .. Len(s) /\ Len(s) \in Nat /\ \A i \in DOMAIN s : s[i] \in Entries
        /\ DOMAIN t = 1 .. Len(s) + 1 /\ t[1] = Up /\ \A i \in DOMAIN s : t[i + 1] = s[i]
    OBVIOUS
  <2> HIDE DEF t
  <2>2. \A i \in DOMAIN t : i # 1 => i - 1 \in DOMAIN s /\ t[i] = s[i - 1]
    <3> TAKE i \in DOMAIN t
    <3> HAVE i # 1
    <3>1. i - 1 \in DOMAIN s /\ (i - 1) + 1 = i
      BY <2>1
    <3> QED
      BY <2>1, <3>1
  <2>3. \A i \in DOMAIN s : i + 1 \in DOMAIN t
    BY <2>1
  <2>4. ToSet(t) \ {Up} = ToSet(s)
    BY <1>1, <2>1, <2>2, <2>3 DEF ToSet
  <2> QED
    BY <2>0, <2>4
<1>3. CASE ~HasUp(w, l)
  <2>1. UpOf(w, l) \o s = s
    BY <1>3 DEF UpOf
  <2> QED
    BY <1>1, <2>1 DEF ToSet
<1> QED
  BY <1>2, <1>3

TopWas(w, l) == LET were == w.rows[l][Top] IN IF HasUp(w, l) /\ were = <<>> THEN <<Up>> ELSE were
AloneLevel(w, l) ==
    LET r == RootOf(w, l)
        top == TopWas(w, l)
    IN  [at |-> Top, rows |-> IF r \in ToSet(top) THEN top ELSE Append(top, r), kept |-> {r} \cap ToSet(top)]
TopUpdated(w, l, n) == Updated(SkipOf(w, l, n), RootOf(w, l), TopWas(w, l))

LEMMA AloneLevelIs ==
  ASSUME NEW w, NEW l, NEW n, RowsLike(w, l), RootOf(w, l) \in Entries, Alone(w, l)
  PROVE  IsLevel(w, l, n, AloneLevel(w, l))
<1> DEFINE r == RootOf(w, l)
           top == TopWas(w, l)
           were == w.rows[l][Top]
           up == UpOf(w, l)
<1>0. Up \notin Entries /\ r \in Entries /\ up \in {<<>>, <<Up>>} /\ up = (IF HasUp(w, l) THEN <<Up>> ELSE <<>>)
  BY TopNot DEF UpOf
<1>1. were = <<>> \/ were = Append(up, r)
  BY DEF RowsLike, TopOk
<1>2. top = IF were = <<>> THEN up ELSE were
  BY DEF TopWas, UpOf
<1>3. AloneLevel(w, l) = [at |-> Top, rows |-> IF r \in ToSet(top) THEN top ELSE Append(top, r), kept |-> {r} \cap ToSet(top)]
  BY DEF AloneLevel
<1>4. IdealTop(w, l, n) = Append(up, r)
  BY DEF IdealTop
<1> HIDE DEF r, top, were, up
<1>5. ToSet(up) \subseteq {Up} /\ r \notin ToSet(up)
  BY <1>0 DEF ToSet
<1>6. r \in ToSet(Append(up, r)) /\ Append(up, r) # <<>>
  <2>1. up \in Seq({Up, r})
    <3>1. <<>> \in Seq({Up, r}) /\ <<Up>> \in Seq({Up, r})
      OBVIOUS
    <3> QED
      BY <1>0, <3>1
  <2>2. LET m == Append(up, r) IN m # <<>> /\ Len(up) + 1 \in DOMAIN m /\ m[Len(up) + 1] = r
    BY <2>1
  <2> QED
    BY <2>2 DEF ToSet
<1>7. CASE were = <<>>
  <2>1. AloneLevel(w, l) = [at |-> Top, rows |-> Append(up, r), kept |-> {}]
    BY <1>2, <1>3, <1>5, <1>6, <1>7
  <2> QED
    BY <1>4, <2>1 DEF IsLevel
<1>8. CASE were # <<>>
  <2>1. top = Append(up, r) /\ were = top
    BY <1>1, <1>2, <1>8
  <2>2. AloneLevel(w, l) = [at |-> Top, rows |-> Append(up, r), kept |-> {r} \cap ToSet(were)]
    BY <1>3, <1>6, <2>1
  <2> QED
    BY <1>0, <1>4, <2>2 DEF IsLevel, were
<1> QED
  BY <1>7, <1>8

LEMMA TopUpdatedIs ==
  ASSUME NEW w, NEW l, NEW n, RowsLike(w, l), RootOf(w, l) \in Entries, ~Alone(w, l)
  PROVE  /\ IsLevel(w, l, n, Level(Top, TopUpdated(w, l, n)))
         /\ Opened(ModeOf(w, l), TopUpdated(w, l, n).rows) = OpenedIn(w, l, SkipOf(w, l, n), RootOf(w, l))
<1> DEFINE r == RootOf(w, l)
           were == w.rows[l][Top]
           up == UpOf(w, l)
           skip == SkipOf(w, l, n)
           ideal == Ideal(skip, r)
<1>0. up \in {<<>>, <<Up>>} /\ up \o <<>> = up
  <2>1. up \in {<<>>, <<Up>>}
    BY DEF UpOf
  <2>2. <<>> \o <<>> = <<>> /\ <<Up>> \o <<>> = <<Up>>
    OBVIOUS
  <2> QED
    BY <2>1, <2>2
<1>1. were = <<>> \/ \E s : InOrder(s, r, 1) /\ were = up \o s
  BY DEF RowsLike, TopOk
<1>2. \E s : InOrder(s, r, 1) /\ TopWas(w, l) = up \o s /\ ToSet(s) \subseteq ToSet(were)
  <2>1. CASE were = <<>>
    <3>1. InOrder(<<>>, r, 1) /\ ToSet(<<>>) = {}
      BY DEF InOrder, ToSet
    <3>2. TopWas(w, l) = up
      BY <2>1 DEF TopWas, UpOf
    <3> QED
      BY <1>0, <3>1, <3>2
  <2>2. CASE were # <<>>
    <3>1. PICK s : InOrder(s, r, 1) /\ were = up \o s
      BY <1>1, <2>2
    <3>2. TopWas(w, l) = were
      BY <2>2 DEF TopWas
    <3>3. ToSet(up \o s) \ {Up} = ToSet(s)
      BY <3>1, UpFirst DEF InOrder
    <3> QED
      BY <3>1, <3>2, <3>3
  <2> QED
    BY <2>1, <2>2
<1>3. PICK s : InOrder(s, r, 1) /\ TopWas(w, l) = up \o s /\ ToSet(s) \subseteq ToSet(were)
  BY <1>2
<1>4. /\ Updated(skip, r, up \o s).rows = up \o ideal /\ InOrder(ideal, r, 1)
      /\ Updated(skip, r, up \o s).kept \subseteq ToSet(s)
  <2> HIDE DEF up, skip
  <2> QED
    BY <1>0, <1>3, UpdatedIs
<1>5. TopUpdated(w, l, n).rows = up \o ideal /\ TopUpdated(w, l, n).kept \subseteq ToSet(were) /\ TopUpdated(w, l, n).kept \subseteq Entries
  <2>1. ToSet(s) \subseteq Entries
    BY <1>3 DEF InOrder, ToSet
  <2> QED
    BY <1>3, <1>4, <2>1 DEF TopUpdated
<1>6. IsLevel(w, l, n, Level(Top, TopUpdated(w, l, n)))
  BY <1>5 DEF Level, IsLevel, IdealTop
<1>7. ToSet(up \o ideal) \ {Up} = ToSet(ideal) /\ ToSet(ideal) \ {Up} = ToSet(ideal)
  <2>1. ideal \in Seq(Entries)
    BY <1>4 DEF InOrder
  <2>2. ToSet(ideal) \subseteq Entries
    BY <2>1 DEF ToSet
  <2> HIDE DEF ideal
  <2> QED
    BY <2>1, <2>2, UpFirst, TopNot
<1> QED
  BY <1>5, <1>6, <1>7 DEF Opened, OpenedIn

LEMMA LevelsAre ==
  ASSUME NEW w, NEW l, NEW n, RowsLike(w, l)
  PROVE  LET r == RootOf(w, l)
             skip == SkipOf(w, l, n)
             a == TopUpdated(w, l, n)
         IN  /\ r = Nobody => LevelsOf(w, l, n) = {}
             /\ r # Nobody => r \in Entries
             /\ r # Nobody /\ Alone(w, l) =>
                   LevelsOf(w, l, n) = {AloneLevel(w, l)} \cup Below(w, l, skip, r, r \in ToSet(TopWas(w, l)))
             /\ r # Nobody /\ ~Alone(w, l) =>
                   LevelsOf(w, l, n) = {Level(Top, a)}
                      \cup UNION {Below(w, l, skip, c, c \in a.kept) : c \in OpenedIn(w, l, skip, r)}
<1> DEFINE r == RootOf(w, l)
           skip == SkipOf(w, l, n)
           a == TopUpdated(w, l, n)
<1>1. r = Nobody \/ r \in Entries
  BY DEF RowsLike
<1>2. r = Nobody => LevelsOf(w, l, n) = {}
  BY DEF LevelsOf
<1>3. r # Nobody /\ Alone(w, l) =>
         LevelsOf(w, l, n) = {AloneLevel(w, l)} \cup Below(w, l, skip, r, r \in ToSet(TopWas(w, l)))
  BY DEF LevelsOf, AloneLevel, TopWas, SkipOf
<1>4. ASSUME r # Nobody, ~Alone(w, l)
      PROVE  LevelsOf(w, l, n) = {Level(Top, a)}
                \cup UNION {Below(w, l, skip, c, c \in a.kept) : c \in OpenedIn(w, l, skip, r)}
  <2>1. LevelsOf(w, l, n) = {Level(Top, a)}
                \cup UNION {Below(w, l, skip, c, c \in a.kept) : c \in Opened(ModeOf(w, l), a.rows)}
    BY <1>4 DEF LevelsOf, TopUpdated, TopWas, SkipOf
  <2>2. Opened(ModeOf(w, l), a.rows) = OpenedIn(w, l, skip, r)
    BY <1>1, <1>4, TopUpdatedIs
  <2> QED
    BY <2>1, <2>2
<1> QED
  BY <1>1, <1>2, <1>3, <1>4

LEMMA OpenedThere ==
  ASSUME NEW w, NEW l, NEW skip, NEW m \in Entries, InRows(w, l)
  PROVE  OpenedIn(w, l, skip, m) \subseteq Entries
<1>1. TRUE \in BOOLEAN
  OBVIOUS
<1>2. OpenedIn(w, l, skip, m) \subseteq Lists[m]
  BY <1>1, BelowHas
<1> QED
  BY <1>2, ListsFounded

LEMMA EachLevelIs ==
  ASSUME NEW w, NEW l, NEW n, RowsLike(w, l), NEW v \in LevelsOf(w, l, n)
  PROVE  IsLevel(w, l, n, v)
<1> DEFINE r == RootOf(w, l)
           skip == SkipOf(w, l, n)
           a == TopUpdated(w, l, n)
<1>1. r # Nobody /\ r \in Entries /\ InRows(w, l)
  BY LevelsAre DEF RowsLike
<1>2. ASSUME NEW c \in Entries, NEW b \in BOOLEAN, v \in Below(w, l, skip, c, b) PROVE IsLevel(w, l, n, v)
  <2>1. LevelIs(w, l, skip, v)
    BY <1>1, <1>2, LevelsBelow
  <2> QED
    BY <2>1, TopNot DEF LevelIs, IsLevel
<1>3. CASE Alone(w, l)
  <2>1. v = AloneLevel(w, l) \/ v \in Below(w, l, skip, r, r \in ToSet(TopWas(w, l)))
    BY <1>1, <1>3, LevelsAre
  <2>2. (r \in ToSet(TopWas(w, l))) \in BOOLEAN
    OBVIOUS
  <2> QED
    BY <1>1, <1>2, <1>3, <2>1, <2>2, AloneLevelIs
<1>4. CASE ~Alone(w, l)
  <2>1. v = Level(Top, a) \/ \E c \in OpenedIn(w, l, skip, r) : v \in Below(w, l, skip, c, c \in a.kept)
    BY <1>1, <1>4, LevelsAre
  <2>2. CASE v = Level(Top, a)
    BY <1>1, <1>4, <2>2, TopUpdatedIs
  <2>3. ASSUME NEW c \in OpenedIn(w, l, skip, r), v \in Below(w, l, skip, c, c \in a.kept) PROVE IsLevel(w, l, n, v)
    <3>1. c \in Entries /\ (c \in a.kept) \in BOOLEAN
      BY <1>1, OpenedThere
    <3> QED
      BY <1>2, <2>3, <3>1
  <2> QED
    BY <2>1, <2>2, <2>3
<1> QED
  BY <1>3, <1>4

\* The lists w and d show the same menu, under the same conditions.
Alike(w, d, l, n, m) ==
    /\ RowsLike(w, l) /\ RowsLike(d, l)
    /\ ModeOf(w, l) = ModeOf(d, l) /\ RootOf(w, l) = RootOf(d, l) /\ SkipOf(w, l, n) = SkipOf(d, l, m)

LEMMA SameTop ==
  ASSUME NEW w, NEW d, NEW l, NEW n, NEW m, Alike(w, d, l, n, m)
  PROVE  (Alone(w, l) <=> Alone(d, l)) /\ IdealTop(w, l, n) = IdealTop(d, l, m)
<1>1. (Alone(w, l) <=> Alone(d, l)) /\ (HasUp(w, l) <=> HasUp(d, l))
  BY DEF Alike, Alone, HasUp
<1>2. UpOf(w, l) = UpOf(d, l)
  BY <1>1 DEF UpOf
<1> QED
  BY <1>1, <1>2 DEF Alike, IdealTop

LEMMA SameShown ==
  ASSUME NEW w, NEW d, NEW l, NEW n, NEW m, Alike(w, d, l, n, m), NEW p, HasLevel(LevelsOf(w, l, n), p)
  PROVE  HasLevel(LevelsOf(d, l, m), p)
<1> DEFINE r == RootOf(w, l)
           skip == SkipOf(w, l, n)
           a == TopUpdated(w, l, n)
           b == TopUpdated(d, l, m)
<1>0. /\ RowsLike(w, l) /\ RowsLike(d, l) /\ InRows(w, l) /\ InRows(d, l) /\ ModeOf(w, l) = ModeOf(d, l)
      /\ RootOf(d, l) = r /\ SkipOf(d, l, m) = skip /\ OpenedIn(d, l, skip, r) = OpenedIn(w, l, skip, r)
  BY DEF Alike, RowsLike, OpenedIn
<1>1. PICK v \in LevelsOf(w, l, n) : v.at = p
  BY DEF HasLevel
<1>2. r # Nobody /\ r \in Entries
  BY <1>0, <1>1, LevelsAre
<1>3. CASE Alone(w, l)
  <2>1. LevelsOf(d, l, m) = {AloneLevel(d, l)} \cup Below(d, l, skip, r, r \in ToSet(TopWas(d, l)))
    BY <1>0, <1>2, <1>3, SameTop, LevelsAre
  <2>2. v = AloneLevel(w, l) \/ v \in Below(w, l, skip, r, r \in ToSet(TopWas(w, l)))
    BY <1>0, <1>1, <1>2, <1>3, LevelsAre
  <2>3. CASE v = AloneLevel(w, l)
    <3>1. AloneLevel(w, l).at = Top /\ AloneLevel(d, l).at = Top
      BY DEF AloneLevel
    <3>2. AloneLevel(d, l) \in LevelsOf(d, l, m) /\ p = Top
      BY <1>1, <2>1, <2>3, <3>1
    <3> QED
      BY <3>1, <3>2 DEF HasLevel
  <2>4. CASE v \in Below(w, l, skip, r, r \in ToSet(TopWas(w, l)))
    <3>1. (r \in ToSet(TopWas(w, l))) \in BOOLEAN /\ (r \in ToSet(TopWas(d, l))) \in BOOLEAN
      OBVIOUS
    <3>2. HasLevel(Below(d, l, skip, r, r \in ToSet(TopWas(d, l))), p)
      <4> DEFINE was == r \in ToSet(TopWas(w, l))
                 is == r \in ToSet(TopWas(d, l))
      <4>1. was \in BOOLEAN /\ is \in BOOLEAN /\ HasLevel(Below(w, l, skip, r, was), p)
        BY <1>1, <2>4, <3>1 DEF HasLevel
      <4> HIDE DEF was, is, r, skip
      <4>2. HasLevel(Below(d, l, skip, r, is), p)
        BY <1>0, <1>2, <4>1, SameBelow
      <4> QED
        BY <4>2 DEF is
    <3> QED
      BY <2>1, <3>2 DEF HasLevel
  <2> QED
    BY <2>2, <2>3, <2>4
<1>4. CASE ~Alone(w, l)
  <2>1. LevelsOf(d, l, m) = {Level(Top, b)}
                      \cup UNION {Below(d, l, skip, c, c \in b.kept) : c \in OpenedIn(d, l, skip, r)}
    BY <1>0, <1>2, <1>4, SameTop, LevelsAre
  <2>2. v = Level(Top, a) \/ \E c \in OpenedIn(w, l, skip, r) : v \in Below(w, l, skip, c, c \in a.kept)
    BY <1>0, <1>1, <1>2, <1>4, LevelsAre
  <2>3. CASE v = Level(Top, a)
    BY <1>1, <2>1, <2>3 DEF Level, HasLevel
  <2>4. ASSUME NEW c \in OpenedIn(w, l, skip, r), v \in Below(w, l, skip, c, c \in a.kept)
        PROVE  HasLevel(LevelsOf(d, l, m), p)
    <3> DEFINE was == c \in a.kept
               is == c \in b.kept
    <3>1. c \in Entries /\ was \in BOOLEAN /\ is \in BOOLEAN /\ HasLevel(Below(w, l, skip, c, was), p)
      BY <1>0, <1>1, <1>2, <2>4, OpenedThere DEF HasLevel
    <3>2. c \in OpenedIn(d, l, skip, r) /\ Below(d, l, skip, c, is) \subseteq LevelsOf(d, l, m)
      BY <1>0, <2>1, <2>4
    <3> HIDE DEF was, is, r, skip
    <3>3. HasLevel(Below(d, l, skip, c, is), p)
      BY <1>0, <3>1, SameBelow
    <3> QED
      BY <3>2, <3>3 DEF HasLevel
  <2> QED
    BY <2>2, <2>3, <2>4
<1> QED
  BY <1>3, <1>4

LEMMA RowsOfIs ==
  ASSUME NEW w, NEW l, NEW n, RowsLike(w, l), NEW p \in Entries \cup {Top}
  PROVE  RowsOf(LevelsOf(w, l, n))[p] =
             IF ~HasLevel(LevelsOf(w, l, n), p) THEN <<>>
             ELSE IF p = Top THEN IdealTop(w, l, n) ELSE Ideal(SkipOf(w, l, n), p)
<1> DEFINE levels == LevelsOf(w, l, n)
           at == {v \in levels : v.at = p}
           u == CHOOSE v \in at : TRUE
<1>1. RowsOf(levels)[p] = IF at = {} THEN <<>> ELSE u.rows
  BY DEF RowsOf
<1>2. at = {} <=> ~HasLevel(levels, p)
  BY DEF HasLevel
<1>3. at # {} => u \in levels /\ u.at = p
  OBVIOUS
<1>4. \A v \in levels : IsLevel(w, l, n, v)
  BY EachLevelIs
<1> HIDE DEF u, levels, at
<1> QED
  BY <1>1, <1>2, <1>3, <1>4 DEF IsLevel, levels

\* The rows that were there do not matter.
LEMMA SameRows ==
  ASSUME NEW w, NEW d, NEW l, NEW n, NEW m, Alike(w, d, l, n, m)
  PROVE  RowsOf(LevelsOf(w, l, n)) = RowsOf(LevelsOf(d, l, m))
<1> DEFINE P == RowsOf(LevelsOf(w, l, n))
           Q == RowsOf(LevelsOf(d, l, m))
<1>1. Alike(d, w, l, m, n)
  BY DEF Alike
<1>2. ASSUME NEW p \in Entries \cup {Top} PROVE P[p] = Q[p]
  <2>1. HasLevel(LevelsOf(w, l, n), p) <=> HasLevel(LevelsOf(d, l, m), p)
    BY <1>1, SameShown
  <2>2. IdealTop(w, l, n) = IdealTop(d, l, m) /\ SkipOf(w, l, n) = SkipOf(d, l, m) /\ RowsLike(w, l) /\ RowsLike(d, l)
    BY SameTop DEF Alike
  <2> QED
    BY <2>1, <2>2, RowsOfIs
<1>3. P = [p \in Entries \cup {Top} |-> P[p]] /\ Q = [p \in Entries \cup {Top} |-> Q[p]]
  BY DEF RowsOf
<1> HIDE DEF P, Q
<1>4. P = Q
  BY <1>2, <1>3
<1> QED
  BY <1>4 DEF P, Q

(* The state of the lists *)

IsWin(w) ==
    w = [mode |-> w.mode, opt |-> w.opt, root |-> w.root, left |-> w.left, rows |-> w.rows, icon |-> w.icon,
         flagged |-> w.flagged, late |-> w.late]

ItemRows == [Entries \cup {Top} -> Seq(Items)]
WinOk(w) == /\ IsWin(w) /\ w.rows \in [Widgets -> ItemRows] /\ w.flagged \subseteq Entries /\ DOMAIN w.icon = Widgets
            /\ \A l \in {"config", "menu"} : RowsLike(w, l)

RowsSet(w, l, R, d) ==
    /\ IsWin(d) /\ d.rows[l] = R /\ \A k \in Widgets \ {l} : d.rows[k] = w.rows[k]
    /\ d.mode = w.mode /\ d.opt = w.opt /\ d.root = w.root /\ d.left = w.left /\ d.icon = w.icon
    /\ d.flagged = w.flagged /\ d.late = w.late /\ d.rows \in [Widgets -> ItemRows]

LEMMA SetRows ==
  ASSUME NEW w, WinOk(w), NEW l \in Widgets, NEW R \in ItemRows
  PROVE  RowsSet(w, l, R, [w EXCEPT !.rows[l] = R])
<1> DEFINE d == [w EXCEPT !.rows[l] = R]
           r == [w.rows EXCEPT ![l] = R]
<1>1. r \in [Widgets -> ItemRows] /\ r[l] = R /\ \A k \in Widgets \ {l} : r[k] = w.rows[k]
  BY DEF WinOk
<1>2. d = [w EXCEPT !.rows = r]
  OBVIOUS
<1> HIDE DEF r
<1>3. d = [mode |-> w.mode, opt |-> w.opt, root |-> w.root, left |-> w.left, rows |-> r, icon |-> w.icon,
           flagged |-> w.flagged, late |-> w.late]
  BY <1>2 DEF WinOk, IsWin
<1> HIDE DEF d
<1> QED
  BY <1>1, <1>3 DEF RowsSet, IsWin, d

Wanted(w, l, n) == RowsOf(LevelsOf([w EXCEPT !.rows[l] = NoRows], l, n))

\* The list l shows the same menu in the same way in w and d.
SeesSame(w, d, l) == ModeOf(w, l) = ModeOf(d, l) /\ OptOf(w, l) = OptOf(d, l) /\ RootOf(w, l) = RootOf(d, l)
SameView(w, d) == w.mode = d.mode /\ w.opt = d.opt /\ w.root = d.root /\ w.left = d.left

LEMMA SameViewIs ==
  ASSUME NEW w, NEW d, SameView(w, d), NEW l
  PROVE  SeesSame(w, d, l)
BY DEF SeesSame, SameView, ModeOf, OptOf, RootOf

LEMMA SeesSameIs ==
  ASSUME NEW w, NEW d, NEW l, SeesSame(w, d, l)
  PROVE  /\ (HasUp(w, l) <=> HasUp(d, l)) /\ (Alone(w, l) <=> Alone(d, l)) /\ UpOf(w, l) = UpOf(d, l)
         /\ \A n : SkipOf(w, l, n) = SkipOf(d, l, n)
<1>1. (HasUp(w, l) <=> HasUp(d, l)) /\ (Alone(w, l) <=> Alone(d, l))
  BY DEF SeesSame, HasUp, Alone
<1> QED
  BY <1>1 DEF SeesSame, UpOf, SkipOf

LEMMA IdealInOrder ==
  ASSUME NEW skip, NEW m \in Entries
  PROVE  InOrder(Ideal(skip, m), m, 1) /\ Ideal(skip, m) \in Seq(Entries)
<1>1. InOrder(<<>>, m, 1) /\ <<>> \in {<<>>, <<Up>>}
  BY DEF InOrder
<1>2. InOrder(Ideal(skip, m), m, 1)
  BY <1>1, UpdatedIs
<1> QED
  BY <1>2 DEF InOrder

LEMMA NoRowsLike ==
  ASSUME NEW d, NEW l, d.rows[l] = NoRows, RootOf(d, l) \in Entries \cup {Nobody}
  PROVE  RowsLike(d, l)
<1>1. \A p \in Entries \cup {Top} : d.rows[l][p] = <<>>
  BY DEF NoRows
<1>2. \A x \in Entries : InOrder(<<>>, x, 1)
  BY DEF InOrder
<1> QED
  BY <1>1, <1>2 DEF RowsLike, InRows, TopOk

LEMMA NoRowsIn == NoRows \in ItemRows
BY DEF NoRows, ItemRows

LEMMA WantedIs ==
  ASSUME NEW w, WinOk(w), NEW l \in {"config", "menu"}, NEW n
  PROVE  RowsOf(LevelsOf(w, l, n)) = Wanted(w, l, n)
<1> DEFINE d == [w EXCEPT !.rows[l] = NoRows]
<1>1. l \in Widgets /\ NoRows \in ItemRows
  BY NoRowsIn DEF Widgets
<1>2. d.rows[l] = NoRows /\ SeesSame(w, d, l)
  <2>1. RowsSet(w, l, NoRows, d)
    BY <1>1, SetRows
  <2>2. SameView(w, d)
    BY <2>1 DEF SameView, RowsSet
  <2> QED
    BY <2>1, <2>2, SameViewIs DEF RowsSet
<1> HIDE DEF d
<1>3. RowsLike(w, l) /\ RowsLike(d, l)
  BY <1>2, NoRowsLike DEF WinOk, RowsLike, SeesSame
<1>4. Alike(w, d, l, n, n)
  BY <1>2, <1>3, SeesSameIs DEF Alike, SeesSame
<1>5. RowsOf(LevelsOf(w, l, n)) = RowsOf(LevelsOf(d, l, n))
  BY <1>4, SameRows
<1> QED
  BY <1>5 DEF Wanted, d

\* ... and do not matter for what is wanted.
LEMMA SameWanted ==
  ASSUME NEW w, WinOk(w), NEW d, WinOk(d), NEW l \in {"config", "menu"}, SeesSame(w, d, l), NEW n, NEW m,
         SkipOf(w, l, n) = SkipOf(w, l, m)
  PROVE  Wanted(w, l, n) = Wanted(d, l, m)
<1>1. Alike(w, d, l, n, m)
  BY SeesSameIs DEF Alike, WinOk, SeesSame
<1> QED
  BY <1>1, SameRows, WantedIs

\* What is made is as it was.
LEMMA LikeAfter ==
  ASSUME NEW w, NEW l, NEW n, RowsLike(w, l)
  PROVE  /\ RowsOf(LevelsOf(w, l, n)) \in ItemRows
         /\ \A d : SeesSame(w, d, l) /\ d.rows[l] = RowsOf(LevelsOf(w, l, n)) => RowsLike(d, l)
<1> DEFINE R == RowsOf(LevelsOf(w, l, n))
           r == RootOf(w, l)
           top == IdealTop(w, l, n)
<1>0. r \in Entries \cup {Nobody} /\ Entries \subseteq Items /\ Up \in Items
  BY DEF RowsLike, Items
<1>1. ASSUME NEW x \in Entries PROVE InOrder(R[x], x, 1) /\ R[x] \in Seq(Entries)
  <2>1. R[x] = <<>> \/ R[x] = Ideal(SkipOf(w, l, n), x)
    BY RowsOfIs, TopNot
  <2>2. InOrder(<<>>, x, 1) /\ <<>> \in Seq(Entries)
    BY DEF InOrder
  <2> HIDE DEF R
  <2> QED
    BY <2>1, <2>2, IdealInOrder
<1>2. R[Top] = <<>> \/ (R[Top] = top /\ r \in Entries)
  <2>1. R[Top] = <<>> \/ (R[Top] = top /\ LevelsOf(w, l, n) # {})
    BY RowsOfIs DEF HasLevel
  <2> QED
    BY <1>0, <2>1, LevelsAre
<1>3. ASSUME r \in Entries PROVE top \in Seq(Items)
  <2>1. UpOf(w, l) \in Seq(Items)
    <3>1. <<>> \in Seq(Items) /\ <<Up>> \in Seq(Items)
      BY <1>0
    <3> QED
      BY <3>1 DEF UpOf
  <2>2. Ideal(SkipOf(w, l, n), r) \in Seq(Items)
    <3>1. Ideal(SkipOf(w, l, n), r) \in Seq(Entries)
      BY <1>3, IdealInOrder
    <3> QED
      BY <1>0, <3>1
  <2> QED
    BY <1>0, <1>3, <2>1, <2>2 DEF IdealTop
<1>4. R \in ItemRows
  <2>1. R = [p \in Entries \cup {Top} |-> R[p]]
    BY DEF RowsOf
  <2> HIDE DEF R, top
  <2>2. \A p \in Entries \cup {Top} : R[p] \in Seq(Items)
    <3>1. \A x \in Entries : R[x] \in Seq(Items)
      BY <1>0, <1>1
    <3>2. <<>> \in Seq(Items)
      OBVIOUS
    <3> QED
      BY <1>2, <1>3, <3>1, <3>2
  <2> QED
    BY <2>1, <2>2 DEF ItemRows
<1>5. ASSUME NEW d, SeesSame(w, d, l), d.rows[l] = R PROVE RowsLike(d, l)
  <2>1. InRows(d, l) /\ RootOf(d, l) = r
    BY <1>1, <1>5 DEF InRows, SeesSame
  <2>2. TopOk(d, l)
    <3>1. d.rows[l][Top] = R[Top]
      BY <1>5
    <3>2. (Alone(w, l) <=> Alone(d, l)) /\ UpOf(w, l) = UpOf(d, l)
      BY <1>5, SeesSameIs
    <3> HIDE DEF R
    <3>3. CASE R[Top] = <<>>
      BY <3>1, <3>3 DEF TopOk
    <3>4. CASE R[Top] # <<>> /\ Alone(w, l)
      BY <1>2, <2>1, <3>1, <3>2, <3>4 DEF TopOk, IdealTop
    <3>5. CASE R[Top] # <<>> /\ ~Alone(w, l)
      <4>1. r \in Entries /\ R[Top] = UpOf(d, l) \o Ideal(SkipOf(w, l, n), r) /\ InOrder(Ideal(SkipOf(w, l, n), r), r, 1)
        BY <1>2, <3>2, <3>5, IdealInOrder DEF IdealTop
      <4> QED
        BY <2>1, <3>1, <3>2, <3>5, <4>1 DEF TopOk
    <3> QED
      BY <3>3, <3>4, <3>5
  <2> QED
    BY <1>0, <2>1, <2>2 DEF RowsLike
<1> QED
  BY <1>4, <1>5

(* What the rows show *)

Due(w, l, tested, all, k, e) == (k = l /\ (e \notin tested \/ all)) \/ e \in tested \cap w.flagged
IsDrawn(w, l, tested, all, n, d) ==
    /\ IsWin(d) /\ SameView(w, d) /\ d.rows = w.rows /\ d.late = w.late /\ d.flagged = w.flagged \ tested
    /\ DOMAIN d.icon = Widgets
    /\ \A k \in Widgets, e \in Entries :
          d.icon[k][e] = IF e \notin RowsIn(w, k) THEN "none"
                         ELSE IF Due(w, l, tested, all, k, e) THEN Shows(w, k, e, n) ELSE w.icon[k][e]

LEMMA DrawnIs ==
  ASSUME NEW w, IsWin(w), NEW l, NEW tested, NEW all, NEW n
  PROVE  IsDrawn(w, l, tested, all, n, Drawn(w, l, tested, all, n))
<1> DEFINE d == Drawn(w, l, tested, all, n)
           icon == [k \in Widgets |-> [e \in Entries |->
                      IF e \notin RowsIn(w, k) THEN "none"
                      ELSE IF Due(w, l, tested, all, k, e) THEN Shows(w, k, e, n) ELSE w.icon[k][e]]]
<1>1. d = [w EXCEPT !.icon = icon, !.flagged = w.flagged \ tested]
  BY DEF Drawn, Due
<1>2. DOMAIN icon = Widgets /\ \A k \in Widgets, e \in Entries :
          icon[k][e] = IF e \notin RowsIn(w, k) THEN "none"
                       ELSE IF Due(w, l, tested, all, k, e) THEN Shows(w, k, e, n) ELSE w.icon[k][e]
  OBVIOUS
<1> HIDE DEF icon, d
<1>3. d = [mode |-> w.mode, opt |-> w.opt, root |-> w.root, left |-> w.left, rows |-> w.rows, icon |-> icon,
           flagged |-> w.flagged \ tested, late |-> w.late]
  BY <1>1 DEF IsWin
<1>4. IsWin(d) /\ SameView(w, d) /\ d.rows = w.rows /\ d.late = w.late /\ d.flagged = w.flagged \ tested /\ d.icon = icon
  BY <1>3 DEF IsWin, SameView
<1>5. IsDrawn(w, l, tested, all, n, d)
  BY <1>2, <1>4 DEF IsDrawn
<1> QED
  BY <1>5 DEF d

LEMMA SameShows ==
  ASSUME NEW w, NEW d, NEW l \in Widgets, SeesSame(w, d, l), NEW e, NEW n
  PROVE  Shows(w, l, e, n) = Shows(d, l, e, n)
<1>1. CASE l = "config"
  <2>1. w.root = d.root
    BY <1>1 DEF SeesSame, RootOf
  <2> QED
    BY <2>1 DEF Shows, SeesSame
<1>2. CASE l \in {"search", "menu"}
  <2>1. ModeOf(w, l) \notin {"single", "symbol"} /\ ModeOf(d, l) \notin {"single", "symbol"}
    BY <1>2 DEF ModeOf
  <2> QED
    BY <2>1 DEF Shows, SeesSame
<1> QED
  BY <1>1, <1>2 DEF Widgets

IconsRight(w, l, n) == \A e \in RowsIn(w, l) : w.icon[l][e] = Shows(w, l, e, n)
\* What is wrong is flagged.
IconsTold(w, l, n) == \A e \in RowsIn(w, l) : w.icon[l][e] = Shows(w, l, e, n) \/ e \in w.flagged

LEMMA RowsInEntries ==
  ASSUME NEW w, NEW l, w.rows[l] \in ItemRows
  PROVE  RowsIn(w, l) \subseteq Entries
<1>1. \A p \in Entries \cup {Top} : ToSet(w.rows[l][p]) \subseteq Items
  <2> TAKE p \in Entries \cup {Top}
  <2>1. w.rows[l][p] \in Seq(Items)
    BY DEF ItemRows
  <2> QED
    BY <2>1 DEF ToSet
<1> QED
  BY <1>1 DEF RowsIn, Items

Keeps(w, l, n, d) ==
    \A k \in Widgets \ {l} : /\ IconsTold(w, k, n) => IconsTold(d, k, n)
                             /\ IconsRight(w, k, n) => IconsRight(d, k, n)

LEMMA DrawnKeeps ==
  ASSUME NEW w, WinOk(w), NEW l \in Widgets, NEW R, NEW b, RowsSet(w, l, R, b),
         NEW tested, tested \subseteq RowsIn(w, l), NEW all, NEW n, NEW d, IsDrawn(b, l, tested, all, n, d)
  PROVE  all \/ IconsTold(w, l, n) => IconsRight(d, l, n)
<1>1. /\ SameView(w, b) /\ SameView(b, d) /\ SameView(w, d) /\ b.icon = w.icon /\ b.flagged = w.flagged /\ d.rows = b.rows
      /\ b.rows[l] \in ItemRows
  BY DEF RowsSet, IsDrawn, SameView
<1>2. RowsIn(d, l) = RowsIn(b, l) /\ RowsIn(b, l) \subseteq Entries
  BY <1>1, RowsInEntries DEF RowsIn
<1>3. ASSUME all \/ IconsTold(w, l, n), NEW e \in RowsIn(d, l) PROVE d.icon[l][e] = Shows(d, l, e, n)
  <2>1. d.icon[l][e] = IF Due(b, l, tested, all, l, e) THEN Shows(b, l, e, n) ELSE w.icon[l][e]
    BY <1>1, <1>2, <1>3 DEF IsDrawn
  <2>2. Shows(b, l, e, n) = Shows(d, l, e, n) /\ Shows(w, l, e, n) = Shows(d, l, e, n)
    BY <1>1, SameShows, SameViewIs
  <2>3. CASE Due(b, l, tested, all, l, e)
    BY <2>1, <2>2, <2>3
  <2>4. CASE ~Due(b, l, tested, all, l, e)
    <3>1. e \in tested /\ ~all /\ e \notin w.flagged
      BY <1>1, <2>4 DEF Due
    <3> QED
      BY <1>3, <2>1, <2>2, <2>4, <3>1 DEF IconsTold
  <2> QED
    BY <2>3, <2>4
<1> QED
  BY <1>3 DEF IconsRight

LEMMA DrawnOthers ==
  ASSUME NEW w, WinOk(w), NEW l \in Widgets, NEW R, NEW b, RowsSet(w, l, R, b),
         NEW tested, NEW all, NEW n, NEW d, IsDrawn(b, l, tested, all, n, d)
  PROVE  Keeps(w, l, n, d)
<1> SUFFICES ASSUME NEW k \in Widgets \ {l}
             PROVE  /\ IconsTold(w, k, n) => IconsTold(d, k, n)
                    /\ IconsRight(w, k, n) => IconsRight(d, k, n)
  BY DEF Keeps
<1>1. /\ SameView(w, b) /\ SameView(b, d) /\ SameView(w, d) /\ b.icon = w.icon /\ b.flagged = w.flagged /\ d.rows = b.rows
      /\ b.rows[k] = w.rows[k] /\ w.rows[k] \in ItemRows /\ d.flagged = w.flagged \ tested
  BY DEF RowsSet, IsDrawn, SameView, WinOk
<1>2. RowsIn(d, k) = RowsIn(w, k) /\ RowsIn(b, k) = RowsIn(w, k) /\ RowsIn(w, k) \subseteq Entries
  BY <1>1, RowsInEntries DEF RowsIn
<1>3. ASSUME NEW e \in RowsIn(d, k)
      PROVE  /\ Shows(w, k, e, n) = Shows(d, k, e, n)
             /\ e \in tested /\ e \in w.flagged => d.icon[k][e] = Shows(d, k, e, n)
             /\ e \notin tested \/ e \notin w.flagged => d.icon[k][e] = w.icon[k][e]
  <2>1. d.icon[k][e] = IF Due(b, l, tested, all, k, e) THEN Shows(b, k, e, n) ELSE w.icon[k][e]
    BY <1>1, <1>2, <1>3 DEF IsDrawn
  <2>2. Shows(b, k, e, n) = Shows(d, k, e, n) /\ Shows(w, k, e, n) = Shows(d, k, e, n)
    BY <1>1, SameShows, SameViewIs
  <2>3. Due(b, l, tested, all, k, e) <=> e \in tested /\ e \in w.flagged
    BY <1>1 DEF Due
  <2> QED
    BY <2>1, <2>2, <2>3
<1> QED
  BY <1>1, <1>2, <1>3 DEF IconsTold, IconsRight

(* One list is updated *)

ListDone(w, l, n, d) ==
    /\ WinOk(d) /\ SameView(w, d) /\ d.late = w.late /\ Keeps(w, l, n, d)
    /\ \A k \in Widgets \ {l} : d.rows[k] = w.rows[k]
    /\ l # "search" => d.rows[l] = Wanted(w, l, n)

LEMMA TestedIn ==
  ASSUME NEW w, NEW l, NEW n, RowsLike(w, l)
  PROVE  UNION {v.kept : v \in LevelsOf(w, l, n)} \subseteq RowsIn(w, l)
<1> SUFFICES ASSUME NEW v \in LevelsOf(w, l, n), NEW e \in v.kept PROVE e \in RowsIn(w, l)
  OBVIOUS
<1>1. IsLevel(w, l, n, v)
  BY EachLevelIs
<1>2. e \in Entries /\ v.at \in Entries \cup {Top} /\ e \in ToSet(w.rows[l][v.at])
  BY <1>1 DEF IsLevel
<1> QED
  BY <1>2, TopNot DEF RowsIn

LEMMA UpdateListIs ==
  ASSUME NEW w, WinOk(w), NEW l \in Widgets, NEW all, NEW n
  PROVE  /\ ListDone(w, l, n, UpdateList(w, l, all, n))
         /\ all \/ IconsTold(w, l, n) => IconsRight(UpdateList(w, l, all, n), l, n)
<1> DEFINE d == UpdateList(w, l, all, n)
<1>1. ASSUME NEW R \in ItemRows, NEW b, RowsSet(w, l, R, b), NEW tested, tested \subseteq RowsIn(w, l),
             d = Drawn(b, l, tested, all, n),
             R = IF l = "search" THEN w.rows[l] ELSE RowsOf(LevelsOf(w, l, n))
      PROVE  ListDone(w, l, n, d) /\ (all \/ IconsTold(w, l, n) => IconsRight(d, l, n))
  <2>1. IsDrawn(b, l, tested, all, n, d)
    BY <1>1, DrawnIs DEF RowsSet
  <2> HIDE DEF d
  <2>2. Keeps(w, l, n, d) /\ (all \/ IconsTold(w, l, n) => IconsRight(d, l, n))
    BY <1>1, <2>1, DrawnKeeps, DrawnOthers
  <2>3. /\ IsWin(d) /\ SameView(w, d) /\ d.late = w.late /\ d.flagged \subseteq Entries /\ d.rows \in [Widgets -> ItemRows]
        /\ DOMAIN d.icon = Widgets /\ d.rows[l] = R /\ \A k \in Widgets \ {l} : d.rows[k] = w.rows[k]
    BY <1>1, <2>1 DEF IsDrawn, RowsSet, SameView, WinOk
  <2>4. R = IF l = "search" THEN w.rows[l] ELSE Wanted(w, l, n)
    BY <1>1, WantedIs DEF Widgets
  <2>5. ASSUME NEW k \in {"config", "menu"} PROVE RowsLike(d, k)
    <3>1. SeesSame(w, d, k) /\ RowsLike(w, k) /\ k \in Widgets /\ k # "search"
      BY <2>3, SameViewIs DEF WinOk, Widgets
    <3>2. CASE k = l
      BY <1>1, <2>3, <3>1, <3>2, LikeAfter
    <3>3. CASE k # l
      BY <2>3, <3>1, <3>3, SeesSameIs DEF RowsLike, InRows, TopOk, SeesSame
    <3> QED
      BY <3>2, <3>3
  <2> QED
    BY <2>2, <2>3, <2>4, <2>5 DEF ListDone, WinOk
<1>2. CASE l = "search"
  <2>1. d = Drawn(w, l, RowsIn(w, l), all, n)
    BY <1>2 DEF UpdateList
  <2>2. RowsSet(w, l, w.rows[l], w) /\ w.rows[l] \in ItemRows
    BY DEF RowsSet, WinOk
  <2> HIDE DEF d
  <2> QED
    BY <1>1, <1>2, <2>1, <2>2 DEF d
<1>3. CASE l # "search"
  <2> DEFINE R == RowsOf(LevelsOf(w, l, n))
             b == [w EXCEPT !.rows[l] = R]
             tested == UNION {v.kept : v \in LevelsOf(w, l, n)}
  <2>1. d = Drawn(b, l, tested, all, n)
    BY <1>3 DEF UpdateList, Listed
  <2>2. RowsLike(w, l)
    BY <1>3 DEF WinOk, Widgets
  <2>3. R \in ItemRows /\ tested \subseteq RowsIn(w, l)
    BY <2>2, LikeAfter, TestedIn
  <2>4. RowsSet(w, l, R, b)
    BY <2>3, SetRows
  <2>5. R = IF l = "search" THEN w.rows[l] ELSE RowsOf(LevelsOf(w, l, n))
    BY <1>3
  <2> HIDE DEF d, b, tested, R
  <2> QED
    BY <1>1, <2>1, <2>3, <2>4, <2>5 DEF d
<1> QED
  BY <1>2, <1>3

(* All lists *)

\* The lists but those in L are as made anew, or what they show wrong is flagged.
Right(w, n, L) ==
    \A k \in Widgets \ L : IconsRight(w, k, n) /\ (k # "search" => w.rows[k] = Wanted(w, k, n))
GoodBut(w, n, L) ==
    /\ WinOk(w)
    /\ \A k \in Widgets \ L : IconsTold(w, k, n)
    /\ ~w.late => Right(w, n, L)
GoodWin(w, n) == GoodBut(w, n, {})

\* The lists but those in L are not touched.
Untouched(w, d, L) ==
    /\ d.late = w.late
    /\ \A k \in Widgets \ L : /\ SeesSame(w, d, k) /\ d.rows[k] = w.rows[k] /\ d.icon[k] = w.icon[k]
                              /\ w.flagged \subseteq d.flagged

LEMMA RightUntouched ==
  ASSUME NEW w, WinOk(w), NEW d, WinOk(d), NEW L, Untouched(w, d, L), NEW k \in Widgets \ L, NEW n
  PROVE  /\ IconsTold(w, k, n) => IconsTold(d, k, n)
         /\ IconsRight(w, k, n) => IconsRight(d, k, n)
         /\ k # "search" => Wanted(d, k, n) = Wanted(w, k, n)
<1>1. SeesSame(w, d, k) /\ d.rows[k] = w.rows[k] /\ d.icon[k] = w.icon[k] /\ w.flagged \subseteq d.flagged
  BY DEF Untouched
<1>2. RowsIn(d, k) = RowsIn(w, k)
  BY <1>1 DEF RowsIn
<1>3. \A e : Shows(w, k, e, n) = Shows(d, k, e, n)
  BY <1>1, SameShows
<1>4. k # "search" => Wanted(d, k, n) = Wanted(w, k, n)
  BY <1>1, SameWanted DEF Widgets
<1> QED
  BY <1>1, <1>2, <1>3, <1>4 DEF IconsTold, IconsRight

LEMMA GoodUntouched ==
  ASSUME NEW w, NEW n, NEW L, GoodBut(w, n, L), NEW d, WinOk(d), NEW M, L \subseteq M, Untouched(w, d, M)
  PROVE  GoodBut(d, n, M)
<1>1. WinOk(w) /\ d.late = w.late
  BY DEF GoodBut, Untouched
<1>2. ASSUME NEW k \in Widgets \ M
      PROVE  /\ k \in Widgets \ L /\ d.rows[k] = w.rows[k]
             /\ IconsTold(w, k, n) => IconsTold(d, k, n)
             /\ IconsRight(w, k, n) => IconsRight(d, k, n)
             /\ k # "search" => Wanted(d, k, n) = Wanted(w, k, n)
  BY <1>1, RightUntouched DEF Untouched
<1> QED
  BY <1>1, <1>2 DEF GoodBut, Right

LEMMA ToldAgain ==
  ASSUME NEW w, WinOk(w), NEW n, NEW l \in Widgets, NEW all, all \/ IconsTold(w, l, n)
  PROVE  LET d == UpdateList(w, l, all, n)
         IN  /\ WinOk(d) /\ SameView(w, d) /\ d.late = w.late /\ IconsTold(d, l, n)
             /\ \A k \in Widgets \ {l} : IconsTold(w, k, n) => IconsTold(d, k, n)
<1> DEFINE d == UpdateList(w, l, all, n)
<1>1. ListDone(w, l, n, d) /\ IconsRight(d, l, n)
  BY UpdateListIs
<1> HIDE DEF d
<1>2. WinOk(d) /\ SameView(w, d) /\ d.late = w.late /\ IconsTold(d, l, n)
      /\ \A k \in Widgets \ {l} : IconsTold(w, k, n) => IconsTold(d, k, n)
  BY <1>1 DEF ListDone, Keeps, IconsRight, IconsTold
<1> QED
  BY <1>2 DEF d

LEMMA RightDone ==
  ASSUME NEW w, WinOk(w), NEW n, NEW l \in Widgets, NEW d, ListDone(w, l, n, d), IconsRight(d, l, n),
         NEW L, Right(w, n, L)
  PROVE  Right(d, n, L \ {l})
<1>2. WinOk(d) /\ SameView(w, d) /\ Keeps(w, l, n, d)
  BY DEF ListDone
<1>3. \A k \in {"config", "menu"} : Wanted(w, k, n) = Wanted(d, k, n)
  BY <1>2, SameViewIs, SameWanted
<1>4. ASSUME NEW k \in Widgets \ (L \ {l}) PROVE IconsRight(d, k, n) /\ (k # "search" => d.rows[k] = Wanted(d, k, n))
  <2>1. CASE k = l
    <3>1. k # "search" => d.rows[k] = Wanted(d, k, n)
      BY <1>3, <2>1 DEF ListDone, Widgets
    <3> QED
      BY <2>1, <3>1
  <2>2. CASE k # l
    <3>1. k \in Widgets \ L /\ k \in Widgets \ {l}
      BY <2>2
    <3>2. d.rows[k] = w.rows[k]
      BY <3>1 DEF ListDone
    <3>3. k # "search" => Wanted(w, k, n) = Wanted(d, k, n)
      BY <1>3 DEF Widgets
    <3> QED
      BY <1>2, <3>1, <3>2, <3>3 DEF Right, Keeps
  <2> QED
    BY <2>1, <2>2
<1> QED
  BY <1>4 DEF Right

LEMMA DoneAgain ==
  ASSUME NEW w, NEW n, NEW L, GoodBut(w, n, L), NEW l \in Widgets, NEW d, ListDone(w, l, n, d), IconsRight(d, l, n)
  PROVE  GoodBut(d, n, L \ {l})
<1>1. WinOk(w) /\ WinOk(d) /\ d.late = w.late
  BY DEF GoodBut, ListDone
<1>2. ~w.late => Right(d, n, L \ {l})
  BY <1>1, RightDone DEF GoodBut
<1>3. \A k \in Widgets \ (L \ {l}) : IconsTold(d, k, n)
  <2>1. IconsTold(d, l, n)
    BY DEF IconsRight, IconsTold
  <2> QED
    BY <2>1 DEF GoodBut, ListDone, Keeps
<1> QED
  BY <1>1, <1>2, <1>3 DEF GoodBut

LEMMA RightAgain ==
  ASSUME NEW w, WinOk(w), NEW n, NEW l \in Widgets, NEW all, all \/ IconsTold(w, l, n), NEW L, Right(w, n, L)
  PROVE  Right(UpdateList(w, l, all, n), n, L \ {l})
BY UpdateListIs, RightDone

LEMMA ListAgain ==
  ASSUME NEW w, NEW n, NEW L, GoodBut(w, n, L), NEW l \in Widgets, NEW all, all \/ IconsTold(w, l, n)
  PROVE  /\ GoodBut(UpdateList(w, l, all, n), n, L \ {l}) /\ SameView(w, UpdateList(w, l, all, n))
         /\ UpdateList(w, l, all, n).late = w.late
<1> DEFINE d == UpdateList(w, l, all, n)
<1>1. ListDone(w, l, n, d) /\ IconsRight(d, l, n)
  BY UpdateListIs DEF GoodBut
<1> HIDE DEF d
<1>2. GoodBut(d, n, L \ {l}) /\ SameView(w, d) /\ d.late = w.late
  BY <1>1, DoneAgain DEF ListDone
<1> QED
  BY <1>2 DEF d

\* What else is kept may change.
SameRest(w, d) ==
    /\ IsWin(d) /\ SameView(w, d) /\ d.rows = w.rows /\ d.icon = w.icon
    /\ w.flagged \subseteq d.flagged /\ d.flagged \subseteq Entries

LEMMA RestOk ==
  ASSUME NEW w, WinOk(w), NEW d, SameRest(w, d)
  PROVE  WinOk(d) /\ \A L, n : Right(w, n, L) => Right(d, n, L)
<1>1. ASSUME NEW k \in {"config", "menu"} PROVE RowsLike(d, k)
  <2>1. SeesSame(w, d, k)
    BY SameViewIs DEF SameRest
  <2> QED
    BY <2>1, SeesSameIs DEF WinOk, RowsLike, InRows, TopOk, SeesSame, SameRest
<1>2. WinOk(d)
  BY <1>1 DEF WinOk, SameRest
<1>3. ASSUME NEW L, NEW n, Right(w, n, L) PROVE Right(d, n, L)
  <2>1. ASSUME NEW k \in Widgets
        PROVE  /\ d.rows[k] = w.rows[k]
               /\ IconsRight(w, k, n) => IconsRight(d, k, n)
               /\ k # "search" => Wanted(d, k, n) = Wanted(w, k, n)
    <3>1. SeesSame(w, d, k) /\ d.rows[k] = w.rows[k] /\ d.icon[k] = w.icon[k]
      BY SameViewIs DEF SameRest
    <3>2. RowsIn(d, k) = RowsIn(w, k)
      BY <3>1 DEF RowsIn
    <3>3. \A e : Shows(w, k, e, n) = Shows(d, k, e, n)
      BY <3>1, SameShows
    <3>4. k # "search" => Wanted(d, k, n) = Wanted(w, k, n)
      BY <1>2, <3>1, SameWanted DEF Widgets
    <3> QED
      BY <3>1, <3>2, <3>3, <3>4 DEF IconsRight
  <2> QED
    BY <1>3, <2>1 DEF Right
<1> QED
  BY <1>2, <1>3

LEMMA RightTold ==
  ASSUME NEW w, NEW n, Right(w, n, {})
  PROVE  \A k \in Widgets : IconsTold(w, k, n)
BY DEF Right, IconsRight, IconsTold

LEMMA ViewsAgain ==
  ASSUME NEW w, WinOk(w), NEW n, NEW all, all \/ \A k \in Widgets : IconsTold(w, k, n)
  PROVE  GoodWin(UpdateViews(w, all, n), n) /\ SameView(w, UpdateViews(w, all, n))
<1> DEFINE a == UpdateList(w, "search", all, n)
           b == UpdateList(a, "config", all, n)
           c == UpdateList(b, "menu", all, n)
           d == [c EXCEPT !.late = FALSE]
<1>0. "search" \in Widgets /\ "config" \in Widgets /\ "menu" \in Widgets /\ Widgets = {"search", "config", "menu"}
  BY DEF Widgets
<1>1. Right(w, n, Widgets)
  BY DEF Right
<1>2. /\ WinOk(a) /\ SameView(w, a) /\ Right(a, n, Widgets \ {"search"})
      /\ all \/ \A k \in Widgets : IconsTold(a, k, n)
  <2>1. all \/ IconsTold(w, "search", n)
    BY <1>0
  <2> QED
    BY <1>0, <1>1, <2>1, ToldAgain, RightAgain
<1> HIDE DEF a
<1>3. /\ WinOk(b) /\ SameView(a, b) /\ Right(b, n, (Widgets \ {"search"}) \ {"config"})
      /\ all \/ \A k \in Widgets : IconsTold(b, k, n)
  <2>1. all \/ IconsTold(a, "config", n)
    BY <1>0, <1>2
  <2> QED
    BY <1>0, <1>2, <2>1, ToldAgain, RightAgain
<1> HIDE DEF b
<1>4. WinOk(c) /\ SameView(b, c) /\ Right(c, n, ((Widgets \ {"search"}) \ {"config"}) \ {"menu"})
  <2>1. all \/ IconsTold(b, "menu", n)
    BY <1>0, <1>3
  <2> QED
    BY <1>0, <1>3, <2>1, ToldAgain, RightAgain
<1> HIDE DEF c
<1>5. Right(c, n, {})
  <2>1. ((Widgets \ {"search"}) \ {"config"}) \ {"menu"} = {}
    BY <1>0
  <2> QED
    BY <1>4, <2>1
<1>6. SameRest(c, d)
  <2>1. d = [mode |-> c.mode, opt |-> c.opt, root |-> c.root, left |-> c.left, rows |-> c.rows, icon |-> c.icon,
             flagged |-> c.flagged, late |-> FALSE]
    <3>1. IsWin(c)
      BY <1>4 DEF WinOk
    <3>2. d = [c EXCEPT !.late = FALSE]
      OBVIOUS
    <3> HIDE DEF d
    <3> QED
      BY <3>1, <3>2 DEF IsWin
  <2> HIDE DEF d
  <2> QED
    BY <1>4, <2>1 DEF SameRest, IsWin, SameView, WinOk
<1>7. d = UpdateViews(w, all, n)
  BY DEF UpdateViews, a, b, c
<1> HIDE DEF d
<1>8. WinOk(d) /\ Right(d, n, {}) /\ SameView(w, d)
  BY <1>2, <1>3, <1>4, <1>5, <1>6, RestOk DEF SameRest, SameView
<1>9. GoodWin(d, n)
  BY <1>8, RightTold DEF GoodWin, GoodBut
<1> QED
  BY <1>7, <1>8, <1>9

(* The values *)

ValuesOk(n) ==
    /\ n = [cur |-> n.cur, vis |-> n.vis, sel |-> n.sel, wr |-> n.wr]
    /\ n.cur = [s \in All |-> n.cur[s]] /\ n.vis \subseteq All /\ n.sel \subseteq All

LEMMA CalculatedOk ==
  ASSUME NEW k \in Kconfigs, NEW u
  PROVE  ValuesOk(Calculate(k, u))
<1> DEFINE n == Calculate(k, u)
<1>1. Solves(k, u, n)
  BY Calculated
<1> HIDE DEF n
<1>2. n = [cur |-> [s \in All |-> Value(k, u, n, s)], vis |-> Lit(k, n), sel |-> Selected(k, n), wr |-> ToSave(k, n)]
  BY <1>1 DEF Solves
<1>3. Lit(k, n) \subseteq All /\ Selected(k, n) \subseteq All
  BY DEF Lit, Selected, All, Symbols
<1>4. n.cur = [s \in All |-> Value(k, u, n, s)] /\ n.vis = Lit(k, n) /\ n.sel = Selected(k, n)
  BY <1>2
<1>5. n.cur = [s \in All |-> n.cur[s]]
  BY <1>4
<1>6. n = [cur |-> n.cur, vis |-> n.vis, sel |-> n.sel, wr |-> n.wr]
  BY <1>2
<1> QED
  BY <1>3, <1>4, <1>5, <1>6 DEF ValuesOk, n

SameValues(n, m) == n.cur = m.cur /\ n.vis = m.vis /\ n.sel = m.sel

LEMMA SameVisible ==
  ASSUME NEW n, NEW m, SameValues(n, m), NEW e \in Entries
  PROVE  Visible(e, n) <=> Visible(e, m)
<1> DEFINE S == {x \in Entries : ~(Visible(x, n) <=> Visible(x, m))}
<1> SUFFICES ASSUME S # {} PROVE FALSE
  OBVIOUS
<1>1. PICK x \in S : Lists[x] \cap S = {}
  BY ListsFounded DEF Founded
<1>2. x \in Entries /\ \A c \in ToSet(Children[x]) : Visible(c, n) <=> Visible(c, m)
  <2>1. Lists[x] = ToSet(Children[x]) /\ Lists[x] \subseteq Entries
    BY <1>1, ListsFounded DEF Lists
  <2> QED
    BY <1>1, <2>1
<1>3. n.cur = m.cur /\ (PromptVisible(x, n) <=> PromptVisible(x, m)) /\ (IsYes(x, n) <=> IsYes(x, m))
  BY DEF SameValues, PromptVisible, IsYes
<1>4. Visible(x, n) <=> Visible(x, m)
  BY <1>2, <1>3, VisibleIs
<1> QED
  BY <1>1, <1>4

LEMMA SkipValues ==
  ASSUME NEW n, NEW m, SameValues(n, m), NEW w, NEW l
  PROVE  SkipOf(w, l, n) = SkipOf(w, l, m)
<1>1. \A e \in Entries : Skipped(OptOf(w, l), e, n) <=> Skipped(OptOf(w, l), e, m)
  BY SameVisible DEF Skipped
<1> QED
  BY <1>1 DEF SkipOf

\* What shows in the row of e is about its symbol.
LEMMA ShowsValues ==
  ASSUME NEW n, NEW m, NEW w, NEW l, NEW e \in Entries,
         LET s == SymOf[e] IN s \in All => n.cur[s] = m.cur[s] /\ (s \in n.vis <=> s \in m.vis) /\ (s \in n.sel <=> s \in m.sel)
  PROVE  Shows(w, l, e, n) = Shows(w, l, e, m)
<1>1. SymOf[e] = Nobody \/ SymOf[e] \in All
  BY TreeAssumption DEF All
<1>2. CASE SymOf[e] = Nobody
  <2>1. SymOf[e] \notin Strings /\ SymOf[e] \notin ChoiceSyms
    BY <1>2, ChoiceAssumption DEF Symbols
  <2> QED
    BY <1>2, <2>1 DEF Shows
<1>3. CASE SymOf[e] \in All
  <2>1. n.cur[SymOf[e]] = m.cur[SymOf[e]] /\ (Changable(n, SymOf[e]) <=> Changable(m, SymOf[e]))
    BY <1>3 DEF Changable
  <2> QED
    BY <2>1 DEF Shows
<1> QED
  BY <1>1, <1>2, <1>3

LEMMA RightValues ==
  ASSUME NEW w, WinOk(w), NEW n, NEW m, SameValues(n, m)
  PROVE  /\ \A L : Right(w, n, L) => Right(w, m, L)
         /\ \A k \in Widgets : IconsTold(w, k, n) => IconsTold(w, k, m)
<1>1. ASSUME NEW k \in Widgets
      PROVE  /\ \A e \in RowsIn(w, k) : Shows(w, k, e, n) = Shows(w, k, e, m)
             /\ k # "search" => Wanted(w, k, n) = Wanted(w, k, m)
  <2>1. RowsIn(w, k) \subseteq Entries
    BY RowsInEntries DEF WinOk
  <2>2. ASSUME NEW e \in RowsIn(w, k) PROVE Shows(w, k, e, n) = Shows(w, k, e, m)
    BY <2>1, ShowsValues DEF SameValues
  <2>3. SkipOf(w, k, n) = SkipOf(w, k, m) /\ SeesSame(w, w, k)
    BY SkipValues DEF SeesSame
  <2>4. k # "search" => Wanted(w, k, n) = Wanted(w, k, m)
    BY <2>3, SameWanted DEF Widgets
  <2> QED
    BY <2>2, <2>4
<1> QED
  BY <1>1 DEF Right, IconsRight, IconsTold

LEMMA DifferingNone ==
  ASSUME NEW n, ValuesOk(n), NEW m, ValuesOk(m), Differing(n, m) = {}
  PROVE  SameValues(n, m)
<1>1. \A s \in All : n.cur[s] = m.cur[s] /\ (s \in n.vis <=> s \in m.vis) /\ (s \in n.sel <=> s \in m.sel)
  BY DEF Differing, All
<1>2. n.vis = m.vis /\ n.sel = m.sel
  BY <1>1 DEF ValuesOk
<1>3. [s \in All |-> n.cur[s]] = [s \in All |-> m.cur[s]]
  BY <1>1
<1>4. n.cur = [s \in All |-> n.cur[s]] /\ m.cur = [s \in All |-> m.cur[s]]
  BY DEF ValuesOk
<1> QED
  BY <1>2, <1>3, <1>4 DEF SameValues

LEMMA FlagIs ==
  ASSUME NEW w, WinOk(w), NEW S
  PROVE  /\ SameRest(w, Flag(w, S)) /\ Flag(w, S).late = w.late
         /\ \A e \in Entries : SymOf[e] \in S => e \in Flag(w, S).flagged
<1> DEFINE d == Flag(w, S)
           F == w.flagged \cup {e \in Entries : SymOf[e] \in S}
<1>1. IsWin(w) /\ w.flagged \subseteq Entries
  BY DEF WinOk
<1>2. d = [w EXCEPT !.flagged = F]
  BY DEF Flag
<1>3. F \subseteq Entries /\ w.flagged \subseteq F /\ \A e \in Entries : SymOf[e] \in S => e \in F
  BY <1>1
<1> HIDE DEF d, F
<1>4. d = [mode |-> w.mode, opt |-> w.opt, root |-> w.root, left |-> w.left, rows |-> w.rows, icon |-> w.icon,
           flagged |-> F, late |-> w.late]
  BY <1>1, <1>2 DEF IsWin
<1> QED
  BY <1>3, <1>4 DEF SameRest, IsWin, SameView, d

LEMMA FlaggedTold ==
  ASSUME NEW w, WinOk(w), NEW n, NEW m, NEW S, Differing(n, m) \subseteq S, NEW k \in Widgets, IconsTold(w, k, n)
  PROVE  IconsTold(Flag(w, S), k, m)
<1> DEFINE d == Flag(w, S)
<1>1. SameRest(w, d) /\ \A e \in Entries : SymOf[e] \in S => e \in d.flagged
  BY FlagIs
<1> HIDE DEF d
<1>2. SeesSame(w, d, k) /\ d.icon = w.icon /\ d.rows = w.rows /\ w.flagged \subseteq d.flagged
  BY <1>1, SameViewIs DEF SameRest
<1>3. RowsIn(d, k) = RowsIn(w, k) /\ RowsIn(w, k) \subseteq Entries
  BY <1>2, RowsInEntries DEF RowsIn, WinOk
<1>4. ASSUME NEW e \in RowsIn(d, k) PROVE d.icon[k][e] = Shows(d, k, e, m) \/ e \in d.flagged
  <2>1. e \in Entries
    BY <1>3
  <2>2. CASE SymOf[e] \in S
    BY <1>1, <2>1, <2>2
  <2>3. CASE SymOf[e] \notin S
    <3>1. SymOf[e] \in All => /\ n.cur[SymOf[e]] = m.cur[SymOf[e]]
                             /\ (SymOf[e] \in n.vis <=> SymOf[e] \in m.vis) /\ (SymOf[e] \in n.sel <=> SymOf[e] \in m.sel)
      BY <2>3 DEF Differing, All
    <3>2. Shows(w, k, e, n) = Shows(w, k, e, m)
      BY <2>1, <3>1, ShowsValues
    <3>3. Shows(w, k, e, m) = Shows(d, k, e, m)
      BY <1>2, SameShows
    <3> QED
      BY <1>2, <1>3, <3>2, <3>3 DEF IconsTold
  <2> QED
    BY <2>2, <2>3
<1>5. IconsTold(d, k, m)
  BY <1>4 DEF IconsTold
<1> QED
  BY <1>5 DEF d

(* The menus *)

IsRoots(f) ==
    f = [m \in Entries |-> [within \in BOOLEAN |->
          {m} \cup UNION {f[c][within \/ IsMenu(c)] : c \in {c \in ToSet(Children[m]) : IsMenu(c) \/ ~within}}]]

\* fixup_rootmenu marks what it starts from.
LEMMA RootIsMenu == Root \in MenuRoots
<1> DEFINE V == [BOOLEAN -> SUBSET Entries]
           T(m, within) == {c \in ToSet(Children[m]) : IsMenu(c) \/ ~within}
           B(m, within, f) == {m} \cup UNION {f[c][within \/ IsMenu(c)] : c \in T(m, within)}
           H == [m \in Entries |-> [f \in [Entries -> V] |-> [within \in BOOLEAN |-> B(m, within, f)]]]
           fn == CHOOSE f : IsRoots(f)
<1>0. \A m \in Entries, within \in BOOLEAN : T(m, within) \subseteq Lists[m] /\ Lists[m] \subseteq Entries
  BY ListsFounded DEF Lists
<1>1. \E f \in [Entries -> V] : \A m \in Entries : f[m] = H[m][f]
  <2> HIDE DEF T
  <2>1. H \in [Entries -> [[Entries -> V] -> V]]
    <3>1. ASSUME NEW m \in Entries, NEW f \in [Entries -> V], NEW within \in BOOLEAN
          PROVE  B(m, within, f) \in SUBSET Entries
      <4>1. \A c \in T(m, within) : f[c][within \/ IsMenu(c)] \in SUBSET Entries
        <5> TAKE c \in T(m, within)
        <5>1. f[c] \in V /\ (within \/ IsMenu(c)) \in BOOLEAN
          BY <1>0
        <5> QED
          BY <5>1
      <4> DEFINE D == UNION {f[c][within \/ IsMenu(c)] : c \in T(m, within)}
      <4>2. D \subseteq Entries
        BY <4>1
      <4> HIDE DEF D
      <4>3. {m} \cup D \subseteq Entries
        BY <4>2
      <4> QED
        BY <4>3 DEF D
    <3> HIDE DEF B
    <3>2. ASSUME NEW m \in Entries, NEW f \in [Entries -> V] PROVE [within \in BOOLEAN |-> B(m, within, f)] \in V
      BY <3>1, <3>2
    <3> HIDE DEF V
    <3> QED
      BY <3>2
  <2>2. Local(Entries, Lists, V, H)
    <3> SUFFICES ASSUME NEW m \in Entries, NEW f \in [Entries -> V], NEW g \in [Entries -> V],
                        \A y \in Lists[m] : f[y] = g[y]
                 PROVE  H[m][f] = H[m][g]
      BY DEF Local
    <3>1. ASSUME NEW within \in BOOLEAN PROVE B(m, within, f) = B(m, within, g)
      <4> DEFINE p(c) == f[c][within \/ IsMenu(c)]
                 q(c) == g[c][within \/ IsMenu(c)]
      <4>1. \A c \in T(m, within) : p(c) = q(c)
        BY <1>0
      <4> HIDE DEF p, q
      <4>2. {p(c) : c \in T(m, within)} = {q(c) : c \in T(m, within)}
        BY <4>1
      <4> QED
        BY <4>2 DEF p, q
    <3> HIDE DEF B
    <3>2. [within \in BOOLEAN |-> B(m, within, f)] = [within \in BOOLEAN |-> B(m, within, g)]
      BY <3>1
    <3> HIDE DEF V
    <3> QED
      BY <3>2
  <2>3. [within \in BOOLEAN |-> {}] \in V
    OBVIOUS
  <2> HIDE DEF H, V
  <2>4. Recursion(Entries, Lists, V, H)
    BY <2>1, <2>2, ListsFounded DEF Recursion
  <2>5. Ends(Entries, V, H)
    BY <2>3, <2>4, TreeRecursion
  <2> QED
    BY <2>5 DEF Ends
<1>2. PICK g \in [Entries -> V] : \A m \in Entries : g[m] = H[m][g]
  BY <1>1
<1>3. IsRoots(g)
  <2>1. g = [m \in Entries |-> g[m]]
    BY DEF V
  <2>2. \A m \in Entries : g[m] = [within \in BOOLEAN |-> B(m, within, g)]
    <3> HIDE DEF B, V
    <3> QED
      BY <1>2
  <2> HIDE DEF B, V
  <2>3. g = [m \in Entries |-> [within \in BOOLEAN |-> B(m, within, g)]]
    BY <2>1, <2>2
  <2> QED
    BY <2>3 DEF IsRoots, B, T
<1>4. IsRoots(fn)
  BY <1>3
<1>5. MenuRoots = fn[Root][FALSE]
  BY DEF MenuRoots, IsRoots
<1> HIDE DEF fn
<1>6. Root \in fn[Root][FALSE]
  <2>1. fn = [m \in Entries |-> [within \in BOOLEAN |-> B(m, within, fn)]]
    BY <1>4 DEF IsRoots
  <2>2. Root \in B(Root, FALSE, fn)
    OBVIOUS
  <2> HIDE DEF B
  <2>3. fn[Root] = [within \in BOOLEAN |-> B(Root, within, fn)]
    BY <2>1, TreeAssumption
  <2> QED
    BY <2>2, <2>3
<1> QED
  BY <1>5, <1>6

\* The menu that a link or a step back leads to is an entry.
LEMMA MenuAbove ==
  ASSUME NEW e \in Entries, e # Root
  PROVE  MenuOf(ParentOf(e)) \in Entries
BY ParentIs, MenuOfIn DEF ParentOf

(* What is done to the lists *)

\* A list that was touched is made anew.
LEMMA OneAgain ==
  ASSUME NEW w, NEW n, GoodWin(w, n), NEW l \in Widgets, NEW d, WinOk(d), Untouched(w, d, {l})
  PROVE  /\ GoodWin(UpdateList(d, l, TRUE, n), n) /\ SameView(d, UpdateList(d, l, TRUE, n))
         /\ UpdateList(d, l, TRUE, n).late = w.late
<1>1. GoodBut(d, n, {l}) /\ d.late = w.late
  BY GoodUntouched DEF GoodWin, Untouched
<1>2. {l} \ {l} = {}
  OBVIOUS
<1> DEFINE e == UpdateList(d, l, TRUE, n)
<1>3. GoodBut(e, n, {l} \ {l}) /\ SameView(d, e) /\ e.late = d.late
  BY <1>1, ListAgain
<1> HIDE DEF e
<1>4. GoodBut(e, n, {})
  BY <1>2, <1>3
<1> QED
  BY <1>1, <1>3, <1>4 DEF GoodWin, e

\* The list of settings is emptied, for the menu m.
IsReset(w, mode, m, d) ==
    d = [mode |-> mode, opt |-> w.opt, root |-> m, left |-> w.left, rows |-> [w.rows EXCEPT !["config"] = NoRows],
         icon |-> w.icon, flagged |-> w.flagged, late |-> w.late]

LEMMA ResetOk ==
  ASSUME NEW w, WinOk(w), NEW mode, NEW m \in Entries, NEW d, IsReset(w, mode, m, d)
  PROVE  WinOk(d) /\ Untouched(w, d, {"config"})
<1>0. "config" \in Widgets /\ "menu" \in Widgets /\ \A k \in Widgets \ {"config"} : k \in {"search", "menu"}
  BY DEF Widgets
<1> DEFINE r == [w.rows EXCEPT !["config"] = NoRows]
<1>1. r \in [Widgets -> ItemRows] /\ r["config"] = NoRows /\ \A k \in Widgets \ {"config"} : r[k] = w.rows[k]
  BY <1>0, NoRowsIn DEF WinOk
<1> HIDE DEF r
<1>2. /\ IsWin(d) /\ d.rows = r /\ d.mode = mode /\ d.opt = w.opt /\ d.root = m /\ d.left = w.left
      /\ d.icon = w.icon /\ d.flagged = w.flagged /\ d.late = w.late
  BY DEF IsReset, IsWin, r
<1>3. ASSUME NEW k \in Widgets \ {"config"} PROVE SeesSame(w, d, k)
  BY <1>0, <1>2 DEF SeesSame, ModeOf, OptOf, RootOf
<1>4. RowsLike(d, "config")
  <2>1. RootOf(d, "config") \in Entries \cup {Nobody}
    BY <1>2 DEF RootOf
  <2> QED
    BY <1>1, <1>2, <2>1, NoRowsLike
<1>5. RowsLike(d, "menu")
  <2>1. SeesSame(w, d, "menu") /\ d.rows["menu"] = w.rows["menu"]
    BY <1>0, <1>1, <1>2, <1>3
  <2> QED
    BY <2>1, SeesSameIs DEF WinOk, RowsLike, InRows, TopOk, SeesSame
<1> QED
  BY <1>1, <1>2, <1>3, <1>4, <1>5 DEF WinOk, Untouched

\* The lists are good, whatever is shown in them.
Stands(w, n) == GoodWin(w, n) /\ w.root \in Entries /\ w.left \in {Nobody, Root}

LEMMA SetRootOk ==
  ASSUME NEW w, NEW n, Stands(w, n), NEW m \in Entries
  PROVE  Stands(SetRoot(w, m, n), n)
<1> DEFINE d == [w EXCEPT !.rows["config"] = NoRows, !.root = m]
<1>0. WinOk(w) /\ "config" \in Widgets
  BY DEF Stands, GoodWin, GoodBut, Widgets
<1>1. IsReset(w, w.mode, m, d)
  <2> DEFINE r == [w.rows EXCEPT !["config"] = NoRows]
  <2>1. d = [w EXCEPT !.rows = r, !.root = m]
    OBVIOUS
  <2> HIDE DEF d, r
  <2>2. IsWin(w)
    BY <1>0 DEF WinOk
  <2>3. d = [mode |-> w.mode, opt |-> w.opt, root |-> m, left |-> w.left, rows |-> r, icon |-> w.icon,
             flagged |-> w.flagged, late |-> w.late]
    BY <2>1, <2>2 DEF IsWin
  <2> QED
    BY <2>3 DEF IsReset, r
<1>2. SetRoot(w, m, n) = w \/ SetRoot(w, m, n) = UpdateList(d, "config", TRUE, n)
  BY DEF SetRoot
<1> HIDE DEF d
<1>3. WinOk(d) /\ Untouched(w, d, {"config"}) /\ d.root = m /\ d.left = w.left
  <2>1. d.root = m /\ d.left = w.left
    BY <1>1 DEF IsReset
  <2> QED
    BY <1>0, <1>1, <2>1, ResetOk
<1>4. GoodWin(UpdateList(d, "config", TRUE, n), n) /\ SameView(d, UpdateList(d, "config", TRUE, n))
  BY <1>0, <1>3, OneAgain DEF Stands
<1> QED
  BY <1>2, <1>3, <1>4 DEF Stands, SameView

\* The list of settings is shown in another way.
IsMode(w, mode, d) ==
    d = [mode |-> mode, opt |-> w.opt, root |-> w.root, left |-> w.left, rows |-> w.rows,
         icon |-> w.icon, flagged |-> w.flagged, late |-> w.late]

LEMMA AtRoot ==
  ASSUME NEW w, w.root = Root
  PROVE  ~Alone(w, "config") /\ UpOf(w, "config") = <<>>
BY RootAssumption DEF Alone, UpOf, HasUp, RootOf

LEMMA ModeOk ==
  ASSUME NEW w, WinOk(w), w.root = Root, NEW mode, NEW d, IsMode(w, mode, d)
  PROVE  WinOk(d) /\ Untouched(w, d, {"config"})
<1>0. "config" \in Widgets /\ "menu" \in Widgets /\ \A k \in Widgets \ {"config"} : k \in {"search", "menu"}
  BY DEF Widgets
<1>2. /\ IsWin(d) /\ d.rows = w.rows /\ d.mode = mode /\ d.opt = w.opt /\ d.root = Root /\ d.left = w.left
      /\ d.icon = w.icon /\ d.flagged = w.flagged /\ d.late = w.late
  BY DEF IsMode, IsWin
<1>3. ASSUME NEW k \in Widgets \ {"config"} PROVE SeesSame(w, d, k)
  BY <1>0, <1>2 DEF SeesSame, ModeOf, OptOf, RootOf
<1>4. RowsLike(d, "config")
  <2>1. RootOf(w, "config") = Root /\ RootOf(d, "config") = Root
    BY <1>2 DEF RootOf
  <2>2. ~Alone(w, "config") /\ UpOf(w, "config") = <<>> /\ ~Alone(d, "config") /\ UpOf(d, "config") = <<>>
    BY <1>2, AtRoot
  <2>3. RowsLike(w, "config")
    BY DEF WinOk
  <2>4. InRows(d, "config")
    BY <1>2, <2>3 DEF RowsLike, InRows
  <2>5. TopOk(d, "config")
    BY <1>2, <2>1, <2>2, <2>3 DEF RowsLike, TopOk
  <2> QED
    BY <2>1, <2>3, <2>4, <2>5 DEF RowsLike
<1>5. RowsLike(d, "menu")
  <2>1. SeesSame(w, d, "menu")
    BY <1>0, <1>3
  <2> QED
    BY <1>2, <2>1, SeesSameIs DEF WinOk, RowsLike, InRows, TopOk, SeesSame
<1> QED
  BY <1>2, <1>3, <1>4, <1>5 DEF WinOk, Untouched

\* The list of menus is made.
IsLeft(w, d) ==
    d = [mode |-> w.mode, opt |-> w.opt, root |-> w.root, left |-> Root, rows |-> w.rows,
         icon |-> w.icon, flagged |-> w.flagged, late |-> w.late]

LEMMA LeftOk ==
  ASSUME NEW w, WinOk(w), w.left = Nobody, NEW d, IsLeft(w, d)
  PROVE  WinOk(d) /\ Untouched(w, d, {"menu"})
<1>0. "config" \in Widgets /\ "menu" \in Widgets /\ \A k \in Widgets \ {"menu"} : k \in {"search", "config"}
  BY DEF Widgets
<1>2. /\ IsWin(d) /\ d.rows = w.rows /\ d.mode = w.mode /\ d.opt = w.opt /\ d.root = w.root /\ d.left = Root
      /\ d.icon = w.icon /\ d.flagged = w.flagged /\ d.late = w.late
  BY DEF IsLeft, IsWin
<1>3. ASSUME NEW k \in Widgets \ {"menu"} PROVE SeesSame(w, d, k)
  BY <1>0, <1>2 DEF SeesSame, ModeOf, OptOf, RootOf
<1>4. RowsLike(d, "menu")
  <2>1. RootOf(w, "menu") = Nobody /\ RootOf(d, "menu") \in Entries /\ Nobody \notin Entries
    BY <1>2, RootAssumption, TreeAssumption DEF RootOf
  <2>3. RowsLike(w, "menu")
    BY DEF WinOk
  <2>4. InRows(d, "menu")
    BY <1>2, <2>3 DEF RowsLike, InRows
  <2>5. TopOk(d, "menu")
    BY <1>2, <2>1, <2>3 DEF RowsLike, TopOk
  <2> QED
    BY <2>1, <2>4, <2>5 DEF RowsLike
<1>5. RowsLike(d, "config")
  <2>1. SeesSame(w, d, "config")
    BY <1>0, <1>3
  <2> QED
    BY <1>2, <2>1, SeesSameIs DEF WinOk, RowsLike, InRows, TopOk, SeesSame
<1> QED
  BY <1>2, <1>3, <1>4, <1>5 DEF WinOk, Untouched

\* The view is shown after another one or, if the program has just begun, none.
LEMMA InViewOk ==
  ASSUME NEW w, NEW n, GoodWin(w, n), w.left \in {Nobody, Root}, NEW mode
  PROVE  Stands(InView(w, mode, n), n)
<1> DEFINE s == [w EXCEPT !.mode = mode]
           r == [s EXCEPT !.rows["config"] = NoRows, !.root = Root]
           b == IF w.root = Root THEN s ELSE r
           t == UpdateList(b, "config", TRUE, n)
           c == [t EXCEPT !.left = Root]
           u == UpdateList(c, "menu", TRUE, n)
<1>0. WinOk(w) /\ IsWin(w) /\ "config" \in Widgets /\ "menu" \in Widgets /\ Root \in Entries /\ IsMenu(Root)
  BY TreeAssumption, RootAssumption DEF GoodWin, GoodBut, WinOk, Widgets
<1>1. IsMode(w, mode, s)
  <2>1. s = [w EXCEPT !.mode = mode]
    OBVIOUS
  <2> HIDE DEF s
  <2>3. s = [mode |-> mode, opt |-> w.opt, root |-> w.root, left |-> w.left, rows |-> w.rows, icon |-> w.icon,
             flagged |-> w.flagged, late |-> w.late]
    BY <1>0, <2>1 DEF IsWin
  <2> QED
    BY <2>3 DEF IsMode
<1>2. IsReset(w, mode, Root, r)
  <2> DEFINE q == [w.rows EXCEPT !["config"] = NoRows]
  <2>0. s.rows = w.rows
    BY <1>1 DEF IsMode
  <2>1. r = [s EXCEPT !.rows = [s.rows EXCEPT !["config"] = NoRows], !.root = Root]
    OBVIOUS
  <2> HIDE DEF s, r
  <2>2. r = [s EXCEPT !.rows = q, !.root = Root]
    BY <2>0, <2>1
  <2> HIDE DEF q
  <2>3. r = [mode |-> mode, opt |-> w.opt, root |-> Root, left |-> w.left, rows |-> q, icon |-> w.icon,
             flagged |-> w.flagged, late |-> w.late]
    BY <1>1, <2>2 DEF IsMode
  <2> QED
    BY <2>3 DEF IsReset, q
<1>3. InView(w, mode, n) = IF mode = "symbol" /\ t.left # Root THEN u ELSE t
  <2>1. s.root = w.root
    BY <1>1 DEF IsMode
  <2>2. (IF s.root = Root THEN UpdateList(s, "config", TRUE, n) ELSE SetRoot(s, Root, n)) = t
    <3> HIDE DEF s
    <3> QED
      BY <1>0, <2>1 DEF SetRoot
  <2> HIDE DEF t
  <2> QED
    BY <2>2 DEF InView
<1> HIDE DEF s, r
<1>4. WinOk(b) /\ Untouched(w, b, {"config"}) /\ b.root = Root /\ b.left = w.left
  <2>1. CASE w.root = Root
    BY <1>0, <1>1, <2>1, ModeOk DEF IsMode
  <2>2. CASE w.root # Root
    <3>1. r.root = Root /\ r.left = w.left
      BY <1>2 DEF IsReset
    <3> QED
      BY <1>0, <1>2, <2>2, <3>1, ResetOk
  <2> QED
    BY <2>1, <2>2
<1> HIDE DEF b
<1>5. GoodWin(t, n) /\ t.root = Root /\ t.left = w.left
  <2>1. GoodWin(t, n) /\ SameView(b, t)
    BY <1>0, <1>4, OneAgain
  <2> HIDE DEF t
  <2> QED
    BY <1>4, <2>1 DEF SameView
<1>6. IsLeft(t, c)
  <2>1. c = [t EXCEPT !.left = Root]
    OBVIOUS
  <2>2. IsWin(t)
    BY <1>5 DEF GoodWin, GoodBut, WinOk
  <2> HIDE DEF c, t
  <2>3. c = [mode |-> t.mode, opt |-> t.opt, root |-> t.root, left |-> Root, rows |-> t.rows, icon |-> t.icon,
             flagged |-> t.flagged, late |-> t.late]
    BY <2>1, <2>2 DEF IsWin
  <2> QED
    BY <2>3 DEF IsLeft
<1> HIDE DEF t, c
<1>7. ASSUME t.left # Root PROVE GoodWin(u, n) /\ u.root = Root /\ u.left = Root
  <2>1. WinOk(c) /\ Untouched(t, c, {"menu"})
    BY <1>5, <1>6, <1>7, LeftOk DEF GoodWin, GoodBut
  <2>2. c.root = Root /\ c.left = Root
    BY <1>5, <1>6 DEF IsLeft
  <2>3. GoodWin(u, n) /\ SameView(c, u)
    BY <1>0, <1>5, <2>1, OneAgain
  <2> HIDE DEF u
  <2> QED
    BY <2>2, <2>3 DEF SameView
<1> HIDE DEF u
<1> QED
  BY <1>0, <1>3, <1>5, <1>7 DEF Stands

\* What is left out of the lists changes.
LEMMA OptOk ==
  ASSUME NEW w, NEW n, Stands(w, n), NEW opt
  PROVE  Stands(UpdateList(UpdateList([w EXCEPT !.opt = opt], "config", TRUE, n), "menu", TRUE, n), n)
<1> DEFINE d == [w EXCEPT !.opt = opt]
           a == UpdateList(d, "config", TRUE, n)
           b == UpdateList(a, "menu", TRUE, n)
           L == {"config", "menu"}
<1>0. WinOk(w) /\ IsWin(w) /\ "config" \in Widgets /\ "menu" \in Widgets /\ \A k \in Widgets \ L : k = "search"
  BY DEF Stands, GoodWin, GoodBut, WinOk, Widgets
<1>1. /\ IsWin(d) /\ d.rows = w.rows /\ d.mode = w.mode /\ d.opt = opt /\ d.root = w.root /\ d.left = w.left
      /\ d.icon = w.icon /\ d.flagged = w.flagged /\ d.late = w.late
  <2>1. d = [w EXCEPT !.opt = opt]
    OBVIOUS
  <2> HIDE DEF d
  <2>2. d = [mode |-> w.mode, opt |-> opt, root |-> w.root, left |-> w.left, rows |-> w.rows, icon |-> w.icon,
             flagged |-> w.flagged, late |-> w.late]
    BY <1>0, <2>1 DEF IsWin
  <2> QED
    BY <2>2 DEF IsWin
<1> HIDE DEF d
<1>2. ASSUME NEW k \in Widgets \ L PROVE SeesSame(w, d, k)
  BY <1>0, <1>1 DEF SeesSame, ModeOf, OptOf, RootOf
<1>3. ASSUME NEW k \in L PROVE RowsLike(d, k)
  <2>1. ModeOf(w, k) = ModeOf(d, k) /\ RootOf(w, k) = RootOf(d, k)
    BY <1>1 DEF ModeOf, RootOf
  <2>2. (HasUp(w, k) <=> HasUp(d, k)) /\ (Alone(w, k) <=> Alone(d, k))
    BY <2>1 DEF HasUp, Alone
  <2>3. RowsLike(w, k)
    BY <1>0 DEF WinOk
  <2> QED
    BY <1>1, <2>1, <2>2, <2>3 DEF RowsLike, InRows, TopOk, UpOf
<1>4. WinOk(d)
  BY <1>0, <1>1, <1>3 DEF WinOk
<1>5. Untouched(w, d, L)
  BY <1>1, <1>2 DEF Untouched
<1>6. GoodBut(d, n, L)
  BY <1>4, <1>5, GoodUntouched DEF Stands, GoodWin
<1>7. GoodBut(a, n, L \ {"config"}) /\ SameView(d, a)
  BY <1>0, <1>6, ListAgain
<1> HIDE DEF a
<1>8. GoodBut(b, n, (L \ {"config"}) \ {"menu"}) /\ SameView(a, b)
  BY <1>0, <1>7, ListAgain
<1>9. (L \ {"config"}) \ {"menu"} = {}
  OBVIOUS
<1> HIDE DEF b, L
<1>10. GoodBut(b, n, {})
  BY <1>8, <1>9
<1>11. Stands(b, n)
  BY <1>1, <1>7, <1>8, <1>10 DEF Stands, GoodWin, SameView
<1> QED
  BY <1>11 DEF a, b, d

\* What was found is shown.
LEMMA SearchOk ==
  ASSUME NEW w, NEW n, Stands(w, n), NEW found \in Seq(Entries)
  PROVE  Stands(Drawn([w EXCEPT !.rows["search"][Top] = found, !.icon["search"] = Undrawn], "search", {}, FALSE, n), n)
<1> DEFINE R == [w.rows["search"] EXCEPT ![Top] = found]
           b == [w EXCEPT !.rows["search"] = R]
           icon == [w.icon EXCEPT !["search"] = Undrawn]
           c == [w EXCEPT !.rows["search"][Top] = found, !.icon["search"] = Undrawn]
           d == Drawn(c, "search", {}, FALSE, n)
<1>0. WinOk(w) /\ IsWin(w) /\ "search" \in Widgets
  BY DEF Stands, GoodWin, GoodBut, WinOk, Widgets
<1>1. R \in ItemRows
  <2>1. found \in Seq(Items)
    <3>1. Entries \subseteq Items
      BY DEF Items
    <3> QED
      BY <3>1
  <2>2. w.rows["search"] \in ItemRows
    BY <1>0 DEF WinOk
  <2> QED
    BY <2>1, <2>2 DEF ItemRows
<1>2. RowsSet(w, "search", R, b)
  BY <1>0, <1>1, SetRows
<1>3. /\ IsWin(c) /\ SameView(b, c) /\ c.rows = b.rows /\ c.icon = icon /\ c.flagged = b.flagged /\ c.late = b.late
  <2>1. c = [w EXCEPT !.rows = [w.rows EXCEPT !["search"] = R], !.icon = icon]
    OBVIOUS
  <2>2. b = [w EXCEPT !.rows = [w.rows EXCEPT !["search"] = R]]
    OBVIOUS
  <2> HIDE DEF b, c, R, icon
  <2>3. c = [mode |-> w.mode, opt |-> w.opt, root |-> w.root, left |-> w.left, rows |-> [w.rows EXCEPT !["search"] = R],
             icon |-> icon, flagged |-> w.flagged, late |-> w.late]
    BY <1>0, <2>1 DEF IsWin
  <2>4. b = [mode |-> w.mode, opt |-> w.opt, root |-> w.root, left |-> w.left, rows |-> [w.rows EXCEPT !["search"] = R],
             icon |-> w.icon, flagged |-> w.flagged, late |-> w.late]
    BY <1>0, <2>2 DEF IsWin
  <2> QED
    BY <2>3, <2>4 DEF IsWin, SameView
<1> HIDE DEF b, c, R
<1>4. IsDrawn(c, "search", {}, FALSE, n, d)
  BY <1>3, DrawnIs
<1> HIDE DEF d
<1>5. IsDrawn(b, "search", {}, TRUE, n, d)
  <2>1. IsWin(d) /\ SameView(b, d) /\ d.rows = b.rows /\ d.late = b.late /\ d.flagged = b.flagged \ {} /\ DOMAIN d.icon = Widgets
    BY <1>3, <1>4 DEF IsDrawn, SameView
  <2>2. ASSUME NEW k \in Widgets, NEW e \in Entries
        PROVE  d.icon[k][e] = IF e \notin RowsIn(b, k) THEN "none"
                              ELSE IF Due(b, "search", {}, TRUE, k, e) THEN Shows(b, k, e, n) ELSE b.icon[k][e]
    <3>1. d.icon[k][e] = IF e \notin RowsIn(c, k) THEN "none"
                         ELSE IF Due(c, "search", {}, FALSE, k, e) THEN Shows(c, k, e, n) ELSE c.icon[k][e]
      BY <1>4 DEF IsDrawn
    <3>2. RowsIn(c, k) = RowsIn(b, k) /\ Shows(c, k, e, n) = Shows(b, k, e, n)
      <4>1. SeesSame(c, b, k)
        BY <1>3, SameViewIs DEF SameView, SeesSame
      <4>2. Shows(c, k, e, n) = Shows(b, k, e, n)
        BY <4>1, SameShows
      <4> QED
        BY <1>3, <4>2 DEF RowsIn
    <3>3. (Due(b, "search", {}, TRUE, k, e) <=> k = "search") /\ (Due(c, "search", {}, FALSE, k, e) <=> k = "search")
      BY DEF Due
    <3>4. k # "search" => c.icon[k] = b.icon[k]
      BY <1>0, <1>2, <1>3 DEF RowsSet, WinOk
    <3> QED
      BY <3>1, <3>2, <3>3, <3>4
  <2> QED
    BY <2>1, <2>2 DEF IsDrawn
<1>6. Keeps(w, "search", n, d) /\ IconsRight(d, "search", n)
  <2>1. {} \subseteq RowsIn(w, "search")
    OBVIOUS
  <2> QED
    BY <1>0, <1>2, <1>5, <2>1, DrawnKeeps, DrawnOthers
<1>7. /\ IsWin(d) /\ SameView(w, d) /\ d.late = w.late /\ d.flagged \subseteq Entries /\ d.rows \in [Widgets -> ItemRows]
      /\ DOMAIN d.icon = Widgets /\ \A k \in Widgets \ {"search"} : d.rows[k] = w.rows[k]
  BY <1>0, <1>2, <1>5 DEF IsDrawn, RowsSet, SameView, WinOk
<1>8. ASSUME NEW k \in {"config", "menu"} PROVE RowsLike(d, k)
  <2>1. SeesSame(w, d, k) /\ RowsLike(w, k) /\ d.rows[k] = w.rows[k]
    BY <1>0, <1>7, SameViewIs DEF WinOk, Widgets
  <2> QED
    BY <2>1, SeesSameIs DEF RowsLike, InRows, TopOk, SeesSame
<1>9. ListDone(w, "search", n, d)
  BY <1>6, <1>7, <1>8 DEF ListDone, WinOk
<1>10. GoodBut(d, n, {} \ {"search"})
  BY <1>0, <1>6, <1>9, DoneAgain DEF Stands, GoodWin
<1>11. {} \ {"search"} = {}
  OBVIOUS
<1>12. GoodWin(d, n)
  BY <1>10, <1>11 DEF GoodWin
<1>13. Stands(d, n)
  BY <1>7, <1>12 DEF Stands, SameView
<1> QED
  BY <1>13 DEF d, c

LEMMA RestTold ==
  ASSUME NEW w, NEW d, SameRest(w, d), NEW k \in Widgets, NEW n, IconsTold(w, k, n)
  PROVE  IconsTold(d, k, n)
<1>1. SeesSame(w, d, k) /\ d.icon = w.icon /\ d.rows = w.rows /\ w.flagged \subseteq d.flagged
  BY SameViewIs DEF SameRest
<1>2. RowsIn(d, k) = RowsIn(w, k)
  BY <1>1 DEF RowsIn
<1>3. \A e : Shows(w, k, e, n) = Shows(d, k, e, n)
  BY <1>1, SameShows
<1> QED
  BY <1>1, <1>2, <1>3 DEF IconsTold

\* There are new values, and what they differ in is flagged.
LEMMA FlaggedOk ==
  ASSUME NEW w, WinOk(w), NEW n, NEW m, NEW S, Differing(n, m) \subseteq S, \A k \in Widgets : IconsTold(w, k, n)
  PROVE  /\ WinOk(Flag(w, S)) /\ SameView(w, Flag(w, S)) /\ \A k \in Widgets : IconsTold(Flag(w, S), k, m)
<1>1. SameRest(w, Flag(w, S))
  BY FlagIs
<1>2. WinOk(Flag(w, S)) /\ SameView(w, Flag(w, S))
  BY <1>1, RestOk DEF SameRest
<1> QED
  BY <1>2, FlaggedTold

LEMMA SameDiffering ==
  ASSUME NEW n
  PROVE  Differing(n, n) = {}
BY DEF Differing

\* One answer is given.
LEMMA AnswerOk ==
  ASSUME NEW w, NEW n, Stands(w, n), NEW m, NEW S, NEW new \in BOOLEAN, ~new => m = n
  PROVE  LET f == Flag(w, S)
         IN  Stands(UpdateViews(IF new THEN Flagged(f, n, m) ELSE f, FALSE, m), m)
<1> DEFINE f == Flag(w, S)
           D == Differing(n, m) \cup {s \in Symbols : IsValue(s)}
           g == Flag(f, D)
           h == IF new THEN Flagged(f, n, m) ELSE f
           d == UpdateViews(h, FALSE, m)
<1>1. WinOk(w) /\ \A k \in Widgets : IconsTold(w, k, n)
  BY DEF Stands, GoodWin, GoodBut
<1>2. Differing(n, n) \subseteq S
  BY SameDiffering
<1>3. WinOk(f) /\ SameView(w, f) /\ \A k \in Widgets : IconsTold(f, k, n)
  BY <1>1, <1>2, FlaggedOk
<1>4. Differing(n, m) \subseteq D
  OBVIOUS
<1> HIDE DEF f, D
<1>5. WinOk(g) /\ SameView(f, g) /\ \A k \in Widgets : IconsTold(g, k, m)
  BY <1>3, <1>4, FlaggedOk
<1>6. h = IF new THEN g ELSE f
  BY DEF Flagged, D
<1> HIDE DEF g, h
<1>7. WinOk(h) /\ SameView(w, h) /\ \A k \in Widgets : IconsTold(h, k, m)
  <2>1. CASE new
    <3>1. h = g
      BY <1>6, <2>1
    <3> QED
      BY <1>3, <1>5, <3>1 DEF SameView
  <2>2. CASE ~new
    <3>1. h = f /\ m = n
      BY <1>6, <2>2
    <3> QED
      BY <1>3, <3>1
  <2> QED
    BY <2>1, <2>2
<1>8. GoodWin(d, m) /\ SameView(h, d)
  BY <1>7, ViewsAgain
<1> HIDE DEF d
<1>9. Stands(d, m)
  BY <1>7, <1>8 DEF Stands, SameView
<1> QED
  BY <1>9 DEF d, h, f

\* A save calculates, and updates no list.
LEMMA SavedOk ==
  ASSUME NEW w, NEW n, Stands(w, n), ValuesOk(n), NEW m, ValuesOk(m)
  PROVE  Stands([Flagged(w, n, m) EXCEPT !.late = @ \/ Differing(n, m) # {}], m)
<1> DEFINE D == Differing(n, m) \cup {s \in Symbols : IsValue(s)}
           f == Flag(w, D)
           late == f.late \/ Differing(n, m) # {}
           d == [f EXCEPT !.late = late]
<1>1. WinOk(w) /\ (\A k \in Widgets : IconsTold(w, k, n)) /\ (~w.late => Right(w, n, {}))
  BY DEF Stands, GoodWin, GoodBut
<1>2. Differing(n, m) \subseteq D
  OBVIOUS
<1>3. [Flagged(w, n, m) EXCEPT !.late = @ \/ Differing(n, m) # {}] = d
  BY DEF Flagged
<1> HIDE DEF D
<1>4. WinOk(f) /\ SameView(w, f) /\ \A k \in Widgets : IconsTold(f, k, m)
  BY <1>1, <1>2, FlaggedOk
<1>5. SameRest(w, f) /\ f.late = w.late
  BY <1>1, FlagIs
<1> HIDE DEF f
<1>6. SameRest(f, d) /\ d.late = late
  <2>1. IsWin(f)
    BY <1>4 DEF WinOk
  <2>2. d = [f EXCEPT !.late = late]
    OBVIOUS
  <2> HIDE DEF d, late
  <2>3. d = [mode |-> f.mode, opt |-> f.opt, root |-> f.root, left |-> f.left, rows |-> f.rows, icon |-> f.icon,
             flagged |-> f.flagged, late |-> late]
    BY <2>1, <2>2 DEF IsWin
  <2> QED
    BY <1>4, <2>3 DEF SameRest, IsWin, SameView, WinOk
<1> HIDE DEF d
<1>7. WinOk(d) /\ SameView(w, d) /\ \A k \in Widgets : IconsTold(d, k, m)
  <2>1. WinOk(d) /\ SameView(f, d)
    BY <1>4, <1>6, RestOk DEF SameRest
  <2>2. \A k \in Widgets : IconsTold(d, k, m)
    BY <1>4, <1>6, RestTold
  <2> QED
    BY <1>4, <2>1, <2>2 DEF SameView
<1>8. ASSUME ~d.late PROVE Right(d, m, {})
  <2>1. ~w.late /\ Differing(n, m) = {}
    BY <1>5, <1>6, <1>8
  <2>2. SameValues(n, m)
    BY <2>1, DifferingNone
  <2>3. Right(f, n, {})
    BY <1>1, <1>5, <2>1, RestOk
  <2>4. Right(d, n, {})
    BY <1>4, <1>6, <2>3, RestOk
  <2> QED
    BY <1>7, <2>2, <2>4, RightValues
<1>9. Stands(d, m)
  BY <1>7, <1>8 DEF Stands, GoodWin, GoodBut, SameView
<1> QED
  BY <1>3, <1>9

\* The same values, with other ones to write
LEMMA SameStands ==
  ASSUME NEW w, NEW n, Stands(w, n), NEW m, SameValues(n, m)
  PROVE  Stands(w, m)
<1>1. WinOk(w)
  BY DEF Stands, GoodWin, GoodBut
<1> QED
  BY <1>1, RightValues DEF Stands, GoodWin, GoodBut

(* No step changes the Config.in files. *)

LEMMA VisibleSame ==
  ASSUME kconfig' = kconfig, NEW e, NEW n
  PROVE  Visible(e, n)' <=> Visible(e, n)
BY DEF Visible, PromptVisible, IsYes, Holds

LEMMA SkipSame ==
  ASSUME kconfig' = kconfig, NEW opt, NEW n
  PROVE  \A e : Skipped(opt, e, n)' <=> Skipped(opt, e, n)
<1> TAKE e
<1>1. Visible(e, n)' <=> Visible(e, n)
  BY VisibleSame
<1> QED
  BY <1>1 DEF Skipped

LEMMA LevelsSame ==
  ASSUME kconfig' = kconfig, NEW w, NEW l, NEW n
  PROVE  LevelsOf(w, l, n)' = LevelsOf(w, l, n)
<1>1. \A e : Skipped(OptOf(w, l), e, n)' <=> Skipped(OptOf(w, l), e, n)
  BY SkipSame
<1>2. {e \in Entries : HiddenBy(ModeOf(w, l), e) \/ Skipped(OptOf(w, l), e, n)}'
      = {e \in Entries : HiddenBy(ModeOf(w, l), e) \/ Skipped(OptOf(w, l), e, n)}
  BY <1>1 DEF HiddenBy, ModeOf, OptOf
<1> QED
  BY <1>2 DEF LevelsOf

LEMMA StandsSame ==
  ASSUME kconfig' = kconfig, NEW w, NEW n, Stands(w, n)
  PROVE  Stands(w, n)'
<1>1. WinOk(w)'
  BY DEF Stands, GoodWin, GoodBut
<1>2. \A l : IconsRight(w, l, n)' <=> IconsRight(w, l, n)
  BY DEF IconsRight
<1>3. \A l : IconsTold(w, l, n)' <=> IconsTold(w, l, n)
  BY DEF IconsTold
<1>4. \A l : Wanted(w, l, n)' = Wanted(w, l, n)
  <2> TAKE l
  <2> DEFINE d == [w EXCEPT !.rows[l] = NoRows]
  <2>1. LevelsOf(d, l, n)' = LevelsOf(d, l, n)
    BY LevelsSame
  <2> QED
    BY <2>1 DEF Wanted
<1> QED
  BY <1>1, <1>2, <1>3, <1>4 DEF Stands, GoodWin, GoodBut, Right

LEMMA NowStands ==
  ASSUME kconfig' = kconfig, NEW w, NEW n, Stands(w, n), win' = w, now' = n
  PROVE  Stands(win, now)'
<1>1. Stands(w, n)'
  BY StandsSame
<1> QED
  BY <1>1

(* The invariant *)

QInv ==
    /\ kconfig \in Kconfigs /\ pc \in {"idle", "edit"}
    /\ pc = "edit" => Stands(win, now) /\ ValuesOk(now)
    /\ pc = "idle" => win = Closed

\* There is nothing to see before the window is there.
LEMMA NoneOpen ==
  ASSUME NEW n
  PROVE  GoodWin(Closed, n) /\ Closed.left = Nobody
<1>0. /\ IsWin(Closed) /\ Closed.rows = [l \in Widgets |-> NoRows] /\ Closed.icon = [l \in Widgets |-> Undrawn]
      /\ Closed.flagged = {} /\ Closed.root = Nobody /\ Closed.left = Nobody
  BY DEF Closed, IsWin
<1>1. \A l \in Widgets : Closed.rows[l] = NoRows /\ RootOf(Closed, l) = Nobody
  BY <1>0 DEF RootOf
<1>2. WinOk(Closed)
  <2>1. \A l \in {"config", "menu"} : RowsLike(Closed, l)
    BY <1>1, NoRowsLike DEF Widgets
  <2>2. Closed.rows \in [Widgets -> ItemRows] /\ DOMAIN Closed.icon = Widgets
    BY <1>0, NoRowsIn
  <2> QED
    BY <1>0, <2>1, <2>2 DEF WinOk
<1>3. ASSUME NEW l \in Widgets PROVE RowsIn(Closed, l) = {}
  <2>1. \A p \in Entries \cup {Top} : ToSet(Closed.rows[l][p]) = {}
    BY <1>1 DEF NoRows, ToSet
  <2> QED
    BY <2>1 DEF RowsIn
<1>4. ASSUME NEW l \in {"config", "menu"} PROVE Closed.rows[l] = Wanted(Closed, l, n)
  <2> DEFINE d == [Closed EXCEPT !.rows[l] = NoRows]
  <2>1. l \in Widgets
    BY DEF Widgets
  <2>2. RowsSet(Closed, l, NoRows, d)
    BY <1>2, <2>1, NoRowsIn, SetRows
  <2>3. SameView(Closed, d)
    BY <2>2 DEF RowsSet, SameView
  <2> HIDE DEF d
  <2>4. RootOf(d, l) = Nobody
    BY <1>1, <2>1, <2>3, SameViewIs DEF SeesSame
  <2>5. LevelsOf(d, l, n) = {}
    BY <2>4 DEF LevelsOf
  <2>6. RowsOf({}) = NoRows
    BY DEF RowsOf, NoRows
  <2> QED
    BY <1>1, <2>1, <2>5, <2>6 DEF Wanted, d
<1>5. Right(Closed, n, {})
  <2>1. \A k \in Widgets : IconsRight(Closed, k, n)
    BY <1>3 DEF IconsRight
  <2> QED
    BY <1>4, <2>1 DEF Right, Widgets
<1>6. \A k \in Widgets : IconsTold(Closed, k, n)
  BY <1>5, RightTold
<1> QED
  BY <1>0, <1>2, <1>5, <1>6 DEF GoodWin, GoodBut

LEMMA ToEdit ==
  ASSUME kconfig' = kconfig, kconfig \in Kconfigs, pc' = "edit", NEW w, NEW n, Stands(w, n), ValuesOk(n), win' = w, now' = n
  PROVE  QInv'
<1>1. Stands(win, now)'
  BY NowStands
<1>2. ValuesOk(now)'
  BY DEF ValuesOk
<1> QED
  BY <1>1, <1>2 DEF QInv

LEMMA QEnded ==
  ASSUME QInv, kconfig' = kconfig, Ended
  PROVE  QInv'
BY DEF QInv, Ended, Exit

LEMMA QStart ==
  ASSUME QInv, NEW mode, Start(mode)
  PROVE  QInv'
<1> DEFINE n == ReadDot.now
           f == Flagged(Closed, NotCalculated, n)
           w == InView(f, mode, n)
<1>1. kconfig' = kconfig /\ pc' = "edit" /\ win' = w /\ now' = n /\ kconfig \in Kconfigs
  BY DEF Start, Show, QInv
<1>2. ValuesOk(n)
  BY <1>1, CalculatedOk DEF ReadDot, Read
<1> HIDE DEF n
<1>3. GoodWin(Closed, n) /\ WinOk(Closed) /\ Closed.left = Nobody
  BY NoneOpen DEF GoodWin, GoodBut
<1>4. SameRest(Closed, f) /\ f.late = Closed.late
  BY <1>3, FlagIs DEF Flagged
<1> HIDE DEF f
<1>5. GoodWin(f, n) /\ f.left = Nobody
  <2>1. f.left = Nobody /\ WinOk(f)
    BY <1>3, <1>4, RestOk DEF SameRest, SameView
  <2>2. \A k \in Widgets : IconsTold(f, k, n)
    BY <1>3, <1>4, RestTold DEF GoodWin, GoodBut
  <2>3. ~f.late => Right(f, n, {})
    BY <1>3, <1>4, RestOk DEF GoodWin, GoodBut
  <2> QED
    BY <2>1, <2>2, <2>3 DEF GoodWin, GoodBut
<1>6. Stands(w, n)
  BY <1>5, InViewOk
<1> HIDE DEF w
<1> QED
  BY <1>1, <1>2, <1>6, ToEdit

\* A step that shows the lists otherwise.
LEMMA QMoved ==
  ASSUME QInv, Moved, NEW w, Stands(w, now), win' = w, now' = now
  PROVE  QInv'
<1>1. kconfig' = kconfig /\ kconfig \in Kconfigs /\ pc' = "edit" /\ ValuesOk(now)
  BY DEF Moved, Here, QInv
<1> QED
  BY <1>1, ToEdit

LEMMA QChanged ==
  ASSUME QInv, Edited, NEW s, NEW u, NEW new \in BOOLEAN, Changed(s, u, new)
  PROVE  QInv'
<1> DEFINE n == IF new THEN Calculate(kconfig, u) ELSE now
           f == Flag(win, {s} \ user.has)
           w == UpdateViews(IF new THEN Flagged(f, now, n) ELSE f, FALSE, n)
<1>1. kconfig' = kconfig /\ kconfig \in Kconfigs /\ pc' = "edit" /\ Stands(win, now) /\ ValuesOk(now)
  BY DEF Edited, Here, QInv
<1>2. win' = w /\ now' = n
  BY DEF Changed, Show
<1>3. ValuesOk(n)
  BY <1>1, CalculatedOk
<1>4. ~new => n = now
  OBVIOUS
<1> HIDE DEF n
<1>5. Stands(w, n)
  BY <1>1, <1>4, AnswerOk
<1> HIDE DEF w
<1> QED
  BY <1>1, <1>2, <1>3, <1>5, ToEdit

LEMMA QNothing ==
  ASSUME QInv, NEW e, ChangeNothing(e)
  PROVE  QInv'
<1> DEFINE w == Flag(win, {SymOf[e]} \ user.has)
<1>1. kconfig' = kconfig /\ kconfig \in Kconfigs /\ pc' = "edit" /\ Stands(win, now) /\ ValuesOk(now)
  BY DEF ChangeNothing, Edited, Here, QInv
<1>2. win' = w /\ now' = now
  BY DEF ChangeNothing
<1>3. WinOk(win) /\ (\A k \in Widgets : IconsTold(win, k, now)) /\ (~win.late => Right(win, now, {}))
  BY <1>1 DEF Stands, GoodWin, GoodBut
<1>4. SameRest(win, w) /\ w.late = win.late
  BY <1>3, FlagIs
<1> HIDE DEF w
<1>5. WinOk(w) /\ (\A k \in Widgets : IconsTold(w, k, now)) /\ (~w.late => Right(w, now, {}))
  BY <1>3, <1>4, RestOk, RestTold
<1>6. Stands(w, now)
  BY <1>1, <1>4, <1>5 DEF Stands, GoodWin, GoodBut, SameRest, SameView
<1> QED
  BY <1>1, <1>2, <1>6, ToEdit

LEMMA QLoad ==
  ASSUME QInv, NEW lines, LoadConfig(lines)
  PROVE  QInv'
<1> DEFINE n == Read(kconfig, lines).now
           f == Flagged(win, now, n)
           w == UpdateViews(f, TRUE, n)
<1>1. kconfig' = kconfig /\ kconfig \in Kconfigs /\ pc' = "edit" /\ Stands(win, now) /\ ValuesOk(now)
  BY DEF LoadConfig, Edited, Here, QInv
<1>2. win' = w /\ now' = n
  BY DEF LoadConfig, Show
<1>3. ValuesOk(n)
  BY <1>1, CalculatedOk DEF Read
<1> HIDE DEF n
<1>4. WinOk(win)
  BY <1>1 DEF Stands, GoodWin, GoodBut
<1>5. SameRest(win, f)
  BY <1>4, FlagIs DEF Flagged
<1> HIDE DEF f
<1>6. WinOk(f) /\ SameView(win, f)
  BY <1>4, <1>5, RestOk DEF SameRest
<1>7. GoodWin(w, n) /\ SameView(f, w)
  BY <1>6, ViewsAgain
<1> HIDE DEF w
<1>8. Stands(w, n)
  BY <1>1, <1>6, <1>7 DEF Stands, SameView
<1> QED
  BY <1>1, <1>2, <1>3, <1>8, ToEdit

\* conf_write
LEMMA QSaved ==
  ASSUME QInv, kconfig' = kconfig, pc = "edit", pc' = "edit", now' = [ToWrite EXCEPT !.wr = {}], win' = Recalculated
  PROVE  QInv'
<1> DEFINE n == [ToWrite EXCEPT !.wr = {}]
<1>1. kconfig \in Kconfigs /\ Stands(win, now) /\ ValuesOk(now)
  BY DEF QInv
<1>2. ValuesOk(ToWrite)
  BY <1>1, CalculatedOk DEF ToWrite
<1>3. SameValues(ToWrite, n) /\ ValuesOk(n)
  <2> DEFINE m == ToWrite
  <2>1. n = [m EXCEPT !.wr = {}]
    OBVIOUS
  <2> HIDE DEF m, n
  <2>2. m = [cur |-> m.cur, vis |-> m.vis, sel |-> m.sel, wr |-> m.wr]
    BY <1>2 DEF ValuesOk, m
  <2>3. n = [cur |-> m.cur, vis |-> m.vis, sel |-> m.sel, wr |-> {}]
    BY <2>1, <2>2
  <2>4. SameValues(m, n)
    BY <2>3 DEF SameValues
  <2>5. ValuesOk(n)
    BY <1>2, <2>3 DEF ValuesOk, m
  <2> QED
    BY <2>4, <2>5 DEF m
<1>4. Stands(Recalculated, ToWrite)
  <2>1. CASE changed
    BY <1>1, <2>1 DEF Recalculated, ToWrite
  <2>2. CASE ~changed
    <3>1. Recalculated = [Flagged(win, now, ToWrite) EXCEPT !.late = @ \/ Differing(now, ToWrite) # {}]
      BY <2>2 DEF Recalculated
    <3> QED
      BY <1>1, <1>2, <3>1, SavedOk
  <2> QED
    BY <2>1, <2>2
<1> HIDE DEF n
<1>5. Stands(Recalculated, n)
  BY <1>3, <1>4, SameStands
<1>6. now' = n
  BY DEF n
<1> QED
  BY <1>1, <1>3, <1>5, <1>6, ToEdit

LEMMA QLink ==
  ASSUME QInv, NEW e \in Entries, SetMenuLink(e)
  PROVE  QInv'
<1>1. Moved /\ Stands(win, now) /\ win' = Linked(e) /\ now' = now
  BY DEF SetMenuLink, Moved, Here, QInv, Show
<1>2. Stands(Linked(e), now)
  <2>1. MenuOf(e) \in Entries
    BY MenuOfIn
  <2>2. e \notin MenuRoots => MenuOf(ParentOf(e)) \in Entries
    BY RootIsMenu, MenuAbove
  <2>3. CASE win.mode = "single"
    BY <1>1, <2>1, <2>3, SetRootOk DEF Linked
  <2>4. CASE win.mode = "symbol"
    <3> DEFINE m == IF e \in MenuRoots THEN e ELSE MenuOf(ParentOf(e))
    <3>1. m \in Entries
      BY <2>2
    <3>2. Linked(e) = SetRoot(win, m, now)
      BY <2>4 DEF Linked
    <3> HIDE DEF m
    <3> QED
      BY <1>1, <3>1, <3>2, SetRootOk
  <2>5. CASE win.mode \notin {"single", "symbol"}
    BY <1>1, <2>5 DEF Linked
  <2> QED
    BY <2>3, <2>4, <2>5
<1> QED
  BY <1>1, <1>2, QMoved

LEMMA QRows ==
  ASSUME QInv, NEW e \in Rows, pc = "edit"
  PROVE  e \in Entries
<1>1. WinOk(win)
  BY DEF QInv, Stands, GoodWin, GoodBut
<1>2. \A l \in Widgets : RowsIn(win, l) \subseteq Entries
  BY <1>1, RowsInEntries DEF WinOk
<1> QED
  BY <1>2 DEF Rows, Widgets

LEMMA QStep == QInv /\ [QNext]_qvars => QInv'
<1> SUFFICES ASSUME QInv, [QNext]_qvars PROVE QInv'
  OBVIOUS
<1>0. ASSUME Moved PROVE pc = "edit" /\ Stands(win, now)
  BY <1>0 DEF Moved, Here, QInv
<1>1. CASE \E mode \in Views : Start(mode)
  BY <1>1, QStart
<1>2. CASE \E mode \in Views : ShowView(mode)
  <2>1. PICK mode \in Views : ShowView(mode)
    BY <1>2
  <2>2. Moved /\ win' = InView(win, mode, now) /\ now' = now
    BY <2>1 DEF ShowView, Show
  <2>3. Stands(InView(win, mode, now), now)
    BY <1>0, <2>2, InViewOk DEF Stands
  <2> QED
    BY <2>2, <2>3, QMoved
<1>3. CASE \E e \in Rows : \E v \in {"y", "n"} : SetValue(e, v)
  <2>1. PICK e \in Rows : \E v \in {"y", "n"} : SetValue(e, v)
    BY <1>3
  <2>2. PICK v \in {"y", "n"} : SetValue(e, v)
    BY <2>1
  <2> DEFINE new == v # now.cur[SymOf[e]]
             u == Answered(user, SymOf[e], v)
  <2>3. Edited /\ Changed(SymOf[e], u, new) /\ new \in BOOLEAN
    BY <2>2 DEF SetValue
  <2> HIDE DEF new, u
  <2> QED
    BY <2>3, QChanged
<1>4. CASE \E e \in Rows : ChangeNothing(e)
  BY <1>4, QNothing
<1>5. CASE \E e \in Rows : \E t \in Texts : EnterText(e, t)
  <2>1. PICK e \in Rows : \E t \in Texts : EnterText(e, t)
    BY <1>5
  <2>2. PICK t \in Texts : EnterText(e, t)
    BY <2>1
  <2> DEFINE new == user.val[SymOf[e]] # t
             u == Entered(user, SymOf[e], t)
  <2>3. Edited /\ Changed(SymOf[e], u, new) /\ new \in BOOLEAN
    BY <2>2 DEF EnterText
  <2> HIDE DEF new, u
  <2> QED
    BY <2>3, QChanged
<1>6. CASE \E e \in Rows : ChangeMenu(e)
  <2>1. PICK e \in Rows : ChangeMenu(e)
    BY <1>6
  <2>2. Moved /\ win' = SetRoot(win, e, now) /\ now' = now
    BY <2>1 DEF ChangeMenu, Show
  <2>3. Stands(SetRoot(win, e, now), now)
    BY <1>0, <2>2, QRows, SetRootOk
  <2> QED
    BY <2>2, <2>3, QMoved
<1>7. CASE GoBack
  <2>1. Moved /\ win.root # Root /\ win' = Back /\ now' = now
    BY <1>7 DEF GoBack, Show
  <2>2. MenuOf(ParentOf(win.root)) \in Entries
    BY <1>0, <2>1, MenuAbove DEF Stands
  <2>3. Stands(Back, now)
    BY <1>0, <2>1, <2>2, SetRootOk DEF Back
  <2> QED
    BY <2>1, <2>3, QMoved
<1>8. CASE \E found \in Searches : Search(found)
  <2>1. PICK found \in Searches : Search(found)
    BY <1>8
  <2> DEFINE w == Drawn([win EXCEPT !.rows["search"][Top] = found, !.icon["search"] = Undrawn], "search", {}, FALSE, now)
  <2>2. Moved /\ win' = w /\ now' = now
    BY <2>1 DEF Search, Show
  <2>3. Stands(w, now)
    <3>1. found \in Seq(Entries)
      BY SearchAssumption
    <3> QED
      BY <1>0, <2>2, <3>1, SearchOk
  <2> HIDE DEF w
  <2> QED
    BY <2>2, <2>3, QMoved
<1>9. CASE \E e \in Entries : SetMenuLink(e)
  BY <1>9, QLink
<1>10. CASE \E opt \in OptionModes : SetOptionMode(opt)
  <2>1. PICK opt \in OptionModes : SetOptionMode(opt)
    BY <1>10
  <2> DEFINE w == UpdateList(UpdateList([win EXCEPT !.opt = opt], "config", TRUE, now), "menu", TRUE, now)
  <2>2. Moved /\ win' = w /\ now' = now
    BY <2>1 DEF SetOptionMode, Show
  <2>3. Stands(w, now)
    BY <1>0, <2>2, OptOk
  <2> HIDE DEF w
  <2> QED
    BY <2>2, <2>3, QMoved
<1>11. CASE \E lines \in Defconfigs : LoadConfig(lines)
  BY <1>11, QLoad
<1>12. CASE \E quit \in BOOLEAN : SaveConfig(quit)
  <2>1. PICK quit \in BOOLEAN : SaveConfig(quit)
    BY <1>12
  <2>2. kconfig' = kconfig /\ pc = "edit"
    BY <2>1 DEF SaveConfig
  <2>3. CASE quit
    <3>1. Ended
      BY <2>1, <2>3 DEF SaveConfig
    <3> QED
      BY <2>2, <3>1, QEnded
  <2>4. CASE ~quit
    <3>1. now' = [ToWrite EXCEPT !.wr = {}] /\ win' = Recalculated /\ pc' = "edit"
      BY <2>1, <2>2, <2>4 DEF SaveConfig
    <3> QED
      BY <2>2, <3>1, QSaved
  <2> QED
    BY <2>3, <2>4
<1>13. CASE SaveFails
  <2>1. kconfig' = kconfig /\ pc = "edit" /\ pc' = "edit" /\ now' = [ToWrite EXCEPT !.wr = {}] /\ win' = Recalculated
    BY <1>13 DEF SaveFails
  <2> QED
    BY <2>1, QSaved
<1>14. CASE Close
  BY <1>14, QEnded DEF Close
<1>15. CASE UNCHANGED qvars
  <2>1. kconfig' = kconfig /\ pc' = pc /\ win' = win /\ now' = now
    BY <1>15 DEF qvars, vars
  <2>2. CASE pc = "edit"
    BY <2>1, <2>2, ToEdit DEF QInv
  <2>3. CASE pc # "edit"
    BY <2>1, <2>3 DEF QInv
  <2> QED
    BY <2>2, <2>3
<1> QED
  BY <1>1, <1>2, <1>3, <1>4, <1>5, <1>6, <1>7, <1>8, <1>9, <1>10, <1>11, <1>12, <1>13, <1>14, <1>15 DEF QNext

LEMMA QFirst == QInit => QInv
BY DEF QInit, Init, QInv

-----------------------------------------------------------------------------
(* Theorems *)

\* Whatever is changed, shown, searched, loaded or saved, and in any order of
\* it, the rows of a list that is updated one row at a time are those of a list
\* that is made anew, for every menu tree and all Config.in files.
THEOREM RowsAreFresh == QSpec => []RowsFresh
<1>1. QInv => RowsFresh
  <2> SUFFICES ASSUME QInv, pc = "edit", ~win.late, NEW l \in {"config", "menu"}
               PROVE  win.rows[l] = Wanted(win, l, now)
    BY DEF RowsFresh, Wanted
  <2>1. Right(win, now, {})
    BY DEF QInv, Stands, GoodWin, GoodBut
  <2> QED
    BY <2>1 DEF Right, Widgets
<1> QED
  BY <1>1, QFirst, QStep, PTL DEF QSpec

\* No row shows what its symbol no longer is, in any of the lists, although one
\* mark of each entry has to do for all of them; but for what a save has just
\* calculated, which it leaves marked.
THEOREM IconsAreFresh == QSpec => []IconsFresh
<1>1. QInv => IconsFresh
  <2> SUFFICES ASSUME QInv, pc = "edit", NEW l \in Widgets, NEW e \in RowsIn(win, l)
               PROVE  win.icon[l][e] = Shows(win, l, e, now) \/ (win.late /\ e \in win.flagged)
    BY DEF IconsFresh
  <2>1. IconsTold(win, l, now) /\ (~win.late => IconsRight(win, l, now))
    BY DEF QInv, Stands, GoodWin, GoodBut, Right
  <2> QED
    BY <2>1 DEF IconsTold, IconsRight
<1> QED
  BY <1>1, QFirst, QStep, PTL DEF QSpec
=============================================================================
