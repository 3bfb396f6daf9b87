---------------------------- MODULE MkUsersProofs ----------------------------
(***************************************************************************)
(* Proofs about MkUsers, for every users table and every skeleton: uids    *)
(* stay unique, a home is given to the ids its user finally has, when      *)
(* mkusers succeeds each entry has what it asks for, and mkusers succeeds  *)
(* for every table that can be honoured.                                   *)
(***************************************************************************)
EXTENDS MkUsers, FiniteSetTheorems, WellFoundedInduction, TLAPS

-----------------------------------------------------------------------------
(* The ids *)

\* A set of ids that is not empty has a lowest one.
LEMMA LowestIn ==
  ASSUME NEW S, S \subseteq Nat, S /= {}
  PROVE  Lowest(S) \in S
<1>1. \E n \in S : \A m \in S : <<m, n>> \notin OpToRel(<, Nat)
  BY WFMin, NatLessThanWellFounded, Zenon
<1>2. PICK n \in S : \A m \in S : <<m, n>> \notin OpToRel(<, Nat)
  BY <1>1
<1>3. \A m \in S : ~(m < n)
  BY <1>2, Zenon DEF OpToRel
<1>4. \A m \in S : n <= m
  BY <1>3
<1> QED
  BY <1>4 DEF Lowest

\* What generate_uid and generate_gid return: the id of a name that has one,
\* and otherwise an id that no name has, or none.
LEMMA Generated ==
  ASSUME NEW T, NEW id \in [T -> Id], NEW x \in T
  PROVE  /\ Generate(id, x) \in Id
         /\ id[x] /= None => Generate(id, x) = id[x]
         /\ id[x] = None /\ Generate(id, x) /= None => Named(id, Generate(id, x)) = {}
<1>1. CASE id[x] /= None
  BY <1>1 DEF Generate
<1>2. CASE id[x] = None /\ Free(id) = {}
  BY <1>2 DEF Generate, Id
<1>3. CASE id[x] = None /\ Free(id) /= {}
  <2>1. Free(id) \subseteq Nat
    BY UsersAssumption DEF Free
  <2>2. Lowest(Free(id)) \in Free(id)
    BY <1>3, <2>1, LowestIn
  <2>3. Generate(id, x) = Lowest(Free(id))
    BY <1>3 DEF Generate
  <2> QED
    BY <1>3, <2>1, <2>2, <2>3 DEF Free, Id
<1> QED
  BY <1>1, <1>2, <1>3

LEMMA GeneratedInRange ==
  ASSUME NEW T, NEW id \in [T -> Id], NEW x \in T, id[x] = None, Generate(id, x) /= None
  PROVE  Generate(id, x) \in MinId..MaxId
<1>1. Free(id) /= {} /\ Generate(id, x) = Lowest(Free(id))
  BY DEF Generate
<1>2. Free(id) \subseteq Nat
  BY UsersAssumption DEF Free
<1>3. Lowest(Free(id)) \in Free(id)
  BY <1>1, <1>2, LowestIn
<1> QED
  BY <1>1, <1>3 DEF Free

LEMMA TableEntry ==
  ASSUME TypeOK, i <= Len(table)
  PROVE  /\ i \in 1..Len(table) /\ table[i] \in Entry
         /\ table[i].group \in Group
         /\ table[i].user /= NoUser => table[i].user \in User
         /\ table[i].uid \in Int /\ table[i].gid \in Int
         /\ table[i].groups \in Seq(Group)
<1>1. i \in 1..Len(table)
  BY DEF TypeOK
<1>2. table[i] \in Entry
  BY <1>1 DEF TypeOK
<1> QED
  BY <1>1, <1>2 DEF Entry

-----------------------------------------------------------------------------
\* The groups that the first two passes have created so far.
GroupsMade ==
    \A k \in 1..Len(table) :
        /\ table[k].gid >= 0 /\ (pass > 1 \/ (pass = 1 /\ k < i)) => gid[table[k].group] /= None
        /\ table[k].gid = Automatic /\ (pass > 2 \/ (pass = 2 /\ k < i)) => gid[table[k].group] /= None

\* The chown lines agree with passwd, and their gids with group.
ChownInv ==
    /\ pass \in 1..3 => chown = {}
    /\ pass > 3 => \A c \in chown :
          /\ uid[c.user] = c.uid /\ c.uid /= None
          /\ ugid[c.user] = c.gid /\ c.gid /= None
          /\ Named(gid, c.gid) /= {}

IInv == TypeOK /\ UidsUnique /\ GroupsMade /\ ChownInv

LEMMA InitInv == Init => IInv
<1> SUFFICES ASSUME Init PROVE IInv
  OBVIOUS
<1>1. skeleton \in Skeleton /\ table \in Seq(Entry) /\ Injective(skeleton.uid)
  BY UsersAssumption DEF Init
<1>2. TypeOK
  BY <1>1 DEF Init, TypeOK, Skeleton
<1>3. UidsUnique /\ GroupsMade /\ ChownInv
  BY <1>1 DEF Init, UidsUnique, GroupsMade, ChownInv
<1> QED
  BY <1>2, <1>3 DEF IInv

\* A group gets a gid, and nothing else changes in /etc.
LEMMA GroupAdded ==
  ASSUME TypeOK, NEW g \in Group, NEW n \in Int, n >= 0 \/ n = Automatic, AddGroup(g, n)
  PROVE  /\ gid' \in [Group -> Id] /\ gshadow' \in [Group -> SUBSET User]
         /\ gid'[g] /= None /\ \A h \in Group : gid[h] /= None => gid'[h] /= None
         /\ UNCHANGED <<uid, ugid, members, chown>>
<1> DEFINE m == IF n = Automatic THEN Generate(gid, g) ELSE n
<1>1. m \in Id /\ m /= None
  <2>1. m /= None
    BY DEF AddGroup
  <2>2. CASE n = Automatic
    BY <2>1, <2>2, Generated DEF TypeOK
  <2>3. CASE n >= 0
    BY <2>1, <2>3 DEF Id, Automatic
  <2> QED
    BY <2>1, <2>2, <2>3
<1>2. gid' = [gid EXCEPT ![g] = m]
  BY DEF AddGroup
<1>3. gid' \in [Group -> Id]
  BY <1>1, <1>2 DEF TypeOK
<1>4. gid'[g] /= None /\ \A h \in Group : gid[h] /= None => gid'[h] /= None
  BY <1>1, <1>2 DEF TypeOK
<1>5. gshadow' \in [Group -> SUBSET User]
  BY DEF AddGroup, TypeOK
<1> QED
  BY <1>3, <1>4, <1>5 DEF AddGroup

LEMMA PassOf ==
    /\ In("fixed groups") => pass = 1
    /\ In("auto groups") => pass = 2
    /\ In("additional groups") => pass = 3
    /\ In("fixed users") \/ In("auto users") => pass \in {4, 5}
    /\ In("done") => pass = 6
<1>1. DOMAIN Passes = 1..6
  BY DEF Passes
<1>2. /\ Passes[1] = "fixed groups" /\ Passes[2] = "auto groups"
      /\ Passes[3] = "additional groups" /\ Passes[4] = "fixed users"
      /\ Passes[5] = "auto users" /\ Passes[6] = "done"
  BY DEF Passes
<1>3. \A p \in 1..6 : p = 1 \/ p = 2 \/ p = 3 \/ p = 4 \/ p = 5 \/ p = 6
  OBVIOUS
<1> QED
  BY <1>1, <1>2, <1>3 DEF In

\* The steps of the passes over the groups.
LEMMA GroupPasses ==
  ASSUME TypeOK, FixedGroup \/ AutoGroup \/ AdditionalGroup
  PROVE  /\ gid' \in [Group -> Id] /\ gshadow' \in [Group -> SUBSET User]
         /\ \A h \in Group : gid[h] /= None => gid'[h] /= None
         /\ UNCHANGED <<table, skeleton, pass, uid, ugid, members, chown>>
         /\ i \in 1..Len(table) /\ pass \in 1..3
         /\ (pass = 1 /\ table[i].gid >= 0) \/ (pass = 2 /\ table[i].gid = Automatic)
               => gid'[table[i].group] /= None
         /\ (pass < 3 /\ i' = i + 1 /\ j' = 1) \/ (pass = 3 /\ i' = i /\ j' = j + 1)
<1>0. Automatic \in Int /\ ~(Automatic >= 0)
  BY DEF Automatic
<1>1. CASE FixedGroup
  <2>1. i \in 1..Len(table) /\ table[i].group \in Group /\ table[i].gid \in Int
    BY <1>1, TableEntry DEF FixedGroup
  <2>2. pass = 1 /\ Continue
    BY <1>1, PassOf DEF FixedGroup
  <2>3. CASE table[i].gid >= 0
    <3>1. AddGroup(table[i].group, table[i].gid)
      BY <1>1, <2>3 DEF FixedGroup
    <3>2. /\ gid' \in [Group -> Id] /\ gshadow' \in [Group -> SUBSET User]
          /\ gid'[table[i].group] /= None /\ \A h \in Group : gid[h] /= None => gid'[h] /= None
          /\ UNCHANGED <<uid, ugid, members, chown>>
      BY <2>1, <2>3, <3>1, GroupAdded
    <3> QED
      BY <1>0, <2>1, <2>2, <2>3, <3>2 DEF Continue
  <2>4. CASE ~(table[i].gid >= 0)
    <3>1. Unused
      BY <1>1, <2>4 DEF FixedGroup
    <3>2. gid \in [Group -> Id] /\ gshadow \in [Group -> SUBSET User]
      BY DEF TypeOK
    <3> QED
      BY <1>0, <2>1, <2>2, <2>4, <3>1, <3>2 DEF Unused, Continue
  <2> QED
    BY <2>3, <2>4
<1>2. CASE AutoGroup
  <2>1. i \in 1..Len(table) /\ table[i].group \in Group /\ table[i].gid \in Int
    BY <1>2, TableEntry DEF AutoGroup
  <2>2. pass = 2 /\ Continue
    BY <1>2, PassOf DEF AutoGroup
  <2>3. CASE table[i].gid = Automatic
    <3>1. AddGroup(table[i].group, Automatic)
      BY <1>2, <2>3 DEF AutoGroup
    <3>2. /\ gid' \in [Group -> Id] /\ gshadow' \in [Group -> SUBSET User]
          /\ gid'[table[i].group] /= None /\ \A h \in Group : gid[h] /= None => gid'[h] /= None
          /\ UNCHANGED <<uid, ugid, members, chown>>
      BY <1>0, <2>1, <3>1, GroupAdded
    <3> QED
      BY <1>0, <2>1, <2>2, <2>3, <3>2 DEF Continue
  <2>4. CASE table[i].gid /= Automatic
    <3>1. Unused
      BY <1>2, <2>4 DEF AutoGroup
    <3>2. gid \in [Group -> Id] /\ gshadow \in [Group -> SUBSET User]
      BY DEF TypeOK
    <3> QED
      BY <1>0, <2>1, <2>2, <2>4, <3>1, <3>2 DEF Unused, Continue
  <2> QED
    BY <2>3, <2>4
<1>3. CASE AdditionalGroup
  <2>1. i \in 1..Len(table) /\ table[i].groups \in Seq(Group)
    BY <1>3, TableEntry DEF AdditionalGroup
  <2>2. pass = 3
    BY <1>3, PassOf DEF AdditionalGroup
  <2>3. j \in 1..Len(table[i].groups)
    <3>1. j \in Nat \ {0}
      BY DEF TypeOK
    <3>2. j <= Len(table[i].groups)
      BY <1>3 DEF AdditionalGroup
    <3> QED
      BY <2>1, <3>1, <3>2
  <2>4. table[i].groups[j] \in Group /\ AddGroup(table[i].groups[j], Automatic)
    <3>1. table[i].groups[j] \in Group
      BY <2>1, <2>3
    <3> QED
      BY <1>3, <3>1 DEF AdditionalGroup
  <2>5. /\ gid' \in [Group -> Id] /\ gshadow' \in [Group -> SUBSET User]
        /\ gid'[table[i].groups[j]] /= None /\ \A h \in Group : gid[h] /= None => gid'[h] /= None
        /\ UNCHANGED <<uid, ugid, members, chown>>
    BY <1>0, <2>4, GroupAdded
  <2> QED
    <3>1. j' = j + 1 /\ UNCHANGED <<table, skeleton, pass, i>>
      BY <1>3 DEF AdditionalGroup
    <3> QED
      BY <2>1, <2>2, <2>5, <3>1
<1> QED
  BY <1>1, <1>2, <1>3

\* The user of an entry that add_one_user takes gets a uid nobody else has.
LEMMA UserAdded ==
  ASSUME TypeOK, UidsUnique, GroupsMade, OneUser, AddUser(table[i])
  PROVE  /\ table[i] \in Entry /\ table[i].user \in User /\ table[i].group \in Group
         /\ NewUid(table[i]) \in Id \ {None} /\ gid[table[i].group] \in Id \ {None}
         /\ Named(uid, NewUid(table[i])) \subseteq {table[i].user}
         /\ uid[table[i].user] \in {None, NewUid(table[i])}
         /\ pass \in {4, 5}
<1> DEFINE e == table[i]
<1>1. /\ i \in 1..Len(table) /\ e \in Entry /\ e.group \in Group /\ e.uid \in Int /\ e.gid \in Int
      /\ e.user \in User /\ (e.uid >= 0 \/ e.uid = Automatic)
  BY TableEntry DEF OneUser, Due
<1>2. pass \in {4, 5}
  BY PassOf DEF OneUser
<1>3. e.gid >= 0 \/ e.gid = Automatic
  BY <1>1 DEF AddUser, Rejected, Automatic
<1>4. gid[e.group] \in Id \ {None}
  BY <1>1, <1>2, <1>3 DEF GroupsMade, TypeOK
<1>5. CASE e.uid = Automatic
  <2>1. NewUid(e) = Generate(uid, e.user) /\ NewUid(e) /= None
    BY <1>5 DEF NewUid, AddUser
  <2>2. /\ NewUid(e) \in Id
        /\ uid[e.user] /= None => NewUid(e) = uid[e.user]
        /\ uid[e.user] = None => Named(uid, NewUid(e)) = {}
    BY <1>1, <2>1, Generated DEF TypeOK
  <2>3. Named(uid, NewUid(e)) \subseteq {e.user}
    BY <1>1, <2>1, <2>2 DEF Named, UidsUnique, Injective, TypeOK
  <2> QED
    BY <1>1, <1>2, <1>4, <2>1, <2>2, <2>3
<1>6. CASE e.uid >= 0
  <2>0. e.uid /= Automatic
    BY <1>6 DEF Automatic
  <2>1. NewUid(e) = e.uid /\ NewUid(e) /= None
    BY <2>0 DEF NewUid, AddUser
  <2>2. NewUid(e) \in Id
    BY <1>1, <1>6, <2>1 DEF Id
  <2>3. Named(uid, e.uid) \in {{}, {e.user}} /\ uid[e.user] \in {None, e.uid}
    BY <2>0 DEF AddUser, Rejected
  <2> QED
    BY <1>1, <1>2, <1>4, <2>1, <2>2, <2>3
<1> QED
  BY <1>1, <1>5, <1>6

LEMMA UidStep == IInv /\ [Next]_vars => UidsUnique'
<1> SUFFICES ASSUME IInv, [Next]_vars PROVE Injective(uid')
  BY DEF UidsUnique, Injective
<1>1. CASE uid' = uid
  BY <1>1 DEF IInv, UidsUnique
<1>2. CASE OneUser /\ AddUser(table[i])
  <2> DEFINE e == table[i]
  <2>1. uid' = [uid EXCEPT ![e.user] = NewUid(e)]
    BY <1>2 DEF AddUser
  <2>2. e.user \in User /\ Named(uid, NewUid(e)) \subseteq {e.user}
    BY <1>2, UserAdded DEF IInv
  <2> HIDE DEF e
  <2>3. \A u \in User : u /= e.user => uid[u] /= NewUid(e)
    BY <2>2 DEF Named, IInv, TypeOK
  <2> QED
    BY <2>1, <2>2, <2>3 DEF Injective, IInv, UidsUnique, TypeOK
<1>3. CASE OneUser /\ FailHome(table[i])
  BY <1>3 DEF FailHome, IInv, TypeOK, UidsUnique, Injective
<1>4. CASE OneUser /\ FailUser(table[i])
  BY <1>1, <1>4 DEF FailUser, Unused
<1>5. CASE FixedGroup \/ AutoGroup \/ AdditionalGroup
  BY <1>1, <1>5, GroupPasses DEF IInv
<1>6. CASE AutoGroupFails \/ AdditionalGroupFails \/ NoMoreAdditional \/ SkipUser \/ NextPass
           \/ UNCHANGED vars
  BY <1>1, <1>6 DEF AutoGroupFails, AdditionalGroupFails, FailGroup, NoMoreAdditional, SkipUser,
     NextPass, Unused, vars
<1> QED
  BY <1>2, <1>3, <1>4, <1>5, <1>6 DEF Next, OneUser

\* The steps that touch nothing in /etc.
Idle == AutoGroupFails \/ AdditionalGroupFails \/ NoMoreAdditional \/ SkipUser \/ NextPass
        \/ (OneUser /\ FailUser(table[i]))

LEMMA IdleStep ==
  ASSUME TypeOK, Idle
  PROVE  /\ Unused /\ UNCHANGED <<table, skeleton>>
         /\ \/ pass' = 0 /\ i' = i /\ j' = j
            \/ pass' = pass /\ i \in 1..Len(table) /\ pass \in 3..5 /\ i' = i + 1 /\ j' = 1
            \/ pass \in 1..5 /\ pass' = pass + 1 /\ i > Len(table) /\ i' = 1 /\ j' = 1
<1>1. CASE AutoGroupFails \/ AdditionalGroupFails \/ (OneUser /\ FailUser(table[i]))
  BY <1>1 DEF AutoGroupFails, AdditionalGroupFails, FailGroup, FailUser, Fail, Failed, Unused
<1>2. CASE NoMoreAdditional \/ SkipUser
  <2>1. i \in 1..Len(table)
    BY <1>2, TableEntry DEF NoMoreAdditional, SkipUser
  <2>2. pass = 3 \/ pass \in {4, 5}
    BY <1>2, PassOf DEF NoMoreAdditional, SkipUser
  <2>3. Unused /\ Continue
    BY <1>2 DEF NoMoreAdditional, SkipUser
  <2>4. pass \in 3..5
    BY <2>2
  <2> QED
    BY <2>1, <2>3, <2>4 DEF Continue
<1>3. CASE NextPass
  BY <1>3 DEF NextPass
<1> QED
  BY <1>1, <1>2, <1>3 DEF Idle

LEMMA Steps == [Next]_vars <=>
    \/ FixedGroup \/ AutoGroup \/ AdditionalGroup
    \/ OneUser /\ AddUser(table[i])
    \/ OneUser /\ FailHome(table[i])
    \/ Idle
    \/ UNCHANGED vars
BY DEF Next, Idle, OneUser

LEMMA TypeStep == IInv /\ [Next]_vars => TypeOK'
<1> SUFFICES ASSUME TypeOK, UidsUnique, GroupsMade, [Next]_vars PROVE TypeOK'
  BY DEF IInv
<1>1. CASE FixedGroup \/ AutoGroup \/ AdditionalGroup
  <2>1. /\ gid' \in [Group -> Id] /\ gshadow' \in [Group -> SUBSET User]
        /\ UNCHANGED <<table, skeleton, pass, uid, ugid, members, chown>>
        /\ i \in 1..Len(table)
        /\ (i' = i + 1 /\ j' = 1) \/ (i' = i /\ j' = j + 1)
    BY <1>1, GroupPasses
  <2>2. i' \in 1..Len(table) + 1 /\ j' \in Nat \ {0}
    BY <2>1 DEF TypeOK
  <2> QED
    BY <2>1, <2>2 DEF TypeOK
<1>2. CASE OneUser /\ AddUser(table[i])
  <2> DEFINE e == table[i]
  <2>1. e.user \in User /\ NewUid(e) \in Id /\ gid[e.group] \in Id
    BY <1>2, UserAdded
  <2>2. i \in 1..Len(table) /\ i' = i + 1 /\ j' = 1 /\ UNCHANGED <<table, skeleton, pass>>
    BY <1>2, TableEntry DEF OneUser, AddUser, Continue
  <2>3. uid' \in [User -> Id] /\ ugid' \in [User -> Id] /\ gid' = gid
    BY <1>2, <2>1 DEF AddUser, TypeOK
  <2>4. members' \in [Group -> SUBSET User] /\ gshadow' \in [Group -> SUBSET User]
    BY <1>2, <2>1 DEF AddUser, TypeOK, Join
  <2>5. chown' \in SUBSET [user : User, uid : Id, gid : Id]
    <3>1. [user |-> e.user, uid |-> NewUid(e), gid |-> gid[e.group]] \in [user : User, uid : Id, gid : Id]
      BY <2>1
    <3>2. chown \in SUBSET [user : User, uid : Id, gid : Id]
      BY DEF TypeOK
    <3>3. \/ chown' = chown
          \/ chown' = chown \cup {[user |-> e.user, uid |-> NewUid(e), gid |-> gid[e.group]]}
      BY <1>2 DEF AddUser
    <3> QED
      BY <3>1, <3>2, <3>3
  <2>6. i' \in 1..Len(table) + 1 /\ j' \in Nat \ {0}
    BY <2>2
  <2> QED
    BY <2>2, <2>3, <2>4, <2>5, <2>6 DEF TypeOK
<1>3. CASE OneUser /\ FailHome(table[i])
  <2>1. uid' \in [User -> Id] /\ ugid' \in [User -> Id]
    BY <1>3 DEF FailHome, TypeOK, Id
  <2>2. pass' = 0 /\ UNCHANGED <<table, skeleton, i, j, gid, members, gshadow, chown>>
    BY <1>3 DEF FailHome, Fail, Failed
  <2> QED
    BY <2>1, <2>2 DEF TypeOK
<1>4. CASE Idle
  <2>1. /\ Unused /\ UNCHANGED <<table, skeleton>>
        /\ \/ pass' = 0 /\ i' = i /\ j' = j
           \/ pass' = pass /\ i \in 1..Len(table) /\ i' = i + 1 /\ j' = 1
           \/ pass \in 1..5 /\ pass' = pass + 1 /\ i' = 1 /\ j' = 1
    BY <1>4, IdleStep
  <2>2. pass' \in 0..6 /\ i' \in 1..Len(table) + 1 /\ j' \in Nat \ {0}
    <3>1. pass \in 0..6 /\ i \in 1..Len(table) + 1 /\ j \in Nat \ {0} /\ Len(table) \in Nat
      BY DEF TypeOK
    <3> QED
      BY <2>1, <3>1
  <2> QED
    BY <2>1, <2>2 DEF TypeOK, Unused
<1>5. CASE UNCHANGED vars
  BY <1>5 DEF vars, TypeOK
<1> QED
  BY <1>1, <1>2, <1>3, <1>4, <1>5, Steps

LEMMA GroupsStep == IInv /\ [Next]_vars => GroupsMade'
<1> SUFFICES ASSUME TypeOK, UidsUnique, GroupsMade, [Next]_vars PROVE GroupsMade'
  BY DEF IInv
<1>0. /\ \A k \in 1..Len(table) : table[k].group \in Group
      /\ pass \in 0..6 /\ i \in 1..Len(table) + 1 /\ Len(table) \in Nat
  <2>1. \A k \in 1..Len(table) : table[k] \in Entry
    BY DEF TypeOK
  <2>2. \A k \in 1..Len(table) : table[k].group \in Group
    BY <2>1 DEF Entry
  <2> QED
    BY <2>2 DEF TypeOK
<1>1. CASE FixedGroup \/ AutoGroup \/ AdditionalGroup
  <2>1. /\ \A h \in Group : gid[h] /= None => gid'[h] /= None
        /\ table' = table /\ pass' = pass /\ pass \in 1..3
        /\ (pass = 1 /\ table[i].gid >= 0) \/ (pass = 2 /\ table[i].gid = Automatic)
              => gid'[table[i].group] /= None
        /\ (pass < 3 /\ i' = i + 1 /\ j' = 1) \/ (pass = 3 /\ i' = i /\ j' = j + 1)
    BY <1>1, GroupPasses
  <2>2. ASSUME NEW k \in 1..Len(table)
        PROVE  /\ table'[k].gid >= 0 /\ (pass' > 1 \/ (pass' = 1 /\ k < i')) => gid'[table'[k].group] /= None
               /\ table'[k].gid = Automatic /\ (pass' > 2 \/ (pass' = 2 /\ k < i')) => gid'[table'[k].group] /= None
    <3>1. pass = 1 \/ pass = 2 => (k < i' => k < i \/ k = i)
      BY <1>0, <2>1
    <3> QED
      BY <1>0, <2>1, <3>1 DEF GroupsMade
  <2> QED
    BY <2>1, <2>2 DEF GroupsMade
<1>2. CASE OneUser /\ (AddUser(table[i]) \/ FailHome(table[i]))
  <2>1. UNCHANGED <<table, gid>> /\ (pass' = pass \/ pass' = 0)
    BY <1>2 DEF AddUser, FailHome, Continue, Fail, Failed
  <2>2. pass \in {4, 5}
    BY <1>2, PassOf DEF OneUser
  <2> QED
    BY <2>1, <2>2 DEF GroupsMade
<1>3. CASE Idle
  <2>1. /\ gid' = gid /\ table' = table
        /\ \/ pass' = 0
           \/ pass' = pass /\ pass \in 3..5
           \/ pass \in 1..5 /\ pass' = pass + 1 /\ i > Len(table) /\ i' = 1
    BY <1>3, IdleStep DEF Unused
  <2> QED
    BY <1>0, <2>1 DEF GroupsMade
<1>4. CASE UNCHANGED vars
  BY <1>4 DEF vars, GroupsMade
<1> QED
  BY <1>1, <1>2, <1>3, <1>4, Steps

LEMMA ChownStep == IInv /\ [Next]_vars => ChownInv'
<1> SUFFICES ASSUME TypeOK, UidsUnique, GroupsMade, ChownInv, [Next]_vars PROVE ChownInv'
  BY DEF IInv
<1>1. CASE FixedGroup \/ AutoGroup \/ AdditionalGroup
  <2>1. chown' = chown /\ pass' = pass /\ pass \in 1..3
    BY <1>1, GroupPasses
  <2> QED
    BY <2>1 DEF ChownInv
<1>2. CASE OneUser /\ AddUser(table[i])
  <2> DEFINE e == table[i]
  <2>1. /\ e.user \in User /\ NewUid(e) \in Id \ {None} /\ gid[e.group] \in Id \ {None}
        /\ e.group \in Group
        /\ uid[e.user] \in {None, NewUid(e)} /\ pass \in {4, 5}
    BY <1>2, UserAdded
  <2>2. /\ uid' = [uid EXCEPT ![e.user] = NewUid(e)]
        /\ ugid' = [ugid EXCEPT ![e.user] = gid[e.group]]
        /\ gid' = gid /\ pass' = pass
        /\ \A c \in chown' : c \in chown \/ c = [user |-> e.user, uid |-> NewUid(e), gid |-> gid[e.group]]
        /\ ugid[e.user] /= None => Named(gid, ugid[e.user]) \in {{}, {e.group}}
    BY <1>2 DEF AddUser, Continue, Rejected
  <2> HIDE DEF e
  <2>3. Named(gid, gid[e.group]) /= {}
    BY <2>1 DEF Named, TypeOK
  <2>4. ASSUME NEW c \in chown'
        PROVE  /\ uid'[c.user] = c.uid /\ c.uid /= None
               /\ ugid'[c.user] = c.gid /\ c.gid /= None
               /\ Named(gid, c.gid) /= {}
    <3>1. CASE c = [user |-> e.user, uid |-> NewUid(e), gid |-> gid[e.group]]
      BY <2>1, <2>2, <2>3, <3>1 DEF TypeOK
    <3>2. CASE c \in chown
      <4>1. /\ uid[c.user] = c.uid /\ c.uid /= None
            /\ ugid[c.user] = c.gid /\ c.gid /= None
            /\ Named(gid, c.gid) /= {} /\ c.user \in User
        BY <2>1, <3>2 DEF ChownInv, TypeOK
      <4>2. CASE c.user = e.user
        <5>1. NewUid(e) = c.uid
          BY <2>1, <4>1, <4>2
        <5>2. Named(gid, c.gid) = {e.group}
          BY <2>2, <4>1, <4>2
        <5>3. gid[e.group] = c.gid
          BY <5>2 DEF Named
        <5> QED
          BY <2>1, <2>2, <4>1, <4>2, <5>1, <5>3 DEF TypeOK
      <4>3. CASE c.user /= e.user
        BY <2>1, <2>2, <4>1, <4>3 DEF TypeOK
      <4> QED
        BY <4>2, <4>3
    <3> QED
      BY <2>2, <3>1, <3>2
  <2> QED
    BY <2>1, <2>2, <2>4 DEF ChownInv, Named
<1>3. CASE OneUser /\ FailHome(table[i])
  BY <1>3 DEF FailHome, Fail, Failed, ChownInv
<1>4. CASE Idle
  <2>1. /\ Unused
        /\ \/ pass' = 0
           \/ pass' = pass
           \/ pass \in 1..5 /\ pass' = pass + 1
    BY <1>4, IdleStep
  <2>2. Named(gid, 0)' = Named(gid, 0) /\ uid' = uid /\ ugid' = ugid /\ gid' = gid /\ chown' = chown
    BY <2>1 DEF Unused, Named
  <2>3. CASE pass' = 0
    BY <2>3 DEF ChownInv
  <2>4. CASE pass \in 1..3
    <3>1. chown = {}
      BY <2>4 DEF ChownInv
    <3> QED
      BY <2>2, <3>1 DEF ChownInv
  <2>5. CASE pass > 3 /\ pass' > 3
    BY <2>2, <2>5 DEF ChownInv, Named
  <2>6. pass \in 0..6
    BY DEF TypeOK
  <2>7. CASE pass = 0 /\ pass' = 0
    BY <2>7 DEF ChownInv
  <2> QED
    BY <2>1, <2>3, <2>4, <2>5, <2>6, <2>7
<1>5. CASE UNCHANGED vars
  BY <1>5 DEF vars, ChownInv, Named
<1> QED
  BY <1>1, <1>2, <1>3, <1>4, <1>5, Steps

LEMMA Invariance == Spec => []IInv
<1>1. IInv /\ [Next]_vars => IInv'
  BY TypeStep, UidStep, GroupsStep, ChownStep DEF IInv
<1> QED
  BY InitInv, <1>1, PTL DEF Spec

\* The ids and members that mkusers computes stay well typed.
THEOREM TypeCorrect == Spec => []TypeOK
<1>1. IInv => TypeOK
  BY DEF IInv
<1> QED
  BY <1>1, Invariance, PTL

\* Whatever the table, mkusers never gives two users the same uid.
THEOREM UniqueUids == Spec => []UidsUnique
<1>1. IInv => UidsUnique
  BY DEF IInv
<1> QED
  BY <1>1, Invariance, PTL

\* When mkusers succeeds, the ids it prints for the homes are those in passwd.
THEOREM HomesMatch == Spec => []ChownMatches
<1>1. IInv => ChownMatches
  <2> SUFFICES ASSUME IInv, In("done") PROVE \A c \in chown : uid[c.user] = c.uid /\ ugid[c.user] = c.gid
    BY DEF ChownMatches
  <2>1. pass = 6
    BY PassOf
  <2> QED
    BY <2>1 DEF IInv, ChownInv
<1> QED
  BY <1>1, Invariance, PTL

-----------------------------------------------------------------------------
(* What a table can rely on *)

\* add_one_user has been there for the k-th entry.
Served(k) ==
    /\ table[k].user /= NoUser
    /\ \/ table[k].uid >= 0 /\ (pass > 4 \/ (pass = 4 /\ k < i))
       \/ table[k].uid = Automatic /\ (pass > 5 \/ (pass = 5 /\ k < i))

\* What the entry it has taken has then, and keeps until the end.
HasIds(e) ==
    /\ uid[e.user] /= None /\ (e.uid /= Automatic => uid[e.user] = e.uid)
    /\ gid[e.group] /= None /\ ugid[e.user] = gid[e.group]
    /\ e.gid /= Automatic => ugid[e.user] = e.gid

InGroups(e) == \A n \in DOMAIN e.groups : e.user \in members[e.groups[n]]

\* Until mkusers fails, a user of the skeleton has its uid; no other has 0.
UidsKept == pass /= 0 => \A u \in User :
    IF skeleton.uid[u] = None THEN uid[u] /= 0 ELSE uid[u] = skeleton.uid[u]

MembersGrow == \A g \in Group : skeleton.members[g] \subseteq members[g]

ServedInv == /\ UidsKept /\ MembersGrow
             /\ \A k \in 1..Len(table) : Served(k) => HasIds(table[k]) /\ InGroups(table[k])

LEMMA EntryOf ==
  ASSUME TypeOK, NEW k \in 1..Len(table)
  PROVE  /\ table[k] \in Entry /\ table[k].group \in Group
         /\ table[k].uid \in Int /\ table[k].gid \in Int
         /\ table[k].user /= NoUser => table[k].user \in User
         /\ \A n \in DOMAIN table[k].groups : table[k].groups[n] \in Group
<1>1. table[k] \in Entry
  BY DEF TypeOK
<1> QED
  BY <1>1 DEF Entry

LEMMA UserPasses ==
  /\ pass = 4 => In("fixed users") /\ ~In("auto users")
  /\ pass = 5 => In("auto users") /\ ~In("fixed users")
<1>1. DOMAIN Passes = 1..6 /\ 4 \in 1..6 /\ 5 \in 1..6
  BY DEF Passes
<1>2. Passes[4] = "fixed users" /\ Passes[5] = "auto users" /\ "fixed users" /= "auto users"
  BY DEF Passes
<1> QED
  BY <1>1, <1>2, Zenon DEF In

\* Only the step that takes an entry makes it one that has been taken.
LEMMA ServedStep ==
  ASSUME TypeOK, [Next]_vars, NEW k \in 1..Len(table), Served(k)'
  PROVE  /\ table' = table /\ skeleton' = skeleton /\ gid' = gid
         /\ Served(k) \/ (OneUser /\ AddUser(table[i]) /\ k = i)
<1>0. /\ pass \in 0..6 /\ i \in 1..Len(table) + 1 /\ Len(table) \in Nat /\ k \in 1..Len(table)
      /\ table[k].uid \in Int /\ ~(Automatic >= 0)
  BY EntryOf DEF TypeOK, Automatic
<1>1. CASE FixedGroup \/ AutoGroup \/ AdditionalGroup
  <2>1. pass' = pass /\ pass \in 1..3
    BY <1>1, GroupPasses
  <2> QED
    BY <2>1 DEF Served
<1>2. CASE OneUser /\ AddUser(table[i])
  <2>1. UNCHANGED <<table, skeleton, pass, gid>> /\ i' = i + 1
    BY <1>2 DEF AddUser, Continue
  <2> QED
    BY <1>0, <1>2, <2>1 DEF Served
<1>3. CASE OneUser /\ FailHome(table[i])
  BY <1>3 DEF FailHome, Fail, Failed, Served
<1>4. CASE SkipUser
  <2>1. UNCHANGED <<table, skeleton, pass, gid>> /\ i' = i + 1
    BY <1>4 DEF SkipUser, Continue, Unused
  <2>2. pass \in {4, 5} /\ ~Due(table[i])
    BY <1>4, PassOf DEF SkipUser
  <2>3. CASE k = i
    <3>1. CASE pass = 4
      BY <1>0, <2>1, <2>2, <2>3, <3>1, UserPasses DEF Served, Due
    <3>2. CASE pass = 5
      BY <1>0, <2>1, <2>2, <2>3, <3>2, UserPasses DEF Served, Due
    <3> QED
      BY <2>1, <2>2, <3>1, <3>2
  <2>4. CASE k /= i
    <3>1. k < i' <=> k < i
      BY <1>0, <2>1, <2>4
    <3>2. Served(k)
      BY <2>1, <3>1 DEF Served
    <3> QED
      BY <2>1, <3>2
  <2> QED
    BY <2>3, <2>4
<1>5. CASE Idle /\ ~SkipUser
  <2>1. /\ UNCHANGED <<table, skeleton, gid>>
        /\ \/ pass' = 0
           \/ pass' = pass /\ pass = 3
           \/ pass \in 1..5 /\ pass' = pass + 1 /\ i > Len(table) /\ i' = 1
    <3>1. CASE NoMoreAdditional
      BY <3>1, PassOf DEF NoMoreAdditional, Continue, Unused
    <3>2. CASE NextPass
      BY <3>2 DEF NextPass, Unused
    <3>3. CASE AutoGroupFails \/ AdditionalGroupFails \/ (OneUser /\ FailUser(table[i]))
      BY <3>3 DEF AutoGroupFails, AdditionalGroupFails, FailGroup, FailUser, Fail, Failed, Unused
    <3> QED
      BY <1>5, <3>1, <3>2, <3>3 DEF Idle
  <2> QED
    BY <1>0, <2>1 DEF Served
<1>6. CASE UNCHANGED vars
  BY <1>6 DEF vars, Served
<1> QED
  BY <1>1, <1>2, <1>3, <1>4, <1>5, <1>6, Steps DEF Idle

\* The entry that is taken gets what it asks for.
LEMMA Takes ==
  ASSUME IInv, OneUser, AddUser(table[i]), NEW k \in 1..Len(table), k = i
  PROVE  HasIds(table[k])' /\ InGroups(table[k])'
<1> DEFINE e == table[k]
<1>1. /\ e.user \in User /\ e.group \in Group /\ e.gid \in Int
      /\ NewUid(e) \in Id \ {None} /\ gid[e.group] \in Id \ {None} /\ table' = table /\ gid' = gid
      /\ \A n \in DOMAIN e.groups : e.groups[n] \in Group
  BY UserAdded, EntryOf DEF IInv, AddUser, Continue
<1>2. uid'[e.user] = NewUid(e) /\ ugid'[e.user] = gid[e.group]
  BY <1>1 DEF AddUser, IInv, TypeOK
<1>3. e.uid /= Automatic => NewUid(e) = e.uid
  BY DEF NewUid
<1>4. e.gid /= Automatic => gid[e.group] = e.gid
  BY <1>1 DEF AddUser, Rejected
<1>5. \A n \in DOMAIN e.groups : e.user \in members'[e.groups[n]]
  BY <1>1 DEF AddUser, Join, IInv, TypeOK
<1> QED
  BY <1>1, <1>2, <1>3, <1>4, <1>5 DEF HasIds, InGroups

\* A later entry for the same user finds the ids it asks for, or is rejected.
LEMMA Keeps ==
  ASSUME IInv, OneUser, AddUser(table[i]), NEW k \in 1..Len(table),
         table[k].user /= NoUser, HasIds(table[k]), InGroups(table[k])
  PROVE  HasIds(table[k])' /\ InGroups(table[k])'
<1> DEFINE e == table[k]
           f == table[i]
<1>1. /\ e.user \in User /\ e.group \in Group /\ f.user \in User /\ f.group \in Group
      /\ uid[f.user] \in {None, NewUid(f)} /\ table' = table /\ gid' = gid
      /\ \A n \in DOMAIN e.groups : e.groups[n] \in Group
  BY UserAdded, EntryOf DEF IInv, AddUser, Continue
<1>2. /\ uid' = [uid EXCEPT ![f.user] = NewUid(f)]
      /\ ugid' = [ugid EXCEPT ![f.user] = gid[f.group]]
  BY DEF AddUser
<1>3. uid'[e.user] = uid[e.user]
  BY <1>1, <1>2 DEF HasIds, IInv, TypeOK
<1>4. ugid'[e.user] = ugid[e.user]
  <2>1. CASE e.user = f.user
    <3>1. ugid[f.user] = gid[e.group] /\ ugid[f.user] /= None
      BY <2>1 DEF HasIds
    <3>2. Named(gid, ugid[f.user]) \in {{}, {f.group}}
      BY <3>1 DEF AddUser, Rejected
    <3>3. e.group \in Named(gid, ugid[f.user])
      BY <1>1, <3>1 DEF Named, IInv, TypeOK
    <3>4. e.group = f.group
      BY <3>2, <3>3
    <3> QED
      BY <1>1, <1>2, <2>1, <3>1, <3>4 DEF IInv, TypeOK
  <2>2. CASE e.user /= f.user
    BY <1>1, <1>2, <2>2 DEF IInv, TypeOK
  <2> QED
    BY <2>1, <2>2
<1>5. \A n \in DOMAIN e.groups : e.user \in members'[e.groups[n]]
  BY <1>1 DEF AddUser, Join, IInv, TypeOK, InGroups
<1> QED
  BY <1>1, <1>3, <1>4, <1>5 DEF HasIds, InGroups

LEMMA UidsKeptStep == IInv /\ UidsKept /\ [Next]_vars => UidsKept'
<1> SUFFICES ASSUME IInv, UidsKept, [Next]_vars, pass' /= 0, NEW u \in User
             PROVE  IF skeleton'.uid[u] = None THEN uid'[u] /= 0 ELSE uid'[u] = skeleton'.uid[u]
  BY DEF UidsKept
<1>1. CASE uid' = uid /\ skeleton' = skeleton /\ pass /= 0
  BY <1>1 DEF UidsKept
<1>2. CASE OneUser /\ AddUser(table[i])
  <2> DEFINE e == table[i]
  <2>1. /\ e.user \in User /\ NewUid(e) \in Id \ {None} /\ uid[e.user] \in {None, NewUid(e)}
        /\ pass \in {4, 5}
    BY <1>2, UserAdded DEF IInv
  <2>2. uid' = [uid EXCEPT ![e.user] = NewUid(e)] /\ skeleton' = skeleton
    BY <1>2 DEF AddUser, Continue
  <2>3. uid[e.user] = None => NewUid(e) /= 0
    <3>1. CASE e.uid = Automatic /\ uid[e.user] = None
      <4>1. NewUid(e) = Generate(uid, e.user)
        BY <3>1 DEF NewUid
      <4> QED
        <5>1. NewUid(e) \in MinId..MaxId
          BY <2>1, <3>1, <4>1, GeneratedInRange DEF IInv, TypeOK
        <5> QED
          BY <5>1, UsersAssumption
    <3>2. CASE e.uid /= Automatic
      BY <1>2, <3>2 DEF AddUser, Rejected, NewUid
    <3> QED
      BY <3>1, <3>2
  <2>4. CASE u = e.user
    BY <2>1, <2>2, <2>3, <2>4 DEF UidsKept, IInv, TypeOK
  <2>5. CASE u /= e.user
    BY <2>1, <2>2, <2>5 DEF UidsKept, IInv, TypeOK
  <2> QED
    BY <2>4, <2>5
<1>3. CASE OneUser /\ FailHome(table[i])
  BY <1>3 DEF FailHome, Fail, Failed
<1>4. CASE FixedGroup \/ AutoGroup \/ AdditionalGroup
  <2>1. UNCHANGED <<uid, skeleton, pass>>
    BY <1>4, GroupPasses DEF IInv
  <2> QED
    BY <1>1, <2>1
<1>5. CASE Idle
  <2>1. UNCHANGED <<uid, skeleton>> /\ pass /= 0
    BY <1>5, IdleStep DEF IInv, Unused
  <2> QED
    BY <1>1, <2>1
<1>6. CASE UNCHANGED vars
  BY <1>1, <1>6 DEF vars
<1> QED
  BY <1>2, <1>3, <1>4, <1>5, <1>6, Steps

LEMMA MembersStep == IInv /\ MembersGrow /\ [Next]_vars =>
    MembersGrow' /\ \A g \in Group : members[g] \subseteq members'[g]
<1> SUFFICES ASSUME IInv, [Next]_vars
             PROVE  skeleton' = skeleton /\ \A g \in Group : members[g] \subseteq members'[g]
  BY DEF MembersGrow
<1>1. CASE OneUser /\ AddUser(table[i])
  BY <1>1 DEF AddUser, Continue, Join
<1>2. CASE OneUser /\ FailHome(table[i])
  BY <1>2 DEF FailHome, Fail
<1>3. CASE FixedGroup \/ AutoGroup \/ AdditionalGroup
  BY <1>3, GroupPasses DEF IInv
<1>4. CASE Idle
  BY <1>4, IdleStep DEF IInv, Unused
<1>5. CASE UNCHANGED vars
  BY <1>5 DEF vars
<1> QED
  BY <1>1, <1>2, <1>3, <1>4, <1>5, Steps

LEMMA ServedInductive == IInv /\ ServedInv /\ [Next]_vars => ServedInv'
<1> SUFFICES ASSUME IInv, ServedInv, [Next]_vars PROVE ServedInv'
  OBVIOUS
<1>1. UidsKept' /\ MembersGrow' /\ \A g \in Group : members[g] \subseteq members'[g]
  BY UidsKeptStep, MembersStep DEF ServedInv
<1>2. table' = table
  BY GroupPasses, IdleStep, Steps DEF IInv, AddUser, FailHome, Continue, Fail, vars
<1>3. ASSUME NEW k \in 1..Len(table), Served(k)' PROVE HasIds(table[k])' /\ InGroups(table[k])'
  <2>1. gid' = gid /\ (Served(k) \/ (OneUser /\ AddUser(table[i]) /\ k = i))
    BY <1>3, ServedStep DEF IInv
  <2>2. CASE OneUser /\ AddUser(table[i]) /\ k = i
    BY <2>2, Takes
  <2>3. CASE Served(k) /\ OneUser /\ AddUser(table[i])
    BY <2>3, Keeps DEF ServedInv, Served
  <2>4. CASE Served(k) /\ uid' = uid /\ ugid' = ugid
    BY <1>1, <1>2, <2>1, <2>4, EntryOf DEF ServedInv, HasIds, InGroups, IInv
  <2>5. ASSUME OneUser, FailHome(table[i]) PROVE FALSE
    BY <1>3, <2>5 DEF FailHome, Fail, Failed, Served
  <2>6. CASE FixedGroup \/ AutoGroup \/ AdditionalGroup
    BY <2>1, <2>2, <2>4, <2>6, GroupPasses DEF IInv
  <2>7. CASE Idle \/ UNCHANGED vars
    BY <2>1, <2>2, <2>4, <2>7, IdleStep DEF IInv, Unused, vars
  <2> QED
    BY <2>1, <2>2, <2>3, <2>5, <2>6, <2>7, Steps
<1> QED
  BY <1>1, <1>2, <1>3 DEF ServedInv

LEMMA ServedInvariance == Spec => [](IInv /\ ServedInv)
<1>1. Init => ServedInv
  <2> SUFFICES ASSUME Init PROVE ServedInv
    OBVIOUS
  <2>1. pass = 1 /\ uid = skeleton.uid /\ members = skeleton.members
    BY DEF Init
  <2> QED
    BY <2>1 DEF ServedInv, UidsKept, MembersGrow, Served, None
<1> QED
  BY <1>1, Invariance, ServedInductive, PTL DEF Spec

\* Each entry of a user with a valid uid has been taken when mkusers succeeds.
LEMMA AllServed ==
  ASSUME TypeOK, In("done"), NEW e \in Users, e.uid >= -1
  PROVE  \E k \in 1..Len(table) : e = table[k] /\ Served(k) /\ e.user \in User /\ pass = 6
<1>1. PICK k \in 1..Len(table) : e = table[k] /\ table[k].user /= NoUser
  BY DEF Users, TypeOK
<1>2. pass = 6
  BY PassOf
<1>3. e.uid >= 0 \/ e.uid = Automatic
  BY <1>1, EntryOf DEF Automatic
<1> QED
  BY <1>1, <1>2, <1>3, EntryOf DEF Served

\* When mkusers succeeds, passwd gives each user the ids of all its entries,
\* however often it was defined; a user of the skeleton keeps its uid.
THEOREM EntriesAreHonoured == Spec => []EntriesHonoured
<1>1. IInv /\ ServedInv => EntriesHonoured
  <2> SUFFICES ASSUME IInv, ServedInv, In("done"), NEW e \in Users, e.uid >= -1
               PROVE  /\ e.uid /= Automatic => uid[e.user] = e.uid
                      /\ IF skeleton.uid[e.user] = None THEN uid[e.user] \in Nat \ {0}
                         ELSE uid[e.user] = skeleton.uid[e.user]
                      /\ ugid[e.user] = gid[e.group]
                      /\ e.gid /= Automatic => ugid[e.user] = e.gid
    BY DEF EntriesHonoured
  <2>1. HasIds(e) /\ e.user \in User /\ pass = 6
    BY AllServed DEF IInv, ServedInv
  <2>2. uid[e.user] \in Id
    BY <2>1 DEF IInv, TypeOK
  <2> QED
    BY <2>1, <2>2 DEF HasIds, ServedInv, UidsKept, Id
<1> QED
  BY <1>1, ServedInvariance, PTL

\* However often a group is rewritten it keeps its members, and each user gets
\* into the additional groups of all its entries.
THEOREM MembersStay == Spec => []MembersKept
<1>1. IInv /\ ServedInv => MembersKept
  BY AllServed DEF MembersKept, IInv, ServedInv, MembersGrow, InGroups
<1> QED
  BY <1>1, ServedInvariance, PTL

-----------------------------------------------------------------------------
\* Until the end, what a table that can be honoured has made of the ids.
GidsApart ==
    /\ Injective(gid)
    /\ \A e \in Entries : e.gid /= Automatic =>
          Named(gid, e.gid) \subseteq {e.group} /\ gid[e.group] \in {None, e.gid}
    /\ \A g \in Group : gid[g] \in MinId..MaxId => g \in GroupsInRange

MainGroups == \A e \in Users : ugid[e.user] /= None => ugid[e.user] = gid[e.group]

UidsApart ==
    /\ pass <= 4 => \A e \in Users : e.uid /= Automatic =>
          Named(uid, e.uid) \subseteq {e.user} /\ uid[e.user] \in {None, e.uid}
    /\ \A u \in User : uid[u] \in MinId..MaxId => u \in UsersInRange

SkeletonApart == Injective(skeleton.uid) /\ Injective(skeleton.gid)

RoomInv == SkeletonApart /\ (Consistent => pass /= 0 /\ GidsApart /\ MainGroups /\ UidsApart)

LEMMA FiniteImage ==
  ASSUME NEW D, IsFiniteSet(D), NEW f, DOMAIN f = D
  PROVE  IsFiniteSet({f[x] : x \in D})
<1> DEFINE T == {f[x] : x \in D}
           g == [x \in D |-> f[x]]
<1>1. g \in Surjection(D, T)
  BY DEF Surjection
<1> QED
  BY <1>1, FS_Surjection

\* There is an id left as long as there are no more names than ids.
LEMMA Room ==
  ASSUME NEW T, NEW id \in [T -> Id], NEW R, IsFiniteSet(R), Cardinality(R) <= MaxId - MinId + 1,
         \A y \in T : id[y] \in MinId..MaxId => y \in R, NEW x \in T, x \in R
  PROVE  Generate(id, x) /= None
<1> SUFFICES ASSUME Generate(id, x) = None PROVE FALSE
  OBVIOUS
<1>0. MinId \in Int /\ MaxId \in Int /\ None \notin MinId..MaxId
  BY UsersAssumption DEF None
<1>1. id[x] = None /\ Free(id) = {}
  <2>1. id[x] = None
    BY DEF Generate
  <2>2. Free(id) /= {} => Generate(id, x) \in MinId..MaxId
    <3>1. Free(id) \subseteq Nat
      BY UsersAssumption DEF Free
    <3>2. Free(id) /= {} => Lowest(Free(id)) \in Free(id)
      BY <3>1, LowestIn
    <3> QED
      BY <2>1, <3>2 DEF Generate, Free
  <2> QED
    BY <1>0, <2>1, <2>2
<1> DEFINE f == [n \in MinId..MaxId |-> CHOOSE y \in T : id[y] = n]
<1>2. ASSUME NEW n \in MinId..MaxId PROVE f[n] \in R \ {x} /\ id[f[n]] = n
  <2>1. \E y \in T : id[y] = n
    BY <1>1 DEF Free, Named
  <2>2. f[n] \in T /\ id[f[n]] = n
    BY <2>1
  <2> QED
    BY <1>0, <1>1, <2>2
<1>3. /\ IsFiniteSet(MinId..MaxId)
      /\ Cardinality(MinId..MaxId) = IF MinId > MaxId THEN 0 ELSE MaxId - MinId + 1
  BY <1>0, FS_Interval
<1>4. IsFiniteSet(R \ {x}) /\ Cardinality(R \ {x}) = Cardinality(R) - 1
  BY FS_RemoveElement
<1>5. Cardinality(R \ {x}) \in Nat /\ Cardinality(R) \in Nat
  BY <1>4, FS_CardinalityType
<1>6. Cardinality(R \ {x}) < Cardinality(MinId..MaxId)
  BY <1>0, <1>3, <1>4, <1>5
<1>7. f \in [MinId..MaxId -> R \ {x}]
  BY <1>2
<1> HIDE DEF f
<1>8. \E m, n \in MinId..MaxId : m # n /\ f[m] = f[n]
  BY <1>3, <1>4, <1>6, <1>7, FS_PigeonHole
<1> QED
  BY <1>2, <1>8

LEMMA InRangeFinite ==
  ASSUME TypeOK, SkeletonApart
  PROVE  IsFiniteSet(UsersInRange) /\ IsFiniteSet(GroupsInRange)
<1>0. MinId \in Int /\ MaxId \in Int /\ IsFiniteSet(MinId..MaxId) /\ None \notin MinId..MaxId
  BY UsersAssumption, FS_Interval DEF None
<1>1. /\ DOMAIN table = 1..Len(table) /\ IsFiniteSet(DOMAIN table)
      /\ \A k \in DOMAIN table : DOMAIN table[k].groups = 1..Len(table[k].groups)
                                 /\ IsFiniteSet(DOMAIN table[k].groups)
  <2>1. DOMAIN table = 1..Len(table) /\ Len(table) \in Int
    BY DEF TypeOK
  <2>2. ASSUME NEW k \in DOMAIN table
        PROVE  DOMAIN table[k].groups = 1..Len(table[k].groups) /\ Len(table[k].groups) \in Int
    <3>1. table[k].groups \in Seq(Group)
      BY <2>1, EntryOf DEF Entry
    <3> QED
      BY <3>1
  <2> QED
    BY <2>1, <2>2, FS_Interval
<1>2. ASSUME NEW T, NEW id \in [T -> Id], Injective(id)
      PROVE  IsFiniteSet({y \in T : id[y] \in MinId..MaxId})
  <2> DEFINE S == {y \in T : id[y] \in MinId..MaxId}
             f == [y \in S |-> id[y]]
  <2>1. f \in [S -> MinId..MaxId]
    OBVIOUS
  <2>2. ASSUME NEW y \in S, NEW z \in S, f[y] = f[z] PROVE y = z
    BY <1>0, <1>2, <2>2 DEF Injective
  <2>3. f \in Injection(S, MinId..MaxId)
    BY <2>1, <2>2 DEF Injection, IsInjective
  <2> HIDE DEF f, S
  <2>4. IsFiniteSet(S)
    BY <1>0, <2>3, FS_Injection
  <2> QED
    BY <2>4 DEF S
<1>3. /\ skeleton.uid \in [User -> Id] /\ skeleton.gid \in [Group -> Id]
      /\ Injective(skeleton.uid) /\ Injective(skeleton.gid)
  BY DEF TypeOK, Skeleton, SkeletonApart
<1> DEFINE D == DOMAIN table
<1>4. IsFiniteSet({e.user : e \in Users})
  <2> DEFINE U == {n \in D : table[n].user /= NoUser}
             f == [k \in U |-> table[k].user]
  <2>1. IsFiniteSet(U)
    BY <1>1, FS_Subset
  <2>2. IsFiniteSet({f[k] : k \in U})
    BY <2>1, FiniteImage
  <2>3. {e.user : e \in Users} = {f[k] : k \in U}
    BY DEF Users
  <2> QED
    BY <2>2, <2>3
<1>5. IsFiniteSet({e.group : e \in Entries})
  <2> DEFINE f == [k \in D |-> table[k].group]
  <2>1. IsFiniteSet({f[k] : k \in D})
    BY <1>1, FiniteImage
  <2>2. {e.group : e \in Entries} = {f[k] : k \in D}
    BY DEF Entries
  <2> QED
    BY <2>1, <2>2
<1>6. IsFiniteSet(UNION {{e.groups[n] : n \in DOMAIN e.groups} : e \in Entries})
  <2> DEFINE f == [k \in D |-> {table[k].groups[n] : n \in DOMAIN table[k].groups}]
  <2>1. IsFiniteSet({f[k] : k \in D})
    BY <1>1, FiniteImage
  <2>2. {{e.groups[n] : n \in DOMAIN e.groups} : e \in Entries} = {f[k] : k \in D}
    BY DEF Entries
  <2>3. ASSUME NEW k \in D PROVE IsFiniteSet(f[k])
    <3> DEFINE q == table[k].groups
    <3>1. IsFiniteSet({q[n] : n \in DOMAIN q})
      BY <1>1, FiniteImage
    <3> QED
      BY <3>1
  <2>4. \A S \in {f[k] : k \in D} : IsFiniteSet(S)
    BY <2>3
  <2> HIDE DEF f
  <2> QED
    BY <2>1, <2>2, <2>4, FS_UNION
<1>7. IsFiniteSet({u \in User : skeleton.uid[u] \in MinId..MaxId})
  BY <1>2, <1>3
<1>8. IsFiniteSet({g \in Group : skeleton.gid[g] \in MinId..MaxId})
  BY <1>2, <1>3
<1>9. IsFiniteSet(UsersInRange)
  BY <1>4, <1>7, FS_Union DEF UsersInRange
<1>10. IsFiniteSet({e.group : e \in Entries} \cup (UNION {{e.groups[n] : n \in DOMAIN e.groups} : e \in Entries}))
  BY <1>5, <1>6, FS_Union
<1> QED
  BY <1>8, <1>9, <1>10, FS_Union DEF GroupsInRange

\* A table that can be honoured has an id for each of its names.
LEMMA UserRoom ==
  ASSUME TypeOK, SkeletonApart, Consistent, UidsApart, NEW e \in Users, e.user \in User
  PROVE  Generate(uid, e.user) /= None
<1>1. IsFiniteSet(UsersInRange) /\ Cardinality(UsersInRange) <= MaxId - MinId + 1
  BY InRangeFinite DEF Consistent
<1>2. e.user \in UsersInRange
  BY DEF UsersInRange
<1>3. \A u \in User : uid[u] \in MinId..MaxId => u \in UsersInRange
  BY DEF UidsApart
<1>4. uid \in [User -> Id]
  BY DEF TypeOK
<1> QED
  BY <1>1, <1>2, <1>3, <1>4, Room

LEMMA GroupRoom ==
  ASSUME TypeOK, SkeletonApart, Consistent, GidsApart, NEW g \in Group, g \in GroupsInRange
  PROVE  Generate(gid, g) /= None
<1>1. IsFiniteSet(GroupsInRange) /\ Cardinality(GroupsInRange) <= MaxId - MinId + 1
  BY InRangeFinite DEF Consistent
<1>2. \A h \in Group : gid[h] \in MinId..MaxId => h \in GroupsInRange
  BY DEF GidsApart
<1>3. gid \in [Group -> Id]
  BY DEF TypeOK
<1> QED
  BY <1>1, <1>2, <1>3, Room

\* The names of an entry.
LEMMA EntryNames ==
  ASSUME TypeOK, NEW k \in 1..Len(table)
  PROVE  /\ table[k] \in Entries /\ table[k].group \in GroupsInRange
         /\ table[k].user /= NoUser => table[k] \in Users
         /\ \A n \in DOMAIN table[k].groups : table[k].groups[n] \in GroupsInRange
<1>1. DOMAIN table = 1..Len(table)
  BY DEF TypeOK
<1>2. table[k] \in Entries
  BY <1>1 DEF Entries
<1> QED
  BY <1>1, <1>2 DEF Users, GroupsInRange

LEMMA EntryTypes ==
  ASSUME TypeOK
  PROVE  /\ \A e \in Entries : e \in Entry /\ e.group \in Group
         /\ \A e \in Users : e \in Entries /\ e.user \in User
<1>1. DOMAIN table = 1..Len(table)
  BY DEF TypeOK
<1> QED
  BY <1>1, EntryOf DEF Users, Entries

\* With such a table a gid that is generated is not one that is asked for, and
\* no group changes its gid.
LEMMA GroupGiven ==
  ASSUME IInv, SkeletonApart, Consistent, GidsApart, NEW g \in Group, g \in GroupsInRange, NEW m \in Id \ {None},
         gid' = [gid EXCEPT ![g] = m], table' = table, skeleton' = skeleton,
         gid[g] \in {None, m}, Named(gid, m) \subseteq {g},
         \A e \in Entries : e.gid /= Automatic => (e.gid = m <=> e.group = g)
  PROVE  GidsApart' /\ \A h \in Group : gid[h] /= None => gid'[h] = gid[h]
<1>1. gid \in [Group -> Id] /\ Entries' = Entries /\ GroupsInRange' = GroupsInRange
  BY DEF IInv, TypeOK, Entries, GroupsInRange
<1>2. gid' \in [Group -> Id] /\ gid'[g] = m /\ \A h \in Group : h /= g => gid'[h] = gid[h] /\ gid[h] /= m
  BY <1>1 DEF Named
<1>3. Injective(gid')
  BY <1>1, <1>2 DEF GidsApart, Injective
<1>4. ASSUME NEW e \in Entries, e.gid /= Automatic
      PROVE  {h \in Group : gid'[h] = e.gid} \subseteq {e.group} /\ gid'[e.group] \in {None, e.gid}
  <2>1. Named(gid, e.gid) \subseteq {e.group} /\ gid[e.group] \in {None, e.gid} /\ e.group \in Group
    BY <1>4, EntryTypes DEF GidsApart, IInv
  <2>2. \A h \in Group : gid[h] = e.gid => h = e.group
    BY <1>1, <2>1 DEF Named
  <2> QED
    BY <1>2, <1>4, <2>1, <2>2
<1>5. \A h \in Group : gid'[h] \in MinId..MaxId => h \in GroupsInRange
  BY <1>2 DEF GidsApart
<1>6. \A n : Named(gid, n)' = {h \in Group : gid'[h] = n}
  BY <1>2 DEF Named
<1>7. \A h \in Group : gid[h] /= None => gid'[h] = gid[h]
  BY <1>1, <1>2
<1> QED
  BY <1>1, <1>3, <1>4, <1>5, <1>6, <1>7 DEF GidsApart, Named

LEMMA AutoGiven ==
  ASSUME IInv, SkeletonApart, Consistent, GidsApart, pass \in {2, 3},
         NEW g \in Group, g \in GroupsInRange, AddGroup(g, Automatic), table' = table, skeleton' = skeleton
  PROVE  GidsApart' /\ \A h \in Group : gid[h] /= None => gid'[h] = gid[h]
<1> DEFINE m == Generate(gid, g)
<1>0. gid \in [Group -> Id]
  BY DEF IInv, TypeOK
<1>1. gid' = [gid EXCEPT ![g] = m] /\ m \in Id \ {None}
  BY <1>0, Generated DEF AddGroup
<1>2. ASSUME NEW e \in Entries, e.gid /= Automatic PROVE gid[e.group] = e.gid /\ e.group \in Group
  <2>1. PICK k \in 1..Len(table) : e = table[k]
    BY DEF Entries, IInv, TypeOK
  <2>2. e.gid \in Nat
    BY <1>2 DEF Consistent
  <2>3. gid[e.group] /= None
    BY <2>1, <2>2 DEF IInv, GroupsMade
  <2> QED
    BY <1>2, <2>3, EntryTypes DEF GidsApart, IInv
<1>5. gid' = [gid EXCEPT ![g] = m] /\ m \in Id \ {None} /\ table' = table /\ skeleton' = skeleton
  BY <1>1
<1>3. CASE gid[g] /= None
  <2>1. m = gid[g]
    BY <1>0, <1>3, Generated
  <2>2. Named(gid, m) \subseteq {g}
    BY <1>0, <1>3, <2>1 DEF Named, GidsApart, Injective
  <2>3. \A e \in Entries : e.gid /= Automatic => (e.gid = m <=> e.group = g)
    BY <1>0, <1>2, <1>3, <2>1 DEF GidsApart, Injective
  <2>4. gid[g] \in {None, m}
    BY <2>1
  <2> HIDE DEF m
  <2> QED
    BY <1>5, <2>2, <2>3, <2>4, GroupGiven
<1>4. CASE gid[g] = None
  <2>1. Named(gid, m) = {}
    BY <1>0, <1>1, <1>4, Generated
  <2>2. \A e \in Entries : e.gid /= Automatic => e.gid /= m
    BY <1>0, <1>2, <2>1 DEF Named
  <2>3. \A e \in Entries : e.gid /= Automatic => e.group /= g
    <3>1. ASSUME NEW e \in Entries, e.gid /= Automatic, e.group = g PROVE FALSE
      <4>1. e.gid = None
        BY <1>2, <1>4, <3>1
      <4> QED
        BY <3>1, <4>1 DEF None, Automatic
    <3> QED
      BY <3>1
  <2>4. gid[g] \in {None, m} /\ Named(gid, m) \subseteq {g}
    BY <1>4, <2>1
  <2>5. \A e \in Entries : e.gid /= Automatic => (e.gid = m <=> e.group = g)
    BY <2>2, <2>3
  <2> HIDE DEF m
  <2> QED
    BY <1>5, <2>4, <2>5, GroupGiven
<1> QED
  BY <1>3, <1>4

LEMMA InputKept ==
  ASSUME IInv, [Next]_vars
  PROVE  /\ UNCHANGED <<table, skeleton>>
         /\ Consistent' = Consistent /\ Users' = Users /\ Entries' = Entries
         /\ UsersInRange' = UsersInRange /\ GroupsInRange' = GroupsInRange
<1>1. UNCHANGED <<table, skeleton>>
  BY GroupPasses, IdleStep, Steps DEF IInv, AddUser, FailHome, Continue, Fail, vars
<1>2. Entries' = Entries /\ Users' = Users
  BY <1>1 DEF Entries, Users
<1>3. UsersInRange' = UsersInRange /\ GroupsInRange' = GroupsInRange
  BY <1>1, <1>2 DEF UsersInRange, GroupsInRange
<1>4. Consistent' = Consistent
  BY <1>1, <1>2, <1>3 DEF Consistent, Named
<1> QED
  BY <1>1, <1>2, <1>3, <1>4

LEMMA GroupsApart ==
  ASSUME IInv, SkeletonApart, Consistent, GidsApart, FixedGroup \/ AutoGroup \/ AdditionalGroup
  PROVE  GidsApart' /\ \A h \in Group : gid[h] /= None => gid'[h] = gid[h]
<1>0. /\ i \in 1..Len(table) /\ UNCHANGED <<table, skeleton>>
      /\ table[i] \in Entries /\ table[i].group \in Group /\ table[i].group \in GroupsInRange
      /\ \A n \in DOMAIN table[i].groups : table[i].groups[n] \in GroupsInRange \cap Group
  BY GroupPasses, EntryNames, EntryOf DEF IInv
<1>1. CASE gid' = gid
  BY <1>0, <1>1 DEF GidsApart, Injective, Named, Entries, GroupsInRange
<1>2. CASE FixedGroup /\ table[i].gid >= 0
  <2> DEFINE e == table[i]
  <2>0. e.group \in Group /\ e.group \in GroupsInRange /\ UNCHANGED <<table, skeleton>>
    BY <1>0
  <2>1. gid' = [gid EXCEPT ![e.group] = e.gid]
    <3>1. e.gid /= Automatic
      BY <1>2 DEF Automatic
    <3> QED
      BY <1>2, <3>1 DEF FixedGroup, AddGroup
  <2>2. e.gid \in Id \ {None} /\ e.gid /= Automatic
    BY <1>0, <1>2 DEF Consistent, Id, None, Automatic
  <2>3. Named(gid, e.gid) \subseteq {e.group} /\ gid[e.group] \in {None, e.gid}
    BY <1>0, <2>2 DEF GidsApart
  <2>4. \A f \in Entries : f.gid /= Automatic => (f.gid = e.gid <=> f.group = e.group)
    BY <1>0, <2>2 DEF Consistent
  <2> HIDE DEF e
  <2> QED
    BY <2>0, <2>1, <2>2, <2>3, <2>4, GroupGiven
<1>3. CASE AutoGroup /\ table[i].gid = Automatic
  <2>1. AddGroup(table[i].group, Automatic) /\ pass = 2
    BY <1>3, PassOf DEF AutoGroup
  <2> QED
    BY <1>0, <2>1, AutoGiven
<1>4. CASE AdditionalGroup
  <2>1. AddGroup(table[i].groups[j], Automatic) /\ pass = 3
    BY <1>4, PassOf DEF AdditionalGroup
  <2>2. j \in DOMAIN table[i].groups
    <3>1. table[i].groups \in Seq(Group) /\ j \in Nat \ {0}
      BY <1>0, EntryOf DEF Entry, IInv, TypeOK
    <3>2. j <= Len(table[i].groups)
      BY <1>4 DEF AdditionalGroup
    <3> QED
      BY <3>1, <3>2
  <2> QED
    BY <1>0, <2>1, <2>2, AutoGiven
<1> QED
  BY <1>1, <1>2, <1>3, <1>4 DEF FixedGroup, AutoGroup, Unused

\* The check of an entry passes: it finds only what its own table has made.
LEMMA Accepted ==
  ASSUME IInv, RoomInv, Consistent, OneUser
  PROVE  ~Rejected(table[i]) /\ NewUid(table[i]) /= None
<1> DEFINE e == table[i]
<1>0. /\ i \in 1..Len(table) /\ e.user \in User /\ e.group \in Group /\ e \in Users /\ e \in Entries
      /\ e.uid \in (Nat \ {0}) \cup {Automatic} /\ e.gid \in (Nat \ {0}) \cup {Automatic}
      /\ e.user /= "root" /\ pass \in {4, 5} /\ ~(0 < Automatic)
  <2>1. i \in 1..Len(table) /\ pass \in {4, 5} /\ e.user /= NoUser
    BY TableEntry, PassOf DEF OneUser, Due, IInv
  <2>2. e \in Users /\ e \in Entries
    BY <2>1, EntryNames DEF IInv
  <2> QED
    BY <2>1, <2>2, EntryOf DEF Consistent, IInv, Automatic
<1>1. SkeletonApart /\ GidsApart /\ MainGroups /\ UidsApart
  BY DEF RoomInv
<1>2. gid[e.group] /= None
  <2>1. e.gid >= 0 \/ e.gid = Automatic
    BY <1>0
  <2> QED
    BY <1>0, <2>1 DEF IInv, GroupsMade
<1>3. ugid[e.user] \in {None, gid[e.group]}
  BY <1>0, <1>1 DEF MainGroups
<1>4. e.gid /= Automatic => /\ Named(gid, e.gid) \in {{}, {e.group}}
                            /\ gid[e.group] = e.gid
  BY <1>0, <1>1, <1>2 DEF GidsApart
<1>5. ugid[e.user] /= None => Named(gid, ugid[e.user]) \in {{}, {e.group}}
  <2>1. Named(gid, gid[e.group]) \subseteq {e.group}
    BY <1>0, <1>1, <1>2 DEF Named, GidsApart, Injective, IInv, TypeOK
  <2> QED
    BY <1>3, <2>1
<1>6. e.uid /= Automatic => Named(uid, e.uid) \in {{}, {e.user}} /\ uid[e.user] \in {None, e.uid}
  <2>1. e.uid /= Automatic => In("fixed users")
    BY DEF OneUser, Due
  <2>2. e.uid /= Automatic => pass = 4
    BY <1>0, <2>1, UserPasses
  <2>3. ASSUME e.uid /= Automatic PROVE Named(uid, e.uid) \subseteq {e.user} /\ uid[e.user] \in {None, e.uid}
    <3>1. pass <= 4 /\ e \in Users
      BY <1>0, <2>2, <2>3
    <3> QED
      BY <1>1, <2>3, <3>1 DEF UidsApart
  <2>4. \A S : S \subseteq {e.user} => S \in {{}, {e.user}}
    OBVIOUS
  <2> HIDE DEF e
  <2> QED
    BY <2>3, <2>4
<1>7. ~(e.gid < -1) /\ e.gid /= 0 /\ ~(e.uid < -1) /\ e.uid /= 0
  BY <1>0 DEF Automatic
<1>8. NewUid(e) /= None
  <2>1. e.uid = Automatic => Generate(uid, e.user) /= None
    BY <1>0, <1>1, UserRoom DEF IInv
  <2>2. e.uid /= Automatic => e.uid /= None
    BY <1>0 DEF None
  <2> QED
    BY <2>1, <2>2 DEF NewUid
<1> QED
  BY <1>0, <1>3, <1>4, <1>5, <1>6, <1>7, <1>8 DEF Rejected

LEMMA UserApart ==
  ASSUME IInv, RoomInv, Consistent, OneUser, AddUser(table[i])
  PROVE  GidsApart' /\ MainGroups' /\ UidsApart'
<1> DEFINE e == table[i]
<1>0. /\ e \in Users /\ e \in Entries /\ e.user \in User /\ e.group \in Group /\ UNCHANGED <<table, skeleton, gid, pass>>
      /\ Users' = Users /\ Entries' = Entries /\ GroupsInRange' = GroupsInRange /\ UsersInRange' = UsersInRange
  <2>1. i \in 1..Len(table) /\ e.user /= NoUser
    BY TableEntry DEF OneUser, Due, IInv
  <2> QED
    BY <2>1, EntryNames, EntryOf, InputKept DEF IInv, AddUser, Continue, Next
<1>1. /\ uid' = [uid EXCEPT ![e.user] = NewUid(e)]
      /\ ugid' = [ugid EXCEPT ![e.user] = gid[e.group]]
      /\ uid \in [User -> Id] /\ ugid \in [User -> Id]
  BY DEF AddUser, IInv, TypeOK
<1> HIDE DEF e
<1>2. GidsApart'
  BY <1>0 DEF RoomInv, GidsApart, Named, Injective
<1>3. MainGroups'
  <2>1. ASSUME NEW f \in Users, ugid'[f.user] /= None PROVE ugid'[f.user] = gid[f.group]
    <3>1. f.user \in User
      BY EntryTypes DEF IInv
    <3>2. CASE f.user = e.user
      <4>1. f.group = e.group
        BY <1>0, <3>2 DEF Consistent
      <4> QED
        BY <1>0, <1>1, <3>2, <4>1
    <3>3. CASE f.user /= e.user
      BY <1>0, <1>1, <2>1, <3>1, <3>3 DEF RoomInv, MainGroups
    <3> QED
      BY <3>2, <3>3
  <2> QED
    BY <1>0, <2>1 DEF MainGroups
<1>4. pass = 4 => e.uid /= Automatic /\ NewUid(e) = e.uid
  <2>1. pass = 4 => e.uid >= 0
    BY UserPasses DEF OneUser, Due, e
  <2> QED
    BY <2>1 DEF NewUid, Automatic
<1>5. ASSUME pass <= 4, NEW f \in Users, f.uid /= Automatic
      PROVE  {u \in User : uid'[u] = f.uid} \subseteq {f.user} /\ uid'[f.user] \in {None, f.uid}
  <2>0. pass \in {4, 5}
    BY PassOf DEF OneUser
  <2>1. pass = 4
    BY <1>5, <2>0
  <2>2. Named(uid, f.uid) \subseteq {f.user} /\ uid[f.user] \in {None, f.uid} /\ f.user \in User
    BY <1>5, EntryTypes DEF RoomInv, UidsApart, IInv
  <2>3. (e.uid = f.uid => e.user = f.user) /\ (e.user = f.user => e.uid = f.uid)
    BY <1>0, <1>4, <1>5, <2>1 DEF Consistent
  <2>4. \A u \in User : uid[u] = f.uid => u = f.user
    BY <1>1, <2>2 DEF Named
  <2> QED
    BY <1>0, <1>1, <1>4, <2>1, <2>2, <2>3, <2>4
<1>6. ASSUME NEW u \in User, uid'[u] \in MinId..MaxId PROVE u \in UsersInRange
  <2>1. e.user \in UsersInRange
    BY <1>0 DEF UsersInRange
  <2> QED
    BY <1>0, <1>1, <1>6, <2>1 DEF RoomInv, UidsApart
<1>7. DOMAIN uid' = User
  BY <1>1
<1> QED
  BY <1>0, <1>2, <1>3, <1>5, <1>6, <1>7 DEF UidsApart, Named

LEMMA RoomStep == IInv /\ RoomInv /\ [Next]_vars => RoomInv'
<1> SUFFICES ASSUME IInv, RoomInv, [Next]_vars PROVE RoomInv'
  OBVIOUS
<1>1. SkeletonApart' /\ Consistent' = Consistent
  BY InputKept DEF RoomInv, SkeletonApart, Injective
<1> SUFFICES ASSUME Consistent PROVE pass' /= 0 /\ GidsApart' /\ MainGroups' /\ UidsApart'
  BY <1>1 DEF RoomInv
<1>2. /\ UNCHANGED <<table, skeleton>>
      /\ Users' = Users /\ Entries' = Entries /\ GroupsInRange' = GroupsInRange /\ UsersInRange' = UsersInRange
      /\ pass /= 0 /\ SkeletonApart /\ GidsApart /\ MainGroups /\ UidsApart
  BY InputKept DEF RoomInv
<1>3. CASE FixedGroup \/ AutoGroup \/ AdditionalGroup
  <2>1. GidsApart' /\ \A h \in Group : gid[h] /= None => gid'[h] = gid[h]
    BY <1>2, <1>3, GroupsApart
  <2>2. UNCHANGED <<pass, uid, ugid>>
    BY <1>3, GroupPasses DEF IInv
  <2>3. MainGroups'
    BY <1>2, <2>1, <2>2, EntryTypes DEF MainGroups, IInv
  <2>4. UidsApart'
    BY <1>2, <2>2 DEF UidsApart, Named
  <2> QED
    BY <1>2, <2>1, <2>2, <2>3, <2>4
<1>4. CASE OneUser /\ AddUser(table[i])
  BY <1>2, <1>4, UserApart DEF AddUser, Continue
<1>5. ASSUME OneUser, FailUser(table[i]) PROVE FALSE
  BY <1>5, Accepted DEF FailUser
<1>6. ASSUME OneUser, FailHome(table[i]) PROVE FALSE
  <2>1. table[i] \in Entries
    BY <1>6, TableEntry, EntryNames DEF OneUser, IInv
  <2> QED
    BY <1>6, <2>1 DEF FailHome, Consistent
<1>7. ASSUME AutoGroupFails \/ AdditionalGroupFails PROVE FALSE
  <2>1. i \in 1..Len(table)
    BY <1>7, TableEntry DEF AutoGroupFails, AdditionalGroupFails, IInv
  <2>2. CASE AutoGroupFails
    <3>1. table[i].group \in Group /\ table[i].group \in GroupsInRange
      BY <2>1, EntryOf, EntryNames DEF IInv
    <3> QED
      BY <1>2, <2>2, <3>1, GroupRoom DEF AutoGroupFails, FailGroup, IInv
  <2>3. CASE AdditionalGroupFails
    <3>1. j \in DOMAIN table[i].groups
      <4>1. table[i].groups \in Seq(Group) /\ j \in Nat \ {0}
        BY <2>1, EntryOf DEF Entry, IInv, TypeOK
      <4>2. j <= Len(table[i].groups)
        BY <2>3 DEF AdditionalGroupFails
      <4> QED
        BY <4>1, <4>2
    <3>2. table[i].groups[j] \in Group /\ table[i].groups[j] \in GroupsInRange
      BY <2>1, <3>1, EntryOf, EntryNames DEF IInv
    <3> QED
      BY <1>2, <2>3, <3>2, GroupRoom DEF AdditionalGroupFails, FailGroup, IInv
  <2> QED
    BY <1>7, <2>2, <2>3
<1>8. CASE NoMoreAdditional \/ SkipUser \/ NextPass \/ UNCHANGED vars
  <2>0. UNCHANGED <<uid, ugid, gid>> /\ pass' \in {pass, pass + 1} /\ pass \in 0..6
    BY <1>8 DEF NoMoreAdditional, SkipUser, NextPass, Continue, Unused, vars, IInv, TypeOK
  <2>1. UNCHANGED <<uid, ugid, gid>> /\ pass' \in {pass, pass + 1} /\ pass' /= 0
    BY <1>2, <2>0
  <2>2. pass' <= 4 => pass <= 4
    BY <2>1 DEF IInv, TypeOK
  <2> QED
    BY <1>2, <2>1, <2>2 DEF GidsApart, MainGroups, UidsApart, Named, Injective
<1> QED
  BY <1>3, <1>4, <1>5, <1>6, <1>7, <1>8 DEF Next, OneUser

LEMMA RoomInit == Init => RoomInv
<1> SUFFICES ASSUME Init PROVE RoomInv
  OBVIOUS
<1>1. /\ pass = 1 /\ uid = skeleton.uid /\ ugid = skeleton.ugid /\ gid = skeleton.gid
      /\ SkeletonApart /\ IInv
  BY UsersAssumption, InitInv DEF Init, SkeletonApart
<1> SUFFICES ASSUME Consistent PROVE GidsApart /\ MainGroups /\ UidsApart
  BY <1>1 DEF RoomInv
<1>2. gid \in [Group -> Id] /\ uid \in [User -> Id]
  BY <1>1 DEF IInv, TypeOK
<1>3. GidsApart
  BY <1>1, <1>2, EntryTypes DEF GidsApart, SkeletonApart, Consistent, GroupsInRange
<1>4. MainGroups
  BY <1>1, <1>2, EntryTypes DEF MainGroups, Consistent, Named
<1>5. UidsApart
  BY <1>1, <1>2, EntryTypes DEF UidsApart, Consistent, UsersInRange
<1> QED
  BY <1>3, <1>4, <1>5

\* A table that can be honoured never makes mkusers fail, in whatever order its
\* entries come: there is an id for each name, and no id is given away that a
\* later entry asks for.
THEOREM ConsistentTablesSucceed == Spec => []ConsistentSucceeds
<1>1. RoomInv => ConsistentSucceeds
  BY DEF RoomInv, ConsistentSucceeds, Failed
<1> QED
  BY <1>1, Invariance, RoomInit, RoomStep, PTL DEF Spec
==============================================================================
