------------------------------- MODULE MkUsers -------------------------------
(***************************************************************************)
(* support/scripts/mkusers: the users and groups a table of the packages   *)
(* asks for are merged into the passwd, group and gshadow files of the     *)
(* target directory's skeleton.                                            *)
(***************************************************************************)
EXTENDS Integers, Sequences, FiniteSets

CONSTANTS
    User, Group,    \* the names in the table and in the skeleton
    MinId, MaxId,   \* MIN_UID..MAX_UID, which are MIN_GID..MAX_GID too
    Tables,         \* users tables, sequences of entries
    Skeletons       \* what /etc holds before

Automatic == -1          \* an id to be computed
None == -1          \* what get_uid and the like find for an unknown name
NoUser == "-"       \* the magic string to skip user creation

Id == Nat \cup {None}

Entry == [user : User \cup {NoUser}, uid : Int, group : Group, gid : Int,
          home : {"-", "dir", "bad"}, groups : Seq(Group)]

Skeleton == [uid : [User -> Id], ugid : [User -> Id], gid : [Group -> Id],
             members : [Group -> SUBSET User], hasGshadow : BOOLEAN]

Injective(id) == \A a, b \in DOMAIN id : id[a] = id[b] /\ id[a] /= None => a = b

ASSUME UsersAssumption ==
    /\ MinId \in Nat \ {0} /\ MaxId \in Nat
    /\ Tables \subseteq Seq(Entry)
    /\ Skeletons \subseteq Skeleton
    /\ \A s \in Skeletons : Injective(s.uid) /\ Injective(s.gid)
    /\ NoUser \notin User

VARIABLES
    table, skeleton,    \* the input
    pass, i, j,         \* main's loop, its entry, its additional group
    uid, ugid,          \* /etc/passwd: the uid and the gid of each user
    gid, members,       \* /etc/group
    gshadow,            \* the members in /etc/gshadow, if that file exists
    chown               \* the chown lines for the fakeroot script

vars == <<table, skeleton, pass, i, j, uid, ugid, gid, members, gshadow, chown>>

Passes == <<"fixed groups", "auto groups", "additional groups", "fixed users", "auto users", "done">>

TypeOK ==
    /\ table \in Seq(Entry) /\ skeleton \in Skeleton
    /\ pass \in 0..6
    /\ i \in 1..Len(table) + 1 /\ j \in Nat \ {0}
    /\ uid \in [User -> Id] /\ ugid \in [User -> Id] /\ gid \in [Group -> Id]
    /\ members \in [Group -> SUBSET User] /\ gshadow \in [Group -> SUBSET User]
    /\ chown \in SUBSET [user : User, uid : Id, gid : Id]

Init ==
    /\ table \in Tables /\ skeleton \in Skeletons
    /\ pass = 1 /\ i = 1 /\ j = 1
    /\ uid = skeleton.uid /\ ugid = skeleton.ugid
    /\ gid = skeleton.gid /\ members = skeleton.members
    /\ gshadow = skeleton.members
    /\ chown = {}

Failed == 0

In(name) == pass \in DOMAIN Passes /\ Passes[pass] = name

Continue == i' = i + 1 /\ j' = 1 /\ UNCHANGED <<table, skeleton, pass>>
Fail == pass' = Failed /\ UNCHANGED <<table, skeleton, i, j>>

\* The names that have an id.
Named(id, n) == {x \in DOMAIN id : id[x] = n}

Free(id) == {n \in MinId..MaxId : Named(id, n) = {}}

Lowest(S) == CHOOSE n \in S : \A m \in S : n <= m

\* (mutant) an id is computed even for a name that has one
GenerateAnew(id, x) == IF Free(id) = {} THEN None ELSE Lowest(Free(id))

\* (mutant) the lowest id, taken or not
GenerateTaken(id, x) == IF id[x] /= None THEN id[x] ELSE MinId

\* generate_uid, generate_gid; None when there is no id left.
Generate(id, x) ==
    IF id[x] /= None THEN id[x]
    ELSE IF Free(id) = {} THEN None ELSE Lowest(Free(id))

-----------------------------------------------------------------------------
\* (mutant) the members of the previous instance of the group are lost
AddGroupAnew(g, n) ==
    LET m == IF n = Automatic THEN Generate(gid, g) ELSE n IN
    /\ m /= None
    /\ gid' = [gid EXCEPT ![g] = m]
    /\ members' = [members EXCEPT ![g] = {}]
    /\ gshadow' = [gshadow EXCEPT ![g] = {}]
    /\ UNCHANGED <<uid, ugid, chown>>

\* add_one_group: the line is removed and added again with the same members;
\* not so in gshadow.
AddGroup(g, n) ==
    LET m == IF n = Automatic THEN Generate(gid, g) ELSE n IN
    /\ m /= None
    /\ gid' = [gid EXCEPT ![g] = m]
    /\ gshadow' = IF skeleton.hasGshadow THEN [gshadow EXCEPT ![g] = {}] ELSE gshadow
    /\ UNCHANGED <<uid, ugid, members, chown>>

FailGroup(g, n) ==
    /\ n = Automatic /\ Generate(gid, g) = None
    /\ Fail
    /\ UNCHANGED <<uid, ugid, gid, members, gshadow, chown>>

Unused == UNCHANGED <<uid, ugid, gid, members, gshadow, chown>>

FixedGroup ==
    /\ In("fixed groups") /\ i <= Len(table)
    /\ IF table[i].gid >= 0 THEN AddGroup(table[i].group, table[i].gid) ELSE Unused
    /\ Continue

AutoGroup ==
    /\ In("auto groups") /\ i <= Len(table)
    /\ IF table[i].gid = Automatic THEN AddGroup(table[i].group, Automatic) ELSE Unused
    /\ Continue

AutoGroupFails ==
    /\ In("auto groups") /\ i <= Len(table)
    /\ table[i].gid = Automatic /\ FailGroup(table[i].group, Automatic)

AdditionalGroup ==
    /\ In("additional groups") /\ i <= Len(table) /\ j <= Len(table[i].groups)
    /\ AddGroup(table[i].groups[j], Automatic)
    /\ j' = j + 1
    /\ UNCHANGED <<table, skeleton, pass, i>>

AdditionalGroupFails ==
    /\ In("additional groups") /\ i <= Len(table) /\ j <= Len(table[i].groups)
    /\ FailGroup(table[i].groups[j], Automatic)

NoMoreAdditional ==
    /\ In("additional groups") /\ i <= Len(table) /\ j > Len(table[i].groups)
    /\ Unused
    /\ Continue

\* (mutant) the user may already be in another group
RejectedButGroup(e) ==
    \/ e.user = "root"
    \/ e.gid < -1 \/ e.gid = 0
    \/ e.gid /= Automatic /\ \/ Named(gid, e.gid) \notin {{}, {e.group}}
                             \/ gid[e.group] \notin {None, e.gid}
                             \/ ugid[e.user] \notin {None, e.gid}
    \/ e.uid < -1 \/ e.uid = 0
    \/ e.uid /= Automatic /\ \/ Named(uid, e.uid) \notin {{}, {e.user}}
                             \/ uid[e.user] \notin {None, e.uid}

\* check_user_validity
Rejected(e) ==
    \/ e.user = "root"
    \/ e.gid < -1 \/ e.gid = 0
    \/ e.gid /= Automatic /\ \/ Named(gid, e.gid) \notin {{}, {e.group}}
                             \/ gid[e.group] \notin {None, e.gid}
                             \/ ugid[e.user] \notin {None, e.gid}
    \/ e.uid < -1 \/ e.uid = 0
    \/ e.uid /= Automatic /\ \/ Named(uid, e.uid) \notin {{}, {e.user}}
                             \/ uid[e.user] \notin {None, e.uid}
    \/ ugid[e.user] /= None /\ Named(gid, ugid[e.user]) \notin {{}, {e.group}}

NewUid(e) == IF e.uid = Automatic THEN Generate(uid, e.user) ELSE e.uid

\* The members once a user is added to its additional groups.
Join(m, e) == [g \in Group |-> IF \E k \in DOMAIN e.groups : e.groups[k] = g
                               THEN m[g] \cup {e.user} ELSE m[g]]

\* add_one_user
AddUser(e) ==
    /\ ~Rejected(e) /\ NewUid(e) /= None /\ e.home /= "bad"
    /\ uid' = [uid EXCEPT ![e.user] = NewUid(e)]
    /\ ugid' = [ugid EXCEPT ![e.user] = gid[e.group]]
    /\ members' = Join(members, e)
    /\ gshadow' = IF skeleton.hasGshadow THEN Join(gshadow, e) ELSE gshadow
    /\ chown' = IF e.home = "-" THEN chown
                ELSE chown \cup {[user |-> e.user, uid |-> NewUid(e), gid |-> gid[e.group]]}
    /\ Continue
    /\ UNCHANGED gid

\* The entry is refused, or there is no uid left.
FailUser(e) ==
    /\ Rejected(e) \/ NewUid(e) = None
    /\ Fail
    /\ Unused

\* A bad home is seen when the previous instance has been removed already.
FailHome(e) ==
    /\ ~Rejected(e) /\ NewUid(e) /= None /\ e.home = "bad"
    /\ uid' = [uid EXCEPT ![e.user] = None]
    /\ ugid' = [ugid EXCEPT ![e.user] = None]
    /\ Fail
    /\ UNCHANGED <<gid, members, gshadow, chown>>

\* (mutant) the users with an automatic uid are not left for later
DueInOrder(e) == e.user /= NoUser /\ e.uid >= -1 /\ In("fixed users")

\* The entries a loop over the users takes.
Due(e) ==
    /\ e.user /= NoUser
    /\ \/ In("fixed users") /\ e.uid >= 0
       \/ In("auto users") /\ e.uid = Automatic

OneUser ==
    /\ In("fixed users") \/ In("auto users")
    /\ i <= Len(table) /\ Due(table[i])
    /\ AddUser(table[i]) \/ FailUser(table[i]) \/ FailHome(table[i])

SkipUser ==
    /\ In("fixed users") \/ In("auto users")
    /\ i <= Len(table) /\ ~Due(table[i])
    /\ Unused
    /\ Continue

NextPass ==
    /\ pass \in 1..5 /\ i > Len(table)
    /\ pass' = pass + 1 /\ i' = 1 /\ j' = 1
    /\ Unused
    /\ UNCHANGED <<table, skeleton>>

Next ==
    \/ FixedGroup \/ AutoGroup \/ AutoGroupFails
    \/ AdditionalGroup \/ AdditionalGroupFails \/ NoMoreAdditional
    \/ OneUser \/ SkipUser \/ NextPass

Spec == Init /\ [][Next]_vars

-----------------------------------------------------------------------------
(* Properties.                                                             *)

\* What a table asks for a user, but for the groups-only entries.
Users == {table[k] : k \in {n \in DOMAIN table : table[n].user /= NoUser}}

\* No two users ever share a uid, whatever the table mixes of fixed and
\* automatic uids, new users and users of the skeleton.
UidsUnique == Injective(uid)

\* When it succeeds, each user has the ids of all its entries and the gid of
\* its main group; a user of the skeleton keeps its uid, and no other gets 0.
EntriesHonoured ==
    In("done") => \A e \in Users : e.uid >= -1 =>
        /\ e.uid /= Automatic => uid[e.user] = e.uid
        /\ IF skeleton.uid[e.user] = None THEN uid[e.user] \in Nat \ {0}
           ELSE uid[e.user] = skeleton.uid[e.user]
        /\ ugid[e.user] = gid[e.group]
        /\ e.gid /= Automatic => ugid[e.user] = e.gid

\* A home belongs to the ids its user finally has.
ChownMatches ==
    In("done") => \A c \in chown : uid[c.user] = c.uid /\ ugid[c.user] = c.gid

\* No group ever loses a member, and a user gets into its additional groups.
MembersKept ==
    /\ \A g \in Group : skeleton.members[g] \subseteq members[g]
    /\ In("done") => \A e \in Users : e.uid >= -1 =>
           \A k \in DOMAIN e.groups : e.user \in members[e.groups[k]]

Entries == {table[k] : k \in DOMAIN table}

\* The names that may need an id of the automatic range, or have one.
UsersInRange == {e.user : e \in Users} \cup {u \in User : skeleton.uid[u] \in MinId..MaxId}
GroupsInRange == {e.group : e \in Entries} \cup (UNION {{e.groups[n] : n \in DOMAIN e.groups} : e \in Entries})
                 \cup {g \in Group : skeleton.gid[g] \in MinId..MaxId}

\* Tables that can be honoured: no invalid id, name or home, no id asked for by
\* two names nor two ids or main groups for one name, nothing that contradicts
\* the skeleton, and an id left for everyone.
Consistent ==
    /\ \A e \in Entries :
          /\ e.user /= "root" /\ e.home /= "bad"
          /\ {e.uid, e.gid} \subseteq (Nat \ {0}) \cup {Automatic}
          /\ e.gid /= Automatic => /\ skeleton.gid[e.group] \in {None, e.gid}
                             /\ Named(skeleton.gid, e.gid) \subseteq {e.group}
    /\ \A e \in Users :
          /\ e.uid /= Automatic => /\ skeleton.uid[e.user] \in {None, e.uid}
                             /\ Named(skeleton.uid, e.uid) \subseteq {e.user}
          /\ skeleton.ugid[e.user] /= None => Named(skeleton.gid, skeleton.ugid[e.user]) = {e.group}
    /\ \A e, f \in Users :
          /\ e.user = f.user => /\ e.group = f.group
                                /\ Automatic \in {e.uid, f.uid} \/ e.uid = f.uid
          /\ e.uid = f.uid /\ e.uid /= Automatic => e.user = f.user
    /\ \A e, f \in Entries : Automatic \notin {e.gid, f.gid} => (e.gid = f.gid <=> e.group = f.group)
    /\ Cardinality(UsersInRange) <= MaxId - MinId + 1
    /\ Cardinality(GroupsInRange) <= MaxId - MinId + 1

\* A table that can be honoured never fails, whatever the order of its entries:
\* an automatic id is never one that a later entry specifies.
ConsistentSucceeds == Consistent => pass /= Failed

\* "check the group does not already exist with another gid"
GroupKeepsGid ==
    In("done") => \A e \in Users : skeleton.gid[e.group] \in {None, gid[e.group]}
=============================================================================
