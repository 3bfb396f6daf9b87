-------------------------- MODULE KconfigConfProofs --------------------------
(***************************************************************************)
(* Proofs about the files that kconfig leaves and about the questions that *)
(* conf asks, for all Config.in files and every tree of menus: ENTER keeps *)
(* what was there, an answer is kept until it cannot be, and auto.conf is  *)
(* as new as the .config it was made from.                                 *)
(***************************************************************************)
EXTENDS KconfigConf, KconfigSymProofs

\* Between the two renames there is a copy of what was saved last.
THEOREM SavedIsKept == Spec => []SavedSurvives
<1>1. Init => SavedSurvives
  BY DEF Init, SavedSurvives
<1>2. SavedSurvives /\ [Next]_vars => SavedSurvives'
  <2> SUFFICES ASSUME SavedSurvives, [Next]_vars PROVE SavedSurvives'
    OBVIOUS
  <2>1. CASE UNCHANGED <<dot, old, saved>>
    BY <2>1 DEF SavedSurvives
  <2>2. CASE MoveOld
    BY <2>2 DEF MoveOld, SavedSurvives
  <2>3. CASE MoveNew
    BY <2>3 DEF MoveNew, Replace, SavedSurvives
  <2>4. CASE Menuconfig \/ OldDefconfig \/ Defconfig \/ SaveDefconfig \/ EndSaveDefconfig
    BY <2>1, <2>4 DEF Menuconfig, OldDefconfig, Defconfig, Load, SaveDefconfig, EndSaveDefconfig, files
  <2>5. CASE (\E s \in Bools, v \in {"y", "n"} : SetBool(s, v)) \/ (\E s \in Strings, t \in Texts : SetString(s, t))
    BY <2>1, <2>5 DEF SetBool, SetString, Edit, files
  <2>6. CASE Write \/ MoveNewFails \/ Quit \/ Kill \/ Upgrade \/ UNCHANGED vars
    BY <2>1, <2>6 DEF Write, MoveNewFails, Quit, Kill, Upgrade, files, vars
  <2> QED
    BY <2>2, <2>3, <2>4, <2>5, <2>6 DEF Next
<1> QED
  BY <1>1, <1>2, PTL DEF Spec

-----------------------------------------------------------------------------
(* auto.conf                                                               *)

\* The symbols for which two sets of lines differ.
Apart(A, B) == {l[1] : l \in (A \cup B) \ (A \cap B)}

LEMMA ApartFrom ==
  ASSUME NEW A, NEW B, NEW C
  PROVE  Apart(A, C) \subseteq Apart(A, B) \cup Apart(B, C)
BY DEF Apart

LEMMA StoredThere == \A n : Stored(n) # Missing
<1> SUFFICES ASSUME NEW n, Stored(n) = Missing PROVE FALSE
  OBVIOUS
<1> DEFINE S == {s \in Written(n) : s \in Strings \/ n.cur[s] # "n"}
<1>0. S \in SUBSET All
  BY DEF Written, All
<1>1. ListOf(Stored(n), n, S)
  <2> HIDE DEF S
  <2>1. ListOf(Lines(n, S), n, S)
    BY <1>0, LinesAre
  <2> QED
    BY <2>1 DEF Stored, S
<1>2. DOMAIN Missing = {1} /\ Missing[1] = <<"missing">>
  BY DEF Missing
<1> HIDE DEF S
<1>3. PICK s \in S : Missing[1] = <<s, n.cur[s]>>
  <2> DEFINE T == {<<x, n.cur[x]>> : x \in S}
  <2>1. Missing \in Seq(T)
    BY <1>1 DEF ListOf
  <2>2. Missing[1] \in T
    <3> HIDE DEF T
    <3> QED
      BY <1>2, <2>1
  <2> QED
    BY <2>2
<1>4. Len(<<"missing">>) = 1 /\ Len(<<s, n.cur[s]>>) = 2
  OBVIOUS
<1> QED
  BY <1>2, <1>3, <1>4

\* What differs from the auto.conf of the last build has been touched, and
\* before the two files are replaced, what differs from the one there is now.
AutoInv ==
    /\ built # Missing => auto # Missing /\ Apart(ToSet(built), InAuto) \subseteq touched
    /\ pc \in {"header", "auto"} => Apart(ToSet(Stored(now)), InAuto) \subseteq touched

\* The steps before and after those of conf_write_autoconf.
LEMMA WalkStep ==
  ASSUME Walk
  PROVE  pc = "ask" /\ UNCHANGED sync /\ pc' \in {"ask", "idle", "split", "write"}
<1>1. CASE Hidden \/ CheckOld \/ List \/ Restart \/ ConfMenu
  BY <1>1 DEF Hidden, CheckOld, List, Restart, ConfMenu, Calling, Asking
<1>2. CASE ConfNoSymbol \/ ConfKnown \/ ConfEmpty
  BY <1>2 DEF ConfNoSymbol, ConfKnown, ConfEmpty, Entering, Calling, Asking
<1>3. CASE (\E v \in {"y", "n"} : ConfSym(v)) \/ (\E t \in Texts : ConfString(t)) \/ (\E e \in Entries : Choose(e))
  BY <1>3 DEF ConfSym, ConfString, Choose, Entering, Calling, Asking
<1>4. CASE NextPass
  BY <1>4 DEF NextPass, vars, sync
<1>5. CASE EndAsking
  BY <1>5 DEF EndAsking, Finished, Exit
<1> QED
  BY <1>1, <1>2, <1>3, <1>4, <1>5 DEF Walk

LEMMA OtherStep ==
  ASSUME [CNext]_cvars, ~Walk, ~Touch, ~EndSplit, ~MoveHeader, ~MoveAuto, ~Build
  PROVE  /\ UNCHANGED <<auto, built, touched>>
         /\ pc' \in {"ask", "idle", "split", "write", "written", "moved", "edit"} \/ UNCHANGED <<pc, now>>
<1>1. CASE \E m \in {"oldaskconfig", "oldconfig", "syncconfig", "listnewconfig"} : Begin(m)
  BY <1>1 DEF Begin, Load, sync
<1>2. CASE NewDefaults
  BY <1>2 DEF NewDefaults, OldDefconfig, Load, sync
<1>3. CASE \E m \in {"allyesconfig", "allnoconfig", "alldefconfig"}, seed \in Seeds : AllConfig(m, seed)
  BY <1>3 DEF AllConfig, Load, sync
<1>4. CASE Save \/ SaveOld
  BY <1>4 DEF Save, Write, SaveOld, MoveOld, sync
<1>5. CASE SaveNew
  BY <1>5 DEF SaveNew, GoOn, Exit
<1>6. CASE SaveFails \/ Killed
  BY <1>6 DEF SaveFails, MoveNewFails, Killed, Kill, Exit, sync
<1>7. CASE NewTree \/ EditDot \/ UNCHANGED cvars
  BY <1>7 DEF NewTree, Upgrade, EditDot, cvars, vars, sync
<1> QED
  BY <1>1, <1>2, <1>3, <1>4, <1>5, <1>6, <1>7 DEF CNext

LEMMA AutoStep == AutoInv /\ [CNext]_cvars => AutoInv'
<1> SUFFICES ASSUME AutoInv, [CNext]_cvars PROVE AutoInv'
  OBVIOUS
<1>1. CASE UNCHANGED <<auto, built, touched>> /\ (pc' \notin {"header", "auto"} \/ UNCHANGED <<pc, now>>)
  <2>1. InAuto' = InAuto
    BY <1>1 DEF InAuto
  <2>2. CASE pc' \notin {"header", "auto"}
    BY <1>1, <2>1, <2>2 DEF AutoInv
  <2>3. CASE UNCHANGED <<pc, now>>
    <3>1. Stored(now)' = Stored(now)
      BY <2>3
    <3> QED
      BY <1>1, <2>1, <2>3, <3>1 DEF AutoInv
  <2> QED
    BY <1>1, <2>2, <2>3
<1>2. CASE Touch
  <2>1. UNCHANGED <<auto, built, pc, now>> /\ touched \subseteq touched'
    BY <1>2 DEF Touch, vars
  <2>2. InAuto' = InAuto /\ Stored(now)' = Stored(now)
    BY <2>1 DEF InAuto
  <2> QED
    BY <2>1, <2>2 DEF AutoInv
<1>3. CASE EndSplit
  <2>1. UNCHANGED <<auto, built, touched>> /\ now' = Calculate(kconfig, user) /\ Differs \subseteq touched
    BY <1>3 DEF EndSplit, sync
  <2>2. Differs = Apart(ToSet(Stored(now')), InAuto)
    BY <2>1 DEF Differs, Apart
  <2>3. InAuto' = InAuto /\ Stored(now)' = Stored(now')
    BY <2>1 DEF InAuto
  <2> QED
    BY <2>1, <2>2, <2>3 DEF AutoInv
<1>4. CASE MoveHeader
  <2>1. UNCHANGED <<auto, built, touched, now>> /\ pc = "header"
    BY <1>4 DEF MoveHeader
  <2>2. InAuto' = InAuto /\ Stored(now)' = Stored(now)
    BY <2>1 DEF InAuto
  <2> QED
    BY <2>1, <2>2 DEF AutoInv
<1>5. CASE MoveAuto
  <2>1. UNCHANGED <<built, touched>> /\ pc = "auto" /\ auto' = Stored(now) /\ pc' = "idle"
    BY <1>5 DEF MoveAuto, Exit
  <2>2. InAuto' = ToSet(Stored(now))
    BY <2>1, StoredThere DEF InAuto
  <2>3. built # Missing => Apart(ToSet(built), ToSet(Stored(now))) \subseteq touched
    <3>1. Apart(InAuto, ToSet(Stored(now))) = Apart(ToSet(Stored(now)), InAuto)
      BY DEF Apart
    <3> QED
      BY <2>1, <3>1, ApartFrom DEF AutoInv
  <2> QED
    BY <2>1, <2>2, <2>3, StoredThere DEF AutoInv
<1>6. CASE Build
  <2>1. built' = auto /\ auto' = auto /\ auto # Missing /\ pc = "idle" /\ pc' = pc
    BY <1>6 DEF Build, UpToDate, vars
  <2>2. Apart(ToSet(auto), ToSet(auto)) = {}
    BY DEF Apart
  <2> QED
    BY <2>1, <2>2 DEF AutoInv, InAuto
<1> QED
  BY <1>1, <1>2, <1>3, <1>4, <1>5, <1>6, WalkStep, OtherStep DEF sync

\* What was built with other values than auto.conf has now has been touched
\* since, wherever syncconfig was killed in between and as often as it ran.
THEOREM ChangesAreTouched == CSpec => []ChangesTouched
<1>1. CInit => AutoInv
  BY DEF CInit, AutoInv, Init
<1>2. AutoInv => ChangesTouched
  BY DEF AutoInv, ChangesTouched, InAuto, Apart
<1> QED
  BY <1>1, <1>2, AutoStep, PTL DEF CSpec

-----------------------------------------------------------------------------
(* The tree                                                                *)

LEMMA AncestryOf ==
  ASSUME NEW e \in Entries
  PROVE  /\ Ancestry[e] \subseteq Entries /\ e \in Ancestry[e]
         /\ \A x \in Ancestry[e] \ {Root} : Parent[x] \in Ancestry[e]
         /\ \A S \in SUBSET Entries : e \in S /\ (\A x \in S \ {Root} : Parent[x] \in S) => Ancestry[e] \subseteq S
<1>1. Ancestry[e] = {a \in Entries : \A S \in SUBSET Entries :
                        e \in S /\ (\A x \in S \ {Root} : Parent[x] \in S) => a \in S}
  BY DEF Ancestry
<1>2. ASSUME NEW x \in Ancestry[e] \ {Root} PROVE Parent[x] \in Ancestry[e]
  <2>1. Parent[x] \in Entries
    BY <1>1, ParentIs
  <2> QED
    BY <1>1, <2>1
<1> QED
  BY <1>1, <1>2

\* Every entry is below the root, and below a child of whatever it is below.
LEMMA BelowRoot ==
  ASSUME NEW e \in Entries
  PROVE  Root \in Ancestry[e]
<1> SUFFICES ASSUME Root \notin Ancestry[e] PROVE FALSE
  OBVIOUS
<1>1. Ancestry[e] \in SUBSET (Entries \ {Root}) /\ Ancestry[e] # {}
  BY AncestryOf
<1>2. PICK x \in Ancestry[e] : Parent[x] \notin Ancestry[e]
  BY <1>1, TreeAssumption
<1> QED
  BY <1>1, <1>2, AncestryOf

LEMMA BelowChild ==
  ASSUME NEW e \in Entries, NEW a \in Ancestry[e], a # e
  PROVE  \E c \in ToSet(Children[a]) : c \in Ancestry[e]
<1> SUFFICES ASSUME \A c \in ToSet(Children[a]) : c \notin Ancestry[e] PROVE FALSE
  OBVIOUS
<1> DEFINE S == Ancestry[e] \ {a}
<1>1. S \in SUBSET Entries /\ e \in S
  BY AncestryOf
<1>2. ASSUME NEW x \in S \ {Root} PROVE Parent[x] \in S
  <2>1. x \in Entries \ {Root} /\ Parent[x] \in Ancestry[e]
    BY AncestryOf
  <2>2. x \in ToSet(Children[Parent[x]])
    BY <2>1, ParentIs
  <2> QED
    BY <2>1, <2>2
<1>3. Ancestry[e] \subseteq S
  BY <1>1, <1>2, AncestryOf
<1> QED
  BY <1>3

-----------------------------------------------------------------------------
(* The questions                                                           *)

IsUser(u) == "has" \in DOMAIN u

Checking == pc = "ask" /\ ~again /\ mode # "oldaskconfig"

Told(e) == mode = "listnewconfig" /\ SymOf[e] \in listed \cup ChoiceSyms

\* In a pass that has found nothing new, what is new is still to be looked at.
AskInv == Checking =>
    /\ todo \in Seq([fn : {"check"}, menu : Entries])
    /\ \A e \in Entries : Reachable(e) /\ IsNew(e, user) /\ ~Told(e) =>
          \E i \in 1 .. Len(todo) : todo[i].menu \in Ancestry[e]

LEMMA CheckingToo ==
  ASSUME AskInv, Checking, todo # <<>>
  PROVE  /\ Head(todo).fn = "check" /\ Here \in Entries /\ Children[Here] \in Seq(Entries)
         /\ Tail(todo) \in Seq([fn : {"check"}, menu : Entries])
         /\ Below("check", Here) \in Seq([fn : {"check"}, menu : Entries])
         /\ Len(Below("check", Here)) = Len(Children[Here])
         /\ \A i \in 1 .. Len(Children[Here]) : Below("check", Here)[i] = Call("check", Children[Here][i])
<1> DEFINE T == [fn : {"check"}, menu : Entries]
<1>0. todo \in Seq(T)
  BY DEF AskInv
<1>1. Head(todo) \in T /\ Tail(todo) \in Seq(T)
  <2> HIDE DEF T
  <2> QED
    BY <1>0
<1>2. Here \in Entries /\ Children[Here] \in Seq(Entries)
  BY <1>1, TreeAssumption DEF Here
<1>3. Below("check", Here) = [i \in 1 .. Len(Children[Here]) |-> Call("check", Children[Here][i])]
  BY <1>2 DEF Below
<1>4. \A i \in 1 .. Len(Children[Here]) : Call("check", Children[Here][i]) \in T
  BY <1>2 DEF Call
<1> QED
  BY <1>1, <1>2, <1>3, <1>4

LEMMA SeenIs ==
  ASSUME IsUser(user)
  PROVE  IsUser(Seen) /\ user.has \subseteq Seen.has
BY DEF IsUser, Seen

\* To have more answers makes nothing new.
LEMMA LessNew ==
  ASSUME NEW e, NEW u, NEW w, u.has \subseteq w.has, IsNew(e, w)
  PROVE  IsNew(e, u)
BY DEF IsNew, HasAnswer

LEMMA VisibleStays ==
  ASSUME UNCHANGED <<kconfig, now>>, NEW a
  PROVE  Visible(a, now)' = Visible(a, now)
BY DEF Visible, PromptVisible

LEMMA ReachableStays ==
  ASSUME UNCHANGED <<kconfig, now>>, NEW e
  PROVE  Reachable(e)' = Reachable(e)
BY VisibleStays DEF Reachable

\* One call of check_conf is made: all that is left of what is new is below
\* what it has put in its place.
LEMMA OneCall ==
  ASSUME AskInv, Checking, todo # <<>>, Checking', IsUser(user), user' = Seen,
         UNCHANGED <<kconfig, now, chosen, mode>>, listed \subseteq listed',
         \/ Make(<<>>) /\ ~Visible(Here, now)
         \/ Make(Below("check", Here)) /\ (~IsNew(Here, Seen) \/ (mode = "listnewconfig" /\ Sym \in listed' \cup ChoiceSyms))
  PROVE  AskInv'
<1> DEFINE T == [fn : {"check"}, menu : Entries]
<1>1. /\ Here \in Entries /\ Children[Here] \in Seq(Entries) /\ todo \in Seq(T) /\ Tail(todo) \in Seq(T)
      /\ Below("check", Here) \in Seq(T) /\ Len(Below("check", Here)) = Len(Children[Here])
      /\ \A i \in 1 .. Len(Children[Here]) : Below("check", Here)[i] = Call("check", Children[Here][i])
  BY CheckingToo DEF AskInv
<1>2. PICK q \in {<<>>, Below("check", Here)} :
        /\ todo' = q \o Tail(todo)
        /\ \/ q = <<>> /\ ~Visible(Here, now)
           \/ q = Below("check", Here) /\ (~IsNew(Here, Seen) \/ (mode = "listnewconfig" /\ Sym \in listed' \cup ChoiceSyms))
  BY DEF Make
<1>3. q \in Seq(T) /\ todo' \in Seq(T)
  <2> HIDE DEF T
  <2>1. q \in Seq(T)
    <3>1. CASE q = <<>>
      BY <3>1
    <3>2. CASE q = Below("check", Here)
      BY <1>1, <3>2
    <3> QED
      BY <1>2, <3>1, <3>2
  <2> QED
    BY <1>1, <1>2, <2>1
<1>4. ASSUME NEW e \in Entries, Reachable(e)', IsNew(e, user)', ~Told(e)'
      PROVE  \E i \in 1 .. Len(todo') : todo'[i].menu \in Ancestry[e]
  <2>1. Reachable(e) /\ ~Told(e)
    <3>1. Reachable(e)
      BY <1>4, ReachableStays
    <3> QED
      BY <1>4, <3>1 DEF Told
  <2>2. IsNew(e, Seen)
    BY <1>4 DEF IsNew, HasAnswer
  <2>3. IsNew(e, user)
    BY <2>2, SeenIs, LessNew
  <2>4. PICK i \in 1 .. Len(todo) : todo[i].menu \in Ancestry[e]
    BY <2>1, <2>3 DEF AskInv
  <2>5. CASE i = 1
    <3>1. Here \in Ancestry[e]
      BY <2>4, <2>5, <1>1 DEF Here
    <3>2. q = Below("check", Here) /\ Here # e
      <4>1. Visible(Here, now)
        BY <2>1, <3>1 DEF Reachable
      <4>2. q = Below("check", Here) /\ (~IsNew(Here, Seen) \/ (mode = "listnewconfig" /\ Sym \in listed' \cup ChoiceSyms))
        BY <1>2, <4>1
      <4>3. ASSUME Here = e PROVE FALSE
        <5>1. ~(mode = "listnewconfig" /\ Sym \in listed' \cup ChoiceSyms)
          BY <1>4, <4>3 DEF Told, Sym
        <5> QED
          BY <2>2, <4>2, <4>3, <5>1
      <4> QED
        BY <4>2, <4>3
    <3>3. PICK c \in ToSet(Children[Here]) : c \in Ancestry[e]
      BY <3>1, <3>2, BelowChild
    <3>4. PICK k \in 1 .. Len(Children[Here]) : c = Children[Here][k]
      BY <1>1 DEF ToSet
    <3>5. k \in 1 .. Len(todo') /\ todo'[k] = Call("check", c)
      BY <1>1, <1>2, <1>3, <3>2, <3>4
    <3> QED
      BY <3>3, <3>5 DEF Call
  <2>6. CASE i # 1
    <3>1. /\ i - 1 \in 1 .. Len(Tail(todo)) /\ Tail(todo)[i - 1] = todo[i]
      BY <1>1, <2>4, <2>6
    <3>2. /\ Len(q) + i - 1 \in 1 .. Len(todo')
          /\ todo'[Len(q) + i - 1] = todo[i]
      BY <1>1, <1>2, <1>3, <3>1
    <3> QED
      BY <2>4, <3>2
  <2> QED
    BY <2>5, <2>6
<1> QED
  BY <1>3, <1>4 DEF AskInv

LEMMA UserOfIs == \A lines : IsUser(UserOf(lines))
BY DEF IsUser, UserOf

LEMMA ReadIs == IsUser(ReadDot.user) /\ \A k, lines : IsUser(Read(k, lines).user)
<1>1. ASSUME NEW k, NEW lines PROVE IsUser(Read(k, lines).user)
  <2>1. IsUser(UserOf(lines)) /\ IsUser([UserOf(lines) EXCEPT !.has = {s \in @ : IsValue(s) \/ s \in Calculate(k, UserOf(lines)).vis}])
    BY UserOfIs DEF IsUser
  <2> QED
    BY <2>1 DEF Read
<1>2. IsUser(Blank)
  BY DEF IsUser, Blank
<1> QED
  BY <1>1, <1>2 DEF ReadDot

LEMMA AnswerIs ==
  ASSUME NEW u, IsUser(u), NEW s, NEW v
  PROVE  IsUser(Answered(u, s, v)) /\ IsUser(Entered(u, s, v))
BY DEF IsUser, Answered, Entered

LEMMA AllOfIs ==
  ASSUME NEW m, NEW seed, IsUser(seed)
  PROVE  IsUser(AllOf(seed, m))
BY DEF IsUser, AllOf

\* Whatever a step makes of the answers, they are a record with a field has.
LEMMA UserStep == IsUser(user) /\ [CNext]_cvars => IsUser(user)'
<1> SUFFICES ASSUME IsUser(user), [CNext]_cvars PROVE IsUser(user')
  BY DEF IsUser
<1>0. IsUser(Seen) /\ IsUser(Looked) /\ IsUser(Blank)
  BY DEF IsUser, Seen, Looked, Blank
<1>1. CASE UNCHANGED user \/ user' = Seen
  BY <1>0, <1>1
<1>2. CASE Exit
  BY <1>0, <1>2 DEF Exit
<1>3. CASE Hidden \/ CheckOld \/ List \/ Restart \/ ConfMenu \/ ConfNoSymbol \/ ConfKnown \/ ConfEmpty \/ NextPass
  BY <1>1, <1>3 DEF Hidden, CheckOld, List, Restart, ConfMenu, ConfNoSymbol, ConfKnown, ConfEmpty, NextPass, vars
<1>4. CASE EndAsking
  BY <1>1, <1>2, <1>4 DEF EndAsking
<1>5. ASSUME NEW v \in {"y", "n"}, ConfSym(v) PROVE IsUser(user')
  BY <1>0, <1>5, AnswerIs DEF ConfSym, Answer, Clear
<1>6. ASSUME NEW t \in Texts, ConfString(t) PROVE IsUser(user')
  BY <1>0, <1>6, AnswerIs DEF ConfString, Answer, Clear
<1>7. ASSUME NEW e \in Entries, Choose(e) PROVE IsUser(user')
  BY <1>0, <1>7, AnswerIs DEF Choose, Answer, Clear
<1>8. CASE \E m \in {"oldaskconfig", "oldconfig", "syncconfig", "listnewconfig"} : Begin(m)
  BY <1>8, ReadIs DEF Begin, Load
<1>9. CASE NewDefaults
  BY <1>9, ReadIs DEF NewDefaults, OldDefconfig, Load
<1>10. ASSUME NEW m \in {"allyesconfig", "allnoconfig", "alldefconfig"}, NEW seed \in Seeds, AllConfig(m, seed)
       PROVE  IsUser(user')
  BY <1>0, <1>10, UserOfIs, AllOfIs DEF AllConfig, Load
<1>11. CASE Save \/ SaveOld \/ SaveNew \/ SaveFails \/ Killed
  BY <1>1, <1>2, <1>11 DEF Save, Write, SaveOld, MoveOld, SaveNew, GoOn, SaveFails, MoveNewFails, Killed, Kill
<1>12. CASE Touch \/ EndSplit \/ MoveHeader \/ MoveAuto
  BY <1>1, <1>2, <1>12 DEF Touch, EndSplit, MoveHeader, MoveAuto, vars
<1>13. CASE NewTree \/ EditDot \/ Build \/ UNCHANGED cvars
  BY <1>1, <1>13 DEF NewTree, Upgrade, EditDot, Build, vars, cvars
<1> QED
  BY <1>3, <1>4, <1>5, <1>6, <1>7, <1>8, <1>9, <1>10, <1>11, <1>12, <1>13 DEF CNext, Walk

\* A call of conf is made only in a pass that is to be followed by another.
LEMMA ConfCall ==
  ASSUME AskInv, UNCHANGED <<again, mode>>,
         \/ ConfMenu \/ ConfNoSymbol \/ ConfKnown \/ ConfEmpty
         \/ \E v \in {"y", "n"} : ConfSym(v)
         \/ \E t \in Texts : ConfString(t)
         \/ \E e \in Entries : Choose(e)
  PROVE  ~Checking'
<1>1. Calling({"conf"})
  BY DEF ConfMenu, ConfNoSymbol, ConfKnown, ConfEmpty, ConfSym, ConfString, Choose, Entering
<1>2. ~Checking
  BY <1>1, CheckingToo DEF Calling
<1> QED
  BY <1>1, <1>2 DEF Checking, Calling

LEMMA StartAgain ==
  ASSUME todo' = <<Call("check", Root)>>
  PROVE  AskInv'
<1>1. Call("check", Root) \in [fn : {"check"}, menu : Entries]
  BY TreeAssumption DEF Call
<1>2. todo' \in Seq([fn : {"check"}, menu : Entries]) /\ Len(todo') = 1 /\ todo'[1].menu = Root
  BY <1>1 DEF Call
<1>3. \A e \in Entries : \E i \in 1 .. Len(todo') : todo'[i].menu \in Ancestry[e]
  BY <1>2, BelowRoot
<1> QED
  BY <1>2, <1>3 DEF AskInv

LEMMA RestStep ==
  ASSUME [CNext]_cvars, ~Walk, ~\E m \in {"oldaskconfig", "oldconfig", "syncconfig", "listnewconfig"} : Begin(m)
  PROVE  pc' # "ask" \/ UNCHANGED cvars
<1>1. CASE NewDefaults
  BY <1>1 DEF NewDefaults, OldDefconfig, Load
<1>2. CASE \E m \in {"allyesconfig", "allnoconfig", "alldefconfig"}, seed \in Seeds : AllConfig(m, seed)
  BY <1>2 DEF AllConfig, Load
<1>3. CASE Save \/ SaveOld \/ SaveNew \/ SaveFails \/ Killed
  <2>1. MoveNewFails => pc' # "ask"
    BY DEF MoveNewFails, Exit
  <2> QED
    BY <1>3, <2>1 DEF Save, Write, SaveOld, MoveOld, SaveNew, GoOn, Exit, SaveFails, Killed, Kill
<1>4. CASE Touch \/ EndSplit \/ MoveHeader \/ MoveAuto
  BY <1>4 DEF Touch, EndSplit, MoveHeader, MoveAuto, Exit, vars
<1>5. CASE NewTree \/ EditDot \/ Build
  BY <1>5 DEF NewTree, Upgrade, EditDot, Build, vars
<1> QED
  BY <1>1, <1>2, <1>3, <1>4, <1>5 DEF CNext

LEMMA AskStep == IsUser(user) /\ AskInv /\ [CNext]_cvars => AskInv'
<1> SUFFICES ASSUME IsUser(user), AskInv, [CNext]_cvars, Checking' PROVE AskInv'
  BY DEF AskInv
<1>1. ASSUME Hidden \/ CheckOld \/ List PROVE AskInv'
  <2>1. /\ Calling({"check", "conf"}) /\ user' = Seen
        /\ UNCHANGED <<kconfig, pc, again, now, chosen, mode>>
    BY <1>1 DEF Hidden, CheckOld, List, Asking, NothingNew, Calling
  <2>2. Checking /\ todo # <<>>
    BY <2>1 DEF Checking, Calling
  <2>3. CASE Hidden
    BY <2>1, <2>2, <2>3, OneCall DEF Hidden
  <2>4. CASE CheckOld
    BY <2>1, <2>2, <2>4, OneCall DEF CheckOld
  <2>5. CASE List
    <3>1. Sym \in Symbols \cup ChoiceSyms
      <4>1. Here \in Entries
        BY <2>2, CheckingToo
      <4>2. Sym # Nobody
        BY <2>5 DEF List, IsNew, Sym
      <4> QED
        BY <4>1, <4>2, TreeAssumption DEF Sym
    <3>2. /\ Make(Below("check", Here)) /\ mode = "listnewconfig"
          /\ listed' = listed \cup ({Sym} \cap Symbols)
      BY <2>5 DEF List
    <3> QED
      BY <2>1, <2>2, <3>1, <3>2, OneCall
  <2> QED
    BY <1>1, <2>3, <2>4, <2>5
<1>2. ASSUME Restart PROVE FALSE
  BY <1>2 DEF Restart, Checking
<1>3. ASSUME \/ ConfMenu \/ ConfNoSymbol \/ ConfKnown \/ ConfEmpty
             \/ \E v \in {"y", "n"} : ConfSym(v)
             \/ \E t \in Texts : ConfString(t)
             \/ \E e \in Entries : Choose(e)
      PROVE  FALSE
  <2>1. UNCHANGED <<again, mode>>
    BY <1>3 DEF ConfMenu, ConfNoSymbol, ConfKnown, ConfEmpty, ConfSym, ConfString, Choose, Entering, Asking
  <2> QED
    BY <1>3, <2>1, ConfCall
<1>4. ASSUME NextPass PROVE AskInv'
  BY <1>4, StartAgain DEF NextPass
<1>5. ASSUME EndAsking PROVE FALSE
  BY <1>5 DEF EndAsking, Exit, Checking
<1>6. ASSUME \E m \in {"oldaskconfig", "oldconfig", "syncconfig", "listnewconfig"} : Begin(m) PROVE AskInv'
  BY <1>6, StartAgain DEF Begin, Checking
<1>7. ASSUME UNCHANGED cvars PROVE AskInv'
  <2>1. UNCHANGED <<kconfig, now, user, chosen, mode, listed, todo, pc, again>>
    BY <1>7 DEF cvars, vars, talk
  <2>2. \A e : Reachable(e)' = Reachable(e)
    BY <2>1, ReachableStays
  <2> QED
    BY <2>1, <2>2 DEF AskInv, Checking, IsNew, HasAnswer, Told
<1> QED
  BY <1>1, <1>2, <1>3, <1>4, <1>5, <1>6, <1>7, RestStep DEF Walk, Checking

\* When conf ends its questions, whatever the user can see has an answer, or is
\* listed: a pass that finds nothing new has looked at the whole tree, and what
\* was new in a pass makes another one follow.
THEOREM AsksAll == CSpec => []AsksToTheEnd
<1>1. CInit => IsUser(user) /\ AskInv
  BY DEF CInit, Init, Blank, IsUser, AskInv, Checking
<1>2. IsUser(user) /\ AskInv /\ [CNext]_cvars => (IsUser(user) /\ AskInv)'
  BY UserStep, AskStep
<1>3. AskInv => AsksToTheEnd
  <2> SUFFICES ASSUME AskInv, Finished PROVE AsksToTheEnd
    BY DEF AsksToTheEnd
  <2>1. Checking /\ Len(todo) = 0
    BY DEF Finished, Checking
  <2>2. \A i \in 1 .. Len(todo) : FALSE
    BY <2>1
  <2> QED
    BY <2>1, <2>2 DEF AskInv, AsksToTheEnd, Told
<1> QED
  BY <1>1, <1>2, <1>3, PTL DEF CSpec

-----------------------------------------------------------------------------
(* The calls to come                                                       *)

Calls == [fn : {"check", "conf"}, menu : Entries]
CallsInv == pc = "ask" => todo \in Seq(Calls)

LEMMA NextCall ==
  ASSUME CallsInv, Calling({"check", "conf"})
  PROVE  /\ Here \in Entries /\ Tail(todo) \in Seq(Calls)
         /\ \A fn \in {"check", "conf"} : \A e \in Entries : Call(fn, e) \in Calls /\ Below(fn, e) \in Seq(Calls)
<1>1. todo \in Seq(Calls) /\ todo # <<>>
  BY DEF CallsInv, Calling
<1>2. Head(todo) \in Calls /\ Tail(todo) \in Seq(Calls)
  BY <1>1
<1>3. Here \in Entries
  BY <1>2 DEF Here, Calls
<1>4. ASSUME NEW fn \in {"check", "conf"}, NEW e \in Entries
      PROVE  Call(fn, e) \in Calls /\ Below(fn, e) \in Seq(Calls)
  <2>1. Children[e] \in Seq(Entries)
    BY TreeAssumption
  <2>2. \A x \in Entries : Call(fn, x) \in Calls
    BY DEF Call, Calls
  <2>3. Below(fn, e) = [i \in 1 .. Len(Children[e]) |-> Call(fn, Children[e][i])]
    BY <2>1 DEF Below
  <2> QED
    BY <2>1, <2>2, <2>3
<1> QED
  BY <1>2, <1>3, <1>4

LEMMA CallsMade ==
  ASSUME CallsInv, Calling({"check", "conf"}), NEW calls \in Seq(Calls), Make(calls)
  PROVE  CallsInv'
<1>1. todo' = calls \o Tail(todo) /\ Tail(todo) \in Seq(Calls)
  BY NextCall DEF Make
<1>2. todo' \in Seq(Calls)
  BY <1>1
<1> QED
  BY <1>2 DEF CallsInv, Calls

LEMMA CallsStep == CallsInv /\ [CNext]_cvars => CallsInv'
<1> SUFFICES ASSUME CallsInv, [CNext]_cvars, pc' = "ask" PROVE CallsInv'
  BY DEF CallsInv
<1>1. ASSUME Calling({"check", "conf"}),
             \/ Make(<<>>) \/ Make(Below("check", Here)) \/ Make(Below("conf", Here)) \/ Make(<<Call("check", Here)>>)
             \/ Make(<<Call("conf", MenuOf(Here))>> \o Below("check", Here))
             \/ \E e \in Entries : Make(Below("conf", e))
      PROVE  CallsInv'
  <2>0. Here \in Entries /\ MenuOf(Here) \in Entries
    BY <1>1, NextCall, MenuOfIn
  <2>1. CASE Make(<<>>)
    <3>1. <<>> \in Seq(Calls)
      OBVIOUS
    <3> QED
      BY <1>1, <2>1, <3>1, CallsMade
  <2>2. CASE Make(Below("check", Here))
    BY <1>1, <2>0, <2>2, NextCall, CallsMade
  <2>3. CASE Make(<<Call("check", Here)>>)
    <3>1. Call("check", Here) \in Calls
      BY <2>0 DEF Call, Calls
    <3>2. <<Call("check", Here)>> \in Seq(Calls)
      BY <3>1
    <3> QED
      BY <1>1, <2>3, <3>2, CallsMade
  <2>4. CASE Make(<<Call("conf", MenuOf(Here))>> \o Below("check", Here))
    <3>1. Call("conf", MenuOf(Here)) \in Calls
      BY <2>0 DEF Call, Calls
    <3>2. <<Call("conf", MenuOf(Here))>> \in Seq(Calls) /\ Below("check", Here) \in Seq(Calls)
      BY <1>1, <2>0, <3>1, NextCall
    <3>3. <<Call("conf", MenuOf(Here))>> \o Below("check", Here) \in Seq(Calls)
      BY <3>2
    <3> QED
      BY <1>1, <2>4, <3>3, CallsMade
  <2>5. CASE \E e \in Entries : Make(Below("conf", e))
    BY <1>1, <2>5, NextCall, CallsMade
  <2> QED
    BY <1>1, <2>0, <2>1, <2>2, <2>3, <2>4, <2>5
<1>2. CASE Hidden \/ CheckOld \/ List \/ Restart \/ ConfMenu \/ ConfNoSymbol \/ ConfKnown \/ ConfEmpty
  <2>1. Calling({"check", "conf"})
    BY <1>2 DEF Hidden, CheckOld, List, Restart, ConfMenu, ConfNoSymbol, ConfKnown, ConfEmpty, Entering, Calling
  <2> QED
    BY <1>1, <1>2, <2>1 DEF Hidden, CheckOld, List, Restart, ConfMenu, ConfNoSymbol, ConfKnown, ConfEmpty
<1>3. CASE (\E v \in {"y", "n"} : ConfSym(v)) \/ (\E t \in Texts : ConfString(t)) \/ (\E e \in Entries : Choose(e))
  <2>1. Calling({"check", "conf"})
    BY <1>3 DEF ConfSym, ConfString, Choose, Entering, Calling
  <2> QED
    BY <1>1, <1>3, <2>1 DEF ConfSym, ConfString, Choose
<1>4. ASSUME \E fn \in {"check", "conf"} : todo' = <<Call(fn, Root)>> PROVE CallsInv'
  <2>1. \A fn \in {"check", "conf"} : Call(fn, Root) \in Calls
    BY TreeAssumption DEF Call, Calls
  <2> QED
    BY <1>4, <2>1 DEF CallsInv, Calls
<1>5. CASE NextPass
  BY <1>4, <1>5 DEF NextPass
<1>6. CASE EndAsking
  BY <1>6 DEF EndAsking, Exit
<1>7. CASE \E m \in {"oldaskconfig", "oldconfig", "syncconfig", "listnewconfig"} : Begin(m)
  BY <1>4, <1>7 DEF Begin
<1>8. CASE UNCHANGED cvars
  BY <1>8 DEF cvars, vars, talk, CallsInv, Calls
<1> QED
  BY <1>2, <1>3, <1>5, <1>6, <1>7, <1>8, RestStep DEF Walk


-----------------------------------------------------------------------------
(* The answers that are left as they were                                  *)

Whole(u) == IsAnswers(u) /\ u = [val |-> u.val, has |-> u.has, pick |-> u.pick]

\* Without the strings that are LeftOver.
Trusted(u, n) == [val |-> u.val, has |-> {s \in u.has : s \in Strings => u.val[s] = n.cur[s]}, pick |-> u.pick]

LEMMA TrustedMarks ==
  ASSUME NEW k \in Kconfigs, NEW u, NEW n, NEW M, M \cap n.vis = {},
         NEW w, w.val = u.val, w.pick = u.pick, w.has = u.has \cup M
  PROVE  /\ Solves(k, u, n) => Solves(k, w, n)
         /\ Solves(k, Trusted(u, n), n) => Solves(k, Trusted(w, n), n)
<1>1. Solves(k, u, n) => Solves(k, w, n)
  <2>1. \A s \in Symbols : ~IsValue(s) /\ s \in n.vis => (s \in w.has <=> s \in u.has)
    OBVIOUS
  <2> QED
    BY <2>1, SameWhereSeen
<1>2. Solves(k, Trusted(u, n), n) => Solves(k, Trusted(w, n), n)
  <2> DEFINE a == Trusted(u, n)
             b == Trusted(w, n)
  <2>1. a.val = b.val /\ a.pick = b.pick
    BY DEF Trusted
  <2>2. \A s \in Symbols : ~IsValue(s) /\ s \in n.vis => (s \in b.has <=> s \in a.has)
    BY DEF Trusted
  <2> HIDE DEF a, b
  <2>3. Solves(k, a, n) => Solves(k, b, n)
    BY <2>1, <2>2, SameWhereSeen
  <2> QED
    BY <2>3 DEF a, b
<1> QED
  BY <1>1, <1>2

LEMMA TrustedBool ==
  ASSUME NEW k \in Kconfigs, NEW u, Whole(u), NEW n, Solves(k, Trusted(u, n), n), NEW s \in Bools
  PROVE  Solves(k, Trusted(Answered(u, s, n.cur[s]), n), n)
<1> DEFINE t == Trusted(u, n)
           v == n.cur[s]
           a == Answered(t, s, v)
           w == Answered(u, s, v)
           b == Trusted(w, n)
           C == IF IsValue(s) /\ v = "y" THEN Members(ChoiceOf[s]) \cap now.vis ELSE {}
<1>1. t.val = u.val /\ t.pick = u.pick /\ t.has = {x \in u.has : x \in Strings => u.val[x] = n.cur[x]}
  BY DEF Trusted
<1>2. IsAnswers(t)
  BY <1>1 DEF Whole, IsAnswers
<1>3. Solves(k, a, n)
  <2> HIDE DEF t
  <2> QED
    BY <1>2, SameBool DEF t
<1>4. /\ a.val = [t.val EXCEPT ![s] = v] /\ a.has = t.has \cup {s} \cup C
      /\ a.pick = IF IsValue(s) /\ v = "y" THEN [t.pick EXCEPT ![ChoiceOf[s]] = s] ELSE t.pick
      /\ w.val = [u.val EXCEPT ![s] = v] /\ w.has = u.has \cup {s} \cup C
      /\ w.pick = IF IsValue(s) /\ v = "y" THEN [u.pick EXCEPT ![ChoiceOf[s]] = s] ELSE u.pick
  BY DEF Answered
<1>5. b.val = w.val /\ b.pick = w.pick /\ b.has = {x \in w.has : x \in Strings => w.val[x] = n.cur[x]}
  BY DEF Trusted
<1>6. \A x \in Strings : x # s /\ x \notin C /\ x \in Symbols
  BY OrderAssumption, MembersAre DEF Symbols, Members
<1> HIDE DEF t, v, a, w, b, C
<1>7. \A x \in Symbols : x \in b.has <=> x \in a.has
  <2> TAKE x \in Symbols
  <2>1. CASE x \in Strings
    <3>1. w.val[x] = u.val[x]
      BY <1>4, <1>6, <2>1 DEF Whole, IsAnswers
    <3> QED
      BY <1>1, <1>4, <1>5, <1>6, <2>1, <3>1
  <2>2. CASE x \notin Strings
    BY <1>1, <1>4, <1>5, <2>2
  <2> QED
    BY <2>1, <2>2
<1>8. b.val = a.val /\ b.pick = a.pick
  BY <1>1, <1>4, <1>5
<1>9. Solves(k, b, n)
  BY <1>3, <1>7, <1>8, SameWhereSeen
<1> QED
  BY <1>9 DEF b, w, v

LEMMA TrustedString ==
  ASSUME NEW k \in Kconfigs, NEW u, Whole(u), NEW n, Solves(k, Trusted(u, n), n), NEW s \in Strings, NEW x, u.val[s] = x
  PROVE  Solves(k, Trusted(Entered(u, s, x), n), n)
<1> DEFINE t == Trusted(u, n)
           a == Entered(t, s, x)
           w == Entered(u, s, x)
           b == Trusted(w, n)
<1>1. t.val = u.val /\ t.pick = u.pick /\ t.has = {y \in u.has : y \in Strings => u.val[y] = n.cur[y]}
  BY DEF Trusted
<1>2. s \in Symbols /\ IsAnswers(t)
  BY <1>1 DEF Whole, IsAnswers, Symbols
<1>3. w.val = u.val /\ w.pick = u.pick /\ w.has = u.has \cup {s}
  BY <1>2 DEF Entered, Whole, IsAnswers
<1>4. b.val = w.val /\ b.pick = w.pick /\ b.has = {y \in w.has : y \in Strings => w.val[y] = n.cur[y]}
  BY DEF Trusted
<1>5. a.val = u.val /\ a.pick = u.pick /\ a.has = t.has \cup {s}
  BY <1>1, <1>2 DEF Entered, Whole, IsAnswers
<1>6. s \in n.vis /\ n.cur[s] = x => Solves(k, a, n)
  <2> HIDE DEF t
  <2> QED
    BY <1>2, SameString DEF t
<1> HIDE DEF t, a, w, b
<1>7. CASE n.cur[s] = x /\ s \in n.vis
  <2>1. \A y \in Symbols : y \in b.has <=> y \in a.has
    BY <1>1, <1>3, <1>4, <1>5, <1>7
  <2> QED
    BY <1>3, <1>4, <1>5, <1>6, <1>7, <2>1, SameWhereSeen DEF b, w
<1>8. CASE n.cur[s] # x \/ s \notin n.vis
  <2>1. \A y \in Symbols : y \in n.vis => (y \in b.has <=> y \in t.has)
    BY <1>1, <1>3, <1>4, <1>8
  <2> QED
    BY <1>1, <1>3, <1>4, <2>1, SameWhereSeen DEF b, w, t
<1> QED
  BY <1>7, <1>8

\* What was just calculated trusts all answers.
LEMMA TrustedAll ==
  ASSUME NEW k \in Kconfigs, NEW u, NEW n, Solves(k, u, n)
  PROVE  Solves(k, Trusted(u, n), n)
<1> DEFINE t == Trusted(u, n)
<1>1. t.val = u.val /\ t.pick = u.pick /\ t.has = {y \in u.has : y \in Strings => u.val[y] = n.cur[y]}
  BY DEF Trusted
<1>2. \A y \in Strings : y \in All /\ y \notin ChoiceSyms
  BY OrderAssumption DEF All, Symbols
<1>3. n.vis = Lit(k, n) /\ \A y \in All : n.cur[y] = Value(k, u, n, y)
  BY DEF Solves
<1>4. \A y \in Strings : y \in n.vis /\ y \in u.has => n.cur[y] = u.val[y]
  BY <1>2, <1>3 DEF Value
<1> HIDE DEF t
<1>5. \A y \in Symbols : y \in n.vis => (y \in t.has <=> y \in u.has)
  BY <1>1, <1>4
<1> QED
  BY <1>1, <1>5, SameWhereSeen DEF t


-----------------------------------------------------------------------------
(* The answers given while it asks                                         *)

AnswersInv ==
    pc = "ask" =>
        /\ Whole(user) /\ Solves(kconfig, Trusted(user, now), now)
        /\ plain => Solves(kconfig, user, now) /\ now = ReadDot.now

LEMMA SeenSame ==
  ASSUME Known, AnswersInv, CallsInv, Calling({"check", "conf"})
  PROVE  /\ Whole(Seen) /\ Seen.val = user.val /\ Seen.pick = user.pick /\ user.has \subseteq Seen.has
         /\ Solves(kconfig, Trusted(Seen, now), now)
         /\ plain => Solves(kconfig, Seen, now)
<1> DEFINE M == Marked(Here, now)
<1>1. M \cap now.vis = {}
  BY NextCall, MarkedHidden
<1>2. Whole(user) /\ pc = "ask"
  BY DEF AnswersInv, Calling
<1>3. Seen = [val |-> user.val, has |-> user.has \cup M, pick |-> user.pick]
  BY <1>2 DEF Seen, Whole
<1>4. Seen.val = user.val /\ Seen.pick = user.pick /\ Seen.has = user.has \cup M
  BY <1>3
<1>5. Whole(Seen)
  BY <1>2, <1>3, <1>4 DEF Whole, IsAnswers
<1> HIDE DEF M
<1> QED
  BY <1>1, <1>2, <1>4, <1>5, TrustedMarks DEF AnswersInv, Known

LEMMA LookedSame ==
  ASSUME Known, AnswersInv, CallsInv, Calling({"check", "conf"})
  PROVE  /\ Whole(Looked) /\ Looked.val = user.val /\ Looked.pick = user.pick /\ user.has \subseteq Looked.has
         /\ Solves(kconfig, Trusted(Looked, now), now)
         /\ plain => Solves(kconfig, Looked, now)
<1> DEFINE M == UNION {Marked(e, now) : e \in ToSet(Children[Here])}
<1>1. M \cap now.vis = {}
  <2>1. \A e \in ToSet(Children[Here]) : e \in Entries
    BY NextCall, ListsFounded DEF Lists
  <2> QED
    BY <2>1, MarkedHidden
<1>2. Whole(Seen) /\ Looked = [val |-> Seen.val, has |-> Seen.has \cup M, pick |-> Seen.pick]
  BY SeenSame DEF Looked, Whole
<1>3. Looked.val = Seen.val /\ Looked.pick = Seen.pick /\ Looked.has = Seen.has \cup M
  BY <1>2
<1>4. Whole(Looked)
  BY <1>2, <1>3 DEF Whole, IsAnswers
<1> HIDE DEF M
<1>5. /\ Solves(kconfig, Trusted(Looked, now), now)
      /\ plain => Solves(kconfig, Looked, now)
  BY <1>1, <1>3, SeenSame, TrustedMarks DEF Known
<1> QED
  BY <1>3, <1>4, <1>5, SeenSame

LEMMA DotStays ==
  ASSUME UNCHANGED <<kconfig, dot>>
  PROVE  ReadDot' = ReadDot
BY DEF ReadDot

\* An answer is taken over, or what comes of it is calculated.
LEMMA AnswerStays ==
  ASSUME Known, UNCHANGED <<kconfig, dot>>, NEW w, NEW new, Clear(w, new), Whole(w),
         ~new => Solves(kconfig, Trusted(w, now), now),
         plain' => Solves(kconfig, w, now) /\ now = ReadDot.now
  PROVE  AnswersInv'
<1>1. user' = w /\ now' = IF new THEN Calculate(kconfig, w) ELSE now
  BY DEF Clear
<1>2. Whole(user)'
  BY <1>1
<1>3. ReadDot' = ReadDot
  BY DotStays
<1>4. Solves(kconfig, Trusted(w, now'), now')
  <2>1. CASE new
    <3> DEFINE n == Calculate(kconfig, w)
    <3>1. Solves(kconfig, w, n)
      BY Calculated DEF Known
    <3> HIDE DEF n
    <3>2. Solves(kconfig, Trusted(w, n), n)
      BY <3>1, TrustedAll DEF Known
    <3> QED
      BY <1>1, <2>1, <3>2 DEF n
  <2>2. CASE ~new
    BY <1>1, <2>2
  <2> QED
    BY <2>1, <2>2
<1>5. plain' => now' = now
  BY <1>1, SolutionIs DEF Known
<1>6. plain' => Solves(kconfig', user', now') /\ now' = ReadDot'.now
  BY <1>1, <1>3, <1>5
<1>7. Solves(kconfig', Trusted(user', now'), now')
  BY <1>1, <1>4
<1> QED
  BY <1>2, <1>6, <1>7 DEF AnswersInv

LEMMA AnswersSeen ==
  ASSUME Known, AnswersInv, CallsInv, Calling({"check", "conf"}), user' = Seen, UNCHANGED <<kconfig, dot, now, plain>>
  PROVE  AnswersInv'
<1>1. Whole(user)' /\ Solves(kconfig', Trusted(user', now'), now')
  BY SeenSame
<1>2. ReadDot' = ReadDot
  BY DotStays
<1>3. plain' => Solves(kconfig', user', now') /\ now' = ReadDot'.now
  BY <1>2, SeenSame DEF AnswersInv, Calling
<1> QED
  BY <1>1, <1>3 DEF AnswersInv

LEMMA AnsweredWhole ==
  ASSUME NEW u, Whole(u), NEW s, NEW v
  PROVE  Whole(Answered(u, s, v)) /\ Whole(Entered(u, s, v))
<1> DEFINE a == Answered(u, s, v)
           b == Entered(u, s, v)
<1>1. /\ a.val = [u.val EXCEPT ![s] = v] /\ a = [val |-> a.val, has |-> a.has, pick |-> a.pick]
      /\ a.pick = IF IsValue(s) /\ v = "y" THEN [u.pick EXCEPT ![ChoiceOf[s]] = s] ELSE u.pick
  BY DEF Answered
<1>2. /\ b.val = [u.val EXCEPT ![s] = v] /\ b = [val |-> b.val, has |-> b.has, pick |-> b.pick] /\ b.pick = u.pick
  BY DEF Entered
<1> HIDE DEF a, b
<1>3. /\ a.val = [t \in Symbols |-> a.val[t]] /\ a.pick = [c \in ChoiceSyms |-> a.pick[c]]
      /\ b.val = [t \in Symbols |-> b.val[t]] /\ b.pick = [c \in ChoiceSyms |-> b.pick[c]]
  BY <1>1, <1>2 DEF Whole, IsAnswers
<1> QED
  BY <1>1, <1>2, <1>3 DEF Whole, IsAnswers, a, b

LEMMA AnswersBool ==
  ASSUME Known, AnswersInv, CallsInv, NEW v \in {"y", "n"}, ConfSym(v)
  PROVE  AnswersInv'
<1> DEFINE w == Answered(Seen, Sym, v)
<1>1. /\ Calling({"check", "conf"}) /\ UNCHANGED <<kconfig, dot>> /\ Sym \in Bools
      /\ Clear(w, v # now.cur[Sym]) /\ plain' = (plain /\ v = now.cur[Sym])
  BY DEF ConfSym, Entering, Calling, Asking, files, Answer, Given
<1>2. Whole(w)
  BY <1>1, SeenSame, AnsweredWhole
<1>3. ASSUME v = now.cur[Sym] PROVE Solves(kconfig, Trusted(w, now), now)
  BY <1>1, <1>3, SeenSame, TrustedBool DEF Known
<1>4. ASSUME plain' PROVE Solves(kconfig, w, now) /\ now = ReadDot.now
  <2>1. plain /\ v = now.cur[Sym]
    BY <1>1, <1>4
  <2>2. Solves(kconfig, Seen, now) /\ now = ReadDot.now
    BY <1>1, <2>1, SeenSame DEF AnswersInv, Calling
  <2> QED
    BY <1>1, <2>1, <2>2, SeenSame, SameBool DEF Known, Whole
<1> HIDE DEF w
<1> QED
  BY <1>1, <1>2, <1>3, <1>4, AnswerStays

LEMMA AnswersString ==
  ASSUME Known, AnswersInv, CallsInv, NEW t \in Texts, ConfString(t)
  PROVE  AnswersInv'
<1> DEFINE w == Entered(Seen, Sym, t)
<1>1. /\ Calling({"check", "conf"}) /\ UNCHANGED <<kconfig, dot>> /\ Sym \in Strings
      /\ Clear(w, Seen.val[Sym] # t) /\ plain' = (plain /\ t = now.cur[Sym])
  BY DEF ConfString, Entering, Calling, Asking, files, Answer, Given
<1>2. Whole(w)
  BY <1>1, SeenSame, AnsweredWhole
<1>3. ASSUME Seen.val[Sym] = t PROVE Solves(kconfig, Trusted(w, now), now)
  BY <1>1, <1>3, SeenSame, TrustedString DEF Known
<1>4. ASSUME plain' PROVE Solves(kconfig, w, now) /\ now = ReadDot.now
  <2>1. plain /\ t = now.cur[Sym]
    BY <1>1, <1>4
  <2>2. Solves(kconfig, Seen, now) /\ now = ReadDot.now
    BY <1>1, <2>1, SeenSame DEF AnswersInv, Calling
  <2> QED
    BY <1>1, <2>1, <2>2, SeenSame, SameString DEF Known, Whole
<1> HIDE DEF w
<1> QED
  BY <1>1, <1>2, <1>3, <1>4, AnswerStays

LEMMA ChoiceIsYes ==
  ASSUME NEW e, Kind[e] = "choice", NEW n
  PROVE  IsYes(e, n) <=> n.cur[SymOf[e]] # None
BY DEF IsYes

\* What conf_choice may choose; what it takes without asking is what it is.
LEMMA ChooseIs ==
  ASSUME Known, AnswersInv, CallsInv, NEW e \in Entries, Choose(e)
  PROVE  /\ Sym \in ChoiceSyms /\ SymOf[e] \in Members(Sym)
         /\ Accepts(SymOf[e], "y")
         /\ ~AsksChoice => SymOf[e] = now.cur[Sym]
         /\ SymOf[e] = now.cur[Sym] => now.cur[SymOf[e]] = "y"
<1> DEFINE s == SymOf[e]
           c == Sym
           lit == VisibleMembers(kconfig, c, now.cur)
           w == Trusted(user, now)
<1>1. /\ Calling({"check", "conf"}) /\ c \in ChoiceSyms /\ IsYes(Here, now) /\ e \in Offered /\ (AsksChoice \/ Taken(e))
      /\ pc = "ask" /\ kconfig \in Kconfigs
  BY DEF Choose, Entering, Calling, Known
<1>2. Here \in Entries /\ Kind[Here] = "choice" /\ SymOf[Here] = c
  BY <1>1, NextCall, ChoiceAssumption DEF Sym
<1>3. Solves(kconfig, w, now)
  BY <1>1 DEF AnswersInv
<1> HIDE DEF w
<1>4. /\ e \in ToSet(Children[Here]) /\ s # Nobody /\ Visible(e, now)
  BY <1>1 DEF Offered
<1>5. s \in Members(c)
  BY <1>2, <1>4, ChoiceAssumption
<1>6. IsValue(s) /\ ChoiceOf[s] = c /\ s \in Bools /\ s \in Symbols /\ s \notin ChoiceSyms
  BY <1>5, MembersAre, OrderAssumption DEF Symbols, Members, IsValue
<1>7. s \notin now.sel /\ now.cur[s] = (IF s \in now.vis /\ now.cur[c] = s THEN "y" ELSE "n")
  BY <1>1, <1>3, <1>6, ValueIs
<1>8. now.cur[c] \in lit
  <2>1. IsYes(Here, now) <=> now.cur[SymOf[Here]] # None
    BY <1>2, ChoiceIsYes
  <2>2. now.cur[c] # None
    BY <1>1, <1>2, <2>1
  <2> QED
    BY <1>1, <1>3, <2>2, ChoiceIs
<1>9. s \in now.vis \/ now.cur[s] = "y"
  <2>1. PromptVisible(e, now) \/ IsYes(e, now)
    BY <1>4, VisibleIs
  <2>2. Kind[e] # "choice"
    BY <1>6, ChoiceAssumption
  <2> QED
    BY <1>4, <1>6, <2>1, <2>2 DEF PromptVisible, IsYes
<1>10. Accepts(s, "y")
  BY <1>6, <1>7, <1>9 DEF Accepts, Changable
<1>11. ASSUME OnlyOne PROVE s = now.cur[c]
  <2> DEFINE m == now.cur[c]
  <2>1. m \in Members(c) /\ m \in Symbols /\ IsValue(m) /\ ChoiceOf[m] = c /\ m \notin ChoiceSyms
    BY <1>1, <1>3, <1>8, ChoiceIs, OrderAssumption DEF VisibleMembers, Symbols
  <2>2. m \in now.vis
    BY <1>1, <1>3, <1>8, <2>1, ValueIs
  <2>3. PICK x \in ToSet(Children[Here]) : SymOf[x] = m /\ SymOf[x] # Nobody /\ x \in Prompted /\ VisibleIf[x] = {{}}
    BY <1>2, <2>1, ChoiceAssumption
  <2>4. x \in Entries /\ Kind[x] # "choice"
    <3>1. x \in Entries
      BY <1>2, <2>3, ListsFounded DEF Lists
    <3> QED
      BY <2>1, <2>3, <3>1, ChoiceAssumption
  <2>5. PromptVisible(x, now)
    BY <2>1, <2>2, <2>3 DEF PromptVisible
  <2>6. Holds(VisibleIf[x], now.cur)
    BY <2>3 DEF Holds
  <2>7. x \in Offered
    BY <2>3, <2>4, <2>5, <2>6, VisibleIs DEF Offered
  <2>8. x = e
    BY <1>1, <1>11, <2>7 DEF OnlyOne
  <2> QED
    BY <2>3, <2>8
<1>12. ~AsksChoice => s = now.cur[c]
  BY <1>1, <1>11 DEF Taken
<1>13. s = now.cur[c] => s \in now.vis
  BY <1>1, <1>3, <1>6, <1>8, ValueIs
<1> QED
  BY <1>1, <1>5, <1>7, <1>10, <1>12, <1>13

LEMMA AnswersChoice ==
  ASSUME Known, AnswersInv, CallsInv, NEW e \in Entries, Choose(e)
  PROVE  AnswersInv'
<1> DEFINE s == SymOf[e]
           w == Answered(Looked, s, "y")
<1>1. /\ Calling({"check", "conf"}) /\ UNCHANGED <<kconfig, dot>>
      /\ Clear(w, now.cur[s] # "y")
  BY ChooseIs DEF Choose, Entering, Calling, Asking, files, Answer
<1>2. s \in Bools
  BY ChooseIs, MembersAre
<1>3. Whole(w)
  BY <1>1, LookedSame, AnsweredWhole
<1>4. ASSUME now.cur[s] = "y" PROVE Solves(kconfig, Trusted(w, now), now)
  BY <1>1, <1>2, <1>4, LookedSame, TrustedBool DEF Known
<1>5. ASSUME plain' PROVE Solves(kconfig, w, now) /\ now = ReadDot.now
  <2>1. plain /\ s = now.cur[Sym]
    <3>1. CASE AsksChoice
      BY <1>5, <3>1 DEF Choose, Given
    <3>2. CASE ~AsksChoice
      BY <1>5, <3>2, ChooseIs DEF Choose
    <3> QED
      BY <3>1, <3>2
  <2>2. now.cur[s] = "y"
    BY <2>1, ChooseIs
  <2>3. Solves(kconfig, Looked, now) /\ now = ReadDot.now
    BY <1>1, <2>1, LookedSame DEF AnswersInv, Calling
  <2> QED
    BY <1>1, <1>2, <2>2, <2>3, LookedSame, SameBool DEF Known, Whole
<1> HIDE DEF w
<1> QED
  BY <1>1, <1>3, <1>4, <1>5, AnswerStays

\* What is read is the solution of what it was read as.
LEMMA AnswersRead ==
  ASSUME Known, NEW m, Begin(m)
  PROVE  AnswersInv'
<1> DEFINE r == ReadDot
<1>1. user' = r.user /\ now' = r.now /\ UNCHANGED <<kconfig, dot>>
  BY DEF Begin, Load, files
<1>2. Solves(kconfig, r.user, r.now) /\ Whole(r.user)
  <2>1. r.user = [val |-> r.user.val, has |-> r.user.has, pick |-> r.user.pick]
    <3>1. CASE dot = Missing
      BY <3>1 DEF ReadDot, Blank
    <3>2. CASE dot # Missing
      <4> DEFINE u == UserOf(dot)
                 w == [u EXCEPT !.has = {s \in @ : IsValue(s) \/ s \in Calculate(kconfig, u).vis}]
      <4>1. u = [val |-> u.val, has |-> u.has, pick |-> u.pick]
        BY DEF UserOf
      <4>2. r.user = u \/ r.user = w
        BY <3>2 DEF ReadDot, Read
      <4> HIDE DEF u
      <4>3. w = [val |-> w.val, has |-> w.has, pick |-> w.pick]
        BY <4>1
      <4> HIDE DEF w
      <4> QED
        BY <4>1, <4>2, <4>3
    <3> QED
      BY <3>1, <3>2
  <2> QED
    BY <2>1, DotFresh DEF Known, Whole
<1>3. ReadDot' = r
  BY <1>1, DotStays
<1> HIDE DEF r
<1>4. Solves(kconfig', Trusted(user', now'), now')
  BY <1>1, <1>2, TrustedAll DEF Known
<1>5. Whole(user)' /\ Solves(kconfig', user', now') /\ now' = ReadDot'.now
  BY <1>1, <1>2, <1>3
<1> QED
  BY <1>4, <1>5 DEF AnswersInv

LEMMA KnownStep == Known /\ [CNext]_cvars => Known'
<1> SUFFICES ASSUME Known, [CNext]_cvars PROVE Known'
  OBVIOUS
<1>1. CASE Walk
  <2>1. CASE Hidden \/ CheckOld \/ List \/ Restart \/ ConfMenu \/ NextPass \/ EndAsking
    BY <2>1 DEF Hidden, CheckOld, List, Restart, ConfMenu, NextPass, EndAsking, Asking, Known, vars
  <2>2. CASE \/ ConfNoSymbol \/ ConfKnown \/ ConfEmpty \/ (\E v \in {"y", "n"} : ConfSym(v))
             \/ (\E t \in Texts : ConfString(t)) \/ (\E e \in Entries : Choose(e))
    BY <2>2 DEF ConfNoSymbol, ConfKnown, ConfEmpty, ConfSym, ConfString, Choose, Entering, Asking, Known
  <2> QED
    BY <1>1, <2>1, <2>2 DEF Walk
<1>2. CASE NewTree
  BY <1>2 DEF NewTree, Upgrade, Known
<1>3. CASE \/ (\E m \in {"oldaskconfig", "oldconfig", "syncconfig", "listnewconfig"} : Begin(m)) \/ NewDefaults
           \/ (\E m \in {"allyesconfig", "allnoconfig", "alldefconfig"}, seed \in Seeds : AllConfig(m, seed))
  BY <1>3 DEF Begin, NewDefaults, OldDefconfig, AllConfig, Load, Known
<1>4. CASE Save \/ SaveOld \/ SaveNew \/ SaveFails \/ Killed
  BY <1>4 DEF Save, Write, SaveOld, MoveOld, SaveNew, Replace, SaveFails, MoveNewFails, Killed, Kill, Known
<1>5. CASE Touch \/ EndSplit \/ MoveHeader \/ MoveAuto \/ EditDot \/ Build \/ UNCHANGED cvars
  BY <1>5 DEF Touch, EndSplit, MoveHeader, MoveAuto, EditDot, Build, Known, vars, cvars
<1> QED
  BY <1>1, <1>2, <1>3, <1>4, <1>5 DEF CNext

LEMMA AnswersStep == Known /\ CallsInv /\ AnswersInv /\ [CNext]_cvars => AnswersInv'
<1> SUFFICES ASSUME Known, CallsInv, AnswersInv, [CNext]_cvars PROVE AnswersInv'
  OBVIOUS
<1>1. CASE Hidden \/ CheckOld \/ List \/ Restart \/ ConfMenu \/ ConfNoSymbol \/ ConfKnown \/ ConfEmpty
  <2>1. Calling({"check", "conf"}) /\ user' = Seen /\ UNCHANGED <<kconfig, dot, now, plain>>
    BY <1>1 DEF Hidden, CheckOld, List, Restart, ConfMenu, ConfNoSymbol, ConfKnown, ConfEmpty, Entering, Calling, Asking,
                NothingNew, files
  <2> QED
    BY <2>1, AnswersSeen
<1>2. CASE NextPass \/ UNCHANGED cvars
  <2>1. UNCHANGED <<kconfig, dot, pc, user, now, plain>>
    BY <1>2 DEF NextPass, cvars, vars, files, talk
  <2>2. ReadDot' = ReadDot
    BY <2>1, DotStays
  <2> QED
    BY <2>1, <2>2 DEF AnswersInv, Trusted, Whole, IsAnswers
<1>3. CASE EndAsking
  BY <1>3 DEF EndAsking, Exit, AnswersInv
<1>4. CASE \E m \in {"oldaskconfig", "oldconfig", "syncconfig", "listnewconfig"} : Begin(m)
  BY <1>4, AnswersRead
<1>5. CASE ~Walk /\ ~(\E m \in {"oldaskconfig", "oldconfig", "syncconfig", "listnewconfig"} : Begin(m)) /\ ~UNCHANGED cvars
  BY <1>5, RestStep DEF AnswersInv
<1> QED
  BY <1>1, <1>2, <1>3, <1>4, <1>5, AnswersBool, AnswersString, AnswersChoice DEF Walk

\* While it asks, the values are those that the answers come to, but for the
\* strings that were left over, and with nothing but <Enter> those that were read.
LEMMA AnswersHold == CSpec => [](Known /\ CallsInv /\ AnswersInv)
<1>1. CInit => Known /\ CallsInv /\ AnswersInv
  BY DEF CInit, Init, Known, CallsInv, AnswersInv
<1>2. Known /\ CallsInv /\ AnswersInv /\ [CNext]_cvars => (Known /\ CallsInv /\ AnswersInv)'
  BY KnownStep, CallsStep, AnswersStep
<1> QED
  BY <1>1, <1>2, PTL DEF CSpec

\* Whoever answers all questions with <Enter> has what olddefconfig would have
\* made, whatever tree of menus the questions are asked along.
THEOREM EnterChangesNothing == CSpec => []EnterIsDefault
<1>1. AnswersInv => EnterIsDefault
  BY DEF AnswersInv, EnterIsDefault, Finished
<1> QED
  BY <1>1, AnswersHold, PTL

-----------------------------------------------------------------------------
(* What the files hold                                                     *)

\* Lines have a symbol and a value, and bools no value but y and n.
Proper(lines) ==
    /\ Len(lines) \in Nat /\ DOMAIN lines = 1 .. Len(lines)
    /\ \A i \in DOMAIN lines : /\ lines[i] = <<lines[i][1], lines[i][2]>>
                               /\ lines[i][1] \in Bools => lines[i][2] \in {"y", "n"}
ProperValues(n) == \A s \in Bools : n.cur[s] \in {"y", "n"}

FilesInv ==
    /\ dot # Missing => Proper(dot)
    /\ pc \in {"written", "moved"} => Proper(out)
    /\ ProperValues(now)

LEMMA LatestOf ==
  ASSUME NEW n \in Nat, NEW S \in SUBSET (1 .. n), S # {}
  PROVE  Max(S) \in S
<1> DEFINE T == {n - i : i \in S}
<1>1. T \in SUBSET Nat /\ T # {}
  <2>1. \A i \in S : n - i \in Nat
    OBVIOUS
  <2> QED
    BY <2>1
<1> HIDE DEF T
<1>2. PICK t \in T : \A x \in T : t <= x
  BY <1>1, LeastOf
<1>3. PICK i \in S : t = n - i
  BY <1>2 DEF T
<1>4. \A j \in S : n - i <= n - j
  BY <1>2, <1>3 DEF T
<1>5. \A j \in S : i >= j
  BY <1>4
<1> QED
  BY <1>5 DEF Max

LEMMA LinesProper ==
  ASSUME NEW n, ProperValues(n), NEW S \in SUBSET All
  PROVE  Proper(Lines(n, S))
<1> DEFINE L == Lines(n, S)
           T == {<<x, n.cur[x]>> : x \in S}
<1>1. L \in Seq(T)
  BY LinesAre DEF ListOf
<1> HIDE DEF L, T
<1>2. ASSUME NEW i \in DOMAIN L PROVE \E x \in S : L[i] = <<x, n.cur[x]>>
  <2>1. L[i] \in T
    BY <1>1
  <2> QED
    BY <2>1 DEF T
<1>3. Len(L) \in Nat /\ DOMAIN L = 1 .. Len(L)
  BY <1>1
<1>4. Proper(L)
  BY <1>2, <1>3 DEF Proper, ProperValues
<1> QED
  BY <1>4 DEF L

LEMMA SolutionProper ==
  ASSUME NEW k \in Kconfigs, NEW u, NEW n, Solves(k, u, n)
  PROVE  ProperValues(n)
<1> SUFFICES ASSUME NEW s \in Bools PROVE n.cur[s] \in {"y", "n"}
  BY DEF ProperValues
<1>1. s \in All /\ s \notin ChoiceSyms /\ s \notin Strings
  BY OrderAssumption DEF All, Symbols
<1>2. n.cur[s] = Value(k, u, n, s)
  BY <1>1 DEF Solves
<1> QED
  BY <1>1, <1>2 DEF Value

LEMMA CalculatedProper ==
  ASSUME NEW k \in Kconfigs, NEW u
  PROVE  ProperValues(Calculate(k, u))
BY Calculated, SolutionProper

LEMMA DotProper ==
  ASSUME NEW d \in Defconfigs
  PROVE  Proper(d) /\ d # Missing
<1>1. Proper(d)
  BY FileAssumption DEF Proper
<1>2. ASSUME d = Missing PROVE FALSE
  <2>1. DOMAIN Missing = {1} /\ Missing[1] = <<"missing">>
    BY DEF Missing
  <2>2. <<"missing">> = <<d[1][1], d[1][2]>>
    BY <1>1, <1>2, <2>1 DEF Proper
  <2>3. Len(<<"missing">>) = 1 /\ Len(<<d[1][1], d[1][2]>>) = 2
    OBVIOUS
  <2> QED
    BY <2>2, <2>3
<1> QED
  BY <1>1, <1>2

LEMMA BlankProper == ProperValues(NotCalculated)
BY OrderAssumption DEF ProperValues, NotCalculated, Symbols

LEMMA FilesStep == Known /\ AnswersInv /\ FilesInv /\ [CNext]_cvars => FilesInv'
<1> SUFFICES ASSUME Known, AnswersInv, FilesInv, [CNext]_cvars PROVE FilesInv'
  OBVIOUS
<1>1. CASE UNCHANGED <<dot, now>> /\ pc' \notin {"written", "moved"}
  BY <1>1 DEF FilesInv, ProperValues
<1>2. ASSUME NEW u, now' \in {now, Calculate(kconfig, u)}, UNCHANGED dot, pc' \notin {"written", "moved"}
      PROVE  FilesInv'
  <2>1. ProperValues(now')
    BY <1>2, CalculatedProper DEF FilesInv, Known
  <2> QED
    BY <1>2, <2>1 DEF FilesInv, ProperValues
<1>3. ASSUME Exit, dot' = dot PROVE FilesInv'
  <2>1. now' = NotCalculated /\ pc' = "idle"
    BY <1>3 DEF Exit
  <2>2. ProperValues(now')
    BY <2>1, BlankProper
  <2> QED
    BY <1>3, <2>1, <2>2 DEF FilesInv, ProperValues
<1>4. CASE Hidden \/ CheckOld \/ List \/ Restart \/ ConfMenu \/ ConfNoSymbol \/ ConfKnown \/ ConfEmpty
  <2>1. UNCHANGED <<dot, now, pc>> /\ pc = "ask"
    BY <1>4 DEF Hidden, CheckOld, List, Restart, ConfMenu, ConfNoSymbol, ConfKnown, ConfEmpty, Entering, Calling, Asking,
                NothingNew, files
  <2> QED
    BY <1>1, <2>1
<1>5. CASE (\E v \in {"y", "n"} : ConfSym(v)) \/ (\E t \in Texts : ConfString(t)) \/ (\E e \in Entries : Choose(e))
  <2>1. UNCHANGED <<dot, pc, kconfig>> /\ pc = "ask"
    BY <1>5 DEF ConfSym, ConfString, Choose, Entering, Calling, Asking, files
  <2>2. \E u : now' \in {now, Calculate(kconfig, u)}
    BY <1>5 DEF ConfSym, ConfString, Choose, Answer, Clear
  <2> QED
    BY <1>2, <2>1, <2>2
<1>6. CASE NextPass
  BY <1>1, <1>6 DEF NextPass, vars, files
<1>7. CASE EndAsking
  BY <1>1, <1>3, <1>7 DEF EndAsking, files
<1>8. ASSUME NEW r, NEW p, NEW next, Load(r, p, next), ProperValues(r.now), next \notin {"written", "moved"} PROVE FilesInv'
  <2>1. now' = r.now /\ dot' = dot /\ pc' = next
    BY <1>8 DEF Load, files
  <2> QED
    BY <1>8, <2>1 DEF FilesInv, ProperValues
<1>9. CASE (\E m \in {"oldaskconfig", "oldconfig", "syncconfig", "listnewconfig"} : Begin(m)) \/ NewDefaults
  <2>1. ProperValues(ReadDot.now)
    BY DotFresh, SolutionProper DEF Known
  <2> QED
    BY <1>8, <1>9, <2>1 DEF Begin, NewDefaults, OldDefconfig
<1>10. ASSUME NEW m \in {"allyesconfig", "allnoconfig", "alldefconfig"}, NEW seed \in Seeds, AllConfig(m, seed) PROVE FilesInv'
  <2> DEFINE u == AllOf(IF seed = Missing THEN Blank ELSE UserOf(seed), m)
             r == [user |-> u, now |-> Calculate(kconfig, u), changed |-> TRUE]
  <2>1. Load(r, "conf", "write")
    BY <1>10 DEF AllConfig
  <2> HIDE DEF u
  <2>2. ProperValues(r.now)
    BY CalculatedProper DEF Known
  <2> HIDE DEF r
  <2> QED
    BY <1>8, <2>1, <2>2
<1>11. CASE Save
  <2> DEFINE w == ToWrite
  <2>1. dot' = dot /\ pc' = "written" /\ out' = Lines(w, Written(w)) /\ now' = [w EXCEPT !.wr = {}]
    BY <1>11 DEF Save, Write, files
  <2>2. ProperValues(w)
    BY CalculatedProper DEF ToWrite, FilesInv, Known
  <2> HIDE DEF w
  <2>3. Written(w) \in SUBSET All
    BY DEF Written, All
  <2>4. Proper(out')
    BY <2>1, <2>2, <2>3, LinesProper
  <2>5. ProperValues(now')
    BY <2>1, <2>2 DEF ProperValues
  <2> QED
    BY <2>1, <2>4, <2>5 DEF FilesInv, Proper, ProperValues
<1>12. CASE SaveOld
  BY <1>12 DEF SaveOld, MoveOld, FilesInv, Proper, ProperValues
<1>13. CASE SaveNew
  <2>1. dot' = out /\ pc = "moved" /\ pc' \in {"idle", "split"} /\ now' \in {now, NotCalculated}
    BY <1>13 DEF SaveNew, Replace, GoOn, Exit
  <2>2. ProperValues(now')
    BY <2>1, BlankProper DEF FilesInv
  <2>3. Proper(dot')
    BY <2>1 DEF FilesInv
  <2> QED
    BY <2>1, <2>2, <2>3 DEF FilesInv, Proper, ProperValues
<1>14. CASE SaveFails \/ Killed
  <2>1. (MoveNewFails \/ Kill) /\ dot' = dot
    BY <1>14 DEF SaveFails, MoveNewFails, Killed, Kill, files
  <2>2. Exit \/ (pc' = "edit" /\ now' = now)
    BY <2>1 DEF MoveNewFails, Kill
  <2> QED
    BY <1>1, <1>3, <2>1, <2>2
<1>15. CASE Touch \/ NewTree \/ Build \/ UNCHANGED cvars
  <2>1. UNCHANGED <<dot, now, pc, out>>
    BY <1>15 DEF Touch, NewTree, Upgrade, Build, vars, cvars, files
  <2> QED
    BY <2>1 DEF FilesInv, Proper, ProperValues
<1>16. CASE EndSplit
  <2>1. now' = Calculate(kconfig, user) /\ dot' = dot /\ pc' = "header"
    BY <1>16 DEF EndSplit, files
  <2> QED
    BY <1>2, <2>1
<1>17. CASE MoveHeader \/ MoveAuto
  <2>1. dot' = dot /\ (Exit \/ (pc' = "auto" /\ now' = now))
    BY <1>17 DEF MoveHeader, MoveAuto, files
  <2> QED
    BY <1>1, <1>3, <2>1
<1>18. CASE EditDot
  <2>1. dot' \in Defconfigs /\ UNCHANGED <<pc, now>> /\ pc = "idle"
    BY <1>18 DEF EditDot
  <2>2. Proper(dot')
    BY <2>1, DotProper
  <2> QED
    BY <2>1, <2>2 DEF FilesInv, Proper, ProperValues
<1> QED
  BY <1>4, <1>5, <1>6, <1>7, <1>9, <1>10, <1>11, <1>12, <1>13, <1>14, <1>15, <1>16, <1>17, <1>18 DEF CNext, Walk

\* What is read of a proper file, or of none.
LEMMA ReadProper ==
  ASSUME FilesInv
  PROVE  /\ \A s \in ReadDot.user.has \cap Bools : ReadDot.user.val[s] \in {"y", "n"}
         /\ \A c \in ChoiceSyms : ReadDot.user.pick[c] \in Members(c) \cup {None}
<1>1. CASE dot = Missing
  <2>1. ReadDot.user.has = {} /\ ReadDot.user.pick = [c \in ChoiceSyms |-> None]
    BY <1>1 DEF ReadDot, Blank
  <2> QED
    BY <2>1
<1>2. CASE dot # Missing
  <2> DEFINE u == UserOf(dot)
             w == [u EXCEPT !.has = {s \in @ : IsValue(s) \/ s \in Calculate(kconfig, u).vis}]
             of(s) == {i \in DOMAIN dot : dot[i][1] = s}
             picks(c) == {i \in DOMAIN dot : /\ IsValue(dot[i][1]) /\ ChoiceOf[dot[i][1]] = c
                                             /\ dot[i][2] = "y"}
  <2>1. /\ u = [val |-> u.val, has |-> u.has, pick |-> u.pick]
        /\ u.val = [s \in Symbols |-> IF of(s) = {} THEN Blank.val[s] ELSE dot[Max(of(s))][2]]
        /\ u.has = {s \in Symbols : of(s) # {}}
        /\ u.pick = [c \in ChoiceSyms |-> IF picks(c) = {} THEN None ELSE dot[Max(picks(c))][1]]
    BY DEF UserOf
  <2>2. ReadDot.user = u \/ ReadDot.user = w
    BY <1>2 DEF ReadDot, Read
  <2> HIDE DEF u
  <2>3. w.val = u.val /\ w.pick = u.pick /\ w.has \subseteq u.has
    BY <2>1
  <2> HIDE DEF w
  <2>4. ReadDot.user.val = u.val /\ ReadDot.user.pick = u.pick /\ ReadDot.user.has \subseteq u.has
    BY <2>2, <2>3
  <2>5. Proper(dot)
    BY <1>2 DEF FilesInv
  <2>6. ASSUME NEW s \in u.has \cap Bools PROVE u.val[s] \in {"y", "n"}
    <3>1. of(s) # {} /\ s \in Symbols /\ u.val[s] = dot[Max(of(s))][2]
      BY <2>1, <2>6
    <3>2. Max(of(s)) \in of(s)
      <4>1. of(s) \in SUBSET (1 .. Len(dot)) /\ Len(dot) \in Nat
        BY <2>5 DEF Proper
      <4> HIDE DEF of
      <4> QED
        BY <3>1, <4>1, LatestOf
    <3> QED
      BY <2>5, <2>6, <3>1, <3>2 DEF Proper
  <2>7. ASSUME NEW c \in ChoiceSyms PROVE u.pick[c] \in Members(c) \cup {None}
    <3>1. u.pick[c] = IF picks(c) = {} THEN None ELSE dot[Max(picks(c))][1]
      BY <2>1
    <3>2. CASE picks(c) # {}
      <4>1. picks(c) \in SUBSET (1 .. Len(dot)) /\ Len(dot) \in Nat
        BY <2>5 DEF Proper
      <4>2. Max(picks(c)) \in picks(c)
        <5> HIDE DEF picks
        <5> QED
          BY <3>2, <4>1, LatestOf
      <4> QED
        BY <3>1, <3>2, <4>2 DEF Members, IsValue
    <3>3. CASE picks(c) = {}
      BY <3>1, <3>3
    <3> QED
      BY <3>2, <3>3
  <2> QED
    BY <2>4, <2>6, <2>7
<1> QED
  BY <1>1, <1>2

-----------------------------------------------------------------------------
(* The answers that the user gave                                          *)

\* The answers u are those of r, but for what was asked since.
Kept(r, u, g) ==
    /\ g = [x \in All |-> g[x]]
    /\ \A s \in Symbols : ~IsValue(s) =>
          IF g[s] = NotAsked THEN u.val[s] = r.val[s] /\ (s \in r.has => s \in u.has)
          ELSE s \in u.has /\ u.val[s] = g[s] /\ (s \in Bools => g[s] \in {"y", "n"})
    /\ \A c \in ChoiceSyms : /\ g[c] \in Members(c) \cup {NotAsked}
                             /\ u.pick[c] = IF g[c] = NotAsked THEN r.pick[c] ELSE g[c]

KeptInv ==
    /\ pc = "idle" => given = NobodyAsked
    /\ pc = "ask" => Kept(ReadDot.user, user, given)

LEMMA KeptAtFirst ==
  ASSUME NEW r
  PROVE  Kept(r, r, NobodyAsked)
<1>1. NobodyAsked = [x \in All |-> NotAsked]
  BY DEF NobodyAsked, All
<1>2. \A x \in All : NobodyAsked[x] = NotAsked
  BY <1>1
<1>3. NobodyAsked = [x \in All |-> NobodyAsked[x]]
  BY <1>1
<1> QED
  BY <1>2, <1>3 DEF Kept, All

LEMMA KeptMore ==
  ASSUME NEW r, NEW u, NEW g, Kept(r, u, g), NEW w, w.val = u.val, w.pick = u.pick, u.has \subseteq w.has
  PROVE  Kept(r, w, g)
BY DEF Kept

\* ... with the answer v to the bool s, whatever the answers to its choice,
LEMMA KeptBool ==
  ASSUME NEW r, NEW u, Whole(u), NEW g, Kept(r, u, g), NEW s \in Bools, NEW v \in {"y", "n"}, NEW h,
         h = IF IsValue(s) /\ v = "y" THEN [g EXCEPT ![s] = v, ![ChoiceOf[s]] = s] ELSE [g EXCEPT ![s] = v]
  PROVE  Kept(r, Answered(u, s, v), h)
<1> DEFINE w == Answered(u, s, v)
           c == ChoiceOf[s]
<1>0. s \in Symbols /\ s \in All /\ s \notin ChoiceSyms /\ s # NotAsked /\ v # NotAsked
  BY OrderAssumption, AskAssumption DEF All, Symbols
<1>1. /\ w.val = [u.val EXCEPT ![s] = v] /\ s \in w.has /\ u.has \subseteq w.has
      /\ w.pick = IF IsValue(s) /\ v = "y" THEN [u.pick EXCEPT ![c] = s] ELSE u.pick
  BY DEF Answered
<1>2. IsValue(s) => c \in ChoiceSyms /\ c \in All /\ c # s /\ s \in Members(c)
  BY <1>0, Sorts DEF All, Members, IsValue
<1>3. /\ \A t \in Symbols : w.val[t] = IF t = s THEN v ELSE u.val[t]
      /\ \A d \in ChoiceSyms : w.pick[d] = IF IsValue(s) /\ v = "y" /\ d = c THEN s ELSE u.pick[d]
  BY <1>0, <1>1, <1>2 DEF Whole, IsAnswers
<1>4. g = [x \in All |-> g[x]]
  BY DEF Kept
<1>5. /\ \A x \in All : h[x] = IF IsValue(s) /\ v = "y" /\ x = c THEN s ELSE IF x = s THEN v ELSE g[x]
      /\ h = [x \in All |-> h[x]]
  <2> DEFINE a == [g EXCEPT ![s] = v]
             b == [a EXCEPT ![c] = s]
  <2>1. \A x \in All : a[x] = IF x = s THEN v ELSE g[x]
    BY <1>0, <1>4
  <2>2. a = [x \in All |-> a[x]]
    BY <1>0, <1>4
  <2>3. h = IF IsValue(s) /\ v = "y" THEN b ELSE a
    OBVIOUS
  <2> HIDE DEF a
  <2>4. /\ \A x \in All : b[x] = IF x = c THEN s ELSE a[x]
        /\ b = [x \in All |-> b[x]]
    BY <2>2
  <2> HIDE DEF b
  <2> QED
    BY <2>1, <2>2, <2>3, <2>4
<1> HIDE DEF w, c
<1>6. \A t \in Symbols : t \in All /\ t \notin ChoiceSyms
  BY OrderAssumption DEF All
<1>7. ASSUME NEW t \in Symbols, ~IsValue(t)
      PROVE  IF h[t] = NotAsked THEN w.val[t] = r.val[t] /\ (t \in r.has => t \in w.has)
             ELSE t \in w.has /\ w.val[t] = h[t] /\ (t \in Bools => h[t] \in {"y", "n"})
  <2>1. h[t] = IF t = s THEN v ELSE g[t]
    BY <1>2, <1>5, <1>6
  <2>2. CASE t = s
    BY <1>0, <1>1, <1>3, <2>1, <2>2
  <2>3. CASE t # s
    BY <1>1, <1>3, <1>7, <2>1, <2>3 DEF Kept
  <2> QED
    BY <2>2, <2>3
<1>8. ASSUME NEW d \in ChoiceSyms
      PROVE  h[d] \in Members(d) \cup {NotAsked} /\ w.pick[d] = IF h[d] = NotAsked THEN r.pick[d] ELSE h[d]
  <2>1. d \in All /\ d # s
    BY <1>0 DEF All
  <2>2. CASE IsValue(s) /\ v = "y" /\ d = c
    BY <1>0, <1>2, <1>3, <1>5, <2>1, <2>2
  <2>3. CASE ~(IsValue(s) /\ v = "y" /\ d = c)
    <3>1. h[d] = g[d] /\ w.pick[d] = u.pick[d]
      BY <1>3, <1>5, <2>1, <2>3
    <3> QED
      BY <3>1 DEF Kept
  <2> QED
    BY <2>2, <2>3
<1>9. Kept(r, w, h)
  BY <1>5, <1>7, <1>8 DEF Kept
<1> QED
  BY <1>9 DEF w

\* ... with the answer t to the string s,
LEMMA KeptString ==
  ASSUME NEW r, NEW u, Whole(u), NEW g, Kept(r, u, g), NEW s \in Strings, NEW t \in Texts
  PROVE  Kept(r, Entered(u, s, t), [g EXCEPT ![s] = t])
<1> DEFINE w == Entered(u, s, t)
           h == [g EXCEPT ![s] = t]
<1>0. s \in Symbols /\ s \in All /\ s \notin ChoiceSyms /\ s \notin Bools /\ t # NotAsked
  BY OrderAssumption, AskAssumption DEF All, Symbols
<1>1. w.val = [u.val EXCEPT ![s] = t] /\ w.has = u.has \cup {s} /\ w.pick = u.pick
  BY DEF Entered
<1>2. \A x \in Symbols : w.val[x] = IF x = s THEN t ELSE u.val[x]
  BY <1>0, <1>1 DEF Whole, IsAnswers
<1>3. g = [x \in All |-> g[x]]
  BY DEF Kept
<1>4. (\A x \in All : h[x] = IF x = s THEN t ELSE g[x]) /\ h = [x \in All |-> h[x]]
  BY <1>0, <1>3
<1> HIDE DEF w, h
<1>5. \A x \in Symbols : x \in All /\ x \notin ChoiceSyms
  BY OrderAssumption DEF All
<1>6. \A x \in ChoiceSyms : h[x] = g[x]
  BY <1>0, <1>4 DEF All
<1>7. ASSUME NEW x \in Symbols, ~IsValue(x)
      PROVE  IF h[x] = NotAsked THEN w.val[x] = r.val[x] /\ (x \in r.has => x \in w.has)
             ELSE x \in w.has /\ w.val[x] = h[x] /\ (x \in Bools => h[x] \in {"y", "n"})
  <2>1. CASE x = s
    BY <1>0, <1>1, <1>2, <1>4, <1>5, <2>1
  <2>2. CASE x # s
    BY <1>1, <1>2, <1>4, <1>5, <1>7, <2>2 DEF Kept
  <2> QED
    BY <2>1, <2>2
<1>8. Kept(r, w, h)
  BY <1>1, <1>4, <1>6, <1>7 DEF Kept
<1> QED
  BY <1>8 DEF w, h

\* ... with the value s for its choice, asked for or not.
LEMMA KeptChoice ==
  ASSUME NEW r, NEW u, Whole(u), NEW g, Kept(r, u, g), NEW s \in Symbols, IsValue(s), NEW h,
         \/ h = [g EXCEPT ![ChoiceOf[s]] = s]
         \/ h = g /\ u.pick[ChoiceOf[s]] = s
  PROVE  Kept(r, Answered(u, s, "y"), h)
<1> DEFINE w == Answered(u, s, "y")
           c == ChoiceOf[s]
<1>0. s \in All /\ s \notin ChoiceSyms /\ s # NotAsked /\ c \in ChoiceSyms /\ c \in All /\ s \in Members(c)
  BY OrderAssumption, AskAssumption DEF All, Members, IsValue
<1>1. w.val = [u.val EXCEPT ![s] = "y"] /\ u.has \subseteq w.has /\ w.pick = [u.pick EXCEPT ![c] = s]
  BY DEF Answered
<1>2. /\ \A t \in Symbols : ~IsValue(t) => w.val[t] = u.val[t]
      /\ \A d \in ChoiceSyms : w.pick[d] = IF d = c THEN s ELSE u.pick[d]
  BY <1>0, <1>1 DEF Whole, IsAnswers
<1>3. g = [x \in All |-> g[x]]
  BY DEF Kept
<1>4. \A t \in Symbols : t \in All /\ t # c
  BY <1>0, OrderAssumption DEF All
<1>5. h = [x \in All |-> h[x]] /\ (\A x \in All : x # c => h[x] = g[x]) /\ (h[c] = s \/ (h = g /\ u.pick[c] = s))
  BY <1>0, <1>3
<1> HIDE DEF w, c
<1>6. ASSUME NEW x \in Symbols, ~IsValue(x)
      PROVE  IF h[x] = NotAsked THEN w.val[x] = r.val[x] /\ (x \in r.has => x \in w.has)
             ELSE x \in w.has /\ w.val[x] = h[x] /\ (x \in Bools => h[x] \in {"y", "n"})
  BY <1>1, <1>2, <1>4, <1>5, <1>6 DEF Kept
<1>7. ASSUME NEW d \in ChoiceSyms
      PROVE  h[d] \in Members(d) \cup {NotAsked} /\ w.pick[d] = IF h[d] = NotAsked THEN r.pick[d] ELSE h[d]
  <2>1. CASE d # c
    <3>1. h[d] = g[d] /\ w.pick[d] = u.pick[d]
      BY <1>2, <1>5, <2>1 DEF All
    <3> QED
      BY <3>1 DEF Kept
  <2>2. CASE d = c
    BY <1>0, <1>2, <1>5, <2>2 DEF Kept
  <2> QED
    BY <2>1, <2>2
<1>8. Kept(r, w, h)
  BY <1>5, <1>6, <1>7 DEF Kept
<1> QED
  BY <1>8 DEF w

LEMMA KeptSeen ==
  ASSUME Known, CallsInv, AnswersInv, FilesInv, KeptInv, Calling({"check", "conf"}), UNCHANGED <<kconfig, dot>>
  PROVE  /\ Kept(ReadDot.user, Seen, given) /\ Kept(ReadDot.user, Looked, given) /\ Whole(Seen) /\ Whole(Looked)
         /\ ReadDot' = ReadDot
<1>1. Kept(ReadDot.user, user, given)
  BY DEF KeptInv, Calling
<1>2. ReadDot' = ReadDot
  BY DotStays
<1> QED
  BY <1>1, <1>2, SeenSame, LookedSame, KeptMore

\* What conf_choice takes without asking is the answer, unless that was Lost.
LEMMA KeptTaken ==
  ASSUME Known, CallsInv, AnswersInv, FilesInv, KeptInv, NEW e \in Entries, Choose(e), ~AsksChoice, ~Lost
  PROVE  user.pick[Sym] = SymOf[e]
<1> DEFINE p == user.pick[Sym]
           w == Trusted(user, now)
<1>1. Calling({"check", "conf"}) /\ pc = "ask" /\ Sym \in ChoiceSyms /\ SymOf[e] = now.cur[Sym]
  BY ChooseIs DEF Choose, Entering, Calling
<1>2. Kept(ReadDot.user, user, given) /\ Solves(kconfig, w, now) /\ w.pick = user.pick
  BY <1>1 DEF KeptInv, AnswersInv, Trusted
<1>3. p \in Members(Sym) \cup {None}
  BY <1>1, <1>2, ReadProper DEF Kept
<1>4. p \in now.vis
  BY DEF Lost
<1>5. now.vis \subseteq Symbols
  BY <1>2 DEF Solves, Lit
<1>6. p \in Members(Sym) /\ p \in Symbols
  BY <1>3, <1>4, <1>5, OrderAssumption
<1>7. p \in VisibleMembers(kconfig, Sym, now.cur)
  <2> HIDE DEF w, p
  <2> QED
    BY <1>2, <1>4, <1>6, ValueIs, MembersAre DEF Known
<1> QED
  BY <1>1, <1>2, <1>7, ChoiceIs DEF Known

LEMMA KeptWalk ==
  ASSUME Known, CallsInv, AnswersInv, FilesInv, KeptInv, Walk, pc' = "ask"
  PROVE  KeptInv'
<1> SUFFICES Kept(ReadDot'.user, user', given')
  BY DEF KeptInv, Kept
<1>1. CASE Hidden \/ CheckOld \/ List \/ Restart \/ ConfMenu \/ ConfNoSymbol \/ ConfKnown \/ ConfEmpty
  <2>1. Calling({"check", "conf"}) /\ user' = Seen /\ UNCHANGED <<kconfig, dot, given>>
    BY <1>1 DEF Hidden, CheckOld, List, Restart, ConfMenu, ConfNoSymbol, ConfKnown, ConfEmpty, Entering, Calling, Asking,
                NothingNew, files
  <2> QED
    BY <2>1, KeptSeen
<1>2. ASSUME NEW v \in {"y", "n"}, ConfSym(v) PROVE Kept(ReadDot'.user, user', given')
  <2>1. /\ Calling({"check", "conf"}) /\ UNCHANGED <<kconfig, dot>> /\ Sym \in Bools
        /\ user' = Answered(Seen, Sym, v)
        /\ given' = IF IsValue(Sym) /\ v = "y" THEN [given EXCEPT ![Sym] = v, ![ChoiceOf[Sym]] = Sym]
                    ELSE [given EXCEPT ![Sym] = v]
    BY <1>2 DEF ConfSym, Entering, Calling, Asking, files, Answer, Clear, Given
  <2> QED
    BY <2>1, KeptSeen, KeptBool
<1>3. ASSUME NEW t \in Texts, ConfString(t) PROVE Kept(ReadDot'.user, user', given')
  <2>1. /\ Calling({"check", "conf"}) /\ UNCHANGED <<kconfig, dot>> /\ Sym \in Strings
        /\ user' = Entered(Seen, Sym, t)
    BY <1>3 DEF ConfString, Entering, Calling, Asking, files, Answer, Clear
  <2>2. ~IsValue(Sym)
    BY <2>1, Sorts DEF All, Symbols
  <2>3. given' = [given EXCEPT ![Sym] = t]
    BY <1>3, <2>2 DEF ConfString, Given
  <2> QED
    BY <2>1, <2>3, KeptSeen, KeptString
<1>4. ASSUME NEW e \in Entries, Choose(e) PROVE Kept(ReadDot'.user, user', given')
  <2> DEFINE s == SymOf[e]
  <2>1. /\ Calling({"check", "conf"}) /\ UNCHANGED <<kconfig, dot>> /\ user' = Answered(Looked, s, "y")
        /\ Sym \in ChoiceSyms /\ s \in Members(Sym)
    BY <1>4, ChooseIs DEF Choose, Entering, Calling, Asking, files, Answer, Clear
  <2>2. ~IsValue(Sym) /\ IsValue(s) /\ ChoiceOf[s] = Sym /\ s \in Symbols
    BY <2>1, MembersAre, OrderAssumption DEF Symbols, IsValue
  <2>3. given' = [given EXCEPT ![Sym] = s] \/ (given' = given /\ user.pick[Sym] = s)
    <3>1. CASE AsksChoice
      BY <1>4, <2>2, <3>1 DEF Choose, Given
    <3>2. CASE ~AsksChoice /\ Lost
      BY <1>4, <3>2 DEF Choose
    <3>3. CASE ~AsksChoice /\ ~Lost
      BY <1>4, <3>3, KeptTaken DEF Choose
    <3> QED
      BY <3>1, <3>2, <3>3
  <2>4. Looked.pick = user.pick
    BY <2>1, LookedSame
  <2> HIDE DEF s
  <2> QED
    BY <2>1, <2>2, <2>3, <2>4, KeptSeen, KeptChoice
<1>5. CASE NextPass
  <2>1. UNCHANGED <<kconfig, dot, user, given>> /\ pc = "ask"
    BY <1>5 DEF NextPass, vars, files
  <2> QED
    BY <2>1, DotStays DEF KeptInv
<1>6. CASE EndAsking
  BY <1>6 DEF EndAsking, Exit
<1> QED
  BY <1>1, <1>2, <1>3, <1>4, <1>5, <1>6 DEF Walk

\* When no program runs, nothing was asked.
LEMMA SilentWhenIdle ==
  ASSUME KeptInv, [CNext]_cvars, pc' = "idle"
  PROVE  given' = NobodyAsked
<1>1. CASE Walk
  <2>1. EndAsking
    BY <1>1 DEF Walk, Hidden, CheckOld, List, Restart, ConfMenu, ConfNoSymbol, ConfKnown, ConfEmpty, ConfSym, ConfString,
                Choose, Entering, Calling, Asking, NextPass, vars
  <2> QED
    BY <2>1, WalkStep DEF EndAsking, Silent, Finished
<1>2. CASE \/ (\E m \in {"oldaskconfig", "oldconfig", "syncconfig", "listnewconfig"} : Begin(m)) \/ NewDefaults
           \/ (\E m \in {"allyesconfig", "allnoconfig", "alldefconfig"}, seed \in Seeds : AllConfig(m, seed))
  BY <1>2 DEF Begin, NewDefaults, OldDefconfig, AllConfig, Load
<1>3. CASE Save \/ SaveOld \/ SaveNew \/ SaveFails \/ Killed
  BY <1>3 DEF Save, Write, SaveOld, MoveOld, SaveNew, GoOn, SaveFails, Killed, Silent
<1>4. CASE Touch \/ EndSplit \/ MoveHeader \/ MoveAuto
  BY <1>4 DEF Touch, EndSplit, MoveHeader, MoveAuto, Silent, vars
<1>5. CASE NewTree \/ EditDot \/ Build \/ UNCHANGED cvars
  BY <1>5 DEF NewTree, Upgrade, EditDot, Build, vars, cvars, talk, KeptInv
<1> QED
  BY <1>1, <1>2, <1>3, <1>4, <1>5 DEF CNext

LEMMA KeptStep == Known /\ CallsInv /\ AnswersInv /\ FilesInv /\ KeptInv /\ [CNext]_cvars => KeptInv'
<1> SUFFICES ASSUME Known, CallsInv, AnswersInv, FilesInv, KeptInv, [CNext]_cvars PROVE KeptInv'
  OBVIOUS
<1>1. CASE pc' # "ask"
  BY <1>1, SilentWhenIdle DEF KeptInv, Kept
<1>2. CASE Walk /\ pc' = "ask"
  BY <1>2, KeptWalk
<1>3. ASSUME NEW m \in {"oldaskconfig", "oldconfig", "syncconfig", "listnewconfig"}, Begin(m) PROVE KeptInv'
  <2>1. user' = ReadDot.user /\ given' = NobodyAsked /\ UNCHANGED <<kconfig, dot>> /\ pc' = "ask"
    BY <1>3 DEF Begin, Load, files, KeptInv
  <2>2. ReadDot' = ReadDot
    BY <2>1, DotStays
  <2>3. Kept(ReadDot'.user, user', given')
    BY <2>1, <2>2, KeptAtFirst
  <2> QED
    BY <2>1, <2>3 DEF KeptInv, Kept
<1>4. CASE UNCHANGED cvars
  <2>1. UNCHANGED <<kconfig, dot, user, given, pc>>
    BY <1>4 DEF cvars, vars, talk, files
  <2>2. ReadDot' = ReadDot
    BY <2>1, DotStays
  <2> QED
    BY <2>1, <2>2 DEF KeptInv, Kept
<1> QED
  BY <1>1, <1>2, <1>3, <1>4, RestStep

LEMMA KeptWhereSet == AnswersInv /\ Known /\ FilesInv /\ KeptInv => AnswersKept
<1> SUFFICES ASSUME AnswersInv, Known, FilesInv, KeptInv, Finished PROVE AnswersKept
  BY DEF AnswersKept
<1> DEFINE r == ReadDot.user
           w == Trusted(user, now)
<1>1. Kept(r, user, given) /\ Solves(kconfig, w, now) /\ kconfig \in Kconfigs
  BY DEF Finished, KeptInv, AnswersInv, Known
<1>2. w.val = user.val /\ w.pick = user.pick /\ w.has = {y \in user.has : y \in Strings => user.val[y] = now.cur[y]}
  BY DEF Trusted
<1>3. /\ \A s \in r.has \cap Bools : r.val[s] \in {"y", "n"}
      /\ \A c \in ChoiceSyms : r.pick[c] \in Members(c) \cup {None}
  BY ReadProper
<1> HIDE DEF r, w
<1>4. now.vis = Lit(kconfig, now) /\ now.sel = Selected(kconfig, now) /\ \A s \in All : now.cur[s] = Value(kconfig, w, now, s)
  BY <1>1 DEF Solves
<1>5. ASSUME NEW s \in Bools, ~IsValue(s), Changable(now, s), s \in user.has, user.val[s] \in {"y", "n"}
      PROVE  now.cur[s] = user.val[s]
  <2>1. s \in All /\ s \notin ChoiceSyms /\ s \notin Strings /\ s \in w.has /\ w.val[s] = user.val[s]
    BY <1>2, <1>5, OrderAssumption DEF All, Symbols
  <2>2. s \in Lit(kconfig, now) /\ s \notin Selected(kconfig, now)
    BY <1>4, <1>5 DEF Changable
  <2>3. now.cur[s] = IF user.val[s] = "y" THEN "y" ELSE "n"
    BY <1>4, <1>5, <2>1, <2>2 DEF Value
  <2> QED
    BY <1>5, <2>3
<1>6. ASSUME NEW c \in ChoiceSyms, user.pick[c] \in Members(c), user.pick[c] \in now.vis
      PROVE  now.cur[c] = user.pick[c]
  <2>1. user.pick[c] \in VisibleMembers(kconfig, c, now.cur)
    BY <1>1, <1>6, ValueIs, MembersAre, OrderAssumption DEF Symbols
  <2> QED
    BY <1>1, <1>2, <2>1, ChoiceIs
<1>7. ASSUME NEW s \in Symbols, Changable(now, s), ~IsValue(s)
      PROVE  LET value == IF s \in Strings THEN user.val[s] ELSE now.cur[s]
             IN  /\ given[s] # NotAsked => value = given[s]
                 /\ given[s] = NotAsked /\ s \in r.has => value = r.val[s]
  <2>1. CASE s \in Strings
    BY <1>1, <1>7, <2>1 DEF Kept
  <2>2. CASE s \in Bools
    <3>1. s \notin Strings
      BY <2>2, OrderAssumption
    <3> QED
      BY <1>1, <1>3, <1>5, <1>7, <2>2, <3>1 DEF Kept
  <2> QED
    BY <2>1, <2>2 DEF Symbols
<1>8. ASSUME NEW c \in ChoiceSyms
      PROVE  /\ given[c] \in now.vis => now.cur[c] = given[c]
             /\ given[c] = NotAsked /\ r.pick[c] \in now.vis => now.cur[c] = r.pick[c]
  <2>1. now.vis \subseteq Symbols /\ NotAsked \notin Symbols /\ None \notin Symbols
    BY <1>4, AskAssumption, OrderAssumption DEF Lit
  <2> QED
    BY <1>1, <1>3, <1>6, <2>1 DEF Kept
<1> QED
  BY <1>7, <1>8 DEF AnswersKept, r

\* What the user answered, now or in the .config, is what is saved wherever it
\* can still be set, however the answers since have changed what is asked.
THEOREM AnswersAreKept == CSpec => []AnswersKept
<1>1. CInit => FilesInv /\ KeptInv
  <2> SUFFICES ASSUME CInit PROVE FilesInv /\ KeptInv
    OBVIOUS
  <2>1. dot \in Defconfigs \cup {Missing} /\ pc = "idle" /\ now = NotCalculated /\ given = NobodyAsked
    BY DEF CInit, Init
  <2> QED
    BY <2>1, DotProper, BlankProper DEF FilesInv, KeptInv
<1>2. Known /\ CallsInv /\ AnswersInv /\ FilesInv /\ KeptInv /\ [CNext]_cvars => (FilesInv /\ KeptInv)'
  BY FilesStep, KeptStep
<1>3. CSpec => [](FilesInv /\ KeptInv)
  BY <1>1, <1>2, AnswersHold, PTL DEF CSpec
<1> QED
  BY <1>3, AnswersHold, KeptWhereSet, PTL

-----------------------------------------------------------------------------
(* The files that syncconfig leaves for make                               *)

LinesOf(n, S) == {<<s, n.cur[s]>> : s \in S}
Picked(L) == {l \in L : l[1] \in Strings \/ l[2] # "n"}
StoredOf(n) == {s \in Written(n) : s \in Strings \/ n.cur[s] # "n"}

LEMMA LinesSet ==
  ASSUME NEW n, NEW S \in SUBSET All
  PROVE  ToSet(Lines(n, S)) = LinesOf(n, S)
<1> DEFINE L == Lines(n, S)
           T == LinesOf(n, S)
<1>0. ListOf(L, n, S)
  BY LinesAre
<1> HIDE DEF L
<1>1. L \in Seq(T) /\ \A s \in S : \E h \in DOMAIN L : L[h] = <<s, n.cur[s]>>
  BY <1>0 DEF ListOf, LinesOf
<1>2. ToSet(L) \subseteq T
  <2> HIDE DEF T
  <2> QED
    BY <1>1 DEF ToSet
<1>3. T \subseteq ToSet(L)
  BY <1>1 DEF ToSet, LinesOf
<1> QED
  BY <1>2, <1>3 DEF L

\* The set of the lines determines the file.
LEMMA LinesSame ==
  ASSUME NEW n, NEW m, NEW S \in SUBSET All, NEW T \in SUBSET All, LinesOf(n, S) = LinesOf(m, T)
  PROVE  Lines(n, S) = Lines(m, T)
<1>1. \A s \in S : \E t \in T : <<s, n.cur[s]>> = <<t, m.cur[t]>>
  BY DEF LinesOf
<1>2. \A t \in T : \E s \in S : <<s, n.cur[s]>> = <<t, m.cur[t]>>
  BY DEF LinesOf
<1>3. S = T /\ \A s \in S : n.cur[s] = m.cur[s]
  BY <1>1, <1>2
<1>4. ASSUME NEW f PROVE IsGathering(n, S, Len(Order), f) <=> IsGathering(m, T, Len(Order), f)
  <2> DEFINE a == [i \in 0 .. Len(Order) |->
                     IF i = 0 THEN <<>>
                     ELSE IF Order[i] \in S THEN Append(f[i - 1], <<Order[i], n.cur[Order[i]]>>)
                     ELSE f[i - 1]]
             b == [i \in 0 .. Len(Order) |->
                     IF i = 0 THEN <<>>
                     ELSE IF Order[i] \in T THEN Append(f[i - 1], <<Order[i], m.cur[Order[i]]>>)
                     ELSE f[i - 1]]
  <2>1. ASSUME NEW i \in 0 .. Len(Order) PROVE a[i] = b[i]
    <3>1. CASE Order[i] \in S
      BY <1>3, <3>1
    <3>2. CASE Order[i] \notin S
      BY <1>3, <3>2
    <3> QED
      BY <3>1, <3>2
  <2>2. a = b
    BY <2>1
  <2>3. (IsGathering(n, S, Len(Order), f) <=> f = a) /\ (IsGathering(m, T, Len(Order), f) <=> f = b)
    BY DEF IsGathering
  <2> QED
    BY <2>2, <2>3
<1>5. Gathering(n, S) = Gathering(m, T)
  BY <1>4 DEF Gathering
<1>6. Lines(n, S) = Gathering(n, S)[Len(Order)] /\ Lines(m, T) = Gathering(m, T)[Len(Order)]
  BY DEF Lines, Gathering, IsGathering
<1> QED
  BY <1>5, <1>6

LEMMA StoredSet ==
  ASSUME NEW n
  PROVE  /\ Stored(n) = Lines(n, StoredOf(n)) /\ StoredOf(n) \in SUBSET All /\ Written(n) \in SUBSET All
         /\ ToSet(Stored(n)) = LinesOf(n, StoredOf(n)) /\ ToSet(Stored(n)) = Picked(LinesOf(n, Written(n)))
<1>1. StoredOf(n) \in SUBSET All /\ Written(n) \in SUBSET All /\ Stored(n) = Lines(n, StoredOf(n))
  BY DEF StoredOf, Written, All, Stored
<1>2. ToSet(Stored(n)) = LinesOf(n, StoredOf(n))
  BY <1>1, LinesSet
<1>3. LinesOf(n, StoredOf(n)) = Picked(LinesOf(n, Written(n)))
  BY DEF LinesOf, StoredOf, Picked
<1> QED
  BY <1>1, <1>2, <1>3

LEMMA StoredSame ==
  ASSUME NEW n, NEW m, ToSet(Stored(n)) = ToSet(Stored(m))
  PROVE  Stored(n) = Stored(m)
BY StoredSet, LinesSame

LEMMA ProperThere ==
  ASSUME NEW d, Proper(d)
  PROVE  d # Missing
<1> SUFFICES ASSUME d = Missing PROVE FALSE
  OBVIOUS
<1>1. DOMAIN Missing = {1} /\ Missing[1] = <<"missing">>
  BY DEF Missing
<1>2. <<"missing">> = <<d[1][1], d[1][2]>>
  BY <1>1 DEF Proper
<1>3. Len(<<"missing">>) = 1 /\ Len(<<d[1][1], d[1][2]>>) = 2
  OBVIOUS
<1> QED
  BY <1>2, <1>3

\* A file without oddities that agrees with the values has just their lines.
LEMMA NothingUnsaved ==
  ASSUME NEW lines, Proper(lines), ~Odd(lines), NEW n, ~Unsaved(UserOf(lines), n)
  PROVE  ToSet(lines) = LinesOf(n, Written(n))
<1> DEFINE u == UserOf(lines)
           of(s) == {i \in DOMAIN lines : lines[i][1] = s}
<1>1. /\ u.val = [s \in Symbols |-> IF of(s) = {} THEN Blank.val[s] ELSE lines[Max(of(s))][2]]
      /\ u.has = {s \in Symbols : of(s) # {}}
  BY DEF UserOf
<1>2. \A s \in Symbols : IF s \in u.has THEN s \in n.wr /\ u.val[s] = n.cur[s] ELSE s \notin n.wr
  BY DEF Unsaved, Agrees
<1>3. Len(lines) \in Nat /\ DOMAIN lines = 1 .. Len(lines) /\ \A i \in DOMAIN lines : lines[i] = <<lines[i][1], lines[i][2]>>
  BY DEF Proper
<1> HIDE DEF u
<1>4. ASSUME NEW i \in DOMAIN lines
      PROVE  /\ lines[i][1] \in Written(n) /\ lines[i] = <<lines[i][1], n.cur[lines[i][1]]>>
  <2> DEFINE s == lines[i][1]
  <2>1. s \in Symbols
    BY DEF Odd
  <2>2. ASSUME NEW j \in of(s) PROVE j = i
    <3>1. j \in DOMAIN lines /\ lines[j][1] = lines[i][1] /\ i \in Nat /\ j \in Nat
      BY <1>3
    <3>2. ~(i < j) /\ ~(j < i)
      BY <3>1 DEF Odd
    <3> QED
      BY <3>1, <3>2
  <2>3. i \in of(s)
    OBVIOUS
  <2>4. Max(of(s)) = i
    <3>1. of(s) \in SUBSET (1 .. Len(lines)) /\ of(s) # {}
      BY <1>3, <2>3
    <3> HIDE DEF of
    <3>2. Max(of(s)) \in of(s)
      BY <1>3, <3>1, LatestOf
    <3> QED
      BY <2>2, <3>2
  <2>5. s \in u.has /\ u.val[s] = lines[i][2]
    <3> HIDE DEF of, s
    <3> QED
      BY <1>1, <2>1, <2>3, <2>4
  <2> QED
    BY <1>2, <1>3, <2>1, <2>5 DEF Written
<1>5. ASSUME NEW s \in Written(n) PROVE \E i \in DOMAIN lines : lines[i][1] = s
  <2>1. s \in Symbols /\ s \in u.has
    BY <1>2, <1>5 DEF Written
  <2>2. of(s) # {}
    BY <1>1, <2>1
  <2> QED
    BY <2>2
<1>6. ToSet(lines) \subseteq LinesOf(n, Written(n))
  BY <1>4 DEF ToSet, LinesOf
<1>7. LinesOf(n, Written(n)) \subseteq ToSet(lines)
  BY <1>4, <1>5 DEF ToSet, LinesOf
<1> QED
  BY <1>6, <1>7

\* Of symbols that all agree, all that can be seen have an answer.
LEMMA AllAnswered ==
  ASSUME NEW k \in Kconfigs, NEW u, NEW n, Solves(k, u, n), ~Unsaved(u, n)
  PROVE  n.vis \subseteq u.has
<1>1. n.vis \subseteq n.wr /\ n.vis \subseteq Symbols
  BY DEF Solves, ToSave, Lit
<1> QED
  BY <1>1 DEF Unsaved, Agrees

Tells(n, lines) == ToSet(Stored(n)) = Picked(ToSet(lines))

\* Strings without an answer have no value that could be entered.
Loud(u) == \A s \in Strings : s \notin u.has => u.val[s] \notin Texts

\* Nothing is new, and so nothing is asked.
Quiet ==
    /\ now.vis \subseteq user.has
    /\ \A c \in ChoiceSyms : VisibleMembers(kconfig, c, now.cur) # {} => c \in chosen
    /\ \A i \in 1 .. Len(todo) : todo[i].fn = "check"

\* What syncconfig asks leaves nothing over, and as long as nothing changed
\* .config has the values that were read of it.
AsksInv ==
    pc = "ask" /\ prog = "sync" =>
        /\ mode = "syncconfig" /\ dot # Missing /\ Solves(kconfig, user, now)
        /\ ~changed => ToSet(dot) = LinesOf(now, Written(now))
        /\ Loud(user) \/ Quiet

LEMMA AsksRead ==
  ASSUME Known, FilesInv, NEW m \in {"oldaskconfig", "oldconfig", "syncconfig", "listnewconfig"}, Begin(m)
  PROVE  AsksInv'
<1> SUFFICES ASSUME prog' = "sync" PROVE AsksInv'
  BY DEF AsksInv
<1> DEFINE u == UserOf(dot)
           n == Calculate(kconfig, u)
           r == ReadDot
           w == [u EXCEPT !.has = {s \in @ : IsValue(s) \/ s \in n.vis}]
<1>1. /\ m = "syncconfig" /\ dot # Missing /\ mode' = m /\ UNCHANGED <<kconfig, dot>> /\ chosen' = ChosenWhenRead
      /\ user' = r.user /\ now' = r.now /\ changed' = r.changed /\ todo' = <<Call("check", Root)>>
  BY DEF Begin, Load, files
<1>2. /\ r.user = IF Unsaved(u, n) THEN u ELSE w
      /\ r.now = n /\ r.changed = (Odd(dot) \/ Unsaved(u, n))
  BY <1>1 DEF ReadDot, Read
<1>3. Solves(kconfig, r.user, n)
  BY <1>2, DotFresh DEF Known
<1>4. Solves(kconfig, u, n)
  BY Calculated DEF Known
<1>5. chosen' = {c \in StillChosen(kconfig, u, n, ChoiceSyms) : Unsaved(u, n) \/ Showing(kconfig, n, c)}
  BY <1>1 DEF ChosenWhenRead
<1>6. Proper(dot)
  BY <1>1 DEF FilesInv
<1>7. u = [val |-> u.val, has |-> u.has, pick |-> u.pick]
  BY DEF UserOf
<1>8. \A s \in Strings : s \notin u.has => u.val[s] = None
  <2> DEFINE of(s) == {i \in DOMAIN dot : dot[i][1] = s}
  <2>1. /\ u.val = [s \in Symbols |-> IF of(s) = {} THEN Blank.val[s] ELSE dot[Max(of(s))][2]]
        /\ u.has = {s \in Symbols : of(s) # {}}
    BY DEF UserOf
  <2>2. \A s \in Strings : s \in Symbols /\ Blank.val[s] = None
    BY OrderAssumption DEF Blank, Symbols
  <2> HIDE DEF u, of
  <2> QED
    BY <2>1, <2>2
<1> HIDE DEF n, r, u
<1>9. CASE Unsaved(u, n)
  <2>1. user' = u /\ changed'
    BY <1>1, <1>2, <1>9
  <2>2. Loud(user')
    BY <1>8, <2>1, FileAssumption DEF Loud
  <2> QED
    BY <1>1, <1>2, <1>3, <2>1, <2>2 DEF AsksInv, Loud
<1>10. CASE ~Unsaved(u, n)
  <2>1. user' = w /\ now' = n /\ w.has = {s \in u.has : IsValue(s) \/ s \in n.vis}
    BY <1>1, <1>2, <1>7, <1>10
  <2>2. n.vis \subseteq u.has
    BY <1>4, <1>10, AllAnswered DEF Known
  <2>3. now'.vis \subseteq user'.has
    BY <2>1, <2>2
  <2>4. ASSUME NEW c \in ChoiceSyms, VisibleMembers(kconfig, c, n.cur) # {} PROVE c \in chosen'
    <3>1. Showing(kconfig, n, c)
      BY <2>4 DEF VisibleMembers, Showing
    <3>2. \A s \in VisibleMembers(kconfig, c, n.cur) : s \in u.has
      <4>1. \A s \in VisibleMembers(kconfig, c, n.cur) : s \in Symbols /\ IsValue(s) /\ ChoiceOf[s] = c
        BY MembersAre, OrderAssumption DEF VisibleMembers, Symbols
      <4>2. \A s \in VisibleMembers(kconfig, c, n.cur) : s \in n.vis
        BY <1>4, <4>1, ValueIs DEF Known
      <4> QED
        BY <2>2, <4>2
    <3> QED
      BY <1>5, <3>1, <3>2 DEF StillChosen
  <2>5. \A i \in 1 .. Len(todo') : todo'[i].fn = "check"
    BY <1>1 DEF Call
  <2>6. Quiet'
    BY <1>1, <1>2, <2>3, <2>4, <2>5 DEF Quiet
  <2>7. ~changed' => ToSet(dot') = LinesOf(now', Written(now'))
    <3> SUFFICES ASSUME ~changed' PROVE ToSet(dot) = LinesOf(n, Written(n))
      BY <1>1, <2>1
    <3>1. ~Odd(dot) /\ ~Unsaved(UserOf(dot), n)
      BY <1>1, <1>2 DEF u
    <3> QED
      BY <1>6, <3>1, NothingUnsaved
  <2>8. Solves(kconfig', user', now') /\ dot' # Missing /\ mode' = "syncconfig"
    BY <1>1, <1>2, <1>3
  <2> HIDE DEF w
  <2> QED
    BY <2>6, <2>7, <2>8 DEF AsksInv
<1> QED
  BY <1>9, <1>10

\* What is only marked makes no difference.
LEMMA MarksSolve ==
  ASSUME Known, CallsInv, AnswersInv, Calling({"check", "conf"}), Solves(kconfig, user, now)
  PROVE  Solves(kconfig, Seen, now) /\ Solves(kconfig, Looked, now)
<1> DEFINE A == Marked(Here, now)
           B == UNION {Marked(e, now) : e \in ToSet(Children[Here])}
<1>1. Seen.val = user.val /\ Seen.pick = user.pick /\ Looked.val = user.val /\ Looked.pick = user.pick
      /\ user.has \subseteq Seen.has /\ user.has \subseteq Looked.has
  BY SeenSame, LookedSame
<1>2. A \cap now.vis = {} /\ B \cap now.vis = {}
  <2>1. \A e \in ToSet(Children[Here]) : e \in Entries
    BY NextCall, ListsFounded DEF Lists
  <2> QED
    BY <2>1, NextCall, MarkedHidden
<1>3. Seen.has = user.has \cup A /\ Looked.has = (user.has \cup A) \cup B
  <2>1. Whole(user) /\ Whole(Seen)
    BY SeenSame DEF AnswersInv, Calling
  <2>2. Seen = [val |-> user.val, has |-> user.has \cup A, pick |-> user.pick]
    BY <2>1 DEF Seen, Whole
  <2>3. Seen.has = user.has \cup A
    BY <2>2
  <2>4. Looked = [Seen EXCEPT !.has = @ \cup B]
    BY Zenon DEF Looked
  <2> HIDE DEF A, B
  <2>5. Looked = [val |-> Seen.val, has |-> Seen.has \cup B, pick |-> Seen.pick]
    BY <2>1, <2>4 DEF Whole
  <2> QED
    BY <2>3, <2>5
<1> HIDE DEF A, B
<1>4. \A s \in Symbols : ~IsValue(s) /\ s \in now.vis => (s \in Seen.has <=> s \in user.has) /\ (s \in Looked.has <=> s \in user.has)
  BY <1>2, <1>3
<1> QED
  BY <1>1, <1>4, SameWhereSeen DEF Known

\* A new value is calculated, and the others are as they were.
LEMMA AsksAnswer ==
  ASSUME Known, AsksInv, pc = "ask", prog = "sync", UNCHANGED <<kconfig, dot, mode>>, Loud(user),
         NEW w, NEW new, Clear(w, new), Loud(w), ~new => Solves(kconfig, w, now)
  PROVE  AsksInv'
<1>1. user' = w /\ now' = (IF new THEN Calculate(kconfig, w) ELSE now) /\ changed' = (changed \/ new)
  BY DEF Clear
<1>2. Solves(kconfig', user', now')
  BY <1>1, Calculated DEF Known
<1>3. ~changed' => ToSet(dot') = LinesOf(now', Written(now'))
  BY <1>1 DEF AsksInv
<1>4. Loud(user')
  BY <1>1
<1> QED
  BY <1>2, <1>3, <1>4 DEF AsksInv, Loud

LEMMA LoudStays ==
  ASSUME NEW u, Whole(u), Loud(u)
  PROVE  /\ \A s \in Bools : \A v : Loud(Answered(u, s, v))
         /\ \A s \in Strings : \A t : Loud(Entered(u, s, t))
         /\ \A w : w.val = u.val /\ u.has \subseteq w.has => Loud(w)
<1>1. ASSUME NEW s \in Bools, NEW v PROVE Loud(Answered(u, s, v))
  <2>1. Answered(u, s, v).val = [u.val EXCEPT ![s] = v] /\ u.has \subseteq Answered(u, s, v).has
    BY DEF Answered
  <2>2. \A x \in Strings : x # s /\ x \in Symbols
    BY OrderAssumption DEF Symbols
  <2>3. \A x \in Strings : Answered(u, s, v).val[x] = u.val[x]
    BY <2>1, <2>2 DEF Whole, IsAnswers
  <2> QED
    BY <2>1, <2>3 DEF Loud
<1>2. ASSUME NEW s \in Strings, NEW t PROVE Loud(Entered(u, s, t))
  <2>1. Entered(u, s, t).val = [u.val EXCEPT ![s] = t] /\ Entered(u, s, t).has = u.has \cup {s}
    BY DEF Entered
  <2>2. \A x \in Strings : x \in Symbols
    BY DEF Symbols
  <2>3. \A x \in Strings : x # s => Entered(u, s, t).val[x] = u.val[x]
    BY <2>1, <2>2 DEF Whole, IsAnswers
  <2> QED
    BY <2>1, <2>3 DEF Loud
<1>3. \A w : w.val = u.val /\ u.has \subseteq w.has => Loud(w)
  BY DEF Loud
<1> QED
  BY <1>1, <1>2, <1>3

\* While all is quiet, the tree is only looked through.
LEMMA QuietCall ==
  ASSUME Known, CallsInv, AnswersInv, AsksInv, Quiet, prog = "sync",
         Hidden \/ CheckOld \/ List \/ Restart \/ ConfMenu \/ ConfNoSymbol \/ ConfKnown \/ ConfEmpty
  PROVE  Quiet' /\ (Hidden \/ CheckOld)
<1>1. Calling({"check", "conf"}) /\ pc = "ask" /\ todo \in Seq(Calls) /\ todo # <<>> /\ Here \in Entries
  BY NextCall DEF Hidden, CheckOld, List, Restart, ConfMenu, ConfNoSymbol, ConfKnown, ConfEmpty, Entering, Calling, CallsInv
<1>2. Head(todo).fn = "check" /\ mode # "listnewconfig"
  BY <1>1 DEF Quiet, AsksInv
<1>3. Solves(kconfig, user, now) /\ user.has \subseteq Seen.has
  BY <1>1, SeenSame DEF AsksInv
<1>4. ~IsNew(Here, Seen)
  <2> SUFFICES ASSUME IsNew(Here, Seen) PROVE FALSE
    OBVIOUS
  <2>1. CASE Sym \in ChoiceSyms
    <3>1. Sym \notin now.vis
      BY <1>3, <2>1, OrderAssumption DEF Solves, Lit
    <3>2. IsYes(Here, now) /\ Sym \notin chosen
      BY <2>1, <3>1 DEF IsNew, Changable, HasAnswer, Sym
    <3>3. Kind[Here] = "choice"
      BY <1>1, <2>1, ChoiceAssumption DEF Sym
    <3>4. now.cur[Sym] # None
      BY <3>2, <3>3, ChoiceIsYes DEF Sym
    <3>5. VisibleMembers(kconfig, Sym, now.cur) # {}
      BY <1>3, <2>1, <3>4, ChoiceIs DEF Known
    <3> QED
      BY <2>1, <3>2, <3>5 DEF Quiet
  <2>2. CASE Sym \notin ChoiceSyms
    <3>1. Sym \in now.vis /\ Sym \notin Seen.has
      BY <2>2 DEF IsNew, Changable, HasAnswer, Sym
    <3> QED
      BY <1>3, <3>1 DEF Quiet
  <2> QED
    BY <2>1, <2>2
<1>5. Hidden \/ CheckOld
  BY <1>2, <1>4 DEF List, Restart, ConfMenu, ConfNoSymbol, ConfKnown, ConfEmpty, Entering, Calling
<1>6. /\ user' = Seen /\ UNCHANGED <<kconfig, now, chosen>>
      /\ Make(<<>>) \/ Make(Below("check", Here))
  BY <1>5 DEF Hidden, CheckOld, Asking, NothingNew
<1>7. \A i \in 1 .. Len(todo') : todo'[i].fn = "check"
  <2>1. Tail(todo) \in Seq(Calls) /\ \A i \in 1 .. Len(Tail(todo)) : Tail(todo)[i].fn = "check"
    <3>1. Tail(todo) \in Seq(Calls) /\ Len(Tail(todo)) = Len(todo) - 1 /\ Len(todo) \in Nat
      BY <1>1
    <3>2. \A i \in 1 .. Len(Tail(todo)) : i + 1 \in 1 .. Len(todo) /\ Tail(todo)[i] = todo[i + 1]
      BY <1>1, <3>1
    <3> QED
      BY <3>1, <3>2 DEF Quiet
  <2>2. PICK q \in Seq(Calls) : (\A i \in 1 .. Len(q) : q[i].fn = "check") /\ todo' = q \o Tail(todo)
    <3>1. CASE Make(<<>>)
      <4>1. <<>> \in Seq(Calls) /\ Len(<<>>) = 0
        OBVIOUS
      <4>2. \A i \in 1 .. Len(<<>>) : <<>>[i].fn = "check"
        BY <4>1
      <4> QED
        BY <3>1, <4>1, <4>2 DEF Make
    <3>2. CASE Make(Below("check", Here))
      <4>1. Below("check", Here) \in Seq(Calls) /\ Children[Here] \in Seq(Entries)
        BY <1>1, NextCall, TreeAssumption
      <4>2. Below("check", Here) = [i \in 1 .. Len(Children[Here]) |-> Call("check", Children[Here][i])]
        BY <4>1 DEF Below
      <4>3. \A i \in 1 .. Len(Below("check", Here)) : Below("check", Here)[i].fn = "check"
        BY <4>1, <4>2 DEF Call
      <4> QED
        BY <3>2, <4>1, <4>3 DEF Make
    <3> QED
      BY <1>6, <3>1, <3>2
  <2>3. \A i \in 1 .. Len(todo') : \/ i \in 1 .. Len(q) /\ todo'[i] = q[i]
                                   \/ i - Len(q) \in 1 .. Len(Tail(todo)) /\ todo'[i] = Tail(todo)[i - Len(q)]
    BY <2>1, <2>2
  <2> QED
    BY <2>1, <2>2, <2>3
<1> QED
  BY <1>3, <1>5, <1>6, <1>7 DEF Quiet

LEMMA AsksWalk ==
  ASSUME Known, CallsInv, AnswersInv, AsksInv, Walk, pc' = "ask", prog' = "sync"
  PROVE  AsksInv'
<1>1. CASE Hidden \/ CheckOld \/ List \/ Restart \/ ConfMenu \/ ConfNoSymbol \/ ConfKnown \/ ConfEmpty
  <2>1. /\ Calling({"check", "conf"}) /\ pc = "ask" /\ user' = Seen
        /\ UNCHANGED <<kconfig, dot, now, changed, mode, prog>>
    BY <1>1 DEF Hidden, CheckOld, List, Restart, ConfMenu, ConfNoSymbol, ConfKnown, ConfEmpty, Entering, Calling, Asking,
                NothingNew, files
  <2>2. mode' = "syncconfig" /\ dot' # Missing /\ (~changed' => ToSet(dot') = LinesOf(now', Written(now')))
    BY <2>1 DEF AsksInv
  <2>3. Solves(kconfig, user, now)
    BY <2>1 DEF AsksInv
  <2>4. Solves(kconfig', user', now')
    BY <2>1, <2>3, MarksSolve
  <2>5. Loud(user') \/ Quiet'
    <3>1. CASE Quiet
      BY <1>1, <2>1, <3>1, QuietCall
    <3>2. CASE Loud(user)
      <4>1. Loud(Seen)
        BY <2>1, <3>2, SeenSame DEF Loud
      <4> QED
        BY <2>1, <4>1
    <3> QED
      BY <2>1, <3>1, <3>2 DEF AsksInv
  <2> QED
    BY <2>2, <2>4, <2>5 DEF AsksInv, Loud
<1>2. ASSUME Calling({"conf"}), pc = "ask", prog = "sync"
      PROVE  /\ Solves(kconfig, Seen, now) /\ Solves(kconfig, Looked, now) /\ Whole(Seen) /\ Whole(Looked)
             /\ Loud(user) /\ Loud(Seen) /\ Loud(Looked) /\ mode = "syncconfig"
  <2>1. Calling({"check", "conf"})
    BY <1>2 DEF Calling
  <2>2. ~Quiet
    <3>1. todo \in Seq(Calls) /\ todo # <<>> /\ Head(todo).fn = "conf"
      BY <1>2 DEF Calling, CallsInv
    <3>2. 1 \in 1 .. Len(todo) /\ todo[1].fn = "conf"
      BY <3>1
    <3> QED
      BY <3>2 DEF Quiet
  <2>3. Solves(kconfig, user, now) /\ Loud(user) /\ mode = "syncconfig"
    BY <1>2, <2>2 DEF AsksInv
  <2>4. Seen.val = user.val /\ Looked.val = user.val /\ user.has \subseteq Seen.has /\ user.has \subseteq Looked.has
    BY <2>1, SeenSame, LookedSame
  <2> QED
    BY <2>1, <2>3, <2>4, MarksSolve, SeenSame, LookedSame DEF Loud
<1>3. ASSUME NEW v \in {"y", "n"}, ConfSym(v) PROVE AsksInv'
  <2> DEFINE w == Answered(Seen, Sym, v)
  <2>1. /\ Calling({"conf"}) /\ UNCHANGED <<kconfig, dot, mode>> /\ Sym \in Bools /\ pc = "ask" /\ prog = "sync"
        /\ Clear(w, v # now.cur[Sym])
    BY <1>3 DEF ConfSym, Entering, Calling, Asking, files, Answer
  <2>2. v = now.cur[Sym] => Solves(kconfig, w, now)
    BY <1>2, <2>1, SameBool DEF Known, Whole
  <2>3. Loud(w)
    BY <1>2, <2>1, LoudStays
  <2> HIDE DEF w
  <2> QED
    BY <1>2, <2>1, <2>2, <2>3, AsksAnswer
<1>4. ASSUME NEW t \in Texts, ConfString(t) PROVE AsksInv'
  <2> DEFINE w == Entered(Seen, Sym, t)
  <2>1. /\ Calling({"conf"}) /\ UNCHANGED <<kconfig, dot, mode>> /\ Sym \in Strings /\ pc = "ask" /\ prog = "sync"
        /\ Clear(w, Seen.val[Sym] # t) /\ (Sym \notin Seen.has \/ mode = "oldaskconfig")
    BY <1>4 DEF ConfString, Entering, Calling, Asking, files, Answer, Asked
  <2>2. Seen.val[Sym] # t
    BY <1>2, <2>1 DEF Loud
  <2>3. Loud(w)
    BY <1>2, <2>1, LoudStays
  <2> HIDE DEF w
  <2> QED
    BY <1>2, <2>1, <2>2, <2>3, AsksAnswer
<1>5. ASSUME NEW e \in Entries, Choose(e) PROVE AsksInv'
  <2> DEFINE s == SymOf[e]
             w == Answered(Looked, s, "y")
  <2>1. /\ Calling({"conf"}) /\ UNCHANGED <<kconfig, dot, mode>> /\ pc = "ask" /\ prog = "sync" /\ s \in Bools
        /\ Clear(w, now.cur[s] # "y")
    BY <1>5, ChooseIs, MembersAre DEF Choose, Entering, Calling, Asking, files, Answer
  <2>2. now.cur[s] = "y" => Solves(kconfig, w, now)
    BY <1>2, <2>1, SameBool DEF Known, Whole
  <2>3. Loud(w)
    BY <1>2, <2>1, LoudStays
  <2> HIDE DEF w
  <2> QED
    BY <1>2, <2>1, <2>2, <2>3, AsksAnswer
<1>6. CASE NextPass
  <2>1. /\ UNCHANGED <<kconfig, dot, user, now, changed, prog, chosen>> /\ pc = "ask"
        /\ todo' = <<Call("check", Root)>> /\ (mode # "oldaskconfig" => mode' = mode)
    BY <1>6 DEF NextPass, vars, files
  <2>2. Quiet => Quiet'
    BY <2>1 DEF Quiet, Call
  <2>3. Loud(user) => Loud(user)'
    BY <2>1 DEF Loud
  <2> QED
    BY <2>1, <2>2, <2>3 DEF AsksInv
<1>7. CASE EndAsking
  BY <1>7 DEF EndAsking, Exit
<1> QED
  BY <1>1, <1>3, <1>4, <1>5, <1>6, <1>7 DEF Walk

LEMMA AsksStep == Known /\ CallsInv /\ AnswersInv /\ FilesInv /\ AsksInv /\ [CNext]_cvars => AsksInv'
<1> SUFFICES ASSUME Known, CallsInv, AnswersInv, FilesInv, AsksInv, [CNext]_cvars, pc' = "ask", prog' = "sync" PROVE AsksInv'
  BY DEF AsksInv
<1>1. CASE UNCHANGED cvars
  <2>1. UNCHANGED <<kconfig, dot, user, now, changed, prog, chosen, pc, mode, todo>>
    BY <1>1 DEF cvars, vars, talk, files
  <2> QED
    BY <2>1 DEF AsksInv, Loud, Quiet
<1> QED
  BY <1>1, AsksWalk, AsksRead, RestStep

-----------------------------------------------------------------------------

\* What the lines of .config are like, from the answers to auto.conf.
SyncInv ==
    /\ pc = "edit" => prog # "sync"
    /\ pc = "write" /\ prog = "sync" => changed /\ Solves(kconfig, user, now)
    /\ pc \in {"written", "moved"} /\ prog = "sync" => Tells(Calculate(kconfig, user), out)
    /\ pc = "split" => dot # Missing /\ Tells(Calculate(kconfig, user), dot)
    /\ pc \in {"header", "auto"} => dot # Missing /\ Tells(now, dot)
    /\ pc = "auto" => header = Stored(now)
    /\ ~stale => /\ header = auto /\ \E n : auto = Stored(n)
                 /\ dot # Missing => ToSet(auto) = Picked(ToSet(dot))

LEMMA LinesTell ==
  ASSUME NEW n
  PROVE  Tells(n, Lines(n, Written(n)))
<1>1. ToSet(Lines(n, Written(n))) = LinesOf(n, Written(n))
  BY StoredSet, LinesSet
<1> QED
  BY <1>1, StoredSet DEF Tells

LEMMA SyncFiles ==
  ASSUME SyncInv, UNCHANGED <<dot, auto, header, stale>>
  PROVE  ~stale' => /\ header' = auto' /\ \E n : auto' = Stored(n)
                    /\ dot' # Missing => ToSet(auto') = Picked(ToSet(dot'))
BY DEF SyncInv

\* Steps at which no file is there yet to tell of.
LEMMA SyncNone ==
  ASSUME SyncInv, UNCHANGED <<dot, auto, header, stale>>,
         pc' \in {"idle", "ask"} \/ (pc' \in {"edit", "write", "written", "moved"} /\ prog' # "sync")
  PROVE  SyncInv'
<1>1. /\ ~(pc' = "write" /\ prog' = "sync") /\ ~(pc' \in {"written", "moved"} /\ prog' = "sync")
      /\ pc' # "split" /\ pc' \notin {"header", "auto"} /\ (pc' = "edit" => prog' # "sync")
  OBVIOUS
<1>2. \A n : Stored(n)' = Stored(n)
  OBVIOUS
<1> QED
  BY <1>1, SyncFiles DEF SyncInv, Tells

LEMMA SyncStep == Known /\ CallsInv /\ AnswersInv /\ FilesInv /\ AsksInv /\ SyncInv /\ [CNext]_cvars => SyncInv'
<1> SUFFICES ASSUME Known, CallsInv, AnswersInv, FilesInv, AsksInv, SyncInv, [CNext]_cvars PROVE SyncInv'
  OBVIOUS
<1>1. CASE Walk /\ ~EndAsking
  <2>1. pc' = "ask"
    BY <1>1 DEF Walk, Hidden, CheckOld, List, Restart, ConfMenu, ConfNoSymbol, ConfKnown, ConfEmpty, ConfSym, ConfString,
                Choose, Entering, Calling, Asking, NextPass, vars
  <2>2. UNCHANGED <<dot, auto, header, stale>>
    <3>1. UNCHANGED dot
      BY <1>1 DEF Walk, Hidden, CheckOld, List, Restart, ConfMenu, ConfNoSymbol, ConfKnown, ConfEmpty, ConfSym, ConfString,
                  Choose, Entering, Asking, NextPass, vars, files
    <3> QED
      BY <1>1, <3>1, WalkStep DEF sync
  <2> QED
    BY <2>1, <2>2, SyncNone
<1>2. CASE EndAsking
  <2>1. UNCHANGED <<kconfig, dot, auto, header, stale>> /\ pc = "ask"
    BY <1>2 DEF EndAsking, files, sync, Finished
  <2>2. CASE Exit
    BY <2>1, <2>2, SyncNone DEF Exit
  <2>3. CASE pc' = "write" /\ UNCHANGED <<prog, user, now, changed>> /\ (prog = "sync" => changed)
    <3>1. CASE prog # "sync"
      BY <2>1, <2>3, <3>1, SyncNone
    <3>2. CASE prog = "sync"
      BY <2>1, <2>3, <3>2, SyncFiles DEF SyncInv, AsksInv
    <3> QED
      BY <3>1, <3>2
  <2>4. CASE pc' = "split" /\ UNCHANGED <<prog, user, now, changed>> /\ prog = "sync" /\ ~changed
    <3>1. dot # Missing /\ Solves(kconfig, user, now) /\ ToSet(dot) = LinesOf(now, Written(now))
      BY <2>1, <2>4 DEF AsksInv
    <3>2. Calculate(kconfig, user) = now
      BY <3>1, SolutionIs DEF Known
    <3>3. Tells(now, dot)
      BY <3>1, StoredSet DEF Tells
    <3>4. (dot # Missing /\ Tells(Calculate(kconfig, user), dot))'
      BY <2>1, <2>4, <3>1, <3>2, <3>3 DEF Tells
    <3> QED
      BY <2>1, <2>4, <3>4, SyncFiles DEF SyncInv
  <2> QED
    BY <1>2, <2>2, <2>3, <2>4 DEF EndAsking
<1>3. CASE (\E m \in {"oldaskconfig", "oldconfig", "syncconfig", "listnewconfig"} : Begin(m)) \/ NewDefaults
  <2>1. UNCHANGED <<dot, auto, header, stale>> /\ (pc' = "ask" \/ (pc' = "write" /\ prog' = "conf"))
    BY <1>3 DEF Begin, NewDefaults, OldDefconfig, Load, files, sync
  <2> QED
    BY <2>1, SyncNone
<1>4. CASE \E m \in {"allyesconfig", "allnoconfig", "alldefconfig"}, seed \in Seeds : AllConfig(m, seed)
  <2>1. UNCHANGED <<dot, auto, header, stale>> /\ pc' = "write" /\ prog' = "conf"
    BY <1>4 DEF AllConfig, Load, files, sync
  <2> QED
    BY <2>1, SyncNone
<1>5. CASE Save
  <2>1. /\ pc \in {"edit", "write"} /\ pc' = "written" /\ out' = Lines(ToWrite, Written(ToWrite))
        /\ UNCHANGED <<kconfig, prog, user, dot, auto, header, stale>>
    BY <1>5 DEF Save, Write, files, sync
  <2>2. CASE prog # "sync"
    BY <2>1, <2>2, SyncNone
  <2>3. CASE prog = "sync" /\ pc = "write"
    <3>1. ToWrite = now /\ Calculate(kconfig, user) = now
      BY <2>3, SolutionIs DEF SyncInv, ToWrite, Known
    <3>2. Tells(Calculate(kconfig, user), out')
      BY <2>1, <3>1, LinesTell
    <3>3. Tells(Calculate(kconfig, user), out)'
      BY <2>1, <3>2 DEF Tells
    <3> QED
      BY <2>1, <3>3, SyncFiles DEF SyncInv
  <2> QED
    BY <2>1, <2>2, <2>3 DEF SyncInv
<1>6. CASE SaveOld
  <2>1. /\ pc = "written" /\ pc' = "moved" /\ dot' = Missing /\ out' = out
        /\ UNCHANGED <<kconfig, prog, user, auto, header, stale>>
    BY <1>6 DEF SaveOld, MoveOld, sync
  <2>2. prog = "sync" => Tells(Calculate(kconfig, user), out)'
    BY <2>1 DEF SyncInv, Tells
  <2> QED
    BY <2>1, <2>2 DEF SyncInv
<1>7. CASE SaveNew
  <2>1. pc = "moved" /\ dot' = out /\ stale' = TRUE
    BY <1>7 DEF SaveNew, Replace
  <2>2. CASE prog = "sync"
    <3>1. pc' = "split" /\ UNCHANGED <<kconfig, user, prog>>
      BY <1>7, <2>2 DEF SaveNew, Replace, GoOn
    <3>2. dot' # Missing
      BY <2>1, ProperThere DEF FilesInv
    <3>3. Tells(Calculate(kconfig, user), dot)'
      BY <2>1, <2>2, <3>1 DEF SyncInv, Tells
    <3> QED
      BY <2>1, <3>1, <3>2, <3>3 DEF SyncInv
  <2>3. CASE prog # "sync"
    <3>1. pc' = "idle"
      BY <1>7, <2>3 DEF SaveNew, Exit
    <3> QED
      BY <2>1, <3>1 DEF SyncInv
  <2> QED
    BY <2>2, <2>3
<1>8. CASE SaveFails \/ Killed
  <2>1. UNCHANGED <<dot, auto, header, stale>> /\ (MoveNewFails \/ Kill)
    BY <1>8 DEF SaveFails, Killed, MoveNewFails, Kill, files, sync
  <2>2. pc' = "idle" \/ (pc' = "edit" /\ prog' # "sync")
    BY <2>1 DEF MoveNewFails, Kill, Exit
  <2>3. CASE pc' = "idle"
    BY <2>1, <2>3, SyncNone
  <2>4. CASE pc' = "edit" /\ prog' # "sync"
    BY <2>1, <2>4, SyncNone
  <2> QED
    BY <2>2, <2>3, <2>4
<1>9. CASE Touch \/ Build \/ UNCHANGED cvars
  <2>1. UNCHANGED <<kconfig, pc, prog, user, now, changed, out, dot, auto, header, stale>>
    BY <1>9 DEF Touch, Build, vars, cvars, sync, files
  <2>2. \A n : Stored(n)' = Stored(n)
    OBVIOUS
  <2>3. /\ Tells(Calculate(kconfig, user), out)' <=> Tells(Calculate(kconfig, user), out)
        /\ Tells(Calculate(kconfig, user), dot)' <=> Tells(Calculate(kconfig, user), dot)
        /\ Tells(now, dot)' <=> Tells(now, dot)
        /\ Stored(now)' = Stored(now)
    BY <2>1 DEF Tells
  <2> QED
    BY <2>1, <2>3, SyncFiles DEF SyncInv
<1>10. CASE EndSplit
  <2>1. /\ pc = "split" /\ pc' = "header" /\ now' = Calculate(kconfig, user)
        /\ UNCHANGED <<kconfig, prog, user, dot, auto, header, stale>>
    BY <1>10 DEF EndSplit, files, sync
  <2>2. Tells(now, dot)'
    BY <2>1 DEF SyncInv, Tells
  <2> QED
    BY <2>1, <2>2, SyncFiles DEF SyncInv
<1>11. CASE MoveHeader
  <2>1. /\ pc = "header" /\ pc' = "auto" /\ header' = Stored(now)
        /\ UNCHANGED <<kconfig, prog, user, now, dot, auto, stale>>
    BY <1>11 DEF MoveHeader, files
  <2>2. Tells(now, dot)' /\ header' = Stored(now)'
    BY <2>1 DEF SyncInv, Tells
  <2>3. ASSUME ~stale PROVE header' = auto
    <3>1. PICK n : auto = Stored(n)
      BY <2>3 DEF SyncInv
    <3>2. ToSet(Stored(n)) = ToSet(Stored(now))
      BY <2>1, <2>3, <3>1 DEF SyncInv, Tells
    <3>3. Stored(n) = Stored(now)
      BY <3>2, StoredSame
    <3> QED
      BY <2>1, <3>1, <3>3
  <2>4. ~stale => (\E n : auto = Stored(n)) /\ (dot # Missing => ToSet(auto) = Picked(ToSet(dot)))
    BY DEF SyncInv
  <2> QED
    BY <2>1, <2>2, <2>3, <2>4 DEF SyncInv
<1>12. CASE MoveAuto
  <2>1. pc = "auto" /\ pc' = "idle" /\ auto' = Stored(now) /\ header' = header /\ dot' = dot
    BY <1>12 DEF MoveAuto, Exit, files
  <2>2. header' = auto' /\ (\E n : auto' = Stored(n)) /\ ToSet(auto') = Picked(ToSet(dot'))
    BY <2>1 DEF SyncInv, Tells
  <2> QED
    BY <2>1, <2>2 DEF SyncInv
<1>13. CASE NewTree
  <2>1. UNCHANGED <<dot, auto, header, stale>> /\ pc = "idle" /\ pc' = pc
    BY <1>13 DEF NewTree, Upgrade, files, sync
  <2> QED
    BY <2>1, SyncNone
<1>14. CASE EditDot
  <2>1. stale' = TRUE /\ pc = "idle" /\ pc' = pc
    BY <1>14 DEF EditDot
  <2> QED
    BY <2>1 DEF SyncInv
<1> QED
  BY <1>1, <1>2, <1>3, <1>4, <1>5, <1>6, <1>7, <1>8, <1>9, <1>10, <1>11, <1>12, <1>13, <1>14 DEF CNext

\* make finds auto.conf up to date only when autoconf.h agrees with it and both
\* with .config, wherever a program was killed and whatever syncconfig asked.
THEOREM AutoConfIsLast == CSpec => []AutoConfLast
<1>1. CInit => FilesInv /\ AsksInv /\ SyncInv
  <2> SUFFICES ASSUME CInit PROVE FilesInv /\ AsksInv /\ SyncInv
    OBVIOUS
  <2>1. dot \in Defconfigs \cup {Missing} /\ pc = "idle" /\ now = NotCalculated /\ stale = TRUE
    BY DEF CInit, Init
  <2> QED
    BY <2>1, DotProper, BlankProper DEF FilesInv, AsksInv, SyncInv
<1>2. Known /\ CallsInv /\ AnswersInv /\ FilesInv /\ AsksInv /\ SyncInv /\ [CNext]_cvars => (FilesInv /\ AsksInv /\ SyncInv)'
  BY FilesStep, AsksStep, SyncStep
<1>3. CSpec => [](FilesInv /\ AsksInv /\ SyncInv)
  BY <1>1, <1>2, AnswersHold, PTL DEF CSpec
<1>4. SyncInv => AutoConfLast
  BY DEF SyncInv, AutoConfLast, UpToDate, Picked
<1> QED
  BY <1>3, <1>4, PTL
=============================================================================
