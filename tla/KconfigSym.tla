----------------------------- MODULE KconfigSym -----------------------------
(***************************************************************************)
(* The symbols of kconfig and the files that hold them: symbol.c,          *)
(* confdata.c and the programs mconf (make menuconfig) and conf (make      *)
(* defconfig, olddefconfig, savedefconfig) of support/kconfig.             *)
(*                                                                         *)
(* Symbols are bools and strings, choices are bool and not optional, as in *)
(* BuildStaq's own Config.in files: no symbol is ever m there.  A          *)
(* condition is a disjunction of conjunctions of <<symbol, value>>: what   *)
(* the parser and menu_finalize turn Config.in into is the matter of       *)
(* KconfigExpr and KconfigMenu.                                            *)
(*                                                                         *)
(* A configuration file is a sequence of lines <<symbol, value>>;          *)
(* "# A is not set" is <<A, "n">>.                                         *)
(***************************************************************************)
EXTENDS Naturals, FiniteSetsExt, SequencesExt

CONSTANTS Bools,     \* the bool symbols
          Strings,   \* the string symbols
          Texts,     \* what may be entered for a string
          ChoiceSyms,   \* the choices
          ChoiceOf,  \* the choice of each bool that is a choice value
          Order,     \* all of them, each after those its conditions name
          Kconfigs,  \* the states of the Config.in files
          Defconfigs,\* the defconfigs and .configs that may be there at first
          MaxRuns, MaxEdits, MaxFails   \* bounds on programs, edits, failures

None == "none"        \* no choice value, no string
Symbols == Bools \cup Strings
IsValue(s) == s \in DOMAIN ChoiceOf

At(s) == CHOOSE i \in DOMAIN Order : Order[i] = s
Before(s) == {Order[i] : i \in 1 .. At(s) - 1}

ASSUME OrderAssumption ==
    /\ Bools \cap Strings = {} /\ Symbols \cap ChoiceSyms = {} /\ None \notin Symbols
    /\ DOMAIN ChoiceOf \subseteq Bools /\ ChoiceOf \in [DOMAIN ChoiceOf -> ChoiceSyms]
    /\ Order \in Seq(Symbols \cup ChoiceSyms)
    /\ \A s \in Symbols \cup ChoiceSyms : \E i \in DOMAIN Order : Order[i] = s
    /\ \A i, j \in DOMAIN Order : Order[i] = Order[j] => i = j

\* The symbols that a condition names.
Names(cond) == {l[1] : l \in UNION cond}

\* A condition names only what comes before in Order, as sym_check_deps is there
\* to ensure, and no choice value has a default of its own: menu_finalize warns
\* of one (menu.c:507), and none of the Config.in files has it.
ASSUME KconfigAssumption ==
    \A k \in Kconfigs, s \in Symbols \cup ChoiceSyms :
        /\ Names(k.prompt[s]) \subseteq Before(IF IsValue(s) THEN ChoiceOf[s] ELSE s)
        /\ DOMAIN k.default[s] \subseteq Nat
        /\ \A i \in DOMAIN k.default[s] :
               /\ Names(k.default[s][i].if) \subseteq Before(s)
               /\ s \in Bools => Names(k.default[s][i].val) \subseteq Before(s)
        /\ IsValue(s) => ChoiceOf[s] \in Before(s) /\ k.default[s] = <<>>
        /\ s \in Bools /\ ~IsValue(s) => Names(k.select[s]) \subseteq Before(s)

\* A line has a symbol and a value; one that no bool can have is not taken.
ASSUME FileAssumption ==
    /\ \A d \in Defconfigs :
           /\ Len(d) \in Nat /\ DOMAIN d = 1 .. Len(d)
           /\ \A i \in DOMAIN d :
                  /\ d[i] = <<d[i][1], d[i][2]>>
                  /\ d[i][1] \in Bools => d[i][2] \in {"y", "n"}
    /\ None \notin Texts

VARIABLES kconfig,   \* the Config.in files
          pc,        \* what the running program is doing
          prog,      \* the program: mconf or conf
          user,      \* def[S_DEF_USER], SYMBOL_DEF_USER and the picked choice values
          now,       \* curr, visible and SYMBOL_WRITE, as last calculated
          changed,   \* conf_get_changed
          out,       \* the file being written
          dot, old,  \* .config and .config.old
          defc,      \* the defconfig
          saved,     \* (history) the last .config that conf_write reported written
          runs, edits, fails

files == <<dot, old, defc, saved>>
bounds == <<runs, edits, fails>>
vars == <<kconfig, pc, prog, user, now, changed, out, files, bounds>>

Missing == << <<"missing">> >>

Members(c) == {s \in DOMAIN ChoiceOf : ChoiceOf[s] = c}
FirstOf(S) == IF S = {} THEN None ELSE CHOOSE s \in S : \A t \in S : At(s) <= At(t)

Blank == [ val  |-> [s \in Symbols |-> IF s \in Bools THEN "n" ELSE None],
           has  |-> {},
           pick |-> [c \in ChoiceSyms |-> None] ]

NotCalculated == [ cur |-> [s \in Symbols \cup ChoiceSyms |-> IF s \in Bools THEN "n" ELSE IF s \in Strings THEN "" ELSE None],
                   vis |-> {}, sel |-> {}, wr |-> {} ]

-----------------------------------------------------------------------------
(* sym_calc_value *)

Holds(cond, cur) == \E p \in cond : \A l \in p : cur[l[1]] = l[2]

\* The first of the defaults whose condition holds, if there is one.
Default(k, s, cur) ==
    LET on == {i \in DOMAIN k.default[s] : Holds(k.default[s][i].if, cur)}
    IN  {k.default[s][i] : i \in {j \in on : \A h \in on : j <= h}}

DefaultsToYes(k, s, cur) == \E d \in Default(k, s, cur) : Holds(d.val, cur)
DefaultText(k, s, cur) == IF Default(k, s, cur) = {} THEN "" ELSE (CHOOSE d \in Default(k, s, cur) : TRUE).val

VisibleMembers(k, c, cur) == {s \in Members(c) : Holds(k.prompt[c], cur) /\ Holds(k.prompt[s], cur)}

\* The choice value to take when the user's is not visible.
ChoiceDefault(k, c, cur) ==
    LET lit == VisibleMembers(k, c, cur)
        on == {i \in DOMAIN k.default[c] : Holds(k.default[c][i].if, cur) /\ k.default[c][i].val \in lit}
    IN  IF on # {} THEN k.default[c][Min(on)].val ELSE FirstOf(lit)

CalcChoice(k, u, n, c) ==
    LET lit == VisibleMembers(k, c, n.cur)
    IN  [cur |-> [n.cur EXCEPT ![c] = IF u.pick[c] \in lit THEN u.pick[c] ELSE ChoiceDefault(k, c, n.cur)],
         vis |-> n.vis \cup lit,
         sel |-> n.sel,
         wr  |-> n.wr]

CalcValueOfChoice(k, n, s) ==
    LET visible == s \in n.vis
        yes == IF visible THEN n.cur[ChoiceOf[s]] = s ELSE DefaultsToYes(k, s, n.cur)
    IN  [cur |-> [n.cur EXCEPT ![s] = IF yes THEN "y" ELSE "n"],
         vis |-> n.vis,
         sel |-> n.sel,
         wr  |-> IF visible \/ yes THEN n.wr \cup {s} ELSE n.wr]

CalcBool(k, u, n, s) ==
    LET visible == Holds(k.prompt[s], n.cur)
        selected == Holds(k.select[s], n.cur)
        dflt == DefaultsToYes(k, s, n.cur)
        wanted == IF visible /\ s \in u.has THEN u.val[s] = "y" ELSE dflt
    IN  [cur |-> [n.cur EXCEPT ![s] = IF wanted \/ selected THEN "y" ELSE "n"],
         vis |-> IF visible THEN n.vis \cup {s} ELSE n.vis,
         sel |-> IF selected THEN n.sel \cup {s} ELSE n.sel,
         wr  |-> IF visible \/ selected \/ dflt THEN n.wr \cup {s} ELSE n.wr]

CalcString(k, u, n, s) ==
    LET visible == Holds(k.prompt[s], n.cur)
    IN  [cur |-> [n.cur EXCEPT ![s] = IF visible /\ s \in u.has THEN u.val[s] ELSE DefaultText(k, s, n.cur)],
         vis |-> IF visible THEN n.vis \cup {s} ELSE n.vis,
         sel |-> n.sel,
         wr  |-> IF visible \/ Default(k, s, n.cur) # {} THEN n.wr \cup {s} ELSE n.wr]

Calc(k, u, n, s) ==
    CASE s \in ChoiceSyms -> CalcChoice(k, u, n, s)
      [] s \in Strings -> CalcString(k, u, n, s)
      [] IsValue(s)    -> CalcValueOfChoice(k, n, s)
      [] OTHER         -> CalcBool(k, u, n, s)

\* All the symbols, from the user's values u under the Config.in files k.
Calculate(k, u) ==
    LET upTo[i \in 0 .. Len(Order)] == IF i = 0 THEN NotCalculated ELSE Calc(k, u, upTo[i - 1], Order[i])
    IN  upTo[Len(Order)]

\* sym_is_changable; the reverse dependency of a choice value is never calculated.
Changable(n, s) == s \in n.vis \ n.sel
-----------------------------------------------------------------------------
(* conf_read *)

\* conf_read_simple: the last line for a symbol counts, and the last value that
\* is y of a choice.
UserOf(lines) ==
    LET of(s) == {i \in DOMAIN lines : lines[i][1] = s}
        picks(c) == {i \in DOMAIN lines : /\ IsValue(lines[i][1]) /\ ChoiceOf[lines[i][1]] = c
                                         /\ lines[i][2] = "y"}
    IN  [ val  |-> [s \in Symbols |-> IF of(s) = {} THEN Blank.val[s] ELSE lines[Max(of(s))][2]],
          has  |-> {s \in Symbols : of(s) # {}},
          pick |-> [c \in ChoiceSyms |-> IF picks(c) = {} THEN None ELSE lines[Max(picks(c))][1]] ]

\* What the warnings of conf_read_simple and the unknown symbols come to.
Odd(lines) ==
    \/ \E i \in DOMAIN lines : lines[i][1] \notin Symbols
    \/ \E i, j \in DOMAIN lines : i < j /\ \/ lines[i][1] = lines[j][1]
                                           \/ /\ IsValue(lines[i][1]) /\ IsValue(lines[j][1])
                                              /\ ChoiceOf[lines[i][1]] = ChoiceOf[lines[j][1]]
                                              /\ lines[i][2] = "y" /\ lines[j][2] = "y"

\* The saved value and the calculated one agree, or neither is there.
Agrees(u, n, s) == IF s \in u.has THEN s \in n.wr /\ u.val[s] = n.cur[s] ELSE s \notin n.wr

Unsaved(u, n) == \E s \in Symbols : ~Agrees(u, n, s)

Read(k, lines) ==
    LET u == UserOf(lines)
        n == Calculate(k, u)
    IN  [ user    |-> IF Unsaved(u, n) THEN u
                      ELSE [u EXCEPT !.has = {s \in @ : IsValue(s) \/ s \in n.vis}],
          now     |-> n,
          changed |-> Odd(lines) \/ Unsaved(u, n) ]

\* conf_read when there is no .config: nothing is set, and all is to be saved.
ReadDot == IF dot = Missing THEN [user |-> Blank, now |-> Calculate(kconfig, Blank), changed |-> TRUE]
           ELSE Read(kconfig, dot)
-----------------------------------------------------------------------------
(* conf_write, conf_write_defconfig *)

\* The lines of the symbols in S, with their values in n.
Lines(n, S) ==
    LET upTo[i \in 0 .. Len(Order)] ==
          IF i = 0 THEN <<>>
          ELSE IF Order[i] \in S THEN Append(upTo[i - 1], <<Order[i], n.cur[Order[i]]>>)
          ELSE upTo[i - 1]
    IN  upTo[Len(Order)]

Written(n) == n.wr \cap Symbols

\* (mutant) a choice value is left out whenever it is the chosen one
IsDefaultChosen(k, n, s) ==
    IF s \in Strings THEN n.cur[s] = DefaultText(k, s, n.cur)
    ELSE \/ n.cur[s] = IF DefaultsToYes(k, s, n.cur) \/ s \in n.sel THEN "y" ELSE "n"
         \/ IsValue(s) /\ n.cur[s] = "y"

\* sym_get_string_default, and the default of the choice
IsDefault(k, n, s) ==
    IF s \in Strings THEN n.cur[s] = DefaultText(k, s, n.cur)
    ELSE \/ n.cur[s] = IF DefaultsToYes(k, s, n.cur) \/ s \in n.sel THEN "y" ELSE "n"
         \/ IsValue(s) /\ n.cur[s] = "y" /\ s = ChoiceDefault(k, ChoiceOf[s], n.cur)

MinimalLines(k, n) == Lines(n, {s \in Written(n) : Changable(n, s) /\ ~IsDefault(k, n, s)})

\* What conf_write finds to write: nothing is calculated again after a change.
ToWrite == IF changed THEN now ELSE Calculate(kconfig, user)
-----------------------------------------------------------------------------
Init ==
    /\ kconfig \in Kconfigs
    /\ dot \in Defconfigs \cup {Missing}
    /\ defc \in Defconfigs
    /\ old = Missing
    /\ saved = dot
    /\ pc = "idle" /\ prog = "conf"
    /\ user = Blank /\ now = NotCalculated /\ changed = FALSE /\ out = <<>>
    /\ runs = 0 /\ edits = 0 /\ fails = 0

\* The program ends, or is killed, and with it all it had in memory.
Exit ==
    /\ pc' = "idle" /\ prog' = "conf"
    /\ user' = Blank /\ now' = NotCalculated /\ changed' = FALSE /\ out' = <<>>

Load(r, p, next) ==
    /\ pc = "idle" /\ runs < MaxRuns
    /\ runs' = runs + 1
    /\ prog' = p /\ pc' = next
    /\ user' = r.user /\ now' = r.now /\ changed' = r.changed
    /\ UNCHANGED <<kconfig, out, files, edits, fails>>

\* make menuconfig
Menuconfig == Load(ReadDot, "mconf", "edit")

\* make olddefconfig
OldDefconfig == Load(ReadDot, "conf", "write")

\* make defconfig: all is calculated again, with nothing new to set.
Defconfig ==
    LET r == Read(kconfig, defc)
    IN  Load([r EXCEPT !.now = Calculate(kconfig, r.user), !.changed = TRUE], "conf", "write")

\* make savedefconfig: the file is opened, and so emptied, before it is written.
SaveDefconfig ==
    /\ pc = "idle" /\ runs < MaxRuns
    /\ runs' = runs + 1
    /\ pc' = "defconfig"
    /\ defc' = <<>>
    /\ LET r == ReadDot IN user' = r.user /\ now' = r.now /\ changed' = r.changed
    /\ UNCHANGED <<kconfig, prog, out, dot, old, saved, edits, fails>>

EndSaveDefconfig ==
    /\ pc = "defconfig"
    /\ defc' = MinimalLines(kconfig, Calculate(kconfig, user))
    /\ Exit
    /\ UNCHANGED <<kconfig, dot, old, saved, bounds>>

\* (mutant) what is to be written is not found out again
ClearNotWritten(u, new) ==
    /\ user' = u
    /\ now' = IF new THEN [Calculate(kconfig, u) EXCEPT !.wr = now.wr] ELSE now
    /\ changed' = (changed \/ new)

\* A new value makes all that was calculated invalid.
Clear(u, new) ==
    /\ user' = u
    /\ now' = IF new THEN Calculate(kconfig, u) ELSE now
    /\ changed' = (changed \/ new)

Edit == pc = "edit" /\ edits < MaxEdits /\ edits' = edits + 1
        /\ UNCHANGED <<kconfig, pc, prog, out, files, runs, fails>>

\* sym_tristate_within_range, or no change at all
Accepts(s, v) == \/ v = now.cur[s]
                 \/ Changable(now, s) /\ (IsValue(s) => v = "y")

\* (mutant) the choice is not told
AnsweredUnpicked(u, s, v) ==
    [ val  |-> [u.val EXCEPT ![s] = v],
      has  |-> u.has \cup {s} \cup IF IsValue(s) /\ v = "y" THEN Members(ChoiceOf[s]) \cap now.vis ELSE {},
      pick |-> u.pick ]

\* With the answer v to the bool s, the visible values of its choice are answered.
Answered(u, s, v) ==
    [ val  |-> [u.val EXCEPT ![s] = v],
      has  |-> u.has \cup {s} \cup IF IsValue(s) /\ v = "y" THEN Members(ChoiceOf[s]) \cap now.vis ELSE {},
      pick |-> IF IsValue(s) /\ v = "y" THEN [u.pick EXCEPT ![ChoiceOf[s]] = s] ELSE u.pick ]

\* sym_set_tristate_value; a value that a symbol has anyway becomes its answer.
SetBool(s, v) ==
    /\ Edit /\ Accepts(s, v)
    /\ Clear(Answered(user, s, v), v # now.cur[s])

Entered(u, s, t) == [val |-> [u.val EXCEPT ![s] = t], has |-> u.has \cup {s}, pick |-> u.pick]

\* sym_set_string_value, of a string that is shown or not: a text that is that
\* of the last answer changes nothing.
SetString(s, t) == Edit /\ Clear(Entered(user, s, t), user.val[s] # t)

\* conf_write: the new file is written beside .config.  What is calculated for it
\* counts as a change (symbol.c:507) until the file is there.
Write ==
    /\ pc \in {"edit", "write"}
    /\ pc' = "written"
    /\ out' = Lines(ToWrite, Written(ToWrite))
    /\ now' = [ToWrite EXCEPT !.wr = {}]
    /\ changed' = TRUE
    /\ UNCHANGED <<kconfig, prog, user, files, bounds>>

\* (mutant) the new file is written where .config is
MoveOldInPlace ==
    /\ pc = "written"
    /\ pc' = "moved"
    /\ old' = <<>> /\ dot' = Missing
    /\ UNCHANGED <<kconfig, prog, user, now, changed, out, defc, saved, bounds>>

\* ..., .config becomes .config.old, if there is one
MoveOld ==
    /\ pc = "written"
    /\ pc' = "moved"
    /\ old' = IF dot = Missing THEN old ELSE dot
    /\ dot' = Missing
    /\ UNCHANGED <<kconfig, prog, user, now, changed, out, defc, saved, bounds>>

\* ... and the new file .config.
Replace ==
    /\ pc = "moved"
    /\ dot' = out /\ saved' = out
    /\ UNCHANGED <<kconfig, old, defc, bounds>>

\* The program goes on, with nothing to save.
GoOn(next) == pc' = next /\ changed' = FALSE /\ out' = <<>> /\ UNCHANGED <<prog, user, now>>

MoveNew == Replace /\ IF prog = "mconf" THEN GoOn("edit") ELSE Exit

\* The second rename fails: mconf says so and asks for a file again, conf exits.
MoveNewFails ==
    /\ pc = "moved" /\ fails < MaxFails
    /\ fails' = fails + 1
    /\ IF prog = "mconf"
       THEN pc' = "edit" /\ out' = <<>> /\ UNCHANGED <<prog, user, now, changed>>
       ELSE Exit
    /\ UNCHANGED <<kconfig, files, runs, edits>>

\* The user leaves the menu without saving.
Quit == pc = "edit" /\ Exit /\ UNCHANGED <<kconfig, files, bounds>>

\* The program is killed.
Kill ==
    /\ pc \notin {"idle", "edit"} /\ fails < MaxFails
    /\ fails' = fails + 1
    /\ Exit
    /\ UNCHANGED <<kconfig, files, runs, edits>>

\* The Config.in files change: another version, another br2-external tree.
Upgrade ==
    /\ pc = "idle" /\ runs \in 1 .. MaxRuns - 1
    /\ kconfig' \in Kconfigs \ {kconfig}
    /\ UNCHANGED <<pc, prog, user, now, changed, out, files, bounds>>

Next ==
    \/ Menuconfig \/ OldDefconfig \/ Defconfig \/ SaveDefconfig \/ EndSaveDefconfig
    \/ \E s \in Bools, v \in {"y", "n"} : SetBool(s, v)
    \/ \E s \in Strings, t \in Texts : SetString(s, t)
    \/ Write \/ MoveOld \/ MoveNew \/ MoveNewFails \/ Quit \/ Kill \/ Upgrade

Spec == Init /\ [][Next]_vars
-----------------------------------------------------------------------------
(* Properties *)

\* A string entered again after conf_read dropped it is left as it was.
LeftOver == \E s \in Strings \cap user.has \cap now.vis : user.val[s] # now.cur[s]

\* What the menus show is what the answers of the user come to, whatever was
\* set before and however often it was saved, although sym_calc_value only
\* calculates what was made invalid (symbol.c:357-498, sym_clear_all_valid);
\* and while there are changes, conf_write finds marked what it has to write.
CacheFresh ==
    pc = "edit" /\ ~LeftOver =>
        LET fresh == Calculate(kconfig, user)
        IN  /\ now.cur = fresh.cur /\ now.vis = fresh.vis
            /\ changed /\ fails = 0 => now.wr = fresh.wr

\* In either of the two forms it can be kept in, a configuration is whole:
\* reading back the .config that conf_write makes of the answers gives every
\* symbol the value it had, and leaves nothing to be saved (confdata.c:407); and
\* what savedefconfig leaves out is redundant (confdata.c:663-738).
ReadBack ==
    pc \in {"edit", "defconfig"} =>
        LET fresh == Calculate(kconfig, user)
            back == Read(kconfig, Lines(fresh, Written(fresh)))
        IN  /\ back.now.cur = fresh.cur /\ ~back.changed
            /\ Read(kconfig, MinimalLines(kconfig, fresh)).now.cur = fresh.cur

\* Whenever the program is killed, the configuration last saved is there, as
\* .config or else as .config.old (confdata.c:828-834).
SavedSurvives == saved # Missing => \/ dot = saved
                                    \/ dot = Missing /\ old = saved

\* What is saved are all the answers (confdata.c:803-810).
SavedWhole ==
    pc \in {"written", "moved"} /\ ~LeftOver =>
        LET fresh == Calculate(kconfig, user)
        IN  out = Lines(fresh, Written(fresh))
=============================================================================
