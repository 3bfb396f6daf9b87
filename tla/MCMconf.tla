------------------------------- MODULE MCMconf -------------------------------
(***************************************************************************)
(* A goal G that selects A; P without a prompt; A with its option B below, *)
(* shown when CB is chosen; a menu M with a string S and a comment; a      *)
(* choice C of CA, which has an option CX, and CB.  Terminals of 4, 3 and  *)
(* 1 lines stand for ones where all boxes fit, where no choice fits, and   *)
(* where no menu fits.                                                     *)
(***************************************************************************)
EXTENDS Mconf

MCBools == {"G", "A", "B", "CA", "CB", "CX", "P"}
MCStrings == {"S"}
MCLetters == {"a", Space, "o", "h", "x"}
MCTexts == {""} \cup MCLetters \cup {first \o second : first, second \in MCLetters}
MCChoices == {"C"}
MCChoiceOf == [s \in {"CA", "CB"} |-> "C"]
MCOrder == <<"G", "P", "C", "CA", "CB", "A", "B", "CX", "S">>

Always == {{}}
Never == {}
Is(s) == {{<<s, "y">>}}

MCKconfigs ==
    { [ prompt |-> [G |-> Always, C |-> Always, CA |-> Always, CB |-> Always,
                    A |-> Is("CB"), B |-> Is("A"), CX |-> Is("CA"), S |-> Is("A"), P |-> Never],
        default |-> [s \in MCBools \cup MCStrings \cup MCChoices |->
                        IF s = "S" THEN <<[val |-> "aa", if |-> Always]>>
                        ELSE IF s = "A" THEN <<[val |-> Always, if |-> Is("CB")]>> ELSE <<>>],
        select |-> [s \in MCBools |-> IF s = "A" THEN Is("G") ELSE Never] ] }
MCDefconfigs == { << <<"G", "y">>, <<"CB", "y">> >> }

MCEntries == {"root", "M", "W", "V"} \cup MCBools \cup MCStrings \cup MCChoices
MCChildren == [e \in MCEntries |-> CASE e = "root" -> <<"G", "P", "A", "M">>
                                     [] e = "A" -> <<"B">>
                                     [] e = "M" -> <<"W", "S", "C">>
                                     [] e = "C" -> <<"CA", "V", "CB">>
                                     [] e = "CA" -> <<"CX">>
                                     [] OTHER -> <<>>]
MCKind == [e \in MCEntries |-> CASE e \in {"root", "M"} -> "menu"
                                 [] e \in {"W", "V"} -> "comment"
                                 [] e = "C" -> "choice"
                                 [] e = "G" -> "menuconfig"
                                 [] OTHER -> "config"]
MCSymOf == [e \in MCEntries |-> IF e \in {"root", "M", "W", "V"} THEN Nobody ELSE e]
MCShownIf == [e \in MCEntries |-> IF e = "W" THEN Is("A") ELSE Always]
MCVisibleIf == [e \in MCEntries |-> Always]
MCHot == [e \in MCEntries |-> IF e \in {"A", "M", "CA"} THEN "a" ELSE "c"]
MCPrompted == MCEntries \ {"P"}
MCPromptsOf == [s \in MCBools \cup MCStrings |-> SelectSeq(<<s>>, LAMBDA e : e \in MCPrompted)]
MCMatches == [t \in MCTexts |-> IF t = "a" THEN <<"B", "P", "CB", "S", "CX">> ELSE <<>>]
MCHelpLines == [e \in MCEntries |-> IF e = "root" THEN 5 ELSE 2]
MCFrame == [menu |-> 1, text |-> 2]
MCNeeds == [menu |-> 2, list |-> 4, input |-> 2, text |-> 3, ask |-> 1]
Keys == [menu  |-> {"up", "down", "pgup", "pgdn", "right", "enter", "space", "y", "n", "h", "slash", "z", "a", "esc"},
         list  |-> {"up", "down", "left", "enter", "a", "esc"},
         input |-> {"a", "space", "left", "right", "backspace", "tab", "enter", "esc"},
         text  |-> {"up", "down", "pgup", "pgdn", "home", "end", "left", "right", "1", "2", "3", "enter"},
         ask   |-> {"y", "n", "right", "enter", "esc"}]
MCKeyboard == UNION {Keys[kind] : kind \in DOMAIN Keys}

\* The buttons of a menu are turned to on its last row, and then pressed; a
\* search is begun there, and help asked for; a blank is typed into an empty field;
\* a help text is scrolled to the right on its first line.
MCTried(b, key) ==
    /\ key \in Keys[b.kind]
    /\ b.kind = "menu" /\ key \in {"right", "slash", "h"} => b.choice + 1 >= b.max
    /\ b.kind = "input" /\ key = "space" => b.button # -1 \/ b.text = ""
    /\ b.kind = "text" /\ key = "right" => b.top = 0 /\ ~b.text.search
    /\ b.kind = "menu" /\ b.button # 0 => key \in {"right", "enter"}
=============================================================================
