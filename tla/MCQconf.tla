-------------------------------- MODULE MCQconf --------------------------------
(***************************************************************************)
(* A and a menu M at the top.  In M, B with a menuconfig G below it, and X *)
(* in G; a choice C of CA and CB, a string S, and U, without a prompt.  A  *)
(* selects B, and brings CB up, which brings S up.                         *)
(***************************************************************************)
EXTENDS Qconf

MCBools == {"A", "B", "G", "X", "CA", "CB", "U"}
MCStrings == {"S"}
MCTexts == {"x"}
MCChoices == {"C"}
MCChoiceOf == [s \in {"CA", "CB"} |-> "C"]
MCOrder == <<"A", "B", "G", "X", "C", "CA", "CB", "S", "U">>

Always == {{}}
Never == {}
Is(s) == {{<<s, "y">>}}

MCKconfigs ==
    { [ prompt |-> [A |-> Always, B |-> Always, G |-> Is("B"), X |-> Is("G"), C |-> Always, CA |-> Always, CB |-> Is("A"),
                    S |-> Is("CB"), U |-> Never],
        default |-> [s \in MCBools \cup MCStrings \cup MCChoices |->
                        IF s = "U" THEN <<[val |-> Always, if |-> Is("X")]>> ELSE <<>>],
        select |-> [s \in MCBools |-> IF s = "B" THEN Is("A") ELSE Never] ] }
MCDefconfigs == { << <<"A", "n">>, <<"B", "y">>, <<"G", "y">>, <<"X", "n">>, <<"CA", "y">> >> }

MCEntries == {"root", "M"} \cup MCBools \cup MCStrings \cup MCChoices
MCChildren == [e \in MCEntries |-> CASE e = "root" -> <<"A", "M">>
                                     [] e = "M" -> <<"B", "C", "S", "U">>
                                     [] e = "B" -> <<"G">>
                                     [] e = "G" -> <<"X">>
                                     [] e = "C" -> <<"CA", "CB">>
                                     [] OTHER -> <<>>]
MCKind == [e \in MCEntries |-> CASE e \in {"root", "M"} -> "menu"
                                 [] e = "C" -> "choice"
                                 [] e = "G" -> "menuconfig"
                                 [] OTHER -> "config"]
MCSymOf == [e \in MCEntries |-> IF e \in {"root", "M"} THEN Nobody ELSE e]
MCPrompted == MCEntries \ {"U"}
MCShownIf == [e \in MCEntries |-> Always]
MCVisibleIf == [e \in MCEntries |-> Always]
MCSearches == {<<>>, <<"X", "CB", "A">>}
=============================================================================
