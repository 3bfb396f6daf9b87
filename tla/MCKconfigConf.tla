---------------------------- MODULE MCKconfigConf ----------------------------
(***************************************************************************)
(* A, hidden and y until P is set, which is asked last, with X below it; a *)
(* choice C of CA and CB, with D below CB, where CB needs P; a menu M, of  *)
(* a string S, that is visible with P; and a menuconfig G.  In another     *)
(* tree A is n until G, the last to be new, selects it, and C needs G.     *)
(***************************************************************************)
EXTENDS KconfigConf

MCBools == {"A", "X", "CA", "CB", "D", "G", "P"}
MCStrings == {"S"}
MCTexts == {"x", ""}
MCChoices == {"C"}
MCChoiceOf == [s \in {"CA", "CB"} |-> "C"]
MCOrder == <<"G", "P", "A", "X", "C", "CA", "CB", "D", "S">>

Always == {{}}
Never == {}
Is(s) == {{<<s, "y">>}}
Both(s, t) == {{<<s, "y">>, <<t, "y">>}}
Yes(if) == [val |-> Always, if |-> if]

Prompts == [A |-> Is("P"), X |-> Is("A"), C |-> Always, CA |-> Always, CB |-> Is("P"), D |-> Is("CB"), G |-> Always, P |-> Always, S |-> Is("P")]
Defaults == [s \in MCBools \cup MCStrings \cup MCChoices |->
                CASE s = "A" -> <<Yes(Always)>>
                  [] s = "C" -> <<[val |-> "CB", if |-> Is("G")]>>
                  [] s = "S" -> <<[val |-> "x", if |-> Is("X")], [val |-> "", if |-> Always]>>
                  [] s = "P" -> <<Yes(Is("G"))>>
                  [] OTHER -> <<>>]
Selects == [s \in MCBools |-> Never]

MCKconfigs ==
    { [prompt |-> Prompts, default |-> Defaults, select |-> Selects],
      [prompt |-> [Prompts EXCEPT !.CA = Is("G"), !.D = Both("CB", "G")],
       default |-> [Defaults EXCEPT !.A = <<>>, !.D = <<Yes(Both("CB", "G"))>>],
       select |-> [Selects EXCEPT !["A"] = Is("G")]] }

MCDefconfigs == { << <<"P", "n">>, <<"CA", "y">> >> }

MCEntries == {"root", "M"} \cup MCBools \cup MCStrings \cup MCChoices
MCChildren == [e \in MCEntries |-> CASE e = "root" -> <<"A", "C", "M", "G">>
                                     [] e = "A" -> <<"X">>
                                     [] e = "C" -> <<"CA", "CB">>
                                     [] e = "CB" -> <<"D">>
                                     [] e = "M" -> <<"S">>
                                     [] e = "G" -> <<"P">>
                                     [] OTHER -> <<>>]
MCKind == [e \in MCEntries |-> CASE e \in {"root", "M"} -> "menu"
                                 [] e = "C" -> "choice"
                                 [] e = "G" -> "menuconfig"
                                 [] OTHER -> "config"]
MCSymOf == [e \in MCEntries |-> IF e \in {"root", "M"} THEN Nobody ELSE e]
MCShownIf == [e \in MCEntries |-> Always]
MCVisibleIf == [e \in MCEntries |-> IF e = "M" THEN Is("P") ELSE Always]
MCSeeds == {Missing, << <<"CA", "y">>, <<"S", "x">>, <<"A", "n">> >>}
=============================================================================
