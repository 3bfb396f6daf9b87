---------------------------- MODULE MCKconfigSym ----------------------------
(***************************************************************************)
(* A system A, a library L, an application B that needs A, a hidden H, a   *)
(* choice C of CA and CB, and a string S; three states of the Config.in    *)
(* files: what is selected, what each prompt and each default depend on.   *)
(***************************************************************************)
EXTENDS KconfigSym

MCBools == {"A", "L", "B", "H", "CA", "CB"}
MCStrings == {"S"}
MCTexts == {"x", "y"}
MCChoices == {"C"}
MCChoiceOf == [s \in {"CA", "CB"} |-> "C"]
MCOrder == <<"A", "L", "B", "H", "C", "CA", "CB", "S">>

Always == {{}}
Never == {}
Is(s) == {{<<s, "y">>}}
Not(s) == {{<<s, "n">>}}
Yes(if) == [val |-> Always, if |-> if]

Choosing(prompt, default, select) == [prompt |-> prompt, default |-> default, select |-> select]

Prompts == [A |-> Always, L |-> Always, B |-> Is("A"), H |-> Never, C |-> Always, CA |-> Always, CB |-> Is("B"), S |-> Is("H")]
Defaults == [A |-> <<>>, L |-> <<>>, B |-> <<Yes(Is("A"))>>, H |-> <<[val |-> Is("B"), if |-> Always]>>,
             C |-> <<[val |-> "CB", if |-> Always]>>, CA |-> <<>>, CB |-> <<>>, S |-> <<[val |-> "x", if |-> Is("H")]>>]
Selects == [s \in MCBools |-> IF s = "L" THEN Is("A") ELSE Never]

MCKconfigs ==
    { Choosing(Prompts, Defaults, Selects),
      \* a choice and a string with prompts of their own conditions, and two defaults each
      Choosing([Prompts EXCEPT !.C = Is("A"), !.CB = Is("L"), !.S = Is("A")],
               [Defaults EXCEPT !.C = <<[val |-> "CB", if |-> Is("B")], [val |-> "CA", if |-> Always]>>,
                                !.S = <<[val |-> "x", if |-> Not("A")], [val |-> "y", if |-> Always]>>],
               [Selects EXCEPT !["H"] = {{<<"L", "y">>, <<"A", "y">>}}]),
      \* H can be set, and is selected by what is chosen before it
      Choosing([Prompts EXCEPT !.H = Always, !.S = Always],
               [Defaults EXCEPT !.L = <<Yes(Always)>>, !.C = <<>>, !.S = <<[val |-> "y", if |-> Is("CA")]>>],
               [Selects EXCEPT !["H"] = Is("B")]) }

\* defconfigs as they are written, and as they are pasted together
MCDefconfigs == { << <<"A", "y">>, <<"CB", "y">> >>,
                  << <<"A", "y">>, <<"B", "n">>, <<"CA", "y">>, <<"S", "y">>, <<"CB", "y">>, <<"Gone", "y">> >> }
=============================================================================
