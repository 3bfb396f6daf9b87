------------------------------ MODULE MCMkUsers ------------------------------
(* Every table of up to two entries over a few names and ids.              *)
EXTENDS MkUsers

MCUser == {"root", "a", "b", "c"}
MCGroup == {"g", "h", "k"}

Line(u, n, g, m, h, gs) == [user |-> u, uid |-> n, group |-> g, gid |-> m, home |-> h, groups |-> gs]

Sound == {Line(u, n, g, m, "dir", gs) :
            u \in {NoUser, "a", "b"}, n \in {Automatic, 7, MinId}, g \in {"g", "h"},
            m \in {Automatic, 5, MinId}, gs \in {<<>>, <<"k", "h">>}}

Unsound == {Line("root", Automatic, "g", Automatic, "-", <<>>), Line("b", -2, "h", Automatic, "-", <<>>),
            Line("b", 0, "h", Automatic, "-", <<>>), Line("b", 7, "h", 0, "-", <<>>), Line("b", 7, "h", -2, "-", <<>>),
            Line("a", Automatic, "g", Automatic, "bad", <<>>)}

Pairs == {<<e, f>> : e, f \in Sound \cup Unsound}

\* The skeleton: nobody but root, or the user a in the group g.
Bare == [uid |-> [u \in MCUser |-> IF u = "root" THEN 0 ELSE None],
         ugid |-> [u \in MCUser |-> IF u = "root" THEN 0 ELSE None],
         gid |-> [g \in MCGroup |-> None],
         members |-> [g \in MCGroup |-> {}],
         hasGshadow |-> FALSE]
Peopled == [Bare EXCEPT !.uid["a"] = MinId, !.ugid["a"] = 5, !.gid["g"] = 5, !.gid["k"] = MaxId,
                        !.members["g"] = {"b"}, !.hasGshadow = TRUE, !.uid["c"] = MaxId]

MCSkeletons == {Bare, Peopled}
=============================================================================
