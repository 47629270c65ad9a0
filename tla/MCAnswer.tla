------------------------------ MODULE MCAnswer ------------------------------
(* Answer for TLC: the inputs of MCSelect, with a function the change uses *)
(* in a file of its own, two callers the filter left out, and two changed  *)
(* files without a core: one renamed, one that has no fragments.           *)
EXTENDS Answer, MCSelect, TLC

Helper  == Fragment(4, 1, 3, "full", 3)
HelperStub == Fragment(4, 1, 1, "signature", 1)
Near    == Fragment(5, 1, 4, "full", 2)
NearStub == Fragment(5, 1, 1, "signature", 1)
Far     == Fragment(6, 1, 2, "full", 3)
Renamed == Fragment(7, 1, 5, "full", 2)
Blank   == Fragment(8, 1, 9, "full", 4)

\* With whether the change reaches the helper and its near caller.
Answered(w, reached) ==
    [w EXCEPT !.fragments = @ \union {Helper, HelperStub},
              !.covers = @ @@ (Helper :> {} @@ HelperStub :> {}),
              !.admissible = @ \union reached]
    @@ [others  |-> {Near, NearStub, Far, Renamed},
        names   |-> (Helper :> "helper" @@ HelperStub :> "helper"),
        refs    |-> {<<Id(f), Id(Helper)>> : f \in {f \in w.fragments : f.end >= 6}},
        score   |-> (Near :> 4 @@ Far :> 3 @@ HelperStub :> 1),
        changedFiles |-> {1, 2, 7, 8},
        whole   |-> (8 :> Blank)]

MCAnswers == {Answered(w, reached) : w \in MCWorlds, reached \in {{}, {4, 5}}}
=============================================================================
