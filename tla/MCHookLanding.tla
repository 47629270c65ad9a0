--------------------------- MODULE MCHookLanding ----------------------------
(* Two sessions in one checkout: one commits in the background and in the   *)
(* foreground, the other merges and amends.                                 *)
EXTENDS HookLanding, TLC

CONSTANTS s1, s2, h1, h2, slow, quick, peer

MCLines   == {slow, quick, peer}
MCSession == [l \in MCLines |-> IF l = peer THEN s2 ELSE s1]
MCVerbs   == [l \in MCLines |-> CASE l = slow  -> {"commit"}
                                   [] l = quick -> {"commit", "reset"}
                                   [] l = peer  -> {"merge", "amend"}]
\* A merge in the foreground, beside the commit of the line in the background.
MergeVerbs == [MCVerbs EXCEPT ![quick] = {"merge"}]
Interchangeable == Permutations(Hooks)
=============================================================================
