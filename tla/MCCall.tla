------------------------------- MODULE MCCall -------------------------------
(* Call for TLC: one call whose git writes more than it is asked to keep,  *)
(* and one that only computes.                                            *)
EXTENDS Call

CONSTANTS Loud, Quiet

MCCalls == {Loud, Quiet}
MCOutput == [c \in {Loud} |-> [p \in Pipes |-> IF p = "stdout" THEN 1 ELSE 2]]
=============================================================================
