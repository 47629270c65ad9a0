---------------------------- MODULE MCTokenCache ----------------------------
(* TokenCache for TLC: one text with other line endings, and one other.    *)
EXTENDS TokenCache, Sequences, TLC

MCTexts == {"a", "a in CRLF", "b"}
MCClean == [t \in MCTexts |-> IF t = "a in CRLF" THEN "a" ELSE t]
MCTerms == [t \in MCTexts |-> "counts of " \o MCClean[t]]

\* The two runs of the working tree are interchangeable.
Alike == Permutations(Runs \ Snapshots)
=============================================================================
