---------------------------- MODULE MCHookReview ----------------------------
(* HookReview for TLC: hooks and sessions are interchangeable. *)
EXTENDS HookReview, TLC

Interchangeable == Permutations(Hooks) \union Permutations(Sessions)
=============================================================================
