---------------------------- MODULE MCRunContext ----------------------------
(* Two workers; one builder that polls, one that runs a rayon loop of its   *)
(* own (the lexical builder), one that does neither.                        *)
EXTENDS RunContext

CONSTANTS w1, w2, poll, nest, plain

MCWorkers  == {w1, w2}
MCBuilders == {poll, nest, plain}
MCPolling  == {poll}
MCNesting  == {nest}

=============================================================================
