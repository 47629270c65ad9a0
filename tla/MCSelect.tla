------------------------------ MODULE MCSelect ------------------------------
(* Select for TLC: a class, its header and a method in one changed file,   *)
(* one function in another, and a function beside the change.              *)
EXTENDS Select

Fragment(p, first, last, sort, cost) ==
    [path |-> p, start |-> first, end |-> last, kind |-> sort, tokens |-> cost]

World(sizes, cores, excerpts, preferred, low, open, limit) ==
    LET outer     == Fragment(1, 1, 6, "full", sizes[1])
        stub      == Fragment(1, 1, 2, "signature", 1)
        window    == Fragment(1, 4, 5, "excerpt", 2)
        header    == Fragment(1, 1, 3, "full", sizes[2])
        method    == Fragment(1, 4, 6, "full", sizes[2])
        row       == Fragment(1, 8, 8, "full", sizes[2])
        record    == Fragment(1, 9, 9, "full", sizes[2])
        other     == Fragment(2, 1, 3, "full", sizes[3])
        rest      == Fragment(2, 5, 6, "full", 2)
        otherStub == Fragment(2, 1, 1, "signature", 1)
        context   == Fragment(3, 1, 3, "full", 6)
        contextStub == Fragment(3, 1, 1, "signature", 1)
        more      == Fragment(3, 5, 6, "full", 3)
        beside == {stub, otherStub, context, contextStub, more}
        named  == [outer |-> outer, header |-> header, method |-> method, row |-> row,
                   record |-> record, other |-> other, rest |-> rest]
        chosen == {named[n] : n \in cores}
        cut    == IF excerpts /\ outer \in chosen THEN {outer} ELSE {}
    IN [fragments |-> chosen \union beside,
        core |-> chosen,
        excerpt |-> [c \in cut |-> window],
        worthwhile |-> IF preferred THEN cut ELSE {},
        changed |-> [c \in chosen |-> IF c = outer THEN 6 ELSE 1],
        tier |-> [p \in {1, 2} |-> IF p = low THEN 1 ELSE 0],
        covers |-> [f \in chosen \union beside \union {window} |->
            CASE f = outer -> {"a", "b"}
              [] f = other \/ f = rest -> {"c"}
              [] f = more -> {"e"}
              [] f = context \/ f = contextStub -> {"d"}
              [] OTHER -> {"a"}],
        admissible |-> open, declared |-> open, budget |-> limit]

Names ==
    ({3, 7} \X {2, 4} \X {2, 5})
    \X {{"outer", "other"}, {"outer", "header", "other"}, {"outer", "method", "other"},
        {"outer", "header", "method", "other"}, {"outer", "row", "record", "other", "rest"}}
    \X {<<FALSE, FALSE>>, <<TRUE, FALSE>>, <<TRUE, TRUE>>}
    \X {0, 1, 2} \X {{}, {3}} \X {3, 6, 16, 24}

\* Nothing fits but a clip of a class, and then the header it lies in.
Tight ==
    LET outer  == Fragment(1, 1, 6, "full", 2)
        header == Fragment(1, 1, 3, "full", 1)
        chosen == {outer, header}
    IN [fragments |-> chosen, core |-> chosen, excerpt |-> [c \in {} |-> c],
        worthwhile |-> {}, changed |-> [c \in chosen |-> IF c = outer THEN 6 ELSE 1],
        tier |-> [p \in {1, 2} |-> 0], covers |-> [f \in chosen |-> {"a"}],
        admissible |-> {}, declared |-> {}, budget |-> 1]

MCWorlds == {Tight} \union {World(n[1], n[2], n[3][1], n[3][2], n[4], n[5], n[6]) : n \in Names}

\* A long function, and the last chunk of it, both changed by a hunk that
\* runs past the function's end: the lines around the hunk are the same.
FunctionEnd(cores) ==
    LET function == Fragment(1, 1, 9, "full", 7)
        chunk    == Fragment(1, 4, 9, "full", 5)
        window   == Fragment(1, 8, 9, "excerpt", 2)
        chosen == IF cores = 1 THEN {function} ELSE {function, chunk}
    IN [fragments |-> chosen, core |-> chosen,
        excerpt |-> [c \in chosen |-> window], worthwhile |-> chosen,
        changed |-> [c \in chosen |-> 1], tier |-> [p \in {1} |-> 0],
        covers |-> [f \in chosen \union {window} |->
                       IF f = function THEN {"a", "b"} ELSE {"a"}],
        admissible |-> {}, declared |-> {}, budget |-> 24]

MCTails == {FunctionEnd(1), FunctionEnd(2)}
MCTail  == {FunctionEnd(1)}
=============================================================================
