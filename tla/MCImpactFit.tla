----------------------------- MODULE MCImpactFit -----------------------------
(* ImpactFit for TLC: answers with up to three symbols, and each list that *)
(* can be shed empty, short, or longer than its cap, delivered as JSON, as *)
(* markdown and as the hook's text.                                        *)
EXTENDS ImpactFit

Caller(evidence, weight) == [evidence |-> evidence, weight |-> weight]
Symbol(id, callers, unresolved, compatible) ==
    [id |-> id, callers |-> callers, unresolved |-> unresolved, compatible |-> compatible]

MCChanged == {
    <<>>,
    <<Symbol(1, <<>>, FALSE, FALSE)>>,
    <<Symbol(1, <<>>, FALSE, TRUE), Symbol(2, <<>>, TRUE, FALSE)>>,
    <<Symbol(1, <<Caller("direct", 3), Caller("direct", 2), Caller("candidate", 1)>>, FALSE, FALSE),
      Symbol(2, <<Caller("direct", 1)>>, TRUE, FALSE)>>,
    <<Symbol(1, <<Caller("direct", 3), Caller("candidate", 2)>>, TRUE, FALSE),
      Symbol(2, <<Caller("direct", 1), Caller("name", 1)>>, FALSE, FALSE),
      Symbol(3, <<>>, FALSE, FALSE)>>,
    <<Symbol(1, <<Caller("direct", 3), Caller("direct", 1)>>, FALSE, FALSE),
      Symbol(2, <<Caller("direct", 4), Caller("direct", 2)>>, FALSE, FALSE),
      Symbol(3, <<Caller("name", 1)>>, FALSE, FALSE)>>}

MCAnswers == [
    fixed : {3}, other : BOOLEAN, files : {1, 4}, untracked : {0, 3}, named : {0, 2},
    layout : {0, 3}, unread : {0, 2}, contracts : {0, 1}, stale : {0, 1}, changed : MCChanged,
    filesOmitted : {0}, untrackedOmitted : {0}, namedOmitted : {0}, layoutOmitted : {0},
    unreadOmitted : {0}, contractsOmitted : {0}, staleOmitted : {0}, symbolsOmitted : {0},
    truncated : {0}, possible : {0}, textual : {0}, empty : {FALSE}]

(* What is delivered, in units of about seven tokens.  JSON: an object for  *)
(* a row, a number for a count.  Text: a list has a heading, and a line for *)
(* its count; files and untracked files are only counted, in the header     *)
(* (`fixed`); of the unread files two are named; the line that counts the *)
(* callers left out is the longest.  The hook's text lists no candidate.    *)
CountLines(o, counts) == Cardinality({f \in counts : o[f] > 0})

Json(o) ==
    o.fixed + 4 * (Len(o.changed) + Callers(o, Kinds) + o.named + o.contracts + o.stale)
    + 2 * (o.files + o.untracked + o.layout + o.unread)
    + CountLines(o, {"filesOmitted", "untrackedOmitted", "namedOmitted", "layoutOmitted",
                     "unreadOmitted", "contractsOmitted", "staleOmitted", "truncated"})

\* write_list
Listed(rows, shown, omitted) ==
    IF rows + omitted = 0 THEN 0
    ELSE 2 + 2 * Min({rows, shown}) + (IF rows > shown \/ omitted > 0 THEN 1 ELSE 0)

Candidates(s, shown) ==
    LET rows == Cardinality({j \in DOMAIN s.callers : s.callers[j].evidence = "candidate"})
    IN 3 * Min({rows, shown}) + (IF rows > shown THEN 2 ELSE 0)

Text(o, candidates) ==
    o.fixed
    + (IF o.unread = 0 THEN 0 ELSE 3 + Min({o.unread, 2}) + (IF o.unreadOmitted > 0 THEN 1 ELSE 0))
    + 2 * Len(o.changed) + 3 * Cardinality({i \in DOMAIN o.changed : o.changed[i].unresolved})
    + 2 * Cardinality({i \in DOMAIN o.changed : o.changed[i].compatible})
    + 3 * Callers(o, {"direct"})
    + FoldFunction(LAMBDA s, n : n + Candidates(s, candidates), 0, o.changed)
    + Listed(o.layout, LayoutListed, o.layoutOmitted)
    + Listed(o.stale, o.stale, o.staleOmitted)
    + Listed(Callers(o, {"name"}), 12, o.textual)
    + Listed(o.named, o.named, o.namedOmitted)
    + Listed(o.contracts, o.contracts, o.contractsOmitted)
    + (IF o.truncated > 0 THEN 4 ELSE 0)

MCForms == {"json", "markdown", "hook"}
MCMeasure(f, o) == CASE f = "json"     -> Json(o)
                     [] f = "markdown" -> Text(o, 3)
                     [] f = "hook"     -> Text(o, 0)

MCCaps == {4, 9, 14, 19, 26, 34}
==============================================================================
