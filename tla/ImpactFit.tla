------------------------------ MODULE ImpactFit ------------------------------
(***************************************************************************)
(* An impact answer cut to the cap on what the reader receives (impact.rs, *)
(* fit_with): entries are shed one by one, least needed first, and how     *)
(* many must go is found in doubling strides, then halved.                 *)
(*                                                                         *)
(* An answer is a record of counts, and in `changed` a sequence of         *)
(* symbols, each with its callers, strongest first.  `fixed` stands for    *)
(* the text that nothing sheds, `other` for what is neither shed nor       *)
(* compatible with an empty answer (limits, lock files, key searches).     *)
(*                                                                         *)
(* The cap is on what the reader receives: the JSON, the markdown, or the  *)
(* hook's text, which counts possible callers and lists none.  How long    *)
(* each of them is, is a parameter.  It need not fall when an entry goes:  *)
(* the line that counts the callers left out is longer than a caller's     *)
(* row, and what is not rendered is not measured.                          *)
(***************************************************************************)
EXTENDS Integers, Sequences, FiniteSets, SequencesExt

CONSTANTS
    Answers,        \* the answers to fit
    Caps,           \* the caps asked for
    Forms,          \* the texts an answer is delivered as
    Measure(_, _),  \* the tokens of an answer delivered in a form
    FilesListed,    \* MAX_CHANGED_FILES_LISTED
    LayoutListed,   \* MAX_UNTESTED_NAMED
    UnreadListed    \* MAX_UNANALYSED_LISTED

ASSUME ListsAreShort == {FilesListed, LayoutListed, UnreadListed} \subseteq Nat

Kinds == {"direct", "candidate", "name"}
Symbols == [
    id : Nat,   \* its place in the answer before the fit
    callers : Seq([evidence : Kinds, weight : Nat]),
    unresolved : BOOLEAN, compatible : BOOLEAN]
Outputs == [
    fixed : Nat, other : BOOLEAN, changed : Seq(Symbols), empty : BOOLEAN,
    files : Nat, untracked : Nat, named : Nat, layout : Nat, unread : Nat, contracts : Nat,
    stale : Nat, filesOmitted : Nat, untrackedOmitted : Nat, namedOmitted : Nat,
    layoutOmitted : Nat, unreadOmitted : Nat, contractsOmitted : Nat, staleOmitted : Nat,
    truncated : Nat, possible : Nat, textual : Nat, symbolsOmitted : Nat]

\* An answer is fitted once, when it has been put together and no row of it shed.
ASSUME AnswersAreNew ==
    /\ Answers \subseteq Outputs
    /\ \A o \in Answers :
         /\ o.truncated = 0 /\ o.possible = 0 /\ o.textual = 0 /\ o.symbolsOmitted = 0
         /\ \A i \in DOMAIN o.changed : o.changed[i].id = i
ASSUME CapsAreCounts == Caps \subseteq Nat

VARIABLES
    given,   \* the answer before the fit
    cap,
    form,
    output,
    phase,   \* "stride", "halve", "done"
    stride,  \* the steps the next attempt takes at once
    lo, hi   \* lo steps do not fit, hi do

fitting == <<given, cap, form, output, phase, stride, lo, hi>>

-----------------------------------------------------------------------------
Callers(o, kinds) ==
    Cardinality(UNION {{<<i, j>> : j \in {j \in DOMAIN o.changed[i].callers :
        o.changed[i].callers[j].evidence \in kinds}} : i \in DOMAIN o.changed})

Rows(o) == o.files + o.untracked + o.named + o.layout + o.unread + o.contracts + o.stale
           + Len(o.changed) + Callers(o, Kinds)
Fits(o) == Measure(form, o) <= cap

-----------------------------------------------------------------------------
(* shed_one *)

TrimUntracked(o) ==
    IF o.untracked <= FilesListed THEN o
    ELSE [o EXCEPT !.untracked = FilesListed, !.untrackedOmitted = @ + o.untracked - FilesListed]

\* The symbols that have a row of this evidence.
With(o, evidence) ==
    {i \in DOMAIN o.changed : \E j \in DOMAIN o.changed[i].callers : o.changed[i].callers[j].evidence = evidence}
LastOf(o, i, evidence) ==
    Max({j \in DOMAIN o.changed[i].callers : o.changed[i].callers[j].evidence = evidence})
DropRow(o, evidence) ==
    LET i == Min(With(o, evidence))
    IN [o EXCEPT !.changed[i].callers = RemoveAt(@, LastOf(o, i, evidence)),
                 !.truncated = @ + 1,
                 !.possible = @ + (IF evidence = "candidate" THEN 1 ELSE 0),
                 !.textual = @ + (IF evidence = "name" THEN 1 ELSE 0)]

\* Nothing left to say: no caller, and no word that they are not known.
Hollow(o) == {i \in DOMAIN o.changed :
    o.changed[i].callers = <<>> /\ ~o.changed[i].unresolved /\ ~o.changed[i].compatible}
DropSymbol(o, i) ==
    [o EXCEPT !.changed = RemoveAt(@, i),
              !.truncated = @ + Len(o.changed[i].callers),
              !.symbolsOmitted = @ + 1]

\* shed_weakest_caller: a symbol's only caller goes when none has two.
CalledBy(o, n) == {i \in DOMAIN o.changed : Len(o.changed[i].callers) >= n}
\* Mutant: the weakest of all, a symbol's only caller among them.
WeakestAny(o) ==
    LET among == CalledBy(o, 1)
        weight(i) == Last(o.changed[i].callers).weight
    IN Min({i \in among : \A j \in among : weight(i) <= weight(j)})

Weakest(o) ==
    LET among == IF CalledBy(o, 2) # {} THEN CalledBy(o, 2) ELSE CalledBy(o, 1)
        weight(i) == Last(o.changed[i].callers).weight
    IN Min({i \in among : \A j \in among : weight(i) <= weight(j)})

\* Mutant: the only caller of any symbol may go whole.
SymbolMayGoAny(o, i) == TRUE

SymbolMayGo(o, i) == ~o.changed[i].unresolved

ShedWeakest(o) ==
    LET i == Weakest(o)
    IN IF Len(o.changed[i].callers) > 1
       THEN [o EXCEPT !.changed[i].callers = Front(@), !.truncated = @ + 1]
       ELSE DropSymbol(o, i)

\* What the step takes from; the first of the list that has something to give.
Sources == <<"files", "named", "namedCount", "layout", "unread", "textual", "possible",
             "contracts", "hollow", "weakest", "stale">>

CanGive(o, source) ==
    CASE source = "files"      -> o.files > FilesListed
      [] source = "named"      -> o.named > 0
      [] source = "namedCount" -> o.namedOmitted > 0
      [] source = "layout"     -> o.layout > LayoutListed
      [] source = "unread"     -> o.unread > UnreadListed
      [] source = "textual"    -> With(o, "name") # {}
      [] source = "possible"   -> With(o, "candidate") # {}
      [] source = "contracts"  -> o.contracts > 0
      [] source = "hollow"     -> Hollow(o) # {}
      [] source = "weakest"    -> CalledBy(o, 1) # {} /\
                                  (CalledBy(o, 2) # {} \/ SymbolMayGo(o, Weakest(o)))
      [] source = "stale"      -> o.stale > 0

Give(o, source) ==
    CASE source = "files"      -> [o EXCEPT !.files = FilesListed, !.filesOmitted = @ + o.files - FilesListed]
      [] source = "named"      -> [o EXCEPT !.named = @ - 1, !.namedOmitted = @ + 1]
      [] source = "namedCount" -> [o EXCEPT !.namedOmitted = 0]
      [] source = "layout"     -> [o EXCEPT !.layout = LayoutListed, !.layoutOmitted = @ + o.layout - LayoutListed]
      [] source = "unread"     -> [o EXCEPT !.unread = UnreadListed, !.unreadOmitted = @ + o.unread - UnreadListed]
      [] source = "textual"    -> DropRow(o, "name")
      [] source = "possible"   -> DropRow(o, "candidate")
      [] source = "contracts"  -> [o EXCEPT !.contracts = @ - 1, !.contractsOmitted = @ + 1]
      [] source = "hollow"     -> DropSymbol(o, Max(Hollow(o)))
      [] source = "weakest"    -> ShedWeakest(o)
      [] source = "stale"      -> [o EXCEPT !.stale = @ - 1, !.staleOmitted = @ + 1]

Giving(o) == {i \in DOMAIN Sources : CanGive(o, Sources[i])}
Bare(o) == Giving(o) = {}

ShedOne(o) == IF Bare(o) THEN TrimUntracked(o)
              ELSE Give(TrimUntracked(o), Sources[Min(Giving(o))])

\* shed: the answers of 0, 1, ..., steps steps, and how many took place.
Shedding(o, steps) ==
    LET after[n \in 0 .. steps] == IF n = 0 THEN o ELSE ShedOne(after[n - 1]) IN after
Shed(o, steps) == Shedding(o, steps)[steps]
Taken(o, steps) ==
    LET after == Shedding(o, steps)
    IN Max({0} \union {n \in 1 .. steps : ~Bare(after[n - 1])})

-----------------------------------------------------------------------------
(* proves_empty *)

ProvesEmpty(o) ==
    /\ o.changed = <<>> /\ o.contracts = 0 /\ o.stale = 0 /\ o.staleOmitted = 0
    /\ o.named = 0 /\ o.namedOmitted = 0 /\ o.truncated = 0 /\ o.contractsOmitted = 0
    /\ o.unread = 0 /\ ~o.other

-----------------------------------------------------------------------------
(* fit_with *)

FitInit ==
    /\ given \in Answers /\ cap \in Caps /\ form \in Forms
    /\ output = given
    /\ phase = "stride" /\ stride = 1 /\ lo = 0 /\ hi = 0

End(o) ==
    /\ output' = [o EXCEPT !.empty = ProvesEmpty(o)]
    /\ phase' = "done"
    /\ UNCHANGED <<given, cap, form, stride, lo, hi>>

Ahead == Shed(output, stride)
Exhausted == Taken(output, stride) < stride

FitsAsItIs == phase = "stride" /\ Fits(output) /\ End(output)

Double ==
    /\ phase = "stride" /\ ~Fits(output)
    /\ ~Exhausted /\ ~Fits(Ahead)
    /\ output' = Ahead
    /\ stride' = 2 * stride
    /\ UNCHANGED <<given, cap, form, phase, lo, hi>>

GiveUp == phase = "stride" /\ ~Fits(output) /\ Exhausted /\ ~Fits(Ahead) /\ End(Ahead)

Narrow ==
    /\ phase = "stride" /\ ~Fits(output) /\ Fits(Ahead)
    /\ phase' = "halve"
    /\ lo' = 0 /\ hi' = Taken(output, stride)
    /\ UNCHANGED <<given, cap, form, output, stride>>

\* Mutant: the middle is never asked whether it fits.
HalveUp ==
    /\ phase = "halve" /\ hi - lo > 1
    /\ lo' = lo + (hi - lo) \div 2
    /\ UNCHANGED <<given, cap, form, output, phase, stride, hi>>

Halve ==
    /\ phase = "halve" /\ hi - lo > 1
    /\ LET mid == lo + (hi - lo) \div 2
       IN IF Fits(Shed(output, mid)) THEN hi' = mid /\ lo' = lo ELSE lo' = mid /\ hi' = hi
    /\ UNCHANGED <<given, cap, form, output, phase, stride>>

\* Nothing was taken when it was enough to trim the untracked files.
Settle ==
    /\ phase = "halve" /\ hi - lo <= 1
    /\ End(IF hi = 0 THEN Ahead ELSE Shed(output, hi))

FitNext == FitsAsItIs \/ Double \/ GiveUp \/ Narrow \/ Halve \/ Settle

FitSpec == FitInit /\ [][FitNext]_fitting

-----------------------------------------------------------------------------
(* Properties *)

\* No answer has more steps than entries.
Entries(o) == Rows(o) + o.namedOmitted + 3
Fitted(k) == [Shed(given, k) EXCEPT !.empty = output.empty]

\* The cap is on what the reader receives, and an entry goes only for the
\* cap: what is delivered fits and would not with the last step undone, or
\* all that can go has gone.  It is so of every measure, one that grows when
\* an entry goes included.
NoneToSpare ==
    phase = "done" =>
        \E k \in 0 .. Entries(given) :
            /\ output = Fitted(k)
            /\ \/ Fits(Shed(given, k)) /\ (k > 0 => ~Fits(Shed(given, k - 1)))
               \/ Bare(Shed(given, k))

\* "the measure falls as steps add up, and the first step that fits is found
\* in doubling strides, then halved" (fit_with): no answer from which less
\* was shed fits.
FirstThatFits ==
    phase = "done" =>
        \E k \in 0 .. Entries(given) :
            output = Fitted(k) /\ \A j \in 0 .. k - 1 : ~Fits(Shed(given, j))

\* "Callers are the answer, so everything else yields to them first": a
\* caller that is known goes only when no guess, no contract and no line that
\* names a file is left, and a symbol's only caller when no symbol has two.
LeastNeededFirst ==
    phase = "done" =>
        /\ output.truncated > 0 => output.named = 0 /\ output.namedOmitted = 0
        /\ Callers(output, {"direct"}) < Callers(given, {"direct"}) =>
              Callers(output, {"candidate", "name"}) = 0 /\ output.contracts = 0
        /\ (\E i \in DOMAIN given.changed :
                /\ \E j \in DOMAIN given.changed[i].callers : given.changed[i].callers[j].evidence = "direct"
                /\ \A s \in Range(output.changed) : s.id # given.changed[i].id)
            => CalledBy(output, 2) = {}

\* "dropping it would turn `unknown` into `nothing`": a symbol whose callers
\* could not be resolved says so to the last, and every caller and symbol
\* that went is counted.
UnknownIsSaid ==
    phase = "done" =>
        /\ \A s \in Range(given.changed) : s.unresolved => \E t \in Range(output.changed) : t.id = s.id
        /\ Len(output.changed) + output.symbolsOmitted = Len(given.changed)
        /\ Callers(output, Kinds) + output.truncated = Callers(given, Kinds)
        /\ Callers(output, {"candidate"}) + output.possible = Callers(given, {"candidate"})
        /\ Callers(output, {"name"}) + output.textual = Callers(given, {"name"})

\* "nothing outside the diff depends on the change, no contract moved, and
\* nothing was cut, left unread or capped" (proves_empty).
EmptyCutsNothing == phase = "done" /\ output.empty => ProvesEmpty(given)
=============================================================================
