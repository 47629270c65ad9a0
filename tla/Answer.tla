------------------------------- MODULE Answer -------------------------------
(***************************************************************************)
(* What a run returns (pipeline.rs, run_selection): the selection, then    *)
(* three passes over it that each spend what the one before left of the    *)
(* budget (postpass.rs).  Coherence adds the definition of a name that the *)
(* selection uses, the rescue reaches files the selection did not, and     *)
(* what of a changed file is still missing is looked for at last.          *)
(*                                                                         *)
(* An input has, besides what the selection reads: others, the fragments   *)
(* the filter left out; names: fragment -> symbol, for some; refs, the     *)
(* reference edges between fragments' ids; score: fragment -> number;      *)
(* changedFiles; whole: path -> the fragment of the whole file, where one  *)
(* can be read.                                                            *)
(***************************************************************************)
EXTENDS Select

CONSTANTS
    RescuePercent,  \* rescue().budget_fraction
    RescueTop       \* 100 less rescue().min_score_percentile

ASSUME Rest ==
    \A w \in Worlds :
        /\ \A f \in w.others \union {w.whole[p] : p \in DOMAIN w.whole} :
             /\ {f.start, f.end} \subseteq Nat /\ f.start <= f.end
             /\ f.tokens \in Nat \ {0}
        /\ \A p \in DOMAIN w.whole : w.whole[p].path = p
ASSUME RescueShares == RescuePercent \in 0 .. 100 /\ RescueTop \in 1 .. 100

VARIABLES
    stage,     \* "select", "coherence", "rescue", "represent", "answer"
    shown,     \* what the passes make of `selected`
    opened,    \* the paths open when coherence began
    dangling,  \* the names coherence has not come to
    queue,     \* the candidates the rescue has not come to
    gated,     \* whether the admission gate holds for the rescue
    missing,   \* the changed files nothing of which is shown yet
    left,      \* what the pass may still spend
    limited    \* EvidenceBudgetExceeded is noted

passes == <<stage, shown, opened, dangling, queue, gated, missing, left, limited>>
selection == vars

All == world.fragments \union world.others
ShownIds == {Id(f) : f \in Range(shown)}
Unspent == Monus(world.budget, Cost(shown))

AnswerInit ==
    /\ Init
    /\ stage = "select" /\ shown = <<>> /\ opened = {} /\ dangling = {} /\ queue = {}
    /\ gated = TRUE /\ missing = {} /\ left = 0 /\ limited = FALSE

Show(f) == shown' = Append(shown, f) /\ left' = left - f.tokens

-----------------------------------------------------------------------------
(* coherence_post_pass *)

\* The names that what is selected refers to and does not hold.
Dangling(fragments) ==
    LET ids == {Id(f) : f \in Range(fragments)} IN
    {world.names[g] : g \in {g \in world.fragments \intersect DOMAIN world.names :
        Id(g) \notin ids /\ \E i \in ids : <<i, Id(g)>> \in world.refs}}

Cohere ==
    /\ pc = "done" /\ stage = "select"
    /\ stage' = "coherence"
    /\ shown' = selected
    /\ opened' = Opened(selected)
    /\ dangling' = Dangling(selected)
    /\ left' = Monus(world.budget, Cost(selected))
    /\ UNCHANGED <<selection, queue, gated, missing, limited>>

\* The first of the name in the fragments' order, a full one before a signature.
Definitions(name) ==
    LET free == {g \in world.fragments \intersect DOMAIN world.names :
                    world.names[g] = name /\ Id(g) \notin ShownIds}
        full == {g \in free : ~Signature(g)}
    IN IF full # {} THEN full ELSE free

\* Mutant: a name's definition may be in any file.
CoherentAnywhere(g) == g.tokens <= left /\ ~Overlaps(Range(shown), g)

Coherent(g) ==
    /\ g.tokens <= left
    /\ ~Overlaps(Range(shown), g)
    /\ g.path \in opened \union world.admissible

\* The names come in the order of a hash table.
Define ==
    /\ stage = "coherence"
    /\ \E name \in dangling :
         /\ dangling' = dangling \ {name}
         /\ \/ /\ Definitions(name) = {}
               /\ UNCHANGED <<shown, left>>
            \/ \E g \in Definitions(name) :
                 IF Coherent(g) THEN Show(g) ELSE UNCHANGED <<shown, left>>
    /\ UNCHANGED <<selection, stage, opened, queue, gated, missing, limited>>

-----------------------------------------------------------------------------
(* rescue_nontrivial_context *)

Score(f) == IF f \in DOMAIN world.score THEN world.score[f] ELSE 0
Context == {f \in All \ world.core : Score(f) > 0}

\* The score at a fifth of the way down: 1.0 - 0.8 is a little less than 0.2,
\* so a whole number of places is never reached.
Threshold ==
    LET place == (RescueTop * Cardinality(Context) - 1) \div 100
        above(s) == Cardinality({f \in Context : Score(f) > s})
        least(s) == Cardinality({f \in Context : Score(f) >= s})
    IN CHOOSE s \in {Score(f) : f \in Context} : above(s) <= place /\ place < least(s)

\* A signature is worth what the body it stands for is.
Bodies(f) == {g \in All : Signature(f) /\ g.path = f.path /\ g.start = f.start /\ g.end >= f.end}
RescueScore(f) == LET worth == {Score(g) : g \in Bodies(f) \union {f}}
                  IN CHOOSE s \in worth : \A t \in worth : t <= s

HasContext == \E f \in Range(shown) : f.path \notin Paths
Share == Smaller(Unspent, (world.budget * RescuePercent) \div 100)

Reachable(f) ==
    /\ Id(f) \notin ShownIds /\ f \notin world.core
    /\ f.path \notin Paths \union Opened(shown)
    /\ RescueScore(f) >= Threshold /\ f.tokens <= Share
    /\ HasContext => f.path \in world.admissible

Rescue ==
    /\ stage = "coherence" /\ dangling = {}
    /\ stage' = "rescue"
    /\ queue' = IF Share = 0 \/ Context = {} THEN {} ELSE {f \in All : Reachable(f)}
    /\ gated' = HasContext
    /\ left' = Share
    /\ UNCHANGED <<selection, shown, opened, dangling, missing, limited>>

Sooner(f, g) ==
    \/ RescueScore(f) > RescueScore(g)
    \/ /\ RescueScore(f) = RescueScore(g)
       /\ \/ ~Signature(f) /\ Signature(g)
          \/ Signature(f) = Signature(g) /\ Before(f, g)

\* Mutant: the share counts for each candidate, not for all of them.
ReachesEach(f) == f.path \notin Opened(shown) /\ ~Overlaps(Range(shown), f)

Reaches(f) == f.path \notin Opened(shown) /\ f.tokens <= left /\ ~Overlaps(Range(shown), f)

Reach ==
    /\ stage = "rescue" /\ queue # {}
    /\ \E f \in queue :
          /\ \A g \in queue \ {f} : Sooner(f, g)
          /\ queue' = queue \ {f}
          /\ IF Reaches(f) THEN Show(f) ELSE UNCHANGED <<shown, left>>
    /\ UNCHANGED <<selection, stage, opened, dangling, gated, missing, limited>>

-----------------------------------------------------------------------------
(* ensure_changed_files_represented *)

Missing ==
    /\ stage = "rescue" /\ queue = {}
    /\ stage' = "represent"
    /\ missing' = world.changedFiles \ Opened(shown)
    /\ left' = Unspent
    /\ UNCHANGED <<selection, shown, opened, dangling, queue, gated, limited>>

Fragments(p) ==
    LET some == {f \in All \union {world.excerpt[c] : c \in DOMAIN world.excerpt} : f.path = p}
    IN IF some # {} THEN some ELSE {world.whole[q] : q \in DOMAIN world.whole \intersect {p}}

\* change_coverage_rank: the change itself, what stands for it, the rest.
Rank(f) == IF Id(f) \in {Id(c) : c \in world.core} THEN 0
           ELSE IF f.kind = "excerpt" \/ Id(f) \in standIns THEN 1 ELSE 2

Fitting(p) == {f \in Fragments(p) : f.tokens \in 1 .. left /\ Id(f) \notin ShownIds}
Preferred(p) ==
    {f \in Fitting(p) : \A g \in Fitting(p) :
        \/ Rank(f) < Rank(g)
        \/ Rank(f) = Rank(g) /\ f.tokens <= g.tokens}

Represent ==
    /\ stage = "represent" /\ missing # {}
    /\ \E p \in missing :
          /\ \A q \in missing : p <= q
          /\ missing' = missing \ {p}
          /\ \/ /\ Preferred(p) = {}
                /\ UNCHANGED <<shown, left>>
             \/ \E f \in Preferred(p) :
                  IF Overlaps(Range(shown), f) THEN UNCHANGED <<shown, left>> ELSE Show(f)
    /\ UNCHANGED <<selection, stage, opened, dangling, queue, gated, limited>>

\* Mutant: only a file with a core can be left out.
CoreUnrepresented(p) == p \in Paths /\ p \notin Opened(shown)

Unrepresented(p) == p \in {f.path : f \in All} /\ p \notin Opened(shown)

Conclude ==
    /\ stage = "represent" /\ missing = {}
    /\ stage' = "answer"
    /\ limited' = \E p \in world.changedFiles : Unrepresented(p)
    /\ UNCHANGED <<selection, shown, opened, dangling, queue, gated, missing, left>>

Passes == Cohere \/ Define \/ Rescue \/ Reach \/ Missing \/ Represent \/ Conclude

AnswerNext == (Next /\ UNCHANGED passes) \/ Passes

AnswerSpec == AnswerInit /\ [][AnswerNext]_<<vars, passes>>

-----------------------------------------------------------------------------
(* Properties *)

\* "the budget cap is a hard contract (cost(C) <= B)": through three passes
\* that each spend what the one before left, after a selection that reports
\* what it costs.
AnswerFits == BudgetHolds /\ Cost(shown) <= world.budget

\* A changed file nothing of which is in the answer has nothing that still
\* fits, and if it has fragments the run says that the budget left it out.
FilesAreAnswered ==
    stage = "answer" => \A p \in world.changedFiles \ Opened(shown) :
        /\ \A f \in Fragments(p) : f.tokens > Unspent
        /\ (\E f \in All : f.path = p) => limited

\* A file the change does not reach is opened by no pass (#65, #211), unless
\* the selection had nothing but changed files, and the rescue nothing to
\* dilute.
AnswerIsAdmitted ==
    /\ OnlyAdmitted
    /\ stage = "answer" =>
         \/ Opened(selected) \subseteq Paths
         \/ Opened(shown) \subseteq Opened(selected) \union world.changedFiles \union world.admissible
=============================================================================
