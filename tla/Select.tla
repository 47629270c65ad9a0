------------------------------- MODULE Select -------------------------------
(***************************************************************************)
(* Which fragments of the repository one budget holds (select.rs,          *)
(* `lazy_greedy_select`): a witness of every changed file, then the        *)
(* changed code (its cores) tier by tier, then context while it pays, and  *)
(* at the end one heavy fragment instead of the context where that is      *)
(* worth more.                                                             *)
(*                                                                         *)
(* A fragment is a record of a range of lines and its tokens.  Utility is  *)
(* the number of needs covered: relevance, bonuses and densities are left  *)
(* out, so the greedy loop takes any candidate with a gain, and may stop   *)
(* at any step: by tau, or by the deadline it polls.                       *)
(***************************************************************************)
EXTENDS Integers, FiniteSets, SequencesExt

CONSTANTS
    Worlds,       \* the inputs: see the assumption
    CorePercent,  \* core_budget_fraction
    FilePercent,  \* per_file_budget_fraction
    MinWitness    \* the least a witness may cost (120 tokens)

\* core: the changed fragments; excerpt: core -> its hunk window, for some;
\* worthwhile: the cores whose excerpt is small enough to be preferred;
\* changed: core -> lines changed in it; tier: path -> evidence tier;
\* covers: fragment -> the needs it matches; admissible, declared: the paths
\* the loop and the singletons may open.
Inside(f, g) == f.path = g.path /\ g.start <= f.start /\ f.end <= g.end

ASSUME Inputs ==
    \A w \in Worlds :
        /\ w.core \subseteq w.fragments
        /\ DOMAIN w.excerpt \subseteq w.core /\ w.worthwhile \subseteq DOMAIN w.excerpt
        /\ \A c \in DOMAIN w.excerpt : Inside(w.excerpt[c], c)
        /\ DOMAIN w.changed = w.core
        /\ \A f \in w.fragments \union {w.excerpt[c] : c \in DOMAIN w.excerpt} :
             /\ {f.start, f.end} \subseteq Nat /\ f.start <= f.end
             /\ f.tokens \in Nat \ {0} /\ f \in DOMAIN w.covers
        /\ w.budget \in Nat
ASSUME Shares == CorePercent \in 0 .. 100 /\ FilePercent \in 0 .. 100 /\ MinWitness \in Nat

VARIABLES
    world,     \* the input
    pc,        \* "floor", "first", "sweep", "upgrade", "greedy", "done"
    files,     \* the files the floor has not come to
    todo,      \* the cores the stage has not come to
    selected,  \* the fragments placed, in order
    remaining, \* remaining_budget
    covered,   \* utility_state: the needs covered
    coreUsed, spent, \* core_used; path -> file_spent
    satisfied, \* the cores represented
    skipped,   \* the cores the first pass left
    blocked,   \* the cores the ceiling kept out of the sweep's first round
    tier, round,
    standIns,  \* stand_in_ids
    heap, deferred, ceiling, \* the greedy loop's candidates, and its ceiling
    base,      \* what the core pass left: selected, remaining, covered
    used,      \* used_tokens of the result
    short      \* history: files whose turn came with no room for a witness

corePass == <<satisfied, skipped, blocked, tier, round, standIns, short>>
loop == <<heap, deferred, ceiling, base, used>>
placed == <<selected, remaining, covered, coreUsed, spent>>
vars == <<world, pc, files, todo, placed, corePass, loop>>

-----------------------------------------------------------------------------
(* Fragments and what is selected of them.                                 *)

Id(f) == <<f.path, f.start, f.end>>
Ids   == {Id(f) : f \in Range(selected)}
\* What the fragments at these places cost.
CostOf(fragments, places) ==
    LET sum[n \in 0 .. Len(fragments)] ==
            IF n = 0 THEN 0
            ELSE sum[n - 1] + IF n \in places THEN fragments[n].tokens ELSE 0
    IN sum[Len(fragments)]
Cost(fragments) == CostOf(fragments, DOMAIN fragments)
Signature(f) == f.kind = "signature"
Paths == {c.path : c \in world.core}
Tier(c) == world.tier[c.path]
Monus(a, b) == IF a > b THEN a - b ELSE 0
Larger(a, b) == IF a > b THEN a ELSE b
Smaller(a, b) == IF a > b THEN b ELSE a

CoreBudget  == (world.budget * CorePercent) \div 100
FileCeiling == (world.budget * FilePercent) \div 100
WitnessCap  == Larger(world.budget \div 12, MinWitness)

\* IntervalIndex: the very same range never counts, and a fragment that
\* starts on the last line of a selected one does not overlap it.
SameRange(f, g) == f.start = g.start /\ f.end = g.end
Overlaps(fragments, f) ==
    \E g \in fragments :
        g.path = f.path /\ ~SameRange(f, g) /\ g.start <= f.end /\ g.end > f.start
\* Mutant: a fragment that any selected one touches counts as shown.
Touched(f) == Overlaps(Range(selected), f)
Contained(f) == \E g \in Range(selected) : ~SameRange(f, g) /\ Inside(f, g)

\* What the core pass offers for a core, and its substitute: the signature
\* that starts where it does, else its excerpt.
Offered(c) == IF c \in world.worthwhile THEN world.excerpt[c] ELSE c
Substitutes(c) ==
    LET stubs == {f \in world.fragments : Signature(f) /\ f.path = c.path /\ f.start = c.start}
    IN IF stubs # {} THEN stubs
       ELSE IF c \in DOMAIN world.excerpt THEN {world.excerpt[c]} ELSE {}
Fallbacks(c) == {s \in Substitutes(c) : s.tokens < Offered(c).tokens}

\* clipped_witness: the core's first lines, whatever they cost.
Clips(c, most) ==
    {[path |-> c.path, start |-> c.start, end |-> c.start + n, tokens |-> t,
      kind |-> IF c.start + n < c.end THEN "clip" ELSE "excerpt"] :
        n \in 0 .. c.end - c.start, t \in 1 .. most + 1}

Before(f, g) ==
    \/ f.path < g.path
    \/ f.path = g.path /\ f.start < g.start
    \/ f.path = g.path /\ f.start = g.start /\ f.end < g.end

\* ChangeOrder: tier, then changed lines per token of what is offered.
Earlier(a, b) ==
    LET weigh(x, y) == world.changed[x] * Offered(y).tokens
    IN \/ Tier(a) < Tier(b)
       \/ Tier(a) = Tier(b) /\ weigh(a, b) > weigh(b, a)
       \/ Tier(a) = Tier(b) /\ weigh(a, b) = weigh(b, a) /\ Before(a, b)
\* The one whose turn it is, of cores and of files.
Foremost(cores) == {c \in cores : \A d \in cores \ {c} : Earlier(c, d)}
FirstFile(paths) ==
    {p \in paths : \A q \in paths \ {p} :
        \/ world.tier[p] < world.tier[q]
        \/ world.tier[p] = world.tier[q] /\ p < q}

Tiers == {Tier(c) : c \in world.core}
Lowest(S) == CHOOSE n \in S : \A m \in S : n <= m

Init ==
    /\ world \in Worlds
    /\ pc = "floor"
    /\ files = Paths /\ todo = {}
    /\ selected = <<>> /\ remaining = world.budget /\ covered = {}
    /\ coreUsed = 0 /\ spent = [p \in {f.path : f \in world.fragments} |-> 0]
    /\ satisfied = {} /\ skipped = {} /\ blocked = {} /\ short = {}
    /\ tier = 0 /\ round = 0
    /\ standIns = UNION {{Id(s) : s \in Substitutes(c)} : c \in world.core}
    /\ heap = {} /\ deferred = {} /\ ceiling = TRUE
    /\ base = [selected |-> <<>>, remaining |-> 0, covered |-> {}]
    /\ used = 0

Place(f, needs) ==
    /\ selected' = Append(selected, f)
    /\ remaining' = Monus(remaining, f.tokens)
    /\ covered' = covered \union needs
    /\ coreUsed' = coreUsed + f.tokens
    /\ spent' = [spent EXCEPT ![f.path] = @ + f.tokens]
PlaceKnown(f) == Place(f, world.covers[f])

-----------------------------------------------------------------------------
(* place_evidence_floor: one witness of each changed file.                 *)

Witnesses(p) ==
    LET cores == {c \in world.core : c.path = p}
        share == Larger(WitnessCap, Lowest({Offered(c).tokens : c \in cores}))
        options == {c \in cores : Offered(c).tokens <= share}
        Worse(c, d) ==
            \/ world.changed[c] < world.changed[d]
            \/ world.changed[c] = world.changed[d] /\ Offered(c).tokens > Offered(d).tokens
            \/ /\ world.changed[c] = world.changed[d]
               /\ Offered(c).tokens = Offered(d).tokens
               /\ Offered(c).start > Offered(d).start
    IN {c \in options : \A d \in options : ~Worse(c, d)}

WitnessOf(c, f, needs) ==
    /\ Place(f, needs)
    /\ satisfied' = satisfied \union {c}
    /\ standIns' = IF Id(f) # Id(c) THEN standIns \union {Id(f)} ELSE standIns
    /\ UNCHANGED short

Floor ==
    /\ pc = "floor" /\ files # {}
    /\ \E p \in FirstFile(files) :
       LET fits(f) == f.tokens <= remaining
           most == Smaller(WitnessCap, remaining)
       IN /\ \E c \in Witnesses(p) :
               \/ fits(Offered(c)) /\ WitnessOf(c, Offered(c), world.covers[Offered(c)])
               \/ /\ ~fits(Offered(c))
                  /\ \E s \in Fallbacks(c) : fits(s) /\ WitnessOf(c, s, world.covers[s])
               \/ /\ ~fits(Offered(c)) /\ ~\E s \in Fallbacks(c) : fits(s)
                  /\ \E clip \in Clips(c, most) :
                       \/ /\ fits(clip)
                          /\ \E needs \in SUBSET world.covers[c] : WitnessOf(c, clip, needs)
                       \/ /\ ~fits(clip)
                          /\ short' = short \union {p}
                          /\ UNCHANGED <<placed, satisfied, standIns>>
          /\ files' = files \ {p}
    /\ UNCHANGED <<world, pc, todo, skipped, blocked, tier, round, loop>>

FloorDone ==
    /\ pc = "floor" /\ files = {}
    /\ pc' = "first" /\ todo' = world.core \ satisfied
    /\ UNCHANGED <<world, files, placed, corePass, loop>>

-----------------------------------------------------------------------------
(* select_core_fragments, first pass: within the core share of the budget  *)
(* and the file's ceiling, by substitute if need be.                       *)

OverCeiling(f) == spent[f.path] > 0 /\ spent[f.path] + f.tokens > FileCeiling
InShare(f) == coreUsed + f.tokens <= CoreBudget /\ ~OverCeiling(f)
Usable(s) == Id(s) \notin Ids /\ InShare(s)

First ==
    /\ pc = "first" /\ todo # {}
    /\ \E c \in Foremost(todo) :
       LET f == Offered(c)
       IN /\ todo' = todo \ {c}
          /\ \/ /\ Contained(f)
                /\ satisfied' = satisfied \union {c}
                /\ UNCHANGED <<placed, skipped>>
             \/ /\ ~Contained(f) /\ InShare(f)
                /\ PlaceKnown(f)
                /\ satisfied' = satisfied \union {c}
                /\ UNCHANGED skipped
             \/ /\ ~Contained(f) /\ ~InShare(f)
                /\ \E s \in Substitutes(c) : Usable(s) /\ PlaceKnown(s)
                /\ satisfied' = satisfied \union {c}
                /\ UNCHANGED skipped
             \/ /\ ~Contained(f) /\ ~InShare(f) /\ ~\E s \in Substitutes(c) : Usable(s)
                /\ skipped' = skipped \union {c}
                /\ UNCHANGED <<placed, satisfied>>
    /\ UNCHANGED <<world, pc, files, blocked, tier, round, standIns, short, loop>>

StartTier(t) ==
    /\ tier' = t /\ round' = 0
    /\ pc' = "sweep"
    /\ todo' = {c \in skipped : Tier(c) = t} /\ blocked' = {}

FirstDone ==
    /\ pc = "first" /\ todo = {}
    /\ StartTier(Lowest(Tiers))
    /\ UNCHANGED <<world, files, placed, satisfied, skipped, standIns, short, loop>>

-----------------------------------------------------------------------------
(* The sweep of a tier's skipped cores: round 0 keeps the ceiling, round 1 *)
(* takes what it blocked.                                                  *)

\* Mutant: one round without the ceiling, which a file of many small cores
\* fills (#238).
DeferredNever(f) == FALSE

Deferred(f) == round = 0 /\ OverCeiling(f)

SweepOffer(c, f) ==
    \/ /\ Deferred(f)
       /\ blocked' = blocked \union {c}
       /\ UNCHANGED <<placed, satisfied>>
    \/ /\ ~Deferred(f)
       /\ PlaceKnown(f)
       /\ satisfied' = satisfied \union {c}
       /\ UNCHANGED blocked

Sweep ==
    /\ pc = "sweep" /\ todo # {} /\ remaining > 0
    /\ \E c \in Foremost(todo) :
       LET f == Offered(c)
           fits(g) == g.tokens <= remaining
       IN /\ todo' = todo \ {c}
          /\ \/ /\ Contained(f)
                /\ satisfied' = satisfied \union {c}
                /\ UNCHANGED <<placed, blocked>>
             \/ ~Contained(f) /\ fits(f) /\ SweepOffer(c, f)
             \/ /\ ~Contained(f) /\ ~fits(f)
                /\ \/ \E s \in Substitutes(c) :
                        Id(s) \notin Ids /\ fits(s) /\ SweepOffer(c, s)
                   \/ /\ \E s \in Substitutes(c) : Id(s) \in Ids
                      /\ satisfied' = satisfied \union {c}
                      /\ UNCHANGED <<placed, blocked>>
                   \/ /\ \A s \in Substitutes(c) : Id(s) \notin Ids /\ ~fits(s)
                      /\ UNCHANGED <<placed, satisfied, blocked>>
    /\ UNCHANGED <<world, pc, files, skipped, tier, round, standIns, short, loop>>

SweepDone ==
    /\ pc = "sweep" /\ (todo = {} \/ remaining = 0)
    /\ \/ /\ round = 0
          /\ round' = 1 /\ todo' = blocked
          /\ UNCHANGED pc
       \/ /\ round = 1
          /\ pc' = "upgrade"
          /\ todo' = {c \in world.core : Tier(c) = tier /\ Id(c) \notin Ids}
          /\ UNCHANGED round
    /\ blocked' = {}
    /\ UNCHANGED <<world, files, placed, satisfied, skipped, tier, standIns, short, loop>>

-----------------------------------------------------------------------------
(* upgrade_stand_ins: a core that came as a substitute gets its body, and  *)
(* the body takes the place of all that lies inside it.                    *)

StandsFor(f, c) ==
    /\ f.path = c.path
    /\ \/ \E s \in Substitutes(c) : Id(s) = Id(f)
       \/ f.kind = "clip" /\ f.start = c.start

Absorbed(f, body) == Id(f) # Id(body) /\ Inside(f, body)
Gone(body) == {i \in DOMAIN selected : Absorbed(selected[i], body)}
Refund(body) == CostOf(selected, Gone(body))

\* The fragments at the other places, in order.
Without(fragments, places) ==
    LET kept[n \in 0 .. Len(fragments)] ==
            IF n = 0 THEN <<>>
            ELSE IF n \in places THEN kept[n - 1] ELSE Append(kept[n - 1], fragments[n])
    IN kept[Len(fragments)]
Kept(body) == Without(selected, Gone(body))

\* remove_id drops one range of an id, so one placed twice leaves a range.
Twice(f) == \E i, j \in DOMAIN selected : i # j /\ Id(selected[i]) = Id(f) /\ Id(selected[j]) = Id(f)
InTheWay(body) ==
    Overlaps({f \in Range(selected) : Absorbed(f, body) => Twice(f)}, body)

Upgradable(c) ==
    LET body == Offered(c)
    IN /\ Id(body) \notin Ids
       /\ \E f \in Range(selected) : StandsFor(f, c)
       /\ Monus(body.tokens, Refund(body)) <= remaining
       /\ ~InTheWay(body)

\* Where the first absorbed fragment was, else at the end.
Replaced(body) ==
    LET at == IF Gone(body) = {} THEN Len(selected) ELSE Lowest(Gone(body)) - 1
    IN InsertAt(Kept(body), Smaller(at, Len(Kept(body))) + 1, body)

Refunded(body) == remaining + Refund(body) - body.tokens

\* Mutant: what the body absorbs leaves before the check that lets it in.
UpgradeTooSoon ==
    /\ pc = "upgrade" /\ todo # {}
    /\ \E c \in Foremost(todo) :
       LET body == Offered(c)
       IN /\ todo' = todo \ {c}
          /\ \E f \in Range(selected) : StandsFor(f, c)
          /\ selected' = IF Upgradable(c) THEN Replaced(body) ELSE Kept(body)
          /\ remaining' = world.budget - Cost(selected')
    /\ UNCHANGED <<world, pc, files, covered, coreUsed, spent, satisfied, skipped, blocked,
                   tier, round, standIns, short, loop>>

Upgrade ==
    /\ pc = "upgrade" /\ todo # {}
    /\ \E c \in Foremost(todo) :
       LET body == Offered(c)
       IN /\ todo' = todo \ {c}
          /\ \/ /\ Upgradable(c)
                /\ selected' = Replaced(body)
                /\ remaining' = Refunded(body)
                /\ covered' = covered \union world.covers[body]
                /\ standIns' = IF Id(body) # Id(c) THEN standIns \union {Id(body)} ELSE standIns
             \/ /\ ~Upgradable(c)
                /\ UNCHANGED <<selected, remaining, covered, standIns>>
    /\ UNCHANGED <<world, pc, files, coreUsed, spent, satisfied, skipped, blocked, tier, round,
                   short, loop>>

-----------------------------------------------------------------------------
(* The greedy loop over what is not a core, and the cores left out.        *)

Candidates == world.fragments \ satisfied
Total(path) == CostOf(selected, {i \in DOMAIN selected : selected[i].path = path})

\* drop_redundant_signatures: a signature counts only where the largest
\* fragment that starts with it does not fit.
Redundant(f, among) ==
    LET full == {g.tokens : g \in {g \in among :
                    ~Signature(g) /\ g.path = f.path /\ g.start = f.start}}
    IN Signature(f) /\ full # {} /\ \A t \in full : t <= remaining

UpgradeDone ==
    /\ pc = "upgrade" /\ todo = {}
    /\ LET later == {t \in Tiers : t > tier}
           free == {f \in Candidates : ~Overlaps(Range(selected), f)}
       IN \/ /\ later # {}
             /\ StartTier(Lowest(later))
             /\ UNCHANGED <<spent, loop>>
          \/ /\ later = {} /\ remaining = 0
             /\ pc' = "done" /\ used' = world.budget
             /\ UNCHANGED <<todo, blocked, tier, round, spent, heap, deferred, ceiling, base>>
          \/ /\ later = {} /\ remaining > 0
             /\ pc' = "greedy"
             /\ heap' \in {{}, {f \in free : ~Redundant(f, free)}}
             /\ spent' = [p \in DOMAIN spent |-> Total(p)]
             /\ base' = [selected |-> selected, remaining |-> remaining, covered |-> covered]
             /\ UNCHANGED <<todo, blocked, tier, round, deferred, ceiling, used>>
    /\ UNCHANGED <<world, files, selected, remaining, covered, coreUsed, satisfied, skipped,
                   standIns, short>>

Gain(f, of) == Cardinality(world.covers[f] \ of)
Opened(fragments) == {f.path : f \in Range(fragments)}

Live == {f \in heap : f.tokens <= remaining /\ ~Overlaps(Range(selected), f)
                      /\ Gain(f, covered) > 0}

Take ==
    /\ pc = "greedy" /\ remaining > 0
    /\ \E f \in Live :
         /\ heap' = heap \ {f}
         /\ \/ /\ f.path \notin Opened(selected) \union world.admissible
               /\ UNCHANGED <<placed, deferred>>
            \/ /\ f.path \in Opened(selected) \union world.admissible
               /\ ceiling /\ OverCeiling(f)
               /\ deferred' = deferred \union {f}
               /\ UNCHANGED placed
            \/ /\ f.path \in Opened(selected) \union world.admissible
               /\ ~(ceiling /\ OverCeiling(f))
               /\ PlaceKnown(f)
               /\ UNCHANGED deferred
    /\ UNCHANGED <<world, pc, files, todo, corePass, ceiling, base, used>>

\* The first phase ends, by itself, by tau or by the deadline: the deferred
\* candidates come back without the ceiling.
LiftCeiling ==
    /\ pc = "greedy" /\ ceiling /\ deferred # {} /\ remaining > 0
    /\ ceiling' = FALSE
    /\ heap' = heap \union deferred /\ deferred' = {}
    /\ UNCHANGED <<world, pc, files, todo, placed, corePass, base, used>>

-----------------------------------------------------------------------------
(* The comparison: the greedy selection, the core pass with one more       *)
(* fragment, or the core pass with the fragment worth most by itself.      *)

Best(fragments, of) ==
    {f \in fragments : Gain(f, of) > 0 /\ \A g \in fragments : Gain(f, of) >= Gain(g, of)}
MayOpen(f) == f.path \in Opened(base.selected) \union world.declared

Singles ==
    Best({f \in Candidates : f.tokens <= base.remaining /\ MayOpen(f)
                             /\ ~Overlaps(Range(base.selected), f)}, base.covered)
Heavies == Best({f \in world.fragments : f.tokens <= world.budget /\ MayOpen(f)}, {})

Beaten(f, of) == Cardinality(of) + Gain(f, of)
Added(f) == f.tokens <= base.remaining /\ \A g \in Range(base.selected) : Id(g) # Id(f)

Answer(fragments) ==
    /\ selected' = fragments
    /\ used' = Cost(fragments)

\* Mutant: the heavy fragment replaces the core selection.
Evicting(f) == <<f>>
Beside(f) == Append(base.selected, f)

Compare ==
    /\ pc = "greedy" /\ ~(ceiling /\ deferred # {} /\ remaining > 0)
    /\ pc' = "done"
    /\ LET won == Cardinality(covered)
           single(s) == Beaten(s, base.covered) > won
           best == Larger(won, IF Singles = {} THEN 0
                               ELSE Beaten(CHOOSE s \in Singles : TRUE, base.covered))
           heavy(f) == Beaten(f, {}) > best /\ Added(f)
       IN \/ \E f \in Heavies : heavy(f) /\ Answer(Beside(f))
          \/ /\ Heavies = {} \/ \E f \in Heavies : ~heavy(f)
             /\ \/ \E s \in Singles : single(s) /\ Answer(Append(base.selected, s))
                \/ /\ \A s \in Singles : ~single(s)
                   /\ used' = world.budget - remaining
                   /\ UNCHANGED selected
    /\ UNCHANGED <<world, files, todo, remaining, covered, coreUsed, spent, corePass, heap,
                   deferred, ceiling, base>>

Next ==
    \/ Floor \/ FloorDone \/ First \/ FirstDone \/ Sweep \/ SweepDone
    \/ Upgrade \/ UpgradeDone \/ Take \/ LiftCeiling \/ Compare

Spec == Init /\ [][Next]_vars

-----------------------------------------------------------------------------
(* Properties.                                                             *)

TypeOK ==
    /\ pc \in {"floor", "first", "sweep", "upgrade", "greedy", "done"}
    /\ files \subseteq Paths
    /\ todo \subseteq world.core /\ satisfied \subseteq world.core
    /\ skipped \subseteq world.core /\ blocked \subseteq skipped
    /\ remaining \in 0 .. world.budget
    /\ short \subseteq Paths
    /\ heap \subseteq world.fragments /\ deferred \subseteq world.fragments

\* "cost(C) <= B is a hard contract", and "used_tokens is a reported
\* contract": through the floor's clips, the refunds of the upgrades and the
\* swap at the end, what is placed costs what the budget lost, and what is
\* reported is the cost of what is returned.
BudgetHolds ==
    /\ pc # "done" => Cost(selected) = world.budget - remaining
    /\ pc = "done" => used = Cost(selected) /\ used <= world.budget

\* Once its turn on the floor is over, a changed file shows something of its
\* change to the end, whatever upgrades absorb and the last comparison
\* replaces; only a file that found less than a line's room may show nothing.
WitnessKept ==
    \A p \in Paths \ files :
        p \in short \/ \E f \in Range(selected) :
            f.path = p /\ \E c \in world.core : c.path = p /\ f.start <= c.end /\ c.start <= f.end

\* A core held to be represented, and so kept from the greedy loop, is: by
\* itself, by its excerpt, substitute or clip, or by a fragment around one,
\* which of a clip may be the body of another core.
Shows(f, c) ==
    \/ \E g \in {c, Offered(c)} \union Substitutes(c) : Inside(g, f)
    \/ /\ f.kind = "clip" \/ \E d \in world.core : f = Offered(d)
       /\ f.path = c.path /\ f.start <= c.start /\ c.start <= f.end
SatisfiedIsShown == \A c \in satisfied : \E f \in Range(selected) : Shows(f, c)

\* While cores of its tier still wait that fit the budget and their file's
\* share, no file goes past its own share by a second core (#194, #238).
Waits(c, p) ==
    /\ Tier(c) = tier /\ c.path # p
    /\ Offered(c).tokens <= remaining
    /\ spent[c.path] + Offered(c).tokens <= FileCeiling
PastShare(p) == spent'[p] > spent[p] /\ spent[p] > 0 /\ spent'[p] > FileCeiling
CeilingYields ==
    [][pc = "sweep" => \A p \in DOMAIN spent : PastShare(p) =>
           ~\E c \in skipped \ satisfied : Waits(c, p)]_vars

\* The changed code chosen is never given up for context: what the core pass
\* placed is in the result.
CoreStays == pc = "done" /\ base.remaining > 0 => Range(base.selected) \subseteq Range(selected)

\* No path opens a file the change does not reach (#65, #211): neither the
\* loop, nor what replaces its result.
OnlyAdmitted ==
    Opened(selected) \subseteq Paths \union world.admissible \union world.declared

\* "a selected stub cannot coexist with its selected core (interval
\* superset)" (select.rs:1045-1046).
NoStandInBesideCore ==
    pc = "done" =>
        \A c \in world.core \intersect Range(selected) :
            \A s \in Substitutes(c) : s \notin Range(selected)

\* "duplicate fragment selected" (select.rs:1518).
NeverDuplicated == \A i, j \in DOMAIN selected : i # j => Id(selected[i]) # Id(selected[j])
=============================================================================
