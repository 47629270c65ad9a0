----------------------------- MODULE RunContext -----------------------------
(***************************************************************************)
(* One run's control surface (resource.rs, `RunContext`): a deadline, a    *)
(* cancellation flag, a cap on edge contributions and the log of reasons,  *)
(* shared by the rayon workers that execute the edge builders              *)
(* (edges/mod.rs, `collect_capped_edges_from`).  Each atomic load and each *)
(* lock acquisition of `check` is a step of its own, so that two workers   *)
(* can be anywhere inside it at once.                                      *)
(***************************************************************************)
EXTENDS Integers, FiniteSets

CONSTANTS
    Workers,      \* rayon workers
    Builders,     \* edge builders of the run
    Polling,      \* builders whose loop calls poll_emissions
    Nesting,      \* the builder (lexical.rs) with a rayon loop of its own, which never polls
    MaxEmit,      \* bound: edges one builder may emit
    Cap,          \* max_edge_contributions
    MaxPolls,     \* bound on the logical clock of the deadline test hook
    None          \* no builder

ASSUME BuilderKinds == /\ Polling \subseteq Builders
                       /\ Nesting \subseteq Builders
                       /\ Polling \intersect Nesting = {}
                       /\ None \notin Builders
                       /\ \A b, c \in Nesting : b = c
ASSUME Limits == MaxEmit \in Nat /\ Cap \in Nat /\ MaxPolls \in Nat

NoHook == -1      \* polls_left is None: no logical clock

Reason == {"Deadline", "Cancelled", "EdgeContributionLimit"}

VARIABLES
    cancel,        \* the flag the caller may raise (CancelToken)
    expired,       \* the clock has reached expires_at
    pollsLeft,     \* the test hook's logical clock, or NoHook
    tripped,       \* Inner.tripped
    contributions, \* Inner.contributions
    reasons,       \* Inner.reasons
    queue,         \* builders no worker has taken
    job,           \* worker -> the builder it executes
    below,         \* builder -> the builder its worker suspended to take it
    pc, site,      \* worker -> where it is, and which call of check it is in
    selfReported,  \* worker -> the thread-local SELF_REPORTED
    produced,      \* worker -> edges its last poll_emissions found new
    emitted,       \* builder -> edges it holds
    reported,      \* builder -> its loop's own `reported`
    skipped, cut,  \* builders never entered, loops ended by a poll
    charged,       \* history: builder -> contributions charged for it
    late           \* history: worker -> checks it passed after the trip

ctl  == <<cancel, expired, pollsLeft, tripped, reasons>>
work == <<queue, job, below>>
loop == <<emitted, reported>>
vars == <<ctl, work, loop, contributions, pc, site, selfReported, produced,
          skipped, cut, charged, late>>

Start == "start"   \* the check before a builder is entered
Poll  == "poll"    \* the check inside poll_current
Last  == "last"    \* charge_remaining: no check, only the charge

PCs == {"idle", "load", "cancel", "clock", "trip", "over", "add", "noteCap",
        "body", "charge"}

TypeOK ==
    /\ cancel \in BOOLEAN /\ expired \in BOOLEAN /\ tripped \in BOOLEAN
    /\ pollsLeft \in {NoHook} \union (0 .. MaxPolls)
    /\ contributions \in Nat
    /\ reasons \subseteq Reason
    /\ queue \subseteq Builders
    /\ job \in [Workers -> Builders \union {None}]
    /\ below \in [Builders -> Builders \union {None}]
    /\ pc \in [Workers -> PCs] /\ site \in [Workers -> {Start, Poll, Last}]
    /\ selfReported \in [Workers -> Nat] /\ produced \in [Workers -> Nat]
    /\ emitted \in [Builders -> Nat] /\ reported \in [Builders -> Nat]
    /\ skipped \subseteq Builders /\ cut \subseteq Builders
    /\ charged \in [Builders -> Nat]
    /\ late \in [Workers -> Nat]

Init ==
    /\ cancel = FALSE /\ expired = FALSE /\ tripped = FALSE
    /\ pollsLeft \in {NoHook} \union (0 .. MaxPolls)
    /\ contributions = 0 /\ reasons = {}
    /\ queue = Builders
    /\ job = [w \in Workers |-> None] /\ below = [b \in Builders |-> None]
    /\ pc = [w \in Workers |-> "idle"] /\ site = [w \in Workers |-> Start]
    /\ selfReported = [w \in Workers |-> 0] /\ produced = [w \in Workers |-> 0]
    /\ emitted = [b \in Builders |-> 0] /\ reported = [b \in Builders |-> 0]
    /\ skipped = {} /\ cut = {}
    /\ charged = [b \in Builders |-> 0]
    /\ late = [w \in Workers |-> 0]

-----------------------------------------------------------------------------
(* The caller and the clock.                                               *)

Cancel == /\ ~cancel /\ cancel' = TRUE
          /\ UNCHANGED <<expired, pollsLeft, tripped, reasons, work, loop, contributions,
                         pc, site, selfReported, produced, skipped, cut, charged, late>>

Expire == /\ ~expired /\ expired' = TRUE
          /\ UNCHANGED <<cancel, pollsLeft, tripped, reasons, work, loop, contributions,
                         pc, site, selfReported, produced, skipped, cut, charged, late>>

-----------------------------------------------------------------------------
(* A worker leaves the builder it is in: back to the builder it suspended, *)
(* whose own rayon loop is still waiting, or to the pool.                  *)

Leave(w) ==
    LET under == below[job[w]] IN
    /\ job' = [job EXCEPT ![w] = under]
    /\ below' = [below EXCEPT ![job[w]] = None]
    /\ pc' = [pc EXCEPT ![w] = IF under = None THEN "idle" ELSE "body"]
    /\ UNCHANGED queue

Goto(w, where) == pc' = [pc EXCEPT ![w] = where] /\ UNCHANGED work

\* `check` said stop: a builder not entered yet contributes nothing; a loop
\* that polled ends, and its builder is left to be charged.
Stop(w) ==
    \/ /\ site[w] = Start
       /\ skipped' = skipped \union {job[w]}
       /\ Leave(w)
       /\ UNCHANGED cut
    \/ /\ site[w] = Poll
       /\ cut' = cut \union {job[w]}
       /\ Goto(w, "charge")
       /\ UNCHANGED skipped

Pass(w) ==
    /\ late' = [late EXCEPT ![w] = IF tripped THEN @ + 1 ELSE @]
    /\ Goto(w, IF site[w] = Start THEN "over" ELSE "add")

-----------------------------------------------------------------------------
(* RunContext::check, one step per shared access.                          *)

\* Mutant: the fast path returns the wrong answer.
LoadTrippedPasses(w) ==
    /\ pc[w] = "load"
    /\ \/ tripped /\ Pass(w)
       \/ ~tripped /\ Goto(w, "cancel") /\ UNCHANGED late
    /\ UNCHANGED <<ctl, loop, contributions, site, selfReported, produced, skipped, cut, charged>>

LoadTripped(w) ==
    /\ pc[w] = "load"
    /\ \/ tripped /\ Stop(w)
       \/ ~tripped /\ Goto(w, "cancel") /\ UNCHANGED <<skipped, cut>>
    /\ UNCHANGED <<ctl, loop, contributions, site, selfReported, produced, charged, late>>

\* Mutant: a cancellation stops the run and is not noted.
LoadCancelUnexplained(w) ==
    /\ pc[w] = "cancel"
    /\ Goto(w, IF cancel THEN "trip" ELSE "clock")
    /\ UNCHANGED <<ctl, loop, contributions, site, selfReported, produced, skipped, cut,
                   charged, late>>

\* Mutant: the cancellation flag is never read.
LoadCancelDeaf(w) ==
    /\ pc[w] = "cancel"
    /\ Goto(w, "clock")
    /\ UNCHANGED <<ctl, loop, contributions, site, selfReported, produced, skipped, cut,
                   charged, late>>

LoadCancel(w) ==
    /\ pc[w] = "cancel"
    /\ \/ cancel /\ reasons' = reasons \union {"Cancelled"} /\ Goto(w, "trip")
       \/ ~cancel /\ Goto(w, "clock") /\ UNCHANGED reasons
    /\ UNCHANGED <<cancel, expired, pollsLeft, tripped, loop, contributions, site,
                   selfReported, produced, skipped, cut, charged, late>>

\* Mutant: fetch_sub in place of fetch_update(checked_sub), which wraps.
ReadClockWraps(w) ==
    /\ pc[w] = "clock"
    /\ pollsLeft' = CASE pollsLeft = NoHook -> NoHook
                      [] pollsLeft = 0      -> MaxPolls + 1
                      [] OTHER              -> pollsLeft - 1
    /\ \/ /\ pollsLeft = 0 \/ expired
          /\ reasons' = reasons \union {"Deadline"}
          /\ Goto(w, "trip")
          /\ UNCHANGED late
       \/ /\ pollsLeft # 0 /\ ~expired
          /\ Pass(w)
          /\ UNCHANGED reasons
    /\ UNCHANGED <<cancel, expired, tripped, loop, contributions, site, selfReported,
                   produced, skipped, cut, charged>>

\* polls_left.fetch_update(checked_sub), then Instant::now().
ReadClock(w) ==
    /\ pc[w] = "clock"
    /\ pollsLeft' = IF pollsLeft > 0 THEN pollsLeft - 1 ELSE pollsLeft
    /\ \/ /\ pollsLeft = 0 \/ expired
          /\ reasons' = reasons \union {"Deadline"}
          /\ Goto(w, "trip")
          /\ UNCHANGED late
       \/ /\ pollsLeft # 0 /\ ~expired
          /\ Pass(w)
          /\ UNCHANGED reasons
    /\ UNCHANGED <<cancel, expired, tripped, loop, contributions, site, selfReported,
                   produced, skipped, cut, charged>>

StoreTripped(w) ==
    /\ pc[w] = "trip"
    /\ tripped' = TRUE
    /\ Stop(w)
    /\ UNCHANGED <<cancel, expired, pollsLeft, reasons, loop, contributions, site,
                   selfReported, produced, charged, late>>

-----------------------------------------------------------------------------
(* RunContext::add_contributions: the fetch_add, then the note.            *)

Charge(w, n) ==
    /\ contributions' = contributions + n
    /\ charged' = [charged EXCEPT ![job[w]] = @ + n]

\* Mutant: the cap stops a loop without logging it.
NoteCapSilent(w) ==
    /\ pc[w] = "noteCap"
    /\ \/ site[w] = Poll /\ cut' = cut \union {job[w]} /\ Goto(w, "charge")
       \/ site[w] = Last /\ Leave(w) /\ UNCHANGED cut
    /\ UNCHANGED <<ctl, loop, contributions, site, selfReported, produced, skipped,
                   charged, late>>

NoteCap(w) ==
    /\ pc[w] = "noteCap"
    /\ reasons' = reasons \union {"EdgeContributionLimit"}
    /\ \/ site[w] = Poll /\ cut' = cut \union {job[w]} /\ Goto(w, "charge")
       \/ site[w] = Last /\ Leave(w) /\ UNCHANGED cut
    /\ UNCHANGED <<cancel, expired, pollsLeft, tripped, loop, contributions, site,
                   selfReported, produced, skipped, charged, late>>

-----------------------------------------------------------------------------
(* collect_capped_edges_from: one builder per rayon job.                   *)

\* An idle worker takes a builder; so does one blocked in the rayon loop of a
\* nesting builder, which steals work while it waits.
Take(w) ==
    /\ pc[w] = "idle" \/ (pc[w] = "body" /\ job[w] \in Nesting)
    /\ \E b \in queue :
        /\ queue' = queue \ {b}
        /\ below' = [below EXCEPT ![b] = job[w]]
        /\ job' = [job EXCEPT ![w] = b]
    /\ pc' = [pc EXCEPT ![w] = "load"]
    /\ site' = [site EXCEPT ![w] = Start]
    /\ UNCHANGED <<ctl, loop, contributions, selfReported, produced, skipped, cut, charged, late>>

\* over_contributions, then `enter`, which resets SELF_REPORTED.
Enter(w) ==
    /\ pc[w] = "over"
    /\ \/ /\ contributions > Cap
          /\ skipped' = skipped \union {job[w]}
          /\ Leave(w)
          /\ UNCHANGED selfReported
       \/ /\ contributions <= Cap
          /\ selfReported' = [selfReported EXCEPT ![w] = 0]
          /\ Goto(w, "body")
          /\ UNCHANGED skipped
    /\ UNCHANGED <<ctl, loop, contributions, site, produced, cut, charged, late>>

\* The builder's own work between two polls.
Emit(w) ==
    /\ pc[w] = "body"
    /\ emitted[job[w]] < MaxEmit
    /\ emitted' = [emitted EXCEPT ![job[w]] = @ + 1]
    /\ UNCHANGED <<ctl, work, reported, contributions, pc, site, selfReported,
                   produced, skipped, cut, charged, late>>

\* poll_emissions on its cadence: the produced edges count as reported, then
\* poll_current checks the deadline.
PollEmissions(w) ==
    LET b == job[w]
        new == IF emitted[b] > reported[b] THEN emitted[b] - reported[b] ELSE 0
    IN
    /\ pc[w] = "body" /\ b \in Polling
    /\ produced' = [produced EXCEPT ![w] = new]
    /\ reported' = [reported EXCEPT ![b] = emitted[b]]
    /\ selfReported' = [selfReported EXCEPT ![w] = @ + new]
    /\ pc' = [pc EXCEPT ![w] = "load"]
    /\ site' = [site EXCEPT ![w] = Poll]
    /\ UNCHANGED <<ctl, work, emitted, contributions, skipped, cut, charged, late>>

\* poll_current after a passed check: the produced edges are charged.
AddProduced(w) ==
    /\ pc[w] = "add"
    /\ Charge(w, produced[w])
    /\ Goto(w, IF produced[w] # 0 /\ contributions' > Cap THEN "noteCap" ELSE "body")
    /\ UNCHANGED <<ctl, loop, site, selfReported, produced, skipped, cut, late>>

\* The builder returns: its loop is over, or it never had a poll.
Return(w) ==
    /\ pc[w] = "body"
    /\ Goto(w, "charge")
    /\ UNCHANGED <<ctl, loop, contributions, site, selfReported, produced, skipped, cut,
                   charged, late>>

\* Mutant: the whole total is charged when the builder returns.
ChargeTotal(w) ==
    /\ pc[w] = "charge"
    /\ selfReported' = [selfReported EXCEPT ![w] = 0]
    /\ Charge(w, emitted[job[w]])
    /\ site' = [site EXCEPT ![w] = Last]
    /\ IF emitted[job[w]] # 0 /\ contributions' > Cap THEN Goto(w, "noteCap") ELSE Leave(w)
    /\ UNCHANGED <<ctl, loop, produced, skipped, cut, late>>

\* charge_remaining: the builder's total minus what its loop reported.
ChargeRemaining(w) ==
    LET b == job[w]
        remaining == IF emitted[b] > selfReported[w] THEN emitted[b] - selfReported[w] ELSE 0
    IN
    /\ pc[w] = "charge"
    /\ selfReported' = [selfReported EXCEPT ![w] = 0]
    /\ Charge(w, remaining)
    /\ site' = [site EXCEPT ![w] = Last]
    /\ IF remaining # 0 /\ contributions' > Cap THEN Goto(w, "noteCap") ELSE Leave(w)
    /\ UNCHANGED <<ctl, loop, produced, skipped, cut, late>>

-----------------------------------------------------------------------------

AllDone == queue = {} /\ \A w \in Workers : pc[w] = "idle"

Finished == AllDone /\ UNCHANGED vars

Step(w) ==
    \/ LoadTripped(w) \/ LoadCancel(w) \/ ReadClock(w) \/ StoreTripped(w)
    \/ NoteCap(w) \/ Take(w) \/ Enter(w) \/ Emit(w) \/ PollEmissions(w)
    \/ AddProduced(w) \/ Return(w) \/ ChargeRemaining(w)

Next == Cancel \/ Expire \/ Finished \/ \E w \in Workers : Step(w)

\* What a worker does without being asked.  A polling loop polls and a
\* builder without a poll returns; nothing makes a polling loop end by
\* itself, and nothing makes a caller cancel or a clock reach a deadline.
Progress(w) ==
    \/ LoadTripped(w) \/ LoadCancel(w) \/ ReadClock(w) \/ StoreTripped(w)
    \/ NoteCap(w) \/ Enter(w) \/ PollEmissions(w) \/ AddProduced(w) \/ ChargeRemaining(w)
    \/ (pc[w] = "idle" /\ Take(w))
    \/ (pc[w] = "body" /\ job[w] \notin Polling /\ Return(w))

Fairness == \A w \in Workers : WF_vars(Progress(w))

Spec == Init /\ [][Next]_vars /\ Fairness

-----------------------------------------------------------------------------
(* Properties.                                                             *)

\* `check` notes the reason before it publishes the stop, so no worker that
\* sees `tripped` can build a coverage report that does not say why.
StopIsExplained ==
    tripped => (\/ "Deadline" \in reasons /\ (expired \/ pollsLeft = 0)
                \/ "Cancelled" \in reasons /\ cancel)

\* `bounded_par`: "each item is taken after one poll, from any worker, so no
\* item starts past the deadline".  What the separate loads of `check` leave
\* open is one check per worker that was under way when another one tripped.
LateAtMostOnce == \A w \in Workers : late[w] <= 1

\* A builder never entered, or a loop ended by a poll, is lost context: once
\* the workers are done the log holds the limit that cost it, and the
\* contribution cap is logged exactly when it was crossed.
NoSilentTruncation ==
    AllDone =>
        /\ skipped \union cut # {} => reasons # {}
        /\ (contributions > Cap) <=> ("EdgeContributionLimit" \in reasons)

\* "So the orchestrator charges only the remainder when the builder returns -
\* never the same edge twice" (resource.rs, SELF_REPORTED): whatever a worker
\* steals while a builder is suspended, no builder is charged more than it
\* emitted.
NeverChargedTwice == \A b \in Builders : charged[b] <= emitted[b]

\* A run that neither the clock nor the caller stopped has charged every edge
\* of every builder it entered.
ChargedInFull ==
    AllDone /\ ~tripped => \A b \in Builders : charged[b] = emitted[b]

\* The two together: an edge counts once towards the contribution cap.
ChargedOnce == NeverChargedTwice /\ ChargedInFull

\* A polling loop that nothing else would end is ended, with every builder
\* below and beside it, once the caller cancels or the clock runs out.  (The
\* contribution cap gives no such promise: a poll that found nothing new does
\* not look at it.)
StopsWhenTold == (cancel \/ expired) ~> AllDone
=============================================================================
