----------------------------- MODULE HookReview -----------------------------
(***************************************************************************)
(* The hook's memory of one change (hook.rs, `prepared` and `answer`).     *)
(* Each invocation is a process of its own; all that hooks share is marker *)
(* files, named by the change's identity and the session, each written by  *)
(* a rename and so read whole.  Identities share no file, hence one is     *)
(* enough.  A hook without a session uses the very files of a manual       *)
(* `--mode impact` run: the slot `Manual`.                                 *)
(***************************************************************************)
EXTENDS Naturals

CONSTANTS
    Sessions,     \* sessions that name themselves in the payload
    Manual,       \* the slot of manual runs and of hooks without a session
    Hooks,        \* hook processes that may run at once
    MaxAttempts,  \* MAX_ATTEMPTS
    MaxCalls,     \* bound: hooks started and manual runs, together
    MaxKills,     \* bound: hooks Claude Code kills
    None

Slots == Sessions \union {Manual}

\* A commit or a pull request under the strict gate, a pull request without
\* it, what a line recorded, what a background line recorded and the next
\* event answers before its command (`pending_review`), and a `git diff` or
\* `git status`.
Events   == {"gated", "pre", "landed", "late", "inspect"}
Before   == {"gated", "pre"}
Recorded == {"landed", "late"}

\* Answered as PreToolUse, whatever triggered the review.
AtPre == Before \union {"late"}

Complete == {"full", "empty"}
Answers  == Complete \union {"partial"}
Quiet    == {"silence", "reminder", "nothing"}
Outcomes == Quiet \union {"exhausted", "unreviewed", "review", "deny"}

ASSUME Constants ==
    /\ Manual \notin Sessions
    /\ None \notin Slots \union Events \union Answers \union Outcomes
    /\ MaxAttempts \in Nat \ {0} /\ MaxCalls \in Nat /\ MaxKills \in Nat

VARIABLES
    shown,   \* slot -> the answer marked delivered (id-), or "none"
    aged,    \* the manual marker is older than MANUAL_SEEN_TTL
    rec,     \* slot -> the command path's own marker (rec-) is there
    tries,   \* slot -> the attempts on file (try-), 0 without a file
    pc, slot, event, \* hook -> where it is, its slot, its event
    known,   \* hook -> Prepared.shown
    attempt, \* hook -> attempts it read
    found,   \* hook -> its review's result
    said,    \* hook -> the output it is about to print
    calls, kills,
    \* History: what the agent of a slot has been told of the change, the
    \* slots with a printed denial (while the rec- marker lasts), the hooks
    \* that started after one or after a complete manual run that still
    \* counts, the hooks that looked at such a run's marker, and the reviews
    \* begun since the attempts were last cleared.
    told, denied, barred, excused, lent, begun

markers == <<shown, aged, rec, tries>>
hook    == <<pc, slot, event, known, attempt, found, said>>
counts  == <<calls, kills>>
history == <<told, denied, barred, excused, lent, begun>>
vars == <<markers, hook, counts, history>>

TypeOK ==
    /\ shown \in [Slots -> Answers \union {"none"}]
    /\ aged \in BOOLEAN
    /\ rec \in [Slots -> BOOLEAN]
    /\ tries \in [Slots -> 0 .. MaxAttempts]
    /\ pc \in [Hooks -> {"idle", "own", "manual", "answer", "remind", "count",
                         "claim", "review", "deliver", "settle", "record", "print"}]
    /\ slot \in [Hooks -> Slots \union {None}]
    /\ event \in [Hooks -> Events \union {None}]
    /\ known \in [Hooks -> Answers \union {"none"}]
    /\ attempt \in [Hooks -> 0 .. MaxAttempts]
    /\ found \in [Hooks -> Answers \union {None}]
    /\ said \in [Hooks -> Outcomes \union {None}]
    /\ calls \in 0 .. MaxCalls /\ kills \in 0 .. MaxKills
    /\ told \in [Slots -> {"no", "part", "all"}]
    /\ denied \in [Slots -> BOOLEAN]
    /\ barred \in [Hooks -> BOOLEAN]
    /\ excused \in [Hooks -> BOOLEAN] /\ lent \in [Hooks -> BOOLEAN]
    /\ begun \in [Slots -> Nat]

Blank(h) ==
    /\ slot' = [slot EXCEPT ![h] = None]
    /\ event' = [event EXCEPT ![h] = None]
    /\ known' = [known EXCEPT ![h] = "none"]
    /\ attempt' = [attempt EXCEPT ![h] = 0]
    /\ found' = [found EXCEPT ![h] = None]
    /\ said' = [said EXCEPT ![h] = None]
    /\ pc' = [pc EXCEPT ![h] = "idle"]
    /\ barred' = [barred EXCEPT ![h] = FALSE]
    /\ excused' = [excused EXCEPT ![h] = FALSE]
    /\ lent' = [lent EXCEPT ![h] = FALSE]

Init ==
    /\ shown = [s \in Slots |-> "none"] /\ aged = FALSE
    /\ rec = [s \in Slots |-> FALSE] /\ tries = [s \in Slots |-> 0]
    /\ pc = [h \in Hooks |-> "idle"]
    /\ slot = [h \in Hooks |-> None] /\ event = [h \in Hooks |-> None]
    /\ known = [h \in Hooks |-> "none"] /\ attempt = [h \in Hooks |-> 0]
    /\ found = [h \in Hooks |-> None] /\ said = [h \in Hooks |-> None]
    /\ calls = 0 /\ kills = 0
    /\ told = [s \in Slots |-> "no"] /\ denied = [s \in Slots |-> FALSE]
    /\ barred = [h \in Hooks |-> FALSE] /\ excused = [h \in Hooks |-> FALSE]
    /\ lent = [h \in Hooks |-> FALSE] /\ begun = [s \in Slots |-> 0]

-----------------------------------------------------------------------------
(* prepared: the session's own answer, else a recent manual one.           *)

Reviewed == shown[Manual] \in Complete /\ ~aged

Invoke(h) ==
    /\ pc[h] = "idle" /\ calls < MaxCalls
    /\ calls' = calls + 1
    /\ \E s \in Slots, e \in Events :
         /\ slot' = [slot EXCEPT ![h] = s]
         /\ event' = [event EXCEPT ![h] = e]
         /\ barred' = [barred EXCEPT ![h] = denied[s]]
    /\ excused' = [excused EXCEPT ![h] = Reviewed]
    /\ pc' = [pc EXCEPT ![h] = "own"]
    /\ UNCHANGED <<markers, known, attempt, found, said, kills, told, denied, lent, begun>>

Know(h, answer) ==
    /\ known' = [known EXCEPT ![h] = answer]
    /\ UNCHANGED <<markers, slot, event, attempt, found, said, counts,
                   told, denied, barred, excused, begun>>

\* Mutant: the marker's key leaves the session out.
ReadAnySession(h) ==
    /\ pc[h] = "own"
    /\ \E s \in Slots :
         /\ Know(h, shown[s])
         /\ pc' = [pc EXCEPT ![h] = IF shown[s] = "none" THEN "manual" ELSE "answer"]
    /\ UNCHANGED lent

ReadOwn(h) ==
    /\ pc[h] = "own"
    /\ Know(h, shown[slot[h]])
    /\ pc' = [pc EXCEPT ![h] = IF shown[slot[h]] = "none" THEN "manual" ELSE "answer"]
    /\ UNCHANGED lent

\* Mutant: a manual run is not looked for.
ReadNoManual(h) ==
    /\ pc[h] = "manual"
    /\ Know(h, "none")
    /\ pc' = [pc EXCEPT ![h] = "answer"]
    /\ lent' = [lent EXCEPT ![h] = Reviewed]

ReadManual(h) ==
    /\ pc[h] = "manual"
    /\ Know(h, IF aged THEN "none" ELSE shown[Manual])
    /\ pc' = [pc EXCEPT ![h] = "answer"]
    /\ lent' = [lent EXCEPT ![h] = Reviewed]

-----------------------------------------------------------------------------
(* answer: silence or a reminder for what was delivered before.            *)

Say(h, outcome) ==
    /\ said' = [said EXCEPT ![h] = outcome]
    /\ pc' = [pc EXCEPT ![h] = "print"]

Goto(h, place) == pc' = [pc EXCEPT ![h] = place] /\ UNCHANGED said

\* What the hook says of a complete answer: an empty one has no callers to
\* point back at, and an inspection is not told twice.
Recall(h) ==
    CASE event[h] \in Recorded /\ known[h] = "empty" -> "nothing"
      [] event[h] # "inspect" /\ known[h] = "full" -> "reminder"
      [] OTHER -> "silence"

\* Recalling marks the record, except for an inspection and, after a command,
\* for a landed record that reaches nothing.
Remarks(h) == event[h] \in AtPre \/ Recall(h) = "reminder"

\* Only the event is looked at: a landed record is passed over like a retry.
OnRecord(h) == event[h] \in AtPre /\ rec[slot[h]]

\* Mutant: an inspection reviews again what its session was shown.
AnswerAgain(h) ==
    /\ pc[h] = "answer"
    /\ \/ OnRecord(h) /\ Say(h, "silence")
       \/ ~OnRecord(h) /\ ~Remarks(h) /\ Goto(h, "count")
       \/ ~OnRecord(h) /\ known[h] \in Complete /\ Remarks(h) /\ Goto(h, "remind")
    /\ UNCHANGED <<markers, slot, event, known, attempt, found, counts, history>>

Answer(h) ==
    /\ pc[h] = "answer"
    /\ \/ OnRecord(h) /\ Say(h, "silence")
       \/ ~OnRecord(h) /\ known[h] \notin Complete /\ Goto(h, "count")
       \/ ~OnRecord(h) /\ known[h] \in Complete /\ Remarks(h) /\ Goto(h, "remind")
       \/ ~OnRecord(h) /\ known[h] \in Complete /\ ~Remarks(h) /\ Say(h, Recall(h))
    /\ UNCHANGED <<markers, slot, event, known, attempt, found, counts, history>>

Remind(h) ==
    /\ pc[h] = "remind"
    /\ rec' = [rec EXCEPT ![slot[h]] = TRUE]
    /\ Say(h, Recall(h))
    /\ UNCHANGED <<shown, aged, tries, slot, event, known, attempt, found, counts, history>>

-----------------------------------------------------------------------------
(* answer: an attempt at a review, and what is marked of it.               *)

\* Mutant: attempts that are used up are silence, after a command too.
CountQuietly(h) ==
    /\ pc[h] = "count"
    /\ attempt' = [attempt EXCEPT ![h] = tries[slot[h]]]
    /\ \/ tries[slot[h]] < MaxAttempts /\ Goto(h, "claim")
       \/ tries[slot[h]] >= MaxAttempts /\ Say(h, "exhausted")
    /\ UNCHANGED <<markers, slot, event, known, found, counts, history>>

Count(h) ==
    /\ pc[h] = "count"
    /\ attempt' = [attempt EXCEPT ![h] = tries[slot[h]]]
    /\ \/ tries[slot[h]] < MaxAttempts /\ Goto(h, "claim")
       \/ /\ tries[slot[h]] >= MaxAttempts
          /\ Say(h, IF event[h] \in Recorded THEN "unreviewed" ELSE "exhausted")
    /\ UNCHANGED <<markers, slot, event, known, found, counts, history>>

\* Mutant: the attempt is not put on file before the review.
ClaimNothing(h) ==
    /\ pc[h] = "claim"
    /\ begun' = [begun EXCEPT ![slot[h]] = @ + 1]
    /\ Goto(h, "review")
    /\ UNCHANGED <<markers, slot, event, known, attempt, found, counts,
                   told, denied, barred, excused, lent>>

Claim(h) ==
    /\ pc[h] = "claim"
    /\ tries' = [tries EXCEPT ![slot[h]] = attempt[h] + 1]
    /\ begun' = [begun EXCEPT ![slot[h]] = @ + 1]
    /\ Goto(h, "review")
    /\ UNCHANGED <<shown, aged, rec, slot, event, known, attempt, found, counts,
                   told, denied, barred, excused, lent>>

\* The run ends with an answer, or fails or times out.  A failed review of
\* what a command records is said; of an inspection it is silence.
Review(h) ==
    /\ pc[h] = "review"
    /\ \/ \E result \in Answers :
            /\ found' = [found EXCEPT ![h] = result]
            /\ Goto(h, "deliver")
       \/ /\ Say(h, IF event[h] = "inspect" THEN "exhausted" ELSE "unreviewed")
          /\ UNCHANGED found
    /\ UNCHANGED <<markers, slot, event, known, attempt, counts, history>>

\* A marker file is replaced, so its age starts again.
Mark(s, result) ==
    /\ shown' = [shown EXCEPT ![s] = result]
    /\ aged' = IF s = Manual THEN FALSE ELSE aged

Deliver(h) ==
    /\ pc[h] = "deliver"
    /\ Mark(slot[h], found[h])
    /\ excused' = IF slot[h] = Manual /\ found[h] = "partial"
                  THEN [k \in Hooks |-> FALSE] ELSE excused
    /\ Goto(h, "settle")
    /\ UNCHANGED <<rec, tries, slot, event, known, attempt, found, counts,
                   told, denied, barred, lent, begun>>

Settle(h) ==
    /\ pc[h] = "settle"
    /\ IF found[h] = "partial" THEN UNCHANGED <<tries, begun>>
       ELSE /\ tries' = [tries EXCEPT ![slot[h]] = 0]
            /\ begun' = [begun EXCEPT ![slot[h]] = 0]
    /\ Goto(h, "record")
    /\ UNCHANGED <<shown, aged, rec, slot, event, known, attempt, found, counts,
                   told, denied, barred, excused, lent>>

Conclusion(h) ==
    CASE found[h] = "empty" -> IF event[h] = "inspect" THEN "silence" ELSE "nothing"
      [] found[h] = "full" /\ event[h] = "gated" -> "deny"
      [] OTHER -> "review"

\* Mutant: a denial does not mark its record.
RecordNothing(h) ==
    /\ pc[h] = "record"
    /\ Say(h, Conclusion(h))
    /\ UNCHANGED <<markers, slot, event, known, attempt, found, counts, history>>

Record(h) ==
    /\ pc[h] = "record"
    /\ rec' = IF event[h] \in AtPre THEN [rec EXCEPT ![slot[h]] = TRUE] ELSE rec
    /\ Say(h, Conclusion(h))
    /\ UNCHANGED <<shown, aged, tries, slot, event, known, attempt, found, counts, history>>

\* What the output adds to what the slot's agent was told: an empty answer
\* is delivered as silence, and a reminder points at the run it recalls.
Tells(h) ==
    IF found[h] \in Complete \/ known[h] \in Complete THEN "all"
    ELSE IF said[h] \in {"review", "unreviewed"} THEN "part" ELSE "no"

Learn(s, news) ==
    IF news = "no" \/ told[s] = "all" THEN told ELSE [told EXCEPT ![s] = news]

Tell(h) ==
    /\ pc[h] = "print"
    /\ told' = Learn(slot[h], Tells(h))
    /\ denied' = IF said[h] = "deny" THEN [denied EXCEPT ![slot[h]] = TRUE] ELSE denied
    /\ Blank(h)
    /\ UNCHANGED <<markers, counts, begun>>

-----------------------------------------------------------------------------
(* Beside the hooks: manual runs, time, and Claude Code's timeout.         *)

\* mark_range_reviewed, after a run the user started.
ManualRun ==
    /\ calls < MaxCalls
    /\ calls' = calls + 1
    /\ \E result \in Answers :
         /\ Mark(Manual, result)
         /\ excused' = IF result = "partial" THEN [k \in Hooks |-> FALSE] ELSE excused
         /\ told' = Learn(Manual, IF result = "partial" THEN "part" ELSE "all")
    /\ UNCHANGED <<rec, tries, hook, kills, denied, barred, lent, begun>>

\* A hook runs for a minute at most, so what it wrote ages after its end.
Writing(s, places) == \E h \in Hooks : slot[h] = s /\ pc[h] \in places
Delivering(s) == \E h \in Hooks : slot[h] = s /\ found[h] # None /\ pc[h] # "deliver"

\* The manual marker is fifteen minutes old.
Age ==
    /\ shown[Manual] # "none" /\ ~aged /\ ~Delivering(Manual)
    /\ aged' = TRUE
    /\ excused' = [h \in Hooks |-> FALSE]
    /\ UNCHANGED <<shown, rec, tries, hook, counts, told, denied, barred, lent, begun>>

\* A marker is a day old: no longer read, whether or not it is swept.
ExpireShown(s) ==
    /\ shown[s] # "none" /\ (s = Manual => aged) /\ ~Delivering(s)
    /\ shown' = [shown EXCEPT ![s] = "none"]
    /\ aged' = IF s = Manual THEN FALSE ELSE aged
    /\ UNCHANGED <<rec, tries, hook, counts, history>>

ExpireRec(s) ==
    /\ rec[s] /\ ~Writing(s, {"print"})
    /\ rec' = [rec EXCEPT ![s] = FALSE]
    /\ denied' = [denied EXCEPT ![s] = FALSE]
    /\ barred' = [h \in Hooks |-> barred[h] /\ slot[h] # s]
    /\ UNCHANGED <<shown, aged, tries, hook, counts, told, excused, lent, begun>>

ExpireTries(s) ==
    /\ tries[s] # 0 /\ ~Writing(s, {"review", "deliver", "settle"})
    /\ tries' = [tries EXCEPT ![s] = 0]
    /\ begun' = [begun EXCEPT ![s] = 0]
    /\ UNCHANGED <<shown, aged, rec, hook, counts, told, denied, barred, excused, lent>>

\* A killed hook prints nothing; Claude Code lets the command run.
Kill(h) ==
    /\ pc[h] # "idle" /\ kills < MaxKills
    /\ kills' = kills + 1
    /\ Blank(h)
    /\ UNCHANGED <<markers, calls, told, denied, begun>>

Step(h) ==
    \/ Invoke(h) \/ ReadOwn(h) \/ ReadManual(h) \/ Answer(h) \/ Remind(h)
    \/ Count(h) \/ Claim(h) \/ Review(h) \/ Deliver(h) \/ Settle(h)
    \/ Record(h) \/ Tell(h) \/ Kill(h)

Next ==
    \/ \E h \in Hooks : Step(h)
    \/ ManualRun \/ Age
    \/ \E s \in Slots : ExpireShown(s) \/ ExpireRec(s) \/ ExpireTries(s)

Spec == Init /\ [][Next]_vars

-----------------------------------------------------------------------------
(* Properties.                                                             *)

\* Once a denial was printed, no gated commit of the same change that starts
\* afterwards in the session is denied again while the record lasts: "denies
\* once with the impact attached, so the retry passes" (hook.rs:21-22),
\* whatever other hooks do to the markers meanwhile.
GateOpens == \A h \in Hooks : said[h] = "deny" => ~barred[h]

\* What the session of a hook has been told of the change, or is about to
\* be: at a PreToolUse event, a partial review or the news of a failed one is
\* enough, and for a late record too; after a command, and on an inspection,
\* only a complete answer is.
Heard(h) ==
    \/ told[slot[h]] = "all"
    \/ told[slot[h]] = "part" /\ event[h] \in AtPre
    \/ \E k \in Hooks \ {h} :
         /\ slot[k] = slot[h]
         /\ \/ pc[k] = "print" /\ known[k] \in Complete
            \/ pc[k] \in {"settle", "record", "print"} /\ found[k] \in Complete
            \/ pc[k] = "print" /\ found[k] = "partial" /\ event[h] \in AtPre

\* A hook that stays silent, reminds, or says that the change reaches nothing
\* has that from an answer of its own session or from a manual run less than
\* fifteen minutes old when it looked: never from another session
\* (session_key, #323), a review that failed, or an older manual run.  Under
\* the strict gate it is what lets the commit through.
QuietIsEarned ==
    \A h \in Hooks : said[h] \in Quiet => found[h] = "empty" \/ lent[h] \/ Heard(h)

\* After a complete manual run, while it counts, the gate denies only a
\* session that holds a partial answer of its own (mark_range_reviewed).
ManualReviewCounts ==
    \A h \in Hooks : said[h] = "deny" /\ excused[h] => known[h] = "partial"

\* What a line recorded is not met with silence, which would read as a clean
\* review (#464, #501, #612), whatever was marked before and however often it
\* was tried: with one exception, a late record whose change the session met
\* before, with its own marker still there (hook.rs:3832).
LandedIsAnswered ==
    \A h \in Hooks :
        event[h] \in Recorded =>
            /\ said[h] # "exhausted"
            /\ said[h] = "silence" => event[h] = "late" /\ rec[slot[h]]

\* "What a background line of this session recorded since an earlier event
\* left its record waiting, answered at whatever event comes next, once"
\* (hook.rs:2157-2158).
LateIsAnswered == \A h \in Hooks : event[h] = "late" => said[h] # "silence"

\* With one hook at a time, the reviews of one change in one session, killed
\* ones included, stop at MAX_ATTEMPTS until one completes or a day has passed.
AttemptsBounded == \A s \in Slots : begun[s] <= MaxAttempts

\* With one hook at a time, a complete answer of a session gives way to
\* nothing but its expiry: no partial answer ever replaces it.
CompleteIsKept ==
    [][\A s \in Sessions : shown[s] \in Complete => shown'[s] \in Complete \union {"none"}]_vars

\* "A manual `--mode impact` run on a range counts as that range reviewed:
\* the hooks then stay silent on the commit or push that follows, and the
\* strict gate opens" (hook.rs:1901-1903).
ManualReviewOpensGate == \A h \in Hooks : said[h] = "deny" => ~excused[h]

\* "A commit or pull request the hook was asked to review before it ran, and
\* could not, says so" (tests/hook.rs:1816-1818): it does not end in silence
\* in a session that was told nothing of the change.
UnreviewedIsSaid ==
    \A h \in Hooks :
        event[h] \in Before /\ said[h] = "exhausted" => told[slot[h]] # "no"
=============================================================================
