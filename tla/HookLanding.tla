---------------------------- MODULE HookLanding -----------------------------
(***************************************************************************)
(* Whose commit is it (hook.rs, `record_before`, `landed`, `claim` and the *)
(* pending records).  A hook before a line notes HEAD and how far its      *)
(* reflog ran; the hook after the line reads what the reflog holds since.  *)
(* A line in the background has its hook at launch: its record waits for a *)
(* later hook of the session.  Sessions share the checkout and, through    *)
(* files without locks, their claims.  Modelled: one repository, commits   *)
(* and merges; a push is not.                                              *)
(***************************************************************************)
EXTENDS Integers, Sequences, FiniteSets

CONSTANTS
    Sessions,
    Lines,        \* the lines of all sessions
    Session,      \* line -> the session that runs it
    Background,   \* the lines run in the background
    Verbs,        \* line -> the moves of HEAD its statements make
    Hooks,        \* hook processes that may run at once
    Parallel,     \* a session may have several tool calls in flight
    MaxCommits, MaxLog, MaxEvents, \* bounds
    MaxFaults,    \* bound: hooks killed and ranges not read
    None

ASSUME Constants ==
    /\ Session \in [Lines -> Sessions] /\ Background \subseteq Lines
    /\ Verbs \in [Lines -> SUBSET {"commit", "merge", "amend", "reset"}]
    /\ Parallel \in BOOLEAN
    /\ MaxCommits \in Nat /\ MaxLog \in Nat /\ MaxEvents \in Nat /\ MaxFaults \in Nat
    /\ None \notin Lines \union Sessions /\ Lines \intersect Sessions = {}

Actions == {"commit", "merge", "amend", "reset"}

VARIABLES
    parents,  \* commit -> the commit it grows from; 0 is the first HEAD
    head, log, \* HEAD, and its reflog
    stage,    \* line -> "new", "asked", "runs", "over"
    posted,   \* the lines whose hook after them has started
    filed,    \* lines -> a record file is there
    before,   \* line -> its record: HEAD and the length of the reflog
    pending,  \* session -> the lines whose records wait
    old,      \* the lines whose record is older than PENDING_TTL
    idle,     \* session -> its pending file is older than PENDING_TTL
    claim,    \* commit -> the session its claim names
    pc, job,  \* hook -> where it is, the session and line it runs for
    mine,     \* hook -> what the record it looks at landed: commits and range
    view,     \* hook -> the pending records it read
    todo, wait, \* hook -> of those, the ones to look at and the ones to keep
    events, kills, unread,
    \* History: who made a commit, and who took it; the commits in a range
    \* that was answered, in one a hook claimed and has not answered, and in
    \* one that was claimed and never answered; what a waiting record came to;
    \* the commits another session had taken when a hook started, and those a
    \* record of its own session had waiting.
    maker, taken, shown, hand, lost, fate, barred, due

git     == <<parents, head, log>>
lines   == <<stage, posted>>
files   == <<filed, before, pending, old, idle, claim>>
hook    == <<pc, job, mine, view, todo, wait>>
counts  == <<events, kills, unread>>
history == <<maker, taken, shown, hand, lost, fate, barred, due>>
vars    == <<git, lines, files, hook, counts, history>>

Commits == 0 .. Len(parents)
Nothing == [line |-> None, commits |-> {}, range |-> {}]
NoJob == [session |-> None, line |-> None]

TypeOK ==
    /\ parents \in Seq(Nat) /\ head \in Commits
    /\ \A c \in DOMAIN parents : parents[c] < c
    /\ \A i \in DOMAIN log : /\ log[i].old \in Commits /\ log[i].new \in Commits
                             /\ log[i].act \in Actions
    /\ stage \in [Lines -> {"new", "asked", "runs", "over"}]
    /\ posted \subseteq Lines /\ filed \subseteq Lines /\ old \subseteq Lines
    /\ \A l \in Lines : before[l].head \in Commits /\ before[l].from \in 0 .. Len(log)
    /\ \A s \in Sessions : pending[s] \subseteq {l \in Lines : Session[l] = s}
    /\ idle \subseteq Sessions
    /\ \A c \in DOMAIN claim : claim[c] \in Sessions \union {None}
    /\ pc \in [Hooks -> {"idle", "head", "log", "record", "claim", "forget", "unpend",
                         "keep", "pend", "pending", "late", "lateclaim"}]
    /\ \A h \in Hooks : pc[h] # "idle" => job[h].session \in Sessions
    /\ fate \in [Lines -> {"none", "kept", "taken", "forgotten", "aged", "killed"}]

Init ==
    /\ parents = <<>> /\ head = 0 /\ log = <<>>
    /\ stage = [l \in Lines |-> "new"] /\ posted = {}
    /\ filed = {} /\ before = [l \in Lines |-> [head |-> 0, from |-> 0]]
    /\ pending = [s \in Sessions |-> {}] /\ old = {} /\ idle = {} /\ claim = <<>>
    /\ pc = [h \in Hooks |-> "idle"] /\ job = [h \in Hooks |-> NoJob]
    /\ mine = [h \in Hooks |-> Nothing] /\ view = [h \in Hooks |-> {}]
    /\ todo = [h \in Hooks |-> {}] /\ wait = [h \in Hooks |-> {}]
    /\ events = 0 /\ kills = 0 /\ unread = 0
    /\ maker = <<>> /\ taken = <<>>
    /\ shown = {} /\ hand = [h \in Hooks |-> {}] /\ lost = {}
    /\ fate = [l \in Lines |-> "none"]
    /\ barred = [h \in Hooks |-> {}] /\ due = [h \in Hooks |-> {}]

-----------------------------------------------------------------------------
(* The lines, and the git they run.                                        *)

Ancestors(c) ==
    LET upto[d \in Commits] == IF d = 0 THEN {0} ELSE {d} \union upto[parents[d]]
    IN upto[c]

\* A commit on top of HEAD, or in its place.
Commit(l) ==
    /\ stage[l] = "runs" /\ Len(parents) < MaxCommits /\ Len(log) < MaxLog
    /\ \E act \in Verbs[l] \ {"reset"} :
         /\ act = "amend" => head # 0
         /\ parents' = Append(parents, IF act = "amend" THEN parents[head] ELSE head)
         /\ head' = Len(parents) + 1
         /\ log' = Append(log, [old |-> head, new |-> Len(parents) + 1, act |-> act])
    /\ maker' = Append(maker, l) /\ taken' = Append(taken, {})
    /\ claim' = Append(claim, None)
    /\ UNCHANGED <<lines, filed, before, pending, old, idle, hook, counts,
                   shown, hand, lost, fate, barred, due>>

\* `git reset HEAD~1`.
Reset(l) ==
    /\ stage[l] = "runs" /\ "reset" \in Verbs[l] /\ head # 0 /\ Len(log) < MaxLog
    /\ head' = parents[head]
    /\ log' = Append(log, [old |-> head, new |-> parents[head], act |-> "reset"])
    /\ UNCHANGED <<parents, lines, files, hook, counts, history>>

\* History: the commits that grow from where a line started, or amend one it
\* started on or made, whatever HEAD and the claims are by now.
Work(l) ==
    LET grows(c, own) ==
            \E i \in DOMAIN log :
                /\ log[i].new = c /\ log[i].act # "reset"
                /\ IF log[i].act = "amend" THEN log[i].old \in own
                                          ELSE before[l].head \in Ancestors(c)
        upto[c \in Commits] ==
            IF c = 0 THEN {}
            ELSE LET own == upto[c - 1] \union {before[l].head}
                 IN upto[c - 1] \union (IF maker[c] = l /\ grows(c, own) THEN {c} ELSE {})
    IN upto[Len(parents)]

-----------------------------------------------------------------------------
(* landed: what the reflog holds of a line since its record.               *)

Kind(act) == IF act = "amend" THEN "commit" ELSE act

\* Moves.kinds: what the line's statements can record.
Kinds(l) == {Kind(v) : v \in Verbs[l]} \ {"reset"}

\* The entries a record takes: of a kind the line can write, claimed by no
\* other session, grown from the HEAD it started on or amending a commit it
\* started on or made.
Takes(l, e, ours, claims) ==
    /\ Kind(e.act) \in Kinds(l)
    /\ claims[e.new] \in {None, Session[l]}
    /\ IF e.act = "amend" THEN e.old \in ours
                          ELSE before[l].head \in Ancestors(e.new)

\* The reflog since the record.
Since(l) == before[l].from + 1 .. Len(log)

\* Mutant: the reflog's last entry alone, hidden by what comes after a commit.
OursAtLast(l, claims) ==
    {i \in Since(l) : i = Len(log) /\ Takes(l, log[i], {before[l].head}, claims)}

\* The loop over the reflog: an amendment counts if the commit it amends is
\* where the line started or an entry taken before it.  The entries that bear
\* each other out in that order are, together, all that the loop takes.
Ours(l, claims) ==
    UNION {entries \in SUBSET Since(l) : \A i \in entries :
        Takes(l, log[i], {before[l].head} \union {log[j].new : j \in {j \in entries : j < i}}, claims)}

First(entries) == log[CHOOSE i \in entries : \A j \in entries : i <= j]
Last(entries)  == log[CHOOSE i \in entries : \A j \in entries : j <= i]

\* The range that is reviewed for them: from the HEAD the line started on,
\* or the parent of the first when that is an amended one, to the last.
\* Mutant: the last commit alone.
RangeOfLast(l, ours) == {Last(ours).new}

Range(l, ours) ==
    LET start == IF First(ours).act = "amend" THEN parents[First(ours).new] ELSE before[l].head
    IN Ancestors(Last(ours).new) \ Ancestors(start)

Landed(l) ==
    LET ours == Ours(l, claim)
    IN IF ours = {} THEN Nothing
       ELSE [line |-> l, commits |-> {log[i].new : i \in ours}, range |-> Range(l, ours)]

\* claim: the commits are this session's, and no other session looks at them.
\* Mutant: no claim is written.
ClaimNothing(h) ==
    /\ taken' = [c \in DOMAIN taken |->
                    IF c \in mine[h].commits THEN taken[c] \union {job[h].session} ELSE taken[c]]
    /\ UNCHANGED claim

Claim(h) ==
    /\ claim' = [c \in DOMAIN claim |->
                    IF c \in mine[h].commits THEN job[h].session ELSE claim[c]]
    /\ taken' = [c \in DOMAIN taken |->
                    IF c \in mine[h].commits THEN taken[c] \union {job[h].session} ELSE taken[c]]

\* prepared, after the claim: the range is there to be answered, or git does
\* not read it or finds no change in it.
Prepared(h) ==
    /\ hand' = [hand EXCEPT ![h] = @ \union mine[h].range]
    /\ UNCHANGED <<lost, unread>>

Unreadable(h) ==
    /\ kills + unread < MaxFaults /\ unread' = unread + 1
    /\ lost' = lost \union mine[h].range
    /\ UNCHANGED hand

-----------------------------------------------------------------------------
(* Hooks.  Each event of a session ends in a look at its pending records.  *)

Fresh(s) == IF s \in idle THEN {} ELSE pending[s]

InFlight(l) == stage[l] # "new" /\ l \notin posted

Quiet(s) == \A h \in Hooks : job[h].session # s

Start(h, s, l, place) ==
    /\ pc[h] = "idle"
    /\ \/ Parallel
       \/ Quiet(s) /\ \A k \in Lines \ {l} : Session[k] = s => ~InFlight(k)
    /\ pc' = [pc EXCEPT ![h] = place]
    /\ job' = [job EXCEPT ![h] = [session |-> s, line |-> l]]
    /\ barred' = [barred EXCEPT ![h] = {c \in DOMAIN taken : taken[c] \ {s} # {}}]
    /\ due' = [due EXCEPT ![h] =
                {c \in DOMAIN maker : maker[c] \in Fresh(s) /\ c \in Work(maker[c])}]
    /\ UNCHANGED <<git, files, mine, view, todo, wait, kills, unread, maker, taken, shown, hand, lost, fate>>

\* PreToolUse of a line that records.
Ask(h, l) ==
    /\ stage[l] = "new"
    /\ stage' = [stage EXCEPT ![l] = "asked"]
    /\ Start(h, Session[l], l, "head")
    /\ UNCHANGED <<posted, events>>

\* PostToolUse: after the line, or at the launch of one in the background,
\* which may run on for good.
Tell(h, l) ==
    /\ l \notin posted /\ stage[l] = "runs"
    /\ posted' = posted \union {l}
    /\ stage' = [stage EXCEPT ![l] = IF l \in Background THEN "runs" ELSE "over"]
    /\ Start(h, Session[l], l, "record")
    /\ UNCHANGED events

\* Any other event of the session.
Event(h, s) ==
    /\ events < MaxEvents /\ events' = events + 1
    /\ Start(h, s, None, "pending")
    /\ UNCHANGED lines

Goto(h, place) == pc' = [pc EXCEPT ![h] = place]

\* A hook is done: the line it came before may run.
Ended(h) ==
    /\ pc' = [pc EXCEPT ![h] = "idle"] /\ job' = [job EXCEPT ![h] = NoJob]
    /\ mine' = [mine EXCEPT ![h] = Nothing] /\ view' = [view EXCEPT ![h] = {}]
    /\ todo' = [todo EXCEPT ![h] = {}] /\ wait' = [wait EXCEPT ![h] = {}]
    /\ barred' = [barred EXCEPT ![h] = {}] /\ due' = [due EXCEPT ![h] = {}]
    /\ hand' = [hand EXCEPT ![h] = {}]
    /\ stage' = [l \in Lines |-> IF l = job[h].line /\ stage[l] = "asked" THEN "runs" ELSE stage[l]]

\* record_before: HEAD first, then the length of its reflog.
ReadHead(h) ==
    /\ pc[h] = "head" /\ Goto(h, "log")
    /\ before' = [before EXCEPT ![job[h].line].head = head]
    /\ UNCHANGED <<git, lines, filed, pending, old, idle, claim, job, mine, view, todo, wait,
                   counts, history>>

\* Mutant: the hook before a line ends with the record.
ReadLogOnly(h) ==
    /\ pc[h] = "log" /\ Ended(h)
    /\ before' = [before EXCEPT ![job[h].line].from = Len(log)]
    /\ filed' = filed \union {job[h].line}
    /\ UNCHANGED <<git, posted, pending, old, idle, claim, counts,
                   maker, taken, shown, lost, fate>>

ReadLog(h) ==
    /\ pc[h] = "log" /\ Goto(h, "pending")
    /\ before' = [before EXCEPT ![job[h].line].from = Len(log)]
    /\ filed' = filed \union {job[h].line}
    /\ UNCHANGED <<git, lines, pending, old, idle, claim, job, mine, view, todo, wait,
                   counts, history>>

\* prepare_landed: the record is read and removed, and compared with the
\* reflog.
Scan(h) ==
    /\ pc[h] = "record"
    /\ LET l == job[h].line
       IN /\ filed' = filed \ {l}
          /\ mine' = [mine EXCEPT ![h] = IF l \in filed THEN Landed(l) ELSE Nothing]
          /\ Goto(h, IF mine'[h] # Nothing THEN "claim"
                     ELSE IF l \in filed \intersect Background THEN "keep" ELSE "pending")
    /\ UNCHANGED <<git, lines, before, pending, old, idle, claim, job, view, todo, wait,
                   counts, history>>

ClaimOwn(h) ==
    /\ pc[h] = "claim" /\ Claim(h)
    /\ \/ Prepared(h) /\ Goto(h, "forget") /\ UNCHANGED mine
       \/ Unreadable(h) /\ Goto(h, "pending") /\ mine' = [mine EXCEPT ![h] = Nothing]
    /\ fate' = [fate EXCEPT ![job[h].line] = "taken"]
    /\ UNCHANGED <<git, lines, filed, before, pending, old, idle, job, view, todo, wait,
                   events, kills, maker, shown, barred, due>>

\* forget_pending: the repository was just reviewed, so every record of the
\* session that waits for it is dropped.
Forget(h) ==
    /\ pc[h] = "forget"
    /\ view' = [view EXCEPT ![h] = Fresh(job[h].session)]
    /\ mine' = [mine EXCEPT ![h] = Nothing]
    /\ Goto(h, IF view'[h] = {} THEN "pending" ELSE "unpend")
    /\ UNCHANGED <<git, lines, files, job, todo, wait, counts, history>>

Put(s, records) ==
    /\ pending' = [pending EXCEPT ![s] = records]
    /\ idle' = idle \ {s}

Unpend(h) ==
    /\ pc[h] = "unpend" /\ Goto(h, "pending")
    /\ Put(job[h].session, {})
    /\ fate' = [l \in Lines |-> IF l \in view[h] /\ fate[l] = "kept" THEN "forgotten" ELSE fate[l]]
    /\ UNCHANGED <<git, lines, filed, before, old, claim, job, mine, view, todo, wait, counts,
                   maker, taken, shown, hand, lost, barred, due>>

\* keep_pending: the records that wait are read, and written with one more.
Keep(h) ==
    /\ pc[h] = "keep" /\ Goto(h, "pend")
    /\ view' = [view EXCEPT ![h] = Fresh(job[h].session)]
    /\ UNCHANGED <<git, lines, files, job, mine, todo, wait, counts, history>>

Pend(h) ==
    /\ pc[h] = "pend" /\ Goto(h, "pending")
    /\ Put(job[h].session, view[h] \union {job[h].line})
    /\ fate' = [fate EXCEPT ![job[h].line] = "kept"]
    /\ UNCHANGED <<git, lines, filed, before, old, claim, job, mine, view, todo, wait, counts,
                   maker, taken, shown, hand, lost, barred, due>>

-----------------------------------------------------------------------------
(* pending_review, and the end of a hook.                                  *)

Leave(h) ==
    /\ Ended(h)
    /\ UNCHANGED <<git, posted, filed, before, old, claim, events, unread, maker, taken>>

\* All the answers are printed together, last.
Speak(h) == shown' = shown \union hand[h] /\ UNCHANGED lost

ReadPending(h) ==
    /\ pc[h] = "pending"
    /\ LET records == Fresh(job[h].session)
       IN \/ records = {} /\ Speak(h) /\ Leave(h) /\ UNCHANGED <<pending, idle, kills, fate>>
          \/ /\ records # {} /\ Goto(h, "late")
             /\ view' = [view EXCEPT ![h] = records] /\ todo' = [todo EXCEPT ![h] = records]
             /\ UNCHANGED <<git, lines, files, job, mine, wait, counts, history>>

Late(h) ==
    /\ pc[h] = "late"
    /\ \E l \in todo[h] :
         /\ todo' = [todo EXCEPT ![h] = @ \ {l}]
         /\ mine' = [mine EXCEPT ![h] = Landed(l)]
         /\ \/ mine'[h] # Nothing /\ Goto(h, "lateclaim") /\ UNCHANGED wait
            \/ /\ mine'[h] = Nothing
               /\ wait' = [wait EXCEPT ![h] = @ \union ({l} \ old)]
               /\ UNCHANGED pc
    /\ UNCHANGED <<git, lines, files, job, view, counts, history>>

ClaimLate(h) ==
    /\ pc[h] = "lateclaim" /\ Goto(h, "late") /\ Claim(h)
    /\ \/ /\ Prepared(h) /\ UNCHANGED wait
          /\ fate' = [fate EXCEPT ![mine[h].line] = "taken"]
       \/ /\ Unreadable(h) /\ UNCHANGED fate
          /\ wait' = [wait EXCEPT ![h] = @ \union ({mine[h].line} \ old)]
    /\ UNCHANGED <<git, lines, filed, before, pending, old, idle, job, mine, view, todo,
                   events, kills, maker, shown, barred, due>>

\* Mutant: the records that wait are looked at once.
StoreNothing(h) ==
    /\ pc[h] = "late" /\ todo[h] = {}
    /\ Put(job[h].session, {})
    /\ fate' = [l \in Lines |-> IF l \in view[h] \ wait[h] /\ fate[l] = "kept" THEN "aged" ELSE fate[l]]
    /\ Speak(h) /\ Leave(h) /\ UNCHANGED kills

Store(h) ==
    /\ pc[h] = "late" /\ todo[h] = {}
    /\ Put(job[h].session, wait[h])
    /\ fate' = [l \in Lines |-> IF l \in view[h] \ wait[h] /\ fate[l] = "kept" THEN "aged" ELSE fate[l]]
    /\ Speak(h) /\ Leave(h) /\ UNCHANGED kills

\* Claude Code kills the hook at its timeout, and the line goes on.
Kill(h) ==
    /\ pc[h] # "idle" /\ kills + unread < MaxFaults /\ kills' = kills + 1
    /\ fate' = [l \in Lines |-> IF l = job[h].line /\ fate[l] = "none" THEN "killed" ELSE fate[l]]
    /\ lost' = lost \union hand[h] /\ UNCHANGED shown
    /\ Leave(h) /\ UNCHANGED <<pending, idle>>

\* Two hours pass: over the record, and without a write of the file too.  A
\* hook looks at either once, so they end before it or after it.
Age(l) ==
    /\ fate[l] = "kept" /\ l \notin old /\ Quiet(Session[l])
    /\ old' = old \union {l}
    /\ UNCHANGED <<git, lines, filed, before, pending, idle, claim, hook, counts, history>>

Stale(s) ==
    /\ pending[s] # {} /\ pending[s] \subseteq old /\ s \notin idle /\ Quiet(s)
    /\ idle' = idle \union {s}
    /\ UNCHANGED <<git, lines, filed, before, pending, old, claim, hook, counts, history>>

Next ==
    \/ \E l \in Lines : Commit(l) \/ Reset(l) \/ Age(l)
    \/ \E h \in Hooks, l \in Lines : Ask(h, l) \/ Tell(h, l)
    \/ \E h \in Hooks, s \in Sessions : Event(h, s)
    \/ \E h \in Hooks :
         \/ ReadHead(h) \/ ReadLog(h) \/ Scan(h) \/ ClaimOwn(h)
         \/ Forget(h) \/ Unpend(h) \/ Keep(h) \/ Pend(h)
         \/ ReadPending(h) \/ Late(h) \/ ClaimLate(h) \/ Store(h) \/ Kill(h)
    \/ \E s \in Sessions : Stale(s)

Spec == Init /\ [][Next]_vars

-----------------------------------------------------------------------------
(* Properties.                                                             *)

\* An amendment whose line lost an earlier commit to another session's claim:
\* `landed` skips the claimed commit, and then knows no commit it amends.
Orphaned(c) ==
    /\ \E i \in DOMAIN log : log[i].new = c /\ log[i].act = "amend"
    /\ \E d \in Work(maker[c]) : taken[d] \ {Session[maker[c]]} # {}

\* What a line in the foreground recorded is claimed once its hook is done, by
\* its session or by one that claimed it first: every commit of the line,
\* whatever a later statement did to HEAD (#508).  What a claim comes to is
\* TakenIsAnswered's.
LandedIsTaken ==
    \A l \in posted \ Background :
        fate[l] # "killed" /\ (\A h \in Hooks : job[h].line # l) =>
            \A c \in Work(l) : taken[c] # {} \/ Orphaned(c)

\* A commit another session has taken when a hook starts is not taken by that
\* hook, unless its own session took it too, racing the other's claim.
NotTakenAgain ==
    \A h \in Hooks : \A c \in mine[h].commits \intersect barred[h] :
        job[h].session \in taken[c]

\* In a range that was answered, that a running hook has yet to answer, or
\* that was claimed in vain.
Accounted == shown \union lost \union UNION {hand[h] : h \in Hooks}

\* A commit on the branch that a session took, so that no other looks at it,
\* lies in a range that is answered when the hook ends.  Two things lose the
\* answer once the claim is written: the hook is killed before it prints, or
\* git does not read the range (`prepared`).
TakenIsAnswered ==
    \A c \in DOMAIN taken : taken[c] # {} /\ c \in Ancestors(head) => c \in Accounted

\* A hook has reviewed all it will: nothing waits, or nothing is left to look at.
Reviewed(h) ==
    \/ pc[h] = "pending" /\ Fresh(job[h].session) = {}
    \/ pc[h] = "late" /\ todo[h] = {}

\* "A line run in the background is reviewed at the session's next hook event,
\* once" (#617), by itself or in a range that is shown for another line.
ReviewedNext ==
    kills = 0 => \A h \in Hooks : Reviewed(h) =>
        \A c \in due[h] : taken[c] # {} \/ Orphaned(c) \/ c \in Accounted

\* The record of a line does not reach a commit: made since, and not the
\* line's by kind or descent, whoever claimed what.
Unreached(l, c) ==
    \A i \in DOMAIN log : log[i].new = c /\ log[i].act # "reset" =>
        i \in Since(l) \ Ours(l, [d \in DOMAIN claim |-> None])

\* A commit whose record waits when a hook starts is taken when the hook has
\* looked at all that waits.  A hook whose own line landed forgets the record
\* instead; what was made before that line was found by the hook before it,
\* which notes the reflog and then looks, and what its record reaches is taken
\* with it, so that only a commit made since and out of its reach is lost.
PendingIsTaken ==
    kills = 0 =>
        \A h \in Hooks : Reviewed(h) =>
            \A c \in due[h] :
                \/ taken[c] # {} \/ Orphaned(c)
                \/ fate[maker[c]] = "forgotten" /\ Unreached(job[h].line, c)

\* A record that waits stays until it lands, is forgotten for a review of its
\* repository, or is two hours old: a killed hook loses none.
KeptStays ==
    \A l \in Lines : fate[l] = "kept" /\ l \notin old => l \in pending[Session[l]]
=============================================================================
