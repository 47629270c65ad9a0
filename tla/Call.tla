-------------------------------- MODULE Call --------------------------------
(***************************************************************************)
(* A tool call of the MCP server and the native run it starts              *)
(* (mcp/server.py, `_run_with_deadline`; pybridge.rs, `CancelToken`): the  *)
(* call runs on a thread of a pool inside its token's scope, the run takes *)
(* the flag the thread holds, and the server answers when the work is      *)
(* done, or abandons the thread when its deadline passes or the client     *)
(* withdraws; either way it then raises the token.                         *)
(*                                                                         *)
(* A run makes at most one git call (GitChild), then computes, with polls.  *)
(***************************************************************************)
EXTENDS GitChild

CONSTANTS
    Calls,    \* Children are those whose run asks git, the others only compute
    Threads,  \* anyio's worker threads
    NoCall    \* no flag in the thread's PENDING_CANCEL

ASSUME Names == Children \subseteq Calls /\ NoCall \notin Calls

VARIABLES
    call,     \* "new", "waiting", "answered", "abandoned"
    token,    \* the calls whose CancelToken is raised
    thread,   \* thread -> the call it works for
    pending,  \* thread -> the call whose flag its next run takes
    phase,    \* call -> "none", "queued", "scoped", "git", "compute", "partial",
              \* "finished", "left"
    flag,     \* call -> the call whose flag its run took
    stopped   \* the runs a cancellation stopped

serverVars == <<call, token>>
workVars   == <<thread, pending, phase, flag, stopped>>
vars       == <<gitVars, serverVars, workVars>>

Init ==
    /\ GitInit
    /\ call = [c \in Calls |-> "new"] /\ token = {}
    /\ thread = [t \in Threads |-> NoCall] /\ pending = thread
    /\ phase = [c \in Calls |-> "none"] /\ flag = [c \in Calls |-> NoCall] /\ stopped = {}

-----------------------------------------------------------------------------
(* The server.                                                             *)

Begin(c) ==
    /\ call[c] = "new"
    /\ call' = [call EXCEPT ![c] = "waiting"]
    /\ LET idle == {t \in Threads : thread[t] = NoCall} IN   \* which, makes no difference
         /\ idle # {}
         /\ thread' = [thread EXCEPT ![CHOOSE t \in idle : TRUE] = c]
    /\ phase' = [phase EXCEPT ![c] = "queued"]
    /\ UNCHANGED <<gitVars, token, pending, flag, stopped>>

\* The run's own deadline, for git and for its polls (RunContext has that of a
\* run that only computes).
RunDue(c) ==
    /\ c \notin spent /\ phase[c] \in {"git", "compute"}
    /\ spent' = spent \union {c}
    /\ UNCHANGED <<caller, processes, streams, withdrawn, result, serverVars, workVars>>

\* `finally: token.cancel()`: every run that took this flag sees it.
Answer(c, how) ==
    /\ call' = [call EXCEPT ![c] = how]
    /\ token' = token \union {c}
    /\ withdrawn' = withdrawn \union {r \in Calls : flag[r] = c}
    /\ UNCHANGED <<caller, processes, streams, spent, result>>

\* fail_after fires, or the client withdraws: the worker is left to itself.
Abandon(c) ==
    /\ call[c] = "waiting"
    /\ Answer(c, "abandoned")
    /\ UNCHANGED workVars

\* The work is done; that of an abandoned worker goes nowhere.
Deliver(c) ==
    /\ call[c] = "waiting" /\ phase[c] = "left"
    /\ Answer(c, "answered")
    /\ UNCHANGED workVars

-----------------------------------------------------------------------------
(* The worker: token.scope, a run, a git call, polls, and out again.       *)

At(t, p) == thread[t] # NoCall /\ phase[thread[t]] = p
Goto(t, p) == phase' = [phase EXCEPT ![thread[t]] = p]

\* with_cancel publishes the flag to the thread.
Scope(t) ==
    /\ At(t, "queued")
    /\ pending' = [pending EXCEPT ![t] = thread[t]]
    /\ Goto(t, "scoped")
    /\ UNCHANGED <<gitVars, serverVars, thread, flag, stopped>>

\* Mutant: one cell for the process instead of one per thread.
TakenOfAny(t) == {pending[u] : u \in Threads} \ {NoCall}
Taken(t) == {pending[t]}

\* with_io_deadline takes the flag, raised or not; then git is started.
StartRun(t) ==
    /\ At(t, "scoped")
    /\ \E f \in Taken(t) :
         /\ flag' = [flag EXCEPT ![thread[t]] = f]
         /\ withdrawn' = IF f \in token THEN withdrawn \union {thread[t]} ELSE withdrawn
    /\ Goto(t, IF thread[t] \in Children THEN "git" ELSE "compute")
    /\ UNCHANGED <<caller, processes, streams, spent, result, serverVars, thread, pending, stopped>>

CallGit(t) ==
    /\ At(t, "git")
    /\ SpawnGit(thread[t])
    /\ UNCHANGED <<serverVars, workVars>>

\* A git call that failed ends the run with its error.
AfterGit(t) ==
    /\ At(t, "git") /\ caller[thread[t]] = "over"
    /\ LET c == thread[t] IN
         /\ Goto(t, IF result[c] = "ok" THEN "compute" ELSE "finished")
         /\ stopped' = IF result[c] = "limit" /\ c \in withdrawn THEN stopped \union {c} ELSE stopped
    /\ UNCHANGED <<gitVars, serverVars, thread, pending, flag>>

\* RunContext's check, at the next poll; or the work was done before it.
Poll(t) ==
    /\ At(t, "compute")
    /\ LET c == thread[t] IN
         \/ /\ Exhausted(c)
            /\ Goto(t, "finished")
            /\ stopped' = IF c \in withdrawn THEN stopped \union {c} ELSE stopped
         \/ /\ ~Exhausted(c)
            /\ Goto(t, "finished")
            /\ UNCHANGED stopped
    /\ UNCHANGED <<gitVars, serverVars, thread, pending, flag>>

\* Restore: the thread's cell is as it was; then the thread is free.
Leave(t) ==
    /\ At(t, "finished")
    /\ pending' = [pending EXCEPT ![t] = NoCall]
    /\ thread' = [thread EXCEPT ![t] = NoCall]
    /\ Goto(t, "left")
    /\ UNCHANGED <<gitVars, serverVars, flag, stopped>>

ServerNext(c) == Begin(c) \/ Abandon(c) \/ Deliver(c)
WorkerNext(t) == Scope(t) \/ StartRun(t) \/ CallGit(t) \/ AfterGit(t) \/ Poll(t) \/ Leave(t)

Next ==
    \/ \E c \in Calls : ServerNext(c)
    \/ \E c \in Children : RunDue(c) \/ (GitNext(c) /\ UNCHANGED <<serverVars, workVars>>)
    \/ \E t \in Threads : WorkerNext(t)

\* Threads run and a run polls (RunContext); no deadline of a run need fire.
Fairness ==
    /\ \A c \in Children : GitFairness(c)
    /\ \A t \in Threads : WF_vars(WorkerNext(t))

Spec == Init /\ [][Next]_vars /\ Fairness

-----------------------------------------------------------------------------
(* Properties.                                                             *)

\* A cancellation stops the run of its own call and no other, on whichever
\* thread the call runs and whatever ran there before.
StopsOnlyItsOwn == \A c \in stopped : call[c] = "abandoned"

\* An abandoned worker does not run on: its thread is free again, its git
\* child and the child's group are gone, and the readers of its pipes have
\* ended, unless somebody outside the group holds them or the wait itself
\* failed.
Gone(c) ==
    /\ child[c] \in {"none", "gone"} /\ helper[c] \notin {"group", "doomed"}
    /\ helper[c] = "escaped" \/ \A p \in Pipes : reader[c][p] # "reading"
AbandonedEnds ==
    \A c \in Calls :
        call[c] = "abandoned" ~>
            phase[c] = "left" /\ (c \in Children => Gone(c) \/ result[c] = "lost")
=============================================================================
