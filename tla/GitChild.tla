------------------------------ MODULE GitChild ------------------------------
(***************************************************************************)
(* One git process per call of the engine (git.rs, `run_git_bytes` and     *)
(* `supervise_within`): the child and what it started, its two pipes, a    *)
(* reader thread on each, and the caller that waits for all three under    *)
(* one deadline and one cancellation flag, and kills the child's process   *)
(* group when either ends the wait.                                        *)
(*                                                                         *)
(* What is written is counted in chunks; a child is known by the call it   *)
(* serves.                                                                 *)
(***************************************************************************)
EXTENDS Integers, FiniteSets

CONSTANTS
    Children,   \* the calls, each with its child
    PipeSize,   \* chunks a pipe holds
    MaxOutput,  \* bound: chunks a child writes, by pipe
    Helped,     \* the children that start a helper of their own
    KeepStderr  \* MAX_STDERR_BYTES, in chunks

Pipes == {"stdout", "stderr"}

ASSUME Sizes == /\ PipeSize \in Nat \ {0} /\ KeepStderr \in Nat
                /\ MaxOutput \in [Children -> [Pipes -> Nat]]
                /\ Helped \subseteq Children

VARIABLES
    caller,    \* "idle", "wait", "slice", "stdout", "stderr", "over"
    child,     \* "none", "running", "doomed" (killed), "gone"
    status,    \* its exit status, once it has one: "ok" or "failed"
    helper,    \* a descendant with the pipes: "none", "group", "escaped", "doomed"
    wrote, pipe, kept, \* per pipe: chunks written so far, unread, kept by the reader
    reader,    \* per pipe: "none", "reading", "sent"
    spent,     \* the calls whose deadline has passed
    withdrawn, \* the calls whose run's cancellation flag is up
    result     \* "none", "ok", "failed", "limit", "lost" (the wait itself failed)

caught    == <<spent, withdrawn>>
streams   == <<wrote, pipe, kept, reader>>
processes == <<child, status, helper>>
gitVars   == <<caller, processes, streams, caught, result>>

All(x) == [c \in Children |-> x]

GitInit ==
    /\ caller = All("idle") /\ child = All("none") /\ status = All("none")
    /\ helper = All("none") /\ result = All("none")
    /\ wrote = All([p \in Pipes |-> 0]) /\ pipe = wrote /\ kept = wrote
    /\ reader = All([p \in Pipes |-> "none"])
    /\ spent = {} /\ withdrawn = {}

-----------------------------------------------------------------------------
(* The caller.                                                             *)

Exhausted(c) == c \in withdrawn \union spent

\* git_command, spawn, and a reader on each pipe.
SpawnGit(c) ==
    /\ caller[c] = "idle"
    /\ caller' = [caller EXCEPT ![c] = "wait"]
    /\ child' = [child EXCEPT ![c] = "running"]
    /\ reader' = [reader EXCEPT ![c] = [p \in Pipes |-> "reading"]]
    /\ UNCHANGED <<status, helper, wrote, pipe, kept, caught, result>>

GitOver(c, how) ==
    /\ caller' = [caller EXCEPT ![c] = "over"]
    /\ result' = [result EXCEPT ![c] = how]

\* kill_tree: the group dies; who left it does not. The kill is not awaited
\* past REAP_GRACE.
KillTree(c) ==
    /\ child' = [child EXCEPT ![c] = IF @ = "running" THEN "doomed" ELSE @]
    /\ helper' = [helper EXCEPT ![c] = IF @ = "group" THEN "doomed" ELSE @]

\* Mutant: a pipe is awaited however long it takes.
GiveUpInWait(c) ==
    /\ caller[c] = "wait" /\ Exhausted(c)
    /\ KillTree(c)
    /\ GitOver(c, "limit")
    /\ UNCHANGED <<status, streams, caught>>

GiveUp(c) ==
    /\ caller[c] \in {"wait", "stdout", "stderr"} /\ Exhausted(c)
    /\ KillTree(c)
    /\ GitOver(c, "limit")
    /\ UNCHANGED <<status, streams, caught>>

\* The limits first, then a slice of the wait.
Look(c) ==
    /\ caller[c] = "wait" /\ ~Exhausted(c)
    /\ caller' = [caller EXCEPT ![c] = "slice"]
    /\ UNCHANGED <<processes, streams, caught, result>>

Slice(c) ==
    /\ caller[c] = "slice"
    /\ caller' = [caller EXCEPT ![c] = IF status[c] = "none" THEN "wait" ELSE "stdout"]
    /\ UNCHANGED <<processes, streams, caught, result>>

\* `?` on the wait: nothing is killed.
WaitFails(c) ==
    /\ caller[c] = "slice"
    /\ GitOver(c, "lost")
    /\ UNCHANGED <<processes, streams, caught>>

\* Mutant: what was read so far is taken once the child has exited.
AwaitNothing(c, p) == TRUE
Awaited(c, p) == reader[c][p] = "sent"

TakeStdout(c) ==
    /\ caller[c] = "stdout" /\ Awaited(c, "stdout")
    /\ caller' = [caller EXCEPT ![c] = "stderr"]
    /\ UNCHANGED <<processes, streams, caught, result>>

TakeStderr(c) ==
    /\ caller[c] = "stderr" /\ Awaited(c, "stderr")
    /\ GitOver(c, IF status[c] = "ok" THEN "ok" ELSE "failed")
    /\ UNCHANGED <<processes, streams, caught>>

-----------------------------------------------------------------------------
(* The reader of a pipe keeps at most so much, and reads on to the end.    *)

Held(c) == child[c] \in {"running", "doomed"} \/ helper[c] # "none"
Room(c, p) == p = "stdout" \/ kept[c][p] < KeepStderr

\* Mutant: a reader with no more room stops reading.
ReadWithinRoom(c, p) ==
    /\ reader[c][p] = "reading" /\ pipe[c][p] > 0
    /\ pipe' = [pipe EXCEPT ![c][p] = @ - 1]
    /\ kept' = [kept EXCEPT ![c][p] = IF Room(c, p) THEN @ + 1 ELSE @]
    /\ reader' = IF Room(c, p) THEN reader ELSE [reader EXCEPT ![c][p] = "sent"]
    /\ UNCHANGED <<caller, processes, wrote, caught, result>>

Read(c, p) ==
    /\ reader[c][p] = "reading" /\ pipe[c][p] > 0
    /\ pipe' = [pipe EXCEPT ![c][p] = @ - 1]
    /\ kept' = [kept EXCEPT ![c][p] = IF Room(c, p) THEN @ + 1 ELSE @]
    /\ UNCHANGED <<caller, processes, wrote, reader, caught, result>>

ReadEnd(c, p) ==
    /\ reader[c][p] = "reading" /\ pipe[c][p] = 0 /\ ~Held(c)
    /\ reader' = [reader EXCEPT ![c][p] = "sent"]
    /\ UNCHANGED <<caller, processes, wrote, pipe, kept, caught, result>>

-----------------------------------------------------------------------------
(* git and the system.  A child may stall, start a helper that keeps its   *)
(* pipes, and exit with output unread; none of it is promised.             *)

Write(c, p) ==
    /\ child[c] = "running" /\ wrote[c][p] < MaxOutput[c][p] /\ pipe[c][p] < PipeSize
    /\ pipe' = [pipe EXCEPT ![c][p] = @ + 1]
    /\ wrote' = [wrote EXCEPT ![c][p] = @ + 1]
    /\ UNCHANGED <<caller, processes, kept, reader, caught, result>>

StartHelper(c) ==
    /\ c \in Helped /\ child[c] = "running" /\ helper[c] = "none"
    /\ \E where \in {"group", "escaped"} : helper' = [helper EXCEPT ![c] = where]
    /\ UNCHANGED <<caller, child, status, streams, caught, result>>

Exit(c) ==
    /\ child[c] = "running"
    /\ child' = [child EXCEPT ![c] = "gone"]
    /\ \E how \in {"ok", "failed"} : status' = [status EXCEPT ![c] = how]
    /\ UNCHANGED <<caller, helper, streams, caught, result>>

Perish(c) ==
    /\ child[c] = "doomed"
    /\ child' = [child EXCEPT ![c] = "gone"]
    /\ status' = [status EXCEPT ![c] = "failed"]
    /\ UNCHANGED <<caller, helper, streams, caught, result>>

HelperPerishes(c) ==
    /\ helper[c] = "doomed"
    /\ helper' = [helper EXCEPT ![c] = "none"]
    /\ UNCHANGED <<caller, child, status, streams, caught, result>>

HelperEnds(c) ==
    /\ helper[c] \in {"group", "escaped"}
    /\ helper' = [helper EXCEPT ![c] = "none"]
    /\ UNCHANGED <<caller, child, status, streams, caught, result>>

GitNext(c) ==
    \/ GiveUp(c) \/ Look(c) \/ Slice(c) \/ WaitFails(c) \/ TakeStdout(c) \/ TakeStderr(c)
    \/ StartHelper(c) \/ Exit(c) \/ Perish(c) \/ HelperPerishes(c) \/ HelperEnds(c)
    \/ \E p \in Pipes : Read(c, p) \/ ReadEnd(c, p) \/ Write(c, p)

\* The caller looks every POLL_SLICE, readers read, the killed die.
GitFairness(c) ==
    /\ WF_gitVars(GiveUp(c) \/ Look(c) \/ Slice(c) \/ TakeStdout(c) \/ TakeStderr(c))
    /\ WF_gitVars(Perish(c)) /\ WF_gitVars(HelperPerishes(c))
    /\ \A p \in Pipes : WF_gitVars(Read(c, p) \/ ReadEnd(c, p))

-----------------------------------------------------------------------------
(* Properties.                                                             *)

\* An answer of git is everything it wrote: neither a child that exits before
\* it is read nor a helper that keeps the pipe makes `git diff` look shorter
\* (git.rs:741-742, "looked exactly like an empty diff").
OkIsWhole ==
    \A c \in Children : result[c] = "ok" => kept[c]["stdout"] = wrote[c]["stdout"]

\* No child waits for ever to write: a full pipe has a reader, also of the part
\* of stderr that is not kept.
NeverJammed ==
    \A c \in Children, p \in Pipes :
        child[c] = "running" /\ pipe[c][p] = PipeSize => reader[c][p] = "reading"
=============================================================================
