----------------------------- MODULE CallProofs -----------------------------
(***************************************************************************)
(* What GitChild and Call promise, for any calls, threads, pipe sizes and  *)
(* outputs: the answer of a git child is whole, no child waits for a       *)
(* reader that stopped, and a cancellation stops its own call's run only.  *)
(***************************************************************************)
EXTENDS Call, TLAPS

Callers == {"idle", "wait", "slice", "stdout", "stderr", "over"}

GitTyped ==
    /\ caller \in [Children -> Callers]
    /\ child \in [Children -> {"none", "running", "doomed", "gone"}]
    /\ result \in [Children -> {"none", "ok", "failed", "limit", "lost"}]
    /\ wrote \in [Children -> [Pipes -> Nat]]
    /\ pipe \in [Children -> [Pipes -> Nat]]
    /\ kept \in [Children -> [Pipes -> Nat]]
    /\ reader \in [Children -> [Pipes -> {"none", "reading", "sent"}]]

\* A reader has sent what it kept only when nobody can write any more; while
\* the child runs there is one on either pipe.
GitInv(c) ==
    /\ wrote[c]["stdout"] = pipe[c]["stdout"] + kept[c]["stdout"]
    /\ caller[c] = "idle" => child[c] = "none"
    /\ child[c] = "none" => \A p \in Pipes : reader[c][p] = "none"
    /\ child[c] = "running" => \A p \in Pipes : reader[c][p] = "reading"
    /\ \A p \in Pipes : reader[c][p] = "sent" => child[c] = "gone"
    /\ reader[c]["stdout"] = "sent" => pipe[c]["stdout"] = 0
    /\ result[c] = "ok" => caller[c] = "over"
    /\ caller[c] = "stderr" \/ result[c] = "ok" => reader[c]["stdout"] = "sent"

AllGit == GitTyped /\ \A c \in Children : GitInv(c)

\* A worker's thread is its own, and so is the flag its run takes.
WorkInv ==
    /\ call \in [Calls -> {"new", "waiting", "answered", "abandoned"}]
    /\ phase \in [Calls -> {"none", "queued", "scoped", "git", "compute", "partial",
                            "finished", "left"}]
    /\ flag \in [Calls -> Calls \union {NoCall}]
    /\ thread \in [Threads -> Calls \union {NoCall}]
    /\ pending \in [Threads -> Calls \union {NoCall}]
    /\ \A c \in Calls : phase[c] = "git" => c \in Children
    /\ token \subseteq Calls /\ withdrawn \subseteq Calls /\ stopped \subseteq Calls

OwnThread ==
    /\ \A t, u \in Threads : thread[t] = thread[u] /\ thread[t] # NoCall => t = u
    /\ \A t \in Threads : thread[t] # NoCall => call[thread[t]] # "new"
    /\ \A t \in Threads : thread[t] # NoCall /\ phase[thread[t]] = "scoped" =>
          pending[t] = thread[t]

OwnFlag ==
    /\ \A c \in Calls : flag[c] \in {c, NoCall}
    /\ \A c \in token : call[c] \in {"answered", "abandoned"}
    /\ \A c \in Calls : call[c] = "answered" => phase[c] = "left"
    /\ \A c \in withdrawn : c \in token
    /\ \A c \in stopped : call[c] = "abandoned"

IInv == AllGit /\ WorkInv /\ OwnThread /\ OwnFlag

-----------------------------------------------------------------------------
(* The git child.                                                          *)

LEMMA InitInv == Init => IInv
BY Names DEF Init, GitInit, All, IInv, AllGit, GitTyped, GitInv, Callers, Pipes, WorkInv, OwnThread, OwnFlag

\* What a step of one child leaves of the others.
LEMMA CallerSteps ==
    ASSUME AllGit, NEW c \in Children,
           \/ SpawnGit(c) \/ GiveUp(c) \/ Look(c) \/ Slice(c) \/ WaitFails(c)
           \/ TakeStdout(c) \/ TakeStderr(c)
    PROVE  AllGit'
<1> USE DEF AllGit, GitTyped, GitInv, streams, processes, caught
<1>1. CASE SpawnGit(c)
  BY <1>1 DEF SpawnGit, Callers, Pipes
<1>2. CASE GiveUp(c)
  BY <1>2 DEF GiveUp, KillTree, GitOver, Callers, Pipes
<1>3. CASE Look(c)
  BY <1>3 DEF Look, Callers
<1>4. CASE Slice(c)
  BY <1>4 DEF Slice, Callers
<1>5. CASE WaitFails(c)
  BY <1>5 DEF WaitFails, GitOver, Callers
<1>6. CASE TakeStdout(c)
  BY <1>6 DEF TakeStdout, Awaited, Callers
<1>7. CASE TakeStderr(c)
  BY <1>7 DEF TakeStderr, GitOver, Callers
<1> QED
  BY <1>1, <1>2, <1>3, <1>4, <1>5, <1>6, <1>7

LEMMA PipeSteps ==
    ASSUME AllGit, NEW c \in Children, NEW p \in Pipes,
           Read(c, p) \/ ReadEnd(c, p) \/ Write(c, p)
    PROVE  AllGit'
<1> USE DEF AllGit, GitTyped, GitInv, streams, processes, caught
<1>1. CASE Read(c, p)
  <2>1. /\ pipe[c][p] \in Nat /\ pipe[c][p] > 0 /\ kept[c][p] \in Nat
        /\ pipe' = [pipe EXCEPT ![c][p] = pipe[c][p] - 1]
        /\ UNCHANGED <<caller, child, wrote, reader, result>>
    BY <1>1 DEF Read
  <2>2. PICK k \in Nat : /\ kept' = [kept EXCEPT ![c][p] = k]
                         /\ p = "stdout" => k = kept[c][p] + 1
    <3>1. kept' = [kept EXCEPT ![c][p] = IF Room(c, p) THEN kept[c][p] + 1 ELSE kept[c][p]]
      BY <1>1 DEF Read
    <3>2. p = "stdout" => Room(c, p)
      BY DEF Room
    <3>3. CASE Room(c, p)
      <4> WITNESS kept[c][p] + 1 \in Nat
      <4> QED
        BY <2>1, <3>1, <3>3
    <3>4. CASE ~Room(c, p)
      <4> WITNESS kept[c][p] \in Nat
      <4> QED
        BY <2>1, <3>1, <3>2, <3>4
    <3> QED
      BY <3>3, <3>4
  <2>3. reader[c][p] = "reading"
    BY <1>1 DEF Read
  <2>4. GitTyped'
    BY <2>1, <2>2
  <2>5. \A d \in Children : wrote'[d]["stdout"] = pipe'[d]["stdout"] + kept'[d]["stdout"]
    BY <2>1, <2>2 DEF Pipes
  <2>6. \A d \in Children : reader'[d]["stdout"] = "sent" => pipe'[d]["stdout"] = 0
    BY <2>1, <2>3 DEF Pipes
  <2> QED
    BY <2>1, <2>4, <2>5, <2>6
<1>2. CASE ReadEnd(c, p)
  BY <1>2 DEF ReadEnd, Held, Pipes
<1>3. CASE Write(c, p)
  BY <1>3 DEF Write, Pipes
<1> QED
  BY <1>1, <1>2, <1>3

LEMMA SystemSteps ==
    ASSUME AllGit, NEW c \in Children,
           \/ StartHelper(c) \/ Exit(c) \/ Perish(c) \/ HelperPerishes(c) \/ HelperEnds(c)
    PROVE  AllGit'
<1> USE DEF AllGit, GitTyped, GitInv, streams, processes, caught
<1>1. CASE StartHelper(c) \/ HelperPerishes(c) \/ HelperEnds(c)
  BY <1>1 DEF StartHelper, HelperPerishes, HelperEnds
<1>2. CASE Exit(c)
  BY <1>2 DEF Exit
<1>3. CASE Perish(c)
  BY <1>3 DEF Perish
<1> QED
  BY <1>1, <1>2, <1>3

LEMMA GitSteps ==
    ASSUME AllGit, NEW c \in Children, GitNext(c)
    PROVE  AllGit' /\ UNCHANGED caught
<1>1. AllGit'
  BY CallerSteps, PipeSteps, SystemSteps DEF GitNext
<1>2. UNCHANGED caught
  BY DEF GitNext, GiveUp, Look, Slice, WaitFails, TakeStdout, TakeStderr, StartHelper, Exit,
         Perish, HelperPerishes, HelperEnds, Read, ReadEnd, Write
<1> QED
  BY <1>1, <1>2

LEMMA GitKept ==
    ASSUME AllGit, UNCHANGED <<caller, processes, streams, result>>
    PROVE  AllGit'
BY DEF AllGit, GitTyped, GitInv, processes, streams

-----------------------------------------------------------------------------
(* The calls.                                                              *)

LEMMA StepInv == IInv /\ [Next]_vars => IInv'
<1> SUFFICES ASSUME IInv, [Next]_vars PROVE IInv'
  OBVIOUS
<1> USE DEF IInv, serverVars, workVars, caught
<1>1. CASE \E c \in Calls : Begin(c)
  <2>1. PICK c \in Calls : Begin(c)
    BY <1>1
  <2>2. AllGit'
    BY <2>1, GitKept DEF Begin, gitVars
  <2>3. PICK t \in Threads : thread[t] = NoCall /\ thread' = [thread EXCEPT ![t] = c]
    BY <2>1 DEF Begin
  <2>4. \A u \in Threads : thread[u] # c
    BY <2>1, Names DEF Begin, OwnThread
  <2>5. WorkInv' /\ OwnFlag'
    BY <2>1, <2>3 DEF Begin, gitVars, WorkInv, OwnFlag
  <2>6. OwnThread'
    <3>1. /\ call' = [call EXCEPT ![c] = "waiting"] /\ phase' = [phase EXCEPT ![c] = "queued"]
          /\ pending' = pending
      BY <2>1 DEF Begin
    <3>2. \A u \in Threads : thread'[u] = IF u = t THEN c ELSE thread[u]
      BY <2>3 DEF WorkInv
    <3>3. \A u, v \in Threads : thread'[u] = thread'[v] /\ thread'[u] # NoCall => u = v
      BY <2>4, <3>2 DEF OwnThread
    <3>4. \A u \in Threads : thread'[u] # NoCall => call'[thread'[u]] # "new"
      BY <3>1, <3>2 DEF WorkInv, OwnThread
    <3>5. \A u \in Threads : thread'[u] # NoCall /\ phase'[thread'[u]] = "scoped" =>
             pending'[u] = thread'[u]
      BY <2>4, <3>1, <3>2 DEF WorkInv, OwnThread
    <3> QED
      BY <3>3, <3>4, <3>5 DEF OwnThread
  <2> QED
    BY <2>2, <2>5, <2>6
<1>2. CASE \E c \in Calls : Abandon(c) \/ Deliver(c)
  <2>1. PICK c \in Calls, how \in {"answered", "abandoned"} :
          /\ call[c] = "waiting" /\ Answer(c, how) /\ UNCHANGED workVars
          /\ how = "answered" => phase[c] = "left"
    BY <1>2 DEF Abandon, Deliver
  <2>2. AllGit'
    BY <2>1, GitKept DEF Answer
  <2>3. WorkInv' /\ OwnThread'
    BY <2>1 DEF Answer, WorkInv, OwnThread
  <2>4. \A r \in withdrawn' : r \in token'
    BY <2>1, Names DEF Answer, OwnFlag
  <2>5. OwnFlag'
    BY <2>1, <2>4 DEF Answer, WorkInv, OwnFlag
  <2> QED
    BY <2>2, <2>3, <2>5
<1>3. CASE \E c \in Children : RunDue(c)
  <2>1. AllGit'
    BY <1>3, GitKept DEF RunDue
  <2> QED
    BY <1>3, <2>1 DEF RunDue, WorkInv, OwnThread, OwnFlag
<1>4. CASE \E c \in Children : GitNext(c) /\ UNCHANGED <<serverVars, workVars>>
  <2>1. AllGit' /\ UNCHANGED caught
    BY <1>4, GitSteps
  <2> QED
    BY <1>4, <2>1 DEF WorkInv, OwnThread, OwnFlag
<1>5. ASSUME NEW t \in Threads, Scope(t) PROVE IInv'
  <2>1. AllGit'
    BY <1>5, GitKept DEF Scope, gitVars
  <2>2. thread[t] \in Calls
    BY <1>5 DEF Scope, At, WorkInv
  <2>3. WorkInv' /\ OwnFlag'
    BY <1>5, <2>2 DEF Scope, At, Goto, gitVars, WorkInv, OwnFlag
  <2>4. OwnThread'
    BY <1>5, <2>2 DEF Scope, At, Goto, WorkInv, OwnThread
  <2> QED
    BY <2>1, <2>3, <2>4
<1>6. ASSUME NEW t \in Threads, StartRun(t) PROVE IInv'
  <2>1. AllGit'
    BY <1>6, GitKept DEF StartRun
  <2>2. thread[t] \in Calls /\ phase[thread[t]] = "scoped" /\ pending[t] = thread[t]
    BY <1>6 DEF StartRun, At, WorkInv, OwnThread
  <2>3. /\ flag' = [flag EXCEPT ![thread[t]] = thread[t]]
        /\ withdrawn' = IF thread[t] \in token THEN withdrawn \union {thread[t]} ELSE withdrawn
        /\ phase' = [phase EXCEPT ![thread[t]] = IF thread[t] \in Children THEN "git" ELSE "compute"]
        /\ UNCHANGED <<serverVars, thread, pending, stopped>>
    BY <1>6, <2>2 DEF StartRun, Taken, Goto
  <2>4. WorkInv' /\ OwnThread' /\ OwnFlag'
    BY <2>2, <2>3 DEF WorkInv, OwnThread, OwnFlag
  <2> QED
    BY <2>1, <2>4
<1>7. ASSUME NEW t \in Threads, CallGit(t) PROVE IInv'
  <2>1. CASE thread[t] \in Children
    <3>1. AllGit' /\ UNCHANGED caught
      BY <1>7, <2>1, CallerSteps DEF CallGit, SpawnGit
    <3> QED
      BY <1>7, <3>1 DEF CallGit, WorkInv, OwnThread, OwnFlag
  <2>2. thread[t] \in Children
    BY <1>7 DEF CallGit, At, WorkInv
  <2> QED
    BY <2>1, <2>2
<1>8. ASSUME NEW t \in Threads, AfterGit(t) \/ Poll(t) PROVE IInv'
  <2>1. AllGit'
    BY <1>8, GitKept DEF AfterGit, Poll, gitVars
  <2>2. thread[t] \in Calls /\ phase[thread[t]] \in {"git", "compute"}
    BY <1>8 DEF AfterGit, Poll, At, WorkInv
  <2>3. /\ phase' \in {[phase EXCEPT ![thread[t]] = "compute"], [phase EXCEPT ![thread[t]] = "finished"]}
        /\ \/ stopped' = stopped
           \/ stopped' = stopped \union {thread[t]} /\ thread[t] \in withdrawn
        /\ UNCHANGED <<serverVars, withdrawn, thread, pending, flag>>
    BY <1>8 DEF AfterGit, Poll, Goto, gitVars
  <2>4. thread[t] \in withdrawn => call[thread[t]] = "abandoned"
    BY <2>2 DEF OwnFlag
  <2>5. WorkInv' /\ OwnThread' /\ OwnFlag'
    BY <2>2, <2>3, <2>4 DEF WorkInv, OwnThread, OwnFlag
  <2> QED
    BY <2>1, <2>5
<1>9. ASSUME NEW t \in Threads, Leave(t) PROVE IInv'
  <2>1. AllGit'
    BY <1>9, GitKept DEF Leave, gitVars
  <2>2. thread[t] \in Calls
    BY <1>9 DEF Leave, At, WorkInv
  <2>3. WorkInv' /\ OwnFlag'
    BY <1>9, <2>2 DEF Leave, Goto, gitVars, WorkInv, OwnFlag
  <2>4. OwnThread'
    BY <1>9, <2>2 DEF Leave, Goto, WorkInv, OwnThread
  <2> QED
    BY <2>1, <2>3, <2>4
<1>10. CASE UNCHANGED vars
  <2>1. AllGit'
    BY <1>10, GitKept DEF vars, gitVars
  <2> QED
    BY <1>10, <2>1 DEF vars, gitVars, WorkInv, OwnThread, OwnFlag
<1> QED
  BY <1>1, <1>2, <1>3, <1>4, <1>5, <1>6, <1>7, <1>8, <1>9, <1>10 DEF Next, ServerNext, WorkerNext

LEMMA AlwaysInv == Spec => []IInv
BY InitInv, StepInv, PTL DEF Spec

-----------------------------------------------------------------------------

\* What a git call answers is everything the child wrote, whenever the child
\* exits and whoever keeps its pipes.
THEOREM AnswerIsWhole == Spec => []OkIsWhole
<1>1. IInv => OkIsWhole
  BY DEF IInv, AllGit, GitTyped, GitInv, OkIsWhole, Pipes
<1> QED
  BY AlwaysInv, <1>1, PTL

\* A running child has a reader on either pipe, however much it writes.
THEOREM ReadersStay == Spec => []NeverJammed
<1>1. IInv => NeverJammed
  BY DEF IInv, AllGit, GitInv, NeverJammed
<1> QED
  BY AlwaysInv, <1>1, PTL

\* The run a cancellation stops is that of the call it was raised for, on
\* however many threads however many calls run.
THEOREM CancelsItsOwn == Spec => []StopsOnlyItsOwn
<1>1. IInv => StopsOnlyItsOwn
  BY DEF IInv, OwnFlag, StopsOnlyItsOwn
<1> QED
  BY AlwaysInv, <1>1, PTL
=============================================================================
