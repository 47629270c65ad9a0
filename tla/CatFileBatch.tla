---------------------------- MODULE CatFileBatch ----------------------------
(***************************************************************************)
(* The blobs of a revision, read through one `git cat-file --batch` child  *)
(* (git.rs, `CatFileBatch` and `BatchConn`) that the threads of a run      *)
(* share behind a mutex (source.rs, `Snapshot`).  A connection is a child, *)
(* its two pipes, a worker thread that alone touches them, and a channel   *)
(* of capacity one each way between the worker and the thread that holds   *)
(* the connection.  git may stall, die or garble its stream at any point.  *)
(***************************************************************************)
EXTENDS Naturals, Sequences, FiniteSets

CONSTANTS
    Readers,   \* threads that read through the source
    Conns,     \* bound: connections the run may start
    MaxAsks,   \* bound: files the readers ask for, together
    Blobs,     \* paths of files of at most MAX_BLOB_READ_BYTES
    Big,       \* paths of larger files
    Trees,     \* paths of directories
    Nowhere,   \* paths the revision does not have
    Control,   \* the paths among them that carry a control character
    Junk,      \* a line that is half of such a path
    Garbled,   \* a reply that is not the protocol: BatchReply::Broken
    Missing, Failed,  \* the two ways a read ends without bytes
    None

Files == Blobs \union Big \union Trees \union Nowhere

ASSUME Paths == /\ Control \subseteq Files
                /\ Blobs \intersect Big = {} /\ Trees \intersect Nowhere = {}
                /\ (Blobs \union Big) \intersect (Trees \union Nowhere) = {}
                /\ {Junk, Garbled, Missing, Failed, None} \intersect Files = {}
                /\ Missing # Failed /\ None \notin {Junk, Garbled, Missing, Failed}
                /\ None \notin Conns \union Readers
                /\ MaxAsks \in Nat

VARIABLES
    lock,      \* the reader inside the source's Mutex, or None
    pc, want, out, told,  \* reader -> where it is, its file, the result in
                          \* hand, the last answer read_bytes returned
    asks,      \* files asked for so far
    noted,     \* the run's log has a reason for a failed read
    over,      \* the run is cancelled or past its I/O deadline
    ceiling,   \* reader -> its call has spent the git ceiling
    pool,      \* CatFileBatch.conn
    hand,      \* the connection the reader inside has taken out of it
    closing,   \* the connection `close` is shutting down
    closed,    \* the batch is dropped: "open", "waiting" or "closed"
    child,     \* connection -> its git process
    ends,      \* connection -> the caller's channel ends it still holds
    req, rep,  \* connection -> what its two channels hold, or None
    worker,    \* connection -> where its worker thread is
    held,      \* connection -> the request or reply its worker has in hand
    stdin, stdout  \* connection -> lines, answered lines in its pipes

reader  == <<pc, want, out, told, asks, noted>>
batch   == <<lock, pool, hand>>
drop    == <<closing, closed>>
limits  == <<over, ceiling>>
channel == <<ends, req, rep>>
thread  == <<worker, held>>
git     == <<child, stdin, stdout>>
vars == <<reader, batch, drop, limits, channel, thread, git>>

Reply == Files \union {Junk, Garbled}

TypeOK ==
    /\ lock \in Readers \union {None}
    /\ pc \in [Readers -> {"idle", "lock", "enter", "send", "await", "argv", "return"}]
    /\ want \in [Readers -> Files \union {None}]
    /\ out \in [Readers -> Files \union {Missing, Failed, None}]
    /\ told \in [Readers -> Files \union {Missing, Failed, None}]
    /\ asks \in 0 .. MaxAsks
    /\ noted \in BOOLEAN /\ over \in BOOLEAN /\ ceiling \in [Readers -> BOOLEAN]
    /\ {pool, hand, closing} \subseteq Conns \union {None}
    /\ closed \in {"open", "waiting", "closed"}
    /\ child \in [Conns -> {"unborn", "running", "exited", "killed"}]
    /\ ends \in [Conns -> {"open", "closing", "dropped"}]
    /\ req \in [Conns -> Files \union {None}] /\ rep \in [Conns -> Reply \union {None}]
    /\ worker \in [Conns -> {"recv", "write", "read", "answer", "gone"}]
    /\ held \in [Conns -> Reply \union {None}]
    /\ stdin \in [Conns -> Seq(Reply)] /\ stdout \in [Conns -> Seq(Reply)]

Init ==
    /\ lock = None
    /\ pc = [r \in Readers |-> "idle"]
    /\ want = [r \in Readers |-> None] /\ out = [r \in Readers |-> None]
    /\ told = [r \in Readers |-> None] /\ asks = 0
    /\ noted = FALSE /\ over = FALSE /\ ceiling = [r \in Readers |-> FALSE]
    /\ pool = None /\ hand = None /\ closing = None /\ closed = "open"
    /\ child = [c \in Conns |-> "unborn"] /\ ends = [c \in Conns |-> "open"]
    /\ req = [c \in Conns |-> None] /\ rep = [c \in Conns |-> None]
    /\ worker = [c \in Conns |-> "recv"] /\ held = [c \in Conns |-> None]
    /\ stdin = [c \in Conns |-> <<>>] /\ stdout = [c \in Conns |-> <<>>]

-----------------------------------------------------------------------------
(* read_bytes: take the lock, ask the batch, release it, note a failure.   *)

Ask(r) ==
    /\ pc[r] = "idle" /\ closed = "open" /\ asks < MaxAsks
    /\ \E f \in Files : want' = [want EXCEPT ![r] = f]
    /\ told' = [told EXCEPT ![r] = None]
    /\ asks' = asks + 1
    /\ pc' = [pc EXCEPT ![r] = "lock"]
    /\ UNCHANGED <<out, noted, batch, drop, limits, channel, thread, git>>

Lock(r) ==
    /\ pc[r] = "lock" /\ lock = None
    /\ lock' = r
    /\ pc' = [pc EXCEPT ![r] = "enter"]
    /\ ceiling' = [ceiling EXCEPT ![r] = FALSE]
    /\ UNCHANGED <<want, out, told, asks, noted, pool, hand, drop, over, channel, thread, git>>

\* get_bytes is over: the guard of the mutex goes with it.
Finish(r, result) ==
    /\ out' = [out EXCEPT ![r] = result]
    /\ pc' = [pc EXCEPT ![r] = "return"]
    /\ lock' = None /\ hand' = None
    /\ UNCHANGED <<want, told, asks, noted>>

Return(r) ==
    /\ pc[r] = "return"
    /\ told' = [told EXCEPT ![r] = out[r]]
    /\ noted' = (noted \/ out[r] = Failed)
    /\ want' = [want EXCEPT ![r] = None]
    /\ out' = [out EXCEPT ![r] = None]
    /\ pc' = [pc EXCEPT ![r] = "idle"]
    /\ UNCHANGED <<asks, batch, drop, limits, channel, thread, git>>

-----------------------------------------------------------------------------
(* CatFileBatch::get_bytes.                                                *)

Exhausted(r) == over \/ ceiling[r]

\* The connection of the pool, or a fresh one; spawning git may fail.
TakeConn(r) ==
    \/ /\ pool # None
       /\ hand' = pool /\ pool' = None
       /\ pc' = [pc EXCEPT ![r] = "send"]
       /\ UNCHANGED <<lock, want, out, told, asks, noted, child>>
    \/ /\ pool = None
       /\ \E c \in Conns :
            /\ child[c] = "unborn"
            /\ child' = [child EXCEPT ![c] = "running"]
            /\ hand' = c
       /\ pc' = [pc EXCEPT ![r] = "send"]
       /\ UNCHANGED <<lock, pool, want, out, told, asks, noted>>
    \/ /\ pool = None
       /\ Finish(r, Failed)
       /\ UNCHANGED <<pool, child>>

\* Mutant: a path with a line break goes to the line-delimited protocol.
EnterAnyPath(r) ==
    /\ pc[r] = "enter"
    /\ IF Exhausted(r) THEN Finish(r, Failed) /\ UNCHANGED <<pool, child>> ELSE TakeConn(r)
    /\ UNCHANGED <<drop, limits, channel, thread, stdin, stdout>>

Enter(r) ==
    /\ pc[r] = "enter"
    /\ \/ /\ want[r] \in Control
          /\ pc' = [pc EXCEPT ![r] = "argv"]
          /\ UNCHANGED <<want, out, told, asks, noted, batch, child>>
       \/ /\ want[r] \notin Control /\ Exhausted(r)
          /\ Finish(r, Failed)
          /\ UNCHANGED <<pool, child>>
       \/ want[r] \notin Control /\ ~Exhausted(r) /\ TakeConn(r)
    /\ UNCHANGED <<drop, limits, channel, thread, stdin, stdout>>

\* Mutant: the ends are dropped and the child is left to notice.
KillNothing(c) == /\ ends' = [ends EXCEPT ![c] = "dropped"]
                  /\ UNCHANGED <<req, rep, git>>

\* shut_down(None): the channel ends and the process tree, at once.
Kill(c) == /\ child' = [child EXCEPT ![c] = IF @ = "running" THEN "killed" ELSE @]
           /\ ends' = [ends EXCEPT ![c] = "dropped"]
           /\ UNCHANGED <<req, rep, stdin, stdout>>

\* A send blocks while the channel is full and fails once the worker is gone.
Send(r) ==
    /\ pc[r] = "send"
    /\ \/ /\ worker[hand] = "gone"
          /\ Kill(hand) /\ Finish(r, Failed)
          /\ UNCHANGED pool
       \/ /\ worker[hand] # "gone" /\ req[hand] = None
          /\ req' = [req EXCEPT ![hand] = want[r]]
          /\ pc' = [pc EXCEPT ![r] = "await"]
          /\ UNCHANGED <<want, out, told, asks, noted, batch, ends, rep, git>>
    /\ UNCHANGED <<drop, limits, thread>>

\* Mutant: the connection of a call that ran out of time goes back to the pool.
GiveUpAndKeep(r) ==
    /\ pc[r] = "await" /\ Exhausted(r)
    /\ pool' = hand
    /\ Finish(r, Failed)
    /\ UNCHANGED <<drop, limits, channel, thread, git>>

\* Mutant: the waiting loop looks at the run's limits, not at its own ceiling.
GiveUpOnCancel(r) ==
    /\ pc[r] = "await" /\ over
    /\ Kill(hand) /\ Finish(r, Failed)
    /\ UNCHANGED <<pool, drop, limits, thread>>

\* "A half-consumed stream is never reused."
GiveUp(r) ==
    /\ pc[r] = "await" /\ Exhausted(r)
    /\ Kill(hand) /\ Finish(r, Failed)
    /\ UNCHANGED <<pool, drop, limits, thread>>

\* A Blob, an Absent or a TooLarge: the connection serves the next request.
TakeReply(r) ==
    /\ pc[r] = "await" /\ rep[hand] \notin {None, Garbled}
    /\ rep' = [rep EXCEPT ![hand] = None]
    /\ pool' = hand
    /\ LET answer == rep[hand] IN
       Finish(r, CASE answer \in Blobs -> answer
                   [] answer \in Big   -> Failed
                   [] OTHER            -> Missing)
    /\ UNCHANGED <<drop, limits, ends, req, thread, git>>

\* Broken, or a worker that is gone: the connection is discarded and this one
\* file is asked through argv.
TakeBroken(r) ==
    /\ pc[r] = "await"
    /\ rep[hand] = Garbled \/ (rep[hand] = None /\ worker[hand] = "gone")
    /\ Kill(hand)
    /\ hand' = None
    /\ pc' = [pc EXCEPT ![r] = "argv"]
    /\ UNCHANGED <<want, out, told, asks, noted, lock, pool, drop, limits, thread>>

\* show_file_bytes_at_revision: `git show REV:PATH` under the call's limits.
\* It prints a directory's listing, has no size limit, and fails for a path
\* the revision does not have as for any other reason.
Argv(r) ==
    /\ pc[r] = "argv"
    /\ \/ want[r] \notin Nowhere /\ Finish(r, want[r])
       \/ Finish(r, Failed)
    /\ UNCHANGED <<pool, drop, limits, channel, thread, git>>

-----------------------------------------------------------------------------
(* batch_worker and read_batch_reply.                                      *)

WorkerRecv(c) ==
    /\ worker[c] = "recv" /\ child[c] # "unborn"
    /\ \/ /\ req[c] # None
          /\ held' = [held EXCEPT ![c] = req[c]]
          /\ req' = [req EXCEPT ![c] = None]
          /\ worker' = [worker EXCEPT ![c] = "write"]
       \/ /\ req[c] = None /\ ends[c] # "open"
          /\ worker' = [worker EXCEPT ![c] = "gone"]
          /\ UNCHANGED <<held, req>>
    /\ UNCHANGED <<reader, batch, drop, limits, ends, rep, git>>

\* A path with a control character is two lines to the protocol.
Lines(f) == IF f \in Control THEN <<Junk, Junk>> ELSE <<f>>

WorkerWrite(c) ==
    /\ worker[c] = "write"
    /\ \/ /\ child[c] = "running"
          /\ stdin' = [stdin EXCEPT ![c] = @ \o Lines(held[c])]
          /\ held' = [held EXCEPT ![c] = None]
          /\ worker' = [worker EXCEPT ![c] = "read"]
       \/ /\ child[c] # "running"
          /\ held' = [held EXCEPT ![c] = Garbled]
          /\ worker' = [worker EXCEPT ![c] = "answer"]
          /\ UNCHANGED stdin
    /\ UNCHANGED <<reader, batch, drop, limits, channel, child, stdout>>

\* One record, whole, or the end of the stream.
WorkerRead(c) ==
    /\ worker[c] = "read"
    /\ \/ /\ stdout[c] # <<>>
          /\ held' = [held EXCEPT ![c] = Head(stdout[c])]
          /\ stdout' = [stdout EXCEPT ![c] = Tail(@)]
       \/ /\ stdout[c] = <<>> /\ child[c] # "running"
          /\ held' = [held EXCEPT ![c] = Garbled]
          /\ UNCHANGED stdout
    /\ worker' = [worker EXCEPT ![c] = "answer"]
    /\ UNCHANGED <<reader, batch, drop, limits, channel, child, stdin>>

WorkerAnswer(c) ==
    /\ worker[c] = "answer"
    /\ \/ /\ ends[c] = "dropped"
          /\ worker' = [worker EXCEPT ![c] = "gone"]
          /\ UNCHANGED rep
       \/ /\ ends[c] # "dropped" /\ rep[c] = None
          /\ rep' = [rep EXCEPT ![c] = held[c]]
          /\ worker' = [worker EXCEPT ![c] = IF held[c] = Garbled THEN "gone" ELSE "recv"]
    /\ held' = [held EXCEPT ![c] = None]
    /\ UNCHANGED <<reader, batch, drop, limits, ends, req, git>>

-----------------------------------------------------------------------------
(* git, outside the program: it answers a line, or garbles the answer, or  *)
(* dies, or exits when its input ends; nothing makes it answer at all.     *)

Serve(c) ==
    /\ child[c] = "running" /\ stdin[c] # <<>>
    /\ stdin' = [stdin EXCEPT ![c] = Tail(@)]
    /\ \E answer \in {Head(stdin[c]), Garbled} :
        stdout' = [stdout EXCEPT ![c] = Append(@, answer)]
    /\ UNCHANGED <<reader, batch, drop, limits, channel, thread, child>>

Die(c) ==
    /\ child[c] = "running"
    /\ child' = [child EXCEPT ![c] = "exited"]
    /\ UNCHANGED <<reader, batch, drop, limits, channel, thread, stdin, stdout>>

Expire == /\ ~over /\ over' = TRUE
          /\ UNCHANGED <<reader, batch, drop, ceiling, channel, thread, git>>

Ceiling(r) == /\ pc[r] \in {"enter", "send", "await"} /\ ~ceiling[r]
              /\ ceiling' = [ceiling EXCEPT ![r] = TRUE]
              /\ UNCHANGED <<reader, batch, drop, over, channel, thread, git>>

-----------------------------------------------------------------------------
(* The batch is dropped when no reader can reach it any more.              *)

Close ==
    /\ closed = "open" /\ \A r \in Readers : pc[r] = "idle"
    /\ \/ /\ pool = None
          /\ closed' = "closed"
          /\ UNCHANGED <<closing, ends>>
       \/ /\ pool # None
          /\ closing' = pool
          /\ ends' = [ends EXCEPT ![pool] = "closing"]
          /\ closed' = "waiting"
    /\ pool' = None
    /\ UNCHANGED <<reader, lock, hand, limits, req, rep, thread, git>>

\* git exited within the allowance, or is killed.
CloseDone ==
    /\ closed = "waiting"
    /\ Kill(closing)
    /\ closing' = None /\ closed' = "closed"
    /\ UNCHANGED <<reader, batch, limits, thread>>

Finished == /\ closed = "closed" /\ \A c \in Conns : worker[c] = "gone" \/ child[c] = "unborn"
            /\ UNCHANGED vars

Read(r) == \/ Lock(r) \/ Enter(r) \/ Send(r) \/ GiveUp(r) \/ TakeReply(r) \/ TakeBroken(r)
           \/ Argv(r) \/ Return(r)

Work(c) == WorkerRecv(c) \/ WorkerWrite(c) \/ WorkerRead(c) \/ WorkerAnswer(c)

Next == \/ \E r \in Readers : Ask(r) \/ Read(r) \/ Ceiling(r)
        \/ \E c \in Conns : Work(c) \/ Serve(c) \/ Die(c)
        \/ Expire \/ Close \/ CloseDone \/ Finished

\* Threads run; the ceiling of a call is a finite time.  git owes nothing.
Fairness == /\ \A r \in Readers : WF_vars(Read(r)) /\ WF_vars(Ceiling(r))
            /\ \A c \in Conns : WF_vars(Work(c))
            /\ WF_vars(CloseDone)

Spec == Init /\ [][Next]_vars /\ Fairness

-----------------------------------------------------------------------------
(* Properties.                                                             *)

\* Source::read_bytes keeps its promise: no reader gets another file's bytes,
\* whatever the stream lost, and a failure is noted and never an absence.
Source == INSTANCE BlobSource WITH Present <- Blobs \union Big

Promise == Source!Safety
Returns == Source!Spec

\* The caller holds no deadline while it sends: the channel of a connection
\* it has in hand must have room.
SendNeverBlocks == \A r \in Readers : pc[r] = "send" => req[hand] = None

\* A connection that waits in the pool owes nobody an answer.
PoolInStep ==
    pool # None => /\ req[pool] = None /\ rep[pool] = None /\ held[pool] = None
                   /\ stdin[pool] = <<>> /\ stdout[pool] = <<>>

\* A connection is in step with git whenever a request may go out on it.
InStep == SendNeverBlocks /\ PoolInStep

\* A git process is always somebody's: of the pool, of the reader inside, or
\* of the drop that waits for it.  No path of get_bytes leaks one.
NoOrphan == \A c \in Conns : child[c] = "running" => c \in {pool, hand, closing}

\* The worker of a connection that was given up ends, so no thread is left
\* blocked on a pipe.
WorkersEnd == \A c \in Conns : (ends[c] = "dropped") ~> (worker[c] = "gone")

\* read_bytes returns "`None` when the source has no such file" (source.rs),
\* and a directory is no file.
NoBytesOfDirectory == \A r \in Readers : told[r] \notin Trees
=============================================================================
