------------------------- MODULE CatFileBatchProofs -------------------------
(***************************************************************************)
(* What CatFileBatch promises, for any readers, connections and paths: a   *)
(* connection in use is in step with git, no process is left to nobody,    *)
(* and the readers get what BlobSource says.                               *)
(***************************************************************************)
EXTENDS CatFileBatch, TLAPS

Inside == {"enter", "send", "await", "argv"}

Shape ==
    /\ DOMAIN pc = Readers /\ DOMAIN want = Readers /\ DOMAIN out = Readers
    /\ DOMAIN told = Readers
    /\ DOMAIN child = Conns /\ DOMAIN ends = Conns /\ DOMAIN req = Conns /\ DOMAIN rep = Conns
    /\ DOMAIN worker = Conns /\ DOMAIN held = Conns /\ DOMAIN stdin = Conns /\ DOMAIN stdout = Conns

\* One reader is inside, and a connection in hand is its own.
Inner ==
    /\ \A r \in Readers : pc[r] \in Inside \union {"idle", "lock", "return"}
    /\ \A r \in Readers : pc[r] \in Inside <=> lock = r
    /\ lock \in Readers \union {None}
    /\ hand \in Conns \union {None}
    /\ hand # None => lock \in Readers /\ pc[lock] \in {"send", "await"}
    /\ \A r \in Readers : pc[r] \in {"send", "await"} => hand # None

Asked ==
    /\ \A r \in Readers : want[r] \in Files \union {None}
    /\ \A r \in Readers : pc[r] = "idle" <=> want[r] = None
    /\ \A r \in Readers : pc[r] \in {"send", "await"} => want[r] \notin Control

\* Who holds a connection.
Places ==
    /\ pool \in Conns \union {None} /\ closing \in Conns \union {None}
    /\ hand # None => pool = None
    /\ closed # "open" => pool = None /\ \A r \in Readers : pc[r] = "idle"
    /\ closing # None => closed # "open"
    /\ \A c \in Conns : child[c] = "unborn" => c \notin {pool, hand, closing}
    /\ \A c \in Conns : child[c] = "running" => c \in {pool, hand, closing}

\* A connection that has nothing under way.
Fresh(c) ==
    /\ ends[c] = "open" /\ worker[c] = "recv"
    /\ req[c] = None /\ rep[c] = None /\ held[c] = None
    /\ stdin[c] = <<>> /\ stdout[c] = <<>>

\* A connection that was asked for f: one thing is under way, in one place.
Busy(c, f) ==
    /\ ends[c] = "open"
    /\ \/ /\ req[c] = f /\ rep[c] = None /\ held[c] = None /\ worker[c] = "recv"
          /\ stdin[c] = <<>> /\ stdout[c] = <<>>
       \/ /\ req[c] = None /\ rep[c] = None /\ held[c] = f /\ worker[c] = "write"
          /\ stdin[c] = <<>> /\ stdout[c] = <<>>
       \/ /\ req[c] = None /\ rep[c] = None /\ held[c] = None /\ worker[c] = "read"
          /\ \/ stdin[c] = <<f>> /\ stdout[c] = <<>>
             \/ stdin[c] = <<>> /\ (stdout[c] = <<f>> \/ stdout[c] = <<Garbled>>)
       \/ /\ req[c] = None /\ rep[c] = None /\ worker[c] = "answer"
          /\ held[c] = Garbled \/ (held[c] = f /\ stdin[c] = <<>> /\ stdout[c] = <<>>)
       \/ /\ req[c] = None /\ rep[c] = f /\ held[c] = None /\ worker[c] = "recv"
          /\ stdin[c] = <<>> /\ stdout[c] = <<>>
       \/ req[c] = None /\ rep[c] = Garbled /\ worker[c] = "gone"

Flight ==
    /\ \A c \in Conns : child[c] = "unborn" \/ c = pool => Fresh(c)
    /\ \A r \in Readers : pc[r] = "send" => Fresh(hand)
    /\ \A r \in Readers : pc[r] = "await" => Busy(hand, want[r])

\* What a read comes to: a failure, or what the path names, where no path
\* names a directory (`git show` prints its listing).
Given(f) == IF f \in Blobs \union Big THEN f ELSE Missing
Results ==
    /\ noted \in BOOLEAN
    /\ Trees = {} =>
          \A r \in Readers : pc[r] = "return" => out[r] \in {Failed, Given(want[r])}

IInv == Shape /\ Inner /\ Asked /\ Places /\ Flight /\ Results

-----------------------------------------------------------------------------
(* The worker and git: what is under way moves on.                         *)

LEMMA Streams ==
    ASSUME NEW f
    PROVE  /\ Head(<<f>>) = f /\ Tail(<<f>>) = <<>> /\ <<f>> # <<>>
           /\ Append(<<>>, f) = <<f>> /\ <<>> \o <<f>> = <<f>>
OBVIOUS

LEMMA WorkMoves ==
    ASSUME Shape, NEW c \in Conns, Work(c) \/ Serve(c) \/ Die(c)
    PROVE  /\ Shape'
           /\ \A d \in Conns : Fresh(d) => Fresh(d)'
           /\ \A d \in Conns, f \in Files \ Control : Busy(d, f) => Busy(d, f)'
           /\ UNCHANGED <<reader, batch, drop>>
           /\ \A d \in Conns : /\ child'[d] = "unborn" <=> child[d] = "unborn"
                               /\ child'[d] = "running" => child[d] = "running"
<1> USE DEF Shape, channel, thread, git, reader, batch, drop, limits
<1>0. UNCHANGED <<reader, batch, drop>>
  BY DEF Work, WorkerRecv, WorkerWrite, WorkerRead, WorkerAnswer, Serve, Die
<1>1. CASE WorkerRecv(c)
  BY <1>0, <1>1, Paths DEF WorkerRecv, Fresh, Busy, Files
<1>2. CASE WorkerWrite(c)
  <2>1. \A f \in Files \ Control : Lines(f) = <<f>>
    BY DEF Lines
  <2>2. \A d \in Conns : Fresh(d) => Fresh(d)'
    BY <1>2 DEF WorkerWrite, Fresh
  <2>3. ASSUME NEW f \in Files \ Control, Busy(c, f) PROVE Busy(c, f)'
    <3>1. held[c] = f /\ stdin[c] = <<>> /\ stdout[c] = <<>> /\ req[c] = None /\ rep[c] = None
      BY <1>2, <2>3 DEF WorkerWrite, Busy
    <3>2. stdin[c] \o Lines(held[c]) = <<f>>
      BY <2>1, <3>1, Streams
    <3> QED
      BY <1>2, <2>3, <3>1, <3>2 DEF WorkerWrite, Busy
  <2>4. ASSUME NEW d \in Conns \ {c}, NEW f \in Files \ Control, Busy(d, f) PROVE Busy(d, f)'
    BY <1>2, <2>4 DEF WorkerWrite, Busy
  <2>5. Shape' /\ child' = child
    BY <1>2 DEF WorkerWrite
  <2> QED
    BY <1>0, <2>2, <2>3, <2>4, <2>5
<1>3. CASE WorkerRead(c)
  <2>1. \A d \in Conns : Fresh(d) => Fresh(d)'
    BY <1>3 DEF WorkerRead, Fresh
  <2>2. ASSUME NEW f \in Files \ Control, Busy(c, f) PROVE Busy(c, f)'
    <3>1. req[c] = None /\ rep[c] = None /\ worker'[c] = "answer" /\ ends'[c] = "open"
      BY <1>3, <2>2 DEF WorkerRead, Busy
    <3>2. held'[c] = Garbled \/ (held'[c] = f /\ stdin'[c] = <<>> /\ stdout'[c] = <<>>)
      <4>1. /\ stdout[c] = <<>> \/ stdout[c] = <<f>> \/ stdout[c] = <<Garbled>>
            /\ stdout[c] # <<>> => stdin[c] = <<>>
        BY <1>3, <2>2, Streams DEF WorkerRead, Busy
      <4>2. CASE stdout[c] = <<>>
        BY <1>3, <4>2 DEF WorkerRead
      <4>3. CASE stdout[c] = <<f>>
        BY <1>3, <4>1, <4>3, Streams DEF WorkerRead
      <4>4. CASE stdout[c] = <<Garbled>>
        <5>1. Head(stdout[c]) = Garbled /\ stdout[c] # <<>>
          BY <4>4, Streams
        <5> QED
          BY <1>3, <5>1 DEF WorkerRead
      <4> QED
        BY <4>1, <4>2, <4>3, <4>4
    <3> QED
      BY <1>3, <3>1, <3>2 DEF WorkerRead, Busy
  <2>3. ASSUME NEW d \in Conns \ {c}, NEW f \in Files \ Control, Busy(d, f) PROVE Busy(d, f)'
    BY <1>3, <2>3 DEF WorkerRead, Busy
  <2>4. Shape' /\ child' = child
    BY <1>3 DEF WorkerRead
  <2> QED
    BY <1>0, <2>1, <2>2, <2>3, <2>4
<1>4. CASE WorkerAnswer(c)
  BY <1>0, <1>4, Paths DEF WorkerAnswer, Fresh, Busy, Files
<1>5. CASE Serve(c)
  <2>1. \A d \in Conns : Fresh(d) => Fresh(d)'
    BY <1>5 DEF Serve, Fresh
  <2>2. ASSUME NEW f \in Files \ Control, Busy(c, f) PROVE Busy(c, f)'
    <3>1. CASE worker[c] = "read" /\ stdin[c] = <<f>> /\ stdout[c] = <<>>
      <4>1. stdin'[c] = <<>> /\ (stdout'[c] = <<f>> \/ stdout'[c] = <<Garbled>>)
        BY <1>5, <3>1, Streams DEF Serve
      <4> QED
        BY <1>5, <2>2, <3>1, <4>1 DEF Serve, Busy
    <3>2. CASE held[c] = Garbled \/ rep[c] = Garbled
      BY <1>5, <2>2, <3>2, Paths DEF Serve, Busy, Files
    <3> QED
      BY <1>5, <2>2, <3>1, <3>2 DEF Serve, Busy
  <2>3. ASSUME NEW d \in Conns \ {c}, NEW f \in Files \ Control, Busy(d, f) PROVE Busy(d, f)'
    BY <1>5, <2>3 DEF Serve, Busy
  <2>4. Shape' /\ child' = child
    BY <1>5 DEF Serve
  <2> QED
    BY <1>0, <2>1, <2>2, <2>3, <2>4
<1>6. CASE Die(c)
  BY <1>0, <1>6 DEF Die, Fresh, Busy
<1> QED
  BY <1>1, <1>2, <1>3, <1>4, <1>5, <1>6 DEF Work

-----------------------------------------------------------------------------
(* The readers.                                                            *)

LEMMA InitInv == Init => IInv
<1> SUFFICES ASSUME Init PROVE IInv
  OBVIOUS
<1>1. Shape /\ Results
  BY DEF Init, Shape, Results
<1>2. Inner /\ Asked
  BY Paths DEF Init, Inner, Inside, Asked
<1>3. Places
  BY Paths DEF Init, Places
<1>4. Flight
  BY Paths DEF Init, Flight, Fresh
<1> QED
  BY <1>1, <1>2, <1>3, <1>4 DEF IInv

\* Connections no step touches.
LEMMA Untouched ==
    ASSUME UNCHANGED <<ends, worker, req, rep, held, stdin, stdout>>, NEW c, NEW f
    PROVE  (Fresh(c)' <=> Fresh(c)) /\ (Busy(c, f)' <=> Busy(c, f))
BY DEF Fresh, Busy

LEMMA ReaderSteps ==
    ASSUME IInv, NEW r \in Readers, Ask(r) \/ Read(r) \/ Ceiling(r)
    PROVE  IInv'
<1> USE DEF IInv, Shape, batch, drop, limits, channel, thread, git, reader
<1>1. CASE Ask(r)
  <2>1. UNCHANGED <<ends, worker, req, rep, held, stdin, stdout>>
    BY <1>1 DEF Ask
  <2>2. PICK f \in Files : want' = [want EXCEPT ![r] = f]
    BY <1>1 DEF Ask
  <2>3. f # None
    BY Paths DEF Files
  <2>4. Shape' /\ Inner' /\ Asked' /\ Places'
    BY <1>1, <2>2, <2>3 DEF Ask, Inner, Inside, Asked, Places
  <2>5. Flight' /\ Results'
    BY <1>1, <2>1, <2>2, Untouched DEF Ask, Flight, Results
  <2> QED
    BY <2>4, <2>5
<1>2. CASE Lock(r)
  <2>1. UNCHANGED <<ends, worker, req, rep, held, stdin, stdout>>
    BY <1>2 DEF Lock
  <2>2. Shape' /\ Inner' /\ Asked' /\ Places'
    BY <1>2, Paths DEF Lock, Inner, Inside, Asked, Places
  <2>3. Flight' /\ Results'
    BY <1>2, <2>1, Untouched DEF Lock, Flight, Results
  <2> QED
    BY <2>2, <2>3
<1>3. CASE Return(r)
  <2>1. UNCHANGED <<ends, worker, req, rep, held, stdin, stdout>>
    BY <1>3 DEF Return
  <2>2. Shape' /\ Inner' /\ Asked' /\ Places'
    BY <1>3 DEF Return, Inner, Inside, Asked, Places
  <2>3. Flight' /\ Results'
    BY <1>3, <2>1, Untouched DEF Return, Flight, Results
  <2> QED
    BY <2>2, <2>3
<1>4. CASE Enter(r)
  <2>1. UNCHANGED <<ends, worker, req, rep, held, stdin, stdout, closing, closed, want, told, noted>>
    BY <1>4 DEF Enter, TakeConn, Finish
  <2>2. lock = r /\ hand = None /\ pc[r] = "enter"
    BY <1>4 DEF Enter, Inner, Inside
  <2>3. CASE pc' = [pc EXCEPT ![r] = "argv"] /\ UNCHANGED <<out, batch, child>>
    <3>1. Shape' /\ Inner' /\ Asked' /\ Places'
      BY <2>1, <2>2, <2>3 DEF Inner, Inside, Asked, Places
    <3>2. Flight' /\ Results'
      BY <2>1, <2>2, <2>3, Untouched DEF Flight, Results
    <3> QED
      BY <3>1, <3>2
  <2>4. CASE Finish(r, Failed) /\ UNCHANGED <<pool, child>>
    <3>1. Shape' /\ Inner' /\ Asked' /\ Places'
      BY <2>1, <2>2, <2>4, Paths DEF Finish, Inner, Inside, Asked, Places
    <3>2. Flight' /\ Results'
      BY <2>1, <2>2, <2>4, Untouched DEF Finish, Flight, Results
    <3> QED
      BY <3>1, <3>2
  <2>5. CASE /\ want[r] \notin Control /\ pool # None /\ hand' = pool /\ pool' = None
             /\ pc' = [pc EXCEPT ![r] = "send"] /\ UNCHANGED <<lock, out, child>>
    <3>1. Shape' /\ Inner' /\ Asked' /\ Places'
      BY <2>1, <2>2, <2>5 DEF Inner, Inside, Asked, Places
    <3>2. Flight' /\ Results'
      BY <2>1, <2>2, <2>5, Untouched, Paths DEF Flight, Results, Inner, Inside, Places
    <3> QED
      BY <3>1, <3>2
  <2>6. CASE /\ want[r] \notin Control /\ pool = None
             /\ \E c \in Conns : /\ child[c] = "unborn"
                                 /\ child' = [child EXCEPT ![c] = "running"]
                                 /\ hand' = c
             /\ pc' = [pc EXCEPT ![r] = "send"] /\ UNCHANGED <<lock, pool, out>>
    <3>0. PICK c \in Conns : /\ child[c] = "unborn"
                             /\ child' = [child EXCEPT ![c] = "running"]
                             /\ hand' = c
      BY <2>6
    <3>1. Shape' /\ Inner' /\ Asked' /\ Places'
      BY <2>1, <2>2, <2>6, <3>0, Paths DEF Inner, Inside, Asked, Places
    <3>2. Flight' /\ Results'
      BY <2>1, <2>2, <2>6, <3>0, Untouched, Paths DEF Flight, Results, Inner, Inside
    <3> QED
      BY <3>1, <3>2
  <2> QED
    BY <1>4, <2>3, <2>4, <2>5, <2>6 DEF Enter, TakeConn
\* A call that gives up its connection.
<1>a. ASSUME Kill(hand), UNCHANGED <<worker, held, want, told, asks, noted, pool, closing, closed>>,
             lock = r, pc[r] \in {"send", "await"}, hand' = None,
             \/ out' = [out EXCEPT ![r] = Failed] /\ pc' = [pc EXCEPT ![r] = "return"] /\ lock' = None
             \/ pc' = [pc EXCEPT ![r] = "argv"] /\ UNCHANGED <<out, lock>>
      PROVE  IInv'
  <2>1. hand \in Conns /\ pool = None /\ child[hand] # "unborn"
    BY <1>a DEF Inner, Places
  <2>2. \A c \in Conns \ {hand} : child'[c] = child[c] /\ (Fresh(c)' <=> Fresh(c))
    BY <1>a, <2>1 DEF Kill, Fresh
  <2>3. child'[hand] \notin {"unborn", "running"}
    BY <1>a, <2>1 DEF Kill
  <2>4. Shape' /\ Inner' /\ Asked' /\ Places'
    BY <1>a, <2>1, <2>2, <2>3, Paths DEF Kill, Inner, Inside, Asked, Places
  <2>5. Flight'
    BY <1>a, <2>1, <2>2, <2>3, Paths DEF Flight, Inner, Inside, Places
  <2>6. Results'
    BY <1>a DEF Results
  <2> QED
    BY <2>4, <2>5, <2>6
<1>5. CASE Send(r)
  <2>1. lock = r /\ hand \in Conns /\ pc[r] = "send" /\ Fresh(hand)
    BY <1>5 DEF Send, Inner, Inside, Flight
  <2>2. CASE worker[hand] = "gone"
    BY <2>1, <2>2 DEF Fresh
  <2>3. CASE worker[hand] # "gone"
    <3>1. /\ req' = [req EXCEPT ![hand] = want[r]] /\ pc' = [pc EXCEPT ![r] = "await"]
          /\ UNCHANGED <<want, out, told, noted, batch, drop, ends, rep, git, worker, held>>
      BY <1>5, <2>3 DEF Send
    <3>2. \A c \in Conns \ {hand} : Fresh(c)' <=> Fresh(c)
      BY <3>1 DEF Fresh
    <3>3. Busy(hand, want[r])'
      BY <2>1, <3>1 DEF Fresh, Busy
    <3>4. Shape' /\ Inner' /\ Asked' /\ Places'
      BY <2>1, <3>1 DEF Inner, Inside, Asked, Places
    <3>5. Flight' /\ Results'
      BY <2>1, <3>1, <3>2, <3>3, Paths DEF Flight, Results, Inner, Inside, Places
    <3> QED
      BY <3>4, <3>5
  <2> QED
    BY <2>2, <2>3
<1>6. CASE GiveUp(r) \/ TakeBroken(r)
  <2>1. lock = r /\ pc[r] = "await"
    BY <1>6 DEF GiveUp, TakeBroken, Inner, Inside
  <2> QED
    BY <1>6, <1>a, <2>1 DEF GiveUp, TakeBroken, Finish
<1>7. CASE TakeReply(r)
  <2>1. lock = r /\ hand \in Conns /\ pc[r] = "await" /\ Busy(hand, want[r])
    BY <1>7 DEF TakeReply, Inner, Inside, Flight
  <2>2. rep[hand] = want[r] /\ want[r] \in Files /\ want[r] \notin {None, Failed, Missing}
    <3>1. want[r] \in Files
      BY <2>1 DEF Asked
    <3>2. rep[hand] = want[r]
      BY <1>7, <2>1 DEF TakeReply, Busy
    <3> QED
      BY <3>1, <3>2, Paths
  <2>3. PICK answer : /\ answer \in {Failed, Given(want[r])} /\ Finish(r, answer)
    BY <1>7, <2>2 DEF TakeReply, Given
  <2>4. /\ rep' = [rep EXCEPT ![hand] = None] /\ pool' = hand
        /\ UNCHANGED <<drop, ends, req, worker, held, git, want, noted, told>>
    BY <1>7, <2>3 DEF TakeReply, Finish
  <2>5. \A c \in Conns : c = hand => Fresh(c)'
    <3>1. /\ worker[hand] = "recv" /\ req[hand] = None /\ held[hand] = None
          /\ stdin[hand] = <<>> /\ stdout[hand] = <<>> /\ ends[hand] = "open"
      BY <1>7, <2>1, <2>2 DEF TakeReply, Busy
    <3> QED
      BY <2>1, <2>4, <3>1 DEF Fresh
  <2>6. \A c \in Conns \ {hand} : Fresh(c)' <=> Fresh(c)
    BY <2>4 DEF Fresh
  <2>7. Shape' /\ Inner' /\ Asked' /\ Places'
    <3>1. pool = None \/ child[pool] # "running" \/ pool # hand
      BY DEF Places
    <3> QED
      BY <2>1, <2>3, <2>4, <3>1, Paths DEF Finish, Inner, Inside, Asked, Places
  <2>8. Flight'
    BY <2>1, <2>3, <2>4, <2>5, <2>6, Paths DEF Finish, Flight, Inner, Inside, Places
  <2>9. Results'
    BY <2>3, <2>4 DEF Finish, Results
  <2> QED
    BY <2>7, <2>8, <2>9
<1>8. CASE Argv(r)
  <2>1. lock = r /\ hand = None /\ pc[r] = "argv" /\ want[r] \in Files
    BY <1>8, Paths DEF Argv, Inner, Inside, Asked
  <2>2. PICK answer : /\ Finish(r, answer)
                      /\ Trees = {} => answer \in {Failed, Given(want[r])}
    BY <1>8, <2>1 DEF Argv, Given, Files
  <2>3. UNCHANGED <<ends, worker, req, rep, held, stdin, stdout, pool, drop, child>>
    BY <1>8 DEF Argv
  <2>4. /\ out' = [out EXCEPT ![r] = answer] /\ pc' = [pc EXCEPT ![r] = "return"]
        /\ lock' = None /\ hand' = None /\ UNCHANGED <<want, told, noted>>
    BY <2>2 DEF Finish
  <2>5. Shape' /\ Inner' /\ Asked' /\ Places'
    BY <2>1, <2>3, <2>4, Paths DEF Inner, Inside, Asked, Places
  <2>6. Flight'
    BY <2>1, <2>3, <2>4, Untouched DEF Flight
  <2>7. Results'
    BY <2>2, <2>4 DEF Results
  <2> QED
    BY <2>5, <2>6, <2>7
<1>9. CASE Ceiling(r)
  <2>1. UNCHANGED <<reader, batch, drop, channel, thread, git>>
    BY <1>9 DEF Ceiling
  <2> QED
    BY <2>1 DEF Inner, Asked, Places, Flight, Fresh, Busy, Results
<1> QED
  BY <1>1, <1>2, <1>3, <1>4, <1>5, <1>6, <1>7, <1>8, <1>9 DEF Read

-----------------------------------------------------------------------------
(* The rest, and the whole.                                                *)

LEMMA WorkSteps ==
    ASSUME IInv, NEW c \in Conns, Work(c) \/ Serve(c) \/ Die(c)
    PROVE  IInv'
<1>1. /\ Shape'
      /\ \A d \in Conns : Fresh(d) => Fresh(d)'
      /\ \A d \in Conns, f \in Files \ Control : Busy(d, f) => Busy(d, f)'
      /\ UNCHANGED <<pc, want, out, told, noted, lock, pool, hand, closing, closed>>
      /\ \A d \in Conns : /\ child'[d] = "unborn" <=> child[d] = "unborn"
                          /\ child'[d] = "running" => child[d] = "running"
  BY WorkMoves DEF IInv, reader, batch, drop
<1>2. Inner' /\ Asked' /\ Places' /\ Results'
  BY <1>1 DEF IInv, Inner, Asked, Places, Results
<1>3. \A c1 \in Conns : child[c1] = "unborn" \/ c1 = pool => Fresh(c1)'
  BY <1>1 DEF IInv, Flight
<1>4. \A r \in Readers : pc[r] \in {"send", "await"} =>
         hand \in Conns /\ want[r] \in Files \ Control
  BY Paths DEF IInv, Inner, Asked
<1>5. \A r \in Readers : pc[r] = "send" => Fresh(hand)'
  BY <1>1, <1>4 DEF IInv, Flight
<1>6. \A r \in Readers : pc[r] = "await" => Busy(hand, want[r])'
  <2> SUFFICES ASSUME NEW r \in Readers, pc[r] = "await" PROVE Busy(hand, want[r])'
    OBVIOUS
  <2>1. \A f : f = want[r] => Busy(hand, f)'
    BY <1>1, <1>4 DEF IInv, Flight, Busy
  <2> QED
    BY <1>1, <2>1
<1> QED
  BY <1>1, <1>2, <1>3, <1>5, <1>6 DEF IInv, Flight

LEMMA DropSteps ==
    ASSUME IInv, Close \/ CloseDone \/ Expire \/ UNCHANGED vars
    PROVE  IInv'
<1> USE DEF IInv, Shape, batch, drop, limits, channel, thread, git, reader
<1>1. CASE Close
  <2>1. \A r \in Readers : pc[r] = "idle"
    BY <1>1 DEF Close
  <2>2. hand = None
    BY <2>1, Paths DEF Inner
  <2>3. \A c \in Conns : child[c] = "unborn" => c # pool /\ Fresh(c)'
    BY <1>1, Paths DEF Close, Places, Flight, Fresh
  <2>4. Shape' /\ Inner' /\ Asked' /\ Results'
    BY <1>1 DEF Close, Inner, Asked, Results
  <2>5. Places'
    BY <1>1, <2>1, <2>2, Paths DEF Close, Places
  <2>6. Flight'
    BY <1>1, <2>1, <2>3, Paths DEF Close, Flight
  <2> QED
    BY <2>4, <2>5, <2>6
<1>2. CASE CloseDone
  <2>1. /\ pool = None /\ \A r \in Readers : pc[r] = "idle"
        /\ UNCHANGED <<reader, batch, worker, held, req, rep, stdin, stdout>>
    BY <1>2 DEF CloseDone, Kill, Places
  <2>2. /\ \A c \in Conns : child'[c] = "unborn" <=> child[c] = "unborn"
        /\ \A c \in Conns : child'[c] = "running" => child[c] = "running" /\ c # closing
        /\ \A c \in Conns \ {closing} : ends'[c] = ends[c]
    BY <1>2 DEF CloseDone, Kill
  <2>3. Shape' /\ Inner' /\ Asked' /\ Results'
    BY <1>2, <2>1 DEF CloseDone, Kill, Inner, Asked, Results
  <2>4. Places'
    BY <1>2, <2>1, <2>2, Paths DEF CloseDone, Places
  <2>5. \A c \in Conns : child[c] = "unborn" => Fresh(c)'
    BY <2>1, <2>2 DEF Places, Flight, Fresh
  <2>6. Flight'
    BY <2>1, <2>2, <2>5, Paths DEF Flight
  <2> QED
    BY <2>3, <2>4, <2>6
<1>3. CASE Expire \/ UNCHANGED vars
  <2>1. UNCHANGED <<reader, batch, drop, channel, thread, git>>
    BY <1>3 DEF Expire, vars
  <2> QED
    BY <2>1 DEF Inner, Asked, Places, Flight, Fresh, Busy, Results
<1> QED
  BY <1>1, <1>2, <1>3

LEMMA StepInv == IInv /\ [Next]_vars => IInv'
<1> SUFFICES ASSUME IInv, [Next]_vars PROVE IInv'
  OBVIOUS
<1>1. ASSUME NEW r \in Readers, Ask(r) \/ Read(r) \/ Ceiling(r) PROVE IInv'
  BY <1>1, ReaderSteps
<1>2. ASSUME NEW c \in Conns, Work(c) \/ Serve(c) \/ Die(c) PROVE IInv'
  BY <1>2, WorkSteps
<1>3. CASE Close \/ CloseDone \/ Expire \/ Finished \/ UNCHANGED vars
  BY <1>3, DropSteps DEF Finished
<1> QED
  BY <1>1, <1>2, <1>3 DEF Next

LEMMA AlwaysInv == Spec => []IInv
BY InitInv, StepInv, PTL DEF Spec

-----------------------------------------------------------------------------

\* A request goes out only on a connection that is in step with git: nothing
\* of an earlier call is on its way, for any number of readers.
THEOREM StaysInStep == Spec => []InStep
<1>1. IInv => InStep
  BY Paths DEF IInv, Places, Flight, Fresh, InStep, SendNeverBlocks, PoolInStep
<1> QED
  BY AlwaysInv, <1>1, PTL

\* No path of get_bytes, or of the drop, leaves a git process to nobody.
THEOREM NoneOrphaned == Spec => []NoOrphan
<1>1. IInv => NoOrphan
  BY DEF IInv, Places, NoOrphan
<1> QED
  BY AlwaysInv, <1>1, PTL

LEMMA InitRefines == Init => Source!Init
BY DEF Init, Source!Init

\* Every step of the batch is one of the source, or none.
LEMMA StepRefines ==
    ASSUME Trees = {}
    PROVE  IInv /\ [Next]_vars => [Source!Next]_(Source!vars)
<1> SUFFICES ASSUME IInv, [Next]_vars PROVE [Source!Next]_(Source!vars)
  OBVIOUS
<1> USE DEF reader, batch, drop, limits, channel, thread, git
<1>1. ASSUME NEW r \in Readers, Ask(r) PROVE Source!Ask(r)
  BY <1>1 DEF Ask, Source!Ask, IInv, Asked
<1>2. ASSUME NEW r \in Readers, Return(r) PROVE Source!Answer(r) \/ Source!Fail(r)
  <2>1. want[r] # None /\ out[r] \in {Failed, Given(want[r])} /\ noted \in BOOLEAN
    BY <1>2 DEF Return, IInv, Asked, Results
  <2>2. CASE out[r] = Failed
    <3>1. noted' = TRUE
      BY <1>2, <2>2 DEF Return
    <3>2. told' = [told EXCEPT ![r] = Failed] /\ want' = [want EXCEPT ![r] = None]
      BY <1>2, <2>2 DEF Return
    <3> QED
      BY <2>1, <3>1, <3>2 DEF Source!Fail
  <2>3. CASE out[r] # Failed
    <3>1. noted' = noted
      BY <1>2, <2>1, <2>3 DEF Return
    <3>2. told' = [told EXCEPT ![r] = Given(want[r])] /\ want' = [want EXCEPT ![r] = None]
      BY <1>2, <2>1, <2>3 DEF Return
    <3> QED
      BY <2>1, <3>1, <3>2 DEF Source!Answer, Given
  <2> QED
    BY <2>2, <2>3
<1>3. ASSUME NEW r \in Readers,
             \/ Lock(r) \/ Enter(r) \/ Send(r) \/ GiveUp(r) \/ TakeReply(r) \/ TakeBroken(r)
             \/ Argv(r) \/ Ceiling(r)
      PROVE  UNCHANGED Source!vars
  BY <1>3 DEF Lock, Enter, TakeConn, Send, GiveUp, TakeReply, TakeBroken, Argv, Ceiling, Finish,
              Source!vars
<1>4. ASSUME NEW c \in Conns, Work(c) \/ Serve(c) \/ Die(c) PROVE UNCHANGED Source!vars
  BY <1>4 DEF Work, WorkerRecv, WorkerWrite, WorkerRead, WorkerAnswer, Serve, Die, Source!vars
<1>5. CASE Expire \/ Close \/ CloseDone \/ Finished \/ UNCHANGED vars
  BY <1>5 DEF Expire, Close, CloseDone, Finished, vars, Source!vars
<1> QED
  BY <1>1, <1>2, <1>3, <1>4, <1>5 DEF Next, Read, Source!Next

\* The batch implements the source a run reads from: a reader gets the bytes
\* of the file it named, that there is none, or a failure that is noted.
THEOREM KeepsPromise == ASSUME Trees = {} PROVE Spec => Promise
<1>1. Spec => []IInv
  BY AlwaysInv
<1>2. IInv /\ [Next]_vars => [Source!Next]_(Source!vars)
  BY StepRefines
<1> QED
  BY <1>1, InitRefines, <1>2, PTL DEF Spec, Promise, Source!Safety
=============================================================================
