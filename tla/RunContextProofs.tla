-------------------------- MODULE RunContextProofs --------------------------
(***************************************************************************)
(* The safety properties of RunContext for any number of workers and       *)
(* builders, any cap and any clock.  One inductive invariant, in four      *)
(* parts: who holds which builder, what has been counted where, what a     *)
(* stop has logged, and how far a worker can run past one.                 *)
(***************************************************************************)
EXTENDS RunContext, TLAPS

\* A worker is still in front of its builder; it is between a poll and the
\* end of that poll's check; its builder has been charged for every poll.
Before(w)  == pc[w] \in {"load", "cancel", "clock", "trip", "over"} /\ site[w] = Start
Polled(w)  == pc[w] \in {"load", "cancel", "clock", "trip", "add"} /\ site[w] = Poll
Settled(w) == \/ pc[w] \in {"body", "charge"}
              \/ pc[w] = "noteCap" /\ site[w] = Poll
Ending(w)  == pc[w] = "noteCap" /\ site[w] = Last

\* Every worker is in exactly one of them, or idle.
Places ==
    \A w \in Workers :
        /\ pc[w] = "idle" <=> job[w] = None
        /\ pc[w] = "idle" \/ Before(w) \/ Polled(w) \/ Settled(w) \/ Ending(w)

\* A builder is in the queue, or some worker's job, or suspended by one.
Held ==
    /\ \A w, v \in Workers : w # v => job[w] = None \/ job[w] # job[v]
    /\ \A b \in Builders : below[b] # None =>
        /\ below[b] \in Nesting /\ below[b] # b
        /\ \E w \in Workers : job[w] = b
        /\ \A w \in Workers : job[w] # below[b]
        /\ \A c \in Builders : c # b => below[c] # below[b]
    /\ \A b \in queue : /\ below[b] = None
                        /\ \A w \in Workers : job[w] # b
                        /\ \A c \in Builders : below[c] # b

\* Charged and reported agree, except for what a check still holds back.
Even(b, owed) == /\ charged[b] + owed <= reported[b]
                 /\ ~tripped => charged[b] + owed = reported[b]

Counted ==
    /\ \A b \in Builders : /\ reported[b] <= emitted[b]
                           /\ charged[b] <= emitted[b]
                           /\ b \notin Polling => reported[b] = 0
                           /\ below[b] # None => charged[below[b]] = 0
    /\ \A b \in queue : emitted[b] = 0 /\ reported[b] = 0 /\ charged[b] = 0
    /\ \A w \in Workers :
        /\ Before(w) => /\ emitted[job[w]] = 0 /\ reported[job[w]] = 0 /\ charged[job[w]] = 0
                        /\ below[job[w]] # None => selfReported[w] = 0
        /\ Polled(w)  => Even(job[w], produced[w]) /\ selfReported[w] = reported[job[w]]
        /\ Settled(w) => Even(job[w], 0) /\ selfReported[w] = reported[job[w]]
        /\ Ending(w)  => /\ selfReported[w] = 0
                         /\ ~tripped => charged[job[w]] = emitted[job[w]]

Gone(b) == /\ b \notin queue
           /\ \A w \in Workers : job[w] # b
           /\ \A c \in Builders : below[c] # b

Released == \A b \in Builders : Gone(b) /\ ~tripped => charged[b] = emitted[b]

Explained == \/ "Deadline" \in reasons /\ (expired \/ pollsLeft = 0)
             \/ "Cancelled" \in reasons /\ cancel

Logged ==
    /\ tripped => Explained
    /\ \A w \in Workers : pc[w] = "trip" => Explained
    /\ \A w \in Workers : pc[w] = "noteCap" => contributions > Cap
    /\ contributions > Cap => \/ "EdgeContributionLimit" \in reasons
                              \/ \E w \in Workers : pc[w] = "noteCap"
    /\ "EdgeContributionLimit" \in reasons => contributions > Cap
    /\ skipped \union cut # {} => reasons # {} \/ contributions > Cap

Overrun ==
    \A w \in Workers :
        \/ late[w] = 0
        \/ late[w] = 1 /\ tripped /\ pc[w] \notin {"cancel", "clock"}

IInv == TypeOK /\ Places /\ Held /\ Counted /\ Released /\ Logged /\ Overrun

-----------------------------------------------------------------------------

LEMMA InvInit == Init => IInv
<1> SUFFICES ASSUME Init PROVE IInv
  OBVIOUS
<1> USE BuilderKinds, Limits DEF Init
<1>1. TypeOK
  BY DEF TypeOK, PCs, NoHook, Reason, Start, Poll, Last
<1>2. Places /\ Held /\ Overrun
  BY DEF Places, Held, Overrun
<1>3. Counted /\ Released
  BY DEF Counted, Released, Gone, Before, Polled, Settled, Ending
<1>4. Logged
  BY DEF Logged
<1> QED
  BY <1>1, <1>2, <1>3, <1>4 DEF IInv

\* One step per action; under it, the seven parts of the invariant.
LEMMA InvNext == IInv /\ [Next]_vars => IInv'
<1> SUFFICES ASSUME IInv, [Next]_vars PROVE IInv'
  OBVIOUS
<1> USE BuilderKinds, Limits DEF IInv, vars, ctl, work, loop
<1>1. ASSUME NEW w \in Workers, LoadTripped(w) PROVE IInv'
  <2>1. TypeOK'
    BY <1>1, SMT DEF LoadTripped, Stop, Leave, Goto,
       TypeOK, Places, Before, Polled, Settled, Ending, Held, PCs, Reason, NoHook
  <2>2. Places'
    BY <1>1, SMT DEF LoadTripped, Stop, Leave, Goto,
       TypeOK, Places, Before, Polled, Settled, Ending, Held, PCs, Start, Poll, Last
  <2>3. Held'
    BY <1>1, SMT DEF LoadTripped, Stop, Leave, Goto,
       TypeOK, Places, Before, Polled, Settled, Ending, Held
  <2>4. Counted'
    BY <1>1, SMT DEF LoadTripped, Stop, Leave, Goto,
       TypeOK, Places, Before, Polled, Settled, Ending, Held, Counted, Even, Start, Poll, Last
  <2>5. Released'
    BY <1>1, SMT DEF LoadTripped, Stop, Leave, Goto,
       TypeOK, Places, Before, Polled, Settled, Ending, Held, Counted, Released, Gone, Even, Start, Poll, Last
  <2>6. Logged'
    BY <1>1, SMT DEF LoadTripped, Stop, Leave, Goto,
       TypeOK, Places, Logged, Explained, Reason, NoHook
  <2>7. Overrun'
    BY <1>1, SMT DEF LoadTripped, Stop, Leave, Goto,
       TypeOK, Places, Overrun
  <2> QED
    BY <2>1, <2>2, <2>3, <2>4, <2>5, <2>6, <2>7
<1>2. ASSUME NEW w \in Workers, LoadCancel(w) PROVE IInv'
  <2>1. TypeOK'
    <3>1. reasons' \subseteq Reason
      BY <1>2 DEF LoadCancel, Goto, TypeOK, Reason
    <3>2. pc' \in [Workers -> PCs]
      BY <1>2 DEF LoadCancel, Goto, TypeOK, PCs
    <3> QED
      BY <1>2, <3>1, <3>2, SMT DEF LoadCancel, Goto, TypeOK, NoHook
  <2>2. Places'
    BY <1>2, SMT DEF LoadCancel, Goto,
       TypeOK, Places, Before, Polled, Settled, Ending, Held, PCs, Start, Poll, Last
  <2>3. Held'
    BY <1>2, SMT DEF LoadCancel, Goto,
       TypeOK, Places, Before, Polled, Settled, Ending, Held
  <2>4. Counted'
    BY <1>2, SMT DEF LoadCancel, Goto,
       TypeOK, Places, Before, Polled, Settled, Ending, Held, Counted, Even, Start, Poll, Last
  <2>5. Released'
    BY <1>2, SMT DEF LoadCancel, Goto,
       TypeOK, Places, Before, Polled, Settled, Ending, Held, Counted, Released, Gone, Even, Start, Poll, Last
  <2>6. Logged'
    BY <1>2, SMT DEF LoadCancel, Goto,
       TypeOK, Places, Logged, Explained, Reason, NoHook
  <2>7. Overrun'
    BY <1>2, SMT DEF LoadCancel, Goto,
       TypeOK, Places, Overrun
  <2> QED
    BY <2>1, <2>2, <2>3, <2>4, <2>5, <2>6, <2>7
<1>3. ASSUME NEW w \in Workers, ReadClock(w) PROVE IInv'
  <2>1. TypeOK'
    <3>1. reasons' \subseteq Reason
      BY <1>3 DEF ReadClock, Pass, Goto, TypeOK, Reason
    <3>2. pc' \in [Workers -> PCs]
      BY <1>3 DEF ReadClock, Pass, Goto, TypeOK, PCs
    <3> QED
      BY <1>3, <3>1, <3>2, SMT DEF ReadClock, Pass, Goto, TypeOK, NoHook
  <2>2. Places'
    BY <1>3, SMT DEF ReadClock, Pass, Goto,
       TypeOK, Places, Before, Polled, Settled, Ending, Held, PCs, Start, Poll, Last
  <2>3. Held'
    BY <1>3, SMT DEF ReadClock, Pass, Goto,
       TypeOK, Places, Before, Polled, Settled, Ending, Held
  <2>4. Counted'
    BY <1>3, SMT DEF ReadClock, Pass, Goto,
       TypeOK, Places, Before, Polled, Settled, Ending, Held, Counted, Even, Start, Poll, Last
  <2>5. Released'
    BY <1>3, SMT DEF ReadClock, Pass, Goto,
       TypeOK, Places, Before, Polled, Settled, Ending, Held, Counted, Released, Gone, Even, Start, Poll, Last
  <2>6. Logged'
    BY <1>3, SMT DEF ReadClock, Pass, Goto,
       TypeOK, Places, Logged, Explained, Reason, NoHook
  <2>7. Overrun'
    BY <1>3, SMT DEF ReadClock, Pass, Goto,
       TypeOK, Places, Overrun
  <2> QED
    BY <2>1, <2>2, <2>3, <2>4, <2>5, <2>6, <2>7
<1>4. ASSUME NEW w \in Workers, StoreTripped(w) PROVE IInv'
  <2>1. TypeOK'
    BY <1>4, SMT DEF StoreTripped, Stop, Leave, Goto,
       TypeOK, Places, Before, Polled, Settled, Ending, Held, PCs, Reason, NoHook
  <2>2. Places'
    BY <1>4, SMT DEF StoreTripped, Stop, Leave, Goto,
       TypeOK, Places, Before, Polled, Settled, Ending, Held, PCs, Start, Poll, Last
  <2>3. Held'
    BY <1>4, SMT DEF StoreTripped, Stop, Leave, Goto,
       TypeOK, Places, Before, Polled, Settled, Ending, Held
  <2>4. Counted'
    BY <1>4, SMT DEF StoreTripped, Stop, Leave, Goto,
       TypeOK, Places, Before, Polled, Settled, Ending, Held, Counted, Even, Start, Poll, Last
  <2>5. Released'
    BY <1>4, SMT DEF StoreTripped, Stop, Leave, Goto,
       TypeOK, Places, Before, Polled, Settled, Ending, Held, Counted, Released, Gone, Even, Start, Poll, Last
  <2>6. Logged'
    BY <1>4, SMT DEF StoreTripped, Stop, Leave, Goto,
       TypeOK, Places, Logged, Explained, Reason, NoHook
  <2>7. Overrun'
    BY <1>4, SMT DEF StoreTripped, Stop, Leave, Goto,
       TypeOK, Places, Overrun
  <2> QED
    BY <2>1, <2>2, <2>3, <2>4, <2>5, <2>6, <2>7
<1>5. ASSUME NEW w \in Workers, NoteCap(w) PROVE IInv'
  <2>1. TypeOK'
    BY <1>5, SMT DEF NoteCap, Leave, Goto,
       TypeOK, Places, Before, Polled, Settled, Ending, Held, PCs, Reason, NoHook
  <2>2. Places'
    BY <1>5, SMT DEF NoteCap, Leave, Goto,
       TypeOK, Places, Before, Polled, Settled, Ending, Held, PCs, Start, Poll, Last
  <2>3. Held'
    BY <1>5, SMT DEF NoteCap, Leave, Goto,
       TypeOK, Places, Before, Polled, Settled, Ending, Held
  <2>4. Counted'
    BY <1>5, SMT DEF NoteCap, Leave, Goto,
       TypeOK, Places, Before, Polled, Settled, Ending, Held, Counted, Even, Start, Poll, Last
  <2>5. Released'
    BY <1>5, SMT DEF NoteCap, Leave, Goto,
       TypeOK, Places, Before, Polled, Settled, Ending, Held, Counted, Released, Gone, Even, Start, Poll, Last
  <2>6. Logged'
    BY <1>5, SMT DEF NoteCap, Leave, Goto,
       TypeOK, Places, Logged, Explained, Reason, NoHook
  <2>7. Overrun'
    BY <1>5, SMT DEF NoteCap, Leave, Goto,
       TypeOK, Places, Overrun
  <2> QED
    BY <2>1, <2>2, <2>3, <2>4, <2>5, <2>6, <2>7
<1>6. ASSUME NEW w \in Workers, Take(w) PROVE IInv'
  <2>1. TypeOK'
    BY <1>6, SMT DEF Take,
       TypeOK, Places, Before, Polled, Settled, Ending, Held, PCs, Reason, NoHook
  <2>2. Places'
    BY <1>6, SMT DEF Take,
       TypeOK, Places, Before, Polled, Settled, Ending, Held, PCs, Start, Poll, Last
  <2>3. Held'
    BY <1>6, SMT DEF Take,
       TypeOK, Places, Before, Polled, Settled, Ending, Held
  <2>4. Counted'
    BY <1>6, SMT DEF Take,
       TypeOK, Places, Before, Polled, Settled, Ending, Held, Counted, Even, Start, Poll, Last
  <2>5. Released'
    BY <1>6, SMT DEF Take,
       TypeOK, Places, Before, Polled, Settled, Ending, Held, Counted, Released, Gone, Even, Start, Poll, Last
  <2>6. Logged'
    BY <1>6, SMT DEF Take,
       TypeOK, Places, Logged, Explained, Reason, NoHook
  <2>7. Overrun'
    BY <1>6, SMT DEF Take,
       TypeOK, Places, Overrun
  <2> QED
    BY <2>1, <2>2, <2>3, <2>4, <2>5, <2>6, <2>7
<1>7. ASSUME NEW w \in Workers, Enter(w) PROVE IInv'
  <2>1. TypeOK'
    BY <1>7, SMT DEF Enter, Leave, Goto,
       TypeOK, Places, Before, Polled, Settled, Ending, Held, PCs, Reason, NoHook
  <2>2. Places'
    BY <1>7, SMT DEF Enter, Leave, Goto,
       TypeOK, Places, Before, Polled, Settled, Ending, Held, PCs, Start, Poll, Last
  <2>3. Held'
    BY <1>7, SMT DEF Enter, Leave, Goto,
       TypeOK, Places, Before, Polled, Settled, Ending, Held
  <2>4. Counted'
    BY <1>7, SMT DEF Enter, Leave, Goto,
       TypeOK, Places, Before, Polled, Settled, Ending, Held, Counted, Even, Start, Poll, Last
  <2>5. Released'
    BY <1>7, SMT DEF Enter, Leave, Goto,
       TypeOK, Places, Before, Polled, Settled, Ending, Held, Counted, Released, Gone, Even, Start, Poll, Last
  <2>6. Logged'
    BY <1>7, SMT DEF Enter, Leave, Goto,
       TypeOK, Places, Logged, Explained, Reason, NoHook
  <2>7. Overrun'
    BY <1>7, SMT DEF Enter, Leave, Goto,
       TypeOK, Places, Overrun
  <2> QED
    BY <2>1, <2>2, <2>3, <2>4, <2>5, <2>6, <2>7
<1>8. ASSUME NEW w \in Workers, Emit(w) PROVE IInv'
  <2>1. TypeOK'
    BY <1>8, SMT DEF Emit,
       TypeOK, Places, Before, Polled, Settled, Ending, Held, PCs, Reason, NoHook
  <2>2. Places'
    BY <1>8, SMT DEF Emit,
       TypeOK, Places, Before, Polled, Settled, Ending, Held, PCs, Start, Poll, Last
  <2>3. Held'
    BY <1>8, SMT DEF Emit,
       TypeOK, Places, Before, Polled, Settled, Ending, Held
  <2>4. Counted'
    BY <1>8, SMT DEF Emit,
       TypeOK, Places, Before, Polled, Settled, Ending, Held, Counted, Even, Start, Poll, Last
  <2>5. Released'
    BY <1>8, SMT DEF Emit,
       TypeOK, Places, Before, Polled, Settled, Ending, Held, Counted, Released, Gone, Even, Start, Poll, Last
  <2>6. Logged'
    BY <1>8, SMT DEF Emit,
       TypeOK, Places, Logged, Explained, Reason, NoHook
  <2>7. Overrun'
    BY <1>8, SMT DEF Emit,
       TypeOK, Places, Overrun
  <2> QED
    BY <2>1, <2>2, <2>3, <2>4, <2>5, <2>6, <2>7
<1>9. ASSUME NEW w \in Workers, PollEmissions(w) PROVE IInv'
  <2>1. TypeOK'
    BY <1>9, SMT DEF PollEmissions,
       TypeOK, Places, Before, Polled, Settled, Ending, Held, PCs, Reason, NoHook
  <2>2. Places'
    BY <1>9, SMT DEF PollEmissions,
       TypeOK, Places, Before, Polled, Settled, Ending, Held, PCs, Start, Poll, Last
  <2>3. Held'
    BY <1>9, SMT DEF PollEmissions,
       TypeOK, Places, Before, Polled, Settled, Ending, Held
  <2>4. Counted'
    <3> DEFINE b == job[w]
    <3>1. b \in Polling /\ b \in Builders /\ Settled(w)
      BY <1>9 DEF PollEmissions, TypeOK, Settled
    <3>2. /\ reported' = [reported EXCEPT ![b] = emitted[b]]
          /\ selfReported' = [selfReported EXCEPT ![w] = emitted[b]]
          /\ produced' = [produced EXCEPT ![w] = emitted[b] - reported[b]]
          /\ charged[b] <= reported[b] /\ (~tripped => charged[b] = reported[b])
      <4>1. /\ reported[b] \in Nat /\ emitted[b] \in Nat /\ reported[b] <= emitted[b]
            /\ selfReported[w] = reported[b] /\ charged[b] \in Nat
            /\ charged[b] <= reported[b] /\ (~tripped => charged[b] = reported[b])
        BY <3>1 DEF TypeOK, Counted, Even
      <4>2. selfReported[w] + (emitted[b] - reported[b]) = emitted[b]
        BY <4>1
      <4>3. (IF emitted[b] > reported[b] THEN emitted[b] - reported[b] ELSE 0)
               = emitted[b] - reported[b]
        BY <4>1
      <4> QED
        BY <1>9, <4>1, <4>2, <4>3 DEF PollEmissions
    <3>3. Polled(w)'
      BY <1>9 DEF PollEmissions, TypeOK, Polled, Poll
    <3>4. \A c \in Builders : /\ reported'[c] <= emitted'[c]
                              /\ charged'[c] <= emitted'[c]
                              /\ c \notin Polling => reported'[c] = 0
                              /\ below'[c] # None => charged'[below'[c]] = 0
      BY <1>9, <3>1, <3>2, SMT DEF PollEmissions, TypeOK, Counted
    <3>5. \A c \in queue' : emitted'[c] = 0 /\ reported'[c] = 0 /\ charged'[c] = 0
      BY <1>9, <3>1, <3>2, SMT DEF PollEmissions, TypeOK, Counted, Held
    <3>6. (Even(b, produced[w]) /\ selfReported[w] = reported[b])'
      BY <1>9, <3>1, <3>2, SMT DEF PollEmissions, TypeOK, Even
    <3>7. ASSUME NEW v \in Workers, v # w
          PROVE  /\ Before(v)' => Before(v) /\ job[v] # b
                 /\ Polled(v)' => Polled(v) /\ job[v] # b
                 /\ Settled(v)' => Settled(v) /\ job[v] # b
                 /\ Ending(v)' => Ending(v) /\ job[v] # b
      BY <1>9, <3>1, <3>7, SMT DEF PollEmissions, TypeOK, Held, Before, Polled, Settled, Ending
    <3>8. ~ Before(w)' /\ ~ Settled(w)' /\ ~ Ending(w)'
      BY <1>9 DEF PollEmissions, TypeOK, Before, Settled, Ending, Start, Poll, Last
    <3>9. ASSUME NEW v \in Workers, v # w
          PROVE  /\ selfReported'[v] = selfReported[v] /\ produced'[v] = produced[v]
                 /\ job'[v] = job[v] /\ tripped' = tripped /\ charged' = charged
                 /\ emitted' = emitted /\ below' = below
                 /\ job[v] # b => reported'[job[v]] = reported[job[v]]
      BY <1>9, <3>1, <3>2, <3>9, SMT DEF PollEmissions, TypeOK
    <3>10. ASSUME NEW v \in Workers
           PROVE (/\ Before(v) => /\ emitted[job[v]] = 0 /\ reported[job[v]] = 0 /\ charged[job[v]] = 0
                                  /\ below[job[v]] # None => selfReported[v] = 0
                  /\ Polled(v)  => Even(job[v], produced[v]) /\ selfReported[v] = reported[job[v]]
                  /\ Settled(v) => Even(job[v], 0) /\ selfReported[v] = reported[job[v]]
                  /\ Ending(v)  => /\ selfReported[v] = 0
                                   /\ ~tripped => charged[job[v]] = emitted[job[v]])'
      <4>1. CASE v = w
        <5>1. job'[w] = b
          BY <1>9 DEF PollEmissions
        <5> QED
          BY <4>1, <5>1, <3>6, <3>8 DEF Even
      <4>2. CASE v # w
        <5>1. /\ selfReported'[v] = selfReported[v] /\ produced'[v] = produced[v]
              /\ job'[v] = job[v] /\ tripped' = tripped /\ charged' = charged
              /\ emitted' = emitted /\ below' = below
              /\ job[v] # b => reported'[job[v]] = reported[job[v]]
          BY <4>2, <3>9
        <5>2. CASE Before(v)'
          BY <4>2, <3>7, <5>1, <5>2 DEF Counted, Before, Polled, Settled, Ending, Start, Poll, Last
        <5>3. CASE Polled(v)'
          BY <4>2, <3>7, <5>1, <5>3 DEF Counted, Even, Before, Polled, Settled, Ending, Start, Poll, Last
        <5>4. CASE Settled(v)'
          BY <4>2, <3>7, <5>1, <5>4 DEF Counted, Even, Before, Polled, Settled, Ending, Start, Poll, Last
        <5>5. CASE Ending(v)'
          BY <4>2, <3>7, <5>1, <5>5 DEF Counted, Before, Polled, Settled, Ending, Start, Poll, Last
        <5> QED
          BY <5>2, <5>3, <5>4, <5>5
      <4> QED
        BY <4>1, <4>2
    <3> QED
      BY <3>4, <3>5, <3>10 DEF Counted
  <2>5. Released'
    BY <1>9, SMT DEF PollEmissions,
       TypeOK, Places, Before, Polled, Settled, Ending, Held, Counted, Released, Gone, Even, Start, Poll, Last
  <2>6. Logged'
    BY <1>9, SMT DEF PollEmissions,
       TypeOK, Places, Logged, Explained, Reason, NoHook
  <2>7. Overrun'
    BY <1>9, SMT DEF PollEmissions,
       TypeOK, Places, Overrun
  <2> QED
    BY <2>1, <2>2, <2>3, <2>4, <2>5, <2>6, <2>7
<1>10. ASSUME NEW w \in Workers, AddProduced(w) PROVE IInv'
  <2>1. TypeOK'
    BY <1>10, SMT DEF AddProduced, Charge, Goto,
       TypeOK, Places, Before, Polled, Settled, Ending, Held, PCs, Reason, NoHook
  <2>2. Places'
    BY <1>10, SMT DEF AddProduced, Charge, Goto,
       TypeOK, Places, Before, Polled, Settled, Ending, Held, PCs, Start, Poll, Last
  <2>3. Held'
    BY <1>10, SMT DEF AddProduced, Charge, Goto,
       TypeOK, Places, Before, Polled, Settled, Ending, Held
  <2>4. Counted'
    BY <1>10, SMT DEF AddProduced, Charge, Goto,
       TypeOK, Places, Before, Polled, Settled, Ending, Held, Counted, Even, Start, Poll, Last
  <2>5. Released'
    BY <1>10, SMT DEF AddProduced, Charge, Goto,
       TypeOK, Places, Before, Polled, Settled, Ending, Held, Counted, Released, Gone, Even, Start, Poll, Last
  <2>6. Logged'
    BY <1>10, SMT DEF AddProduced, Charge, Goto,
       TypeOK, Places, Logged, Explained, Reason, NoHook
  <2>7. Overrun'
    BY <1>10, SMT DEF AddProduced, Charge, Goto,
       TypeOK, Places, Overrun
  <2> QED
    BY <2>1, <2>2, <2>3, <2>4, <2>5, <2>6, <2>7
<1>11. ASSUME NEW w \in Workers, Return(w) PROVE IInv'
  <2>1. TypeOK'
    BY <1>11, SMT DEF Return, Goto,
       TypeOK, Places, Before, Polled, Settled, Ending, Held, PCs, Reason, NoHook
  <2>2. Places'
    BY <1>11, SMT DEF Return, Goto,
       TypeOK, Places, Before, Polled, Settled, Ending, Held, PCs, Start, Poll, Last
  <2>3. Held'
    BY <1>11, SMT DEF Return, Goto,
       TypeOK, Places, Before, Polled, Settled, Ending, Held
  <2>4. Counted'
    BY <1>11, SMT DEF Return, Goto,
       TypeOK, Places, Before, Polled, Settled, Ending, Held, Counted, Even, Start, Poll, Last
  <2>5. Released'
    BY <1>11, SMT DEF Return, Goto,
       TypeOK, Places, Before, Polled, Settled, Ending, Held, Counted, Released, Gone, Even, Start, Poll, Last
  <2>6. Logged'
    BY <1>11, SMT DEF Return, Goto,
       TypeOK, Places, Logged, Explained, Reason, NoHook
  <2>7. Overrun'
    BY <1>11, SMT DEF Return, Goto,
       TypeOK, Places, Overrun
  <2> QED
    BY <2>1, <2>2, <2>3, <2>4, <2>5, <2>6, <2>7
<1>12. ASSUME NEW w \in Workers, ChargeRemaining(w) PROVE IInv'
  <2>1. TypeOK'
    BY <1>12, SMT DEF ChargeRemaining, Charge, Leave, Goto,
       TypeOK, Places, Before, Polled, Settled, Ending, Held, PCs, Reason, NoHook
  <2>2. Places'
    BY <1>12, SMT DEF ChargeRemaining, Charge, Leave, Goto,
       TypeOK, Places, Before, Polled, Settled, Ending, Held, PCs, Start, Poll, Last
  <2>3. Held'
    BY <1>12, SMT DEF ChargeRemaining, Charge, Leave, Goto,
       TypeOK, Places, Before, Polled, Settled, Ending, Held
  <2>4. Counted'
    BY <1>12, SMT DEF ChargeRemaining, Charge, Leave, Goto,
       TypeOK, Places, Before, Polled, Settled, Ending, Held, Counted, Even, Start, Poll, Last
  <2>5. Released'
    BY <1>12, SMT DEF ChargeRemaining, Charge, Leave, Goto,
       TypeOK, Places, Before, Polled, Settled, Ending, Held, Counted, Released, Gone, Even, Start, Poll, Last
  <2>6. Logged'
    BY <1>12, SMT DEF ChargeRemaining, Charge, Leave, Goto,
       TypeOK, Places, Logged, Explained, Reason, NoHook
  <2>7. Overrun'
    BY <1>12, SMT DEF ChargeRemaining, Charge, Leave, Goto,
       TypeOK, Places, Overrun
  <2> QED
    BY <2>1, <2>2, <2>3, <2>4, <2>5, <2>6, <2>7
<1>13. CASE Cancel
  <2>1. TypeOK'
    BY <1>13, SMT DEF Cancel,
       TypeOK, Places, Before, Polled, Settled, Ending, Held, PCs, Reason, NoHook
  <2>2. Places'
    BY <1>13, SMT DEF Cancel,
       TypeOK, Places, Before, Polled, Settled, Ending, Held, PCs, Start, Poll, Last
  <2>3. Held'
    BY <1>13, SMT DEF Cancel,
       TypeOK, Places, Before, Polled, Settled, Ending, Held
  <2>4. Counted'
    BY <1>13, SMT DEF Cancel,
       TypeOK, Places, Before, Polled, Settled, Ending, Held, Counted, Even, Start, Poll, Last
  <2>5. Released'
    BY <1>13, SMT DEF Cancel,
       TypeOK, Places, Before, Polled, Settled, Ending, Held, Counted, Released, Gone, Even, Start, Poll, Last
  <2>6. Logged'
    BY <1>13, SMT DEF Cancel,
       TypeOK, Places, Logged, Explained, Reason, NoHook
  <2>7. Overrun'
    BY <1>13, SMT DEF Cancel,
       TypeOK, Places, Overrun
  <2> QED
    BY <2>1, <2>2, <2>3, <2>4, <2>5, <2>6, <2>7
<1>14. CASE Expire
  <2>1. TypeOK'
    BY <1>14, SMT DEF Expire,
       TypeOK, Places, Before, Polled, Settled, Ending, Held, PCs, Reason, NoHook
  <2>2. Places'
    BY <1>14, SMT DEF Expire,
       TypeOK, Places, Before, Polled, Settled, Ending, Held, PCs, Start, Poll, Last
  <2>3. Held'
    BY <1>14, SMT DEF Expire,
       TypeOK, Places, Before, Polled, Settled, Ending, Held
  <2>4. Counted'
    BY <1>14, SMT DEF Expire,
       TypeOK, Places, Before, Polled, Settled, Ending, Held, Counted, Even, Start, Poll, Last
  <2>5. Released'
    BY <1>14, SMT DEF Expire,
       TypeOK, Places, Before, Polled, Settled, Ending, Held, Counted, Released, Gone, Even, Start, Poll, Last
  <2>6. Logged'
    BY <1>14, SMT DEF Expire,
       TypeOK, Places, Logged, Explained, Reason, NoHook
  <2>7. Overrun'
    BY <1>14, SMT DEF Expire,
       TypeOK, Places, Overrun
  <2> QED
    BY <2>1, <2>2, <2>3, <2>4, <2>5, <2>6, <2>7
<1>15. CASE UNCHANGED vars
  <2>1. TypeOK' /\ Places' /\ Held' /\ Overrun' /\ Logged'
    BY <1>15 DEF TypeOK, Places, Before, Polled, Settled, Ending, Held, Overrun, Logged, Explained
  <2>2. Counted' /\ Released'
    BY <1>15 DEF Counted, Released, Gone, Even, Before, Polled, Settled, Ending
  <2> QED
    BY <2>1, <2>2
<1> QED
  BY <1>1, <1>2, <1>3, <1>4, <1>5, <1>6, <1>7,
     <1>8, <1>9, <1>10, <1>11, <1>12, <1>13, <1>14, <1>15 DEF Next, Step, Finished

LEMMA Invariance == Spec => []IInv
  BY InvInit, InvNext, PTL DEF Spec

\* The state keeps its types.
THEOREM TypeCorrect == Spec => []TypeOK
<1>1. IInv => TypeOK
  BY DEF IInv
<1> QED
  BY <1>1, Invariance, PTL

\* No worker can see a stop whose reason is not in the log yet.
THEOREM StopExplained == Spec => []StopIsExplained
<1>1. IInv => StopIsExplained
  BY DEF IInv, Logged, Explained, StopIsExplained
<1> QED
  BY <1>1, Invariance, PTL

\* However many workers race through `check`, each passes at most one after
\* the stop.
THEOREM Late == Spec => []LateAtMostOnce
<1>1. IInv => LateAtMostOnce
  BY DEF IInv, Overrun, LateAtMostOnce
<1> QED
  BY <1>1, Invariance, PTL

\* Whatever a worker steals while its builder waits, no edge of any builder
\* is charged twice.
THEOREM ChargedAtMostOnce == Spec => []NeverChargedTwice
<1>1. IInv => NeverChargedTwice
  BY DEF IInv, Counted, NeverChargedTwice
<1> QED
  BY <1>1, Invariance, PTL

\* When the workers are done and nothing stopped the run, every edge has been
\* charged exactly once.
THEOREM FullCharge == Spec => []ChargedInFull
<1>1. IInv => ChargedInFull
  <2> SUFFICES ASSUME IInv, AllDone, ~tripped, NEW b \in Builders
               PROVE  charged[b] = emitted[b]
    BY DEF ChargedInFull
  <2>1. Gone(b)
    <3>1. \A w \in Workers : job[w] = None
      BY DEF IInv, Places, AllDone
    <3>2. \A c \in Builders : below[c] = None
      BY <3>1, BuilderKinds DEF IInv, Held
    <3> QED
      BY <3>1, <3>2, BuilderKinds DEF Gone, AllDone
  <2> QED
    BY <2>1 DEF IInv, Released
<1> QED
  BY <1>1, Invariance, PTL

\* No edge is charged twice, and none is forgotten by a run nothing stopped.
THEOREM EdgeChargedOnce == Spec => []ChargedOnce
<1>1. NeverChargedTwice /\ ChargedInFull => ChargedOnce
  BY DEF ChargedOnce
<1> QED
  BY <1>1, ChargedAtMostOnce, FullCharge, PTL

\* When the workers are done, what was left out is in the log.
THEOREM TruncationLogged == Spec => []NoSilentTruncation
<1>1. IInv => NoSilentTruncation
  BY DEF IInv, Logged, AllDone, NoSilentTruncation
<1> QED
  BY <1>1, Invariance, PTL

=============================================================================
