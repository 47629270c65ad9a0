------------------------- MODULE HookLandingProofs -------------------------
(***************************************************************************)
(* What HookLanding promises for any sessions, lines and hooks, hooks      *)
(* killed anywhere, any number of commits: the state is well typed; no     *)
(* hook takes what another session had taken; what was taken and lies on   *)
(* the branch is answered when its hook ends, unless that hook is killed   *)
(* or git does not read the range; what a line in the foreground made is   *)
(* taken when its hook is done; and, in a session with one tool call in    *)
(* flight, a record that waits is not lost to the hooks that read and      *)
(* write the file it is in, and what it holds is taken by the next hook,   *)
(* or forgotten out of reach of the line that was reviewed instead.        *)
(***************************************************************************)
EXTENDS HookLanding, WellFoundedInduction, TLAPS

Of(s) == {l \in Lines : Session[l] = s}

\* The commits, the reflog and the claims.
Recorded ==
    /\ parents \in Seq(Nat) /\ head \in 0 .. Len(parents)
    /\ \A c \in 1 .. Len(parents) : parents[c] \in 0 .. c - 1
    /\ log \in Seq([old : Nat, new : Nat, act : Actions])
    /\ \A i \in 1 .. Len(log) : log[i].old <= Len(parents) /\ log[i].new <= Len(parents)
    /\ claim \in Seq(Sessions \union {None})

\* What was noted of them before a line.
Noted ==
    /\ before \in [Lines -> [head : Nat, from : Nat]]
    /\ \A l \in Lines : before[l].head <= Len(parents) /\ before[l].from <= Len(log)

\* Where the lines and the hooks are.
Placed ==
    /\ stage \in [Lines -> {"new", "asked", "runs", "over"}]
    /\ posted \subseteq Lines /\ filed \subseteq Lines /\ old \subseteq Lines
    /\ idle \subseteq Sessions
    /\ pc \in [Hooks -> {"idle", "head", "log", "record", "claim", "forget", "unpend",
                         "keep", "pend", "pending", "late", "lateclaim"}]
    /\ fate \in [Lines -> {"none", "kept", "taken", "forgotten", "aged", "killed"}]

\* What the hooks hold and the files are.
Shaped ==
    /\ DOMAIN mine = Hooks /\ mine = [h \in Hooks |-> mine[h]]
    /\ job \in [Hooks -> [session : Sessions \union {None}, line : Lines \union {None}]]
    /\ pending \in [Sessions -> SUBSET Lines]
    /\ view \in [Hooks -> SUBSET Lines]
    /\ todo \in [Hooks -> SUBSET Lines] /\ wait \in [Hooks -> SUBSET Lines]

\* A hook that runs has a session, and what it holds is that session's.
Own ==
    /\ \A s \in Sessions : pending[s] \subseteq Of(s)
    /\ \A h \in Hooks :
         /\ pc[h] = "idle" <=> job[h].session = None
         /\ job[h].line # None => Session[job[h].line] = job[h].session
         /\ pc[h] \in {"head", "log", "record", "claim", "keep", "pend"} => job[h].line # None
         /\ view[h] \subseteq Of(job[h].session) /\ todo[h] \subseteq Of(job[h].session)
         /\ wait[h] \subseteq Of(job[h].session)

\* A hook that looks at what waits looks at what it read of the file.
Looking ==
    \A h \in Hooks :
        /\ pc[h] \in {"late", "lateclaim"} => todo[h] \subseteq view[h]
        /\ pc[h] = "lateclaim" => mine[h].line \in view[h]

IInv == Recorded /\ Noted /\ Placed /\ Shaped /\ Own /\ Looking

-----------------------------------------------------------------------------
(* Types.                                                                  *)

LEMMA Element == ASSUME NEW S, NEW q \in Seq(S), NEW i \in 1 .. Len(q) PROVE q[i] \in S
OBVIOUS

LEMMA Appended ==
    ASSUME NEW S, NEW q \in Seq(S), NEW e \in S, NEW r, r = Append(q, e)
    PROVE  /\ r \in Seq(S) /\ Len(r) = Len(q) + 1 /\ Len(q) \in Nat
           /\ \A i \in 1 .. Len(r) : r[i] = IF i <= Len(q) THEN q[i] ELSE e
OBVIOUS

LEMMA MineStays ==
    ASSUME Shaped, NEW h \in Hooks, NEW x, mine' = [mine EXCEPT ![h] = x]
    PROVE  DOMAIN mine' = Hooks /\ mine' = [k \in Hooks |-> mine'[k]]
BY DEF Shaped

LEMMA EndedShape ==
    ASSUME Shaped, NEW h \in Hooks, Ended(h)
    PROVE  /\ DOMAIN mine' = Hooks /\ mine' = [k \in Hooks |-> mine'[k]]
           /\ job' \in [Hooks -> [session : Sessions \union {None}, line : Lines \union {None}]]
           /\ view' \in [Hooks -> SUBSET Lines] /\ todo' \in [Hooks -> SUBSET Lines]
           /\ wait' \in [Hooks -> SUBSET Lines]
<1> USE DEF Shaped, Ended
<1>1. DOMAIN mine' = Hooks /\ mine' = [k \in Hooks |-> mine'[k]]
    OBVIOUS
<1>2. NoJob \in [session : Sessions \union {None}, line : Lines \union {None}]
    BY DEF NoJob
<1>3. job' \in [Hooks -> [session : Sessions \union {None}, line : Lines \union {None}]]
    BY <1>2
<1>4. QED
    BY <1>1, <1>3

LEMMA IsTypeOK == IInv => TypeOK
<1> SUFFICES ASSUME IInv PROVE TypeOK
    OBVIOUS
<1> USE Constants DEF IInv
<1>0. /\ Len(parents) \in Nat /\ DOMAIN parents = 1 .. Len(parents)
      /\ Len(log) \in Nat /\ DOMAIN log = 1 .. Len(log)
  <2>1. parents \in Seq(Nat)
    BY DEF Recorded
  <2>2. log \in Seq([old : Nat, new : Nat, act : Actions])
    BY DEF Recorded
  <2>3. QED
    BY <2>1, <2>2
<1>1. /\ parents \in Seq(Nat) /\ head \in Commits
      /\ \A c \in DOMAIN parents : parents[c] < c
    BY <1>0 DEF Recorded, Commits
<1>2. ASSUME NEW i \in DOMAIN log
      PROVE  log[i].old \in Commits /\ log[i].new \in Commits /\ log[i].act \in Actions
  <2>1. i \in 1 .. Len(log) /\ log[i] \in [old : Nat, new : Nat, act : Actions]
    <3>1. log \in Seq([old : Nat, new : Nat, act : Actions])
      BY DEF Recorded
    <3>2. QED
      BY <1>0, <3>1, Element
  <2>2. QED
    BY <1>0, <2>1 DEF Recorded, Commits
<1>3. ASSUME NEW l \in Lines
      PROVE  before[l].head \in Commits /\ before[l].from \in 0 .. Len(log)
    BY <1>0 DEF Noted, Commits
<1>4. \A c \in DOMAIN claim : claim[c] \in Sessions \union {None}
    BY DEF Recorded
<1>5. \A s \in Sessions : pending[s] \subseteq {l \in Lines : Session[l] = s}
    BY DEF Own, Of
<1>6. \A h \in Hooks : pc[h] # "idle" => job[h].session \in Sessions
    BY DEF Own, Shaped
<1>7. QED
    BY <1>1, <1>2, <1>3, <1>4, <1>5, <1>6 DEF TypeOK, Placed

\* What a hook reads of the pending file is its session's.
LEMMA FreshIsOwn ==
    IInv => \A h \in Hooks : pc[h] # "idle" =>
                /\ job[h].session \in Sessions
                /\ Fresh(job[h].session) \subseteq Of(job[h].session)
                /\ Fresh(job[h].session) \in SUBSET Lines
BY Constants DEF IInv, Own, Shaped, Fresh, Of

LEMMA ClaimsStay ==
    ASSUME NEW h, claim \in Seq(Sessions \union {None}), job[h].session \in Sessions, Claim(h)
    PROVE  claim' \in Seq(Sessions \union {None})
<1>1. DOMAIN claim = 1 .. Len(claim) /\ Len(claim) \in Nat
    OBVIOUS
<1>2. claim' = [c \in 1 .. Len(claim) |->
                    IF c \in mine[h].commits THEN job[h].session ELSE claim[c]]
    BY <1>1 DEF Claim
<1>3. claim' \in [1 .. Len(claim) -> Sessions \union {None}]
    BY <1>2
<1>4. QED
    BY <1>1, <1>3

LEMMA InitTyped == Init => IInv
    BY Constants DEF Init, IInv, Recorded, Noted, Placed, Shaped, Own, Looking, Of, NoJob, Nothing

LEMMA RecordedNext == IInv /\ [Next]_vars => Recorded'
<1> SUFFICES ASSUME IInv, [Next]_vars PROVE Recorded'
    OBVIOUS
<1> USE Constants
    DEF IInv, Recorded, Shaped, Own, git, lines, files, hook, counts, history
<1>1. ASSUME NEW h \in Hooks, NEW l \in Lines, Ask(h, l) PROVE Recorded'
    BY <1>1 DEF Ask, Start
<1>2. ASSUME NEW h \in Hooks, NEW l \in Lines, Tell(h, l) PROVE Recorded'
    BY <1>2 DEF Tell, Start
<1>3. ASSUME NEW h \in Hooks, NEW s \in Sessions, Event(h, s) PROVE Recorded'
    BY <1>3 DEF Event, Start
<1>4. ASSUME NEW h \in Hooks, ReadHead(h) PROVE Recorded'
    BY <1>4 DEF ReadHead, Goto
<1>5. ASSUME NEW h \in Hooks, ReadLog(h) PROVE Recorded'
    BY <1>5 DEF ReadLog, Goto
<1>6. ASSUME NEW h \in Hooks, Scan(h) PROVE Recorded'
    BY <1>6 DEF Scan, Goto
<1>7. ASSUME NEW h \in Hooks, ClaimOwn(h) PROVE Recorded'
  <2>1. job[h].session \in Sessions
    BY <1>7, FreshIsOwn DEF ClaimOwn
  <2>2. claim' \in Seq(Sessions \union {None})
    BY <1>7, <2>1, ClaimsStay DEF ClaimOwn
  <2>3. QED
    BY <1>7, <2>2 DEF ClaimOwn
<1>8. ASSUME NEW h \in Hooks, Forget(h) PROVE Recorded'
    BY <1>8 DEF Forget, Goto, Fresh
<1>9. ASSUME NEW h \in Hooks, Unpend(h) PROVE Recorded'
    BY <1>9 DEF Unpend, Put, Goto
<1>10. ASSUME NEW h \in Hooks, Keep(h) PROVE Recorded'
    BY <1>10 DEF Keep, Goto, Fresh
<1>11. ASSUME NEW h \in Hooks, Pend(h) PROVE Recorded'
    BY <1>11 DEF Pend, Put, Goto
<1>12. ASSUME NEW h \in Hooks, ReadPending(h) PROVE Recorded'
    BY <1>12 DEF ReadPending, Leave, Ended, Goto, Fresh
<1>13. ASSUME NEW h \in Hooks, Late(h) PROVE Recorded'
    BY <1>13 DEF Late, Goto, Landed
<1>14. ASSUME NEW h \in Hooks, ClaimLate(h) PROVE Recorded'
  <2>1. job[h].session \in Sessions
    BY <1>14, FreshIsOwn DEF ClaimLate
  <2>2. claim' \in Seq(Sessions \union {None})
    BY <1>14, <2>1, ClaimsStay DEF ClaimLate
  <2>3. QED
    BY <1>14, <2>2 DEF ClaimLate
<1>15. ASSUME NEW h \in Hooks, Store(h) PROVE Recorded'
    BY <1>15 DEF Store, Put, Leave, Ended
<1>16. ASSUME NEW h \in Hooks, Kill(h) PROVE Recorded'
    BY <1>16 DEF Kill, Leave, Ended
<1>17. ASSUME NEW l \in Lines, Commit(l) PROVE Recorded'
  <2>1. PICK act \in Verbs[l] \ {"reset"} :
           /\ act = "amend" => head # 0
           /\ parents' = Append(parents, IF act = "amend" THEN parents[head] ELSE head)
           /\ head' = Len(parents) + 1
           /\ log' = Append(log, [old |-> head, new |-> Len(parents) + 1, act |-> act])
    BY <1>17 DEF Commit
  <2>2. claim' = Append(claim, None)
    BY <1>17 DEF Commit
  <2>3. act \in Actions
    BY <2>1 DEF Actions
  <2> DEFINE p == IF act = "amend" THEN parents[head] ELSE head
             e == [old |-> head, new |-> Len(parents) + 1, act |-> act]
  <2>4. p \in 0 .. Len(parents) /\ parents' = Append(parents, p)
    <3>1. act = "amend" => parents[head] \in 0 .. Len(parents)
      BY <2>1
    <3>2. QED
      BY <2>1, <3>1
  <2>7. /\ e \in [old : Nat, new : Nat, act : Actions] /\ log' = Append(log, e)
         /\ e.old <= Len(parents) /\ e.new = Len(parents) + 1
    BY <2>1, <2>3
  <2> HIDE DEF p, e
  <2>5. parents' \in Seq(Nat) /\ Len(parents') = Len(parents) + 1 /\ head' \in 0 .. Len(parents')
    BY <2>1, <2>4
  <2>6. \A c \in 1 .. Len(parents') : parents'[c] \in 0 .. c - 1
    BY <2>4
  <2>8. log' \in Seq([old : Nat, new : Nat, act : Actions]) /\ Len(log') = Len(log) + 1
    BY <2>7
  <2>9. \A i \in 1 .. Len(log') : log'[i].old <= Len(parents') /\ log'[i].new <= Len(parents')
    <3>1. \A i \in 1 .. Len(log') : log'[i] = IF i <= Len(log) THEN log[i] ELSE e
      BY <2>7, Appended DEF Recorded
    <3>2. Len(parents') = Len(parents) + 1 /\ Len(parents) \in Nat /\ Len(log) \in Nat
      BY <2>5
    <3>3. ASSUME NEW i \in 1 .. Len(log')
          PROVE  log'[i].old <= Len(parents') /\ log'[i].new <= Len(parents')
      <4>1. CASE i <= Len(log)
        <5>1. i \in 1 .. Len(log)
          BY <4>1, <3>2
        <5>2. log[i] \in [old : Nat, new : Nat, act : Actions]
          BY <5>1, Element DEF Recorded
        <5>3. log[i].old <= Len(parents) /\ log[i].new <= Len(parents)
          BY <5>1 DEF Recorded
        <5>4. log'[i] = log[i]
          BY <3>1, <4>1
        <5>5. log[i].old \in Nat /\ log[i].new \in Nat
          BY <5>2
        <5> HIDE Constants DEF IInv, Recorded, Shaped, Own
        <5>6. log[i].old <= Len(parents') /\ log[i].new <= Len(parents')
          BY <3>2, <5>3, <5>5
        <5>7. QED
          BY <5>4, <5>6
      <4>2. CASE ~(i <= Len(log))
        <5>1. log'[i] = e
          BY <3>1, <4>2
        <5> HIDE Constants DEF IInv, Recorded, Shaped, Own
        <5>2. QED
          BY <3>2, <5>1, <2>7
      <4>3. QED
        BY <4>1, <4>2
    <3>4. QED
      BY <3>3
  <2>10. claim' \in Seq(Sessions \union {None})
    BY <2>2
  <2>11. QED
    BY <2>5, <2>6, <2>8, <2>9, <2>10
<1>18. ASSUME NEW l \in Lines, Reset(l) PROVE Recorded'
  <2>1. /\ head # 0 /\ head' = parents[head] /\ UNCHANGED <<parents, claim>>
        /\ log' = Append(log, [old |-> head, new |-> parents[head], act |-> "reset"])
    BY <1>18 DEF Reset
  <2>2. parents[head] \in 0 .. Len(parents)
    BY <2>1
  <2> DEFINE e == [old |-> head, new |-> parents[head], act |-> "reset"]
  <2>3. /\ e \in [old : Nat, new : Nat, act : Actions] /\ log' = Append(log, e)
        /\ e.old <= Len(parents) /\ e.new <= Len(parents)
    BY <2>1, <2>2 DEF Actions
  <2> HIDE DEF e
  <2>4. log' \in Seq([old : Nat, new : Nat, act : Actions])
    BY <2>3
  <2>5. \A i \in 1 .. Len(log') : log'[i].old <= Len(parents) /\ log'[i].new <= Len(parents)
    BY <2>3
  <2>6. QED
    BY <2>1, <2>2, <2>4, <2>5
<1>19. ASSUME NEW l \in Lines, Age(l) PROVE Recorded'
    BY <1>19 DEF Age
<1>20. ASSUME NEW s \in Sessions, Stale(s) PROVE Recorded'
    BY <1>20 DEF Stale
<1>21. CASE UNCHANGED vars
    BY <1>21 DEF vars
<1>22. QED
    BY <1>1, <1>2, <1>3, <1>4, <1>5, <1>6, <1>7, <1>8, <1>9, <1>10, <1>11, <1>12, <1>13, <1>14, <1>15, <1>16, <1>17, <1>18, <1>19, <1>20, <1>21 DEF Next

LEMMA NotedNext == IInv /\ [Next]_vars => Noted'
<1> SUFFICES ASSUME IInv, [Next]_vars PROVE Noted'
    OBVIOUS
<1> USE Constants
    DEF IInv, Recorded, Noted, Shaped, Own, git, lines, files, hook, counts, history
<1>1. ASSUME NEW h \in Hooks, NEW l \in Lines, Ask(h, l) PROVE Noted'
    BY <1>1 DEF Ask, Start
<1>2. ASSUME NEW h \in Hooks, NEW l \in Lines, Tell(h, l) PROVE Noted'
    BY <1>2 DEF Tell, Start
<1>3. ASSUME NEW h \in Hooks, NEW s \in Sessions, Event(h, s) PROVE Noted'
    BY <1>3 DEF Event, Start
<1>4. ASSUME NEW h \in Hooks, ReadHead(h) PROVE Noted'
  <2>1. job[h].line \in Lines /\ head \in Nat /\ Len(log) \in Nat /\ UNCHANGED <<parents, log>>
    BY <1>4 DEF ReadHead
  <2> DEFINE l == job[h].line
  <2>2. before' = [before EXCEPT ![l] = [before[l] EXCEPT !.head = head]]
    BY <1>4 DEF ReadHead
  <2>3. [before[l] EXCEPT !.head = head] \in [head : Nat, from : Nat]
    <3>1. before[l] \in [head : Nat, from : Nat]
      BY <2>1
    <3>2. QED
      BY <2>1, <3>1
  <2>4. before' \in [Lines -> [head : Nat, from : Nat]]
    BY <2>2, <2>3
  <2>5. QED
    BY <2>1, <2>2, <2>3, <2>4
<1>5. ASSUME NEW h \in Hooks, ReadLog(h) PROVE Noted'
  <2>1. job[h].line \in Lines /\ head \in Nat /\ Len(log) \in Nat /\ UNCHANGED <<parents, log>>
    BY <1>5 DEF ReadLog
  <2> DEFINE l == job[h].line
  <2>2. before' = [before EXCEPT ![l] = [before[l] EXCEPT !.from = Len(log)]]
    BY <1>5 DEF ReadLog
  <2>3. [before[l] EXCEPT !.from = Len(log)] \in [head : Nat, from : Nat]
    <3>1. before[l] \in [head : Nat, from : Nat]
      BY <2>1
    <3>2. QED
      BY <2>1, <3>1
  <2>4. before' \in [Lines -> [head : Nat, from : Nat]]
    BY <2>2, <2>3
  <2>5. QED
    BY <2>1, <2>2, <2>3, <2>4
<1>6. ASSUME NEW h \in Hooks, Scan(h) PROVE Noted'
    BY <1>6 DEF Scan, Goto
<1>7. ASSUME NEW h \in Hooks, ClaimOwn(h) PROVE Noted'
    BY <1>7 DEF ClaimOwn, Claim, Goto
<1>8. ASSUME NEW h \in Hooks, Forget(h) PROVE Noted'
    BY <1>8 DEF Forget, Goto, Fresh
<1>9. ASSUME NEW h \in Hooks, Unpend(h) PROVE Noted'
    BY <1>9 DEF Unpend, Put, Goto
<1>10. ASSUME NEW h \in Hooks, Keep(h) PROVE Noted'
    BY <1>10 DEF Keep, Goto, Fresh
<1>11. ASSUME NEW h \in Hooks, Pend(h) PROVE Noted'
    BY <1>11 DEF Pend, Put, Goto
<1>12. ASSUME NEW h \in Hooks, ReadPending(h) PROVE Noted'
    BY <1>12 DEF ReadPending, Leave, Ended, Goto, Fresh
<1>13. ASSUME NEW h \in Hooks, Late(h) PROVE Noted'
    BY <1>13 DEF Late, Goto, Landed
<1>14. ASSUME NEW h \in Hooks, ClaimLate(h) PROVE Noted'
    BY <1>14 DEF ClaimLate, Claim, Goto
<1>15. ASSUME NEW h \in Hooks, Store(h) PROVE Noted'
    BY <1>15 DEF Store, Put, Leave, Ended
<1>16. ASSUME NEW h \in Hooks, Kill(h) PROVE Noted'
    BY <1>16 DEF Kill, Leave, Ended
<1>17. ASSUME NEW l \in Lines, Commit(l) PROVE Noted'
  <2>1. UNCHANGED before
    BY <1>17 DEF Commit
  <2>2. Len(parents) <= Len(parents') /\ Len(log) <= Len(log')
    <3>1. PICK act \in Verbs[l] \ {"reset"} :
             /\ parents' = Append(parents, IF act = "amend" THEN parents[head] ELSE head)
             /\ log' = Append(log, [old |-> head, new |-> Len(parents) + 1, act |-> act])
      BY <1>17 DEF Commit
    <3>2. parents \in Seq(Nat) /\ log \in Seq([old : Nat, new : Nat, act : Actions])
      BY DEF IInv, Recorded
    <3>3. Len(parents') = Len(parents) + 1 /\ Len(log') = Len(log) + 1
      BY <3>1, <3>2
    <3> QED
      BY <3>2, <3>3
  <2>3. Len(parents) \in Nat /\ Len(parents') \in Nat /\ Len(log) \in Nat /\ Len(log') \in Nat
    BY RecordedNext
  <2>4. QED
    BY <2>1, <2>2, <2>3
<1>18. ASSUME NEW l \in Lines, Reset(l) PROVE Noted'
  <2>1. UNCHANGED before
    BY <1>18 DEF Reset
  <2>2. Len(parents) <= Len(parents') /\ Len(log) <= Len(log')
    BY <1>18 DEF Reset
  <2>3. Len(parents) \in Nat /\ Len(parents') \in Nat /\ Len(log) \in Nat /\ Len(log') \in Nat
    BY RecordedNext
  <2>4. QED
    BY <2>1, <2>2, <2>3
<1>19. ASSUME NEW l \in Lines, Age(l) PROVE Noted'
    BY <1>19 DEF Age
<1>20. ASSUME NEW s \in Sessions, Stale(s) PROVE Noted'
    BY <1>20 DEF Stale
<1>21. CASE UNCHANGED vars
    BY <1>21 DEF vars
<1>22. QED
    BY <1>1, <1>2, <1>3, <1>4, <1>5, <1>6, <1>7, <1>8, <1>9, <1>10, <1>11, <1>12, <1>13, <1>14, <1>15, <1>16, <1>17, <1>18, <1>19, <1>20, <1>21 DEF Next

LEMMA PlacedNext == IInv /\ [Next]_vars => Placed'
<1> SUFFICES ASSUME IInv, [Next]_vars PROVE Placed'
    OBVIOUS
<1> USE Constants
    DEF IInv, Placed, Shaped, Own, git, lines, files, hook, counts, history
<1>1. ASSUME NEW h \in Hooks, NEW l \in Lines, Ask(h, l) PROVE Placed'
    BY <1>1 DEF Ask, Start
<1>2. ASSUME NEW h \in Hooks, NEW l \in Lines, Tell(h, l) PROVE Placed'
    BY <1>2 DEF Tell, Start
<1>3. ASSUME NEW h \in Hooks, NEW s \in Sessions, Event(h, s) PROVE Placed'
    BY <1>3 DEF Event, Start
<1>4. ASSUME NEW h \in Hooks, ReadHead(h) PROVE Placed'
    BY <1>4 DEF ReadHead, Goto
<1>5. ASSUME NEW h \in Hooks, ReadLog(h) PROVE Placed'
    BY <1>5 DEF ReadLog, Goto
<1>6. ASSUME NEW h \in Hooks, Scan(h) PROVE Placed'
    BY <1>6 DEF Scan, Goto
<1>7. ASSUME NEW h \in Hooks, ClaimOwn(h) PROVE Placed'
    BY <1>7 DEF ClaimOwn, Claim, Goto
<1>8. ASSUME NEW h \in Hooks, Forget(h) PROVE Placed'
    BY <1>8 DEF Forget, Goto, Fresh
<1>9. ASSUME NEW h \in Hooks, Unpend(h) PROVE Placed'
    BY <1>9 DEF Unpend, Put, Goto
<1>10. ASSUME NEW h \in Hooks, Keep(h) PROVE Placed'
    BY <1>10 DEF Keep, Goto, Fresh
<1>11. ASSUME NEW h \in Hooks, Pend(h) PROVE Placed'
    BY <1>11 DEF Pend, Put, Goto
<1>12. ASSUME NEW h \in Hooks, ReadPending(h) PROVE Placed'
  <2>1. CASE Fresh(job[h].session) = {}
    BY <1>12, <2>1 DEF ReadPending, Leave, Ended
  <2>2. CASE Fresh(job[h].session) # {}
    <3>1. /\ pc' = [pc EXCEPT ![h] = "late"] /\ UNCHANGED <<git, lines, files, job, mine, wait, fate>>
          /\ view' = [view EXCEPT ![h] = Fresh(job[h].session)]
          /\ todo' = [todo EXCEPT ![h] = Fresh(job[h].session)]
      BY <1>12, <2>2 DEF ReadPending, Goto
    <3>2. pc[h] = "pending"
      BY <1>12 DEF ReadPending
    <3>3. QED
      BY <3>1, <3>2, FreshIsOwn
  <2>3. QED
    BY <2>1, <2>2
<1>13. ASSUME NEW h \in Hooks, Late(h) PROVE Placed'
    BY <1>13, ZenonT(40) DEF Late, Goto, Landed
<1>14. ASSUME NEW h \in Hooks, ClaimLate(h) PROVE Placed'
  <2>1. pc' = [pc EXCEPT ![h] = "late"] /\ UNCHANGED <<stage, posted, filed, old, idle>>
    BY <1>14 DEF ClaimLate, Goto
  <2>2. fate' = fate \/ fate' = [fate EXCEPT ![mine[h].line] = "taken"]
    BY <1>14 DEF ClaimLate
  <2>3. Placed /\ pc[h] = "lateclaim"
    BY <1>14 DEF ClaimLate
  <2> HIDE DEF IInv, Shaped, Own
  <2>4. QED
    BY <2>1, <2>2, <2>3
<1>15. ASSUME NEW h \in Hooks, Store(h) PROVE Placed'
    BY <1>15 DEF Store, Put, Leave, Ended
<1>16. ASSUME NEW h \in Hooks, Kill(h) PROVE Placed'
    BY <1>16 DEF Kill, Leave, Ended
<1>17. ASSUME NEW l \in Lines, Commit(l) PROVE Placed'
    BY <1>17 DEF Commit
<1>18. ASSUME NEW l \in Lines, Reset(l) PROVE Placed'
    BY <1>18 DEF Reset
<1>19. ASSUME NEW l \in Lines, Age(l) PROVE Placed'
    BY <1>19 DEF Age
<1>20. ASSUME NEW s \in Sessions, Stale(s) PROVE Placed'
    BY <1>20 DEF Stale
<1>21. CASE UNCHANGED vars
    BY <1>21 DEF vars
<1>22. QED
    BY <1>1, <1>2, <1>3, <1>4, <1>5, <1>6, <1>7, <1>8, <1>9, <1>10, <1>11, <1>12, <1>13, <1>14, <1>15, <1>16, <1>17, <1>18, <1>19, <1>20, <1>21 DEF Next

LEMMA LandedLine ==
    ASSUME NEW l, Landed(l) # Nothing
    PROVE  Landed(l).line = l /\ Ours(l, claim) # {}
BY DEF Landed

LEMMA LookingNext == IInv /\ [Next]_vars => Looking'
<1> SUFFICES ASSUME IInv, [Next]_vars PROVE Looking'
    OBVIOUS
<1> USE Constants
    DEF IInv, Placed, Shaped, Looking, git, lines, files, hook, counts, history
<1>1. ASSUME NEW h \in Hooks, NEW l \in Lines, Ask(h, l) PROVE Looking'
    BY <1>1 DEF Ask, Start
<1>2. ASSUME NEW h \in Hooks, NEW l \in Lines, Tell(h, l) PROVE Looking'
    BY <1>2 DEF Tell, Start
<1>3. ASSUME NEW h \in Hooks, NEW s \in Sessions, Event(h, s) PROVE Looking'
    BY <1>3 DEF Event, Start
<1>4. ASSUME NEW h \in Hooks, ReadHead(h) PROVE Looking'
    BY <1>4 DEF ReadHead, Goto
<1>5. ASSUME NEW h \in Hooks, ReadLog(h) PROVE Looking'
    BY <1>5 DEF ReadLog, Goto
<1>6. ASSUME NEW h \in Hooks, Scan(h) PROVE Looking'
    BY <1>6 DEF Scan, Goto
<1>7. ASSUME NEW h \in Hooks, ClaimOwn(h) PROVE Looking'
    BY <1>7 DEF ClaimOwn, Goto
<1>8. ASSUME NEW h \in Hooks, Forget(h) PROVE Looking'
    BY <1>8 DEF Forget, Goto
<1>9. ASSUME NEW h \in Hooks, Unpend(h) PROVE Looking'
    BY <1>9 DEF Unpend, Put, Goto
<1>10. ASSUME NEW h \in Hooks, Keep(h) PROVE Looking'
    BY <1>10 DEF Keep, Goto
<1>11. ASSUME NEW h \in Hooks, Pend(h) PROVE Looking'
    BY <1>11 DEF Pend, Put, Goto
<1>12. ASSUME NEW h \in Hooks, ReadPending(h) PROVE Looking'
  <2>1. CASE Fresh(job[h].session) = {}
    <3>1. /\ pc' = [pc EXCEPT ![h] = "idle"] /\ mine' = [mine EXCEPT ![h] = Nothing]
          /\ view' = [view EXCEPT ![h] = {}] /\ todo' = [todo EXCEPT ![h] = {}]
      BY <1>12, <2>1 DEF ReadPending, Leave, Ended
    <3>2. QED
      BY <3>1
  <2>2. CASE Fresh(job[h].session) # {}
    BY <1>12, <2>2 DEF ReadPending, Goto
  <2>3. QED
    BY <2>1, <2>2
<1>13. ASSUME NEW h \in Hooks, Late(h) PROVE Looking'
  <2>1. PICK l \in todo[h] :
           /\ todo' = [todo EXCEPT ![h] = todo[h] \ {l}]
           /\ mine' = [mine EXCEPT ![h] = Landed(l)]
           /\ \/ mine'[h] # Nothing /\ pc' = [pc EXCEPT ![h] = "lateclaim"]
              \/ UNCHANGED pc
    BY <1>13 DEF Late, Goto
  <2>2. pc[h] = "late" /\ UNCHANGED view
    BY <1>13 DEF Late
  <2>3. Landed(l) # Nothing => Landed(l).line = l
    BY LandedLine
  <2>4. QED
    BY <2>1, <2>2, <2>3
<1>14. ASSUME NEW h \in Hooks, ClaimLate(h) PROVE Looking'
    BY <1>14 DEF ClaimLate, Goto
<1>15. ASSUME NEW h \in Hooks, Store(h) PROVE Looking'
    BY <1>15 DEF Store, Leave, Ended
<1>16. ASSUME NEW h \in Hooks, Kill(h) PROVE Looking'
    BY <1>16 DEF Kill, Leave, Ended
<1>17. ASSUME NEW l \in Lines, Commit(l) PROVE Looking'
    BY <1>17 DEF Commit
<1>18. ASSUME NEW l \in Lines, Reset(l) PROVE Looking'
    BY <1>18 DEF Reset
<1>19. ASSUME NEW l \in Lines, Age(l) PROVE Looking'
    BY <1>19 DEF Age
<1>20. ASSUME NEW s \in Sessions, Stale(s) PROVE Looking'
    BY <1>20 DEF Stale
<1>21. CASE UNCHANGED vars
    BY <1>21 DEF vars
<1>22. QED
    BY <1>1, <1>2, <1>3, <1>4, <1>5, <1>6, <1>7, <1>8, <1>9, <1>10, <1>11, <1>12, <1>13, <1>14, <1>15, <1>16, <1>17, <1>18, <1>19, <1>20, <1>21 DEF Next

\* The record a late claim is about.
LEMMA LateLine ==
    ASSUME IInv, NEW h \in Hooks, ClaimLate(h)
    PROVE  /\ mine[h].line \in view[h] /\ mine[h].line \in Of(job[h].session)
           /\ mine[h].line \in Lines
<1>1. mine[h].line \in view[h]
    BY DEF ClaimLate, IInv, Looking
<1>2. view[h] \subseteq Of(job[h].session)
    BY DEF IInv, Own
<1>3. QED
    BY <1>1, <1>2 DEF Of

\* What a late claim leaves: the record is done with, or waits on.
LEMMA ClaimedLate ==
    ASSUME IInv, NEW h \in Hooks, ClaimLate(h)
    PROVE  /\ pc[h] = "lateclaim" /\ pc' = [pc EXCEPT ![h] = "late"]
           /\ \/ wait' = wait
              \/ wait' = [wait EXCEPT ![h] = wait[h] \union ({mine[h].line} \ old)]
BY DEF ClaimLate, Goto, Prepared, Unreadable

LEMMA ShapedNext == IInv /\ [Next]_vars => Shaped'
<1> SUFFICES ASSUME IInv, [Next]_vars PROVE Shaped'
    OBVIOUS
<1> USE Constants
    DEF IInv, Placed, Shaped, Own, git, lines, files, hook, counts, history
<1>1. ASSUME NEW h \in Hooks, NEW l \in Lines, Ask(h, l) PROVE Shaped'
    BY <1>1 DEF Ask, Start
<1>2. ASSUME NEW h \in Hooks, NEW l \in Lines, Tell(h, l) PROVE Shaped'
    BY <1>2 DEF Tell, Start
<1>3. ASSUME NEW h \in Hooks, NEW s \in Sessions, Event(h, s) PROVE Shaped'
    BY <1>3 DEF Event, Start
<1>4. ASSUME NEW h \in Hooks, ReadHead(h) PROVE Shaped'
    BY <1>4 DEF ReadHead, Goto
<1>5. ASSUME NEW h \in Hooks, ReadLog(h) PROVE Shaped'
    BY <1>5 DEF ReadLog, Goto
<1>6. ASSUME NEW h \in Hooks, Scan(h) PROVE Shaped'
  <2>1. DOMAIN mine' = Hooks /\ mine' = [k \in Hooks |-> mine'[k]]
    <3> DEFINE x == IF job[h].line \in filed THEN Landed(job[h].line) ELSE Nothing
    <3>1. mine' = [mine EXCEPT ![h] = x]
      BY <1>6 DEF Scan
    <3> HIDE DEF x
    <3>2. QED
      BY <3>1, MineStays
  <2>2. QED
    BY <1>6, <2>1 DEF Scan, Goto
<1>7. ASSUME NEW h \in Hooks, ClaimOwn(h) PROVE Shaped'
    BY <1>7 DEF ClaimOwn, Claim, Goto
<1>8. ASSUME NEW h \in Hooks, Forget(h) PROVE Shaped'
  <2>1. Fresh(job[h].session) \in SUBSET Lines
    BY <1>8, FreshIsOwn DEF Forget
  <2>2. DOMAIN mine' = Hooks /\ mine' = [k \in Hooks |-> mine'[k]]
    BY <1>8, MineStays DEF Forget
  <2>3. QED
    BY <1>8, <2>1, <2>2 DEF Forget, Goto
<1>9. ASSUME NEW h \in Hooks, Unpend(h) PROVE Shaped'
    BY <1>9 DEF Unpend, Put, Goto
<1>10. ASSUME NEW h \in Hooks, Keep(h) PROVE Shaped'
  <2>1. Fresh(job[h].session) \subseteq Of(job[h].session) /\ Fresh(job[h].session) \in SUBSET Lines
    BY <1>10, FreshIsOwn DEF Keep
  <2>2. QED
    BY <1>10, <2>1 DEF Keep, Goto
<1>11. ASSUME NEW h \in Hooks, Pend(h) PROVE Shaped'
    BY <1>11 DEF Pend, Put, Goto
<1>12. ASSUME NEW h \in Hooks, ReadPending(h) PROVE Shaped'
  <2>1. CASE Fresh(job[h].session) = {}
    BY <1>12, <2>1, EndedShape DEF ReadPending, Leave
  <2>2. CASE Fresh(job[h].session) # {}
    <3>1. /\ pc' = [pc EXCEPT ![h] = "late"] /\ UNCHANGED <<git, lines, files, job, mine, wait, fate>>
          /\ view' = [view EXCEPT ![h] = Fresh(job[h].session)]
          /\ todo' = [todo EXCEPT ![h] = Fresh(job[h].session)]
      BY <1>12, <2>2 DEF ReadPending, Goto
    <3>2. pc[h] = "pending"
      BY <1>12 DEF ReadPending
    <3>3. QED
      BY <3>1, <3>2, FreshIsOwn
  <2>3. QED
    BY <2>1, <2>2
<1>13. ASSUME NEW h \in Hooks, Late(h) PROVE Shaped'
  <2>1. PICK l \in todo[h] :
           /\ todo' = [todo EXCEPT ![h] = todo[h] \ {l}]
           /\ mine' = [mine EXCEPT ![h] = Landed(l)]
           /\ \/ mine'[h] # Nothing /\ Goto(h, "lateclaim") /\ UNCHANGED wait
              \/ /\ mine'[h] = Nothing
                 /\ wait' = [wait EXCEPT ![h] = wait[h] \union ({l} \ old)]
                 /\ UNCHANGED pc
    BY <1>13 DEF Late
  <2>2. DOMAIN mine' = Hooks /\ mine' = [k \in Hooks |-> mine'[k]]
    BY <2>1, MineStays
  <2>3. todo' \in [Hooks -> SUBSET Lines] /\ wait' \in [Hooks -> SUBSET Lines]
    <3>1. l \in Lines /\ todo[h] \in SUBSET Lines /\ wait[h] \in SUBSET Lines
      BY <2>1
    <3>2. todo[h] \ {l} \in SUBSET Lines /\ wait[h] \union ({l} \ old) \in SUBSET Lines
      BY <3>1
    <3>3. QED
      BY <2>1, <3>2
  <2>4. QED
    BY <1>13, <2>2, <2>3 DEF Late
<1>14. ASSUME NEW h \in Hooks, ClaimLate(h) PROVE Shaped'
  <2>1. wait' \in [Hooks -> SUBSET Lines]
    <3>1. wait[h] \union ({mine[h].line} \ old) \in SUBSET Lines
      BY <1>14, LateLine
    <3>2. QED
      BY <1>14, <3>1, ClaimedLate
  <2>2. QED
    BY <1>14, <2>1 DEF ClaimLate
<1>15. ASSUME NEW h \in Hooks, Store(h) PROVE Shaped'
    BY <1>15, EndedShape DEF Store, Put, Leave
<1>16. ASSUME NEW h \in Hooks, Kill(h) PROVE Shaped'
    BY <1>16, EndedShape DEF Kill, Leave
<1>17. ASSUME NEW l \in Lines, Commit(l) PROVE Shaped'
    BY <1>17 DEF Commit
<1>18. ASSUME NEW l \in Lines, Reset(l) PROVE Shaped'
    BY <1>18 DEF Reset
<1>19. ASSUME NEW l \in Lines, Age(l) PROVE Shaped'
    BY <1>19 DEF Age
<1>20. ASSUME NEW s \in Sessions, Stale(s) PROVE Shaped'
    BY <1>20 DEF Stale
<1>21. CASE UNCHANGED vars
    BY <1>21 DEF vars
<1>22. QED
    BY <1>1, <1>2, <1>3, <1>4, <1>5, <1>6, <1>7, <1>8, <1>9, <1>10, <1>11, <1>12, <1>13, <1>14, <1>15, <1>16, <1>17, <1>18, <1>19, <1>20, <1>21 DEF Next

LEMMA OwnNext == IInv /\ [Next]_vars => Own'
<1> SUFFICES ASSUME IInv, [Next]_vars PROVE Own'
    OBVIOUS
<1> USE Constants
    DEF IInv, Placed, Shaped, Own, Of, NoJob, git, lines, files, hook, counts, history
<1>1. ASSUME NEW h \in Hooks, NEW l \in Lines, Ask(h, l) PROVE Own'
    BY <1>1 DEF Ask, Start
<1>2. ASSUME NEW h \in Hooks, NEW l \in Lines, Tell(h, l) PROVE Own'
    BY <1>2 DEF Tell, Start
<1>3. ASSUME NEW h \in Hooks, NEW s \in Sessions, Event(h, s) PROVE Own'
    BY <1>3 DEF Event, Start
<1>4. ASSUME NEW h \in Hooks, ReadHead(h) PROVE Own'
    BY <1>4 DEF ReadHead, Goto
<1>5. ASSUME NEW h \in Hooks, ReadLog(h) PROVE Own'
    BY <1>5 DEF ReadLog, Goto
<1>6. ASSUME NEW h \in Hooks, Scan(h) PROVE Own'
    BY <1>6 DEF Scan, Goto
<1>7. ASSUME NEW h \in Hooks, ClaimOwn(h) PROVE Own'
    BY <1>7 DEF ClaimOwn, Claim, Goto
<1>8. ASSUME NEW h \in Hooks, Forget(h) PROVE Own'
  <2>1. Fresh(job[h].session) \subseteq Of(job[h].session) /\ Fresh(job[h].session) \in SUBSET Lines
    BY <1>8, FreshIsOwn DEF Forget
  <2>2. QED
    BY <1>8, <2>1 DEF Forget, Goto
<1>9. ASSUME NEW h \in Hooks, Unpend(h) PROVE Own'
    BY <1>9 DEF Unpend, Put, Goto
<1>10. ASSUME NEW h \in Hooks, Keep(h) PROVE Own'
  <2>1. Fresh(job[h].session) \subseteq Of(job[h].session) /\ Fresh(job[h].session) \in SUBSET Lines
    BY <1>10, FreshIsOwn DEF Keep
  <2>2. QED
    BY <1>10, <2>1 DEF Keep, Goto
<1>11. ASSUME NEW h \in Hooks, Pend(h) PROVE Own'
    BY <1>11 DEF Pend, Put, Goto
<1>12. ASSUME NEW h \in Hooks, ReadPending(h) PROVE Own'
  <2>1. CASE Fresh(job[h].session) = {}
    BY <1>12, <2>1 DEF ReadPending, Leave, Ended
  <2>2. CASE Fresh(job[h].session) # {}
    <3>1. /\ pc' = [pc EXCEPT ![h] = "late"] /\ UNCHANGED <<git, lines, files, job, mine, wait, fate>>
          /\ view' = [view EXCEPT ![h] = Fresh(job[h].session)]
          /\ todo' = [todo EXCEPT ![h] = Fresh(job[h].session)]
      BY <1>12, <2>2 DEF ReadPending, Goto
    <3>2. pc[h] = "pending"
      BY <1>12 DEF ReadPending
    <3>3. QED
      BY <3>1, <3>2, FreshIsOwn
  <2>3. QED
    BY <2>1, <2>2
<1>13. ASSUME NEW h \in Hooks, Late(h) PROVE Own'
    BY <1>13 DEF Late, Goto, Landed
<1>14. ASSUME NEW h \in Hooks, ClaimLate(h) PROVE Own'
  <2>1. \A k \in Hooks : wait'[k] \subseteq Of(job[k].session)
    <3>1. mine[h].line \in Of(job[h].session)
      BY <1>14, LateLine
    <3>2. \/ wait' = wait
          \/ wait' = [wait EXCEPT ![h] = wait[h] \union ({mine[h].line} \ old)]
      BY <1>14, ClaimedLate
    <3>3. \A k \in Hooks : wait[k] \subseteq Of(job[k].session)
      OBVIOUS
    <3>4. DOMAIN wait = Hooks
      OBVIOUS
    <3> HIDE DEF Of, Own, IInv, Placed
    <3>5. QED
      BY <3>1, <3>2, <3>3, <3>4
  <2>2. UNCHANGED <<pending, job, view, todo>> /\ pc[h] = "lateclaim" /\ pc' = [pc EXCEPT ![h] = "late"]
    BY <1>14 DEF ClaimLate, Goto
  <2>3. QED
    BY <2>1, <2>2
<1>15. ASSUME NEW h \in Hooks, Store(h) PROVE Own'
    BY <1>15 DEF Store, Put, Leave, Ended
<1>16. ASSUME NEW h \in Hooks, Kill(h) PROVE Own'
    BY <1>16 DEF Kill, Leave, Ended
<1>17. ASSUME NEW l \in Lines, Commit(l) PROVE Own'
    BY <1>17 DEF Commit
<1>18. ASSUME NEW l \in Lines, Reset(l) PROVE Own'
    BY <1>18 DEF Reset
<1>19. ASSUME NEW l \in Lines, Age(l) PROVE Own'
    BY <1>19 DEF Age
<1>20. ASSUME NEW s \in Sessions, Stale(s) PROVE Own'
    BY <1>20 DEF Stale
<1>21. CASE UNCHANGED vars
    BY <1>21 DEF vars
<1>22. QED
    BY <1>1, <1>2, <1>3, <1>4, <1>5, <1>6, <1>7, <1>8, <1>9, <1>10, <1>11, <1>12, <1>13, <1>14, <1>15, <1>16, <1>17, <1>18, <1>19, <1>20, <1>21 DEF Next

\* Where a claim for the hook's own line leaves it.
LEMMA ClaimedOwn ==
    ASSUME IInv, NEW h \in Hooks, ClaimOwn(h)
    PROVE  /\ pc[h] = "claim" /\ job[h].line \in Lines
           /\ \E place \in {"forget", "pending"} : pc' = [pc EXCEPT ![h] = place]
           /\ \A k \in Hooks : mine'[k] = IF k = h THEN mine'[h] ELSE mine[k]
           /\ mine'[h] \in {mine[h], Nothing}
           /\ fate' = [fate EXCEPT ![job[h].line] = "taken"]
           /\ UNCHANGED <<git, lines, filed, before, pending, old, idle, job, view, todo, wait, kills, barred, due>>
<1>1. pc[h] = "claim" /\ job[h].line \in Lines
    BY DEF ClaimOwn, IInv, Own, Shaped
<1>2. \/ pc' = [pc EXCEPT ![h] = "forget"] /\ UNCHANGED mine
      \/ pc' = [pc EXCEPT ![h] = "pending"] /\ mine' = [mine EXCEPT ![h] = Nothing]
    BY DEF ClaimOwn, Goto
<1>3. /\ fate' = [fate EXCEPT ![job[h].line] = "taken"]
      /\ UNCHANGED <<git, lines, filed, before, pending, old, idle, job, view, todo, wait, kills, barred, due>>
    BY DEF ClaimOwn
<1>4. DOMAIN mine = Hooks
    BY DEF IInv, Shaped
<1>5. QED
    BY <1>1, <1>2, <1>3, <1>4

LEMMA TypedNext == IInv /\ [Next]_vars => IInv'
BY RecordedNext, NotedNext, PlacedNext, ShapedNext, OwnNext, LookingNext DEF IInv

\* Every reachable state is well typed: no reflog position or commit that a
\* record, an entry or a hook names lies beyond what git has written.
THEOREM TypeCorrect == Spec => []TypeOK
BY InitTyped, TypedNext, IsTypeOK, PTL DEF Spec

-----------------------------------------------------------------------------
(* The records that wait.                                                  *)

\* A session has one hook at a time.
Alone ==
    \A h, k \in Hooks :
        job[h].session # None /\ job[h].session = job[k].session => h = k

\* The records of a session that must not be lost.
Waiting(s) == {l \in Of(s) : fate[l] = "kept" /\ l \notin old}

\* A hook about to write the file has them all in its hands.
Held ==
    \A h \in Hooks :
        /\ pc[h] \in {"unpend", "pend"} => Waiting(job[h].session) \subseteq view[h]
        /\ pc[h] = "late" => Waiting(job[h].session) \subseteq todo[h] \union wait[h]
        /\ pc[h] = "lateclaim" =>
              Waiting(job[h].session) \subseteq todo[h] \union wait[h] \union {mine[h].line}

\* A file goes stale when every record in it is old.
StaleIsOld == \A s \in idle : pending[s] \subseteq old

KInv == Parallel = FALSE /\ IInv /\ Alone /\ Held /\ StaleIsOld /\ KeptStays

LEMMA AloneNext == KInv /\ [Next]_vars => Alone'
<1> SUFFICES ASSUME KInv, [Next]_vars PROVE Alone'
    OBVIOUS
<1> USE Constants
    DEF KInv, IInv, Placed, Shaped, Own, Alone, NoJob, git, lines, files, hook, counts, history
<1>1. ASSUME NEW h \in Hooks, NEW l \in Lines, Ask(h, l) PROVE Alone'
    BY <1>1 DEF Ask, Start, Quiet
<1>2. ASSUME NEW h \in Hooks, NEW l \in Lines, Tell(h, l) PROVE Alone'
    BY <1>2 DEF Tell, Start, Quiet
<1>3. ASSUME NEW h \in Hooks, NEW s \in Sessions, Event(h, s) PROVE Alone'
    BY <1>3 DEF Event, Start, Quiet
<1>4. ASSUME NEW h \in Hooks, ReadHead(h) PROVE Alone'
    BY <1>4 DEF ReadHead, Goto
<1>5. ASSUME NEW h \in Hooks, ReadLog(h) PROVE Alone'
    BY <1>5 DEF ReadLog, Goto
<1>6. ASSUME NEW h \in Hooks, Scan(h) PROVE Alone'
    BY <1>6 DEF Scan, Goto
<1>7. ASSUME NEW h \in Hooks, ClaimOwn(h) PROVE Alone'
    BY <1>7 DEF ClaimOwn, Claim, Goto
<1>8. ASSUME NEW h \in Hooks, Forget(h) PROVE Alone'
    BY <1>8 DEF Forget, Goto, Fresh
<1>9. ASSUME NEW h \in Hooks, Unpend(h) PROVE Alone'
    BY <1>9 DEF Unpend, Put, Goto
<1>10. ASSUME NEW h \in Hooks, Keep(h) PROVE Alone'
    BY <1>10 DEF Keep, Goto, Fresh
<1>11. ASSUME NEW h \in Hooks, Pend(h) PROVE Alone'
    BY <1>11 DEF Pend, Put, Goto
<1>12. ASSUME NEW h \in Hooks, ReadPending(h) PROVE Alone'
  <2>1. job' = [job EXCEPT ![h] = NoJob] \/ job' = job
    BY <1>12 DEF ReadPending, Leave, Ended, Goto
  <2>2. CASE job' = [job EXCEPT ![h] = NoJob]
    <3>1. \A k \in Hooks : job'[k] = IF k = h THEN NoJob ELSE job[k]
      BY <2>2
    <3>2. NoJob.session = None
      OBVIOUS
    <3> HIDE DEF NoJob
    <3>3. QED
      BY <3>1, <3>2
  <2>3. QED
    BY <2>1, <2>2
<1>13. ASSUME NEW h \in Hooks, Late(h) PROVE Alone'
    BY <1>13 DEF Late, Goto, Landed
<1>14. ASSUME NEW h \in Hooks, ClaimLate(h) PROVE Alone'
    BY <1>14 DEF ClaimLate, Claim, Goto
<1>15. ASSUME NEW h \in Hooks, Store(h) PROVE Alone'
    BY <1>15 DEF Store, Put, Leave, Ended
<1>16. ASSUME NEW h \in Hooks, Kill(h) PROVE Alone'
    BY <1>16 DEF Kill, Leave, Ended
<1>17. ASSUME NEW l \in Lines, Commit(l) PROVE Alone'
    BY <1>17 DEF Commit
<1>18. ASSUME NEW l \in Lines, Reset(l) PROVE Alone'
    BY <1>18 DEF Reset
<1>19. ASSUME NEW l \in Lines, Age(l) PROVE Alone'
    BY <1>19 DEF Age
<1>20. ASSUME NEW s \in Sessions, Stale(s) PROVE Alone'
    BY <1>20 DEF Stale
<1>21. CASE UNCHANGED vars
    BY <1>21 DEF vars
<1>22. QED
    BY <1>1, <1>2, <1>3, <1>4, <1>5, <1>6, <1>7, <1>8, <1>9, <1>10, <1>11, <1>12, <1>13, <1>14, <1>15, <1>16, <1>17, <1>18, <1>19, <1>20, <1>21 DEF Next

LEMMA StaleNext == KInv /\ [Next]_vars => StaleIsOld'
<1> SUFFICES ASSUME KInv, [Next]_vars PROVE StaleIsOld'
    OBVIOUS
<1> USE Constants
    DEF KInv, IInv, Placed, Shaped, Own, StaleIsOld, git, lines, files, hook, counts, history
<1>1. ASSUME NEW h \in Hooks, NEW l \in Lines, Ask(h, l) PROVE StaleIsOld'
    BY <1>1 DEF Ask, Start
<1>2. ASSUME NEW h \in Hooks, NEW l \in Lines, Tell(h, l) PROVE StaleIsOld'
    BY <1>2 DEF Tell, Start
<1>3. ASSUME NEW h \in Hooks, NEW s \in Sessions, Event(h, s) PROVE StaleIsOld'
    BY <1>3 DEF Event, Start
<1>4. ASSUME NEW h \in Hooks, ReadHead(h) PROVE StaleIsOld'
    BY <1>4 DEF ReadHead, Goto
<1>5. ASSUME NEW h \in Hooks, ReadLog(h) PROVE StaleIsOld'
    BY <1>5 DEF ReadLog, Goto
<1>6. ASSUME NEW h \in Hooks, Scan(h) PROVE StaleIsOld'
    BY <1>6 DEF Scan, Goto
<1>7. ASSUME NEW h \in Hooks, ClaimOwn(h) PROVE StaleIsOld'
    BY <1>7 DEF ClaimOwn, Claim, Goto
<1>8. ASSUME NEW h \in Hooks, Forget(h) PROVE StaleIsOld'
    BY <1>8 DEF Forget, Goto, Fresh
<1>9. ASSUME NEW h \in Hooks, Unpend(h) PROVE StaleIsOld'
    BY <1>9 DEF Unpend, Put, Goto
<1>10. ASSUME NEW h \in Hooks, Keep(h) PROVE StaleIsOld'
    BY <1>10 DEF Keep, Goto, Fresh
<1>11. ASSUME NEW h \in Hooks, Pend(h) PROVE StaleIsOld'
    BY <1>11 DEF Pend, Put, Goto
<1>12. ASSUME NEW h \in Hooks, ReadPending(h) PROVE StaleIsOld'
  <2>1. CASE Fresh(job[h].session) = {}
    BY <1>12, <2>1 DEF ReadPending, Leave, Ended
  <2>2. CASE Fresh(job[h].session) # {}
    <3>1. UNCHANGED <<pending, idle, old, fate>>
      BY <1>12, <2>2 DEF ReadPending, Goto
    <3>2. QED
      BY <3>1
  <2>3. QED
    BY <2>1, <2>2
<1>13. ASSUME NEW h \in Hooks, Late(h) PROVE StaleIsOld'
    BY <1>13 DEF Late, Goto, Landed
<1>14. ASSUME NEW h \in Hooks, ClaimLate(h) PROVE StaleIsOld'
    BY <1>14 DEF ClaimLate, Claim, Goto
<1>15. ASSUME NEW h \in Hooks, Store(h) PROVE StaleIsOld'
    BY <1>15 DEF Store, Put, Leave, Ended
<1>16. ASSUME NEW h \in Hooks, Kill(h) PROVE StaleIsOld'
    BY <1>16 DEF Kill, Leave, Ended
<1>17. ASSUME NEW l \in Lines, Commit(l) PROVE StaleIsOld'
    BY <1>17 DEF Commit
<1>18. ASSUME NEW l \in Lines, Reset(l) PROVE StaleIsOld'
    BY <1>18 DEF Reset
<1>19. ASSUME NEW l \in Lines, Age(l) PROVE StaleIsOld'
    BY <1>19 DEF Age
<1>20. ASSUME NEW s \in Sessions, Stale(s) PROVE StaleIsOld'
    BY <1>20 DEF Stale
<1>21. CASE UNCHANGED vars
    BY <1>21 DEF vars
<1>22. QED
    BY <1>1, <1>2, <1>3, <1>4, <1>5, <1>6, <1>7, <1>8, <1>9, <1>10, <1>11, <1>12, <1>13, <1>14, <1>15, <1>16, <1>17, <1>18, <1>19, <1>20, <1>21 DEF Next

LEMMA KeptNext == KInv /\ [Next]_vars => KeptStays'
<1> SUFFICES ASSUME KInv, [Next]_vars PROVE KeptStays'
    OBVIOUS
<1> USE Constants
    DEF KInv, IInv, Placed, Shaped, Own, Alone, Held, StaleIsOld, KeptStays, Waiting, Of, git, lines, files, hook, counts, history
<1>1. ASSUME NEW h \in Hooks, NEW l \in Lines, Ask(h, l) PROVE KeptStays'
    BY <1>1 DEF Ask, Start
<1>2. ASSUME NEW h \in Hooks, NEW l \in Lines, Tell(h, l) PROVE KeptStays'
    BY <1>2 DEF Tell, Start
<1>3. ASSUME NEW h \in Hooks, NEW s \in Sessions, Event(h, s) PROVE KeptStays'
    BY <1>3 DEF Event, Start
<1>4. ASSUME NEW h \in Hooks, ReadHead(h) PROVE KeptStays'
    BY <1>4 DEF ReadHead, Goto
<1>5. ASSUME NEW h \in Hooks, ReadLog(h) PROVE KeptStays'
    BY <1>5 DEF ReadLog, Goto
<1>6. ASSUME NEW h \in Hooks, Scan(h) PROVE KeptStays'
    BY <1>6 DEF Scan, Goto
<1>7. ASSUME NEW h \in Hooks, ClaimOwn(h) PROVE KeptStays'
    BY <1>7 DEF ClaimOwn, Claim, Goto
<1>8. ASSUME NEW h \in Hooks, Forget(h) PROVE KeptStays'
    BY <1>8 DEF Forget, Goto, Fresh
<1>9. ASSUME NEW h \in Hooks, Unpend(h) PROVE KeptStays'
    BY <1>9 DEF Unpend, Put, Goto
<1>10. ASSUME NEW h \in Hooks, Keep(h) PROVE KeptStays'
    BY <1>10 DEF Keep, Goto, Fresh
<1>11. ASSUME NEW h \in Hooks, Pend(h) PROVE KeptStays'
    BY <1>11 DEF Pend, Put, Goto
<1>12. ASSUME NEW h \in Hooks, ReadPending(h) PROVE KeptStays'
  <2>1. CASE Fresh(job[h].session) = {}
    BY <1>12, <2>1 DEF ReadPending, Leave, Ended
  <2>2. CASE Fresh(job[h].session) # {}
    <3>1. UNCHANGED <<pending, idle, old, fate>>
      BY <1>12, <2>2 DEF ReadPending, Goto
    <3>2. QED
      BY <3>1
  <2>3. QED
    BY <2>1, <2>2
<1>13. ASSUME NEW h \in Hooks, Late(h) PROVE KeptStays'
    BY <1>13 DEF Late, Goto, Landed
<1>14. ASSUME NEW h \in Hooks, ClaimLate(h) PROVE KeptStays'
    BY <1>14 DEF ClaimLate, Claim, Goto
<1>15. ASSUME NEW h \in Hooks, Store(h) PROVE KeptStays'
    BY <1>15 DEF Store, Put, Leave, Ended
<1>16. ASSUME NEW h \in Hooks, Kill(h) PROVE KeptStays'
    BY <1>16 DEF Kill, Leave, Ended
<1>17. ASSUME NEW l \in Lines, Commit(l) PROVE KeptStays'
    BY <1>17 DEF Commit
<1>18. ASSUME NEW l \in Lines, Reset(l) PROVE KeptStays'
    BY <1>18 DEF Reset
<1>19. ASSUME NEW l \in Lines, Age(l) PROVE KeptStays'
    BY <1>19 DEF Age
<1>20. ASSUME NEW s \in Sessions, Stale(s) PROVE KeptStays'
    BY <1>20 DEF Stale
<1>21. CASE UNCHANGED vars
    BY <1>21 DEF vars
<1>22. QED
    BY <1>1, <1>2, <1>3, <1>4, <1>5, <1>6, <1>7, <1>8, <1>9, <1>10, <1>11, <1>12, <1>13, <1>14, <1>15, <1>16, <1>17, <1>18, <1>19, <1>20, <1>21 DEF Next

LEMMA HeldNext == KInv /\ [Next]_vars => Held'
<1> SUFFICES ASSUME KInv, [Next]_vars PROVE Held'
    OBVIOUS
<1> USE Constants
    DEF KInv, IInv, Placed, Shaped, Own, Alone, Held, StaleIsOld, KeptStays, Waiting, Of, Nothing, NoJob, git, lines, files, hook, counts, history
<1>1. ASSUME NEW h \in Hooks, NEW l \in Lines, Ask(h, l) PROVE Held'
    BY <1>1 DEF Ask, Start
<1>2. ASSUME NEW h \in Hooks, NEW l \in Lines, Tell(h, l) PROVE Held'
    BY <1>2 DEF Tell, Start
<1>3. ASSUME NEW h \in Hooks, NEW s \in Sessions, Event(h, s) PROVE Held'
    BY <1>3 DEF Event, Start
<1>4. ASSUME NEW h \in Hooks, ReadHead(h) PROVE Held'
    BY <1>4 DEF ReadHead, Goto
<1>5. ASSUME NEW h \in Hooks, ReadLog(h) PROVE Held'
    BY <1>5 DEF ReadLog, Goto
<1>6. ASSUME NEW h \in Hooks, Scan(h) PROVE Held'
    BY <1>6 DEF Scan, Goto
<1>7. ASSUME NEW h \in Hooks, ClaimOwn(h) PROVE Held'
  <2>1. \A s \in Sessions : Waiting(s)' \subseteq Waiting(s)
    BY <1>7, ClaimedOwn
  <2>2. /\ \E place \in {"forget", "pending"} : pc' = [pc EXCEPT ![h] = place]
        /\ \A k \in Hooks \ {h} : mine'[k] = mine[k]
        /\ UNCHANGED <<job, view, todo, wait>>
    BY <1>7, ClaimedOwn
  <2>3. \A k \in Hooks : pc'[k] \in {"unpend", "pend", "late", "lateclaim"} =>
            k # h /\ pc'[k] = pc[k] /\ job[k].session \in Sessions
    BY <2>2
  <2> HIDE DEF Waiting
  <2>4. QED
    BY <2>1, <2>2, <2>3
<1>8. ASSUME NEW h \in Hooks, Forget(h) PROVE Held'
    BY <1>8 DEF Forget, Goto, Fresh
<1>9. ASSUME NEW h \in Hooks, Unpend(h) PROVE Held'
    BY <1>9 DEF Unpend, Put, Goto
<1>10. ASSUME NEW h \in Hooks, Keep(h) PROVE Held'
    BY <1>10 DEF Keep, Goto, Fresh
<1>11. ASSUME NEW h \in Hooks, Pend(h) PROVE Held'
    BY <1>11 DEF Pend, Put, Goto
<1>12. ASSUME NEW h \in Hooks, ReadPending(h) PROVE Held'
  <2>1. CASE Fresh(job[h].session) = {}
    <3>1. Ended(h) /\ UNCHANGED <<old, fate>>
      BY <1>12, <2>1 DEF ReadPending, Leave
    <3>2. QED
      BY <3>1 DEF Ended
  <2>2. CASE Fresh(job[h].session) # {}
    <3>1. /\ pc' = [pc EXCEPT ![h] = "late"] /\ UNCHANGED <<job, mine, wait, old, fate>>
          /\ view' = [view EXCEPT ![h] = Fresh(job[h].session)]
          /\ todo' = [todo EXCEPT ![h] = Fresh(job[h].session)]
      BY <1>12, <2>2 DEF ReadPending, Goto
    <3>2. Fresh(job[h].session) = pending[job[h].session]
      BY <2>2 DEF Fresh
    <3>3. Waiting(job[h].session) \subseteq pending[job[h].session]
      OBVIOUS
    <3>4. QED
      BY <3>1, <3>2, <3>3
  <2>3. QED
    BY <2>1, <2>2
<1>13. ASSUME NEW h \in Hooks, Late(h) PROVE Held'
    BY <1>13 DEF Late, Goto, Landed
<1>14. ASSUME NEW h \in Hooks, ClaimLate(h) PROVE Held'
  <2>1. /\ pc[h] = "lateclaim" /\ pc' = [pc EXCEPT ![h] = "late"] /\ mine[h].line \in Lines
        /\ UNCHANGED <<job, view, todo, old, mine>>
    BY <1>14, LateLine DEF ClaimLate, Goto
  <2>2. \/ UNCHANGED wait /\ fate' = [fate EXCEPT ![mine[h].line] = "taken"]
        \/ /\ wait' = [wait EXCEPT ![h] = wait[h] \union ({mine[h].line} \ old)]
           /\ UNCHANGED fate
    BY <1>14 DEF ClaimLate, Unreadable
  <2>3. \A s \in Sessions : Waiting(s)' \subseteq Waiting(s)
    BY <2>1, <2>2
  <2>4. Waiting(job[h].session)' \subseteq todo'[h] \union wait'[h]
    <3>1. job[h].session \in Sessions
      BY <2>1
    <3>2. Waiting(job[h].session) \subseteq todo[h] \union wait[h] \union {mine[h].line}
      BY <2>1
    <3>3. CASE UNCHANGED wait /\ fate' = [fate EXCEPT ![mine[h].line] = "taken"]
      <4>1. mine[h].line \notin Waiting(job[h].session)'
        BY <3>3, <2>1
      <4> HIDE DEF Waiting
      <4>2. QED
        BY <4>1, <3>1, <3>2, <3>3, <2>1, <2>3
    <3>4. CASE /\ wait' = [wait EXCEPT ![h] = wait[h] \union ({mine[h].line} \ old)]
               /\ UNCHANGED fate
      <4>1. Waiting(job[h].session)' \intersect old = {}
        BY <2>1
      <4>2. wait'[h] = wait[h] \union ({mine[h].line} \ old) /\ todo'[h] = todo[h]
        BY <3>4, <2>1
      <4>3. Waiting(job[h].session)' \subseteq Waiting(job[h].session)
        BY <2>1, <2>3, <3>1
      <4> HIDE DEF Waiting
      <4>4. QED
        BY <4>1, <4>2, <4>3, <3>2
    <3>5. QED
      BY <2>2, <3>3, <3>4
  <2>5. \A k \in Hooks \ {h} : pc'[k] = pc[k] /\ wait'[k] = wait[k]
    BY <2>1, <2>2
  <2>6. \A k \in Hooks : pc[k] # "idle" => job[k].session \in Sessions
    OBVIOUS
  <2> HIDE DEF Waiting
  <2>7. QED
    BY <2>1, <2>3, <2>4, <2>5, <2>6
<1>15. ASSUME NEW h \in Hooks, Store(h) PROVE Held'
    BY <1>15 DEF Store, Put, Leave, Ended
<1>16. ASSUME NEW h \in Hooks, Kill(h) PROVE Held'
    BY <1>16 DEF Kill, Leave, Ended
<1>17. ASSUME NEW l \in Lines, Commit(l) PROVE Held'
    BY <1>17 DEF Commit
<1>18. ASSUME NEW l \in Lines, Reset(l) PROVE Held'
    BY <1>18 DEF Reset
<1>19. ASSUME NEW l \in Lines, Age(l) PROVE Held'
    BY <1>19 DEF Age
<1>20. ASSUME NEW s \in Sessions, Stale(s) PROVE Held'
    BY <1>20 DEF Stale
<1>21. CASE UNCHANGED vars
    BY <1>21 DEF vars
<1>22. QED
    BY <1>1, <1>2, <1>3, <1>4, <1>5, <1>6, <1>7, <1>8, <1>9, <1>10, <1>11, <1>12, <1>13, <1>14, <1>15, <1>16, <1>17, <1>18, <1>19, <1>20, <1>21 DEF Next

LEMMA KInvHolds == Parallel = FALSE => (Init => KInv) /\ (KInv /\ [Next]_vars => KInv')
<1> SUFFICES ASSUME Parallel = FALSE PROVE (Init => KInv) /\ (KInv /\ [Next]_vars => KInv')
    OBVIOUS
<1>1. Init => KInv
  <2> SUFFICES ASSUME Init PROVE KInv
      OBVIOUS
  <2>1. Alone
      BY DEF Init, Alone, NoJob
  <2>2. Held
      BY DEF Init, Held
  <2>3. StaleIsOld /\ KeptStays
      BY DEF Init, StaleIsOld, KeptStays
  <2>4. QED
      BY <2>1, <2>2, <2>3, InitTyped DEF KInv
<1>2. KInv /\ [Next]_vars => KInv'
    BY TypedNext, AloneNext, StaleNext,
       KeptNext, HeldNext DEF KInv, IInv
<1>3. QED
    BY <1>1, <1>2

\* A waiting record outlives every hook of its session but the one that takes
\* it, the review that forgets it and its two hours, if a session has one tool
\* call in flight: the read and the write of the file may be cut by a kill, or
\* have any step of another session between them.
THEOREM RecordsWait == Parallel = FALSE => (Spec => []KeptStays)
<1> SUFFICES ASSUME Parallel = FALSE PROVE Spec => []KeptStays
    OBVIOUS
<1>1. KInv => KeptStays
    BY DEF KInv
<1>2. QED
    BY <1>1, KInvHolds, PTL DEF Spec

-----------------------------------------------------------------------------
(* The commits that are taken.                                             *)

\* A taken commit has a claim that names one of those who took it.  What a
\* hook calls `barred` was taken when it started, and stays so.
Claimed ==
    /\ taken \in Seq(SUBSET Sessions) /\ Len(taken) = Len(claim)
    /\ \A c \in 1 .. Len(taken) : taken[c] # {} => claim[c] \in taken[c]

Barred ==
    /\ barred \in [Hooks -> SUBSET Nat]
    /\ \A h \in Hooks : \A c \in barred[h] : c \in 1 .. Len(taken) /\ taken[c] # {}

\* A hook that does not run holds nothing.
Resting == \A h \in Hooks : pc[h] = "idle" => mine[h].commits = {}

TInv == IInv /\ Claimed /\ Barred /\ Resting /\ NotTakenAgain

\* `landed` passes over what another session claimed.
LEMMA LandedIsFree ==
    ASSUME NEW l, NEW c \in Landed(l).commits
    PROVE  claim[c] \in {None, Session[l]}
<1>1. \A i \in Ours(l, claim) : claim[log[i].new] \in {None, Session[l]}
    BY DEF Ours, Takes
<1>2. CASE Ours(l, claim) = {}
    BY <1>2 DEF Landed, Nothing
<1>3. CASE Ours(l, claim) # {}
  <2>1. Landed(l).commits = {log[i].new : i \in Ours(l, claim)}
    BY <1>3 DEF Landed
  <2>2. QED
    BY <1>1, <2>1
<1>4. QED
    BY <1>2, <1>3

\* So what it finds beside the taken commits is its session's own already.
LEMMA LandedIsOwn ==
    ASSUME IInv, Claimed, Barred, NEW h \in Hooks, NEW l \in Of(job[h].session)
    PROVE  \A c \in Landed(l).commits \intersect barred[h] : job[h].session \in taken[c]
<1> SUFFICES ASSUME NEW c \in Landed(l).commits, c \in barred[h] PROVE job[h].session \in taken[c]
    OBVIOUS
<1>1. claim[c] \in {None, Session[l]}
    BY LandedIsFree
<1>2. c \in 1 .. Len(taken) /\ taken[c] # {}
    BY DEF Barred
<1>3. claim[c] \in taken[c] /\ taken[c] \subseteq Sessions
  <2>1. taken[c] \in SUBSET Sessions
    BY <1>2, Element DEF Claimed
  <2>2. QED
    BY <1>2, <2>1 DEF Claimed
<1>4. Session[l] = job[h].session
    BY DEF Of
<1>5. QED
    BY <1>1, <1>3, <1>4, Constants

\* A claim adds its session to what it claims, and takes nothing away.
LEMMA ClaimTakes ==
    ASSUME IInv, Claimed, Barred, NEW h \in Hooks, job[h].session \in Sessions, Claim(h), UNCHANGED barred
    PROVE  Claimed' /\ Barred' /\ \A c \in 1 .. Len(taken) : taken[c] \subseteq taken'[c]
<1> DEFINE s == job[h].session
<1>1. DOMAIN claim = 1 .. Len(taken) /\ DOMAIN taken = 1 .. Len(taken) /\ Len(taken) \in Nat
  <2>1. taken \in Seq(SUBSET Sessions) /\ claim \in Seq(Sessions \union {None})
    BY DEF Claimed, IInv, Recorded
  <2>2. QED
    BY <2>1 DEF Claimed
<1>2. /\ claim' = [c \in 1 .. Len(taken) |-> IF c \in mine[h].commits THEN s ELSE claim[c]]
      /\ taken' = [c \in 1 .. Len(taken) |-> IF c \in mine[h].commits THEN taken[c] \union {s} ELSE taken[c]]
    BY <1>1 DEF Claim
<1>3. \A c \in 1 .. Len(taken) : taken[c] \in SUBSET Sessions
    BY Element DEF Claimed
<1>4. taken' \in [1 .. Len(taken) -> SUBSET Sessions]
    BY <1>2, <1>3
<1>5. taken' \in Seq(SUBSET Sessions) /\ Len(taken') = Len(taken)
    BY <1>1, <1>4
<1>6. Len(claim') = Len(taken)
    BY <1>1, <1>2
<1>7. \A c \in 1 .. Len(taken) : taken'[c] # {} => claim'[c] \in taken'[c]
    BY <1>2 DEF Claimed
<1>8. \A c \in 1 .. Len(taken) : taken[c] \subseteq taken'[c]
    BY <1>2
<1>9. Barred'
    BY <1>5, <1>8 DEF Barred
<1>10. QED
    BY <1>5, <1>6, <1>7, <1>8, <1>9 DEF Claimed

LEMMA ClaimedNext == TInv /\ [Next]_vars => (Claimed /\ Barred)'
<1> SUFFICES ASSUME TInv, [Next]_vars PROVE (Claimed /\ Barred)'
    OBVIOUS
<1> USE Constants DEF TInv, IInv, Recorded, Claimed, Barred, git, lines, files, hook, counts, history
<1>1. ASSUME NEW h \in Hooks, NEW l \in Lines, Ask(h, l) PROVE (Claimed /\ Barred)'
  <2>1. UNCHANGED <<taken, claim>>
    BY <1>1 DEF Ask, Start
  <2>2. \E x \in Sessions : barred' = [barred EXCEPT ![h] = {c \in DOMAIN taken : taken[c] \ {x} # {}}]
    BY <1>1 DEF Ask, Start
  <2>3. DOMAIN taken = 1 .. Len(taken) /\ Len(taken) \in Nat
    OBVIOUS
  <2>4. QED
    BY <2>1, <2>2, <2>3
<1>2. ASSUME NEW h \in Hooks, NEW l \in Lines, Tell(h, l) PROVE (Claimed /\ Barred)'
  <2>1. UNCHANGED <<taken, claim>>
    BY <1>2 DEF Tell, Start
  <2>2. \E x \in Sessions : barred' = [barred EXCEPT ![h] = {c \in DOMAIN taken : taken[c] \ {x} # {}}]
    BY <1>2 DEF Tell, Start
  <2>3. DOMAIN taken = 1 .. Len(taken) /\ Len(taken) \in Nat
    OBVIOUS
  <2>4. QED
    BY <2>1, <2>2, <2>3
<1>3. ASSUME NEW h \in Hooks, NEW s \in Sessions, Event(h, s) PROVE (Claimed /\ Barred)'
  <2>1. UNCHANGED <<taken, claim>>
    BY <1>3 DEF Event, Start
  <2> DEFINE B == {c \in DOMAIN taken : taken[c] \ {s} # {}}
  <2>2. barred' = [barred EXCEPT ![h] = B]
    BY <1>3 DEF Event, Start
  <2>3. DOMAIN taken = 1 .. Len(taken) /\ Len(taken) \in Nat
    OBVIOUS
  <2>4. B \subseteq Nat /\ \A c \in B : c \in 1 .. Len(taken) /\ taken[c] # {}
    BY <2>3
  <2> HIDE DEF B
  <2>5. QED
    BY <2>1, <2>2, <2>4
<1>4. ASSUME NEW h \in Hooks, ReadHead(h) PROVE (Claimed /\ Barred)'
    BY <1>4 DEF ReadHead, Goto
<1>5. ASSUME NEW h \in Hooks, ReadLog(h) PROVE (Claimed /\ Barred)'
    BY <1>5 DEF ReadLog, Goto
<1>6. ASSUME NEW h \in Hooks, Scan(h) PROVE (Claimed /\ Barred)'
    BY <1>6 DEF Scan, Goto
<1>7. ASSUME NEW h \in Hooks, ClaimOwn(h) PROVE (Claimed /\ Barred)'
  <2>1. job[h].session \in Sessions /\ Claim(h) /\ UNCHANGED barred
    BY <1>7, FreshIsOwn DEF ClaimOwn
  <2>2. QED
    BY <2>1, ClaimTakes
<1>8. ASSUME NEW h \in Hooks, Forget(h) PROVE (Claimed /\ Barred)'
    BY <1>8 DEF Forget, Goto
<1>9. ASSUME NEW h \in Hooks, Unpend(h) PROVE (Claimed /\ Barred)'
    BY <1>9 DEF Unpend, Put, Goto
<1>10. ASSUME NEW h \in Hooks, Keep(h) PROVE (Claimed /\ Barred)'
    BY <1>10 DEF Keep, Goto
<1>11. ASSUME NEW h \in Hooks, Pend(h) PROVE (Claimed /\ Barred)'
    BY <1>11 DEF Pend, Put, Goto
<1>12. ASSUME NEW h \in Hooks, ReadPending(h) PROVE (Claimed /\ Barred)'
    BY <1>12 DEF ReadPending, Leave, Ended, Goto
<1>13. ASSUME NEW h \in Hooks, Late(h) PROVE (Claimed /\ Barred)'
    BY <1>13 DEF Late, Goto
<1>14. ASSUME NEW h \in Hooks, ClaimLate(h) PROVE (Claimed /\ Barred)'
  <2>1. job[h].session \in Sessions /\ Claim(h) /\ UNCHANGED barred
    BY <1>14, FreshIsOwn DEF ClaimLate
  <2>2. QED
    BY <2>1, ClaimTakes
<1>15. ASSUME NEW h \in Hooks, Store(h) PROVE (Claimed /\ Barred)'
    BY <1>15 DEF Store, Put, Leave, Ended
<1>16. ASSUME NEW h \in Hooks, Kill(h) PROVE (Claimed /\ Barred)'
    BY <1>16 DEF Kill, Leave, Ended
<1>17. ASSUME NEW l \in Lines, Commit(l) PROVE (Claimed /\ Barred)'
  <2>1. taken' = Append(taken, {}) /\ claim' = Append(claim, None) /\ UNCHANGED barred
    BY <1>17 DEF Commit
  <2>2. /\ taken' \in Seq(SUBSET Sessions) /\ Len(taken') = Len(taken) + 1 /\ Len(taken) \in Nat
        /\ \A c \in 1 .. Len(taken') : taken'[c] = IF c <= Len(taken) THEN taken[c] ELSE {}
    BY <2>1, Appended
  <2>3. /\ Len(claim') = Len(claim) + 1
        /\ \A c \in 1 .. Len(claim') : claim'[c] = IF c <= Len(claim) THEN claim[c] ELSE None
    <3>1. claim \in Seq(Sessions \union {None})
      OBVIOUS
    <3> HIDE Constants DEF TInv, IInv, Recorded, Claimed, Barred
    <3>2. None \in Sessions \union {None}
      OBVIOUS
    <3>3. QED
      BY <2>1, <3>1, <3>2, Appended
  <2>4. /\ Len(taken') = Len(claim')
        /\ \A c \in 1 .. Len(taken') : taken'[c] # {} => claim'[c] \in taken'[c]
    <3>1. Len(taken) = Len(claim) /\ Len(taken') = Len(claim')
      BY <2>2, <2>3
    <3>2. ASSUME NEW c \in 1 .. Len(taken'), taken'[c] # {} PROVE claim'[c] \in taken'[c]
      <4>1. c \in 1 .. Len(taken) /\ taken'[c] = taken[c]
        BY <2>2, <3>2
      <4>2. claim'[c] = claim[c]
        BY <2>3, <3>1, <4>1
      <4>3. QED
        BY <3>2, <4>1, <4>2
    <3>3. QED
      BY <3>1, <3>2
  <2>5. \A c \in 1 .. Len(taken) : c \in 1 .. Len(taken') /\ taken'[c] = taken[c]
    BY <2>2
  <2>6. QED
    BY <2>1, <2>2, <2>4, <2>5
<1>18. ASSUME NEW l \in Lines, Reset(l) PROVE (Claimed /\ Barred)'
    BY <1>18 DEF Reset
<1>19. ASSUME NEW l \in Lines, Age(l) PROVE (Claimed /\ Barred)'
    BY <1>19 DEF Age
<1>20. ASSUME NEW s \in Sessions, Stale(s) PROVE (Claimed /\ Barred)'
    BY <1>20 DEF Stale
<1>21. CASE UNCHANGED vars
    BY <1>21 DEF vars
<1>22. QED
    BY <1>1, <1>2, <1>3, <1>4, <1>5, <1>6, <1>7, <1>8, <1>9, <1>10, <1>11,
       <1>12, <1>13, <1>14, <1>15, <1>16, <1>17, <1>18, <1>19, <1>20, <1>21 DEF Next

LEMMA RestingNext == TInv /\ [Next]_vars => Resting'
<1> SUFFICES ASSUME TInv, [Next]_vars PROVE Resting'
    OBVIOUS
<1> USE Constants DEF TInv, IInv, Placed, Shaped, Resting, Nothing, git, lines, files, hook, counts, history
<1>1. ASSUME NEW h \in Hooks, NEW l \in Lines, Ask(h, l) PROVE Resting'
    BY <1>1 DEF Ask, Start
<1>2. ASSUME NEW h \in Hooks, NEW l \in Lines, Tell(h, l) PROVE Resting'
    BY <1>2 DEF Tell, Start
<1>3. ASSUME NEW h \in Hooks, NEW s \in Sessions, Event(h, s) PROVE Resting'
    BY <1>3 DEF Event, Start
<1>4. ASSUME NEW h \in Hooks, ReadHead(h) PROVE Resting'
    BY <1>4 DEF ReadHead, Goto
<1>5. ASSUME NEW h \in Hooks, ReadLog(h) PROVE Resting'
    BY <1>5 DEF ReadLog, Goto
<1>6. ASSUME NEW h \in Hooks, Scan(h) PROVE Resting'
    BY <1>6 DEF Scan, Goto
<1>7. ASSUME NEW h \in Hooks, ClaimOwn(h) PROVE Resting'
    BY <1>7, ClaimedOwn
<1>8. ASSUME NEW h \in Hooks, Forget(h) PROVE Resting'
    BY <1>8 DEF Forget, Goto
<1>9. ASSUME NEW h \in Hooks, Unpend(h) PROVE Resting'
    BY <1>9 DEF Unpend, Put, Goto
<1>10. ASSUME NEW h \in Hooks, Keep(h) PROVE Resting'
    BY <1>10 DEF Keep, Goto
<1>11. ASSUME NEW h \in Hooks, Pend(h) PROVE Resting'
    BY <1>11 DEF Pend, Put, Goto
<1>12. ASSUME NEW h \in Hooks, ReadPending(h) PROVE Resting'
  <2>1. CASE Fresh(job[h].session) = {}
    <3>1. Ended(h) /\ UNCHANGED taken
      BY <1>12, <2>1 DEF ReadPending, Leave
    <3>2. QED
      BY <3>1 DEF Ended
  <2>2. CASE Fresh(job[h].session) # {}
    <3>1. pc' = [pc EXCEPT ![h] = "late"] /\ UNCHANGED <<job, mine, taken, barred>>
      BY <1>12, <2>2 DEF ReadPending, Goto
    <3>2. QED
      BY <3>1
  <2>3. QED
    BY <2>1, <2>2
<1>13. ASSUME NEW h \in Hooks, Late(h) PROVE Resting'
    BY <1>13 DEF Late, Goto
<1>14. ASSUME NEW h \in Hooks, ClaimLate(h) PROVE Resting'
    BY <1>14 DEF ClaimLate, Goto
<1>15. ASSUME NEW h \in Hooks, Store(h) PROVE Resting'
    BY <1>15 DEF Store, Put, Leave, Ended
<1>16. ASSUME NEW h \in Hooks, Kill(h) PROVE Resting'
    BY <1>16 DEF Kill, Leave, Ended
<1>17. ASSUME NEW l \in Lines, Commit(l) PROVE Resting'
    BY <1>17 DEF Commit
<1>18. ASSUME NEW l \in Lines, Reset(l) PROVE Resting'
    BY <1>18 DEF Reset
<1>19. ASSUME NEW l \in Lines, Age(l) PROVE Resting'
    BY <1>19 DEF Age
<1>20. ASSUME NEW s \in Sessions, Stale(s) PROVE Resting'
    BY <1>20 DEF Stale
<1>21. CASE UNCHANGED vars
    BY <1>21 DEF vars
<1>22. QED
    BY <1>1, <1>2, <1>3, <1>4, <1>5, <1>6, <1>7, <1>8, <1>9, <1>10, <1>11,
       <1>12, <1>13, <1>14, <1>15, <1>16, <1>17, <1>18, <1>19, <1>20, <1>21 DEF Next

LEMMA AgainNext == TInv /\ [Next]_vars => NotTakenAgain'
<1> SUFFICES ASSUME TInv, [Next]_vars PROVE NotTakenAgain'
    OBVIOUS
<1> USE Constants DEF TInv, IInv, Shaped, Resting, NotTakenAgain, Nothing, git, lines, files, hook, counts, history
<1>1. ASSUME NEW h \in Hooks, NEW l \in Lines, Ask(h, l) PROVE NotTakenAgain'
    BY <1>1 DEF Ask, Start
<1>2. ASSUME NEW h \in Hooks, NEW l \in Lines, Tell(h, l) PROVE NotTakenAgain'
    BY <1>2 DEF Tell, Start
<1>3. ASSUME NEW h \in Hooks, NEW s \in Sessions, Event(h, s) PROVE NotTakenAgain'
    BY <1>3 DEF Event, Start
<1>4. ASSUME NEW h \in Hooks, ReadHead(h) PROVE NotTakenAgain'
    BY <1>4 DEF ReadHead, Goto
<1>5. ASSUME NEW h \in Hooks, ReadLog(h) PROVE NotTakenAgain'
    BY <1>5 DEF ReadLog, Goto
<1>6. ASSUME NEW h \in Hooks, Scan(h) PROVE NotTakenAgain'
  <2>1. mine' = [mine EXCEPT ![h] = mine'[h]] /\ UNCHANGED <<job, taken, barred>>
    BY <1>6 DEF Scan
  <2>2. mine'[h] = Nothing \/ mine'[h] = Landed(job[h].line)
    BY <1>6 DEF Scan
  <2>3. job[h].line \in Of(job[h].session)
    BY <1>6 DEF Scan, Own, Of
  <2>4. \A c \in mine'[h].commits \intersect barred[h] : job[h].session \in taken[c]
    BY <2>2, <2>3, LandedIsOwn
  <2>5. QED
    BY <2>1, <2>4
<1>7. ASSUME NEW h \in Hooks, ClaimOwn(h) PROVE NotTakenAgain'
  <2>1. job[h].session \in Sessions /\ Claim(h) /\ UNCHANGED <<barred, job>>
    BY <1>7, FreshIsOwn DEF ClaimOwn
  <2>4. \A k \in Hooks : mine'[k].commits \subseteq mine[k].commits
    BY <1>7, ClaimedOwn
  <2>2. \A c \in 1 .. Len(taken) : taken[c] \subseteq taken'[c]
    BY <2>1, ClaimTakes
  <2>3. QED
    BY <2>1, <2>2, <2>4 DEF Barred
<1>8. ASSUME NEW h \in Hooks, Forget(h) PROVE NotTakenAgain'
    BY <1>8 DEF Forget, Goto
<1>9. ASSUME NEW h \in Hooks, Unpend(h) PROVE NotTakenAgain'
    BY <1>9 DEF Unpend, Put, Goto
<1>10. ASSUME NEW h \in Hooks, Keep(h) PROVE NotTakenAgain'
    BY <1>10 DEF Keep, Goto
<1>11. ASSUME NEW h \in Hooks, Pend(h) PROVE NotTakenAgain'
    BY <1>11 DEF Pend, Put, Goto
<1>12. ASSUME NEW h \in Hooks, ReadPending(h) PROVE NotTakenAgain'
  <2>1. CASE Fresh(job[h].session) = {}
    <3>1. Ended(h) /\ UNCHANGED taken
      BY <1>12, <2>1 DEF ReadPending, Leave
    <3>2. QED
      BY <3>1 DEF Ended
  <2>2. CASE Fresh(job[h].session) # {}
    <3>1. pc' = [pc EXCEPT ![h] = "late"] /\ UNCHANGED <<job, mine, taken, barred>>
      BY <1>12, <2>2 DEF ReadPending, Goto
    <3>2. QED
      BY <3>1
  <2>3. QED
    BY <2>1, <2>2
<1>13. ASSUME NEW h \in Hooks, Late(h) PROVE NotTakenAgain'
  <2>1. PICK l \in todo[h] : mine' = [mine EXCEPT ![h] = Landed(l)]
    BY <1>13 DEF Late
  <2>2. l \in Of(job[h].session)
    BY DEF Own
  <2>3. \A c \in Landed(l).commits \intersect barred[h] : job[h].session \in taken[c]
    BY <2>2, LandedIsOwn
  <2>4. UNCHANGED <<job, taken, barred>>
    BY <1>13 DEF Late
  <2>5. QED
    BY <2>1, <2>3, <2>4
<1>14. ASSUME NEW h \in Hooks, ClaimLate(h) PROVE NotTakenAgain'
  <2>1. job[h].session \in Sessions /\ Claim(h) /\ UNCHANGED <<barred, mine, job>>
    BY <1>14, FreshIsOwn DEF ClaimLate
  <2>2. \A c \in 1 .. Len(taken) : taken[c] \subseteq taken'[c]
    BY <2>1, ClaimTakes
  <2>3. QED
    BY <2>1, <2>2 DEF Barred
<1>15. ASSUME NEW h \in Hooks, Store(h) PROVE NotTakenAgain'
    BY <1>15 DEF Store, Put, Leave, Ended
<1>16. ASSUME NEW h \in Hooks, Kill(h) PROVE NotTakenAgain'
    BY <1>16 DEF Kill, Leave, Ended
<1>17. ASSUME NEW l \in Lines, Commit(l) PROVE NotTakenAgain'
  <2>1. taken' = Append(taken, {}) /\ UNCHANGED <<barred, mine, job>>
    BY <1>17 DEF Commit
  <2>2. \A c \in 1 .. Len(taken) : taken'[c] = taken[c]
    BY <2>1 DEF Claimed
  <2>3. QED
    BY <2>1, <2>2 DEF Barred
<1>18. ASSUME NEW l \in Lines, Reset(l) PROVE NotTakenAgain'
    BY <1>18 DEF Reset
<1>19. ASSUME NEW l \in Lines, Age(l) PROVE NotTakenAgain'
    BY <1>19 DEF Age
<1>20. ASSUME NEW s \in Sessions, Stale(s) PROVE NotTakenAgain'
    BY <1>20 DEF Stale
<1>21. CASE UNCHANGED vars
    BY <1>21 DEF vars
<1>22. QED
    BY <1>1, <1>2, <1>3, <1>4, <1>5, <1>6, <1>7, <1>8, <1>9, <1>10, <1>11,
       <1>12, <1>13, <1>14, <1>15, <1>16, <1>17, <1>18, <1>19, <1>20, <1>21 DEF Next

LEMMA TInvHolds == (Init => TInv) /\ (TInv /\ [Next]_vars => TInv')
<1>1. Init => TInv
  <2> SUFFICES ASSUME Init PROVE TInv
      OBVIOUS
  <2>1. Claimed /\ Barred
      BY DEF Init, Claimed, Barred
  <2>2. Resting /\ NotTakenAgain
      BY DEF Init, Resting, NotTakenAgain, Nothing
  <2>3. QED
      BY <2>1, <2>2, InitTyped DEF TInv
<1>2. TInv /\ [Next]_vars => TInv'
    BY TypedNext, ClaimedNext, RestingNext,
       AgainNext DEF TInv, IInv
<1>3. QED
    BY <1>1, <1>2

\* What another session had taken when a hook starts, that hook leaves alone,
\* unless its own session took it too, both racing for a claim: for any
\* sessions, hooks killed anywhere, and any interleaving of their files.
THEOREM TakenOnce == Spec => []NotTakenAgain
<1>1. TInv => NotTakenAgain
    BY DEF TInv
<1>2. QED
    BY <1>1, TInvHolds, PTL DEF Spec
-----------------------------------------------------------------------------
(* Commits and what they grow from.                                        *)

\* The recursion over parents is unrolled without induction: the ancestors
\* of a commit lie in every set that holds it and the parents of its members.
Tree(p) == p \in Seq(Nat) /\ \A c \in 1 .. Len(p) : p[c] \in 0 .. c - 1

Closed(p) == {S \in SUBSET (0 .. Len(p)) : \A c \in S : c # 0 => p[c] \in S}

Anc(p, c) == {d \in 0 .. Len(p) : \A S \in Closed(p) : c \in S => d \in S}

LEMMA Least ==
    ASSUME NEW T, T \subseteq Nat, T # {}
    PROVE  \E n \in T : \A m \in T : n <= m
<1> DEFINE Less == {ss \in Nat \X Nat : ss[1] < ss[2]}
<1>1. IsWellFoundedOn(Less, Nat)
    BY NatLessThanWellFounded DEF OpToRel
<1>2. \A m, n \in Nat : m < n => <<m, n>> \in Less
    BY SMT
<1> HIDE DEF Less
<1>3. PICK n \in T : \A m \in T : ~(<<m, n>> \in Less)
    BY <1>1, WFMin
<1>4. ASSUME NEW m \in T PROVE n <= m
  <2>1. m \in Nat /\ n \in Nat
    OBVIOUS
  <2>2. ~(m < n)
    BY <1>2, <1>3, <2>1
  <2>3. QED
    BY <2>1, <2>2
<1>5. QED
    BY <1>4

LEMMA UpToIsClosed ==
    ASSUME NEW p, Tree(p), NEW c \in 0 .. Len(p)
    PROVE  0 .. c \in Closed(p)
<1>1. Len(p) \in Nat /\ c \in Nat /\ c <= Len(p)
    BY DEF Tree
<1>2. ASSUME NEW d \in 0 .. c, d # 0 PROVE p[d] \in 0 .. c
  <2>1. d \in 1 .. Len(p)
    BY <1>1, <1>2
  <2>2. p[d] \in 0 .. d - 1
    BY <2>1 DEF Tree
  <2>3. QED
    BY <1>1, <2>1, <2>2
<1>3. QED
    BY <1>1, <1>2 DEF Closed

LEMMA AncRoot == ASSUME NEW p, Tree(p) PROVE Anc(p, 0) = {0}
<1>1. Len(p) \in Nat /\ 0 \in 0 .. Len(p) /\ 0 .. 0 = {0}
    BY DEF Tree
<1>2. {0} \in Closed(p)
    BY <1>1, UpToIsClosed
<1>3. QED
    BY <1>1, <1>2 DEF Anc

LEMMA AncParent ==
    ASSUME NEW p, Tree(p), NEW c \in 1 .. Len(p)
    PROVE  Anc(p, c) = {c} \union Anc(p, p[c])
<1>1. Len(p) \in Nat /\ c \in 0 .. Len(p) /\ p[c] \in 0 .. Len(p) /\ c # 0
    BY DEF Tree
<1>2. ASSUME NEW d \in Anc(p, c), d # c PROVE d \in Anc(p, p[c])
  <2>1. ASSUME NEW S \in Closed(p), p[c] \in S PROVE d \in S
    <3>1. S \union {c} \in Closed(p)
      BY <1>1, <2>1 DEF Closed
    <3>2. QED
      BY <1>2, <3>1 DEF Anc
  <2>2. QED
    BY <2>1 DEF Anc
<1>3. ASSUME NEW d \in Anc(p, p[c]) PROVE d \in Anc(p, c)
    BY <1>1 DEF Anc, Closed
<1>4. c \in Anc(p, c)
    BY <1>1 DEF Anc
<1>5. QED
    BY <1>2, <1>3, <1>4

LEMMA AncSelf == ASSUME NEW p, NEW c \in 0 .. Len(p) PROVE c \in Anc(p, c)
BY DEF Anc

LEMMA AncBelow ==
    ASSUME NEW p, Tree(p), NEW c \in 0 .. Len(p)
    PROVE  Anc(p, c) \subseteq 0 .. c
<1>1. c \in Nat /\ c \in 0 .. c
    BY DEF Tree
<1>2. QED
    BY <1>1, UpToIsClosed DEF Anc

LEMMA AncTransitive ==
    ASSUME NEW p, NEW c, NEW d \in Anc(p, c)
    PROVE  Anc(p, d) \subseteq Anc(p, c)
BY DEF Anc

\* A new commit is no one's ancestor but its own.
LEMMA AncAppend ==
    ASSUME NEW p, Tree(p), NEW x \in 0 .. Len(p), NEW q, q = Append(p, x)
    PROVE  /\ Tree(q) /\ Len(q) = Len(p) + 1
           /\ \A c \in 0 .. Len(p) : Anc(q, c) = Anc(p, c)
           /\ Anc(q, Len(q)) = {Len(q)} \union Anc(p, x)
<1>1. /\ p \in Seq(Nat) /\ Len(p) \in Nat /\ x \in Nat
      /\ q \in Seq(Nat) /\ Len(q) = Len(p) + 1
      /\ \A i \in 1 .. Len(p) : q[i] = p[i]
      /\ q[Len(p) + 1] = x
    BY DEF Tree
<1>2. Tree(q)
  <2>1. ASSUME NEW c \in 1 .. Len(q) PROVE q[c] \in 0 .. c - 1
    <3>1. CASE c \in 1 .. Len(p)
      BY <1>1, <3>1 DEF Tree
    <3>2. CASE c = Len(p) + 1
      BY <1>1, <3>2
    <3>3. QED
      BY <1>1, <3>1, <3>2
  <2>2. QED
    BY <1>1, <2>1 DEF Tree
<1>3. ASSUME NEW c \in 0 .. Len(p) PROVE Anc(q, c) = Anc(p, c)
  <2>1. ASSUME NEW S \in Closed(p) PROVE S \in Closed(q)
    <3>1. S \subseteq 0 .. Len(q)
      BY <1>1 DEF Closed
    <3>2. ASSUME NEW d \in S, d # 0 PROVE q[d] \in S
      <4>1. d \in 1 .. Len(p) /\ p[d] \in S
        BY <3>2, <1>1 DEF Closed
      <4>2. QED
        BY <1>1, <4>1
    <3>3. QED
      BY <3>1, <3>2 DEF Closed
  <2>2. ASSUME NEW S \in Closed(q) PROVE S \intersect (0 .. Len(p)) \in Closed(p)
    <3>1. ASSUME NEW d \in S \intersect (0 .. Len(p)), d # 0
          PROVE  p[d] \in S \intersect (0 .. Len(p))
      <4>1. d \in 1 .. Len(p) /\ q[d] \in S
        BY <3>1, <1>1 DEF Closed
      <4>2. p[d] \in 0 .. d - 1 /\ q[d] = p[d]
        BY <1>1, <4>1 DEF Tree
      <4>3. QED
        BY <1>1, <4>1, <4>2
    <3>2. QED
      BY <3>1 DEF Closed
  <2>3. Anc(q, c) \subseteq 0 .. Len(p)
    <3>1. c \in 0 .. Len(q)
      BY <1>1
    <3>2. Anc(q, c) \subseteq 0 .. c
      BY <1>2, <3>1, AncBelow
    <3>3. QED
      BY <1>1, <3>2
  <2>4. ASSUME NEW d \in Anc(q, c) PROVE d \in Anc(p, c)
    BY <2>1, <2>3, <2>4 DEF Anc
  <2>5. ASSUME NEW d \in Anc(p, c) PROVE d \in Anc(q, c)
    <3>1. d \in 0 .. Len(p) /\ d \in 0 .. Len(q)
      BY <1>1 DEF Anc
    <3>2. ASSUME NEW S \in Closed(q), c \in S PROVE d \in S
      BY <2>2, <3>2 DEF Anc
    <3>3. QED
      BY <3>1, <3>2 DEF Anc
  <2>6. QED
    BY <2>4, <2>5
<1>4. Anc(q, Len(q)) = {Len(q)} \union Anc(q, x)
  <2>1. Len(q) \in 1 .. Len(q) /\ q[Len(q)] = x
    BY <1>1
  <2>2. Anc(q, Len(q)) = {Len(q)} \union Anc(q, q[Len(q)])
    BY <1>2, <2>1, AncParent
  <2>3. QED
    BY <2>1, <2>2
<1>5. QED
    BY <1>1, <1>2, <1>3, <1>4

LEMMA TreeOfParents == IInv => Tree(parents)
BY DEF IInv, Recorded, Tree

LEMMA AncestorsAre ==
    ASSUME IInv, NEW c \in Commits
    PROVE  Ancestors(c) = Anc(parents, c)
<1> DEFINE
      Step(f) == [d \in Commits |-> IF d = 0 THEN {0} ELSE {d} \union f[parents[d]]]
      upto == CHOOSE f : f = Step(f)
      a == [d \in Commits |-> Anc(parents, d)]
<1>1. Tree(parents) /\ Len(parents) \in Nat /\ Commits = 0 .. Len(parents)
    BY TreeOfParents DEF Tree, Commits
<1>2. a = Step(a)
  <2>1. ASSUME NEW d \in Commits PROVE a[d] = Step(a)[d]
    <3>1. CASE d = 0
      BY <1>1, <3>1, AncRoot
    <3>2. CASE d # 0
      <4>1. d \in 1 .. Len(parents) /\ parents[d] \in Commits
        BY <1>1, <3>2 DEF Tree
      <4>2. QED
        BY <1>1, <3>2, <4>1, AncParent
    <3>3. QED
      BY <3>1, <3>2
  <2>2. QED
    BY <2>1
<1>3. upto = Step(upto)
  <2> HIDE DEF Step, a
  <2>1. QED
    BY <1>2
<1>4. Ancestors(c) = upto[c]
    BY DEF Ancestors
<1> DEFINE T == {d \in Commits : upto[d] # a[d]}
<1>5. ASSUME T # {} PROVE FALSE
  <2>1. T \subseteq Nat
    BY <1>1
  <2>2. PICK d \in T : \A e \in T : d <= e
    <3> HIDE DEF T
    <3>1. QED
      BY <1>5, <2>1, Least
  <2> HIDE DEF upto, a
  <2>3. upto[d] = (IF d = 0 THEN {0} ELSE {d} \union upto[parents[d]])
    BY <1>3
  <2>4. a[d] = (IF d = 0 THEN {0} ELSE {d} \union a[parents[d]])
    BY <1>2
  <2>5. d # 0 /\ d \in 1 .. Len(parents)
    BY <1>1, <2>3, <2>4
  <2>6. parents[d] \in Commits /\ parents[d] < d /\ d \in Nat /\ parents[d] \in Nat
    BY <1>1, <2>5 DEF Tree
  <2>7. upto[parents[d]] = a[parents[d]]
    BY <2>2, <2>6
  <2>8. QED
    BY <2>3, <2>4, <2>5, <2>7
<1>6. QED
  <2>1. upto[c] = a[c]
    <3> HIDE DEF upto, a
    <3>1. QED
      BY <1>5
  <2>2. QED
    BY <1>4, <2>1

-----------------------------------------------------------------------------
(* Which step changes what.                                                *)

\* The commits and the reflog change with a line's git alone.
LEMMA GitStep ==
    [Next]_vars => \/ UNCHANGED <<parents, head, log, maker>>
                   \/ \E l \in Lines : Commit(l) \/ Reset(l)
<1> SUFFICES ASSUME [Next]_vars
             PROVE  \/ UNCHANGED <<parents, head, log, maker>>
                    \/ \E l \in Lines : Commit(l) \/ Reset(l)
    OBVIOUS
<1> USE DEF git, lines, files, hook, counts, history
<1> DEFINE Goal == \/ UNCHANGED <<parents, head, log, maker>>
                   \/ \E l \in Lines : Commit(l) \/ Reset(l)
<1>1. ASSUME NEW h \in Hooks, NEW l \in Lines, Ask(h, l) PROVE Goal
    BY <1>1 DEF Ask, Start
<1>2. ASSUME NEW h \in Hooks, NEW l \in Lines, Tell(h, l) PROVE Goal
    BY <1>2 DEF Tell, Start
<1>3. ASSUME NEW h \in Hooks, NEW s \in Sessions, Event(h, s) PROVE Goal
    BY <1>3 DEF Event, Start
<1>4. ASSUME NEW h \in Hooks, ReadHead(h) PROVE Goal
    BY <1>4 DEF ReadHead
<1>5. ASSUME NEW h \in Hooks, ReadLog(h) PROVE Goal
    BY <1>5 DEF ReadLog
<1>6. ASSUME NEW h \in Hooks, Scan(h) PROVE Goal
    BY <1>6 DEF Scan
<1>7. ASSUME NEW h \in Hooks, ClaimOwn(h) PROVE Goal
    BY <1>7 DEF ClaimOwn, Claim
<1>8. ASSUME NEW h \in Hooks, Forget(h) PROVE Goal
    BY <1>8 DEF Forget
<1>9. ASSUME NEW h \in Hooks, Unpend(h) PROVE Goal
    BY <1>9 DEF Unpend, Put
<1>10. ASSUME NEW h \in Hooks, Keep(h) PROVE Goal
    BY <1>10 DEF Keep
<1>11. ASSUME NEW h \in Hooks, Pend(h) PROVE Goal
    BY <1>11 DEF Pend, Put
<1>12. ASSUME NEW h \in Hooks, ReadPending(h) PROVE Goal
    BY <1>12 DEF ReadPending, Leave, Ended
<1>13. ASSUME NEW h \in Hooks, Late(h) PROVE Goal
    BY <1>13 DEF Late
<1>14. ASSUME NEW h \in Hooks, ClaimLate(h) PROVE Goal
    BY <1>14 DEF ClaimLate, Claim
<1>15. ASSUME NEW h \in Hooks, Store(h) PROVE Goal
    BY <1>15 DEF Store, Put, Leave, Ended
<1>16. ASSUME NEW h \in Hooks, Kill(h) PROVE Goal
    BY <1>16 DEF Kill, Leave, Ended
<1>17. ASSUME NEW l \in Lines, Commit(l) PROVE Goal
    BY <1>17
<1>18. ASSUME NEW l \in Lines, Reset(l) PROVE Goal
    BY <1>18
<1>19. ASSUME NEW l \in Lines, Age(l) PROVE Goal
    BY <1>19 DEF Age
<1>20. ASSUME NEW s \in Sessions, Stale(s) PROVE Goal
    BY <1>20 DEF Stale
<1>21. CASE UNCHANGED vars
    BY <1>21 DEF vars
<1>22. QED
    BY <1>1, <1>2, <1>3, <1>4, <1>5, <1>6, <1>7, <1>8, <1>9, <1>10, <1>11,
       <1>12, <1>13, <1>14, <1>15, <1>16, <1>17, <1>18, <1>19, <1>20, <1>21 DEF Next

\* A line has one hook at a time: the one before it, which it waits for, and
\* then the one after it.
OneHook ==
    \A h, k \in Hooks : job[h].line # None /\ job[h].line = job[k].line => h = k

Phases ==
    /\ \A h \in Hooks :
         /\ job[h].line # None => stage[job[h].line] = "asked" \/ job[h].line \in posted
         /\ pc[h] \in {"head", "log"} => stage[job[h].line] = "asked"
         /\ pc[h] \in {"record", "claim", "keep", "pend"} => job[h].line \in posted
    /\ \A l \in posted : stage[l] = IF l \in Background THEN "runs" ELSE "over"

Turns == IInv /\ OneHook /\ Phases
LEMMA EndedTurns ==
    ASSUME Turns, NEW h \in Hooks, Ended(h), UNCHANGED posted
    PROVE  (OneHook /\ Phases)'
<1> USE Constants DEF Turns, IInv, Placed, Shaped, Own
<1>1. /\ \A k \in Hooks : pc'[k] = IF k = h THEN "idle" ELSE pc[k]
      /\ \A k \in Hooks : job'[k] = IF k = h THEN NoJob ELSE job[k]
      /\ \A l \in Lines : stage'[l] = IF l = job[h].line /\ stage[l] = "asked" THEN "runs" ELSE stage[l]
    BY DEF Ended
<1>2. OneHook'
    BY <1>1 DEF OneHook, NoJob
<1>3. ASSUME NEW k \in Hooks, job'[k].line # None
      PROVE  k # h /\ job[k].line \in Lines /\ job[k].line # job[h].line
  <2>1. k # h /\ job'[k] = job[k]
    BY <1>1, <1>3 DEF NoJob
  <2>2. QED
    BY <1>3, <2>1 DEF OneHook
<1>4. ASSUME NEW k \in Hooks, job'[k].line # None
      PROVE  stage'[job'[k].line] = "asked" \/ job'[k].line \in posted'
    BY <1>1, <1>3, <1>4 DEF Phases
<1>5. ASSUME NEW k \in Hooks, pc'[k] \in {"head", "log", "record", "claim", "keep", "pend"}
      PROVE  job'[k].line # None /\ pc'[k] = pc[k] /\ job'[k] = job[k]
    BY <1>1, <1>5
<1>6. ASSUME NEW l \in posted' PROVE stage'[l] = IF l \in Background THEN "runs" ELSE "over"
    BY <1>1 DEF Phases
<1>7. QED
  <2>1. ASSUME NEW k \in Hooks, pc'[k] \in {"head", "log"} PROVE stage'[job'[k].line] = "asked"
    BY <1>1, <1>3, <1>5, <2>1 DEF Phases
  <2>2. ASSUME NEW k \in Hooks, pc'[k] \in {"record", "claim", "keep", "pend"}
        PROVE job'[k].line \in posted'
    BY <1>5, <2>2 DEF Phases
  <2>3. QED
    BY <1>2, <1>4, <1>6, <2>1, <2>2 DEF Phases

LEMMA TurnsNext == Turns /\ [Next]_vars => (OneHook /\ Phases)'
<1> SUFFICES ASSUME Turns, [Next]_vars PROVE (OneHook /\ Phases)'
    OBVIOUS
<1> USE Constants DEF Turns, OneHook, Phases, IInv, Placed, Shaped, Own, git, lines, files, hook, counts, history
<1>1. ASSUME NEW h \in Hooks, NEW l \in Lines, Ask(h, l) PROVE (OneHook /\ Phases)'
    BY <1>1 DEF Ask, Start
<1>2. ASSUME NEW h \in Hooks, NEW l \in Lines, Tell(h, l) PROVE (OneHook /\ Phases)'
    BY <1>2 DEF Tell, Start
<1>3. ASSUME NEW h \in Hooks, NEW s \in Sessions, Event(h, s) PROVE (OneHook /\ Phases)'
    BY <1>3 DEF Event, Start
<1>4. ASSUME NEW h \in Hooks, ReadHead(h) PROVE (OneHook /\ Phases)'
    BY <1>4 DEF ReadHead, Goto
<1>5. ASSUME NEW h \in Hooks, ReadLog(h) PROVE (OneHook /\ Phases)'
    BY <1>5 DEF ReadLog, Goto
<1>6. ASSUME NEW h \in Hooks, Scan(h) PROVE (OneHook /\ Phases)'
    BY <1>6 DEF Scan, Goto
<1>7. ASSUME NEW h \in Hooks, ClaimOwn(h) PROVE (OneHook /\ Phases)'
    BY <1>7 DEF ClaimOwn, Claim, Goto
<1>8. ASSUME NEW h \in Hooks, Forget(h) PROVE (OneHook /\ Phases)'
    BY <1>8 DEF Forget, Goto
<1>9. ASSUME NEW h \in Hooks, Unpend(h) PROVE (OneHook /\ Phases)'
    BY <1>9 DEF Unpend, Put, Goto
<1>10. ASSUME NEW h \in Hooks, Keep(h) PROVE (OneHook /\ Phases)'
    BY <1>10 DEF Keep, Goto
<1>11. ASSUME NEW h \in Hooks, Pend(h) PROVE (OneHook /\ Phases)'
    BY <1>11 DEF Pend, Put, Goto
<1>12. ASSUME NEW h \in Hooks, ReadPending(h) PROVE (OneHook /\ Phases)'
  <2>1. CASE Fresh(job[h].session) = {}
    <3>1. Ended(h) /\ UNCHANGED posted
      BY <1>12, <2>1 DEF ReadPending, Leave
    <3>2. QED
      BY <3>1, EndedTurns
  <2>2. CASE Fresh(job[h].session) # {}
    <3>1. pc' = [pc EXCEPT ![h] = "late"] /\ UNCHANGED <<job, stage, posted>>
      BY <1>12, <2>2 DEF ReadPending, Goto
    <3>2. QED
      BY <3>1
  <2>3. QED
    BY <2>1, <2>2
<1>13. ASSUME NEW h \in Hooks, Late(h) PROVE (OneHook /\ Phases)'
    BY <1>13 DEF Late, Goto
<1>14. ASSUME NEW h \in Hooks, ClaimLate(h) PROVE (OneHook /\ Phases)'
    BY <1>14 DEF ClaimLate, Claim, Goto
<1>15. ASSUME NEW h \in Hooks, Store(h) PROVE (OneHook /\ Phases)'
  <2>1. Ended(h) /\ UNCHANGED posted
    BY <1>15 DEF Store, Leave
  <2>2. QED
    BY <2>1, EndedTurns
<1>16. ASSUME NEW h \in Hooks, Kill(h) PROVE (OneHook /\ Phases)'
  <2>1. Ended(h) /\ UNCHANGED posted
    BY <1>16 DEF Kill, Leave
  <2>2. QED
    BY <2>1, EndedTurns
<1>17. ASSUME NEW l \in Lines, Commit(l) PROVE (OneHook /\ Phases)'
    BY <1>17 DEF Commit
<1>18. ASSUME NEW l \in Lines, Reset(l) PROVE (OneHook /\ Phases)'
    BY <1>18 DEF Reset
<1>19. ASSUME NEW l \in Lines, Age(l) PROVE (OneHook /\ Phases)'
    BY <1>19 DEF Age
<1>20. ASSUME NEW s \in Sessions, Stale(s) PROVE (OneHook /\ Phases)'
    BY <1>20 DEF Stale
<1>21. CASE UNCHANGED vars
    BY <1>21 DEF vars
<1>22. QED
    BY <1>1, <1>2, <1>3, <1>4, <1>5, <1>6, <1>7, <1>8, <1>9, <1>10, <1>11,
       <1>12, <1>13, <1>14, <1>15, <1>16, <1>17, <1>18, <1>19, <1>20, <1>21 DEF Next

\* The record of a line is written by the hook before it alone.
LEMMA BeforeStep ==
    ASSUME Turns, [Next]_vars, NEW l \in Lines,
           \A h \in Hooks : pc[h] \in {"head", "log"} => job[h].line # l
    PROVE  before'[l] = before[l]
<1> USE DEF Turns, IInv, Noted, git, lines, files, hook, counts, history
<1> DEFINE Goal == before'[l] = before[l]
<1>1. ASSUME NEW h \in Hooks, NEW m \in Lines, Ask(h, m) PROVE Goal
    BY <1>1 DEF Ask, Start
<1>2. ASSUME NEW h \in Hooks, NEW m \in Lines, Tell(h, m) PROVE Goal
    BY <1>2 DEF Tell, Start
<1>3. ASSUME NEW h \in Hooks, NEW s \in Sessions, Event(h, s) PROVE Goal
    BY <1>3 DEF Event, Start
<1>4. ASSUME NEW h \in Hooks, ReadHead(h) PROVE Goal
    BY <1>4 DEF ReadHead
<1>5. ASSUME NEW h \in Hooks, ReadLog(h) PROVE Goal
    BY <1>5 DEF ReadLog
<1>6. ASSUME NEW h \in Hooks, Scan(h) PROVE Goal
    BY <1>6 DEF Scan
<1>7. ASSUME NEW h \in Hooks, ClaimOwn(h) PROVE Goal
    BY <1>7 DEF ClaimOwn, Claim
<1>8. ASSUME NEW h \in Hooks, Forget(h) PROVE Goal
    BY <1>8 DEF Forget
<1>9. ASSUME NEW h \in Hooks, Unpend(h) PROVE Goal
    BY <1>9 DEF Unpend
<1>10. ASSUME NEW h \in Hooks, Keep(h) PROVE Goal
    BY <1>10 DEF Keep
<1>11. ASSUME NEW h \in Hooks, Pend(h) PROVE Goal
    BY <1>11 DEF Pend
<1>12. ASSUME NEW h \in Hooks, ReadPending(h) PROVE Goal
    BY <1>12 DEF ReadPending, Leave
<1>13. ASSUME NEW h \in Hooks, Late(h) PROVE Goal
    BY <1>13 DEF Late
<1>14. ASSUME NEW h \in Hooks, ClaimLate(h) PROVE Goal
    BY <1>14 DEF ClaimLate, Claim
<1>15. ASSUME NEW h \in Hooks, Store(h) PROVE Goal
    BY <1>15 DEF Store, Leave
<1>16. ASSUME NEW h \in Hooks, Kill(h) PROVE Goal
    BY <1>16 DEF Kill, Leave
<1>17. ASSUME NEW m \in Lines, Commit(m) PROVE Goal
    BY <1>17 DEF Commit
<1>18. ASSUME NEW m \in Lines, Reset(m) PROVE Goal
    BY <1>18 DEF Reset
<1>19. ASSUME NEW m \in Lines, Age(m) PROVE Goal
    BY <1>19 DEF Age
<1>20. ASSUME NEW s \in Sessions, Stale(s) PROVE Goal
    BY <1>20 DEF Stale
<1>21. CASE UNCHANGED vars
    BY <1>21 DEF vars
<1>22. QED
    BY <1>1, <1>2, <1>3, <1>4, <1>5, <1>6, <1>7, <1>8, <1>9, <1>10, <1>11,
       <1>12, <1>13, <1>14, <1>15, <1>16, <1>17, <1>18, <1>19, <1>20, <1>21 DEF Next

\* The lines whose record some hook may read yet.
Recs ==
    {l \in Lines :
        \/ l \in filed
        \/ \E s \in Sessions : l \in pending[s]
        \/ \E h \in Hooks : \/ l \in view[h] \union todo[h] \union wait[h]
                            \/ pc[h] \in {"keep", "pend"} /\ job[h].line = l}

\* They began, their record is whole, and what was committed since is later
\* than the HEAD they began on: it was read before the reflog's length.
Later(l) ==
    \A i \in before[l].from + 1 .. Len(log) :
        log[i].act # "reset" => before[l].head < log[i].new

Ready(l) ==
    /\ stage[l] # "new"
    /\ \A h \in Hooks : pc[h] \in {"head", "log"} => job[h].line # l
    /\ Later(l)

Known == \A l \in Recs : Ready(l)

LEMMA RecsStep ==
    ASSUME Turns, [Next]_vars, NEW l \in Recs', l \notin Recs
    PROVE  \E h \in Hooks : ReadLog(h) /\ job[h].line = l
<1> USE Constants DEF Turns, IInv, Placed, Shaped, Own, Recs, git, lines, files, hook, counts, history
<1> DEFINE Goal == \E h \in Hooks : ReadLog(h) /\ job[h].line = l
<1>1. ASSUME NEW h \in Hooks, NEW m \in Lines, Ask(h, m) PROVE Goal
    BY <1>1 DEF Ask, Start
<1>2. ASSUME NEW h \in Hooks, NEW m \in Lines, Tell(h, m) PROVE Goal
    BY <1>2 DEF Tell, Start
<1>3. ASSUME NEW h \in Hooks, NEW s \in Sessions, Event(h, s) PROVE Goal
    BY <1>3 DEF Event, Start
<1>4. ASSUME NEW h \in Hooks, ReadHead(h) PROVE Goal
    BY <1>4 DEF ReadHead, Goto
<1>5. ASSUME NEW h \in Hooks, ReadLog(h) PROVE Goal
    BY <1>5 DEF ReadLog, Goto
<1>6. ASSUME NEW h \in Hooks, Scan(h) PROVE Goal
    BY <1>6 DEF Scan, Goto
<1>7. ASSUME NEW h \in Hooks, ClaimOwn(h) PROVE Goal
    BY <1>7 DEF ClaimOwn, Claim, Goto
<1>8. ASSUME NEW h \in Hooks, Forget(h) PROVE Goal
  <2>1. job[h].session \in Sessions /\ Fresh(job[h].session) \subseteq pending[job[h].session]
    BY <1>8 DEF Forget, Fresh
  <2>2. QED
    BY <1>8, <2>1 DEF Forget, Goto
<1>9. ASSUME NEW h \in Hooks, Unpend(h) PROVE Goal
    BY <1>9 DEF Unpend, Put, Goto
<1>10. ASSUME NEW h \in Hooks, Keep(h) PROVE Goal
  <2>1. job[h].session \in Sessions /\ Fresh(job[h].session) \subseteq pending[job[h].session]
    BY <1>10 DEF Keep, Fresh
  <2>2. QED
    BY <1>10, <2>1 DEF Keep, Goto
<1>11. ASSUME NEW h \in Hooks, Pend(h) PROVE Goal
    BY <1>11 DEF Pend, Put, Goto
<1>12. ASSUME NEW h \in Hooks, ReadPending(h) PROVE Goal
  <2>1. job[h].session \in Sessions /\ Fresh(job[h].session) \subseteq pending[job[h].session]
    BY <1>12 DEF ReadPending, Fresh
  <2>2. CASE Fresh(job[h].session) = {}
    <3>1. Ended(h) /\ UNCHANGED <<filed, pending>>
      BY <1>12, <2>2 DEF ReadPending, Leave
    <3>2. QED
      BY <3>1 DEF Ended
  <2>3. CASE Fresh(job[h].session) # {}
    BY <1>12, <2>1, <2>3 DEF ReadPending, Goto
  <2>4. QED
    BY <2>2, <2>3
<1>13. ASSUME NEW h \in Hooks, Late(h) PROVE Goal
    BY <1>13 DEF Late, Goto
<1>14. ASSUME NEW h \in Hooks, ClaimLate(h) PROVE Goal
  <2>1. mine[h].line \in view[h]
    BY <1>14, LateLine
  <2>2. UNCHANGED <<filed, pending, job, view, todo>>
    BY <1>14 DEF ClaimLate
  <2>3. \A k \in Hooks : wait'[k] \subseteq wait[k] \union view[k]
    BY <1>14, <2>1, ClaimedLate, SMTT(20)
  <2>4. \A k \in Hooks : pc'[k] \in {"keep", "pend"} => pc'[k] = pc[k]
    BY <1>14, ClaimedLate
  <2>5. QED
    BY <2>2, <2>3, <2>4
<1>15. ASSUME NEW h \in Hooks, Store(h) PROVE Goal
    BY <1>15 DEF Store, Put, Leave, Ended
<1>16. ASSUME NEW h \in Hooks, Kill(h) PROVE Goal
    BY <1>16 DEF Kill, Leave, Ended
<1>17. ASSUME NEW m \in Lines, Commit(m) PROVE Goal
    BY <1>17 DEF Commit
<1>18. ASSUME NEW m \in Lines, Reset(m) PROVE Goal
    BY <1>18 DEF Reset
<1>19. ASSUME NEW m \in Lines, Age(m) PROVE Goal
    BY <1>19 DEF Age
<1>20. ASSUME NEW s \in Sessions, Stale(s) PROVE Goal
    BY <1>20 DEF Stale
<1>21. CASE UNCHANGED vars
    BY <1>21 DEF vars
<1>22. QED
    BY <1>1, <1>2, <1>3, <1>4, <1>5, <1>6, <1>7, <1>8, <1>9, <1>10, <1>11,
       <1>12, <1>13, <1>14, <1>15, <1>16, <1>17, <1>18, <1>19, <1>20, <1>21 DEF Next

-----------------------------------------------------------------------------
(* The branch and its reflog.                                              *)

LEMMA CommitAdds ==
    ASSUME IInv, NEW l \in Lines, Commit(l)
    PROVE  /\ Tree(parents') /\ Len(parents') = Len(parents) + 1 /\ head' = Len(parents')
           /\ \A c \in 0 .. Len(parents) : Anc(parents', c) = Anc(parents, c)
           /\ Anc(parents', head') \subseteq {head'} \union Anc(parents, head)
           /\ Len(log') = Len(log) + 1
           /\ \A i \in 1 .. Len(log) : log'[i] = log[i]
           /\ log'[Len(log) + 1].new = head'
           /\ log'[Len(log) + 1].act \in Verbs[l] \ {"reset"}
<1>1. PICK act \in Verbs[l] \ {"reset"} :
         /\ act = "amend" => head # 0
         /\ parents' = Append(parents, IF act = "amend" THEN parents[head] ELSE head)
         /\ head' = Len(parents) + 1
         /\ log' = Append(log, [old |-> head, new |-> Len(parents) + 1, act |-> act])
    BY DEF Commit
<1> DEFINE x == IF act = "amend" THEN parents[head] ELSE head
           e == [old |-> head, new |-> Len(parents) + 1, act |-> act]
<1>2. Tree(parents) /\ head \in 0 .. Len(parents) /\ Len(parents) \in Nat
  <2>1. Tree(parents) /\ Recorded
    BY TreeOfParents DEF IInv
  <2>2. QED
    BY <2>1 DEF Recorded
<1>3. x \in 0 .. Len(parents) /\ Anc(parents, x) \subseteq Anc(parents, head)
  <2>1. CASE act = "amend"
    <3>1. head \in 1 .. Len(parents)
      BY <1>1, <1>2, <2>1
    <3>2. parents[head] \in 0 .. Len(parents)
      BY <1>2, <3>1 DEF Tree
    <3>3. Anc(parents, parents[head]) \subseteq Anc(parents, head)
      BY <1>2, <3>1, AncParent
    <3>4. QED
      BY <2>1, <3>2, <3>3
  <2>2. CASE act # "amend"
    BY <1>2, <2>2
  <2>3. QED
    BY <2>1, <2>2
<1>4. parents' = Append(parents, x) /\ log' = Append(log, e) /\ e.new = Len(parents) + 1 /\ e.act = act
    BY <1>1
<1> HIDE DEF x, e
<1>5. /\ Tree(parents') /\ Len(parents') = Len(parents) + 1
      /\ \A c \in 0 .. Len(parents) : Anc(parents', c) = Anc(parents, c)
      /\ Anc(parents', Len(parents')) = {Len(parents')} \union Anc(parents, x)
  <2>1. Tree(parents) /\ x \in 0 .. Len(parents) /\ parents' = Append(parents, x)
    BY <1>2, <1>3, <1>4
  <2>2. \A q : q = Append(parents, x) =>
            /\ Tree(q) /\ Len(q) = Len(parents) + 1
            /\ \A c \in 0 .. Len(parents) : Anc(q, c) = Anc(parents, c)
            /\ Anc(q, Len(q)) = {Len(q)} \union Anc(parents, x)
    BY <2>1, AncAppend
  <2>3. QED
    BY <2>1, <2>2
<1>6. /\ Len(log') = Len(log) + 1
      /\ \A i \in 1 .. Len(log) : log'[i] = log[i]
      /\ log'[Len(log) + 1] = e
  <2>1. log \in Seq([old : Nat, new : Nat, act : Actions])
    BY DEF IInv, Recorded
  <2>2. QED
    BY <1>4, <2>1
<1>7. QED
    BY <1>1, <1>3, <1>4, <1>5, <1>6

LEMMA ResetAdds ==
    ASSUME IInv, NEW l \in Lines, Reset(l)
    PROVE  /\ UNCHANGED <<parents, maker>> /\ head' \in 0 .. Len(parents)
           /\ Anc(parents, head') \subseteq Anc(parents, head)
           /\ Len(log') = Len(log) + 1
           /\ \A i \in 1 .. Len(log) : log'[i] = log[i]
           /\ log'[Len(log) + 1].new = head' /\ log'[Len(log) + 1].act = "reset"
<1>1. /\ head # 0 /\ head' = parents[head] /\ UNCHANGED <<parents, maker>>
      /\ log' = Append(log, [old |-> head, new |-> parents[head], act |-> "reset"])
    BY DEF Reset, history
<1>2. Tree(parents) /\ head \in 1 .. Len(parents) /\ Len(parents) \in Nat
    BY <1>1, TreeOfParents DEF IInv, Recorded
<1>3. parents[head] \in 0 .. Len(parents) /\ Anc(parents, parents[head]) \subseteq Anc(parents, head)
  <2>1. parents[head] \in 0 .. Len(parents)
    BY <1>2 DEF Tree
  <2>2. QED
    BY <1>2, <2>1, AncParent
<1> DEFINE e == [old |-> head, new |-> parents[head], act |-> "reset"]
<1>4. log' = Append(log, e) /\ e.new = parents[head] /\ e.act = "reset"
    BY <1>1
<1> HIDE DEF e
<1>5. /\ Len(log') = Len(log) + 1
      /\ \A i \in 1 .. Len(log) : log'[i] = log[i]
      /\ log'[Len(log) + 1] = e
  <2>1. log \in Seq([old : Nat, new : Nat, act : Actions])
    BY DEF IInv, Recorded
  <2>2. QED
    BY <1>4, <2>1
<1>6. QED
    BY <1>1, <1>3, <1>4, <1>5

\* What is known of any step: the old commits keep their ancestors, the
\* branch gains none of them, and an entry of the reflog says where HEAD went:
\* by a reset to an old commit, and otherwise to a new one.
LEMMA GitGrows ==
    ASSUME IInv, [Next]_vars
    PROVE  /\ Tree(parents') /\ Len(parents) \in Nat /\ Len(parents') \in Nat
           /\ Len(parents) <= Len(parents')
           /\ \A c \in 0 .. Len(parents) : Anc(parents', c) = Anc(parents, c)
           /\ Anc(parents', head') \intersect (0 .. Len(parents)) \subseteq Anc(parents, head)
           /\ Len(log) \in Nat /\ Len(log') \in {Len(log), Len(log) + 1}
           /\ \A i \in 1 .. Len(log) : log'[i] = log[i]
           /\ \A i \in Len(log) + 1 .. Len(log') :
                /\ log'[i].new = head'
                /\ log'[i].act # "reset" => head' = Len(parents) + 1 /\ head' = Len(parents')
<1>1. Tree(parents) /\ Len(parents) \in Nat /\ Len(log) \in Nat /\ head \in 0 .. Len(parents)
    BY TreeOfParents DEF IInv, Recorded
<1>2. CASE UNCHANGED <<parents, head, log, maker>>
  <2>1. Anc(parents', head') = Anc(parents, head) /\ \A c : Anc(parents', c) = Anc(parents, c)
    BY <1>2
  <2>2. QED
    BY <1>1, <1>2, <2>1
<1>3. ASSUME NEW l \in Lines, Commit(l)
      PROVE  /\ Len(log') = Len(log) + 1 /\ Len(parents') = Len(parents) + 1 /\ head' = Len(parents')
             /\ Anc(parents', head') \intersect (0 .. Len(parents)) \subseteq Anc(parents, head)
    BY <1>1, <1>3, CommitAdds
<1>4. ASSUME NEW l \in Lines, Commit(l), NEW i \in Len(log) + 1 .. Len(log')
      PROVE  log'[i].new = head'
  <2>1. i = Len(log) + 1
    BY <1>1, <1>3, <1>4
  <2>2. QED
    BY <1>4, <2>1, CommitAdds
<1>5. ASSUME NEW l \in Lines, Reset(l)
      PROVE  /\ Len(log') = Len(log) + 1 /\ parents' = parents
             /\ Anc(parents', head') \intersect (0 .. Len(parents)) \subseteq Anc(parents, head)
  <2>1. Anc(parents', head') = Anc(parents, head')
    BY <1>5, ResetAdds
  <2>2. QED
    BY <1>5, <2>1, ResetAdds
<1>6. ASSUME NEW l \in Lines, Reset(l), NEW i \in Len(log) + 1 .. Len(log')
      PROVE  log'[i].new = head' /\ log'[i].act = "reset"
  <2>1. i = Len(log) + 1
    BY <1>1, <1>5, <1>6
  <2>2. QED
    BY <1>6, <2>1, ResetAdds
<1>7. ASSUME NEW l \in Lines, Reset(l)
      PROVE  Tree(parents') /\ \A c \in 0 .. Len(parents) : Anc(parents', c) = Anc(parents, c)
    BY <1>1, <1>5, <1>7
<1>8. CASE \E l \in Lines : Commit(l)
  <2>1. PICK l \in Lines : Commit(l)
    BY <1>8
  <2>2. /\ Tree(parents') /\ \A c \in 0 .. Len(parents) : Anc(parents', c) = Anc(parents, c)
        /\ \A i \in 1 .. Len(log) : log'[i] = log[i]
    BY <2>1, CommitAdds
  <2>3. QED
    BY <1>1, <1>3, <1>4, <2>1, <2>2
<1>9. CASE \E l \in Lines : Reset(l)
  <2>1. PICK l \in Lines : Reset(l)
    BY <1>9
  <2>2. \A i \in 1 .. Len(log) : log'[i] = log[i]
    BY <2>1, ResetAdds
  <2>3. QED
    BY <1>1, <1>5, <1>6, <1>7, <2>1, <2>2
<1>10. QED
    BY <1>2, <1>8, <1>9, GitStep

\* A commit later in the reflog is a later commit.
Rising ==
    \A i, j \in 1 .. Len(log) :
        i < j /\ log[j].act # "reset" => log[i].new < log[j].new

\* What is on the branch and in the reflog is an ancestor of every HEAD since.
InLine ==
    \A i, j \in 1 .. Len(log) :
        i <= j /\ log[i].new \in Anc(parents, head) => log[i].new \in Anc(parents, log[j].new)

LEMMA EntriesAre ==
    IInv => \A i \in 1 .. Len(log) :
                /\ log[i].new \in 0 .. Len(parents) /\ log[i].old \in 0 .. Len(parents)
                /\ log[i].act \in Actions
<1> SUFFICES ASSUME IInv, NEW i \in 1 .. Len(log)
             PROVE  /\ log[i].new \in 0 .. Len(parents) /\ log[i].old \in 0 .. Len(parents)
                    /\ log[i].act \in Actions
    OBVIOUS
<1>1. log \in Seq([old : Nat, new : Nat, act : Actions]) /\ Len(parents) \in Nat
    BY DEF IInv, Recorded
<1>2. log[i] \in [old : Nat, new : Nat, act : Actions]
    BY <1>1, Element
<1>3. log[i].new <= Len(parents) /\ log[i].old <= Len(parents)
    BY DEF IInv, Recorded
<1>4. log[i].new \in Nat /\ log[i].old \in Nat /\ log[i].act \in Actions
    BY <1>2
<1>5. QED
    BY <1>1, <1>3, <1>4

LEMMA RisingNext == IInv /\ Rising /\ [Next]_vars => Rising'
<1> SUFFICES ASSUME IInv, Rising, [Next]_vars, NEW i \in 1 .. Len(log'), NEW j \in 1 .. Len(log'),
                    i < j, log'[j].act # "reset"
             PROVE  log'[i].new < log'[j].new
    BY DEF Rising
<1>1. /\ Len(parents) \in Nat /\ Len(log) \in Nat /\ Len(log') \in {Len(log), Len(log) + 1}
      /\ \A k \in 1 .. Len(log) : log'[k] = log[k]
      /\ \A k \in Len(log) + 1 .. Len(log') :
            /\ log'[k].new = head'
            /\ log'[k].act # "reset" => head' = Len(parents) + 1
    BY GitGrows
<1>2. i \in 1 .. Len(log)
    BY <1>1
<1>3. CASE j \in 1 .. Len(log)
    BY <1>1, <1>2, <1>3 DEF Rising
<1>4. CASE j \notin 1 .. Len(log)
  <2>1. log'[j].new = Len(parents) + 1
    BY <1>1, <1>4
  <2>2. log'[i].new \in 0 .. Len(parents)
    BY <1>1, <1>2, EntriesAre
  <2>3. QED
    BY <1>1, <2>1, <2>2
<1>5. QED
    BY <1>3, <1>4

LEMMA InLineNext == IInv /\ InLine /\ [Next]_vars => InLine'
<1> SUFFICES ASSUME IInv, InLine, [Next]_vars, NEW i \in 1 .. Len(log'), NEW j \in 1 .. Len(log'),
                    i <= j, log'[i].new \in Anc(parents', head')
             PROVE  log'[i].new \in Anc(parents', log'[j].new)
    BY DEF InLine
<1>1. /\ Len(log) \in Nat /\ Len(log') \in {Len(log), Len(log) + 1}
      /\ \A c \in 0 .. Len(parents) : Anc(parents', c) = Anc(parents, c)
      /\ Anc(parents', head') \intersect (0 .. Len(parents)) \subseteq Anc(parents, head)
      /\ \A k \in 1 .. Len(log) : log'[k] = log[k]
      /\ \A k \in Len(log) + 1 .. Len(log') : log'[k].new = head'
    BY GitGrows
<1>2. CASE j \in 1 .. Len(log)
  <2>1. i \in 1 .. Len(log) /\ log'[i] = log[i] /\ log'[j] = log[j]
    BY <1>1, <1>2
  <2>2. log[i].new \in 0 .. Len(parents) /\ log[j].new \in 0 .. Len(parents)
    BY <1>2, <2>1, EntriesAre
  <2>3. log[i].new \in Anc(parents, head)
    BY <1>1, <2>1, <2>2
  <2>4. log[i].new \in Anc(parents, log[j].new)
    BY <1>2, <2>1, <2>3 DEF InLine
  <2>5. QED
    BY <1>1, <2>1, <2>2, <2>4
<1>3. CASE j \notin 1 .. Len(log)
    BY <1>1, <1>3
<1>4. QED
    BY <1>2, <1>3

\* A record is not read before it is whole, and stays true after.
LEMMA ReadyStays ==
    ASSUME Turns, [Next]_vars, NEW l \in Lines, Ready(l)
    PROVE  Ready(l)'
<1> USE Constants
<1>1. stage'[l] # "new" /\ \A h \in Hooks : pc'[h] \in {"head", "log"} => job'[h].line # l
  <2> USE DEF Turns, IInv, Placed, Shaped, Ready, git, lines, files, hook, counts, history
  <2> DEFINE Goal == stage'[l] # "new" /\ \A h \in Hooks : pc'[h] \in {"head", "log"} => job'[h].line # l
<2>1. ASSUME NEW h \in Hooks, NEW m \in Lines, Ask(h, m) PROVE Goal
      BY <2>1 DEF Ask, Start
  <2>2. ASSUME NEW h \in Hooks, NEW m \in Lines, Tell(h, m) PROVE Goal
      BY <2>2 DEF Tell, Start
  <2>3. ASSUME NEW h \in Hooks, NEW s \in Sessions, Event(h, s) PROVE Goal
      BY <2>3 DEF Event, Start
  <2>4. ASSUME NEW h \in Hooks, ReadHead(h) PROVE Goal
      BY <2>4 DEF ReadHead, Goto
  <2>5. ASSUME NEW h \in Hooks, ReadLog(h) PROVE Goal
      BY <2>5 DEF ReadLog, Goto
  <2>6. ASSUME NEW h \in Hooks, Scan(h) PROVE Goal
      BY <2>6 DEF Scan, Goto
  <2>7. ASSUME NEW h \in Hooks, ClaimOwn(h) PROVE Goal
      BY <2>7 DEF ClaimOwn, Claim, Goto
  <2>8. ASSUME NEW h \in Hooks, Forget(h) PROVE Goal
      BY <2>8 DEF Forget, Goto
  <2>9. ASSUME NEW h \in Hooks, Unpend(h) PROVE Goal
      BY <2>9 DEF Unpend, Put, Goto
  <2>10. ASSUME NEW h \in Hooks, Keep(h) PROVE Goal
      BY <2>10 DEF Keep, Goto
  <2>11. ASSUME NEW h \in Hooks, Pend(h) PROVE Goal
      BY <2>11 DEF Pend, Put, Goto
  <2>12. ASSUME NEW h \in Hooks, ReadPending(h) PROVE Goal
    <3>1. CASE Fresh(job[h].session) = {}
      <4>1. Ended(h)
        BY <2>12, <3>1 DEF ReadPending, Leave
      <4>2. QED
        BY <4>1 DEF Ended, NoJob
    <3>2. CASE Fresh(job[h].session) # {}
      <4>1. pc' = [pc EXCEPT ![h] = "late"] /\ UNCHANGED <<job, stage, posted>>
        BY <2>12, <3>2 DEF ReadPending, Goto
      <4>2. QED
        BY <4>1
    <3>3. QED
      BY <3>1, <3>2
  <2>13. ASSUME NEW h \in Hooks, Late(h) PROVE Goal
      BY <2>13 DEF Late, Goto
  <2>14. ASSUME NEW h \in Hooks, ClaimLate(h) PROVE Goal
      BY <2>14 DEF ClaimLate, Claim, Goto
  <2>15. ASSUME NEW h \in Hooks, Store(h) PROVE Goal
      BY <2>15 DEF Store, Put, Leave, Ended
  <2>16. ASSUME NEW h \in Hooks, Kill(h) PROVE Goal
      BY <2>16 DEF Kill, Leave, Ended
  <2>17. ASSUME NEW m \in Lines, Commit(m) PROVE Goal
      BY <2>17 DEF Commit
  <2>18. ASSUME NEW m \in Lines, Reset(m) PROVE Goal
      BY <2>18 DEF Reset
  <2>19. ASSUME NEW m \in Lines, Age(m) PROVE Goal
      BY <2>19 DEF Age
  <2>20. ASSUME NEW s \in Sessions, Stale(s) PROVE Goal
      BY <2>20 DEF Stale
  <2>21. CASE UNCHANGED vars
      BY <2>21 DEF vars
  <2>22. QED
      BY <2>1, <2>2, <2>3, <2>4, <2>5, <2>6, <2>7, <2>8, <2>9, <2>10, <2>11,
       <2>12, <2>13, <2>14, <2>15, <2>16, <2>17, <2>18, <2>19, <2>20, <2>21 DEF Next
<1>2. before'[l] = before[l]
    BY BeforeStep DEF Ready
<1>3. Later(l)'
  <2>1. /\ Len(parents) \in Nat /\ Len(log) \in Nat /\ Len(log') \in {Len(log), Len(log) + 1}
        /\ \A i \in 1 .. Len(log) : log'[i] = log[i]
        /\ \A i \in Len(log) + 1 .. Len(log') :
              log'[i].new = head' /\ (log'[i].act # "reset" => head' = Len(parents) + 1)
    BY GitGrows DEF Turns
  <2>2. before[l].from \in Nat /\ before[l].head \in Nat /\ before[l].head <= Len(parents)
    BY DEF Turns, IInv, Noted
  <2>3. ASSUME NEW i \in before[l].from + 1 .. Len(log'), log'[i].act # "reset"
        PROVE  before[l].head < log'[i].new
    <3>1. CASE i \in 1 .. Len(log)
      <4>1. i \in before[l].from + 1 .. Len(log) /\ log'[i] = log[i]
        BY <2>1, <2>2, <3>1
      <4>2. QED
        BY <2>3, <4>1 DEF Ready, Later
    <3>2. CASE i \notin 1 .. Len(log)
      BY <2>1, <2>2, <2>3, <3>2
    <3>3. QED
      BY <3>1, <3>2
  <2>4. QED
    BY <1>2, <2>3 DEF Later
<1>4. QED
    BY <1>1, <1>3 DEF Ready

LEMMA ReadyOnceRead ==
    ASSUME Turns, NEW h \in Hooks, ReadLog(h)
    PROVE  Ready(job[h].line)'
<1> DEFINE l == job[h].line
<1>1. l \in Lines /\ stage[l] = "asked" /\ stage \in [Lines -> {"new", "asked", "runs", "over"}]
    BY Constants DEF ReadLog, Turns, IInv, Own, Shaped, Phases, Placed
<1>2. /\ pc' = [pc EXCEPT ![h] = "pending"] /\ UNCHANGED <<stage, job, log>>
      /\ before' = [before EXCEPT ![l].from = Len(log)]
    BY DEF ReadLog, Goto, lines, git
<1>3. \A k \in Hooks : pc'[k] \in {"head", "log"} => job'[k].line # l
  <2>1. \A k \in Hooks : pc'[k] = IF k = h THEN "pending" ELSE pc[k]
    BY <1>2 DEF Turns, IInv, Placed
  <2>2. QED
    BY <1>1, <1>2, <2>1, Constants DEF Turns, OneHook
<1>4. before'[l].from = Len(log)
    BY <1>1, <1>2 DEF Turns, IInv, Noted
<1>5. Len(log) \in Nat
    BY DEF Turns, IInv, Recorded
<1>6. Later(l)'
    BY <1>2, <1>4, <1>5 DEF Later
<1>7. QED
    BY <1>1, <1>2, <1>3, <1>6 DEF Ready

LEMMA KnownNext == Turns /\ Known /\ [Next]_vars => Known'
<1> SUFFICES ASSUME Turns, Known, [Next]_vars, NEW l \in Recs' PROVE Ready(l)'
    BY DEF Known
<1>1. CASE l \in Recs
  <2>1. l \in Lines /\ Ready(l)
    BY <1>1 DEF Recs, Known
  <2>2. QED
    BY <2>1, ReadyStays
<1>2. CASE l \notin Recs
  <2>1. PICK h \in Hooks : ReadLog(h) /\ job[h].line = l
    BY <1>2, RecsStep
  <2>2. Ready(job[h].line)'
    BY <2>1, ReadyOnceRead
  <2>3. job'[h].line = l
    BY <2>1 DEF ReadLog
  <2>4. QED
    BY <2>1, <2>2, <2>3 DEF Ready, Later
<1>3. QED
    BY <1>1, <1>2

-----------------------------------------------------------------------------
(* What is taken is reviewed.                                              *)

LEMMA OursAre ==
    ASSUME IInv, NEW l \in Lines
    PROVE  \A i \in Ours(l, claim) :
              i \in before[l].from + 1 .. Len(log) /\ i \in 1 .. Len(log) /\ log[i].act # "reset"
<1> SUFFICES ASSUME NEW i \in Ours(l, claim)
             PROVE  i \in before[l].from + 1 .. Len(log) /\ i \in 1 .. Len(log) /\ log[i].act # "reset"
    OBVIOUS
<1>1. i \in before[l].from + 1 .. Len(log) /\ Kind(log[i].act) \in Kinds(l)
    BY DEF Ours, Since, Takes
<1>2. before[l].from \in Nat /\ Len(log) \in Nat
    BY DEF IInv, Noted, Recorded
<1>3. log[i].act # "reset"
    BY <1>1 DEF Kind, Kinds
<1>4. QED
    BY <1>1, <1>2, <1>3

LEMMA Latest ==
    ASSUME NEW N \in Nat, NEW T, T \subseteq 1 .. N, T # {}
    PROVE  \E n \in T : \A m \in T : m <= n
<1> DEFINE U == {N - n : n \in T}
<1>1. U \subseteq Nat /\ U # {}
  <2>1. \A n \in T : n \in Nat /\ n <= N /\ N - n \in Nat
    OBVIOUS
  <2>2. QED
    BY <2>1
<1>2. \E u \in U : \A v \in U : u <= v
  <2> HIDE DEF U
  <2>1. QED
    BY <1>1, Least
<1>3. PICK u \in U : \A v \in U : u <= v
    BY <1>2
<1>4. PICK n \in T : u = N - n
    BY <1>3
<1>5. ASSUME NEW m \in T PROVE m <= n
  <2>1. N - m \in U /\ m \in Nat /\ n \in Nat
    OBVIOUS
  <2>2. u <= N - m
    BY <1>3, <2>1
  <2>3. QED
    BY <1>4, <2>1, <2>2
<1>6. QED
    BY <1>5

\* A commit on the branch lies between the first and the last entry taken.
LEMMA LandedCovers ==
    ASSUME IInv, Rising, InLine, NEW l \in Lines, Later(l),
           NEW c \in Landed(l).commits, c \in Anc(parents, head)
    PROVE  c \in Landed(l).range
<1> DEFINE E == Ours(l, claim)
<1>1. E # {} /\ Landed(l).commits = {log[i].new : i \in E} /\ Landed(l).range = Range(l, E)
  <2>1. CASE E = {}
    BY <2>1 DEF Landed, Nothing
  <2>2. CASE E # {}
    BY <2>2 DEF Landed
  <2>3. QED
    BY <2>1, <2>2
<1>2. \A i \in E : i \in before[l].from + 1 .. Len(log) /\ i \in 1 .. Len(log) /\ log[i].act # "reset"
    BY OursAre
<1> HIDE DEF E
<1>3. PICK i \in E : c = log[i].new
    BY <1>1
<1>4. Len(log) \in Nat /\ Len(parents) \in Nat /\ Tree(parents) /\ i \in Nat
  <2>1. Tree(parents) /\ Recorded
    BY TreeOfParents DEF IInv
  <2>2. QED
    BY <1>2, <2>1 DEF Recorded
<1>5. E \subseteq 1 .. Len(log) /\ E \subseteq Nat
    BY <1>2
<1> DEFINE a == CHOOSE n \in E : \A m \in E : n <= m
           z == CHOOSE n \in E : \A m \in E : m <= n
<1>6. a \in E /\ a <= i
  <2>1. \E n \in E : \A m \in E : n <= m
    BY <1>1, <1>5, Least
  <2>2. QED
    BY <2>1
<1>7. z \in E /\ i <= z
  <2>1. \E n \in E : \A m \in E : m <= n
    BY <1>1, <1>4, <1>5, Latest
  <2>2. QED
    BY <2>1
<1>8. First(E) = log[a] /\ Last(E) = log[z]
    BY DEF First, Last
<1> HIDE DEF a, z
<1>9. \A j \in E : log[j].new \in 0 .. Len(parents) /\ before[l].head < log[j].new
    BY <1>2, EntriesAre DEF Later
<1>10. before[l].head \in Nat /\ before[l].head <= Len(parents)
    BY DEF IInv, Noted
<1>11. c \in Ancestors(Last(E).new)
  <2>1. c \in Anc(parents, log[z].new)
    BY <1>2, <1>3, <1>7 DEF InLine
  <2>2. log[z].new \in Commits
    BY <1>7, <1>9 DEF Commits
  <2>3. QED
    BY <1>8, <2>1, <2>2, AncestorsAre
<1> DEFINE start == IF First(E).act = "amend" THEN parents[First(E).new] ELSE before[l].head
<1>12. log[a].new <= c
  <2>1. CASE a = i
    BY <1>3, <1>9, <2>1
  <2>2. CASE a # i
    <3>1. a < i /\ a \in 1 .. Len(log) /\ i \in 1 .. Len(log) /\ log[i].act # "reset"
      BY <1>2, <1>4, <1>6, <2>2
    <3>2. log[a].new < log[i].new
      BY <3>1 DEF Rising
    <3>3. QED
      BY <1>3, <1>6, <1>9, <3>2
  <2>3. QED
    BY <2>1, <2>2
<1>13. start \in 0 .. Len(parents) /\ start < c
  <2>1. CASE First(E).act = "amend"
    <3>1. log[a].new \in 1 .. Len(parents)
      <4>1. log[a].new \in 0 .. Len(parents) /\ before[l].head < log[a].new
        BY <1>6, <1>9
      <4>2. QED
        BY <1>4, <1>10, <4>1
    <3>2. parents[log[a].new] \in 0 .. log[a].new - 1
      BY <1>4, <3>1 DEF Tree
    <3>3. start = parents[log[a].new]
      BY <1>8, <2>1
    <3>4. c \in Nat
      BY <1>3, <1>9
    <3>5. QED
      BY <1>4, <1>12, <3>1, <3>2, <3>3, <3>4
  <2>2. CASE First(E).act # "amend"
    <3>1. start = before[l].head
      BY <2>2
    <3>2. QED
      BY <1>3, <1>4, <1>9, <1>10, <3>1
  <2>3. QED
    BY <2>1, <2>2
<1>14. Range(l, E) = Ancestors(Last(E).new) \ Ancestors(start)
    BY DEF Range
<1> HIDE DEF start
<1>15. c \notin Ancestors(start)
  <2>1. Ancestors(start) = Anc(parents, start)
    BY <1>13, AncestorsAre DEF Commits
  <2>2. Anc(parents, start) \subseteq 0 .. start
    BY <1>4, <1>13, AncBelow
  <2>3. QED
    BY <1>4, <1>13, <2>1, <2>2
<1>16. QED
    BY <1>1, <1>11, <1>14, <1>15

\* What a hook looks at is what a record landed.
LEMMA MineStep ==
    ASSUME Turns, [Next]_vars, NEW k \in Hooks
    PROVE  \/ mine'[k] = mine[k] \/ mine'[k] = Nothing
           \/ \E l \in Recs : mine'[k] = Landed(l)
<1> USE Constants DEF Turns, IInv, Shaped, Own, git, lines, files, hook, counts, history
<1> DEFINE Goal == \/ mine'[k] = mine[k] \/ mine'[k] = Nothing
                   \/ \E l \in Recs : mine'[k] = Landed(l)
<1>1. ASSUME NEW h \in Hooks, NEW l \in Lines, Ask(h, l) PROVE Goal
    BY <1>1 DEF Ask, Start
<1>2. ASSUME NEW h \in Hooks, NEW l \in Lines, Tell(h, l) PROVE Goal
    BY <1>2 DEF Tell, Start
<1>3. ASSUME NEW h \in Hooks, NEW s \in Sessions, Event(h, s) PROVE Goal
    BY <1>3 DEF Event, Start
<1>4. ASSUME NEW h \in Hooks, ReadHead(h) PROVE Goal
    BY <1>4 DEF ReadHead
<1>5. ASSUME NEW h \in Hooks, ReadLog(h) PROVE Goal
    BY <1>5 DEF ReadLog
<1>6. ASSUME NEW h \in Hooks, Scan(h) PROVE Goal
  <2>1. CASE k # h
    BY <1>6, <2>1 DEF Scan
  <2>2. CASE k = h /\ job[h].line \in filed
    <3>1. job[h].line \in Recs
      BY <1>6, <2>2 DEF Scan, Recs
    <3>2. mine'[k] = Landed(job[h].line)
      BY <1>6, <2>2 DEF Scan
    <3>3. QED
      BY <3>1, <3>2
  <2>3. CASE k = h /\ job[h].line \notin filed
    BY <1>6, <2>3 DEF Scan
  <2>4. QED
    BY <2>1, <2>2, <2>3
<1>7. ASSUME NEW h \in Hooks, ClaimOwn(h) PROVE Goal
    BY <1>7 DEF ClaimOwn, Claim
<1>8. ASSUME NEW h \in Hooks, Forget(h) PROVE Goal
    BY <1>8 DEF Forget
<1>9. ASSUME NEW h \in Hooks, Unpend(h) PROVE Goal
    BY <1>9 DEF Unpend, Put
<1>10. ASSUME NEW h \in Hooks, Keep(h) PROVE Goal
    BY <1>10 DEF Keep
<1>11. ASSUME NEW h \in Hooks, Pend(h) PROVE Goal
    BY <1>11 DEF Pend, Put
<1>12. ASSUME NEW h \in Hooks, ReadPending(h) PROVE Goal
  <2>1. CASE Fresh(job[h].session) = {}
    BY <1>12, <2>1 DEF ReadPending, Leave, Ended
  <2>2. CASE Fresh(job[h].session) # {}
    BY <1>12, <2>2 DEF ReadPending
  <2>3. QED
    BY <2>1, <2>2
<1>13. ASSUME NEW h \in Hooks, Late(h) PROVE Goal
  <2>1. PICK l \in todo[h] : mine' = [mine EXCEPT ![h] = Landed(l)]
    BY <1>13 DEF Late
  <2>2. l \in Recs
    BY <2>1 DEF Recs
  <2>3. QED
    BY <2>1, <2>2
<1>14. ASSUME NEW h \in Hooks, ClaimLate(h) PROVE Goal
    BY <1>14 DEF ClaimLate, Claim
<1>15. ASSUME NEW h \in Hooks, Store(h) PROVE Goal
    BY <1>15 DEF Store, Put, Leave, Ended
<1>16. ASSUME NEW h \in Hooks, Kill(h) PROVE Goal
    BY <1>16 DEF Kill, Leave, Ended
<1>17. ASSUME NEW l \in Lines, Commit(l) PROVE Goal
    BY <1>17 DEF Commit
<1>18. ASSUME NEW l \in Lines, Reset(l) PROVE Goal
    BY <1>18 DEF Reset
<1>19. ASSUME NEW l \in Lines, Age(l) PROVE Goal
    BY <1>19 DEF Age
<1>20. ASSUME NEW s \in Sessions, Stale(s) PROVE Goal
    BY <1>20 DEF Stale
<1>21. CASE UNCHANGED vars
    BY <1>21 DEF vars
<1>22. QED
    BY <1>1, <1>2, <1>3, <1>4, <1>5, <1>6, <1>7, <1>8, <1>9, <1>10, <1>11,
       <1>12, <1>13, <1>14, <1>15, <1>16, <1>17, <1>18, <1>19, <1>20, <1>21 DEF Next

LEMMA TakenStep ==
    ASSUME [Next]_vars
    PROVE  \/ UNCHANGED <<taken, claim>>
           \/ \E l \in Lines : Commit(l)
           \/ \E h \in Hooks :
                    /\ Claim(h) /\ UNCHANGED <<parents, log, job>>
                    /\ pc[h] \in {"claim", "lateclaim"} /\ (Prepared(h) \/ Unreadable(h))
<1> USE DEF git, lines, files, hook, counts, history
<1> DEFINE Goal == \/ UNCHANGED <<taken, claim>>
                   \/ \E l \in Lines : Commit(l)
                   \/ \E h \in Hooks :
                    /\ Claim(h) /\ UNCHANGED <<parents, log, job>>
                    /\ pc[h] \in {"claim", "lateclaim"} /\ (Prepared(h) \/ Unreadable(h))
<1>1. ASSUME NEW h \in Hooks, NEW l \in Lines, Ask(h, l) PROVE Goal
    BY <1>1 DEF Ask, Start
<1>2. ASSUME NEW h \in Hooks, NEW l \in Lines, Tell(h, l) PROVE Goal
    BY <1>2 DEF Tell, Start
<1>3. ASSUME NEW h \in Hooks, NEW s \in Sessions, Event(h, s) PROVE Goal
    BY <1>3 DEF Event, Start
<1>4. ASSUME NEW h \in Hooks, ReadHead(h) PROVE Goal
    BY <1>4 DEF ReadHead
<1>5. ASSUME NEW h \in Hooks, ReadLog(h) PROVE Goal
    BY <1>5 DEF ReadLog
<1>6. ASSUME NEW h \in Hooks, Scan(h) PROVE Goal
    BY <1>6 DEF Scan
<1>7. ASSUME NEW h \in Hooks, ClaimOwn(h) PROVE Goal
    BY <1>7 DEF ClaimOwn
<1>8. ASSUME NEW h \in Hooks, Forget(h) PROVE Goal
    BY <1>8 DEF Forget
<1>9. ASSUME NEW h \in Hooks, Unpend(h) PROVE Goal
    BY <1>9 DEF Unpend, Put
<1>10. ASSUME NEW h \in Hooks, Keep(h) PROVE Goal
    BY <1>10 DEF Keep
<1>11. ASSUME NEW h \in Hooks, Pend(h) PROVE Goal
    BY <1>11 DEF Pend, Put
<1>12. ASSUME NEW h \in Hooks, ReadPending(h) PROVE Goal
    BY <1>12 DEF ReadPending, Leave, Ended
<1>13. ASSUME NEW h \in Hooks, Late(h) PROVE Goal
    BY <1>13 DEF Late
<1>14. ASSUME NEW h \in Hooks, ClaimLate(h) PROVE Goal
    BY <1>14 DEF ClaimLate
<1>15. ASSUME NEW h \in Hooks, Store(h) PROVE Goal
    BY <1>15 DEF Store, Put, Leave, Ended
<1>16. ASSUME NEW h \in Hooks, Kill(h) PROVE Goal
    BY <1>16 DEF Kill, Leave, Ended
<1>17. ASSUME NEW l \in Lines, Commit(l) PROVE Goal
    BY <1>17
<1>18. ASSUME NEW l \in Lines, Reset(l) PROVE Goal
    BY <1>18 DEF Reset
<1>19. ASSUME NEW l \in Lines, Age(l) PROVE Goal
    BY <1>19 DEF Age
<1>20. ASSUME NEW s \in Sessions, Stale(s) PROVE Goal
    BY <1>20 DEF Stale
<1>21. CASE UNCHANGED vars
    BY <1>21 DEF vars
<1>22. QED
    BY <1>1, <1>2, <1>3, <1>4, <1>5, <1>6, <1>7, <1>8, <1>9, <1>10, <1>11,
       <1>12, <1>13, <1>14, <1>15, <1>16, <1>17, <1>18, <1>19, <1>20, <1>21 DEF Next

\* What is in a hook's hand, once claimed.
Handed == DOMAIN hand = Hooks /\ hand = [h \in Hooks |-> hand[h]]

\* A hook's hand is filled by its claims, and emptied at its end: what it
\* held was answered, or is lost.
HandStep(h) ==
    \/ UNCHANGED shown /\ (Prepared(h) \/ Unreadable(h))
    \/ hand' = [hand EXCEPT ![h] = {}] /\ Speak(h)
    \/ hand' = [hand EXCEPT ![h] = {}] /\ lost' = lost \union hand[h] /\ UNCHANGED shown

LEMMA HandSteps ==
    ASSUME [Next]_vars
    PROVE  UNCHANGED <<shown, hand, lost>> \/ \E h \in Hooks : HandStep(h)
<1> USE DEF counts, history, HandStep
<1> DEFINE Goal == UNCHANGED <<shown, hand, lost>> \/ \E h \in Hooks : HandStep(h)
<1>1. ASSUME NEW h \in Hooks, NEW l \in Lines, Ask(h, l) PROVE Goal
    BY <1>1 DEF Ask, Start
<1>2. ASSUME NEW h \in Hooks, NEW l \in Lines, Tell(h, l) PROVE Goal
    BY <1>2 DEF Tell, Start
<1>3. ASSUME NEW h \in Hooks, NEW s \in Sessions, Event(h, s) PROVE Goal
    BY <1>3 DEF Event, Start
<1>4. ASSUME NEW h \in Hooks, ReadHead(h) PROVE Goal
    BY <1>4 DEF ReadHead
<1>5. ASSUME NEW h \in Hooks, ReadLog(h) PROVE Goal
    BY <1>5 DEF ReadLog
<1>6. ASSUME NEW h \in Hooks, Scan(h) PROVE Goal
    BY <1>6 DEF Scan
<1>7. ASSUME NEW h \in Hooks, ClaimOwn(h) PROVE Goal
    BY <1>7 DEF ClaimOwn
<1>8. ASSUME NEW h \in Hooks, Forget(h) PROVE Goal
    BY <1>8 DEF Forget
<1>9. ASSUME NEW h \in Hooks, Unpend(h) PROVE Goal
    BY <1>9 DEF Unpend
<1>10. ASSUME NEW h \in Hooks, Keep(h) PROVE Goal
    BY <1>10 DEF Keep
<1>11. ASSUME NEW h \in Hooks, Pend(h) PROVE Goal
    BY <1>11 DEF Pend
<1>12. ASSUME NEW h \in Hooks, ReadPending(h) PROVE Goal
    BY <1>12 DEF ReadPending, Speak, Leave, Ended
<1>13. ASSUME NEW h \in Hooks, Late(h) PROVE Goal
    BY <1>13 DEF Late
<1>14. ASSUME NEW h \in Hooks, ClaimLate(h) PROVE Goal
    BY <1>14 DEF ClaimLate
<1>15. ASSUME NEW h \in Hooks, Store(h) PROVE Goal
    BY <1>15 DEF Store, Speak, Leave, Ended
<1>16. ASSUME NEW h \in Hooks, Kill(h) PROVE Goal
    BY <1>16 DEF Kill, Leave, Ended
<1>17. ASSUME NEW l \in Lines, Commit(l) PROVE Goal
    BY <1>17 DEF Commit
<1>18. ASSUME NEW l \in Lines, Reset(l) PROVE Goal
    BY <1>18 DEF Reset
<1>19. ASSUME NEW l \in Lines, Age(l) PROVE Goal
    BY <1>19 DEF Age
<1>20. ASSUME NEW s \in Sessions, Stale(s) PROVE Goal
    BY <1>20 DEF Stale
<1>21. CASE UNCHANGED vars
    BY <1>21 DEF vars
<1>22. QED
    BY <1>1, <1>2, <1>3, <1>4, <1>5, <1>6, <1>7, <1>8, <1>9, <1>10, <1>11,
       <1>12, <1>13, <1>14, <1>15, <1>16, <1>17, <1>18, <1>19, <1>20, <1>21 DEF Next

LEMMA HandedNext == Handed /\ [Next]_vars => Handed'
<1> SUFFICES ASSUME Handed, [Next]_vars PROVE Handed'
    OBVIOUS
<1>1. CASE UNCHANGED hand
    BY <1>1 DEF Handed
<1>2. ASSUME NEW h \in Hooks, NEW x, hand' = [hand EXCEPT ![h] = x] PROVE Handed'
    BY <1>2 DEF Handed
<1>3. QED
    BY <1>1, <1>2, HandSteps DEF HandStep, Prepared, Unreadable

\* What is accounted for stays so, and a claim accounts for its range.
LEMMA AccountedGrows ==
    ASSUME Handed, [Next]_vars
    PROVE  Accounted \subseteq Accounted'
<1>1. CASE UNCHANGED <<shown, hand, lost>>
    BY <1>1 DEF Accounted
<1>2. ASSUME NEW h \in Hooks, HandStep(h) PROVE Accounted \subseteq Accounted'
  <2>1. \A k \in Hooks \ {h} : hand'[k] = hand[k]
    BY <1>2 DEF HandStep, Handed, Prepared, Unreadable
  <2>2. shown \subseteq shown' /\ lost \subseteq lost'
    BY <1>2 DEF HandStep, Prepared, Unreadable, Speak
  <2>3. hand[h] \subseteq hand'[h] \union shown' \union lost'
    BY <1>2 DEF HandStep, Handed, Prepared, Unreadable, Speak
  <2>4. ASSUME NEW k \in Hooks PROVE hand[k] \subseteq Accounted'
    BY <2>1, <2>3 DEF Accounted
  <2>5. QED
    BY <2>2, <2>4 DEF Accounted
<1>3. QED
    BY <1>1, <1>2, HandSteps

LEMMA ClaimAccounts ==
    ASSUME Handed, NEW h \in Hooks, Prepared(h) \/ Unreadable(h)
    PROVE  mine[h].range \subseteq Accounted'
<1>1. CASE Prepared(h)
  <2>1. mine[h].range \subseteq hand'[h]
    BY <1>1 DEF Prepared, Handed
  <2>2. QED
    BY <2>1 DEF Accounted
<1>2. CASE Unreadable(h)
    BY <1>2 DEF Unreadable, Accounted
<1>3. QED
    BY <1>1, <1>2

\* The commits of the branch that a hook is about to take, or that are taken,
\* lie in the range it answers, or that is accounted for.
Shown ==
    /\ \A h \in Hooks : \A c \in mine[h].commits :
         /\ c \in 0 .. Len(parents)
         /\ c \in Anc(parents, head) => c \in mine[h].range
    /\ Len(taken) = Len(parents)
    /\ \A c \in 1 .. Len(taken) :
         taken[c] # {} /\ c \in Anc(parents, head) => c \in Accounted

CInv == TInv /\ Turns /\ Known /\ Rising /\ InLine /\ Handed /\ Shown

LEMMA LandedIsOld ==
    ASSUME IInv, NEW l \in Lines
    PROVE  \A c \in Landed(l).commits : c \in 0 .. Len(parents)
<1>1. CASE Ours(l, claim) = {}
    BY <1>1 DEF Landed, Nothing
<1>2. CASE Ours(l, claim) # {}
  <2>1. Landed(l).commits = {log[i].new : i \in Ours(l, claim)}
    BY <1>2 DEF Landed
  <2>2. QED
    BY <2>1, OursAre, EntriesAre
<1>3. QED
    BY <1>1, <1>2

LEMMA ShownNext == CInv /\ [Next]_vars => Shown'
<1> SUFFICES ASSUME CInv, [Next]_vars PROVE Shown'
    OBVIOUS
<1> USE DEF CInv, Turns, TInv
<1>1. /\ Len(parents) \in Nat /\ Len(parents') \in Nat /\ Len(parents) <= Len(parents')
      /\ Anc(parents', head') \intersect (0 .. Len(parents)) \subseteq Anc(parents, head)
    BY GitGrows
<1>0. Handed /\ Accounted \subseteq Accounted'
    BY AccountedGrows
<1>2. ASSUME NEW h \in Hooks, NEW c \in mine'[h].commits
      PROVE  c \in 0 .. Len(parents) /\ (c \in Anc(parents, head) => c \in mine'[h].range)
  <2>1. CASE mine'[h] = mine[h]
    BY <1>2, <2>1 DEF Shown
  <2>2. CASE mine'[h] = Nothing
    BY <1>2, <2>2 DEF Nothing
  <2>3. CASE \E l \in Recs : mine'[h] = Landed(l)
    <3>1. PICK l \in Recs : mine'[h] = Landed(l)
      BY <2>3
    <3>2. l \in Lines /\ Later(l)
      BY DEF Recs, Known, Ready
    <3>3. QED
      BY <1>2, <3>1, <3>2, LandedIsOld, LandedCovers
  <2>4. QED
    BY <2>1, <2>2, <2>3, MineStep
<1>3. ASSUME NEW h \in Hooks, NEW c \in mine'[h].commits
      PROVE  c \in 0 .. Len(parents') /\ (c \in Anc(parents', head') => c \in mine'[h].range)
    BY <1>1, <1>2
<1>4. taken \in Seq(SUBSET Sessions) /\ DOMAIN taken = 1 .. Len(parents)
  <2>1. taken \in Seq(SUBSET Sessions) /\ Len(taken) = Len(parents)
    BY DEF Claimed, Shown
  <2>2. QED
    BY <2>1
<1>5. ASSUME NEW c \in 1 .. Len(parents), c \in Anc(parents', head'), taken[c] # {}
      PROVE  c \in Accounted'
  <2>1. c \in 0 .. Len(parents)
    BY <1>1
  <2>2. c \in Anc(parents, head)
    BY <1>1, <1>5, <2>1
  <2>3. QED
    BY <1>0, <1>5, <2>2 DEF Shown
<1>6. CASE UNCHANGED <<taken, claim>> /\ ~ \E l \in Lines : Commit(l)
  <2>1. Len(parents') = Len(parents)
    BY <1>6, GitStep, ResetAdds
  <2>2. QED
    BY <1>3, <1>4, <1>5, <1>6, <2>1 DEF Shown
<1>7. CASE \E l \in Lines : Commit(l)
  <2>1. PICK l \in Lines : Commit(l)
    BY <1>7
  <2>2. taken' = Append(taken, {})
    BY <2>1 DEF Commit
  <2>3. Len(parents') = Len(parents) + 1
    BY <2>1, CommitAdds
  <2>4. /\ Len(taken') = Len(taken) + 1
        /\ \A c \in 1 .. Len(taken') : taken'[c] = IF c <= Len(taken) THEN taken[c] ELSE {}
    BY <1>4, <2>2, Appended
  <2>5. Len(taken) = Len(parents)
    BY DEF Shown
  <2>6. ASSUME NEW c \in 1 .. Len(taken'), taken'[c] # {}, c \in Anc(parents', head') PROVE c \in Accounted'
    <3>1. c \in 1 .. Len(parents) /\ taken[c] # {}
      BY <1>1, <2>4, <2>5, <2>6
    <3>2. QED
      BY <1>5, <2>2, <2>6, <3>1
  <2>7. QED
    BY <1>3, <2>3, <2>4, <2>5, <2>6 DEF Shown
<1>8. CASE \E h \in Hooks : Claim(h) /\ UNCHANGED <<parents, log, job>> /\ (Prepared(h) \/ Unreadable(h))
  <2>1. PICK h \in Hooks : Claim(h) /\ UNCHANGED <<parents, log, job>> /\ (Prepared(h) \/ Unreadable(h))
    BY <1>8
  <2>2. /\ taken' = [c \in 1 .. Len(parents) |->
                IF c \in mine[h].commits THEN taken[c] \union {job[h].session} ELSE taken[c]]
        /\ mine[h].range \subseteq Accounted'
    BY <1>0, <1>4, <2>1, ClaimAccounts DEF Claim
  <2>3. Len(taken') = Len(parents')
    BY <1>1, <2>1, <2>2
  <2>4. ASSUME NEW c \in 1 .. Len(taken'), taken'[c] # {}, c \in Anc(parents', head') PROVE c \in Accounted'
    <3>1. c \in 1 .. Len(parents)
      BY <2>1, <2>3
    <3>2. CASE c \in mine[h].commits
      <4>1. c \in 0 .. Len(parents) /\ c \in Anc(parents, head)
        BY <1>1, <2>4, <3>1
      <4>2. c \in mine[h].range
        BY <3>2, <4>1 DEF Shown
      <4>3. QED
        BY <2>2, <4>2
    <3>3. CASE c \notin mine[h].commits
      BY <1>5, <2>2, <2>4, <3>1, <3>3
    <3>4. QED
      BY <3>2, <3>3
  <2>5. QED
    BY <1>3, <2>3, <2>4 DEF Shown
<1>9. QED
    BY <1>6, <1>7, <1>8, TakenStep

LEMMA CInvHolds == (Init => CInv) /\ (CInv /\ [Next]_vars => CInv')
<1>1. Init => CInv
  <2> SUFFICES ASSUME Init PROVE CInv
      OBVIOUS
  <2>1. TInv
      BY TInvHolds
  <2>2. OneHook /\ Phases /\ Known /\ Rising /\ InLine /\ Handed
      BY DEF Init, Handed, OneHook, Phases, NoJob, Known, Recs, Rising, InLine
  <2>3. Shown
      BY DEF Init, Shown, Nothing
  <2>4. QED
      BY <2>1, <2>2, <2>3 DEF CInv, TInv, Turns
<1>2. CInv /\ [Next]_vars => CInv'
  <2> SUFFICES ASSUME CInv, [Next]_vars PROVE CInv'
      OBVIOUS
  <2>1. TInv /\ Turns /\ Known /\ Rising /\ InLine /\ IInv /\ Handed
      BY DEF CInv, Turns
  <2>2. TInv'
      BY <2>1, TInvHolds
  <2>3. (OneHook /\ Phases)'
      BY <2>1, TurnsNext
  <2>4. (Known /\ Rising /\ InLine /\ Handed)'
      BY <2>1, KnownNext, RisingNext, InLineNext, HandedNext
  <2>5. Shown'
      BY ShownNext
  <2>6. QED
      BY <2>2, <2>3, <2>4, <2>5 DEF CInv, Turns, TInv
<1>3. QED
    BY <1>1, <1>2

\* A commit of the branch that a session claimed, so that no other looks at
\* it, lies in a range that is answered when the hook ends, whatever was
\* committed, amended and reset and by whom; but for the ranges of hooks that
\* were killed before they printed, and those git did not read.
THEOREM TakenAnswered == Spec => []TakenIsAnswered
<1>1. CInv => TakenIsAnswered
  <2> SUFFICES ASSUME CInv, NEW c \in DOMAIN taken, taken[c] # {}, c \in Ancestors(head)
               PROVE  c \in Accounted
      BY DEF TakenIsAnswered
  <2>1. IInv /\ Claimed /\ Shown
      BY DEF CInv, Turns, TInv
  <2>2. head \in Commits
      BY <2>1 DEF IInv, Recorded, Commits
  <2>3. c \in 1 .. Len(taken) /\ c \in Anc(parents, head)
    <3>1. taken \in Seq(SUBSET Sessions)
      BY <2>1 DEF Claimed
    <3>2. QED
      BY <2>1, <2>2, <3>1, AncestorsAre
  <2>4. QED
      BY <2>1, <2>3 DEF Shown
<1>2. QED
    BY <1>1, CInvHolds, PTL DEF Spec

-----------------------------------------------------------------------------
(* What a line recorded is taken.                                          *)

\* What the recursion of Work computes: of the commits of a line, those that
\* grow from where it began, or amend a commit among them.
Grows(l, c, own) ==
    \E i \in 1 .. Len(log) :
        /\ log[i].new = c /\ log[i].act # "reset"
        /\ IF log[i].act = "amend" THEN log[i].old \in own
                                  ELSE before[l].head \in Anc(parents, c)

IsWork(W, l) ==
    /\ W \subseteq 1 .. Len(parents)
    /\ \A c \in 1 .. Len(parents) :
         c \in W <=> maker[c] = l /\ Grows(l, c, {d \in W : d < c} \union {before[l].head})

\* A set whose members depend on the lesser members exists.
LEMMA Built ==
    ASSUME NEW N \in Nat, NEW R
    PROVE  \E W \in SUBSET (1 .. N) :
              \A c \in 1 .. N : c \in W <=> <<c, {d \in W : d < c}>> \in R
<1> DEFINE
      Good(n, W) == W \subseteq 1 .. n /\ \A c \in 1 .. n : c \in W <=> <<c, {d \in W : d < c}>> \in R
      S == {n \in 0 .. N : \A W \in SUBSET (1 .. N) : ~Good(n, W)}
<1>1. ASSUME S # {} PROVE FALSE
  <2>1. PICK n \in S : \A m \in S : n <= m
    <3>1. S \subseteq Nat
      OBVIOUS
    <3> HIDE DEF S
    <3>2. QED
      BY <1>1, <3>1, Least
  <2>2. n \in 0 .. N /\ n \in Nat
    OBVIOUS
  <2>3. n # 0
    <3>1. Good(0, {})
      OBVIOUS
    <3> HIDE DEF Good
    <3>2. {} \in SUBSET (1 .. N)
      OBVIOUS
    <3>3. QED
      BY <2>1, <3>1, <3>2
  <2>4. n - 1 \in 0 .. N /\ n - 1 \notin S /\ n \in 1 .. N
    <3> HIDE DEF S
    <3>1. QED
      BY <2>1, <2>2, <2>3
  <2>5. PICK W \in SUBSET (1 .. N) : Good(n - 1, W)
    <3> HIDE DEF Good
    <3>1. QED
      BY <2>4
  <2> DEFINE V == W \union (IF <<n, W>> \in R THEN {n} ELSE {})
  <2>6. W \subseteq 1 .. n - 1 /\ n \notin W
    BY <2>5, <2>2
  <2>7. ASSUME NEW c \in 1 .. n PROVE c \in V <=> <<c, {d \in V : d < c}>> \in R
    <3>1. CASE c = n
      <4>1. {d \in V : d < n} = W
        <5>1. /\ \A d \in W : d < n
              /\ W \subseteq V /\ V \subseteq W \union {n} /\ ~(n < n)
          BY <2>2, <2>6
        <5> HIDE DEF V
        <5>2. QED
          BY <5>1
      <4>2. n \in V <=> <<n, W>> \in R
        BY <2>6
      <4>3. QED
        BY <3>1, <4>1, <4>2
    <3>2. CASE c # n
      <4>1. c \in 1 .. n - 1
        BY <2>2, <3>2
      <4>2. {d \in V : d < c} = {d \in W : d < c}
        BY <2>2, <2>6, <4>1
      <4>3. c \in V <=> c \in W
        BY <3>2
      <4>4. c \in W <=> <<c, {d \in W : d < c}>> \in R
        BY <2>5, <4>1
      <4>5. QED
        BY <4>2, <4>3, <4>4
    <3>3. QED
      BY <3>1, <3>2
  <2>8. V \in SUBSET (1 .. N) /\ V \subseteq 1 .. n
    BY <2>2, <2>4, <2>6
  <2> HIDE DEF V
  <2>9. Good(n, V)
    BY <2>7, <2>8
  <2>10. QED
    <3> HIDE DEF Good
    <3>1. QED
      BY <2>1, <2>8, <2>9
<1>2. N \in 0 .. N /\ N \notin S
    BY <1>1
<1>3. QED
    BY <1>2

LEMMA Prefixes ==
    ASSUME NEW W, \A d \in W : d \in Nat /\ 1 <= d
    PROVE  /\ {d \in W : d <= 0} = {}
           /\ \A c \in Nat : {d \in W : d <= c} = {d \in W : d < c} \union (IF c \in W THEN {c} ELSE {})
           /\ \A c \in Nat \ {0} : {d \in W : d <= c - 1} = {d \in W : d < c}
<1>1. \A d \in W : ~(d <= 0)
    OBVIOUS
<1>2. ASSUME NEW c \in Nat, NEW d \in W PROVE d <= c <=> d < c \/ (c \in W /\ d = c)
    OBVIOUS
<1>3. ASSUME NEW c \in Nat \ {0}, NEW d \in W PROVE d <= c - 1 <=> d < c
    OBVIOUS
<1>4. {d \in W : d <= 0} = {}
    BY <1>1, Zenon
<1>5. \A c \in Nat \ {0} : {d \in W : d <= c - 1} = {d \in W : d < c}
    BY <1>3, Zenon
<1>6. ASSUME NEW c \in Nat
      PROVE  {d \in W : d <= c} = {d \in W : d < c} \union (IF c \in W THEN {c} ELSE {})
  <2>1. CASE c \in W
    <3>1. \A d \in W : d <= c <=> d < c \/ d = c
      BY <1>2, <2>1
    <3>2. {d \in W : d <= c} = {d \in W : d < c} \union {c}
      BY <2>1, <3>1, Zenon
    <3>3. QED
      BY <2>1, <3>2
  <2>2. CASE c \notin W
    <3>1. \A d \in W : d <= c <=> d < c
      BY <1>2, <2>2
    <3>2. {d \in W : d <= c} = {d \in W : d < c}
      BY <3>1, Zenon
    <3>3. QED
      BY <2>2, <3>2
  <2>3. QED
    BY <2>1, <2>2
<1>7. QED
    BY <1>4, <1>5, <1>6

LEMMA WorkIs ==
    ASSUME IInv, NEW l \in Lines
    PROVE  IsWork(Work(l), l)
<1> DEFINE
      N == Len(parents)
      grows(c, own) ==
            \E i \in DOMAIN log :
                /\ log[i].new = c /\ log[i].act # "reset"
                /\ IF log[i].act = "amend" THEN log[i].old \in own
                                          ELSE before[l].head \in Ancestors(c)
      Step(f) == [c \in Commits |->
            IF c = 0 THEN {}
            ELSE f[c - 1] \union (IF maker[c] = l /\ grows(c, f[c - 1] \union {before[l].head})
                                  THEN {c} ELSE {})]
      upto == CHOOSE f : f = Step(f)
<1>1. N \in Nat /\ Commits = 0 .. N /\ DOMAIN log = 1 .. Len(log)
    BY DEF IInv, Recorded, Commits
<1>2. Work(l) = upto[N]
    BY DEF Work
<1>3. \A c \in Commits : \A own : grows(c, own) <=> Grows(l, c, own)
    BY <1>1, AncestorsAre DEF Grows
<1> HIDE DEF grows
<1> DEFINE R == {r \in (1 .. N) \X SUBSET (1 .. N) :
                    maker[r[1]] = l /\ Grows(l, r[1], r[2] \union {before[l].head})}
<1>4. PICK W \in SUBSET (1 .. N) : \A c \in 1 .. N : c \in W <=> <<c, {d \in W : d < c}>> \in R
  <2> HIDE DEF R, N
  <2>1. QED
    BY <1>1, Built
<1>5. ASSUME NEW c \in 1 .. N
      PROVE  c \in W <=> maker[c] = l /\ Grows(l, c, {d \in W : d < c} \union {before[l].head})
  <2>1. {d \in W : d < c} \in SUBSET (1 .. N)
    OBVIOUS
  <2> DEFINE r == <<c, {d \in W : d < c}>>
  <2>2. r[1] = c /\ r[2] = {d \in W : d < c} /\ r \in (1 .. N) \X SUBSET (1 .. N)
    BY <2>1
  <2>3. c \in W <=> r \in R
    BY <1>4
  <2> HIDE DEF r
  <2>4. QED
    BY <2>2, <2>3
<1>6. IsWork(W, l)
    BY <1>5 DEF IsWork
<1>7. /\ \A d \in W : d \in Nat /\ 1 <= d /\ d <= N
      /\ {d \in W : d <= 0} = {}
      /\ \A c \in Nat : {d \in W : d <= c} = {d \in W : d < c} \union (IF c \in W THEN {c} ELSE {})
      /\ \A c \in Nat \ {0} : {d \in W : d <= c - 1} = {d \in W : d < c}
  <2>1. \A d \in W : d \in Nat /\ 1 <= d /\ d <= N
    BY <1>1
  <2>2. QED
    BY <2>1, Prefixes
<1> DEFINE f == [c \in Commits |-> {d \in W : d <= c}]
<1>8. f = Step(f)
  <2>1. ASSUME NEW c \in Commits PROVE f[c] = Step(f)[c]
    <3>1. CASE c = 0
      <4>1. {d \in W : d <= 0} = {}
        <5> HIDE DEF N
        <5>1. QED
          BY <1>7
      <4>2. QED
        BY <3>1, <4>1
    <3>2. CASE c # 0
      <4>1. c \in 1 .. N /\ c - 1 \in Commits /\ f[c - 1] = {d \in W : d < c}
        <5> HIDE DEF N
        <5>1. c \in 1 .. N /\ c - 1 \in Commits /\ c \in Nat
          BY <1>1, <3>2
        <5>2. {d \in W : d <= c - 1} = {d \in W : d < c}
          BY <1>1, <1>7, <5>1, <3>2
        <5>3. f[c - 1] = {d \in W : d <= c - 1}
          BY <5>1
        <5>4. QED
          BY <5>1, <5>2, <5>3
      <4>2. c \in W <=> maker[c] = l /\ grows(c, f[c - 1] \union {before[l].head})
        BY <1>3, <1>5, <4>1
      <4>3. f[c] = {d \in W : d < c} \union (IF c \in W THEN {c} ELSE {})
        <5>1. f[c] = {d \in W : d <= c}
          OBVIOUS
        <5>2. c \in Nat
          BY <1>1
        <5> HIDE DEF N, f
        <5>3. {d \in W : d <= c} = {d \in W : d < c} \union (IF c \in W THEN {c} ELSE {})
          BY <1>7, <5>2
        <5>4. QED
          BY <5>1, <5>3
      <4> HIDE DEF f
      <4>4. QED
        BY <3>2, <4>1, <4>2, <4>3
    <3>3. QED
      BY <3>1, <3>2
  <2> HIDE DEF f
  <2>2. f = [c \in Commits |-> f[c]]
    BY DEF f
  <2>3. QED
    BY <2>1, <2>2
<1>9. upto = Step(upto)
  <2> HIDE DEF Step, f
  <2>1. QED
    BY <1>8
<1> HIDE DEF upto
<1> DEFINE T == {c \in Commits : upto[c] # f[c]}
<1>10. ASSUME T # {} PROVE FALSE
  <2>1. T \subseteq Nat
    BY <1>1
  <2>2. PICK c \in T : \A e \in T : c <= e
    <3> HIDE DEF T
    <3>1. QED
      BY <1>10, <2>1, Least
  <2> HIDE DEF f
  <2>3. upto[c] = Step(upto)[c] /\ f[c] = Step(f)[c]
    BY <1>8, <1>9
  <2>4. c # 0
    BY <1>1, <2>3
  <2>5. c - 1 \in Commits /\ c - 1 < c /\ c \in Nat
    BY <1>1, <2>4
  <2>6. upto[c - 1] = f[c - 1]
    BY <2>2, <2>5
  <2>7. QED
    BY <2>3, <2>4, <2>6
<1>11. Work(l) = W
  <2>1. N \in Commits
    BY <1>1
  <2>2. upto[N] = f[N]
    <3> HIDE DEF f, N
    <3>1. QED
      BY <1>10, <2>1
  <2>3. f[N] = W
    <3>1. f[N] = {d \in W : d <= N}
      BY <2>1
    <3> HIDE DEF f, N
    <3>2. QED
      BY <1>7, <3>1
  <2>4. QED
    BY <1>2, <2>2, <2>3
<1>12. QED
    BY <1>6, <1>11

\* A line is not run twice.
LEMMA LineStep ==
    ASSUME Turns, [Next]_vars, NEW l \in Lines
    PROVE  /\ stage[l] = "over" => stage'[l] = "over"
           /\ stage[l] \in {"runs", "over"} => stage'[l] \in {"runs", "over"}
           /\ l \in posted => l \in posted'
           /\ l \in posted' /\ l \notin posted => \E h \in Hooks : Tell(h, l)
<1> USE Constants DEF Turns, IInv, Placed, git, lines, files, hook, counts, history
<1> DEFINE Goal == /\ stage[l] = "over" => stage'[l] = "over"
                   /\ stage[l] \in {"runs", "over"} => stage'[l] \in {"runs", "over"}
                   /\ l \in posted => l \in posted'
                   /\ l \in posted' /\ l \notin posted => \E h \in Hooks : Tell(h, l)
<1>1. ASSUME NEW h \in Hooks, NEW m \in Lines, Ask(h, m) PROVE Goal
    BY <1>1 DEF Ask, Start
<1>2. ASSUME NEW h \in Hooks, NEW m \in Lines, Tell(h, m) PROVE Goal
    BY <1>2 DEF Tell, Start
<1>3. ASSUME NEW h \in Hooks, NEW s \in Sessions, Event(h, s) PROVE Goal
    BY <1>3 DEF Event, Start
<1>4. ASSUME NEW h \in Hooks, ReadHead(h) PROVE Goal
    BY <1>4 DEF ReadHead, Goto
<1>5. ASSUME NEW h \in Hooks, ReadLog(h) PROVE Goal
    BY <1>5 DEF ReadLog, Goto
<1>6. ASSUME NEW h \in Hooks, Scan(h) PROVE Goal
    BY <1>6 DEF Scan, Goto
<1>7. ASSUME NEW h \in Hooks, ClaimOwn(h) PROVE Goal
    BY <1>7 DEF ClaimOwn, Claim, Goto
<1>8. ASSUME NEW h \in Hooks, Forget(h) PROVE Goal
    BY <1>8 DEF Forget, Goto
<1>9. ASSUME NEW h \in Hooks, Unpend(h) PROVE Goal
    BY <1>9 DEF Unpend, Put, Goto
<1>10. ASSUME NEW h \in Hooks, Keep(h) PROVE Goal
    BY <1>10 DEF Keep, Goto
<1>11. ASSUME NEW h \in Hooks, Pend(h) PROVE Goal
    BY <1>11 DEF Pend, Put, Goto
<1>12. ASSUME NEW h \in Hooks, ReadPending(h) PROVE Goal
  <2>1. CASE Fresh(job[h].session) = {}
    BY <1>12, <2>1 DEF ReadPending, Leave, Ended
  <2>2. CASE Fresh(job[h].session) # {}
    BY <1>12, <2>2 DEF ReadPending, Goto
  <2>3. QED
    BY <2>1, <2>2
<1>13. ASSUME NEW h \in Hooks, Late(h) PROVE Goal
    BY <1>13 DEF Late, Goto
<1>14. ASSUME NEW h \in Hooks, ClaimLate(h) PROVE Goal
    BY <1>14 DEF ClaimLate, Claim, Goto
<1>15. ASSUME NEW h \in Hooks, Store(h) PROVE Goal
    BY <1>15 DEF Store, Put, Leave, Ended
<1>16. ASSUME NEW h \in Hooks, Kill(h) PROVE Goal
    BY <1>16 DEF Kill, Leave, Ended
<1>17. ASSUME NEW m \in Lines, Commit(m) PROVE Goal
    BY <1>17 DEF Commit
<1>18. ASSUME NEW m \in Lines, Reset(m) PROVE Goal
    BY <1>18 DEF Reset
<1>19. ASSUME NEW m \in Lines, Age(m) PROVE Goal
    BY <1>19 DEF Age
<1>20. ASSUME NEW s \in Sessions, Stale(s) PROVE Goal
    BY <1>20 DEF Stale
<1>21. CASE UNCHANGED vars
    BY <1>21 DEF vars
<1>22. QED
    BY <1>1, <1>2, <1>3, <1>4, <1>5, <1>6, <1>7, <1>8, <1>9, <1>10, <1>11,
       <1>12, <1>13, <1>14, <1>15, <1>16, <1>17, <1>18, <1>19, <1>20, <1>21 DEF Next

\* A commit in the reflog is of a line that ran since its record, and of a
\* kind its statements make.
Authored ==
    /\ maker \in Seq(Lines) /\ Len(maker) = Len(parents)
    /\ \A i \in 1 .. Len(log) : log[i].act # "reset" =>
         /\ log[i].new \in 1 .. Len(parents)
         /\ log[i].act \in Verbs[maker[log[i].new]]
         /\ before[maker[log[i].new]].from < i
         /\ stage[maker[log[i].new]] \in {"runs", "over"}

LEMMA MakerStep ==
    [Next]_vars => UNCHANGED maker \/ \E l \in Lines : Commit(l)
<1> SUFFICES ASSUME [Next]_vars PROVE UNCHANGED maker \/ \E l \in Lines : Commit(l)
    OBVIOUS
<1>1. ASSUME NEW l \in Lines, Reset(l) PROVE UNCHANGED maker
    BY <1>1 DEF Reset, history
<1>2. QED
    BY <1>1, GitStep

LEMMA AuthoredNext == Turns /\ Authored /\ [Next]_vars => Authored'
<1> SUFFICES ASSUME Turns, Authored, [Next]_vars PROVE Authored'
    OBVIOUS
<1>1. /\ Len(parents) \in Nat /\ Len(log) \in Nat /\ Len(log') \in {Len(log), Len(log) + 1}
      /\ Len(parents) <= Len(parents') /\ Len(parents') \in Nat
      /\ \A i \in 1 .. Len(log) : log'[i] = log[i]
      /\ maker \in Seq(Lines) /\ Len(maker) = Len(parents)
    BY GitGrows DEF Turns, Authored
<1>2. /\ maker' \in Seq(Lines) /\ Len(maker') = Len(parents')
      /\ \A c \in 1 .. Len(parents) : maker'[c] = maker[c]
  <2>1. CASE \E l \in Lines : Commit(l)
    <3>1. PICK l \in Lines : Commit(l)
      BY <2>1
    <3>2. maker' = Append(maker, l)
      BY <3>1 DEF Commit
    <3>3. Len(parents') = Len(parents) + 1
      BY <3>1, CommitAdds DEF Turns
    <3>4. QED
      BY <1>1, <3>2, <3>3
  <2>2. CASE ~ \E l \in Lines : Commit(l)
    <3>1. UNCHANGED maker
      BY <2>2, MakerStep
    <3>2. UNCHANGED parents
      BY <2>2, GitStep, ResetAdds DEF Turns
    <3>3. QED
      BY <1>1, <3>1, <3>2
  <2>3. QED
    BY <2>1, <2>2
<1>3. ASSUME NEW i \in 1 .. Len(log), log'[i].act # "reset"
      PROVE  /\ log'[i].new \in 1 .. Len(parents')
             /\ log'[i].act \in Verbs[maker'[log'[i].new]]
             /\ before'[maker'[log'[i].new]].from < i
             /\ stage'[maker'[log'[i].new]] \in {"runs", "over"}
  <2> DEFINE m == maker[log[i].new]
  <2>1. /\ log'[i] = log[i] /\ log[i].new \in 1 .. Len(parents)
        /\ log[i].act \in Verbs[m] /\ before[m].from < i /\ stage[m] \in {"runs", "over"}
    BY <1>1, <1>3 DEF Authored
  <2>2. m \in Lines /\ maker'[log'[i].new] = m
    BY <1>1, <1>2, <2>1
  <2> HIDE DEF m
  <2>3. before'[m] = before[m]
    BY <2>1, <2>2, BeforeStep DEF Turns, Phases
  <2>4. stage'[m] \in {"runs", "over"}
    BY <2>1, <2>2, LineStep
  <2>5. QED
    BY <1>1, <2>1, <2>2, <2>3, <2>4
<1>4. ASSUME NEW i \in Len(log) + 1 .. Len(log'), log'[i].act # "reset"
      PROVE  /\ log'[i].new \in 1 .. Len(parents')
             /\ log'[i].act \in Verbs[maker'[log'[i].new]]
             /\ before'[maker'[log'[i].new]].from < i
             /\ stage'[maker'[log'[i].new]] \in {"runs", "over"}
  <2>1. Len(log') = Len(log) + 1 /\ i = Len(log) + 1
    BY <1>1, <1>4
  <2>2. PICK l \in Lines : Commit(l)
    <3>1. log' # log
      BY <1>1, <2>1
    <3>2. ASSUME NEW l \in Lines, Reset(l) PROVE FALSE
      BY <1>4, <2>1, <3>2, ResetAdds DEF Turns
    <3>3. QED
      BY <3>1, <3>2, GitStep
  <2>3. /\ Len(parents') = Len(parents) + 1 /\ log'[i].new = Len(parents')
        /\ log'[i].act \in Verbs[l]
    BY <2>1, <2>2, CommitAdds DEF Turns
  <2>4. maker'[Len(parents')] = l
    <3>1. maker' = Append(maker, l)
      BY <2>2 DEF Commit
    <3>2. QED
      BY <1>1, <2>3, <3>1
  <2>5. before' = before /\ stage' = stage /\ stage[l] = "runs"
    BY <2>2 DEF Commit, lines
  <2>6. before[l].from <= Len(log) /\ before[l].from \in Nat
    BY DEF Turns, IInv, Noted
  <2>7. QED
    BY <1>1, <2>1, <2>3, <2>4, <2>5, <2>6
<1>5. QED
    BY <1>1, <1>2, <1>3, <1>4 DEF Authored

\* Only what is taken is claimed.
Unclaimed == \A c \in 1 .. Len(claim) : claim[c] # None => taken[c] # {}

LEMMA UnclaimedNext == TInv /\ Unclaimed /\ [Next]_vars => Unclaimed'
<1> SUFFICES ASSUME TInv, Unclaimed, [Next]_vars PROVE Unclaimed'
    OBVIOUS
<1>1. /\ taken \in Seq(SUBSET Sessions) /\ claim \in Seq(Sessions \union {None})
      /\ Len(taken) = Len(claim)
    BY DEF TInv, Claimed, IInv, Recorded
<1>2. CASE UNCHANGED <<taken, claim>>
    BY <1>2 DEF Unclaimed
<1>3. ASSUME NEW l \in Lines, Commit(l) PROVE Unclaimed'
  <2>1. taken' = Append(taken, {}) /\ claim' = Append(claim, None)
    BY <1>3 DEF Commit
  <2>2. /\ Len(claim') = Len(claim) + 1 /\ Len(claim) \in Nat
        /\ \A c \in 1 .. Len(claim') : claim'[c] = IF c <= Len(claim) THEN claim[c] ELSE None
    BY <1>1, <2>1, Appended
  <2>3. \A c \in 1 .. Len(taken) : taken'[c] = taken[c]
    BY <1>1, <2>1
  <2>4. ASSUME NEW c \in 1 .. Len(claim'), claim'[c] # None PROVE taken'[c] # {}
    <3>1. c \in 1 .. Len(claim) /\ claim[c] # None
      BY <2>2, <2>4
    <3>2. QED
      BY <1>1, <2>3, <3>1 DEF Unclaimed
  <2>5. QED
    BY <2>4 DEF Unclaimed
<1>4. ASSUME NEW h \in Hooks, Claim(h) PROVE Unclaimed'
  <2>1. DOMAIN claim = 1 .. Len(claim) /\ DOMAIN taken = 1 .. Len(claim)
    BY <1>1
  <2>2. /\ claim' = [c \in 1 .. Len(claim) |-> IF c \in mine[h].commits THEN job[h].session ELSE claim[c]]
        /\ taken' = [c \in 1 .. Len(claim) |->
                        IF c \in mine[h].commits THEN taken[c] \union {job[h].session} ELSE taken[c]]
    BY <1>4, <2>1 DEF Claim
  <2>3. Len(claim') = Len(claim)
    <3>1. Len(claim) \in Nat
      BY <1>1
    <3>2. QED
      BY <2>2, <3>1
  <2>4. QED
    BY <2>2, <2>3 DEF Unclaimed
<1>5. QED
    BY <1>2, <1>3, <1>4, TakenStep

\* The records that wait are of lines in the background.
Backs ==
    /\ \A s \in Sessions : pending[s] \subseteq Background
    /\ \A h \in Hooks :
         /\ view[h] \subseteq Background /\ todo[h] \subseteq Background /\ wait[h] \subseteq Background
         /\ pc[h] \in {"keep", "pend"} => job[h].line \in Background
         /\ pc[h] = "lateclaim" => mine[h].line \in Background

LEMMA FreshIsBack ==
    ASSUME IInv, Backs, NEW h \in Hooks, pc[h] # "idle"
    PROVE  job[h].session \in Sessions /\ Fresh(job[h].session) \subseteq Background
BY DEF IInv, Own, Shaped, Backs, Fresh

LEMMA BacksNext == IInv /\ Backs /\ [Next]_vars => Backs'
<1> SUFFICES ASSUME IInv, Backs, [Next]_vars PROVE Backs'
    OBVIOUS
<1> USE Constants DEF IInv, Placed, Shaped, Own, Backs, git, lines, files, hook, counts, history
<1>1. ASSUME NEW h \in Hooks, NEW l \in Lines, Ask(h, l) PROVE Backs'
    BY <1>1 DEF Ask, Start
<1>2. ASSUME NEW h \in Hooks, NEW l \in Lines, Tell(h, l) PROVE Backs'
    BY <1>2 DEF Tell, Start
<1>3. ASSUME NEW h \in Hooks, NEW s \in Sessions, Event(h, s) PROVE Backs'
    BY <1>3 DEF Event, Start
<1>4. ASSUME NEW h \in Hooks, ReadHead(h) PROVE Backs'
    BY <1>4 DEF ReadHead, Goto
<1>5. ASSUME NEW h \in Hooks, ReadLog(h) PROVE Backs'
    BY <1>5 DEF ReadLog, Goto
<1>6. ASSUME NEW h \in Hooks, Scan(h) PROVE Backs'
    BY <1>6 DEF Scan, Goto
<1>7. ASSUME NEW h \in Hooks, ClaimOwn(h) PROVE Backs'
    BY <1>7 DEF ClaimOwn, Claim, Goto
<1>8. ASSUME NEW h \in Hooks, Forget(h) PROVE Backs'
  <2>1. Fresh(job[h].session) \subseteq Background
    BY <1>8, FreshIsBack DEF Forget
  <2>2. QED
    BY <1>8, <2>1 DEF Forget, Goto
<1>9. ASSUME NEW h \in Hooks, Unpend(h) PROVE Backs'
    BY <1>9 DEF Unpend, Put, Goto
<1>10. ASSUME NEW h \in Hooks, Keep(h) PROVE Backs'
  <2>1. Fresh(job[h].session) \subseteq Background
    BY <1>10, FreshIsBack DEF Keep
  <2>2. QED
    BY <1>10, <2>1 DEF Keep, Goto
<1>11. ASSUME NEW h \in Hooks, Pend(h) PROVE Backs'
    BY <1>11 DEF Pend, Put, Goto
<1>12. ASSUME NEW h \in Hooks, ReadPending(h) PROVE Backs'
  <2>1. CASE Fresh(job[h].session) = {}
    <3>1. Ended(h) /\ UNCHANGED pending
      BY <1>12, <2>1 DEF ReadPending, Leave
    <3>2. QED
      BY <3>1 DEF Ended
  <2>2. CASE Fresh(job[h].session) # {}
    <3>1. Fresh(job[h].session) \subseteq Background
      BY <1>12, FreshIsBack DEF ReadPending
    <3>2. QED
      BY <1>12, <2>2, <3>1 DEF ReadPending, Goto
  <2>3. QED
    BY <2>1, <2>2
<1>13. ASSUME NEW h \in Hooks, Late(h) PROVE Backs'
  <2>1. PICK l \in todo[h] :
          /\ todo' = [todo EXCEPT ![h] = @ \ {l}]
          /\ mine' = [mine EXCEPT ![h] = Landed(l)]
          /\ \/ mine'[h] # Nothing /\ Goto(h, "lateclaim") /\ UNCHANGED wait
             \/ /\ mine'[h] = Nothing
                /\ wait' = [wait EXCEPT ![h] = @ \union ({l} \ old)]
                /\ UNCHANGED pc
    BY <1>13 DEF Late
  <2>2. UNCHANGED <<pending, view, job>> /\ l \in Background /\ pc[h] = "late"
    BY <1>13 DEF Late
  <2>3. mine'[h] = Landed(l)
    BY <2>1
  <2>4. CASE mine'[h] # Nothing
    <3>1. mine'[h].line \in Background
      BY <2>2, <2>3, <2>4, LandedLine
    <3>2. QED
      BY <2>1, <2>2, <2>4, <3>1 DEF Goto
  <2>5. CASE mine'[h] = Nothing
    BY <2>1, <2>2, <2>5
  <2>6. QED
    BY <2>4, <2>5
<1>14. ASSUME NEW h \in Hooks, ClaimLate(h) PROVE Backs'
    BY <1>14 DEF ClaimLate, Claim, Goto
<1>15. ASSUME NEW h \in Hooks, Store(h) PROVE Backs'
    BY <1>15 DEF Store, Put, Leave, Ended
<1>16. ASSUME NEW h \in Hooks, Kill(h) PROVE Backs'
    BY <1>16 DEF Kill, Leave, Ended
<1>17. ASSUME NEW l \in Lines, Commit(l) PROVE Backs'
    BY <1>17 DEF Commit
<1>18. ASSUME NEW l \in Lines, Reset(l) PROVE Backs'
    BY <1>18 DEF Reset
<1>19. ASSUME NEW l \in Lines, Age(l) PROVE Backs'
    BY <1>19 DEF Age
<1>20. ASSUME NEW s \in Sessions, Stale(s) PROVE Backs'
    BY <1>20 DEF Stale
<1>21. CASE UNCHANGED vars
    BY <1>21 DEF vars
<1>22. QED
    BY <1>1, <1>2, <1>3, <1>4, <1>5, <1>6, <1>7, <1>8, <1>9, <1>10, <1>11,
       <1>12, <1>13, <1>14, <1>15, <1>16, <1>17, <1>18, <1>19, <1>20, <1>21 DEF Next

\* What becomes of a line in the foreground: its commits are taken, once, or
\* a hook for it is killed before.
FateStep(l) ==
    \/ fate'[l] = fate[l]
    \/ fate[l] = "none" /\ fate'[l] = "killed" /\ \E h \in Hooks : job[h].line = l /\ Kill(h)
    \/ fate'[l] = "taken" /\ \E h \in Hooks : job[h].line = l /\ ClaimOwn(h)

LEMMA FateMoves ==
    ASSUME Turns, Backs, [Next]_vars, NEW l \in Lines \ Background, fate[l] \in {"none", "killed", "taken"}
    PROVE  FateStep(l)
<1> USE Constants DEF Turns, IInv, Placed, Shaped, Own, Backs, FateStep, git, lines, files, hook, counts, history
<1>1. ASSUME NEW h \in Hooks, NEW m \in Lines, Ask(h, m) PROVE FateStep(l)
    BY <1>1 DEF Ask, Start
<1>2. ASSUME NEW h \in Hooks, NEW m \in Lines, Tell(h, m) PROVE FateStep(l)
    BY <1>2 DEF Tell, Start
<1>3. ASSUME NEW h \in Hooks, NEW s \in Sessions, Event(h, s) PROVE FateStep(l)
    BY <1>3 DEF Event, Start
<1>4. ASSUME NEW h \in Hooks, ReadHead(h) PROVE FateStep(l)
    BY <1>4 DEF ReadHead, Goto
<1>5. ASSUME NEW h \in Hooks, ReadLog(h) PROVE FateStep(l)
    BY <1>5 DEF ReadLog, Goto
<1>6. ASSUME NEW h \in Hooks, Scan(h) PROVE FateStep(l)
    BY <1>6 DEF Scan, Goto
<1>7. ASSUME NEW h \in Hooks, ClaimOwn(h) PROVE FateStep(l)
    BY <1>7, ZenonT(40) DEF ClaimOwn, Claim, Goto
<1>8. ASSUME NEW h \in Hooks, Forget(h) PROVE FateStep(l)
    BY <1>8 DEF Forget, Goto
<1>9. ASSUME NEW h \in Hooks, Unpend(h) PROVE FateStep(l)
    BY <1>9 DEF Unpend, Put, Goto
<1>10. ASSUME NEW h \in Hooks, Keep(h) PROVE FateStep(l)
    BY <1>10 DEF Keep, Goto
<1>11. ASSUME NEW h \in Hooks, Pend(h) PROVE FateStep(l)
    BY <1>11 DEF Pend, Put, Goto
<1>12. ASSUME NEW h \in Hooks, ReadPending(h) PROVE FateStep(l)
  <2>1. CASE Fresh(job[h].session) = {}
    BY <1>12, <2>1 DEF ReadPending, Leave, Ended
  <2>2. CASE Fresh(job[h].session) # {}
    BY <1>12, <2>2 DEF ReadPending, Goto
  <2>3. QED
    BY <2>1, <2>2
<1>13. ASSUME NEW h \in Hooks, Late(h) PROVE FateStep(l)
    BY <1>13 DEF Late, Goto
<1>14. ASSUME NEW h \in Hooks, ClaimLate(h) PROVE FateStep(l)
    BY <1>14 DEF ClaimLate, Claim, Goto
<1>15. ASSUME NEW h \in Hooks, Store(h) PROVE FateStep(l)
    BY <1>15 DEF Store, Put, Leave, Ended
<1>16. ASSUME NEW h \in Hooks, Kill(h) PROVE FateStep(l)
    BY <1>16 DEF Kill, Leave, Ended
<1>17. ASSUME NEW m \in Lines, Commit(m) PROVE FateStep(l)
    BY <1>17 DEF Commit
<1>18. ASSUME NEW m \in Lines, Reset(m) PROVE FateStep(l)
    BY <1>18 DEF Reset
<1>19. ASSUME NEW m \in Lines, Age(m) PROVE FateStep(l)
    BY <1>19 DEF Age
<1>20. ASSUME NEW s \in Sessions, Stale(s) PROVE FateStep(l)
    BY <1>20 DEF Stale
<1>21. CASE UNCHANGED vars
    BY <1>21 DEF vars
<1>22. QED
    BY <1>1, <1>2, <1>3, <1>4, <1>5, <1>6, <1>7, <1>8, <1>9, <1>10, <1>11,
       <1>12, <1>13, <1>14, <1>15, <1>16, <1>17, <1>18, <1>19, <1>20, <1>21 DEF Next

\* Where the hook after a line stands, and where it goes.
LEMMA HookStep ==
    ASSUME Turns, [Next]_vars, NEW k \in Hooks
    PROVE  /\ pc[k] \in {"record", "claim"} =>
                \/ pc'[k] = pc[k] /\ job'[k] = job[k] /\ mine'[k] = mine[k]
                \/ Scan(k) \/ ClaimOwn(k) \/ Kill(k)
           /\ pc'[k] = "claim" => (pc[k] = "claim" /\ job'[k] = job[k]) \/ Scan(k)
           /\ pc'[k] = "record" =>
                \/ pc[k] = "record" /\ job'[k] = job[k]
                \/ \E l \in Lines : Tell(k, l) /\ job'[k].line = l
<1> USE Constants DEF Turns, IInv, Placed, Shaped, git, lines, files, hook, counts, history
<1> DEFINE Goal ==
      /\ pc[k] \in {"record", "claim"} =>
            \/ pc'[k] = pc[k] /\ job'[k] = job[k] /\ mine'[k] = mine[k]
            \/ Scan(k) \/ ClaimOwn(k) \/ Kill(k)
      /\ pc'[k] = "claim" => (pc[k] = "claim" /\ job'[k] = job[k]) \/ Scan(k)
      /\ pc'[k] = "record" =>
            \/ pc[k] = "record" /\ job'[k] = job[k]
            \/ \E l \in Lines : Tell(k, l) /\ job'[k].line = l
<1>1. ASSUME NEW h \in Hooks, NEW m \in Lines, Ask(h, m) PROVE Goal
    BY <1>1 DEF Ask, Start
<1>2. ASSUME NEW h \in Hooks, NEW m \in Lines, Tell(h, m) PROVE Goal
  <2>1. CASE k = h
    BY <1>2, <2>1 DEF Tell, Start
  <2>2. CASE k # h
    BY <1>2, <2>2 DEF Tell, Start
  <2>3. QED
    BY <2>1, <2>2
<1>3. ASSUME NEW h \in Hooks, NEW s \in Sessions, Event(h, s) PROVE Goal
    BY <1>3 DEF Event, Start
<1>4. ASSUME NEW h \in Hooks, ReadHead(h) PROVE Goal
    BY <1>4 DEF ReadHead, Goto
<1>5. ASSUME NEW h \in Hooks, ReadLog(h) PROVE Goal
    BY <1>5 DEF ReadLog, Goto
<1>6. ASSUME NEW h \in Hooks, Scan(h) PROVE Goal
  <2>1. CASE k = h
    BY <1>6, <2>1 DEF Scan, Goto
  <2>2. CASE k # h
    BY <1>6, <2>2 DEF Scan, Goto
  <2>3. QED
    BY <2>1, <2>2
<1>7. ASSUME NEW h \in Hooks, ClaimOwn(h) PROVE Goal
  <2>1. CASE k = h
    BY <1>7, <2>1 DEF ClaimOwn, Goto
  <2>2. CASE k # h
    BY <1>7, <2>2 DEF ClaimOwn, Goto
  <2>3. QED
    BY <2>1, <2>2
<1>8. ASSUME NEW h \in Hooks, Forget(h) PROVE Goal
    BY <1>8 DEF Forget, Goto
<1>9. ASSUME NEW h \in Hooks, Unpend(h) PROVE Goal
    BY <1>9 DEF Unpend, Put, Goto
<1>10. ASSUME NEW h \in Hooks, Keep(h) PROVE Goal
    BY <1>10 DEF Keep, Goto
<1>11. ASSUME NEW h \in Hooks, Pend(h) PROVE Goal
    BY <1>11 DEF Pend, Put, Goto
<1>12. ASSUME NEW h \in Hooks, ReadPending(h) PROVE Goal
  <2>1. CASE Fresh(job[h].session) = {}
    BY <1>12, <2>1 DEF ReadPending, Leave, Ended
  <2>2. CASE Fresh(job[h].session) # {}
    BY <1>12, <2>2 DEF ReadPending, Goto
  <2>3. QED
    BY <2>1, <2>2
<1>13. ASSUME NEW h \in Hooks, Late(h) PROVE Goal
    BY <1>13 DEF Late, Goto
<1>14. ASSUME NEW h \in Hooks, ClaimLate(h) PROVE Goal
    BY <1>14 DEF ClaimLate, Claim, Goto
<1>15. ASSUME NEW h \in Hooks, Store(h) PROVE Goal
    BY <1>15 DEF Store, Put, Leave, Ended
<1>16. ASSUME NEW h \in Hooks, Kill(h) PROVE Goal
  <2>1. CASE k = h
    BY <1>16, <2>1 DEF Kill, Leave, Ended
  <2>2. CASE k # h
    BY <1>16, <2>2 DEF Kill, Leave, Ended
  <2>3. QED
    BY <2>1, <2>2
<1>17. ASSUME NEW m \in Lines, Commit(m) PROVE Goal
    BY <1>17 DEF Commit
<1>18. ASSUME NEW m \in Lines, Reset(m) PROVE Goal
    BY <1>18 DEF Reset
<1>19. ASSUME NEW m \in Lines, Age(m) PROVE Goal
    BY <1>19 DEF Age
<1>20. ASSUME NEW s \in Sessions, Stale(s) PROVE Goal
    BY <1>20 DEF Stale
<1>21. CASE UNCHANGED vars
    BY <1>21 DEF vars
<1>22. QED
    BY <1>1, <1>2, <1>3, <1>4, <1>5, <1>6, <1>7, <1>8, <1>9, <1>10, <1>11,
       <1>12, <1>13, <1>14, <1>15, <1>16, <1>17, <1>18, <1>19, <1>20, <1>21 DEF Next

Fates ==
    \A l \in Lines \ Background :
        /\ fate[l] \in {"none", "killed", "taken"}
        /\ fate[l] = "taken" =>
             l \in posted /\ \A h \in Hooks : pc[h] \in {"record", "claim"} => job[h].line # l

LEMMA FatesNext == Turns /\ Backs /\ Fates /\ [Next]_vars => Fates'
<1> SUFFICES ASSUME Turns, Backs, Fates, [Next]_vars, NEW l \in Lines \ Background
             PROVE  /\ fate'[l] \in {"none", "killed", "taken"}
                    /\ fate'[l] = "taken" =>
                          /\ l \in posted'
                          /\ \A h \in Hooks : pc'[h] \in {"record", "claim"} => job'[h].line # l
    BY DEF Fates
<1>1. fate[l] \in {"none", "killed", "taken"} /\ FateStep(l)
    BY FateMoves DEF Fates
<1>2. fate'[l] \in {"none", "killed", "taken"}
    BY <1>1 DEF FateStep
<1>3. ASSUME fate'[l] = "taken", fate[l] = "taken"
      PROVE  /\ l \in posted'
             /\ \A h \in Hooks : pc'[h] \in {"record", "claim"} => job'[h].line # l
  <2>1. l \in posted /\ \A h \in Hooks : pc[h] \in {"record", "claim"} => job[h].line # l
    BY <1>3 DEF Fates
  <2>2. l \in posted'
    BY <2>1, LineStep
  <2>3. ASSUME NEW h \in Hooks, pc'[h] \in {"record", "claim"}, job'[h].line = l PROVE FALSE
    <3>1. CASE Scan(h)
      BY <2>1, <2>3, <3>1 DEF Scan
    <3>2. CASE \E m \in Lines : Tell(h, m) /\ job'[h].line = m
      BY <2>1, <2>3, <3>2 DEF Tell
    <3>3. QED
      BY <2>1, <2>3, <3>1, <3>2, HookStep
  <2>4. QED
    BY <2>2, <2>3
<1>4. ASSUME fate'[l] = "taken", fate[l] # "taken"
      PROVE  /\ l \in posted'
             /\ \A h \in Hooks : pc'[h] \in {"record", "claim"} => job'[h].line # l
  <2>1. PICK h \in Hooks : job[h].line = l /\ ClaimOwn(h)
    BY <1>1, <1>4 DEF FateStep
  <2>2. l \in posted /\ UNCHANGED <<posted, job>>
        /\ \E place \in {"forget", "pending"} : pc' = [pc EXCEPT ![h] = place]
    BY <2>1, ClaimedOwn DEF Turns, Phases, lines
  <2>3. ASSUME NEW k \in Hooks, pc'[k] \in {"record", "claim"} PROVE job'[k].line # l
    <3>1. k # h
      BY <2>2, <2>3 DEF Turns, IInv, Placed
    <3>2. l # None
      BY Constants
    <3>3. QED
      BY <2>1, <2>2, <3>1, <3>2 DEF Turns, OneHook
  <2>4. QED
    BY <2>2, <2>3
<1>5. QED
    BY <1>2, <1>3, <1>4

\* The record of a line that runs is there, unless a hook for it was killed.
Filing ==
    \A l \in Lines \ Background : fate[l] # "killed" =>
        /\ stage[l] = "runs" => l \in filed
        /\ \A h \in Hooks : job[h].line = l /\ stage[l] = "asked" /\ pc[h] \notin {"head", "log"}
                => l \in filed

LEMMA EndedFiling ==
    ASSUME Turns, Fates, NEW h \in Hooks, Ended(h), UNCHANGED filed,
           NEW l \in Lines \ Background, fate'[l] # "killed", fate[l] # "killed",
           stage[l] = "runs" => l \in filed,
           \A k \in Hooks : job[k].line = l /\ stage[l] = "asked" /\ pc[k] \notin {"head", "log"} => l \in filed,
           job[h].line = l => pc[h] \notin {"head", "log"}
    PROVE  /\ stage'[l] = "runs" => l \in filed'
           /\ \A k \in Hooks : job'[k].line = l /\ stage'[l] = "asked" /\ pc'[k] \notin {"head", "log"}
                => l \in filed'
<1> USE Constants DEF Turns, IInv, Placed, Shaped
<1>1. /\ \A k \in Hooks : pc'[k] = IF k = h THEN "idle" ELSE pc[k]
      /\ \A k \in Hooks : job'[k] = IF k = h THEN NoJob ELSE job[k]
      /\ stage'[l] = IF l = job[h].line /\ stage[l] = "asked" THEN "runs" ELSE stage[l]
    BY DEF Ended
<1>2. QED
    BY <1>1 DEF NoJob

LEMMA Revived ==
    ASSUME Turns, Backs, Fates, [Next]_vars, NEW l \in Lines \ Background,
           fate[l] = "killed", fate'[l] # "killed"
    PROVE  stage'[l] = "over"
<1>1. PICK h \in Hooks : job[h].line = l /\ ClaimOwn(h)
    BY FateMoves DEF FateStep
<1>2. l \in posted /\ UNCHANGED stage
    BY <1>1 DEF ClaimOwn, Turns, Phases, lines
<1>3. QED
    BY <1>2 DEF Turns, Phases

LEMMA FilingNext == Turns /\ Backs /\ Fates /\ Filing /\ [Next]_vars => Filing'
<1> SUFFICES ASSUME Turns, Backs, Fates, Filing, [Next]_vars,
                    NEW l \in Lines \ Background, fate'[l] # "killed", fate[l] # "killed"
             PROVE  /\ stage'[l] = "runs" => l \in filed'
                    /\ \A k \in Hooks : job'[k].line = l /\ stage'[l] = "asked" /\ pc'[k] \notin {"head", "log"}
                          => l \in filed'
    BY Revived DEF Filing
<1> DEFINE Goal == /\ stage'[l] = "runs" => l \in filed'
                   /\ \A k \in Hooks : job'[k].line = l /\ stage'[l] = "asked" /\ pc'[k] \notin {"head", "log"}
                          => l \in filed'
           Here == /\ stage[l] = "runs" => l \in filed
                   /\ \A k \in Hooks : job[k].line = l /\ stage[l] = "asked" /\ pc[k] \notin {"head", "log"}
                          => l \in filed
<1>0. Here
    BY DEF Filing
<1> USE <1>0, Constants
    DEF Turns, IInv, Placed, Shaped, Own, OneHook, Phases, git, lines, files, hook, counts, history
<1>1. ASSUME NEW h \in Hooks, NEW m \in Lines, Ask(h, m) PROVE Goal
  <2>1. /\ \A k \in Hooks : pc'[k] = IF k = h THEN "head" ELSE pc[k]
        /\ \A k \in Hooks : k # h => job'[k] = job[k]
        /\ stage'[l] = IF l = m THEN "asked" ELSE stage[l]
        /\ stage[m] = "new" /\ filed' = filed
    BY <1>1 DEF Ask, Start
  <2>2. ASSUME NEW k \in Hooks, job'[k].line = l, stage'[l] = "asked", pc'[k] \notin {"head", "log"}
        PROVE  l \in filed
    <3>1. k # h /\ job[k].line = l /\ pc[k] \notin {"head", "log"} /\ l # None
      BY <2>1, <2>2
    <3>2. stage[l] = "asked" \/ l \in posted
      BY <3>1
    <3>3. stage[l] # "new"
      BY <3>2
    <3>4. QED
      BY <2>1, <2>2, <3>1, <3>3
  <2>3. stage'[l] = "runs" => l \in filed
    BY <2>1
  <2>4. QED
    BY <2>1, <2>2, <2>3
<1>2. ASSUME NEW h \in Hooks, NEW m \in Lines, Tell(h, m) PROVE Goal
    BY <1>2 DEF Tell, Start
<1>3. ASSUME NEW h \in Hooks, NEW s \in Sessions, Event(h, s) PROVE Goal
    BY <1>3 DEF Event, Start
<1>4. ASSUME NEW h \in Hooks, ReadHead(h) PROVE Goal
    BY <1>4 DEF ReadHead, Goto
<1>5. ASSUME NEW h \in Hooks, ReadLog(h) PROVE Goal
    BY <1>5 DEF ReadLog, Goto
<1>6. ASSUME NEW h \in Hooks, Scan(h) PROVE Goal
    BY <1>6 DEF Scan, Goto
<1>7. ASSUME NEW h \in Hooks, ClaimOwn(h) PROVE Goal
  <2>1. /\ UNCHANGED <<job, stage, filed>> /\ pc[h] = "claim"
        /\ \A k \in Hooks : pc'[k] \in {"head", "log"} => pc[k] \in {"head", "log"}
        /\ \A k \in Hooks : pc[k] \in {"head", "log"} => pc'[k] \in {"head", "log"}
    BY <1>7, ClaimedOwn
  <2>2. QED
    BY <2>1
<1>8. ASSUME NEW h \in Hooks, Forget(h) PROVE Goal
    BY <1>8 DEF Forget, Goto
<1>9. ASSUME NEW h \in Hooks, Unpend(h) PROVE Goal
    BY <1>9 DEF Unpend, Put, Goto
<1>10. ASSUME NEW h \in Hooks, Keep(h) PROVE Goal
    BY <1>10 DEF Keep, Goto
<1>11. ASSUME NEW h \in Hooks, Pend(h) PROVE Goal
    BY <1>11 DEF Pend, Put, Goto
<1>12. ASSUME NEW h \in Hooks, ReadPending(h) PROVE Goal
  <2>1. CASE Fresh(job[h].session) = {}
    <3>1. Ended(h) /\ UNCHANGED filed /\ pc[h] = "pending"
      BY <1>12, <2>1 DEF ReadPending, Leave
    <3>2. QED
      BY <3>1, EndedFiling
  <2>2. CASE Fresh(job[h].session) # {}
    <3>1. pc' = [pc EXCEPT ![h] = "late"] /\ UNCHANGED <<job, stage, filed>> /\ pc[h] = "pending"
      BY <1>12, <2>2 DEF ReadPending, Goto
    <3>2. QED
      BY <3>1
  <2>3. QED
    BY <2>1, <2>2
<1>13. ASSUME NEW h \in Hooks, Late(h) PROVE Goal
    BY <1>13 DEF Late, Goto
<1>14. ASSUME NEW h \in Hooks, ClaimLate(h) PROVE Goal
    BY <1>14 DEF ClaimLate, Claim, Goto
<1>15. ASSUME NEW h \in Hooks, Store(h) PROVE Goal
  <2>1. Ended(h) /\ UNCHANGED filed /\ pc[h] = "late"
    BY <1>15 DEF Store, Leave
  <2>2. QED
    BY <2>1, EndedFiling
<1>16. ASSUME NEW h \in Hooks, Kill(h) PROVE Goal
  <2>1. Ended(h) /\ UNCHANGED filed
    BY <1>16 DEF Kill, Leave
  <2>2. job[h].line = l => fate[l] # "none"
    BY <1>16 DEF Kill
  <2>3. job[h].line = l => l \in posted
    BY <2>2 DEF Fates
  <2>4. job[h].line = l => pc[h] \notin {"head", "log"}
    BY <2>3
  <2>5. QED
    BY <2>1, <2>4, EndedFiling
<1>17. ASSUME NEW m \in Lines, Commit(m) PROVE Goal
    BY <1>17 DEF Commit
<1>18. ASSUME NEW m \in Lines, Reset(m) PROVE Goal
    BY <1>18 DEF Reset
<1>19. ASSUME NEW m \in Lines, Age(m) PROVE Goal
    BY <1>19 DEF Age
<1>20. ASSUME NEW s \in Sessions, Stale(s) PROVE Goal
    BY <1>20 DEF Stale
<1>21. CASE UNCHANGED vars
    BY <1>21 DEF vars
<1>22. QED
    BY <1>1, <1>2, <1>3, <1>4, <1>5, <1>6, <1>7, <1>8, <1>9, <1>10, <1>11,
       <1>12, <1>13, <1>14, <1>15, <1>16, <1>17, <1>18, <1>19, <1>20, <1>21 DEF Next

\* A commit of a line that no hook will look for: its session or another has
\* it, or it amends what another session took (see Orphaned).
Lost(W, l, c) ==
    /\ \E i \in 1 .. Len(log) : log[i].new = c /\ log[i].act = "amend"
    /\ \E d \in W : taken[d] \ {Session[l]} # {}

Settled(W, l, c) == taken[c] # {} \/ Lost(W, l, c)

\* What the reflog says of a commit of the line.
Entry(W, l, i) ==
    /\ i \in Since(l) /\ log[i].act # "reset" /\ Kind(log[i].act) \in Kinds(l)
    /\ IF log[i].act = "amend" THEN log[i].old \in {d \in W : d < log[i].new} \union {before[l].head}
                              ELSE before[l].head \in Ancestors(log[i].new)

LEMMA WorkHasEntries ==
    ASSUME IInv, Authored, NEW l \in Lines, NEW W, IsWork(W, l), NEW c \in W
    PROVE  \E i \in 1 .. Len(log) : log[i].new = c /\ Entry(W, l, i)
<1>1. /\ c \in 1 .. Len(parents) /\ maker[c] = l
      /\ Grows(l, c, {d \in W : d < c} \union {before[l].head})
    BY DEF IsWork
<1>2. PICK i \in 1 .. Len(log) :
         /\ log[i].new = c /\ log[i].act # "reset"
         /\ IF log[i].act = "amend" THEN log[i].old \in {d \in W : d < c} \union {before[l].head}
                                   ELSE before[l].head \in Anc(parents, c)
    BY <1>1 DEF Grows
<1>3. log[i].act \in Verbs[l] /\ before[l].from < i
    BY <1>1, <1>2 DEF Authored
<1>4. i \in Since(l)
  <2>1. before[l].from \in Nat /\ Len(log) \in Nat
    BY DEF IInv, Noted, Recorded
  <2>2. QED
    BY <1>3, <2>1 DEF Since
<1>5. Kind(log[i].act) \in Kinds(l)
  <2>1. Kind(log[i].act) # "reset"
    BY <1>2 DEF Kind
  <2>2. QED
    BY <1>3, <2>1 DEF Kinds
<1>6. Anc(parents, c) = Ancestors(c)
  <2>1. c \in Commits
    <3>1. Len(parents) \in Nat
      BY DEF IInv, Recorded
    <3>2. QED
      BY <1>1, <3>1 DEF Commits
  <2>2. QED
    BY <2>1, AncestorsAre
<1>7. QED
    BY <1>2, <1>4, <1>5, <1>6 DEF Entry

\* The loop over the reflog takes every commit of the line that is not
\* settled: entries that bear each other out are all of them.
LEMMA LandedHasAll ==
    ASSUME CInv, Authored, Unclaimed, NEW l \in Lines, NEW W, IsWork(W, l), NEW c \in W
    PROVE  Settled(W, l, c) \/ c \in Landed(l).commits
<1> SUFFICES ASSUME ~Settled(W, l, c) PROVE c \in Landed(l).commits
    OBVIOUS
<1>1. IInv /\ Rising /\ Claimed /\ Len(claim) = Len(parents) /\ Len(taken) = Len(parents)
    BY DEF CInv, Turns, TInv, Claimed, Shown
<1>2. \A d \in W : d \in 1 .. Len(parents)
    BY DEF IsWork
<1>3. ASSUME NEW d \in W, taken[d] \subseteq {Session[l]} PROVE claim[d] \in {None, Session[l]}
  <2>1. d \in 1 .. Len(claim) /\ d \in 1 .. Len(taken)
    BY <1>1, <1>2
  <2>2. CASE claim[d] # None
    <3>1. taken[d] # {}
      BY <2>1, <2>2 DEF Unclaimed
    <3>2. claim[d] \in taken[d]
      BY <1>1, <2>1, <3>1 DEF Claimed
    <3>3. QED
      BY <1>3, <3>2
  <2>3. QED
    BY <2>2
<1>4. taken[c] = {} /\ ~Lost(W, l, c)
    BY DEF Settled
<1>5. PICK i \in 1 .. Len(log) : log[i].new = c /\ Entry(W, l, i)
    BY <1>1, WorkHasEntries
<1>6. i \in Ours(l, claim)
  <2>1. CASE log[i].act # "amend"
    <3>1. {i} \in SUBSET Since(l)
      BY <1>5 DEF Entry
    <3>2. claim[log[i].new] \in {None, Session[l]}
      BY <1>3, <1>4, <1>5
    <3>3. \A own : Takes(l, log[i], own, claim)
      BY <1>5, <2>1, <3>2 DEF Takes, Entry
    <3>4. QED
      BY <3>1, <3>3 DEF Ours
  <2>2. CASE log[i].act = "amend"
    <3>1. \A d \in W : taken[d] \subseteq {Session[l]}
      BY <1>4, <1>5, <2>2 DEF Lost
    <3> DEFINE E == {j \in Since(l) : log[j].new \in W /\ Entry(W, l, j)}
               Borne(j) == {before[l].head} \union {log[k].new : k \in {k \in E : k < j}}
    <3>2. ASSUME NEW j \in E PROVE Takes(l, log[j], Borne(j), claim)
      <4>1. /\ log[j].new \in W /\ Entry(W, l, j) /\ claim[log[j].new] \in {None, Session[l]}
            /\ Kind(log[j].act) \in Kinds(l)
        BY <1>3, <3>1 DEF Entry
      <4>2. CASE log[j].act # "amend"
        BY <4>1, <4>2 DEF Takes, Entry
      <4>3. CASE log[j].act = "amend"
        <5>1. log[j].old \in {d \in W : d < log[j].new} \union {before[l].head}
          BY <4>1, <4>3 DEF Entry
        <5>2. CASE log[j].old = before[l].head
          BY <4>1, <4>3, <5>2 DEF Takes
        <5>3. CASE log[j].old \in W /\ log[j].old < log[j].new
          <6>1. PICK k \in 1 .. Len(log) : log[k].new = log[j].old /\ Entry(W, l, k)
            BY <1>1, <5>3, WorkHasEntries
          <6>2. k \in E
            BY <5>3, <6>1 DEF Entry
          <6>3. j \in 1 .. Len(log) /\ j \in Nat /\ k \in Nat
            <7>1. before[l].from \in Nat /\ Len(log) \in Nat
              BY <1>1 DEF IInv, Noted, Recorded
            <7>2. j \in before[l].from + 1 .. Len(log)
              BY DEF Since
            <7>3. QED
              BY <7>1, <7>2
          <6>4. log[j].new \in Nat /\ log[k].new \in Nat
            BY <1>1, <6>3, EntriesAre
          <6>5. ~(j < k)
            <7>1. ASSUME j < k PROVE FALSE
              <8>1. log[j].new < log[k].new
                BY <1>1, <6>1, <6>3, <7>1 DEF Rising, Entry
              <8>2. QED
                BY <5>3, <6>1, <6>4, <8>1
            <7>2. QED
              BY <7>1
          <6>6. k # j
            BY <5>3, <6>1, <6>4
          <6>7. k < j
            BY <6>3, <6>5, <6>6
          <6>8. log[j].old \in Borne(j)
            BY <6>1, <6>2, <6>7
          <6> HIDE DEF E, Borne
          <6>9. QED
            BY <4>1, <4>3, <6>8 DEF Takes
        <5>4. QED
          BY <5>1, <5>2, <5>3
      <4>4. QED
        BY <4>2, <4>3
    <3>3. i \in E /\ E \in SUBSET Since(l)
      BY <1>5 DEF Entry
    <3> HIDE DEF E
    <3>4. QED
      BY <3>2, <3>3 DEF Ours
  <2>3. QED
    BY <2>1, <2>2
<1>7. Landed(l).commits = {log[j].new : j \in Ours(l, claim)}
    BY <1>6 DEF Landed
<1>8. QED
    BY <1>5, <1>6, <1>7

LEMMA FiledStep ==
    ASSUME [Next]_vars, NEW l \in filed, \A h \in Hooks : Scan(h) => job[h].line # l
    PROVE  l \in filed'
<1> USE DEF git, lines, files, hook, counts, history
<1>1. ASSUME NEW h \in Hooks, NEW m \in Lines, Ask(h, m) PROVE l \in filed'
    BY <1>1 DEF Ask, Start
<1>2. ASSUME NEW h \in Hooks, NEW m \in Lines, Tell(h, m) PROVE l \in filed'
    BY <1>2 DEF Tell, Start
<1>3. ASSUME NEW h \in Hooks, NEW s \in Sessions, Event(h, s) PROVE l \in filed'
    BY <1>3 DEF Event, Start
<1>4. ASSUME NEW h \in Hooks, ReadHead(h) PROVE l \in filed'
    BY <1>4 DEF ReadHead
<1>5. ASSUME NEW h \in Hooks, ReadLog(h) PROVE l \in filed'
    BY <1>5 DEF ReadLog
<1>6. ASSUME NEW h \in Hooks, Scan(h) PROVE l \in filed'
    BY <1>6 DEF Scan
<1>7. ASSUME NEW h \in Hooks, ClaimOwn(h) PROVE l \in filed'
    BY <1>7 DEF ClaimOwn
<1>8. ASSUME NEW h \in Hooks, Forget(h) PROVE l \in filed'
    BY <1>8 DEF Forget
<1>9. ASSUME NEW h \in Hooks, Unpend(h) PROVE l \in filed'
    BY <1>9 DEF Unpend
<1>10. ASSUME NEW h \in Hooks, Keep(h) PROVE l \in filed'
    BY <1>10 DEF Keep
<1>11. ASSUME NEW h \in Hooks, Pend(h) PROVE l \in filed'
    BY <1>11 DEF Pend
<1>12. ASSUME NEW h \in Hooks, ReadPending(h) PROVE l \in filed'
  <2>1. CASE Fresh(job[h].session) = {}
    BY <1>12, <2>1 DEF ReadPending, Leave
  <2>2. CASE Fresh(job[h].session) # {}
    BY <1>12, <2>2 DEF ReadPending
  <2>3. QED
    BY <2>1, <2>2
<1>13. ASSUME NEW h \in Hooks, Late(h) PROVE l \in filed'
    BY <1>13 DEF Late
<1>14. ASSUME NEW h \in Hooks, ClaimLate(h) PROVE l \in filed'
    BY <1>14 DEF ClaimLate
<1>15. ASSUME NEW h \in Hooks, Store(h) PROVE l \in filed'
    BY <1>15 DEF Store, Leave
<1>16. ASSUME NEW h \in Hooks, Kill(h) PROVE l \in filed'
    BY <1>16 DEF Kill, Leave
<1>17. ASSUME NEW m \in Lines, Commit(m) PROVE l \in filed'
    BY <1>17 DEF Commit
<1>18. ASSUME NEW m \in Lines, Reset(m) PROVE l \in filed'
    BY <1>18 DEF Reset
<1>19. ASSUME NEW m \in Lines, Age(m) PROVE l \in filed'
    BY <1>19 DEF Age
<1>20. ASSUME NEW s \in Sessions, Stale(s) PROVE l \in filed'
    BY <1>20 DEF Stale
<1>21. CASE UNCHANGED vars
    BY <1>21 DEF vars
<1>22. QED
    BY <1>1, <1>2, <1>3, <1>4, <1>5, <1>6, <1>7, <1>8, <1>9, <1>10, <1>11,
       <1>12, <1>13, <1>14, <1>15, <1>16, <1>17, <1>18, <1>19, <1>20, <1>21 DEF Next

LEMMA TakenGrows ==
    ASSUME CInv, [Next]_vars
    PROVE  \A c \in 1 .. Len(parents) : taken[c] \subseteq taken'[c]
<1>1. taken \in Seq(SUBSET Sessions) /\ DOMAIN taken = 1 .. Len(parents)
  <2>1. taken \in Seq(SUBSET Sessions) /\ Len(taken) = Len(parents)
    BY DEF CInv, TInv, Claimed, Shown
  <2>2. QED
    BY <2>1
<1>2. CASE UNCHANGED <<taken, claim>>
    BY <1>2
<1>3. ASSUME NEW l \in Lines, Commit(l), NEW c \in 1 .. Len(parents) PROVE taken'[c] = taken[c]
  <2>1. taken' = Append(taken, {})
    BY <1>3 DEF Commit
  <2>2. QED
    BY <1>1, <2>1
<1>4. ASSUME NEW h \in Hooks, Claim(h), NEW c \in 1 .. Len(parents) PROVE taken[c] \subseteq taken'[c]
  <2>1. taken' = [d \in 1 .. Len(parents) |->
            IF d \in mine[h].commits THEN taken[d] \union {job[h].session} ELSE taken[d]]
    BY <1>1, <1>4 DEF Claim
  <2>2. QED
    BY <2>1
<1>5. QED
    BY <1>2, <1>3, <1>4, TakenStep

\* The work of a line that is over is what it was.
LEMMA GrowsStays ==
    ASSUME Turns, [Next]_vars, NEW l \in Lines, before'[l] = before[l],
           NEW c \in 1 .. Len(parents), NEW own
    PROVE  Grows(l, c, own)' <=> Grows(l, c, own)
<1>1. /\ Len(parents) \in Nat /\ Len(log) \in Nat /\ Len(log') \in {Len(log), Len(log) + 1}
      /\ \A d \in 0 .. Len(parents) : Anc(parents', d) = Anc(parents, d)
      /\ \A i \in 1 .. Len(log) : log'[i] = log[i]
      /\ \A i \in Len(log) + 1 .. Len(log') :
            log'[i].new = head' /\ (log'[i].act # "reset" => head' = Len(parents) + 1)
    BY GitGrows DEF Turns
<1>2. Anc(parents', c) = Anc(parents, c)
    BY <1>1
<1>3. ASSUME NEW i \in 1 .. Len(log'), log'[i].new = c, log'[i].act # "reset" PROVE i \in 1 .. Len(log)
    BY <1>1, <1>3
<1>4. \A i \in 1 .. Len(log) : i \in 1 .. Len(log')
    BY <1>1
<1>5. QED
    BY <1>1, <1>2, <1>3, <1>4 DEF Grows

LEMMA WorkStays ==
    ASSUME Turns, Authored, [Next]_vars, NEW l \in posted \ Background, NEW W, IsWork(W, l)'
    PROVE  IsWork(W, l)
<1>1. l \in Lines /\ stage[l] = "over"
    BY DEF Turns, IInv, Placed, Phases
<1>2. before'[l] = before[l]
    BY <1>1, BeforeStep DEF Turns, Phases
<1>3. /\ Len(parents) \in Nat /\ Len(parents') \in Nat /\ Len(parents) <= Len(parents')
      /\ maker \in Seq(Lines) /\ Len(maker) = Len(parents)
    BY GitGrows DEF Turns, Authored
<1>4. /\ W \subseteq 1 .. Len(parents')
      /\ \A c \in 1 .. Len(parents') :
            c \in W <=> /\ maker'[c] = l
                        /\ Grows(l, c, {d \in W : d < c} \union {before[l].head})'
    BY <1>2 DEF IsWork
<1>5. /\ \A c \in 1 .. Len(parents) : maker'[c] = maker[c]
      /\ \A c \in 1 .. Len(parents') : c \notin 1 .. Len(parents) => maker'[c] # l
  <2>1. CASE \E m \in Lines : Commit(m)
    <3>1. PICK m \in Lines : Commit(m)
      BY <2>1
    <3>2. maker' = Append(maker, m) /\ m # l
      BY <1>1, <3>1 DEF Commit
    <3>3. Len(parents') = Len(parents) + 1
      BY <3>1, CommitAdds DEF Turns
    <3>4. maker'[Len(parents) + 1] = m /\ \A c \in 1 .. Len(parents) : maker'[c] = maker[c]
      BY <1>3, <3>2
    <3>5. QED
      BY <1>3, <3>2, <3>3, <3>4
  <2>2. CASE ~ \E m \in Lines : Commit(m)
    <3>1. UNCHANGED <<maker, parents>>
      BY <2>2, MakerStep, GitStep, ResetAdds DEF Turns
    <3>2. QED
      BY <3>1
  <2>3. QED
    BY <2>1, <2>2
<1>6. W \subseteq 1 .. Len(parents)
    BY <1>4, <1>5
<1>7. ASSUME NEW c \in 1 .. Len(parents)
      PROVE  c \in W <=> /\ maker[c] = l
                         /\ Grows(l, c, {d \in W : d < c} \union {before[l].head})
  <2>1. c \in 1 .. Len(parents')
    BY <1>3
  <2> DEFINE own == {d \in W : d < c} \union {before[l].head}
  <2>2. c \in W <=> maker'[c] = l /\ Grows(l, c, own)'
    BY <1>2, <1>4, <2>1
  <2>3. Grows(l, c, own)' <=> Grows(l, c, own)
    <3>1. \A x : Grows(l, c, x)' <=> Grows(l, c, x)
      BY <1>1, <1>2, GrowsStays
    <3>2. QED
      BY <1>2, <3>1
  <2>4. QED
    BY <1>5, <2>2, <2>3
<1>8. QED
    BY <1>6, <1>7 DEF IsWork

LEMMA SettledStays ==
    ASSUME CInv, [Next]_vars, NEW l, NEW W, W \subseteq 1 .. Len(parents), NEW c \in W, Settled(W, l, c)
    PROVE  Settled(W, l, c)'
<1>1. \A d \in W : taken[d] \subseteq taken'[d]
    BY TakenGrows
<1>2. CASE taken[c] # {}
    BY <1>1, <1>2 DEF Settled
<1>3. CASE Lost(W, l, c)
  <2>1. \A i \in 1 .. Len(log) : i \in 1 .. Len(log') /\ log'[i] = log[i]
    BY GitGrows DEF CInv, Turns
  <2>2. Lost(W, l, c)'
    BY <1>1, <1>3, <2>1 DEF Lost
  <2>3. QED
    BY <2>2 DEF Settled
<1>4. QED
    BY <1>2, <1>3 DEF Settled

\* How far a line in the foreground, whose hook after it has started, has come:
\* that hook is yet to read its record, or what the record landed is settled,
\* but for what the hook is about to claim.
Taking(l, c) == \E h \in Hooks : pc[h] = "claim" /\ job[h].line = l /\ c \in mine[h].commits

Reading(l) == \E h \in Hooks : pc[h] = "record" /\ job[h].line = l /\ l \in filed

Exempt(l) == fate[l] = "killed" /\ \A h \in Hooks : pc[h] = "claim" => job[h].line # l

Progress ==
    \A l \in posted \ Background :
        \/ Exempt(l)
        \/ Reading(l)
        \/ \A W : IsWork(W, l) => \A c \in W : Settled(W, l, c) \/ Taking(l, c)

LInv == CInv /\ Authored /\ Unclaimed /\ Backs /\ Fates /\ Filing /\ Progress

\* The hook after a line starts while the record is there.
LEMMA ToldReads ==
    ASSUME LInv, [Next]_vars, NEW l \in posted' \ Background, l \notin posted, ~Exempt(l)'
    PROVE  Reading(l)'
<1>1. Turns /\ l \in Lines
  <2>1. Turns /\ Placed'
    BY PlacedNext DEF LInv, CInv, Turns
  <2>2. QED
    BY <2>1 DEF Placed
<1>2. PICK h \in Hooks : Tell(h, l)
    BY <1>1, LineStep
<1>3. /\ stage[l] = "runs" /\ UNCHANGED <<filed, fate>>
      /\ pc'[h] = "record" /\ job'[h].line = l
    BY <1>1, <1>2 DEF Tell, Start, files, Turns, IInv, Placed, Shaped
<1>4. ASSUME NEW k \in Hooks, pc'[k] = "claim", job'[k].line = l PROVE FALSE
  <2>1. CASE pc[k] = "claim" /\ job'[k] = job[k]
    BY <1>1, <1>4, <2>1 DEF Turns, Phases
  <2>2. CASE Scan(k)
    <3>1. job[k].line = l /\ pc[k] = "record"
      BY <1>4, <2>2 DEF Scan
    <3>2. QED
      BY <1>1, <3>1 DEF Turns, Phases
  <2>3. QED
    BY <1>1, <1>4, <2>1, <2>2, HookStep
<1>5. fate[l] # "killed"
    BY <1>3, <1>4 DEF Exempt
<1>6. l \in filed
    BY <1>1, <1>3, <1>5 DEF LInv, Filing
<1>7. QED
    BY <1>3, <1>6 DEF Reading

LEMMA OneOf ==
    ASSUME Turns, NEW l \in Lines, NEW h \in Hooks, NEW k \in Hooks, job[h].line = l, job[k].line = l
    PROVE  h = k
BY Constants DEF Turns, OneHook

\* It reads the record, and has all that is not settled.
LEMMA ScanProgress ==
    ASSUME LInv, [Next]_vars, NEW l \in posted \ Background, NEW k \in Hooks, Scan(k), job[k].line = l,
           ~Exempt(l)', NEW W, IsWork(W, l)', NEW c \in W
    PROVE  Settled(W, l, c)' \/ Taking(l, c)'
<1>1. CInv /\ Turns /\ Authored /\ l \in Lines /\ IInv
    BY DEF LInv, CInv, Turns, IInv, Placed
<1>2. IsWork(W, l)
    BY <1>1, WorkStays
<1>3. Settled(W, l, c) => Settled(W, l, c)'
    BY <1>1, <1>2, SettledStays DEF IsWork
<1>4. pc[k] = "record" /\ UNCHANGED <<job, fate>>
    BY DEF Scan, history
<1>5. CASE l \in filed
  <2>1. Settled(W, l, c) \/ c \in Landed(l).commits
    BY <1>1, <1>2, LandedHasAll DEF LInv
  <2>2. ASSUME c \in Landed(l).commits PROVE Taking(l, c)'
    <3>1. Landed(l) # Nothing
      BY <2>2 DEF Nothing
    <3>2. mine'[k] = Landed(l) /\ pc'[k] = "claim"
      BY <1>1, <1>5, <3>1 DEF Scan, Goto, IInv, Shaped, Placed
    <3>3. QED
      BY <1>4, <2>2, <3>2 DEF Taking
  <2>3. QED
    BY <1>3, <2>1, <2>2
<1>6. CASE l \notin filed
  <2>1. pc'[k] # "claim"
    BY <1>1, <1>6 DEF Scan, Goto, IInv, Shaped, Placed
  <2>2. \A h \in Hooks : job[h].line = l => h = k
    BY <1>1, OneOf
  <2>3. fate[l] # "killed"
    BY <1>4, <2>1, <2>2 DEF Exempt
  <2>4. ~Reading(l) /\ ~Taking(l, c) /\ ~Exempt(l)
    BY <1>4, <1>6, <2>2, <2>3 DEF Reading, Taking, Exempt
  <2>5. Settled(W, l, c)
    BY <1>2, <2>4 DEF LInv, Progress
  <2>6. QED
    BY <1>3, <2>5
<1>7. QED
    BY <1>5, <1>6

\* No other step takes the hook from where it is, but its claim and its end.
LEMMA ProgressStays ==
    ASSUME LInv, [Next]_vars, NEW l \in posted \ Background,
           \A k \in Hooks : Scan(k) => job[k].line # l, ~Exempt(l)'
    PROVE  \/ Reading(l)'
           \/ \A W : IsWork(W, l)' => \A c \in W : Settled(W, l, c)' \/ Taking(l, c)'
<1>1. CInv /\ Turns /\ Authored /\ Backs /\ Fates /\ l \in Lines /\ IInv
    BY DEF LInv, CInv, Turns, IInv, Placed
<1>2. FateStep(l)
    BY <1>1, FateMoves DEF Fates
<1>3. ASSUME Exempt(l) PROVE FALSE
  <2>1. \A k \in Hooks : pc'[k] = "claim" => job'[k].line # l
    <3>1. ASSUME NEW k \in Hooks, pc'[k] = "claim", job'[k].line = l PROVE FALSE
      <4>1. CASE pc[k] = "claim" /\ job'[k] = job[k]
        BY <1>3, <3>1, <4>1 DEF Exempt
      <4>2. CASE Scan(k)
        BY <3>1, <4>2 DEF Scan
      <4>3. QED
        BY <1>1, <3>1, <4>1, <4>2, HookStep
    <3>2. QED
      BY <3>1
  <2>2. fate'[l] = "killed"
    <3>1. ~ \E h \in Hooks : job[h].line = l /\ ClaimOwn(h)
      BY <1>3 DEF Exempt, ClaimOwn
    <3>2. fate[l] = "killed"
      BY <1>3 DEF Exempt
    <3>3. QED
      BY <1>2, <3>1, <3>2 DEF FateStep
  <2>3. QED
    BY <2>1, <2>2 DEF Exempt
<1>4. ASSUME NEW h \in Hooks, Kill(h), job[h].line = l, pc[h] \in {"record", "claim"} PROVE FALSE
  <2>1. fate[l] \in {"none", "killed"}
    BY <1>1, <1>4 DEF Fates
  <2>2. fate'[l] = "killed"
    BY <1>1, <1>4, <2>1 DEF Kill
  <2>3. pc'[h] = "idle"
    BY <1>1, <1>4 DEF Kill, Leave, Ended, IInv, Placed
  <2>4. ASSUME NEW k \in Hooks, pc'[k] = "claim", job'[k].line = l PROVE FALSE
    <3>1. k # h
      BY <2>3, <2>4
    <3>2. job[k].line = l
      BY <1>1, <1>4, <2>4, <3>1 DEF Kill, Leave, Ended, IInv, Shaped
    <3>3. QED
      BY <1>1, <1>4, <3>1, <3>2, OneOf
  <2>5. QED
    BY <2>2, <2>4 DEF Exempt
<1>5. CASE Reading(l)
  <2>1. PICK h \in Hooks : pc[h] = "record" /\ job[h].line = l /\ l \in filed
    BY <1>5 DEF Reading
  <2>2. l \in filed'
    BY <2>1, FiledStep
  <2>3. pc'[h] = pc[h] /\ job'[h] = job[h]
    <3>1. ~Scan(h) /\ ~ClaimOwn(h) /\ ~Kill(h)
      BY <1>4, <2>1 DEF ClaimOwn
    <3>2. QED
      BY <1>1, <2>1, <3>1, HookStep
  <2>4. QED
    BY <2>1, <2>2, <2>3 DEF Reading
<1>6. CASE \A W : IsWork(W, l) => \A c \in W : Settled(W, l, c) \/ Taking(l, c)
  <2>1. ASSUME NEW W, IsWork(W, l)', NEW c \in W PROVE Settled(W, l, c)' \/ Taking(l, c)'
    <3>1. IsWork(W, l) /\ W \subseteq 1 .. Len(parents)
      BY <1>1, <2>1, WorkStays DEF IsWork
    <3>2. CASE Settled(W, l, c)
      BY <1>1, <3>1, <3>2, SettledStays
    <3>3. CASE Taking(l, c)
      <4>1. PICK h \in Hooks : pc[h] = "claim" /\ job[h].line = l /\ c \in mine[h].commits
        BY <3>3 DEF Taking
      <4>2. ~Scan(h) /\ ~Kill(h)
        BY <1>4, <4>1
      <4>3. CASE pc'[h] = pc[h] /\ job'[h] = job[h] /\ mine'[h] = mine[h]
        BY <4>1, <4>3 DEF Taking
      <4>4. CASE ClaimOwn(h)
        <5>1. taken \in Seq(SUBSET Sessions) /\ DOMAIN taken = 1 .. Len(parents)
          <6>1. taken \in Seq(SUBSET Sessions) /\ Len(taken) = Len(parents)
            BY <1>1 DEF CInv, TInv, Claimed, Shown
          <6>2. QED
            BY <6>1
        <5>2. taken' = [d \in 1 .. Len(parents) |->
                  IF d \in mine[h].commits THEN taken[d] \union {job[h].session} ELSE taken[d]]
          BY <4>4, <5>1 DEF ClaimOwn, Claim
        <5>3. job[h].session \in taken'[c]
          BY <3>1, <4>1, <5>2
        <5>4. QED
          BY <5>3 DEF Settled
      <4>5. QED
        BY <1>1, <4>1, <4>2, <4>3, <4>4, HookStep
    <3>4. QED
      BY <1>6, <3>1, <3>2, <3>3
  <2>2. QED
    BY <2>1
<1>7. QED
    BY <1>3, <1>5, <1>6 DEF LInv, Progress

LEMMA ProgressNext == LInv /\ [Next]_vars => Progress'
<1> SUFFICES ASSUME LInv, [Next]_vars, NEW l \in posted' \ Background, ~Exempt(l)'
             PROVE  \/ Reading(l)'
                    \/ \A W : IsWork(W, l)' => \A c \in W : Settled(W, l, c)' \/ Taking(l, c)'
    BY DEF Progress
<1>1. CASE l \notin posted
    BY <1>1, ToldReads
<1>2. CASE l \in posted /\ \E k \in Hooks : Scan(k) /\ job[k].line = l
    BY <1>2, ScanProgress
<1>3. CASE l \in posted /\ \A k \in Hooks : Scan(k) => job[k].line # l
    BY <1>3, ProgressStays
<1>4. QED
    BY <1>1, <1>2, <1>3

LEMMA LInvHolds == (Init => LInv) /\ (LInv /\ [Next]_vars => LInv')
<1>1. Init => LInv
  <2> SUFFICES ASSUME Init PROVE LInv
      OBVIOUS
  <2>1. CInv
      BY CInvHolds
  <2>2. Authored /\ Unclaimed
      BY DEF Init, Authored, Unclaimed
  <2>3. Backs /\ Fates /\ Filing /\ Progress
      BY Constants DEF Init, Backs, Fates, Filing, Progress, NoJob
  <2>4. QED
      BY <2>1, <2>2, <2>3 DEF LInv
<1>2. LInv /\ [Next]_vars => LInv'
  <2> SUFFICES ASSUME LInv, [Next]_vars PROVE LInv'
      OBVIOUS
  <2>1. CInv /\ TInv /\ Turns /\ IInv /\ Authored /\ Unclaimed /\ Backs /\ Fates /\ Filing
      BY DEF LInv, CInv, Turns
  <2>2. CInv'
      BY <2>1, CInvHolds
  <2>3. Authored' /\ Unclaimed' /\ Backs'
      BY <2>1, AuthoredNext, UnclaimedNext, BacksNext
  <2>4. Fates' /\ Filing'
      BY <2>1, FatesNext, FilingNext
  <2>5. Progress'
      BY ProgressNext
  <2>6. QED
      BY <2>2, <2>3, <2>4, <2>5 DEF LInv
<1>3. QED
    BY <1>1, <1>2

\* What a line in the foreground recorded is reviewed once its hook is done,
\* whatever a later statement of the line did to HEAD and whichever session's
\* claim came first: no commit of it is looked past, unless a hook for the
\* line was killed or the commit amends one that another session took.
THEOREM WorkIsTaken == Spec => []LandedIsTaken
<1>1. LInv => LandedIsTaken
  <2> SUFFICES ASSUME LInv, NEW l \in posted \ Background, fate[l] # "killed",
                      \A h \in Hooks : job[h].line # l, NEW c \in Work(l)
               PROVE  taken[c] # {} \/ Orphaned(c)
      BY DEF LandedIsTaken
  <2>1. l \in Lines /\ IInv
      BY DEF LInv, CInv, Turns, IInv, Placed
  <2>2. IsWork(Work(l), l)
      BY <2>1, WorkIs
  <2>3. ~Exempt(l) /\ ~Reading(l) /\ ~Taking(l, c)
      BY DEF Exempt, Reading, Taking
  <2>4. Settled(Work(l), l, c)
      BY <2>2, <2>3 DEF LInv, Progress
  <2>5. maker[c] = l
      BY <2>2 DEF IsWork
  <2>6. DOMAIN log = 1 .. Len(log)
      BY <2>1 DEF IInv, Recorded
  <2>7. QED
      BY <2>4, <2>5, <2>6 DEF Settled, Lost, Orphaned
<1>2. QED
    BY <1>1, LInvHolds, PTL DEF Spec

-----------------------------------------------------------------------------
(* What waits is taken, or out of reach of the line that takes its place.  *)

LEMMA WorkNext == IInv' => (\A l \in Lines : IsWork(Work(l), l))'
<1>1. IInv => (\A l \in Lines : IsWork(Work(l), l))
    BY WorkIs
<1>2. QED
    BY <1>1, PTL

\* A line that has begun keeps its record of HEAD, and each commit stays or
\* stays not its work.
LEMMA BegunStays ==
    ASSUME Turns, [Next]_vars, NEW l \in Lines, stage[l] \in {"runs", "over"}
    PROVE  before'[l] = before[l]
<1>1. \A h \in Hooks : pc[h] \in {"head", "log"} => job[h].line # l
    BY DEF Turns, Phases
<1>2. QED
    BY <1>1, BeforeStep

LEMMA MakerStays ==
    ASSUME Turns, Authored, [Next]_vars
    PROVE  /\ maker \in Seq(Lines) /\ Len(maker) = Len(parents)
           /\ \A c \in 1 .. Len(parents) : maker'[c] = maker[c]
<1>1. maker \in Seq(Lines) /\ Len(maker) = Len(parents)
    BY DEF Authored
<1>2. CASE UNCHANGED maker
    BY <1>1, <1>2
<1>3. CASE \E l \in Lines : Commit(l)
    BY <1>1, <1>3 DEF Commit
<1>4. QED
    BY <1>1, <1>2, <1>3, MakerStep

LEMMA WorkKept ==
    ASSUME Turns, Authored, [Next]_vars, NEW l \in Lines, before'[l] = before[l],
           NEW c \in 1 .. Len(parents)
    PROVE  c \in Work(l)' <=> c \in Work(l)
<1>1. IInv /\ IInv'
    BY TypedNext DEF Turns
<1> SUFFICES ASSUME NEW W, NEW V, W = Work(l), V = Work(l)' PROVE c \in V <=> c \in W
    OBVIOUS
<1> DEFINE N == Len(parents)
<1>2. N \in Nat /\ Len(parents') \in Nat /\ N <= Len(parents')
    BY GitGrows DEF Turns
<1>3. \A d \in 1 .. N : d \in W <=> /\ maker[d] = l
                                    /\ Grows(l, d, {e \in W : e < d} \union {before[l].head})
    BY <1>1, WorkIs DEF IsWork
<1>4. IsWork(V, l)'
    BY <1>1, WorkNext
<1>5. /\ W \subseteq 1 .. N /\ V \subseteq 1 .. Len(parents')
      /\ \A d \in 1 .. Len(parents') :
            d \in V <=> /\ maker'[d] = l
                        /\ Grows(l, d, {e \in V : e < d} \union {before[l].head})'
    BY <1>1, <1>4, WorkIs DEF IsWork
<1>6. \A d \in 1 .. N : \A own : Grows(l, d, own)' <=> Grows(l, d, own)
    BY GrowsStays
<1>7. \A d \in 1 .. N : maker'[d] = maker[d]
    BY MakerStays
<1> DEFINE T == {d \in 1 .. N : ~(d \in V <=> d \in W)}
<1>8. ASSUME T # {} PROVE FALSE
  <2>1. T \subseteq Nat
    BY <1>2
  <2>2. PICK d \in T : \A e \in T : d <= e
    <3> HIDE DEF T
    <3>1. QED
      BY <1>8, <2>1, Least
  <2>3. d \in 1 .. N /\ d \in 1 .. Len(parents')
    BY <1>2, <2>2
  <2> DEFINE A == {e \in W : e < d} \union {before[l].head}
             B == {e \in V : e < d} \union {before[l].head}
  <2>4. {e \in V : e < d} = {e \in W : e < d}
    <3>1. ASSUME NEW e, e \in V \/ e \in W, e < d PROVE e \in V <=> e \in W
      <4>1. e \in Nat /\ 1 <= e
        BY <1>2, <1>5, <3>1
      <4>2. e \in 1 .. N /\ ~(d <= e)
        BY <1>2, <2>3, <3>1, <4>1
      <4>3. QED
        BY <2>2, <4>2
    <3>2. QED
      BY <3>1
  <2>5. A = B
    BY <2>4
  <2>6. d \in W <=> maker[d] = l /\ Grows(l, d, A)
    BY <1>3, <2>3
  <2>7. d \in V <=> maker'[d] = l /\ Grows(l, d, B)'
    BY <1>5, <2>3
  <2>8. Grows(l, d, B)' <=> Grows(l, d, B)
    <3>1. before'[l] = before[l] /\ V = V' /\ W = W'
      OBVIOUS
    <3>2. QED
      BY <1>6, <2>3
  <2>9. QED
    BY <1>7, <2>2, <2>3, <2>5, <2>6, <2>7, <2>8
<1>9. QED
    BY <1>8

LEMMA WorkHas ==
    ASSUME IInv, Authored, NEW l \in Lines, NEW c \in Work(l)
    PROVE  /\ c \in 1 .. Len(parents) /\ maker[c] = l /\ stage[l] \in {"runs", "over"}
           /\ \E i \in 1 .. Len(log) : log[i].new = c /\ log[i].act # "reset"
<1>1. IsWork(Work(l), l)
    BY WorkIs
<1>2. c \in 1 .. Len(parents) /\ maker[c] = l
    BY <1>1 DEF IsWork
<1>3. PICK i \in 1 .. Len(log) : log[i].new = c /\ Entry(Work(l), l, i)
    BY <1>1, WorkHasEntries
<1>4. QED
    BY <1>2, <1>3 DEF Authored, Entry

\* Some session took it, or it amends what another took.
Found(c) == taken[c] # {} \/ Orphaned(c)

LEMMA FoundStays ==
    ASSUME CInv, Authored, [Next]_vars, NEW c \in 1 .. Len(parents), Found(c)
    PROVE  Found(c)'
<1>1. Turns /\ IInv /\ Turns
    BY DEF CInv, Turns
<1>2. \A d \in 1 .. Len(parents) : taken[d] \subseteq taken'[d]
    BY TakenGrows
<1>3. CASE taken[c] # {}
    BY <1>2, <1>3 DEF Found
<1>4. CASE Orphaned(c)
  <2>1. DOMAIN log = 1 .. Len(log) /\ DOMAIN log' = 1 .. Len(log')
    BY <1>1, TypedNext DEF IInv, Recorded
  <2>2. PICK i \in 1 .. Len(log) : log[i].new = c /\ log[i].act = "amend"
    BY <1>4, <2>1 DEF Orphaned
  <2>3. maker[c] \in Lines /\ stage[maker[c]] \in {"runs", "over"}
    BY <2>2, <1>1, MakerStays DEF Authored
  <2>4. PICK d \in Work(maker[c]) : taken[d] \ {Session[maker[c]]} # {}
    BY <1>4 DEF Orphaned
  <2>5. d \in 1 .. Len(parents)
    BY <1>1, <2>3, WorkHas
  <2>6. maker'[c] = maker[c]
    BY <1>1, MakerStays
  <2>7. before'[maker[c]] = before[maker[c]]
    BY <1>1, <2>3, BegunStays
  <2>8. ASSUME NEW l \in Lines, l = maker[c] PROVE d \in Work(l)'
    BY <1>1, <2>3, <2>4, <2>5, <2>7, <2>8, WorkKept
  <2>9. taken'[d] \ {Session[maker'[c]]} # {}
    BY <1>2, <2>4, <2>5, <2>6
  <2>10. i \in 1 .. Len(log') /\ log'[i].new = c /\ log'[i].act = "amend"
    BY <1>1, <2>2, GitGrows
  <2>11. d \in Work(maker[c])'
    BY <2>3, <2>6, <2>8
  <2>12. Orphaned(c)'
    BY <2>1, <2>9, <2>10, <2>11 DEF Orphaned
  <2>13. QED
    BY <2>12 DEF Found
<1>5. QED
    BY <1>3, <1>4 DEF Found

\* What `landed` gives for a record is all of the line's work that nobody has.
LEMMA LandedFinds ==
    ASSUME CInv, Authored, Unclaimed, NEW l \in Lines, NEW c \in Work(l)
    PROVE  Found(c) \/ c \in Landed(l).commits
<1>1. IInv
    BY DEF CInv, Turns
<1>2. IsWork(Work(l), l) /\ maker[c] = l
    BY <1>1, WorkIs, WorkHas
<1>3. Settled(Work(l), l, c) \/ c \in Landed(l).commits
    BY <1>2, LandedHasAll
<1>4. DOMAIN log = 1 .. Len(log)
    BY <1>1 DEF IInv, Recorded
<1>5. QED
    BY <1>2, <1>3, <1>4 DEF Settled, Lost, Orphaned, Found

\* The entries of a line's record, whoever claimed what.
Reach(l) == Ours(l, [d \in DOMAIN claim |-> None])

\* Entries of the reflog since the record that bear each other out.
Chain(E, l) ==
    /\ E \subseteq Since(l)
    /\ \A j \in E :
          /\ j \in 1 .. Len(log) /\ before[l].from < j
          /\ log[j].act # "reset" /\ Kind(log[j].act) \in Kinds(l)
          /\ IF log[j].act = "amend"
             THEN \/ log[j].old = before[l].head
                  \/ \E k \in E : k < j /\ log[j].old = log[k].new
             ELSE before[l].head \in Anc(parents, log[j].new)

LEMMA ReachIs == IInv => (\A l \in Lines : \A i \in Reach(l) : \E E : i \in E /\ Chain(E, l))
<1> SUFFICES ASSUME IInv, NEW l \in Lines, NEW i \in Reach(l) PROVE \E E : i \in E /\ Chain(E, l)
    OBVIOUS
<1>1. PICK E \in SUBSET Since(l) : i \in E /\ \A j \in E :
            Takes(l, log[j], {before[l].head} \union {log[k].new : k \in {k \in E : k < j}},
                  [d \in DOMAIN claim |-> None])
    BY DEF Reach, Ours
<1>2. before[l].from \in Nat /\ Len(log) \in Nat
    BY DEF IInv, Noted, Recorded
<1>3. ASSUME NEW j \in E
      PROVE  /\ j \in 1 .. Len(log) /\ before[l].from < j
             /\ log[j].act # "reset" /\ Kind(log[j].act) \in Kinds(l)
             /\ IF log[j].act = "amend"
                THEN \/ log[j].old = before[l].head
                     \/ \E k \in E : k < j /\ log[j].old = log[k].new
                ELSE before[l].head \in Anc(parents, log[j].new)
  <2>1. j \in before[l].from + 1 .. Len(log)
    BY DEF Since
  <2>2. j \in 1 .. Len(log) /\ before[l].from < j
    BY <1>2, <2>1
  <2>3. Kind(log[j].act) \in Kinds(l)
    BY <1>1 DEF Takes
  <2>4. log[j].act # "reset"
    BY <2>3 DEF Kind, Kinds
  <2>5. log[j].act = "amend" =>
            log[j].old \in {before[l].head} \union {log[k].new : k \in {k \in E : k < j}}
    BY <1>1 DEF Takes
  <2>6. log[j].act # "amend" => before[l].head \in Ancestors(log[j].new)
    BY <1>1 DEF Takes
  <2>7. Ancestors(log[j].new) = Anc(parents, log[j].new)
    BY <2>2, EntriesAre, AncestorsAre DEF Commits
  <2>8. QED
    BY <2>2, <2>3, <2>4, <2>5, <2>6, <2>7
<1>4. QED
    BY <1>1, <1>3 DEF Chain

LEMMA ReachNext == IInv' => (\A l \in Lines : \A i \in Reach(l) : \E E : i \in E /\ Chain(E, l))'
BY ReachIs, PTL

LEMMA Borne ==
    ASSUME IInv, NEW l \in Lines, NEW claims, NEW E, Chain(E, l), NEW i \in E,
           \A j \in E : claims[log[j].new] \in {None, Session[l]}
    PROVE  i \in Ours(l, claims)
<1>1. ASSUME NEW j \in E
      PROVE  Takes(l, log[j], {before[l].head} \union {log[k].new : k \in {k \in E : k < j}}, claims)
  <2>1. j \in 1 .. Len(log) /\ Kind(log[j].act) \in Kinds(l)
    BY DEF Chain
  <2>2. CASE log[j].act = "amend"
    <3>1. log[j].old \in {before[l].head} \union {log[k].new : k \in {k \in E : k < j}}
      BY <2>2 DEF Chain
    <3>2. QED
      BY <2>1, <2>2, <3>1 DEF Takes
  <2>3. CASE log[j].act # "amend"
    <3>1. Ancestors(log[j].new) = Anc(parents, log[j].new)
      BY <2>1, EntriesAre, AncestorsAre DEF Commits
    <3>2. before[l].head \in Ancestors(log[j].new)
      BY <2>3, <3>1 DEF Chain
    <3>3. QED
      BY <2>1, <2>3, <3>2 DEF Takes
  <2>4. QED
    BY <2>2, <2>3
<1>2. E \in SUBSET Since(l)
    BY DEF Chain
<1>3. QED
    BY <1>1, <1>2 DEF Ours

\* A commit is made by one entry of the reflog.
LEMMA OneEntry ==
    ASSUME IInv, Rising, NEW i \in 1 .. Len(log), NEW j \in 1 .. Len(log),
           log[i].act # "reset", log[j].act # "reset", log[i].new = log[j].new
    PROVE  i = j
<1>1. i \in Nat /\ j \in Nat /\ log[i].new \in Nat
    BY EntriesAre, SMTT(20) DEF IInv, Recorded
<1>2. ~(i < j) /\ ~(j < i)
    BY <1>1 DEF Rising
<1>3. QED
    BY <1>1, <1>2

\* A commit of a record that waits, out of nobody's hands, that the record of
\* a later line reaches, is taken with that line: the commits it amends are
\* all of the waiting line, whose HEAD is older than the later record.
LEMMA ReachFinds ==
    ASSUME CInv, Authored, Unclaimed, NEW l \in Lines, NEW m \in Recs, Session[m] = Session[l],
           before[m].from <= before[l].from, NEW c \in Work(m),
           NEW i \in Reach(l), log[i].new = c
    PROVE  Found(c) \/ c \in Landed(l).commits
<1> SUFFICES ASSUME ~Found(c) PROVE c \in Landed(l).commits
    OBVIOUS
<1>1. /\ IInv /\ Rising /\ Claimed /\ Len(claim) = Len(parents) /\ Len(taken) = Len(parents)
      /\ m \in Lines /\ Later(m)
    BY DEF CInv, Turns, TInv, Claimed, Shown, Known, Ready, Recs
<1>2. PICK E : i \in E /\ Chain(E, l)
    BY <1>1, ReachIs
<1>3. taken[c] = {} /\ ~Orphaned(c) /\ maker[c] = m
    BY <1>1, WorkHas DEF Found
<1>4. ASSUME NEW d \in Work(m), taken[d] \subseteq {Session[l]} PROVE claim[d] \in {None, Session[l]}
  <2>1. d \in 1 .. Len(claim) /\ d \in 1 .. Len(taken)
    BY <1>1, WorkHas
  <2>2. CASE claim[d] # None
    <3>1. taken[d] # {}
      BY <2>1, <2>2 DEF Unclaimed
    <3>2. claim[d] \in taken[d]
      BY <1>1, <2>1, <3>1 DEF Claimed
    <3>3. QED
      BY <1>4, <3>2
  <2>3. QED
    BY <2>2
<1>5. i \in 1 .. Len(log) /\ i \in Since(l)
    BY <1>2 DEF Chain
<1>6. i \in Ours(l, claim)
  <2>1. CASE log[i].act # "amend"
    <3>1. claim[log[i].new] \in {None, Session[l]}
      BY <1>3, <1>4
    <3>2. Chain({i}, l)
      BY <1>2, <2>1 DEF Chain
    <3>3. QED
      BY <1>1, <3>1, <3>2, Borne
  <2>2. CASE log[i].act = "amend"
    <3>1. \A d \in Work(m) : taken[d] \subseteq {Session[l]}
      <4>1. DOMAIN log = 1 .. Len(log)
        BY <1>1 DEF IInv, Recorded
      <4>2. QED
        BY <1>3, <1>5, <2>2, <4>1 DEF Orphaned
    <3> DEFINE F == {j \in E : log[j].new \in Work(m)}
    <3>2. ASSUME NEW j \in F, log[j].act = "amend", log[j].old # before[l].head
          PROVE  \E k \in F : k < j /\ log[j].old = log[k].new
      <4>1. PICK k \in E : k < j /\ log[j].old = log[k].new
        BY <1>2, <3>2 DEF Chain
      <4>2. IsWork(Work(m), m)
        BY <1>1, WorkIs
      <4>3. PICK n \in 1 .. Len(log) : log[n].new = log[j].new /\ Entry(Work(m), m, n)
        BY <1>1, <4>2, WorkHasEntries
      <4>4. n = j
        BY <1>1, <1>2, <4>3, OneEntry DEF Entry, Chain
      <4>5. log[j].old \in Work(m) \union {before[m].head}
        BY <3>2, <4>3, <4>4 DEF Entry
      <4>6. log[j].old # before[m].head
        <5>1. before[m].from \in Nat /\ before[l].from \in Nat /\ before[m].head \in Nat /\ Len(log) \in Nat
          BY <1>1 DEF IInv, Noted, Recorded
        <5>2. k \in 1 .. Len(log) /\ before[l].from < k /\ log[k].act # "reset"
          BY <1>2, <4>1 DEF Chain
        <5>3. k \in before[m].from + 1 .. Len(log)
          BY <5>1, <5>2
        <5>4. before[m].head < log[k].new
          BY <1>1, <5>2, <5>3 DEF Later
        <5>5. log[k].new \in Nat
          BY <1>1, <5>2, EntriesAre
        <5>6. QED
          BY <4>1, <5>1, <5>4, <5>5
      <4>7. k \in F
        BY <4>1, <4>5, <4>6
      <4>8. QED
        BY <4>1, <4>7
    <3>3. \A j \in F : claim[log[j].new] \in {None, Session[l]}
      BY <1>4, <3>1
    <3>4. i \in F /\ F \subseteq E
      BY <1>2
    <3> HIDE DEF F
    <3>5. Chain(F, l)
      BY <1>2, <3>2, <3>4 DEF Chain
    <3>6. QED
      BY <1>1, <3>3, <3>4, <3>5, Borne
  <2>3. QED
    BY <2>1, <2>2
<1>7. Landed(l).commits = {log[j].new : j \in Ours(l, claim)}
    BY <1>6 DEF Landed
<1>8. QED
    BY <1>6, <1>7

\* A commit out of a record's reach stays out of it.
LEMMA UnreachedIs ==
    IInv => \A l \in Lines : \A c : Unreached(l, c) <=>
        \A i \in 1 .. Len(log) : log[i].new = c /\ log[i].act # "reset" =>
            i \in Since(l) /\ i \notin Reach(l)
<1> SUFFICES ASSUME IInv, NEW l \in Lines, NEW c
             PROVE  Unreached(l, c) <=>
        \A i \in 1 .. Len(log) : log[i].new = c /\ log[i].act # "reset" =>
            i \in Since(l) /\ i \notin Reach(l)
    OBVIOUS
<1>1. DOMAIN log = 1 .. Len(log)
    BY DEF IInv, Recorded
<1>2. QED
    BY <1>1 DEF Unreached, Reach

LEMMA UnreachedNext ==
    IInv' => (\A l \in Lines : \A c : Unreached(l, c) <=>
        \A i \in 1 .. Len(log) : log[i].new = c /\ log[i].act # "reset" =>
            i \in Since(l) /\ i \notin Reach(l))'
BY UnreachedIs, PTL

LEMMA UnreachedStays ==
    ASSUME CInv, Authored, [Next]_vars, NEW l \in Lines, before'[l] = before[l],
           NEW c \in 1 .. Len(parents), Unreached(l, c)
    PROVE  Unreached(l, c)'
<1>1. /\ IInv /\ IInv' /\ Turns
      /\ Len(claim) = Len(parents)
    BY TypedNext DEF CInv, Turns, TInv, Claimed, Shown
<1>2. /\ Len(parents) \in Nat /\ Len(log) \in Nat /\ Len(log') \in {Len(log), Len(log) + 1}
      /\ \A d \in 0 .. Len(parents) : Anc(parents', d) = Anc(parents, d)
      /\ \A i \in 1 .. Len(log) : log'[i] = log[i]
      /\ \A i \in Len(log) + 1 .. Len(log') :
            log'[i].new = head' /\ (log'[i].act # "reset" => head' = Len(parents) + 1)
    BY <1>1, GitGrows
<1>3. before[l].from \in Nat /\ DOMAIN claim = 1 .. Len(parents)
    BY <1>1 DEF IInv, Noted, Recorded
<1>4. ASSUME NEW i \in 1 .. Len(log'), log'[i].new = c, log'[i].act # "reset"
      PROVE  i \in Since(l)' /\ i \notin Reach(l)'
  <2>1. i \in 1 .. Len(log) /\ log'[i] = log[i]
    BY <1>2, <1>4
  <2>2. i \in Since(l) /\ i \notin Reach(l)
    BY <1>1, <1>4, <2>1, UnreachedIs
  <2>3. i \in Since(l)'
    BY <1>2, <1>3, <2>2 DEF Since
  <2>4. ASSUME i \in Reach(l)' PROVE FALSE
    <3>1. PICK E : i \in E /\ Chain(E, l)'
      BY <1>1, <2>4, ReachNext
    <3> DEFINE F == {j \in E : j <= Len(log)}
    <3>2. \A j \in E : /\ j \in 1 .. Len(log') /\ before[l].from < j
                       /\ log'[j].act # "reset" /\ Kind(log'[j].act) \in Kinds(l)
                       /\ IF log'[j].act = "amend"
                          THEN \/ log'[j].old = before[l].head
                               \/ \E k \in E : k < j /\ log'[j].old = log'[k].new
                          ELSE before[l].head \in Anc(parents', log'[j].new)
      BY <3>1 DEF Chain
    <3>3. ASSUME NEW j \in F
          PROVE  /\ j \in Since(l) /\ j \in 1 .. Len(log) /\ before[l].from < j
                 /\ log[j].act # "reset" /\ Kind(log[j].act) \in Kinds(l)
                 /\ log[j].new \in 1 .. Len(parents)
                 /\ IF log[j].act = "amend"
                    THEN \/ log[j].old = before[l].head
                         \/ \E k \in F : k < j /\ log[j].old = log[k].new
                    ELSE before[l].head \in Anc(parents, log[j].new)
      <4>1. /\ j \in 1 .. Len(log) /\ before[l].from < j /\ log'[j] = log[j]
        BY <1>2, <3>2
      <4>2. j \in Since(l)
        BY <1>2, <1>3, <4>1 DEF Since
      <4>3. log[j].act # "reset" /\ Kind(log[j].act) \in Kinds(l)
        BY <3>2, <4>1
      <4>4. log[j].new \in 1 .. Len(parents)
        BY <4>1, <4>3 DEF Authored
      <4>5. CASE log[j].act = "amend" /\ log[j].old # before[l].head
        <5>1. PICK k \in E : k < j /\ log'[j].old = log'[k].new
          BY <3>2, <4>1, <4>5
        <5>2. k \in 1 .. Len(log') /\ k <= Len(log)
          BY <1>2, <3>2, <4>1, <5>1
        <5>3. k \in F /\ log'[k] = log[k]
          BY <1>2, <5>2
        <5>4. QED
          BY <4>1, <4>2, <4>3, <4>4, <4>5, <5>1, <5>3
      <4>6. CASE log[j].act = "amend" /\ log[j].old = before[l].head
        BY <4>1, <4>2, <4>3, <4>4, <4>6
      <4>7. CASE log[j].act # "amend"
        <5>1. before[l].head \in Anc(parents', log'[j].new)
          BY <3>2, <4>1, <4>7
        <5>2. Anc(parents', log'[j].new) = Anc(parents, log[j].new)
          BY <1>2, <4>1, <4>4
        <5>3. QED
          BY <4>1, <4>2, <4>3, <4>4, <4>7, <5>1, <5>2
      <4>8. QED
        BY <4>5, <4>6, <4>7
    <3>4. i \in F
      BY <1>2, <2>1, <3>1
    <3> HIDE DEF F
    <3>5. Chain(F, l)
      BY <3>3 DEF Chain
    <3>6. \A j \in F : [d \in DOMAIN claim |-> None][log[j].new] \in {None, Session[l]}
      BY <1>3, <3>3
    <3>7. i \in Reach(l)
      BY <1>1, <3>4, <3>5, <3>6, Borne DEF Reach
    <3>8. QED
      BY <2>2, <3>7
  <2>5. QED
    BY <2>3, <2>4
<1>5. QED
    BY <1>1, <1>4, UnreachedNext

\* The kills are counted, and what was due is kept for each hook.
Tallied == kills \in Nat /\ DOMAIN due = Hooks

LEMMA TalliedNext == IInv /\ Tallied /\ [Next]_vars => Tallied' /\ (kills' = 0 => kills = 0)
<1> SUFFICES ASSUME IInv, Tallied, [Next]_vars PROVE Tallied' /\ (kills' = 0 => kills = 0)
    OBVIOUS
<1> USE DEF Tallied, git, lines, files, hook, counts, history
<1> DEFINE Goal == Tallied' /\ (kills' = 0 => kills = 0)
<1>1. ASSUME NEW h \in Hooks, NEW l \in Lines, Ask(h, l) PROVE Goal
    BY <1>1 DEF Ask, Start
<1>2. ASSUME NEW h \in Hooks, NEW l \in Lines, Tell(h, l) PROVE Goal
    BY <1>2 DEF Tell, Start
<1>3. ASSUME NEW h \in Hooks, NEW s \in Sessions, Event(h, s) PROVE Goal
    BY <1>3 DEF Event, Start
<1>4. ASSUME NEW h \in Hooks, ReadHead(h) PROVE Goal
    BY <1>4 DEF ReadHead, Goto
<1>5. ASSUME NEW h \in Hooks, ReadLog(h) PROVE Goal
    BY <1>5 DEF ReadLog, Goto
<1>6. ASSUME NEW h \in Hooks, Scan(h) PROVE Goal
    BY <1>6 DEF Scan, Goto
<1>7. ASSUME NEW h \in Hooks, ClaimOwn(h) PROVE Goal
    BY <1>7 DEF ClaimOwn, Claim, Goto
<1>8. ASSUME NEW h \in Hooks, Forget(h) PROVE Goal
    BY <1>8 DEF Forget, Goto
<1>9. ASSUME NEW h \in Hooks, Unpend(h) PROVE Goal
    BY <1>9 DEF Unpend, Put, Goto
<1>10. ASSUME NEW h \in Hooks, Keep(h) PROVE Goal
    BY <1>10 DEF Keep, Goto
<1>11. ASSUME NEW h \in Hooks, Pend(h) PROVE Goal
    BY <1>11 DEF Pend, Put, Goto
<1>12. ASSUME NEW h \in Hooks, ReadPending(h) PROVE Goal
  <2>1. CASE Fresh(job[h].session) = {}
    BY <1>12, <2>1 DEF ReadPending, Leave, Ended
  <2>2. CASE Fresh(job[h].session) # {}
    BY <1>12, <2>2 DEF ReadPending, Goto
  <2>3. QED
    BY <2>1, <2>2
<1>13. ASSUME NEW h \in Hooks, Late(h) PROVE Goal
    BY <1>13 DEF Late, Goto
<1>14. ASSUME NEW h \in Hooks, ClaimLate(h) PROVE Goal
    BY <1>14 DEF ClaimLate, Claim, Goto
<1>15. ASSUME NEW h \in Hooks, Store(h) PROVE Goal
    BY <1>15 DEF Store, Put, Leave, Ended
<1>16. ASSUME NEW h \in Hooks, Kill(h) PROVE Goal
    BY <1>16 DEF Kill, Leave, Ended
<1>17. ASSUME NEW l \in Lines, Commit(l) PROVE Goal
    BY <1>17 DEF Commit
<1>18. ASSUME NEW l \in Lines, Reset(l) PROVE Goal
    BY <1>18 DEF Reset
<1>19. ASSUME NEW l \in Lines, Age(l) PROVE Goal
    BY <1>19 DEF Age
<1>20. ASSUME NEW s \in Sessions, Stale(s) PROVE Goal
    BY <1>20 DEF Stale
<1>21. CASE UNCHANGED vars
    BY <1>21 DEF vars
<1>22. QED
    BY <1>1, <1>2, <1>3, <1>4, <1>5, <1>6, <1>7, <1>8, <1>9, <1>10, <1>11,
       <1>12, <1>13, <1>14, <1>15, <1>16, <1>17, <1>18, <1>19, <1>20, <1>21 DEF Next

\* A session with a hook has no other line in flight.
Flight ==
    \A h \in Hooks : \A k \in Lines :
        Session[k] = job[h].session /\ k # job[h].line => ~InFlight(k)

LEMMA FlightNext == KInv /\ Flight /\ [Next]_vars => Flight'
<1> SUFFICES ASSUME KInv, Flight, [Next]_vars PROVE Flight'
    OBVIOUS
<1> USE Constants
    DEF KInv, IInv, Placed, Shaped, Own, Alone, Flight, InFlight, Quiet, NoJob, git, lines, files, hook, counts, history
<1>1. ASSUME NEW h \in Hooks, NEW l \in Lines, Ask(h, l) PROVE Flight'
    BY <1>1 DEF Ask, Start
<1>2. ASSUME NEW h \in Hooks, NEW l \in Lines, Tell(h, l) PROVE Flight'
    BY <1>2 DEF Tell, Start
<1>3. ASSUME NEW h \in Hooks, NEW s \in Sessions, Event(h, s) PROVE Flight'
    BY <1>3 DEF Event, Start
<1>4. ASSUME NEW h \in Hooks, ReadHead(h) PROVE Flight'
    BY <1>4 DEF ReadHead, Goto
<1>5. ASSUME NEW h \in Hooks, ReadLog(h) PROVE Flight'
    BY <1>5 DEF ReadLog, Goto
<1>6. ASSUME NEW h \in Hooks, Scan(h) PROVE Flight'
    BY <1>6 DEF Scan, Goto
<1>7. ASSUME NEW h \in Hooks, ClaimOwn(h) PROVE Flight'
    BY <1>7 DEF ClaimOwn, Claim, Goto
<1>8. ASSUME NEW h \in Hooks, Forget(h) PROVE Flight'
    BY <1>8 DEF Forget, Goto
<1>9. ASSUME NEW h \in Hooks, Unpend(h) PROVE Flight'
    BY <1>9 DEF Unpend, Put, Goto
<1>10. ASSUME NEW h \in Hooks, Keep(h) PROVE Flight'
    BY <1>10 DEF Keep, Goto
<1>11. ASSUME NEW h \in Hooks, Pend(h) PROVE Flight'
    BY <1>11 DEF Pend, Put, Goto
<1>12. ASSUME NEW h \in Hooks, ReadPending(h) PROVE Flight'
  <2>1. CASE Fresh(job[h].session) = {}
    BY <1>12, <2>1 DEF ReadPending, Leave, Ended
  <2>2. CASE Fresh(job[h].session) # {}
    BY <1>12, <2>2 DEF ReadPending, Goto
  <2>3. QED
    BY <2>1, <2>2
<1>13. ASSUME NEW h \in Hooks, Late(h) PROVE Flight'
    BY <1>13 DEF Late, Goto
<1>14. ASSUME NEW h \in Hooks, ClaimLate(h) PROVE Flight'
    BY <1>14 DEF ClaimLate, Claim, Goto
<1>15. ASSUME NEW h \in Hooks, Store(h) PROVE Flight'
    BY <1>15 DEF Store, Put, Leave, Ended
<1>16. ASSUME NEW h \in Hooks, Kill(h) PROVE Flight'
    BY <1>16 DEF Kill, Leave, Ended
<1>17. ASSUME NEW l \in Lines, Commit(l) PROVE Flight'
    BY <1>17 DEF Commit
<1>18. ASSUME NEW l \in Lines, Reset(l) PROVE Flight'
    BY <1>18 DEF Reset
<1>19. ASSUME NEW l \in Lines, Age(l) PROVE Flight'
    BY <1>19 DEF Age
<1>20. ASSUME NEW s \in Sessions, Stale(s) PROVE Flight'
    BY <1>20 DEF Stale
<1>21. CASE UNCHANGED vars
    BY <1>21 DEF vars
<1>22. QED
    BY <1>1, <1>2, <1>3, <1>4, <1>5, <1>6, <1>7, <1>8, <1>9, <1>10, <1>11,
       <1>12, <1>13, <1>14, <1>15, <1>16, <1>17, <1>18, <1>19, <1>20, <1>21 DEF Next

\* The records that wait, in the file or in a hook's hands, are of lines whose
\* own hook is past them.
Waits(m) ==
    \/ \E s \in Sessions : m \in pending[s]
    \/ \E h \in Hooks : m \in view[h] \union todo[h] \union wait[h]

Parked ==
    \A m \in Lines : Waits(m) =>
        /\ m \in posted
        /\ \A h \in Hooks : pc[h] \in {"record", "claim", "keep", "pend"} => job[h].line # m

LEMMA ParkedNext == Turns /\ Parked /\ [Next]_vars => Parked'
<1> SUFFICES ASSUME Turns, Parked, [Next]_vars PROVE Parked'
    OBVIOUS
<1> USE Constants
    DEF Turns, IInv, Placed, Shaped, Own, OneHook, Phases, Parked, Waits, NoJob, git, lines, files, hook, counts, history
<1>1. ASSUME NEW h \in Hooks, NEW l \in Lines, Ask(h, l) PROVE Parked'
    BY <1>1 DEF Ask, Start
<1>2. ASSUME NEW h \in Hooks, NEW l \in Lines, Tell(h, l) PROVE Parked'
    BY <1>2 DEF Tell, Start
<1>3. ASSUME NEW h \in Hooks, NEW s \in Sessions, Event(h, s) PROVE Parked'
    BY <1>3 DEF Event, Start
<1>4. ASSUME NEW h \in Hooks, ReadHead(h) PROVE Parked'
    BY <1>4 DEF ReadHead, Goto
<1>5. ASSUME NEW h \in Hooks, ReadLog(h) PROVE Parked'
    BY <1>5 DEF ReadLog, Goto
<1>6. ASSUME NEW h \in Hooks, Scan(h) PROVE Parked'
    BY <1>6 DEF Scan, Goto
<1>7. ASSUME NEW h \in Hooks, ClaimOwn(h) PROVE Parked'
    BY <1>7 DEF ClaimOwn, Claim, Goto
<1>8. ASSUME NEW h \in Hooks, Forget(h) PROVE Parked'
    BY <1>8 DEF Forget, Goto, Fresh
<1>9. ASSUME NEW h \in Hooks, Unpend(h) PROVE Parked'
    BY <1>9 DEF Unpend, Put, Goto
<1>10. ASSUME NEW h \in Hooks, Keep(h) PROVE Parked'
    BY <1>10 DEF Keep, Goto, Fresh
<1>11. ASSUME NEW h \in Hooks, Pend(h) PROVE Parked'
    BY <1>11 DEF Pend, Put, Goto
<1>12. ASSUME NEW h \in Hooks, ReadPending(h) PROVE Parked'
  <2>1. Fresh(job[h].session) = {} \/ Fresh(job[h].session) = pending[job[h].session]
    BY DEF Fresh
  <2>2. CASE Fresh(job[h].session) = {}
    <3>1. Leave(h) /\ UNCHANGED <<pending, idle, kills, fate>>
      BY <1>12, <2>2 DEF ReadPending
    <3>2. QED
      BY <3>1 DEF Leave, Ended
  <2>3. CASE Fresh(job[h].session) # {}
    <3>1. \A m \in Lines : Waits(m)' => Waits(m)
      <4>1. /\ UNCHANGED <<pending, wait>>
            /\ view' = [view EXCEPT ![h] = Fresh(job[h].session)]
            /\ todo' = [todo EXCEPT ![h] = Fresh(job[h].session)]
            /\ job[h].session \in Sessions
        BY <1>12, <2>3 DEF ReadPending
      <4>2. \A k \in Hooks :
              view'[k] \union todo'[k] \subseteq view[k] \union todo[k] \union Fresh(job[h].session)
        BY <4>1
      <4>3. QED
        BY <2>1, <4>1, <4>2
    <3>2. /\ UNCHANGED <<posted, job>>
          /\ \A k \in Hooks : pc'[k] # pc[k] => pc'[k] = "late"
      BY <1>12, <2>3 DEF ReadPending, Goto
    <3> HIDE DEF Waits
    <3>3. QED
      BY <3>1, <3>2
  <2>4. QED
    BY <2>2, <2>3
<1>13. ASSUME NEW h \in Hooks, Late(h) PROVE Parked'
    BY <1>13 DEF Late, Goto
<1>14. ASSUME NEW h \in Hooks, ClaimLate(h) PROVE Parked'
  <2>1. mine[h].line \in view[h]
    BY <1>14, LateLine
  <2>2. UNCHANGED <<posted, pending, job, view, todo>>
    BY <1>14 DEF ClaimLate, lines
  <2>3. \A k \in Hooks : wait'[k] \subseteq wait[k] \union view[k]
    <3>1. \/ wait' = wait
          \/ wait' = [wait EXCEPT ![h] = wait[h] \union ({mine[h].line} \ old)]
      BY <1>14, ClaimedLate
    <3>2. DOMAIN wait = Hooks
      OBVIOUS
    <3> HIDE DEF IInv, Shaped, Own, Placed, Turns, Parked
    <3>3. QED
      BY <2>1, <3>1, <3>2
  <2>4. \A k \in Hooks : pc'[k] \in {"record", "claim", "keep", "pend"} => pc'[k] = pc[k]
    BY <1>14, ClaimedLate
  <2>5. QED
    BY <2>2, <2>3, <2>4
<1>15. ASSUME NEW h \in Hooks, Store(h) PROVE Parked'
    BY <1>15 DEF Store, Put, Leave, Ended
<1>16. ASSUME NEW h \in Hooks, Kill(h) PROVE Parked'
    BY <1>16 DEF Kill, Leave, Ended
<1>17. ASSUME NEW l \in Lines, Commit(l) PROVE Parked'
    BY <1>17 DEF Commit
<1>18. ASSUME NEW l \in Lines, Reset(l) PROVE Parked'
    BY <1>18 DEF Reset
<1>19. ASSUME NEW l \in Lines, Age(l) PROVE Parked'
    BY <1>19 DEF Age
<1>20. ASSUME NEW s \in Sessions, Stale(s) PROVE Parked'
    BY <1>20 DEF Stale
<1>21. CASE UNCHANGED vars
    BY <1>21 DEF vars
<1>22. QED
    BY <1>1, <1>2, <1>3, <1>4, <1>5, <1>6, <1>7, <1>8, <1>9, <1>10, <1>11,
       <1>12, <1>13, <1>14, <1>15, <1>16, <1>17, <1>18, <1>19, <1>20, <1>21 DEF Next

\* A record of a line that has not been told, or is read now, is younger than
\* those of the lines of its session that have.
Ordered ==
    \A l \in filed :
        (l \notin posted \/ \E h \in Hooks : pc[h] = "record" /\ job[h].line = l) =>
            \A m \in posted : Session[m] = Session[l] => before[m].from <= before[l].from

LEMMA FiledAdds ==
    ASSUME [Next]_vars, NEW l \in Lines, l \in filed', l \notin filed
    PROVE  \E h \in Hooks : ReadLog(h) /\ job[h].line = l
<1> USE DEF git, lines, files, hook, counts, history
<1> DEFINE Goal == \E h \in Hooks : ReadLog(h) /\ job[h].line = l

<1>1. ASSUME NEW h \in Hooks, NEW m \in Lines, Ask(h, m) PROVE Goal
    BY <1>1 DEF Ask, Start
<1>2. ASSUME NEW h \in Hooks, NEW m \in Lines, Tell(h, m) PROVE Goal
    BY <1>2 DEF Tell, Start
<1>3. ASSUME NEW h \in Hooks, NEW s \in Sessions, Event(h, s) PROVE Goal
    BY <1>3 DEF Event, Start
<1>4. ASSUME NEW h \in Hooks, ReadHead(h) PROVE Goal
    BY <1>4 DEF ReadHead, Goto
<1>5. ASSUME NEW h \in Hooks, ReadLog(h) PROVE Goal
    BY <1>5 DEF ReadLog, Goto
<1>6. ASSUME NEW h \in Hooks, Scan(h) PROVE Goal
    BY <1>6 DEF Scan, Goto
<1>7. ASSUME NEW h \in Hooks, ClaimOwn(h) PROVE Goal
    BY <1>7 DEF ClaimOwn, Claim, Goto
<1>8. ASSUME NEW h \in Hooks, Forget(h) PROVE Goal
    BY <1>8 DEF Forget, Goto
<1>9. ASSUME NEW h \in Hooks, Unpend(h) PROVE Goal
    BY <1>9 DEF Unpend, Put, Goto
<1>10. ASSUME NEW h \in Hooks, Keep(h) PROVE Goal
    BY <1>10 DEF Keep, Goto
<1>11. ASSUME NEW h \in Hooks, Pend(h) PROVE Goal
    BY <1>11 DEF Pend, Put, Goto
<1>12. ASSUME NEW h \in Hooks, ReadPending(h) PROVE Goal
  <2>1. CASE Fresh(job[h].session) = {}
    BY <1>12, <2>1 DEF ReadPending, Leave, Ended
  <2>2. CASE Fresh(job[h].session) # {}
    BY <1>12, <2>2 DEF ReadPending, Goto
  <2>3. QED
    BY <2>1, <2>2
<1>13. ASSUME NEW h \in Hooks, Late(h) PROVE Goal
    BY <1>13 DEF Late, Goto
<1>14. ASSUME NEW h \in Hooks, ClaimLate(h) PROVE Goal
    BY <1>14 DEF ClaimLate, Claim, Goto
<1>15. ASSUME NEW h \in Hooks, Store(h) PROVE Goal
    BY <1>15 DEF Store, Put, Leave, Ended
<1>16. ASSUME NEW h \in Hooks, Kill(h) PROVE Goal
    BY <1>16 DEF Kill, Leave, Ended
<1>17. ASSUME NEW m \in Lines, Commit(m) PROVE Goal
    BY <1>17 DEF Commit
<1>18. ASSUME NEW m \in Lines, Reset(m) PROVE Goal
    BY <1>18 DEF Reset
<1>19. ASSUME NEW m \in Lines, Age(m) PROVE Goal
    BY <1>19 DEF Age
<1>20. ASSUME NEW s \in Sessions, Stale(s) PROVE Goal
    BY <1>20 DEF Stale
<1>21. CASE UNCHANGED vars
    BY <1>21 DEF vars
<1>22. QED
    BY <1>1, <1>2, <1>3, <1>4, <1>5, <1>6, <1>7, <1>8, <1>9, <1>10, <1>11,
       <1>12, <1>13, <1>14, <1>15, <1>16, <1>17, <1>18, <1>19, <1>20, <1>21 DEF Next

\* The steps of a hook.
Acts(h) ==
    \/ ReadHead(h) \/ ReadLog(h) \/ Scan(h) \/ ClaimOwn(h) \/ Forget(h) \/ Unpend(h) \/ Keep(h)
    \/ Pend(h) \/ ReadPending(h) \/ Late(h) \/ ClaimLate(h) \/ Store(h) \/ Kill(h)

\* The steps of others leave a hook alone.
Same(k) ==
    /\ pc'[k] = pc[k] /\ job'[k] = job[k] /\ mine'[k] = mine[k] /\ view'[k] = view[k]
    /\ todo'[k] = todo[k] /\ wait'[k] = wait[k] /\ due'[k] = due[k]

LEMMA Aside ==
    ASSUME IInv, Tallied, [Next]_vars, NEW k \in Hooks, pc[k] # "idle", ~Acts(k)
    PROVE  Same(k)
<1> USE DEF IInv, Placed, Shaped, Tallied, Same, git, lines, files, hook, counts, history
<1>1. ASSUME NEW h \in Hooks, NEW l \in Lines, Ask(h, l) PROVE Same(k)
    BY <1>1 DEF Ask, Start
<1>2. ASSUME NEW h \in Hooks, NEW l \in Lines, Tell(h, l) PROVE Same(k)
    BY <1>2 DEF Tell, Start
<1>3. ASSUME NEW h \in Hooks, NEW s \in Sessions, Event(h, s) PROVE Same(k)
    BY <1>3 DEF Event, Start
<1>4. ASSUME NEW h \in Hooks, ReadHead(h) PROVE Same(k)
    BY <1>4 DEF ReadHead, Goto, Acts
<1>5. ASSUME NEW h \in Hooks, ReadLog(h) PROVE Same(k)
    BY <1>5 DEF ReadLog, Goto, Acts
<1>6. ASSUME NEW h \in Hooks, Scan(h) PROVE Same(k)
    BY <1>6 DEF Scan, Goto, Acts
<1>7. ASSUME NEW h \in Hooks, ClaimOwn(h) PROVE Same(k)
    BY <1>7 DEF ClaimOwn, Claim, Goto, Acts
<1>8. ASSUME NEW h \in Hooks, Forget(h) PROVE Same(k)
    BY <1>8 DEF Forget, Goto, Acts
<1>9. ASSUME NEW h \in Hooks, Unpend(h) PROVE Same(k)
    BY <1>9 DEF Unpend, Put, Goto, Acts
<1>10. ASSUME NEW h \in Hooks, Keep(h) PROVE Same(k)
    BY <1>10 DEF Keep, Goto, Acts
<1>11. ASSUME NEW h \in Hooks, Pend(h) PROVE Same(k)
    BY <1>11 DEF Pend, Put, Goto, Acts
<1>12. ASSUME NEW h \in Hooks, ReadPending(h) PROVE Same(k)
  <2>1. k # h
    BY <1>12 DEF Acts
  <2>2. CASE Fresh(job[h].session) = {}
    <3>1. Leave(h)
      BY <1>12, <2>2 DEF ReadPending
    <3>2. QED
      BY <2>1, <3>1 DEF Leave, Ended
  <2>3. CASE Fresh(job[h].session) # {}
    BY <1>12, <2>1, <2>3 DEF ReadPending, Goto
  <2>4. QED
    BY <2>2, <2>3
<1>13. ASSUME NEW h \in Hooks, Late(h) PROVE Same(k)
    BY <1>13 DEF Late, Goto, Acts
<1>14. ASSUME NEW h \in Hooks, ClaimLate(h) PROVE Same(k)
    BY <1>14 DEF ClaimLate, Claim, Goto, Acts
<1>15. ASSUME NEW h \in Hooks, Store(h) PROVE Same(k)
    BY <1>15 DEF Store, Put, Leave, Ended, Acts
<1>16. ASSUME NEW h \in Hooks, Kill(h) PROVE Same(k)
    BY <1>16 DEF Kill, Leave, Ended, Acts
<1>17. ASSUME NEW l \in Lines, Commit(l) PROVE Same(k)
    BY <1>17 DEF Commit
<1>18. ASSUME NEW l \in Lines, Reset(l) PROVE Same(k)
    BY <1>18 DEF Reset
<1>19. ASSUME NEW l \in Lines, Age(l) PROVE Same(k)
    BY <1>19 DEF Age
<1>20. ASSUME NEW s \in Sessions, Stale(s) PROVE Same(k)
    BY <1>20 DEF Stale
<1>21. CASE UNCHANGED vars
    BY <1>21 DEF vars
<1>22. QED
    BY <1>1, <1>2, <1>3, <1>4, <1>5, <1>6, <1>7, <1>8, <1>9, <1>10, <1>11,
       <1>12, <1>13, <1>14, <1>15, <1>16, <1>17, <1>18, <1>19, <1>20, <1>21 DEF Next

\* What a session's file offers is less, but when a hook of it writes it.
LEMMA FreshStep ==
    ASSUME IInv, [Next]_vars, NEW s \in Sessions
    PROVE  \/ Fresh(s)' \subseteq Fresh(s)
           \/ \E h \in Hooks : job[h].session = s /\ (Pend(h) \/ Store(h))
<1> USE Constants DEF IInv, Placed, Shaped, Own, Fresh, git, lines, files, hook, counts, history
<1> DEFINE Goal == \/ Fresh(s)' \subseteq Fresh(s)
                   \/ \E h \in Hooks : job[h].session = s /\ (Pend(h) \/ Store(h))

<1>1. ASSUME NEW h \in Hooks, NEW l \in Lines, Ask(h, l) PROVE Goal
    BY <1>1 DEF Ask, Start
<1>2. ASSUME NEW h \in Hooks, NEW l \in Lines, Tell(h, l) PROVE Goal
    BY <1>2 DEF Tell, Start
<1>3. ASSUME NEW h \in Hooks, NEW t \in Sessions, Event(h, t) PROVE Goal
    BY <1>3 DEF Event, Start
<1>4. ASSUME NEW h \in Hooks, ReadHead(h) PROVE Goal
    BY <1>4 DEF ReadHead, Goto
<1>5. ASSUME NEW h \in Hooks, ReadLog(h) PROVE Goal
    BY <1>5 DEF ReadLog, Goto
<1>6. ASSUME NEW h \in Hooks, Scan(h) PROVE Goal
    BY <1>6 DEF Scan, Goto
<1>7. ASSUME NEW h \in Hooks, ClaimOwn(h) PROVE Goal
    BY <1>7 DEF ClaimOwn, Claim, Goto
<1>8. ASSUME NEW h \in Hooks, Forget(h) PROVE Goal
    BY <1>8 DEF Forget, Goto
<1>9. ASSUME NEW h \in Hooks, Unpend(h) PROVE Goal
    BY <1>9 DEF Unpend, Put, Goto
<1>10. ASSUME NEW h \in Hooks, Keep(h) PROVE Goal
    BY <1>10 DEF Keep, Goto
<1>11. ASSUME NEW h \in Hooks, Pend(h) PROVE Goal
    BY <1>11, ZenonT(40) DEF Pend, Put, Goto
<1>12. ASSUME NEW h \in Hooks, ReadPending(h) PROVE Goal
  <2>1. UNCHANGED <<pending, idle>>
    BY <1>12 DEF ReadPending
  <2>2. QED
    BY <2>1
<1>13. ASSUME NEW h \in Hooks, Late(h) PROVE Goal
    BY <1>13 DEF Late, Goto
<1>14. ASSUME NEW h \in Hooks, ClaimLate(h) PROVE Goal
    BY <1>14 DEF ClaimLate, Claim, Goto
<1>15. ASSUME NEW h \in Hooks, Store(h) PROVE Goal
  <2>1. CASE job[h].session = s
    BY <1>15, <2>1
  <2>2. CASE job[h].session # s
    BY <1>15, <2>2 DEF Store, Put
  <2>3. QED
    BY <2>1, <2>2
<1>16. ASSUME NEW h \in Hooks, Kill(h) PROVE Goal
    BY <1>16 DEF Kill, Leave, Ended
<1>17. ASSUME NEW l \in Lines, Commit(l) PROVE Goal
    BY <1>17 DEF Commit
<1>18. ASSUME NEW l \in Lines, Reset(l) PROVE Goal
    BY <1>18 DEF Reset
<1>19. ASSUME NEW l \in Lines, Age(l) PROVE Goal
    BY <1>19 DEF Age
<1>20. ASSUME NEW t \in Sessions, Stale(t) PROVE Goal
    BY <1>20 DEF Stale
<1>21. CASE UNCHANGED vars
    BY <1>21 DEF vars
<1>22. QED
    BY <1>1, <1>2, <1>3, <1>4, <1>5, <1>6, <1>7, <1>8, <1>9, <1>10, <1>11,
       <1>12, <1>13, <1>14, <1>15, <1>16, <1>17, <1>18, <1>19, <1>20, <1>21 DEF Next

\* While a hook of the session runs, the file is its own.
LEMMA FreshAside ==
    ASSUME IInv, Alone, [Next]_vars, NEW s \in Sessions,
           NEW k \in Hooks, job[k].session = s, ~(Unpend(k) \/ Pend(k) \/ Store(k))
    PROVE  Fresh(s)' = Fresh(s)
<1>1. s # None
    BY Constants
<1> SUFFICES pending'[s] = pending[s] /\ (s \in idle' <=> s \in idle)
    BY <1>1 DEF Fresh
<1>2. \A h \in Hooks : job[h].session = s => h = k
    BY <1>1 DEF Alone
<1> USE DEF IInv, Placed, Shaped, git, lines, files, hook, counts, history
<1> DEFINE Goal == pending'[s] = pending[s] /\ (s \in idle' <=> s \in idle)

<1>3. ASSUME NEW h \in Hooks, NEW l \in Lines, Ask(h, l) PROVE Goal
    BY <1>3 DEF Ask, Start
<1>4. ASSUME NEW h \in Hooks, NEW l \in Lines, Tell(h, l) PROVE Goal
    BY <1>4 DEF Tell, Start
<1>5. ASSUME NEW h \in Hooks, NEW t \in Sessions, Event(h, t) PROVE Goal
    BY <1>5 DEF Event, Start
<1>6. ASSUME NEW h \in Hooks, ReadHead(h) PROVE Goal
    BY <1>6 DEF ReadHead, Goto
<1>7. ASSUME NEW h \in Hooks, ReadLog(h) PROVE Goal
    BY <1>7 DEF ReadLog, Goto
<1>8. ASSUME NEW h \in Hooks, Scan(h) PROVE Goal
    BY <1>8 DEF Scan, Goto
<1>9. ASSUME NEW h \in Hooks, ClaimOwn(h) PROVE Goal
    BY <1>9 DEF ClaimOwn, Claim, Goto
<1>10. ASSUME NEW h \in Hooks, Forget(h) PROVE Goal
    BY <1>10 DEF Forget, Goto
<1>11. ASSUME NEW h \in Hooks, Unpend(h) PROVE Goal
    BY <1>1, <1>2, <1>11 DEF Unpend, Put, Goto
<1>12. ASSUME NEW h \in Hooks, Keep(h) PROVE Goal
    BY <1>12 DEF Keep, Goto
<1>13. ASSUME NEW h \in Hooks, Pend(h) PROVE Goal
    BY <1>1, <1>2, <1>13 DEF Pend, Put, Goto
<1>14. ASSUME NEW h \in Hooks, ReadPending(h) PROVE Goal
  <2>1. UNCHANGED <<pending, idle>>
    BY <1>14 DEF ReadPending
  <2>2. QED
    BY <2>1
<1>15. ASSUME NEW h \in Hooks, Late(h) PROVE Goal
    BY <1>15 DEF Late, Goto
<1>16. ASSUME NEW h \in Hooks, ClaimLate(h) PROVE Goal
    BY <1>16 DEF ClaimLate, Claim, Goto
<1>17. ASSUME NEW h \in Hooks, Store(h) PROVE Goal
    BY <1>1, <1>2, <1>17 DEF Store, Put, Leave, Ended
<1>18. ASSUME NEW h \in Hooks, Kill(h) PROVE Goal
    BY <1>18 DEF Kill, Leave, Ended
<1>19. ASSUME NEW l \in Lines, Commit(l) PROVE Goal
    BY <1>19 DEF Commit
<1>20. ASSUME NEW l \in Lines, Reset(l) PROVE Goal
    BY <1>20 DEF Reset
<1>21. ASSUME NEW l \in Lines, Age(l) PROVE Goal
    BY <1>21 DEF Age
<1>22. ASSUME NEW t \in Sessions, Stale(t) PROVE Goal
    BY <1>1, <1>2, <1>22 DEF Stale, Quiet
<1>23. CASE UNCHANGED vars
    BY <1>23 DEF vars
<1>24. QED
    BY <1>3, <1>4, <1>5, <1>6, <1>7, <1>8, <1>9, <1>10, <1>11, <1>12, <1>13,
       <1>14, <1>15, <1>16, <1>17, <1>18, <1>19, <1>20, <1>21, <1>22, <1>23 DEF Next

LEMMA OrderedNext ==
    Parallel = FALSE /\ Turns /\ Known /\ Ordered /\ [Next]_vars => Ordered'
<1> SUFFICES ASSUME Parallel = FALSE, Turns, Known, Ordered, [Next]_vars,
                    NEW l \in filed', l \notin posted' \/ \E h \in Hooks : pc'[h] = "record" /\ job'[h].line = l,
                    NEW m \in posted', Session[m] = Session[l]
             PROVE  before'[m].from <= before'[l].from
    BY DEF Ordered
<1>1. IInv /\ IInv' /\ l \in Lines /\ m \in Lines
    BY TypedNext DEF Turns, IInv, Placed
<1>2. before'[m].from \in Nat /\ before'[m].from <= Len(log') /\ before'[l].from \in Nat
    BY <1>1 DEF IInv, Noted
<1>3. CASE l \notin filed
  <2>1. PICK h \in Hooks : ReadLog(h) /\ job[h].line = l
    BY <1>1, <1>3, FiledAdds
  <2>2. before'[l].from = Len(log) /\ log' = log
    BY <1>1, <2>1 DEF ReadLog, git, IInv, Noted
  <2>3. QED
    BY <1>2, <2>2
<1>4. CASE l \in filed
  <2>1. Ready(l)
    BY <1>1, <1>4 DEF Known, Recs
  <2>2. before'[l] = before[l]
    BY <1>1, <2>1, BeforeStep DEF Ready
  <2>3. l \in posted => \E h \in Hooks : pc[h] = "record" /\ job[h].line = l
    <3>1. ASSUME l \in posted
          PROVE  \E h \in Hooks : pc[h] = "record" /\ job[h].line = l
      <4>1. l \in posted'
        BY <1>1, <3>1, LineStep
      <4>2. PICK h \in Hooks : pc'[h] = "record" /\ job'[h].line = l
        BY <4>1
      <4>3. ~Tell(h, l)
        BY <3>1 DEF Tell
      <4>4. QED
        BY <4>2, <4>3, HookStep
    <3>2. QED
      BY <3>1
  <2>4. CASE m \in posted
    <3>1. stage[m] \in {"runs", "over"}
      BY <1>1, <2>4 DEF Turns, Phases
    <3>2. before'[m] = before[m]
      BY <1>1, <3>1, BegunStays
    <3>3. QED
      BY <1>4, <2>2, <2>3, <2>4, <3>2 DEF Ordered
  <2>5. CASE m \notin posted
    <3>1. PICK h \in Hooks : Tell(h, m)
      BY <1>1, <2>5, LineStep
    <3>2. /\ \A k \in Hooks : job[k].session # Session[m]
          /\ l # m => ~InFlight(l)
      BY <1>1, <3>1 DEF Tell, Start, Quiet
    <3>3. CASE l = m
      BY <1>2, <3>3
    <3>4. CASE l # m
      <4>1. l \in posted
        BY <2>1, <3>2, <3>4 DEF InFlight, Ready
      <4>2. PICK k \in Hooks : pc[k] = "record" /\ job[k].line = l
        BY <2>3, <4>1
      <4>3. job[k].session = Session[l]
        BY <1>1, <4>2, Constants DEF IInv, Own
      <4>4. QED
        BY <3>2, <4>3
    <3>5. QED
      BY <3>3, <3>4
  <2>6. QED
    BY <2>4, <2>5
<1>5. QED
    BY <1>3, <1>4

\* What waits was kept and nothing else, until its hook has taken it.
Untouched ==
    /\ \A s \in Sessions : \A m \in pending[s] :
         \/ fate[m] = "kept"
         \/ \E h \in Hooks : job[h].session = s /\ pc[h] \in {"late", "lateclaim"}
    /\ \A h \in Hooks :
         /\ pc[h] \in {"unpend", "pend"} => \A m \in view[h] : fate[m] = "kept"
         /\ pc[h] \notin {"late", "lateclaim"} => todo[h] = {} /\ wait[h] = {}
         /\ todo[h] \intersect wait[h] = {}
         /\ \A m \in todo[h] \union wait[h] : fate[m] = "kept"
         /\ pc[h] = "lateclaim" =>
              /\ mine[h].line \in Of(job[h].session) \ (todo[h] \union wait[h])
              /\ fate[mine[h].line] = "kept"

\* Only a hook of the session changes what became of its lines.
LEMMA FateAside ==
    ASSUME KInv, Turns, Parked, Untouched, [Next]_vars, kills = 0, kills' = 0, NEW m \in Lines
    PROVE  \/ fate'[m] = fate[m]
           \/ \E h \in Hooks :
                /\ job[h].session = Session[m]
                /\ \/ (ClaimOwn(h) \/ Pend(h)) /\ job[h].line = m
                   \/ Unpend(h) /\ m \in view[h]
                   \/ ClaimLate(h) /\ mine[h].line = m
                   \/ Store(h) /\ m \in view[h] \ wait[h]
<1> USE Constants DEF KInv, IInv, Placed, Shaped, Own, Of, Untouched, git, lines, files, hook, counts, history
<1> DEFINE Goal ==
           \/ fate'[m] = fate[m]
           \/ \E h \in Hooks :
                /\ job[h].session = Session[m]
                /\ \/ (ClaimOwn(h) \/ Pend(h)) /\ job[h].line = m
                   \/ Unpend(h) /\ m \in view[h]
                   \/ ClaimLate(h) /\ mine[h].line = m
                   \/ Store(h) /\ m \in view[h] \ wait[h]
<1>1. ASSUME NEW h \in Hooks, NEW k \in Lines, Ask(h, k) PROVE Goal
    BY <1>1 DEF Ask, Start
<1>2. ASSUME NEW h \in Hooks, NEW k \in Lines, Tell(h, k) PROVE Goal
    BY <1>2 DEF Tell, Start
<1>3. ASSUME NEW h \in Hooks, NEW s \in Sessions, Event(h, s) PROVE Goal
    BY <1>3 DEF Event, Start
<1>4. ASSUME NEW h \in Hooks, ReadHead(h) PROVE Goal
    BY <1>4 DEF ReadHead, Goto
<1>5. ASSUME NEW h \in Hooks, ReadLog(h) PROVE Goal
    BY <1>5 DEF ReadLog, Goto
<1>6. ASSUME NEW h \in Hooks, Scan(h) PROVE Goal
    BY <1>6 DEF Scan, Goto
<1>7. ASSUME NEW h \in Hooks, ClaimOwn(h) PROVE Goal
  <2>1. CASE job[h].line = m
    <3>1. job[h].session = Session[m]
      BY <2>1, SMTT(20)
    <3>2. QED
      BY <1>7, <2>1, <3>1
  <2>2. CASE ~(job[h].line = m)
    BY <1>7, <2>2 DEF ClaimOwn
  <2>3. QED
    BY <2>1, <2>2
<1>8. ASSUME NEW h \in Hooks, Forget(h) PROVE Goal
    BY <1>8 DEF Forget, Goto
<1>9. ASSUME NEW h \in Hooks, Unpend(h) PROVE Goal
  <2>1. CASE m \in view[h]
    BY <1>9, <2>1
  <2>2. CASE ~(m \in view[h])
    BY <1>9, <2>2 DEF Unpend
  <2>3. QED
    BY <2>1, <2>2
<1>10. ASSUME NEW h \in Hooks, Keep(h) PROVE Goal
    BY <1>10 DEF Keep, Goto
<1>11. ASSUME NEW h \in Hooks, Pend(h) PROVE Goal
  <2>1. CASE job[h].line = m
    <3>1. job[h].session = Session[m]
      BY <2>1, SMTT(20)
    <3>2. QED
      BY <1>11, <2>1, <3>1
  <2>2. CASE ~(job[h].line = m)
    BY <1>11, <2>2 DEF Pend
  <2>3. QED
    BY <2>1, <2>2
<1>12. ASSUME NEW h \in Hooks, ReadPending(h) PROVE Goal
    BY <1>12 DEF ReadPending
<1>13. ASSUME NEW h \in Hooks, Late(h) PROVE Goal
    BY <1>13 DEF Late, Goto
<1>14. ASSUME NEW h \in Hooks, ClaimLate(h) PROVE Goal
  <2>1. CASE mine[h].line = m
    <3>1. pc[h] = "lateclaim"
      BY <1>14 DEF ClaimLate
    <3>2. QED
      BY <1>14, <2>1, <3>1
  <2>2. CASE ~(mine[h].line = m)
    BY <1>14, <2>2 DEF ClaimLate
  <2>3. QED
    BY <2>1, <2>2
<1>15. ASSUME NEW h \in Hooks, Store(h) PROVE Goal
  <2>1. CASE m \in view[h] \ wait[h]
    BY <1>15, <2>1
  <2>2. CASE ~(m \in view[h] \ wait[h])
    BY <1>15, <2>2 DEF Store
  <2>3. QED
    BY <2>1, <2>2
<1>16. ASSUME NEW h \in Hooks, Kill(h) PROVE Goal
    BY <1>16 DEF Kill, Leave, Ended
<1>17. ASSUME NEW k \in Lines, Commit(k) PROVE Goal
    BY <1>17 DEF Commit
<1>18. ASSUME NEW k \in Lines, Reset(k) PROVE Goal
    BY <1>18 DEF Reset
<1>19. ASSUME NEW k \in Lines, Age(k) PROVE Goal
    BY <1>19 DEF Age
<1>20. ASSUME NEW s \in Sessions, Stale(s) PROVE Goal
    BY <1>20 DEF Stale
<1>21. CASE UNCHANGED vars
    BY <1>21 DEF vars
<1>22. QED
    BY <1>1, <1>2, <1>3, <1>4, <1>5, <1>6, <1>7, <1>8, <1>9, <1>10, <1>11,
       <1>12, <1>13, <1>14, <1>15, <1>16, <1>17, <1>18, <1>19, <1>20, <1>21 DEF Next

LEMMA UntouchedNext ==
    ASSUME KInv, Turns, Parked, Untouched, [Next]_vars, kills = 0, kills' = 0
    PROVE  Untouched'
<1> USE Constants DEF KInv, IInv, Placed, Shaped, Own, Alone, Of, Waits, Parked, Untouched, NoJob, git, lines, files, hook, counts, history
<1>1. ASSUME NEW h \in Hooks, NEW l \in Lines, Ask(h, l) PROVE Untouched'
    BY <1>1 DEF Ask, Start
<1>2. ASSUME NEW h \in Hooks, NEW l \in Lines, Tell(h, l) PROVE Untouched'
    BY <1>2 DEF Tell, Start
<1>3. ASSUME NEW h \in Hooks, NEW s \in Sessions, Event(h, s) PROVE Untouched'
    BY <1>3 DEF Event, Start
<1>4. ASSUME NEW h \in Hooks, ReadHead(h) PROVE Untouched'
    BY <1>4 DEF ReadHead, Goto
<1>5. ASSUME NEW h \in Hooks, ReadLog(h) PROVE Untouched'
    BY <1>5, SMTT(20) DEF ReadLog, Goto
<1>6. ASSUME NEW h \in Hooks, Scan(h) PROVE Untouched'
    BY <1>6 DEF Scan, Goto
<1>7. ASSUME NEW h \in Hooks, ClaimOwn(h) PROVE Untouched'
  <2>1. /\ pc[h] = "claim" /\ \A k \in Hooks \ {h} : pc'[k] = pc[k] /\ mine'[k] = mine[k]
        /\ pc'[h] \in {"forget", "pending"} /\ UNCHANGED <<job, pending, view, todo, wait>>
        /\ \A m \in Lines : m # job[h].line => fate'[m] = fate[m]
    BY <1>7, ClaimedOwn
  <2>2. \A m \in Lines : Waits(m) => fate'[m] = fate[m]
    BY <2>1
  <2>3. \A k \in Hooks : pc[k] = "lateclaim" => mine[k].line \in Lines /\ Waits(mine[k].line)
    BY DEF Looking
  <2>4. \A s \in Sessions : \A m \in pending[s] : m \in Lines /\ Waits(m)
    OBVIOUS
  <2>5. \A k \in Hooks : \A m \in view[k] \union todo[k] \union wait[k] : m \in Lines /\ Waits(m)
    OBVIOUS
  <2>6. \A s \in Sessions : \A m \in pending'[s] :
            \/ fate'[m] = "kept"
            \/ \E k \in Hooks : job'[k].session = s /\ pc'[k] \in {"late", "lateclaim"}
    <3>1. TAKE s \in Sessions
    <3>2. TAKE m \in pending'[s]
    <3>3. fate'[m] = fate[m]
      BY <2>1, <2>2, <2>4
    <3>4. ASSUME NEW k \in Hooks, pc[k] \in {"late", "lateclaim"} PROVE pc'[k] = pc[k]
      BY <2>1, <3>4
    <3>5. fate[m] = "kept" \/ \E k \in Hooks : job[k].session = s /\ pc[k] \in {"late", "lateclaim"}
      BY <2>1
    <3> HIDE DEF Untouched
    <3>6. QED
      BY <2>1, <3>3, <3>4, <3>5
  <2>7. todo[h] = {} /\ wait[h] = {}
    BY <2>1
  <2>8. Untouched
    OBVIOUS
  <2> HIDE DEF Waits, Of, Parked, KInv, IInv, Turns
  <2>9. QED
    BY <2>1, <2>2, <2>3, <2>5, <2>6, <2>7, <2>8
<1>8. ASSUME NEW h \in Hooks, Forget(h) PROVE Untouched'
  <2>1. pc[h] = "forget" /\ job[h].session \in Sessions
    BY <1>8 DEF Forget
  <2>2. Fresh(job[h].session) \subseteq pending[job[h].session]
    BY <2>1 DEF Fresh
  <2>3. \A m \in Fresh(job[h].session) : fate[m] = "kept"
    BY <2>1, <2>2
  <2>4. QED
    BY <1>8, <2>1, <2>3, SMTT(20) DEF Forget, Goto
<1>9. ASSUME NEW h \in Hooks, Unpend(h) PROVE Untouched'
    BY <1>9 DEF Unpend, Put, Goto
<1>10. ASSUME NEW h \in Hooks, Keep(h) PROVE Untouched'
    BY <1>10, SMTT(20) DEF Keep, Goto, Fresh
<1>11. ASSUME NEW h \in Hooks, Pend(h) PROVE Untouched'
    BY <1>11 DEF Pend, Put, Goto
<1>12. ASSUME NEW h \in Hooks, ReadPending(h) PROVE Untouched'
  <2>1. pc[h] = "pending" /\ job[h].session \in Sessions
    BY <1>12 DEF ReadPending
  <2>2. Fresh(job[h].session) \subseteq pending[job[h].session]
    BY <2>1 DEF Fresh
  <2>3. \A m \in Fresh(job[h].session) : fate[m] = "kept"
    BY <2>1, <2>2
  <2>4. CASE Leave(h) /\ UNCHANGED <<pending, idle, kills, fate>>
    BY <1>12, <2>1, <2>4, SMTT(20) DEF Leave, Ended
  <2>5. CASE ~Leave(h)
    <3>1. /\ pc' = [pc EXCEPT ![h] = "late"]
          /\ todo' = [todo EXCEPT ![h] = Fresh(job[h].session)]
          /\ UNCHANGED <<pending, job, mine, wait, fate>>
      BY <1>12, <2>5 DEF ReadPending, Goto
    <3>2. \A k \in Hooks : k # h => pc'[k] = pc[k] /\ todo'[k] = todo[k]
      BY <3>1
    <3>3. pc'[h] = "late" /\ todo'[h] = Fresh(job[h].session) /\ wait[h] = {}
      BY <2>1, <3>1
    <3>4. \A k \in Hooks : pc'[k] \in {"unpend", "pend"} => view'[k] = view[k]
      BY <1>12, <2>5, <3>3 DEF ReadPending
    <3>5. QED
      BY <2>1, <2>3, <3>1, <3>2, <3>3, <3>4
  <2>6. QED
    BY <1>12, <2>4, <2>5 DEF ReadPending
<1>13. ASSUME NEW h \in Hooks, Late(h) PROVE Untouched'
  <2>1. PICK l \in todo[h] :
            /\ todo' = [todo EXCEPT ![h] = @ \ {l}]
            /\ mine' = [mine EXCEPT ![h] = Landed(l)]
            /\ \/ mine'[h] # Nothing /\ pc' = [pc EXCEPT ![h] = "lateclaim"] /\ UNCHANGED wait
               \/ /\ mine'[h] = Nothing
                  /\ wait' = [wait EXCEPT ![h] = @ \union ({l} \ old)]
                  /\ UNCHANGED pc
    BY <1>13 DEF Late, Goto
  <2>2. UNCHANGED <<pending, job, view, fate>> /\ pc[h] = "late"
    BY <1>13 DEF Late
  <2>3. l \in Of(job[h].session) /\ fate[l] = "kept" /\ l \notin wait[h]
    OBVIOUS
  <2>4. mine'[h] # Nothing => mine'[h].line = l
    BY <2>1, LandedLine
  <2>5. /\ \A k \in Hooks \ {h} : /\ pc'[k] = pc[k] /\ todo'[k] = todo[k] /\ wait'[k] = wait[k]
                               /\ mine'[k] = mine[k]
        /\ todo'[h] = todo[h] \ {l}
    BY <2>1
  <2>6. /\ pc'[h] \in {"late", "lateclaim"} /\ wait'[h] \subseteq wait[h] \union {l}
        /\ pc'[h] = "lateclaim" => mine'[h].line = l /\ wait'[h] = wait[h]
    BY <2>1, <2>2, <2>4
  <2>7. \A s \in Sessions : \A m \in pending'[s] :
            \/ fate'[m] = "kept"
            \/ \E k \in Hooks : job'[k].session = s /\ pc'[k] \in {"late", "lateclaim"}
    BY <2>2, <2>5, <2>6, SMTT(20)
  <2>8. \A k \in Hooks : pc'[k] \in {"unpend", "pend"} => k # h
    BY <2>6
  <2>9. /\ todo'[h] \intersect wait'[h] = {}
        /\ todo'[h] \union wait'[h] \subseteq todo[h] \union wait[h]
        /\ pc'[h] = "lateclaim" => mine'[h].line \in Of(job[h].session) \ (todo'[h] \union wait'[h])
                                /\ fate[mine'[h].line] = "kept"
    BY <2>3, <2>5, <2>6
  <2>10. \A k \in Hooks \ {h} :
           /\ pc'[k] \in {"unpend", "pend"} => \A m \in view'[k] : fate'[m] = "kept"
           /\ pc'[k] \notin {"late", "lateclaim"} => todo'[k] = {} /\ wait'[k] = {}
           /\ todo'[k] \intersect wait'[k] = {}
           /\ \A m \in todo'[k] \union wait'[k] : fate'[m] = "kept"
           /\ pc'[k] = "lateclaim" =>
                /\ mine'[k].line \in Of(job'[k].session) \ (todo'[k] \union wait'[k])
                /\ fate'[mine'[k].line] = "kept"
    BY <2>2, <2>5
  <2>11. /\ \A m \in todo'[h] \union wait'[h] : fate'[m] = "kept"
         /\ pc'[h] = "lateclaim" =>
              /\ mine'[h].line \in Of(job'[h].session) \ (todo'[h] \union wait'[h])
              /\ fate'[mine'[h].line] = "kept"
    BY <2>2, <2>9
  <2>12. QED
    BY <2>6, <2>7, <2>9, <2>10, <2>11
<1>14. ASSUME NEW h \in Hooks, ClaimLate(h) PROVE Untouched'
  <2> DEFINE m == mine[h].line
  <2>1. /\ pc[h] = "lateclaim" /\ pc' = [pc EXCEPT ![h] = "late"] /\ job[h].session \in Sessions
        /\ m \in Of(job[h].session) \ (todo[h] \union wait[h]) /\ fate[m] = "kept" /\ m \in Lines
        /\ UNCHANGED <<job, pending, view, todo, mine>>
    BY <1>14 DEF ClaimLate, Goto
  <2>2. \/ UNCHANGED wait /\ fate' = [fate EXCEPT ![m] = "taken"]
        \/ wait' = [wait EXCEPT ![h] = wait[h] \union ({m} \ old)] /\ UNCHANGED fate
    BY <1>14 DEF ClaimLate, Unreadable
  <2>3. \A x \in Lines : x # m => fate'[x] = fate[x]
    BY <2>2
  <2>4. \A k \in Hooks \ {h} : m \notin Of(job[k].session)
    BY <2>1
  <2>5. \A s \in Sessions : m \in pending[s] => s = job[h].session
    BY <2>1
  <2>6. /\ pc'[h] = "late" /\ todo'[h] = todo[h]
        /\ \A k \in Hooks \ {h} : pc'[k] = pc[k] /\ wait'[k] = wait[k]
    BY <2>1, <2>2
  <2>7. /\ wait'[h] \subseteq wait[h] \union {m}
        /\ \A x \in todo'[h] \union wait'[h] : fate'[x] = "kept"
    <3>1. CASE UNCHANGED wait /\ fate' = [fate EXCEPT ![m] = "taken"]
      BY <2>1, <2>3, <3>1
    <3>2. CASE wait' = [wait EXCEPT ![h] = wait[h] \union ({m} \ old)] /\ UNCHANGED fate
      BY <2>1, <3>2
    <3>3. QED
      BY <2>2, <3>1, <3>2
  <2>8. \A k \in Hooks \ {h} : \A x \in view[k] \union todo[k] \union wait[k] : fate'[x] = fate[x]
    BY <2>3, <2>4
  <2>9. \A k \in Hooks \ {h} : pc[k] = "lateclaim" => fate'[mine[k].line] = fate[mine[k].line]
    BY <2>3, <2>4
  <2>10. \A s \in Sessions : \A x \in pending'[s] :
            \/ fate'[x] = "kept"
            \/ \E k \in Hooks : job'[k].session = s /\ pc'[k] \in {"late", "lateclaim"}
    <3>1. TAKE s \in Sessions
    <3>2. TAKE x \in pending'[s]
    <3>3. CASE x = m
      BY <2>1, <2>5, <2>6, <3>3
    <3>4. CASE x # m /\ fate[x] = "kept"
      BY <2>1, <2>3, <3>4
    <3>5. CASE \E k \in Hooks : job[k].session = s /\ pc[k] \in {"late", "lateclaim"}
      BY <2>1, <2>6, <3>5
    <3>6. QED
      BY <2>1, <3>3, <3>4, <3>5
  <2> HIDE DEF m, Of, Waits, Parked
  <2>11. QED
    BY <2>1, <2>6, <2>7, <2>8, <2>9, <2>10, SMTT(20) DEF m
<1>15. ASSUME NEW h \in Hooks, Store(h) PROVE Untouched'
    BY <1>15 DEF Store, Put, Leave, Ended
<1>16. ASSUME NEW h \in Hooks, Kill(h) PROVE Untouched'
    BY <1>16 DEF Kill, Leave, Ended
<1>17. ASSUME NEW l \in Lines, Commit(l) PROVE Untouched'
    BY <1>17 DEF Commit
<1>18. ASSUME NEW l \in Lines, Reset(l) PROVE Untouched'
    BY <1>18 DEF Reset
<1>19. ASSUME NEW l \in Lines, Age(l) PROVE Untouched'
    BY <1>19 DEF Age
<1>20. ASSUME NEW s \in Sessions, Stale(s) PROVE Untouched'
    BY <1>20 DEF Stale
<1>21. CASE UNCHANGED vars
    BY <1>21 DEF vars
<1>22. QED
    BY <1>1, <1>2, <1>3, <1>4, <1>5, <1>6, <1>7, <1>8, <1>9, <1>10, <1>11,
       <1>12, <1>13, <1>14, <1>15, <1>16, <1>17, <1>18, <1>19, <1>20, <1>21, SMTT(20) DEF Next

\* The reflog held the commit when the record of the line was made.
Before(l, c) == \E i \in 1 .. before[l].from : log[i].new = c /\ log[i].act # "reset"

\* All that a waiting line had made by then was found.
Seen(l, m) == \A c \in Work(m) : Before(l, c) => Found(c)

\* But for those a claim is about to be written for.
SeenBut(l, m, S) == \A c \in Work(m) : Before(l, c) => Found(c) \/ c \in S

LEMMA SeenButStays ==
    ASSUME CInv, Authored, [Next]_vars, NEW l \in Lines, NEW m \in Lines,
           before'[l] = before[l], stage[m] \in {"runs", "over"}, NEW S, SeenBut(l, m, S)
    PROVE  SeenBut(l, m, S)'
<1>1. Turns /\ IInv /\ IInv'
    BY TypedNext DEF CInv, Turns
<1>2. /\ Len(log) \in Nat /\ before[l].from \in Nat /\ before[l].from <= Len(log)
      /\ \A i \in 1 .. Len(log) : log'[i] = log[i]
    BY <1>1, GitGrows DEF IInv, Noted
<1>3. before'[m] = before[m]
    BY <1>1, BegunStays
<1> SUFFICES ASSUME NEW V, V = Work(m)', NEW c \in V,
                    NEW i \in 1 .. before'[l].from, log'[i].new = c, log'[i].act # "reset"
             PROVE  Found(c)' \/ c \in S
    BY DEF SeenBut, Before
<1>4. i \in 1 .. before[l].from /\ i \in 1 .. Len(log) /\ log'[i] = log[i]
    BY <1>2
<1>5. c \in 1 .. Len(parents)
    BY <1>4 DEF Authored
<1>6. c \in Work(m)
    BY <1>1, <1>3, <1>5, WorkKept
<1>7. Before(l, c)
    BY <1>4 DEF Before
<1>8. Found(c) \/ c \in S
    BY <1>6, <1>7 DEF SeenBut
<1>9. QED
    BY <1>5, <1>8, FoundStays

LEMMA SeenStays ==
    ASSUME CInv, Authored, [Next]_vars, NEW l \in Lines, NEW m \in Lines,
           before'[l] = before[l], stage[m] \in {"runs", "over"}, Seen(l, m)
    PROVE  Seen(l, m)'
<1>1. SeenBut(l, m, {})
    BY DEF Seen, SeenBut
<1>2. SeenBut(l, m, {})'
    BY <1>1, SeenButStays
<1>3. QED
    BY <1>2 DEF Seen, SeenBut

\* The hook before a line looked at what waited, after it noted the reflog.
Looks ==
    /\ \A l \in Lines : stage[l] = "runs" /\ l \notin posted =>
         \A m \in Fresh(Session[l]) : Seen(l, m)
    /\ \A h \in Hooks : job[h].line # None =>
         /\ pc[h] = "record" => \A m \in Fresh(job[h].session) : Seen(job[h].line, m)
         /\ pc[h] \in {"late", "lateclaim"} => \A m \in wait[h] : Seen(job[h].line, m)
         /\ pc[h] = "lateclaim" => SeenBut(job[h].line, mine[h].line, mine[h].commits)

\* A line runs on when the hook before it ends.
LEMMA LetRun ==
    ASSUME IInv, [Next]_vars, NEW l \in Lines, stage[l] # "runs", stage'[l] = "runs", l \notin posted'
    PROVE  \E h \in Hooks : /\ job[h].line = l
                            /\ (ReadPending(h) /\ Fresh(job[h].session) = {}) \/ Store(h) \/ Kill(h)
<1> USE DEF IInv, Placed, git, lines, files, hook, counts, history
<1> DEFINE Goal == \E h \in Hooks :
                        /\ job[h].line = l
                        /\ (ReadPending(h) /\ Fresh(job[h].session) = {}) \/ Store(h) \/ Kill(h)
<1>1. ASSUME NEW h \in Hooks, NEW k \in Lines, Ask(h, k) PROVE Goal
    BY <1>1 DEF Ask, Start
<1>2. ASSUME NEW h \in Hooks, NEW k \in Lines, Tell(h, k) PROVE Goal
    BY <1>2 DEF Tell, Start
<1>3. ASSUME NEW h \in Hooks, NEW s \in Sessions, Event(h, s) PROVE Goal
    BY <1>3 DEF Event, Start
<1>4. ASSUME NEW h \in Hooks, ReadHead(h) PROVE Goal
    BY <1>4 DEF ReadHead, Goto
<1>5. ASSUME NEW h \in Hooks, ReadLog(h) PROVE Goal
    BY <1>5 DEF ReadLog, Goto
<1>6. ASSUME NEW h \in Hooks, Scan(h) PROVE Goal
    BY <1>6 DEF Scan, Goto
<1>7. ASSUME NEW h \in Hooks, ClaimOwn(h) PROVE Goal
    BY <1>7 DEF ClaimOwn, Claim, Goto
<1>8. ASSUME NEW h \in Hooks, Forget(h) PROVE Goal
    BY <1>8 DEF Forget, Goto
<1>9. ASSUME NEW h \in Hooks, Unpend(h) PROVE Goal
    BY <1>9 DEF Unpend, Put, Goto
<1>10. ASSUME NEW h \in Hooks, Keep(h) PROVE Goal
    BY <1>10 DEF Keep, Goto
<1>11. ASSUME NEW h \in Hooks, Pend(h) PROVE Goal
    BY <1>11 DEF Pend, Put, Goto
<1>12. ASSUME NEW h \in Hooks, ReadPending(h) PROVE Goal
  <2>1. CASE job[h].line = l /\ Fresh(job[h].session) = {}
    BY <1>12, <2>1
  <2>2. CASE Fresh(job[h].session) # {}
    BY <1>12, <2>2 DEF ReadPending
  <2>3. CASE job[h].line # l /\ Fresh(job[h].session) = {}
    <3>1. Leave(h)
      BY <1>12, <2>3 DEF ReadPending
    <3>2. QED
      BY <2>3, <3>1 DEF Leave, Ended
  <2>4. QED
    BY <2>1, <2>2, <2>3
<1>13. ASSUME NEW h \in Hooks, Late(h) PROVE Goal
    BY <1>13 DEF Late, Goto
<1>14. ASSUME NEW h \in Hooks, ClaimLate(h) PROVE Goal
    BY <1>14 DEF ClaimLate, Claim, Goto
<1>15. ASSUME NEW h \in Hooks, Store(h) PROVE Goal
  <2>1. CASE job[h].line = l
    BY <1>15, <2>1
  <2>2. CASE job[h].line # l
    BY <1>15, <2>2 DEF Store, Leave, Ended
  <2>3. QED
    BY <2>1, <2>2
<1>16. ASSUME NEW h \in Hooks, Kill(h) PROVE Goal
  <2>1. CASE job[h].line = l
    BY <1>16, <2>1
  <2>2. CASE job[h].line # l
    BY <1>16, <2>2 DEF Kill, Leave, Ended
  <2>3. QED
    BY <2>1, <2>2
<1>17. ASSUME NEW k \in Lines, Commit(k) PROVE Goal
    BY <1>17 DEF Commit
<1>18. ASSUME NEW k \in Lines, Reset(k) PROVE Goal
    BY <1>18 DEF Reset
<1>19. ASSUME NEW k \in Lines, Age(k) PROVE Goal
    BY <1>19 DEF Age
<1>20. ASSUME NEW s \in Sessions, Stale(s) PROVE Goal
    BY <1>20 DEF Stale
<1>21. CASE UNCHANGED vars
    BY <1>21 DEF vars
<1>22. QED
    BY <1>1, <1>2, <1>3, <1>4, <1>5, <1>6, <1>7, <1>8, <1>9, <1>10, <1>11,
       <1>12, <1>13, <1>14, <1>15, <1>16, <1>17, <1>18, <1>19, <1>20, <1>21 DEF Next

\* A hook that is idle starts, or stays idle.
LEMMA IdleStep ==
    ASSUME IInv, Tallied, [Next]_vars, NEW k \in Hooks, pc[k] = "idle"
    PROVE  \/ pc'[k] = "idle" /\ due'[k] = due[k]
           \/ \E s \in Sessions, l \in Lines \union {None}, place \in {"head", "record", "pending"} :
                /\ Start(k, s, l, place)
                /\ pc'[k] = place /\ job'[k].session = s /\ job'[k].line = l
                /\ due'[k] = {c \in DOMAIN maker : maker[c] \in Fresh(s) /\ c \in Work(maker[c])}
<1> USE Constants DEF IInv, Placed, Shaped, Tallied, git, lines, files, hook, counts, history
<1> DEFINE Begins(s, l, place) ==
                /\ Start(k, s, l, place)
                /\ pc'[k] = place /\ job'[k].session = s /\ job'[k].line = l
                /\ due'[k] = {c \in DOMAIN maker : maker[c] \in Fresh(s) /\ c \in Work(maker[c])}
           Goal == \/ pc'[k] = "idle" /\ due'[k] = due[k]
                   \/ \E s \in Sessions, l \in Lines \union {None}, place \in {"head", "record", "pending"} :
                        Begins(s, l, place)
<1>0. ASSUME NEW s \in Sessions, NEW l \in Lines \union {None}, NEW place, Start(k, s, l, place)
      PROVE  Begins(s, l, place)
    BY <1>0 DEF Start
<1> HIDE DEF Begins
<1>1. ASSUME NEW h \in Hooks, NEW m \in Lines, Ask(h, m) PROVE Goal
  <2>1. CASE h = k
    <3>1. Start(k, Session[m], m, "head")
      BY <1>1, <2>1 DEF Ask
    <3>2. Begins(Session[m], m, "head")
      BY <1>0, <3>1
    <3>3. QED
      BY <3>2
  <2>2. CASE h # k
    BY <1>1, <2>2 DEF Ask, Start
  <2>3. QED
    BY <2>1, <2>2
<1>2. ASSUME NEW h \in Hooks, NEW m \in Lines, Tell(h, m) PROVE Goal
  <2>1. CASE h = k
    <3>1. Start(k, Session[m], m, "record")
      BY <1>2, <2>1 DEF Tell
    <3>2. Begins(Session[m], m, "record")
      BY <1>0, <3>1
    <3>3. QED
      BY <3>2
  <2>2. CASE h # k
    BY <1>2, <2>2 DEF Tell, Start
  <2>3. QED
    BY <2>1, <2>2
<1>3. ASSUME NEW h \in Hooks, NEW t \in Sessions, Event(h, t) PROVE Goal
  <2>1. CASE h = k
    <3>1. Start(k, t, None, "pending")
      BY <1>3, <2>1 DEF Event
    <3>2. Begins(t, None, "pending")
      BY <1>0, <3>1
    <3>3. QED
      BY <3>2
  <2>2. CASE h # k
    BY <1>3, <2>2 DEF Event, Start
  <2>3. QED
    BY <2>1, <2>2
<1>4. ASSUME NEW h \in Hooks, ReadHead(h) PROVE Goal
    BY <1>4 DEF ReadHead, Goto
<1>5. ASSUME NEW h \in Hooks, ReadLog(h) PROVE Goal
    BY <1>5 DEF ReadLog, Goto
<1>6. ASSUME NEW h \in Hooks, Scan(h) PROVE Goal
    BY <1>6 DEF Scan, Goto
<1>7. ASSUME NEW h \in Hooks, ClaimOwn(h) PROVE Goal
    BY <1>7 DEF ClaimOwn, Claim, Goto
<1>8. ASSUME NEW h \in Hooks, Forget(h) PROVE Goal
    BY <1>8 DEF Forget, Goto
<1>9. ASSUME NEW h \in Hooks, Unpend(h) PROVE Goal
    BY <1>9 DEF Unpend, Put, Goto
<1>10. ASSUME NEW h \in Hooks, Keep(h) PROVE Goal
    BY <1>10 DEF Keep, Goto
<1>11. ASSUME NEW h \in Hooks, Pend(h) PROVE Goal
    BY <1>11 DEF Pend, Put, Goto
<1>12. ASSUME NEW h \in Hooks, ReadPending(h) PROVE Goal
  <2>1. k # h
    BY <1>12 DEF ReadPending
  <2>2. CASE Fresh(job[h].session) = {}
    <3>1. Leave(h)
      BY <1>12, <2>2 DEF ReadPending
    <3>2. QED
      BY <2>1, <3>1 DEF Leave, Ended
  <2>3. CASE Fresh(job[h].session) # {}
    BY <1>12, <2>1, <2>3 DEF ReadPending, Goto
  <2>4. QED
    BY <2>2, <2>3
<1>13. ASSUME NEW h \in Hooks, Late(h) PROVE Goal
    BY <1>13 DEF Late, Goto
<1>14. ASSUME NEW h \in Hooks, ClaimLate(h) PROVE Goal
    BY <1>14 DEF ClaimLate, Claim, Goto
<1>15. ASSUME NEW h \in Hooks, Store(h) PROVE Goal
    BY <1>15 DEF Store, Put, Leave, Ended
<1>16. ASSUME NEW h \in Hooks, Kill(h) PROVE Goal
    BY <1>16 DEF Kill, Leave, Ended
<1>17. ASSUME NEW m \in Lines, Commit(m) PROVE Goal
    BY <1>17 DEF Commit
<1>18. ASSUME NEW m \in Lines, Reset(m) PROVE Goal
    BY <1>18 DEF Reset
<1>19. ASSUME NEW m \in Lines, Age(m) PROVE Goal
    BY <1>19 DEF Age
<1>20. ASSUME NEW t \in Sessions, Stale(t) PROVE Goal
    BY <1>20 DEF Stale
<1>21. CASE UNCHANGED vars
    BY <1>21 DEF vars
<1>22. QED
    BY <1>1, <1>2, <1>3, <1>4, <1>5, <1>6, <1>7, <1>8, <1>9, <1>10, <1>11,
       <1>12, <1>13, <1>14, <1>15, <1>16, <1>17, <1>18, <1>19, <1>20, <1>21 DEF Next, Begins

GInv == KInv /\ LInv /\ Tallied /\ Flight /\ Parked /\ Ordered

LEMMA GHas == GInv => /\ KInv /\ LInv /\ CInv /\ TInv /\ Turns /\ IInv /\ Known /\ Authored /\ Unclaimed
                      /\ Parallel = FALSE /\ Alone /\ Tallied /\ Flight /\ Parked /\ Ordered
BY DEF GInv, KInv, LInv, CInv, Turns

LEMMA GInvHolds == Parallel = FALSE => (Init => GInv) /\ (GInv /\ [Next]_vars => GInv')
<1> SUFFICES ASSUME Parallel = FALSE PROVE (Init => GInv) /\ (GInv /\ [Next]_vars => GInv')
    OBVIOUS
<1>1. Init => GInv
  <2> SUFFICES ASSUME Init PROVE GInv
      OBVIOUS
  <2>1. KInv /\ LInv
      BY KInvHolds, LInvHolds
  <2>2. Tallied
      BY DEF Init, Tallied
  <2>3. Flight
      BY DEF Init, Flight, InFlight
  <2>4. Parked
      BY DEF Init, Parked, Waits
  <2>5. Ordered
      BY DEF Init, Ordered
  <2>6. QED
      BY <2>1, <2>2, <2>3, <2>4, <2>5 DEF GInv
<1>2. GInv /\ [Next]_vars => GInv'
    BY GHas, KInvHolds, LInvHolds, TalliedNext, FlightNext, ParkedNext, OrderedNext DEF GInv
<1>3. QED
    BY <1>1, <1>2

\* Lines that wait have begun.
LEMMA WaitsBegun ==
    ASSUME GInv
    PROVE  /\ \A s \in Sessions : \A m \in Fresh(s) :
                m \in Lines /\ m \in posted /\ stage[m] \in {"runs", "over"} /\ Session[m] = s
           /\ \A h \in Hooks : \A m \in view[h] \union todo[h] \union wait[h] :
                m \in Lines /\ m \in posted /\ stage[m] \in {"runs", "over"} /\ Session[m] = job[h].session
<1>1. IInv /\ Turns /\ Parked
    BY GHas
<1>2. \A m \in posted : stage[m] \in {"runs", "over"}
    BY <1>1 DEF Turns, Phases
<1>3. ASSUME NEW s \in Sessions, NEW m \in Fresh(s)
      PROVE  m \in Lines /\ m \in posted /\ Session[m] = s
  <2>1. m \in pending[s]
    BY <1>3 DEF Fresh
  <2>2. m \in Lines /\ Session[m] = s
    BY <1>1, <2>1 DEF IInv, Own, Of
  <2>3. QED
    BY <1>1, <2>1, <2>2 DEF Parked, Waits
<1>4. ASSUME NEW h \in Hooks, NEW m \in view[h] \union todo[h] \union wait[h]
      PROVE  m \in Lines /\ m \in posted /\ Session[m] = job[h].session
  <2>1. m \in Lines /\ Session[m] = job[h].session
    BY <1>1, <1>4 DEF IInv, Own, Of
  <2>2. QED
    BY <1>1, <1>4, <2>1 DEF Parked, Waits
<1>5. QED
    BY <1>2, <1>3, <1>4

\* The record of the line a hook runs for stands once it is written.
LEMMA LineStays ==
    ASSUME GInv, [Next]_vars, NEW h \in Hooks, pc[h] \notin {"head", "log"}, job[h].line \in Lines
    PROVE  before'[job[h].line] = before[job[h].line]
<1>1. Turns
    BY GHas
<1>2. \A k \in Hooks : pc[k] \in {"head", "log"} => job[k].line # job[h].line
    BY <1>1, Constants DEF Turns, OneHook
<1>3. QED
    BY <1>1, <1>2, BeforeStep

LEMMA LooksNext ==
    ASSUME GInv, Untouched, Looks, [Next]_vars, kills = 0, kills' = 0
    PROVE  Looks'
<1>1. /\ KInv /\ LInv /\ CInv /\ Turns /\ IInv /\ Known /\ Authored /\ Unclaimed
      /\ Parallel = FALSE /\ Alone /\ Tallied /\ Flight /\ Parked
    BY GHas
<1>2. ASSUME NEW h \in Hooks PROVE ~Kill(h)
    BY <1>2, <1>1 DEF Kill, Tallied
<1>3. ASSUME NEW l \in Lines, stage'[l] = "runs", l \notin posted', NEW F, F = Fresh(Session[l])', NEW m \in F
      PROVE  Seen(l, m)'
  <2>1. l \notin posted /\ Session[l] \in Sessions
    BY <1>1, <1>3, LineStep, Constants
  <2>2. CASE stage[l] = "runs"
    <3>1. \A h \in Hooks : job[h].session # Session[l]
      <4>1. ASSUME NEW h \in Hooks, job[h].session = Session[l] PROVE FALSE
        <5>1. job[h].line = l
          BY <1>1, <2>1, <2>2, <4>1 DEF Flight, InFlight
        <5>2. QED
          BY <1>1, <2>1, <2>2, <5>1, Constants DEF Turns, Phases
      <4>2. QED
        BY <4>1
    <3>2. m \in Fresh(Session[l])
      BY <1>1, <1>3, <2>1, <3>1, FreshStep
    <3>3. Seen(l, m)
      BY <2>1, <2>2, <3>2 DEF Looks
    <3>4. m \in Lines /\ stage[m] \in {"runs", "over"}
      BY <2>1, <3>2, WaitsBegun
    <3>5. before'[l] = before[l]
      BY <1>1, <2>2, BegunStays
    <3>6. QED
      BY <1>1, <3>3, <3>4, <3>5, SeenStays
  <2>3. CASE stage[l] # "runs"
    <3>1. PICK h \in Hooks :
              job[h].line = l /\ ((ReadPending(h) /\ Fresh(job[h].session) = {}) \/ Store(h))
      BY <1>1, <1>2, <1>3, <2>3, LetRun
    <3>2. job[h].session = Session[l]
      BY <1>1, <3>1, Constants DEF IInv, Own
    <3>3. CASE ReadPending(h) /\ Fresh(job[h].session) = {}
      <4>1. UNCHANGED <<pending, idle>>
        BY <3>3 DEF ReadPending
      <4>2. F = {}
        BY <1>3, <3>2, <3>3, <4>1 DEF Fresh
      <4>3. QED
        BY <4>2
    <3>4. CASE Store(h)
      <4>1. m \in wait[h]
        BY <1>1, <1>3, <2>1, <3>2, <3>4 DEF Store, Put, Fresh, IInv, Shaped
      <4>2. Seen(l, m)
        BY <3>1, <3>4, <4>1, Constants DEF Store, Looks
      <4>3. m \in Lines /\ stage[m] \in {"runs", "over"}
        BY <4>1, WaitsBegun
      <4>4. before'[l] = before[l]
        BY <3>1, <3>4, LineStays DEF Store
      <4>5. QED
        BY <1>1, <4>2, <4>3, <4>4, SeenStays
    <3>5. QED
      BY <3>1, <3>3, <3>4
  <2>4. QED
    BY <2>2, <2>3
<1>4. ASSUME NEW h \in Hooks, pc'[h] = "record", job'[h].line # None,
             NEW l, l = job'[h].line, NEW F, F = Fresh(job[h].session)', NEW m \in F
      PROVE  Seen(l, m)'
  <2>1. CASE pc[h] = "record" /\ job'[h] = job[h]
    <3>1. l \in Lines /\ job[h].line = l /\ job[h].session \in Sessions
      BY <1>1, <1>4, <2>1 DEF IInv, Shaped, Own
    <3>2. Fresh(job[h].session)' = Fresh(job[h].session)
      <4>1. ASSUME NEW s \in Sessions, job[h].session = s PROVE Fresh(s)' = Fresh(s)
        <5>1. ~(Unpend(h) \/ Pend(h) \/ Store(h))
          BY <2>1 DEF Unpend, Pend, Store
        <5>2. QED
          BY <1>1, <4>1, <5>1, FreshAside
      <4>2. QED
        BY <2>1, <3>1, <4>1 DEF Fresh
    <3>3. m \in Fresh(job[h].session)
      BY <1>4, <2>1, <3>2 DEF Fresh
    <3>4. Seen(l, m)
      BY <2>1, <3>1, <3>3, Constants DEF Looks
    <3>5. m \in Lines /\ stage[m] \in {"runs", "over"}
      BY <3>1, <3>3, WaitsBegun
    <3>6. before'[l] = before[l]
      BY <2>1, <3>1, LineStays
    <3>7. QED
      BY <1>1, <3>1, <3>4, <3>5, <3>6, SeenStays
  <2>2. CASE \E k \in Lines : Tell(h, k) /\ job'[h].line = k
    <3>1. l \in Lines /\ Tell(h, l)
      BY <1>4, <2>2
    <3>2. /\ stage[l] = "runs" /\ l \notin posted /\ job'[h].session = Session[l]
          /\ UNCHANGED <<pending, idle, before>>
      BY <1>1, <3>1 DEF Tell, Start, files, IInv, Shaped
    <3>3. m \in Fresh(Session[l])
      BY <1>4, <3>2 DEF Fresh
    <3>4. Seen(l, m)
      BY <3>1, <3>2, <3>3 DEF Looks
    <3>5. m \in Lines /\ stage[m] \in {"runs", "over"}
      BY <3>1, <3>3, WaitsBegun, Constants
    <3>6. QED
      BY <1>1, <3>1, <3>2, <3>4, <3>5, SeenStays
  <2>3. QED
    BY <1>1, <1>4, <2>1, <2>2, HookStep
<1>5. ASSUME NEW h \in Hooks, pc'[h] \in {"late", "lateclaim"}, job'[h].line # None,
             NEW l, l = job'[h].line, NEW m \in wait'[h]
      PROVE  Seen(l, m)'
  <2>1. pc[h] # "idle"
    BY <1>1, <1>5, IdleStep
  <2>2. job'[h] = job[h] /\ pc[h] \in {"pending", "late", "lateclaim"}
        /\ (wait'[h] = wait[h] \/ Late(h) \/ ClaimLate(h))
    <3>1. CASE ~Acts(h)
      BY <1>1, <1>5, <2>1, <3>1, Aside DEF Same
    <3>2. CASE Acts(h)
      <4> USE DEF IInv, Placed, Shaped
      <4>1. CASE ReadHead(h) \/ ReadLog(h) \/ ClaimOwn(h) \/ Keep(h) \/ Unpend(h) \/ Pend(h) \/ Kill(h)
        BY <1>1, <1>2, <1>5, <4>1 DEF ReadHead, ReadLog, ClaimOwn, Keep, Unpend, Pend, Goto
      <4>2. CASE Scan(h)
        BY <1>1, <1>5, <4>2 DEF Scan, Goto
      <4>3. CASE Forget(h)
        BY <1>1, <1>5, <4>3 DEF Forget, Goto
      <4>4. CASE ReadPending(h)
        <5>1. CASE Leave(h)
          BY <1>1, <1>5, <5>1 DEF Leave, Ended
        <5>2. CASE ~Leave(h)
          BY <1>1, <1>5, <4>4, <5>2 DEF ReadPending
        <5>3. QED
          BY <5>1, <5>2
      <4>5. CASE Late(h)
        BY <1>1, <1>5, <4>5 DEF Late
      <4>6. CASE ClaimLate(h)
        BY <1>1, <1>5, <4>6 DEF ClaimLate
      <4>7. CASE Store(h)
        BY <1>1, <1>5, <4>7 DEF Store, Leave, Ended
      <4>8. QED
        BY <3>2, <4>1, <4>2, <4>3, <4>4, <4>5, <4>6, <4>7 DEF Acts
    <3>3. QED
      BY <3>1, <3>2
  <2>3. l \in Lines /\ l = job[h].line
    BY <1>1, <1>5, <2>2 DEF IInv, Shaped
  <2>4. before'[l] = before[l]
    BY <2>2, <2>3, LineStays
  <2>5. CASE m \in wait[h]
    <3>1. pc[h] \in {"late", "lateclaim"}
      BY <2>2, <2>5 DEF Untouched
    <3>2. Seen(l, m)
      BY <2>3, <2>5, <3>1, Constants DEF Looks
    <3>3. m \in Lines /\ stage[m] \in {"runs", "over"}
      BY <2>5, WaitsBegun
    <3>4. QED
      BY <1>1, <2>3, <2>4, <3>2, <3>3, SeenStays
  <2>6. CASE m \notin wait[h] /\ ClaimLate(h)
    <3>1. m = mine[h].line /\ pc[h] = "lateclaim"
      BY <1>1, <1>5, <2>6, ClaimedLate DEF IInv, Shaped
    <3>2. m \in Lines /\ stage[m] \in {"runs", "over"}
      BY <1>1, <2>6, <3>1, LateLine, WaitsBegun
    <3>3. SeenBut(l, m, mine[h].commits)
      BY <2>3, <3>1, Constants DEF Looks
    <3>4. UNCHANGED <<log, before>> /\ Claim(h) /\ pc[h] # "idle"
      BY <2>6, <3>1 DEF ClaimLate, git
    <3>5. ASSUME NEW S, S = mine[h].commits, NEW V, V = Work(m)', NEW c \in V, Before(l, c)' PROVE Found(c)'
      <4>1. SeenBut(l, m, S)'
        BY <1>1, <2>3, <2>4, <3>2, <3>3, <3>5, SeenButStays
      <4>2. Found(c)' \/ c \in S
        BY <3>5, <4>1 DEF SeenBut
      <4>3. c \in DOMAIN taken
        <5>1. before[l].from \in Nat /\ Len(log) \in Nat /\ before[l].from <= Len(log)
          BY <1>1, <2>3 DEF IInv, Noted, Recorded
        <5>2. c \in 1 .. Len(parents)
          BY <1>1, <3>4, <3>5, <5>1 DEF Before, Authored
        <5>3. Len(taken) = Len(parents) /\ DOMAIN taken = 1 .. Len(taken)
          BY <1>1 DEF CInv, TInv, Claimed, Shown
        <5>4. QED
          BY <5>2, <5>3
      <4>4. c \in S => taken'[c] # {}
        BY <3>4, <3>5, <4>3 DEF Claim
      <4>5. QED
        BY <4>2, <4>4 DEF Found
    <3>6. QED
      BY <3>5 DEF Seen
  <2>7. CASE m \notin wait[h] /\ ~ClaimLate(h)
    <3>1. m \in todo[h] /\ Landed(m) = Nothing
      BY <1>1, <1>5, <2>2, <2>7 DEF Late, IInv, Shaped
    <3>2. m \in Lines /\ stage[m] \in {"runs", "over"}
      BY <3>1, WaitsBegun
    <3>3. ASSUME NEW c \in Work(m) PROVE Found(c)
      BY <1>1, <3>1, <3>2, <3>3, LandedFinds DEF Nothing
    <3>4. Seen(l, m)
      BY <3>3 DEF Seen
    <3>5. QED
      BY <1>1, <2>3, <2>4, <3>2, <3>4, SeenStays
  <2>8. QED
    BY <2>5, <2>6, <2>7
<1>6. ASSUME NEW h \in Hooks, pc'[h] = "lateclaim", job'[h].line # None,
             NEW l, l = job'[h].line, NEW m, m = mine'[h].line, NEW S, S = mine'[h].commits
      PROVE  SeenBut(l, m, S)'
  <2>1. pc[h] # "idle"
    BY <1>1, <1>6, IdleStep
  <2>2. job'[h] = job[h] /\ ((Same(h) /\ pc[h] = "lateclaim") \/ Late(h))
    <3>1. CASE ~Acts(h)
      BY <1>1, <1>6, <2>1, <3>1, Aside DEF Same
    <3>2. CASE Acts(h)
      <4> USE DEF IInv, Placed, Shaped
      <4>1. CASE ReadHead(h) \/ ReadLog(h) \/ Scan(h) \/ ClaimLate(h) \/ Forget(h) \/ Keep(h) \/ Unpend(h) \/ Pend(h) \/ Kill(h)
        BY <1>1, <1>2, <1>6, <4>1 DEF ReadHead, ReadLog, Scan, ClaimLate, Forget, Keep, Unpend, Pend, Goto
      <4>2. CASE ClaimOwn(h)
        BY <1>1, <1>6, <4>2, ClaimedOwn
      <4>3. CASE ReadPending(h)
        <5>1. CASE Leave(h)
          BY <1>1, <1>6, <5>1 DEF Leave, Ended
        <5>2. CASE ~Leave(h)
          BY <1>1, <1>6, <4>3, <5>2 DEF ReadPending, Goto
        <5>3. QED
          BY <5>1, <5>2
      <4>4. CASE Late(h)
        BY <4>4 DEF Late
      <4>5. CASE Store(h)
        BY <1>1, <1>6, <4>5 DEF Store, Leave, Ended
      <4>6. QED
        BY <3>2, <4>1, <4>2, <4>3, <4>4, <4>5 DEF Acts
    <3>3. QED
      BY <3>1, <3>2
  <2>3. l \in Lines /\ l = job[h].line
    BY <1>1, <1>6, <2>2 DEF IInv, Shaped
  <2>4. before'[l] = before[l]
    <3>1. pc[h] \notin {"head", "log"}
      BY <2>2 DEF Late
    <3>2. QED
      BY <2>3, <3>1, LineStays
  <2>5. CASE Same(h) /\ pc[h] = "lateclaim"
    <3>1. m = mine[h].line /\ S = mine[h].commits
      BY <1>6, <2>5 DEF Same
    <3>2. SeenBut(l, m, S)
      BY <2>3, <2>5, <3>1, Constants DEF Looks
    <3>3. m \in view[h]
      BY <1>1, <2>5, <3>1 DEF IInv, Looking
    <3>4. m \in Lines /\ stage[m] \in {"runs", "over"}
      BY <3>3, WaitsBegun
    <3>5. QED
      BY <1>1, <2>3, <2>4, <3>2, <3>4, SeenButStays
  <2>6. CASE Late(h)
    <3>1. PICK k \in todo[h] : mine' = [mine EXCEPT ![h] = Landed(k)] /\ (mine'[h] # Nothing \/ UNCHANGED pc)
      BY <2>6 DEF Late
    <3>2. mine'[h] = Landed(k) /\ Landed(k) # Nothing
      BY <1>1, <1>6, <2>6, <3>1 DEF Late, IInv, Shaped
    <3>3. m = k /\ S = Landed(k).commits
      BY <1>6, <3>2, LandedLine
    <3>4. k \in Lines /\ stage[k] \in {"runs", "over"}
      BY <3>1, WaitsBegun
    <3>5. SeenBut(l, m, S)
      BY <1>1, <3>3, <3>4, LandedFinds DEF SeenBut
    <3>6. QED
      BY <1>1, <2>3, <2>4, <3>3, <3>4, <3>5, SeenButStays
  <2>7. QED
    BY <2>2, <2>5, <2>6
<1>7. QED
    BY <1>3, <1>4, <1>5, <1>6 DEF Looks

\* A waiting record is still to be looked at.
Awaits(h, m) ==
    \/ pc[h] \in {"head", "log", "record", "keep", "pending"} /\ m \in Fresh(job[h].session)
    \/ pc[h] = "pend" /\ m \in view[h]
    \/ pc[h] \in {"late", "lateclaim"} /\ m \in todo[h]

\* It is, or will be, forgotten.
Drops(h, m) ==
    \/ pc[h] \in {"claim", "forget"} /\ m \in Fresh(job[h].session)
    \/ pc[h] = "unpend" /\ m \in view[h]
    \/ pc[h] \in {"pending", "late", "lateclaim"} /\ fate[m] = "forgotten"

\* What was due when a hook started is found, to be looked at, about to be
\* claimed, or out of reach of the record that landed.
Cared(h, c, m) ==
    \/ Found(c)
    \/ Awaits(h, m)
    \/ pc[h] \in {"claim", "lateclaim"} /\ c \in mine[h].commits
    \/ job[h].line # None /\ Drops(h, m) /\ Unreached(job[h].line, c)

\* A commit of a line whose hook came by.
Owed(c, m, s) ==
    /\ c \in 1 .. Len(maker) /\ maker[c] = m /\ m \in posted /\ Session[m] = s
    /\ c \in Work(m)

Cares ==
    \A h \in Hooks :
        /\ pc[h] = "idle" => due[h] = {}
        /\ \A c \in due[h] : Owed(c, maker[c], job[h].session) /\ Cared(h, c, maker[c])

LEMMA OwedStays ==
    ASSUME GInv, [Next]_vars, NEW c, NEW m, NEW s, Owed(c, m, s)
    PROVE  /\ Owed(c, m, s)' /\ m \in Lines /\ c \in 1 .. Len(parents)
           /\ Found(c) => Found(c)'
<1>1. Turns /\ CInv /\ Authored /\ IInv /\ IInv'
    BY GHas, TypedNext DEF Turns
<1>2. m \in Lines /\ stage[m] \in {"runs", "over"} /\ c \in 1 .. Len(parents)
    BY <1>1 DEF Owed, Turns, Phases, IInv, Placed, Authored
<1>3. before'[m] = before[m]
    BY <1>1, <1>2, BegunStays
<1>4. c \in Work(m)'
    BY <1>1, <1>2, <1>3, WorkKept DEF Owed
<1>5. m \in posted'
    BY <1>1, <1>2, LineStep DEF Owed
<1>6. maker'[c] = m /\ c \in 1 .. Len(maker')
  <2>1. maker'[c] = maker[c]
    BY <1>1, <1>2, MakerStays
  <2>2. Len(maker') = Len(parents') /\ Len(parents) <= Len(parents')
        /\ Len(parents) \in Nat /\ Len(parents') \in Nat
    BY <1>1, AuthoredNext, GitGrows DEF Authored
  <2>3. QED
    BY <1>2, <2>1, <2>2 DEF Owed
<1>7. Found(c) => Found(c)'
    BY <1>1, <1>2, FoundStays
<1>8. QED
    BY <1>2, <1>4, <1>5, <1>6, <1>7 DEF Owed

\* While others act.
LEMMA CaredAside ==
    ASSUME GInv, Untouched, [Next]_vars, kills = 0, kills' = 0,
           NEW h \in Hooks, pc[h] # "idle", ~Acts(h),
           NEW c, NEW m, Owed(c, m, job[h].session), Cared(h, c, m)
    PROVE  Cared(h, c, m)'
<1>1. /\ KInv /\ CInv /\ Turns /\ IInv /\ Authored /\ Alone /\ Tallied /\ Parked
    BY GHas
<1>2. m \in Lines /\ c \in 1 .. Len(parents) /\ (Found(c) => Found(c)') /\ Session[m] = job[h].session
    BY OwedStays DEF Owed
<1>3. Same(h)
    BY <1>1, Aside
<1>4. job[h].session \in Sessions /\ job[h].session # None
    BY <1>1, Constants DEF IInv, Shaped, Own
<1>5. Fresh(job[h].session)' = Fresh(job[h].session)
  <2>1. ASSUME NEW s \in Sessions, job[h].session = s PROVE Fresh(s)' = Fresh(s)
    BY <1>1, <2>1, FreshAside DEF Acts
  <2>2. QED
    BY <1>3, <1>4, <2>1 DEF Same, Fresh
<1>6. fate'[m] = fate[m]
  <2>1. ASSUME NEW k \in Hooks, job[k].session = Session[m] PROVE k = h
    BY <1>1, <1>2, <1>4, <2>1 DEF Alone
  <2>2. QED
    BY <1>1, <1>2, <2>1, FateAside DEF Acts
<1>7. ASSUME job[h].line # None, Drops(h, m), Unreached(job[h].line, c)
      PROVE  Unreached(job[h].line, c)'
  <2>1. job[h].line \in Lines /\ pc[h] \notin {"head", "log"}
    BY <1>1, <1>7 DEF IInv, Shaped, Drops
  <2>2. before'[job[h].line] = before[job[h].line]
    BY <2>1, LineStays
  <2>3. ASSUME NEW l \in Lines, l = job[h].line PROVE Unreached(l, c)'
    BY <1>1, <1>2, <1>7, <2>2, <2>3, UnreachedStays
  <2>4. QED
    BY <1>3, <2>1, <2>3 DEF Same
<1>8. Awaits(h, m) => Awaits(h, m)'
    BY <1>3, <1>5 DEF Same, Awaits
<1>9. Drops(h, m) => Drops(h, m)'
    BY <1>3, <1>5, <1>6 DEF Same, Drops
<1>10. QED
    BY <1>2, <1>3, <1>7, <1>8, <1>9 DEF Cared, Same

\* A scan takes what its record reaches; what is older had been found.
LEMMA ScanReaches ==
    ASSUME GInv, Looks, NEW h \in Hooks, Scan(h), job[h].line \in filed,
           NEW c, NEW m \in Fresh(job[h].session), Owed(c, m, job[h].session)
    PROVE  Found(c) \/ c \in Landed(job[h].line).commits \/ Unreached(job[h].line, c)
<1>1. /\ CInv /\ Turns /\ IInv /\ Authored /\ Unclaimed /\ Rising /\ Ordered
    BY GHas DEF CInv
<1>2. pc[h] = "record" /\ job[h].session \in Sessions
    BY <1>1 DEF Scan, IInv, Shaped, Own
<1> SUFFICES ASSUME ~Found(c), NEW l \in Lines, l = job[h].line, c \notin Landed(l).commits
             PROVE  Unreached(l, c)
    BY <1>1 DEF IInv, Placed
<1>3. Session[l] = job[h].session /\ l \in filed
    BY <1>1, Constants DEF IInv, Own
<1>4. m \in Recs /\ m \in Lines /\ m \in posted /\ Session[m] = Session[l]
    BY <1>2, <1>3, WaitsBegun DEF Fresh, Recs
<1>5. before[m].from <= before[l].from
    BY <1>1, <1>2, <1>3, <1>4 DEF Ordered
<1>6. Seen(l, m) /\ c \in Work(m)
    BY <1>2, Constants DEF Looks, Owed
<1>7. ~Before(l, c)
    BY <1>6 DEF Seen
<1>8. ASSUME NEW i \in 1 .. Len(log), log[i].new = c, log[i].act # "reset"
      PROVE  i \in Since(l) /\ i \notin Reach(l)
  <2>1. i \in Since(l)
    <3>1. before[l].from \in Nat /\ Len(log) \in Nat
      BY <1>1 DEF IInv, Noted, Recorded
    <3>2. i \notin 1 .. before[l].from
      BY <1>7, <1>8 DEF Before
    <3>3. QED
      BY <3>1, <3>2 DEF Since
  <2>2. i \notin Reach(l)
    BY <1>1, <1>4, <1>5, <1>6, <1>8, ReachFinds
  <2>3. QED
    BY <2>1, <2>2
<1>9. QED
    BY <1>1, <1>8, UnreachedIs

\* A step of the hook itself.
LEMMA CaredOwn ==
    ASSUME GInv, Untouched, Looks, [Next]_vars, kills = 0, kills' = 0,
           NEW h \in Hooks, pc[h] # "idle", pc'[h] # "idle", Acts(h),
           NEW c, NEW m, Owed(c, m, job[h].session), Cared(h, c, m)
    PROVE  job'[h] = job[h] /\ due'[h] = due[h] /\ Cared(h, c, m)'
<1>1. /\ KInv /\ CInv /\ Turns /\ IInv /\ Authored /\ Unclaimed /\ Alone /\ Tallied /\ Parked
    BY GHas
<1>2. /\ m \in Lines /\ c \in 1 .. Len(parents) /\ (Found(c) => Found(c)')
      /\ c \in Work(m) /\ Session[m] = job[h].session
    BY OwedStays DEF Owed
<1>3. job[h].session \in Sessions /\ job[h].session # None
    BY <1>1, Constants DEF IInv, Shaped, Own
<1>4. ASSUME NEW s \in Sessions, s = job[h].session, job'[h] = job[h], ~(Unpend(h) \/ Pend(h) \/ Store(h))
      PROVE  Fresh(job[h].session)' = Fresh(job[h].session)
  <2>1. Fresh(s)' = Fresh(s)
    BY <1>1, <1>4, FreshAside
  <2>2. QED
    BY <1>4, <2>1 DEF Fresh
<1>5. ASSUME job'[h] = job[h], pc[h] \notin {"head", "log"},
             job[h].line # None, Unreached(job[h].line, c)
      PROVE  Unreached(job[h].line, c)'
  <2>1. job[h].line \in Lines
    BY <1>1, <1>5 DEF IInv, Shaped
  <2>2. before'[job[h].line] = before[job[h].line]
    BY <1>5, <2>1, LineStays
  <2>3. ASSUME NEW l \in Lines, l = job[h].line PROVE Unreached(l, c)'
    BY <1>1, <1>2, <1>5, <2>2, <2>3, UnreachedStays
  <2>4. QED
    BY <1>5, <2>1, <2>3
<1> DEFINE Goal == job'[h] = job[h] /\ due'[h] = due[h] /\ Cared(h, c, m)'
<1>6. CASE Found(c) /\ job'[h] = job[h] /\ due'[h] = due[h]
    BY <1>2, <1>6 DEF Cared
<1> USE DEF IInv, Placed, Shaped
<1>7. CASE ReadHead(h) \/ ReadLog(h)
  <2>1. pc[h] \in {"head", "log"} /\ pc'[h] \in {"log", "pending"} /\ job' = job /\ due' = due
        /\ ~(Unpend(h) \/ Pend(h) \/ Store(h))
    BY <1>1, <1>7 DEF ReadHead, ReadLog, Goto, history, Unpend, Pend, Store
  <2>2. Fresh(job[h].session)' = Fresh(job[h].session)
    BY <1>3, <1>4, <2>1
  <2>3. QED
    BY <1>6, <2>1, <2>2 DEF Cared, Awaits, Drops
<1>8. CASE Scan(h)
  <2>1. pc[h] = "record" /\ job' = job /\ due' = due /\ ~(Unpend(h) \/ Pend(h) \/ Store(h))
        /\ job[h].line # None
    BY <1>1, <1>8 DEF Scan, history, Unpend, Pend, Store, Own
  <2>2. Fresh(job[h].session)' = Fresh(job[h].session)
    BY <1>3, <1>4, <2>1
  <2>3. CASE mine'[h] = Nothing
    <3>1. pc'[h] \in {"keep", "pending"}
      BY <1>1, <1>8, <2>3 DEF Scan, Goto
    <3>2. QED
      BY <1>6, <2>1, <2>2, <3>1 DEF Cared, Awaits, Drops
  <2>4. CASE mine'[h] # Nothing
    <3>1. pc'[h] = "claim" /\ job[h].line \in filed /\ mine'[h] = Landed(job[h].line)
      BY <1>1, <1>8, <2>4 DEF Scan, Goto
    <3>2. SUFFICES ASSUME ~Found(c) PROVE Goal
      BY <1>6, <2>1
    <3>3. m \in Fresh(job[h].session)
      BY <2>1, <3>2 DEF Cared, Awaits, Drops
    <3>4. c \in mine'[h].commits \/ Unreached(job[h].line, c)
      BY <1>8, <3>1, <3>2, <3>3, ScanReaches
    <3>5. Unreached(job[h].line, c) => Unreached(job[h].line, c)'
      BY <1>5, <2>1
    <3>6. QED
      BY <2>1, <2>2, <3>1, <3>3, <3>4, <3>5 DEF Cared, Drops
  <2>5. QED
    BY <2>3, <2>4
<1>9. CASE ClaimOwn(h) \/ ClaimLate(h)
  <2>1. /\ job' = job /\ due' = due /\ todo' = todo /\ ~(Unpend(h) \/ Pend(h) \/ Store(h))
        /\ \/ pc[h] = "claim" /\ pc'[h] \in {"forget", "pending"}
           \/ /\ pc[h] = "lateclaim" /\ pc'[h] = "late"
              /\ fate' = fate \/ fate' = [fate EXCEPT ![mine[h].line] = "taken"]
    <3>1. CASE ClaimOwn(h)
      BY <1>1, <3>1, ClaimedOwn DEF Unpend, Pend, Store
    <3>2. CASE ClaimLate(h)
      BY <1>1, <3>2 DEF ClaimLate, Goto, Unpend, Pend, Store
    <3>3. QED
      BY <1>9, <3>1, <3>2
  <2>2. Fresh(job[h].session)' = Fresh(job[h].session)
    BY <1>3, <1>4, <2>1
  <2>3. CASE c \in mine[h].commits
    <3>1. c \in DOMAIN taken
      BY <1>1, <1>2 DEF CInv, TInv, Claimed, Shown
    <3>2. taken'[c] # {}
      BY <1>9, <2>3, <3>1 DEF ClaimOwn, ClaimLate, Claim
    <3>3. QED
      BY <2>1, <3>2 DEF Cared, Found
  <2>4. CASE c \notin mine[h].commits
    <3>1. SUFFICES ASSUME ~Found(c) PROVE Goal
      BY <1>6, <2>1
    <3>2. Unreached(job[h].line, c) /\ job[h].line # None => Unreached(job[h].line, c)'
      BY <1>5, <2>1
    <3>3. pc[h] = "lateclaim" /\ fate[m] = "forgotten" => fate'[m] = "forgotten"
      BY <1>1, <1>2, <2>1 DEF Untouched
    <3>4. QED
      BY <2>1, <2>2, <2>4, <3>1, <3>2, <3>3 DEF Cared, Awaits, Drops
  <2>5. QED
    BY <2>3, <2>4
<1>10. CASE Forget(h) \/ Keep(h)
  <2>1. /\ job' = job /\ due' = due /\ view'[h] = Fresh(job[h].session)
        /\ ~(Unpend(h) \/ Pend(h) \/ Store(h))
        /\ \/ pc[h] = "forget" /\ (view'[h] # {} => pc'[h] = "unpend")
           \/ pc[h] = "keep" /\ pc'[h] = "pend"
    BY <1>1, <1>10 DEF Forget, Keep, Goto, history, Unpend, Pend, Store
  <2>2. SUFFICES ASSUME ~Found(c) PROVE Goal
    BY <1>6, <2>1
  <2>3. m \in Fresh(job[h].session)
    BY <2>1, <2>2 DEF Cared, Awaits, Drops
  <2>4. Unreached(job[h].line, c) /\ job[h].line # None => Unreached(job[h].line, c)'
    BY <1>5, <2>1
  <2>5. QED
    BY <2>1, <2>2, <2>3, <2>4 DEF Cared, Awaits, Drops
<1>11. CASE Unpend(h)
  <2>1. /\ job' = job /\ due' = due /\ pc[h] = "unpend" /\ pc'[h] = "pending"
        /\ (m \in view[h] /\ fate[m] = "kept" => fate'[m] = "forgotten")
    BY <1>1, <1>2, <1>11 DEF Unpend, Goto
  <2>2. SUFFICES ASSUME ~Found(c) PROVE Goal
    BY <1>6, <2>1
  <2>3. m \in view[h] /\ fate[m] = "kept" /\ job[h].line # None /\ Unreached(job[h].line, c)
    BY <2>1, <2>2 DEF Cared, Awaits, Drops, Untouched
  <2>4. Unreached(job[h].line, c)'
    BY <1>5, <2>1, <2>3
  <2>5. QED
    BY <2>1, <2>3, <2>4 DEF Cared, Drops
<1>12. CASE Pend(h)
  <2>1. /\ job' = job /\ due' = due /\ pc[h] = "pend" /\ pc'[h] = "pending"
        /\ pending'[job[h].session] = view[h] \union {job[h].line}
        /\ job[h].session \notin idle'
    BY <1>1, <1>3, <1>12 DEF Pend, Put, Goto
  <2>2. SUFFICES ASSUME ~Found(c) PROVE Goal
    BY <1>6, <2>1
  <2>3. m \in view[h]
    BY <2>1, <2>2 DEF Cared, Awaits, Drops
  <2>4. QED
    BY <2>1, <2>3 DEF Cared, Awaits, Fresh
<1>13. CASE ReadPending(h)
  <2>1. ~Leave(h)
    BY <1>1 DEF Leave, Ended
  <2>2. /\ job' = job /\ due' = due /\ pc[h] = "pending" /\ pc'[h] = "late" /\ UNCHANGED fate
        /\ todo'[h] = Fresh(job[h].session)
    BY <1>1, <1>13, <2>1 DEF ReadPending, Goto, history
  <2>3. SUFFICES ASSUME ~Found(c) PROVE Goal
    BY <1>6, <2>2
  <2>4. Unreached(job[h].line, c) /\ job[h].line # None => Unreached(job[h].line, c)'
    BY <1>5, <2>2
  <2>5. QED
    BY <2>2, <2>3, <2>4 DEF Cared, Awaits, Drops
<1>14. CASE Late(h)
  <2>1. PICK l \in todo[h] :
            /\ todo' = [todo EXCEPT ![h] = @ \ {l}]
            /\ mine' = [mine EXCEPT ![h] = Landed(l)]
            /\ \/ mine'[h] # Nothing /\ pc' = [pc EXCEPT ![h] = "lateclaim"]
               \/ mine'[h] = Nothing /\ pc' = pc
    BY <1>14 DEF Late, Goto
  <2>2. job' = job /\ due' = due /\ pc[h] = "late" /\ UNCHANGED fate
    BY <1>14 DEF Late, history
  <2>3. SUFFICES ASSUME ~Found(c) PROVE Goal
    BY <1>6, <2>2
  <2>4. mine'[h] = Landed(l) /\ pc'[h] \in {"late", "lateclaim"}
        /\ (mine'[h] # Nothing => pc'[h] = "lateclaim")
    BY <1>1, <2>1, <2>2
  <2>5. CASE m \in todo[h] /\ m # l
    <3>1. m \in todo'[h]
      BY <1>1, <2>1, <2>5
    <3>2. QED
      BY <2>2, <2>4, <3>1 DEF Cared, Awaits
  <2>6. CASE m = l
    <3>1. c \in Landed(m).commits
      BY <1>1, <1>2, <2>3, LandedFinds
    <3>2. mine'[h] # Nothing
      BY <2>4, <2>6, <3>1 DEF Nothing
    <3>3. QED
      BY <2>2, <2>4, <2>6, <3>1, <3>2 DEF Cared
  <2>7. CASE m \notin todo[h]
    <3>1. job[h].line # None /\ fate[m] = "forgotten" /\ Unreached(job[h].line, c)
      BY <2>2, <2>3, <2>7 DEF Cared, Awaits, Drops
    <3>2. Unreached(job[h].line, c)'
      BY <1>5, <2>2, <3>1
    <3>3. QED
      BY <2>2, <2>4, <3>1, <3>2 DEF Cared, Drops
  <2>8. QED
    BY <2>5, <2>6, <2>7
<1>15. CASE Store(h) \/ Kill(h)
    BY <1>1, <1>15 DEF Store, Kill, Leave, Ended
<1>16. QED
    BY <1>7, <1>8, <1>9, <1>10, <1>11, <1>12, <1>13, <1>14, <1>15 DEF Acts

LEMMA CaresNext ==
    ASSUME GInv, Untouched, Looks, Cares, [Next]_vars, kills = 0, kills' = 0
    PROVE  Cares'
<1>1. /\ CInv /\ Turns /\ IInv /\ Authored /\ Tallied /\ Parked
    BY GHas
<1> SUFFICES ASSUME NEW h \in Hooks
             PROVE  /\ pc'[h] = "idle" => due'[h] = {}
                    /\ \A c \in due'[h] : /\ Owed(c, maker[c], job[h].session)'
                                         /\ Cared(h, c, maker[c])'
    BY DEF Cares
<1>2. ASSUME NEW c, NEW m, NEW s, Owed(c, m, s), job'[h].session = s, Cared(h, c, m)'
      PROVE  Owed(c, maker[c], job[h].session)' /\ Cared(h, c, maker[c])'
  <2>1. Owed(c, m, s)'
    BY <1>2, OwedStays
  <2>2. maker'[c] = m
    BY <2>1 DEF Owed
  <2>3. QED
    BY <1>2, <2>1, <2>2
<1>3. CASE pc[h] = "idle"
  <2>1. due[h] = {}
    BY <1>3 DEF Cares
  <2>2. CASE pc'[h] = "idle" /\ due'[h] = due[h]
    BY <2>1, <2>2
  <2>3. CASE \E s \in Sessions, l \in Lines \union {None}, place \in {"head", "record", "pending"} :
                /\ Start(h, s, l, place)
                /\ pc'[h] = place /\ job'[h].session = s /\ job'[h].line = l
                /\ due'[h] = {c \in DOMAIN maker : maker[c] \in Fresh(s) /\ c \in Work(maker[c])}
    <3>1. PICK s \in Sessions, l \in Lines \union {None}, place \in {"head", "record", "pending"} :
                /\ Start(h, s, l, place)
                /\ pc'[h] = place /\ job'[h].session = s /\ job'[h].line = l
                /\ due'[h] = {c \in DOMAIN maker : maker[c] \in Fresh(s) /\ c \in Work(maker[c])}
      BY <2>3
    <3>2. ASSUME NEW c \in due'[h]
          PROVE  Owed(c, maker[c], job[h].session)' /\ Cared(h, c, maker[c])'
      <4>1. /\ c \in 1 .. Len(maker) /\ maker[c] \in Fresh(s) /\ c \in Work(maker[c])
        BY <1>1, <3>1 DEF Authored
      <4>2. Owed(c, maker[c], s)
        BY <4>1, WaitsBegun DEF Owed
      <4>3. UNCHANGED <<pending, idle>>
        BY <3>1 DEF Start, files
      <4>4. maker[c] \in Fresh(job[h].session)'
        BY <3>1, <4>1, <4>3 DEF Fresh
      <4>5. ASSUME NEW m, m = maker[c] PROVE Cared(h, c, m)'
        BY <3>1, <4>4, <4>5 DEF Cared, Awaits
      <4>6. QED
        BY <1>2, <3>1, <4>2, <4>5
    <3>3. QED
      BY <3>1, <3>2
  <2>4. QED
    BY <1>1, <1>3, <2>2, <2>3, IdleStep
<1>4. CASE pc[h] # "idle" /\ pc'[h] = "idle"
  <2>1. Acts(h)
    BY <1>1, <1>4, Aside DEF Same
  <2>2. Leave(h)
    BY <1>1, <1>4, <2>1 DEF Acts, ReadHead, ReadLog, Scan, ClaimOwn, Forget, Unpend, Keep, Pend,
          ReadPending, Late, ClaimLate, Store, Kill, Goto, IInv, Placed
  <2>3. due'[h] = {}
    BY <1>1, <2>2 DEF Leave, Ended, Tallied
  <2>4. QED
    BY <2>3
<1>5. CASE pc[h] # "idle" /\ pc'[h] # "idle"
  <2>1. ASSUME NEW c, NEW m, Owed(c, m, job[h].session), Cared(h, c, m)
        PROVE  job'[h] = job[h] /\ due'[h] = due[h] /\ Cared(h, c, m)'
    <3>1. CASE Acts(h)
      BY <1>5, <2>1, <3>1, CaredOwn
    <3>2. CASE ~Acts(h)
      BY <1>1, <1>5, <2>1, <3>2, CaredAside, Aside DEF Same
    <3>3. QED
      BY <3>1, <3>2
  <2>2. job'[h] = job[h] /\ due'[h] = due[h]
    <3>1. CASE ~Acts(h)
      BY <1>1, <1>5, <3>1, Aside DEF Same
    <3>2. CASE Acts(h)
      BY <1>1, <1>5, <3>2 DEF Acts, ReadHead, ReadLog, Scan, ClaimOwn, Forget, Unpend, Keep, Pend,
          ReadPending, Late, ClaimLate, Store, Kill, Leave, Ended, history, IInv, Placed
    <3>3. QED
      BY <3>1, <3>2
  <2>3. ASSUME NEW c \in due'[h]
        PROVE  Owed(c, maker[c], job[h].session)' /\ Cared(h, c, maker[c])'
    <3>1. Owed(c, maker[c], job[h].session) /\ Cared(h, c, maker[c])
      BY <2>2, <2>3 DEF Cares
    <3>2. ASSUME NEW m, m = maker[c] PROVE Cared(h, c, m)'
      BY <2>1, <3>1, <3>2
    <3>3. QED
      BY <1>2, <2>2, <3>1, <3>2
  <2>4. QED
    BY <1>5, <2>3
<1>6. QED
    BY <1>3, <1>4, <1>5

PInv == GInv /\ (kills = 0 => Untouched /\ Looks /\ Cares)

LEMMA PInvTaken == PInv => PendingIsTaken
<1> SUFFICES ASSUME PInv, kills = 0, NEW h \in Hooks, Reviewed(h), NEW c \in due[h]
             PROVE  \/ taken[c] # {} \/ Orphaned(c)
                    \/ fate[maker[c]] = "forgotten" /\ Unreached(job[h].line, c)
    BY DEF PendingIsTaken
<1>1. Cared(h, c, maker[c])
    BY DEF PInv, Cares
<1>2. QED
    BY <1>1 DEF Cared, Found, Awaits, Drops, Reviewed

\* What waits when a hook starts is reviewed by that hook, with one tool call
\* of a session in flight and no hook killed: taken with its own record or, if
\* a line in the foreground landed, with that line's, unless it was made since
\* and is out of that line's reach, when it is forgotten.
THEOREM PendingTaken == Parallel = FALSE => (Spec => []PendingIsTaken)
<1> SUFFICES ASSUME Parallel = FALSE PROVE Spec => []PendingIsTaken
    OBVIOUS
<1>1. Init => PInv
  <2> SUFFICES ASSUME Init PROVE PInv
      OBVIOUS
  <2>1. GInv
      BY GInvHolds
  <2>2. Untouched
      BY DEF Init, Untouched
  <2>3. Looks
      BY DEF Init, Looks, NoJob
  <2>4. Cares
      BY DEF Init, Cares
  <2>5. QED
      BY <2>1, <2>2, <2>3, <2>4 DEF PInv
<1>2. PInv /\ [Next]_vars => PInv'
  <2> SUFFICES ASSUME PInv, [Next]_vars PROVE PInv'
      OBVIOUS
  <2>1. GInv /\ GInv'
      BY GInvHolds DEF PInv
  <2>2. kills' = 0 => kills = 0
      BY <2>1, GHas, TalliedNext
  <2>3. KInv /\ Turns /\ Parked
      BY <2>1, GHas
  <2>4. ASSUME kills' = 0 PROVE Untouched' /\ Looks' /\ Cares'
      BY <2>1, <2>2, <2>3, <2>4, UntouchedNext, LooksNext, CaresNext DEF PInv
  <2>5. QED
      BY <2>1, <2>4 DEF PInv
<1>3. QED
    BY <1>1, <1>2, PInvTaken, PTL DEF Spec
=============================================================================
