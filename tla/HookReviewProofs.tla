-------------------------- MODULE HookReviewProofs --------------------------
(***************************************************************************)
(* What HookReview promises for any sessions, any number of hooks at once, *)
(* any MAX_ATTEMPTS, and hooks killed anywhere.  The gate opens because    *)
(* the record marker is written before a denial is printed and read before *)
(* anything else: no other marker, and so no other hook, can undo it.      *)
(***************************************************************************)
EXTENDS HookReview, TLAPS

\* Where a hook is says what it holds.
Placed ==
    \A h \in Hooks :
        /\ pc[h] # "idle" => slot[h] \in Slots /\ event[h] \in Events
        /\ said[h] # None => pc[h] = "print"
        /\ pc[h] \in {"deliver", "settle", "record"} => found[h] \in Answers
        /\ pc[h] = "remind" => known[h] \in Complete

\* An attempt is only claimed below the bound.
Bounded == \A h \in Hooks : pc[h] = "claim" => attempt[h] < MaxAttempts

\* A printed denial stands on its record, and so does one about to be.
Backed  == \A s \in Slots : denied[s] => rec[s]
Denying == \A h \in Hooks : said[h] = "deny" => rec[slot[h]] /\ event[h] = "gated"

\* A gated hook that came after one goes no further than reading it.
Passing ==
    \A h \in Hooks : barred[h] =>
        /\ pc[h] # "idle" /\ rec[slot[h]]
        /\ event[h] = "gated" => /\ pc[h] \in {"own", "manual", "answer", "print"}
                                 /\ said[h] # "deny"

Answered == LandedIsAnswered

\* While a manual run excuses a hook, its marker is there to be read; past
\* that reading the hook holds a partial answer of its own.
Excused ==
    \A h \in Hooks : excused[h] =>
        /\ Reviewed
        /\ pc[h] = "answer" => known[h] # "none"
        /\ pc[h] \in {"count", "claim", "review", "deliver", "settle", "record"}
              => known[h] = "partial"

IInv == TypeOK /\ Placed /\ Bounded /\ Backed /\ Denying /\ Passing
            /\ Answered /\ Excused /\ ManualReviewCounts

LEMMA SlotKinds == Manual \in Slots /\ Sessions \subseteq Slots
BY DEF Slots

LEMMA InvInit == Init => IInv
<1> SUFFICES ASSUME Init PROVE IInv
    OBVIOUS
<1> USE Constants, SlotKinds DEF Init, Events, Before, AtPre, Recorded, Complete, Answers, Quiet, Outcomes
<1>1. TypeOK
  <2>1. /\ tries \in [Slots -> 0 .. MaxAttempts]
        /\ attempt \in [Hooks -> 0 .. MaxAttempts]
        /\ calls \in 0 .. MaxCalls /\ kills \in 0 .. MaxKills
        /\ begun \in [Slots -> Nat]
    OBVIOUS
  <2>2. /\ rec \in [Slots -> BOOLEAN] /\ denied \in [Slots -> BOOLEAN]
        /\ aged \in BOOLEAN /\ barred \in [Hooks -> BOOLEAN]
        /\ excused \in [Hooks -> BOOLEAN] /\ lent \in [Hooks -> BOOLEAN]
    OBVIOUS
  <2>3. QED
    BY <2>1, <2>2 DEF TypeOK
<1>2. Placed
    BY DEF Placed
<1>3. Bounded
    BY DEF Bounded
<1>4. Backed
    BY DEF Backed
<1>5. Denying
    BY DEF Denying
<1>6. Passing
    BY DEF Passing
<1>7. Answered
    BY DEF Answered, LandedIsAnswered
<1>8. Excused
    BY DEF Excused
<1>9. ManualReviewCounts
    BY DEF ManualReviewCounts
<1>10. QED
    BY <1>1, <1>2, <1>3, <1>4, <1>5, <1>6, <1>7, <1>8, <1>9 DEF IInv

LEMMA TypeNext == IInv /\ [Next]_vars => TypeOK'
<1> SUFFICES ASSUME IInv, [Next]_vars PROVE TypeOK'
    OBVIOUS
<1> USE Constants, SlotKinds
    DEF IInv, TypeOK, Placed, Events, Before, AtPre, Recorded, Complete, Answers, Quiet, Outcomes, markers, hook, counts, history, Bounded
<1>1. ASSUME NEW h \in Hooks, Invoke(h) PROVE TypeOK'
    BY <1>1 DEF Invoke, Reviewed
<1>2. ASSUME NEW h \in Hooks, ReadOwn(h) PROVE TypeOK'
    BY <1>2 DEF ReadOwn, Know
<1>3. ASSUME NEW h \in Hooks, ReadManual(h) PROVE TypeOK'
    BY <1>3 DEF ReadManual, Know, Reviewed
<1>4. ASSUME NEW h \in Hooks, Answer(h) PROVE TypeOK'
    BY <1>4 DEF Answer, Say, Goto, OnRecord, Recall, Remarks
<1>5. ASSUME NEW h \in Hooks, Remind(h) PROVE TypeOK'
    BY <1>5 DEF Remind, Say, Recall
<1>6. ASSUME NEW h \in Hooks, Count(h) PROVE TypeOK'
    BY <1>6 DEF Count, Say, Goto
<1>7. ASSUME NEW h \in Hooks, Claim(h) PROVE TypeOK'
    BY <1>7 DEF Claim, Goto
<1>8. ASSUME NEW h \in Hooks, Review(h) PROVE TypeOK'
    BY <1>8 DEF Review, Say, Goto
<1>9. ASSUME NEW h \in Hooks, Deliver(h) PROVE TypeOK'
    BY <1>9 DEF Deliver, Mark, Goto
<1>10. ASSUME NEW h \in Hooks, Settle(h) PROVE TypeOK'
    BY <1>10 DEF Settle, Goto
<1>11. ASSUME NEW h \in Hooks, Record(h) PROVE TypeOK'
    BY <1>11 DEF Record, Say, Conclusion
<1>12. ASSUME NEW h \in Hooks, Tell(h) PROVE TypeOK'
    BY <1>12 DEF Tell, Learn, Tells, Blank
<1>13. ASSUME NEW h \in Hooks, Kill(h) PROVE TypeOK'
    BY <1>13 DEF Kill, Blank
<1>14. CASE ManualRun
    BY <1>14 DEF ManualRun, Mark, Learn
<1>15. CASE Age
    BY <1>15 DEF Age
<1>16. ASSUME NEW s \in Slots, ExpireShown(s) PROVE TypeOK'
    BY <1>16 DEF ExpireShown
<1>17. ASSUME NEW s \in Slots, ExpireRec(s) PROVE TypeOK'
    BY <1>17 DEF ExpireRec, Writing
<1>18. ASSUME NEW s \in Slots, ExpireTries(s) PROVE TypeOK'
    BY <1>18 DEF ExpireTries
<1>19. CASE UNCHANGED vars
    BY <1>19 DEF vars
<1>20. QED
    BY <1>1, <1>2, <1>3, <1>4, <1>5, <1>6, <1>7, <1>8, <1>9, <1>10,
       <1>11, <1>12, <1>13, <1>14, <1>15, <1>16, <1>17, <1>18, <1>19 DEF Next, Step

LEMMA PlacedNext == IInv /\ [Next]_vars => Placed'
<1> SUFFICES ASSUME IInv, [Next]_vars PROVE Placed'
    OBVIOUS
<1> USE Constants, SlotKinds
    DEF IInv, TypeOK, Placed, Events, Complete, Answers, markers, hook, counts, history
<1>1. ASSUME NEW h \in Hooks, Invoke(h) PROVE Placed'
    BY <1>1 DEF Invoke, Reviewed
<1>2. ASSUME NEW h \in Hooks, ReadOwn(h) PROVE Placed'
    BY <1>2 DEF ReadOwn, Know
<1>3. ASSUME NEW h \in Hooks, ReadManual(h) PROVE Placed'
    BY <1>3 DEF ReadManual, Know, Reviewed
<1>4. ASSUME NEW h \in Hooks, Answer(h) PROVE Placed'
    BY <1>4 DEF Answer, Say, Goto, OnRecord, Recall, Remarks
<1>5. ASSUME NEW h \in Hooks, Remind(h) PROVE Placed'
    BY <1>5 DEF Remind, Say, Recall
<1>6. ASSUME NEW h \in Hooks, Count(h) PROVE Placed'
    BY <1>6 DEF Count, Say, Goto
<1>7. ASSUME NEW h \in Hooks, Claim(h) PROVE Placed'
    BY <1>7 DEF Claim, Goto
<1>8. ASSUME NEW h \in Hooks, Review(h) PROVE Placed'
    BY <1>8 DEF Review, Say, Goto
<1>9. ASSUME NEW h \in Hooks, Deliver(h) PROVE Placed'
    BY <1>9 DEF Deliver, Mark, Goto
<1>10. ASSUME NEW h \in Hooks, Settle(h) PROVE Placed'
    BY <1>10 DEF Settle, Goto
<1>11. ASSUME NEW h \in Hooks, Record(h) PROVE Placed'
    BY <1>11 DEF Record, Say, Conclusion
<1>12. ASSUME NEW h \in Hooks, Tell(h) PROVE Placed'
    BY <1>12 DEF Tell, Learn, Tells, Blank
<1>13. ASSUME NEW h \in Hooks, Kill(h) PROVE Placed'
    BY <1>13 DEF Kill, Blank
<1>14. CASE ManualRun
    BY <1>14 DEF ManualRun, Mark, Learn
<1>15. CASE Age
    BY <1>15 DEF Age
<1>16. ASSUME NEW s \in Slots, ExpireShown(s) PROVE Placed'
    BY <1>16 DEF ExpireShown
<1>17. ASSUME NEW s \in Slots, ExpireRec(s) PROVE Placed'
    BY <1>17 DEF ExpireRec, Writing
<1>18. ASSUME NEW s \in Slots, ExpireTries(s) PROVE Placed'
    BY <1>18 DEF ExpireTries
<1>19. CASE UNCHANGED vars
    BY <1>19 DEF vars
<1>20. QED
    BY <1>1, <1>2, <1>3, <1>4, <1>5, <1>6, <1>7, <1>8, <1>9, <1>10,
       <1>11, <1>12, <1>13, <1>14, <1>15, <1>16, <1>17, <1>18, <1>19 DEF Next, Step

LEMMA BoundedNext == IInv /\ [Next]_vars => Bounded'
<1> SUFFICES ASSUME IInv, [Next]_vars PROVE Bounded'
    OBVIOUS
<1> USE Constants, SlotKinds
    DEF IInv, TypeOK, Placed, markers, hook, counts, history, Bounded
<1>1. ASSUME NEW h \in Hooks, Invoke(h) PROVE Bounded'
    BY <1>1 DEF Invoke, Reviewed
<1>2. ASSUME NEW h \in Hooks, ReadOwn(h) PROVE Bounded'
    BY <1>2 DEF ReadOwn, Know
<1>3. ASSUME NEW h \in Hooks, ReadManual(h) PROVE Bounded'
    BY <1>3 DEF ReadManual, Know, Reviewed
<1>4. ASSUME NEW h \in Hooks, Answer(h) PROVE Bounded'
    BY <1>4 DEF Answer, Say, Goto, OnRecord, Recall, Remarks
<1>5. ASSUME NEW h \in Hooks, Remind(h) PROVE Bounded'
    BY <1>5 DEF Remind, Say, Recall
<1>6. ASSUME NEW h \in Hooks, Count(h) PROVE Bounded'
    BY <1>6 DEF Count, Say, Goto
<1>7. ASSUME NEW h \in Hooks, Claim(h) PROVE Bounded'
    BY <1>7 DEF Claim, Goto
<1>8. ASSUME NEW h \in Hooks, Review(h) PROVE Bounded'
    BY <1>8 DEF Review, Say, Goto
<1>9. ASSUME NEW h \in Hooks, Deliver(h) PROVE Bounded'
    BY <1>9 DEF Deliver, Mark, Goto
<1>10. ASSUME NEW h \in Hooks, Settle(h) PROVE Bounded'
    BY <1>10 DEF Settle, Goto
<1>11. ASSUME NEW h \in Hooks, Record(h) PROVE Bounded'
    BY <1>11 DEF Record, Say, Conclusion
<1>12. ASSUME NEW h \in Hooks, Tell(h) PROVE Bounded'
    BY <1>12 DEF Tell, Learn, Tells, Blank
<1>13. ASSUME NEW h \in Hooks, Kill(h) PROVE Bounded'
    BY <1>13 DEF Kill, Blank
<1>14. CASE ManualRun
    BY <1>14 DEF ManualRun, Mark, Learn
<1>15. CASE Age
    BY <1>15 DEF Age
<1>16. ASSUME NEW s \in Slots, ExpireShown(s) PROVE Bounded'
    BY <1>16 DEF ExpireShown
<1>17. ASSUME NEW s \in Slots, ExpireRec(s) PROVE Bounded'
    BY <1>17 DEF ExpireRec, Writing
<1>18. ASSUME NEW s \in Slots, ExpireTries(s) PROVE Bounded'
    BY <1>18 DEF ExpireTries
<1>19. CASE UNCHANGED vars
    BY <1>19 DEF vars
<1>20. QED
    BY <1>1, <1>2, <1>3, <1>4, <1>5, <1>6, <1>7, <1>8, <1>9, <1>10,
       <1>11, <1>12, <1>13, <1>14, <1>15, <1>16, <1>17, <1>18, <1>19 DEF Next, Step

LEMMA BackedNext == IInv /\ [Next]_vars => Backed'
<1> SUFFICES ASSUME IInv, [Next]_vars PROVE Backed'
    OBVIOUS
<1> USE Constants, SlotKinds
    DEF IInv, TypeOK, Placed, markers, hook, counts, history, Backed, Denying
<1>1. ASSUME NEW h \in Hooks, Invoke(h) PROVE Backed'
    BY <1>1 DEF Invoke, Reviewed
<1>2. ASSUME NEW h \in Hooks, ReadOwn(h) PROVE Backed'
    BY <1>2 DEF ReadOwn, Know
<1>3. ASSUME NEW h \in Hooks, ReadManual(h) PROVE Backed'
    BY <1>3 DEF ReadManual, Know, Reviewed
<1>4. ASSUME NEW h \in Hooks, Answer(h) PROVE Backed'
    BY <1>4 DEF Answer, Say, Goto, OnRecord, Recall, Remarks
<1>5. ASSUME NEW h \in Hooks, Remind(h) PROVE Backed'
    BY <1>5 DEF Remind, Say, Recall
<1>6. ASSUME NEW h \in Hooks, Count(h) PROVE Backed'
    BY <1>6 DEF Count, Say, Goto
<1>7. ASSUME NEW h \in Hooks, Claim(h) PROVE Backed'
    BY <1>7 DEF Claim, Goto
<1>8. ASSUME NEW h \in Hooks, Review(h) PROVE Backed'
    BY <1>8 DEF Review, Say, Goto
<1>9. ASSUME NEW h \in Hooks, Deliver(h) PROVE Backed'
    BY <1>9 DEF Deliver, Mark, Goto
<1>10. ASSUME NEW h \in Hooks, Settle(h) PROVE Backed'
    BY <1>10 DEF Settle, Goto
<1>11. ASSUME NEW h \in Hooks, Record(h) PROVE Backed'
    BY <1>11 DEF Record, Say, Conclusion
<1>12. ASSUME NEW h \in Hooks, Tell(h) PROVE Backed'
    BY <1>12 DEF Tell, Learn, Tells, Blank
<1>13. ASSUME NEW h \in Hooks, Kill(h) PROVE Backed'
    BY <1>13 DEF Kill, Blank
<1>14. CASE ManualRun
    BY <1>14 DEF ManualRun, Mark, Learn
<1>15. CASE Age
    BY <1>15 DEF Age
<1>16. ASSUME NEW s \in Slots, ExpireShown(s) PROVE Backed'
    BY <1>16 DEF ExpireShown
<1>17. ASSUME NEW s \in Slots, ExpireRec(s) PROVE Backed'
    BY <1>17 DEF ExpireRec, Writing
<1>18. ASSUME NEW s \in Slots, ExpireTries(s) PROVE Backed'
    BY <1>18 DEF ExpireTries
<1>19. CASE UNCHANGED vars
    BY <1>19 DEF vars
<1>20. QED
    BY <1>1, <1>2, <1>3, <1>4, <1>5, <1>6, <1>7, <1>8, <1>9, <1>10,
       <1>11, <1>12, <1>13, <1>14, <1>15, <1>16, <1>17, <1>18, <1>19 DEF Next, Step

LEMMA DenyingNext == IInv /\ [Next]_vars => Denying'
<1> SUFFICES ASSUME IInv, [Next]_vars PROVE Denying'
    OBVIOUS
<1> USE Constants, SlotKinds
    DEF IInv, TypeOK, Placed, Before, AtPre, Recorded, Complete, Answers, Quiet, Outcomes, markers, hook, counts, history, Denying
<1>1. ASSUME NEW h \in Hooks, Invoke(h) PROVE Denying'
    BY <1>1 DEF Invoke, Reviewed
<1>2. ASSUME NEW h \in Hooks, ReadOwn(h) PROVE Denying'
    BY <1>2 DEF ReadOwn, Know
<1>3. ASSUME NEW h \in Hooks, ReadManual(h) PROVE Denying'
    BY <1>3 DEF ReadManual, Know, Reviewed
<1>4. ASSUME NEW h \in Hooks, Answer(h) PROVE Denying'
    BY <1>4 DEF Answer, Say, Goto, OnRecord, Recall, Remarks
<1>5. ASSUME NEW h \in Hooks, Remind(h) PROVE Denying'
    BY <1>5 DEF Remind, Say, Recall
<1>6. ASSUME NEW h \in Hooks, Count(h) PROVE Denying'
    BY <1>6 DEF Count, Say, Goto
<1>7. ASSUME NEW h \in Hooks, Claim(h) PROVE Denying'
    BY <1>7 DEF Claim, Goto
<1>8. ASSUME NEW h \in Hooks, Review(h) PROVE Denying'
    BY <1>8 DEF Review, Say, Goto
<1>9. ASSUME NEW h \in Hooks, Deliver(h) PROVE Denying'
    BY <1>9 DEF Deliver, Mark, Goto
<1>10. ASSUME NEW h \in Hooks, Settle(h) PROVE Denying'
    BY <1>10 DEF Settle, Goto
<1>11. ASSUME NEW h \in Hooks, Record(h) PROVE Denying'
    BY <1>11 DEF Record, Say, Conclusion
<1>12. ASSUME NEW h \in Hooks, Tell(h) PROVE Denying'
    BY <1>12 DEF Tell, Learn, Tells, Blank
<1>13. ASSUME NEW h \in Hooks, Kill(h) PROVE Denying'
    BY <1>13 DEF Kill, Blank
<1>14. CASE ManualRun
    BY <1>14 DEF ManualRun, Mark, Learn
<1>15. CASE Age
    BY <1>15 DEF Age
<1>16. ASSUME NEW s \in Slots, ExpireShown(s) PROVE Denying'
    BY <1>16 DEF ExpireShown
<1>17. ASSUME NEW s \in Slots, ExpireRec(s) PROVE Denying'
    BY <1>17 DEF ExpireRec, Writing
<1>18. ASSUME NEW s \in Slots, ExpireTries(s) PROVE Denying'
    BY <1>18 DEF ExpireTries
<1>19. CASE UNCHANGED vars
    BY <1>19 DEF vars
<1>20. QED
    BY <1>1, <1>2, <1>3, <1>4, <1>5, <1>6, <1>7, <1>8, <1>9, <1>10,
       <1>11, <1>12, <1>13, <1>14, <1>15, <1>16, <1>17, <1>18, <1>19 DEF Next, Step

LEMMA PassingNext == IInv /\ [Next]_vars => Passing'
<1> SUFFICES ASSUME IInv, [Next]_vars PROVE Passing'
    OBVIOUS
<1> USE Constants, SlotKinds
    DEF IInv, TypeOK, Placed, Events, Before, AtPre, Recorded, Quiet, Outcomes, markers, hook, counts, history, Backed, Passing
<1>1. ASSUME NEW h \in Hooks, Invoke(h) PROVE Passing'
    BY <1>1 DEF Invoke, Reviewed
<1>2. ASSUME NEW h \in Hooks, ReadOwn(h) PROVE Passing'
    BY <1>2 DEF ReadOwn, Know
<1>3. ASSUME NEW h \in Hooks, ReadManual(h) PROVE Passing'
    BY <1>3 DEF ReadManual, Know, Reviewed
<1>4. ASSUME NEW h \in Hooks, Answer(h) PROVE Passing'
    BY <1>4 DEF Answer, Say, Goto, OnRecord, Recall, Remarks
<1>5. ASSUME NEW h \in Hooks, Remind(h) PROVE Passing'
    BY <1>5 DEF Remind, Say, Recall
<1>6. ASSUME NEW h \in Hooks, Count(h) PROVE Passing'
    BY <1>6 DEF Count, Say, Goto
<1>7. ASSUME NEW h \in Hooks, Claim(h) PROVE Passing'
    BY <1>7 DEF Claim, Goto
<1>8. ASSUME NEW h \in Hooks, Review(h) PROVE Passing'
    BY <1>8 DEF Review, Say, Goto
<1>9. ASSUME NEW h \in Hooks, Deliver(h) PROVE Passing'
    BY <1>9 DEF Deliver, Mark, Goto
<1>10. ASSUME NEW h \in Hooks, Settle(h) PROVE Passing'
    BY <1>10 DEF Settle, Goto
<1>11. ASSUME NEW h \in Hooks, Record(h) PROVE Passing'
    BY <1>11 DEF Record, Say, Conclusion
<1>12. ASSUME NEW h \in Hooks, Tell(h) PROVE Passing'
    BY <1>12 DEF Tell, Learn, Tells, Blank
<1>13. ASSUME NEW h \in Hooks, Kill(h) PROVE Passing'
    BY <1>13 DEF Kill, Blank
<1>14. CASE ManualRun
    BY <1>14 DEF ManualRun, Mark, Learn
<1>15. CASE Age
    BY <1>15 DEF Age
<1>16. ASSUME NEW s \in Slots, ExpireShown(s) PROVE Passing'
    BY <1>16 DEF ExpireShown
<1>17. ASSUME NEW s \in Slots, ExpireRec(s) PROVE Passing'
    BY <1>17 DEF ExpireRec, Writing
<1>18. ASSUME NEW s \in Slots, ExpireTries(s) PROVE Passing'
    BY <1>18 DEF ExpireTries
<1>19. CASE UNCHANGED vars
    BY <1>19 DEF vars
<1>20. QED
    BY <1>1, <1>2, <1>3, <1>4, <1>5, <1>6, <1>7, <1>8, <1>9, <1>10,
       <1>11, <1>12, <1>13, <1>14, <1>15, <1>16, <1>17, <1>18, <1>19 DEF Next, Step

LEMMA AnsweredNext == IInv /\ [Next]_vars => Answered'
<1> SUFFICES ASSUME IInv, [Next]_vars PROVE Answered'
    OBVIOUS
<1> USE Constants, SlotKinds
    DEF IInv, TypeOK, Placed, Events, Before, AtPre, Recorded, Complete, Answers, Quiet, Outcomes, markers, hook, counts, history, Answered, LandedIsAnswered
<1>1. ASSUME NEW h \in Hooks, Invoke(h) PROVE Answered'
    BY <1>1 DEF Invoke, Reviewed
<1>2. ASSUME NEW h \in Hooks, ReadOwn(h) PROVE Answered'
    BY <1>2 DEF ReadOwn, Know
<1>3. ASSUME NEW h \in Hooks, ReadManual(h) PROVE Answered'
    BY <1>3 DEF ReadManual, Know, Reviewed
<1>4. ASSUME NEW h \in Hooks, Answer(h) PROVE Answered'
    BY <1>4 DEF Answer, Say, Goto, OnRecord, Recall, Remarks
<1>5. ASSUME NEW h \in Hooks, Remind(h) PROVE Answered'
    BY <1>5 DEF Remind, Say, Recall
<1>6. ASSUME NEW h \in Hooks, Count(h) PROVE Answered'
    BY <1>6 DEF Count, Say, Goto
<1>7. ASSUME NEW h \in Hooks, Claim(h) PROVE Answered'
    BY <1>7 DEF Claim, Goto
<1>8. ASSUME NEW h \in Hooks, Review(h) PROVE Answered'
    BY <1>8 DEF Review, Say, Goto
<1>9. ASSUME NEW h \in Hooks, Deliver(h) PROVE Answered'
    BY <1>9 DEF Deliver, Mark, Goto
<1>10. ASSUME NEW h \in Hooks, Settle(h) PROVE Answered'
    BY <1>10 DEF Settle, Goto
<1>11. ASSUME NEW h \in Hooks, Record(h) PROVE Answered'
    BY <1>11 DEF Record, Say, Conclusion
<1>12. ASSUME NEW h \in Hooks, Tell(h) PROVE Answered'
    BY <1>12 DEF Tell, Learn, Tells, Blank
<1>13. ASSUME NEW h \in Hooks, Kill(h) PROVE Answered'
    BY <1>13 DEF Kill, Blank
<1>14. CASE ManualRun
    BY <1>14 DEF ManualRun, Mark, Learn
<1>15. CASE Age
    BY <1>15 DEF Age
<1>16. ASSUME NEW s \in Slots, ExpireShown(s) PROVE Answered'
    BY <1>16 DEF ExpireShown
<1>17. ASSUME NEW s \in Slots, ExpireRec(s) PROVE Answered'
    BY <1>17 DEF ExpireRec, Writing
<1>18. ASSUME NEW s \in Slots, ExpireTries(s) PROVE Answered'
    BY <1>18 DEF ExpireTries
<1>19. CASE UNCHANGED vars
    BY <1>19 DEF vars
<1>20. QED
    BY <1>1, <1>2, <1>3, <1>4, <1>5, <1>6, <1>7, <1>8, <1>9, <1>10,
       <1>11, <1>12, <1>13, <1>14, <1>15, <1>16, <1>17, <1>18, <1>19 DEF Next, Step

LEMMA ExcusedNext == IInv /\ [Next]_vars => Excused'
<1> SUFFICES ASSUME IInv, [Next]_vars PROVE Excused'
    OBVIOUS
<1> USE Constants, SlotKinds
    DEF IInv, TypeOK, Placed, Complete, Answers, markers, hook, counts, history, Excused, Reviewed
<1>1. ASSUME NEW h \in Hooks, Invoke(h) PROVE Excused'
    BY <1>1 DEF Invoke, Reviewed
<1>2. ASSUME NEW h \in Hooks, ReadOwn(h) PROVE Excused'
    BY <1>2 DEF ReadOwn, Know
<1>3. ASSUME NEW h \in Hooks, ReadManual(h) PROVE Excused'
    BY <1>3 DEF ReadManual, Know, Reviewed
<1>4. ASSUME NEW h \in Hooks, Answer(h) PROVE Excused'
    BY <1>4 DEF Answer, Say, Goto, OnRecord, Recall, Remarks
<1>5. ASSUME NEW h \in Hooks, Remind(h) PROVE Excused'
    BY <1>5 DEF Remind, Say, Recall
<1>6. ASSUME NEW h \in Hooks, Count(h) PROVE Excused'
    BY <1>6 DEF Count, Say, Goto
<1>7. ASSUME NEW h \in Hooks, Claim(h) PROVE Excused'
    BY <1>7 DEF Claim, Goto
<1>8. ASSUME NEW h \in Hooks, Review(h) PROVE Excused'
    BY <1>8 DEF Review, Say, Goto
<1>9. ASSUME NEW h \in Hooks, Deliver(h) PROVE Excused'
    BY <1>9 DEF Deliver, Mark, Goto
<1>10. ASSUME NEW h \in Hooks, Settle(h) PROVE Excused'
    BY <1>10 DEF Settle, Goto
<1>11. ASSUME NEW h \in Hooks, Record(h) PROVE Excused'
    BY <1>11 DEF Record, Say, Conclusion
<1>12. ASSUME NEW h \in Hooks, Tell(h) PROVE Excused'
    BY <1>12 DEF Tell, Learn, Tells, Blank
<1>13. ASSUME NEW h \in Hooks, Kill(h) PROVE Excused'
    BY <1>13 DEF Kill, Blank
<1>14. CASE ManualRun
    BY <1>14 DEF ManualRun, Mark, Learn
<1>15. CASE Age
    BY <1>15 DEF Age
<1>16. ASSUME NEW s \in Slots, ExpireShown(s) PROVE Excused'
    BY <1>16 DEF ExpireShown
<1>17. ASSUME NEW s \in Slots, ExpireRec(s) PROVE Excused'
    BY <1>17 DEF ExpireRec, Writing
<1>18. ASSUME NEW s \in Slots, ExpireTries(s) PROVE Excused'
    BY <1>18 DEF ExpireTries
<1>19. CASE UNCHANGED vars
    BY <1>19 DEF vars
<1>20. QED
    BY <1>1, <1>2, <1>3, <1>4, <1>5, <1>6, <1>7, <1>8, <1>9, <1>10,
       <1>11, <1>12, <1>13, <1>14, <1>15, <1>16, <1>17, <1>18, <1>19 DEF Next, Step

LEMMA ManualNext == IInv /\ [Next]_vars => ManualReviewCounts'
<1> SUFFICES ASSUME IInv, [Next]_vars PROVE ManualReviewCounts'
    OBVIOUS
<1> USE Constants, SlotKinds
    DEF IInv, TypeOK, Placed, Complete, Answers, Quiet, Outcomes, markers, hook, counts, history, Excused, ManualReviewCounts
<1>1. ASSUME NEW h \in Hooks, Invoke(h) PROVE ManualReviewCounts'
    BY <1>1 DEF Invoke, Reviewed
<1>2. ASSUME NEW h \in Hooks, ReadOwn(h) PROVE ManualReviewCounts'
    BY <1>2 DEF ReadOwn, Know
<1>3. ASSUME NEW h \in Hooks, ReadManual(h) PROVE ManualReviewCounts'
    BY <1>3 DEF ReadManual, Know, Reviewed
<1>4. ASSUME NEW h \in Hooks, Answer(h) PROVE ManualReviewCounts'
    BY <1>4 DEF Answer, Say, Goto, OnRecord, Recall, Remarks
<1>5. ASSUME NEW h \in Hooks, Remind(h) PROVE ManualReviewCounts'
    BY <1>5 DEF Remind, Say, Recall
<1>6. ASSUME NEW h \in Hooks, Count(h) PROVE ManualReviewCounts'
    BY <1>6 DEF Count, Say, Goto
<1>7. ASSUME NEW h \in Hooks, Claim(h) PROVE ManualReviewCounts'
    BY <1>7 DEF Claim, Goto
<1>8. ASSUME NEW h \in Hooks, Review(h) PROVE ManualReviewCounts'
    BY <1>8 DEF Review, Say, Goto
<1>9. ASSUME NEW h \in Hooks, Deliver(h) PROVE ManualReviewCounts'
    BY <1>9 DEF Deliver, Mark, Goto
<1>10. ASSUME NEW h \in Hooks, Settle(h) PROVE ManualReviewCounts'
    BY <1>10 DEF Settle, Goto
<1>11. ASSUME NEW h \in Hooks, Record(h) PROVE ManualReviewCounts'
    BY <1>11 DEF Record, Say, Conclusion
<1>12. ASSUME NEW h \in Hooks, Tell(h) PROVE ManualReviewCounts'
    BY <1>12 DEF Tell, Learn, Tells, Blank
<1>13. ASSUME NEW h \in Hooks, Kill(h) PROVE ManualReviewCounts'
    BY <1>13 DEF Kill, Blank
<1>14. CASE ManualRun
    BY <1>14 DEF ManualRun, Mark, Learn
<1>15. CASE Age
    BY <1>15 DEF Age
<1>16. ASSUME NEW s \in Slots, ExpireShown(s) PROVE ManualReviewCounts'
    BY <1>16 DEF ExpireShown
<1>17. ASSUME NEW s \in Slots, ExpireRec(s) PROVE ManualReviewCounts'
    BY <1>17 DEF ExpireRec, Writing
<1>18. ASSUME NEW s \in Slots, ExpireTries(s) PROVE ManualReviewCounts'
    BY <1>18 DEF ExpireTries
<1>19. CASE UNCHANGED vars
    BY <1>19 DEF vars
<1>20. QED
    BY <1>1, <1>2, <1>3, <1>4, <1>5, <1>6, <1>7, <1>8, <1>9, <1>10,
       <1>11, <1>12, <1>13, <1>14, <1>15, <1>16, <1>17, <1>18, <1>19 DEF Next, Step

LEMMA Invariance == Spec => []IInv
<1>1. IInv /\ [Next]_vars => IInv'
    BY TypeNext, PlacedNext, BoundedNext, BackedNext, DenyingNext, PassingNext,
       AnsweredNext, ExcusedNext, ManualNext DEF IInv
<1>2. QED
    BY InvInit, <1>1, PTL DEF Spec

-----------------------------------------------------------------------------
\* The variables keep their types, and so the attempts on file never pass
\* MAX_ATTEMPTS, however many hooks write them.
THEOREM TypeCorrect == Spec => []TypeOK
<1>1. IInv => TypeOK
    BY DEF IInv
<1>2. QED
    BY Invariance, <1>1, PTL

\* A printed denial is the last of its session for as long as its record
\* lasts: the retry passes.
THEOREM GateOpensOnRetry == Spec => []GateOpens
<1>1. IInv => GateOpens
    BY Constants DEF IInv, GateOpens, Denying, Passing
<1>2. QED
    BY Invariance, <1>1, PTL

\* No hook that speaks for a landed record ends in silence, save before a
\* command in a session whose own marker of the change is there.
THEOREM LandedAnswered == Spec => []LandedIsAnswered
<1>1. IInv => LandedIsAnswered
    BY DEF IInv, Answered
<1>2. QED
    BY Invariance, <1>1, PTL

\* Only a partial answer of the session's own stands between a complete
\* manual run and the gate.
THEOREM ManualCounts == Spec => []ManualReviewCounts
<1>1. IInv => ManualReviewCounts
    BY DEF IInv
<1>2. QED
    BY Invariance, <1>1, PTL

-----------------------------------------------------------------------------
\* Every review begun is on file, if hooks do not overlap: a hook that has
\* read the attempts is then the only one that can add to them.
Paid ==
    /\ \A s \in Slots : begun[s] <= tries[s]
    /\ \A h \in Hooks : pc[h] = "claim" => tries[slot[h]] <= attempt[h]

Alone == \A h, k \in Hooks : h = k

LEMMA PaidNext == Alone /\ IInv /\ Paid /\ [Next]_vars => Paid'
<1> SUFFICES ASSUME Alone, IInv, Paid, [Next]_vars PROVE Paid'
    OBVIOUS
<1> USE Constants, SlotKinds
    DEF IInv, TypeOK, Placed, markers, hook, counts, history, Paid, Alone
<1>1. ASSUME NEW h \in Hooks, Invoke(h) PROVE Paid'
    BY <1>1 DEF Invoke, Reviewed
<1>2. ASSUME NEW h \in Hooks, ReadOwn(h) PROVE Paid'
    BY <1>2 DEF ReadOwn, Know
<1>3. ASSUME NEW h \in Hooks, ReadManual(h) PROVE Paid'
    BY <1>3 DEF ReadManual, Know, Reviewed
<1>4. ASSUME NEW h \in Hooks, Answer(h) PROVE Paid'
    BY <1>4 DEF Answer, Say, Goto, OnRecord, Recall, Remarks
<1>5. ASSUME NEW h \in Hooks, Remind(h) PROVE Paid'
    BY <1>5 DEF Remind, Say, Recall
<1>6. ASSUME NEW h \in Hooks, Count(h) PROVE Paid'
    BY <1>6 DEF Count, Say, Goto
<1>7. ASSUME NEW h \in Hooks, Claim(h) PROVE Paid'
    BY <1>7 DEF Claim, Goto
<1>8. ASSUME NEW h \in Hooks, Review(h) PROVE Paid'
    BY <1>8 DEF Review, Say, Goto
<1>9. ASSUME NEW h \in Hooks, Deliver(h) PROVE Paid'
    BY <1>9 DEF Deliver, Mark, Goto
<1>10. ASSUME NEW h \in Hooks, Settle(h) PROVE Paid'
    BY <1>10 DEF Settle, Goto
<1>11. ASSUME NEW h \in Hooks, Record(h) PROVE Paid'
    BY <1>11 DEF Record, Say, Conclusion
<1>12. ASSUME NEW h \in Hooks, Tell(h) PROVE Paid'
    BY <1>12 DEF Tell, Learn, Tells, Blank
<1>13. ASSUME NEW h \in Hooks, Kill(h) PROVE Paid'
    BY <1>13 DEF Kill, Blank
<1>14. CASE ManualRun
    BY <1>14 DEF ManualRun, Mark, Learn
<1>15. CASE Age
    BY <1>15 DEF Age
<1>16. ASSUME NEW s \in Slots, ExpireShown(s) PROVE Paid'
    BY <1>16 DEF ExpireShown
<1>17. ASSUME NEW s \in Slots, ExpireRec(s) PROVE Paid'
    BY <1>17 DEF ExpireRec, Writing
<1>18. ASSUME NEW s \in Slots, ExpireTries(s) PROVE Paid'
    BY <1>18 DEF ExpireTries
<1>19. CASE UNCHANGED vars
    BY <1>19 DEF vars
<1>20. QED
    BY <1>1, <1>2, <1>3, <1>4, <1>5, <1>6, <1>7, <1>8, <1>9, <1>10,
       <1>11, <1>12, <1>13, <1>14, <1>15, <1>16, <1>17, <1>18, <1>19 DEF Next, Step

\* Hooks that do not overlap review one change at most MAX_ATTEMPTS times
\* before one of the reviews completes, killed ones included.
THEOREM Attempts == Alone => (Spec => []AttemptsBounded)
<1> SUFFICES ASSUME Alone PROVE Spec => []AttemptsBounded
    OBVIOUS
<1>1. Init => Paid
    BY Constants DEF Init, Paid
<1>2. IInv /\ Paid /\ [Next]_vars => Paid'
    BY PaidNext
<1>3. IInv /\ Paid => AttemptsBounded
    BY Constants DEF IInv, TypeOK, Paid, AttemptsBounded
<1>4. QED
    BY Invariance, <1>1, <1>2, <1>3, PTL DEF Spec
-----------------------------------------------------------------------------
(* Silence.  What makes a hook quiet was found in a marker some steps       *)
(* before; behind the marker stands an answer its session was told, or a   *)
(* hook that has the answer and is on its way to print it.                  *)

\* Hooks that will have told their slot all, or a part, once they print.
Whole(k) == \/ pc[k] = "print" /\ known[k] \in Complete
            \/ pc[k] \in {"settle", "record", "print"} /\ found[k] \in Complete
Half(k) == pc[k] = "print" /\ found[k] = "partial"

ToldAll(s)  == told[s] = "all" \/ \E k \in Hooks : slot[k] = s /\ Whole(k)
ToldSome(s) == ToldAll(s) \/ told[s] = "part" \/ \E k \in Hooks : slot[k] = s /\ Half(k)

Vouched(h) ==
    told[slot[h]] = "all" \/ \E k \in Hooks \ {h} : slot[k] = slot[h] /\ Whole(k)

Earned ==
    /\ \A s \in Slots : shown[s] \in Complete => ToldAll(s)
    /\ \A s \in Slots : rec[s] => ToldSome(s)
    /\ \A h \in Hooks : known[h] \in Complete => pc[h] # "idle" /\ (lent[h] \/ Vouched(h))
    /\ \A h \in Hooks : found[h] # None => pc[h] \in {"deliver", "settle", "record", "print"}
    /\ \A h \in Hooks : pc[h] = "print" /\ found[h] = "partial" => said[h] = "review"

\* Nothing but its own output, or a kill, takes from a hook what it will tell.
Keeps ==
    /\ \A s \in Slots : told[s] = "all" => told'[s] = "all"
    /\ \A s \in Slots : told[s] = "part" => told'[s] \in {"part", "all"}
    /\ \A k \in Hooks : Whole(k) => \/ Whole(k)' /\ slot'[k] = slot[k]
                                    \/ told'[slot[k]] = "all"
    /\ \A k \in Hooks : Half(k) => \/ Half(k)' /\ slot'[k] = slot[k]
                                   \/ told'[slot[k]] \in {"part", "all"}

LEMMA EarnedKeeps == MaxKills = 0 /\ IInv /\ Earned /\ [Next]_vars => Keeps
<1> SUFFICES ASSUME MaxKills = 0, IInv, Earned, [Next]_vars PROVE Keeps
    OBVIOUS
<1> USE Constants, SlotKinds
    DEF IInv, TypeOK, Placed, markers, hook, counts, history, Keeps, Whole, Half, Complete, Answers
<1>1. ASSUME NEW h \in Hooks, Invoke(h) PROVE Keeps
    BY <1>1 DEF Invoke, Reviewed
<1>2. ASSUME NEW h \in Hooks, ReadOwn(h) PROVE Keeps
    BY <1>2 DEF ReadOwn, Know
<1>3. ASSUME NEW h \in Hooks, ReadManual(h) PROVE Keeps
    BY <1>3 DEF ReadManual, Know, Reviewed
<1>4. ASSUME NEW h \in Hooks, Answer(h) PROVE Keeps
    BY <1>4 DEF Answer, Say, Goto, OnRecord, Recall, Remarks
<1>5. ASSUME NEW h \in Hooks, Remind(h) PROVE Keeps
    BY <1>5 DEF Remind, Say, Recall
<1>6. ASSUME NEW h \in Hooks, Count(h) PROVE Keeps
    BY <1>6 DEF Count, Say, Goto
<1>7. ASSUME NEW h \in Hooks, Claim(h) PROVE Keeps
    BY <1>7 DEF Claim, Goto
<1>8. ASSUME NEW h \in Hooks, Review(h) PROVE Keeps
    BY <1>8 DEF Review, Say, Goto
<1>9. ASSUME NEW h \in Hooks, Deliver(h) PROVE Keeps
    BY <1>9 DEF Deliver, Mark, Goto
<1>10. ASSUME NEW h \in Hooks, Settle(h) PROVE Keeps
    BY <1>10 DEF Settle, Goto
<1>11. ASSUME NEW h \in Hooks, Record(h) PROVE Keeps
    BY <1>11 DEF Record, Say, Conclusion
<1>12. ASSUME NEW h \in Hooks, Tell(h) PROVE Keeps
  <2> DEFINE s == slot[h]
  <2>1. pc[h] = "print" /\ s \in Slots /\ pc' = [pc EXCEPT ![h] = "idle"]
        /\ slot' = [slot EXCEPT ![h] = None] /\ known' = [known EXCEPT ![h] = "none"]
        /\ found' = [found EXCEPT ![h] = None]
    BY <1>12 DEF Tell, Blank
  <2>2. told' = Learn(s, Tells(h))
    BY <1>12 DEF Tell
  <2>3. Tells(h) \in {"no", "part", "all"}
    BY DEF Tells
  <2>4. Whole(h) => Tells(h) = "all"
    BY <2>1 DEF Tells
  <2>5. Half(h) => Tells(h) \in {"part", "all"}
    BY DEF Tells, Earned
  <2>6. \A t \in Slots : /\ told[t] = "all" => told'[t] = "all"
                         /\ told[t] = "part" => told'[t] \in {"part", "all"}
    BY <2>1, <2>2, <2>3 DEF Learn
  <2>7. /\ Tells(h) = "all" => told'[s] = "all"
        /\ Tells(h) = "part" => told'[s] \in {"part", "all"}
    BY <2>1, <2>2 DEF Learn
  <2>8. \A k \in Hooks \ {h} : /\ Whole(k) => Whole(k)' /\ slot'[k] = slot[k]
                               /\ Half(k) => Half(k)' /\ slot'[k] = slot[k]
    BY <2>1
  <2>9. /\ Whole(h) => told'[s] = "all"
        /\ Half(h) => told'[s] \in {"part", "all"}
    BY <2>4, <2>5, <2>7
  <2> HIDE DEF s, Whole, Half
  <2>10. QED
    BY <2>6, <2>8, <2>9 DEF s
<1>13. ASSUME NEW h \in Hooks, Kill(h) PROVE Keeps
    BY <1>13 DEF Kill, Blank
<1>14. CASE ManualRun
    BY <1>14 DEF ManualRun, Mark, Learn
<1>15. CASE Age
    BY <1>15 DEF Age
<1>16. ASSUME NEW s \in Slots, ExpireShown(s) PROVE Keeps
    BY <1>16 DEF ExpireShown
<1>17. ASSUME NEW s \in Slots, ExpireRec(s) PROVE Keeps
    BY <1>17 DEF ExpireRec, Writing
<1>18. ASSUME NEW s \in Slots, ExpireTries(s) PROVE Keeps
    BY <1>18 DEF ExpireTries
<1>19. CASE UNCHANGED vars
    BY <1>19 DEF vars
<1>20. QED
    BY <1>1, <1>2, <1>3, <1>4, <1>5, <1>6, <1>7, <1>8, <1>9, <1>10,
       <1>11, <1>12, <1>13, <1>14, <1>15, <1>16, <1>17, <1>18, <1>19 DEF Next, Step
\* What stood behind a slot or a hook stands behind it after any step.
LEMMA StaysTold ==
    ASSUME Keeps, TypeOK
    PROVE  /\ \A s \in Slots : ToldAll(s) => ToldAll(s)'
           /\ \A s \in Slots : ToldSome(s) => ToldSome(s)'
           /\ \A h \in Hooks : slot[h] \in Slots /\ slot'[h] = slot[h] /\ Vouched(h) => Vouched(h)'
<1>1. \A s \in Slots : ToldAll(s) => ToldAll(s)'
    BY DEF Keeps, ToldAll
<1>2. ASSUME NEW s \in Slots, ToldSome(s) PROVE ToldSome(s)'
  <2>1. CASE ToldAll(s)
    BY <1>1, <2>1 DEF ToldSome
  <2>2. CASE told[s] = "part"
    BY <2>2 DEF Keeps, ToldSome, ToldAll
  <2>3. ASSUME NEW k \in Hooks, slot[k] = s, Half(k) PROVE ToldSome(s)'
    BY <2>3 DEF Keeps, ToldSome, ToldAll
  <2>4. QED
    BY <1>2, <2>1, <2>2, <2>3 DEF ToldSome
<1>3. ASSUME NEW h \in Hooks, slot[h] \in Slots, slot'[h] = slot[h], Vouched(h) PROVE Vouched(h)'
    BY <1>3 DEF Keeps, Vouched
<1>4. QED
    BY <1>1, <1>2, <1>3

LEMMA EarnedNext == MaxKills = 0 /\ IInv /\ Earned /\ [Next]_vars => Earned'
<1> SUFFICES ASSUME MaxKills = 0, IInv, Earned, [Next]_vars PROVE Earned'
    OBVIOUS
<1> USE Constants, SlotKinds
    DEF IInv, TypeOK, Placed, markers, hook, counts, history
<1>0. /\ \A s \in Slots : ToldAll(s) => ToldAll(s)'
      /\ \A s \in Slots : ToldSome(s) => ToldSome(s)'
      /\ \A h \in Hooks : slot[h] \in Slots /\ slot'[h] = slot[h] /\ Vouched(h) => Vouched(h)'
    BY EarnedKeeps, StaysTold
<1>a. \A h \in Hooks : pc[h] \notin {"print", "settle", "record"} /\ slot[h] \in Slots /\ ToldAll(slot[h]) => Vouched(h)
    BY DEF ToldAll, Vouched, Whole
<1> USE DEF Earned, Complete, Answers
<1> HIDE DEF ToldAll, ToldSome, Vouched
<1>1. ASSUME NEW h \in Hooks, Invoke(h) PROVE Earned'
    BY <1>0, <1>a, <1>1 DEF Invoke, Reviewed
<1>2. ASSUME NEW h \in Hooks, ReadOwn(h) PROVE Earned'
    BY <1>0, <1>a, <1>2 DEF ReadOwn, Know
<1>3. ASSUME NEW h \in Hooks, ReadManual(h) PROVE Earned'
  <2>1. known'[h] \in Complete => lent'[h]
    BY <1>3 DEF ReadManual, Know, Reviewed
  <2>2. /\ UNCHANGED <<shown, rec, slot, found, said>>
        /\ pc' = [pc EXCEPT ![h] = "answer"]
        /\ \A k \in Hooks \ {h} : known'[k] = known[k] /\ lent'[k] = lent[k]
    BY <1>3 DEF ReadManual, Know
  <2>3. QED
    BY <1>0, <1>3, <2>1, <2>2 DEF ReadManual
<1>4. ASSUME NEW h \in Hooks, Answer(h) PROVE Earned'
    BY <1>0, <1>a, <1>4 DEF Answer, Say, Goto, OnRecord, Recall, Remarks
<1>5. ASSUME NEW h \in Hooks, Remind(h) PROVE Earned'
  <2>1. ToldSome(slot[h])'
    BY <1>5 DEF Remind, Say, ToldSome, ToldAll, Whole
  <2>2. /\ UNCHANGED <<shown, slot, known, lent, found>>
        /\ rec' = [rec EXCEPT ![slot[h]] = TRUE] /\ pc' = [pc EXCEPT ![h] = "print"]
        /\ found[h] = None /\ \A k \in Hooks \ {h} : said'[k] = said[k]
        /\ slot[h] \in Slots
    BY <1>5 DEF Remind, Say
  <2>3. \A s \in Slots : rec'[s] => ToldSome(s)'
    BY <1>0, <2>1, <2>2
  <2>4. QED
    BY <1>0, <2>2, <2>3
<1>6. ASSUME NEW h \in Hooks, Count(h) PROVE Earned'
    BY <1>0, <1>a, <1>6 DEF Count, Say, Goto
<1>7. ASSUME NEW h \in Hooks, Claim(h) PROVE Earned'
    BY <1>0, <1>a, <1>7 DEF Claim, Goto
<1>8. ASSUME NEW h \in Hooks, Review(h) PROVE Earned'
    BY <1>0, <1>a, <1>8 DEF Review, Say, Goto
<1>9. ASSUME NEW h \in Hooks, Deliver(h) PROVE Earned'
    BY <1>0, <1>a, <1>9 DEF Deliver, Mark, Goto, ToldAll, Whole
<1>10. ASSUME NEW h \in Hooks, Settle(h) PROVE Earned'
    BY <1>0, <1>a, <1>10 DEF Settle, Goto
<1>11. ASSUME NEW h \in Hooks, Record(h) PROVE Earned'
    BY <1>0, <1>a, <1>11 DEF Record, Say, Conclusion, ToldSome, ToldAll, Whole, Half
<1>12. ASSUME NEW h \in Hooks, Tell(h) PROVE Earned'
    BY <1>0, <1>a, <1>12 DEF Tell, Learn, Tells, Blank
<1>13. ASSUME NEW h \in Hooks, Kill(h) PROVE Earned'
    BY <1>0, <1>a, <1>13 DEF Kill, Blank
<1>14. CASE ManualRun
    BY <1>0, <1>14 DEF ManualRun, Mark, Learn, ToldAll
<1>15. CASE Age
    BY <1>0, <1>15 DEF Age
<1>16. ASSUME NEW s \in Slots, ExpireShown(s) PROVE Earned'
    BY <1>0, <1>16 DEF ExpireShown
<1>17. ASSUME NEW s \in Slots, ExpireRec(s) PROVE Earned'
    BY <1>0, <1>17 DEF ExpireRec, Writing
<1>18. ASSUME NEW s \in Slots, ExpireTries(s) PROVE Earned'
    BY <1>0, <1>18 DEF ExpireTries
<1>19. CASE UNCHANGED vars
    BY <1>0, <1>19 DEF vars
<1>20. QED
    BY <1>1, <1>2, <1>3, <1>4, <1>5, <1>6, <1>7, <1>8, <1>9, <1>10,
       <1>11, <1>12, <1>13, <1>14, <1>15, <1>16, <1>17, <1>18, <1>19 DEF Next, Step
LEMMA QuietNext == MaxKills = 0 /\ IInv /\ Earned /\ QuietIsEarned /\ [Next]_vars => QuietIsEarned'
<1> SUFFICES ASSUME MaxKills = 0, IInv, Earned, QuietIsEarned, [Next]_vars PROVE QuietIsEarned'
    OBVIOUS
<1> USE Constants, SlotKinds
    DEF IInv, TypeOK, Placed, markers, hook, counts, history, Complete, Answers, Quiet, Outcomes
<1>0. ASSUME NEW h \in Hooks, slot[h] \in Slots, slot'[h] = slot[h], event'[h] = event[h], Heard(h) PROVE Heard(h)'
  <2>1. Keeps
    BY EarnedKeeps
  <2>2. CASE told[slot[h]] = "all"
    BY <1>0, <2>1, <2>2 DEF Keeps, Heard
  <2>3. CASE told[slot[h]] = "part" /\ event[h] \in AtPre
    BY <1>0, <2>1, <2>3 DEF Keeps, Heard
  <2>4. ASSUME NEW k \in Hooks \ {h}, slot[k] = slot[h], Whole(k) \/ (Half(k) /\ event[h] \in AtPre) PROVE Heard(h)'
    BY <1>0, <2>1, <2>4 DEF Keeps, Heard, Whole, Half
  <2>5. \/ told[slot[h]] = "all"
        \/ told[slot[h]] = "part" /\ event[h] \in AtPre
        \/ \E k \in Hooks \ {h} : slot[k] = slot[h] /\ (Whole(k) \/ (Half(k) /\ event[h] \in AtPre))
    BY <1>0 DEF Heard, Whole, Half
  <2>6. QED
    BY <2>2, <2>3, <2>4, <2>5
<1>a. \A h \in Hooks : Vouched(h) => Heard(h)
    BY DEF Vouched, Whole, Heard
<1>b. \A h \in Hooks : pc[h] = "answer" /\ OnRecord(h) => Heard(h)
    BY DEF Earned, OnRecord, ToldSome, ToldAll, Whole, Half, Heard
<1> DEFINE Calm(h) == said'[h] \in Quiet => found'[h] = "empty" \/ lent'[h] \/ Heard(h)'
<1>c. \A h \in Hooks : slot'[h] = slot[h] /\ event'[h] = event[h] /\ said'[h] = said[h]
                       /\ (found[h] = "empty" => found'[h] = "empty") /\ lent'[h] = lent[h] => Calm(h)
    BY <1>0 DEF QuietIsEarned
<1>d. (\A h \in Hooks : Calm(h)) => QuietIsEarned'
    BY DEF QuietIsEarned
<1> HIDE DEF Calm
<1>e. \A h \in Hooks : said'[h] \notin Quiet => Calm(h)
    BY DEF Calm
<1>1. ASSUME NEW h \in Hooks, Invoke(h) PROVE QuietIsEarned'
    BY <1>1, <1>c, <1>d, <1>e DEF Invoke, Reviewed
<1>2. ASSUME NEW h \in Hooks, ReadOwn(h) PROVE QuietIsEarned'
    BY <1>2, <1>c, <1>d, <1>e DEF ReadOwn, Know
<1>3. ASSUME NEW h \in Hooks, ReadManual(h) PROVE QuietIsEarned'
    BY <1>3, <1>c, <1>d, <1>e DEF ReadManual, Know, Reviewed
<1>4. ASSUME NEW h \in Hooks, Answer(h) PROVE QuietIsEarned'
  <2>1. \A k \in Hooks \ {h} : Calm(k)
    BY <1>4, <1>c DEF Answer, Say, Goto
  <2>2. lent'[h] = lent[h] /\ slot'[h] = slot[h] /\ event'[h] = event[h] /\ slot[h] \in Slots
    BY <1>4 DEF Answer
  <2>3. ASSUME OnRecord(h) PROVE Calm(h)
    <3>1. Heard(h)
      BY <1>4, <1>b, <2>3 DEF Answer
    <3>2. Heard(h)'
      BY <1>0, <2>2, <3>1
    <3>3. QED
      BY <3>2 DEF Calm
  <2>4. ASSUME ~OnRecord(h) /\ known[h] \in Complete PROVE Calm(h)
    <3>1. lent[h] \/ Heard(h)
      BY <1>a, <2>4 DEF Earned
    <3>2. lent'[h] \/ Heard(h)'
      BY <1>0, <2>2, <3>1
    <3>3. QED
      BY <3>2 DEF Calm
  <2>5. ASSUME ~OnRecord(h) /\ known[h] \notin Complete PROVE Calm(h)
    <3>1. said'[h] = said[h] /\ pc[h] = "answer"
      BY <1>4, <2>5 DEF Answer, Goto
    <3>2. said'[h] \notin Quiet
      BY <3>1
    <3>3. QED
      BY <1>e, <3>2
  <2>6. QED
    BY <1>d, <2>1, <2>3, <2>4, <2>5
<1>5. ASSUME NEW h \in Hooks, Remind(h) PROVE QuietIsEarned'
  <2>1. \A k \in Hooks \ {h} : Calm(k)
    BY <1>5, <1>c DEF Remind, Say
  <2>2. lent'[h] = lent[h] /\ slot'[h] = slot[h] /\ event'[h] = event[h] /\ slot[h] \in Slots
        /\ known[h] \in Complete
    BY <1>5 DEF Remind
  <2>3. Calm(h)
    BY <1>0, <1>a, <2>2 DEF Earned, Calm
  <2>4. QED
    BY <1>d, <2>1, <2>3
<1>6. ASSUME NEW h \in Hooks, Count(h) PROVE QuietIsEarned'
    BY <1>6, <1>c, <1>d, <1>e DEF Count, Say, Goto
<1>7. ASSUME NEW h \in Hooks, Claim(h) PROVE QuietIsEarned'
    BY <1>7, <1>c, <1>d, <1>e DEF Claim, Goto
<1>8. ASSUME NEW h \in Hooks, Review(h) PROVE QuietIsEarned'
    BY <1>8, <1>c, <1>d, <1>e DEF Review, Say, Goto
<1>9. ASSUME NEW h \in Hooks, Deliver(h) PROVE QuietIsEarned'
    BY <1>9, <1>c, <1>d, <1>e DEF Deliver, Mark, Goto
<1>10. ASSUME NEW h \in Hooks, Settle(h) PROVE QuietIsEarned'
    BY <1>10, <1>c, <1>d, <1>e DEF Settle, Goto
<1>11. ASSUME NEW h \in Hooks, Record(h) PROVE QuietIsEarned'
  <2>1. \A k \in Hooks \ {h} : Calm(k)
    BY <1>11, <1>c DEF Record, Say
  <2>2. Calm(h)
    BY <1>11 DEF Record, Say, Conclusion, Calm
  <2>3. QED
    BY <1>d, <2>1, <2>2
<1>12. ASSUME NEW h \in Hooks, Tell(h) PROVE QuietIsEarned'
    BY <1>12, <1>c, <1>d, <1>e DEF Tell, Blank
<1>13. ASSUME NEW h \in Hooks, Kill(h) PROVE QuietIsEarned'
    BY <1>13, <1>c, <1>d, <1>e DEF Kill, Blank
<1>14. CASE ManualRun
    BY <1>14, <1>c, <1>d DEF ManualRun
<1>15. CASE Age
    BY <1>15, <1>c, <1>d DEF Age
<1>16. ASSUME NEW s \in Slots, ExpireShown(s) PROVE QuietIsEarned'
    BY <1>16, <1>c, <1>d DEF ExpireShown
<1>17. ASSUME NEW s \in Slots, ExpireRec(s) PROVE QuietIsEarned'
    BY <1>17, <1>c, <1>d DEF ExpireRec
<1>18. ASSUME NEW s \in Slots, ExpireTries(s) PROVE QuietIsEarned'
    BY <1>18, <1>c, <1>d DEF ExpireTries
<1>19. CASE UNCHANGED vars
    BY <1>19, <1>c, <1>d DEF vars
<1>20. QED
    BY <1>1, <1>2, <1>3, <1>4, <1>5, <1>6, <1>7, <1>8, <1>9, <1>10,
       <1>11, <1>12, <1>13, <1>14, <1>15, <1>16, <1>17, <1>18, <1>19 DEF Next, Step

\* Where no hook is killed, what a hook leaves unsaid was told to its session,
\* or comes from a manual run that still counted when the hook looked.
THEOREM QuietEarned == MaxKills = 0 => (Spec => []QuietIsEarned)
<1> SUFFICES ASSUME MaxKills = 0 PROVE Spec => []QuietIsEarned
    OBVIOUS
<1>1. Init => Earned /\ QuietIsEarned
    BY Constants DEF Init, Earned, Complete, QuietIsEarned, Quiet, Outcomes
<1>2. IInv /\ Earned /\ [Next]_vars => Earned'
    BY EarnedNext
<1>3. IInv /\ Earned /\ QuietIsEarned /\ [Next]_vars => QuietIsEarned'
    BY QuietNext
<1>4. QED
    BY Invariance, <1>1, <1>2, <1>3, PTL DEF Spec
-----------------------------------------------------------------------------
\* A hook that reviews has found no complete answer, and if hooks do not
\* overlap, none is written for its session but its own.
Fresh ==
    \A h \in Hooks :
        /\ pc[h] \in {"manual", "count", "claim", "review", "deliver"} => known[h] \notin Complete
        /\ pc[h] \in {"manual", "answer", "remind", "count", "claim", "review", "deliver"}
           /\ slot[h] \in Sessions /\ shown[slot[h]] \in Complete => known[h] \in Complete

LEMMA FreshNext == Alone /\ IInv /\ Fresh /\ [Next]_vars => Fresh'
<1> SUFFICES ASSUME Alone, IInv, Fresh, [Next]_vars PROVE Fresh'
    OBVIOUS
<1> USE Constants, SlotKinds
    DEF IInv, TypeOK, Placed, markers, hook, counts, history, Fresh, Alone, Complete, Answers
<1>1. ASSUME NEW h \in Hooks, Invoke(h) PROVE Fresh'
    BY <1>1 DEF Invoke, Reviewed
<1>2. ASSUME NEW h \in Hooks, ReadOwn(h) PROVE Fresh'
    BY <1>2 DEF ReadOwn, Know
<1>3. ASSUME NEW h \in Hooks, ReadManual(h) PROVE Fresh'
    BY <1>3 DEF ReadManual, Know, Reviewed
<1>4. ASSUME NEW h \in Hooks, Answer(h) PROVE Fresh'
    BY <1>4 DEF Answer, Say, Goto, OnRecord, Recall, Remarks
<1>5. ASSUME NEW h \in Hooks, Remind(h) PROVE Fresh'
    BY <1>5 DEF Remind, Say, Recall
<1>6. ASSUME NEW h \in Hooks, Count(h) PROVE Fresh'
    BY <1>6 DEF Count, Say, Goto
<1>7. ASSUME NEW h \in Hooks, Claim(h) PROVE Fresh'
    BY <1>7 DEF Claim, Goto
<1>8. ASSUME NEW h \in Hooks, Review(h) PROVE Fresh'
    BY <1>8 DEF Review, Say, Goto
<1>9. ASSUME NEW h \in Hooks, Deliver(h) PROVE Fresh'
    BY <1>9 DEF Deliver, Mark, Goto
<1>10. ASSUME NEW h \in Hooks, Settle(h) PROVE Fresh'
    BY <1>10 DEF Settle, Goto
<1>11. ASSUME NEW h \in Hooks, Record(h) PROVE Fresh'
    BY <1>11 DEF Record, Say, Conclusion
<1>12. ASSUME NEW h \in Hooks, Tell(h) PROVE Fresh'
    BY <1>12 DEF Tell, Blank
<1>13. ASSUME NEW h \in Hooks, Kill(h) PROVE Fresh'
    BY <1>13 DEF Kill, Blank
<1>14. CASE ManualRun
    BY <1>14 DEF ManualRun, Mark
<1>15. CASE Age
    BY <1>15 DEF Age
<1>16. ASSUME NEW s \in Slots, ExpireShown(s) PROVE Fresh'
    BY <1>16 DEF ExpireShown
<1>17. ASSUME NEW s \in Slots, ExpireRec(s) PROVE Fresh'
    BY <1>17 DEF ExpireRec, Writing
<1>18. ASSUME NEW s \in Slots, ExpireTries(s) PROVE Fresh'
    BY <1>18 DEF ExpireTries
<1>19. CASE UNCHANGED vars
    BY <1>19 DEF vars
<1>20. QED
    BY <1>1, <1>2, <1>3, <1>4, <1>5, <1>6, <1>7, <1>8, <1>9, <1>10,
       <1>11, <1>12, <1>13, <1>14, <1>15, <1>16, <1>17, <1>18, <1>19 DEF Next, Step

LEMMA KeptNext ==
    Alone /\ IInv /\ Fresh /\ [Next]_vars =>
        \A s \in Sessions : shown[s] \in Complete => shown'[s] \in Complete \union {"none"}
<1> SUFFICES ASSUME Alone, IInv, Fresh, [Next]_vars, NEW s \in Sessions, shown[s] \in Complete
             PROVE  shown'[s] \in Complete \union {"none"}
    OBVIOUS
<1> USE Constants, SlotKinds
    DEF IInv, TypeOK, Placed, markers, Fresh, Complete, Answers
<1>1. ASSUME NEW h \in Hooks, Deliver(h) PROVE shown'[s] \in Complete \union {"none"}
    BY <1>1 DEF Deliver, Mark
<1>2. ASSUME NEW t \in Slots, ExpireShown(t) PROVE shown'[s] \in Complete \union {"none"}
    BY <1>2 DEF ExpireShown
<1>3. CASE ManualRun
    BY <1>3 DEF ManualRun, Mark
<1>4. CASE UNCHANGED shown
    BY <1>4
<1>5. QED
    BY <1>1, <1>2, <1>3, <1>4 DEF Next, Step, vars, Invoke, ReadOwn, ReadManual, Know, Answer, Remind,
       Count, Claim, Review, Settle, Record, Tell, Kill, Age, ExpireRec, ExpireTries

\* If hooks do not overlap, a complete answer of a session is followed by
\* another or expires: no partial one takes its place, kills included.
THEOREM CompleteKept == Alone => (Spec => CompleteIsKept)
<1> SUFFICES ASSUME Alone PROVE Spec => CompleteIsKept
    OBVIOUS
<1>1. Init => Fresh
    BY DEF Init, Fresh
<1>2. IInv /\ Fresh /\ [Next]_vars => Fresh'
    BY FreshNext
<1>3. IInv /\ Fresh /\ [Next]_vars =>
        [\A s \in Sessions : shown[s] \in Complete => shown'[s] \in Complete \union {"none"}]_vars
    BY KeptNext
<1>4. QED
    BY Invariance, <1>1, <1>2, <1>3, PTL DEF Spec, CompleteIsKept
=============================================================================
