----------------------------- MODULE BlobSource -----------------------------
(***************************************************************************)
(* What a run's readers are promised by `Source::read_bytes` (source.rs):  *)
(* the bytes of the file they named, None when the source has no such      *)
(* file, and None with a note on the run when the read failed, so that a   *)
(* failure is never taken for an absent file.                              *)
(***************************************************************************)

CONSTANTS
    Readers,  \* threads that read through the source
    Files,    \* paths they may name
    Present,  \* the paths that name a file of the revision
    Missing,  \* the answer None of a file that is not there
    Failed,   \* the answer None of a read that failed
    None

VARIABLES
    want,     \* reader -> the file it has asked for, or None
    told,     \* reader -> its last answer: a file (its bytes), Missing, Failed
    noted     \* the run's log has a reason for a failed read

vars == <<want, told, noted>>

TypeOK == /\ want \in [Readers -> Files \union {None}]
          /\ told \in [Readers -> Files \union {Missing, Failed, None}]
          /\ noted \in BOOLEAN

Init == /\ want = [r \in Readers |-> None]
        /\ told = [r \in Readers |-> None]
        /\ noted = FALSE

Ask(r) == /\ want[r] = None
          /\ \E f \in Files : want' = [want EXCEPT ![r] = f]
          /\ told' = [told EXCEPT ![r] = None]
          /\ UNCHANGED noted

Answer(r) == /\ want[r] # None
             /\ told' = [told EXCEPT ![r] = IF want[r] \in Present THEN want[r] ELSE Missing]
             /\ want' = [want EXCEPT ![r] = None]
             /\ UNCHANGED noted

Fail(r) == /\ want[r] # None
           /\ told' = [told EXCEPT ![r] = Failed]
           /\ want' = [want EXCEPT ![r] = None]
           /\ noted' = TRUE

Next == \E r \in Readers : Ask(r) \/ Answer(r) \/ Fail(r)

Safety == Init /\ [][Next]_vars

Spec == Safety /\ \A r \in Readers : WF_vars(Answer(r) \/ Fail(r))
=============================================================================
