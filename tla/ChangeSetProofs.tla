--------------------------- MODULE ChangeSetProofs ---------------------------
(***************************************************************************)
(* What ChangeSet promises, for any paths, names, rules and number of      *)
(* edits: a withheld path with a hunk is counted and never named, and a    *)
(* change is answered unless the run says why it may not be.               *)
(***************************************************************************)
EXTENDS ChangeSet, TLAPS

\* The calls before the answer has a word of the hunks, and those after.
Early == {"diff", "untracked"}
Late  == {"list", "vet", "again", "text", "names", "show", "done"}

IsPolicy(p) == rule[p] = "policy"

Typed ==
    /\ answer = [changed |-> answer.changed, deleted |-> answer.deleted,
                 renamed |-> answer.renamed, ignored |-> answer.ignored,
                 locks |-> answer.locks, counted |-> answer.counted]
    /\ pc \in Early \union {"ignore", "failed"} \union Late
    /\ (\E p \in Paths : IsPolicy(p)) => declared
    /\ seen \subseteq Paths /\ hunks \subseteq Paths /\ edits \in Nat

\* What is secret was counted before anything was looked up, and what is
\* excluded by policy with the lookup of the hunks.
SecretsCounted ==
    pc \in {"ignore"} \union Late =>
        /\ hunks \subseteq seen
        /\ \A p \in seen : IsSecret(p) => p \in answer.counted /\ p \notin hunks
        /\ pc = "ignore" => \A p \in seen : ~IsSecret(p) => p \in hunks

PolicyCounted ==
    pc \in Late => \A p \in seen : IsPolicy(p) /\ ~IsSecret(p) =>
        p \in answer.counted /\ p \in ignored.policy

\* Neither is named: before the names are asked for nothing is, and what is
\* said of the hunks leaves both out.
Hides(s) == \A p \in s : ~IsSecret(p) /\ ~IsPolicy(p)

\* A listed change need not have had a hunk.
HidesSeen(s) == \A p \in s : ~IsSecret(p) /\ (p \in seen => ~IsPolicy(p))

NoneNamed ==
    /\ pc \in Early \union {"ignore"} => answer.ignored = {} /\ answer.locks = {}
    /\ pc \in Early \union {"ignore", "list", "vet", "text", "names"} => answer.changed = {}
    /\ pc \in Early \union {"ignore", "list", "vet", "again", "text", "names", "show"} =>
          answer.deleted = {} /\ answer.renamed = {}
    /\ Hides(answer.ignored) /\ Hides(answer.locks)
    /\ HidesSeen(answer.changed)
    /\ Hides(answer.deleted) /\ \A r \in answer.renamed : Hides({r[1], r[2]})

GotTyped ==
    /\ got \in [changed : SUBSET Paths, deleted : SUBSET Paths, renamed : SUBSET (Paths \X Paths)]
    /\ untracked \subseteq Paths

HInv == Typed /\ GotTyped /\ SecretsCounted /\ PolicyCounted /\ NoneNamed

-----------------------------------------------------------------------------
(* The lookup. *)

\* Whatever git answers, or does not, no path a policy excludes comes back.
LEMMA LookupFacts ==
    ASSUME Typed, NEW paths \in SUBSET Paths, NEW rules \in {WithSource, AnyMatch},
           NEW lookup \in FindIgnored(paths, rules)
    PROVE  /\ lookup.policy \subseteq paths /\ lookup.git \subseteq paths
           /\ \A p \in paths : IsPolicy(p) => p \in lookup.policy
           /\ Hides(lookup.git) \/ \E p \in lookup.git : IsSecret(p)
BY DEF Typed, FindIgnored, WhenGitFails, AllWithheld, NoneIgnored, AsDeclared, IsPolicy, Hides,
       WithSource, AnyMatch

LEMMA NamesTyped ==
    /\ DiffNames \in [changed : SUBSET Paths, deleted : SUBSET Paths, renamed : SUBSET (Paths \X Paths)]
    /\ NoNames \in [changed : SUBSET Paths, deleted : SUBSET Paths, renamed : SUBSET (Paths \X Paths)]
BY DEF DiffNames, NoNames, Of

LEMMA RefusedKeeps ==
    ASSUME HInv, Refused, UNCHANGED <<ranges, edits>>
    PROVE  HInv'
BY DEF HInv, Typed, GotTyped, SecretsCounted, PolicyCounted, NoneNamed, Refused, ranges, Early, Late, Hides,
       HidesSeen, IsSecret, IsPolicy

LEMMA WithholdStep ==
    ASSUME HInv, pc \in Early, NEW found \in SUBSET Paths, Withhold(found),
           UNCHANGED <<ranges, edits, ignored>>, GotTyped'
    PROVE  HInv'
<1>1. /\ pc' \in {"list", "ignore"} /\ seen' = found
      /\ hunks' = {p \in found : ~IsSecret(p)}
      /\ pc' = "list" => \A p \in found : IsSecret(p)
      /\ answer' = [answer EXCEPT !.counted = {p \in found : IsSecret(p)}]
  BY DEF Withhold
<1>2. Typed'
  BY <1>1 DEF HInv, Typed, ranges, Early, Late, IsPolicy
<1>3. SecretsCounted' /\ PolicyCounted'
  BY <1>1, <1>2 DEF HInv, Typed, ranges, SecretsCounted, PolicyCounted, Early, Late, IsSecret, IsPolicy
<1>4. NoneNamed'
  BY <1>1 DEF HInv, Typed, NoneNamed, ranges, Early, Late, Hides, HidesSeen
<1> QED
  BY <1>2, <1>3, <1>4 DEF HInv

-----------------------------------------------------------------------------

LEMMA HInit == Init => HInv
BY DEF Init, HInv, Typed, GotTyped, NoNames, SecretsCounted, PolicyCounted, NoneNamed, Early, Late, Hides, HidesSeen, IsPolicy

LEMMA HNext == HInv /\ [Next]_vars => HInv'
<1> SUFFICES ASSUME HInv, [Next]_vars PROVE HInv'
  OBVIOUS
<1>1. CASE Diff
  <2>1. UNCHANGED <<ranges, edits, world>>
    BY <1>1 DEF Diff
  <2>2. CASE Refused
    BY <2>1, <2>2, RefusedKeeps
  <2>3. CASE pc = "diff" /\ pc' = "untracked" /\ seen' = DiffHunks /\ UNCHANGED <<hunks, answer, ignored, got, untracked>>
    BY <2>1, <2>3 DEF HInv, Typed, GotTyped, SecretsCounted, PolicyCounted, NoneNamed, ranges, Early, Late,
                      Hides, HidesSeen, IsPolicy, DiffHunks, Of
  <2>4. CASE pc = "diff" /\ Withhold(DiffHunks) /\ UNCHANGED ignored
    <3>1. GotTyped'
      BY <1>1, <2>4 DEF Diff, HInv, GotTyped, Refused, Fails
    <3> QED
      BY <2>1, <2>4, <3>1, WithholdStep DEF DiffHunks, Of, Early
  <2> QED
    BY <1>1, <2>2, <2>3, <2>4 DEF Diff, Fails
<1>2. CASE ListUntracked
  <2>1. UNCHANGED <<ranges, edits, world>>
    BY <1>2 DEF ListUntracked
  <2>2. CASE Refused
    BY <2>1, <2>2, RefusedKeeps
  <2>3. CASE pc = "untracked" /\ (Withhold(seen \union Of({"new"})) \/ Withhold(seen)) /\ UNCHANGED ignored
    <3>1. seen \in SUBSET Paths /\ seen \union Of({"new"}) \in SUBSET Paths
      BY DEF HInv, Typed, Of
    <3>2. GotTyped'
      BY <1>2, <2>3 DEF ListUntracked, Untracked, Of, HInv, GotTyped, Refused, Fails
    <3> QED
      BY <2>1, <2>3, <3>1, <3>2, WithholdStep DEF Early
  <2> QED
    BY <1>2, <2>2, <2>3 DEF ListUntracked, Fails
<1>3. CASE Resolve
  <2>1. PICK lookup \in FindIgnored(hunks, WithSource) :
          LET rest  == {p \in hunks : ~IsIgnored(p, lookup)}
              locks == IF full THEN {} ELSE {p \in rest : IsLockfile(p)}
          IN /\ ignored' = lookup
             /\ hunks' = rest \ locks
             /\ answer' = [answer EXCEPT !.counted = answer.counted \union lookup.policy,
                                         !.ignored = lookup.git,
                                         !.locks   = locks]
             /\ pc' \in {"list", "names", "text"}
    BY <1>3 DEF Resolve
  <2>2. UNCHANGED <<ranges, edits, seen, got, untracked>> /\ pc = "ignore"
    BY <1>3 DEF Resolve
  <2>3. /\ lookup.policy \subseteq hunks /\ lookup.git \subseteq hunks
        /\ \A p \in hunks : IsPolicy(p) => p \in lookup.policy
        /\ Hides(lookup.git) \/ \E p \in lookup.git : IsSecret(p)
    BY LookupFacts DEF HInv, Typed
  <2>4. \A p \in hunks : ~IsSecret(p)
    BY <2>2 DEF HInv, SecretsCounted
  <2>5. Typed'
    BY <2>1, <2>2 DEF HInv, Typed, ranges, Early, Late, IsPolicy
  <2>6. /\ answer'.counted = answer.counted \union lookup.policy
        /\ answer'.ignored = lookup.git
        /\ answer'.locks \subseteq {p \in hunks : ~IsIgnored(p, lookup)}
        /\ answer'.changed = answer.changed /\ answer'.deleted = answer.deleted
        /\ answer'.renamed = answer.renamed
    BY <2>1 DEF HInv, Typed
  <2>7. SecretsCounted' /\ PolicyCounted'
    BY <2>1, <2>2, <2>3, <2>4, <2>6 DEF HInv, ranges, SecretsCounted, PolicyCounted, Early, Late,
                                        IsSecret, IsPolicy
  <2>8. NoneNamed'
    BY <2>1, <2>2, <2>3, <2>4, <2>6 DEF HInv, ranges, NoneNamed, Early, Late, Hides, HidesSeen,
                                        IsSecret, IsPolicy, IsIgnored
  <2> QED
    BY <2>2, <2>5, <2>7, <2>8 DEF HInv, GotTyped
\* A call that listed something, or was cut short, and left the answer alone.
<1>a. ASSUME UNCHANGED <<ranges, edits, seen, hunks, ignored, answer>>, GotTyped',
             \/ pc = "list" /\ pc' = "vet"
             \/ pc = "again" /\ pc' = "show"
             \/ pc = "text" /\ pc' = "names"
      PROVE  HInv'
  BY <1>a DEF HInv, Typed, GotTyped, SecretsCounted, PolicyCounted, NoneNamed, ranges, Early, Late, Hides,
              HidesSeen, IsSecret, IsPolicy
<1>4. CASE ListHunkless \/ ListAgain \/ DiffText
  <2>1. UNCHANGED <<ranges, edits>>
    BY <1>4 DEF ListHunkless, ListAgain, DiffText
  <2>2. CASE Refused
    BY <2>1, <2>2, RefusedKeeps
  <2>3. GotTyped'
    BY <1>4, NamesTyped DEF HInv, GotTyped, ListHunkless, ListAgain, DiffText, Fails, Refused
  <2> QED
    BY <1>4, <1>a, <2>1, <2>2, <2>3 DEF ListHunkless, ListAgain, DiffText, Fails
\* A call that lists changed paths.
<1>b. ASSUME UNCHANGED <<ranges, edits, seen, hunks, ignored>>, GotTyped', NEW s, HidesSeen(s),
             answer' = [answer EXCEPT !.changed = s],
             \/ pc = "vet" /\ pc' = "again"
             \/ pc = "names" /\ pc' \in {"again", "show"}
      PROVE  HInv'
  BY <1>b DEF HInv, Typed, GotTyped, SecretsCounted, PolicyCounted, NoneNamed, ranges, Early, Late, Hides,
              HidesSeen, IsSecret, IsPolicy
<1>5. CASE VetHunkless
  <2>1. PICK lookup \in FindIgnored(got.changed \union untracked, WithSource) :
          answer' = [answer EXCEPT !.changed =
             {p \in (got.changed \union untracked) \ GoneAtHead(got) :
                 ~IsLockfile(p) /\ ~IsWithheld(p, lookup)}]
    BY <1>5 DEF VetHunkless
  <2>2. HidesSeen({p \in (got.changed \union untracked) \ GoneAtHead(got) :
                      ~IsLockfile(p) /\ ~IsWithheld(p, lookup)})
    <3>1. \A p \in got.changed \union untracked : p \in seen /\ ~IsWithheld(p, lookup) => ~IsPolicy(p)
      BY <2>1 DEF HInv, Typed, FindIgnored, WhenGitFails, AllWithheld, NoneIgnored, AsDeclared,
                  IsPolicy, IsWithheld, IsIgnored
    <3> QED
      BY <3>1 DEF HidesSeen, IsWithheld
  <2>3. /\ UNCHANGED <<ranges, edits, seen, hunks, ignored, got, untracked>>
        /\ pc = "vet" /\ pc' = "again"
    BY <1>5 DEF VetHunkless
  <2> QED
    BY <1>b, <2>1, <2>2, <2>3 DEF HInv, GotTyped
<1>6. CASE ListChanged
  <2>1. UNCHANGED <<ranges, edits>> /\ pc = "names"
    BY <1>6 DEF ListChanged
  <2>2. CASE Refused
    BY <2>1, <2>2, RefusedKeeps
  <2>3. CASE ~Refused
    <3>1. PICK s : /\ s = Kept(DiffNames.changed \union untracked, GoneAtHead(DiffNames))
                   /\ answer' = [answer EXCEPT !.changed = s]
                   /\ pc' \in {"again", "show"}
                   /\ UNCHANGED <<seen, hunks, ignored>>
      BY <1>6, <2>3 DEF ListChanged, Fails
    <3>2. HidesSeen(s)
      BY <2>1, <3>1 DEF HInv, PolicyCounted, Late, Kept, HidesSeen, IsWithheld, IsIgnored
    <3>3. GotTyped'
      BY <1>6, NamesTyped DEF HInv, GotTyped, ListChanged, Fails, Refused
    <3> QED
      BY <1>b, <2>1, <3>1, <3>2, <3>3
  <2> QED
    BY <2>2, <2>3
<1>7. CASE Display
  <2>1. PICK named, lookup :
          /\ named = got.deleted \union UNION {{r[1], r[2]} : r \in got.renamed}
          /\ lookup \in FindIgnored(named, AnyMatch)
          /\ answer' = [answer EXCEPT
                !.deleted = {p \in got.deleted : ~IsWithheld(p, lookup)},
                !.renamed = {r \in got.renamed : ~IsWithheld(r[1], lookup) /\ ~IsWithheld(r[2], lookup)}]
    BY <1>7 DEF Display
  <2>2. \A p \in named : ~IsWithheld(p, lookup) => ~IsSecret(p) /\ ~IsPolicy(p)
    <3>1. named \subseteq Paths
      <4>1. \A r \in got.renamed : r[1] \in Paths /\ r[2] \in Paths
        BY DEF HInv, GotTyped
      <4> QED
        BY <2>1, <4>1 DEF HInv, GotTyped
    <3>2. \A p \in named : IsPolicy(p) => IsIgnored(p, lookup)
      BY <2>1, <3>1 DEF HInv, Typed, FindIgnored, WhenGitFails, AllWithheld, NoneIgnored, AsDeclared,
                        IsPolicy, IsIgnored
    <3> QED
      BY <3>2 DEF IsWithheld
  <2>3. /\ UNCHANGED <<ranges, edits, seen, hunks, ignored, got, untracked>>
        /\ pc = "show" /\ pc' = "done"
    BY <1>7 DEF Display
  <2>4. Typed' /\ GotTyped' /\ SecretsCounted' /\ PolicyCounted'
    BY <2>1, <2>3 DEF HInv, Typed, GotTyped, SecretsCounted, PolicyCounted, ranges, Early, Late, IsSecret, IsPolicy
  <2>5. Hides(answer'.deleted) /\ \A r \in answer'.renamed : Hides({r[1], r[2]})
    BY <2>1, <2>2 DEF HInv, Typed, Hides
  <2>6. NoneNamed'
    BY <2>1, <2>3, <2>5 DEF HInv, Typed, NoneNamed, ranges, Early, Hides, HidesSeen, IsSecret, IsPolicy
  <2> QED
    BY <2>4, <2>6 DEF HInv
<1>8. CASE Edit
  <2>1. UNCHANGED <<pc, ranges, seen, hunks, ignored, answer, got, untracked>> /\ edits' = edits + 1
    BY <1>8 DEF Edit
  <2> QED
    BY <2>1 DEF HInv, Typed, GotTyped, SecretsCounted, PolicyCounted, NoneNamed, ranges, Hides, HidesSeen,
                IsSecret, IsPolicy
<1>9. CASE UNCHANGED vars
  BY <1>9 DEF vars, ranges, HInv, Typed, GotTyped, SecretsCounted, PolicyCounted, NoneNamed, Hides, HidesSeen,
              IsSecret, IsPolicy
<1> QED
  BY <1>1, <1>2, <1>3, <1>4, <1>5, <1>6, <1>7, <1>8, <1>9 DEF Next, Finished

LEMMA HAlways == Spec => []HInv
BY HInit, HNext, PTL DEF Spec

\* A path with a hunk that is secret by name or excluded by a policy is
\* counted and never named, for any repository and any failure of git.
THEOREM WithheldCounted == Spec => []WithheldIsCounted
<1>1. HInv => WithheldIsCounted
  BY DEF HInv, SecretsCounted, PolicyCounted, NoneNamed, WithheldIsCounted, Named, Late, Hides,
         HidesSeen, IsPolicy
<1> QED
  BY HAlways, <1>1, PTL

-----------------------------------------------------------------------------
(* That a change is answered: of a run whose calls all succeed and whose   *)
(* tree rests, what has a hunk is counted or listed when it is dropped, or *)
(* kept until the names are asked for; the rest is in the names.           *)

Calm == edits = 0 /\ ~noted /\ ~blind

Hunked == Of({"edited", "removed", "came", "new"})

\* The properties' exemptions, and what is left for the last call to show.
Exempt(p) == \/ world[p] \in {"same", "left"}
             \/ world[p] \in {"bare", "slid", "blank"} /\ Excluded(p)
             \/ Unsaid(p)
ToShow(p) == world[p] = "removed" /\ ~IsSecret(p) /\ rule[p] = "none"
\* What the lookup of the hunks does not exclude.
Spared    == {"dir", "none"}
Dropped   == answer.counted \union answer.ignored \union answer.locks

WorldOK ==
    /\ world \in [Paths -> Kinds]
    /\ edits = 0 => \A p \in Paths : world[p] \in {"new", "blank"} => tree
    /\ name \in [Paths -> {"secret", "lock", "plain"}]
    /\ rule \in [Paths -> Rules]

\* What the run took for the change is the change.
Taken ==
    /\ pc \in Early => untracked = {}
    /\ pc = "untracked" => tree /\ seen = DiffHunks
    /\ pc \in {"ignore"} \union Late => seen = Hunked /\ untracked = Of({"new", "blank"})
    /\ pc \in {"vet", "show"} => got = DiffNames

\* A hunk is kept or its path is in the answer.
KeptOrDropped ==
    /\ pc \in Early \union {"ignore"} => ignored = NoneIgnored
    /\ \A p \in Paths : rule[p] \in Spared => ~IsIgnored(p, ignored)
    /\ pc \in Late => /\ seen \ hunks \subseteq Dropped
                      /\ \A p \in hunks : rule[p] \in Spared /\ (full \/ ~IsLockfile(p))
    /\ pc \in {"list", "vet"} => hunks = {}

Listed ==
    /\ pc \in {"again", "show"} => \A p \in Paths :
          p \in answer.changed \union Dropped \/ Exempt(p) \/ ToShow(p)
    /\ pc = "done" => \A p \in Paths : p \in Named \union answer.counted \/ Exempt(p)

AInv == WorldOK /\ (Calm => Taken /\ KeptOrDropped /\ Listed)

LEMMA WithholdCalm ==
    ASSUME HInv, AInv, pc \in Early, NEW found \in SUBSET Paths, Withhold(found),
           UNCHANGED <<ranges, world, edits, ignored>>, Calm, Calm',
           found = Hunked, untracked' = Of({"new", "blank"})
    PROVE  AInv'
<1>1. /\ pc' \in {"list", "ignore"} /\ seen' = found
      /\ hunks' = {p \in found : ~IsSecret(p)}
      /\ pc' = "list" => \A p \in found : IsSecret(p)
      /\ answer' = [answer EXCEPT !.counted = {p \in found : IsSecret(p)}]
  BY DEF Withhold
<1>2. /\ answer'.counted = {p \in found : IsSecret(p)}
      /\ UNCHANGED <<Hunked, Of({"new", "blank"})>>
  BY <1>1 DEF HInv, Typed, Hunked, Of
<1>3. Taken' /\ Listed'
  BY <1>1, <1>2 DEF Taken, Listed, Early, Late
<1>4. KeptOrDropped'
  BY <1>1, <1>2 DEF AInv, KeptOrDropped, Early, Late, ranges, Dropped, IsIgnored, IsLockfile, NoneIgnored
<1> QED
  BY <1>3, <1>4 DEF AInv, WorldOK, ranges

\* Nothing is promised of a run that fails.
LEMMA RefusedCalm ==
    ASSUME AInv, Refused, UNCHANGED <<ranges, world, edits>>
    PROVE  AInv'
BY DEF AInv, Calm, WorldOK, Taken, KeptOrDropped, Listed, Refused, ranges, Early, Late, IsIgnored

\* A lookup that did not fail answered as the rules declare.
LEMMA LookupCalm ==
    ASSUME NEW paths, NEW rules, NEW lookup, Lookup(paths, rules, lookup), ~blind'
    PROVE  lookup = AsDeclared(paths, rules) /\ ~blind
BY DEF Lookup

LEMMA AInit == Init => AInv
BY DEF Init, AInv, Calm, WorldOK, Taken, KeptOrDropped, Listed, Early, Late, IsIgnored, NoneIgnored

LEMMA ANext == HInv /\ AInv /\ [Next]_vars => AInv'
<1> SUFFICES ASSUME HInv, AInv, [Next]_vars PROVE AInv'
  OBVIOUS
<1>a. ASSUME ~Calm', UNCHANGED <<ranges, world, edits>> PROVE AInv'
  BY <1>a DEF AInv, WorldOK, ranges
<1>1. CASE Diff
  <2>1. UNCHANGED <<ranges, edits, world>> /\ pc = "diff"
    BY <1>1 DEF Diff
  <2>2. CASE Refused
    BY <2>1, <2>2, RefusedCalm
  <2>3. CASE ~Refused /\ Calm'
    <3>1. Calm /\ UNCHANGED <<untracked, ignored, got>>
      <4>1. UNCHANGED <<edits, noted, blind, untracked, ignored, got>>
        BY <1>1, <2>3 DEF Diff, Fails, Answers
      <4> QED
        BY <2>3, <4>1 DEF Calm
    <3>2. CASE tree
      <4>1. pc' = "untracked" /\ seen' = DiffHunks /\ UNCHANGED <<hunks, answer>>
        BY <1>1, <2>3, <3>2 DEF Diff, Fails
      <4> QED
        BY <2>1, <3>1, <3>2, <4>1 DEF AInv, WorldOK, Taken, KeptOrDropped, Listed, ranges, Early,
              Late, IsIgnored, DiffHunks, Of
    <3>3. CASE ~tree
      <4>1. Withhold(DiffHunks)
        BY <1>1, <2>3, <3>3 DEF Diff, Fails
      <4>2. Of({"new", "blank"}) = {} /\ DiffHunks = Hunked
        BY <3>1, <3>3 DEF AInv, WorldOK, Calm, Of, DiffHunks, Hunked
      <4>3. untracked' = Of({"new", "blank"})
        BY <2>1, <3>1, <4>2 DEF AInv, Taken, Early
      <4> QED
        BY <2>1, <2>3, <3>1, <4>1, <4>2, <4>3, WithholdCalm DEF Early, DiffHunks, Of
    <3> QED
      BY <3>2, <3>3
  <2> QED
    BY <1>a, <2>1, <2>2, <2>3
<1>2. CASE ListUntracked
  <2>1. UNCHANGED <<ranges, edits, world>> /\ pc = "untracked"
    BY <1>2 DEF ListUntracked
  <2>2. CASE Refused
    BY <2>1, <2>2, RefusedCalm
  <2>3. CASE ~Refused /\ Calm'
    <3>1. /\ Calm /\ untracked' = Untracked /\ Withhold(seen \union Of({"new"}))
          /\ UNCHANGED ignored
      <4>1. ~CutShort
        BY <2>3 DEF CutShort, Calm
      <4>2. /\ untracked' = Untracked /\ Withhold(seen \union Of({"new"}))
            /\ UNCHANGED <<edits, noted, blind, ignored>>
        BY <1>2, <2>3, <4>1 DEF ListUntracked, Fails, Answers
      <4> QED
        BY <2>3, <4>2 DEF Calm
    <3>2. seen = DiffHunks
      BY <2>1, <3>1 DEF AInv, Taken
    <3>3. seen \union Of({"new"}) = Hunked /\ Hunked \in SUBSET Paths
      BY <3>2 DEF DiffHunks, Hunked, Of
    <3> QED
      BY <2>1, <2>3, <3>1, <3>3, WithholdCalm DEF Early, Untracked
  <2> QED
    BY <1>a, <2>1, <2>2, <2>3
<1>3. CASE Resolve
  <2>1. UNCHANGED <<ranges, edits, world, noted, seen, untracked, got>> /\ pc = "ignore"
    BY <1>3 DEF Resolve
  <2>2. ASSUME Calm' PROVE AInv'
    <3>1. PICK lookup \in FindIgnored(hunks, WithSource) :
            LET rest  == {p \in hunks : ~IsIgnored(p, lookup)}
                locks == IF full THEN {} ELSE {p \in rest : IsLockfile(p)}
            IN /\ Lookup(hunks, WithSource, lookup)
               /\ ignored' = lookup
               /\ hunks' = rest \ locks
               /\ answer' = [answer EXCEPT !.counted = answer.counted \union lookup.policy,
                                           !.ignored = lookup.git,
                                           !.locks   = locks]
               /\ pc' = IF rest \subseteq locks THEN "list" ELSE IF full THEN "names" ELSE "text"
      BY <1>3 DEF Resolve
    <3>2. lookup = AsDeclared(hunks, WithSource) /\ Calm
      BY <2>1, <2>2, <3>1, LookupCalm DEF Calm
    <3>3. Taken /\ KeptOrDropped
      BY <3>2 DEF AInv
    <3>4. /\ answer'.counted = answer.counted \union lookup.policy
          /\ answer'.ignored = lookup.git
          /\ answer'.locks = IF full THEN {}
                             ELSE {p \in hunks : ~IsIgnored(p, lookup) /\ IsLockfile(p)}
      BY <3>1 DEF HInv, Typed
    <3>5. /\ pc' \in {"list", "text", "names"}
          /\ hunks' = {p \in hunks : ~IsIgnored(p, lookup) /\ (full \/ ~IsLockfile(p))}
          /\ pc' = "list" => hunks' = {}
      BY <3>1
    <3>6. \A p \in hunks : IsIgnored(p, lookup) <=> rule[p] \in {"policy", "git"}
      BY <3>2 DEF AsDeclared, IsIgnored, WithSource
    <3>7. \A p \in seen \ hunks : p \in answer.counted
      BY <2>1 DEF HInv, SecretsCounted
    <3>8. /\ \A p \in Paths : rule[p] \in {"policy", "git", "dir", "none"}
          /\ hunks \subseteq Paths
      BY DEF HInv, Typed, AInv, WorldOK, Rules
    <3>9. seen' \ hunks' \subseteq Dropped'
      BY <2>1, <3>4, <3>5, <3>7 DEF Dropped, IsIgnored
    <3>10. KeptOrDropped'
      <4>1. \A p \in hunks' : rule'[p] \in Spared /\ (full' \/ ~IsLockfile(p)')
        BY <2>1, <3>5, <3>6, <3>8 DEF ranges, IsLockfile, Spared
      <4>2. \A p \in Paths : rule'[p] \in Spared => ~IsIgnored(p, ignored)'
        BY <2>1, <3>1, <3>2 DEF ranges, IsIgnored, AsDeclared, Spared, WithSource
      <4> QED
        BY <3>5, <3>9, <4>1, <4>2 DEF KeptOrDropped, Early, Late
    <3>11. Taken' /\ Listed'
      BY <2>1, <3>3, <3>5 DEF Taken, Listed, Early, Late, Hunked, Of
    <3> QED
      BY <2>1, <3>10, <3>11 DEF AInv, WorldOK, ranges
  <2> QED
    BY <1>a, <2>1, <2>2
\* A call that listed the names and left the answer alone.
<1>b. ASSUME UNCHANGED <<ranges, world, edits, seen, hunks, untracked, ignored, answer>>, Calm,
             got' \in {got, DiffNames},
             \/ pc = "list" /\ pc' = "vet" /\ got' = DiffNames
             \/ pc = "again" /\ pc' = "show" /\ got' = DiffNames
             \/ pc = "text" /\ pc' = "names"
      PROVE  AInv'
  <2>1. UNCHANGED <<DiffNames, Hunked, Of({"new", "blank"}), Dropped>>
    BY <1>b DEF DiffNames, Hunked, Of, Dropped
  <2>2. Taken' /\ KeptOrDropped'
    BY <1>b, <2>1 DEF AInv, Taken, KeptOrDropped, ranges, Early, Late, IsIgnored, IsLockfile
  <2>3. Listed'
    BY <1>b, <2>1 DEF AInv, Listed, ranges, Exempt, Excluded, Unsaid, ToShow, IsSecret
  <2> QED
    BY <1>b, <2>2, <2>3 DEF AInv, WorldOK, ranges
<1>4. CASE ListHunkless \/ ListAgain \/ DiffText
  <2>1. UNCHANGED <<ranges, edits, world>>
    BY <1>4 DEF ListHunkless, ListAgain, DiffText
  <2>2. CASE Refused
    BY <2>1, <2>2, RefusedCalm
  <2>3. CASE ~Refused /\ Calm'
    <3>1. ~CutShort
      BY <2>3 DEF CutShort, Calm
    <3>2. /\ UNCHANGED <<edits, noted, blind, seen, hunks, untracked, ignored, answer>>
          /\ \/ pc = "list" /\ pc' = "vet" /\ got' = DiffNames
             \/ pc = "again" /\ pc' = "show" /\ got' = DiffNames
             \/ pc = "text" /\ pc' = "names" /\ got' = got
      BY <1>4, <2>3, <3>1 DEF ListHunkless, ListAgain, DiffText, Fails, Answers
    <3>3. Calm
      BY <2>3, <3>2 DEF Calm
    <3> QED
      BY <1>b, <2>1, <3>2, <3>3
  <2> QED
    BY <1>a, <2>1, <2>2, <2>3
\* The changed paths that are listed, and those a later call shows.
<1>c. ASSUME UNCHANGED <<ranges, world, edits, seen, hunks, untracked, ignored>>, Calm,
             NEW s, answer' = [answer EXCEPT !.changed = s],
             \A p \in Paths : p \in s \union Dropped \/ Exempt(p) \/ ToShow(p),
             \/ pc \in {"vet", "names"} /\ pc' = "again"
             \/ pc = "names" /\ pc' = "show" /\ got' = DiffNames
      PROVE  AInv'
  <2>1. /\ UNCHANGED <<DiffNames, Hunked, Of({"new", "blank"})>>
        /\ Dropped' = Dropped /\ answer'.changed = s
    BY <1>c DEF DiffNames, Hunked, Of, Dropped, HInv, Typed
  <2>2. Taken' /\ KeptOrDropped'
    BY <1>c, <2>1 DEF AInv, Taken, KeptOrDropped, ranges, Early, Late, IsIgnored, IsLockfile
  <2>3. Listed'
    BY <1>c, <2>1 DEF Listed, ranges, Exempt, Excluded, Unsaid, ToShow, IsSecret
  <2> QED
    BY <1>c, <2>2, <2>3 DEF AInv, WorldOK, ranges
<1>5. CASE VetHunkless
  <2>1. UNCHANGED <<ranges, edits, world, noted, seen, hunks, untracked, ignored, got>>
        /\ pc = "vet" /\ pc' = "again"
    BY <1>5 DEF VetHunkless
  <2>2. ASSUME Calm' PROVE AInv'
    <3>1. PICK lookup, s :
            /\ Lookup(got.changed \union untracked, WithSource, lookup)
            /\ s = {p \in (got.changed \union untracked) \ GoneAtHead(got) :
                       ~IsLockfile(p) /\ ~IsWithheld(p, lookup)}
            /\ answer' = [answer EXCEPT !.changed = s]
      BY <1>5 DEF VetHunkless
    <3>2. lookup = AsDeclared(got.changed \union untracked, WithSource) /\ Calm
      BY <2>1, <2>2, <3>1, LookupCalm DEF Calm
    <3>3. /\ got = DiffNames /\ untracked = Of({"new", "blank"}) /\ seen = Hunked
          /\ Hunked \subseteq Dropped
      BY <2>1, <3>2 DEF AInv, Taken, KeptOrDropped, Late
    <3>4. \A p \in Paths : world[p] \in {"bare", "slid", "blank"} =>
             p \in (got.changed \union untracked) \ GoneAtHead(got)
      <4>1. \A r \in DiffNames.renamed : world[r[1]] = "left"
        BY DEF DiffNames, Of
      <4> QED
        BY <3>3, <4>1 DEF DiffNames, Of, GoneAtHead
    <3>5. \A p \in Paths : world[p] \in {"bare", "slid", "blank"} /\ ~Excluded(p) => p \in s
      BY <3>1, <3>2, <3>4 DEF Excluded, IsLockfile, IsSecret, IsWithheld, IsIgnored, AsDeclared, WithSource
    <3>6. \A p \in Paths : p \in s \union Dropped \/ Exempt(p) \/ ToShow(p)
      BY <3>3, <3>5 DEF AInv, WorldOK, Kinds, Exempt, Hunked, Of
    <3> QED
      BY <1>c, <2>1, <3>1, <3>2, <3>6
  <2> QED
    BY <1>a, <2>1, <2>2
<1>6. CASE ListChanged
  <2>1. UNCHANGED <<ranges, edits, world>> /\ pc = "names"
    BY <1>6 DEF ListChanged
  <2>2. CASE Refused
    BY <2>1, <2>2, RefusedCalm
  <2>3. CASE ~Refused /\ Calm'
    <3>1. PICK s : /\ s = Kept(DiffNames.changed \union untracked, GoneAtHead(DiffNames))
                   /\ answer' = [answer EXCEPT !.changed = s]
                   /\ pc' \in {"again", "show"} /\ got' = DiffNames
                   /\ UNCHANGED <<edits, noted, blind, seen, hunks, untracked, ignored>>
      BY <1>6, <2>3 DEF ListChanged, Fails, Answers
    <3>a. Calm
      BY <2>3, <3>1 DEF Calm
    <3>2. /\ untracked = Of({"new", "blank"}) /\ seen = Hunked
          /\ seen \ hunks \subseteq Dropped
          /\ \A p \in hunks : rule[p] \in Spared /\ ~IsSecret(p) /\ (full \/ ~IsLockfile(p))
          /\ \A p \in Paths : rule[p] \in Spared => ~IsIgnored(p, ignored)
      BY <2>1, <3>a DEF AInv, Taken, KeptOrDropped, Late, HInv, SecretsCounted
    <3>3. \A p \in Paths : world[p] \in {"edited", "came", "new", "bare", "slid", "blank"} =>
             p \in (DiffNames.changed \union untracked) \ GoneAtHead(DiffNames)
      <4>1. \A r \in DiffNames.renamed : world[r[1]] = "left"
        BY DEF DiffNames, Of
      <4> QED
        BY <3>2, <4>1 DEF DiffNames, Of, GoneAtHead
    <3>4. \A p \in Paths : world[p] \in {"edited", "came", "new"} /\ p \in hunks => p \in s
      BY <3>1, <3>2, <3>3 DEF Kept, IsWithheld
    <3>5. \A p \in Paths : world[p] \in {"bare", "slid", "blank"} /\ ~Excluded(p) => p \in s
      BY <3>1, <3>2, <3>3 DEF Kept, IsWithheld, Excluded, IsLockfile, IsSecret, Spared
    <3>6. \A p \in Paths : world[p] = "removed" /\ p \in hunks => ToShow(p) \/ Unsaid(p)
      BY <3>2 DEF ToShow, Unsaid, Spared
    <3>7. \A p \in Paths : p \in s \union Dropped \/ Exempt(p) \/ ToShow(p)
      BY <3>2, <3>4, <3>5, <3>6 DEF AInv, WorldOK, Kinds, Exempt, Hunked, Of
    <3> QED
      BY <1>c, <2>1, <3>1, <3>7, <3>a
  <2> QED
    BY <1>a, <2>1, <2>2, <2>3
<1>7. CASE Display
  <2>1. /\ UNCHANGED <<ranges, edits, world, noted, seen, hunks, untracked, ignored, got>>
        /\ pc = "show" /\ pc' = "done"
    BY <1>7 DEF Display
  <2>2. ASSUME Calm' PROVE AInv'
    <3>1. PICK named, lookup :
            /\ named = got.deleted \union UNION {{r[1], r[2]} : r \in got.renamed}
            /\ Lookup(named, AnyMatch, lookup)
            /\ answer' = [answer EXCEPT
                  !.deleted = {p \in got.deleted : ~IsWithheld(p, lookup)},
                  !.renamed = {r \in got.renamed : ~IsWithheld(r[1], lookup) /\ ~IsWithheld(r[2], lookup)}]
      BY <1>7 DEF Display
    <3>2. lookup = AsDeclared(named, AnyMatch) /\ Calm
      BY <2>1, <2>2, <3>1, LookupCalm DEF Calm
    <3>3. got = DiffNames
      BY <2>1, <3>2 DEF AInv, Taken
    <3>4. /\ answer'.changed = answer.changed /\ answer'.ignored = answer.ignored
          /\ answer'.locks = answer.locks /\ answer'.counted = answer.counted
          /\ answer'.deleted = {p \in got.deleted : ~IsWithheld(p, lookup)}
      BY <3>1 DEF HInv, Typed
    <3>5. \A p \in Paths : ToShow(p) => p \in answer'.deleted
      BY <3>2, <3>3, <3>4 DEF ToShow, DiffNames, Of, IsWithheld, IsIgnored, AsDeclared, AnyMatch
    <3>6. Listed'
      <4>1. \A p \in Paths : Exempt(p)' <=> Exempt(p)
        BY <2>1 DEF ranges, Exempt, Excluded, Unsaid
      <4>2. answer.changed \union Dropped \union answer'.deleted \subseteq Named' \union answer'.counted
        BY <3>4 DEF Dropped, Named
      <4>3. \A p \in Paths : p \in answer.changed \union Dropped \/ Exempt(p) \/ ToShow(p)
        BY <2>1, <3>2 DEF AInv, Listed
      <4> QED
        BY <2>1, <3>5, <4>1, <4>2, <4>3 DEF Listed
    <3>7. Taken' /\ KeptOrDropped'
      <4>1. UNCHANGED <<DiffNames, Hunked, Of({"new", "blank"}), Dropped>>
        BY <2>1, <3>4 DEF DiffNames, Hunked, Of, Dropped
      <4> QED
        BY <2>1, <3>2, <4>1 DEF AInv, Taken, KeptOrDropped, ranges, Early, Late, IsIgnored, IsLockfile
    <3> QED
      BY <2>1, <3>6, <3>7 DEF AInv, WorldOK, ranges
  <2> QED
    BY <1>a, <2>1, <2>2
<1>8. CASE Edit
  <2>1. /\ UNCHANGED ranges /\ edits' = edits + 1
        /\ \E p \in Paths : \E k \in Kinds : world' = [world EXCEPT ![p] = k]
    BY <1>8 DEF Edit
  <2>2. edits' # 0
    BY <2>1 DEF HInv, Typed
  <2> QED
    BY <2>1, <2>2 DEF AInv, WorldOK, Calm, ranges
<1>9. CASE UNCHANGED vars
  <2>1. UNCHANGED <<DiffNames, Hunked, DiffHunks, Of({"new", "blank"}), Dropped, Named>>
    BY <1>9 DEF vars, DiffNames, Hunked, DiffHunks, Of, Dropped, Named
  <2> QED
    BY <1>9, <2>1 DEF vars, ranges, AInv, Calm, WorldOK, Taken, KeptOrDropped, Listed, IsIgnored,
                      IsLockfile, IsSecret, Exempt, Excluded, Unsaid, ToShow
<1> QED
  BY <1>1, <1>2, <1>3, <1>4, <1>5, <1>6, <1>7, <1>8, <1>9 DEF Next, Finished

\* A change that nothing excludes, or that has a hunk, is named or counted,
\* for any repository, unless the run was cut short, was refused a lookup, or
\* found its tree edited; a removal under an excluded directory apart.
THEOREM ChangeAnswered == Spec => []ChangeIsAnswered
<1>1. AInv => ChangeIsAnswered
  BY DEF AInv, Calm, Listed, Exempt, ChangeIsAnswered
<1> QED
  BY HAlways, AInit, ANext, <1>1, PTL DEF Spec
=============================================================================
