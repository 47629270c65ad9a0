-------------------------- MODULE TokenCacheProofs --------------------------
(***************************************************************************)
(* What the corpus cache promises, for any runs, files, texts and sizes,   *)
(* when the tree is left alone under a run and git's filters change        *)
(* nothing the counts see.  What a run may use as a key is then, for as    *)
(* long as it uses it, the id of the text it would read; a staged file     *)
(* that is torn belongs to a run that is over and renames nothing.         *)
(***************************************************************************)
EXTENDS TokenCache, TLAPS

Maps == UNION {[D -> Texts] : D \in SUBSET Files}
States == {"start", "open", "listed", "count", "sweep", "done"}
Stages == {"todo", "read", "save", "staged", "done"}

\* The assumptions about the world.
World == ~MidRun /\ FilterKeepsTerms

Shape ==
    /\ DOMAIN pc = Runs /\ DOMAIN keys = Runs /\ DOMAIN text = Runs
    /\ DOMAIN stage = Runs /\ DOMAIN docs = Runs /\ DOMAIN held = Runs

RepoTyped ==
    /\ tree \in [Files -> Texts] /\ index \in [Files -> Blobs]
    /\ revision \in [Snapshots -> [Files -> Blobs]]

RunTyped(r) ==
    /\ pc[r] \in States /\ stage[r] \in [Files -> Stages]
    /\ keys[r] \in Maps /\ text[r] \in Maps
    /\ DOMAIN docs[r] \subseteq Files /\ DOMAIN held[r] = Files

\* A key is the id of what the run would read.
Keyed(r) == \A f \in DOMAIN keys[r] :
    /\ pc[r] \in {"listed", "count", "sweep"}
    /\ r \in Snapshots => keys[r][f] = revision[r][f]
    /\ r \notin Snapshots => keys[r][f] = index[f]
    /\ r \notin Snapshots /\ pc[r] # "listed" => keys[r][f] = Clean[tree[f]]

ReadNow(r) == \A f \in DOMAIN text[r] : Live(r) /\ text[r][f] = Content(r, f)

Saving(r) == \A f \in Files :
    stage[r][f] \in {"save", "staged"} =>
        pc[r] \in {"count", "sweep"} /\ f \in DOMAIN keys[r] /\ f \in DOMAIN text[r]

HeldNow(r) == Live(r) => \A f \in Files : Content(r, f) \in held[r][f]

Warm(r) == \A f \in DOMAIN docs[r] :
    Live(r) /\ \E t \in held[r][f] : docs[r][f] = Terms[t]

RunInv(r) == RunTyped(r) /\ Keyed(r) /\ ReadNow(r) /\ Saving(r) /\ HeldNow(r) /\ Warm(r)

\* A torn file is a dead run's.
Sound(e) == e.terms = Terms[e.oid] \/ (e.by \in Runs /\ pc[e.by] = "done")
Entry == [oid : Texts, by : Runs \union {Nobody}, file : Files,
          terms : Range(Terms) \union {Torn}, old : BOOLEAN]
ShardInv == shard \subseteq Entry /\ \A e \in shard : Sound(e)

IInv == Shape /\ RepoTyped /\ (\A r \in Runs : RunInv(r)) /\ ShardInv

-----------------------------------------------------------------------------
(* What a run may assume. *)

LEMMA BlobsAreTexts ==
    /\ Blobs \subseteq Texts
    /\ \A t \in Texts : Clean[t] \in Blobs
BY Given DEF Blobs, Range

LEMMA MapFacts ==
    ASSUME NEW m \in Maps
    PROVE  DOMAIN m \subseteq Files /\ \A f \in DOMAIN m : m[f] \in Texts
BY DEF Maps

LEMMA MapIntro ==
    ASSUME NEW D \in SUBSET Files, NEW m \in [D -> Texts]
    PROVE  m \in Maps
BY DEF Maps

LEMMA EmptyMap == Empty \in Maps /\ DOMAIN Empty = {}
<1>1. Empty \in [{} -> Texts]
  BY DEF Empty
<1> QED
  BY <1>1, MapIntro DEF Empty

LEMMA ContentIsText ==
    ASSUME RepoTyped, NEW r \in Runs, NEW f \in Files
    PROVE  Content(r, f) \in Texts
BY BlobsAreTexts DEF RepoTyped, Content

\* A key stands for the counts of what is read.
LEMMA KeyCounts ==
    ASSUME World, RepoTyped, NEW r \in Runs, RunInv(r), pc[r] \in {"count", "sweep"},
           NEW f \in DOMAIN keys[r]
    PROVE  f \in Files /\ keys[r][f] \in Texts /\ Terms[Content(r, f)] = Terms[keys[r][f]]
<1>1. f \in Files /\ keys[r][f] \in Texts
  <2>1. keys[r] \in Maps
    BY DEF RunInv, RunTyped
  <2> QED
    BY <2>1, MapFacts
<1>2. CASE r \in Snapshots
  BY <1>1, <1>2 DEF RunInv, Keyed, Content
<1>3. CASE r \notin Snapshots
  <2>1. keys[r][f] = Clean[tree[f]]
    BY <1>3 DEF RunInv, Keyed
  <2>2. tree[f] \in Texts
    BY <1>1 DEF RepoTyped
  <2> QED
    BY <1>1, <2>1, <2>2, <1>3 DEF World, FilterKeepsTerms, Content
<1> QED
  BY <1>2, <1>3

\* What a run holds of a file is what the file is.
LEMMA TextCounts ==
    ASSUME World, RepoTyped, NEW r \in Runs, RunInv(r), NEW f \in Files, stage[r][f] \in {"save", "staged"}
    PROVE  /\ keys[r][f] \in Texts
           /\ Terms[text[r][f]] = Terms[keys[r][f]]
           /\ text[r][f] \in held[r][f] /\ Live(r)
<1>1. pc[r] \in {"count", "sweep"} /\ f \in DOMAIN keys[r] /\ f \in DOMAIN text[r]
  BY DEF RunInv, Saving
<1>2. text[r][f] = Content(r, f) /\ Live(r)
  BY <1>1 DEF RunInv, ReadNow
<1>3. Content(r, f) \in held[r][f]
  BY <1>2 DEF RunInv, HeldNow
<1> QED
  BY <1>1, <1>2, <1>3, KeyCounts

-----------------------------------------------------------------------------
(* What a step of another does to a run, and to the shard. *)

LEMMA OthersKeep ==
    ASSUME NEW q \in Runs, RunInv(q), UNCHANGED <<tree, index, revision>>,
           pc'[q] = pc[q], keys'[q] = keys[q], text'[q] = text[q], stage'[q] = stage[q],
           docs'[q] = docs[q], held'[q] = held[q]
    PROVE  RunInv(q)'
BY DEF RunInv, RunTyped, Keyed, ReadNow, Saving, HeldNow, Warm, Live, Content

LEMMA ShardKept ==
    ASSUME ShardInv, shard' \subseteq shard, \A q \in Runs : pc[q] = "done" => pc'[q] = "done"
    PROVE  ShardInv'
BY DEF ShardInv, Sound

LEMMA EndsWell ==
    ASSUME Shape, RepoTyped, \A q \in Runs : RunInv(q), NEW r \in Runs, End(r),
           UNCHANGED <<tree, index, revision>>
    PROVE  Shape' /\ (\A q \in Runs : RunInv(q)') /\ (\A q \in Runs : pc[q] = "done" => pc'[q] = "done")
<1>1. Shape'
  BY DEF Shape, End
<1>2. ASSUME NEW q \in Runs, q # r PROVE RunInv(q)'
  <2>1. /\ pc'[q] = pc[q] /\ keys'[q] = keys[q] /\ text'[q] = text[q] /\ stage'[q] = stage[q]
        /\ docs'[q] = docs[q] /\ held'[q] = held[q]
    BY <1>2 DEF End, Shape
  <2> QED
    BY <2>1, OthersKeep
<1>3. RunInv(r)'
  <2>1. /\ pc'[r] = "done" /\ keys'[r] = Empty /\ text'[r] = Empty
        /\ stage'[r] = [f \in Files |-> "done"]
        /\ docs'[r] = Empty /\ held'[r] = [f \in Files |-> {}]
    BY DEF End, Shape
  <2> QED
    BY <2>1, EmptyMap DEF RunInv, RunTyped, Keyed, ReadNow, Saving, HeldNow, Warm, Live, States, Stages
<1> QED
  BY <1>1, <1>2, <1>3 DEF End, Shape

-----------------------------------------------------------------------------

LEMMA InitInv == Init => IInv
<1> SUFFICES ASSUME Init PROVE IInv
  OBVIOUS
<1>1. Shape
  BY DEF Init, Shape
<1>2. RepoTyped
  BY BlobsAreTexts DEF Init, RepoTyped
<1>3. ASSUME NEW r \in Runs PROVE RunInv(r)
  BY <1>3, EmptyMap DEF Init, RunInv, RunTyped, Keyed, ReadNow, Saving, HeldNow, Warm, Live, States, Stages
<1>4. ShardInv
  BY DEF Init, ShardInv
<1> QED
  BY <1>1, <1>2, <1>3, <1>4 DEF IInv

-----------------------------------------------------------------------------
(* Every step keeps the invariant. *)

LEMMA WithMap ==
    ASSUME NEW m \in Maps, NEW f \in Files, NEW t \in Texts
    PROVE  With(m, f, t) \in Maps
<1>1. DOMAIN m \union {f} \in SUBSET Files
  BY MapFacts
<1>2. With(m, f, t) \in [DOMAIN m \union {f} -> Texts]
  BY MapFacts DEF With
<1> QED
  BY <1>1, <1>2, MapIntro

LEMMA StepInv == World /\ IInv /\ [Next]_vars => IInv'
<1> SUFFICES ASSUME World, IInv, [Next]_vars PROVE IInv'
  OBVIOUS
<1>a. Shape /\ RepoTyped /\ ShardInv /\ \A q \in Runs : RunInv(q)
  BY DEF IInv
<1>b. ASSUME NEW r \in Runs, Shape', RunInv(r)', ShardInv', UNCHANGED <<tree, index, revision>>,
             \A q \in Runs \ {r} :
                /\ pc'[q] = pc[q] /\ keys'[q] = keys[q] /\ text'[q] = text[q]
                /\ stage'[q] = stage[q] /\ docs'[q] = docs[q] /\ held'[q] = held[q]
      PROVE  IInv'
  <2>1. \A q \in Runs \ {r} : RunInv(q)'
    BY <1>a, <1>b, OthersKeep
  <2>2. RepoTyped'
    BY <1>a, <1>b DEF RepoTyped
  <2> QED
    BY <1>b, <2>1, <2>2 DEF IInv
<1>1. ASSUME NEW r \in Runs, Preload(r) PROVE IInv'
  <2>1. Shape' /\ shard' = shard /\ UNCHANGED <<tree, index, revision>>
    BY <1>a, <1>1 DEF Preload, Shape
  <2>2. PICK cached \in SUBSET (IF r \in Snapshots THEN {} ELSE Files) :
          text' = [text EXCEPT ![r] = [f \in cached |-> Content(r, f)]]
    BY <1>1 DEF Preload
  <2>3. /\ pc[r] = "start" /\ pc'[r] = "open" /\ keys'[r] = keys[r] /\ stage'[r] = stage[r]
        /\ docs'[r] = docs[r] /\ held'[r] = [f \in Files |-> {Content(r, f)}]
        /\ text'[r] = [f \in cached |-> Content(r, f)]
    BY <1>a, <1>1, <2>2 DEF Preload, Shape
  <2>4. text'[r] \in Maps
    <3>1. cached \in SUBSET Files
      OBVIOUS
    <3>2. text'[r] \in [cached -> Texts]
      BY <1>a, <2>3, <3>1, ContentIsText
    <3> QED
      BY <3>1, <3>2, MapIntro
  <2>5. DOMAIN docs[r] = {} /\ DOMAIN keys[r] = {}
    BY <1>a, <2>3 DEF RunInv, Warm, Keyed, Live
  <2>6. RunInv(r)'
    BY <1>a, <2>1, <2>3, <2>4, <2>5
    DEF RunInv, RunTyped, Keyed, ReadNow, Saving, HeldNow, Warm, Live, Content, States
  <2>7. \A q \in Runs \ {r} :
          /\ pc'[q] = pc[q] /\ keys'[q] = keys[q] /\ text'[q] = text[q]
          /\ stage'[q] = stage[q] /\ docs'[q] = docs[q] /\ held'[q] = held[q]
    BY <1>a, <1>1, <2>2 DEF Preload, Shape
  <2>8. ShardInv'
    BY <1>a, <2>1, <2>3, <2>7, ShardKept
  <2> QED
    BY <1>b, <2>1, <2>6, <2>7, <2>8
<1>2. ASSUME NEW r \in Runs, Open(r) PROVE IInv'
  <2>1. Shape' /\ UNCHANGED <<tree, index, revision, shard, stage, text, docs, held>>
    BY <1>a, <1>2 DEF Open, StartCount, Shape, repo
  <2>2. \A q \in Runs \ {r} : pc'[q] = pc[q] /\ keys'[q] = keys[q]
    BY <1>a, <1>2 DEF Open, StartCount, Shape
  <2>3. /\ pc[r] = "open"
        /\ \/ pc'[r] = "count" /\ keys'[r] = Empty
           \/ r \in Snapshots /\ pc'[r] = "count" /\ keys'[r] = revision[r]
           \/ r \notin Snapshots /\ pc'[r] = "listed"
              /\ \E regular \in SUBSET Files : keys'[r] = [f \in regular |-> index[f]]
    BY <1>a, <1>2 DEF Open, StartCount, RevisionKeys, Shape, Restrict
  <2>4. /\ keys'[r] \in Maps
        /\ \A f \in DOMAIN keys'[r] :
             /\ r \in Snapshots => keys'[r][f] = revision[r][f]
             /\ r \notin Snapshots => pc'[r] = "listed" /\ keys'[r][f] = index[f]
    <3>1. CASE keys'[r] = Empty
      BY <3>1, EmptyMap
    <3>2. CASE r \in Snapshots /\ keys'[r] = revision[r]
      <4>1. revision[r] \in [Files -> Texts]
        BY <1>a, <3>2, BlobsAreTexts DEF RepoTyped
      <4> QED
        BY <3>2, <4>1, MapIntro
    <3>3. ASSUME r \notin Snapshots, pc'[r] = "listed",
                 NEW regular \in SUBSET Files, keys'[r] = [f \in regular |-> index[f]]
          PROVE  /\ keys'[r] \in Maps
                 /\ \A f \in DOMAIN keys'[r] : keys'[r][f] = index[f]
      <4>1. keys'[r] \in [regular -> Texts]
        BY <1>a, <3>3, BlobsAreTexts DEF RepoTyped
      <4> QED
        BY <3>3, <4>1, MapIntro
    <3> QED
      BY <2>3, <3>1, <3>2, <3>3
  <2>5. RunInv(r)'
    <3>1. pc'[r] \in {"listed", "count"} /\ pc[r] = "open"
      BY <2>3
    <3>2. DOMAIN keys[r] = {}
      BY <1>a, <3>1 DEF RunInv, Keyed
    <3>3. RunTyped(r)' /\ Saving(r)'
      BY <1>a, <2>1, <2>4, <3>1, <3>2 DEF RunInv, RunTyped, Saving, States
    <3>4. Keyed(r)'
      BY <2>1, <2>4, <3>1 DEF Keyed
    <3>5. ReadNow(r)' /\ HeldNow(r)' /\ Warm(r)'
      BY <1>a, <2>1, <3>1 DEF RunInv, ReadNow, HeldNow, Warm, Live, Content
    <3> QED
      BY <3>3, <3>4, <3>5 DEF RunInv
  <2>6. ShardInv'
    BY <1>a, <2>1, <2>2, <2>3, ShardKept
  <2> QED
    BY <1>b, <2>1, <2>2, <2>5, <2>6
<1>3. ASSUME NEW r \in Runs, KeepUnmodified(r) PROVE IInv'
  <2>1. Shape' /\ UNCHANGED <<tree, index, revision, shard, stage, text, docs, held>>
    BY <1>a, <1>3 DEF KeepUnmodified, StartCount, Shape, repo
  <2>2. \A q \in Runs \ {r} : pc'[q] = pc[q] /\ keys'[q] = keys[q]
    BY <1>a, <1>3 DEF KeepUnmodified, StartCount, Shape
  <2>3. PICK kept \in SUBSET DOMAIN keys[r] :
          /\ pc[r] = "listed" /\ pc'[r] = "count"
          /\ keys'[r] = [f \in kept |-> keys[r][f]]
          /\ \A f \in kept : ~Modified(f)
    <3>1. CASE keys' = [keys EXCEPT ![r] = Restrict(keys[r], {f \in DOMAIN keys[r] : ~Modified(f)})]
      <4> DEFINE kept == {f \in DOMAIN keys[r] : ~Modified(f)}
      <4>1. keys'[r] = [f \in kept |-> keys[r][f]]
        BY <1>a, <3>1 DEF Shape, Restrict
      <4> QED
        BY <1>a, <1>3, <4>1 DEF KeepUnmodified, StartCount, Shape
    <3>2. CASE keys' = [keys EXCEPT ![r] = Empty]
      <4>1. keys'[r] = [f \in {} |-> keys[r][f]]
        BY <1>a, <3>2 DEF Shape, Empty
      <4> QED
        BY <1>a, <1>3, <4>1 DEF KeepUnmodified, StartCount, Shape
    <3> QED
      BY <1>3, <3>1, <3>2 DEF KeepUnmodified, StartCount
  <2>4. keys[r] \in Maps
    BY <1>a DEF RunInv, RunTyped
  <2>5. keys'[r] \in Maps
    <3>1. kept \in SUBSET Files /\ keys'[r] \in [kept -> Texts]
      BY <2>3, <2>4, MapFacts
    <3> QED
      BY <3>1, MapIntro
  <2>6. Keyed(r)'
    <3> SUFFICES ASSUME NEW f \in kept
                 PROVE  /\ r \in Snapshots => keys[r][f] = revision[r][f]
                        /\ r \notin Snapshots => keys[r][f] = index[f]
                        /\ r \notin Snapshots => keys[r][f] = Clean[tree[f]]
      BY <2>1, <2>3 DEF Keyed
    <3>1. /\ r \in Snapshots => keys[r][f] = revision[r][f]
          /\ r \notin Snapshots => keys[r][f] = index[f]
      BY <1>a, <2>3 DEF RunInv, Keyed
    <3> QED
      BY <2>3, <3>1 DEF Modified
  <2>7. \A f \in Files : stage[r][f] \notin {"save", "staged"}
    BY <1>a, <2>3 DEF RunInv, Saving
  <2>8. RunInv(r)'
    <3>1. RunTyped(r)' /\ Saving(r)'
      BY <1>a, <2>1, <2>3, <2>5, <2>7 DEF RunInv, RunTyped, Saving, States
    <3>2. ReadNow(r)' /\ HeldNow(r)' /\ Warm(r)'
      BY <1>a, <2>1, <2>3 DEF RunInv, ReadNow, HeldNow, Warm, Live, Content
    <3> QED
      BY <2>6, <3>1, <3>2 DEF RunInv
  <2>9. ShardInv'
    BY <1>a, <2>1, <2>2, <2>3, ShardKept
  <2> QED
    BY <1>b, <2>1, <2>2, <2>8, <2>9
<1>4. ASSUME NEW r \in Runs, StartSweep(r) PROVE IInv'
  <2>1. CASE End(r)
    <3>1. UNCHANGED <<tree, index, revision, shard>>
      BY <1>4 DEF StartSweep
    <3> QED
      BY <1>a, <2>1, <3>1, EndsWell, ShardKept DEF IInv, RepoTyped
  <2>2. CASE ~End(r)
    <3>1. /\ pc' = [pc EXCEPT ![r] = "sweep"] /\ pc[r] = "count"
          /\ UNCHANGED <<tree, index, revision, shard, stored, keys, stage, text, docs, held>>
      BY <1>4, <2>2 DEF StartSweep
    <3>2. Shape' /\ pc'[r] = "sweep" /\ \A q \in Runs \ {r} : pc'[q] = pc[q]
      BY <1>a, <3>1 DEF Shape
    <3>3. RunInv(r)'
      BY <1>a, <3>1, <3>2
      DEF RunInv, RunTyped, Keyed, ReadNow, Saving, HeldNow, Warm, Live, Content, States
    <3>4. ShardInv'
      BY <1>a, <3>1, <3>2, ShardKept
    <3> QED
      BY <1>b, <3>1, <3>2, <3>3, <3>4
  <2> QED
    BY <2>1, <2>2
<1>5. ASSUME NEW r \in Runs, Remove(r) PROVE IInv'
  <2>1. shard' \subseteq shard /\ UNCHANGED <<tree, index, revision>>
    BY <1>5 DEF Remove
  <2>2. CASE End(r)
    BY <1>a, <2>1, <2>2, EndsWell, ShardKept DEF IInv, RepoTyped
  <2>3. CASE ~End(r)
    <3>1. UNCHANGED <<pc, keys, stage, text, docs, held>>
      BY <1>5, <2>3 DEF Remove
    <3>2. Shape' /\ \A q \in Runs : RunInv(q)'
      BY <1>a, <2>1, <3>1, OthersKeep DEF Shape
    <3> QED
      BY <1>a, <2>1, <3>1, <3>2, ShardKept DEF IInv, RepoTyped
  <2> QED
    BY <2>2, <2>3
<1>6. ASSUME NEW r \in Runs, Die(r) PROVE IInv'
  <2>1. End(r) /\ UNCHANGED <<tree, index, revision>>
    BY <1>6 DEF Die
  <2>2. Shape' /\ (\A q \in Runs : RunInv(q)') /\ (\A q \in Runs : pc[q] = "done" => pc'[q] = "done")
    BY <1>a, <2>1, EndsWell
  <2>3. pc'[r] = "done"
    BY <1>a, <2>1 DEF End, Shape
  <2>4. ShardInv'
    <3>1. CASE UNCHANGED shard
      BY <1>a, <2>2, <3>1, ShardKept
    <3>2. ASSUME NEW f \in Files, stage[r][f] = "save", shard' = shard \union {Staged(r, f, Torn)}
          PROVE  ShardInv'
      <4>1. keys[r][f] \in Texts
        BY <1>a, <3>2, TextCounts
      <4>2. Staged(r, f, Torn) \in Entry /\ Staged(r, f, Torn).by = r
        BY <4>1 DEF Staged, Entry
      <4>3. \A e \in shard : Sound(e)'
        BY <1>a, <2>2 DEF ShardInv, Sound
      <4> QED
        BY <1>a, <2>3, <3>2, <4>2, <4>3 DEF ShardInv, Sound
    <3> QED
      BY <1>6, <3>1, <3>2 DEF Die
  <2> QED
    BY <1>a, <2>1, <2>2, <2>4 DEF IInv, RepoTyped
<1>7. ASSUME NEW r \in Runs, NEW f \in Files, Look(r, f) PROVE IInv'
  <2>1. /\ Shape' /\ UNCHANGED <<tree, index, revision, shard, pc, keys, text, held>>
        /\ pc[r] = "count" /\ stage[r][f] = "todo"
    BY <1>a, <1>7 DEF Look, Counted, Step, Shape, repo
  <2>2. \A q \in Runs \ {r} : stage'[q] = stage[q] /\ docs'[q] = docs[q]
    BY <1>a, <1>7 DEF Look, Counted, Step, Shape
  <2>3. stage'[r] \in [Files -> Stages] /\ Saving(r)'
    <3>1. stage[r] \in [Files -> Stages]
      BY <1>a DEF RunInv, RunTyped
    <3>2. \E s \in {"done", "read"} : stage'[r] = [stage[r] EXCEPT ![f] = s]
      BY <1>a, <1>7 DEF Look, Counted, Step, Shape
    <3>3. PICK s \in {"done", "read"} : stage'[r] = [stage[r] EXCEPT ![f] = s]
      BY <3>2
    <3>4. \A g \in Files : stage'[r][g] \in {"save", "staged"} => stage[r][g] = stage'[r][g]
      BY <3>1, <3>3
    <3> QED
      BY <1>a, <2>1, <3>1, <3>3, <3>4 DEF RunInv, Saving, Stages
  <2>4. DOMAIN docs'[r] \subseteq Files /\ Warm(r)'
    <3>1. CASE docs' = docs
      BY <1>a, <2>1, <3>1 DEF RunInv, RunTyped, Warm, Live
    <3>2. ASSUME f \in DOMAIN keys[r], NEW e \in Entries(keys[r][f]), Counted(r, f, e.terms)
          PROVE  DOMAIN docs'[r] \subseteq Files /\ Warm(r)'
      <4>1. docs'[r] = With(docs[r], f, e.terms)
        BY <1>a, <3>2 DEF Counted, Shape
      <4>2. e.terms = Terms[e.oid] /\ e.oid = keys[r][f]
        BY <1>a, Given DEF ShardInv, Sound, Entries, Entry
      <4>3. e.terms = Terms[Content(r, f)]
        BY <1>a, <2>1, <3>2, <4>2, KeyCounts
      <4>4. Content(r, f) \in held[r][f] /\ Live(r)
        BY <1>a, <2>1 DEF RunInv, HeldNow, Live
      <4> QED
        BY <1>a, <2>1, <4>1, <4>3, <4>4 DEF RunInv, RunTyped, Warm, With, Live
    <3> QED
      BY <1>7, <3>1, <3>2 DEF Look
  <2>5. RunInv(r)'
    BY <1>a, <2>1, <2>3, <2>4 DEF RunInv, RunTyped, Keyed, ReadNow, HeldNow, Live, Content
  <2>6. ShardInv'
    BY <1>a, <2>1, ShardKept
  <2> QED
    BY <1>b, <2>1, <2>2, <2>5, <2>6
<1>8. ASSUME NEW r \in Runs, NEW f \in Files, ReadFile(r, f) PROVE IInv'
  <2>1. /\ Shape' /\ UNCHANGED <<tree, index, revision, shard, pc, keys, held>>
        /\ pc[r] = "count" /\ stage[r][f] = "read"
    BY <1>a, <1>8 DEF ReadFile, Counted, Step, Shape, repo
  <2>2. \A q \in Runs \ {r} : stage'[q] = stage[q] /\ docs'[q] = docs[q] /\ text'[q] = text[q]
    BY <1>a, <1>8 DEF ReadFile, Counted, Step, Shape
  <2>3. stage[r] \in [Files -> Stages] /\ text[r] \in Maps /\ keys[r] \in Maps
    BY <1>a DEF RunInv, RunTyped
  <2>4. Found(r, f) = Content(r, f) /\ Content(r, f) \in Texts /\ Content(r, f) \in held[r][f] /\ Live(r)
    BY <1>a, <2>1, ContentIsText DEF RunInv, ReadNow, HeldNow, Live, Found
  <2>5. /\ text'[r] \in Maps
        /\ \A g \in DOMAIN text'[r] : text'[r][g] = Content(r, g)
        /\ DOMAIN text[r] \subseteq DOMAIN text'[r]
        /\ stage'[r] = [stage[r] EXCEPT ![f] = "save"] => f \in DOMAIN text'[r] /\ f \in DOMAIN keys[r]
    <3>1. CASE text' = text /\ stage' = [stage EXCEPT ![r][f] = "done"]
      <4>1. stage'[r] # [stage[r] EXCEPT ![f] = "save"]
        BY <1>a, <2>3, <3>1 DEF Shape
      <4> QED
        BY <1>a, <2>3, <3>1, <4>1 DEF RunInv, ReadNow
    <3>2. CASE f \in DOMAIN keys[r] /\ text' = [text EXCEPT ![r] = With(@, f, Found(r, f))]
      <4>1. text'[r] = With(text[r], f, Content(r, f))
        BY <1>a, <2>4, <3>2 DEF Shape
      <4>2. text'[r] \in Maps
        BY <2>3, <2>4, <4>1, WithMap
      <4> QED
        BY <1>a, <3>2, <4>1, <4>2 DEF With, RunInv, ReadNow
    <3> QED
      BY <1>8, <3>1, <3>2 DEF ReadFile, Counted, Step
  <2>6. \E s \in {"done", "save"} : stage'[r] = [stage[r] EXCEPT ![f] = s]
    BY <1>a, <1>8 DEF ReadFile, Counted, Step, Shape
  <2>7. stage'[r] \in [Files -> Stages] /\ Saving(r)'
    <3>1. PICK s \in {"done", "save"} : stage'[r] = [stage[r] EXCEPT ![f] = s]
      BY <2>6
    <3>2. \A g \in Files \ {f} : stage'[r][g] = stage[r][g]
      BY <2>3, <3>1
    <3>3. stage'[r][f] = s /\ s \in Stages
      BY <2>3, <3>1 DEF Stages
    <3>4. \A g \in Files \ {f} : stage'[r][g] \in {"save", "staged"} =>
             g \in DOMAIN keys[r] /\ g \in DOMAIN text'[r]
      BY <1>a, <2>5, <3>2 DEF RunInv, Saving
    <3>5. s = "save" => f \in DOMAIN keys[r] /\ f \in DOMAIN text'[r]
      BY <2>5, <3>1
    <3> QED
      BY <2>1, <2>3, <3>1, <3>3, <3>4, <3>5 DEF Saving, Stages
  <2>8. DOMAIN docs'[r] \subseteq Files /\ Warm(r)'
    <3>1. CASE docs' = docs \/ docs' = [docs EXCEPT ![r] = docs[r]]
      BY <1>a, <2>1, <3>1 DEF RunInv, RunTyped, Warm, Live, Shape
    <3>2. CASE Counted(r, f, Terms[Found(r, f)])
      <4>1. docs'[r] = With(docs[r], f, Terms[Content(r, f)])
        BY <1>a, <2>4, <3>2 DEF Counted, Shape
      <4> QED
        BY <1>a, <2>1, <2>4, <4>1 DEF RunInv, RunTyped, Warm, With, Live
    <3> QED
      BY <1>8, <3>1, <3>2 DEF ReadFile
  <2>9. RunInv(r)'
    BY <1>a, <2>1, <2>4, <2>5, <2>7, <2>8 DEF RunInv, RunTyped, Keyed, ReadNow, HeldNow, Live, Content
  <2>10. ShardInv'
    BY <1>a, <2>1, ShardKept
  <2> QED
    BY <1>b, <2>1, <2>2, <2>9, <2>10
<1>c. ASSUME NEW r \in Runs, NEW f \in Files, Shape', UNCHANGED <<tree, index, revision, pc, keys, text, held>>,
             stage[r][f] \in {"save", "staged"}, ShardInv',
             \/ stage' = [stage EXCEPT ![r][f] = "staged"] /\ docs' = docs
             \/ Counted(r, f, Terms[text[r][f]])
      PROVE  IInv'
  <2>1. \A q \in Runs \ {r} : stage'[q] = stage[q] /\ docs'[q] = docs[q]
    BY <1>a, <1>c DEF Counted, Step, Shape
  <2>2. PICK s \in {"staged", "done"} : stage'[r] = [stage[r] EXCEPT ![f] = s]
    BY <1>a, <1>c DEF Counted, Step, Shape
  <2>3. stage[r] \in [Files -> Stages]
    BY <1>a DEF RunInv, RunTyped
  <2>4. stage'[r] \in [Files -> Stages] /\ Saving(r)'
    <3>1. \A g \in Files : stage'[r][g] \in {"save", "staged"} => stage[r][g] \in {"save", "staged"}
      BY <1>c, <2>2, <2>3
    <3> QED
      BY <1>a, <1>c, <2>2, <2>3, <3>1 DEF RunInv, Saving, Stages
  <2>5. DOMAIN docs'[r] \subseteq Files /\ Warm(r)'
    <3>1. CASE docs' = docs
      BY <1>a, <1>c, <3>1 DEF RunInv, RunTyped, Warm, Live
    <3>2. CASE Counted(r, f, Terms[text[r][f]])
      <4>1. docs'[r] = With(docs[r], f, Terms[text[r][f]])
        BY <1>a, <3>2 DEF Counted, Shape
      <4>2. text[r][f] \in held[r][f] /\ Live(r)
        BY <1>a, <1>c, TextCounts
      <4> QED
        BY <1>a, <1>c, <4>1, <4>2 DEF RunInv, RunTyped, Warm, With, Live
    <3> QED
      BY <1>c, <3>1, <3>2
  <2>6. RunInv(r)'
    BY <1>a, <1>c, <2>4, <2>5 DEF RunInv, RunTyped, Keyed, ReadNow, HeldNow, Live, Content
  <2> QED
    BY <1>b, <1>c, <2>1, <2>6
<1>9. ASSUME NEW r \in Runs, NEW f \in Files, Save(r, f) PROVE IInv'
  <2>1. /\ Shape' /\ UNCHANGED <<tree, index, revision, pc, keys, text, held>>
        /\ stage[r][f] = "save"
    BY <1>a, <1>9 DEF Save, Counted, Step, Shape, repo
  <2>2. ShardInv'
    <3>1. CASE UNCHANGED shard
      BY <1>a, <2>1, <3>1, ShardKept
    <3>2. CASE shard' = shard \union {Staged(r, f, Terms[text[r][f]])}
      <4>1. keys[r][f] \in Texts /\ Terms[text[r][f]] = Terms[keys[r][f]]
        BY <1>a, <2>1, TextCounts
      <4>2. Terms[keys[r][f]] \in Range(Terms)
        BY <4>1, Given DEF Range
      <4>3. Staged(r, f, Terms[text[r][f]]) \in Entry
        BY <4>1, <4>2 DEF Staged, Entry
      <4>4. \A e : e = Staged(r, f, Terms[text[r][f]]) => Sound(e)'
        BY <2>1, <4>1 DEF Sound, Staged
      <4> QED
        <5>1. \A e \in shard : Sound(e)'
          BY <1>a, <2>1 DEF ShardInv, Sound
        <5> QED
          BY <1>a, <3>2, <4>3, <4>4, <5>1 DEF ShardInv
    <3> QED
      BY <1>9, <3>1, <3>2 DEF Save
  <2>3. \/ stage' = [stage EXCEPT ![r][f] = "staged"] /\ docs' = docs
        \/ Counted(r, f, Terms[text[r][f]])
    BY <1>9 DEF Save, Step
  <2> QED
    BY <1>c, <2>1, <2>2, <2>3
<1>10. ASSUME NEW r \in Runs, NEW f \in Files, Publish(r, f) PROVE IInv'
  <2>1. /\ Shape' /\ UNCHANGED <<tree, index, revision, pc, keys, text, held>>
        /\ pc[r] = "count" /\ stage[r][f] = "staged" /\ Counted(r, f, Terms[text[r][f]])
    BY <1>a, <1>10 DEF Publish, Counted, Step, Shape, repo
  <2>2. ShardInv'
    <3>1. CASE UNCHANGED shard
      BY <1>a, <2>1, <3>1, ShardKept
    <3>2. CASE shard' = Renamed(r, f)
      <4>1. ASSUME NEW e \in shard PROVE /\ Sound(e)'
                                         /\ Own(e, r, f) => /\ [e EXCEPT !.by = Nobody] \in Entry
                                                            /\ Sound([e EXCEPT !.by = Nobody])'
        <5>1. e \in Entry /\ Sound(e)
          BY <1>a, <4>1 DEF ShardInv
        <5>2. Own(e, r, f) => e.terms = Terms[e.oid]
          BY <2>1, <5>1 DEF Own, Sound
        <5> QED
          BY <2>1, <5>1, <5>2 DEF Entry, Sound
      <4>2. \A d \in shard' : \E e \in shard :
               d = e \/ (Own(e, r, f) /\ d = [e EXCEPT !.by = Nobody])
        BY <3>2 DEF Renamed
      <4> QED
        BY <1>a, <4>1, <4>2 DEF ShardInv
    <3> QED
      BY <1>10, <3>1, <3>2 DEF Publish
  <2> QED
    BY <1>c, <2>1, <2>2
<1>11. CASE Age
  <2>1. UNCHANGED <<tree, index, revision, pc, keys, stage, text, docs, held>>
    BY <1>11 DEF Age, repo
  <2>2. PICK e \in shard : shard' = (shard \ {e}) \union {[e EXCEPT !.old = TRUE]}
    BY <1>11 DEF Age
  <2>3. [e EXCEPT !.old = TRUE] \in Entry /\ Sound([e EXCEPT !.old = TRUE])
    BY <1>a DEF ShardInv, Entry, Sound
  <2>4. ShardInv'
    BY <1>a, <2>1, <2>2, <2>3 DEF ShardInv, Sound
  <2>5. Shape' /\ RepoTyped' /\ \A q \in Runs : RunInv(q)'
    BY <1>a, <2>1, OthersKeep DEF Shape, RepoTyped
  <2> QED
    BY <2>4, <2>5 DEF IInv
<1>12. ASSUME NEW f \in Files, StageEdit(f) PROVE IInv'
  <2>1. UNCHANGED <<tree, revision, shard, pc, keys, stage, text, docs, held>>
    BY <1>12 DEF StageEdit
  <2>2. RepoTyped'
    BY <1>a, <1>12, <2>1, BlobsAreTexts DEF RepoTyped, StageEdit
  <2>3. ASSUME NEW q \in Runs PROVE RunInv(q)'
    <3>1. q \in Snapshots \/ ~Live(q)
      BY <1>12 DEF StageEdit, Quiet, World
    <3>2. q \notin Snapshots => DOMAIN keys[q] = {}
      BY <1>a, <3>1 DEF RunInv, Keyed, Live
    <3> QED
      BY <1>a, <2>1, <3>2
      DEF RunInv, RunTyped, Keyed, ReadNow, Saving, HeldNow, Warm, Live, Content
  <2>4. Shape' /\ ShardInv'
    BY <1>a, <2>1, ShardKept DEF Shape
  <2> QED
    BY <2>2, <2>3, <2>4 DEF IInv
<1>13. ASSUME NEW f \in Files, NEW t \in Texts, Edit(f, t) PROVE IInv'
  <2>1. /\ UNCHANGED <<index, revision, shard, pc, keys, stage, text, docs>>
        /\ tree' = [tree EXCEPT ![f] = t]
    BY <1>13 DEF Edit
  <2>2. RepoTyped'
    BY <1>a, <2>1 DEF RepoTyped
  <2>3. ASSUME NEW q \in Runs PROVE RunInv(q)' /\ held'[q] = held[q]
    <3>1. q \in Snapshots \/ ~Live(q)
      BY <1>13 DEF Edit, Quiet, World
    <3>2. held'[q] = held[q]
      BY <1>13, <3>1 DEF Edit
    <3>3. q \notin Snapshots => DOMAIN keys[q] = {} /\ DOMAIN text[q] = {} /\ DOMAIN docs[q] = {}
      BY <1>a, <3>1 DEF RunInv, Keyed, ReadNow, Warm, Live
    <3>4. CASE q \in Snapshots
      BY <1>a, <2>1, <3>2, <3>4
      DEF RunInv, RunTyped, Keyed, ReadNow, Saving, HeldNow, Warm, Live, Content
    <3>5. CASE q \notin Snapshots
      BY <1>a, <2>1, <3>1, <3>2, <3>3, <3>5
      DEF RunInv, RunTyped, Keyed, ReadNow, Saving, HeldNow, Warm, Live
    <3> QED
      BY <3>2, <3>4, <3>5
  <2>4. Shape' /\ ShardInv'
    BY <1>a, <1>13, <2>1, ShardKept DEF Shape, Edit
  <2> QED
    BY <2>2, <2>3, <2>4 DEF IInv
<1>14. CASE UNCHANGED vars
  <2>1. UNCHANGED <<tree, index, revision, shard, pc, keys, stage, text, docs, held>>
    BY <1>14 DEF vars, repo
  <2> QED
    BY <1>a, <2>1, OthersKeep, ShardKept DEF IInv, Shape, RepoTyped
<1> QED
  BY <1>1, <1>2, <1>3, <1>4, <1>5, <1>6, <1>7, <1>8, <1>9, <1>10, <1>11, <1>12, <1>13, <1>14 DEF Next

-----------------------------------------------------------------------------

\* With the tree at rest under a run, and filters the counts do not see, an
\* entry holds the counts of the content it is named after: for any number of
\* runs that overlap, die and sweep.
THEOREM EntriesHold == ASSUME World PROVE Spec => []EntriesTrue
<1>1. IInv => EntriesTrue
  BY Given DEF IInv, ShardInv, Sound, EntriesTrue
<1>2. World /\ IInv /\ [Next]_vars => IInv'
  BY StepInv
<1>3. IInv /\ [Next]_vars => IInv'
  BY <1>2
<1> QED
  BY InitInv, <1>1, <1>3, PTL DEF Spec

\* And a run that uses the cache counts what it would have counted without.
THEOREM WarmHolds == ASSUME World PROVE Spec => []WarmIsCold
<1>1. IInv => WarmIsCold
  BY DEF IInv, RunInv, Warm, WarmIsCold
<1>2. World /\ IInv /\ [Next]_vars => IInv'
  BY StepInv
<1>3. IInv /\ [Next]_vars => IInv'
  BY <1>2
<1> QED
  BY InitInv, <1>1, <1>3, PTL DEF Spec
=============================================================================
