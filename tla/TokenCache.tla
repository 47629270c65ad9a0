----------------------------- MODULE TokenCache -----------------------------
(***************************************************************************)
(* The token counts of files that runs share on disk (token_corpus.rs),    *)
(* each kept under the id git gives a file's content.  A run asks git for  *)
(* the ids of the files it takes to be unmodified, and later reads the     *)
(* files whose ids have no entry; its workers stage an entry beside its    *)
(* place and rename it; at the end it sweeps a shard over its share.  Runs *)
(* overlap, die half way, and the tree changes between them.               *)
(*                                                                         *)
(* A blob's id is the text it holds.  One shard, of entries of one size.   *)
(***************************************************************************)
EXTENDS Integers, FiniteSets, Functions

CONSTANTS
    Runs, Snapshots, \* the runs, and those of them that read a revision
    Files,           \* the files that did not change, all_candidates
    Texts,
    Clean,           \* the blob git makes of a text (its filters)
    Terms,           \* extract_identifier_counts of a text
    MidRun,          \* whether the tree may change under a run
    ShardLimit,      \* entries a shard may hold
    MaxEdits,        \* edits of a behaviour
    Nobody           \* owner of a published entry

ASSUME Given ==
    /\ Snapshots \subseteq Runs /\ Nobody \notin Runs
    /\ Clean \in [Texts -> Texts] /\ \A t \in Texts : Clean[Clean[t]] = Clean[t]
    /\ DOMAIN Terms = Texts
    /\ MidRun \in BOOLEAN /\ ShardLimit \in Nat /\ MaxEdits \in Nat

VARIABLES
    tree, index,  \* the working tree and what is staged of it
    edits,
    revision,     \* snapshot -> the files it reads
    pc,           \* run -> "start", "open", "listed", "count", "sweep", "done"
    stored,       \* run -> whether it has a store
    keys,         \* run -> the ids it may use, by file
    stage,        \* run -> file -> "todo", "read", "save", "staged", "done"
    text,         \* run -> file -> what was read
    docs,         \* run -> the counts it works with, by file
    shard,        \* the files of the shard
    sweep,        \* run -> the files its sweep listed, and their total
    held          \* history: run -> file -> the texts it had during the run

repo  == <<tree, index, edits, revision, held>>
vars  == <<repo, pc, stored, keys, stage, text, docs, shard, sweep>>

Blobs == Range(Clean)
Empty == [f \in {} |-> {}]
Torn  == "torn"

Live(r) == pc[r] \notin {"start", "done"}
Quiet == MidRun \/ \A r \in Runs \ Snapshots : ~Live(r)

Content(r, f) == IF r \in Snapshots THEN revision[r][f] ELSE tree[f]

Init ==
    /\ tree \in [Files -> Texts] /\ index = [f \in Files |-> Clean[tree[f]]]
    /\ revision \in [Snapshots -> [Files -> Blobs]]
    /\ edits = 0
    /\ pc = [r \in Runs |-> "start"]
    /\ stored = [r \in Runs |-> FALSE]
    /\ keys = [r \in Runs |-> Empty]
    /\ stage = [r \in Runs |-> [f \in Files |-> "todo"]]
    /\ text = [r \in Runs |-> Empty]
    /\ docs = [r \in Runs |-> Empty]
    /\ shard = {}
    /\ sweep = [r \in Runs |-> [files |-> {}, total |-> 0]]
    /\ held = [r \in Runs |-> [f \in Files |-> {}]]

With(g, f, x) == [d \in DOMAIN g \union {f} |-> IF d = f THEN x ELSE g[d]]

-----------------------------------------------------------------------------
(* The ids: of a revision, from its listing; of the working tree, from the *)
(* index, less what differs from it.                                       *)

StartCount(r, ids) ==
    /\ pc' = [pc EXCEPT ![r] = "count"]
    /\ keys' = [keys EXCEPT ![r] = ids]

\* Mutant: a revision that cannot be listed takes the ids of the index.
RevisionKeysOfIndex(r) == {revision[r], index}

\* list_blobs answers or fails; a run without ids reads every file.
RevisionKeys(r) == {revision[r], Empty}

\* The run's file cache: texts read before the ids are asked for (those of a
\* revision are the same whenever they are read).
Preload(r) ==
    /\ pc[r] = "start"
    /\ pc' = [pc EXCEPT ![r] = "open"]
    /\ held' = [held EXCEPT ![r] = [f \in Files |-> {Content(r, f)}]]
    /\ \E cached \in SUBSET (IF r \in Snapshots THEN {} ELSE Files) :
         text' = [text EXCEPT ![r] = [f \in cached |-> Content(r, f)]]
    /\ UNCHANGED <<tree, index, edits, revision, stored, keys, stage, docs, shard, sweep>>

Open(r) ==
    /\ pc[r] = "open"
    /\ \/ /\ StartCount(r, Empty)
          /\ UNCHANGED stored
       \/ /\ r \in Snapshots
          /\ \E ids \in RevisionKeys(r) : StartCount(r, ids)
          /\ stored' = [stored EXCEPT ![r] = TRUE]
       \/ /\ r \notin Snapshots
          /\ \E regular \in SUBSET Files :   \* ls-files: no links, no conflicts
               keys' = [keys EXCEPT ![r] = Restrict(index, regular)]
          /\ pc' = [pc EXCEPT ![r] = "listed"]
          /\ stored' = [stored EXCEPT ![r] = TRUE]
    /\ UNCHANGED <<repo, stage, text, docs, shard, sweep>>

\* Mutant: what differs from the index is not asked for.
ModifiedNever(f) == FALSE

\* diff-files, of the index as it is now; either call may fail.
Modified(f) == Clean[tree[f]] # index[f]

KeepUnmodified(r) ==
    /\ pc[r] = "listed"
    /\ \/ StartCount(r, Restrict(keys[r], {f \in DOMAIN keys[r] : ~Modified(f)}))
       \/ StartCount(r, Empty)
    /\ UNCHANGED <<repo, stored, stage, text, docs, shard, sweep>>

-----------------------------------------------------------------------------
(* A worker and its file.                                                  *)

Step(r, f, s) == stage' = [stage EXCEPT ![r][f] = s]
Counted(r, f, terms) == Step(r, f, "done") /\ docs' = [docs EXCEPT ![r] = With(@, f, terms)]

Entries(o) == {e \in shard : e.oid = o /\ e.by = Nobody}

Look(r, f) ==
    /\ pc[r] = "count" /\ stage[r][f] = "todo"
    /\ \/ /\ stored[r] /\ f \in DOMAIN keys[r]
          /\ \E e \in Entries(keys[r][f]) : Counted(r, f, e.terms)
       \/ /\ f \in DOMAIN keys[r] => Entries(keys[r][f]) = {}
          /\ Step(r, f, "read")
          /\ UNCHANGED docs
    /\ UNCHANGED <<repo, pc, stored, keys, text, shard, sweep>>

Found(r, f) == IF f \in DOMAIN text[r] THEN text[r][f] ELSE Content(r, f)

ReadFile(r, f) ==
    /\ pc[r] = "count" /\ stage[r][f] = "read"
    /\ \/ /\ f \notin DOMAIN text[r]          \* unreadable, or not text
          /\ Step(r, f, "done")
          /\ UNCHANGED <<text, docs>>
       \/ /\ f \in DOMAIN keys[r]
          /\ Step(r, f, "save")
          /\ text' = [text EXCEPT ![r] = With(@, f, Found(r, f))]
          /\ UNCHANGED docs
       \/ /\ f \notin DOMAIN keys[r]
          /\ Counted(r, f, Terms[Found(r, f)])
          /\ UNCHANGED text
    /\ UNCHANGED <<repo, pc, stored, keys, shard, sweep>>

Staged(r, f, terms) ==
    [oid |-> keys[r][f], by |-> r, file |-> f, terms |-> terms, old |-> FALSE]

Save(r, f) ==
    /\ pc[r] = "count" /\ stage[r][f] = "save"
    /\ \/ /\ shard' = shard \union {Staged(r, f, Terms[text[r][f]])}
          /\ Step(r, f, "staged")
          /\ UNCHANGED docs
       \/ /\ Counted(r, f, Terms[text[r][f]])   \* no room, no permission
          /\ UNCHANGED shard
    /\ UNCHANGED <<repo, pc, stored, keys, text, sweep>>

\* The rename: the staged file takes the entry's place.
Own(e, r, f) == e.by = r /\ e.file = f
Renamed(r, f) ==
    {IF Own(e, r, f) THEN [e EXCEPT !.by = Nobody] ELSE e : e \in shard \ Entries(keys[r][f])}

Publish(r, f) ==
    /\ pc[r] = "count" /\ stage[r][f] = "staged"
    /\ \/ /\ \E e \in shard : Own(e, r, f)
          /\ shard' = Renamed(r, f)
       \/ /\ ~\E e \in shard : Own(e, r, f)   \* another's sweep had it
          /\ UNCHANGED shard
    /\ Counted(r, f, Terms[text[r][f]])
    /\ UNCHANGED <<repo, pc, stored, keys, text, sweep>>

-----------------------------------------------------------------------------
(* The sweep of a shard over its share.                                    *)

\* What a run kept is gone when it ends.
End(r) ==
    /\ pc' = [pc EXCEPT ![r] = "done"]
    /\ keys' = [keys EXCEPT ![r] = Empty]
    /\ text' = [text EXCEPT ![r] = Empty]
    /\ stage' = [stage EXCEPT ![r] = [f \in Files |-> "done"]]
    /\ sweep' = [sweep EXCEPT ![r] = [files |-> {}, total |-> 0]]
    /\ stored' = [stored EXCEPT ![r] = FALSE]
    /\ docs' = [docs EXCEPT ![r] = Empty]
    /\ held' = [held EXCEPT ![r] = [f \in Files |-> {}]]

Evictable(e) == e.by = Nobody \/ e.old
Target == (4 * ShardLimit) \div 5

\* Every file is counted, or the run was stopped before it took them all.
StartSweep(r) ==
    /\ pc[r] = "count"
    /\ \A f \in Files : stage[r][f] \in {"todo", "done"}
    /\ LET listed == {e \in shard : Evictable(e)}
       IN \/ /\ stored[r] /\ Cardinality(listed) > ShardLimit
             /\ sweep' = [sweep EXCEPT ![r] = [files |-> listed, total |-> Cardinality(listed)]]
             /\ pc' = [pc EXCEPT ![r] = "sweep"]
             /\ UNCHANGED <<stored, keys, stage, text, docs, held>>
          \/ End(r)    \* in its share, or not its turn
    /\ UNCHANGED <<tree, index, edits, revision, shard>>

SameName(d, e) == d.oid = e.oid /\ d.by = e.by /\ (d.by # Nobody => d.file = e.file)

\* The code takes the oldest first; any order is allowed here.
Remove(r) ==
    /\ pc[r] = "sweep"
    /\ \/ /\ sweep[r].files = {} \/ sweep[r].total <= Target
          /\ End(r)
          /\ UNCHANGED shard
       \/ /\ sweep[r].total > Target
          /\ \E d \in sweep[r].files :
               LET gone == {e \in shard : SameName(e, d)}
               IN /\ shard' = shard \ gone
                  /\ sweep' = [sweep EXCEPT ![r] =
                        [files |-> @.files \ {d}, total |-> IF gone = {} THEN @.total ELSE @.total - 1]]
          /\ UNCHANGED <<pc, stored, keys, stage, text, docs, held>>
    /\ UNCHANGED <<tree, index, edits, revision>>

-----------------------------------------------------------------------------
(* The world: a process dies, a minute passes, somebody edits and stages.  *)

Die(r) ==
    /\ Live(r)
    /\ End(r)
    /\ \/ UNCHANGED shard
       \/ \E f \in Files : stage[r][f] = "save" /\ shard' = shard \union {Staged(r, f, Torn)}
    /\ UNCHANGED <<tree, index, edits, revision>>

Age ==
    /\ \E e \in shard :
         /\ e.by # Nobody /\ ~e.old
         /\ shard' = (shard \ {e}) \union {[e EXCEPT !.old = TRUE]}
    /\ UNCHANGED <<repo, pc, stored, keys, stage, text, docs, sweep>>

Edit(f, t) ==
    /\ Quiet /\ edits < MaxEdits /\ t # tree[f]
    /\ tree' = [tree EXCEPT ![f] = t]
    /\ edits' = edits + 1
    /\ held' = [r \in Runs |-> IF r \in Snapshots \/ ~Live(r) THEN held[r]
                               ELSE [held[r] EXCEPT ![f] = @ \union {t}]]
    /\ UNCHANGED <<index, revision, pc, stored, keys, stage, text, docs, shard, sweep>>

StageEdit(f) ==
    /\ Quiet /\ Modified(f)
    /\ index' = [index EXCEPT ![f] = Clean[tree[f]]]
    /\ UNCHANGED <<tree, edits, revision, held, pc, stored, keys, stage, text, docs, shard, sweep>>

Next ==
    \/ \E r \in Runs :
         \/ Preload(r) \/ Open(r) \/ KeepUnmodified(r) \/ StartSweep(r) \/ Remove(r) \/ Die(r)
         \/ \E f \in Files : Look(r, f) \/ ReadFile(r, f) \/ Save(r, f) \/ Publish(r, f)
    \/ Age
    \/ \E f \in Files : StageEdit(f) \/ \E t \in Texts : Edit(f, t)

Spec == Init /\ [][Next]_vars

-----------------------------------------------------------------------------
(* Properties.                                                             *)

\* What a filter of git changes is nothing the counts see (line endings).
FilterKeepsTerms == \A t \in Texts : Terms[Clean[t]] = Terms[t]

\* An entry under the id of a content holds the counts of that content: two
\* runs that write it at once, a death between write and rename, a sweep that
\* takes a staged file and a tree that changes between runs leave no entry
\* torn or under another content's id ("silently poisoning results").
EntriesTrue == \A e \in shard : e.by = Nobody => e.terms = Terms[e.oid]

\* Whatever the cache gave it, a run works with the counts of a text the file
\* had while it ran ("keeps cold and warm runs bit-equivalent").
WarmIsCold ==
    \A r \in Runs : \A f \in DOMAIN docs[r] :
        \E t \in held[r][f] : docs[r][f] = Terms[t]
=============================================================================
