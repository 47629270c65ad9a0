------------------------------ MODULE ChangeSet ------------------------------
(***************************************************************************)
(* What a run answers about the change it was asked about, before a single *)
(* fragment is scored: which changed paths are named, which are only       *)
(* counted, and which are listed apart.  Several git commands are asked in *)
(* a row (the diff, the untracked files, the ignore rules, the names), each *)
(* may fail or be cut short by the run's deadline, and in a working tree a *)
(* file may be edited between two of them.                                 *)
(*                                                                         *)
(* pipeline.rs (resolve_change_set, its helpers, build_diff_context_full)  *)
(* and git.rs (diff_names, find_ignored_paths_inner).                      *)
(***************************************************************************)
EXTENDS Naturals, FiniteSets

CONSTANTS
    Paths,      \* repository paths
    MaxEdits    \* bound: edits of the working tree during the run

ASSUME ChangeSetAssumption == IsFiniteSet(Paths) /\ MaxEdits \in Nat

\* How a path stands against the range's base.  "bare" is a change without a
\* text hunk (a binary, a mode flip, a submodule); "came" and "slid" are the
\* new name of a rename, with and without a hunk, "left" its old one; "new"
\* and "blank" are untracked text files, with and without a line.
Kinds == {"same", "edited", "bare", "removed", "left", "came", "slid", "new", "blank"}

\* What excludes a path, by the pattern that wins for it: "policy", one of
\* .diffctx/ignore; "git", one of .gitignore that matches the path; "dir", one
\* of .gitignore that excludes a directory above it which is still there, and
\* in which a tracked file stays tracked.
Rules == {"policy", "git", "dir", "none"}

VARIABLES
    pc,         \* the call the run is at
    full,       \* TRUE: --full, which has no partial form and keeps lock files
    tree,       \* TRUE: the range ends at the working tree
    name,       \* path -> "secret", "lock" or "plain", by its file name
    rule,       \* path -> the rule that excludes it (Rules)
    declared,   \* some .diffctx/ignore declares a pattern
    world,      \* path -> Kinds
    edits,      \* edits so far
    cut,        \* the run's time is over, or it was cancelled
    noted,      \* the run's notes name the interruption
    blind,      \* an ignore lookup failed and answered for all paths alike
    seen,       \* paths the diff, then the untracked scan, had a hunk for
    hunks,      \* those of them the run still works with
    untracked,  \* untracked text files of the change
    ignored,    \* what the ignore lookup of the hunks answered
    got,        \* the last diff_names
    answer      \* what the output says

vars == <<pc, full, tree, name, rule, declared, world, edits, cut, noted, blind,
          seen, hunks, untracked, ignored, got, answer>>
ranges == <<full, tree, name, rule, declared>>

-----------------------------------------------------------------------------
(* What git says of a working tree. *)

Of(kinds) == {p \in Paths : world[p] \in kinds}

\* git diff --unified=0 -M: the paths with a text hunk.
DiffHunks == Of({"edited", "removed", "came"})

\* git ls-files --others, binaries left out.
Untracked == Of({"new", "blank"})

\* git diff --name-status -M.
DiffNames ==
    [changed |-> Of({"edited", "bare", "removed", "came", "slid"}),
     deleted |-> Of({"removed"}),
     renamed |-> Of({"left"}) \X Of({"came", "slid"})]

NoNames == [changed |-> {}, deleted |-> {}, renamed |-> {}]

\* A deleted path and a rename's old name: nothing of them is at the head.
GoneAtHead(names) == names.deleted \union {r[1] : r \in names.renamed}

IsSecret(p)   == name[p] = "secret"
IsLockfile(p) == name[p] = "lock"

-----------------------------------------------------------------------------
(* The ignore lookup: one batched git check-ignore, after the repository   *)
(* and its .diffctx/ignore files were read.                                *)

NoneIgnored == [policy |-> {}, git |-> {}]
AllWithheld(paths) == [policy |-> paths, git |-> {}]

\* The lookup of the diff drops what an excluded directory hands down; the
\* one made for readers of the working tree keeps it.
WithSource == {"git"}
AnyMatch   == {"git", "dir"}
AsDeclared(paths, rules) == [policy |-> {p \in paths : rule[p] = "policy"},
                             git    |-> {p \in paths : rule[p] \in rules}]

\* A lookup that fails open.
SkippedWhenGitFails(paths) == {NoneIgnored}

\* What it may answer when git does not: all are withheld if the policy is
\* unread or declared; with none declared the .gitignore rules are skipped.
WhenGitFails(paths) ==
    {AllWithheld(paths)} \union (IF declared THEN {} ELSE {NoneIgnored})

FindIgnored(paths, rules) ==
    IF paths = {} THEN {NoneIgnored}
    ELSE WhenGitFails(paths) \union (IF cut THEN {} ELSE {AsDeclared(paths, rules)})

IsIgnored(p, lookup)  == p \in lookup.policy \union lookup.git
IsWithheld(p, lookup) == IsSecret(p) \/ IsIgnored(p, lookup)

\* A lookup that failed may be what the run's deadline cut short (--full has
\* a limit for each command and none of its own).
Lookup(paths, rules, lookup) ==
    LET right == lookup = AsDeclared(paths, rules) IN
    /\ blind' = (blind \/ ~right)
    /\ cut' \in {cut} \union (IF right \/ full THEN {} ELSE {TRUE})

-----------------------------------------------------------------------------
(* A git command whose answer the run needs. *)

Refused == pc' = "failed" /\ UNCHANGED <<noted, blind, seen, hunks, untracked, ignored, got, answer>>

\* `?`: git's failure, or the run's own interruption, ends the run.
Fails == Refused /\ cut' \in {cut, TRUE}

\* A listing that swallows its interruption.
CutShortUnsaid == ~full /\ cut' = TRUE /\ UNCHANGED noted

\* unless_cut_short: within a run an interruption leaves the listing empty
\* and the reason noted; any other failure is an error.
CutShort == ~full /\ cut' = TRUE /\ noted' = TRUE
Answers  == ~cut /\ UNCHANGED <<cut, noted>>

\* The secret paths leave before anything is looked up, and are counted.
Withhold(found) ==
    LET secret == {p \in found : IsSecret(p)} IN
    /\ seen' = found
    /\ hunks' = found \ secret
    /\ answer' = [answer EXCEPT !.counted = secret]
    /\ pc' = IF found \subseteq secret THEN "list" ELSE "ignore"

Diff ==
    /\ pc = "diff"
    /\ \/ /\ Answers
          /\ IF tree THEN /\ pc' = "untracked"
                          /\ seen' = DiffHunks
                          /\ UNCHANGED <<hunks, answer>>
                     ELSE Withhold(DiffHunks)
          /\ UNCHANGED <<blind, untracked, ignored, got>>
       \/ Fails
    /\ UNCHANGED <<ranges, world, edits>>

ListUntracked ==
    /\ pc = "untracked"
    /\ \/ /\ Answers
          /\ untracked' = Untracked
          /\ Withhold(seen \union Of({"new"}))
          /\ UNCHANGED <<blind, ignored, got>>
       \/ /\ CutShort
          /\ Withhold(seen)
          /\ UNCHANGED <<blind, untracked, ignored, got>>
       \/ Fails
    /\ UNCHANGED <<ranges, world, edits>>

\* resolve_ignored_paths, ignore_disclosure and the two filters after them.
Resolve ==
    /\ pc = "ignore"
    /\ \E lookup \in FindIgnored(hunks, WithSource) :
         LET rest  == {p \in hunks : ~IsIgnored(p, lookup)}
             locks == IF full THEN {} ELSE {p \in rest : IsLockfile(p)}
         IN /\ Lookup(hunks, WithSource, lookup)
            /\ ignored' = lookup
            /\ hunks' = rest \ locks
            /\ answer' = [answer EXCEPT !.counted = @ \union lookup.policy,
                                        !.ignored = lookup.git,
                                        !.locks   = locks]
            /\ pc' = IF rest \subseteq locks THEN "list" ELSE IF full THEN "names" ELSE "text"
    /\ UNCHANGED <<ranges, world, edits, noted, seen, untracked, got>>

-----------------------------------------------------------------------------
(* Nothing with a hunk is left: what changed without one is listed. *)

ListHunkless ==
    /\ pc = "list"
    /\ \/ Answers /\ got' = DiffNames /\ pc' = "vet"
          /\ UNCHANGED <<blind, seen, hunks, untracked, ignored, answer>>
       \/ CutShort /\ got' = NoNames /\ pc' = "vet"
          /\ UNCHANGED <<blind, seen, hunks, untracked, ignored, answer>>
       \/ Fails
    /\ UNCHANGED <<ranges, world, edits>>

VetHunkless ==
    /\ pc = "vet"
    /\ LET changed == got.changed \union untracked IN
       \E lookup \in FindIgnored(changed, WithSource) :
         /\ Lookup(changed, WithSource, lookup)
         /\ answer' = [answer EXCEPT !.changed =
                {p \in changed \ GoneAtHead(got) : ~IsLockfile(p) /\ ~IsWithheld(p, lookup)}]
    /\ pc' = "again"
    /\ UNCHANGED <<ranges, world, edits, noted, seen, hunks, untracked, ignored, got>>

\* The empty answer asks for the names once more, for its header.
ListAgain ==
    /\ pc = "again"
    /\ \/ Answers /\ got' = DiffNames /\ pc' = "show"
          /\ UNCHANGED <<blind, seen, hunks, untracked, ignored, answer>>
       \/ CutShort /\ got' = NoNames /\ pc' = "show"
          /\ UNCHANGED <<blind, seen, hunks, untracked, ignored, answer>>
       \/ Fails
    /\ UNCHANGED <<ranges, world, edits>>

-----------------------------------------------------------------------------
(* Hunks are left: the run goes on with them. *)

DiffText ==
    /\ pc = "text"
    /\ \/ /\ Answers /\ pc' = "names"
          /\ UNCHANGED <<blind, seen, hunks, untracked, ignored, got, answer>>
       \/ Fails
    /\ UNCHANGED <<ranges, world, edits>>

\* The ignore rules of this filter are those of the paths with a hunk.
Kept(changed, gone) ==
    {p \in changed \ gone : (full \/ ~IsLockfile(p)) /\ ~IsWithheld(p, ignored)}

ListChanged ==
    /\ pc = "names"
    /\ \/ /\ Answers
          /\ got' = DiffNames
          /\ LET changed == DiffNames.changed \union untracked
                 kept == Kept(changed, GoneAtHead(DiffNames))
             IN /\ answer' = [answer EXCEPT !.changed = kept]
                /\ pc' = IF (IF full THEN kept ELSE changed) = {} THEN "again" ELSE "show"
          /\ UNCHANGED <<blind, seen, hunks, untracked, ignored>>
       \/ Fails
    /\ UNCHANGED <<ranges, world, edits>>

\* deletion_rename_displays: a pair is hidden with either of its names.  Here
\* alone the lookup is the one of working-tree readers.
Display ==
    /\ pc = "show"
    /\ LET named == got.deleted \union UNION {{r[1], r[2]} : r \in got.renamed} IN
       \E lookup \in FindIgnored(named, AnyMatch) :
         /\ Lookup(named, AnyMatch, lookup)
         /\ answer' = [answer EXCEPT
                !.deleted = {p \in got.deleted : ~IsWithheld(p, lookup)},
                !.renamed = {r \in got.renamed : /\ ~IsWithheld(r[1], lookup)
                                                 /\ ~IsWithheld(r[2], lookup)}]
    /\ pc' = "done"
    /\ UNCHANGED <<ranges, world, edits, noted, seen, hunks, untracked, ignored, got>>

-----------------------------------------------------------------------------
\* One rename at most: its two names stand together.
WellFormed(w) ==
    /\ Cardinality({p \in Paths : w[p] = "left"}) \in {0, 1}
    /\ Cardinality({p \in Paths : w[p] = "left"})
         = Cardinality({p \in Paths : w[p] \in {"came", "slid"}})

Init ==
    /\ pc = "diff"
    /\ full \in BOOLEAN /\ tree \in BOOLEAN /\ declared \in BOOLEAN
    /\ name \in [Paths -> {"secret", "lock", "plain"}]
    /\ rule \in [Paths -> Rules]
    /\ (\E p \in Paths : rule[p] = "policy") => declared
    /\ world \in [Paths -> Kinds] /\ WellFormed(world)
    /\ \A p \in Paths : world[p] \in {"new", "blank"} => tree /\ rule[p] \notin AnyMatch
    /\ edits = 0 /\ cut = FALSE /\ noted = FALSE /\ blind = FALSE
    /\ seen = {} /\ hunks = {} /\ untracked = {}
    /\ ignored = NoneIgnored /\ got = NoNames
    /\ answer = [changed |-> {}, deleted |-> {}, renamed |-> {}, ignored |-> {},
                 locks |-> {}, counted |-> {}]

\* Somebody works in the tree meanwhile (staging an untracked file makes it
\* an edited one).
Edit ==
    /\ tree /\ edits < MaxEdits /\ pc \notin {"done", "failed"}
    /\ \E p \in Paths : \E k \in Kinds \ {world[p], "new", "blank"} :
         /\ world' = [world EXCEPT ![p] = k]
         /\ WellFormed(world')
    /\ edits' = edits + 1
    /\ UNCHANGED <<pc, ranges, cut, noted, blind, seen, hunks, untracked, ignored, got, answer>>

Finished == pc \in {"done", "failed"} /\ UNCHANGED vars

Next ==
    \/ Diff \/ ListUntracked \/ Resolve
    \/ ListHunkless \/ VetHunkless \/ ListAgain
    \/ DiffText \/ ListChanged \/ Display
    \/ Edit \/ Finished

Spec == Init /\ [][Next]_vars

-----------------------------------------------------------------------------
(* Properties *)

TypeOK ==
    /\ pc \in {"diff", "untracked", "ignore", "list", "vet", "again", "text", "names",
               "show", "done", "failed"}
    /\ full \in BOOLEAN /\ tree \in BOOLEAN /\ declared \in BOOLEAN
    /\ name \in [Paths -> {"secret", "lock", "plain"}]
    /\ rule \in [Paths -> Rules]
    /\ world \in [Paths -> Kinds]
    /\ edits \in Nat /\ cut \in BOOLEAN /\ noted \in BOOLEAN /\ blind \in BOOLEAN
    /\ seen \subseteq Paths /\ hunks \subseteq Paths /\ untracked \subseteq Paths
    /\ ignored \in [policy : SUBSET Paths, git : SUBSET Paths]
    /\ got \in [changed : SUBSET Paths, deleted : SUBSET Paths,
                renamed : SUBSET (Paths \X Paths)]
    /\ answer \in [changed : SUBSET Paths, deleted : SUBSET Paths,
                   renamed : SUBSET (Paths \X Paths), ignored : SUBSET Paths,
                   locks : SUBSET Paths, counted : SUBSET Paths]

Named == answer.changed \union answer.deleted \union answer.ignored \union answer.locks
             \union UNION {{r[1], r[2]} : r \in answer.renamed}

\* A path with a hunk that is secret by name or excluded by .diffctx/ignore is
\* counted and never named, whichever later command fails, is cut short, or
\* finds the tree changed.
WithheldIsCounted ==
    pc = "done" => \A p \in seen :
        (IsSecret(p) \/ rule[p] = "policy") => p \in answer.counted /\ p \notin Named

Excluded(p) == name[p] # "plain" \/ rule[p] # "none"

\* A removal the run keeps as a change and hides when it names what is gone:
\* the two ignore lookups differ on a file under an excluded directory.
Unsaid(p) == world[p] = "removed" /\ rule[p] = "dir"

\* A change with a text hunk, or of a path nothing excludes, is named or
\* counted in the answer, unless the run's notes say that it was cut short, a
\* failed ignore lookup hid it, or the tree was edited under the run.  It is
\* false of one kind of change, which is left out here (RemovalIsShown).
ChangeIsAnswered ==
    pc = "done" /\ edits = 0 => \/ noted \/ blind
        \/ \A p \in Paths : \/ world[p] \in {"same", "left"} \/ Unsaid(p)
                            \/ world[p] \in {"bare", "slid", "blank"} /\ Excluded(p)
                            \/ p \in Named \union answer.counted

\* "A tracked file under a directory the `--no-index` query reports excluded
\* is not really ignored" (git.rs:1915-1916): removed, it is shown as deleted.
RemovalIsShown ==
    pc = "done" /\ edits = 0 /\ ~blind /\ ~noted =>
        \A p \in Paths : /\ world[p] = "removed"
                         /\ name[p] = "plain" /\ rule[p] \in {"dir", "none"}
                         => p \in answer.deleted

\* A changed lock file is reported by its path: "the paths are reported and
\* the content is left out".
LockfileIsReported ==
    pc = "done" /\ edits = 0 /\ ~blind /\ ~noted /\ ~full =>
        \A p \in Paths : /\ IsLockfile(p) /\ rule[p] = "none"
                         /\ world[p] \in {"edited", "bare", "new"}
                         => p \in answer.locks
=============================================================================
