# A verification of diffctx

diffctx takes a diff and answers with the code a reviewer needs beside it: the changed fragments, the
context they reach, or the callers a change may break. The engine is Rust
(`crates/diffctx-native/src`), with a Python package around it (`src/diffctx`: command line, writers,
MCP server) and a Claude Code plugin that runs the engine from hooks.

This directory holds TLA+ models of the parts of it where order, sharing, failure or a budget
decide what the answer is, the TLC runs that check them, and proofs of their main properties.
`PROJECT.json` maps every definition to the lines it models and lists runs, mutants, the finding,
hazards and theorems.

File names below are of `crates/diffctx-native/src` unless they start with a directory of the
repository.

## Inventory

| Component | State | Operations | Interacts with | What is hard, what makes it correct | Model |
|---|---|---|---|---|---|
| Run control (`resource.rs`, `edges/mod.rs`) | deadline, cancel flag, `tripped`, counters, reasons, thread-local `SELF_REPORTED` | `check`, `add_contributions`, `over_contributions`, `charge_remaining`, `poll_emissions`, `note` | every phase and rayon worker; the MCP server through `CancelToken` | Relaxed atomics read at different moments, work stealing under a thread-local. No lost context without a reason; no edge charged twice; a withdrawn run ends. | RunContext |
| Blob reads (`git.rs` `CatFileBatch`, `source.rs`) | one git child, its pipes, a worker thread, two channels, a mutex | `get_bytes`, `close`, `batch_worker` | every reader of a snapshot; the run's limits | git stalls, dies or garbles; a given-up request leaves an answer in the stream. Never another file's bytes; a failure is never an absence; nothing leaks. | CatFileBatch, BlobSource |
| git children (`git.rs` `run_git_bytes`, `supervise_within`) | a child, two pipe readers, a deadline | spawn, wait, kill, take | all other git calls | A helper that holds a pipe; a full pipe; an exit before the output is read. An answer is whole; nobody waits for ever. | GitChild |
| A tool call (`src/diffctx/mcp/server.py`, `pybridge.rs`) | requests in flight, threads, tokens, the thread's pending flag | `_run_with_deadline`, `CancelToken.scope`, `with_io_deadline` | the native run, git children | A withdrawal before, during or after the run; reused threads. It stops its own run alone, and what it leaves behind ends. | Call |
| The change (`pipeline.rs`, `git.rs` `diff_names`, `find_ignored_paths`) | hunks, untracked files, names, what is withheld | `resolve_change_set` and its helpers, the early answers | git children, run control, artifact | Four git commands asked in a row, any of which fails, is cut short, or sees an edited tree. A withheld path is never named; no change is passed over in silence. | ChangeSet |
| Selection (`select.rs`, `interval.rs`) | selected fragments, budget, index of ranges, satisfied cores | floor, first pass, sweep, upgrade, greedy, comparison | ranking, excerpts, post-passes | Many passes over one budget with refunds and swaps. What is reported is what is returned; the change is never traded for context. | Select |
| Post-passes (`postpass.rs`, `pipeline.rs` `run_selection`) | the selection, what is left to spend | coherence, rescue, representation | selection | Three passes that each spend what the one before left. The budget stays a cap; changed files stay represented; no file the change does not reach is opened. | Answer |
| Impact (`impact.rs`) | the answer, its cap | `fit_with`, `shed_one`; the analysis itself is pure | graph, source | A dozen kinds of entry shed in one order, found by doubling and halving. A known caller outlives a guess; what is unknown is said. | ImpactFit |
| Token corpus (`token_corpus.rs`) | a directory of entries shared by runs | lookup, stage, rename, sweep | concurrent runs, git's index | Runs overlap and die, the tree changes. An entry holds the counts of the content it is named after; cold and warm runs agree. | TokenCache |
| Hook memory (`hook.rs`) | marker files per change and session | `prepared`, `answer`, `mark_range_reviewed`, `sweep_seen` | other hook processes, manual runs, Claude Code's timeout | Processes that share files without locks and may be killed. The gate opens on retry; silence is earned; retries end. | HookReview |
| Recorded lines (`hook.rs` `record_before`, `landed`, pending) | records per session, claims, HEAD and its reflog | `record_before`, `claim`, `keep_pending`, `pending_review` | the shell's commands, background lines | Lines of several sessions, some in the background, move one HEAD. Each commit a line made is reviewed once, and for its session. | HookLanding |
| Edge builders (`edges/`, `bindings/`, `facts/`, `lang/`) | none | pure, one per language | run control | Only their scheduling is concurrent. | their scheduling: RunContext |
| Graph, PPR, scoring, utility (`graph.rs`, `ppr.rs`, `scoring.rs`, `utility/`) | graph | pure | selection | Floating point. | |
| Fragments (`fragmentation.rs`, `core.rs`, `excerpt.rs`, `parsers/`) | none | pure | selection | Ranges of lines: covering, nested, shared. | |
| Discovery, artifact, rendering, configuration | none | pure | budget | Sizes. | |
| CLI watchdog (`main.rs`) | a channel | `run_with_deadline` | the run | It ends the process; nothing is left behind. | |
| Python CLI, writers, ignore; plugin | none | sequential | engine | Formatting. | the plugin's timeout: HookReview |
| Evaluation, datasets, paper, packaging | | | | Not part of the running system. | |

Behaviours that no test of the repository reaches easily are listed as `hazards` in `PROJECT.json`,
each at its line with the properties that cover it.

## Modules

```
RunContext            <- RunContextProofs,         MCRunContext
BlobSource <- CatFileBatch <- CatFileBatchProofs,  MCCatFileBatch
GitChild <- Call      <- CallProofs,               MCCall
ChangeSet             <- ChangeSetProofs,          MCChangeSet
TokenCache            <- TokenCacheProofs,         MCTokenCache
Select <- Answer      <- AnswerProofs,             MCAnswer (and MCSelect)
ImpactFit             <- AnswerProofs,             MCImpactFit
HookReview            <- HookReviewProofs,         MCHookReview
HookLanding           <- HookLandingProofs,        MCHookLanding
```

`CatFileBatch` implements `BlobSource` (`Promise == Source!Safety`, a refinement mapping of its
readers); `Call` composes the server and its threads with `GitChild`; `Answer` composes the selection
with the passes after it. The `MC*` modules hold the constants of the runs and nothing else.

**RunContext.** A worker is a rayon thread. `pc` follows it through `check`: `load` (the load of
`tripped`), `cancel`, `clock`, `trip` (the store), then, by `site`, back to where the call came from:
before a builder (`Start`), inside `poll_current` (`Poll`), or `charge_remaining` (`Last`). `Take` pops
a builder; a worker blocked in the nested rayon loop of a builder (`Nesting`) steals another on top
of it, which `below` remembers, and both use the one cell `selfReported[w]`. `PollEmissions`,
`AddProduced`, `ChargeRemaining` are the three sides of the accounting; `charged` and `late` are history.
Memory is sequentially consistent in the model: the relaxed loads of the code may in principle see an
older `tripped` for longer, which delays a worker and endangers none of the other properties.

**BlobSource** states what `Source::read_bytes` promises: the named file's bytes, `Missing` for what is
no file of the revision, or `Failed` with a note on the run. **CatFileBatch** is the code behind it:
readers queue for the `lock`, the one inside takes the connection out of the `pool` into its `hand`
(or starts one), sends on `req`, waits on `rep`, and puts the connection back or kills it. `worker[c]`
is the thread of a connection, with what it holds in `held`; `stdin` and `stdout` are the pipes as
sequences of lines and answered lines; `Serve` and `Die` are git. `over` is the run's cancellation or
I/O deadline and `ceiling` the per-call ceiling of `ChildLimits`. A path with a control character is
two lines to the protocol (`Lines`), which is why `Enter` sends it to `git show`.

**GitChild** is any other git process: `caller[c]` waits in slices, looks at the deadline and the
cancellation between them, then takes each reader's result; `child`, `helper` and `status` are the
process, a descendant that inherited its pipes (in its group, or one that left it) and the exit
status; a pipe is how many chunks it holds, were written and were kept. Killing a child is two steps,
`KillTree` and `Perish`. **Call** adds the server: `Begin` gives a call a thread, `Scope` publishes its flag
to the thread, `StartRun` takes whatever flag the thread holds, `Abandon` and `Deliver` end the call and
raise the token either way, `Leave` restores the cell and frees the thread for the next call.

**ChangeSet** walks through the git commands a run asks about a change, `pc` naming the next: the diff,
the untracked files, the ignore rules, and the names of what has no hunk (`ListHunkless`, `VetHunkless`,
`ListAgain`, or `ListChanged` and `Display` of an ordinary run). Every command answers, fails or is cut
short, and an edit of the tree may fall between any two (`Edit`). `world` is what changed, by kind: with
and without a text hunk, renamed, removed, untracked; `name` and `rule` are what makes a path secret, a
lock file, or excluded. There are two ignore lookups. The one asked about the hunks (`WithSource`,
`git.rs:1906-1911`) drops a match that an excluded directory hands down to a file in it (rule `dir`); the
one `Display` asks (`AnyMatch`, 1922-1926) keeps it. `Init` enumerates every combination a repository can be
in (`WellFormed`).

**TokenCache** is the corpus cache of one shard. A run asks git which files are unmodified (`keys`), looks
each up, reads and counts the others, stages an entry under a name of its own and renames it, and
at the end sweeps the shard when it exceeds its share: a listing, then deletions one by one. Runs die
at any step; files age; the tree is edited between runs, or, with `MidRun`, under them. `held` is
history: the texts a file had while a run ran. The ids of git are the texts they stand for, `Clean` is
what git's filters make of a text.

**Select** is `lazy_greedy_select` from the evidence floor to the last comparison, one step per file,
core, upgrade or candidate. A fragment is a record of path, range, kind and tokens; `world` is the
input: fragments, cores, excerpts, tiers, needs covered, admissible paths, budget. Relevance and
densities are left out: the order of cores is the code's (`ChangeOrder`), but the greedy loop takes any
candidate that fits and gains, and may stop at any step, which covers every density, tau and the
deadline poll. Utility is the number of needs covered, which keeps what the comparison relies on:
monotone, and lower for an excerpt than for its core. The list `selected` and the index of ranges are one
state; where they differ (`remove_id` of an id placed twice) the model says so (`Twice`).

**Answer** goes on from there: `Cohere` and `Define` add the definition of a name the selection uses,
`Rescue` and `Reach` reach files it did not, within a share of what is left, `Missing` and `Represent` look
once more for what of a changed file is not shown, and `Conclude` notes what the budget left out. The
thresholds are compared exactly; the code's `1.0 - 0.8` is a hair less than a fifth, which moves a
percentile only between two equal scores.

**ImpactFit** is `fit_with`: the answer as counts and a sequence of symbols with their callers, `Shed` the
one order in which entries go, and the search for the number that must go, one attempt per step
(`stride`, then `lo` and `hi`). The cap is on what the reader receives, JSON, markdown or the hook's text
(`Forms`), and how long an answer is in each is a parameter, `Measure`. It need not fall when an entry
goes: in text the first caller shed brings a line of some 27 tokens (6624-6629) for a row that is shorter, or, a
candidate in the hook's text, not rendered at all (6429). The run's measures (`MCMeasure`) count in units of
about seven tokens and keep this: what is listed, counted, headed, or not rendered in each form.
`AnswersAreNew` says what is fitted: each of the two
callers of `fit_with` (`impact.rs:5703`, 5718) fits an answer once, as `impact` made it, and there the counts
of what was shed are zero (3919-3923, 5971-5975); contracts, naming lines and stale references may have
been capped before. A weight is its place in the order, so a natural number. The specification is
`FitSpec`, its parts `FitInit` and `FitNext`, apart from the names Select uses.

**HookReview** follows hook processes through `prepared` and `answer` for one change; markers of
different changes share no file. `shown`, `rec` and `tries` are the marker files `id-`, `rec-` and
`try-` per session, `Manual` the slot without a session that manual runs share with hooks whose payload
names none. Each file access is a step. `told`, `denied`, `barred`, `excused`, `lent` and `begun` are
history: what the agent was told, which sessions have a denial printed, which hooks began after one. An
event is what `answer` is called with: `gated`, `pre` and `inspect`, a line's own record after it ran
(`landed`), and a background record that waited (`late`), which `pending_review` answers under the name
of the next event. After a command that is `landed` again; before one, a record is passed over on the
`rec-` marker like a retry (3832) and leaves one (`AtPre`). One process may answer both its event and a
late record; each is an `Invoke` here. Markers expire by `Age` and `Expire*`; a hook runs a minute at
most, so a marker does not expire under the hook that wrote it.

**HookLanding** is what comes before a review: whose commit it is. `head`, `parents` and `log` are the
repository, its commits and HEAD's reflog; `Commit` and `Reset` are what the statements of a line do to
them (`Verbs`). A line is `asked` while its PreToolUse hook runs; `Ask`, `ReadHead` and `ReadLog` are
`record_before`, which notes HEAD and only then how far the reflog ran (`before`, `filed`). `Tell` is
the PostToolUse hook, after a line or at the launch of one in the background; `Scan` is `prepare_landed`
with `landed` (`Takes`, `Ours`, `Range`), and `ClaimOwn` writes the claims. `Ours` is the code's loop
over the reflog as a set: the entries that bear each other out, an amendment counting if the commit it
amends is where the line started or an entry taken before it. A background line that landed nothing yet
is kept by `Keep` and `Pend`; a review drops the records that wait (`Forget`, `Unpend`); every hook ends
in `pending_review` (`ReadPending`, `Late`, `ClaimLate`, `Store`). The read and the write of the pending
file are steps of their own, like the read and the write of a claim. After the claim the range is either
there to be answered (`Prepared`) or not read by git (`Unreadable`), and all of a hook's answers are
printed together at its end (`Speak`). `shown`, `hand` and `lost` are the commits of claimed ranges that
were answered, that a running hook has yet to answer, and that never were, because the hook was killed
or the range not read. These, `maker`, `taken`, `fate`, `barred` and `due` are history; `Work` is what a
line made, read from history and not from what the hooks see. One repository; no pushes; the claims of
one `landed` are written in one step; git updates HEAD and its reflog in one step. Left out are the skip
of a merge that fast-forwards to the upstream (`hook.rs` 1380-1385), which is a pull and no work of the
line, and the lifetime of a claim (`SEEN_TTL`): a claim stays.

## Runs

| Run | Question | Bounds |
|---|---|---|
| `run_context` | Is every stop explained, every loss logged, every edge charged once, and does a cancelled or expired run end? | 2 workers; a polling, a nesting, a plain builder; 2 edges each, cap 2, clock of 2 polls: two workers inside `check` at once, one stolen builder on a suspended one, a cap crossed by either. |
| `batch` | Does the shared connection keep the promise, whatever git does? | 2 readers, 2 connections, 3 reads of 4 files (two blobs, one with a control character; one too large; one absent): a read given up, one on the next connection, one more behind it. |
| `batch_live` | Does every read return, every worker thread end? | 2 readers, 2 connections, 2 reads. |
| `call` | Is an answer of git whole, does a withdrawal stop its own run alone, does what it leaves behind end? | 2 threads and 2 calls, one that asks git and one that only computes, so that a thread is used again after an abandoned call; a pipe of one chunk; a child that writes one chunk to stdout and two to stderr, of which none is kept; a helper inside or outside the group. |
| `change_set` | Is what is withheld never named, and no change passed over in silence? | 2 paths of every name, rule and kind of change, both modes, ranges with and without the working tree, every command answering, failing or cut short, one edit at any moment. Two paths are a rename, or one path withheld beside one that is not. |
| `token_cache` | Do overlapping and dying runs keep the cache true? | 2 runs of the working tree and one of a revision; one file of three texts, two of which git stores alike; a shard of one entry, so that the sweep has to choose; one edit. |
| `answer` | Do budget, witness, cores and admission survive the selection and the three passes after it? | 5186 inputs: a class with header and method, one-line cores, a second changed file, context, a helper the change uses, a caller near and far, a renamed file and one without fragments; four budgets from starved (3) to ample (24); three excerpt modes; three tier orders; the code's shares for the selection, and for the rescue a quarter of the budget and the upper half of the scores, scaled to budgets this small: the code's twentieth of 24 tokens is a single token. |
| `impact_fit` | Is the fitted answer one that would not fit with its last step undone, shed in the order it claims, and honest about what went? | 27648 answers, caps and forms (JSON, markdown, the hook's text): up to three symbols, every list empty, short, or past its own limit; caps from what holds nothing to what holds all. |
| `impact_empty` | Does `empty` mean that nothing was cut? (It does not.) | the same |
| `hook` | Do concurrent hooks and sessions keep the gate honest? | 2 hooks at once, 2 sessions and the shared slot, 3 calls, `MaxAttempts` 1 so that exhaustion is reached; no kills (see below). |
| `hook_alone` | With one hook at a time, do retries end and complete answers stay? | 1 hook, 4 calls, `MAX_ATTEMPTS` 2 as in the code, 1 kill. |
| `landing` | Is every commit of a line claimed, once, by a session that may, and answered unless its hook was killed or its range not read; and does a waiting record wait? | 2 sessions, 3 lines: one in the background beside one in the foreground that commits and resets, and the other session's merge and amendment; 2 hooks at once, 2 commits, 2 reflog entries, 1 other event, 1 fault (a kill or an unread range). |

What is bounded is bounded in guards or initial values, by the constants `MaxCalls`, `MaxKills`, `MaxFaults`,
`MaxCommits`, `MaxLog`, `MaxEvents`, `MaxEdits`, `MaxAsks`, `MaxOutput`, `Conns`, `MaxPolls` and `MaxEmit`.
Deadlock is checked where the system has no end of its own; runs that end at their bound say so in
their `.cfg`. The properties of `hook` need two hooks of one session and a hook of another; a third
hook of a session can do nothing to the markers a second cannot. The theorems below lift most of the
other bounds. The symmetry sets are sessions and hooks, readers and connections, paths, and runs, in
runs of invariants and of a refinement that only names them by quantifiers; the liveness runs use none.

Every property has a mutant of the code, given beside the definition it replaces, that TLC refutes
under the same configuration.

## Where the code does not do what it says

**`impact_empty`** is a run of its own: `fit_with` asks `proves_empty` again after it shed entries
(`impact.rs:5536`), which looks neither at the symbols it omitted nor at the naming lines it set back to
zero, and so delivers a cut answer as one that says nothing depends on the change. The comment at
5544-5545 says of `empty` that nothing was cut.

The following configurations are kept beside the runs. Each checks one statement of a comment or a
test and TLC refutes it.

| Configuration | What TLC shows |
|---|---|
| `MCCatFileBatchDir.cfg` (`NoBytesOfDirectory`) | A directory with a control character in its name, read through the `git show` fallback, comes back as the bytes of its listing (`git.rs:2413`), where the batch answers Absent. |
| `MCHookReviewManual.cfg` (`ManualReviewOpensGate`) | A manual run does not open the gate for a session with a partial answer of its own (`hook.rs:2205`; the comment at 1901-1903 says it does). What holds is `ManualReviewCounts`. |
| `MCHookReviewSilent.cfg` (`UnreviewedIsSaid`) | Two failed inspections use up the attempts, and a review of the same change is then met with silence (`hook.rs:3869`; `tests/hook.rs:1816-1818`). Recorded lines do not exhaust their attempts in silence: `LandedIsAnswered`. |
| `MCHookReviewLate.cfg` (`LateIsAnswered`) | A background record answered at a PreToolUse event is met with silence when the session holds a `rec-` marker of that change, a partial or failed review, or the denial of the commit, and its record is dropped (`hook.rs:3832`; the comment at 2157-2158 says answered at whatever event comes next, once). What holds is `LandedIsAnswered`: there, and nowhere else. |
| `MCSelectTwice.cfg` (`NeverDuplicated`) | Nested cores with one window place one excerpt twice (`interval.rs:91`; the test at `select.rs:1493-1519`). |
| `MCSelectBeside.cfg` (`NoStandInBesideCore`) | A core stands whole beside its own excerpt (`select.rs:1235` against the comment at 1045-1046). |
| `MCTokenCacheEdit.cfg` (`WarmIsCold`) | A file edited between the question to git and the read has its counts stored under its old content's id, for every later run (`token_corpus.rs:112-119`). |
| `MCChangeSetLock.cfg` (`LockfileIsReported`) | A changed lock file without a text hunk, as `bun.lockb` has none, is not listed (`pipeline.rs:631` against 2386-2388). |
| `MCChangeSetRemoved.cfg` (`RemovalIsShown`) | A tracked file removed under a directory that `.gitignore` excludes is a change at the hunks and hidden, uncounted, where what is gone is named (`git.rs:1922-1926` against the comment at 1915-1916). |
| `MCImpactFitFirst.cfg` (`FirstThatFits`) | In the hook's text an answer fits once its naming lines are gone; the next stride (`impact.rs:5511`) ends where the last possible caller has gone too and the line that counts it has come, which does not fit, and callers are shed beyond it, a known one among them. The comment at 5499-5500 says the measure falls as steps add up and the first step that fits is found. What holds is `NoneToSpare`. |
| `MCHookLandingNext.cfg` (`ReviewedNext`) | A background line commits, and the next hook of its session is the one after a line in the foreground that landed. Its review drops the record (`hook.rs:2124`) and with it that commit, when the foreground line's own record does not reach it: of a kind it cannot write (a commit right after a merge), or not grown from the HEAD it started on. Nobody reviews it (`CHANGELOG.md:170-172`: at the session's next hook event, once; the comment at 2119 and `.agents/DECISIONS.md:31-33` have the foreground line's commit in mind). What holds is `PendingIsTaken`. |

What the models leave as it is, and a reader of the code should know:

- `AttemptsBounded` and `CompleteIsKept` need one hook at a time: two hooks of a session that read the
  attempts together write the same count back (`hook.rs:3858`, 3871), which costs one review more, and
  may put a partial answer over a complete one (3891). `QuietIsEarned` needs `MaxKills` 0: a hook killed
  after it marked its answer delivered and before it printed it leaves a marker of an answer nobody saw.
  `seen_headline` stats a marker and then reads it (1895): one removed in between has an empty headline.
- `PendingIsTaken` holds while no hook is killed and a session has one tool call in flight (`Parallel`
  FALSE): two hooks of a session read and write the pending file with no lock, and the one that writes
  last undoes the other (`hook.rs:2113`). It leaves out the commit of `MCHookLandingNext.cfg`, which was made since
  the foreground line began and is out of its reach (`Unreached`), and, by its nature, what a background
  line commits after its record was dropped (2124, a trade-off that `.agents/DECISIONS.md` records). An
  amendment is taken only by a line that made or started
  on the commit it amends: when another session claimed that one first, no session takes the amendment
  (`Orphaned`). A background line's commits are looked for within two hours of its record, once more
  before the record's age is asked for (2159): `Age` and `Stale` are the two clocks, of the record and
  of the file, and hooks are shorter than either.
- `TakenIsAnswered` excuses what was claimed in vain (`lost`): a hook killed between its claim and its
  print, or one whose range git does not read (`prepared`, 2072), leaves commits that nobody saw and no
  other session looks at. `LandedIsTaken` speaks of the claim.
- `ChangeIsAnswered` excuses a removal under an excluded directory (`Unsaid`), of `MCChangeSetRemoved.cfg`.
- `SatisfiedIsShown` counts a core as represented when a clip of another core covers its lines: a core
  may be held satisfied that stands nowhere under its own name.
- `poll_emissions` counts the edges it found in `SELF_REPORTED` before the deadline is looked at
  (`resource.rs:752`), so a stopped run reports fewer contributions than it holds; `ChargedOnce` asks for
  all of them of runs that were not stopped. `memoized` computes outside its lock (`resource.rs:620`): two
  workers may compute one key, and each works with its own result while the later one is kept. The keys
  are paths and the answers do not depend on a revision, so they differ only if the tree does.
- A read of a blob between `for_range` and `report_to` has nowhere to note its failure (`source.rs:113`).
- Over MCP, the server's clock starts before the run's and has the same length, so a run out of time is
  abandoned, not delivered in part (`docs/product/faq.md:48-52` describes the partial answer); git
  children that Python starts to fetch bodies are not stopped by the token; when the wait on a child
  itself fails (`WaitFails`), nothing is killed; a process group killed after its leader was reaped
  could be another's by then.
- A path without a hunk that `.diffctx/ignore` excludes is listed by name when other hunks remain, and
  one that is secret or excluded is neither named nor counted when none do: `WithheldIsCounted` speaks of
  paths with a hunk. A name is hidden uncounted when its lookup fails (`blind`). A run interrupted at
  `diff_text` or `diff_names` aborts instead of answering in part. When the temporary excludes file
  cannot be written, the policy is not asked at all (`git.rs:1894-1895` describes the other case).
- The rescue counts a changed file without a core as context, and so keeps the admission gate where the
  comment at `postpass.rs:206-210` would lift it.
- Stale references can be shed while rows of callers remain, when the weakest symbol left is an
  unresolved one (`impact.rs:5694` against 5645-5647); a symbol known only by where it was missed is shed as
  one that has nothing to say.
- Filters that change what is counted (smudge, LFS, an encoding) make the cache disagree with a cold
  run without any race: `FilterKeepsTerms` is an assumption of the theorems. Sweeps that overlap evict
  more than either needs.

## Fairness

- *RunContext*: weak fairness of what each worker does unasked (`Progress`). A rayon worker runs; a
  polling loop reaches its next poll; a builder without a poll returns. Nothing makes a polling loop end
  by itself, a caller cancel, or a clock run out, so `StopsWhenTold` is earned by the polls.
- *CatFileBatch*: threads run, and a call's ceiling is a finite time; git owes nothing, not even an end.
  Close waits a bounded time.
- *Call, GitChild*: the waiting caller looks again every slice, a pipe's reader reads, what was sent
  SIGKILL dies, and a worker thread goes on. git need never write, exit or close a pipe, a helper need
  never end, no deadline need pass and no client withdraw: `AbandonedEnds` is earned by the kill.

The other modules state safety only; what they do ends at the end of a run or of a hook.

## Proofs

Eight modules prove theorems for any constants that satisfy the named assumptions, each from an
inductive invariant: it holds initially, a lemma per part or per action shows that every step keeps it,
and it implies the property.

*RunContextProofs* (no hypothesis). `ChargedOnce` compares a builder's charge with its emissions, but
what ties the two is spread over a thread-local cell, the loop's own `reported`, and a poll in flight.
`Places` says who is where: a worker past `idle` has a job, no two hold one builder, a suspended builder
is `Nesting`. `Held` and `Counted` then state, per `pc`, how `charged`, `reported`, `produced` and
`selfReported` relate: a suspended builder never polls, so a thief that resets the cell loses nothing.
`Released` covers builders that are over, `Logged` the reasons behind `tripped`, `skipped` and `cut`,
`Overrun` the contribution counter against the cap. Proved: all five invariants of `run_context`, the
charge also in its two halves (`NeverChargedTwice`, `ChargedInFull`).

*CatFileBatchProofs*. A connection is in the pool, in the hand of the reader inside the lock, or being
closed (`Inner`, `Places`), which alone makes it owe one request at most; `Flight` ties the request to what
lies on the channels, in the worker and in the pipes, for every place it can be, and `Results` what came
back to the file it was asked for. `StaysInStep` and `NoneOrphaned` need nothing else. `KeepsPromise`, that
CatFileBatch implements BlobSource, has the hypothesis that no path is a directory of the revision
(`Trees = {}`): for one that is, the fallback breaks the promise (`MCCatFileBatchDir.cfg`).

*CallProofs* (no hypothesis). `GitInv` is the accounting of the pipes: what was written is unread or kept,
a reader has sent its result only when nobody holds the pipe, and the caller past stdout holds a
complete one. `OwnThread` and `OwnFlag`: a thread in a call's scope holds that call's flag and no other, so
a run takes its own, and only an abandoned call's run can see it raised.

*ChangeSetProofs* (no hypothesis). `HInv` follows what is withheld through the calls: a path with a hunk
that is secret or excluded is among the withheld from the moment the rules were asked, and is removed
from everything named later. `AInv` follows what is kept while no one edits and nothing was cut or
blind (`Calm`): a change is among the hunks, the withheld, or the names still to be asked for. It keeps
the two lookups apart: a path the first spares (`Spared`) is among the hunks, and of those the second hides
only a removal under an excluded directory (`Unsaid`), which `ChangeAnswered` leaves out.

*TokenCacheProofs* assumes `World`: the tree is at rest under a run, and filters keep the counts. A key
is then the id of what the run would read for as long as it may use it (`Keyed`), and a torn file is a
dead run's (`Sound`), which renames nothing. Without the first, `MCTokenCacheEdit.cfg` is the
counterexample.

*HookReviewProofs*. `GateOpens` is inductive only with `Backed` (a printed denial, or a hook barred by
one, leaves the `rec-` marker in place), `Denying` (a hook about to deny holds a marker it wrote itself)
and `Passing` (a gated hook that came after one goes no further than reading that marker). `Placed` and
`Bounded` carry slots, events and attempts; `Answered` (a hook that speaks for a record is silent only
for a late one, with the marker there) and `Excused` do the same for recorded lines and manual runs:
these hold with kills and any number of hooks. `QuietEarned` has the hypothesis `MaxKills = 0` and adds
`Earned`: every marker that could silence a hook belongs to an answer that was told, or to a hook that
is about to tell it. `Attempts` and `CompleteKept` have the hypothesis `Alone`, one hook.

*HookLandingProofs*. `KeptStays` alone is not inductive: the record that waits is in the file until a hook
writes the file, and what the hook writes it read some steps before. `Held` says that a hook on its
way to that write has every waiting record in `view`, or in `todo` and `wait`; `Alone`, one hook of a
session at a time, is why nothing was added since it read; `StaleIsOld` is why a file too old to be
read holds nothing that must be kept. `RecordsWait` has the hypothesis `Parallel = FALSE`: with two tool
calls of a session in flight it is false. `TakenOnce`, that no hook takes what another session had taken
when it started, has none: `Claimed` says that a taken commit's claim names one who took it, `Barred`
that what was taken stays so, and `landed` passes over the claims of others (`LandedIsFree`).

Ancestry and `Work` are recursive functions in the model, and the prover knows nothing of what such a
function computes. The proofs speak of them through what characterises them: the ancestors of a commit
are the least set that holds it and the parent of each of its members (`Anc`, `AncestorsAre`), `Work(l)`
is the one set that satisfies `IsWork` (`WorkIs`), both by a least counterexample among the commits.
`TakenAnswered`, no hypothesis: what a session took and still lies on the branch is in a range that was
answered, is in the hand of a running hook, or was claimed in vain. `Rising` says that the reflog makes
commits in the order of their numbers, `InLine` that HEAD follows its entries, `Known` that a record
that may still be read was made whole and that what the reflog holds since is younger than its HEAD
(`Ready`, `Later`); so the last entry a record takes reaches back over the others that are still on the
branch (`LandedCovers`), and `Shown` carries it through the claim to the hook's hand and to its answer;
`Looking` ties the late claim to a record the hook read. `WorkIsTaken`, no hypothesis: what a line in
the foreground made is taken when its hook is done. `Authored` ties each commit to an entry after its
maker's record, `Unclaimed` says a claim belongs to one who took, `Backs`, `Fates` and `Filing` say
which lines' records may be gone and why, and `Progress` is the argument: a told line is exempt, or its
hook is still to read the record, or each commit is settled or in the hook's hands. `PendingTaken` has
the hypothesis `Parallel = FALSE` and, like the property, speaks of runs without a kill. `Flight` and
`Parked` say that a session with a hook has no other line in flight and that what waits is of lines
whose own hook has passed; `Ordered` that a record about to be read is younger than those of the lines
told before it; `Untouched` that what waits has no other fate yet. `Looks` is the point of the proof:
the hook before a line notes the reflog first and looks at what waits after, so everything a waiting
line had made by then was found. `Cares` follows each commit that was due from hook step to hook step:
found, still to be looked at, being claimed, or, once a foreground line landed, out of that line's
reach, since what is in its reach it takes itself (`ReachFinds`, where `Ordered` is needed: an amendment
in the line's reach amends a commit of the same reach).

*AnswerProofs* holds the proofs of Answer and of ImpactFit, which need the same induction. For Answer
the hypotheses are the named assumptions of Select and Answer on their inputs (`Inputs`, `Shares`,
`Rest`, `RescueShares`). The budget is a sum over a sequence, so it is induction over data, which the
prover does not do with a theorem that takes an operator; the module begins with induction over sets and
functions (`Least`, `UpTo`, `Recursion`, from the well-foundedness of the naturals), on which the facts
about sums, appended and replaced entries rest. `Composed` is the invariant. Its first half is the
selection's: `Types`; `Ledger`, that what is reported is the cost of what is returned and stays under
the budget; `Witnessed`, a changed file past its turn shows something or found no room; `Represented`, a
satisfied core is covered by a fragment in the result. The second half is for the passes: `Stages` (what
each pass may still be looking at), `Remains` (what is left to spend is what the cap leaves), `Reached`
(admission), `Looked` and `Noted` (a changed file that is absent was tried last with all that was left,
and the run says so). Proved: every property of `answer`, `CeilingYields` among them, and that Answer
implements Select, its passes stuttering on the selection's variables (`Selects`).

For ImpactFit they are `AnswersAreNew`, `CapsAreCounts` and `ListsAreShort`; answers have any number of
symbols and callers. A step is first read as what it does to the answer (`Outcome`): a list or its count
gave way, a guess went (`GuessGone`), the last caller of a symbol that has another (`TailGone`), a
symbol with nothing to say (`HollowGone`), or a symbol with its only caller (`OnlyGone`). Two things
follow. `OneStep`: while there is something to give a potential (the rows, and one for the count of
naming lines) falls, so no answer takes more steps than it has entries (`FewSteps`), while the text it
is delivered as may grow: nothing is assumed of `Measure`. Once nothing is left a step trims the
untracked files and the next changes nothing, which is why an attempt that stops short may be halved as
if it had gone on (`TakenIs`). `Honest`, kept by each outcome: the tallies, the unresolved symbols, and
that known callers went last; `CallersLast` and `UnknownSaid` are its reading at the end. `FitInv` is
the invariant of the search: the answer striding does not fit unless it is the one given, `lo` steps
from it do not fit and `hi` do. Where the two meet is an answer that fits and would not with its last
step undone: `NothingSpared`, for any measure. That no shorter way fits would need a measure that never
grows, and the code's do. `Callers` is the size of a set of pairs, so each removal is a bijection with
what is left of the set (`RowCount`, `SymbolCount`).

Model-checked only: liveness (`StopsWhenTold`, `Returns`, `WorkersEnd`, `AbandonedEnds`), which the prover's
temporal backend does not reach. Every safety property of a passing run is stated by a theorem, some under
the hypotheses named above.

## Not modelled

Ranking, scoring and utility (real numbers over large graphs), parsing and fragmentation, the edge
builders of each language, the impact analysis before its fit, discovery, rendering, configuration and
the Python command line are sequential and pure: they hold no state between two calls and share none
between threads, so that what could be said of them is what their text computes. Their results are
inputs of the modelled parts, where they are chosen freely: any fragments with any excerpts, any
emissions of a builder, any answer to fit. They are also most of the code by size, which is why the
map covers a small share of its lines. The command line's watchdog ends the process and leaves
nothing behind. Evaluation, datasets, paper and packaging are not part of the running system.

Of the modelled components: the caps other than the contribution cap, panics inside a lock, pushes and
remote-tracking refs in HookLanding, a line that touches several repositories, the headline and text of
an answer, the selection's reason codes and certificates, the parsing of git's output, the argument
checks and fetches of the MCP server.

## Plan

What would come next, in this order: records of pushes, and lines that touch several repositories, in
HookLanding; the fit of the artifact after Answer (`artifact.rs` `drop_index`), where a changed file
that is shown only by a fragment which carries no change, as a rename without a hunk is, counts as
context and goes before any changed file's second fragment; the memo tables of a run beside RunContext;
discovery's caps, with the note that a listing was cut; a reference definition of the interval index and
of the hunk windows, over small ranges; the rest of the impact analysis, starting with what a deadline
leaves of it.
