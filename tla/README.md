# Verification of ai-session-handler

This directory models the handler in TLA+, checks it with TLC and proves part
of it with TLAPS. `PROJECT.json` maps every definition to the lines it models,
lists the runs with their properties and mutants, the hazards and the findings.
Paths below are relative to `src/src/ai_session_handler/` unless they start
with `docs/` or `README.md` (both of the repository).

## The system

`ai-session-handler run` reads a markdown plan, and for each phase not yet
completed starts an external worker command, watches it, judges its output and
records the result. One invocation is one process; several may run at once, may
be killed anywhere, and are called again by an operator who may edit the plan.

| Component | State | Operations | Right when |
|---|---|---|---|
| Runner state (`state.py`) | `state.json`: accepted plan, completed phases, outcome links, active attempt, stop, last run | read and validate, replace, accept a plan, select a phase | every replacement is valid, nothing recorded is lost |
| Phase runner (`runner.py`, `run_phases`) | the state in memory, loop variables, the lock | claim, launch, record, conclude, retry | no work is repeated or believed without reason, whatever fails |
| Outcome records (`outcomes.py`) | one file per attempt | exclusive synced write | a linked outcome exists and agrees |
| Ownership (`runner.py`, `_own_*`; `cli.py`, `config.py`) | advisory locks on directories, markers | choose the plan workspace, take, release | one handler per directory, no recorded worker forgotten |
| Worker session (`runner.py`, `run_agent_process`) | process, pipes, reader and prompt threads, bounded queue, deferred signals | launch, drain, stop, final drain, clean up | no output lost, group dead, always ends |
| Terminal markers (`markers.py`) | an accumulator and a filter per stream | feed, finish, filter | verdict and display depend on the text alone |
| Plan parsing (`phases.py`) | none | find fences, headings, workspaces | accepted exactly when well formed, errors at the right line |
| Command line (`cli.py`) | none | run, status, init | what is reported is what is on disk, what is foreseen happens |
| Provider wrappers (`provider_wrappers/`) | a child, relay and prompt threads, a final response | relay, neutralise, emit one result | the block is the provider's last word, its exit code is kept, it ends |
| Worker prompts (`prompts.py`) | a file written once | summarise earlier attempts, render | nothing committed is withheld from the next worker |
| Transcripts, artifacts | files written once | open exclusively, append | - |
| Configuration (`config.py`) | a file read once | read, create | - |
| Development bootstrap (`dev_bootstrap.py`) | - | - | - |

They interact through `state.json` and the outcome files (invocations with each
other and with their successors), `flock` (invocations at once), the callback
`process_started` (session to runner), pipes and a queue (provider to wrapper,
wrapper to session), signals, and the process table (a retry asks whether the
earlier worker lives).

The hard behaviours are: handlers that race or die between two writes; two files
that cannot be written at once; a plan that changes between phases and between
retries; readers that take no lock; workers and their descendants that outlive
what started them; threads around a bounded queue and around bounded joins;
signals that arrive while something else ends the session; and a protocol that
is read in chunks, twice: by the wrapper and by the session.

## Modules

| Module | Models | Used by |
|---|---|---|
| `RunnerState` | the state record, `_validate_state`, plan acceptance, selection, the transitions of an attempt, result precedence | `PlanRunner` |
| `AttemptLedger` | the abstract promise of `state.json`: what `PlanRunner` refines | `PlanRunner` |
| `PlanRunner` | every invocation of `run` on one plan, the operator, workers as the runner sees them, failures, crashes, kernel stops | `Handoff`, `Status` |
| `Handoff` | what a prompt tells of earlier attempts | `MCPlanRunner` |
| `Status` | `status` beside `PlanRunner`, without a lock | `MCStatus` |
| `Ownership` | handlers on several plans, the directories they lock and the workers they leave | `MCOwnership` |
| `WorkerSession` | one `run_agent_process`, thread by thread, with its worker | `MCWorkerSession` |
| `Markers` | accumulator, verdict and display filter, symbol by symbol | `MarkerProtocol` |
| `MarkerProtocol` | what a whole text means and shows, read off the text | `MarkerSession` |
| `MarkerSession` | the output of one session fed through `Markers` in chunks | `Diagnostics` |
| `Diagnostics` | the text a wrapper writes: filtered, prefixed diagnostics, then its result | `WrappedSession` |
| `WrappedSession` | a wrapper as the worker of a session: `Diagnostics` and `MarkerSession` composed | `MCOutput` |
| `Wrapper` | the threads, waits, failures, signals and cleanup of one wrapper run | `MCWrapper` |
| `PlanText` | `phases.py` on every bounded plan | `MCPlanText` |
| `Filters` | the part of a sequence that lies in a set | `Handoff`, `WorkerSession`, `Wrapper` |
| `FilterProofs` | lemmas about `Filters`, for all sequences | the proofs below |
| `PlanRunnerProofs` | lemmas about the state record; types, exclusion, validity; theorems on outcomes, launches, reports, the refinement, and what `Status` and `Handoff` read | - |
| `MarkerProofs` | lemmas about `Markers` and `MarkerProtocol`, for all texts; the theorem about the display | `ResultProofs` |
| `ResultProofs` | lemmas about the accumulator and the renderer, for all texts; the theorems about results and diagnostics | - |
| `OwnershipProofs`, `WorkerSessionProofs`, `WrapperProofs`, `PlanTextProofs` | theorems about the module each is named after | - |

### RunnerState and PlanRunner

`disk` is what a read of `state.json` gives, `mem[h]` the local variable `state`
of invocation `h`, `lock` the plan-workspace lock, `files` the outcome files,
`worker` the worker process of each attempt. `pc[h]` walks through `run_phases`:

    idle -> lock -> read -> select -> own -> artifacts -> spawn -> record
         -> session -> cleanup -> outcome -> commit -> (select | idle)
                        \-> finish -> idle

Each label is a point where another process can be seen: a system call on the
lock, on `state.json`, on an outcome file, on the plan file, or on a process.
Everything between two of them is one action; an exception or an early return is
an action of its own (`...Refused`, `...Fails`, `CleanupRaises`). `Crash` is
SIGKILL, `Terminate` a signal that nobody manages, `Signal` a deferred one.
`WriteBack` and `KernelStops` separate what a read returns from what survives
the kernel: `write_state` syncs the file and not its directory, `write_outcome`
syncs both, but not the entry of `outcomes/` in the directory above. While
nothing of that directory was ever written back, a kernel stop may lose all
outcome files (`Salvaged`); a state that links one of them is written into
`generated/` after it, and brings the entry with it. `CleanupRaises` leaves with 5
(a `ValueError`, which the command reports) or 1 (a `RuntimeError`, a traceback).

Abstractions. A plan version is a sequence of phases with a workspace each, and
its hash is its identity. Attempts are numbered; `create_run_id` is unique. Paths,
times and messages are dropped; a link to an outcome file is the attempt that
names it. The plan is read before the lock is taken and verified only before the
second phase, so the first may run from contents that an edit has replaced: the
model has this gap too (`Invoke`, `CanSelect`). Data that `_validate_state` checks
for syntax is left out, every relation it checks between fields is kept. The execution-workspace lock shows
only as a refusal (`OwnRefused`), because with one plan the plan lock already
excludes the other handler; `Ownership` has what several plans add. After SIGKILL
of a group nothing in it lives: a process the kernel cannot kill is left out.
`Report` keeps the exit code, the attempt shown as unresolved and whether all
phases were reported complete.

### Status and Handoff

`Status` adds a reader that takes two steps, as `_status_command` does: it reads
`state.json` (`StatusReads`), then the plan, and looks at a workspace and prints
(`StatusShows`); steps of `PlanRunner` come in between. `Kind` and `PlanError`
are the branches of the command. `RunGets` is what `run` would do with the
state, put together from the operators of `RunnerState` that `PlanRunner` uses,
so that what the two commands decide in different code can be compared.

`Handoff` adds no state: `Earlier` is the index of committed outcomes that
`summarize_handoff_context` builds, `Told` index and summary together, judged at
the moment the prompt is rendered.

### Ownership

One action per step of an invocation that takes or gives up a directory, claims
an attempt, or starts or ends a worker. A path is not a directory: `Dir` maps
both names of a bind mount to one, as `fstat` does in `_own_directory`.
`IsPlanWorkspace` is the search for the nearest ancestor with a marker, made
anew by each invocation while markers appear (`Mark`). What `PlanRunner` says in
detail is short here: a state is a count of completed phases, an unresolved
attempt and whether the last one stopped, a session is one step, a result is
complete or not. `Stop` covers every other end, one that could not be recorded
included. What `open`, `flock` or `stat` may raise beside contention has the
effect of `Crash`: the locks are released and nothing else changes. A plan that
is complete is a refusal: `run_phases` clears the stop then and writes the
state, which nothing here reads again, since a plan's phases are fixed.
`StillSpec` is the same system where no marker is created.

### WorkerSession

One action per step that another thread or the worker can come between: the two
readers (`_read_stream`, `_put_output_item`), the prompt writer, and the main
thread in its loop (`Top`, `Get`, `Check`, `Poll`), the final drain, whose
condition is read in two steps (`ReadersAlive`, `QueueEmpty`), and the cleanup
(`Finally`, `TerminateGroup`, `ClosePipes`, `RestoreSignals`). The worker is a
leader, a group and possibly a descendant outside the group; all of them hold
the pipes. Output is a chunk that may match a stop regex, one that does not, or
`noise`, which is not remembered so that a worker may write without end; it is
tagged with its stream. `StartThreads` may fail at any of the three threads, and
the readers started before it run on. `Kept` is what a transcript, the queue, a
reader or a pipe holds of the remembered chunks of one stream.
Waiting with a timeout (`queue.get`, `join`) appears as the step that may also
find nothing.

### Markers, MarkerProtocol, MarkerSession

`Markers` is the code: one symbol at a time into the accumulator (candidate tag,
fence state, counters) and the same chunk into the filter (pending, hidden).
`MarkerProtocol` never looks at symbols one by one: a text is valid if its only
two recognised tags are such and such (`Blocks`), and visible text is what is
left without complete blocks (`Visible`). `MarkerSession` feeds the one and
compares with the other. Names are shorter than in the code but keep what the
code uses: a common first letter, different lengths, none a prefix of another.
`Kinds` has two of the three kinds, since no rule tells more apart than "the
same kind or another".

### Wrapper, Diagnostics, WrappedSession

`Wrapper` has the two wrappers at once (`Provider` is "codex" or "claude"): they
share their steps and differ in where the final response comes from (a file, or
lines of stdout of which the last counts), in the exceptions of their relays and
in how a failed relay is noticed. One action per step of the main thread between
which a relay, the provider or a signal can act: `Spawn`, `StartThreads`, `Poll`,
`Get`, `Join`, `Failures`, `ReadMessage`, `Emit`, and the cleanup `Terminate`,
`ClosePipe`, `JoinAgain`, `Restore`. The answers a provider may give are a
constant: a valid block, anything else ("invalid"), nothing to say ("empty": blank,
or a result that is no string), an event with `is_error` set ("failed", Claude's
alone: the Codex message is a file), and what cannot be decoded or encoded
("garbled": a file that is not UTF-8; from Claude, a lone surrogate, which
`json.loads` lets through). A relay reads a line, records a result in two
assignments (`RelayRecords`), and writes, fails or finds its pipe closed. A
bounded join is a step that may be taken while the thread still runs, but only
if something keeps the thread (`MayOutlastJoin`): a second is ample for lines
that already lie in the pipe.

The handler that reads a wrapper's output may die or close the pipes at any time
(`ReaderLeaves`). From then on (`unread`) every write that reaches the pipe fails:
a relay's, whose failure is queued; the final one in `Emit`, which nothing
catches; and the flush at exit in `Restore` of a block that `Emit` left in the
buffer. `Restore` also removes the temporary directory of the Codex wrapper,
which may fail ("uncleaned"). Assumed: stdout encodes UTF-8, and a reader that is
there does not stall.

`Diagnostics` is the same run as a text: what the filter leaves of the
provider's lines, prefixed and escaped, and then the block or the rendered
response. A response that Claude calls an error (`isError`) is rendered whatever it
says. `WrappedSession` lets the handler of `MarkerSession` read that text in
chunks of any size, so its properties go through both filters and both
accumulators.

### PlanText

A line is known by what the module's patterns make of it, and a list of lines,
headings or phases of the code is the set of them with their numbers: the code
keeps them in the order of the file, which `First`, `Second` and `Latest` read off
the numbers. `Unfenced` is the loop of `_unfenced_lines` as a recursive function
(`PassLine` is one turn), `Workspace` reads one body with its own scan and offset,
and `Parse` names the first line with an error where the code raises at it. The
reference looks at the whole plan at once: `Opening` is the one set of fences that
contains a fence exactly when every block opened above it has ended, `Clear` the
lines outside blocks, `WellFormed` a plan as docs/plan-format.md describes it.

## Runs

| Run | Question | Bounds |
|---|---|---|
| `concurrent` | do racing, dying, failing invocations keep state and workers consistent, is `state.json` a ledger? | two handlers, two attempts, a plan that grows from one phase to two; ordinary runs, runs that accept the edit, runs that also retry |
| `power_loss` | is what is recorded backed when writes fail and the kernel stops, and does every invocation end? | one handler, two attempts, two phases, a result for each rule of precedence |
| `status` | is what `status` and `run` report true, does what `status` foresees happen, is recovery explicit, is `state.json` valid after every edit and acceptance? | one handler at a time and a reader, two attempts, a plan that drops, adds and moves phases |
| `unedited` | is every worker told of all attempts before it? | one handler, a plan of two phases, three attempts |
| `session_safe` | is output ever lost, a match missed, a process left? | two streams, two remembered chunks on each; queue, budget and pipe of one chunk; descendants in the group and outside it |
| `session_live` | do timeout, signal and threads end under endless output? | the same, noise without end |
| `output` | do verdict and display depend only on the text, and is a wrapper's result its provider's? | texts of up to three fragments of tags, a block with two more around or within it, a block after three lines of fences, four stderr texts; three fragments of diagnostics before a response, every response after three diagnostics, each called an error or not; every chunking |
| `ownership` | are directories used by one, workers accounted for, refusals deserved? | two handlers, two plans with each other's plan workspace as execution workspace, one of them under two paths; two attempts, whose ids return when nothing refers to them |
| `plan_text` | is a plan accepted exactly when well formed, and is the right line blamed? | every plan of 6 lines of ten structural kinds, of 5 lines of nine with six kinds of fence and text, of 8 lines of five |
| `wrapper` | is the block the provider's last word, is the exit code honest, does the wrapper end? | both wrappers, two lines of stdout and one of stderr; three kinds of response from Claude, two or no file from Codex; one pipe-holding descendant; a signal and the reader's end anywhere |
| `power_loss_launch`, `wrapper_garbled` | the findings below | as small as shows them |

Why the bounds are enough. Two attempts give an attempt that is abandoned and
the one that replaces it, or two phases of one run; nothing in the code compares
more than the active attempt with its successor, except the handoff, which has
three. Two handlers suffice for a race on one lock, and for the circular use of
two workspaces. A queue, a drain budget and a pipe of one chunk (64 items, 16
items and the kernel's pipe in the code) are full or spent, and empty again,
within a few steps, while two readers hold a chunk each. Two versions of a plan
contain every edit the code tells apart: same, grown, with a completed phase
gone, with the stopped phase gone, with its workspace changed. Two lines of a
Claude stdout give a superseded response, and a line after an unfinished tag.
Eight lines hold two whole phases with an example between them.

`CHECK_DEADLOCK FALSE` is used where the system ends by itself: a session, a
wrapper, a text or a plan that was read to its end; and in `ownership`, where the
two attempts may both be in use. `Attempts` is the one bound on run ids: when
they are used up, an invocation can still be refused, but claims nothing. So
`InvocationEnds` is about what one pass of the phase loop may wait for, and could
not show a loop that claims attempt after attempt.
No lock is ever waited for (`LOCK_NB`), so there is no waiting cycle to check.

### Properties of note

* `MemoryIsCurrent`: the state an invocation carries is what is on disk, so its
  next write loses nobody's update.
* `WritesAreValid`: no write is ever asked to store a state that `_validate_state`
  rejects, whatever the operator edits, accepts or retries: it is checked where
  plans are edited, and proved in general. That `StateError` would leave a launched
  worker's result unrecorded   and, at the next read, the plan unusable.
* `CompletionBacked`, `OutcomesBacked`, `ConcludedIsDead`: a completed phase has
  a complete outcome file, a worker that succeeded, and no process left.
* `RepeatIsExplicit`, `NoIdentifiedOverlap`: launched work is repeated only on
  request, never beside a worker known to be alive. The first remembers more than
  `state.json` does: it is about the workers themselves.
* `KeepsLedger`: refinement of `AttemptLedger`. The `ledger` is read off
  `state.json`; entries are opened, reopened explicitly, concluded once, and
  never lost.
* `StatusHidesNoWorker`, `DoneIsDone`, `StatusForesees`: what an unlocked reader
  says of two files that change beneath it.
* `HandoffIsWhole`, `HandoffIsOfTheNewest`: after a crash and a retry the last run
  is one without an outcome; the index must leave out none for it.
* `HandlersExclude`, `RefusedByAnother`: exclusion must be by directory, and must
  not make a handler refuse itself.
* `OrdinaryRunsRepeatNothing`: what was selected under the plan's lock still holds
  at the claim. It compares a launch with what runs in the same plan workspace
  left; `PlanRepeatsNothing`, with what any run of the plan left in any directory.
  The second is only proved, of `StillSpec`: see `cli.py:434` below.
* `NothingLost`, `MatchStops`: what the final drain is for.
* `WorkerGoneEnds`: the converse of the divergence on the final drain below:
  when nobody holds a pipe any more, the session does end.
* `AcceptsOneBlock`, `ShownIsVisible`: the two algorithms in `markers.py` agree
  with the protocol and with each other.
* `ResultIsFinal`, `DiagnosticsKept`: through wrapper and handler together, the
  result is the final response's and nothing else, none if the provider calls it
  an error, and no diagnostic is lost.
* `BlockIsAuthoritative`: the two assignments of `_record_result`, and a relay
  that outlasts its join, never let a superseded response out as the block.
* `CodeMeansRelayed`: a wrapper that exits with its provider's code has told all.
* `CodeIsKept`: the converse, and whom to blame otherwise: a signal, a reader that
  went away, a directory that cannot be removed.

Every property has a mutant in `PROJECT.json`: a definition of the same module,
preceded by "Mutant:", that changes the code the way a bug might and breaks the
property under the bounds of its run.

### Fairness

`PlanRunner.FairSpec` asks that a handler that is alive takes its next step, and
nothing of failures, signals or workers. `SessionEnds` is part of it: a session
has a timeout (3600 s unless the configuration says otherwise; a configuration may
also say none, and then nothing is promised) after which it
ends whatever the worker does, which is what `WorkerSession` shows in turn
(`SessionEnds` there, unless a descendant escaped the group).
`WorkerSession.FairSpec` asks that each of the handler's threads is scheduled,
that time passes, and that a write to a pipe nobody reads fails; nothing of the
worker. `Wrapper.FairSpec` asks the same of a wrapper's threads, whose own output
is read by the handler (`NothingLost`), or by nobody, and then the write fails; it
asks nothing of the provider.
All of it is weak fairness: no thread competes for what it needs, but waits on a
queue, a pipe or a process with a timeout, or forever on one that another
thread or process must end, and then the property says so.

## Findings

1. `power_loss_launch` (`state.py:301`). The replacement of `state.json` is not
   synced with its directory. After a kernel stop an ordinary run may repeat a
   phase whose worker ran, where README.md:174-176 says it refuses to.
2. `wrapper_garbled` (`codex_high_exec_filter.py:149`). A final message that is
   not UTF-8 raises `UnicodeDecodeError`, which nothing catches: the wrapper exits
   1 without the content, where docs/worker-protocol.md:90 says it preserves the
   provider's exit code.

### Divergences without a run

Met while modelling, and kept in the models as the code has them, so that the
properties above are stated around them:

* If the claim of an attempt cannot be written (`runner.py:267`), the attempt
  reported as unresolved was never recorded; docs/state-and-recovery.md:113-119
  says that without an active attempt the last run is reported.
  `LaunchedUnresolvedIsOnDisk` is therefore about launched attempts.
* Signals are managed only within the session (`runner.py:344`). One that arrives
  around it (`Terminate`) ends the handler with the attempt active, where
  docs/state-and-recovery.md:52-53 says the interruption is recorded.
* The final drain has neither timeout nor signal check (`runner.py:566`), so a
  descendant outside the group that keeps a pipe open delays a signal or a
  timeout for as long as it lives, where docs/state-and-recovery.md:148-155 calls
  the joins bounded. `SessionEnds` allows it with `escaped`.
* Every invocation looks for the plan workspace anew (`cli.py:434`): a marker that
  appears nearer to the plan than the one found before, or above a plan that had
  none, moves the place of `state.json`, and an ordinary run repeats a phase that is
  unresolved in the state left behind, where README.md:174-176 says it refuses.
  `OrdinaryRunsRepeatNothing` is about one plan workspace, and `PlanRepeatsNothing`
  holds only as long as no marker is created.
* `json.loads` accepts a lone surrogate, which stdout cannot encode
  (`claude_print_filter.py:266`). Written as a diagnostic or in the final response it
  raises, and the wrapper exits 1, where docs/worker-protocol.md:90 says it
  preserves the provider's exit code. `CodeIsKept` is checked and proved without
  such texts ("garbled").
* Between two bounded joins `close_process_pipes` (`_common.py:94`) closes a pipe
  whose relay may be inside `readline`, and waits for its lock without a bound;
  `_common.py:98` speaks of a bound. `WrapperEnds` allows it with `holder`.
* A write of diagnostics that stalls for over a second outlasts the join, and the
  Claude wrapper then emits the response recorded so far
  (`claude_print_filter.py:258`), where docs/worker-protocol.md:101-104 says the
  last event counts. `Wrapper` assumes that its output is read in time.
* A descendant of the provider that writes after the block was emitted adds
  diagnostics behind it, and the handler then finds a block that is not the last
  thing it reads; `CodeMeansRelayed` excludes descendants (`forked`).
* While an attempt that retries an abandoned one is active, `last_run` is an
  interruption without an outcome, and `status` prints "latest committed outcome:
  none" (`cli.py:274`), where README.md:314 promises the latest path.

## Proofs

### PlanRunner

For all handlers, plan versions, phases, workspaces, attempts, options and
results (under `PlanAssumption`, `NoneAssumption`, `RunnerAssumption` and
`LedgerAssumption`: each version is a nonempty sequence of distinct phases, and
`None` is not a value, a ledger entry included):

| Theorem | Statement |
|---|---|
| `TypeCorrect` | `Spec => []TypeOK` |
| `OwnerCorrect` | `Spec => []ExclusiveOwner` |
| `MemoryCorrect` | `Spec => []MemoryIsCurrent` |
| `WritesCorrect` | `Spec => []WritesAreValid` |
| `OutcomesCorrect` | `Spec => []OutcomesBacked` |
| `DeadCorrect` | `Spec => []ConcludedIsDead` |
| `CompletionCorrect` | `Spec => []CompletionBacked` |
| `OverlapCorrect` | `Spec => []NoIdentifiedOverlap` |
| `CompleteCorrect` | `Spec => []CompleteIsTrue` |
| `UnresolvedCorrect` | `Spec => []LaunchedUnresolvedIsOnDisk` |
| `RepeatCorrect` (*) | `Spec => []RepeatIsExplicit` |
| `LedgerCorrect` (*) | `Spec => KeepsLedger` |
| `RecoveryCorrect` (*) | `Spec => RecoveryIsExplicit` |

(*) assumes `PowerLoss = FALSE`: a kernel stop can bring an earlier `state.json`
back (finding 1 is the counterexample to `RepeatIsExplicit` without it), and
with it an entry of the ledger disappears. The others hold with kernel stops too.

`TypeOK` alone is not inductive: a handler inside an attempt must have an active
attempt to speak of. `TypeInv` adds what each `pc` implies about `mem`, `call`
and `ending`. The other three rest on one invariant, `StateInv`: the state on
disk and the one a kernel stop would leave are both `Sound`, and every handler
`Holds` what its `pc` says it has read. `Sound(s, n)` is `ValidState(s)`, that
every attempt id in `s` is below `n`, the next id, that the active attempt
has no outcome yet (only so is an id never linked twice, and validity preserved
by the claim and the conclusion of an attempt), and that a last run without a
link has none either. `Holds(h)` says that past the lock
`h` is its owner, that its memory is the disk with the plan accepted (before the
claim) or the disk itself (after it), and that the phase it selected is not
completed. Without exclusion another handler's write would break it. `PlanRunnerProofs`
proves, for each transition of the state record (accept, claim, run, conclude,
finish), that it preserves types and soundness, and applies these lemmas action
by action, in three groups: starting, attempt, environment.

`OutcomeInv` is what the files and the workers must be for an outcome to be
believed. Every outcome on disk is `Recorded` (its file is complete and agrees,
its worker is over and, for a completion, `Succeeded`), and every completed phase
is `Earned` by one. To preserve this at the commit, `Progress` carries what each
step of an attempt established to the next: that the worker is over once the
cleanup is past, that a complete ending is a success, that the file is written
before the link. A claim needs that attempts not yet drawn have no worker, and a
kernel stop that the outcomes it would leave are among those on disk; their files
survive it, since files can only be lost while nothing written back links one.

`LaunchInv` ties the workers that ever ran to `state.json`. `Tracked`: a running
worker belongs to no attempt newer than the active one, and to the active one if
its identity is recorded, which a retry looks up before it claims. `Expected`:
the phase of a worker that ever ran is completed or is the one only a retry may
select. `Intent` carries what the selection of a phase saw to the launch: who
launches a phase that had a worker was told to retry. `Truthful` then follows the
few steps that report something.

The refinement: the ledger is a function of `disk`, so only the steps that replace
`disk` matter. `Replacements` lists them by what they put there (a claim, a
process recorded, a conclusion, the finish), and each is a step of
`AttemptLedger` or a stutter. A claim opens an entry, or reopens the abandoned or
stopped one, and its id is new because every id in a sound state is below the next.

### Status

Under `StatusAssumption` (`None` is not something shown), for any number of
handlers beside the reader:

| Theorem | Statement |
|---|---|
| `StatusHidesNone` (*) | `StatusSpec => []StatusHidesNoWorker` |
| `StatusDone` (*) | `StatusSpec => DoneIsDone` |
| `StatusForetells` | `StatusSpec => []StatusForesees` |

`StatusImplements` takes the invariants over: a step of `Status` is one of
`PlanRunner` or none. `SeenInv` says what a state read earlier still tells of the
one on disk: its completed phases are completed, its attempts were drawn before,
and the attempt now active is its own or a later one. That rests on
`StateAdvances` (completed phases only grow, the active attempt stays, ends or is
a new one), which a kernel stop would break.
`StatusForetells` is a case split over the branches of the two commands, and holds
of every well-typed state, valid or not.

### Handoff

| Theorem | Statement |
|---|---|
| `HandoffWhole` | `Spec => []HandoffIsWhole` |
| `HandoffNewest` (*) | `Spec => []HandoffIsOfTheNewest` |

`ToldIs` is about the state record alone: of a sound state, index and summary
together name every committed outcome, and no attempt twice. The index leaves out
what the summary links; that nothing is told twice when the summary links nothing
is the last clause of `Sound`. That a success told is a success follows from
`OutcomeInv`, kernel stops included, since the files that a state written back
links survive them.
`NewestInv` says that no attempt was launched after the last run but the active
one, which was drawn after it; a claim moves the abandoned attempt into the last
run (`ClaimLast`), the conclusion its own (`ConcludeLast`). A kernel stop that
brings an earlier `state.json` back breaks it.

### Ownership

For all handlers, plans, paths, directories and their aliases, markers,
execution workspaces and attempts (under `OwnershipAssumption`):

| Theorem | Statement |
|---|---|
| `OwnershipTypeCorrect` | `Spec => []TypeOK` |
| `OwnershipExclusive` | `Spec => []HandlersExclude` |
| `OwnershipAccounts` | `Spec => []WorkersAreAccountedFor` |
| `OwnershipRefusesForAnother` | `Spec => RefusedByAnother` |
| `OwnershipRepeatsNothing` | `Spec => OrdinaryRunsRepeatNothing` |
| `OwnershipRepeatsNoPlan` | `StillSpec => PlanRepeatsNothing` |

`TypeInv` adds to `TypeOK` that an invocation with a target has one. `LocksInv`
says that the directories an invocation uses by its `pc` have it as their owner:
it is inductive because a directory is released by name only if it is not the
plan's own, and exclusion follows since an owner is one handler. `AttemptsInv`
says that the attempt an invocation works on is the active one of its key, that
no attempt is active in two states, that it has no live worker before the launch
and after the session, and that every live recorded worker is some state's active
attempt. With exclusion of the plan directory, a step that concludes or replaces
an attempt is then about this handler's own, whose worker is gone.

`HeldInv` is the converse of `LocksInv`: what an invocation has locked, it uses.
Together they say that a lock is there exactly as long as its use, so an
invocation that is refused, which had not locked that directory, finds another
there. `SelectedInv` says that what an invocation saw when it selected a phase
(the count of completed phases, the unresolved attempt, the stop) is still so
until it claims: the exclusion of the plan directory again, from the other side.
`AtHomeInv` holds as long as no marker is created: a plan then has one plan
workspace (`HomeIsOne`: only one ancestor is the nearest with a marker), and no
state of it is kept anywhere else. With it "the same plan workspace" of `OwnershipRepeatsNothing`
becomes "any" in `OwnershipRepeatsNoPlan`.

### Filters

What a recursive function computes for all arguments needs an induction over the
data, and the induction theorems of the library take an operator as a
parameter, which the provers cannot instantiate. `FilterProofs` goes around it:
every nonempty set of numbers has a least element (`Least`, from
`NatLessThanWellFounded` and `WFMin`, which are about sets), hence a set that
contains 0 and the successor of each of its members is `Nat` (`Induction`).
With it the lemmas show that the recursive function of `Filter` exists for every
length, what `Filter` makes of an empty, an appended and a concatenated
sequence, that its value is a sequence over the set, what its range is, and that
it keeps distinct elements distinct.

### WorkerSession

For all sizes of queue, drain budget and pipe, all bounds on output, with and
without noise and escaped descendants (under `SessionAssumption`):

| Theorem | Statement |
|---|---|
| `SessionLosesNothing` | `Spec => []NothingLost` |
| `SessionMissesNoMatch` | `Spec => []MatchStops` |
| `SessionLeavesNoWorker` | `Spec => []NoWorkerLeft` |

`Flow` is the heart of `SessionInv`: as long as a result is possible, what was
written to a stream is what the transcript, the queue, its reader's hands and its
pipe hold of it, in this order. Every step of a thread moves a chunk from one
to the next. `Drained` and `EndsAtEnd` say that at the end the last three are
empty: a reader nobody cancelled ended because its pipe was empty and nobody held
it, or its failure is in the queue, and the queue was found empty after the
readers were found dead. That order of the two looks is what the proof uses.
`Noticed` says that a match in the transcript is a reason to stop, or is about to
be searched for: each round of draining that took something ends in `Check`, before
the loop looks at the readers again.
`Gone` follows the group from launch to cleanup. `Places` and `Started` say
where the main thread and the readers can be.

### Wrapper

For every set of providers and of their answers, and every bound on lines
(under `WrapperAssumption`):

| Theorem | Statement |
|---|---|
| `WrapperSpeaksForTheProvider` | `Spec => []BlockIsAuthoritative` |
| `WrapperRelaysAll` | `Spec => []CodeMeansRelayed` |
| `WrapperKeepsTheCode` | `Spec => []CodeIsKept`, if no answer is "garbled" |

The last one's hypothesis is finding 2, of which TLC has the counterexample, and for
Claude the lone surrogate above. Its other half is that a write fails only when
nobody reads.
`FinalIsLast` says that the text recorded is that of the last response a relay
has taken, and that `is_error` belongs to it except between the two assignments
of `_record_result`. `Answered` says that no response is still to be taken, and
`AllAnswered` that this is what the joins, and the look for failures after them,
have established when the response is read; from then on it cannot change
(`BlockIsLast`). `ShownSoFar` says what is on either output of the wrapper at any
moment: the pieces of the lines dealt with, in order, up to the first tag;
and at the end of a relay the pieces of all lines, its final block behind them.
Here a descendant (`forked`) excuses, and nothing else: without one, a relay
outlasts no join (`AllEnded`). `Reported` says that a failure is not lost between
the queue and the look at it.

### PlanText

For plans of every length and of all lines (under `AuthorsAssumption`: authors
write lines, and `None` is neither a line nor an error):

| Theorem | Statement |
|---|---|
| `PlanAcceptsWellFormed` | `Spec => []AcceptsWellFormed` |
| `PlanErrorsNameTheLine` | `Spec => []ErrorsNameTheLine` |
| `PlanPhasesAreThePlan` | `Spec => []PhasesAreThePlan` |

The behaviour says only that a plan is a sequence of lines (`IsPlan`); the argument
is about one plan. `UnfencedIs` gives the recursive function of the scan, which
exists by `Induction`. `ScanInv`, also by `Induction`, says what the scan has after
n lines: the lines outside blocks so far, and the one block that has not ended, if
it is inside one. `OpeningIs` identifies the fences at which the scan opens a block
with `Opening`, which is unique (`OpensOnce`: two such sets would differ at a first
fence). So `Clear` is what the scan collects (`ClearIs`).

`BodyIs` is the heart: the scan of a body, which starts at a heading with no fence
open, is at each line in the state of the scan of the plan there (`Alike`), because
the plan's scan has no fence open at a heading either. It therefore sees the plan's
own lines of that phase, with their numbers in the file, and can meet no unclosed
fence. `WorkspaceSays` follows the branches of `_parse_workspace` with `SectionIs`
(what is read below the workspace heading is `Declares`). `NumberedIs` says that to
compare each number with the one above is to compare all, by a first wrong heading.
`ParseSays` puts the branches of the parser together, and `OnePhase` shows that the
extents of the phases leave no line out and share none.

### Markers

For all kinds of tags, all texts a worker or a provider may write and every way
to cut them into chunks (under `MarkerAssumption`: kinds are two symbols or more,
begin with "p", hold no blank, "<", "/" or ">", and none begins another;
`NoneAssumption`: `None` is neither a candidate nor a result;
`TextsAssumption` and `OutputsAssumption`: texts are sequences of symbols;
`RawAssumption`, for the last theorem only: the prefix and the escape that the
renderer writes are symbols of their own, which a provider's text has not; in a
display, where they are characters, nothing tells them apart):

| Theorem | Statement |
|---|---|
| `ShownWhole` | `WrappedSpec => []ShownIsVisible` |
| `AcceptedIsValid` | `WrappedSpec => []AcceptsOneBlock` |
| `FinalIsHeard` | `WrappedSpec => []ResultIsFinal` |
| `OperatorSeesDiagnostics` | `WrappedSpec => []DiagnosticsKept` |

A tag begins with "<" and holds no other, so no two tags overlap (`NoOverlap`) and
one place has one tag (`OneOpen`). `Visible` is a recursive function from the end
of the text to its start, whose existence and value are `FromIs`; three lemmas say
what it does at a place: text without a tag is passed over (`FromSkip`), a block is
left out (`FromBlock`), and what follows an opening tag that is never closed is kept
(`FromUnclosed`).

`Seen(t, n, f, v)` is the invariant, of a filter that was given n symbols of t and
showed v. Outside a block, what it keeps pending is the text from some p to n, and v
followed by what is visible from p on is all that is visible. Inside one, the same
holds from the opening tag q on, and what is hidden is the text between q and p, in
which no closing tag begins. One turn of the loop keeps it: `Kept` says that the
part given out holds the beginning of no tag, finished or not (`BeginsTag`), which is
what the retained end is for (`RetainedNothing` is the mutant without it); `OpenTag`
and `CloseTag` that the first tag found is the one the whole text has there. The loop
has made all its turns when it stops (`LoopEnds`: each turn that finds a tag
shortens what is pending), so nothing is left to be found between two chunks (`Rests`),
and at the end of the text what is flushed is what is visible (`FlushSeen`).
`ShownInv` carries this through relay and session, which use the same filter; the
types of the accumulator are needed because a wrapper writes what it judged.

`AcceptedIsValid` compares a scan that sees one symbol at a time with definitions
that look at the whole text. `Accumulated(t, n, a)` says what an accumulator that
was fed n symbols of t knows, in four parts:

* the line (`LineAt`): how far the line read now has come in blanks, mark and
  tail, and the fence that is open. `Fences` is the recursive function of `InFence`,
  so that at every place "at a line boundary, not fenced" is `FramedAt` (`FramedIs`);
* the candidate (`Follows`): at most one "<" before n may still become a tag
  (`OneAlive`: a tag holds no second "<"), and the candidate is it, with its
  name, its slash, its blanks and the frame it began in;
* the broken tags (`Spoilt`): one with a blank or a second "/" has been read;
* the count (`Counted`): no exact tag; one that opened a block, with the body so far;
  one that closed none; a block, with what trails it; two that are none; or
  more.

`FeedStep` goes through the branches of one symbol: either it ends an exact tag
(`Ends`), or the count stays as it is (`Quietly`) while the body takes in what the
candidate no longer holds (`Grows`). At the end of the text a candidate that holds a
whole name is a broken tag too (`PendingIs`), the exact tags and the broken ones are
the recognized ones (`RecognizedAre`), and `JudgeIs` says that the verdict is
what the text means: `Valid`, of which a text has at most one (`OneValid`).

`FinalIsHeard` is about wrapper and handler together. What the renderer writes is
`Neutral`: it has no "<" and every line begins with the prefix, so no tag and no fence
begins in it (`NoneRecognized`, `NeutralFences`), and the renderer's `boundary` says
whether it ends a line (`Framing`). `WrittenInv` keeps this for the text of a wrapper
until its last step: the text is then such a prelude, and `Emission(final)` behind
it. If the wrapper refused the final response, or Claude called it an error, that
is rendered too, and the handler finds no tag (`RefusedMeans`). If it accepted it, the
block lies in the response after blanks and whole lines and is written again without the blanks around
its body: `Rewritten` says which symbol of the new text is which of the response,
`RewrittenTags` that the new text has no tag but the two, `RewrittenFramed` that the
opening one stands at a line boundary outside fences, and `RewrittenValid` that it is
valid with the same body, so the handler's result is the wrapper's (`AcceptedMeans`).

`OperatorSeesDiagnostics` is the other half, of what is shown. `Shows(x, b, v)` says
that the rendered text x is v when its prefixes are taken off and its escapes undone,
and that b tells whether v ends a line; `WriteShows` and `FinishShows` keep it for
what the renderer writes. `KeptInv` joins it to `Seen`: what the relay has written is
what the wrapper's filter has shown of the diagnostics, so with the flush it is what
is visible of them, in whole lines. Without a "<", the handler's filter shows all of
it (`NeutralShown`).

### Only model-checked

* Liveness, for good: `InvocationEnds`, `SessionEnds`, `WorkerGoneEnds`,
  `ThreadsEnd`, `WrapperEnds`. Fairness and `ENABLED` are outside the prover.
  Every invariant and action property a passing run checks is a theorem.

## Not modelled

* `state.py`: the JSON codec and the syntax checks of single strings
  (timestamps, digests, absolute paths, UUIDs) are input validation without a
  history. Every relation the validation checks between fields is in `RunnerState`.
* `outcomes.py`: `read_outcome`, which no code of the package calls.
* `config.py`: reading the JSON file changes nothing and is read once; a
  configuration that is refused ends an invocation before it takes a lock.
* `prompts.py`: the fixed text, and the wording of summaries.
* `transcripts.py`, `artifacts.py`: `open(..., "x")` and header text; that they
  may fail is a step of `PlanRunner` (`Artifacts`) and `WorkerSession`.
* `cli.py`: argument parsing, transcript tails, and the second, unlocked read
  after a refusal, which only words an error message.
* `provider_wrappers/`: argument parsing, tool summaries, and lines that are not
  JSON events, which are diagnostics like any other.
* `dev_bootstrap.py`: a developer tool outside the running system.
* The process table: PIDs are not modelled; a recorded start time makes a reused
  PID unequal, so a worker's identity is a fact about the worker.
