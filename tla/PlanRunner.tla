----------------------------- MODULE PlanRunner ------------------------------
(***************************************************************************)
(* Handler invocations ("ai-session-handler run") on one plan: run_phases  *)
(* and everything it writes, with the operator who edits the plan and      *)
(* retries, the worker processes it launches, handlers that die, files     *)
(* that cannot be written, and a kernel that stops.                        *)
(*                                                                         *)
(* run_agent_process appears here as the steps run_phases observes (launch,*)
(* identity record, end of session, group cleanup).                        *)
(***************************************************************************)
EXTENDS RunnerState, FiniteSets, SequencesExt

CONSTANTS
    Handlers,   \* concurrent handler processes
    Attempts,   \* ids create_run_id may return: bounds the model
    Calls,      \* combinations of options the operator calls "run" with
    Results,    \* process results a session may end with
    PowerLoss   \* may the kernel stop and lose what was not synced?

VARIABLES
    source,     \* version the plan file holds
    disk,       \* the state a read of state.json returns
    stable,     \* the state a kernel stop leaves behind
    files,      \* [Attempts -> outcome file, or None]
    worker,     \* [Attempts -> worker process and its history]
    lock,       \* handler owning the plan workspace, or None
    pc,         \* [Handlers -> where in run_phases the handler is]
    call,       \* [Handlers -> options and loop variables of run_phases]
    mem,        \* [Handlers -> the local variable "state"]
    ending,     \* [Handlers -> how the attempt under way ends]
    signalled,  \* handlers with a deferred SIGINT or SIGTERM
    report,     \* what an invocation that ends in this step reports
    nextId      \* ids below it were drawn

env  == <<source, stable>>
vars == <<source, disk, stable, files, worker, lock, pc, call, mem, ending,
          signalled, report, nextId>>

-----------------------------------------------------------------------------
(* Types and initial state *)

\* status is "torn" in a file whose writing did not finish.
OutcomeFile == [phase : Phases, status : AttemptStatus \union {"torn"}]

\* live: "leader" while the launched process runs, "group" when only
\* descendants in its group do.  named: its identity reached state.json.
Worker == [live : {"none", "leader", "group", "gone"},
           phase : Phases \union {None}, named : BOOLEAN,
           result : ProcessResult \union {None}]

NoWorker == [live |-> "none", phase |-> None, named |-> FALSE,
             result |-> None]

\* The options and loop variables of run_phases.
Invocation == [snap : Versions, retry : BOOLEAN, accept : BOOLEAN,
               max : (Nat \ {0}) \union {None}, ran : Nat,
               phase : Phases \union {None}]

\* shown: the attempt reported as unresolved; allDone: "runner-complete".
Exits == {0, 1, 2, 3, 4, 5, 130}

Report == [exit : Exits, shown : Nat \union {None}, allDone : BOOLEAN]

ASSUME RunnerAssumption ==
    /\ None \notin Handlers \union Invocation \union OutcomeFile
                      \union ProcessResult \union Report
    /\ Attempts \subseteq Nat
    /\ Calls \subseteq [retry : BOOLEAN, accept : BOOLEAN,
                         max : (Nat \ {0}) \union {None}]
    /\ Results \subseteq ProcessResult
    /\ PowerLoss \in BOOLEAN

TypeOK ==
    /\ source \in Versions
    /\ disk \in RunnerStates
    /\ stable \in RunnerStates
    /\ files \in [Attempts -> OutcomeFile \union {None}]
    /\ worker \in [Attempts -> Worker]
    /\ lock \in Handlers \union {None}
    /\ pc \in [Handlers -> {"idle", "lock", "read", "select", "finish", "own",
                            "artifacts", "spawn", "record", "session",
                            "cleanup", "outcome", "commit"}]
    /\ call \in [Handlers -> Invocation \union {None}]
    /\ mem \in [Handlers -> RunnerStates]
    /\ ending \in [Handlers -> AttemptStatus \union {None, "error"}]
    /\ signalled \subseteq Handlers
    /\ report \in Report \union {None}
    /\ nextId \in Nat

Init ==
    /\ source \in Versions
    /\ disk = EmptyState
    /\ stable = EmptyState
    /\ files = [a \in Attempts |-> None]
    /\ worker = [a \in Attempts |-> NoWorker]
    /\ lock = None
    /\ pc = [h \in Handlers |-> "idle"]
    /\ call = [h \in Handlers |-> None]
    /\ mem = [h \in Handlers |-> EmptyState]
    /\ ending = [h \in Handlers |-> None]
    /\ signalled = {}
    /\ report = None
    /\ nextId = 1

-----------------------------------------------------------------------------
(* Ways a step of run_phases ends *)

\* A step in which no invocation ends.
Silent == report' = None

Goto(h, label) == pc' = [pc EXCEPT ![h] = label]

\* The attempt h has under way (from "artifacts" to "commit").
Mine(h) == mem[h].active.id

\* The handler process is gone and the kernel has closed its lock.
Vanish(h) ==
    /\ Goto(h, "idle")
    /\ lock' = IF lock = h THEN None ELSE lock
    /\ call' = [call EXCEPT ![h] = None]
    /\ mem' = [mem EXCEPT ![h] = EmptyState]
    /\ ending' = [ending EXCEPT ![h] = None]
    /\ signalled' = signalled \ {h}

\* run_phases returns or raises and the CLI reports.
Leave(h, exit, shown, allDone) ==
    /\ Vanish(h)
    /\ report' = [exit |-> exit, shown |-> shown, allDone |-> allDone]

Refuse(h) == Leave(h, 5, None, FALSE)

\* A terminal result could not be made durable: exit 4 with the in-memory
\* state, or the signal-driven exit goes on.
Unrecorded(h) ==
    IF ending[h] = "interrupted" THEN Leave(h, 130, None, FALSE)
    ELSE Leave(h, 4, Mine(h), FALSE)

-----------------------------------------------------------------------------
(* From the command line to a selected phase *)

\* The plan is read and hashed before the lock is taken.
Invoke(h) ==
    /\ pc[h] = "idle"
    /\ \E options \in Calls :
          call' = [call EXCEPT ![h] =
                     [snap |-> source, retry |-> options.retry,
                      accept |-> options.accept, max |-> options.max,
                      ran |-> 0, phase |-> None]]
    /\ Goto(h, "lock")
    /\ Silent
    /\ UNCHANGED <<env, disk, files, worker, lock, mem, ending, signalled,
                   nextId>>

\* Mutant: the lock is not exclusive.
AcquirePlanLockShared(h) ==
    /\ pc[h] = "lock"
    /\ lock' = h
    /\ Goto(h, "read")
    /\ Silent
    /\ UNCHANGED <<env, disk, files, worker, call, mem, ending, signalled, nextId>>

AcquirePlanLock(h) ==
    /\ pc[h] = "lock"
    /\ lock = None
    /\ lock' = h
    /\ Goto(h, "read")
    /\ Silent
    /\ UNCHANGED <<env, disk, files, worker, call, mem, ending, signalled, nextId>>

\* The owner may also be a handler running another plan of the workspace.
PlanLockContention(h) ==
    /\ pc[h] = "lock"
    /\ Refuse(h)
    /\ UNCHANGED <<env, disk, files, worker, nextId>>

\* What read_state, the early active-attempt check and the plan hash check
\* let through.
Readable(h) ==
    /\ ValidState(disk)
    /\ disk.active # None => call[h].retry
    /\ PlanAcceptable(disk, call[h].snap, call[h].accept)

ReadState(h) ==
    /\ pc[h] = "read"
    /\ Readable(h)
    /\ mem' = [mem EXCEPT ![h] = AcceptPlan(disk, call[h].snap)]
    /\ Goto(h, "select")
    /\ Silent
    /\ UNCHANGED <<env, disk, files, worker, lock, call, ending, signalled, nextId>>

ReadRefused(h) ==
    /\ pc[h] = "read"
    /\ ~Readable(h)
    /\ Refuse(h)
    /\ UNCHANGED <<env, disk, files, worker, nextId>>

\* The local retry_stopped is reset after the first selection.
RetryNow(h) == call[h].retry /\ call[h].ran = 0

Selected(h) == SelectNextPhase(mem[h], call[h].snap)

\* Neither ensure_plan_snapshot_unchanged nor select_next_phase raises.
CanSelect(h) ==
    /\ call[h].ran > 0 => source = call[h].snap
    /\ Selectable(mem[h], call[h].snap, RetryNow(h))
    /\ Selected(h) = None => source = call[h].snap

SelectPhase(h) ==
    /\ pc[h] = "select"
    /\ CanSelect(h)
    /\ Selected(h) # None
    /\ call' = [call EXCEPT ![h].phase = Selected(h)]
    /\ Goto(h, "own")
    /\ Silent
    /\ UNCHANGED <<env, disk, files, worker, lock, mem, ending, signalled, nextId>>

SelectNothing(h) ==
    /\ pc[h] = "select"
    /\ CanSelect(h)
    /\ Selected(h) = None
    /\ mem' = [mem EXCEPT ![h] = Finished(@)]
    /\ Goto(h, "finish")
    /\ Silent
    /\ UNCHANGED <<env, disk, files, worker, lock, call, ending, signalled, nextId>>

SelectRefused(h) ==
    /\ pc[h] = "select"
    /\ ~CanSelect(h)
    /\ Refuse(h)
    /\ UNCHANGED <<env, disk, files, worker, nextId>>

Finish(h) ==
    /\ pc[h] = "finish"
    /\ disk' = mem[h]
    /\ Leave(h, 0, None, TRUE)
    /\ UNCHANGED <<env, files, worker, nextId>>

FinishFails(h) ==
    /\ pc[h] = "finish"
    /\ Refuse(h)
    /\ UNCHANGED <<env, disk, files, worker, nextId>>

-----------------------------------------------------------------------------
(* Claiming the attempt *)

\* Mutant: nothing asks whether the abandoned worker is alive.
MayLaunchUnchecked(h) ==
    mem[h].active # None =>
        mem[h].active.workspace = WorkspaceOf[call[h].snap][call[h].phase]

\* Mutant: the workspace may have changed since the abandoned attempt.
MayLaunchElsewhere(h) ==
    LET old == mem[h].active IN
    old # None => ~(old.process /\ worker[old.id].live = "leader")

\* The abandoned attempt, if there is one, ran in the workspace the selected
\* phase declares now, and its worker cannot be identified as alive.
MayLaunch(h) ==
    LET old == mem[h].active IN
    old # None =>
        /\ old.workspace = WorkspaceOf[call[h].snap][call[h].phase]
        /\ ~(old.process /\ worker[old.id].live = "leader")

\* Under the execution-workspace lock: one replacement both resolves the
\* abandoned attempt and claims the new one.
Claim(h) == Prepared(mem[h], nextId, call[h].phase, call[h].snap)

\* Mutant: the claim is not written before the worker runs.
PrepareInMemory(h) ==
    /\ pc[h] = "own"
    /\ MayLaunch(h)
    /\ nextId \in Attempts
    /\ mem' = [mem EXCEPT ![h] = Claim(h)]
    /\ nextId' = nextId + 1
    /\ Goto(h, "artifacts")
    /\ Silent
    /\ UNCHANGED <<env, disk, files, worker, lock, call, ending, signalled>>

Prepare(h) ==
    /\ pc[h] = "own"
    /\ MayLaunch(h)
    /\ nextId \in Attempts
    /\ mem' = [mem EXCEPT ![h] = Claim(h)]
    /\ disk' = Claim(h)
    /\ nextId' = nextId + 1
    /\ Goto(h, "artifacts")
    /\ Silent
    /\ UNCHANGED <<env, files, worker, lock, call, ending, signalled>>

\* write_state failed: the outcome returned carries the state not written.
PrepareFails(h) ==
    /\ pc[h] = "own"
    /\ MayLaunch(h)
    /\ nextId \in Attempts
    /\ nextId' = nextId + 1
    /\ Leave(h, 4, nextId, FALSE)
    /\ UNCHANGED <<env, disk, files, worker>>

\* The workspace is missing, or another plan's handler owns it, or
\* MayLaunch is false.
OwnRefused(h) ==
    /\ pc[h] = "own"
    /\ Refuse(h)
    /\ UNCHANGED <<env, disk, files, worker, nextId>>

-----------------------------------------------------------------------------
(* Running the worker *)

\* Prompt and transcript files; the termination signals are not yet managed,
\* so SIGINT raises here and is recorded as an interruption.
Artifacts(h) ==
    /\ pc[h] = "artifacts"
    /\ \/ Goto(h, "spawn") /\ UNCHANGED ending
       \/ /\ Goto(h, "outcome")
          /\ \E e \in {"execution-io-failed", "interrupted"} :
                ending' = [ending EXCEPT ![h] = e]
    /\ Silent
    /\ UNCHANGED <<env, disk, files, worker, lock, call, mem, signalled, nextId>>

Launch(h) ==
    /\ pc[h] = "spawn"
    /\ worker' = [worker EXCEPT ![Mine(h)] =
                    [NoWorker EXCEPT !.live = "leader",
                                     !.phase = mem[h].active.phase]]
    /\ Goto(h, "record")
    /\ Silent
    /\ UNCHANGED <<env, disk, files, lock, call, mem, ending, signalled, nextId>>

LaunchFails(h) ==
    /\ pc[h] = "spawn"
    /\ ending' = [ending EXCEPT ![h] = "launch-failed"]
    /\ Goto(h, "cleanup")
    /\ Silent
    /\ UNCHANGED <<env, disk, files, worker, lock, call, mem, signalled, nextId>>

\* record_process writes the running attempt; /proc may give no identity.
RecordProcess(h) ==
    /\ pc[h] = "record"
    /\ \E process \in BOOLEAN :
          /\ mem' = [mem EXCEPT ![h] = Running(mem[h], process)]
          /\ disk' = Running(mem[h], process)
          /\ worker' = [worker EXCEPT ![Mine(h)].named = process]
    /\ Goto(h, "session")
    /\ Silent
    /\ UNCHANGED <<env, files, lock, call, ending, signalled, nextId>>

\* Mutant: a timeout, too, waits for the worker to exit.
SessionEndsOnExit(h) ==
    /\ pc[h] = "session"
    /\ worker[Mine(h)].live # "leader"
    /\ \E r \in Results :
          /\ worker' = [worker EXCEPT ![Mine(h)].result = r]
          /\ ending' = [ending EXCEPT ![h] = StatusOf(r)]
    /\ Goto(h, "cleanup")
    /\ Silent
    /\ UNCHANGED <<env, disk, files, lock, call, mem, signalled, nextId>>

\* The session reports a result: the worker exited, or the runner stopped it.
SessionEnds(h) ==
    /\ pc[h] = "session"
    /\ \E r \in Results :
          /\ r.stop = None => worker[Mine(h)].live # "leader"
          /\ worker' = [worker EXCEPT ![Mine(h)].result = r]
          /\ ending' = [ending EXCEPT ![h] = StatusOf(r)]
    /\ Goto(h, "cleanup")
    /\ Silent
    /\ UNCHANGED <<env, disk, files, lock, call, mem, signalled,
                   nextId>>

\* The record cannot be written, a stream or the transcript fails, or an
\* exception run_phases does not catch leaves the session ("error").
SessionFails(h) ==
    /\ pc[h] \in {"record", "session"}
    /\ \E e \in {"execution-io-failed", "error"} :
          ending' = [ending EXCEPT ![h] = e]
    /\ Goto(h, "cleanup")
    /\ Silent
    /\ UNCHANGED <<env, disk, files, worker, lock, call, mem, signalled, nextId>>

SessionSignalled(h) ==
    /\ pc[h] = "session"
    /\ h \in signalled
    /\ ending' = [ending EXCEPT ![h] = "interrupted"]
    /\ Goto(h, "cleanup")
    /\ Silent
    /\ UNCHANGED <<env, disk, files, worker, lock, call, mem, signalled, nextId>>

\* Mutant: only the launched process is killed, not its group.
LeaderKilled(h) ==
    worker' = [worker EXCEPT ![Mine(h)].live =
                 IF @ = "leader" THEN "group" ELSE @]

GroupKilled(h) ==
    worker' = [worker EXCEPT ![Mine(h)].live =
                 IF @ = "none" THEN @ ELSE "gone"]

\* Mutant: an exception run_phases does not know is recorded as a result.
CleanupOfAny(h) ==
    /\ pc[h] = "cleanup"
    /\ GroupKilled(h)
    /\ ending' = [ending EXCEPT ![h] =
                    IF h \in signalled THEN "interrupted" ELSE @]
    /\ signalled' = signalled \ {h}
    /\ Goto(h, "outcome")
    /\ Silent
    /\ UNCHANGED <<env, disk, files, lock, call, mem, nextId>>

\* The finally block kills the group; leaving the managed-signal block then
\* raises a deferred signal, whatever the session's result was.
Cleanup(h) ==
    /\ pc[h] = "cleanup"
    /\ ending[h] = "error" => h \in signalled
    /\ GroupKilled(h)
    /\ ending' = [ending EXCEPT ![h] =
                    IF h \in signalled THEN "interrupted" ELSE @]
    /\ signalled' = signalled \ {h}
    /\ Goto(h, "outcome")
    /\ Silent
    /\ UNCHANGED <<env, disk, files, lock, call, mem, nextId>>

\* The CLI reports a ValueError as a refusal; a RuntimeError ends it.
CleanupRaises(h) ==
    /\ pc[h] = "cleanup"
    /\ ending[h] = "error" /\ h \notin signalled
    /\ GroupKilled(h)
    /\ \E exit \in {1, 5} : Leave(h, exit, None, FALSE)
    /\ UNCHANGED <<env, disk, files, nextId>>

-----------------------------------------------------------------------------
(* Recording the result: first the outcome file, then the state *)

OutcomeWith(h, status) ==
    [files EXCEPT ![Mine(h)] = [phase |-> mem[h].active.phase,
                                status |-> status]]

WriteOutcome(h) ==
    /\ pc[h] = "outcome"
    /\ files[Mine(h)] = None
    /\ files' = OutcomeWith(h, ending[h])
    /\ Goto(h, "commit")
    /\ Silent
    /\ UNCHANGED <<env, disk, worker, lock, call, mem, ending, signalled, nextId>>

\* Mutant: a failed outcome write is ignored.
WriteOutcomeAnyway(h) ==
    /\ pc[h] = "outcome"
    /\ files' \in {files, OutcomeWith(h, "torn")}
    /\ Goto(h, "commit")
    /\ Silent
    /\ UNCHANGED <<env, disk, worker, lock, call, mem, ending, signalled, nextId>>

\* It fails before the file exists, while it is written, or at the last sync;
\* a file that already exists is not replaced.
WriteOutcomeFails(h) ==
    /\ pc[h] = "outcome"
    /\ files' \in {files} \union IF files[Mine(h)] # None THEN {}
                     ELSE {OutcomeWith(h, "torn"), OutcomeWith(h, ending[h])}
    /\ Unrecorded(h)
    /\ UNCHANGED <<env, disk, worker, nextId>>

\* The loop goes round after a completed phase, up to --max-phases.
GoesOn(h) ==
    /\ ending[h] = "phase-complete"
    /\ call[h].max # None => call[h].ran + 1 < call[h].max

Updated(h) == Conclude(mem[h], ending[h])

\* Mutant: the loop goes on with the state it had before the commit.
CommitGoesOnStale(h) ==
    /\ pc[h] = "commit"
    /\ GoesOn(h)
    /\ disk' = Updated(h)
    /\ call' = [call EXCEPT ![h].ran = @ + 1, ![h].phase = None]
    /\ ending' = [ending EXCEPT ![h] = None]
    /\ Goto(h, "select")
    /\ Silent
    /\ UNCHANGED <<env, files, worker, lock, mem, signalled, nextId>>

CommitGoesOn(h) ==
    /\ pc[h] = "commit"
    /\ GoesOn(h)
    /\ disk' = Updated(h)
    /\ mem' = [mem EXCEPT ![h] = Updated(h)]
    /\ call' = [call EXCEPT ![h].ran = @ + 1, ![h].phase = None]
    /\ ending' = [ending EXCEPT ![h] = None]
    /\ Goto(h, "select")
    /\ Silent
    /\ UNCHANGED <<env, files, worker, lock, signalled, nextId>>

\* Mutant: reaching --max-phases is reported as runner-complete.
CommitLeavesDone(h) ==
    /\ pc[h] = "commit"
    /\ ~GoesOn(h)
    /\ disk' = Updated(h)
    /\ Leave(h, IF ending[h] = "interrupted" THEN 130 ELSE ExitOf(ending[h]),
             None, ending[h] = "phase-complete")
    /\ UNCHANGED <<env, files, worker, nextId>>

CommitLeaves(h) ==
    /\ pc[h] = "commit"
    /\ ~GoesOn(h)
    /\ disk' = Updated(h)
    /\ Leave(h, IF ending[h] = "interrupted" THEN 130 ELSE ExitOf(ending[h]),
             None, FALSE)
    /\ UNCHANGED <<env, files, worker, nextId>>

\* Mutant: the error comes after the state was replaced.
CommitFailsLate(h) ==
    /\ pc[h] = "commit"
    /\ disk' = Updated(h)
    /\ Unrecorded(h)
    /\ UNCHANGED <<env, files, worker, nextId>>

CommitFails(h) ==
    /\ pc[h] = "commit"
    /\ Unrecorded(h)
    /\ UNCHANGED <<env, disk, files, worker, nextId>>

-----------------------------------------------------------------------------
(* The environment *)

EditPlan ==
    /\ source' \in Versions \ {source}
    /\ Silent
    /\ UNCHANGED <<disk, stable, files, worker, lock, pc, call, mem, ending,
                   signalled, nextId>>

\* SIGINT or SIGTERM while the signals are managed: remembered, not raised.
Signal(h) ==
    /\ pc[h] \in {"spawn", "record", "session", "cleanup"}
    /\ signalled' = signalled \union {h}
    /\ Silent
    /\ UNCHANGED <<env, disk, files, worker, lock, pc, call, mem, ending, nextId>>

\* Nothing is recorded, and an outcome file being written stays as it is.
Abandon(h) ==
    /\ \/ UNCHANGED files
       \/ /\ pc[h] = "outcome"
          /\ files[Mine(h)] = None
          /\ files' = OutcomeWith(h, "torn")
    /\ UNCHANGED <<env, disk, worker, nextId>>

\* SIGTERM, or SIGINT outside the try block, while they are not managed: the
\* handler exits at once.
Terminate(h) ==
    /\ pc[h] \notin {"idle", "spawn", "record", "session", "cleanup"}
    /\ Abandon(h)
    /\ Leave(h, 130, None, FALSE)

\* SIGKILL.
Crash(h) ==
    /\ pc[h] # "idle"
    /\ Abandon(h)
    /\ Vanish(h)
    /\ Silent

\* The worker exits, with or without descendants left in its group.
WorkerExits ==
    \E a \in Attempts :
        /\ \/ /\ worker[a].live = "leader"
              /\ \E l \in {"group", "gone"} :
                    worker' = [worker EXCEPT ![a].live = l]
           \/ /\ worker[a].live = "group"
              /\ worker' = [worker EXCEPT ![a].live = "gone"]
        /\ Silent
    /\ UNCHANGED <<env, disk, files, lock, pc, call, mem, ending,
                       signalled, nextId>>

\* The kernel writes the directory entry of state.json back, some time after
\* the replace: write_state syncs the file and not the directory.
WriteBack ==
    /\ PowerLoss
    /\ stable' = disk
    /\ Silent
    /\ UNCHANGED <<source, disk, files, worker, lock, pc, call, mem, ending,
                   signalled, nextId>>

\* Mutant: an outcome file is not synced before it is linked.
KernelStopsUnsynced ==
    /\ PowerLoss
    /\ disk' = stable
    /\ worker' = [a \in Attempts |->
                    [worker[a] EXCEPT !.live =
                        IF @ = "none" THEN @ ELSE "gone"]]
    /\ lock' = None
    /\ pc' = [h \in Handlers |-> "idle"]
    /\ call' = [h \in Handlers |-> None]
    /\ mem' = [h \in Handlers |-> EmptyState]
    /\ ending' = [h \in Handlers |-> None]
    /\ signalled' = {}
    /\ files' = [a \in Attempts |-> None]
    /\ Silent
    /\ UNCHANGED <<env, nextId>>

\* What of the outcome files a kernel stop leaves: they were synced with their
\* directory outcomes/, but its own entry, which lies beside state.json, was
\* not, and is only sure to be there if something written back links into it.
Salvaged ==
    {files} \union IF stable.outcomes # << >> THEN {}
                   ELSE {[a \in Attempts |-> None]}

\* Every process ends and the state file is the one last written back.
KernelStops ==
    /\ PowerLoss
    /\ disk' = stable
    /\ worker' = [a \in Attempts |->
                    [worker[a] EXCEPT !.live =
                        IF @ = "none" THEN @ ELSE "gone"]]
    /\ lock' = None
    /\ pc' = [h \in Handlers |-> "idle"]
    /\ call' = [h \in Handlers |-> None]
    /\ mem' = [h \in Handlers |-> EmptyState]
    /\ ending' = [h \in Handlers |-> None]
    /\ signalled' = {}
    /\ files' \in Salvaged
    /\ Silent
    /\ UNCHANGED <<env, nextId>>

-----------------------------------------------------------------------------
(* The specification *)

Starting(h) ==
    \/ AcquirePlanLock(h) \/ PlanLockContention(h)
    \/ ReadState(h) \/ ReadRefused(h)
    \/ SelectPhase(h) \/ SelectNothing(h) \/ SelectRefused(h)
    \/ Finish(h) \/ FinishFails(h)
    \/ Prepare(h) \/ PrepareFails(h) \/ OwnRefused(h)

Working(h) ==
    \/ Artifacts(h) \/ Launch(h) \/ LaunchFails(h) \/ RecordProcess(h)
    \/ SessionEnds(h) \/ SessionFails(h) \/ SessionSignalled(h)
    \/ Cleanup(h) \/ CleanupRaises(h)

Recording(h) ==
    \/ WriteOutcome(h) \/ WriteOutcomeFails(h)
    \/ CommitGoesOn(h) \/ CommitLeaves(h) \/ CommitFails(h)

\* What an invocation does once it was called.
HandlerStep(h) == Starting(h) \/ Working(h) \/ Recording(h)

Next ==
    \/ \E h \in Handlers :
          \/ Invoke(h) \/ HandlerStep(h)
          \/ Signal(h) \/ Terminate(h) \/ Crash(h)
    \/ EditPlan \/ WorkerExits \/ WriteBack \/ KernelStops

Spec == Init /\ [][Next]_vars

\* run_phases waits for nothing but the session, which a timeout or the
\* worker's exit ends: the handler process, while it lives, takes its next
\* step.  Nothing is assumed of failures, signals or the worker.
FairStep(h) ==
    \/ AcquirePlanLock(h) \/ PlanLockContention(h)
    \/ ReadState(h) \/ ReadRefused(h)
    \/ SelectPhase(h) \/ SelectNothing(h) \/ SelectRefused(h)
    \/ Finish(h) \/ Prepare(h) \/ OwnRefused(h) \/ Artifacts(h)
    \/ Launch(h) \/ RecordProcess(h) \/ SessionEnds(h)
    \/ Cleanup(h) \/ CleanupRaises(h)
    \/ WriteOutcome(h) \/ CommitGoesOn(h) \/ CommitLeaves(h)

FairSpec == Spec /\ \A h \in Handlers : WF_vars(FairStep(h))

-----------------------------------------------------------------------------
(* Safety *)

\* Past the plan lock (runner.py, _own_directory) there is at most one
\* invocation, and it is the one the lock names.
ExclusiveOwner ==
    \A h \in Handlers : pc[h] \in {"idle", "lock"} <=> lock # h

Attempting == {"artifacts", "spawn", "record", "session", "cleanup",
               "outcome", "commit"}

\* The state an invocation read under the lock, and has carried in memory
\* since, never falls behind state.json: no write loses another's update.
MemoryIsCurrent ==
    \A h \in Handlers :
        /\ pc[h] \in {"select", "own"} =>
              mem[h] = AcceptPlan(disk, call[h].snap)
        /\ pc[h] = "finish" =>
              mem[h] = Finished(AcceptPlan(disk, call[h].snap))
        /\ pc[h] \in Attempting => mem[h] = disk /\ disk.active # None

\* Whatever the operator edits, accepts or retries, and wherever a handler
\* dies, no write_state is ever asked to write a state _validate_state
\* rejects: the raise in it, which no caller handles, is unreachable.
WritesAreValid ==
    /\ ValidState(disk)
    /\ \A h \in Handlers :
        /\ pc[h] = "finish" => ValidState(mem[h])
        /\ pc[h] = "own" /\ MayLaunch(h) => ValidState(Claim(h))
        /\ pc[h] = "record" =>
              \A process \in BOOLEAN : ValidState(Running(mem[h], process))
        /\ pc[h] = "commit" => ValidState(Updated(h))

\* Every outcome state.json links is a complete file that says what the link
\* says: the outcome is written before the state, and never after.
OutcomesBacked ==
    \A i \in DOMAIN disk.outcomes :
        LET o == disk.outcomes[i] IN
        files[o.attempt] = [phase |-> o.phase, status |-> o.status]

Success(r) == r.stop = None /\ r.exit = 0 /\ r.marker = "complete"

\* A phase is completed only on the strength of a worker that was launched
\* for it, exited with zero without being stopped, and said so.
CompletionBacked ==
    \A k \in DOMAIN disk.completed :
        \E i \in DOMAIN disk.outcomes :
            LET o == disk.outcomes[i] IN
            /\ o.phase = disk.completed[k]
            /\ o.status = "phase-complete"
            /\ worker[o.attempt].phase = o.phase
            /\ worker[o.attempt].result # None
            /\ Success(worker[o.attempt].result)

\* An attempt with a linked outcome has no process left in its group.
ConcludedIsDead ==
    \A i \in DOMAIN disk.outcomes :
        worker[disk.outcomes[i].attempt].live \in {"none", "gone"}

\* Two workers of a plan run at once only when the earlier one has no
\* recorded identity, so that nothing could tell it was alive.
NoIdentifiedOverlap ==
    \A a, b \in Attempts :
        a < b /\ worker[a].live = "leader" /\ worker[b].live = "leader"
            => ~worker[a].named

Launched(a) == worker[a].live # "none"

\* A phase some worker was launched for is launched again only by an
\* invocation called with --retry-stopped, as its first phase.
RepeatIsExplicit ==
    \A h \in Handlers : pc[h] \in {"spawn", "record", "session"} =>
        \A a \in Attempts \ {Mine(h)} :
            Launched(a) /\ worker[a].phase = mem[h].active.phase
                => RetryNow(h)

\* "runner-complete" is reported only when every phase of the plan accepted
\* is recorded completed and nothing waits for a retry.
CompleteIsTrue ==
    report # None /\ report.allDone =>
        /\ disk.plan # None
        /\ Incomplete(disk, disk.plan) = {}
        /\ ~NeedsRetry(disk)

\* The launched attempt the CLI reports as unresolved is the one state.json
\* holds: a result that could not be made durable never hides the attempt it
\* belongs to.
LaunchedUnresolvedIsOnDisk ==
    /\ report # None
    /\ report.shown \in Attempts
    /\ Launched(report.shown)
    => disk.active # None /\ disk.active.id = report.shown

-----------------------------------------------------------------------------
(* Action properties *)

\* A phase that stopped or was abandoned stays so until its own attempt
\* concludes or an invocation with --retry-stopped claims it again, in the
\* workspace an abandoned attempt ran in.
RecoveryIsExplicit ==
    [][NeedsRetry(disk) /\ disk' # disk =>
        \/ \E h \in Handlers :
              /\ pc[h] = "own" /\ RetryNow(h)
              /\ disk'.active # None
              /\ disk'.active.phase = RecoveryPhase(disk)
              /\ disk.active # None =>
                    /\ disk'.active.workspace = disk.active.workspace
                    /\ disk'.last.attempt = disk.active.id
                    /\ ~disk'.last.linked
        \/ /\ disk.active # None
           /\ \/ /\ disk'.active # None
                 /\ disk'.active.id = disk.active.id
              \/ \E i \in DOMAIN disk'.outcomes :
                    disk'.outcomes[i].attempt = disk.active.id]_vars

-----------------------------------------------------------------------------
(* Liveness *)

\* Every invocation that is called ends: contention, refusal, failure and
\* the phase loop all come back to the operator.
InvocationEnds == \A h \in Handlers : pc[h] # "idle" ~> pc[h] = "idle"

-----------------------------------------------------------------------------
(* Refinement *)

\* None is not an attempt the ledger may hold open.
ASSUME LedgerAssumption == None \notin [id : Nat, phase : Phases]

\* state.json, through every step of every handler, is such a ledger.
Ledger == INSTANCE AttemptLedger WITH
    Status   <- AttemptStatus,
    Complete <- "phase-complete",
    Nobody   <- None,
    open     <- IF disk.active = None THEN None
                ELSE [id |-> disk.active.id, phase |-> disk.active.phase],
    parked   <- IF disk.stop = None THEN None ELSE disk.stop.phase,
    done     <- disk.completed,
    entries  <- disk.outcomes

\* The lifecycle of attempts as state-and-recovery.md promises it.
KeepsLedger == Ledger!LSpec
=============================================================================
