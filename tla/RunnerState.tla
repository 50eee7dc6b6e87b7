----------------------------- MODULE RunnerState -----------------------------
(***************************************************************************)
(* The durable runner state of one plan (state.py) and the pure functions  *)
(* that move it: plan acceptance, phase selection, and the transitions     *)
(* runner.py builds before each write_state.  Paths, titles, timestamps    *)
(* and messages are abstracted: an attempt is its id, a plan its version,  *)
(* and a link to an outcome file is the attempt id that names the file.    *)
(***************************************************************************)
EXTENDS Integers, Sequences, Functions

CONSTANTS
    Versions,     \* contents the plan file may have (each one hash)
    Phases,       \* phase ids of any version
    Workspaces,   \* execution workspaces a phase may declare
    PhasesOf,     \* [Versions -> Seq(Phases)]: the phases a version parses to
    WorkspaceOf,  \* [Versions -> [Phases -> Workspaces]]: resolved workspace
    None          \* the absent value (Python's None)

Failures == {"agent-failed", "missing-marker", "multiple-markers",
             "invalid-marker", "timeout", "stop-regex", "launch-failed",
             "interrupted", "execution-io-failed"}

StopReason == {"blocked", "needs-clarification"} \union Failures

AttemptStatus == {"phase-complete"} \union StopReason

OutcomeRef == [attempt : Nat, phase : Phases, status : AttemptStatus]

ActiveAttempt == [id : Nat, status : {"prepared", "running"}, phase : Phases,
                  snapshot : Versions, workspace : Workspaces,
                  process : BOOLEAN]

StopState == [reason : StopReason, phase : Phases]

LastRun == [attempt : Nat, phase : Phases, status : AttemptStatus,
            linked : BOOLEAN]

\* What a worker process ends with: the runner's own stop reason, the exit
\* code (zero or not) and what the two output streams' markers parse to.
ProcessResult == [stop : {None, "timeout", "stop-regex"}, exit : {0, 1},
                  marker : {"complete", "blocked", "clarify",
                            "missing", "multiple", "invalid"}]

ASSUME PlanAssumption ==
    /\ PhasesOf \in [Versions -> Seq(Phases)]
    /\ \A v \in Versions : PhasesOf[v] # << >> /\ IsInjective(PhasesOf[v])
    /\ WorkspaceOf \in [Versions -> [Phases -> Workspaces]]

ASSUME NoneAssumption ==
    None \notin Versions \union Phases \union Nat \union OutcomeRef
                  \union ActiveAttempt \union StopState \union LastRun

-----------------------------------------------------------------------------
(* The state record and its validation *)

RunnerStates ==
    [plan : Versions \union {None}, completed : Seq(Phases),
     outcomes : Seq(OutcomeRef), current : Phases \union {None},
     active : ActiveAttempt \union {None}, stop : StopState \union {None},
     last : LastRun \union {None}]

EmptyState == [plan |-> None, completed |-> << >>, outcomes |-> << >>,
               current |-> None, active |-> None, stop |-> None,
               last |-> None]

AttemptIdsDistinct(s) ==
    \A i, j \in DOMAIN s.outcomes :
        s.outcomes[i].attempt = s.outcomes[j].attempt => i = j

ValidActive(s) ==
    s.active # None =>
        /\ s.stop = None
        /\ s.current = s.active.phase
        /\ s.active.phase \notin Range(s.completed)
        /\ s.active.snapshot = s.plan
        /\ s.active.status = "prepared" => ~s.active.process

ValidStop(s) ==
    s.stop # None =>
        /\ s.current = s.stop.phase
        /\ s.stop.phase \notin Range(s.completed)

ValidLast(s) ==
    s.last # None =>
        /\ s.last.linked \/ s.last.status = "interrupted"
        /\ s.last.status = "phase-complete" =>
               s.last.phase \in Range(s.completed)
        /\ s.last.linked =>
               /\ s.outcomes # << >>
               /\ s.outcomes[Len(s.outcomes)] =
                    [attempt |-> s.last.attempt, phase |-> s.last.phase,
                     status |-> s.last.status]

\* What _validate_state demands on every read and before every write.
ValidState(s) ==
    /\ IsInjective(s.completed)
    /\ ValidActive(s)
    /\ ValidStop(s)
    /\ s.current # None => s.active # None \/ s.stop # None
    /\ AttemptIdsDistinct(s)
    /\ ValidLast(s)

-----------------------------------------------------------------------------
(* Accepting a plan and selecting a phase *)

\* ensure_plan_hash_matches returns (rather than raises) ...
PlanAcceptable(s, version, acceptChange) ==
    \/ s.plan = version
    \/ /\ s.plan = None \/ acceptChange
       /\ Range(s.completed) \subseteq Range(PhasesOf[version])

\* Mutant: accepting an edited plan starts it over.
AcceptPlanAnew(s, version) ==
    IF s.plan = version THEN s
    ELSE [s EXCEPT !.plan = version, !.completed = << >>]

\* ... this state.
AcceptPlan(s, version) == [s EXCEPT !.plan = version]

NeedsRetry(s) == s.active # None \/ s.stop # None

RecoveryPhase(s) ==
    IF s.active # None THEN s.active.phase ELSE s.stop.phase

\* Mutant: completed phases are not skipped.
IncompleteAll(s, version) == DOMAIN PhasesOf[version]

Incomplete(s, version) ==
    {i \in DOMAIN PhasesOf[version] :
        PhasesOf[version][i] \notin Range(s.completed)}

\* Mutant: a stopped phase is run again without --retry-stopped.
SelectableAlways(s, version, retry) ==
    NeedsRetry(s) => RecoveryPhase(s) \in Range(PhasesOf[version])

\* select_next_phase returns rather than raises.
Selectable(s, version, retry) ==
    NeedsRetry(s) =>
        retry /\ RecoveryPhase(s) \in Range(PhasesOf[version])

\* Mutant: the last incomplete phase is selected.
SelectLastPhase(s, version) ==
    IF NeedsRetry(s) THEN RecoveryPhase(s)
    ELSE IF Incomplete(s, version) = {} THEN None
    ELSE PhasesOf[version][CHOOSE i \in Incomplete(s, version) :
                             \A j \in Incomplete(s, version) : i >= j]

\* Mutant: a retry starts from the first incomplete phase.
SelectFirstPhase(s, version) ==
    IF Incomplete(s, version) = {} THEN None
    ELSE PhasesOf[version][CHOOSE i \in Incomplete(s, version) :
                             \A j \in Incomplete(s, version) : i <= j]

SelectNextPhase(s, version) ==
    IF NeedsRetry(s) THEN RecoveryPhase(s)
    ELSE IF Incomplete(s, version) = {} THEN None
    ELSE PhasesOf[version][CHOOSE i \in Incomplete(s, version) :
                             \A j \in Incomplete(s, version) : i <= j]

-----------------------------------------------------------------------------
(* The transitions of an attempt *)

\* Mutant: an abandoned attempt is dropped.
ResolveByDropping(s) ==
    IF s.active = None THEN s ELSE [s EXCEPT !.active = None, !.stop = None]

\* An abandoned attempt becomes the last run, interrupted and with no
\* outcome linked: its result is unknown.
ResolveAbandoned(s) ==
    IF s.active = None THEN s
    ELSE [s EXCEPT !.active = None, !.stop = None,
                   !.last = [attempt |-> s.active.id,
                             phase |-> s.active.phase,
                             status |-> "interrupted", linked |-> FALSE]]

\* The state that claims attempt id for a phase before anything runs.
Prepared(s, id, phase, version) ==
    [ResolveAbandoned(s) EXCEPT
        !.current = phase,
        !.active = [id |-> id, status |-> "prepared", phase |-> phase,
                    snapshot |-> version,
                    workspace |-> WorkspaceOf[version][phase],
                    process |-> FALSE],
        !.stop = None]

\* record_process: the worker runs; process tells whether /proc gave an
\* identity for it.
Running(s, process) ==
    [s EXCEPT !.active.status = "running", !.active.process = process]

\* Mutant: a completion marker wins over a timeout.
StatusOfMarkerFirst(r) ==
    IF r.exit = 0 /\ r.marker = "complete" THEN "phase-complete"
    ELSE IF r.stop # None THEN r.stop ELSE "agent-failed"

\* The precedence of apply_process_result: the runner's stop reason, then
\* the exit code, then the marker.
StatusOf(r) ==
    CASE r.stop # None -> r.stop
      [] r.stop = None /\ r.exit # 0 -> "agent-failed"
      [] r.stop = None /\ r.exit = 0 ->
            CASE r.marker = "complete"  -> "phase-complete"
              [] r.marker = "blocked"   -> "blocked"
              [] r.marker = "clarify"   -> "needs-clarification"
              [] r.marker = "missing"   -> "missing-marker"
              [] r.marker = "multiple"  -> "multiple-markers"
              [] r.marker = "invalid"   -> "invalid-marker"

ExitOf(status) ==
    CASE status = "phase-complete" -> 0
      [] status = "blocked" -> 2
      [] status = "needs-clarification" -> 3
      [] OTHER -> 4

\* The terminal state of the active attempt: its outcome is linked, and the
\* phase is completed or the run stops on it.
Conclude(s, status) ==
    LET phase == s.active.phase
        ref   == [attempt |-> s.active.id, phase |-> phase, status |-> status]
        done  == status = "phase-complete"
    IN  [s EXCEPT
            !.completed = IF done /\ phase \notin Range(@)
                          THEN Append(@, phase) ELSE @,
            !.current = IF done THEN None ELSE @,
            !.active = None,
            !.stop = IF done THEN None
                     ELSE [reason |-> status, phase |-> phase],
            !.last = [attempt |-> s.active.id, phase |-> phase,
                      status |-> status, linked |-> TRUE],
            !.outcomes = Append(@, ref)]

\* The state written when no phase is left.
Finished(s) == [s EXCEPT !.stop = None, !.current = None]

\* Attempt ids a state file mentions.
Mentioned(s) ==
    {s.outcomes[i].attempt : i \in DOMAIN s.outcomes}
        \union (IF s.active = None THEN {} ELSE {s.active.id})
        \union (IF s.last = None THEN {} ELSE {s.last.attempt})
=============================================================================
