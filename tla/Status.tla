-------------------------------- MODULE Status -------------------------------
(***************************************************************************)
(* The command "ai-session-handler status" (cli.py) beside the handlers of *)
(* PlanRunner.  It takes no lock: it reads state.json, then the plan file, *)
(* then looks at a workspace, and handlers and operator act in between.    *)
(***************************************************************************)
EXTENDS PlanRunner

VARIABLES
    seen,    \* the state a status under way has read, or None
    shown    \* what a status that ends in this step shows: what kind of state
             \* and of which phase, and the exit code; or None

ASSUME StatusAssumption ==
    None \notin [kind : {"active", "stopped", "complete", "next"},
                 phase : Phases \union {None}, exit : {0, 5}]

readers == <<seen, shown>>
all     == <<vars, readers>>

StatusInit == Init /\ seen = None /\ shown = None

-----------------------------------------------------------------------------
(* status *)

\* The phase whose workspace is resolved: of a stop, the phase that stopped,
\* or else the one an ordinary run would select.
StatusPhase(s, version) ==
    IF s.active # None \/ ~PlanAcceptable(s, version, FALSE) THEN None
    ELSE IF s.stop # None
    THEN IF s.stop.phase \in Range(PhasesOf[version]) THEN s.stop.phase ELSE None
    ELSE SelectNextPhase(s, version)

\* Mutant: what the plan has become since it was accepted is not asked.
PlanErrorUnchecked(s, version, valid) ==
    LET phase == StatusPhase(s, version)
    IN  phase # None /\ WorkspaceOf[version][phase] \notin valid

\* plan_error: the plan changed, the stopped phase is gone from it, or the
\* workspace of the phase is no longer one.
PlanError(s, version, valid) ==
    LET phase == StatusPhase(s, version)
    IN  \/ ~PlanAcceptable(s, version, FALSE)
        \/ s.active = None /\ s.stop # None /\ phase = None
        \/ phase # None /\ WorkspaceOf[version][phase] \notin valid

Kind(s, phase) ==
    IF s.active # None THEN "active"
    ELSE IF s.stop # None THEN "stopped"
    ELSE IF phase = None THEN "complete"
    ELSE "next"

\* What is printed of state s and plan "version" when "valid" are the
\* workspaces that exist with their AGENTS.md; nothing (None) when a plan
\* error leaves nothing to say.
Shows(s, version, valid) ==
    LET phase == StatusPhase(s, version)
        error == PlanError(s, version, valid)
    IN  IF error /\ ~NeedsRetry(s) THEN None
        ELSE [kind  |-> Kind(s, phase),
              phase |-> IF NeedsRetry(s) THEN RecoveryPhase(s) ELSE phase,
              exit  |-> IF error THEN 5 ELSE 0]

\* read_state: one open of a file that is only ever replaced whole.
StatusReads ==
    /\ seen = None
    /\ ValidState(disk)
    /\ seen' = disk
    /\ shown' = None
    /\ UNCHANGED vars

\* The workspaces that still are one are whichever they are.
StatusShows ==
    /\ seen # None
    /\ \E valid \in SUBSET Workspaces : shown' = Shows(seen, source, valid)
    /\ seen' = None
    /\ UNCHANGED vars

-----------------------------------------------------------------------------
(* The specification *)

\* A step of PlanRunner.
RunStep == Next /\ seen' = seen /\ shown' = None

StatusNext == RunStep \/ StatusReads \/ StatusShows

StatusSpec == StatusInit /\ [][StatusNext]_all

-----------------------------------------------------------------------------
(* Properties *)

\* status never hides a worker that state.json can identify: one that is
\* running is either the attempt it shows or was claimed after it read, however
\* many handlers crashed, retried and finished (README.md: "status remains
\* read-only and reports the unresolved attempt").
StatusHidesNoWorker ==
    seen # None =>
        \A a \in Attempts :
            worker[a].live = "leader" /\ worker[a].named
                => \/ seen.active # None /\ seen.active.id = a
                   \/ \A id \in Mentioned(seen) : a > id

\* What status says is done is done, in the plan as it is when it says so,
\* although neither file was locked: every phase of a plan that is "all
\* complete", and every phase before the next one.
DoneIsDone ==
    [][shown' # None /\ shown'.kind \in {"complete", "next"} =>
        LET phases == PhasesOf[source]
            next   == {i \in DOMAIN phases : phases[i] = shown'.phase}
        IN  \A i \in DOMAIN phases :
               (\A n \in next : i < n) => phases[i] \in Range(disk.completed)]_all

\* How far "run" gets with a state and a plan that stay as they are: to a
\* worker for a phase, to runner-complete (None), or to a refusal.
RunGets(s, version, valid, retry) ==
    LET phase == SelectNextPhase(AcceptPlan(s, version), version)
    IN  IF \/ s.active # None /\ ~retry
           \/ ~PlanAcceptable(s, version, FALSE)
           \/ ~Selectable(AcceptPlan(s, version), version, retry)
           \/ phase # None /\ WorkspaceOf[version][phase] \notin valid
        THEN [refused |-> TRUE, phase |-> None]
        ELSE [refused |-> FALSE, phase |-> phase]

\* An operator can act on what status says: while nothing changed since it
\* read, an ordinary run starts exactly when it exits 0 with a phase or "all
\* complete", and with that phase; what it calls stopped or active an ordinary
\* run refuses, and --retry-stopped takes up a stop that it exits 0 with.
StatusForesees ==
    \A valid \in SUBSET Workspaces :
        LET s == Shows(disk, source, valid)
            run(retry) == RunGets(disk, source, valid, retry)
        IN  /\ s = None \/ s.kind \in {"active", "stopped"}
                  <=> run(FALSE).refused
            /\ s # None /\ ~run(FALSE).refused => s.phase = run(FALSE).phase
            /\ s # None /\ s.kind = "stopped" =>
                  /\ s.exit = 0 <=> ~run(TRUE).refused
                  /\ s.exit = 0 => s.phase = run(TRUE).phase
=============================================================================
