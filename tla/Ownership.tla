------------------------------ MODULE Ownership ------------------------------
(***************************************************************************)
(* Handler invocations on several plans: where each finds its plan         *)
(* workspace, the directories it locks (_own_directory and                 *)
(* _own_execution_workspace), and the workers that outlive it.             *)
(*                                                                         *)
(* What PlanRunner says in detail of one plan is short here: a state is    *)
(* how many phases are done, the attempt that is unresolved and whether    *)
(* the last one stopped; a session is one step.                            *)
(***************************************************************************)
EXTENDS Naturals, FiniteSets, Sequences

CONSTANTS
    Handlers, Plans,
    Paths,      \* canonical paths of directories
    Dirs,       \* directories (device and inode)
    Dir,        \* [Paths -> Dirs]: bind mounts give a directory two paths
    Ancestors,  \* [Plans -> the directories above it, nearest first]
    Declared,   \* [Plans \X Paths -> execution workspaces of its phases,
                \*   when the path is its plan workspace]
    Attempts,   \* attempt ids; one may return when nothing refers to it
    None

ASSUME OwnershipAssumption ==
    /\ Dir \in [Paths -> Dirs]
    /\ Ancestors \in [Plans -> Seq(Paths)]
    /\ \A p \in Plans : Ancestors[p] # << >>
    /\ Declared \in [Plans \X Paths -> Seq(Paths)]
    /\ None \notin Handlers \union Attempts \union Paths

VARIABLES
    marked,   \* paths with .ai-session-handler, .git or AGENTS.md
    owner,    \* [Dirs -> the handler whose flock is on it, or None]
    pc,       \* [Handlers -> where the invocation is]
    call,     \* [Handlers -> what run_phases holds in local variables]
    done,     \* [Keys -> number of completed phases]
    active,   \* [Keys -> the unresolved attempt, or None]
    stopped,  \* keys whose state holds a stop
    worker    \* [Attempts -> the worker launched for it]

vars == <<marked, owner, pc, call, done, active, stopped, worker>>

\* State is kept below the plan workspace, under the plan's name.
Keys == Dirs \X Plans

\* named: its process identity is recorded.
Workers == [live : BOOLEAN, named : BOOLEAN, path : Paths \union {None}]
Unlaunched == [live |-> FALSE, named |-> FALSE, path |-> None]

Invocations == [plan : Plans, home : Paths, retry : BOOLEAN, phase : Nat,
                target : Paths \union {None}, attempt : Attempts \union {None}]

Places == {"idle", "own plan", "select", "own execution", "prepare", "launch",
           "identify", "session", "record"}

TypeOK ==
    /\ marked \subseteq Paths
    /\ owner \in [Dirs -> Handlers \union {None}]
    /\ pc \in [Handlers -> Places]
    /\ call \in [Handlers -> Invocations \union {None}]
    /\ \A h \in Handlers : pc[h] # "idle" => call[h] \in Invocations
    /\ done \in [Keys -> Nat]
    /\ active \in [Keys -> Attempts \union {None}]
    /\ stopped \subseteq Keys
    /\ worker \in [Attempts -> Workers]

\* Where a marker matters: above a plan.
Above == {p \in Paths : \E k \in Plans : \E i \in DOMAIN Ancestors[k] :
                             p = Ancestors[k][i]}

Init ==
    /\ marked \in SUBSET Above
    /\ owner = [d \in Dirs |-> None]
    /\ pc = [h \in Handlers |-> "idle"]
    /\ call = [h \in Handlers |-> None]
    /\ done = [k \in Keys |-> 0]
    /\ active = [k \in Keys |-> None]
    /\ stopped = {}
    /\ worker = [a \in Attempts |-> Unlaunched]

-----------------------------------------------------------------------------
(* Where an invocation is, and what it owns *)

HomeDir(h) == Dir[call[h].home]
TargetDir(h) == Dir[call[h].target]
Key(h) == <<HomeDir(h), call[h].plan>>
Phases(h) == Declared[<<call[h].plan, call[h].home>>]

OwnsPlan(h) == pc[h] \notin {"idle", "own plan"}
OwnsTarget(h) ==
    pc[h] \in {"prepare", "launch", "identify", "session", "record"}

Goto(h, place) == pc' = [pc EXCEPT ![h] = place]

\* The directories are given up by name, or by the kernel.
Leave(h) ==
    /\ Goto(h, "idle")
    /\ call' = [call EXCEPT ![h] = None]
    /\ owner' = [d \in Dirs |-> IF owner[d] = h THEN None ELSE owner[d]]

Refuse(h) == Leave(h) /\ UNCHANGED <<marked, done, active, stopped, worker>>

\* Mutant: the lock is given up although it is the plan's too.
ReleaseAlways(h) == owner' = [owner EXCEPT ![TargetDir(h)] = None]

\* _own_execution_workspace ends.
Release(h) ==
    owner' = IF TargetDir(h) = HomeDir(h) THEN owner
             ELSE [owner EXCEPT ![TargetDir(h)] = None]

-----------------------------------------------------------------------------
(* One invocation *)

\* The nearest marked directory above the plan, or the plan's own.
IsPlanWorkspace(plan, path) ==
    \E i \in DOMAIN Ancestors[plan] :
        /\ path = Ancestors[plan][i]
        /\ \A j \in 1 .. i - 1 : Ancestors[plan][j] \notin marked
        /\ \/ path \in marked
           \/ /\ i = 1
              /\ \A j \in DOMAIN Ancestors[plan] : Ancestors[plan][j] \notin marked

Call(h) ==
    /\ pc[h] = "idle"
    /\ \E plan \in Plans, home \in Paths, retry \in BOOLEAN :
          /\ IsPlanWorkspace(plan, home)
          /\ call' = [call EXCEPT ![h] =
                        [plan |-> plan, home |-> home, retry |-> retry,
                         phase |-> 0, target |-> None, attempt |-> None]]
    /\ Goto(h, "own plan")
    /\ UNCHANGED <<marked, owner, done, active, stopped, worker>>

\* Mutant: the plan workspace is not locked.
OwnPlanFreely(h) ==
    /\ pc[h] = "own plan"
    /\ Goto(h, "select")
    /\ UNCHANGED <<marked, owner, call, done, active, stopped, worker>>

OwnPlan(h) ==
    /\ pc[h] = "own plan"
    /\ \/ /\ owner[HomeDir(h)] = None
          /\ owner' = [owner EXCEPT ![HomeDir(h)] = h]
          /\ Goto(h, "select")
          /\ UNCHANGED <<marked, call, done, active, stopped, worker>>
       \/ owner[HomeDir(h)] # None /\ Refuse(h)

Unresolved(h) == active[Key(h)] # None

Selectable(h) ==
    /\ Unresolved(h) \/ Key(h) \in stopped => call[h].retry
    /\ done[Key(h)] < Len(Phases(h))

\* A phase is selected, or the plan is complete, or the state forbids it, or
\* the phase's workspace is not valid.
Select(h) ==
    /\ pc[h] = "select"
    /\ \/ /\ Selectable(h)
          /\ LET phase == done[Key(h)] + 1
                 target == Phases(h)[phase]
             IN  /\ Unresolved(h) => worker[active[Key(h)]].path = target
                 /\ call' = [call EXCEPT ![h].phase = phase,
                                         ![h].target = target]
          /\ Goto(h, "own execution")
          /\ UNCHANGED <<marked, owner, done, active, stopped, worker>>
       \/ Refuse(h)

\* Mutant: the plan workspace is recognised by its path.
OwnExecutionByPath(h) ==
    /\ pc[h] = "own execution"
    /\ \/ /\ call[h].target = call[h].home \/ owner[TargetDir(h)] = None
          /\ owner' = [owner EXCEPT ![TargetDir(h)] = h]
          /\ Goto(h, "prepare")
          /\ UNCHANGED <<marked, call, done, active, stopped, worker>>
       \/ /\ call[h].target # call[h].home /\ owner[TargetDir(h)] # None
          /\ Refuse(h)

OwnExecution(h) ==
    /\ pc[h] = "own execution"
    /\ \/ /\ TargetDir(h) = HomeDir(h) \/ owner[TargetDir(h)] = None
          /\ owner' = [owner EXCEPT ![TargetDir(h)] = h]
          /\ Goto(h, "prepare")
          /\ UNCHANGED <<marked, call, done, active, stopped, worker>>
       \/ /\ TargetDir(h) # HomeDir(h) /\ owner[TargetDir(h)] # None
          /\ Refuse(h)

Fresh(a) ==
    /\ ~worker[a].live
    /\ \A k \in Keys : active[k] # a
    /\ \A g \in Handlers : pc[g] # "idle" => call[g].attempt # a

\* Mutant: the recorded worker is not looked for.
SurvivorIgnored(h) == FALSE

\* _active_worker_is_alive
Survivor(h) ==
    /\ Unresolved(h)
    /\ worker[active[Key(h)]].named /\ worker[active[Key(h)]].live

\* The attempt is written to state, in place of the one that is retried.
Prepare(h) ==
    /\ pc[h] = "prepare"
    /\ \/ /\ ~Survivor(h)
          /\ \E a \in Attempts :
                /\ Fresh(a)
                /\ active' = [active EXCEPT ![Key(h)] = a]
                /\ call' = [call EXCEPT ![h].attempt = a, ![h].retry = FALSE]
                /\ worker' = [worker EXCEPT ![a] =
                               [live |-> FALSE, named |-> FALSE,
                                path |-> call[h].target]]
          /\ stopped' = stopped \ {Key(h)}
          /\ Goto(h, "launch")
          /\ UNCHANGED <<marked, owner, done>>
       \/ Survivor(h) /\ Refuse(h)

\* The attempt ends otherwise than in completion, which is recorded, or
\* cannot be: then it stays unresolved.
Stop(h) ==
    \/ /\ active' = [active EXCEPT ![Key(h)] = None]
       /\ stopped' = stopped \union {Key(h)}
       /\ Leave(h)
       /\ UNCHANGED <<marked, done, worker>>
    \/ Refuse(h)

Launch(h) ==
    /\ pc[h] = "launch"
    /\ \/ /\ worker' = [worker EXCEPT ![call[h].attempt].live = TRUE]
          /\ Goto(h, "identify")
          /\ UNCHANGED <<marked, owner, call, done, active, stopped>>
       \/ Stop(h)

\* The identity is recorded, unless it cannot be read.
Identify(h) ==
    /\ pc[h] = "identify"
    /\ \E known \in BOOLEAN :
          worker' = [worker EXCEPT ![call[h].attempt].named = known]
    /\ Goto(h, "session")
    /\ UNCHANGED <<marked, owner, call, done, active, stopped>>

\* Mutant: the execution workspace is given up before the worker is.
SessionReleases(h) ==
    /\ pc[h] = "session"
    /\ Goto(h, "record")
    /\ Release(h)
    /\ UNCHANGED <<marked, worker, call, done, active, stopped>>

\* run_agent_process ends: its process group is gone.
Session(h) ==
    /\ pc[h] = "session"
    /\ worker' = [worker EXCEPT ![call[h].attempt].live = FALSE]
    /\ Goto(h, "record")
    /\ UNCHANGED <<marked, owner, call, done, active, stopped>>

\* The result is made durable; the next phase follows a complete one, unless
\* max_phases are done.
Record(h) ==
    /\ pc[h] = "record"
    /\ \/ /\ active' = [active EXCEPT ![Key(h)] = None]
          /\ done' = [done EXCEPT ![Key(h)] = @ + 1]
          /\ \/ Leave(h)
             \/ Release(h) /\ Goto(h, "select") /\ UNCHANGED call
          /\ UNCHANGED <<marked, stopped, worker>>
       \/ Stop(h)

-----------------------------------------------------------------------------
(* Everything else *)

\* The handler dies, or an error that is no refusal ends it (open, flock, the
\* stat of owns): its locks go, its worker stays.
Crash(h) ==
    /\ pc[h] # "idle"
    /\ Refuse(h)

WorkerExits(a) ==
    /\ worker[a].live
    /\ worker' = [worker EXCEPT ![a].live = FALSE]
    /\ UNCHANGED <<marked, owner, pc, call, done, active, stopped>>

\* "init", or a worker, or the operator, creates a marker.
Mark(p) ==
    /\ p \in Above
    /\ marked' = marked \union {p}
    /\ UNCHANGED <<owner, pc, call, done, active, stopped, worker>>

Step(h) ==
    \/ OwnPlan(h) \/ Select(h) \/ OwnExecution(h) \/ Prepare(h) \/ Launch(h)
    \/ Identify(h) \/ Session(h) \/ Record(h)

Next ==
    \/ \E h \in Handlers : Call(h) \/ Step(h) \/ Crash(h)
    \/ \E a \in Attempts : WorkerExits(a)
    \/ \E p \in Paths : Mark(p)

Spec == Init /\ [][Next]_vars

\* No marker is created while the plans are worked on.
StillSpec == Init /\ [][Next /\ UNCHANGED marked]_vars

-----------------------------------------------------------------------------
(* Properties *)

Uses(h) == (IF OwnsPlan(h) THEN {HomeDir(h)} ELSE {}) \union
           (IF OwnsTarget(h) THEN {TargetDir(h)} ELSE {})

\* No directory is used by two invocations at once, be it as the plan
\* workspace of one and the execution workspace of the other, until the
\* result of the work done there is recorded.
HandlersExclude ==
    \A g, h \in Handlers : g # h => Uses(g) \intersect Uses(h) = {}

Supervised(a) ==
    \E h \in Handlers : /\ pc[h] \in {"identify", "session"}
                        /\ call[h].attempt = a

\* A live worker whose identity was recorded is in the hands of a handler, or
\* is what the state of its plan says is unresolved: no retry forgets it.
WorkersAreAccountedFor ==
    \A a \in Attempts :
        worker[a].live /\ worker[a].named =>
            Supervised(a) \/ \E k \in Keys : active[k] = a

\* An invocation is refused a directory only if another invocation uses it: it
\* never stands in its own way, whichever paths lead to its workspaces.
RefusedByAnother ==
    [][\A h \in Handlers :
          pc[h] \in {"own plan", "own execution"} /\ Step(h) /\ pc'[h] = "idle" =>
             \E g \in Handlers \ {h} :
                owner[IF pc[h] = "own plan" THEN HomeDir(h) ELSE TargetDir(h)] = g
      ]_vars

\* Phase n of the plan is still to be done, says the state kept at k.
Free(k, n) == done[k] < n /\ active[k] = None /\ k \notin stopped

LaunchesUnasked(h) ==
    /\ pc[h] = "prepare" /\ pc'[h] = "launch"
    /\ ~call[h].retry

\* An ordinary run does not launch a phase that some earlier run in the same
\* plan workspace completed, stopped at or left unresolved.
OrdinaryRunsRepeatNothing ==
    [][\A h \in Handlers :
          LaunchesUnasked(h) => Free(Key(h), call[h].phase)]_vars

\* An ordinary run does not launch a phase of its plan that any earlier run of
\* that plan completed, stopped at or left unresolved, whichever plan workspace
\* the earlier run found.
PlanRepeatsNothing ==
    [][\A h \in Handlers, d \in Dirs :
          LaunchesUnasked(h) => Free(<<d, call[h].plan>>, call[h].phase)]_vars
=============================================================================
