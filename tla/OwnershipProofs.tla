--------------------------- MODULE OwnershipProofs ---------------------------
(***************************************************************************)
(* Proofs about Ownership: types, mutual exclusion, that no recorded       *)
(* worker is forgotten, that refusals are due to others and that ordinary  *)
(* runs repeat nothing, for all handlers, plans, directories and paths.    *)
(***************************************************************************)
EXTENDS Ownership, TLAPS

Placed == {"own execution", "prepare", "launch", "identify", "session",
           "record"}
Working == {"launch", "identify", "session", "record"}

\* The local variables of run_phases are set where they are used.
Assigned ==
    \A h \in Handlers :
        /\ pc[h] \in Placed => call[h].target \in Paths
        /\ pc[h] \in Working => call[h].attempt \in Attempts

TypeInv == TypeOK /\ Assigned

\* What an invocation uses, it has locked.
LocksInv ==
    \A h \in Handlers : /\ OwnsPlan(h) => owner[HomeDir(h)] = h
                        /\ OwnsTarget(h) => owner[TargetDir(h)] = h

\* An attempt under way is its state's unresolved attempt and no other
\* state's; without a worker, before the launch and after the session.
AttemptsInv ==
    /\ \A h \in Handlers :
          /\ pc[h] \in Working => active[Key(h)] = call[h].attempt
          /\ pc[h] \in {"launch", "record"} => ~worker[call[h].attempt].live
    /\ \A k, l \in Keys : active[k] = active[l] /\ active[k] # None => k = l
    /\ \A a \in Attempts : worker[a].live /\ worker[a].named =>
                              \E k \in Keys : active[k] = a

\* What an invocation has locked, it uses.
HeldInv ==
    \A h \in Handlers, d \in Dirs : owner[d] = h => d \in Uses(h)

Selecting == {"own execution", "prepare"}

\* What an invocation has read of its plan's state, to select a phase, is
\* still so.
SelectedInv ==
    \A h \in Handlers :
        pc[h] \in Selecting =>
            /\ call[h].phase = done[Key(h)] + 1
            /\ Unresolved(h) \/ Key(h) \in stopped => call[h].retry

-----------------------------------------------------------------------------
(* Types *)

LEMMA TypeInit == Init => TypeInv
  BY OwnershipAssumption
     DEF Init, Above, TypeInv, TypeOK, Assigned, Placed, Working, Places,
         Unlaunched, Workers

\* An invocation that is under way has a plan, a home and a key.
LEMMA Located ==
  ASSUME OwnershipAssumption, TypeInv, NEW h \in Handlers, pc[h] # "idle"
  PROVE  /\ call[h] \in Invocations
         /\ HomeDir(h) \in Dirs
         /\ Key(h) \in Keys
         /\ pc[h] \in Placed => TargetDir(h) \in Dirs
  BY DEF OwnershipAssumption, TypeInv, TypeOK, Assigned, Invocations, HomeDir,
         TargetDir, Key, Keys

LEMMA RefuseType ==
  ASSUME TypeInv, NEW h \in Handlers, Leave(h), UNCHANGED marked,
         done' \in [Keys -> Nat], active' \in [Keys -> Attempts \union {None}],
         stopped' \subseteq Keys, worker' = worker
  PROVE  TypeInv'
  BY DEF TypeInv, TypeOK, Assigned, Leave, Goto, Places, Placed, Working

LEMMA StopType ==
  ASSUME OwnershipAssumption, TypeInv, NEW h \in Handlers, pc[h] # "idle",
         Stop(h)
  PROVE  TypeInv'
<1>1. Key(h) \in Keys  BY Located
<1>2. CASE Refuse(h)
  BY <1>2, RefuseType DEF Refuse, TypeInv, TypeOK
<1>3. CASE /\ active' = [active EXCEPT ![Key(h)] = None]
           /\ stopped' = stopped \union {Key(h)}
           /\ Leave(h)
           /\ UNCHANGED <<marked, done, worker>>
  BY <1>1, <1>3, RefuseType DEF TypeInv, TypeOK
<1> QED  BY <1>2, <1>3 DEF Stop

LEMMA TypeStep == TypeInv /\ [Next]_vars => TypeInv'
<1> SUFFICES ASSUME TypeInv, [Next]_vars PROVE TypeInv'  OBVIOUS
<1> USE OwnershipAssumption
<1>1. ASSUME NEW h \in Handlers, Call(h) PROVE TypeInv'
  <2>1. PICK plan \in Plans, home \in Paths, retry \in BOOLEAN :
           call' = [call EXCEPT ![h] =
                      [plan |-> plan, home |-> home, retry |-> retry,
                       phase |-> 0, target |-> None, attempt |-> None]]
    BY <1>1 DEF Call
  <2>2. /\ call'[h] \in Invocations
        /\ call' \in [Handlers -> Invocations \union {None}]
        /\ \A g \in Handlers : g # h => call'[g] = call[g]
    BY <2>1 DEF TypeInv, TypeOK, Invocations
  <2>3. /\ pc' \in [Handlers -> Places] /\ pc'[h] = "own plan"
        /\ \A g \in Handlers : g # h => pc'[g] = pc[g]
    BY <1>1 DEF Call, Goto, TypeInv, TypeOK, Places
  <2>4. UNCHANGED <<marked, owner, done, active, stopped, worker>>
    BY <1>1 DEF Call
  <2>5. TypeOK'
    BY <2>2, <2>3, <2>4 DEF TypeInv, TypeOK
  <2>6. Assigned'
    BY <2>2, <2>3, <2>4 DEF TypeInv, Assigned, Placed, Working
  <2> QED  BY <2>5, <2>6 DEF TypeInv
<1>2. ASSUME NEW h \in Handlers, OwnPlan(h) PROVE TypeInv'
  <2>1. CASE Refuse(h)
    BY <2>1, RefuseType DEF Refuse, TypeInv, TypeOK
  <2>2. CASE ~Refuse(h)
    <3>1. /\ pc[h] = "own plan" /\ pc' = [pc EXCEPT ![h] = "select"]
          /\ owner' = [owner EXCEPT ![HomeDir(h)] = h]
          /\ UNCHANGED <<marked, call, done, active, stopped, worker>>
      BY <1>2, <2>2 DEF OwnPlan, Goto
    <3>2. owner' \in [Dirs -> Handlers \union {None}]
      BY <3>1 DEF TypeInv, TypeOK
    <3> QED  BY <3>1, <3>2
                DEF TypeInv, TypeOK, Assigned, Places, Placed, Working
  <2> QED  BY <2>1, <2>2
<1>3. ASSUME NEW h \in Handlers, Select(h) PROVE TypeInv'
  <2>1. CASE Refuse(h)
    BY <2>1, RefuseType DEF Refuse, TypeInv, TypeOK
  <2>2. CASE ~Refuse(h)
    <3> DEFINE phase == done[Key(h)] + 1
    <3>1. /\ call[h] \in Invocations /\ Key(h) \in Keys /\ phase \in Nat
          /\ Phases(h) \in Seq(Paths)
      <4>1. pc[h] = "select"  BY <1>3 DEF Select
      <4>2. call[h] \in Invocations /\ Key(h) \in Keys  BY <4>1, Located
      <4>3. done[Key(h)] \in Nat  BY <4>2 DEF TypeInv, TypeOK
      <4>4. call[h].plan \in Plans /\ call[h].home \in Paths
        BY <4>2 DEF Invocations
      <4>5. Phases(h) \in Seq(Paths)
        BY <4>4 DEF Phases, OwnershipAssumption
      <4> QED  BY <4>2, <4>3, <4>5
    <3>2. phase \in 1 .. Len(Phases(h))
      <4>1. done[Key(h)] < Len(Phases(h))
        BY <1>3, <2>2 DEF Select, Selectable
      <4>2. done[Key(h)] \in Nat /\ Len(Phases(h)) \in Nat
        BY <3>1 DEF TypeInv, TypeOK
      <4> QED  BY <4>1, <4>2
    <3>3. Phases(h)[phase] \in Paths  BY <3>1, <3>2
    <3>4. /\ call' = [call EXCEPT ![h].phase = phase,
                                  ![h].target = Phases(h)[phase]]
          /\ pc' = [pc EXCEPT ![h] = "own execution"]
          /\ UNCHANGED <<marked, owner, done, active, stopped, worker>>
      BY <1>3, <2>2 DEF Select, Goto
    <3> HIDE DEF phase
    <3>5. call'[h] \in Invocations /\ call'[h].target \in Paths
      BY <3>1, <3>3, <3>4 DEF TypeInv, TypeOK, Invocations
    <3> QED  BY <3>4, <3>5 DEF TypeInv, TypeOK, Assigned, Places, Placed,
                               Working
  <2> QED  BY <2>1, <2>2
<1>4. ASSUME NEW h \in Handlers, OwnExecution(h) PROVE TypeInv'
  <2>1. CASE Refuse(h)
    BY <2>1, RefuseType DEF Refuse, TypeInv, TypeOK
  <2>2. CASE ~Refuse(h)
    <3>1. /\ pc[h] = "own execution" /\ pc' = [pc EXCEPT ![h] = "prepare"]
          /\ owner' = [owner EXCEPT ![TargetDir(h)] = h]
          /\ UNCHANGED <<marked, call, done, active, stopped, worker>>
      BY <1>4, <2>2 DEF OwnExecution, Goto
    <3>2. owner' \in [Dirs -> Handlers \union {None}]
      BY <3>1 DEF TypeInv, TypeOK
    <3> QED  BY <3>1, <3>2
                DEF TypeInv, TypeOK, Assigned, Places, Placed, Working
  <2> QED  BY <2>1, <2>2
<1>5. ASSUME NEW h \in Handlers, Prepare(h) PROVE TypeInv'
  <2>1. CASE Refuse(h)
    BY <2>1, RefuseType DEF Refuse, TypeInv, TypeOK
  <2>2. CASE ~Refuse(h)
    <3>1. PICK a \in Attempts :
             /\ active' = [active EXCEPT ![Key(h)] = a]
             /\ call' = [call EXCEPT ![h].attempt = a, ![h].retry = FALSE]
             /\ worker' = [worker EXCEPT ![a] =
                             [live |-> FALSE, named |-> FALSE,
                              path |-> call[h].target]]
      BY <1>5, <2>2 DEF Prepare
    <3>2. /\ pc' = [pc EXCEPT ![h] = "launch"]
          /\ stopped' = stopped \ {Key(h)}
          /\ UNCHANGED <<marked, owner, done>>
      BY <1>5, <2>2 DEF Prepare, Goto
    <3>3. /\ pc[h] = "prepare" /\ call[h] \in Invocations /\ Key(h) \in Keys
          /\ call[h].target \in Paths
      BY <1>5, Located DEF Prepare, TypeInv, Assigned, Placed
    <3>4. /\ call'[h] \in Invocations /\ call'[h].target \in Paths
          /\ call'[h].attempt \in Attempts
      BY <3>1, <3>3 DEF TypeInv, TypeOK, Invocations
    <3>5. worker' \in [Attempts -> Workers]
      BY <3>1, <3>3 DEF TypeInv, TypeOK, Workers
    <3> QED  BY <3>1, <3>2, <3>3, <3>4, <3>5
                DEF TypeInv, TypeOK, Assigned, Places, Placed, Working
  <2> QED  BY <2>1, <2>2
<1>6. ASSUME NEW h \in Handlers, Launch(h) PROVE TypeInv'
  <2>1. CASE Stop(h)
    BY <1>6, <2>1, StopType DEF Launch
  <2>2. CASE ~Stop(h)
    <3>1. /\ pc[h] = "launch" /\ pc' = [pc EXCEPT ![h] = "identify"]
          /\ worker' = [worker EXCEPT ![call[h].attempt].live = TRUE]
          /\ UNCHANGED <<marked, owner, call, done, active, stopped>>
      BY <1>6, <2>2 DEF Launch, Goto
    <3>2. worker' \in [Attempts -> Workers]
      BY <3>1 DEF TypeInv, TypeOK, Workers
    <3> QED  BY <3>1, <3>2
                DEF TypeInv, TypeOK, Assigned, Places, Placed, Working
  <2> QED  BY <2>1, <2>2
<1>7. ASSUME NEW h \in Handlers, Identify(h) PROVE TypeInv'
  <2>1. PICK known \in BOOLEAN :
           worker' = [worker EXCEPT ![call[h].attempt].named = known]
    BY <1>7 DEF Identify
  <2>2. worker' \in [Attempts -> Workers]
    BY <2>1 DEF TypeInv, TypeOK, Workers
  <2> QED  BY <1>7, <2>2 DEF Identify, Goto, TypeInv, TypeOK, Assigned, Places,
                             Placed, Working
<1>8. ASSUME NEW h \in Handlers, Session(h) PROVE TypeInv'
  BY <1>8 DEF Session, Goto, TypeInv, TypeOK, Assigned, Places, Placed,
              Working, Workers
<1>9. ASSUME NEW h \in Handlers, Record(h) PROVE TypeInv'
  <2>1. CASE Stop(h)
    BY <1>9, <2>1, StopType DEF Record
  <2>2. CASE ~Stop(h)
    <3>1. pc[h] = "record" /\ Key(h) \in Keys
      BY <1>9, Located DEF Record
    <3>2. /\ active' \in [Keys -> Attempts \union {None}]
          /\ done' \in [Keys -> Nat]
          /\ UNCHANGED <<marked, stopped, worker>>
      <4>1. /\ active' = [active EXCEPT ![Key(h)] = None]
            /\ done' = [done EXCEPT ![Key(h)] = done[Key(h)] + 1]
            /\ UNCHANGED <<marked, stopped, worker>>
        BY <1>9, <2>2 DEF Record
      <4> QED  BY <3>1, <4>1 DEF TypeInv, TypeOK
    <3>3. CASE Leave(h)
      BY <3>2, <3>3, RefuseType DEF TypeInv, TypeOK
    <3>4. CASE Release(h) /\ Goto(h, "select") /\ UNCHANGED call
      BY <3>1, <3>2, <3>4 DEF Release, Goto, TypeInv, TypeOK, Assigned, Places,
                              Placed, Working
    <3> QED  BY <1>9, <2>2, <3>3, <3>4 DEF Record
  <2> QED  BY <2>1, <2>2
<1>10. ASSUME NEW h \in Handlers, Crash(h) PROVE TypeInv'
  BY <1>10, RefuseType DEF Crash, Refuse, TypeInv, TypeOK
<1>11. ASSUME NEW a \in Attempts, WorkerExits(a) PROVE TypeInv'
  BY <1>11 DEF WorkerExits, TypeInv, TypeOK, Assigned, Workers
<1>12. ASSUME NEW p \in Paths, Mark(p) PROVE TypeInv'
  BY <1>12 DEF Mark, TypeInv, TypeOK, Assigned
<1>13. CASE UNCHANGED vars
  BY <1>13 DEF vars, TypeInv, TypeOK, Assigned
<1> QED  BY <1>1, <1>2, <1>3, <1>4, <1>5, <1>6, <1>7, <1>8, <1>9, <1>10,
            <1>11, <1>12, <1>13 DEF Next, Step

LEMMA TypesHold == Spec => []TypeInv
  BY TypeInit, TypeStep, PTL DEF Spec

\* Every variable keeps its type, for every value of the constants.
THEOREM OwnershipTypeCorrect == Spec => []TypeOK
<1>1. TypeInv => TypeOK  BY DEF TypeInv
<1> QED  BY <1>1, TypesHold, PTL

-----------------------------------------------------------------------------
(* Locks *)

\* What an invocation refers to is settled by its local variables.
LEMMA SamePlace ==
  ASSUME NEW h \in Handlers, call'[h] = call[h]
  PROVE  HomeDir(h)' = HomeDir(h) /\ TargetDir(h)' = TargetDir(h)
         /\ Key(h)' = Key(h)
  BY DEF HomeDir, TargetDir, Key

\* A step of h that gives up what h has locked leaves the others' locks.
LEMMA LeaveLocks ==
  ASSUME OwnershipAssumption, TypeInv, LocksInv, NEW h \in Handlers, Leave(h)
  PROVE  LocksInv'
<1>1. SUFFICES ASSUME NEW g \in Handlers, pc'[g] # "idle"
      PROVE  /\ OwnsPlan(g)' => owner'[HomeDir(g)'] = g
             /\ OwnsTarget(g)' => owner'[TargetDir(g)'] = g
  BY DEF LocksInv, OwnsPlan, OwnsTarget
<1>2. g # h /\ pc'[g] = pc[g] /\ call'[g] = call[g]
  BY <1>1 DEF Leave, Goto, TypeInv, TypeOK
<1>3. \A d \in Dirs : owner[d] = g => owner'[d] = g
  BY <1>2 DEF Leave
<1>4. HomeDir(g)' = HomeDir(g) /\ TargetDir(g)' = TargetDir(g)
  BY <1>2, SamePlace
<1>5. HomeDir(g) \in Dirs /\ (OwnsTarget(g) => TargetDir(g) \in Dirs)
  BY <1>1, <1>2, Located DEF OwnsTarget, Placed
<1> QED  BY <1>2, <1>3, <1>4, <1>5 DEF LocksInv, OwnsPlan, OwnsTarget

\* A step that keeps all locks, and where each invocation is unless it is h,
\* which uses nothing new.
LEMMA KeepLocks ==
  ASSUME LocksInv, NEW h \in Handlers, owner' = owner,
         \A g \in Handlers : g # h => pc'[g] = pc[g] /\ call'[g] = call[g],
         OwnsPlan(h)' => OwnsPlan(h) /\ HomeDir(h)' = HomeDir(h),
         OwnsTarget(h)' => OwnsTarget(h) /\ TargetDir(h)' = TargetDir(h)
  PROVE  LocksInv'
<1>1. SUFFICES ASSUME NEW g \in Handlers
      PROVE  /\ OwnsPlan(g)' => owner'[HomeDir(g)'] = g
             /\ OwnsTarget(g)' => owner'[TargetDir(g)'] = g
  BY DEF LocksInv
<1>2. CASE g = h
  BY <1>2 DEF LocksInv
<1>3. CASE g # h
  <2>1. HomeDir(g)' = HomeDir(g) /\ TargetDir(g)' = TargetDir(g)
    BY <1>3, SamePlace
  <2> QED  BY <1>3, <2>1 DEF LocksInv, OwnsPlan, OwnsTarget
<1> QED  BY <1>2, <1>3

LEMMA LocksInit == Init => LocksInv
  BY DEF Init, LocksInv, OwnsPlan, OwnsTarget

\* A directory that h takes was free, or its own already.
LEMMA TakeLocks ==
  ASSUME OwnershipAssumption, TypeInv, LocksInv, NEW h \in Handlers,
         NEW d \in Dirs, owner[d] \in {None, h},
         owner' = [owner EXCEPT ![d] = h], call' = call,
         \A g \in Handlers : g # h => pc'[g] = pc[g],
         pc[h] # "idle",
         OwnsPlan(h)' => OwnsPlan(h) \/ HomeDir(h) = d,
         OwnsTarget(h)' => OwnsTarget(h) \/ TargetDir(h) = d
  PROVE  LocksInv'
<1>1. SUFFICES ASSUME NEW g \in Handlers
      PROVE  /\ OwnsPlan(g)' => owner'[HomeDir(g)'] = g
             /\ OwnsTarget(g)' => owner'[TargetDir(g)'] = g
  BY DEF LocksInv
<1>2. HomeDir(g)' = HomeDir(g) /\ TargetDir(g)' = TargetDir(g)
  BY SamePlace
<1>3. owner \in [Dirs -> Handlers \union {None}] /\ None \notin Handlers
  BY DEF TypeInv, TypeOK, OwnershipAssumption
<1>4. /\ OwnsPlan(g) => HomeDir(g) \in Dirs
      /\ OwnsTarget(g) => TargetDir(g) \in Dirs
  BY Located DEF OwnsPlan, OwnsTarget, Placed
<1>5. \A e \in Dirs : owner[e] = g => owner'[e] = g
  BY <1>3
<1>6. CASE g = h
  BY <1>2, <1>3, <1>4, <1>5, <1>6 DEF LocksInv
<1>7. CASE g # h
  <2>1. (OwnsPlan(g)' <=> OwnsPlan(g)) /\ (OwnsTarget(g)' <=> OwnsTarget(g))
    BY <1>7 DEF OwnsPlan, OwnsTarget
  <2> QED  BY <1>2, <1>4, <1>5, <2>1 DEF LocksInv
<1> QED  BY <1>6, <1>7

\* Going on to the next phase gives up the execution workspace alone.
LEMMA ReleaseLocks ==
  ASSUME OwnershipAssumption, TypeInv, LocksInv, NEW h \in Handlers,
         pc[h] = "record", Release(h), Goto(h, "select"), call' = call
  PROVE  LocksInv'
<1>1. SUFFICES ASSUME NEW g \in Handlers
      PROVE  /\ OwnsPlan(g)' => owner'[HomeDir(g)'] = g
             /\ OwnsTarget(g)' => owner'[TargetDir(g)'] = g
  BY DEF LocksInv
<1>2. HomeDir(g)' = HomeDir(g) /\ TargetDir(g)' = TargetDir(g)
  BY SamePlace
<1>3. /\ owner[HomeDir(h)] = h /\ owner[TargetDir(h)] = h
      /\ HomeDir(h) \in Dirs /\ TargetDir(h) \in Dirs
  BY Located DEF LocksInv, OwnsPlan, OwnsTarget, Placed
<1>4. /\ OwnsPlan(g) => HomeDir(g) \in Dirs
      /\ OwnsTarget(g) => TargetDir(g) \in Dirs
  BY Located DEF OwnsPlan, OwnsTarget, Placed
<1>5. \A d \in Dirs : owner'[d] = owner[d]
                       \/ (d = TargetDir(h) /\ d # HomeDir(h))
  BY <1>3 DEF Release, TypeInv, TypeOK
<1>6. pc' = [pc EXCEPT ![h] = "select"]  BY DEF Goto
<1>7. CASE g = h
  BY <1>2, <1>3, <1>5, <1>6, <1>7 DEF OwnsTarget, TypeInv, TypeOK
<1>8. CASE g # h
  <2>1. (OwnsPlan(g)' <=> OwnsPlan(g)) /\ (OwnsTarget(g)' <=> OwnsTarget(g))
    BY <1>6, <1>8 DEF OwnsPlan, OwnsTarget, TypeInv, TypeOK
  <2> QED  BY <1>2, <1>3, <1>4, <1>5, <1>8, <2>1 DEF LocksInv
<1> QED  BY <1>7, <1>8

\* What the steps of h that neither take nor give up a lock have in common.
LEMMA QuietLocks ==
  ASSUME TypeInv, LocksInv, NEW h \in Handlers, NEW place, Goto(h, place),
         owner' = owner, call' = call, OwnsTarget(h)
  PROVE  LocksInv'
<1>1. HomeDir(h)' = HomeDir(h) /\ TargetDir(h)' = TargetDir(h)
  BY SamePlace
<1>2. \A g \in Handlers : g # h => pc'[g] = pc[g] /\ call'[g] = call[g]
  BY DEF Goto, TypeInv, TypeOK
<1>3. OwnsPlan(h)' => OwnsPlan(h)
  BY DEF Goto, TypeInv, TypeOK, OwnsPlan, OwnsTarget
<1>4. OwnsTarget(h)' => OwnsTarget(h)
  BY DEF Goto, TypeInv, TypeOK, OwnsTarget
<1> QED  BY <1>1, <1>2, <1>3, <1>4, KeepLocks

LEMMA LocksStep == TypeInv /\ LocksInv /\ [Next]_vars => LocksInv'
<1> SUFFICES ASSUME TypeInv, LocksInv, [Next]_vars PROVE LocksInv'  OBVIOUS
<1> USE OwnershipAssumption
<1>1. ASSUME NEW h \in Handlers, Call(h) PROVE LocksInv'
  <2>1. \A g \in Handlers : g # h => pc'[g] = pc[g] /\ call'[g] = call[g]
    BY <1>1 DEF Call, Goto, TypeInv, TypeOK
  <2>2. ~OwnsPlan(h)' /\ ~OwnsTarget(h)' /\ owner' = owner
    BY <1>1 DEF Call, Goto, TypeInv, TypeOK, OwnsPlan, OwnsTarget
  <2> QED  BY <2>1, <2>2, KeepLocks
<1>2. ASSUME NEW h \in Handlers, OwnPlan(h) PROVE LocksInv'
  <2>1. CASE Refuse(h)
    BY <2>1, LeaveLocks DEF Refuse
  <2>2. CASE ~Refuse(h)
    <3>1. /\ pc[h] = "own plan" /\ pc' = [pc EXCEPT ![h] = "select"]
          /\ owner[HomeDir(h)] = None /\ call' = call
          /\ owner' = [owner EXCEPT ![HomeDir(h)] = h]
      BY <1>2, <2>2 DEF OwnPlan, Goto
    <3>2. HomeDir(h) \in Dirs  BY <3>1, Located
    <3>3. ~OwnsTarget(h)'
      BY <3>1 DEF OwnsTarget, TypeInv, TypeOK
    <3>4. \A g \in Handlers : g # h => pc'[g] = pc[g]
      BY <3>1 DEF TypeInv, TypeOK
    <3> QED  BY <3>1, <3>2, <3>3, <3>4, TakeLocks
  <2> QED  BY <2>1, <2>2
<1>3. ASSUME NEW h \in Handlers, Select(h) PROVE LocksInv'
  <2>1. CASE Refuse(h)
    BY <2>1, LeaveLocks DEF Refuse
  <2>2. CASE ~Refuse(h)
    <3>1. /\ pc[h] = "select" /\ pc' = [pc EXCEPT ![h] = "own execution"]
          /\ owner' = owner
          /\ \E phase, target :
                call' = [call EXCEPT ![h].phase = phase, ![h].target = target]
      BY <1>3, <2>2 DEF Select, Goto
    <3>2. \A g \in Handlers : g # h => pc'[g] = pc[g] /\ call'[g] = call[g]
      BY <3>1 DEF TypeInv, TypeOK
    <3>3. call'[h].home = call[h].home
      <4>1. PICK phase, target :
               call' = [call EXCEPT ![h].phase = phase, ![h].target = target]
        BY <3>1
      <4>2. call[h] \in Invocations  BY <3>1, Located
      <4>3. call'[h] = [call[h] EXCEPT !.phase = phase, !.target = target]
        BY <4>1 DEF TypeInv, TypeOK
      <4> QED  BY <4>2, <4>3 DEF Invocations
    <3>4. HomeDir(h)' = HomeDir(h)  BY <3>3 DEF HomeDir
    <3>5. OwnsPlan(h) /\ ~OwnsTarget(h)'
      BY <3>1 DEF OwnsPlan, OwnsTarget, TypeInv, TypeOK
    <3> QED  BY <3>1, <3>2, <3>4, <3>5, KeepLocks
  <2> QED  BY <2>1, <2>2
<1>4. ASSUME NEW h \in Handlers, OwnExecution(h) PROVE LocksInv'
  <2>1. CASE Refuse(h)
    BY <2>1, LeaveLocks DEF Refuse
  <2>2. CASE ~Refuse(h)
    <3>1. /\ pc[h] = "own execution" /\ pc' = [pc EXCEPT ![h] = "prepare"]
          /\ TargetDir(h) = HomeDir(h) \/ owner[TargetDir(h)] = None
          /\ owner' = [owner EXCEPT ![TargetDir(h)] = h] /\ call' = call
      BY <1>4, <2>2 DEF OwnExecution, Goto
    <3>2. TargetDir(h) \in Dirs  BY <3>1, Located DEF Placed
    <3>3. OwnsPlan(h) /\ owner[TargetDir(h)] \in {None, h}
      BY <3>1 DEF OwnsPlan, LocksInv
    <3>4. \A g \in Handlers : g # h => pc'[g] = pc[g]
      BY <3>1 DEF TypeInv, TypeOK
    <3> QED  BY <3>1, <3>2, <3>3, <3>4, TakeLocks
  <2> QED  BY <2>1, <2>2
<1>5. ASSUME NEW h \in Handlers, Prepare(h) PROVE LocksInv'
  <2>1. CASE Refuse(h)
    BY <2>1, LeaveLocks DEF Refuse
  <2>2. CASE ~Refuse(h)
    <3>1. /\ pc[h] = "prepare" /\ pc' = [pc EXCEPT ![h] = "launch"]
          /\ owner' = owner
          /\ \E a : call' = [call EXCEPT ![h].attempt = a, ![h].retry = FALSE]
      BY <1>5, <2>2 DEF Prepare, Goto
    <3>2. \A g \in Handlers : g # h => pc'[g] = pc[g] /\ call'[g] = call[g]
      BY <3>1 DEF TypeInv, TypeOK
    <3>3. call'[h].home = call[h].home /\ call'[h].target = call[h].target
      <4>1. PICK a : call' = [call EXCEPT ![h].attempt = a, ![h].retry = FALSE]
        BY <3>1
      <4>2. call[h] \in Invocations  BY <3>1, Located
      <4>3. call'[h] = [call[h] EXCEPT !.attempt = a, !.retry = FALSE]
        BY <4>1 DEF TypeInv, TypeOK
      <4> QED  BY <4>2, <4>3 DEF Invocations
    <3>4. HomeDir(h)' = HomeDir(h) /\ TargetDir(h)' = TargetDir(h)
      BY <3>3 DEF HomeDir, TargetDir
    <3>5. OwnsPlan(h) /\ OwnsTarget(h)
      BY <3>1 DEF OwnsPlan, OwnsTarget
    <3> QED  BY <3>1, <3>2, <3>4, <3>5, KeepLocks
  <2> QED  BY <2>1, <2>2
<1>6. ASSUME NEW h \in Handlers, Stop(h) PROVE LocksInv'
  BY <1>6, LeaveLocks DEF Stop, Refuse
<1>7. ASSUME NEW h \in Handlers, Launch(h) PROVE LocksInv'
  BY <1>6, <1>7, QuietLocks DEF Launch, OwnsTarget
<1>8. ASSUME NEW h \in Handlers, Identify(h) \/ Session(h) PROVE LocksInv'
  BY <1>8, QuietLocks DEF Identify, Session, OwnsTarget
<1>9. ASSUME NEW h \in Handlers, Record(h) PROVE LocksInv'
  BY <1>6, <1>9, LeaveLocks, ReleaseLocks DEF Record
<1>10. ASSUME NEW h \in Handlers, Crash(h) PROVE LocksInv'
  BY <1>10, LeaveLocks DEF Crash, Refuse
<1>11. CASE UNCHANGED <<owner, pc, call>>
  BY <1>11 DEF LocksInv, OwnsPlan, OwnsTarget, HomeDir, TargetDir
<1> QED  BY <1>1, <1>2, <1>3, <1>4, <1>5, <1>7, <1>8, <1>9, <1>10, <1>11
            DEF Next, Step, WorkerExits, Mark, vars

LEMMA LocksHold == Spec => [](TypeInv /\ LocksInv)
  BY TypesHold, LocksInit, LocksStep, PTL DEF Spec

\* No two invocations use a directory at once, in whatever roles, until the
\* result of the work done there is recorded.
THEOREM OwnershipExclusive == Spec => []HandlersExclude
<1>1. LocksInv => HandlersExclude
  BY DEF LocksInv, HandlersExclude, Uses
<1> QED  BY <1>1, LocksHold, PTL

-----------------------------------------------------------------------------
(* Attempts *)

LEMMA AttemptsInit == Init => AttemptsInv
  BY OwnershipAssumption DEF Init, AttemptsInv, Working, Unlaunched

\* Two invocations that own their plan workspaces have different keys.
LEMMA KeysDiffer ==
  ASSUME LocksInv, NEW g \in Handlers, NEW h \in Handlers, g # h,
         OwnsPlan(g), OwnsPlan(h)
  PROVE  Key(g) # Key(h)
  BY DEF LocksInv, Key

\* The attempts under way are different attempts.
LEMMA AttemptsDiffer ==
  ASSUME OwnershipAssumption, TypeInv, LocksInv, AttemptsInv,
         NEW g \in Handlers, NEW h \in Handlers, g # h,
         pc[g] \in Working, pc[h] \in Working
  PROVE  call[g].attempt # call[h].attempt
<1>1. Key(g) # Key(h)
  BY KeysDiffer DEF Working, OwnsPlan
<1>2. /\ Key(g) \in Keys /\ Key(h) \in Keys
      /\ active[Key(g)] = call[g].attempt /\ active[Key(h)] = call[h].attempt
  BY Located DEF AttemptsInv, Working
<1>3. call[g].attempt # None
  BY DEF TypeInv, Assigned, OwnershipAssumption
<1> QED  BY <1>1, <1>2, <1>3 DEF AttemptsInv

\* A step that leaves states and workers alone, and puts no invocation but h
\* in another place; h stays without an attempt or gives its own up.
LEMMA AttemptsKept ==
  ASSUME AttemptsInv, NEW h \in Handlers, active' = active, worker' = worker,
         \A g \in Handlers : g # h => pc'[g] = pc[g] /\ call'[g] = call[g],
         pc'[h] \notin Working
  PROVE  AttemptsInv'
<1>1. ASSUME NEW g \in Handlers
      PROVE  /\ pc'[g] \in Working => active[Key(g)'] = call'[g].attempt
             /\ pc'[g] \in {"launch", "record"}
                  => ~worker[call'[g].attempt].live
  <2>1. CASE g = h  BY <2>1 DEF Working
  <2>2. CASE g # h
    <3>1. Key(g)' = Key(g)  BY <2>2, SamePlace
    <3> QED  BY <2>2, <3>1 DEF AttemptsInv
  <2> QED  BY <2>1, <2>2
<1> QED  BY <1>1 DEF AttemptsInv

\* The attempt of h is given up: no worker of it is left.
LEMMA AttemptEnds ==
  ASSUME OwnershipAssumption, TypeInv, LocksInv, AttemptsInv,
         NEW h \in Handlers, pc[h] \in {"launch", "record"},
         active' = [active EXCEPT ![Key(h)] = None], worker' = worker,
         \A g \in Handlers : g # h => pc'[g] = pc[g] /\ call'[g] = call[g],
         pc'[h] \notin Working
  PROVE  AttemptsInv'
<1>1. Key(h) \in Keys /\ pc[h] \in Working /\ OwnsPlan(h)
  BY Located DEF Working, OwnsPlan
<1>2. \A k \in Keys : active'[k] = IF k = Key(h) THEN None ELSE active[k]
  BY <1>1 DEF TypeInv, TypeOK
<1>3. ASSUME NEW g \in Handlers
      PROVE  /\ pc'[g] \in Working => active'[Key(g)'] = call'[g].attempt
             /\ pc'[g] \in {"launch", "record"}
                  => ~worker'[call'[g].attempt].live
  <2>1. CASE g = h  BY <2>1 DEF Working
  <2>2. CASE g # h /\ pc'[g] \in Working
    <3>1. /\ Key(g)' = Key(g) /\ pc[g] \in Working /\ OwnsPlan(g)
          /\ call'[g] = call[g] /\ pc'[g] = pc[g]
      BY <2>2, SamePlace DEF Working, OwnsPlan
    <3>2. Key(g) # Key(h)  BY <1>1, <2>2, <3>1, KeysDiffer
    <3>3. Key(g) \in Keys  BY <3>1, Located DEF Working
    <3> QED  BY <1>2, <3>1, <3>2, <3>3 DEF AttemptsInv
  <2> QED  BY <2>1, <2>2 DEF Working
<1>4. \A k, l \in Keys : active'[k] = active'[l] /\ active'[k] # None => k = l
  BY <1>2 DEF AttemptsInv
<1>5. ASSUME NEW a \in Attempts, worker'[a].live, worker'[a].named
      PROVE  \E k \in Keys : active'[k] = a
  <2>1. PICK k \in Keys : active[k] = a
    BY <1>5 DEF AttemptsInv
  <2>2. active[Key(h)] = call[h].attempt /\ ~worker[call[h].attempt].live
    BY <1>1 DEF AttemptsInv
  <2>3. k # Key(h)  BY <1>5, <2>1, <2>2
  <2> QED  BY <1>2, <2>1, <2>3
<1> QED  BY <1>3, <1>4, <1>5 DEF AttemptsInv

\* A step of h, with its attempt under way before and after, that changes at
\* most the worker of that attempt.
LEMMA AttemptGoesOn ==
  ASSUME OwnershipAssumption, TypeInv, LocksInv, AttemptsInv,
         NEW h \in Handlers, NEW place \in Working, NEW w,
         pc[h] \in Working, pc' = [pc EXCEPT ![h] = place],
         call' = call, active' = active,
         worker' = [worker EXCEPT ![call[h].attempt] = w],
         place \in {"launch", "record"} => ~w.live
  PROVE  AttemptsInv'
<1>1. /\ call[h].attempt \in Attempts /\ Key(h) \in Keys
      /\ active[Key(h)] = call[h].attempt
  BY Located DEF TypeInv, Assigned, AttemptsInv, Working
<1>2. \A a \in Attempts :
         worker'[a] = IF a = call[h].attempt THEN w ELSE worker[a]
  BY DEF TypeInv, TypeOK
<1>3. ASSUME NEW g \in Handlers, pc'[g] \in Working
      PROVE  /\ active'[Key(g)'] = call'[g].attempt
             /\ pc'[g] \in {"launch", "record"}
                  => ~worker'[call'[g].attempt].live
  <2>1. Key(g)' = Key(g)  BY SamePlace
  <2>2. CASE g = h
    BY <1>1, <1>2, <2>1, <2>2 DEF TypeInv, TypeOK
  <2>3. CASE g # h
    <3>1. pc'[g] = pc[g]  BY <2>3 DEF TypeInv, TypeOK
    <3>2. call[g].attempt # call[h].attempt
      BY <1>3, <2>3, <3>1, AttemptsDiffer
    <3>3. call[g].attempt \in Attempts
      BY <1>3, <3>1 DEF TypeInv, Assigned
    <3> QED  BY <1>2, <1>3, <2>1, <3>1, <3>2, <3>3 DEF AttemptsInv
  <2> QED  BY <2>2, <2>3
<1>4. ASSUME NEW a \in Attempts, worker'[a].live, worker'[a].named
      PROVE  \E k \in Keys : active'[k] = a
  BY <1>1, <1>2, <1>4 DEF AttemptsInv
<1> QED  BY <1>3, <1>4 DEF AttemptsInv, Working

\* A fresh attempt takes the place of one that has no recorded worker.
LEMMA AttemptBegins ==
  ASSUME OwnershipAssumption, TypeInv, LocksInv, AttemptsInv,
         NEW h \in Handlers, Prepare(h), ~Refuse(h)
  PROVE  AttemptsInv'
<1>1. PICK a \in Attempts :
         /\ Fresh(a)
         /\ active' = [active EXCEPT ![Key(h)] = a]
         /\ call' = [call EXCEPT ![h].attempt = a, ![h].retry = FALSE]
         /\ worker' = [worker EXCEPT ![a] =
                         [live |-> FALSE, named |-> FALSE,
                          path |-> call[h].target]]
  BY DEF Prepare
<1>2. /\ pc[h] = "prepare" /\ ~Survivor(h)
      /\ pc' = [pc EXCEPT ![h] = "launch"]
  BY DEF Prepare, Goto
<1>3. call[h] \in Invocations /\ Key(h) \in Keys /\ OwnsPlan(h)
  BY <1>2, Located DEF OwnsPlan
<1>4. call'[h] = [call[h] EXCEPT !.attempt = a, !.retry = FALSE]
  BY <1>1 DEF TypeInv, TypeOK
<1>5. /\ call'[h].attempt = a /\ call'[h].home = call[h].home
      /\ call'[h].plan = call[h].plan
  BY <1>3, <1>4 DEF Invocations
<1>6. Key(h)' = Key(h)  BY <1>5 DEF Key, HomeDir
<1>7. /\ \A k \in Keys : active'[k] = IF k = Key(h) THEN a ELSE active[k]
      /\ \A b \in Attempts : b # a => worker'[b] = worker[b]
      /\ worker'[a].live = FALSE /\ worker'[a].named = FALSE
  BY <1>1 DEF TypeInv, TypeOK
<1>8. /\ \A k \in Keys : active[k] # a
      /\ \A g \in Handlers : pc[g] # "idle" => call[g].attempt # a
  BY <1>1 DEF Fresh
<1>9. ASSUME NEW g \in Handlers, pc'[g] \in Working
      PROVE  /\ active'[Key(g)'] = call'[g].attempt
             /\ pc'[g] \in {"launch", "record"}
                  => ~worker'[call'[g].attempt].live
  <2>1. CASE g = h  BY <1>3, <1>5, <1>6, <1>7, <2>1
  <2>2. CASE g # h
    <3>1. pc'[g] = pc[g] /\ call'[g] = call[g]
      BY <1>1, <1>2, <2>2 DEF TypeInv, TypeOK
    <3>2. Key(g)' = Key(g)  BY <3>1, SamePlace
    <3>3. OwnsPlan(g) /\ Key(g) \in Keys
      BY <1>9, <3>1, Located DEF OwnsPlan, Working
    <3>4. Key(g) # Key(h)  BY <1>3, <2>2, <3>3, KeysDiffer
    <3>5. call[g].attempt \in Attempts /\ call[g].attempt # a
      BY <1>8, <1>9, <3>1 DEF TypeInv, Assigned, Working
    <3> QED  BY <1>7, <1>9, <3>1, <3>2, <3>3, <3>4, <3>5 DEF AttemptsInv
  <2> QED  BY <2>1, <2>2
<1>10. \A k, l \in Keys : active'[k] = active'[l] /\ active'[k] # None => k = l
  BY <1>7, <1>8 DEF AttemptsInv
<1>11. ASSUME NEW b \in Attempts, worker'[b].live, worker'[b].named
       PROVE  \E k \in Keys : active'[k] = b
  <2>1. b # a  BY <1>7, <1>11
  <2>2. worker[b].live /\ worker[b].named  BY <1>7, <1>11, <2>1
  <2>3. PICK k \in Keys : active[k] = b  BY <2>2 DEF AttemptsInv
  <2>4. b # None  BY DEF OwnershipAssumption
  <2>5. k # Key(h)
    BY <1>2, <2>2, <2>3, <2>4 DEF Survivor, Unresolved
  <2> QED  BY <1>7, <2>3, <2>5
<1> QED  BY <1>9, <1>10, <1>11 DEF AttemptsInv, Working

LEMMA AttemptsStep ==
  TypeInv /\ LocksInv /\ AttemptsInv /\ [Next]_vars => AttemptsInv'
<1> SUFFICES ASSUME TypeInv, LocksInv, AttemptsInv, [Next]_vars
             PROVE  AttemptsInv'
  OBVIOUS
<1> USE OwnershipAssumption
<1>1. ASSUME NEW h \in Handlers, Leave(h), active' = active, worker' = worker
      PROVE  AttemptsInv'
  <2>1. pc'[h] \notin Working
    BY <1>1 DEF Leave, Goto, TypeInv, TypeOK, Working
  <2>2. \A g \in Handlers : g # h => pc'[g] = pc[g] /\ call'[g] = call[g]
    BY <1>1 DEF Leave, Goto, TypeInv, TypeOK
  <2> QED  BY <1>1, <2>1, <2>2, AttemptsKept
<1>2. ASSUME NEW h \in Handlers, Refuse(h) PROVE AttemptsInv'
  BY <1>1, <1>2 DEF Refuse
<1>3. ASSUME NEW h \in Handlers, pc[h] \in {"launch", "record"}, Leave(h),
             active' = [active EXCEPT ![Key(h)] = None], worker' = worker
      PROVE  AttemptsInv'
  <2>1. pc'[h] \notin Working
    BY <1>3 DEF Leave, Goto, TypeInv, TypeOK, Working
  <2>2. \A g \in Handlers : g # h => pc'[g] = pc[g] /\ call'[g] = call[g]
    BY <1>3 DEF Leave, Goto, TypeInv, TypeOK
  <2> QED  BY <1>3, <2>1, <2>2, AttemptEnds
<1>4. ASSUME NEW h \in Handlers, pc[h] \in {"launch", "record"}, Stop(h)
      PROVE  AttemptsInv'
  BY <1>2, <1>3, <1>4 DEF Stop
<1>5. ASSUME NEW h \in Handlers, Call(h) \/ OwnPlan(h) \/ Select(h)
                                 \/ OwnExecution(h)
      PROVE  AttemptsInv'
  <2>1. CASE Refuse(h)  BY <1>2, <2>1
  <2>2. CASE ~Refuse(h)
    <3>1. /\ pc'[h] \notin Working
          /\ active' = active /\ worker' = worker
          /\ \A g \in Handlers : g # h => pc'[g] = pc[g] /\ call'[g] = call[g]
      <4>1. CASE Call(h)
        BY <4>1 DEF Call, Goto, TypeInv, TypeOK, Working
      <4>2. CASE OwnPlan(h)
        BY <2>2, <4>2 DEF OwnPlan, Goto, TypeInv, TypeOK, Working
      <4>3. CASE Select(h)
        BY <2>2, <4>3 DEF Select, Goto, TypeInv, TypeOK, Working
      <4>4. CASE OwnExecution(h)
        BY <2>2, <4>4 DEF OwnExecution, Goto, TypeInv, TypeOK, Working
      <4> QED  BY <1>5, <4>1, <4>2, <4>3, <4>4
    <3> QED  BY <3>1, AttemptsKept
  <2> QED  BY <2>1, <2>2
<1>6. ASSUME NEW h \in Handlers, Prepare(h) PROVE AttemptsInv'
  BY <1>2, <1>6, AttemptBegins
<1>7. ASSUME NEW h \in Handlers, Launch(h) PROVE AttemptsInv'
  <2>1. pc[h] = "launch"  BY <1>7 DEF Launch
  <2>2. CASE Stop(h)  BY <1>4, <2>1, <2>2
  <2>3. CASE ~Stop(h)
    <3> DEFINE w == [worker[call[h].attempt] EXCEPT !.live = TRUE]
    <3>1. /\ pc' = [pc EXCEPT ![h] = "identify"]
          /\ worker' = [worker EXCEPT ![call[h].attempt] = w]
          /\ call' = call /\ active' = active
      BY <1>7, <2>3 DEF Launch, Goto
    <3> HIDE DEF w
    <3>2. pc[h] \in Working /\ "identify" \in Working
      BY <2>1 DEF Working
    <3> QED  BY <2>1, <3>1, <3>2, AttemptGoesOn
  <2> QED  BY <2>2, <2>3
<1>8. ASSUME NEW h \in Handlers, Identify(h) PROVE AttemptsInv'
  <2>1. PICK known \in BOOLEAN :
           worker' = [worker EXCEPT ![call[h].attempt].named = known]
    BY <1>8 DEF Identify
  <2> DEFINE w == [worker[call[h].attempt] EXCEPT !.named = known]
  <2>2. /\ pc[h] = "identify" /\ pc' = [pc EXCEPT ![h] = "session"]
        /\ worker' = [worker EXCEPT ![call[h].attempt] = w]
        /\ call' = call /\ active' = active
    BY <1>8, <2>1 DEF Identify, Goto
  <2> HIDE DEF w
  <2>3. pc[h] \in Working /\ "session" \in Working
    BY <2>2 DEF Working
  <2> QED  BY <2>2, <2>3, AttemptGoesOn
<1>9. ASSUME NEW h \in Handlers, Session(h) PROVE AttemptsInv'
  <2> DEFINE w == [worker[call[h].attempt] EXCEPT !.live = FALSE]
  <2>1. /\ pc[h] = "session" /\ pc' = [pc EXCEPT ![h] = "record"]
        /\ worker' = [worker EXCEPT ![call[h].attempt] = w]
        /\ call' = call /\ active' = active
    BY <1>9 DEF Session, Goto
  <2>2. ~w.live
    BY <2>1 DEF TypeInv, TypeOK, Assigned, Working, Workers
  <2> HIDE DEF w
  <2>3. pc[h] \in Working /\ "record" \in Working
    BY <2>1 DEF Working
  <2> QED  BY <2>1, <2>2, <2>3, AttemptGoesOn
<1>10. ASSUME NEW h \in Handlers, Record(h) PROVE AttemptsInv'
  <2>1. pc[h] = "record"  BY <1>10 DEF Record
  <2>2. CASE Stop(h)  BY <1>4, <2>1, <2>2
  <2>3. CASE ~Stop(h)
    <3>1. active' = [active EXCEPT ![Key(h)] = None] /\ worker' = worker
      BY <1>10, <2>3 DEF Record
    <3>2. CASE Leave(h)  BY <1>3, <2>1, <3>1, <3>2
    <3>3. CASE Goto(h, "select") /\ call' = call
      <4>1. /\ pc'[h] \notin Working
            /\ \A g \in Handlers : g # h => pc'[g] = pc[g]
        BY <3>3 DEF Goto, TypeInv, TypeOK, Working
      <4> QED  BY <2>1, <3>1, <3>3, <4>1, AttemptEnds
    <3> QED  BY <1>10, <2>3, <3>2, <3>3 DEF Record
  <2> QED  BY <2>2, <2>3
<1>11. ASSUME NEW h \in Handlers, Crash(h) PROVE AttemptsInv'
  BY <1>2, <1>11 DEF Crash
<1>12. ASSUME NEW a \in Attempts, WorkerExits(a) PROVE AttemptsInv'
  <2>1. /\ pc' = pc /\ call' = call /\ active' = active
        /\ \A b \in Attempts : /\ worker'[b].live => worker[b].live
                               /\ worker'[b].named = worker[b].named
    BY <1>12 DEF WorkerExits, TypeInv, TypeOK, Workers
  <2>2. \A h \in Handlers : /\ Key(h)' = Key(h)
                            /\ pc[h] \in Working => call[h].attempt \in Attempts
    BY <2>1, SamePlace DEF TypeInv, Assigned
  <2> QED  BY <2>1, <2>2 DEF AttemptsInv, Working
<1>13. CASE UNCHANGED <<pc, call, active, worker>>
  BY <1>13 DEF AttemptsInv, Key, HomeDir
<1> QED  BY <1>5, <1>6, <1>7, <1>8, <1>9, <1>10, <1>11, <1>12, <1>13
            DEF Next, Step, Mark, vars

\* No retry and no ending of an invocation forgets a live worker whose
\* identity was recorded: it stays what some plan's state says is unresolved,
\* whichever handlers die.
THEOREM OwnershipAccounts == Spec => []WorkersAreAccountedFor
<1>1. AttemptsInv => WorkersAreAccountedFor
  BY DEF AttemptsInv, WorkersAreAccountedFor
<1> QED
  BY <1>1, LocksHold, AttemptsInit, AttemptsStep, PTL DEF Spec

-----------------------------------------------------------------------------
(* Refusals *)

LEMMA HeldInit == Init => HeldInv
  BY OwnershipAssumption DEF Init, HeldInv

\* A step of h takes a directory for h alone, which uses what it has.
LEMMA HeldBy ==
  ASSUME HeldInv, NEW h \in Handlers,
         \A g \in Handlers : g # h => pc'[g] = pc[g] /\ call'[g] = call[g],
         \A g \in Handlers, d \in Dirs :
            g # h /\ owner'[d] = g => owner[d] = g,
         \A d \in Dirs : owner'[d] = h => d \in Uses(h)'
  PROVE  HeldInv'
<1>1. ASSUME NEW g \in Handlers, NEW d \in Dirs, owner'[d] = g
      PROVE  d \in Uses(g)'
  <2>1. CASE g = h  BY <1>1, <2>1
  <2>2. CASE g # h
    <3>1. HomeDir(g)' = HomeDir(g) /\ TargetDir(g)' = TargetDir(g)
      BY <2>2, SamePlace
    <3>2. Uses(g)' = Uses(g)
      BY <2>2, <3>1 DEF Uses, OwnsPlan, OwnsTarget
    <3> QED  BY <1>1, <2>2, <3>2 DEF HeldInv
  <2> QED  BY <2>1, <2>2
<1> QED  BY <1>1 DEF HeldInv

LEMMA HeldLeave ==
  ASSUME OwnershipAssumption, TypeInv, HeldInv, NEW h \in Handlers, Leave(h)
  PROVE  HeldInv'
<1>1. \A g \in Handlers : g # h => pc'[g] = pc[g] /\ call'[g] = call[g]
  BY DEF Leave, Goto, TypeInv, TypeOK
<1>2. \A g \in Handlers, d \in Dirs : owner'[d] = g => g # h /\ owner[d] = g
  BY DEF Leave, OwnershipAssumption
<1> QED  BY <1>1, <1>2, HeldBy

\* A step of h that goes on with the locks it has, and in the same place.
LEMMA HeldQuiet ==
  ASSUME TypeInv, HeldInv, NEW h \in Handlers, owner' = owner,
         \A g \in Handlers : g # h => pc'[g] = pc[g] /\ call'[g] = call[g],
         OwnsPlan(h) => OwnsPlan(h)' /\ HomeDir(h)' = HomeDir(h),
         OwnsTarget(h) => OwnsTarget(h)' /\ TargetDir(h)' = TargetDir(h)
  PROVE  HeldInv'
<1>1. Uses(h) \subseteq Uses(h)'  BY DEF Uses
<1> QED  BY <1>1, HeldBy DEF HeldInv

LEMMA HeldStep == TypeInv /\ HeldInv /\ [Next]_vars => HeldInv'
<1> SUFFICES ASSUME TypeInv, HeldInv, [Next]_vars PROVE HeldInv'  OBVIOUS
<1> USE OwnershipAssumption
<1>1. ASSUME NEW h \in Handlers, Call(h) PROVE HeldInv'
  <2>1. \A g \in Handlers : g # h => pc'[g] = pc[g] /\ call'[g] = call[g]
    BY <1>1 DEF Call, Goto, TypeInv, TypeOK
  <2>2. ~OwnsPlan(h) /\ ~OwnsTarget(h) /\ owner' = owner
    BY <1>1 DEF Call, OwnsPlan, OwnsTarget
  <2> QED  BY <2>1, <2>2, HeldQuiet
<1>2. ASSUME NEW h \in Handlers, OwnPlan(h) PROVE HeldInv'
  <2>1. CASE Refuse(h)  BY <2>1, HeldLeave DEF Refuse
  <2>2. CASE ~Refuse(h)
    <3>1. /\ pc[h] = "own plan" /\ pc' = [pc EXCEPT ![h] = "select"]
          /\ call' = call
          /\ owner' = [owner EXCEPT ![HomeDir(h)] = h]
      BY <1>2, <2>2 DEF OwnPlan, Goto
    <3>2. \A g \in Handlers : g # h => pc'[g] = pc[g] /\ call'[g] = call[g]
      BY <3>1 DEF TypeInv, TypeOK
    <3>3. \A d \in Dirs :
             owner'[d] = IF d = HomeDir(h) THEN h ELSE owner[d]
      BY <3>1 DEF TypeInv, TypeOK
    <3>4. Uses(h) = {}  BY <3>1 DEF Uses, OwnsPlan, OwnsTarget
    <3>5. HomeDir(h)' = HomeDir(h)  BY <3>1, SamePlace
    <3>6. HomeDir(h) \in Uses(h)'
      BY <3>1, <3>5 DEF Uses, OwnsPlan, TypeInv, TypeOK
    <3> QED  BY <3>2, <3>3, <3>4, <3>6, HeldBy DEF HeldInv
  <2> QED  BY <2>1, <2>2
<1>3. ASSUME NEW h \in Handlers, Select(h) PROVE HeldInv'
  <2>1. CASE Refuse(h)  BY <2>1, HeldLeave DEF Refuse
  <2>2. CASE ~Refuse(h)
    <3>1. /\ pc[h] = "select" /\ pc' = [pc EXCEPT ![h] = "own execution"]
          /\ owner' = owner
          /\ \E phase, target :
                call' = [call EXCEPT ![h].phase = phase, ![h].target = target]
      BY <1>3, <2>2 DEF Select, Goto
    <3>2. \A g \in Handlers : g # h => pc'[g] = pc[g] /\ call'[g] = call[g]
      BY <3>1 DEF TypeInv, TypeOK
    <3>3. HomeDir(h)' = HomeDir(h)
      <4>1. PICK phase, target :
               call' = [call EXCEPT ![h].phase = phase, ![h].target = target]
        BY <3>1
      <4>2. call'[h] = [call[h] EXCEPT !.phase = phase, !.target = target]
        BY <4>1 DEF TypeInv, TypeOK
      <4> QED  BY <3>1, <4>2, Located DEF Invocations, HomeDir
    <3>4. ~OwnsTarget(h) /\ OwnsPlan(h)'
      BY <3>1 DEF OwnsPlan, OwnsTarget, TypeInv, TypeOK
    <3> QED  BY <3>1, <3>2, <3>3, <3>4, HeldQuiet
  <2> QED  BY <2>1, <2>2
<1>4. ASSUME NEW h \in Handlers, OwnExecution(h) PROVE HeldInv'
  <2>1. CASE Refuse(h)  BY <2>1, HeldLeave DEF Refuse
  <2>2. CASE ~Refuse(h)
    <3>1. /\ pc[h] = "own execution" /\ pc' = [pc EXCEPT ![h] = "prepare"]
          /\ call' = call
          /\ owner' = [owner EXCEPT ![TargetDir(h)] = h]
      BY <1>4, <2>2 DEF OwnExecution, Goto
    <3>2. \A g \in Handlers : g # h => pc'[g] = pc[g] /\ call'[g] = call[g]
      BY <3>1 DEF TypeInv, TypeOK
    <3>3. \A d \in Dirs :
             owner'[d] = IF d = TargetDir(h) THEN h ELSE owner[d]
      BY <3>1 DEF TypeInv, TypeOK
    <3>4. HomeDir(h)' = HomeDir(h) /\ TargetDir(h)' = TargetDir(h)
      BY <3>1, SamePlace
    <3>5. Uses(h) \subseteq Uses(h)' /\ TargetDir(h) \in Uses(h)'
      BY <3>1, <3>4 DEF Uses, OwnsPlan, OwnsTarget, TypeInv, TypeOK
    <3> QED  BY <3>2, <3>3, <3>5, HeldBy DEF HeldInv
  <2> QED  BY <2>1, <2>2
<1>5. ASSUME NEW h \in Handlers, Prepare(h) PROVE HeldInv'
  <2>1. CASE Refuse(h)  BY <2>1, HeldLeave DEF Refuse
  <2>2. CASE ~Refuse(h)
    <3>1. /\ pc[h] = "prepare" /\ pc' = [pc EXCEPT ![h] = "launch"]
          /\ owner' = owner
          /\ \E a : call' = [call EXCEPT ![h].attempt = a, ![h].retry = FALSE]
      BY <1>5, <2>2 DEF Prepare, Goto
    <3>2. \A g \in Handlers : g # h => pc'[g] = pc[g] /\ call'[g] = call[g]
      BY <3>1 DEF TypeInv, TypeOK
    <3>3. HomeDir(h)' = HomeDir(h) /\ TargetDir(h)' = TargetDir(h)
      <4>1. PICK a : call' = [call EXCEPT ![h].attempt = a, ![h].retry = FALSE]
        BY <3>1
      <4>2. call'[h] = [call[h] EXCEPT !.attempt = a, !.retry = FALSE]
        BY <4>1 DEF TypeInv, TypeOK
      <4> QED  BY <3>1, <4>2, Located DEF Invocations, HomeDir, TargetDir
    <3>4. OwnsPlan(h)' /\ OwnsTarget(h)'
      BY <3>1 DEF OwnsPlan, OwnsTarget, TypeInv, TypeOK
    <3> QED  BY <3>1, <3>2, <3>3, <3>4, HeldQuiet
  <2> QED  BY <2>1, <2>2
<1>6. ASSUME NEW h \in Handlers, Stop(h) PROVE HeldInv'
  BY <1>6, HeldLeave DEF Stop, Refuse
<1>7. ASSUME NEW h \in Handlers,
             NEW place \in {"identify", "session", "record"},
             Goto(h, place), owner' = owner, call' = call
      PROVE  HeldInv'
  <2>1. \A g \in Handlers : g # h => pc'[g] = pc[g] /\ call'[g] = call[g]
    BY <1>7 DEF Goto, TypeInv, TypeOK
  <2>2. HomeDir(h)' = HomeDir(h) /\ TargetDir(h)' = TargetDir(h)
    BY <1>7, SamePlace
  <2>3. OwnsPlan(h)' /\ OwnsTarget(h)'
    BY <1>7 DEF Goto, OwnsPlan, OwnsTarget, TypeInv, TypeOK
  <2> QED  BY <1>7, <2>1, <2>2, <2>3, HeldQuiet
<1>8. ASSUME NEW h \in Handlers, Launch(h) \/ Identify(h) \/ Session(h)
      PROVE  HeldInv'
  BY <1>6, <1>7, <1>8 DEF Launch, Identify, Session
<1>9. ASSUME NEW h \in Handlers, pc[h] = "record", Release(h),
             Goto(h, "select"), call' = call
      PROVE  HeldInv'
  <2>1. \A g \in Handlers : g # h => pc'[g] = pc[g] /\ call'[g] = call[g]
    BY <1>9 DEF Goto, TypeInv, TypeOK
  <2>2. HomeDir(h)' = HomeDir(h) /\ OwnsPlan(h)'
    BY <1>9, SamePlace DEF Goto, OwnsPlan, TypeInv, TypeOK
  <2>3. \A d \in Dirs : /\ owner'[d] \in {owner[d], None}
                        /\ d = TargetDir(h) /\ owner'[d] # None
                             => d = HomeDir(h)
    BY <1>9 DEF Release, TypeInv, TypeOK
  <2>4. \A g \in Handlers : g # None
    BY DEF OwnershipAssumption
  <2>5. \A d \in Dirs : owner'[d] = h => d = HomeDir(h)
    BY <2>3, <2>4 DEF HeldInv, Uses
  <2>6. \A d \in Dirs : owner'[d] = h => d \in Uses(h)'
    BY <2>2, <2>5 DEF Uses
  <2> QED  BY <2>1, <2>3, <2>4, <2>6, HeldBy
<1>10. ASSUME NEW h \in Handlers, Record(h) PROVE HeldInv'
  BY <1>6, <1>9, <1>10, HeldLeave DEF Record
<1>11. ASSUME NEW h \in Handlers, Crash(h) PROVE HeldInv'
  BY <1>11, HeldLeave DEF Crash, Refuse
<1>12. CASE UNCHANGED <<owner, pc, call>>
  BY <1>12 DEF HeldInv, Uses, OwnsPlan, OwnsTarget, HomeDir, TargetDir
<1> QED  BY <1>1, <1>2, <1>3, <1>4, <1>5, <1>8, <1>10, <1>11, <1>12
            DEF Next, Step, WorkerExits, Mark, vars

LEMMA HeldHolds == Spec => [](TypeInv /\ HeldInv)
  BY TypesHold, HeldInit, HeldStep, PTL DEF Spec

\* A directory an invocation is refused is in the hands of another: not even
\* a plan whose phase runs in the plan workspace, by another path, stands in
\* its own way.
THEOREM OwnershipRefusesForAnother == Spec => RefusedByAnother
<1>1. ASSUME TypeInv, HeldInv, NEW h \in Handlers,
             pc[h] \in {"own plan", "own execution"}, Step(h), pc'[h] = "idle"
      PROVE  \E g \in Handlers \ {h} :
                owner[IF pc[h] = "own plan" THEN HomeDir(h)
                      ELSE TargetDir(h)] = g
  <2> USE OwnershipAssumption
  <2>1. CASE pc[h] = "own plan"
    <3>1. HomeDir(h) \in Dirs  BY <1>1, <2>1, Located
    <3>3. Uses(h) = {}  BY <2>1 DEF Uses, OwnsPlan, OwnsTarget
    <3>4. owner[HomeDir(h)] \in Handlers \union {None}
      BY <1>1, <3>1 DEF TypeInv, TypeOK
    <3>5. owner[HomeDir(h)] # h  BY <1>1, <3>1, <3>3 DEF HeldInv
    <3>2. owner[HomeDir(h)] # None
      BY <1>1, <2>1 DEF Step, OwnPlan, Select, OwnExecution, Prepare, Launch,
                        Identify, Session, Record, Goto, TypeInv, TypeOK
    <3> QED  BY <2>1, <3>2, <3>4, <3>5
  <2>2. CASE pc[h] = "own execution"
    <3>1. TargetDir(h) \in Dirs  BY <1>1, <2>2, Located DEF Placed
    <3>3. Uses(h) = {HomeDir(h)}  BY <2>2 DEF Uses, OwnsPlan, OwnsTarget
    <3>4. owner[TargetDir(h)] \in Handlers \union {None}
      BY <1>1, <3>1 DEF TypeInv, TypeOK
    <3>2. TargetDir(h) # HomeDir(h) /\ owner[TargetDir(h)] # None
      BY <1>1, <2>2 DEF Step, OwnPlan, Select, OwnExecution, Prepare, Launch,
                        Identify, Session, Record, Goto, TypeInv, TypeOK
    <3>5. owner[TargetDir(h)] # h  BY <1>1, <3>1, <3>2, <3>3 DEF HeldInv
    <3> QED  BY <2>2, <3>2, <3>4, <3>5
  <2> QED  BY <1>1, <2>1, <2>2
<1>2. TypeInv /\ HeldInv /\ [Next]_vars =>
        [\A h \in Handlers :
            pc[h] \in {"own plan", "own execution"} /\ Step(h)
               /\ pc'[h] = "idle" =>
               \E g \in Handlers \ {h} :
                  owner[IF pc[h] = "own plan" THEN HomeDir(h)
                        ELSE TargetDir(h)] = g]_vars
  BY <1>1
<1> QED  BY <1>2, HeldHolds, PTL DEF Spec, RefusedByAnother

-----------------------------------------------------------------------------
(* Selections *)

LEMMA SelectedInit == Init => SelectedInv
  BY DEF Init, SelectedInv, Selecting

\* What a step of h, which owns its plan workspace, does to its state leaves
\* the selections of others valid.
LEMMA SelectedBy ==
  ASSUME OwnershipAssumption, TypeInv, LocksInv, SelectedInv,
         NEW h \in Handlers, OwnsPlan(h) \/ UNCHANGED <<done, active, stopped>>,
         \A g \in Handlers : g # h => pc'[g] = pc[g] /\ call'[g] = call[g],
         \A k \in Keys : k # Key(h) => /\ done'[k] = done[k]
                                       /\ active'[k] = active[k]
                                       /\ k \in stopped' => k \in stopped,
         pc'[h] \in Selecting =>
            /\ call'[h].phase = done'[Key(h)'] + 1
            /\ Unresolved(h)' \/ Key(h)' \in stopped' => call'[h].retry
  PROVE  SelectedInv'
<1>1. ASSUME NEW g \in Handlers, pc'[g] \in Selecting, g # h
      PROVE  /\ call'[g].phase = done'[Key(g)'] + 1
             /\ Unresolved(g)' \/ Key(g)' \in stopped' => call'[g].retry
  <2>1. /\ Key(g)' = Key(g) /\ pc[g] \in Selecting /\ OwnsPlan(g)
        /\ call'[g] = call[g]
    BY <1>1, SamePlace DEF Selecting, OwnsPlan
  <2>2. Key(g) \in Keys  BY <2>1, Located DEF OwnsPlan
  <2>3. \/ Key(g) # Key(h)
        \/ UNCHANGED <<done, active, stopped>>
    BY <1>1, <2>1, KeysDiffer
  <2>4. /\ done'[Key(g)] = done[Key(g)] /\ active'[Key(g)] = active[Key(g)]
        /\ Key(g) \in stopped' => Key(g) \in stopped
    <3>1. CASE Key(g) # Key(h)  BY <2>2, <3>1
    <3>2. CASE UNCHANGED <<done, active, stopped>>  BY <3>2
    <3> QED  BY <2>3, <3>1, <3>2
  <2> QED  BY <2>1, <2>4 DEF SelectedInv, Unresolved
<1> QED  BY <1>1 DEF SelectedInv

LEMMA SelectedStep ==
  TypeInv /\ LocksInv /\ SelectedInv /\ [Next]_vars => SelectedInv'
<1> SUFFICES ASSUME TypeInv, LocksInv, SelectedInv, [Next]_vars
             PROVE  SelectedInv'
  OBVIOUS
<1> USE OwnershipAssumption
<1>1. ASSUME NEW h \in Handlers, Leave(h), UNCHANGED <<done, active, stopped>>
      PROVE  SelectedInv'
  BY <1>1, SelectedBy DEF Leave, Goto, TypeInv, TypeOK, Selecting
<1>2. ASSUME NEW h \in Handlers, Refuse(h) PROVE SelectedInv'
  BY <1>1, <1>2 DEF Refuse
<1>3. ASSUME NEW h \in Handlers, OwnsPlan(h), pc'[h] \notin Selecting,
             \A g \in Handlers : g # h => pc'[g] = pc[g] /\ call'[g] = call[g],
             \A k \in Keys : k # Key(h) => /\ done'[k] = done[k]
                                           /\ active'[k] = active[k]
                                           /\ k \in stopped' => k \in stopped
      PROVE  SelectedInv'
  BY <1>3, SelectedBy
<1>4. ASSUME NEW h \in Handlers, Stop(h), OwnsPlan(h) PROVE SelectedInv'
  <2>1. CASE Refuse(h)  BY <1>2, <2>1
  <2>2. CASE ~Refuse(h)
    <3>1. /\ active' = [active EXCEPT ![Key(h)] = None] /\ done' = done
          /\ stopped' = stopped \union {Key(h)} /\ Leave(h)
      BY <1>4, <2>2 DEF Stop
    <3>2. /\ pc'[h] \notin Selecting
          /\ \A g \in Handlers : g # h => pc'[g] = pc[g] /\ call'[g] = call[g]
      BY <3>1 DEF Leave, Goto, TypeInv, TypeOK, Selecting
    <3>3. \A k \in Keys : k # Key(h) => active'[k] = active[k]
      BY <3>1 DEF TypeInv, TypeOK
    <3> QED  BY <1>3, <1>4, <3>1, <3>2, <3>3
  <2> QED  BY <2>1, <2>2
<1>5. ASSUME NEW h \in Handlers, Call(h) \/ OwnPlan(h) PROVE SelectedInv'
  <2>1. CASE Refuse(h)  BY <1>2, <2>1
  <2>2. CASE ~Refuse(h)
    <3>1. /\ pc'[h] \notin Selecting
          /\ UNCHANGED <<done, active, stopped>>
          /\ \A g \in Handlers : g # h => pc'[g] = pc[g] /\ call'[g] = call[g]
      BY <1>5, <2>2 DEF Call, OwnPlan, Goto, TypeInv, TypeOK, Selecting
    <3> QED  BY <3>1, SelectedBy
  <2> QED  BY <2>1, <2>2
<1>6. ASSUME NEW h \in Handlers, Select(h) PROVE SelectedInv'
  <2>1. CASE Refuse(h)  BY <1>2, <2>1
  <2>2. CASE ~Refuse(h)
    <3>1. PICK target :
             call' = [call EXCEPT ![h].phase = done[Key(h)] + 1,
                                  ![h].target = target]
      BY <1>6, <2>2 DEF Select
    <3>2. /\ pc[h] = "select" /\ UNCHANGED <<done, active, stopped>>
          /\ Unresolved(h) \/ Key(h) \in stopped => call[h].retry
          /\ \A g \in Handlers : g # h => pc'[g] = pc[g] /\ call'[g] = call[g]
      BY <1>6, <2>2, <3>1 DEF Select, Selectable, Goto, TypeInv, TypeOK
    <3>3. call[h] \in Invocations  BY <3>2, Located
    <3>4. call'[h] = [call[h] EXCEPT !.phase = done[Key(h)] + 1,
                                     !.target = target]
      BY <3>1 DEF TypeInv, TypeOK
    <3>5. /\ call'[h].phase = done[Key(h)] + 1
          /\ call'[h].retry = call[h].retry /\ call'[h].plan = call[h].plan
          /\ call'[h].home = call[h].home
      BY <3>3, <3>4 DEF Invocations
    <3>6. Key(h)' = Key(h)  BY <3>5 DEF Key, HomeDir
    <3> QED  BY <3>2, <3>5, <3>6, SelectedBy DEF Unresolved
  <2> QED  BY <2>1, <2>2
<1>7. ASSUME NEW h \in Handlers, OwnExecution(h) PROVE SelectedInv'
  <2>1. CASE Refuse(h)  BY <1>2, <2>1
  <2>2. CASE ~Refuse(h)
    <3>1. /\ pc[h] \in Selecting /\ call' = call
          /\ UNCHANGED <<done, active, stopped>>
          /\ \A g \in Handlers : g # h => pc'[g] = pc[g] /\ call'[g] = call[g]
      BY <1>7, <2>2 DEF OwnExecution, Goto, TypeInv, TypeOK, Selecting
    <3>2. Key(h)' = Key(h)  BY <3>1, SamePlace
    <3>3. Unresolved(h)' <=> Unresolved(h)  BY <3>1, <3>2 DEF Unresolved
    <3> QED  BY <3>1, <3>2, <3>3, SelectedBy DEF SelectedInv
  <2> QED  BY <2>1, <2>2
<1>8. ASSUME NEW h \in Handlers, Prepare(h) PROVE SelectedInv'
  <2>1. CASE Refuse(h)  BY <1>2, <2>1
  <2>2. CASE ~Refuse(h)
    <3>1. PICK a :
             /\ active' = [active EXCEPT ![Key(h)] = a]
             /\ call' = [call EXCEPT ![h].attempt = a, ![h].retry = FALSE]
      BY <1>8, <2>2 DEF Prepare
    <3>2. /\ pc[h] = "prepare" /\ pc' = [pc EXCEPT ![h] = "launch"]
          /\ stopped' = stopped \ {Key(h)} /\ done' = done
      BY <1>8, <2>2 DEF Prepare, Goto
    <3>3. /\ pc'[h] \notin Selecting /\ OwnsPlan(h)
          /\ \A g \in Handlers : g # h => pc'[g] = pc[g] /\ call'[g] = call[g]
      BY <3>1, <3>2 DEF TypeInv, TypeOK, Selecting, OwnsPlan
    <3>4. \A k \in Keys : k # Key(h) => active'[k] = active[k]
      BY <3>1 DEF TypeInv, TypeOK
    <3> QED  BY <1>3, <3>2, <3>3, <3>4
  <2> QED  BY <2>1, <2>2
<1>9. ASSUME NEW h \in Handlers, Launch(h) \/ Identify(h) \/ Session(h)
      PROVE  SelectedInv'
  <2>1. OwnsPlan(h)  BY <1>9 DEF Launch, Identify, Session, OwnsPlan
  <2>2. CASE Stop(h)  BY <1>4, <2>1, <2>2
  <2>3. CASE ~Stop(h)
    <3>1. /\ pc'[h] \notin Selecting
          /\ UNCHANGED <<done, active, stopped>>
          /\ \A g \in Handlers : g # h => pc'[g] = pc[g] /\ call'[g] = call[g]
      BY <1>9, <2>3
         DEF Launch, Identify, Session, Goto, TypeInv, TypeOK, Selecting
    <3> QED  BY <2>1, <3>1, SelectedBy
  <2> QED  BY <2>2, <2>3
<1>10. ASSUME NEW h \in Handlers, Record(h) PROVE SelectedInv'
  <2>1. pc[h] = "record" /\ OwnsPlan(h)  BY <1>10 DEF Record, OwnsPlan
  <2>2. CASE Stop(h)  BY <1>4, <2>1, <2>2
  <2>3. CASE ~Stop(h)
    <3>1. /\ active' = [active EXCEPT ![Key(h)] = None]
          /\ done' = [done EXCEPT ![Key(h)] = @ + 1]
          /\ Leave(h) \/ (Goto(h, "select") /\ call' = call)
          /\ stopped' = stopped
      BY <1>10, <2>3 DEF Record
    <3>2. /\ pc'[h] \notin Selecting
          /\ \A g \in Handlers : g # h => pc'[g] = pc[g] /\ call'[g] = call[g]
      BY <3>1 DEF Leave, Goto, TypeInv, TypeOK, Selecting
    <3>3. \A k \in Keys : k # Key(h) => /\ active'[k] = active[k]
                                        /\ done'[k] = done[k]
      BY <3>1 DEF TypeInv, TypeOK
    <3> QED  BY <1>3, <2>1, <3>1, <3>2, <3>3
  <2> QED  BY <2>2, <2>3
<1>11. ASSUME NEW h \in Handlers, Crash(h) PROVE SelectedInv'
  BY <1>2, <1>11 DEF Crash
<1>12. CASE UNCHANGED <<pc, call, done, active, stopped>>
  BY <1>12 DEF SelectedInv, Key, HomeDir, Unresolved
<1> QED  BY <1>5, <1>6, <1>7, <1>8, <1>9, <1>10, <1>11, <1>12
            DEF Next, Step, WorkerExits, Mark, vars

LEMMA SelectedHolds == Spec => [](TypeInv /\ SelectedInv)
  BY LocksHold, SelectedInit, SelectedStep, PTL DEF Spec

LEMMA UnaskedIsFree ==
  ASSUME TypeInv, SelectedInv, NEW h \in Handlers, LaunchesUnasked(h)
  PROVE  Free(Key(h), call[h].phase)
<1>1. pc[h] = "prepare" /\ ~call[h].retry  BY DEF LaunchesUnasked
<1>2. Key(h) \in Keys  BY <1>1, Located, OwnershipAssumption
<1>3. done[Key(h)] \in Nat  BY <1>2 DEF TypeInv, TypeOK
<1>4. /\ call[h].phase = done[Key(h)] + 1
      /\ ~Unresolved(h) /\ Key(h) \notin stopped
  BY <1>1 DEF SelectedInv, Selecting
<1> QED  BY <1>3, <1>4 DEF Free, Unresolved

\* Nothing happens to the state in a plan workspace between an ordinary run's
\* look at it and its launch: the run repeats no phase that another run, which
\* found the same plan workspace, completed, stopped at or left.
THEOREM OwnershipRepeatsNothing == Spec => OrdinaryRunsRepeatNothing
<1>1. TypeInv /\ SelectedInv /\ [Next]_vars =>
        [\A h \in Handlers :
            LaunchesUnasked(h) => Free(Key(h), call[h].phase)]_vars
  BY UnaskedIsFree
<1> QED  BY <1>1, SelectedHolds, PTL DEF Spec, OrdinaryRunsRepeatNothing

-----------------------------------------------------------------------------
(* Plans whose workspace stays where it is *)

LEMMA HomeIsOne ==
  ASSUME OwnershipAssumption, NEW plan \in Plans,
         NEW p, NEW q, IsPlanWorkspace(plan, p), IsPlanWorkspace(plan, q)
  PROVE  p = q
<1>1. PICK i \in DOMAIN Ancestors[plan] :
         /\ p = Ancestors[plan][i]
         /\ \A j \in 1 .. i - 1 : Ancestors[plan][j] \notin marked
         /\ \/ p \in marked
            \/ /\ i = 1
               /\ \A j \in DOMAIN Ancestors[plan] : Ancestors[plan][j] \notin marked
  BY DEF IsPlanWorkspace
<1>2. PICK k \in DOMAIN Ancestors[plan] :
         /\ q = Ancestors[plan][k]
         /\ \A j \in 1 .. k - 1 : Ancestors[plan][j] \notin marked
         /\ \/ q \in marked
            \/ /\ k = 1
               /\ \A j \in DOMAIN Ancestors[plan] : Ancestors[plan][j] \notin marked
  BY DEF IsPlanWorkspace
<1>3. DOMAIN Ancestors[plan] = 1 .. Len(Ancestors[plan])
      /\ Len(Ancestors[plan]) \in Nat
  BY DEF OwnershipAssumption
<1>4. i = k
  <2>1. CASE p \in marked /\ q \in marked
    <3>1. i \notin 1 .. k - 1  BY <1>1, <1>2, <2>1
    <3>2. k \notin 1 .. i - 1  BY <1>1, <1>2, <2>1
    <3> QED  BY <1>3, <3>1, <3>2
  <2>2. CASE p \notin marked \/ q \notin marked
    BY <1>1, <1>2, <2>2
  <2> QED  BY <2>1, <2>2
<1> QED  BY <1>1, <1>2, <1>4

\* Work on a plan has begun, says the state kept at k.
Begun(k) == done[k] # 0 \/ active[k] # None \/ k \in stopped

Housed(k) == \E p \in Paths : IsPlanWorkspace(k[2], p) /\ Dir[p] = k[1]

\* Every invocation, and every state of a plan, is in its plan workspace.
AtHomeInv ==
    /\ \A h \in Handlers :
          pc[h] # "idle" => IsPlanWorkspace(call[h].plan, call[h].home)
    /\ \A k \in Keys : Begun(k) => Housed(k)

LEMMA AtHomeInit == Init => AtHomeInv
  BY DEF Init, AtHomeInv, Begun

\* A step of h works at its own key, and its call stays where it is.
LEMMA AtHomeBy ==
  ASSUME OwnershipAssumption, TypeInv, AtHomeInv, UNCHANGED marked,
         NEW h \in Handlers,
         \A g \in Handlers : g # h => pc'[g] = pc[g] /\ call'[g] = call[g],
         pc'[h] # "idle" => IsPlanWorkspace(call'[h].plan, call'[h].home),
         \/ pc[h] # "idle"
         \/ UNCHANGED <<done, active, stopped>>,
         \A k \in Keys : k # Key(h) => /\ done'[k] = done[k]
                                       /\ active'[k] = active[k]
                                       /\ k \in stopped' => k \in stopped
  PROVE  AtHomeInv'
<1>2. ASSUME NEW g \in Handlers, pc'[g] # "idle"
      PROVE  IsPlanWorkspace(call[g].plan, call[g].home)'
  <2>1. IsPlanWorkspace(call'[g].plan, call'[g].home)
    BY <1>2 DEF AtHomeInv
  <2> QED  BY <2>1 DEF IsPlanWorkspace
<1>3. ASSUME NEW k \in Keys, Begun(k)'
      PROVE  Housed(k)'
  <2>1. Housed(k)' <=> Housed(k)  BY DEF Housed, IsPlanWorkspace
  <2>2. CASE Begun(k)  BY <2>1, <2>2 DEF AtHomeInv
  <2>3. CASE ~Begun(k)
    <3>1. pc[h] # "idle" /\ k = Key(h)  BY <1>3, <2>3 DEF Begun
    <3>2. call[h].home \in Paths  BY <3>1, Located DEF Invocations
    <3>3. k[1] = Dir[call[h].home] /\ k[2] = call[h].plan
      BY <3>1 DEF Key, HomeDir
    <3> QED  BY <2>1, <3>1, <3>2, <3>3 DEF Housed, AtHomeInv
  <2> QED  BY <2>2, <2>3
<1> QED  BY <1>2, <1>3 DEF AtHomeInv

LEMMA AtHomeStep ==
  TypeInv /\ AtHomeInv /\ [Next /\ UNCHANGED marked]_vars => AtHomeInv'
<1> SUFFICES ASSUME TypeInv, AtHomeInv, [Next /\ UNCHANGED marked]_vars
             PROVE  AtHomeInv'
  OBVIOUS
<1> USE OwnershipAssumption
<1>0. UNCHANGED marked  BY DEF vars
<1>1. ASSUME NEW h \in Handlers, pc[h] # "idle", Leave(h),
             \A k \in Keys : k # Key(h) => /\ done'[k] = done[k]
                                           /\ active'[k] = active[k]
                                           /\ k \in stopped' => k \in stopped
      PROVE  AtHomeInv'
  BY <1>0, <1>1, AtHomeBy DEF Leave, Goto, TypeInv, TypeOK
<1>2. ASSUME NEW h \in Handlers, pc[h] # "idle", Refuse(h) PROVE AtHomeInv'
  BY <1>1, <1>2 DEF Refuse
<1>3. ASSUME NEW h \in Handlers, pc[h] # "idle", Stop(h) PROVE AtHomeInv'
  <2>1. CASE Refuse(h)  BY <1>2, <1>3, <2>1
  <2>2. CASE ~Refuse(h)
    <3>1. /\ active' = [active EXCEPT ![Key(h)] = None] /\ done' = done
          /\ stopped' = stopped \union {Key(h)} /\ Leave(h)
      BY <1>3, <2>2 DEF Stop
    <3>2. \A k \in Keys : k # Key(h) => active'[k] = active[k]
      BY <3>1 DEF TypeInv, TypeOK
    <3> QED  BY <1>1, <1>3, <3>1, <3>2
  <2> QED  BY <2>1, <2>2
\* h goes on, in the call it is in.
<1>4. ASSUME NEW h \in Handlers, pc[h] # "idle",
             \A g \in Handlers : g # h => pc'[g] = pc[g] /\ call'[g] = call[g],
             call'[h].plan = call[h].plan, call'[h].home = call[h].home,
             \A k \in Keys : k # Key(h) => /\ done'[k] = done[k]
                                           /\ active'[k] = active[k]
                                           /\ k \in stopped' => k \in stopped
      PROVE  AtHomeInv'
  <2>1. IsPlanWorkspace(call[h].plan, call[h].home)  BY <1>4 DEF AtHomeInv
  <2>2. IsPlanWorkspace(call'[h].plan, call'[h].home)  BY <1>4, <2>1
  <2> QED  BY <1>0, <1>4, <2>2, AtHomeBy
<1>5. ASSUME NEW h \in Handlers, Call(h) PROVE AtHomeInv'
  <2>1. PICK plan \in Plans, home \in Paths, retry \in BOOLEAN :
           /\ IsPlanWorkspace(plan, home)
           /\ call' = [call EXCEPT ![h] =
                         [plan |-> plan, home |-> home, retry |-> retry,
                          phase |-> 0, target |-> None, attempt |-> None]]
    BY <1>5 DEF Call
  <2>2. call'[h].plan = plan /\ call'[h].home = home
    BY <2>1 DEF TypeInv, TypeOK
  <2>3. IsPlanWorkspace(call'[h].plan, call'[h].home)  BY <2>1, <2>2
  <2>4. /\ UNCHANGED <<done, active, stopped>>
        /\ \A g \in Handlers : g # h => pc'[g] = pc[g] /\ call'[g] = call[g]
    BY <1>5, <2>1 DEF Call, Goto, TypeInv, TypeOK
  <2> QED  BY <1>0, <2>3, <2>4, AtHomeBy
<1>6. ASSUME NEW h \in Handlers, Step(h), pc[h] # "idle" PROVE AtHomeInv'
  <2>1. CASE Refuse(h) \/ Stop(h)  BY <1>2, <1>3, <1>6, <2>1
  <2>2. CASE Record(h) /\ ~Stop(h)
    <3>1. /\ active' = [active EXCEPT ![Key(h)] = None]
          /\ done' = [done EXCEPT ![Key(h)] = @ + 1]
          /\ Leave(h) \/ (Goto(h, "select") /\ call' = call)
          /\ stopped' = stopped
      BY <2>2 DEF Record
    <3>2. \A k \in Keys : k # Key(h) => /\ active'[k] = active[k]
                                        /\ done'[k] = done[k]
      BY <3>1 DEF TypeInv, TypeOK
    <3>3. CASE Leave(h)  BY <1>1, <1>6, <3>1, <3>2, <3>3
    <3>4. CASE Goto(h, "select") /\ call' = call
      <4>1. \A g \in Handlers : g # h => pc'[g] = pc[g] /\ call'[g] = call[g]
        BY <3>4 DEF Goto, TypeInv, TypeOK
      <4> QED  BY <1>4, <1>6, <3>1, <3>2, <3>4, <4>1
    <3> QED  BY <3>1, <3>3, <3>4
  <2>3. CASE Prepare(h) /\ ~Refuse(h)
    <3>1. PICK a :
             /\ active' = [active EXCEPT ![Key(h)] = a]
             /\ call' = [call EXCEPT ![h].attempt = a, ![h].retry = FALSE]
      BY <2>3 DEF Prepare
    <3>2. /\ pc' = [pc EXCEPT ![h] = "launch"]
          /\ stopped' = stopped \ {Key(h)} /\ done' = done
      BY <2>3 DEF Prepare, Goto
    <3>3. /\ \A g \in Handlers : g # h => pc'[g] = pc[g] /\ call'[g] = call[g]
          /\ \A k \in Keys : k # Key(h) => active'[k] = active[k]
      BY <3>1, <3>2 DEF TypeInv, TypeOK
    <3>4. call'[h] = [call[h] EXCEPT !.attempt = a, !.retry = FALSE]
      BY <3>1 DEF TypeInv, TypeOK
    <3>5. call'[h].plan = call[h].plan /\ call'[h].home = call[h].home
      BY <1>6, <3>4, Located DEF Invocations
    <3> QED  BY <1>4, <1>6, <3>2, <3>3, <3>5
  <2>4. CASE Select(h) /\ ~Refuse(h)
    <3>1. PICK phase, target :
             call' = [call EXCEPT ![h].phase = phase, ![h].target = target]
      BY <2>4 DEF Select
    <3>2. /\ UNCHANGED <<done, active, stopped>>
          /\ \A g \in Handlers : g # h => pc'[g] = pc[g] /\ call'[g] = call[g]
      BY <2>4, <3>1 DEF Select, Goto, TypeInv, TypeOK
    <3>3. call'[h] = [call[h] EXCEPT !.phase = phase, !.target = target]
      BY <3>1 DEF TypeInv, TypeOK
    <3>4. call'[h].plan = call[h].plan /\ call'[h].home = call[h].home
      BY <1>6, <3>3, Located DEF Invocations
    <3> QED  BY <1>4, <1>6, <3>2, <3>4
  <2>5. CASE /\ OwnPlan(h) \/ OwnExecution(h) \/ Launch(h) \/ Identify(h)
                \/ Session(h)
             /\ ~Refuse(h) /\ ~Stop(h)
    <3>1. /\ UNCHANGED <<call, done, active, stopped>>
          /\ \A g \in Handlers : g # h => pc'[g] = pc[g]
      BY <2>5 DEF OwnPlan, OwnExecution, Launch, Identify, Session, Goto,
                  TypeInv, TypeOK
    <3> QED  BY <1>4, <1>6, <3>1
  <2> QED  BY <1>6, <2>1, <2>2, <2>3, <2>4, <2>5 DEF Step
<1>7. CASE UNCHANGED <<pc, call, done, active, stopped>>
  BY <1>0, <1>7 DEF AtHomeInv, Begun, Housed, IsPlanWorkspace
<1>8. \A h \in Handlers : Step(h) => pc[h] # "idle"
  BY DEF Step, OwnPlan, Select, OwnExecution, Prepare, Launch, Identify,
         Session, Record
<1> QED  BY <1>2, <1>5, <1>6, <1>7, <1>8
            DEF Next, Crash, WorkerExits, Mark, vars

LEMMA StillIsSpec == StillSpec => Spec
<1>1. [Next /\ UNCHANGED marked]_vars => [Next]_vars
  OBVIOUS
<1> QED  BY <1>1, PTL DEF StillSpec, Spec

\* As long as no marker is created, an ordinary run repeats no phase that any
\* earlier run of its plan completed, stopped at or left: all of them find the
\* same plan workspace.
THEOREM OwnershipRepeatsNoPlan == StillSpec => PlanRepeatsNothing
<1>1. ASSUME TypeInv, SelectedInv, AtHomeInv, NEW h \in Handlers, NEW d \in Dirs,
             LaunchesUnasked(h)
      PROVE  Free(<<d, call[h].plan>>, call[h].phase)
  <2> DEFINE k == <<d, call[h].plan>>
  <2>1. Free(Key(h), call[h].phase)  BY <1>1, UnaskedIsFree
  <2>2. CASE d = HomeDir(h)  BY <2>1, <2>2 DEF Key
  <2>3. CASE d # HomeDir(h)
    <3>1. pc[h] # "idle"  BY <1>1 DEF LaunchesUnasked
    <3>2. call[h].plan \in Plans  BY <1>1, <3>1, Located, OwnershipAssumption
                                     DEF Invocations
    <3>3. k \in Keys  BY <3>2 DEF Keys
    <3>4. ~Housed(k)
      <4>1. IsPlanWorkspace(call[h].plan, call[h].home)
        BY <1>1, <3>1 DEF AtHomeInv
      <4> QED
        BY <2>3, <3>2, <4>1, HomeIsOne, OwnershipAssumption
           DEF Housed, HomeDir
    <3>5. ~Begun(k)  BY <1>1, <3>3, <3>4 DEF AtHomeInv
    <3>6. Key(h) \in Keys /\ done[Key(h)] \in Nat
      BY <1>1, <3>1, Located, OwnershipAssumption DEF TypeInv, TypeOK
    <3>7. call[h].phase \in Nat
      BY <1>1, <3>1, Located, OwnershipAssumption DEF Invocations
    <3>8. 0 < call[h].phase  BY <2>1, <3>6, <3>7 DEF Free
    <3> QED  BY <3>5, <3>8 DEF Begun, Free
  <2> QED  BY <2>2, <2>3
<1>2. TypeInv /\ SelectedInv /\ AtHomeInv /\ [Next]_vars =>
        [\A h \in Handlers, d \in Dirs :
            LaunchesUnasked(h) => Free(<<d, call[h].plan>>, call[h].phase)]_vars
  BY <1>1
<1>3. StillSpec => []AtHomeInv
  BY StillIsSpec, SelectedHolds, AtHomeInit, AtHomeStep, PTL DEF StillSpec
<1> QED
  BY <1>2, <1>3, StillIsSpec, SelectedHolds, PTL DEF Spec, PlanRepeatsNothing
=============================================================================
