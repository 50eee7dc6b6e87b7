-------------------------- MODULE PlanRunnerProofs ---------------------------
(***************************************************************************)
(* Theorems about PlanRunner, for any plan, handlers, attempts and         *)
(* results, and about what is read of its state, by Status and Handoff;    *)
(* lemmas about the transitions of RunnerState, for any state.             *)
(***************************************************************************)
EXTENDS Status, Handoff, FilterProofs

-----------------------------------------------------------------------------
(* The transitions of the state keep its type *)

LEMMA EmptyType == EmptyState \in RunnerStates
  BY DEF EmptyState, RunnerStates

LEMMA AcceptType ==
    ASSUME NEW s \in RunnerStates, NEW v \in Versions
    PROVE  AcceptPlan(s, v) \in RunnerStates
  BY DEF AcceptPlan, RunnerStates

LEMMA FinishedType ==
    ASSUME NEW s \in RunnerStates
    PROVE  Finished(s) \in RunnerStates
  BY DEF Finished, RunnerStates

LEMMA ResolveType ==
    ASSUME NEW s \in RunnerStates
    PROVE  ResolveAbandoned(s) \in RunnerStates
  <1>1. CASE s.active = None
    BY <1>1 DEF ResolveAbandoned
  <1>2. CASE s.active # None
    <2>1. s.active \in ActiveAttempt
      BY <1>2 DEF RunnerStates
    <2>2. [attempt |-> s.active.id, phase |-> s.active.phase,
           status |-> "interrupted", linked |-> FALSE] \in LastRun
      BY <2>1 DEF ActiveAttempt, LastRun, AttemptStatus, StopReason, Failures
    <2> QED
      BY <1>2, <2>2 DEF ResolveAbandoned, RunnerStates
  <1> QED
    BY <1>1, <1>2

LEMMA PreparedType ==
    ASSUME NEW s \in RunnerStates, NEW id \in Nat,
           NEW p \in Phases, NEW v \in Versions
    PROVE  /\ Prepared(s, id, p, v) \in RunnerStates
           /\ Prepared(s, id, p, v).active \in ActiveAttempt
           /\ Prepared(s, id, p, v).active.id = id
  <1> DEFINE new == [id |-> id, status |-> "prepared", phase |-> p,
                     snapshot |-> v, workspace |-> WorkspaceOf[v][p],
                     process |-> FALSE]
  <1>1. new \in ActiveAttempt
    BY PlanAssumption DEF ActiveAttempt
  <1>2. ResolveAbandoned(s) \in RunnerStates
    BY ResolveType
  <1>3. Prepared(s, id, p, v) =
          [ResolveAbandoned(s) EXCEPT !.current = p, !.active = new,
                                      !.stop = None]
    BY DEF Prepared
  <1> HIDE DEF new
  <1>4. /\ Prepared(s, id, p, v) \in RunnerStates
        /\ Prepared(s, id, p, v).active = new
    BY <1>1, <1>2, <1>3 DEF RunnerStates
  <1>5. new.id = id
    BY DEF new
  <1> QED
    BY <1>1, <1>4, <1>5

LEMMA RunningIs ==
    ASSUME NEW s \in RunnerStates, NEW b
    PROVE  Running(s, b) = [s EXCEPT !.active =
                 [s.active EXCEPT !.status = "running", !.process = b]]
  BY DEF Running, RunnerStates

LEMMA RunningType ==
    ASSUME NEW s \in RunnerStates, NEW b \in BOOLEAN, s.active # None
    PROVE  /\ Running(s, b) \in RunnerStates
           /\ Running(s, b).active \in ActiveAttempt
           /\ Running(s, b).active.id = s.active.id
  <1> DEFINE new == [s.active EXCEPT !.status = "running", !.process = b]
  <1>1. s.active \in ActiveAttempt
    BY DEF RunnerStates
  <1>2. new \in ActiveAttempt /\ new.id = s.active.id
    BY <1>1 DEF ActiveAttempt
  <1>3. Running(s, b) = [s EXCEPT !.active = new]
    BY RunningIs
  <1> QED
    BY <1>2, <1>3 DEF RunnerStates

LEMMA ConcludeType ==
    ASSUME NEW s \in RunnerStates, s.active # None,
           NEW status \in AttemptStatus
    PROVE  Conclude(s, status) \in RunnerStates
  <1> DEFINE p == s.active.phase
             ref == [attempt |-> s.active.id, phase |-> p, status |-> status]
             last == [attempt |-> s.active.id, phase |-> p, status |-> status,
                      linked |-> TRUE]
             stop == IF status = "phase-complete" THEN None
                     ELSE [reason |-> status, phase |-> p]
             current == IF status = "phase-complete" THEN None ELSE s.current
             completed == IF status = "phase-complete"
                                /\ p \notin Range(s.completed)
                          THEN Append(s.completed, p) ELSE s.completed
             outcomes == Append(s.outcomes, ref)
  <1>1. s.active \in ActiveAttempt
    BY DEF RunnerStates
  <1>2. /\ ref \in OutcomeRef /\ last \in LastRun
        /\ stop \in StopState \union {None}
        /\ p \in Phases
    BY <1>1 DEF ActiveAttempt, OutcomeRef, LastRun, StopState, AttemptStatus
  <1>3. /\ completed \in Seq(Phases) /\ outcomes \in Seq(OutcomeRef)
        /\ current \in Phases \union {None}
    BY <1>2 DEF RunnerStates
  <1>4. Conclude(s, status) =
          [s EXCEPT !.completed = completed, !.current = current,
                    !.active = None, !.stop = stop, !.last = last,
                    !.outcomes = outcomes]
    BY DEF Conclude, RunnerStates
  <1> HIDE DEF p, ref, last, stop, current, completed, outcomes
  <1> QED
    BY <1>2, <1>3, <1>4 DEF RunnerStates

LEMMA StatusType ==
    ASSUME NEW r \in ProcessResult
    PROVE  StatusOf(r) \in AttemptStatus
  BY DEF StatusOf, ProcessResult, AttemptStatus, StopReason, Failures

LEMMA SelectedType ==
    ASSUME NEW s \in RunnerStates, NEW v \in Versions
    PROVE  SelectNextPhase(s, v) \in Phases \union {None}
  <1>1. CASE NeedsRetry(s)
    BY <1>1 DEF SelectNextPhase, NeedsRetry, RecoveryPhase, RunnerStates,
                ActiveAttempt, StopState
  <1>2. CASE ~NeedsRetry(s) /\ Incomplete(s, v) # {}
    <2>1. /\ PhasesOf[v] \in Seq(Phases)
          /\ Incomplete(s, v) \subseteq DOMAIN PhasesOf[v]
          /\ DOMAIN PhasesOf[v] = 1 .. Len(PhasesOf[v])
      BY PlanAssumption DEF Incomplete
    <2>2. Incomplete(s, v) \subseteq Nat
      BY <2>1
    <2>4. \E i \in Incomplete(s, v) : \A j \in Incomplete(s, v) : i <= j
      BY <1>2, <2>2, Least
    <2>5. (CHOOSE i \in Incomplete(s, v) : \A j \in Incomplete(s, v) : i <= j)
             \in DOMAIN PhasesOf[v]
      BY <2>1, <2>4
    <2> QED
      BY <1>2, <2>1, <2>5 DEF SelectNextPhase
  <1> QED
    BY <1>1, <1>2 DEF SelectNextPhase

-----------------------------------------------------------------------------
(* The transitions keep the state valid *)

OutcomeIds(s) == {s.outcomes[i].attempt : i \in DOMAIN s.outcomes}

\* A valid state whose ids were all drawn before n, and whose active attempt
\* has no outcome yet; nor has a last attempt that was abandoned.
Sound(s, n) ==
    /\ ValidState(s)
    /\ \A id \in Mentioned(s) : id < n
    /\ s.active # None => s.active.id \notin OutcomeIds(s)
    /\ s.last # None /\ ~s.last.linked => s.last.attempt \notin OutcomeIds(s)

LEMMA EmptySound == ASSUME NEW n PROVE Sound(EmptyState, n)
  BY DEF Sound, EmptyState, ValidState, IsInjective, ValidActive, ValidStop,
         AttemptIdsDistinct, ValidLast, Mentioned, OutcomeIds

LEMMA MentionedType ==
    ASSUME NEW s \in RunnerStates
    PROVE  Mentioned(s) \subseteq Nat
  <1>1. \A i \in DOMAIN s.outcomes : s.outcomes[i].attempt \in Nat
    <2>1. s.outcomes \in Seq(OutcomeRef)
      BY DEF RunnerStates
    <2>2. \A i \in DOMAIN s.outcomes : s.outcomes[i] \in OutcomeRef
      BY <2>1
    <2> QED
      BY <2>2 DEF OutcomeRef
  <1>2. s.active # None => s.active.id \in Nat
    BY DEF RunnerStates, ActiveAttempt
  <1>3. s.last # None => s.last.attempt \in Nat
    BY DEF RunnerStates, LastRun
  <1> QED
    BY <1>1, <1>2, <1>3 DEF Mentioned

LEMMA SoundLater ==
    ASSUME NEW s \in RunnerStates, NEW n \in Nat, NEW m \in Nat, n <= m,
           Sound(s, n)
    PROVE  Sound(s, m)
  <1>1. Mentioned(s) \subseteq Nat
    BY MentionedType
  <1> QED
    BY <1>1 DEF Sound

\* The claim made from a sound state, whatever plan was accepted in between.
LEMMA ClaimSound ==
    ASSUME NEW s0 \in RunnerStates, NEW v \in Versions, NEW p \in Phases,
           NEW n \in Nat, Sound(s0, n), p \notin Range(s0.completed)
    PROVE  Sound(Prepared(AcceptPlan(s0, v), n, p, v), n + 1)
  <1> DEFINE s == AcceptPlan(s0, v)
             r == ResolveAbandoned(s)
             new == [id |-> n, status |-> "prepared", phase |-> p,
                     snapshot |-> v, workspace |-> WorkspaceOf[v][p],
                     process |-> FALSE]
             t == Prepared(s, n, p, v)
  <1>1. /\ s \in RunnerStates /\ s.plan = v
        /\ s.completed = s0.completed /\ s.outcomes = s0.outcomes
        /\ s.last = s0.last /\ s.active = s0.active
    BY DEF AcceptPlan, RunnerStates
  <1>2. /\ r \in RunnerStates /\ r.plan = v
        /\ r.completed = s0.completed /\ r.outcomes = s0.outcomes
    BY <1>1, ResolveType DEF ResolveAbandoned, RunnerStates
  <1>3. \/ r.last = s0.last
        \/ /\ s0.active # None
           /\ r.last = [attempt |-> s0.active.id, phase |-> s0.active.phase,
                        status |-> "interrupted", linked |-> FALSE]
    BY <1>1 DEF ResolveAbandoned, RunnerStates
  <1>4. /\ t \in RunnerStates /\ t.plan = v /\ t.completed = s0.completed
        /\ t.outcomes = s0.outcomes /\ t.last = r.last /\ t.stop = None
        /\ t.current = p /\ t.active = new
    BY <1>1, <1>2, PreparedType, ZenonT(40) DEF Prepared, RunnerStates
  <1>5. new # None
    <2>1. t.active \in ActiveAttempt
      BY <1>1, PreparedType
    <2> QED
      BY <1>4, <2>1, NoneAssumption
  <1> HIDE DEF r, t, s
  <1>6. ValidActive(t) /\ ValidStop(t)
    BY <1>4 DEF ValidActive, ValidStop
  <1>7. ValidLast(t)
    BY <1>3, <1>4 DEF ValidLast, Sound, ValidState
  <1>8. ValidState(t)
    BY <1>4, <1>5, <1>6, <1>7
    DEF ValidState, Sound, AttemptIdsDistinct
  <1>9. Mentioned(t) \subseteq Mentioned(s0) \union {n}
    BY <1>3, <1>4 DEF Mentioned
  <1>10. Mentioned(s0) \subseteq Nat
    BY MentionedType
  <1>11. \A id \in Mentioned(t) : id < n + 1
    BY <1>9, <1>10 DEF Sound
  <1>12. n \notin OutcomeIds(t)
    BY <1>4, <1>10 DEF Sound, OutcomeIds, Mentioned
  <1>13. t.last # None /\ ~t.last.linked => t.last.attempt \notin OutcomeIds(t)
    BY <1>3, <1>4 DEF Sound, OutcomeIds
  <1> QED
    BY <1>4, <1>8, <1>11, <1>12, <1>13 DEF Sound, t, s

LEMMA RunningSound ==
    ASSUME NEW s \in RunnerStates, NEW b \in BOOLEAN, NEW n \in Nat,
           Sound(s, n), s.active # None
    PROVE  Sound(Running(s, b), n)
  <1> DEFINE t == Running(s, b)
             new == [s.active EXCEPT !.status = "running", !.process = b]
  <1>0. s.active \in ActiveAttempt
    BY DEF RunnerStates
  <1>2. /\ new.id = s.active.id /\ new.phase = s.active.phase
        /\ new.snapshot = s.active.snapshot /\ new.status = "running"
    BY <1>0 DEF ActiveAttempt
  <1>4. t = [s EXCEPT !.active = new] /\ t.active \in ActiveAttempt
    BY RunningIs, RunningType
  <1> HIDE DEF new
  <1>1. /\ t.plan = s.plan /\ t.active = new
        /\ t.completed = s.completed /\ t.outcomes = s.outcomes
        /\ t.last = s.last /\ t.stop = s.stop /\ t.current = s.current
    BY <1>4 DEF RunnerStates
  <1>3. /\ t.active # None /\ t.active.id = s.active.id
        /\ t.active.phase = s.active.phase
        /\ t.active.snapshot = s.active.snapshot
        /\ t.active.status = "running"
    BY <1>1, <1>2, <1>4, NoneAssumption
  <1> HIDE DEF t
  <1>6. ValidState(t)
    BY <1>1, <1>3 DEF Sound, ValidState, ValidActive, ValidStop, ValidLast,
                      AttemptIdsDistinct
  <1>5. Mentioned(t) = Mentioned(s) /\ OutcomeIds(t) = OutcomeIds(s)
    BY <1>1, <1>3 DEF Mentioned, OutcomeIds
  <1> QED
    BY <1>1, <1>3, <1>6, <1>5 DEF Sound, t

LEMMA FinishedSound ==
    ASSUME NEW s0 \in RunnerStates, NEW v \in Versions, NEW n \in Nat,
           Sound(s0, n), ~NeedsRetry(s0)
    PROVE  Sound(Finished(AcceptPlan(s0, v)), n)
  <1> DEFINE t == Finished(AcceptPlan(s0, v))
  <1>1. /\ t.completed = s0.completed /\ t.outcomes = s0.outcomes
        /\ t.last = s0.last /\ t.stop = None /\ t.current = None
        /\ t.active = None
    BY DEF Finished, AcceptPlan, RunnerStates, NeedsRetry
  <1> HIDE DEF t
  <1>2. ValidState(t)
    BY <1>1 DEF Sound, ValidState, ValidActive, ValidStop, ValidLast,
                AttemptIdsDistinct
  <1>3. Mentioned(t) \subseteq Mentioned(s0) /\ OutcomeIds(t) = OutcomeIds(s0)
    BY <1>1 DEF Mentioned, OutcomeIds
  <1> QED
    BY <1>1, <1>2, <1>3 DEF Sound, t

LEMMA ConcludeSound ==
    ASSUME NEW s \in RunnerStates, NEW status \in AttemptStatus,
           NEW n \in Nat, Sound(s, n), s.active # None
    PROVE  /\ Sound(Conclude(s, status), n)
           /\ Conclude(s, status).plan = s.plan
           /\ Conclude(s, status).active = None
  <1> DEFINE p == s.active.phase
             ref == [attempt |-> s.active.id, phase |-> p, status |-> status]
             last == [attempt |-> s.active.id, phase |-> p, status |-> status,
                      linked |-> TRUE]
             stop == IF status = "phase-complete" THEN None
                     ELSE [reason |-> status, phase |-> p]
             current == IF status = "phase-complete" THEN None ELSE s.current
             t == Conclude(s, status)
  <1>1. /\ s.active \in ActiveAttempt /\ p \in Phases
        /\ s.completed \in Seq(Phases) /\ s.outcomes \in Seq(OutcomeRef)
    BY DEF RunnerStates, ActiveAttempt
  <1>2. /\ IsInjective(s.completed) /\ AttemptIdsDistinct(s)
        /\ s.current = p /\ p \notin Range(s.completed)
        /\ s.active.id \notin OutcomeIds(s)
    BY DEF Sound, ValidState, ValidActive
  <1>3. ref \in OutcomeRef /\ last \in LastRun
    BY <1>1 DEF ActiveAttempt, OutcomeRef, LastRun
  <1>4. /\ t.plan = s.plan /\ t.active = None /\ t.stop = stop
        /\ t.current = current /\ t.last = last
        /\ t.outcomes = Append(s.outcomes, ref)
        /\ t.completed = IF status = "phase-complete"
                         THEN Append(s.completed, p) ELSE s.completed
    BY <1>2 DEF Conclude, RunnerStates
  <1>5. ref.attempt = s.active.id
    OBVIOUS
  <1>6. /\ last.attempt = s.active.id /\ last.phase = p
        /\ last.status = status /\ last.linked
        /\ ref = [attempt |-> last.attempt, phase |-> last.phase,
                  status |-> last.status]
    OBVIOUS
  <1>7. stop # None =>
           /\ status # "phase-complete" /\ stop.phase = p /\ current = p
    BY <1>2
  <1>8. current # None => stop # None
    <2>1. status # "phase-complete" => stop \in StopState
      BY <1>1 DEF StopState, AttemptStatus
    <2> QED
      BY <2>1, NoneAssumption
  <1> HIDE DEF p, ref, last, stop, current, t
  <1>9. /\ IsInjective(t.completed)
        /\ status = "phase-complete" =>
              Range(t.completed) = Range(s.completed) \union {p}
        /\ status # "phase-complete" => t.completed = s.completed
    <2>1. /\ IsInjective(Append(s.completed, p))
          /\ Range(Append(s.completed, p)) = Range(s.completed) \union {p}
      BY <1>1, <1>2, AppendDistinct
    <2> QED
      BY <1>2, <1>4, <2>1
  <1>10. AttemptIdsDistinct(t)
    BY <1>1, <1>2, <1>3, <1>4, <1>5 DEF AttemptIdsDistinct, OutcomeIds
  <1>11. ValidActive(t) /\ ValidStop(t)
    BY <1>2, <1>4, <1>7, <1>9 DEF ValidActive, ValidStop
  <1>12. ValidLast(t)
    BY <1>1, <1>3, <1>4, <1>6, <1>9 DEF ValidLast
  <1>13. ValidState(t)
    BY <1>4, <1>8, <1>9, <1>10, <1>11, <1>12 DEF ValidState
  <1>14. Mentioned(t) \subseteq Mentioned(s)
    BY <1>1, <1>3, <1>4, <1>5, <1>6 DEF Mentioned
  <1> QED
    BY <1>4, <1>6, <1>13, <1>14 DEF Sound, t

-----------------------------------------------------------------------------
(* Type correctness *)

\* What the local variables of run_phases hold at each step.
Placed(h) ==
    /\ pc[h] # "idle" => call[h] # None
    /\ pc[h] = "own" => call[h].phase # None
    /\ pc[h] \in Attempting =>
          mem[h].active # None /\ mem[h].active.id \in Attempts
    /\ pc[h] = "cleanup" => ending[h] \in AttemptStatus \union {"error"}
    /\ pc[h] \in {"outcome", "commit"} => ending[h] \in AttemptStatus

TypeInv == TypeOK /\ \A h \in Handlers : Placed(h)

LEMMA VanishTypes ==
    ASSUME TypeInv, NEW h \in Handlers, Vanish(h)
    PROVE  /\ lock' \in Handlers \union {None}
           /\ pc' \in [Handlers -> {"idle", "lock", "read", "select", "finish",
                                    "own", "artifacts", "spawn", "record",
                                    "session", "cleanup", "outcome",
                                    "commit"}]
           /\ call' \in [Handlers -> Invocation \union {None}]
           /\ mem' \in [Handlers -> RunnerStates]
           /\ ending' \in [Handlers -> AttemptStatus \union {None, "error"}]
           /\ signalled' \subseteq Handlers
           /\ \A g \in Handlers : Placed(g)'
  <1>1. \A g \in Handlers \ {h} :
           /\ pc'[g] = pc[g] /\ call'[g] = call[g]
           /\ mem'[g] = mem[g] /\ ending'[g] = ending[g]
    BY DEF Vanish, Goto, TypeInv, TypeOK
  <1>2. pc'[h] = "idle"
    BY DEF Vanish, Goto, TypeInv, TypeOK
  <1>3. \A g \in Handlers : Placed(g)'
    BY <1>1, <1>2 DEF TypeInv, Placed, Attempting
  <1> QED
    BY <1>3, EmptyType DEF Vanish, Goto, TypeInv, TypeOK, Invocation

\* Leaving needs only that the exit code and the attempt shown are typed.
LEMMA LeaveTypes ==
    ASSUME TypeInv, NEW h \in Handlers,
           NEW exit \in {0, 1, 2, 3, 4, 5, 130}, NEW entry \in Nat \union {None},
           NEW allDone \in BOOLEAN, Leave(h, exit, entry, allDone),
           source' \in Versions, disk' \in RunnerStates,
           stable' \in RunnerStates,
           files' \in [Attempts -> OutcomeFile \union {None}],
           worker' \in [Attempts -> Worker], nextId' \in Nat
    PROVE  TypeInv'
  <1>1. Vanish(h)
    BY DEF Leave
  <1>2. report' \in Report \union {None}
    BY DEF Leave, Report, Exits
  <1> QED
    BY <1>1, <1>2, VanishTypes DEF TypeInv, TypeOK

LEMMA MineType ==
    ASSUME TypeInv, NEW h \in Handlers, pc[h] \in Attempting
    PROVE  /\ Mine(h) \in Attempts /\ Mine(h) \in Nat
           /\ mem[h] \in RunnerStates /\ mem[h].active \in ActiveAttempt
           /\ mem[h].active.phase \in Phases
  BY RunnerAssumption DEF TypeInv, TypeOK, Placed, Mine, RunnerStates,
                          ActiveAttempt

LEMMA UnrecordedTypes ==
    ASSUME TypeInv, NEW h \in Handlers, pc[h] \in Attempting, Unrecorded(h),
           source' \in Versions, disk' \in RunnerStates,
           stable' \in RunnerStates,
           files' \in [Attempts -> OutcomeFile \union {None}],
           worker' \in [Attempts -> Worker], nextId' \in Nat
    PROVE  TypeInv'
  BY MineType, LeaveTypes DEF Unrecorded

\* Every way out of run_phases that changes no file.
LEMMA RefuseTypes ==
    ASSUME TypeInv, NEW h \in Handlers, Refuse(h),
           UNCHANGED <<env, disk, files, nextId>>,
           worker' \in [Attempts -> Worker]
    PROVE  TypeInv'
  BY LeaveTypes DEF Refuse, TypeInv, TypeOK, env

\* A step inside run_phases: h goes to a label and assigns its variables.
Moves(h, label, c, s, e) ==
    /\ Goto(h, label) /\ Silent /\ UNCHANGED env
    /\ call' = [call EXCEPT ![h] = c]
    /\ mem' = [mem EXCEPT ![h] = s]
    /\ ending' = [ending EXCEPT ![h] = e]

\* It stays typed if what it assigns is.
LEMMA LocalTypes ==
    ASSUME TypeInv, NEW h \in Handlers,
           NEW label \in {"lock", "read", "select", "finish", "own",
                          "artifacts", "spawn", "record", "session",
                          "cleanup", "outcome", "commit"},
           NEW c \in Invocation, NEW s \in RunnerStates,
           NEW e \in AttemptStatus \union {None, "error"},
           Moves(h, label, c, s, e),
           disk' \in RunnerStates,
           files' \in [Attempts -> OutcomeFile \union {None}],
           worker' \in [Attempts -> Worker],
           lock' \in Handlers \union {None}, signalled' \subseteq Handlers,
           nextId' \in Nat,
           label = "own" => c.phase # None,
           label \in Attempting => s.active # None /\ s.active.id \in Attempts,
           label = "cleanup" => e \in AttemptStatus \union {"error"},
           label \in {"outcome", "commit"} => e \in AttemptStatus
    PROVE  TypeInv'
  <1>1. \A g \in Handlers \ {h} :
           /\ pc'[g] = pc[g] /\ call'[g] = call[g]
           /\ mem'[g] = mem[g] /\ ending'[g] = ending[g]
    BY DEF Moves, Goto, TypeInv, TypeOK
  <1>2. pc'[h] = label /\ call'[h] = c /\ mem'[h] = s /\ ending'[h] = e
    BY DEF Moves, Goto, TypeInv, TypeOK
  <1>3. \A g \in Handlers : Placed(g)'
    BY <1>1, <1>2, RunnerAssumption DEF TypeInv, Placed
  <1>4. TypeOK'
    BY DEF Moves, Goto, Silent, TypeInv, TypeOK, env
  <1> QED
    BY <1>3, <1>4 DEF TypeInv

LEMMA StartingTypes ==
    ASSUME TypeInv, NEW h \in Handlers, Invoke(h) \/ Starting(h)
    PROVE  TypeInv'
  <1>0. /\ source \in Versions /\ disk \in RunnerStates
        /\ stable \in RunnerStates /\ worker \in [Attempts -> Worker]
        /\ files \in [Attempts -> OutcomeFile \union {None}]
        /\ lock \in Handlers \union {None} /\ signalled \subseteq Handlers
        /\ nextId \in Nat /\ mem[h] \in RunnerStates
        /\ ending[h] \in AttemptStatus \union {None, "error"}
        /\ call[h] \in Invocation \union {None}
        /\ call = [call EXCEPT ![h] = call[h]]
        /\ mem = [mem EXCEPT ![h] = mem[h]]
        /\ ending = [ending EXCEPT ![h] = ending[h]]
    BY DEF TypeInv, TypeOK
  <1>1. pc[h] # "idle" => call[h] # None /\ call[h].snap \in Versions
    BY <1>0 DEF TypeInv, Placed, Invocation
  <1>2. CASE Invoke(h)
    <2>1. PICK options \in Calls :
            call' = [call EXCEPT ![h] =
                       [snap |-> source, retry |-> options.retry,
                        accept |-> options.accept, max |-> options.max,
                        ran |-> 0, phase |-> None]]
      BY <1>2 DEF Invoke
    <2> DEFINE c == [snap |-> source, retry |-> options.retry,
                     accept |-> options.accept, max |-> options.max,
                     ran |-> 0, phase |-> None]
    <2>2. c \in Invocation
      BY <1>0, RunnerAssumption DEF Invocation
    <2>3. Moves(h, "lock", c, mem[h], ending[h])
      BY <1>0, <1>2, <2>1, <2>2, Zenon DEF Invoke, Moves, env
    <2> QED
      BY <1>0, <1>1, <1>2, <2>1, <2>2, <2>3, LocalTypes DEF Invoke, Attempting
  <1>3. CASE AcquirePlanLock(h)
    <2>1. Moves(h, "read", call[h], mem[h], ending[h])
      BY <1>0, <1>3, Zenon DEF AcquirePlanLock, Moves, env
    <2> QED
      BY <1>0, <1>1, <1>3, <2>1, LocalTypes DEF AcquirePlanLock, Attempting
  <1>4. CASE PlanLockContention(h)
    BY <1>0, <1>4, RefuseTypes DEF PlanLockContention
  <1>5. CASE ReadState(h)
    <2>1. Moves(h, "select", call[h], AcceptPlan(disk, call[h].snap), ending[h])
      BY <1>0, <1>5, Zenon DEF ReadState, Moves, env
    <2> QED
      BY <1>0, <1>1, AcceptType, <1>5, <2>1, LocalTypes DEF ReadState, Attempting
  <1>6. CASE ReadRefused(h)
    BY <1>0, <1>6, RefuseTypes DEF ReadRefused
  <1>7. CASE SelectPhase(h)
    <2> DEFINE c == [call[h] EXCEPT !.phase = Selected(h)]
    <2>1. Selected(h) \in Phases
      BY <1>0, <1>1, <1>7, SelectedType DEF SelectPhase, Selected
    <2>2. c \in Invocation /\ c.phase # None
      BY <1>0, <1>1, <1>7, <2>1, NoneAssumption DEF SelectPhase, Invocation
    <2>3. Moves(h, "own", c, mem[h], ending[h])
      BY <1>0, <1>7, <2>1, <2>2, Zenon DEF SelectPhase, Moves, env
    <2> HIDE DEF c
    <2> QED
      BY <1>0, <1>1, <1>7, <2>1, <2>2, <2>3, LocalTypes DEF SelectPhase, Attempting
  <1>8. CASE SelectNothing(h)
    <2>1. Moves(h, "finish", call[h], Finished(mem[h]), ending[h])
      BY <1>0, <1>8, Zenon DEF SelectNothing, Moves, env
    <2> QED
      BY <1>0, <1>1, FinishedType, <1>8, <2>1, LocalTypes DEF SelectNothing, Attempting
  <1>9. CASE SelectRefused(h)
    BY <1>0, <1>9, RefuseTypes DEF SelectRefused
  <1>10. CASE Finish(h)
    BY <1>0, <1>10, LeaveTypes DEF Finish, env
  <1>11. CASE FinishFails(h)
    BY <1>0, <1>11, RefuseTypes DEF FinishFails
  <1>12. CASE Prepare(h)
    <2>1. call[h].phase \in Phases /\ call[h].snap \in Versions
      BY <1>0, <1>1, <1>12 DEF Prepare, TypeInv, Placed, Invocation
    <2>2. /\ Claim(h) \in RunnerStates
          /\ Claim(h).active # None /\ Claim(h).active.id \in Attempts
      BY <1>0, <1>12, <2>1, PreparedType, NoneAssumption DEF Prepare, Claim
    <2>3. Moves(h, "artifacts", call[h], Claim(h), ending[h])
      BY <1>0, <1>12, <2>1, <2>2, Zenon DEF Prepare, Moves, env
    <2> QED
      BY <1>0, <1>1, <1>12, <2>1, <2>2, <2>3, LocalTypes DEF Prepare, Attempting
  <1>13. CASE PrepareFails(h)
    <2>1. Leave(h, 4, nextId, FALSE)
      BY <1>13, Zenon DEF PrepareFails
    <2>2. nextId' \in Nat
      BY <1>0, <1>13 DEF PrepareFails
    <2>3. UNCHANGED <<source, stable, disk, files, worker>>
      BY <1>13 DEF PrepareFails, env
    <2> QED
      BY <1>0, <2>1, <2>2, <2>3, LeaveTypes, Zenon
  <1>14. CASE OwnRefused(h)
    BY <1>0, <1>14, RefuseTypes DEF OwnRefused
  <1> QED
    BY <1>2, <1>3, <1>4, <1>5, <1>6, <1>7, <1>8, <1>9, <1>10, <1>11, <1>12,
       <1>13, <1>14 DEF Starting

LEMMA AttemptTypes ==
    ASSUME TypeInv, NEW h \in Handlers, Working(h) \/ Recording(h)
    PROVE  TypeInv'
  <1>0. /\ source \in Versions /\ disk \in RunnerStates
        /\ stable \in RunnerStates /\ worker \in [Attempts -> Worker]
        /\ files \in [Attempts -> OutcomeFile \union {None}]
        /\ lock \in Handlers \union {None} /\ signalled \subseteq Handlers
        /\ nextId \in Nat /\ mem[h] \in RunnerStates
        /\ ending[h] \in AttemptStatus \union {None, "error"}
        /\ call = [call EXCEPT ![h] = call[h]]
        /\ mem = [mem EXCEPT ![h] = mem[h]]
        /\ ending = [ending EXCEPT ![h] = ending[h]]
    BY DEF TypeInv, TypeOK
  <1>1. pc[h] \in Attempting
    BY DEF Working, Recording, Artifacts, Launch, LaunchFails, RecordProcess,
           SessionEnds, SessionFails, SessionSignalled, Cleanup,
           CleanupRaises, WriteOutcome, WriteOutcomeFails, CommitGoesOn,
           CommitLeaves, CommitFails, Attempting
  <1>2. /\ Mine(h) \in Attempts /\ mem[h].active # None
        /\ mem[h].active.id \in Attempts
        /\ mem[h].active.phase \in Phases
        /\ call[h] \in Invocation
    BY <1>1, MineType DEF TypeInv, TypeOK, Placed, Attempting
  <1>3. {"execution-io-failed", "interrupted", "launch-failed"}
           \subseteq AttemptStatus
    BY DEF AttemptStatus, StopReason, Failures
  <1>4. CASE Artifacts(h)
    <2>1. CASE Moves(h, "spawn", call[h], mem[h], ending[h])
      BY <1>0, <1>1, <1>2, <1>4, <2>1, LocalTypes DEF Artifacts, Attempting
    <2>2. ASSUME NEW e \in {"execution-io-failed", "interrupted"},
                 Moves(h, "outcome", call[h], mem[h], e)
          PROVE  TypeInv'
      BY <1>0, <1>1, <1>2, <1>3, <1>4, <2>2, LocalTypes
      DEF Artifacts, Attempting
    <2> QED
      BY <1>0, <1>4, <2>1, <2>2 DEF Artifacts, Moves, env
  <1>5. CASE Launch(h)
    <2>1. worker' \in [Attempts -> Worker]
      BY <1>0, <1>2, <1>5 DEF Launch, Worker, NoWorker
    <2>2. Moves(h, "record", call[h], mem[h], ending[h])
      BY <1>0, <1>5, <2>1, Zenon DEF Launch, Moves, env
    <2> QED
      BY <1>0, <1>1, <1>2, <1>5, <2>1, <2>2, LocalTypes DEF Launch, Attempting
  <1>6. CASE LaunchFails(h)
    <2>1. Moves(h, "cleanup", call[h], mem[h], "launch-failed")
      BY <1>0, <1>6, Zenon DEF LaunchFails, Moves, env
    <2> QED
      BY <1>0, <1>1, <1>2, <1>3, <1>6, <2>1, LocalTypes DEF LaunchFails, Attempting
  <1>7. CASE RecordProcess(h)
    <2>1. PICK process \in BOOLEAN :
            /\ mem' = [mem EXCEPT ![h] = Running(mem[h], process)]
            /\ disk' = Running(mem[h], process)
            /\ worker' = [worker EXCEPT ![Mine(h)].named = process]
      BY <1>7 DEF RecordProcess
    <2>2. worker' \in [Attempts -> Worker]
      BY <1>0, <1>2, <2>1 DEF Worker
    <2>3. /\ Running(mem[h], process) \in RunnerStates
          /\ Running(mem[h], process).active # None
          /\ Running(mem[h], process).active.id \in Attempts
      BY <1>0, <1>2, RunningType, NoneAssumption
    <2>4. Moves(h, "session", call[h], Running(mem[h], process), ending[h])
      BY <1>0, <1>7, <2>1, <2>2, <2>3, Zenon DEF RecordProcess, Moves, env
    <2> QED
      BY <1>0, <1>1, <1>2, <1>7, <2>1, <2>2, <2>3, <2>4, LocalTypes DEF RecordProcess, Attempting
  <1>8. CASE SessionEnds(h)
    <2>1. PICK r \in Results :
            /\ worker' = [worker EXCEPT ![Mine(h)].result = r]
            /\ ending' = [ending EXCEPT ![h] = StatusOf(r)]
      BY <1>8 DEF SessionEnds
    <2>2. r \in ProcessResult /\ StatusOf(r) \in AttemptStatus
      BY RunnerAssumption, StatusType
    <2>3. worker' \in [Attempts -> Worker]
      BY <1>0, <1>2, <2>1, <2>2 DEF Worker
    <2>4. Moves(h, "cleanup", call[h], mem[h], StatusOf(r))
      BY <1>0, <1>8, <2>1, <2>2, <2>3, Zenon DEF SessionEnds, Moves, env
    <2> QED
      BY <1>0, <1>1, <1>2, <1>8, <2>1, <2>2, <2>3, <2>4, LocalTypes DEF SessionEnds, Attempting
  <1>9. CASE SessionFails(h)
    <2>1. PICK e \in {"execution-io-failed", "error"} :
            ending' = [ending EXCEPT ![h] = e]
      BY <1>9 DEF SessionFails
    <2>2. Moves(h, "cleanup", call[h], mem[h], e)
      BY <1>0, <1>9, <2>1 DEF SessionFails, Moves, env
    <2> QED
      BY <1>0, <1>1, <1>2, <1>3, <1>9, <2>2, LocalTypes
      DEF SessionFails, Attempting
  <1>10. CASE SessionSignalled(h)
    <2>1. Moves(h, "cleanup", call[h], mem[h], "interrupted")
      BY <1>0, <1>10, Zenon DEF SessionSignalled, Moves, env
    <2> QED
      BY <1>0, <1>1, <1>2, <1>3, <1>10, <2>1, LocalTypes DEF SessionSignalled, Attempting
  <1>11. ASSUME GroupKilled(h)
         PROVE  worker' \in [Attempts -> Worker]
    BY <1>0, <1>2, <1>11 DEF GroupKilled, Worker
  <1>12. CASE Cleanup(h)
    <2> DEFINE e == IF h \in signalled THEN "interrupted" ELSE ending[h]
    <2>1. e \in AttemptStatus
      BY <1>3, <1>12 DEF Cleanup, TypeInv, Placed
    <2>2. Moves(h, "outcome", call[h], mem[h], e)
      BY <1>0, <1>12, <2>1, Zenon DEF Cleanup, Moves, env
    <2> QED
      BY <1>0, <1>1, <1>2, <1>11, <1>12, <2>1, <2>2, LocalTypes DEF Cleanup, Attempting
  <1>13. CASE CleanupRaises(h)
    <2>1. PICK exit \in {1, 5} : Leave(h, exit, None, FALSE)
      BY <1>13 DEF CleanupRaises
    <2>2. exit \in {0, 1, 2, 3, 4, 5, 130}
      OBVIOUS
    <2>3. UNCHANGED <<source, stable, disk, files, nextId>>
      BY <1>13 DEF CleanupRaises, env
    <2>4. worker' \in [Attempts -> Worker]
      BY <1>11, <1>13 DEF CleanupRaises
    <2>5. /\ source' \in Versions /\ disk' \in RunnerStates
          /\ stable' \in RunnerStates /\ nextId' \in Nat
          /\ files' \in [Attempts -> OutcomeFile \union {None}]
      BY <2>3 DEF TypeInv, TypeOK
    <2> QED
      BY <2>1, <2>2, <2>4, <2>5, LeaveTypes
  <1>14. ASSUME ending[h] \in AttemptStatus
         PROVE  /\ OutcomeWith(h, ending[h]) \in
                      [Attempts -> OutcomeFile \union {None}]
                /\ OutcomeWith(h, "torn") \in
                      [Attempts -> OutcomeFile \union {None}]
    BY <1>0, <1>2, <1>14 DEF OutcomeWith, OutcomeFile
  <1>15. CASE WriteOutcome(h)
    <2>1. ending[h] \in AttemptStatus
      BY <1>15 DEF WriteOutcome, TypeInv, Placed
    <2>2. Moves(h, "commit", call[h], mem[h], ending[h])
      BY <1>0, <1>15, <2>1, Zenon DEF WriteOutcome, Moves, env
    <2> QED
      BY <1>0, <1>1, <1>2, <1>14, <1>15, <2>1, <2>2, LocalTypes DEF WriteOutcome, Attempting
  <1>16. CASE WriteOutcomeFails(h)
    <2>1. ending[h] \in AttemptStatus
      BY <1>16 DEF WriteOutcomeFails, TypeInv, Placed
    <2> QED
      BY <1>0, <1>1, <1>14, <1>16, <2>1, UnrecordedTypes
      DEF WriteOutcomeFails, env
  <1>17. ASSUME pc[h] = "commit"
         PROVE  Updated(h) \in RunnerStates
    BY <1>0, <1>2, <1>17, ConcludeType DEF TypeInv, Placed, Updated
  <1>18. CASE CommitGoesOn(h)
    <2> DEFINE c == [call[h] EXCEPT !.ran = @ + 1, !.phase = None]
    <2>0. call[h].ran \in Nat /\ call[h].ran + 1 \in Nat
      BY <1>2 DEF Invocation
    <2>1. c \in Invocation
      BY <1>2, <2>0 DEF Invocation
    <2>2. Moves(h, "select", c, Updated(h), None)
      BY <1>0, <1>18, <2>1, Zenon DEF CommitGoesOn, Moves, env
    <2> QED
      BY <1>0, <1>1, <1>17, <1>18, <2>1, <2>2, LocalTypes DEF CommitGoesOn, Attempting
  <1>19. CASE CommitLeaves(h)
    <2> DEFINE exit == IF ending[h] = "interrupted" THEN 130
                       ELSE ExitOf(ending[h])
    <2>1. exit \in {0, 1, 2, 3, 4, 5, 130}
      BY DEF ExitOf
    <2>2. Leave(h, exit, None, FALSE)
      BY <1>19 DEF CommitLeaves
    <2>3. UNCHANGED <<source, stable, files, worker, nextId>>
      BY <1>19 DEF CommitLeaves, env
    <2>4. disk' \in RunnerStates
      BY <1>17, <1>19 DEF CommitLeaves
    <2> HIDE DEF exit
    <2> QED
      BY <1>0, <2>1, <2>2, <2>3, <2>4, LeaveTypes
  <1>20. CASE CommitFails(h)
    BY <1>0, <1>1, <1>20, UnrecordedTypes DEF CommitFails, env
  <1> QED
    BY <1>4, <1>5, <1>6, <1>7, <1>8, <1>9, <1>10, <1>12, <1>13, <1>15, <1>16,
       <1>18, <1>19, <1>20 DEF Working, Recording

LEMMA EnvironmentTypes ==
    ASSUME TypeInv,
           \/ \E h \in Handlers : Signal(h) \/ Terminate(h) \/ Crash(h)
           \/ EditPlan \/ WorkerExits \/ WriteBack \/ KernelStops
    PROVE  TypeInv'
  <1>0. /\ source \in Versions /\ disk \in RunnerStates
        /\ stable \in RunnerStates /\ worker \in [Attempts -> Worker]
        /\ files \in [Attempts -> OutcomeFile \union {None}]
        /\ nextId \in Nat
    BY DEF TypeInv, TypeOK
  <1>1. ASSUME NEW h \in Handlers, Signal(h)
        PROVE  TypeInv'
    BY <1>1 DEF Signal, Silent, TypeInv, TypeOK, Placed, Attempting, env
  <1>2. ASSUME NEW h \in Handlers, Abandon(h)
        PROVE  /\ files' \in [Attempts -> OutcomeFile \union {None}]
               /\ UNCHANGED <<source, stable, disk, worker, nextId>>
    <2>1. CASE UNCHANGED files
      BY <1>0, <1>2, <2>1 DEF Abandon, env
    <2>2. CASE pc[h] = "outcome" /\ files' = OutcomeWith(h, "torn")
      <3>1. Mine(h) \in Attempts /\ mem[h].active.phase \in Phases
        BY <2>2, MineType DEF Attempting
      <3>2. files' \in [Attempts -> OutcomeFile \union {None}]
        BY <1>0, <2>2, <3>1 DEF OutcomeWith, OutcomeFile
      <3> QED
        BY <1>2, <3>2 DEF Abandon, env
    <2> QED
      BY <1>2, <2>1, <2>2 DEF Abandon
  <1>3. ASSUME NEW h \in Handlers, Terminate(h)
        PROVE  TypeInv'
    <2>1. Abandon(h) /\ Leave(h, 130, None, FALSE)
      BY <1>3 DEF Terminate
    <2>2. /\ source' \in Versions /\ disk' \in RunnerStates
          /\ stable' \in RunnerStates
          /\ files' \in [Attempts -> OutcomeFile \union {None}]
          /\ worker' \in [Attempts -> Worker] /\ nextId' \in Nat
      BY <1>0, <1>2, <2>1
    <2>3. /\ 130 \in {0, 2, 3, 4, 5, 130} /\ None \in Nat \union {None}
          /\ FALSE \in BOOLEAN
      OBVIOUS
    <2> QED
      BY <2>1, <2>2, <2>3, LeaveTypes, Zenon
  <1>4. ASSUME NEW h \in Handlers, Crash(h)
        PROVE  TypeInv'
    BY <1>0, <1>2, <1>4, VanishTypes DEF Crash, Silent, TypeInv, TypeOK
  <1>5. CASE EditPlan
    BY <1>5 DEF EditPlan, Silent, TypeInv, TypeOK, Placed, Attempting
  <1>6. CASE WorkerExits
    <2>1. worker' \in [Attempts -> Worker]
      BY <1>0, <1>6 DEF WorkerExits, Worker
    <2> QED
      BY <1>6, <2>1
      DEF WorkerExits, Silent, TypeInv, TypeOK, Placed, Attempting, env
  <1>7. CASE WriteBack
    BY <1>7 DEF WriteBack, Silent, TypeInv, TypeOK, Placed, Attempting
  <1>8. CASE KernelStops
    <2>1. worker' \in [Attempts -> Worker]
      <3>1. \A a \in Attempts : worker'[a] \in Worker
        BY <1>0, <1>8, ZenonT(40) DEF KernelStops, Worker
      <3> QED
        BY <1>8, <3>1 DEF KernelStops
    <2>2. files' \in [Attempts -> OutcomeFile \union {None}]
      BY <1>0, <1>8 DEF KernelStops, Salvaged
    <2>4. TypeOK'
      BY <1>0, <1>8, <2>1, <2>2, EmptyType
      DEF KernelStops, Silent, TypeInv, TypeOK, env
    <2>3. \A h \in Handlers : Placed(h)'
      BY <1>8 DEF KernelStops, Placed, Attempting
    <2> QED
      BY <2>3, <2>4 DEF TypeInv
  <1> QED
    BY <1>1, <1>3, <1>4, <1>5, <1>6, <1>7, <1>8

LEMMA TypeInvInductive == TypeInv /\ [Next]_vars => TypeInv'
  <1> SUFFICES ASSUME TypeInv, [Next]_vars
               PROVE  TypeInv'
    OBVIOUS
  <1>1. CASE Next
    BY <1>1, StartingTypes, AttemptTypes, EnvironmentTypes
    DEF Next, HandlerStep
  <1>2. CASE UNCHANGED vars
    BY <1>2 DEF vars, TypeInv, TypeOK, Placed, Attempting, Mine
  <1> QED
    BY <1>1, <1>2

LEMMA InitTypes == Init => TypeInv
  BY EmptyType DEF Init, TypeInv, TypeOK, Placed, Attempting, Worker, NoWorker

LEMMA TypeInvCorrect == Spec => []TypeInv
  BY InitTypes, TypeInvInductive, PTL DEF Spec

\* Every variable keeps its type: in particular no step of run_phases acts on
\* an attempt, a phase or a terminal status it does not have.
THEOREM TypeCorrect == Spec => []TypeOK
  <1>1. TypeInv => TypeOK
    BY DEF TypeInv
  <1> QED
    BY <1>1, TypeInvCorrect, PTL

-----------------------------------------------------------------------------
(* The state carried under the plan lock is the state on disk, and valid *)

Inside(h) == pc[h] \notin {"idle", "lock"}

\* What an invocation may rely on at each step.
Holds(h) ==
    /\ Inside(h) <=> lock = h
    /\ pc[h] \in {"select", "own"} => mem[h] = AcceptPlan(disk, call[h].snap)
    /\ pc[h] = "own" => call[h].phase \notin Range(disk.completed)
    /\ pc[h] = "finish" =>
          /\ mem[h] = Finished(AcceptPlan(disk, call[h].snap))
          /\ ~NeedsRetry(disk)
    /\ pc[h] \in Attempting =>
          /\ mem[h] = disk
          /\ disk.active # None
          /\ disk.plan = call[h].snap

StateInv ==
    /\ Sound(disk, nextId)
    /\ Sound(stable, nextId)
    /\ \A h \in Handlers : Holds(h)

LEMMA OthersOutside ==
    ASSUME StateInv, NEW h \in Handlers, Inside(h)
    PROVE  lock = h /\ \A g \in Handlers \ {h} : ~Inside(g)
  BY DEF StateInv, Holds

\* A step of the owner: only its own conditions and the files matter.
LEMMA OwnerStep ==
    ASSUME StateInv, NEW h \in Handlers, Inside(h),
           \A g \in Handlers \ {h} : pc'[g] = pc[g],
           lock' \in {h, None},
           Sound(disk', nextId'), Sound(stable', nextId'), Holds(h)'
    PROVE  StateInv'
  <1>1. \A g \in Handlers \ {h} : ~Inside(g) /\ None # g
    BY OthersOutside, RunnerAssumption
  <1>2. \A g \in Handlers \ {h} : Holds(g)'
    BY <1>1 DEF Holds, Inside, Attempting
  <1> QED
    BY <1>2 DEF StateInv

LEMMA VanishStep ==
    ASSUME TypeInv, StateInv, NEW h \in Handlers, Inside(h), Vanish(h),
           Sound(disk', nextId'), Sound(stable', nextId')
    PROVE  StateInv'
  <1>1. /\ pc'[h] = "idle" /\ lock' = None
        /\ \A g \in Handlers \ {h} : pc'[g] = pc[g]
    BY OthersOutside DEF Vanish, Goto, TypeInv, TypeOK
  <1>2. Holds(h)'
    BY <1>1, RunnerAssumption DEF Holds, Inside, Attempting
  <1> QED
    BY <1>1, <1>2, OwnerStep

\* A step outside the lock that changes no file.
LEMMA OutsideStep ==
    ASSUME TypeInv, StateInv, NEW h \in Handlers, ~Inside(h),
           pc'[h] \in {"idle", "lock"}, lock' = lock,
           \A g \in Handlers \ {h} :
              pc'[g] = pc[g] /\ mem'[g] = mem[g] /\ call'[g] = call[g],
           UNCHANGED <<disk, stable, nextId>>
    PROVE  StateInv'
  <1>1. \A g \in Handlers \ {h} : Holds(g)'
    BY DEF StateInv, Holds, Inside, Attempting
  <1>2. Holds(h)'
    BY DEF StateInv, Holds, Inside, Attempting
  <1> QED
    BY <1>1, <1>2 DEF StateInv

LEMMA SelectedIncomplete ==
    ASSUME NEW s \in RunnerStates, NEW v \in Versions, NEW n,
           Sound(s, n)
    PROVE  LET p == SelectNextPhase(AcceptPlan(s, v), v)
           IN  /\ p # None => p \notin Range(s.completed)
               /\ p = None => ~NeedsRetry(s)
  <1> DEFINE t == AcceptPlan(s, v)
             p == SelectNextPhase(t, v)
  <1>1. /\ t \in RunnerStates /\ t.completed = s.completed
        /\ t.active = s.active /\ t.stop = s.stop
    BY DEF AcceptPlan, RunnerStates
  <1>2. NeedsRetry(t) <=> NeedsRetry(s)
    BY <1>1 DEF NeedsRetry
  <1> HIDE DEF t
  <1>3. CASE NeedsRetry(s)
    <2>1. p = RecoveryPhase(t) /\ p \in Phases
      BY <1>1, <1>2, <1>3
      DEF SelectNextPhase, RecoveryPhase, NeedsRetry, RunnerStates,
          ActiveAttempt, StopState
    <2>2. p \notin Range(s.completed)
      BY <1>1, <1>3, <2>1
      DEF RecoveryPhase, NeedsRetry, Sound, ValidState, ValidActive, ValidStop
    <2> QED
      BY <2>1, <2>2, NoneAssumption DEF t
  <1>4. CASE ~NeedsRetry(s)
    <2>1. CASE Incomplete(t, v) # {}
      <3>1. Incomplete(t, v) \in SUBSET Nat
        BY PlanAssumption DEF Incomplete
      <3>2. \E i \in Incomplete(t, v) : \A j \in Incomplete(t, v) : i <= j
        BY <2>1, <3>1, Least
      <3>3. PICK i \in Incomplete(t, v) : p = PhasesOf[v][i]
        BY <1>2, <1>4, <2>1, <3>2 DEF SelectNextPhase
      <3> QED
        BY <1>1, <1>4, <3>3 DEF Incomplete, t
    <2>2. CASE Incomplete(t, v) = {}
      BY <1>2, <1>4, <2>2 DEF SelectNextPhase, t
    <2> QED
      BY <2>1, <2>2
  <1> QED
    BY <1>3, <1>4 DEF t

LEMMA StartingState ==
    ASSUME TypeInv, StateInv, NEW h \in Handlers, Invoke(h) \/ Starting(h)
    PROVE  StateInv'
  <1>0. /\ disk \in RunnerStates /\ stable \in RunnerStates
        /\ nextId \in Nat /\ mem[h] \in RunnerStates /\ Holds(h)
        /\ Sound(disk, nextId) /\ Sound(stable, nextId)
        /\ pc \in [Handlers -> {"idle", "lock", "read", "select", "finish",
                                "own", "artifacts", "spawn", "record",
                                "session", "cleanup", "outcome", "commit"}]
        /\ mem \in [Handlers -> RunnerStates]
        /\ call \in [Handlers -> Invocation \union {None}]
    BY DEF TypeInv, TypeOK, StateInv
  <1>1. pc[h] # "idle" => call[h] \in Invocation /\ call[h].snap \in Versions
    BY DEF TypeInv, TypeOK, Placed, Invocation
  <1>2. CASE Invoke(h)
    BY <1>0, <1>2, OutsideStep DEF Invoke, Goto, Inside, env
  <1>3. CASE AcquirePlanLock(h)
    <2>1. \A g \in Handlers \ {h} : ~Inside(g) /\ Holds(g)'
      BY <1>0, <1>3, RunnerAssumption
      DEF AcquirePlanLock, StateInv, Holds, Inside, Goto, Attempting
    <2>2. Holds(h)'
      BY <1>0, <1>3 DEF AcquirePlanLock, Goto, Holds, Inside, Attempting
    <2> QED
      BY <1>3, <2>1, <2>2 DEF AcquirePlanLock, StateInv, env
  <1>4. CASE PlanLockContention(h)
    <2>1. lock # h
      BY <1>0, <1>4 DEF PlanLockContention, Holds, Inside
    <2> QED
      BY <1>0, <1>4, <2>1, OutsideStep
      DEF PlanLockContention, Refuse, Leave, Vanish, Goto, Inside, env
  <1>5. ASSUME Inside(h), Refuse(h), UNCHANGED <<env, disk, nextId>>
        PROVE  StateInv'
    BY <1>0, <1>5, VanishStep DEF Refuse, Leave, env
  <1>6. ASSUME Inside(h), Goto(h, "select") \/ Goto(h, "own")
                            \/ Goto(h, "finish"),
               UNCHANGED <<env, disk, lock, nextId>>, Holds(h)'
        PROVE  StateInv'
    BY <1>0, <1>6, OwnerStep, OthersOutside DEF Goto, env
  <1>7. CASE ReadState(h)
    <2>1. Holds(h)'
      BY <1>0, <1>7 DEF ReadState, Goto, Holds, Inside, Attempting
    <2> QED
      BY <1>6, <1>7, <2>1 DEF ReadState, Inside
  <1>8. CASE ReadRefused(h)
    BY <1>5, <1>8 DEF ReadRefused, Inside
  <1>9. ASSUME pc[h] = "select"
        PROVE  /\ mem[h] = AcceptPlan(disk, call[h].snap)
               /\ Selected(h) # None => Selected(h) \notin Range(disk.completed)
               /\ Selected(h) = None => ~NeedsRetry(disk)
    BY <1>0, <1>1, <1>9, SelectedIncomplete DEF Selected, Holds
  <1>10. CASE SelectPhase(h)
    <2>1. call'[h].phase = Selected(h) /\ call'[h].snap = call[h].snap
      BY <1>0, <1>1, <1>10 DEF SelectPhase, Invocation
    <2>2. Holds(h)'
      BY <1>0, <1>9, <1>10, <2>1
      DEF SelectPhase, Goto, Holds, Inside, Attempting
    <2> QED
      BY <1>6, <1>10, <2>2 DEF SelectPhase, Inside
  <1>11. CASE SelectNothing(h)
    <2>1. Holds(h)'
      BY <1>0, <1>9, <1>11 DEF SelectNothing, Goto, Holds, Inside, Attempting
    <2> QED
      BY <1>6, <1>11, <2>1 DEF SelectNothing, Inside
  <1>12. CASE SelectRefused(h)
    BY <1>5, <1>12 DEF SelectRefused, Inside
  <1>13. CASE Finish(h)
    <2>1. Sound(disk', nextId')
      BY <1>0, <1>1, <1>13, FinishedSound DEF Finish, Holds
    <2> QED
      BY <1>0, <1>13, <2>1, VanishStep DEF Finish, Leave, Inside, env
  <1>14. CASE FinishFails(h)
    BY <1>5, <1>14 DEF FinishFails, Inside
  <1>15. ASSUME pc[h] = "own"
         PROVE  /\ Sound(Claim(h), nextId + 1)
                /\ Sound(disk, nextId + 1) /\ Sound(stable, nextId + 1)
                /\ Claim(h).active # None /\ Claim(h).plan = call[h].snap
    <2>1. /\ call[h].phase \in Phases /\ call[h].snap \in Versions
          /\ mem[h] = AcceptPlan(disk, call[h].snap)
          /\ call[h].phase \notin Range(disk.completed)
      BY <1>0, <1>1, <1>15 DEF TypeInv, Placed, Invocation, Holds
    <2>2. Sound(Claim(h), nextId + 1)
      BY <1>0, <2>1, ClaimSound DEF Claim
    <2>3. Sound(disk, nextId + 1) /\ Sound(stable, nextId + 1)
      BY <1>0, SoundLater
    <2>4. Claim(h).active # None
      BY <1>0, <2>1, PreparedType, NoneAssumption DEF Claim
    <2>5. Claim(h).plan = call[h].snap
      BY <1>0, <2>1, ResolveType
      DEF Claim, Prepared, ResolveAbandoned, AcceptPlan, RunnerStates
    <2> QED
      BY <2>2, <2>3, <2>4, <2>5
  <1>16. CASE Prepare(h)
    <2>1. Holds(h)'
      BY <1>0, <1>15, <1>16 DEF Prepare, Goto, Holds, Inside, Attempting
    <2> QED
      BY <1>0, <1>15, <1>16, <2>1, OwnerStep, OthersOutside
      DEF Prepare, Goto, Inside, env
  <1>17. CASE PrepareFails(h)
    BY <1>15, <1>17, VanishStep DEF PrepareFails, Leave, Inside, env
  <1>18. CASE OwnRefused(h)
    BY <1>5, <1>18 DEF OwnRefused, Inside
  <1> QED
    BY <1>2, <1>3, <1>4, <1>7, <1>8, <1>10, <1>11, <1>12, <1>13, <1>14,
       <1>16, <1>17, <1>18 DEF Starting

LEMMA AttemptState ==
    ASSUME TypeInv, StateInv, NEW h \in Handlers, Working(h) \/ Recording(h)
    PROVE  StateInv'
  <1>0. /\ disk \in RunnerStates /\ stable \in RunnerStates /\ nextId \in Nat
        /\ Holds(h) /\ Sound(disk, nextId) /\ Sound(stable, nextId)
        /\ pc \in [Handlers -> {"idle", "lock", "read", "select", "finish",
                                "own", "artifacts", "spawn", "record",
                                "session", "cleanup", "outcome", "commit"}]
        /\ mem \in [Handlers -> RunnerStates]
        /\ call \in [Handlers -> Invocation \union {None}]
    BY DEF TypeInv, TypeOK, StateInv
  <1>1. pc[h] \in Attempting
    BY DEF Working, Recording, Artifacts, Launch, LaunchFails, RecordProcess,
           SessionEnds, SessionFails, SessionSignalled, Cleanup,
           CleanupRaises, WriteOutcome, WriteOutcomeFails, CommitGoesOn,
           CommitLeaves, CommitFails, Attempting
  <1>2. /\ mem[h] = disk /\ disk.active # None /\ disk.plan = call[h].snap
        /\ call[h] \in Invocation /\ Inside(h) /\ lock = h
    BY <1>0, <1>1 DEF Holds, Inside, Attempting, TypeInv, TypeOK, Placed
  \* Most steps of an attempt write neither the state nor its copy.
  <1>3. ASSUME UNCHANGED <<env, disk, lock, call, mem, nextId>>,
               NEW label \in Attempting, Goto(h, label)
        PROVE  StateInv'
    <2>1. Holds(h)'
      BY <1>0, <1>2, <1>3 DEF Goto, Holds, Inside, Attempting
    <2> QED
      BY <1>0, <1>2, <1>3, <2>1, OwnerStep DEF Goto, env
  <1>4. CASE Artifacts(h)
    <2>1. PICK label \in {"spawn", "outcome"} : Goto(h, label)
      BY <1>4 DEF Artifacts
    <2> QED
      BY <1>3, <1>4, <2>1 DEF Artifacts, Attempting
  <1>5. CASE Launch(h)
    BY <1>3, <1>5 DEF Launch, Attempting
  <1>6. CASE LaunchFails(h)
    BY <1>3, <1>6 DEF LaunchFails, Attempting
  <1>7. CASE RecordProcess(h)
    <2>1. PICK process \in BOOLEAN :
            /\ mem' = [mem EXCEPT ![h] = Running(mem[h], process)]
            /\ disk' = Running(mem[h], process)
      BY <1>7 DEF RecordProcess
    <2>2. /\ mem'[h] = disk' /\ Sound(disk', nextId)
          /\ disk' = Running(disk, process)
      BY <1>0, <1>2, <2>1, RunningSound
    <2>3. disk'.active # None /\ disk'.plan = disk.plan
      <3>1. Running(disk, process).active \in ActiveAttempt
        BY <1>0, <1>2, RunningType
      <3> DEFINE new == [disk.active EXCEPT !.status = "running",
                                            !.process = process]
      <3>2. Running(disk, process).plan = disk.plan
        <4>1. Running(disk, process) = [disk EXCEPT !.active = new]
          BY <1>0, RunningIs
        <4> HIDE DEF new
        <4> QED
          BY <1>0, <4>1 DEF RunnerStates
      <3>3. Running(disk, process).active # None
        BY <3>1, NoneAssumption
      <3>4. disk' = Running(disk, process)
        BY <2>2
      <3> QED
        BY <3>2, <3>3, <3>4, Zenon
    <2>4. Goto(h, "session") /\ UNCHANGED <<env, lock, call, nextId>>
      BY <1>7 DEF RecordProcess
    <2>5. Holds(h)'
      BY <1>0, <1>2, <2>2, <2>3, <2>4 DEF Goto, Holds, Inside, Attempting
    <2> QED
      BY <1>0, <1>2, <2>2, <2>4, <2>5, OwnerStep DEF Goto, env
  <1>8. CASE SessionEnds(h)
    BY <1>3, <1>8 DEF SessionEnds, Attempting
  <1>9. CASE SessionFails(h)
    BY <1>3, <1>9 DEF SessionFails, Attempting
  <1>10. CASE SessionSignalled(h)
    BY <1>3, <1>10 DEF SessionSignalled, Attempting
  <1>11. CASE Cleanup(h)
    BY <1>3, <1>11 DEF Cleanup, Attempting
  <1>12. CASE CleanupRaises(h)
    BY <1>0, <1>2, <1>12, VanishStep DEF CleanupRaises, Refuse, Leave, env
  <1>13. CASE WriteOutcome(h)
    BY <1>3, <1>13 DEF WriteOutcome, Attempting
  <1>14. ASSUME Unrecorded(h), UNCHANGED <<env, disk, nextId>>
         PROVE  StateInv'
    BY <1>0, <1>2, <1>14, VanishStep DEF Unrecorded, Leave, env
  <1>15. CASE WriteOutcomeFails(h)
    BY <1>14, <1>15 DEF WriteOutcomeFails
  <1>16. ASSUME pc[h] = "commit"
         PROVE  /\ Updated(h) \in RunnerStates /\ Sound(Updated(h), nextId)
                /\ Updated(h).plan = call[h].snap
                /\ AcceptPlan(Updated(h), call[h].snap) = Updated(h)
    <2>1. ending[h] \in AttemptStatus
      BY <1>16 DEF TypeInv, Placed
    <2>2. /\ Updated(h) \in RunnerStates /\ Sound(Updated(h), nextId)
          /\ Updated(h).plan = call[h].snap
      BY <1>0, <1>2, <2>1, ConcludeType, ConcludeSound DEF Updated
    <2> QED
      BY <2>2 DEF AcceptPlan, RunnerStates
  <1>17. CASE CommitGoesOn(h)
    <2>1. /\ Goto(h, "select") /\ UNCHANGED <<env, lock, nextId>>
          /\ disk' = Updated(h) /\ mem'[h] = Updated(h)
          /\ call'[h].snap = call[h].snap
      BY <1>0, <1>2, <1>17 DEF CommitGoesOn, Invocation
    <2>2. Holds(h)'
      BY <1>0, <1>2, <1>16, <1>17, <2>1
      DEF CommitGoesOn, Goto, Holds, Inside, Attempting
    <2> QED
      BY <1>0, <1>2, <1>16, <1>17, <2>1, <2>2, OwnerStep
      DEF CommitGoesOn, Goto, env
  <1>18. CASE CommitLeaves(h)
    <2>1. Vanish(h) /\ UNCHANGED <<stable, nextId>> /\ disk' = Updated(h)
      BY <1>18 DEF CommitLeaves, Leave, env
    <2> QED
      BY <1>0, <1>2, <1>16, <1>18, <2>1, VanishStep DEF CommitLeaves
  <1>19. CASE CommitFails(h)
    BY <1>14, <1>19 DEF CommitFails
  <1> QED
    BY <1>4, <1>5, <1>6, <1>7, <1>8, <1>9, <1>10, <1>11, <1>12, <1>13, <1>15,
       <1>17, <1>18, <1>19 DEF Working, Recording

LEMMA EnvironmentState ==
    ASSUME TypeInv, StateInv,
           \/ \E h \in Handlers : Signal(h) \/ Terminate(h) \/ Crash(h)
           \/ EditPlan \/ WorkerExits \/ WriteBack \/ KernelStops
    PROVE  StateInv'
  <1>0. Sound(disk, nextId) /\ Sound(stable, nextId)
    BY DEF StateInv
  <1>1. ASSUME UNCHANGED <<disk, lock, pc, call, mem, nextId>>,
               stable' \in {stable, disk}
        PROVE  StateInv'
    BY <1>0, <1>1 DEF StateInv, Holds, Inside, Attempting
  <1>2. ASSUME NEW h \in Handlers, Signal(h)
        PROVE  StateInv'
    BY <1>1, <1>2 DEF Signal, env
  \* A handler that dies holds the lock, or has touched nothing.
  <1>3. ASSUME NEW h \in Handlers, Vanish(h),
               UNCHANGED <<disk, stable, nextId>>
        PROVE  StateInv'
    <2>1. CASE Inside(h)
      BY <1>0, <1>3, <2>1, VanishStep
    <2>2. CASE ~Inside(h)
      <3>1. lock # h
        BY <2>2 DEF StateInv, Holds
      <3> QED
        BY <1>3, <2>2, <3>1, OutsideStep DEF Vanish, Goto, TypeInv, TypeOK
    <2> QED
      BY <2>1, <2>2
  <1>4. ASSUME NEW h \in Handlers, Terminate(h)
        PROVE  StateInv'
    BY <1>3, <1>4 DEF Terminate, Abandon, Leave, env
  <1>5. ASSUME NEW h \in Handlers, Crash(h)
        PROVE  StateInv'
    BY <1>3, <1>5 DEF Crash, Abandon, env
  <1>6. CASE EditPlan
    BY <1>1, <1>6 DEF EditPlan
  <1>7. CASE WorkerExits
    BY <1>1, <1>7 DEF WorkerExits, env
  <1>8. CASE WriteBack
    BY <1>1, <1>8 DEF WriteBack
  <1>9. CASE KernelStops
    BY <1>0, <1>9, RunnerAssumption
    DEF KernelStops, env, StateInv, Holds, Inside, Attempting
  <1> QED
    BY <1>2, <1>4, <1>5, <1>6, <1>7, <1>8, <1>9

LEMMA StateInvInductive ==
    TypeInv /\ StateInv /\ [Next]_vars => StateInv'
  <1> SUFFICES ASSUME TypeInv, StateInv, [Next]_vars
               PROVE  StateInv'
    OBVIOUS
  <1>1. CASE Next
    BY <1>1, StartingState, AttemptState, EnvironmentState
    DEF Next, HandlerStep
  <1>2. CASE UNCHANGED vars
    BY <1>2 DEF vars, env, StateInv, Holds, Inside, Attempting
  <1> QED
    BY <1>1, <1>2

LEMMA InitState == Init => StateInv
  BY EmptySound, RunnerAssumption
  DEF Init, StateInv, Holds, Inside, Attempting

LEMMA StateInvCorrect == Spec => [](TypeInv /\ StateInv)
  <1>1. Init => TypeInv /\ StateInv
    BY InitTypes, InitState
  <1>2. TypeInv /\ StateInv /\ [Next]_vars => (TypeInv /\ StateInv)'
    BY TypeInvInductive, StateInvInductive
  <1> QED
    BY <1>1, <1>2, PTL DEF Spec

\* At most one invocation is past the plan lock, whatever the number of
\* handlers: _own_directory's flock is released by every way out, death
\* included.
THEOREM OwnerCorrect == Spec => []ExclusiveOwner
  <1>1. StateInv => ExclusiveOwner
    BY DEF StateInv, Holds, Inside, ExclusiveOwner
  <1> QED
    BY <1>1, StateInvCorrect, PTL

\* The copy of the state an invocation works on is the one on disk: no
\* write_state loses what another invocation wrote, even when an operator
\* edits the plan or the kernel stops.
THEOREM MemoryCorrect == Spec => []MemoryIsCurrent
  <1>1. StateInv => MemoryIsCurrent
    BY DEF StateInv, Holds, MemoryIsCurrent
  <1> QED
    BY <1>1, StateInvCorrect, PTL

\* No write_state is given a state _validate_state rejects, and no read_state
\* meets one, for any plan, any edits and any interleaving.
THEOREM WritesCorrect == Spec => []WritesAreValid
  <1>1. ASSUME TypeInv, StateInv
        PROVE  WritesAreValid
    <2> SUFFICES ASSUME NEW h \in Handlers
                 PROVE  /\ pc[h] = "finish" => ValidState(mem[h])
                        /\ pc[h] = "own" => ValidState(Claim(h))
                        /\ pc[h] = "record" =>
                              \A process \in BOOLEAN :
                                  ValidState(Running(mem[h], process))
                        /\ pc[h] = "commit" => ValidState(Updated(h))
      BY <1>1 DEF WritesAreValid, StateInv, Sound
    <2>1. /\ disk \in RunnerStates /\ nextId \in Nat /\ Holds(h)
          /\ Sound(disk, nextId)
      BY <1>1 DEF TypeInv, TypeOK, StateInv
    <2>2. pc[h] # "idle" => call[h] \in Invocation /\ call[h].snap \in Versions
      BY <1>1 DEF TypeInv, TypeOK, Placed, Invocation
    <2>3. CASE pc[h] = "finish"
      BY <2>1, <2>2, <2>3, FinishedSound DEF Holds, Sound
    <2>4. CASE pc[h] = "own"
      <3>1. call[h].phase \in Phases
        BY <1>1, <2>2, <2>4 DEF TypeInv, Placed, Invocation
      <3> QED
        BY <2>1, <2>2, <2>4, <3>1, ClaimSound DEF Claim, Holds, Sound
    <2>5. CASE pc[h] = "record"
      BY <2>1, <2>5, RunningSound DEF Holds, Attempting, Sound
    <2>6. CASE pc[h] = "commit"
      <3>1. ending[h] \in AttemptStatus
        BY <1>1, <2>6 DEF TypeInv, Placed
      <3> QED
        BY <2>1, <2>6, <3>1, ConcludeSound
        DEF Updated, Holds, Attempting, Sound
    <2> QED
      BY <2>3, <2>4, <2>5, <2>6
  <1>2. TypeInv /\ StateInv => WritesAreValid
    BY <1>1
  <1> QED
    BY <1>2, StateInvCorrect, PTL
-----------------------------------------------------------------------------
(***************************************************************************)
(* Theorems about the attempts of PlanRunner, kernel stops included.       *)
(*                                                                         *)
(* First, what it believes of its workers: outcomes are backed by files,   *)
(* completions by workers that succeeded, and no process outlives its      *)
(* recorded result.                                                        *)
(*                                                                         *)
(* Then which workers it launches, and when: none beside one it could      *)
(* identify, none again for work already launched unless the operator      *)
(* asks, and no result reported that state.json does not hold; that        *)
(* state.json, while the kernel keeps running, implements AttemptLedger,   *)
(* and what only a retry takes up.                                         *)
(***************************************************************************)

Over(a) == worker[a].live \in {"none", "gone"}

\* The worker of attempt a ended by completing phase p.
Succeeded(a, p) ==
    /\ worker[a].phase = p
    /\ worker[a].result # None /\ Success(worker[a].result)

\* What a linked outcome stands for.
Recorded(o) ==
    /\ o.attempt \in Attempts
    /\ files[o.attempt] = [phase |-> o.phase, status |-> o.status]
    /\ Over(o.attempt)
    /\ o.status = "phase-complete" => Succeeded(o.attempt, o.phase)

\* Every completed phase of s has an outcome.
Earned(s) ==
    \A p \in Range(s.completed) :
        \E o \in Range(s.outcomes) : o.phase = p /\ o.status = "phase-complete"

\* How far the attempt under way has come.
Progress(h) ==
    LET a == disk.active.id
        p == disk.active.phase
    IN  /\ pc[h] \in {"artifacts", "spawn"} => worker[a].live = "none"
        /\ pc[h] \in {"record", "session"} => worker[a].phase = p
        /\ pc[h] \in {"outcome", "commit"} => Over(a)
        /\ pc[h] \in {"cleanup", "outcome", "commit"}
              /\ ending[h] = "phase-complete" => Succeeded(a, p)
        /\ pc[h] = "commit" => files[a] = [phase |-> p, status |-> ending[h]]

\* A kernel stop takes outcomes away, but adds none: what backs those on disk
\* backs those it would leave.
OutcomeInv ==
    /\ \A a \in Attempts : a >= nextId => worker[a].live = "none"
    /\ Range(stable.outcomes) \subseteq Range(disk.outcomes)
    /\ \A o \in Range(disk.outcomes) : Recorded(o)
    /\ Earned(disk) /\ Earned(stable)
    /\ \A h \in Handlers : Progress(h)
-----------------------------------------------------------------------------
(* What the transitions of the state do to outcomes and completed phases *)

\* The outcome that concluding the active attempt links.
Link(s, status) ==
    [attempt |-> s.active.id, phase |-> s.active.phase, status |-> status]

LEMMA ConcludeLinks ==
    ASSUME NEW s \in RunnerStates, s.active # None,
           NEW status \in AttemptStatus
    PROVE  /\ Range(Conclude(s, status).outcomes) =
                 Range(s.outcomes) \union {Link(s, status)}
           /\ Range(Conclude(s, status).completed) =
                 Range(s.completed) \union
                   (IF status = "phase-complete" THEN {s.active.phase} ELSE {})
  <1> DEFINE p == s.active.phase
             t == Conclude(s, status)
  <1>1. /\ s.active \in ActiveAttempt /\ p \in Phases
        /\ s.completed \in Seq(Phases) /\ s.outcomes \in Seq(OutcomeRef)
    BY DEF RunnerStates, ActiveAttempt
  <1>2. Link(s, status) \in OutcomeRef
    BY <1>1 DEF Link, ActiveAttempt, OutcomeRef
  <1>3. /\ t.outcomes = Append(s.outcomes, Link(s, status))
        /\ t.completed = IF status = "phase-complete" /\ p \notin Range(s.completed)
                         THEN Append(s.completed, p) ELSE s.completed
    BY DEF Conclude, Link, RunnerStates
  <1> HIDE DEF t
  <1>4. Range(t.outcomes) = Range(s.outcomes) \union {Link(s, status)}
    BY <1>1, <1>2, <1>3, RangeAppended
  <1>5. Range(t.completed) = Range(s.completed) \union
                   (IF status = "phase-complete" THEN {p} ELSE {})
    BY <1>1, <1>3, RangeAppended
  <1> QED
    BY <1>4, <1>5 DEF t

\* Every other transition keeps both.
LEMMA RunningKeeps ==
    ASSUME NEW s \in RunnerStates, NEW b \in BOOLEAN, s.active # None
    PROVE  /\ Running(s, b).outcomes = s.outcomes
           /\ Running(s, b).completed = s.completed
           /\ Running(s, b).active.id = s.active.id
           /\ Running(s, b).active.phase = s.active.phase
           /\ Running(s, b).active.process = b
  <1> DEFINE new == [s.active EXCEPT !.status = "running", !.process = b]
  <1>1. /\ new.id = s.active.id /\ new.phase = s.active.phase
        /\ new.process = b
    BY DEF RunnerStates, ActiveAttempt
  <1>2. Running(s, b) = [s EXCEPT !.active = new]
    BY RunningIs
  <1> HIDE DEF new
  <1> QED
    BY <1>1, <1>2 DEF RunnerStates

LEMMA OthersLinkNothing ==
    ASSUME NEW s \in RunnerStates, NEW v \in Versions, NEW p \in Phases,
           NEW n \in Nat
    PROVE  LET a == AcceptPlan(s, v) IN
           /\ Finished(a).outcomes = s.outcomes
           /\ Finished(a).completed = s.completed
           /\ Prepared(a, n, p, v).outcomes = s.outcomes
           /\ Prepared(a, n, p, v).completed = s.completed
  <1> DEFINE a == AcceptPlan(s, v)
             r == ResolveAbandoned(a)
  <1>1. a \in RunnerStates /\ a.outcomes = s.outcomes /\ a.completed = s.completed
    BY DEF AcceptPlan, RunnerStates
  <1> HIDE DEF a
  <1>2. r \in RunnerStates /\ r.outcomes = s.outcomes /\ r.completed = s.completed
    BY <1>1, ResolveType DEF ResolveAbandoned, RunnerStates
  <1> HIDE DEF r
  <1>3. /\ Finished(a).outcomes = s.outcomes /\ Finished(a).completed = s.completed
    BY <1>1 DEF Finished, RunnerStates
  <1>4. /\ Prepared(a, n, p, v).outcomes = s.outcomes
        /\ Prepared(a, n, p, v).completed = s.completed
    BY <1>2 DEF Prepared, r, RunnerStates
  <1> QED
    BY <1>3, <1>4 DEF a

LEMMA SuccessOf ==
    ASSUME NEW r \in ProcessResult, StatusOf(r) = "phase-complete"
    PROVE  Success(r)
  <1>1. CASE r.stop # None
    BY <1>1 DEF ProcessResult, StatusOf
  <1>2. CASE r.stop = None /\ r.exit # 0
    BY <1>2 DEF StatusOf
  <1>3. CASE r.stop = None /\ r.exit = 0
    BY <1>3 DEF ProcessResult, StatusOf, Success
  <1> QED
    BY <1>1, <1>2, <1>3
-----------------------------------------------------------------------------
(* The invariant is inductive *)

\* The attempt under way has no outcome yet, so its file and worker may change.
LEMMA LinkedKept ==
    ASSUME TypeInv, StateInv, OutcomeInv,
           \A a \in Attempts :
              disk.active = None \/ a # disk.active.id =>
                 files'[a] = files[a] /\ worker'[a] = worker[a]
    PROVE  \A o \in Range(disk.outcomes) : Recorded(o)'
  <1> SUFFICES ASSUME NEW o \in Range(disk.outcomes)
               PROVE  Recorded(o)'
    OBVIOUS
  <1>1. Recorded(o)
    BY DEF OutcomeInv
  <1>2. o.attempt \in OutcomeIds(disk)
    BY DEF OutcomeIds, Range
  <1>3. files'[o.attempt] = files[o.attempt] /\ worker'[o.attempt] = worker[o.attempt]
    BY <1>1, <1>2 DEF Recorded, StateInv, Sound
  <1> QED
    BY <1>1, <1>3 DEF Recorded, Over, Succeeded

\* A step of the owner that links nothing.
LEMMA OwnerOutcome ==
    ASSUME TypeInv, StateInv, OutcomeInv, NEW h \in Handlers, Inside(h),
           \A g \in Handlers \ {h} : pc'[g] = pc[g],
           stable' = stable, nextId' \in {nextId, nextId + 1},
           disk'.outcomes = disk.outcomes, disk'.completed = disk.completed,
           \A a \in Attempts :
              disk.active = None \/ a # disk.active.id =>
                 files'[a] = files[a] /\ worker'[a] = worker[a],
           Progress(h)'
    PROVE  OutcomeInv'
  <1>1. \A o \in Range(disk'.outcomes) : Recorded(o)'
    BY LinkedKept
  <1>2. ASSUME NEW a \in Attempts, a >= nextId'
        PROVE  worker'[a].live = "none"
    <2>1. /\ a \in Nat /\ nextId \in Nat /\ a >= nextId
          /\ disk \in RunnerStates
      BY <1>2, RunnerAssumption DEF TypeInv, TypeOK
    <2>2. disk.active # None => disk.active.id < nextId /\ disk.active.id \in Nat
      <3>1. Mentioned(disk) \subseteq Nat
        BY <2>1, MentionedType
      <3> QED
        BY <3>1 DEF StateInv, Sound, Mentioned
    <2>3. disk.active = None \/ a # disk.active.id
      BY <2>1, <2>2
    <2> QED
      BY <2>1, <2>3 DEF OutcomeInv
  <1>3. Earned(disk)' /\ Earned(stable)'
    BY DEF OutcomeInv, Earned
  <1>4. \A g \in Handlers \ {h} : Progress(g)'
    <2>1. \A g \in Handlers \ {h} : ~Inside(g)
      BY OthersOutside
    <2> QED
      BY <2>1 DEF Progress, Inside
  <1>5. Range(stable'.outcomes) \subseteq Range(disk'.outcomes)
    BY DEF OutcomeInv
  <1> QED
    BY <1>1, <1>2, <1>3, <1>4, <1>5 DEF OutcomeInv

\* A step that is not one of an attempt.
Aside == {"idle", "lock", "read", "select", "finish", "own"}

LEMMA AsideOutcome ==
    ASSUME TypeInv, OutcomeInv, UNCHANGED <<stable, disk, files, worker>>,
           nextId' \in {nextId, nextId + 1},
           \A g \in Handlers :
              \/ pc'[g] \in Aside
              \/ pc'[g] = pc[g] /\ ending'[g] = ending[g]
    PROVE  OutcomeInv'
  <1>1. \A g \in Handlers : Progress(g)'
    BY DEF OutcomeInv, Progress, Aside, Over, Succeeded
  <1>2. \A o \in Range(disk'.outcomes) : Recorded(o)'
    BY DEF OutcomeInv, Recorded, Over, Succeeded
  <1>3. \A a \in Attempts : a >= nextId' => worker'[a].live = "none"
    BY RunnerAssumption DEF TypeInv, TypeOK, OutcomeInv
  <1> QED
    BY <1>1, <1>2, <1>3 DEF OutcomeInv, Earned

LEMMA StartingOutcome ==
    ASSUME TypeInv, StateInv, OutcomeInv, NEW h \in Handlers,
           Invoke(h) \/ Starting(h)
    PROVE  OutcomeInv'
  <1>0. /\ disk \in RunnerStates /\ nextId \in Nat /\ Holds(h)
        /\ pc \in [Handlers -> {"idle", "lock", "read", "select", "finish",
                                "own", "artifacts", "spawn", "record",
                                "session", "cleanup", "outcome", "commit"}]
        /\ ending \in [Handlers -> AttemptStatus \union {None, "error"}]
        /\ pc[h] # "idle" => call[h] \in Invocation /\ call[h].snap \in Versions
    BY DEF TypeInv, TypeOK, Placed, StateInv, Invocation
  \* Until an attempt is claimed nothing the invariant speaks of changes.
  <1>1. ASSUME UNCHANGED <<stable, disk, files, worker, ending>>,
               nextId' = nextId, NEW label \in Aside, Goto(h, label)
        PROVE  OutcomeInv'
    BY <1>0, <1>1, AsideOutcome DEF Goto
  <1>2. ASSUME UNCHANGED <<stable, disk, files, worker>>,
               nextId' \in {nextId, nextId + 1}, Vanish(h)
        PROVE  OutcomeInv'
    BY <1>0, <1>2, AsideOutcome DEF Vanish, Goto, Aside
  <1>3. CASE Invoke(h)
    BY <1>1, <1>3 DEF Invoke, env, Aside
  <1>4. CASE AcquirePlanLock(h)
    BY <1>1, <1>4 DEF AcquirePlanLock, env, Aside
  <1>5. CASE ReadState(h)
    BY <1>1, <1>5 DEF ReadState, env, Aside
  <1>6. CASE SelectPhase(h)
    BY <1>1, <1>6 DEF SelectPhase, env, Aside
  <1>7. CASE SelectNothing(h)
    BY <1>1, <1>7 DEF SelectNothing, env, Aside
  <1>8. CASE \/ PlanLockContention(h) \/ ReadRefused(h) \/ SelectRefused(h)
             \/ FinishFails(h) \/ OwnRefused(h)
    BY <1>2, <1>8
    DEF PlanLockContention, ReadRefused, SelectRefused, FinishFails,
        OwnRefused, Refuse, Leave, env
  <1>9. CASE PrepareFails(h)
    BY <1>2, <1>9 DEF PrepareFails, Leave, env
  <1>10. CASE Finish(h)
    <2>1. /\ disk' = Finished(AcceptPlan(disk, call[h].snap))
          /\ call[h].snap \in Versions /\ Inside(h)
      BY <1>0, <1>10 DEF Finish, Holds, Inside
    <2>2. disk'.outcomes = disk.outcomes /\ disk'.completed = disk.completed
      BY <1>0, <2>1, OthersLinkNothing DEF AcceptPlan, Finished, RunnerStates
    <2>3. /\ UNCHANGED <<stable, files, worker, nextId>>
          /\ pc' = [pc EXCEPT ![h] = "idle"]
      BY <1>10 DEF Finish, Leave, Vanish, Goto, env
    <2>4. Progress(h)'
      BY <1>0, <2>3 DEF Progress
    <2> QED
      BY <1>0, <2>1, <2>2, <2>3, <2>4, OwnerOutcome
  <1>11. CASE Prepare(h)
    <2>1. /\ call[h].phase \in Phases /\ Inside(h)
          /\ disk' = Prepared(AcceptPlan(disk, call[h].snap), nextId,
                              call[h].phase, call[h].snap)
      BY <1>0, <1>11
      DEF Prepare, Claim, Holds, Inside, TypeInv, Placed, Invocation
    <2>2. /\ disk'.outcomes = disk.outcomes /\ disk'.completed = disk.completed
          /\ disk'.active.id = nextId
      <3>1. AcceptPlan(disk, call[h].snap) \in RunnerStates /\ call[h].snap \in Versions
        BY <1>0, <1>11, AcceptType DEF Prepare
      <3> QED
        BY <1>0, <2>1, <3>1, OthersLinkNothing, PreparedType
    <2>3. /\ UNCHANGED <<stable, files, worker>> /\ nextId' = nextId + 1
          /\ pc' = [pc EXCEPT ![h] = "artifacts"] /\ nextId \in Attempts
      BY <1>11 DEF Prepare, Goto, env
    <2>4. Progress(h)'
      BY <1>0, <2>2, <2>3 DEF Progress, OutcomeInv
    <2> QED
      BY <1>0, <2>1, <2>2, <2>3, <2>4, OwnerOutcome
  <1> QED
    BY <1>3, <1>4, <1>5, <1>6, <1>7, <1>8, <1>9, <1>10, <1>11 DEF Starting

LEMMA AttemptOutcome ==
    ASSUME TypeInv, StateInv, OutcomeInv, NEW h \in Handlers,
           Working(h) \/ Recording(h)
    PROVE  OutcomeInv'
  <1>0. /\ disk \in RunnerStates /\ nextId \in Nat /\ Holds(h) /\ Progress(h)
        /\ pc \in [Handlers -> {"idle", "lock", "read", "select", "finish",
                                "own", "artifacts", "spawn", "record",
                                "session", "cleanup", "outcome", "commit"}]
        /\ ending \in [Handlers -> AttemptStatus \union {None, "error"}]
        /\ worker \in [Attempts -> Worker]
        /\ files \in [Attempts -> OutcomeFile \union {None}]
    BY DEF TypeInv, TypeOK, StateInv, OutcomeInv
  <1>1. pc[h] \in Attempting
    BY DEF Working, Recording, Artifacts, Launch, LaunchFails, RecordProcess,
           SessionEnds, SessionFails, SessionSignalled, Cleanup,
           CleanupRaises, WriteOutcome, WriteOutcomeFails, CommitGoesOn,
           CommitLeaves, CommitFails, Attempting
  <1>2. /\ mem[h] = disk /\ disk.active # None /\ Inside(h)
        /\ Mine(h) = disk.active.id /\ Mine(h) \in Attempts
        /\ disk.active \in ActiveAttempt
    BY <1>0, <1>1, MineType DEF Holds, Inside, Attempting, Mine
  \* What the steps before the commit have in common.
  <1>3. ASSUME UNCHANGED <<stable, disk, nextId>>, NEW label, Goto(h, label),
               \A a \in Attempts \ {Mine(h)} :
                  files'[a] = files[a] /\ worker'[a] = worker[a],
               Progress(h)'
        PROVE  OutcomeInv'
    <2>1. \A g \in Handlers \ {h} : pc'[g] = pc[g]
      BY <1>0, <1>3 DEF Goto
    <2> QED
      BY <1>2, <1>3, <2>1, OwnerOutcome
  <1>4. CASE Artifacts(h)
    <2>1. PICK label \in {"spawn", "outcome"} : Goto(h, label)
      BY <1>4 DEF Artifacts
    <2>2. Progress(h)'
      BY <1>0, <1>4 DEF Artifacts, Goto, Progress, Over, env
    <2> QED
      BY <1>3, <1>4, <2>1, <2>2 DEF Artifacts, env
  <1>5. CASE Launch(h)
    <2>1. Progress(h)'
      BY <1>0, <1>2, <1>5 DEF Launch, Goto, Progress, NoWorker
    <2> QED
      BY <1>0, <1>3, <1>5, <2>1 DEF Launch, env
  <1>6. CASE LaunchFails(h)
    <2>1. Progress(h)'
      BY <1>0, <1>6 DEF LaunchFails, Goto, Progress
    <2> QED
      BY <1>3, <1>6, <2>1 DEF LaunchFails, env
  <1>7. CASE RecordProcess(h)
    <2>1. PICK process \in BOOLEAN :
            /\ disk' = Running(disk, process)
            /\ worker' = [worker EXCEPT ![Mine(h)].named = process]
      BY <1>2, <1>7 DEF RecordProcess
    <2>2. /\ disk'.outcomes = disk.outcomes /\ disk'.completed = disk.completed
      BY <1>0, <1>2, <2>1, RunningKeeps
    <2>3. disk'.active.id = disk.active.id /\ disk'.active.phase = disk.active.phase
      BY <1>0, <1>2, <2>1, RunningKeeps
    <2>4. Progress(h)'
      BY <1>0, <1>2, <1>7, <2>1, <2>3 DEF RecordProcess, Goto, Progress
    <2>5. \A g \in Handlers \ {h} : pc'[g] = pc[g]
      BY <1>0, <1>7 DEF RecordProcess, Goto
    <2> QED
      BY <1>0, <1>2, <1>7, <2>1, <2>2, <2>4, <2>5, OwnerOutcome
      DEF RecordProcess, env
  <1>8. CASE SessionEnds(h)
    <2>1. PICK r \in Results :
            /\ worker' = [worker EXCEPT ![Mine(h)].result = r]
            /\ ending' = [ending EXCEPT ![h] = StatusOf(r)]
      BY <1>8 DEF SessionEnds
    <2>2. r \in ProcessResult /\ r # None
      BY RunnerAssumption
    <2>3. StatusOf(r) = "phase-complete" => Success(r)
      BY <2>2, SuccessOf
    <2>4. Progress(h)'
      BY <1>0, <1>2, <1>8, <2>1, <2>2, <2>3
      DEF SessionEnds, Goto, Progress, Succeeded, Worker
    <2> QED
      BY <1>0, <1>3, <1>8, <2>1, <2>4 DEF SessionEnds, env
  <1>9. CASE SessionFails(h)
    <2>1. Progress(h)'
      BY <1>0, <1>9 DEF SessionFails, Goto, Progress
    <2> QED
      BY <1>3, <1>9, <2>1 DEF SessionFails, env
  <1>10. CASE SessionSignalled(h)
    <2>1. Progress(h)'
      BY <1>0, <1>10 DEF SessionSignalled, Goto, Progress
    <2> QED
      BY <1>3, <1>10, <2>1 DEF SessionSignalled, env
  <1>11. ASSUME GroupKilled(h)
         PROVE  /\ worker'[Mine(h)].live \in {"none", "gone"}
                /\ worker'[Mine(h)].phase = worker[Mine(h)].phase
                /\ worker'[Mine(h)].result = worker[Mine(h)].result
                /\ \A a \in Attempts \ {Mine(h)} : worker'[a] = worker[a]
    BY <1>0, <1>2, <1>11 DEF GroupKilled, Worker
  <1>12. CASE Cleanup(h)
    <2>1. Progress(h)'
      BY <1>0, <1>2, <1>11, <1>12 DEF Cleanup, Goto, Progress, Over, Succeeded
    <2> QED
      BY <1>3, <1>11, <1>12, <2>1 DEF Cleanup, env
  <1>13. CASE CleanupRaises(h)
    <2>1. Goto(h, "idle") /\ Progress(h)'
      BY <1>0, <1>13 DEF CleanupRaises, Refuse, Leave, Vanish, Goto, Progress
    <2> QED
      BY <1>3, <1>11, <1>13, <2>1 DEF CleanupRaises, env
  <1>14. CASE WriteOutcome(h)
    <2>1. /\ files'[Mine(h)] = [phase |-> disk.active.phase, status |-> ending[h]]
          /\ \A a \in Attempts \ {Mine(h)} : files'[a] = files[a]
      BY <1>0, <1>2, <1>14 DEF WriteOutcome, OutcomeWith
    <2>2. Progress(h)'
      BY <1>0, <1>2, <1>14, <2>1 DEF WriteOutcome, Goto, Progress, Over, Succeeded
    <2> QED
      BY <1>3, <1>14, <2>1, <2>2 DEF WriteOutcome, env
  <1>15. ASSUME Vanish(h), UNCHANGED <<stable, disk, worker, nextId>>,
                \A a \in Attempts \ {Mine(h)} : files'[a] = files[a]
         PROVE  OutcomeInv'
    BY <1>0, <1>3, <1>15 DEF Vanish, Goto, Progress
  <1>16. CASE WriteOutcomeFails(h)
    <2>1. \A a \in Attempts \ {Mine(h)} : files'[a] = files[a]
      BY <1>0, <1>16 DEF WriteOutcomeFails, OutcomeWith
    <2> QED
      BY <1>15, <1>16, <2>1 DEF WriteOutcomeFails, Unrecorded, Leave, env
  <1>17. CASE CommitFails(h)
    BY <1>15, <1>17 DEF CommitFails, Unrecorded, Leave, env
  <1>18. CASE CommitGoesOn(h) \/ CommitLeaves(h)
    <2>1. /\ pc[h] = "commit" /\ disk' = Conclude(disk, ending[h])
          /\ UNCHANGED <<stable, files, worker, nextId>>
          /\ pc'[h] \in Aside /\ \A g \in Handlers \ {h} : pc'[g] = pc[g]
      BY <1>0, <1>2, <1>18
      DEF CommitGoesOn, CommitLeaves, Updated, Leave, Vanish, Goto, Aside, env
    <2>2. ending[h] \in AttemptStatus
      BY <2>1 DEF TypeInv, Placed
    <2>3. PICK link : link = Link(disk, ending[h])
      OBVIOUS
    <2>4. /\ Range(disk'.outcomes) = Range(disk.outcomes) \union {link}
          /\ Range(disk'.completed) = Range(disk.completed) \union
                (IF ending[h] = "phase-complete" THEN {disk.active.phase} ELSE {})
      BY <1>0, <1>2, <2>1, <2>2, <2>3, ConcludeLinks
    <2>5. /\ link.attempt = disk.active.id /\ link.phase = disk.active.phase
          /\ link.status = ending[h]
      BY <2>3 DEF Link
    <2>6. Recorded(link)'
      BY <1>0, <1>2, <2>1, <2>5 DEF Recorded, Progress, Over, Succeeded
    <2>7. \A o \in Range(disk.outcomes) : Recorded(o)'
      BY <2>1, LinkedKept
    <2>8. Earned(disk)'
      <3> SUFFICES ASSUME NEW p \in Range(disk'.completed)
                   PROVE  \E o \in Range(disk'.outcomes) :
                             o.phase = p /\ o.status = "phase-complete"
        BY DEF Earned
      <3>1. CASE p \in Range(disk.completed)
        BY <2>4, <3>1 DEF OutcomeInv, Earned
      <3>2. CASE p = disk.active.phase /\ ending[h] = "phase-complete"
        BY <2>4, <2>5, <3>2
      <3> QED
        BY <2>4, <3>1, <3>2
    <2>9. Earned(stable)' /\ \A a \in Attempts : a >= nextId' => worker'[a].live = "none"
      BY <2>1 DEF OutcomeInv, Earned
    <2>10. \A g \in Handlers : Progress(g)'
      <3>1. \A g \in Handlers \ {h} : ~Inside(g)
        BY <1>2, OthersOutside
      <3> QED
        BY <2>1, <3>1 DEF Progress, Inside, Aside
    <2>11. /\ Range(stable'.outcomes) \subseteq Range(disk'.outcomes)
           /\ \A o \in Range(disk'.outcomes) : Recorded(o)'
      BY <2>1, <2>4, <2>6, <2>7 DEF OutcomeInv
    <2> QED
      BY <2>8, <2>9, <2>10, <2>11 DEF OutcomeInv
  <1> QED
    BY <1>4, <1>5, <1>6, <1>7, <1>8, <1>9, <1>10, <1>12, <1>13, <1>14, <1>16,
       <1>17, <1>18 DEF Working, Recording

LEMMA EnvironmentOutcome ==
    ASSUME TypeInv, StateInv, OutcomeInv,
           \/ \E h \in Handlers : Signal(h) \/ Terminate(h) \/ Crash(h)
           \/ EditPlan \/ WorkerExits \/ WriteBack \/ KernelStops
    PROVE  OutcomeInv'
  <1>0. /\ disk \in RunnerStates /\ nextId \in Nat
        /\ pc \in [Handlers -> {"idle", "lock", "read", "select", "finish",
                                "own", "artifacts", "spawn", "record",
                                "session", "cleanup", "outcome", "commit"}]
        /\ worker \in [Attempts -> Worker]
        /\ files \in [Attempts -> OutcomeFile \union {None}]
    BY DEF TypeInv, TypeOK
  <1>1. ASSUME UNCHANGED <<stable, disk, files, worker, pc, ending, nextId>>
        PROVE  OutcomeInv'
    BY <1>1 DEF OutcomeInv, Earned, Recorded, Progress, Over, Succeeded
  <1>2. ASSUME NEW h \in Handlers, Abandon(h), Vanish(h)
        PROVE  OutcomeInv'
    <2>1. /\ UNCHANGED <<stable, disk, worker, nextId>>
          /\ pc'[h] = "idle" /\ Progress(h)'
          /\ \A g \in Handlers \ {h} : pc'[g] = pc[g] /\ ending'[g] = ending[g]
      BY <1>0, <1>2 DEF Abandon, Vanish, Goto, Progress, env, TypeInv, TypeOK
    <2>2. CASE UNCHANGED files
      BY <2>1, <2>2, AsideOutcome DEF Aside
    <2>3. CASE pc[h] = "outcome" /\ files' = OutcomeWith(h, "torn")
      <3>1. Inside(h) /\ Mine(h) = disk.active.id /\ disk.active # None
        BY <2>3 DEF StateInv, Holds, Inside, Attempting, Mine
      <3>2. \A a \in Attempts \ {Mine(h)} : files'[a] = files[a]
        BY <1>0, <2>3 DEF OutcomeWith
      <3> QED
        BY <2>1, <3>1, <3>2, OwnerOutcome
    <2> QED
      BY <1>2, <2>2, <2>3 DEF Abandon
  <1>3. ASSUME NEW h \in Handlers, Signal(h) \/ Terminate(h) \/ Crash(h)
        PROVE  OutcomeInv'
    BY <1>1, <1>2, <1>3 DEF Signal, Terminate, Crash, Leave, env
  <1>4. CASE EditPlan
    BY <1>1, <1>4 DEF EditPlan
  \* Processes only end, and none that had not started starts.
  <1>5. ASSUME NEW a \in Attempts, WorkerExits \/ KernelStops
        PROVE  /\ worker[a].live = "none" => worker'[a].live = "none"
               /\ Over(a) => Over(a)'
               /\ worker'[a].phase = worker[a].phase
               /\ worker'[a].result = worker[a].result
    <2>1. CASE WorkerExits
      <3>1. PICK b \in Attempts, l \in {"group", "gone"} :
              /\ worker[b].live \in {"leader", "group"}
              /\ l = "gone" \/ worker[b].live = "leader"
              /\ worker' = [worker EXCEPT ![b].live = l]
        BY <2>1 DEF WorkerExits
      <3>2. CASE a = b
        <4>1. worker[a] \in Worker /\ worker'[a] = [worker[a] EXCEPT !.live = l]
          BY <1>0, <3>1, <3>2
        <4>2. ~Over(a)
          BY <3>1, <3>2 DEF Over
        <4> QED
          BY <4>1, <4>2 DEF Worker, Over
      <3>3. CASE a # b
        BY <1>0, <3>1, <3>3 DEF Over
      <3> QED
        BY <3>2, <3>3
    <2>2. CASE KernelStops
      <3>1. /\ worker[a] \in Worker
            /\ worker'[a] = [worker[a] EXCEPT !.live =
                                IF @ = "none" THEN @ ELSE "gone"]
        BY <1>0, <2>2 DEF KernelStops
      <3>2. /\ worker'[a].live = IF worker[a].live = "none" THEN "none" ELSE "gone"
            /\ worker'[a].phase = worker[a].phase
            /\ worker'[a].result = worker[a].result
        BY <3>1 DEF Worker
      <3> QED
        BY <3>2 DEF Over
    <2> QED
      BY <1>5, <2>1, <2>2
  <1>6. ASSUME WorkerExits \/ KernelStops, files' = files
        PROVE  \A o \in Range(disk.outcomes) : Recorded(o)'
    <2> SUFFICES ASSUME NEW o \in Range(disk.outcomes)
                 PROVE  Recorded(o)'
      OBVIOUS
    <2>1. Recorded(o)
      BY DEF OutcomeInv
    <2> QED
      BY <1>5, <1>6, <2>1 DEF Recorded, Succeeded
  <1>7. CASE WorkerExits
    <2>1. UNCHANGED <<stable, disk, files, pc, ending, nextId>>
      BY <1>7 DEF WorkerExits, env
    <2>2. \A h \in Handlers : Progress(h)'
      <3> SUFFICES ASSUME NEW h \in Handlers
                   PROVE  Progress(h)'
        OBVIOUS
      <3>1. Progress(h)
        BY DEF OutcomeInv
      <3>2. CASE disk.active.id \in Attempts
        BY <1>5, <1>7, <2>1, <3>1, <3>2 DEF Progress, Succeeded
      <3>3. CASE pc[h] \notin Attempting
        BY <2>1, <3>3 DEF Progress, Attempting
      <3> QED
        BY <3>2, <3>3, MineType DEF StateInv, Holds, Mine
    <2>3. \A a \in Attempts : a >= nextId' => worker'[a].live = "none"
      BY <1>5, <1>7, <2>1 DEF OutcomeInv
    <2> QED
      BY <1>6, <1>7, <2>1, <2>2, <2>3 DEF OutcomeInv, Earned
  <1>8. CASE WriteBack
    <2>1. /\ stable' = disk /\ UNCHANGED <<disk, files, worker, pc, ending, nextId>>
      BY <1>8 DEF WriteBack
    <2> QED
      BY <2>1 DEF OutcomeInv, Earned, Recorded, Progress, Over, Succeeded
  <1>9. CASE KernelStops
    <2>1. /\ disk' = stable /\ UNCHANGED <<stable, nextId>>
          /\ files' \in Salvaged
          /\ \A h \in Handlers : pc'[h] = "idle"
      BY <1>9 DEF KernelStops, env
    <2>2. \A o \in Range(disk'.outcomes) : Recorded(o)'
      <3>1. CASE files' = files
        BY <1>6, <1>9, <2>1, <3>1 DEF OutcomeInv
      <3>2. CASE stable.outcomes = << >>
        BY <2>1, <3>2 DEF Range
      <3> QED
        BY <2>1, <3>1, <3>2 DEF Salvaged
    <2>3. \A h \in Handlers : Progress(h)'
      BY <2>1 DEF Progress
    <2>4. \A a \in Attempts : a >= nextId' => worker'[a].live = "none"
      BY <1>5, <1>9, <2>1 DEF OutcomeInv
    <2> QED
      BY <2>1, <2>2, <2>3, <2>4 DEF OutcomeInv, Earned
  <1> QED
    BY <1>3, <1>4, <1>7, <1>8, <1>9

LEMMA OutcomeInvInductive ==
    TypeInv /\ StateInv /\ OutcomeInv /\ [Next]_vars => OutcomeInv'
  <1> SUFFICES ASSUME TypeInv, StateInv, OutcomeInv, [Next]_vars
               PROVE  OutcomeInv'
    OBVIOUS
  <1>1. CASE Next
    BY <1>1, StartingOutcome, AttemptOutcome, EnvironmentOutcome
    DEF Next, HandlerStep
  <1>2. CASE UNCHANGED vars
    BY <1>2 DEF vars, env, OutcomeInv, Earned, Recorded, Progress, Over, Succeeded
  <1> QED
    BY <1>1, <1>2

LEMMA InitOutcome == Init => OutcomeInv
  <1> SUFFICES ASSUME Init
               PROVE  OutcomeInv
    OBVIOUS
  <1>1. /\ disk.outcomes = <<>> /\ disk.completed = <<>>
        /\ stable.outcomes = <<>> /\ stable.completed = <<>>
    BY DEF Init, EmptyState
  <1>2. /\ Range(disk.outcomes) = {} /\ Range(disk.completed) = {}
        /\ Range(stable.outcomes) = {} /\ Range(stable.completed) = {}
    BY <1>1 DEF Range
  <1>3. /\ \A a \in Attempts : worker[a].live = "none"
        /\ \A h \in Handlers : pc[h] = "idle"
    BY DEF Init, NoWorker
  <1> QED
    BY <1>2, <1>3 DEF OutcomeInv, Earned, Progress

LEMMA OutcomeInvCorrect == Spec => [](TypeInv /\ StateInv /\ OutcomeInv)
  <1>1. Init => TypeInv /\ StateInv /\ OutcomeInv
    BY InitTypes, InitState, InitOutcome
  <1>2. TypeInv /\ StateInv /\ OutcomeInv /\ [Next]_vars
           => (TypeInv /\ StateInv /\ OutcomeInv)'
    BY TypeInvInductive, StateInvInductive, OutcomeInvInductive
  <1> QED
    BY <1>1, <1>2, PTL DEF Spec

\* No link in state.json dangles: whatever write fails, wherever a handler
\* dies and whatever a kernel stop takes back, the file an outcome names is
\* complete and says the same.
THEOREM OutcomesCorrect == Spec => []OutcomesBacked
  <1>1. ASSUME OutcomeInv, NEW i \in DOMAIN disk.outcomes
        PROVE  LET o == disk.outcomes[i] IN
               files[o.attempt] = [phase |-> o.phase, status |-> o.status]
    BY <1>1 DEF OutcomeInv, Recorded, Range
  <1>2. OutcomeInv => OutcomesBacked
    BY <1>1 DEF OutcomesBacked
  <1> QED
    BY <1>2, OutcomeInvCorrect, PTL

\* An outcome is linked only after the worker's process group is gone.
THEOREM DeadCorrect == Spec => []ConcludedIsDead
  <1>1. ASSUME OutcomeInv, NEW i \in DOMAIN disk.outcomes
        PROVE  Over(disk.outcomes[i].attempt)
    BY <1>1 DEF OutcomeInv, Recorded, Range
  <1>2. OutcomeInv => ConcludedIsDead
    BY <1>1 DEF Over, ConcludedIsDead
  <1> QED
    BY <1>2, OutcomeInvCorrect, PTL

\* No phase is recorded completed without a worker that was launched for it,
\* said it was complete and exited with zero, unstopped.
THEOREM CompletionCorrect == Spec => []CompletionBacked
  <1>1. ASSUME OutcomeInv
        PROVE  CompletionBacked
    <2> SUFFICES ASSUME NEW k \in DOMAIN disk.completed
                 PROVE  \E i \in DOMAIN disk.outcomes :
                          LET o == disk.outcomes[i] IN
                          /\ o.phase = disk.completed[k]
                          /\ o.status = "phase-complete"
                          /\ worker[o.attempt].phase = o.phase
                          /\ worker[o.attempt].result # None
                          /\ Success(worker[o.attempt].result)
      BY DEF CompletionBacked
    <2>1. PICK o \in Range(disk.outcomes) :
            o.phase = disk.completed[k] /\ o.status = "phase-complete"
      BY <1>1 DEF OutcomeInv, Earned, Range
    <2>2. Succeeded(o.attempt, o.phase)
      BY <1>1, <2>1 DEF OutcomeInv, Recorded
    <2>3. PICK i \in DOMAIN disk.outcomes : disk.outcomes[i] = o
      BY DEF Range
    <2> QED
      BY <2>1, <2>2, <2>3 DEF Succeeded
  <1>2. OutcomeInv => CompletionBacked
    BY <1>1
  <1> QED
    BY <1>2, OutcomeInvCorrect, PTL

-----------------------------------------------------------------------------
(* Launches *)

\* A running worker is no newer than the active attempt, and is that attempt
\* when its identity is recorded.
Tracked(a) ==
    worker[a].live = "leader" =>
        /\ disk.active # None => a <= disk.active.id
        /\ worker[a].named => /\ disk.active # None /\ disk.active.id = a
                              /\ disk.active.process

\* The phase only a retry may select.
Pending(s) == IF NeedsRetry(s) THEN {RecoveryPhase(s)} ELSE {}

\* What was launched is recorded completed, or waits for a retry.
Expected(a) ==
    Launched(a) =>
        worker[a].phase \in Range(disk.completed) \union Pending(disk)

Launching == {"artifacts", "spawn", "record", "session"}

\* What selecting and claiming a phase established.
Intent(h) ==
    /\ pc[h] = "finish" => Incomplete(disk, call[h].snap) = {}
    /\ pc[h] = "own" /\ NeedsRetry(disk) =>
          RetryNow(h) /\ call[h].phase = RecoveryPhase(disk)
    /\ PowerLoss = FALSE /\ pc[h] \in Launching =>
          \A a \in Attempts \ {disk.active.id} :
              Launched(a) /\ worker[a].phase = disk.active.phase => RetryNow(h)

LaunchInv ==
    /\ \A a \in Attempts : Tracked(a)
    /\ PowerLoss = FALSE => \A a \in Attempts : Expected(a)
    /\ \A h \in Handlers : Intent(h)
-----------------------------------------------------------------------------
(* What the transitions of the state do to the pending phase *)

LEMMA ClaimIs ==
    ASSUME NEW s \in RunnerStates, NEW n \in Nat, NEW p \in Phases,
           NEW v \in Versions
    PROVE  LET t == Prepared(AcceptPlan(s, v), n, p, v) IN
           /\ t.completed = s.completed
           /\ t.active # None /\ t.active.id = n /\ t.active.phase = p
           /\ Pending(t) = {p}
  <1> DEFINE a == AcceptPlan(s, v)
             r == ResolveAbandoned(a)
             new == [id |-> n, status |-> "prepared", phase |-> p,
                     snapshot |-> v, workspace |-> WorkspaceOf[v][p],
                     process |-> FALSE]
             t == Prepared(a, n, p, v)
  <1>1. a \in RunnerStates
    BY AcceptType
  <1>2. r \in RunnerStates
    BY <1>1, ResolveType
  <1>3. t = [r EXCEPT !.current = p, !.active = new, !.stop = None]
    BY DEF Prepared
  <1>4. t.completed = s.completed /\ t.active \in ActiveAttempt
    BY <1>1, OthersLinkNothing, PreparedType
  <1>5. t.active = new
    <2> HIDE DEF new, r, t
    <2> QED
      BY <1>2, <1>3 DEF RunnerStates
  <1> HIDE DEF t, r, a
  <1>6. t.active # None /\ t.active.id = n /\ t.active.phase = p
    <2>1. new.id = n /\ new.phase = p
      OBVIOUS
    <2> HIDE DEF new
    <2> QED
      BY <1>4, <1>5, <2>1, NoneAssumption
  <1>7. Pending(t) = {p}
    BY <1>6 DEF Pending, NeedsRetry, RecoveryPhase
  <1> QED
    BY <1>4, <1>6, <1>7 DEF t, a

LEMMA ConcludePending ==
    ASSUME NEW s \in RunnerStates, s.active # None,
           NEW status \in AttemptStatus
    PROVE  /\ Conclude(s, status).active = None
           /\ Pending(Conclude(s, status)) =
                 IF status = "phase-complete" THEN {} ELSE {s.active.phase}
  <1> DEFINE t == Conclude(s, status)
             stop == IF status = "phase-complete" THEN None
                     ELSE [reason |-> status, phase |-> s.active.phase]
  <1>1. t.active = None /\ t.stop = stop
    BY DEF Conclude, RunnerStates
  <1>2. t \in RunnerStates
    BY ConcludeType
  <1> HIDE DEF t
  <1>3. CASE status = "phase-complete"
    BY <1>1, <1>3 DEF Pending, NeedsRetry, t
  <1>4. CASE status # "phase-complete"
    <2>1. /\ t.stop = [reason |-> status, phase |-> s.active.phase]
          /\ t.stop \in StopState \union {None}
      BY <1>1, <1>2, <1>4 DEF RunnerStates
    <2>2. s.active.phase \in Phases
      BY DEF RunnerStates, ActiveAttempt
    <2>3. [reason |-> status, phase |-> s.active.phase] \in StopState
      BY <1>4, <2>2 DEF AttemptStatus, StopState
    <2>4. t.stop # None
      BY <2>1, <2>3, NoneAssumption
    <2> QED
      BY <1>1, <1>4, <2>1, <2>4 DEF Pending, NeedsRetry, RecoveryPhase, t
  <1> QED
    BY <1>3, <1>4

LEMMA NothingLeft ==
    ASSUME NEW s \in RunnerStates, NEW v \in Versions,
           SelectNextPhase(s, v) = None
    PROVE  Incomplete(s, v) = {}
  <1>1. CASE NeedsRetry(s)
    <2>1. RecoveryPhase(s) \in Phases
      BY <1>1 DEF RecoveryPhase, NeedsRetry, RunnerStates, ActiveAttempt, StopState
    <2> QED
      BY <1>1, <2>1, NoneAssumption DEF SelectNextPhase
  <1>2. CASE ~NeedsRetry(s) /\ Incomplete(s, v) # {}
    <2>1. /\ PhasesOf[v] \in Seq(Phases)
          /\ Incomplete(s, v) \subseteq DOMAIN PhasesOf[v]
          /\ Incomplete(s, v) \in SUBSET Nat
      BY PlanAssumption DEF Incomplete
    <2>2. \E i \in Incomplete(s, v) : \A j \in Incomplete(s, v) : i <= j
      BY <1>2, <2>1, Least
    <2>3. PICK i \in Incomplete(s, v) : SelectNextPhase(s, v) = PhasesOf[v][i]
      BY <1>2, <2>2 DEF SelectNextPhase
    <2>4. PhasesOf[v][i] \in Phases
      BY <2>1
    <2> QED
      BY <2>3, <2>4, NoneAssumption
  <1> QED
    BY <1>1, <1>2
-----------------------------------------------------------------------------
(* The invariant is inductive *)

\* Processes only end.
Fewer ==
    \A a \in Attempts :
        /\ worker'[a].live = "leader" =>
              worker[a].live = "leader" /\ worker'[a].named = worker[a].named
        /\ Launched(a)' => Launched(a) /\ worker'[a].phase = worker[a].phase

\* A step that leaves the state alone and launches nothing.
LEMMA QuietLaunch ==
    ASSUME LaunchInv, UNCHANGED disk, Fewer,
           \A g \in Handlers :
              \/ pc'[g] \in {"idle", "lock", "read", "select", "cleanup",
                             "outcome", "commit"}
              \/ call'[g] = call[g] /\ pc'[g] = pc[g]
              \/ call'[g] = call[g] /\ {pc[g], pc'[g]} \subseteq Launching
              \/ Intent(g)'
    PROVE  LaunchInv'
  <1>1. \A a \in Attempts : Tracked(a)'
    BY DEF LaunchInv, Tracked, Fewer
  <1>2. PowerLoss = FALSE => \A a \in Attempts : Expected(a)'
    BY DEF LaunchInv, Expected, Fewer
  <1>3. ASSUME NEW g \in Handlers
        PROVE  Intent(g)'
    <2>1. CASE pc'[g] \in {"idle", "lock", "read", "select", "cleanup",
                           "outcome", "commit"}
      BY <2>1 DEF Intent, Launching
    <2>2. CASE call'[g] = call[g] /\ pc'[g] = pc[g]
      BY <2>2 DEF LaunchInv, Intent, Fewer, RetryNow
    <2>3. CASE call'[g] = call[g] /\ {pc[g], pc'[g]} \subseteq Launching
      BY <2>3 DEF LaunchInv, Intent, Fewer, RetryNow, Launching
    <2> QED
      BY <2>1, <2>2, <2>3
  <1> QED
    BY <1>1, <1>2, <1>3 DEF LaunchInv

\* A step of the owner.
LEMMA OwnerLaunch ==
    ASSUME StateInv, NEW h \in Handlers, Inside(h),
           \A g \in Handlers \ {h} : pc'[g] = pc[g],
           \A a \in Attempts : Tracked(a)',
           PowerLoss = FALSE => \A a \in Attempts : Expected(a)',
           Intent(h)'
    PROVE  LaunchInv'
  <1>1. \A g \in Handlers \ {h} : Intent(g)'
    BY OthersOutside DEF Intent, Inside, Launching
  <1> QED
    BY <1>1 DEF LaunchInv

LEMMA FinishLaunch ==
    ASSUME TypeInv, StateInv, LaunchInv, NEW h \in Handlers, Finish(h)
    PROVE  LaunchInv'
  <1>1. /\ disk \in RunnerStates /\ Inside(h) /\ call[h].snap \in Versions
        /\ disk' = Finished(AcceptPlan(disk, call[h].snap)) /\ ~NeedsRetry(disk)
        /\ UNCHANGED worker
    BY DEF Finish, TypeInv, TypeOK, Placed, StateInv, Holds, Inside, Invocation
  <1>2. /\ disk'.completed = disk.completed /\ disk'.active = None
        /\ Pending(disk) = {}
    BY <1>1 DEF Finished, AcceptPlan, RunnerStates, NeedsRetry, Pending
  <1>3. pc'[h] = "idle" /\ \A g \in Handlers \ {h} : pc'[g] = pc[g]
    BY DEF Finish, Leave, Vanish, Goto, TypeInv, TypeOK
  <1>4. \A a \in Attempts : Tracked(a)'
    BY <1>1, <1>2 DEF LaunchInv, Tracked, NeedsRetry
  <1>5. PowerLoss = FALSE => \A a \in Attempts : Expected(a)'
    BY <1>1, <1>2 DEF LaunchInv, Expected, Launched
  <1>6. Intent(h)'
    BY <1>3 DEF Intent, Launching
  <1> QED
    BY <1>1, <1>3, <1>4, <1>5, <1>6, OwnerLaunch

LEMMA PrepareLaunch ==
    ASSUME TypeInv, StateInv, OutcomeInv, LaunchInv, NEW h \in Handlers, Prepare(h)
    PROVE  LaunchInv'
  <1> DEFINE p == call[h].phase
  <1>1. /\ disk \in RunnerStates /\ nextId \in Nat /\ Inside(h)
        /\ p \in Phases /\ call[h].snap \in Versions
        /\ mem[h] = AcceptPlan(disk, call[h].snap)
        /\ p \notin Range(disk.completed)
    BY DEF Prepare, TypeInv, TypeOK, Placed, StateInv, Holds, Inside, Invocation
  <1>2. disk' = Prepared(AcceptPlan(disk, call[h].snap), nextId, p, call[h].snap)
    BY <1>1 DEF Prepare, Claim
  <1>3. /\ disk'.completed = disk.completed /\ disk'.active # None
        /\ disk'.active.id = nextId /\ disk'.active.phase = p
        /\ Pending(disk') = {p}
    BY <1>1, <1>2, ClaimIs
  <1>4. /\ UNCHANGED <<worker, call>> /\ pc'[h] = "artifacts"
        /\ \A g \in Handlers \ {h} : pc'[g] = pc[g]
    BY DEF Prepare, Goto, TypeInv, TypeOK
  <1>5. \A a \in Attempts : Tracked(a)'
    <2> SUFFICES ASSUME NEW a \in Attempts, worker[a].live = "leader"
                 PROVE  a <= nextId /\ ~worker[a].named
      BY <1>3, <1>4 DEF Tracked
    <2>1. a \in Nat /\ a < nextId
      BY <1>1, RunnerAssumption DEF OutcomeInv
    <2>2. mem[h].active = disk.active
      BY <1>1 DEF AcceptPlan, RunnerStates
    <2>3. ~worker[a].named
      BY <2>2 DEF Prepare, MayLaunch, LaunchInv, Tracked
    <2> QED
      BY <1>1, <2>1, <2>3
  <1>6. Pending(disk) \subseteq {p} /\ (p \in Pending(disk) => RetryNow(h))
    BY DEF Prepare, LaunchInv, Intent, Pending
  <1>7. PowerLoss = FALSE => \A a \in Attempts : Expected(a)'
    BY <1>3, <1>4, <1>6 DEF LaunchInv, Expected, Launched
  <1>8. Intent(h)'
    <2> SUFFICES ASSUME PowerLoss = FALSE, NEW a \in Attempts, Launched(a),
                        worker[a].phase = p
                 PROVE  RetryNow(h)
      BY <1>3, <1>4 DEF Intent, Launched, RetryNow
    <2> QED
      BY <1>1, <1>6 DEF LaunchInv, Expected
  <1> QED
    BY <1>1, <1>4, <1>5, <1>7, <1>8, OwnerLaunch

\* The steps from "spawn" to "commit" that change the state or a worker's
\* standing.
LEMMA AttemptLaunch ==
    ASSUME TypeInv, StateInv, OutcomeInv, LaunchInv, NEW h \in Handlers,
           Launch(h) \/ RecordProcess(h) \/ CommitGoesOn(h) \/ CommitLeaves(h)
    PROVE  LaunchInv'
  <1>0. /\ disk \in RunnerStates /\ Progress(h) /\ Intent(h)
        /\ worker \in [Attempts -> Worker]
        /\ pc \in [Handlers -> {"idle", "lock", "read", "select", "finish",
                                "own", "artifacts", "spawn", "record",
                                "session", "cleanup", "outcome", "commit"}]
    BY DEF TypeInv, TypeOK, OutcomeInv, LaunchInv
  <1>1. pc[h] \in Attempting
    BY DEF Launch, RecordProcess, CommitGoesOn, CommitLeaves, Attempting
  <1>2. /\ mem[h] = disk /\ disk.active # None /\ Inside(h)
        /\ Mine(h) = disk.active.id /\ Mine(h) \in Attempts
        /\ Mine(h) \in Nat /\ disk.active \in ActiveAttempt
    BY <1>1, MineType DEF StateInv, Holds, Inside, Attempting, Mine
  <1>3. \A g \in Handlers \ {h} : pc'[g] = pc[g]
    BY <1>0 DEF Launch, RecordProcess, CommitGoesOn, CommitLeaves, Leave,
                Vanish, Goto
  <1>4. CASE Launch(h)
    <2>1. /\ worker' = [worker EXCEPT ![Mine(h)] =
                [NoWorker EXCEPT !.live = "leader", !.phase = disk.active.phase]]
          /\ UNCHANGED <<disk, call>> /\ pc[h] = "spawn" /\ pc'[h] = "record"
      BY <1>0, <1>2, <1>4 DEF Launch, Goto
    <2>2. /\ worker'[Mine(h)].named = FALSE
          /\ worker'[Mine(h)].phase = disk.active.phase
          /\ \A a \in Attempts \ {Mine(h)} : worker'[a] = worker[a]
      BY <1>0, <1>2, <2>1 DEF NoWorker
    <2>3. \A a \in Attempts : Tracked(a)'
      BY <1>2, <2>1, <2>2 DEF LaunchInv, Tracked
    <2>4. PowerLoss = FALSE => \A a \in Attempts : Expected(a)'
      BY <1>2, <2>1, <2>2
      DEF LaunchInv, Expected, Launched, Pending, NeedsRetry, RecoveryPhase
    <2>5. Intent(h)'
      BY <1>0, <1>2, <2>1, <2>2 DEF Intent, Launching, Launched, RetryNow
    <2> QED
      BY <1>2, <1>3, <2>3, <2>4, <2>5, OwnerLaunch
  <1>5. CASE RecordProcess(h)
    <2>1. PICK process \in BOOLEAN :
            /\ disk' = Running(disk, process)
            /\ worker' = [worker EXCEPT ![Mine(h)].named = process]
      BY <1>2, <1>5 DEF RecordProcess
    <2>2. /\ disk'.completed = disk.completed /\ disk'.active # None
          /\ disk'.active.id = disk.active.id
          /\ disk'.active.phase = disk.active.phase
          /\ disk'.active.process = process
      BY <1>0, <1>2, <2>1, RunningKeeps, RunningType, NoneAssumption
    <2>3. /\ worker'[Mine(h)].live = worker[Mine(h)].live
          /\ worker'[Mine(h)].phase = worker[Mine(h)].phase
          /\ worker'[Mine(h)].named = process
          /\ \A a \in Attempts \ {Mine(h)} : worker'[a] = worker[a]
      BY <1>0, <1>2, <2>1 DEF Worker
    <2>4. UNCHANGED call /\ pc[h] = "record" /\ pc'[h] = "session"
      BY <1>0, <1>5 DEF RecordProcess, Goto
    <2>5. \A a \in Attempts : Tracked(a)'
      BY <1>2, <2>2, <2>3 DEF LaunchInv, Tracked
    <2>6. PowerLoss = FALSE => \A a \in Attempts : Expected(a)'
      BY <1>2, <2>2, <2>3
      DEF LaunchInv, Expected, Launched, Pending, NeedsRetry, RecoveryPhase
    <2>7. Intent(h)'
      BY <1>0, <1>2, <2>2, <2>3, <2>4 DEF Intent, Launching, Launched, RetryNow
    <2> QED
      BY <1>2, <1>3, <2>5, <2>6, <2>7, OwnerLaunch
  <1>6. CASE CommitGoesOn(h) \/ CommitLeaves(h)
    <2>1. /\ pc[h] = "commit" /\ disk' = Conclude(disk, ending[h])
          /\ UNCHANGED worker /\ pc'[h] \in {"select", "idle"}
      BY <1>0, <1>2, <1>6
      DEF CommitGoesOn, CommitLeaves, Updated, Leave, Vanish, Goto
    <2>2. ending[h] \in AttemptStatus
      BY <2>1 DEF TypeInv, Placed
    <2>3. /\ disk'.active = None
          /\ Range(disk'.completed) \union Pending(disk') =
                Range(disk.completed) \union {disk.active.phase}
      <3>1. Range(disk'.completed) = Range(disk.completed) \union
               (IF ending[h] = "phase-complete" THEN {disk.active.phase} ELSE {})
        BY <1>0, <1>2, <2>1, <2>2, ConcludeLinks
      <3>2. /\ disk'.active = None
            /\ Pending(disk') = IF ending[h] = "phase-complete" THEN {}
                                ELSE {disk.active.phase}
        BY <1>0, <1>2, <2>1, <2>2, ConcludePending
      <3> QED
        BY <3>1, <3>2
    <2>4. \A a \in Attempts : Tracked(a)'
      BY <1>0, <1>2, <2>1, <2>3 DEF LaunchInv, Tracked, Progress, Over
    <2>5. Pending(disk) = {disk.active.phase}
      BY <1>2 DEF Pending, NeedsRetry, RecoveryPhase
    <2>6. PowerLoss = FALSE => \A a \in Attempts : Expected(a)'
      BY <2>1, <2>3, <2>5 DEF LaunchInv, Expected, Launched
    <2>7. Intent(h)'
      BY <2>1 DEF Intent, Launching
    <2> QED
      BY <1>2, <1>3, <2>4, <2>6, <2>7, OwnerLaunch
  <1> QED
    BY <1>4, <1>5, <1>6

\* All other steps of the invocations launch nothing and keep the state.
LEMMA HandlerLaunch ==
    ASSUME TypeInv, StateInv, OutcomeInv, LaunchInv, NEW h \in Handlers,
           Invoke(h) \/ HandlerStep(h)
    PROVE  LaunchInv'
  <1>0. /\ disk \in RunnerStates /\ worker \in [Attempts -> Worker] /\ Holds(h)
        /\ pc \in [Handlers -> {"idle", "lock", "read", "select", "finish",
                                "own", "artifacts", "spawn", "record",
                                "session", "cleanup", "outcome", "commit"}]
        /\ call \in [Handlers -> Invocation \union {None}]
    BY DEF TypeInv, TypeOK, StateInv
  <1>1. ASSUME UNCHANGED <<disk, worker>>, Vanish(h)
        PROVE  LaunchInv'
    <2>1. /\ pc'[h] = "idle"
          /\ \A g \in Handlers \ {h} : pc'[g] = pc[g] /\ call'[g] = call[g]
      BY <1>0, <1>1 DEF Vanish, Goto
    <2> QED
      BY <1>1, <2>1, QuietLaunch DEF Fewer, Launched
  <1>2. ASSUME UNCHANGED <<disk, worker>>, NEW label, Goto(h, label),
               label \in {"lock", "read", "select", "outcome", "commit"}
                  \/ Intent(h)',
               \A g \in Handlers \ {h} : call'[g] = call[g]
        PROVE  LaunchInv'
    <2>1. pc'[h] = label /\ \A g \in Handlers \ {h} : pc'[g] = pc[g]
      BY <1>0, <1>2 DEF Goto
    <2> QED
      BY <1>2, <2>1, QuietLaunch DEF Fewer, Launched
  <1>3. CASE Invoke(h)
    BY <1>0, <1>2, <1>3 DEF Invoke
  <1>4. CASE AcquirePlanLock(h)
    BY <1>2, <1>4 DEF AcquirePlanLock
  <1>5. CASE ReadState(h)
    BY <1>2, <1>5 DEF ReadState
  <1>6. ASSUME pc[h] = "select", CanSelect(h)
        PROVE  /\ NeedsRetry(disk) =>
                     RetryNow(h) /\ Selected(h) = RecoveryPhase(disk)
               /\ Selected(h) = None => Incomplete(disk, call[h].snap) = {}
    <2>1. /\ call[h].snap \in Versions /\ mem[h] \in RunnerStates
          /\ mem[h] = AcceptPlan(disk, call[h].snap)
      BY <1>0, <1>6, AcceptType DEF Holds, TypeInv, Placed, Invocation
    <2>2. /\ mem[h].active = disk.active /\ mem[h].stop = disk.stop
          /\ mem[h].completed = disk.completed
      BY <1>0, <2>1 DEF AcceptPlan, RunnerStates
    <2>3. Selected(h) = None => Incomplete(mem[h], call[h].snap) = {}
      BY <2>1, NothingLeft DEF Selected
    <2> QED
      BY <1>6, <2>2, <2>3
      DEF CanSelect, Selectable, Selected, SelectNextPhase, NeedsRetry,
          RecoveryPhase, Incomplete
  <1>7. CASE SelectPhase(h)
    <2>1. /\ call[h] \in Invocation /\ Selected(h) \in Phases \union {None}
          /\ Selected(h) # None
      <3>1. call[h] \in Invocation /\ call[h].snap \in Versions
        BY <1>0, <1>7 DEF SelectPhase, TypeInv, Placed, Invocation
      <3> QED
        BY <1>7, <3>1, SelectedType DEF SelectPhase, Selected, TypeInv, TypeOK
    <2>2. /\ call'[h].phase = Selected(h) /\ call'[h].retry = call[h].retry
          /\ call'[h].ran = call[h].ran
          /\ \A g \in Handlers \ {h} : call'[g] = call[g]
      BY <1>0, <1>7, <2>1 DEF SelectPhase, Invocation
    <2>3. Intent(h)'
      BY <1>0, <1>6, <1>7, <2>2
      DEF SelectPhase, Goto, Intent, Launching, RetryNow
    <2> QED
      BY <1>2, <1>7, <2>2, <2>3 DEF SelectPhase
  <1>8. CASE SelectNothing(h)
    <2>1. Intent(h)'
      BY <1>0, <1>6, <1>8 DEF SelectNothing, Goto, Intent, Launching
    <2> QED
      BY <1>2, <1>8, <2>1 DEF SelectNothing
  <1>9. CASE \/ PlanLockContention(h) \/ ReadRefused(h) \/ SelectRefused(h)
             \/ FinishFails(h) \/ PrepareFails(h) \/ OwnRefused(h)
    BY <1>1, <1>9
    DEF PlanLockContention, ReadRefused, SelectRefused, FinishFails,
        PrepareFails, OwnRefused, Refuse, Leave
  <1>10. CASE Finish(h)
    BY <1>10, FinishLaunch
  <1>11. CASE Prepare(h)
    BY <1>11, PrepareLaunch
  <1>12. CASE Launch(h) \/ RecordProcess(h) \/ CommitGoesOn(h) \/ CommitLeaves(h)
    BY <1>12, AttemptLaunch
  <1>13. CASE Artifacts(h)
    <2>1. Goto(h, "outcome") \/ (Goto(h, "spawn") /\ Intent(h)')
      <3>1. UNCHANGED <<disk, worker, call>> /\ pc[h] = "artifacts"
        BY <1>13 DEF Artifacts
      <3>2. Goto(h, "spawn") => Intent(h)'
        BY <1>0, <3>1 DEF LaunchInv, Intent, Goto, Launching, Launched, RetryNow
      <3> QED
        BY <1>13, <3>2 DEF Artifacts
    <2> QED
      BY <1>2, <1>13, <2>1 DEF Artifacts
  \* A session that ends only takes processes away.
  <1>14. ASSUME UNCHANGED <<disk, call>>, Fewer, NEW label \in {"cleanup", "outcome"},
                Goto(h, label)
         PROVE  LaunchInv'
    BY <1>0, <1>14, QuietLaunch DEF Goto
  <1>15. CASE LaunchFails(h) \/ SessionFails(h) \/ SessionSignalled(h)
    BY <1>14, <1>15 DEF LaunchFails, SessionFails, SessionSignalled, Fewer, Launched
  <1>16. ASSUME pc[h] \in Attempting
         PROVE  Mine(h) \in Attempts
    BY <1>16, MineType
  <1>17. CASE SessionEnds(h)
    <2>1. Fewer
      BY <1>0, <1>16, <1>17 DEF SessionEnds, Attempting, Fewer, Launched, Worker
    <2> QED
      BY <1>14, <1>17, <2>1 DEF SessionEnds
  <1>18. ASSUME pc[h] = "cleanup", GroupKilled(h)
         PROVE  Fewer
    BY <1>0, <1>16, <1>18 DEF GroupKilled, Attempting, Fewer, Launched, Worker
  <1>19. CASE Cleanup(h)
    BY <1>14, <1>18, <1>19 DEF Cleanup
  <1>20. CASE CleanupRaises(h)
    <2>1. /\ pc'[h] = "idle" /\ Fewer /\ UNCHANGED disk
          /\ \A g \in Handlers \ {h} : pc'[g] = pc[g] /\ call'[g] = call[g]
      BY <1>0, <1>18, <1>20 DEF CleanupRaises, Refuse, Leave, Vanish, Goto
    <2> QED
      BY <2>1, QuietLaunch
  <1>21. CASE WriteOutcome(h)
    BY <1>2, <1>21 DEF WriteOutcome
  <1>22. CASE WriteOutcomeFails(h) \/ CommitFails(h)
    BY <1>1, <1>22 DEF WriteOutcomeFails, CommitFails, Unrecorded, Leave
  <1> QED
    BY <1>3, <1>4, <1>5, <1>7, <1>8, <1>9, <1>10, <1>11, <1>12, <1>13, <1>15,
       <1>17, <1>19, <1>20, <1>21, <1>22
    DEF HandlerStep, Starting, Working, Recording

LEMMA EnvironmentLaunch ==
    ASSUME TypeInv, LaunchInv,
           \/ \E h \in Handlers : Signal(h) \/ Terminate(h) \/ Crash(h)
           \/ EditPlan \/ WorkerExits \/ WriteBack \/ KernelStops
    PROVE  LaunchInv'
  <1>0. /\ worker \in [Attempts -> Worker]
        /\ pc \in [Handlers -> {"idle", "lock", "read", "select", "finish",
                                "own", "artifacts", "spawn", "record",
                                "session", "cleanup", "outcome", "commit"}]
        /\ call \in [Handlers -> Invocation \union {None}]
    BY DEF TypeInv, TypeOK
  <1>1. ASSUME UNCHANGED <<disk, worker, pc, call>>
        PROVE  LaunchInv'
    BY <1>1, QuietLaunch DEF Fewer, Launched
  <1>2. ASSUME NEW h \in Handlers, Abandon(h), Vanish(h)
        PROVE  LaunchInv'
    <2>1. /\ pc'[h] = "idle"
          /\ \A g \in Handlers \ {h} : pc'[g] = pc[g] /\ call'[g] = call[g]
      BY <1>0, <1>2 DEF Vanish, Goto
    <2> QED
      BY <1>2, <2>1, QuietLaunch DEF Abandon, Fewer, Launched
  <1>3. ASSUME NEW h \in Handlers, Signal(h) \/ Terminate(h) \/ Crash(h)
        PROVE  LaunchInv'
    BY <1>1, <1>2, <1>3 DEF Signal, Terminate, Crash, Leave
  <1>4. CASE EditPlan \/ WriteBack
    BY <1>1, <1>4 DEF EditPlan, WriteBack
  <1>5. CASE WorkerExits
    <2>1. Fewer
      <3>1. PICK b \in Attempts, l \in {"group", "gone"} :
              /\ worker[b].live \in {"leader", "group"}
              /\ worker' = [worker EXCEPT ![b].live = l]
        BY <1>5 DEF WorkerExits
      <3> QED
        BY <1>0, <3>1 DEF Fewer, Launched, Worker
    <2> QED
      BY <1>5, <2>1, QuietLaunch DEF WorkerExits
  <1>6. CASE KernelStops
    <2>1. /\ PowerLoss # FALSE
          /\ \A h \in Handlers : pc'[h] = "idle"
          /\ \A a \in Attempts : worker'[a].live # "leader"
      <3>1. ASSUME NEW a \in Attempts
            PROVE  worker'[a].live # "leader"
        <4>1. /\ worker[a] \in Worker
              /\ worker'[a] = [worker[a] EXCEPT !.live =
                                  IF @ = "none" THEN @ ELSE "gone"]
          BY <1>0, <1>6 DEF KernelStops
        <4> QED
          BY <4>1 DEF Worker
      <3>2. PowerLoss # FALSE
        BY <1>6 DEF KernelStops
      <3> QED
        BY <1>6, <3>1, <3>2 DEF KernelStops
    <2> QED
      BY <2>1 DEF LaunchInv, Tracked, Intent, Launching
  <1> QED
    BY <1>3, <1>4, <1>5, <1>6

LEMMA LaunchInvInductive ==
    TypeInv /\ StateInv /\ OutcomeInv /\ LaunchInv /\ [Next]_vars => LaunchInv'
  <1> SUFFICES ASSUME TypeInv, StateInv, OutcomeInv, LaunchInv, [Next]_vars
               PROVE  LaunchInv'
    OBVIOUS
  <1>1. CASE Next
    BY <1>1, HandlerLaunch, EnvironmentLaunch DEF Next
  <1>2. CASE UNCHANGED vars
    BY <1>2, QuietLaunch DEF vars, Fewer, Launched
  <1> QED
    BY <1>1, <1>2

LEMMA InitLaunch == Init => LaunchInv
  BY DEF Init, LaunchInv, Tracked, Expected, Intent, Launching, Launched, NoWorker

LEMMA LaunchInvCorrect ==
    Spec => [](TypeInv /\ StateInv /\ OutcomeInv /\ LaunchInv)
  <1>1. Init => TypeInv /\ StateInv /\ OutcomeInv /\ LaunchInv
    BY InitTypes, InitState, InitOutcome, InitLaunch
  <1>2. TypeInv /\ StateInv /\ OutcomeInv /\ LaunchInv /\ [Next]_vars
           => (TypeInv /\ StateInv /\ OutcomeInv /\ LaunchInv)'
    BY TypeInvInductive, StateInvInductive, OutcomeInvInductive,
       LaunchInvInductive
  <1> QED
    BY <1>1, <1>2, PTL DEF Spec

\* Whatever handlers die, retry and stop with the kernel, a worker never runs
\* beside an earlier one whose identity was recorded.
THEOREM OverlapCorrect == Spec => []NoIdentifiedOverlap
  <1>1. ASSUME TypeInv, LaunchInv
        PROVE  NoIdentifiedOverlap
    <2> SUFFICES ASSUME NEW a \in Attempts, NEW b \in Attempts, a < b,
                        worker[a].live = "leader", worker[b].live = "leader",
                        worker[a].named
                 PROVE  FALSE
      BY <1>1 DEF NoIdentifiedOverlap
    <2>1. disk.active # None /\ disk.active.id = a /\ b <= disk.active.id
      BY <1>1 DEF LaunchInv, Tracked
    <2> QED
      BY <2>1, RunnerAssumption
  <1>2. TypeInv /\ LaunchInv => NoIdentifiedOverlap
    BY <1>1
  <1> QED
    BY <1>2, LaunchInvCorrect, PTL

\* Unless the kernel stops, no phase a worker was launched for is launched
\* again by an invocation called without --retry-stopped.
THEOREM RepeatCorrect ==
    ASSUME PowerLoss = FALSE
    PROVE  Spec => []RepeatIsExplicit
  <1>1. StateInv /\ LaunchInv => RepeatIsExplicit
    BY DEF LaunchInv, Intent, Launching, RepeatIsExplicit, StateInv, Holds,
           Attempting, Mine
  <1> QED
    BY <1>1, LaunchInvCorrect, PTL
-----------------------------------------------------------------------------
(* What an invocation reports *)

Truthful == CompleteIsTrue /\ LaunchedUnresolvedIsOnDisk

\* A report of anything but success may be made any time, if it shows no
\* attempt, the active one, or one that was never launched.
LEMMA LeaveTruthful ==
    ASSUME NEW h \in Handlers, NEW exit, NEW entry, Leave(h, exit, entry, FALSE),
           \/ entry = None
           \/ disk'.active # None /\ disk'.active.id = entry
           \/ worker'[entry].live = "none"
    PROVE  Truthful'
  <1>1. /\ report'.shown = entry /\ report'.allDone = FALSE
    BY DEF Leave
  <1>2. None \notin Attempts
    BY RunnerAssumption, NoneAssumption
  <1> QED
    BY <1>1, <1>2
    DEF Truthful, CompleteIsTrue, LaunchedUnresolvedIsOnDisk, Launched

LEMMA FinishTruthful ==
    ASSUME TypeInv, StateInv, LaunchInv, NEW h \in Handlers, Finish(h)
    PROVE  Truthful'
  <1>1. /\ report'.shown = None /\ disk \in RunnerStates
        /\ call[h].snap \in Versions /\ ~NeedsRetry(disk)
        /\ disk' = Finished(AcceptPlan(disk, call[h].snap))
        /\ Incomplete(disk, call[h].snap) = {}
    BY DEF Finish, Leave, TypeInv, TypeOK, Placed, StateInv, Holds, LaunchInv,
           Intent, Invocation
  <1>2. /\ disk'.completed = disk.completed /\ disk'.active = None
        /\ disk'.stop = None /\ disk'.plan = call[h].snap
    BY <1>1 DEF Finished, AcceptPlan, RunnerStates, NeedsRetry
  <1>3. /\ disk'.plan # None /\ Incomplete(disk', disk'.plan) = {}
        /\ ~NeedsRetry(disk')
    BY <1>1, <1>2, NoneAssumption DEF Incomplete, NeedsRetry
  <1>4. None \notin Attempts
    BY RunnerAssumption, NoneAssumption
  <1> QED
    BY <1>1, <1>3, <1>4 DEF Truthful, CompleteIsTrue, LaunchedUnresolvedIsOnDisk

LEMMA StepTruthful ==
    TypeInv /\ StateInv /\ OutcomeInv /\ LaunchInv /\ Truthful /\ [Next]_vars
       => Truthful'
  <1> SUFFICES ASSUME TypeInv, StateInv, OutcomeInv, LaunchInv, Truthful,
                      [Next]_vars
               PROVE  Truthful'
    OBVIOUS
  <1>1. CASE Silent
    BY <1>1 DEF Silent, Truthful, CompleteIsTrue, LaunchedUnresolvedIsOnDisk
  <1>2. CASE UNCHANGED vars
    BY <1>2 DEF vars, Truthful, CompleteIsTrue, LaunchedUnresolvedIsOnDisk,
                Incomplete, NeedsRetry, Launched
  <1>3. ASSUME NEW h \in Handlers, Starting(h)
        PROVE  Truthful'
    <2>1. CASE \/ AcquirePlanLock(h) \/ ReadState(h) \/ SelectPhase(h)
               \/ SelectNothing(h) \/ Prepare(h)
      BY <1>1, <2>1 DEF AcquirePlanLock, ReadState, SelectPhase, SelectNothing,
                        Prepare
    <2>2. CASE \/ PlanLockContention(h) \/ ReadRefused(h) \/ SelectRefused(h)
               \/ FinishFails(h) \/ OwnRefused(h)
      BY <2>2, LeaveTruthful
      DEF PlanLockContention, ReadRefused, SelectRefused, FinishFails,
          OwnRefused, Refuse
    <2>3. CASE Finish(h)
      BY <2>3, FinishTruthful
    <2>4. CASE PrepareFails(h)
      <3>1. worker'[nextId].live = "none"
        BY <2>4 DEF PrepareFails, OutcomeInv, TypeInv, TypeOK
      <3> QED
        BY <2>4, <3>1, LeaveTruthful DEF PrepareFails
    <2> QED
      BY <1>3, <2>1, <2>2, <2>3, <2>4 DEF Starting
  <1>4. ASSUME NEW h \in Handlers, Working(h)
        PROVE  Truthful'
    BY <1>1, <1>4, LeaveTruthful
    DEF Working, Artifacts, Launch, LaunchFails, RecordProcess, SessionEnds,
        SessionFails, SessionSignalled, Cleanup, CleanupRaises, Refuse
  <1>5. ASSUME NEW h \in Handlers, Recording(h)
        PROVE  Truthful'
    <2>1. CASE WriteOutcome(h) \/ CommitGoesOn(h)
      BY <1>1, <2>1 DEF WriteOutcome, CommitGoesOn
    <2>2. CASE CommitLeaves(h)
      BY <2>2, LeaveTruthful DEF CommitLeaves
    <2>3. CASE WriteOutcomeFails(h) \/ CommitFails(h)
      <3>1. /\ Unrecorded(h) /\ UNCHANGED disk
            /\ disk.active # None /\ disk.active.id = Mine(h)
        BY <2>3 DEF WriteOutcomeFails, CommitFails, StateInv, Holds, Attempting,
                    Mine
      <3> QED
        BY <3>1, LeaveTruthful DEF Unrecorded
    <2> QED
      BY <1>5, <2>1, <2>2, <2>3 DEF Recording
  <1>6. ASSUME NEW h \in Handlers,
               Invoke(h) \/ Signal(h) \/ Terminate(h) \/ Crash(h)
        PROVE  Truthful'
    BY <1>1, <1>6, LeaveTruthful DEF Invoke, Signal, Terminate, Crash
  <1>7. CASE EditPlan \/ WorkerExits \/ WriteBack \/ KernelStops
    BY <1>1, <1>7 DEF EditPlan, WorkerExits, WriteBack, KernelStops
  <1> QED
    BY <1>2, <1>3, <1>4, <1>5, <1>6, <1>7 DEF Next, HandlerStep

LEMMA TruthfulCorrect == Spec => []Truthful
  <1>1. Init => Truthful
    BY DEF Init, Truthful, CompleteIsTrue, LaunchedUnresolvedIsOnDisk
  <1> QED
    BY <1>1, StepTruthful, LaunchInvCorrect, PTL DEF Spec

\* "runner-complete" is never reported while a phase of the plan accepted is
\* not recorded completed, or one waits for a retry.
THEOREM CompleteCorrect == Spec => []CompleteIsTrue
  <1>1. Truthful => CompleteIsTrue
    BY DEF Truthful
  <1> QED
    BY <1>1, TruthfulCorrect, PTL

\* A launched attempt reported as unresolved is the one the next invocation
\* finds in state.json.
THEOREM UnresolvedCorrect == Spec => []LaunchedUnresolvedIsOnDisk
  <1>1. Truthful => LaunchedUnresolvedIsOnDisk
    BY DEF Truthful
  <1> QED
    BY <1>1, TruthfulCorrect, PTL

-----------------------------------------------------------------------------
(* What replaces state.json *)

\* The steps that replace state.json, and what they replace it with.
Claims(h) ==
    /\ pc[h] = "own" /\ MayLaunch(h)
    /\ disk' = Prepared(AcceptPlan(disk, call[h].snap), nextId, call[h].phase,
                        call[h].snap)
    /\ mem[h].active = disk.active
    /\ call[h].phase \in Phases \ Range(disk.completed)
    /\ call[h].snap \in Versions
    /\ NeedsRetry(disk) => RetryNow(h) /\ call[h].phase = RecoveryPhase(disk)

Records == disk.active # None /\ \E b \in BOOLEAN : disk' = Running(disk, b)

Concludes(status) == disk.active # None /\ disk' = Conclude(disk, status)

Finishes ==
    ~NeedsRetry(disk) /\ \E v \in Versions : disk' = Finished(AcceptPlan(disk, v))

LEMMA Replacements ==
    ASSUME PowerLoss = FALSE, TypeInv, StateInv, LaunchInv, [Next]_vars
    PROVE  \/ UNCHANGED disk
           \/ \E h \in Handlers : Claims(h)
           \/ Records
           \/ \E status \in AttemptStatus : Concludes(status)
           \/ Finishes
  <1>1. ASSUME NEW h \in Handlers, Prepare(h)
        PROVE  Claims(h)
    <2>1. /\ disk \in RunnerStates /\ mem[h] = AcceptPlan(disk, call[h].snap)
          /\ call[h].phase \in Phases \ Range(disk.completed)
          /\ call[h].snap \in Versions
      BY <1>1 DEF Prepare, TypeInv, TypeOK, Placed, StateInv, Holds, Invocation
    <2>2. mem[h].active = disk.active
      BY <2>1 DEF AcceptPlan, RunnerStates
    <2> QED
      BY <1>1, <2>1, <2>2 DEF Prepare, Claim, Claims, LaunchInv, Intent
  <1>2. ASSUME NEW h \in Handlers, RecordProcess(h)
        PROVE  Records
    BY <1>2 DEF RecordProcess, Records, StateInv, Holds, Attempting
  <1>3. ASSUME NEW h \in Handlers, CommitGoesOn(h) \/ CommitLeaves(h)
        PROVE  Concludes(ending[h]) /\ ending[h] \in AttemptStatus
    BY <1>3 DEF CommitGoesOn, CommitLeaves, Updated, Concludes, StateInv, Holds,
                Attempting, TypeInv, Placed
  <1>4. ASSUME NEW h \in Handlers, Finish(h)
        PROVE  Finishes
    BY <1>4 DEF Finish, Finishes, StateInv, Holds, TypeInv, TypeOK, Placed,
                Invocation
  <1>5. ASSUME NEW h \in Handlers, Starting(h), ~Prepare(h), ~Finish(h)
        PROVE  UNCHANGED disk
    BY <1>5 DEF Starting, AcquirePlanLock, PlanLockContention, ReadState,
                ReadRefused, SelectPhase, SelectNothing, SelectRefused,
                FinishFails, PrepareFails, OwnRefused
  <1>6. ASSUME NEW h \in Handlers, Working(h), ~RecordProcess(h)
        PROVE  UNCHANGED disk
    BY <1>6 DEF Working, Artifacts, Launch, LaunchFails, SessionEnds,
                SessionFails, SessionSignalled, Cleanup, CleanupRaises
  <1>7. ASSUME NEW h \in Handlers, Recording(h), ~CommitGoesOn(h), ~CommitLeaves(h)
        PROVE  UNCHANGED disk
    BY <1>7 DEF Recording, WriteOutcome, WriteOutcomeFails, CommitFails
  <1>8. ASSUME NEW h \in Handlers,
               Invoke(h) \/ Signal(h) \/ Terminate(h) \/ Crash(h)
        PROVE  UNCHANGED disk
    BY <1>8 DEF Invoke, Signal, Terminate, Crash, Abandon
  <1>9. CASE EditPlan \/ WorkerExits \/ WriteBack
    BY <1>9 DEF EditPlan, WorkerExits, WriteBack
  <1>10. ~KernelStops
    BY DEF KernelStops
  <1>11. CASE UNCHANGED vars
    BY <1>11 DEF vars
  <1> QED
    BY <1>1, <1>2, <1>3, <1>4, <1>5, <1>6, <1>7, <1>8, <1>9, <1>10, <1>11
    DEF Next, HandlerStep
-----------------------------------------------------------------------------
(* Refinement *)

LEMMA ClaimRefines ==
    ASSUME TypeInv, StateInv, NEW h \in Handlers, Claims(h)
    PROVE  Ledger!LNext
  <1> DEFINE p == call[h].phase
  <1>1. /\ disk \in RunnerStates /\ nextId \in Nat /\ Sound(disk, nextId)
        /\ p \in Phases /\ p \notin Range(disk.completed)
        /\ call[h].snap \in Versions
    BY DEF Claims, TypeInv, TypeOK, StateInv
  <1>2. /\ disk'.completed = disk.completed /\ disk'.active # None
        /\ disk'.active.id = nextId /\ disk'.active.phase = p
    BY <1>1, ClaimIs DEF Claims
  <1>3. disk'.outcomes = disk.outcomes
    BY <1>1, OthersLinkNothing DEF Claims
  <1>4. disk'.stop = None
    <2>1. ResolveAbandoned(AcceptPlan(disk, call[h].snap)) \in RunnerStates
      BY <1>1, AcceptType, ResolveType
    <2> QED
      BY <2>1 DEF Claims, Prepared, RunnerStates
  <1>5. \A i \in DOMAIN disk.outcomes :
           disk.outcomes[i].attempt \in Nat /\ disk.outcomes[i].attempt < nextId
    BY <1>1, MentionedType DEF Sound, Mentioned
  <1>6. ~\E k \in DOMAIN disk.outcomes : disk.outcomes[k].attempt = nextId
    BY <1>1, <1>5
  <1>7. ~\E k \in DOMAIN disk.completed : disk.completed[k] = p
    BY <1>1 DEF Range
  <1>8. [id |-> nextId, phase |-> p] # None
    BY <1>1, LedgerAssumption
  <1> DEFINE later == [id |-> nextId, phase |-> p]
  <1>9. CASE disk.active = None
    <2>1. disk.stop \in {None} \/ disk.stop.phase = p
      BY <1>9 DEF Claims, NeedsRetry, RecoveryPhase
    <2>2. disk.stop # None => disk.stop.phase \in Phases
      BY <1>1 DEF RunnerStates, StopState
    <2>3. Ledger!LOpen(p, nextId)
      BY <1>2, <1>3, <1>4, <1>6, <1>7, <1>9, <2>1
      DEF Ledger!LOpen, Ledger!Done, Ledger!Entered
    <2> QED
      BY <1>1, <1>2, <1>8, <2>3 DEF Ledger!LNext
  <1>10. CASE disk.active # None
    <2>0. disk.active \in ActiveAttempt /\ disk.active.id \in Nat
      BY <1>1, <1>10 DEF RunnerStates, ActiveAttempt
    <2>1. /\ disk.active.phase = p /\ disk.stop = None
          /\ disk.active.id # nextId
      <3>1. disk.active.phase = p
        BY <1>10 DEF Claims, NeedsRetry, RecoveryPhase
      <3>2. disk.stop = None
        BY <1>1, <1>10 DEF Sound, ValidState, ValidActive
      <3>3. disk.active.id < nextId
        BY <1>1, <1>10 DEF Sound, Mentioned
      <3> QED
        BY <1>1, <2>0, <3>1, <3>2, <3>3
    <2>2. [id |-> disk.active.id, phase |-> disk.active.phase] # None
      BY <2>0, LedgerAssumption DEF ActiveAttempt
    <2>3. Ledger!LReopen(nextId)
      BY <1>2, <1>3, <1>4, <1>6, <1>10, <2>1, <2>2
      DEF Ledger!LReopen, Ledger!Entered
    <2> QED
      BY <1>1, <1>2, <1>8, <2>3 DEF Ledger!LNext
  <1> QED
    BY <1>9, <1>10

LEMMA ConcludeRefines ==
    ASSUME TypeInv, StateInv, NEW status \in AttemptStatus, Concludes(status)
    PROVE  Ledger!LNext
  <1> DEFINE p == disk.active.phase
  <1>1. /\ disk \in RunnerStates /\ disk.active # None
        /\ disk.active \in ActiveAttempt /\ p \notin Range(disk.completed)
        /\ disk' = Conclude(disk, status)
    BY DEF Concludes, TypeInv, TypeOK, StateInv, Sound, ValidState,
           ValidActive, RunnerStates
  <1>2. /\ disk'.active = None
        /\ disk'.outcomes = Append(disk.outcomes,
              [attempt |-> disk.active.id, phase |-> p, status |-> status])
        /\ disk'.completed = IF status = "phase-complete"
                             THEN Append(disk.completed, p) ELSE disk.completed
        /\ disk'.stop = IF status = "phase-complete" THEN None
                        ELSE [reason |-> status, phase |-> p]
    BY <1>1 DEF Conclude, RunnerStates
  <1>3. p \in Phases /\ [id |-> disk.active.id, phase |-> p] # None
    BY <1>1, LedgerAssumption DEF ActiveAttempt
  <1>4. status # "phase-complete" =>
           [reason |-> status, phase |-> p] # None
    <2>1. status # "phase-complete" =>
             [reason |-> status, phase |-> p] \in StopState
      BY <1>3 DEF AttemptStatus, StopState
    <2> QED
      BY <2>1, NoneAssumption
  <1>5. Ledger!LConclude(status)
    <2>1. CASE status = "phase-complete"
      BY <1>1, <1>2, <1>3, <2>1 DEF Ledger!LConclude
    <2>2. CASE status # "phase-complete"
      BY <1>1, <1>2, <1>3, <1>4, <2>2 DEF Ledger!LConclude
    <2> QED
      BY <2>1, <2>2
  <1> QED
    BY <1>5 DEF Ledger!LNext

\* Every step of PlanRunner is a step of the ledger, or one it does not see.
LEMMA StepRefines ==
    ASSUME PowerLoss = FALSE, TypeInv, StateInv, LaunchInv, [Next]_vars
    PROVE  [Ledger!LNext]_(Ledger!ledger)
  <1>0. disk \in RunnerStates
    BY DEF TypeInv, TypeOK
  <1>1. ASSUME disk'.active = None <=> disk.active = None,
               disk.active # None => /\ disk'.active.id = disk.active.id
                                     /\ disk'.active.phase = disk.active.phase,
               disk'.stop = disk.stop, disk'.completed = disk.completed,
               disk'.outcomes = disk.outcomes
        PROVE  UNCHANGED Ledger!ledger
    BY <1>1 DEF Ledger!ledger
  <1>2. CASE UNCHANGED disk
    BY <1>1, <1>2
  <1>3. ASSUME NEW h \in Handlers, Claims(h)
        PROVE  Ledger!LNext
    BY <1>3, ClaimRefines
  <1>4. CASE Records
    <2>1. PICK b \in BOOLEAN : disk' = Running(disk, b)
      BY <1>4 DEF Records
    <2> DEFINE new == [disk.active EXCEPT !.status = "running", !.process = b]
    <2>2. disk' = [disk EXCEPT !.active = new]
      BY <1>0, <2>1, RunningIs
    <2> HIDE DEF new
    <2>3. disk'.stop = disk.stop
      BY <1>0, <2>2 DEF RunnerStates
    <2>4. /\ disk'.completed = disk.completed /\ disk'.outcomes = disk.outcomes
          /\ disk'.active.id = disk.active.id
          /\ disk'.active.phase = disk.active.phase
          /\ disk.active # None /\ disk'.active # None
      BY <1>0, <1>4, <2>1, RunningKeeps, RunningType, NoneAssumption DEF Records
    <2> QED
      BY <1>1, <2>3, <2>4
  <1>5. ASSUME NEW status \in AttemptStatus, Concludes(status)
        PROVE  Ledger!LNext
    BY <1>5, ConcludeRefines
  <1>6. CASE Finishes
    <2>1. PICK v \in Versions : disk' = Finished(AcceptPlan(disk, v))
      BY <1>6 DEF Finishes
    <2>2. /\ disk'.completed = disk.completed /\ disk'.outcomes = disk.outcomes
          /\ disk'.active = disk.active /\ disk'.stop = None
          /\ disk.active = None /\ disk.stop = None
      BY <1>0, <1>6, <2>1
      DEF Finishes, Finished, AcceptPlan, RunnerStates, NeedsRetry
    <2> QED
      BY <1>1, <2>2
  <1> QED
    BY <1>2, <1>3, <1>4, <1>5, <1>6, Replacements

\* While the kernel keeps running, state.json keeps the lifecycle that
\* docs/state-and-recovery.md promises, whatever handlers die and race and
\* whatever the operator edits: PlanRunner implements AttemptLedger.
THEOREM LedgerCorrect ==
    ASSUME PowerLoss = FALSE
    PROVE  Spec => KeepsLedger
  <1>1. Init => Ledger!LInit
    BY DEF Init, EmptyState, Ledger!LInit
  <1>2. TypeInv /\ StateInv /\ LaunchInv /\ [Next]_vars
           => [Ledger!LNext]_(Ledger!ledger)
    BY StepRefines
  <1> QED
    BY <1>1, <1>2, LaunchInvCorrect, PTL DEF Spec, KeepsLedger, Ledger!LSpec
-----------------------------------------------------------------------------
(* Recovery *)

\* What RecoveryIsExplicit says of a step.
TakenUp(h) ==
    /\ pc[h] = "own" /\ RetryNow(h)
    /\ disk'.active # None
    /\ disk'.active.phase = RecoveryPhase(disk)
    /\ disk.active # None =>
          /\ disk'.active.workspace = disk.active.workspace
          /\ disk'.last.attempt = disk.active.id
          /\ ~disk'.last.linked

Concluded ==
    /\ disk.active # None
    /\ \/ disk'.active # None /\ disk'.active.id = disk.active.id
       \/ \E i \in DOMAIN disk'.outcomes :
             disk'.outcomes[i].attempt = disk.active.id

LEMMA ClaimRecovers ==
    ASSUME TypeInv, StateInv, NEW h \in Handlers, Claims(h), NeedsRetry(disk)
    PROVE  TakenUp(h)
  <1> DEFINE p == call[h].phase
             v == call[h].snap
             a == AcceptPlan(disk, v)
             r == ResolveAbandoned(a)
             new == [id |-> nextId, status |-> "prepared", phase |-> p,
                     snapshot |-> v, workspace |-> WorkspaceOf[v][p],
                     process |-> FALSE]
  <1>1. /\ disk \in RunnerStates /\ nextId \in Nat
        /\ p \in Phases /\ v \in Versions
    BY DEF Claims, TypeInv, TypeOK
  <1>2. a \in RunnerStates /\ r \in RunnerStates /\ a.active = disk.active
    BY <1>1, AcceptType, ResolveType DEF AcceptPlan, RunnerStates
  <1>3. disk' = [r EXCEPT !.current = p, !.active = new, !.stop = None]
    BY DEF Claims, Prepared
  <1>4. disk'.active # None
    BY <1>1, ClaimIs DEF Claims
  <1>5. disk'.active = new /\ disk'.last = r.last
    <2> HIDE DEF new, r
    <2> QED
      BY <1>2, <1>3 DEF RunnerStates
  <1>6. new.phase = p /\ new.workspace = WorkspaceOf[v][p]
    OBVIOUS
  <1>7. p = RecoveryPhase(disk) /\ pc[h] = "own" /\ RetryNow(h)
        /\ (disk.active # None => disk.active.workspace = WorkspaceOf[v][p])
    BY DEF Claims, MayLaunch
  <1>8. ASSUME disk.active # None
        PROVE  r.last.attempt = disk.active.id /\ ~r.last.linked
    <2> DEFINE last == [attempt |-> disk.active.id, phase |-> disk.active.phase,
                        status |-> "interrupted", linked |-> FALSE]
    <2>1. r = [a EXCEPT !.active = None, !.stop = None, !.last = last]
      BY <1>2, <1>8 DEF ResolveAbandoned
    <2>2. last.attempt = disk.active.id /\ last.linked = FALSE
      OBVIOUS
    <2>3. r.last = last
      <3> HIDE DEF last, r, a
      <3> QED
        BY <1>2, <2>1 DEF RunnerStates
    <2> QED
      BY <2>2, <2>3
  <1> HIDE DEF new, r, a
  <1> QED
    BY <1>4, <1>5, <1>6, <1>7, <1>8 DEF TakenUp

\* A stopped phase or an abandoned attempt is taken up by nothing but an
\* invocation with --retry-stopped, and keeps its workspace.
THEOREM RecoveryCorrect ==
    ASSUME PowerLoss = FALSE
    PROVE  Spec => RecoveryIsExplicit
  <1> DEFINE Step == NeedsRetry(disk) /\ disk' # disk =>
                       (\E h \in Handlers : TakenUp(h)) \/ Concluded
  <1>1. ASSUME TypeInv, StateInv, LaunchInv, [Next]_vars
        PROVE  Step
    <2>1. disk \in RunnerStates
      BY <1>1 DEF TypeInv, TypeOK
    <2>2. ASSUME NEW h \in Handlers, Claims(h), NeedsRetry(disk)
          PROVE  TakenUp(h)
      BY <1>1, <2>2, ClaimRecovers
    <2>3. CASE Records
      BY <2>1, <2>3, RunningType, NoneAssumption DEF Records, Concluded
    <2>4. ASSUME NEW status \in AttemptStatus, Concludes(status)
          PROVE  Concluded
      <3>1. Link(disk, status) \in Range(disk'.outcomes)
        BY <2>1, <2>4, ConcludeLinks DEF Concludes
      <3>2. PICK i \in DOMAIN disk'.outcomes : disk'.outcomes[i] = Link(disk, status)
        BY <3>1 DEF Range
      <3> QED
        BY <2>4, <3>2 DEF Concludes, Concluded, Link
    <2> QED
      BY <1>1, <2>2, <2>3, <2>4, Replacements DEF Finishes
  <1>2. TypeInv /\ StateInv /\ LaunchInv /\ [Next]_vars
           => [NeedsRetry(disk) /\ disk' # disk =>
                 \/ \E h \in Handlers : TakenUp(h)
                 \/ Concluded]_vars
    BY <1>1
  <1> QED
    BY <1>2, LaunchInvCorrect, PTL
    DEF Spec, RecoveryIsExplicit, TakenUp, Concluded

-----------------------------------------------------------------------------
(* status *)

\* What a state read earlier still tells of the one on disk: what it has
\* completed is completed, its attempts were drawn before, and the attempt
\* now active is its own or a later one.
SeenInv ==
    seen # None =>
        /\ seen \in RunnerStates
        /\ Range(seen.completed) \subseteq Range(disk.completed)
        /\ \A id \in Mentioned(seen) : id < nextId
        /\ disk.active # None =>
              \/ seen.active # None /\ seen.active.id = disk.active.id
              \/ \A id \in Mentioned(seen) : id < disk.active.id

LEMMA StatusImplements == StatusSpec => Spec
  <1>1. StatusInit => Init
    BY DEF StatusInit
  <1>2. [StatusNext]_all => [Next]_vars
    BY DEF StatusNext, RunStep, StatusReads, StatusShows, all
  <1> QED
    BY <1>1, <1>2, PTL DEF StatusSpec, Spec

LEMMA NextIdGrows ==
    ASSUME TypeInv, [Next]_vars
    PROVE  nextId' \in {nextId, nextId + 1}
  BY ZenonT(40) DEF Next, HandlerStep, Starting, Working, Recording, Invoke, Signal,
         Terminate, Crash, EditPlan, WorkerExits, WriteBack, KernelStops,
         AcquirePlanLock, PlanLockContention, ReadState, ReadRefused,
         SelectPhase, SelectNothing, SelectRefused, Finish, FinishFails,
         Prepare, PrepareFails, OwnRefused, Artifacts, Launch, LaunchFails,
         RecordProcess, SessionEnds, SessionFails, SessionSignalled, Cleanup,
         CleanupRaises, WriteOutcome, WriteOutcomeFails, CommitGoesOn,
         CommitLeaves, CommitFails, Abandon, vars

\* completed only grows, and an attempt stays, ends, or is a new one.
LEMMA StateAdvances ==
    ASSUME PowerLoss = FALSE, TypeInv, StateInv, LaunchInv, [Next]_vars
    PROVE  /\ Range(disk.completed) \subseteq Range(disk'.completed)
           /\ \/ disk'.active = None
              \/ disk.active # None /\ disk'.active.id = disk.active.id
              \/ disk'.active.id = nextId
  <1>0. disk \in RunnerStates /\ nextId \in Nat
    BY DEF TypeInv, TypeOK
  <1>1. CASE UNCHANGED disk
    BY <1>1
  <1>2. ASSUME NEW h \in Handlers, Claims(h)
        PROVE  disk'.completed = disk.completed /\ disk'.active.id = nextId
    BY <1>0, <1>2, ClaimIs DEF Claims
  <1>3. CASE Records
    BY <1>0, <1>3, RunningKeeps DEF Records
  <1>4. ASSUME NEW status \in AttemptStatus, Concludes(status)
        PROVE  /\ Range(disk.completed) \subseteq Range(disk'.completed)
               /\ disk'.active = None
    BY <1>0, <1>4, ConcludeLinks, ConcludePending DEF Concludes
  <1>5. CASE Finishes
    BY <1>0, <1>5
    DEF Finishes, Finished, AcceptPlan, RunnerStates, NeedsRetry
  <1> QED
    BY <1>1, <1>2, <1>3, <1>4, <1>5, Replacements

LEMMA SeenInvInductive ==
    ASSUME PowerLoss = FALSE, TypeInv, StateInv, LaunchInv, SeenInv,
           [StatusNext]_all
    PROVE  SeenInv'
  <1>0. disk \in RunnerStates /\ nextId \in Nat /\ Sound(disk, nextId)
    BY DEF TypeInv, TypeOK, StateInv
  <1>1. CASE RunStep
    <2> SUFFICES ASSUME seen # None
                 PROVE  SeenInv'
      BY <1>1 DEF RunStep, SeenInv
    <2>1. /\ seen' = seen /\ nextId' \in {nextId, nextId + 1}
          /\ Mentioned(seen) \subseteq Nat
      BY <1>1, NextIdGrows, MentionedType DEF RunStep, SeenInv
    <2>2. /\ Range(disk.completed) \subseteq Range(disk'.completed)
          /\ \/ disk'.active = None
             \/ disk.active # None /\ disk'.active.id = disk.active.id
             \/ disk'.active.id = nextId
      BY <1>1, StateAdvances DEF RunStep
    <2> QED
      BY <1>0, <2>1, <2>2 DEF SeenInv
  <1>2. CASE StatusReads
    <2>1. seen' = disk /\ UNCHANGED <<disk, nextId>>
      BY <1>2 DEF StatusReads, vars
    <2>2. \A id \in Mentioned(disk) : id < nextId
      BY <1>0 DEF Sound
    <2> QED
      BY <1>0, <2>1, <2>2 DEF SeenInv
  <1>3. CASE StatusShows
    BY <1>3 DEF StatusShows, SeenInv
  <1>4. CASE UNCHANGED all
    BY <1>4 DEF all, readers, vars, SeenInv
  <1> QED
    BY <1>1, <1>2, <1>3, <1>4 DEF StatusNext

LEMMA SeenInvCorrect ==
    ASSUME PowerLoss = FALSE
    PROVE  StatusSpec => [](TypeInv /\ StateInv /\ LaunchInv /\ SeenInv)
  <1>1. StatusInit => SeenInv
    BY DEF StatusInit, SeenInv
  <1>2. TypeInv /\ StateInv /\ LaunchInv /\ SeenInv /\ [StatusNext]_all => SeenInv'
    BY SeenInvInductive
  <1> QED
    BY <1>1, <1>2, StatusImplements, LaunchInvCorrect, PTL DEF StatusSpec

\* While the kernel keeps running, status never hides a worker state.json can
\* identify, however many handlers died, retried and finished since it read.
THEOREM StatusHidesNone ==
    ASSUME PowerLoss = FALSE
    PROVE  StatusSpec => []StatusHidesNoWorker
  <1>1. ASSUME LaunchInv, SeenInv
        PROVE  StatusHidesNoWorker
    BY <1>1 DEF LaunchInv, Tracked, SeenInv, StatusHidesNoWorker
  <1>2. LaunchInv /\ SeenInv => StatusHidesNoWorker
    BY <1>1
  <1> QED
    BY <1>2, SeenInvCorrect, PTL

\* Selection looks at the phases completed, the stop and the active attempt.
LEMMA SelectsFirst ==
    ASSUME NEW s \in RunnerStates, NEW v \in Versions, ~NeedsRetry(s)
    PROVE  LET p == SelectNextPhase(s, v) IN
           /\ p = None => Incomplete(s, v) = {}
           /\ p # None => \E n \in Incomplete(s, v) :
                 p = PhasesOf[v][n] /\ \A i \in Incomplete(s, v) : n <= i
  <1> DEFINE p == SelectNextPhase(s, v)
  <1>1. p = None => Incomplete(s, v) = {}
    BY NothingLeft
  <1>2. ASSUME p # None
        PROVE  \E n \in Incomplete(s, v) :
                 p = PhasesOf[v][n] /\ \A i \in Incomplete(s, v) : n <= i
    <2>1. Incomplete(s, v) # {}
      BY <1>2 DEF SelectNextPhase
    <2>2. Incomplete(s, v) \in SUBSET Nat
      BY PlanAssumption DEF Incomplete
    <2>3. \E i \in Incomplete(s, v) : \A j \in Incomplete(s, v) : i <= j
      BY <2>1, <2>2, Least
    <2> DEFINE n == CHOOSE i \in Incomplete(s, v) :
                       \A j \in Incomplete(s, v) : i <= j
    <2>4. n \in Incomplete(s, v) /\ \A j \in Incomplete(s, v) : n <= j
      BY <2>3
    <2>5. p = PhasesOf[v][n]
      BY <2>1 DEF SelectNextPhase
    <2> HIDE DEF n
    <2> QED
      BY <2>4, <2>5
  <1> QED
    BY <1>1, <1>2

\* A status that shows a next phase, or that all is complete, selected it.
LEMMA ShowsSelected ==
    ASSUME NEW s \in RunnerStates, NEW v \in Versions, NEW valid,
           Shows(s, v, valid) # None,
           Shows(s, v, valid).kind \in {"complete", "next"}
    PROVE  ~NeedsRetry(s) /\ Shows(s, v, valid).phase = SelectNextPhase(s, v)
  <1>1. CASE NeedsRetry(s)
    BY <1>1 DEF Shows, Kind, NeedsRetry
  <1>2. CASE ~NeedsRetry(s)
    <2>1. ~PlanError(s, v, valid)
      BY <1>2 DEF Shows
    <2>2. StatusPhase(s, v) = SelectNextPhase(s, v)
      BY <1>2, <2>1 DEF PlanError, StatusPhase, NeedsRetry
    <2> QED
      BY <1>2, <2>1, <2>2 DEF Shows
  <1> QED
    BY <1>1, <1>2

\* While the kernel keeps running, what status says is done is done when it
\* says so, in the plan as it is then, although it locked neither file.
THEOREM StatusDone ==
    ASSUME PowerLoss = FALSE
    PROVE  StatusSpec => DoneIsDone
  <1> DEFINE Step ==
        shown' # None /\ shown'.kind \in {"complete", "next"} =>
          LET phases == PhasesOf[source]
              next   == {i \in DOMAIN phases : phases[i] = shown'.phase}
          IN  \A i \in DOMAIN phases :
                 (\A n \in next : i < n) => phases[i] \in Range(disk.completed)
  <1>1. ASSUME TypeInv, SeenInv, [StatusNext]_all, ~UNCHANGED all
        PROVE  Step
    <2> SUFFICES ASSUME StatusShows, shown' # None,
                        shown'.kind \in {"complete", "next"},
                        NEW i \in DOMAIN PhasesOf[source],
                        \A n \in DOMAIN PhasesOf[source] :
                           PhasesOf[source][n] = shown'.phase => i < n
                 PROVE  PhasesOf[source][i] \in Range(disk.completed)
      BY <1>1 DEF StatusNext, RunStep, StatusReads
    <2>1. /\ source \in Versions /\ seen \in RunnerStates
          /\ Range(seen.completed) \subseteq Range(disk.completed)
      BY <1>1 DEF TypeInv, TypeOK, SeenInv, StatusShows
    <2>2. PICK valid \in SUBSET Workspaces : shown' = Shows(seen, source, valid)
      BY DEF StatusShows
    <2>3. ~NeedsRetry(seen) /\ shown'.phase = SelectNextPhase(seen, source)
      BY <2>1, <2>2, ShowsSelected
    <2>4. i \notin Incomplete(seen, source)
      <3>1. CASE shown'.phase = None
        BY <2>1, <2>3, <3>1, SelectsFirst
      <3>2. CASE shown'.phase # None
        <4>1. PICK n \in Incomplete(seen, source) :
                 /\ shown'.phase = PhasesOf[source][n]
                 /\ \A j \in Incomplete(seen, source) : n <= j
          BY <2>1, <2>3, <3>2, SelectsFirst
        <4>2. n \in DOMAIN PhasesOf[source] /\ i < n
          BY <4>1 DEF Incomplete
        <4>3. i \in Nat /\ n \in Nat
          BY <2>1, <4>2, PlanAssumption
        <4> QED
          BY <4>1, <4>2, <4>3
      <3> QED
        BY <3>1, <3>2
    <2> QED
      BY <2>1, <2>4 DEF Incomplete
  <1>2. TypeInv /\ SeenInv /\ [StatusNext]_all => [Step]_all
    BY <1>1
  <1> QED
    BY <1>2, SeenInvCorrect, PTL DEF StatusSpec, DoneIsDone

LEMMA SameSelection ==
    ASSUME NEW s \in RunnerStates, NEW v \in Versions
    PROVE  LET a == AcceptPlan(s, v) IN
           /\ NeedsRetry(a) <=> NeedsRetry(s)
           /\ SelectNextPhase(a, v) = SelectNextPhase(s, v)
           /\ RecoveryPhase(a) = RecoveryPhase(s)
  <1> DEFINE a == AcceptPlan(s, v)
  <1>1. a.active = s.active /\ a.stop = s.stop /\ a.completed = s.completed
    BY DEF AcceptPlan, RunnerStates
  <1> HIDE DEF a
  <1>2. /\ NeedsRetry(a) <=> NeedsRetry(s)
        /\ RecoveryPhase(a) = RecoveryPhase(s)
        /\ Incomplete(a, v) = Incomplete(s, v)
    BY <1>1 DEF NeedsRetry, RecoveryPhase, Incomplete
  <1>3. SelectNextPhase(a, v) = SelectNextPhase(s, v)
    BY <1>2 DEF SelectNextPhase
  <1> QED
    BY <1>2, <1>3 DEF a

\* The workspace of the phase, if there is one, is usable.
Usable(version, phase, valid) ==
    phase # None => WorkspaceOf[version][phase] \in valid

LEMMA RunGetsIs ==
    ASSUME NEW s \in RunnerStates, NEW v \in Versions, NEW valid
    PROVE  LET phase   == SelectNextPhase(s, v)
               planned == PlanAcceptable(s, v, FALSE)
               runs    == /\ ~NeedsRetry(s) /\ planned
                          /\ Usable(v, phase, valid)
               retries == /\ planned /\ Usable(v, phase, valid)
                          /\ NeedsRetry(s) =>
                                RecoveryPhase(s) \in Range(PhasesOf[v])
           IN  /\ RunGets(s, v, valid, FALSE) =
                     IF runs THEN [refused |-> FALSE, phase |-> phase]
                     ELSE [refused |-> TRUE, phase |-> None]
               /\ RunGets(s, v, valid, TRUE) =
                     IF retries THEN [refused |-> FALSE, phase |-> phase]
                     ELSE [refused |-> TRUE, phase |-> None]
  <1> DEFINE a == AcceptPlan(s, v)
  <1>1. /\ NeedsRetry(a) <=> NeedsRetry(s)
        /\ SelectNextPhase(a, v) = SelectNextPhase(s, v)
        /\ RecoveryPhase(a) = RecoveryPhase(s)
    BY SameSelection
  <1>2. /\ Selectable(a, v, FALSE) <=> ~NeedsRetry(s)
        /\ Selectable(a, v, TRUE) <=>
              (NeedsRetry(s) => RecoveryPhase(s) \in Range(PhasesOf[v]))
    BY <1>1 DEF Selectable
  <1>3. s.active # None => NeedsRetry(s)
    BY DEF NeedsRetry
  <1> HIDE DEF a
  <1> QED
    BY <1>1, <1>2, <1>3 DEF RunGets, Usable, a

LEMMA ShowsIs ==
    ASSUME NEW s \in RunnerStates, NEW v \in Versions, NEW valid
    PROVE  LET t       == Shows(s, v, valid)
               phase   == SelectNextPhase(s, v)
               planned == PlanAcceptable(s, v, FALSE)
           IN  /\ s.active # None => t # None /\ t.kind = "active"
               /\ s.active = None /\ s.stop # None =>
                     /\ t # None /\ t.kind = "stopped" /\ t.phase = phase
                     /\ t.exit = 0 <=>
                           /\ planned /\ Usable(v, phase, valid)
                           /\ RecoveryPhase(s) \in Range(PhasesOf[v])
               /\ ~NeedsRetry(s) /\ planned /\ Usable(v, phase, valid) =>
                     /\ t # None /\ t.kind \in {"complete", "next"}
                     /\ t.phase = phase
               /\ ~NeedsRetry(s) /\ ~(planned /\ Usable(v, phase, valid)) =>
                     t = None
  <1> DEFINE t       == Shows(s, v, valid)
             phase   == SelectNextPhase(s, v)
             planned == PlanAcceptable(s, v, FALSE)
             error   == PlanError(s, v, valid)
             shows(kind, p) == [kind |-> kind, phase |-> p,
                                exit |-> IF error THEN 5 ELSE 0]
  <1>1. phase \in Phases \union {None}
    BY SelectedType
  <1>2. ASSUME NEW kind \in {"active", "stopped", "complete", "next"},
               NEW p \in Phases \union {None}, t = shows(kind, p)
        PROVE  /\ t # None /\ t.kind = kind /\ t.phase = p
               /\ t.exit = 0 <=> ~error
    <2>1. shows(kind, p) \in [kind : {"active", "stopped", "complete", "next"},
                              phase : Phases \union {None}, exit : {0, 5}]
      OBVIOUS
    <2> HIDE DEF t
    <2> QED
      BY <1>2, <2>1, StatusAssumption
  <1>3. NeedsRetry(s) => RecoveryPhase(s) = phase
    BY DEF SelectNextPhase
  <1>4. CASE s.active # None
    <2>1. NeedsRetry(s) /\ Kind(s, StatusPhase(s, v)) = "active"
      BY <1>4 DEF NeedsRetry, Kind
    <2>2. t = shows("active", phase)
      BY <1>3, <2>1 DEF Shows
    <2> HIDE DEF t, phase, shows
    <2> QED
      BY <1>1, <1>2, <1>4, <2>1, <2>2 DEF t
  <1>5. CASE s.active = None /\ s.stop # None
    <2>1. /\ NeedsRetry(s) /\ Kind(s, StatusPhase(s, v)) = "stopped"
          /\ phase = s.stop.phase /\ phase # None
      BY <1>3, <1>5, NoneAssumption
      DEF NeedsRetry, Kind, RecoveryPhase, RunnerStates, StopState
    <2>2. t = shows("stopped", phase)
      BY <1>3, <2>1 DEF Shows
    <2>3. error <=> \/ ~planned \/ ~Usable(v, phase, valid)
                    \/ phase \notin Range(PhasesOf[v])
      BY <1>5, <2>1 DEF PlanError, StatusPhase, Usable
    <2>4. /\ t # None /\ t.kind = "stopped" /\ t.phase = phase
          /\ t.exit = 0 <=> ~error
      BY <1>1, <1>2, <2>2
    <2> HIDE DEF t, phase, shows, error, planned
    <2> QED
      BY <1>3, <1>5, <2>1, <2>3, <2>4 DEF t, phase, planned
  <1>6. CASE ~NeedsRetry(s)
    <2>1. StatusPhase(s, v) = IF planned THEN phase ELSE None
      BY <1>6 DEF StatusPhase, NeedsRetry
    <2>2. error <=> ~planned \/ ~Usable(v, phase, valid)
      BY <1>6, <2>1 DEF PlanError, NeedsRetry, Usable
    <2>3. CASE error
      <3>1. t = None
        BY <1>6, <2>3 DEF Shows
      <3> QED
        BY <1>6, <2>2, <2>3, <3>1 DEF NeedsRetry
    <2>4. CASE ~error
      <3>1. PICK kind \in {"complete", "next"} : Kind(s, StatusPhase(s, v)) = kind
        BY <1>6 DEF Kind, NeedsRetry
      <3>2. t = shows(kind, phase)
        BY <1>6, <2>1, <2>2, <2>4, <3>1 DEF Shows
      <3>3. t # None /\ t.kind = kind /\ t.phase = phase
        BY <1>1, <1>2, <3>2
      <3> HIDE DEF t, phase, shows, error, planned
      <3> QED
        BY <1>6, <2>2, <2>4, <3>3 DEF t, phase, planned, NeedsRetry
    <2> QED
      BY <2>3, <2>4
  <1> QED
    BY <1>4, <1>5, <1>6 DEF NeedsRetry

\* What an operator reads from status foretells what "run" and "run
\* --retry-stopped" do, while nothing changes in between.
THEOREM StatusForetells == StatusSpec => []StatusForesees
  <1>1. ASSUME NEW s \in RunnerStates, NEW v \in Versions, NEW valid
        PROVE  LET t      == Shows(s, v, valid)
                   plain  == RunGets(s, v, valid, FALSE)
                   retry  == RunGets(s, v, valid, TRUE)
               IN  /\ t = None \/ t.kind \in {"active", "stopped"}
                         <=> plain.refused
                   /\ t # None /\ ~plain.refused => t.phase = plain.phase
                   /\ t # None /\ t.kind = "stopped" =>
                         /\ t.exit = 0 <=> ~retry.refused
                         /\ t.exit = 0 => t.phase = retry.phase
    <2> DEFINE t       == Shows(s, v, valid)
               plain   == RunGets(s, v, valid, FALSE)
               retry   == RunGets(s, v, valid, TRUE)
               phase   == SelectNextPhase(s, v)
               good    == PlanAcceptable(s, v, FALSE) /\ Usable(v, phase, valid)
               known   == RecoveryPhase(s) \in Range(PhasesOf[v])
    <2>0. /\ plain = IF ~NeedsRetry(s) /\ good
                     THEN [refused |-> FALSE, phase |-> phase]
                     ELSE [refused |-> TRUE, phase |-> None]
          /\ NeedsRetry(s) =>
                retry = IF good /\ known
                        THEN [refused |-> FALSE, phase |-> phase]
                        ELSE [refused |-> TRUE, phase |-> None]
      BY RunGetsIs
    <2> HIDE DEF plain, retry, phase, good, known
    <2>1. /\ plain.refused <=> NeedsRetry(s) \/ ~good
          /\ ~plain.refused => plain.phase = phase
      BY <2>0
    <2>2. NeedsRetry(s) => /\ retry.refused <=> ~good \/ ~known
                           /\ ~retry.refused => retry.phase = phase
      BY <2>0
    <2> USE DEF plain, retry, phase, good, known
    <2>3. /\ s.active # None => t # None /\ t.kind = "active"
          /\ s.active = None /\ s.stop # None =>
                /\ t # None /\ t.kind = "stopped" /\ t.phase = phase
                /\ t.exit = 0 <=> good /\ known
          /\ ~NeedsRetry(s) /\ good =>
                t # None /\ t.kind \in {"complete", "next"} /\ t.phase = phase
          /\ ~NeedsRetry(s) /\ ~good => t = None
      BY ShowsIs
    <2> HIDE DEF t, plain, retry, phase, good, known
    <2>4. NeedsRetry(s) <=> s.active # None \/ s.stop # None
      BY DEF NeedsRetry
    <2>5. CASE s.active # None
      BY <2>1, <2>3, <2>4, <2>5 DEF t, plain
    <2>6. CASE s.active = None /\ s.stop # None
      BY <2>1, <2>2, <2>3, <2>4, <2>6 DEF t, plain, retry
    <2>7. CASE ~NeedsRetry(s)
      BY <2>1, <2>3, <2>7 DEF t, plain
    <2> QED
      BY <2>4, <2>5, <2>6, <2>7
  <1>2. TypeInv => StatusForesees
    BY <1>1 DEF StatusForesees, TypeInv, TypeOK
  <1> QED
    BY <1>2, StatusImplements, TypeInvCorrect, PTL

-----------------------------------------------------------------------------
(* The prompt: every outcome, once *)

LEMMA EarlierIs ==
    ASSUME NEW s \in RunnerStates, AttemptIdsDistinct(s)
    PROVE  /\ Earlier(s) \in Seq(OutcomeRef)
           /\ Range(Earlier(s)) =
                 {o \in Range(s.outcomes) :
                    ~(s.last # None /\ s.last.linked
                         /\ o.attempt = s.last.attempt)}
           /\ IsInjective(Earlier(s))
  <1> DEFINE S == {o \in Range(s.outcomes) :
                     ~(s.last # None /\ s.last.linked
                          /\ o.attempt = s.last.attempt)}
  <1>1. s.outcomes \in Seq(OutcomeRef)
    BY DEF RunnerStates
  <1>2. IsInjective(s.outcomes)
    BY DEF AttemptIdsDistinct, IsInjective
  <1>3. Earlier(s) = Filter(s.outcomes, S)
    BY DEF Earlier
  <1>4. S = Range(s.outcomes) \intersect S
    OBVIOUS
  <1> HIDE DEF S
  <1>5. Earlier(s) \in Seq(OutcomeRef)
    BY <1>1, <1>3, FilterType
  <1>6. Range(Filter(s.outcomes, S)) = Range(s.outcomes) \intersect S
        /\ IsInjective(Filter(s.outcomes, S))
    BY <1>1, <1>2, FilterRange
  <1>7. Range(Earlier(s)) = S /\ IsInjective(Earlier(s))
    BY <1>3, <1>4, <1>6
  <1> QED
    BY <1>5, <1>7 DEF S

\* One attempt, one outcome.
LEMMA OneOutcome ==
    ASSUME NEW s, AttemptIdsDistinct(s),
           NEW o \in Range(s.outcomes), NEW p \in Range(s.outcomes),
           o.attempt = p.attempt
    PROVE  o = p
  BY DEF AttemptIdsDistinct, Range

LEMMA ToldIs ==
    ASSUME NEW s \in RunnerStates, NEW n, Sound(s, n)
    PROVE  LET told == Told(s) IN
           /\ Range(s.outcomes) \subseteq Range(told)
           /\ \A i, j \in DOMAIN told :
                 told[i].attempt = told[j].attempt => i = j
           /\ \A i \in DOMAIN told :
                 told[i].status = "phase-complete" =>
                    told[i] \in Range(s.outcomes)
  <1> DEFINE told == Told(s)
             index == Earlier(s)
             last == [attempt |-> s.last.attempt, phase |-> s.last.phase,
                      status |-> s.last.status]
  <1>1. AttemptIdsDistinct(s) /\ ValidLast(s)
    BY DEF Sound, ValidState
  <1>2. /\ index \in Seq(OutcomeRef) /\ IsInjective(index)
        /\ Range(index) = {o \in Range(s.outcomes) :
                              ~(s.last # None /\ s.last.linked
                                   /\ o.attempt = s.last.attempt)}
    BY <1>1, EarlierIs
  <1>3. CASE s.last = None
    <2>1. told = index
      <3>1. told = index \o << >>
        BY <1>3 DEF Told
      <3> HIDE DEF index, told
      <3> QED
        BY <3>1, <1>2, ConcatEmptySeq
    <2> HIDE DEF told, index
    <2>2. Range(told) = Range(s.outcomes)
      BY <1>2, <1>3, <2>1
    <2>3. \A i \in DOMAIN told : told[i] \in Range(s.outcomes)
      BY <2>2 DEF Range
    <2>4. \A i, j \in DOMAIN told : told[i].attempt = told[j].attempt => i = j
      BY <1>1, <1>2, <2>1, <2>3, OneOutcome DEF IsInjective
    <2> QED
      BY <2>2, <2>3, <2>4 DEF told
  <1>4. CASE s.last # None
    <2>1. /\ last \in OutcomeRef /\ last.attempt = s.last.attempt
          /\ last.status = s.last.status
      BY <1>4 DEF RunnerStates, LastRun, OutcomeRef
    <2>2. told = Append(index, last)
      <3>1. told = index \o <<last>>
        BY <1>4 DEF Told
      <3> HIDE DEF index, told, last
      <3> QED
        BY <1>2, <2>1, <3>1, AppendIsConcat
    <2>3. s.last.linked => last \in Range(s.outcomes)
      <3>1. s.outcomes \in Seq(OutcomeRef)
        BY DEF RunnerStates
      <3>2. s.last.linked =>
               s.outcomes # << >> /\ s.outcomes[Len(s.outcomes)] = last
        BY <1>1, <1>4 DEF ValidLast
      <3> HIDE DEF last
      <3>3. s.last.linked => Len(s.outcomes) \in DOMAIN s.outcomes
        BY <3>1, <3>2
      <3> QED
        BY <3>2, <3>3 DEF Range
    <2>4. /\ ~s.last.linked => s.last.attempt \notin OutcomeIds(s)
          /\ s.last.status = "phase-complete" => s.last.linked
      BY <1>1, <1>4 DEF Sound, ValidLast
    <2> HIDE DEF told, index, last
    <2>5. \A o \in Range(s.outcomes) : o.attempt \in OutcomeIds(s)
      BY DEF Range, OutcomeIds
    <2>6. \A o \in Range(index) : /\ o \in Range(s.outcomes)
                                  /\ o.attempt # last.attempt
      BY <1>2, <1>4, <2>1, <2>4, <2>5
    <2>7. Range(told) = Range(index) \union {last} /\ IsInjective(told)
      BY <1>2, <2>1, <2>2, <2>6, RangeAppended, AppendDistinct
    <2>8. Range(s.outcomes) \subseteq Range(told)
      <3> SUFFICES ASSUME NEW o \in Range(s.outcomes), o \notin Range(index)
                   PROVE  o = last
        BY <2>7
      <3>1. s.last.linked /\ o.attempt = last.attempt
        BY <1>2, <2>1
      <3> QED
        BY <1>1, <2>3, <3>1, OneOutcome
    <2>9. \A o, p \in Range(told) : o.attempt = p.attempt => o = p
      BY <1>1, <2>6, <2>7, OneOutcome
    <2>10. \A i \in DOMAIN told : told[i] \in Range(told)
      BY DEF Range
    <2>11. \A i, j \in DOMAIN told : told[i].attempt = told[j].attempt => i = j
      BY <2>7, <2>9, <2>10 DEF IsInjective
    <2>12. \A i \in DOMAIN told : told[i].status = "phase-complete" =>
              told[i] \in Range(s.outcomes)
      BY <2>1, <2>3, <2>4, <2>6, <2>7, <2>10
    <2> QED
      BY <2>8, <2>11, <2>12 DEF told
  <1> QED
    BY <1>3, <1>4

\* A worker is told of every committed outcome, of none twice, and of none as
\* completed whose worker did not succeed, kernel stops included.
THEOREM HandoffWhole == Spec => []HandoffIsWhole
  <1>1. ASSUME TypeInv, StateInv, OutcomeInv, NEW h \in Handlers, Rendering(h)
        PROVE  LET told == Told(mem[h]) IN
               /\ Range(mem[h].outcomes) \subseteq Range(told)
               /\ \A i, j \in DOMAIN told :
                     told[i].attempt = told[j].attempt => i = j
               /\ \A i \in DOMAIN told : told[i].status = "phase-complete" =>
                     LET w == worker[told[i].attempt]
                     IN  /\ w.phase = told[i].phase /\ w.result # None
                         /\ Success(w.result)
    <2>1. mem[h] = disk /\ disk \in RunnerStates /\ Sound(disk, nextId)
      BY <1>1 DEF Rendering, TypeInv, TypeOK, StateInv, Holds, Attempting
    <2> DEFINE told == Told(disk)
    <2>2. /\ Range(disk.outcomes) \subseteq Range(told)
          /\ \A i, j \in DOMAIN told :
                told[i].attempt = told[j].attempt => i = j
          /\ \A i \in DOMAIN told : told[i].status = "phase-complete" =>
                told[i] \in Range(disk.outcomes)
      BY <2>1, ToldIs
    <2> HIDE DEF told
    <2>3. \A o \in Range(disk.outcomes) : o.status = "phase-complete" =>
             Succeeded(o.attempt, o.phase)
      BY <1>1 DEF OutcomeInv, Recorded
    <2>4. \A i \in DOMAIN told : told[i].status = "phase-complete" =>
             Succeeded(told[i].attempt, told[i].phase)
      BY <2>2, <2>3
    <2>5. \A i \in DOMAIN told : told[i].status = "phase-complete" =>
                LET w == worker[told[i].attempt]
                IN  /\ w.phase = told[i].phase /\ w.result # None
                    /\ Success(w.result)
      BY <2>4 DEF Succeeded
    <2> QED
      BY <2>1, <2>2, <2>5 DEF told
  <1>2. TypeInv /\ StateInv /\ OutcomeInv => HandoffIsWhole
    BY <1>1 DEF HandoffIsWhole
  <1> QED
    BY <1>2, OutcomeInvCorrect, PTL

-----------------------------------------------------------------------------
(* The prompt: the newest attempt *)

\* No attempt was launched after the last run, but for the active one, which
\* was drawn after it.
NewestInv ==
    /\ \A a \in Attempts :
          Launched(a) /\ (disk.active # None => a # disk.active.id) =>
             disk.last # None /\ a <= disk.last.attempt
    /\ disk.active # None /\ disk.last # None =>
          disk.last.attempt < disk.active.id

\* What the transitions of the state do to the last run.
LEMMA ClaimLast ==
    ASSUME NEW s \in RunnerStates, NEW n \in Nat, NEW p \in Phases,
           NEW v \in Versions
    PROVE  LET t == Prepared(AcceptPlan(s, v), n, p, v) IN
           /\ s.active = None => t.last = s.last
           /\ s.active # None => /\ t.last # None
                                 /\ t.last.attempt = s.active.id
  <1> DEFINE a == AcceptPlan(s, v)
             r == ResolveAbandoned(a)
             t == Prepared(a, n, p, v)
             last == [attempt |-> s.active.id, phase |-> s.active.phase,
                      status |-> "interrupted", linked |-> FALSE]
  <1>1. a \in RunnerStates /\ a.active = s.active /\ a.last = s.last
    BY DEF AcceptPlan, RunnerStates
  <1>2. r \in RunnerStates /\ (s.active = None => r.last = s.last)
        /\ (s.active # None => r.last = last)
    BY <1>1, ResolveType DEF ResolveAbandoned, RunnerStates
  <1>3. t.last = r.last
    <2> HIDE DEF r, a
    <2> QED
      BY <1>2 DEF Prepared, RunnerStates, r
  <1>4. s.active # None => last \in LastRun
    BY DEF RunnerStates, ActiveAttempt, LastRun, AttemptStatus, StopReason,
           Failures
  <1>5. s.active # None => last # None /\ last.attempt = s.active.id
    BY <1>4, NoneAssumption
  <1> HIDE DEF t, r, a, last
  <1>6. /\ s.active = None => t.last = s.last
        /\ s.active # None => t.last # None /\ t.last.attempt = s.active.id
    BY <1>2, <1>3, <1>5
  <1> QED
    BY <1>6 DEF t, a

LEMMA RunningLast ==
    ASSUME NEW s \in RunnerStates, NEW b \in BOOLEAN, s.active # None
    PROVE  Running(s, b).last = s.last /\ Running(s, b).active # None
  <1> DEFINE new == [s.active EXCEPT !.status = "running", !.process = b]
  <1>1. Running(s, b) = [s EXCEPT !.active = new]
    BY RunningIs
  <1>2. Running(s, b).active \in ActiveAttempt
    BY RunningType
  <1> HIDE DEF new
  <1> QED
    BY <1>1, <1>2, NoneAssumption DEF RunnerStates

LEMMA ConcludeLast ==
    ASSUME NEW s \in RunnerStates, s.active # None,
           NEW status \in AttemptStatus
    PROVE  /\ Conclude(s, status).last # None
           /\ Conclude(s, status).last.attempt = s.active.id
  <1> DEFINE last == [attempt |-> s.active.id, phase |-> s.active.phase,
                      status |-> status, linked |-> TRUE]
  <1>1. Conclude(s, status).last = last
    BY DEF Conclude, RunnerStates
  <1>2. last \in LastRun /\ last.attempt = s.active.id
    BY DEF RunnerStates, ActiveAttempt, LastRun
  <1> HIDE DEF last
  <1> QED
    BY <1>1, <1>2, NoneAssumption

\* A worker that was not there is that of the active attempt.
LEMMA OnlyActiveLaunched ==
    ASSUME TypeInv, StateInv, [Next]_vars, NEW a \in Attempts, Launched(a)'
    PROVE  \/ Launched(a)
           \/ disk' = disk /\ disk.active # None /\ a = disk.active.id
  <1>1. ASSUME NEW h \in Handlers, Launch(h)
        PROVE  \/ Launched(a)
               \/ disk' = disk /\ disk.active # None /\ a = disk.active.id
    <2>1. mem[h] = disk /\ disk.active # None
      BY <1>1 DEF Launch, StateInv, Holds, Attempting
    <2> QED
      BY <1>1, <2>1 DEF Launch, Mine, Launched, TypeInv, TypeOK
  <1>2. ASSUME NEW h \in Handlers, Working(h), ~Launch(h)
        PROVE  Launched(a)
    <2>1. CASE GroupKilled(h)
      BY <2>1 DEF GroupKilled, Launched, TypeInv, TypeOK, Worker
    <2>2. CASE Cleanup(h) \/ CleanupRaises(h)
      BY <2>1, <2>2 DEF Cleanup, CleanupRaises
    <2>3. CASE /\ Artifacts(h) \/ LaunchFails(h) \/ RecordProcess(h)
                  \/ SessionEnds(h) \/ SessionFails(h) \/ SessionSignalled(h)
      BY <2>3 DEF Artifacts, LaunchFails, RecordProcess, SessionEnds,
                  SessionFails, SessionSignalled, Launched, TypeInv, TypeOK,
                  Worker
    <2> QED
      BY <1>2, <2>2, <2>3 DEF Working
  <1>3. ASSUME NEW h \in Handlers, Starting(h) \/ Recording(h)
        PROVE  worker' = worker
    BY <1>3 DEF Starting, AcquirePlanLock, PlanLockContention, ReadState,
                ReadRefused, SelectPhase, SelectNothing, SelectRefused, Finish,
                FinishFails, Prepare, PrepareFails, OwnRefused, Recording,
                WriteOutcome, WriteOutcomeFails, CommitGoesOn, CommitLeaves,
                CommitFails
  <1>4. ASSUME NEW h \in Handlers,
               Invoke(h) \/ Signal(h) \/ Terminate(h) \/ Crash(h)
        PROVE  worker' = worker
    BY <1>4 DEF Invoke, Signal, Terminate, Crash, Abandon
  <1>5. CASE WorkerExits
    BY <1>5 DEF WorkerExits, Launched, TypeInv, TypeOK, Worker
  <1>6. CASE EditPlan \/ WriteBack
    BY <1>6 DEF EditPlan, WriteBack, Launched
  <1>7. CASE KernelStops
    BY <1>7 DEF KernelStops, Launched, TypeInv, TypeOK, Worker
  <1>8. CASE UNCHANGED vars
    BY <1>8 DEF vars, Launched
  <1> QED
    BY <1>1, <1>2, <1>3, <1>4, <1>5, <1>6, <1>7, <1>8
    DEF Next, HandlerStep, Launched

LEMMA NewestInvInductive ==
    ASSUME PowerLoss = FALSE, TypeInv, StateInv, OutcomeInv, LaunchInv,
           NewestInv, [Next]_vars
    PROVE  NewestInv'
  <1>0. disk \in RunnerStates /\ nextId \in Nat /\ Sound(disk, nextId)
    BY DEF TypeInv, TypeOK, StateInv
  <1>1. /\ disk.active # None => disk.active.id \in Nat /\ disk.active.id < nextId
        /\ disk.last # None =>
              disk.last.attempt \in Nat /\ disk.last.attempt < nextId
        /\ Attempts \subseteq Nat
    BY <1>0, RunnerAssumption
    DEF RunnerStates, ActiveAttempt, LastRun, Sound, Mentioned
  <1>2. CASE UNCHANGED disk
    BY <1>2, OnlyActiveLaunched DEF NewestInv
  <1>3. ASSUME disk' # disk
        PROVE  \A a \in Attempts : Launched(a)' => Launched(a)
    BY <1>3, OnlyActiveLaunched
  <1>4. ASSUME NEW h \in Handlers, Claims(h), disk' # disk
        PROVE  NewestInv'
    <2>1. /\ disk'.active # None /\ disk'.active.id = nextId
          /\ disk.active = None => disk'.last = disk.last
          /\ disk.active # None => /\ disk'.last # None
                                   /\ disk'.last.attempt = disk.active.id
      BY <1>0, <1>4, ClaimIs, ClaimLast DEF Claims
    <2> QED
      BY <1>1, <1>3, <1>4, <2>1 DEF NewestInv
  <1>5. CASE Records /\ disk' # disk
    <2>1. /\ disk'.active # None /\ disk.active # None
          /\ disk'.active.id = disk.active.id /\ disk'.last = disk.last
      BY <1>0, <1>5, RunningKeeps, RunningLast DEF Records
    <2> QED
      BY <1>3, <1>5, <2>1 DEF NewestInv
  <1>6. ASSUME NEW status \in AttemptStatus, Concludes(status), disk' # disk
        PROVE  NewestInv'
    <2>1. /\ disk'.active = None /\ disk.active # None
          /\ disk'.last # None /\ disk'.last.attempt = disk.active.id
      BY <1>0, <1>6, ConcludePending, ConcludeLast DEF Concludes
    <2> QED
      BY <1>1, <1>3, <1>6, <2>1 DEF NewestInv
  <1>7. CASE Finishes /\ disk' # disk
    <2>1. /\ disk'.active = None /\ disk.active = None
          /\ disk'.last = disk.last
      BY <1>0, <1>7
      DEF Finishes, Finished, AcceptPlan, RunnerStates, NeedsRetry
    <2> QED
      BY <1>3, <1>7, <2>1 DEF NewestInv
  <1> QED
    BY <1>2, <1>4, <1>5, <1>6, <1>7, Replacements

\* While the kernel keeps running, the summary a worker is given is that of
\* the newest attempt before its own, recorded or abandoned.
THEOREM HandoffNewest ==
    ASSUME PowerLoss = FALSE
    PROVE  Spec => []HandoffIsOfTheNewest
  <1>1. Init => NewestInv
    BY DEF Init, NewestInv, Launched, NoWorker, EmptyState
  <1>2. TypeInv /\ StateInv /\ OutcomeInv /\ LaunchInv /\ NewestInv
           /\ [Next]_vars => NewestInv'
    BY NewestInvInductive
  <1>3. StateInv /\ NewestInv => HandoffIsOfTheNewest
    BY DEF HandoffIsOfTheNewest, Rendering, Mine, StateInv, Holds, Attempting,
           NewestInv
  <1> QED
    BY <1>1, <1>2, <1>3, OutcomeInvCorrect, LaunchInvCorrect, PTL DEF Spec

=============================================================================
