---------------------------- MODULE MCPlanRunner -----------------------------
(* Small instances of PlanRunner and Handoff for TLC. *)
EXTENDS Handoff, TLC

CONSTANTS h1, h2, p1, p2, p3, v1, v2, wsA, wsB

\* Two versions: the edit moves a phase to another workspace, drops p1 and
\* appends p3.
MCPhasesOf == (v1 :> <<p1, p2>>) @@ (v2 :> <<p2, p3>>)
MCWorkspaceOf == (v1 :> [p \in {p1, p2, p3} |-> wsA])
              @@ (v2 :> [p \in {p1, p2, p3} |-> IF p = p2 THEN wsB ELSE wsA])

\* The plan only grows.
GrowPhasesOf == (v1 :> <<p1>>) @@ (v2 :> <<p1, p2>>)
GrowWorkspaceOf == [v \in {v1, v2} |-> [p \in {p1, p2} |-> wsA]]

OnePhasesOf == v1 :> <<p1, p2>>
OneWorkspaceOf == v1 :> [p \in {p1, p2} |-> wsA]

R(stop, exit, marker) == [stop |-> stop, exit |-> exit, marker |-> marker]

\* One success and, for each rule of precedence, a result it decides.
MCResults == {R(None, 0, "complete"), R("timeout", 0, "complete"),
              R(None, 1, "complete"), R(None, 0, "blocked")}
FewResults == {R(None, 0, "complete"), R("timeout", 0, "complete")}

ThreeAttempts == 1 .. 3
TwoAttempts == 1 .. 2

Opt(retry, accept, max) == [retry |-> retry, accept |-> accept, max |-> max]
RunOrAccept == {Opt(FALSE, FALSE, None), Opt(FALSE, TRUE, None), Opt(TRUE, TRUE, 1)}
RunOrRecover == {Opt(FALSE, FALSE, None), Opt(TRUE, TRUE, 1)}
RunOrRetry == {Opt(FALSE, FALSE, None), Opt(TRUE, FALSE, None)}

HandlerSymmetry == Permutations(Handlers)
=============================================================================
