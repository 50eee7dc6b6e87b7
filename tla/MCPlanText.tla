----------------------------- MODULE MCPlanText ------------------------------
(* Small instances of PlanText for TLC. *)
EXTENDS PlanText

\* All that can be wrong with phases, and one kind of fence.
MCStructure ==
    {PhaseLine(n) : n \in 0 .. 2} \union {Fence("tick", 3, FALSE)} \union
    {Line(k) : k \in {"workspace", "workspaceish", "heading", "relative",
                      "absolute"}}

\* Fences of two lengths and characters, with and without text, in one phase.
MCFences ==
    {PhaseLine(1), Line("workspace"), Line("relative"), Line("blank"),
     Line("garbled"),
     Fence("tick", 3, FALSE), Fence("tick", 3, TRUE), Fence("tick", 4, FALSE),
     Fence("tilde", 3, FALSE)}

\* Two whole phases, with an example in one of them.
MCTwoPhases ==
    {PhaseLine(1), PhaseLine(2), Line("workspace"), Line("relative"),
     Fence("tilde", 3, FALSE)}

MCAuthors == {[lines |-> MCStructure, max |-> 6], [lines |-> MCFences, max |-> 5],
              [lines |-> MCTwoPhases, max |-> 8]}
=============================================================================
