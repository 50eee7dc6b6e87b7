----------------------------- MODULE MCOwnership -----------------------------
(***************************************************************************)
(* Small instances of Ownership for TLC.  Directory r holds the plan "top",*)
(* its subdirectory s the plan "sub"; m is another path of r.  Each plan's *)
(* phases run in its own workspace and in the other plan's.                *)
(***************************************************************************)
EXTENDS Ownership, TLC

MCPlans == {"top", "sub"}
MCPaths == {"r", "s", "m"}
CONSTANTS d1, d2
MCDirs == {d1, d2}
MCDir == [p \in MCPaths |-> IF p = "s" THEN d2 ELSE d1]
MCAncestors == "top" :> <<"r">> @@ "sub" :> <<"s", "r">>
MCDeclared ==
    [k \in MCPlans \X MCPaths |->
        IF k[1] = "top" THEN <<"m", "s">> ELSE <<"r">>]

MCSymmetry == Permutations(Handlers) \union Permutations(Attempts)
=============================================================================
