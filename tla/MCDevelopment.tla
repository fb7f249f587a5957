--------------------------- MODULE MCDevelopment ----------------------------
(* Development with a small company, for TLC: a manager with a plan, and an *)
(* employee whom the manager covers, who may not write that plan.           *)
EXTENDS Development, TLC

CONSTANTS e, m, pm

Owners == pm :> m
Covered == e :> {} @@ m :> {e}

Symmetry == Permutations(Requests) \cup Permutations(Days) \cup Permutations(Places)
=============================================================================
