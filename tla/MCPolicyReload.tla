--------------------------- MODULE MCPolicyReload ---------------------------
(* Instances of PolicyReload: a first content with both method types, one  *)
(* with a type twice, and one that does not load.                          *)
EXTENDS PolicyReload, TLC

CONSTANTS first, second, broken, expr, script, a1, a2

MCMethods == first :> <<expr, script>> @@ second :> <<script, expr, script>>

Symmetry == Permutations(Admins)
=============================================================================
