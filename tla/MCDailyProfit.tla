--------------------------- MODULE MCDailyProfit ---------------------------
(* Small instances of DailyProfit for TLC.                                 *)
EXTENDS DailyProfit, TLC

CONSTANTS i1, i2, u1, u2, s1

MCPaidOn == i1 :> 1 @@ i2 :> 2
MCSigOf == i1 :> s1 @@ i2 :> s1

(* Units differ in nothing but their name.                                 *)
Units == Permutations(Unit)
=============================================================================
