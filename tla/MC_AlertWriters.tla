---------------------------- MODULE MC_AlertWriters ----------------------------
(* Budgets for AlertWriters: one key through three source minutes and a whole cooldown, *)
(* and two keys at once with a fault.                                                   *)
EXTENDS AlertWriters, TLC

MCBudgets ==
  {[news |-> "imp" :> 3 @@ "abs" :> 0, ticks |-> 2, runs |-> 1, faults |-> 0],
   [news |-> "imp" :> 1 @@ "abs" :> 1, ticks |-> 1, runs |-> 1, faults |-> 1]}
=============================================================================
