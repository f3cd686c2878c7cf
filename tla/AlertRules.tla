------------------------------- MODULE AlertRules -------------------------------
(***************************************************************************)
(* What the rules decide in a pass (alerts.py): generate_alerts turns the  *)
(* latest indicator snapshot of each symbol into decisions, and live mode  *)
(* replaces them by a market digest or by one bundle per symbol            *)
(* (prepare_indicator_decisions_for_mode).  AlertCycle takes these         *)
(* decisions as its input; here they are computed.                         *)
(* LiveAggregation adds the second part.                                   *)
(*                                                                         *)
(* Numbers are integers: returns and open interest in basis points, ratios *)
(* and percentiles in percent.  A value the warmup has not produced is     *)
(* Null.                                                                   *)
(***************************************************************************)
EXTENDS Integers

CONSTANTS
  Symbols,
  Majors,       \* BTCUSDT and ETHUSDT: judged against the market only
  Snapshots,    \* the snapshots compute_latest_indicators may store
  MaxMinute,    \* bound: minutes explored
  Null,
  PriceThreshold, SmallMove,       \* price_threshold_bps, small_move_threshold_bps
  VolumePct, VolumeZ,              \* thresholds of the impulses
  AbsorptionPct, AbsorptionZ,      \* and of the absorptions
  OiBuildup, FlatNorm, FlatPct, FlatMinOi    \* of the open interest rules

Optional == Int \union {Null}
SnapshotType ==
  [btcRel : Optional, marketRel : Optional, volPct : Optional, volZ : Optional,
   ratio : Optional, body : Optional, range : Optional, oiZ : Optional,
   priceNorm : Optional, oiNorm : Optional, oiChange : Optional, flatScore : Optional]

ASSUME RulesAssumption ==
  /\ Null \notin Int
  /\ Majors \subseteq Symbols
  /\ Snapshots \subseteq SnapshotType
  /\ MaxMinute \in Nat
  /\ {PriceThreshold, SmallMove, VolumePct, VolumeZ, AbsorptionPct, AbsorptionZ,
      OiBuildup, FlatNorm, FlatPct, FlatMinOi} \subseteq Int

(* Nothing in Settings says so, but every default does. *)
ASSUME ThresholdAssumption == 0 < SmallMove /\ SmallMove <= PriceThreshold

VARIABLES
  latest,     \* the newest indicator_snapshot_1m row of each symbol
  minuteOf    \* its ts

vars == <<latest, minuteOf>>

OrElse(v, default) == IF v = Null THEN default ELSE v
Abs(n) == IF n < 0 THEN -n ELSE n

-----------------------------------------------------------------------------
(* _directional_relative_bps *)
BtcRel(s, x) == IF s \in Majors THEN x.marketRel ELSE x.btcRel
DirectionalReady(s, x) == BtcRel(s, x) # Null /\ x.marketRel # Null

VolumeOk(x) == OrElse(x.volPct, 0) >= VolumePct \/ OrElse(x.volZ, 0) >= VolumeZ
AbsorptionVolumeOk(x) ==
  OrElse(x.volPct, 0) >= AbsorptionPct /\ OrElse(x.volZ, 0) >= AbsorptionZ
ActiveBuy(x) == OrElse(x.ratio, 50) >= 75
ActiveSellStrict(x) == OrElse(x.ratio, 50) < 25
ActiveSell(x) == OrElse(x.ratio, 50) <= 25

BuyImpulse(s, x) ==
  /\ DirectionalReady(s, x)
  /\ BtcRel(s, x) > PriceThreshold /\ x.marketRel > PriceThreshold
  /\ VolumeOk(x) /\ ActiveBuy(x)

SellImpulse(s, x) ==
  /\ DirectionalReady(s, x)
  /\ BtcRel(s, x) < -PriceThreshold /\ x.marketRel < -PriceThreshold
  /\ VolumeOk(x) /\ ActiveSell(x)

SmallRelativeMoveOneWay(s, x) ==
  DirectionalReady(s, x) /\ BtcRel(s, x) > -SmallMove /\ x.marketRel > -SmallMove
SmallRelativeMove(s, x) ==
  DirectionalReady(s, x) /\ Abs(BtcRel(s, x)) < SmallMove /\ Abs(x.marketRel) < SmallMove

Absorption(s, x) ==
  /\ SmallRelativeMove(s, x) /\ AbsorptionVolumeOk(x)
  /\ OrElse(x.body, 100) <= 35 /\ OrElse(x.range, 0) <= 200

FlatOiBuildup(x) ==
  /\ x.priceNorm # Null /\ x.oiNorm # Null /\ x.oiChange # Null
  /\ x.oiNorm >= OiBuildup /\ x.oiChange >= FlatMinOi /\ x.priceNorm <= FlatNorm
  /\ OrElse(x.volPct, 0) >= FlatPct

(* generate_alerts: the types of alert it answers for a snapshot of s. *)
Types == {"active_buy_impulse", "active_sell_impulse", "buy_absorption",
          "sell_absorption", "flat_oi_buildup"}
Fired(s, x) ==
  {t \in Types :
     \/ t = "active_buy_impulse" /\ BuyImpulse(s, x)
     \/ t = "active_sell_impulse" /\ SellImpulse(s, x)
     \/ t = "buy_absorption" /\ Absorption(s, x) /\ ActiveBuy(x)
     \/ t = "sell_absorption" /\ Absorption(s, x) /\ ActiveSell(x)
     \/ t = "flat_oi_buildup" /\ FlatOiBuildup(x)}

Impulses == {"active_buy_impulse", "active_sell_impulse"}
Severity(t, x) ==
  IF t \in Impulses /\ OrElse(x.oiZ, 0) >= OiBuildup THEN "CRITICAL" ELSE "WARNING"
Score(s, t, x) ==
  CASE t \in Impulses -> Abs(OrElse(BtcRel(s, x), 0)) + OrElse(x.volZ, 0)
    [] t = "flat_oi_buildup" -> OrElse(x.flatScore, 0)
    [] OTHER -> OrElse(x.volZ, 0)


-----------------------------------------------------------------------------
(* The indicator loop stores a new snapshot of a symbol.  The newest minute is
   recomputed every pass, and a symbol may lag behind the others. *)
Init ==
  /\ latest \in [Symbols -> Snapshots]
  /\ minuteOf = [s \in Symbols |-> 0]

Recompute(s) ==
  /\ \E x \in Snapshots, m \in minuteOf[s]..MaxMinute :
       /\ latest' = [latest EXCEPT ![s] = x]
       /\ minuteOf' = [minuteOf EXCEPT ![s] = m]

Next == \E s \in Symbols : Recompute(s)

Spec == Init /\ [][Next]_vars

-----------------------------------------------------------------------------
(* A liquidation snapshot of a side is confirmed by the indicator at its minute
   (generate_liquidation_snapshot_confirmation); percentile is the rank of its
   quote value among those of the last seven days. *)
ConfirmsAnyMove(side, percentile, x) ==
  /\ percentile # Null /\ percentile >= 99
  /\ OrElse(x.btcRel, 0) # 0 /\ OrElse(x.oiChange, 0) < 0
Confirms(side, percentile, x) ==
  LET rel == OrElse(x.btcRel, 0)
  IN /\ percentile # Null /\ percentile >= 99
     /\ IF side = "BUY" THEN rel > 0 ELSE rel < 0
     /\ OrElse(x.oiChange, 0) < 0

(* The snapshot of the opposite market: every price move and the taker flow are
   reversed. *)
Minus(v) == IF v = Null THEN Null ELSE -v
Mirror(x) ==
  [x EXCEPT !.btcRel = Minus(@), !.marketRel = Minus(@),
            !.ratio = IF @ = Null THEN Null ELSE 100 - @]
Opposite(t) ==
  CASE t = "active_buy_impulse" -> "active_sell_impulse"
    [] t = "active_sell_impulse" -> "active_buy_impulse"
    [] t = "buy_absorption" -> "sell_absorption"
    [] t = "sell_absorption" -> "buy_absorption"
    [] t = "flat_oi_buildup" -> "flat_oi_buildup"

(* A snapshot fires at most one of the four price rules - never both sides, never
   an impulse and an absorption - so that a bundle joins exactly one of them with
   the open interest rule. *)
OnePriceRule ==
  \A s \in Symbols :
    \A t, u \in Fired(s, latest[s]) \ {"flat_oi_buildup"} : t = u

(* The rules treat both directions alike: the mirrored snapshot fires the
   opposite alerts with the same severities and scores. *)
RulesAreSymmetric ==
  \A s \in Symbols :
    LET x == latest[s] y == Mirror(x)
    IN /\ Fired(s, y) = {Opposite(t) : t \in Fired(s, x)}
       /\ \A t \in Fired(s, x) : /\ Severity(Opposite(t), y) = Severity(t, x)
                                /\ Score(s, Opposite(t), y) = Score(s, t, x)

(* The two sides of a symbol's liquidations are never confirmed by one indicator,
   though they share a key and a minute: the second would be swallowed by the
   unique index. *)
OneSideConfirmed ==
  \A s \in Symbols :
    \A p, q \in 98..100 : ~(Confirms("BUY", p, latest[s]) /\ Confirms("SELL", q, latest[s]))
=============================================================================
