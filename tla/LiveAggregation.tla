----------------------------- MODULE LiveAggregation -----------------------------
(***************************************************************************)
(* Live mode's view of the decisions of a pass (alerts.py,                 *)
(* prepare_indicator_decisions_for_mode): when enough of them share a      *)
(* minute, a market digest replaces all of them; otherwise the decisions   *)
(* of a symbol are joined into a bundle.  A symbol has one latest snapshot *)
(* and so one minute: the 30 seconds of aggregate_symbol_alerts never      *)
(* split its decisions.                                                    *)
(***************************************************************************)
EXTENDS AlertRules, FiniteSets

CONSTANTS
  TriggerCount,   \* digest_trigger_count
  TopSize         \* 10 decisions in a digest

ASSUME AggregationAssumption ==
  IsFiniteSet(Symbols) /\ TriggerCount \in Nat \ {0} /\ TopSize \in Nat \ {0}

Market == "MARKET"

Decision(s, t) ==
  [symbol |-> s, type |-> t, ts |-> minuteOf[s], sev |-> Severity(t, latest[s]),
   score |-> Score(s, t, latest[s])]
DecisionsOf(s) == {Decision(s, t) : t \in Fired(s, latest[s])}
Decisions == UNION {DecisionsOf(s) : s \in Symbols}

Gravest(ds) == IF \E d \in ds : d.sev = "CRITICAL" THEN "CRITICAL" ELSE "WARNING"
Mildest(ds) == IF \A d \in ds : d.sev = "CRITICAL" THEN "CRITICAL" ELSE "WARNING"

-----------------------------------------------------------------------------
(* build_market_digest *)
OfMinute(m) == {d \in Decisions : d.ts = m}
Eligible(m) == Cardinality(OfMinute(m)) >= TriggerCount
NewestEligible ==
  CHOOSE m \in 0..MaxMinute : Eligible(m) /\ \A n \in 0..MaxMinute : Eligible(n) => n <= m

(* The ten decisions with the highest scores; ties fall as the order of the
   snapshots has it. *)
Tops(ds) ==
  {top \in SUBSET ds : /\ Cardinality(top) = (IF Cardinality(ds) < TopSize THEN Cardinality(ds) ELSE TopSize)
                       /\ \A d \in top, e \in ds \ top : d.score >= e.score}
Digest(top) == [symbol |-> Market, type |-> "market_digest", ts |-> NewestEligible,
                sev |-> Gravest(top), of |-> top]

(* aggregate_symbol_alerts with _aggregate_symbol_group: prioritize_alerts puts a
   CRITICAL decision first, and the bundle takes its severity from it. *)
BundleName(s, ds) ==
  IF Cardinality(ds) = 1 THEN CHOOSE t \in Types : \E d \in ds : d.type = t
  ELSE "symbol_alert_bundle"
BundleSeverityOfLast(ds) == Mildest(ds)
BundleSeverity(ds) == Gravest(ds)
BundleUnnamed(s, ds) == [symbol |-> "UNKNOWN", type |-> BundleName(s, ds), ts |-> minuteOf[s],
                         sev |-> BundleSeverity(ds), of |-> ds]
Bundle(s, ds) == [symbol |-> s, type |-> BundleName(s, ds), ts |-> minuteOf[s],
                  sev |-> BundleSeverity(ds), of |-> ds]
Bundles == {Bundle(s, DecisionsOf(s)) : s \in {u \in Symbols : DecisionsOf(u) # {}}}

HasDigest == \E m \in 0..MaxMinute : Eligible(m)

(* What live mode may persist in the pass. *)
Prepared ==
  IF HasDigest THEN {{Digest(top)} : top \in Tops(OfMinute(NewestEligible))} ELSE {Bundles}

-----------------------------------------------------------------------------
(* No decision is lost on the way from the rules to the alerts: it is part of
   one alert of its minute that is at least as severe, or a digest stands in its
   place, and then it belongs to another minute, which is older or did not reach
   the count, or ten decisions with no lower scores are listed before it. *)
EveryDecisionIsVoiced ==
  \A alerts \in Prepared : \A d \in Decisions :
    \/ \E a \in alerts : /\ d \in a.of /\ a.ts = d.ts
                         /\ d.sev = "CRITICAL" => a.sev = "CRITICAL"
    \/ \E a \in alerts :
         /\ a.type = "market_digest"
         /\ \/ d.ts < a.ts
            \/ d.ts > a.ts /\ Cardinality(OfMinute(d.ts)) < TriggerCount
            \/ /\ d.ts = a.ts /\ Cardinality(a.of) = TopSize
               /\ \A e \in a.of : e.score >= d.score

(* No two alerts of a pass have the same symbol and type: they would share a
   cooldown and a slot of the unique index, and the second would vanish. *)
OneAlertPerKey ==
  \A alerts \in Prepared : \A a, b \in alerts :
    a.symbol = b.symbol /\ a.type = b.type => a = b
=============================================================================
