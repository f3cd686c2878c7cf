--------------------------- MODULE AlertRules_proofs ---------------------------
(***************************************************************************)
(* Proofs about AlertRules and LiveAggregation, for every universe, every  *)
(* snapshot, every digest size and every setting of the thresholds with    *)
(* 0 < small_move <= price_threshold.                                      *)
(***************************************************************************)
EXTENDS LiveAggregation, TLAPS, WellFoundedInduction, FiniteSetTheorems

Stored == latest \in [Symbols -> Snapshots]

LEMMA SnapshotsAreStored == Spec => []Stored
  <1>1. Init => Stored
    BY DEF Init, Stored
  <1>2. Stored /\ [Next]_vars => Stored'
    BY DEF Stored, Next, Recompute, vars
  <1> QED BY <1>1, <1>2, PTL DEF Spec

(* Three facts about one snapshot: which rules exclude each other. *)
LEMMA ImpulsesExclude ==
  ASSUME NEW s, NEW x \in SnapshotType, BuyImpulse(s, x), SellImpulse(s, x)
  PROVE  FALSE
  BY RulesAssumption, ThresholdAssumption
  DEF BuyImpulse, SellImpulse, DirectionalReady, SnapshotType, Optional

LEMMA SidesExclude ==
  ASSUME NEW x \in SnapshotType, ActiveBuy(x), ActiveSell(x)
  PROVE  FALSE
  BY RulesAssumption DEF ActiveBuy, ActiveSell, OrElse, SnapshotType, Optional

LEMMA ImpulseExcludesAbsorption ==
  ASSUME NEW s, NEW x \in SnapshotType, BuyImpulse(s, x) \/ SellImpulse(s, x), Absorption(s, x)
  PROVE  FALSE
  BY RulesAssumption, ThresholdAssumption
  DEF BuyImpulse, SellImpulse, Absorption, SmallRelativeMove, DirectionalReady, Abs,
      SnapshotType, Optional

(* A snapshot fires at most one of the four price rules. *)
THEOREM OnePriceRuleFires == Spec => []OnePriceRule
  <1>1. ASSUME Stored PROVE OnePriceRule
    <2> SUFFICES ASSUME NEW s \in Symbols,
                        NEW t \in Fired(s, latest[s]) \ {"flat_oi_buildup"},
                        NEW u \in Fired(s, latest[s]) \ {"flat_oi_buildup"},
                        t # u
                 PROVE  FALSE
      BY DEF OnePriceRule
    <2> DEFINE x == latest[s]
    <2>1. x \in SnapshotType
      BY <1>1, RulesAssumption DEF Stored
    <2>2. \A r \in {t, u} : \/ r = "active_buy_impulse" /\ BuyImpulse(s, x)
                            \/ r = "active_sell_impulse" /\ SellImpulse(s, x)
                            \/ r = "buy_absorption" /\ Absorption(s, x) /\ ActiveBuy(x)
                            \/ r = "sell_absorption" /\ Absorption(s, x) /\ ActiveSell(x)
      BY DEF Fired
    <2> HIDE DEF x
    <2> QED BY <2>1, <2>2, ImpulsesExclude, SidesExclude, ImpulseExcludesAbsorption
  <1> QED BY <1>1, SnapshotsAreStored, PTL

(* The two sides of a symbol's liquidations are never confirmed by one indicator. *)
THEOREM OneSideIsConfirmed == Spec => []OneSideConfirmed
  <1>1. ASSUME Stored PROVE OneSideConfirmed
    <2> SUFFICES ASSUME NEW s \in Symbols, NEW p, NEW q,
                        Confirms("BUY", p, latest[s]), Confirms("SELL", q, latest[s])
                 PROVE  FALSE
      BY DEF OneSideConfirmed
    <2>1. latest[s] \in SnapshotType
      BY <1>1, RulesAssumption DEF Stored
    <2> QED BY <2>1, RulesAssumption DEF Confirms, OrElse, SnapshotType, Optional
  <1> QED BY <1>1, SnapshotsAreStored, PTL

(* Reversing a snapshot keeps its type, exchanges the two sides, and changes
   nothing else a rule looks at. *)
LEMMA MirrorTyped ==
  ASSUME NEW x \in SnapshotType
  PROVE  /\ Mirror(x).btcRel = Minus(x.btcRel) /\ Mirror(x).marketRel = Minus(x.marketRel)
         /\ Mirror(x).ratio = (IF x.ratio = Null THEN Null ELSE 100 - x.ratio)
         /\ Mirror(x).volPct = x.volPct /\ Mirror(x).volZ = x.volZ /\ Mirror(x).body = x.body
         /\ Mirror(x).range = x.range /\ Mirror(x).oiZ = x.oiZ
         /\ Mirror(x).priceNorm = x.priceNorm /\ Mirror(x).oiNorm = x.oiNorm
         /\ Mirror(x).oiChange = x.oiChange /\ Mirror(x).flatScore = x.flatScore
  BY DEF Mirror, SnapshotType

LEMMA MirrorSides ==
  ASSUME NEW s, NEW x \in SnapshotType
  PROVE  /\ BuyImpulse(s, Mirror(x)) <=> SellImpulse(s, x)
         /\ SellImpulse(s, Mirror(x)) <=> BuyImpulse(s, x)
         /\ Absorption(s, Mirror(x)) <=> Absorption(s, x)
         /\ ActiveBuy(Mirror(x)) <=> ActiveSell(x)
         /\ ActiveSell(Mirror(x)) <=> ActiveBuy(x)
         /\ FlatOiBuildup(Mirror(x)) <=> FlatOiBuildup(x)
  <1> DEFINE y == Mirror(x)
  <1>1. /\ y.btcRel = Minus(x.btcRel) /\ y.marketRel = Minus(x.marketRel)
        /\ y.ratio = (IF x.ratio = Null THEN Null ELSE 100 - x.ratio)
        /\ y.volPct = x.volPct /\ y.volZ = x.volZ /\ y.body = x.body
        /\ y.range = x.range /\ y.oiZ = x.oiZ /\ y.priceNorm = x.priceNorm
        /\ y.oiNorm = x.oiNorm /\ y.oiChange = x.oiChange
    BY MirrorTyped
  <1>2. /\ x.btcRel \in Optional /\ x.marketRel \in Optional /\ x.ratio \in Optional
    BY DEF SnapshotType
  <1> HIDE DEF y
  <1> USE RulesAssumption, ThresholdAssumption
  <1>3. /\ ActiveBuy(y) <=> ActiveSell(x)
        /\ ActiveSell(y) <=> ActiveBuy(x)
    BY <1>1, <1>2 DEF ActiveBuy, ActiveSell, OrElse, Optional
  <1>4. FlatOiBuildup(y) <=> FlatOiBuildup(x)
    BY <1>1 DEF FlatOiBuildup, OrElse
  <1>5. VolumeOk(y) <=> VolumeOk(x)
    BY <1>1 DEF VolumeOk, OrElse
  <1>6. AbsorptionVolumeOk(y) <=> AbsorptionVolumeOk(x)
    BY <1>1 DEF AbsorptionVolumeOk, OrElse
  <1>7. BtcRel(s, y) = Minus(BtcRel(s, x)) /\ BtcRel(s, x) \in Optional
    BY <1>1, <1>2 DEF BtcRel
  <1>8. DirectionalReady(s, y) <=> DirectionalReady(s, x)
    BY <1>1, <1>2, <1>7 DEF DirectionalReady, Minus, Optional
  <1>9. SmallRelativeMove(s, y) <=> SmallRelativeMove(s, x)
    BY <1>1, <1>2, <1>7, <1>8 DEF SmallRelativeMove, DirectionalReady, Minus, Abs, Optional
  <1>10. Absorption(s, y) <=> Absorption(s, x)
    BY <1>1, <1>6, <1>9 DEF Absorption, OrElse
  <1>11. BuyImpulse(s, y) <=> SellImpulse(s, x)
    BY <1>1, <1>2, <1>3, <1>5, <1>7, <1>8
    DEF BuyImpulse, SellImpulse, DirectionalReady, Minus, Optional
  <1>12. SellImpulse(s, y) <=> BuyImpulse(s, x)
    BY <1>1, <1>2, <1>3, <1>5, <1>7, <1>8
    DEF BuyImpulse, SellImpulse, DirectionalReady, Minus, Optional
  <1> QED BY <1>3, <1>4, <1>10, <1>11, <1>12 DEF y

(* The mirrored snapshot fires the opposite alerts, as grave and as strong. *)
THEOREM RulesMirrorEachOther == Spec => []RulesAreSymmetric
  <1>1. ASSUME Stored PROVE RulesAreSymmetric
    <2> SUFFICES ASSUME NEW s \in Symbols
                 PROVE  /\ Fired(s, Mirror(latest[s])) = {Opposite(t) : t \in Fired(s, latest[s])}
                        /\ \A t \in Fired(s, latest[s]) :
                             /\ Severity(Opposite(t), Mirror(latest[s])) = Severity(t, latest[s])
                             /\ Score(s, Opposite(t), Mirror(latest[s])) = Score(s, t, latest[s])
      BY DEF RulesAreSymmetric
    <2> DEFINE x == latest[s]
               y == Mirror(x)
    <2>1. x \in SnapshotType
      BY <1>1, RulesAssumption DEF Stored
    <2> HIDE DEF x
    <2>2. /\ y.btcRel = Minus(x.btcRel) /\ y.marketRel = Minus(x.marketRel)
          /\ y.volZ = x.volZ /\ y.oiZ = x.oiZ /\ y.flatScore = x.flatScore
      BY <2>1, MirrorTyped
    <2>3. /\ BuyImpulse(s, y) <=> SellImpulse(s, x)
          /\ SellImpulse(s, y) <=> BuyImpulse(s, x)
          /\ Absorption(s, y) <=> Absorption(s, x)
          /\ ActiveBuy(y) <=> ActiveSell(x)
          /\ ActiveSell(y) <=> ActiveBuy(x)
          /\ FlatOiBuildup(y) <=> FlatOiBuildup(x)
      BY <2>1, MirrorSides
    <2> HIDE DEF y
    <2>4. \A t \in Types : Opposite(t) \in Types /\ Opposite(Opposite(t)) = t
      BY DEF Types, Opposite
    <2>5. \A t \in Types : Opposite(t) \in Fired(s, y) <=> t \in Fired(s, x)
      BY <2>3 DEF Types, Opposite, Fired
    <2>6. Fired(s, x) \subseteq Types /\ Fired(s, y) \subseteq Types
      BY DEF Fired
    <2>7. Fired(s, y) = {Opposite(t) : t \in Fired(s, x)}
      BY <2>4, <2>5, <2>6
    <2>8. \A t \in Types : Opposite(t) \in Impulses <=> t \in Impulses
      BY DEF Types, Opposite, Impulses
    <2>9. \A t \in Types : Severity(Opposite(t), y) = Severity(t, x)
      BY <2>2, <2>8 DEF Severity
    <2>10. Abs(OrElse(BtcRel(s, y), 0)) = Abs(OrElse(BtcRel(s, x), 0))
      <3>1. x.btcRel \in Optional /\ x.marketRel \in Optional
        BY <2>1 DEF SnapshotType
      <3> QED BY <2>2, <3>1, RulesAssumption DEF Abs, OrElse, BtcRel, Minus, Optional
    <2>11. \A t \in Types : Opposite(t) = "flat_oi_buildup" <=> t = "flat_oi_buildup"
      BY DEF Types, Opposite
    <2>12. \A t \in Types : Score(s, Opposite(t), y) = Score(s, t, x)
      BY <2>2, <2>8, <2>10, <2>11 DEF Score
    <2> QED BY <2>6, <2>7, <2>9, <2>12 DEF x, y
  <1> QED BY <1>1, SnapshotsAreStored, PTL

-----------------------------------------------------------------------------
(***************************************************************************)
(* Live mode: a decision is part of an alert, or of a digest's past, or is *)
(* crowded out of the digest by decisions that score as high.              *)
(***************************************************************************)
LInv == minuteOf \in [Symbols -> 0..MaxMinute]

LEMMA MinutesAreKept == Spec => []LInv
<1>1. Init => LInv
  BY RulesAssumption DEF Init, LInv
<1>2. LInv /\ [Next]_vars => LInv'
  <2> SUFFICES ASSUME LInv, [Next]_vars PROVE LInv'
    OBVIOUS
  <2>1. ASSUME NEW s \in Symbols, Recompute(s) PROVE LInv'
    <3>1. PICK m \in minuteOf[s]..MaxMinute : minuteOf' = [minuteOf EXCEPT ![s] = m]
      BY <2>1 DEF Recompute
    <3>2. m \in 0..MaxMinute
      BY <3>1, RulesAssumption DEF LInv
    <3> QED BY <3>1, <3>2 DEF LInv
  <2>2. CASE UNCHANGED vars
    BY <2>2 DEF vars, LInv
  <2> QED BY <2>1, <2>2 DEF Next
<1> QED BY <1>1, <1>2, PTL DEF Spec

LEMMA DecisionParts ==
  ASSUME LInv, NEW d \in Decisions
  PROVE  \E s \in Symbols : /\ d \in DecisionsOf(s) /\ d.symbol = s /\ d.ts = minuteOf[s]
                            /\ d.ts \in 0..MaxMinute
<1>1. PICK s \in Symbols : d \in DecisionsOf(s)
  BY DEF Decisions
<1>2. d.symbol = s /\ d.ts = minuteOf[s]
  BY <1>1 DEF DecisionsOf, Decision
<1>3. minuteOf[s] \in 0..MaxMinute
  BY DEF LInv
<1> QED BY <1>1, <1>2, <1>3

LEMMA DecisionsFinite == IsFiniteSet(Decisions)
<1> DEFINE f == [x \in Symbols \X Types |-> Decision(x[1], x[2])]
           T == {f[x] : x \in Symbols \X Types}
<1>1. IsFiniteSet(Types)
  <2>1. IsFiniteSet({"active_buy_impulse"})
    BY FS_Singleton
  <2>2. IsFiniteSet({"active_buy_impulse"} \union {"active_sell_impulse"})
    BY <2>1, FS_AddElement
  <2>3. IsFiniteSet(({"active_buy_impulse"} \union {"active_sell_impulse"}) \union {"buy_absorption"})
    BY <2>2, FS_AddElement
  <2>4. IsFiniteSet((({"active_buy_impulse"} \union {"active_sell_impulse"})
                     \union {"buy_absorption"}) \union {"sell_absorption"})
    BY <2>3, FS_AddElement
  <2>5. IsFiniteSet(((({"active_buy_impulse"} \union {"active_sell_impulse"})
                      \union {"buy_absorption"}) \union {"sell_absorption"})
                    \union {"flat_oi_buildup"})
    BY <2>4, FS_AddElement
  <2>6. Types = ((({"active_buy_impulse"} \union {"active_sell_impulse"})
                  \union {"buy_absorption"}) \union {"sell_absorption"}) \union {"flat_oi_buildup"}
    BY DEF Types
  <2> QED BY <2>5, <2>6
<1>2. IsFiniteSet(Symbols \X Types)
  BY <1>1, AggregationAssumption, FS_Product
<1>3. ASSUME NEW d \in Decisions PROVE d \in T
  <2>1. PICK s \in Symbols, t \in Types : d = Decision(s, t)
    BY DEF Decisions, DecisionsOf, Fired
  <2>2. <<s, t>> \in Symbols \X Types /\ f[<<s, t>>] = d
    BY <2>1
  <2> QED BY <2>2
<1>4. f \in Surjection(Symbols \X Types, T)
  <2>1. f = [x \in Symbols \X Types |-> f[x]]
    OBVIOUS
  <2> HIDE DEF f
  <2> QED BY <2>1 DEF Surjection
<1> HIDE DEF f, T
<1>5. IsFiniteSet(T)
  BY <1>2, <1>4, FS_Surjection
<1>6. Decisions \in SUBSET T
  BY <1>3
<1> QED BY <1>5, <1>6, FS_Subset

LEMMA OfMinuteFinite ==
  ASSUME NEW m
  PROVE  IsFiniteSet(OfMinute(m)) /\ Cardinality(OfMinute(m)) \in Nat
<1>1. OfMinute(m) \in SUBSET Decisions
  BY DEF OfMinute
<1> QED BY <1>1, DecisionsFinite, FS_Subset, FS_CardinalityType

(* The minute a digest is built for: the number of minutes after it is least. *)
Lt == {pair \in Nat \X Nat : pair[1] < pair[2]}
LEMMA NewestIsEligible ==
  ASSUME HasDigest
  PROVE  /\ NewestEligible \in 0..MaxMinute /\ Eligible(NewestEligible)
         /\ \A n \in 0..MaxMinute : Eligible(n) => n <= NewestEligible
<1> DEFINE Ages == {n \in 0..MaxMinute : Eligible(MaxMinute - n)}
<1>1. MaxMinute \in Nat
  BY RulesAssumption
<1>2. ASSUME NEW m \in 0..MaxMinute, Eligible(m) PROVE MaxMinute - m \in Ages
  <2>1. MaxMinute - m \in 0..MaxMinute /\ MaxMinute - (MaxMinute - m) = m
    BY <1>1
  <2>2. Eligible(MaxMinute - (MaxMinute - m))
    BY <1>2, <2>1
  <2> QED BY <2>1, <2>2
<1>3. Ages # {}
  BY <1>2 DEF HasDigest
<1>4. PICK x \in Ages : \A y \in Ages : <<y, x>> \notin Lt
  <2>1. OpToRel(<, Nat) = Lt
    BY DEF OpToRel, Lt
  <2>2. Ages \subseteq Nat
    BY <1>1
  <2> HIDE DEF Ages
  <2> QED BY <1>3, <2>1, <2>2, NatLessThanWellFounded, WFMin
<1>5. MaxMinute - x \in 0..MaxMinute /\ Eligible(MaxMinute - x) /\ x \in Nat
  BY <1>1, <1>4
<1>6. ASSUME NEW n \in 0..MaxMinute, Eligible(n) PROVE n <= MaxMinute - x
  <2>1. MaxMinute - n \in Ages /\ MaxMinute - n \in Nat
    BY <1>1, <1>2, <1>6
  <2>2. ~(MaxMinute - n < x)
    BY <1>4, <1>5, <2>1 DEF Lt
  <2> QED BY <1>1, <1>5, <2>2
<1> QED BY <1>5, <1>6 DEF NewestEligible

(* Without a digest the bundle of its symbol has the decision. *)
LEMMA BundleVoices ==
  ASSUME LInv, NEW d \in Decisions
  PROVE  \E a \in Bundles : /\ d \in a.of /\ a.ts = d.ts
                            /\ d.sev = "CRITICAL" => a.sev = "CRITICAL"
<1>1. PICK s \in Symbols : d \in DecisionsOf(s) /\ d.ts = minuteOf[s]
  BY DecisionParts
<1> DEFINE a == Bundle(s, DecisionsOf(s))
<1>2. a \in Bundles
  BY <1>1 DEF Bundles
<1>3. a.of = DecisionsOf(s) /\ a.ts = minuteOf[s] /\ a.sev = Gravest(DecisionsOf(s))
  BY DEF Bundle, BundleSeverity
<1>4. d.sev = "CRITICAL" => a.sev = "CRITICAL"
  BY <1>1, <1>3 DEF Gravest
<1> HIDE DEF a
<1> QED BY <1>1, <1>2, <1>3, <1>4

(* A decision of the digest's minute is in it, or as many as it takes are before it. *)
LEMMA DigestVoices ==
  ASSUME LInv, HasDigest, NEW top \in Tops(OfMinute(NewestEligible)), NEW d \in Decisions
  PROVE  LET a == Digest(top)
         IN \/ d \in a.of /\ a.ts = d.ts /\ (d.sev = "CRITICAL" => a.sev = "CRITICAL")
            \/ d.ts < a.ts
            \/ d.ts > a.ts /\ Cardinality(OfMinute(d.ts)) < TriggerCount
            \/ d.ts = a.ts /\ Cardinality(a.of) = TopSize /\ \A e \in a.of : e.score >= d.score
<1> DEFINE a == Digest(top)
           ds == OfMinute(NewestEligible)
<1>1. a.of = top /\ a.ts = NewestEligible /\ a.sev = Gravest(top)
  BY DEF Digest
<1>2. /\ top \in SUBSET ds
      /\ Cardinality(top) = (IF Cardinality(ds) < TopSize THEN Cardinality(ds) ELSE TopSize)
      /\ \A e \in top, z \in ds \ top : e.score >= z.score
  BY DEF Tops
<1>3. /\ d.ts \in 0..MaxMinute /\ NewestEligible \in 0..MaxMinute
      /\ d.ts \in Int /\ NewestEligible \in Int
  BY DecisionParts, NewestIsEligible
<1>4. CASE d.ts > NewestEligible
  <2>1. ~Eligible(d.ts)
    BY <1>3, <1>4, NewestIsEligible
  <2>2. Cardinality(OfMinute(d.ts)) < TriggerCount
    BY <2>1, OfMinuteFinite, AggregationAssumption DEF Eligible
  <2> QED BY <1>1, <1>4, <2>2
<1>5. CASE d.ts = NewestEligible /\ d \in top
  <2>1. d.sev = "CRITICAL" => a.sev = "CRITICAL"
    BY <1>1, <1>5 DEF Gravest
  <2> QED BY <1>1, <1>5, <2>1
<1>6. CASE d.ts = NewestEligible /\ d \notin top
  <2>1. d \in ds \ top
    BY <1>6 DEF OfMinute
  <2>2. Cardinality(ds) # Cardinality(top)
    <3>1. IsFiniteSet(ds) /\ top # ds
      BY <2>1, OfMinuteFinite
    <3> HIDE DEF ds
    <3> QED BY <1>2, <3>1, FS_Subset
  <2>3. Cardinality(top) = TopSize
    BY <1>2, <2>2
  <2> QED BY <1>1, <1>2, <1>6, <2>1, <2>3
<1> QED BY <1>1, <1>3, <1>4, <1>5, <1>6

(* No decision is lost between the rules and the alerts of a pass. *)
THEOREM DecisionsAreVoiced == Spec => []EveryDecisionIsVoiced
<1>1. ASSUME LInv PROVE EveryDecisionIsVoiced
  <2> SUFFICES ASSUME NEW alerts \in Prepared, NEW d \in Decisions
      PROVE \/ \E a \in alerts : /\ d \in a.of /\ a.ts = d.ts
                                 /\ d.sev = "CRITICAL" => a.sev = "CRITICAL"
            \/ \E a \in alerts :
                 /\ a.type = "market_digest"
                 /\ \/ d.ts < a.ts
                    \/ d.ts > a.ts /\ Cardinality(OfMinute(d.ts)) < TriggerCount
                    \/ /\ d.ts = a.ts /\ Cardinality(a.of) = TopSize
                       /\ \A e \in a.of : e.score >= d.score
    BY DEF EveryDecisionIsVoiced
  <2>1. CASE HasDigest
    <3>1. PICK top \in Tops(OfMinute(NewestEligible)) : alerts = {Digest(top)}
      BY <2>1 DEF Prepared
    <3>2. Digest(top).type = "market_digest"
      BY DEF Digest
    <3> QED BY <1>1, <2>1, <3>1, <3>2, DigestVoices
  <2>2. CASE ~HasDigest
    <3>1. alerts = Bundles
      BY <2>2 DEF Prepared
    <3> QED BY <1>1, <3>1, BundleVoices
  <2> QED BY <2>1, <2>2
<1> QED BY <1>1, MinutesAreKept, PTL

(* A pass never asks for two alerts of one symbol and type. *)
THEOREM KeysDoNotCollide == Spec => []OneAlertPerKey
<1>1. OneAlertPerKey
  <2> SUFFICES ASSUME NEW alerts \in Prepared, NEW a \in alerts, NEW b \in alerts,
                      a.symbol = b.symbol
               PROVE  a = b
    BY DEF OneAlertPerKey
  <2>1. CASE HasDigest
    BY <2>1 DEF Prepared
  <2>2. CASE ~HasDigest
    <3>1. PICK s \in Symbols, z \in Symbols : /\ a = Bundle(s, DecisionsOf(s))
                                              /\ b = Bundle(z, DecisionsOf(z))
      BY <2>2 DEF Prepared, Bundles
    <3>2. a.symbol = s /\ b.symbol = z
      BY <3>1 DEF Bundle
    <3> QED BY <3>1, <3>2
  <2> QED BY <2>1, <2>2
<1> QED BY <1>1, PTL
=============================================================================
