--------------------------- MODULE MarketData_proofs ---------------------------
(***************************************************************************)
(* Proofs about MarketData, for any candles, windows and bounds: retention *)
(* leaves the baselines alone, every figure is a number or None, the rules *)
(* read the market relative return their scores were computed with, and a  *)
(* gap report that is ok bounds how far the returns reach back.            *)
(***************************************************************************)
EXTENDS MarketData, TLAPS, WellFoundedInduction, FiniteSetTheorems

(* What was stored and is gone is expired. *)
MInv ==
  /\ minute \in Minutes
  /\ stored \subseteq Symbols \X Minutes
  /\ klines \subseteq stored
  /\ \A k \in stored \ klines : Expired(k[2])

LEMMA MinutesAreInts == \A m \in Minutes : m \in Int
  BY MarketAssumption DEF Minutes

LEMMA WindowsAreNats ==
  /\ Retention \in Nat /\ Baseline \in Nat /\ Staleness \in Nat
  /\ Retention >= Baseline + Staleness
  BY MarketAssumption, RetentionAssumption

LEMMA InitMInv == Init => MInv
  <1> SUFFICES ASSUME Init PROVE MInv
    OBVIOUS
  <1>1. Warmup \in Minutes /\ \A m \in 0..Warmup : m \in Minutes
    BY MarketAssumption DEF Minutes
  <1> QED BY <1>1 DEF Init, MInv

LEMMA NextMInv == MInv /\ [Next]_vars => MInv'
  <1> SUFFICES ASSUME MInv, [Next]_vars PROVE MInv'
    OBVIOUS
  <1>1. ASSUME NEW punctual \in SUBSET Symbols, CloseMinute(punctual) PROVE MInv'
    <2>1. /\ minute' = minute + 1 /\ minute < MaxMinute
          /\ klines' = klines \union (punctual \X {minute'})
          /\ stored' = stored \union (punctual \X {minute'})
      BY <1>1 DEF CloseMinute, Store
    <2>2. minute' \in Minutes
      BY <2>1, MarketAssumption DEF MInv, Minutes
    <2>3. stored' \subseteq Symbols \X Minutes /\ klines' \subseteq stored'
      BY <2>1, <2>2 DEF MInv
    <2>4. ASSUME NEW k \in stored' \ klines' PROVE Expired(k[2])'
      <3>1. k \in stored \ klines /\ k[2] \in Minutes
        BY <2>1, <2>4 DEF MInv
      <3>2. k[2] <= minute - Retention
        BY <3>1 DEF MInv, Expired
      <3> QED BY <2>1, <3>1, <3>2, MinutesAreInts, WindowsAreNats DEF Expired, MInv
    <2> QED BY <2>2, <2>3, <2>4 DEF MInv
  <1>2. ASSUME NEW s \in Symbols, NEW m \in Minutes, LateKline(s, m) PROVE MInv'
    <2>1. /\ minute' = minute /\ klines' = klines \union {<<s, m>>}
          /\ stored' = stored \union {<<s, m>>}
      BY <1>2 DEF LateKline, Store
    <2> QED BY <2>1 DEF MInv, Expired
  <1>3. CASE RetentionRun
    <2>1. minute' = minute /\ stored' = stored /\ klines' = {k \in klines : ~Expired(k[2])}
      BY <1>3 DEF RetentionRun
    <2> QED BY <2>1 DEF MInv, Expired
  <1>4. ASSUME UNCHANGED <<minute, klines, stored>> PROVE MInv'
    BY <1>4 DEF MInv, Expired
  <1>5. ASSUME NEW p \in Processes, Compute(p) \/ Write(p) \/ Commit(p) \/ PassFails(p) PROVE MInv'
    BY <1>4, <1>5 DEF Compute, Write, Commit, PassFails, Ended
  <1>6. CASE UNCHANGED vars
    BY <1>4, <1>6 DEF vars
  <1> QED BY <1>1, <1>2, <1>3, <1>5, <1>6 DEF Next

(* A row that retention has taken is older than the baseline of every snapshot
   that is still computed. *)
LEMMA ExpiredIsBeforeBaseline ==
  ASSUME MInv, NEW m \in Minutes, Fresh(m), NEW t \in Minutes, Expired(t)
  PROVE  ~(m - Baseline <= t)
  <1>1. m \in Int /\ t \in Int /\ minute \in Int
    BY MinutesAreInts DEF MInv
  <1>2. m > minute - Staleness /\ t <= minute - Retention
    BY DEF Fresh, Expired
  <1> QED BY <1>1, <1>2, WindowsAreNats

(* retention-run never takes a row from the baseline of a snapshot that is still
   computed. *)
THEOREM BaselineIsKept == Spec => []SamplesAreWhole
  <1>1. MInv => SamplesAreWhole
    <2> SUFFICES ASSUME MInv, NEW s \in Symbols, NEW m \in Minutes, Fresh(m)
                 PROVE  BaselineRows(klines, s, m) = BaselineRows(stored, s, m)
      BY DEF SamplesAreWhole
    <2>1. BaselineRows(klines, s, m) \subseteq BaselineRows(stored, s, m)
      BY DEF MInv, BaselineRows, MinutesOf
    <2>2. ASSUME NEW t \in BaselineRows(stored, s, m) PROVE t \in BaselineRows(klines, s, m)
      <3>1. t \in Minutes /\ <<s, t>> \in stored /\ m - Baseline <= t /\ t < m
        BY <2>2 DEF BaselineRows, MinutesOf
      <3>2. <<s, t>> \in klines
        BY <3>1, ExpiredIsBeforeBaseline DEF MInv
      <3> QED BY <3>1, <3>2 DEF BaselineRows, MinutesOf
    <2> QED BY <2>1, <2>2
  <1> QED BY <1>1, InitMInv, NextMInv, PTL DEF Spec

-----------------------------------------------------------------------------
(***************************************************************************)
(* Numbers: a finite set has a least and a greatest one, a finite sample a *)
(* median, and so everything that is computed is a number or None.         *)
(***************************************************************************)
Lt == {pair \in Nat \X Nat : pair[1] < pair[2]}

LEMMA LtWellFounded == IsWellFoundedOn(Lt, Nat)
<1>1. OpToRel(<, Nat) = Lt
  BY DEF OpToRel, Lt
<1> QED BY <1>1, NatLessThanWellFounded

(* The one with the fewest others above it is the greatest. *)
LEMMA GreatestExists ==
  ASSUME NEW S \in SUBSET Int, IsFiniteSet(S), S # {}
  PROVE  \E x \in S : \A y \in S : x >= y
<1> DEFINE Above(x) == {y \in S : y > x}
           Counts == {n \in Nat : \E x \in S : n = Cardinality(Above(x))}
<1>1. \A x \in S : IsFiniteSet(Above(x)) /\ Cardinality(Above(x)) \in Nat
  BY FS_Subset, FS_CardinalityType
<1>2. \A x \in S : Cardinality(Above(x)) \in Counts
  BY <1>1
<1>3. Counts \subseteq Nat /\ Counts # {}
  <2>1. PICK x \in S : TRUE
    OBVIOUS
  <2> QED BY <1>2, <2>1
<1>4. PICK n \in Counts : \A m \in Counts : <<m, n>> \notin Lt
  <2> HIDE DEF Counts
  <2> QED BY <1>3, LtWellFounded, WFMin
<1>5. PICK x \in S : n = Cardinality(Above(x))
  BY <1>4
<1>6. ASSUME NEW y \in S PROVE x >= y
  <2> SUFFICES ASSUME y > x PROVE FALSE
    OBVIOUS
  <2>1. Above(y) \in SUBSET Above(x) /\ y \in Above(x) /\ y \notin Above(y)
    <3>1. x \in Int /\ y \in Int
      OBVIOUS
    <3>2. ASSUME NEW z \in Above(y) PROVE z \in Above(x)
      <4>1. z \in S /\ z \in Int /\ z > y
        BY <3>2
      <4>2. z > x
        BY <3>1, <4>1
      <4> QED BY <4>1, <4>2
    <3>3. y \in Above(x) /\ ~(y > y)
      BY <3>1
    <3>4. y \notin Above(y)
      BY <3>3
    <3> HIDE DEF Above
    <3> QED BY <3>2, <3>3, <3>4
  <2>2. Cardinality(Above(y)) < Cardinality(Above(x))
    <3> HIDE DEF Above
    <3>1. Cardinality(Above(y)) <= Cardinality(Above(x)) /\ Above(x) # Above(y)
      BY <1>1, <2>1, FS_Subset
    <3>2. Cardinality(Above(x)) # Cardinality(Above(y))
      BY <1>1, <2>1, <3>1, FS_Subset
    <3> QED BY <1>1, <3>1, <3>2
  <2>3. Cardinality(Above(y)) \in Counts /\ n \in Counts
    BY <1>2, <1>4
  <2> QED BY <1>3, <1>4, <1>5, <2>2, <2>3 DEF Lt
<1> QED BY <1>6

(* The image of a finite set, given as a function. *)
LEMMA ImageIsFinite ==
  ASSUME NEW S, IsFiniteSet(S), NEW f, f = [x \in S |-> f[x]]
  PROVE  IsFiniteSet({f[x] : x \in S})
<1>1. f \in Surjection(S, {f[x] : x \in S})
  BY DEF Surjection
<1> QED BY <1>1, FS_Surjection

LEMMA LeastExists ==
  ASSUME NEW S \in SUBSET Int, IsFiniteSet(S), S # {}
  PROVE  \E x \in S : \A y \in S : x <= y
<1> DEFINE Neg == [x \in S |-> 0 - x]
           T == {Neg[x] : x \in S}
<1>1. IsFiniteSet(T)
  <2>1. Neg = [x \in S |-> Neg[x]]
    OBVIOUS
  <2> HIDE DEF Neg
  <2> QED BY <2>1, ImageIsFinite
<1>2. T \subseteq Int /\ T # {}
  <2>1. \A x \in S : Neg[x] \in Int
    OBVIOUS
  <2> HIDE DEF Neg
  <2> QED BY <2>1
<1>3. PICK z \in T : \A w \in T : z >= w
  <2> HIDE DEF T
  <2> QED BY <1>1, <1>2, GreatestExists
<1>4. PICK x \in S : z = 0 - x
  OBVIOUS
<1>5. ASSUME NEW y \in S PROVE x <= y
  <2>1. 0 - y \in T
    OBVIOUS
  <2>2. z >= 0 - y
    BY <1>3, <2>1
  <2>3. x \in Int /\ y \in Int
    OBVIOUS
  <2> QED BY <1>4, <2>2, <2>3
<1> QED BY <1>5

LEMMA MaxOf ==
  ASSUME NEW S \in SUBSET Int, IsFiniteSet(S), S # {}
  PROVE  Max(S) \in S /\ \A y \in S : Max(S) >= y
  BY GreatestExists DEF Max

LEMMA MinutesFinite == \A S \in SUBSET Minutes : IsFiniteSet(S) /\ S \in SUBSET Int
<1>1. IsFiniteSet(Minutes)
  BY MarketAssumption, FS_Interval DEF Minutes
<1> QED BY <1>1, MinutesAreInts, FS_Subset

LEMMA MaxMinuteOf ==
  ASSUME NEW S \in SUBSET Minutes, S # {}
  PROVE  Max(S) \in S /\ \A y \in S : Max(S) >= y
  BY MinutesFinite, MaxOf

-----------------------------------------------------------------------------
(* A sample, as the functions of indicators.py take it: it is finite. *)
Sample(S) == IsFiniteSet(S) /\ \A x \in S : x[2] \in Int

LEMMA ValuesFinite ==
  ASSUME NEW S, Sample(S)
  PROVE  IsFiniteSet({x[2] : x \in S}) /\ {x[2] : x \in S} \in SUBSET Int
<1> DEFINE f == [x \in S |-> x[2]]
<1>1. f = [x \in S |-> f[x]] /\ {f[x] : x \in S} = {x[2] : x \in S}
  OBVIOUS
<1>2. IsFiniteSet({f[x] : x \in S})
  <2> HIDE DEF f
  <2> QED BY <1>1, ImageIsFinite DEF Sample
<1> QED BY <1>1, <1>2 DEF Sample

(* The k-th value of a sample of at least k: the least value that k others do not
   exceed.  Fewer than k are below it, for those are the ones up to the next value. *)
THEOREM KthExists ==
  ASSUME NEW S, Sample(S), NEW k \in Nat \ {0}, k <= Cardinality(S)
  PROVE  /\ Kth(S, k) \in {x[2] : x \in S}
         /\ Cardinality({x \in S : x[2] < Kth(S, k)}) < k
         /\ Cardinality({x \in S : x[2] <= Kth(S, k)}) >= k
<1> DEFINE V == {x[2] : x \in S}
           UpTo(v) == {x \in S : x[2] <= v}
           Below(v) == {x \in S : x[2] < v}
           W == {v \in V : Cardinality(UpTo(v)) >= k}
<1>1. IsFiniteSet(V) /\ V \in SUBSET Int
  BY ValuesFinite
<1>2. \A v : /\ IsFiniteSet(UpTo(v)) /\ Cardinality(UpTo(v)) \in Nat
             /\ IsFiniteSet(Below(v)) /\ Cardinality(Below(v)) \in Nat
  BY FS_Subset, FS_CardinalityType DEF Sample
<1>3. S # {}
  BY FS_EmptySet
<1>4. V # {}
  BY <1>3
<1>5. W # {}
  <2>1. PICK v \in V : \A w \in V : v >= w
    <3> HIDE DEF V
    <3> QED BY <1>1, <1>4, GreatestExists
  <2>2. \A x \in S : x[2] \in V /\ x[2] \in Int
    BY DEF Sample
  <2>3. v \in Int
    BY <1>1, <2>1
  <2>4. UpTo(v) = S
    BY <2>1, <2>2, <2>3
  <2> QED BY <2>1, <2>4
<1>6. PICK v \in W : \A w \in W : v <= w
  <2>1. W \in SUBSET V
    OBVIOUS
  <2> HIDE DEF W, V
  <2>2. W \in SUBSET Int /\ IsFiniteSet(W)
    BY <1>1, <2>1, FS_Subset
  <2> QED BY <1>5, <2>2, LeastExists
<1>7. v \in V /\ v \in Int /\ Cardinality(UpTo(v)) >= k
  BY <1>1, <1>6
<1>8. Cardinality(Below(v)) < k
  <2> DEFINE B == {w \in V : w < v}
  <2>1. CASE B = {}
    <3>1. Below(v) = {}
      BY <2>1
    <3> HIDE DEF Below
    <3> QED BY <3>1, FS_EmptySet
  <2>2. CASE B # {}
    <3>1. B \in SUBSET V
      OBVIOUS
    <3>2. PICK u \in B : \A w \in B : u >= w
      <4> HIDE DEF B, V
      <4>1. B \in SUBSET Int /\ IsFiniteSet(B)
        BY <1>1, <3>1, FS_Subset
      <4> QED BY <2>2, <4>1, GreatestExists
    <3>3. u \in V /\ u \in Int /\ u < v
      BY <1>1, <3>2
    <3>4. ASSUME NEW x \in S PROVE x[2] < v <=> x[2] <= u
      <4>1. x[2] \in Int /\ (x[2] < v => x[2] \in B)
        BY DEF Sample
      <4> QED BY <1>7, <3>2, <3>3, <4>1
    <3>5. Below(v) = UpTo(u)
      BY <3>4
    <3>6. u \notin W
      BY <1>6, <1>7, <3>3
    <3>7. ~(Cardinality(UpTo(u)) >= k)
      BY <3>3, <3>6
    <3> HIDE DEF Below, UpTo
    <3> QED BY <1>2, <3>5, <3>7
  <2> QED BY <2>1, <2>2
<1>9. Kth(S, k) = CHOOSE x \in V : Cardinality(Below(x)) < k /\ Cardinality(UpTo(x)) >= k
  BY DEF Kth
<1>10. LET x == Kth(S, k) IN x \in V /\ Cardinality(Below(x)) < k /\ Cardinality(UpTo(x)) >= k
  <2> HIDE DEF V, Below, UpTo
  <2> QED BY <1>7, <1>8, <1>9
<1> QED BY <1>10

LEMMA DivIsInt == \A a \in Int, b \in Nat \ {0} : a \div b \in Int
  OBVIOUS

LEMMA DivIsNat == \A a \in Nat, b \in Nat \ {0} : a \div b \in Nat
  OBVIOUS

LEMMA MedianIsNumber ==
  ASSUME NEW S, Sample(S), S # {}
  PROVE  Median(S) \in Int /\ ((\A x \in S : x[2] \in Nat) => Median(S) \in Nat)
<1> DEFINE n == Cardinality(S)
           a == Kth(S, (n + 1) \div 2)
           b == Kth(S, n \div 2 + 1)
<1>1. n \in Nat /\ n # 0
  BY FS_CardinalityType, FS_EmptySet DEF Sample
<1>2. /\ (n + 1) \div 2 \in Nat \ {0} /\ (n + 1) \div 2 <= n
      /\ n \div 2 + 1 \in Nat \ {0} /\ n \div 2 + 1 <= n
  <2> HIDE DEF n
  <2> QED BY <1>1
<1>3. a \in {x[2] : x \in S} /\ b \in {x[2] : x \in S}
  BY <1>2, KthExists
<1>4. a \in Int /\ b \in Int /\ ((\A x \in S : x[2] \in Nat) => a \in Nat /\ b \in Nat)
  <2> HIDE DEF a, b
  <2> QED BY <1>3 DEF Sample
<1>5. Median(S) = (a + b) \div 2
  BY DEF Median
<1> HIDE DEF a, b
<1> QED BY <1>4, <1>5, DivIsInt, DivIsNat

LEMMA DeviationIsNat ==
  ASSUME NEW S, Sample(S), S # {}
  PROVE  Deviation(S) \in Nat
<1> DEFINE med == Median(S)
           f == [x \in S |-> <<x[1], Distance(x[2] - med)>>]
           D == {f[x] : x \in S}
<1>1. med \in Int
  BY MedianIsNumber
<1>2. \A x \in S : x[2] \in Int
  BY DEF Sample
<1>3. \A x \in S : f[x][2] \in Nat
  <2> HIDE DEF med
  <2> QED BY <1>1, <1>2 DEF Distance
<1>4. f = [x \in S |-> f[x]] /\ Deviation(S) = Median(D)
  BY DEF Deviation
<1> HIDE DEF f
<1>5. IsFiniteSet(D)
  BY <1>4, ImageIsFinite DEF Sample
<1>6. \A x \in D : x[2] \in Nat
  BY <1>3
<1>7. D # {}
  OBVIOUS
<1>8. Sample(D)
  BY <1>5, <1>6 DEF Sample
<1> QED BY <1>4, <1>6, <1>7, <1>8, MedianIsNumber

LEMMA NotTooSmall ==
  ASSUME NEW S, Sample(S), ~TooSmall(S)
  PROVE  S # {} /\ Cardinality(S) \in Nat \ {0}
<1>1. Cardinality(S) \in Nat
  BY FS_CardinalityType DEF Sample
<1>2. Cardinality(S) >= MinSample
  BY <1>1, MathAssumption DEF TooSmall
<1> QED BY <1>1, <1>2, FS_EmptySet, MathAssumption DEF Sample

(* The figures of a snapshot are numbers, or None. *)
LEMMA RobustZTyped ==
  ASSUME NEW v \in Int, NEW S, Sample(S)
  PROVE  RobustZ(v, S) \in Moves
<1>1. CASE TooSmall(S)
  BY <1>1 DEF RobustZ, Moves
<1>2. CASE ~TooSmall(S)
  <2>1. S # {}
    BY <1>2, NotTooSmall
  <2>2. Deviation(S) \in Nat /\ Median(S) \in Int
    BY <2>1, DeviationIsNat, MedianIsNumber
  <2>3. 67 * (v - Median(S)) \in Int
    BY <2>2
  <2> QED BY <1>2, <2>2, <2>3, DivIsInt DEF RobustZ, Moves
<1> QED BY <1>1, <1>2

LEMMA NormalizedMoveTyped ==
  ASSUME NEW v \in Moves, NEW S, Sample(S), NEW floor \in Nat \ {0}
  PROVE  NormalizedMove(v, S, floor) \in Moves
<1>1. CASE v = None \/ TooSmall(S)
  BY <1>1 DEF NormalizedMove, Moves
<1>2. CASE v # None /\ ~TooSmall(S)
  <2>1. S # {} /\ v \in Int
    BY <1>2, NotTooSmall DEF Moves
  <2>2. Deviation(S) \in Nat
    BY <2>1, DeviationIsNat
  <2>3. (IF Deviation(S) < floor THEN floor ELSE Deviation(S)) \in Nat \ {0}
    BY <2>2
  <2>4. 100 * Distance(v) \in Int
    BY <2>1 DEF Distance
  <2> QED BY <1>2, <2>3, <2>4, DivIsInt DEF NormalizedMove, Moves
<1> QED BY <1>1, <1>2

LEMMA PercentileRankTyped ==
  ASSUME NEW v, NEW S, Sample(S)
  PROVE  PercentileRank(v, S) \in Moves
<1>1. CASE TooSmall(S)
  BY <1>1 DEF PercentileRank, Moves
<1>2. CASE ~TooSmall(S)
  <2>1. Cardinality(S) \in Nat \ {0}
    BY <1>2, NotTooSmall
  <2>2. Cardinality({x \in S : x[2] <= v}) \in Nat
    BY FS_Subset, FS_CardinalityType DEF Sample
  <2>3. 100 * Cardinality({x \in S : x[2] <= v}) \in Int
    BY <2>2
  <2> QED BY <1>2, <2>1, <2>3, DivIsInt DEF PercentileRank, Moves
<1> QED BY <1>1, <1>2

LEMMA MovesTyped ==
  /\ \A a, b \in Moves : Difference(a, b) \in Moves /\ SmallerMove(a, b) \in Moves
  /\ \A a \in Nat, b \in Nat \union {None} : PctChange(a, b) \in Moves
<1>1. ASSUME NEW a \in Moves, NEW b \in Moves PROVE Difference(a, b) \in Moves
  BY MathAssumption DEF Difference, Moves
<1>2. ASSUME NEW a \in Moves, NEW b \in Moves PROVE SmallerMove(a, b) \in Moves
  <2>1. CASE a = None \/ b = None
    BY <2>1 DEF SmallerMove, Moves
  <2>2. CASE a # None /\ b # None
    <3>1. Distance(a) \in Int /\ Distance(b) \in Int
      BY <2>2 DEF Moves, Distance
    <3>2. \E x \in {Distance(a), Distance(b)} : \A y \in {Distance(a), Distance(b)} : x <= y
      BY <3>1
    <3>3. Min({Distance(a), Distance(b)}) \in {Distance(a), Distance(b)}
      BY <3>2 DEF Min
    <3> QED BY <2>2, <3>1, <3>3 DEF SmallerMove, Moves
  <2> QED BY <2>1, <2>2
<1>3. ASSUME NEW a \in Nat, NEW b \in Nat \union {None} PROVE PctChange(a, b) \in Moves
  <2>1. CASE a = None \/ b = None \/ b = 0
    BY <2>1 DEF PctChange, Moves
  <2>2. CASE ~(a = None \/ b = None \/ b = 0)
    <3>1. b \in Nat \ {0} /\ a * Scale \in Int /\ Scale \in Int
      BY <2>2, MathAssumption
    <3>2. (a * Scale) \div b \in Int
      BY <3>1, DivIsInt
    <3>3. (a * Scale) \div b - Scale \in Int
      BY <3>1, <3>2
    <3> QED BY <2>2, <3>3 DEF PctChange, Moves
  <2> QED BY <2>1, <2>2
<1> QED BY <1>1, <1>2, <1>3

-----------------------------------------------------------------------------
(***************************************************************************)
(* What a computation holds, as long as it holds it.                       *)
(***************************************************************************)
Stored == minute \in Minutes /\ klines \subseteq Symbols \X (0..minute)

LEMMA StoredKlines ==
  ASSUME Stored
  PROVE  /\ \A k \in klines : /\ k \in Symbols \X Minutes /\ k[1] \in Symbols /\ k[2] \in Minutes
                              /\ k[2] \in 0..minute /\ k = <<k[1], k[2]>>
         /\ \A m \in 0..minute : m \in Minutes
  BY MarketAssumption DEF Stored, Minutes

LEMMA LagsAre == 1 \in Nat /\ MidLag \in Nat /\ LongLag \in Nat /\ MinMad \in Nat \ {0}
  BY MarketAssumption

LEMMA RowsTyped ==
  ASSUME Stored, NEW u
  PROVE  /\ IsFiniteSet(LatestRows(u)) /\ LatestRows(u) \subseteq klines
         /\ LatestRows(u) \subseteq Symbols \X Minutes
<1>1. LatestRows(u) \subseteq klines /\ LatestRows(u) \in SUBSET (Symbols \X Minutes)
  BY StoredKlines DEF LatestRows
<1>2. IsFiniteSet(Symbols) /\ IsFiniteSet(Minutes)
  BY MarketAssumption, MinutesFinite
<1>3. IsFiniteSet(Symbols \X Minutes)
  BY <1>2, FS_Product
<1> QED BY <1>1, <1>3, FS_Subset

LEMMA CandlesTyped ==
  \A s \in Symbols, m \in Minutes : Close[s][m] \in Nat /\ Volume[s][m] \in Nat
  BY MarketAssumption

LEMMA ReturnTyped ==
  ASSUME NEW k \in Symbols \X Minutes, NEW lag
  PROVE  Return(k, lag) \in Moves
<1> DEFINE older == {t \in MinutesOf(klines, k[1]) : t <= k[2] - lag}
<1>1. k[1] \in Symbols /\ k[2] \in Minutes /\ older \in SUBSET Minutes
  BY DEF MinutesOf
<1>2. older # {} => Max(older) \in Minutes
  <2> HIDE DEF older
  <2> QED BY <1>1, MaxMinuteOf
<1>3. Prior(k[1], k[2], lag) = IF older = {} THEN None ELSE Close[k[1]][Max(older)]
  BY DEF Prior
<1> HIDE DEF older
<1>4. Prior(k[1], k[2], lag) \in Nat \union {None}
  BY <1>1, <1>2, <1>3, CandlesTyped
<1> QED BY <1>1, <1>4, CandlesTyped, MovesTyped DEF Return

LEMMA ReturnsAreSample ==
  ASSUME NEW rows, rows \subseteq Symbols \X Minutes, IsFiniteSet(rows)
  PROVE  /\ Sample(Returns(rows))
         /\ Returns(rows) = {} => \A k \in rows : Return(k, 1) = None
         /\ Returns(rows) # {} => rows # {}
<1> DEFINE f == [k \in rows |-> <<k[1], Return(k, 1)>>]
           T == {f[k] : k \in rows}
<1>1. f = [k \in rows |-> f[k]] /\ Returns(rows) = {r \in T : r[2] # None}
  BY DEF Returns
<1>2. \A k \in rows : f[k][2] = Return(k, 1) /\ f[k][2] \in Moves
  BY ReturnTyped
<1> HIDE DEF f
<1>3. IsFiniteSet(T)
  BY <1>1, ImageIsFinite
<1>4. \A r \in T : r[2] \in Moves
  BY <1>2
<1>5. \A k \in rows : f[k] \in T
  OBVIOUS
<1>6. T # {} => rows # {}
  OBVIOUS
<1> HIDE DEF T
<1>7. Sample(Returns(rows))
  BY <1>1, <1>3, <1>4, FS_Subset DEF Sample, Moves
<1> QED BY <1>1, <1>2, <1>5, <1>6, <1>7

LEMMA MarketMedianTyped ==
  ASSUME NEW rows, rows \subseteq Symbols \X Minutes, IsFiniteSet(rows)
  PROVE  /\ MarketMedian(rows) \in Moves
         /\ MarketMedian(rows) = None => \A k \in rows : Return(k, 1) = None
         /\ MarketMedian(rows) # None => rows # {}
<1>1. Returns(rows) # {} => Median(Returns(rows)) \in Int
  BY ReturnsAreSample, MedianIsNumber
<1> QED BY <1>1, ReturnsAreSample, MathAssumption DEF MarketMedian, Moves

LEMMA BtcReturnTyped ==
  ASSUME NEW rows, rows \subseteq Symbols \X Minutes
  PROVE  BtcReturn(rows) \in Moves
<1>1. CASE BtcRows(rows) = {}
  BY <1>1 DEF BtcReturn, Moves
<1>2. CASE BtcRows(rows) # {}
  <2>1. (CHOOSE k \in BtcRows(rows) : TRUE) \in Symbols \X Minutes
    BY <1>2 DEF BtcRows
  <2> QED BY <1>2, <2>1, ReturnTyped DEF BtcReturn
<1> QED BY <1>1, <1>2

LEMMA BaselineTyped ==
  ASSUME NEW s, NEW m
  PROVE  BaselineRows(klines, s, m) \in SUBSET Minutes /\ IsFiniteSet(BaselineRows(klines, s, m))
<1>1. BaselineRows(klines, s, m) \in SUBSET Minutes
  BY DEF BaselineRows, MinutesOf
<1> QED BY <1>1, MinutesFinite

LEMMA VolumesAreSample == ASSUME NEW k \in Symbols \X Minutes PROVE Sample(VolumeSample(k))
<1> DEFINE base == BaselineRows(klines, k[1], k[2])
           f == [t \in base |-> <<t, Volume[k[1]][t]>>]
<1>1. base \in SUBSET Minutes /\ IsFiniteSet(base) /\ k[1] \in Symbols
  BY BaselineTyped
<1>2. VolumeSample(k) = {f[t] : t \in base} /\ f = [t \in base |-> f[t]]
  BY DEF VolumeSample
<1>3. \A t \in base : f[t][2] \in Int
  <2> HIDE DEF base
  <2>1. \A t \in base : Volume[k[1]][t] \in Int
    BY <1>1, CandlesTyped
  <2> QED BY <2>1
<1> HIDE DEF f, base
<1>4. IsFiniteSet(VolumeSample(k))
  BY <1>1, <1>2, ImageIsFinite
<1> QED BY <1>2, <1>3, <1>4 DEF Sample

LEMMA PastReturnsAreSample == ASSUME NEW k \in Symbols \X Minutes PROVE Sample(ReturnSample(k))
<1> DEFINE base == BaselineRows(klines, k[1], k[2])
           close == Close[k[1]]
           g == [x \in base \X base |-> <<x[1], PctChange(close[x[1]], close[x[2]])>>]
           T == {g[x] : x \in base \X base}
<1>1. base \in SUBSET Minutes /\ IsFiniteSet(base) /\ k[1] \in Symbols
  BY BaselineTyped
<1>2. \A p \in ReturnSample(k) :
        /\ p[2] # None
        /\ \E t, u \in base : p = <<t, PctChange(close[t], close[u])>>
  BY DEF ReturnSample, RowsBack
<1>3. \A p \in ReturnSample(k) : p[2] # None /\ \E x \in base \X base : p = g[x]
  <2> SUFFICES ASSUME NEW p \in ReturnSample(k) PROVE p[2] # None /\ \E x \in base \X base : p = g[x]
    OBVIOUS
  <2>1. PICK t \in base, u \in base : p = <<t, PctChange(close[t], close[u])>>
    BY <1>2
  <2>2. <<t, u>> \in base \X base /\ p = g[<<t, u>>]
    BY <2>1
  <2> QED BY <1>2, <2>2
<1>4. \A x \in base \X base : g[x][2] \in Moves
  <2> HIDE DEF base
  <2>1. \A t \in base, u \in base : PctChange(close[t], close[u]) \in Moves
    BY <1>1, CandlesTyped, MovesTyped
  <2> QED BY <2>1
<1>5. g = [x \in base \X base |-> g[x]] /\ IsFiniteSet(base \X base)
  BY <1>1, FS_Product
<1> HIDE DEF g, base
<1>6. IsFiniteSet(T) /\ ReturnSample(k) \in SUBSET T
  BY <1>3, <1>5, ImageIsFinite
<1>7. IsFiniteSet(ReturnSample(k))
  <2> HIDE DEF T
  <2> QED BY <1>6, FS_Subset
<1>8. \A p \in ReturnSample(k) : p[2] \in Int
  BY <1>3, <1>4 DEF Moves
<1> QED BY <1>7, <1>8 DEF Sample

LEMMA IndicatorTyped ==
  ASSUME NEW k \in Symbols \X Minutes, NEW b \in Moves, NEW median \in Moves
  PROVE  LET n == BuildIndicator(k, b, median)
         IN /\ n.key = k /\ n.row.ret1 = Return(k, 1) /\ n.row \in Snapshot
            /\ n.market = Difference(n.row.ret1, median)
<1>1. Return(k, 1) \in Moves /\ Return(k, MidLag) \in Moves /\ Return(k, LongLag) \in Moves
  BY ReturnTyped
<1>2. Volume[k[1]][k[2]] \in Int
  BY CandlesTyped
<1>3. /\ RobustZ(Volume[k[1]][k[2]], VolumeSample(k)) \in Moves
      /\ PercentileRank(Volume[k[1]][k[2]], VolumeSample(k)) \in Moves
      /\ NormalizedMove(Return(k, LongLag), ReturnSample(k), MinMad) \in Moves
  BY <1>1, <1>2, VolumesAreSample, PastReturnsAreSample, RobustZTyped, PercentileRankTyped,
     NormalizedMoveTyped, LagsAre
<1>4. Difference(Return(k, 1), median) \in Moves /\ Difference(Return(k, 1), b) \in Moves
  BY <1>1, MovesTyped
<1>5. SmallerMove(Difference(Return(k, 1), median),
                  IF k[1] \in Majors THEN Difference(Return(k, 1), median)
                  ELSE Difference(Return(k, 1), b)) \in Moves
  BY <1>4, MovesTyped
<1> QED BY <1>1, <1>3, <1>4, <1>5 DEF BuildIndicator, Snapshot

(* The figures of one computation fit each other and the minutes there are. *)
OwnFigures(n, median) ==
  /\ n.key \in Symbols \X (0..minute) /\ n.row \in Snapshot
  /\ n.market = Difference(n.row.ret1, median)
WellComputed(w) ==
  /\ \A n \in w.snaps : OwnFigures(n, w.median)
  /\ \A n, o \in w.snaps : n.key = o.key => n = o
  /\ w.median \in Moves
  /\ IF w.median = None THEN w.ts = None /\ \A n \in w.snaps : n.row.ret1 = None
     ELSE w.ts \in 0..minute

LEMMA ComputedWell == ASSUME Stored, NEW u PROVE WellComputed(Computed(u))
<1> DEFINE rows == LatestRows(u)
           median == MarketMedian(rows)
           b == BtcReturn(rows)
           w == Computed(u)
<1>1. /\ w.snaps = {BuildIndicator(k, b, median) : k \in rows} /\ w.median = median
      /\ w.ts = IF median = None THEN None ELSE MarketTs(rows)
  BY DEF Computed
<1>2. IsFiniteSet(rows) /\ rows \subseteq klines /\ rows \subseteq Symbols \X Minutes
  BY RowsTyped
<1>3. /\ median \in Moves /\ b \in Moves /\ (median # None => rows # {})
      /\ median = None => \A k \in rows : Return(k, 1) = None
  <2> HIDE DEF rows
  <2> QED BY <1>2, MarketMedianTyped, BtcReturnTyped
<1>4. \A k \in rows : k \in Symbols \X (0..minute)
  BY <1>2, StoredKlines DEF Stored
<1>5. rows # {} => MarketTs(rows) \in 0..minute
  <2> SUFFICES ASSUME rows # {} PROVE MarketTs(rows) \in 0..minute
    OBVIOUS
  <2> DEFINE of == IF BtcRows(rows) = {} THEN rows ELSE BtcRows(rows)
             minutes == {k[2] : k \in of}
  <2>1. of # {} /\ of \subseteq rows
    BY DEF BtcRows
  <2> HIDE DEF of, rows
  <2>2. minutes # {} /\ minutes \subseteq 0..minute
    BY <1>4, <2>1
  <2>3. minutes \in SUBSET Minutes
    BY <2>2, StoredKlines
  <2>4. MarketTs(rows) = Max(minutes)
    BY DEF MarketTs, of
  <2> HIDE DEF minutes
  <2> QED BY <2>2, <2>3, <2>4, MaxMinuteOf
<1> HIDE DEF rows, median, b, w
<1>6. \A k \in rows : LET n == BuildIndicator(k, b, median)
                      IN /\ n.key = k /\ n.row.ret1 = Return(k, 1) /\ n.row \in Snapshot
                         /\ n.market = Difference(n.row.ret1, median)
  BY <1>2, <1>3, IndicatorTyped
<1>7. \A n \in w.snaps : \E k \in rows : n = BuildIndicator(k, b, median)
  BY <1>1
<1>8. \A n \in w.snaps : n.key \in rows /\ n = BuildIndicator(n.key, b, median)
  BY <1>6, <1>7
<1>9. \A n \in w.snaps : OwnFigures(n, w.median)
  BY <1>1, <1>4, <1>6, <1>8 DEF OwnFigures
<1>10. \A n \in w.snaps : n.row.ret1 = Return(n.key, 1)
  BY <1>6, <1>8
<1>11. \A n, o \in w.snaps : n.key = o.key => n = o
  BY <1>8
<1>12. WellComputed(w)
  BY <1>1, <1>3, <1>5, <1>8, <1>9, <1>10, <1>11 DEF WellComputed
<1> QED BY <1>12 DEF w

LEMMA NothingWell == WellComputed(Nothing)
  BY DEF WellComputed, Nothing, Moves

-----------------------------------------------------------------------------
(* The tables are functions of their keys, whatever is written and deleted. *)
Tables ==
  DOMAIN snapshots = Symbols \X Minutes /\ DOMAIN factors = Minutes /\ DOMAIN work = Processes

TInv == TypeOK /\ Tables /\ \A p \in Processes : WellComputed(work[p])

LEMMA TInvStored == TInv => Stored
  BY DEF TInv, TypeOK, Stored

LEMMA InitTInv == Init => TInv
<1> SUFFICES ASSUME Init PROVE TInv
  OBVIOUS
<1>1. Warmup \in Minutes /\ MaxLate \in Nat /\ MaxRuns \in Nat /\ MaxFaults \in Nat
  BY MarketAssumption
<1>2. TypeOK
  BY <1>1 DEF Init, TypeOK
<1>3. Tables /\ \A p \in Processes : work[p] = Nothing
  BY DEF Init, Tables
<1> QED BY <1>2, <1>3, NothingWell DEF TInv

(* Whatever moves the clock on or brings a kline leaves the rest alone. *)
LEMMA NewKlines ==
  ASSUME TInv, minute' \in Minutes, minute <= minute', klines' \subseteq stored',
         stored' \subseteq Symbols \X (0..minute'), late' \in 0..MaxLate,
         UNCHANGED <<snapshots, factors, pc, work, runs, faults>>
  PROVE  TInv'
<1>1. minute \in Int /\ minute' \in Int /\ \A m \in 0..minute : m \in 0..minute'
  BY MinutesAreInts DEF TInv, TypeOK
<1>2. TypeOK'
  <2>1. ASSUME NEW k \in DOMAIN snapshots, snapshots[k] # None
        PROVE  snapshots[k] \in Snapshot /\ k[2] <= minute'
    <3>1. snapshots[k] \in Snapshot /\ k[2] <= minute /\ k[2] \in Int
      BY <2>1, MinutesAreInts DEF TInv, TypeOK, Tables
    <3>2. k[2] <= minute'
      BY <1>1, <3>1
    <3> QED BY <3>1, <3>2
  <2>2. ASSUME NEW m \in Minutes, factors[m] # None PROVE factors[m] \in Int /\ m <= minute'
    <3>1. factors[m] \in Int /\ m <= minute
      BY <2>2 DEF TInv, TypeOK
    <3> QED BY <1>1, <3>1, MinutesAreInts
  <2> QED BY <2>1, <2>2 DEF TInv, TypeOK
<1>3. ASSUME NEW p \in Processes PROVE WellComputed(work[p])'
  BY <1>1 DEF TInv, WellComputed, OwnFigures
<1> QED BY <1>2, <1>3 DEF TInv, Tables

LEMMA ClosesTyped == ASSUME TInv, NEW punctual \in SUBSET Symbols, CloseMinute(punctual) PROVE TInv'
<1>1. minute \in Nat /\ late \in 0..MaxLate /\ minute < MaxMinute /\ minute' = minute + 1 /\ MaxMinute \in Nat
  BY MarketAssumption DEF CloseMinute, TInv, TypeOK, Minutes
<1>2. minute' \in Minutes /\ minute <= minute' /\ minute' \in 0..minute'
  BY <1>1 DEF Minutes
<1>3. \A m \in 0..minute : m \in 0..minute'
  BY <1>1
<1>4. klines' \subseteq stored' /\ stored' \subseteq Symbols \X (0..minute')
  BY <1>2, <1>3 DEF CloseMinute, Store, TInv, TypeOK
<1>5. late' \in 0..MaxLate
  <2>1. Cardinality(Symbols \ punctual) \in Nat
    BY MarketAssumption, FS_Subset, FS_CardinalityType
  <2> QED BY <1>1, <2>1, MarketAssumption DEF CloseMinute
<1> QED BY <1>2, <1>4, <1>5, NewKlines DEF CloseMinute

LEMMA LateTyped ==
  ASSUME TInv, NEW s \in Symbols, NEW m \in Minutes, LateKline(s, m) PROVE TInv'
<1>1. m \in 0..minute /\ minute' = minute /\ minute <= minute
  BY MarketAssumption DEF LateKline, TInv, TypeOK, Minutes
<1>2. klines' \subseteq stored' /\ stored' \subseteq Symbols \X (0..minute')
  BY <1>1 DEF LateKline, Store, TInv, TypeOK
<1> QED BY <1>1, <1>2, NewKlines DEF LateKline, TInv, TypeOK

(* The row of a key is the newly computed one, or the one there was. *)
LEMMA UpsertTyped ==
  ASSUME TInv, NEW w, WellComputed(w)
  PROVE  LET t == UpsertIndicator(w, snapshots) f == UpsertMarketFactor(w, factors)
         IN /\ DOMAIN t = Symbols \X Minutes /\ DOMAIN f = Minutes
            /\ \A n \in w.snaps : n.key \in DOMAIN t /\ t[n.key] = n.row
            /\ \A k \in DOMAIN t : t[k] # None => t[k] \in Snapshot /\ k[2] <= minute
            /\ \A m \in Minutes : f[m] # None => f[m] \in Int /\ m <= minute
            /\ \A m \in Minutes : f[m] = IF m = w.ts THEN w.median ELSE factors[m]
<1> DEFINE t == UpsertIndicator(w, snapshots)
           f == UpsertMarketFactor(w, factors)
<1>1. DOMAIN t = Symbols \X Minutes /\ DOMAIN f = Minutes
  BY DEF UpsertIndicator, UpsertMarketFactor, TInv, Tables
<1>2. \A m \in Minutes : f[m] = IF m = w.ts THEN w.median ELSE factors[m]
  BY DEF UpsertMarketFactor, TInv, Tables
<1>3. ASSUME NEW n \in w.snaps PROVE n.key \in DOMAIN t /\ t[n.key] = n.row
  <2>1. n.key \in Symbols \X Minutes
    BY StoredKlines, TInvStored DEF WellComputed, OwnFigures
  <2>2. New(w, n.key) = {n}
    BY DEF New, WellComputed
  <2>3. (CHOOSE o \in New(w, n.key) : TRUE) = n
    BY <2>2
  <2>4. n.key \in DOMAIN snapshots
    BY <2>1 DEF TInv, Tables
  <2> QED BY <1>1, <2>1, <2>2, <2>3, <2>4 DEF UpsertIndicator
<1>4. ASSUME NEW k \in DOMAIN t, t[k] # None PROVE t[k] \in Snapshot /\ k[2] <= minute
  <2>1. k \in DOMAIN snapshots
    BY DEF UpsertIndicator
  <2>2. CASE New(w, k) = {}
    <3>1. t[k] = snapshots[k]
      BY <2>1, <2>2 DEF UpsertIndicator
    <3> QED BY <1>4, <2>1, <3>1 DEF TInv, TypeOK
  <2>3. CASE New(w, k) # {}
    <3>1. PICK n \in w.snaps : n.key = k
      BY <2>3 DEF New
    <3>2. t[k] = n.row /\ n.row \in Snapshot /\ k \in Symbols \X (0..minute)
      BY <1>3, <3>1 DEF WellComputed, OwnFigures
    <3>3. minute \in Nat
      BY MarketAssumption DEF TInv, TypeOK, Minutes
    <3> QED BY <3>2, <3>3
  <2> QED BY <2>2, <2>3
<1>5. ASSUME NEW m \in Minutes, f[m] # None PROVE f[m] \in Int /\ m <= minute
  <2>1. CASE m = w.ts
    <3>1. f[m] = w.median /\ w.median \in Int /\ w.ts \in 0..minute
      BY <1>2, <1>5, <2>1 DEF WellComputed, Moves
    <3>2. minute \in Nat
      BY MarketAssumption DEF TInv, TypeOK, Minutes
    <3> QED BY <2>1, <3>1, <3>2
  <2>2. CASE m # w.ts
    BY <1>2, <1>5, <2>2 DEF TInv, TypeOK
  <2> QED BY <2>1, <2>2
<1> QED BY <1>1, <1>2, <1>3, <1>4, <1>5

(* A computation that has ended holds nothing. *)
LEMMA EndedIdle ==
  ASSUME TInv, NEW p \in Processes, pc' = [pc EXCEPT ![p] = "idle"],
         work' = [work EXCEPT ![p] = Nothing]
  PROVE  /\ pc' \in [Processes -> {"idle", "computed", "written"}]
         /\ \A q \in Processes : pc'[q] = "idle" => work'[q] = Nothing
         /\ \A q \in Processes : work'[q] = work[q] \/ work'[q] = Nothing
         /\ DOMAIN work' = Processes
<1>1. /\ pc \in [Processes -> {"idle", "computed", "written"}]
      /\ \A q \in Processes : pc[q] = "idle" => work[q] = Nothing
      /\ DOMAIN work = Processes
  BY DEF TInv, TypeOK, Tables
<1>2. \A q \in Processes : /\ work'[q] = IF q = p THEN Nothing ELSE work[q]
                           /\ pc'[q] = IF q = p THEN "idle" ELSE pc[q]
  BY <1>1
<1> QED BY <1>1, <1>2

LEMMA CommitTyped == ASSUME TInv, NEW p \in Processes, Commit(p) PROVE TInv'
<1>1. /\ snapshots' = UpsertIndicator(work[p], snapshots)
      /\ factors' = UpsertMarketFactor(work[p], factors)
      /\ pc' = [pc EXCEPT ![p] = "idle"] /\ work' = [work EXCEPT ![p] = Nothing]
      /\ UNCHANGED <<minute, klines, late, runs, faults, stored>>
  BY DEF Commit, Ended
<1>2. WellComputed(work[p])
  BY DEF TInv
<1>3. /\ DOMAIN snapshots' = Symbols \X Minutes /\ DOMAIN factors' = Minutes
      /\ \A k \in DOMAIN snapshots' : snapshots'[k] # None => snapshots'[k] \in Snapshot /\ k[2] <= minute
      /\ \A m \in Minutes : factors'[m] # None => factors'[m] \in Int /\ m <= minute
  BY <1>1, <1>2, UpsertTyped
<1>4. TypeOK'
  BY <1>1, <1>3, EndedIdle DEF TInv, TypeOK
<1>5. DOMAIN work' = Processes /\ \A q \in Processes : WellComputed(work'[q])
  BY <1>1, EndedIdle, NothingWell DEF TInv
<1>6. \A q \in Processes : WellComputed(work[q])'
  BY <1>1, <1>5 DEF WellComputed, OwnFigures
<1> QED BY <1>3, <1>4, <1>5, <1>6 DEF TInv, Tables

LEMMA OwnStepTyped ==
  ASSUME TInv, NEW p \in Processes, Compute(p) \/ Write(p) \/ PassFails(p) PROVE TInv'
<1>1. /\ UNCHANGED <<minute, klines, snapshots, factors, late, stored>>
      /\ DOMAIN snapshots = Symbols \X Minutes /\ DOMAIN factors = Minutes
  BY DEF Compute, Write, PassFails, Ended, TInv, Tables
<1>2. runs' \in 0..MaxRuns /\ faults' \in 0..MaxFaults
  BY MarketAssumption DEF Compute, Write, PassFails, Ended, TInv, TypeOK
<1>3. CASE Compute(p)
  <2>1. /\ pc' = [pc EXCEPT ![p] = "computed"]
        /\ work' = [work EXCEPT ![p] = Computed(Universe[p])]
    BY <1>3 DEF Compute
  <2>2. \A q \in Processes : WellComputed(work'[q])
    BY <2>1, ComputedWell, TInvStored DEF TInv
  <2>3. TypeOK'
    BY <1>1, <1>2, <2>1 DEF TInv, TypeOK
  <2>4. DOMAIN work' = Processes
    BY <2>1 DEF TInv, Tables
  <2>5. \A q \in Processes : WellComputed(work[q])'
    BY <1>1, <2>2 DEF WellComputed, OwnFigures
  <2> QED BY <1>1, <2>3, <2>4, <2>5 DEF TInv, Tables
<1>4. CASE Write(p)
  <2>1. pc' = [pc EXCEPT ![p] = "written"] /\ work' = work /\ pc[p] = "computed"
    BY <1>4 DEF Write
  <2>2. TypeOK'
    BY <1>1, <1>2, <2>1 DEF TInv, TypeOK
  <2> QED BY <1>1, <2>1, <2>2 DEF TInv, Tables, WellComputed, OwnFigures
<1>5. CASE PassFails(p)
  <2>1. pc' = [pc EXCEPT ![p] = "idle"] /\ work' = [work EXCEPT ![p] = Nothing]
    BY <1>5 DEF PassFails, Ended
  <2>2. \A q \in Processes : WellComputed(work'[q])
    BY <2>1, EndedIdle, NothingWell DEF TInv
  <2>3. TypeOK'
    BY <1>1, <1>2, <2>1, EndedIdle DEF TInv, TypeOK
  <2>4. DOMAIN work' = Processes
    BY <2>1, EndedIdle DEF TInv, Tables
  <2>5. \A q \in Processes : WellComputed(work[q])'
    BY <1>1, <2>2 DEF WellComputed, OwnFigures
  <2> QED BY <1>1, <2>3, <2>4, <2>5 DEF TInv, Tables
<1> QED BY <1>3, <1>4, <1>5

LEMMA RetentionTyped == ASSUME TInv, RetentionRun PROVE TInv'
<1>1. /\ UNCHANGED <<minute, pc, work, late, faults, stored>> /\ klines' \subseteq klines
      /\ DOMAIN snapshots' = Symbols \X Minutes /\ DOMAIN factors' = Minutes
      /\ \A k \in DOMAIN snapshots : snapshots'[k] # None => snapshots'[k] = snapshots[k]
      /\ \A m \in Minutes : factors'[m] # None => factors'[m] = factors[m]
  BY DEF RetentionRun, TInv, Tables
<1>2. runs' \in 0..MaxRuns
  BY MarketAssumption DEF RetentionRun, TInv, TypeOK
<1>3. TypeOK'
  BY <1>1, <1>2 DEF TInv, TypeOK, Tables
<1> QED BY <1>1, <1>3 DEF TInv, Tables, WellComputed, OwnFigures

LEMMA NextTInv == TInv /\ [Next]_vars => TInv'
<1> SUFFICES ASSUME TInv, [Next]_vars PROVE TInv'
  OBVIOUS
<1>1. CASE UNCHANGED vars
  BY <1>1 DEF vars, TInv, TypeOK, Tables, WellComputed, OwnFigures
<1>2. CASE Next
  BY <1>2, ClosesTyped, LateTyped, CommitTyped, OwnStepTyped, RetentionTyped DEF Next
<1> QED BY <1>1, <1>2

LEMMA MarketInvariant == Spec => []TInv
  BY InitTInv, NextTInv, PTL DEF Spec

(* Every figure in the tables is a number or None, at a minute that has closed. *)
THEOREM MarketTypes == Spec => []TypeOK
<1>1. TInv => TypeOK
  BY DEF TInv
<1> QED BY <1>1, MarketInvariant, PTL

-----------------------------------------------------------------------------
(* The factor of a symbol's minute is the one just computed, unless the symbol lags
   or another factor lies between; and without a factor there is no return either. *)
LEMMA ViewAgrees == TInv => MarketViewAgrees
<1> SUFFICES ASSUME TInv, NEW own \in work["app"].snaps
             PROVE  LET s == own.key[1] m == own.key[2]
                    IN \/ MarketRelative(s, m) = own.market
                       \/ m < work["app"].ts
                       \/ \E t \in Minutes : work["app"].ts < t /\ t <= m /\ factors[t] # None
  BY DEF MarketViewAgrees
<1> DEFINE w == work["app"]
           s == own.key[1]
           m == own.key[2]
           f == View.factors
<1>1. WellComputed(w) /\ "app" \in Processes
  BY DEF TInv, Processes
<1>2. /\ View.snaps[own.key] = own.row
      /\ \A t \in Minutes : f[t] = IF t = w.ts THEN w.median ELSE factors[t]
  BY <1>1, UpsertTyped DEF View
<1>3. /\ own.key = <<s, m>> /\ m \in Minutes /\ m \in Int
      /\ own.market = Difference(own.row.ret1, w.median)
  BY <1>1, StoredKlines, TInvStored, MinutesAreInts DEF WellComputed, OwnFigures
<1>4. MarketRelative(s, m) =
        Difference(own.row.ret1, IF FactorsUpTo(m) = {} THEN None ELSE f[Max(FactorsUpTo(m))])
  BY <1>2, <1>3 DEF MarketRelative
<1>5. CASE w.median = None
  <2>1. own.row.ret1 = None
    BY <1>1, <1>5 DEF WellComputed
  <2>2. MarketRelative(s, m) = None /\ own.market = None
    BY <1>3, <1>4, <2>1 DEF Difference
  <2> QED BY <2>2
<1>6. CASE w.median # None
  <2> SUFFICES ASSUME ~(m < w.ts)
               PROVE  \/ MarketRelative(s, m) = own.market
                      \/ \E t \in Minutes : w.ts < t /\ t <= m /\ factors[t] # None
    OBVIOUS
  <2>1. w.ts \in Minutes /\ w.ts \in Int
    BY <1>1, <1>6, StoredKlines, TInvStored, MinutesAreInts DEF WellComputed
  <2>2. w.ts \in FactorsUpTo(m) /\ FactorsUpTo(m) \in SUBSET Minutes
    BY <1>2, <1>3, <1>6, <2>1 DEF FactorsUpTo
  <2>3. PICK t \in FactorsUpTo(m) : t = Max(FactorsUpTo(m)) /\ t >= w.ts
    BY <2>2, MaxMinuteOf
  <2>4. t \in Minutes /\ t \in Int /\ t <= m /\ f[t] # None
    BY <2>2, <2>3, MinutesAreInts DEF FactorsUpTo
  <2>5. CASE t = w.ts
    BY <1>2, <1>3, <1>4, <2>1, <2>2, <2>3, <2>5
  <2>6. CASE t # w.ts
    <3>1. factors[t] # None /\ w.ts < t
      BY <1>2, <2>1, <2>3, <2>4, <2>6
    <3> QED BY <2>4, <3>1
  <2> QED BY <2>5, <2>6
<1> QED BY <1>5, <1>6

(* In every pass, the market relative return that the rules are given is the one the
   snapshot's score was computed with, with the two exceptions MarketViewAgrees names. *)
THEOREM ViewIsTheScores == Spec => []MarketViewAgrees
  BY MarketInvariant, ViewAgrees, PTL

-----------------------------------------------------------------------------
(***************************************************************************)
(* The gap report.  The window has Lookback minutes, and as many as are    *)
(* missing anywhere in a stretch of it are missing in the window.          *)
(***************************************************************************)
Window == (minute - Lookback + 1)..minute

(* The rows of a symbol are in the window, or before it. *)
LEMMA WindowCounts ==
  ASSUME Stored, NEW s \in Symbols
  PROVE  /\ IsFiniteSet(Window) /\ Cardinality(Window) = Lookback
         /\ InWindow(s) \in SUBSET Window /\ InWindow(s) = MinutesOf(klines, s) \intersect Window
         /\ IsFiniteSet(InWindow(s)) /\ Cardinality(InWindow(s)) \in Nat
         /\ Cardinality(InWindow(s)) <= Lookback
<1>1. minute \in Int /\ Lookback \in Nat \ {0}
  BY MarketAssumption, MinutesAreInts DEF Stored
<1>2. IsFiniteSet(Window) /\ Cardinality(Window) = Lookback
  <2>1. /\ IsFiniteSet(Window)
        /\ Cardinality(Window) = IF minute - Lookback + 1 > minute THEN 0
                                 ELSE minute - (minute - Lookback + 1) + 1
    BY <1>1, FS_Interval DEF Window
  <2> QED BY <1>1, <2>1
<1>3. \A m \in MinutesOf(klines, s) : m \in Int /\ m <= minute
  BY <1>1, StoredKlines DEF MinutesOf, Stored
<1>4. InWindow(s) = MinutesOf(klines, s) \intersect Window
  BY <1>1, <1>3 DEF InWindow, Window
<1>5. InWindow(s) \in SUBSET Window
  BY <1>4
<1>6. IsFiniteSet(InWindow(s)) /\ Cardinality(InWindow(s)) <= Cardinality(Window)
  BY <1>2, <1>5, FS_Subset
<1> QED BY <1>2, <1>4, <1>5, <1>6, FS_CardinalityType

(* What the ratio allows, counted in minutes. *)
LEMMA RatioCounts ==
  ASSUME Stored, NEW s \in Symbols, GapRatioOk(s)
  PROVE  MayMiss \in Nat /\ Lookback - Cardinality(InWindow(s)) <= MayMiss
<1> DEFINE n == Lookback - Cardinality(InWindow(s))
           allowed == MaxGapPct * Lookback
<1>1. n \in Nat /\ Lookback \in Nat /\ MaxGapPct \in Nat
  BY WindowCounts, MarketAssumption
<1>2. allowed \in Nat
  BY <1>1
<1>3. Max({n, 0}) = n
  <2> HIDE DEF n
  <2>1. {n, 0} \in SUBSET Int /\ {n, 0} # {} /\ \A x \in {n, 0} : n >= x
    BY <1>1
  <2>2. \E x \in {n, 0} : \A y \in {n, 0} : x >= y
    BY <2>1
  <2>3. Max({n, 0}) \in {n, 0} /\ \A y \in {n, 0} : Max({n, 0}) >= y
    BY <2>2 DEF Max
  <2> QED BY <1>1, <2>3
<1>4. 100 * n <= allowed
  BY <1>3 DEF GapRatioOk
<1>5. MayMiss = allowed \div 100
  BY DEF MayMiss
<1> HIDE DEF n, allowed
<1>6. n <= allowed \div 100 /\ allowed \div 100 \in Nat
  BY <1>1, <1>2, <1>4
<1> QED BY <1>5, <1>6 DEF n

(* A stretch of the window has at least its length less what may be missing. *)
LEMMA StretchCounts ==
  ASSUME Stored, NEW s \in Symbols, GapRatioOk(s), NEW a \in Int, NEW b \in Int,
         a <= b, minute - Lookback < a, b <= minute + 1
  PROVE  /\ Cardinality({v \in MinutesOf(klines, s) : a <= v /\ v < b}) \in Nat
         /\ b - a <= Cardinality({v \in MinutesOf(klines, s) : a <= v /\ v < b}) + MayMiss
<1> DEFINE here == {v \in MinutesOf(klines, s) : a <= v /\ v < b}
           whole == a..(b - 1)
           holes == whole \ here
           rows == InWindow(s)
<1>1. minute \in Int /\ Lookback \in Nat
  BY MarketAssumption, MinutesAreInts DEF Stored
<1>2. IsFiniteSet(whole) /\ Cardinality(whole) = b - a
  <2>1. /\ IsFiniteSet(a..(b - 1))
        /\ Cardinality(a..(b - 1)) = IF a > b - 1 THEN 0 ELSE (b - 1) - a + 1
    BY FS_Interval
  <2> QED BY <2>1
<1>3. here \in SUBSET whole
  BY MinutesAreInts DEF MinutesOf
<1>4. IsFiniteSet(here) /\ Cardinality(here) \in Nat
  <2> HIDE DEF here, whole
  <2> QED BY <1>2, <1>3, FS_Subset, FS_CardinalityType
<1>5. IsFiniteSet(holes) /\ Cardinality(holes) = (b - a) - Cardinality(here)
  <2>1. whole \intersect here = here
    BY <1>3
  <2> HIDE DEF here, whole
  <2>2. /\ IsFiniteSet(whole \ here)
        /\ Cardinality(whole \ here) = Cardinality(whole) - Cardinality(whole \intersect here)
    BY <1>2, FS_Difference
  <2> QED BY <1>2, <2>1, <2>2
<1>6. holes \subseteq Window \ rows
  BY <1>1 DEF Window, InWindow
<1>7. IsFiniteSet(Window \ rows) /\ Cardinality(Window \ rows) = Lookback - Cardinality(rows)
  <2>1. Window \intersect rows = rows /\ IsFiniteSet(Window) /\ Cardinality(Window) = Lookback
    BY WindowCounts
  <2> HIDE DEF rows
  <2> QED BY <2>1, FS_Difference
<1>8. Cardinality(holes) <= Lookback - Cardinality(rows)
  <2> HIDE DEF holes, rows
  <2> QED BY <1>6, <1>7, FS_Subset
<1>9. Lookback - Cardinality(rows) <= MayMiss /\ MayMiss \in Nat /\ Cardinality(rows) \in Nat
  BY RatioCounts, WindowCounts
<1> HIDE DEF here, holes, rows
<1>10. b - a <= Cardinality(here) + MayMiss
  BY <1>1, <1>4, <1>5, <1>8, <1>9
<1> QED BY <1>4, <1>10 DEF here

LEMMA ReportBounds ==
  ASSUME Stored, NEW s \in Symbols, ReportOk(s)
  PROVE  LET rows == MinutesOf(klines, s) m == Max(rows)
             in(t) == t > minute - Lookback
         IN /\ MayMiss + 1 < Lookback => m - 1 - MayMiss <= Max({t \in rows : t < m} \union {-1})
            /\ \A t \in rows :
                 \A u \in RowsBack(BaselineRows(klines, s, m), t) : in(u) => t - u <= LongLag + MayMiss
<1> DEFINE rows == MinutesOf(klines, s)
           m == Max(rows)
           before == {t \in rows : t < m} \union {-1}
<1>1. /\ minute \in Int /\ Lookback \in Nat /\ MayMiss \in Nat /\ GapRatioOk(s)
      /\ LongLag \in Nat
  BY MarketAssumption, MinutesAreInts, RatioCounts DEF Stored, ReportOk
<1>2. rows \in SUBSET Minutes /\ \A t \in rows : t \in Nat /\ t \in 0..minute /\ t <= minute
  <2>1. \A t \in rows : t \in Minutes /\ t \in 0..minute
    BY StoredKlines DEF MinutesOf, Stored
  <2> HIDE DEF rows
  <2> QED BY <1>1, <2>1 DEF Minutes
<1>3. PICK latest \in rows : latest > minute - Lookback
  BY DEF ReportOk, InWindow
<1>4. m \in rows /\ m \in Nat /\ m <= minute /\ m > minute - Lookback /\ \A t \in rows : m >= t
  <2>1. m \in rows /\ \A t \in rows : m >= t
    <3> HIDE DEF rows
    <3> QED BY <1>2, <1>3, MaxMinuteOf
  <2> HIDE DEF rows, m
  <2> QED BY <1>1, <1>2, <1>3, <2>1
<1>5. ASSUME MayMiss + 1 < Lookback PROVE m - 1 - MayMiss <= Max(before)
  <2> DEFINE prev == Max(before)
  <2>1. before \in SUBSET Int /\ before # {} /\ IsFiniteSet(before)
    <3>1. {t \in rows : t < m} \in SUBSET Minutes
      BY <1>2
    <3>2. IsFiniteSet({t \in rows : t < m})
      BY <3>1, MinutesFinite
    <3>3. IsFiniteSet(before)
      BY <3>2, FS_AddElement
    <3> QED BY <1>2, <3>3
  <2>2. prev \in before /\ \A t \in before : prev >= t
    <3> HIDE DEF before
    <3> QED BY <2>1, MaxOf
  <2>3. prev \in Int /\ prev < m /\ \A t \in rows : t < m => prev >= t
    <3>1. \A t \in rows : t < m => t \in before
      OBVIOUS
    <3>2. \A t \in before : t \in Int /\ t < m
      BY <1>2, <1>4
    <3> HIDE DEF rows, m, before, prev
    <3> QED BY <2>2, <3>1, <3>2
  <2>4. CASE prev + 1 > minute - Lookback
    <3> DEFINE here == {v \in rows : prev + 1 <= v /\ v < m}
    <3>1. here = {}
      <4> SUFFICES ASSUME NEW v \in here PROVE FALSE
        OBVIOUS
      <4>1. v \in Nat /\ prev + 1 <= v /\ prev >= v
        BY <1>2, <2>3
      <4> QED BY <2>3, <4>1
    <3>2. Cardinality(here) = 0
      BY <3>1, FS_EmptySet
    <3>3. prev + 1 \in Int /\ prev + 1 <= m /\ m <= minute + 1 /\ minute - Lookback < prev + 1
      BY <1>1, <1>4, <2>3, <2>4
    <3>4. m - (prev + 1) <= Cardinality(here) + MayMiss
      <4> HIDE DEF prev, m
      <4> QED BY <1>1, <1>4, <3>3, StretchCounts
    <3>5. m - 1 - MayMiss <= prev
      <4> HIDE DEF here, prev, m
      <4> QED BY <1>1, <1>4, <2>3, <3>2, <3>4
    <3> QED BY <3>5
  <2>5. CASE ~(prev + 1 > minute - Lookback)
    <3>1. ASSUME NEW t \in InWindow(s) PROVE t = m
      <4>1. t \in rows /\ t \in Nat /\ t > minute - Lookback /\ m >= t
        BY <1>2, <1>4, <3>1 DEF InWindow
      <4>2. t < m => prev >= t
        BY <2>3, <4>1
      <4> HIDE DEF rows, m, prev
      <4> QED BY <1>1, <1>4, <2>3, <2>5, <4>1, <4>2
    <3>2. InWindow(s) \in SUBSET {m}
      BY <3>1
    <3>3. Cardinality(InWindow(s)) <= 1
      <4>1. IsFiniteSet({m}) /\ Cardinality({m}) = 1
        BY FS_Singleton
      <4> QED BY <3>2, <4>1, FS_Subset
    <3>4. Lookback - Cardinality(InWindow(s)) <= MayMiss /\ Cardinality(InWindow(s)) \in Nat
      BY <1>1, RatioCounts, WindowCounts
    <3>5. FALSE
      BY <1>1, <1>5, <3>3, <3>4
    <3> QED BY <3>5
  <2> QED BY <2>4, <2>5
<1>6. ASSUME NEW t \in rows, NEW u \in RowsBack(BaselineRows(klines, s, m), t), u > minute - Lookback
      PROVE  t - u <= LongLag + MayMiss
  <2> DEFINE base == BaselineRows(klines, s, m)
             here == {v \in rows : u <= v /\ v < t}
  <2>1. /\ u \in base /\ u < t /\ Cardinality({v \in base : u <= v /\ v < t}) = LongLag
    BY <1>6 DEF RowsBack
  <2>2. u \in rows /\ u \in Nat /\ m - Baseline <= u /\ t \in Nat /\ t <= m /\ t <= minute
    BY <1>2, <1>4, <1>6, <2>1 DEF BaselineRows
  <2>3. ASSUME NEW v \in rows, u <= v, v < t PROVE v \in base
    <3>1. v \in Nat /\ Baseline \in Nat
      BY <1>2, MarketAssumption
    <3>2. m - Baseline <= v /\ v < m
      <4> HIDE DEF m
      <4> QED BY <1>4, <2>2, <2>3, <3>1
    <3> QED BY <3>2 DEF BaselineRows
  <2>4. here = {v \in base : u <= v /\ v < t}
    BY <2>3 DEF BaselineRows
  <2>5. Cardinality(here) = LongLag
    <3> HIDE DEF here, base
    <3> QED BY <2>1, <2>4
  <2>6. t - u <= Cardinality(here) + MayMiss
    <3> HIDE DEF m
    <3>1. u \in Int /\ t \in Int /\ u <= t /\ t <= minute + 1 /\ minute - Lookback < u
      BY <1>1, <1>6, <2>1, <2>2
    <3> QED BY <1>1, <3>1, StretchCounts
  <2> QED BY <2>5, <2>6
<1> QED BY <1>5, <1>6

(* A gap report that is ok bounds the span of every return the indicators use. *)
THEOREM ReportsBound == Spec => []ReportBoundsSpans
<1>1. TInv => ReportBoundsSpans
  BY ReportBounds, TInvStored DEF ReportBoundsSpans
<1> QED BY <1>1, MarketInvariant, PTL
=============================================================================
