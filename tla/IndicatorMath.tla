----------------------------- MODULE IndicatorMath -----------------------------
(***************************************************************************)
(* The arithmetic of indicators.py over integers: a change is in parts of  *)
(* Scale, a quotient is rounded down.  A sample is a set of pairs, of what *)
(* identifies a value and the value.  What cannot be computed is None.     *)
(***************************************************************************)
EXTENDS Integers, FiniteSets

CONSTANTS None, Scale,
          MinSample    \* 5: a shorter sample says nothing

ASSUME MathAssumption == None \notin Int /\ Scale \in Nat \ {0} /\ MinSample \in Nat \ {0}

Distance(n) == IF n < 0 THEN -n ELSE n

(* pct_change *)
PctChange(current, previous) ==
  IF current = None \/ previous = None \/ previous = 0 THEN None
  ELSE (current * Scale) \div previous - Scale

Difference(a, b) == IF a = None \/ b = None THEN None ELSE a - b

(* statistics.median: the middle of the sorted sample, or between its two middles. *)
Kth(sample, k) ==
  CHOOSE v \in {p[2] : p \in sample} :
    /\ Cardinality({p \in sample : p[2] < v}) < k
    /\ Cardinality({p \in sample : p[2] <= v}) >= k
Median(sample) ==
  LET n == Cardinality(sample)
  IN (Kth(sample, (n + 1) \div 2) + Kth(sample, n \div 2 + 1)) \div 2
Deviation(sample) ==
  LET med == Median(sample) IN Median({<<p[1], Distance(p[2] - med)>> : p \in sample})

TooSmall(sample) == Cardinality(sample) < MinSample

(* robust_z, in hundredths, and normalized_move with the floor for the MAD. *)
RobustZ(value, sample) ==
  IF TooSmall(sample) THEN None
  ELSE LET mad == Deviation(sample)
       IN IF mad = 0 THEN None ELSE (67 * (value - Median(sample))) \div mad
NormalizedMove(value, sample, floor) ==
  IF value = None \/ TooSmall(sample) THEN None
  ELSE LET mad == Deviation(sample)
       IN (100 * Distance(value)) \div (IF mad < floor THEN floor ELSE mad)

(* percentile_rank, in percent. *)
PercentileRank(value, sample) ==
  IF TooSmall(sample) THEN None
  ELSE (100 * Cardinality({p \in sample : p[2] <= value})) \div Cardinality(sample)
=============================================================================
