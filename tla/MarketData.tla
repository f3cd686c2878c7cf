------------------------------- MODULE MarketData -------------------------------
(***************************************************************************)
(* What the tables of market data promise to each other: minute klines     *)
(* arrive, some late; compute_latest_indicators (indicators.py) turns the  *)
(* newest kline of each symbol into a snapshot and all of them into the    *)
(* market factor of a minute; the rules read both back (alerts.py,         *)
(* fetch_latest_indicator_snapshots); retention-run (cli.py) deletes old   *)
(* rows and data-quality (quality.py) counts them.                         *)
(*                                                                         *)
(* Two processes compute: the loop of the application, and the command     *)
(* compute-indicators, which an operator runs beside it.  A computation    *)
(* reads, then writes row by row - waiting for the rows that the other one *)
(* has written and not committed - and commits.                            *)
(*                                                                         *)
(* minute is the last minute that has closed.  A kline is stored under its *)
(* close time, so that "ts >= now - k minutes" is m > minute - k.          *)
(***************************************************************************)
EXTENDS IndicatorMath, FiniteSetsExt

CONSTANTS
  Symbols, Btc, Majors,
  Universe,              \* Universe[p]: the synced universe of the app, settings.symbols of the command
  Close, Volume,         \* Close[s][m], Volume[s][m]: the final candles
  Staleness,             \* market_data_max_staleness_minutes
  MidLag, LongLag,       \* 5 and 15 minutes
  Baseline,              \* 7 days
  MinMad,                \* normalized_move_min_mad_bps
  Retention,             \* data_retention_days
  Backfill,              \* a late kline comes at most so many minutes later
  Lookback, MaxGapPct, MaxKlineAge,   \* of the kline gap report
  Warmup,                \* the minutes up to this one are stored when the processes start
  MaxMinute,             \* bound: minutes explored
  MaxLate,               \* bound: klines that do not come with their minute
  MaxRuns,               \* bound: runs of the commands
  MaxFaults              \* bound: computations that fail

Minutes == 0..MaxMinute
Processes == {"app", "cli"}

ASSUME MarketAssumption ==
  /\ IsFiniteSet(Symbols) /\ Btc \in Symbols /\ Majors \subseteq Symbols
  /\ Universe \in [Processes -> SUBSET Symbols]
  /\ Close \in [Symbols -> [Minutes -> Nat]] /\ Volume \in [Symbols -> [Minutes -> Nat]]
  /\ {Staleness, MidLag, LongLag, Baseline, MinMad, Lookback} \subseteq Nat \ {0}
  /\ {Retention, Backfill, MaxGapPct, MaxKlineAge} \subseteq Nat
  /\ {MaxMinute, MaxLate, MaxRuns, MaxFaults} \subseteq Nat /\ Warmup \in Minutes

(* Settings checks neither number, but the defaults, 30 days and 5 minutes, do. *)
ASSUME RetentionAssumption == Retention >= Baseline + Staleness

VARIABLES
  minute,      \* datetime.now(UTC)
  klines,      \* futures_kline_1m, as committed: pairs of symbol and minute
  snapshots,   \* indicator_snapshot_1m, as committed
  factors,     \* market_factor_1m, as committed
  pc,          \* pc[p]: where the computation of p is
  work,        \* work[p]: what it has computed
  late,        \* klines that may still come late
  runs,        \* runs of the commands left
  faults,      \* faults left
  stored       \* history: every kline ever stored

vars == <<minute, klines, snapshots, factors, pc, work, late, runs, faults, stored>>

-----------------------------------------------------------------------------
(* The queries of compute_latest_indicators. *)
MinutesOf(ks, s) == {m \in Minutes : <<s, m>> \in ks}

(* LATEST_SYMBOL_ROWS_QUERY: the newest row of each symbol, if it is fresh. *)
Fresh(m) == m > minute - Staleness
LatestRows(u) ==
  {k \in klines : k[1] \in u /\ Fresh(k[2]) /\ \A m \in MinutesOf(klines, k[1]) : m <= k[2]}

(* _prior_closes: the newest row at least lag minutes older, however far back. *)
Prior(s, m, lag) ==
  LET older == {t \in MinutesOf(klines, s) : t <= m - lag}
  IN IF older = {} THEN None ELSE Close[s][Max(older)]
Return(k, lag) == PctChange(Close[k[1]][k[2]], Prior(k[1], k[2], lag))

BaselineRows(ks, s, m) == {t \in MinutesOf(ks, s) : m - Baseline <= t /\ t < m}
VolumeSample(k) == {<<t, Volume[k[1]][t]>> : t \in BaselineRows(klines, k[1], k[2])}

(* lag(close, 15) OVER (ORDER BY ts): the row LongLag rows back, whatever its minute. *)
RowsBack(base, t) ==
  {u \in base : u < t /\ Cardinality({v \in base : u <= v /\ v < t}) = LongLag}
ReturnSample(k) ==
  LET base == BaselineRows(klines, k[1], k[2]) close == Close[k[1]]
      pairs == UNION {{<<t, PctChange(close[t], close[u])>> : u \in RowsBack(base, t)} : t \in base}
  IN {p \in pairs : p[2] # None}

(* The returns of the newest rows, their median, and its minute. *)
Returns(rows) == {r \in {<<k[1], Return(k, 1)>> : k \in rows} : r[2] # None}
MarketMedian(rows) == IF Returns(rows) = {} THEN None ELSE Median(Returns(rows))
BtcRows(rows) == {k \in rows : k[1] = Btc}
BtcReturn(rows) == IF BtcRows(rows) = {} THEN None ELSE Return(CHOOSE k \in BtcRows(rows) : TRUE, 1)
MarketTs(rows) == Max({k[2] : k \in IF BtcRows(rows) = {} THEN rows ELSE BtcRows(rows)})

(* build_indicator: what is stored, and the market relative return, which is not. *)
SmallerMove(a, b) ==
  IF a = None \/ b = None THEN None ELSE Min({Distance(a), Distance(b)})
BuildIndicator(k, btcReturn, median) ==
  LET ret == Return(k, 1) long == Return(k, LongLag) volume == Volume[k[1]][k[2]]
      market == Difference(ret, median) btc == Difference(ret, btcReturn)
  IN [key |-> k, market |-> market,
      row |-> [ret1 |-> ret, ret5 |-> Return(k, MidLag), ret15 |-> long, btcRel |-> btc,
               score |-> SmallerMove(market, IF k[1] \in Majors THEN market ELSE btc),
               volZ |-> RobustZ(volume, VolumeSample(k)),
               volPct |-> PercentileRank(volume, VolumeSample(k)),
               norm |-> NormalizedMove(long, ReturnSample(k), MinMad)]]

Nothing == [snaps |-> {}, ts |-> None, median |-> None]
Computed(u) ==
  LET rows == LatestRows(u) btc == BtcReturn(rows) median == MarketMedian(rows)
  IN [snaps |-> {BuildIndicator(k, btc, median) : k \in rows},
      ts |-> IF median = None THEN None ELSE MarketTs(rows), median |-> median]

(* upsert_indicator and upsert_market_factor: the row of the key, or its update. *)
New(w, k) == {n \in w.snaps : n.key = k}
UpsertIndicatorOnce(w, table) ==
  [k \in DOMAIN table |-> IF New(w, k) = {} \/ table[k] # None THEN table[k]
                          ELSE (CHOOSE n \in New(w, k) : TRUE).row]
UpsertIndicator(w, table) ==
  [k \in DOMAIN table |-> IF New(w, k) = {} THEN table[k] ELSE (CHOOSE n \in New(w, k) : TRUE).row]
UpsertFactorOnce(w, table) ==
  [m \in DOMAIN table |-> IF m = w.ts /\ table[m] = None THEN w.median ELSE table[m]]
UpsertMarketFactor(w, table) == [m \in DOMAIN table |-> IF m = w.ts THEN w.median ELSE table[m]]

-----------------------------------------------------------------------------
Init ==
  /\ minute = Warmup
  /\ klines = Symbols \X (0..Warmup) /\ stored = klines
  /\ snapshots = [k \in Symbols \X Minutes |-> None]
  /\ factors = [m \in Minutes |-> None]
  /\ pc = [p \in Processes |-> "idle"] /\ work = [p \in Processes |-> Nothing]
  /\ late = MaxLate /\ runs = MaxRuns /\ faults = MaxFaults

Store(new) == klines' = klines \union new /\ stored' = stored \union new

(* A minute closes, and the klines of some symbols are stored. *)
CloseMinute(punctual) ==
  /\ minute < MaxMinute
  /\ minute' = minute + 1
  /\ Cardinality(Symbols \ punctual) <= late
  /\ late' = late - Cardinality(Symbols \ punctual)
  /\ Store(punctual \X {minute'})
  /\ UNCHANGED <<snapshots, factors, pc, work, runs, faults>>

(* A kline is flushed later than the others, or backfilled. *)
LateKline(s, m) ==
  /\ <<s, m>> \notin stored
  /\ m <= minute /\ m > minute - Backfill
  /\ Store({<<s, m>>})
  /\ UNCHANGED <<minute, snapshots, factors, pc, work, late, runs, faults>>

(* compute_latest_indicators, up to its first upsert.  The application does it in
   every pass of its loop. *)
Compute(p) ==
  /\ pc[p] = "idle"
  /\ p = "cli" => runs > 0
  /\ runs' = IF p = "cli" THEN runs - 1 ELSE runs
  /\ pc' = [pc EXCEPT ![p] = "computed"]
  /\ work' = [work EXCEPT ![p] = Computed(Universe[p])]
  /\ UNCHANGED <<minute, klines, snapshots, factors, late, faults, stored>>

(* Its upserts.  Both processes write in the order of symbols, the factor last, so
   that they never wait for each other. *)
SameRows(v, w) ==
  \/ v.ts # None /\ v.ts = w.ts
  \/ \E n \in v.snaps : New(w, n.key) # {}
Unlocked(p) ==
  \A q \in Processes \ {p} : pc[q] = "written" => ~SameRows(work[p], work[q])
Write(p) ==
  /\ pc[p] = "computed" /\ Unlocked(p)
  /\ pc' = [pc EXCEPT ![p] = "written"]
  /\ UNCHANGED <<minute, klines, snapshots, factors, work, late, runs, faults, stored>>

EndedWithWork(p) ==
  /\ pc' = [pc EXCEPT ![p] = "idle"]
  /\ UNCHANGED <<work, minute, klines, late, runs, stored>>
Ended(p) ==
  /\ pc' = [pc EXCEPT ![p] = "idle"]
  /\ work' = [work EXCEPT ![p] = Nothing]
  /\ UNCHANGED <<minute, klines, late, runs, stored>>

Commit(p) ==
  /\ pc[p] = "written"
  /\ snapshots' = UpsertIndicator(work[p], snapshots)
  /\ factors' = UpsertMarketFactor(work[p], factors)
  /\ Ended(p)
  /\ UNCHANGED faults

PassFails(p) ==
  /\ pc[p] # "idle" /\ faults > 0
  /\ faults' = faults - 1
  /\ Ended(p)
  /\ UNCHANGED <<snapshots, factors>>

(* retention-run: DELETE .. WHERE ts < :cutoff, in one transaction. *)
ExpiredEarly(m) == m <= minute - Retention + 1
Expired(m) == m <= minute - Retention
RetentionRun ==
  /\ runs > 0
  /\ runs' = runs - 1
  /\ klines' = {k \in klines : ~Expired(k[2])}
  /\ snapshots' = [k \in DOMAIN snapshots |-> IF Expired(k[2]) THEN None ELSE snapshots[k]]
  /\ factors' = [m \in Minutes |-> IF Expired(m) THEN None ELSE factors[m]]
  /\ UNCHANGED <<minute, pc, work, late, faults, stored>>

Next ==
  \/ \E punctual \in SUBSET Symbols : CloseMinute(punctual)
  \/ \E s \in Symbols, m \in Minutes : LateKline(s, m)
  \/ \E p \in Processes : Compute(p) \/ Write(p) \/ Commit(p) \/ PassFails(p)
  \/ RetentionRun

Spec == Init /\ [][Next]_vars

(* The loop of the application goes on, and every transaction comes to its end,
   whichever it is, once it holds its rows. *)
Goes(p, from, to) == pc[p] = from /\ pc' = [pc EXCEPT ![p] = to]
FairSpec ==
  /\ Spec
  /\ WF_pc(Goes("app", "idle", "computed"))
  /\ \A p \in Processes :
       WF_pc((Goes(p, "computed", "written") /\ Unlocked(p)) \/ Goes(p, "written", "idle"))

-----------------------------------------------------------------------------
(* fetch_latest_indicator_snapshots inside the transaction of the application: the
   newest snapshot of a symbol, with the newest factor that is not after it. *)
View == [snaps |-> UpsertIndicator(work["app"], snapshots),
         factors |-> UpsertMarketFactor(work["app"], factors)]
LatestSnapshot(s) == {m \in Minutes : View.snaps[<<s, m>>] # None}
FactorsUpTo(m) == {t \in Minutes : t <= m /\ View.factors[t] # None}
MarketRelative(s, m) ==
  Difference(View.snaps[<<s, m>>].ret1,
             IF FactorsUpTo(m) = {} THEN None ELSE View.factors[Max(FactorsUpTo(m))])

(* kline_gap_reports, with calculate_gap_ratio in percent. *)
Everywhere(s) == MinutesOf(klines, s)
InWindow(s) == {m \in MinutesOf(klines, s) : m > minute - Lookback}
GapRatioOk(s) ==
  LET missing == Max({Lookback - Cardinality(InWindow(s)), 0})
  IN 100 * missing <= MaxGapPct * Lookback
ReportOk(s) ==
  /\ InWindow(s) # {}
  /\ GapRatioOk(s)
  /\ minute - Max(InWindow(s)) <= MaxKlineAge

-----------------------------------------------------------------------------
Moves == Int \union {None}
Snapshot == [ret1 : Moves, ret5 : Moves, ret15 : Moves, btcRel : Moves, score : Moves,
             volZ : Moves, volPct : Moves, norm : Moves]

(* Tables hold rows of minutes that have closed; a computation that is idle holds
   nothing. *)
TypeOK ==
  /\ minute \in Minutes /\ late \in 0..MaxLate /\ runs \in 0..MaxRuns /\ faults \in 0..MaxFaults
  /\ klines \subseteq stored /\ stored \subseteq Symbols \X (0..minute)
  /\ \A k \in DOMAIN snapshots : snapshots[k] # None => snapshots[k] \in Snapshot /\ k[2] <= minute
  /\ \A m \in Minutes : factors[m] # None => factors[m] \in Int /\ m <= minute
  /\ pc \in [Processes -> {"idle", "computed", "written"}]
  /\ \A p \in Processes : pc[p] = "idle" => work[p] = Nothing

(* What the rules of a pass are given as the market relative return is the one that
   went into the snapshot's score in the same pass, although it is not stored and the
   factor is found by its minute - unless the symbol lags behind the minute of the
   factor, or an earlier computation left a factor in between. *)
MarketViewAgrees ==
  pc["app"] = "written" =>
    \A own \in work["app"].snaps :
      LET s == own.key[1] m == own.key[2]
      IN Max(LatestSnapshot(s)) = m =>
           \/ MarketRelative(s, m) = own.market
           \/ m < work["app"].ts
           \/ \E t \in Minutes : work["app"].ts < t /\ t <= m /\ factors[t] # None

(* Retention never takes a row from the baseline of a snapshot that is still
   computed: the samples are those of all the klines ever stored. *)
SamplesAreWhole ==
  \A s \in Symbols, m \in Minutes :
    <<s, m>> \in klines /\ Fresh(m) => BaselineRows(klines, s, m) = BaselineRows(stored, s, m)

(* A gap report that is ok bounds how far a return may reach back, although the
   code looks rows up by their order: return_1m spans at most one minute more than
   the gap ratio allows to be missing, and so does each return of the sample beyond
   its fifteen minutes, within the window of the report. *)
MayMiss == (MaxGapPct * Lookback) \div 100
ReportBoundsSpans ==
  \A s \in Symbols :
    ReportOk(s) =>
      LET rows == MinutesOf(klines, s) m == Max(rows)
          in(t) == t > minute - Lookback
      IN /\ MayMiss + 1 < Lookback => m - 1 - MayMiss <= Max({t \in rows : t < m} \union {-1})
         /\ \A t \in rows :
              \A u \in RowsBack(BaselineRows(klines, s, m), t) : in(u) => t - u <= LongLag + MayMiss

(* Late klines and the other process' older figures do not last: as long as the
   newest kline of a symbol is fresh, its snapshot comes to be what the application
   computes from all the klines there are. *)
CaughtUp == \A n \in Computed(Universe["app"]).snaps : snapshots[n.key] = n.row
SnapshotsCatchUp == <>[]CaughtUp
=============================================================================
