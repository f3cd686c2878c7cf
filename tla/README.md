# bn-monitor in TLA+

bn-monitor watches Binance USDT perpetuals: it collects klines, mark prices and
forced orders, computes indicators, decides alerts from them and pushes these to
Discord. This directory holds TLA+ models of its parts, the TLC runs that check
them on small instances and the TLAPS proofs of theorems about them. Paths below
are relative to the repository; `alerts.py` stands for `bn_monitor/alerts.py`.

## 1. The system

One process, one asyncio event loop, one PostgreSQL database. `MonitorApp.run`
(`app.py:37`) selects the universe once and then runs three tasks for ever; other
commands of the CLI run single steps of the same code in a process of their own.

| component | state | operations | talks to |
|---|---|---|---|
| WebSocket ingest (`app.py:81`, `binance.py:264`) | lists of collected rows, one connection per chunk of symbols and one market-wide | read a message, collect, flush every 0.2 s | exchange; kline, mark price and liquidation tables |
| REST poller (`binance.py:297`) | two "seeded" flags, time of the last open interest poll | a round per minute: exchange info, each symbol (backfill, mark price, open interest), funding seed | exchange; the same tables |
| REST client (`binance.py:213`) | time of the last request | spaced requests, three attempts | poller |
| indicators (`indicators.py:195`) | none | one snapshot per symbol, one market factor | tables, inside the alert loop's transaction |
| rule engine (`alerts.py:73`, `199`) | none | snapshot to decisions | alert loop |
| live aggregation (`alerts.py:366-495`) | none | decisions to bundles or a digest | alert loop |
| alert loop (`app.py:133`) | an open transaction | one pass every 5 s, everything in one transaction | rules, alert service |
| alert service (`alerts.py:245`) | dict of cooldowns; rows of `alerts`, `alert_cooldowns` | persist, suppress, escalate, push | tables, Discord |
| Discord delivery (`discord.py`) | token bucket, last status | send one alert, up to three posts | Discord |
| universe (`app.py:60`, `binance.py:425`) | the list of symbols | chosen once, before the tasks start | exchange |
| data quality (`quality.py`), reports | none | read-only | tables |
| retention, command line (`cli.py`) | none of its own | one step of the above in a process of its own, or a `DELETE` per table | tables, beside the application |
| settings, engine, logging | none | start-up | |

Hard behaviours, all listed with their lines under "hazards" in `PROJECT.json`:

- a push is made *inside* the transaction that records it, and cannot be undone;
- three memories of what was pushed (dict, cooldown table, rows) with different
  lifetimes: process, committed pass, for ever;
- indicators of the newest minute are recomputed every 5 s, so one source minute
  is decided many times, perhaps with different severities;
- readers, flusher and poller interleave at every `await`; disconnections, failed
  flushes and restarts lose data that only some paths bring back;
- a command of the CLI is a second process on the same tables: neither knows the other's
  dict, and only row locks and the unique index order them;
- what a snapshot is computed from - the newest rows, rows further back by number or by
  time, the market's median - belongs to minutes that need not be the same;
- pauses, flags and schedules of the poller survive the failure of any single request;
- rules written twice, once per direction, with thresholds at every comparison.

What makes each component correct, in one line: *ingest* - whatever is missing is
missing for a known reason, nothing without a key is stored twice; *poller* - seeds
happen, and are not taken for done before, open interest comes round for everybody;
*REST client* - pauses are kept; *indicators* - samples are aligned and whole, the rules
read what was computed, old figures do not last; *rules* - sides are symmetric and exclude
each other; *aggregation* - no decision vanishes, keys stay distinct; *alert service* -
cooldowns hold for whatever is on record, a minute is pushed once, rows tell what
became of their push; *delivery* - rate bounded, pauses kept, status truthful, calls end.

## 2. Modules

| module | models | state and actions |
|---|---|---|
| `AlertCycle` | one process running the alert loop over the alert tables | tables as committed (`alerts`, `cooldowns`) and as the open transaction sees them (`txAlerts`, `txCooldowns`), the dict (`memory`), the place in the pass (`pc`, `todo`, `index`, `sending`). One action per stage of a pass, per outcome of `persist_and_deliver` (`PersistShadow`, `PersistCapped`, `PersistCooled`, `PersistDuplicate`, `PersistSend`), for the return of `send_alert` (`DiscordAnswer`), `Commit`, `PassFails`, `CrashRestart` |
| `AlertBook` | the abstract specification of the table: whole passes only | one variable, one action |
| `AlertWriters` | several processes, each with an `AlertService`, on the alert tables: the loop and `generate-alerts` | tables as committed (`rows`, `active`, `cooldowns`), and per process the dict, the place in the pass (`pc`, `todo`, `call`) and what its transaction has written and therefore locked (`inserted`, `closed`, `recorded`). One action per statement that can wait: `Sweep` (expire and resolve), `Check` (parent and cooldown), `Insert`, `Record`, then `Commit`, `PassFails`, and `Victim`, the transaction PostgreSQL ends when two wait for each other |
| `AlertLedger` | the abstract specification of the tables with several writers: overlapping passes get on record one by one, each as a whole, pushes with the rows they are of | the rows, the pushes on record and the time; one action for a pass, one for time |
| `IndicatorMath` | the arithmetic of `indicators.py` | operators: `PctChange`, `Median`, `RobustZ`, `NormalizedMove`, `PercentileRank` |
| `OiSample` | `oi_change_sample` and the query it works on | the two indices `i`, `j` and the changes found; one action per comparison of the inner loop |
| `MarketData` | `compute_latest_indicators` by two processes, over klines, snapshots and market factors; retention; the kline gap report | the three tables, and per process what its computation has written. `CloseMinute`, `LateKline`, `Compute`, `Write`, `Commit`, `PassFails`, `RetentionRun`; the queries are operators named for the functions |
| `RestPoller` | `run` up to its tasks, `sync_universe_once`, `poll_rest_forever`, `_get`, `_wait_for_slot` | where `_get` is (`pc`, `call`, `wait`, `since`), and the poller's locals under names of their own: `due`, `mark`, `backfilled`, `seeded`, `queue`. One action per outcome of a request (`Ok`, `Unknown`, `Fails`, `RateLimited`, `ServerError`), `Retry`, `GiveUp`, `Round`, `Start`, `Crash`, `Delist` |
| `Ingest` | readers, flusher and poller over the kline, liquidation and funding tables | one action per step between two awaits |
| `DiscordWebhook` | `TokenBucket` and `send_alert` | one action per answer of Discord, token taken or waited for, retry, return |
| `AlertRules` | `generate_alerts`, `generate_liquidation_snapshot_confirmation` | the newest snapshot of each symbol; the rules are operators |
| `LiveAggregation` | `prepare_indicator_decisions_for_mode` on top of `AlertRules` | operators |
| `MC_*` | constants for TLC | |
| `*_proofs` | theorems | |

How they fit together: `LiveAggregation` computes what `AlertCycle` takes as its
input `feed`; `DiscordWebhook` is the inside of `AlertCycle!DiscordAnswer`
(`StatusTellsDelivery` is why `AlertCycle` may take the status for the outcome);
`Ingest` fills the tables of klines that `MarketData` computes snapshots from, and
`MarketData` those that `AlertRules` decides by. `RestPoller` and `Ingest` are two views
of the poller: when what is asked, and what becomes of a kline that is read. `AlertWriters`
repeats of `AlertCycle` what a second process can disturb, without modes and cap. They do
not share variables, so each is checked alone.

### What is abstracted, and how

- **Keys.** A key is a pair (symbol, alert type); the models never look inside.
  BUY and SELL liquidations of a symbol share a key. `AlertCycle` gives a key one
  decision per pass; `OneSideConfirmed` and `OneAlertPerKey` are what makes that
  right. `Rivals` names keys that are never decided together: the digest stands
  for every other indicator decision of its pass.
- **Time.** In `AlertCycle` a tick is five minutes (CRITICAL waits one, WARNING
  two, as in the default settings). Time may pass at any step of a pass. In
  `DiscordWebhook` tokens are counted in ticks, so no fractions are needed; the
  0.05 s minimum sleep of `acquire` is below a tick. In `Ingest` time is the number
  of closed minutes.
- **Transactions.** The transaction is what its process sees: it starts equal to the
  committed tables and replaces them on commit. In `AlertCycle` one process writes alerts.
  In `AlertWriters` and `MarketData` there are two, at READ COMMITTED: a statement sees what
  is committed and what its own transaction wrote, and waits for a row or a slot of a unique
  index that another open transaction has written. `MarketData` joins the upserts of a
  computation into one step, because both processes write in the order of symbols
  (`LATEST_SYMBOL_ROWS_QUERY` orders by symbol), the factor last.
- **Decisions.** `feed` changes freely within what the rules can do: severity may
  change at the same minute, minutes may be old, a quiet key keeps nothing.
- **Klines** have two values: final, and partial (read before the minute closed).
- **Windows** of `MarketData` are minutes: seven days of baseline are 3 minutes, five
  minutes of staleness 2. What matters is which bounds are inclusive.
- **Relative time.** `RestPoller` counts how long ago something happened, up to the length
  the code compares it with, so that the clock needs no bound.
- **Numbers of the indicators** are parts of `Scale`, quotients rounded down; nothing stated
  depends on the rounding.
- **Numbers of the rules** are integers in basis points and percent. A missing value
  is `Null`.
- A symbol has one latest snapshot, hence one minute: the 30-second windows of
  `aggregate_symbol_alerts` never split its decisions, and are left out.

## 3. Runs

| run | bounds | shows |
|---|---|---|
| `alert_cycle` | one key that can be WARNING and CRITICAL, 3 new decisions, clock 0..3, one fault, pushes that Discord takes | cooldowns, repetition, escalation chains, final rows |
| `alert_modes` | four keys (`imp`, `abs` with a window of its own, the digest, a liquidation), cap 1, restarts between modes, two faults, pushes that Discord takes or refuses | the cap, rows that tell what became of their push, refinement of `AlertBook`, a lasting decision is stored |
| `alert_writers` | the loop and one command; one key through three source minutes and a whole cooldown, or two keys with a fault (`MCBudgets`) | one push per source minute, the cooldown across processes, refinement of `AlertLedger`, every pass ends |
| `market_data` | two symbols, minutes 0..5, two late klines, one run of a command, one failed computation | the rules' view, whole baselines, what an ok gap report means, figures that catch up |
| `rest_poller` | two symbols, both modes of the universe, four faults, delistings and crashes among them | pauses, the schedule of open interest, a failing symbol and the others |
| `ingest` | two symbols on one connection, one order in and one outside the universe, one minute, backfill of 2, one fault | accounting of gaps, no double insert, seeds |
| `discord_webhook` | two tokens of two ticks, pauses of 1 and 3 | rate, pauses, status, termination; nothing is bounded, the state space is finite |
| `algorithms` | BTC and another symbol, two minutes, snapshots around every default threshold, trigger 3, digest of 2; every table of up to 5 open interest rows at times 0..7, of which 4 are read | rules, aggregation, `oi_change_sample` |
| `cooldown_without_push`, `escalation_same_minute`, `open_candle`, `backfill_skipped` | the smallest that shows it | a statement of the documents that the code does not keep: see "findings" in `PROJECT.json` |

Why the bounds suffice. The alert service looks at one key at a time; keys meet only
in the order of a pass, the cap and the digest, which three keys show. Three decisions
allow a first alert, an escalation and a repetition, or a rollback between two of them;
four ticks allow windows to be open, at their boundary and past. One fault strikes at
any step, which is what matters: the theorems below hold for any number. Discord's
answer decides nothing but the status of the row, so `alert_cycle` has one answer and
`alert_modes` both. Two processes of `AlertWriters` suffice to meet in a lock, in a deadlock and
in a stale cooldown; three source minutes of one key are what the exception of
`CooldownHeldAcross` takes (it is reached). `MarketData` starts with the minutes up to `Warmup`
stored, so that its six minutes hold a whole baseline, a gap, a late kline and a deletion.
Four faults let all three attempts of a request fail and one thing more. In `ingest` one
connection carries both symbols, as for any universe below 300 symbols, and each hazard
needs one minute and one fault; `open_candle` uses two minutes. `TriggerCount` 3 and
`TopSize` 2 stand for 5 and 10: with two symbols a digest of 3 exists and is cut.
Ties in scores are left open.

`CHECK_DEADLOCK` is off in `algorithms` only, where a computation ends: an idle loop can
always start a pass, the poller a round, the webhook a tick.

**Fairness.** `AlertCycle!FairSpec` assumes the loop always goes on: each await of a
pass returns or raises (the HTTP client has a timeout of 10 s, three attempts), and the
sleep between passes ends. No fairness is assumed of time, decisions, faults or restarts;
faults are finitely many, without which no retry could be shown to succeed.
`Ingest!FairSpec` assumes that each of reader, flusher, poller and reconnection is
scheduled, as `asyncio.gather` does; nothing is assumed of the exchange.
`DiscordWebhook!FairSpec` assumes that sleeps end and posts are answered or given up.
`RestPoller!FairSpec` assumes that requests end, time passes, and the application is started
again (`restart: unless-stopped` in `docker-compose.yml`). `MarketData!FairSpec` assumes that
the loop of the application goes on and that a transaction that has its rows comes to an end;
nothing is assumed of the command. `AlertWriters!FairSpec` is strong: with weak fairness the
loop could be the deadlock's victim again and again while the command's statement waits for
a row that is always taken anew. PostgreSQL queues the waiters of a lock in the order they
came, so a statement that could go on again and again does go on.

## 4. Theorems

All are proved for every value of the constants under the named `ASSUME`s of the modules.

- `AlertCycle_proofs`: `TypeCorrect`, `CooldownHolds`, `PushedOnce`, `RowsStayFinal`,
  `StatusIsTrue`, `ParentsAreEarlier`, `LaterIsEscalation`, `CapHolds`.
  `CooldownRespected` is not inductive: it speaks of the moment of a push, while what
  protects a push is that each earlier one is remembered somewhere. The strengthening
  says where - a push by this process that is not rolled back is in the dict, a durable
  one in the committed cooldown, one in flight in the cooldown of the transaction, each
  with a time not before the push - and that the dict is armed for the key being sent.
  `NoRepeatPush` rests on a second part: each push on record has its row, in `alerts` if
  durable and in `txAlerts` if in flight, and rows never disappear. `RowsStayFinal` needs
  the relation between the two views of the table: what is committed is in the
  transaction with the same contents, up to closing. `StatusIsTrue` adds `Statuses`: each
  view of the table tells of exactly the pushes it knows of, and the only row still
  "pending" is that of the push under way. `ParentsAreEarlier` and `LaterIsEscalation` add
  `Links`: no row of a key whose minute never goes back is newer than the minute its rule
  decides about (`Ahead`), so that a new row is the newest of its key - which is what the
  query for the parent, without an upper bound, relies on. `CapHolds` adds that the pushes
  of a pass never outnumber the decisions it has taken, since the code compares the cap with
  the position of a decision and not with the pushes.
  `Refines`: AlertCycle implements `AlertBook`. The mapping forgets everything but whether a row
  is absent, active or closed. Between commits nothing changes, so each step but `Commit`
  stutters; for `Commit` the invariant says which rows the open transaction has opened and
  closed so far, and that at the end of the pass these are exactly those of one
  `AlertBook!Pass`.
- `DiscordWebhook_proofs`: `TypeCorrect`, `BurstIsBounded`, `SilenceIsKept`, `StatusIsTrue`.
  The bucket and the leaky bucket are related by: level plus tokens and their refill never
  exceed the capacity. For the status: every copy of an alert that reached the channel is
  either the one whose success is known, and then the call is returning true, or of a post
  whose answer left that open.
- `Ingest_proofs`: `TypeCorrect`, `OrdersStoredOnce`, `SeedIsComplete`, `GapsAccounted`.
  `LiquidationsOnce` is not inductive, because a row could be collected again after it was
  stored: `OrdersOnce` adds that an order is in one place at a time - unread, collected,
  in the batch, stored - and has been reported in all of them. `SeedAccounted` adds that
  what the running seed has not stored is in its queue unless a symbol has failed.
  `BackfillCovers` adds that the answer is never ahead of the clock read after it, so
  that every finished kline of an answer passes the filter. `KlinesTracked` rests on
  `NothingLeft`, a part of `TypeOK`: what belongs to one flush, poll or seed does not outlive
  it, so that the swap overwrites no batch; nor is a failure counted in the next seed.
- `AlertRules_proofs`: `OnePriceRuleFires` (from `0 < small move <= price threshold`,
  which every default satisfies and `Settings` does not check), `OneSideIsConfirmed`,
  `RulesMirrorEachOther`, `DecisionsAreVoiced`, `KeysDoNotCollide`. The last two are about
  `LiveAggregation`: there is a newest minute that reached the count (well-foundedness of the
  minutes after it), and a digest shorter than its limit lists all the decisions of its minute
  (the decisions of finitely many symbols are finite, and a subset of the same size is the set).
- `AlertWriters_proofs`: `WritersExclude`, `WritersTyped` (the types of `AlertWriters`, which no
  run checks beside it), for any set of processes. The
  invariant: a slot has at most one holder and then no committed row (`Excludes`), who pushes
  holds the slot and has not pushed it before (`Holds`), and each push has a row, in its
  transaction or in the table (`OnRecord`). `SlotPushedOnce` follows without a word on
  cooldowns: the unique index alone gives it. `CooldownAcross` adds `AcrossInv`: the table has,
  for every push on record, the time of a push of that key recorded with or after it
  (`Table`); what a check found on record is not newer than the check (`Knows`); a transaction
  writes a cooldown once, and only with a push (`Once`). So a push that was let through
  although one on record lies within the window was let through because that one's cooldown
  had been overwritten by an older time, from a transaction that checked before it.
  `LedgerHolds`: AlertWriters implements `AlertLedger`. The mapping keeps of the tables what
  is committed, so that every step but `Tick` and `Commit` stutters. A commit is one pass of the
  ledger, however many other commits came since it swept: it has inserted only what was said
  (`Told`), everything of that which has no row (`Settled`: a decision is still to do, being
  done, or has a row), and closes only what was stale or silent when it swept (`Swept`), which
  time does not undo. `AlertBook` would be too much to ask: a row that another process opened
  since the sweep stays open although the pass was silent about its key.
- `RestPoller_proofs`: `PollerTypes`, `NobodyLeftOut`, `SilenceIsKept`. `Turns` says who has had
  the turn at each stage of a due round - all but the queue and the symbol being asked for, in
  the funding seed all - and that as long as such a round runs the open interest stays due, so
  that a round which breaks off leaves it due. `Quiet` says that silence is wanted only during
  the pause of `_get`, and never for longer than it: the pause after the last attempt is what
  makes this inductive.
- `MarketData_proofs`: `BaselineIsKept`, from `Retention >= Baseline + Staleness`: whatever
  was stored and is missing has expired, and what has expired is before every baseline.
  `MarketTypes` and `ViewIsTheScores`, from `WellComputed`: what a computation holds until it
  commits has one row per key, each with the difference of its own return and the common
  median; without a median there is no return either, and no factor is written. That the
  figures are numbers rests on `KthExists`, the existence of order statistics: a finite set of
  integers has a greatest element (the one with the fewest above it), so the least value that
  `k` others do not exceed exists, and those below it are fewer than `k`. `ReportsBound`: the
  minutes missing in a stretch of the window are missing in the window, of which the ratio
  allows `MayMiss` (`StretchCounts`); cardinalities of intervals do the rest.
- `OiSample_proofs`: `SampleIsAligned`, for tables of any length and any spacing. `OiInv` says
  that every row between `i` and `j` is too young for row `i`, which makes the first row that is
  not the partner; because rows come newest first, it stays too young for the rows after `i`.

Every safety property of a passing run is proved. Liveness (`DecisionIsStored`,
`CollectedIsWritten`, `SeedsHappen`, `CallReturns`, `PassEnds`, `SnapshotsCatchUp`,
`OthersAreServed`) is beyond the prover and is only model-checked.

## 5. Limits

- `CooldownRespected` counts a push that a rolled-back pass made if the same process made
  it, and one made by an earlier process only if its pass was committed: between the two
  a crash loses the cooldown.
- `EscalationIsLinked` and `ActiveRowsAreChained` are stated for keys whose source minute
  never goes back. The digest's can (`alerts.py:376`).
- A cooldown may run although nothing was pushed: that of a decision whose minute has its row
  already (`cooldown_without_push`). What the dict holds back is therefore not always held
  back for a push; that nothing is pushed too early is what `CooldownRespected` says.
- `BurstBounded` and `QuietRespected` speak of one process: a restart begins with a full
  bucket and has forgotten the pauses.
- The retries of a call take no tokens, as in the code.
- `SilenceKept` speaks of one client: `poll-once` beside the application has its own.
- `MarketViewAgrees` has two exceptions, both real: a symbol that lags behind the minute of
  the factor, and a factor of a minute in between that an earlier computation left.
- `AlertCycle` keeps its keys across a restart. In the code the universe may have lost a symbol
  by then (`app.py:60`); its rows are then no longer resolved and only expire (`alerts.py:487`).
- In `AlertWriters` both processes take their decisions from the same keys and minutes, though
  `generate-alerts` reads `settings.symbols` (`cli.py:231`) and the loop the synced universe
  (`app.py:144`); and a sweep takes the rows of its two UPDATEs (`repository.py:152`) at once, so
  that a pass which holds only those of the first is not explored.
- In `Ingest` the host and the exchange have one clock. A host that lags behind would drop
  finished klines as well (`binance.py:172`).
- `OthersAreServed` says nothing of symbols the exchange does not trade: their funding
  history is asked for in every round for ever.

### Where code and documents differ

Four differences are runs (section 3). The models have the code's behaviour in these too:

- A crash between a push and the commit of its pass loses the cooldown, which "a restart does
  not lose": row and table are written after the push, in the transaction that is still open
  (`alerts.py:329`, `docs/strategy.md:244`).
- CRITICAL alerts wait five minutes, as `docs/strategy.md:234` says, and not one
  (`config.py`, `docs/acceptance-checklist.md:109`); the models take the windows as parameters.
- `count_1h` is the length of a chain of pushes each within an hour of the one before, not a
  count of one hour (`alerts.py:347`, `docs/strategy.md:244`).
- The digest is triggered by a number of decisions, and a symbol may give two
  (`alerts.py:373`, `docs/strategy.md:196`); its minute can go back (`alerts.py:376`).
- A return over one minute is the change against the newest earlier kline, which after a gap
  is older (`indicators.py:290`, `docs/strategy.md:54`); `ReportBoundsSpans` says how much.
- Rows are the latest of each symbol, not those of the latest common minute
  (`indicators.py:17`, `docs/acceptance-checklist.md:68`).
- `price_spike_score` and the market relative return the rules read may come from factors of
  different minutes for a symbol that lags (`alerts.py:521`, `docs/strategy.md:57`).
- Liquidation alerts are never resolved, only expired (`alerts.py:568`).
- A minute of liquidations is judged only until a later minute has one, of whatever symbol
  (`alerts.py:575`): what came since the last pass is then judged by nobody.
- The open interest of a snapshot may be of any age (`indicators.py:378`).

### Not modelled

Mark prices and malformed messages of the WebSocket; the funding context and the ratios of a
single candle, which are arithmetic without state; `table_freshness_reports` and the alert
summary, single read-only queries; `poll-once` and the checks of the environment in `cli.py`;
layout of messages; parsing of settings and of answers; hypertables. Reasons are under
"components" in `PROJECT.json`.

## 6. Plan

Order of the work, most important behaviour first.

1. *Done*: `AlertCycle`, `AlertBook` and their proofs; `DiscordWebhook` with proofs;
   `AlertRules` and `LiveAggregation`, with proofs of the rules; `Ingest` with proofs;
   `OiSample`, `MarketData`, `AlertWriters` with proofs; `RestPoller`.
2. Left to model: `AlertCycle` composed with `DiscordWebhook`, so that the answer of
   `send_alert` is computed and not chosen; `poll-once` on the tables of `Ingest`.
3. *Done*: every safety property of a passing run proved; two refinements, of `AlertBook` and
   of `AlertLedger`.
4. Left to prove: that what a call of `DiscordWebhook` returns is an answer `AlertCycle` allows,
   as a refinement of a specification of one delivery.

## 7. Running

    tlc -config AlertCycle.cfg MC_AlertCycle
    tlapm AlertCycle_proofs.tla

The module of each run and the theorems are listed in `PROJECT.json`.
