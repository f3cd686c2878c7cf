-------------------------------- MODULE Ingest --------------------------------
(***************************************************************************)
(* How market data gets into the tables while the application runs: the    *)
(* WebSocket readers collect rows, the flusher writes what was collected   *)
(* (app.py, run_ws), and next to them the REST poller backfills recent     *)
(* klines and seeds the funding history (binance.py, poll_rest_forever).   *)
(*                                                                         *)
(* Time is the number of minutes that have closed.  A kline is a pair      *)
(* <<symbol, minute>>; of its values only whether they are final matters.  *)
(* Mark prices are left out: they take the way of klines and nothing below *)
(* depends on them.                                                        *)
(***************************************************************************)
EXTENDS Integers, FiniteSets

CONSTANTS
  Symbols,      \* the universe of the run
  Connections,  \* kline connections; the market-wide one is Market
  FeedOf,       \* FeedOf[s]: the connection whose chunk holds s
  Orders,       \* force orders the exchange reports, each once
  Foreign,      \* those of symbols outside the universe
  BackfillLimit,  \* kline_backfill_limit
  MaxMinute,    \* bound: minutes explored
  MaxFaults     \* bound: disconnections, failures and crashes explored

NoSymbol == "no symbol"

ASSUME IngestAssumption ==
  /\ FeedOf \in [Symbols -> Connections] /\ NoSymbol \notin Symbols
  /\ Foreign \subseteq Orders
  /\ BackfillLimit \in Nat \ {0} /\ MaxMinute \in Nat /\ MaxFaults \in Nat

Minutes == 1..MaxMinute
Klines == Symbols \X Minutes
Market == "market"
NotRead == -1
Nothing == [klines |-> {}, orders |-> {}]

VARIABLES
  minute,       \* minutes closed so far
  faults,       \* faults left to the environment
  connected,    \* connections that are up
  wire,         \* messages sent to a connection and not read yet
  reported,     \* force orders the exchange has reported
  pending,      \* rows collected since the last flush
  batch,        \* rows the running flush took
  flushing,     \* the flusher is inside its transaction
  klines,       \* table futures_kline_1m: "none", or the values stored
  liquidations, \* table liquidation_snapshots: rows per order
  round,        \* where the poller is: "sleep", "symbols" or "funding"
  queue,        \* symbols the round has still to do
  asked,        \* the symbol whose REST answer is awaited, or NoSymbol
  answered,     \* minutes closed when the exchange answered it
  cutoff,       \* minutes closed when klines_1m read the clock, or NotRead
  backfilled,   \* kline_backfill_seeded
  seeded,       \* funding_history_seeded
  seedFailed,   \* a symbol of the running seed_funding_history_once failed
  funding,      \* symbols whose funding history is stored
  missed,       \* history: klines closed while their connection was down, or cut with it
  dropped,      \* history: klines lost by a failed flush or a crash
  healed,       \* history: klines some committed backfill covered
  skipped       \* history: symbols whose backfill failed since the process started

socketVars == <<connected, wire, reported>>
flushVars == <<pending, batch, flushing>>
pollVars == <<round, queue, asked, answered, cutoff, backfilled, seeded, seedFailed>>
tables == <<klines, liquidations, funding>>
history == <<missed, dropped, healed, skipped>>
vars == <<minute, faults, socketVars, flushVars, tables, pollVars, history>>

KlinesOf(c) == {r \in wire.klines : FeedOf[r[1]] = c}

Init ==
  /\ minute = 0 /\ faults = MaxFaults
  /\ connected = Connections \union {Market} /\ wire = Nothing /\ reported = {}
  /\ pending = Nothing /\ batch = Nothing /\ flushing = FALSE
  /\ klines = [r \in Klines |-> "none"] /\ liquidations = [o \in Orders |-> 0]
  /\ round = "sleep" /\ queue = {} /\ asked = NoSymbol /\ answered = 0 /\ cutoff = NotRead
  /\ backfilled = FALSE /\ seeded = FALSE /\ seedFailed = FALSE /\ funding = {}
  /\ missed = {} /\ dropped = {} /\ healed = {} /\ skipped = {}

-----------------------------------------------------------------------------
(* The exchange: it closes a minute, and reports a force order. *)
MinuteCloses ==
  /\ minute < MaxMinute
  /\ minute' = minute + 1
  /\ LET closed == Symbols \X {minute + 1}
         sent   == {r \in closed : FeedOf[r[1]] \in connected}
     IN /\ wire' = [wire EXCEPT !.klines = @ \union sent]
        /\ missed' = missed \union (closed \ sent)
  /\ UNCHANGED <<faults, connected, reported, flushVars, tables, pollVars,
                 dropped, healed, skipped>>

ForceOrder ==
  /\ Market \in connected
  /\ \E o \in Orders \ reported :
       /\ reported' = reported \union {o}
       /\ wire' = [wire EXCEPT !.orders = @ \union {o}]
  /\ UNCHANGED <<minute, faults, connected, flushVars, tables, pollVars, history>>

(* The connection breaks: what the reader had not read is gone. *)
Disconnect(c) ==
  /\ c \in connected /\ faults > 0
  /\ faults' = faults - 1
  /\ connected' = connected \ {c}
  /\ wire' = IF c = Market THEN [wire EXCEPT !.orders = {}]
             ELSE [wire EXCEPT !.klines = @ \ KlinesOf(c)]
  /\ missed' = missed \union (IF c = Market THEN {} ELSE KlinesOf(c))
  /\ UNCHANGED <<minute, reported, flushVars, tables, pollVars, dropped, healed, skipped>>

(* messages_from_url connects again after its backoff; nothing is asked for again. *)
Reconnect(c) ==
  /\ c \notin connected
  /\ connected' = connected \union {c}
  /\ UNCHANGED <<minute, faults, wire, reported, flushVars, tables, pollVars, history>>

-----------------------------------------------------------------------------
(* handle_ws_message and collect: the market-wide stream is filtered by the
   universe, kline streams are not. *)
CollectKline ==
  /\ \E r \in wire.klines :
       /\ wire' = [wire EXCEPT !.klines = @ \ {r}]
       /\ pending' = [pending EXCEPT !.klines = @ \union {r}]
  /\ UNCHANGED <<minute, faults, connected, reported, batch, flushing, tables, pollVars, history>>

CollectOrder ==
  /\ \E o \in wire.orders :
       /\ wire' = [wire EXCEPT !.orders = @ \ {o}]
       /\ pending' = IF o \in Foreign THEN pending ELSE [pending EXCEPT !.orders = @ \union {o}]
  /\ UNCHANGED <<minute, faults, connected, reported, batch, flushing, tables, pollVars, history>>

(* flush: the lists are swapped for empty ones before the first await, so that
   what is collected meanwhile waits for the next flush. *)
SwapNothing ==
  /\ batch' = pending
  /\ UNCHANGED pending
Swap ==
  /\ batch' = pending
  /\ pending' = Nothing

FlushStartNeedsAll ==
  /\ ~flushing /\ pending.klines # {} /\ pending.orders # {}
  /\ flushing' = TRUE
  /\ Swap
  /\ UNCHANGED <<minute, faults, socketVars, tables, pollVars, history>>
FlushStart ==
  /\ ~flushing /\ pending # Nothing
  /\ flushing' = TRUE
  /\ Swap
  /\ UNCHANGED <<minute, faults, socketVars, tables, pollVars, history>>

Write ==
  /\ klines' = [r \in Klines |-> IF r \in batch.klines THEN "final" ELSE klines[r]]
  /\ liquidations' = [o \in Orders |-> liquidations[o] + (IF o \in batch.orders THEN 1 ELSE 0)]
  /\ flushing' = FALSE /\ batch' = Nothing
FlushCommitClears ==
  /\ flushing
  /\ Write
  /\ pending' = Nothing
  /\ UNCHANGED <<minute, faults, socketVars, funding, pollVars, history>>
FlushCommit ==
  /\ flushing
  /\ Write
  /\ UNCHANGED <<minute, faults, socketVars, pending, funding, pollVars, history>>

(* A failed flush is logged; its rows are not put back. *)
FlushFails ==
  /\ flushing /\ faults > 0
  /\ faults' = faults - 1
  /\ flushing' = FALSE /\ batch' = Nothing
  /\ dropped' = dropped \union batch.klines
  /\ UNCHANGED <<minute, socketVars, pending, tables, pollVars, missed, healed, skipped>>

-----------------------------------------------------------------------------
(* A round of the poller: exchange_info, then every symbol in turn. *)
RoundStart ==
  /\ round = "sleep"
  /\ round' = "symbols" /\ queue' = Symbols
  /\ UNCHANGED <<minute, faults, socketVars, flushVars, tables, asked, answered, cutoff,
                 backfilled, seeded, seedFailed, history>>

(* exchange_info or upsert_symbols raises: the round is over, its flags unset. *)
RoundFailsForGood ==
  /\ round = "symbols" /\ queue = Symbols /\ asked = NoSymbol /\ faults > 0
  /\ faults' = faults - 1
  /\ round' = "stopped" /\ queue' = {}
  /\ UNCHANGED <<minute, socketVars, flushVars, tables, asked, answered, cutoff,
                 backfilled, seeded, seedFailed, history>>
RoundFails ==
  /\ round = "symbols" /\ queue = Symbols /\ asked = NoSymbol /\ faults > 0
  /\ faults' = faults - 1
  /\ round' = "sleep" /\ queue' = {}
  /\ UNCHANGED <<minute, socketVars, flushVars, tables, asked, answered, cutoff,
                 backfilled, seeded, seedFailed, history>>

(* The exchange answers klines_1m with the newest klines, the open one included;
   once backfilling is done, a poll asks for none. *)
PollSymbol(s) ==
  /\ round = "symbols" /\ asked = NoSymbol /\ s \in queue
  /\ asked' = s
  /\ answered' = IF backfilled THEN 0 ELSE minute
  /\ cutoff' = IF backfilled THEN 0 ELSE NotRead
  /\ UNCHANGED <<minute, faults, socketVars, flushVars, tables, round, queue,
                 backfilled, seeded, seedFailed, history>>

(* klines_1m reads the clock once the answer has come. *)
ReadAnswer ==
  /\ asked # NoSymbol /\ cutoff = NotRead
  /\ cutoff' = minute
  /\ UNCHANGED <<minute, faults, socketVars, flushVars, tables, round, queue, asked, answered,
                 backfilled, seeded, seedFailed, history>>

(* It drops a kline whose close time lies ahead of that clock; what was open in
   the answer and has closed on the way passes. *)
Answer == {r \in Klines : /\ r[1] = asked
                          /\ r[2] <= answered + 1 /\ r[2] > answered + 1 - BackfillLimit}
Finished == {r \in Answer : r[2] <= answered}
KeptLate == IF backfilled THEN {} ELSE {r \in Answer : r[2] < cutoff}
Kept == IF backfilled THEN {} ELSE {r \in Answer : r[2] <= cutoff}

PollStored ==
  /\ asked # NoSymbol /\ cutoff # NotRead
  /\ klines' = [r \in Klines |-> IF r \notin Kept THEN klines[r]
                                 ELSE IF r \in Finished THEN "final" ELSE "partial"]
  /\ healed' = IF backfilled THEN healed ELSE healed \union Finished
  /\ queue' = queue \ {asked} /\ asked' = NoSymbol /\ answered' = 0 /\ cutoff' = NotRead
  /\ UNCHANGED <<minute, faults, socketVars, flushVars, liquidations, funding, round,
                 backfilled, seeded, seedFailed, missed, dropped, skipped>>

(* Anything in the symbol's transaction raises: logged, and on to the next. *)
PollFails ==
  /\ asked # NoSymbol /\ faults > 0
  /\ faults' = faults - 1
  /\ skipped' = IF backfilled THEN skipped ELSE skipped \union {asked}
  /\ queue' = queue \ {asked} /\ asked' = NoSymbol /\ answered' = 0 /\ cutoff' = NotRead
  /\ UNCHANGED <<minute, socketVars, flushVars, tables, round, backfilled, seeded,
                 seedFailed, missed, dropped, healed>>

SymbolsDone ==
  /\ round = "symbols" /\ asked = NoSymbol /\ queue = {}
  /\ round' = "funding"
  /\ queue' = IF seeded THEN {} ELSE Symbols
  /\ UNCHANGED <<minute, faults, socketVars, flushVars, tables, asked, answered, cutoff,
                 backfilled, seeded, seedFailed, history>>

(* seed_funding_history_once, symbol by symbol, each in a transaction. *)
SeedSymbol(s) ==
  /\ round = "funding" /\ s \in queue
  /\ queue' = queue \ {s}
  /\ \/ funding' = funding \union {s} /\ UNCHANGED <<faults, seedFailed>>
     \/ faults > 0 /\ faults' = faults - 1 /\ seedFailed' = TRUE /\ UNCHANGED funding
  /\ UNCHANGED <<minute, socketVars, flushVars, klines, liquidations, round, asked,
                 answered, cutoff, backfilled, seeded, history>>

SeedFlagAlways == TRUE
SeedFlag == ~seedFailed

(* The count of seeded symbols ends with the call it belongs to. *)
RoundEndKeepsFailure ==
  /\ round = "funding" /\ queue = {}
  /\ seeded' = (seeded \/ SeedFlag)
  /\ backfilled' = TRUE
  /\ round' = "sleep"
  /\ UNCHANGED <<minute, faults, socketVars, flushVars, tables, queue, asked, answered, cutoff,
                 seedFailed, history>>
RoundEnd ==
  /\ round = "funding" /\ queue = {}
  /\ seeded' = (seeded \/ SeedFlag)
  /\ backfilled' = TRUE
  /\ round' = "sleep" /\ seedFailed' = FALSE
  /\ UNCHANGED <<minute, faults, socketVars, flushVars, tables, queue, asked, answered, cutoff,
                 history>>

(* The process dies and starts again: what it held in memory is gone. *)
CrashRestart ==
  /\ faults > 0
  /\ faults' = faults - 1
  /\ connected' = {} /\ wire' = Nothing
  /\ pending' = Nothing /\ batch' = Nothing /\ flushing' = FALSE
  /\ round' = "sleep" /\ queue' = {} /\ asked' = NoSymbol /\ answered' = 0 /\ cutoff' = NotRead
  /\ backfilled' = FALSE /\ seeded' = FALSE /\ seedFailed' = FALSE
  /\ missed' = missed \union wire.klines
  /\ dropped' = dropped \union pending.klines \union batch.klines
  /\ skipped' = {}
  /\ UNCHANGED <<minute, reported, tables, healed>>

-----------------------------------------------------------------------------
Exchange == MinuteCloses \/ ForceOrder \/ \E c \in Connections \union {Market} : Disconnect(c)
Reader == CollectKline \/ CollectOrder
Flusher == FlushStart \/ FlushCommit \/ FlushFails
Poller == \/ RoundStart \/ RoundFails \/ ReadAnswer \/ PollStored \/ PollFails \/ SymbolsDone \/ RoundEnd
          \/ \E s \in Symbols : PollSymbol(s) \/ SeedSymbol(s)
Reconnects == \E c \in Connections \union {Market} : Reconnect(c)

Next == Exchange \/ Reconnects \/ Reader \/ Flusher \/ Poller \/ CrashRestart

Spec == Init /\ [][Next]_vars

(* The tasks of asyncio.gather are all scheduled: the flusher's sleep ends, the
   database and the REST client answer or raise, a connection is retried. *)
FairSpec == /\ Spec
            /\ WF_vars(Reader) /\ WF_vars(Flusher) /\ WF_vars(Poller) /\ WF_vars(Reconnects)

-----------------------------------------------------------------------------
(* What belongs to one flush, one poll or one seed does not outlive it. *)
NothingLeft ==
  /\ ~flushing => batch = Nothing
  /\ round = "sleep" => queue = {}
  /\ asked # NoSymbol => round = "symbols" /\ asked \in queue
  /\ asked = NoSymbol => cutoff = NotRead
  /\ seedFailed => round = "funding"

Rows == [klines : SUBSET Klines, orders : SUBSET Orders]

(* Every variable has its type, and neither a flush nor a round leaves anything
   behind for the next one to take for its own. *)
TypeOK ==
  /\ NothingLeft
  /\ minute \in 0..MaxMinute /\ faults \in 0..MaxFaults
  /\ connected \subseteq Connections \union {Market}
  /\ wire \in Rows /\ pending \in Rows /\ batch \in Rows
  /\ reported \subseteq Orders /\ flushing \in BOOLEAN
  /\ klines \in [Klines -> {"none", "partial", "final"}]
  /\ liquidations \in [Orders -> Nat]
  /\ round \in {"sleep", "symbols", "funding"} /\ queue \subseteq Symbols
  /\ asked \in Symbols \union {NoSymbol} /\ answered \in 0..MaxMinute
  /\ cutoff \in 0..MaxMinute \union {NotRead}
  /\ backfilled \in BOOLEAN /\ seeded \in BOOLEAN /\ seedFailed \in BOOLEAN
  /\ funding \subseteq Symbols /\ skipped \subseteq Symbols
  /\ missed \subseteq Klines /\ dropped \subseteq Klines /\ healed \subseteq Klines

(* A closed kline is on its way to the table, or in it, unless its connection was
   down when it was due or the batch that carried it was lost; and then it is in
   the table all the same if a backfill covered it. *)
GapsAreExplained ==
  \A r \in Klines :
    r[2] <= minute /\ klines[r] = "none" =>
      /\ r \in wire.klines \union pending.klines \union batch.klines \union missed \union dropped
      /\ r \notin healed

(* A force order is stored at most once, whatever fails between collecting and
   committing it (the table has no key that would absorb a second insert), and
   one of a symbol outside the universe never. *)
LiquidationsOnce ==
  \A o \in Orders :
    /\ liquidations[o] + (IF o \in pending.orders THEN 1 ELSE 0)
                       + (IF o \in batch.orders THEN 1 ELSE 0) <= 1
    /\ o \in Foreign => liquidations[o] = 0

(* The funding history counts as seeded only once every symbol has it. *)
SeededIsComplete == seeded => funding = Symbols

(* What was collected is stored, or lost to a failed flush or a crash: it does
   not wait for ever. *)
CollectedIsWritten ==
  \A r \in Klines : r \in pending.klines ~> klines[r] # "none" \/ r \in dropped

(* Both seeds happen: a failed round or a failed symbol only delays them. *)
SeedsHappen == <>[](seeded /\ backfilled)

(* "Only closed kline_1m rows are persisted" (docs/acceptance-checklist.md). *)
OnlyClosedRows == \A r \in Klines : klines[r] # "partial"

(* "Restarting the app backfills recent closed klines" (docs/acceptance-checklist.md):
   once the poller is done with backfilling, no symbol was left out. *)
BackfillIsComplete == backfilled => skipped = {}
=============================================================================
