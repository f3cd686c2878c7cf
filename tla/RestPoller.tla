------------------------------ MODULE RestPoller ------------------------------
(***************************************************************************)
(* The REST side of the application: the universe synchronised at start    *)
(* (app.py, run and sync_universe_once), the rounds of poll_rest_forever,  *)
(* and _get of the client they share, which spaces the requests, waits out *)
(* a 429 and repeats after a server error (binance.py).  Here is when what *)
(* is asked; what happens to a kline read by REST is in Ingest.            *)
(*                                                                         *)
(* Time is relative: how long ago something happened, counted up to the    *)
(* length the code compares it with.  The clock may run while the poller   *)
(* is busy, as far as it likes.                                            *)
(***************************************************************************)
EXTENDS Integers, FiniteSets

CONSTANTS
  Symbols,      \* the symbols of the exchange
  Configured,   \* settings.symbols
  Excluded,     \* settings.excluded_symbols
  Liquid,       \* symbols whose 24 h volume reaches min_24h_quote_volume_usd
  Modes,        \* values of settings.universe_mode explored
  MinInterval,  \* min_interval_seconds: ticks between two requests
  RetryAfters,  \* values of a Retry-After header
  Interval,     \* rest_poll_interval_seconds
  OiInterval,   \* open_interest_poll_interval_seconds
  MaxFaults,    \* bound: failures, delistings and crashes explored
  NoSymbol

ASSUME PollerAssumption ==
  /\ Configured \subseteq Symbols /\ Excluded \subseteq Symbols /\ Liquid \subseteq Symbols
  /\ Modes \subseteq {"configured", "all_usdt_perpetual"}
  /\ RetryAfters \subseteq Nat
  /\ {MinInterval, Interval, OiInterval, MaxFaults} \subseteq Nat
  /\ NoSymbol \notin Symbols

VARIABLES
  faults,     \* faults left to the environment
  listed,     \* symbols the exchange trades
  mode,       \* settings.universe_mode
  universe,   \* MonitorApp.symbols
  pc,         \* "down", "sleep", or where _get is: "slot", "flight", "pause"
  call,       \* what is asked for, for which symbol, and the attempt
  wait,       \* ticks of the running sleep still to go
  since,      \* ticks since _last_request_at
  queue,      \* symbols the running loop over the universe has still to do
  due,        \* poll_open_interest of the round
  age,        \* ticks since the round's loop_time
  mark,       \* ticks since last_open_interest_poll_at, or Never
  backfilled, \* kline_backfill_seeded
  seeded,     \* funding_history_seeded
  failed,     \* a symbol of the running seed_funding_history_once failed
  funding,    \* table funding_rates: symbols whose history is stored
  oi,         \* history: what became of each symbol in the latest due round
  silence     \* history: ticks the exchange still wants to hear nothing

flags == <<due, age, mark, backfilled, seeded>>
vars == <<faults, listed, mode, universe, pc, call, wait, since, queue, flags, failed,
          funding, oi, silence>>

Never == -1
Ticks(n) == 0..n
Capped(n, top) == IF n < top THEN n + 1 ELSE top
Less(n) == IF n > 0 THEN n - 1 ELSE 0
NoCall == [kind |-> "none", symbol |-> NoSymbol, attempt |-> 0]
OiDue == mark = Never \/ mark = OiInterval

(* select_universe_symbols, of the symbols exchange_info lists. *)
Universe ==
  (IF mode = "all_usdt_perpetual" THEN listed \intersect Liquid ELSE Configured) \ Excluded

-----------------------------------------------------------------------------
(* The next call of _get. *)
Ask(kind, s) ==
  /\ pc' = "slot" /\ call' = [kind |-> kind, symbol |-> s, attempt |-> 0]
  /\ UNCHANGED wait

Sleep(ticks) == pc' = "sleep" /\ call' = NoCall /\ wait' = ticks

(* run begins: sync_universe_once, whose failure ends the application. *)
Start ==
  /\ pc = "down"
  /\ Ask("sync", NoSymbol)
  /\ due' = FALSE /\ age' = 0 /\ mark' = Never /\ backfilled' = FALSE /\ seeded' = FALSE
  /\ queue' = {} /\ failed' = FALSE /\ since' = MinInterval /\ silence' = 0
  /\ universe' = Configured
  /\ UNCHANGED <<faults, listed, mode, funding, oi>>

Synced == universe' = Universe /\ UNCHANGED <<queue, flags, failed, funding, oi>>

Down == /\ pc' = "down" /\ call' = NoCall /\ wait' = 0
        /\ UNCHANGED <<universe, queue, flags, failed, funding, oi>>

(* A round begins. *)
RoundMarked ==
  /\ pc = "sleep" /\ wait = 0
  /\ age' = 0 /\ due' = OiDue /\ mark' = IF OiDue THEN 0 ELSE mark
  /\ oi' = IF OiDue THEN [s \in Symbols |-> "pending"] ELSE oi
  /\ Ask("info", NoSymbol)
  /\ UNCHANGED <<faults, listed, mode, universe, since, queue, backfilled, seeded,
                 failed, funding, silence>>
Round ==
  /\ pc = "sleep" /\ wait = 0
  /\ age' = 0 /\ due' = OiDue
  /\ oi' = IF OiDue THEN [s \in Symbols |-> "pending"] ELSE oi
  /\ Ask("info", NoSymbol)
  /\ UNCHANGED <<faults, listed, mode, universe, since, queue, mark, backfilled, seeded,
                 failed, funding, silence>>

(* exchange_info failed: the round is over, no flag is set. *)
RoundFails == Sleep(Interval) /\ UNCHANGED <<universe, queue, flags, failed, funding, oi>>

(* The round is over. *)
RoundEnd(complete) ==
  /\ Sleep(Interval)
  /\ backfilled' = TRUE /\ seeded' = complete
  /\ mark' = IF due THEN age ELSE mark
  /\ UNCHANGED <<due, age>>

(* seed_funding_history_once goes on, over the symbols of `left`. *)
Seed(left, fails) ==
  /\ failed' = fails
  /\ IF left = {} THEN RoundEnd(~fails) /\ queue' = {}
     ELSE /\ \E s \in left : Ask("funding", s) /\ queue' = left \ {s}
          /\ UNCHANGED flags

(* The loop over the symbols goes on, over those of `left`. *)
Poll(left) ==
  IF left # {}
  THEN /\ \E s \in left : /\ Ask(IF backfilled THEN "premium" ELSE "klines", s)
                          /\ queue' = left \ {s}
       /\ UNCHANGED <<flags, failed>>
  ELSE IF seeded THEN RoundEnd(TRUE) /\ UNCHANGED <<queue, failed>>
  ELSE Seed(universe, FALSE)

(* The transaction of a symbol ended; open interest is asked for when it is due. *)
SymbolDone(outcome) ==
  /\ Poll(queue)
  /\ oi' = IF due THEN [oi EXCEPT ![call.symbol] = outcome] ELSE oi
  /\ UNCHANGED <<universe, funding>>
SymbolFailsRound ==
  /\ Sleep(Interval)
  /\ oi' = IF due THEN [oi EXCEPT ![call.symbol] = "failed"] ELSE oi
  /\ UNCHANGED <<universe, queue, flags, failed, funding>>
SymbolFails == SymbolDone("failed")

(* The caller goes on with an answer ... *)
Continue(kind) ==
  /\ call' = [kind |-> kind, symbol |-> call.symbol, attempt |-> 0] /\ pc' = "slot"
  /\ UNCHANGED <<universe, wait, queue, flags, failed, funding, oi>>

Answered ==
  \/ call.kind = "sync" /\ mode = "configured" /\ Sleep(0) /\ Synced
  \/ call.kind = "sync" /\ mode # "configured" /\ Ask("volumes", NoSymbol) /\ Synced
  \/ call.kind = "volumes" /\ Sleep(0) /\ UNCHANGED <<universe, queue, flags, failed, funding, oi>>
  \/ call.kind = "info" /\ Poll(universe) /\ UNCHANGED <<universe, funding, oi>>
  \/ call.kind = "klines" /\ Continue("premium")
  \/ call.kind = "premium" /\ due /\ Continue("history")
  \/ call.kind = "premium" /\ ~due /\ SymbolDone("not asked")
  \/ call.kind \in {"history", "current"} /\ SymbolDone("stored")
  \/ call.kind = "history" /\ Continue("current")     \* an answer without rows
  \/ call.kind = "funding" /\ Seed(queue, failed) /\ funding' = funding \union {call.symbol}
                           /\ UNCHANGED <<universe, oi>>

(* ... or with an exception, of _get or of what is done with its answer. *)
Raised ==
  \/ call.kind \in {"sync", "volumes"} /\ Down
  \/ call.kind = "info" /\ RoundFails
  \/ call.kind \in {"klines", "premium", "current"} /\ SymbolFails
  \/ call.kind = "history" /\ Continue("current")
  \/ call.kind = "funding" /\ Seed(queue, TRUE) /\ UNCHANGED <<universe, funding, oi>>

(* The fallback catches a failed request; a history that came and could not be stored
   fails the symbol. *)
Unstored == call.kind = "history" /\ SymbolFails

-----------------------------------------------------------------------------
(* _get: _wait_for_slot is over and the request leaves. *)
Send ==
  /\ pc = "slot" /\ since = MinInterval
  /\ pc' = "flight" /\ since' = 0
  /\ UNCHANGED <<faults, listed, mode, universe, call, wait, queue, flags, failed, funding,
                 oi, silence>>

Served == call.symbol # NoSymbol => call.symbol \in listed
Ok ==
  /\ pc = "flight" /\ Served /\ Answered
  /\ UNCHANGED <<faults, listed, mode, since, silence>>

(* The exchange refuses a symbol it does not trade. *)
Unknown ==
  /\ pc = "flight" /\ ~Served /\ Raised
  /\ UNCHANGED <<faults, listed, mode, since, silence>>

(* Another error status, no answer within the timeout, a failed statement or commit. *)
Fails ==
  /\ pc = "flight" /\ faults > 0 /\ (Raised \/ Unstored)
  /\ faults' = faults - 1
  /\ UNCHANGED <<listed, mode, since, silence>>

(* 429: _get sleeps as long as the header says, after the last attempt as well. *)
RateLimitedGivesUp ==
  /\ pc = "flight" /\ faults > 0 /\ faults' = faults - 1
  /\ \E r \in RetryAfters :
       /\ silence' = r
       /\ \/ call.attempt < 2 /\ wait' = r /\ pc' = "pause"
             /\ UNCHANGED <<call, universe, queue, flags, failed, funding, oi>>
          \/ call.attempt = 2 /\ Raised
  /\ UNCHANGED <<listed, mode, since>>
RateLimited ==
  /\ pc = "flight" /\ faults > 0 /\ faults' = faults - 1
  /\ \E r \in RetryAfters : wait' = r /\ silence' = r
  /\ pc' = "pause"
  /\ UNCHANGED <<listed, mode, universe, call, since, queue, flags, failed, funding, oi>>

(* 2 ** attempt, of the attempts that are repeated. *)
Backoff(attempt) == IF attempt = 0 THEN 1 ELSE 2

(* A 5xx status but for the last attempt, where it is an error like any other. *)
ServerError ==
  /\ pc = "flight" /\ faults > 0 /\ call.attempt < 2
  /\ faults' = faults - 1 /\ wait' = Backoff(call.attempt) /\ pc' = "pause"
  /\ UNCHANGED <<listed, mode, universe, call, since, queue, flags, failed, funding, oi,
                 silence>>

RetryOnceMore ==
  /\ pc = "pause" /\ wait = 0 /\ call.attempt <= 2
  /\ pc' = "slot" /\ call' = [call EXCEPT !.attempt = @ + 1]
  /\ UNCHANGED <<faults, listed, mode, universe, wait, since, queue, flags, failed, funding,
                 oi, silence>>
Retry ==
  /\ pc = "pause" /\ wait = 0 /\ call.attempt < 2
  /\ pc' = "slot" /\ call' = [call EXCEPT !.attempt = @ + 1]
  /\ UNCHANGED <<faults, listed, mode, universe, wait, since, queue, flags, failed, funding,
                 oi, silence>>

GiveUp ==
  /\ pc = "pause" /\ wait = 0 /\ call.attempt = 2
  /\ Raised
  /\ UNCHANGED <<faults, listed, mode, since, silence>>

-----------------------------------------------------------------------------
Tick ==
  /\ wait' = Less(wait) /\ silence' = Less(silence)
  /\ since' = Capped(since, MinInterval) /\ age' = Capped(age, OiInterval)
  /\ mark' = IF mark = Never THEN Never ELSE Capped(mark, OiInterval)
  /\ UNCHANGED <<faults, listed, mode, universe, pc, call, queue, due, backfilled, seeded,
                 failed, funding, oi>>

(* The exchange stops trading a symbol. *)
Delist ==
  /\ faults > 0 /\ faults' = faults - 1
  /\ \E s \in listed : listed' = listed \ {s}
  /\ UNCHANGED <<mode, universe, pc, call, wait, since, queue, flags, failed, funding, oi,
                 silence>>

(* The process dies; what it was told to wait for dies with it. *)
Crash ==
  /\ pc # "down" /\ faults > 0 /\ faults' = faults - 1
  /\ Down /\ silence' = 0
  /\ UNCHANGED <<listed, mode, since>>

Init ==
  /\ faults = MaxFaults /\ listed = Symbols /\ mode \in Modes /\ universe = Configured
  /\ pc = "down" /\ call = NoCall /\ wait = 0 /\ since = MinInterval
  /\ queue = {} /\ due = FALSE /\ age = 0 /\ mark = Never /\ backfilled = FALSE
  /\ seeded = FALSE /\ failed = FALSE /\ funding = {}
  /\ oi = [s \in Symbols |-> "pending"] /\ silence = 0

Poller ==
  Start \/ Round \/ Send \/ Ok \/ Unknown \/ Fails \/ RateLimited \/ ServerError \/ Retry \/ GiveUp
Next == Poller \/ Tick \/ Delist \/ Crash

Spec == Init /\ [][Next]_vars

(* A request is answered or times out, a sleep ends, and what stopped is started again. *)
FairSpec == Spec /\ WF_vars(Poller) /\ WF_vars(Tick)

-----------------------------------------------------------------------------
(* Every variable has its type; the poller counts a sleep only while it sleeps. *)
TypeOK ==
  /\ faults \in Ticks(MaxFaults) /\ listed \subseteq Symbols /\ mode \in Modes
  /\ universe \subseteq Symbols
  /\ pc \in {"down", "sleep", "slot", "flight", "pause"}
  /\ call \in [kind : {"none", "sync", "volumes", "info", "klines", "premium", "history",
                       "current", "funding"},
               symbol : Symbols \union {NoSymbol}, attempt : 0..2]
  /\ wait \in Nat /\ (pc \in {"down", "slot", "flight"} => wait = 0)
  /\ since \in Ticks(MinInterval) /\ queue \subseteq universe
  /\ due \in BOOLEAN /\ age \in Ticks(OiInterval) /\ mark \in Ticks(OiInterval) \union {Never}
  /\ backfilled \in BOOLEAN /\ seeded \in BOOLEAN /\ failed \in BOOLEAN
  /\ funding \subseteq Symbols
  /\ oi \in [Symbols -> {"pending", "stored", "failed"}] /\ silence \in Nat

(* No request leaves while the exchange wants silence: not the next attempt, and not the
   next call either, of another symbol or of another round. *)
SilenceKept == [][pc = "slot" /\ pc' = "flight" => silence = 0]_vars

(* While the open interest is not due, every symbol of the universe has had its turn in
   the round that last_open_interest_poll_at stands for: it was stored, or its turn
   failed.  A round that broke off does not count. *)
OiHadItsTurn ==
  pc # "down" /\ ~OiDue => \A s \in universe : oi[s] \in {"stored", "failed"}

(* Symbols that are traded go on being served - their open interest is asked for and
   stored again and again, their funding history is stored - whatever becomes of the
   others of the universe. *)
Steady(s) == s \in listed /\ s \in universe
OthersAreServed ==
  \A s \in Symbols :
    <>[]Steady(s) => /\ []<>(oi[s] = "pending") /\ []<>(oi[s] = "stored")
                     /\ <>(s \in funding)
=============================================================================
