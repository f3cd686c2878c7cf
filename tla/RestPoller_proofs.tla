-------------------------- MODULE RestPoller_proofs --------------------------
(***************************************************************************)
(* Proofs about RestPoller, for any universe, spacing and poll interval:   *)
(* no request leaves while a 429 asks for silence, and the time of the     *)
(* last open interest poll never stands for a round that left a symbol     *)
(* out, whatever failed and however long the round took.                   *)
(***************************************************************************)
EXTENDS RestPoller, TLAPS

HadTurn(s) == oi[s] \in {"stored", "failed"}
InRound == call.kind \in {"info", "klines", "premium", "history", "current", "funding"}
OfSymbol == call.kind \in {"klines", "premium", "history", "current", "funding"}

(* What is asked for tells where the poller is: at the start of the application
   nothing has been polled, in a loop the symbol asked for has left the queue. *)
Phases ==
  /\ pc \in {"down", "sleep"} <=> call.kind = "none"
  /\ IF OfSymbol THEN call.symbol \in universe \ queue ELSE call.symbol = NoSymbol
  /\ call.kind \in {"sync", "volumes"} => queue = {} /\ mark = Never

(* While a round is due, so is the open interest: the round has not been marked.  It is
   when every symbol has had its turn, and until the next round that one counts. *)
Turns ==
  /\ InRound /\ due => OiDue
  /\ due /\ call.kind \in {"klines", "premium", "history", "current"} =>
       \A s \in universe \ (queue \union {call.symbol}) : HadTurn(s)
  /\ due /\ call.kind = "funding" => \A s \in universe : HadTurn(s)
  /\ ~OiDue => \A s \in universe : HadTurn(s)

(* The exchange wants silence only while the poller sleeps, and no longer than that. *)
Quiet == IF pc = "pause" THEN silence <= wait ELSE silence = 0

PInv == TypeOK /\ Phases /\ Turns /\ Quiet

LEMMA TicksAre == ASSUME NEW n \in Nat
                  PROVE  /\ \A i \in Ticks(n) : i \in Nat /\ i <= n /\ Capped(i, n) \in Ticks(n)
                         /\ 0 \in Ticks(n) /\ n \in Ticks(n)
  BY DEF Ticks, Capped

LEMMA BoundsAre ==
  MinInterval \in Nat /\ Interval \in Nat /\ OiInterval \in Nat /\ MaxFaults \in Nat
  BY PollerAssumption

LEMMA FirstTicks == /\ 0 \in Ticks(OiInterval) /\ MinInterval \in Ticks(MinInterval)
                    /\ MaxFaults \in Ticks(MaxFaults) /\ 0 \in Nat
  BY TicksAre, BoundsAre

LEMMA PollerInit == Init => PInv
<1> SUFFICES ASSUME Init PROVE PInv
  OBVIOUS
<1>1. TypeOK
  <2>1. call = [kind |-> "none", symbol |-> NoSymbol, attempt |-> 0] /\ pc = "down" /\ wait = 0
    BY DEF Init, NoCall
  <2>2. /\ faults \in Ticks(MaxFaults) /\ since \in Ticks(MinInterval) /\ age \in Ticks(OiInterval)
        /\ mark = Never /\ silence = 0
    BY FirstTicks DEF Init
  <2>3. /\ listed \subseteq Symbols /\ mode \in Modes /\ universe \subseteq Symbols
        /\ queue \subseteq universe /\ funding \subseteq Symbols
        /\ oi \in [Symbols -> {"pending", "stored", "failed"}]
    BY PollerAssumption DEF Init
  <2>4. due = FALSE /\ backfilled = FALSE /\ seeded = FALSE /\ failed = FALSE
    BY DEF Init
  <2>5. call \in [kind : {"none", "sync", "volumes", "info", "klines", "premium", "history",
                          "current", "funding"},
                  symbol : Symbols \union {NoSymbol}, attempt : 0..2]
    BY <2>1
  <2>6. mark \in Ticks(OiInterval) \union {Never} /\ wait \in Nat /\ silence \in Nat
    BY <2>1, <2>2
  <2> QED BY <2>1, <2>2, <2>3, <2>4, <2>5, <2>6 DEF TypeOK
<1>2. call.kind = "none" /\ call.symbol = NoSymbol /\ pc = "down" /\ silence = 0 /\ mark = Never
  BY DEF Init, NoCall
<1>3. ~OfSymbol /\ ~InRound /\ OiDue
  BY <1>2 DEF OfSymbol, InRound, OiDue
<1> QED BY <1>1, <1>2, <1>3 DEF PInv, Phases, Turns, Quiet

-----------------------------------------------------------------------------
(* What every continuation after a request leaves alone. *)
Frame == /\ PInv /\ pc \in {"flight", "pause"} /\ wait = 0 /\ silence' = 0
         /\ faults' \in Ticks(MaxFaults) /\ UNCHANGED <<listed, mode, since>>

(* The round is over, and if it was due nobody was left out. *)
LEMMA EndMoves ==
  ASSUME Frame, InRound, NEW complete \in BOOLEAN, RoundEnd(complete), UNCHANGED <<universe>>,
         queue' \subseteq universe, failed' \in BOOLEAN, funding' \subseteq Symbols,
         oi' \in [Symbols -> {"pending", "stored", "failed"}],
         due => \A s \in universe : HadTurn(s)', ~due => oi' = oi
  PROVE  PInv'
<1>1. /\ pc' = "sleep" /\ call' = NoCall /\ wait' = Interval
      /\ backfilled' = TRUE /\ seeded' = complete /\ mark' = IF due THEN age ELSE mark
      /\ due' = due /\ age' = age
  BY DEF RoundEnd, Sleep
<1>2. TypeOK'
  BY <1>1, BoundsAre DEF Frame, PInv, TypeOK, NoCall
<1>3. ~OiDue' => \A s \in universe : HadTurn(s)'
  BY <1>1 DEF Frame, PInv, Turns, OiDue, HadTurn
<1> QED BY <1>1, <1>2, <1>3 DEF PInv, Phases, Turns, Quiet, OfSymbol, InRound, NoCall, Frame

(* The next call of the round is for symbol s. *)
LEMMA AskMoves ==
  ASSUME Frame, InRound, NEW kind \in {"klines", "premium", "funding"}, NEW s \in universe,
         Ask(kind, s), UNCHANGED <<universe, flags>>,
         queue' \subseteq universe, s \notin queue',
         failed' \in BOOLEAN, funding' \subseteq Symbols,
         oi' \in [Symbols -> {"pending", "stored", "failed"}], ~due => oi' = oi,
         due /\ kind # "funding" => \A z \in universe \ (queue' \union {s}) : HadTurn(z)',
         due /\ kind = "funding" => \A z \in universe : HadTurn(z)'
  PROVE  PInv'
<1>1. /\ pc' = "slot" /\ call' = [kind |-> kind, symbol |-> s, attempt |-> 0] /\ wait' = wait
      /\ mark' = mark /\ due' = due /\ age' = age /\ backfilled' = backfilled
      /\ seeded' = seeded /\ universe' = universe
  BY DEF Ask, flags
<1>2. TypeOK'
  BY <1>1 DEF Frame, PInv, TypeOK
<1>3. Phases'
  BY <1>1 DEF Phases, OfSymbol
<1>4. Turns'
  <2>1. due => OiDue
    BY DEF Frame, PInv, Turns
  <2>2. ~OiDue => \A z \in universe : HadTurn(z)'
    BY <2>1 DEF Frame, PInv, Turns, HadTurn
  <2> QED BY <1>1, <2>1, <2>2 DEF Turns, InRound, OiDue
<1> QED BY <1>1, <1>2, <1>3, <1>4 DEF PInv, Quiet, Frame

(* The funding seed goes on or ends the round. *)
LEMMA SeedMoves ==
  ASSUME Frame, InRound, NEW left \in SUBSET universe, NEW fails \in BOOLEAN, Seed(left, fails),
         UNCHANGED <<universe>>, funding' \subseteq Symbols,
         oi' \in [Symbols -> {"pending", "stored", "failed"}],
         due => \A s \in universe : HadTurn(s)', ~due => oi' = oi
  PROVE  PInv'
<1>1. CASE left = {}
  BY <1>1, EndMoves DEF Seed
<1>2. CASE left # {}
  <2>1. PICK s \in left : Ask("funding", s) /\ queue' = left \ {s}
    BY <1>2 DEF Seed
  <2>2. UNCHANGED flags /\ failed' = fails
    BY <1>2 DEF Seed
  <2> QED BY <2>1, <2>2, AskMoves
<1> QED BY <1>1, <1>2

(* The loop over the symbols goes on, or the round with what comes after it. *)
LEMMA PollMoves ==
  ASSUME Frame, InRound, NEW left \in SUBSET universe, Poll(left),
         UNCHANGED <<universe, funding>>,
         oi' \in [Symbols -> {"pending", "stored", "failed"}],
         due => \A s \in universe \ left : HadTurn(s)', ~due => oi' = oi
  PROVE  PInv'
<1>1. CASE left # {}
  <2>1. PICK s \in left :
          Ask(IF backfilled THEN "premium" ELSE "klines", s) /\ queue' = left \ {s}
    BY <1>1 DEF Poll
  <2>2. UNCHANGED <<flags, failed>>
    BY <1>1 DEF Poll
  <2>3. /\ failed' \in BOOLEAN /\ funding' \subseteq Symbols /\ queue' \subseteq universe
        /\ universe \ (queue' \union {s}) = universe \ left
    BY <2>1, <2>2 DEF Frame, PInv, TypeOK
  <2>4. CASE backfilled
    BY <2>1, <2>2, <2>3, <2>4, AskMoves
  <2>5. CASE ~backfilled
    BY <2>1, <2>2, <2>3, <2>5, AskMoves
  <2> QED BY <2>4, <2>5
<1>2. CASE left = {} /\ seeded
  <2>1. RoundEnd(TRUE) /\ queue' = queue /\ failed' = failed
    BY <1>2 DEF Poll
  <2> QED BY <1>2, <2>1, EndMoves DEF Frame, PInv, TypeOK
<1>3. CASE left = {} /\ ~seeded
  <2>1. Seed(universe, FALSE)
    BY <1>3 DEF Poll
  <2> QED BY <1>3, <2>1, SeedMoves DEF Frame, PInv, TypeOK
<1> QED BY <1>1, <1>2, <1>3

(* A symbol has had its turn in a round: its open interest is stored, or it failed. *)
LEMMA DoneMoves ==
  ASSUME Frame, OfSymbol, call.kind # "funding",
         NEW outcome \in {"stored", "failed", "not asked"}, due => outcome # "not asked",
         SymbolDone(outcome)
  PROVE  PInv'
<1>1. /\ Poll(queue) /\ universe' = universe /\ funding' = funding
      /\ oi' = IF due THEN [oi EXCEPT ![call.symbol] = outcome] ELSE oi
  BY DEF SymbolDone
<1>2. /\ oi \in [Symbols -> {"pending", "stored", "failed"}] /\ queue \in SUBSET universe
      /\ universe \subseteq Symbols /\ call.symbol \in universe
  BY DEF Frame, PInv, TypeOK, Phases
<1>3. oi' \in [Symbols -> {"pending", "stored", "failed"}]
  BY <1>1, <1>2
<1>4. due => \A s \in universe \ queue : HadTurn(s)'
  <2> SUFFICES ASSUME due, NEW s \in universe \ queue PROVE HadTurn(s)'
    OBVIOUS
  <2>1. CASE s = call.symbol
    BY <1>1, <1>2, <2>1 DEF HadTurn
  <2>2. CASE s # call.symbol
    <3>1. HadTurn(s)
      BY <2>2 DEF Frame, PInv, Turns, OfSymbol
    <3> QED BY <1>1, <1>2, <2>2, <3>1 DEF HadTurn
  <2> QED BY <2>1, <2>2
<1> QED BY <1>1, <1>2, <1>3, <1>4, PollMoves DEF OfSymbol, InRound

(* The caller asks for the next thing about the same symbol. *)
LEMMA ContinueMoves ==
  ASSUME Frame, call.kind \in {"klines", "premium", "history"},
         NEW kind \in {"premium", "history", "current"}, Continue(kind)
  PROVE  PInv'
<1>1. /\ call' = [kind |-> kind, symbol |-> call.symbol, attempt |-> 0] /\ pc' = "slot"
      /\ UNCHANGED <<universe, wait, queue, failed, funding, oi>>
      /\ UNCHANGED <<due, age, mark, backfilled, seeded>>
  BY DEF Continue, flags
<1>2. TypeOK'
  BY <1>1 DEF Frame, PInv, TypeOK
<1>3. Phases'
  BY <1>1 DEF Frame, PInv, Phases, OfSymbol
<1>4. Turns'
  BY <1>1 DEF Frame, PInv, Turns, InRound, OiDue, HadTurn
<1> QED BY <1>1, <1>2, <1>3, <1>4 DEF PInv, Quiet, Frame

(* The poller sleeps or the application is down; nothing is marked. *)
LEMMA StopMoves ==
  ASSUME Frame, NEW n \in Nat, pc' \in {"down", "sleep"}, call' = NoCall,
         wait' = n, pc' = "down" => n = 0, universe' \subseteq Symbols,
         queue' \subseteq universe', universe' = universe \/ mark = Never,
         UNCHANGED <<flags, failed, funding, oi>>
  PROVE  PInv'
<1>1. UNCHANGED <<due, age, mark, backfilled, seeded>>
  BY DEF flags
<1>2. TypeOK'
  BY <1>1 DEF Frame, PInv, TypeOK, NoCall
<1>3. Turns'
  BY <1>1 DEF Frame, PInv, Turns, InRound, OiDue, HadTurn, NoCall
<1> QED BY <1>1, <1>2, <1>3 DEF PInv, Phases, Quiet, Frame, OfSymbol, NoCall

-----------------------------------------------------------------------------
(* After a call of _get that returned. *)
LEMMA AnsweredMoves == ASSUME Frame, Answered PROVE PInv'
<1>1. CASE call.kind = "sync"
  <2>1. universe' = Universe /\ UNCHANGED <<queue, flags, failed, funding, oi>>
    BY <1>1 DEF Answered, Synced
  <2>2. Universe \subseteq Symbols /\ queue = {} /\ mark = Never
    BY <1>1, PollerAssumption DEF Universe, Frame, PInv, TypeOK, Phases
  <2>3. CASE Sleep(0)
    BY <2>1, <2>2, <2>3, StopMoves DEF Sleep
  <2>4. CASE Ask("volumes", NoSymbol)
    <3>1. /\ pc' = "slot" /\ wait' = wait /\ UNCHANGED <<due, age, mark, backfilled, seeded>>
          /\ call' = [kind |-> "volumes", symbol |-> NoSymbol, attempt |-> 0]
      BY <2>1, <2>4 DEF Ask, flags
    <3>2. TypeOK'
      BY <2>1, <2>2, <3>1 DEF Frame, PInv, TypeOK
    <3>3. Turns'
      BY <2>2, <3>1 DEF Turns, InRound, OiDue
    <3> QED BY <2>1, <2>2, <3>1, <3>2, <3>3 DEF PInv, Phases, OfSymbol, Quiet, Frame
  <2> QED BY <1>1, <2>3, <2>4 DEF Answered
<1>2. CASE call.kind = "volumes"
  <2>1. Sleep(0) /\ UNCHANGED <<universe, queue, flags, failed, funding, oi>>
    BY <1>2 DEF Answered
  <2> QED BY <2>1, StopMoves DEF Sleep, Frame, PInv, TypeOK
<1>3. CASE call.kind = "info"
  <2>1. Poll(universe) /\ UNCHANGED <<universe, funding, oi>>
    BY <1>3 DEF Answered
  <2> QED BY <1>3, <2>1, PollMoves DEF Frame, PInv, TypeOK, InRound
<1>4. CASE call.kind \in {"klines", "premium", "history", "current"}
  <2>1. CASE call.kind # "current" /\ (Continue("premium") \/ Continue("history")
                                       \/ Continue("current"))
    BY <1>4, <2>1, ContinueMoves
  <2>2. CASE SymbolDone("stored") \/ (~due /\ SymbolDone("not asked"))
    BY <1>4, <2>2, DoneMoves DEF OfSymbol
  <2> QED BY <1>4, <2>1, <2>2 DEF Answered
<1>5. CASE call.kind \notin {"sync", "volumes", "info", "klines", "premium", "history",
                             "current", "funding"}
  BY <1>5 DEF Answered
<1>6. CASE call.kind = "funding"
  <2>1. /\ Seed(queue, failed) /\ funding' = funding \union {call.symbol}
        /\ UNCHANGED <<universe, oi>>
    BY <1>6 DEF Answered
  <2>2. /\ queue \in SUBSET universe /\ failed \in BOOLEAN /\ funding' \subseteq Symbols
        /\ oi \in [Symbols -> {"pending", "stored", "failed"}]
    BY <1>6, <2>1 DEF Frame, PInv, TypeOK, Phases, OfSymbol
  <2>3. due => \A s \in universe : HadTurn(s)'
    BY <1>6, <2>1 DEF Frame, PInv, Turns, HadTurn
  <2> QED BY <1>6, <2>1, <2>2, <2>3, SeedMoves DEF InRound
<1> QED BY <1>1, <1>2, <1>3, <1>4, <1>5, <1>6

(* After one that raised, or whose answer could not be used. *)
LEMMA RaisedMoves == ASSUME Frame, Raised PROVE PInv'
<1>1. CASE call.kind \in {"sync", "volumes"}
  <2>1. Down
    BY <1>1 DEF Raised
  <2> QED BY <2>1, StopMoves DEF Down, Frame, PInv, TypeOK
<1>2. CASE call.kind = "info"
  <2>1. RoundFails
    BY <1>2 DEF Raised
  <2> QED BY <2>1, StopMoves, BoundsAre DEF RoundFails, Sleep, Frame, PInv, TypeOK
<1>3. CASE call.kind \in {"klines", "premium", "current"}
  <2>1. SymbolDone("failed")
    BY <1>3 DEF Raised, SymbolFails
  <2> QED BY <1>3, <2>1, DoneMoves DEF OfSymbol
<1>4. CASE call.kind = "history"
  BY <1>4, ContinueMoves DEF Raised
<1>5. CASE call.kind = "funding"
  <2>1. Seed(queue, TRUE) /\ UNCHANGED <<universe, funding, oi>>
    BY <1>5 DEF Raised
  <2>2. /\ queue \in SUBSET universe /\ funding' \subseteq Symbols
        /\ oi \in [Symbols -> {"pending", "stored", "failed"}]
    BY <2>1 DEF Frame, PInv, TypeOK
  <2>3. due => \A s \in universe : HadTurn(s)'
    BY <1>5, <2>1 DEF Frame, PInv, Turns, HadTurn
  <2> QED BY <1>5, <2>1, <2>2, <2>3, SeedMoves DEF InRound
<1> QED BY <1>1, <1>2, <1>3, <1>4, <1>5 DEF Raised

-----------------------------------------------------------------------------
LEMMA StartStep == PInv /\ Start => PInv'
<1> SUFFICES ASSUME PInv, Start PROVE PInv'
  OBVIOUS
<1>1. /\ pc' = "slot" /\ call' = [kind |-> "sync", symbol |-> NoSymbol, attempt |-> 0]
      /\ wait' = wait /\ mark' = Never /\ queue' = {} /\ silence' = 0
  BY DEF Start, Ask
<1>2. TypeOK'
  <2>1. due' = FALSE /\ backfilled' = FALSE /\ seeded' = FALSE /\ failed' = FALSE
    BY DEF Start
  <2>2. age' \in Ticks(OiInterval) /\ since' \in Ticks(MinInterval) /\ wait = 0
    BY FirstTicks DEF Start, PInv, TypeOK
  <2>3. universe' \subseteq Symbols
    BY PollerAssumption DEF Start
  <2>4. /\ call' \in [kind : {"none", "sync", "volumes", "info", "klines", "premium", "history",
                           "current", "funding"},
                   symbol : Symbols \union {NoSymbol}, attempt : 0..2]
        /\ mark' \in Ticks(OiInterval) \union {Never} /\ wait' \in Nat /\ silence' \in Nat
    BY <1>1, <2>2
  <2>5. UNCHANGED <<faults, listed, mode, funding, oi>>
    BY DEF Start
  <2> QED BY <1>1, <2>1, <2>2, <2>3, <2>4, <2>5 DEF PInv, TypeOK
<1>3. ~OfSymbol' /\ ~InRound' /\ OiDue'
  BY <1>1 DEF OfSymbol, InRound, OiDue
<1>4. Phases' /\ Turns' /\ Quiet'
  BY <1>1, <1>3 DEF Phases, Turns, Quiet
<1> QED BY <1>2, <1>4 DEF PInv

LEMMA RoundStep == PInv /\ Round => PInv'
<1> SUFFICES ASSUME PInv, Round PROVE PInv'
  OBVIOUS
<1>1. /\ pc' = "slot" /\ call' = [kind |-> "info", symbol |-> NoSymbol, attempt |-> 0]
      /\ UNCHANGED <<wait, mark, queue, silence, universe>>
      /\ due' = OiDue /\ (~OiDue => oi' = oi) /\ silence = 0
  BY DEF Round, Ask, PInv, Quiet
<1>2. TypeOK'
  BY <1>1, TicksAre, BoundsAre DEF Round, PInv, TypeOK, OiDue
<1>3. Turns'
  BY <1>1 DEF PInv, Turns, InRound, OiDue, HadTurn
<1> QED BY <1>1, <1>2, <1>3 DEF PInv, Phases, Quiet, OfSymbol

(* _get waits for its slot, sends, and sleeps between its attempts. *)
LEMMA GetStep == PInv /\ (Send \/ RateLimited \/ ServerError \/ Retry) => PInv'
<1> SUFFICES ASSUME PInv, Send \/ RateLimited \/ ServerError \/ Retry PROVE PInv'
  OBVIOUS
<1>1. /\ UNCHANGED <<listed, mode, universe, queue, failed, funding, oi>>
      /\ UNCHANGED <<due, age, mark, backfilled, seeded>>
      /\ call'.kind = call.kind /\ call'.symbol = call.symbol
      /\ pc \notin {"down", "sleep"} /\ pc' \notin {"down", "sleep"}
  BY DEF Send, RateLimited, ServerError, Retry, flags, PInv, TypeOK
<1>2. Phases' /\ Turns'
  BY <1>1 DEF PInv, Phases, Turns, OfSymbol, InRound, OiDue, HadTurn
<1>3. CASE Send
  <2>1. TypeOK'
    BY <1>1, <1>3, TicksAre, BoundsAre DEF Send, PInv, TypeOK
  <2> QED BY <1>2, <1>3, <2>1 DEF Send, PInv, Quiet
<1>4. CASE RateLimited
  <2>1. PICK r \in RetryAfters : wait' = r /\ silence' = r
    BY <1>4 DEF RateLimited
  <2>2. r \in Nat /\ pc' = "pause" /\ faults' \in Ticks(MaxFaults) /\ call' = call /\ since' = since
    BY <1>4, PollerAssumption DEF RateLimited, PInv, TypeOK, Ticks
  <2>3. TypeOK'
    BY <1>1, <2>1, <2>2 DEF PInv, TypeOK
  <2> QED BY <1>2, <2>1, <2>2, <2>3 DEF PInv, Quiet
<1>5. CASE ServerError
  <2>1. /\ wait' \in Nat /\ pc' = "pause" /\ faults' \in Ticks(MaxFaults) /\ silence' = silence
        /\ call' = call /\ since' = since /\ silence = 0
    BY <1>5, PollerAssumption DEF ServerError, Backoff, PInv, TypeOK, Ticks, Quiet
  <2>2. TypeOK'
    BY <1>1, <2>1 DEF PInv, TypeOK
  <2> QED BY <1>2, <2>1, <2>2 DEF PInv, Quiet
<1>6. CASE Retry
  <2>1. /\ wait = 0 /\ wait' = 0 /\ pc = "pause" /\ pc' = "slot" /\ call.attempt < 2
        /\ call' = [call EXCEPT !.attempt = @ + 1] /\ silence' = silence
        /\ faults' = faults /\ since' = since
    BY <1>6 DEF Retry
  <2>2. TypeOK'
    BY <1>1, <2>1 DEF PInv, TypeOK
  <2>3. silence = 0
    BY <2>1 DEF PInv, TypeOK, Quiet
  <2> QED BY <1>2, <2>1, <2>2, <2>3 DEF PInv, Quiet
<1> QED BY <1>3, <1>4, <1>5, <1>6

LEMMA ReturnStep == PInv /\ (Ok \/ Unknown \/ Fails \/ GiveUp) => PInv'
<1> SUFFICES ASSUME PInv, Ok \/ Unknown \/ Fails \/ GiveUp PROVE PInv'
  OBVIOUS
<1>1. /\ pc \in {"flight", "pause"} /\ wait = 0 /\ silence' = silence
      /\ UNCHANGED <<listed, mode, since>>
  BY DEF Ok, Unknown, Fails, GiveUp, PInv, TypeOK
<1>2. silence = 0
  BY <1>1 DEF PInv, TypeOK, Quiet
<1>3. faults' \in Ticks(MaxFaults)
  BY PollerAssumption DEF Ok, Unknown, Fails, GiveUp, PInv, TypeOK, Ticks
<1>4. Frame
  BY <1>1, <1>2, <1>3 DEF Frame
<1>5. CASE Unstored
  <2>1. SymbolDone("failed") /\ call.kind = "history"
    BY <1>5 DEF Unstored, SymbolFails
  <2> QED BY <1>4, <2>1, DoneMoves DEF OfSymbol
<1> QED BY <1>4, <1>5, AnsweredMoves, RaisedMoves DEF Ok, Unknown, Fails, GiveUp

LEMMA TickStep == PInv /\ Tick => PInv'
<1> SUFFICES ASSUME PInv, Tick PROVE PInv'
  OBVIOUS
<1>1. TypeOK'
  BY TicksAre, BoundsAre DEF Tick, PInv, TypeOK, Less, Never
<1>2. Quiet'
  BY DEF Tick, PInv, TypeOK, Quiet, Less
<1>3. OiDue => OiDue'
  BY BoundsAre DEF Tick, OiDue, Capped
<1>4. Turns'
  BY <1>3 DEF Tick, PInv, Turns, InRound, HadTurn
<1>5. Phases'
  BY DEF Tick, PInv, Phases, OfSymbol, Never
<1> QED BY <1>1, <1>2, <1>4, <1>5 DEF PInv

(* The exchange and the crash reach the poller's progress nowhere. *)
LEMMA WorldStep == PInv /\ (Delist \/ Crash) => PInv'
<1> SUFFICES ASSUME PInv, Delist \/ Crash PROVE PInv'
  OBVIOUS
<1>1. faults' \in Ticks(MaxFaults)
  BY PollerAssumption DEF Delist, Crash, PInv, TypeOK, Ticks
<1>2. /\ UNCHANGED <<mode, universe, since, queue, failed, funding, oi>>
      /\ UNCHANGED <<due, age, mark, backfilled, seeded>>
  BY DEF Delist, Crash, Down, flags
<1>3. CASE Delist
  <2>1. TypeOK'
    BY <1>1, <1>2, <1>3 DEF Delist, PInv, TypeOK
  <2> QED BY <1>2, <1>3, <2>1
     DEF Delist, PInv, Phases, Turns, Quiet, OfSymbol, InRound, OiDue, HadTurn
<1>4. CASE Crash
  <2>1. pc' = "down" /\ call' = NoCall /\ wait' = 0 /\ silence' = 0 /\ listed' = listed
    BY <1>4 DEF Crash, Down
  <2>2. TypeOK'
    BY <1>1, <1>2, <2>1 DEF PInv, TypeOK, NoCall
  <2>3. Turns'
    BY <1>2, <2>1 DEF PInv, Turns, InRound, OiDue, HadTurn, NoCall
  <2> QED BY <2>1, <2>2, <2>3 DEF PInv, Phases, Quiet, OfSymbol, NoCall
<1> QED BY <1>3, <1>4

LEMMA PollerNext == PInv /\ [Next]_vars => PInv'
<1>1. PInv /\ UNCHANGED vars => PInv'
  BY DEF PInv, TypeOK, Phases, Turns, Quiet, OfSymbol, InRound, OiDue, HadTurn, vars, flags
<1> QED BY <1>1, StartStep, RoundStep, GetStep, ReturnStep, TickStep, WorldStep DEF Next, Poller

LEMMA PollerInvariant == Spec => []PInv
  BY PollerInit, PollerNext, PTL DEF Spec

(* Every variable keeps its type; a poller that asks for something does not sleep. *)
THEOREM PollerTypes == Spec => []TypeOK
<1>1. PInv => TypeOK
  BY DEF PInv
<1> QED BY <1>1, PollerInvariant, PTL

(* While the open interest is not due, the last round that was left nobody out. *)
THEOREM NobodyLeftOut == Spec => []OiHadItsTurn
<1>1. PInv => OiHadItsTurn
  BY DEF PInv, Turns, HadTurn, OiHadItsTurn
<1> QED BY <1>1, PollerInvariant, PTL

(* No request leaves while the exchange wants silence, be it of another call or round. *)
THEOREM SilenceIsKept == Spec => SilenceKept
<1>1. PInv => (pc = "slot" /\ pc' = "flight" => silence = 0)
  BY DEF PInv, Quiet
<1> QED BY <1>1, PollerInvariant, PTL DEF SilenceKept
=============================================================================
