--------------------------- MODULE AlertWriters_proofs ---------------------------
(***************************************************************************)
(* Proofs about AlertWriters, for any set of processes: the unique index   *)
(* and the wait of an insert for the holder of its slot keep two processes *)
(* from pushing one source minute, although neither knows of the other;    *)
(* and what they write together is what AlertLedger promises.              *)
(***************************************************************************)
EXTENDS AlertWriters, TLAPS

Levels == Severities \union {"NONE"}
Signals == [ts : Time, sev : Levels]
Times == Time \union {NoTime}
Pushes == [key : Keys, ts : Time, at : Time, known : Nat]

(* What is left of the budget is such a record; only its ticks matter here. *)
Budget(b) ==
  b = [news |-> b.news, ticks |-> b.ticks, runs |-> b.runs, faults |-> b.faults]

(* Of a call only its key, its time and what was on record then matter here. *)
CallsTyped(c) ==
  /\ c = [p \in Processes |-> c[p]]
  /\ \A p \in Processes : /\ c[p].key \in Keys \union {NoKey}
                          /\ c[p].now \in Time /\ c[p].known \in Nat

(* The types the steps rely on. *)
TypeInv ==
  /\ clock \in Time
  /\ Budget(left) /\ left.ticks \in 0..MaxClock - clock
  /\ signal \in [Keys -> Signals]
  /\ rows \in [Slots -> Levels]
  /\ active \subseteq {s \in Slots : rows[s] # "NONE"}
  /\ cooldowns \in [Keys -> Times] /\ memory \in [Processes -> [Keys -> Times]]
  /\ pc \in [Processes -> {"idle", "sweep", "work", "insert", "sending"}]
  /\ feed \in [Processes -> [Keys -> Signals]]
  /\ todo \in [Processes -> SUBSET Keys]
  /\ CallsTyped(call)
  /\ inserted \in [Processes -> [Slots -> Levels]]
  /\ closed \in [Processes -> SUBSET Slots]
  /\ recorded \in [Processes -> [Keys -> Times]]
  /\ flight \in [Processes -> SUBSET Pushes]
  /\ log \in Seq(SUBSET Pushes)

(* A process holds nothing between its passes, and is in a call or in none. *)
Tidy ==
  \A p \in Processes :
    /\ pc[p] \in {"insert", "sending"} <=> call[p].key # NoKey
    /\ pc[p] = "idle" => /\ inserted[p] = NoRows /\ recorded[p] = NoTimes
                         /\ closed[p] = {} /\ flight[p] = {}

(* What is persisted has been decided. *)
Decided ==
  \A p \in Processes :
    /\ todo[p] \subseteq Triggered(feed[p])
    /\ pc[p] \in {"idle", "sweep"} => todo[p] = {}
    /\ pc[p] \in {"insert", "sending"} => call[p].key \in Triggered(feed[p])

(* Who pushes holds the slot of the push, which it has not pushed before. *)
Holds ==
  \A p \in Processes :
    pc[p] = "sending" => /\ inserted[p][Slot(p)] # "NONE"
                         /\ ~Pushed(flight[p], Slot(p))

(* A slot has one holder, and no committed row. *)
Excludes ==
  \A p \in Processes : \A s \in Slots :
    inserted[p][s] # "NONE" =>
      rows[s] = "NONE" /\ \A q \in Processes \ {p} : inserted[q][s] = "NONE"

(* A push has a row: in its transaction, and in the table once that has committed. *)
OnRecord ==
  /\ \A p \in Processes : \A x \in flight[p] : inserted[p][<<x.key, x.ts>>] # "NONE"
  /\ \A c \in 1..Len(log) : \A x \in log[c] : rows[<<x.key, x.ts>>] # "NONE"

WInv == TypeInv /\ Tidy /\ Decided /\ Holds /\ Excludes /\ OnRecord

-----------------------------------------------------------------------------
(* The invariant says what SlotPushedOnce says, and more. *)
LEMMA WritersHold == WInv => SlotPushedOnce
<1> SUFFICES ASSUME WInv, NEW p \in Processes, pc[p] = "sending"
             PROVE  /\ \A c \in 1..Len(log) : ~Pushed(log[c], Slot(p))
                    /\ \A q \in Processes : ~Pushed(flight[q], Slot(p))
                    /\ \A q \in Processes \ {p} : pc[q] = "sending" => Slot(q) # Slot(p)
  BY DEF SlotPushedOnce
<1>1. Slot(p) \in Slots /\ inserted[p][Slot(p)] # "NONE" /\ ~Pushed(flight[p], Slot(p))
      /\ Slot(p) = <<Slot(p)[1], Slot(p)[2]>>
  BY DEF WInv, TypeInv, CallsTyped, Decided, Holds, Slot, Slots, Triggered, Signals
<1>2. rows[Slot(p)] = "NONE" /\ \A q \in Processes \ {p} : inserted[q][Slot(p)] = "NONE"
  BY <1>1 DEF WInv, Excludes
<1>3. \A c \in 1..Len(log) : ~Pushed(log[c], Slot(p))
  BY <1>1, <1>2 DEF WInv, OnRecord, Pushed
<1>4. \A q \in Processes : ~Pushed(flight[q], Slot(p))
  BY <1>1, <1>2 DEF WInv, OnRecord, Pushed
<1>5. \A q \in Processes \ {p} : pc[q] = "sending" => Slot(q) # Slot(p)
  BY <1>2 DEF WInv, Holds
<1> QED BY <1>3, <1>4, <1>5

LEMMA WritersInit == Init => WInv
<1> SUFFICES ASSUME Init PROVE WInv
  OBVIOUS
<1> USE WritersAssumption DEF Init
<1>1. TypeInv
  <2>1. 0 \in Time /\ Quiet \in Signals /\ NoRows \in [Slots -> Levels] /\ NoTimes \in [Keys -> Times]
    BY DEF Time, Quiet, Signals, Levels, NoRows, NoTimes, Times
  <2>2. Budget(left) /\ left.ticks \in 0..MaxClock - clock
    BY DEF Budget
  <2>3. log \in Seq(SUBSET Pushes)
    OBVIOUS
  <2> QED BY <2>1, <2>2, <2>3 DEF TypeInv, CallsTyped, NoCall, NoRows, Levels
<1>2. Tidy /\ Decided
  BY DEF Tidy, Decided, NoCall
<1>3. Holds /\ Excludes /\ OnRecord
  BY DEF Holds, Excludes, OnRecord, NoRows
<1> QED BY <1>1, <1>2, <1>3 DEF WInv

-----------------------------------------------------------------------------
LEMMA TickKeeps == WInv /\ Tick => WInv'
<1> SUFFICES ASSUME WInv, Tick PROVE WInv'
  OBVIOUS
<1>1. Budget(left') /\ left'.ticks = left.ticks - 1 /\ left.ticks > 0 /\ clock' = clock + 1
  BY DEF WInv, TypeInv, Tick, Budget
<1>2. clock' \in Time /\ left'.ticks \in 0..MaxClock - clock'
  BY <1>1, WritersAssumption DEF WInv, TypeInv, Time
<1> QED BY <1>1, <1>2 DEF Tick, txVars, WInv, TypeInv, Tidy, Decided, Holds, Excludes, OnRecord, Slot

LEMMA NewSignalKeeps == ASSUME NEW k \in Keys PROVE WInv /\ NewSignal(k) => WInv'
<1> SUFFICES ASSUME WInv, NewSignal(k) PROVE WInv'
  OBVIOUS
<1>1. Budget(left') /\ left'.ticks = left.ticks
  BY DEF WInv, TypeInv, NewSignal, Budget
<1>2. signal' \in [Keys -> Signals]
  BY DEF WInv, TypeInv, NewSignal, Signals, Levels
<1> QED BY <1>1, <1>2 DEF NewSignal, txVars, WInv, TypeInv, Tidy, Decided, Holds, Excludes, OnRecord, Slot

(* A pass begins: the process holds nothing, and has nothing to do yet. *)
LEMMA BeginKeeps == ASSUME NEW p \in Processes PROVE WInv /\ Begin(p) => WInv'
<1> SUFFICES ASSUME WInv, Begin(p) PROVE WInv'
  OBVIOUS
<1>1. Budget(left') /\ left'.ticks = left.ticks
  BY DEF WInv, TypeInv, Begin, Budget
<1>2. memory' \in [Processes -> [Keys -> Times]]
  <2>1. memory' = memory \/ memory' = [memory EXCEPT ![p] = NoTimes]
    BY DEF Begin
  <2>2. NoTimes \in [Keys -> Times]
    BY DEF NoTimes, Times
  <2>3. memory \in [Processes -> [Keys -> Times]]
    BY DEF WInv, TypeInv
  <2> QED BY <2>1, <2>2, <2>3
<1>3. feed' = [feed EXCEPT ![p] = signal] /\ pc' = [pc EXCEPT ![p] = "sweep"] /\ pc[p] = "idle"
      /\ UNCHANGED <<clock, signal, rows, active, cooldowns, txVars, log>>
  BY DEF Begin
<1>4. TypeInv'
  BY <1>1, <1>2, <1>3 DEF WInv, TypeInv, txVars
<1>5. Tidy' /\ Excludes' /\ OnRecord'
  BY <1>3 DEF WInv, TypeInv, Tidy, Excludes, OnRecord, txVars
<1>6. Decided' /\ Holds'
  BY <1>3 DEF WInv, TypeInv, Decided, Holds, Slot, Triggered, txVars
<1> QED BY <1>4, <1>5, <1>6 DEF WInv

LEMMA SweepKeeps == ASSUME NEW p \in Processes PROVE WInv /\ Sweep(p) => WInv'
<1> SUFFICES ASSUME WInv, Sweep(p) PROVE WInv'
  OBVIOUS
<1>1. ToClose(p) \subseteq Slots /\ Triggered(feed[p]) \subseteq Keys
  BY DEF WInv, TypeInv, ToClose, Triggered
<1>2. TypeInv'
  BY <1>1 DEF WInv, TypeInv, Sweep
<1>3. Tidy' /\ Excludes' /\ OnRecord'
  BY DEF WInv, TypeInv, Tidy, Excludes, OnRecord, Sweep
<1>4. Decided' /\ Holds'
  BY DEF WInv, TypeInv, Decided, Holds, Slot, Sweep
<1> QED BY <1>2, <1>3, <1>4 DEF WInv

LEMMA CooldownOfType ==
  ASSUME WInv, NEW p \in Processes, NEW k \in Keys PROVE CooldownOf(p, k) \in Times
BY DEF WInv, TypeInv, CooldownOf

LEMMA CheckKeeps ==
  ASSUME NEW p \in Processes, NEW k \in Keys PROVE WInv /\ Check(p, k) => WInv'
<1> SUFFICES ASSUME WInv, Check(p, k) PROVE WInv'
  OBVIOUS
<1>1. PICK send, escalates :
        call' = [call EXCEPT ![p] = [key |-> k, now |-> clock, send |-> send,
                                     escalates |-> escalates, known |-> Len(log)]]
  BY DEF Check
<1>2. memory' \in [Processes -> [Keys -> Times]]
  <2>1. clock \in Times /\ CooldownOf(p, k) \in Times
    BY CooldownOfType DEF WInv, TypeInv, CallsTyped, Times
  <2>2. \E v \in Times : memory' = [memory EXCEPT ![p][k] = v]
    <3>1. memory[p][k] \in Times
      BY DEF WInv, TypeInv, CallsTyped
    <3> QED BY <2>1, <3>1 DEF Check
  <2> QED BY <2>2 DEF WInv, TypeInv, CallsTyped
<1>3. pc[p] = "work" /\ k \in todo[p] /\ todo' = [todo EXCEPT ![p] = @ \ {k}]
      /\ pc' = [pc EXCEPT ![p] = "insert"]
      /\ UNCHANGED <<clock, left, signal, rows, active, cooldowns, feed, inserted, closed,
                     recorded, flight, log>>
  BY DEF Check
<1>4. Len(log) \in Nat
  BY DEF WInv, TypeInv, CallsTyped
<1>5. TypeInv'
  BY <1>1, <1>2, <1>3, <1>4 DEF WInv, TypeInv, CallsTyped
<1>6. k # NoKey
  BY WritersAssumption
<1>7. Tidy' /\ Decided'
  BY <1>1, <1>3, <1>6 DEF WInv, TypeInv, CallsTyped, Tidy, Decided
<1>8. Holds' /\ Excludes' /\ OnRecord'
  BY <1>1, <1>3 DEF WInv, TypeInv, CallsTyped, Holds, Excludes, OnRecord, Slot
<1> QED BY <1>5, <1>7, <1>8 DEF WInv

LEMMA CallEnds ==
  ASSUME WInv, NEW p \in Processes PROVE CallsTyped([call EXCEPT ![p] = NoCall])
<1>1. NoCall.key = NoKey /\ NoCall.now = 0 /\ NoCall.known = 0 /\ 0 \in Time
  BY WritersAssumption DEF NoCall, Time
<1>2. CallsTyped(call)
  BY DEF WInv, TypeInv
<1> HIDE DEF NoCall
<1>3. DEFINE c == [call EXCEPT ![p] = NoCall]
<1>4. c = [q \in Processes |-> IF q = p THEN NoCall ELSE call[q]]
  BY <1>2 DEF CallsTyped
<1> HIDE DEF c
<1>5. CallsTyped(c)
  BY <1>1, <1>2, <1>4 DEF CallsTyped
<1> QED BY <1>5 DEF c

(* The slot a call is about. *)
LEMMA SlotOfCall ==
  ASSUME WInv, NEW p \in Processes, pc[p] \in {"insert", "sending"}
  PROVE  /\ call[p].key \in Keys /\ Slot(p) \in Slots
         /\ Slot(p) = <<call[p].key, feed[p][call[p].key].ts>>
         /\ feed[p][call[p].key].sev \in Levels \ {"NONE"}
BY DEF WInv, TypeInv, CallsTyped, Decided, Slot, Slots, Triggered, Signals

LEMMA InsertKeeps == ASSUME NEW p \in Processes PROVE WInv /\ Insert(p) => WInv'
<1> SUFFICES ASSUME WInv, Insert(p) PROVE WInv'
  OBVIOUS
<1>0. pc[p] = "insert" /\ Free(p)
      /\ UNCHANGED <<clock, left, signal, rows, active, cooldowns, memory, feed, todo, closed,
                     recorded, flight, log>>
  BY DEF Insert
<1>1. CASE SevOf(p, Slot(p)) # "NONE"
  <2>1. pc' = [pc EXCEPT ![p] = "work"] /\ call' = [call EXCEPT ![p] = NoCall] /\ inserted' = inserted
    BY <1>1 DEF Insert
  <2>2. TypeInv'
    BY <1>0, <2>1, CallEnds DEF WInv, TypeInv, CallsTyped
  <2>3. Tidy' /\ Decided'
    BY <1>0, <2>1 DEF WInv, TypeInv, CallsTyped, Tidy, Decided, NoCall
  <2>4. Holds' /\ Excludes' /\ OnRecord'
    BY <1>0, <2>1 DEF WInv, TypeInv, CallsTyped, Holds, Excludes, OnRecord, Slot
  <2> QED BY <2>2, <2>3, <2>4 DEF WInv
<1>2. CASE SevOf(p, Slot(p)) = "NONE"
  <2> DEFINE s == Slot(p)  v == feed[p][call[p].key].sev
  <2>1. inserted' = [inserted EXCEPT ![p][s] = v]
    BY <1>2 DEF Insert
  <2>2. s \in Slots /\ v \in Levels /\ v # "NONE" /\ call[p].key \in Keys
    BY <1>0, SlotOfCall
  <2>3. inserted[p][s] = "NONE" /\ rows[s] = "NONE"
    BY <1>2 DEF SevOf
  <2>4. \/ pc' = [pc EXCEPT ![p] = "sending"] /\ call' = call
        \/ pc' = [pc EXCEPT ![p] = "work"] /\ call' = [call EXCEPT ![p] = NoCall]
    BY <1>2 DEF Insert
  <2>5. \A q \in Processes, t \in Slots :
          inserted'[q][t] = IF q = p /\ t = s THEN v ELSE inserted[q][t]
    BY <2>1, <2>2 DEF WInv, TypeInv
  <2> HIDE DEF s, v
  <2>6. TypeInv'
    <3>1. inserted' \in [Processes -> [Slots -> Levels]]
      BY <2>1, <2>2 DEF WInv, TypeInv
    <3>2. pc' \in [Processes -> {"idle", "sweep", "work", "insert", "sending"}]
      BY <2>4 DEF WInv, TypeInv
    <3>3. CallsTyped(call')
      <4>1. CallsTyped(call)
        BY DEF WInv, TypeInv
      <4> QED BY <2>4, <4>1, CallEnds
    <3> QED BY <1>0, <3>1, <3>2, <3>3 DEF WInv, TypeInv
  <2>7. Tidy'
    BY <1>0, <2>1, <2>2, <2>4 DEF WInv, TypeInv, CallsTyped, Tidy, NoCall
  <2>8. Decided'
    BY <1>0, <2>4 DEF WInv, TypeInv, CallsTyped, Decided, NoCall
  <2>9. Excludes'
    BY <1>0, <2>2, <2>3, <2>5 DEF WInv, Excludes, Free, s
  <2>10. OnRecord'
    <3>1. ASSUME NEW q \in Processes, NEW x \in flight'[q] PROVE inserted'[q][<<x.key, x.ts>>] # "NONE"
      <4>1. x \in flight[q] /\ <<x.key, x.ts>> \in Slots /\ inserted[q][<<x.key, x.ts>>] # "NONE"
        BY <1>0, <3>1 DEF WInv, TypeInv, Pushes, Slots, OnRecord
      <4> QED BY <4>1, <2>2, <2>5
    <3> QED BY <1>0, <3>1 DEF WInv, OnRecord
  <2>11. Holds'
    <3>1. ASSUME NEW q \in Processes, pc'[q] = "sending"
          PROVE  inserted'[q][Slot(q)'] # "NONE" /\ ~Pushed(flight[q], Slot(q)')
      <4>1. CASE q = p
        <5>1. Slot(p)' = s
          BY <1>0, <2>4, <3>1, <4>1 DEF WInv, TypeInv, CallsTyped, Slot, s
        <5>2. s = <<s[1], s[2]>>
          BY <2>2 DEF Slots
        <5>3. ~Pushed(flight[p], s)
          BY <2>3, <5>2 DEF WInv, OnRecord, Pushed
        <5> QED BY <4>1, <5>1, <5>3, <2>2, <2>5
      <4>2. CASE q # p
        <5>1. pc[q] = "sending" /\ Slot(q)' = Slot(q)
          BY <1>0, <2>4, <3>1, <4>2 DEF WInv, TypeInv, CallsTyped, Slot
        <5>2. Slot(q) \in Slots
          BY <5>1, SlotOfCall
        <5> QED BY <5>1, <5>2, <4>2, <2>5 DEF WInv, Holds
      <4> QED BY <4>1, <4>2
    <3> QED BY <1>0, <3>1 DEF Holds
  <2> QED BY <2>6, <2>7, <2>8, <2>9, <2>10, <2>11 DEF WInv
<1> QED BY <1>1, <1>2

(* The push is out: it is in flight, and its slot stays held. *)
LEMMA RecordKeeps == ASSUME NEW p \in Processes PROVE WInv /\ Record(p) => WInv'
<1> SUFFICES ASSUME WInv, Record(p) PROVE WInv'
  OBVIOUS
<1> DEFINE x == [key |-> call[p].key, ts |-> Slot(p)[2], at |-> call[p].now, known |-> call[p].known]
<1>1. /\ pc[p] = "sending" /\ pc' = [pc EXCEPT ![p] = "work"]
      /\ flight' = [flight EXCEPT ![p] = @ \union {x}]
      /\ recorded' = [recorded EXCEPT ![p][call[p].key] = call[p].now]
      /\ call' = [call EXCEPT ![p] = NoCall]
      /\ UNCHANGED <<clock, left, signal, rows, active, cooldowns, memory, feed, todo, inserted,
                     closed, log>>
  BY DEF Record
<1>2. call[p].key \in Keys /\ Slot(p) \in Slots /\ Slot(p) = <<x.key, x.ts>> /\ x \in Pushes
  <2>1. call[p].now \in Time /\ call[p].known \in Nat
    BY DEF WInv, TypeInv, CallsTyped
  <2>2. call[p].key \in Keys /\ Slot(p) \in Slots
        /\ Slot(p) = <<call[p].key, feed[p][call[p].key].ts>>
    BY <1>1, SlotOfCall
  <2> QED BY <2>1, <2>2 DEF Slots, Pushes
<1> HIDE DEF x
<1>3. flight' \in [Processes -> SUBSET Pushes]
  BY <1>1, <1>2 DEF WInv, TypeInv
<1>4. recorded' \in [Processes -> [Keys -> Times]]
  BY <1>1, <1>2 DEF WInv, TypeInv, CallsTyped, Times
<1>5. CallsTyped(call')
  BY <1>1, CallEnds
<1>6. TypeInv'
  BY <1>1, <1>3, <1>4, <1>5 DEF WInv, TypeInv
<1>7. Tidy' /\ Decided'
  BY <1>1 DEF WInv, TypeInv, CallsTyped, Tidy, Decided, NoCall
<1>8. Excludes'
  BY <1>1 DEF WInv, Excludes
<1>9. Holds'
  <2>1. ASSUME NEW q \in Processes, pc'[q] = "sending"
        PROVE  q # p /\ pc[q] = "sending" /\ Slot(q)' = Slot(q) /\ flight'[q] = flight[q]
    BY <1>1, <2>1 DEF WInv, TypeInv, CallsTyped, Slot
  <2> QED BY <1>1, <2>1 DEF WInv, Holds, Pushed
<1>10. OnRecord'
  <2>1. inserted[p][<<x.key, x.ts>>] # "NONE"
    BY <1>1, <1>2 DEF WInv, Holds
  <2>2. ASSUME NEW q \in Processes, NEW y \in flight'[q] PROVE inserted[q][<<y.key, y.ts>>] # "NONE"
    <3>1. y \in flight[q] \/ (q = p /\ y = x)
      BY <1>1, <2>2 DEF WInv, TypeInv
    <3> QED BY <2>1, <3>1 DEF WInv, OnRecord
  <2> QED BY <1>1, <2>2 DEF WInv, OnRecord
<1> QED BY <1>6, <1>7, <1>8, <1>9, <1>10 DEF WInv

(* A transaction that is over holds nothing. *)
LEMMA ReleasedTypes ==
  ASSUME WInv, NEW p \in Processes, Released(p)
  PROVE  /\ pc' \in [Processes -> {"idle", "sweep", "work", "insert", "sending"}]
         /\ feed' \in [Processes -> [Keys -> Signals]]
         /\ todo' \in [Processes -> SUBSET Keys] /\ CallsTyped(call')
         /\ inserted' \in [Processes -> [Slots -> Levels]]
         /\ closed' \in [Processes -> SUBSET Slots]
         /\ recorded' \in [Processes -> [Keys -> Times]]
         /\ flight' \in [Processes -> SUBSET Pushes]
<1>1. [k \in Keys |-> Quiet] \in [Keys -> Signals]
  BY WritersAssumption DEF Quiet, Signals, Levels, Time
<1>2. NoRows \in [Slots -> Levels] /\ NoTimes \in [Keys -> Times]
  BY DEF NoRows, Levels, NoTimes, Times
<1>3. CallsTyped(call')
  BY CallEnds DEF Released
<1> HIDE DEF NoRows, NoTimes
<1> QED BY <1>1, <1>2, <1>3 DEF WInv, TypeInv, Released

LEMMA ReleasedIsTidy == ASSUME WInv, NEW p \in Processes, Released(p) PROVE Tidy' /\ Decided'
<1>1. Tidy'
  BY DEF WInv, TypeInv, CallsTyped, Tidy, Released, NoCall
<1>2. Decided'
  BY DEF WInv, TypeInv, CallsTyped, Decided, Released
<1> QED BY <1>1, <1>2

(* What the others hold and push is untouched when p releases what it held. *)
LEMMA ReleasedOthers ==
  ASSUME WInv, NEW p \in Processes, Released(p), NEW q \in Processes
  PROVE  /\ q = p => inserted'[q] = NoRows /\ flight'[q] = {}
         /\ q # p => inserted'[q] = inserted[q] /\ flight'[q] = flight[q]
BY DEF WInv, TypeInv, Released

LEMMA ReleasedHolds == ASSUME WInv, NEW p \in Processes, Released(p) PROVE Holds'
<1>1. ASSUME NEW q \in Processes, pc'[q] = "sending"
      PROVE  inserted'[q][Slot(q)'] # "NONE" /\ ~Pushed(flight'[q], Slot(q)')
  <2>1. q # p /\ pc[q] = "sending" /\ Slot(q)' = Slot(q)
    BY <1>1 DEF WInv, TypeInv, CallsTyped, Released, Slot
  <2>2. inserted'[q] = inserted[q] /\ flight'[q] = flight[q]
    BY <2>1, ReleasedOthers
  <2> QED BY <2>1, <2>2 DEF WInv, Holds, Pushed
<1> QED BY <1>1 DEF Holds, Pushed

LEMMA RolledBackKeeps ==
  ASSUME NEW p \in Processes,
         WInv, Released(p), UNCHANGED <<clock, signal, rows, active, cooldowns, log>>,
         Budget(left'), left'.ticks = left.ticks, memory' \in [Processes -> [Keys -> Times]]
  PROVE  WInv'
<1>1. TypeInv'
  BY ReleasedTypes DEF WInv, TypeInv
<1>2. Excludes'
  BY ReleasedOthers DEF WInv, Excludes, NoRows
<1>3. OnRecord'
  BY ReleasedOthers DEF WInv, OnRecord
<1> QED BY <1>1, <1>2, <1>3, ReleasedIsTidy, ReleasedHolds DEF WInv

LEMMA PassFailsKeeps == ASSUME NEW p \in Processes PROVE WInv /\ PassFails(p) => WInv'
<1> SUFFICES ASSUME WInv, PassFails(p) PROVE WInv'
  OBVIOUS
<1>1. Budget(left') /\ left'.ticks = left.ticks
  BY DEF WInv, TypeInv, PassFails, Budget
<1>2. memory' \in [Processes -> [Keys -> Times]]
  <2>1. NoTimes \in [Keys -> Times] /\ memory \in [Processes -> [Keys -> Times]]
    BY DEF NoTimes, Times, WInv, TypeInv
  <2>2. memory' = memory \/ memory' = [memory EXCEPT ![p] = NoTimes]
    BY DEF PassFails
  <2> QED BY <2>1, <2>2
<1>3. Released(p) /\ UNCHANGED <<clock, signal, rows, active, cooldowns, log>>
  BY DEF PassFails, RolledBack
<1> QED BY <1>1, <1>2, <1>3, RolledBackKeeps

LEMMA VictimKeeps == ASSUME NEW p \in Processes PROVE WInv /\ Victim(p) => WInv'
<1> SUFFICES ASSUME WInv, Victim(p) PROVE WInv'
  OBVIOUS
<1>1. Budget(left') /\ left'.ticks = left.ticks /\ memory' \in [Processes -> [Keys -> Times]]
  BY DEF WInv, TypeInv, Victim
<1>2. Released(p) /\ UNCHANGED <<clock, signal, rows, active, cooldowns, log>>
  BY DEF Victim, RolledBack
<1> QED BY <1>1, <1>2, RolledBackKeeps

(* Its rows and pushes get on record together. *)
LEMMA CommitKeeps == ASSUME NEW p \in Processes PROVE WInv /\ Commit(p) => WInv'
<1> SUFFICES ASSUME WInv, Commit(p) PROVE WInv'
  OBVIOUS
<1>1. Released(p) /\ UNCHANGED <<clock, left, signal, memory>>
  BY DEF Commit
<1>2. rows' \in [Slots -> Levels] /\ \A s \in Slots : rows'[s] = SevOf(p, s)
  BY DEF Commit, WInv, TypeInv, SevOf
<1>3. active' \subseteq {s \in Slots : rows'[s] # "NONE"}
  BY <1>2 DEF Commit, WInv, TypeInv, SevOf
<1>4. cooldowns' \in [Keys -> Times]
  BY CooldownOfType DEF Commit
<1>5. flight[p] \in SUBSET Pushes /\ log \in Seq(SUBSET Pushes)
  BY DEF WInv, TypeInv
<1>6. log' \in Seq(SUBSET Pushes)
      /\ \A c \in 1..Len(log') : (c \in 1..Len(log) /\ log'[c] = log[c]) \/ log'[c] = flight[p]
  BY <1>5 DEF Commit
<1>7. TypeInv'
  BY <1>1, <1>2, <1>3, <1>4, <1>6, ReleasedTypes DEF WInv, TypeInv
<1>8. Excludes'
  <2>1. ASSUME NEW q \in Processes, NEW s \in Slots, inserted'[q][s] # "NONE"
        PROVE  rows'[s] = "NONE" /\ \A r \in Processes \ {q} : inserted'[r][s] = "NONE"
    <3>1. q # p /\ inserted[q][s] # "NONE"
      BY <1>1, <2>1, ReleasedOthers DEF NoRows
    <3>2. rows[s] = "NONE" /\ \A r \in Processes \ {q} : inserted[r][s] = "NONE"
      BY <3>1 DEF WInv, Excludes
    <3>3. rows'[s] = "NONE"
      BY <1>2, <3>1, <3>2 DEF SevOf
    <3> QED BY <1>1, <3>2, <3>3, ReleasedOthers DEF NoRows
  <2> QED BY <2>1 DEF Excludes
<1>9. OnRecord'
  <2>1. ASSUME NEW c \in 1..Len(log'), NEW x \in log'[c] PROVE rows'[<<x.key, x.ts>>] # "NONE"
    <3>1. x \in Pushes /\ (rows[<<x.key, x.ts>>] # "NONE" \/ inserted[p][<<x.key, x.ts>>] # "NONE")
      BY <1>5, <1>6, <2>1 DEF WInv, OnRecord
    <3>2. <<x.key, x.ts>> \in Slots
      BY <3>1 DEF Pushes, Slots
    <3> QED BY <1>2, <3>1, <3>2 DEF SevOf
  <2>2. \A q \in Processes : \A x \in flight'[q] : inserted'[q][<<x.key, x.ts>>] # "NONE"
    BY <1>1, ReleasedOthers DEF WInv, OnRecord
  <2> QED BY <2>1, <2>2 DEF OnRecord
<1> QED BY <1>1, <1>7, <1>8, <1>9, ReleasedIsTidy, ReleasedHolds DEF WInv

-----------------------------------------------------------------------------
LEMMA WritersNext == WInv /\ [Next]_vars => WInv'
<1> SUFFICES ASSUME WInv, [Next]_vars PROVE WInv'
  OBVIOUS
<1>1. CASE Tick
  BY <1>1, TickKeeps
<1>2. ASSUME NEW k \in Keys, NewSignal(k) PROVE WInv'
  BY <1>2, NewSignalKeeps
<1>3. ASSUME NEW p \in Processes, Begin(p) \/ Work(p) \/ PassFails(p) PROVE WInv'
  <2>1. CASE Begin(p)
    BY <2>1, BeginKeeps
  <2>2. CASE Work(p)
    BY <2>2, SweepKeeps, CheckKeeps, InsertKeeps, RecordKeeps, CommitKeeps, VictimKeeps DEF Work
  <2>3. CASE PassFails(p)
    BY <2>3, PassFailsKeeps
  <2> QED BY <1>3, <2>1, <2>2, <2>3
<1>4. CASE UNCHANGED vars
  BY <1>4 DEF vars, WInv, TypeInv, CallsTyped, Tidy, Decided, Holds, Excludes, OnRecord, Slot
<1> QED BY <1>1, <1>2, <1>3, <1>4 DEF Next

(* While a process pushes a source minute, no other one is pushing it, no committed pass
   has pushed it and no open transaction has: for any set of processes and keys. *)
THEOREM WritersExclude == Spec => []SlotPushedOnce
<1>1. Spec => []WInv
  BY WritersInit, WritersNext, PTL DEF Spec
<1> QED BY <1>1, WritersHold, PTL

(* The types, and that a process between passes holds nothing. *)
THEOREM WritersTyped == Spec => []TypeOK
<1>1. WInv => TypeOK
  BY DEF WInv, TypeInv, Tidy, TypeOK, Levels, Times
<1> QED BY <1>1, WritersInit, WritersNext, PTL DEF Spec

-----------------------------------------------------------------------------
(***************************************************************************)
(* The cooldown between processes.  What a check finds in the table is the *)
(* time of some push on record (Table); pushes on record before a check    *)
(* are not newer than it (Knows); and a transaction writes the cooldown of *)
(* a key at most once (Once).  A push on record within the window of a     *)
(* later check was therefore overwritten by one whose check is older.      *)
(***************************************************************************)
InCall(p) == pc[p] \in {"insert", "sending"}

(* Nothing that is recorded was checked in the future. *)
Past ==
  /\ \A p \in Processes : InCall(p) => call[p].now <= clock
  /\ \A p \in Processes : \A x \in flight[p] : x.at <= clock
  /\ \A c \in 1..Len(log) : \A y \in log[c] : y.at <= clock

(* Of what was on record at a check nothing is newer than the check. *)
NotNewer(known, at) ==
  known <= Len(log) /\ \A c \in 1..known : \A y \in log[c] : y.at <= at
Knows ==
  /\ \A p \in Processes : InCall(p) => NotNewer(call[p].known, call[p].now)
  /\ \A p \in Processes : \A x \in flight[p] : NotNewer(x.known, x.at)
  /\ \A d \in 1..Len(log) : \A z \in log[d] : NotNewer(z.known, z.at)

(* A transaction writes a cooldown when it pushes, and pushes a key once. *)
OnePerKey(pushes) == \A x, y \in pushes : x.key = y.key => x = y
Once ==
  /\ \A p \in Processes :
       /\ OnePerKey(flight[p])
       /\ \A x \in flight[p] : recorded[p][x.key] = x.at
       /\ \A k \in Keys : recorded[p][k] # NoTime => \E x \in flight[p] : x.key = k
       /\ \A k \in todo[p] : recorded[p][k] = NoTime
       /\ pc[p] \in {"idle", "sweep"} => recorded[p] = NoTimes
       /\ InCall(p) => call[p].key \notin todo[p] /\ recorded[p][call[p].key] = NoTime
  /\ \A c \in 1..Len(log) : OnePerKey(log[c])

(* The table has the time of a push that was committed with or after any other. *)
Table ==
  \A c \in 1..Len(log) : \A y \in log[c] :
    \E d \in c..Len(log) : \E z \in log[d] : z.key = y.key /\ z.at = cooldowns[y.key]

(* A check that let a push through had no other reason to. *)
Overtaken(k, now, known) ==
  \A c \in 1..known : \A y \in log[c] :
    y.key = k /\ now - y.at < Window =>
      \E d \in c + 1..known : \E z \in log[d] : z.key = y.key /\ z.at < y.at /\ z.known < c
Justified ==
  \A p \in Processes :
    InCall(p) /\ ~call[p].escalates /\ (pc[p] = "insert" => call[p].send) =>
      Overtaken(call[p].key, call[p].now, call[p].known)

AcrossInv == Past /\ Knows /\ Once /\ Table /\ Justified

LEMMA AcrossTypes ==
  ASSUME WInv
  PROVE  /\ clock \in Nat /\ Window \in Nat /\ Len(log) \in Nat
         /\ \A p \in Processes : call[p].now \in Nat /\ call[p].known \in Nat
         /\ \A p \in Processes : \A x \in flight[p] :
              x \in Pushes /\ x.key \in Keys /\ x.at \in Nat /\ x.known \in Nat
         /\ \A c \in 1..Len(log) : \A y \in log[c] :
              y \in Pushes /\ y.key \in Keys /\ y.at \in Nat /\ y.known \in Nat
<1>1. \A t \in Time : t \in Nat
  BY WritersAssumption DEF Time
<1>2. \A x \in Pushes : x.key \in Keys /\ x.at \in Nat /\ x.known \in Nat
  BY <1>1 DEF Pushes
<1>3. clock \in Nat /\ Window \in Nat /\ Len(log) \in Nat
  BY <1>1, WritersAssumption DEF WInv, TypeInv
<1>4. \A p \in Processes : call[p].now \in Nat /\ call[p].known \in Nat
  BY <1>1 DEF WInv, TypeInv, CallsTyped
<1>5. \A p \in Processes : flight[p] \subseteq Pushes
  BY DEF WInv, TypeInv
<1>6. \A c \in 1..Len(log) : log[c] \subseteq Pushes
  BY DEF WInv, TypeInv
<1> QED BY <1>2, <1>3, <1>4, <1>5, <1>6

LEMMA AcrossStart == Init => AcrossInv
<1> SUFFICES ASSUME Init PROVE AcrossInv
  OBVIOUS
<1>1. /\ log = <<>> /\ Len(log) = 0
      /\ \A p \in Processes : /\ pc[p] = "idle" /\ flight[p] = {} /\ todo[p] = {}
                              /\ recorded[p] = NoTimes
  BY DEF Init
<1>2. \A k \in Keys : NoTimes[k] = NoTime
  BY DEF NoTimes
<1> HIDE DEF NoTimes
<1> QED BY <1>1, <1>2
        DEF AcrossInv, Past, Knows, Once, Table, Justified, InCall, OnePerKey

(* A step that moves no call, push or record forward. *)
LEMMA AcrossIdle ==
  ASSUME WInv, AcrossInv,
         UNCHANGED <<clock, cooldowns, flight, recorded, log>>,
         \A q \in Processes :
           /\ todo'[q] = todo[q] \/ recorded[q] = NoTimes
           /\ todo'[q] \subseteq Keys
           /\ pc'[q] \in {"idle", "sweep"} => pc[q] \in {"idle", "sweep"}
           /\ InCall(q)' => /\ InCall(q) /\ call'[q] = call[q] /\ todo'[q] = todo[q]
                            /\ pc'[q] = pc[q] \/ call[q].send
  PROVE  AcrossInv'
<1>1. \A k \in Keys : NoTimes[k] = NoTime
  BY DEF NoTimes
<1>2. Past'
  BY DEF AcrossInv, Past
<1>3. Knows'
  BY DEF AcrossInv, Knows, NotNewer
<1>4. Once'
  <2> HIDE DEF NoTimes
  <2> QED BY <1>1 DEF AcrossInv, Once, OnePerKey
<1>5. Table'
  BY DEF AcrossInv, Table
<1>6. Justified'
  <2>1. \A q \in Processes : InCall(q)' /\ pc'[q] = "insert" => pc[q] = "insert" \/ call[q].send
    BY DEF InCall
  <2>2. \A q \in Processes : InCall(q)' /\ pc'[q] # "insert" => pc[q] # "insert" \/ call[q].send
    OBVIOUS
  <2> QED BY <2>1, <2>2 DEF AcrossInv, Justified, Overtaken, InCall
<1> QED BY <1>2, <1>3, <1>4, <1>5, <1>6 DEF AcrossInv

LEMMA TickAcross == WInv /\ AcrossInv /\ Tick => AcrossInv'
<1> SUFFICES ASSUME WInv, AcrossInv, Tick PROVE AcrossInv'
  OBVIOUS
<1>1. clock' = clock + 1 /\ UNCHANGED <<pc, txVars, log, cooldowns>>
  BY DEF Tick
<1>2. Past'
  BY <1>1, AcrossTypes DEF AcrossInv, Past, InCall, txVars
<1> QED BY <1>1, <1>2 DEF txVars, AcrossInv, Knows, NotNewer, Once, OnePerKey, Table, Justified,
                          Overtaken, InCall

LEMMA BeginAcross == ASSUME NEW p \in Processes PROVE WInv /\ AcrossInv /\ Begin(p) => AcrossInv'
<1> SUFFICES ASSUME WInv, AcrossInv, Begin(p) PROVE AcrossInv'
  OBVIOUS
<1>1. /\ pc[p] = "idle" /\ pc' = [pc EXCEPT ![p] = "sweep"]
      /\ UNCHANGED <<clock, cooldowns, todo, call, recorded, flight, log>>
  BY DEF Begin, txVars
<1> QED BY <1>1, AcrossIdle DEF WInv, TypeInv, InCall

LEMMA SweepAcross == ASSUME NEW p \in Processes PROVE WInv /\ AcrossInv /\ Sweep(p) => AcrossInv'
<1> SUFFICES ASSUME WInv, AcrossInv, Sweep(p) PROVE AcrossInv'
  OBVIOUS
<1>1. /\ pc[p] = "sweep" /\ pc' = [pc EXCEPT ![p] = "work"]
      /\ todo' = [todo EXCEPT ![p] = Triggered(feed[p])]
      /\ UNCHANGED <<clock, cooldowns, call, recorded, flight, log>>
  BY DEF Sweep
<1>2. recorded[p] = NoTimes /\ Triggered(feed[p]) \subseteq Keys
  BY <1>1 DEF AcrossInv, Once, Triggered
<1> QED BY <1>1, <1>2, AcrossIdle DEF WInv, TypeInv, InCall

LEMMA InsertAcross == ASSUME NEW p \in Processes PROVE WInv /\ AcrossInv /\ Insert(p) => AcrossInv'
<1> SUFFICES ASSUME WInv, AcrossInv, Insert(p) PROVE AcrossInv'
  OBVIOUS
<1>1. /\ pc[p] = "insert"
      /\ \/ pc' = [pc EXCEPT ![p] = "work"] /\ call' = [call EXCEPT ![p] = NoCall]
         \/ pc' = [pc EXCEPT ![p] = "sending"] /\ call' = call /\ call[p].send
      /\ UNCHANGED <<clock, cooldowns, todo, recorded, flight, log>>
  BY DEF Insert
<1>2. \A q \in Processes : q # p => call'[q] = call[q] /\ pc'[q] = pc[q]
  BY <1>1 DEF WInv, TypeInv, CallsTyped
<1>3. pc'[p] = "work" \/ (pc'[p] = "sending" /\ call'[p] = call[p] /\ call[p].send)
  BY <1>1 DEF WInv, TypeInv
<1>4. \A q \in Processes : todo'[q] = todo[q] /\ todo[q] \subseteq Keys
  BY <1>1 DEF WInv, TypeInv
<1> QED BY <1>1, <1>2, <1>3, <1>4, AcrossIdle DEF InCall

(* A check that finds no cooldown in the table: what is on record within the window has
   been overtaken by what the table tells. *)
LEMMA CheckIsJustified ==
  ASSUME WInv, AcrossInv, NEW p \in Processes, NEW k \in todo[p], ~Within(CooldownOf(p, k))
  PROVE  Overtaken(k, clock, Len(log))
<1>1. k \in Keys /\ CooldownOf(p, k) = cooldowns[k]
  BY DEF WInv, TypeInv, AcrossInv, Once, CooldownOf
<1> SUFFICES ASSUME NEW c \in 1..Len(log), NEW y \in log[c], y.key = k, clock - y.at < Window
             PROVE  \E d \in c + 1..Len(log) : \E z \in log[d] :
                      z.key = y.key /\ z.at < y.at /\ z.known < c
  BY DEF Overtaken
<1>2. PICK d \in c..Len(log) : \E z \in log[d] : z.key = k /\ z.at = cooldowns[k]
  BY DEF AcrossInv, Table
<1>3. PICK z \in log[d] : z.key = k /\ z.at = cooldowns[k]
  BY <1>2
<1>4. /\ Len(log) \in Nat /\ clock \in Nat /\ Window \in Nat
      /\ y.at \in Nat /\ z.at \in Nat /\ z.known \in Nat /\ d \in 1..Len(log)
  BY AcrossTypes
<1>5. z.at < y.at
  BY <1>1, <1>3, <1>4 DEF Within, NoTime
<1>6. d # c
  BY <1>3, <1>4, <1>5 DEF AcrossInv, Once, OnePerKey
<1>7. z.known < c
  <2> SUFFICES ASSUME ~(z.known < c) PROVE FALSE
    OBVIOUS
  <2>1. c \in 1..z.known
    BY <1>4
  <2>2. y.at <= z.at
    BY <1>4, <2>1 DEF AcrossInv, Knows, NotNewer
  <2> QED BY <1>4, <1>5, <2>2
<1>8. d \in c + 1..Len(log)
  BY <1>4, <1>6
<1> QED BY <1>3, <1>5, <1>7, <1>8

LEMMA CheckAcross ==
  ASSUME NEW p \in Processes, NEW k \in Keys PROVE WInv /\ AcrossInv /\ Check(p, k) => AcrossInv'
<1> SUFFICES ASSUME WInv, AcrossInv, Check(p, k) PROVE AcrossInv'
  OBVIOUS
<1>1. PICK send :
        /\ call' = [call EXCEPT ![p] = [key |-> k, now |-> clock, send |-> send,
                                        escalates |-> Escalates(p, k), known |-> Len(log)]]
        /\ send => Escalates(p, k) \/ ~Within(CooldownOf(p, k))
  BY DEF Check
<1>2. /\ pc[p] = "work" /\ k \in todo[p] /\ todo' = [todo EXCEPT ![p] = @ \ {k}]
      /\ pc' = [pc EXCEPT ![p] = "insert"]
      /\ UNCHANGED <<clock, cooldowns, recorded, flight, log>>
  BY DEF Check
<1>3. /\ \A q \in Processes : q # p => /\ call'[q] = call[q] /\ pc'[q] = pc[q]
                                       /\ todo'[q] = todo[q]
      /\ pc'[p] = "insert" /\ todo'[p] = todo[p] \ {k}
      /\ call'[p].key = k /\ call'[p].now = clock /\ call'[p].send = send
      /\ call'[p].escalates = Escalates(p, k) /\ call'[p].known = Len(log)
  BY <1>1, <1>2 DEF WInv, TypeInv, CallsTyped
<1>4. \A q \in Processes : q # p => (InCall(q)' <=> InCall(q))
  BY <1>3 DEF InCall
<1>5. Past'
  BY <1>2, <1>3, <1>4, AcrossTypes DEF AcrossInv, Past
<1>6. Knows'
  <2>1. NotNewer(Len(log), clock)
    BY AcrossTypes DEF AcrossInv, Past, NotNewer
  <2> QED BY <1>2, <1>3, <1>4, <2>1 DEF AcrossInv, Knows, NotNewer
<1>7. Once'
  BY <1>2, <1>3, <1>4 DEF AcrossInv, Once, OnePerKey
<1>8. Table'
  BY <1>2 DEF AcrossInv, Table
<1>9. Justified'
  <2>1. send /\ ~Escalates(p, k) => Overtaken(k, clock, Len(log))
    BY <1>1, <1>2, CheckIsJustified
  <2>2. ASSUME NEW q \in Processes, InCall(q)', ~call'[q].escalates,
               pc'[q] = "insert" => call'[q].send
        PROVE  Overtaken(call'[q].key, call'[q].now, call'[q].known)
    <3>1. CASE q = p
      BY <1>3, <2>1, <2>2, <3>1
    <3>2. CASE q # p
      BY <1>3, <1>4, <2>2, <3>2 DEF AcrossInv, Justified
    <3> QED BY <3>1, <3>2
  <2> QED BY <1>2, <2>2 DEF Justified, Overtaken
<1> QED BY <1>5, <1>6, <1>7, <1>8, <1>9 DEF AcrossInv

(* The push gets into its transaction with its cooldown. *)
LEMMA RecordAcross == ASSUME NEW p \in Processes PROVE WInv /\ AcrossInv /\ Record(p) => AcrossInv'
<1> SUFFICES ASSUME WInv, AcrossInv, Record(p) PROVE AcrossInv'
  OBVIOUS
<1> DEFINE k == call[p].key
           x == [key |-> k, ts |-> Slot(p)[2], at |-> call[p].now, known |-> call[p].known]
<1>1. /\ pc[p] = "sending" /\ pc' = [pc EXCEPT ![p] = "work"]
      /\ flight' = [flight EXCEPT ![p] = @ \union {x}]
      /\ recorded' = [recorded EXCEPT ![p][k] = call[p].now]
      /\ call' = [call EXCEPT ![p] = NoCall]
      /\ UNCHANGED <<clock, cooldowns, todo, log>>
  BY DEF Record
<1>2. k \in Keys /\ x.key = k /\ x.at = call[p].now /\ x.known = call[p].known
  BY <1>1, SlotOfCall
<1>3. call[p].now \in Nat /\ call[p].now # NoTime
  BY AcrossTypes DEF NoTime
<1> HIDE DEF x, k
<1>4. /\ \A q \in Processes : q # p => /\ call'[q] = call[q] /\ pc'[q] = pc[q]
                                       /\ flight'[q] = flight[q] /\ recorded'[q] = recorded[q]
      /\ pc'[p] = "work" /\ flight'[p] = flight[p] \union {x}
      /\ \A j \in Keys : recorded'[p][j] = IF j = k THEN call[p].now ELSE recorded[p][j]
  BY <1>1, <1>2 DEF WInv, TypeInv, CallsTyped
<1>5. \A q \in Processes : InCall(q)' <=> q # p /\ InCall(q)
  BY <1>4 DEF InCall
<1>6. InCall(p)
  BY <1>1 DEF InCall
<1>7. Past'
  <2>1. x.at <= clock
    BY <1>2, <1>6 DEF AcrossInv, Past
  <2> QED BY <1>1, <1>4, <1>5, <2>1 DEF AcrossInv, Past
<1>8. Knows'
  <2>1. NotNewer(x.known, x.at)
    BY <1>2, <1>6 DEF AcrossInv, Knows
  <2> QED BY <1>1, <1>4, <1>5, <2>1 DEF AcrossInv, Knows, NotNewer
<1>9. Once'
  <2>1. recorded[p][k] = NoTime /\ k \notin todo[p]
    BY <1>6 DEF AcrossInv, Once, k
  <2>2. \A y \in flight[p] : y.key \in Keys /\ y.at # NoTime /\ y.key # k
    BY <2>1, AcrossTypes DEF AcrossInv, Once, NoTime
  <2>3. todo[p] \subseteq Keys
    BY DEF WInv, TypeInv
  <2>4. /\ OnePerKey(flight'[p])
        /\ \A y \in flight'[p] : recorded'[p][y.key] = y.at
        /\ \A j \in Keys : recorded'[p][j] # NoTime => \E y \in flight'[p] : y.key = j
        /\ \A j \in todo[p] : recorded'[p][j] = NoTime
    BY <1>2, <1>4, <2>1, <2>2, <2>3 DEF AcrossInv, Once, OnePerKey
  <2> QED BY <1>1, <1>4, <1>5, <2>4 DEF AcrossInv, Once, OnePerKey
<1>10. Table'
  BY <1>1 DEF AcrossInv, Table
<1>11. Justified'
  BY <1>1, <1>4, <1>5 DEF AcrossInv, Justified, Overtaken
<1> QED BY <1>7, <1>8, <1>9, <1>10, <1>11 DEF AcrossInv

(* What remains of a transaction that is over. *)
LEMMA ReleasedAcross ==
  ASSUME WInv, NEW p \in Processes, Released(p)
  PROVE  /\ \A q \in Processes \ {p} :
              /\ call'[q] = call[q] /\ pc'[q] = pc[q] /\ todo'[q] = todo[q]
              /\ flight'[q] = flight[q] /\ recorded'[q] = recorded[q]
         /\ pc'[p] = "idle" /\ todo'[p] = {} /\ flight'[p] = {} /\ recorded'[p] = NoTimes
         /\ \A q \in Processes : InCall(q)' <=> q # p /\ InCall(q)
BY DEF Released, WInv, TypeInv, CallsTyped, InCall

LEMMA OthersAcross ==
  ASSUME WInv, AcrossInv, NEW p \in Processes, Released(p)
  PROVE  \A q \in Processes :
           /\ OnePerKey(flight'[q])
           /\ \A x \in flight'[q] : recorded'[q][x.key] = x.at
           /\ \A k \in Keys : recorded'[q][k] # NoTime => \E x \in flight'[q] : x.key = k
           /\ \A k \in todo'[q] : recorded'[q][k] = NoTime
           /\ pc'[q] \in {"idle", "sweep"} => recorded'[q] = NoTimes
           /\ InCall(q)' => call'[q].key \notin todo'[q] /\ recorded'[q][call'[q].key] = NoTime
<1>1. \A k \in Keys : NoTimes[k] = NoTime
  BY DEF NoTimes
<1> HIDE DEF NoTimes
<1> SUFFICES ASSUME NEW q \in Processes
             PROVE  /\ OnePerKey(flight'[q])
                    /\ \A x \in flight'[q] : recorded'[q][x.key] = x.at
                    /\ \A k \in Keys : recorded'[q][k] # NoTime => \E x \in flight'[q] : x.key = k
                    /\ \A k \in todo'[q] : recorded'[q][k] = NoTime
                    /\ pc'[q] \in {"idle", "sweep"} => recorded'[q] = NoTimes
                    /\ InCall(q)' => /\ call'[q].key \notin todo'[q]
                                     /\ recorded'[q][call'[q].key] = NoTime
  OBVIOUS
<1>2. CASE q = p
  BY <1>1, <1>2, ReleasedAcross DEF OnePerKey
<1>3. CASE q # p
  BY <1>3, ReleasedAcross DEF AcrossInv, Once
<1> QED BY <1>2, <1>3

LEMMA RolledBackAcross ==
  ASSUME WInv, AcrossInv, NEW p \in Processes, RolledBack(p) PROVE AcrossInv'
<1>1. Released(p) /\ UNCHANGED <<clock, cooldowns, log>>
  BY DEF RolledBack
<1>2. Past'
  BY <1>1, ReleasedAcross DEF AcrossInv, Past
<1>3. Knows'
  BY <1>1, ReleasedAcross DEF AcrossInv, Knows, NotNewer
<1>4. Once'
  BY <1>1, OthersAcross DEF AcrossInv, Once, OnePerKey
<1>5. Table'
  BY <1>1 DEF AcrossInv, Table
<1>6. Justified'
  BY <1>1, ReleasedAcross DEF AcrossInv, Justified, Overtaken
<1> QED BY <1>2, <1>3, <1>4, <1>5, <1>6 DEF AcrossInv

(* The pushes and the cooldowns of the transaction get on record together. *)
LEMMA CommitAcross == ASSUME NEW p \in Processes PROVE WInv /\ AcrossInv /\ Commit(p) => AcrossInv'
<1> SUFFICES ASSUME WInv, AcrossInv, Commit(p) PROVE AcrossInv'
  OBVIOUS
<1>1. /\ Released(p) /\ clock' = clock
      /\ \A k \in Keys : cooldowns'[k] = CooldownOf(p, k)
  BY DEF Commit
<1>2. log \in Seq(SUBSET Pushes) /\ flight[p] \in SUBSET Pushes /\ Len(log) \in Nat
  BY DEF WInv, TypeInv
<1>3. /\ Len(log') \in Nat /\ Len(log) <= Len(log')
      /\ \A c \in 1..Len(log) : c \in 1..Len(log') /\ log'[c] = log[c]
      /\ \A c \in 1..Len(log') : c \in 1..Len(log) \/ log'[c] = flight[p]
      /\ flight[p] # {} => log'[Len(log')] = flight[p] /\ Len(log') >= 1
  BY <1>2 DEF Commit
<1>4. ASSUME NEW known \in Nat, NEW at, NotNewer(known, at)
      PROVE  /\ known <= Len(log')
             /\ \A c \in 1..known : \A y \in log'[c] : y.at <= at
  BY <1>2, <1>3, <1>4 DEF NotNewer
<1>5. Past'
  <2>1. \A c \in 1..Len(log') : \A y \in log'[c] : y.at <= clock
    BY <1>3 DEF AcrossInv, Past
  <2> QED BY <1>1, <2>1, ReleasedAcross DEF AcrossInv, Past
<1>6. Knows'
  <2>1. ASSUME NEW q \in Processes, InCall(q)' PROVE NotNewer(call[q].known, call[q].now)'
    <3>1. InCall(q) /\ call'[q] = call[q] /\ call[q].known \in Nat
      BY <1>1, <2>1, ReleasedAcross, AcrossTypes
    <3>2. NotNewer(call[q].known, call[q].now)
      BY <3>1 DEF AcrossInv, Knows
    <3> QED BY <1>4, <3>1, <3>2 DEF NotNewer
  <2>2. ASSUME NEW q \in Processes, NEW x \in flight'[q]
        PROVE  /\ x.known <= Len(log')
               /\ \A c \in 1..x.known : \A y \in log'[c] : y.at <= x.at
    <3>1. x \in flight[q]
      BY <1>1, <2>2, ReleasedAcross
    <3> QED BY <1>4, <3>1, AcrossTypes DEF AcrossInv, Knows
  <2>3. ASSUME NEW d \in 1..Len(log'), NEW z \in log'[d]
        PROVE  /\ z.known <= Len(log')
               /\ \A c \in 1..z.known : \A y \in log'[c] : y.at <= z.at
    <3>1. (d \in 1..Len(log) /\ z \in log[d]) \/ z \in flight[p]
      BY <1>3, <2>3
    <3> QED BY <1>4, <3>1, AcrossTypes DEF AcrossInv, Knows
  <2> QED BY <2>1, <2>2, <2>3 DEF Knows, NotNewer
<1>7. Once'
  <2>1. \A c \in 1..Len(log') : OnePerKey(log'[c])
    BY <1>3 DEF AcrossInv, Once
  <2> QED BY <1>1, <2>1, OthersAcross DEF Once, OnePerKey
<1>8. Table'
  <2> SUFFICES ASSUME NEW c \in 1..Len(log'), NEW y \in log'[c]
               PROVE  \E d \in c..Len(log') : \E z \in log'[d] :
                        z.key = y.key /\ z.at = cooldowns'[y.key]
    BY DEF Table
  <2>1. (c \in 1..Len(log) /\ y \in log[c]) \/ y \in flight[p]
    BY <1>3
  <2>2. y.key \in Keys
    BY <2>1, AcrossTypes
  <2>3. CASE recorded[p][y.key] # NoTime
    <3>1. PICK z \in flight[p] : z.key = y.key
      BY <2>2, <2>3 DEF AcrossInv, Once
    <3>2. z.at = cooldowns'[y.key]
      BY <1>1, <2>2, <2>3, <3>1 DEF AcrossInv, Once, CooldownOf
    <3>3. z \in log'[Len(log')] /\ Len(log') \in c..Len(log')
      BY <1>3, <3>1
    <3> QED BY <3>1, <3>2, <3>3
  <2>4. CASE recorded[p][y.key] = NoTime
    <3>1. y \notin flight[p]
      <4> SUFFICES ASSUME y \in flight[p] PROVE FALSE
        OBVIOUS
      <4>1. y.at = NoTime /\ y.at \in Nat
        BY <2>4, AcrossTypes DEF AcrossInv, Once
      <4> QED BY <4>1 DEF NoTime
    <3>2. PICK d \in c..Len(log) : \E z \in log[d] : z.key = y.key /\ z.at = cooldowns[y.key]
      BY <2>1, <3>1 DEF AcrossInv, Table
    <3>3. d \in c..Len(log') /\ log'[d] = log[d]
      BY <1>2, <1>3, <2>1, <3>1, <3>2
    <3> QED BY <1>1, <2>2, <2>4, <3>2, <3>3 DEF CooldownOf
  <2> QED BY <2>3, <2>4
<1>9. Justified'
  <2>1. ASSUME NEW q \in Processes, InCall(q)', ~call'[q].escalates,
               pc'[q] = "insert" => call'[q].send
        PROVE  Overtaken(call[q].key, call[q].now, call[q].known)'
    <3>1. q # p /\ InCall(q) /\ call'[q] = call[q] /\ pc'[q] = pc[q]
      BY <1>1, <2>1, ReleasedAcross
    <3>2. /\ call[q].known \in Nat /\ call[q].known <= Len(log)
          /\ Overtaken(call[q].key, call[q].now, call[q].known)
      BY <2>1, <3>1, AcrossTypes DEF AcrossInv, Knows, NotNewer, Justified
    <3>3. \A c \in 1..call[q].known : log'[c] = log[c]
      BY <1>2, <1>3, <3>2
    <3>4. \A c \in 1..call[q].known : \A d \in c + 1..call[q].known : log'[d] = log[d]
      BY <1>2, <1>3, <3>2
    <3> QED BY <3>1, <3>2, <3>3, <3>4 DEF Overtaken
  <2> QED BY <2>1 DEF Justified
<1> QED BY <1>5, <1>6, <1>7, <1>8, <1>9 DEF AcrossInv

LEMMA AcrossNext == WInv /\ AcrossInv /\ [Next]_vars => AcrossInv'
<1> SUFFICES ASSUME WInv, AcrossInv, [Next]_vars PROVE AcrossInv'
  OBVIOUS
<1>1. CASE Tick
  BY <1>1, TickAcross
<1>2. ASSUME UNCHANGED <<clock, cooldowns, flight, recorded, log, todo, call, pc>>
      PROVE  AcrossInv'
  BY <1>2, AcrossIdle DEF InCall, WInv, TypeInv
<1>3. ASSUME NEW k \in Keys, NewSignal(k) PROVE AcrossInv'
  BY <1>2, <1>3 DEF NewSignal, txVars
<1>4. ASSUME NEW p \in Processes, Begin(p) \/ Work(p) \/ PassFails(p) PROVE AcrossInv'
  <2>1. CASE Begin(p)
    BY <2>1, BeginAcross
  <2>2. CASE Work(p)
    BY <2>2, SweepAcross, CheckAcross, InsertAcross, RecordAcross, CommitAcross, RolledBackAcross
       DEF Work, Victim
  <2>3. CASE PassFails(p)
    BY <2>3, RolledBackAcross DEF PassFails
  <2> QED BY <1>4, <2>1, <2>2, <2>3
<1>5. CASE UNCHANGED vars
  BY <1>2, <1>5 DEF vars, txVars
<1> QED BY <1>1, <1>3, <1>4, <1>5 DEF Next

(* A push within the window of one on record at its check is an escalation, or that one
   was overtaken in the table by the push of a transaction that had checked before it. *)
THEOREM CooldownAcross == Spec => []CooldownHeldAcross
<1>1. AcrossInv => CooldownHeldAcross
  BY DEF AcrossInv, Justified, Overtaken, InCall, CooldownHeldAcross
<1>2. Spec => [](WInv /\ AcrossInv)
  BY WritersInit, WritersNext, AcrossStart, AcrossNext, PTL DEF Spec
<1> QED BY <1>1, <1>2, PTL


-----------------------------------------------------------------------------
(***************************************************************************)
(* AlertWriters implements AlertLedger.  Between commits nothing gets on   *)
(* record, so each step but Tick and Commit stutters.  What a commit puts  *)
(* on record is a pass of the ledger because the transaction has inserted  *)
(* only what was said (Told), of that everything that was not on record    *)
(* (Settled), and closes only what was closable when it swept (Swept) -    *)
(* time makes more of it closable, never less.                             *)
(***************************************************************************)
SaidSlot(p, k) == <<k, feed[p][k].ts>>

Told ==
  \A p \in Processes : \A s \in Slots :
    inserted[p][s] # "NONE" => s[1] \in Triggered(feed[p]) /\ s[2] = feed[p][s[1]].ts

(* A decision is still to do, or being done, or it has a row. *)
Settled ==
  \A p \in Processes :
    pc[p] \in {"work", "insert", "sending"} =>
      \A k \in Triggered(feed[p]) \ todo[p] :
        (pc[p] = "insert" /\ call[p].key = k) \/ SevOf(p, SaidSlot(p, k)) # "NONE"

Swept ==
  \A p \in Processes : \A s \in closed[p] :
    s[2] < clock - ExpireAfter \/ s[1] \notin Triggered(feed[p])

LedgerInv == Told /\ Settled /\ Swept

LEMMA SaidIsSlot ==
  ASSUME WInv, NEW p \in Processes, NEW k \in Keys PROVE SaidSlot(p, k) \in Slots
BY DEF WInv, TypeInv, SaidSlot, Slots, Signals

LEMMA LedgerStart == Init => LedgerInv
<1> SUFFICES ASSUME Init PROVE LedgerInv
  OBVIOUS
<1>1. Told
  BY DEF Init, Told, NoRows
<1>2. Settled /\ Swept
  BY DEF Init, Settled, Swept
<1> QED BY <1>1, <1>2 DEF LedgerInv

LEMMA TickLedger == WInv /\ LedgerInv /\ Tick => LedgerInv'
<1> SUFFICES ASSUME WInv, LedgerInv, Tick PROVE LedgerInv'
  OBVIOUS
<1>1. clock \in Int /\ ExpireAfter \in Int /\ clock' = clock + 1
      /\ UNCHANGED <<rows, pc, feed, todo, call, inserted, closed>>
  BY WritersAssumption DEF WInv, TypeInv, Time, Tick, txVars
<1>2. Told' /\ Settled'
  BY <1>1 DEF LedgerInv, Told, Settled, SevOf, SaidSlot, Triggered
<1>3. Swept'
  <2>1. \A p \in Processes : \A s \in closed[p] : s[2] \in Int
    BY DEF WInv, TypeInv, Slots, Time
  <2> QED BY <1>1, <2>1 DEF LedgerInv, Swept, Triggered
<1> QED BY <1>2, <1>3 DEF LedgerInv

LEMMA BeginLedger ==
  ASSUME NEW p \in Processes PROVE WInv /\ LedgerInv /\ Begin(p) => LedgerInv'
<1> SUFFICES ASSUME WInv, LedgerInv, Begin(p) PROVE LedgerInv'
  OBVIOUS
<1>1. /\ pc[p] = "idle" /\ pc' = [pc EXCEPT ![p] = "sweep"] /\ feed' = [feed EXCEPT ![p] = signal]
      /\ UNCHANGED <<clock, rows, todo, call, inserted, closed>>
  BY DEF Begin, txVars
<1>2. inserted[p] = NoRows /\ closed[p] = {}
  BY <1>1 DEF WInv, Tidy
<1>3. Told'
  BY <1>1, <1>2 DEF WInv, TypeInv, LedgerInv, Told, NoRows, Triggered
<1>4. Settled'
  BY <1>1 DEF WInv, TypeInv, LedgerInv, Settled, SevOf, SaidSlot, Triggered
<1>5. Swept'
  BY <1>1, <1>2 DEF WInv, TypeInv, LedgerInv, Swept, Triggered
<1> QED BY <1>3, <1>4, <1>5 DEF LedgerInv

LEMMA SweepLedger ==
  ASSUME NEW p \in Processes PROVE WInv /\ LedgerInv /\ Sweep(p) => LedgerInv'
<1> SUFFICES ASSUME WInv, LedgerInv, Sweep(p) PROVE LedgerInv'
  OBVIOUS
<1>1. /\ pc' = [pc EXCEPT ![p] = "work"] /\ closed' = [closed EXCEPT ![p] = ToClose(p)]
      /\ todo' = [todo EXCEPT ![p] = Triggered(feed[p])]
      /\ UNCHANGED <<clock, rows, feed, call, inserted>>
  BY DEF Sweep
<1>2. Told'
  BY <1>1 DEF LedgerInv, Told, Triggered
<1>3. Settled'
  BY <1>1 DEF WInv, TypeInv, LedgerInv, Settled, SevOf, SaidSlot, Triggered
<1>4. Swept'
  BY <1>1 DEF WInv, TypeInv, LedgerInv, Swept, ToClose, Triggered
<1> QED BY <1>2, <1>3, <1>4 DEF LedgerInv

LEMMA CheckLedger ==
  ASSUME NEW p \in Processes, NEW k \in Keys PROVE WInv /\ LedgerInv /\ Check(p, k) => LedgerInv'
<1> SUFFICES ASSUME WInv, LedgerInv, Check(p, k) PROVE LedgerInv'
  OBVIOUS
<1>0. PICK send, escalates :
        call' = [call EXCEPT ![p] = [key |-> k, now |-> clock, send |-> send,
                                     escalates |-> escalates, known |-> Len(log)]]
  BY DEF Check
<1>1. /\ pc[p] = "work" /\ pc' = [pc EXCEPT ![p] = "insert"]
      /\ todo' = [todo EXCEPT ![p] = @ \ {k}]
      /\ call'[p].key = k /\ \A q \in Processes \ {p} : call'[q] = call[q]
      /\ UNCHANGED <<clock, rows, feed, inserted, closed>>
  BY <1>0 DEF Check, WInv, TypeInv, CallsTyped
<1>2. Told' /\ Swept'
  BY <1>1 DEF LedgerInv, Told, Swept, Triggered
<1>3. Settled'
  BY <1>1 DEF WInv, TypeInv, CallsTyped, LedgerInv, Settled, SevOf, SaidSlot, Triggered
<1> QED BY <1>2, <1>3 DEF LedgerInv

LEMMA InsertLedger ==
  ASSUME NEW p \in Processes PROVE WInv /\ LedgerInv /\ Insert(p) => LedgerInv'
<1> SUFFICES ASSUME WInv, LedgerInv, Insert(p) PROVE LedgerInv'
  OBVIOUS
<1> DEFINE s == Slot(p)
<1>1. /\ pc[p] = "insert" /\ UNCHANGED <<clock, rows, feed, todo, closed>>
      /\ \E at \in {"work", "sending"} : pc' = [pc EXCEPT ![p] = at]
      /\ \A q \in Processes \ {p} : call'[q] = call[q]
  BY DEF Insert, WInv, TypeInv, CallsTyped
<1>2. s = SaidSlot(p, call[p].key) /\ s \in Slots /\ call[p].key \in Triggered(feed[p])
      /\ feed[p][call[p].key].sev # "NONE"
  BY <1>1, SlotOfCall DEF SaidSlot, WInv, Decided
<1>3. /\ \A q \in Processes, t \in Slots : inserted[q][t] # "NONE" => inserted'[q][t] # "NONE"
      /\ \A q \in Processes, t \in Slots :
           inserted'[q][t] # "NONE" => inserted[q][t] # "NONE" \/ (q = p /\ t = s)
      /\ rows[s] # "NONE" \/ inserted'[p][s] # "NONE"
  <2>1. CASE SevOf(p, s) # "NONE"
    BY <2>1 DEF Insert, SevOf
  <2>2. CASE SevOf(p, s) = "NONE"
    <3>1. inserted' = [inserted EXCEPT ![p][s] = feed[p][call[p].key].sev]
      BY <2>2 DEF Insert
    <3> HIDE DEF s
    <3>2. \A q \in Processes, t \in Slots :
            inserted'[q][t] = IF q = p /\ t = s THEN feed[p][call[p].key].sev ELSE inserted[q][t]
      BY <1>2, <3>1 DEF WInv, TypeInv
    <3> QED BY <1>2, <3>2
  <2> QED BY <2>1, <2>2
<1> HIDE DEF s
<1>4. Told'
  <2>1. s[1] = call[p].key /\ s[2] = feed[p][call[p].key].ts
    BY <1>2 DEF SaidSlot
  <2> QED BY <1>1, <1>2, <1>3, <2>1 DEF LedgerInv, Told
<1>5. Settled'
  <2>1. ASSUME NEW q \in Processes, pc'[q] \in {"work", "insert", "sending"},
               NEW k \in Triggered(feed[q]) \ todo[q]
        PROVE  (pc'[q] = "insert" /\ call'[q].key = k)
               \/ inserted'[q][SaidSlot(q, k)] # "NONE" \/ rows[SaidSlot(q, k)] # "NONE"
    <3>1. SaidSlot(q, k) \in Slots
      BY <2>1, SaidIsSlot DEF Triggered
    <3>2. CASE q = p
      <4>1. pc[q] = "insert"
        BY <1>1, <3>2
      <4>2. call[q].key = k \/ SevOf(q, SaidSlot(q, k)) # "NONE"
        BY <2>1, <4>1 DEF LedgerInv, Settled
      <4> QED BY <1>2, <1>3, <3>1, <3>2, <4>2 DEF SevOf
    <3>3. CASE q # p
      <4>1. pc'[q] = pc[q] /\ call'[q] = call[q]
        BY <1>1, <3>3 DEF WInv, TypeInv
      <4> QED BY <1>3, <2>1, <3>1, <4>1 DEF LedgerInv, Settled, SevOf
    <3> QED BY <3>2, <3>3
  <2> QED BY <1>1, <2>1 DEF Settled, SevOf, SaidSlot
<1>6. Swept'
  BY <1>1 DEF LedgerInv, Swept
<1> QED BY <1>4, <1>5, <1>6 DEF LedgerInv

LEMMA RecordLedger ==
  ASSUME NEW p \in Processes PROVE WInv /\ LedgerInv /\ Record(p) => LedgerInv'
<1> SUFFICES ASSUME WInv, LedgerInv, Record(p) PROVE LedgerInv'
  OBVIOUS
<1>1. /\ pc[p] = "sending" /\ pc' = [pc EXCEPT ![p] = "work"] /\ call' = [call EXCEPT ![p] = NoCall]
      /\ UNCHANGED <<clock, rows, feed, todo, inserted, closed>>
  BY DEF Record
<1>2. Told' /\ Swept'
  BY <1>1 DEF LedgerInv, Told, Swept
<1>3. Settled'
  BY <1>1 DEF WInv, TypeInv, CallsTyped, LedgerInv, Settled, SevOf, SaidSlot
<1> QED BY <1>2, <1>3 DEF LedgerInv

(* A transaction that is over has nothing to keep; the others lose nothing by its end. *)
LEMMA ReleasedLedger ==
  ASSUME WInv, LedgerInv, NEW p \in Processes, Released(p), UNCHANGED clock,
         \A s \in Slots : rows[s] # "NONE" => rows'[s] # "NONE"
  PROVE  LedgerInv'
<1>1. \A q \in Processes \ {p} : /\ pc'[q] = pc[q] /\ feed'[q] = feed[q] /\ todo'[q] = todo[q]
                                 /\ call'[q] = call[q] /\ inserted'[q] = inserted[q]
                                 /\ closed'[q] = closed[q]
  BY DEF Released, WInv, TypeInv, CallsTyped
<1>2. pc'[p] = "idle" /\ inserted'[p] = NoRows /\ closed'[p] = {}
  BY DEF Released, WInv, TypeInv
<1>3. Told'
  BY <1>1, <1>2 DEF LedgerInv, Told, NoRows
<1>4. Settled'
  <2>1. ASSUME NEW q \in Processes, pc'[q] \in {"work", "insert", "sending"},
               NEW k \in Triggered(feed'[q]) \ todo'[q]
        PROVE  (pc'[q] = "insert" /\ call'[q].key = k)
               \/ inserted'[q][<<k, feed'[q][k].ts>>] # "NONE" \/ rows'[<<k, feed'[q][k].ts>>] # "NONE"
    <3>1. q # p
      BY <1>2, <2>1
    <3>2. <<k, feed[q][k].ts>> \in Slots
      BY <1>1, <2>1, <3>1, SaidIsSlot DEF SaidSlot, Triggered
    <3> QED BY <1>1, <2>1, <3>1, <3>2 DEF LedgerInv, Settled, SevOf, SaidSlot
  <2> QED BY <2>1 DEF Settled, SevOf, SaidSlot
<1>5. Swept'
  BY <1>1, <1>2 DEF LedgerInv, Swept
<1> QED BY <1>3, <1>4, <1>5 DEF LedgerInv

LEMMA LedgerNext == WInv /\ LedgerInv /\ [Next]_vars => LedgerInv'
<1> SUFFICES ASSUME WInv, LedgerInv, [Next]_vars PROVE LedgerInv'
  OBVIOUS
<1>1. CASE Tick
  BY <1>1, TickLedger
<1>2. ASSUME NEW k \in Keys, NewSignal(k) PROVE LedgerInv'
  BY <1>2 DEF NewSignal, txVars, LedgerInv, Told, Settled, Swept, SevOf, SaidSlot
<1>3. ASSUME NEW p \in Processes, Begin(p) \/ Work(p) \/ PassFails(p) PROVE LedgerInv'
  <2>1. CASE Commit(p)
    <3>1. Released(p) /\ UNCHANGED clock /\ rows' = [s \in Slots |-> SevOf(p, s)]
      BY <2>1 DEF Commit
    <3>2. \A s \in Slots : rows[s] # "NONE" => rows'[s] # "NONE"
      BY <3>1 DEF SevOf
    <3> QED BY <3>1, <3>2, ReleasedLedger
  <2>2. CASE Victim(p) \/ PassFails(p)
    BY <2>2, ReleasedLedger DEF Victim, PassFails, RolledBack
  <2> QED BY <1>3, <2>1, <2>2, BeginLedger, SweepLedger, CheckLedger, InsertLedger, RecordLedger
          DEF Work
<1>4. CASE UNCHANGED vars
  BY <1>4 DEF vars, txVars, LedgerInv, Told, Settled, Swept, SevOf, SaidSlot
<1> QED BY <1>1, <1>2, <1>3, <1>4 DEF Next

-----------------------------------------------------------------------------
LEMMA InitLedger == Init => Ledger!Init
<1> SUFFICES ASSUME Init PROVE Ledger!Init
  OBVIOUS
<1>1. OnTable = [s \in Slots |-> "absent"]
  BY DEF Init, OnTable, StateOf, NoRows
<1>2. PushedSlots = {}
  BY DEF Init, PushedSlots
<1> QED BY <1>1, <1>2 DEF Init, Ledger!Init, Ledger!Slots, Slots

(* What a commit puts on record is a pass of the ledger. *)
LEMMA CommitIsPass ==
  ASSUME WInv, LedgerInv, NEW p \in Processes, Commit(p) PROVE Ledger!Next
<1> DEFINE said == [k \in Keys |-> IF feed[p][k].sev # "NONE" THEN feed[p][k].ts ELSE NoTime]
           gone == closed[p] \intersect active
<1>1. /\ pc[p] = "work" /\ todo[p] = {} /\ UNCHANGED clock
      /\ \A s \in Slots : rows'[s] = SevOf(p, s)
      /\ active' = (active \ closed[p]) \union {s \in Slots : inserted[p][s] # "NONE"}
      /\ log' = IF flight[p] = {} THEN log ELSE Append(log, flight[p])
  BY DEF Commit
<1>2. said \in [Keys -> Time \union {NoTime}]
  BY DEF WInv, TypeInv, Signals
<1>3. ASSUME NEW s \in Slots
      PROVE  /\ s[1] \in Keys /\ s[2] \in Time /\ s[2] # NoTime /\ s = <<s[1], s[2]>>
             /\ s[1] \in Triggered(feed[p]) => said[s[1]] = feed[p][s[1]].ts
             /\ s[1] \notin Triggered(feed[p]) => said[s[1]] = NoTime
  BY DEF Slots, Triggered, Time, NoTime
<1>4. ASSUME NEW s \in Slots
      PROVE  inserted[p][s] # "NONE" <=> rows[s] = "NONE" /\ said[s[1]] = s[2]
  <2>1. ASSUME inserted[p][s] # "NONE" PROVE rows[s] = "NONE" /\ said[s[1]] = s[2]
    BY <1>3, <2>1 DEF WInv, Excludes, LedgerInv, Told
  <2>2. ASSUME rows[s] = "NONE", said[s[1]] = s[2] PROVE inserted[p][s] # "NONE"
    <3>1. s[1] \in Triggered(feed[p]) /\ SaidSlot(p, s[1]) = s
      BY <1>3, <2>2 DEF SaidSlot
    <3> QED BY <1>1, <2>2, <3>1 DEF LedgerInv, Settled, SevOf
  <2> QED BY <2>1, <2>2
<1>5. Ledger!Opened(said) = {s \in Slots : inserted[p][s] # "NONE"}
  <2> HIDE DEF said
  <2> QED BY <1>4 DEF Ledger!Opened, Ledger!Slots, Slots, OnTable, StateOf
<1>6. gone \in SUBSET Ledger!Closable(said)
  <2>1. ASSUME NEW s \in gone
        PROVE  s \in Slots /\ rows[s] # "NONE" /\ s \in active
               /\ (s[2] < clock - ExpireAfter \/ said[s[1]] = NoTime)
    <3>1. s \in Slots /\ rows[s] # "NONE" /\ s \in active
      BY DEF WInv, TypeInv
    <3> QED BY <1>3, <3>1 DEF LedgerInv, Swept
  <2> HIDE DEF said, gone
  <2> QED BY <2>1 DEF Ledger!Closable, Ledger!Slots, Slots, OnTable, StateOf
<1>7. OnTable' = [s \in Slots |-> IF s \in Ledger!Opened(said) THEN "active"
                                  ELSE IF s \in gone THEN "closed" ELSE OnTable[s]]
  <2>1. ASSUME NEW s \in Slots
        PROVE  StateOf(s)' = IF inserted[p][s] # "NONE" THEN "active"
                             ELSE IF s \in gone THEN "closed" ELSE StateOf(s)
    <3>1. s \in active => rows[s] # "NONE"
      BY DEF WInv, TypeInv
    <3>2. rows'[s] = "NONE" <=> rows[s] = "NONE" /\ inserted[p][s] = "NONE"
      BY <1>1 DEF SevOf
    <3>3. s \in active' <=> (s \in active /\ s \notin closed[p]) \/ inserted[p][s] # "NONE"
      BY <1>1
    <3> QED BY <3>1, <3>2, <3>3 DEF StateOf
  <2> HIDE DEF said, gone
  <2> QED BY <1>5, <2>1 DEF OnTable
<1>8. PushedSlots \subseteq PushedSlots' /\ PushedSlots' \subseteq PushedSlots \union Ledger!Opened(said)
  <2>1. log \in Seq(SUBSET Pushes) /\ flight[p] \in SUBSET Pushes
    BY DEF WInv, TypeInv
  <2>2. /\ \A c \in 1..Len(log) : c \in 1..Len(log') /\ log'[c] = log[c]
        /\ \A c \in 1..Len(log') : (c \in 1..Len(log) /\ log'[c] = log[c]) \/ log'[c] = flight[p]
    BY <1>1, <2>1
  <2>3. ASSUME NEW s \in Slots, Pushed(flight[p], s) PROVE inserted[p][s] # "NONE"
    BY <1>3, <2>3 DEF Pushed, WInv, OnRecord
  <2> HIDE DEF said
  <2> QED BY <1>5, <2>2, <2>3 DEF PushedSlots
<1>9. Ledger!Pass(said, gone)
  <2> HIDE DEF said, gone
  <2> QED BY <1>1, <1>7, <1>8 DEF Ledger!Pass, Ledger!Slots, Slots
<1> HIDE DEF said, gone
<1> QED BY <1>2, <1>6, <1>9 DEF Ledger!Next

LEMMA StepKeepsLedger ==
  WInv /\ LedgerInv /\ [Next]_vars => [Ledger!Next]_(<<clock, OnTable, PushedSlots>>)
<1> SUFFICES ASSUME WInv, LedgerInv, [Next]_vars
             PROVE  Ledger!Next \/ UNCHANGED <<clock, OnTable, PushedSlots>>
  OBVIOUS
<1>1. CASE UNCHANGED <<rows, active, log>>
  <2>1. UNCHANGED <<OnTable, PushedSlots>>
    BY <1>1 DEF OnTable, StateOf, PushedSlots
  <2>2. clock' = clock \/ clock' = clock + 1
    BY DEF Next, Tick, NewSignal, Begin, Work, Sweep, Check, Insert, Record, Commit, Victim,
           PassFails, RolledBack, vars
  <2> QED BY <2>1, <2>2 DEF Ledger!Next, Ledger!Tick
<1>2. CASE \E p \in Processes : Commit(p)
  BY <1>2, CommitIsPass
<1>3. \/ UNCHANGED <<rows, active, log>>
      \/ \E p \in Processes : Commit(p)
  BY DEF Next, Tick, NewSignal, Begin, Work, Sweep, Check, Insert, Record, Victim,
         PassFails, RolledBack, vars
<1> QED BY <1>1, <1>2, <1>3

(* However many processes write alerts at once, and whatever becomes of their transactions
   and pushes, the tables change by whole passes, and a push on record is of a row that the
   pass on record with it has opened. *)
THEOREM LedgerHolds == Spec => LedgerKept
<1>1. Spec => [](WInv /\ LedgerInv)
  BY WritersInit, WritersNext, LedgerStart, LedgerNext, PTL DEF Spec
<1> QED BY <1>1, InitLedger, StepKeepsLedger, PTL DEF Spec, LedgerKept, Ledger!Spec, Ledger!vars
=============================================================================
