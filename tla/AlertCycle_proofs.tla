--------------------------- MODULE AlertCycle_proofs ---------------------------
(***************************************************************************)
(* Proofs about AlertCycle, for every set of keys, every window, every cap *)
(* and every bound of the exploration.                                     *)
(***************************************************************************)
EXTENDS AlertCycle, TLAPS, WellFoundedInduction, FiniteSetTheorems

-----------------------------------------------------------------------------
(* Helpers about find_recent_active_alert. *)

Lt == {pair \in Nat \X Nat : pair[1] < pair[2]}

LEMMA LtWellFounded == IsWellFoundedOn(Lt, Nat)
  <1>1. OpToRel(<, Nat) = Lt
    BY DEF OpToRel, Lt
  <1> QED BY <1>1, NatLessThanWellFounded

(* A set of ticks that is not empty has a newest one: the ages MaxClock - t
   are naturals, and < is well-founded on them. *)
LEMMA NewestExists ==
  ASSUME NEW S, S \subseteq Time, S # {}
  PROVE  \E t \in S : \A u \in S : u <= t
  <1> DEFINE Age == {n \in Nat : \E t \in S : n = MaxClock - t}
  <1>1. Age \subseteq Nat
    OBVIOUS
  <1>2. \A t \in S : MaxClock - t \in Age
    BY BoundAssumption DEF Time
  <1>3. Age # {}
    <2> HIDE DEF Age
    <2> QED BY <1>2
  <1>4. PICK x \in Age : \A y \in Age : <<y, x>> \notin Lt
    <2> HIDE DEF Age
    <2> QED BY <1>1, <1>3, LtWellFounded, WFMin
  <1>5. PICK t \in S : x = MaxClock - t
    BY <1>4
  <1>6. ASSUME NEW u \in S PROVE u <= t
    <2>1. MaxClock - u \in Age
      BY <1>2
    <2>2. ~ (MaxClock - u < x)
      BY <2>1, <1>1, <1>4 DEF Lt
    <2> QED BY <2>2, <1>5, BoundAssumption DEF Time
  <1> QED BY <1>6

(* The minute it finds, if it finds one, is that of a recent active row. *)
LEMMA FindsActive ==
  ASSUME NEW rows, NEW k, NEW m, NEW since
  PROVE  LET t == FindRecentActive(rows, k, m, since)
         IN /\ t \in Time \union {NoTime}
            /\ t # NoTime => t \in Time /\ t >= since /\ Active(rows, <<k, t, m>>)
  <1>1. RecentActive(rows, k, m, since) \subseteq Time
    BY DEF RecentActive
  <1>2. CASE RecentActive(rows, k, m, since) = {}
    BY <1>2 DEF FindRecentActive
  <1>3. CASE RecentActive(rows, k, m, since) # {}
    <2>1. FindRecentActive(rows, k, m, since) \in RecentActive(rows, k, m, since)
      BY <1>1, <1>3, NewestExists DEF FindRecentActive
    <2> QED BY <2>1, <1>1 DEF RecentActive
  <1> QED BY <1>2, <1>3

-----------------------------------------------------------------------------
(* What each operator of the model returns. *)

LEMMA SlotTyped ==
  ASSUME TypeOK, NEW k \in Keys
  PROVE  Slot(k) \in Slots
  BY DEF TypeOK, Slot, Slots, Signals

LEMMA InsertTyped ==
  ASSUME TypeOK, NEW k \in Keys,
         NEW status \in {"shadow", "suppressed", "pending"}
  PROVE  InsertAlert(k, status) \in [Slots -> Rows]
  <1>1. Parent(k) \in Time \union {NoTime}
    BY FindsActive DEF Parent
  <1>2. feed[k].sev \in Severities \union {"NONE"}
    BY DEF TypeOK, Signals
  <1>3. [sev |-> feed[k].sev, state |-> IF Parent(k) = NoTime THEN "open" ELSE "escalated",
         status |-> status, parent |-> Parent(k)] \in Rows
    BY <1>1, <1>2 DEF Rows
  <1> QED BY <1>3, SlotTyped DEF InsertAlert, TypeOK

LEMMA SweepTyped ==
  ASSUME NEW rows \in [Slots -> Rows], NEW bound, NEW quiet, NEW m
  PROVE  /\ ExpireStale(rows, bound) \in [Slots -> Rows]
         /\ ResolveInactive(rows, quiet, m) \in [Slots -> Rows]
  BY DEF ExpireStale, ResolveInactive, Rows

LEMMA ArmedTyped ==
  ASSUME TypeOK, NEW k \in Keys
  PROVE  Armed(k) \in [Keys -> Time \union {NoTime}]
  BY DEF Armed, TypeOK

LEMMA RecordTyped ==
  ASSUME TypeOK, NEW k \in Keys, NEW t \in Time
  PROVE  RecordCooldown(k, t) \in [Keys -> [last : Time \union {NoTime}, count : Nat]]
  BY DEF RecordCooldown, TypeOK

LEMMA PushTyped ==
  ASSUME TypeOK, sending # NoKey, NEW outcome \in Answers \union {"sent", "lost"}
  PROVE  Push(outcome) \in Pushes
  BY DEF Push, Pushes, TypeOK, Signals

LEMMA DecidedTyped ==
  ASSUME TypeOK, NEW keys \in SUBSET Keys, Decided(keys)
  PROVE  feed' \in [Keys -> Signals] /\ news' \in 0..MaxNews
  BY BoundAssumption DEF Decided, TypeOK

-----------------------------------------------------------------------------
(* Type correctness. *)

LEMMA InitTyped == Init => TypeOK
  BY KeysAssumption, BoundAssumption, SettingAssumption
     DEF Init, TypeOK, Time, AllModes, NoTime, Signals, Rows, NoRow, NoCooldown, Severities

LEMMA RollBackTyped ==
  ASSUME TypeOK, RollBack, faults > 0, faults' = faults - 1, clock' = clock,
         mode' \in AllModes, memory' \in [Keys -> Time \union {NoTime}],
         channel' \subseteq Pushes, owned' \subseteq channel', channel \subseteq channel'
  PROVE  TypeOK'
  BY BoundAssumption DEF TypeOK, RollBack, dbVars, Time

LEMMA CutTyped ==
  ASSUME TypeOK, NEW cut \in CutPushes
  PROVE  cut \subseteq Pushes
  BY PushTyped DEF CutPushes

LEMMA NextTyped == TypeOK /\ [Next]_vars => TypeOK'
  <1> SUFFICES ASSUME TypeOK, [Next]_vars PROVE TypeOK'
    OBVIOUS
  <1>1. CASE Tick
    BY <1>1, BoundAssumption DEF Tick, TypeOK, dbVars, txVars, history, Time
  <1>2. CASE ProcessLatestIndicatorAlerts
    <2>1. feed' \in [Keys -> Signals] /\ news' \in 0..MaxNews
      BY <1>2, DecidedTyped DEF ProcessLatestIndicatorAlerts, Keys
    <2>2. txAlerts' \in [Slots -> Rows]
      BY <1>2, SweepTyped DEF ProcessLatestIndicatorAlerts, TypeOK
    <2>3. todo' \subseteq Keys
      BY <1>2 DEF ProcessLatestIndicatorAlerts, Triggered, Keys
    <2>4. before' \in Int
      BY <1>2, WindowAssumption DEF ProcessLatestIndicatorAlerts, TypeOK, Time
    <2> QED BY <1>2, <2>1, <2>2, <2>3, <2>4
            DEF ProcessLatestIndicatorAlerts, TypeOK, dbVars, history
  <1>3. CASE ProcessLatestLiquidationConfirmations
    <2>1. feed' \in [Keys -> Signals] /\ news' \in 0..MaxNews
      BY <1>3, DecidedTyped DEF ProcessLatestLiquidationConfirmations, Keys
    <2>2. todo' \subseteq Keys
      BY <1>3 DEF ProcessLatestLiquidationConfirmations, Triggered, Keys
    <2> QED BY <1>3, <2>1, <2>2
            DEF ProcessLatestLiquidationConfirmations, TypeOK, dbVars, txVars, history
  <1>4. CASE Persist
    <2>1. PICK k \in Keys : \/ PersistShadow(k) \/ PersistCapped(k) \/ PersistCooled(k)
                            \/ PersistDuplicate(k) \/ PersistSend(k)
      BY <1>4 DEF Persist
    <2>2. NextDecision(k)
      BY <2>1 DEF PersistShadow, PersistCapped, PersistCooled, PersistDuplicate, PersistSend
    <2>3. txAlerts' \in [Slots -> Rows]
      BY <2>1, InsertTyped
         DEF PersistShadow, PersistCapped, PersistCooled, PersistDuplicate, PersistSend, TypeOK
    <2>4. memory' \in [Keys -> Time \union {NoTime}]
      BY <2>1, ArmedTyped
         DEF PersistShadow, PersistCapped, PersistCooled, PersistDuplicate, PersistSend, TypeOK
    <2>5. sending' \in Keys \union {NoKey} /\ now' \in Time
      BY <2>1
         DEF PersistShadow, PersistCapped, PersistCooled, PersistDuplicate, PersistSend, TypeOK
    <2> QED BY <2>2, <2>3, <2>4, <2>5 DEF NextDecision, TypeOK, dbVars, history
  <1>5. CASE DiscordAnswer
    <2>1. PICK outcome \in Answers :
            /\ txAlerts' = [txAlerts EXCEPT ![Slot(sending)].status = outcome]
            /\ channel' = channel \union {Push(outcome)}
            /\ owned' = owned \union {Push(outcome)}
            /\ flight' = flight \union {Push(outcome)}
      BY <1>5 DEF DiscordAnswer
    <2>2. sending \in Keys
      BY <1>5 DEF DiscordAnswer, TypeOK
    <2>3. txAlerts' \in [Slots -> Rows]
      <3>1. txAlerts \in [Slots -> Rows] /\ Slot(sending) \in Slots
        BY <2>2, SlotTyped DEF TypeOK
      <3>2. [txAlerts[Slot(sending)] EXCEPT !.status = outcome] \in Rows
        BY <3>1, SettingAssumption DEF Rows
      <3> QED BY <2>1, <3>1, <3>2
    <2>4. Push(outcome) \in Pushes
      BY <1>5, PushTyped DEF DiscordAnswer
    <2>5. txCooldowns' \in [Keys -> [last : Time \union {NoTime}, count : Nat]]
      BY <1>5, <2>2, RecordTyped DEF DiscordAnswer, TypeOK
    <2>6. now' \in Time
      BY <1>5, BoundAssumption DEF DiscordAnswer, Time
    <2>7. pc # "idle"
      BY <1>5 DEF DiscordAnswer, TypeOK
    <2> QED BY <1>5, <2>1, <2>3, <2>4, <2>5, <2>6, <2>7 DEF DiscordAnswer, TypeOK, dbVars
  <1>6. CASE Commit
    BY <1>6 DEF Commit, TypeOK, txVars
  <1>7. CASE PassFails
    <2>1. PICK cut \in CutPushes : channel' = channel \union cut /\ owned' = owned \union cut
      BY <1>7 DEF PassFails
    <2>2. channel' \subseteq Pushes /\ owned' \subseteq channel' /\ channel \subseteq channel'
      BY <2>1, CutTyped DEF TypeOK
    <2> QED BY <1>7, <2>2, RollBackTyped DEF PassFails, TypeOK
  <1>8. CASE CrashRestart
    <2>1. PICK cut \in CutPushes : channel' = channel \union cut
      BY <1>8 DEF CrashRestart
    <2>2. channel' \subseteq Pushes /\ owned' \subseteq channel' /\ channel \subseteq channel'
      BY <1>8, <2>1, CutTyped DEF CrashRestart, TypeOK
    <2>3. memory' \in [Keys -> Time \union {NoTime}] /\ mode' \in AllModes
      BY <1>8, SettingAssumption DEF CrashRestart
    <2> QED BY <1>8, <2>2, <2>3, RollBackTyped DEF CrashRestart, TypeOK
  <1>9. CASE UNCHANGED vars
    BY <1>9 DEF vars, TypeOK
  <1> QED BY <1>1, <1>2, <1>3, <1>4, <1>5, <1>6, <1>7, <1>8, <1>9 DEF Next, Work

(* Every variable keeps its type, and no transaction outlives its pass. *)
THEOREM TypeCorrect == Spec => []TypeOK
  BY InitTyped, NextTyped, PTL DEF Spec

-----------------------------------------------------------------------------
(***************************************************************************)
(* The inductive invariant of the pushes.  CooldownRespected speaks of the *)
(* moment of a push only; that it holds then rests on the dict and the     *)
(* table together remembering every earlier push at any moment:            *)
(*  - Remembered: the dict is not older than a push of this process, the   *)
(*    table not older than a push on record, in each view of the table;    *)
(*  - Past: nothing remembered lies in the future;                         *)
(*  - OnRecord: a push on record has its row, so its slot is taken;        *)
(*  - Sending: while a push is under way the dict is armed, every earlier  *)
(*    push is older, and the row is new to the committed table.            *)
(***************************************************************************)
PushSlot(p) == <<p.key, p.ts, "live">>

Remembered ==
  /\ \A p \in owned : p.at <= memory[p.key]
  /\ \A p \in durable : p.at <= cooldowns[p.key].last
  /\ \A p \in durable \union flight : p.at <= txCooldowns[p.key].last

Past ==
  /\ \A p \in channel : p.at <= clock
  /\ \A k \in Keys : /\ memory[k] <= clock
                     /\ cooldowns[k].last <= clock
                     /\ txCooldowns[k].last <= clock

OnRecord ==
  /\ \A p \in durable : alerts[PushSlot(p)].state # "absent"
  /\ \A p \in durable \union flight : txAlerts[PushSlot(p)].state # "absent"

Sending ==
  sending # NoKey =>
    /\ mode = "live" /\ now <= clock /\ memory[sending] = now
    /\ \A p \in channel : p.at <= now
    /\ alerts[Slot(sending)].state = "absent"
    /\ txAlerts[Slot(sending)].state \in {"open", "escalated"}

(* The transaction's view continues the committed table. *)
Continues ==
  \A s \in Slots :
    alerts[s].state # "absent" =>
      /\ txAlerts[s].sev = alerts[s].sev
      /\ txAlerts[s].status = alerts[s].status
      /\ txAlerts[s].parent = alerts[s].parent
      /\ \/ txAlerts[s].state = alerts[s].state
         \/ Active(alerts, s) /\ txAlerts[s].state \in {"resolved", "expired"}

(* A decision that waits, or is being pushed, was triggered. *)
Awake == \A k \in todo \union {sending} : k \in Keys => feed[k].sev # "NONE"

IInv == /\ TypeOK /\ Awake /\ Remembered /\ Past /\ OnRecord /\ Sending /\ Continues
        /\ CooldownRespected /\ NoRepeatPush

LEMMA InsertEffect ==
  ASSUME TypeOK, NEW k \in Keys, NEW status
  PROVE  /\ \A s \in Slots : txAlerts[s].state # "absent" \/ s # Slot(k)
              => InsertAlert(k, status)[s] = txAlerts[s]
         /\ ~Occupied(k) => InsertAlert(k, status)[Slot(k)] =
              [sev |-> feed[k].sev, state |-> IF Parent(k) = NoTime THEN "open" ELSE "escalated",
               status |-> status, parent |-> Parent(k)]
         /\ InsertAlert(k, status)[Slot(k)].state # "absent"
  BY SlotTyped DEF InsertAlert, Occupied, TypeOK

LEMMA WindowTyped ==
  ASSUME NEW k \in Keys, NEW sev \in Severities
  PROVE  CooldownWindow(k, sev) \in Nat
  BY WindowAssumption DEF CooldownWindow

(* Arming only ever moves the dict forward, and never past the present: where
   the table blocks and the dict does not, the table is the newer of the two. *)
LEMMA ArmedMovesForward ==
  ASSUME TypeOK, Past, NEW k \in Keys, feed[k].sev # "NONE"
  PROVE  /\ \A j \in Keys : memory[j] <= Armed(k)[j] /\ Armed(k)[j] <= clock
         /\ Allowed(k) => Armed(k)[k] = clock
  <1>1. CooldownWindow(k, feed[k].sev) \in Nat
    BY WindowTyped DEF TypeOK, Signals
  <1>2. /\ memory \in [Keys -> Time \union {NoTime}] /\ clock \in Time
        /\ txCooldowns[k].last \in Time \union {NoTime}
        /\ \A j \in Keys : memory[j] <= clock
        /\ txCooldowns[k].last <= clock
    BY DEF TypeOK, Past
  <1>3. /\ Armed(k)[k] \in {clock, memory[k], txCooldowns[k].last}
        /\ \A j \in Keys : j # k => Armed(k)[j] = memory[j]
        /\ Allowed(k) => Armed(k)[k] = clock
    BY <1>2 DEF Armed, Allowed
  <1>4. memory[k] <= Armed(k)[k]
    <2>1. CASE Armed(k)[k] = clock \/ Armed(k)[k] = memory[k]
      BY <2>1, <1>2, BoundAssumption DEF Time, NoTime
    <2>2. CASE ~ (Armed(k)[k] = clock \/ Armed(k)[k] = memory[k])
      <3>1. /\ Armed(k)[k] = txCooldowns[k].last
            /\ ~MemoryBlocks(k, clock) /\ DbBlocks(k, clock)
        BY <2>2, <1>2 DEF Armed
      <3> QED BY <3>1, <1>1, <1>2, BoundAssumption
              DEF MemoryBlocks, DbBlocks, Within, Time, NoTime
    <2> QED BY <2>1, <2>2
  <1> QED BY <1>2, <1>3, <1>4, BoundAssumption DEF Time, NoTime

LEMMA SweepContinues ==
  ASSUME TypeOK, NEW bound, NEW quiet, NEW m
  PROVE  LET rows == ResolveInactive(ExpireStale(alerts, bound), quiet, m)
         IN \A s \in Slots :
              /\ rows[s].sev = alerts[s].sev
              /\ rows[s].status = alerts[s].status
              /\ rows[s].parent = alerts[s].parent
              /\ \/ rows[s].state = alerts[s].state
                 \/ Active(alerts, s) /\ rows[s].state \in {"resolved", "expired"}
  BY DEF ResolveInactive, ExpireStale, Active, TypeOK, Rows

LEMMA PushSlotTyped ==
  ASSUME TypeOK, NEW p \in channel
  PROVE  PushSlot(p) \in Slots /\ p.key \in Keys /\ p.ts \in Time /\ p.at \in Time
  BY DEF TypeOK, PushSlot, Slots, Pushes, AllModes

LEMMA InitInductive == Init => IInv
  <1> SUFFICES ASSUME Init PROVE IInv
    OBVIOUS
  <1>1. TypeOK
    BY InitTyped
  <1> QED BY <1>1, KeysAssumption, BoundAssumption
          DEF IInv, Init, Awake, Remembered, Past, OnRecord, Sending, Continues,
              CooldownRespected, NoRepeatPush, NoRow, NoCooldown, NoTime, Time

LEMMA TickInductive == IInv /\ Tick => IInv'
  <1> SUFFICES ASSUME IInv, Tick PROVE IInv'
    OBVIOUS
  <1>1. TypeOK'
    BY NextTyped DEF IInv, Next
  <1>2. clock \in Int /\ clock' = clock + 1
    BY BoundAssumption DEF IInv, Tick, TypeOK, Time
  <1>3. Past'
    <2>1. \A p \in channel : p.at \in Int /\ p.at <= clock
      BY PushSlotTyped, BoundAssumption DEF IInv, Past, Time
    <2>2. \A k \in Keys : /\ memory[k] \in Int /\ memory[k] <= clock
                        /\ cooldowns[k].last \in Int /\ cooldowns[k].last <= clock
                        /\ txCooldowns[k].last \in Int /\ txCooldowns[k].last <= clock
      BY BoundAssumption DEF IInv, TypeOK, Past, Time, NoTime
    <2> QED BY <1>2, <2>1, <2>2 DEF Tick, Past, dbVars, txVars, history
  <1>4. Sending'
    <2>1. now \in Int
      BY BoundAssumption DEF IInv, TypeOK, Time
    <2> QED BY <1>2, <2>1 DEF IInv, Tick, Sending, Slot, dbVars, txVars, history
  <1> QED BY <1>1, <1>3, <1>4
          DEF IInv, Tick, Awake, Remembered, OnRecord, Continues, CooldownRespected,
              NoRepeatPush, PushesOf, IsEscalation, Slot, Active, dbVars, txVars, history

LEMMA IndicatorsInductive == IInv /\ ProcessLatestIndicatorAlerts => IInv'
  <1> SUFFICES ASSUME IInv, ProcessLatestIndicatorAlerts PROVE IInv'
    OBVIOUS
  <1>1. TypeOK'
    BY NextTyped DEF IInv, Next, Work
  <1>2. sending = NoKey /\ sending' = NoKey /\ flight = {} /\ txCooldowns = cooldowns
    BY DEF IInv, TypeOK, ProcessLatestIndicatorAlerts, history
  <1>3. Awake'
    BY <1>2, KeysAssumption DEF Awake, ProcessLatestIndicatorAlerts, Triggered
  <1>4. Remembered' /\ Past'
    BY DEF IInv, Remembered, Past, ProcessLatestIndicatorAlerts, dbVars, history
  <1>5. \A s \in Slots :
          /\ txAlerts'[s].sev = alerts[s].sev
          /\ txAlerts'[s].status = alerts[s].status
          /\ txAlerts'[s].parent = alerts[s].parent
          /\ \/ txAlerts'[s].state = alerts[s].state
             \/ Active(alerts, s) /\ txAlerts'[s].state \in {"resolved", "expired"}
    BY SweepContinues DEF IInv, ProcessLatestIndicatorAlerts
  <1>6. Continues'
    BY <1>5 DEF Continues, ProcessLatestIndicatorAlerts, Active, dbVars
  <1>7. OnRecord'
    <2>1. \A p \in durable : PushSlot(p) \in Slots
      BY PushSlotTyped DEF IInv, TypeOK
    <2>2. /\ alerts' = alerts /\ durable' = durable /\ flight' = {}
      BY <1>2 DEF ProcessLatestIndicatorAlerts, dbVars, history
    <2>3. \A p \in durable : alerts[PushSlot(p)].state # "absent"
      BY DEF IInv, OnRecord
    <2>4. \A p \in durable : txAlerts'[PushSlot(p)].state # "absent"
      BY <1>5, <2>1, <2>3
    <2> QED BY <2>2, <2>3, <2>4 DEF OnRecord, PushSlot
  <1> QED BY <1>1, <1>2, <1>3, <1>4, <1>6, <1>7
          DEF IInv, Sending, CooldownRespected, NoRepeatPush

LEMMA LiquidationsInductive == IInv /\ ProcessLatestLiquidationConfirmations => IInv'
  <1> SUFFICES ASSUME IInv, ProcessLatestLiquidationConfirmations PROVE IInv'
    OBVIOUS
  <1>1. TypeOK'
    BY NextTyped DEF IInv, Next, Work
  <1>2. sending = NoKey /\ sending' = NoKey
    BY DEF ProcessLatestLiquidationConfirmations
  <1>3. Awake'
    BY <1>2, KeysAssumption DEF Awake, ProcessLatestLiquidationConfirmations, Triggered
  <1> QED BY <1>1, <1>2, <1>3
          DEF IInv, ProcessLatestLiquidationConfirmations, Remembered, Past, OnRecord, Continues,
              Sending, CooldownRespected, NoRepeatPush, PushSlot, Active, dbVars, txVars, history

(* What every decision does to the rows: at most its own, free slot is filled. *)
LEMMA StoredRow ==
  ASSUME IInv, NEW k \in Keys, NextDecision(k), NEW status,
         txAlerts' = InsertAlert(k, status) \/ txAlerts' = txAlerts
  PROVE  /\ \A s \in Slots : txAlerts[s].state # "absent" => txAlerts'[s] = txAlerts[s]
         /\ OnRecord' /\ Continues'
  <1>0. \A s \in Slots : txAlerts[s].state # "absent" => InsertAlert(k, status)[s] = txAlerts[s]
    <2>1. TypeOK
      BY DEF IInv
    <2> QED BY <2>1, InsertEffect
  <1>1. \A s \in Slots : txAlerts[s].state # "absent" => txAlerts'[s] = txAlerts[s]
    BY <1>0
  <1>2. \A p \in durable \union flight : PushSlot(p) \in Slots
    BY PushSlotTyped DEF IInv, TypeOK
  <1>3. OnRecord'
    BY <1>1, <1>2 DEF IInv, OnRecord, PushSlot, NextDecision, dbVars, history
  <1>4. \A s \in Slots : alerts[s].state # "absent" => txAlerts[s].state # "absent"
    BY DEF IInv, Continues, Active
  <1>5. Continues'
    BY <1>1, <1>4 DEF IInv, Continues, Active, NextDecision, dbVars
  <1> QED BY <1>1, <1>3, <1>5

LEMMA StillAwake ==
  ASSUME IInv, NEW k \in Keys, NextDecision(k), sending' \in {NoKey, k}
  PROVE  Awake' /\ feed[k].sev # "NONE"
  BY KeysAssumption DEF IInv, Awake, NextDecision

LEMMA StillRemembered ==
  ASSUME IInv, NEW k \in Keys, NextDecision(k), memory' = memory \/ memory' = Armed(k)
  PROVE  Remembered' /\ Past'
  <1>1. \A j \in Keys : memory[j] <= memory'[j] /\ memory'[j] <= clock
    <2>1. CASE memory' = Armed(k)
      BY <2>1, ArmedMovesForward DEF IInv, Awake, NextDecision
    <2>2. CASE memory' = memory
      BY <2>2, BoundAssumption DEF IInv, Past, TypeOK, Time, NoTime
    <2> QED BY <2>1, <2>2
  <1>2. \A p \in channel : p.key \in Keys /\ p.at \in Int
    BY PushSlotTyped, BoundAssumption DEF IInv, Time
  <1>3. \A j \in Keys : memory[j] \in Int /\ memory'[j] \in Int
    BY NextTyped, BoundAssumption, ArmedTyped DEF IInv, TypeOK, Time, NoTime
  <1>4. \A p \in owned : p.at <= memory'[p.key]
    BY <1>1, <1>2, <1>3 DEF IInv, Remembered, TypeOK
  <1> QED BY <1>1, <1>4 DEF IInv, Remembered, Past, NextDecision, dbVars, history

LEMMA PersistInductive == IInv /\ Persist => IInv'
  <1> SUFFICES ASSUME IInv, NEW k \in Keys,
                      \/ PersistShadow(k) \/ PersistCapped(k) \/ PersistCooled(k)
                      \/ PersistDuplicate(k) \/ PersistSend(k)
               PROVE  IInv'
    BY DEF Persist
  <1>1. NextDecision(k) /\ TypeOK /\ sending = NoKey
    BY DEF IInv, PersistShadow, PersistCapped, PersistCooled, PersistDuplicate, PersistSend,
           NextDecision
  <1>2. TypeOK'
    BY <1>1, NextTyped DEF Next, Work, Persist
  <1>3. CASE PersistShadow(k) \/ PersistCapped(k) \/ PersistCooled(k) \/ PersistDuplicate(k)
    <2>1. sending' = NoKey
      BY <1>1, <1>3 DEF PersistShadow, PersistCapped, PersistCooled, PersistDuplicate
    <2>2. Awake' /\ Remembered' /\ Past'
      BY <1>1, <1>3, <2>1, StillAwake, StillRemembered
         DEF PersistShadow, PersistCapped, PersistCooled, PersistDuplicate
    <2>3. OnRecord' /\ Continues'
      BY <1>1, <1>3, StoredRow DEF PersistShadow, PersistCapped, PersistCooled, PersistDuplicate
    <2> QED BY <1>2, <2>1, <2>2, <2>3 DEF IInv, Sending, CooldownRespected, NoRepeatPush
  <1>4. CASE PersistSend(k)
    <2>1. /\ sending' = k /\ now' = clock /\ mode = "live" /\ memory' = Armed(k)
          /\ txAlerts' = InsertAlert(k, "pending") /\ ~Occupied(k) /\ Allowed(k)
          /\ UNCHANGED <<clock, mode, feed, alerts, channel, owned, flight, durable>>
      BY <1>4 DEF PersistSend, NextDecision, dbVars, history
    <2>2. Awake' /\ Remembered' /\ Past' /\ feed[k].sev # "NONE"
      BY <1>1, <2>1, StillAwake, StillRemembered
    <2>3. /\ \A s \in Slots : txAlerts[s].state # "absent" => txAlerts'[s] = txAlerts[s]
          /\ OnRecord' /\ Continues'
      BY <1>1, <2>1, StoredRow
    <2>4. Slot(k) \in Slots /\ Slot(sending)' = Slot(k) /\ Slot(k) = <<k, feed[k].ts, "live">>
      BY <1>1, <2>1, SlotTyped DEF Slot
    <2>5. txAlerts'[Slot(k)] =
            [sev |-> feed[k].sev, state |-> IF Parent(k) = NoTime THEN "open" ELSE "escalated",
             status |-> "pending", parent |-> Parent(k)]
      BY <1>1, <2>1, InsertEffect
    <2>6. Sending'
      <3>1. alerts[Slot(k)].state = "absent"
        BY <2>1, <2>4 DEF IInv, Continues, Occupied, Active
      <3>2. memory'[k] = now' /\ now' <= clock'
        BY <1>1, <2>1, <2>2, ArmedMovesForward, BoundAssumption DEF IInv, TypeOK, Time
      <3>3. \A p \in channel : p.at <= now'
        BY <2>1 DEF IInv, Past
      <3> QED BY <2>1, <2>4, <2>5, <3>1, <3>2, <3>3 DEF Sending
    <2>7. IsEscalation(txAlerts, Slot(sending))' <=> Escalates(k)
      <3>1. Parent(k) \in Time \union {NoTime}
            /\ (Parent(k) # NoTime => Active(txAlerts, <<k, Parent(k), mode>>))
        BY FindsActive DEF Parent
      <3>2. ASSUME Parent(k) # NoTime
            PROVE  txAlerts'[<<k, Parent(k), mode>>] = txAlerts[<<k, Parent(k), mode>>]
        <4>1. <<k, Parent(k), mode>> \in Slots
          BY <1>1, <3>1, <3>2 DEF Slots, TypeOK
        <4>2. txAlerts[<<k, Parent(k), mode>>].state # "absent"
          BY <3>1, <3>2 DEF Active
        <4> QED BY <2>3, <4>1, <4>2
      <3>3. Slot(sending)' = <<k, feed[k].ts, mode>>
        BY <2>1, <2>4
      <3> QED BY <2>4, <2>5, <3>2, <3>3 DEF IsEscalation, Escalates
    <2>8. CooldownRespected'
      <3> SUFFICES ASSUME ~Escalates(k), NEW p \in owned \union durable, p.key = k
                   PROVE  clock - p.at >= CooldownWindow(k, feed[k].sev)
        BY <2>1, <2>7 DEF CooldownRespected, PushesOf
      <3>1. ~MemoryBlocks(k, clock) /\ ~DbBlocks(k, clock)
        BY <2>1 DEF Allowed
      <3>2. CooldownWindow(k, feed[k].sev) \in Nat
        BY <1>1, <2>2, WindowTyped DEF TypeOK, Signals
      <3>3. p.at \in Time
        BY <1>1, PushSlotTyped DEF TypeOK
      <3>4. clock \in Time /\ memory[k] \in Time \union {NoTime}
            /\ txCooldowns[k].last \in Time \union {NoTime}
        BY <1>1 DEF TypeOK
      <3>5. p.at <= memory[k] \/ p.at <= txCooldowns[k].last
        BY DEF IInv, Remembered
      <3> QED BY <3>1, <3>2, <3>3, <3>4, <3>5, BoundAssumption
              DEF MemoryBlocks, DbBlocks, Within, Time, NoTime
    <2>9. NoRepeatPush'
      <3>1. ASSUME NEW p \in durable \union flight, p.key = k, p.ts = feed[k].ts PROVE FALSE
        BY <2>1, <2>4, <3>1 DEF IInv, OnRecord, PushSlot, Occupied
      <3> QED BY <2>1, <3>1 DEF NoRepeatPush, PushesOf
    <2> QED BY <1>2, <2>2, <2>3, <2>6, <2>8, <2>9 DEF IInv
  <1> QED BY <1>3, <1>4

LEMMA AnswerInductive == IInv /\ DiscordAnswer => IInv'
  <1> SUFFICES ASSUME IInv, DiscordAnswer PROVE IInv'
    OBVIOUS
  <1>1. PICK outcome \in Answers :
          /\ txAlerts' = [txAlerts EXCEPT ![Slot(sending)].status = outcome]
          /\ channel' = channel \union {Push(outcome)}
          /\ owned' = owned \union {Push(outcome)}
          /\ flight' = flight \union {Push(outcome)}
    BY DEF DiscordAnswer
  <1>2. TypeOK /\ TypeOK' /\ sending \in Keys /\ sending # NoKey /\ sending' = NoKey
    BY NextTyped DEF IInv, TypeOK, Next, Work, DiscordAnswer
  <1>3. /\ txCooldowns' = RecordCooldown(sending, now)
        /\ UNCHANGED <<clock, mode, feed, alerts, cooldowns, memory, todo, durable>>
    BY DEF DiscordAnswer, dbVars
  <1>4. /\ mode = "live" /\ now <= clock /\ memory[sending] = now
        /\ \A p \in channel : p.at <= now
        /\ alerts[Slot(sending)].state = "absent"
        /\ txAlerts[Slot(sending)].state \in {"open", "escalated"}
    BY <1>2 DEF IInv, Sending
  <1>5. Slot(sending) \in Slots
    BY <1>2, SlotTyped
  <1>6. /\ Push(outcome).key = sending /\ Push(outcome).at = now
        /\ PushSlot(Push(outcome)) = Slot(sending)
    BY <1>4 DEF Push, PushSlot, Slot
  <1>7. /\ txCooldowns'[sending].last = now
        /\ \A k \in Keys : k # sending => txCooldowns'[k] = txCooldowns[k]
    BY <1>2, <1>3 DEF RecordCooldown, TypeOK
  <1>8. now \in Int /\ clock \in Int
    BY <1>2, BoundAssumption DEF TypeOK, Time
  <1>9. Remembered'
    <2>1. \A p \in durable \union flight' : p.at <= txCooldowns'[p.key].last
      <3>1. \A p \in durable \union flight : p \in channel /\ p.key \in Keys
        BY <1>2, PushSlotTyped DEF TypeOK
      <3>2. \A p \in durable \union flight : p.at <= txCooldowns'[p.key].last
        BY <1>4, <1>7, <3>1 DEF IInv, Remembered
      <3> QED BY <1>1, <1>6, <1>7, <1>8, <3>2
    <2>2. \A p \in owned' : p.at <= memory'[p.key]
      BY <1>1, <1>3, <1>4, <1>6, <1>8 DEF IInv, Remembered
    <2> QED BY <1>3, <2>1, <2>2 DEF IInv, Remembered
  <1>10. Past'
    <2>1. \A k \in Keys : txCooldowns'[k].last <= clock
      BY <1>4, <1>7 DEF IInv, Past
    <2>2. \A p \in channel' : p.at <= clock
      BY <1>1, <1>4, <1>6 DEF IInv, Past
    <2> QED BY <1>3, <2>1, <2>2 DEF IInv, Past
  <1>11. \A s \in Slots : /\ txAlerts'[s].state = txAlerts[s].state
                          /\ s # Slot(sending) => txAlerts'[s] = txAlerts[s]
    BY <1>1, <1>2, <1>5 DEF TypeOK, Rows
  <1>12. OnRecord'
    <2>1. \A p \in durable \union flight : PushSlot(p) \in Slots
      BY <1>2, PushSlotTyped DEF TypeOK
    <2>2. \A p \in durable \union flight : txAlerts'[PushSlot(p)].state # "absent"
      BY <1>11, <2>1 DEF IInv, OnRecord
    <2>3. txAlerts'[PushSlot(Push(outcome))].state # "absent"
      BY <1>4, <1>5, <1>6, <1>11
    <2> QED BY <1>1, <1>3, <2>2, <2>3 DEF IInv, OnRecord, PushSlot
  <1>13. Continues'
    BY <1>3, <1>4, <1>11 DEF IInv, Continues, Active
  <1>14. Awake'
    BY <1>2, <1>3, KeysAssumption DEF IInv, Awake
  <1> QED BY <1>2, <1>9, <1>10, <1>12, <1>13, <1>14
          DEF IInv, Sending, CooldownRespected, NoRepeatPush

LEMMA CommitInductive == IInv /\ Commit => IInv'
  <1> SUFFICES ASSUME IInv, Commit PROVE IInv'
    OBVIOUS
  <1>1. TypeOK'
    BY NextTyped DEF IInv, Next, Work
  <1> QED BY <1>1
          DEF IInv, Commit, Awake, Remembered, Past, OnRecord, Sending, Continues,
              CooldownRespected, NoRepeatPush, PushSlot, Active, txVars

(* A pass that ends without its writes leaves the committed tables, which are
   then the only view there is. *)
LEMMA RollBackKeeps ==
  ASSUME IInv, RollBack, clock' = clock, TypeOK',
         memory' \in [Keys -> Time \union {NoTime}],
         \A k \in Keys : memory'[k] <= clock,
         \A p \in owned' : p.at <= memory'[p.key],
         \A p \in channel' : p.at <= clock
  PROVE  IInv'
  BY KeysAssumption
     DEF IInv, RollBack, Awake, Remembered, Past, OnRecord, Sending, Continues,
         CooldownRespected, NoRepeatPush, PushSlot, Active, dbVars

(* The push that is cut was attempted at now, when the dict was armed. *)
LEMMA CutPushIsRemembered ==
  ASSUME IInv, NEW cut \in CutPushes, NEW p \in cut
  PROVE  p.at <= clock /\ p.at <= memory[p.key]
  <1>1. sending # NoKey /\ p.key = sending /\ p.at = now
    BY DEF CutPushes, Push
  <1>2. now <= clock /\ memory[sending] = now /\ now \in Int
    BY <1>1, BoundAssumption DEF IInv, Sending, TypeOK, Time
  <1> QED BY <1>1, <1>2

LEMMA FailureInductive == IInv /\ PassFails => IInv'
  <1> SUFFICES ASSUME IInv, PassFails PROVE IInv'
    OBVIOUS
  <1>1. TypeOK'
    BY NextTyped DEF IInv, Next
  <1>2. PICK cut \in CutPushes : channel' = channel \union cut /\ owned' = owned \union cut
    BY DEF PassFails
  <1>3. /\ \A p \in owned' : p.at <= memory'[p.key]
        /\ \A p \in channel' : p.at <= clock
    BY <1>2, CutPushIsRemembered DEF IInv, Remembered, Past, PassFails
  <1>4. \A k \in Keys : memory'[k] <= clock
    BY DEF IInv, Past, PassFails
  <1> QED BY <1>1, <1>3, <1>4, RollBackKeeps DEF PassFails, IInv, TypeOK

LEMMA CrashInductive == IInv /\ CrashRestart => IInv'
  <1> SUFFICES ASSUME IInv, CrashRestart PROVE IInv'
    OBVIOUS
  <1>1. TypeOK'
    BY NextTyped DEF IInv, Next
  <1>2. PICK cut \in CutPushes : channel' = channel \union cut
    BY DEF CrashRestart
  <1>3. \A p \in channel' : p.at <= clock
    BY <1>2, CutPushIsRemembered DEF IInv, Past
  <1>4. \A k \in Keys : memory'[k] <= clock
    BY BoundAssumption DEF IInv, TypeOK, CrashRestart, Time, NoTime
  <1>5. owned' = {}
    BY DEF CrashRestart
  <1> QED BY <1>1, <1>3, <1>4, <1>5, RollBackKeeps DEF CrashRestart, TypeOK

LEMMA StutterInductive == IInv /\ UNCHANGED vars => IInv'
  <1> SUFFICES ASSUME IInv, UNCHANGED vars PROVE IInv'
    OBVIOUS
  <1>1. TypeOK'
    BY NextTyped DEF IInv
  <1> QED BY <1>1
          DEF IInv, vars, Awake, Remembered, Past, OnRecord, Sending, Continues, Slot,
              CooldownRespected, NoRepeatPush, PushesOf, IsEscalation, PushSlot, Active

LEMMA NextInductive == IInv /\ [Next]_vars => IInv'
  BY TickInductive, IndicatorsInductive, LiquidationsInductive, PersistInductive,
     AnswerInductive, CommitInductive, FailureInductive, CrashInductive, StutterInductive
     DEF Next, Work

THEOREM Inductive == Spec => []IInv
  BY InitInductive, NextInductive, PTL DEF Spec

(* While a push that no escalation justifies is under way, every push of its key
   that the process attempted or a committed pass recorded is a window old. *)
THEOREM CooldownHolds == Spec => []CooldownRespected
  <1>1. IInv => CooldownRespected
    BY DEF IInv
  <1> QED BY <1>1, Inductive, PTL

(* A source minute whose push is on record is never pushed again. *)
THEOREM PushedOnce == Spec => []NoRepeatPush
  <1>1. IInv => NoRepeatPush
    BY DEF IInv
  <1> QED BY <1>1, Inductive, PTL

(* A committed row is never rewritten, removed or reopened: only Commit writes
   the table, and the transaction's view continues it. *)
LEMMA StepKeepsRows ==
  ASSUME IInv, [Next]_vars, NEW s \in Slots, alerts[s].state # "absent"
  PROVE  /\ alerts'[s].sev = alerts[s].sev
         /\ alerts'[s].status = alerts[s].status
         /\ alerts'[s].parent = alerts[s].parent
         /\ \/ alerts'[s].state = alerts[s].state
            \/ Active(alerts, s) /\ alerts'[s].state \in {"resolved", "expired"}
  <1>1. CASE Commit
    BY <1>1 DEF IInv, Continues, Commit
  <1>2. CASE ~Commit
    <2>1. alerts' = alerts
      BY <1>2 DEF Next, Work, Tick, ProcessLatestIndicatorAlerts, Persist, NextDecision,
                  ProcessLatestLiquidationConfirmations, PersistShadow, PersistCapped,
                  PersistCooled, PersistDuplicate, PersistSend, DiscordAnswer, PassFails,
                  CrashRestart, RollBack, dbVars, vars
    <2> QED BY <2>1
  <1> QED BY <1>1, <1>2

THEOREM RowsStayFinal == Spec => RowsAreFinal
  <1>1. IInv /\ [Next]_vars =>
          [\A s \in Slots :
             alerts[s].state # "absent" =>
               /\ alerts'[s].sev = alerts[s].sev
               /\ alerts'[s].status = alerts[s].status
               /\ alerts'[s].parent = alerts[s].parent
               /\ \/ alerts'[s].state = alerts[s].state
                  \/ Active(alerts, s) /\ alerts'[s].state \in {"resolved", "expired"}]_vars
    BY StepKeepsRows
  <1> QED BY <1>1, Inductive, PTL DEF Spec, RowsAreFinal

-----------------------------------------------------------------------------
(***************************************************************************)
(* What the rows say of the pushes.  StatusMatchesPush speaks of the       *)
(* committed table only; Told is the same relation between a view of the   *)
(* table and the pushes it knows of, and holds of the transaction's view   *)
(* too, where the one row "pending" is that of the push under way.         *)
(***************************************************************************)
Final == {"sent", "failed", "rate_limited"}

Told(rows, pushes) ==
  /\ \A p \in pushes : p.outcome \in Final /\ rows[PushSlot(p)].status = p.outcome
  /\ \A p, q \in pushes : PushSlot(p) = PushSlot(q) => p = q
  /\ \A s \in Slots : rows[s].status \in Final => \E p \in pushes : PushSlot(p) = s

Statuses ==
  /\ Told(alerts, durable)
  /\ Told(txAlerts, durable \union flight)
  /\ \A s \in Slots : alerts[s].status # "pending"
  /\ \A s \in Slots : txAlerts[s].status = "pending" => sending # NoKey /\ s = Slot(sending)

LEMMA InitStatuses == Init => Statuses
  BY DEF Init, Statuses, Told, NoRow, Final

(* A view that changes no status, of the same pushes, tells the same. *)
LEMMA SameStatuses ==
  ASSUME NEW rows, NEW new, NEW pushes, Told(rows, pushes),
         \A p \in pushes : PushSlot(p) \in Slots,
         \A s \in Slots : new[s].status = rows[s].status
  PROVE  Told(new, pushes)
  BY DEF Told

LEMMA IndicatorsStatuses ==
  ASSUME IInv, Statuses, ProcessLatestIndicatorAlerts
  PROVE  Statuses'
  <1>1. /\ sending' = NoKey /\ durable' = durable /\ flight' = {} /\ alerts' = alerts
    BY DEF IInv, TypeOK, ProcessLatestIndicatorAlerts, history, dbVars
  <1>2. \A s \in Slots : txAlerts'[s].status = alerts[s].status
    BY SweepContinues DEF IInv, ProcessLatestIndicatorAlerts
  <1>3. \A p \in durable : PushSlot(p) \in Slots
    BY PushSlotTyped DEF IInv, TypeOK
  <1>4. Told(alerts, durable) /\ Told(txAlerts', durable)
    BY <1>2, <1>3, SameStatuses DEF Statuses
  <1>5. \A s \in Slots : txAlerts'[s].status # "pending"
    BY <1>2 DEF Statuses
  <1>6. durable \union {} = durable
    OBVIOUS
  <1> QED BY <1>1, <1>4, <1>5, <1>6 DEF Statuses, Told, PushSlot

LEMMA PersistStatuses ==
  ASSUME IInv, Statuses, Persist
  PROVE  Statuses'
  <1>1. PICK k \in Keys : \/ PersistShadow(k) \/ PersistCapped(k) \/ PersistCooled(k)
                          \/ PersistDuplicate(k) \/ PersistSend(k)
    BY DEF Persist
  <1>2. /\ NextDecision(k) /\ TypeOK /\ sending = NoKey
        /\ UNCHANGED <<alerts, durable, flight, feed, mode>>
    BY <1>1 DEF IInv, PersistShadow, PersistCapped, PersistCooled, PersistDuplicate,
                PersistSend, NextDecision, dbVars, history
  <1>3. PICK status \in {"shadow", "suppressed", "pending"} :
          /\ txAlerts' = InsertAlert(k, status) \/ txAlerts' = txAlerts
          /\ status = "pending" => sending' = k /\ ~Occupied(k)
    BY <1>1 DEF PersistShadow, PersistCapped, PersistCooled, PersistDuplicate, PersistSend
  <1>4. \A s \in Slots : txAlerts[s].state # "absent" => txAlerts'[s] = txAlerts[s]
    BY <1>2, <1>3, StoredRow
  <1>5. \A s \in Slots : txAlerts'[s] = txAlerts[s]
                         \/ (s = Slot(k) /\ txAlerts'[s].status = status)
    <2>1. CASE Occupied(k) \/ txAlerts' = txAlerts
      BY <1>3, <2>1 DEF InsertAlert
    <2>2. CASE ~Occupied(k) /\ txAlerts' = InsertAlert(k, status)
      <3>1. txAlerts'[Slot(k)] =
              [sev |-> feed[k].sev, state |-> IF Parent(k) = NoTime THEN "open" ELSE "escalated",
               status |-> status, parent |-> Parent(k)]
        BY <1>2, <2>2, InsertEffect
      <3>2. \A s \in Slots : s # Slot(k) => txAlerts'[s] = txAlerts[s]
        BY <1>2, <2>2, InsertEffect
      <3> QED BY <3>1, <3>2
    <2> QED BY <1>3, <2>1, <2>2
  <1>6. \A p \in durable \union flight :
          PushSlot(p) \in Slots /\ txAlerts[PushSlot(p)].state # "absent"
    BY <1>2, PushSlotTyped DEF IInv, OnRecord, TypeOK
  <1>7. Told(txAlerts', durable \union flight)
    BY <1>4, <1>5, <1>6 DEF Statuses, Told, Final
  <1>8. \A s \in Slots : txAlerts'[s].status = "pending" => sending' # NoKey /\ s = Slot(sending)'
    <2>1. \A s \in Slots : txAlerts[s].status # "pending"
      BY <1>2 DEF Statuses
    <2>2. Slot(k)' = Slot(k)
      BY <1>2 DEF Slot
    <2>3. status = "pending" => Slot(sending)' = Slot(k)
      BY <1>2, <1>3 DEF Slot
    <2> QED BY <1>3, <1>5, <2>1, <2>3, KeysAssumption
  <1> QED BY <1>2, <1>7, <1>8 DEF Statuses, Told, PushSlot

LEMMA AnswerStatuses ==
  ASSUME IInv, Statuses, DiscordAnswer
  PROVE  Statuses'
  <1>1. PICK outcome \in Answers :
          /\ txAlerts' = [txAlerts EXCEPT ![Slot(sending)].status = outcome]
          /\ flight' = flight \union {Push(outcome)}
    BY DEF DiscordAnswer
  <1>2. /\ TypeOK /\ sending \in Keys /\ sending # NoKey /\ sending' = NoKey
        /\ UNCHANGED <<alerts, durable>>
    BY DEF IInv, TypeOK, DiscordAnswer, dbVars
  <1>3. Slot(sending) \in Slots /\ mode = "live"
    BY <1>2, SlotTyped DEF IInv, Sending
  <1>4. /\ txAlerts'[Slot(sending)].status = outcome
        /\ \A s \in Slots : s # Slot(sending) => txAlerts'[s] = txAlerts[s]
    BY <1>1, <1>2, <1>3 DEF TypeOK, Rows
  <1>5. PushSlot(Push(outcome)) = Slot(sending) /\ Push(outcome).outcome = outcome
    BY <1>3 DEF Push, PushSlot, Slot
  <1>6. outcome \in Final
    BY SettingAssumption DEF Final
  <1>7. \A p \in durable \union flight : PushSlot(p) \in Slots /\ PushSlot(p) # Slot(sending)
    <2>1. \A p \in durable \union flight : PushSlot(p) \in Slots
      BY <1>2, PushSlotTyped DEF TypeOK
    <2>2. \A p \in durable \union flight : p.key = sending => p.ts # feed[sending].ts
      BY <1>2 DEF IInv, NoRepeatPush, PushesOf
    <2> QED BY <2>1, <2>2 DEF PushSlot, Slot
  <1>8. Told(txAlerts', durable \union flight')
    <2>1. durable \union flight' = (durable \union flight) \union {Push(outcome)}
      BY <1>1
    <2>2. \A p \in durable \union flight' :
            p.outcome \in Final /\ txAlerts'[PushSlot(p)].status = p.outcome
      BY <1>4, <1>5, <1>6, <1>7, <2>1 DEF Statuses, Told
    <2>3. \A p, q \in durable \union flight' : PushSlot(p) = PushSlot(q) => p = q
      BY <1>5, <1>7, <2>1 DEF Statuses, Told
    <2>4. \A s \in Slots : txAlerts'[s].status \in Final =>
            \E p \in durable \union flight' : PushSlot(p) = s
      BY <1>4, <1>5, <2>1 DEF Statuses, Told
    <2> QED BY <2>2, <2>3, <2>4 DEF Told
  <1>9. \A s \in Slots : txAlerts'[s].status # "pending"
    BY <1>4, <1>6 DEF Statuses, Final
  <1> QED BY <1>2, <1>8, <1>9 DEF Statuses, Told, PushSlot

LEMMA NextStatuses == IInv /\ Statuses /\ [Next]_vars => Statuses'
  <1> SUFFICES ASSUME IInv, Statuses, [Next]_vars PROVE Statuses'
    OBVIOUS
  <1>1. CASE Tick
    BY <1>1 DEF Tick, Statuses, Told, PushSlot, Slot, dbVars, txVars, history
  <1>2. CASE ProcessLatestIndicatorAlerts
    BY <1>2, IndicatorsStatuses
  <1>3. CASE ProcessLatestLiquidationConfirmations
    BY <1>3 DEF ProcessLatestLiquidationConfirmations, Statuses, Told, PushSlot, Slot,
                dbVars, txVars, history
  <1>4. CASE Persist
    BY <1>4, PersistStatuses
  <1>5. CASE DiscordAnswer
    BY <1>5, AnswerStatuses
  <1>6. CASE Commit
    <2>1. /\ durable' = durable \union flight /\ durable' \union flight' = durable'
          /\ alerts' = txAlerts /\ txAlerts' = txAlerts /\ sending = NoKey
      BY <1>6 DEF Commit, txVars
    <2> QED BY <2>1 DEF Statuses, Told, PushSlot
  <1>7. CASE PassFails \/ CrashRestart
    <2>1. /\ durable' \union flight' = durable /\ durable' = durable
          /\ alerts' = alerts /\ txAlerts' = alerts
      BY <1>7 DEF PassFails, CrashRestart, RollBack, dbVars
    <2> QED BY <2>1 DEF Statuses, Told, PushSlot
  <1>8. CASE UNCHANGED vars
    BY <1>8 DEF vars, Statuses, Told, PushSlot, Slot
  <1> QED BY <1>1, <1>2, <1>3, <1>4, <1>5, <1>6, <1>7, <1>8 DEF Next, Work

(* A committed row tells what became of its push, and of nothing else. *)
THEOREM StatusIsTrue == Spec => []StatusMatchesPush
  <1>1. Spec => []Statuses
    BY InitStatuses, NextStatuses, Inductive, PTL DEF Spec
  <1>2. ASSUME IInv, Statuses PROVE StatusMatchesPush
    <2> SUFFICES ASSUME NEW k \in Keys, NEW t \in Time
                 PROVE  LET row == alerts[<<k, t, "live">>]
                            of  == {p \in PushesOf(durable, k) : p.ts = t}
                        IN /\ {p.outcome : p \in of} = {row.status} \intersect Final
                           /\ \A p, q \in of : p = q
                           /\ row.status # "pending"
      BY DEF StatusMatchesPush, Final
    <2> DEFINE s == <<k, t, "live">>
               of == {p \in PushesOf(durable, k) : p.ts = t}
    <2>1. s \in Slots
      BY DEF Slots, AllModes
    <2>2. \A p \in durable : p \in of <=> PushSlot(p) = s
      BY DEF PushesOf, PushSlot
    <2>3. of \subseteq durable
      BY DEF PushesOf
    <2>4. \A p \in of : p.outcome = alerts[s].status /\ alerts[s].status \in Final
      BY <1>2, <2>2, <2>3 DEF Statuses, Told
    <2>5. alerts[s].status \in Final => \E p \in of : TRUE
      BY <1>2, <2>1, <2>2 DEF Statuses, Told
    <2>6. \A p, q \in of : p = q
      BY <1>2, <2>2, <2>3 DEF Statuses, Told
    <2>7. {p.outcome : p \in of} = {alerts[s].status} \intersect Final
      <3> HIDE DEF of, s
      <3> QED BY <2>4, <2>5
    <2> QED BY <1>2, <2>1, <2>6, <2>7 DEF Statuses
  <1> QED BY <1>1, <1>2, Inductive, PTL

-----------------------------------------------------------------------------
(***************************************************************************)
(* How the rows of a key are linked.  Both properties of the committed     *)
(* table hold of the transaction's view too; what carries them is Ahead:   *)
(* no row of a key whose minute never goes back is newer than the minute   *)
(* its rule decides about, so a new row is the newest of its key and the   *)
(* parent found for it, which has no upper bound, is an earlier one.       *)
(***************************************************************************)
Linked(rows) ==
  \A s \in Slots :
    LET row == rows[s]
        up  == rows[<<s[1], row.parent, s[3]>>]
    IN s[1] \in MonotoneKeys /\ row.parent # NoTime =>
         /\ up.state # "absent" /\ row.parent < s[2] /\ s[2] - row.parent <= ParentWindow
         /\ MaxLive = 0 /\ IsEscalation(rows, s) => row.status # "suppressed"

Chained(rows) ==
  \A k \in MonotoneKeys, m \in AllModes, t, u \in Time :
    LET later == rows[<<k, u, m>>]
    IN t < u /\ u - t <= ParentWindow /\ Active(rows, <<k, t, m>>) /\ Active(rows, <<k, u, m>>)
         => later.state = "escalated" /\ later.parent >= t

Ahead(rows, f) ==
  \A s \in Slots : s[1] \in MonotoneKeys /\ rows[s].state # "absent" => s[2] <= f[s[1]].ts

Links == /\ Linked(alerts) /\ Chained(alerts)
         /\ Linked(txAlerts) /\ Chained(txAlerts)
         /\ Ahead(txAlerts, feed)

(* A view that differs from another by closed rows only. *)
OnlyCloses(new, rows) ==
  \A s \in Slots :
    /\ new[s].sev = rows[s].sev
    /\ new[s].status = rows[s].status
    /\ new[s].parent = rows[s].parent
    /\ \/ new[s].state = rows[s].state
       \/ Active(rows, s) /\ new[s].state \in {"resolved", "expired"}

LEMMA SlotsTyped ==
  ASSUME NEW s \in Slots, NEW t \in Time
  PROVE  /\ s[1] \in Keys /\ s[2] \in Time /\ s[3] \in AllModes
         /\ <<s[1], t, s[3]>> \in Slots
         /\ s = <<s[1], s[2], s[3]>>
  BY DEF Slots

LEMMA ClosingKeepsLinks ==
  ASSUME NEW rows \in [Slots -> Rows], NEW new, OnlyCloses(new, rows),
         Linked(rows), Chained(rows)
  PROVE  Linked(new) /\ Chained(new)
  <1>1. \A s \in Slots : rows[s].parent # NoTime => <<s[1], rows[s].parent, s[3]>> \in Slots
    BY SlotsTyped DEF Rows
  <1>2. Linked(new)
    <2> SUFFICES ASSUME NEW s \in Slots, s[1] \in MonotoneKeys, new[s].parent # NoTime
                 PROVE  LET row == new[s]
                            up  == new[<<s[1], row.parent, s[3]>>]
                        IN /\ up.state # "absent" /\ row.parent < s[2]
                           /\ s[2] - row.parent <= ParentWindow
                           /\ MaxLive = 0 /\ IsEscalation(new, s) => row.status # "suppressed"
      BY DEF Linked
    <2> DEFINE up == <<s[1], rows[s].parent, s[3]>>
    <2>1. new[s].parent = rows[s].parent /\ new[s].sev = rows[s].sev
          /\ new[s].status = rows[s].status
      BY DEF OnlyCloses
    <2>2. up \in Slots
      BY <1>1, <2>1
    <2>3. new[up].sev = rows[up].sev /\ (rows[up].state # "absent" => new[up].state # "absent")
      BY <2>2 DEF OnlyCloses
    <2>4. IsEscalation(new, s) <=> IsEscalation(rows, s)
      BY <2>1, <2>3 DEF IsEscalation
    <2> QED BY <2>1, <2>3, <2>4 DEF Linked
  <1>3. Chained(new)
    <2> SUFFICES ASSUME NEW k \in MonotoneKeys, NEW m \in AllModes, NEW t \in Time,
                        NEW u \in Time, t < u, u - t <= ParentWindow,
                        Active(new, <<k, t, m>>), Active(new, <<k, u, m>>)
                 PROVE  /\ new[<<k, u, m>>].state = "escalated"
                        /\ new[<<k, u, m>>].parent >= t
      BY DEF Chained
    <2>1. <<k, t, m>> \in Slots /\ <<k, u, m>> \in Slots
      BY KeysAssumption DEF Slots
    <2>2. /\ Active(rows, <<k, t, m>>) /\ Active(rows, <<k, u, m>>)
          /\ new[<<k, u, m>>].state = rows[<<k, u, m>>].state
          /\ new[<<k, u, m>>].parent = rows[<<k, u, m>>].parent
      BY <2>1 DEF OnlyCloses, Active
    <2> QED BY <2>2 DEF Chained
  <1> QED BY <1>2, <1>3

LEMMA FindsNewest ==
  ASSUME NEW rows, NEW k, NEW m, NEW since, NEW t \in RecentActive(rows, k, m, since)
  PROVE  FindRecentActive(rows, k, m, since) \in Time
         /\ t <= FindRecentActive(rows, k, m, since)
  <1>1. RecentActive(rows, k, m, since) \subseteq Time
    BY DEF RecentActive
  <1>2. /\ FindRecentActive(rows, k, m, since) \in RecentActive(rows, k, m, since)
        /\ \A u \in RecentActive(rows, k, m, since) : u <= FindRecentActive(rows, k, m, since)
    BY <1>1, NewestExists DEF FindRecentActive
  <1> QED BY <1>1, <1>2

(* A new row, stored in a free slot. *)
LEMMA InsertKeepsLinks ==
  ASSUME TypeOK, NEW k \in Keys, NEW status, ~Occupied(k),
         MaxLive = 0 /\ Escalates(k) => status # "suppressed",
         Linked(txAlerts), Chained(txAlerts), Ahead(txAlerts, feed)
  PROVE  LET new == InsertAlert(k, status)
         IN Linked(new) /\ Chained(new) /\ Ahead(new, feed)
  <1> DEFINE new == InsertAlert(k, status)
             own == Slot(k)
             at  == feed[k].ts
  <1>1. /\ own \in Slots /\ own = <<k, at, mode>> /\ at \in Time /\ mode \in AllModes
        /\ txAlerts \in [Slots -> Rows]
    BY SlotTyped DEF TypeOK, Slot, Signals
  <1>2. /\ \A s \in Slots : s # own => new[s] = txAlerts[s]
        /\ new[own] = [sev |-> feed[k].sev,
                       state |-> IF Parent(k) = NoTime THEN "open" ELSE "escalated",
                       status |-> status, parent |-> Parent(k)]
        /\ txAlerts[own].state = "absent"
    BY InsertEffect DEF Occupied
  <1>3. /\ Parent(k) \in Time \union {NoTime}
        /\ Parent(k) # NoTime => /\ Parent(k) >= at - ParentWindow
                                 /\ Active(txAlerts, <<k, Parent(k), mode>>)
    BY FindsActive DEF Parent
  <1>4. at \in Int /\ ParentWindow \in Int /\ \A t \in Time : t \in Int
    BY <1>1, BoundAssumption, WindowAssumption DEF Time
  <1> HIDE DEF new, own, at
  <1>5. Ahead(new, feed)
    BY <1>1, <1>2, <1>4 DEF Ahead, at
  <1>6. Linked(new)
    <2> SUFFICES ASSUME NEW s \in Slots, s[1] \in MonotoneKeys, new[s].parent # NoTime
                 PROVE  LET row == new[s]
                            up  == new[<<s[1], row.parent, s[3]>>]
                        IN /\ up.state # "absent" /\ row.parent < s[2]
                           /\ s[2] - row.parent <= ParentWindow
                           /\ MaxLive = 0 /\ IsEscalation(new, s) => row.status # "suppressed"
      BY DEF Linked
    <2> DEFINE up == <<s[1], new[s].parent, s[3]>>
    <2>1. CASE s # own
      <3>1. new[s] = txAlerts[s] /\ txAlerts[s].parent \in Time
        BY <1>1, <1>2, <2>1 DEF Rows
      <3>2. up \in Slots
        BY <3>1, SlotsTyped
      <3>3. txAlerts[up].state # "absent"
        BY <3>1 DEF Linked
      <3>4. new[up] = txAlerts[up]
        BY <1>2, <3>2, <3>3
      <3>5. IsEscalation(new, s) <=> IsEscalation(txAlerts, s)
        BY <3>1, <3>4 DEF IsEscalation
      <3> QED BY <3>1, <3>3, <3>4, <3>5 DEF Linked
    <2>2. CASE s = own
      <3>1. /\ s[1] = k /\ s[2] = at /\ s[3] = mode /\ new[s].parent = Parent(k)
            /\ new[s].sev = feed[k].sev /\ new[s].status = status
        BY <1>1, <1>2, <2>2
      <3>2. Parent(k) \in Time /\ Parent(k) >= at - ParentWindow
            /\ Active(txAlerts, <<k, Parent(k), mode>>)
        BY <1>3, <3>1
      <3>3. <<k, Parent(k), mode>> \in Slots /\ txAlerts[<<k, Parent(k), mode>>].state # "absent"
        BY <1>1, <3>2 DEF Slots, Active
      <3>4. Parent(k) <= at /\ Parent(k) # at
        <4>1. Parent(k) <= at
          BY <3>1, <3>3 DEF Ahead, at
        <4>2. Parent(k) # at
          BY <1>1, <1>2, <3>3
        <4> QED BY <4>1, <4>2
      <3>5. new[<<k, Parent(k), mode>>] = txAlerts[<<k, Parent(k), mode>>]
        BY <1>2, <3>3
      <3>6. IsEscalation(new, s) => Escalates(k)
        BY <3>1, <3>5 DEF IsEscalation, Escalates
      <3> QED BY <1>4, <3>1, <3>2, <3>3, <3>4, <3>5, <3>6
    <2> QED BY <2>1, <2>2
  <1>7. Chained(new)
    <2> SUFFICES ASSUME NEW j \in MonotoneKeys, NEW m \in AllModes, NEW t \in Time,
                        NEW u \in Time, t < u, u - t <= ParentWindow,
                        Active(new, <<j, t, m>>), Active(new, <<j, u, m>>)
                 PROVE  /\ new[<<j, u, m>>].state = "escalated"
                        /\ new[<<j, u, m>>].parent >= t
      BY DEF Chained
    <2>1. <<j, t, m>> \in Slots /\ <<j, u, m>> \in Slots
      BY KeysAssumption DEF Slots
    <2>2. CASE <<j, u, m>> = own
      <3>1. j = k /\ u = at /\ m = mode
        BY <1>1, <2>2
      <3>2. <<j, t, m>> # own
        BY <1>1, <1>4, <3>1
      <3>3. Active(txAlerts, <<k, t, mode>>)
        BY <1>2, <2>1, <3>1, <3>2 DEF Active
      <3>4. t \in RecentActive(txAlerts, k, mode, at - ParentWindow)
        BY <1>4, <3>1, <3>3 DEF RecentActive
      <3>5. Parent(k) \in Time /\ t <= Parent(k)
        BY <3>4, FindsNewest DEF Parent, at
      <3> QED BY <1>2, <1>4, <2>2, <3>5, BoundAssumption DEF NoTime, Time
    <2>3. CASE <<j, t, m>> = own
      <3>1. j = k /\ t = at /\ m = mode /\ <<j, u, m>> # own
        BY <1>1, <1>4, <2>3
      <3>2. txAlerts[<<j, u, m>>].state # "absent"
        BY <1>2, <2>1, <3>1 DEF Active
      <3>3. u <= at
        BY <2>1, <3>1, <3>2 DEF Ahead, at
      <3> QED BY <1>4, <3>1, <3>3
    <2>4. CASE <<j, u, m>> # own /\ <<j, t, m>> # own
      BY <1>2, <2>1, <2>4 DEF Chained, Active
    <2> QED BY <2>2, <2>3, <2>4
  <1> QED BY <1>5, <1>6, <1>7 DEF new

(* The minute a rule decides about never goes back for such a key. *)
LEMMA FeedAdvances ==
  ASSUME TypeOK, NEW keys \in SUBSET Keys, Decided(keys)
  PROVE  \A k \in MonotoneKeys : feed[k].ts <= feed'[k].ts
  <1> SUFFICES ASSUME NEW k \in MonotoneKeys PROVE feed[k].ts <= feed'[k].ts
    OBVIOUS
  <1>1. k \in Keys /\ feed[k].ts \in Int
    BY KeysAssumption, BoundAssumption DEF TypeOK, Signals, Time
  <1>2. PICK f \in [keys -> Signals] :
          /\ \A j \in keys : NextSignal(j, feed[j], f[j])
          /\ feed' = [j \in Keys |-> IF j \in keys THEN f[j] ELSE feed[j]]
    BY DEF Decided
  <1>3. CASE k \in keys
    BY <1>1, <1>2, <1>3 DEF NextSignal
  <1>4. CASE k \notin keys
    BY <1>1, <1>2, <1>4
  <1> QED BY <1>3, <1>4

LEMMA InitLinks == Init => Links
  <1> SUFFICES ASSUME Init PROVE Links
    OBVIOUS
  <1>1. /\ \A s \in Slots : alerts[s] = NoRow
        /\ txAlerts = alerts
    BY DEF Init
  <1>2. Linked(alerts) /\ Ahead(alerts, feed)
    BY <1>1 DEF Linked, Ahead, NoRow
  <1>3. \A k \in MonotoneKeys, m \in AllModes, t \in Time : ~Active(alerts, <<k, t, m>>)
    BY <1>1, KeysAssumption DEF Slots, Active, NoRow
  <1>4. Chained(alerts)
    BY <1>3 DEF Chained
  <1> QED BY <1>1, <1>2, <1>4 DEF Links

LEMMA IndicatorsLinks ==
  ASSUME IInv, Links, ProcessLatestIndicatorAlerts
  PROVE  Links'
  <1>1. alerts' = alerts /\ txAlerts = alerts /\ TypeOK
    BY DEF IInv, TypeOK, ProcessLatestIndicatorAlerts, dbVars
  <1>2. OnlyCloses(txAlerts', alerts)
    <2>1. PICK quiet : txAlerts' = ResolveInactive(ExpireStale(alerts, before'), quiet, mode)
      BY DEF ProcessLatestIndicatorAlerts
    <2> QED BY <1>1, <2>1, SweepContinues DEF OnlyCloses
  <1>3. Linked(txAlerts') /\ Chained(txAlerts')
    BY <1>1, <1>2, ClosingKeepsLinks DEF Links, TypeOK
  <1>4. Ahead(txAlerts', feed')
    <2>1. \A k \in MonotoneKeys : feed[k].ts <= feed'[k].ts
      BY <1>1, FeedAdvances DEF ProcessLatestIndicatorAlerts, Keys
    <2>2. \A s \in Slots : txAlerts'[s].state # "absent" => txAlerts[s].state # "absent"
      BY <1>1, <1>2 DEF OnlyCloses, Active
    <2>3. feed \in [Keys -> Signals] /\ feed' \in [Keys -> Signals]
      BY <1>1, NextTyped DEF TypeOK, Next, Work
    <2>4. \A k \in MonotoneKeys : feed[k].ts \in Int /\ feed'[k].ts \in Int
      BY <2>3, KeysAssumption, BoundAssumption DEF Signals, Time
    <2>5. \A s \in Slots : s[2] \in Int
      BY BoundAssumption DEF Slots, Time
    <2> SUFFICES ASSUME NEW s \in Slots, s[1] \in MonotoneKeys, txAlerts'[s].state # "absent"
                 PROVE  s[2] <= feed'[s[1]].ts
      BY DEF Ahead
    <2>6. s[2] <= feed[s[1]].ts
      BY <2>2 DEF Links, Ahead
    <2> QED BY <2>1, <2>4, <2>5, <2>6
  <1> QED BY <1>1, <1>3, <1>4 DEF Links, Linked, Chained, IsEscalation, Active

LEMMA LiquidationsLinks ==
  ASSUME IInv, Links, ProcessLatestLiquidationConfirmations
  PROVE  Links'
  <1>1. UNCHANGED <<alerts, txAlerts>> /\ TypeOK
    BY DEF IInv, ProcessLatestLiquidationConfirmations, dbVars, txVars
  <1>2. Ahead(txAlerts, feed')
    <2>1. \A k \in MonotoneKeys : feed[k].ts <= feed'[k].ts
      BY <1>1, FeedAdvances DEF ProcessLatestLiquidationConfirmations, Keys
    <2>3. feed \in [Keys -> Signals] /\ feed' \in [Keys -> Signals]
      BY <1>1, NextTyped DEF TypeOK, Next, Work
    <2>4. \A k \in MonotoneKeys : feed[k].ts \in Int /\ feed'[k].ts \in Int
      BY <2>3, KeysAssumption, BoundAssumption DEF Signals, Time
    <2>5. \A s \in Slots : s[2] \in Int
      BY BoundAssumption DEF Slots, Time
    <2> SUFFICES ASSUME NEW s \in Slots, s[1] \in MonotoneKeys, txAlerts[s].state # "absent"
                 PROVE  s[2] <= feed'[s[1]].ts
      BY DEF Ahead
    <2>6. s[2] <= feed[s[1]].ts
      BY DEF Links, Ahead
    <2> QED BY <2>1, <2>4, <2>5, <2>6
  <1> QED BY <1>1, <1>2 DEF Links, Linked, Chained, IsEscalation, Active

LEMMA PersistLinks ==
  ASSUME IInv, Links, Persist
  PROVE  Links'
  <1>1. PICK k \in Keys : \/ PersistShadow(k) \/ PersistCapped(k) \/ PersistCooled(k)
                          \/ PersistDuplicate(k) \/ PersistSend(k)
    BY DEF Persist
  <1>2. TypeOK /\ UNCHANGED <<alerts, feed>>
    BY <1>1 DEF IInv, PersistShadow, PersistCapped, PersistCooled, PersistDuplicate,
                PersistSend, NextDecision, dbVars
  <1>3. PICK status \in {"shadow", "suppressed", "pending"} :
          /\ txAlerts' = InsertAlert(k, status) \/ txAlerts' = txAlerts
          /\ MaxLive = 0 /\ Escalates(k) => status # "suppressed"
    BY <1>1 DEF PersistShadow, PersistCapped, PersistCooled, PersistDuplicate, PersistSend,
                Capped, Allowed
  <1>4. Linked(txAlerts') /\ Chained(txAlerts') /\ Ahead(txAlerts', feed)
    <2>1. CASE Occupied(k) \/ txAlerts' = txAlerts
      <3>1. txAlerts' = txAlerts
        BY <1>3, <2>1 DEF InsertAlert
      <3> QED BY <3>1 DEF Links
    <2>2. CASE ~Occupied(k) /\ txAlerts' = InsertAlert(k, status)
      BY <1>2, <1>3, <2>2, InsertKeepsLinks DEF Links
    <2> QED BY <1>3, <2>1, <2>2
  <1> QED BY <1>2, <1>4 DEF Links, Linked, Chained, Ahead, IsEscalation, Active

LEMMA AnswerLinks ==
  ASSUME IInv, Links, DiscordAnswer
  PROVE  Links'
  <1>1. PICK outcome \in Answers : txAlerts' = [txAlerts EXCEPT ![Slot(sending)].status = outcome]
    BY DEF DiscordAnswer
  <1>2. TypeOK /\ sending \in Keys /\ UNCHANGED <<alerts, feed>>
    BY DEF IInv, TypeOK, DiscordAnswer, dbVars
  <1>3. \A s \in Slots :
          /\ txAlerts'[s].sev = txAlerts[s].sev /\ txAlerts'[s].state = txAlerts[s].state
          /\ txAlerts'[s].parent = txAlerts[s].parent
          /\ txAlerts'[s].status = txAlerts[s].status \/ txAlerts'[s].status # "suppressed"
    BY <1>1, <1>2, SlotTyped, SettingAssumption DEF TypeOK, Rows
  <1>4. \A s \in Slots : txAlerts[s].parent # NoTime =>
          <<s[1], txAlerts[s].parent, s[3]>> \in Slots
    BY <1>2, SlotsTyped DEF TypeOK, Rows
  <1>5. \A s \in Slots : IsEscalation(txAlerts', s) <=> IsEscalation(txAlerts, s)
    BY <1>3, <1>4 DEF IsEscalation
  <1>6. Linked(txAlerts')
    BY <1>3, <1>4, <1>5 DEF Links, Linked
  <1>7. \A k \in MonotoneKeys, m \in AllModes, t \in Time : <<k, t, m>> \in Slots
    BY KeysAssumption DEF Slots
  <1>8. Chained(txAlerts')
    BY <1>3, <1>7 DEF Links, Chained, Active
  <1>9. Ahead(txAlerts', feed)
    BY <1>3 DEF Links, Ahead
  <1> QED BY <1>2, <1>6, <1>8, <1>9 DEF Links, Linked, Chained, Ahead, IsEscalation, Active

LEMMA NextLinks == IInv /\ Links /\ [Next]_vars => Links'
  <1> SUFFICES ASSUME IInv, Links, [Next]_vars PROVE Links'
    OBVIOUS
  <1>1. CASE ProcessLatestIndicatorAlerts
    BY <1>1, IndicatorsLinks
  <1>2. CASE ProcessLatestLiquidationConfirmations
    BY <1>2, LiquidationsLinks
  <1>3. CASE Persist
    BY <1>3, PersistLinks
  <1>4. CASE DiscordAnswer
    BY <1>4, AnswerLinks
  <1>5. CASE Commit
    <2>1. alerts' = txAlerts /\ txAlerts' = txAlerts /\ feed' = feed
      BY <1>5 DEF Commit, txVars
    <2> QED BY <2>1 DEF Links, Linked, Chained, Ahead, IsEscalation, Active
  <1>6. CASE PassFails \/ CrashRestart
    <2>1. alerts' = alerts /\ txAlerts' = alerts /\ feed' = feed
      BY <1>6 DEF PassFails, CrashRestart, RollBack, dbVars
    <2>2. \A s \in Slots : alerts[s].state # "absent" => txAlerts[s].state # "absent"
      BY DEF IInv, Continues, Active
    <2>3. Ahead(alerts, feed)
      BY <2>2 DEF Links, Ahead
    <2> QED BY <2>1, <2>3 DEF Links, Linked, Chained, Ahead, IsEscalation, Active
  <1>7. CASE Tick \/ UNCHANGED vars
    <2>1. alerts' = alerts /\ txAlerts' = txAlerts /\ feed' = feed
      BY <1>7 DEF Tick, vars, dbVars, txVars
    <2> QED BY <2>1 DEF Links, Linked, Chained, Ahead, IsEscalation, Active
  <1> QED BY <1>1, <1>2, <1>3, <1>4, <1>5, <1>6, <1>7 DEF Next, Work

LEMMA LinksHold == Spec => []Links
  BY InitLinks, NextLinks, Inductive, PTL DEF Spec

(* A row that names a parent names an earlier row of its key and mode, close by,
   and an escalation is never held back by the cooldown. *)
THEOREM ParentsAreEarlier == Spec => []EscalationIsLinked
  <1>1. Links => EscalationIsLinked
    BY DEF Links, Linked, EscalationIsLinked
  <1> QED BY <1>1, LinksHold, PTL

(* Of two active rows of a key close to each other the later one is linked. *)
THEOREM LaterIsEscalation == Spec => []ActiveRowsAreChained
  <1>1. Links => ActiveRowsAreChained
    BY DEF Links, Chained, ActiveRowsAreChained
  <1> QED BY <1>1, LinksHold, PTL

-----------------------------------------------------------------------------
(***************************************************************************)
(* The cap of a pass.  The cap is tested against the position of a         *)
(* decision, not against the pushes made so far: what carries it is that a *)
(* pass never pushes more than the decisions it has taken.                 *)
(***************************************************************************)
IndicatorPushes(pushes) == {p \in pushes : p.key \in IndicatorKeys}

Counted ==
  /\ IsFiniteSet(flight)
  /\ pc = "indicator" /\ sending = NoKey =>
       /\ Cardinality(IndicatorPushes(flight)) <= index
       /\ Cardinality(IndicatorPushes(flight)) <= MaxLive
  /\ pc = "indicator" /\ sending # NoKey =>
       /\ Cardinality(IndicatorPushes(flight)) + 1 <= index
       /\ index <= MaxLive
  /\ pc = "liquidation" =>
       /\ Cardinality(IndicatorPushes(flight)) <= MaxLive
       /\ todo \subseteq LiquidationKeys /\ sending \in LiquidationKeys \union {NoKey}

Ranked ==
  pc = "indicator" /\ sending # NoKey /\ feed[sending].sev = "WARNING" =>
    \A k \in todo : feed[k].sev # "CRITICAL"

CapInv == (MaxLive > 0 => Counted) /\ Ranked

LEMMA NoneCounted == /\ IsFiniteSet({}) /\ IndicatorPushes({}) = {}
                     /\ Cardinality(IndicatorPushes({})) = 0
  BY FS_EmptySet DEF IndicatorPushes

LEMMA OneMoreCounted ==
  ASSUME NEW pushes, IsFiniteSet(pushes), NEW p
  PROVE  LET more == pushes \union {p}
         IN /\ IsFiniteSet(more)
            /\ Cardinality(IndicatorPushes(pushes)) \in Nat
            /\ Cardinality(IndicatorPushes(more)) \in Nat
            /\ Cardinality(IndicatorPushes(more)) <= Cardinality(IndicatorPushes(pushes)) + 1
            /\ p.key \notin IndicatorKeys => IndicatorPushes(more) = IndicatorPushes(pushes)
  <1> DEFINE old == IndicatorPushes(pushes)
             new == IndicatorPushes(pushes \union {p})
  <1>1. IsFiniteSet(pushes \union {p})
    BY FS_AddElement
  <1>2. old \subseteq pushes
    BY DEF IndicatorPushes
  <1>3. IsFiniteSet(old) /\ Cardinality(old) \in Nat
    BY <1>2, FS_Subset, FS_CardinalityType
  <1>4. IsFiniteSet(old \union {p}) /\ Cardinality(old \union {p}) \in Nat
        /\ Cardinality(old \union {p}) <= Cardinality(old) + 1
    <2> HIDE DEF old
    <2>1. /\ IsFiniteSet(old \union {p})
          /\ Cardinality(old \union {p}) = IF p \in old THEN Cardinality(old)
                                                         ELSE Cardinality(old) + 1
      BY <1>3, FS_AddElement
    <2> QED BY <1>3, <2>1
  <1>5. new = old \/ new = old \union {p}
    BY DEF IndicatorPushes
  <1>6. p.key \notin IndicatorKeys => new = old
    BY DEF IndicatorPushes
  <1> HIDE DEF old, new
  <1>7. Cardinality(new) \in Nat /\ Cardinality(new) <= Cardinality(old) + 1
    BY <1>3, <1>4, <1>5
  <1> QED BY <1>1, <1>3, <1>6, <1>7 DEF old, new

LEMMA InitCap == Init => CapInv
  BY NoneCounted DEF Init, CapInv, Counted, Ranked

LEMMA PersistCap ==
  ASSUME IInv, CapInv, Persist
  PROVE  CapInv'
  <1>1. PICK k \in Keys : \/ PersistShadow(k) \/ PersistCapped(k) \/ PersistCooled(k)
                          \/ PersistDuplicate(k) \/ PersistSend(k)
    BY DEF Persist
  <1>2. /\ NextDecision(k) /\ sending = NoKey /\ k \in todo /\ todo' = todo \ {k}
        /\ index' = index + 1 /\ UNCHANGED <<pc, flight, feed>>
    BY <1>1 DEF PersistShadow, PersistCapped, PersistCooled, PersistDuplicate, PersistSend,
                NextDecision, history
  <1>3. \/ sending' = NoKey
        \/ sending' = k /\ ~Capped(k) /\ FirstIn(k)
    BY <1>1, <1>2 DEF PersistShadow, PersistCapped, PersistCooled, PersistDuplicate,
                      PersistSend, NextDecision
  <1>4. index \in Nat /\ MaxLive \in Nat
    BY BoundAssumption DEF IInv, TypeOK
  <1>5. ASSUME MaxLive > 0 PROVE Counted'
    <2>1. Counted
      BY <1>5 DEF CapInv
    <2>2. Cardinality(IndicatorPushes(flight)) \in Nat
      BY <2>1, OneMoreCounted DEF Counted
    <2>3. pc = "indicator" /\ sending' # NoKey => index < MaxLive
      BY <1>3, <1>4, <1>5 DEF Capped
    <2> QED BY <1>2, <1>3, <1>4, <2>1, <2>2, <2>3 DEF Counted, IndicatorPushes
  <1>6. Ranked'
    BY <1>2, <1>3 DEF Ranked, FirstIn
  <1> QED BY <1>5, <1>6 DEF CapInv

LEMMA AnswerCap ==
  ASSUME IInv, CapInv, DiscordAnswer
  PROVE  CapInv'
  <1>1. PICK outcome \in Answers : flight' = flight \union {Push(outcome)}
    BY DEF DiscordAnswer
  <1>2. /\ sending # NoKey /\ sending' = NoKey /\ UNCHANGED <<pc, todo, index>>
        /\ pc \in {"indicator", "liquidation"}
    BY DEF IInv, TypeOK, DiscordAnswer
  <1>3. ASSUME MaxLive > 0 PROVE Counted'
    <2>1. Counted
      BY <1>3 DEF CapInv
    <2>2. /\ IsFiniteSet(flight')
          /\ Cardinality(IndicatorPushes(flight)) \in Nat
          /\ Cardinality(IndicatorPushes(flight')) \in Nat
          /\ Cardinality(IndicatorPushes(flight')) <= Cardinality(IndicatorPushes(flight)) + 1
          /\ sending \notin IndicatorKeys => IndicatorPushes(flight') = IndicatorPushes(flight)
      BY <1>1, <2>1, OneMoreCounted DEF Counted, Push
    <2>3. index \in Nat /\ MaxLive \in Nat
      BY BoundAssumption DEF IInv, TypeOK
    <2>4. CASE pc = "indicator"
      BY <1>2, <2>1, <2>2, <2>3, <2>4 DEF Counted, IndicatorPushes
    <2>5. CASE pc = "liquidation"
      <3>1. sending \notin IndicatorKeys
        BY <1>2, <2>1, <2>5, KeysAssumption DEF Counted
      <3> QED BY <1>2, <2>1, <2>2, <2>5, <3>1 DEF Counted, IndicatorPushes
    <2> QED BY <1>2, <2>4, <2>5
  <1>4. Ranked'
    BY <1>2 DEF Ranked
  <1> QED BY <1>3, <1>4 DEF CapInv

LEMMA NextCap == IInv /\ CapInv /\ [Next]_vars => CapInv'
  <1> SUFFICES ASSUME IInv, CapInv, [Next]_vars PROVE CapInv'
    OBVIOUS
  <1>0. MaxLive \in Nat
    BY BoundAssumption
  <1>1. CASE Tick \/ UNCHANGED vars
    <2>1. UNCHANGED <<pc, flight, index, sending, todo, feed>>
      BY <1>1 DEF Tick, vars, history
    <2> QED BY <2>1 DEF CapInv, Counted, Ranked, IndicatorPushes
  <1>2. CASE ProcessLatestIndicatorAlerts
    <2>1. sending' = NoKey /\ flight' = {} /\ pc' = "indicator" /\ index' = 0
      BY <1>2 DEF IInv, TypeOK, ProcessLatestIndicatorAlerts, history
    <2> QED BY <1>0, <2>1, NoneCounted DEF CapInv, Counted, Ranked, IndicatorPushes
  <1>3. CASE ProcessLatestLiquidationConfirmations
    <2>1. /\ sending = NoKey /\ sending' = NoKey /\ flight' = flight
          /\ pc = "indicator" /\ pc' = "liquidation" /\ todo' \subseteq LiquidationKeys
      BY <1>3 DEF ProcessLatestLiquidationConfirmations, Triggered, history
    <2> QED BY <2>1 DEF CapInv, Counted, Ranked, IndicatorPushes
  <1>4. CASE Persist
    BY <1>4, PersistCap
  <1>5. CASE DiscordAnswer
    BY <1>5, AnswerCap
  <1>6. CASE Commit \/ PassFails \/ CrashRestart
    <2>1. flight' = {} /\ pc' = "idle"
      BY <1>6 DEF Commit, PassFails, CrashRestart, RollBack
    <2> QED BY <2>1, NoneCounted DEF CapInv, Counted, Ranked, IndicatorPushes
  <1> QED BY <1>1, <1>2, <1>3, <1>4, <1>5, <1>6 DEF Next, Work

(* A pass pushes at most max_live_alerts_per_cycle indicator alerts, and a
   WARNING only when no CRITICAL decision waits. *)
THEOREM CapHolds == Spec => []CapRespected
  <1>1. Spec => []CapInv
    BY InitCap, NextCap, Inductive, PTL DEF Spec
  <1>2. ASSUME IInv, CapInv PROVE CapRespected
    <2> SUFFICES ASSUME MaxLive > 0 PROVE CapRespected
      BY DEF CapRespected
    <2>1. Cardinality(IndicatorPushes(flight)) <= MaxLive
      <3>1. Counted /\ MaxLive \in Nat /\ index \in Nat
        BY <1>2, BoundAssumption DEF CapInv, IInv, TypeOK
      <3>2. Cardinality(IndicatorPushes(flight)) \in Nat
        BY <3>1, OneMoreCounted DEF Counted
      <3>3. CASE pc = "idle"
        BY <1>2, <3>1, <3>3, NoneCounted DEF IInv, TypeOK
      <3>4. CASE pc # "idle"
        BY <1>2, <3>1, <3>2, <3>4 DEF IInv, TypeOK, Counted
      <3> QED BY <3>3, <3>4
    <2>2. pc = "indicator" /\ sending # NoKey /\ feed[sending].sev = "WARNING" =>
            \A k \in Triggered(IndicatorKeys, feed) : feed[k].sev = "CRITICAL" => k \notin todo
      BY <1>2 DEF CapInv, Ranked
    <2> QED BY <2>1, <2>2 DEF CapRespected, IndicatorPushes
  <1> QED BY <1>1, <1>2, Inductive, PTL

-----------------------------------------------------------------------------
(***************************************************************************)
(* AlertCycle implements AlertBook: seen through the table, the steps of a *)
(* pass, its pushes, failures and restarts included, are one atomic pass.  *)
(***************************************************************************)
(* Where the loop stands, todo holds decisions of that stage only. *)
Staged ==
  /\ pc = "indicator" => todo \subseteq IndicatorKeys
  /\ pc = "liquidation" => todo \subseteq LiquidationKeys
  /\ pc # "idle" => before \in (-ExpireAfter)..MaxClock

(* The pass has dealt with a decision for k. *)
Settled(k) ==
  feed[k].sev # "NONE" /\ k \notin todo /\ (k \in LiquidationKeys => pc = "liquidation")

Opens(s) == alerts[s].state = "absent" /\ s[3] = mode /\ Settled(s[1]) /\ feed[s[1]].ts = s[2]
Closes(s) ==
  /\ Active(alerts, s)
  /\ \/ s[2] < before
     \/ s[3] = mode /\ s[1] \in Covered[mode] /\ feed[s[1]].sev = "NONE"

(* The transaction's view is the abstract pass, as far as it has come: every
   silence is acted upon at once, what was said is opened decision by decision. *)
PartOfPass ==
  pc # "idle" =>
    \A s \in Slots : Opinion(txAlerts[s]) = IF Opens(s) THEN "active"
                                            ELSE IF Closes(s) THEN "closed" ELSE Opinion(alerts[s])

RInv == IInv /\ Staged /\ PartOfPass

LEMMA Stages ==
  /\ \A m \in AllModes : Covered[m] \subseteq IndicatorKeys
  /\ IndicatorKeys \subseteq Keys /\ LiquidationKeys \subseteq Keys
  /\ \A k \in IndicatorKeys : k \notin LiquidationKeys
  BY KeysAssumption DEF Covered, Keys

LEMMA SlotParts ==
  ASSUME NEW s \in Slots
  PROVE  /\ s[1] \in Keys /\ s[2] \in Time /\ s[3] \in AllModes
         /\ s = <<s[1], s[2], s[3]>>
  BY DEF Slots

LEMMA StagedKept == RInv /\ [Next]_vars => Staged'
  <1> SUFFICES ASSUME RInv, [Next]_vars PROVE Staged'
    OBVIOUS
  <1>1. CASE Tick
    BY <1>1 DEF RInv, Staged, Tick
  <1>2. CASE ProcessLatestIndicatorAlerts
    <2>1. before' \in (-ExpireAfter)..MaxClock
      BY <1>2, WindowAssumption, BoundAssumption
         DEF RInv, IInv, TypeOK, ProcessLatestIndicatorAlerts, Time
    <2> QED BY <1>2, <2>1 DEF Staged, ProcessLatestIndicatorAlerts, Triggered
  <1>3. CASE ProcessLatestLiquidationConfirmations
    BY <1>3 DEF RInv, Staged, ProcessLatestLiquidationConfirmations, Triggered
  <1>4. CASE Persist
    BY <1>4 DEF RInv, Staged, Persist, PersistShadow, PersistCapped, PersistCooled,
                PersistDuplicate, PersistSend, NextDecision
  <1>5. CASE DiscordAnswer
    BY <1>5 DEF RInv, Staged, DiscordAnswer
  <1>6. CASE Commit
    BY <1>6 DEF RInv, Staged, Commit
  <1>7. CASE PassFails \/ CrashRestart
    BY <1>7 DEF RInv, Staged, PassFails, CrashRestart, RollBack
  <1>8. CASE UNCHANGED vars
    BY <1>8 DEF RInv, Staged, vars
  <1> QED BY <1>1, <1>2, <1>3, <1>4, <1>5, <1>6, <1>7, <1>8 DEF Next, Work

(* The sweep of a new pass acts on every silence, and opens nothing yet. *)
LEMMA SweepIsPart == RInv /\ ProcessLatestIndicatorAlerts => PartOfPass'
  <1> SUFFICES ASSUME RInv, ProcessLatestIndicatorAlerts, NEW s \in Slots
               PROVE  Opinion(txAlerts'[s]) =
                        IF Opens(s)' THEN "active"
                        ELSE IF Closes(s)' THEN "closed" ELSE Opinion(alerts[s])
    BY DEF PartOfPass, ProcessLatestIndicatorAlerts, dbVars
  <1> DEFINE quiet == Covered[mode] \ Triggered(IndicatorKeys, feed')
  <1>1. /\ alerts' = alerts /\ mode' = mode
        /\ txAlerts' = ResolveInactive(ExpireStale(alerts, before'), quiet, mode)
        /\ todo' = Triggered(IndicatorKeys, feed') /\ pc' = "indicator"
    BY DEF ProcessLatestIndicatorAlerts, dbVars
  <1>2. s[1] \in Keys /\ mode \in AllModes /\ alerts \in [Slots -> Rows]
    BY SlotParts DEF RInv, IInv, TypeOK
  <1>3. ~Opens(s)'
    <2>1. CASE s[1] \in IndicatorKeys
      BY <1>1, <2>1 DEF Opens, Settled, Triggered
    <2>2. CASE s[1] \in LiquidationKeys
      BY <1>1, <2>2 DEF Opens, Settled
    <2> QED BY <1>2, <2>1, <2>2 DEF Keys
  <1>4. s[1] \in quiet <=> s[1] \in Covered[mode] /\ feed'[s[1]].sev = "NONE"
    BY <1>2, Stages DEF Triggered
  <1>5. Closes(s)' <=> Active(alerts, s) /\ (s[2] < before' \/ (s[3] = mode /\ s[1] \in quiet))
    BY <1>1, <1>4 DEF Closes, Active
  <1> HIDE DEF quiet
  <1>6. CASE Closes(s)'
    BY <1>1, <1>2, <1>3, <1>5, <1>6 DEF ResolveInactive, ExpireStale, Active, Opinion, Rows
  <1>7. CASE ~Closes(s)'
    BY <1>1, <1>2, <1>3, <1>5, <1>7 DEF ResolveInactive, ExpireStale, Active, Opinion, Rows
  <1> QED BY <1>6, <1>7

LEMMA LiquidationsArePart == RInv /\ ProcessLatestLiquidationConfirmations => PartOfPass'
  <1> SUFFICES ASSUME RInv, ProcessLatestLiquidationConfirmations, NEW s \in Slots
               PROVE  (Opens(s)' <=> Opens(s)) /\ (Closes(s)' <=> Closes(s))
    BY DEF RInv, PartOfPass, ProcessLatestLiquidationConfirmations, dbVars, txVars
  <1>1. /\ pc = "indicator" /\ pc' = "liquidation" /\ todo = {}
        /\ todo' = Triggered(LiquidationKeys, feed')
        /\ UNCHANGED <<alerts, mode, before>>
    BY DEF ProcessLatestLiquidationConfirmations, dbVars
  <1>2. \A k \in IndicatorKeys : feed'[k] = feed[k]
    BY Stages DEF ProcessLatestLiquidationConfirmations, Decided, Keys
  <1>3. s[1] \in Keys /\ mode \in AllModes
    BY SlotParts DEF RInv, IInv, TypeOK
  <1>4. Closes(s)' <=> Closes(s)
    BY <1>1, <1>2, <1>3, Stages DEF Closes, Active
  <1>5. CASE s[1] \in IndicatorKeys
    BY <1>1, <1>2, <1>4, <1>5, Stages DEF Opens, Settled, Triggered
  <1>6. CASE s[1] \in LiquidationKeys
    BY <1>1, <1>4, <1>6 DEF Opens, Settled, Triggered
  <1> QED BY <1>3, <1>5, <1>6 DEF Keys

(* A decision dealt with: its slot is taken from now on, by its row or by one
   that was committed before. *)
LEMMA PersistIsPart == RInv /\ Persist => PartOfPass'
  <1> SUFFICES ASSUME RInv, NEW k \in Keys,
                      \/ PersistShadow(k) \/ PersistCapped(k) \/ PersistCooled(k)
                      \/ PersistDuplicate(k) \/ PersistSend(k),
                      NEW s \in Slots
               PROVE  Opinion(txAlerts'[s]) =
                        IF Opens(s)' THEN "active"
                        ELSE IF Closes(s)' THEN "closed" ELSE Opinion(alerts[s])
    BY DEF Persist, PartOfPass, PersistShadow, PersistCapped, PersistCooled, PersistDuplicate,
           PersistSend, NextDecision, dbVars
  <1>1. /\ pc # "idle" /\ k \in todo /\ todo' = todo \ {k}
        /\ UNCHANGED <<alerts, mode, feed, pc, before>>
    BY DEF PersistShadow, PersistCapped, PersistCooled, PersistDuplicate, PersistSend,
           NextDecision, dbVars
  <1>2. TypeOK /\ Slot(k) \in Slots
    BY SlotTyped DEF RInv, IInv
  <1>3. PICK status : \/ txAlerts' = InsertAlert(k, status)
                      \/ Occupied(k) /\ txAlerts' = txAlerts
    BY DEF PersistShadow, PersistCapped, PersistCooled, PersistDuplicate, PersistSend
  <1>4. Closes(s)' <=> Closes(s)
    BY <1>1 DEF Closes, Active
  <1>5. feed[k].sev # "NONE" /\ ~Settled(k) /\ (k \in LiquidationKeys => pc = "liquidation")
    BY <1>1, <1>2, Stages DEF RInv, IInv, Awake, Settled, Staged, TypeOK
  <1>6. CASE s # Slot(k)
    <2>1. txAlerts'[s] = txAlerts[s]
      BY <1>2, <1>3, <1>6, InsertEffect
    <2>2. Opens(s)' <=> Opens(s)
      BY <1>1, <1>6, SlotParts DEF Opens, Settled, Slot
    <2> QED BY <1>1, <1>4, <2>1, <2>2 DEF RInv, PartOfPass
  <1>7. CASE s = Slot(k)
    <2>1. s[1] = k /\ s[2] = feed[k].ts /\ s[3] = mode
      BY <1>7 DEF Slot
    <2>2. ~Opens(s) /\ (Opens(s)' <=> alerts[s].state = "absent")
      BY <1>1, <1>5, <2>1 DEF Opens, Settled
    <2>3. Opinion(txAlerts[s]) = IF Closes(s) THEN "closed" ELSE Opinion(alerts[s])
      BY <1>1, <2>2 DEF RInv, PartOfPass
    <2>4. Occupied(k) <=> alerts[s].state # "absent"
      BY <1>7, <2>3 DEF Occupied, Opinion, Closes, Active
    <2>5. CASE Occupied(k)
      BY <1>2, <1>3, <1>4, <1>7, <2>2, <2>3, <2>4, <2>5, InsertEffect DEF Occupied
    <2>6. CASE ~Occupied(k)
      <3>1. txAlerts'[s].state \in {"open", "escalated"}
        <4>1. txAlerts' = InsertAlert(k, status)
          BY <1>3, <2>6
        <4>2. InsertAlert(k, status)[Slot(k)].state \in {"open", "escalated"}
          <5>1. InsertAlert(k, status)[Slot(k)] =
                  [sev |-> feed[k].sev,
                   state |-> IF Parent(k) = NoTime THEN "open" ELSE "escalated",
                   status |-> status, parent |-> Parent(k)]
            BY <1>2, <2>6, InsertEffect
          <5> QED BY <5>1
        <4> QED BY <1>7, <4>1, <4>2
      <3> QED BY <2>2, <2>4, <2>6, <3>1 DEF Opinion
    <2> QED BY <2>5, <2>6
  <1> QED BY <1>6, <1>7

LEMMA AnswerIsPart == RInv /\ DiscordAnswer => PartOfPass'
  <1> SUFFICES ASSUME RInv, DiscordAnswer, NEW s \in Slots
               PROVE  Opinion(txAlerts'[s]) = Opinion(txAlerts[s])
    BY DEF RInv, PartOfPass, DiscordAnswer, dbVars, Opens, Settled, Closes, Active
  <1>1. txAlerts'[s].state = txAlerts[s].state
    BY SlotTyped DEF RInv, IInv, TypeOK, DiscordAnswer, Rows
  <1> QED BY <1>1 DEF Opinion

LEMMA NextRInv == RInv /\ [Next]_vars => RInv'
  <1> SUFFICES ASSUME RInv, [Next]_vars PROVE RInv'
    OBVIOUS
  <1>1. IInv' /\ Staged'
    BY NextInductive, StagedKept DEF RInv
  <1>2. CASE Tick \/ UNCHANGED vars
    BY <1>1, <1>2 DEF RInv, PartOfPass, Tick, vars, dbVars, txVars, Opens, Settled, Closes, Active
  <1>3. CASE Commit \/ PassFails \/ CrashRestart
    BY <1>1, <1>3 DEF RInv, PartOfPass, Commit, PassFails, CrashRestart, RollBack
  <1> QED BY <1>1, <1>2, <1>3, SweepIsPart, LiquidationsArePart, PersistIsPart, AnswerIsPart
          DEF Next, Work, RInv

LEMMA InitRInv == Init => RInv
  BY InitInductive DEF Init, RInv, Staged, PartOfPass

THEOREM Parts == Spec => []RInv
  BY InitRInv, NextRInv, PTL DEF Spec

-----------------------------------------------------------------------------
LEMMA InitRefines == Init => Book!Init
  BY DEF Init, Book!Init, Book!Slots, Slots, Opinion, NoRow

(* A commit is a pass of the book: everything said is settled by then. *)
LEMMA CommitRefines == RInv /\ Commit => Book!SomePass
  <1> SUFFICES ASSUME RInv, Commit PROVE Book!SomePass
    OBVIOUS
  <1> DEFINE said == [k \in Keys |-> IF feed[k].sev # "NONE" THEN feed[k].ts ELSE NoTime]
  <1>1. /\ pc = "liquidation" /\ todo = {} /\ alerts' = txAlerts
        /\ mode \in AllModes /\ before \in (-ExpireAfter)..MaxClock
    BY DEF RInv, IInv, TypeOK, Staged, Commit
  <1>2. said \in [Keys -> Time \union {NoTime}]
    BY DEF RInv, IInv, TypeOK, Signals
  <1>3. \A k \in Keys : said[k] = NoTime <=> feed[k].sev = "NONE"
    BY DEF RInv, IInv, TypeOK, Signals, Time, NoTime
  <1>4. ASSUME NEW s \in Slots
        PROVE  Opinion(alerts'[s]) =
                 IF Book!Opened(s, mode, said) THEN "active"
                 ELSE IF Book!Closed(s, mode, said, before) THEN "closed"
                 ELSE Opinion(alerts[s])
    <2>1. s[1] \in Keys /\ s[2] \in Time
      BY <1>4, SlotParts
    <2>2. Book!Opened(s, mode, said) <=> Opens(s)
      <3>1. said[s[1]] = s[2] <=> feed[s[1]].sev # "NONE" /\ feed[s[1]].ts = s[2]
        BY <2>1 DEF Time, NoTime
      <3>2. Opinion(alerts[s]) = "absent" <=> alerts[s].state = "absent"
        BY DEF Opinion
      <3> HIDE DEF said
      <3> QED BY <1>1, <1>4, <3>1, <3>2 DEF Book!Opened, Opens, Settled
    <2>3. Book!Closed(s, mode, said, before) <=> Closes(s)
      <3>1. Opinion(alerts[s]) = "active" <=> Active(alerts, s)
        BY DEF Opinion, Active
      <3> HIDE DEF said
      <3> QED BY <1>3, <1>4, <2>1, <3>1 DEF Book!Closed, Closes
    <2> QED BY <1>1, <1>4, <2>2, <2>3 DEF RInv, PartOfPass
  <1>5. Book!Pass(mode, said, before)
    <2> HIDE DEF said
    <2> QED BY <1>4 DEF Book!Pass, Book!Slots, Slots
  <1> QED BY <1>1, <1>2, <1>5 DEF Book!SomePass

LEMMA StepRefines ==
  RInv /\ [Next]_vars => [Book!Next]_([s \in Slots |-> Opinion(alerts[s])])
  <1> SUFFICES ASSUME RInv, [Next]_vars
               PROVE  Book!Next \/ UNCHANGED [s \in Slots |-> Opinion(alerts[s])]
    OBVIOUS
  <1>1. CASE Commit
    BY <1>1, CommitRefines DEF Book!Next
  <1>2. CASE ~Commit
    BY <1>2 DEF Next, Work, Tick, ProcessLatestIndicatorAlerts, Persist, NextDecision,
                ProcessLatestLiquidationConfirmations, PersistShadow, PersistCapped,
                PersistCooled, PersistDuplicate, PersistSend, DiscordAnswer, PassFails,
                CrashRestart, RollBack, dbVars, vars
  <1> QED BY <1>1, <1>2

(* Whatever happens inside it, the loop changes the table of alerts by whole
   passes, each of which opens what was said and closes what went quiet. *)
THEOREM Refines == Spec => PassesAreAtomic
  BY InitRefines, StepRefines, Parts, PTL DEF Spec, PassesAreAtomic, Book!Spec
=============================================================================
