------------------------------ MODULE AlertCycle ------------------------------
(***************************************************************************)
(* The live core of bn-monitor: one pass of the loop of app.py             *)
(* (run_indicator_loop) opens a database transaction, expires and resolves *)
(* old alerts, stores the decisions of the rules one by one through        *)
(* AlertService.persist_and_deliver - each one perhaps pushed to Discord   *)
(* while the transaction is still open - and commits.  A push cannot be    *)
(* undone, a row and a persistent cooldown can: every property below is    *)
(* about how the three memories of the service (the rows, the cooldown     *)
(* table, the dict of the process) stay consistent with what was pushed.   *)
(*                                                                         *)
(* A key is a pair (symbol, alert_type).  What the rules decide for a key  *)
(* in a pass is an input (feed): a quiet key has severity "NONE".  Time is *)
(* counted in ticks; datetime.now(UTC) is clock.                           *)
(***************************************************************************)
EXTENDS Integers, FiniteSets

CONSTANTS
  IndicatorKeys,     \* keys of process_latest_indicator_alerts
  LiquidationKeys,   \* keys of process_latest_liquidation_confirmations
  AggregateKeys,     \* bundles and the digest: decided in live mode only
  CriticalKeys,      \* keys whose rule can answer CRITICAL
  Rivals,            \* Rivals[k]: keys the rules never decide together with k
  MonotoneKeys,      \* keys whose source minute never goes back (the digest's may)
  TypeMinutes,       \* alert_cooldown_minutes, by alert type: a partial function of keys
  SeverityMinutes,   \* alert_cooldown_minutes, by severity: a partial function
  DefaultMinutes,    \* the fallback window of each severity
  ParentWindow,      \* 15 minutes
  ExpireAfter,       \* ALERT_EXPIRE_AFTER
  HourWindow,        \* 1 hour
  MaxLive,           \* max_live_alerts_per_cycle, 0 for no cap
  Modes,             \* the alert modes an operator restarts the process with
  Answers,           \* outcomes of send_alert; {"failed"} when no webhook is configured
  MaxClock,          \* bound: ticks explored
  MaxNews,           \* bound: passes with a new decision explored
  MaxFaults          \* bound: failed transactions and crashes explored

Keys == IndicatorKeys \union LiquidationKeys
Time == 0..MaxClock
NoTime == -1
NoKey == "no key"
Severities == {"WARNING", "CRITICAL"}
AllModes == {"shadow", "live"}

ASSUME KeysAssumption ==
  /\ IndicatorKeys \intersect LiquidationKeys = {}
  /\ AggregateKeys \subseteq IndicatorKeys
  /\ CriticalKeys \subseteq IndicatorKeys
  /\ MonotoneKeys \subseteq Keys
  /\ NoKey \notin Keys
  /\ Rivals \in [Keys -> SUBSET Keys]
ASSUME WindowAssumption ==
  /\ \A k \in DOMAIN TypeMinutes : TypeMinutes[k] \in Nat
  /\ \A s \in DOMAIN SeverityMinutes : SeverityMinutes[s] \in Nat
  /\ DefaultMinutes \in [Severities -> Nat]
  /\ ParentWindow \in Nat /\ ExpireAfter \in Nat /\ HourWindow \in Nat
ASSUME BoundAssumption ==
  /\ MaxClock \in Nat /\ MaxNews \in Nat /\ MaxFaults \in Nat /\ MaxLive \in Nat
ASSUME SettingAssumption ==
  /\ Modes \subseteq AllModes /\ Modes # {}
  /\ Answers \subseteq {"sent", "failed", "rate_limited"}

VARIABLES
  clock,        \* datetime.now(UTC)
  mode,         \* settings.alert_mode of the running process
  news,         \* new decisions left to the market
  faults,       \* faults left to the environment
  feed,         \* feed[k]: what the rules decide for k in the pass, and at which minute
  alerts,       \* table alerts, as committed
  cooldowns,    \* table alert_cooldowns, as committed
  memory,       \* AlertService._memory_cooldowns
  txAlerts,     \* table alerts as the open transaction sees it
  txCooldowns,  \* table alert_cooldowns as the open transaction sees it
  pc,           \* where the loop is
  todo,         \* decisions of the stage still to persist
  index,        \* enumerate() index of the next decision of the stage
  sending,      \* the key inside discord.send_alert, or NoKey
  now,          \* "now" of the persist_and_deliver call that is sending
  before,       \* expiry bound of the pass
  channel,      \* history: every push attempted
  owned,        \* history: those attempted by the running process
  flight,       \* history: those whose row and cooldown wait for the commit
  durable       \* history: those whose row and cooldown are committed

dbVars == <<alerts, cooldowns>>
txVars == <<txAlerts, txCooldowns>>
history == <<channel, owned, flight, durable>>
vars == <<clock, mode, news, faults, feed, alerts, cooldowns, memory, txAlerts, txCooldowns,
          pc, todo, index, sending, now, before, channel, owned, flight, durable>>

-----------------------------------------------------------------------------
(* Table alerts: at most one row per (symbol, alert_type), minute and mode -
   the unique index uq_alerts_source_signal. *)
Slots == Keys \X Time \X AllModes
NoRow == [sev |-> "NONE", state |-> "absent", status |-> "none", parent |-> NoTime]
Rows == [sev : Severities \union {"NONE"},
         state : {"absent", "open", "escalated", "resolved", "expired"},
         status : {"none", "shadow", "suppressed", "pending", "sent", "failed", "rate_limited"},
         parent : Time \union {NoTime}]
Signals == [ts : Time, sev : Severities \union {"NONE"}]
Pushes == [key : Keys, ts : Time, at : Time, outcome : Answers \union {"sent", "lost"}]
NoCooldown == [last |-> NoTime, count |-> 0]

Active(rows, s) == rows[s].state \in {"open", "escalated"}

(* expire_stale_alerts: every active row of a minute before the bound, in
   whatever mode and of whatever symbol. *)
ExpireStale(rows, bound) ==
  [s \in Slots |-> IF Active(rows, s) /\ s[2] < bound
                   THEN [rows[s] EXCEPT !.state = "expired"] ELSE rows[s]]

(* resolve_inactive_alerts: the active rows of the mode whose key is quiet. *)
ResolveClosedToo(rows, quiet, m) ==
  [s \in Slots |-> IF rows[s].state # "absent" /\ s[1] \in quiet /\ s[3] = m
                   THEN [rows[s] EXCEPT !.state = "resolved"] ELSE rows[s]]
ResolveAnyMode(rows, quiet, m) ==
  [s \in Slots |-> IF Active(rows, s) /\ s[1] \in quiet
                   THEN [rows[s] EXCEPT !.state = "resolved"] ELSE rows[s]]
ResolveInactive(rows, quiet, m) ==
  [s \in Slots |-> IF Active(rows, s) /\ s[1] \in quiet /\ s[3] = m
                   THEN [rows[s] EXCEPT !.state = "resolved"] ELSE rows[s]]

(* find_recent_active_alert: the newest active row of the key and mode whose
   minute is not before since; it has no upper bound. *)
RecentAfter(rows, k, m, since) == {t \in Time : t > since /\ Active(rows, <<k, t, m>>)}
RecentActive(rows, k, m, since) == {t \in Time : t >= since /\ Active(rows, <<k, t, m>>)}
FindRecentActive(rows, k, m, since) ==
  LET found == RecentActive(rows, k, m, since)
  IN IF found = {} THEN NoTime ELSE CHOOSE t \in found : \A u \in found : u <= t

Parent(k) == FindRecentActive(txAlerts, k, mode, feed[k].ts - ParentWindow)

(* insert_alert: ON CONFLICT DO NOTHING on the slot. *)
Slot(k) == <<k, feed[k].ts, mode>>
OccupiedWhileActive(k) == Active(txAlerts, Slot(k))
Occupied(k) == txAlerts[Slot(k)].state # "absent"
InsertOverwrites(k, status) ==
  [txAlerts EXCEPT ![Slot(k)] =
     [sev |-> feed[k].sev, state |-> IF Parent(k) = NoTime THEN "open" ELSE "escalated",
      status |-> status, parent |-> Parent(k)]]
InsertAlert(k, status) ==
  IF Occupied(k) THEN txAlerts
  ELSE [txAlerts EXCEPT ![Slot(k)] =
          [sev |-> feed[k].sev, state |-> IF Parent(k) = NoTime THEN "open" ELSE "escalated",
           status |-> status, parent |-> Parent(k)]]

(* A CRITICAL decision over an active alert that is not CRITICAL. *)
NeverEscalates(k) == FALSE
Escalates(k) ==
  /\ Parent(k) # NoTime
  /\ feed[k].sev = "CRITICAL"
  /\ txAlerts[<<k, Parent(k), mode>>].sev # "CRITICAL"

-----------------------------------------------------------------------------
(* Cooldowns: the process dict first, the table second. *)
CooldownWindow(k, sev) ==
  IF k \in DOMAIN TypeMinutes THEN TypeMinutes[k]
  ELSE IF sev \in DOMAIN SeverityMinutes THEN SeverityMinutes[sev] ELSE DefaultMinutes[sev]

Within(last, t, window) == last # NoTime /\ t - last < window
MemoryBlocks(k, t) == Within(memory[k], t, CooldownWindow(k, feed[k].sev))
DbIgnored(k, t) == FALSE
DbBlocks(k, t) == Within(txCooldowns[k].last, t, CooldownWindow(k, feed[k].sev))

(* should_send_with_persistent_cooldown: its answer, and what it leaves in the
   dict.  The dict is armed before the push, whatever becomes of the push. *)
Allowed(k) == Escalates(k) \/ (~MemoryBlocks(k, clock) /\ ~DbBlocks(k, clock))
Armed(k) ==
  [memory EXCEPT ![k] = IF Escalates(k) THEN clock
                        ELSE IF MemoryBlocks(k, clock) THEN memory[k]
                        ELSE IF DbBlocks(k, clock) THEN txCooldowns[k].last
                        ELSE clock]

(* record_cooldown with get_cooldown and update_cooldown. *)
RecordCooldown(k, t) ==
  LET current == txCooldowns[k]
  IN [txCooldowns EXCEPT ![k] =
        [last  |-> t,
         count |-> IF current.last # NoTime /\ t - current.last <= HourWindow
                   THEN current.count + 1 ELSE 1]]

-----------------------------------------------------------------------------
(* alert_types_to_resolve of prepare_indicator_decisions_for_mode. *)
Covered ==
  [m \in AllModes |-> IF m = "live" THEN IndicatorKeys ELSE IndicatorKeys \ AggregateKeys]

(* What the rules may decide next for a key.  A severity at the same minute may
   change: indicators of the newest minute are recomputed every pass.  The
   minute may be arbitrarily old: snapshots are read without a staleness limit. *)
NextSignal(k, old, new) ==
  IF new.sev = "NONE" THEN new.ts = old.ts
  ELSE /\ new.ts <= clock
       /\ k \in MonotoneKeys => new.ts >= old.ts
       /\ new.sev = "CRITICAL" => k \in CriticalKeys
       /\ k \in AggregateKeys => mode = "live"

Triggered(keys, f) == {k \in keys : f[k].sev # "NONE"}

(* What the rules decide for keys in this pass; the other keys keep theirs.  A
   digest takes the place of every other decision of the pass, a bundle that of
   the decisions of its symbol.
   A pass that decides something new spends one of the bounded news. *)
Decided(keys) ==
  \E f \in [keys -> Signals] :
    LET fresh == {k \in Triggered(keys, f) : f[k] # feed[k]}
    IN /\ \A k \in keys : NextSignal(k, feed[k], f[k])
       /\ \A k \in Triggered(keys, f) : Rivals[k] \intersect Triggered(keys, f) = {}
       /\ feed' = [k \in Keys |-> IF k \in keys THEN f[k] ELSE feed[k]]
       /\ fresh # {} => news > 0
       /\ news' = IF fresh = {} THEN news ELSE news - 1

(* prioritize_alerts: CRITICAL first.  Order by score within a severity, and the
   row order of the liquidation query, are left open. *)
FirstIn(k) ==
  pc = "indicator" => feed[k].sev = "CRITICAL" \/ \A j \in todo : feed[j].sev # "CRITICAL"

CappedLate(k) == pc = "indicator" /\ MaxLive > 0 /\ index > MaxLive
Capped(k) == pc = "indicator" /\ MaxLive > 0 /\ index >= MaxLive

-----------------------------------------------------------------------------
Init ==
  /\ clock = 0
  /\ mode \in Modes
  /\ news = MaxNews /\ faults = MaxFaults
  /\ feed = [k \in Keys |-> [ts |-> 0, sev |-> "NONE"]]
  /\ alerts = [s \in Slots |-> NoRow] /\ txAlerts = alerts
  /\ cooldowns = [k \in Keys |-> NoCooldown] /\ txCooldowns = cooldowns
  /\ memory = [k \in Keys |-> NoTime]
  /\ pc = "idle" /\ todo = {} /\ index = 0
  /\ sending = NoKey /\ now = 0 /\ before = 0
  /\ channel = {} /\ owned = {} /\ flight = {} /\ durable = {}

(* Time passes at any await, a push that waits for Discord included. *)
Tick ==
  /\ clock < MaxClock
  /\ clock' = clock + 1
  /\ UNCHANGED <<mode, news, faults, feed, dbVars, memory, txVars, pc, todo, index,
                 sending, now, before, history>>

(* process_latest_indicator_alerts up to its loop: expire, read the snapshots,
   run the rules, resolve what went quiet, order the decisions. *)
ProcessLatestIndicatorAlerts ==
  /\ pc = "idle"
  /\ Decided(IndicatorKeys)
  /\ before' = clock - ExpireAfter
  /\ LET live  == Triggered(IndicatorKeys, feed')
         quiet == Covered[mode] \ live
     IN /\ txAlerts' = ResolveInactive(ExpireStale(alerts, before'), quiet, mode)
        /\ todo' = live
  /\ pc' = "indicator"
  /\ index' = 0
  /\ UNCHANGED <<clock, mode, faults, dbVars, memory, txCooldowns, sending, now, history>>

(* process_latest_liquidation_confirmations up to its loop. *)
ProcessLatestLiquidationConfirmations ==
  /\ pc = "indicator" /\ todo = {} /\ sending = NoKey
  /\ Decided(LiquidationKeys)
  /\ todo' = Triggered(LiquidationKeys, feed')
  /\ pc' = "liquidation"
  /\ index' = 0
  /\ UNCHANGED <<clock, mode, faults, dbVars, memory, txVars, sending, now, before, history>>

(* The next decision of the stage enters persist_and_deliver. *)
NextDecision(k) ==
  /\ pc # "idle" /\ sending = NoKey
  /\ k \in todo /\ FirstIn(k)
  /\ todo' = todo \ {k}
  /\ index' = index + 1
  /\ UNCHANGED <<clock, mode, news, faults, feed, dbVars, txCooldowns, pc, before, history>>

PersistShadow(k) ==
  /\ NextDecision(k)
  /\ mode = "shadow"
  /\ txAlerts' = InsertAlert(k, "shadow")
  /\ UNCHANGED <<memory, sending, now>>

(* Over the cap of the pass: stored, not pushed, no cooldown consulted. *)
PersistCapped(k) ==
  /\ NextDecision(k)
  /\ mode = "live" /\ Capped(k)
  /\ txAlerts' = InsertAlert(k, "suppressed")
  /\ UNCHANGED <<memory, sending, now>>

PersistCooled(k) ==
  /\ NextDecision(k)
  /\ mode = "live" /\ ~Capped(k) /\ ~Allowed(k)
  /\ memory' = Armed(k)
  /\ txAlerts' = InsertAlert(k, "suppressed")
  /\ UNCHANGED <<sending, now>>

(* The slot is taken: insert_alert answers None, after the dict was armed. *)
PersistDuplicate(k) ==
  /\ NextDecision(k)
  /\ mode = "live" /\ ~Capped(k) /\ Allowed(k) /\ Occupied(k)
  /\ memory' = Armed(k)
  /\ UNCHANGED <<txAlerts, sending, now>>

PersistSend(k) ==
  /\ NextDecision(k)
  /\ mode = "live" /\ ~Capped(k) /\ Allowed(k) /\ ~Occupied(k)
  /\ memory' = Armed(k)
  /\ txAlerts' = InsertAlert(k, "pending")
  /\ sending' = k
  /\ now' = clock

(* A push attempted with the outcome, as the history records it. *)
Push(outcome) == [key |-> sending, ts |-> feed[sending].ts, at |-> now, outcome |-> outcome]

(* send_alert returned: update_alert_delivery and record_cooldown. *)
DiscordAnswer ==
  /\ sending # NoKey
  /\ \E outcome \in Answers :
       /\ txAlerts' = [txAlerts EXCEPT ![Slot(sending)].status = outcome]
       /\ channel' = channel \union {Push(outcome)}
       /\ owned' = owned \union {Push(outcome)}
       /\ flight' = flight \union {Push(outcome)}
  /\ txCooldowns' = RecordCooldown(sending, now)
  /\ sending' = NoKey /\ now' = 0
  /\ UNCHANGED <<clock, mode, news, faults, feed, dbVars, memory, pc, todo, index, before, durable>>

Commit ==
  /\ pc = "liquidation" /\ todo = {} /\ sending = NoKey
  /\ alerts' = txAlerts /\ cooldowns' = txCooldowns
  /\ durable' = durable \union flight /\ flight' = {}
  /\ pc' = "idle" /\ index' = 0 /\ before' = 0
  /\ UNCHANGED <<clock, mode, news, faults, feed, memory, txVars, todo, sending, now, channel, owned>>

-----------------------------------------------------------------------------
(* The transaction ends without its writes. *)
KeepWrites ==
  /\ UNCHANGED txVars /\ flight' = {}
  /\ pc' = "idle" /\ todo' = {} /\ index' = 0 /\ before' = 0
  /\ sending' = NoKey /\ now' = 0
  /\ UNCHANGED <<news, feed, dbVars, durable>>
LoopStops ==
  /\ txAlerts' = alerts /\ txCooldowns' = cooldowns /\ flight' = {}
  /\ pc' = "stopped" /\ todo' = {} /\ index' = 0 /\ before' = 0
  /\ sending' = NoKey /\ now' = 0
  /\ UNCHANGED <<news, feed, dbVars, durable>>
RollBack ==
  /\ txAlerts' = alerts /\ txCooldowns' = cooldowns
  /\ flight' = {}
  /\ pc' = "idle" /\ todo' = {} /\ index' = 0 /\ before' = 0
  /\ sending' = NoKey /\ now' = 0
  /\ UNCHANGED <<news, feed, dbVars, durable>>

(* What becomes of a push that is cut: Discord has it, or not. *)
CutPushes == IF sending = NoKey THEN {{}} ELSE {{Push("sent")}, {Push("lost")}}

(* A statement, the commit or send_alert raises: the loop logs it and goes on
   with the next pass.  The dict keeps what the pass put into it. *)
PassFails ==
  /\ pc # "idle" /\ faults > 0
  /\ faults' = faults - 1
  /\ \E cut \in CutPushes : channel' = channel \union cut /\ owned' = owned \union cut
  /\ RollBack
  /\ UNCHANGED <<clock, mode, memory>>

(* The process dies and is started again, perhaps with another ALERT_MODE. *)
CrashRestart ==
  /\ faults > 0
  /\ faults' = faults - 1
  /\ mode' \in Modes
  /\ \E cut \in CutPushes : channel' = channel \union cut
  /\ owned' = {}
  /\ memory' = [k \in Keys |-> NoTime]
  /\ RollBack
  /\ UNCHANGED clock

Persist ==
  \E k \in Keys : \/ PersistShadow(k) \/ PersistCapped(k) \/ PersistCooled(k)
                  \/ PersistDuplicate(k) \/ PersistSend(k)
Work == \/ ProcessLatestIndicatorAlerts \/ ProcessLatestLiquidationConfirmations
        \/ Persist \/ DiscordAnswer \/ Commit

Next == Tick \/ Work \/ PassFails \/ CrashRestart

Spec == Init /\ [][Next]_vars

(* The loop is never paused for good: every await of a pass returns or raises
   (the HTTP client has a timeout, a push is tried three times), and the sleep
   between passes ends. *)
FairSpec == Spec /\ WF_vars(Work)
-----------------------------------------------------------------------------
(* Every variable has its type, and between passes no transaction is open. *)
TypeOK ==
  /\ clock \in Time /\ mode \in AllModes /\ news \in 0..MaxNews /\ faults \in 0..MaxFaults
  /\ feed \in [Keys -> Signals]
  /\ alerts \in [Slots -> Rows] /\ txAlerts \in [Slots -> Rows]
  /\ cooldowns \in [Keys -> [last : Time \union {NoTime}, count : Nat]]
  /\ txCooldowns \in [Keys -> [last : Time \union {NoTime}, count : Nat]]
  /\ memory \in [Keys -> Time \union {NoTime}]
  /\ pc \in {"idle", "indicator", "liquidation"}
  /\ todo \subseteq Keys /\ index \in Nat
  /\ sending \in Keys \union {NoKey} /\ now \in Time
  /\ before \in Int
  /\ channel \subseteq Pushes /\ owned \subseteq channel
  /\ flight \subseteq channel /\ durable \subseteq channel
  /\ pc = "idle" => /\ txAlerts = alerts /\ txCooldowns = cooldowns
                    /\ flight = {} /\ todo = {} /\ sending = NoKey

(* The row of the slot was stored as CRITICAL over a parent that was not. *)
IsEscalation(rows, s) ==
  /\ rows[s].parent # NoTime /\ rows[s].sev = "CRITICAL"
  /\ rows[<<s[1], rows[s].parent, s[3]>>].sev # "CRITICAL"

PushesOf(pushes, k) == {p \in pushes : p.key = k}

(* While a push is under way that no escalation justifies, every earlier push of
   the key that this process attempted, or that a committed pass recorded, is at
   least the key's cooldown window old: should_send_with_persistent_cooldown over
   the dict and the table together, across rollbacks and restarts. *)
CooldownRespected ==
  sending # NoKey /\ ~IsEscalation(txAlerts, Slot(sending)) =>
    \A p \in PushesOf(owned \union durable, sending) :
      now - p.at >= CooldownWindow(sending, feed[sending].sev)

(* A source minute whose push is on record is never pushed again: the unique
   index is consulted before send_alert, not after it. *)
NoRepeatPush ==
  sending # NoKey =>
    \A p \in PushesOf(durable \union flight, sending) : p.ts # feed[sending].ts

(* A committed row tells what became of its push: a final delivery status if and
   only if one push of its minute is on record, with that outcome; never
   "pending"; and no row of shadow mode was pushed. *)
StatusMatchesPush ==
  \A k \in Keys, t \in Time :
    LET row == alerts[<<k, t, "live">>]
        of  == {p \in PushesOf(durable, k) : p.ts = t}
    IN /\ {p.outcome : p \in of} = {row.status} \intersect {"sent", "failed", "rate_limited"}
       /\ \A p, q \in of : p = q
       /\ row.status # "pending"

(* A row that names a parent names a row of the same key and mode, of an earlier
   minute at most 15 minutes back, and a CRITICAL row over a parent that was not
   CRITICAL was not held back by the cooldown (only the cap may suppress it). *)
EscalationIsLinked ==
  \A s \in Slots :
    LET row == alerts[s]
        up  == alerts[<<s[1], row.parent, s[3]>>]
    IN s[1] \in MonotoneKeys /\ row.parent # NoTime =>
         /\ up.state # "absent" /\ row.parent < s[2] /\ s[2] - row.parent <= ParentWindow
         /\ MaxLive = 0 /\ IsEscalation(alerts, s) => row.status # "suppressed"

(* Two active rows of a key and mode within 15 minutes of each other: the later
   one is an escalation, linked to the earlier or to something in between. *)
ActiveRowsAreChained ==
  \A k \in MonotoneKeys, m \in AllModes, t, u \in Time :
    LET later == alerts[<<k, u, m>>]
    IN t < u /\ u - t <= ParentWindow /\ Active(alerts, <<k, t, m>>) /\ Active(alerts, <<k, u, m>>)
         => later.state = "escalated" /\ later.parent >= t

(* One pass pushes at most max_live_alerts_per_cycle indicator alerts, and while
   a WARNING is pushed no CRITICAL decision of the pass waits or was capped. *)
CapRespected ==
  MaxLive > 0 =>
    /\ Cardinality({p \in flight : p.key \in IndicatorKeys}) <= MaxLive
    /\ pc = "indicator" /\ sending # NoKey /\ feed[sending].sev = "WARNING" =>
         \A k \in Triggered(IndicatorKeys, feed) : feed[k].sev = "CRITICAL" =>
           k \notin todo

(* What a committed row says is never rewritten, it never disappears, and a
   closed row is never reopened: only open or escalated rows change, to resolved
   or expired. *)
RowsAreFinal ==
  [][\A s \in Slots :
       alerts[s].state # "absent" =>
         /\ alerts'[s].sev = alerts[s].sev
         /\ alerts'[s].status = alerts[s].status
         /\ alerts'[s].parent = alerts[s].parent
         /\ \/ alerts'[s].state = alerts[s].state
            \/ Active(alerts, s) /\ alerts'[s].state \in {"resolved", "expired"}]_vars

(* As long as the rules keep deciding for a key, the table comes to hold a row for
   the minute they decide about, again and again, whatever fails on the way. *)
DecisionIsStored ==
  \A k \in Keys :
    <>[](feed[k].sev # "NONE") =>
      []<>(\E m \in AllModes : alerts[<<k, feed[k].ts, m>>].state # "absent")

(* The table, seen through AlertBook: the many steps of a pass, with their pushes,
   failures and restarts, change it like one atomic pass or not at all. *)
Opinion(row) == IF row.state = "absent" THEN "absent"
                ELSE IF row.state \in {"open", "escalated"} THEN "active" ELSE "closed"
Book == INSTANCE AlertBook
          WITH book <- [s \in Slots |-> Opinion(alerts[s])], Minutes <- Time, Silent <- NoTime,
               Bounds <- (-ExpireAfter)..MaxClock
PassesAreAtomic == Book!Spec

(* Read literally, a live alert is stored without a push only "within the cooldown"
   (docs/strategy.md) or over the cap: when the key was pushed less than its window ago. *)
SuppressedForAPush ==
  [][\A k \in Keys :
       PersistCooled(k) /\ ~Occupied(k) =>
         \E p \in PushesOf(channel, k) : clock - p.at < CooldownWindow(k, feed[k].sev)]_vars

(* Read literally, a CRITICAL decision over an active parent that is not CRITICAL
   "bypasses the cooldown and completes the push" (docs/strategy.md). *)
EscalationIsPushed ==
  pc = "liquidation" /\ mode = "live" /\ MaxLive = 0 =>
    \A k \in Triggered(IndicatorKeys, feed) :
      LET up == FindRecentActive(alerts, k, mode, feed[k].ts - ParentWindow)
      IN /\ feed[k].sev = "CRITICAL" /\ up # NoTime
         /\ up >= before /\ alerts[<<k, up, mode>>].sev # "CRITICAL"
         => PushesOf(flight, k) # {}
=============================================================================
