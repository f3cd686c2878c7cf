------------------------------ MODULE AlertWriters ------------------------------
(***************************************************************************)
(* Several AlertServices on the same tables: the loop of the application,  *)
(* and "bn-monitor generate-alerts" run by hand beside it (cli.py).  Each  *)
(* pass is one transaction at READ COMMITTED: a statement sees what is     *)
(* committed and what its own transaction wrote, an insert waits for the   *)
(* transaction that holds its slot of the unique index, an update for the  *)
(* one that holds its row.  A push goes out in the middle of it all.       *)
(*                                                                         *)
(* AlertCycle has the decisions, the modes and the cap of one process; here*)
(* every process is in live mode, and a key has one cooldown window.       *)
(***************************************************************************)
EXTENDS Integers, Sequences

CONSTANTS
  Processes, Loop,   \* Loop is the application: it passes again and again, and keeps its dict
  Keys, CriticalKeys,
  Window,            \* the cooldown window
  ParentWindow,      \* 15 minutes
  ExpireAfter,       \* ALERT_EXPIRE_AFTER
  MaxClock,          \* bound: ticks explored
  Budgets            \* bound: how many changes of each key's decisions, ticks, commands and
                     \* faults the explored executions have

Time == 0..MaxClock
NoTime == -1
NoKey == "no key"
Slots == Keys \X Time
Severities == {"WARNING", "CRITICAL"}

ASSUME WritersAssumption ==
  /\ Loop \in Processes /\ CriticalKeys \subseteq Keys /\ NoKey \notin Keys
  /\ {Window, ParentWindow, ExpireAfter, MaxClock} \subseteq Nat
  /\ Budgets \subseteq [news : [Keys -> Nat], ticks : 0..MaxClock, runs : Nat, faults : Nat]

VARIABLES
  clock,
  left,        \* what is left of the budget
  signal,      \* signal[k]: what the rules decide for k from the tables of market data
  rows,        \* table alerts, committed: the severity of each slot's row
  active,      \* the slots whose row is open or escalated
  cooldowns,   \* table alert_cooldowns, committed: last_sent_at
  memory,      \* memory[p]: AlertService._memory_cooldowns
  pc,          \* pc[p]: where the pass of p is
  feed,        \* feed[p]: what the rules decided in its pass
  todo,        \* todo[p]: keys of its decisions still to persist
  call,        \* call[p]: the persist_and_deliver call it is in
  inserted,    \* inserted[p]: rows its transaction has inserted
  closed,      \* closed[p]: slots whose row its transaction has closed
  recorded,    \* recorded[p]: cooldowns its transaction has written
  flight,      \* history: flight[p]: pushes of its transaction
  log          \* history: the pushes of every committed transaction, in that order

txVars == <<todo, call, inserted, closed, recorded, flight>>
vars == <<clock, left, signal, rows, active, cooldowns, memory, pc, feed,
          todo, call, inserted, closed, recorded, flight, log>>

Quiet == [ts |-> 0, sev |-> "NONE"]
NoRows == [s \in Slots |-> "NONE"]
NoTimes == [k \in Keys |-> NoTime]
NoCall == [key |-> NoKey, now |-> 0, send |-> FALSE, escalates |-> FALSE, known |-> 0]
Triggered(f) == {k \in Keys : f[k].sev # "NONE"}
Slot(p) == <<call[p].key, feed[p][call[p].key].ts>>

-----------------------------------------------------------------------------
Init ==
  /\ clock = 0 /\ left \in Budgets
  /\ signal = [k \in Keys |-> Quiet]
  /\ rows = NoRows /\ active = {} /\ cooldowns = NoTimes
  /\ memory = [p \in Processes |-> NoTimes]
  /\ pc = [p \in Processes |-> "idle"]
  /\ feed = [p \in Processes |-> [k \in Keys |-> Quiet]]
  /\ todo = [p \in Processes |-> {}] /\ call = [p \in Processes |-> NoCall]
  /\ inserted = [p \in Processes |-> NoRows] /\ closed = [p \in Processes |-> {}]
  /\ recorded = [p \in Processes |-> NoTimes] /\ flight = [p \in Processes |-> {}]
  /\ log = <<>>

Tick ==
  /\ left.ticks > 0 /\ left' = [left EXCEPT !.ticks = @ - 1]
  /\ clock' = clock + 1
  /\ UNCHANGED << signal, rows, active, cooldowns, memory, pc, feed, txVars, log>>

(* The snapshots change: a decision for a new minute, another severity, silence. *)
NewSignal(k) ==
  /\ left.news[k] > 0 /\ left' = [left EXCEPT !.news[k] = @ - 1]
  /\ \E sev \in Severities \union {"NONE"} :
       /\ sev = "CRITICAL" => k \in CriticalKeys
       /\ signal' = [signal EXCEPT ![k] = [ts |-> clock, sev |-> sev]]
       /\ signal' # signal
  /\ UNCHANGED <<clock, rows, active, cooldowns, memory, pc, feed, txVars, log>>

(* A pass begins: the loop's next, or that of a command, whose dict is new. *)
Begin(p) ==
  /\ pc[p] = "idle"
  /\ IF p = Loop
     THEN UNCHANGED <<left, memory>>
     ELSE /\ left.runs > 0 /\ left' = [left EXCEPT !.runs = @ - 1]
          /\ memory' = [memory EXCEPT ![p] = NoTimes]
  /\ feed' = [feed EXCEPT ![p] = signal]
  /\ pc' = [pc EXCEPT ![p] = "sweep"]
  /\ UNCHANGED <<clock, signal, rows, active, cooldowns, txVars, log>>

(* expire_stale_alerts and resolve_inactive_alerts: rows that another transaction
   has closed are waited for. *)
ToCloseOnTheDot(p) ==
  {s \in active : s[2] <= clock - ExpireAfter \/ s[1] \notin Triggered(feed[p])}
ToClose(p) ==
  {s \in active : s[2] < clock - ExpireAfter \/ s[1] \notin Triggered(feed[p])}
Sweep(p) ==
  /\ pc[p] = "sweep"
  /\ \A q \in Processes \ {p} : ToClose(p) \intersect closed[q] = {}
  /\ closed' = [closed EXCEPT ![p] = ToClose(p)]
  /\ todo' = [todo EXCEPT ![p] = Triggered(feed[p])]
  /\ pc' = [pc EXCEPT ![p] = "work"]
  /\ UNCHANGED <<clock, left, signal, rows, active, cooldowns, memory, feed,
                 call, inserted, recorded, flight, log>>

-----------------------------------------------------------------------------
(* What p sees: the committed tables and its own writes. *)
SevOf(p, s) == IF inserted[p][s] # "NONE" THEN inserted[p][s] ELSE rows[s]
Parents(p, k) ==
  {t \in Time : /\ t >= feed[p][k].ts - ParentWindow
                /\ <<k, t>> \in active \ closed[p] \/ inserted[p][<<k, t>>] # "NONE"}
Escalates(p, k) ==
  /\ feed[p][k].sev = "CRITICAL"
  /\ \E t \in Parents(p, k) : /\ \A u \in Parents(p, k) : u <= t
                              /\ SevOf(p, <<k, t>>) # "CRITICAL"
CooldownOf(p, k) == IF recorded[p][k] # NoTime THEN recorded[p][k] ELSE cooldowns[k]
Within(last) == last # NoTime /\ clock - last < Window

(* persist_and_deliver up to the insert: find_recent_active_alert and
   should_send_with_persistent_cooldown, the dict first, then the table. *)
CheckMemoryOnly(p, k) ==
  /\ pc[p] = "work" /\ k \in todo[p]
  /\ LET sends == Escalates(p, k) \/ ~Within(memory[p][k])
     IN /\ call' = [call EXCEPT ![p] = [key |-> k, now |-> clock, send |-> sends,
                                        escalates |-> Escalates(p, k), known |-> Len(log)]]
        /\ memory' = [memory EXCEPT ![p][k] = IF sends THEN clock ELSE @]
  /\ todo' = [todo EXCEPT ![p] = @ \ {k}]
  /\ pc' = [pc EXCEPT ![p] = "insert"]
  /\ UNCHANGED <<clock, left, signal, rows, active, cooldowns, feed,
                 inserted, closed, recorded, flight, log>>
Check(p, k) ==
  /\ pc[p] = "work" /\ k \in todo[p]
  /\ LET inMemory == Within(memory[p][k]) inTable == Within(CooldownOf(p, k))
         sends == Escalates(p, k) \/ (~inMemory /\ ~inTable)
     IN /\ call' = [call EXCEPT ![p] = [key |-> k, now |-> clock, send |-> sends,
                                        escalates |-> Escalates(p, k), known |-> Len(log)]]
        /\ memory' = [memory EXCEPT ![p][k] = IF sends THEN clock
                                              ELSE IF inMemory THEN @ ELSE CooldownOf(p, k)]
  /\ todo' = [todo EXCEPT ![p] = @ \ {k}]
  /\ pc' = [pc EXCEPT ![p] = "insert"]
  /\ UNCHANGED <<clock, left, signal, rows, active, cooldowns, feed,
                 inserted, closed, recorded, flight, log>>

(* insert_alert, ON CONFLICT DO NOTHING: it waits while another transaction holds the
   slot, and finds it taken when that one commits. *)
FreeToAnyone(p) == TRUE
Free(p) == \A q \in Processes \ {p} : inserted[q][Slot(p)] = "NONE"
Insert(p) ==
  /\ pc[p] = "insert" /\ Free(p)
  /\ IF SevOf(p, Slot(p)) # "NONE"
     THEN /\ pc' = [pc EXCEPT ![p] = "work"] /\ call' = [call EXCEPT ![p] = NoCall]
          /\ UNCHANGED inserted
     ELSE /\ inserted' = [inserted EXCEPT ![p][Slot(p)] = feed[p][call[p].key].sev]
          /\ pc' = [pc EXCEPT ![p] = IF call[p].send THEN "sending" ELSE "work"]
          /\ call' = IF call[p].send THEN call ELSE [call EXCEPT ![p] = NoCall]
  /\ UNCHANGED <<clock, left, signal, rows, active, cooldowns, memory, feed,
                 todo, closed, recorded, flight, log>>

(* send_alert returns, with whatever outcome, and record_cooldown upserts: it waits for
   the row of the table. *)
CooldownFree(p) == \A q \in Processes \ {p} : recorded[q][call[p].key] = NoTime
Record(p) ==
  /\ pc[p] = "sending" /\ CooldownFree(p)
  /\ flight' = [flight EXCEPT ![p] = @ \union
       {[key |-> call[p].key, ts |-> Slot(p)[2], at |-> call[p].now, known |-> call[p].known]}]
  /\ recorded' = [recorded EXCEPT ![p][call[p].key] = call[p].now]
  /\ pc' = [pc EXCEPT ![p] = "work"] /\ call' = [call EXCEPT ![p] = NoCall]
  /\ UNCHANGED <<clock, left, signal, rows, active, cooldowns, memory, feed,
                 todo, inserted, closed, log>>

(* The transaction of p is over: it holds nothing any more. *)
Released(p) ==
  /\ pc' = [pc EXCEPT ![p] = "idle"]
  /\ feed' = [feed EXCEPT ![p] = [k \in Keys |-> Quiet]]
  /\ todo' = [todo EXCEPT ![p] = {}] /\ call' = [call EXCEPT ![p] = NoCall]
  /\ inserted' = [inserted EXCEPT ![p] = NoRows] /\ closed' = [closed EXCEPT ![p] = {}]
  /\ recorded' = [recorded EXCEPT ![p] = NoTimes] /\ flight' = [flight EXCEPT ![p] = {}]

Commit(p) ==
  /\ pc[p] = "work" /\ todo[p] = {}
  /\ rows' = [s \in Slots |-> SevOf(p, s)]
  /\ active' = (active \ closed[p]) \union {s \in Slots : inserted[p][s] # "NONE"}
  /\ cooldowns' = [k \in Keys |-> CooldownOf(p, k)]
  /\ log' = IF flight[p] = {} THEN log ELSE Append(log, flight[p])
  /\ Released(p)
  /\ UNCHANGED <<clock, left, signal, memory>>

RolledBackKeepsLocks(p) ==
  /\ pc' = [pc EXCEPT ![p] = "idle"]
  /\ todo' = [todo EXCEPT ![p] = {}] /\ call' = [call EXCEPT ![p] = NoCall]
  /\ UNCHANGED <<clock, signal, rows, active, cooldowns, feed, inserted, closed,
                 recorded, flight, log>>
RolledBack(p) ==
  Released(p) /\ UNCHANGED <<clock, signal, rows, active, cooldowns, log>>

(* A statement or send_alert raises; or the process dies, and the application is
   started again with a new dict. *)
PassFails(p) ==
  /\ pc[p] # "idle" /\ left.faults > 0 /\ left' = [left EXCEPT !.faults = @ - 1]
  /\ RolledBack(p)
  /\ memory' \in {memory, [memory EXCEPT ![p] = NoTimes]}

(* Two transactions wait for each other: PostgreSQL ends one with an error. *)
WaitsFor(p, q) ==
  /\ p # q
  /\ \/ pc[p] = "sweep" /\ ToClose(p) \intersect closed[q] # {}
     \/ pc[p] = "insert" /\ inserted[q][Slot(p)] # "NONE"
     \/ pc[p] = "sending" /\ recorded[q][call[p].key] # NoTime
Victim(p) ==
  /\ \E q \in Processes : WaitsFor(p, q) /\ WaitsFor(q, p)
  /\ RolledBack(p)
  /\ UNCHANGED <<left, memory>>

Work(p) ==
  \/ Sweep(p) \/ Insert(p) \/ Record(p) \/ Commit(p) \/ Victim(p)
  \/ \E k \in Keys : Check(p, k)
Next ==
  \/ Tick
  \/ \E k \in Keys : NewSignal(k)
  \/ \E p \in Processes : Begin(p) \/ Work(p) \/ PassFails(p)

Spec == Init /\ [][Next]_vars

(* Every statement returns or raises, as does a push.  The fairness is strong because
   PostgreSQL wakes the waiters of a lock in the order they came: a process whose lock
   is released again and again gets it. *)
FairSpec == Spec /\ \A p \in Processes : SF_vars(Work(p))

-----------------------------------------------------------------------------
(* Every variable has its type, and a process between passes holds nothing. *)
TypeOK ==
  /\ clock \in Time /\ left.ticks \in 0..MaxClock - clock
  /\ rows \in [Slots -> Severities \union {"NONE"}]
  /\ active \subseteq {s \in Slots : rows[s] # "NONE"}
  /\ cooldowns \in [Keys -> Time \union {NoTime}]
  /\ memory \in [Processes -> [Keys -> Time \union {NoTime}]]
  /\ pc \in [Processes -> {"idle", "sweep", "work", "insert", "sending"}]
  /\ todo \in [Processes -> SUBSET Keys] /\ closed \in [Processes -> SUBSET Slots]
  /\ \A p \in Processes :
       /\ pc[p] \in {"insert", "sending"} <=> call[p].key # NoKey
       /\ pc[p] = "idle" => /\ inserted[p] = NoRows /\ recorded[p] = NoTimes
                            /\ closed[p] = {} /\ flight[p] = {}

(* While a process pushes a source minute, no other one is pushing it, no committed
   pass has pushed it and no open transaction has: the unique index serializes
   processes that know nothing of each other.  (A pass that was rolled back may have
   pushed it: its row is gone.) *)
Pushed(pushes, s) == \E x \in pushes : x.key = s[1] /\ x.ts = s[2]
SlotPushedOnce ==
  \A p \in Processes :
    pc[p] = "sending" =>
      /\ \A c \in 1..Len(log) : ~Pushed(log[c], Slot(p))
      /\ \A q \in Processes : ~Pushed(flight[q], Slot(p))
      /\ \A q \in Processes \ {p} : pc[q] = "sending" => Slot(q) # Slot(p)

(* A push that is no escalation follows a push of its key that was on record when the
   cooldown was checked by the window at least - unless another transaction, which
   had checked the cooldown before that push was on record and committed after it,
   has set last_sent_at back. *)
CooldownHeldAcross ==
  \A p \in Processes :
    pc[p] = "sending" /\ ~call[p].escalates =>
      \A c \in 1..call[p].known : \A y \in log[c] :
        y.key = call[p].key /\ call[p].now - y.at < Window =>
          \E d \in c + 1..call[p].known : \E z \in log[d] :
            z.key = y.key /\ z.at < y.at /\ z.known < c

(* The tables, seen through AlertLedger: passes that overlap, wait for each other, fail
   and push on the way get on record one by one, each as a whole. *)
StateOf(s) == IF rows[s] = "NONE" THEN "absent" ELSE IF s \in active THEN "active" ELSE "closed"
OnTable == [s \in Slots |-> StateOf(s)]
PushedSlots == {s \in Slots : \E c \in 1..Len(log) : Pushed(log[c], s)}
Ledger == INSTANCE AlertLedger
            WITH now <- clock, book <- OnTable, pushed <- PushedSlots,
                 Minutes <- Time, Silent <- NoTime
LedgerKept == Ledger!Spec

(* A pass comes to its end, whomever it waits for. *)
PassEnds == \A p \in Processes : pc[p] # "idle" ~> pc[p] = "idle"
=============================================================================
