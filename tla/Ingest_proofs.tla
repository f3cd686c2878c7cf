------------------------------ MODULE Ingest_proofs ------------------------------
(***************************************************************************)
(* Theorems about Ingest: type correctness, and that force orders are      *)
(* stored at most once, missing klines are accounted for and the funding   *)
(* history is complete when it counts as seeded - for every universe, any  *)
(* number of connections, orders and minutes, and any number of faults.    *)
(***************************************************************************)
EXTENDS Ingest, TLAPS

(* TypeOK by the parts of the state that one action changes together. *)
ClockTyped == minute \in 0..MaxMinute /\ faults \in 0..MaxFaults
SocketTyped ==
  connected \subseteq Connections \union {Market} /\ wire \in Rows /\ reported \subseteq Orders
FlushTyped == pending \in Rows /\ batch \in Rows /\ flushing \in BOOLEAN
TableTyped ==
  /\ klines \in [Klines -> {"none", "partial", "final"}]
  /\ liquidations \in [Orders -> Nat] /\ funding \subseteq Symbols
RoundTyped ==
  /\ round \in {"sleep", "symbols", "funding"} /\ queue \subseteq Symbols
  /\ asked \in Symbols \union {NoSymbol}
  /\ answered \in 0..MaxMinute /\ cutoff \in 0..MaxMinute \union {NotRead}
FlagTyped == backfilled \in BOOLEAN /\ seeded \in BOOLEAN /\ seedFailed \in BOOLEAN
HistoryTyped ==
  /\ missed \subseteq Klines /\ dropped \subseteq Klines
  /\ healed \subseteq Klines /\ skipped \subseteq Symbols

LEMMA TypeParts ==
  TypeOK <=> /\ ClockTyped /\ SocketTyped /\ FlushTyped /\ TableTyped
             /\ RoundTyped /\ FlagTyped /\ HistoryTyped /\ NothingLeft
  BY DEF TypeOK, ClockTyped, SocketTyped, FlushTyped, TableTyped, RoundTyped, FlagTyped,
         HistoryTyped

LEMMA NothingTyped == Nothing \in Rows
  BY DEF Nothing, Rows

LEMMA InitTyped == Init => TypeOK
  <1> SUFFICES ASSUME Init PROVE TypeOK
    OBVIOUS
  <1>1. ClockTyped
    BY IngestAssumption DEF Init, ClockTyped
  <1>2. SocketTyped /\ FlushTyped
    BY NothingTyped DEF Init, SocketTyped, FlushTyped
  <1>3. TableTyped /\ FlagTyped /\ HistoryTyped
    BY DEF Init, TableTyped, FlagTyped, HistoryTyped
  <1>4. RoundTyped
    BY IngestAssumption DEF Init, RoundTyped
  <1>5. NothingLeft
    BY DEF Init, NothingLeft
  <1> QED BY <1>1, <1>2, <1>3, <1>4, <1>5, TypeParts

(* What a flush, a poll or a seed held is gone when it is over. *)
LEMMA NextLeavesNothing == TypeOK /\ [Next]_vars => NothingLeft'
  <1> SUFFICES ASSUME TypeOK, [Next]_vars PROVE NothingLeft'
    OBVIOUS
  <1> USE DEF NothingLeft
  <1>a. NothingLeft
    BY DEF TypeOK
  <1>1. CASE Exchange \/ Reconnects \/ Reader
    BY <1>1, <1>a DEF Exchange, MinuteCloses, ForceOrder, Disconnect, Reconnects, Reconnect, Reader,
       CollectKline, CollectOrder, flushVars, pollVars
  <1>2. CASE FlushStart \/ FlushCommit \/ FlushFails
    BY <1>2, <1>a DEF FlushStart, FlushCommit, FlushFails, Write, pollVars
  <1>3. CASE RoundStart \/ RoundFails \/ ReadAnswer
    BY <1>3, <1>a DEF RoundStart, RoundFails, ReadAnswer, flushVars
  <1>4. CASE \E s \in Symbols : PollSymbol(s)
    BY <1>4, <1>a, IngestAssumption DEF PollSymbol, flushVars
  <1>5. CASE PollStored \/ PollFails
    BY <1>5, <1>a DEF PollStored, PollFails, flushVars
  <1>6. CASE SymbolsDone \/ RoundEnd
    BY <1>6, <1>a DEF SymbolsDone, RoundEnd, flushVars
  <1>7. CASE \E s \in Symbols : SeedSymbol(s)
    BY <1>7, <1>a DEF SeedSymbol, flushVars
  <1>8. CASE CrashRestart
    BY <1>8 DEF CrashRestart
  <1>9. CASE UNCHANGED vars
    BY <1>9, <1>a DEF vars, flushVars, pollVars
  <1> QED BY <1>1, <1>2, <1>3, <1>4, <1>5, <1>6, <1>7, <1>8, <1>9 DEF Next, Flusher, Poller

LEMMA NextTyped == TypeOK /\ [Next]_vars => TypeOK'
  <1> SUFFICES ASSUME TypeOK, [Next]_vars PROVE TypeOK'
    OBVIOUS
  <1> USE TypeParts
  <1>a. /\ ClockTyped' /\ SocketTyped' /\ FlushTyped' /\ TableTyped'
        /\ RoundTyped' /\ FlagTyped' /\ HistoryTyped'
        => TypeOK'
    BY NextLeavesNothing DEF TypeOK, ClockTyped, SocketTyped, FlushTyped, TableTyped, RoundTyped, FlagTyped,
           HistoryTyped
  <1>1. CASE MinuteCloses
    <2>1. ClockTyped'
      BY <1>1, IngestAssumption DEF ClockTyped, MinuteCloses
    <2>2. SocketTyped'
      BY <1>1, IngestAssumption DEF SocketTyped, MinuteCloses, Rows, Klines, Minutes, ClockTyped
    <2>3. HistoryTyped'
      BY <1>1, IngestAssumption DEF HistoryTyped, MinuteCloses, Klines, Minutes, ClockTyped
    <2>4. FlushTyped' /\ TableTyped' /\ RoundTyped' /\ FlagTyped'
      BY <1>1 DEF FlushTyped, TableTyped, RoundTyped, FlagTyped, MinuteCloses, flushVars,
         pollVars, tables
    <2> QED BY <1>a, <2>1, <2>2, <2>3, <2>4
  <1>2. CASE ForceOrder
    <2>1. ClockTyped'
      BY <1>2 DEF ClockTyped, ForceOrder
    <2>2. SocketTyped'
      BY <1>2 DEF SocketTyped, ForceOrder, Rows
    <2>3. FlushTyped' /\ TableTyped' /\ RoundTyped' /\ FlagTyped' /\ HistoryTyped'
      BY <1>2 DEF FlushTyped, TableTyped, RoundTyped, FlagTyped, HistoryTyped, ForceOrder,
         flushVars, history, pollVars, tables
    <2> QED BY <1>a, <2>1, <2>2, <2>3
  <1>3. CASE \E c \in Connections \union {Market} : Disconnect(c)
    <2>1. ClockTyped'
      BY <1>3, IngestAssumption DEF ClockTyped, Disconnect
    <2>2. SocketTyped'
      BY <1>3 DEF SocketTyped, Disconnect, Rows, KlinesOf
    <2>3. HistoryTyped'
      BY <1>3 DEF HistoryTyped, Disconnect, SocketTyped, Rows, KlinesOf
    <2>4. FlushTyped' /\ TableTyped' /\ RoundTyped' /\ FlagTyped'
      BY <1>3 DEF FlushTyped, TableTyped, RoundTyped, FlagTyped, Disconnect, flushVars, pollVars,
         tables
    <2> QED BY <1>a, <2>1, <2>2, <2>3, <2>4
  <1>4. CASE Reconnects
    <2>1. ClockTyped'
      BY <1>4 DEF ClockTyped, Reconnects, Reconnect
    <2>2. SocketTyped'
      BY <1>4 DEF SocketTyped, Reconnects, Reconnect
    <2>3. FlushTyped' /\ TableTyped' /\ RoundTyped' /\ FlagTyped' /\ HistoryTyped'
      BY <1>4 DEF FlushTyped, TableTyped, RoundTyped, FlagTyped, HistoryTyped, Reconnects,
         Reconnect, flushVars, history, pollVars, tables
    <2> QED BY <1>a, <2>1, <2>2, <2>3
  <1>5. CASE Reader
    <2>1. ClockTyped'
      BY <1>5 DEF ClockTyped, Reader, CollectKline, CollectOrder
    <2>2. SocketTyped'
      BY <1>5 DEF SocketTyped, Reader, CollectKline, CollectOrder, Rows
    <2>3. FlushTyped'
      BY <1>5 DEF FlushTyped, Reader, CollectKline, CollectOrder, SocketTyped, Rows
    <2>4. TableTyped' /\ RoundTyped' /\ FlagTyped' /\ HistoryTyped'
      BY <1>5 DEF TableTyped, RoundTyped, FlagTyped, HistoryTyped, Reader, CollectKline,
         CollectOrder, history, pollVars, tables
    <2> QED BY <1>a, <2>1, <2>2, <2>3, <2>4
  <1>6. CASE FlushStart
    <2>1. ClockTyped'
      BY <1>6 DEF ClockTyped, FlushStart, Swap
    <2>2. FlushTyped'
      BY <1>6, NothingTyped DEF FlushTyped, FlushStart, Swap
    <2>3. SocketTyped' /\ TableTyped' /\ RoundTyped' /\ FlagTyped' /\ HistoryTyped'
      BY <1>6 DEF SocketTyped, TableTyped, RoundTyped, FlagTyped, HistoryTyped, FlushStart, Swap,
         history, pollVars, socketVars, tables
    <2> QED BY <1>a, <2>1, <2>2, <2>3
  <1>7. CASE FlushCommit
    <2>1. ClockTyped'
      BY <1>7 DEF ClockTyped, FlushCommit, Write
    <2>2. FlushTyped'
      BY <1>7, NothingTyped DEF FlushTyped, FlushCommit, Write
    <2>3. TableTyped'
      BY <1>7 DEF TableTyped, FlushCommit, Write
    <2>4. SocketTyped' /\ RoundTyped' /\ FlagTyped' /\ HistoryTyped'
      BY <1>7 DEF SocketTyped, RoundTyped, FlagTyped, HistoryTyped, FlushCommit, Write, history,
         pollVars, socketVars
    <2> QED BY <1>a, <2>1, <2>2, <2>3, <2>4
  <1>8. CASE FlushFails
    <2>1. ClockTyped'
      BY <1>8, IngestAssumption DEF ClockTyped, FlushFails
    <2>2. FlushTyped'
      BY <1>8, NothingTyped DEF FlushTyped, FlushFails
    <2>3. HistoryTyped'
      BY <1>8 DEF HistoryTyped, FlushFails, FlushTyped, Rows
    <2>4. SocketTyped' /\ TableTyped' /\ RoundTyped' /\ FlagTyped'
      BY <1>8 DEF SocketTyped, TableTyped, RoundTyped, FlagTyped, FlushFails, pollVars,
         socketVars, tables
    <2> QED BY <1>a, <2>1, <2>2, <2>3, <2>4
  <1>9. CASE RoundStart
    <2>1. ClockTyped'
      BY <1>9 DEF ClockTyped, RoundStart
    <2>2. RoundTyped'
      BY <1>9 DEF RoundTyped, RoundStart
    <2>3. FlagTyped'
      BY <1>9 DEF FlagTyped, RoundStart
    <2>4. SocketTyped' /\ FlushTyped' /\ TableTyped' /\ HistoryTyped'
      BY <1>9 DEF SocketTyped, FlushTyped, TableTyped, HistoryTyped, RoundStart, flushVars,
         history, socketVars, tables
    <2> QED BY <1>a, <2>1, <2>2, <2>3, <2>4
  <1>10. CASE RoundFails
    <2>1. ClockTyped'
      BY <1>10, IngestAssumption DEF ClockTyped, RoundFails
    <2>2. RoundTyped'
      BY <1>10 DEF RoundTyped, RoundFails
    <2>3. FlagTyped'
      BY <1>10 DEF FlagTyped, RoundFails
    <2>4. SocketTyped' /\ FlushTyped' /\ TableTyped' /\ HistoryTyped'
      BY <1>10 DEF SocketTyped, FlushTyped, TableTyped, HistoryTyped, RoundFails, flushVars,
         history, socketVars, tables
    <2> QED BY <1>a, <2>1, <2>2, <2>3, <2>4
  <1>11. CASE \E s \in Symbols : PollSymbol(s)
    <2>1. ClockTyped'
      BY <1>11 DEF ClockTyped, PollSymbol
    <2>2. RoundTyped'
      BY <1>11, IngestAssumption DEF RoundTyped, PollSymbol, ClockTyped
    <2>3. FlagTyped'
      BY <1>11 DEF FlagTyped, PollSymbol
    <2>4. SocketTyped' /\ FlushTyped' /\ TableTyped' /\ HistoryTyped'
      BY <1>11 DEF SocketTyped, FlushTyped, TableTyped, HistoryTyped, PollSymbol, flushVars,
         history, socketVars, tables
    <2> QED BY <1>a, <2>1, <2>2, <2>3, <2>4
  <1>12. CASE ReadAnswer
    <2>1. ClockTyped'
      BY <1>12 DEF ClockTyped, ReadAnswer
    <2>2. RoundTyped'
      BY <1>12 DEF RoundTyped, ReadAnswer, ClockTyped
    <2>3. FlagTyped'
      BY <1>12 DEF FlagTyped, ReadAnswer
    <2>4. SocketTyped' /\ FlushTyped' /\ TableTyped' /\ HistoryTyped'
      BY <1>12 DEF SocketTyped, FlushTyped, TableTyped, HistoryTyped, ReadAnswer, flushVars,
         history, socketVars, tables
    <2> QED BY <1>a, <2>1, <2>2, <2>3, <2>4
  <1>13. CASE PollStored
    <2>1. ClockTyped'
      BY <1>13 DEF ClockTyped, PollStored
    <2>2. TableTyped'
      BY <1>13 DEF TableTyped, PollStored
    <2>3. RoundTyped'
      BY <1>13, IngestAssumption DEF RoundTyped, PollStored
    <2>4. FlagTyped'
      BY <1>13 DEF FlagTyped, PollStored
    <2>5. HistoryTyped'
      BY <1>13 DEF HistoryTyped, PollStored, Finished, Answer
    <2>6. SocketTyped' /\ FlushTyped'
      BY <1>13 DEF SocketTyped, FlushTyped, PollStored, flushVars, socketVars
    <2> QED BY <1>a, <2>1, <2>2, <2>3, <2>4, <2>5, <2>6
  <1>14. CASE PollFails
    <2>1. ClockTyped'
      BY <1>14, IngestAssumption DEF ClockTyped, PollFails
    <2>2. RoundTyped'
      BY <1>14, IngestAssumption DEF RoundTyped, PollFails
    <2>3. FlagTyped'
      BY <1>14 DEF FlagTyped, PollFails
    <2>4. HistoryTyped'
      BY <1>14 DEF HistoryTyped, PollFails, RoundTyped
    <2>5. SocketTyped' /\ FlushTyped' /\ TableTyped'
      BY <1>14 DEF SocketTyped, FlushTyped, TableTyped, PollFails, flushVars, socketVars, tables
    <2> QED BY <1>a, <2>1, <2>2, <2>3, <2>4, <2>5
  <1>15. CASE SymbolsDone
    <2>1. ClockTyped'
      BY <1>15 DEF ClockTyped, SymbolsDone
    <2>2. RoundTyped'
      BY <1>15 DEF RoundTyped, SymbolsDone
    <2>3. FlagTyped'
      BY <1>15 DEF FlagTyped, SymbolsDone
    <2>4. SocketTyped' /\ FlushTyped' /\ TableTyped' /\ HistoryTyped'
      BY <1>15 DEF SocketTyped, FlushTyped, TableTyped, HistoryTyped, SymbolsDone, flushVars,
         history, socketVars, tables
    <2> QED BY <1>a, <2>1, <2>2, <2>3, <2>4
  <1>16. CASE \E s \in Symbols : SeedSymbol(s)
    <2>1. ClockTyped'
      BY <1>16, IngestAssumption DEF ClockTyped, SeedSymbol
    <2>2. TableTyped'
      BY <1>16 DEF TableTyped, SeedSymbol
    <2>3. RoundTyped'
      BY <1>16 DEF RoundTyped, SeedSymbol
    <2>4. FlagTyped'
      BY <1>16 DEF FlagTyped, SeedSymbol
    <2>5. SocketTyped' /\ FlushTyped' /\ HistoryTyped'
      BY <1>16 DEF SocketTyped, FlushTyped, HistoryTyped, SeedSymbol, flushVars, history, socketVars
    <2> QED BY <1>a, <2>1, <2>2, <2>3, <2>4, <2>5
  <1>17. CASE RoundEnd
    <2>1. ClockTyped'
      BY <1>17 DEF ClockTyped, RoundEnd
    <2>2. RoundTyped'
      BY <1>17 DEF RoundTyped, RoundEnd
    <2>3. FlagTyped'
      BY <1>17 DEF FlagTyped, RoundEnd, SeedFlag
    <2>4. SocketTyped' /\ FlushTyped' /\ TableTyped' /\ HistoryTyped'
      BY <1>17 DEF SocketTyped, FlushTyped, TableTyped, HistoryTyped, RoundEnd, flushVars,
         history, socketVars, tables
    <2> QED BY <1>a, <2>1, <2>2, <2>3, <2>4
  <1>18. CASE CrashRestart
    <2>1. ClockTyped'
      BY <1>18, IngestAssumption DEF ClockTyped, CrashRestart
    <2>2. SocketTyped'
      BY <1>18, NothingTyped DEF SocketTyped, CrashRestart
    <2>3. FlushTyped'
      BY <1>18, NothingTyped DEF FlushTyped, CrashRestart
    <2>4. RoundTyped'
      BY <1>18, IngestAssumption DEF RoundTyped, CrashRestart
    <2>5. FlagTyped'
      BY <1>18 DEF FlagTyped, CrashRestart
    <2>6. HistoryTyped'
      BY <1>18 DEF HistoryTyped, CrashRestart, SocketTyped, FlushTyped, Rows
    <2>7. TableTyped'
      BY <1>18 DEF TableTyped, CrashRestart, tables
    <2> QED BY <1>a, <2>1, <2>2, <2>3, <2>4, <2>5, <2>6, <2>7
  <1>19. CASE UNCHANGED vars
    BY <1>19 DEF vars, socketVars, flushVars, tables, pollVars, history, TypeOK, NothingLeft
  <1> QED BY <1>a, <1>1, <1>2, <1>3, <1>4, <1>5, <1>6, <1>7, <1>8, <1>9, <1>10, <1>11, <1>12,
         <1>13, <1>14, <1>15, <1>16, <1>17, <1>18, <1>19 DEF Next, Exchange, Flusher, Poller

(* The tables, the lists and the poller keep their types, and no flush or round
   leaves anything to the next. *)
THEOREM TypeCorrect == Spec => []TypeOK
  BY InitTyped, NextTyped, PTL DEF Spec

-----------------------------------------------------------------------------
(* Where the running seed stands: what it has not stored is still in its queue. *)
SeedAccounted ==
  /\ seeded => funding = Symbols
  /\ round = "funding" /\ ~seeded /\ ~seedFailed => Symbols \subseteq funding \union queue

LEMMA NextSeed == TypeOK /\ SeedAccounted /\ [Next]_vars => SeedAccounted'
  <1> SUFFICES ASSUME TypeOK, SeedAccounted, [Next]_vars PROVE SeedAccounted'
    OBVIOUS
  <1> USE DEF SeedAccounted
  <1>1. CASE Exchange
    BY <1>1 DEF Exchange, MinuteCloses, ForceOrder, Disconnect, tables, pollVars
  <1>2. CASE Reconnects \/ Reader
    BY <1>2 DEF Reconnects, Reader, Reconnect, CollectKline, CollectOrder, tables, pollVars
  <1>3. CASE FlushStart \/ FlushCommit \/ FlushFails
    BY <1>3 DEF FlushStart, FlushCommit, FlushFails, Write, tables, pollVars
  <1>4. CASE RoundStart \/ RoundFails \/ ReadAnswer
    BY <1>4 DEF RoundStart, RoundFails, ReadAnswer, tables
  <1>5. CASE \E s \in Symbols : PollSymbol(s)
    BY <1>5 DEF PollSymbol, tables
  <1>6. CASE PollStored \/ PollFails
    BY <1>6 DEF PollStored, PollFails, tables, TypeOK, NothingLeft
  <1>7. CASE SymbolsDone
    BY <1>7 DEF SymbolsDone, tables
  <1>8. CASE \E s \in Symbols : SeedSymbol(s)
    BY <1>8 DEF SeedSymbol, TypeOK
  <1>9. CASE RoundEnd
    BY <1>9 DEF RoundEnd, SeedFlag, tables, TypeOK
  <1>10. CASE CrashRestart
    BY <1>10 DEF CrashRestart, tables
  <1>11. CASE UNCHANGED vars
    BY <1>11 DEF vars, tables, pollVars
  <1> QED BY <1>1, <1>2, <1>3, <1>4, <1>5, <1>6, <1>7, <1>8, <1>9, <1>10, <1>11
          DEF Next, Flusher, Poller

(* The funding history counts as seeded only once every symbol has it, whatever
   failed before. *)
THEOREM SeedIsComplete == Spec => []SeededIsComplete
  <1>1. Init => SeedAccounted
    BY DEF Init, SeedAccounted
  <1>2. SeedAccounted => SeededIsComplete
    BY DEF SeedAccounted, SeededIsComplete
  <1> QED BY InitTyped, NextTyped, NextSeed, <1>1, <1>2, PTL DEF Spec

-----------------------------------------------------------------------------
(* Where a force order is between the exchange and the table: never twice. *)
OnceAt(o) ==
  /\ o \in wire.orders => /\ o \in reported /\ liquidations[o] = 0
                          /\ o \notin pending.orders /\ o \notin batch.orders
  /\ o \in pending.orders => /\ o \in reported /\ liquidations[o] = 0
                             /\ o \notin Foreign /\ o \notin batch.orders
  /\ o \in batch.orders => o \in reported /\ liquidations[o] = 0 /\ o \notin Foreign
  /\ liquidations[o] # 0 => o \in reported /\ liquidations[o] = 1 /\ o \notin Foreign
OrdersOnce == \A o \in Orders : OnceAt(o)

LEMMA NextOrders == TypeOK /\ OrdersOnce /\ [Next]_vars => OrdersOnce'
  <1> SUFFICES ASSUME TypeOK, OrdersOnce, [Next]_vars, NEW o \in Orders PROVE OnceAt(o)'
    BY DEF OrdersOnce
  <1>a. OnceAt(o)
    BY DEF OrdersOnce
  <1>b. wire \in Rows /\ pending \in Rows /\ batch \in Rows /\ liquidations \in [Orders -> Nat]
    BY DEF TypeOK
  <1> USE DEF OnceAt
  <1>1. CASE MinuteCloses
    BY <1>1, <1>a, <1>b DEF MinuteCloses, Rows, flushVars, tables
  <1>2. CASE ForceOrder
    BY <1>2, <1>a, <1>b DEF ForceOrder, Rows, flushVars, tables
  <1>3. CASE \E c \in Connections \union {Market} : Disconnect(c)
    BY <1>3, <1>a, <1>b DEF Disconnect, Rows, flushVars, tables
  <1>4. CASE Reconnects
    BY <1>4, <1>a DEF Reconnects, Reconnect, flushVars, tables
  <1>5. CASE CollectKline
    BY <1>5, <1>a, <1>b DEF CollectKline, Rows, tables
  <1>6. CASE CollectOrder
    BY <1>6, <1>a, <1>b DEF CollectOrder, Rows, tables
  <1>7. CASE FlushStart
    BY <1>7, <1>a DEF FlushStart, Swap, Nothing, socketVars, tables
  <1>8. CASE FlushCommit
    <2>1. liquidations'[o] = liquidations[o] + (IF o \in batch.orders THEN 1 ELSE 0)
      BY <1>8 DEF FlushCommit, Write
    <2> QED BY <1>8, <1>a, <1>b, <2>1 DEF FlushCommit, Write, Nothing, socketVars
  <1>9. CASE FlushFails
    BY <1>9, <1>a DEF FlushFails, Nothing, socketVars, tables
  <1>10. CASE RoundStart \/ RoundFails \/ ReadAnswer \/ PollFails \/ SymbolsDone \/ RoundEnd
    BY <1>10, <1>a DEF RoundStart, RoundFails, ReadAnswer, PollFails, SymbolsDone, RoundEnd,
       socketVars, flushVars, tables
  <1>11. CASE PollStored
    BY <1>11, <1>a DEF PollStored, socketVars, flushVars
  <1>12. CASE \E s \in Symbols : PollSymbol(s) \/ SeedSymbol(s)
    BY <1>12, <1>a DEF PollSymbol, SeedSymbol, socketVars, flushVars, tables
  <1>13. CASE CrashRestart
    BY <1>13, <1>a DEF CrashRestart, Nothing, tables
  <1>14. CASE UNCHANGED vars
    BY <1>14, <1>a DEF vars, socketVars, flushVars, tables
  <1> QED BY <1>1, <1>2, <1>3, <1>4, <1>5, <1>6, <1>7, <1>8, <1>9, <1>10, <1>11, <1>12, <1>13, <1>14
          DEF Next, Exchange, Reader, Flusher, Poller

(* A force order is stored at most once, one outside the universe never, however
   disconnections, failed flushes and crashes fall. *)
THEOREM OrdersStoredOnce == Spec => []LiquidationsOnce
  <1>1. Init => OrdersOnce
    BY DEF Init, OrdersOnce, OnceAt, Nothing
  <1>2. TypeOK /\ OrdersOnce => LiquidationsOnce
    <2> SUFFICES ASSUME TypeOK, OrdersOnce, NEW o \in Orders
                 PROVE  /\ liquidations[o] + (IF o \in pending.orders THEN 1 ELSE 0)
                             + (IF o \in batch.orders THEN 1 ELSE 0) <= 1
                        /\ o \in Foreign => liquidations[o] = 0
      BY DEF LiquidationsOnce
    <2>1. OnceAt(o) /\ liquidations[o] \in Nat
      BY DEF OrdersOnce, TypeOK
    <2> QED BY <2>1 DEF OnceAt
  <1> QED BY InitTyped, NextTyped, NextOrders, <1>1, <1>2, PTL DEF Spec

-----------------------------------------------------------------------------
(* What makes a backfill cover what it claims to. *)
BackfillCovers ==
  /\ answered <= minute
  /\ cutoff # NotRead /\ ~backfilled => answered <= cutoff
  /\ \A r \in healed : klines[r] # "none"

(* Where a closed kline is that the table does not have. *)
Whereabouts ==
  wire.klines \union pending.klines \union batch.klines \union missed \union dropped
KlinesTracked ==
  \A r \in Klines : r[2] <= minute /\ klines[r] = "none" => r \in Whereabouts

LEMMA NextCovers == TypeOK /\ BackfillCovers /\ [Next]_vars => BackfillCovers'
  <1> SUFFICES ASSUME TypeOK, BackfillCovers, [Next]_vars PROVE BackfillCovers'
    OBVIOUS
  <1> USE DEF BackfillCovers
  <1>a. minute \in Nat /\ answered \in Nat /\ cutoff \in Int /\ healed \subseteq Klines
    BY IngestAssumption DEF TypeOK, NotRead
  <1>1. CASE MinuteCloses
    BY <1>1, <1>a DEF MinuteCloses, tables, pollVars
  <1>2. CASE ForceOrder \/ (\E c \in Connections \union {Market} : Disconnect(c))
    BY <1>2 DEF ForceOrder, Disconnect, tables, pollVars, history
  <1>3. CASE Reconnects \/ Reader
    BY <1>3 DEF Reconnects, Reader, Reconnect, CollectKline, CollectOrder, tables, pollVars, history
  <1>4. CASE FlushStart \/ FlushFails
    BY <1>4 DEF FlushStart, FlushFails, tables, pollVars, history
  <1>5. CASE FlushCommit
    BY <1>5, <1>a DEF FlushCommit, Write, pollVars, history
  <1>6. CASE RoundStart \/ RoundFails \/ SymbolsDone
    BY <1>6 DEF RoundStart, RoundFails, SymbolsDone, tables, history
  <1>7. CASE \E s \in Symbols : PollSymbol(s)
    BY <1>7, <1>a DEF PollSymbol, tables, history
  <1>8. CASE ReadAnswer
    BY <1>8, <1>a DEF ReadAnswer, tables, history
  <1>9. CASE PollStored
    <2>1. asked' = NoSymbol /\ answered' = 0 /\ cutoff' = NotRead /\ minute' = minute
      BY <1>9 DEF PollStored
    <2>2. ASSUME NEW r \in healed' PROVE klines'[r] # "none"
      <3>1. r \in Klines
        BY <1>9, <1>a DEF PollStored, Finished, Answer
      <3>2. CASE r \in healed
        BY <1>9, <3>1, <3>2 DEF PollStored
      <3>3. CASE ~backfilled /\ r \in Finished
        <4>1. r[2] \in Nat
          BY <3>1 DEF Klines, Minutes
        <4>2. answered <= cutoff
          BY <1>9, <3>3 DEF PollStored
        <4>3. r \in Kept
          BY <3>3, <4>1, <4>2, <1>a DEF Kept, Finished
        <4> QED BY <1>9, <3>1, <3>3, <4>3 DEF PollStored
      <3> QED BY <1>9, <2>2, <3>2, <3>3 DEF PollStored
    <2> QED BY <2>1, <2>2, <1>a
  <1>10. CASE PollFails
    BY <1>10, <1>a DEF PollFails, tables
  <1>11. CASE \E s \in Symbols : SeedSymbol(s)
    BY <1>11 DEF SeedSymbol, history
  <1>12. CASE RoundEnd
    BY <1>12 DEF RoundEnd, tables, history
  <1>13. CASE CrashRestart
    BY <1>13, <1>a DEF CrashRestart, tables
  <1>14. CASE UNCHANGED vars
    BY <1>14 DEF vars, tables, pollVars, history
  <1> QED BY <1>1, <1>2, <1>3, <1>4, <1>5, <1>6, <1>7, <1>8, <1>9, <1>10, <1>11, <1>12, <1>13, <1>14
          DEF Next, Exchange, Flusher, Poller

LEMMA NextTracked == TypeOK /\ KlinesTracked /\ [Next]_vars => KlinesTracked'
  <1> SUFFICES ASSUME TypeOK, KlinesTracked, [Next]_vars PROVE KlinesTracked'
    OBVIOUS
  <1> USE DEF KlinesTracked, Whereabouts
  <1>a. /\ minute \in Nat /\ wire \in Rows /\ pending \in Rows /\ batch \in Rows
        /\ \A r \in Klines : r[2] \in Nat
    BY IngestAssumption DEF TypeOK, Klines, Minutes
  <1>1. CASE MinuteCloses
    <2>1. ASSUME NEW r \in Klines, r[2] <= minute', klines'[r] = "none"
          PROVE  r \in Whereabouts'
      <3>1. CASE r[2] <= minute
        BY <1>1, <1>a, <2>1, <3>1 DEF MinuteCloses, Rows, flushVars, tables
      <3>2. CASE r[2] = minute + 1
        <4>1. r \in Symbols \X {minute + 1}
          BY <3>2 DEF Klines
        <4> QED BY <1>1, <1>a, <4>1 DEF MinuteCloses, Rows
      <3> QED BY <1>1, <1>a, <2>1, <3>1, <3>2 DEF MinuteCloses
    <2> QED BY <1>1, <2>1 DEF MinuteCloses, flushVars
  <1>2. CASE ForceOrder
    BY <1>2, <1>a DEF ForceOrder, Rows, flushVars, tables, history
  <1>3. CASE \E c \in Connections \union {Market} : Disconnect(c)
    BY <1>3, <1>a DEF Disconnect, KlinesOf, Rows, flushVars, tables
  <1>4. CASE Reconnects
    BY <1>4 DEF Reconnects, Reconnect, flushVars, tables, history
  <1>5. CASE CollectKline
    BY <1>5, <1>a DEF CollectKline, Rows, tables, history
  <1>6. CASE CollectOrder
    BY <1>6, <1>a DEF CollectOrder, Rows, tables, history
  <1>7. CASE FlushStart
    BY <1>7, <1>a DEF FlushStart, Swap, Nothing, socketVars, tables, history, TypeOK, NothingLeft
  <1>8. CASE FlushCommit
    <2>1. \A r \in Klines : klines'[r] = "none" => klines[r] = "none" /\ r \notin batch.klines
      BY <1>8 DEF FlushCommit, Write
    <2> QED BY <1>8, <1>a, <2>1 DEF FlushCommit, Write, Nothing, socketVars, history
  <1>9. CASE FlushFails
    BY <1>9 DEF FlushFails, Nothing, socketVars, tables
  <1>10. CASE RoundStart \/ RoundFails \/ ReadAnswer \/ PollFails \/ SymbolsDone \/ RoundEnd
    BY <1>10 DEF RoundStart, RoundFails, ReadAnswer, PollFails, SymbolsDone, RoundEnd,
       socketVars, flushVars, tables, history
  <1>11. CASE PollStored
    <2>1. \A r \in Klines : klines'[r] = "none" => klines[r] = "none"
      BY <1>11 DEF PollStored
    <2> QED BY <1>11, <2>1 DEF PollStored, socketVars, flushVars
  <1>12. CASE \E s \in Symbols : PollSymbol(s) \/ SeedSymbol(s)
    BY <1>12 DEF PollSymbol, SeedSymbol, socketVars, flushVars, tables, history
  <1>13. CASE CrashRestart
    BY <1>13, <1>a DEF CrashRestart, Nothing, tables
  <1>14. CASE UNCHANGED vars
    BY <1>14 DEF vars, socketVars, flushVars, tables, history
  <1> QED BY <1>1, <1>2, <1>3, <1>4, <1>5, <1>6, <1>7, <1>8, <1>9, <1>10, <1>11, <1>12, <1>13, <1>14
          DEF Next, Exchange, Reader, Flusher, Poller

(* A closed kline that the table lacks is on its way, or was missed or lost; and
   none is lacking that a committed backfill covered. *)
THEOREM GapsAccounted == Spec => []GapsAreExplained
  <1>1. Init => BackfillCovers /\ KlinesTracked
    BY DEF Init, BackfillCovers, KlinesTracked, Nothing, NotRead, Klines, Minutes
  <1>2. BackfillCovers /\ KlinesTracked => GapsAreExplained
    BY DEF BackfillCovers, KlinesTracked, Whereabouts, GapsAreExplained
  <1> QED BY InitTyped, NextTyped, NextCovers, NextTracked, <1>1, <1>2, PTL DEF Spec
=============================================================================
