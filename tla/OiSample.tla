-------------------------------- MODULE OiSample --------------------------------
(***************************************************************************)
(* The open interest context of a snapshot (indicators.py, _oi_context):   *)
(* the newest rows of a symbol up to a minute, newest first, the change of *)
(* the first against the first one at least a window older, and            *)
(* oi_change_sample, which finds that partner for every row with two       *)
(* indices that only move forward.  Rows come at uneven times: history     *)
(* rows every five minutes, rows of the fallback whenever it was asked.    *)
(* One step is one comparison of the inner loop.                           *)
(***************************************************************************)
EXTENDS IndicatorMath, Sequences

CONSTANTS
  Window,    \* 900 seconds
  Limit,     \* 240 rows
  Answers    \* what the query may answer: see NewestFirst

Row == [ts : Int, oi : Nat]
Descending(answer) == \A a, b \in 1..Len(answer) : a < b => answer[b].ts < answer[a].ts

(* The query orders by ts, and the table has one row per symbol and ts. *)
ASSUME OiAssumption ==
  /\ Window \in Nat \ {0} /\ Limit \in Nat \ {0}
  /\ \A answer \in Answers : answer \in Seq(Row) /\ Descending(answer)

VARIABLES
  rows,      \* the answer of the query: rows[1] is the newest
  i, j,      \* the indices of the loops
  changes    \* the change of each row, None for one that has none: the list without the Nones

oiVars == <<rows, i, j, changes>>
n == Len(rows)

(* SELECT .. WHERE symbol = .. AND ts <= :ts ORDER BY ts DESC LIMIT 240, over a table
   that is a function from the ts of its rows. *)
NewestFirst(table) ==
  LET newer(t) == Cardinality({u \in DOMAIN table : u > t})
      kept == {t \in DOMAIN table : newer(t) < Limit}
  IN [k \in 1..Cardinality(kept) |->
        LET t == CHOOSE t \in kept : newer(t) = k - 1 IN [ts |-> t, oi |-> table[t]]]

OiInit ==
  /\ rows \in Answers
  /\ i = 1 /\ j = 2
  /\ changes = [k \in 1..n |-> None]

-----------------------------------------------------------------------------
(* The loop: j starts behind i and moves on while its row is too young. *)
Behind == IF j <= i THEN i + 1 ELSE j
YoungInclusive(a, b) == rows[b].ts >= rows[a].ts - Window
Young(a, b) == rows[b].ts > rows[a].ts - Window

Walk ==
  /\ i <= n /\ Behind <= n /\ Young(i, Behind)
  /\ j' = Behind + 1
  /\ UNCHANGED <<rows, i, changes>>

Compare ==
  /\ i <= n /\ Behind <= n /\ ~Young(i, Behind)
  /\ changes' = [changes EXCEPT ![i] = PctChange(rows[i].oi, rows[Behind].oi)]
  /\ i' = i + 1 /\ j' = Behind
  /\ UNCHANGED rows

(* No row is left that is old enough: the older ones of the loop have none either. *)
Break ==
  /\ i <= n /\ Behind > n
  /\ i' = n + 1
  /\ UNCHANGED <<rows, j, changes>>

OiNext == Walk \/ Compare \/ Break
OiSpec == OiInit /\ [][OiNext]_oiVars

-----------------------------------------------------------------------------
(* The first row at least a window older than row k: how oi_now finds oi_15m. *)
Older(k) == {m \in 1..n : rows[k].ts - rows[m].ts >= Window}
Partner(k) == CHOOSE m \in Older(k) : \A l \in Older(k) : m <= l
ChangeOverWindow(k) ==
  IF Older(k) = {} THEN None ELSE PctChange(rows[k].oi, rows[Partner(k)].oi)

(* Every row is compared with the newest row at least a window older than it, and
   only with that, however uneven the rows are; a row without one gives no change.
   So the sample consists of what oi_change_15m was, or would have been, at the time
   of each row, and starts with the change that is judged against it. *)
OiSampleIsAligned ==
  i > n => \A k \in 1..n : changes[k] = ChangeOverWindow(k)
=============================================================================
