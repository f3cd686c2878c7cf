---------------------------- MODULE OiSample_proofs ----------------------------
(***************************************************************************)
(* The two indices of oi_change_sample find the partner of every row, for  *)
(* any answer of the query and any window.  The invariant: rows before i   *)
(* have their change, rows from i on have none yet, and every row between  *)
(* i and j is too young for i - and so for all that follow, which are      *)
(* older than i.                                                           *)
(***************************************************************************)
EXTENDS OiSample, TLAPS

OiInv ==
  /\ rows \in Seq(Row) /\ Descending(rows)
  /\ i \in 1..n + 1 /\ j \in Nat
  /\ changes = [k \in 1..n |-> changes[k]]
  /\ i <= n => \A m \in 1..n : i < m /\ m < j => Young(i, m)
  /\ i <= n => \A k \in i..n : changes[k] = None
  /\ \A k \in 1..n : k < i => changes[k] = ChangeOverWindow(k)

LEMMA RowsAreTimed ==
  ASSUME rows \in Seq(Row), NEW a \in 1..n
  PROVE  rows[a].ts \in Int
  <1>1. rows[a] \in Row
    BY DEF n
  <1> QED BY <1>1 DEF Row

(* A row that is not young is older than the window, and the other way round. *)
LEMMA YoungOrOlder ==
  ASSUME rows \in Seq(Row), NEW a \in 1..n, NEW b \in 1..n
  PROVE  Young(a, b) <=> b \notin Older(a)
  <1>1. rows[a].ts \in Int /\ rows[b].ts \in Int
    BY RowsAreTimed
  <1> QED BY <1>1, OiAssumption DEF Young, Older, n

(* What is too young for a row is too young for the rows after it. *)
LEMMA YoungForTheNext ==
  ASSUME rows \in Seq(Row), Descending(rows), NEW a \in 1..n, NEW c \in 1..n, NEW b \in 1..n,
         a <= c, Young(a, b)
  PROVE  Young(c, b)
  <1>1. rows[a].ts \in Int /\ rows[b].ts \in Int /\ rows[c].ts \in Int
    BY RowsAreTimed
  <1>2. rows[c].ts <= rows[a].ts
    BY <1>1 DEF Descending, n
  <1> QED BY <1>1, <1>2, OiAssumption DEF Young

(* A row is never old enough for itself or for a row after it. *)
LEMMA OlderIsBehind ==
  ASSUME rows \in Seq(Row), Descending(rows), NEW a \in 1..n, NEW b \in Older(a)
  PROVE  b \in 1..n /\ a < b
  <1>1. b \in 1..n /\ rows[a].ts - rows[b].ts >= Window
    BY DEF Older
  <1>2. rows[a].ts \in Int /\ rows[b].ts \in Int
    BY <1>1, RowsAreTimed
  <1>3. CASE b <= a
    <2>1. rows[a].ts <= rows[b].ts
      BY <1>1, <1>2, <1>3 DEF Descending, n
    <2> QED BY <1>1, <1>2, <2>1, OiAssumption
  <1> QED BY <1>1, <1>3 DEF n

(* The first row that is not too young is the partner. *)
LEMMA FirstIsPartner ==
  ASSUME rows \in Seq(Row), Descending(rows), NEW a \in 1..n, NEW b \in 1..n, a < b, ~Young(a, b),
         \A m \in 1..n : a < m /\ m < b => Young(a, m)
  PROVE  ChangeOverWindow(a) = PctChange(rows[a].oi, rows[b].oi)
  <1>1. b \in Older(a)
    BY YoungOrOlder
  <1>2. \A l \in Older(a) : b <= l
    <2> SUFFICES ASSUME NEW l \in Older(a), l < b PROVE FALSE
      BY OlderIsBehind DEF n
    <2>1. l \in 1..n /\ a < l
      BY OlderIsBehind
    <2> QED BY <2>1, YoungOrOlder
  <1>3. Partner(a) = b
    <2>1. \A m \in Older(a) : (\A l \in Older(a) : m <= l) => m = b
      BY <1>1, <1>2 DEF Older, n
    <2> QED BY <1>1, <1>2, <2>1 DEF Partner
  <1> QED BY <1>1, <1>3 DEF ChangeOverWindow

LEMMA OiInvInit == OiInit => OiInv
  <1> SUFFICES ASSUME OiInit PROVE OiInv
    OBVIOUS
  <1>1. rows \in Seq(Row) /\ Descending(rows)
    BY OiAssumption DEF OiInit
  <1>2. n \in Nat
    BY <1>1 DEF n
  <1> QED BY <1>1, <1>2 DEF OiInit, OiInv

LEMMA OiInvNext == OiInv /\ [OiNext]_oiVars => OiInv'
  <1> SUFFICES ASSUME OiInv, [OiNext]_oiVars PROVE OiInv'
    OBVIOUS
  <1>1. n \in Nat /\ rows \in Seq(Row) /\ Descending(rows) /\ i \in 1..n + 1 /\ j \in Nat
    BY DEF OiInv, n
  <1>2. CASE Walk
    <2>1. /\ rows' = rows /\ n' = n /\ i' = i /\ changes' = changes /\ j' = Behind + 1
          /\ i <= n /\ Behind <= n /\ Young(i, Behind)
      BY <1>2 DEF Walk, n
    <2>2. \A k \in 1..n : ChangeOverWindow(k)' = ChangeOverWindow(k)
      BY <2>1 DEF ChangeOverWindow, Older, Partner, n
    <2>3. \A m \in 1..n : i < m /\ m < Behind + 1 => Young(i, m)
      BY <1>1, <2>1 DEF OiInv, Behind
    <2>4. Behind \in Nat
      BY <1>1 DEF Behind
    <2>5. (i <= n => \A m \in 1..n : i < m /\ m < j => Young(i, m))'
      BY <2>1, <2>3 DEF Young
    <2>6. (rows \in Seq(Row) /\ Descending(rows) /\ i \in 1..n + 1 /\ j \in Nat)'
      BY <1>1, <2>1, <2>4 DEF Descending
    <2>7. /\ (changes = [k \in 1..n |-> changes[k]])'
          /\ (i <= n => \A k \in i..n : changes[k] = None)'
      BY <2>1 DEF OiInv
    <2>8. (\A k \in 1..n : k < i => changes[k] = ChangeOverWindow(k))'
      BY <2>1, <2>2 DEF OiInv
    <2> QED BY <2>5, <2>6, <2>7, <2>8 DEF OiInv
  <1>3. CASE Compare
    <2>1. /\ rows' = rows /\ n' = n /\ i' = i + 1 /\ j' = Behind
          /\ changes' = [changes EXCEPT ![i] = PctChange(rows[i].oi, rows[Behind].oi)]
          /\ i <= n /\ Behind <= n /\ ~Young(i, Behind)
      BY <1>3 DEF Compare, n
    <2>2. Behind \in 1..n /\ i < Behind /\ i \in 1..n
      BY <1>1, <2>1 DEF Behind
    <2>3. \A m \in 1..n : i < m /\ m < Behind => Young(i, m)
      BY <1>1, <2>1 DEF OiInv, Behind
    <2>4. ChangeOverWindow(i) = PctChange(rows[i].oi, rows[Behind].oi)
      BY <1>1, <2>1, <2>2, <2>3, FirstIsPartner
    <2>5. \A k \in 1..n : ChangeOverWindow(k)' = ChangeOverWindow(k)
      BY <2>1 DEF ChangeOverWindow, Older, Partner, n
    <2>6. \A m \in 1..n : i < m /\ m < Behind /\ i + 1 <= n => Young(i + 1, m)
      BY <1>1, <2>2, <2>3, YoungForTheNext
    <2>7. (i <= n => \A m \in 1..n : i < m /\ m < j => Young(i, m))'
      BY <1>1, <2>1, <2>6 DEF Young
    <2>8. (changes = [k \in 1..n |-> changes[k]])'
      BY <1>1, <2>1 DEF OiInv
    <2>9. (i <= n => \A k \in i..n : changes[k] = None)'
      <3>1. \A k \in i + 1..n : changes'[k] = changes[k] /\ changes[k] = None
        <4> SUFFICES ASSUME NEW k \in i + 1..n PROVE changes'[k] = changes[k] /\ changes[k] = None
          OBVIOUS
        <4>1. k \in 1..n /\ k \in i..n /\ k # i
          BY <1>1
        <4>2. changes = [c \in 1..n |-> changes[c]]
          BY DEF OiInv
        <4> QED BY <2>1, <4>1, <4>2 DEF OiInv
      <3> QED BY <2>1, <3>1
    <2>10. (\A k \in 1..n : k < i => changes[k] = ChangeOverWindow(k))'
      BY <1>1, <2>1, <2>2, <2>4, <2>5 DEF OiInv
    <2>11. (i \in 1..n + 1 /\ j \in Nat)'
      BY <1>1, <2>1, <2>2
    <2> QED BY <1>1, <2>1, <2>7, <2>8, <2>9, <2>10, <2>11 DEF OiInv
  <1>4. CASE Break
    <2>1. /\ rows' = rows /\ n' = n /\ i' = n + 1 /\ j' = j /\ changes' = changes
          /\ i <= n /\ Behind > n
      BY <1>4 DEF Break, n
    <2>2. \A k \in 1..n : ChangeOverWindow(k)' = ChangeOverWindow(k)
      BY <2>1 DEF ChangeOverWindow, Older, Partner, n
    <2>3. \A m \in 1..n : i < m => Young(i, m)
      BY <1>1, <2>1 DEF OiInv, Behind
    <2>4. ASSUME NEW k \in i..n PROVE changes[k] = ChangeOverWindow(k)
      <3>1. k \in 1..n /\ i \in 1..n
        BY <1>1, <2>1
      <3>2. Older(k) = {}
        <4> SUFFICES ASSUME NEW m \in Older(k) PROVE FALSE
          OBVIOUS
        <4>1. m \in 1..n /\ k < m
          BY <1>1, <3>1, OlderIsBehind
        <4>2. Young(k, m)
          BY <1>1, <2>3, <3>1, <4>1, YoungForTheNext
        <4> QED BY <1>1, <3>1, <4>1, <4>2, YoungOrOlder
      <3> QED BY <2>1, <3>2 DEF OiInv, ChangeOverWindow
    <2>5. ASSUME NEW k \in 1..n PROVE changes[k] = ChangeOverWindow(k)
      <3>1. CASE k < i
        BY <3>1 DEF OiInv
      <3>2. CASE ~(k < i)
        <4>1. k \in i..n
          BY <1>1, <3>2
        <4> QED BY <2>4, <4>1
      <3> QED BY <3>1, <3>2
    <2>6. (\A k \in 1..n : k < i => changes[k] = ChangeOverWindow(k))'
      BY <2>1, <2>2, <2>5
    <2>7. (rows \in Seq(Row) /\ Descending(rows) /\ i \in 1..n + 1 /\ j \in Nat)'
      BY <1>1, <2>1 DEF Descending
    <2>8. (changes = [k \in 1..n |-> changes[k]])'
      BY <2>1 DEF OiInv
    <2>9. ~(i <= n)'
      BY <1>1, <2>1
    <2> QED BY <2>6, <2>7, <2>8, <2>9 DEF OiInv
  <1>5. CASE UNCHANGED oiVars
    <2>1. rows' = rows /\ i' = i /\ j' = j /\ changes' = changes /\ n' = n
      BY <1>5 DEF oiVars, n
    <2>2. \A k \in 1..n : ChangeOverWindow(k)' = ChangeOverWindow(k)
      BY <2>1 DEF ChangeOverWindow, Older, Partner, n
    <2>3. (\A k \in 1..n : k < i => changes[k] = ChangeOverWindow(k))'
      BY <2>1, <2>2 DEF OiInv
    <2>4. (i <= n => \A m \in 1..n : i < m /\ m < j => Young(i, m))'
      BY <2>1 DEF OiInv, Young
    <2>5. /\ (rows \in Seq(Row) /\ Descending(rows) /\ i \in 1..n + 1 /\ j \in Nat)'
          /\ (changes = [k \in 1..n |-> changes[k]])'
          /\ (i <= n => \A k \in i..n : changes[k] = None)'
      BY <2>1 DEF OiInv, Descending
    <2> QED BY <2>3, <2>4, <2>5 DEF OiInv
  <1> QED BY <1>2, <1>3, <1>4, <1>5 DEF OiNext

(* oi_change_sample gives every row the change over the window that _oi_context
   would compute for it, for every answer of the query. *)
THEOREM SampleIsAligned == OiSpec => []OiSampleIsAligned
  <1>1. OiInv => OiSampleIsAligned
    BY DEF OiInv, OiSampleIsAligned, n
  <1> QED BY <1>1, OiInvInit, OiInvNext, PTL DEF OiSpec
=============================================================================
