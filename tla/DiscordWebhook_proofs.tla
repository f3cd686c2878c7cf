------------------------- MODULE DiscordWebhook_proofs -------------------------
(***************************************************************************)
(* Proofs about DiscordWebhook, for every capacity, refill rate and pause. *)
(***************************************************************************)
EXTENDS DiscordWebhook, TLAPS

(* What the bucket could give at once and what the calls hold of the burst never
   exceed the capacity together: time gives to the one what it takes from the
   other, and a call moves a token across. *)
BucketInv == level + Refilled <= Full

(* A silence Discord asked for is covered by the sleep of the call under way. *)
SleepInv == quiet <= (IF phase \in {"retry", "delivered"} THEN left ELSE 0)

IInv == TypeOK /\ BucketInv /\ SleepInv

LEMMA FullIsNat == Full \in Nat /\ Full >= TokenTicks
  <1>1. \A a, b \in Nat \ {0} : a * b \in Nat /\ a * b >= b
    BY SMT
  <1> QED BY <1>1, WebhookAssumption DEF Full

LEMMA RefilledRange ==
  ASSUME tokens \in 0..Full, since \in 0..Full
  PROVE  Refilled \in 0..Full
  BY FullIsNat DEF Refilled, Least

THEOREM Inductive == Spec => []IInv
  <1>1. Init => IInv
    <2> SUFFICES ASSUME Init PROVE IInv
      OBVIOUS
    <2>1. limited \in BOOLEAN
      BY ZenonT(30) DEF Init
    <2> QED BY <2>1, FullIsNat, WebhookAssumption
            DEF Init, IInv, TypeOK, BucketInv, SleepInv, Refilled, Least, Attempts
  <1>2. IInv /\ [Next]_vars => IInv'
    <2> SUFFICES ASSUME IInv, [Next]_vars PROVE IInv'
      OBVIOUS
    <2> USE WebhookAssumption, FullIsNat
    <2>0. Refilled \in 0..Full
      BY RefilledRange DEF IInv, TypeOK
    <2>1. CASE Tick
      BY <2>1 DEF Tick, IInv, TypeOK, BucketInv, SleepInv, Refilled, Least, Less1
    <2>2. CASE SendAlert
      <3>1. limited' \in BOOLEAN
        BY <2>2, Zenon DEF SendAlert
      <3> QED BY <2>2, <3>1 DEF SendAlert, IInv, TypeOK, BucketInv, SleepInv, Refilled, Least, bucket, Attempts
    <2>3. CASE TakeToken
      <3>1. tokens' \in 0..Full /\ since' \in 0..Full
        BY <2>0, <2>3 DEF TakeToken
      <3>2. Refilled' = Refilled - TokenTicks
        BY <2>0, <2>3 DEF TakeToken, Refilled, Least
      <3>3. BucketInv'
        BY <2>0, <2>3, <3>2 DEF TakeToken, IInv, TypeOK, BucketInv
      <3> QED BY <2>3, <3>1, <3>3 DEF TakeToken, IInv, TypeOK, SleepInv
    <2>4. CASE WaitForToken
      <3>1. Refilled' = Refilled
        BY <2>0, <2>4 DEF WaitForToken, Refilled, Least
      <3> QED BY <2>0, <2>4, <3>1 DEF WaitForToken, IInv, TypeOK, BucketInv, SleepInv, history
    <2>5. CASE Delivered
      BY <2>5 DEF Delivered, IInv, TypeOK, BucketInv, SleepInv, Refilled, bucket
    <2>6. CASE RateLimited
      BY <2>6 DEF RateLimited, IInv, TypeOK, BucketInv, SleepInv, Refilled, bucket
    <2>7. CASE ServerError
      BY <2>7 DEF ServerError, IInv, TypeOK, BucketInv, SleepInv, Refilled, bucket, Backoff, Attempts
    <2>8. CASE Refused
      <3>1. limited' \in BOOLEAN
        BY <2>8, Zenon DEF Refused, Return
      <3> QED BY <2>8, <3>1 DEF Refused, Return, IInv, TypeOK, BucketInv, SleepInv, Refilled, bucket, history, Attempts
    <2>9. CASE Raises
      <3>1. limited' \in BOOLEAN
        BY <2>9, Zenon DEF Raises, Return
      <3> QED BY <2>9, <3>1 DEF Raises, Return, IInv, TypeOK, BucketInv, SleepInv, Refilled, bucket, Attempts
    <2>10. CASE ReturnTrue
      <3>1. limited' \in BOOLEAN
        BY <2>10, Zenon DEF ReturnTrue, Return
      <3> QED BY <2>10, <3>1 DEF ReturnTrue, Return, IInv, TypeOK, BucketInv, SleepInv, Refilled, bucket, history, Attempts
    <2>11. CASE Retry
      BY <2>11 DEF Retry, IInv, TypeOK, BucketInv, SleepInv, Refilled, bucket, history, Attempts
    <2>12. CASE GiveUp
      <3>1. limited' \in BOOLEAN
        BY <2>12, Zenon DEF GiveUp, Return
      <3> QED BY <2>12, <3>1 DEF GiveUp, Return, IInv, TypeOK, BucketInv, SleepInv, Refilled, bucket, history, Attempts
    <2>13. CASE UNCHANGED vars
      BY <2>13 DEF vars, IInv, TypeOK, BucketInv, SleepInv, Refilled
    <2> QED
      BY <2>1, <2>2, <2>3, <2>4, <2>5, <2>6, <2>7, <2>8, <2>9, <2>10, <2>11, <2>12, <2>13
      DEF Next, Proceed, Answer
  <1> QED BY <1>1, <1>2, PTL DEF Spec

(* Every variable keeps its type: the tokens of the bucket stay within its
   capacity and no attempt beyond the third is made. *)
THEOREM TypeCorrect == Spec => []TypeOK
  BY Inductive, PTL DEF IInv

(* However the calls are spaced, the alerts started in any stretch of time are
   bounded by the capacity and the refill rate. *)
THEOREM BurstIsBounded == Spec => []BurstBounded
  <1>1. IInv => BurstBounded
    BY RefilledRange, FullIsNat DEF IInv, TypeOK, BucketInv, BurstBounded
  <1> QED BY <1>1, Inductive, PTL

(* Nothing is posted while Discord has asked for silence. *)
THEOREM SilenceIsKept == Spec => []QuietRespected
  <1>1. IInv => QuietRespected
    BY DEF IInv, TypeOK, SleepInv, QuietRespected
  <1> QED BY <1>1, Inductive, PTL

(* A copy that no doubted post accounts for is the one whose success is known: the call
   is waiting to return true, or has. *)
CopiesInv ==
  /\ phase # "idle" => result = "none"
  /\ phase = "delivered" \/ result = "true" => copies \in 1..doubted + 1
  /\ phase # "delivered" /\ result # "true" => copies <= doubted

(* What a returned call reports. *)
ReportInv ==
  /\ result = "true" => status = "sent"
  /\ result = "false" => status \in {"failed", "rate_limited"}

(* The status a call leaves tells what became of its alert, and a second copy needs an
   answer that left the fate of the first open: for any answers of Discord. *)
THEOREM StatusIsTrue == Spec => []StatusTellsDelivery
  <1>1. Init => CopiesInv /\ ReportInv
    BY DEF Init, CopiesInv, ReportInv
  <1>2. TypeOK /\ CopiesInv /\ ReportInv /\ [Next]_vars => (CopiesInv /\ ReportInv)'
    <2> SUFFICES ASSUME TypeOK, CopiesInv, ReportInv, [Next]_vars
                 PROVE  CopiesInv' /\ ReportInv'
      OBVIOUS
    <2> USE DEF CopiesInv, ReportInv
    <2>0. copies \in Nat /\ doubted \in Nat
      BY DEF TypeOK
    <2>1. CASE Tick
      BY <2>1 DEF Tick
    <2>2. CASE SendAlert
      BY <2>2 DEF SendAlert
    <2>3. CASE TakeToken
      BY <2>3 DEF TakeToken
    <2>4. CASE WaitForToken
      BY <2>4 DEF WaitForToken, history
    <2>5. CASE Delivered
      BY <2>0, <2>5 DEF Delivered
    <2>6. CASE RateLimited
      BY <2>6 DEF RateLimited
    <2>7. CASE ServerError
      BY <2>0, <2>7 DEF ServerError
    <2>8. CASE Refused
      BY <2>8 DEF Refused, Return, history
    <2>9. CASE Raises
      BY <2>0, <2>9 DEF Raises, Return
    <2>10. CASE ReturnTrue
      BY <2>10 DEF ReturnTrue, Return, history
    <2>11. CASE Retry
      BY <2>11 DEF Retry, history
    <2>12. CASE GiveUp
      BY <2>12 DEF GiveUp, Return, history
    <2>13. CASE UNCHANGED vars
      BY <2>13 DEF vars
    <2> QED
      BY <2>1, <2>2, <2>3, <2>4, <2>5, <2>6, <2>7, <2>8, <2>9, <2>10, <2>11, <2>12, <2>13
      DEF Next, Proceed, Answer
  <1>3. TypeOK /\ CopiesInv /\ ReportInv => StatusTellsDelivery
    BY DEF TypeOK, CopiesInv, ReportInv, StatusTellsDelivery
  <1> QED BY <1>1, <1>2, <1>3, TypeCorrect, PTL DEF Spec
=============================================================================
