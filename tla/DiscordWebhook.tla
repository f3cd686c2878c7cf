----------------------------- MODULE DiscordWebhook -----------------------------
(***************************************************************************)
(* Delivery of one alert after another through a Discord webhook           *)
(* (discord.py): a token bucket before the call, up to three posts, and    *)
(* the pauses that Discord or a failure asks for.  Calls do not overlap:   *)
(* AlertService awaits each one.  Time is counted in ticks, and a token    *)
(* takes TokenTicks of them to come back; tokens are counted in ticks.     *)
(***************************************************************************)
EXTENDS Integers

CONSTANTS
  Capacity,     \* tokens the bucket holds
  TokenTicks,   \* ticks in which one token is refilled
  Quiet         \* retry_after and X-RateLimit-Reset-After values of Discord

ASSUME WebhookAssumption ==
  /\ Capacity \in Nat \ {0} /\ TokenTicks \in Nat \ {0}
  /\ Quiet \subseteq Nat

Full == Capacity * TokenTicks
Attempts == 3
Backoff(n) == IF n = 0 THEN 1 ELSE 2 * n   \* 2**n, for the n of range(3)

VARIABLES
  tokens,     \* bucket.tokens, as of the last update
  since,      \* time since bucket._updated_at; beyond Full it makes no difference
  phase,      \* where send_alert is
  left,       \* ticks its asyncio.sleep has still to run
  attempt,    \* the loop's variable
  limited,    \* saw_rate_limit
  status,     \* last_delivery_status
  result,     \* what the last call gave: "none", "true", "false" or "raised"
  copies,     \* history: copies of the alert Discord has
  doubted,    \* history: posts of the call answered by a 5xx or not at all
  quiet,      \* history: ticks during which Discord asked not to be called
  level       \* history: what the calls so far hold of the allowed burst

bucket == <<tokens, since>>
call == <<phase, left, attempt, limited>>
history == <<copies, doubted, quiet, level>>
vars == <<tokens, since, phase, left, attempt, limited, status, result,
          copies, doubted, quiet, level>>

Least(a, b) == IF a <= b THEN a ELSE b
Less1(n) == IF n = 0 THEN 0 ELSE n - 1

Init ==
  /\ tokens = Full /\ since = 0
  /\ phase = "idle" /\ left = 0 /\ attempt = 0 /\ limited = FALSE
  /\ status = "pending" /\ result = "none"
  /\ copies = 0 /\ doubted = 0 /\ quiet = 0 /\ level = 0

Tick ==
  /\ since' = Least(Full, since + 1)
  /\ left' = Less1(left) /\ quiet' = Less1(quiet) /\ level' = Less1(level)
  /\ UNCHANGED <<tokens, phase, attempt, limited, status, result, copies, doubted>>

-----------------------------------------------------------------------------
SendAlert ==
  /\ phase = "idle"
  /\ phase' = "acquire" /\ attempt' = 0 /\ limited' = FALSE
  /\ result' = "none" /\ copies' = 0 /\ doubted' = 0
  /\ UNCHANGED <<bucket, left, status, quiet, level>>

(* TokenBucket.acquire: time is turned into tokens when someone asks. *)
RefilledBeyond == tokens + since
Refilled == Least(Full, tokens + since)

TakeToken ==
  /\ phase = "acquire" /\ left = 0
  /\ Refilled >= TokenTicks
  /\ tokens' = Refilled - TokenTicks /\ since' = 0
  /\ phase' = "post"
  /\ level' = level + TokenTicks
  /\ UNCHANGED <<left, attempt, limited, status, result, copies, doubted, quiet>>

WaitForTokenForgets ==
  /\ phase = "acquire" /\ left = 0
  /\ Refilled < TokenTicks
  /\ UNCHANGED tokens /\ since' = 0
  /\ left' = TokenTicks - Refilled
  /\ UNCHANGED <<phase, attempt, limited, status, result, history>>
WaitForToken ==
  /\ phase = "acquire" /\ left = 0
  /\ Refilled < TokenTicks
  /\ tokens' = Refilled /\ since' = 0
  /\ left' = TokenTicks - Refilled
  /\ UNCHANGED <<phase, attempt, limited, status, result, history>>

-----------------------------------------------------------------------------
(* The answers to a post. *)
Return(r) ==
  /\ phase' = "idle" /\ left' = 0 /\ attempt' = 0 /\ limited' = FALSE
  /\ result' = r

(* 200 or 204: a used-up limit is slept off before the call returns. *)
Delivered ==
  /\ phase = "post"
  /\ copies' = copies + 1
  /\ \E pause \in Quiet \union {0} :
       /\ left' = pause /\ quiet' = pause
       /\ phase' = "delivered"
  /\ UNCHANGED <<bucket, attempt, limited, status, result, doubted, level>>

ReturnTrue ==
  /\ phase = "delivered" /\ left = 0
  /\ status' = "sent"
  /\ Return("true")
  /\ UNCHANGED <<bucket, history>>

(* 429: retry_after is slept off, after the last attempt too. *)
RateLimitedLastUnslept ==
  /\ phase = "post"
  /\ \E pause \in Quiet :
       left' = (IF attempt = Attempts - 1 THEN 0 ELSE pause) /\ quiet' = pause
  /\ limited' = TRUE /\ phase' = "retry"
  /\ UNCHANGED <<bucket, attempt, status, result, copies, doubted, level>>
RateLimited ==
  /\ phase = "post"
  /\ \E pause \in Quiet : left' = pause /\ quiet' = pause
  /\ limited' = TRUE /\ phase' = "retry"
  /\ UNCHANGED <<bucket, attempt, status, result, copies, doubted, level>>

(* 5xx: Discord may have the alert all the same.  *)
ServerError ==
  /\ phase = "post"
  /\ \E taken \in {0, 1} : copies' = copies + taken
  /\ doubted' = doubted + 1
  /\ left' = Backoff(attempt) /\ phase' = "retry"
  /\ UNCHANGED <<bucket, attempt, limited, status, result, quiet, level>>

(* Any other answer ends the call. *)
RefusedKeepsStatus ==
  /\ phase = "post"
  /\ Return("false")
  /\ UNCHANGED <<bucket, status, history>>
Refused ==
  /\ phase = "post"
  /\ status' = "failed"
  /\ Return("false")
  /\ UNCHANGED <<bucket, history>>

(* The post times out or its connection breaks, or the pause of an answer cannot
   be parsed: send_alert raises, with whatever status an earlier call left. *)
Raises ==
  /\ phase = "post"
  /\ \E taken \in {0, 1} : copies' = copies + taken
  /\ doubted' = doubted + 1
  /\ Return("raised")
  /\ UNCHANGED <<bucket, status, quiet, level>>

RetryOnceMore ==
  /\ phase = "retry" /\ left = 0 /\ attempt + 1 <= Attempts
  /\ attempt' = attempt + 1
  /\ phase' = "post"
  /\ UNCHANGED <<bucket, left, limited, status, result, history>>
Retry ==
  /\ phase = "retry" /\ left = 0 /\ attempt + 1 < Attempts
  /\ attempt' = attempt + 1
  /\ phase' = "post"
  /\ UNCHANGED <<bucket, left, limited, status, result, history>>

GiveUp ==
  /\ phase = "retry" /\ left = 0 /\ attempt + 1 = Attempts
  /\ status' = IF limited THEN "rate_limited" ELSE "failed"
  /\ Return("false")
  /\ UNCHANGED <<bucket, history>>

-----------------------------------------------------------------------------
Answer == Delivered \/ RateLimited \/ ServerError \/ Refused \/ Raises
Proceed == \/ TakeToken \/ WaitForToken \/ Answer \/ ReturnTrue \/ Retry \/ GiveUp

Next == Tick \/ SendAlert \/ Proceed

Spec == Init /\ [][Next]_vars

(* Sleeps end, and the HTTP client gives an answer up after its timeout. *)
FairSpec == Spec /\ WF_vars(Tick) /\ WF_vars(Proceed)

-----------------------------------------------------------------------------
(* Every variable has its type. *)
TypeOK ==
  /\ tokens \in 0..Full /\ since \in 0..Full
  /\ phase \in {"idle", "acquire", "post", "delivered", "retry"}
  /\ left \in Nat /\ attempt \in 0..(Attempts - 1) /\ limited \in BOOLEAN
  /\ status \in {"pending", "sent", "failed", "rate_limited"}
  /\ result \in {"none", "true", "false", "raised"}
  /\ copies \in Nat /\ doubted \in Nat /\ quiet \in Nat /\ level \in Nat

(* In any stretch of time the webhook starts at most capacity alerts plus what
   the refill rate allows for it, however the calls are spaced: the level of a
   leaky bucket that a call fills and time empties stays within capacity. *)
BurstBounded == level <= Full

(* While Discord has asked not to be called - by a 429 or by the headers of a
   success - nothing is posted, not even by the next call. *)
QuietRespected == phase = "post" => quiet = 0

(* What the caller stores is what became of the alert: "sent" if Discord took
   it, something else only if no post is known to have delivered it.  No status
   is left over from an earlier call unless this one raised, and a second copy is
   posted only after an answer that left the fate of the first open. *)
StatusTellsDelivery ==
  /\ result = "true" => status = "sent" /\ copies >= 1
  /\ result = "false" => status \in {"failed", "rate_limited"} /\ copies <= doubted
  /\ copies <= doubted + 1

(* A call comes to its end: the bucket lets it pass, the attempts run out. *)
CallReturns == phase # "idle" ~> phase = "idle"
=============================================================================
