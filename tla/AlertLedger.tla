------------------------------ MODULE AlertLedger ------------------------------
(***************************************************************************)
(* What the tables promise when several processes write alerts at once,    *)
(* whatever they wait for, lose or push: a pass gets on record as a whole. *)
(* AlertBook is the promise of one process; here rows that others opened   *)
(* while the pass was under way may stay although it was silent about      *)
(* them.  A pass in which the rules said said[k]                           *)
(*   - opens the one row of what was said, unless it is on record already; *)
(*   - closes only open rows that are stale or of silent keys;             *)
(*   - puts pushes on record only for rows it has opened itself, so that   *)
(*     no minute of a key is on record as pushed by two passes.            *)
(***************************************************************************)
EXTENDS Integers

CONSTANTS Keys, Minutes,
          ExpireAfter,   \* age beyond which a row is stale
          Silent         \* not a minute

VARIABLES now, book, pushed

vars == <<now, book, pushed>>
Slots == Keys \X Minutes

Init == now = 0 /\ book = [s \in Slots |-> "absent"] /\ pushed = {}

Tick == now' = now + 1 /\ UNCHANGED <<book, pushed>>

Opened(said) == {s \in Slots : book[s] = "absent" /\ said[s[1]] = s[2]}

Closable(said) ==
  {s \in Slots : book[s] = "active" /\ (s[2] < now - ExpireAfter \/ said[s[1]] = Silent)}

Pass(said, closed) ==
  /\ book' = [s \in Slots |-> IF s \in Opened(said) THEN "active"
                              ELSE IF s \in closed THEN "closed" ELSE book[s]]
  /\ pushed \subseteq pushed' /\ pushed' \subseteq pushed \union Opened(said)
  /\ UNCHANGED now

Next == Tick \/ \E said \in [Keys -> Minutes \union {Silent}] :
                  \E closed \in SUBSET Closable(said) : Pass(said, closed)

Spec == Init /\ [][Next]_vars
=============================================================================
