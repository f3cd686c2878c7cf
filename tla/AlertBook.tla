------------------------------- MODULE AlertBook -------------------------------
(***************************************************************************)
(* What one pass of the alert loop promises about the table of alerts,     *)
(* whatever happens inside it: the table changes by whole passes.  A pass  *)
(* in mode m, in which the rules said said[k] (the minute they triggered   *)
(* for, or Silent), and whose expiry bound is bound,                       *)
(*   - opens the one row of what was said, unless it exists already;       *)
(*   - closes the open rows from before the bound, in every mode, and the  *)
(*     open rows of mode m of the covered keys about which it was silent;  *)
(*   - leaves every other row, and the closed ones for good.               *)
(***************************************************************************)
EXTENDS Integers

CONSTANTS Keys, Minutes, AllModes, Bounds,
          Covered,   \* Covered[m]: keys whose silence closes their rows in mode m
          Silent     \* not a minute

VARIABLE book

Slots == Keys \X Minutes \X AllModes

Init == book = [s \in Slots |-> "absent"]

Opened(s, m, said) == book[s] = "absent" /\ s[3] = m /\ said[s[1]] = s[2]

Closed(s, m, said, bound) ==
  /\ book[s] = "active"
  /\ s[2] < bound \/ (s[3] = m /\ s[1] \in Covered[m] /\ said[s[1]] = Silent)

Pass(m, said, bound) ==
  book' = [s \in Slots |-> IF Opened(s, m, said) THEN "active"
                           ELSE IF Closed(s, m, said, bound) THEN "closed" ELSE book[s]]

SomePass == \E m \in AllModes, said \in [Keys -> Minutes \union {Silent}], bound \in Bounds :
              Pass(m, said, bound)

(* A pass that changes nothing is a stutter. *)
Next == book' # book /\ SomePass

Spec == Init /\ [][Next]_book
=============================================================================
