-------------------------------- MODULE MCPlans --------------------------------
(* Two keys, the second of which is the first with ":2" and has room for one  *)
(* more suffix only; two requests at a time that may ask for different plans   *)
(* under them; ends of long, short and leap months, amounts that do not        *)
(* divide, a recurrence cut off by the limit.                                  *)
EXTENDS Plans, TLC

CONSTANTS k1, k2, w1, w2

TwoKeys == {k1, k2}
KeysOfParts ==
  [p \in TwoKeys \X (2..MaxParts) |->
     IF p = <<k1, 2>> THEN k2 ELSE IF p[1] = k2 /\ p[2] > 2 THEN None ELSE p]
TwoWorkers == {w1, w2}

On(y, m, d) == [y |-> y, m |-> m, d |-> d]
Asks(kind, amount, first, count, until) ==
  [kind |-> kind, amount |-> amount, first |-> first, count |-> count, until |-> until]

FirstDay == On(2027, 1, 1)
SomeRequests ==
  {Asks("simple", 250, On(2028, 1, 30), 0, None),
   Asks("installment", 749, On(2028, 12, 31), 3, None),
   Asks("recurring", 250, On(2028, 1, 30), 0, On(2028, 3, 29)),
   Asks("recurring", 250, On(2028, 1, 30), 2, On(2028, 1, 30)),
   Asks("recurring", 300, On(2027, 3, 31), 0, On(2099, 1, 1))}

Symmetry == Permutations(TwoWorkers)
=============================================================================
