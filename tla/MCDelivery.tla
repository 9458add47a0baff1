------------------------------ MODULE MCDelivery ------------------------------
(* Instances of Delivery for TLC. *)
EXTENDS Delivery, TLC

CONSTANTS m1, m2, i1, i2, i3, w1, w2

TwoMessages == {m1, m2}
OneSilent == {m2}
ThreeInbound == {i1, i2, i3}
\* The third message comes from another phone.
TwoPhones == [i \in Inbound |-> IF i = i3 THEN "b" ELSE "a"]
TwoWorkers == {w1, w2}
=============================================================================
