----------------------------- MODULE MCProvider -----------------------------
(* Instances of Provider for TLC. *)
EXTENDS Provider, TLC

CONSTANTS c1, w1, b1

OneCharge == {c1}
OneRequest == {w1}
OneBeat == {b1}
OneSetEach == [inter |-> 1, asaas |-> 1, c6 |-> 0]
InterAndAsaas == {"inter", "asaas"}

\* Inter sends a callback of every change, protests too, Asaas of payments received.
PaymentsOfAsaas ==
  [inter |-> EventNames \ {"refunded"}, asaas |-> {"received"}, c6 |-> {}]
\* The Asaas account is subscribed to its other payment events too.
AllOfAsaas ==
  [inter |-> {}, asaas |-> {"created", "received", "refunded", "deleted"}, c6 |-> {}]
=============================================================================
