------------------------------ MODULE MCBilling ------------------------------
(* Instances of Billing for TLC. *)
EXTENDS Billing, TLC

CONSTANTS c1, s1, w1, w2, b1

OneCharge == {c1}
OneSlip == {s1}
OneRequest == {w1}
TwoRequests == {w1, w2}
OneBeat == {b1}
NoBeat == {}

JobsOnIssuedCharges == {"create", "cancel", "sync", "overdue", "webhook"}
JobsWithoutCancel == {"create", "emit", "sync", "overdue", "webhook", "pdf"}

AllFaults == FaultNames
CrashesAndErrors == {"crash", "gateway_error"}

\* Only full callbacks of a payment of the nominal amount.
ReceivedCallbacks == {"recebido"}

\* The callbacks the Hub takes for a payment, in full and light.
PaymentCallbacks == {"recebido", "recebido_outro_valor", "protesto", "light"}

Symmetry == Permutations(Web) \cup Permutations(Slip)
=============================================================================
