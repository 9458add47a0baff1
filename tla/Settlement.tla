------------------------------ MODULE Settlement ------------------------------
(***************************************************************************)
(* What billing promises about a payment, without its handlers: the bank   *)
(* receives a payment for a charge, or reports the charge in a word the    *)
(* Hub has no status for; the Hub may then settle the charge, once; and it *)
(* acknowledges to the bank's callback that a payment was taken in only    *)
(* when the charge is settled, at the latest in that step.  An             *)
(* acknowledgement may be withdrawn, a settlement never.                   *)
(***************************************************************************)
EXTENDS Integers

CONSTANT Charge

VARIABLES
  received,     \* charges for which the bank has received a payment
  unmapped,     \* charges the bank has reported in a word unknown to the Hub
  settlements,  \* how often the Hub has settled each charge
  acknowledged  \* charges with an acknowledged payment callback

vars == <<received, unmapped, settlements, acknowledged>>

Init ==
  /\ received = {}
  /\ unmapped = {}
  /\ settlements = [c \in Charge |-> 0]
  /\ acknowledged = {}

Receive(c) ==
  /\ received' = received \cup {c}
  /\ UNCHANGED <<unmapped, settlements, acknowledged>>

\* An unmapped word is taken for a payment (services.py:838).
Report(c) ==
  /\ unmapped' = unmapped \cup {c}
  /\ UNCHANGED <<received, settlements, acknowledged>>

Settle(c) ==
  /\ c \in received \cup unmapped /\ settlements[c] = 0
  /\ settlements' = [settlements EXCEPT ![c] = 1]
  /\ acknowledged' \in {acknowledged, acknowledged \cup {c}}
  /\ UNCHANGED <<received, unmapped>>

Acknowledge(c) ==
  /\ settlements[c] = 1
  /\ acknowledged' = acknowledged \cup {c}
  /\ UNCHANGED <<received, unmapped, settlements>>

\* A second attempt at a callback that began before the first was acknowledged
\* may end by marking it failed again: the acknowledgement is withdrawn.
Withdraw(c) ==
  /\ acknowledged' = acknowledged \ {c}
  /\ UNCHANGED <<received, unmapped, settlements>>

Next ==
  \E c \in Charge : \/ Receive(c) \/ Report(c)
                    \/ Settle(c) \/ Acknowledge(c) \/ Withdraw(c)

Spec == Init /\ [][Next]_vars
=============================================================================
