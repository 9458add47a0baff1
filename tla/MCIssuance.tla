------------------------------ MODULE MCIssuance ------------------------------
(* Instances of Issuance for TLC. *)
EXTENDS Issuance, TLC

CONSTANTS i1, w1, w2, k1, k2, e1, e2

OneInvoice == {i1}
OneRequest == {w1}
TwoRequests == {w1, w2}
TwoWorkers == {k1, k2}
TwoBodies == {e1, e2}

AllRequests == RequestNames
CancelAndReprocess == {"cancel", "reprocess"}

AllFaults == FaultNames
ButPolls == {"crash", "refused"}

Symmetry == Permutations(Web) \cup Permutations(Celery) \cup Permutations(Body)
=============================================================================
