----------------------------- MODULE MCSyncBatch -----------------------------
(* Instances of SyncBatch for TLC. *)
EXTENDS SyncBatch, TLC

CONSTANTS c1, c2, c3, c4

FourCharges == {c1, c2, c3, c4}
OneBroken == {c1}
=============================================================================
