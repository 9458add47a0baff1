------------------------------- MODULE MCGuides -------------------------------
(* Instances of Guides for TLC. *)
EXTENDS Guides, TLC

CONSTANTS a1, a2, q1, q2, k1, k2, w1, w2

TwoCerts == {a1, a2}
TwoEnds == [c \in Cert |-> IF c = a1 THEN 1 ELSE 3]
TwoProxies == {q1, q2}
\* One that ends, and one without end that begins later.
Begins == [p \in Proxy |-> IF p = q1 THEN 0 ELSE 1]
Ends == [p \in Proxy |-> IF p = q1 THEN 1 ELSE None]
SamePair == [p \in Proxy |-> "pair"]
TwoKeys == {k1, k2}
SamePeriod == [k \in Key |-> "period"]
TwoWorkers == {w1, w2}
Symmetry == Permutations(Key) \cup Permutations(Worker)
=============================================================================
