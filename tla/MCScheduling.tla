----------------------------- MODULE MCScheduling -----------------------------
(* Instances of Scheduling for TLC. *)
EXTENDS Scheduling, TLC

CONSTANTS b1, b2, p1, s1, w1, w2

TwoBookings == {b1, b2}
OneProfessional == {p1}
OneService == {s1}
TwoWorkers == {w1, w2}

OnePaying == {b1}
TwoStarts == {0, 2}
TwoMinutes == [s \in Service |-> 2]
\* None, and a minute after the appointment.
SomeBuffers == {[before |-> 0, after |-> 0], [before |-> 0, after |-> 1]}
OneBlock == {[pro |-> p1, from |-> 3, to |-> 5]}

NothingOrAll == {0, Price}
\* A rule of the service with a high priority, half a percent for the professional,
\* and a branch's.
ThreeRules ==
  {[id |-> 1, branch |-> FALSE, pro |-> None, svc |-> s1, kind |-> "fixed", value |-> 40,
    priority |-> 9],
   [id |-> 2, branch |-> FALSE, pro |-> p1, svc |-> None, kind |-> "percent", value |-> 50,
    priority |-> 0],
   [id |-> 3, branch |-> TRUE, pro |-> p1, svc |-> s1, kind |-> "fixed", value |-> 200,
    priority |-> 9]}

Symmetry == Permutations(Worker)
=============================================================================
