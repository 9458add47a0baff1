------------------------------ MODULE SyncBatch ------------------------------
(***************************************************************************)
(* billing.sync_open_charges over many charges: every run marks overdue    *)
(* charges, selects the `limit` open charges that were written longest     *)
(* ago (order_by updated_at), and syncs them one by one.  A sync that      *)
(* succeeds writes updated_at, so the charge goes to the end of the order; *)
(* one that raises is rolled back, so the charge keeps its place.  What a  *)
(* sync does to one charge is Billing; here it stays open or is closed.    *)
(***************************************************************************)
EXTENDS Integers, Sequences, FiniteSets

CONSTANTS
  Charge,   \* charges with a gateway_ref
  Limit,    \* rows that one run marks, and that one run selects
  Broken,   \* charges the gateway always refuses (lost reference, revoked credentials)
  MaxTouch  \* bounds how often a charge is written, or falls due, between syncs

ASSUME LimitAssumption == Limit \in Nat \ {0} /\ MaxTouch \in Nat
ASSUME BrokenAssumption == Broken \subseteq Charge

VARIABLES
  order,    \* open charges by updated_at, the longest unwritten first
  due,      \* charges past due and still pending or registered
  batch,    \* charges the current run selected and has not synced yet
  phase,    \* what the run does next: mark, select, sync
  touched   \* writes to each charge that were not syncs

vars == <<order, due, batch, phase, touched>>

Opened == {order[i] : i \in DOMAIN order}
Least(m, n) == IF m < n THEN m ELSE n
Drop(s, S) == SelectSeq(s, LAMBDA d : d \notin S)

NoneTwice(s) == \A i, j \in DOMAIN s : s[i] = s[j] => i = j

\* The shape of the rows and of the run: a charge has one place in the order,
\* only open ones wait to be marked overdue, and a run syncs at most Limit
\* charges, none of them twice.
TypeOK ==
  /\ order \in Seq(Charge) /\ NoneTwice(order)
  /\ due \in SUBSET Opened
  /\ batch \in Seq(Charge) /\ NoneTwice(batch) /\ Len(batch) <= Limit
  /\ phase \in {"mark", "select", "sync"}
  /\ touched \in [Charge -> 0..MaxTouch]

Init ==
  /\ order = <<>>
  /\ due = {}
  /\ batch = <<>>
  /\ phase = "mark"
  /\ touched = [c \in Charge |-> 0]

Touch(c) ==
  /\ touched[c] < MaxTouch
  /\ touched' = [touched EXCEPT ![c] = @ + 1]

-----------------------------------------------------------------------------
(* Requests and the calendar, between any two steps of the run *)

\* create_charge or emit_pending_charge registers a charge: written now.
Registered(c) ==
  /\ c \notin Opened /\ Touch(c)
  /\ order' = Append(order, c)
  /\ UNCHANGED <<due, batch, phase>>

\* A callback or the PDF endpoint writes the row; a callback or a cancellation
\* may close it.
Written(c) ==
  /\ c \in Opened /\ Touch(c)
  /\ \/ order' = Append(Drop(order, {c}), c) /\ UNCHANGED due
     \/ order' = Drop(order, {c}) /\ due' = due \ {c}
  /\ UNCHANGED <<batch, phase>>

FallsDue(c) ==
  /\ c \in Opened \ due /\ Touch(c)
  /\ due' = due \cup {c}
  /\ UNCHANGED <<order, batch, phase>>

\* mark_overdue_charges: one UPDATE for at most `limit` rows, in any order among
\* them afterwards, for they get the same updated_at.
MarkOverdue ==
  LET n == Least(Limit, Cardinality(due)) IN
  \E tail \in [1..n -> due] :
    LET marked == {tail[i] : i \in 1..n} IN
    /\ Cardinality(marked) = n
    /\ order' = Drop(order, marked) \o tail
    /\ due' = due \ marked

\* GET charges/ and charges/summary/ mark overdue charges too.
ListRequest ==
  /\ due # {} /\ MarkOverdue
  /\ UNCHANGED <<batch, phase, touched>>

-----------------------------------------------------------------------------
(* One run of sync_open_charges *)

Mark ==
  /\ phase = "mark" /\ phase' = "select"
  /\ MarkOverdue
  /\ UNCHANGED <<batch, touched>>

Select ==
  /\ phase = "select" /\ phase' = "sync"
  /\ batch' = SubSeq(order, 1, Least(Limit, Len(order)))
  /\ UNCHANGED <<order, due, touched>>

\* Mutant: save() without updated_at when the bank's answer changes nothing.
SyncOk_SavesChangesOnly(c) ==
  /\ phase = "sync" /\ batch # <<>> /\ c = Head(batch) /\ c \notin Broken
  /\ batch' = Tail(batch)
  /\ order' \in {order, Drop(order, {c})}
  /\ due' = due \cap {order'[i] : i \in DOMAIN order'}
  /\ UNCHANGED <<phase, touched>>

\* Mutant: a charge the bank's answer closes stays among those to mark.
SyncOk_LeavesDue(c) ==
  /\ phase = "sync" /\ batch # <<>> /\ c = Head(batch) /\ c \notin Broken
  /\ batch' = Tail(batch)
  /\ order' \in {Append(Drop(order, {c}), c), Drop(order, {c})}
  /\ UNCHANGED <<due, phase, touched>>

\* The charge as it was selected is saved: it stays open at the end of the order
\* (a stale save may even reopen one closed since), or the bank's answer closes it.
SyncOk(c) ==
  /\ phase = "sync" /\ batch # <<>> /\ c = Head(batch) /\ c \notin Broken
  /\ batch' = Tail(batch)
  /\ order' \in {Append(Drop(order, {c}), c), Drop(order, {c})}
  /\ due' = due \ {c}
  /\ UNCHANGED <<phase, touched>>

\* ChargeNotFoundError, GatewayRegistrationError, Exception: counted, rolled back.
SyncError(c) ==
  /\ phase = "sync" /\ batch # <<>> /\ c = Head(batch)
  /\ batch' = Tail(batch)
  /\ UNCHANGED <<order, due, phase, touched>>

RunEnds ==
  /\ phase = "sync" /\ batch = <<>> /\ phase' = "mark"
  /\ UNCHANGED <<order, due, batch, touched>>

Run == Mark \/ Select \/ RunEnds \/ \E c \in Charge : SyncOk(c) \/ SyncError(c)

Next ==
  \/ ListRequest \/ Run
  \/ \E c \in Charge : Registered(c) \/ Written(c) \/ FallsDue(c)

Spec == Init /\ [][Next]_vars

\* Celery beat runs the job for ever; a gateway that refuses a charge now and
\* then (one that is not broken) also answers now and then.
FairSpec ==
  /\ Spec
  /\ WF_vars(Run)
  /\ \A c \in Charge \ Broken : SF_vars(SyncOk(c))

-----------------------------------------------------------------------------
(* Properties *)

\* What tasks.py:15 says of the batch: every open charge is synced again and
\* again until it is closed, whatever else is written meanwhile.
EveryOpenChargeIsSynced ==
  \A c \in Charge \ Broken :
    []<>(c \notin Opened) \/ []<><<SyncOk(c)>>_vars
=============================================================================
