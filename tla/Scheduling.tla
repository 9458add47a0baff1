------------------------------ MODULE Scheduling ------------------------------
(***************************************************************************)
(* Appointments, their money and their commission in apps/scheduling.      *)
(*                                                                         *)
(* create_appointment looks the idempotency key up without a lock, then    *)
(* locks the Professional row and checks the calendar under it.  A status  *)
(* change locks the appointment with the professional it joins.  Deposit   *)
(* and settlement lock only the AppointmentFinancial row; completion locks *)
(* both, the appointment first.                                            *)
(***************************************************************************)
EXTENDS Integers, FiniteSets

CONSTANTS
  Booking,     \* idempotency keys, so appointments
  Professional, Service,
  Worker,      \* requests running at the same time
  Start,       \* minutes at which a booking may ask to start
  Duration,    \* minutes of each service
  Slack,       \* minutes a declared end may be off, one in the code
  Buffers,     \* what the buffers of a service may be set to
  BlockSpans,  \* calendar blocks and time off that staff may enter
  Opens, Closes, \* business hours
  Price,       \* price of every service, in units of money
  Paying,      \* appointments that requests record money and commission for
  Amounts,     \* the deposits and discounts asked for
  Rules,       \* the tenant's active CommissionRule rows
  None

ASSUME NoneAssumption == None \notin Booking \cup Professional \cup Service \cup Worker
ASSUME TimeAssumption ==
  /\ Start \subseteq Int /\ Opens \in Int /\ Closes \in Int
  /\ Duration \in [Service -> Nat \ {0}]
  /\ Buffers \subseteq [before : Nat, after : Nat] /\ Buffers # {}
  /\ BlockSpans \subseteq [pro : Professional, from : Int, to : Int]
ASSUME MoneyAssumption == Slack \in Nat /\ Paying \subseteq Booking /\ Price \in Nat /\ Amounts \subseteq Nat
ASSUME RuleAssumption ==
  /\ IsFiniteSet(Rules)
  /\ Rules \subseteq [id : Nat \ {0}, branch : BOOLEAN, pro : Professional \cup {None},
                     svc : Service \cup {None}, kind : {"percent", "fixed"},
                     value : Nat, priority : Int]
  /\ \A r, q \in Rules : r.id = q.id => r = q

-----------------------------------------------------------------------------
(* Rules of booking_rules.py *)

Status == {"pending", "confirmed", "no_show_pending", "no_show", "checked_in",
           "in_progress", "completed", "cancelled"}

\* SLOT_BLOCKING_STATUSES.
SlotBlocking == Status \ {"no_show", "cancelled"}

\* Mutant: a cancelled appointment may be confirmed again.
From_ConfirmsCancelled ==
  [confirmed |-> {"pending", "cancelled"}, checked_in |-> {"confirmed", "no_show_pending"},
   in_progress |-> {"checked_in"}, completed |-> {"in_progress"},
   no_show |-> {"pending", "confirmed", "no_show_pending"},
   cancelled |-> {"pending", "confirmed", "no_show_pending", "checked_in"}]

\* CONFIRM_FROM, CHECK_IN_FROM, START_FROM, COMPLETE_FROM, NO_SHOW_FROM, CANCEL_FROM.
From ==
  [confirmed |-> {"pending"}, checked_in |-> {"confirmed", "no_show_pending"},
   in_progress |-> {"checked_in"}, completed |-> {"in_progress"},
   no_show |-> {"pending", "confirmed", "no_show_pending"},
   cancelled |-> {"pending", "confirmed", "no_show_pending", "checked_in"}]

\* Half-open intervals.
Overlap(x, y) == x.from < y.to /\ y.from < x.to

Footprint(span, buffers) ==
  [from |-> span.from - buffers.before, to |-> span.to + buffers.after]

\* An end the request declares may be a minute off the service's duration.
EndsFor(from, service) ==
  {to \in (from + Duration[service] - Slack)..(from + Duration[service] + Slack) : to > from}

InBusinessHours(span) == Opens <= span.from /\ span.to <= Closes

\* The messages a status sends: event_type_for_status.
Announced == {"pending", "confirmed", "cancelled", "completed"}

-----------------------------------------------------------------------------
(* Commission: commission_resolution.py *)

\* No completion gives a branch, so a branch's rule applies to none.
Applies(r, row) ==
  ~r.branch /\ r.pro \in {None, row.pro} /\ r.svc \in {None, row.svc}

Specificity(r) == (IF r.pro # None THEN 10 ELSE 0) + (IF r.svc # None THEN 1 ELSE 0)

Beats(r, q) ==
  \/ Specificity(r) > Specificity(q)
  \/ Specificity(r) = Specificity(q) /\ r.priority > q.priority
  \/ Specificity(r) = Specificity(q) /\ r.priority = q.priority /\ r.id > q.id

\* Python's round: a half goes to the even neighbour.
RoundHalfEven(n, d) ==
  LET q == n \div d
      up == 2 * (n % d) > d \/ (2 * (n % d) = d /\ q % 2 = 1) IN
  IF up THEN q + 1 ELSE q

\* Never above the base.
Earned(r, base) ==
  LET asked == IF r.kind = "percent" THEN RoundHalfEven(base * r.value, 10000) ELSE r.value IN
  IF asked < base THEN asked ELSE base

\* create_commission_entry_for_completed: the best rule's share of the price, or
\* an entry of nothing where no rule applies.
Entry(row) ==
  LET rules == {r \in Rules : Applies(r, row)} IN
  IF rules = {} THEN [status |-> "pending", base |-> Price, rule |-> 0, commission |-> 0]
  ELSE LET best == CHOOSE r \in rules : \A q \in rules \ {r} : Beats(r, q) IN
       [status |-> "pending", base |-> Price, rule |-> best.id,
        commission |-> Earned(best, Price)]

-----------------------------------------------------------------------------
VARIABLES
  appt,     \* Appointment rows
  buffers,  \* buffers of each Service row
  blocks,   \* CalendarBlock, TimeOff rows
  fin,      \* AppointmentFinancial rows
  entry,    \* CommissionEntry rows: status, base amount
  told,     \* outbox messages of each appointment: how many of each type, up to 2
  proLock,  \* holder of the Professional row
  finLock,  \* holder of the financial row, or of its entry in the unique index
  job       \* what each request is doing and remembers

vars == <<appt, buffers, blocks, fin, entry, told, proLock, finLock, job>>

NoAppt == [status |-> "absent", pro |-> None, svc |-> None, from |-> 0, to |-> 0]
NoFin == [exists |-> FALSE, deposit |-> 0, discount |-> 0, settled |-> FALSE]
NewFin == [NoFin EXCEPT !.exists = TRUE]
EntryStatus == {"pending", "approved", "paid", "cancelled"}
NoEntry == [status |-> "absent", base |-> 0, rule |-> 0, commission |-> 0]
NoBuffers == CHOOSE b \in Buffers : TRUE
Idle == [pc |-> "idle", key |-> None, ask |-> NoAppt, buffers |-> NoBuffers,
         seen |-> NoFin, amount |-> 0]

\* Outside a lock, with the professional locked, with the financial row locked.
PC == {"idle", "lookup", "locked", "checked", "completing", "snapshot", "deposit", "settle"}

Row == [status : Status, pro : Professional, svc : Service, from : Int, to : Int]
Fin == [exists : BOOLEAN, deposit : Nat, discount : Nat, settled : BOOLEAN]

TypeOK ==
  /\ appt \in [Booking -> Row \cup {NoAppt}]
  /\ buffers \in [Service -> Buffers]
  /\ blocks \subseteq BlockSpans
  /\ fin \in [Booking -> Fin]
  /\ entry \in [Booking -> [status : EntryStatus \cup {"absent"}, base : Nat,
                         rule : Nat, commission : Nat]]
  /\ told \in [Booking -> [Announced -> 0..2]]
  /\ proLock \in [Professional -> Worker \cup {None}]
  /\ finLock \in [Booking -> Worker \cup {None}]
  /\ job \in [Worker -> [pc : PC, key : Booking \cup {None}, ask : Row \cup {NoAppt},
                         buffers : Buffers, seen : Fin, amount : Nat]]

Init ==
  /\ appt = [b \in Booking |-> NoAppt]
  /\ buffers \in [Service -> Buffers]
  /\ blocks = {}
  /\ fin = [b \in Booking |-> NoFin]
  /\ entry = [b \in Booking |-> NoEntry]
  /\ told = [b \in Booking |-> [e \in Announced |-> 0]]
  /\ proLock = [p \in Professional |-> None]
  /\ finLock = [b \in Booking |-> None]
  /\ job = [w \in Worker |-> Idle]

Exists(b) == appt[b].status # "absent"
Blocking(p) == {b \in Booking : appt[b].pro = p /\ appt[b].status \in SlotBlocking}

Release(w) ==
  /\ proLock' = [p \in Professional |-> IF proLock[p] = w THEN None ELSE proLock[p]]
  /\ finLock' = [b \in Booking |-> IF finLock[b] = w THEN None ELSE finLock[b]]
  /\ job' = [job EXCEPT ![w] = Idle]

\* enqueue_appointment_event, for a customer with a WhatsApp number.
Tell(b, status) ==
  told' = IF status \in Announced
          THEN [told EXCEPT ![b][status] = IF @ < 2 THEN @ + 1 ELSE @]
          ELSE told

-----------------------------------------------------------------------------
(* create_appointment *)

\* The key is new to this request.  A known key is answered with its row, or
\* refused if the request differs: no step.
BookLookup(w, b) ==
  /\ job[w].pc = "idle" /\ ~Exists(b)
  /\ \E p \in Professional, s \in Service, t \in Start, st \in {"pending", "confirmed"} :
     \E end \in EndsFor(t, s) :
       job' = [job EXCEPT ![w] =
                [Idle EXCEPT !.pc = "lookup", !.key = b,
                             !.ask = [status |-> st, pro |-> p, svc |-> s,
                                      from |-> t, to |-> end]]]
  /\ UNCHANGED <<appt, buffers, blocks, fin, entry, told, proLock, finLock>>

\* Mutant: the professional is read without FOR UPDATE.
BookLock_PlainRead(w) ==
  LET ask == job[w].ask IN
  /\ job[w].pc = "lookup" /\ proLock[ask.pro] = None
  /\ InBusinessHours(ask)
  /\ job' = [job EXCEPT ![w].pc = "locked", ![w].buffers = buffers[ask.svc]]
  /\ UNCHANGED <<appt, buffers, blocks, fin, entry, told, proLock, finLock>>

\* Professional row FOR UPDATE; the service is loaded and the hours checked.
BookLock(w) ==
  LET ask == job[w].ask IN
  /\ job[w].pc = "lookup" /\ proLock[ask.pro] = None
  /\ InBusinessHours(ask)
  /\ proLock' = [proLock EXCEPT ![ask.pro] = w]
  /\ job' = [job EXCEPT ![w].pc = "locked", ![w].buffers = buffers[ask.svc]]
  /\ UNCHANGED <<appt, buffers, blocks, fin, entry, told, finLock>>

ClearOfBlocks(p, footprint) ==
  \A x \in blocks : x.pro = p => ~Overlap(footprint, x)

\* assert_no_appointment_conflict: each appointment with the buffers its service
\* has now.
NoConflict(p, footprint) ==
  \A b \in Blocking(p) : ~Overlap(footprint, Footprint(appt[b], buffers[appt[b].svc]))

\* The last checks, as the calendar is now.
BookCheck(w) ==
  LET ask == job[w].ask
      footprint == Footprint(ask, job[w].buffers) IN
  /\ job[w].pc = "locked"
  /\ ClearOfBlocks(ask.pro, footprint) /\ NoConflict(ask.pro, footprint)
  /\ job' = [job EXCEPT ![w].pc = "checked", ![w].buffers = NoBuffers]
  /\ UNCHANGED <<appt, buffers, blocks, fin, entry, told, proLock, finLock>>

\* The row with its message, and the commit.
BookInsert(w) ==
  LET b == job[w].key IN
  /\ job[w].pc = "checked"
  /\ ~Exists(b)
  /\ appt' = [appt EXCEPT ![b] = job[w].ask]
  /\ Tell(b, job[w].ask.status)
  /\ Release(w)
  /\ UNCHANGED <<buffers, blocks, fin, entry>>

\* Any check that fails: a slot taken, a start in the past, a restricted customer,
\* a price or a duration that does not match, the key inserted by another.
BookRefused(w) ==
  /\ job[w].pc \in {"lookup", "locked", "checked"}
  /\ Release(w)
  /\ UNCHANGED <<appt, buffers, blocks, fin, entry, told>>

-----------------------------------------------------------------------------
(* _transition, and complete_appointment around it *)

\* One transaction on the locked rows; the same status again changes nothing.
Transition(w, b, new) ==
  /\ job[w].pc = "idle" /\ Exists(b) /\ proLock[appt[b].pro] = None
  /\ appt[b].status \in From[new]
  /\ appt' = [appt EXCEPT ![b].status = new]
  /\ Tell(b, new)
  /\ UNCHANGED <<buffers, blocks, fin, entry, proLock, finLock, job>>

CompleteLock(w, b) ==
  /\ job[w].pc = "idle" /\ Exists(b) /\ proLock[appt[b].pro] = None
  /\ appt[b].status \in From["completed"] \cup {"completed"}
  /\ proLock' = [proLock EXCEPT ![appt[b].pro] = w]
  /\ job' = [job EXCEPT ![w] = [Idle EXCEPT !.pc = "completing", !.key = b]]
  /\ UNCHANGED <<appt, buffers, blocks, fin, entry, told, finLock>>

\* ensure_financial_on_completed: the row is inserted or locked.
CompleteFinancial(w) ==
  LET b == job[w].key IN
  /\ job[w].pc = "completing" /\ finLock[b] = None
  /\ finLock' = [finLock EXCEPT ![b] = w]
  /\ job' = [job EXCEPT ![w].pc = "snapshot"]
  /\ UNCHANGED <<appt, buffers, blocks, fin, entry, told, proLock>>

\* Mutant: a financial row that was there already ends the completion.
CompleteCommit_ReturnsEarly(w) ==
  LET b == job[w].key IN
  /\ job[w].pc = "snapshot"
  /\ appt' = [appt EXCEPT ![b].status = "completed"]
  /\ fin' = IF fin[b].exists THEN fin ELSE [fin EXCEPT ![b] = NewFin]
  /\ entry' = IF fin[b].exists \/ entry[b] # NoEntry THEN entry
              ELSE [entry EXCEPT ![b] = Entry(appt[b])]
  /\ IF appt[b].status = "completed" THEN UNCHANGED told ELSE Tell(b, "completed")
  /\ Release(w)
  /\ UNCHANGED <<buffers, blocks>>

\* Mutant: the message goes out on every completion request.
CompleteCommit_TellsAgain(w) ==
  LET b == job[w].key IN
  /\ job[w].pc = "snapshot"
  /\ appt' = [appt EXCEPT ![b].status = "completed"]
  /\ fin' = IF fin[b].exists THEN fin ELSE [fin EXCEPT ![b] = NewFin]
  /\ entry' = IF entry[b] # NoEntry THEN entry
              ELSE [entry EXCEPT ![b] = Entry(appt[b])]
  /\ Tell(b, "completed")
  /\ Release(w)
  /\ UNCHANGED <<buffers, blocks>>

\* Status, financial snapshot, commission entry and message commit together.
CompleteCommit(w) ==
  LET b == job[w].key IN
  /\ job[w].pc = "snapshot"
  /\ appt' = [appt EXCEPT ![b].status = "completed"]
  /\ fin' = IF fin[b].exists THEN fin ELSE [fin EXCEPT ![b] = NewFin]
  /\ entry' = IF entry[b] # NoEntry THEN entry
              ELSE [entry EXCEPT ![b] = Entry(appt[b])]
  /\ IF appt[b].status = "completed" THEN UNCHANGED told ELSE Tell(b, "completed")
  /\ Release(w)
  /\ UNCHANGED <<buffers, blocks>>

-----------------------------------------------------------------------------
(* record_deposit, settle_financial, set_commission_entry_status *)

\* Mutant: get_or_create without select_for_update.
FinLock_PlainRead(w, b) ==
  /\ job[w].pc = "idle" /\ Exists(b)
  /\ \E op \in {"deposit", "settle"}, n \in Amounts :
       job' = [job EXCEPT ![w] = [Idle EXCEPT !.pc = op, !.key = b, !.amount = n,
                                              !.seen = fin[b]]]
  /\ UNCHANGED <<appt, buffers, blocks, fin, entry, told, proLock, finLock>>

\* Mutant: a negative amount is accepted.
FinLock_Negative(w, b) ==
  /\ job[w].pc = "idle" /\ b \in Paying /\ Exists(b) /\ finLock[b] = None
  /\ finLock' = [finLock EXCEPT ![b] = w]
  /\ \E op \in {"deposit", "settle"}, n \in Amounts \cup {-a : a \in Amounts} :
       job' = [job EXCEPT ![w] = [Idle EXCEPT !.pc = op, !.key = b, !.amount = n,
                                              !.seen = fin[b]]]
  /\ UNCHANGED <<appt, buffers, blocks, fin, entry, told, proLock>>

\* select_for_update().get_or_create, whatever the appointment's status is.
FinLock(w, b) ==
  /\ job[w].pc = "idle" /\ b \in Paying /\ Exists(b) /\ finLock[b] = None
  /\ finLock' = [finLock EXCEPT ![b] = w]
  /\ \E op \in {"deposit", "settle"}, n \in Amounts :
       job' = [job EXCEPT ![w] = [Idle EXCEPT !.pc = op, !.key = b, !.amount = n,
                                              !.seen = fin[b]]]
  /\ UNCHANGED <<appt, buffers, blocks, fin, entry, told, proLock>>

\* The foreign key of an inserted row waits for a lock on the appointment.
KeyChecked(w, b) ==
  \/ job[w].seen.exists
  \/ \A v \in Worker \ {w} : job[v].pc \in {"completing", "snapshot"} => job[v].key # b

\* On the row as it was locked: refused if settled, or if it exceeds the price.
DepositCommit(w) ==
  LET b == job[w].key
      seen == job[w].seen IN
  /\ job[w].pc = "deposit" /\ KeyChecked(w, b)
  /\ IF ~seen.settled /\ job[w].amount + seen.discount <= Price
     THEN fin' = [fin EXCEPT ![b].exists = TRUE, ![b].deposit = job[w].amount]
     ELSE UNCHANGED fin
  /\ Release(w)
  /\ UNCHANGED <<appt, buffers, blocks, entry, told>>

\* A second settlement returns the first one.
SettleCommit(w) ==
  LET b == job[w].key
      seen == job[w].seen IN
  /\ job[w].pc = "settle" /\ KeyChecked(w, b)
  /\ IF ~seen.settled /\ seen.deposit + job[w].amount <= Price
     THEN fin' = [fin EXCEPT ![b].exists = TRUE, ![b].discount = job[w].amount,
                             ![b].settled = TRUE]
     ELSE UNCHANGED fin
  /\ Release(w)
  /\ UNCHANGED <<appt, buffers, blocks, entry, told>>

SetEntryStatus(b, status) ==
  /\ b \in Paying /\ entry[b].status \notin {"absent", "cancelled"}
  /\ entry' = [entry EXCEPT ![b].status = status]
  /\ UNCHANGED <<appt, buffers, blocks, fin, told, proLock, finLock, job>>

-----------------------------------------------------------------------------
(* The catalogue and the calendar are edited without a look at appointments *)

PatchService(s) ==
  /\ \E new \in Buffers : buffers' = [buffers EXCEPT ![s] = new]
  /\ UNCHANGED <<appt, blocks, fin, entry, told, proLock, finLock, job>>

AddBlock ==
  /\ \E x \in BlockSpans : blocks' = blocks \cup {x}
  /\ UNCHANGED <<appt, buffers, fin, entry, told, proLock, finLock, job>>

\* The process dies, or PostgreSQL takes the transaction as a deadlock's victim:
\* a deposit that inserted the financial row and a completion wait for each other.
Abort(w) ==
  /\ job[w].pc # "idle"
  /\ Release(w)
  /\ UNCHANGED <<appt, buffers, blocks, fin, entry, told>>

Next ==
  \/ \E w \in Worker, b \in Booking :
       \/ BookLookup(w, b) \/ CompleteLock(w, b) \/ FinLock(w, b)
       \/ \E new \in DOMAIN From \ {"completed"} : Transition(w, b, new)
  \/ \E w \in Worker :
       \/ BookLock(w) \/ BookCheck(w) \/ BookInsert(w) \/ BookRefused(w)
       \/ CompleteFinancial(w) \/ CompleteCommit(w)
       \/ DepositCommit(w) \/ SettleCommit(w) \/ Abort(w)
  \/ \E b \in Booking, status \in EntryStatus : SetEntryStatus(b, status)
  \/ \E s \in Service : PatchService(s)
  \/ AddBlock

Spec == Init /\ [][Next]_vars

-----------------------------------------------------------------------------
(* Properties *)

\* A professional is never booked twice at one time: nominal intervals of
\* appointments that block their slot are disjoint, whatever requests run at the
\* same time, statuses change, and buffers or blocks are edited meanwhile.
NoDoubleBooking ==
  \A p \in Professional : \A b, c \in Blocking(p) : b # c => ~Overlap(appt[b], appt[c])

\* "Garante snapshot financeiro ao concluir", "um lancamento por agendamento": a
\* completed appointment has its financial row and one commission entry, on the
\* price it was booked at and never above it, though a deposit made the row or the
\* request repeats; a rule for its professional wins over any that names none.
CompletedIsAccounted ==
  \A b \in Booking :
    /\ appt[b].status = "completed" <=> entry[b] # NoEntry
    /\ appt[b].status = "completed" =>
         /\ fin[b].exists
         /\ entry[b].base = Price /\ entry[b].commission <= Price
         /\ \A r \in Rules :
              r.pro = appt[b].pro /\ ~r.branch /\ r.svc = None =>
                \E q \in Rules : q.id = entry[b].rule /\ q.pro = appt[b].pro

\* What was settled stays as it was settled: a deposit, a second settlement or a
\* completion that runs at the same time does not change it afterwards.
SettledIsFinal ==
  [][\A b \in Booking : fin[b].settled => fin'[b] = fin[b]]_vars

\* A customer is told of each status at most once, though requests are repeated.
ToldOnce == \A b \in Booking, e \in Announced : told[b][e] <= 1
=============================================================================
