--------------------------------- MODULE Plans ---------------------------------
(***************************************************************************)
(* create_charge as a payment plan: one charge, installments of a total, or *)
(* a monthly charge until a date (apps/billing/services.py, schedule.py).   *)
(*                                                                         *)
(* The whole plan is one transaction.  Each part is inserted and registered *)
(* at the bank before the next one.  The row of the first part has the      *)
(* request's idempotency_key K, the row of part i has K:i, and each holds   *)
(* its place in the one unique index of the tenant until the transaction    *)
(* ends.  What the bank issued is not taken back.                           *)
(* Billing goes on from here with the life of a single charge.              *)
(***************************************************************************)
EXTENDS Integers, Sequences, FiniteSets

CONSTANTS
  Key,            \* idempotency keys a request may come with
  Suffixed,       \* the key of each later part, None if the column has no room for it
  Worker,         \* requests running at the same time
  Request,        \* what requests may ask for
  MinDueDate,     \* today, or tomorrow after the cutoff hour
  MIN_AMOUNT,     \* CHARGE_MIN_AMOUNT_CENTS, 250 in the code
  INSTALLMENT_MIN, INSTALLMENT_MAX, RECURRING_MAX, \* 2, 48 and 60 in the code
  MaxSlips,       \* bound: the bank refuses what exceeds it
  None

Kind == {"simple", "installment", "recurring"}

\* Gregorian dates.
Month == 1..12
Leap(y) == (y % 4 = 0 /\ y % 100 # 0) \/ y % 400 = 0
LastDay(y, m) ==
  IF m = 2 THEN IF Leap(y) THEN 29 ELSE 28 ELSE IF m \in {4, 6, 9, 11} THEN 30 ELSE 31
Date == {d \in [y : Nat, m : Month, d : 1..31] : d.d <= LastDay(d.y, d.m)}

\* count or until is 0 or None where the request leaves it out.
ASSUME RequestAssumption ==
  /\ Request \subseteq [kind : Kind, amount : Nat, first : Date, count : Nat,
                        until : Date \cup {None}]
  /\ MinDueDate \in Date /\ {MIN_AMOUNT, RECURRING_MAX} \subseteq Nat \ {0}
  /\ INSTALLMENT_MIN \in Nat \ {0} /\ INSTALLMENT_MAX \in Nat /\ MaxSlips \in Nat
ASSUME NoneAssumption == None \notin Key \cup Worker \cup Date

MaxParts == IF INSTALLMENT_MAX > RECURRING_MAX THEN INSTALLMENT_MAX ELSE RECURRING_MAX

\* K:i is longer than K, and no other key with a suffix reads the same.  Nothing keeps
\* a request from coming with K:i as its own key.
ASSUME SuffixedAssumption ==
  \A k, q \in Key, i, j \in 2..MaxParts :
    /\ Suffixed[k, i] # k
    /\ Suffixed[k, i] = Suffixed[q, j] /\ Suffixed[k, i] # None => k = q /\ i = j

-----------------------------------------------------------------------------
(* schedule.py *)

MonthIndex(date) == 12 * date.y + date.m - 1
UpTo(a, b) ==
  \/ MonthIndex(a) < MonthIndex(b)
  \/ MonthIndex(a) = MonthIndex(b) /\ a.d <= b.d

\* Mutant: a day the month does not have becomes the first of the next one.
AddMonths_Overflows(date, n) ==
  LET index == MonthIndex(date) + n
      y == index \div 12
      m == (index % 12) + 1
      next == index + 1 IN
  IF date.d <= LastDay(y, m) THEN [y |-> y, m |-> m, d |-> date.d]
  ELSE [y |-> next \div 12, m |-> (next % 12) + 1, d |-> 1]

\* Mutant: the day is kept though the month may not have it.
AddMonths_KeepsDay(date, n) ==
  LET index == MonthIndex(date) + n IN
  [y |-> index \div 12, m |-> (index % 12) + 1, d |-> date.d]

\* The same day n months later, or the last day of a month that has no such day.
AddMonths(date, n) ==
  LET index == MonthIndex(date) + n
      y == index \div 12
      m == (index % 12) + 1 IN
  [y |-> y, m |-> m, d |-> IF date.d <= LastDay(y, m) THEN date.d ELSE LastDay(y, m)]

\* Mutant: the cents that remain are left out.
SplitAmount_Drops(total, parts) == [i \in 1..parts |-> total \div parts]

\* split_amount_cents: the first parts take one of the cents that remain.
SplitAmount(total, parts) ==
  [i \in 1..parts |-> total \div parts + IF i <= total % parts THEN 1 ELSE 0]

DueDates(first, count) == [i \in 1..count |-> AddMonths(first, i - 1)]

\* count_monthly_occurrences stops at the first date past the end, or at the limit.
MonthlyOccurrences(first, until) ==
  Cardinality({i \in 1..RECURRING_MAX :
                 \A j \in 1..i : UpTo(AddMonths(first, j - 1), until)})

-----------------------------------------------------------------------------
(* The plan of a request *)

\* A number of installments wins over an end date.
Count(r) ==
  CASE r.kind = "simple" -> 1
    [] r.kind = "installment" -> r.count
    [] r.kind = "recurring" ->
         IF r.count # 0 THEN r.count ELSE MonthlyOccurrences(r.first, r.until)

\* validate_charge_amount_cents looks at the total alone, validate_due_date at the
\* first due date.
Valid(r) ==
  /\ r.amount >= MIN_AMOUNT
  /\ UpTo(MinDueDate, r.first)
  /\ r.kind = "installment" => r.count \in INSTALLMENT_MIN..INSTALLMENT_MAX
  /\ r.kind = "recurring" =>
       /\ r.count # 0 \/ (r.until # None /\ UpTo(r.first, r.until))
       /\ Count(r) <= RECURRING_MAX

\* _resolve_occurrence_plan
Plan(r) ==
  LET dues == DueDates(r.first, Count(r))
      amounts == IF r.kind = "installment" THEN SplitAmount(r.amount, r.count)
                 ELSE [i \in 1..Count(r) |-> r.amount] IN
  [i \in 1..Count(r) |-> [amount |-> amounts[i], due |-> dues[i]]]

-----------------------------------------------------------------------------
VARIABLES
  rows,     \* committed Charge rows of each key, in order; each knows its slip
  slips,    \* what the bank has issued, numbered
  faulty,   \* keys of which the bank, the network or a crash undid a transaction
  clashed,  \* keys of which the key of a later part did
  answers,  \* the lists of charges that requests with a key were answered with
  job

vars == <<rows, slips, faulty, clashed, answers, job>>

Idle == [pc |-> "idle", key |-> None, ask |-> None, plan |-> <<>>, done |-> <<>>]
PlannedPart == [amount : Nat, due : Date]
Part == [amount : Nat, due : Date, slip : 1..MaxSlips]
Slip == [n : 1..MaxSlips, key : Key, amount : Nat, due : Date]

PartList(S, s) == Len(s) <= MaxParts /\ \A i \in 1..Len(s) : s[i] \in S

TypeOK ==
  /\ DOMAIN rows = Key /\ \A k \in Key : PartList(Part, rows[k])
  /\ slips \subseteq Slip /\ faulty \subseteq Key /\ clashed \subseteq Key
  /\ DOMAIN answers = Key /\ \A k \in Key : \A a \in answers[k] : PartList(Part, a)
  /\ \A w \in Worker :
       /\ job[w].pc \in {"idle", "insert", "register", "commit"}
       /\ job[w].key \in Key \cup {None} /\ job[w].ask \in Request \cup {None}
       /\ PartList(PlannedPart, job[w].plan) /\ PartList(Part, job[w].done)

Init ==
  /\ rows = [k \in Key |-> <<>>]
  /\ slips = {} /\ faulty = {} /\ clashed = {}
  /\ answers = [k \in Key |-> {}]
  /\ job = [w \in Worker |-> Idle]

\* part_key
PartKey(k, i) == IF i = 1 THEN k ELSE Suffixed[k, i]

\* The committed rows of plan q and the uncommitted ones of worker w, in the index.
Has(q, key) == \E i \in 1..Len(rows[q]) : PartKey(q, i) = key
Taken(key) == \E q \in Key : Has(q, key)
Inserted(w) == IF job[w].pc = "register" THEN Len(job[w].done) + 1 ELSE Len(job[w].done)
Holds(w, key) == \E i \in 1..Inserted(w) : PartKey(job[w].key, i) = key

\* The exception rolls all rows of the transaction back.
Rollback(w) ==
  /\ job' = [job EXCEPT ![w] = Idle]
  /\ UNCHANGED <<rows, answers>>

-----------------------------------------------------------------------------
(* create_charge *)

\* A known key is answered with the charges of its plan, whatever this request asks
\* for: also when it is the key of a later part.
Answer(k) ==
  /\ \E q \in Key : Has(q, k) /\ answers' = [answers EXCEPT ![k] = @ \cup {rows[q]}]
  /\ UNCHANGED <<rows, slips, faulty, clashed, job>>

Ask(w, k, r) ==
  /\ job[w].pc = "idle" /\ ~Taken(k) /\ Valid(r)
  /\ job' = [job EXCEPT ![w] = [Idle EXCEPT !.pc = "insert", !.key = k, !.ask = r,
                                            !.plan = Plan(r)]]
  /\ UNCHANGED <<rows, slips, faulty, clashed, answers>>

NextKey(w) == PartKey(job[w].key, Len(job[w].done) + 1)

\* Mutant: the unique index is not there.
Insert_NoIndex(w) ==
  /\ job[w].pc = "insert"
  /\ job' = [job EXCEPT ![w].pc = "register"]
  /\ UNCHANGED <<rows, slips, faulty, clashed, answers>>

\* The row of the next part waits for a transaction that has inserted its key.
Insert(w) ==
  /\ job[w].pc = "insert"
  /\ NextKey(w) # None /\ ~Taken(NextKey(w))
  /\ \A v \in Worker \ {w} : ~Holds(v, NextKey(w))
  /\ job' = [job EXCEPT ![w].pc = "register"]
  /\ UNCHANGED <<rows, slips, faulty, clashed, answers>>

\* IntegrityError: the transaction it waited for has committed, or the key of a later
\* part is that of another charge.  DataError: it is longer than the column.  The
\* slips of the parts before it stay at the bank.
KeyTaken(w) ==
  /\ job[w].pc = "insert" /\ (NextKey(w) = None \/ Taken(NextKey(w)))
  /\ clashed' = IF job[w].done = <<>> THEN clashed ELSE clashed \cup {job[w].key}
  /\ Rollback(w)
  /\ UNCHANGED <<slips, faulty>>

\* What the bank is asked for: the next part of the plan.
Asked(w) == job[w].plan[Len(job[w].done) + 1]
NewSlip(w) ==
  [n |-> Cardinality(slips) + 1, key |-> job[w].key, amount |-> Asked(w).amount,
   due |-> Asked(w).due]

\* _register_one: the bank issues the slip and the row takes its reference.
Register(w) ==
  LET done == Append(job[w].done, [amount |-> Asked(w).amount, due |-> Asked(w).due,
                                   slip |-> NewSlip(w).n]) IN
  /\ job[w].pc = "register"
  /\ Cardinality(slips) < MaxSlips
  /\ slips' = slips \cup {NewSlip(w)}
  /\ job' = [job EXCEPT ![w].done = done,
                        ![w].pc = IF Len(done) < Len(job[w].plan) THEN "insert" ELSE "commit"]
  /\ UNCHANGED <<rows, faulty, clashed, answers>>

\* Mutant: a part the bank refuses is left out and the rest of the plan is kept.
RegisterFails_SkipsPart(w) ==
  /\ job[w].pc = "register"
  /\ job' = [job EXCEPT ![w].pc = "commit"]
  /\ faulty' = faulty \cup {job[w].key}
  /\ UNCHANGED <<rows, slips, clashed, answers>>

\* The bank refuses (an amount below its minimum, a duplicate, a bad address), or
\* its answer is lost: FAILED is saved, and rolled back with everything else.
RegisterFails(w) ==
  /\ job[w].pc = "register"
  /\ \/ UNCHANGED slips
     \/ Cardinality(slips) < MaxSlips /\ slips' = slips \cup {NewSlip(w)}
  /\ faulty' = faulty \cup {job[w].key}
  /\ Rollback(w)
  /\ UNCHANGED clashed

Commit(w) ==
  LET k == job[w].key IN
  /\ job[w].pc = "commit"
  /\ rows' = [rows EXCEPT ![k] = job[w].done]
  /\ answers' = [answers EXCEPT ![k] = @ \cup {job[w].done}]
  /\ job' = [job EXCEPT ![w] = Idle]
  /\ UNCHANGED <<slips, faulty, clashed>>

Crash(w) ==
  /\ job[w].pc # "idle"
  /\ faulty' = faulty \cup {job[w].key}
  /\ Rollback(w)
  /\ UNCHANGED <<slips, clashed>>

Next ==
  \/ \E k \in Key : Answer(k)
  \/ \E w \in Worker :
       \/ \E k \in Key, r \in Request : Ask(w, k, r)
       \/ Insert(w) \/ KeyTaken(w) \/ Register(w) \/ RegisterFails(w) \/ Commit(w) \/ Crash(w)

Spec == Init /\ [][Next]_vars

-----------------------------------------------------------------------------
(* Properties *)

Sum(f, n) == LET s[i \in 0..n] == IF i = 0 THEN 0 ELSE s[i - 1] + f[i].amount IN s[n]

\* One due date a month, on the day of the first or, where the month is too short
\* for it, on the month's last day.
InStep(parts, first) ==
  \A i \in 1..Len(parts) :
    LET due == parts[i].due IN
    /\ MonthIndex(due) = MonthIndex(first) + i - 1
    /\ due.d = first.d \/ (due.d < first.d /\ due.d = LastDay(due.y, due.m))

\* The charges of a key are a whole plan that some request asked for: no part is
\* missing though a later one was refused or the worker died, installments add up
\* to the total to the cent and differ by a cent at most, a recurrence ends with
\* its last month or at the limit.
PlanIsWhole ==
  \A k \in Key : rows[k] # <<>> =>
    \E r \in Request :
      LET n == Len(rows[k]) IN
      /\ InStep(rows[k], r.first)
      /\ r.kind = "simple" => n = 1 /\ rows[k][1].amount = r.amount
      /\ r.kind = "installment" =>
           /\ n = r.count /\ Sum(rows[k], n) = r.amount
           /\ \A i, j \in 1..n : rows[k][i].amount - rows[k][j].amount \in {-1, 0, 1}
      /\ r.kind = "recurring" =>
           /\ \A i \in 1..n : rows[k][i].amount = r.amount
           /\ r.count # 0 => n = r.count
           /\ r.count = 0 =>
                /\ UpTo(rows[k][n].due, r.until)
                /\ n = RECURRING_MAX \/ MonthIndex(r.until) <= MonthIndex(rows[k][n].due) + 1

\* A slip at the bank belongs to one committed charge of its amount and due date, or
\* to a transaction under way: a request that loses the race for its key leaves no
\* slip behind.  Only a refusal, a lost answer, a crash, and a later part whose key
\* K:i is taken by another charge or too long for the column do.
SlipsAreTracked ==
  \A s \in slips :
    \/ s.key \in faulty \cup clashed
    \/ \E i \in 1..Len(rows[s.key]) :
         rows[s.key][i] = [amount |-> s.amount, due |-> s.due, slip |-> s.n]
    \/ \E w \in Worker : job[w].key = s.key
                         /\ \E i \in 1..Len(job[w].done) : job[w].done[i].slip = s.n

\* Every request with one key is answered with the same charges, also those that
\* run side by side, those that ask for something else, and those whose key is that
\* of a later part of a plan.
SameAnswer == \A k \in Key : \A a, b \in answers[k] : a = b
=============================================================================
