------------------------------ MODULE PlansProofs ------------------------------
(***************************************************************************)
(* Proofs about Plans, for any requests, keys, workers and limits: a plan   *)
(* is kept whole or not at all and adds up to the cent, every slip at the   *)
(* bank is accounted for, and a key has one answer.                         *)
(*                                                                         *)
(* What the recursive sum of a plan's amounts is, and how many months a     *)
(* recurrence has, is proved by induction over the natural numbers, derived *)
(* below from the well-founded order of the subsets of a finite set.        *)
(***************************************************************************)
EXTENDS Plans, FiniteSetTheorems, SequenceTheorems, WellFoundedInduction, TLAPS

-----------------------------------------------------------------------------
(* The inductive invariant *)

\* The first parts of the plan, as they were asked for.
PartsOf(parts, plan) ==
  /\ Len(parts) <= Len(plan)
  /\ \A i \in 1..Len(parts) : /\ parts[i].amount = plan[i].amount
                              /\ parts[i].due = plan[i].due

WholePlan(parts) ==
  \E r \in Request : Valid(r) /\ PartsOf(parts, Plan(r)) /\ Len(parts) = Len(Plan(r))

Job == [pc : {"idle", "insert", "register", "commit"}, key : Key \cup {None},
        ask : Request \cup {None}, plan : Seq(PlannedPart), done : Seq(Part)]

\* A request works through a plan it was right to ask for.
Working(j) ==
  IF j.pc = "idle" THEN j.done = <<>> /\ j.plan = <<>>
  ELSE /\ j.key \in Key /\ j.ask \in Request /\ Valid(j.ask) /\ j.plan = Plan(j.ask)
       /\ PartsOf(j.done, j.plan)
       /\ IF j.pc = "commit" THEN Len(j.done) = Len(j.plan) ELSE Len(j.done) < Len(j.plan)

JobsOK == job \in [Worker -> Job] /\ \A w \in Worker : Working(job[w])

RowsOK ==
  /\ rows \in [Key -> Seq(Part)] /\ faulty \subseteq Key /\ clashed \subseteq Key
  /\ \A k \in Key : rows[k] # <<>> => WholePlan(rows[k])

\* The bank numbers its slips.
SlipsOK ==
  /\ slips \subseteq Slip /\ IsFiniteSet(slips) /\ Cardinality(slips) <= MaxSlips
  /\ \A s \in slips : s.n <= Cardinality(slips)
  /\ \A s, t \in slips : s.n = t.n => s = t

\* The unique index: a key that a transaction has inserted is that of no committed
\* row and of no other transaction, and no two plans have one.
KeysOK ==
  /\ \A w \in Worker : \A i \in 1..Inserted(w) :
       /\ ~Taken(PartKey(job[w].key, i))
       /\ \A v \in Worker : Holds(v, PartKey(job[w].key, i)) => v = w
  /\ \A p, q \in Key : \A i \in 1..Len(rows[p]) : Has(q, PartKey(p, i)) => q = p

\* What a request has done, the bank has issued.
SlipOf(key, part) == [n |-> part.slip, key |-> key, amount |-> part.amount, due |-> part.due]
DoneIsIssued ==
  \A w \in Worker : \A i \in 1..Len(job[w].done) : SlipOf(job[w].key, job[w].done[i]) \in slips

\* A key is answered with the plan that has it and nothing else.
AnswersOK ==
  /\ DOMAIN answers = Key
  /\ \A k \in Key : \A a \in answers[k] : \E q \in Key : Has(q, k) /\ a = rows[q]

IInv == JobsOK /\ RowsOK /\ SlipsOK /\ KeysOK /\ DoneIsIssued /\ AnswersOK /\ SlipsAreTracked

-----------------------------------------------------------------------------
(* Dates *)

LEMMA MonthLength == ASSUME NEW y \in Nat, NEW m \in Month PROVE LastDay(y, m) \in 28..31
BY DEF LastDay, Leap

LEMMA DateFields ==
  ASSUME NEW d \in Date
  PROVE  d.y \in Nat /\ d.m \in Month /\ d.m \in 1..12 /\ d.d \in 1..31 /\ MonthIndex(d) \in Nat
<1>1. d.y \in Nat /\ d.m \in 1..12 /\ d.d \in 1..31
  BY DEF Date, Month
<1>. QED
  BY <1>1 DEF MonthIndex, Month

\* The month is right and the day is that of the date, or the last of a month
\* that is too short for it.
LEMMA MonthsLater ==
  ASSUME NEW d \in Date, NEW n \in Nat
  PROVE  LET due == AddMonths(d, n) IN
         /\ due \in Date
         /\ MonthIndex(due) = MonthIndex(d) + n
         /\ due.d = d.d \/ (due.d < d.d /\ due.d = LastDay(due.y, due.m))
<1>. DEFINE index == MonthIndex(d) + n
            y == index \div 12
            m == (index % 12) + 1
            day == IF d.d <= LastDay(y, m) THEN d.d ELSE LastDay(y, m)
            due == [y |-> y, m |-> m, d |-> day]
<1>1. AddMonths(d, n) = due
  BY DEF AddMonths
<1>2. index \in Nat /\ d.d \in 1..31
  BY DateFields
<1>. HIDE DEF index
<1>3. y \in Nat /\ m \in Month /\ m \in 1..12 /\ 12 * y + m - 1 = index
  BY <1>2 DEF Month
<1>. HIDE DEF y, m
<1>4. LastDay(y, m) \in 28..31
  BY <1>3, MonthLength
<1>5. /\ day \in 1..31 /\ day <= LastDay(y, m)
      /\ day = d.d \/ (day < d.d /\ day = LastDay(y, m))
  BY <1>2, <1>4
<1>. HIDE DEF day
<1>6. due.y = y /\ due.m = m /\ due.d = day
  OBVIOUS
<1>7. due \in Date
  BY <1>3, <1>5 DEF Date
<1>8. MonthIndex(due) = index
  BY <1>3, <1>6 DEF MonthIndex
<1>. HIDE DEF due
<1>. QED
  BY <1>1, <1>5, <1>6, <1>7, <1>8 DEF index

\* Two dates can always be compared.
LEMMA NotUpTo ==
  ASSUME NEW a \in Date, NEW b \in Date, ~UpTo(a, b)
  PROVE  MonthIndex(b) <= MonthIndex(a)
<1>1. MonthIndex(a) \in Nat /\ MonthIndex(b) \in Nat
  BY DateFields
<1>. QED
  BY <1>1 DEF UpTo

LEMMA SameDate == ASSUME NEW d \in Date PROVE AddMonths(d, 0) = d
<1>1. d \in [y : Nat, m : Month, d : 1..31] /\ d.d <= LastDay(d.y, d.m)
  BY DEF Date
<1>2. /\ d.y \in Nat /\ d.m \in 1..12
      /\ (12 * d.y + d.m - 1 + 0) \div 12 = d.y
      /\ ((12 * d.y + d.m - 1 + 0) % 12) + 1 = d.m
  BY DateFields
<1>3. AddMonths(d, 0) = [y |-> d.y, m |-> d.m, d |-> d.d]
  BY <1>1, <1>2 DEF AddMonths, MonthIndex
<1>. QED
  BY <1>1, <1>3

-----------------------------------------------------------------------------
(* Division *)

LEMMA Divided ==
  ASSUME NEW total \in Nat, NEW parts \in Nat \ {0}
  PROVE  /\ total \div parts \in Nat /\ total % parts \in 0..(parts - 1)
         /\ total = parts * (total \div parts) + (total % parts)
<1>1. total \div parts \in Nat
  OBVIOUS
<1>2. total % parts \in 0..(parts - 1)
  OBVIOUS
<1>3. total = parts * (total \div parts) + (total % parts)
  OBVIOUS
<1>. QED
  BY <1>1, <1>2, <1>3

-----------------------------------------------------------------------------
(* Induction *)

\* A nonempty set of natural numbers has a least element: the intervals that
\* end in it are ordered by inclusion, which is well-founded below any of them.
LEMMA LeastNatural ==
  ASSUME NEW P \in SUBSET Nat, P # {}
  PROVE  \E m \in P : \A k \in P : m <= k
<1>1. PICK n \in P : TRUE
  OBVIOUS
<1>. DEFINE S == 0..n
            G == {0..m : m \in {k \in P : k <= n}}
<1>2. IsWellFoundedOn(StrictSubsetOrdering(S), SUBSET S)
  <2>1. IsFiniteSet(S)
    BY <1>1, FS_Interval
  <2>. QED
    BY <2>1, FS_StrictSubsetOrderingWellFounded, FS_FiniteSubsetsOfFinite
<1>3. G \subseteq SUBSET S /\ G # {}
  BY <1>1
<1>4. PICK T \in G : \A U \in G : ~(<<U, T>> \in StrictSubsetOrdering(S))
  <2>. HIDE DEF G, S
  <2>. QED
    BY <1>2, <1>3, WFMin
<1>5. PICK m \in P : m <= n /\ T = 0..m
  BY <1>4
<1>6. ASSUME NEW k \in P, k < m
      PROVE  FALSE
  <2>1. 0..k \in G /\ 0..k \subseteq 0..m /\ m \in 0..m /\ m \notin 0..k /\ k <= n
    BY <1>1, <1>5, <1>6
  <2>. QED
    BY <1>3, <1>4, <1>5, <2>1 DEF StrictSubsetOrdering
<1>7. \A k \in P : m <= k
  BY <1>5, <1>6
<1>. QED
  BY <1>5, <1>7

LEMMA Induction ==
  ASSUME NEW P \in SUBSET Nat, 0 \in P, NEW n \in Nat,
         \A k \in P : k < n => k + 1 \in P
  PROVE  0..n \subseteq P
<1>1. SUFFICES ASSUME 0..n \ P # {} PROVE FALSE
  OBVIOUS
<1>2. PICK m \in 0..n \ P : \A k \in 0..n \ P : m <= k
  <2>1. 0..n \ P \in SUBSET Nat
    OBVIOUS
  <2>. QED
    BY <1>1, <2>1, LeastNatural
<1>3. m - 1 \in 0..n /\ ~(m <= m - 1) /\ (m - 1) + 1 = m /\ m - 1 < n
  BY <1>2
<1>. QED
  BY <1>2, <1>3

-----------------------------------------------------------------------------
(* Sums *)

\* A function with the right first value and differences is the sum.
LEMMA SumIs ==
  ASSUME NEW f, NEW n \in Nat, NEW g \in [0..n -> Int],
         \A i \in 1..n : f[i].amount \in Int,
         g[0] = 0, \A i \in 1..n : g[i] = g[i - 1] + f[i].amount
  PROVE  Sum(f, n) = g[n]
<1>. DEFINE Sums(s) == s = [i \in 0..n |-> IF i = 0 THEN 0 ELSE s[i - 1] + f[i].amount]
            t == CHOOSE s : Sums(s)
<1>1. Sums(g)
  <2>1. \A i \in 0..n : g[i] = IF i = 0 THEN 0 ELSE g[i - 1] + f[i].amount
    OBVIOUS
  <2>. QED
    BY <2>1
<1>2. Sums(t)
  <2>. HIDE DEF Sums
  <2>. QED
    BY <1>1
<1>3. Sum(f, n) = t[n]
  BY DEF Sum
<1>. HIDE DEF t
<1>. DEFINE P == {i \in 0..n : t[i] = g[i]}
<1>4. 0 \in P
  BY <1>2
<1>5. ASSUME NEW k \in P, k < n
      PROVE  k + 1 \in P
  <2>1. k + 1 \in 1..n /\ (k + 1) - 1 = k /\ k + 1 # 0 /\ k + 1 \in 0..n
    BY <1>5
  <2>2. t[k + 1] = t[k] + f[k + 1].amount
    BY <1>2, <2>1
  <2>3. g[k + 1] = g[k] + f[k + 1].amount
    BY <2>1
  <2>. QED
    BY <2>1, <2>2, <2>3
<1>6. P \in SUBSET Nat
  OBVIOUS
<1>7. 0..n \subseteq P
  <2>. HIDE DEF P
  <2>. QED
    BY <1>4, <1>5, <1>6, Induction
<1>. QED
  BY <1>3, <1>7

\* Installments add up to the total: those before i make i quotients, and a cent
\* more for each of them that took one of the cents that remain.
LEMMA SplitAddsUp ==
  ASSUME NEW total \in Nat, NEW parts \in Nat \ {0}, NEW f,
         \A i \in 1..parts : f[i].amount = SplitAmount(total, parts)[i]
  PROVE  Sum(f, parts) = total
<1>. DEFINE q == total \div parts
            rest == total % parts
            g == [i \in 0..parts |-> i * q + (IF i <= rest THEN i ELSE rest)]
<1>1. q \in Nat /\ rest \in 0..(parts - 1) /\ total = parts * q + rest
  BY Divided
<1>2. \A i \in 1..parts : f[i].amount = q + (IF i <= rest THEN 1 ELSE 0)
  BY DEF SplitAmount
<1>. HIDE DEF q, rest
<1>3. g \in [0..parts -> Int]
  <2>1. \A i \in 0..parts : i * q + (IF i <= rest THEN i ELSE rest) \in Int
    BY <1>1
  <2>. QED
    BY <2>1
<1>4. g[0] = 0
  BY <1>1
<1>5. ASSUME NEW i \in 1..parts
      PROVE  g[i] = g[i - 1] + f[i].amount
  <2>1. i \in 0..parts /\ i - 1 \in 0..parts
    OBVIOUS
  <2>2. g[i] = i * q + (IF i <= rest THEN i ELSE rest)
        /\ g[i - 1] = (i - 1) * q + (IF i - 1 <= rest THEN i - 1 ELSE rest)
    BY <2>1
  <2>. DEFINE before == (i - 1) * q
  <2>3. before \in Nat /\ i * q = before + q
    BY <1>1
  <2>4. f[i].amount = q + (IF i <= rest THEN 1 ELSE 0)
    BY <1>2
  <2>. HIDE DEF g
  <2>5. g[i - 1] = before + (IF i - 1 <= rest THEN i - 1 ELSE rest)
    BY <2>2
  <2>6. g[i] = before + q + (IF i <= rest THEN i ELSE rest)
    BY <2>2, <2>3
  <2>7. rest \in Nat /\ i \in Nat
    BY <1>1
  <2>. HIDE DEF before
  <2>8. (IF i <= rest THEN i ELSE rest)
           = (IF i - 1 <= rest THEN i - 1 ELSE rest) + (IF i <= rest THEN 1 ELSE 0)
    BY <2>7
  <2>. QED
    BY <1>1, <2>3, <2>4, <2>5, <2>6, <2>8
<1>6. Sum(f, parts) = g[parts]
  <2>1. \A i \in 1..parts : f[i].amount \in Int
    BY <1>1, <1>2
  <2>. HIDE DEF g
  <2>. QED
    BY <1>3, <1>4, <1>5, <2>1, SumIs
<1>. QED
  BY <1>1, <1>6

-----------------------------------------------------------------------------
(* The plan of a request *)

LEMMA RequestFields ==
  ASSUME NEW r \in Request
  PROVE  /\ r.kind \in Kind /\ r.kind \in {"simple", "installment", "recurring"}
         /\ r.amount \in Nat /\ r.first \in Date /\ r.count \in Nat
         /\ r.until \in Date \cup {None}
BY RequestAssumption DEF Kind

\* A recurrence has a month at least, ends in time, and no month is left over
\* unless it has reached the limit.
LEMMA OccurrencesEnd ==
  ASSUME NEW first \in Date, NEW until \in Date, UpTo(first, until)
  PROVE  LET n == MonthlyOccurrences(first, until) IN
         /\ n \in 1..RECURRING_MAX
         /\ UpTo(AddMonths(first, n - 1), until)
         /\ n = RECURRING_MAX \/ MonthIndex(until) <= MonthIndex(first) + n
<1>. DEFINE InTime(j) == UpTo(AddMonths(first, j - 1), until)
            S == {i \in 1..RECURRING_MAX : \A j \in 1..i : InTime(j)}
            Out == (1..(RECURRING_MAX + 1)) \ S
<1>1. RECURRING_MAX \in Nat \ {0}
  BY RequestAssumption
<1>2. MonthlyOccurrences(first, until) = Cardinality(S)
  BY DEF MonthlyOccurrences
<1>3. InTime(1)
  BY SameDate
<1>. HIDE DEF InTime
<1>4. 1 \in S
  <2>1. 1..1 = {1}
    OBVIOUS
  <2>. QED
    BY <1>1, <1>3, <2>1
<1>5. PICK m \in Out : \A k \in Out : m <= k
  <2>1. Out \in SUBSET Nat /\ RECURRING_MAX + 1 \in Out
    BY <1>1
  <2>. HIDE DEF Out
  <2>. QED
    BY <2>1, LeastNatural
<1>6. m \in 2..(RECURRING_MAX + 1) /\ m \notin S
  BY <1>1, <1>4, <1>5
<1>7. S = 1..(m - 1)
  <2>1. ASSUME NEW i \in 1..(m - 1)
        PROVE  i \in S
    <3>1. i \in 1..(RECURRING_MAX + 1) /\ ~(m <= i)
      BY <1>1, <1>6
    <3>. HIDE DEF S
    <3>. QED
      BY <1>5, <3>1
  <2>2. ASSUME NEW i \in S
        PROVE  i \in 1..(m - 1)
    <3>1. SUFFICES ASSUME m <= i PROVE FALSE
      BY <1>1, <1>6
    <3>2. m \in 1..RECURRING_MAX /\ \A j \in 1..m : j \in 1..i
      BY <1>1, <1>6, <3>1
    <3>. QED
      BY <1>6, <3>2
  <2>. QED
    BY <2>1, <2>2
<1>. DEFINE n == m - 1
<1>8. n \in 1..RECURRING_MAX /\ n \in Nat
  BY <1>1, <1>6
<1>9. MonthlyOccurrences(first, until) = n
  <2>1. S = 1..n
    BY <1>7
  <2>. HIDE DEF S, n
  <2>2. Cardinality(1..n) = n
    BY <1>8, FS_Interval
  <2>. QED
    BY <1>2, <2>1, <2>2
<1>10. \A j \in 1..n : InTime(j)
  BY <1>7, <1>8
<1>11. InTime(n)
  BY <1>8, <1>10
<1>12. n = RECURRING_MAX \/ MonthIndex(until) <= MonthIndex(first) + n
  <2>1. SUFFICES ASSUME n # RECURRING_MAX
                 PROVE  MonthIndex(until) <= MonthIndex(first) + n
    OBVIOUS
  <2>2. PICK j \in 1..m : ~InTime(j)
    BY <1>1, <1>6, <2>1
  <2>3. j = m /\ j - 1 = n
    BY <1>6, <1>10, <2>2
  <2>4. ~UpTo(AddMonths(first, n), until)
    BY <2>2, <2>3 DEF InTime
  <2>5. AddMonths(first, n) \in Date /\ MonthIndex(AddMonths(first, n)) = MonthIndex(first) + n
    BY <1>8, MonthsLater
  <2>. QED
    BY <2>4, <2>5, NotUpTo
<1>. HIDE DEF n
<1>. QED
  BY <1>8, <1>9, <1>11, <1>12 DEF InTime

LEMMA CountIs ==
  ASSUME NEW r \in Request, Valid(r)
  PROVE  /\ r.kind = "simple" => Count(r) = 1
         /\ r.kind = "installment" => Count(r) = r.count
         /\ r.kind = "recurring" /\ r.count # 0 => Count(r) = r.count
         /\ r.kind = "recurring" /\ r.count = 0 =>
              /\ Count(r) = MonthlyOccurrences(r.first, r.until)
              /\ r.until \in Date /\ UpTo(r.first, r.until)
         /\ Count(r) \in 1..MaxParts
<1>1. /\ INSTALLMENT_MIN \in Nat \ {0} /\ INSTALLMENT_MAX \in Nat /\ RECURRING_MAX \in Nat \ {0}
      /\ INSTALLMENT_MAX <= MaxParts /\ RECURRING_MAX <= MaxParts /\ MaxParts \in Nat
  BY RequestAssumption DEF MaxParts
<1>2. CASE r.kind = "simple"
  BY <1>1, <1>2 DEF Count
<1>3. CASE r.kind = "installment"
  BY <1>1, <1>3 DEF Count, Valid
<1>4. CASE r.kind = "recurring" /\ r.count # 0
  <2>1. Count(r) = r.count /\ r.count <= RECURRING_MAX /\ r.count \in Nat
    BY <1>4, RequestFields DEF Count, Valid
  <2>. QED
    BY <1>1, <1>4, <2>1
<1>5. CASE r.kind = "recurring" /\ r.count = 0
  <2>1. Count(r) = MonthlyOccurrences(r.first, r.until)
    BY <1>5 DEF Count
  <2>2. r.first \in Date /\ r.until \in Date /\ UpTo(r.first, r.until)
    BY <1>5, RequestFields DEF Valid
  <2>3. MonthlyOccurrences(r.first, r.until) \in 1..RECURRING_MAX
    BY <2>2, OccurrencesEnd
  <2>. QED
    BY <1>1, <1>5, <2>1, <2>2, <2>3
<1>. QED
  BY <1>2, <1>3, <1>4, <1>5, RequestFields

LEMMA PlanParts ==
  ASSUME NEW r \in Request, Valid(r)
  PROVE  /\ Plan(r) \in Seq(PlannedPart) /\ Len(Plan(r)) = Count(r)
         /\ Len(Plan(r)) \in 1..MaxParts
         /\ \A i \in 1..Count(r) :
              /\ Plan(r)[i].due = AddMonths(r.first, i - 1)
              /\ Plan(r)[i].amount =
                   IF r.kind = "installment" THEN SplitAmount(r.amount, r.count)[i] ELSE r.amount
<1>. DEFINE n == Count(r)
            part(i) == [amount |-> IF r.kind = "installment" THEN SplitAmount(r.amount, r.count)[i]
                                   ELSE r.amount,
                        due |-> AddMonths(r.first, i - 1)]
<1>1. n \in 1..MaxParts /\ (r.kind = "installment" => n = r.count)
  BY CountIs
<1>2. MaxParts \in Nat
  BY RequestAssumption DEF MaxParts
<1>. HIDE DEF n
<1>3. Plan(r) = [i \in 1..n |-> part(i)]
  BY DEF Plan, DueDates, n
<1>4. ASSUME NEW i \in 1..n
      PROVE  part(i) \in PlannedPart
  <2>1. r.first \in Date /\ r.amount \in Nat /\ i - 1 \in Nat
    BY <1>1, <1>2, RequestFields
  <2>2. AddMonths(r.first, i - 1) \in Date
    BY <2>1, MonthsLater
  <2>3. r.kind = "installment" => SplitAmount(r.amount, r.count)[i] \in Nat
    <3>1. SUFFICES ASSUME r.kind = "installment"
                   PROVE  SplitAmount(r.amount, r.count)[i] \in Nat
      OBVIOUS
    <3>2. r.count \in Nat \ {0} /\ i \in 1..r.count
      BY <1>1, <1>2, <3>1
    <3>3. r.amount \div r.count \in Nat
      BY <2>1, <3>2, Divided
    <3>. QED
      BY <3>2, <3>3 DEF SplitAmount
  <2>. QED
    BY <2>1, <2>2, <2>3 DEF PlannedPart
<1>5. \A i \in 1..n : Plan(r)[i] = part(i)
  BY <1>3
<1>6. Plan(r) \in Seq(PlannedPart) /\ Len(Plan(r)) = n
  <2>. HIDE DEF part
  <2>. QED
    BY <1>1, <1>2, <1>3, <1>4
<1>. QED
  BY <1>1, <1>5, <1>6 DEF n

\* What a whole plan is, of each kind.
LEMMA PlanDelivers ==
  ASSUME NEW r \in Request, Valid(r), NEW parts, PartsOf(parts, Plan(r)), Len(parts) = Len(Plan(r))
  PROVE  LET n == Len(parts) IN
         /\ InStep(parts, r.first)
         /\ r.kind = "simple" => n = 1 /\ parts[1].amount = r.amount
         /\ r.kind = "installment" =>
              /\ n = r.count /\ Sum(parts, n) = r.amount
              /\ \A i, j \in 1..n : parts[i].amount - parts[j].amount \in {-1, 0, 1}
         /\ r.kind = "recurring" =>
              /\ \A i \in 1..n : parts[i].amount = r.amount
              /\ r.count # 0 => n = r.count
              /\ r.count = 0 =>
                   /\ UpTo(parts[n].due, r.until)
                   /\ n = RECURRING_MAX \/ MonthIndex(r.until) <= MonthIndex(parts[n].due) + 1
<1>. DEFINE n == Count(r)
<1>1. Len(parts) = n /\ n \in 1..MaxParts
  BY PlanParts
<1>2. MaxParts \in Nat /\ r.first \in Date /\ r.amount \in Nat /\ r.count \in Nat
  BY RequestAssumption, RequestFields DEF MaxParts
<1>3. \A i \in 1..n : /\ parts[i].due = AddMonths(r.first, i - 1)
                      /\ parts[i].amount =
                           IF r.kind = "installment" THEN SplitAmount(r.amount, r.count)[i]
                           ELSE r.amount
  BY <1>1, PlanParts DEF PartsOf
<1>4. /\ r.kind = "simple" => n = 1
      /\ r.kind = "installment" => n = r.count
      /\ r.kind = "recurring" /\ r.count # 0 => n = r.count
      /\ r.kind = "recurring" /\ r.count = 0 =>
           n = MonthlyOccurrences(r.first, r.until) /\ r.until \in Date /\ UpTo(r.first, r.until)
  BY CountIs
<1>. HIDE DEF n
<1>5. \A i \in 1..n :
        LET due == parts[i].due IN
        /\ MonthIndex(due) = MonthIndex(r.first) + i - 1
        /\ due.d = r.first.d \/ (due.d < r.first.d /\ due.d = LastDay(due.y, due.m))
  <2>1. SUFFICES ASSUME NEW i \in 1..n
                 PROVE  LET due == AddMonths(r.first, i - 1) IN
                        /\ MonthIndex(due) = MonthIndex(r.first) + i - 1
                        /\ due.d = r.first.d \/ (due.d < r.first.d /\ due.d = LastDay(due.y, due.m))
    BY <1>3
  <2>2. i - 1 \in Nat /\ MonthIndex(r.first) \in Nat
    BY <1>1, <1>2, DateFields
  <2>. QED
    BY <1>2, <2>2, MonthsLater
<1>6. InStep(parts, r.first)
  BY <1>1, <1>5 DEF InStep
<1>7. r.kind = "simple" => n = 1 /\ parts[1].amount = r.amount
  BY <1>3, <1>4
<1>8. ASSUME r.kind = "installment"
      PROVE  /\ n = r.count /\ Sum(parts, n) = r.amount
             /\ \A i, j \in 1..n : parts[i].amount - parts[j].amount \in {-1, 0, 1}
  <2>1. n = r.count /\ n \in Nat \ {0}
    BY <1>1, <1>2, <1>4, <1>8
  <2>2. \A i \in 1..n : parts[i].amount = SplitAmount(r.amount, n)[i]
    BY <1>3, <1>8, <2>1
  <2>3. Sum(parts, n) = r.amount
    BY <1>2, <2>1, <2>2, SplitAddsUp
  <2>4. r.amount \div n \in Nat
    BY <1>2, <2>1, Divided
  <2>5. \A i \in 1..n : parts[i].amount = r.amount \div n \/ parts[i].amount = r.amount \div n + 1
    BY <2>2, <2>4 DEF SplitAmount
  <2>6. \A i, j \in 1..n : parts[i].amount - parts[j].amount \in {-1, 0, 1}
    BY <2>4, <2>5
  <2>. QED
    BY <2>1, <2>3, <2>6
<1>9. ASSUME r.kind = "recurring"
      PROVE  /\ \A i \in 1..n : parts[i].amount = r.amount
             /\ r.count # 0 => n = r.count
             /\ r.count = 0 =>
                  /\ UpTo(parts[n].due, r.until)
                  /\ n = RECURRING_MAX \/ MonthIndex(r.until) <= MonthIndex(parts[n].due) + 1
  <2>1. \A i \in 1..n : parts[i].amount = r.amount
    BY <1>3, <1>9
  <2>2. ASSUME r.count = 0
        PROVE  /\ UpTo(parts[n].due, r.until)
               /\ n = RECURRING_MAX \/ MonthIndex(r.until) <= MonthIndex(parts[n].due) + 1
    <3>1. n \in 1..n /\ parts[n].due = AddMonths(r.first, n - 1)
      BY <1>1, <1>2, <1>3
    <3>2. MonthIndex(parts[n].due) = MonthIndex(r.first) + n - 1 /\ MonthIndex(r.first) \in Nat
      BY <1>2, <1>5, <3>1, DateFields
    <3>3. /\ UpTo(AddMonths(r.first, n - 1), r.until)
          /\ n = RECURRING_MAX \/ MonthIndex(r.until) <= MonthIndex(r.first) + n
      BY <1>2, <1>4, <1>9, <2>2, OccurrencesEnd
    <3>4. MonthIndex(parts[n].due) + 1 = MonthIndex(r.first) + n
      BY <1>1, <1>2, <3>2
    <3>. QED
      BY <3>1, <3>3, <3>4
  <2>. QED
    BY <1>4, <1>9, <2>1, <2>2
<1>. QED
  BY <1>1, <1>6, <1>7, <1>8, <1>9

-----------------------------------------------------------------------------
(* Lemmas on single writes *)

LEMMA EmptyPlan == ASSUME NEW S PROVE <<>> \in Seq(S) /\ Len(<<>>) = 0
BY EmptySeq

LEMMA IdleJob == Idle \in Job /\ Working(Idle)
<1>1. Idle \in Job
  BY EmptyPlan DEF Idle, Job
<1>. QED
  BY <1>1 DEF Idle, Working

LEMMA OneJob ==
  ASSUME JobsOK, NEW w \in Worker
  PROVE  /\ job[w] \in Job /\ Working(job[w])
         /\ job[w].plan \in Seq(PlannedPart) /\ job[w].done \in Seq(Part)
         /\ Len(job[w].plan) \in Nat /\ Len(job[w].done) \in Nat
         /\ Len(job[w].done) = 0 <=> job[w].done = <<>>
<1>1. job[w] \in Job /\ Working(job[w])
  BY DEF JobsOK
<1>2. job[w].plan \in Seq(PlannedPart) /\ job[w].done \in Seq(Part)
  BY <1>1 DEF Job
<1>. QED
  BY <1>1, <1>2, EmptySeq, LenProperties

\* What is next to be registered, of a request that has not registered all.
LEMMA NextPart ==
  ASSUME JobsOK, NEW w \in Worker, job[w].pc = "register"
  PROVE  /\ job[w].key \in Key /\ Len(job[w].done) < Len(job[w].plan)
         /\ Asked(w).amount \in Nat /\ Asked(w).due \in Date
<1>1. job[w].key \in Key /\ Len(job[w].done) < Len(job[w].plan)
  BY OneJob DEF Working
<1>2. Len(job[w].done) + 1 \in 1..Len(job[w].plan)
  BY <1>1, OneJob
<1>3. Asked(w) \in PlannedPart
  BY <1>2, OneJob, ElementOfSeq DEF Asked
<1>. QED
  BY <1>1, <1>3 DEF PlannedPart

LEMMA JobWrite ==
  ASSUME JobsOK, NEW w \in Worker, NEW j \in Job, Working(j), job' = [job EXCEPT ![w] = j]
  PROVE  /\ JobsOK' /\ job'[w] = j
         /\ \A v \in Worker : v # w => job'[v] = job[v]
BY DEF JobsOK

LEMMA SameRows ==
  ASSUME RowsOK, rows' = rows, faulty' \subseteq Key, clashed' \subseteq Key
  PROVE  RowsOK'
BY DEF RowsOK

LEMMA SameAnswers == ASSUME AnswersOK, rows' = rows, answers' = answers PROVE AnswersOK'
BY DEF AnswersOK, Has

LEMMA SameSlips == ASSUME SlipsOK, slips' = slips PROVE SlipsOK'
BY DEF SlipsOK

\* The bank issues the slip a request asks for.
LEMMA Issue ==
  ASSUME JobsOK, SlipsOK, NEW w \in Worker, job[w].pc = "register",
         Cardinality(slips) < MaxSlips, slips' = slips \cup {NewSlip(w)}
  PROVE  /\ SlipsOK'
         /\ NewSlip(w).n \in 1..MaxSlips /\ NewSlip(w).key = job[w].key
         /\ NewSlip(w).amount = Asked(w).amount /\ NewSlip(w).due = Asked(w).due
<1>. DEFINE s == NewSlip(w)
            n == Cardinality(slips) + 1
<1>1. Cardinality(slips) \in Nat /\ MaxSlips \in Nat
  BY RequestAssumption, FS_CardinalityType DEF SlipsOK
<1>2. s.n = n /\ s.key = job[w].key /\ s.amount = Asked(w).amount /\ s.due = Asked(w).due
  BY DEF NewSlip
<1>3. n \in 1..MaxSlips
  BY <1>1
<1>4. s \in Slip
  BY <1>3, NextPart DEF NewSlip, Slip
<1>5. \A t \in slips : t.n \in Nat /\ t.n <= Cardinality(slips)
  BY <1>1 DEF SlipsOK, Slip
<1>. HIDE DEF s
<1>6. s \notin slips
  BY <1>1, <1>2, <1>5
<1>7. IsFiniteSet(slips') /\ Cardinality(slips') = n
  BY <1>6, FS_AddElement DEF SlipsOK, s
<1>8. slips' = slips \cup {s}
  BY DEF s
<1>9. slips' \subseteq Slip
  BY <1>4, <1>8 DEF SlipsOK
<1>10. \A t \in slips' : t.n <= n
  BY <1>1, <1>2, <1>5, <1>8
<1>11. \A t, u \in slips' : t.n = u.n => t = u
  <2>1. \A t, u \in slips : t.n = u.n => t = u
    BY DEF SlipsOK
  <2>2. \A t \in slips : t.n # s.n
    BY <1>1, <1>2, <1>5
  <2>. QED
    BY <1>8, <2>1, <2>2
<1>12. SlipsOK'
  <2>1. n <= MaxSlips
    BY <1>3
  <2>. HIDE DEF n
  <2>. QED
    BY <1>7, <1>9, <1>10, <1>11, <2>1 DEF SlipsOK
<1>. QED
  BY <1>2, <1>3, <1>12 DEF s

\* What a transaction has inserted, of whoever has inserted it.
LEMMA Holder ==
  ASSUME KeysOK, NEW w \in Worker, NEW key, Holds(w, key)
  PROVE  ~Taken(key) /\ \A v \in Worker : Holds(v, key) => v = w
<1>1. PICK i \in 1..Inserted(w) : PartKey(job[w].key, i) = key
  BY DEF Holds
<1>. QED
  BY <1>1 DEF KeysOK

\* No transaction inserts and none commits: the index is as it was.
LEMMA SameKeys ==
  ASSUME JobsOK, JobsOK', KeysOK, rows' = rows,
         \A v \in Worker :
           Inserted(v)' = 0 \/ (job'[v].key = job[v].key /\ Inserted(v)' = Inserted(v))
  PROVE  KeysOK'
<1>1. \A v \in Worker : \A i \in 1..Inserted(v)' :
        job'[v].key = job[v].key /\ i \in 1..Inserted(v)
  <2>1. 1..0 = {}
    OBVIOUS
  <2>. QED
    BY <2>1
<1>2. ASSUME NEW v \in Worker, NEW key, Holds(v, key)'
      PROVE  Holds(v, key)
  <2>1. PICK i \in 1..Inserted(v)' : PartKey(job'[v].key, i) = key
    BY <1>2 DEF Holds, PartKey
  <2>. QED
    BY <1>1, <2>1 DEF Holds
<1>3. \A q \in Key : \A key : Has(q, key)' <=> Has(q, key)
  BY DEF Has, PartKey
<1>4. \A key : Taken(key)' <=> Taken(key)
  BY <1>3 DEF Taken
<1>5. ASSUME NEW w \in Worker, NEW i \in 1..Inserted(w)', NEW key,
             key = PartKey(job'[w].key, i)
      PROVE  ~Taken(key)' /\ \A v \in Worker : Holds(v, key)' => v = w
  <2>1. Holds(w, key)
    BY <1>1, <1>5 DEF Holds
  <2>2. ~Taken(key) /\ \A v \in Worker : Holds(v, key) => v = w
    BY <2>1, Holder
  <2>. QED
    BY <1>2, <1>4, <2>2
<1>6. \A p, q \in Key : \A i \in 1..Len(rows'[p]) : Has(q, PartKey(p, i))' => q = p
  BY <1>3 DEF KeysOK, PartKey
<1>. QED
  BY <1>5, <1>6 DEF KeysOK

\* A transaction is rolled back: what it had issued is put down to a fault.
LEMMA KeepRollback ==
  ASSUME IInv, NEW w \in Worker, Rollback(w), SlipsOK', slips \subseteq slips',
         faulty \cup clashed \subseteq faulty' \cup clashed',
         faulty' \subseteq Key, clashed' \subseteq Key,
         \A s \in slips' : \/ s.key \in faulty' \cup clashed'
                           \/ s \in slips /\ (s.key # job[w].key \/ job[w].done = <<>>)
  PROVE  IInv'
<1>1. job' = [job EXCEPT ![w] = Idle] /\ rows' = rows /\ answers' = answers
  BY DEF Rollback
<1>2. JobsOK' /\ job'[w] = Idle /\ \A v \in Worker : v # w => job'[v] = job[v]
  BY <1>1, JobWrite, IdleJob DEF IInv
<1>3. RowsOK' /\ AnswersOK'
  BY <1>1, SameRows, SameAnswers DEF IInv
<1>4. Idle.pc = "idle" /\ Idle.done = <<>> /\ Len(<<>>) = 0
  BY EmptyPlan DEF Idle
<1>5. KeysOK'
  <2>1. Inserted(w)' = 0
    BY <1>2, <1>4 DEF Inserted
  <2>2. \A v \in Worker : v # w => job'[v].key = job[v].key /\ Inserted(v)' = Inserted(v)
    BY <1>2 DEF Inserted
  <2>. QED
    BY <1>1, <1>2, <2>1, <2>2, SameKeys DEF IInv
<1>6. DoneIsIssued'
  <2>1. \A v \in Worker : v # w => \A i \in 1..Len(job[v].done) : SlipOf(job[v].key, job[v].done[i]) \in slips'
    BY DEF IInv, DoneIsIssued
  <2>2. 1..0 = {}
    OBVIOUS
  <2>. QED
    BY <1>2, <1>4, <2>1, <2>2 DEF DoneIsIssued
<1>7. SlipsAreTracked'
  <2>1. SUFFICES ASSUME NEW s \in slips', s.key \notin faulty' \cup clashed'
                 PROVE  \/ \E i \in 1..Len(rows[s.key]) :
                             rows[s.key][i] = [amount |-> s.amount, due |-> s.due, slip |-> s.n]
                        \/ \E v \in Worker : job'[v].key = s.key
                             /\ \E i \in 1..Len(job'[v].done) : job'[v].done[i].slip = s.n
    BY <1>1 DEF SlipsAreTracked
  <2>2. s \in slips /\ s.key \notin faulty \cup clashed /\ (s.key # job[w].key \/ job[w].done = <<>>)
    BY <2>1
  <2>3. CASE \E i \in 1..Len(rows[s.key]) :
               rows[s.key][i] = [amount |-> s.amount, due |-> s.due, slip |-> s.n]
    BY <2>3
  <2>4. ASSUME NEW v \in Worker, job[v].key = s.key,
               NEW i \in 1..Len(job[v].done), job[v].done[i].slip = s.n
        PROVE  \E u \in Worker : job'[u].key = s.key
                 /\ \E k \in 1..Len(job'[u].done) : job'[u].done[k].slip = s.n
    <3>1. job[v].done # <<>>
      BY <1>4, <2>4
    <3>2. v # w
      BY <2>2, <2>4, <3>1
    <3>3. job'[v] = job[v]
      BY <1>2, <3>2
    <3>. QED
      BY <2>4, <3>3
  <2>. QED
    BY <2>2, <2>3, <2>4 DEF IInv, SlipsAreTracked
<1>. QED
  BY <1>2, <1>3, <1>5, <1>6, <1>7 DEF IInv

-----------------------------------------------------------------------------
(* The actions *)

LEMMA Begins == Init => IInv
<1>. SUFFICES ASSUME Init PROVE IInv
  OBVIOUS
<1>1. JobsOK
  BY IdleJob DEF Init, JobsOK
<1>2. RowsOK
  BY EmptyPlan DEF Init, RowsOK
<1>3. SlipsOK
  BY RequestAssumption, FS_EmptySet DEF Init, SlipsOK
<1>4. \A w \in Worker : job[w].pc = "idle" /\ job[w].done = <<>>
  BY DEF Init, Idle
<1>5. KeysOK
  <2>1. 1..0 = {}
    OBVIOUS
  <2>2. \A w \in Worker : Inserted(w) = 0
    BY <1>4, EmptyPlan DEF Inserted
  <2>3. \A k \in Key : Len(rows[k]) = 0
    BY EmptyPlan DEF Init
  <2>. QED
    BY <2>1, <2>2, <2>3 DEF KeysOK
<1>6. DoneIsIssued
  <2>1. 1..0 = {}
    OBVIOUS
  <2>. QED
    BY <1>4, <2>1, EmptyPlan DEF DoneIsIssued
<1>7. AnswersOK /\ SlipsAreTracked
  BY DEF Init, AnswersOK, SlipsAreTracked
<1>. QED
  BY <1>1, <1>2, <1>3, <1>5, <1>6, <1>7 DEF IInv

LEMMA KeepAnswer ==
  ASSUME IInv, NEW k \in Key, Answer(k)
  PROVE  IInv'
<1>1. /\ rows' = rows /\ slips' = slips /\ faulty' = faulty /\ clashed' = clashed
      /\ job' = job
  BY DEF Answer
<1>2. AnswersOK'
  <2>1. PICK q \in Key : Has(q, k) /\ answers' = [answers EXCEPT ![k] = @ \cup {rows[q]}]
    BY DEF Answer
  <2>2. \A p, e \in Key : Has(p, e)' <=> Has(p, e)
    BY <1>1 DEF Has
  <2>. QED
    BY <1>1, <2>1, <2>2 DEF IInv, AnswersOK
<1>3. JobsOK' /\ RowsOK' /\ SlipsOK' /\ DoneIsIssued'
  BY <1>1 DEF IInv, JobsOK, RowsOK, SlipsOK, DoneIsIssued
<1>4. KeysOK'
  <2>1. \A v \in Worker : job'[v].key = job[v].key /\ Inserted(v)' = Inserted(v)
    BY <1>1 DEF Inserted
  <2>. QED
    BY <1>1, <1>3, <2>1, SameKeys DEF IInv
<1>5. SlipsAreTracked'
  BY <1>1 DEF IInv, SlipsAreTracked
<1>. QED
  BY <1>2, <1>3, <1>4, <1>5 DEF IInv

\* A request that has registered as much as before: what the bank issued is
\* tracked as it was.
LEMMA SameDone ==
  ASSUME IInv, NEW w \in Worker, rows' = rows, slips' = slips, faulty' = faulty,
         clashed' = clashed, answers' = answers, job'[w].done = job[w].done,
         job'[w].key = job[w].key \/ job[w].done = <<>>,
         \A v \in Worker : v # w => job'[v] = job[v]
  PROVE  RowsOK' /\ SlipsOK' /\ AnswersOK' /\ DoneIsIssued' /\ SlipsAreTracked'
<1>1. RowsOK' /\ SlipsOK' /\ AnswersOK'
  BY SameRows, SameSlips, SameAnswers DEF IInv, RowsOK
<1>2. \A v \in Worker : job'[v].done = job[v].done /\ (job'[v].key = job[v].key \/ job[v].done = <<>>)
  OBVIOUS
<1>3. 1..Len(<<>>) = {}
  BY EmptyPlan
<1>4. DoneIsIssued'
  <2>1. SUFFICES ASSUME NEW v \in Worker, NEW i \in 1..Len(job'[v].done)
                 PROVE  SlipOf(job'[v].key, job'[v].done[i]) \in slips'
    BY DEF DoneIsIssued
  <2>2. job'[v].done = job[v].done /\ job'[v].key = job[v].key
    BY <1>2, <1>3, <2>1
  <2>. QED
    BY <2>1, <2>2 DEF IInv, DoneIsIssued
<1>5. SlipsAreTracked'
  <2>1. SUFFICES ASSUME NEW s \in slips, s.key \notin faulty \cup clashed
                 PROVE  \/ \E i \in 1..Len(rows[s.key]) :
                             rows[s.key][i] = [amount |-> s.amount, due |-> s.due, slip |-> s.n]
                        \/ \E v \in Worker : job'[v].key = s.key
                             /\ \E i \in 1..Len(job'[v].done) : job'[v].done[i].slip = s.n
    BY DEF SlipsAreTracked
  <2>2. ASSUME NEW v \in Worker, job[v].key = s.key,
               NEW i \in 1..Len(job[v].done), job[v].done[i].slip = s.n
        PROVE  job'[v].key = s.key /\ job'[v].done = job[v].done
    BY <1>2, <1>3, <2>2
  <2>. QED
    BY <2>1, <2>2 DEF IInv, SlipsAreTracked
<1>. QED
  BY <1>1, <1>4, <1>5

LEMMA KeepAsk ==
  ASSUME IInv, NEW w \in Worker, NEW k \in Key, NEW r \in Request, Ask(w, k, r)
  PROVE  IInv'
<1>. DEFINE j == [Idle EXCEPT !.pc = "insert", !.key = k, !.ask = r, !.plan = Plan(r)]
<1>1. /\ job[w].pc = "idle" /\ Valid(r) /\ job' = [job EXCEPT ![w] = j]
      /\ rows' = rows /\ slips' = slips /\ faulty' = faulty /\ clashed' = clashed
      /\ answers' = answers
  BY DEF Ask
<1>2. Plan(r) \in Seq(PlannedPart) /\ Len(Plan(r)) \in 1..MaxParts
  BY <1>1, PlanParts
<1>3. /\ j \in Job /\ j.pc = "insert" /\ j.key = k /\ j.ask = r /\ j.plan = Plan(r)
      /\ j.done = <<>>
  <2>1. Idle \in Job /\ Idle.done = <<>>
    BY IdleJob DEF Idle
  <2>. QED
    BY <1>2, <2>1 DEF Job
<1>. HIDE DEF j
<1>4. Working(j)
  <2>1. Len(<<>>) = 0 /\ 0 < Len(Plan(r)) /\ 0 <= Len(Plan(r)) /\ 1..0 = {}
    BY <1>2, EmptyPlan
  <2>2. PartsOf(<<>>, Plan(r))
    BY <2>1 DEF PartsOf
  <2>. QED
    BY <1>1, <1>3, <2>1, <2>2 DEF Working
<1>5. JobsOK' /\ job'[w] = j /\ \A v \in Worker : v # w => job'[v] = job[v]
  BY <1>1, <1>3, <1>4, JobWrite DEF IInv
<1>6. job[w].done = <<>>
  BY <1>1, OneJob DEF IInv, Working
<1>7. KeysOK'
  <2>1. Inserted(w)' = 0
    BY <1>3, <1>5, EmptyPlan DEF Inserted
  <2>2. \A v \in Worker : v # w => job'[v].key = job[v].key /\ Inserted(v)' = Inserted(v)
    BY <1>5 DEF Inserted
  <2>. QED
    BY <1>1, <1>5, <2>1, <2>2, SameKeys DEF IInv
<1>. QED
  BY <1>1, <1>3, <1>5, <1>6, <1>7, SameDone DEF IInv

LEMMA KeepInsert ==
  ASSUME IInv, NEW w \in Worker, Insert(w)
  PROVE  IInv'
<1>. DEFINE j == [job[w] EXCEPT !.pc = "register"]
<1>. DEFINE new == NextKey(w)
<1>1. /\ job[w].pc = "insert" /\ ~Taken(new) /\ \A v \in Worker \ {w} : ~Holds(v, new)
      /\ rows' = rows /\ slips' = slips /\ faulty' = faulty /\ clashed' = clashed
      /\ answers' = answers
  BY DEF Insert
<1>2. job[w] \in Job /\ Working(job[w]) /\ job \in [Worker -> Job]
  BY OneJob DEF IInv, JobsOK
<1>3. job' = [job EXCEPT ![w] = j]
  BY <1>2 DEF Insert
<1>4. /\ j \in Job /\ j.pc = "register" /\ j.key = job[w].key /\ j.ask = job[w].ask
      /\ j.plan = job[w].plan /\ j.done = job[w].done
  BY <1>2 DEF Job
<1>. HIDE DEF j
<1>5. Working(j)
  BY <1>1, <1>2, <1>4 DEF Working
<1>6. JobsOK' /\ job'[w] = j /\ \A v \in Worker : v # w => job'[v] = job[v]
  BY <1>3, <1>4, <1>5, JobWrite DEF IInv
<1>7. new = PartKey(job[w].key, Inserted(w) + 1) /\ Inserted(w) \in Nat
      /\ Inserted(w)' = Inserted(w) + 1
  BY <1>1, <1>4, <1>6, OneJob DEF IInv, NextKey, Inserted
<1>. HIDE DEF new
<1>8. \A v \in Worker : v # w => Inserted(v)' = Inserted(v)
  BY <1>6 DEF Inserted
<1>9. ASSUME NEW v \in Worker, NEW key
      PROVE  Holds(v, key)' <=> Holds(v, key) \/ (v = w /\ key = new)
  <2>1. CASE v # w
    BY <1>6, <1>8, <2>1 DEF Holds, PartKey
  <2>2. CASE v = w
    <3>1. \A i \in 1..(Inserted(w) + 1) : i \in 1..Inserted(w) \/ i = Inserted(w) + 1
      BY <1>7
    <3>2. \A i \in 1..Inserted(w) : i \in 1..(Inserted(w) + 1)
      BY <1>7
    <3>3. Inserted(w) + 1 \in 1..(Inserted(w) + 1)
      BY <1>7
    <3>4. Holds(w, key)' <=> \E i \in 1..(Inserted(w) + 1) : PartKey(job[w].key, i) = key
      BY <1>4, <1>6, <1>7 DEF Holds, PartKey
    <3>. QED
      BY <1>7, <2>2, <3>1, <3>2, <3>3, <3>4 DEF Holds
  <2>. QED
    BY <2>1, <2>2
<1>10. \A q \in Key : \A key : Has(q, key)' <=> Has(q, key)
  BY <1>1 DEF Has, PartKey
<1>11. \A key : Taken(key)' <=> Taken(key)
  BY <1>10 DEF Taken
<1>12. ASSUME NEW u \in Worker, NEW key, Holds(u, key)'
       PROVE  ~Taken(key)' /\ \A v \in Worker : Holds(v, key)' => v = u
  <2>1. CASE key = new
    BY <1>1, <1>9, <1>11, <1>12, <2>1
  <2>2. CASE key # new
    BY <1>9, <1>11, <1>12, <2>2, Holder DEF IInv
  <2>. QED
    BY <2>1, <2>2
<1>13. KeysOK'
  <2>1. ASSUME NEW u \in Worker, NEW i \in 1..Inserted(u)'
        PROVE  Holds(u, PartKey(job[u].key, i))'
    BY <2>1 DEF Holds
  <2>2. \A p, q \in Key : \A i \in 1..Len(rows'[p]) : Has(q, PartKey(p, i))' => q = p
    BY <1>1, <1>10 DEF IInv, KeysOK, PartKey
  <2>. QED
    BY <1>12, <2>1, <2>2 DEF KeysOK, PartKey
<1>. QED
  BY <1>1, <1>4, <1>6, <1>13, SameDone DEF IInv

\* A request that lost the race for its key has issued nothing; one that had issued
\* something lost it for the key of a later part.
LEMMA KeepKeyTaken ==
  ASSUME IInv, NEW w \in Worker, KeyTaken(w)
  PROVE  IInv'
<1>1. /\ job[w].pc = "insert" /\ Rollback(w) /\ slips' = slips /\ faulty' = faulty
      /\ clashed' = IF job[w].done = <<>> THEN clashed ELSE clashed \cup {job[w].key}
  BY DEF KeyTaken
<1>2. job[w].key \in Key
  BY <1>1, OneJob DEF IInv, Working
<1>3. SlipsOK' /\ faulty' \subseteq Key /\ clashed' \subseteq Key
  BY <1>1, <1>2, SameSlips DEF IInv, RowsOK
<1>4. \A s \in slips' : \/ s.key \in faulty' \cup clashed'
                        \/ s \in slips /\ (s.key # job[w].key \/ job[w].done = <<>>)
  BY <1>1
<1>. QED
  BY <1>1, <1>3, <1>4, KeepRollback

LEMMA KeepCrash ==
  ASSUME IInv, NEW w \in Worker, Crash(w)
  PROVE  IInv'
<1>1. /\ job[w].pc # "idle" /\ Rollback(w)
      /\ slips' = slips /\ faulty' = faulty \cup {job[w].key} /\ clashed' = clashed
  BY DEF Crash
<1>2. job[w].key \in Key
  BY <1>1, OneJob DEF IInv, Working
<1>3. SlipsOK' /\ faulty' \subseteq Key /\ clashed' \subseteq Key
  BY <1>1, <1>2, SameSlips DEF IInv, RowsOK
<1>. QED
  BY <1>1, <1>2, <1>3, KeepRollback

LEMMA KeepRegisterFails ==
  ASSUME IInv, NEW w \in Worker, RegisterFails(w)
  PROVE  IInv'
<1>1. /\ job[w].pc = "register" /\ Rollback(w) /\ faulty' = faulty \cup {job[w].key}
      /\ clashed' = clashed
  BY DEF RegisterFails
<1>2. job[w].key \in Key
  BY <1>1, OneJob DEF IInv, Working
<1>3. faulty' \subseteq Key /\ clashed' \subseteq Key
  BY <1>1, <1>2 DEF IInv, RowsOK
<1>4. CASE slips' = slips
  <2>1. SlipsOK'
    BY <1>4, SameSlips DEF IInv
  <2>. QED
    BY <1>1, <1>3, <1>4, <2>1, KeepRollback
<1>5. CASE Cardinality(slips) < MaxSlips /\ slips' = slips \cup {NewSlip(w)}
  <2>1. SlipsOK' /\ NewSlip(w).key = job[w].key
    BY <1>1, <1>5, Issue DEF IInv
  <2>2. slips \subseteq slips'
        /\ \A s \in slips' : \/ s.key \in faulty' \cup clashed'
                             \/ s \in slips /\ (s.key # job[w].key \/ job[w].done = <<>>)
    BY <1>1, <1>5, <2>1
  <2>. QED
    BY <1>1, <1>3, <2>1, <2>2, KeepRollback
<1>. QED
  BY <1>4, <1>5 DEF RegisterFails

LEMMA KeepRegister ==
  ASSUME IInv, NEW w \in Worker, Register(w)
  PROVE  IInv'
<1>. DEFINE part == [amount |-> Asked(w).amount, due |-> Asked(w).due, slip |-> NewSlip(w).n]
            done == Append(job[w].done, part)
            pc == IF Len(done) < Len(job[w].plan) THEN "insert" ELSE "commit"
            j == [job[w] EXCEPT !.done = done, !.pc = pc]
            n == Len(job[w].done)
<1>1. /\ job[w].pc = "register" /\ Cardinality(slips) < MaxSlips
      /\ slips' = slips \cup {NewSlip(w)}
      /\ rows' = rows /\ faulty' = faulty /\ clashed' = clashed /\ answers' = answers
  BY DEF Register
<1>2. job[w] \in Job /\ Working(job[w]) /\ job \in [Worker -> Job]
  BY OneJob DEF IInv, JobsOK
<1>3. /\ SlipsOK' /\ NewSlip(w).n \in 1..MaxSlips /\ NewSlip(w).key = job[w].key
      /\ NewSlip(w).amount = Asked(w).amount /\ NewSlip(w).due = Asked(w).due
  BY <1>1, Issue DEF IInv
<1>4. /\ job[w].key \in Key /\ n < Len(job[w].plan) /\ n \in Nat /\ Len(job[w].plan) \in Nat
      /\ Asked(w).amount \in Nat /\ Asked(w).due \in Date /\ Asked(w) = job[w].plan[n + 1]
  BY <1>1, NextPart, OneJob DEF IInv, Asked
<1>5. part \in Part
  BY <1>3, <1>4 DEF Part
<1>6. part.amount = Asked(w).amount /\ part.due = Asked(w).due /\ part.slip = NewSlip(w).n
  OBVIOUS
<1>7. job' = [job EXCEPT ![w] = j]
  BY <1>2 DEF Register
<1>8. job[w].done \in Seq(Part)
  BY OneJob DEF IInv
<1>. HIDE DEF part
<1>9. /\ done \in Seq(Part) /\ Len(done) = n + 1 /\ done # <<>>
      /\ \A i \in 1..n : done[i] = job[w].done[i]
      /\ done[n + 1] = part
  <2>1. done \in Seq(Part) /\ Len(done) = n + 1 /\ done[n + 1] = part
        /\ \A i \in 1..n : done[i] = job[w].done[i]
    BY <1>5, <1>8
  <2>2. Len(<<>>) = 0 /\ n + 1 # 0
    BY <1>4, EmptyPlan
  <2>. QED
    BY <2>1, <2>2
<1>10. pc \in {"insert", "commit"} /\ (pc = "commit" <=> ~(n + 1 < Len(job[w].plan)))
  BY <1>9
<1>. HIDE DEF done, pc
<1>11. /\ j \in Job /\ j.pc = pc /\ j.key = job[w].key /\ j.ask = job[w].ask
       /\ j.plan = job[w].plan /\ j.done = done
  BY <1>2, <1>9, <1>10 DEF Job
<1>. HIDE DEF j, n
<1>12. PartsOf(done, job[w].plan)
  <2>1. \A i \in 1..n : /\ done[i].amount = job[w].plan[i].amount
                        /\ done[i].due = job[w].plan[i].due
    BY <1>1, <1>2, <1>9 DEF Working, PartsOf, n
  <2>2. done[n + 1].amount = job[w].plan[n + 1].amount /\ done[n + 1].due = job[w].plan[n + 1].due
    BY <1>4, <1>6, <1>9
  <2>3. \A i \in 1..(n + 1) : i \in 1..n \/ i = n + 1
    BY <1>4
  <2>4. n + 1 <= Len(job[w].plan)
    BY <1>4
  <2>. QED
    BY <1>9, <2>1, <2>2, <2>3, <2>4 DEF PartsOf
<1>13. Working(j)
  <2>1. pc = "commit" => n + 1 = Len(job[w].plan)
    BY <1>4, <1>10
  <2>. QED
    BY <1>1, <1>2, <1>9, <1>10, <1>11, <1>12, <2>1 DEF Working
<1>14. JobsOK' /\ job'[w] = j /\ \A v \in Worker : v # w => job'[v] = job[v]
  BY <1>7, <1>11, <1>13, JobWrite DEF IInv
<1>15. RowsOK' /\ AnswersOK'
  BY <1>1, SameRows, SameAnswers DEF IInv, RowsOK
<1>16. KeysOK'
  <2>1. Inserted(w)' = Inserted(w) /\ job'[w].key = job[w].key
    <3>1. Inserted(w) = n + 1
      BY <1>1 DEF Inserted, n
    <3>2. Inserted(w)' = n + 1
      BY <1>4, <1>9, <1>10, <1>11, <1>14 DEF Inserted
    <3>. QED
      BY <1>11, <1>14, <3>1, <3>2
  <2>2. \A v \in Worker : v # w => job'[v].key = job[v].key /\ Inserted(v)' = Inserted(v)
    BY <1>14 DEF Inserted
  <2>. QED
    BY <1>1, <1>14, <2>1, <2>2, SameKeys DEF IInv
<1>17. SlipOf(job[w].key, part) = NewSlip(w)
  BY <1>3, <1>6 DEF SlipOf, NewSlip
<1>18. DoneIsIssued'
  <2>1. SUFFICES ASSUME NEW v \in Worker, NEW i \in 1..Len(job'[v].done)
                 PROVE  SlipOf(job'[v].key, job'[v].done[i]) \in slips'
    BY DEF DoneIsIssued
  <2>2. CASE v # w
    BY <1>1, <1>14, <2>1, <2>2 DEF IInv, DoneIsIssued
  <2>3. CASE v = w /\ i = n + 1
    BY <1>1, <1>9, <1>11, <1>14, <1>17, <2>3
  <2>4. CASE v = w /\ i # n + 1
    <3>1. i \in 1..n
      BY <1>4, <1>9, <1>11, <1>14, <2>1, <2>4
    <3>2. SlipOf(job[w].key, job[w].done[i]) \in slips
      BY <3>1 DEF IInv, DoneIsIssued, n
    <3>. QED
      BY <1>1, <1>9, <1>11, <1>14, <2>4, <3>1, <3>2
  <2>. QED
    BY <2>2, <2>3, <2>4
<1>19. SlipsAreTracked'
  <2>1. SUFFICES ASSUME NEW s \in slips', s.key \notin faulty \cup clashed
                 PROVE  \/ \E i \in 1..Len(rows[s.key]) :
                             rows[s.key][i] = [amount |-> s.amount, due |-> s.due, slip |-> s.n]
                        \/ \E v \in Worker : job'[v].key = s.key
                             /\ \E i \in 1..Len(job'[v].done) : job'[v].done[i].slip = s.n
    BY <1>1 DEF SlipsAreTracked
  <2>2. CASE s = NewSlip(w)
    <3>1. n + 1 \in 1..Len(job'[w].done)
      BY <1>4, <1>9, <1>11, <1>14
    <3>2. job'[w].key = s.key /\ job'[w].done[n + 1].slip = s.n
      BY <1>3, <1>6, <1>9, <1>11, <1>14, <2>2
    <3>. QED
      BY <3>1, <3>2
  <2>3. ASSUME NEW v \in Worker, job[v].key = s.key,
               NEW i \in 1..Len(job[v].done), job[v].done[i].slip = s.n
        PROVE  \E u \in Worker : job'[u].key = s.key
                 /\ \E k \in 1..Len(job'[u].done) : job'[u].done[k].slip = s.n
    <3>1. CASE v # w
      BY <1>14, <2>3, <3>1
    <3>2. CASE v = w
      <4>1. i \in 1..n
        BY <2>3, <3>2 DEF n
      <4>2. i \in 1..Len(job'[w].done)
        BY <1>4, <1>9, <1>11, <1>14, <4>1
      <4>3. job'[w].key = s.key /\ job'[w].done[i].slip = s.n
        BY <1>9, <1>11, <1>14, <2>3, <3>2, <4>1
      <4>. QED
        BY <4>2, <4>3
    <3>. QED
      BY <3>1, <3>2
  <2>4. CASE s \in slips
    BY <2>1, <2>3, <2>4 DEF IInv, SlipsAreTracked
  <2>. QED
    BY <1>1, <2>2, <2>4
<1>. QED
  BY <1>3, <1>14, <1>15, <1>16, <1>18, <1>19 DEF IInv

\* Nobody else has committed under the key, and the bank knows every part.
LEMMA KeepCommit ==
  ASSUME IInv, NEW w \in Worker, Commit(w)
  PROVE  IInv'
<1>. DEFINE k == job[w].key
            done == job[w].done
<1>1. /\ job[w].pc = "commit" /\ rows' = [rows EXCEPT ![k] = done]
      /\ answers' = [answers EXCEPT ![k] = @ \cup {done}]
      /\ job' = [job EXCEPT ![w] = Idle] /\ slips' = slips
      /\ faulty' = faulty /\ clashed' = clashed
  BY DEF Commit
<1>2. /\ k \in Key /\ done \in Seq(Part) /\ job[w].ask \in Request /\ Valid(job[w].ask)
      /\ PartsOf(done, Plan(job[w].ask)) /\ Len(done) = Len(Plan(job[w].ask))
  BY <1>1, OneJob DEF IInv, Working
<1>3. done # <<>>
  <2>1. Len(Plan(job[w].ask)) \in 1..MaxParts
    BY <1>2, PlanParts
  <2>. QED
    BY <1>2, <2>1, EmptyPlan
<1>4. /\ Inserted(w) = Len(done) /\ 1 \in 1..Len(done) /\ rows[k] = <<>>
      /\ \A i \in 1..Len(done) :
           /\ ~Taken(PartKey(k, i))
           /\ \A v \in Worker : Holds(v, PartKey(k, i)) => v = w
  <2>1. Inserted(w) = Len(done) /\ 1 \in 1..Len(done)
    BY <1>1, <1>3, OneJob DEF IInv, Inserted
  <2>2. \A i \in 1..Len(done) :
           /\ ~Taken(PartKey(k, i))
           /\ \A v \in Worker : Holds(v, PartKey(k, i)) => v = w
    BY <2>1 DEF IInv, KeysOK
  <2>3. ASSUME rows[k] # <<>>
        PROVE  Taken(PartKey(k, 1))
    <3>1. rows[k] \in Seq(Part)
      BY <1>2 DEF IInv, RowsOK
    <3>2. 1 \in 1..Len(rows[k])
      BY <2>3, <3>1, EmptySeq, LenProperties
    <3>. QED
      BY <1>2, <3>2 DEF Taken, Has
  <2>. QED
    BY <2>1, <2>2, <2>3
<1>5. \A i \in 1..Len(done) : SlipOf(k, done[i]) \in slips /\ done[i] \in Part
  BY <1>2, ElementOfSeq DEF IInv, DoneIsIssued
<1>6. JobsOK' /\ job'[w] = Idle /\ \A v \in Worker : v # w => job'[v] = job[v]
  BY <1>1, JobWrite, IdleJob DEF IInv
<1>7. Idle.pc = "idle" /\ Idle.done = <<>> /\ Len(<<>>) = 0
  BY EmptyPlan DEF Idle
<1>. HIDE DEF k, done
<1>8. rows'[k] = done /\ \A q \in Key : q # k => rows'[q] = rows[q]
  BY <1>1, <1>2 DEF IInv, RowsOK
<1>9. RowsOK'
  <2>1. WholePlan(done)
    BY <1>2 DEF WholePlan
  <2>2. rows' \in [Key -> Seq(Part)] /\ faulty' \subseteq Key /\ clashed' \subseteq Key
    BY <1>1, <1>2 DEF IInv, RowsOK
  <2>3. \A q \in Key : rows'[q] # <<>> => WholePlan(rows'[q])
    BY <1>8, <2>1 DEF IInv, RowsOK
  <2>. QED
    BY <2>2, <2>3 DEF RowsOK
<1>10. ASSUME NEW key
       PROVE  ~Has(k, key)
  <2>1. 1..0 = {}
    OBVIOUS
  <2>. QED
    BY <1>4, <1>7, <2>1 DEF Has
<1>11. ASSUME NEW q \in Key, NEW key
       PROVE  Has(q, key)' <=> Has(q, key) \/ (q = k /\ \E i \in 1..Len(done) : PartKey(k, i) = key)
  <2>1. CASE q # k
    BY <1>8, <2>1 DEF Has, PartKey
  <2>2. CASE q = k
    BY <1>8, <1>10, <2>2 DEF Has, PartKey
  <2>. QED
    BY <2>1, <2>2
<1>12. ASSUME NEW v \in Worker, NEW key, Holds(v, key)'
       PROVE  Holds(v, key) /\ v # w
  <2>1. 1..0 = {}
    OBVIOUS
  <2>2. Inserted(w)' = 0
    BY <1>6, <1>7 DEF Inserted
  <2>3. v # w
    BY <1>12, <2>1, <2>2 DEF Holds
  <2>. QED
    BY <1>6, <1>12, <2>3 DEF Holds, Inserted, PartKey
<1>13. KeysOK'
  <2>1. ASSUME NEW u \in Worker, NEW key, Holds(u, key)'
        PROVE  ~Taken(key)' /\ \A v \in Worker : Holds(v, key)' => v = u
    <3>1. Holds(u, key) /\ u # w
      BY <1>12, <2>1
    <3>2. ~Taken(key) /\ \A v \in Worker : Holds(v, key) => v = u
      BY <3>1, Holder DEF IInv
    <3>3. ~ \E i \in 1..Len(done) : PartKey(k, i) = key
      BY <1>4, <3>1
    <3>4. ~Taken(key)'
      BY <1>11, <3>2, <3>3 DEF Taken
    <3>. QED
      BY <1>12, <3>2, <3>4
  <2>2. ASSUME NEW u \in Worker, NEW i \in 1..Inserted(u)'
        PROVE  Holds(u, PartKey(job[u].key, i))'
    BY <2>2 DEF Holds
  <2>3. ASSUME NEW p \in Key, NEW q \in Key, NEW i \in 1..Len(rows'[p]), NEW key,
               key = PartKey(p, i), Has(q, key)'
        PROVE  q = p
    <3>1. Has(p, key)'
      BY <2>3 DEF Has, PartKey
    <3>2. CASE p = k /\ q # k
      <4>1. PICK h \in 1..Len(done) : PartKey(k, h) = key
        BY <1>8, <2>3, <3>2
      <4>2. Has(q, key)
        BY <1>11, <2>3, <3>2
      <4>. QED
        BY <1>4, <4>1, <4>2 DEF Taken
    <3>3. CASE p # k /\ q = k
      <4>1. PICK h \in 1..Len(done) : PartKey(k, h) = key
        BY <1>10, <1>11, <2>3, <3>3
      <4>2. Has(p, key)
        BY <1>11, <3>1, <3>3
      <4>. QED
        BY <1>4, <4>1, <4>2 DEF Taken
    <3>4. CASE p # k /\ q # k
      <4>1. i \in 1..Len(rows[p]) /\ Has(q, key)
        BY <1>8, <1>11, <2>3, <3>4
      <4>. QED
        BY <2>3, <4>1 DEF IInv, KeysOK
    <3>. QED
      BY <3>2, <3>3, <3>4
  <2>4. \A p, q \in Key : \A i \in 1..Len(rows'[p]) : Has(q, PartKey(p, i))' => q = p
    BY <2>3
  <2>. QED
    BY <2>1, <2>2, <2>4 DEF KeysOK
<1>14. DoneIsIssued'
  <2>1. 1..0 = {}
    OBVIOUS
  <2>. QED
    BY <1>1, <1>6, <1>7, <2>1 DEF IInv, DoneIsIssued
<1>15. AnswersOK'
  <2>1. ASSUME NEW c \in Key, c = k
        PROVE  Has(c, c)'
    <3>1. PartKey(k, 1) = c
      BY <2>1 DEF PartKey
    <3>. QED
      BY <1>4, <1>11, <2>1, <3>1
  <2>2. \A q \in Key : \A e \in Key : Has(q, e) => Has(q, e)' /\ rows'[q] = rows[q]
    BY <1>8, <1>10, <1>11
  <2>3. DOMAIN answers' = Key /\ answers'[k] = answers[k] \cup {done}
        /\ \A q \in Key : q # k => answers'[q] = answers[q]
    BY <1>1, <1>2 DEF IInv, AnswersOK
  <2>4. \A e \in Key : \A a \in answers[e] : \E q \in Key : Has(q, e)' /\ a = rows'[q]
    BY <2>2 DEF IInv, AnswersOK
  <2>5. ASSUME NEW e \in Key, NEW a \in answers'[e]
        PROVE  \E q \in Key : Has(q, e)' /\ a = rows'[q]
    <3>1. CASE e = k /\ a = done
      BY <1>2, <1>8, <2>1, <3>1
    <3>2. CASE a \in answers[e]
      BY <2>4, <3>2
    <3>. QED
      BY <2>3, <2>5, <3>1, <3>2
  <2>. QED
    BY <2>3, <2>5 DEF AnswersOK
<1>16. SlipsAreTracked'
  <2>1. SUFFICES ASSUME NEW s \in slips, s.key \notin faulty \cup clashed
                 PROVE  \/ \E i \in 1..Len(rows'[s.key]) :
                             rows'[s.key][i] = [amount |-> s.amount, due |-> s.due, slip |-> s.n]
                        \/ \E v \in Worker : job'[v].key = s.key
                             /\ \E i \in 1..Len(job'[v].done) : job'[v].done[i].slip = s.n
    BY <1>1 DEF SlipsAreTracked
  <2>2. s.key \in Key
    BY DEF IInv, SlipsOK, Slip
  <2>3. CASE \E i \in 1..Len(rows[s.key]) :
               rows[s.key][i] = [amount |-> s.amount, due |-> s.due, slip |-> s.n]
    <3>1. 1..0 = {}
      OBVIOUS
    <3>2. s.key # k
      BY <1>4, <1>7, <2>3, <3>1
    <3>. QED
      BY <1>8, <2>2, <2>3, <3>2
  <2>4. ASSUME NEW v \in Worker, job[v].key = s.key,
               NEW i \in 1..Len(job[v].done), job[v].done[i].slip = s.n
        PROVE  \/ \E h \in 1..Len(rows'[s.key]) :
                    rows'[s.key][h] = [amount |-> s.amount, due |-> s.due, slip |-> s.n]
               \/ \E u \in Worker : job'[u].key = s.key
                    /\ \E h \in 1..Len(job'[u].done) : job'[u].done[h].slip = s.n
    <3>1. CASE v # w
      BY <1>6, <2>4, <3>1
    <3>2. CASE v = w
      <4>1. i \in 1..Len(done) /\ done[i].slip = s.n /\ s.key = k
        BY <2>4, <3>2 DEF done, k
      <4>2. SlipOf(k, done[i]) \in slips /\ done[i] \in Part
        BY <1>5, <4>1
      <4>3. SlipOf(k, done[i]).n = s.n
        BY <4>1 DEF SlipOf
      <4>4. SlipOf(k, done[i]) = s
        BY <4>2, <4>3 DEF IInv, SlipsOK
      <4>5. done[i].amount = s.amount /\ done[i].due = s.due
        BY <4>4 DEF SlipOf
      <4>6. done[i] = [amount |-> s.amount, due |-> s.due, slip |-> s.n]
        BY <4>1, <4>2, <4>5 DEF Part
      <4>. QED
        BY <1>8, <4>1, <4>6
    <3>. QED
      BY <3>1, <3>2
  <2>. QED
    BY <2>1, <2>3, <2>4 DEF IInv, SlipsAreTracked
<1>17. SlipsOK'
  BY <1>1, SameSlips DEF IInv
<1>. QED
  BY <1>6, <1>9, <1>13, <1>14, <1>15, <1>16, <1>17 DEF IInv

LEMMA KeepStutter == ASSUME IInv, UNCHANGED vars PROVE IInv'
<1>1. /\ rows' = rows /\ slips' = slips /\ faulty' = faulty /\ clashed' = clashed
      /\ answers' = answers /\ job' = job
  BY DEF vars
<1>2. JobsOK' /\ RowsOK' /\ SlipsOK' /\ DoneIsIssued' /\ AnswersOK'
  BY <1>1, SameAnswers DEF IInv, JobsOK, RowsOK, SlipsOK, DoneIsIssued
<1>3. \A v \in Worker : job'[v].key = job[v].key /\ Inserted(v)' = Inserted(v)
  BY <1>1 DEF Inserted
<1>4. KeysOK'
  BY <1>1, <1>2, <1>3, SameKeys DEF IInv
<1>5. SlipsAreTracked'
  BY <1>1 DEF IInv, SlipsAreTracked
<1>. QED
  BY <1>2, <1>4, <1>5 DEF IInv

LEMMA Inductive == IInv /\ [Next]_vars => IInv'
<1>. SUFFICES ASSUME IInv, [Next]_vars PROVE IInv'
  OBVIOUS
<1>1. CASE \E k \in Key : Answer(k)
  BY <1>1, KeepAnswer
<1>2. ASSUME NEW w \in Worker, NEW k \in Key, NEW r \in Request, Ask(w, k, r)
      PROVE  IInv'
  BY <1>2, KeepAsk
<1>3. ASSUME NEW w \in Worker,
             \/ Insert(w) \/ KeyTaken(w) \/ Register(w) \/ RegisterFails(w) \/ Commit(w) \/ Crash(w)
      PROVE  IInv'
  BY <1>3, KeepInsert, KeepKeyTaken, KeepRegister, KeepRegisterFails, KeepCommit, KeepCrash
<1>. QED
  BY <1>1, <1>2, <1>3, KeepStutter DEF Next

LEMMA Invariance == Spec => []IInv
BY Begins, Inductive, PTL DEF Spec

LEMMA Typed == ASSUME IInv PROVE TypeOK
<1>1. ASSUME NEW S, NEW s \in Seq(S), Len(s) <= MaxParts
      PROVE  PartList(S, s)
  BY <1>1, ElementOfSeq DEF PartList
<1>2. MaxParts \in Nat
  BY RequestAssumption DEF MaxParts
<1>3. \A k \in Key : PartList(Part, rows[k])
  <2>. SUFFICES ASSUME NEW k \in Key PROVE PartList(Part, rows[k])
    OBVIOUS
  <2>1. rows[k] \in Seq(Part) /\ (rows[k] # <<>> => WholePlan(rows[k]))
    BY DEF IInv, RowsOK
  <2>2. Len(rows[k]) <= MaxParts
    <3>1. CASE rows[k] = <<>>
      BY <1>2, <3>1, EmptyPlan
    <3>2. CASE rows[k] # <<>>
      BY <1>2, <2>1, <3>2, PlanParts DEF WholePlan
    <3>. QED
      BY <3>1, <3>2
  <2>. QED
    BY <1>1, <2>1, <2>2
<1>4. \A k \in Key : \A a \in answers[k] : PartList(Part, a)
  BY <1>3 DEF IInv, AnswersOK
<1>5. ASSUME NEW w \in Worker
      PROVE  /\ job[w].pc \in {"idle", "insert", "register", "commit"}
             /\ job[w].key \in Key \cup {None} /\ job[w].ask \in Request \cup {None}
             /\ PartList(PlannedPart, job[w].plan) /\ PartList(Part, job[w].done)
  <2>1. Len(job[w].plan) <= MaxParts /\ Len(job[w].done) <= MaxParts
    <3>1. CASE job[w].pc = "idle"
      BY <1>2, <3>1, OneJob, EmptyPlan DEF IInv, Working
    <3>2. CASE job[w].pc # "idle"
      <4>1. Len(job[w].plan) \in 1..MaxParts
        BY <3>2, OneJob, PlanParts DEF IInv, Working
      <4>2. Len(job[w].done) <= Len(job[w].plan) /\ Len(job[w].done) \in Nat
        BY <3>2, OneJob DEF IInv, Working, PartsOf
      <4>. QED
        BY <1>2, <4>1, <4>2
    <3>. QED
      BY <3>1, <3>2
  <2>2. PartList(PlannedPart, job[w].plan) /\ PartList(Part, job[w].done)
    BY <1>1, <2>1, OneJob DEF IInv
  <2>. QED
    BY <2>2, OneJob DEF IInv, Job
<1>. QED
  BY <1>3, <1>4, <1>5 DEF IInv, RowsOK, SlipsOK, AnswersOK, TypeOK

LEMMA Whole == ASSUME IInv PROVE PlanIsWhole
<1>1. ASSUME NEW k \in Key, rows[k] # <<>>
      PROVE  \E r \in Request :
               /\ Valid(r) /\ PartsOf(rows[k], Plan(r)) /\ Len(rows[k]) = Len(Plan(r))
  BY <1>1 DEF IInv, RowsOK, WholePlan
<1>. QED
  BY <1>1, PlanDelivers DEF PlanIsWhole

-----------------------------------------------------------------------------
(* The theorems *)

\* Every row, slip, answer and request has its type: no plan has more parts than
\* the limits allow.
THEOREM TypeCorrect == Spec => []TypeOK
<1>1. IInv => TypeOK
  BY Typed
<1>. QED
  BY <1>1, Invariance, PTL

\* The charges of a key are a whole plan that was asked for: one a month on its
\* day, installments that add up to the total to the cent, a recurrence up to its
\* last month or the limit.
THEOREM WholeOrNothing == Spec => []PlanIsWhole
<1>1. IInv => PlanIsWhole
  BY Whole
<1>. QED
  BY <1>1, Invariance, PTL

\* Every slip at the bank belongs to a committed charge of its amount and due date
\* or to a transaction under way, unless a refusal, a lost answer, a crash, or the key
\* of a later part of its plan undid it: a request that loses the race for its own key
\* leaves none behind.
THEOREM EverySlipIsTracked == Spec => []SlipsAreTracked
<1>1. IInv => SlipsAreTracked
  BY DEF IInv
<1>. QED
  BY <1>1, Invariance, PTL

\* All requests with one key get the same charges for an answer, whether it is the
\* key of a plan or of one of its later parts.
THEOREM OneAnswer == Spec => []SameAnswer
<1>1. ASSUME IInv, NEW k \in Key, NEW a \in answers[k], NEW b \in answers[k]
      PROVE  a = b
  <2>1. PICK p \in Key : Has(p, k) /\ a = rows[p]
    BY <1>1 DEF IInv, AnswersOK
  <2>2. PICK q \in Key : Has(q, k) /\ b = rows[q]
    BY <1>1 DEF IInv, AnswersOK
  <2>3. PICK i \in 1..Len(rows[p]) : PartKey(p, i) = k
    BY <2>1 DEF Has
  <2>4. q = p
    BY <1>1, <2>2, <2>3 DEF IInv, KeysOK
  <2>. QED
    BY <2>1, <2>2, <2>4
<1>2. IInv => SameAnswer
  BY <1>1 DEF SameAnswer
<1>. QED
  BY <1>2, Invariance, PTL
=============================================================================
