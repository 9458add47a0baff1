--------------------------- MODULE SchedulingProofs --------------------------
(***************************************************************************)
(* Proofs about Scheduling, for any appointments, professionals, services, *)
(* buffers, commission rules and requests: no professional is booked twice *)
(* at one time; every completion is accounted for; what is settled stays;  *)
(* a customer is told of a status once.                                    *)
(***************************************************************************)
EXTENDS Scheduling, FiniteSetTheorems, WellFoundedInduction, TLAPS

-----------------------------------------------------------------------------
(* The inductive invariant *)

\* Program points of a booking; those with the professional's row locked; those
\* of a completion, which has locked the appointment with its professional.
BookingPC == {"lookup", "locked", "checked"}
LockedPC == {"locked", "checked"}
CompletingPC == {"completing", "snapshot"}
MoneyPC == {"deposit", "settle"}

Job == [pc : PC, key : Booking \cup {None}, ask : Row \cup {NoAppt},
        buffers : Buffers, seen : Fin, amount : Nat]

\* What a request remembers at each program point.
Remembered(j) ==
  /\ j.pc \in BookingPC \cup CompletingPC \cup MoneyPC => j.key \in Booking
  /\ j.pc \in BookingPC => j.ask \in Row /\ j.ask.status \in {"pending", "confirmed"}

RowsOK ==
  /\ appt \in [Booking -> Row \cup {NoAppt}]
  /\ buffers \in [Service -> Buffers]
  /\ fin \in [Booking -> Fin]

LocksOK == proLock \in [Professional -> Worker \cup {None}]

JobsOK ==
  /\ job \in [Worker -> Job]
  /\ \A w \in Worker : Remembered(job[w])

Typing == RowsOK /\ LocksOK /\ JobsOK

\* A request past its locking query holds the row of the professional it is
\* about; a completion is of an appointment that may be completed.
Holds(w, j, a, lock) ==
  /\ j.pc \in LockedPC => lock[j.ask.pro] = w
  /\ j.pc \in CompletingPC =>
       a[j.key].status \in {"in_progress", "completed"} /\ lock[a[j.key].pro] = w

\* What the overlap check found stays so until the insert.
Fresh(j, a) ==
  j.pc = "checked" =>
    \A b \in Booking :
      a[b].pro = j.ask.pro /\ a[b].status \in SlotBlocking => ~Overlap(j.ask, a[b])

Discipline ==
  \A w \in Worker : Holds(w, job[w], appt, proLock) /\ Fresh(job[w], appt)

IInv == Typing /\ Discipline /\ NoDoubleBooking

-----------------------------------------------------------------------------
(* Lemmas on the vocabulary and on single writes *)

LEMMA OverlapSymmetric ==
  \A x, y \in Row : Overlap(x, y) <=> Overlap(y, x)
  BY DEF Overlap, Row

\* Buffers only widen: what is clear of a footprint is clear of its interval.
LEMMA FootprintCovers ==
  ASSUME NEW x \in Row, NEW y \in Row, NEW f \in Buffers, NEW g \in Buffers,
         ~Overlap(Footprint(x, f), Footprint(y, g))
  PROVE  ~Overlap(x, y)
<1>1. /\ f.before \in Nat /\ f.after \in Nat /\ g.before \in Nat /\ g.after \in Nat
      /\ x.from \in Int /\ x.to \in Int /\ y.from \in Int /\ y.to \in Int
  BY TimeAssumption DEF Row
<1>2. ~(x.from - f.before < y.to + g.after /\ y.from - g.before < x.to + f.after)
  BY DEF Overlap, Footprint
<1>. QED  BY <1>1, <1>2 DEF Overlap

LEMMA IdleOK ==
  /\ Idle \in Job /\ Remembered(Idle)
  /\ \A w, a, lock : Holds(w, Idle, a, lock)
  /\ \A a : Fresh(Idle, a)
<1>1. NoBuffers \in Buffers  BY TimeAssumption DEF NoBuffers
<1>. QED
  BY <1>1 DEF Idle, Job, PC, NoFin, Fin, Remembered, Holds, Fresh, BookingPC, LockedPC,
              CompletingPC, MoneyPC

\* An appointment that blocks its slot is a row with a professional.
LEMMA Blocks ==
  ASSUME Typing, NEW b \in Booking, appt[b].status # "absent"
  PROVE  appt[b] \in Row /\ appt[b].pro \in Professional
  BY DEF Typing, RowsOK, NoAppt, Row

LEMMA Memory ==
  ASSUME Typing, NEW w \in Worker
  PROVE  job[w] \in Job /\ Remembered(job[w])
  BY DEF Typing, JobsOK

\* Two requests past their locking queries are about different professionals.
LEMMA OneHolder ==
  ASSUME Typing, Discipline, NEW v \in Worker, NEW w \in Worker, v # w,
         job[v].pc \in LockedPC, job[w].pc \in LockedPC
  PROVE  job[v].ask.pro # job[w].ask.pro
  BY DEF Discipline, Holds

\* A step that changes what one request remembers and holds, to something right.
LEMMA JobWrite ==
  ASSUME IInv, NEW w \in Worker, NEW j \in Job, Remembered(j),
         job' = [job EXCEPT ![w] = j], UNCHANGED <<appt, buffers>>,
         fin' \in [Booking -> Fin],
         Holds(w, j, appt, proLock'), Fresh(j, appt),
         proLock' \in [Professional -> Worker \cup {None}],
         \A p \in Professional, v \in Worker \ {w} :
           proLock[p] = v => proLock'[p] = v
  PROVE  IInv'
<1>1. Typing'
  BY DEF IInv, Typing, RowsOK, LocksOK, JobsOK, Remembered
<1>2. ASSUME NEW v \in Worker
      PROVE  Holds(v, job'[v], appt, proLock') /\ Fresh(job'[v], appt)
  <2>1. CASE v = w
    BY <2>1 DEF IInv, Typing, JobsOK
  <2>2. CASE v # w
    <3>1. /\ job'[v] = job[v] /\ job[v] \in Job /\ Remembered(job[v])
          /\ Holds(v, job[v], appt, proLock) /\ Fresh(job[v], appt)
      BY <2>2 DEF IInv, Typing, JobsOK, Discipline
    <3>2. job[v].pc \in LockedPC => job[v].ask.pro \in Professional
      BY <3>1 DEF Remembered, BookingPC, LockedPC, Row
    <3>3. job[v].pc \in CompletingPC => appt[job[v].key].pro \in Professional
      <4>. SUFFICES ASSUME job[v].pc \in CompletingPC
                    PROVE  appt[job[v].key].pro \in Professional
        OBVIOUS
      <4>1. job[v].key \in Booking /\ appt[job[v].key].status # "absent"
        BY <3>1 DEF Remembered, Holds
      <4>. QED  BY <4>1, Blocks DEF IInv
    <3>. QED  BY <2>2, <3>1, <3>2, <3>3 DEF Holds
  <2>. QED  BY <2>1, <2>2
<1>3. Discipline'  BY <1>2 DEF Discipline
<1>4. NoDoubleBooking'  BY DEF IInv, NoDoubleBooking, Blocking
<1>. QED  BY <1>1, <1>3, <1>4 DEF IInv

\* The end of a transaction that leaves the appointments alone.
LEMMA ReleaseWrite ==
  ASSUME IInv, NEW w \in Worker, Release(w), UNCHANGED <<appt, buffers>>,
         fin' \in [Booking -> Fin]
  PROVE  IInv'
<1>1. proLock' \in [Professional -> Worker \cup {None}]
  BY DEF Release, IInv, Typing, LocksOK
<1>2. \A p \in Professional, v \in Worker \ {w} : proLock[p] = v => proLock'[p] = v
  BY DEF Release
<1>. QED  BY <1>1, <1>2, IdleOK, JobWrite DEF Release


\* A new status that blocks the slot only if the old one did: no slot is taken.
LEMMA StatusWrite ==
  ASSUME IInv, NEW b \in Booking, appt[b].status # "absent",
         NEW new \in Status, new \in SlotBlocking => appt[b].status \in SlotBlocking,
         appt' = [appt EXCEPT ![b].status = new]
  PROVE  /\ appt' \in [Booking -> Row \cup {NoAppt}]
         /\ \A c \in Booking : appt'[c].pro = appt[c].pro
         /\ appt'[b].status = new
         /\ \A c \in Booking \ {b} : appt'[c] = appt[c]
         /\ \A j \in Job : Fresh(j, appt) => Fresh(j, appt')
         /\ NoDoubleBooking'
<1>1. appt \in [Booking -> Row \cup {NoAppt}] /\ appt[b] \in Row
  BY Blocks DEF IInv, Typing, RowsOK
<1>2. /\ appt' \in [Booking -> Row \cup {NoAppt}]
      /\ appt'[b].status = new
      /\ \A c \in Booking \ {b} : appt'[c] = appt[c]
  BY <1>1 DEF Row
<1>3. \A c \in Booking :
        /\ appt'[c].pro = appt[c].pro
        /\ appt'[c].from = appt[c].from /\ appt'[c].to = appt[c].to
        /\ appt'[c].status \in SlotBlocking => appt[c].status \in SlotBlocking
  BY <1>1, <1>2 DEF Row
<1>4. \A j \in Job : Fresh(j, appt) => Fresh(j, appt')
  BY <1>3 DEF Fresh, Overlap
<1>5. NoDoubleBooking'
  BY <1>3 DEF IInv, NoDoubleBooking, Blocking, Overlap
<1>. QED  BY <1>2, <1>3, <1>4, <1>5

-----------------------------------------------------------------------------
(* One lemma per action *)

LEMMA InitIInv == Init => IInv
<1>. SUFFICES ASSUME Init  PROVE IInv  OBVIOUS
<1>1. Typing
  BY IdleOK DEF Init, Typing, RowsOK, LocksOK, JobsOK, NoFin, Fin
<1>2. Discipline  BY IdleOK DEF Init, Discipline
<1>3. NoDoubleBooking
  BY DEF Init, NoDoubleBooking, Blocking, NoAppt, SlotBlocking, Status
<1>. QED  BY <1>1, <1>2, <1>3 DEF IInv

LEMMA BookLookupKeeps ==
  ASSUME IInv, NEW w \in Worker, NEW b \in Booking, BookLookup(w, b)
  PROVE  IInv'
<1>1. PICK p \in Professional, s \in Service, t \in Start, st \in {"pending", "confirmed"} :
        \E end \in EndsFor(t, s) :
          job' = [job EXCEPT ![w] =
                   [Idle EXCEPT !.pc = "lookup", !.key = b,
                                !.ask = [status |-> st, pro |-> p, svc |-> s,
                                         from |-> t, to |-> end]]]
  BY DEF BookLookup
<1>2. PICK end \in EndsFor(t, s) :
        job' = [job EXCEPT ![w] =
                 [Idle EXCEPT !.pc = "lookup", !.key = b,
                              !.ask = [status |-> st, pro |-> p, svc |-> s,
                                       from |-> t, to |-> end]]]
  BY <1>1
<1>. DEFINE ask == [status |-> st, pro |-> p, svc |-> s, from |-> t, to |-> end]
            j == [Idle EXCEPT !.pc = "lookup", !.key = b, !.ask = ask]
<1>3. ask \in Row
  BY TimeAssumption, MoneyAssumption DEF Row, Status, EndsFor
<1>4. j \in Job /\ j.pc = "lookup" /\ j.key = b /\ j.ask = ask
  BY <1>3, IdleOK DEF Job, Idle, PC
<1>5. Remembered(j) /\ Holds(w, j, appt, proLock) /\ Fresh(j, appt)
  BY <1>3, <1>4 DEF Remembered, Holds, Fresh, BookingPC, LockedPC, CompletingPC
<1>6. UNCHANGED <<appt, buffers, fin, proLock>>  BY DEF BookLookup
<1>. QED  BY <1>2, <1>4, <1>5, <1>6, JobWrite DEF IInv, Typing, RowsOK, LocksOK

LEMMA BookLockKeeps ==
  ASSUME IInv, NEW w \in Worker, BookLock(w)
  PROVE  IInv'
<1>. DEFINE ask == job[w].ask
            j == [job[w] EXCEPT !.pc = "locked", !.buffers = buffers[ask.svc]]
<1>1. /\ job[w] \in Job /\ Remembered(job[w]) /\ job[w].pc = "lookup"
      /\ job[w].key \in Booking /\ ask \in Row /\ ask.status \in {"pending", "confirmed"}
  BY Memory DEF IInv, BookLock, Remembered, BookingPC
<1>2. ask.pro \in Professional /\ ask.svc \in Service /\ buffers[ask.svc] \in Buffers
  BY <1>1 DEF Row, IInv, Typing, RowsOK
<1>3. /\ j \in Job /\ j.pc = "locked" /\ j.key = job[w].key /\ j.ask = ask
  BY <1>1, <1>2 DEF Job, PC
<1>4. proLock' = [proLock EXCEPT ![ask.pro] = w] /\ proLock[ask.pro] = None
  BY DEF BookLock
<1>5. job' = [job EXCEPT ![w] = j]
  BY DEF BookLock, IInv, Typing, JobsOK
<1>6. Remembered(j) /\ Holds(w, j, appt, proLock') /\ Fresh(j, appt)
  BY <1>1, <1>2, <1>3, <1>4
     DEF Remembered, Holds, Fresh, BookingPC, LockedPC, CompletingPC, IInv, Typing, LocksOK
<1>7. /\ proLock' \in [Professional -> Worker \cup {None}]
      /\ \A p \in Professional, v \in Worker \ {w} : proLock[p] = v => proLock'[p] = v
  BY <1>2, <1>4, NoneAssumption DEF IInv, Typing, LocksOK
<1>8. UNCHANGED <<appt, buffers>> /\ fin' \in [Booking -> Fin]
  BY DEF BookLock, IInv, Typing, RowsOK
<1>. HIDE DEF ask, j
<1>. QED  BY <1>3, <1>5, <1>6, <1>7, <1>8, JobWrite

LEMMA BookCheckKeeps ==
  ASSUME IInv, NEW w \in Worker, BookCheck(w)
  PROVE  IInv'
<1>. DEFINE ask == job[w].ask
            j == [job[w] EXCEPT !.pc = "checked", !.buffers = NoBuffers]
<1>1. /\ job[w] \in Job /\ Remembered(job[w]) /\ job[w].pc = "locked"
      /\ job[w].key \in Booking /\ ask \in Row /\ ask.status \in {"pending", "confirmed"}
      /\ job[w].buffers \in Buffers
  BY Memory DEF IInv, BookCheck, Remembered, BookingPC, Job
<1>2. j \in Job /\ j.pc = "checked" /\ j.key = job[w].key /\ j.ask = ask
  BY <1>1, TimeAssumption DEF Job, PC, NoBuffers
<1>3. job' = [job EXCEPT ![w] = j]
  BY DEF BookCheck, IInv, Typing, JobsOK
<1>4. Remembered(j) /\ Holds(w, j, appt, proLock)
  BY <1>1, <1>2 DEF Remembered, Holds, BookingPC, LockedPC, CompletingPC, IInv, Discipline
<1>5. Fresh(j, appt)
  <2>. SUFFICES ASSUME NEW b \in Booking, appt[b].pro = ask.pro,
                       appt[b].status \in SlotBlocking
                PROVE  ~Overlap(ask, appt[b])
    BY <1>2 DEF Fresh
  <2>1. appt[b] \in Row
    BY Blocks DEF IInv, SlotBlocking, Status
  <2>2. appt[b].svc \in Service /\ buffers[appt[b].svc] \in Buffers
    BY <2>1 DEF Row, IInv, Typing, RowsOK
  <2>3. ~Overlap(Footprint(ask, job[w].buffers),
                 Footprint(appt[b], buffers[appt[b].svc]))
    BY DEF BookCheck, NoConflict, Blocking
  <2>. QED  BY <1>1, <2>1, <2>2, <2>3, FootprintCovers
<1>6. UNCHANGED <<appt, buffers, fin, proLock>>  BY DEF BookCheck
<1>. QED  BY <1>2, <1>3, <1>4, <1>5, <1>6, JobWrite DEF IInv, Typing, RowsOK, LocksOK

LEMMA BookInsertKeeps ==
  ASSUME IInv, NEW w \in Worker, BookInsert(w)
  PROVE  IInv'
<1>. DEFINE ask == job[w].ask
            b == job[w].key
<1>1. /\ job[w].pc = "checked" /\ b \in Booking
      /\ ask \in Row /\ ask.status \in {"pending", "confirmed"}
  BY Memory DEF IInv, BookInsert, Remembered, BookingPC
<1>2. /\ appt' \in [Booking -> Row \cup {NoAppt}] /\ appt'[b] = ask
      /\ \A c \in Booking \ {b} : appt'[c] = appt[c]
  BY <1>1 DEF BookInsert, IInv, Typing, RowsOK
<1>3. appt[b].status = "absent"  BY DEF BookInsert, Exists
<1>4. /\ job'[w] = Idle /\ job' \in [Worker -> Job]
      /\ \A v \in Worker \ {w} : job'[v] = job[v]
  BY IdleOK DEF BookInsert, Release, IInv, Typing, JobsOK
<1>5. /\ proLock' \in [Professional -> Worker \cup {None}]
      /\ \A p \in Professional, v \in Worker \ {w} : proLock[p] = v => proLock'[p] = v
  BY DEF BookInsert, Release, IInv, Typing, LocksOK
<1>6. Typing'
  BY <1>2, <1>4, <1>5, IdleOK DEF BookInsert, IInv, Typing, RowsOK, LocksOK, JobsOK
<1>7. ASSUME NEW v \in Worker
      PROVE  Holds(v, job'[v], appt', proLock') /\ Fresh(job'[v], appt')
  <2>1. CASE v = w
    BY <2>1, <1>4, IdleOK
  <2>2. CASE v # w
    <3>1. /\ job'[v] = job[v] /\ job[v] \in Job /\ Remembered(job[v])
          /\ Holds(v, job[v], appt, proLock) /\ Fresh(job[v], appt)
      BY <2>2, <1>4, Memory DEF IInv, Discipline
    <3>2. CASE job[v].pc \in LockedPC
      <4>1. job[v].ask.pro \in Professional
        BY <3>1, <3>2 DEF Remembered, BookingPC, LockedPC, Row
      <4>2. job[v].ask.pro # ask.pro
        BY <1>1, <2>2, <3>2, OneHolder DEF IInv, LockedPC
      <4>3. Holds(v, job[v], appt', proLock')
        BY <2>2, <3>1, <3>2, <4>1, <1>5 DEF Holds, LockedPC, CompletingPC
      <4>4. Fresh(job[v], appt')
        BY <3>1, <4>2, <1>2 DEF Fresh
      <4>. QED  BY <3>1, <4>3, <4>4
    <3>3. CASE job[v].pc \in CompletingPC
      <4>1. job[v].key \in Booking /\ appt[job[v].key].status # "absent"
        BY <3>1, <3>3 DEF Remembered, Holds
      <4>2. job[v].key # b /\ appt[job[v].key].pro \in Professional
        BY <4>1, <1>3, Blocks DEF IInv
      <4>. QED
        BY <2>2, <3>1, <3>3, <4>1, <4>2, <1>2, <1>5
           DEF Holds, Fresh, LockedPC, CompletingPC
    <3>4. CASE job[v].pc \notin LockedPC \cup CompletingPC
      BY <3>1, <3>4 DEF Holds, Fresh, LockedPC
    <3>. QED  BY <3>2, <3>3, <3>4
  <2>. QED  BY <2>1, <2>2
<1>8. Discipline'  BY <1>7 DEF Discipline
<1>9. NoDoubleBooking'
  <2>. SUFFICES ASSUME NEW p \in Professional, NEW c \in Blocking(p)',
                       NEW d \in Blocking(p)', c # d
                PROVE  ~Overlap(appt'[c], appt'[d])
    BY DEF NoDoubleBooking
  <2>1. \A e \in Booking \ {b} : e \in Blocking(p)' => e \in Blocking(p)
    BY <1>2 DEF Blocking
  <2>2. \A e \in Booking \ {b} : e \in Blocking(p)' /\ ask.pro = p => ~Overlap(ask, appt[e])
    BY <1>1, <2>1 DEF IInv, Discipline, Fresh, Blocking
  <2>3. \A e \in Booking \ {b} : e \in Blocking(p)' => appt[e] \in Row
    BY <2>1, Blocks DEF IInv, Blocking, SlotBlocking, Status
  <2>4. c \in Booking /\ d \in Booking /\ (b \in Blocking(p)' => ask.pro = p)
    BY <1>2 DEF Blocking
  <2>5. CASE c = b
    BY <2>5, <2>2, <2>4, <1>2
  <2>6. CASE d = b
    BY <2>6, <2>2, <2>3, <2>4, <1>1, <1>2, OverlapSymmetric
  <2>7. CASE c # b /\ d # b
    BY <2>7, <2>1, <2>4, <1>2 DEF IInv, NoDoubleBooking
  <2>. QED  BY <2>5, <2>6, <2>7
<1>. QED  BY <1>6, <1>8, <1>9 DEF IInv

LEMMA TransitionKeeps ==
  ASSUME IInv, NEW w \in Worker, NEW b \in Booking,
         NEW new \in DOMAIN From \ {"completed"}, Transition(w, b, new)
  PROVE  IInv'
<1>1. /\ appt[b].status # "absent" /\ proLock[appt[b].pro] = None
      /\ appt' = [appt EXCEPT ![b].status = new]
      /\ UNCHANGED <<buffers, fin, proLock, job>>
  BY DEF Transition, Exists
<1>2. new \in Status /\ appt[b].status \in SlotBlocking
  BY DEF Transition, From, Status, SlotBlocking
<1>3. /\ appt' \in [Booking -> Row \cup {NoAppt}]
      /\ \A c \in Booking \ {b} : appt'[c] = appt[c]
      /\ \A j \in Job : Fresh(j, appt) => Fresh(j, appt')
      /\ NoDoubleBooking'
  BY <1>1, <1>2, StatusWrite
<1>4. Typing'
  BY <1>1, <1>3 DEF IInv, Typing, RowsOK, LocksOK, JobsOK
<1>5. ASSUME NEW v \in Worker
      PROVE  Holds(v, job[v], appt', proLock) /\ Fresh(job[v], appt')
  <2>1. /\ job[v] \in Job /\ Remembered(job[v])
        /\ Holds(v, job[v], appt, proLock) /\ Fresh(job[v], appt)
    BY Memory DEF IInv, Discipline
  <2>2. job[v].pc \in CompletingPC => job[v].key \in Booking \ {b}
    BY <2>1, <1>1, NoneAssumption DEF Remembered, Holds
  <2>. QED  BY <2>1, <2>2, <1>3 DEF Holds
<1>6. Discipline'  BY <1>1, <1>5 DEF Discipline
<1>. QED  BY <1>3, <1>4, <1>6 DEF IInv

LEMMA CompleteLockKeeps ==
  ASSUME IInv, NEW w \in Worker, NEW b \in Booking, CompleteLock(w, b)
  PROVE  IInv'
<1>. DEFINE p == appt[b].pro
            j == [Idle EXCEPT !.pc = "completing", !.key = b]
<1>1. p \in Professional /\ proLock[p] = None /\ proLock' = [proLock EXCEPT ![p] = w]
  BY Blocks DEF CompleteLock, Exists, IInv
<1>2. appt[b].status \in {"in_progress", "completed"}
  BY DEF CompleteLock, From
<1>3. j \in Job /\ j.pc = "completing" /\ j.key = b
  BY IdleOK DEF Job, Idle, PC
<1>4. Remembered(j) /\ Holds(w, j, appt, proLock') /\ Fresh(j, appt)
  BY <1>1, <1>2, <1>3
     DEF Remembered, Holds, Fresh, BookingPC, LockedPC, CompletingPC, IInv, Typing, LocksOK
<1>5. /\ proLock' \in [Professional -> Worker \cup {None}]
      /\ \A q \in Professional, v \in Worker \ {w} : proLock[q] = v => proLock'[q] = v
  BY <1>1, NoneAssumption DEF IInv, Typing, LocksOK
<1>6. /\ job' = [job EXCEPT ![w] = j] /\ UNCHANGED <<appt, buffers>>
      /\ fin' \in [Booking -> Fin]
  BY DEF CompleteLock, IInv, Typing, RowsOK
<1>. HIDE DEF p, j
<1>. QED  BY <1>3, <1>4, <1>5, <1>6, JobWrite

LEMMA CompleteFinancialKeeps ==
  ASSUME IInv, NEW w \in Worker, CompleteFinancial(w)
  PROVE  IInv'
<1>. DEFINE j == [job[w] EXCEPT !.pc = "snapshot"]
<1>1. /\ job[w] \in Job /\ Remembered(job[w]) /\ job[w].pc = "completing"
      /\ Holds(w, job[w], appt, proLock)
  BY Memory DEF IInv, CompleteFinancial, Discipline
<1>2. j \in Job /\ j.pc = "snapshot" /\ j.key = job[w].key
  BY <1>1 DEF Job, PC
<1>3. Remembered(j) /\ Holds(w, j, appt, proLock) /\ Fresh(j, appt)
  BY <1>1, <1>2 DEF Remembered, Holds, Fresh, BookingPC, LockedPC, CompletingPC
<1>4. /\ job' = [job EXCEPT ![w] = j] /\ UNCHANGED <<appt, buffers, proLock>>
      /\ fin' \in [Booking -> Fin] /\ proLock \in [Professional -> Worker \cup {None}]
  BY DEF CompleteFinancial, IInv, Typing, RowsOK, LocksOK, JobsOK
<1>. HIDE DEF j
<1>. QED  BY <1>2, <1>3, <1>4, JobWrite

LEMMA CompleteCommitKeeps ==
  ASSUME IInv, NEW w \in Worker, CompleteCommit(w)
  PROVE  IInv'
<1>. DEFINE b == job[w].key
<1>1. /\ job[w].pc = "snapshot" /\ b \in Booking
      /\ appt[b].status \in {"in_progress", "completed"} /\ proLock[appt[b].pro] = w
  BY Memory DEF IInv, CompleteCommit, Remembered, Discipline, Holds, CompletingPC
<1>2. /\ appt' = [appt EXCEPT ![b].status = "completed"] /\ UNCHANGED buffers
      /\ fin' \in [Booking -> Fin]
  BY <1>1 DEF CompleteCommit, NewFin, NoFin, Fin, IInv, Typing, RowsOK
<1>3. /\ appt' \in [Booking -> Row \cup {NoAppt}]
      /\ \A c \in Booking \ {b} : appt'[c] = appt[c]
      /\ \A j \in Job : Fresh(j, appt) => Fresh(j, appt')
      /\ NoDoubleBooking'
  BY <1>1, <1>2, StatusWrite DEF SlotBlocking, Status
<1>4. /\ job'[w] = Idle /\ job' \in [Worker -> Job]
      /\ \A v \in Worker \ {w} : job'[v] = job[v]
  BY IdleOK DEF CompleteCommit, Release, IInv, Typing, JobsOK
<1>5. /\ proLock' \in [Professional -> Worker \cup {None}]
      /\ \A p \in Professional, v \in Worker \ {w} : proLock[p] = v => proLock'[p] = v
  BY DEF CompleteCommit, Release, IInv, Typing, LocksOK
<1>6. Typing'
  BY <1>2, <1>3, <1>4, <1>5, IdleOK DEF IInv, Typing, RowsOK, LocksOK, JobsOK
<1>7. ASSUME NEW v \in Worker
      PROVE  Holds(v, job'[v], appt', proLock') /\ Fresh(job'[v], appt')
  <2>1. CASE v = w
    BY <2>1, <1>4, IdleOK
  <2>2. CASE v # w
    <3>1. /\ job'[v] = job[v] /\ job[v] \in Job /\ Remembered(job[v])
          /\ Holds(v, job[v], appt, proLock) /\ Fresh(job[v], appt)
      BY <2>2, <1>4, Memory DEF IInv, Discipline
    <3>2. job[v].pc \in LockedPC => job[v].ask.pro \in Professional
      BY <3>1 DEF Remembered, BookingPC, LockedPC, Row
    <3>3. job[v].pc \in CompletingPC =>
            job[v].key \in Booking \ {b} /\ appt[job[v].key].pro \in Professional
      <4>. SUFFICES ASSUME job[v].pc \in CompletingPC
                    PROVE  /\ job[v].key \in Booking \ {b}
                           /\ appt[job[v].key].pro \in Professional
        OBVIOUS
      <4>1. /\ job[v].key \in Booking /\ appt[job[v].key].status # "absent"
            /\ proLock[appt[job[v].key].pro] = v
        BY <3>1 DEF Remembered, Holds
      <4>. QED  BY <2>2, <1>1, <4>1, Blocks DEF IInv
    <3>. QED  BY <2>2, <3>1, <3>2, <3>3, <1>3, <1>5 DEF Holds
  <2>. QED  BY <2>1, <2>2
<1>8. Discipline'  BY <1>7 DEF Discipline
<1>. QED  BY <1>3, <1>6, <1>8 DEF IInv

LEMMA FinLockKeeps ==
  ASSUME IInv, NEW w \in Worker, NEW b \in Booking, FinLock(w, b)
  PROVE  IInv'
<1>1. PICK op \in MoneyPC, n \in Amounts :
        job' = [job EXCEPT ![w] = [Idle EXCEPT !.pc = op, !.key = b, !.amount = n,
                                               !.seen = fin[b]]]
  BY DEF FinLock, MoneyPC
<1>. DEFINE j == [Idle EXCEPT !.pc = op, !.key = b, !.amount = n, !.seen = fin[b]]
<1>2. fin[b] \in Fin /\ n \in Nat
  BY MoneyAssumption DEF IInv, Typing, RowsOK
<1>3. j \in Job /\ j.pc \in MoneyPC /\ j.key = b
  BY <1>2, IdleOK DEF Job, Idle, PC, MoneyPC
<1>4. Remembered(j) /\ Holds(w, j, appt, proLock) /\ Fresh(j, appt)
  BY <1>3 DEF Remembered, Holds, Fresh, BookingPC, LockedPC, CompletingPC, MoneyPC
<1>5. /\ UNCHANGED <<appt, buffers, proLock>> /\ fin' \in [Booking -> Fin]
      /\ proLock \in [Professional -> Worker \cup {None}]
  BY DEF FinLock, IInv, Typing, RowsOK, LocksOK
<1>. QED  BY <1>1, <1>3, <1>4, <1>5, JobWrite

\* Both commits of money write the row they have locked, and end.
LEMMA MoneyCommitKeeps ==
  ASSUME IInv, NEW w \in Worker, DepositCommit(w) \/ SettleCommit(w)
  PROVE  IInv'
<1>1. job[w] \in Job /\ job[w].key \in Booking
  BY Memory DEF IInv, DepositCommit, SettleCommit, Remembered, MoneyPC
<1>2. job[w].amount \in Nat  BY <1>1 DEF Job
<1>3. fin' \in [Booking -> Fin]
  <2>. DEFINE b == job[w].key
              deposited == [fin[b] EXCEPT !.exists = TRUE, !.deposit = job[w].amount]
              settled == [fin[b] EXCEPT !.exists = TRUE, !.discount = job[w].amount,
                                        !.settled = TRUE]
  <2>1. fin \in [Booking -> Fin] /\ fin[b] \in Fin
    BY <1>1 DEF IInv, Typing, RowsOK
  <2>2. deposited \in Fin /\ settled \in Fin
    BY <2>1, <1>2 DEF Fin
  <2>3. \/ fin' = [fin EXCEPT ![b] = deposited]
        \/ fin' = [fin EXCEPT ![b] = settled]
        \/ fin' = fin
    BY <2>1, <1>1 DEF DepositCommit, SettleCommit
  <2>. HIDE DEF deposited, settled
  <2>. QED  BY <2>1, <2>2, <2>3, <1>1
<1>4. UNCHANGED <<appt, buffers>> /\ Release(w)
  BY DEF DepositCommit, SettleCommit
<1>. QED  BY <1>3, <1>4, ReleaseWrite

\* A booking that is refused, a transaction that is aborted.
LEMMA EndKeeps ==
  ASSUME IInv, NEW w \in Worker, BookRefused(w) \/ Abort(w)
  PROVE  IInv'
  BY ReleaseWrite DEF BookRefused, Abort, IInv, Typing, RowsOK

\* Steps that leave appointments, locks and requests alone.
LEMMA OtherKeeps ==
  ASSUME IInv, UNCHANGED <<appt, fin, proLock, job>>, buffers' \in [Service -> Buffers]
  PROVE  IInv'
  BY DEF IInv, Typing, RowsOK, LocksOK, JobsOK, Discipline, NoDoubleBooking, Blocking

LEMMA NextKeeps == IInv /\ [Next]_vars => IInv'
<1>. SUFFICES ASSUME IInv, [Next]_vars  PROVE IInv'
  OBVIOUS
<1>1. ASSUME NEW w \in Worker, NEW b \in Booking,
             \/ BookLookup(w, b) \/ CompleteLock(w, b) \/ FinLock(w, b)
             \/ \E new \in DOMAIN From \ {"completed"} : Transition(w, b, new)
      PROVE  IInv'
  BY <1>1, BookLookupKeeps, CompleteLockKeeps, FinLockKeeps, TransitionKeeps
<1>2. ASSUME NEW w \in Worker,
             \/ BookLock(w) \/ BookCheck(w) \/ BookInsert(w) \/ BookRefused(w)
             \/ CompleteFinancial(w) \/ CompleteCommit(w)
             \/ DepositCommit(w) \/ SettleCommit(w) \/ Abort(w)
      PROVE  IInv'
  BY <1>2, BookLockKeeps, BookCheckKeeps, BookInsertKeeps, EndKeeps,
     CompleteFinancialKeeps, CompleteCommitKeeps, MoneyCommitKeeps
<1>3. CASE \/ \E b \in Booking, status \in EntryStatus : SetEntryStatus(b, status)
           \/ \E s \in Service : PatchService(s)
           \/ AddBlock
           \/ UNCHANGED vars
  <2>1. UNCHANGED <<appt, fin, proLock, job>> /\ buffers' \in [Service -> Buffers]
    BY <1>3 DEF SetEntryStatus, PatchService, AddBlock, vars, IInv, Typing, RowsOK
  <2>. QED  BY <2>1, OtherKeeps
<1>. QED  BY <1>1, <1>2, <1>3 DEF Next

-----------------------------------------------------------------------------
\* A professional is never booked twice at one time, however many requests book,
\* move and complete appointments side by side (create_appointment and
\* _transition under the lock of the Professional row).
THEOREM NeverBookedTwice == Spec => []NoDoubleBooking
<1>1. Init => IInv  BY InitIInv
<1>2. IInv /\ [Next]_vars => IInv'  BY NextKeeps
<1>3. IInv => NoDoubleBooking  BY DEF IInv
<1>. QED  BY <1>1, <1>2, <1>3, PTL DEF Spec

-----------------------------------------------------------------------------
(* The commission of a completed appointment *)

EntryRow == [status : EntryStatus \cup {"absent"}, base : Nat, rule : Nat, commission : Nat]

LEMMA RuleTypes ==
  ASSUME NEW r \in Rules
  PROVE  /\ r.id \in Nat \ {0} /\ r.priority \in Int /\ r.value \in Nat
         /\ Specificity(r) \in Nat
         /\ r.pro # None => Specificity(r) >= 10
         /\ r.pro = None => Specificity(r) < 10
  BY RuleAssumption DEF Specificity

\* Two rules are never equally good: the id decides.
LEMMA BeatsIsStrictOrder ==
  ASSUME NEW p \in Rules, NEW q \in Rules, NEW r \in Rules
  PROVE  /\ ~Beats(p, p)
         /\ Beats(p, q) /\ Beats(q, r) => Beats(p, r)
         /\ p # q => Beats(p, q) \/ Beats(q, p)
<1>1. p # q => p.id # q.id
  BY RuleAssumption
<1>. QED  BY <1>1, RuleTypes DEF Beats

\* Among finitely many rules one is better than all others: of the sets of those
\* that beat a rule one is minimal.
LEMMA BestRule ==
  ASSUME NEW R \in SUBSET Rules, R # {}
  PROVE  \E r \in R : \A q \in R \ {r} : Beats(r, q)
<1>. DEFINE Better(r) == {q \in R : Beats(q, r)}
            G == {Better(r) : r \in R}
<1>1. IsWellFoundedOn(StrictSubsetOrdering(Rules), SUBSET Rules)
  BY RuleAssumption, FS_StrictSubsetOrderingWellFounded, FS_FiniteSubsetsOfFinite
<1>2. G \subseteq SUBSET Rules /\ G # {}
  OBVIOUS
<1>3. PICK T \in G : \A U \in G : ~(<<U, T>> \in StrictSubsetOrdering(Rules))
  <2>. HIDE DEF G
  <2>. QED  BY <1>1, <1>2, WFMin
<1>4. PICK r \in R : T = Better(r)
  BY <1>3
<1>5. ASSUME NEW q \in R, Beats(q, r)  PROVE FALSE
  <2>1. Better(q) \subseteq T /\ q \in T /\ q \notin Better(q)
    BY <1>4, <1>5, BeatsIsStrictOrder
  <2>2. Better(q) \in G /\ Better(q) \in SUBSET Rules /\ T \in SUBSET Rules
    BY <1>2, <1>3
  <2>. QED  BY <1>3, <2>1, <2>2 DEF StrictSubsetOrdering
<1>6. \A q \in R \ {r} : Beats(r, q)
  BY <1>5, BeatsIsStrictOrder
<1>. QED  BY <1>6

LEMMA EarnedFits ==
  ASSUME NEW r \in Rules
  PROVE  Earned(r, Price) \in Nat /\ Earned(r, Price) <= Price
<1>1. r.value \in Nat /\ Price \in Nat
  BY RuleTypes, MoneyAssumption
<1>2. Price * r.value \in Nat
  BY <1>1
<1>3. \A n \in Nat : RoundHalfEven(n, 10000) \in Nat
  BY DEF RoundHalfEven
<1>4. RoundHalfEven(Price * r.value, 10000) \in Nat
  BY <1>2, <1>3
<1>. QED  BY <1>1, <1>4 DEF Earned

\* What create_commission_entry_for_completed promises of the entry of a row.
Accounts(e, row) ==
  /\ e \in EntryRow /\ e.status # "absent"
  /\ e.base = Price /\ e.commission <= Price
  /\ \A r \in Rules :
       r.pro = row.pro /\ ~r.branch /\ r.svc = None =>
         \E q \in Rules : q.id = e.rule /\ q.pro = row.pro

LEMMA EntryAccounts ==
  ASSUME NEW row \in Row
  PROVE  Accounts(Entry(row), row)
<1>. DEFINE R == {r \in Rules : Applies(r, row)}
<1>1. Price \in Nat /\ row.pro # None
  BY MoneyAssumption, NoneAssumption DEF Row
<1>2. CASE R = {}
  <2>1. Entry(row) = [status |-> "pending", base |-> Price, rule |-> 0, commission |-> 0]
    BY <1>2 DEF Entry
  <2>2. ~\E r \in Rules : r.pro = row.pro /\ ~r.branch /\ r.svc = None
    BY <1>2 DEF Applies
  <2>. QED  BY <1>1, <2>1, <2>2 DEF Accounts, EntryRow, EntryStatus
<1>3. CASE R # {}
  <2>. DEFINE best == CHOOSE r \in R : \A q \in R \ {r} : Beats(r, q)
  <2>1. best \in R /\ \A q \in R \ {best} : Beats(best, q)
    <3>. HIDE DEF R
    <3>1. R \in SUBSET Rules  BY DEF R
    <3>2. \E r \in R : \A q \in R \ {r} : Beats(r, q)
      BY <1>3, <3>1, BestRule
    <3>. QED  BY <3>2
  <2>2. Entry(row) = [status |-> "pending", base |-> Price, rule |-> best.id,
                      commission |-> Earned(best, Price)]
    BY <1>3 DEF Entry
  <2>3. best \in Rules /\ best.id \in Nat /\ Earned(best, Price) \in Nat
        /\ Earned(best, Price) <= Price
    BY <2>1, RuleTypes, EarnedFits
  <2>4. ASSUME NEW r \in Rules, r.pro = row.pro, ~r.branch, r.svc = None
        PROVE  best.pro = row.pro
    <3>1. r \in R /\ r.pro # None
      BY <1>1, <2>4 DEF Applies
    <3>2. best = r \/ Beats(best, r)
      BY <2>1, <3>1
    <3>3. best.pro # None
      <4>. HIDE DEF best
      <4>. QED  BY <2>3, <3>1, <3>2, RuleTypes DEF Beats
    <3>. QED  BY <2>1, <3>3 DEF Applies
  <2>. HIDE DEF best
  <2>. QED  BY <1>1, <2>2, <2>3, <2>4 DEF Accounts, EntryRow, EntryStatus
<1>. QED  BY <1>2, <1>3

-----------------------------------------------------------------------------
(* The ledger: money, entries and messages *)

\* Who has locked a financial row, a deposit or a settlement in particular, finds
\* it as it was then.
HoldsMoney(w, j, lock, f) ==
  /\ j.pc \in MoneyPC \cup {"snapshot"} => lock[j.key] = w
  /\ j.pc \in MoneyPC => j.seen = f[j.key]

MoneyOK ==
  /\ finLock \in [Booking -> Worker \cup {None}]
  /\ \A w \in Worker : HoldsMoney(w, job[w], finLock, fin)
  /\ \A b \in Booking : fin[b].settled => fin[b].exists

\* A status that can still come has not been announced.
ToldFits(status, t) ==
  /\ status = "absent" => \A e \in Announced : t[e] = 0
  /\ status = "pending" => t["confirmed"] = 0
  /\ status # "cancelled" => t["cancelled"] = 0
  /\ status # "completed" => t["completed"] = 0

ToldOK ==
  /\ told \in [Booking -> [Announced -> 0..1]]
  /\ \A b \in Booking : ToldFits(appt[b].status, told[b])

\* Appointments and the entries made of them.
Accounted(row, e, f) ==
  /\ row.status = "completed" <=> e # NoEntry
  /\ e # NoEntry => Accounts(e, row) /\ f.exists

EntriesOK ==
  /\ entry \in [Booking -> EntryRow]
  /\ \A b \in Booking : Accounted(appt[b], entry[b], fin[b])

LInv == IInv /\ blocks \subseteq BlockSpans /\ MoneyOK /\ ToldOK /\ EntriesOK

\* One request writes, only what it has locked, and remembers something right.
LEMMA MoneyWrite ==
  ASSUME IInv, MoneyOK, NEW w \in Worker, NEW j,
         job' = [job EXCEPT ![w] = j], HoldsMoney(w, j, finLock', fin'),
         finLock' \in [Booking -> Worker \cup {None}],
         \A b \in Booking, v \in Worker \ {w} : finLock[b] = v => finLock'[b] = v,
         \A b \in Booking : finLock[b] = w \/ fin'[b] = fin[b],
         \A b \in Booking : fin'[b].settled => fin'[b].exists
  PROVE  MoneyOK'
<1>1. ASSUME NEW v \in Worker  PROVE HoldsMoney(v, job'[v], finLock', fin')
  <2>1. CASE v = w
    BY <2>1 DEF IInv, Typing, JobsOK
  <2>2. CASE v # w
    <3>1. job'[v] = job[v] /\ Remembered(job[v]) /\ HoldsMoney(v, job[v], finLock, fin)
      BY <2>2 DEF IInv, Typing, JobsOK, MoneyOK
    <3>2. job[v].pc \in MoneyPC \cup {"snapshot"} => job[v].key \in Booking
      BY <3>1 DEF Remembered, CompletingPC
    <3>. QED  BY <2>2, <3>1, <3>2 DEF HoldsMoney
  <2>. QED  BY <2>1, <2>2
<1>. QED  BY <1>1 DEF MoneyOK

LEMMA MoneyRelease ==
  ASSUME IInv, MoneyOK, NEW w \in Worker, Release(w),
         \A b \in Booking : finLock[b] = w \/ fin'[b] = fin[b],
         \A b \in Booking : fin'[b].settled => fin'[b].exists
  PROVE  MoneyOK'
<1>1. /\ finLock' \in [Booking -> Worker \cup {None}]
      /\ \A b \in Booking, v \in Worker \ {w} : finLock[b] = v => finLock'[b] = v
  BY DEF Release, MoneyOK
<1>2. HoldsMoney(w, Idle, finLock', fin')
  BY DEF HoldsMoney, Idle, MoneyPC
<1>3. job' = [job EXCEPT ![w] = Idle]
  BY DEF Release
<1>. QED  BY <1>1, <1>2, <1>3, MoneyWrite

\* Nothing is entered: the rows, entries and messages are as they were.
LEMMA LedgerSame ==
  ASSUME LInv, UNCHANGED <<appt, fin, entry, told, blocks>>
  PROVE  blocks' \subseteq BlockSpans /\ ToldOK' /\ EntriesOK'
  BY DEF LInv, ToldOK, EntriesOK, Accounted

\* A status is written, and told: only what comes next in fit with it.
LEMMA TellFits ==
  ASSUME ToldOK, NEW b \in Booking, NEW new \in Status,
         appt'[b].status = new, \A c \in Booking \ {b} : appt'[c] = appt[c],
         \/ appt[b].status = "absent" /\ new \in {"pending", "confirmed"}
         \/ new \in DOMAIN From /\ appt[b].status \in From[new],
         Tell(b, new)
  PROVE  ToldOK'
<1>1. told[b] \in [Announced -> 0..1] /\ ToldFits(appt[b].status, told[b])
  BY DEF ToldOK
<1>2. CASE new \notin Announced
  <2>1. told' = told
    BY <1>2 DEF Tell
  <2>2. ToldFits(new, told[b])
    BY <1>1, <1>2 DEF ToldFits, Announced, From, Status
  <2>. QED  BY <2>1, <2>2 DEF ToldOK
<1>3. CASE new \in Announced
  <2>. DEFINE t == [told[b] EXCEPT ![new] = 1]
  <2>1. told[b][new] = 0
    BY <1>1, <1>3 DEF ToldFits, Announced, From, Status
  <2>2. told' = [told EXCEPT ![b] = t]
    BY <1>1, <1>3, <2>1 DEF Tell
  <2>3. t \in [Announced -> 0..1] /\ ToldFits(new, t)
    BY <1>1, <1>3 DEF ToldFits, Announced, From, Status
  <2>4. /\ told' \in [Booking -> [Announced -> 0..1]] /\ told'[b] = t
        /\ \A c \in Booking \ {b} : told'[c] = told[c]
    BY <2>2, <2>3 DEF ToldOK
  <2>. HIDE DEF t
  <2>. QED  BY <2>3, <2>4 DEF ToldOK
<1>. QED  BY <1>2, <1>3

\* Requests that look, lock, give up or are aborted.
LEMMA QuietKeeps ==
  ASSUME LInv, NEW w \in Worker,
         \/ \E b \in Booking : BookLookup(w, b) \/ CompleteLock(w, b)
         \/ BookLock(w) \/ BookCheck(w) \/ BookRefused(w) \/ Abort(w)
  PROVE  MoneyOK' /\ blocks' \subseteq BlockSpans /\ ToldOK' /\ EntriesOK'
<1>1. UNCHANGED <<appt, fin, entry, told, blocks>>
  BY DEF BookLookup, CompleteLock, BookLock, BookCheck, BookRefused, Abort
<1>2. \A b \in Booking : fin[b].settled => fin[b].exists
  BY DEF LInv, MoneyOK
<1>3. CASE BookRefused(w) \/ Abort(w)
  <2>1. MoneyOK'
    BY <1>1, <1>2, <1>3, MoneyRelease DEF LInv, BookRefused, Abort
  <2>. QED  BY <1>1, <2>1, LedgerSame
<1>4. CASE \/ \E b \in Booking : BookLookup(w, b) \/ CompleteLock(w, b)
           \/ BookLock(w) \/ BookCheck(w)
  <2>1. PICK j : /\ job' = [job EXCEPT ![w] = j] /\ UNCHANGED finLock
                 /\ j.pc \in {"lookup", "completing", "locked", "checked"}
    <3>1. CASE \E b \in Booking : BookLookup(w, b)
      <4>1. PICK b \in Booking : BookLookup(w, b)
        BY <3>1
      <4>2. PICK ask :
              job' = [job EXCEPT ![w] = [Idle EXCEPT !.pc = "lookup", !.key = b, !.ask = ask]]
        BY <4>1 DEF BookLookup
      <4>. DEFINE j == [Idle EXCEPT !.pc = "lookup", !.key = b, !.ask = ask]
      <4>3. j.pc = "lookup" /\ UNCHANGED finLock
        BY <4>1 DEF BookLookup, Idle
      <4>4. job' = [job EXCEPT ![w] = j]
        BY <4>2
      <4>. HIDE DEF j
      <4>. QED  BY <4>3, <4>4
    <3>2. CASE \E b \in Booking : CompleteLock(w, b)
      <4>1. PICK b \in Booking : CompleteLock(w, b)
        BY <3>2
      <4>. DEFINE j == [Idle EXCEPT !.pc = "completing", !.key = b]
      <4>2. job' = [job EXCEPT ![w] = j] /\ j.pc = "completing" /\ UNCHANGED finLock
        BY <4>1 DEF CompleteLock, Idle
      <4>. HIDE DEF j
      <4>. QED  BY <4>2
    <3>3. CASE BookLock(w)
      <4>. DEFINE j == [job[w] EXCEPT !.pc = "locked", !.buffers = buffers[job[w].ask.svc]]
      <4>1. job[w] \in Job  BY Memory DEF LInv, IInv
      <4>2. job' = [job EXCEPT ![w] = j] /\ j.pc = "locked" /\ UNCHANGED finLock
        BY <3>3, <4>1 DEF BookLock, Job
      <4>. QED  BY <4>2
    <3>4. CASE BookCheck(w)
      <4>. DEFINE j == [job[w] EXCEPT !.pc = "checked", !.buffers = NoBuffers]
      <4>1. job[w] \in Job  BY Memory DEF LInv, IInv
      <4>2. job' = [job EXCEPT ![w] = j] /\ j.pc = "checked" /\ UNCHANGED finLock
        BY <3>4, <4>1 DEF BookCheck, Job
      <4>. QED  BY <4>2
    <3>. QED  BY <1>4, <3>1, <3>2, <3>3, <3>4
  <2>2. HoldsMoney(w, j, finLock', fin')
    BY <2>1 DEF HoldsMoney, MoneyPC
  <2>3. MoneyOK'
    BY <1>1, <1>2, <2>1, <2>2, MoneyWrite DEF LInv, MoneyOK
  <2>. QED  BY <1>1, <2>3, LedgerSame
<1>. QED  BY <1>3, <1>4

LEMMA LedgerBookInsert ==
  ASSUME LInv, NEW w \in Worker, BookInsert(w)
  PROVE  MoneyOK' /\ blocks' \subseteq BlockSpans /\ ToldOK' /\ EntriesOK'
<1>. DEFINE b == job[w].key
            ask == job[w].ask
<1>1. /\ b \in Booking /\ ask \in Row /\ ask.status \in {"pending", "confirmed"}
      /\ appt[b].status = "absent" /\ UNCHANGED <<fin, entry, blocks>>
  BY Memory DEF LInv, IInv, BookInsert, Remembered, BookingPC, Exists
<1>2. appt'[b] = ask /\ \A c \in Booking \ {b} : appt'[c] = appt[c]
  BY <1>1 DEF BookInsert, LInv, IInv, Typing, RowsOK
<1>3. MoneyOK'
  BY <1>1, MoneyRelease DEF LInv, MoneyOK, BookInsert
<1>4. ToldOK'
  BY <1>1, <1>2, TellFits DEF LInv, BookInsert, Status
<1>5. EntriesOK'
  BY <1>1, <1>2 DEF LInv, EntriesOK, Accounted
<1>. QED  BY <1>1, <1>3, <1>4, <1>5 DEF LInv

LEMMA LedgerTransition ==
  ASSUME LInv, NEW w \in Worker, NEW b \in Booking,
         NEW new \in DOMAIN From \ {"completed"}, Transition(w, b, new)
  PROVE  MoneyOK' /\ blocks' \subseteq BlockSpans /\ ToldOK' /\ EntriesOK'
<1>1. /\ appt[b] \in Row /\ UNCHANGED <<fin, entry, blocks, finLock, job>>
      /\ new \in Status /\ new # "completed" /\ appt[b].status # "completed"
  BY Blocks DEF LInv, IInv, Transition, Exists, From, Status
<1>2. /\ appt'[b] = [appt[b] EXCEPT !.status = new]
      /\ \A c \in Booking \ {b} : appt'[c] = appt[c]
  BY DEF Transition, LInv, IInv, Typing, RowsOK
<1>3. appt'[b].status = new
  BY <1>1, <1>2 DEF Row
<1>4. MoneyOK'
  BY <1>1 DEF LInv, MoneyOK
<1>5. ToldOK'
  BY <1>1, <1>2, <1>3, TellFits DEF LInv, Transition
<1>6. EntriesOK'
  BY <1>1, <1>2, <1>3 DEF LInv, EntriesOK, Accounted
<1>. QED  BY <1>1, <1>4, <1>5, <1>6 DEF LInv

LEMMA LedgerCompleteFinancial ==
  ASSUME LInv, NEW w \in Worker, CompleteFinancial(w)
  PROVE  MoneyOK' /\ blocks' \subseteq BlockSpans /\ ToldOK' /\ EntriesOK'
<1>. DEFINE j == [job[w] EXCEPT !.pc = "snapshot"]
            b == job[w].key
<1>1. /\ job[w] \in Job /\ b \in Booking /\ finLock[b] = None
      /\ UNCHANGED <<appt, fin, entry, told, blocks>>
      /\ finLock' = [finLock EXCEPT ![b] = w] /\ job' = [job EXCEPT ![w] = j]
  BY Memory DEF LInv, IInv, CompleteFinancial, Remembered, CompletingPC
<1>2. /\ finLock' \in [Booking -> Worker \cup {None}] /\ finLock'[b] = w
      /\ \A c \in Booking, v \in Worker \ {w} : finLock[c] = v => finLock'[c] = v
  BY <1>1, NoneAssumption DEF LInv, MoneyOK
<1>3. j.pc = "snapshot" /\ j.key = b
  BY <1>1 DEF Job
<1>4. HoldsMoney(w, j, finLock', fin')
  BY <1>2, <1>3 DEF HoldsMoney, MoneyPC
<1>5. MoneyOK'
  <2>. HIDE DEF j
  <2>. QED  BY <1>1, <1>2, <1>4, MoneyWrite DEF LInv, MoneyOK
<1>. QED  BY <1>1, <1>5, LedgerSame

LEMMA LedgerFinLock ==
  ASSUME LInv, NEW w \in Worker, NEW b \in Booking, FinLock(w, b)
  PROVE  MoneyOK' /\ blocks' \subseteq BlockSpans /\ ToldOK' /\ EntriesOK'
<1>1. PICK op \in MoneyPC, n \in Amounts :
        job' = [job EXCEPT ![w] = [Idle EXCEPT !.pc = op, !.key = b, !.amount = n,
                                               !.seen = fin[b]]]
  BY DEF FinLock, MoneyPC
<1>. DEFINE j == [Idle EXCEPT !.pc = op, !.key = b, !.amount = n, !.seen = fin[b]]
<1>2. /\ finLock[b] = None /\ finLock' = [finLock EXCEPT ![b] = w]
      /\ UNCHANGED <<appt, fin, entry, told, blocks>>
  BY DEF FinLock
<1>3. /\ finLock' \in [Booking -> Worker \cup {None}] /\ finLock'[b] = w
      /\ \A c \in Booking, v \in Worker \ {w} : finLock[c] = v => finLock'[c] = v
  BY <1>2, NoneAssumption DEF LInv, MoneyOK
<1>4. HoldsMoney(w, j, finLock', fin')
  BY <1>2, <1>3 DEF HoldsMoney, Idle
<1>5. MoneyOK'
  <2>. HIDE DEF j
  <2>. QED  BY <1>1, <1>2, <1>3, <1>4, MoneyWrite DEF LInv, MoneyOK, j
<1>. QED  BY <1>2, <1>5, LedgerSame

\* What a deposit or a settlement does to the financial row it has locked.
LEMMA MoneyCommits ==
  ASSUME LInv, NEW w \in Worker, DepositCommit(w) \/ SettleCommit(w)
  PROVE  /\ job[w].key \in Booking /\ finLock[job[w].key] = w
         /\ \A c \in Booking : c # job[w].key => fin'[c] = fin[c]
         /\ \A c \in Booking : fin[c].exists => fin'[c].exists
         /\ \A c \in Booking : fin'[c].settled => fin'[c].exists
         /\ \A c \in Booking : fin[c].settled => fin'[c] = fin[c]
         /\ UNCHANGED <<appt, entry, told, blocks>> /\ Release(w)
<1>. DEFINE b == job[w].key
            deposited == [fin[b] EXCEPT !.exists = TRUE, !.deposit = job[w].amount]
            settled == [fin[b] EXCEPT !.exists = TRUE, !.discount = job[w].amount,
                                      !.settled = TRUE]
<1>1. /\ job[w].pc \in MoneyPC /\ b \in Booking /\ finLock[b] = w /\ job[w].seen = fin[b]
      /\ fin \in [Booking -> Fin] /\ fin[b] \in Fin
      /\ \A c \in Booking : fin[c].settled => fin[c].exists
  BY Memory DEF LInv, IInv, Typing, RowsOK, DepositCommit, SettleCommit, Remembered, MoneyPC,
                MoneyOK, HoldsMoney
<1>2. deposited.exists /\ settled.exists
  BY <1>1 DEF Fin
<1>3. \/ fin' = [fin EXCEPT ![b] = deposited] /\ ~fin[b].settled
      \/ fin' = [fin EXCEPT ![b] = settled] /\ ~fin[b].settled
      \/ fin' = fin
  BY <1>1 DEF DepositCommit, SettleCommit
<1>4. UNCHANGED <<appt, entry, told, blocks>> /\ Release(w)
  BY DEF DepositCommit, SettleCommit
<1>. HIDE DEF deposited, settled
<1>. QED  BY <1>1, <1>2, <1>3, <1>4

LEMMA LedgerMoneyCommit ==
  ASSUME LInv, NEW w \in Worker, DepositCommit(w) \/ SettleCommit(w)
  PROVE  MoneyOK' /\ blocks' \subseteq BlockSpans /\ ToldOK' /\ EntriesOK'
<1>1. MoneyOK'
  BY MoneyCommits, MoneyRelease DEF LInv
<1>2. blocks' \subseteq BlockSpans /\ ToldOK'
  BY MoneyCommits DEF LInv, ToldOK
<1>3. EntriesOK'
  BY MoneyCommits DEF LInv, EntriesOK, Accounted
<1>. QED  BY <1>1, <1>2, <1>3

\* Status, snapshot, entry and message of a completion, together.
LEMMA LedgerCompleteCommit ==
  ASSUME LInv, NEW w \in Worker, CompleteCommit(w)
  PROVE  /\ MoneyOK' /\ blocks' \subseteq BlockSpans /\ ToldOK' /\ EntriesOK'
         /\ \A c \in Booking : fin[c].settled => fin'[c] = fin[c]
<1>. DEFINE b == job[w].key
            e == Entry(appt[b])
<1>1. /\ b \in Booking /\ finLock[b] = w /\ UNCHANGED blocks
      /\ appt[b].status \in {"in_progress", "completed"}
      /\ appt[b] \in Row
      /\ job[w].pc = "snapshot" /\ Release(w)
  <2>1. /\ job[w].pc = "snapshot" /\ b \in Booking /\ UNCHANGED blocks /\ Release(w)
        /\ appt[b].status \in {"in_progress", "completed"}
    BY Memory DEF LInv, IInv, CompleteCommit, Remembered, Discipline, Holds, CompletingPC
  <2>2. finLock[b] = w
    BY <2>1 DEF LInv, MoneyOK, HoldsMoney
  <2>. QED  BY <2>1, <2>2, Blocks DEF LInv, IInv
<1>2. /\ appt'[b] = [appt[b] EXCEPT !.status = "completed"]
      /\ \A c \in Booking \ {b} : appt'[c] = appt[c]
  BY <1>1 DEF CompleteCommit, LInv, IInv, Typing, RowsOK
<1>3. appt'[b].status = "completed" /\ appt'[b].pro = appt[b].pro
  BY <1>1, <1>2 DEF Row
<1>4. /\ fin' = IF fin[b].exists THEN fin ELSE [fin EXCEPT ![b] = NewFin]
      /\ \A c \in Booking : fin[c].settled => fin[c].exists
      /\ NewFin.exists
      /\ fin \in [Booking -> Fin]
  BY DEF CompleteCommit, NewFin, NoFin, LInv, MoneyOK, IInv, Typing, RowsOK
<1>5. /\ fin'[b].exists /\ \A c \in Booking \ {b} : fin'[c] = fin[c]
      /\ \A c \in Booking : fin'[c].settled => fin'[c].exists
      /\ \A c \in Booking : fin[c].settled => fin'[c] = fin[c]
  BY <1>1, <1>4
<1>6. MoneyOK'
  BY <1>1, <1>5, MoneyRelease DEF LInv
<1>7. ToldOK'
  <2>1. CASE appt[b].status = "completed"
    BY <1>1, <1>2, <1>3, <2>1 DEF CompleteCommit, LInv, ToldOK
  <2>2. CASE appt[b].status = "in_progress"
    <3>1. Tell(b, "completed") /\ "completed" \in Status /\ "completed" \in DOMAIN From
          /\ appt[b].status \in From["completed"]
      BY <2>2 DEF CompleteCommit, Status, From
    <3>. QED  BY <1>1, <1>2, <1>3, <3>1, TellFits DEF LInv
  <2>. QED  BY <1>1, <2>1, <2>2
<1>8. EntriesOK'
  <2>1. Accounts(e, appt[b]) /\ e \in EntryRow /\ e # NoEntry
    BY <1>1, EntryAccounts DEF Accounts, NoEntry
  <2>2. entry' = IF entry[b] # NoEntry THEN entry ELSE [entry EXCEPT ![b] = e]
    BY DEF CompleteCommit
  <2>. HIDE DEF e
  <2>3. /\ entry' \in [Booking -> EntryRow] /\ entry'[b] # NoEntry
        /\ Accounts(entry'[b], appt[b])
        /\ \A c \in Booking \ {b} : entry'[c] = entry[c]
    BY <1>1, <2>1, <2>2 DEF LInv, EntriesOK, Accounted
  <2>4. Accounts(entry'[b], appt'[b])
    BY <1>3, <2>3 DEF Accounts
  <2>5. Accounted(appt'[b], entry'[b], fin'[b])
    BY <1>3, <1>5, <2>3, <2>4 DEF Accounted
  <2>6. \A c \in Booking \ {b} : Accounted(appt'[c], entry'[c], fin'[c])
    BY <1>2, <1>5, <2>3 DEF LInv, EntriesOK, Accounted
  <2>. HIDE DEF b
  <2>. QED  BY <2>3, <2>5, <2>6 DEF EntriesOK
<1>. QED  BY <1>1, <1>5, <1>6, <1>7, <1>8 DEF LInv

LEMMA LedgerSetEntryStatus ==
  ASSUME LInv, NEW b \in Booking, NEW status \in EntryStatus, SetEntryStatus(b, status)
  PROVE  MoneyOK' /\ blocks' \subseteq BlockSpans /\ ToldOK' /\ EntriesOK'
<1>. DEFINE e == [entry[b] EXCEPT !.status = status]
<1>1. /\ entry[b] \in EntryRow /\ entry[b].status # "absent"
      /\ Accounted(appt[b], entry[b], fin[b])
      /\ entry' = [entry EXCEPT ![b] = e]
      /\ UNCHANGED <<appt, buffers, blocks, fin, told, proLock, finLock, job>>
  BY DEF SetEntryStatus, LInv, EntriesOK
<1>2. entry[b] # NoEntry
  BY <1>1 DEF NoEntry
<1>3. /\ e \in EntryRow /\ e # NoEntry /\ Accounts(e, appt[b])
  <2>1. /\ e \in EntryRow /\ e.status = status /\ e.base = entry[b].base
        /\ e.rule = entry[b].rule /\ e.commission = entry[b].commission
    BY <1>1 DEF EntryRow
  <2>. HIDE DEF e
  <2>2. e # NoEntry /\ status # "absent"
    BY <2>1 DEF NoEntry, EntryStatus
  <2>3. Accounts(e, appt[b])
    BY <1>1, <1>2, <2>1, <2>2 DEF Accounted, Accounts
  <2>. QED  BY <2>1, <2>2, <2>3
<1>. HIDE DEF e
<1>4. EntriesOK'
  BY <1>1, <1>2, <1>3 DEF LInv, EntriesOK, Accounted
<1>5. MoneyOK' /\ ToldOK' /\ blocks' \subseteq BlockSpans
  BY <1>1 DEF LInv, MoneyOK, ToldOK
<1>. QED  BY <1>4, <1>5

LEMMA InitLInv == Init => LInv
<1>. SUFFICES ASSUME Init  PROVE LInv  OBVIOUS
<1>1. MoneyOK
  BY DEF Init, MoneyOK, HoldsMoney, Idle, MoneyPC, NoFin
<1>2. ToldOK
  BY DEF Init, ToldOK, ToldFits, NoAppt, Announced
<1>3. EntriesOK
  BY DEF Init, EntriesOK, Accounted, NoAppt, NoEntry, EntryRow
<1>. QED  BY <1>1, <1>2, <1>3, InitIInv DEF LInv, Init

LEMMA NextLInv == LInv /\ [Next]_vars => LInv'
<1>. SUFFICES ASSUME LInv, [Next]_vars  PROVE LInv'
  OBVIOUS
<1>1. IInv'
  BY NextKeeps DEF LInv
<1>2. MoneyOK' /\ blocks' \subseteq BlockSpans /\ ToldOK' /\ EntriesOK'
  <2>1. ASSUME NEW w \in Worker, NEW b \in Booking,
               \/ BookLookup(w, b) \/ CompleteLock(w, b) \/ FinLock(w, b)
               \/ \E new \in DOMAIN From \ {"completed"} : Transition(w, b, new)
        PROVE  MoneyOK' /\ blocks' \subseteq BlockSpans /\ ToldOK' /\ EntriesOK'
    <3>1. CASE BookLookup(w, b) \/ CompleteLock(w, b)
      BY <3>1, QuietKeeps
    <3>2. CASE FinLock(w, b)
      BY <3>2, LedgerFinLock
    <3>3. CASE \E new \in DOMAIN From \ {"completed"} : Transition(w, b, new)
      BY <3>3, LedgerTransition
    <3>. QED  BY <2>1, <3>1, <3>2, <3>3
  <2>2. ASSUME NEW w \in Worker,
               \/ BookLock(w) \/ BookCheck(w) \/ BookInsert(w) \/ BookRefused(w)
               \/ CompleteFinancial(w) \/ CompleteCommit(w)
               \/ DepositCommit(w) \/ SettleCommit(w) \/ Abort(w)
        PROVE  MoneyOK' /\ blocks' \subseteq BlockSpans /\ ToldOK' /\ EntriesOK'
    <3>1. CASE BookLock(w) \/ BookCheck(w) \/ BookRefused(w) \/ Abort(w)
      BY <3>1, QuietKeeps
    <3>2. CASE BookInsert(w)
      BY <3>2, LedgerBookInsert
    <3>3. CASE CompleteFinancial(w) \/ CompleteCommit(w)
      BY <3>3, LedgerCompleteFinancial, LedgerCompleteCommit
    <3>4. CASE DepositCommit(w) \/ SettleCommit(w)
      BY <3>4, LedgerMoneyCommit
    <3>. QED  BY <2>2, <3>1, <3>2, <3>3, <3>4
  <2>3. ASSUME NEW b \in Booking, NEW status \in EntryStatus, SetEntryStatus(b, status)
        PROVE  MoneyOK' /\ blocks' \subseteq BlockSpans /\ ToldOK' /\ EntriesOK'
    BY <2>3, LedgerSetEntryStatus
  <2>4. CASE (\E s \in Service : PatchService(s)) \/ AddBlock \/ UNCHANGED vars
    <3>1. /\ UNCHANGED <<appt, fin, entry, told, finLock, job>>
          /\ blocks' \subseteq BlockSpans
      BY <2>4 DEF PatchService, AddBlock, vars, LInv
    <3>. QED  BY <3>1 DEF LInv, MoneyOK, ToldOK, EntriesOK, Accounted
  <2>. QED  BY <2>1, <2>2, <2>3, <2>4 DEF Next
<1>. QED  BY <1>1, <1>2 DEF LInv

LEMMA Ledger == Spec => []LInv
<1>. QED  BY InitLInv, NextLInv, PTL DEF Spec

LEMMA LInvTypes == LInv => TypeOK
<1>. SUFFICES ASSUME LInv  PROVE TypeOK
  OBVIOUS
<1>1. told \in [Booking -> [Announced -> 0..2]]
  BY DEF LInv, ToldOK
<1>. QED
  BY <1>1 DEF LInv, IInv, Typing, RowsOK, LocksOK, JobsOK, Job, MoneyOK, EntriesOK, EntryRow,
              TypeOK

\* Every appointment, financial row, commission entry, lock and request keeps its
\* type: commissions are whole and not negative, whatever rules the tenant enters.
THEOREM TypeCorrect == Spec => []TypeOK
<1>. QED  BY Ledger, LInvTypes, PTL

\* complete_appointment leaves no completed appointment without its financial row and
\* its one entry, on the full price and never above it, by the best rule there is: for
\* any finite set of rules, and with deposits, repeats and crashes side by side.
THEOREM EveryCompletionIsAccounted == Spec => []CompletedIsAccounted
<1>1. LInv => CompletedIsAccounted
  BY DEF LInv, EntriesOK, Accounted, Accounts, CompletedIsAccounted
<1>. QED  BY <1>1, Ledger, PTL

\* enqueue_appointment_event sends each customer a status at most once, however
\* often a booking, a status change or a completion is asked for.
THEOREM NeverToldTwice == Spec => []ToldOnce
<1>1. LInv => ToldOnce
  BY DEF LInv, ToldOK, ToldOnce
<1>. QED  BY <1>1, Ledger, PTL

\* settle_financial is final: a deposit, a second settlement or a completion that
\* locks the row later finds it settled and leaves it as it is.
THEOREM SettlementIsFinal == Spec => SettledIsFinal
<1>1. LInv /\ [Next]_vars => [\A b \in Booking : fin[b].settled => fin'[b] = fin[b]]_vars
  <2>. SUFFICES ASSUME LInv, Next
                PROVE  \A b \in Booking : fin[b].settled => fin'[b] = fin[b]
    OBVIOUS
  <2>1. ASSUME NEW w \in Worker, DepositCommit(w) \/ SettleCommit(w)
        PROVE  \A b \in Booking : fin[b].settled => fin'[b] = fin[b]
    BY <2>1, MoneyCommits
  <2>2. ASSUME NEW w \in Worker, CompleteCommit(w)
        PROVE  \A b \in Booking : fin[b].settled => fin'[b] = fin[b]
    BY <2>2, LedgerCompleteCommit
  <2>3. \/ \E w \in Worker : DepositCommit(w) \/ SettleCommit(w)
        \/ \E w \in Worker : CompleteCommit(w)
        \/ UNCHANGED fin
    BY DEF Next, BookLookup, CompleteLock, FinLock, Transition, BookLock, BookCheck, BookInsert,
           BookRefused, CompleteFinancial, Abort, SetEntryStatus, PatchService, AddBlock
  <2>. QED  BY <2>1, <2>2, <2>3
<1>. QED  BY <1>1, Ledger, PTL DEF Spec, SettledIsFinal
=============================================================================
