---------------------------- MODULE BillingProofs ----------------------------
(***************************************************************************)
(* Proofs about Billing, for any charges, slips, workers, jobs and faults:  *)
(*   1. its type invariant (IInv: Typing);                                 *)
(*   2. a charge is settled at most once (IInv: Discipline);               *)
(*   3. what reads paid the bank has reported so, and no acknowledged      *)
(*      payment is lost (KInv);                                            *)
(*   4. Billing implements Settlement;                                     *)
(*   5. a cancelled charge has a slip that has ended, or one whose         *)
(*      cancellation the bank has accepted (CInv);                         *)
(*   6. no callback takes a charge out of paid; a paid charge has its      *)
(*      event and is announced, where no enrichment finds the payment.     *)
(***************************************************************************)
EXTENDS Billing, SequenceTheorems, TLAPS

-----------------------------------------------------------------------------
(* 1. Types: the inductive invariant *)

Webhooks == {"wh_enrich", "wh_ready", "wh_checked"}

\* What a worker remembers at each program point.
Remembered(j) ==
  /\ j.pc \notin {"idle", "overdue_read", "rp_loaded"} => j.charge \in Charge
  /\ j.pc \in {"registered", "cancel_at_bank", "sync_loaded", "sync_answered"} =>
       j.ref \in Slip
  /\ j.pc \in InTx \cup {"sync_loaded", "sync_answered"} => j.status \in Status
  /\ j.pc \in Webhooks => j.note.charge = j.charge
  /\ j.pc \in Webhooks \cup {"rp_loaded"} => j.note \in Note
  /\ j.pc \in {"sync_answered", "wh_ready", "wh_checked"} => j.sit \in Situation

\* The references and the callback a worker remembers are those of issued slips.
AboutIssued(j, atBank) ==
  /\ j.charge # None /\ j.ref # None => atBank[j.charge][j.ref] # "unissued"
  /\ j.note # None => atBank[j.note.charge][j.note.slip] # "unissued"

JobsOK ==
  /\ job \in [Worker -> Job]
  /\ \A w \in Worker : Remembered(job[w]) /\ AboutIssued(job[w], bank)

RowsOK ==
  /\ row \in [Charge -> Row]
  /\ \A c \in Charge :
       row[c].ref # None =>
         row[c].status \in Status /\ bank[c][row[c].ref] # "unissued"

InboxOK ==
  /\ inbox \in [Note -> InboxRow]
  /\ \A n \in Note : inbox[n].status # "none" => bank[n.charge][n.slip] # "unissued"

BankOK ==
  /\ bank \in [Charge -> [Slip -> Situation \cup {"unissued"}]]
  /\ sent \in SUBSET Note
  /\ \A n \in sent : bank[n.charge][n.slip] # "unissued"
  /\ pastDue \in SUBSET Charge
  /\ protested \in SUBSET Charge
  /\ \A c \in Charge, s \in Slip : bank[c][s] = "protesto" => c \in protested
  /\ accepted \in SUBSET (Charge \X Slip)

BooksOK ==
  /\ events \in [Charge -> Seq(Note \cup {None})]
  /\ outbox \in [Charge -> Outbox]
  /\ lock \in [Charge -> Worker \cup {None}]

\* The type invariant, and why it is inductive: every reference the Hub or a
\* worker holds is that of an issued slip, so the bank's answer is a situation.
Typing == BankOK /\ RowsOK /\ InboxOK /\ BooksOK /\ JobsOK

\* A worker inside its transaction holds the lock of its charge, so there is
\* one such worker per charge.
LockDiscipline ==
  \A w \in Worker : job[w].pc \in InTx => lock[job[w].charge] = w

Checked == {"sync_checked", "wh_checked"}

\* The answer of the anti-replay query stays right until commit.
CheckIsFresh ==
  \A w \in Worker :
    job[w].pc \in Checked /\ ~job[w].seen =>
      events[job[w].charge] = <<>>

\* AtMostOnePaymentEvent is not inductive: that a worker whose query found no
\* event may still append one needs the other two.
Discipline == LockDiscipline /\ CheckIsFresh /\ AtMostOnePaymentEvent

IInv == Typing /\ Discipline

-----------------------------------------------------------------------------
(* Lemmas on the vocabulary and on single writes *)

LEMMA TypingImpliesTypeOK == Typing => TypeOK
  BY DEF Typing, TypeOK, BankOK, RowsOK, InboxOK, BooksOK, JobsOK

\* The bank's words map to the Hub's, and what is computed from statuses is one.
LEMMA StatusTypes ==
  /\ \A sit \in Situation : Consulted(sit) \in Status
  /\ \A sit \in Situation : ~IsPayment(sit) => HubStatus[sit] \in Status
  /\ \A a, b \in Status : Apply(a, b) \in Status
  /\ \A c \in Charge, a \in Status : ApplyOverdue(c, a) \in Status
<1>1. \A sit \in DOMAIN HubStatus : HubStatus[sit] \in Status
  BY DEF HubStatus, Status
<1>. QED  BY <1>1 DEF Consulted, IsPayment, Apply, ApplyOverdue, Status

LEMMA BumpType == \A k \in 0..OutboxCap : Bump(k) \in 0..OutboxCap
  BY BoundAssumption DEF Bump

\* A worker with nothing to do remembers nothing that could be wrong.
LEMMA IdleOK ==
  /\ Idle \in Job /\ Remembered(Idle)
  /\ \A atBank : AboutIssued(Idle, atBank)
  BY DEF Idle, Job, PC, InTx, Kind, Remembered, Webhooks, AboutIssued

LEMMA Memory ==
  ASSUME Typing, NEW w \in Worker
  PROVE  job[w] \in Job /\ Remembered(job[w]) /\ AboutIssued(job[w], bank)
  BY DEF Typing, JobsOK

\* No step takes back the issue of a slip.
StaysIssued ==
  \A c \in Charge, s \in Slip : bank[c][s] # "unissued" => bank'[c][s] # "unissued"

\* A step that changes what one worker remembers, to something right.
LEMMA JobWrite ==
  ASSUME Typing, StaysIssued, NEW w \in Worker, NEW r \in Job,
         Remembered(r), AboutIssued(r, bank'), job' = [job EXCEPT ![w] = r]
  PROVE  JobsOK'
<1>1. job' \in [Worker -> Job]
  BY DEF Typing, JobsOK
<1>2. ASSUME NEW v \in Worker PROVE (Remembered(job[v]))' /\ AboutIssued(job'[v], bank')
  <2>1. CASE v = w
    BY <2>1 DEF Typing, JobsOK, Remembered
  <2>2. CASE v # w
    <3>1. job'[v] = job[v] /\ job[v] \in Job /\ Remembered(job[v]) /\ AboutIssued(job[v], bank)
      BY <2>2, Memory DEF Typing, JobsOK
    <3>2. AboutIssued(job[v], bank')
      BY <3>1 DEF AboutIssued, StaysIssued, Job, Note
    <3>. QED  BY <3>1, <3>2 DEF Remembered
  <2>. QED  BY <2>1, <2>2
<1>. QED  BY <1>1, <1>2 DEF JobsOK

LEMMA JobEnds ==
  ASSUME Typing, StaysIssued, NEW w \in Worker, Finish(w)
  PROVE  JobsOK'
  BY JobWrite, IdleOK DEF Finish

\* A step that leaves the bank alone.
LEMMA BankUnchanged ==
  ASSUME Typing, UNCHANGED external
  PROVE  BankOK' /\ StaysIssued
  BY DEF Typing, BankOK, external, StaysIssued

LEMMA TypingInit == Init => Typing
<1> SUFFICES ASSUME Init PROVE Typing
  OBVIOUS
<1>1. BankOK
  BY DEF Init, BankOK
<1>2. RowsOK
  BY DEF Init, RowsOK, Absent, Local, Row, Status
<1>3. InboxOK
  BY DEF Init, InboxOK, InboxRow, Note
<1>4. BooksOK
  BY BoundAssumption DEF Init, BooksOK, Outbox
<1>5. JobsOK
  BY IdleOK DEF Init, JobsOK
<1>. QED  BY <1>1, <1>2, <1>3, <1>4, <1>5 DEF Typing

-----------------------------------------------------------------------------
(* One lemma per group of actions: what they leave of Typing *)

\* The bank moves and the days pass.
LEMMA EnvironmentTyping ==
  ASSUME Typing, Environment PROVE Typing'
<1>1. ASSUME NEW c \in Charge, NEW s \in Slip, BankAdvance(c, s) PROVE Typing'
  <2>1. PICK new \in NextSituation[bank[c][s]] :
          bank' = [bank EXCEPT ![c][s] = new] /\ CallBack(c, s, new)
    BY <1>1 DEF BankAdvance
  <2>2. new \in Situation
    <3>1. bank[c][s] \in Situation \cup {"unissued"}
      BY DEF Typing, BankOK
    <3>. QED  BY <3>1, <2>1 DEF NextSituation, Situation, Received
  <2>3. /\ bank' \in [Charge -> [Slip -> Situation \cup {"unissued"}]]
        /\ StaysIssued /\ bank'[c][s] # "unissued"
    BY <2>1, <2>2 DEF Typing, BankOK, StaysIssued, Situation
  <2>4. BankOK'
    BY <1>1, <2>1, <2>2, <2>3 DEF BankAdvance, CallBack, Typing, BankOK, StaysIssued, Note, Kind
  <2>5. RowsOK' /\ InboxOK' /\ BooksOK'
    BY <1>1, <2>3 DEF BankAdvance, Typing, RowsOK, InboxOK, BooksOK, Row, Note, StaysIssued
  <2>6. JobsOK'
    BY <1>1, <2>3, Memory DEF BankAdvance, Typing, JobsOK, Remembered, AboutIssued, StaysIssued, Job, Note
  <2>. QED  BY <2>4, <2>5, <2>6 DEF Typing
<1>2. ASSUME NEW c \in Charge, DueDatePasses(c) PROVE Typing'
  BY <1>2 DEF DueDatePasses, Typing, BankOK, RowsOK, InboxOK, BooksOK, JobsOK,
              Remembered, AboutIssued
<1>. QED  BY <1>1, <1>2 DEF Environment

\* What a worker that only reads, or only takes a lock, leaves of Typing.
LEMMA ReadTyping ==
  ASSUME Typing, UNCHANGED <<row, events, inbox, outbox, external>>,
         lock' \in [Charge -> Worker \cup {None}],
         NEW w \in Worker, NEW r \in Job, job' = [job EXCEPT ![w] = r],
         Remembered(r), AboutIssued(r, bank)
  PROVE  Typing'
<1>1. BankOK' /\ StaysIssued /\ bank' = bank
  BY BankUnchanged DEF external
<1>2. JobsOK'
  BY <1>1, JobWrite
<1>. QED  BY <1>1, <1>2 DEF Typing, RowsOK, InboxOK, BooksOK, external

LEMMA LockTypes ==
  ASSUME Typing, NEW w \in Worker
  PROVE  /\ \A c \in Charge : [lock EXCEPT ![c] = w] \in [Charge -> Worker \cup {None}]
         /\ Unlock(w) => lock' \in [Charge -> Worker \cup {None}]
  BY DEF Typing, BooksOK, Unlock

\* create_charge, emit_pending_charge
LEMMA IssueTyping ==
  ASSUME Typing, NEW w \in Worker, Issue(w) PROVE Typing'
<1> DEFINE j == job[w]
<1>0. j \in Job /\ Remembered(j) /\ AboutIssued(j, bank)
  BY Memory
<1>1. ASSUME NEW c \in Charge, CreateBegin(w, c) PROVE Typing'
  <2> DEFINE r == [Idle EXCEPT !.pc = "register", !.charge = c, !.status = "pending"]
  <2>1. r \in Job /\ Remembered(r) /\ AboutIssued(r, bank)
    BY NoneAssumption DEF Idle, Job, PC, InTx, Status, Kind, Remembered, Webhooks, AboutIssued
  <2>. QED  BY <1>1, <2>1, ReadTyping, LockTypes DEF CreateBegin
<1>2. ASSUME NEW c \in Charge, EmitLoad(w, c) PROVE Typing'
  <2> DEFINE r == [Idle EXCEPT !.pc = "emit_loaded", !.charge = c]
  <2>1. r \in Job /\ Remembered(r) /\ AboutIssued(r, bank)
    BY DEF Idle, Job, PC, InTx, Status, Kind, Remembered, Webhooks, AboutIssued
  <2>. QED  BY <1>2, <2>1, ReadTyping DEF EmitLoad, Typing, BooksOK
<1>3. ASSUME NEW s \in Slip, Register(w, s) PROVE Typing'
  <2> DEFINE c == j.charge
             r == [j EXCEPT !.pc = "registered", !.status = "registered", !.ref = s]
  <2>1. c \in Charge /\ j.pc = "register"
    BY <1>0, <1>3 DEF Register, Remembered
  <2>2. PICK sit \in {"em_processamento", "a_receber"} :
          bank' = [bank EXCEPT ![c][s] = sit]
    BY <1>3 DEF Register
  <2>3. /\ bank' \in [Charge -> [Slip -> Situation \cup {"unissued"}]]
        /\ StaysIssued /\ bank'[c][s] # "unissued"
    BY <2>1, <2>2 DEF Typing, BankOK, StaysIssued, Situation
  <2>4. BankOK' /\ RowsOK' /\ InboxOK' /\ BooksOK'
    BY <1>3, <2>3 DEF Register, Typing, BankOK, RowsOK, InboxOK, BooksOK, Row, Note, StaysIssued
  <2>5. r \in Job /\ Remembered(r) /\ job' = [job EXCEPT ![w] = r]
    BY <1>0, <1>3, <2>1 DEF Register, Job, PC, InTx, Status, Remembered, Webhooks
  <2>6. AboutIssued(r, bank')
    BY <1>0, <2>1, <2>3 DEF AboutIssued, Job, Note, StaysIssued
  <2>7. JobsOK'
    BY <2>3, <2>5, <2>6, JobWrite
  <2>. QED  BY <2>4, <2>7 DEF Typing
<1>4. CASE EmitRefused(w)
  BY <1>4, ReadTyping, IdleOK DEF EmitRefused, Finish, Typing, BooksOK
<1>5. CASE EmitSave(w)
  <2> DEFINE r == [j EXCEPT !.pc = "register", !.status = "pending"]
  <2>1. j.charge \in Charge
    BY <1>0, <1>5 DEF EmitSave, Remembered
  <2>2. r \in Job /\ Remembered(r) /\ AboutIssued(r, bank)
    <3>1. r \in Job
      BY <1>0 DEF Job, PC, InTx, Status
    <3>2. Remembered(r)
      BY <1>0, <2>1 DEF Job, InTx, Status, Remembered, Webhooks
    <3>3. AboutIssued(r, bank)
      BY <1>0 DEF Job, AboutIssued
    <3>. QED  BY <3>1, <3>2, <3>3
  <2>3. job' = [job EXCEPT ![w] = r]
    BY <1>5 DEF EmitSave
  <2>. QED  BY <1>5, <2>1, <2>2, <2>3, ReadTyping, LockTypes DEF EmitSave
<1>6. CASE RegisterFails(w)
  <2>1. j.charge \in Charge
    BY <1>0, <1>6 DEF RegisterFails, Remembered
  <2>2. bank' = bank \/ \E s \in Slip : bank' = [bank EXCEPT ![j.charge][s] = "a_receber"]
    BY <1>6 DEF RegisterFails
  <2>3. /\ bank' \in [Charge -> [Slip -> Situation \cup {"unissued"}]] /\ StaysIssued
        /\ \A d \in Charge, t \in Slip : bank'[d][t] = "protesto" => bank[d][t] = "protesto"
    <3>1. CASE bank' = bank
      BY <3>1 DEF Typing, BankOK, StaysIssued
    <3>2. CASE bank' # bank
      <4>1. PICK s \in Slip : bank' = [bank EXCEPT ![j.charge][s] = "a_receber"]
        BY <2>2, <3>2
      <4>. QED  BY <2>1, <4>1 DEF Typing, BankOK, StaysIssued, Situation
    <3>. QED  BY <3>1, <3>2
  <2>4. BankOK'
    BY <1>6, <2>3 DEF RegisterFails, Typing, BankOK, Note, StaysIssued
  <2>5. RowsOK' /\ InboxOK'
    BY <1>6, <2>3 DEF RegisterFails, Typing, RowsOK, InboxOK, Row, Note, StaysIssued
  <2>6. BooksOK'
    BY <1>6, LockTypes DEF RegisterFails, Typing, BooksOK
  <2>7. JobsOK'
    BY <1>6, <2>3, JobEnds DEF RegisterFails
  <2>. QED  BY <2>4, <2>5, <2>6, <2>7 DEF Typing
<1>7. CASE RegisterEnrich(w)
  <2> DEFINE new == Apply(j.status, Consulted(bank[j.charge][j.ref]))
             r == [j EXCEPT !.status = new]
  <2>1. bank[j.charge][j.ref] \in Situation /\ j.status \in Status
    BY <1>0, <1>7, NoneAssumption
    DEF RegisterEnrich, Remembered, AboutIssued, InTx, Typing, BankOK
  <2>2. new \in Status
    BY <2>1, StatusTypes
  <2>. HIDE DEF new
  <2>3. r \in Job /\ Remembered(r) /\ AboutIssued(r, bank)
    BY <1>0, <2>2 DEF Job, Remembered, AboutIssued
  <2>4. job' = [job EXCEPT ![w] = r]
    BY <1>7 DEF RegisterEnrich, new
  <2>. QED  BY <1>7, <2>3, <2>4, ReadTyping DEF RegisterEnrich, Typing, BooksOK
<1>8. CASE RegisterCommit(w)
  <2> DEFINE c == j.charge
  <2>1. c \in Charge /\ j.ref \in Slip /\ j.status \in Status /\ bank[c][j.ref] # "unissued"
    BY <1>0, <1>8, NoneAssumption DEF RegisterCommit, Remembered, AboutIssued, InTx
  <2>2. PICK pdf \in PdfOutcomes(row[c].pdf, j.ref) :
          row' = [row EXCEPT ![c] = [status |-> j.status, ref |-> j.ref, pdf |-> pdf]]
    BY <1>8 DEF RegisterCommit
  <2>3. pdf \in Slip \cup {None}
    BY <2>1, <2>2 DEF PdfOutcomes, Typing, RowsOK, Row
  <2>4. BankOK' /\ StaysIssued /\ bank' = bank
    BY <1>8, BankUnchanged DEF RegisterCommit, external
  <2>5. RowsOK'
    <3>1. [status |-> j.status, ref |-> j.ref, pdf |-> pdf] \in Row
      BY <2>1, <2>3 DEF Row
    <3>. QED  BY <2>1, <2>2, <2>4, <3>1 DEF Typing, RowsOK
  <2>6. InboxOK'
    BY <1>8, <2>4 DEF RegisterCommit, Typing, InboxOK
  <2>7. BooksOK'
    <3>1. outbox' \in [Charge -> Outbox]
      BY <1>8, <2>1, BumpType DEF RegisterCommit, Typing, BooksOK, Outbox
    <3>. QED  BY <1>8, <3>1, LockTypes DEF RegisterCommit, Typing, BooksOK
  <2>8. JobsOK'
    BY <1>8, <2>4, JobEnds DEF RegisterCommit
  <2>. QED  BY <2>4, <2>5, <2>6, <2>7, <2>8 DEF Typing
<1>. QED  BY <1>1, <1>2, <1>3, <1>4, <1>5, <1>6, <1>7, <1>8 DEF Issue

\* cancel_charge
LEMMA CancelTyping ==
  ASSUME Typing, NEW w \in Worker, Cancel(w) PROVE Typing'
<1> DEFINE j == job[w]
<1>0. j \in Job /\ Remembered(j) /\ AboutIssued(j, bank)
  BY Memory
<1>1. ASSUME NEW c \in Charge, CancelLoad(w, c) PROVE Typing'
  <2> DEFINE r == [Idle EXCEPT !.pc = "cancel_loaded", !.charge = c, !.ref = row[c].ref]
  <2>1. row[c].ref \in Slip \cup {None}
    BY DEF Typing, RowsOK, Row
  <2>2. r \in Job /\ Remembered(r)
    BY <2>1 DEF Idle, Job, PC, InTx, Kind, Remembered, Webhooks
  <2>3. AboutIssued(r, bank)
    BY DEF Idle, AboutIssued, Typing, RowsOK
  <2>. QED  BY <1>1, <2>2, <2>3, ReadTyping DEF CancelLoad, Typing, BooksOK
<1>2. CASE CancelAtBank(w)
  <2> DEFINE c == j.charge
             s == j.ref
  <2>1. c \in Charge /\ s \in Slip
    BY <1>0, <1>2 DEF CancelAtBank, Remembered, Job
  <2>2. bank' = bank /\ accepted' = accepted \cup {<<c, s>>}
    BY <1>2 DEF CancelAtBank
  <2>3. StaysIssued
    BY <2>2 DEF StaysIssued
  <2>5. BankOK'
    BY <1>2, <2>1, <2>2 DEF CancelAtBank, Typing, BankOK
  <2>6. RowsOK' /\ InboxOK' /\ BooksOK'
    BY <1>2, <2>2 DEF CancelAtBank, Typing, RowsOK, InboxOK, BooksOK
  <2>7. JobsOK'
    <3>1. CASE Finish(w)
      BY <3>1, <2>3, JobEnds
    <3>2. CASE ~Finish(w)
      <4> DEFINE r == [j EXCEPT !.pc = "cancel_at_bank"]
      <4>1. r \in Job
        BY <1>0 DEF Job, PC
      <4>2. Remembered(r) /\ AboutIssued(r, bank')
        BY <1>0, <2>1, <2>2 DEF Job, Note, InTx, Remembered, Webhooks, AboutIssued
      <4>3. job' = [job EXCEPT ![w] = r]
        BY <1>2, <3>2 DEF CancelAtBank
      <4>. QED  BY <2>3, <4>1, <4>2, <4>3, JobWrite
    <3>. QED  BY <3>1, <3>2
  <2>. QED  BY <2>5, <2>6, <2>7 DEF Typing
<1>3. CASE CancelRefused(w)
  BY <1>3, ReadTyping, IdleOK DEF CancelRefused, Finish, Typing, BooksOK
<1>4. CASE CancelSave(w)
  <2> DEFINE c == j.charge
  <2>1. c \in Charge
    BY <1>0, <1>4 DEF CancelSave, Remembered
  <2>2. BankOK' /\ StaysIssued /\ bank' = bank
    BY <1>4, BankUnchanged DEF CancelSave, external
  <2>3. RowsOK'
    <3>1. row' = [row EXCEPT ![c] = [row[c] EXCEPT !.status = "cancelled"]]
      BY <1>4 DEF CancelSave
    <3>2. [row[c] EXCEPT !.status = "cancelled"] \in Row
      BY <2>1 DEF Typing, RowsOK, Row, Status
    <3>. QED  BY <2>1, <2>2, <3>1, <3>2 DEF Typing, RowsOK, Row
  <2>4. InboxOK'
    BY <1>4, <2>2 DEF CancelSave, Typing, InboxOK
  <2>5. BooksOK'
    <3>1. outbox' \in [Charge -> Outbox]
      BY <1>4, <2>1, BumpType DEF CancelSave, Typing, BooksOK, Outbox
    <3>. QED  BY <1>4, <3>1 DEF CancelSave, Typing, BooksOK
  <2>6. JobsOK'
    BY <1>4, <2>2, JobEnds DEF CancelSave
  <2>. QED  BY <2>2, <2>3, <2>4, <2>5, <2>6 DEF Typing
<1>. QED  BY <1>1, <1>2, <1>3, <1>4 DEF Cancel

\* sync_charge_from_gateway
LEMMA SyncTyping ==
  ASSUME Typing, NEW w \in Worker, Sync(w) PROVE Typing'
<1> DEFINE j == job[w]
<1>0. j \in Job /\ Remembered(j) /\ AboutIssued(j, bank)
  BY Memory
<1>1. ASSUME NEW c \in Charge, SyncLoad(w, c) PROVE Typing'
  <2> DEFINE r == [Idle EXCEPT !.pc = "sync_loaded", !.charge = c, !.ref = row[c].ref,
                               !.status = row[c].status]
  <2>1. row[c].ref \in Slip /\ row[c].status \in Status \cup {"absent"}
    BY <1>1 DEF SyncLoad, Typing, RowsOK, Row
  <2>2. row[c].status \in Status
    BY <2>1, <1>1, NoneAssumption DEF SyncLoad, Typing, RowsOK
  <2>3. r \in Job /\ Remembered(r)
    BY <2>1, <2>2 DEF Idle, Job, PC, InTx, Kind, Remembered, Webhooks
  <2>4. AboutIssued(r, bank)
    BY DEF Idle, AboutIssued, Typing, RowsOK
  <2>. QED  BY <1>1, <2>3, <2>4, ReadTyping DEF SyncLoad, Typing, BooksOK
<1>2. CASE SyncConsult(w)
  <2> DEFINE sit == bank[j.charge][j.ref]
             r == [j EXCEPT !.pc = "sync_answered", !.sit = sit]
  <2>1. sit \in Situation
    BY <1>0, <1>2, NoneAssumption DEF SyncConsult, Remembered, AboutIssued, Typing, BankOK
  <2>. HIDE DEF sit
  <2>2. j.charge \in Charge /\ j.ref \in Slip /\ j.status \in Status
    BY <1>0, <1>2 DEF SyncConsult, Remembered
  <2>3. r \in Job
    BY <1>0, <2>1 DEF Job, PC, Kind
  <2>4. Remembered(r) /\ AboutIssued(r, bank)
    BY <1>0, <2>1, <2>2 DEF Job, InTx, Remembered, Webhooks, AboutIssued
  <2>5. job' = [job EXCEPT ![w] = r]
    BY <1>2 DEF SyncConsult, sit
  <2>. QED  BY <1>2, <2>3, <2>4, <2>5, ReadTyping DEF SyncConsult, Typing, BooksOK
<1>3. CASE SyncConsultFails(w)
  BY <1>3, ReadTyping, IdleOK DEF SyncConsultFails, Finish, Typing, BooksOK
<1>4. CASE SyncSave(w)
  <2> DEFINE c == j.charge
             answered == Apply(j.status, Consulted(j.sit))
             new == ApplyOverdue(c, answered)
             writes == answered # j.status \/ new # answered
             r == [j EXCEPT !.pc = "sync_saved", !.status = new, !.write = writes]
  <2>1. c \in Charge /\ j.status \in Status /\ j.sit \in Situation /\ j.pc = "sync_answered"
    BY <1>0, <1>4 DEF SyncSave, Remembered
  <2>2. new \in Status /\ writes \in BOOLEAN
    BY <2>1, StatusTypes
  <2>3. job' = [job EXCEPT ![w] = r]
    BY <1>4 DEF SyncSave
  <2>. HIDE DEF new, writes
  <2>4. r \in Job
    BY <1>0, <2>2 DEF Job, PC, InTx
  <2>5. Remembered(r) /\ AboutIssued(r, bank)
    BY <1>0, <2>1, <2>2 DEF Job, InTx, Remembered, Webhooks, AboutIssued
  <2>. QED  BY <1>4, <2>1, <2>3, <2>4, <2>5, ReadTyping, LockTypes DEF SyncSave
<1>5. CASE SyncCommit(w)
  <2> DEFINE c == j.charge
             settles == j.status = "paid" /\ ~j.seen
  <2>1. c \in Charge /\ j.status \in Status
    BY <1>0, <1>5 DEF SyncCommit, Remembered, InTx
  <2>2. PICK pdf \in PdfOutcomes(row[c].pdf, row[c].ref) :
          row' = [row EXCEPT ![c].status = IF j.write THEN j.status ELSE @, ![c].pdf = pdf]
    BY <1>5 DEF SyncCommit
  <2>3. pdf \in Slip \cup {None}
    BY <2>1, <2>2 DEF PdfOutcomes, Typing, RowsOK, Row
  <2>4. BankOK' /\ StaysIssued /\ bank' = bank
    BY <1>5, BankUnchanged DEF SyncCommit, external
  <2>5. RowsOK'
    <3> DEFINE new == IF j.write THEN j.status ELSE row[c].status
               written == [row[c] EXCEPT !.status = new, !.pdf = pdf]
    <3>1. row' = [row EXCEPT ![c] = written]
      BY <2>2
    <3>2. new \in Status \cup {"absent"} /\ (row[c].ref # None => new \in Status)
      BY <2>1 DEF Typing, RowsOK, Row
    <3>. HIDE DEF new
    <3>3. written \in Row /\ written.ref = row[c].ref /\ written.status = new
      BY <2>1, <2>3, <3>2 DEF Typing, RowsOK, Row
    <3>. QED  BY <2>1, <2>4, <3>1, <3>2, <3>3 DEF Typing, RowsOK
  <2>6. InboxOK'
    BY <1>5, <2>4 DEF SyncCommit, Typing, InboxOK
  <2>7. BooksOK'
    <3>1. events' \in [Charge -> Seq(Note \cup {None})]
      BY <1>5, <2>1 DEF SyncCommit, Typing, BooksOK
    <3>2. outbox' \in [Charge -> Outbox]
      <4>1. outbox[c] \in Outbox
        BY <2>1 DEF Typing, BooksOK
      <4>2. [outbox[c] EXCEPT !.paid = IF settles THEN Bump(@) ELSE @] \in Outbox
        BY <4>1, BumpType DEF Outbox
      <4>3. outbox' = [outbox EXCEPT ![c] = [outbox[c] EXCEPT !.paid = IF settles THEN Bump(@) ELSE @]]
        BY <1>5 DEF SyncCommit
      <4>. QED  BY <2>1, <4>2, <4>3 DEF Typing, BooksOK
    <3>3. lock' \in [Charge -> Worker \cup {None}]
      BY <1>5, LockTypes DEF SyncCommit, Typing, BooksOK
    <3>. QED  BY <3>1, <3>2, <3>3 DEF BooksOK
  <2>8. JobsOK'
    BY <1>5, <2>4, JobEnds DEF SyncCommit
  <2>. QED  BY <2>4, <2>5, <2>6, <2>7, <2>8 DEF Typing
<1>. QED  BY <1>1, <1>2, <1>3, <1>4, <1>5 DEF Sync

\* mark_overdue_charges, and the PDF endpoint
LEMMA OverdueTyping ==
  ASSUME Typing, NEW w \in Worker, Overdue(w) PROVE Typing'
<1>1. CASE OverdueRead(w)
  <2> DEFINE ids == {c \in pastDue : row[c].status \in {"pending", "registered"}}
             r == [Idle EXCEPT !.pc = "overdue_read", !.ids = ids]
  <2>1. ids \subseteq Charge
    BY DEF Typing, BankOK
  <2>2. job' = [job EXCEPT ![w] = r]
    BY <1>1 DEF OverdueRead
  <2>. HIDE DEF ids
  <2>3. r \in Job /\ Remembered(r) /\ AboutIssued(r, bank)
    BY <2>1 DEF Idle, Job, PC, InTx, Kind, Remembered, Webhooks, AboutIssued
  <2>. QED  BY <1>1, <2>2, <2>3, ReadTyping DEF OverdueRead, Typing, BooksOK
<1>2. CASE OverdueWrite(w)
  <2>1. BankOK' /\ StaysIssued /\ bank' = bank
    BY <1>2, BankUnchanged DEF OverdueWrite, external
  <2>2. RowsOK'
    <3>1. ASSUME NEW c \in Charge
          PROVE  /\ [row[c] EXCEPT !.status = "overdue"] \in Row
                 /\ [row[c] EXCEPT !.status = "overdue"].ref = row[c].ref
                 /\ [row[c] EXCEPT !.status = "overdue"].status \in Status
      BY DEF Typing, RowsOK, Row, Status
    <3>. QED  BY <1>2, <2>1, <3>1 DEF OverdueWrite, Typing, RowsOK
  <2>3. InboxOK' /\ BooksOK'
    BY <1>2, <2>1 DEF OverdueWrite, Typing, InboxOK, BooksOK
  <2>4. JobsOK'
    BY <1>2, <2>1, JobEnds DEF OverdueWrite
  <2>. QED  BY <2>1, <2>2, <2>3, <2>4 DEF Typing
<1>. QED  BY <1>1, <1>2 DEF Overdue

LEMMA PdfTyping ==
  ASSUME Typing, NEW c \in Charge, EnsurePdf(c) PROVE Typing'
<1>1. BankOK' /\ StaysIssued /\ bank' = bank
  BY BankUnchanged DEF EnsurePdf, external
<1>2. RowsOK'
  <2>1. row' = [row EXCEPT ![c] = [row[c] EXCEPT !.pdf = row[c].ref]]
    BY DEF EnsurePdf
  <2>2. [row[c] EXCEPT !.pdf = row[c].ref] \in Row
    BY DEF Typing, RowsOK, Row
  <2>. QED  BY <1>1, <2>1, <2>2 DEF Typing, RowsOK, Row
<1>. QED  BY <1>1, <1>2 DEF EnsurePdf, Typing, InboxOK, BooksOK, JobsOK, Remembered, AboutIssued

\* The anti-replay query of a sync or a callback.
LEMMA CheckTyping ==
  ASSUME Typing, NEW w \in Worker, CheckPaymentEvent(w) PROVE Typing'
<1> DEFINE j == job[w]
           seen == events[j.charge] # <<>>
           pc == IF j.pc = "sync_saved" THEN "sync_checked" ELSE "wh_checked"
           r == [j EXCEPT !.seen = seen, !.pc = pc]
<1>0. j \in Job /\ Remembered(j) /\ AboutIssued(j, bank)
  BY Memory
<1>1. job' = [job EXCEPT ![w] = r]
  BY DEF CheckPaymentEvent
<1>2. /\ seen \in BOOLEAN
      /\ \/ j.pc = "sync_saved" /\ pc = "sync_checked"
         \/ j.pc = "wh_ready" /\ pc = "wh_checked"
  <2>1. CASE j.pc = "sync_saved"
    BY <2>1
  <2>2. CASE j.pc = "wh_ready"
    BY <2>2
  <2>. QED  BY <2>1, <2>2 DEF CheckPaymentEvent
<1>. HIDE DEF seen, pc
<1>3. r \in Job
  BY <1>0, <1>2 DEF Job, PC, InTx
<1>4. Remembered(r) /\ AboutIssued(r, bank)
  BY <1>0, <1>2 DEF Job, InTx, Remembered, Webhooks, AboutIssued
<1>. QED  BY <1>1, <1>3, <1>4, ReadTyping DEF CheckPaymentEvent, Typing, BooksOK

\* ingest_gateway_webhook and reprocess_webhook find the charge and lock it.
LEMMA LockChargeTyping ==
  ASSUME Typing, NEW w \in Worker, NEW n \in Note, NEW sit \in Kind,
         bank[n.charge][n.slip] # "unissued", LockCharge(w, n, sit)
  PROVE  Typing'
<1> DEFINE c == n.charge
           pc == IF sit = "light" THEN "wh_enrich" ELSE "wh_ready"
           r == [Idle EXCEPT !.pc = pc, !.charge = c, !.note = n, !.sit = sit,
                             !.status = row[c].status, !.ref = row[c].ref]
<1>1. c \in Charge /\ row[c] \in Row /\ row[c].status \in Status
  BY DEF LockCharge, FoundBy, Note, Typing, RowsOK, Row
<1>2. job' = [job EXCEPT ![w] = r]
  BY DEF LockCharge
<1>3. pc = "wh_enrich" \/ (pc = "wh_ready" /\ sit \in Situation)
  <2>1. CASE sit = "light"
    BY <2>1
  <2>2. CASE sit # "light"
    BY <2>2 DEF Kind
  <2>. QED  BY <2>1, <2>2
<1>. HIDE DEF pc
<1>4. r \in Job
  BY <1>1, <1>3 DEF Idle, Job, PC, InTx, Row
<1>5. Remembered(r)
  BY <1>1, <1>3 DEF Idle, Remembered, InTx, Webhooks
<1>6. AboutIssued(r, bank)
  BY <1>1 DEF Idle, AboutIssued, Typing, RowsOK
<1>. QED  BY <1>1, <1>2, <1>4, <1>5, <1>6, ReadTyping, LockTypes DEF LockCharge

LEMMA UnmatchedTyping ==
  ASSUME Typing, NEW w \in Worker, NEW n \in Note,
         bank[n.charge][n.slip] # "unissued", Unmatched(w, n)
  PROVE  Typing'
<1>1. BankOK' /\ StaysIssued /\ bank' = bank
  BY BankUnchanged DEF Unmatched, external
<1>2. InboxOK'
  <2>1. [inbox[n] EXCEPT !.status = "failed"] \in InboxRow
    BY DEF Typing, InboxOK, InboxRow
  <2>2. inbox' = [inbox EXCEPT ![n] = [inbox[n] EXCEPT !.status = "failed"]]
    BY DEF Unmatched
  <2>. QED  BY <1>1, <2>1, <2>2 DEF Typing, InboxOK
<1>3. RowsOK' /\ BooksOK'
  BY <1>1 DEF Unmatched, Typing, RowsOK, BooksOK
<1>4. JobsOK'
  BY <1>1, JobEnds DEF Unmatched
<1>. QED  BY <1>1, <1>2, <1>3, <1>4 DEF Typing

\* What process_webhook_inbox writes when it ends.
LEMMA WebhookCommitTyping ==
  ASSUME Typing, NEW w \in Worker, job[w].pc \in Webhooks \ {"wh_enrich"},
         NEW status \in Status, NEW inboxStatus \in {"failed", "processed"},
         WebhookCommit(w, status, inboxStatus)
  PROVE  BankOK' /\ RowsOK' /\ InboxOK' /\ JobsOK'
<1> DEFINE c == job[w].charge
           n == job[w].note
<1>1. /\ c \in Charge /\ n \in Note /\ n # None /\ job[w].sit \in Kind
      /\ bank[n.charge][n.slip] # "unissued"
  <2>1. c \in Charge /\ n \in Note /\ n.charge = c
    BY Memory DEF Webhooks, Remembered
  <2>2. n # None => bank[n.charge][n.slip] # "unissued"
    BY Memory DEF AboutIssued
  <2>3. job[w].sit \in Kind
    BY Memory DEF Job
  <2>. QED  BY <2>1, <2>2, <2>3, NoteAssumption
<1>2. BankOK' /\ StaysIssued /\ bank' = bank
  BY BankUnchanged DEF WebhookCommit, external
<1>3. RowsOK'
  <2>1. row' = [row EXCEPT ![c] = [row[c] EXCEPT !.status = status]]
    BY DEF WebhookCommit
  <2>2. /\ [row[c] EXCEPT !.status = status] \in Row
        /\ [row[c] EXCEPT !.status = status].ref = row[c].ref
        /\ [row[c] EXCEPT !.status = status].status = status
    BY <1>1 DEF Typing, RowsOK, Row
  <2>. QED  BY <1>1, <1>2, <2>1, <2>2 DEF Typing, RowsOK
<1>4. InboxOK'
  <2> DEFINE saved == [status |-> inboxStatus, sit |-> job[w].sit]
  <2>1. inbox' = [inbox EXCEPT ![n] = saved]
    BY DEF WebhookCommit
  <2>2. saved \in InboxRow
    BY <1>1 DEF InboxRow
  <2>. HIDE DEF saved
  <2>. QED  BY <1>1, <1>2, <2>1, <2>2 DEF Typing, InboxOK
<1>5. JobsOK'
  BY <1>2, JobEnds DEF WebhookCommit
<1>. QED  BY <1>2, <1>3, <1>4, <1>5

LEMMA WebhookTyping ==
  ASSUME Typing, NEW w \in Worker, Webhook(w) PROVE Typing'
<1> DEFINE j == job[w]
<1>0. j \in Job /\ Remembered(j) /\ AboutIssued(j, bank)
  BY Memory
<1>1. ASSUME NEW n \in Note, Ingest(w, n) PROVE Typing'
  <2>1. bank[n.charge][n.slip] # "unissued" /\ n.kind \in Kind
    BY <1>1 DEF Ingest, Typing, BankOK, Note
  <2>. QED  BY <1>1, <2>1, LockChargeTyping, UnmatchedTyping DEF Ingest
<1>2. ASSUME NEW n \in Note, ReprocessLoad(w, n) PROVE Typing'
  <2> DEFINE r == [Idle EXCEPT !.pc = "rp_loaded", !.note = n, !.sit = inbox[n].sit]
  <2>1. inbox[n].sit \in Kind /\ bank[n.charge][n.slip] # "unissued"
    BY <1>2 DEF ReprocessLoad, Typing, InboxOK, InboxRow
  <2>2. r \in Job /\ Remembered(r) /\ AboutIssued(r, bank)
    BY <2>1 DEF Idle, Job, PC, InTx, Remembered, Webhooks, AboutIssued
  <2>. QED  BY <1>2, <2>2, ReadTyping DEF ReprocessLoad, Typing, BooksOK
<1>3. CASE Reprocess(w)
  <2>1. j.note \in Note /\ j.sit \in Kind
    BY <1>0, <1>3 DEF Reprocess, Remembered, Job
  <2>2. bank[j.note.charge][j.note.slip] # "unissued"
    BY <1>0, <2>1, NoteAssumption DEF AboutIssued
  <2>. QED  BY <1>3, <2>1, <2>2, LockChargeTyping, UnmatchedTyping DEF Reprocess
<1>4. CASE WebhookEnrich(w)
  <2> DEFINE ref == IF j.ref = None THEN j.note.slip ELSE j.ref
             sit == bank[j.charge][ref]
             new == Apply(j.status, Consulted(sit))
             r == [j EXCEPT !.pc = "wh_ready", !.sit = sit, !.status = new]
  <2>1. /\ j.charge \in Charge /\ j.note \in Note /\ j.note # None
        /\ j.note.charge = j.charge /\ j.status \in Status
    BY <1>0, <1>4, NoteAssumption DEF WebhookEnrich, Remembered, Webhooks, InTx
  <2>2. ref \in Slip /\ sit # "unissued"
    <3>1. CASE j.ref = None
      BY <1>0, <2>1, <3>1 DEF AboutIssued, Note
    <3>2. CASE j.ref # None
      BY <1>0, <2>1, <3>2, NoneAssumption DEF AboutIssued, Job
    <3>. QED  BY <3>1, <3>2
  <2>3. sit \in Situation
    BY <2>1, <2>2 DEF Typing, BankOK
  <2>4. new \in Status
    BY <2>1, <2>3, StatusTypes
  <2>5. job' = [job EXCEPT ![w] = r]
    BY <1>4 DEF WebhookEnrich
  <2>. HIDE DEF sit, new
  <2>6. r \in Job
    BY <1>0, <2>3, <2>4 DEF Job, PC, InTx, Kind
  <2>7. Remembered(r) /\ AboutIssued(r, bank)
    BY <1>0, <2>1, <2>3, <2>4 DEF Job, InTx, Remembered, Webhooks, AboutIssued
  <2>. QED  BY <1>4, <2>5, <2>6, <2>7, ReadTyping DEF WebhookEnrich, Typing, BooksOK
<1>5. CASE WebhookEnrichFails(w)
  <2> DEFINE n == j.note
  <2>1. j.charge \in Charge /\ n \in Note
    BY <1>0, <1>5 DEF WebhookEnrichFails, Remembered, Webhooks
  <2>2. bank[n.charge][n.slip] # "unissued"
    BY <1>0, <2>1, NoteAssumption DEF AboutIssued
  <2>3. BankOK' /\ StaysIssued /\ bank' = bank
    BY <1>5, BankUnchanged DEF WebhookEnrichFails, external
  <2>4. InboxOK'
    <3>1. [inbox[n] EXCEPT !.status = "failed"] \in InboxRow
      BY <2>1 DEF Typing, InboxOK, InboxRow
    <3>2. inbox' = [inbox EXCEPT ![n] = [inbox[n] EXCEPT !.status = "failed"]]
      BY <1>5 DEF WebhookEnrichFails
    <3>. QED  BY <2>1, <2>2, <2>3, <3>1, <3>2 DEF Typing, InboxOK
  <2>5. RowsOK' /\ BooksOK'
    BY <1>5, <2>3, LockTypes DEF WebhookEnrichFails, Typing, RowsOK, BooksOK
  <2>6. JobsOK'
    BY <1>5, <2>3, JobEnds DEF WebhookEnrichFails
  <2>. QED  BY <2>3, <2>4, <2>5, <2>6 DEF Typing
<1>6. CASE WebhookLifecycle(w)
  <2>1. j.pc = "wh_ready" /\ Apply(j.status, HubStatus[j.sit]) \in Status
    BY <1>0, <1>6, StatusTypes DEF WebhookLifecycle, Remembered, InTx
  <2>2. BankOK' /\ RowsOK' /\ InboxOK' /\ JobsOK'
    BY <1>6, <2>1, WebhookCommitTyping DEF WebhookLifecycle, Webhooks
  <2>. QED  BY <1>6, <2>2, LockTypes DEF WebhookLifecycle, WebhookCommit, Typing, BooksOK
<1>7. CASE WebhookAmountMismatch(w)
  <2>1. j.pc = "wh_ready" /\ j.status \in Status
    BY <1>0, <1>7 DEF WebhookAmountMismatch, Remembered, InTx
  <2>2. BankOK' /\ RowsOK' /\ InboxOK' /\ JobsOK'
    BY <1>7, <2>1, WebhookCommitTyping DEF WebhookAmountMismatch, Webhooks
  <2>. QED  BY <1>7, <2>2, LockTypes DEF WebhookAmountMismatch, WebhookCommit, Typing, BooksOK
<1>8. CASE WebhookPay(w)
  <2>1. j.pc = "wh_checked" /\ j.charge \in Charge /\ j.note \in Note
    BY <1>0, <1>8 DEF WebhookPay, Remembered, Webhooks
  <2>2. BankOK' /\ RowsOK' /\ InboxOK' /\ JobsOK'
    BY <1>8, <2>1, WebhookCommitTyping DEF WebhookPay, Webhooks, Status
  <2>3. events' \in [Charge -> Seq(Note \cup {None})]
    BY <1>8, <2>1 DEF WebhookPay, Typing, BooksOK
  <2>4. outbox' \in [Charge -> Outbox]
    BY <1>8, <2>1, BumpType DEF WebhookPay, Typing, BooksOK, Outbox
  <2>. QED  BY <1>8, <2>2, <2>3, <2>4, LockTypes DEF WebhookPay, WebhookCommit, Typing, BooksOK
<1>. QED  BY <1>1, <1>2, <1>3, <1>4, <1>5, <1>6, <1>7, <1>8 DEF Webhook

LEMMA CrashTyping ==
  ASSUME Typing, NEW w \in Worker, Crash(w) PROVE Typing'
  BY ReadTyping, IdleOK DEF Crash, Finish, Typing, BooksOK

LEMMA TypingStep == Typing /\ [Next]_vars => Typing'
<1> SUFFICES ASSUME Typing, [Next]_vars PROVE Typing'
  OBVIOUS
<1>1. CASE UNCHANGED vars
  BY <1>1 DEF vars, external, Typing, BankOK, RowsOK, InboxOK, BooksOK, JobsOK, Remembered,
              AboutIssued
<1>2. CASE Environment
  BY <1>2, EnvironmentTyping
<1>3. ASSUME NEW c \in Charge, EnsurePdf(c) PROVE Typing'
  BY <1>3, PdfTyping
<1>4. ASSUME NEW w \in Worker,
             Issue(w) \/ Cancel(w) \/ Sync(w) \/ Overdue(w) \/ Webhook(w)
               \/ CheckPaymentEvent(w) \/ Crash(w)
      PROVE  Typing'
  BY <1>4, IssueTyping, CancelTyping, SyncTyping, OverdueTyping, WebhookTyping,
     CheckTyping, CrashTyping
<1>. QED  BY <1>1, <1>2, <1>3, <1>4 DEF Next, WorkerStep

\* Billing keeps its types, whatever the interleaving and the failures.
THEOREM TypeCorrect == Spec => []TypeOK
<1>1. Spec => []Typing
  BY TypingInit, TypingStep, PTL DEF Spec
<1>. QED  BY <1>1, TypingImpliesTypeOK, PTL

-----------------------------------------------------------------------------
(* 2. A charge is settled at most once *)

\* A worker changes its memory, takes no lock and writes no event.
LEMMA ReadDiscipline ==
  ASSUME IInv, NEW w \in Worker, NEW r, job' = [job EXCEPT ![w] = r],
         UNCHANGED <<lock, events>>,
         r.pc \in InTx => job[w].pc \in InTx /\ r.charge = job[w].charge,
         r.pc \in Checked /\ ~r.seen => events[r.charge] = <<>>
  PROVE  Discipline'
<1>1. job'[w] = r /\ \A v \in Worker : v # w => job'[v] = job[v]
  BY DEF IInv, Typing, JobsOK
<1>2. LockDiscipline'
  BY <1>1 DEF IInv, Discipline, LockDiscipline
<1>3. CheckIsFresh'
  BY <1>1 DEF IInv, Discipline, CheckIsFresh
<1>4. AtMostOnePaymentEvent'
  BY DEF IInv, Discipline, AtMostOnePaymentEvent
<1>. QED  BY <1>2, <1>3, <1>4 DEF Discipline

\* A worker takes the lock of a charge that is free.
LEMMA LockTaken ==
  ASSUME IInv, NEW w \in Worker, NEW r, job' = [job EXCEPT ![w] = r],
         NEW c \in Charge, Free(c), lock' = [lock EXCEPT ![c] = w],
         r.charge = c, r.pc \notin Checked, UNCHANGED events
  PROVE  Discipline'
<1>1. job'[w] = r /\ \A v \in Worker : v # w => job'[v] = job[v]
  BY DEF IInv, Typing, JobsOK
<1>2. LockDiscipline'
  <2>1. ASSUME NEW v \in Worker, v # w, job[v].pc \in InTx
        PROVE  lock'[job[v].charge] = v
    <3>1. lock[job[v].charge] = v /\ v # None
      BY <2>1, WorkerAssumption DEF IInv, Discipline, LockDiscipline
    <3>. QED  BY <3>1 DEF Free, IInv, Typing, BooksOK
  <2>2. lock'[c] = w
    BY DEF IInv, Typing, BooksOK
  <2>. QED  BY <1>1, <2>1, <2>2 DEF LockDiscipline
<1>3. CheckIsFresh'
  BY <1>1 DEF IInv, Discipline, CheckIsFresh
<1>4. AtMostOnePaymentEvent'
  BY DEF IInv, Discipline, AtMostOnePaymentEvent
<1>. QED  BY <1>2, <1>3, <1>4 DEF Discipline

\* A worker ends its transaction; it may have written the events of its charge.
LEMMA LockReleased ==
  ASSUME IInv, NEW w \in Worker, job[w].pc \in InTx, Unlock(w), Finish(w),
         NEW e, Len(e) <= 1, events' = [events EXCEPT ![job[w].charge] = e]
  PROVE  Discipline'
<1> DEFINE c == job[w].charge
<1>1. /\ job'[w] = Idle /\ Idle.pc = "idle"
      /\ \A v \in Worker : v # w => job'[v] = job[v]
  BY DEF Finish, Idle, IInv, Typing, JobsOK
<1>2. ASSUME NEW v \in Worker, v # w, job[v].pc \in InTx PROVE job[v].charge # c
  BY <1>2 DEF IInv, Discipline, LockDiscipline
<1>3. Checked \subseteq InTx /\ "idle" \notin InTx
  BY DEF Checked, InTx
<1>4. LockDiscipline'
  <2>1. ASSUME NEW v \in Worker, v # w, job[v].pc \in InTx
        PROVE  lock'[job[v].charge] = v
    BY <1>2, <2>1 DEF Unlock, IInv, Discipline, LockDiscipline
  <2>. QED  BY <1>1, <1>3, <2>1 DEF LockDiscipline
<1>5. CheckIsFresh'
  <2>1. ASSUME NEW v \in Worker, v # w, job[v].pc \in Checked, ~job[v].seen
        PROVE  events'[job[v].charge] = <<>>
    <3>1. job[v].charge # c /\ events[job[v].charge] = <<>>
      BY <1>2, <1>3, <2>1 DEF IInv, Discipline, CheckIsFresh
    <3>. QED  BY <3>1
  <2>. QED  BY <1>1, <1>3, <2>1 DEF CheckIsFresh
<1>6. AtMostOnePaymentEvent'
  BY DEF IInv, Discipline, AtMostOnePaymentEvent, Typing, BooksOK
<1>. QED  BY <1>4, <1>5, <1>6 DEF Discipline

\* The same when it wrote no event.
LEMMA LockReleasedQuietly ==
  ASSUME IInv, NEW w \in Worker, job[w].pc \in InTx, Unlock(w), Finish(w),
         UNCHANGED events
  PROVE  Discipline'
<1>1. job[w].charge \in Charge
  BY Memory DEF IInv, Remembered, InTx
<1>2. events' = [events EXCEPT ![job[w].charge] = events[job[w].charge]]
  BY <1>1 DEF IInv, Typing, BooksOK
<1>3. Len(events[job[w].charge]) <= 1
  BY <1>1 DEF IInv, Discipline, AtMostOnePaymentEvent
<1>. QED  BY <1>2, <1>3, LockReleased

\* A worker gives up outside any lock.
LEMMA Leaves ==
  ASSUME IInv, NEW w \in Worker, Finish(w), UNCHANGED <<lock, events>>
  PROVE  Discipline'
<1>1. Idle.pc \notin InTx /\ Idle.pc \notin Checked
  BY DEF Idle, InTx, Checked
<1>. QED  BY <1>1, ReadDiscipline DEF Finish

LEMMA IssueDiscipline ==
  ASSUME IInv, NEW w \in Worker, Issue(w) PROVE Discipline'
<1> DEFINE j == job[w]
<1>0. j \in Job /\ Remembered(j)
  BY Memory DEF IInv
<1>1. ASSUME NEW c \in Charge, CreateBegin(w, c) PROVE Discipline'
  <2> DEFINE r == [Idle EXCEPT !.pc = "register", !.charge = c, !.status = "pending"]
  <2>1. r.charge = c /\ r.pc \notin Checked
    BY DEF Idle, Checked
  <2>. QED  BY <1>1, <2>1, LockTaken DEF CreateBegin
<1>2. ASSUME NEW c \in Charge, EmitLoad(w, c) PROVE Discipline'
  <2> DEFINE r == [Idle EXCEPT !.pc = "emit_loaded", !.charge = c]
  <2>1. r.pc \notin InTx /\ r.pc \notin Checked
    BY DEF Idle, InTx, Checked
  <2>. QED  BY <1>2, <2>1, ReadDiscipline DEF EmitLoad
<1>3. ASSUME NEW s \in Slip, Register(w, s) PROVE Discipline'
  <2> DEFINE r == [j EXCEPT !.pc = "registered", !.status = "registered", !.ref = s]
  <2>1. r.charge = j.charge /\ r.pc \notin Checked /\ j.pc \in InTx
    BY <1>0, <1>3 DEF Register, Job, Checked, InTx
  <2>2. job' = [job EXCEPT ![w] = r]
    BY <1>3 DEF Register
  <2>. QED  BY <1>3, <2>1, <2>2, ReadDiscipline DEF Register
<1>4. CASE EmitRefused(w)
  BY <1>4, Leaves DEF EmitRefused
<1>5. CASE EmitSave(w)
  <2> DEFINE r == [j EXCEPT !.pc = "register", !.status = "pending"]
  <2>1. r.charge = j.charge /\ j.charge \in Charge /\ r.pc \notin Checked
    BY <1>0, <1>5 DEF EmitSave, Job, Remembered, Checked
  <2>2. job' = [job EXCEPT ![w] = r]
    BY <1>5 DEF EmitSave
  <2>. QED  BY <1>5, <2>1, <2>2, LockTaken DEF EmitSave
<1>6. CASE RegisterFails(w)
  BY <1>6, LockReleasedQuietly DEF RegisterFails, InTx
<1>7. CASE RegisterEnrich(w)
  <2> DEFINE new == Apply(j.status, Consulted(bank[j.charge][j.ref]))
             r == [j EXCEPT !.status = new]
  <2>1. r.charge = j.charge /\ r.pc \notin Checked /\ j.pc \in InTx
    BY <1>0, <1>7 DEF RegisterEnrich, Job, Checked, InTx
  <2>2. job' = [job EXCEPT ![w] = r]
    BY <1>7 DEF RegisterEnrich
  <2>. QED  BY <1>7, <2>1, <2>2, ReadDiscipline DEF RegisterEnrich
<1>8. CASE RegisterCommit(w)
  BY <1>8, LockReleasedQuietly DEF RegisterCommit, InTx
<1>. QED  BY <1>1, <1>2, <1>3, <1>4, <1>5, <1>6, <1>7, <1>8 DEF Issue

LEMMA CancelDiscipline ==
  ASSUME IInv, NEW w \in Worker, Cancel(w) PROVE Discipline'
<1> DEFINE j == job[w]
<1>1. ASSUME NEW c \in Charge, CancelLoad(w, c) PROVE Discipline'
  <2> DEFINE r == [Idle EXCEPT !.pc = "cancel_loaded", !.charge = c, !.ref = row[c].ref]
  <2>1. r.pc \notin InTx /\ r.pc \notin Checked
    BY DEF Idle, InTx, Checked
  <2>. QED  BY <1>1, <2>1, ReadDiscipline DEF CancelLoad
<1>2. CASE CancelAtBank(w)
  <2>1. CASE Finish(w)
    BY <1>2, <2>1, Leaves DEF CancelAtBank
  <2>2. CASE ~Finish(w)
    <3> DEFINE r == [j EXCEPT !.pc = "cancel_at_bank"]
    <3>1. r.pc \notin InTx /\ r.pc \notin Checked
      BY Memory DEF IInv, Job, InTx, Checked
    <3>2. job' = [job EXCEPT ![w] = r]
      BY <1>2, <2>2 DEF CancelAtBank
    <3>. QED  BY <1>2, <3>1, <3>2, ReadDiscipline DEF CancelAtBank
  <2>. QED  BY <2>1, <2>2
<1>3. CASE CancelRefused(w)
  BY <1>3, Leaves DEF CancelRefused
<1>4. CASE CancelSave(w)
  BY <1>4, Leaves DEF CancelSave
<1>. QED  BY <1>1, <1>2, <1>3, <1>4 DEF Cancel

\* A sync that settles the charge found no event, and none was written since.
LEMMA SyncDiscipline ==
  ASSUME IInv, NEW w \in Worker, Sync(w) PROVE Discipline'
<1> DEFINE j == job[w]
<1>0. j \in Job /\ Remembered(j)
  BY Memory DEF IInv
<1>1. ASSUME NEW c \in Charge, SyncLoad(w, c) PROVE Discipline'
  <2> DEFINE r == [Idle EXCEPT !.pc = "sync_loaded", !.charge = c, !.ref = row[c].ref,
                               !.status = row[c].status]
  <2>1. r.pc \notin InTx /\ r.pc \notin Checked
    BY DEF Idle, InTx, Checked
  <2>. QED  BY <1>1, <2>1, ReadDiscipline DEF SyncLoad
<1>2. CASE SyncConsult(w)
  <2> DEFINE r == [j EXCEPT !.pc = "sync_answered", !.sit = bank[j.charge][j.ref]]
  <2>1. r.pc \notin InTx /\ r.pc \notin Checked
    BY <1>0 DEF Job, InTx, Checked
  <2>2. job' = [job EXCEPT ![w] = r]
    BY <1>2 DEF SyncConsult
  <2>. QED  BY <1>2, <2>1, <2>2, ReadDiscipline DEF SyncConsult
<1>3. CASE SyncConsultFails(w)
  BY <1>3, Leaves DEF SyncConsultFails
<1>4. CASE SyncSave(w)
  <2> DEFINE answered == Apply(j.status, Consulted(j.sit))
             new == ApplyOverdue(j.charge, answered)
             r == [j EXCEPT !.pc = "sync_saved", !.status = new,
                            !.write = (answered # j.status \/ new # answered)]
  <2>1. r.charge = j.charge /\ j.charge \in Charge /\ r.pc \notin Checked
    BY <1>0, <1>4 DEF SyncSave, Job, Remembered, Checked
  <2>2. job' = [job EXCEPT ![w] = r]
    BY <1>4 DEF SyncSave
  <2>. QED  BY <1>4, <2>1, <2>2, LockTaken DEF SyncSave
<1>5. CASE SyncCommit(w)
  <2> DEFINE c == j.charge
             settles == j.status = "paid" /\ ~j.seen
             e == IF settles THEN Append(events[c], None) ELSE events[c]
  <2>1. j.pc \in InTx /\ j.pc \in Checked /\ c \in Charge
    BY <1>0, <1>5 DEF SyncCommit, InTx, Checked, Remembered
  <2>2. Len(e) <= 1
    <3>1. CASE settles
      BY <2>1, <3>1 DEF IInv, Discipline, CheckIsFresh
    <3>2. CASE ~settles
      BY <2>1, <3>2 DEF IInv, Discipline, AtMostOnePaymentEvent
    <3>. QED  BY <3>1, <3>2
  <2>3. events' = [events EXCEPT ![c] = e]
    BY <1>5 DEF SyncCommit
  <2>. QED  BY <1>5, <2>1, <2>2, <2>3, LockReleased DEF SyncCommit
<1>. QED  BY <1>1, <1>2, <1>3, <1>4, <1>5 DEF Sync

LEMMA CheckDiscipline ==
  ASSUME IInv, NEW w \in Worker, CheckPaymentEvent(w) PROVE Discipline'
<1> DEFINE j == job[w]
           seen == events[j.charge] # <<>>
           pc == IF j.pc = "sync_saved" THEN "sync_checked" ELSE "wh_checked"
           r == [j EXCEPT !.seen = seen, !.pc = pc]
<1>1. job' = [job EXCEPT ![w] = r]
  BY DEF CheckPaymentEvent
<1>2. r.charge = j.charge /\ r.seen = seen /\ j.pc \in InTx
  BY Memory DEF IInv, CheckPaymentEvent, Job, InTx
<1>3. ~r.seen => events[r.charge] = <<>>
  BY <1>2
<1>4. UNCHANGED <<lock, events>>
  BY DEF CheckPaymentEvent
<1>. HIDE DEF r
<1>. QED  BY <1>1, <1>2, <1>3, <1>4, ReadDiscipline

LEMMA OverdueDiscipline ==
  ASSUME IInv, NEW w \in Worker, Overdue(w) PROVE Discipline'
<1>1. CASE OverdueRead(w)
  <2> DEFINE ids == {c \in pastDue : row[c].status \in {"pending", "registered"}}
             r == [Idle EXCEPT !.pc = "overdue_read", !.ids = ids]
  <2>1. r.pc \notin InTx /\ r.pc \notin Checked
    BY DEF Idle, InTx, Checked
  <2>. QED  BY <1>1, <2>1, ReadDiscipline DEF OverdueRead
<1>2. CASE OverdueWrite(w)
  BY <1>2, Leaves DEF OverdueWrite
<1>. QED  BY <1>1, <1>2 DEF Overdue

LEMMA LockChargeDiscipline ==
  ASSUME IInv, NEW w \in Worker, NEW n \in Note, NEW sit, LockCharge(w, n, sit)
  PROVE  Discipline'
<1> DEFINE c == n.charge
           pc == IF sit = "light" THEN "wh_enrich" ELSE "wh_ready"
           r == [Idle EXCEPT !.pc = pc, !.charge = c, !.note = n, !.sit = sit,
                             !.status = row[c].status, !.ref = row[c].ref]
<1>1. r.charge = c /\ c \in Charge /\ r.pc \notin Checked
  BY DEF Idle, Note, Checked
<1>2. job' = [job EXCEPT ![w] = r] /\ Free(c) /\ lock' = [lock EXCEPT ![c] = w]
      /\ UNCHANGED events
  BY DEF LockCharge
<1>. QED  BY <1>1, <1>2, LockTaken

\* A callback that settles the charge found no event, and none was written since.
LEMMA WebhookDiscipline ==
  ASSUME IInv, NEW w \in Worker, Webhook(w) PROVE Discipline'
<1> DEFINE j == job[w]
<1>0. j \in Job /\ Remembered(j)
  BY Memory DEF IInv
<1>1. ASSUME NEW n \in Note, Ingest(w, n) PROVE Discipline'
  BY <1>1, LockChargeDiscipline, Leaves DEF Ingest, Unmatched
<1>2. ASSUME NEW n \in Note, ReprocessLoad(w, n) PROVE Discipline'
  <2> DEFINE r == [Idle EXCEPT !.pc = "rp_loaded", !.note = n, !.sit = inbox[n].sit]
  <2>1. r.pc \notin InTx /\ r.pc \notin Checked
    BY DEF Idle, InTx, Checked
  <2>. QED  BY <1>2, <2>1, ReadDiscipline DEF ReprocessLoad
<1>3. CASE Reprocess(w)
  <2>1. j.note \in Note
    BY <1>0, <1>3 DEF Reprocess, Remembered
  <2>. QED  BY <1>3, <2>1, LockChargeDiscipline, Leaves DEF Reprocess, Unmatched
<1>4. CASE WebhookEnrich(w)
  <2> DEFINE ref == IF j.ref = None THEN j.note.slip ELSE j.ref
             r == [j EXCEPT !.pc = "wh_ready", !.sit = bank[j.charge][ref],
                            !.status = Apply(j.status, Consulted(bank[j.charge][ref]))]
  <2>1. r.charge = j.charge /\ r.pc \notin Checked /\ j.pc \in InTx
    BY <1>0, <1>4 DEF WebhookEnrich, Job, Checked, InTx
  <2>2. job' = [job EXCEPT ![w] = r]
    BY <1>4 DEF WebhookEnrich
  <2>. QED  BY <1>4, <2>1, <2>2, ReadDiscipline DEF WebhookEnrich
<1>5. CASE WebhookEnrichFails(w)
  BY <1>5, LockReleasedQuietly DEF WebhookEnrichFails, InTx
<1>6. CASE WebhookLifecycle(w)
  BY <1>6, LockReleasedQuietly DEF WebhookLifecycle, WebhookCommit, InTx
<1>7. CASE WebhookAmountMismatch(w)
  BY <1>7, LockReleasedQuietly DEF WebhookAmountMismatch, WebhookCommit, InTx
<1>8. CASE WebhookPay(w)
  <2> DEFINE c == j.charge
             e == IF j.seen THEN events[c] ELSE Append(events[c], j.note)
  <2>1. j.pc \in InTx /\ j.pc \in Checked /\ c \in Charge
    BY <1>0, <1>8 DEF WebhookPay, InTx, Checked, Remembered
  <2>2. Len(e) <= 1
    <3>1. CASE ~j.seen
      BY <2>1, <3>1 DEF IInv, Discipline, CheckIsFresh
    <3>2. CASE j.seen
      BY <2>1, <3>2 DEF IInv, Discipline, AtMostOnePaymentEvent
    <3>. QED  BY <3>1, <3>2
  <2>3. events' = [events EXCEPT ![c] = e]
    BY <1>8 DEF WebhookPay
  <2>. QED  BY <1>8, <2>1, <2>2, <2>3, LockReleased DEF WebhookPay, WebhookCommit
<1>. QED  BY <1>1, <1>2, <1>3, <1>4, <1>5, <1>6, <1>7, <1>8 DEF Webhook

\* A worker that dies drops its lock and its memory together.
LEMMA CrashDiscipline ==
  ASSUME IInv, NEW w \in Worker, Crash(w) PROVE Discipline'
<1>1. /\ job'[w] = Idle /\ Idle.pc \notin InTx /\ Checked \subseteq InTx
      /\ \A v \in Worker : v # w => job'[v] = job[v]
  BY DEF Crash, Finish, Idle, InTx, Checked, IInv, Typing, JobsOK
<1>2. LockDiscipline'
  <2>1. ASSUME NEW v \in Worker, v # w, job[v].pc \in InTx
        PROVE  lock'[job[v].charge] = v
    <3>1. lock[job[v].charge] = v /\ job[v].charge \in Charge
      BY <2>1, Memory DEF IInv, Discipline, LockDiscipline, Remembered, InTx
    <3>. QED  BY <2>1, <3>1 DEF Crash
  <2>. QED  BY <1>1, <2>1 DEF LockDiscipline
<1>3. CheckIsFresh'
  BY <1>1 DEF Crash, IInv, Discipline, CheckIsFresh
<1>4. AtMostOnePaymentEvent'
  BY DEF Crash, IInv, Discipline, AtMostOnePaymentEvent
<1>. QED  BY <1>2, <1>3, <1>4 DEF Discipline

\* Steps in which no worker takes part in anything it could lose.
LEMMA IdleDiscipline ==
  ASSUME IInv, UNCHANGED <<events, lock, job>> PROVE Discipline'
  BY DEF IInv, Discipline, LockDiscipline, CheckIsFresh, AtMostOnePaymentEvent

LEMMA DisciplineInit == Init => Discipline
  BY DEF Init, Discipline, LockDiscipline, CheckIsFresh, AtMostOnePaymentEvent,
         Idle, InTx, Checked

LEMMA DisciplineStep == IInv /\ [Next]_vars => Discipline'
<1> SUFFICES ASSUME IInv, [Next]_vars PROVE Discipline'
  OBVIOUS
<1>1. CASE UNCHANGED vars
  BY <1>1, IdleDiscipline DEF vars
<1>2. CASE Environment
  BY <1>2, IdleDiscipline DEF Environment, BankAdvance, DueDatePasses
<1>3. ASSUME NEW c \in Charge, EnsurePdf(c) PROVE Discipline'
  BY <1>3, IdleDiscipline DEF EnsurePdf
<1>4. ASSUME NEW w \in Worker,
             Issue(w) \/ Cancel(w) \/ Sync(w) \/ Overdue(w) \/ Webhook(w)
               \/ CheckPaymentEvent(w) \/ Crash(w)
      PROVE  Discipline'
  BY <1>4, IssueDiscipline, CancelDiscipline, SyncDiscipline, OverdueDiscipline,
     WebhookDiscipline, CheckDiscipline, CrashDiscipline
<1>. QED  BY <1>1, <1>2, <1>3, <1>4 DEF Next, WorkerStep

LEMMA Inductive == Spec => []IInv
<1>1. Init => IInv
  BY TypingInit, DisciplineInit DEF IInv
<1>2. IInv /\ [Next]_vars => IInv'
  BY TypingStep, DisciplineStep DEF IInv
<1>. QED  BY <1>1, <1>2, PTL DEF Spec

\* A charge is settled at most once, however requests, callbacks, the beat job,
\* crashes and refusals interleave: the row lock covers the anti-replay query
\* and the insert of the PaymentEvent in both paths.
THEOREM SettledAtMostOnce == Spec => []AtMostOnePaymentEvent
<1>1. IInv => AtMostOnePaymentEvent
  BY DEF IInv, Discipline
<1>. QED  BY <1>1, Inductive, PTL

\* Two workers never hold a charge at the same time.
THEOREM OneWorkerPerCharge ==
  Spec => [](\A v, w \in Worker :
               /\ job[v].pc \in InTx /\ job[w].pc \in InTx
               /\ job[v].charge = job[w].charge
               => v = w)
<1>1. IInv => (\A v, w \in Worker :
                 /\ job[v].pc \in InTx /\ job[w].pc \in InTx
                 /\ job[v].charge = job[w].charge
                 => v = w)
  BY DEF IInv, Discipline, LockDiscipline
<1>. QED  BY <1>1, Inductive, PTL

-----------------------------------------------------------------------------
(* 3. No payment is invented, and none is lost: the inductive invariant *)

\* Charges the bank has reported in a word the Hub takes for a payment, and
\* charges with an event.
Reported == Paid \cup protested
InBooks == {c \in Charge : events[c] # <<>>}

\* The situations that a callback is a payment for.
Taken == Received \cup {"protesto"}

\* Program points at which a worker remembers an answer or a callback's content.
Informed == {"sync_answered", "wh_ready", "wh_checked"}

\* What a worker remembers of a payment has happened at the bank, what it
\* remembers of an event is in the books, and its callback was sent.
Knows(j, received, settled, called) ==
  /\ j.pc \in InTx \cup {"sync_loaded", "sync_answered"} =>
       (j.status = "paid" => j.charge \in received)
  /\ j.pc \in Informed => (j.sit \in Taken => j.charge \in received)
  /\ j.pc = "rp_loaded" => (j.sit \in Taken => j.note.charge \in received)
  /\ j.pc = "wh_checked" => j.sit \in Taken /\ (j.seen => j.charge \in settled)
  /\ j.pc \in Webhooks \cup {"rp_loaded"} => j.note \in called

JobsKnow == \A w \in Worker : Knows(job[w], Reported, InBooks, sent)

\* An inbox row is of a callback that was sent, and holds its content until a
\* handler has written the row; a payment in it has happened at the bank.
InboxKnows ==
  /\ \A n \in Note : inbox[n].status = "none" => inbox[n].sit = n.kind
  /\ \A n \in Note : inbox[n].status # "none" => n \in sent
  /\ \A n \in sent : inbox[n].sit \in Taken => n.charge \in Reported

\* Neither property is inductive by itself: what a handler writes it remembers
\* from an earlier step, so the invariant is about the memories too.
Knowledge ==
  JobsKnow /\ InboxKnows /\ PaidIsReportedByBank /\ ProcessedPaymentIsSettled

KInv == IInv /\ Knowledge

-----------------------------------------------------------------------------
(* What a step never takes back, and lemmas on single writes *)

Remains == Reported \subseteq Reported' /\ InBooks \subseteq InBooks' /\ sent \subseteq sent'

LEMMA KnowsStill ==
  ASSUME NEW j, NEW received, NEW settled, NEW called,
         NEW received2, NEW settled2, NEW called2,
         received \subseteq received2, settled \subseteq settled2, called \subseteq called2,
         Knows(j, received, settled, called)
  PROVE  Knows(j, received2, settled2, called2)
  BY DEF Knows

LEMMA IdleKnows ==
  \A received, settled, called : Knows(Idle, received, settled, called)
  BY DEF Knows, Idle, InTx, Informed, Webhooks

LEMMA RemainsUnchanged ==
  ASSUME UNCHANGED <<events, external>>
  PROVE  Remains /\ Reported' = Reported /\ InBooks' = InBooks /\ sent' = sent
  BY DEF Remains, Reported, Paid, InBooks, external

\* One worker's memory changes.
LEMMA KnowWrite ==
  ASSUME KInv, Remains, NEW w \in Worker, NEW r, job' = [job EXCEPT ![w] = r],
         Knows(r, Reported', InBooks', sent')
  PROVE  JobsKnow'
<1>1. ASSUME NEW v \in Worker PROVE Knows(job'[v], Reported', InBooks', sent')
  <2>1. CASE v = w
    BY <2>1 DEF KInv, IInv, Typing, JobsOK
  <2>2. CASE v # w
    <3>1. job'[v] = job[v] /\ Knows(job[v], Reported, InBooks, sent)
      BY <2>2 DEF KInv, IInv, Typing, JobsOK, Knowledge, JobsKnow
    <3>. QED  BY <3>1, KnowsStill DEF Remains
  <2>. QED  BY <2>1, <2>2
<1>. QED  BY <1>1 DEF JobsKnow

LEMMA KnowEnds ==
  ASSUME KInv, Remains, NEW w \in Worker, Finish(w)
  PROVE  JobsKnow'
  BY KnowWrite, IdleKnows DEF Finish

\* A charge is written: it is paid only if it was, or if the bank received.
LEMMA RowKnows ==
  ASSUME KInv, Remains,
         \A c \in Charge : row'[c].status = "paid" =>
           row[c].status = "paid" \/ c \in Reported
  PROVE  PaidIsReportedByBank'
  BY DEF KInv, Knowledge, PaidIsReportedByBank, Remains, Reported, Paid

LEMMA InboxQuiet ==
  ASSUME KInv, Remains, UNCHANGED <<inbox, sent>>
  PROVE  InboxKnows' /\ ProcessedPaymentIsSettled'
<1>1. InboxKnows'
  BY DEF KInv, Knowledge, InboxKnows, Remains
<1>2. ProcessedPaymentIsSettled'
  BY DEF KInv, Knowledge, ProcessedPaymentIsSettled, Remains, InBooks, Note
<1>. QED  BY <1>1, <1>2

\* An inbox row is written.
LEMMA InboxWrite ==
  ASSUME KInv, Remains, UNCHANGED sent, NEW n \in sent, NEW v,
         inbox' = [inbox EXCEPT ![n] = v], v.status # "none",
         v.sit \in Taken => n.charge \in Reported,
         v.status = "processed" /\ IsPayment(v.sit) => n.charge \in InBooks'
  PROVE  InboxKnows' /\ ProcessedPaymentIsSettled'
<1>1. /\ n \in Note /\ inbox'[n] = v
      /\ \A m \in Note : m # n => inbox'[m] = inbox[m]
      /\ sent \subseteq Note
  BY DEF KInv, IInv, Typing, BankOK, InboxOK
<1>2. InboxKnows'
  BY <1>1 DEF KInv, Knowledge, InboxKnows, Remains
<1>3. ProcessedPaymentIsSettled'
  <2>1. ASSUME NEW m \in Note, inbox'[m].status = "processed", IsPayment(inbox'[m].sit)
        PROVE  events'[m.charge] # <<>>
    <3>1. CASE m = n
      BY <1>1, <2>1, <3>1 DEF InBooks
    <3>2. CASE m # n
      BY <1>1, <2>1, <3>2 DEF KInv, Knowledge, ProcessedPaymentIsSettled, Remains, InBooks, Note
    <3>. QED  BY <3>1, <3>2
  <2>. QED  BY <2>1 DEF ProcessedPaymentIsSettled
<1>. QED  BY <1>2, <1>3

\* A worker that only changes its memory, or takes a lock.
LEMMA ReadKnows ==
  ASSUME KInv, UNCHANGED <<row, events, inbox, external>>,
         NEW w \in Worker, NEW r, job' = [job EXCEPT ![w] = r],
         Knows(r, Reported, InBooks, sent)
  PROVE  Knowledge'
<1>1. Remains /\ Reported' = Reported /\ InBooks' = InBooks /\ sent' = sent
  BY RemainsUnchanged
<1>2. JobsKnow'
  BY <1>1, KnowWrite
<1>3. PaidIsReportedByBank'
  BY <1>1, RowKnows
<1>. QED  BY <1>1, <1>2, <1>3, InboxQuiet DEF Knowledge

\* A worker that ends, having written charges but neither books nor inbox.
LEMMA EndsKnowing ==
  ASSUME KInv, UNCHANGED <<events, inbox, external>>, NEW w \in Worker, Finish(w),
         \A c \in Charge : row'[c].status = "paid" =>
           row[c].status = "paid" \/ c \in Reported
  PROVE  Knowledge'
<1>1. Remains /\ sent' = sent
  BY RemainsUnchanged
<1>. QED  BY <1>1, KnowEnds, RowKnows, InboxQuiet DEF Knowledge

\* What the invariant says of one worker.
LEMMA Recall ==
  ASSUME KInv, NEW w \in Worker
  PROVE  /\ job[w] \in Job /\ Remembered(job[w]) /\ AboutIssued(job[w], bank)
         /\ Knows(job[w], Reported, InBooks, sent)
  BY Memory DEF KInv, IInv, Knowledge, JobsKnow

\* The Hub reads paid what the bank has received, and in a callback a protest.
LEMMA PaidWord ==
  /\ \A s \in Situation : Consulted(s) = "paid" => s \in Taken
  /\ \A s \in Situation : IsPayment(s) <=> s \in Taken
  /\ \A s \in Situation : ~IsPayment(s) => HubStatus[s] # "paid"
  /\ \A a, b : Apply(a, b) = "paid" => a = "paid" \/ b = "paid"
  /\ \A c, a : ApplyOverdue(c, a) = "paid" => a = "paid"
  BY DEF HubStatus, Consulted, IsPayment, Situation, Received, Taken, Apply, ApplyOverdue

\* The bank's answer about a slip of a charge.
LEMMA Answer ==
  ASSUME KInv, NEW c \in Charge, NEW s \in Slip, bank[c][s] # "unissued"
  PROVE  bank[c][s] \in Situation /\ (bank[c][s] \in Taken => c \in Reported)
  BY DEF KInv, IInv, Typing, BankOK, Reported, Paid, Taken

LEMMA KnowledgeInit == Init => Knowledge
<1> SUFFICES ASSUME Init PROVE Knowledge
  OBVIOUS
<1>1. JobsKnow
  BY IdleKnows DEF Init, JobsKnow
<1>2. InboxKnows
  BY DEF Init, InboxKnows
<1>3. PaidIsReportedByBank /\ ProcessedPaymentIsSettled
  BY DEF Init, PaidIsReportedByBank, ProcessedPaymentIsSettled, Absent, Local
<1>. QED  BY <1>1, <1>2, <1>3 DEF Knowledge

-----------------------------------------------------------------------------
(* One lemma per group of actions: what they leave of Knowledge *)

\* The bank never takes a payment back, and calls back on what happened.
LEMMA EnvironmentKnows ==
  ASSUME KInv, Environment PROVE Knowledge'
<1>1. ASSUME NEW c \in Charge, NEW s \in Slip, BankAdvance(c, s) PROVE Knowledge'
  <2>1. PICK new \in NextSituation[bank[c][s]] :
          bank' = [bank EXCEPT ![c][s] = new] /\ CallBack(c, s, new)
    BY <1>1 DEF BankAdvance
  <2>2. /\ bank'[c][s] = new /\ bank[c][s] \notin Received
        /\ \A d \in Charge, t \in Slip : d # c \/ t # s => bank'[d][t] = bank[d][t]
    <3>1. bank[c][s] \in Situation \cup {"unissued"}
      BY DEF KInv, IInv, Typing, BankOK
    <3>2. bank[c][s] \notin Received
      BY <3>1, <2>1 DEF NextSituation, Received, Situation
    <3>. QED  BY <2>1, <3>2 DEF KInv, IInv, Typing, BankOK
  <2>3. Remains
    <3>1. Paid \subseteq Paid'
      BY <2>2 DEF Paid
    <3>2. protested \subseteq protested' /\ InBooks' = InBooks /\ sent \subseteq sent'
      BY <1>1, <2>1 DEF BankAdvance, CallBack, InBooks
    <3>. QED  BY <3>1, <3>2 DEF Remains, Reported
  <2>4. JobsKnow'
    BY <1>1, <2>3, KnowsStill DEF BankAdvance, KInv, Knowledge, JobsKnow, Remains
  <2>5. InboxKnows'
    <3>1. inbox' = inbox
      BY <1>1 DEF BankAdvance
    <3>2. ASSUME NEW n \in sent', inbox[n].sit \in Taken PROVE n.charge \in Reported'
      <4>1. CASE n \in sent
        BY <3>2, <4>1, <2>3 DEF KInv, Knowledge, InboxKnows, Remains
      <4>2. CASE n \notin sent
        <5>1. n.charge = c /\ n.kind \in {new, "light"} /\ n \in Note
          BY <3>2, <4>2, <2>1 DEF CallBack, Note, Kind, Situation, Received, KInv, IInv,
             Typing, BankOK, NextSituation
        <5>2. inbox[n].sit = n.kind
          BY <4>2, <5>1 DEF KInv, Knowledge, InboxKnows, IInv, Typing, InboxOK, InboxRow
        <5>3. new \in Taken
          BY <3>2, <5>1, <5>2 DEF Taken, Received
        <5>4. c \in Reported'
          <6>1. CASE new \in Received
            BY <6>1, <2>2 DEF Reported, Paid
          <6>2. CASE new = "protesto"
            BY <6>2, <1>1, <2>2 DEF BankAdvance, Reported, KInv, IInv, Typing, BankOK
          <6>. QED  BY <5>3, <6>1, <6>2 DEF Taken
        <5>. QED  BY <5>1, <5>4
      <4>. QED  BY <4>1, <4>2
    <3>. QED  BY <3>1, <3>2, <2>3 DEF KInv, Knowledge, InboxKnows, Remains
  <2>6. PaidIsReportedByBank'
    BY <1>1, <2>3, RowKnows DEF BankAdvance
  <2>7. ProcessedPaymentIsSettled'
    BY <1>1 DEF BankAdvance, KInv, Knowledge, ProcessedPaymentIsSettled
  <2>. QED  BY <2>4, <2>5, <2>6, <2>7 DEF Knowledge
<1>2. ASSUME NEW c \in Charge, DueDatePasses(c) PROVE Knowledge'
  BY <1>2 DEF DueDatePasses, KInv, Knowledge, JobsKnow, InboxKnows, Reported, Paid, InBooks,
              PaidIsReportedByBank, ProcessedPaymentIsSettled
<1>. QED  BY <1>1, <1>2 DEF Environment

\* The bank issues a slip.
LEMMA BankKeeps ==
  ASSUME KInv, NEW c \in Charge, NEW s \in Slip, NEW sit,
         bank' = [bank EXCEPT ![c][s] = sit], bank[c][s] \notin Received,
         sit \notin Received
  PROVE  Paid' = Paid
<1>1. /\ bank'[c][s] = sit
      /\ \A d \in Charge, t \in Slip : d # c \/ t # s => bank'[d][t] = bank[d][t]
  BY DEF KInv, IInv, Typing, BankOK
<1>2. \A d \in Charge, t \in Slip : bank'[d][t] \in Received <=> bank[d][t] \in Received
  BY <1>1
<1>. QED  BY <1>2 DEF Paid

LEMMA HandlersKeepBank ==
  ASSUME KInv, NEW w \in Worker,
         (\E s \in Slip : Register(w, s)) \/ RegisterFails(w) \/ CancelAtBank(w)
  PROVE  /\ Paid' = Paid /\ protested' = protested
         /\ Reported' = Reported
<1> DEFINE j == job[w]
           c == j.charge
<1>0. j \in Job /\ Remembered(j)
  BY Recall
<1>1. ASSUME NEW s \in Slip, Register(w, s) PROVE Paid' = Paid
  <2>1. c \in Charge /\ bank[c][s] \notin Received
    BY <1>0, <1>1 DEF Register, Remembered, Received
  <2>2. PICK sit \in {"em_processamento", "a_receber"} :
          bank' = [bank EXCEPT ![c][s] = sit]
    BY <1>1 DEF Register
  <2>. QED  BY <2>1, <2>2, BankKeeps DEF Received
<1>2. CASE RegisterFails(w)
  <2>1. CASE bank' = bank
    BY <2>1, <1>2 DEF Paid, Reported, RegisterFails
  <2>2. CASE bank' # bank
    <3>1. PICK s \in Slip : /\ bank[c][s] = "unissued"
                            /\ bank' = [bank EXCEPT ![c][s] = "a_receber"]
      BY <1>2, <2>2 DEF RegisterFails
    <3>2. c \in Charge /\ bank[c][s] \notin Received /\ "a_receber" \notin Received
      BY <1>0, <1>2, <3>1 DEF RegisterFails, Remembered, Received
    <3>. QED  BY <1>2, <3>1, <3>2, BankKeeps DEF Reported, RegisterFails
  <2>. QED  BY <2>1, <2>2
<1>3. CASE CancelAtBank(w)
  BY <1>3 DEF CancelAtBank, Reported, Paid
<1>. QED  BY <1>1, <1>2, <1>3 DEF Register, Reported

LEMMA BankWrite ==
  ASSUME KInv, Reported' = Reported, UNCHANGED <<row, events, inbox, sent>>,
         NEW w \in Worker, NEW r, job' = [job EXCEPT ![w] = r],
         Knows(r, Reported, InBooks, sent)
  PROVE  Knowledge'
<1>1. Remains /\ InBooks' = InBooks
  BY DEF Remains, InBooks
<1>. QED  BY <1>1, KnowWrite, RowKnows, InboxQuiet DEF Knowledge

LEMMA IssueKnows ==
  ASSUME KInv, NEW w \in Worker, Issue(w) PROVE Knowledge'
<1> DEFINE j == job[w]
<1>0. /\ j \in Job /\ Remembered(j) /\ AboutIssued(j, bank)
      /\ Knows(j, Reported, InBooks, sent)
  BY Recall
<1>1. ASSUME NEW c \in Charge, CreateBegin(w, c) PROVE Knowledge'
  <2> DEFINE r == [Idle EXCEPT !.pc = "register", !.charge = c, !.status = "pending"]
  <2>1. Knows(r, Reported, InBooks, sent)
    BY DEF Idle, Knows, InTx, Informed, Webhooks
  <2>. QED  BY <1>1, <2>1, ReadKnows DEF CreateBegin
<1>2. ASSUME NEW c \in Charge, EmitLoad(w, c) PROVE Knowledge'
  <2> DEFINE r == [Idle EXCEPT !.pc = "emit_loaded", !.charge = c]
  <2>1. Knows(r, Reported, InBooks, sent)
    BY DEF Idle, Knows, InTx, Informed, Webhooks
  <2>. QED  BY <1>2, <2>1, ReadKnows DEF EmitLoad
<1>3. ASSUME NEW s \in Slip, Register(w, s) PROVE Knowledge'
  <2> DEFINE r == [j EXCEPT !.pc = "registered", !.status = "registered", !.ref = s]
  <2>1. Knows(r, Reported, InBooks, sent) /\ job' = [job EXCEPT ![w] = r]
    BY <1>0, <1>3 DEF Register, Job, Knows, InTx, Informed, Webhooks
  <2>2. Reported' = Reported
    BY <1>3, HandlersKeepBank
  <2>. QED  BY <1>3, <2>1, <2>2, BankWrite DEF Register
<1>4. CASE EmitRefused(w)
  BY <1>4, EndsKnowing DEF EmitRefused
<1>5. CASE EmitSave(w)
  <2> DEFINE r == [j EXCEPT !.pc = "register", !.status = "pending"]
  <2>1. Knows(r, Reported, InBooks, sent) /\ job' = [job EXCEPT ![w] = r]
    BY <1>0, <1>5 DEF EmitSave, Job, Knows, InTx, Informed, Webhooks
  <2>. QED  BY <1>5, <2>1, ReadKnows DEF EmitSave
<1>6. CASE RegisterFails(w)
  <2>1. Reported' = Reported
    BY <1>6, HandlersKeepBank
  <2>. QED  BY <1>6, <2>1, BankWrite, IdleKnows DEF RegisterFails, Finish
<1>7. CASE RegisterEnrich(w)
  <2> DEFINE sit == bank[j.charge][j.ref]
             new == Apply(j.status, Consulted(sit))
             r == [j EXCEPT !.status = new]
  <2>1. j.charge \in Charge /\ j.ref \in Slip /\ sit # "unissued"
    BY <1>0, <1>7, NoneAssumption DEF RegisterEnrich, Remembered, AboutIssued
  <2>2. sit \in Situation /\ (sit \in Taken => j.charge \in Reported)
    BY <2>1, Answer
  <2>3. new = "paid" => j.charge \in Reported
    BY <1>0, <1>7, <2>2, PaidWord DEF RegisterEnrich, Knows, InTx
  <2>4. job' = [job EXCEPT ![w] = r] /\ j.pc = "registered"
    BY <1>7 DEF RegisterEnrich
  <2>. HIDE DEF new
  <2>5. Knows(r, Reported, InBooks, sent)
    BY <1>0, <2>3, <2>4 DEF Job, Knows, InTx, Informed, Webhooks
  <2>. QED  BY <1>7, <2>4, <2>5, ReadKnows DEF RegisterEnrich
<1>8. CASE RegisterCommit(w)
  <2>1. PICK pdf : row' = [row EXCEPT ![j.charge] =
                             [status |-> j.status, ref |-> j.ref, pdf |-> pdf]]
    BY <1>8 DEF RegisterCommit
  <2>2. j.status = "paid" => j.charge \in Reported
    BY <1>0, <1>8 DEF RegisterCommit, Knows, InTx
  <2>3. \A c \in Charge : row'[c].status = "paid" => row[c].status = "paid" \/ c \in Reported
    BY <2>1, <2>2 DEF KInv, IInv, Typing, RowsOK
  <2>. QED  BY <1>8, <2>3, EndsKnowing DEF RegisterCommit
<1>. QED  BY <1>1, <1>2, <1>3, <1>4, <1>5, <1>6, <1>7, <1>8 DEF Issue

LEMMA CancelKnows ==
  ASSUME KInv, NEW w \in Worker, Cancel(w) PROVE Knowledge'
<1> DEFINE j == job[w]
<1>0. /\ j \in Job /\ Remembered(j) /\ AboutIssued(j, bank)
      /\ Knows(j, Reported, InBooks, sent)
  BY Recall
<1>1. ASSUME NEW c \in Charge, CancelLoad(w, c) PROVE Knowledge'
  <2> DEFINE r == [Idle EXCEPT !.pc = "cancel_loaded", !.charge = c, !.ref = row[c].ref]
  <2>1. Knows(r, Reported, InBooks, sent)
    BY DEF Idle, Knows, InTx, Informed, Webhooks
  <2>. QED  BY <1>1, <2>1, ReadKnows DEF CancelLoad
<1>2. CASE CancelAtBank(w)
  <2> DEFINE c == j.charge
             s == j.ref
  <2>1. c \in Charge /\ s \in Slip
    BY <1>0, <1>2 DEF CancelAtBank, Remembered, Job
  <2>2. Reported' = Reported
    BY <1>2, HandlersKeepBank
  <2>3. Remains
    BY <1>2, <2>2 DEF CancelAtBank, Remains, InBooks
  <2>4. JobsKnow'
    <3>1. CASE Finish(w)
      BY <3>1, <2>3, KnowEnds
    <3>2. CASE ~Finish(w)
      <4> DEFINE r == [j EXCEPT !.pc = "cancel_at_bank"]
      <4>1. job' = [job EXCEPT ![w] = r]
        BY <1>2, <3>2 DEF CancelAtBank
      <4>2. Knows(r, Reported', InBooks', sent')
        BY <1>0 DEF Job, Knows, InTx, Informed, Webhooks
      <4>. QED  BY <2>3, <4>1, <4>2, KnowWrite
    <3>. QED  BY <3>1, <3>2
  <2>5. PaidIsReportedByBank'
    BY <1>2, <2>3, RowKnows DEF CancelAtBank
  <2>6. InboxKnows' /\ ProcessedPaymentIsSettled'
    BY <1>2, <2>3, InboxQuiet DEF CancelAtBank
  <2>. QED  BY <2>4, <2>5, <2>6 DEF Knowledge
<1>3. CASE CancelRefused(w)
  BY <1>3, EndsKnowing DEF CancelRefused
<1>4. CASE CancelSave(w)
  <2>1. \A c \in Charge : row'[c].status = "paid" => row[c].status = "paid"
    BY <1>4 DEF CancelSave, KInv, IInv, Typing, RowsOK, Row
  <2>. QED  BY <1>4, <2>1, EndsKnowing DEF CancelSave
<1>. QED  BY <1>1, <1>2, <1>3, <1>4 DEF Cancel

\* An event is added to a charge, or none: the books lose nothing.
LEMMA BooksGrow ==
  ASSUME KInv, NEW c \in Charge, NEW e \in Note \cup {None}, NEW settles \in BOOLEAN,
         events' = [events EXCEPT ![c] = IF settles THEN Append(@, e) ELSE @]
  PROVE  InBooks \subseteq InBooks' /\ (settles => c \in InBooks')
<1>1. events \in [Charge -> Seq(Note \cup {None})]
  BY DEF KInv, IInv, Typing, BooksOK
<1>2. Append(events[c], e) # <<>>
  <2>1. events[c] \in Seq(Note \cup {None})
    BY <1>1
  <2>2. Len(Append(events[c], e)) = Len(events[c]) + 1 /\ Len(events[c]) \in Nat
    BY <2>1
  <2>. QED  BY <2>2
<1>3. events'[c] = (IF settles THEN Append(events[c], e) ELSE events[c])
      /\ \A d \in Charge : d # c => events'[d] = events[d]
  BY <1>1
<1>4. ASSUME NEW d \in Charge, events[d] # <<>> PROVE events'[d] # <<>>
  BY <1>2, <1>3, <1>4
<1>5. settles => events'[c] # <<>>
  BY <1>2, <1>3
<1>. QED  BY <1>4, <1>5 DEF InBooks

LEMMA SyncKnows ==
  ASSUME KInv, NEW w \in Worker, Sync(w) PROVE Knowledge'
<1> DEFINE j == job[w]
<1>0. /\ j \in Job /\ Remembered(j) /\ AboutIssued(j, bank)
      /\ Knows(j, Reported, InBooks, sent)
  BY Recall
<1>1. ASSUME NEW c \in Charge, SyncLoad(w, c) PROVE Knowledge'
  <2> DEFINE r == [Idle EXCEPT !.pc = "sync_loaded", !.charge = c, !.ref = row[c].ref,
                               !.status = row[c].status]
  <2>1. row[c].status = "paid" => c \in Reported
    BY DEF KInv, Knowledge, PaidIsReportedByBank, Reported, Paid
  <2>2. Knows(r, Reported, InBooks, sent)
    BY <2>1 DEF Idle, Knows, InTx, Informed, Webhooks
  <2>. QED  BY <1>1, <2>2, ReadKnows DEF SyncLoad
<1>2. CASE SyncConsult(w)
  <2> DEFINE sit == bank[j.charge][j.ref]
             r == [j EXCEPT !.pc = "sync_answered", !.sit = sit]
  <2>1. j.pc = "sync_loaded" /\ j.charge \in Charge /\ j.ref \in Slip /\ sit # "unissued"
    BY <1>0, <1>2, NoneAssumption DEF SyncConsult, Remembered, AboutIssued
  <2>2. sit \in Taken => j.charge \in Reported
    BY <2>1, Answer
  <2>3. job' = [job EXCEPT ![w] = r]
    BY <1>2 DEF SyncConsult
  <2>. HIDE DEF sit
  <2>4. Knows(r, Reported, InBooks, sent)
    BY <1>0, <2>1, <2>2 DEF Job, Knows, InTx, Informed, Webhooks
  <2>. QED  BY <1>2, <2>3, <2>4, ReadKnows DEF SyncConsult
<1>3. CASE SyncConsultFails(w)
  BY <1>3, EndsKnowing DEF SyncConsultFails
<1>4. CASE SyncSave(w)
  <2> DEFINE answered == Apply(j.status, Consulted(j.sit))
             new == ApplyOverdue(j.charge, answered)
             writes == answered # j.status \/ new # answered
             r == [j EXCEPT !.pc = "sync_saved", !.status = new, !.write = writes]
  <2>1. j.pc = "sync_answered" /\ j.sit \in Situation
    BY <1>0, <1>4 DEF SyncSave, Remembered
  <2>2. new = "paid" => j.charge \in Reported
    BY <1>0, <2>1, PaidWord DEF Knows, Informed
  <2>3. job' = [job EXCEPT ![w] = r]
    BY <1>4 DEF SyncSave
  <2>. HIDE DEF new, writes
  <2>4. Knows(r, Reported, InBooks, sent)
    BY <1>0, <2>1, <2>2 DEF Job, Knows, InTx, Informed, Webhooks
  <2>. QED  BY <1>4, <2>3, <2>4, ReadKnows DEF SyncSave
<1>5. CASE SyncCommit(w)
  <2> DEFINE c == j.charge
             settles == j.status = "paid" /\ ~j.seen
  <2>1. c \in Charge /\ (j.status = "paid" => c \in Reported)
    BY <1>0, <1>5 DEF SyncCommit, Remembered, Knows, InTx
  <2>2. Remains
    <3>1. events' = [events EXCEPT ![c] = IF settles THEN Append(@, None) ELSE @]
      BY <1>5 DEF SyncCommit
    <3>2. InBooks \subseteq InBooks'
      BY <2>1, <3>1, BooksGrow
    <3>. QED  BY <1>5, <3>2 DEF SyncCommit, Remains, Reported, Paid, external
  <2>3. JobsKnow'
    BY <1>5, <2>2, KnowEnds DEF SyncCommit
  <2>4. \A d \in Charge : row'[d].status = "paid" => row[d].status = "paid" \/ d \in Reported
    <3>1. PICK pdf : row' = [row EXCEPT ![c].status = IF j.write THEN j.status ELSE @,
                                        ![c].pdf = pdf]
      BY <1>5 DEF SyncCommit
    <3>2. row'[c].status = (IF j.write THEN j.status ELSE row[c].status)
          /\ \A d \in Charge : d # c => row'[d] = row[d]
      BY <2>1, <3>1 DEF KInv, IInv, Typing, RowsOK, Row
    <3>. QED  BY <2>1, <3>2
  <2>5. InboxKnows' /\ ProcessedPaymentIsSettled'
    BY <1>5, <2>2, InboxQuiet DEF SyncCommit, external
  <2>. QED  BY <2>2, <2>3, <2>4, <2>5, RowKnows DEF Knowledge
<1>. QED  BY <1>1, <1>2, <1>3, <1>4, <1>5 DEF Sync

LEMMA CheckKnows ==
  ASSUME KInv, NEW w \in Worker, CheckPaymentEvent(w) PROVE Knowledge'
<1> DEFINE j == job[w]
           seen == events[j.charge] # <<>>
           pc == IF j.pc = "sync_saved" THEN "sync_checked" ELSE "wh_checked"
           r == [j EXCEPT !.seen = seen, !.pc = pc]
<1>0. /\ j \in Job /\ Remembered(j) /\ Knows(j, Reported, InBooks, sent)
  BY Recall
<1>1. job' = [job EXCEPT ![w] = r]
  BY DEF CheckPaymentEvent
<1>2. /\ \/ j.pc = "sync_saved" /\ pc = "sync_checked"
         \/ j.pc = "wh_ready" /\ pc = "wh_checked" /\ j.sit \in Taken
      /\ j.charge \in Charge
  BY <1>0, PaidWord DEF CheckPaymentEvent, Remembered
<1>3. seen \in BOOLEAN /\ (seen => j.charge \in InBooks)
  BY <1>2 DEF InBooks
<1>. HIDE DEF seen, pc
<1>4. Knows(r, Reported, InBooks, sent)
  BY <1>0, <1>2, <1>3 DEF Job, Knows, InTx, Informed, Webhooks
<1>. QED  BY <1>1, <1>4, ReadKnows DEF CheckPaymentEvent

LEMMA OverdueKnows ==
  ASSUME KInv, NEW w \in Worker, Overdue(w) PROVE Knowledge'
<1>1. CASE OverdueRead(w)
  <2> DEFINE ids == {c \in pastDue : row[c].status \in {"pending", "registered"}}
             r == [Idle EXCEPT !.pc = "overdue_read", !.ids = ids]
  <2>1. Knows(r, Reported, InBooks, sent)
    BY DEF Idle, Knows, InTx, Informed, Webhooks
  <2>2. job' = [job EXCEPT ![w] = r]
    BY <1>1 DEF OverdueRead
  <2>. HIDE DEF r
  <2>. QED  BY <1>1, <2>1, <2>2, ReadKnows DEF OverdueRead
<1>2. CASE OverdueWrite(w)
  <2>1. ASSUME NEW c \in Charge, row'[c].status = "paid" PROVE row[c].status = "paid"
    <3>1. row[c] \in Row
      BY DEF KInv, IInv, Typing, RowsOK
    <3>2. row'[c] = (IF c \in job[w].ids THEN [row[c] EXCEPT !.status = "overdue"] ELSE row[c])
      BY <1>2 DEF OverdueWrite
    <3>. QED  BY <2>1, <3>1, <3>2 DEF Row
  <2>. QED  BY <1>2, <2>1, EndsKnowing DEF OverdueWrite
<1>. QED  BY <1>1, <1>2 DEF Overdue

LEMMA PdfKnows ==
  ASSUME KInv, NEW c \in Charge, EnsurePdf(c) PROVE Knowledge'
<1>1. Remains /\ Reported' = Reported /\ InBooks' = InBooks /\ sent' = sent
  BY RemainsUnchanged DEF EnsurePdf
<1>2. JobsKnow'
  BY <1>1 DEF EnsurePdf, KInv, Knowledge, JobsKnow
<1>3. PaidIsReportedByBank'
  <2>1. row' = [row EXCEPT ![c] = [row[c] EXCEPT !.pdf = row[c].ref]]
    BY DEF EnsurePdf
  <2>2. \A d \in Charge : row'[d].status = row[d].status
    BY <2>1 DEF KInv, IInv, Typing, RowsOK, Row
  <2>. QED  BY <1>1, <2>2, RowKnows
<1>4. InboxKnows' /\ ProcessedPaymentIsSettled'
  BY <1>1, InboxQuiet DEF EnsurePdf
<1>. QED  BY <1>2, <1>3, <1>4 DEF Knowledge

LEMMA LockChargeKnows ==
  ASSUME KInv, NEW w \in Worker, NEW n \in sent, NEW sit \in Kind,
         sit \in Taken => n.charge \in Reported, LockCharge(w, n, sit)
  PROVE  Knowledge'
<1> DEFINE c == n.charge
           pc == IF sit = "light" THEN "wh_enrich" ELSE "wh_ready"
           r == [Idle EXCEPT !.pc = pc, !.charge = c, !.note = n, !.sit = sit,
                             !.status = row[c].status, !.ref = row[c].ref]
<1>1. c \in Charge
  BY DEF KInv, IInv, Typing, BankOK, Note
<1>2. row[c].status = "paid" => c \in Reported
  BY <1>1 DEF KInv, Knowledge, PaidIsReportedByBank, Reported, Paid
<1>3. pc \in {"wh_enrich", "wh_ready"} /\ job' = [job EXCEPT ![w] = r]
  BY DEF LockCharge
<1>. HIDE DEF pc
<1>4. Knows(r, Reported, InBooks, sent)
  BY <1>2, <1>3 DEF Idle, Knows, InTx, Informed, Webhooks
<1>. QED  BY <1>3, <1>4, ReadKnows DEF LockCharge

\* A callback saved as failed keeps what its inbox row holds.
LEMMA FailedKnows ==
  ASSUME KInv, NEW w \in Worker, NEW n \in sent, Finish(w),
         inbox' = [inbox EXCEPT ![n].status = "failed"],
         UNCHANGED <<row, events, external>>
  PROVE  Knowledge'
<1> DEFINE v == [inbox[n] EXCEPT !.status = "failed"]
<1>1. Remains /\ sent' = sent
  BY RemainsUnchanged
<1>2. n \in Note /\ inbox[n] \in InboxRow
  BY DEF KInv, IInv, Typing, BankOK, InboxOK
<1>3. inbox' = [inbox EXCEPT ![n] = v] /\ v.status = "failed" /\ v.sit = inbox[n].sit
  BY <1>2 DEF InboxRow
<1>4. v.sit \in Taken => n.charge \in Reported
  BY <1>3 DEF KInv, Knowledge, InboxKnows
<1>. HIDE DEF v
<1>5. InboxKnows' /\ ProcessedPaymentIsSettled'
  BY <1>1, <1>3, <1>4, InboxWrite
<1>. QED  BY <1>1, <1>5, KnowEnds, RowKnows DEF Knowledge

\* What a handler that reaches its end saves in the charge and the inbox row.
LEMMA CommitKnows ==
  ASSUME KInv, NEW w \in Worker, job[w].pc \in Webhooks \ {"wh_enrich"},
         NEW status, NEW inboxStatus \in {"failed", "processed"},
         WebhookCommit(w, status, inboxStatus),
         InBooks \subseteq InBooks',
         status = "paid" => job[w].charge \in Reported,
         inboxStatus = "processed" /\ IsPayment(job[w].sit) => job[w].charge \in InBooks'
  PROVE  Knowledge'
<1> DEFINE j == job[w]
           n == j.note
           v == [status |-> inboxStatus, sit |-> j.sit]
<1>0. /\ j \in Job /\ Remembered(j) /\ Knows(j, Reported, InBooks, sent)
  BY Recall
<1>1. /\ n \in sent /\ j.charge \in Charge /\ n.charge = j.charge
      /\ j.sit \in Taken => j.charge \in Reported
  BY <1>0 DEF Knows, Remembered, Webhooks, Informed
<1>2. Remains /\ sent' = sent
  BY DEF WebhookCommit, external, Remains, Reported, Paid
<1>3. JobsKnow'
  BY <1>2, KnowEnds DEF WebhookCommit
<1>4. PaidIsReportedByBank'
  <2>1. row' = [row EXCEPT ![j.charge] = [row[j.charge] EXCEPT !.status = status]]
    BY DEF WebhookCommit
  <2>2. \A c \in Charge : row'[c].status = "paid" => row[c].status = "paid" \/ c \in Reported
    BY <1>1, <2>1 DEF KInv, IInv, Typing, RowsOK, Row
  <2>. QED  BY <1>2, <2>2, RowKnows
<1>5. InboxKnows' /\ ProcessedPaymentIsSettled'
  <2>1. inbox' = [inbox EXCEPT ![n] = v]
    BY DEF WebhookCommit
  <2>2. v.status = inboxStatus /\ v.sit = j.sit /\ v.status # "none"
    OBVIOUS
  <2>. HIDE DEF v
  <2>. QED  BY <1>1, <1>2, <2>1, <2>2, InboxWrite
<1>. QED  BY <1>3, <1>4, <1>5 DEF Knowledge

LEMMA WebhookKnows ==
  ASSUME KInv, NEW w \in Worker, Webhook(w) PROVE Knowledge'
<1> DEFINE j == job[w]
<1>0. /\ j \in Job /\ Remembered(j) /\ AboutIssued(j, bank)
      /\ Knows(j, Reported, InBooks, sent)
  BY Recall
<1>1. ASSUME NEW n \in Note, Ingest(w, n) PROVE Knowledge'
  <2>1. n \in sent /\ n.kind \in Kind /\ (n.kind \in Taken => n.charge \in Reported)
    BY <1>1 DEF Ingest, KInv, Knowledge, InboxKnows, Note
  <2>. QED  BY <1>1, <2>1, LockChargeKnows, FailedKnows DEF Ingest, Unmatched
<1>2. ASSUME NEW n \in Note, ReprocessLoad(w, n) PROVE Knowledge'
  <2> DEFINE r == [Idle EXCEPT !.pc = "rp_loaded", !.note = n, !.sit = inbox[n].sit]
  <2>1. n \in sent /\ (inbox[n].sit \in Taken => n.charge \in Reported)
    BY <1>2 DEF ReprocessLoad, KInv, Knowledge, InboxKnows
  <2>2. Knows(r, Reported, InBooks, sent)
    BY <2>1 DEF Idle, Knows, InTx, Informed, Webhooks
  <2>. QED  BY <1>2, <2>2, ReadKnows DEF ReprocessLoad
<1>3. CASE Reprocess(w)
  <2>1. /\ j.note \in sent /\ j.sit \in Kind
        /\ j.sit \in Taken => j.note.charge \in Reported
    BY <1>0, <1>3 DEF Reprocess, Knows, Job
  <2>. QED  BY <1>3, <2>1, LockChargeKnows, FailedKnows DEF Reprocess, Unmatched
<1>4. CASE WebhookEnrich(w)
  <2> DEFINE ref == IF j.ref = None THEN j.note.slip ELSE j.ref
             sit == bank[j.charge][ref]
             new == Apply(j.status, Consulted(sit))
             r == [j EXCEPT !.pc = "wh_ready", !.sit = sit, !.status = new]
  <2>1. /\ j.pc = "wh_enrich" /\ j.charge \in Charge /\ j.note \in Note
        /\ j.note # None /\ j.note.charge = j.charge
    BY <1>0, <1>4, NoteAssumption DEF WebhookEnrich, Remembered, Webhooks
  <2>2. ref \in Slip /\ sit # "unissued"
    <3>1. CASE j.ref = None
      BY <1>0, <2>1, <3>1 DEF AboutIssued, Note
    <3>2. CASE j.ref # None
      BY <1>0, <2>1, <3>2, NoneAssumption DEF AboutIssued, Job
    <3>. QED  BY <3>1, <3>2
  <2>3. sit \in Situation /\ (sit \in Taken => j.charge \in Reported)
    BY <2>1, <2>2, Answer
  <2>4. new = "paid" => j.charge \in Reported
    BY <1>0, <2>1, <2>3, PaidWord DEF Knows, InTx
  <2>5. job' = [job EXCEPT ![w] = r]
    BY <1>4 DEF WebhookEnrich
  <2>. HIDE DEF sit, new
  <2>6. Knows(r, Reported, InBooks, sent)
    BY <1>0, <2>1, <2>3, <2>4 DEF Job, Knows, InTx, Informed, Webhooks
  <2>. QED  BY <1>4, <2>5, <2>6, ReadKnows DEF WebhookEnrich
<1>5. CASE WebhookEnrichFails(w)
  <2>1. j.note \in sent
    BY <1>0, <1>5 DEF WebhookEnrichFails, Knows, Webhooks
  <2>. QED  BY <1>5, <2>1, FailedKnows DEF WebhookEnrichFails
<1>6. CASE WebhookLifecycle(w)
  <2> DEFINE status == Apply(j.status, HubStatus[j.sit])
  <2>1. j.pc = "wh_ready" /\ ~IsPayment(j.sit) /\ j.sit \in Situation
    BY <1>0, <1>6 DEF WebhookLifecycle, Remembered
  <2>2. status = "paid" => j.charge \in Reported
    BY <1>0, <2>1, PaidWord DEF Knows, InTx
  <2>3. WebhookCommit(w, status, "processed") /\ UNCHANGED events
    BY <1>6 DEF WebhookLifecycle
  <2>. HIDE DEF status
  <2>4. InBooks \subseteq InBooks'
    BY <2>3 DEF InBooks
  <2>. QED  BY <2>1, <2>2, <2>3, <2>4, CommitKnows DEF Webhooks
<1>7. CASE WebhookAmountMismatch(w)
  <2>1. j.pc = "wh_ready" /\ (j.status = "paid" => j.charge \in Reported)
    BY <1>0, <1>7 DEF WebhookAmountMismatch, Knows, InTx
  <2>2. WebhookCommit(w, j.status, "failed") /\ InBooks \subseteq InBooks'
    BY <1>7 DEF WebhookAmountMismatch, InBooks
  <2>. QED  BY <2>1, <2>2, CommitKnows DEF Webhooks
<1>8. CASE WebhookPay(w)
  <2> DEFINE settles == ~j.seen
  <2>1. /\ j.pc = "wh_checked" /\ j.charge \in Charge /\ j.seen \in BOOLEAN /\ j.note \in Note
        /\ j.charge \in Reported /\ (j.seen => j.charge \in InBooks)
    BY <1>0, <1>8 DEF WebhookPay, Remembered, Knows, Informed, Received, Job, Webhooks
  <2>2. events' = [events EXCEPT ![j.charge] = IF settles THEN Append(@, j.note) ELSE @]
    BY <1>8 DEF WebhookPay
  <2>3. InBooks \subseteq InBooks' /\ (settles => j.charge \in InBooks')
    <3>1. settles \in BOOLEAN
      OBVIOUS
    <3>. HIDE DEF settles
    <3>. QED  BY <2>1, <2>2, <3>1, BooksGrow
  <2>4. WebhookCommit(w, "paid", "processed")
    BY <1>8 DEF WebhookPay
  <2>. QED  BY <2>1, <2>3, <2>4, CommitKnows DEF Webhooks
<1>. QED  BY <1>1, <1>2, <1>3, <1>4, <1>5, <1>6, <1>7, <1>8 DEF Webhook

LEMMA KnowledgeStep == KInv /\ [Next]_vars => Knowledge'
<1> SUFFICES ASSUME KInv, [Next]_vars PROVE Knowledge'
  OBVIOUS
<1>1. CASE UNCHANGED vars
  BY <1>1 DEF vars, external, KInv, Knowledge, JobsKnow, InboxKnows, Reported, Paid, InBooks,
              PaidIsReportedByBank, ProcessedPaymentIsSettled
<1>2. CASE Environment
  BY <1>2, EnvironmentKnows
<1>3. ASSUME NEW c \in Charge, EnsurePdf(c) PROVE Knowledge'
  BY <1>3, PdfKnows
<1>4. ASSUME NEW w \in Worker, Crash(w) PROVE Knowledge'
  BY <1>4, EndsKnowing DEF Crash
<1>5. ASSUME NEW w \in Worker,
             Issue(w) \/ Cancel(w) \/ Sync(w) \/ Overdue(w) \/ Webhook(w)
               \/ CheckPaymentEvent(w)
      PROVE  Knowledge'
  BY <1>5, IssueKnows, CancelKnows, SyncKnows, OverdueKnows, WebhookKnows, CheckKnows
<1>. QED  BY <1>1, <1>2, <1>3, <1>4, <1>5 DEF Next, WorkerStep

LEMMA KnowledgeInvariant == Spec => []KInv
<1>1. Init => Knowledge
  BY KnowledgeInit
<1>2. KInv /\ [Next]_vars => Knowledge'
  BY KnowledgeStep
<1>3. Spec => []IInv
  BY Inductive
<1>. QED  BY <1>1, <1>2, <1>3, PTL DEF Spec, KInv

\* The Hub does not make a payment up: a charge that reads paid has a slip that the
\* bank has received, or that was in protest, a word the Hub takes for a payment
\* (services.py:838), however late or doubled callbacks and answers arrive.
THEOREM NoInventedPayment == Spec => []PaidIsReportedByBank
<1>1. KInv => PaidIsReportedByBank
  BY DEF KInv, Knowledge
<1>. QED  BY <1>1, KnowledgeInvariant, PTL

\* An acknowledged payment callback is not lost: its charge has an event, which
\* no later write, crash or refusal takes away.
THEOREM NoLostPayment == Spec => []ProcessedPaymentIsSettled
<1>1. KInv => ProcessedPaymentIsSettled
  BY DEF KInv, Knowledge
<1>. QED  BY <1>1, KnowledgeInvariant, PTL

-----------------------------------------------------------------------------
(* 4. Billing implements Settlement *)

\* The abstract variables: the values Promise gives to received, settlements
\* and acknowledged.
Acknowledged ==
  {c \in Charge : \E n \in Note :
     n.charge = c /\ inbox[n].status = "processed" /\ IsPayment(inbox[n].sit)}

Settlements == [c \in Charge |-> Len(events[c])]

\* The abstract actions, in those words.
LEMMA PromiseInit ==
  Paid = {} /\ protested = {} /\ Settlements = [c \in Charge |-> 0] /\ Acknowledged = {} => Promise!Init
  BY DEF Promise!Init, Paid, Settlements, Acknowledged

LEMMA PromiseStutter ==
  UNCHANGED <<Paid, protested, Settlements, Acknowledged>> => UNCHANGED Promise!vars
  BY DEF Promise!vars, Paid, Settlements, Acknowledged

LEMMA PromiseReceive ==
  ASSUME NEW c \in Charge, Paid' = Paid \cup {c},
         UNCHANGED <<protested, Settlements, Acknowledged>>
  PROVE  Promise!Next
<1>1. Promise!Receive(c)
  BY DEF Promise!Receive, Settlements, Acknowledged
<1>. QED  BY <1>1 DEF Promise!Next

LEMMA PromiseReport ==
  ASSUME NEW c \in Charge, protested' = protested \cup {c},
         UNCHANGED <<Paid, Settlements, Acknowledged>>
  PROVE  Promise!Next
<1>1. Promise!Report(c)
  BY DEF Promise!Report, Settlements, Acknowledged
<1>. QED  BY <1>1 DEF Promise!Next

LEMMA PromiseSettle ==
  ASSUME NEW c \in Charge, c \in Reported, Settlements[c] = 0, UNCHANGED <<Paid, protested>>,
         Settlements' = [Settlements EXCEPT ![c] = 1],
         Acknowledged' \in {Acknowledged, Acknowledged \cup {c}}
  PROVE  Promise!Next
<1>1. Promise!Settle(c)
  BY DEF Promise!Settle, Reported, Settlements, Acknowledged
<1>. QED  BY <1>1 DEF Promise!Next

LEMMA PromiseAcknowledge ==
  ASSUME NEW c \in Charge, Settlements[c] = 1, UNCHANGED <<Paid, protested, Settlements>>,
         Acknowledged' = Acknowledged \cup {c}
  PROVE  Promise!Next
<1>1. Promise!Acknowledge(c)
  BY DEF Promise!Acknowledge, Paid, Settlements, Acknowledged
<1>. QED  BY <1>1 DEF Promise!Next

LEMMA PromiseWithdraw ==
  ASSUME NEW c \in Charge, UNCHANGED <<Paid, protested, Settlements>>,
         Acknowledged' = Acknowledged \ {c}
  PROVE  Promise!Next
<1>1. Promise!Withdraw(c)
  BY DEF Promise!Withdraw, Paid, Settlements, Acknowledged
<1>. QED  BY <1>1 DEF Promise!Next

-----------------------------------------------------------------------------
(* Each step of Billing, seen from Settlement *)

\* Handlers that only read, or write neither books nor inbox.
LEMMA QuietStep ==
  UNCHANGED <<Paid, protested, events, inbox>> => UNCHANGED Promise!vars
  BY PromiseStutter DEF Settlements, Acknowledged

\* The inbox row of a callback is written.
LEMMA AcknowledgedAfter ==
  ASSUME KInv, NEW n \in sent, NEW v, inbox' = [inbox EXCEPT ![n] = v]
  PROVE  /\ n.charge \in Charge
         /\ v.status = "processed" /\ IsPayment(v.sit) =>
              Acknowledged' = Acknowledged \cup {n.charge}
         /\ ~(v.status = "processed" /\ IsPayment(v.sit)) =>
              Acknowledged' \in {Acknowledged, Acknowledged \ {n.charge}}
<1> DEFINE Ack(box, c) == \E m \in Note : /\ m.charge = c /\ box[m].status = "processed"
                                          /\ IsPayment(box[m].sit)
<1>1. /\ n \in Note /\ n.charge \in Charge /\ inbox'[n] = v
      /\ \A m \in Note : m # n => inbox'[m] = inbox[m]
  BY DEF KInv, IInv, Typing, BankOK, InboxOK, Note
<1>2. \A c : c \in Acknowledged <=> c \in Charge /\ Ack(inbox, c)
  BY DEF Acknowledged
<1>3. \A c : c \in Acknowledged' <=> c \in Charge /\ Ack(inbox', c)
  BY DEF Acknowledged
<1>4. \A c \in Charge : c # n.charge => (Ack(inbox, c) <=> Ack(inbox', c))
  BY <1>1
<1>5. ASSUME v.status = "processed", IsPayment(v.sit) PROVE Ack(inbox', n.charge)
  BY <1>1, <1>5
<1>6. ASSUME ~(v.status = "processed" /\ IsPayment(v.sit)), Ack(inbox', n.charge)
      PROVE  Ack(inbox, n.charge)
  BY <1>1, <1>6
<1>. HIDE DEF Ack
<1>7. ASSUME v.status = "processed", IsPayment(v.sit)
      PROVE  Acknowledged' = Acknowledged \cup {n.charge}
  BY <1>1, <1>2, <1>3, <1>4, <1>5, <1>7
<1>8. ASSUME ~(v.status = "processed" /\ IsPayment(v.sit))
      PROVE  Acknowledged' \in {Acknowledged, Acknowledged \ {n.charge}}
  <2>1. CASE Ack(inbox', n.charge)
    BY <1>1, <1>2, <1>3, <1>4, <1>6, <1>8, <2>1
  <2>2. CASE ~Ack(inbox', n.charge)
    <3>1. Acknowledged' = Acknowledged \ {n.charge}
      BY <1>1, <1>2, <1>3, <1>4, <2>2
    <3>. QED  BY <3>1
  <2>. QED  BY <2>1, <2>2
<1>. QED  BY <1>1, <1>7, <1>8

\* A handler gives up on a callback, or it was about no payment.
LEMMA WithdrawStep ==
  ASSUME KInv, NEW n \in sent, NEW v, inbox' = [inbox EXCEPT ![n] = v],
         ~(v.status = "processed" /\ IsPayment(v.sit)), UNCHANGED <<events, external>>
  PROVE  [Promise!Next]_(Promise!vars)
<1>1. UNCHANGED <<Paid, protested, Settlements>>
  BY DEF Paid, Settlements, external
<1>2. n.charge \in Charge /\ Acknowledged' \in {Acknowledged, Acknowledged \ {n.charge}}
  BY AcknowledgedAfter
<1>3. CASE Acknowledged' = Acknowledged
  BY <1>1, <1>3, PromiseStutter
<1>4. CASE Acknowledged' = Acknowledged \ {n.charge}
  BY <1>1, <1>2, <1>4, PromiseWithdraw
<1>. QED  BY <1>2, <1>3, <1>4

\* The event of a payment is written: it was received, and it is the first.
LEMMA SettleBooks ==
  ASSUME KInv, NEW c \in Charge, NEW e \in Note \cup {None}, events[c] = <<>>,
         events' = [events EXCEPT ![c] = Append(@, e)]
  PROVE  /\ Settlements[c] = 0
         /\ Settlements' = [Settlements EXCEPT ![c] = 1]
<1>1. events \in [Charge -> Seq(Note \cup {None})]
  BY DEF KInv, IInv, Typing, BooksOK
<1>2. Len(events[c]) = 0 /\ Len(Append(events[c], e)) = 1
  BY <1>1
<1>3. \A d \in Charge : Len(events'[d]) = IF d = c THEN 1 ELSE Len(events[d])
  BY <1>1, <1>2
<1>. QED  BY <1>2, <1>3 DEF Settlements

\* The bank receives a payment, or something else happens to a slip.
LEMMA BankStep ==
  ASSUME KInv, NEW c \in Charge, NEW s \in Slip, BankAdvance(c, s)
  PROVE  [Promise!Next]_(Promise!vars)
<1>1. PICK new \in NextSituation[bank[c][s]] : bank' = [bank EXCEPT ![c][s] = new]
  BY DEF BankAdvance
<1>2. /\ bank'[c][s] = new
      /\ \A d \in Charge, t \in Slip : d # c \/ t # s => bank'[d][t] = bank[d][t]
      /\ bank[c][s] \notin Received
  <2>1. bank[c][s] \in Situation \cup {"unissued"}
    BY DEF KInv, IInv, Typing, BankOK
  <2>2. bank[c][s] \notin Received
    BY <2>1, <1>1 DEF NextSituation, Received, Situation
  <2>. QED  BY <1>1, <2>2 DEF KInv, IInv, Typing, BankOK
<1>3. UNCHANGED <<Settlements, Acknowledged>>
  BY DEF BankAdvance, Settlements, Acknowledged
<1>4. CASE new \in Received
  <2>1. Paid' = Paid \cup {c}
    BY <1>2, <1>4 DEF Paid
  <2>2. protested' = protested
    BY <1>2, <1>4 DEF BankAdvance, Received
  <2>. QED  BY <1>3, <2>1, <2>2, PromiseReceive
<1>5. CASE new \notin Received
  <2>1. Paid' = Paid
    <3>1. \A d \in Charge, t \in Slip : bank'[d][t] \in Received <=> bank[d][t] \in Received
      BY <1>2, <1>5
    <3>. QED  BY <3>1 DEF Paid
  <2>2. protested' = protested \/ protested' = protested \cup {c}
    BY DEF BankAdvance
  <2>. QED  BY <1>3, <2>1, <2>2, PromiseStutter, PromiseReport
<1>. QED  BY <1>4, <1>5

\* A sync settles a charge, or not.
LEMMA SyncCommitStep ==
  ASSUME KInv, NEW w \in Worker, SyncCommit(w)
  PROVE  [Promise!Next]_(Promise!vars)
<1> DEFINE j == job[w]
           c == j.charge
           settles == j.status = "paid" /\ ~j.seen
<1>1. /\ c \in Charge /\ (settles => c \in Reported)
      /\ settles => events[c] = <<>>
  BY Recall DEF SyncCommit, Remembered, Knows, InTx, KInv, IInv, Discipline, CheckIsFresh, Checked
<1>2. UNCHANGED <<Paid, protested, Acknowledged>>
  BY DEF SyncCommit, external, Paid, Acknowledged
<1>3. CASE settles
  <2>1. events' = [events EXCEPT ![c] = Append(@, None)]
    BY <1>3 DEF SyncCommit
  <2>2. Settlements[c] = 0 /\ Settlements' = [Settlements EXCEPT ![c] = 1]
    BY <1>1, <1>3, <2>1, SettleBooks
  <2>. QED  BY <1>1, <1>2, <1>3, <2>2, PromiseSettle
<1>4. CASE ~settles
  <2>1. events' = events
    BY <1>4 DEF SyncCommit, KInv, IInv, Typing, BooksOK
  <2>. QED  BY <1>2, <2>1, PromiseStutter DEF Settlements
<1>. QED  BY <1>3, <1>4

\* A payment callback settles its charge, or finds it settled.
LEMMA WebhookPayStep ==
  ASSUME KInv, NEW w \in Worker, WebhookPay(w)
  PROVE  [Promise!Next]_(Promise!vars)
<1> DEFINE j == job[w]
           c == j.charge
           n == j.note
           v == [status |-> "processed", sit |-> j.sit]
<1>1. /\ j.pc = "wh_checked" /\ c \in Charge /\ n \in Note /\ n \in sent
      /\ n.charge = c /\ IsPayment(j.sit) /\ c \in Reported
      /\ j.seen \in BOOLEAN /\ (j.seen => c \in InBooks)
  BY Recall, PaidWord DEF WebhookPay, Remembered, Webhooks, Knows, Informed, Job
<1>2. ~j.seen => events[c] = <<>>
  BY <1>1 DEF KInv, IInv, Discipline, CheckIsFresh, Checked
<1>3. UNCHANGED <<Paid, protested>>
  BY DEF WebhookPay, WebhookCommit, external, Paid
<1>4. Acknowledged' = Acknowledged \cup {c}
  <2>1. inbox' = [inbox EXCEPT ![n] = v]
    BY DEF WebhookPay, WebhookCommit
  <2>2. v.status = "processed" /\ IsPayment(v.sit)
    BY <1>1
  <2>. HIDE DEF v
  <2>. QED  BY <1>1, <2>1, <2>2, AcknowledgedAfter
<1>5. CASE ~j.seen
  <2>1. events' = [events EXCEPT ![c] = Append(@, n)]
    BY <1>5 DEF WebhookPay
  <2>2. Settlements[c] = 0 /\ Settlements' = [Settlements EXCEPT ![c] = 1]
    BY <1>1, <1>2, <1>5, <2>1, SettleBooks
  <2>. QED  BY <1>1, <1>3, <1>4, <2>2, PromiseSettle
<1>6. CASE j.seen
  <2>1. events' = events
    BY <1>6 DEF WebhookPay, KInv, IInv, Typing, BooksOK
  <2>2. Settlements[c] = 1
    <3>1. events[c] \in Seq(Note \cup {None}) /\ events[c] # <<>>
      BY <1>1, <1>6 DEF InBooks, KInv, IInv, Typing, BooksOK
    <3>2. Len(events[c]) \in Nat \ {0}
      BY <3>1, EmptySeq, Zenon
    <3>3. Len(events[c]) <= 1
      BY <1>1 DEF KInv, IInv, Discipline, AtMostOnePaymentEvent
    <3>4. \A k \in Nat \ {0} : k <= 1 => k = 1
      OBVIOUS
    <3>5. Len(events[c]) = 1
      BY <3>2, <3>3, <3>4, Zenon
    <3>. QED  BY <1>1, <3>5 DEF Settlements
  <2>3. Settlements' = Settlements
    BY <2>1 DEF Settlements
  <2>. QED  BY <1>1, <1>3, <1>4, <2>2, <2>3, PromiseAcknowledge
<1>. QED  BY <1>1, <1>5, <1>6

LEMMA WebhookStep ==
  ASSUME KInv, NEW w \in Worker, Webhook(w)
  PROVE  [Promise!Next]_(Promise!vars)
<1> DEFINE j == job[w]
<1>0. j \in Job /\ Remembered(j) /\ Knows(j, Reported, InBooks, sent)
  BY Recall
<1>1. ASSUME NEW n \in sent, Unmatched(w, n) PROVE [Promise!Next]_(Promise!vars)
  <2> DEFINE v == [inbox[n] EXCEPT !.status = "failed"]
  <2>1. inbox[n] \in InboxRow
    BY DEF KInv, IInv, Typing, BankOK, InboxOK
  <2>2. inbox' = [inbox EXCEPT ![n] = v] /\ v.status = "failed"
    BY <1>1, <2>1 DEF Unmatched, InboxRow
  <2>. HIDE DEF v
  <2>. QED  BY <1>1, <2>2, WithdrawStep DEF Unmatched
<1>2. ASSUME NEW n, NEW sit, LockCharge(w, n, sit) PROVE [Promise!Next]_(Promise!vars)
  BY <1>2, QuietStep DEF LockCharge, external, Paid
<1>3. ASSUME NEW n \in Note, Ingest(w, n) PROVE [Promise!Next]_(Promise!vars)
  BY <1>1, <1>2, <1>3 DEF Ingest
<1>4. ASSUME NEW n \in Note, ReprocessLoad(w, n) PROVE [Promise!Next]_(Promise!vars)
  BY <1>4, QuietStep DEF ReprocessLoad, external, Paid
<1>5. CASE Reprocess(w)
  <2>1. j.note \in sent
    BY <1>0, <1>5 DEF Reprocess, Knows
  <2>. QED  BY <1>1, <1>2, <1>5, <2>1 DEF Reprocess
<1>6. CASE WebhookEnrich(w)
  BY <1>6, QuietStep DEF WebhookEnrich, external, Paid
<1>7. CASE WebhookEnrichFails(w)
  <2> DEFINE n == j.note
             v == [inbox[n] EXCEPT !.status = "failed"]
  <2>1. n \in sent
    BY <1>0, <1>7 DEF WebhookEnrichFails, Knows, Webhooks
  <2>2. inbox[n] \in InboxRow
    BY <2>1 DEF KInv, IInv, Typing, BankOK, InboxOK
  <2>3. inbox' = [inbox EXCEPT ![n] = v] /\ v.status = "failed"
    BY <1>7, <2>2 DEF WebhookEnrichFails, InboxRow
  <2>. HIDE DEF v
  <2>. QED  BY <1>7, <2>1, <2>3, WithdrawStep DEF WebhookEnrichFails
<1>8. ASSUME NEW status, NEW inboxStatus, WebhookCommit(w, status, inboxStatus),
             j.pc = "wh_ready", UNCHANGED events,
             inboxStatus = "failed" \/ ~IsPayment(j.sit)
      PROVE  [Promise!Next]_(Promise!vars)
  <2> DEFINE n == j.note
             v == [status |-> inboxStatus, sit |-> j.sit]
  <2>1. n \in sent
    BY <1>0, <1>8 DEF Knows, Webhooks
  <2>2. inbox' = [inbox EXCEPT ![n] = v] /\ ~(v.status = "processed" /\ IsPayment(v.sit))
    BY <1>8 DEF WebhookCommit
  <2>. HIDE DEF v
  <2>. QED  BY <1>8, <2>1, <2>2, WithdrawStep DEF WebhookCommit
<1>9. CASE WebhookLifecycle(w)
  BY <1>8, <1>9 DEF WebhookLifecycle
<1>10. CASE WebhookAmountMismatch(w)
  BY <1>8, <1>10 DEF WebhookAmountMismatch
<1>11. CASE WebhookPay(w)
  BY <1>11, WebhookPayStep
<1>. QED  BY <1>3, <1>4, <1>5, <1>6, <1>7, <1>9, <1>10, <1>11 DEF Webhook

LEMMA PromiseStep == KInv /\ [Next]_vars => [Promise!Next]_(Promise!vars)
<1> SUFFICES ASSUME KInv, [Next]_vars PROVE [Promise!Next]_(Promise!vars)
  OBVIOUS
<1>1. CASE UNCHANGED vars
  BY <1>1, QuietStep DEF vars, external, Paid
<1>2. CASE Environment
  <2>1. ASSUME NEW c \in Charge, DueDatePasses(c) PROVE [Promise!Next]_(Promise!vars)
    BY <2>1, QuietStep DEF DueDatePasses, Paid
  <2>. QED  BY <1>2, <2>1, BankStep DEF Environment
<1>3. ASSUME NEW c \in Charge, EnsurePdf(c) PROVE [Promise!Next]_(Promise!vars)
  BY <1>3, QuietStep DEF EnsurePdf, external, Paid
<1>4. ASSUME NEW w \in Worker, Issue(w) PROVE [Promise!Next]_(Promise!vars)
  <2>1. UNCHANGED <<Paid, protested>>
    BY <1>4, HandlersKeepBank
    DEF Issue, CreateBegin, EmitLoad, EmitRefused, EmitSave, RegisterEnrich, RegisterCommit,
        external, Paid
  <2>2. UNCHANGED <<events, inbox>>
    BY <1>4 DEF Issue, CreateBegin, EmitLoad, Register, EmitRefused, EmitSave, RegisterFails,
                RegisterEnrich, RegisterCommit
  <2>. QED  BY <2>1, <2>2, QuietStep
<1>5. ASSUME NEW w \in Worker, Cancel(w) PROVE [Promise!Next]_(Promise!vars)
  <2>1. UNCHANGED <<Paid, protested>>
    BY <1>5, HandlersKeepBank DEF Cancel, CancelLoad, CancelRefused, CancelSave, external, Paid
  <2>2. UNCHANGED <<events, inbox>>
    BY <1>5 DEF Cancel, CancelLoad, CancelAtBank, CancelRefused, CancelSave
  <2>. QED  BY <2>1, <2>2, QuietStep
<1>6. ASSUME NEW w \in Worker, Sync(w) PROVE [Promise!Next]_(Promise!vars)
  <2>1. CASE SyncCommit(w)
    BY <2>1, SyncCommitStep
  <2>2. CASE ~SyncCommit(w)
    BY <1>6, <2>2, QuietStep DEF Sync, SyncLoad, SyncConsult, SyncConsultFails, SyncSave,
                                 external, Paid
  <2>. QED  BY <2>1, <2>2
<1>7. ASSUME NEW w \in Worker, Overdue(w) \/ CheckPaymentEvent(w) \/ Crash(w)
      PROVE  [Promise!Next]_(Promise!vars)
  BY <1>7, QuietStep DEF Overdue, OverdueRead, OverdueWrite, CheckPaymentEvent, Crash,
                         external, Paid
<1>8. ASSUME NEW w \in Worker, Webhook(w) PROVE [Promise!Next]_(Promise!vars)
  BY <1>8, WebhookStep
<1>. QED  BY <1>1, <1>2, <1>3, <1>4, <1>5, <1>6, <1>7, <1>8 DEF Next, WorkerStep

\* Billing implements Settlement: whatever interleaving of requests, beat job,
\* callbacks and crashes, a charge is settled once, only after the bank received a
\* payment for it or had it in protest, and acknowledged only when settled.
THEOREM Implements == Spec => KeepsPromise
<1>1. Init => Promise!Init
  <2> SUFFICES ASSUME Init PROVE Promise!Init
    OBVIOUS
  <2>1. Paid = {} /\ protested = {}
    BY DEF Init, Paid, Received
  <2>2. Settlements = [c \in Charge |-> 0]
    BY DEF Init, Settlements
  <2>3. Acknowledged = {}
    BY DEF Init, Acknowledged
  <2>. QED  BY <2>1, <2>2, <2>3, PromiseInit
<1>2. KInv /\ [Next]_vars => [Promise!Next]_(Promise!vars)
  BY PromiseStep
<1>. QED  BY <1>1, <1>2, KnowledgeInvariant, PTL DEF Spec, KeepsPromise, Promise!Spec

-----------------------------------------------------------------------------
(* 5. A cancelled charge is a cancellation accepted or a slip that has ended *)

\* What the theorem needs.  Without the first part a charge that had no slip when
\* cancel_charge loaded it may get one from emit_pending_charge before it is saved
\* as cancelled.  Without the second, a charge whose first slip was issued though
\* the answer was lost is created again with another, and the callback that cancels
\* the first finds it by its external_reference.
KeepsItsSlip ==
  /\ "emit" \notin Jobs
  /\ "cancelado" \notin Callbacks \/ \A s, t \in Slip : s = t

\* Slips that will never be payable or whose cancellation the bank has accepted,
\* rows that are there, the slip of each, and charges whose slip, also one they
\* may yet get, is one of the first.
Final == Received \cup {"cancelado", "falha_emissao"}
Ended == {p \in Charge \X Slip : bank[p[1]][p[2]] \in Final \/ p \in accepted}
Made == {c \in Charge : row[c].status # "absent"}
Refs == {p \in Charge \X (Slip \cup {None}) : p[1] \in Made /\ row[p[1]].ref = p[2]}
Closed ==
  {c \in Charge : /\ \A s \in Slip : row[c].ref = s => <<c, s>> \in Ended
                  /\ c \notin Made => \A s \in Slip : <<c, s>> \in Ended}

\* Program points of a registration, and of a worker that has read the charge.
Registering == {"register", "registered"}
Reading == Webhooks \cup {"sync_loaded", "sync_answered", "sync_saved", "sync_checked"}

\* What a worker remembers of a charge is still its slip, and what it remembers
\* of a cancellation has ended it.
Follows(j, made, refs, ended, closed) ==
  /\ j.pc = "registered" /\ j.status = "cancelled" => <<j.charge, j.ref>> \in ended
  /\ j.pc \in Reading \cup Canceling => <<j.charge, j.ref>> \in refs
  /\ j.pc \in Reading /\ j.status = "cancelled" => j.charge \in closed
  /\ j.pc \in Informed /\ j.sit = "cancelado" => j.charge \in closed
  /\ j.pc = "cancel_at_bank" => j.charge \in closed
  /\ j.pc = "rp_loaded" /\ j.sit = "cancelado" => j.note.charge \in closed
  /\ j.pc = "overdue_read" => j.ids \subseteq made
  /\ j.pc # "emit_loaded"

JobsFollow == \A w \in Worker : Follows(job[w], Made, Refs, Ended, Closed)

\* The row of a charge is not there while a request registers it.
NotYetMade == \A w \in Worker : job[w].pc \in Registering => job[w].charge \notin Made

InboxFollows == \A n \in sent : inbox[n].sit = "cancelado" => n.charge \in Closed

CancelledIsClosed == \A c \in Charge : row[c].status = "cancelled" => c \in Closed

Cancellation == JobsFollow /\ NotYetMade /\ InboxFollows /\ CancelledIsClosed

CInv == KInv /\ Cancellation

-----------------------------------------------------------------------------
(* What a step never takes back of a cancellation, and lemmas on single writes *)

Stays == Made \subseteq Made' /\ Refs \subseteq Refs' /\ Ended \subseteq Ended' /\ Closed \subseteq Closed'

\* A row is not deleted, and keeps its slip.
RowsStay ==
  \A c \in Charge :
    row[c].status # "absent" => row'[c].status # "absent" /\ row'[c].ref = row[c].ref

LEMMA ItStays ==
  ASSUME KInv, KInv', RowsStay, Ended \subseteq Ended'
  PROVE  Stays
<1>1. \A c \in Charge : row'[c].ref \in Slip \cup {None} /\ row[c].ref \in Slip \cup {None}
  BY DEF KInv, IInv, Typing, RowsOK, Row
<1>2. Made \subseteq Made'
  BY DEF RowsStay, Made
<1>3. Refs \subseteq Refs'
  BY <1>2 DEF RowsStay, Made, Refs
<1>4. ASSUME NEW c \in Closed PROVE c \in Closed'
  <2>1. CASE c \in Made
    <3>1. c \in Made' /\ row'[c].ref = row[c].ref
      BY <1>2, <2>1 DEF RowsStay, Made
    <3>. QED  BY <1>4, <3>1 DEF Closed
  <2>2. CASE c \notin Made
    <3>1. \A s \in Slip : <<c, s>> \in Ended'
      BY <1>4, <2>2 DEF Closed
    <3>. QED  BY <1>4, <3>1 DEF Closed
  <2>. QED  BY <2>1, <2>2
<1>. QED  BY <1>2, <1>3, <1>4 DEF Stays

LEMMA FollowsStill ==
  ASSUME NEW j, NEW m, NEW r, NEW e, NEW x, NEW m2, NEW r2, NEW e2, NEW x2,
         m \subseteq m2, r \subseteq r2, e \subseteq e2, x \subseteq x2,
         Follows(j, m, r, e, x)
  PROVE  Follows(j, m2, r2, e2, x2)
  BY DEF Follows

LEMMA IdleFollows ==
  /\ \A m, r, e, x : Follows(Idle, m, r, e, x)
  /\ Idle.pc \notin Registering
  BY DEF Follows, Idle, Reading, Webhooks, Canceling, Informed, Registering

LEMMA FollowWrite ==
  ASSUME CInv, Stays, NEW w \in Worker, NEW r, job' = [job EXCEPT ![w] = r],
         Follows(r, Made', Refs', Ended', Closed')
  PROVE  JobsFollow'
<1>1. ASSUME NEW v \in Worker PROVE Follows(job'[v], Made', Refs', Ended', Closed')
  <2>1. CASE v = w
    BY <2>1 DEF CInv, KInv, IInv, Typing, JobsOK
  <2>2. CASE v # w
    <3>1. job'[v] = job[v] /\ Follows(job[v], Made, Refs, Ended, Closed)
      BY <2>2 DEF CInv, KInv, IInv, Typing, JobsOK, Cancellation, JobsFollow
    <3>. QED  BY <3>1, FollowsStill DEF Stays
  <2>. QED  BY <2>1, <2>2
<1>. QED  BY <1>1 DEF JobsFollow

\* Only the holder of its lock makes the row of a charge.
LEMMA NotYetWrite ==
  ASSUME CInv, NEW w \in Worker, NEW r, job' = [job EXCEPT ![w] = r],
         \A c \in Made' : c \in Made \/ (job[w].pc \in InTx /\ c = job[w].charge),
         r.pc \in Registering => r.charge \notin Made'
  PROVE  NotYetMade'
<1>1. ASSUME NEW v \in Worker, job'[v].pc \in Registering PROVE job'[v].charge \notin Made'
  <2>1. CASE v = w
    BY <1>1, <2>1 DEF CInv, KInv, IInv, Typing, JobsOK
  <2>2. CASE v # w
    <3>1. job'[v] = job[v] /\ job[v].pc \in InTx /\ job[v].charge \notin Made
      BY <1>1, <2>2 DEF CInv, KInv, IInv, Typing, JobsOK, Cancellation, NotYetMade,
         Registering, InTx
    <3>2. lock[job[v].charge] = v
      BY <3>1 DEF CInv, KInv, IInv, Discipline, LockDiscipline
    <3>3. ~(job[w].pc \in InTx /\ job[v].charge = job[w].charge)
      BY <2>2, <3>2 DEF CInv, KInv, IInv, Discipline, LockDiscipline
    <3>. QED  BY <3>1, <3>3
  <2>. QED  BY <2>1, <2>2
<1>. QED  BY <1>1 DEF NotYetMade

\* A worker only changes its memory, or takes a lock.
LEMMA ReadFollows ==
  ASSUME CInv, KInv', UNCHANGED <<row, inbox, external>>,
         NEW w \in Worker, NEW r, job' = [job EXCEPT ![w] = r],
         Follows(r, Made, Refs, Ended, Closed), r.pc \in Registering => r.charge \notin Made
  PROVE  Cancellation'
<1>1. Made' = Made /\ Refs' = Refs /\ Ended' = Ended /\ Closed' = Closed
  BY DEF Made, Refs, Ended, Closed, external
<1>2. JobsFollow'
  BY <1>1, FollowWrite DEF Stays
<1>3. NotYetMade'
  BY <1>1, NotYetWrite
<1>4. InboxFollows' /\ CancelledIsClosed'
  BY <1>1 DEF CInv, Cancellation, InboxFollows, CancelledIsClosed, external
<1>. QED  BY <1>2, <1>3, <1>4 DEF Cancellation

\* A worker ends, having written charges but not the inbox.
LEMMA EndsFollowing ==
  ASSUME CInv, KInv', UNCHANGED <<inbox, external>>, NEW w \in Worker, Finish(w), RowsStay,
         \A c \in Made' : c \in Made \/ (job[w].pc \in InTx /\ c = job[w].charge),
         \A c \in Charge : row'[c].status = "cancelled" => row[c].status = "cancelled" \/ c \in Closed \/ c \in Closed'
  PROVE  Cancellation'
<1>1. Ended' = Ended
  BY DEF Ended, external
<1>2. Stays
  BY <1>1, ItStays DEF CInv
<1>3. JobsFollow'
  BY <1>2, FollowWrite, IdleFollows DEF Finish
<1>4. NotYetMade'
  BY NotYetWrite, IdleFollows DEF Finish
<1>5. InboxFollows'
  BY <1>2 DEF CInv, Cancellation, InboxFollows, external, Stays
<1>6. CancelledIsClosed'
  BY <1>2 DEF CInv, Cancellation, CancelledIsClosed, Stays
<1>. QED  BY <1>3, <1>4, <1>5, <1>6 DEF Cancellation

\* The bank issues or ends a slip; nobody is called back.
LEMMA BankFollows ==
  ASSUME CInv, KInv', UNCHANGED <<row, inbox, sent>>, Ended \subseteq Ended',
         NEW w \in Worker, NEW r, job' = [job EXCEPT ![w] = r],
         Follows(r, Made, Refs, Ended', Closed'), r.pc \in Registering => r.charge \notin Made
  PROVE  Cancellation'
<1>1. RowsStay /\ Made' = Made /\ Refs' = Refs
  BY DEF RowsStay, Made, Refs
<1>2. Stays
  BY <1>1, ItStays DEF CInv
<1>3. JobsFollow'
  BY <1>1, <1>2, FollowWrite
<1>4. NotYetMade'
  BY <1>1, NotYetWrite
<1>5. InboxFollows' /\ CancelledIsClosed'
  BY <1>2 DEF CInv, Cancellation, InboxFollows, CancelledIsClosed, Stays
<1>. QED  BY <1>3, <1>4, <1>5 DEF Cancellation

LEMMA RecallCancel ==
  ASSUME CInv, NEW w \in Worker
  PROVE  /\ job[w] \in Job /\ Remembered(job[w]) /\ AboutIssued(job[w], bank)
         /\ Knows(job[w], Reported, InBooks, sent)
         /\ Follows(job[w], Made, Refs, Ended, Closed)
         /\ job[w].pc \in Registering => job[w].charge \notin Made
         /\ job \in [Worker -> Job]
  BY Recall DEF CInv, KInv, IInv, Typing, JobsOK, Cancellation, JobsFollow, NotYetMade

\* The Hub's word for a situation is cancelled when the slip has been.
LEMMA CancelledWord ==
  /\ \A s \in Situation : Consulted(s) = "cancelled" => s = "cancelado"
  /\ \A s \in Situation : ~IsPayment(s) /\ HubStatus[s] = "cancelled" => s = "cancelado"
  /\ \A a, b : Apply(a, b) = "cancelled" => a = "cancelled" \/ b = "cancelled"
  /\ \A c, a : ApplyOverdue(c, a) = "cancelled" => a = "cancelled"
  BY DEF Consulted, IsPayment, HubStatus, Situation, Apply, ApplyOverdue

\* A charge whose row is there is closed once its slip has ended.
LEMMA EndedIsClosed ==
  ASSUME CInv, NEW c \in Charge, NEW s \in Slip \cup {None}, <<c, s>> \in Refs,
         s # None => <<c, s>> \in Ended
  PROVE  c \in Closed
  BY NoneAssumption DEF Refs, Closed

LEMMA CancellationInit == ASSUME KeepsItsSlip, Init PROVE Cancellation
<1>1. JobsFollow /\ NotYetMade
  BY IdleFollows DEF Init, JobsFollow, NotYetMade
<1>2. InboxFollows /\ CancelledIsClosed
  BY DEF Init, InboxFollows, CancelledIsClosed, Absent, Local
<1>. QED  BY <1>1, <1>2 DEF Cancellation

-----------------------------------------------------------------------------
(* One lemma per group of actions: what they leave of Cancellation *)

\* A slip that may still change is none of those that have ended.
LEMMA EndedGrows ==
  ASSUME CInv, NEW c \in Charge, NEW s \in Slip, NEW new,
         bank' = [bank EXCEPT ![c][s] = new], bank[c][s] \notin Final, UNCHANGED accepted
  PROVE  Ended \subseteq Ended' /\ (new \in Final => <<c, s>> \in Ended')
<1>1. /\ bank'[c][s] = new
      /\ \A d \in Charge, t \in Slip : d # c \/ t # s => bank'[d][t] = bank[d][t]
  BY DEF CInv, KInv, IInv, Typing, BankOK
<1>2. ASSUME NEW p \in Ended PROVE p \in Ended'
  <2>1. PICK d \in Charge, t \in Slip :
          p = <<d, t>> /\ (bank[d][t] \in Final \/ p \in accepted)
    BY <1>2 DEF Ended
  <2>2. bank'[d][t] \in Final \/ p \in accepted'
    BY <1>1, <2>1
  <2>. QED  BY <2>1, <2>2 DEF Ended
<1>. QED  BY <1>1, <1>2 DEF Ended

\* The bank calls back on a slip that it has cancelled.
LEMMA CallBackFollows ==
  ASSUME CInv, KeepsItsSlip, Stays, UNCHANGED inbox, NEW c \in Charge, NEW s \in Slip,
         NEW new \in Situation, CallBack(c, s, new), new = "cancelado" => <<c, s>> \in Ended'
  PROVE  InboxFollows'
<1> SUFFICES ASSUME NEW n \in sent', inbox[n].sit = "cancelado" PROVE n.charge \in Closed'
  BY DEF InboxFollows
<1>1. CASE n \in sent
  BY <1>1 DEF CInv, Cancellation, InboxFollows, Stays
<1>2. CASE n \notin sent
  <2>1. PICK kind \in {new, "light"} \cap Callbacks :
          sent' = sent \cup {[charge |-> c, slip |-> s, kind |-> kind]}
    BY <1>2 DEF CallBack
  <2>2. n = [charge |-> c, slip |-> s, kind |-> kind] /\ n \in Note
    BY <1>2, <2>1 DEF Note, Kind
  <2>3. inbox[n].sit = kind
    BY <1>2, <2>2 DEF CInv, KInv, Knowledge, InboxKnows, IInv, Typing, InboxOK, InboxRow
  <2>4. new = "cancelado" /\ "cancelado" \in Callbacks
    BY <2>1, <2>3
  <2>5. \A t \in Slip : <<c, t>> \in Ended'
    BY <2>4 DEF KeepsItsSlip
  <2>. QED  BY <2>2, <2>5 DEF Closed
<1>. QED  BY <1>1, <1>2

LEMMA EnvironmentFollows ==
  ASSUME CInv, KInv', KeepsItsSlip, Environment PROVE Cancellation'
<1>1. ASSUME NEW c \in Charge, NEW s \in Slip, BankAdvance(c, s) PROVE Cancellation'
  <2>1. PICK new \in NextSituation[bank[c][s]] :
          bank' = [bank EXCEPT ![c][s] = new] /\ CallBack(c, s, new)
    BY <1>1 DEF BankAdvance
  <2>2. bank[c][s] \notin Final /\ new \in Situation
    <3>1. bank[c][s] \in Situation \cup {"unissued"}
      BY DEF CInv, KInv, IInv, Typing, BankOK
    <3>. QED  BY <2>1, <3>1 DEF NextSituation, Final, Received, Situation
  <2>3. Ended \subseteq Ended' /\ (new \in Final => <<c, s>> \in Ended')
    BY <1>1, <2>1, <2>2, EndedGrows DEF BankAdvance
  <2>4. UNCHANGED <<row, inbox, job>>
    BY <1>1 DEF BankAdvance
  <2>5. Stays /\ Made' = Made
    BY <2>3, <2>4, ItStays DEF CInv, RowsStay, Made
  <2>6. JobsFollow'
    BY <2>4, <2>5, FollowsStill DEF CInv, Cancellation, JobsFollow, Stays
  <2>7. NotYetMade' /\ CancelledIsClosed'
    BY <2>4, <2>5 DEF CInv, Cancellation, NotYetMade, CancelledIsClosed, Stays
  <2>8. InboxFollows'
    BY <2>1, <2>2, <2>3, <2>4, <2>5, CallBackFollows DEF Final
  <2>. QED  BY <2>6, <2>7, <2>8 DEF Cancellation
<1>2. ASSUME NEW c \in Charge, DueDatePasses(c) PROVE Cancellation'
  BY <1>2 DEF DueDatePasses, CInv, Cancellation, JobsFollow, NotYetMade, InboxFollows,
              CancelledIsClosed, Made, Refs, Ended, Closed
<1>. QED  BY <1>1, <1>2 DEF Environment

LEMMA PdfFollows ==
  ASSUME CInv, KInv', NEW c \in Charge, EnsurePdf(c) PROVE Cancellation'
<1>1. row' = [row EXCEPT ![c] = [row[c] EXCEPT !.pdf = row[c].ref]]
  BY DEF EnsurePdf
<1>2. \A d \in Charge : row'[d].status = row[d].status /\ row'[d].ref = row[d].ref
  BY <1>1 DEF CInv, KInv, IInv, Typing, RowsOK, Row
<1>3. Made' = Made /\ Refs' = Refs /\ Ended' = Ended /\ Closed' = Closed
  <2>1. Made' = Made
    BY <1>2 DEF Made
  <2>2. Refs' = Refs
    BY <1>2, <2>1 DEF Refs, Made
  <2>3. Ended' = Ended
    BY DEF EnsurePdf, external, Ended
  <2>. QED  BY <1>2, <2>1, <2>2, <2>3 DEF Closed
<1>. QED  BY <1>2, <1>3 DEF EnsurePdf, external, CInv, Cancellation, JobsFollow, NotYetMade,
                            InboxFollows, CancelledIsClosed

LEMMA IssueFollows ==
  ASSUME CInv, KInv', KeepsItsSlip, NEW w \in Worker, Issue(w) PROVE Cancellation'
<1> DEFINE j == job[w]
<1>0. /\ j \in Job /\ Remembered(j) /\ AboutIssued(j, bank)
      /\ Follows(j, Made, Refs, Ended, Closed)
      /\ j.pc \in Registering => j.charge \notin Made
  BY RecallCancel
<1>1. ASSUME NEW c \in Charge, CreateBegin(w, c) PROVE Cancellation'
  <2> DEFINE r == [Idle EXCEPT !.pc = "register", !.charge = c, !.status = "pending"]
  <2>1. Follows(r, Made, Refs, Ended, Closed) /\ r.charge \notin Made
    BY <1>1 DEF Idle, Follows, Reading, Webhooks, Canceling, Informed, CreateBegin, Made
  <2>. QED  BY <1>1, <2>1, ReadFollows DEF CreateBegin
<1>2. j.pc # "emit_loaded" /\ \A c \in Charge : ~EmitLoad(w, c)
  BY <1>0 DEF Follows, KeepsItsSlip, EmitLoad, Starts
<1>3. ASSUME NEW s \in Slip, Register(w, s) PROVE Cancellation'
  <2> DEFINE r == [j EXCEPT !.pc = "registered", !.status = "registered", !.ref = s]
  <2>1. /\ j.pc = "register" /\ j.charge \in Charge /\ bank[j.charge][s] \notin Final
        /\ job' = [job EXCEPT ![w] = r]
    BY <1>0, <1>3 DEF Register, Remembered, Final, Received
  <2>2. PICK sit : bank' = [bank EXCEPT ![j.charge][s] = sit]
    BY <1>3 DEF Register
  <2>3. Ended \subseteq Ended'
    BY <1>3, <2>1, <2>2, EndedGrows DEF Register
  <2>4. /\ Follows(r, Made, Refs, Ended', Closed')
        /\ r.charge \notin Made
    BY <1>0, <2>1 DEF Job, Follows, Reading, Webhooks, Canceling, Informed, Registering
  <2>. QED  BY <1>3, <2>1, <2>3, <2>4, BankFollows DEF Register
<1>4. CASE RegisterFails(w)
  <2>1. Ended \subseteq Ended'
    <3>1. CASE bank' = bank
      BY <1>4, <3>1 DEF RegisterFails, Ended
    <3>2. CASE bank' # bank
      <4>1. PICK s \in Slip : /\ bank[j.charge][s] = "unissued"
                              /\ bank' = [bank EXCEPT ![j.charge][s] = "a_receber"]
        BY <1>4, <3>2 DEF RegisterFails
      <4>2. j.charge \in Charge /\ bank[j.charge][s] \notin Final
        BY <1>0, <1>4, <4>1 DEF RegisterFails, Remembered, Final, Received
      <4>. QED  BY <1>4, <4>1, <4>2, EndedGrows DEF RegisterFails
    <3>. QED  BY <3>1, <3>2
  <2>. QED  BY <1>4, <2>1, BankFollows, IdleFollows DEF RegisterFails, Finish
<1>5. CASE RegisterEnrich(w)
  <2> DEFINE sit == bank[j.charge][j.ref]
             new == Apply(j.status, Consulted(sit))
             r == [j EXCEPT !.status = new]
  <2>1. j.pc = "registered" /\ j.charge \in Charge /\ j.ref \in Slip /\ sit # "unissued"
    BY <1>0, <1>5, NoneAssumption DEF RegisterEnrich, Remembered, AboutIssued
  <2>2. sit \in Situation
    BY <2>1, Answer DEF CInv
  <2>3. new = "cancelled" => <<j.charge, j.ref>> \in Ended
    BY <1>0, <2>1, <2>2, CancelledWord DEF Follows, Ended, Final
  <2>4. job' = [job EXCEPT ![w] = r]
    BY <1>5 DEF RegisterEnrich
  <2>. HIDE DEF new
  <2>5. Follows(r, Made, Refs, Ended, Closed) /\ r.charge \notin Made
    BY <1>0, <2>1, <2>3 DEF Job, Follows, Reading, Webhooks, Canceling, Informed, Registering
  <2>. QED  BY <1>5, <2>4, <2>5, ReadFollows DEF RegisterEnrich
<1>6. CASE RegisterCommit(w)
  <2> DEFINE c == j.charge
  <2>1. j.pc = "registered" /\ c \in Charge /\ c \notin Made /\ j.status \in Status
    BY <1>0, <1>6 DEF RegisterCommit, Remembered, Registering, InTx
  <2>2. PICK pdf : row' = [row EXCEPT ![c] = [status |-> j.status, ref |-> j.ref, pdf |-> pdf]]
    BY <1>6 DEF RegisterCommit
  <2>3. /\ row'[c].status = j.status /\ row'[c].ref = j.ref
        /\ \A d \in Charge : d # c => row'[d] = row[d]
    BY <2>1, <2>2 DEF CInv, KInv, IInv, Typing, RowsOK
  <2>4. RowsStay /\ \A d \in Made' : d \in Made \/ (j.pc \in InTx /\ d = c)
    BY <2>1, <2>3 DEF RowsStay, Made, InTx
  <2>5. j.status = "cancelled" => c \in Closed'
    <3>1. Ended' = Ended
      BY <1>6 DEF RegisterCommit, external, Ended
    <3>. QED  BY <1>0, <2>1, <2>3, <3>1 DEF Follows, Closed, Made
  <2>6. \A d \in Charge : row'[d].status = "cancelled" =>
          row[d].status = "cancelled" \/ d \in Closed \/ d \in Closed'
    BY <2>3, <2>5
  <2>. QED  BY <1>6, <2>4, <2>6, EndsFollowing DEF RegisterCommit
<1>. QED  BY <1>1, <1>2, <1>3, <1>4, <1>5, <1>6 DEF Issue, EmitRefused, EmitSave

LEMMA CancelFollows ==
  ASSUME CInv, KInv', KeepsItsSlip, NEW w \in Worker, Cancel(w) PROVE Cancellation'
<1> DEFINE j == job[w]
<1>0. /\ j \in Job /\ Remembered(j) /\ Follows(j, Made, Refs, Ended, Closed)
  BY RecallCancel
<1>1. ASSUME NEW c \in Charge, CancelLoad(w, c) PROVE Cancellation'
  <2> DEFINE r == [Idle EXCEPT !.pc = "cancel_loaded", !.charge = c, !.ref = row[c].ref]
  <2>1. <<c, row[c].ref>> \in Refs
    BY <1>1 DEF CancelLoad, Open, Refs, Made, CInv, KInv, IInv, Typing, RowsOK, Row
  <2>2. Follows(r, Made, Refs, Ended, Closed) /\ r.pc \notin Registering
    BY <2>1 DEF Idle, Follows, Reading, Webhooks, Canceling, Informed, Registering
  <2>. QED  BY <1>1, <2>2, ReadFollows DEF CancelLoad
<1>2. CASE CancelAtBank(w)
  <2> DEFINE c == j.charge
             s == j.ref
  <2>1. c \in Charge /\ s \in Slip /\ <<c, s>> \in Refs
    BY <1>0, <1>2 DEF CancelAtBank, Remembered, Job, Follows, Canceling
  <2>2. accepted' = accepted \cup {<<c, s>>} /\ UNCHANGED <<row, inbox, bank, sent>>
    BY <1>2 DEF CancelAtBank
  <2>3. Ended \subseteq Ended' /\ <<c, s>> \in Ended'
    BY <2>1, <2>2 DEF Ended
  <2>4. Stays /\ Made' = Made /\ Refs' = Refs
    BY <2>2, <2>3, ItStays DEF CInv, RowsStay, Made, Refs
  <2>5. c \in Closed'
    BY <2>1, <2>2, <2>3, <2>4 DEF Closed, Refs
  <2>6. CASE Finish(w)
    BY <2>2, <2>3, <2>6, BankFollows, IdleFollows DEF Finish
  <2>7. CASE ~Finish(w)
    <3> DEFINE r == [j EXCEPT !.pc = "cancel_at_bank"]
    <3>1. job' = [job EXCEPT ![w] = r]
      BY <1>2, <2>7 DEF CancelAtBank
    <3>2. Follows(r, Made, Refs, Ended', Closed') /\ r.pc \notin Registering
      BY <1>0, <2>1, <2>4, <2>5
      DEF Job, Follows, Reading, Webhooks, Canceling, Informed, Registering
    <3>. HIDE DEF r
    <3>. QED  BY <2>2, <2>3, <3>1, <3>2, BankFollows
  <2>. QED  BY <2>6, <2>7
<1>3. CASE CancelRefused(w)
  BY <1>3, ReadFollows, IdleFollows DEF CancelRefused, Finish
<1>4. CASE CancelSave(w)
  <2> DEFINE c == j.charge
  <2>1. c \in Charge /\ <<c, j.ref>> \in Refs
    BY <1>0, <1>4 DEF CancelSave, Remembered, Follows, Canceling
  <2>2. c \in Closed
    <3>1. CASE j.pc = "cancel_at_bank"
      BY <1>0, <3>1 DEF Follows
    <3>2. CASE j.ref = None
      BY <2>1, <3>2, EndedIsClosed
    <3>. QED  BY <1>4, <3>1, <3>2 DEF CancelSave
  <2>3. row' = [row EXCEPT ![c] = [row[c] EXCEPT !.status = "cancelled"]]
    BY <1>4 DEF CancelSave
  <2>4. /\ row'[c].status = "cancelled" /\ row'[c].ref = row[c].ref
        /\ \A d \in Charge : d # c => row'[d] = row[d]
    BY <2>1, <2>3 DEF CInv, KInv, IInv, Typing, RowsOK, Row
  <2>5. RowsStay /\ \A d \in Made' : d \in Made
    BY <2>1, <2>4 DEF RowsStay, Made, Refs
  <2>6. \A d \in Charge : row'[d].status = "cancelled" => row[d].status = "cancelled" \/ d \in Closed
    BY <2>2, <2>4
  <2>. QED  BY <1>4, <2>5, <2>6, EndsFollowing DEF CancelSave
<1>. QED  BY <1>1, <1>2, <1>3, <1>4 DEF Cancel

\* A worker that reads the row of a charge remembers its slip and its status.
LEMMA RowRead ==
  ASSUME CInv, NEW c \in Charge, row[c].status # "absent"
  PROVE  <<c, row[c].ref>> \in Refs /\ (row[c].status = "cancelled" => c \in Closed)
  BY DEF Refs, Made, CInv, KInv, IInv, Typing, RowsOK, Row, Cancellation, CancelledIsClosed

\* The bank's answer on the slip of a charge.
LEMMA AnswerFollows ==
  ASSUME CInv, NEW c \in Charge, NEW s \in Slip, <<c, s>> \in Refs, bank[c][s] = "cancelado"
  PROVE  c \in Closed
  BY EndedIsClosed DEF Ended, Final

LEMMA SyncFollows ==
  ASSUME CInv, KInv', NEW w \in Worker, Sync(w) PROVE Cancellation'
<1> DEFINE j == job[w]
<1>0. /\ j \in Job /\ Remembered(j) /\ Follows(j, Made, Refs, Ended, Closed)
  BY RecallCancel
<1>1. ASSUME NEW c \in Charge, SyncLoad(w, c) PROVE Cancellation'
  <2> DEFINE r == [Idle EXCEPT !.pc = "sync_loaded", !.charge = c, !.ref = row[c].ref,
                               !.status = row[c].status]
  <2>1. row[c].status # "absent"
    BY <1>1 DEF SyncLoad, CInv, KInv, IInv, Typing, RowsOK, Status
  <2>2. <<c, row[c].ref>> \in Refs /\ (row[c].status = "cancelled" => c \in Closed)
    BY <2>1, RowRead
  <2>3. Follows(r, Made, Refs, Ended, Closed) /\ r.pc \notin Registering
    BY <2>2 DEF Idle, Follows, Reading, Webhooks, Canceling, Informed, Registering
  <2>. QED  BY <1>1, <2>3, ReadFollows DEF SyncLoad
<1>2. CASE SyncConsult(w)
  <2> DEFINE sit == bank[j.charge][j.ref]
             r == [j EXCEPT !.pc = "sync_answered", !.sit = sit]
  <2>1. j.pc = "sync_loaded" /\ j.charge \in Charge /\ j.ref \in Slip /\ <<j.charge, j.ref>> \in Refs
    BY <1>0, <1>2 DEF SyncConsult, Remembered, Follows, Reading
  <2>2. sit = "cancelado" => j.charge \in Closed
    BY <2>1, AnswerFollows
  <2>3. job' = [job EXCEPT ![w] = r]
    BY <1>2 DEF SyncConsult
  <2>. HIDE DEF sit
  <2>4. Follows(r, Made, Refs, Ended, Closed) /\ r.pc \notin Registering
    BY <1>0, <2>1, <2>2 DEF Job, Follows, Reading, Webhooks, Canceling, Informed, Registering
  <2>. QED  BY <1>2, <2>3, <2>4, ReadFollows DEF SyncConsult
<1>3. CASE SyncConsultFails(w)
  BY <1>3, ReadFollows, IdleFollows DEF SyncConsultFails, Finish
<1>4. CASE SyncSave(w)
  <2> DEFINE answered == Apply(j.status, Consulted(j.sit))
             new == ApplyOverdue(j.charge, answered)
             writes == answered # j.status \/ new # answered
             r == [j EXCEPT !.pc = "sync_saved", !.status = new, !.write = writes]
  <2>1. j.pc = "sync_answered" /\ j.sit \in Situation
    BY <1>0, <1>4 DEF SyncSave, Remembered
  <2>2. new = "cancelled" => j.charge \in Closed
    BY <1>0, <2>1, CancelledWord DEF Follows, Reading, Informed
  <2>3. job' = [job EXCEPT ![w] = r]
    BY <1>4 DEF SyncSave
  <2>. HIDE DEF new, writes
  <2>4. Follows(r, Made, Refs, Ended, Closed) /\ r.pc \notin Registering
    BY <1>0, <2>1, <2>2 DEF Job, Follows, Reading, Webhooks, Canceling, Informed, Registering
  <2>. QED  BY <1>4, <2>3, <2>4, ReadFollows DEF SyncSave
<1>5. CASE SyncCommit(w)
  <2> DEFINE c == j.charge
  <2>1. /\ c \in Charge /\ j.status \in Status /\ <<c, j.ref>> \in Refs
        /\ j.status = "cancelled" => c \in Closed
    BY <1>0, <1>5 DEF SyncCommit, Remembered, InTx, Follows, Reading
  <2>2. PICK pdf : row' = [row EXCEPT ![c].status = IF j.write THEN j.status ELSE @,
                                      ![c].pdf = pdf]
    BY <1>5 DEF SyncCommit
  <2>3. /\ row'[c].status = (IF j.write THEN j.status ELSE row[c].status)
        /\ row'[c].ref = row[c].ref
        /\ \A d \in Charge : d # c => row'[d] = row[d]
    BY <2>1, <2>2 DEF CInv, KInv, IInv, Typing, RowsOK, Row
  <2>4. RowsStay /\ \A d \in Made' : d \in Made
    BY <2>1, <2>3 DEF RowsStay, Made, Refs, Status
  <2>5. \A d \in Charge : row'[d].status = "cancelled" => row[d].status = "cancelled" \/ d \in Closed
    BY <2>1, <2>3
  <2>. QED  BY <1>5, <2>4, <2>5, EndsFollowing DEF SyncCommit
<1>. QED  BY <1>1, <1>2, <1>3, <1>4, <1>5 DEF Sync

LEMMA CheckFollows ==
  ASSUME CInv, KInv', NEW w \in Worker, CheckPaymentEvent(w) PROVE Cancellation'
<1> DEFINE j == job[w]
           seen == events[j.charge] # <<>>
           pc == IF j.pc = "sync_saved" THEN "sync_checked" ELSE "wh_checked"
           r == [j EXCEPT !.seen = seen, !.pc = pc]
<1>0. j \in Job /\ Follows(j, Made, Refs, Ended, Closed)
  BY RecallCancel
<1>1. job' = [job EXCEPT ![w] = r]
  BY DEF CheckPaymentEvent
<1>2. \/ j.pc = "sync_saved" /\ pc = "sync_checked"
      \/ j.pc = "wh_ready" /\ pc = "wh_checked"
  BY DEF CheckPaymentEvent
<1>. HIDE DEF seen, pc
<1>3. Follows(r, Made, Refs, Ended, Closed) /\ r.pc \notin Registering
  BY <1>0, <1>2 DEF Job, Follows, Reading, Webhooks, Canceling, Informed, Registering
<1>. QED  BY <1>1, <1>3, ReadFollows DEF CheckPaymentEvent

LEMMA OverdueFollows ==
  ASSUME CInv, KInv', NEW w \in Worker, Overdue(w) PROVE Cancellation'
<1>1. CASE OverdueRead(w)
  <2> DEFINE ids == {c \in pastDue : row[c].status \in {"pending", "registered"}}
             r == [Idle EXCEPT !.pc = "overdue_read", !.ids = ids]
  <2>1. ids \subseteq Made
    BY DEF Made, CInv, KInv, IInv, Typing, BankOK
  <2>2. job' = [job EXCEPT ![w] = r]
    BY <1>1 DEF OverdueRead
  <2>. HIDE DEF ids
  <2>3. Follows(r, Made, Refs, Ended, Closed) /\ r.pc \notin Registering
    BY <2>1 DEF Idle, Follows, Reading, Webhooks, Canceling, Informed, Registering
  <2>. HIDE DEF r
  <2>. QED  BY <1>1, <2>2, <2>3, ReadFollows DEF OverdueRead
<1>2. CASE OverdueWrite(w)
  <2>1. job[w].ids \subseteq Made
    BY <1>2, RecallCancel DEF OverdueWrite, Follows
  <2>2. \A c \in Charge : /\ row[c] \in Row
                          /\ row'[c] = IF c \in job[w].ids THEN [row[c] EXCEPT !.status = "overdue"]
                                       ELSE row[c]
    BY <1>2 DEF OverdueWrite, CInv, KInv, IInv, Typing, RowsOK
  <2>3. \A c \in Charge : /\ row'[c].ref = row[c].ref
                          /\ row'[c].status = IF c \in job[w].ids THEN "overdue" ELSE row[c].status
    BY <2>2 DEF Row
  <2>4. RowsStay /\ \A d \in Made' : d \in Made
    BY <2>1, <2>3 DEF RowsStay, Made
  <2>. QED  BY <1>2, <2>3, <2>4, EndsFollowing DEF OverdueWrite
<1>. QED  BY <1>1, <1>2 DEF Overdue

LEMMA LockChargeFollows ==
  ASSUME CInv, KInv', NEW w \in Worker, NEW n \in sent, NEW sit \in Kind,
         sit = "cancelado" => n.charge \in Closed, LockCharge(w, n, sit)
  PROVE  Cancellation'
<1> DEFINE c == n.charge
           pc == IF sit = "light" THEN "wh_enrich" ELSE "wh_ready"
           r == [Idle EXCEPT !.pc = pc, !.charge = c, !.note = n, !.sit = sit,
                             !.status = row[c].status, !.ref = row[c].ref]
<1>1. c \in Charge /\ row[c].status # "absent"
  BY DEF CInv, KInv, IInv, Typing, BankOK, Note, LockCharge, FoundBy
<1>2. <<c, row[c].ref>> \in Refs /\ (row[c].status = "cancelled" => c \in Closed)
  BY <1>1, RowRead
<1>3. pc \in {"wh_enrich", "wh_ready"} /\ job' = [job EXCEPT ![w] = r]
  BY DEF LockCharge
<1>. HIDE DEF pc
<1>4. Follows(r, Made, Refs, Ended, Closed) /\ r.pc \notin Registering
  BY <1>2, <1>3 DEF Idle, Follows, Reading, Webhooks, Canceling, Informed, Registering
<1>. QED  BY <1>3, <1>4, ReadFollows DEF LockCharge

\* An inbox row is written: a cancellation in it has closed its charge.
LEMMA InboxFollowsWrite ==
  ASSUME CInv, Stays, UNCHANGED sent, NEW n \in sent, NEW v,
         inbox' = [inbox EXCEPT ![n] = v], v.sit = "cancelado" => n.charge \in Closed
  PROVE  InboxFollows'
<1>1. inbox'[n] = v /\ (\A m \in sent : m # n => inbox'[m] = inbox[m])
  BY DEF CInv, KInv, IInv, Typing, BankOK, InboxOK
<1>. QED  BY <1>1 DEF CInv, Cancellation, InboxFollows, Stays

LEMMA FailedFollows ==
  ASSUME CInv, KInv', NEW w \in Worker, NEW n \in sent, Finish(w),
         inbox' = [inbox EXCEPT ![n].status = "failed"], UNCHANGED <<row, external>>
  PROVE  Cancellation'
<1> DEFINE v == [inbox[n] EXCEPT !.status = "failed"]
<1>1. Made' = Made /\ Refs' = Refs /\ Ended' = Ended /\ Closed' = Closed
  BY DEF Made, Refs, Ended, Closed, external
<1>2. Stays
  BY <1>1 DEF Stays
<1>3. JobsFollow' /\ NotYetMade'
  BY <1>1, <1>2, FollowWrite, NotYetWrite, IdleFollows DEF Finish
<1>4. inbox[n] \in InboxRow
  BY DEF CInv, KInv, IInv, Typing, BankOK, InboxOK
<1>5. inbox' = [inbox EXCEPT ![n] = v] /\ v.sit = inbox[n].sit
  BY <1>4 DEF InboxRow
<1>6. v.sit = "cancelado" => n.charge \in Closed
  BY <1>5 DEF CInv, Cancellation, InboxFollows
<1>. HIDE DEF v
<1>7. InboxFollows'
  BY <1>2, <1>5, <1>6, InboxFollowsWrite DEF external
<1>8. CancelledIsClosed'
  BY <1>1 DEF CInv, Cancellation, CancelledIsClosed
<1>. QED  BY <1>3, <1>7, <1>8 DEF Cancellation

\* What a handler that reaches its end saves in the charge and the inbox row.
LEMMA CommitFollows ==
  ASSUME CInv, KInv', NEW w \in Worker, job[w].pc \in {"wh_ready", "wh_checked"},
         NEW status \in Status, NEW inboxStatus, WebhookCommit(w, status, inboxStatus),
         status = "cancelled" => job[w].charge \in Closed
  PROVE  Cancellation'
<1> DEFINE j == job[w]
           c == j.charge
           n == j.note
           v == [status |-> inboxStatus, sit |-> j.sit]
<1>0. /\ Remembered(j) /\ Follows(j, Made, Refs, Ended, Closed)
      /\ Knows(j, Reported, InBooks, sent)
  BY RecallCancel
<1>1. /\ n \in sent /\ c \in Charge /\ n.charge = c /\ <<c, j.ref>> \in Refs
      /\ j.sit = "cancelado" => c \in Closed
  BY <1>0 DEF Knows, Remembered, Webhooks, Informed, Follows, Reading
<1>2. row' = [row EXCEPT ![c] = [row[c] EXCEPT !.status = status]]
  BY DEF WebhookCommit
<1>3. /\ row'[c].status = status /\ row'[c].ref = row[c].ref
      /\ \A d \in Charge : d # c => row'[d] = row[d]
  BY <1>1, <1>2 DEF CInv, KInv, IInv, Typing, RowsOK, Row
<1>4. RowsStay /\ \A d \in Made' : d \in Made
  BY <1>1, <1>3 DEF RowsStay, Made, Refs, Status
<1>5. Stays
  BY <1>4, ItStays DEF WebhookCommit, external, Ended, CInv
<1>6. JobsFollow' /\ NotYetMade'
  BY <1>4, <1>5, FollowWrite, NotYetWrite, IdleFollows DEF WebhookCommit, Finish
<1>7. InboxFollows'
  <2>1. inbox' = [inbox EXCEPT ![n] = v] /\ v.sit = j.sit
    BY DEF WebhookCommit
  <2>. HIDE DEF v
  <2>. QED  BY <1>1, <1>5, <2>1, InboxFollowsWrite DEF WebhookCommit, external
<1>8. CancelledIsClosed'
  BY <1>3, <1>5 DEF CInv, Cancellation, CancelledIsClosed, Stays
<1>. QED  BY <1>6, <1>7, <1>8 DEF Cancellation

LEMMA WebhookFollows ==
  ASSUME CInv, KInv', NEW w \in Worker, Webhook(w) PROVE Cancellation'
<1> DEFINE j == job[w]
<1>0. /\ j \in Job /\ Remembered(j) /\ Follows(j, Made, Refs, Ended, Closed)
      /\ Knows(j, Reported, InBooks, sent)
  BY RecallCancel
<1>1. ASSUME NEW n \in Note, Ingest(w, n) PROVE Cancellation'
  <2>1. n \in sent /\ n.kind \in Kind /\ (n.kind = "cancelado" => n.charge \in Closed)
    BY <1>1 DEF Ingest, CInv, KInv, Knowledge, InboxKnows, Cancellation, InboxFollows, Note
  <2>. QED  BY <1>1, <2>1, LockChargeFollows, FailedFollows DEF Ingest, Unmatched
<1>2. ASSUME NEW n \in Note, ReprocessLoad(w, n) PROVE Cancellation'
  <2> DEFINE r == [Idle EXCEPT !.pc = "rp_loaded", !.note = n, !.sit = inbox[n].sit]
  <2>1. inbox[n].sit = "cancelado" => n.charge \in Closed
    BY <1>2 DEF ReprocessLoad, CInv, KInv, Knowledge, InboxKnows, Cancellation, InboxFollows
  <2>2. Follows(r, Made, Refs, Ended, Closed) /\ r.pc \notin Registering
    BY <2>1 DEF Idle, Follows, Reading, Webhooks, Canceling, Informed, Registering
  <2>. QED  BY <1>2, <2>2, ReadFollows DEF ReprocessLoad
<1>3. CASE Reprocess(w)
  <2>1. /\ j.note \in sent /\ j.sit \in Kind
        /\ j.sit = "cancelado" => j.note.charge \in Closed
    BY <1>0, <1>3 DEF Reprocess, Knows, Job, Follows
  <2>. QED  BY <1>3, <2>1, LockChargeFollows, FailedFollows DEF Reprocess, Unmatched
<1>4. CASE WebhookEnrich(w)
  <2> DEFINE ref == IF j.ref = None THEN j.note.slip ELSE j.ref
             sit == bank[j.charge][ref]
             new == Apply(j.status, Consulted(sit))
             r == [j EXCEPT !.pc = "wh_ready", !.sit = sit, !.status = new]
  <2>1. /\ j.pc = "wh_enrich" /\ j.charge \in Charge /\ j.note \in Note
        /\ j.note # None /\ j.note.charge = j.charge /\ <<j.charge, j.ref>> \in Refs
    BY <1>0, <1>4, NoteAssumption DEF WebhookEnrich, Remembered, Webhooks, Follows, Reading
  <2>2. sit = "cancelado" => j.charge \in Closed
    <3>1. CASE j.ref = None
      BY <2>1, <3>1, EndedIsClosed
    <3>2. CASE j.ref # None
      BY <1>0, <2>1, <3>2, AnswerFollows DEF Job
    <3>. QED  BY <3>1, <3>2
  <2>3. sit \in Situation
    <3>1. AboutIssued(j, bank)
      BY RecallCancel
    <3>2. CASE j.ref = None
      BY <2>1, <3>1, <3>2, Answer DEF AboutIssued, Note, CInv
    <3>3. CASE j.ref # None
      BY <1>0, <2>1, <3>1, <3>3, Answer, NoneAssumption DEF AboutIssued, Job, CInv
    <3>. QED  BY <3>2, <3>3
  <2>4. new = "cancelled" => j.charge \in Closed
    BY <1>0, <2>1, <2>2, <2>3, CancelledWord DEF Follows, Reading, Webhooks
  <2>5. job' = [job EXCEPT ![w] = r]
    BY <1>4 DEF WebhookEnrich
  <2>. HIDE DEF sit, new
  <2>6. Follows(r, Made, Refs, Ended, Closed) /\ r.pc \notin Registering
    BY <1>0, <2>1, <2>2, <2>4 DEF Job, Follows, Reading, Webhooks, Canceling, Informed, Registering
  <2>. QED  BY <1>4, <2>5, <2>6, ReadFollows DEF WebhookEnrich
<1>5. CASE WebhookEnrichFails(w)
  <2>1. j.note \in sent
    BY <1>0, <1>5 DEF WebhookEnrichFails, Knows, Webhooks
  <2>. QED  BY <1>5, <2>1, FailedFollows DEF WebhookEnrichFails
<1>6. CASE WebhookLifecycle(w)
  <2> DEFINE status == Apply(j.status, HubStatus[j.sit])
  <2>1. j.pc = "wh_ready" /\ j.sit \in Situation /\ j.status \in Status
    BY <1>0, <1>6 DEF WebhookLifecycle, Remembered, InTx
  <2>2. status = "cancelled" => j.charge \in Closed
    BY <1>0, <1>6, <2>1, CancelledWord DEF WebhookLifecycle, Follows, Reading, Webhooks, Informed
  <2>3. status \in Status
    BY <1>6, <2>1, StatusTypes DEF WebhookLifecycle, Status
  <2>4. WebhookCommit(w, status, "processed")
    BY <1>6 DEF WebhookLifecycle
  <2>. HIDE DEF status
  <2>. QED  BY <2>1, <2>2, <2>3, <2>4, CommitFollows
<1>7. CASE WebhookAmountMismatch(w)
  <2>1. /\ j.pc = "wh_ready" /\ j.status \in Status
        /\ j.status = "cancelled" => j.charge \in Closed
    BY <1>0, <1>7 DEF WebhookAmountMismatch, Remembered, InTx, Follows, Reading, Webhooks
  <2>. QED  BY <1>7, <2>1, CommitFollows DEF WebhookAmountMismatch
<1>8. CASE WebhookPay(w)
  BY <1>8, CommitFollows DEF WebhookPay, Status
<1>. QED  BY <1>1, <1>2, <1>3, <1>4, <1>5, <1>6, <1>7, <1>8 DEF Webhook

LEMMA CancellationStep ==
  ASSUME KeepsItsSlip, CInv, KInv', [Next]_vars PROVE Cancellation'
<1>1. CASE UNCHANGED vars
  BY <1>1 DEF vars, external, CInv, Cancellation, JobsFollow, NotYetMade, InboxFollows,
              CancelledIsClosed, Made, Refs, Ended, Closed
<1>2. CASE Environment
  BY <1>2, EnvironmentFollows
<1>3. ASSUME NEW c \in Charge, EnsurePdf(c) PROVE Cancellation'
  BY <1>3, PdfFollows
<1>4. ASSUME NEW w \in Worker, Crash(w) PROVE Cancellation'
  BY <1>4, ReadFollows, IdleFollows DEF Crash, Finish
<1>5. ASSUME NEW w \in Worker,
             Issue(w) \/ Cancel(w) \/ Sync(w) \/ Overdue(w) \/ Webhook(w)
               \/ CheckPaymentEvent(w)
      PROVE  Cancellation'
  BY <1>5, IssueFollows, CancelFollows, SyncFollows, OverdueFollows, WebhookFollows, CheckFollows
<1>. QED  BY <1>1, <1>2, <1>3, <1>4, <1>5 DEF Next, WorkerStep

\* cancel_charge and everything that may run beside it: a charge the Hub shows as
\* cancelled has a slip that will never be paid, or one whose cancellation the
\* bank has accepted (services.py:537).  Charges keep the slip they were created
\* with, and no cancellation is called back for another slip of theirs; beside
\* that, whatever interleaving of requests, syncs, callbacks and crashes, and
\* answers lost.
THEOREM CancelledWasAccepted ==
  ASSUME KeepsItsSlip
  PROVE  Spec => []CancelledIsAccepted
<1>1. Init => Cancellation
  BY CancellationInit
<1>2. KInv /\ Cancellation /\ KInv' /\ [Next]_vars => Cancellation'
  BY CancellationStep DEF CInv
<1>3. KInv /\ Cancellation => CancelledIsAccepted
  <2> SUFFICES ASSUME KInv, Cancellation, NEW c \in Charge,
                      row[c].status = "cancelled", row[c].ref # None,
                      bank[c][row[c].ref] \in Payable
               PROVE  <<c, row[c].ref>> \in accepted
    BY DEF CancelledIsAccepted
  <2>1. row[c].ref \in Slip /\ c \in Closed
    BY DEF KInv, IInv, Typing, RowsOK, Row, Cancellation, CancelledIsClosed
  <2>2. bank[c][row[c].ref] \in Final \/ <<c, row[c].ref>> \in accepted
    BY <2>1 DEF Closed, Ended
  <2>. QED  BY <2>2 DEF Final, Received, Payable
<1>. QED  BY <1>1, <1>2, <1>3, KnowledgeInvariant, PTL DEF Spec

-----------------------------------------------------------------------------
(* 6. How a charge leaves paid, and what it owes when it reads so *)

\* A payment is never found out by the enrichment of a registration or of a callback:
\* where it reads paid, the row already did.
EnrichmentFindsNoPayment ==
  \A w \in Worker :
    job[w].pc \in {"registered", "wh_ready"} /\ job[w].status = "paid" =>
      row[job[w].charge].status = "paid"

\* A handler of a callback, which read the charge under its lock, knows it if it is paid.
KeepsPaid(j) ==
  j.pc \in Webhooks /\ row[j.charge].status = "paid" => j.status = "paid"

HeldStayPaid == \A w \in Worker : KeepsPaid(job[w])

\* A callback about to settle a charge takes it to be paid only if its row says so.
SeenPaid(j) == j.pc = "wh_checked" /\ j.status = "paid" => row[j.charge].status = "paid"

\* An event that was found is in the books.
SeenEvent(j) == j.pc \in Checked /\ j.seen => events[j.charge] # <<>>

PaidIsBooked ==
  /\ PaidHasPaymentEvent /\ SettledIsAnnounced
  /\ \A w \in Worker : SeenPaid(job[w]) /\ SeenEvent(job[w])

\* The status of a charge that another worker has locked stays as it is.
RowsByHolder(w) ==
  \A c \in Charge : row'[c].status # row[c].status => lock[c] \in {w, None}

\* Only one worker's memory changes in a step, and a row only if it is free or its.
LEMMA OneWorkerActs ==
  ASSUME IInv, NEW w \in Worker, WorkerStep(w)
  PROVE  /\ \A v \in Worker : v # w => job'[v] = job[v]
         /\ RowsByHolder(w)
<1> DEFINE j == job[w]
           c == j.charge
           Mine == \A v \in Worker : v # w => job'[v] = job[v]
<1>0. /\ job \in [Worker -> Job] /\ row \in [Charge -> Row] /\ j \in Job
      /\ j.pc \in InTx => c \in Charge /\ lock[c] = w
  BY Memory DEF IInv, Typing, JobsOK, RowsOK, Discipline, LockDiscipline, Remembered, InTx
<1>1. Finish(w) => Mine
  BY <1>0 DEF Finish
<1>2. row' = row => RowsByHolder(w)
  BY DEF RowsByHolder
<1>3. ASSUME c \in Charge, lock[c] \in {w, None}, NEW r, row' = [row EXCEPT ![c] = r]
      PROVE  RowsByHolder(w)
  BY <1>0, <1>3 DEF RowsByHolder
<1>4. CASE Issue(w)
  <2>1. Mine
    <3>1. ASSUME NEW d \in Charge, CreateBegin(w, d) \/ EmitLoad(w, d) PROVE Mine
      BY <1>0, <3>1 DEF CreateBegin, EmitLoad
    <3>2. ASSUME NEW s \in Slip, Register(w, s) PROVE Mine
      BY <1>0, <3>2 DEF Register
    <3>3. CASE EmitSave(w)
      BY <1>0, <3>3 DEF EmitSave
    <3>4. CASE RegisterEnrich(w)
      BY <1>0, <3>4 DEF RegisterEnrich
    <3>. QED  BY <1>1, <1>4, <3>1, <3>2, <3>3, <3>4 DEF Issue, EmitRefused, RegisterFails, RegisterCommit
  <2>2. CASE RegisterCommit(w)
    <3>1. PICK pdf : row' = [row EXCEPT ![c] = [status |-> j.status, ref |-> j.ref, pdf |-> pdf]]
      BY <2>2 DEF RegisterCommit
    <3>2. j.pc \in InTx
      BY <2>2 DEF RegisterCommit, InTx
    <3>. QED  BY <1>0, <1>3, <2>1, <3>1, <3>2
  <2>3. ~RegisterCommit(w) => row' = row
    BY <1>4 DEF Issue, CreateBegin, EmitLoad, Register, EmitRefused, EmitSave, RegisterFails, RegisterEnrich
  <2>. QED  BY <1>2, <2>1, <2>2, <2>3
<1>5. CASE Cancel(w)
  <2>1. ASSUME NEW d \in Charge, CancelLoad(w, d) PROVE Mine /\ row' = row
    BY <1>0, <2>1 DEF CancelLoad
  <2>2. CASE CancelAtBank(w)
    <3>1. CASE job' = [job EXCEPT ![w].pc = "cancel_at_bank"]
      BY <1>0, <1>2, <2>2, <3>1 DEF CancelAtBank
    <3>. QED  BY <1>1, <1>2, <2>2, <3>1 DEF CancelAtBank
  <2>3. CASE CancelRefused(w)
    BY <1>1, <1>2, <2>3 DEF CancelRefused
  <2>4. CASE CancelSave(w)
    <3>1. c \in Charge
      BY <2>4, Memory DEF CancelSave, IInv, Remembered
    <3>2. RowsByHolder(w)
      BY <1>0, <2>4, <3>1 DEF CancelSave, Free, RowsByHolder
    <3>. QED  BY <1>1, <2>4, <3>2 DEF CancelSave
  <2>. QED  BY <1>2, <1>5, <2>1, <2>2, <2>3, <2>4 DEF Cancel
<1>6. CASE Sync(w)
  <2>1. ASSUME NEW d \in Charge, SyncLoad(w, d) PROVE Mine /\ row' = row
    BY <1>0, <2>1 DEF SyncLoad
  <2>2. CASE SyncConsult(w)
    BY <1>0, <1>2, <2>2 DEF SyncConsult
  <2>3. CASE SyncConsultFails(w)
    BY <1>1, <1>2, <2>3 DEF SyncConsultFails
  <2>4. CASE SyncSave(w)
    BY <1>0, <1>2, <2>4 DEF SyncSave
  <2>5. CASE SyncCommit(w)
    <3>1. j.pc \in InTx /\ Mine
      BY <1>1, <2>5 DEF SyncCommit, InTx
    <3>2. PICK pdf : row' = [row EXCEPT ![c].status = IF j.write THEN j.status ELSE @, ![c].pdf = pdf]
      BY <2>5 DEF SyncCommit
    <3>. QED  BY <1>0, <3>1, <3>2 DEF RowsByHolder
  <2>. QED  BY <1>2, <1>6, <2>1, <2>2, <2>3, <2>4, <2>5 DEF Sync
<1>7. CASE Overdue(w)
  <2>1. CASE OverdueRead(w)
    BY <1>0, <2>1 DEF OverdueRead, RowsByHolder
  <2>2. CASE OverdueWrite(w)
    <3>1. \A d \in Charge : row'[d].status # row[d].status => lock[d] \in {w, None}
      BY <2>2 DEF OverdueWrite, Free
    <3>. QED  BY <1>1, <2>2, <3>1 DEF OverdueWrite, RowsByHolder
  <2>. QED  BY <1>7, <2>1, <2>2 DEF Overdue
<1>8. CASE Webhook(w)
  <2>1. ASSUME NEW n, NEW sit, LockCharge(w, n, sit) PROVE Mine /\ row' = row
    BY <1>0, <2>1 DEF LockCharge
  <2>2. ASSUME NEW n, Unmatched(w, n) PROVE Mine /\ row' = row
    BY <1>1, <2>2 DEF Unmatched
  <2>3. ASSUME NEW n \in Note, ReprocessLoad(w, n) PROVE Mine /\ row' = row
    BY <1>0, <2>3 DEF ReprocessLoad
  <2>4. CASE WebhookEnrich(w)
    BY <1>0, <2>4 DEF WebhookEnrich, RowsByHolder
  <2>5. ASSUME NEW status, NEW inboxStatus, WebhookCommit(w, status, inboxStatus), j.pc \in InTx
        PROVE  Mine /\ RowsByHolder(w)
    BY <1>0, <1>1, <2>5 DEF WebhookCommit, RowsByHolder
  <2>. QED  BY <1>1, <1>2, <1>8, <2>1, <2>2, <2>3, <2>4, <2>5
            DEF Webhook, Ingest, Reprocess, WebhookEnrichFails, WebhookLifecycle,
                WebhookAmountMismatch, WebhookPay, InTx
<1>9. CASE CheckPaymentEvent(w)
  BY <1>0, <1>9 DEF CheckPaymentEvent, RowsByHolder
<1>10. CASE Crash(w)
  BY <1>1, <1>10 DEF Crash, RowsByHolder
<1>. QED  BY <1>4, <1>5, <1>6, <1>7, <1>8, <1>9, <1>10 DEF WorkerStep

\* What the others have in mind is still so.
LEMMA OthersKeep ==
  ASSUME IInv, NEW w \in Worker, WorkerStep(w), NEW v \in Worker, v # w
  PROVE  /\ KeepsPaid(job[v]) => KeepsPaid(job[v])'
         /\ SeenPaid(job[v]) => SeenPaid(job[v])'
<1>1. job'[v] = job[v] /\ RowsByHolder(w)
  BY OneWorkerActs
<1>2. job[v].pc \in InTx => job[v].charge \in Charge /\ lock[job[v].charge] = v
  BY Memory DEF IInv, Discipline, LockDiscipline, Remembered, InTx
<1>3. job[v].pc \in InTx => row'[job[v].charge].status = row[job[v].charge].status
  BY <1>1, <1>2, WorkerAssumption DEF RowsByHolder
<1>. QED  BY <1>1, <1>3 DEF KeepsPaid, SeenPaid, Webhooks, InTx

\* A step of w takes a charge out of paid only if w read it before it had its lock.
LeavesPaid(w) ==
  \A c \in Charge :
    row[c].status = "paid" /\ row'[c].status # "paid" => ReadBefore(job[w], c)

\* Paid is kept by what a callback applies to it.
LEMMA PaidIsKept == \A a : Apply("paid", a) = "paid"
  BY DEF Apply

LEMMA WorkerLeavesPaid ==
  ASSUME IInv, HeldStayPaid, NEW w \in Worker, WorkerStep(w)
  PROVE  KeepsPaid(job[w])' /\ LeavesPaid(w)
<1> DEFINE j == job[w]
           c == j.charge
           Kept == KeepsPaid(job[w])'
<1>0. /\ job \in [Worker -> Job] /\ row \in [Charge -> Row] /\ j \in Job
      /\ Remembered(j) /\ KeepsPaid(j)
  BY Memory DEF IInv, Typing, JobsOK, RowsOK, HeldStayPaid
<1>1. ASSUME NEW r, job' = [job EXCEPT ![w] = r], r.pc \notin Webhooks PROVE Kept
  BY <1>0, <1>1 DEF KeepsPaid
<1>2. Finish(w) => Kept
  BY <1>1 DEF Finish, Idle, Webhooks
<1>3. row' = row => LeavesPaid(w)
  BY DEF LeavesPaid
<1>4. ASSUME NEW r, job' = [job EXCEPT ![w] = r], row' = row, KeepsPaid(r)
      PROVE  Kept /\ LeavesPaid(w)
  BY <1>0, <1>3, <1>4 DEF KeepsPaid
<1>5. CASE Issue(w)
  <2>1. ASSUME NEW d \in Charge, CreateBegin(w, d) \/ EmitLoad(w, d) PROVE Kept /\ LeavesPaid(w)
    BY <1>1, <1>3, <2>1 DEF CreateBegin, EmitLoad, Idle, Webhooks
  <2>2. ASSUME NEW s \in Slip, Register(w, s) PROVE Kept /\ LeavesPaid(w)
    BY <1>0, <1>3, <2>2 DEF Register, KeepsPaid, Webhooks, Job
  <2>3. CASE EmitSave(w)
    BY <1>0, <1>3, <2>3 DEF EmitSave, KeepsPaid, Webhooks, Job
  <2>4. CASE RegisterEnrich(w)
    BY <1>0, <1>3, <2>4 DEF RegisterEnrich, KeepsPaid, Webhooks, Job
  <2>5. CASE RegisterCommit(w)
    <3>1. c \in Charge /\ j.pc = "registered"
      BY <1>0, <2>5 DEF RegisterCommit, Remembered
    <3>2. PICK pdf : row' = [row EXCEPT ![c] = [status |-> j.status, ref |-> j.ref, pdf |-> pdf]]
      BY <2>5 DEF RegisterCommit
    <3>3. LeavesPaid(w)
      BY <1>0, <3>1, <3>2 DEF LeavesPaid, ReadBefore
    <3>. QED  BY <1>2, <2>5, <3>3 DEF RegisterCommit
  <2>. QED  BY <1>2, <1>3, <1>5, <2>1, <2>2, <2>3, <2>4, <2>5 DEF Issue, EmitRefused, RegisterFails
<1>6. CASE Cancel(w)
  <2>1. ASSUME NEW d \in Charge, CancelLoad(w, d) PROVE Kept /\ LeavesPaid(w)
    BY <1>1, <1>3, <2>1 DEF CancelLoad, Idle, Webhooks
  <2>2. CASE CancelAtBank(w)
    <3>1. CASE job' = [job EXCEPT ![w].pc = "cancel_at_bank"]
      BY <1>0, <1>3, <2>2, <3>1 DEF CancelAtBank, KeepsPaid, Webhooks, Job
    <3>. QED  BY <1>2, <1>3, <2>2, <3>1 DEF CancelAtBank
  <2>3. CASE CancelSave(w)
    <3>1. j.pc \in Canceling
      BY <2>3 DEF CancelSave, Canceling
    <3>2. \A d \in Charge : d # c => row'[d] = row[d]
      BY <1>0, <2>3 DEF CancelSave
    <3>3. LeavesPaid(w)
      BY <3>1, <3>2 DEF LeavesPaid, ReadBefore
    <3>. QED  BY <1>2, <2>3, <3>3 DEF CancelSave
  <2>. QED  BY <1>2, <1>3, <1>6, <2>1, <2>2, <2>3 DEF Cancel, CancelRefused
<1>7. CASE Sync(w)
  <2>1. ASSUME NEW d \in Charge, SyncLoad(w, d) PROVE Kept /\ LeavesPaid(w)
    BY <1>1, <1>3, <2>1 DEF SyncLoad, Idle, Webhooks
  <2>2. CASE SyncConsult(w)
    BY <1>0, <1>3, <2>2 DEF SyncConsult, KeepsPaid, Webhooks, Job
  <2>3. CASE SyncSave(w)
    BY <1>0, <1>3, <2>3 DEF SyncSave, KeepsPaid, Webhooks, Job
  <2>4. CASE SyncCommit(w)
    <3>1. c \in Charge /\ j.pc = "sync_checked"
      BY <1>0, <2>4 DEF SyncCommit, Remembered
    <3>2. PICK pdf : row' = [row EXCEPT ![c].status = IF j.write THEN j.status ELSE @, ![c].pdf = pdf]
      BY <2>4 DEF SyncCommit
    <3>3. /\ row'[c].status \in {row[c].status, j.status}
          /\ \A d \in Charge : d # c => row'[d] = row[d]
      BY <1>0, <3>1, <3>2 DEF Row
    <3>4. LeavesPaid(w)
      BY <3>1, <3>3 DEF LeavesPaid, ReadBefore
    <3>. QED  BY <1>2, <2>4, <3>4 DEF SyncCommit
  <2>. QED  BY <1>2, <1>3, <1>7, <2>1, <2>2, <2>3, <2>4 DEF Sync, SyncConsultFails
<1>8. CASE Overdue(w)
  <2>1. CASE OverdueRead(w)
    BY <1>1, <1>3, <2>1 DEF OverdueRead, Idle, Webhooks
  <2>2. CASE OverdueWrite(w)
    <3>1. LeavesPaid(w)
      BY <1>0, <2>2 DEF OverdueWrite, LeavesPaid, ReadBefore
    <3>. QED  BY <1>2, <2>2, <3>1 DEF OverdueWrite
  <2>. QED  BY <1>8, <2>1, <2>2 DEF Overdue
<1>9. CASE Webhook(w)
  <2>1. ASSUME NEW n \in Note, NEW sit, LockCharge(w, n, sit) PROVE Kept /\ LeavesPaid(w)
    <3> DEFINE pc == IF sit = "light" THEN "wh_enrich" ELSE "wh_ready"
               r == [Idle EXCEPT !.pc = pc, !.charge = n.charge, !.note = n, !.sit = sit,
                                 !.status = row[n.charge].status, !.ref = row[n.charge].ref]
    <3>1. KeepsPaid(r)
      BY DEF KeepsPaid, Idle
    <3>2. job' = [job EXCEPT ![w] = r] /\ row' = row
      BY <2>1 DEF LockCharge
    <3>. HIDE DEF r
    <3>. QED  BY <1>4, <3>1, <3>2
  <2>2. ASSUME NEW n, Unmatched(w, n) PROVE Kept /\ LeavesPaid(w)
    BY <1>2, <1>3, <2>2 DEF Unmatched
  <2>3. ASSUME NEW n \in Note, ReprocessLoad(w, n) PROVE Kept /\ LeavesPaid(w)
    BY <1>1, <1>3, <2>3 DEF ReprocessLoad, Idle, Webhooks
  <2>4. CASE WebhookEnrich(w)
    <3> DEFINE ref == IF j.ref = None THEN j.note.slip ELSE j.ref
               new == Apply(j.status, Consulted(bank[c][ref]))
               r == [j EXCEPT !.pc = "wh_ready", !.sit = bank[c][ref], !.status = new]
    <3>1. row[c].status = "paid" => new = "paid"
      BY <1>0, <2>4, PaidIsKept DEF WebhookEnrich, KeepsPaid, Webhooks
    <3>2. r.pc = "wh_ready" /\ r.charge = c /\ r.status = new
      BY <1>0 DEF Job
    <3>3. KeepsPaid(r)
      BY <3>1, <3>2 DEF KeepsPaid
    <3>4. job' = [job EXCEPT ![w] = r] /\ row' = row
      BY <2>4 DEF WebhookEnrich
    <3>. HIDE DEF r
    <3>. QED  BY <1>4, <3>3, <3>4
  <2>5. ASSUME NEW status, NEW inboxStatus, WebhookCommit(w, status, inboxStatus),
               row[c].status = "paid" => status = "paid"
        PROVE  Kept /\ LeavesPaid(w)
    <3>1. LeavesPaid(w)
      BY <1>0, <2>5 DEF WebhookCommit, LeavesPaid
    <3>. QED  BY <1>2, <2>5, <3>1 DEF WebhookCommit
  <2>6. CASE WebhookLifecycle(w) \/ WebhookAmountMismatch(w)
    <3>1. row[c].status = "paid" => j.status = "paid"
      BY <1>0, <2>6 DEF WebhookLifecycle, WebhookAmountMismatch, KeepsPaid, Webhooks
    <3>. QED  BY <2>5, <2>6, <3>1, PaidIsKept DEF WebhookLifecycle, WebhookAmountMismatch
  <2>7. CASE WebhookPay(w)
    BY <2>5, <2>7 DEF WebhookPay
  <2>8. CASE Reprocess(w)
    BY <1>0, <2>1, <2>2, <2>8 DEF Reprocess, Remembered
  <2>. QED  BY <1>2, <1>3, <1>9, <2>1, <2>2, <2>3, <2>4, <2>6, <2>7, <2>8
            DEF Webhook, Ingest, WebhookEnrichFails
<1>10. CASE CheckPaymentEvent(w)
  <2> DEFINE pc == IF j.pc = "sync_saved" THEN "sync_checked" ELSE "wh_checked"
             r == [j EXCEPT !.seen = (events[c] # <<>>), !.pc = pc]
  <2>1. KeepsPaid(r)
    BY <1>0, <1>10 DEF CheckPaymentEvent, KeepsPaid, Job, Webhooks
  <2>2. job' = [job EXCEPT ![w] = r] /\ row' = row
    BY <1>10 DEF CheckPaymentEvent
  <2>. HIDE DEF r
  <2>. QED  BY <1>4, <2>1, <2>2
<1>11. CASE Crash(w)
  BY <1>2, <1>3, <1>11 DEF Crash
<1>. QED  BY <1>5, <1>6, <1>7, <1>8, <1>9, <1>10, <1>11 DEF WorkerStep

\* The bank, the calendar and the PDF of a slip leave statuses and memories alone.
LEMMA NobodyActs ==
  ASSUME IInv, [Next]_vars, ~ \E w \in Worker : WorkerStep(w)
  PROVE  /\ UNCHANGED <<events, outbox, job>>
         /\ \A c \in Charge : row'[c].status = row[c].status
<1>1. CASE UNCHANGED vars
  BY <1>1 DEF vars, external
<1>2. CASE Environment
  BY <1>2 DEF Environment, BankAdvance, DueDatePasses
<1>3. ASSUME NEW d \in Charge, EnsurePdf(d) PROVE UNCHANGED <<events, outbox, job>> /\ \A c \in Charge : row'[c].status = row[c].status
  <2>1. row \in [Charge -> Row] /\ row' = [row EXCEPT ![d].pdf = row[d].ref]
    BY <1>3 DEF EnsurePdf, IInv, Typing, RowsOK
  <2>2. \A c \in Charge : row'[c].status = row[c].status
    BY <2>1 DEF Row
  <2>. QED  BY <1>3, <2>2 DEF EnsurePdf
<1>. QED  BY <1>1, <1>2, <1>3 DEF Next, WorkerStep

LEMMA HeldStayPaidStep ==
  ASSUME IInv, HeldStayPaid, [Next]_vars
  PROVE  HeldStayPaid'
<1>1. ASSUME NEW w \in Worker, WorkerStep(w) PROVE HeldStayPaid'
  BY <1>1, OthersKeep, WorkerLeavesPaid DEF HeldStayPaid
<1>2. CASE ~ \E w \in Worker : WorkerStep(w)
  <2>1. job' = job /\ \A c \in Charge : row'[c].status = row[c].status
    BY <1>2, NobodyActs
  <2>2. \A w \in Worker : job[w].pc \in Webhooks => job[w].charge \in Charge
    BY Memory DEF IInv, Remembered, Webhooks
  <2>. QED  BY <2>1, <2>2 DEF HeldStayPaid, KeepsPaid
<1>. QED  BY <1>1, <1>2

\* A charge leaves paid only by a request or a job that read it before it had its
\* lock (services.py:222, :422, :494, :562); the handlers of callbacks, which read it under
\* the lock (services.py:758), never undo a payment.
THEOREM CallbacksKeepPaid == Spec => PaidLeavesByStaleRead
<1> DEFINE Left == \A c \in Charge : row[c].status = "paid" /\ row'[c].status # "paid" =>
                     \E w \in Worker : WorkerStep(w) /\ ReadBefore(job[w], c)
<1>1. Init => HeldStayPaid
  BY DEF Init, HeldStayPaid, KeepsPaid, Idle, Webhooks
<1>2. IInv /\ HeldStayPaid /\ [Next]_vars => HeldStayPaid'
  BY HeldStayPaidStep
<1>3. IInv /\ HeldStayPaid /\ [Next]_vars => Left
  <2> SUFFICES ASSUME IInv, HeldStayPaid, [Next]_vars PROVE Left
    OBVIOUS
  <2>1. ASSUME NEW w \in Worker, WorkerStep(w) PROVE Left
    BY <2>1, WorkerLeavesPaid DEF LeavesPaid
  <2>2. CASE ~ \E w \in Worker : WorkerStep(w)
    BY <2>2, NobodyActs
  <2>. QED  BY <2>1, <2>2
<1>4. Spec => [][Left]_vars
  BY <1>1, <1>2, <1>3, Inductive, PTL DEF Spec
<1>. QED  BY <1>4 DEF PaidLeavesByStaleRead

-----------------------------------------------------------------------------
(* What a paid charge owes: its event and its message *)

Booked(status, books, counted) ==
  (status = "paid" => books # <<>>) /\ (books # <<>> => counted.paid > 0)

LEMMA BookedRows ==
  PaidHasPaymentEvent /\ SettledIsAnnounced <=>
    \A c \in Charge : Booked(row[c].status, events[c], outbox[c])
  BY DEF PaidHasPaymentEvent, SettledIsAnnounced, Booked

\* One charge is written, with its event and its message.
LEMMA BookWrite ==
  ASSUME IInv, PaidIsBooked, NEW c \in Charge,
         \A d \in Charge : d # c => /\ row'[d].status = row[d].status
                                    /\ events'[d] = events[d] /\ outbox'[d] = outbox[d],
         Booked(row'[c].status, events'[c], outbox'[c])
  PROVE  PaidHasPaymentEvent' /\ SettledIsAnnounced'
<1>1. \A d \in Charge : Booked(row'[d].status, events'[d], outbox'[d])
  BY BookedRows DEF PaidIsBooked
<1>. QED  BY <1>1 DEF PaidHasPaymentEvent, SettledIsAnnounced, Booked

LEMMA AppendedBooks ==
  ASSUME NEW s \in Seq(Note \cup {None}), NEW e \in Note \cup {None}
  PROVE  Append(s, e) # <<>>
<1>1. Len(Append(s, e)) = Len(s) + 1 /\ Len(s) \in Nat
  OBVIOUS
<1>. QED  BY <1>1

\* A charge whose message is counted once more has been announced.
LEMMA Announces == \A n \in 0..OutboxCap : Bump(n) > 0 /\ Bump(n) >= n
  BY BoundAssumption DEF Bump

\* sync_charge_from_gateway writes the status, the event and the message together.
LEMMA SyncCommitBooks ==
  ASSUME KInv, PaidIsBooked, NEW w \in Worker, SyncCommit(w)
  PROVE  PaidHasPaymentEvent' /\ SettledIsAnnounced'
<1> DEFINE j == job[w]
           c == j.charge
           settles == j.status = "paid" /\ ~j.seen
           books == IF settles THEN Append(events[c], None) ELSE events[c]
           counted == [outbox[c] EXCEPT !.paid = IF settles THEN Bump(@) ELSE @]
<1>1. /\ c \in Charge /\ j.pc = "sync_checked" /\ row \in [Charge -> Row]
      /\ events \in [Charge -> Seq(Note \cup {None})] /\ outbox \in [Charge -> Outbox]
  BY Recall DEF SyncCommit, Remembered, KInv, IInv, Typing, RowsOK, BooksOK
<1>2. PICK pdf : row' = [row EXCEPT ![c].status = IF j.write THEN j.status ELSE @, ![c].pdf = pdf]
  BY DEF SyncCommit
<1>3. /\ row'[c].status \in {row[c].status, j.status}
      /\ events' = [events EXCEPT ![c] = books] /\ outbox' = [outbox EXCEPT ![c] = counted]
  BY <1>1, <1>2 DEF SyncCommit, Row
<1>4. Booked(row[c].status, events[c], outbox[c])
  BY <1>1, BookedRows DEF PaidIsBooked
<1>5. Booked(row'[c].status, books, counted)
  <2>1. CASE settles
    <3>1. books # <<>>
      <4>1. events[c] \in Seq(Note \cup {None})
        BY <1>1
      <4>. QED  BY <2>1, <4>1, AppendedBooks
    <3>2. counted.paid > 0
      BY <1>1, <2>1, Announces DEF Outbox
    <3>. QED  BY <3>1, <3>2 DEF Booked
  <2>2. CASE ~settles
    <3>1. books = events[c] /\ counted = outbox[c]
      BY <1>1, <2>2 DEF Outbox
    <3>2. j.status = "paid" => events[c] # <<>>
      BY <1>1, <2>2 DEF PaidIsBooked, SeenEvent, Checked
    <3>. QED  BY <1>3, <1>4, <3>1, <3>2 DEF Booked
  <2>. QED  BY <2>1, <2>2
<1>. HIDE DEF books, counted
<1>6. \A d \in Charge : d # c => /\ row'[d].status = row[d].status
                                 /\ events'[d] = events[d] /\ outbox'[d] = outbox[d]
  BY <1>1, <1>2, <1>3
<1>7. Booked(row'[c].status, events'[c], outbox'[c])
  BY <1>1, <1>3, <1>5
<1>. QED  BY <1>1, <1>6, <1>7, BookWrite DEF KInv

\* A callback that settles a charge announces it, if its row did not read paid.
LEMMA WebhookPayBooks ==
  ASSUME KInv, PaidIsBooked, NEW w \in Worker, WebhookPay(w)
  PROVE  PaidHasPaymentEvent' /\ SettledIsAnnounced'
<1> DEFINE j == job[w]
           c == j.charge
           books == IF j.seen THEN events[c] ELSE Append(events[c], j.note)
           counted == [outbox[c] EXCEPT !.paid = IF j.status = "paid" THEN @ ELSE Bump(@)]
<1>1. /\ c \in Charge /\ j.pc = "wh_checked" /\ row \in [Charge -> Row]
      /\ events \in [Charge -> Seq(Note \cup {None})] /\ outbox \in [Charge -> Outbox]
      /\ j.note \in Note
  BY Recall DEF WebhookPay, Remembered, Webhooks, KInv, IInv, Typing, RowsOK, BooksOK
<1>2. /\ row' = [row EXCEPT ![c].status = "paid"]
      /\ events' = [events EXCEPT ![c] = books] /\ outbox' = [outbox EXCEPT ![c] = counted]
  BY <1>1 DEF WebhookPay, WebhookCommit
<1>3. Booked(row[c].status, events[c], outbox[c])
  BY <1>1, BookedRows DEF PaidIsBooked
<1>4. /\ j.status = "paid" => row[c].status = "paid"
      /\ j.seen => events[c] # <<>>
  BY <1>1 DEF PaidIsBooked, SeenPaid, SeenEvent, Checked
<1>5. books # <<>>
  <2>1. events[c] \in Seq(Note \cup {None})
    BY <1>1
  <2>2. Append(events[c], j.note) # <<>>
    BY <1>1, <2>1, AppendedBooks
  <2>. QED  BY <1>4, <2>2
<1>6. counted.paid > 0
  <2>1. CASE j.status = "paid"
    <3>1. counted.paid = outbox[c].paid
      BY <1>1, <2>1 DEF Outbox
    <3>. QED  BY <1>3, <1>4, <2>1, <3>1 DEF Booked
  <2>2. CASE j.status # "paid"
    BY <1>1, <2>2, Announces DEF Outbox
  <2>. QED  BY <2>1, <2>2
<1>7. Booked("paid", books, counted)
  BY <1>5, <1>6 DEF Booked
<1>. HIDE DEF books, counted
<1>8. \A d \in Charge : d # c => /\ row'[d].status = row[d].status
                                 /\ events'[d] = events[d] /\ outbox'[d] = outbox[d]
  BY <1>1, <1>2
<1>9. Booked(row'[c].status, events'[c], outbox'[c])
  BY <1>1, <1>2, <1>7
<1>. QED  BY <1>1, <1>8, <1>9, BookWrite DEF KInv

\* The other steps write no event and no charge.paid message, and no row reads paid
\* after them that did not before.
LEMMA OtherBooks ==
  ASSUME KInv, EnrichmentFindsNoPayment, NEW w \in Worker, WorkerStep(w),
         ~ SyncCommit(w), ~ WebhookPay(w)
  PROVE  /\ events' = events
         /\ \A c \in Charge : /\ outbox'[c].paid = outbox[c].paid
                              /\ row'[c].status = "paid" => row[c].status = "paid"
<1> DEFINE j == job[w]
           c == j.charge
           Quiet == /\ events' = events
                    /\ \A d \in Charge : /\ outbox'[d].paid = outbox[d].paid
                                         /\ row'[d].status = "paid" => row[d].status = "paid"
<1>0. /\ row \in [Charge -> Row] /\ outbox \in [Charge -> Outbox]
      /\ j \in Job /\ Remembered(j)
  BY Recall DEF KInv, IInv, Typing, RowsOK, BooksOK
<1>1. UNCHANGED <<row, events, outbox>> => Quiet
  OBVIOUS
<1>2. CASE Issue(w)
  <2>1. CASE RegisterCommit(w)
    <3>1. c \in Charge /\ (j.status = "paid" => row[c].status = "paid")
      BY <1>0, <2>1 DEF RegisterCommit, Remembered, EnrichmentFindsNoPayment
    <3>2. PICK pdf : row' = [row EXCEPT ![c] = [status |-> j.status, ref |-> j.ref, pdf |-> pdf]]
      BY <2>1 DEF RegisterCommit
    <3>3. \A d \in Charge : row'[d].status = "paid" => row[d].status = "paid"
      BY <1>0, <3>1, <3>2
    <3>4. \A d \in Charge : outbox'[d].paid = outbox[d].paid
      BY <1>0, <2>1, <3>1 DEF RegisterCommit, Outbox
    <3>. QED  BY <2>1, <3>3, <3>4 DEF RegisterCommit
  <2>. QED  BY <1>1, <1>2, <2>1 DEF Issue, CreateBegin, EmitLoad, Register, EmitRefused, EmitSave,
                                    RegisterFails, RegisterEnrich
<1>3. CASE Cancel(w)
  <2>1. CASE CancelSave(w)
    <3>1. c \in Charge
      BY <1>0, <2>1 DEF CancelSave, Remembered
    <3>2. \A d \in Charge : outbox'[d].paid = outbox[d].paid
      BY <1>0, <2>1, <3>1 DEF CancelSave, Outbox
    <3>3. \A d \in Charge : row'[d].status = "paid" => row[d].status = "paid"
      BY <1>0, <2>1, <3>1 DEF CancelSave, Row
    <3>. QED  BY <2>1, <3>2, <3>3 DEF CancelSave
  <2>. QED  BY <1>1, <1>3, <2>1 DEF Cancel, CancelLoad, CancelAtBank, CancelRefused
<1>4. CASE Sync(w)
  BY <1>1, <1>4 DEF Sync, SyncLoad, SyncConsult, SyncConsultFails, SyncSave
<1>5. CASE Overdue(w)
  BY <1>0, <1>1, <1>5 DEF Overdue, OverdueRead, OverdueWrite, Row
<1>6. CASE Webhook(w)
  <2>1. CASE WebhookLifecycle(w) \/ WebhookAmountMismatch(w)
    <3>1. c \in Charge /\ (j.status = "paid" => row[c].status = "paid")
      BY <1>0, <2>1 DEF WebhookLifecycle, WebhookAmountMismatch, Remembered, EnrichmentFindsNoPayment
    <3>2. PICK status : row' = [row EXCEPT ![c].status = status] /\ (status = "paid" => j.status = "paid")
      <4>1. CASE WebhookAmountMismatch(w)
        BY <4>1 DEF WebhookAmountMismatch, WebhookCommit
      <4>2. CASE WebhookLifecycle(w)
        <5>1. j.sit \in Situation /\ ~IsPayment(j.sit)
          BY <1>0, <4>2 DEF WebhookLifecycle, Remembered
        <5>2. Apply(j.status, HubStatus[j.sit]) = "paid" => j.status = "paid"
          BY <5>1, PaidWord
        <5>. QED  BY <4>2, <5>2 DEF WebhookLifecycle, WebhookCommit
      <4>. QED  BY <2>1, <4>1, <4>2
    <3>3. \A d \in Charge : row'[d].status = "paid" => row[d].status = "paid"
      BY <1>0, <3>1, <3>2 DEF Row
    <3>. QED  BY <2>1, <3>3 DEF WebhookLifecycle, WebhookAmountMismatch
  <2>. QED  BY <1>1, <1>6, <2>1 DEF Webhook, Ingest, Reprocess, LockCharge, Unmatched,
                                    ReprocessLoad, WebhookEnrich, WebhookEnrichFails
<1>7. CASE CheckPaymentEvent(w) \/ Crash(w)
  BY <1>1, <1>7 DEF CheckPaymentEvent, Crash
<1>. QED  BY <1>2, <1>3, <1>4, <1>5, <1>6, <1>7 DEF WorkerStep

\* What a worker has in mind when it is about to settle a charge.
LEMMA ActorSees ==
  ASSUME KInv, EnrichmentFindsNoPayment, NEW w \in Worker, WorkerStep(w)
  PROVE  SeenPaid(job[w])' /\ SeenEvent(job[w])'
<1> DEFINE j == job[w]
           c == j.charge
           Kept == SeenPaid(job[w])' /\ SeenEvent(job[w])'
<1>0. job \in [Worker -> Job] /\ j \in Job
  BY Recall DEF KInv, IInv, Typing, JobsOK
<1>1. ASSUME NEW r, job' = [job EXCEPT ![w] = r], r.pc \notin Checked PROVE Kept
  BY <1>0, <1>1 DEF SeenPaid, SeenEvent, Checked
<1>2. Finish(w) => Kept
  BY <1>1 DEF Finish, Idle, Checked
<1>3. CASE CheckPaymentEvent(w)
  <2>1. /\ job'[w].charge = c /\ job'[w].status = j.status /\ row' = row /\ events' = events
        /\ job'[w].seen = (events[c] # <<>>)
        /\ job'[w].pc = "wh_checked" => j.pc = "wh_ready"
    BY <1>0, <1>3 DEF CheckPaymentEvent, Job
  <2>2. SeenPaid(job[w])'
    BY <2>1 DEF SeenPaid, EnrichmentFindsNoPayment
  <2>. QED  BY <2>1, <2>2 DEF SeenEvent
<1>4. CASE Issue(w)
  <2>1. ASSUME NEW d \in Charge, CreateBegin(w, d) \/ EmitLoad(w, d) PROVE Kept
    BY <1>1, <2>1 DEF CreateBegin, EmitLoad, Idle, Checked
  <2>2. ASSUME NEW s \in Slip, Register(w, s) PROVE Kept
    BY <1>0, <2>2 DEF Register, Job, SeenPaid, SeenEvent, Checked
  <2>3. CASE EmitSave(w)
    BY <1>0, <2>3 DEF EmitSave, Job, SeenPaid, SeenEvent, Checked
  <2>4. CASE RegisterEnrich(w)
    BY <1>0, <2>4 DEF RegisterEnrich, Job, SeenPaid, SeenEvent, Checked
  <2>. QED  BY <1>2, <1>4, <2>1, <2>2, <2>3, <2>4 DEF Issue, EmitRefused, RegisterFails, RegisterCommit
<1>5. CASE Cancel(w)
  <2>1. ASSUME NEW d \in Charge, CancelLoad(w, d) PROVE Kept
    BY <1>1, <2>1 DEF CancelLoad, Idle, Checked
  <2>2. CASE CancelAtBank(w)
    <3>1. CASE job' = [job EXCEPT ![w].pc = "cancel_at_bank"]
      BY <1>0, <2>2, <3>1 DEF CancelAtBank, Job, SeenPaid, SeenEvent, Checked
    <3>. QED  BY <1>2, <2>2, <3>1 DEF CancelAtBank
  <2>. QED  BY <1>2, <1>5, <2>1, <2>2 DEF Cancel, CancelRefused, CancelSave
<1>6. CASE Sync(w)
  <2>1. ASSUME NEW d \in Charge, SyncLoad(w, d) PROVE Kept
    BY <1>1, <2>1 DEF SyncLoad, Idle, Checked
  <2>2. CASE SyncConsult(w)
    BY <1>0, <2>2 DEF SyncConsult, Job, SeenPaid, SeenEvent, Checked
  <2>3. CASE SyncSave(w)
    BY <1>0, <2>3 DEF SyncSave, Job, SeenPaid, SeenEvent, Checked
  <2>. QED  BY <1>2, <1>6, <2>1, <2>2, <2>3 DEF Sync, SyncConsultFails, SyncCommit
<1>7. CASE Overdue(w)
  BY <1>1, <1>2, <1>7 DEF Overdue, OverdueRead, OverdueWrite, Idle, Checked
<1>8. CASE Webhook(w)
  <2>1. ASSUME NEW n \in Note, NEW sit, LockCharge(w, n, sit) PROVE Kept
    <3> DEFINE pc == IF sit = "light" THEN "wh_enrich" ELSE "wh_ready"
               r == [Idle EXCEPT !.pc = pc, !.charge = n.charge, !.note = n, !.sit = sit,
                                 !.status = row[n.charge].status, !.ref = row[n.charge].ref]
    <3>1. r.pc \notin Checked
      BY DEF Idle, Checked
    <3>2. job' = [job EXCEPT ![w] = r]
      BY <2>1 DEF LockCharge
    <3>. HIDE DEF r
    <3>. QED  BY <1>1, <3>1, <3>2
  <2>2. ASSUME NEW n \in Note, ReprocessLoad(w, n) PROVE Kept
    BY <1>1, <2>2 DEF ReprocessLoad, Idle, Checked
  <2>3. CASE WebhookEnrich(w)
    BY <1>0, <2>3 DEF WebhookEnrich, Job, SeenPaid, SeenEvent, Checked
  <2>4. CASE Reprocess(w)
    BY <1>2, <2>1, <2>4, Recall DEF Reprocess, Remembered, Unmatched
  <2>. QED  BY <1>2, <1>8, <2>1, <2>2, <2>3, <2>4
            DEF Webhook, Ingest, Unmatched, WebhookEnrichFails, WebhookLifecycle,
                WebhookAmountMismatch, WebhookPay, WebhookCommit
<1>9. CASE Crash(w)
  BY <1>2, <1>9 DEF Crash
<1>. QED  BY <1>3, <1>4, <1>5, <1>6, <1>7, <1>8, <1>9 DEF WorkerStep

\* No step takes an event out of the books.
LEMMA EventsStay ==
  ASSUME KInv, EnrichmentFindsNoPayment, NEW w \in Worker, WorkerStep(w)
  PROVE  InBooks \subseteq InBooks'
<1> DEFINE j == job[w]
<1>1. j \in Job /\ Remembered(j)
  BY Recall
<1>2. CASE SyncCommit(w)
  <2>1. j.charge \in Charge
    BY <1>1, <1>2 DEF SyncCommit, Remembered
  <2>. QED  BY <1>2, <2>1, BooksGrow DEF SyncCommit
<1>3. CASE WebhookPay(w)
  <2> DEFINE settles == ~j.seen
  <2>1. j.charge \in Charge /\ j.note \in Note
    BY <1>1, <1>3 DEF WebhookPay, Remembered, Webhooks
  <2>2. events' = [events EXCEPT ![j.charge] = IF settles THEN Append(@, j.note) ELSE @]
    BY <1>3 DEF WebhookPay
  <2>. QED  BY <2>1, <2>2, BooksGrow
<1>. QED  BY <1>2, <1>3, OtherBooks DEF InBooks

LEMMA PaidIsBookedStep ==
  ASSUME KInv, EnrichmentFindsNoPayment, PaidIsBooked, [Next]_vars
  PROVE  PaidIsBooked'
<1>1. ASSUME NEW w \in Worker, WorkerStep(w) PROVE PaidIsBooked'
  <2>1. PaidHasPaymentEvent' /\ SettledIsAnnounced'
    <3>1. CASE SyncCommit(w)
      BY <3>1, SyncCommitBooks
    <3>2. CASE WebhookPay(w)
      BY <3>2, WebhookPayBooks
    <3>3. CASE ~ SyncCommit(w) /\ ~ WebhookPay(w)
      BY <1>1, <3>3, OtherBooks DEF PaidIsBooked, PaidHasPaymentEvent, SettledIsAnnounced
    <3>. QED  BY <3>1, <3>2, <3>3
  <2>2. ASSUME NEW v \in Worker, v # w PROVE SeenPaid(job[v])' /\ SeenEvent(job[v])'
    <3>1. SeenPaid(job[v])'
      BY <1>1, <2>2, OthersKeep DEF KInv, PaidIsBooked
    <3>2. SeenEvent(job[v])'
      <4>1. job'[v] = job[v] /\ SeenEvent(job[v]) /\ (job[v].pc \in Checked => job[v].charge \in Charge)
        BY <1>1, <2>2, OneWorkerActs, Recall DEF KInv, PaidIsBooked, Remembered, Checked
      <4>. QED  BY <1>1, <4>1, EventsStay DEF SeenEvent, InBooks
    <3>. QED  BY <3>1, <3>2
  <2>3. SeenPaid(job[w])' /\ SeenEvent(job[w])'
    BY <1>1, ActorSees
  <2>. QED  BY <2>1, <2>2, <2>3 DEF PaidIsBooked
<1>2. CASE ~ \E w \in Worker : WorkerStep(w)
  <2>1. UNCHANGED <<events, outbox, job>> /\ \A c \in Charge : row'[c].status = row[c].status
    BY <1>2, NobodyActs DEF KInv
  <2>2. \A w \in Worker : job[w].pc \in Checked => job[w].charge \in Charge
    BY Recall DEF Remembered, Checked
  <2>. QED  BY <2>1, <2>2 DEF PaidIsBooked, PaidHasPaymentEvent, SettledIsAnnounced, SeenPaid,
                              SeenEvent, Checked
<1>. QED  BY <1>1, <1>2

\* A charge becomes paid only through a PaymentEvent, and whoever settles it enqueues
\* charge.paid, however syncs, callbacks and crashes interleave - as long as no
\* enrichment of a registration or a light callback is the first to find the payment.
THEOREM PaidIsBookedAndAnnounced ==
  Spec /\ []EnrichmentFindsNoPayment => [](PaidHasPaymentEvent /\ SettledIsAnnounced)
<1>1. Init => PaidIsBooked
  BY DEF Init, PaidIsBooked, PaidHasPaymentEvent, SettledIsAnnounced, SeenPaid, SeenEvent, Checked,
         Idle, Absent, Local
<1>2. KInv /\ EnrichmentFindsNoPayment /\ PaidIsBooked /\ [Next]_vars => PaidIsBooked'
  BY PaidIsBookedStep
<1>3. PaidIsBooked => PaidHasPaymentEvent /\ SettledIsAnnounced
  BY DEF PaidIsBooked
<1>. QED  BY <1>1, <1>2, <1>3, KnowledgeInvariant, PTL DEF Spec

=============================================================================
