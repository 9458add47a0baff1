---------------------------- MODULE IssuanceProofs ----------------------------
(***************************************************************************)
(* Proofs about Issuance: its type invariant, that the Hub shows an        *)
(* invoice as authorized or cancelled only if the provider has it so, and  *)
(* that a status is left only along the arrows of fsm.py, for any          *)
(* invoices, requests, Celery workers, bounds and faults.                  *)
(***************************************************************************)
EXTENDS Issuance, TLAPS

-----------------------------------------------------------------------------
(* The inductive invariant *)

\* Invoices whose note the provider has authorized, and has cancelled; what
\* was authorized stays so, and a cancellation is final.
IssuedNotes == {i \in Invoice : note[i].sit \in Issued}
CancelledNotes == {i \in Invoice : note[i].sit = "cancelled"}
\* Invoices the provider has accepted at least once.
PostedNotes == {i \in Invoice : note[i].posts > 0}

Row == [status : Status \cup {"absent"}, ref : BOOLEAN, files : BOOLEAN]
Note == [sit : Situation, posts : 0..MaxPosts]
Job == [pc : PC, invoice : Invoice \cup {None}, status : Status \cup {"absent"},
        answer : Situation, retries : 0..MaxRetries]

\* Program points at which a worker remembers the status it polls.
Polling == {"consult", "consulted", "poll_loaded", "poll_answered"}

\* What is polled or submitted has been, or will be, posted.
Remembered(j, posted) ==
  /\ j.pc # "idle" => j.invoice \in Invoice
  /\ j.pc \in Polling => j.status \in {"polling", "authorized"}
  /\ j.pc = "files_loaded" => j.status = "authorized"
  /\ j.pc \in Polling \cup {"submitted", "scheduled"} => j.invoice \in posted

JobsOK ==
  /\ job \in [Worker -> Job]
  /\ \A w \in Worker : Remembered(job[w], PostedNotes)

RowsOK ==
  /\ row \in [Invoice -> Row]
  /\ tasks \in [Invoice -> 0..MaxTasks]
  /\ \A i \in Invoice : row[i].status = "absent" => tasks[i] = 0
  /\ \A i \in Invoice : row[i].status \in {"polling", "authorized"} => i \in PostedNotes

\* What the provider knows of, it has accepted.
KnownIsPosted == \A i \in Invoice : note[i].sit # "none" => note[i].posts > 0

ProviderOK ==
  /\ note \in [Invoice -> Note]
  /\ KnownIsPosted
  /\ sent \in SUBSET Callback /\ processed \in SUBSET sent

QueuesOK == polls \in SUBSET Poll /\ lock \in [Invoice -> Worker \cup {None}]

Typing == ProviderOK /\ RowsOK /\ JobsOK /\ QueuesOK

\* A status or an answer a worker remembers was the provider's, and what the
\* provider once said of an authorization or a cancellation still holds.
Knows(j, issued, cancelled) ==
  /\ j.pc # "idle" /\ j.status = "authorized" => j.invoice \in issued
  /\ j.pc # "idle" /\ j.answer \in Issued => j.invoice \in issued
  /\ j.pc # "idle" /\ j.answer = "cancelled" => j.invoice \in cancelled
  /\ j.pc = "cancel_done" => j.invoice \in cancelled

JobsKnow == \A w \in Worker : Knows(job[w], IssuedNotes, CancelledNotes)

CallbacksKnow ==
  \A c \in sent :
    /\ c.status = "authorized" => c.invoice \in IssuedNotes
    /\ c.status = "cancelled" => c.invoice \in CancelledNotes

\* The two properties are not inductive by themselves: what is written was
\* remembered or called back.
Knowledge == JobsKnow /\ CallbacksKnow /\ AuthorizedAtProvider /\ CancelledAtProvider

IInv == Typing /\ Knowledge

-----------------------------------------------------------------------------
(* What a step never takes back, and lemmas on single writes *)

NotesRemain ==
  /\ IssuedNotes \subseteq IssuedNotes' /\ CancelledNotes \subseteq CancelledNotes'
  /\ PostedNotes \subseteq PostedNotes'

LEMMA NoteUnchanged ==
  ASSUME IInv, UNCHANGED <<note, sent>>, processed' \in SUBSET sent
  PROVE  /\ ProviderOK' /\ CallbacksKnow' /\ NotesRemain
         /\ IssuedNotes' = IssuedNotes /\ CancelledNotes' = CancelledNotes
         /\ PostedNotes' = PostedNotes
  BY DEF IInv, Typing, ProviderOK, KnownIsPosted, Knowledge, CallbacksKnow, NotesRemain, IssuedNotes,
         CancelledNotes, PostedNotes

\* The provider's side of an invoice changes, for the later.
LEMMA NoteWrite ==
  ASSUME IInv, NEW i \in Invoice, NEW v \in Note, note' = [note EXCEPT ![i] = v],
         note[i].sit \in Issued => v.sit \in Issued,
         note[i].sit = "cancelled" => v.sit = "cancelled",
         v.posts >= note[i].posts, v.sit # "none" => v.posts > 0
  PROVE  /\ note' \in [Invoice -> Note] /\ NotesRemain /\ KnownIsPosted'
         /\ v.sit \in Issued => i \in IssuedNotes'
         /\ v.sit = "cancelled" => i \in CancelledNotes'
         /\ v.posts > 0 => i \in PostedNotes'
<1>1. /\ note \in [Invoice -> Note] /\ note'[i] = v
      /\ \A k \in Invoice : k # i => note'[k] = note[k]
  BY DEF IInv, Typing, ProviderOK
<1>2. note' \in [Invoice -> Note]
  BY <1>1
<1>3. \A k \in Invoice : note[k].posts > 0 => note'[k].posts > 0
  <2>1. note[i] \in Note
    BY <1>1
  <2>2. note[i].posts > 0 => v.posts > 0
    BY <2>1 DEF Note
  <2>. QED  BY <1>1, <2>2
<1>4. NotesRemain
  BY <1>1, <1>3 DEF NotesRemain, IssuedNotes, CancelledNotes, PostedNotes
<1>5. KnownIsPosted'
  BY <1>1, <1>3 DEF IInv, Typing, ProviderOK, KnownIsPosted
<1>. QED  BY <1>1, <1>2, <1>4, <1>5 DEF IssuedNotes, CancelledNotes, PostedNotes

\* The provider calls back on what is so now.
LEMMA CallBackKnows ==
  ASSUME IInv, NotesRemain, note' \in [Invoice -> Note],
         KnownIsPosted', UNCHANGED processed,
         NEW i \in Invoice, NEW status, UNCHANGED sent \/ CallBack(i, status),
         status = "authorized" => i \in IssuedNotes',
         status = "cancelled" => i \in CancelledNotes'
  PROVE  ProviderOK' /\ CallbacksKnow'
<1>1. /\ sent' \in SUBSET Callback /\ sent \subseteq sent'
      /\ \A c \in sent' : c \in sent \/ (c.invoice = i /\ c.status = status)
  BY DEF CallBack, IInv, Typing, ProviderOK
<1>2. ProviderOK'
  BY <1>1 DEF IInv, Typing, ProviderOK
<1>3. CallbacksKnow'
  BY <1>1 DEF IInv, Knowledge, CallbacksKnow, NotesRemain
<1>. QED  BY <1>2, <1>3

LEMMA KnowsStill ==
  ASSUME NotesRemain, NEW j,
         Remembered(j, PostedNotes), Knows(j, IssuedNotes, CancelledNotes)
  PROVE  Remembered(j, PostedNotes') /\ Knows(j, IssuedNotes', CancelledNotes')
  BY DEF NotesRemain, Remembered, Knows

\* One worker's memory changes.
LEMMA JobWrite ==
  ASSUME IInv, NotesRemain, NEW w \in Worker, NEW r \in Job,
         Remembered(r, PostedNotes'), Knows(r, IssuedNotes', CancelledNotes'),
         job' = [job EXCEPT ![w] = r]
  PROVE  JobsOK' /\ JobsKnow'
<1>1. job' \in [Worker -> Job]
  BY DEF IInv, Typing, JobsOK
<1>2. ASSUME NEW v \in Worker
      PROVE  Remembered(job'[v], PostedNotes') /\ Knows(job'[v], IssuedNotes', CancelledNotes')
  <2>1. CASE v = w
    BY <2>1 DEF IInv, Typing, JobsOK
  <2>2. CASE v # w
    <3>1. /\ job'[v] = job[v] /\ Remembered(job[v], PostedNotes)
          /\ Knows(job[v], IssuedNotes, CancelledNotes)
      BY <2>2 DEF IInv, Typing, JobsOK, Knowledge, JobsKnow
    <3>. QED  BY <3>1, KnowsStill
  <2>. QED  BY <2>1, <2>2
<1>. QED  BY <1>1, <1>2 DEF JobsOK, JobsKnow

LEMMA IdleOK ==
  /\ Idle \in Job
  /\ \A posted : Remembered(Idle, posted)
  /\ \A issued, cancelled : Knows(Idle, issued, cancelled)
  BY BoundAssumption DEF Idle, Job, PC, InTx, Situation, Remembered, Polling, Knows

LEMMA JobEnds ==
  ASSUME IInv, NotesRemain, NEW w \in Worker, Finish(w)
  PROVE  JobsOK' /\ JobsKnow'
  BY JobWrite, IdleOK DEF Finish

LEMMA JobsSame ==
  ASSUME IInv, NotesRemain, UNCHANGED job
  PROVE  JobsOK' /\ JobsKnow'
<1>1. \A v \in Worker : Remembered(job[v], PostedNotes') /\ Knows(job[v], IssuedNotes', CancelledNotes')
  BY KnowsStill DEF IInv, Typing, JobsOK, Knowledge, JobsKnow
<1>. QED  BY <1>1 DEF IInv, Typing, JobsOK, JobsKnow

\* What the properties and the types say of the rows.
RowsFit == RowsOK /\ AuthorizedAtProvider /\ CancelledAtProvider

LEMMA RowsSame ==
  ASSUME IInv, NotesRemain, UNCHANGED <<row, tasks>>
  PROVE  RowsFit'
  BY DEF IInv, Typing, RowsOK, Knowledge, AuthorizedAtProvider, CancelledAtProvider, RowsFit,
         NotesRemain, IssuedNotes, CancelledNotes, PostedNotes

\* An invoice is written, and a message about it may be enqueued.
LEMMA RowWrite ==
  ASSUME IInv, NotesRemain, ProviderOK', NEW i \in Invoice, NEW v \in Row,
         row' = [row EXCEPT ![i] = v], v.status = "absent" => tasks'[i] = 0,
         tasks' \in [Invoice -> 0..MaxTasks],
         \A k \in Invoice : k # i => tasks'[k] = tasks[k],
         v.status = "authorized" \/ v.files => i \in IssuedNotes',
         v.status = "cancelled" => i \in CancelledNotes',
         v.status = "polling" => i \in PostedNotes'
  PROVE  RowsFit'
<1>1. /\ row' \in [Invoice -> Row] /\ row'[i] = v
      /\ \A k \in Invoice : k # i => row'[k] = row[k]
  BY DEF IInv, Typing, RowsOK
<1>2. RowsOK'
  <2>1. i \in IssuedNotes' => i \in PostedNotes'
    BY DEF ProviderOK, KnownIsPosted, IssuedNotes, PostedNotes, Issued
  <2>. QED  BY <1>1, <2>1 DEF IInv, Typing, RowsOK, NotesRemain
<1>3. AuthorizedAtProvider' /\ CancelledAtProvider'
  BY <1>1 DEF IInv, Knowledge, AuthorizedAtProvider, CancelledAtProvider, NotesRemain,
              IssuedNotes, CancelledNotes
<1>. QED  BY <1>2, <1>3 DEF RowsFit

\* transition(), by whichever handler.
LEMMA WriteFits ==
  ASSUME IInv, NotesRemain, ProviderOK', NEW i \in Invoice, NEW to \in Status,
         NEW ref \in BOOLEAN, Write(i, to, ref), UNCHANGED tasks,
         to = "authorized" => i \in IssuedNotes',
         to = "cancelled" => i \in CancelledNotes',
         to = "polling" => i \in PostedNotes'
  PROVE  RowsFit'
<1>1. PICK files \in Files(i, to) :
        row' = [row EXCEPT ![i] = [status |-> to, ref |-> ref, files |-> files]]
  BY DEF Write
<1> DEFINE v == [status |-> to, ref |-> ref, files |-> files]
<1>2. row[i] \in Row
  BY DEF IInv, Typing, RowsOK
<1>3. files \in BOOLEAN /\ (files => i \in IssuedNotes')
  <2>1. CASE files = row[i].files
    BY <1>2, <2>1 DEF Row, IInv, Knowledge, AuthorizedAtProvider, NotesRemain, IssuedNotes
  <2>2. CASE files # row[i].files
    BY <1>1, <2>2 DEF Files
  <2>. QED  BY <2>1, <2>2
<1>4. v \in Row /\ v.status = to /\ v.files = files /\ to # "absent"
  BY <1>3 DEF Row, Status, FsmStatus, Allowed
<1>5. tasks' \in [Invoice -> 0..MaxTasks] /\ \A k \in Invoice : tasks'[k] = tasks[k]
  BY DEF IInv, Typing, RowsOK
<1>6. row' = [row EXCEPT ![i] = v]
  BY <1>1
<1>. HIDE DEF v
<1>. QED  BY <1>3, <1>4, <1>5, <1>6, RowWrite

LEMMA QueuesSame ==
  ASSUME IInv, polls' \in SUBSET Poll, lock' \in [Invoice -> Worker \cup {None}]
  PROVE  QueuesOK'
  BY DEF QueuesOK

LEMMA LockTypes ==
  ASSUME IInv, NEW w \in Worker
  PROVE  /\ \A i \in Invoice : [lock EXCEPT ![i] = w] \in [Invoice -> Worker \cup {None}]
         /\ Unlock(w) => lock' \in [Invoice -> Worker \cup {None}]
         /\ lock \in [Invoice -> Worker \cup {None}] /\ polls \in SUBSET Poll
  BY DEF IInv, Typing, QueuesOK, Unlock

LEMMA Together ==
  ASSUME ProviderOK', CallbacksKnow', RowsFit', JobsOK', JobsKnow', QueuesOK'
  PROVE  IInv'
  BY DEF IInv, Typing, Knowledge, RowsFit

LEMMA Recall ==
  ASSUME IInv, NEW w \in Worker
  PROVE  /\ job[w] \in Job /\ Remembered(job[w], PostedNotes)
         /\ Knows(job[w], IssuedNotes, CancelledNotes)
  BY DEF IInv, Typing, JobsOK, Knowledge, JobsKnow

\* A request or task that only reads, or takes a lock.
LEMMA ReadKeeps ==
  ASSUME IInv, UNCHANGED <<row, note, sent, processed, tasks>>,
         polls' \in SUBSET Poll, lock' \in [Invoice -> Worker \cup {None}],
         NEW w \in Worker, NEW r \in Job, Remembered(r, PostedNotes),
         Knows(r, IssuedNotes, CancelledNotes), job' = [job EXCEPT ![w] = r]
  PROVE  IInv'
<1>1. /\ ProviderOK' /\ CallbacksKnow' /\ NotesRemain
      /\ IssuedNotes' = IssuedNotes /\ CancelledNotes' = CancelledNotes
      /\ PostedNotes' = PostedNotes
  <2>1. processed' \in SUBSET sent
    BY DEF IInv, Typing, ProviderOK
  <2>. QED  BY <2>1, NoteUnchanged
<1>2. RowsFit'
  BY <1>1, RowsSame
<1>3. JobsOK' /\ JobsKnow'
  BY <1>1, JobWrite
<1>. QED  BY <1>1, <1>2, <1>3, QueuesSame, Together

\* A request or task that only ends, and one that ends after a write to its row.
LEMMA EndKeeps ==
  ASSUME IInv, UNCHANGED <<row, note, sent, processed, tasks, polls>>,
         lock' \in [Invoice -> Worker \cup {None}], NEW w \in Worker, Finish(w)
  PROVE  IInv'
<1>1. polls' \in SUBSET Poll /\ job' = [job EXCEPT ![w] = Idle]
  BY DEF IInv, Typing, QueuesOK, Finish
<1>. QED  BY <1>1, IdleOK, ReadKeeps

LEMMA SaveKeeps ==
  ASSUME IInv, UNCHANGED <<note, sent, processed>>, RowsFit',
         polls' \in SUBSET Poll, lock' \in [Invoice -> Worker \cup {None}],
         NEW w \in Worker, Finish(w)
  PROVE  IInv'
<1>1. ProviderOK' /\ CallbacksKnow' /\ NotesRemain
  BY NoteUnchanged DEF IInv, Typing, ProviderOK
<1>. QED  BY <1>1, JobEnds, QueuesSame, Together

\* transition() before the end of a request or a task: IInv again.
LEMMA TransitionKeeps ==
  ASSUME IInv, UNCHANGED <<note, sent, processed, tasks>>, NEW w \in Worker, Finish(w),
         polls' \in SUBSET Poll, lock' \in [Invoice -> Worker \cup {None}],
         NEW i \in Invoice, NEW to \in Status, NEW ref \in BOOLEAN,
         UNCHANGED row \/ Write(i, to, ref),
         to = "authorized" => i \in IssuedNotes,
         to = "cancelled" => i \in CancelledNotes,
         to = "polling" => i \in PostedNotes
  PROVE  IInv'
<1>1. /\ ProviderOK' /\ NotesRemain
      /\ IssuedNotes' = IssuedNotes /\ CancelledNotes' = CancelledNotes
      /\ PostedNotes' = PostedNotes
  BY NoteUnchanged DEF IInv, Typing, ProviderOK
<1>2. RowsFit'
  BY <1>1, RowsSame, WriteFits
<1>. QED  BY <1>2, SaveKeeps

-----------------------------------------------------------------------------
(* One lemma per action *)

LEMMA LateSituations ==
  ASSUME NEW old \in Situation, NEW new \in NextSituation[old]
  PROVE  /\ new \in Situation /\ new \in {"authorized", "error", "cancelled"}
         /\ old \in Issued => new \in Issued
         /\ old # "cancelled" /\ old # "none"
  BY DEF NextSituation, Situation, Issued

LEMMA RowTypes ==
  ASSUME IInv, NEW i \in Invoice
  PROVE  /\ row[i] \in Row /\ row[i].status \in Status \cup {"absent"}
         /\ row[i].ref \in BOOLEAN /\ row[i].files \in BOOLEAN
         /\ row[i].files \/ row[i].status = "authorized" => i \in IssuedNotes
         /\ row[i].status = "cancelled" => i \in CancelledNotes
         /\ row[i].status \in {"polling", "authorized"} => i \in PostedNotes
         /\ tasks[i] \in 0..MaxTasks /\ (row[i].status = "absent" => tasks[i] = 0)
  BY DEF IInv, Typing, RowsOK, Row, Knowledge, AuthorizedAtProvider, CancelledAtProvider,
         IssuedNotes, CancelledNotes

LEMMA CreateKeeps == ASSUME IInv, NEW i \in Invoice, Create(i) PROVE IInv'
<1>1. /\ ProviderOK' /\ CallbacksKnow' /\ NotesRemain
      /\ IssuedNotes' = IssuedNotes
  BY NoteUnchanged DEF IInv, Typing, ProviderOK, Create
<1>2. JobsOK' /\ JobsKnow'
  BY <1>1, JobsSame DEF Create
<1>3. QueuesOK'
  BY QueuesSame DEF IInv, Typing, QueuesOK, Create
<1>4. ASSUME NEW s \in {"queued", "rejected"}, row' = [row EXCEPT ![i].status = s],
             UNCHANGED tasks \/ Enqueue(i)
      PROVE  RowsFit'
  <2> DEFINE v == [row[i] EXCEPT !.status = s]
  <2>1. v \in Row /\ v.status = s /\ v.files = row[i].files
    BY RowTypes DEF Row, Status, FsmStatus, Allowed
  <2>2. row' = [row EXCEPT ![i] = v]
    BY <1>4
  <2>3. /\ tasks' \in [Invoice -> 0..MaxTasks]
        /\ \A k \in Invoice : k # i => tasks'[k] = tasks[k]
    <3>1. /\ tasks \in [Invoice -> 0..MaxTasks]
          /\ tasks[i] = 0 /\ MaxTasks \in Nat \ {0} /\ 1 \in 0..MaxTasks
      BY RowTypes, BoundAssumption DEF Create, IInv, Typing, RowsOK
    <3>2. UNCHANGED tasks \/ tasks' = [tasks EXCEPT ![i] = 1]
      BY <1>4, <3>1 DEF Enqueue
    <3>. QED  BY <3>1, <3>2
  <2>4. /\ v.status = "absent" => tasks'[i] = 0
        /\ v.status = "authorized" \/ v.files => i \in IssuedNotes'
        /\ v.status = "cancelled" => i \in CancelledNotes'
        /\ v.status = "polling" => i \in PostedNotes'
    BY <1>1, <1>4, <2>1, RowTypes
  <2>. HIDE DEF v
  <2>. QED  BY <1>1, <2>1, <2>2, <2>3, <2>4, RowWrite
<1>5. RowsFit'
  BY <1>4 DEF Create
<1>. QED  BY <1>1, <1>2, <1>3, <1>5, Together

LEMMA ProviderDecidesKeeps ==
  ASSUME IInv, NEW i \in Invoice, ProviderDecides(i) PROVE IInv'
<1>1. PICK new \in NextSituation[note[i].sit] :
        note' = [note EXCEPT ![i].sit = new] /\ CallBack(i, new)
  BY DEF ProviderDecides
<1> DEFINE v == [note[i] EXCEPT !.sit = new]
<1>2. /\ note[i] \in Note /\ note[i].sit \in Situation
      /\ note[i].sit # "none" => note[i].posts > 0
  BY DEF IInv, Typing, ProviderOK, Note, KnownIsPosted
<1>3. /\ v \in Note /\ v.sit = new /\ v.posts = note[i].posts /\ new # "none"
      /\ note[i].sit \in Issued => new \in Issued
      /\ note[i].sit # "cancelled" /\ note[i].posts \in Nat
  BY <1>2, LateSituations, BoundAssumption DEF Note
<1>4. note' = [note EXCEPT ![i] = v]
  BY <1>1
<1>5. v.posts > 0
  BY <1>2, <1>3, LateSituations
<1>6. note' \in [Invoice -> Note] /\ NotesRemain /\ KnownIsPosted'
      /\ (new \in Issued => i \in IssuedNotes') /\ (new = "cancelled" => i \in CancelledNotes')
  <2>1. v.posts >= note[i].posts
    BY <1>3
  <2>. HIDE DEF v
  <2>. QED  BY <1>3, <1>4, <1>5, <2>1, NoteWrite
<1>7. ProviderOK' /\ CallbacksKnow'
  BY <1>1, <1>6, CallBackKnows DEF ProviderDecides, Issued
<1>8. RowsFit' /\ JobsOK' /\ JobsKnow'
  BY <1>6, RowsSame, JobsSame DEF ProviderDecides
<1>9. QueuesOK'
  BY DEF ProviderDecides, IInv, Typing, QueuesOK
<1>. QED  BY <1>6, <1>7, <1>8, <1>9, Together

LEMMA WebhookKeeps == ASSUME IInv, NEW c \in Callback, Webhook(c) PROVE IInv'
<1> DEFINE i == c.invoice
<1> DEFINE new == AfterCallback(row[i].status, c.status)
<1>1. /\ i \in Invoice /\ c \in sent
      /\ c.status \in {"authorized", "cancelled", "error"}
      /\ row[i].status \in Status
      /\ c.status = "authorized" => i \in IssuedNotes
      /\ c.status = "cancelled" => i \in CancelledNotes
  BY RowTypes DEF Webhook, Callback, IInv, Knowledge, CallbacksKnow
<1>2. /\ ProviderOK' /\ CallbacksKnow' /\ NotesRemain
      /\ IssuedNotes' = IssuedNotes /\ CancelledNotes' = CancelledNotes
      /\ PostedNotes' = PostedNotes
  BY NoteUnchanged DEF Webhook, IInv, Typing, ProviderOK
<1>3. JobsOK' /\ JobsKnow' /\ QueuesOK'
  BY <1>2, JobsSame DEF Webhook, IInv, Typing, QueuesOK
<1>4. RowsFit'
  <2>1. CASE new # row[i].status
    <3>1. /\ new \in Status /\ new # "polling"
          /\ new = "authorized" => c.status = "authorized"
          /\ new = "cancelled" => c.status = "cancelled"
      BY <1>1, <2>1 DEF AfterCallback, Status, FsmStatus, Allowed
    <3>2. Write(i, new, TRUE) /\ UNCHANGED tasks
      BY <2>1 DEF Webhook
    <3>. HIDE DEF new, i
    <3>. QED  BY <1>1, <1>2, <3>1, <3>2, WriteFits
  <2>2. CASE new = row[i].status
    <3> DEFINE v == [row[i] EXCEPT !.ref = TRUE]
    <3>1. /\ v \in Row /\ v.status = row[i].status /\ v.files = row[i].files
          /\ v.status # "absent"
      BY <1>1, RowTypes DEF Row, Status, FsmStatus, Allowed
    <3>2. row' = [row EXCEPT ![i] = v] /\ UNCHANGED tasks
      BY <2>2 DEF Webhook
    <3>3. tasks' \in [Invoice -> 0..MaxTasks] /\ \A k \in Invoice : tasks'[k] = tasks[k]
      BY <3>2 DEF IInv, Typing, RowsOK
    <3>. HIDE DEF v, new, i
    <3>. QED  BY <1>1, <1>2, <3>1, <3>2, <3>3, RowTypes, RowWrite
  <2>. QED  BY <2>1, <2>2
<1>. QED  BY <1>2, <1>3, <1>4, Together

LEMMA TakeTaskKeeps ==
  ASSUME IInv, NEW w \in Worker, NEW i \in Invoice, TakeTask(w, i) PROVE IInv'
<1> DEFINE r == [Idle EXCEPT !.pc = "submit", !.invoice = i, !.status = "queued"]
<1>1. /\ r \in Job /\ Remembered(r, PostedNotes) /\ Knows(r, IssuedNotes, CancelledNotes)
  BY IdleOK DEF Job, PC, InTx, Status, FsmStatus, Allowed, Remembered, Polling, Knows, Idle,
                Issued
<1>2. \/ UNCHANGED <<lock, job>>
      \/ lock' = [lock EXCEPT ![i] = w] /\ job' = [job EXCEPT ![w] = r]
  BY DEF TakeTask
<1>3. /\ ProviderOK' /\ CallbacksKnow' /\ NotesRemain
      /\ IssuedNotes' = IssuedNotes /\ CancelledNotes' = CancelledNotes
      /\ PostedNotes' = PostedNotes
  BY NoteUnchanged DEF TakeTask, IInv, Typing, ProviderOK
<1>4. RowsFit'
  <2>1. /\ tasks' \in [Invoice -> 0..MaxTasks]
        /\ \A k \in Invoice : row[k].status = "absent" => tasks'[k] = 0
    <3>1. /\ tasks \in [Invoice -> 0..MaxTasks] /\ tasks[i] > 0 /\ MaxTasks \in Nat
          /\ tasks' = [tasks EXCEPT ![i] = tasks[i] - 1] /\ row[i].status # "absent"
          /\ \A k \in Invoice : row[k].status = "absent" => tasks[k] = 0
      BY BoundAssumption DEF TakeTask, IInv, Typing, RowsOK
    <3>2. tasks[i] - 1 \in 0..MaxTasks
      BY <3>1
    <3>. QED  BY <3>1, <3>2
  <2>2. UNCHANGED row
    BY DEF TakeTask
  <2>. QED  BY <1>3, <2>1, <2>2 DEF RowsFit, IInv, Typing, RowsOK, Knowledge,
              AuthorizedAtProvider, CancelledAtProvider, IssuedNotes, CancelledNotes, NotesRemain
<1>5. JobsOK' /\ JobsKnow'
  <2>. HIDE DEF r
  <2>. QED  BY <1>1, <1>2, <1>3, JobsSame, JobWrite
<1>6. QueuesOK'
  <2>1. polls' \in SUBSET Poll
    BY DEF TakeTask, IInv, Typing, QueuesOK
  <2>. QED  BY <1>2, <2>1, LockTypes, QueuesSame
<1>. QED  BY <1>3, <1>4, <1>5, <1>6, Together

LEMMA SubmitKeeps == ASSUME IInv, NEW w \in Worker, Submit(w) PROVE IInv'
<1> DEFINE i == job[w].invoice
<1>1. PICK answer \in {"processing", "authorized", "error"} :
        /\ note' = [note EXCEPT ![i] = [sit |-> answer, posts |-> note[i].posts + 1]]
        /\ IF answer = "processing" THEN UNCHANGED sent ELSE CallBack(i, answer)
        /\ job' = [job EXCEPT ![w].pc = "submitted", ![w].answer = answer]
  BY DEF Submit
<1> DEFINE v == [sit |-> answer, posts |-> note[i].posts + 1]
<1> DEFINE r == [job[w] EXCEPT !.pc = "submitted", !.answer = answer]
<1>2. /\ i \in Invoice /\ job[w] \in Job /\ job[w].pc = "submit"
      /\ Knows(job[w], IssuedNotes, CancelledNotes)
  BY Recall DEF Submit, Remembered
<1>3. /\ note[i].sit \notin Issued /\ note[i].posts \in Nat
      /\ note[i].posts + 1 \in 1..MaxPosts
  <2>1. note[i] \in Note /\ note[i].posts < MaxPosts /\ note[i].sit \in {"none", "error"}
    BY <1>2 DEF Submit, IInv, Typing, ProviderOK
  <2>. QED  BY <2>1, BoundAssumption DEF Note, Issued
<1>4. /\ v \in Note /\ v.sit = answer /\ v.posts > 0 /\ v.posts >= note[i].posts
      /\ note[i].sit # "cancelled"
  BY <1>3 DEF Note, Situation, Issued
<1>5. /\ note' \in [Invoice -> Note] /\ NotesRemain /\ KnownIsPosted'
      /\ answer \in Issued => i \in IssuedNotes'
      /\ i \in PostedNotes'
  <2>1. note' = [note EXCEPT ![i] = v]
    BY <1>1
  <2>. HIDE DEF v, i
  <2>. QED  BY <1>2, <1>3, <1>4, <2>1, NoteWrite
<1>6. ProviderOK' /\ CallbacksKnow'
  <2>1. /\ UNCHANGED sent \/ CallBack(i, answer)
        /\ UNCHANGED processed /\ answer # "cancelled"
        /\ answer = "authorized" => i \in IssuedNotes'
    BY <1>1, <1>5 DEF Submit, Issued
  <2>. HIDE DEF i
  <2>. QED  BY <1>2, <1>5, <2>1, CallBackKnows
<1>7. JobsOK' /\ JobsKnow'
  <2>1. /\ r \in Job /\ r.pc = "submitted" /\ r.invoice = i /\ r.answer = answer
        /\ r.status = job[w].status
    BY <1>2 DEF Job, PC, InTx, Situation
  <2>2. job' = [job EXCEPT ![w] = r]
    BY <1>1
  <2>3. Remembered(r, PostedNotes')
    BY <1>2, <1>5, <2>1 DEF Remembered, Polling
  <2>4. Knows(r, IssuedNotes', CancelledNotes')
    BY <1>2, <1>5, <2>1 DEF Knows, NotesRemain
  <2>. HIDE DEF r
  <2>. QED  BY <1>5, <2>1, <2>2, <2>3, <2>4, JobWrite
<1>8. RowsFit'
  BY <1>5, RowsSame DEF Submit
<1>9. QueuesOK'
  BY DEF Submit, IInv, Typing, QueuesOK
<1>. QED  BY <1>5, <1>6, <1>7, <1>8, <1>9, Together

LEMMA SubmitRefusedKeeps == ASSUME IInv, NEW w \in Worker, SubmitRefused(w) PROVE IInv'
  BY LockTypes, EndKeeps DEF SubmitRefused

LEMMA SchedulePollKeeps == ASSUME IInv, NEW w \in Worker, SchedulePoll(w) PROVE IInv'
<1> DEFINE r == [job[w] EXCEPT !.pc = "scheduled"]
<1>1. /\ job[w] \in Job /\ job[w].invoice \in Invoice
      /\ job[w].invoice \in PostedNotes
      /\ Knows(job[w], IssuedNotes, CancelledNotes) /\ job[w].pc = "submitted"
  BY Recall DEF SchedulePoll, Remembered
<1>2. /\ r \in Job /\ Remembered(r, PostedNotes) /\ Knows(r, IssuedNotes, CancelledNotes)
  BY <1>1 DEF Job, PC, InTx, Remembered, Polling, Knows
<1>3. note[job[w].invoice].posts \in 1..MaxPosts /\ 0 \in 0..MaxRetries
  <2>1. note[job[w].invoice].posts \in 0..MaxPosts /\ note[job[w].invoice].posts > 0
    BY <1>1 DEF IInv, Typing, ProviderOK, Note, PostedNotes
  <2>. QED  BY <2>1, BoundAssumption
<1>4. polls' \in SUBSET Poll /\ lock' \in [Invoice -> Worker \cup {None}]
  BY <1>1, <1>3, LockTypes DEF SchedulePoll, Poll
<1>5. job' = [job EXCEPT ![w] = r]
  BY DEF SchedulePoll
<1>. HIDE DEF r
<1>. QED  BY <1>2, <1>4, <1>5, ReadKeeps DEF SchedulePoll

LEMMA ProcessCommitKeeps == ASSUME IInv, NEW w \in Worker, ProcessCommit(w) PROVE IInv'
<1> DEFINE i == job[w].invoice
<1> DEFINE to == IF job[w].answer = "authorized" THEN "authorized" ELSE "polling"
<1>1. /\ i \in Invoice /\ i \in PostedNotes
      /\ job[w].answer = "authorized" => i \in IssuedNotes
  BY Recall DEF ProcessCommit, Remembered, Knows, Issued
<1>2. /\ to \in Status /\ (to = "authorized" => i \in IssuedNotes) /\ to # "cancelled"
  BY <1>1 DEF Status, FsmStatus, Allowed
<1>3. polls' \in SUBSET Poll /\ lock' \in [Invoice -> Worker \cup {None}]
  BY LockTypes DEF ProcessCommit
<1>4. Write(i, to, TRUE) /\ Finish(w) /\ UNCHANGED <<note, sent, processed, tasks>>
  BY DEF ProcessCommit
<1>. HIDE DEF i, to
<1>. QED  BY <1>1, <1>2, <1>3, <1>4, TransitionKeeps

LEMMA TakePollKeeps ==
  ASSUME IInv, NEW w \in Worker, NEW p \in polls, TakePoll(w, p) PROVE IInv'
<1> DEFINE i == p.invoice
<1> DEFINE r == [Idle EXCEPT !.pc = "consult", !.invoice = i,
                             !.status = row[i].status, !.retries = p.retries]
<1>1. i \in Invoice /\ p.retries \in 0..MaxRetries /\ polls' \in SUBSET Poll
  BY DEF IInv, Typing, QueuesOK, Poll, TakePoll
<1>2. CASE row[i].status \in {"polling", "authorized"}
  <2>1. row[i].status = "authorized" => i \in IssuedNotes
    BY <1>1, RowTypes
  <2>2. i \in PostedNotes
    BY <1>1, <1>2, RowTypes
  <2>3. r \in Job /\ Remembered(r, PostedNotes) /\ Knows(r, IssuedNotes, CancelledNotes)
    BY <1>1, <1>2, <2>1, <2>2, IdleOK DEF Job, PC, InTx, Status, FsmStatus, Allowed,
       Remembered, Polling, Knows, Idle, Issued
  <2>4. /\ job' = [job EXCEPT ![w] = r] /\ lock' = [lock EXCEPT ![i] = w]
        /\ UNCHANGED <<row, note, sent, processed, tasks>>
    BY <1>2 DEF TakePoll
  <2>5. lock' \in [Invoice -> Worker \cup {None}]
    BY <2>4, LockTypes
  <2>. HIDE DEF r, i
  <2>. QED  BY <1>1, <2>3, <2>4, <2>5, ReadKeeps
<1>3. CASE row[i].status \notin {"polling", "authorized"}
  <2>1. UNCHANGED <<row, note, sent, processed, tasks, lock, job>>
    BY <1>3 DEF TakePoll
  <2>2. ProviderOK' /\ CallbacksKnow' /\ NotesRemain
    BY <2>1, NoteUnchanged DEF IInv, Typing, ProviderOK
  <2>3. QueuesOK'
    BY <1>1, <2>1 DEF IInv, Typing, QueuesOK
  <2>. QED  BY <2>1, <2>2, <2>3, RowsSame, JobsSame, Together
<1>. QED  BY <1>2, <1>3

\* What the provider has answered a poll.
LEMMA ConsultKeeps == ASSUME IInv, NEW w \in Worker, Consult(w) PROVE IInv'
<1> DEFINE i == job[w].invoice
<1> DEFINE next == IF job[w].pc = "consult" THEN "consulted" ELSE "poll_answered"
<1> DEFINE r == [job[w] EXCEPT !.pc = next, !.answer = note[i].sit]
<1>1. /\ job[w] \in Job /\ job[w].pc \in {"consult", "poll_loaded"}
      /\ Remembered(job[w], PostedNotes) /\ Knows(job[w], IssuedNotes, CancelledNotes)
  BY Recall DEF Consult
<1>2. i \in Invoice /\ note[i].sit \in Situation
  BY <1>1 DEF Remembered, IInv, Typing, ProviderOK, Note
<1>3. r \in Job /\ Remembered(r, PostedNotes)
  BY <1>1, <1>2 DEF Job, PC, InTx, Remembered, Polling
<1>4. Knows(r, IssuedNotes, CancelledNotes)
  BY <1>1, <1>2 DEF Job, Knows, IssuedNotes, CancelledNotes
<1>5. job' = [job EXCEPT ![w] = r] /\ UNCHANGED <<row, note, sent, processed, tasks>>
  BY DEF Consult
<1>6. polls' \in SUBSET Poll /\ lock' \in [Invoice -> Worker \cup {None}]
  BY DEF Consult, IInv, Typing, QueuesOK
<1>. HIDE DEF r
<1>. QED  BY <1>3, <1>4, <1>5, <1>6, ReadKeeps

LEMMA ConsultRefusedKeeps == ASSUME IInv, NEW w \in Worker, ConsultRefused(w) PROVE IInv'
  BY LockTypes, EndKeeps DEF ConsultRefused

\* A poll changes a status only to what the provider has answered.
LEMMA AfterPollFollows ==
  ASSUME NEW status \in {"polling", "authorized"}, NEW answer \in Situation
  PROVE  /\ AfterPoll(status, answer) \in Status
         /\ AfterPoll(status, answer) = "authorized" => "authorized" \in {status, answer}
         /\ AfterPoll(status, answer) = "cancelled" => answer = "cancelled"
  BY DEF AfterPoll, Status, FsmStatus, Allowed

\* Either kind of poll, once it is answered.
LEMMA Polled ==
  ASSUME IInv, NEW w \in Worker, job[w].pc \in {"consulted", "poll_answered"}
  PROVE  /\ job[w].invoice \in Invoice /\ job[w].invoice \in PostedNotes
         /\ AfterPoll(job[w].status, job[w].answer) \in Status
         /\ AfterPoll(job[w].status, job[w].answer) = "authorized"
              => job[w].invoice \in IssuedNotes
         /\ AfterPoll(job[w].status, job[w].answer) = "cancelled"
              => job[w].invoice \in CancelledNotes
         /\ row[job[w].invoice].ref \in BOOLEAN /\ job[w].retries \in 0..MaxRetries
<1>1. /\ job[w].invoice \in Invoice /\ job[w].invoice \in PostedNotes
      /\ job[w].status \in {"polling", "authorized"} /\ job[w].answer \in Situation
      /\ Knows(job[w], IssuedNotes, CancelledNotes) /\ job[w].pc # "idle"
      /\ job[w].retries \in 0..MaxRetries
  BY Recall DEF Remembered, Polling, Job
<1>2. row[job[w].invoice].ref \in BOOLEAN
  BY <1>1, RowTypes
<1>. QED  BY <1>1, <1>2, AfterPollFollows DEF Knows, Issued

LEMMA PollCommitKeeps == ASSUME IInv, NEW w \in Worker, PollCommit(w) PROVE IInv'
<1> DEFINE i == job[w].invoice
<1> DEFINE new == AfterPoll(job[w].status, job[w].answer)
<1>1. /\ i \in Invoice /\ i \in PostedNotes /\ new \in Status
      /\ new = "authorized" => i \in IssuedNotes
      /\ new = "cancelled" => i \in CancelledNotes
      /\ row[i].ref \in BOOLEAN /\ job[w].retries \in 0..MaxRetries
  BY Polled DEF PollCommit
<1>2. polls' \in SUBSET Poll
  <2>1. note[i].posts \in 1..MaxPosts
    <3>1. note[i].posts \in 0..MaxPosts /\ note[i].posts > 0
      BY <1>1 DEF IInv, Typing, ProviderOK, Note, PostedNotes
    <3>. QED  BY <3>1, BoundAssumption
  <2>2. RetryLeft(job[w].retries) => job[w].retries + 1 \in 0..MaxRetries
    BY <1>1, BoundAssumption DEF RetryLeft
  <2>3. polls \in SUBSET Poll
    BY LockTypes
  <2>. QED  BY <1>1, <2>1, <2>2, <2>3 DEF PollCommit, Poll
<1>3. lock' \in [Invoice -> Worker \cup {None}]
  BY LockTypes DEF PollCommit
<1>4. /\ UNCHANGED row \/ Write(i, new, row[i].ref)
      /\ Finish(w) /\ UNCHANGED <<note, sent, processed, tasks>>
  BY DEF PollCommit
<1>. HIDE DEF i, new
<1>. QED  BY <1>1, <1>2, <1>3, <1>4, TransitionKeeps

LEMMA PollSaveKeeps == ASSUME IInv, NEW w \in Worker, PollSave(w) PROVE IInv'
<1> DEFINE i == job[w].invoice
<1> DEFINE new == AfterPoll(job[w].status, job[w].answer)
<1>1. /\ i \in Invoice /\ i \in PostedNotes /\ new \in Status
      /\ new = "authorized" => i \in IssuedNotes
      /\ new = "cancelled" => i \in CancelledNotes
      /\ row[i].ref \in BOOLEAN
  BY Polled DEF PollSave
<1>2. /\ UNCHANGED row \/ Write(i, new, row[i].ref)
      /\ Finish(w) /\ UNCHANGED <<note, sent, processed, tasks>>
  BY DEF PollSave
<1>3. polls' \in SUBSET Poll /\ lock' \in [Invoice -> Worker \cup {None}]
  BY DEF PollSave, IInv, Typing, QueuesOK
<1>. HIDE DEF i, new
<1>. QED  BY <1>1, <1>2, <1>3, TransitionKeeps

\* A request loads an invoice, and remembers its status.
LEMMA LoadKeeps ==
  ASSUME IInv, NEW w \in Worker, NEW i \in Invoice,
         NEW pc \in {"rp_loaded", "cancel_loaded", "poll_loaded", "files_loaded"},
         row[i].status \in Status,
         pc = "poll_loaded" => row[i].status \in {"polling", "authorized"},
         pc = "files_loaded" => row[i].status = "authorized",
         job' = [job EXCEPT ![w] = [Idle EXCEPT !.pc = pc, !.invoice = i,
                                                !.status = row[i].status]],
         UNCHANGED <<row, note, sent, processed, tasks, polls, lock>>
  PROVE  IInv'
<1> DEFINE r == [Idle EXCEPT !.pc = pc, !.invoice = i, !.status = row[i].status]
<1>1. /\ row[i].status = "authorized" => i \in IssuedNotes
      /\ row[i].status \in {"polling", "authorized"} => i \in PostedNotes
  BY RowTypes
<1>2. r \in Job /\ Remembered(r, PostedNotes) /\ Knows(r, IssuedNotes, CancelledNotes)
  BY <1>1, IdleOK DEF Job, PC, InTx, Remembered, Polling, Knows, Idle, Issued
<1>3. polls' \in SUBSET Poll /\ lock' \in [Invoice -> Worker \cup {None}]
  BY DEF IInv, Typing, QueuesOK
<1>4. job' = [job EXCEPT ![w] = r]
  OBVIOUS
<1>. HIDE DEF r
<1>. QED  BY <1>2, <1>3, <1>4, ReadKeeps

LEMMA LoadsKeep ==
  ASSUME IInv, NEW w \in Worker, NEW i \in Invoice,
         PollLoad(w, i) \/ FilesLoad(w, i) \/ CancelLoad(w, i) \/ ReprocessLoad(w, i)
  PROVE  IInv'
<1>1. {"polling", "authorized", "rejected", "failed"} \subseteq Status
  BY DEF Status, FsmStatus, Allowed
<1>2. CASE PollLoad(w, i)
  <2>1. /\ row[i].status \in Status /\ row[i].status \in {"polling", "authorized"}
        /\ UNCHANGED <<row, note, sent, processed, tasks, polls, lock>>
        /\ job' = [job EXCEPT ![w] = [Idle EXCEPT !.pc = "poll_loaded", !.invoice = i,
                                                  !.status = row[i].status]]
    BY <1>1, <1>2 DEF PollLoad
  <2>2. "poll_loaded" # "files_loaded"
    OBVIOUS
  <2>. QED  BY <2>1, <2>2, LoadKeeps
<1>3. CASE FilesLoad(w, i)
  <2>1. /\ row[i].status \in Status /\ row[i].status = "authorized"
        /\ UNCHANGED <<row, note, sent, processed, tasks, polls, lock>>
        /\ job' = [job EXCEPT ![w] = [Idle EXCEPT !.pc = "files_loaded", !.invoice = i,
                                                  !.status = row[i].status]]
    BY <1>1, <1>3 DEF FilesLoad
  <2>2. "files_loaded" # "poll_loaded"
    OBVIOUS
  <2>. QED  BY <2>1, <2>2, LoadKeeps
<1>4. CASE CancelLoad(w, i)
  <2>1. /\ row[i].status \in Status
        /\ UNCHANGED <<row, note, sent, processed, tasks, polls, lock>>
        /\ job' = [job EXCEPT ![w] = [Idle EXCEPT !.pc = "cancel_loaded", !.invoice = i,
                                                  !.status = row[i].status]]
    BY <1>1, <1>4 DEF CancelLoad
  <2>2. "cancel_loaded" \notin {"files_loaded", "poll_loaded"}
    OBVIOUS
  <2>. QED  BY <2>1, <2>2, LoadKeeps
<1>5. CASE ReprocessLoad(w, i)
  <2>1. /\ row[i].status \in Status
        /\ UNCHANGED <<row, note, sent, processed, tasks, polls, lock>>
        /\ job' = [job EXCEPT ![w] = [Idle EXCEPT !.pc = "rp_loaded", !.invoice = i,
                                                  !.status = row[i].status]]
    BY <1>1, <1>5 DEF ReprocessLoad
  <2>2. "rp_loaded" \notin {"files_loaded", "poll_loaded"}
    OBVIOUS
  <2>. QED  BY <2>1, <2>2, LoadKeeps
<1>. QED  BY <1>2, <1>3, <1>4, <1>5

LEMMA FilesSaveKeeps == ASSUME IInv, NEW w \in Worker, FilesSave(w) PROVE IInv'
<1> DEFINE i == job[w].invoice
<1> DEFINE v == [row[i] EXCEPT !.files = TRUE]
<1>1. i \in Invoice /\ i \in IssuedNotes
  BY Recall DEF FilesSave, Remembered, Knows
<1>2. /\ ProviderOK' /\ NotesRemain
      /\ IssuedNotes' = IssuedNotes /\ CancelledNotes' = CancelledNotes
      /\ PostedNotes' = PostedNotes
  BY NoteUnchanged DEF FilesSave, IInv, Typing, ProviderOK
<1>3. /\ v \in Row /\ v.status = row[i].status
      /\ v.status = "cancelled" => i \in CancelledNotes
      /\ v.status = "polling" => i \in PostedNotes
      /\ v.status = "absent" => tasks[i] = 0
  BY <1>1, RowTypes DEF Row
<1>4. /\ row' = [row EXCEPT ![i] = v] /\ Finish(w)
      /\ UNCHANGED <<note, sent, processed, tasks, polls, lock>>
  BY DEF FilesSave
<1>5. tasks' \in [Invoice -> 0..MaxTasks] /\ \A k \in Invoice : tasks'[k] = tasks[k]
  BY <1>4 DEF IInv, Typing, RowsOK
<1>6. RowsFit'
  <2>. HIDE DEF v, i
  <2>. QED  BY <1>1, <1>2, <1>3, <1>4, <1>5, RowWrite
<1>7. polls' \in SUBSET Poll /\ lock' \in [Invoice -> Worker \cup {None}]
  BY <1>4 DEF IInv, Typing, QueuesOK
<1>. QED  BY <1>4, <1>6, <1>7, SaveKeeps

LEMMA CancelAtProviderKeeps ==
  ASSUME IInv, NEW w \in Worker, CancelAtProvider(w) PROVE IInv'
<1> DEFINE i == job[w].invoice
<1>1. /\ i \in Invoice /\ job[w] \in Job /\ job[w].pc = "cancel_loaded"
      /\ Knows(job[w], IssuedNotes, CancelledNotes)
      /\ note[i] \in Note /\ (note[i].sit # "none" => note[i].posts > 0)
  BY Recall DEF CancelAtProvider, Remembered, IInv, Typing, ProviderOK, KnownIsPosted
<1>2. PICK to \in {"cancelled", "cancelling"} :
        /\ note' = [note EXCEPT ![i].sit = to]
        /\ \/ to = "cancelled" /\ note[i].sit \in {"authorized", "cancelled"}
           \/ note[i].sit = "authorized"
        /\ UNCHANGED sent \/ (CallBack(i, "cancelled") /\ to = "cancelled")
        /\ \/ to = "cancelled" /\ job' = [job EXCEPT ![w].pc = "cancel_done"]
           \/ Finish(w)
  BY DEF CancelAtProvider
<1> DEFINE v == [note[i] EXCEPT !.sit = to]
<1>3. /\ v \in Note /\ v.sit = to /\ v.posts > 0 /\ v.posts = note[i].posts
      /\ to \in Issued /\ (note[i].sit = "cancelled" => to = "cancelled")
      /\ v.posts >= note[i].posts
  BY <1>1, <1>2, BoundAssumption DEF Note, Situation, Issued
<1>4. /\ note' \in [Invoice -> Note] /\ NotesRemain /\ KnownIsPosted'
      /\ i \in IssuedNotes' /\ (to = "cancelled" => i \in CancelledNotes')
  <2>1. note' = [note EXCEPT ![i] = v]
    BY <1>2
  <2>. HIDE DEF v, i
  <2>. QED  BY <1>1, <1>3, <2>1, NoteWrite
<1>5. ProviderOK' /\ CallbacksKnow'
  <2>1. UNCHANGED sent \/ CallBack(i, to)
    BY <1>2
  <2>2. /\ UNCHANGED processed /\ to # "authorized"
    BY <1>2 DEF CancelAtProvider
  <2>. HIDE DEF i
  <2>. QED  BY <1>1, <1>4, <2>1, <2>2, CallBackKnows
<1>6. JobsOK' /\ JobsKnow'
  <2>1. CASE Finish(w)
    BY <1>4, <2>1, JobEnds
  <2>2. CASE to = "cancelled" /\ job' = [job EXCEPT ![w].pc = "cancel_done"]
    <3> DEFINE r == [job[w] EXCEPT !.pc = "cancel_done"]
    <3>1. r \in Job /\ Remembered(r, PostedNotes')
      BY <1>1 DEF Job, PC, InTx, Remembered, Polling
    <3>2. Knows(r, IssuedNotes', CancelledNotes')
      BY <1>1, <1>4, <2>2 DEF Job, Knows, NotesRemain
    <3>3. job' = [job EXCEPT ![w] = r]
      BY <2>2
    <3>. HIDE DEF r
    <3>. QED  BY <1>4, <3>1, <3>2, <3>3, JobWrite
  <2>. QED  BY <1>2, <2>1, <2>2
<1>7. RowsFit' /\ QueuesOK'
  BY <1>4, RowsSame DEF CancelAtProvider, IInv, Typing, QueuesOK
<1>. QED  BY <1>4, <1>5, <1>6, <1>7, Together

LEMMA CancelRefusedKeeps == ASSUME IInv, NEW w \in Worker, CancelRefused(w) PROVE IInv'
  BY LockTypes, EndKeeps DEF CancelRefused

LEMMA CancelSaveKeeps == ASSUME IInv, NEW w \in Worker, CancelSave(w) PROVE IInv'
<1> DEFINE i == job[w].invoice
<1>1. i \in Invoice /\ i \in CancelledNotes
  BY Recall DEF CancelSave, Remembered, Knows
<1>2. row[i].ref \in BOOLEAN /\ "cancelled" \in Status
  BY <1>1, RowTypes DEF Status, FsmStatus, Allowed
<1>3. /\ Write(i, "cancelled", row[i].ref)
      /\ Finish(w) /\ UNCHANGED <<note, sent, processed, tasks>>
  BY DEF CancelSave
<1>4. polls' \in SUBSET Poll /\ lock' \in [Invoice -> Worker \cup {None}]
  BY DEF CancelSave, IInv, Typing, QueuesOK
<1>. HIDE DEF i
<1>. QED  BY <1>1, <1>2, <1>3, <1>4, TransitionKeeps

LEMMA ReprocessSaveKeeps == ASSUME IInv, NEW w \in Worker, ReprocessSave(w) PROVE IInv'
<1> DEFINE i == job[w].invoice
<1>1. i \in Invoice
  BY Recall DEF ReprocessSave, Remembered
<1>2. /\ ProviderOK' /\ NotesRemain /\ IssuedNotes' = IssuedNotes
  BY NoteUnchanged DEF ReprocessSave, IInv, Typing, ProviderOK
<1>3. PICK s \in {"queued", "rejected"} :
        /\ row' = [row EXCEPT ![i].status = s]
        /\ UNCHANGED tasks \/ (tasks[i] < MaxTasks /\ Enqueue(i))
  BY DEF ReprocessSave
<1> DEFINE v == [row[i] EXCEPT !.status = s]
<1>4. /\ v \in Row /\ v.status = s /\ (v.files => i \in IssuedNotes')
      /\ row' = [row EXCEPT ![i] = v]
  BY <1>1, <1>2, <1>3, RowTypes DEF Row, Status, FsmStatus, Allowed
<1>5. /\ tasks' \in [Invoice -> 0..MaxTasks]
      /\ \A k \in Invoice : k # i => tasks'[k] = tasks[k]
  <2>1. tasks \in [Invoice -> 0..MaxTasks] /\ tasks[i] \in Nat /\ MaxTasks \in Nat
    BY <1>1, BoundAssumption DEF IInv, Typing, RowsOK
  <2>2. \/ UNCHANGED tasks
        \/ tasks[i] < MaxTasks /\ tasks' = [tasks EXCEPT ![i] = tasks[i] + 1]
    BY <1>3 DEF Enqueue
  <2>. QED  BY <1>1, <2>1, <2>2
<1>6. RowsFit'
  <2>. HIDE DEF v, i
  <2>. QED  BY <1>1, <1>2, <1>3, <1>4, <1>5, RowWrite
<1>7. /\ polls' \in SUBSET Poll /\ lock' \in [Invoice -> Worker \cup {None}]
      /\ Finish(w) /\ UNCHANGED <<note, sent, processed>>
  BY DEF ReprocessSave, IInv, Typing, QueuesOK
<1>. QED  BY <1>6, <1>7, SaveKeeps

LEMMA CrashKeeps == ASSUME IInv, NEW w \in Worker, Crash(w) PROVE IInv'
<1>1. lock' \in [Invoice -> Worker \cup {None}]
  BY DEF Crash, IInv, Typing, QueuesOK
<1>. QED  BY <1>1, EndKeeps DEF Crash

LEMMA StutterKeeps == ASSUME IInv, UNCHANGED vars PROVE IInv'
<1>1. /\ ProviderOK' /\ CallbacksKnow' /\ NotesRemain
  BY NoteUnchanged DEF vars, IInv, Typing, ProviderOK
<1>2. QueuesOK'
  BY DEF vars, IInv, Typing, QueuesOK
<1>. QED  BY <1>1, <1>2, RowsSame, JobsSame, Together DEF vars

-----------------------------------------------------------------------------
(* The theorems *)

LEMMA InitialInvariant == Init => IInv
<1> SUFFICES ASSUME Init PROVE IInv
  OBVIOUS
<1>1. ProviderOK
  BY BoundAssumption DEF Init, ProviderOK, Note, Situation, KnownIsPosted
<1>2. RowsOK
  BY BoundAssumption DEF Init, RowsOK, Row, Absent
<1>3. JobsOK /\ JobsKnow
  BY IdleOK DEF Init, JobsOK, JobsKnow
<1>4. QueuesOK /\ CallbacksKnow
  BY DEF Init, QueuesOK, CallbacksKnow
<1>5. AuthorizedAtProvider /\ CancelledAtProvider
  BY DEF Init, Absent, AuthorizedAtProvider, CancelledAtProvider
<1>. QED  BY <1>1, <1>2, <1>3, <1>4, <1>5 DEF IInv, Typing, Knowledge

LEMMA Inductive == IInv /\ [Next]_vars => IInv'
<1> SUFFICES ASSUME IInv, [Next]_vars PROVE IInv'
  OBVIOUS
<1>1. ASSUME NEW i \in Invoice, Create(i) \/ ProviderDecides(i) PROVE IInv'
  BY <1>1, CreateKeeps, ProviderDecidesKeeps
<1>2. ASSUME NEW c \in Callback, Webhook(c) PROVE IInv'
  BY <1>2, WebhookKeeps
<1>3. ASSUME NEW w \in Worker, ProcessTask(w) PROVE IInv'
  BY <1>3, TakeTaskKeeps, SubmitKeeps, SubmitRefusedKeeps, SchedulePollKeeps,
     ProcessCommitKeeps DEF ProcessTask
<1>4. ASSUME NEW w \in Worker, PollTask(w) PROVE IInv'
  BY <1>4, TakePollKeeps, ConsultKeeps, ConsultRefusedKeeps, PollCommitKeeps DEF PollTask
<1>5. ASSUME NEW w \in Worker, Request(w) PROVE IInv'
  BY <1>5, LoadsKeep, PollSaveKeeps, FilesSaveKeeps, CancelAtProviderKeeps,
     CancelRefusedKeeps, CancelSaveKeeps, ReprocessSaveKeeps DEF Request
<1>6. ASSUME NEW w \in Worker, Crash(w) PROVE IInv'
  BY <1>6, CrashKeeps
<1>7. ASSUME UNCHANGED vars PROVE IInv'
  BY <1>7, StutterKeeps
<1>. QED  BY <1>1, <1>2, <1>3, <1>4, <1>5, <1>6, <1>7 DEF Next

LEMMA Invariant == Spec => []IInv
<1>. QED  BY InitialInvariant, Inductive, PTL DEF Spec

LEMMA IInvTypes == IInv => TypeOK
  BY DEF IInv, Typing, ProviderOK, RowsOK, JobsOK, QueuesOK, Row, Note, Job, TypeOK

\* Every row, note, queue, lock and worker's memory keeps its type; in particular no
\* invoice outgrows its retries (RetryLeft) and its messages, whatever is interleaved.
THEOREM TypeCorrect == Spec => []TypeOK
<1>. QED  BY Invariant, IInvTypes, PTL

\* apps/issuance never shows an invoice as authorized, nor keeps its files, unless
\* the provider has authorized the note: for any number of tasks, requests and
\* callbacks at once, with crashes, refusals and late answers.
THEOREM AuthorizedIsIssued == Spec => []AuthorizedAtProvider
<1>1. IInv => AuthorizedAtProvider
  BY DEF IInv, Knowledge
<1>. QED  BY <1>1, Invariant, PTL

\* An invoice shown as cancelled is cancelled at the provider for good: neither
\* cancel_nf_issue nor a poll nor a callback takes a request under way for it.
THEOREM CancelledIsCancelled == Spec => []CancelledAtProvider
<1>1. IInv => CancelledAtProvider
  BY DEF IInv, Knowledge
<1>. QED  BY <1>1, Invariant, PTL

-----------------------------------------------------------------------------
(* The state machine: FollowsFsm *)

\* What fsm.transition takes for granted: the row a request polls by hand or
\* reprocesses, which it has loaded without a lock, keeps its status until it is
\* saved.  The code does not see to it.
Undisturbed ==
  \A w \in Worker :
    job[w].pc \in {"poll_loaded", "poll_answered", "rp_loaded"}
      => row[job[w].invoice].status = job[w].status

\* What a worker remembers of its row is still so: a task holds the lock since it
\* looked, and a note to cancel can only be cancelled meanwhile.
Current(j, w) ==
  /\ j.pc \in InTx => lock[j.invoice] = w /\ row[j.invoice].status = j.status
  /\ j.pc \in {"submit", "submitted", "scheduled"} => j.status = "queued"
  /\ j.pc \in {"cancel_loaded", "cancel_done"}
       => row[j.invoice].status \in {"authorized", "cancelled"}
  /\ j.pc = "rp_loaded" => j.status \in {"rejected", "failed"}

AllCurrent == \A w \in Worker : Current(job[w], w)
FInv == IInv /\ AllCurrent

LEMMA AfterFirst ==
  ASSUME NEW s \in FsmStatus
  PROVE  s \in After[s] /\ Allowed[s] \cap FsmStatus \subseteq After[s]
  BY DEF After

LEMMA AfterNext ==
  ASSUME NEW s \in FsmStatus, NEW t \in After[s], NEW u \in Allowed[t] \cap FsmStatus,
         u # "pending_tax"
  PROVE  u \in After[s]
  BY DEF After

\* Where the handlers take an invoice, arrow by arrow.
LEMMA Arrows ==
  /\ {"polling", "authorized", "rejected"} \subseteq After["queued"]
  /\ {"authorized", "rejected"} \subseteq After["polling"]
  /\ "cancelled" \in After["authorized"]
  /\ {"queued", "rejected"} \subseteq After["rejected"]
  /\ {"queued", "rejected"} \subseteq After["failed"]
<1>1. /\ Allowed["queued"] = {"submitting", "failed"}
      /\ Allowed["submitting"] = {"polling", "rejected", "failed"}
      /\ Allowed["polling"] = {"authorized", "rejected", "failed"}
      /\ Allowed["authorized"] = {"cancelled"}
      /\ Allowed["pending_tax"] = {"queued", "rejected"}
      /\ Allowed["rejected"] = {"pending_tax"} /\ Allowed["failed"] = {"pending_tax"}
  BY DEF Allowed
<1>2. FsmStatus = {"draft", "pending_tax", "queued", "submitting", "polling",
                   "authorized", "rejected", "failed", "cancelled"}
  BY DEF FsmStatus, Allowed
<1>3. {"polling", "rejected"} \subseteq After["queued"]
  <2>1. "submitting" \in After["queued"]
    BY <1>1, <1>2, AfterFirst
  <2>2. {"polling", "rejected"} \subseteq Allowed["submitting"] \cap FsmStatus
    BY <1>1, <1>2
  <2>. QED  BY <1>2, <2>1, <2>2, AfterNext
<1>4. "authorized" \in After["queued"]
  <2>1. "authorized" \in Allowed["polling"] \cap FsmStatus
    BY <1>1, <1>2
  <2>. QED  BY <1>2, <1>3, <2>1, AfterNext
<1>5. {"authorized", "rejected"} \subseteq After["polling"] /\ "cancelled" \in After["authorized"]
  BY <1>1, <1>2, AfterFirst
<1>6. ASSUME NEW s \in {"rejected", "failed"}
      PROVE  {"queued", "rejected"} \subseteq After[s]
  <2>1. "pending_tax" \in After[s]
    BY <1>1, <1>2, AfterFirst
  <2>2. {"queued", "rejected"} \subseteq Allowed["pending_tax"] \cap FsmStatus
    BY <1>1, <1>2
  <2>. QED  BY <1>2, <2>1, <2>2, AfterNext
<1>. QED  BY <1>3, <1>4, <1>5, <1>6

\* What the step of one worker, or of None, does to an invoice: it writes under the
\* lock or with the row free, and along the arrows.
Moved(k, a) ==
  row'[k].status # row[k].status /\ row[k].status # "absent" =>
    /\ lock[k] \in {None, a}
    /\ row'[k].status \in After[row[k].status]
    /\ row[k].status \in {"authorized", "cancelled"} => row'[k].status = "cancelled"

Steps(a) ==
  /\ \A k \in Invoice : Moved(k, a)
  /\ \A k \in Invoice : lock[k] \notin {None, a} => lock'[k] = lock[k]
  /\ \A v \in Worker : v # a => job'[v] = job[v]
  /\ a # None => Current(job[a], a)'

Followed == \A i \in Invoice :
              row[i].status # "absent" => row'[i].status \in After[row[i].status]

\* Such a step leaves what the other workers remember as it is.
LEMMA OthersCurrent ==
  ASSUME FInv, NEW a \in Worker \cup {None}, Steps(a),
         NEW v \in Worker, v # a
  PROVE  Current(job[v], v)'
<1> DEFINE k == job[v].invoice
<1>1. job'[v] = job[v] /\ Current(job[v], v) /\ v # None
  BY WorkerAssumption DEF Steps, FInv, AllCurrent
<1>2. job[v].pc # "idle" => k \in Invoice /\ Moved(k, a)
  BY Recall DEF FInv, Remembered, Steps
<1>3. job[v].pc \in InTx => lock'[k] = v /\ row'[k].status = job[v].status
  <2>. SUFFICES ASSUME job[v].pc \in InTx
                PROVE  lock'[k] = v /\ row'[k].status = job[v].status
    OBVIOUS
  <2>1. job[v].pc # "idle"
    BY DEF InTx
  <2>2. /\ k \in Invoice /\ lock[k] = v /\ lock[k] \notin {None, a}
        /\ row[k].status = job[v].status
    BY <1>1, <1>2, <2>1 DEF Current
  <2>3. row[k].status # "absent"
    <3>1. job[v].status = "queued" \/ job[v].status \in {"polling", "authorized"}
      BY <1>1, Recall DEF Current, FInv, Remembered, Polling, InTx
    <3>. QED  BY <2>2, <3>1
  <2>. QED  BY <1>2, <2>1, <2>2, <2>3 DEF Moved, Steps
<1>4. job[v].pc \in {"cancel_loaded", "cancel_done"}
        => row'[k].status \in {"authorized", "cancelled"}
  BY <1>1, <1>2 DEF Current, Moved
<1>. QED  BY <1>1, <1>3, <1>4 DEF Current

LEMMA StepsKeep ==
  ASSUME FInv, IInv', NEW a \in Worker \cup {None}, Steps(a)
  PROVE  FInv' /\ Followed
<1>1. AllCurrent'
  <2>. SUFFICES ASSUME NEW v \in Worker PROVE Current(job[v], v)'
    BY DEF AllCurrent
  <2>1. CASE v # a
    BY <2>1, OthersCurrent
  <2>2. CASE v = a
    BY <2>2, WorkerAssumption DEF Steps
  <2>. QED  BY <2>1, <2>2
<1>2. Followed
  <2>. SUFFICES ASSUME NEW i \in Invoice, row[i].status # "absent"
                PROVE  row'[i].status \in After[row[i].status]
    BY DEF Followed
  <2>1. row[i].status \in FsmStatus
    BY RowTypes DEF FInv, Status
  <2>. QED  BY <2>1, AfterFirst DEF Steps, Moved
<1>. QED  BY <1>1, <1>2 DEF FInv

\* No status changes: only the actor's memory and the locks it may touch.
LEMMA SameStatus ==
  ASSUME NEW a \in Worker \cup {None},
         \A k \in Invoice : row'[k].status = row[k].status,
         \A k \in Invoice : lock[k] \notin {None, a} => lock'[k] = lock[k],
         \A v \in Worker : v # a => job'[v] = job[v],
         a # None => Current(job[a], a)'
  PROVE  Steps(a)
  BY DEF Steps, Moved

LEMMA IdleCurrent ==
  ASSUME NEW w \in Worker, FInv, Finish(w)
  PROVE  /\ job'[w] = Idle /\ Current(job[w], w)'
         /\ \A v \in Worker : v # w => job'[v] = job[v]
<1>1. /\ job'[w] = Idle /\ \A v \in Worker : v # w => job'[v] = job[v]
  BY DEF Finish, FInv, IInv, Typing, JobsOK
<1>. QED  BY <1>1 DEF Current, Idle, InTx

\* A worker ends, and frees its row if it held it.
LEMMA EndSteps ==
  ASSUME FInv, NEW w \in Worker, Finish(w), UNCHANGED row,
         \/ UNCHANGED lock
         \/ job[w].pc \in InTx /\ Unlock(w)
         \/ lock' = [i \in Invoice |-> IF lock[i] = w THEN None ELSE lock[i]]
  PROVE  Steps(w)
<1>1. \A k \in Invoice : lock[k] \notin {None, w} => lock'[k] = lock[k]
  <2>1. CASE job[w].pc \in InTx /\ Unlock(w)
    <3>1. lock[job[w].invoice] = w /\ lock \in [Invoice -> Worker \cup {None}]
      BY <2>1 DEF FInv, AllCurrent, Current, IInv, Typing, QueuesOK
    <3>. QED  BY <2>1, <3>1 DEF Unlock
  <2>. QED  BY <2>1
<1>. QED  BY <1>1, IdleCurrent, SameStatus

\* A worker goes on, with its row as it was.
LEMMA GoSteps ==
  ASSUME FInv, NEW w \in Worker, UNCHANGED row,
         \A v \in Worker : v # w => job'[v] = job[v],
         \/ UNCHANGED lock
         \/ \E i \in Invoice : lock[i] = None /\ lock' = [lock EXCEPT ![i] = w],
         Current(job[w], w)'
  PROVE  Steps(w)
<1>1. \A k \in Invoice : lock[k] \notin {None, w} => lock'[k] = lock[k]
  BY DEF FInv, IInv, Typing, QueuesOK
<1>. QED  BY <1>1, SameStatus

\* A worker writes the status of its row, and ends.
LEMMA SaveSteps ==
  ASSUME FInv, NEW w \in Worker, Finish(w), NEW i \in Invoice, i = job[w].invoice,
         lock[i] \in {None, w}, UNCHANGED lock \/ Unlock(w),
         \A k \in Invoice : k # i => row'[k] = row[k], Moved(i, w)
  PROVE  Steps(w)
<1>1. \A k \in Invoice : lock[k] \notin {None, w} => lock'[k] = lock[k]
  BY DEF FInv, IInv, Typing, QueuesOK, Unlock
<1>2. \A k \in Invoice : Moved(k, w)
  BY DEF Moved
<1>. QED  BY <1>1, <1>2, IdleCurrent DEF Steps

LEMMA WriteStatus ==
  ASSUME FInv, NEW i \in Invoice, NEW to, NEW ref, Write(i, to, ref)
  PROVE  row'[i].status = to /\ \A k \in Invoice : k # i => row'[k] = row[k]
  BY DEF Write, FInv, IInv, Typing, RowsOK

\* One lemma per action that writes a status, or takes or holds a row.
LEMMA CreateSteps == ASSUME FInv, NEW i \in Invoice, Create(i) PROVE Steps(None)
<1>1. /\ row[i].status = "absent" /\ UNCHANGED <<lock, job>>
      /\ \A k \in Invoice : k # i => row'[k] = row[k]
  BY DEF Create, FInv, IInv, Typing, RowsOK
<1>. QED  BY <1>1 DEF Steps, Moved

LEMMA WebhookSteps == ASSUME FInv, NEW c \in Callback, Webhook(c) PROVE Steps(None)
<1> DEFINE i == c.invoice
<1> DEFINE new == AfterCallback(row[i].status, c.status)
<1>1. /\ i \in Invoice /\ row[i].status # "absent" /\ lock[i] = None
      /\ c.status \in {"authorized", "cancelled", "error"}
  BY DEF Webhook, Callback, Free
<1>2. row'[i].status = new /\ \A k \in Invoice : k # i => row'[k] = row[k]
  <2>1. CASE new # row[i].status
    <3>1. Write(i, new, TRUE)
      BY <2>1 DEF Webhook
    <3>. HIDE DEF new, i
    <3>. QED  BY <1>1, <3>1, WriteStatus
  <2>2. CASE new = row[i].status
    BY <1>1, <2>2, RowTypes DEF Webhook, FInv, IInv, Typing, RowsOK, Row
  <2>. QED  BY <2>1, <2>2
<1>3. new # row[i].status =>
        /\ new \in After[row[i].status]
        /\ row[i].status = "authorized" => new = "cancelled"
        /\ row[i].status # "cancelled"
  BY <1>1, Arrows DEF AfterCallback
<1>4. Moved(i, None)
  BY <1>1, <1>2, <1>3 DEF Moved
<1>5. UNCHANGED <<lock, job>> /\ \A k \in Invoice : Moved(k, None)
  BY <1>2, <1>4 DEF Webhook, Moved
<1>. QED  BY <1>5 DEF Steps

\* The memory of a worker that goes on is one record.
LEMMA JobsTyped ==
  ASSUME FInv, NEW w \in Worker
  PROVE  /\ job \in [Worker -> Job] /\ job[w] \in Job /\ Current(job[w], w)
         /\ lock \in [Invoice -> Worker \cup {None}]
         /\ job[w].pc # "idle" => job[w].invoice \in Invoice
  BY Recall DEF FInv, AllCurrent, IInv, Typing, JobsOK, QueuesOK, Remembered

LEMMA TakeTaskSteps ==
  ASSUME FInv, NEW w \in Worker, NEW i \in Invoice, TakeTask(w, i) PROVE Steps(w)
<1>1. CASE row[i].status = "queued"
  <2> DEFINE r == [Idle EXCEPT !.pc = "submit", !.invoice = i, !.status = "queued"]
  <2>1. /\ job' = [job EXCEPT ![w] = r] /\ lock' = [lock EXCEPT ![i] = w]
        /\ UNCHANGED row /\ lock[i] = None
    BY <1>1 DEF TakeTask, Free
  <2>2. r.pc = "submit" /\ r.invoice = i /\ r.status = "queued"
    BY DEF Idle
  <2>3. job'[w] = r /\ lock'[i] = w /\ \A v \in Worker : v # w => job'[v] = job[v]
    BY <2>1, JobsTyped
  <2>4. Current(job[w], w)'
    BY <1>1, <2>1, <2>2, <2>3 DEF Current, InTx
  <2>. QED  BY <2>1, <2>3, <2>4, GoSteps
<1>2. CASE row[i].status # "queued"
  BY <1>2, JobsTyped, GoSteps DEF TakeTask, Current
<1>. QED  BY <1>1, <1>2

LEMMA TakePollSteps ==
  ASSUME FInv, NEW w \in Worker, NEW p \in polls, TakePoll(w, p) PROVE Steps(w)
<1> DEFINE i == p.invoice
<1>0. i \in Invoice
  BY DEF FInv, IInv, Typing, QueuesOK, Poll
<1>1. CASE row[i].status \in {"polling", "authorized"}
  <2> DEFINE r == [Idle EXCEPT !.pc = "consult", !.invoice = i,
                               !.status = row[i].status, !.retries = p.retries]
  <2>1. /\ job' = [job EXCEPT ![w] = r] /\ lock' = [lock EXCEPT ![i] = w]
        /\ UNCHANGED row /\ lock[i] = None
    BY <1>1 DEF TakePoll, Free
  <2>2. r.pc = "consult" /\ r.invoice = i /\ r.status = row[i].status
    BY DEF Idle
  <2>3. job'[w] = r /\ lock'[i] = w /\ \A v \in Worker : v # w => job'[v] = job[v]
    BY <1>0, <2>1, JobsTyped
  <2>4. Current(job[w], w)'
    BY <2>1, <2>2, <2>3 DEF Current, InTx
  <2>. HIDE DEF r, i
  <2>. QED  BY <1>0, <2>1, <2>3, <2>4, GoSteps
<1>2. CASE row[i].status \notin {"polling", "authorized"}
  BY <1>2, JobsTyped, GoSteps DEF TakePoll, Current
<1>. QED  BY <1>1, <1>2

\* A task that holds its row, or a request, talks to the provider.
LEMMA TalkSteps ==
  ASSUME FInv, NEW w \in Worker,
         Submit(w) \/ SchedulePoll(w) \/ Consult(w)
  PROVE  Steps(w)
<1>1. /\ UNCHANGED <<row, lock>> /\ \A v \in Worker : v # w => job'[v] = job[v]
      /\ job'[w].invoice = job[w].invoice /\ job'[w].status = job[w].status
      /\ \/ job[w].pc \in {"submit", "submitted"} /\ job'[w].pc \in {"submitted", "scheduled"}
         \/ job[w].pc = "consult" /\ job'[w].pc = "consulted"
         \/ job[w].pc = "poll_loaded" /\ job'[w].pc = "poll_answered"
  <2>1. job \in [Worker -> Job] /\ job[w] \in Job
    BY JobsTyped
  <2>2. CASE Submit(w)
    BY <2>1, <2>2 DEF Submit, Job
  <2>3. CASE SchedulePoll(w)
    BY <2>1, <2>3 DEF SchedulePoll, Job
  <2>4. CASE Consult(w)
    BY <2>1, <2>4 DEF Consult, Job
  <2>. QED  BY <2>2, <2>3, <2>4
<1>2. Current(job[w], w)'
  BY <1>1, JobsTyped DEF Current, InTx
<1>. QED  BY <1>1, <1>2, GoSteps

LEMMA ProcessCommitSteps == ASSUME FInv, NEW w \in Worker, ProcessCommit(w) PROVE Steps(w)
<1> DEFINE i == job[w].invoice
<1> DEFINE to == IF job[w].answer = "authorized" THEN "authorized" ELSE "polling"
<1>1. i \in Invoice /\ lock[i] = w /\ row[i].status = "queued"
  BY JobsTyped DEF ProcessCommit, Current, InTx
<1>2. Write(i, to, TRUE) /\ Finish(w) /\ Unlock(w)
  BY DEF ProcessCommit
<1>3. to \in After["queued"]
  BY Arrows
<1>. HIDE DEF to
<1>4. row'[i].status = to /\ \A k \in Invoice : k # i => row'[k] = row[k]
  <2>. HIDE DEF i
  <2>. QED  BY <1>1, <1>2, WriteStatus
<1>5. Moved(i, w)
  BY <1>1, <1>3, <1>4 DEF Moved
<1>. QED  BY <1>1, <1>2, <1>4, <1>5, SaveSteps

\* Either kind of poll saves, its row being as it was when it was loaded.
LEMMA PolledSteps ==
  ASSUME FInv, NEW w \in Worker, NEW i \in Invoice, i = job[w].invoice,
         row[i].status = job[w].status, job[w].status \in {"polling", "authorized"},
         NEW new, new = AfterPoll(job[w].status, job[w].answer),
         IF new # job[w].status THEN Write(i, new, row[i].ref) ELSE UNCHANGED row,
         Finish(w), lock[i] \in {None, w}, UNCHANGED lock \/ Unlock(w)
  PROVE  Steps(w)
<1>1. new # row[i].status => /\ new \in After[row[i].status]
                             /\ row[i].status = "authorized" => new = "cancelled"
  BY Arrows DEF AfterPoll
<1>2. row'[i].status = new /\ \A k \in Invoice : k # i => row'[k] = row[k]
  <2>1. CASE new # job[w].status
    BY <2>1, WriteStatus
  <2>2. CASE new = job[w].status
    BY <2>2
  <2>. QED  BY <2>1, <2>2
<1>3. Moved(i, w)
  BY <1>1, <1>2 DEF Moved
<1>. QED  BY <1>2, <1>3, SaveSteps

LEMMA PollCommitSteps == ASSUME FInv, NEW w \in Worker, PollCommit(w) PROVE Steps(w)
<1>1. /\ job[w].invoice \in Invoice /\ lock[job[w].invoice] = w
      /\ row[job[w].invoice].status = job[w].status
      /\ job[w].status \in {"polling", "authorized"}
  BY JobsTyped, Recall DEF PollCommit, Current, InTx, FInv, Remembered, Polling
<1>. QED  BY <1>1, PolledSteps DEF PollCommit

LEMMA PollSaveSteps ==
  ASSUME Undisturbed, FInv, NEW w \in Worker, PollSave(w) PROVE Steps(w)
<1>1. /\ job[w].invoice \in Invoice /\ lock[job[w].invoice] = None
      /\ row[job[w].invoice].status = job[w].status
      /\ job[w].status \in {"polling", "authorized"}
  BY JobsTyped, Recall DEF PollSave, Undisturbed, FInv, Remembered, Polling, Free
<1>. QED  BY <1>1, PolledSteps DEF PollSave

\* A task that gives up, a refused cancellation and a crash.
LEMMA GiveUpSteps ==
  ASSUME FInv, NEW w \in Worker,
         SubmitRefused(w) \/ ConsultRefused(w) \/ CancelRefused(w) \/ Crash(w)
  PROVE  Steps(w)
<1>1. /\ Finish(w) /\ UNCHANGED row
      /\ \/ UNCHANGED lock
         \/ job[w].pc \in InTx /\ Unlock(w)
         \/ lock' = [i \in Invoice |-> IF lock[i] = w THEN None ELSE lock[i]]
  BY DEF SubmitRefused, ConsultRefused, CancelRefused, Crash, InTx
<1>. QED  BY <1>1, EndSteps

LEMMA LoadSteps ==
  ASSUME FInv, NEW w \in Worker, NEW i \in Invoice,
         PollLoad(w, i) \/ FilesLoad(w, i) \/ CancelLoad(w, i) \/ ReprocessLoad(w, i)
  PROVE  Steps(w)
<1>1. PICK pc \in {"rp_loaded", "cancel_loaded", "files_loaded", "poll_loaded"} :
        /\ job' = [job EXCEPT ![w] = [Idle EXCEPT !.pc = pc, !.invoice = i,
                                                  !.status = row[i].status]]
        /\ pc = "cancel_loaded" => row[i].status = "authorized"
        /\ pc = "rp_loaded" => row[i].status \in {"rejected", "failed"}
        /\ UNCHANGED <<row, lock>>
  <2>1. CASE PollLoad(w, i)
    BY <2>1 DEF PollLoad
  <2>2. CASE FilesLoad(w, i)
    BY <2>2 DEF FilesLoad
  <2>3. CASE CancelLoad(w, i)
    BY <2>3 DEF CancelLoad
  <2>4. CASE ReprocessLoad(w, i)
    BY <2>4 DEF ReprocessLoad
  <2>. QED  BY <2>1, <2>2, <2>3, <2>4
<1>2. /\ job'[w].pc = pc /\ job'[w].invoice = i /\ job'[w].status = row[i].status
      /\ \A v \in Worker : v # w => job'[v] = job[v]
  BY <1>1, JobsTyped DEF Idle
<1>3. Current(job[w], w)'
  BY <1>1, <1>2 DEF Current, InTx
<1>. QED  BY <1>1, <1>2, <1>3, GoSteps

LEMMA FilesSaveSteps == ASSUME FInv, NEW w \in Worker, FilesSave(w) PROVE Steps(w)
<1>1. row[job[w].invoice] \in Row /\ job[w].invoice \in Invoice
  BY JobsTyped, RowTypes DEF FilesSave, FInv
<1>2. \A k \in Invoice : row'[k].status = row[k].status
  BY <1>1 DEF FilesSave, FInv, IInv, Typing, RowsOK, Row
<1>3. Finish(w) /\ UNCHANGED lock
  BY DEF FilesSave
<1>. QED  BY <1>2, <1>3, IdleCurrent, SameStatus

LEMMA CancelAtProviderSteps ==
  ASSUME FInv, NEW w \in Worker, CancelAtProvider(w) PROVE Steps(w)
<1>1. CASE job' = [job EXCEPT ![w].pc = "cancel_done"]
  <2>1. /\ job'[w].pc = "cancel_done" /\ job'[w].invoice = job[w].invoice
        /\ \A v \in Worker : v # w => job'[v] = job[v]
    BY <1>1, JobsTyped DEF Job
  <2>2. UNCHANGED <<row, lock>> /\ Current(job[w], w) /\ job[w].pc = "cancel_loaded"
    BY JobsTyped DEF CancelAtProvider
  <2>3. Current(job[w], w)'
    BY <2>1, <2>2 DEF Current, InTx
  <2>. QED  BY <2>1, <2>2, <2>3, GoSteps
<1>2. CASE Finish(w)
  BY <1>2, EndSteps DEF CancelAtProvider
<1>. QED  BY <1>1, <1>2 DEF CancelAtProvider

LEMMA CancelSaveSteps == ASSUME FInv, NEW w \in Worker, CancelSave(w) PROVE Steps(w)
<1> DEFINE i == job[w].invoice
<1>1. /\ i \in Invoice /\ row[i].status \in {"authorized", "cancelled"} /\ lock[i] = None
  BY JobsTyped DEF CancelSave, Current, Free
<1>2. Write(i, "cancelled", row[i].ref) /\ Finish(w) /\ UNCHANGED lock
  BY DEF CancelSave
<1>3. row'[i].status = "cancelled" /\ \A k \in Invoice : k # i => row'[k] = row[k]
  <2>. HIDE DEF i
  <2>. QED  BY <1>1, <1>2, WriteStatus
<1>4. Moved(i, w)
  BY <1>1, <1>3, Arrows DEF Moved
<1>. QED  BY <1>1, <1>2, <1>3, <1>4, SaveSteps

LEMMA ReprocessSaveSteps ==
  ASSUME Undisturbed, FInv, NEW w \in Worker, ReprocessSave(w) PROVE Steps(w)
<1> DEFINE i == job[w].invoice
<1>1. /\ i \in Invoice /\ row[i].status \in {"rejected", "failed"} /\ lock[i] = None
  BY JobsTyped DEF ReprocessSave, Undisturbed, Current, Free
<1>2. PICK s \in {"queued", "rejected"} : row' = [row EXCEPT ![i].status = s]
  BY DEF ReprocessSave
<1>3. row'[i].status = s /\ \A k \in Invoice : k # i => row'[k] = row[k]
  BY <1>1, <1>2, RowTypes DEF FInv, IInv, Typing, RowsOK, Row
<1>4. Moved(i, w)
  BY <1>1, <1>3, Arrows DEF Moved
<1>5. Finish(w) /\ UNCHANGED lock
  BY DEF ReprocessSave
<1>. QED  BY <1>1, <1>3, <1>4, <1>5, SaveSteps

LEMMA NextSteps ==
  ASSUME Undisturbed, FInv, Next
  PROVE  \E a \in Worker \cup {None} : Steps(a)
<1>1. ASSUME NEW i \in Invoice, Create(i) \/ ProviderDecides(i) PROVE Steps(None)
  <2>1. CASE ProviderDecides(i)
    BY <2>1 DEF ProviderDecides, Steps, Moved
  <2>. QED  BY <1>1, <2>1, CreateSteps
<1>2. ASSUME NEW c \in Callback, Webhook(c) PROVE Steps(None)
  BY <1>2, WebhookSteps
<1>3. ASSUME NEW w \in Worker, ProcessTask(w) PROVE Steps(w)
  BY <1>3, TakeTaskSteps, TalkSteps, GiveUpSteps, ProcessCommitSteps DEF ProcessTask
<1>4. ASSUME NEW w \in Worker, PollTask(w) PROVE Steps(w)
  BY <1>4, TakePollSteps, TalkSteps, GiveUpSteps, PollCommitSteps DEF PollTask
<1>5. ASSUME NEW w \in Worker, Request(w) PROVE Steps(w)
  BY <1>5, LoadSteps, PollSaveSteps, FilesSaveSteps, CancelAtProviderSteps, GiveUpSteps,
     CancelSaveSteps, ReprocessSaveSteps DEF Request
<1>6. ASSUME NEW w \in Worker, Crash(w) PROVE Steps(w)
  BY <1>6, GiveUpSteps
<1>. QED  BY <1>1, <1>2, <1>3, <1>4, <1>5, <1>6 DEF Next

LEMMA FollowsStep ==
  ASSUME Undisturbed, FInv, [Next]_vars
  PROVE  FInv' /\ [Followed]_vars
<1>1. IInv'
  BY Inductive DEF FInv
<1>2. CASE Next
  BY <1>1, <1>2, NextSteps, StepsKeep
<1>3. CASE UNCHANGED vars
  BY <1>1, <1>3 DEF vars, FInv, AllCurrent, Current
<1>. QED  BY <1>2, <1>3

LEMMA InitiallyCurrent == Init => FInv
<1>. SUFFICES ASSUME Init PROVE AllCurrent
  BY InitialInvariant DEF FInv
<1>. QED  BY DEF Init, Idle, AllCurrent, Current, InTx

\* Whatever tasks, callbacks, cancellations, polls, retries and crashes do at once, an
\* invoice leaves a status only along the arrows of fsm.py, if nobody writes to a row
\* between its being loaded for a poll by hand or a reprocess and its being saved: these
\* two are the only ways in which the code leaves the state machine.
THEOREM StatusFollowsFsm == Spec /\ []Undisturbed => FollowsFsm
<1>1. FInv /\ Undisturbed /\ [Next]_vars => FInv' /\ [Followed]_vars
  BY FollowsStep
<1>. QED  BY <1>1, InitiallyCurrent, PTL DEF Spec, FollowsFsm, Followed

\* Requests that do not disturb each other: nobody polls by hand, and those who
\* reprocess come one at a time.  Without either FollowsFsm is violated.
NoStaleWrite ==
  /\ "poll" \notin Requests
  /\ "reprocess" \in Requests => \A v, w \in Web : v = w

Alone ==
  \A w \in Worker :
    /\ job[w].pc \notin {"poll_loaded", "poll_answered"}
    /\ job[w].pc = "rp_loaded" =>
         /\ w \in Web /\ "reprocess" \in Requests
         /\ row[job[w].invoice].status = job[w].status

LEMMA AloneIsUndisturbed == Alone => Undisturbed
  BY DEF Alone, Undisturbed

\* A write by transition() to a note that was not refused leaves the refused alone.
LEMMA WriteElsewhere ==
  ASSUME FInv, NEW i \in Invoice, NEW to, NEW ref, Write(i, to, ref),
         row[i].status \notin {"rejected", "failed"},
         NEW k \in Invoice, row[k].status \in {"rejected", "failed"}
  PROVE  row'[k] = row[k]
  BY WriteStatus

\* Nobody but the one request that reprocesses touches a note that was refused.
LEMMA RefusedStays ==
  ASSUME FInv, Alone, Next, NEW k \in Invoice, row[k].status \in {"rejected", "failed"}
  PROVE  \/ row'[k].status = row[k].status
         \/ \E w \in Web : ReprocessSave(w)
<1>1. ASSUME NEW i \in Invoice, Create(i) \/ ProviderDecides(i)
      PROVE  row'[k].status = row[k].status
  BY <1>1 DEF Create, ProviderDecides, FInv, IInv, Typing, RowsOK
<1>2. ASSUME NEW c \in Callback, Webhook(c) PROVE row'[k].status = row[k].status
  <2>1. c.invoice \in Invoice
    BY DEF Callback
  <2>2. CASE AfterCallback(row[c.invoice].status, c.status) = row[c.invoice].status
    BY <1>2, <2>1, <2>2, RowTypes DEF Webhook, FInv, IInv, Typing, RowsOK, Row
  <2>3. CASE AfterCallback(row[c.invoice].status, c.status) # row[c.invoice].status
    <3>1. row[c.invoice].status \notin {"rejected", "failed"}
      BY <2>3 DEF AfterCallback
    <3>2. \E to : Write(c.invoice, to, TRUE)
      BY <1>2, <2>3 DEF Webhook
    <3>. QED  BY <2>1, <3>1, <3>2, WriteElsewhere
  <2>. QED  BY <2>2, <2>3
<1>3. ASSUME NEW w \in Worker, ProcessTask(w) PROVE row'[k].status = row[k].status
  <2>1. CASE ProcessCommit(w)
    <3>1. job[w].invoice \in Invoice /\ row[job[w].invoice].status = "queued"
      BY <2>1, JobsTyped DEF ProcessCommit, Current, InTx
    <3>2. \E to : Write(job[w].invoice, to, TRUE)
      BY <2>1 DEF ProcessCommit
    <3>. QED  BY <3>1, <3>2, WriteElsewhere
  <2>. QED  BY <1>3, <2>1 DEF ProcessTask, TakeTask, Submit, SubmitRefused, SchedulePoll
<1>4. ASSUME NEW w \in Worker, PollTask(w) PROVE row'[k].status = row[k].status
  <2>1. CASE PollCommit(w)
    <3>1. job[w].invoice \in Invoice /\ row[job[w].invoice].status \in {"polling", "authorized"}
      BY <2>1, JobsTyped, Recall DEF PollCommit, Current, InTx, FInv, Remembered, Polling
    <3>2. UNCHANGED row \/ \E to, ref : Write(job[w].invoice, to, ref)
      BY <2>1 DEF PollCommit
    <3>. QED  BY <3>1, <3>2, WriteElsewhere
  <2>. QED  BY <1>4, <2>1 DEF PollTask, TakePoll, Consult, ConsultRefused
<1>5. ASSUME NEW w \in Worker, Request(w)
      PROVE  \/ row'[k].status = row[k].status
             \/ \E v \in Web : ReprocessSave(v)
  <2>1. CASE CancelSave(w)
    <3>1. job[w].invoice \in Invoice /\ row[job[w].invoice].status \in {"authorized", "cancelled"}
      BY <2>1, JobsTyped DEF CancelSave, Current
    <3>2. \E to, ref : Write(job[w].invoice, to, ref)
      BY <2>1 DEF CancelSave
    <3>. QED  BY <3>1, <3>2, WriteElsewhere
  <2>2. CASE FilesSave(w)
    <3>1. row[job[w].invoice] \in Row /\ job[w].invoice \in Invoice
      BY <2>2, JobsTyped, RowTypes DEF FilesSave, FInv
    <3>. QED  BY <2>2, <3>1 DEF FilesSave, FInv, IInv, Typing, RowsOK, Row
  <2>3. ~ PollSave(w)
    BY DEF Alone, PollSave
  <2>4. CASE ReprocessSave(w)
    BY <2>4 DEF Alone, ReprocessSave
  <2>5. CASE \E i \in Invoice : \/ PollLoad(w, i) \/ FilesLoad(w, i)
                                \/ CancelLoad(w, i) \/ ReprocessLoad(w, i)
    BY <2>5 DEF PollLoad, FilesLoad, CancelLoad, ReprocessLoad
  <2>. QED  BY <1>5, <2>1, <2>2, <2>3, <2>4, <2>5 DEF Request, CancelAtProvider, CancelRefused
<1>6. ASSUME NEW w \in Worker, Crash(w) PROVE row'[k].status = row[k].status
  BY <1>6 DEF Crash
<1>. QED  BY <1>1, <1>2, <1>3, <1>4, <1>5, <1>6 DEF Next

\* What a worker does that has come to reprocess or to poll by hand: it was there
\* already, or it is a request that has just loaded a refused note.
LEMMA LoadedBy ==
  ASSUME NoStaleWrite, FInv, Alone, Next, NEW v \in Worker,
         job'[v].pc \in {"poll_loaded", "poll_answered", "rp_loaded"}
  PROVE  \/ job'[v] = job[v]
         \/ \E i \in Invoice : ReprocessLoad(v, i)
<1>1. job \in [Worker -> Job] /\ job[v].pc \notin {"poll_loaded", "poll_answered"}
  BY JobsTyped DEF Alone
<1>2. ASSUME NEW w \in Worker, NEW r, job' = [job EXCEPT ![w] = r],
             r.pc \notin {"poll_loaded", "poll_answered", "rp_loaded"}
      PROVE  job'[v] = job[v]
  BY <1>1, <1>2
<1>2a. ASSUME NEW w \in Worker, Finish(w) PROVE job'[v] = job[v]
  BY <1>1, <1>2a DEF Finish, Idle
<1>3. ASSUME NEW i \in Invoice, Create(i) \/ ProviderDecides(i) PROVE job'[v] = job[v]
  BY <1>3 DEF Create, ProviderDecides
<1>4. ASSUME NEW c \in Callback, Webhook(c) PROVE job'[v] = job[v]
  BY <1>4 DEF Webhook
<1>5. ASSUME NEW w \in Worker, ProcessTask(w) PROVE job'[v] = job[v]
  <2>1. ASSUME NEW i \in Invoice, TakeTask(w, i) PROVE job'[v] = job[v]
    <3> DEFINE r == [Idle EXCEPT !.pc = "submit", !.invoice = i, !.status = "queued"]
    <3>1. r.pc = "submit"
      BY DEF Idle
    <3>2. job' = job \/ job' = [job EXCEPT ![w] = r]
      BY <2>1 DEF TakeTask
    <3>. HIDE DEF r
    <3>. QED  BY <1>2, <3>1, <3>2
  <2>2. CASE Submit(w)
    BY <1>1, <2>2 DEF Submit, Job
  <2>3. CASE SchedulePoll(w)
    BY <1>1, <2>3 DEF SchedulePoll, Job
  <2>. QED  BY <1>2a, <1>5, <2>1, <2>2, <2>3 DEF ProcessTask, SubmitRefused, ProcessCommit
<1>6. ASSUME NEW w \in Worker, PollTask(w) PROVE job'[v] = job[v]
  <2>1. ASSUME NEW p \in polls, TakePoll(w, p) PROVE job'[v] = job[v]
    <3> DEFINE r == [Idle EXCEPT !.pc = "consult", !.invoice = p.invoice,
                                 !.status = row[p.invoice].status, !.retries = p.retries]
    <3>1. r.pc = "consult"
      BY DEF Idle
    <3>2. job' = job \/ job' = [job EXCEPT ![w] = r]
      BY <2>1 DEF TakePoll
    <3>. HIDE DEF r
    <3>. QED  BY <1>2, <3>1, <3>2
  <2>2. CASE Consult(w)
    <3>1. job[w].pc = "consult"
      BY <2>2 DEF Alone, Consult
    <3>. QED  BY <1>1, <2>2, <3>1 DEF Consult, Job
  <2>. QED  BY <1>2a, <1>6, <2>1, <2>2 DEF PollTask, ConsultRefused, PollCommit
<1>7. ASSUME NEW w \in Worker, Request(w)
      PROVE  job'[v] = job[v] \/ \E i \in Invoice : ReprocessLoad(v, i)
  <2>1. ASSUME NEW i \in Invoice, FilesLoad(w, i) \/ CancelLoad(w, i)
        PROVE  job'[v] = job[v]
    <3> DEFINE r(pc) == [Idle EXCEPT !.pc = pc, !.invoice = i, !.status = "authorized"]
    <3>1. r("files_loaded").pc = "files_loaded" /\ r("cancel_loaded").pc = "cancel_loaded"
      BY DEF Idle
    <3>2. \/ job' = [job EXCEPT ![w] = r("files_loaded")]
          \/ job' = [job EXCEPT ![w] = r("cancel_loaded")]
      BY <2>1 DEF FilesLoad, CancelLoad
    <3>. HIDE DEF r
    <3>. QED  BY <1>2, <3>1, <3>2
  <2>2. ASSUME NEW i \in Invoice, ReprocessLoad(w, i)
        PROVE  job'[v] = job[v] \/ v = w
    BY <1>1, <2>2 DEF ReprocessLoad
  <2>3. \A i \in Invoice : ~ PollLoad(w, i)
    BY DEF PollLoad, NoStaleWrite
  <2>4. CASE CancelAtProvider(w)
    <3>1. CASE job' = [job EXCEPT ![w].pc = "cancel_done"]
      BY <1>1, <3>1 DEF Job
    <3>. QED  BY <1>2a, <2>4, <3>1 DEF CancelAtProvider
  <2>. QED  BY <1>2a, <1>7, <2>1, <2>2, <2>3, <2>4
            DEF Request, PollSave, FilesSave, CancelRefused, CancelSave, ReprocessSave
<1>8. ASSUME NEW w \in Worker, Crash(w) PROVE job'[v] = job[v]
  BY <1>2a, <1>8 DEF Crash
<1>. QED  BY <1>3, <1>4, <1>5, <1>6, <1>7, <1>8 DEF Next

LEMMA StaysAlone ==
  ASSUME NoStaleWrite, FInv, Alone, [Next]_vars
  PROVE  Alone'
<1>1. CASE UNCHANGED vars
  BY <1>1 DEF vars, Alone
<1>2. CASE Next
  <2>. SUFFICES ASSUME NEW v \in Worker,
                       job'[v].pc \in {"poll_loaded", "poll_answered", "rp_loaded"}
                PROVE  /\ job'[v].pc = "rp_loaded" /\ v \in Web /\ "reprocess" \in Requests
                       /\ row'[job'[v].invoice].status = job'[v].status
    BY DEF Alone
  <2>1. CASE \E i \in Invoice : ReprocessLoad(v, i)
    BY <2>1, JobsTyped DEF ReprocessLoad, Idle
  <2>2. CASE job'[v] = job[v]
    <3> DEFINE k == job[v].invoice
    <3>1. /\ job[v].pc = "rp_loaded" /\ v \in Web /\ "reprocess" \in Requests
          /\ k \in Invoice /\ row[k].status = job[v].status
          /\ row[k].status \in {"rejected", "failed"}
      BY <2>2, JobsTyped DEF Alone, Current
    <3>2. ~ \E w \in Web : ReprocessSave(w)
      <4>. SUFFICES ASSUME NEW w \in Web, ReprocessSave(w) PROVE FALSE
        OBVIOUS
      <4>1. w = v
        BY <3>1 DEF NoStaleWrite
      <4>2. job'[v].pc = "idle"
        BY <4>1, JobsTyped DEF ReprocessSave, Finish, Idle
      <4>. QED  BY <2>2, <3>1, <4>2
    <3>3. row'[k].status = row[k].status
      <4>. HIDE DEF k
      <4>. QED  BY <1>2, <3>1, <3>2, RefusedStays
    <3>. QED  BY <2>2, <3>1, <3>3
  <2>. QED  BY <1>2, <2>1, <2>2, LoadedBy
<1>. QED  BY <1>1, <1>2

\* The same without a hypothesis on behaviours: for any number of Celery workers, and
\* of requests that cancel or fetch files, or one request at a time that may also
\* reprocess, an invoice leaves a status only along the arrows of fsm.py.
THEOREM AloneFollowsFsm ==
  ASSUME NoStaleWrite
  PROVE  Spec => FollowsFsm
<1>1. Init => Alone
  BY DEF Init, Idle, Alone
<1>2. FInv /\ Alone /\ [Next]_vars => FInv' /\ Alone'
  BY FollowsStep, StaysAlone, AloneIsUndisturbed
<1>3. Spec => []Undisturbed
  BY <1>1, <1>2, InitiallyCurrent, AloneIsUndisturbed, PTL DEF Spec
<1>. QED  BY <1>3, StatusFollowsFsm, PTL
=============================================================================
