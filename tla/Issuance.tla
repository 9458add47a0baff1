------------------------------- MODULE Issuance -------------------------------
(***************************************************************************)
(* The life of a service invoice (NFS-e) in apps/issuance: the Hub's row,  *)
(* the note at the provider (Focus), the Celery tasks that submit and poll *)
(* it, the provider's callbacks, and the requests that cancel, reprocess   *)
(* or poll it by hand.                                                     *)
(*                                                                         *)
(* Tasks and callbacks SELECT the row FOR UPDATE before they look at it.   *)
(* Requests do not: they load the row, call the provider, and write what   *)
(* follows from what they loaded.  A transaction passes through draft,     *)
(* pending_tax and submitting but never commits them; only what it commits *)
(* is a state here.  The provider is not part of the transaction.          *)
(***************************************************************************)
EXTENDS Integers, FiniteSets

CONSTANTS
  Invoice,   \* NfIssue rows, each one named by its (tenant, idempotency_key)
  Web,       \* requests and Admin actions running at the same time
  Celery,    \* Celery workers
  Requests,  \* what the requests of this instance do, see RequestNames
  Faults,    \* the failures of this instance, see FaultNames
  MaxPosts,  \* bounds how often the provider accepts one invoice
  MaxRetries,\* max_retries of poll_nf_issue (12 in the code)
  MaxTasks,  \* bounds the process_nf_issue messages of one invoice
  Body,      \* contents of a rejection, equal ones have equal hashes
  None

Worker == Web \cup Celery

RequestNames == {"reprocess", "cancel", "poll", "files"}
\* crash: the process dies or an exception unwinds it, a lost answer included.
\* refused: the provider answers with an error.  poll_refused: it does to a poll.
FaultNames == {"crash", "refused", "poll_refused"}

ASSUME WorkerAssumption == Web \cap Celery = {} /\ None \notin Worker
ASSUME InvoiceAssumption == None \notin Invoice /\ None \notin Body
ASSUME BoundAssumption ==
  /\ MaxPosts \in Nat \ {0} /\ MaxTasks \in Nat \ {0} /\ MaxRetries \in Nat
  /\ Requests \subseteq RequestNames /\ Faults \subseteq FaultNames

-----------------------------------------------------------------------------
(* The state machine of fsm.py *)

\* ALLOWED.
Allowed ==
  [draft |-> {"pending_tax"}, pending_tax |-> {"queued", "rejected"},
   queued |-> {"submitting", "failed"},
   submitting |-> {"polling", "rejected", "failed"},
   polling |-> {"authorized", "rejected", "failed"},
   authorized |-> {"cancelled"}, rejected |-> {"pending_tax"},
   failed |-> {"pending_tax"}, cancelled |-> {}]

FsmStatus == DOMAIN Allowed
\* What a transaction may commit.
Status == FsmStatus \ {"draft", "pending_tax", "submitting"}

\* Where one transaction may take an invoice from s: the least set that holds s and
\* what follows it, and is closed under the arrows of ALLOWED, where only a rejected
\* or failed invoice goes back to pending_tax.
After ==
  LET closed(S) == \A t \in S : Allowed[t] \ {"pending_tax"} \subseteq S
      reached(s) == {S \in SUBSET FsmStatus : {s} \cup Allowed[s] \subseteq S /\ closed(S)}
  IN  [s \in FsmStatus |-> {t \in FsmStatus : \A S \in reached(s) : t \in S}]

-----------------------------------------------------------------------------
(* The provider *)

Situation == {"none", "processing", "authorized", "error", "cancelling", "cancelled"}
\* Once the provider has authorized a note it exists, whatever comes after.
Issued == {"authorized", "cancelling", "cancelled"}
Decided == Issued \cup {"error"}

\* A callback is its inbox key focus:ref:status:hash.  Two rejections of one
\* invoice with the same errors are the same callback.
Callback == [invoice : Invoice, status : {"authorized", "cancelled"}, body : {None}]
            \cup [invoice : Invoice, status : {"error"}, body : Body]

\* Pending poll_nf_issue tasks: the POST they belong to, the retries made.
Poll == [invoice : Invoice, post : 1..MaxPosts, retries : 0..MaxRetries]

VARIABLES
  row,       \* committed NfIssue rows: status, focus_ref set, artifacts stored
  note,      \* the provider's side: situation, and POSTs it accepted
  sent,      \* callbacks sent; delivery may repeat or never happen
  processed, \* callbacks whose WebhookInbox row is processed
  tasks,     \* process_nf_issue messages not yet taken
  polls,     \* poll_nf_issue tasks not yet taken
  lock,      \* holder of the row lock
  job        \* what each worker is doing and remembers

vars == <<row, note, sent, processed, tasks, polls, lock, job>>

Absent == [status |-> "absent", ref |-> FALSE, files |-> FALSE]
Idle == [pc |-> "idle", invoice |-> None, status |-> "absent",
         answer |-> "none", retries |-> 0]

\* Program points of a Celery task that holds the row lock of its invoice.
InTx == {"submit", "submitted", "scheduled", "consult", "consulted"}
PC == InTx \cup {"idle", "rp_loaded", "cancel_loaded", "cancel_done",
                 "poll_loaded", "poll_answered", "files_loaded"}

TypeOK ==
  /\ row \in [Invoice -> [status : Status \cup {"absent"}, ref : BOOLEAN,
                          files : BOOLEAN]]
  /\ note \in [Invoice -> [sit : Situation, posts : 0..MaxPosts]]
  /\ sent \in SUBSET Callback /\ processed \in SUBSET sent
  /\ tasks \in [Invoice -> 0..MaxTasks]
  /\ polls \in SUBSET Poll
  /\ lock \in [Invoice -> Worker \cup {None}]
  /\ job \in [Worker -> [pc : PC, invoice : Invoice \cup {None},
                         status : Status \cup {"absent"}, answer : Situation,
                         retries : 0..MaxRetries]]

Init ==
  /\ row = [i \in Invoice |-> Absent]
  /\ note = [i \in Invoice |-> [sit |-> "none", posts |-> 0]]
  /\ sent = {} /\ processed = {}
  /\ tasks = [i \in Invoice |-> 0]
  /\ polls = {}
  /\ lock = [i \in Invoice |-> None]
  /\ job = [w \in Worker |-> Idle]

-----------------------------------------------------------------------------
(* Shared by the handlers *)

Free(i) == lock[i] = None
Finish(w) == job' = [job EXCEPT ![w] = Idle]
Unlock(w) == lock' = [lock EXCEPT ![job[w].invoice] = None]

\* ensure_authorized_artifacts, once a note is authorized, is best effort.
Files(i, to) == {row[i].files} \cup (IF to = "authorized" THEN {TRUE} ELSE {})

\* The status of i becomes `to` by way of transition(): an NfIssueEvent, and an
\* outbox message with it.
Write(i, to, ref) ==
  \E files \in Files(i, to) :
    row' = [row EXCEPT ![i] = [status |-> to, ref |-> ref, files |-> files]]

\* The provider calls back, or the call is lost on the way.
CallBack(i, status) ==
  \/ UNCHANGED sent
  \/ \E c \in Callback : /\ c.invoice = i /\ c.status = status
                         /\ sent' = sent \cup {c}

\* _enqueue_process: on_commit, so a crash in between loses the message.
Enqueue(i) ==
  \/ tasks' = [tasks EXCEPT ![i] = @ + 1]
  \/ "crash" \in Faults /\ UNCHANGED tasks

-----------------------------------------------------------------------------
(* The provider decides *)

NextSituation ==
  [none |-> {}, processing |-> {"authorized", "error"}, error |-> {},
   authorized |-> {"cancelled"}, cancelling |-> {"authorized", "cancelled"},
   cancelled |-> {}]

ProviderDecides(i) ==
  \E new \in NextSituation[note[i].sit] :
    /\ note' = [note EXCEPT ![i].sit = new]
    /\ CallBack(i, new)
    /\ UNCHANGED <<row, processed, tasks, polls, lock, job>>

-----------------------------------------------------------------------------
(* create_nf_issue and process_nf_issue *)

\* create_nf_issue of a new key: resolved and queued, or rejected by the tax
\* engine, in one transaction.  An existing key returns its row: no step.
Create(i) ==
  /\ row[i].status = "absent"
  /\ \/ row' = [row EXCEPT ![i].status = "queued"] /\ Enqueue(i)
     \/ row' = [row EXCEPT ![i].status = "rejected"] /\ UNCHANGED tasks
  /\ UNCHANGED <<note, sent, processed, polls, lock, job>>

\* A worker takes the message and locks the row; process_queued_issue has
\* something to do only if it is queued.
TakeTask(w, i) ==
  /\ w \in Celery /\ job[w].pc = "idle" /\ tasks[i] > 0 /\ Free(i)
  /\ tasks' = [tasks EXCEPT ![i] = @ - 1]
  /\ IF row[i].status = "queued"
     THEN /\ lock' = [lock EXCEPT ![i] = w]
          /\ job' = [job EXCEPT ![w] = [Idle EXCEPT !.pc = "submit", !.invoice = i,
                                                    !.status = "queued"]]
     ELSE UNCHANGED <<lock, job>>
  /\ UNCHANGED <<row, note, sent, processed, polls>>

\* provider.emitir: the reference is the invoice's id, so the provider takes it
\* again only after it has refused it.  It may decide at once.
Submit(w) ==
  LET i == job[w].invoice IN
  /\ job[w].pc = "submit"
  /\ note[i].sit \in {"none", "error"} /\ note[i].posts < MaxPosts
  /\ \E answer \in {"processing", "authorized", "error"} :
       /\ note' = [note EXCEPT ![i] = [sit |-> answer, posts |-> @.posts + 1]]
       /\ IF answer = "processing" THEN UNCHANGED sent ELSE CallBack(i, answer)
       /\ job' = [job EXCEPT ![w].pc = "submitted", ![w].answer = answer]
  /\ UNCHANGED <<row, processed, tasks, polls, lock>>

\* FocusHttpError: the task ends, everything it wrote is rolled back, and the
\* message is gone: the invoice stays queued.
SubmitRefused(w) ==
  LET i == job[w].invoice IN
  /\ job[w].pc = "submit"
  /\ \/ "refused" \in Faults
     \/ note[i].sit \notin {"none", "error"}
     \/ note[i].posts = MaxPosts
  /\ Unlock(w) /\ Finish(w)
  /\ UNCHANGED <<row, note, sent, processed, tasks, polls>>

\* schedule_poll: the poll task is sent before the transaction commits.
SchedulePoll(w) ==
  LET i == job[w].invoice IN
  /\ job[w].pc = "submitted" /\ job[w].answer # "authorized"
  /\ polls' = polls \cup {[invoice |-> i, post |-> note[i].posts, retries |-> 0]}
  /\ job' = [job EXCEPT ![w].pc = "scheduled"]
  /\ UNCHANGED <<row, note, sent, processed, tasks, lock>>

ProcessCommit(w) ==
  LET j == job[w] IN
  /\ \/ j.pc = "scheduled"
     \/ j.pc = "submitted" /\ j.answer = "authorized"
  /\ Write(j.invoice, IF j.answer = "authorized" THEN "authorized" ELSE "polling", TRUE)
  /\ Unlock(w) /\ Finish(w)
  /\ UNCHANGED <<note, sent, processed, tasks, polls>>

-----------------------------------------------------------------------------
(* poll_nf_issue_status, as the task and as the Admin action *)

\* Mutant: an answer the code does not know counts as authorized.
AfterPoll_DefaultAuthorized(status, answer) ==
  IF status = "polling" THEN IF answer = "error" THEN "rejected" ELSE "authorized"
  ELSE IF answer = "cancelled" THEN "cancelled" ELSE status

\* Mutant: a refused note is left for the next retry.
AfterPoll_KeepsPolling(status, answer) ==
  IF status = "polling" THEN IF answer = "authorized" THEN "authorized" ELSE "polling"
  ELSE IF answer = "cancelled" THEN "cancelled" ELSE status

\* Mutant: the answer to a cancellation request counts as the cancellation.
AfterPoll_CancelsEarly(status, answer) ==
  IF status = "authorized" /\ answer \in {"cancelling", "cancelled"} THEN "cancelled"
  ELSE IF status = "polling" /\ answer = "authorized" THEN "authorized"
  ELSE IF status = "polling" /\ answer \in {"error", "cancelled"} THEN "rejected"
  ELSE status

\* What a poll makes of the status it found (polling with a focus_ref, or
\* authorized) and the provider's answer.
AfterPoll(status, answer) ==
  IF status = "authorized" /\ answer = "cancelled" THEN "cancelled"
  ELSE IF status = "polling" /\ answer = "authorized" THEN "authorized"
  ELSE IF status = "polling" /\ answer \in {"error", "cancelled"} THEN "rejected"
  ELSE status

\* Mutant: one retry too many.
RetryLeft_OffByOne(n) == n <= MaxRetries
RetryLeft(n) == n < MaxRetries

\* A poll of an invoice that is neither polling nor authorized ends.
TakePoll(w, p) ==
  LET i == p.invoice IN
  /\ w \in Celery /\ job[w].pc = "idle" /\ Free(i)
  /\ polls' = polls \ {p}
  /\ IF row[i].status \in {"polling", "authorized"}
     THEN /\ lock' = [lock EXCEPT ![i] = w]
          /\ job' = [job EXCEPT ![w] = [Idle EXCEPT !.pc = "consult", !.invoice = i,
                         !.status = row[i].status, !.retries = p.retries]]
     ELSE UNCHANGED <<lock, job>>
  /\ UNCHANGED <<row, note, sent, processed, tasks>>

Consult(w) ==
  /\ job[w].pc \in {"consult", "poll_loaded"}
  /\ job' = [job EXCEPT
       ![w].pc = IF @ = "consult" THEN "consulted" ELSE "poll_answered",
       ![w].answer = note[job[w].invoice].sit]
  /\ UNCHANGED <<row, note, sent, processed, tasks, polls, lock>>

\* FocusHttpError ends the task; only an undecided answer is retried.
ConsultRefused(w) ==
  /\ job[w].pc = "consult" /\ "poll_refused" \in Faults
  /\ Unlock(w) /\ Finish(w)
  /\ UNCHANGED <<row, note, sent, processed, tasks, polls>>

\* The transaction commits; self.retry is raised after it.
PollCommit(w) ==
  LET j == job[w]
      i == j.invoice
      new == AfterPoll(j.status, j.answer)
      next == [invoice |-> i, post |-> note[i].posts, retries |-> j.retries + 1] IN
  /\ j.pc = "consulted"
  /\ IF new # j.status THEN Write(i, new, row[i].ref) ELSE UNCHANGED row
  /\ polls' = IF new = "polling" /\ RetryLeft(j.retries) THEN polls \cup {next}
              ELSE polls
  /\ Unlock(w) /\ Finish(w)
  /\ UNCHANGED <<note, sent, processed, tasks>>

\* Admin "Consultar status no provedor": the same on a row loaded before.
PollLoad(w, i) ==
  /\ "poll" \in Requests /\ w \in Web /\ job[w].pc = "idle"
  /\ row[i].status \in {"polling", "authorized"}
  /\ job' = [job EXCEPT ![w] = [Idle EXCEPT !.pc = "poll_loaded", !.invoice = i,
                                            !.status = row[i].status]]
  /\ UNCHANGED <<row, note, sent, processed, tasks, polls, lock>>

PollSave(w) ==
  LET j == job[w]
      new == AfterPoll(j.status, j.answer) IN
  /\ j.pc = "poll_answered" /\ Free(j.invoice)
  /\ IF new # j.status THEN Write(j.invoice, new, row[j.invoice].ref)
     ELSE UNCHANGED row
  /\ Finish(w)
  /\ UNCHANGED <<note, sent, processed, tasks, polls, lock>>

\* Admin: ensure_authorized_artifacts again, on a row it has just read.
FilesLoad(w, i) ==
  /\ "files" \in Requests /\ w \in Web /\ job[w].pc = "idle"
  /\ row[i].status = "authorized" /\ ~row[i].files
  /\ job' = [job EXCEPT ![w] = [Idle EXCEPT !.pc = "files_loaded", !.invoice = i,
                                            !.status = "authorized"]]
  /\ UNCHANGED <<row, note, sent, processed, tasks, polls, lock>>

FilesSave(w) ==
  /\ job[w].pc = "files_loaded" /\ Free(job[w].invoice)
  /\ row' = [row EXCEPT ![job[w].invoice].files = TRUE]
  /\ Finish(w)
  /\ UNCHANGED <<note, sent, processed, tasks, polls, lock>>

-----------------------------------------------------------------------------
(* cancel_nf_issue and reprocess_nf_issue *)

CancelLoad(w, i) ==
  /\ "cancel" \in Requests /\ w \in Web /\ job[w].pc = "idle"
  /\ row[i].status = "authorized" /\ row[i].ref
  /\ job' = [job EXCEPT ![w] = [Idle EXCEPT !.pc = "cancel_loaded", !.invoice = i,
                                            !.status = "authorized"]]
  /\ UNCHANGED <<row, note, sent, processed, tasks, polls, lock>>

\* provider.cancelar: done at once (a cancelled note may be confirmed again), or
\* under way, for which the code raises.
CancelAtProvider(w) ==
  LET i == job[w].invoice IN
  /\ job[w].pc = "cancel_loaded"
  /\ \/ /\ note[i].sit \in {"authorized", "cancelled"}
        /\ note' = [note EXCEPT ![i].sit = "cancelled"] /\ CallBack(i, "cancelled")
        /\ job' = [job EXCEPT ![w].pc = "cancel_done"]
     \/ /\ note[i].sit = "authorized"
        /\ note' = [note EXCEPT ![i].sit = "cancelling"] /\ UNCHANGED sent
        /\ Finish(w)
  /\ UNCHANGED <<row, processed, tasks, polls, lock>>

CancelRefused(w) ==
  /\ job[w].pc = "cancel_loaded"
  /\ "refused" \in Faults \/ note[job[w].invoice].sit # "authorized"
  /\ Finish(w)
  /\ UNCHANGED <<row, note, sent, processed, tasks, polls, lock>>

CancelSave(w) ==
  LET i == job[w].invoice IN
  /\ job[w].pc = "cancel_done" /\ Free(i)
  /\ Write(i, "cancelled", row[i].ref)
  /\ Finish(w)
  /\ UNCHANGED <<note, sent, processed, tasks, polls, lock>>

ReprocessLoad(w, i) ==
  /\ "reprocess" \in Requests /\ w \in Web /\ job[w].pc = "idle"
  /\ row[i].status \in {"rejected", "failed"}
  /\ job' = [job EXCEPT ![w] = [Idle EXCEPT !.pc = "rp_loaded", !.invoice = i,
                                            !.status = row[i].status]]
  /\ UNCHANGED <<row, note, sent, processed, tasks, polls, lock>>

\* The tax rule is resolved anew: queued, or rejected again.
ReprocessSave(w) ==
  LET i == job[w].invoice IN
  /\ job[w].pc = "rp_loaded" /\ Free(i)
  /\ \/ /\ tasks[i] < MaxTasks
        /\ row' = [row EXCEPT ![i].status = "queued"] /\ Enqueue(i)
     \/ row' = [row EXCEPT ![i].status = "rejected"] /\ UNCHANGED tasks
  /\ Finish(w)
  /\ UNCHANGED <<note, sent, processed, polls, lock>>

-----------------------------------------------------------------------------
(* ingest_focus_nfse_webhook *)

\* Mutant: a callback is applied without looking at where the invoice is.
AfterCallback_Blind(status, word) == IF word = "error" THEN "rejected" ELSE word

\* _apply_provider_status: what is still on its way is taken through polling.
AfterCallback(status, word) ==
  IF status \in {"queued", "polling"}
  THEN IF word = "authorized" THEN "authorized" ELSE "rejected"
  ELSE IF status = "authorized" /\ word = "cancelled" THEN "cancelled" ELSE status

\* One transaction under the row lock; a callback whose inbox row is processed
\* is answered without a step.
Webhook(c) ==
  LET i == c.invoice
      new == AfterCallback(row[i].status, c.status) IN
  /\ c \in sent \ processed
  /\ row[i].status # "absent" /\ Free(i)
  /\ processed' = processed \cup {c}
  /\ IF new # row[i].status THEN Write(i, new, TRUE)
     ELSE row' = [row EXCEPT ![i].ref = TRUE]
  /\ UNCHANGED <<note, sent, tasks, polls, lock, job>>

-----------------------------------------------------------------------------
Crash(w) ==
  /\ "crash" \in Faults /\ job[w].pc # "idle"
  /\ "poll_refused" \in Faults \/ job[w].pc \notin {"consult", "consulted"}
  /\ lock' = [i \in Invoice |-> IF lock[i] = w THEN None ELSE lock[i]]
  /\ Finish(w)
  /\ UNCHANGED <<row, note, sent, processed, tasks, polls>>

ProcessTask(w) ==
  \/ \E i \in Invoice : TakeTask(w, i)
  \/ Submit(w) \/ SubmitRefused(w) \/ SchedulePoll(w) \/ ProcessCommit(w)

PollTask(w) ==
  \/ \E p \in polls : TakePoll(w, p)
  \/ Consult(w) \/ ConsultRefused(w) \/ PollCommit(w)

Request(w) ==
  \/ \E i \in Invoice :
       PollLoad(w, i) \/ FilesLoad(w, i) \/ CancelLoad(w, i) \/ ReprocessLoad(w, i)
  \/ PollSave(w) \/ FilesSave(w) \/ CancelAtProvider(w) \/ CancelRefused(w) \/ CancelSave(w)
  \/ ReprocessSave(w)

Next ==
  \/ \E i \in Invoice : Create(i) \/ ProviderDecides(i)
  \/ \E c \in Callback : Webhook(c)
  \/ \E w \in Worker : ProcessTask(w) \/ PollTask(w) \/ Request(w) \/ Crash(w)

Spec == Init /\ [][Next]_vars

\* A task that a worker has taken goes on: calls to the provider have a timeout.
\* A message or a poll whose time has come is taken when its row is free.
FairSpec ==
  /\ Spec
  /\ \A w \in Celery :
       /\ WF_vars(Submit(w) \/ SubmitRefused(w)) /\ WF_vars(SchedulePoll(w))
       /\ WF_vars(ProcessCommit(w)) /\ WF_vars(Consult(w)) /\ WF_vars(PollCommit(w))
  /\ \A i \in Invoice : SF_vars(\E w \in Celery : TakeTask(w, i))
  /\ \A p \in Poll : SF_vars(\E w \in Celery : p \in polls /\ TakePoll(w, p))

-----------------------------------------------------------------------------
(* Properties *)

\* The Hub never shows a note as authorized, or keeps its files, that the
\* provider has not authorized: neither a late callback of an earlier attempt, nor
\* a poll that answers after a reprocess, nor two polls at once make it so.
AuthorizedAtProvider ==
  \A i \in Invoice :
    row[i].status = "authorized" \/ row[i].files => note[i].sit \in Issued

\* A note the Hub shows as cancelled is cancelled at the provider, and cannot be
\* reinstated there: the request under way is not taken for its result.
CancelledAtProvider ==
  \A i \in Invoice : row[i].status = "cancelled" => note[i].sit = "cancelled"

\* "A emissao e uma maquina de estados estrita ... Transicoes fora dessa ordem
\* devem ser bloqueadas no service": whatever tasks, callbacks and requests do at
\* once, a committed status is only left along the arrows of ALLOWED; an
\* authorized note never goes back to the queue, a polled one is not sent again.
FollowsFsm ==
  [][\A i \in Invoice :
       row[i].status # "absent" => row'[i].status \in After[row[i].status]]_vars

\* A note in polling that still has a poll to come learns what the provider has
\* decided, though every callback is lost or swallowed by the inbox.
PollToCome(i) == row[i].status = "polling" /\ \E p \in polls : p.invoice = i
DecidedIsLearnt ==
  \A i \in Invoice :
    (PollToCome(i) /\ note[i].sit \in Decided) ~> (row[i].status # "polling")

=============================================================================
