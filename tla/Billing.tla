------------------------------- MODULE Billing -------------------------------
(***************************************************************************)
(* The life of a charge (cobranca) in apps/billing: the Hub's rows, the    *)
(* bank that issues the payment slips (boletos), the callbacks the bank    *)
(* sends, and the requests and jobs that run side by side on both.         *)
(*                                                                         *)
(* The database is PostgreSQL at READ COMMITTED.  A worker (a web request  *)
(* or the Celery beat job) reads committed rows into Python objects, calls *)
(* the bank, and later writes what it remembers: its job record is that    *)
(* memory.  The first UPDATE, INSERT or SELECT FOR UPDATE of a charge in a *)
(* transaction takes the row lock, held until commit; what the transaction *)
(* wrote becomes visible at commit, and a rollback leaves nothing of it.   *)
(* The bank is not part of the transaction: what it did stays done.        *)
(***************************************************************************)
EXTENDS Integers, Sequences, FiniteSets

CONSTANTS
  Charge,   \* charges, each one named by its (tenant, idempotency_key)
  Slip,     \* slips the bank may issue for one charge (bounds re-emission)
  Web,      \* web requests and admin actions running at the same time
  Beat,     \* Celery workers running billing.sync_open_charges
  Jobs,     \* the operations this instance exercises, see JobNames
  Faults,   \* the failures this instance exercises, see FaultNames
  Callbacks,\* the kinds of callback that reach the Hub, the others are lost
  OutboxCap,\* outbox counters saturate here
  None

Worker == Web \cup Beat

JobNames == {"create", "emit", "cancel", "sync", "overdue", "webhook", "pdf"}
\* crash: the process dies or raises, the transaction rolls back.
\* gateway_error: the bank refuses.  lost_answer: it obeyed, the Hub sees an error.
FaultNames == {"crash", "gateway_error", "lost_answer"}

ASSUME WorkerAssumption == Web \cap Beat = {} /\ None \notin Worker
ASSUME NoneAssumption == None \notin Charge /\ None \notin Slip
ASSUME BoundAssumption ==
  /\ OutboxCap \in Nat \ {0}
  /\ Jobs \subseteq JobNames
  /\ Faults \subseteq FaultNames

-----------------------------------------------------------------------------
(* Statuses of the Hub, situations of the bank *)

Status == {"pending", "registered", "overdue", "paid", "cancelled", "failed"}
Open == {"pending", "registered", "overdue"}

\* Mutant: a situation the map does not know counts as paid.
HubStatus_DefaultPaid ==
  [em_processamento |-> "paid", a_receber |-> "registered",
   atrasado |-> "overdue", recebido |-> "paid",
   recebido_outro_valor |-> "paid", cancelado |-> "cancelled",
   falha_emissao |-> "failed"]

\* INTER_SITUACAO_TO_HUB.  "recebido" is RECEBIDO or MARCADO_RECEBIDO, with
\* "_outro_valor" when valorTotalRecebido is not the nominal amount (fine,
\* interest, discount); "cancelado" is CANCELADO or EXPIRADO.  PROTESTO, which
\* the bank knows too, has no entry.
HubStatus ==
  [em_processamento |-> "pending", a_receber |-> "registered",
   atrasado |-> "overdue", recebido |-> "paid",
   recebido_outro_valor |-> "paid", cancelado |-> "cancelled",
   falha_emissao |-> "failed"]

\* consultar_cobranca: the answer to a GET, "registered" for a situation that is
\* not in the map.
Consulted(sit) == IF sit \in DOMAIN HubStatus THEN HubStatus[sit] ELSE "registered"

\* _webhook_is_payment: a callback without hub_status counts as a payment, and
\* one whose situation is not in the map has none.
IsPayment(sit) == sit \in DOMAIN HubStatus => HubStatus[sit] = "paid"

Situation == {"em_processamento", "a_receber", "atrasado", "protesto", "recebido",
              "recebido_outro_valor", "cancelado", "falha_emissao"}
Received == {"recebido", "recebido_outro_valor"}
Payable == {"em_processamento", "a_receber", "atrasado", "protesto"}

\* What a slip may become at the bank: external, the Hub only observes it.  The
\* bank cancels on its own (expiry) or, some time after it accepted it, at the
\* Hub's request.
NextSituation ==
  [em_processamento |-> {"a_receber", "cancelado", "falha_emissao"},
   a_receber |-> {"atrasado", "cancelado"} \cup Received,
   atrasado |-> {"protesto", "cancelado"} \cup Received,
   protesto |-> {"cancelado"} \cup Received,
   recebido |-> {}, recebido_outro_valor |-> {},
   cancelado |-> {}, falha_emissao |-> {}, unissued |-> {}]

\* A callback is identified by its inbox key event:ref:data_situacao.  A light
\* one carries no situacao, so all light callbacks of a slip share the key
\* INTER_CALLBACK:ref: and are one note.
Kind == Situation \cup {"light"}
Note == [charge : Charge, slip : Slip, kind : Kind]
ASSUME NoteAssumption == None \notin Note

-----------------------------------------------------------------------------
VARIABLES
  row,     \* committed Charge rows: status, gateway_ref, pdf_file
  events,  \* PaymentEvent rows of a charge, each its webhook_inbox (None: by sync)
  inbox,   \* WebhookInbox rows by callback: status and stored payload
  outbox,  \* how many charge.* messages were enqueued
  lock,    \* row lock (for an absent row, the unique index entry) holder
  job,     \* what each worker is doing and remembers
  bank,    \* bank[c][s]: situation of slip s of charge c at the bank
  sent,    \* callbacks the bank has sent; delivery may repeat or never happen
  pastDue, \* charges whose due_date is before today
  protested, \* history: charges of which a slip was ever in protest
  accepted \* history: slips whose cancellation the bank has accepted

external == <<bank, sent, pastDue, protested, accepted>>
vars == <<row, events, inbox, outbox, lock, job, external>>

Absent == [status |-> "absent", ref |-> None, pdf |-> None]
\* A charge typed into the Admin and never issued at the bank.
Local == [status |-> "pending", ref |-> None, pdf |-> None]

Idle == [pc |-> "idle", charge |-> None, note |-> None, ids |-> {},
         status |-> "absent", write |-> FALSE, ref |-> None,
         sit |-> "light", seen |-> FALSE]

\* Program points inside a transaction that holds the row lock of job.charge.
InTx == {"register", "registered", "wh_enrich", "wh_ready", "wh_checked",
         "sync_saved", "sync_checked"}
PC == InTx \cup {"idle", "emit_loaded", "cancel_loaded", "cancel_at_bank",
                 "sync_loaded", "sync_answered", "overdue_read", "rp_loaded"}

Row == [status : Status \cup {"absent"}, ref : Slip \cup {None},
        pdf : Slip \cup {None}]
Job == [pc : PC, charge : Charge \cup {None}, note : Note \cup {None},
        ids : SUBSET Charge, status : Status \cup {"absent"},
        write : BOOLEAN, ref : Slip \cup {None}, sit : Kind, seen : BOOLEAN]
InboxRow == [status : {"none", "failed", "processed"}, sit : Kind]
Outbox == [registered : 0..OutboxCap, paid : 0..OutboxCap,
           cancelled : 0..OutboxCap]

TypeOK ==
  /\ row \in [Charge -> Row]
  /\ events \in [Charge -> Seq(Note \cup {None})]
  /\ inbox \in [Note -> InboxRow]
  /\ outbox \in [Charge -> Outbox]
  /\ lock \in [Charge -> Worker \cup {None}]
  /\ job \in [Worker -> Job]
  /\ bank \in [Charge -> [Slip -> Situation \cup {"unissued"}]]
  /\ sent \in SUBSET Note
  /\ pastDue \in SUBSET Charge
  /\ protested \in SUBSET Charge
  /\ accepted \in SUBSET (Charge \X Slip)

Init ==
  /\ row \in [Charge -> {Absent, Local}]
  /\ events = [c \in Charge |-> <<>>]
  /\ inbox = [n \in Note |-> [status |-> "none", sit |-> n.kind]]
  /\ outbox = [c \in Charge |-> [registered |-> 0, paid |-> 0, cancelled |-> 0]]
  /\ lock = [c \in Charge |-> None]
  /\ job = [w \in Worker |-> Idle]
  /\ bank = [c \in Charge |-> [s \in Slip |-> "unissued"]]
  /\ sent = {}
  /\ pastDue = {}
  /\ protested = {}
  /\ accepted = {}

-----------------------------------------------------------------------------
(* Shared by the handlers *)

\* _apply_boleto_result: paid and cancelled in the object in memory are kept.
Apply(status, new) == IF status \in {"paid", "cancelled"} THEN status ELSE new

\* Mutant: the bank's word for overdue is stored.
ApplyOverdue_BankWord(c, status) ==
  IF status \in {"pending", "registered"} /\ c \in pastDue THEN "atrasado" ELSE status

\* apply_local_overdue_if_due, on the object in memory.
ApplyOverdue(c, status) ==
  IF status \in {"pending", "registered"} /\ c \in pastDue THEN "overdue" ELSE status

Bump(n) == IF n < OutboxCap THEN n + 1 ELSE n

Starts(w, name) == name \in Jobs /\ job[w].pc = "idle"
Free(c) == lock[c] = None
Finish(w) == job' = [job EXCEPT ![w] = Idle]
Unlock(w) == lock' = [lock EXCEPT ![job[w].charge] = None]

\* ensure_charge_pdf is best effort after a registration or a sync: the PDF of
\* the slip in gateway_ref, kept once there is one.
PdfOutcomes(pdf, ref) ==
  IF pdf = None /\ "pdf" \in Jobs THEN {None, ref} ELSE {pdf}

-----------------------------------------------------------------------------
(* The bank and the calendar *)

\* The bank calls back on a change of situation, in full or light, or not at all.
CallBack(c, s, new) ==
  \/ UNCHANGED sent
  \/ \E kind \in {new, "light"} \cap Callbacks :
       sent' = sent \cup {[charge |-> c, slip |-> s, kind |-> kind]}

BankAdvance(c, s) ==
  \E new \in NextSituation[bank[c][s]] :
    /\ bank' = [bank EXCEPT ![c][s] = new]
    /\ CallBack(c, s, new)
    /\ protested' = IF new = "protesto" THEN protested \cup {c} ELSE protested
    /\ UNCHANGED <<row, events, inbox, outbox, lock, job, pastDue, accepted>>

DueDatePasses(c) ==
  /\ c \notin pastDue
  /\ pastDue' = pastDue \cup {c}
  /\ UNCHANGED <<row, events, inbox, outbox, lock, job, bank, sent, protested, accepted>>

-----------------------------------------------------------------------------
(* create_charge and emit_pending_charge: issue a slip *)

\* create_charge of a new key: INSERT of the pending row; a second INSERT of the
\* same key waits on the unique index until the first transaction ends.
CreateBegin(w, c) ==
  /\ Starts(w, "create") /\ w \in Web
  /\ row[c].status = "absent" /\ Free(c) /\ c \notin pastDue
  /\ lock' = [lock EXCEPT ![c] = w]
  /\ job' = [job EXCEPT ![w] = [Idle EXCEPT !.pc = "register", !.charge = c,
                                            !.status = "pending"]]
  /\ UNCHANGED <<row, events, inbox, outbox, external>>

\* emit_pending_charge (Admin, or create_charge finding such a row): its
\* checks are made on the object loaded here.
EmitLoad(w, c) ==
  /\ Starts(w, "emit") /\ w \in Web
  /\ row[c].status \in {"pending", "failed"} /\ row[c].ref = None
  /\ job' = [job EXCEPT ![w] = [Idle EXCEPT !.pc = "emit_loaded", !.charge = c]]
  /\ UNCHANGED <<row, events, inbox, outbox, lock, external>>

\* validate_due_date refuses a due date already past.
EmitRefused(w) ==
  /\ job[w].pc = "emit_loaded" /\ job[w].charge \in pastDue
  /\ Finish(w)
  /\ UNCHANGED <<row, events, inbox, outbox, lock, external>>

\* charge.save(status=PENDING): the UPDATE takes the row lock.
EmitSave(w) ==
  LET c == job[w].charge IN
  /\ job[w].pc = "emit_loaded" /\ c \notin pastDue /\ Free(c)
  /\ lock' = [lock EXCEPT ![c] = w]
  /\ job' = [job EXCEPT ![w].pc = "register", ![w].status = "pending"]
  /\ UNCHANGED <<row, events, inbox, outbox, external>>

\* _register_one: registrar_cobranca answers with the reference of a slip.
Register(w, s) ==
  LET c == job[w].charge IN
  /\ job[w].pc = "register" /\ bank[c][s] = "unissued"
  /\ \E sit \in {"em_processamento", "a_receber"} :
       bank' = [bank EXCEPT ![c][s] = sit]
  /\ job' = [job EXCEPT ![w].pc = "registered", ![w].status = "registered",
                        ![w].ref = s]
  /\ UNCHANGED <<row, events, inbox, outbox, lock, sent, pastDue, protested, accepted>>

\* PaymentGatewayError: status FAILED is saved, then the exception rolls the
\* whole transaction back, that save included.  The bank may have issued the
\* slip all the same.  With every slip of the bound issued the bank refuses.
RegisterFails(w) ==
  LET c == job[w].charge IN
  /\ job[w].pc = "register"
  /\ \/ "gateway_error" \in Faults /\ UNCHANGED bank
     \/ (\A s \in Slip : bank[c][s] # "unissued") /\ UNCHANGED bank
     \/ /\ "lost_answer" \in Faults
        /\ \E s \in Slip : /\ bank[c][s] = "unissued"
                           /\ bank' = [bank EXCEPT ![c][s] = "a_receber"]
  /\ Unlock(w) /\ Finish(w)
  /\ UNCHANGED <<row, events, inbox, outbox, sent, pastDue, protested, accepted>>

\* _enrich_boleto_artifacts: GET the slip and apply its status, in the same
\* transaction, when the POST brought no digitable line (up to 3 times).
RegisterEnrich(w) ==
  LET j == job[w] IN
  /\ j.pc = "registered"
  /\ job' = [job EXCEPT ![w].status = Apply(@, Consulted(bank[j.charge][j.ref]))]
  /\ UNCHANGED <<row, events, inbox, outbox, lock, external>>

RegisterCommit(w) ==
  LET j == job[w]
      c == j.charge IN
  /\ j.pc = "registered"
  /\ \E pdf \in PdfOutcomes(row[c].pdf, j.ref) :
       row' = [row EXCEPT ![c] = [status |-> j.status, ref |-> j.ref, pdf |-> pdf]]
  /\ outbox' = [outbox EXCEPT ![c].registered = Bump(@)]
  /\ Unlock(w) /\ Finish(w)
  /\ UNCHANGED <<events, inbox, external>>

\* GET/POST charges/{id}/pdf: ensure_charge_pdf under SELECT FOR UPDATE.
EnsurePdf(c) ==
  /\ "pdf" \in Jobs
  /\ row[c].ref # None /\ row[c].pdf = None /\ Free(c)
  /\ row' = [row EXCEPT ![c].pdf = row[c].ref]
  /\ UNCHANGED <<events, inbox, outbox, lock, job, external>>

-----------------------------------------------------------------------------
(* cancel_charge *)

\* The view or the admin action loads the charge; paid, failed and cancelled
\* ones return or raise with no effect.
CancelLoad(w, c) ==
  /\ Starts(w, "cancel") /\ w \in Web
  /\ row[c].status \in Open
  /\ job' = [job EXCEPT ![w] =
       [Idle EXCEPT !.pc = "cancel_loaded", !.charge = c, !.ref = row[c].ref]]
  /\ UNCHANGED <<row, events, inbox, outbox, lock, external>>

\* gateway.cancelar: for a payable slip the bank answers 202 PROCESSANDO, and
\* "cancelled" is the Hub's reading of any 2xx.  The slip stays what it is until
\* the bank gets to it (BankAdvance), and may be paid before.
CancelAtBank(w) ==
  LET c == job[w].charge
      s == job[w].ref IN
  /\ job[w].pc = "cancel_loaded" /\ s # None
  /\ bank[c][s] \in Payable
  /\ accepted' = accepted \cup {<<c, s>>}
  /\ \/ job' = [job EXCEPT ![w].pc = "cancel_at_bank"]
     \/ "lost_answer" \in Faults /\ Finish(w)
  /\ UNCHANGED <<row, events, inbox, outbox, lock, bank, sent, pastDue, protested>>

\* The bank refuses a slip that is paid, cancelled or failed.
CancelRefused(w) ==
  /\ job[w].pc = "cancel_loaded" /\ job[w].ref # None
  /\ \/ bank[job[w].charge][job[w].ref] \notin Payable
     \/ "gateway_error" \in Faults
  /\ Finish(w)
  /\ UNCHANGED <<row, events, inbox, outbox, lock, external>>

\* Mutant: the Hub's row is written before the bank is called.
CancelSave_BeforeBank(w) ==
  LET c == job[w].charge IN
  /\ job[w].pc \in {"cancel_loaded", "cancel_at_bank"} /\ Free(c)
  /\ row' = [row EXCEPT ![c].status = "cancelled"]
  /\ outbox' = [outbox EXCEPT ![c].cancelled = Bump(@)]
  /\ IF job[w].pc = "cancel_loaded" THEN UNCHANGED job ELSE Finish(w)
  /\ UNCHANGED <<events, inbox, lock, external>>

\* The status is written whatever the row holds by now; a charge that had no
\* gateway_ref when it was loaded gets here without a call to the bank.
CancelSave(w) ==
  LET c == job[w].charge IN
  /\ \/ job[w].pc = "cancel_at_bank"
     \/ job[w].pc = "cancel_loaded" /\ job[w].ref = None
  /\ Free(c)
  /\ row' = [row EXCEPT ![c].status = "cancelled"]
  /\ outbox' = [outbox EXCEPT ![c].cancelled = Bump(@)]
  /\ Finish(w)
  /\ UNCHANGED <<events, inbox, lock, external>>

-----------------------------------------------------------------------------
(* sync_charge_from_gateway: the sync endpoint, the admin action, and the    *)
(* beat job, which selects open charges only                                 *)

SyncLoad(w, c) ==
  /\ Starts(w, "sync")
  /\ row[c].ref # None
  /\ w \in Beat => row[c].status \in Open
  /\ job' = [job EXCEPT ![w] =
       [Idle EXCEPT !.pc = "sync_loaded", !.charge = c, !.ref = row[c].ref,
                    !.status = row[c].status]]
  /\ UNCHANGED <<row, events, inbox, outbox, lock, external>>

SyncConsult(w) ==
  /\ job[w].pc = "sync_loaded"
  /\ job' = [job EXCEPT ![w].pc = "sync_answered",
                        ![w].sit = bank[job[w].charge][job[w].ref]]
  /\ UNCHANGED <<row, events, inbox, outbox, lock, external>>

SyncConsultFails(w) ==
  /\ job[w].pc = "sync_loaded" /\ "gateway_error" \in Faults
  /\ Finish(w)
  /\ UNCHANGED <<row, events, inbox, outbox, lock, external>>

\* Mutant: a charge the Hub shows as overdue keeps that status.
SyncSave_KeepsOverdue(w) ==
  LET j == job[w]
      c == j.charge
      new == ApplyOverdue(c, IF j.status = "overdue" THEN "overdue"
                             ELSE Apply(j.status, Consulted(j.sit))) IN
  /\ j.pc = "sync_answered" /\ Free(c)
  /\ lock' = [lock EXCEPT ![c] = w]
  /\ job' = [job EXCEPT ![w].pc = "sync_saved", ![w].status = new,
                        ![w].write = (new # j.status)]
  /\ UNCHANGED <<row, events, inbox, outbox, external>>

\* charge.save: updated_at is always in update_fields, so the UPDATE takes the
\* row lock even when the status is not among the columns written.
SyncSave(w) ==
  LET j == job[w]
      c == j.charge
      answered == Apply(j.status, Consulted(j.sit))
      new == ApplyOverdue(c, answered) IN
  /\ j.pc = "sync_answered" /\ Free(c)
  /\ lock' = [lock EXCEPT ![c] = w]
  /\ job' = [job EXCEPT ![w].pc = "sync_saved", ![w].status = new,
                        ![w].write = (answered # j.status \/ new # answered)]
  /\ UNCHANGED <<row, events, inbox, outbox, external>>

\* Mutant: a paid answer is settled without asking for an earlier event.
SyncCommit_Always(w) ==
  LET j == job[w]
      c == j.charge IN
  /\ j.pc = "sync_checked"
  /\ row' = [row EXCEPT ![c].status = IF j.write THEN j.status ELSE @]
  /\ events' = [events EXCEPT ![c] = IF j.status = "paid" THEN Append(@, None) ELSE @]
  /\ Unlock(w) /\ Finish(w)
  /\ UNCHANGED <<inbox, outbox, external>>

SyncCommit(w) ==
  LET j == job[w]
      c == j.charge
      settles == j.status = "paid" /\ ~j.seen IN
  /\ j.pc = "sync_checked"
  /\ \E pdf \in PdfOutcomes(row[c].pdf, row[c].ref) :
       row' = [row EXCEPT ![c].status = IF j.write THEN j.status ELSE @,
                          ![c].pdf = pdf]
  /\ events' = [events EXCEPT ![c] = IF settles THEN Append(@, None) ELSE @]
  /\ outbox' = [outbox EXCEPT ![c].paid = IF settles THEN Bump(@) ELSE @]
  /\ Unlock(w) /\ Finish(w)
  /\ UNCHANGED <<inbox, external>>

\* Mutant: each callback, and the sync, looks for an event of its own only.
CheckPaymentEvent_ByInbox(w) ==
  LET j == job[w] IN
  /\ \/ j.pc = "sync_saved"
     \/ j.pc = "wh_ready" /\ IsPayment(j.sit) /\ j.sit # "recebido_outro_valor"
  /\ job' = [job EXCEPT
       ![w].seen = (\E i \in DOMAIN events[j.charge] : events[j.charge][i] = j.note),
       ![w].pc = IF j.pc = "sync_saved" THEN "sync_checked" ELSE "wh_checked"]
  /\ UNCHANGED <<row, events, inbox, outbox, lock, external>>

\* PaymentEvent.objects.filter(charge=charge): the anti-replay query of both
\* the sync and the webhook, made under the row lock.
CheckPaymentEvent(w) ==
  LET j == job[w] IN
  /\ \/ j.pc = "sync_saved"
     \/ j.pc = "wh_ready" /\ IsPayment(j.sit) /\ j.sit # "recebido_outro_valor"
  /\ job' = [job EXCEPT
       ![w].seen = (events[j.charge] # <<>>),
       ![w].pc = IF j.pc = "sync_saved" THEN "sync_checked" ELSE "wh_checked"]
  /\ UNCHANGED <<row, events, inbox, outbox, lock, external>>

-----------------------------------------------------------------------------
(* mark_overdue_charges: the beat job, and every list and summary request *)

OverdueRead(w) ==
  LET ids == {c \in pastDue : row[c].status \in {"pending", "registered"}} IN
  /\ Starts(w, "overdue")
  /\ ids # {}
  /\ job' = [job EXCEPT ![w] = [Idle EXCEPT !.pc = "overdue_read", !.ids = ids]]
  /\ UNCHANGED <<row, events, inbox, outbox, lock, external>>

\* UPDATE ... WHERE id IN (ids): the status is not in the WHERE clause.
OverdueWrite(w) ==
  LET ids == job[w].ids IN
  /\ job[w].pc = "overdue_read"
  /\ \A c \in ids : Free(c)
  /\ row' = [c \in Charge |->
       IF c \in ids THEN [row[c] EXCEPT !.status = "overdue"] ELSE row[c]]
  /\ Finish(w)
  /\ UNCHANGED <<events, inbox, outbox, lock, external>>

-----------------------------------------------------------------------------
(* ingest_gateway_webhook, reprocess_webhook and process_webhook_inbox *)

\* A transaction that inserted or updated the inbox row of n holds that row.
Held(n) == \E w \in Worker : job[w].note = n /\ job[w].pc \in InTx

\* _find_charge_for_webhook: by gateway_ref, else by external_reference.
FoundBy(n) == row[n.charge].status # "absent"
MayMiss(n) == row[n.charge].status = "absent" \/ row[n.charge].ref # n.slip

\* SELECT FOR UPDATE of the charge, read fresh under the lock.
LockCharge(w, n, sit) ==
  LET c == n.charge IN
  /\ FoundBy(n) /\ ~Held(n) /\ Free(c)
  /\ lock' = [lock EXCEPT ![c] = w]
  /\ job' = [job EXCEPT ![w] =
       [Idle EXCEPT !.pc = IF sit = "light" THEN "wh_enrich" ELSE "wh_ready",
                    !.charge = c, !.note = n, !.sit = sit,
                    !.status = row[c].status, !.ref = row[c].ref]]
  /\ UNCHANGED <<row, events, inbox, outbox, external>>

\* No charge matches: the inbox row is saved as failed, its content as it was.
Unmatched(w, n) ==
  /\ MayMiss(n) /\ ~Held(n)
  /\ inbox' = [inbox EXCEPT ![n].status = "failed"]
  /\ Finish(w)
  /\ UNCHANGED <<row, events, outbox, lock, external>>

\* First delivery of a callback.  A redelivery finds the inbox row and returns
\* it as it is, whatever its status: no step.
Ingest(w, n) ==
  /\ Starts(w, "webhook") /\ w \in Web
  /\ n \in sent /\ inbox[n].status = "none"
  /\ LockCharge(w, n, n.kind) \/ Unmatched(w, n)

\* reprocess_webhook of an inbox row loaded as failed.
ReprocessLoad(w, n) ==
  /\ Starts(w, "webhook") /\ w \in Web
  /\ inbox[n].status = "failed"
  /\ job' = [job EXCEPT ![w] =
       [Idle EXCEPT !.pc = "rp_loaded", !.note = n, !.sit = inbox[n].sit]]
  /\ UNCHANGED <<row, events, inbox, outbox, lock, external>>

Reprocess(w) ==
  /\ job[w].pc = "rp_loaded"
  /\ \/ LockCharge(w, job[w].note, job[w].sit)
     \/ Unmatched(w, job[w].note)

\* _enrich_webhook_from_gateway: the bank's answer is applied to the charge
\* and replaces the callback's content in the inbox row.
WebhookEnrich(w) ==
  LET j == job[w]
      c == j.charge
      ref == IF j.ref = None THEN j.note.slip ELSE j.ref IN
  /\ j.pc = "wh_enrich"
  /\ job' = [job EXCEPT ![w].pc = "wh_ready", ![w].sit = bank[c][ref],
                        ![w].status = Apply(j.status, Consulted(bank[c][ref]))]
  /\ UNCHANGED <<row, events, inbox, outbox, lock, external>>

\* Writes of process_webhook_inbox that every outcome makes at commit.
WebhookCommit(w, status, inboxStatus) ==
  LET j == job[w] IN
  /\ row' = [row EXCEPT ![j.charge].status = status]
  /\ inbox' = [inbox EXCEPT ![j.note] = [status |-> inboxStatus, sit |-> j.sit]]
  /\ Unlock(w) /\ Finish(w)
  /\ UNCHANGED external

\* The inbox row is saved as failed whatever it was; its content stays.
WebhookEnrichFails(w) ==
  /\ job[w].pc = "wh_enrich" /\ "gateway_error" \in Faults
  /\ inbox' = [inbox EXCEPT ![job[w].note].status = "failed"]
  /\ Unlock(w) /\ Finish(w)
  /\ UNCHANGED <<row, events, outbox, external>>

\* Mutant: the callback's word is written over a payment.
WebhookLifecycle_OverPaid(w) ==
  LET j == job[w] IN
  /\ j.pc = "wh_ready" /\ ~IsPayment(j.sit)
  /\ WebhookCommit(w, HubStatus[j.sit], "processed")
  /\ UNCHANGED <<events, outbox>>

\* A lifecycle callback: no PaymentEvent; paid and cancelled are kept.
WebhookLifecycle(w) ==
  LET j == job[w] IN
  /\ j.pc = "wh_ready" /\ ~IsPayment(j.sit)
  /\ WebhookCommit(w, Apply(j.status, HubStatus[j.sit]), "processed")
  /\ UNCHANGED <<events, outbox>>

\* Mutant: a payment of another amount is acknowledged.
WebhookAmountMismatch_Processed(w) ==
  /\ job[w].pc = "wh_ready" /\ job[w].sit = "recebido_outro_valor"
  /\ WebhookCommit(w, job[w].status, "processed")
  /\ UNCHANGED <<events, outbox>>

\* "Valor incompativel", or "Valor ausente" for a callback of an unmapped
\* situation, which may bring no amount and is not completed by a GET: the inbox
\* row fails, what enrichment wrote stays.
WebhookAmountMismatch(w) ==
  /\ job[w].pc = "wh_ready"
  /\ \/ job[w].sit = "recebido_outro_valor"
     \/ job[w].sit = "protesto" /\ job[w].note.kind = "protesto"
  /\ WebhookCommit(w, job[w].status, "failed")
  /\ UNCHANGED <<events, outbox>>

WebhookPay(w) ==
  LET j == job[w]
      c == j.charge IN
  /\ j.pc = "wh_checked"
  /\ events' = [events EXCEPT ![c] = IF j.seen THEN @ ELSE Append(@, j.note)]
  /\ outbox' = [outbox EXCEPT ![c].paid = IF j.status = "paid" THEN @ ELSE Bump(@)]
  /\ WebhookCommit(w, "paid", "processed")

-----------------------------------------------------------------------------
\* The process dies or an unexpected exception unwinds it: rollback.
Crash(w) ==
  /\ "crash" \in Faults /\ job[w].pc # "idle"
  /\ lock' = [c \in Charge |-> IF lock[c] = w THEN None ELSE lock[c]]
  /\ Finish(w)
  /\ UNCHANGED <<row, events, inbox, outbox, external>>

Environment ==
  \/ \E c \in Charge, s \in Slip : BankAdvance(c, s)
  \/ \E c \in Charge : DueDatePasses(c)

Issue(w) ==
  \/ \E c \in Charge : CreateBegin(w, c) \/ EmitLoad(w, c)
  \/ \E s \in Slip : Register(w, s)
  \/ EmitRefused(w) \/ EmitSave(w)
  \/ RegisterFails(w) \/ RegisterEnrich(w) \/ RegisterCommit(w)

Cancel(w) ==
  \/ \E c \in Charge : CancelLoad(w, c)
  \/ CancelAtBank(w) \/ CancelRefused(w) \/ CancelSave(w)

Sync(w) ==
  \/ \E c \in Charge : SyncLoad(w, c)
  \/ SyncConsult(w) \/ SyncConsultFails(w) \/ SyncSave(w) \/ SyncCommit(w)

Overdue(w) == OverdueRead(w) \/ OverdueWrite(w)

Webhook(w) ==
  \/ \E n \in Note : Ingest(w, n) \/ ReprocessLoad(w, n)
  \/ Reprocess(w) \/ WebhookEnrich(w) \/ WebhookEnrichFails(w)
  \/ WebhookLifecycle(w) \/ WebhookAmountMismatch(w) \/ WebhookPay(w)

WorkerStep(w) ==
  \/ Issue(w) \/ Cancel(w) \/ Sync(w) \/ Overdue(w)
  \/ Webhook(w) \/ CheckPaymentEvent(w) \/ Crash(w)

Next ==
  \/ Environment
  \/ \E c \in Charge : EnsurePdf(c)
  \/ \E w \in Worker : WorkerStep(w)

Spec == Init /\ [][Next]_vars

\* A request that holds a row lock goes on: its statements do not wait for
\* anyone, and the calls to the bank have a timeout.
EndOfRequest(w) ==
  \/ \E s \in Slip : Register(w, s)
  \/ RegisterFails(w) \/ RegisterCommit(w)
  \/ CheckPaymentEvent(w) \/ SyncCommit(w)
  \/ WebhookEnrich(w) \/ WebhookEnrichFails(w)
  \/ WebhookLifecycle(w) \/ WebhookAmountMismatch(w) \/ WebhookPay(w)

\* Killed while it waits for the row lock of a charge whose answer it has.
CrashWaiting(w) == job[w].pc = "sync_answered" /\ Crash(w)

\* billing.sync_open_charges runs every BILLING_SYNC_INTERVAL_SECONDS: a step that
\* a lock or the bank refuses now and then is tried again, and row locks are
\* granted in the order they were asked for.  The worker may crash at any step,
\* but it is not killed in that wait every time.
PeriodicSync(w) ==
  /\ \A c \in Charge : SF_vars(SyncLoad(w, c))
  /\ SF_vars(SyncConsult(w)) /\ SF_vars(SyncSave(w))
  /\ SF_vars(CheckPaymentEvent(w)) /\ SF_vars(SyncCommit(w))
  /\ SF_vars(OverdueWrite(w))
  /\ <>[][~CrashWaiting(w)]_vars

FairSpec ==
  /\ Spec
  /\ \A w \in Web : WF_vars(EndOfRequest(w))
  /\ \A w \in Beat : PeriodicSync(w)

-----------------------------------------------------------------------------
(* Properties *)

\* A charge is settled at most once: neither two syncs, nor a sync and a
\* webhook, nor two callbacks with different keys leave it two PaymentEvents
\* (services.py:581 and :900; no database constraint says so).
AtMostOnePaymentEvent == \A c \in Charge : Len(events[c]) <= 1

\* Charges the bank has received a payment for.
Paid == {c \in Charge : \E s \in Slip : bank[c][s] \in Received}

\* The Hub takes nothing for a payment but what the bank received, and a slip
\* in protest (services.py:838): a charge that reads paid has one or the other,
\* however late or doubled the callbacks and answers were.
PaidIsReportedByBank ==
  \A c \in Charge : row[c].status = "paid" => c \in Paid \cup protested

\* A callback taken for a payment that was acknowledged (inbox processed) has
\* not been lost: its charge has a PaymentEvent.
ProcessedPaymentIsSettled ==
  \A n \in Note :
    inbox[n].status = "processed" /\ IsPayment(inbox[n].sit) =>
      events[n.charge] # <<>>

\* cancel_charge asks the bank first (services.py:537): a charge the Hub shows as
\* cancelled has a slip that cannot be paid any more, or one whose cancellation
\* the bank has accepted, whatever stale saves and callbacks came in between.
CancelledIsAccepted ==
  \A c \in Charge :
    /\ row[c].status = "cancelled" /\ row[c].ref # None
    /\ bank[c][row[c].ref] \in Payable
    => <<c, row[c].ref>> \in accepted

Canceling == {"cancel_loaded", "cancel_at_bank"}

\* A request or a job about to write charge c, which it read, and did not find
\* paid, before it had its lock.
ReadBefore(j, c) ==
  \/ j.pc \in {"registered", "sync_checked"} /\ j.charge = c /\ j.status # "paid"
  \/ j.pc \in Canceling /\ j.charge = c
  \/ j.pc = "overdue_read" /\ c \in j.ids

\* A charge is taken out of paid only by a registration, a cancellation, a sync or
\* mark_overdue_charges that read it before it had its lock.  No callback does
\* so, however late, repeated or out of order: its handler reads the charge
\* under the lock (services.py:758); nor does the bank, a PDF or a crash.
PaidLeavesByStaleRead ==
  [][\A c \in Charge : row[c].status = "paid" /\ row'[c].status # "paid" =>
       \E w \in Worker : WorkerStep(w) /\ ReadBefore(job[w], c)]_vars

\* What billing promises (Settlement): nothing is settled that the bank did not
\* report so, or settled twice, or acknowledged without being settled.
Promise == INSTANCE Settlement WITH
  received <- Paid,
  unmapped <- protested,
  settlements <- [c \in Charge |-> Len(events[c])],
  acknowledged <- {c \in Charge : \E n \in Note :
                     /\ n.charge = c /\ inbox[n].status = "processed"
                     /\ IsPayment(inbox[n].sit)}
KeepsPromise == Promise!Spec

\* The beat job is the safety net of the webhook: a charge whose slip the bank
\* has received is in the end closed for good, though every callback is lost,
\* and no stale write of a request or of mark_overdue reopens it after that.
ReceivedIsClosed ==
  \A c \in Charge :
    (\E s \in Slip : row[c].ref = s /\ bank[c][s] \in Received)
      ~> [](row[c].status \notin Open)

-----------------------------------------------------------------------------
(* Statements of the repository that the code does not keep *)

\* Functional Specification:702: a charge only becomes paid from a valid
\* PaymentEvent.  A slip in protest was not paid.
PaidIsReceivedAtBank ==
  \A c \in Charge : row[c].status = "paid" => c \in Paid

\* services.py:500: cancel_charge "cancela cobranca no gateway e no Hub".  The bank
\* cancels later than it answers (Inter study:200), and a slip paid meanwhile is
\* paid although the charge reads cancelled.
CancelledHasNoPayableSlip ==
  \A c \in Charge :
    row[c].status = "cancelled" /\ row[c].ref # None =>
      bank[c][row[c].ref] \notin Payable

\* test_mark_overdue_skips_paid: marking overdue never takes a charge out of paid.
MarkOverdueSkipsPaid ==
  [][\A c \in Charge : row[c].status = "paid" => row'[c].status # "overdue"]_vars

\* README.md:69: a charge only becomes paid through a PaymentEvent.
PaidHasPaymentEvent ==
  \A c \in Charge : row[c].status = "paid" => events[c] # <<>>

\* ERD:1073: charge.paid is the event of a charge that was paid; whoever settles
\* a charge enqueues it.
SettledIsAnnounced ==
  \A c \in Charge : events[c] # <<>> => outbox[c].paid > 0

=============================================================================
