# EXEQ Hub: TLA+ models

EXEQ Hub is a Django application for small service companies and their
accountants: it issues payment slips (boletos) and service invoices (NFS-e),
captures tax guides (DAS), books appointments and sends notifications. It runs
as web processes and Celery workers over PostgreSQL (READ COMMITTED, no
`ATOMIC_REQUESTS`) and Redis; every external service (bank, invoice provider,
Receita, messaging gateway) is reached by blocking HTTP calls, often inside a
database transaction. Paths below are relative to `src/`.

## 1. Inventory

| component | state | operations | what makes it hard |
|---|---|---|---|
| **Billing** (`apps/billing/services.py`, `views.py`, `admin.py`, `integrations/payments`) | `Charge` (status, gateway_ref, pdf), `WebhookInbox`, `PaymentEvent` | create, emit, cancel, sync, mark overdue, PDF, ingest and reprocess a callback | objects loaded outside the transaction and saved inside it; the bank is called between; callbacks repeat, arrive late or never; the bank's answer may be lost |
| **Periodic sync** (`apps/billing/tasks.py`) | none of its own: the order of charges by `updated_at` | mark overdue, select a batch, sync one by one | failures keep their place in the order |
| **Payment plans and rules** (`schedule.py`, `amount_rules.py`, `due_date_rules.py`, `create_charge`) | one `Charge` row per part | validate, split an amount, monthly due dates, cut-off hour, register part by part | rounding, month ends, a part refused after others were issued |
| **Providers and presets** (`provider_services.py`, `presets.py`, `integrations/payments`) | `Tenant.settings`, `TenantSecret` rows, connection status, the callback address at the bank | switch, preset, save credentials, connect, test, register, delete and retry the webhook | a charge does not remember its bank; settings are written as loaded; credentials are several rows |
| **Payment gateways** (`inter_auth.py`, `banks.py`, `asaas.py`, `normalize.py`) | a token per client | issue, consult, cancel, callbacks | each bank has its own words |
| **Issuance** (`apps/issuance`) | `NfIssue` (9 statuses), `NfIssueEvent`, artifacts, Focus inbox | create, process, poll, webhook, cancel, reprocess | worker, poll and webhook race on one note; a crash between emission and commit |
| **Outbox** (`apps/ops`) | `OutboxMessage` (status, attempts, available_at) | enqueue on commit, dispatch, back-off, dead letter, sweep | at-least-once effects; nothing scheduled retries |
| **Channel** (`apps/channel`) | chat sessions, notifications | debounce inbound messages, send | effect before commit; repeated and concurrent calls |
| **Scheduling** (`apps/scheduling`) | `Appointment`, `AppointmentFinancial`, `CommissionEntry`, blocks, buffers | book, confirm, check in, start, complete, cancel, no-show, deposit, settle, approve a commission | overlap check against concurrent bookings; money recorded under another lock than the status |
| **DAS** (`apps/das`) | `GuiaFiscal` | emit a guide once per key and period | mandate checked before, used during, recorded after calls to SERPRO |
| **Certificates, proxies** (`apps/accounts`) | certificate validity, primary flag and version, e-CAC proxy status | upload, scan, alert, revoke, refresh on read | stored statuses lag behind the calendar |
| **Fiscal** (`apps/fiscal`, `apps/master_data/national_service_import.py`) | municipal catalogues and rules, RTC versions, national service lists | version, edit, publish, import, seed, materialize; resolve the rule of a note, assess IBS/CBS | publications that overlap; a note reads list after list |
| **Master data, tenancy, web pages** | plain records, roles | | access rules, presentation |

How they interact. Billing, Issuance, DAS and Scheduling write `OutboxMessage`
rows in their own transaction (`enqueue_outbox`); `on_commit` hands the id to
Celery, whose dispatcher turns events into notifications of Channel. Issuance
starts its own worker task on commit, which schedules polls, and asks Fiscal for
the rule of a note when it is created or reprocessed. DAS asks Accounts for a
usable certificate and proxy. Billing asks the tenant's settings for the bank of
every call. A charge may refer to an invoice. The bank and Focus call back over
public webhooks with their own inbox table.

What makes each one correct, in short: *Billing* - settled once, only on
the bank's word, no acknowledged payment lost, closed in the end; *Plans* - whole or not
at all, to the cent, every slip known; *Providers* - the Hub shows what the bank
that issued the slip has, and learns it once that bank can be asked; *Sync job* -
no open charge starves; *Issuance* - a note only moves along its state machine, is
shown as the provider has it, and its decision is learnt; *Outbox* - a settled
message is not sent again, a swept one is settled; *Scheduling* - no overlap, one
account and one commission per completed appointment; *DAS* - guides under
mandates that had not ended when they were looked at; *Certificates* - one primary,
expiry is alerted; *Fiscal* - one published catalogue, older lists superseded, and a
note explained by them. `PROJECT.json` lists the hazards behind these at their lines.

## 2. Modules

| module | models | instances |
|---|---|---|
| `Billing` | the life of a charge: rows, bank, callbacks, workers | `MCBilling` |
| `Settlement` | what billing promises about a payment, with no handlers | as a property of `Billing` (`KeepsPromise`) |
| `BillingProofs` | theorems about `Billing`, for TLAPS, among them that it implements `Settlement` | |
| `Plans` | the transaction that creates a charge or a plan, its dates and amounts | `MCPlans` |
| `Provider` | settings, credentials and callback address against charges in flight | `MCProvider` |
| `ProviderProofs` | theorems about `Provider`, for TLAPS | |
| `SyncBatch` | the periodic job over many charges | `MCSyncBatch` |
| `Issuance` | the life of an invoice: row, tasks, provider, callbacks, requests | `MCIssuance` |
| `Delivery` | outbox, notifications, inbound chat | `MCDelivery` |
| `Scheduling` | appointments, their money, their commission | `MCScheduling` |
| `SchedulingProofs` | theorems about `Scheduling`, for TLAPS | |
| `Guides` | DAS guides, certificates, proxies, the calendar | `MCGuides` |
| `Fiscal` | catalogues, RTC versions, national lists, the tax side of a note | `MCFiscal` |
| `IssuanceProofs`, `PlansProofs`, `GuidesProofs`, `FiscalProofs`, `DeliveryProofs` | theorems about `Issuance`, `Plans`, `Guides`, `Fiscal`, `Delivery`, for TLAPS | |

### Billing

State. `row[c]` is the committed `Charge` row of one `(tenant,
idempotency_key)`; `events[c]` its `PaymentEvent`s, each with the inbox row it
came from; `inbox[n]` the `WebhookInbox` row of the callback with key `n`;
`outbox[c]` counts the `charge.*` messages; `lock[c]` the holder of the row lock
(or of the unique index entry of a row not yet committed); `job[w]` what worker
`w` - a request or the beat process - is doing and the object it has in memory.
`bank[c][s]`, `sent` and `pastDue` are the world outside: situation of each slip,
callbacks sent, charges whose due date is past. Two variables are history, read by
no action: `protested`, the charges a slip of which was ever in protest, and
`accepted`, the slips whose cancellation the bank has accepted.

Atomicity. A step is what happens between two points at which another
transaction can be seen or the bank answers. A transaction's writes appear in one
step at its commit, together; until then they are in `job`. The row lock is
taken where the code's first `UPDATE`, `INSERT` or `SELECT FOR UPDATE` is. Crash
loses `job` and the locks, never what the bank did. Operations and actions:

| code | actions |
|---|---|
| `create_charge`, `emit_pending_charge`, `_register_one` | `CreateBegin`, `EmitLoad`, `EmitRefused`, `EmitSave`, `Register`, `RegisterFails`, `RegisterEnrich`, `RegisterCommit` |
| `cancel_charge` | `CancelLoad`, `CancelAtBank`, `CancelRefused`, `CancelSave` |
| `sync_charge_from_gateway` | `SyncLoad`, `SyncConsult`, `SyncConsultFails`, `SyncSave`, `CheckPaymentEvent`, `SyncCommit` |
| `mark_overdue_charges` | `OverdueRead`, `OverdueWrite` |
| `ingest_gateway_webhook`, `reprocess_webhook`, `process_webhook_inbox` | `Ingest`, `ReprocessLoad`, `Reprocess`, `WebhookEnrich`, `WebhookEnrichFails`, `WebhookLifecycle`, `CheckPaymentEvent`, `WebhookAmountMismatch`, `WebhookPay` |
| `ensure_charge_pdf` | `EnsurePdf`, and `PdfOutcomes` inside the other transactions |

Data abstractions. An amount is only "the nominal one" or "another" (fine,
interest, discount); `MARCADO_RECEBIDO` is grouped with `RECEBIDO` and `EXPIRADO`
with `CANCELADO` because the Hub maps them alike. `PROTESTO` is the situation that
`INTER_SITUACAO_TO_HUB` has no entry for: a GET makes `registered` of it
(`Consulted`), a callback has no `hub_status` then and counts as a payment
(`IsPayment`); sent in full it may come without an amount and fail on that. A
cancellation is asynchronous: the bank answers 202 `PROCESSANDO`, which the Hub
takes for `cancelled` (`CancelAtBank`), and the slip is cancelled by a later
`BankAdvance`, unless it is paid first. A callback is its inbox key: an
`INTER_CALLBACK` without a situation is one key per slip, whatever it was sent
for. The `seu_numero` fallback of `_find_charge_for_webhook` is the choice between
`FoundBy` and `MayMiss`.

### SyncBatch

`order` is the open charges by `updated_at`. A run marks overdue charges, selects
`Limit` charges, syncs them one by one; every other writer of `updated_at`
(registration, callback, PDF, cancellation, a list request that marks overdue)
may run between. What a sync does to one charge is `Billing`; here it moves the
charge to the end or closes it. The code's two limits (of marking and of
selection) are the same argument of the job, and a list request's own limit (500)
is taken to be that one too. `MaxTouch` bounds what requests do to a charge.

### Issuance

State. `row[i]` is the committed `NfIssue` row: status, whether `focus_ref` is set,
whether the artifacts are stored. `tasks[i]` counts the `process_nf_issue` messages
not yet taken, `polls` holds the poll tasks that wait for their countdown, with
the retries they made and the POST they belong to. `lock[i]` is the row lock of the
two tasks, which keep it over the call to the provider; `job[w]` what a worker is
doing and the status it has in memory. Outside: `note[i]`, the provider's
situation and how often it accepted the reference, `sent` the callbacks sent,
`processed` those whose inbox row is processed.

A transaction passes through `draft`, `pending_tax` and `submitting` and never
commits them. `failed` is written only for a poll without `focus_ref`, which no
reachable row has: `AfterPoll` leaves that case out. Where a transition is written,
its `NfIssueEvent` and outbox message are part of the same step.

| code | actions |
|---|---|
| `create_nf_issue` | `Create`, with `Enqueue` |
| `process_nf_issue`, `process_queued_issue`, `schedule_poll` | `TakeTask`, `Submit`, `SubmitRefused`, `SchedulePoll`, `ProcessCommit` |
| `poll_nf_issue_task`, `poll_nf_issue_status` | `TakePoll`, `Consult`, `ConsultRefused`, `PollCommit`; from the Admin `PollLoad`, `Consult`, `PollSave` |
| `ensure_authorized_artifacts` | `Files` inside the transactions; from the Admin `FilesLoad`, `FilesSave` |
| `cancel_nf_issue` | `CancelLoad`, `CancelAtProvider`, `CancelRefused`, `CancelSave` |
| `reprocess_nf_issue` | `ReprocessLoad`, `ReprocessSave` |
| `ingest_focus_nfse_webhook` | `Webhook` |

The provider is Focus in `http` mode. It is assumed to take a reference again only
after it refused it, to report a cancellation as done only when it is (an
answer without a status counts as one, as in `cancelar`), and never to undo an
authorization except by a cancellation.

### Plans

State. `rows[k]` is the committed `Charge` rows of the plan with key `k`, in order;
`slips` what the bank has issued; `answers[k]` the lists of charges that requests
with that key were given; `faulty` the keys of which the bank, the network or a crash
undid a transaction, `clashed` those of which the key of a later part did.
`job[w]` holds the plan a request computed and the parts it has registered.

`create_charge` is one transaction over all parts: `Ask` (validation and the
lookup by key), then for each part `Insert` (the row, which takes the place of its
key in the unique index) and `Register`, then `Commit`; `KeyTaken`, `RegisterFails`
and `Crash` are its other ends. The key of the first part is the request's `K`, that
of part `i` is `K:i` (`PartKey`): the constant `Suffixed` says which key of another
request that may be, and that it may be too long for the column (128 characters).
Such a part's `INSERT` fails after the bank has issued the slips of the parts before
it, which the rollback leaves behind. `AddMonths`, `SplitAmount`, `DueDates` and
`MonthlyOccurrences` are the functions of `schedule.py`; the checks compare them
with what a plan should be (`Sum`, `InStep`) and not with themselves. A due date is
year, month and day; the cut-off hour is only today's or tomorrow's
`MinDueDate`.

### Provider

State. `tenant` is `Tenant.settings`; `secret[b]` says, row by row, which set of
credentials is stored for bank `b`, and `atBank[b]` which set the bank accepts;
`hook` is the callback address at Inter; `charge`, `slip`, `inbox` are the Hub's
status of a charge, the bank and the state of its slip, and the inbox row of its
light callback; `job[w]` what a worker loaded: settings, status, credentials.

| code | actions |
|---|---|
| `set_billing_provider`, `set_billing_preset` | `LoadTenant`, `SwitchSave` (with `ReadClient`, `ReadCert`, `Register` when it switches to Inter), `PresetSave` |
| `save_inter_credentials`, `save_token_provider_credentials` | `SaveInterKeys`, `SaveToken` |
| `resolve_inter_credentials`, `get_payment_gateway` | `ReadClient`, `ReadCert`, `Gateway`, `Granted` |
| `register_`, `delete_inter_webhook`, `retry_inter_webhook_callbacks`, `test_inter_connection` | `Register`, `Delete`, `Retry`, `Test` |
| create, sync, cancel, light and full callbacks | `LoadCharge`, `Issue`, `Sync`, `Cancel`, `Enrich`, `FullCallback`, `Refused` |

A call to the bank and the save after it are one step here, since what may come
between them is `Billing`; what may come between loading the settings, reading the
secrets and the call is the subject of this module. Both banks are in mode `http`.
Credentials are only "set number n"; a bank accepts the newest set it handed out.
A slip remembers whether it was ever `protested` and whether its cancellation was
`accepted` (`Slip`). Asaas deletes a payment within the request; at Inter, and at C6
whose endpoint the Hub uses alike, a cancellation is accepted (`CancelledAt`) and
takes effect in a later step of the bank, while the Hub writes `cancelled` at once.
Inter's callbacks include one of a protest, which the Hub takes for a payment
(`Said`, and `Enrich` for a light one).

### Delivery

State. `msg[m]` is the `OutboxMessage` row with its attempts and the time until it
is due, `tasks[m]` the dispatch tasks in the broker, `rows[m]` the committed
`ChannelNotification`s, `sent[m]` how often the gateway took the text, `lock[m]`
the row lock. `claim_and_dispatch` is one transaction: `TakeNothing`, `Claim`,
`Send` (the gateway answers, refuses or raises), `Failed` or `Processed`;
`ProcessSilent` for what has no handler or nobody to tell. `Enqueue` queues a task
on commit - or loses it - `Sweep` is `dispatch_pending_outbox`, `Crash` loses a
worker. Time is ticks, of which a back-off lasts as many as attempts were made.

The chat is `Hear`, `UpdateExisting`, `Recent`, `UpdateRecent`, `NoRecent`, `Create`:
`ingest_inbound_message` in steps, because the lookup by message id, the lookup of
a session inside the debounce window and the insert are separate queries. Texts
are message ids. The two halves share nothing but workers; `quiet`, chosen at the
start, says which of them an execution is about.

### Scheduling

State. `appt`, `buffers`, `blocks`, `fin`, `entry` are the rows; `told` counts the outbox
messages of each type; `proLock` and `finLock` hold the `Professional` and the
`AppointmentFinancial` row.

| code | actions |
|---|---|
| `create_appointment`, `assert_clear_of_blocks_and_time_off`, `assert_no_appointment_conflict` | `BookLookup`, `BookLock`, `BookCheck`, `BookInsert`, `BookRefused` |
| `confirm_appointment` ... `mark_no_show` (`_transition`), `complete_appointment` | `Transition`; completion is `CompleteLock`, `CompleteFinancial`, `CompleteCommit` |
| `record_deposit`, `settle_financial` | `FinLock`, `KeyChecked`, `DepositCommit`, `SettleCommit` |
| `resolve_best_commission_rule`, `create_commission_entry_for_completed` | `Applies`, `Specificity`, `Beats`, `Earned`, `Entry`, inside `CompleteCommit` |
| approval of a commission, buffers, blocks, time off | `SetEntryStatus`, `PatchService`, `AddBlock` |

A transition locks appointment and professional in one query and then writes; it is
one step that waits for the lock. A status is a member of the code's table `From`.
Minutes are small numbers of an abstract grid, money a few units; rounding of a
percentage is that of `Decimal` (half even).

### Guides

State. `cert`, `proxy`, `guide` are the rows, `alerts` the alerts that were ever
enqueued, each a certificate and whether it was told as expiring or as expired, `day`
the calendar. A transaction's marks of a status refreshed
on read stay in `job[w].marks` until it commits, as does what it demoted.
`emitir_guia` is `EmitBegin` (lookup by key, primary certificate), `UseProxy`,
`LoadPfx` (the primary again), `Post`, `Insert`; `upload_a1_certificate` is
`UploadDemote`, `UploadInsert`; the daily scan `ScanRead`, `ScanCommit`; the Admin's
`RevokeCert`, `RevokeProxy`, `CreateProxy`; `NextDay` may fall between any two of
these. A certificate is its thumbprint and last day, the guide keeps which
mandates it was made under and on which day each was looked at.

### Fiscal

State. `doc[d]` is a list of any of the three kinds with its status, lines and
version; `published_at` the time of those kinds that are chosen by it, and `now` the
clock; `services` the tenant's; `note` what the note was taxed with; `beside[w]`
(history) the lists published since the UPDATE of `w`'s publication. Publishing is
`PublishLoad`, `PublishUpdate` (the UPDATE reads its snapshot), `PublishLock` (waits
for the rows it saw, takes those still published and reads the clock), `PublishSave`
(waits for the list's own row, writes that time, commits): READ COMMITTED as
PostgreSQL does it. `CreateLoad`/`CreateInsert`, `EditLoad` with
`SaveChecklist` or `InsertRule`, `Import`, `CreateRtc`, `SeedCreate`/`SeedCodes`,
`Materialize` are the other operations of the services. A note is created and
reprocessed by `EmitBegin` or `ReprocessBegin`, `ReadCatalog`, `ReadRule`, `ReadRtc`,
one query each, or `EmitAborts`. `Best` is the order of rules (priority, then
the latest start), `Assessed` the amounts of `compute_ibscbs_base` in cents,
half up. From `ReprocessBegin` on, only the catalogue and the rule are looked up again, as `reprocess_nf_issue` does: it looks neither at the RTC codes nor at the
national list.

## 3. Runs

| run | instance | question | result |
|---|---|---|---|
| `billing_settlement` | 1 charge, 1 slip, 2 requests, all faults, create/cancel/sync/overdue/webhook, full and light payment callbacks | is a charge settled once, only on the bank's word, no acknowledged payment lost; is a cancelled slip unpayable or about to be cancelled; does only a stale write take a charge out of paid; does it implement `Settlement`? | holds |
| `billing_liveness` | 1 charge, 1 slip, 1 request, 1 beat worker, crashes and refusals, `FairSpec` | is a received charge closed for good by the beat job alone? | holds |
| `plans` | 2 keys, one of which is a later part's key of the other, 2 requests with any of 5 contents, 4 slips, refusals and crashes | is a plan whole, monthly, to the cent, and every slip of it known? Does a repeated key get the same answer? | holds |
| `provider` | 1 charge, 1 request, 1 beat worker, Inter and Asaas with one set of credentials each, all callbacks of Inter, payments of Asaas, `FairSpec` | does the Hub show only what the bank that issued the slip reported or accepted; is a paid charge closed once that bank can be asked? | holds |
| `provider_asaas_events` | the same, Asaas sends every kind of event | is a paid charge received at its bank? | violated |
| `sync_batch` | 4 charges, 1 broken, limit 2, `FairSpec` | does every open charge keep being synced? | holds |
| `issuance` | 1 invoice, 2 requests, 2 Celery workers, all requests and faults, 2 rejections with different errors | does the Hub show as authorized or cancelled only what the provider has? | holds |
| `issuance_progress` | 1 request (cancel, reprocess), 2 workers, crashes and refusals but of polls, `FairSpec` | does the status follow `ALLOWED`, and does a poll learn the decision without callbacks? | holds |
| `delivery` | 2 messages (1 silent) or 3 chat messages of 2 phones, 2 workers, `FairSpec` | is a settled message never sent again; is a swept one settled? | holds |
| `scheduling` | 2 bookings, 1 professional, 1 service, 2 requests, 3 commission rules | do appointments never overlap; is a completed one accounted for once; does a settlement stay? | holds |
| `guides` | 2 certificates, 2 proxies, 2 keys of one period, 2 workers, days 0 to 2 | one primary; are guides made under mandates that had not ended when looked at; is expiry alerted? | holds |
| `fiscal` | 3 catalogues, 2 RTC versions, 2 national lists, 2 sessions, 5 requests, from an empty and from a used database | is one catalogue published, are older lists superseded however publications overlap, is there always one, and a note explained by them? | holds |

Bounds. One charge is enough for the properties of a charge: handlers of
different charges share nothing but the batch, which `SyncBatch` models with four
of them (`OverdueWrite` waits for every lock of its set; with more charges it only
waits longer). Two requests are what it takes for every race listed under
hazards, all of which are between two actors. The outbox counters of a charge
decide nothing; `OutboxCap = 1` tells none from some.

Likewise one invoice, whose handlers share nothing with another's. `MaxPosts = 2`
gives an attempt and its retry, so that callbacks and polls of the first meet the
second; `MaxRetries = 1` (12 in the code) gives a poll that may be retried and one
that may not; `MaxTasks = 2` bounds what reprocessing enqueues.

`plans`: the contents are one of each kind at a boundary: the least amount, a total
that does not divide by three and whose parts are below the minimum, the
30th and the 31st over short and leap months, an end date that is itself due, a
recurrence cut off by the limit, and one whose count wins over its end date.
`INSTALLMENT_MAX` and `RECURRING_MAX` are 3 (48 and 60 in the code): the rule is the
same for every part after the first. `MaxSlips = 4` lets a plan fail after its last
part and another begin. The two keys are `K` and `K:2`; `K:2` has room for one more
suffix of its own and not for a second, so that both a taken and an overlong key
stop a plan after a slip was issued.

`provider`: one set of credentials per bank is "none yet" and "the right ones", so
that reads that straddle a save see half of them; one settings request at a time,
beside the beat worker and the callbacks - two of them write stale settings over
each other, which changes the bank as a switch does.

`delivery`: `MAX_ATTEMPTS = 3` (8) has a first, a middle and a last attempt; a
back-off and the debounce window of one tick each; `Limit = 1` so that a message may
have to wait for the next sweep; three chat messages are two of one phone, which may
share a session, and one of another.

`scheduling`: two bookings are what an overlap takes; they may ask for starts
0 and 2 of a service of 2 minutes, which meet if a buffer is in between; there is one block
to collide with. One of the two records money, with all or nothing of the price as
deposit and discount. The three rules have an order of priority that contradicts their
order of specificity, and one is for another branch. The declared end is exact
(`Slack = 0`).

`guides`: `Soon = 1` (30) and three days give each certificate and proxy a
day it is valid, expiring and expired, and one proxy a day before it is valid.
`fiscal`: three catalogues give two overlapping publications over a published one;
the two days are inside and after the test year of the RTC, the two amounts lie on
and off a rounding boundary; `MaxRequests = 5` is an edit, two
publications, a note and its reprocessing.

Bounds that matter for what is claimed. `CancelledIsAccepted` is checked
with charges issued through `create_charge` that have one slip and payment
callbacks; it is proved under the weaker hypothesis `KeepsItsSlip`, and does not
hold without it (see Findings). `SlipsAreTracked` and `SameAnswer` are claims about requests
that repeat a key; they say nothing of two concurrent Admin emissions of one local
charge, nor of what a lost answer of the bank leaves behind, for which the slip of
an undone transaction is allowed, as it is where the key of a later part is taken or
too long. `HubFollowsIssuer` is checked and proved for an
Asaas account that sends payment events only.

Deadlock is checked for `sync_batch`, `delivery`, `scheduling`, `guides`, `plans` and
`provider`. `CHECK_DEADLOCK FALSE` is set for `Billing`, `Issuance` and `Fiscal`:
their instances have finitely many slips, notes, callbacks or requests, and when
all of them are used up the system has nothing left to do.

Fairness. `Billing!FairSpec`: the beat job (`CELERY_BEAT_SCHEDULE`, every
`BILLING_SYNC_INTERVAL_SECONDS`) has strong fairness on the steps of a sync,
because it tries again at every interval what a lock or the bank refused, and
PostgreSQL grants row locks in the order they are asked for. Its worker may crash
at any step, but is not killed every time while it waits for a row lock. A request gets weak fairness only for the steps it makes while
it holds a row lock: they wait for nobody and the HTTP client has a timeout. No
request has to arrive, no callback has to be delivered. `SyncBatch!FairSpec`:
the run goes on, and a charge that is not broken is not refused every time.
`Provider!FairSpec`: the same beat job over `Provider`'s steps; nothing is assumed
of staff, banks and callbacks. `Issuance!FairSpec`: a task a worker has begun goes on (the HTTP client has a
timeout), a message or a poll that waits is taken in the end by some worker
(strong fairness, because another transaction may hold the row in between). Polls
that fail are excluded, since `FocusHttpError` ends a poll task for good and the
code then promises nothing; callbacks may all be lost. `Delivery!FairSpec`: time
passes, a task in the broker is taken in the end, and a worker is not killed every time
it has one. That somebody runs the sweep is no fairness of the
specification but the hypothesis of `SweptIsSettled`: nothing in
`CELERY_BEAT_SCHEDULE` runs it, and without it a failed message stays failed.

## 4. Findings

One run shows a disagreement between the code and its documentation:

* `_normalize_asaas` (`integrations/payments/normalize.py:69`) calls every event
  about a payment a payment, so an account subscribed to more than received
  payments settles a charge when it is created, while
  `Domain_Functional_Specification.md:702` lets a charge become paid through a
  valid payment only (`provider_asaas_events`).

The code does not keep every statement that is kept beside a model. Change a configuration of the
module as the last column says, and TLC prints the behaviour.

| definition | what happens | where | shown by |
|---|---|---|---|
| `Billing!MarkOverdueSkipsPaid` | `mark_overdue_charges` updates by id what it selected by status: a charge paid in between becomes overdue; a sync that was answered before the payment, and a second emission, write a stale status as well. The next sync repairs it: `billing_liveness` includes this race and `ReceivedIsClosed` holds | `apps/billing/services.py:246` | PROPERTY in `billing_settlement` |
| `Billing!PaidHasPaymentEvent` | the enrichment of a callback or of an emission writes `paid` without a `PaymentEvent`; with a fine or a discount the inbox row then fails on the amount. A later sync adds the event - not the beat job, which looks only at open charges | `:278`, `:893` | INVARIANT in `billing_settlement` |
| `Billing!SettledIsAnnounced` | the same enrichment makes the `charge.paid` branch of `process_webhook_inbox` unreachable for light callbacks: settled, not announced | `:917` | INVARIANT in `billing_settlement` |
| `Billing!PaidIsReceivedAtBank` | a slip in protest is not paid, but `PROTESTO` is not in the map: its callback has no `hub_status`, `_webhook_is_payment` takes it for a payment, and the charge is settled. `Domain_Functional_Specification.md:702` says a charge becomes paid through a valid payment only; the Inter study (`:186`) leaves `PROTESTO` to operations | `:838` | INVARIANT in `billing_settlement` |
| `Billing!CancelledHasNoPayableSlip` | the bank answers a cancellation with 202 `PROCESSANDO` and confirms it by callback or GET (Inter study `:200`); the Hub writes `cancelled` at once, "cancela cobrança no gateway e no Hub" (`:500`), and does not ask again. A slip paid meanwhile stays `cancelled` if its callback is lost, because the beat job asks only for open charges | `integrations/payments/banks.py:191` | INVARIANT in `billing_settlement` |
| `Billing!CancelledIsAccepted` with Admin emission | `cancel_charge` decides on a stale `gateway_ref` | `:535` | "emit" added to the jobs of `billing_settlement` |
| `Billing!CancelledIsAccepted` with a second slip | the answer to `create_charge` is lost and the slip stays; the request is repeated and issues another one under the same `seu_numero`; the callback that the first was cancelled, or expired, finds the charge by `seu_numero` and cancels it, while the second can be paid | `:774` | a second slip, and "cancelado" among the callbacks of `billing_settlement` |
| `SyncBatch!EveryOpenChargeIsSynced` with as many broken charges as the limit | charges that always fail keep their place and fill every batch | `apps/billing/tasks.py:30` | a second broken charge in `sync_batch` |
| `Fiscal!CatalogIsFrozen` | draft is checked on the catalogue as loaded: a rule or a checklist is saved into one published meanwhile | `apps/fiscal/tax_engine.py:42` | PROPERTY in `fiscal` |

`Issuance!FollowsFsm` fails likewise with two requests that reprocess one note
(`apps/issuance/services.py:354`): the second checks `ALLOWED` against the row it loaded and
writes `queued` over `authorized`; the next submission is refused by the provider
and the note stays queued. One poll from the Admin is enough as well
(`apps/issuance/admin.py:467`, "poll" among the requests of `issuance_progress`): it
loads a note in polling, a callback authorizes the row, the provider cancels the
note, and the poll, answered only now, writes `rejected` over `authorized`.

Behaviour met while modelling, allowed by the models because no text of the
repository denies it:

* *Billing*: two Admin emissions of one local charge issue two slips
  (`services.py:424`); a lost answer of the bank leaves a slip the Hub does not know (`:132`).
* *Plans*: only the total of an installment plan is validated, so its parts may be
  below the bank's minimum; a part refused late leaves the earlier slips payable
  (`services.py:410`); so does a part whose key `K:i` is another charge's or too long
  (`:380`), and each retry of the key issues the earlier slips again.
* *Provider*: `set_billing_preset` writes the settings as loaded and takes back a
  switch committed meanwhile (`presets.py:91`); charges of the old bank are asked of
  the new one and stay as they are until the tenant switches back; answers of C6
  are read with Inter's field names, so a C6 charge stays registered until a full
  callback; a light callback that failed while another provider was active is
  retried only while Inter is active; the PUT of the callback address happens
  inside the switch's transaction and stays if that is rolled back.
* *Issuance*: a submission that fails or dies after the provider accepted it leaves
  the note queued until a callback comes; a late rejection of the first attempt
  makes the Hub ignore the authorization of the second.
* *Delivery*: nothing schedules `dispatch_pending_outbox`; a worker that dies after
  the gateway took the text sends it again; two calls with the first message of a
  chat may make two sessions.
* *Scheduling*: deposits and settlement look only at the financial row, not at the
  appointment's status.
* *Guides*: the scan may write a stale status over a revocation; an upload of an
  expired file demotes a good primary and is stored as expired with no alert until the
  next scan (`certificates.py:150`); a certificate or proxy revoked after it was looked at is
  used all the same; a key used again for another month answers with the
  first month's guide.
* *Fiscal*: two RTC versions or national lists may be published together; in force
  is the one whose publication read the clock last, which need not be the one that
  was committed last, and the next publication supersedes both; `seed_minimal_rtc_pack` publishes a superseded seed again;
  reprocessing a note skips the RTC and national checks.

## 5. Proofs

| theorem | states |
|---|---|
| `BillingProofs!TypeCorrect` | `Spec => []TypeOK` |
| `BillingProofs!SettledAtMostOnce` | `Spec => []AtMostOnePaymentEvent` |
| `BillingProofs!OneWorkerPerCharge` | no two workers are in a locking transaction on one charge |
| `BillingProofs!NoInventedPayment` | `Spec => []PaidIsReportedByBank` |
| `BillingProofs!NoLostPayment` | `Spec => []ProcessedPaymentIsSettled` |
| `BillingProofs!Implements` | `Spec => KeepsPromise`: `Billing` implements `Settlement` |
| `BillingProofs!CancelledWasAccepted` | `Spec => []CancelledIsAccepted`, if `KeepsItsSlip` |
| `BillingProofs!CallbacksKeepPaid` | `Spec => PaidLeavesByStaleRead`, an action property |
| `BillingProofs!PaidIsBookedAndAnnounced` | `Spec /\ []EnrichmentFindsNoPayment => [](PaidHasPaymentEvent /\ SettledIsAnnounced)` |
| `ProviderProofs!TypeCorrect` | `Spec => []TypeOK` |
| `ProviderProofs!HubFollows` | `Spec => []HubFollowsIssuer`, if Asaas sends payment events only |
| `IssuanceProofs!TypeCorrect` | `Spec => []TypeOK` |
| `IssuanceProofs!AuthorizedIsIssued` | `Spec => []AuthorizedAtProvider` |
| `IssuanceProofs!CancelledIsCancelled` | `Spec => []CancelledAtProvider` |
| `IssuanceProofs!StatusFollowsFsm` | `Spec /\ []Undisturbed => FollowsFsm`, an action property |
| `IssuanceProofs!AloneFollowsFsm` | `Spec => FollowsFsm`, if `NoStaleWrite` |
| `PlansProofs!TypeCorrect` | `Spec => []TypeOK` |
| `PlansProofs!WholeOrNothing` | `Spec => []PlanIsWhole` |
| `PlansProofs!EverySlipIsTracked` | `Spec => []SlipsAreTracked` |
| `PlansProofs!OneAnswer` | `Spec => []SameAnswer` |
| `SchedulingProofs!TypeCorrect` | `Spec => []TypeOK` |
| `SchedulingProofs!NeverBookedTwice` | `Spec => []NoDoubleBooking` |
| `SchedulingProofs!EveryCompletionIsAccounted` | `Spec => []CompletedIsAccounted` |
| `SchedulingProofs!NeverToldTwice` | `Spec => []ToldOnce` |
| `SchedulingProofs!SettlementIsFinal` | `Spec => SettledIsFinal`, an action property |
| `GuidesProofs!TypeCorrect` | `Spec => []TypeOK` |
| `GuidesProofs!OnePrimaryCertificate` | `Spec => []OnePrimary` |
| `GuidesProofs!UnderValidCertificate`, `UnderValidProxy` | `Spec => []GuideUnderValidCertificate`, `[]GuideUnderValidProxy` |
| `GuidesProofs!ExpiryIsAlerted` | `Spec => ExpiredIsAlerted`, an action property |
| `FiscalProofs!TypeCorrect` | `Spec => []TypeOK` |
| `FiscalProofs!OnePublishedCatalog` | `Spec => []OnePublished` |
| `FiscalProofs!OlderAreAlwaysSuperseded` | `Spec => OlderAreSuperseded`, an action property |
| `FiscalProofs!NeverWithdrawnList` | `Spec => NeverWithdrawn`, an action property |
| `FiscalProofs!NoteIsAlwaysExplained` | `Spec => []NoteIsExplained`, if the CBS test rate is at most 99 % |
| `DeliveryProofs!TypeCorrect` | `Spec => []TypeOK` |
| `DeliveryProofs!NeverSentAgain` | `Spec => NotSentAgain`, an action property |

Each module has an inductive invariant `IInv` (`BillingProofs` strengthens it to
`KInv` and `CInv`, `SchedulingProofs` to `LInv`), which
TLC checked on the instance of the component's run before it was proved. There is
one lemma per action and kind of part it can disturb. Apart from the
hypotheses in the table, a theorem rests on the named `ASSUME`s of the module it
is about, which TLC evaluates on every run, and on no bound of an instance.

Hypotheses are of two kinds. `KeepsItsSlip`, `OnlyPayments`, `NoStaleWrite` and
the limit on the test rate restrict the constants: which requests and callbacks there
are, or how many at a time. `Undisturbed` and `EnrichmentFindsNoPayment`
restrict the behaviour, by what the code takes for granted and does not
see to. They belong to statements of the repository which the code does not keep
(section 4): the theorem says that it keeps them but for the one thing that the
hypothesis names. TLC looked for a violation under each of them before the proof, and found
one without it.

`BillingProofs` holds for any sets of charges, slips, requests and beat workers,
any jobs, faults and callbacks. `AtMostOnePaymentEvent` is not inductive: whether
`SyncCommit` or `WebhookPay` may append depends on what the worker saw. The inductive invariant
`IInv` is `Typing /\ Discipline`, where `Discipline` says that a worker inside a
transaction holds the lock of its charge (`LockDiscipline`) and that the answer of
its anti-replay query is still true when it commits (`CheckIsFresh`): only the
holder of the lock appends to `events[c]`, so nobody can have made it false. The
mutant `CheckPaymentEvent_ByInbox` breaks exactly this.

`KInv` adds `Knowledge`: what is written is what a worker remembers, so
the invariant is about the memories. A status `paid`, an answer or a callback that
the Hub takes for a payment is in `job` or `inbox` only if the bank received one for
that charge or had a slip of it in protest, an event remembered as found is in the books, and an inbox row is of
a callback that was sent (`JobsKnow`, `InboxKnows`). All three are about sets that
only grow, so that a memory stays true whatever other workers do. `Implements` maps
`received`, `unmapped`, `settlements` and `acknowledged` as `Billing!Promise` does: a
payment and a protest at the bank are steps of `Settlement`, an appended event another,
a callback marked processed or withdrawn a third kind, and every other step changes
none of the four.

`CancelledIsAccepted` is as delicate: `cancelled` reaches a row from a
request, a sync or a callback, each long after it learned of it. `CInv` adds
`Cancellation`: a row, a memory or an inbox row speaks of a cancellation only for
a charge that is `Closed`, that is, whose slip has ended at the bank or been accepted
for cancellation, and has none to come that could be paid (`CancelledIsClosed`,
`JobsFollow`, `InboxFollows`).
A registration speaks of the slip it is about to write, and until then there is
no row (`NotYetMade`), which is where the row lock is used. Closed charges stay so
because a slip that has ended stays as it is, an acceptance is not forgotten and a row
keeps its slip. The last
is what `KeepsItsSlip` is for. It has two parts, and TLC shows a behaviour without
either (see Findings): `"emit" \notin Jobs`, no charge gets its slip after it
was created; and no callback "cancelado" unless a charge has one slip only.
It allows any number of slips where cancellations are not called back or only
by light callbacks, and every callback where a charge has one slip.

`CallbacksKeepPaid` and `PaidIsBookedAndAnnounced` are about the findings on `Billing`. That a
paid charge can be reopened is true; `PaidLeavesByStaleRead` says by what, with no
hypothesis: a registration, a cancellation, a sync or `mark_overdue_charges` that read the
charge before it had the lock. A handler of a callback reads it under the lock, and
`OneWorkerActs` shows that no step changes the status of a charge another worker holds, so
that a handler which found a paid charge still remembers it as paid when it writes
(`HeldStayPaid`); `Apply` then keeps it. For the books, `EnrichmentFindsNoPayment` says of a registration and of
a callback that what they are about to write reads paid only if the row does. Then the two handlers
that settle write the status, the event and the message in one transaction
(`SyncCommitBooks`, `WebhookPayBooks`) and no other step makes a charge paid (`OtherBooks`).

`ProviderProofs` holds for any charges, workers, banks in use and sets of
credentials. `HubFollowsIssuer` is inductive once `Typing` says two things more
than `TypeOK`: a worker with an operation on a charge has one in mind (`JobsOK`),
and a slip has a state if and only if a bank issued it (`SlipsOK`). The argument is
that the answer of a bank is about a slip it issued (`KnownSlip`), says what is so
then (`HubStatusFollows`), and that a payment, a cancellation, a protest that was and
an acceptance stay so (`BankAdvancesFollows`); a status a worker remembers is not written back: a sync
writes one only where the answer changed it. Asaas' callbacks need the hypothesis `OnlyPayments`, and
`provider_asaas_events` shows that it is needed. Of the named `ASSUME`s of
`Provider`, those on `None`, the banks in use and `MaxKeys` are used.

`IssuanceProofs` holds for any invoices, requests, Celery workers, bounds and
faults. An answer "authorized" may be written long after it was given, by a worker
whose row was changed meanwhile; `Knowledge` says that every such answer - in `job`,
in a callback sent, in the row a request loaded - is of a note the provider
authorized or cancelled, which stays so. `Typing` needs that what is polled has been
posted: a poll belongs to a POST the provider has accepted.

`StatusFollowsFsm` adds `Current` to that invariant: what a worker remembers of its row
is still so. A task has held the lock since it looked; a note a request is about
to cancel is authorized, or cancelled meanwhile, and then `transition` writes what is
there already. Two requests have no such protection, a poll by hand and a
reprocess: `Undisturbed` says of them that the rows they loaded keep their status
until they are saved. It is a hypothesis on the behaviour: the code
does not guarantee it, and where it fails the status may be overwritten (see
Findings). `Steps` says what one worker's step may do to the rows and locks of the
others, and one lemma shows that such a step leaves `Current` true of them, so that each
action is looked at only once. `AloneFollowsFsm` derives `Undisturbed` where it can be
derived: nobody polls by hand, and there is one request at a time if requests reprocess
(`NoStaleWrite`). Then only a reprocess is waiting, its note was refused, and
a refused note is left alone by all but those who reprocess (`RefusedStays`).

`PlansProofs` holds for any requests, keys, workers, amounts, dates and limits.
`PlanIsWhole` compares the rows of a key with what the request asked for, by
operators that do not use the planning functions, so that the proof has two parts.
The one is a state machine: what a worker has registered is a first part of the
plan of a valid request, a commit writes the whole of it and only where the key is
its own (`Working`, `KeysOK`). The other is arithmetic: the parts of `SplitAmount` add
up to the total, the months that `DueDates` steps through are those after the first,
and `MonthlyOccurrences` ends where `InStep` says. `Sum` and the count of months are
recursive functions; induction over the natural numbers is not available as a
library theorem here and is derived in the module from the well-foundedness of the
strict subsets of `1..n` (`LeastNatural`), for the sets at hand. `SlipsAreTracked`
and `SameAnswer` follow once `DoneIsIssued` and `AnswersOK` relate what workers
remember and were told to slips and rows.

`SchedulingProofs` holds for any appointments, professionals, services, hours,
buffers, blocks, money, requests and any finite set of commission rules. `NoDoubleBooking` is not inductive: a request
that has checked the calendar may insert. `IInv` adds that a request past its
locking query holds the row of the professional it is about, and a completion that
of its appointment, which may still be completed (`Holds`), and that what the check
found is still so at the insert (`Fresh`): other bookings of the professional
wait, a transition only ever frees a slot (`StatusWrite`), and a change of buffers
does not matter since footprints contain the intervals (`FootprintCovers`). Money and
messages are a second invariant above it (`LInv`): a deposit or a settlement holds its
financial row and finds it as it saw it (`MoneyOK`), an appointment has an entry if
and only if it is completed, and the entry is one that its row accounts for
(`EntriesOK`). That a best rule exists needs an argument, the code taking the
first of a sorted list: it follows from the well-foundedness of the strict subsets
of a finite set, the rules that beat a given one getting fewer. `ToldOnce` holds
because a status that can still come has not been announced (`ToldOK`), which the
table of transitions keeps.

`GuidesProofs` holds for any certificates, proxies, keys, requests and days. Uploads
number the certificates without a gap and the primary has the highest
number (`CertsOK`); a request between two queries remembers a proxy and a
certificate with the day it looked at each, and they allowed it then (`JobsOK`), so that a
guide inserted after the mandate ended is still one that was asked for under it.
`ExpiredIsAlerted` is about statuses that are replaced: only a scan commits such a
replacement by `expired`, and in the transaction that enqueues the alert, while a guide request that
finds it raises and rolls its write back. It says nothing of a file that was past its end
when it was uploaded.

`FiscalProofs` holds for any lists, rules, services, amounts, requests and settings.
`ListsOK` is the state of the lists: catalogues numbered without two alike, at most one
of them published, and no list dated after the clock. A publication is four steps and its
UPDATE may miss what another one committed meanwhile; that its save then meets the unique
index is what keeps catalogues apart, while RTC versions and national lists have none and
may be published together. For `OlderAreSuperseded` the invariant is `Covered`: once a
publication is past its UPDATE, everything published of its kind is its own list, one
that it is about to supersede, or one published beside it; only the commit of another
publication adds to what is published (`OthersPublishNothing`), and that one is noted in
`beside`. A note reads one list after another while
they change: what it read stays true because lists are never deleted and a
catalogue keeps its number and its rules (`Made`, `Numbers` and `Ruled` only grow),
therefore the snapshot names a catalogue that has its rule, although it may no longer
be published. For the taxes to fit into their base, `SharesFit` needs
`TEST_CBS \in ModestRate`: a rate up to 99 % leaves room for the IBS of 0.1 % and
for the rounding of each share. The setting's default is 0.9 %
(`RTC_TEST_CBS_RATE`), and the code does not limit it.

`DeliveryProofs` holds for any messages, phones, workers and limits. A worker
that sends a text holds the row of the message, whose status is still the one it
claimed (`Claimed`), because what a transaction does to the row of another message
does not matter and the row itself waits; so nobody settles a message between the check and the
call, which is what `NotSentAgain` says and what the mutant `Claim_PlainRead` breaks. That
a message which may be tried again has attempts left (`RowsOK`) keeps `attempts` and
the wait within their types; sessions and the memory of chat requests are of one
phone each (`SessionsOK`, `JobsOK`).

Left to TLC: the type invariant of `SyncBatch`, whose order of charges is built
with `SelectSeq`, a recursive definition of which the library states nothing; every
liveness property and `ENABLED`, which are
out of the prover's reach.

## 6. Not modelled

*Of modelled components*: Admin's form save of a charge (it writes every column of
an object loaded when the form was opened) and its bulk actions; Admin's edits of
other records but for revocations; PDF bytes, boleto artifacts and payloads of
banks, Focus and SERPRO; the availability list, working hours of professionals and
time zones of Scheduling; the routing of a note between NFS-e providers; audit rows.

*Components*: access rules, row level security and authentication are configuration
more than behaviour over time; serializers, pages and Admin screens are
presentation, and what they call is modelled where the service is; customers,
services and lookups of master data are plain records. Management commands,
scripts and migrations are left out.

## 7. Plan

1. *(done)* `Billing`, `Settlement`, `SyncBatch`, `Issuance`, `Delivery`, `Scheduling`,
   `Guides`, `Plans`, `Fiscal`, `Provider` and their runs.
2. *(done)* `BillingProofs`, `ProviderProofs`, `IssuanceProofs`,
   `PlansProofs`, `SchedulingProofs`, `GuidesProofs`, `FiscalProofs`, `DeliveryProofs`.
