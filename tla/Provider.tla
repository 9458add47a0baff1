------------------------------ MODULE Provider ------------------------------
(***************************************************************************)
(* A tenant's payment provider: which bank accounts.Tenant.settings names, *)
(* the credentials kept as TenantSecret rows, the callback address known   *)
(* to Banco Inter, and what a change of any of them does to charges that   *)
(* are already issued.  A charge does not remember which bank issued its   *)
(* slip: every call goes to the bank the tenant's settings name when the   *)
(* request loaded them, with the secrets it then reads row by row.         *)
(*                                                                         *)
(* A worker (a web request, or the beat job) loads the tenant and the      *)
(* charge, reads the secrets, then calls the bank.  The call and the save  *)
(* that follows it are one step here: what may come between them is the    *)
(* subject of Billing.  Gateways work in mode "http".                      *)
(***************************************************************************)
EXTENDS Integers, FiniteSets

CONSTANTS
  Charge,      \* charges of the tenant
  Web, Beat,   \* requests and admin actions; workers of the beat job
  Used,        \* providers this instance switches between
  Events,      \* the callbacks each bank sends, see EventNames
  MaxKeys,     \* bounds how many sets of credentials a bank hands out
  None

Worker == Web \cup Beat

\* KNOWN_PAYMENT_PROVIDERS
Banks == {"inter", "asaas", "c6"}

\* created: issued or overdue; protested: Inter's situacao PROTESTO, which the Hub
\* has no status for; light: Inter's callback without a situacao.
EventNames == {"created", "received", "refunded", "deleted", "protested", "light"}

ASSUME WorkerAssumption == Web \cap Beat = {} /\ None \notin Worker
ASSUME NoneAssumption == None \notin Charge /\ None \notin Banks
ASSUME BankAssumption == Used \subseteq Banks /\ "inter" \in Used
ASSUME EventAssumption == Events \in [Banks -> SUBSET EventNames]
ASSUME KeyAssumption == MaxKeys \in [Banks -> Nat]

VARIABLES
  tenant,  \* committed settings: payment_provider and billing_preset
  secret,  \* TenantSecret rows of each bank, by the set they belong to (0: none)
  atBank,  \* the set of credentials each bank accepts now
  hook,    \* whether Inter has the Hub's webhookUrl
  charge,  \* the Hub's status of each charge
  slip,    \* each charge's slip: the bank that issued it, its state there, and
           \* whether it was ever in protest or its cancellation accepted
  inbox,   \* the inbox row of each charge's light callback
  job      \* what each worker does and remembers

vars == <<tenant, secret, atBank, hook, charge, slip, inbox, job>>

-----------------------------------------------------------------------------
(* Data *)

\* normalize_billing_preset: a preset it refuses is never stored.
Presets == {"plain", "with_fees"}

Settings == [provider : Banks, preset : Presets]
KeySet == UNION {0..MaxKeys[b] : b \in Banks}
Keys == [client : KeySet, cert : KeySet]
NoKeys == [client |-> 0, cert |-> 0]

Open == {"pending", "registered", "overdue"}
Status == Open \cup {"absent", "paid", "cancelled"}
SlipState == {"none", "open", "protested", "paid", "refunded", "cancelled"}
Slip == [bank : Banks \cup {None}, state : SlipState,
         protested : BOOLEAN, accepted : BOOLEAN]
NoSlip == [bank |-> None, state |-> "none", protested |-> FALSE, accepted |-> FALSE]

\* Operations of PUT billing/provider and billing/preset, of the charge
\* endpoints, of the beat job, of the callback, of the Inter webhook endpoints.
Ops == {"switch", "preset", "issue", "sync", "cancel", "light",
        "register", "delete", "retry", "test"}
OfInter == {"register", "delete", "retry"}

Idle == [op |-> "idle", pc |-> "idle", charge |-> None, status |-> "absent",
         settings |-> [provider |-> "inter", preset |-> "plain"], keys |-> NoKeys]
Job == [op : Ops \cup {"idle"}, pc : {"idle", "loaded", "saved", "client_read", "ready"},
        charge : Charge \cup {None}, status : Status, settings : Settings,
        keys : Keys]

TypeOK ==
  /\ tenant \in Settings
  /\ secret \in [Banks -> Keys]
  /\ atBank \in [Banks -> KeySet]
  /\ hook \in BOOLEAN
  /\ charge \in [Charge -> Status]
  /\ slip \in [Charge -> Slip]
  /\ inbox \in [Charge -> {"none", "failed", "processed"}]
  /\ job \in [Worker -> Job]

\* resolve_payment_provider_kind: settings that name no known bank mean Inter.
Default == [provider |-> "inter", preset |-> "plain"]

Init ==
  /\ tenant = Default
  /\ secret = [b \in Banks |-> NoKeys]
  /\ atBank = [b \in Banks |-> 0]
  /\ hook = FALSE
  /\ charge = [c \in Charge |-> "absent"]
  /\ slip = [c \in Charge |-> NoSlip]
  /\ inbox = [c \in Charge |-> "none"]
  /\ job = [w \in Worker |-> Idle]

\* Mutant: RECEIVED is not in Asaas' status_map, so its default is taken.
HubStatus_NotReceived ==
  [b \in Banks |->
    [none |-> "registered", open |-> "registered", protested |-> "registered",
     paid |-> IF b = "inter" THEN "paid" ELSE "registered",
     refunded |-> "cancelled", cancelled |-> "cancelled"]]

\* What consultar_cobranca makes of a slip's state: PROTESTO is not in the map and
\* counts as registered.  A C6 answer is read with Inter's field names, so
\* whatever it says counts as registered.
HubStatus ==
  [b \in Banks |->
    IF b = "c6" THEN [s \in SlipState |-> "registered"]
    ELSE [none |-> "registered", open |-> "registered", protested |-> "registered",
          paid |-> "paid", refunded |-> "cancelled", cancelled |-> "cancelled"]]

\* What a callback says of the charge: Inter by its situacao; of Asaas every
\* event about a payment is a payment.  A situacao that is not in the map leaves
\* the callback without hub_status, and such a one counts as a payment.
Said(b, event) ==
  CASE b = "asaas" -> "paid"
    [] event = "created" -> "registered"
    [] event \in {"received", "protested"} -> "paid"
    [] OTHER -> "cancelled"

\* _apply_boleto_result and the lifecycle branch keep paid and cancelled.
Apply(status, new) == IF status \in {"paid", "cancelled"} THEN status ELSE new

Finish(w) == job' = [job EXCEPT ![w] = Idle]
Become(w, pc) == job' = [job EXCEPT ![w].pc = pc]

\* get_payment_gateway: of the settings the worker remembers.
Gateway(w) == job[w].settings.provider

\* The UPDATE of a tenant's row holds it until commit: a switch to Inter holds
\* it while it calls the bank.
RowFree == \A w \in Worker : job[w].op = "switch" => job[w].pc = "loaded"

-----------------------------------------------------------------------------
(* The banks: external, as the Hub's code takes them to behave *)

\* A cancellation at Inter (202 PROCESSANDO) or C6 takes effect some time after it
\* was accepted; like a slip's expiry, it is a step of the bank.
NextState(b) ==
  [open |-> {"paid", "cancelled"} \cup IF b = "inter" THEN {"protested"} ELSE {},
   protested |-> {"paid", "cancelled"},
   paid |-> IF b = "asaas" THEN {"refunded"} ELSE {},
   refunded |-> {}, cancelled |-> {}, none |-> {}]

BankAdvances(c) ==
  /\ \E new \in NextState(slip[c].bank)[slip[c].state] :
       slip' = [slip EXCEPT ![c].state = new,
                            ![c].protested = @ \/ new = "protested"]
  /\ UNCHANGED <<tenant, secret, atBank, hook, charge, inbox, job>>

\* The tenant gets new credentials at the bank; the old ones stop working.
NewKeys(b) ==
  /\ b \in Used /\ atBank[b] < MaxKeys[b]
  /\ atBank' = [atBank EXCEPT ![b] = @ + 1]
  /\ UNCHANGED <<tenant, secret, hook, charge, slip, inbox, job>>

\* Events of a slip, late ones included.
Told(s) ==
  (CASE s.state \in {"open", "protested"} -> {"created"}
     [] s.state = "paid" -> {"created", "received"}
     [] s.state = "refunded" -> {"created", "received", "refunded"}
     [] s.state = "cancelled" -> {"created", "deleted"}
     [] OTHER -> {})
  \cup IF s.protested THEN {"protested"} ELSE {}

\* Inter calls back at the address the Hub registered; the others are
\* configured in their own panels.
Reaches(c) == slip[c].bank = "inter" => hook

-----------------------------------------------------------------------------
(* Settings and credentials *)

\* TenantJWTAuthentication loads the tenant; _require_inter_gateway refuses the
\* webhook endpoints while another provider is active.
LoadTenant(w, op) ==
  /\ w \in Web /\ job[w].op = "idle"
  /\ op \in OfInter => tenant.provider = "inter"
  /\ job' = [job EXCEPT ![w] =
       [Idle EXCEPT !.op = op, !.pc = "loaded", !.settings = tenant]]
  /\ UNCHANGED <<tenant, secret, atBank, hook, charge, slip, inbox>>

\* set_billing_provider: the whole settings map is written as it was loaded but
\* for the provider.  A switch to Inter goes on to register the callback address
\* before it commits.
SwitchSave(w, b) ==
  LET new == [job[w].settings EXCEPT !.provider = b] IN
  /\ job[w].op = "switch" /\ job[w].pc = "loaded" /\ RowFree
  /\ IF b = "inter"
     THEN /\ job' = [job EXCEPT ![w].settings = new, ![w].pc = "saved"]
          /\ UNCHANGED tenant
     ELSE tenant' = new /\ Finish(w)
  /\ UNCHANGED <<secret, atBank, hook, charge, slip, inbox>>

\* Mutant: the settings map is built from the preset alone.
PresetSave_FromScratch(w, x) ==
  /\ job[w].op = "preset" /\ RowFree
  /\ tenant' = [preset |-> x]
  /\ Finish(w)
  /\ UNCHANGED <<secret, atBank, hook, charge, slip, inbox>>

\* set_billing_preset: as stale a write of the same map.
PresetSave(w, x) ==
  /\ job[w].op = "preset" /\ RowFree
  /\ tenant' = [job[w].settings EXCEPT !.preset = x]
  /\ Finish(w)
  /\ UNCHANGED <<secret, atBank, hook, charge, slip, inbox>>

\* save_inter_credentials: the rows of one set, in one transaction.
SaveInterKeys ==
  /\ \E k \in 1..atBank["inter"] :
       secret' = [secret EXCEPT !["inter"] = [client |-> k, cert |-> k]]
  /\ UNCHANGED <<tenant, atBank, hook, charge, slip, inbox, job>>

\* save_token_provider_credentials: one row, api_token.
SaveToken(b) ==
  /\ b \in Used \ {"inter"}
  /\ \E k \in 1..atBank[b] :
       secret' = [secret EXCEPT ![b] = [client |-> k, cert |-> k]]
  /\ UNCHANGED <<tenant, atBank, hook, charge, slip, inbox, job>>

-----------------------------------------------------------------------------
(* A request on a charge, up to its call to the bank *)

MayLoad(op, c) ==
  CASE op = "issue" -> charge[c] = "absent"
    [] op = "sync" -> charge[c] # "absent"
    [] op = "cancel" -> charge[c] \in Open
    [] op = "light" -> /\ charge[c] # "absent" /\ inbox[c] = "none"
                       /\ slip[c].bank = "inter" /\ hook
                       /\ "light" \in Events["inter"]
    [] OTHER -> FALSE

\* The beat job selects open charges.
LoadCharge(w, op, c) ==
  /\ job[w].op = "idle" /\ MayLoad(op, c)
  /\ w \in Beat => op = "sync" /\ charge[c] \in Open
  /\ job' = [job EXCEPT ![w] =
       [op |-> op, pc |-> "loaded", charge |-> c, status |-> charge[c],
        settings |-> tenant, keys |-> NoKeys]]
  /\ UNCHANGED <<tenant, secret, atBank, hook, charge, slip, inbox>>

\* resolve_inter_credentials: client_id and client_secret, then the certificate
\* and its key, each a query of its own.
ReadClient(w) ==
  LET b == Gateway(w) IN
  /\ \/ job[w].pc = "saved"
     \/ job[w].pc = "loaded" /\ job[w].op \notin {"switch", "preset"}
  /\ job' = [job EXCEPT ![w].keys = [client |-> secret[b].client, cert |-> 0],
                        ![w].pc = "client_read"]
  /\ UNCHANGED <<tenant, secret, atBank, hook, charge, slip, inbox>>

ReadCert(w) ==
  LET b == Gateway(w) IN
  /\ job[w].pc = "client_read"
  /\ job' = [job EXCEPT
       ![w].keys.cert = IF b = "inter" THEN secret[b].cert ELSE job[w].keys.client,
       ![w].pc = "ready"]
  /\ UNCHANGED <<tenant, secret, atBank, hook, charge, slip, inbox>>

\* InterCredentials.complete and the TLS context: no call without a certificate.
Complete(k) == k.client # 0 /\ k.cert # 0

\* The bank gives a token, or takes the request, for the set it accepts now.  A
\* client is built for each gateway: no token outlives the worker's job.
Granted(w) ==
  LET k == job[w].keys IN
  Complete(k) /\ k.client = k.cert /\ k.client = atBank[Gateway(w)]

\* A bank knows the slips it issued.
Known(w) == slip[job[w].charge].bank = Gateway(w)

Calls(w, op) == job[w].op = op /\ job[w].pc = "ready" /\ Granted(w)

-----------------------------------------------------------------------------
(* What the call to the bank does, and the save that follows *)

Issue(w) ==
  LET c == job[w].charge IN
  /\ Calls(w, "issue") /\ charge[c] = "absent"
  /\ slip' = [slip EXCEPT ![c] = [NoSlip EXCEPT !.bank = Gateway(w), !.state = "open"]]
  /\ charge' = [charge EXCEPT ![c] = "registered"]
  /\ Finish(w)
  /\ UNCHANGED <<tenant, secret, atBank, hook, inbox>>

\* The object loaded is saved: its status only where the answer changed it.
Sync(w) ==
  LET c == job[w].charge
      old == job[w].status
      new == Apply(old, HubStatus[Gateway(w)][slip[c].state]) IN
  /\ Calls(w, "sync") /\ Known(w)
  /\ charge' = [charge EXCEPT ![c] = IF new = old THEN @ ELSE new]
  /\ Finish(w)
  /\ UNCHANGED <<tenant, secret, atBank, hook, slip, inbox>>

\* Asaas deletes the payment in the request; Inter and C6 accept to cancel it.
CancelledAt(b, s) ==
  IF b = "asaas" THEN [s EXCEPT !.state = "cancelled"] ELSE [s EXCEPT !.accepted = TRUE]

\* Mutant: a bank that does not know the slip has, so it seems, cancelled it.
Cancel_UnknownIsGone(w) ==
  LET c == job[w].charge IN
  /\ Calls(w, "cancel") /\ (Known(w) => slip[c].state \in {"open", "protested"})
  /\ slip' = [slip EXCEPT ![c] = IF Known(w) THEN CancelledAt(Gateway(w), @) ELSE @]
  /\ charge' = [charge EXCEPT ![c] = "cancelled"]
  /\ Finish(w)
  /\ UNCHANGED <<tenant, secret, atBank, hook, inbox>>

\* cancel_charge writes cancelled whatever the answer says; a bank refuses a slip
\* that is not open, or not its own.
Cancel(w) ==
  LET c == job[w].charge IN
  /\ Calls(w, "cancel") /\ Known(w) /\ slip[c].state \in {"open", "protested"}
  /\ slip' = [slip EXCEPT ![c] = CancelledAt(Gateway(w), @)]
  /\ charge' = [charge EXCEPT ![c] = "cancelled"]
  /\ Finish(w)
  /\ UNCHANGED <<tenant, secret, atBank, hook, inbox>>

\* A light callback: the bank is asked, under the lock of the charge; the answer
\* PROTESTO leaves the callback without hub_status, a payment.
Enrich(w) ==
  LET c == job[w].charge
      new == IF slip[c].state = "protested" THEN "paid"
             ELSE HubStatus[Gateway(w)][slip[c].state] IN
  /\ Calls(w, "light") /\ Known(w)
  /\ charge' = [charge EXCEPT ![c] = IF new = "paid" THEN new ELSE Apply(@, new)]
  /\ inbox' = [inbox EXCEPT ![c] = "processed"]
  /\ Finish(w)
  /\ UNCHANGED <<tenant, secret, atBank, hook, slip>>

\* A full callback needs no call to the bank, whatever the tenant's provider.
FullCallback(c, event) ==
  /\ event \in Told(slip[c]) /\ event \in Events[slip[c].bank] /\ Reaches(c)
  /\ charge' = [charge EXCEPT ![c] =
       LET new == Said(slip[c].bank, event) IN
       IF new = "paid" THEN new ELSE Apply(@, new)]
  /\ UNCHANGED <<tenant, secret, atBank, hook, slip, inbox, job>>

\* register_inter_webhook: PUT; within a switch, its transaction commits then.
Register(w) ==
  /\ Calls(w, "register") \/ Calls(w, "switch")
  /\ hook' = TRUE
  /\ tenant' = IF job[w].op = "switch" THEN job[w].settings ELSE tenant
  /\ Finish(w)
  /\ UNCHANGED <<secret, atBank, charge, slip, inbox>>

Delete(w) ==
  /\ Calls(w, "delete")
  /\ hook' = FALSE
  /\ Finish(w)
  /\ UNCHANGED <<tenant, secret, atBank, charge, slip, inbox>>

\* retry_inter_webhook_callbacks: a failed inbox row among those asked for, if
\* there is one, is processed again, with its tenant as it is by then.
Retry(w) ==
  /\ Calls(w, "retry")
  /\ \/ \E c \in Charge :
          /\ inbox[c] = "failed"
          /\ job' = [job EXCEPT ![w] =
               [op |-> "light", pc |-> "loaded", charge |-> c,
                status |-> charge[c], settings |-> tenant, keys |-> NoKeys]]
     \/ Finish(w)
  /\ UNCHANGED <<tenant, secret, atBank, hook, charge, slip, inbox>>

\* test_inter_connection asks for a token and only records the outcome.
Test(w) ==
  /\ job[w].op = "test" /\ job[w].pc = "ready"
  /\ Finish(w)
  /\ UNCHANGED <<tenant, secret, atBank, hook, charge, slip, inbox>>

\* PaymentGatewayError: a refusal, a slip the bank does not know, a transport
\* error.  A light callback becomes a failed inbox row; a switch reports the
\* error of its registration and commits all the same.
Refused(w) ==
  /\ job[w].pc = "ready" /\ job[w].op # "test"
  /\ inbox' = IF job[w].op = "light"
              THEN [inbox EXCEPT ![job[w].charge] = "failed"] ELSE inbox
  /\ tenant' = IF job[w].op = "switch" THEN job[w].settings ELSE tenant
  /\ Finish(w)
  /\ UNCHANGED <<secret, atBank, hook, charge, slip>>

\* The process dies: what it has not committed is lost.
Abort(w) ==
  /\ job[w].op # "idle"
  /\ Finish(w)
  /\ UNCHANGED <<tenant, secret, atBank, hook, charge, slip, inbox>>

-----------------------------------------------------------------------------
Bank ==
  \/ \E c \in Charge : BankAdvances(c)
  \/ \E b \in Banks : NewKeys(b)

Configure(w) ==
  \/ \E op \in Ops \ {"issue", "sync", "cancel", "light"} : LoadTenant(w, op)
  \/ \E b \in Used : SwitchSave(w, b)
  \/ \E x \in Presets : PresetSave(w, x)
  \/ Register(w) \/ Delete(w) \/ Retry(w) \/ Test(w)

OnCharge(w) ==
  \/ \E op \in {"issue", "sync", "cancel", "light"}, c \in Charge :
       LoadCharge(w, op, c)
  \/ Issue(w) \/ Sync(w) \/ Cancel(w) \/ Enrich(w)

Next ==
  \/ Bank \/ SaveInterKeys
  \/ \E b \in Banks : SaveToken(b)
  \/ \E c \in Charge, event \in EventNames : FullCallback(c, event)
  \/ \E w \in Worker : \/ Configure(w) \/ OnCharge(w)
                       \/ ReadClient(w) \/ ReadCert(w) \/ Refused(w) \/ Abort(w)

Spec == Init /\ [][Next]_vars

\* Celery beat runs billing.sync_open_charges for ever: every open charge is
\* loaded again and again, and a call that the bank would answer does not get
\* lost, nor its worker killed, every time.
FairSpec ==
  /\ Spec
  /\ \A w \in Beat :
       /\ \A c \in Charge : SF_vars(LoadCharge(w, "sync", c))
       /\ SF_vars(ReadClient(w)) /\ SF_vars(ReadCert(w))
       /\ SF_vars(Sync(w)) /\ WF_vars(Refused(w))

-----------------------------------------------------------------------------
(* Properties *)

\* Whatever provider the tenant has switched to meanwhile, a charge reads paid
\* only if the bank that issued its slip has received it or had it in protest
\* (services.py:838), and cancelled only if that bank has it so or has accepted
\* its cancellation (services.py:536 and :568 ask the bank of the moment).
HubFollowsIssuer ==
  \A c \in Charge :
    LET s == slip[c] IN
    /\ charge[c] = "paid" => s.state \in {"paid", "refunded"} \/ s.protested
    /\ charge[c] = "cancelled" => s.state \in {"cancelled", "refunded"} \/ s.accepted

\* The bank that issued the slip can be asked.
Askable(c) ==
  /\ tenant.provider = slip[c].bank
  /\ secret[tenant.provider].client = atBank[tenant.provider]

\* However often the provider and the credentials are changed, and though no
\* callback is delivered: once the tenant stays with the bank that issued a
\* slip, with credentials it accepts, the beat job closes the charge when the
\* slip is paid (tasks.py:17).
PaidIsClosedOnceAskable ==
  \A c \in Charge :
    <>[]Askable(c) => (slip[c].state = "paid" ~> charge[c] \notin Open)

\* Domain_Functional_Specification.md:702: a charge becomes paid through a valid
\* PaymentEvent only, which is the bank's word that it was paid.
PaidIsReceivedAtIssuer ==
  \A c \in Charge : charge[c] = "paid" => slip[c].state \in {"paid", "refunded"}
=============================================================================
