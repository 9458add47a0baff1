---------------------------- MODULE ProviderProofs ---------------------------
(***************************************************************************)
(* Proofs about Provider: its type invariant, and that a charge reads paid *)
(* or cancelled only by what the bank that issued its slip made of it, for *)
(* any charges, workers, banks in use, credentials and callbacks -         *)
(* provided Asaas tells of payments only.                                  *)
(***************************************************************************)
EXTENDS Provider, TLAPS

-----------------------------------------------------------------------------
(* The inductive invariant *)

OnCharges == {"issue", "sync", "cancel", "light"}

About(j) == j.op \in OnCharges => j.charge \in Charge

\* A worker that asks about a charge has one in mind.
JobsOK ==
  /\ job \in [Worker -> Job]
  /\ \A w \in Worker : About(job[w])

\* A slip has a state there, and a past, if and only if a bank issued it.
SlipsOK ==
  /\ slip \in [Charge -> Slip]
  /\ \A c \in Charge :
       /\ slip[c].bank = None <=> slip[c].state = "none"
       /\ slip[c].protested => slip[c].state # "none"
       /\ slip[c].state = "protested" => slip[c].protested

SettingsOK ==
  /\ tenant \in Settings
  /\ secret \in [Banks -> Keys]
  /\ atBank \in [Banks -> KeySet]
  /\ hook \in BOOLEAN

HubOK ==
  /\ charge \in [Charge -> Status]
  /\ inbox \in [Charge -> {"none", "failed", "processed"}]

Typing == SettingsOK /\ HubOK /\ SlipsOK /\ JobsOK

\* What the Hub may say of a charge with this slip.
Follows(status, s) ==
  /\ status = "paid" => s.state \in {"paid", "refunded"} \/ s.protested
  /\ status = "cancelled" => s.state \in {"cancelled", "refunded"} \/ s.accepted

\* Asaas sends no event but that of a payment.
OnlyPayments == Events["asaas"] \subseteq {"received"}

-----------------------------------------------------------------------------
(* Lemmas on the vocabulary and on single writes *)

LEMMA TypingImpliesTypeOK == Typing => TypeOK
  BY DEF Typing, TypeOK, SettingsOK, HubOK, SlipsOK, JobsOK

LEMMA FollowsIsInvariant ==
  HubFollowsIssuer <=> \A c \in Charge : Follows(charge[c], slip[c])
  BY DEF HubFollowsIssuer, Follows

\* Credentials the bank hands out or the Hub stores stay within what bounds them.
LEMMA KeyTypes ==
  /\ KeySet \subseteq Nat /\ 0 \in KeySet /\ NoKeys \in Keys
  /\ \A m \in KeySet : 1..m \subseteq KeySet
  /\ \A b \in Banks, m \in KeySet : m < MaxKeys[b] => m + 1 \in KeySet
<1>1. \A b \in Banks : MaxKeys[b] \in Nat /\ 0..MaxKeys[b] \subseteq KeySet
  BY KeyAssumption DEF KeySet
<1>2. \A m \in KeySet : m \in Nat /\ \E b \in Banks : m \in 0..MaxKeys[b]
  BY <1>1 DEF KeySet
<1>3. 0 \in KeySet
  <2>1. "inter" \in Banks  BY DEF Banks
  <2>. QED  BY <1>1, <2>1
<1>4. ASSUME NEW m \in KeySet  PROVE 1..m \subseteq KeySet
  <2>1. PICK b \in Banks : m \in 0..MaxKeys[b]  BY <1>2
  <2>2. \A k \in 1..m : k \in 0..MaxKeys[b]  BY <1>1, <1>2, <2>1
  <2>. QED  BY <1>1, <2>2
<1>5. ASSUME NEW b \in Banks, NEW m \in KeySet, m < MaxKeys[b]
      PROVE  m + 1 \in KeySet
  <2>1. m + 1 \in 0..MaxKeys[b]  BY <1>1, <1>2, <1>5
  <2>. QED  BY <1>1, <2>1
<1>. QED  BY <1>2, <1>3, <1>4, <1>5 DEF NoKeys, Keys

LEMMA IdleOK == Idle \in Job /\ About(Idle)
  BY KeyTypes DEF Idle, Job, About, OnCharges, Ops, Status, Open, Settings, Banks, Presets

LEMMA Memory ==
  ASSUME Typing, NEW w \in Worker
  PROVE  /\ job[w] \in Job /\ About(job[w])
         /\ job[w].settings \in Settings /\ Gateway(w) \in Banks
         /\ job[w].keys \in Keys /\ job[w].status \in Status
  BY DEF Typing, JobsOK, Job, Gateway, Settings

\* A step that changes what one worker remembers, to something right.
LEMMA JobWrite ==
  ASSUME Typing, NEW w \in Worker, NEW j \in Job, About(j),
         job' = [job EXCEPT ![w] = j]
  PROVE  JobsOK'
  BY DEF Typing, JobsOK, About

LEMMA FinishOK ==
  ASSUME Typing, NEW w \in Worker, Finish(w)
  PROVE  JobsOK'
  BY JobWrite, IdleOK DEF Finish

\* What the Hub stores after an answer is one of its statuses, and what it
\* calls paid or cancelled is so at the bank.
LEMMA HubStatusFollows ==
  ASSUME NEW b \in Banks, NEW s \in Slip, s.state # "none"
  PROVE  HubStatus[b][s.state] \in Status /\ Follows(HubStatus[b][s.state], s)
  BY DEF HubStatus, Slip, SlipState, Status, Open, Follows, Banks

LEMMA ApplyFollows ==
  ASSUME NEW a \in Status, NEW b \in Status
  PROVE  Apply(a, b) \in Status /\ Apply(a, b) \in {a, b}
  BY DEF Apply

LEMMA SlipFacts ==
  ASSUME Typing, NEW c \in Charge
  PROVE  /\ slip[c] \in Slip /\ slip[c].bank \in Banks \cup {None}
         /\ slip[c].bank = None <=> slip[c].state = "none"
         /\ slip[c].protested => slip[c].state # "none"
         /\ slip[c].state = "protested" => slip[c].protested
  BY DEF Typing, SlipsOK, Slip

LEMMA KnownSlip ==
  ASSUME Typing, NEW w \in Worker, job[w].op \in OnCharges, Known(w)
  PROVE  /\ job[w].charge \in Charge
         /\ slip[job[w].charge] \in Slip /\ slip[job[w].charge].state # "none"
<1>1. job[w].charge \in Charge /\ Gateway(w) \in Banks  BY Memory DEF About
<1>2. slip[job[w].charge].bank # None  BY <1>1, NoneAssumption DEF Known
<1>. QED  BY <1>1, <1>2, SlipFacts

-----------------------------------------------------------------------------
(* Typing is inductive: one lemma per action *)

LEMMA InitTyping == Init => Typing
<1>. SUFFICES ASSUME Init  PROVE Typing  OBVIOUS
<1>1. SettingsOK
  BY KeyTypes DEF Init, SettingsOK, Default, Settings, Banks, Presets
<1>2. HubOK  BY DEF Init, HubOK, Status
<1>3. SlipsOK  BY DEF Init, SlipsOK, NoSlip, Slip, SlipState
<1>4. JobsOK  BY IdleOK DEF Init, JobsOK
<1>. QED  BY <1>1, <1>2, <1>3, <1>4 DEF Typing

LEMMA BankAdvancesTyping ==
  ASSUME Typing, NEW c \in Charge, BankAdvances(c)
  PROVE  Typing'
<1>1. PICK new \in NextState(slip[c].bank)[slip[c].state] :
         slip' = [slip EXCEPT ![c].state = new,
                              ![c].protested = @ \/ new = "protested"]
  BY DEF BankAdvances
<1>2. slip[c] \in Slip /\ slip[c].state # "none" /\ new \in SlipState \ {"none"}
  BY <1>1 DEF NextState, Typing, SlipsOK, Slip, SlipState
<1>. DEFINE moved == [slip[c] EXCEPT !.state = new, !.protested = @ \/ new = "protested"]
<1>3. /\ slip' = [slip EXCEPT ![c] = moved]
      /\ moved \in Slip /\ moved.state = new /\ moved.bank = slip[c].bank
      /\ moved.protested = (slip[c].protested \/ new = "protested")
  BY <1>1, <1>2 DEF Slip
<1>. HIDE DEF moved
<1>4. SlipsOK'  BY <1>2, <1>3 DEF Typing, SlipsOK
<1>. QED  BY <1>4 DEF BankAdvances, Typing, SettingsOK, HubOK, JobsOK

LEMMA NewKeysTyping ==
  ASSUME Typing, NEW b \in Banks, NewKeys(b)
  PROVE  Typing'
<1>1. SettingsOK'
  BY KeyTypes DEF Typing, SettingsOK, NewKeys
<1>. QED  BY <1>1 DEF NewKeys, Typing, HubOK, SlipsOK, JobsOK

LEMMA LoadTenantTyping ==
  ASSUME Typing, NEW w \in Worker, NEW op \in Ops \ OnCharges, LoadTenant(w, op)
  PROVE  Typing'
<1>. DEFINE j == [Idle EXCEPT !.op = op, !.pc = "loaded", !.settings = tenant]
<1>1. j \in Job /\ About(j)
  BY IdleOK DEF Typing, SettingsOK, Job, Idle, About
<1>2. JobsOK'  BY <1>1, JobWrite DEF LoadTenant
<1>. QED  BY <1>2 DEF LoadTenant, Typing, SettingsOK, HubOK, SlipsOK

LEMMA SwitchSaveTyping ==
  ASSUME Typing, NEW w \in Worker, NEW b \in Used, SwitchSave(w, b)
  PROVE  Typing'
<1>. DEFINE new == [job[w].settings EXCEPT !.provider = b]
            j == [job[w] EXCEPT !.settings = new, !.pc = "saved"]
<1>1. new \in Settings
  BY Memory, BankAssumption DEF Settings
<1>2. CASE b = "inter"
  <2>1. j \in Job /\ About(j)
    BY <1>1, Memory DEF Job, About
  <2>2. job' = [job EXCEPT ![w] = j] /\ UNCHANGED tenant
    BY <1>2 DEF SwitchSave, Typing, JobsOK
  <2>3. JobsOK'  BY <2>1, <2>2, JobWrite
  <2>. QED  BY <2>2, <2>3 DEF SwitchSave, Typing, SettingsOK, HubOK, SlipsOK
<1>3. CASE b # "inter"
  <2>1. tenant' = new /\ Finish(w)  BY <1>3 DEF SwitchSave
  <2>2. JobsOK'  BY <2>1, FinishOK
  <2>. QED  BY <1>1, <2>1, <2>2 DEF SwitchSave, Typing, SettingsOK, HubOK, SlipsOK
<1>. QED  BY <1>2, <1>3

LEMMA PresetSaveTyping ==
  ASSUME Typing, NEW w \in Worker, NEW x \in Presets, PresetSave(w, x)
  PROVE  Typing'
<1>1. [job[w].settings EXCEPT !.preset = x] \in Settings
  BY Memory DEF Settings
<1>2. JobsOK'  BY FinishOK DEF PresetSave
<1>. QED  BY <1>1, <1>2 DEF PresetSave, Typing, SettingsOK, HubOK, SlipsOK

LEMMA SaveKeysTyping ==
  ASSUME Typing, SaveInterKeys \/ \E b \in Banks : SaveToken(b)
  PROVE  Typing'
<1>1. PICK b \in Banks : \E k \in 1..atBank[b] :
         secret' = [secret EXCEPT ![b] = [client |-> k, cert |-> k]]
  BY DEF SaveInterKeys, SaveToken, Banks
<1>2. PICK k \in 1..atBank[b] :
         secret' = [secret EXCEPT ![b] = [client |-> k, cert |-> k]]
  BY <1>1
<1>3. k \in KeySet  BY KeyTypes DEF Typing, SettingsOK
<1>4. UNCHANGED <<tenant, atBank, hook, charge, slip, inbox, job>>
  BY DEF SaveInterKeys, SaveToken
<1>. QED
  BY <1>2, <1>3, <1>4 DEF Typing, SettingsOK, Keys, HubOK, SlipsOK, JobsOK

LEMMA LoadChargeTyping ==
  ASSUME Typing, NEW w \in Worker, NEW op \in OnCharges, NEW c \in Charge,
         LoadCharge(w, op, c)
  PROVE  Typing'
<1>. DEFINE j == [op |-> op, pc |-> "loaded", charge |-> c, status |-> charge[c],
                  settings |-> tenant, keys |-> NoKeys]
<1>1. j \in Job /\ About(j)
  BY KeyTypes DEF Typing, SettingsOK, HubOK, Job, About, OnCharges, Ops
<1>2. JobsOK'  BY <1>1, JobWrite DEF LoadCharge
<1>. QED  BY <1>2 DEF LoadCharge, Typing, SettingsOK, HubOK, SlipsOK

LEMMA ReadClientTyping ==
  ASSUME Typing, NEW w \in Worker, ReadClient(w)
  PROVE  Typing'
<1>. DEFINE k == [client |-> secret[Gateway(w)].client, cert |-> 0]
            j == [job[w] EXCEPT !.keys = k, !.pc = "client_read"]
<1>1. k \in Keys
  BY Memory, KeyTypes DEF Typing, SettingsOK, Keys
<1>2. j \in Job /\ About(j)  BY <1>1, Memory DEF Job, About
<1>3. job' = [job EXCEPT ![w] = j]  BY DEF ReadClient, Typing, JobsOK
<1>4. JobsOK'  BY <1>2, <1>3, JobWrite
<1>. QED  BY <1>4 DEF ReadClient, Typing, SettingsOK, HubOK, SlipsOK

LEMMA ReadCertTyping ==
  ASSUME Typing, NEW w \in Worker, ReadCert(w)
  PROVE  Typing'
<1>. DEFINE k == IF Gateway(w) = "inter" THEN secret[Gateway(w)].cert
                 ELSE job[w].keys.client
            ks == [job[w].keys EXCEPT !.cert = k]
            j == [job[w] EXCEPT !.keys = ks, !.pc = "ready"]
<1>1. k \in KeySet
  BY Memory DEF Typing, SettingsOK, Keys
<1>2. ks \in Keys  BY <1>1, Memory DEF Keys
<1>3. j \in Job /\ About(j)  BY <1>2, Memory DEF Job, About
<1>4. job' = [job EXCEPT ![w] = j]  BY DEF ReadCert, Typing, JobsOK
<1>5. JobsOK'  BY <1>3, <1>4, JobWrite
<1>. QED  BY <1>5 DEF ReadCert, Typing, SettingsOK, HubOK, SlipsOK

LEMMA IssueTyping ==
  ASSUME Typing, NEW w \in Worker, Issue(w)
  PROVE  Typing'
<1>1. job[w].charge \in Charge /\ Gateway(w) \in Banks
  BY Memory DEF Issue, Calls, About, OnCharges
<1>2. SlipsOK'
  BY <1>1, NoneAssumption DEF Issue, Typing, SlipsOK, Slip, SlipState, NoSlip
<1>3. HubOK'  BY <1>1 DEF Issue, Typing, HubOK, Status, Open
<1>4. JobsOK'  BY FinishOK DEF Issue
<1>. QED  BY <1>2, <1>3, <1>4 DEF Issue, Typing, SettingsOK

LEMMA SyncTyping ==
  ASSUME Typing, NEW w \in Worker, Sync(w)
  PROVE  Typing'
<1>. DEFINE c == job[w].charge
            answer == HubStatus[Gateway(w)][slip[c].state]
<1>1. c \in Charge /\ slip[c] \in Slip /\ slip[c].state # "none"
  BY KnownSlip DEF Sync, Calls, OnCharges
<1>2. Apply(job[w].status, answer) \in Status
  BY <1>1, Memory, HubStatusFollows, ApplyFollows
<1>3. HubOK'  BY <1>1, <1>2 DEF Sync, Typing, HubOK
<1>4. JobsOK'  BY FinishOK DEF Sync
<1>. QED  BY <1>3, <1>4 DEF Sync, Typing, SettingsOK, SlipsOK

LEMMA CancelTyping ==
  ASSUME Typing, NEW w \in Worker, Cancel(w)
  PROVE  Typing'
<1>. DEFINE c == job[w].charge
            s == CancelledAt(Gateway(w), slip[c])
<1>1. c \in Charge /\ slip[c] \in Slip /\ slip[c].state # "none"
  BY KnownSlip DEF Cancel, Calls, OnCharges
<1>2. SlipsOK'
  <2>1. /\ s \in Slip /\ s.bank = slip[c].bank /\ s.protested = slip[c].protested
        /\ s.state \in {slip[c].state, "cancelled"}
    BY <1>1 DEF CancelledAt, Slip, SlipState
  <2>2. slip' = [slip EXCEPT ![c] = s]
    BY DEF Cancel
  <2>. HIDE DEF s
  <2>. QED  BY <1>1, <2>1, <2>2 DEF Typing, SlipsOK
<1>3. HubOK'  BY <1>1 DEF Cancel, Typing, HubOK, Status
<1>4. JobsOK'  BY FinishOK DEF Cancel
<1>. QED  BY <1>2, <1>3, <1>4 DEF Cancel, Typing, SettingsOK

LEMMA EnrichTyping ==
  ASSUME Typing, NEW w \in Worker, Enrich(w)
  PROVE  Typing'
<1>. DEFINE c == job[w].charge
            answer == IF slip[c].state = "protested" THEN "paid"
                      ELSE HubStatus[Gateway(w)][slip[c].state]
<1>1. c \in Charge /\ slip[c] \in Slip /\ slip[c].state # "none"
  BY KnownSlip DEF Enrich, Calls, OnCharges
<1>2. answer \in Status /\ charge[c] \in Status
  BY <1>1, Memory, HubStatusFollows DEF Typing, HubOK, Status
<1>3. Apply(charge[c], answer) \in Status
  BY <1>2, ApplyFollows
<1>4. HubOK'  BY <1>1, <1>2, <1>3 DEF Enrich, Typing, HubOK
<1>5. JobsOK'  BY FinishOK DEF Enrich
<1>. QED  BY <1>4, <1>5 DEF Enrich, Typing, SettingsOK, SlipsOK

LEMMA SaidType ==
  \A b, event : Said(b, event) \in Status
  BY DEF Said, Status, Open

LEMMA FullCallbackTyping ==
  ASSUME Typing, NEW c \in Charge, NEW event \in EventNames, FullCallback(c, event)
  PROVE  Typing'
<1>. DEFINE new == Said(slip[c].bank, event)
<1>1. new \in Status /\ charge[c] \in Status
  BY SaidType DEF Typing, HubOK
<1>2. Apply(charge[c], new) \in Status  BY <1>1, ApplyFollows
<1>3. HubOK'  BY <1>1, <1>2 DEF FullCallback, Typing, HubOK
<1>. QED  BY <1>3 DEF FullCallback, Typing, SettingsOK, SlipsOK, JobsOK

\* Register and Refused write the settings a switch remembers.
LEMMA RegisterTyping ==
  ASSUME Typing, NEW w \in Worker, Register(w)
  PROVE  Typing'
<1>1. SettingsOK'  BY Memory DEF Register, Typing, SettingsOK
<1>2. JobsOK'  BY FinishOK DEF Register
<1>. QED  BY <1>1, <1>2 DEF Register, Typing, HubOK, SlipsOK

LEMMA DeleteTyping ==
  ASSUME Typing, NEW w \in Worker, Delete(w)
  PROVE  Typing'
<1>1. SettingsOK'  BY DEF Delete, Typing, SettingsOK
<1>2. JobsOK'  BY FinishOK DEF Delete
<1>. QED  BY <1>1, <1>2 DEF Delete, Typing, HubOK, SlipsOK

LEMMA RetryTyping ==
  ASSUME Typing, NEW w \in Worker, Retry(w)
  PROVE  Typing'
<1>1. CASE Finish(w)
  BY <1>1, FinishOK DEF Retry, Typing, SettingsOK, HubOK, SlipsOK
<1>2. CASE ~Finish(w)
  <2>1. PICK c \in Charge :
          job' = [job EXCEPT ![w] =
            [op |-> "light", pc |-> "loaded", charge |-> c,
             status |-> charge[c], settings |-> tenant, keys |-> NoKeys]]
    BY <1>2 DEF Retry
  <2>. DEFINE j == [op |-> "light", pc |-> "loaded", charge |-> c,
                    status |-> charge[c], settings |-> tenant, keys |-> NoKeys]
  <2>2. j \in Job /\ About(j)
    BY KeyTypes DEF Typing, SettingsOK, HubOK, Job, About, Ops
  <2>3. JobsOK'  BY <2>1, <2>2, JobWrite
  <2>. QED  BY <2>3 DEF Retry, Typing, SettingsOK, HubOK, SlipsOK
<1>. QED  BY <1>1, <1>2

LEMMA RefusedTyping ==
  ASSUME Typing, NEW w \in Worker, Refused(w)
  PROVE  Typing'
<1>1. SettingsOK'  BY Memory DEF Refused, Typing, SettingsOK
<1>2. JobsOK'  BY FinishOK DEF Refused
<1>3. HubOK'
  <2>1. CASE job[w].op = "light"
    <3>1. job[w].charge \in Charge  BY <2>1, Memory DEF About, OnCharges
    <3>. QED  BY <2>1, <3>1 DEF Refused, Typing, HubOK
  <2>2. CASE job[w].op # "light"
    BY <2>2 DEF Refused, Typing, HubOK
  <2>. QED  BY <2>1, <2>2
<1>. QED  BY <1>1, <1>2, <1>3 DEF Refused, Typing, SlipsOK

\* Test and Abort only end the worker's job.
LEMMA EndTyping ==
  ASSUME Typing, NEW w \in Worker, Test(w) \/ Abort(w)
  PROVE  Typing'
<1>1. JobsOK'  BY FinishOK DEF Test, Abort
<1>. QED  BY <1>1 DEF Test, Abort, Typing, SettingsOK, HubOK, SlipsOK

LEMMA NextTyping == Typing /\ [Next]_vars => Typing'
<1>. SUFFICES ASSUME Typing, [Next]_vars  PROVE Typing'
  OBVIOUS
<1>1. CASE Bank
  BY <1>1, BankAdvancesTyping, NewKeysTyping DEF Bank
<1>2. CASE SaveInterKeys \/ \E b \in Banks : SaveToken(b)
  BY <1>2, SaveKeysTyping
<1>3. CASE \E c \in Charge, event \in EventNames : FullCallback(c, event)
  BY <1>3, FullCallbackTyping
<1>4. ASSUME NEW w \in Worker, Configure(w)  PROVE Typing'
  BY <1>4, LoadTenantTyping, SwitchSaveTyping, PresetSaveTyping, RegisterTyping,
     DeleteTyping, RetryTyping, EndTyping DEF Configure, OnCharges
<1>5. ASSUME NEW w \in Worker, OnCharge(w)  PROVE Typing'
  BY <1>5, LoadChargeTyping, IssueTyping, SyncTyping, CancelTyping, EnrichTyping
     DEF OnCharge, OnCharges
<1>6. ASSUME NEW w \in Worker,
             ReadClient(w) \/ ReadCert(w) \/ Refused(w) \/ Abort(w)
      PROVE  Typing'
  BY <1>6, ReadClientTyping, ReadCertTyping, RefusedTyping, EndTyping
<1>7. CASE UNCHANGED vars
  BY <1>7 DEF vars, Typing, SettingsOK, HubOK, SlipsOK, JobsOK
<1>. QED  BY <1>1, <1>2, <1>3, <1>4, <1>5, <1>6, <1>7 DEF Next

\* Every reachable state is one the types allow (Tenant.settings, TenantSecret
\* and Charge rows, and what a request has in memory).
THEOREM TypeCorrect == Spec => []TypeOK
<1>1. Init => Typing  BY InitTyping
<1>2. Typing /\ [Next]_vars => Typing'  BY NextTyping
<1>3. Typing => TypeOK  BY TypingImpliesTypeOK
<1>. QED  BY <1>1, <1>2, <1>3, PTL DEF Spec

-----------------------------------------------------------------------------
(* The Hub follows the bank that issued the slip *)

\* What a bank does later to a slip does not make the Hub wrong.
LEMMA BankAdvancesFollows ==
  ASSUME Typing, HubFollowsIssuer, NEW c \in Charge, BankAdvances(c)
  PROVE  HubFollowsIssuer'
<1>1. PICK new \in NextState(slip[c].bank)[slip[c].state] :
         slip' = [slip EXCEPT ![c].state = new,
                              ![c].protested = @ \/ new = "protested"]
  BY DEF BankAdvances
<1>2. slip[c] \in Slip /\ Follows(charge[c], slip[c])
  BY FollowsIsInvariant DEF Typing, SlipsOK
<1>3. slip[c].state \in {"paid", "cancelled", "refunded"} =>
        slip[c].state = "paid" /\ new = "refunded"
  BY <1>1 DEF NextState
<1>4. /\ slip'[c].state = new /\ slip'[c].accepted = slip[c].accepted
      /\ slip[c].protested => slip'[c].protested
      /\ \A d \in Charge : d # c => slip'[d] = slip[d]
  BY <1>1, <1>2 DEF Typing, SlipsOK, Slip
<1>5. Follows(charge[c], slip'[c])
  BY <1>2, <1>3, <1>4 DEF Follows
<1>. QED  BY <1>4, <1>5 DEF BankAdvances, HubFollowsIssuer, Follows

\* One charge gets a status its slip bears out.
LEMMA ChargeWrite ==
  ASSUME Typing, HubFollowsIssuer, NEW c \in Charge, NEW new \in Status,
         charge' = [charge EXCEPT ![c] = new], UNCHANGED slip,
         Follows(new, slip[c])
  PROVE  HubFollowsIssuer'
<1>1. \A d \in Charge : charge'[d] = IF d = c THEN new ELSE charge[d]
  BY DEF Typing, HubOK
<1>. QED  BY <1>1 DEF HubFollowsIssuer, Follows

LEMMA IssueFollows ==
  ASSUME Typing, HubFollowsIssuer, NEW w \in Worker, Issue(w)
  PROVE  HubFollowsIssuer'
<1>1. job[w].charge \in Charge
  BY Memory DEF Issue, Calls, About, OnCharges
<1>. DEFINE c == job[w].charge
<1>2. charge' = [charge EXCEPT ![c] = "registered"]  BY DEF Issue
<1>3. \A d \in Charge : charge'[d] = IF d = c THEN "registered" ELSE charge[d]
  BY <1>1, <1>2 DEF Typing, HubOK
<1>4. \A d \in Charge : d # c => slip'[d] = slip[d]
  BY DEF Issue, Typing, SlipsOK
<1>. QED  BY <1>3, <1>4 DEF HubFollowsIssuer

LEMMA SyncFollows ==
  ASSUME Typing, HubFollowsIssuer, NEW w \in Worker, Sync(w)
  PROVE  HubFollowsIssuer'
<1>. DEFINE c == job[w].charge
            old == job[w].status
            answer == HubStatus[Gateway(w)][slip[c].state]
            new == Apply(old, answer)
<1>1. c \in Charge /\ slip[c] \in Slip /\ slip[c].state # "none"
  BY KnownSlip DEF Sync, Calls, OnCharges
<1>2. /\ answer \in Status /\ Follows(answer, slip[c])
      /\ old \in Status /\ new \in Status /\ new \in {old, answer}
  BY <1>1, Memory, HubStatusFollows, ApplyFollows
<1>3. /\ charge' = [charge EXCEPT ![c] = IF new = old THEN charge[c] ELSE new]
      /\ UNCHANGED slip
  BY DEF Sync
<1>4. charge[c] \in Status /\ Follows(charge[c], slip[c])
  BY <1>1, FollowsIsInvariant DEF Typing, HubOK
<1>5. CASE new = old
  BY <1>1, <1>3, <1>4, <1>5, ChargeWrite
<1>6. CASE new # old
  BY <1>1, <1>2, <1>3, <1>6, ChargeWrite
<1>. QED  BY <1>5, <1>6

LEMMA CancelFollows ==
  ASSUME Typing, HubFollowsIssuer, NEW w \in Worker, Cancel(w)
  PROVE  HubFollowsIssuer'
<1>1. job[w].charge \in Charge
  BY Memory DEF Cancel, Calls, About, OnCharges
<1>. DEFINE c == job[w].charge
<1>2. \A d \in Charge : charge'[d] = IF d = c THEN "cancelled" ELSE charge[d]
  BY <1>1 DEF Cancel, Typing, HubOK
<1>3. /\ slip'[c].state = "cancelled" \/ slip'[c].accepted
      /\ \A d \in Charge : d # c => slip'[d] = slip[d]
  BY <1>1 DEF Cancel, CancelledAt, Typing, SlipsOK, Slip
<1>. QED  BY <1>2, <1>3 DEF HubFollowsIssuer

LEMMA EnrichFollows ==
  ASSUME Typing, HubFollowsIssuer, NEW w \in Worker, Enrich(w)
  PROVE  HubFollowsIssuer'
<1>. DEFINE c == job[w].charge
            answer == IF slip[c].state = "protested" THEN "paid"
                      ELSE HubStatus[Gateway(w)][slip[c].state]
            new == IF answer = "paid" THEN answer ELSE Apply(charge[c], answer)
<1>1. c \in Charge /\ slip[c] \in Slip /\ slip[c].state # "none"
  BY KnownSlip DEF Enrich, Calls, OnCharges
<1>2. answer \in Status /\ Follows(answer, slip[c])
  <2>1. CASE slip[c].state = "protested"
    BY <1>1, <2>1, SlipFacts DEF Follows, Status
  <2>2. CASE slip[c].state # "protested"
    BY <1>1, <2>2, Memory, HubStatusFollows
  <2>. QED  BY <2>1, <2>2
<1>3. charge[c] \in Status /\ Follows(charge[c], slip[c])
  BY <1>1, FollowsIsInvariant DEF Typing, HubOK
<1>4. new \in {answer, charge[c]}
  BY <1>2, <1>3, ApplyFollows
<1>5. charge' = [charge EXCEPT ![c] = new] /\ UNCHANGED slip
  BY DEF Enrich
<1>. QED  BY <1>1, <1>2, <1>3, <1>4, <1>5, ChargeWrite

\* What a full callback says was true of the slip when the event was made, and
\* a payment, a protest or a cancellation stays.
LEMMA SaidFollows ==
  ASSUME OnlyPayments, NEW b \in Banks, NEW s \in Slip,
         NEW event \in Told(s) \cap Events[b]
  PROVE  Follows(Said(b, event), s)
<1>1. CASE b = "asaas"
  <2>1. event = "received"  BY <1>1 DEF OnlyPayments
  <2>. QED  BY <1>1, <2>1 DEF Said, Told, Follows
<1>2. CASE b # "asaas"
  BY <1>2 DEF Said, Told, Slip, SlipState, Follows
<1>. QED  BY <1>1, <1>2

LEMMA FullCallbackFollows ==
  ASSUME OnlyPayments, Typing, HubFollowsIssuer,
         NEW c \in Charge, NEW event \in EventNames, FullCallback(c, event)
  PROVE  HubFollowsIssuer'
<1>. DEFINE said == Said(slip[c].bank, event)
            new == IF said = "paid" THEN said ELSE Apply(charge[c], said)
<1>1. /\ slip[c] \in Slip /\ slip[c].bank \in Banks \cup {None}
      /\ slip[c].bank = None <=> slip[c].state = "none"
      /\ slip[c].protested => slip[c].state # "none"
      /\ charge[c] \in Status /\ Follows(charge[c], slip[c])
  BY FollowsIsInvariant, SlipFacts DEF Typing, HubOK
<1>2. slip[c].bank \in Banks
  BY <1>1 DEF FullCallback, Told
<1>3. said \in Status /\ Follows(said, slip[c])
  BY <1>1, <1>2, SaidFollows, SaidType DEF FullCallback
<1>4. new \in {said, charge[c]}
  BY <1>1, <1>3, ApplyFollows
<1>5. charge' = [charge EXCEPT ![c] = new] /\ UNCHANGED slip
  BY DEF FullCallback
<1>. QED  BY <1>1, <1>3, <1>4, <1>5, ChargeWrite

LEMMA NextFollows ==
  ASSUME OnlyPayments, Typing, HubFollowsIssuer, [Next]_vars
  PROVE  HubFollowsIssuer'
<1>1. CASE UNCHANGED <<charge, slip>>
  BY <1>1 DEF HubFollowsIssuer
<1>2. CASE \E c \in Charge : BankAdvances(c)
  BY <1>2, BankAdvancesFollows
<1>3. CASE \E c \in Charge, event \in EventNames : FullCallback(c, event)
  BY <1>3, FullCallbackFollows
<1>4. ASSUME NEW w \in Worker, Issue(w) \/ Sync(w) \/ Cancel(w) \/ Enrich(w)
      PROVE  HubFollowsIssuer'
  BY <1>4, IssueFollows, SyncFollows, CancelFollows, EnrichFollows
<1>5. ASSUME NEW w \in Worker, Configure(w)  PROVE UNCHANGED <<charge, slip>>
  BY <1>5 DEF Configure, LoadTenant, SwitchSave, PresetSave, Register, Delete,
              Retry, Test
<1>6. ASSUME NEW w \in Worker, NEW op, NEW c, LoadCharge(w, op, c)
      PROVE  UNCHANGED <<charge, slip>>
  BY <1>6 DEF LoadCharge
<1>7. ASSUME NEW w \in Worker,
             ReadClient(w) \/ ReadCert(w) \/ Refused(w) \/ Abort(w)
      PROVE  UNCHANGED <<charge, slip>>
  BY <1>7 DEF ReadClient, ReadCert, Refused, Abort
<1>8. ASSUME NEW b \in Banks, NewKeys(b) \/ SaveInterKeys \/ SaveToken(b)
      PROVE  UNCHANGED <<charge, slip>>
  BY <1>8 DEF NewKeys, SaveInterKeys, SaveToken
<1>9. CASE UNCHANGED vars
  BY <1>1, <1>9 DEF vars
<1>10. CASE SaveInterKeys
  BY <1>1, <1>10 DEF SaveInterKeys
<1>. QED
  BY <1>1, <1>2, <1>3, <1>4, <1>5, <1>6, <1>7, <1>8, <1>9, <1>10
     DEF Next, Bank, OnCharge

\* However the tenant changes its provider or its credentials, and whichever of
\* them a worker still remembers: a charge reads paid only if the bank that issued
\* its slip has received it or had it in protest, and cancelled only if that bank
\* has it so or has accepted its cancellation (cancel_charge,
\* sync_charge_from_gateway, process_webhook_inbox) - as long as Asaas sends payment
\* events only; every other event of Asaas is read as a payment (normalize.py).
THEOREM HubFollows ==
  ASSUME OnlyPayments
  PROVE  Spec => []HubFollowsIssuer
<1>1. Init => Typing /\ HubFollowsIssuer
  BY InitTyping DEF Init, HubFollowsIssuer
<1>2. Typing /\ HubFollowsIssuer /\ [Next]_vars => (Typing /\ HubFollowsIssuer)'
  BY NextTyping, NextFollows
<1>. QED  BY <1>1, <1>2, PTL DEF Spec
=============================================================================
