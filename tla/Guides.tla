-------------------------------- MODULE Guides --------------------------------
(***************************************************************************)
(* Tax guides (apps/das) and the two mandates each needs: the primary A1    *)
(* certificate of the CNPJ and an electronic proxy (apps/accounts).         *)
(*                                                                         *)
(* emitir_guia is one transaction around calls to SERPRO.  It reads stored  *)
(* statuses that only a reader or the scan brings up to date, and reads the *)
(* primary certificate twice.  Uploads, the scan, revocations in the Admin  *)
(* and the calendar go on meanwhile.                                        *)
(***************************************************************************)
EXTENDS Integers, FiniteSets, FiniteSetsExt

CONSTANTS
  Cert,      \* PFX files of one CNPJ, by thumbprint
  NotAfter,  \* the day each expires
  Proxy,     \* proxies of the same CNPJ
  From, To,  \* the days each is valid, To may be None
  HasCode,   \* those whose service codes allow DAS
  Pair,      \* outgranter and outgrantee of each
  Key,       \* idempotency keys
  Period,    \* provider, kind, month and version each key asks for
  Worker,
  Soon,      \* days before the end that count as expiring, 30 in the code
  LastDay,   \* bound
  None

ASSUME NoneAssumption == None \notin Cert \cup Proxy \cup Key \cup Worker
\* A certificate is no proxy: they are rows of two tables.
ASSUME RowAssumption == IsFiniteSet(Cert) /\ Cert \cap Proxy = {}
ASSUME DayAssumption ==
  /\ Soon \in Nat /\ LastDay \in Nat
  /\ NotAfter \in [Cert -> Int] /\ From \in [Proxy -> Int]
  /\ \A p \in Proxy : To[p] = None \/ To[p] \in Int

VARIABLES
  cert,   \* DigitalCertificate rows
  proxy,  \* status of each ElectronicProxy row
  guide,  \* GuiaFiscal rows, by idempotency key
  alerts, \* certificates and what was ever enqueued of them
  job,    \* what each worker is doing
  day

vars == <<cert, proxy, guide, alerts, job, day>>

CertStatus == {"active", "expiring", "expired", "revoked"}
ProxyStatus == {"pending", "active", "expiring", "expired", "revoked"}
Usable == {"active", "expiring"}
Alert == {"expiring", "expired"}   \* certificate.expiring, certificate.expired

CertRow == [status : CertStatus, primary : BOOLEAN, version : 1..Cardinality(Cert)]
NoCert == [status |-> "absent", primary |-> FALSE, version |-> 0]
NoGuide == [cert |-> None, proxy |-> None, checked |-> 0, loaded |-> 0]
Idle == [pc |-> "idle", on |-> None, cert |-> None, proxy |-> None, checked |-> 0,
         loaded |-> 0, marks |-> {}, seen |-> {}]
PC == {"idle", "demoted", "scan", "proxy", "load", "post", "repost", "insert"}

\* Statuses a transaction has written and not committed.
Mark == (Cert \X CertStatus) \cup (Proxy \X ProxyStatus)

TypeOK ==
  /\ cert \in [Cert -> CertRow \cup {NoCert}]
  /\ proxy \in [Proxy -> ProxyStatus \cup {"absent"}]
  /\ guide \in [Key -> [cert : Cert, proxy : Proxy, checked : 0..LastDay, loaded : 0..LastDay]
                      \cup {NoGuide}]
  /\ alerts \subseteq Cert \X Alert
  /\ \A w \in Worker :
       /\ job[w].pc \in PC
       /\ job[w].on \in Cert \cup Key \cup {None}
       /\ job[w].cert \in Cert \cup {None} /\ job[w].proxy \in Proxy \cup {None}
       /\ {job[w].checked, job[w].loaded} \subseteq 0..LastDay
       /\ job[w].marks \subseteq Mark /\ job[w].seen \subseteq Cert \X CertStatus
  /\ day \in 0..LastDay

Init ==
  /\ cert = [c \in Cert |-> NoCert]
  /\ proxy = [p \in Proxy |-> "absent"]
  /\ guide = [k \in Key |-> NoGuide]
  /\ alerts = {}
  /\ job = [w \in Worker |-> Idle]
  /\ day = 0

-----------------------------------------------------------------------------
(* Statuses and the days they stand for *)

\* _status_for_validity
StatusForValidity(c) ==
  IF NotAfter[c] <= day THEN "expired"
  ELSE IF NotAfter[c] - day <= Soon THEN "expiring" ELSE "active"

\* Mutant: the stored status is believed.
Refreshed_Stored(c, status) == status

\* refresh_certificate_status
Refreshed(c, status) == IF status = "revoked" THEN status ELSE StatusForValidity(c)

\* refresh_proxy_status
RefreshedProxy(p, status) ==
  IF status = "revoked" THEN status
  ELSE IF To[p] # None /\ To[p] < day THEN "expired"
  ELSE IF To[p] # None /\ To[p] - day <= Soon
  THEN IF status \in Usable \cup {"pending"} THEN "expiring" ELSE status
  ELSE IF status = "pending" /\ From[p] <= day THEN "active" ELSE status

Primary == {c \in Cert : cert[c].primary}

\* A row somebody has updated stays locked until the transaction ends.
Free(row, w) ==
  \A v \in Worker \ {w} : \A m \in job[v].marks : m[1] # row
Demoting(c, w) ==
  \E v \in Worker \ {w} : job[v].pc = "demoted" /\ job[v].cert = c

Marked(row, status, marks) ==
  IF \E m \in marks : m[1] = row THEN (CHOOSE m \in marks : m[1] = row)[2] ELSE status

\* The statuses a transaction has written are committed.
CommitMarks(marks) ==
  /\ cert' = [c \in Cert |-> [cert[c] EXCEPT !.status = Marked(c, @, marks)]]
  /\ proxy' = [p \in Proxy |-> Marked(p, proxy[p], marks)]

Rollback(w) ==
  /\ job[w].pc # "idle"
  /\ job' = [job EXCEPT ![w] = Idle]
  /\ UNCHANGED <<cert, proxy, guide, alerts, day>>

-----------------------------------------------------------------------------
(* upload_a1_certificate *)

\* UPDATE is_primary = FALSE on the primary certificate, if there is one; it waits
\* for the row.
UploadDemote(w, c) ==
  /\ job[w].pc = "idle" /\ cert[c] = NoCert
  /\ \A p \in Primary : Free(p, w) /\ ~Demoting(p, w)
  /\ job' = [job EXCEPT ![w] =
       [Idle EXCEPT !.pc = "demoted", !.on = c,
                    !.cert = IF Primary = {} THEN None ELSE CHOOSE p \in Primary : TRUE]]
  /\ UNCHANGED <<cert, proxy, guide, alerts, day>>

\* Mutant: the version of the one before.
Uploaded_SameVersion(w) ==
  LET c == job[w].on
      version == Max({cert[d].version : d \in Cert}) IN
  cert' = [d \in Cert |->
    IF d = c THEN [status |-> StatusForValidity(c), primary |-> TRUE, version |-> version]
    ELSE IF d = job[w].cert THEN [cert[d] EXCEPT !.primary = FALSE] ELSE cert[d]]

\* The new certificate takes the next version and the primary flag.
Uploaded(w) ==
  LET c == job[w].on
      version == 1 + Max({cert[d].version : d \in Cert}) IN
  cert' = [d \in Cert |->
    IF d = c THEN [status |-> StatusForValidity(c), primary |-> TRUE, version |-> version]
    ELSE IF d = job[w].cert THEN [cert[d] EXCEPT !.primary = FALSE] ELSE cert[d]]

\* Mutant: no unique index on the primary certificate of a CNPJ.
UploadInsert_NoIndex(w) ==
  /\ job[w].pc = "demoted" /\ cert[job[w].on] = NoCert
  /\ Uploaded(w)
  /\ job' = [job EXCEPT ![w] = Idle]
  /\ UNCHANGED <<proxy, guide, alerts, day>>

\* The row of the next version and the commit; uq_certificate_tenant_cnpj_primary
\* and the thumbprint refuse what another upload has taken (Rollback).
UploadInsert(w) ==
  /\ job[w].pc = "demoted" /\ cert[job[w].on] = NoCert
  /\ Primary \subseteq {job[w].cert}
  /\ Uploaded(w)
  /\ job' = [job EXCEPT ![w] = Idle]
  /\ UNCHANGED <<proxy, guide, alerts, day>>

-----------------------------------------------------------------------------
(* scan_expiring_certificates, and the Admin *)

\* The rows are read through a cursor and written one by one.
ScanRead(w) ==
  /\ job[w].pc = "idle"
  /\ job' = [job EXCEPT ![w] = [Idle EXCEPT !.pc = "scan",
       !.seen = {<<c, cert[c].status>> : c \in {d \in Cert : cert[d].status \notin {"absent", "revoked"}}}]]
  /\ UNCHANGED <<cert, proxy, guide, alerts, day>>

\* Mutant: only what is about to end is announced.
ScanCommit_ExpiringOnly(w) ==
  LET new == {<<s[1], Refreshed(s[1], s[2])>> : s \in job[w].seen}
      changed == new \ job[w].seen IN
  /\ job[w].pc = "scan"
  /\ \A m \in changed : Free(m[1], w) /\ ~Demoting(m[1], w)
  /\ CommitMarks(changed)
  /\ alerts' = alerts \cup {<<n[1], cert'[n[1]].status>> :
                              n \in {m \in new : cert'[m[1]].status = "expiring"}}
  /\ job' = [job EXCEPT ![w] = Idle]
  /\ UNCHANGED <<guide, day>>

\* Each status as the row read gives it, written if it changed and read back; an
\* alert for what is then near or past its end: at most Soon days are left in both.
ScanCommit(w) ==
  LET new == {<<s[1], Refreshed(s[1], s[2])>> : s \in job[w].seen}
      changed == new \ job[w].seen IN
  /\ job[w].pc = "scan"
  /\ \A m \in changed : Free(m[1], w) /\ ~Demoting(m[1], w)
  /\ CommitMarks(changed)
  /\ alerts' = alerts \cup {<<n[1], cert'[n[1]].status>> :
                              n \in {m \in new : cert'[m[1]].status \in Alert}}
  /\ job' = [job EXCEPT ![w] = Idle]
  /\ UNCHANGED <<guide, day>>

Current == {"pending", "active", "expiring"}

\* The request chooses the status; uq_electronic_proxy_active_pair.
CreateProxy(p) ==
  /\ proxy[p] = "absent"
  /\ \E status \in ProxyStatus :
       /\ status \in Current =>
            \A q \in Proxy : Pair[q] = Pair[p] => proxy[q] \notin Current
       /\ proxy' = [proxy EXCEPT ![p] = status]
  /\ UNCHANGED <<cert, guide, alerts, job, day>>

RevokeCert(c) ==
  /\ cert[c] # NoCert
  /\ \A w \in Worker : Free(c, w) /\ ~Demoting(c, w)
  /\ cert' = [cert EXCEPT ![c].status = "revoked"]
  /\ UNCHANGED <<proxy, guide, alerts, job, day>>

RevokeProxy(p) ==
  /\ proxy[p] # "absent" /\ \A w \in Worker : Free(p, w)
  /\ proxy' = [proxy EXCEPT ![p] = "revoked"]
  /\ UNCHANGED <<cert, guide, alerts, job, day>>

-----------------------------------------------------------------------------
(* emitir_guia, with SERPRO *)

\* What a transaction sees: its own writes and what is committed.
CertSeen(w, c) == Marked(c, cert[c].status, job[w].marks)

MarkIfNew(row, old, new) == IF old = new THEN {} ELSE {<<row, new>>}

\* A known key is answered with its guide.  Otherwise the primary certificate is
\* refreshed, its status written if it changed, and asked for.
EmitBegin(w, k) ==
  /\ job[w].pc = "idle" /\ guide[k] = NoGuide
  /\ \E c \in Primary :
       LET status == Refreshed(c, cert[c].status)
           marks == MarkIfNew(c, cert[c].status, status) IN
       /\ status \in Usable
       /\ marks # {} => Free(c, w) /\ ~Demoting(c, w)
       /\ job' = [job EXCEPT ![w] = [Idle EXCEPT !.pc = "proxy", !.on = k, !.marks = marks]]
  /\ UNCHANGED <<cert, proxy, guide, alerts, day>>

\* Mutant: a proxy that is entered as active counts before its first day.
Candidates_NotYet == {p \in Proxy : proxy[p] \in Usable /\ (To[p] = None \/ To[p] >= day)}

\* The query of get_usable_proxy.
Candidates ==
  {p \in Proxy : proxy[p] \in Usable /\ From[p] <= day /\ (To[p] = None \/ To[p] >= day)}

\* The latest candidate whose codes allow DAS; those before it are refreshed too.
UseProxy(w) ==
  /\ job[w].pc = "proxy"
  /\ \E p \in Candidates \cap HasCode :
       LET visited == {q \in Candidates : From[q] >= From[p]}
           marks == UNION {MarkIfNew(q, proxy[q], RefreshedProxy(q, proxy[q])) : q \in visited} IN
       /\ RefreshedProxy(p, proxy[p]) \in Usable
       /\ \A q \in Candidates \cap HasCode : From[q] <= From[p]
       /\ \A m \in marks : Free(m[1], w)
       /\ job' = [job EXCEPT ![w].pc = "load", ![w].proxy = p, ![w].checked = day,
                             ![w].marks = @ \cup marks]
  /\ UNCHANGED <<cert, proxy, guide, alerts, day>>

\* load_primary_pfx_material reads the primary certificate again.
LoadPfx(w) ==
  /\ job[w].pc = "load"
  /\ \E c \in Primary :
       LET status == Refreshed(c, CertSeen(w, c))
           marks == MarkIfNew(c, CertSeen(w, c), status) IN
       /\ status \in Usable
       /\ marks # {} => Free(c, w) /\ ~Demoting(c, w)
       /\ job' = [job EXCEPT ![w].pc = "post", ![w].cert = c, ![w].loaded = day,
                             ![w].marks = {m \in @ : m[1] # c \/ marks = {}} \cup marks]
  /\ UNCHANGED <<cert, proxy, guide, alerts, day>>

\* Tokens and the envelope; a 401 is tried once more with new tokens.
Post(w) ==
  /\ job[w].pc \in {"post", "repost"}
  /\ \/ job' = [job EXCEPT ![w].pc = "insert"]
     \/ job[w].pc = "post" /\ job' = [job EXCEPT ![w].pc = "repost"]
  /\ UNCHANGED <<cert, proxy, guide, alerts, day>>

\* The guide, its PDF and its message; both unique constraints refuse a second one.
Insert(w) ==
  LET k == job[w].on IN
  /\ job[w].pc = "insert" /\ guide[k] = NoGuide
  /\ \A j \in Key : Period[j] = Period[k] => guide[j] = NoGuide
  /\ guide' = [guide EXCEPT ![k] =
       [cert |-> job[w].cert, proxy |-> job[w].proxy,
        checked |-> job[w].checked, loaded |-> job[w].loaded]]
  /\ CommitMarks(job[w].marks)
  /\ job' = [job EXCEPT ![w] = Idle]
  /\ UNCHANGED <<alerts, day>>

NextDay ==
  /\ day < LastDay
  /\ day' = day + 1
  /\ UNCHANGED <<cert, proxy, guide, alerts, job>>

Next ==
  \/ \E w \in Worker, c \in Cert : UploadDemote(w, c)
  \/ \E w \in Worker, k \in Key : EmitBegin(w, k)
  \/ \E w \in Worker :
       \/ UploadInsert(w) \/ ScanRead(w) \/ ScanCommit(w)
       \/ UseProxy(w) \/ LoadPfx(w) \/ Post(w) \/ Insert(w) \/ Rollback(w)
  \/ \E p \in Proxy : CreateProxy(p) \/ RevokeProxy(p)
  \/ \E c \in Cert : RevokeCert(c)
  \/ NextDay

Spec == Init /\ [][Next]_vars

-----------------------------------------------------------------------------
(* Properties *)

\* "torna-se is_primary para o CNPJ": from the first upload on there is exactly one
\* primary certificate, the newest, though uploads run side by side and fail.
OnePrimary ==
  (\E c \in Cert : cert[c] # NoCert) =>
    /\ Cardinality(Primary) = 1
    /\ \A c \in Cert : cert[c] # NoCert => \E p \in Primary : cert[c].version <= cert[p].version
    /\ \A c, d \in Cert : c # d /\ cert[c] # NoCert => cert[c].version # cert[d].version

\* "Gate DAS": no guide was captured with a certificate that was past its end when
\* it was loaded, whatever the stored statuses said.
GuideUnderValidCertificate ==
  \A k \in Key : guide[k] # NoGuide => guide[k].loaded < NotAfter[guide[k].cert]

\* A guide rests on a proxy that allowed it on the day it was asked for, though the
\* proxy's stored status is whatever the request that entered it chose.
GuideUnderValidProxy ==
  \A k \in Key : guide[k] # NoGuide =>
    LET p == guide[k].proxy IN
    /\ p \in HasCode /\ From[p] <= guide[k].checked
    /\ To[p] # None => guide[k].checked <= To[p]

\* "atualiza status e emite outbox": no step that finds a certificate stored under
\* another status stores it as expired unless certificate.expired has been enqueued
\* for it, also over a revocation, and also where certificate.expiring was before.
\* A guide request that finds it expired takes its write back.  An upload of a file
\* that is past its end stores its row as expired at once, with no alert: the next
\* scan sends it.
ExpiredIsAlerted ==
  [][\A c \in Cert :
       cert[c].status \notin {"absent", "expired"} /\ cert'[c].status = "expired" =>
         <<c, "expired">> \in alerts']_vars
=============================================================================
