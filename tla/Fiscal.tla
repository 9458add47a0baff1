-------------------------------- MODULE Fiscal --------------------------------
(***************************************************************************)
(* The versioned lists that tax a note, and their use                       *)
(* (apps/fiscal/, apps/master_data/national_service_import.py):             *)
(*   - a tenant's catalogues of municipal rules: draft, published, superseded; *)
(*   - the RTC normative versions with their classification codes;          *)
(*   - the national list of services, from which a tenant's are copied.     *)
(* Publishing supersedes what is published, in one READ COMMITTED           *)
(* transaction: the UPDATE sees the rows of its snapshot, waits for their    *)
(* locks and takes those that are still published.  Only catalogues have a  *)
(* unique index behind it.  Issuing a note reads list after list meanwhile. *)
(***************************************************************************)
EXTENDS Integers, Sequences, FiniteSets

CONSTANTS
  Catalog, Rtc, National,  \* the lists of each kind
  Seed,        \* the RTC version of seed_minimal_rtc_pack
  Rule,        \* municipal rules of one profile, city and regime
  RtcCode,     \* the CST, class and indicator a note needs
  Items,       \* the national codes of each national list
  Hint,        \* the LC 116 item of a national code
  Service,     \* services as the tenant may have them
  StartDocs,   \* what the lists may hold at the start
  Day, Amount, \* competence dates and amounts in cents of notes
  LastTestDay, \* the last day of 2026
  TEST_CBS,    \* rates are in ten-thousandths
  Worker,
  MaxRequests, \* bound on what users do
  MODE, FALLBACK, ENFORCE, \* RTC_NFSEN_MODE, TAX_RULE_NATIONAL_FALLBACK,
                           \* RTC_ENFORCE_NATIONAL_CATALOG
  None

Doc == Catalog \cup Rtc \cup National
Kind(d) == CASE d \in Catalog -> Catalog [] d \in Rtc -> Rtc [] d \in National -> National
Status == {"absent", "draft", "published", "superseded"}
NatCode == UNION {Items[n] : n \in National}
Line(d) == CASE d \in Catalog -> Rule [] d \in Rtc -> RtcCode [] d \in National -> Items[d]

ASSUME FiscalAssumption ==
  /\ Seed \in Rtc /\ MODE \in {"off", "shadow", "emit"} /\ {FALLBACK, ENFORCE} \subseteq BOOLEAN
  /\ Amount \subseteq Nat \ {0} /\ Day \subseteq Nat /\ MaxRequests \in Nat
Rate == 0..10000
ASSUME RateAssumption ==
  /\ TEST_CBS \in Rate
  /\ \A r \in Rule : /\ r.from \in Nat /\ r.to \in Nat \cup {None} /\ r.priority \in Nat
                     /\ r.iss \in Rate /\ r.pis \in Rate /\ r.cofins \in Rate
\* They are rows of three tables.
ASSUME RowAssumption ==
  /\ IsFiniteSet(Catalog)
  /\ Catalog \cap Rtc = {} /\ Catalog \cap National = {} /\ Rtc \cap National = {}
\* What a list makes of a service is one the tenant may have.
ASSUME ServiceAssumption ==
  \A n \in NatCode :
    /\ [code |-> n, nacional |-> n, lc116 |-> Hint[n]] \in Service
    /\ \A s \in Service : n \in {s.code, s.nacional} =>
         [code |-> s.code, nacional |-> n, lc116 |-> Hint[n]] \in Service

VARIABLES
  doc,      \* status and lines of each list, of a catalogue its version and checklist
  published_at, \* of RTC versions and national lists
  now,      \* the clock: it ticks when a publication reads it
  services, \* the tenant's services
  note,
  job,
  left,     \* requests still to come
  beside    \* history: what was published since the UPDATE of a publication under way

dates == <<published_at, now, beside>>
vars == <<doc, published_at, now, services, note, job, left, beside>>

Absent == [status |-> "absent", lines |-> {}, version |-> 0, ready |-> FALSE]
NoNote == [status |-> "none", service |-> None, day |-> None, amount |-> None,
           rule |-> None, version |-> None, rtc |-> None, tax |-> None]
Idle == [pc |-> "idle", op |-> "none", doc |-> None, arg |-> None, hit |-> {}]

MaxVersion == Cardinality(Catalog)

DocRow(d) == [status : Status, lines : SUBSET Line(d), version : 0..MaxVersion, ready : BOOLEAN]

Shaped(docs) ==
  /\ docs = [d \in Doc |-> docs[d]]
  /\ \A d \in Doc : docs[d] \in DocRow(d) /\ (docs[d].status = "absent" => docs[d] = Absent)

\* Catalogues are numbered from one and never deleted; at most one is published.
Numbered(docs) ==
  LET made == {c \in Catalog : docs[c].status # "absent"} IN
  /\ \A c \in made : docs[c].version \in 1..Cardinality(made)
  /\ \A c, e \in made : docs[c].version = docs[e].version => c = e
  /\ \A c, e \in made : docs[c].status = "published" /\ docs[e].status = "published" => c = e

Dates(at, time) == at \in [Rtc \cup National -> 0..time] /\ time \in Nat

ASSUME StartAssumption ==
  \A s \in StartDocs : /\ Shaped(s.doc) /\ Numbered(s.doc) /\ Dates(s.published_at, s.now)
                       /\ s.services \subseteq Service

TypeOK ==
  /\ \A d \in Doc :
       /\ doc[d].status \in Status /\ doc[d].lines \subseteq Line(d)
       /\ doc[d].version \in 0..MaxVersion /\ doc[d].ready \in BOOLEAN
       /\ doc[d].status = "absent" <=> doc[d] = Absent
  /\ Dates(published_at, now)
  /\ services \subseteq Service
  /\ note.status \in {"none", "pending_tax", "rejected", "queued"}
  /\ note.status = "queued" =>
       /\ note.rule \in Rule /\ note.version \in 1..MaxVersion /\ note.rtc \in Rtc \cup {None}
       /\ note.tax \in [base : Nat, cbs : Nat, ibs : Nat] \cup {None}
  /\ \A w \in Worker : job[w].hit \subseteq Doc /\ beside[w] \subseteq Doc
  /\ left \in 0..MaxRequests

Init ==
  /\ \E s \in StartDocs : /\ doc = s.doc /\ published_at = s.published_at /\ now = s.now
                          /\ services = s.services
  /\ note = NoNote
  /\ job = [w \in Worker |-> Idle]
  /\ left = MaxRequests
  /\ beside = [w \in Worker |-> {}]

Published(D) == {d \in D : doc[d].status = "published"}

\* get_published_rtc_version, get_published_national_services: by published_at.
InForce(D) ==
  IF Published(D) = {} THEN None
  ELSE CHOOSE d \in Published(D) : \A e \in Published(D) : published_at[e] <= published_at[d]

Lines(d) == IF d = None THEN {} ELSE doc[d].lines

Start(w) == job[w] = Idle /\ left > 0 /\ left' = left - 1
Goto(w, pc) == job' = [job EXCEPT ![w].pc = pc]
Done(w) == job' = [job EXCEPT ![w] = Idle]

\* Rows that a transaction has updated and not committed.
Locked(w, d) == \E v \in Worker \ {w} : d \in job[v].hit

-----------------------------------------------------------------------------
(* A tenant's catalogues *)

Versions == {doc[c].version : c \in {c \in Catalog : doc[c].status # "absent"}}
NextVersion ==
  IF Versions = {} THEN 1 ELSE 1 + CHOOSE v \in Versions : \A u \in Versions : u <= v

CreateLoad(w) ==
  /\ Start(w) /\ \E c \in Catalog : doc[c] = Absent
  /\ job' = [job EXCEPT ![w] = [Idle EXCEPT !.pc = "insert", !.op = "create", !.arg = NextVersion]]
  /\ UNCHANGED <<doc, dates, services, note>>

\* IntegrityError where another request took the version.
CreateInsert(w) ==
  /\ job[w].op = "create"
  /\ IF job[w].arg \in Versions THEN UNCHANGED doc
     ELSE \E c \in Catalog :
            /\ doc[c] = Absent
            /\ doc' = [doc EXCEPT ![c] = [Absent EXCEPT !.status = "draft", !.version = job[w].arg]]
  /\ Done(w)
  /\ UNCHANGED <<dates, services, note, left>>

\* The draft is checked on the catalogue the request loaded.
EditLoad(w, c, op, arg) ==
  /\ Start(w) /\ doc[c].status = "draft"
  /\ job' = [job EXCEPT ![w] = [Idle EXCEPT !.pc = "edit", !.op = op, !.doc = c, !.arg = arg]]
  /\ UNCHANGED <<doc, dates, services, note>>

\* PATCH publish_checklist.  ready stands for all three ticks.
SaveChecklist(w) ==
  /\ job[w].op = "tick" /\ ~Locked(w, job[w].doc)
  /\ doc' = [doc EXCEPT ![job[w].doc].ready = job[w].arg]
  /\ Done(w)
  /\ UNCHANGED <<dates, services, note, left>>

\* add_rule: the insert has its natural key to fear, not the catalogue's status.
InsertRule(w) ==
  LET c == job[w].doc  r == job[w].arg IN
  /\ job[w].op = "rule"
  /\ doc' = IF \E s \in doc[c].lines : s.code = r.code /\ s.from = r.from THEN doc
            ELSE [doc EXCEPT ![c].lines = @ \cup {r}]
  /\ Done(w)
  /\ UNCHANGED <<dates, services, note, left>>

-----------------------------------------------------------------------------
(* Publishing *)

\* publish_catalog asks for a draft with a full checklist, of the object it got;
\* the other two publish whatever they are given.
PublishLoad(w, d) ==
  /\ Start(w) /\ doc[d].status # "absent"
  /\ d \in Catalog => doc[d].status = "draft" /\ doc[d].ready
  /\ job' = [job EXCEPT ![w] = [Idle EXCEPT !.pc = "update", !.op = "publish", !.doc = d]]
  /\ UNCHANGED <<doc, dates, services, note>>

\* import_national_service_xlsx: version and items are inserted and, if the form
\* says so, published in the same transaction.
Import(w, n, publish) ==
  /\ Start(w) /\ doc[n] = Absent /\ \A v \in Worker : job[v].doc # n
  /\ doc' = IF publish THEN doc
            ELSE [doc EXCEPT ![n] = [Absent EXCEPT !.status = "draft", !.lines = Items[n]]]
  /\ job' = IF ~publish THEN job ELSE [job EXCEPT ![w] = [Idle EXCEPT !.pc = "update", !.op = "import", !.doc = n]]
  /\ UNCHANGED <<dates, services, note>>

\* An RTC version typed in on the Admin's form.
CreateRtc(w, d, codes) ==
  /\ Start(w) /\ d # Seed /\ doc[d] = Absent
  /\ doc' = [doc EXCEPT ![d] = [Absent EXCEPT !.status = "draft", !.lines = codes]]
  /\ UNCHANGED <<dates, services, note, job>>

\* seed_minimal_rtc_pack, without a transaction of its own: the version, its codes,
\* and unless it is published its publication.
SeedCreate(w) ==
  /\ Start(w)
  /\ doc' = IF doc[Seed] = Absent THEN [doc EXCEPT ![Seed].status = "draft"] ELSE doc
  /\ job' = [job EXCEPT ![w] = [Idle EXCEPT !.pc = "codes", !.op = "seed", !.doc = Seed,
                                            !.arg = doc[Seed].status]]
  /\ UNCHANGED <<dates, services, note>>

SeedCodes(w) ==
  /\ job[w].pc = "codes"
  /\ doc' = [doc EXCEPT ![Seed].lines = RtcCode]
  /\ IF job[w].arg = "published" THEN Done(w) ELSE Goto(w, "update")
  /\ UNCHANGED <<dates, services, note, left>>

\* Mutant: only the one in force is superseded.
PublishUpdate_InForce(w) ==
  LET d == job[w].doc IN
  /\ job[w].pc = "update"
  /\ job' = [job EXCEPT ![w].pc = "lock",
                        ![w].arg = IF d \in Catalog THEN Published(Catalog)
                                   ELSE {InForce(Kind(d))} \ {d, None}]
  /\ UNCHANGED <<doc, dates, services, note, left>>

\* The UPDATE takes its snapshot of the published ones; all but catalogues leave
\* out the one to be published.
PublishUpdate(w) ==
  LET d == job[w].doc IN
  /\ job[w].pc = "update"
  /\ job' = [job EXCEPT ![w].pc = "lock",
                        ![w].arg = Published(Kind(d)) \ (IF d \in Catalog THEN {} ELSE {d})]
  /\ UNCHANGED <<doc, dates, services, note, left>>

\* It has waited for the locks, takes what is still published, and reads the clock.
PublishLock(w) ==
  /\ job[w].pc = "lock"
  /\ \A d \in job[w].arg : ~Locked(w, d)
  /\ job' = [job EXCEPT ![w].pc = "save", ![w].hit = Published(job[w].arg), ![w].arg = now + 1]
  /\ now' = now + 1
  /\ UNCHANGED <<doc, published_at, beside, services, note, left>>

\* What the commit of a publication leaves.
Committed(w) ==
  LET d == job[w].doc IN
  [e \in Doc |->
     IF e = d
     THEN [doc[d] EXCEPT !.status = "published", !.lines = IF d \in National THEN Items[d] ELSE @]
     ELSE IF e \in job[w].hit THEN [doc[e] EXCEPT !.status = "superseded"] ELSE doc[e]]

Superseded(w) ==
  [e \in Doc |-> IF e \in job[w].hit THEN [doc[e] EXCEPT !.status = "superseded"] ELSE doc[e]]

\* A catalogue was published that the UPDATE did not see.
Refused(w) ==
  job[w].doc \in Catalog /\ Published(Catalog) \ (job[w].hit \cup {job[w].doc}) # {}

\* Publications that are past their UPDATE take note of this one.
SideBySide(w) ==
  [v \in Worker |-> IF v = w \/ job[v].pc \notin {"lock", "save"} THEN {}
                    ELSE beside[v] \cup {job[w].doc}]

\* Mutant: no unique index on the published catalogue.
PublishSave_NoIndex(w) ==
  /\ job[w].pc = "save" /\ ~Locked(w, job[w].doc)
  /\ doc' = Committed(w)
  /\ published_at' = [d \in Rtc \cup National |-> IF d = job[w].doc THEN job[w].arg ELSE published_at[d]]
  /\ beside' = SideBySide(w)
  /\ Done(w)
  /\ UNCHANGED <<now, services, note, left>>

\* Mutant: the two statements are not one transaction, and the index refuses the second.
PublishSave_NotAtomic(w) ==
  /\ job[w].pc = "save" /\ ~Locked(w, job[w].doc)
  /\ \/ doc' = Superseded(w) /\ UNCHANGED dates
     \/ ~Refused(w) /\ doc' = Committed(w) /\ UNCHANGED now
        /\ published_at' = [d \in Rtc \cup National |->
                              IF d = job[w].doc THEN job[w].arg ELSE published_at[d]]
        /\ beside' = SideBySide(w)
  /\ Done(w)
  /\ UNCHANGED <<services, note, left>>

\* save() waits for the row, and commit.  Where Refused, the unique index raises and
\* all is rolled back.
PublishSave(w) ==
  /\ job[w].pc = "save" /\ ~Locked(w, job[w].doc)
  /\ doc' = IF Refused(w) THEN doc ELSE Committed(w)
  /\ published_at' = [d \in Rtc \cup National |-> IF d = job[w].doc THEN job[w].arg ELSE published_at[d]]
  /\ beside' = IF Refused(w) THEN [beside EXCEPT ![w] = {}] ELSE SideBySide(w)
  /\ Done(w)
  /\ UNCHANGED <<now, services, note, left>>

\* A deadlock victim, a broken connection, a worker that dies.
Abort(w) ==
  /\ job[w].pc \in {"insert", "edit", "codes", "update", "lock", "save"}
  /\ beside' = [beside EXCEPT ![w] = {}]
  /\ Done(w)
  /\ UNCHANGED <<doc, published_at, now, services, note, left>>

\* materialize_national_services_for_tenant: the codes of the list in force that no
\* service of the tenant has.  all: those it has are brought up to date.
Materialize(all) ==
  LET list == InForce(National)
      has(n) == {s \in services : s.code = n \/ s.nacional = n}
      kept == IF all THEN {s \in services : ~\E n \in Lines(list) : s \in has(n)} ELSE services
      new == IF all
             THEN {[code |-> p[1].code, nacional |-> p[2], lc116 |-> Hint[p[2]]] :
                      p \in {q \in services \X Lines(list) : q[1] \in has(q[2])}}
             ELSE {} IN
  /\ left > 0 /\ list # None /\ left' = left - 1
  /\ services' = kept \cup new \cup
       {[code |-> n, nacional |-> n, lc116 |-> Hint[n]] : n \in {n \in Lines(list) : has(n) = {}}}
  /\ UNCHANGED <<doc, dates, note, job>>

-----------------------------------------------------------------------------
(* Taxing a note *)

\* _service_code_candidates, in their order.
Candidates(s) ==
  <<s.code>> \o (IF s.nacional = None THEN <<>> ELSE <<s.nacional>>) \o <<s.lc116>> \o
  (IF s.nacional \in Lines(InForce(National)) THEN <<Hint[s.nacional]>> ELSE <<>>)

InTime(r, day) == r.from <= day /\ (r.to = None \/ r.to >= day)

\* order_by("priority", "-valid_from").first()
Best(R) ==
  {r \in R : \A s \in R : r.priority < s.priority \/ (r.priority = s.priority /\ r.from >= s.from)}

\* resolve_tax_rule_detailed on the rules of the catalogue that it read first: the
\* first code that has a rule, else any rule if the national list knows the service.
Resolved(c, s, day) ==
  LET base == {r \in doc[c].lines : InTime(r, day)}
      codes == Candidates(s)
      of(i) == {r \in base : r.code = codes[i]}
      hits == {i \in 1..Len(codes) : of(i) # {}}
      nacional == IF s.nacional = None THEN s.code ELSE s.nacional IN
  IF hits # {} THEN Best(of(CHOOSE i \in hits : \A j \in hits : i <= j))
  ELSE IF FALLBACK /\ nacional \in Lines(InForce(National)) THEN Best(base) ELSE {}

RoundHalfUp(n, d) == (2 * n + d) \div (2 * d)
Share(cents, rate) == RoundHalfUp(cents * rate, 10000)

\* Mutant: the base may fall below zero.
Assessed_Negative(r, day, amount) ==
  LET iss == Share(amount, r.iss)
      other == IF day <= LastTestDay THEN Share(amount, r.pis) + Share(amount, r.cofins) ELSE 0
      base == amount - iss - other
      uf == IF day <= LastTestDay THEN 10 ELSE 5
      mun == IF day <= LastTestDay THEN 0 ELSE 5 IN
  [base |-> base, cbs |-> Share(base, TEST_CBS), ibs |-> Share(base, uf) + Share(base, mun)]

\* compute_ibscbs_base, in cents; its subtraction stops at zero.
Assessed(r, day, amount) ==
  LET iss == Share(amount, r.iss)
      other == IF day <= LastTestDay THEN Share(amount, r.pis) + Share(amount, r.cofins) ELSE 0
      base == IF amount > iss + other THEN amount - iss - other ELSE 0
      uf == IF day <= LastTestDay THEN 10 ELSE 5
      mun == IF day <= LastTestDay THEN 0 ELSE 5 IN
  [base |-> base, cbs |-> Share(base, TEST_CBS), ibs |-> Share(base, uf) + Share(base, mun)]

\* assert_national_service_code
NationalOK(s) ==
  LET list == InForce(National) IN
  ~ENFORCE \/ list = None \/ (s.nacional # None /\ s.nacional \in doc[list].lines)

\* One note; requests with its idempotency_key wait for the insert and get the note.
\* The catalogue in force is read first.
EmitBegin(w, s, day, amount) ==
  /\ Start(w) /\ note = NoNote /\ \A v \in Worker : job[v].op # "emit" /\ s \in services
  /\ job' = [job EXCEPT ![w] = [Idle EXCEPT !.pc = "catalog", !.op = "emit",
                                  !.arg = [NoNote EXCEPT !.status = "pending_tax", !.service = s,
                                                         !.day = day, !.amount = amount]]]
  /\ UNCHANGED <<doc, dates, services, note>>

ReprocessBegin(w) ==
  /\ Start(w) /\ note.status = "rejected" /\ \A v \in Worker : job[v].op \notin {"emit", "again"}
  /\ job' = [job EXCEPT ![w] = [Idle EXCEPT !.pc = "catalog", !.op = "again", !.arg = note]]
  /\ UNCHANGED <<doc, dates, services, note>>

Reject(w) ==
  /\ note' = [job[w].arg EXCEPT !.status = "rejected"]
  /\ Done(w)

ReadCatalog(w) ==
  /\ job[w].pc = "catalog"
  /\ \/ Published(Catalog) = {} /\ Reject(w)
     \/ \E c \in Published(Catalog) :
          /\ job' = [job EXCEPT ![w].pc = "rule", ![w].doc = c]
          /\ UNCHANGED note
  /\ UNCHANGED <<doc, dates, services, left>>

\* Mutant: the version is that of the catalogue published by now.
VersionOf_Published(c) ==
  IF Published(Catalog) = {} THEN doc[c].version
  ELSE doc[CHOOSE e \in Published(Catalog) : TRUE].version

\* The version that goes into the snapshot is read by the rule's catalog_id.
VersionOf(c) == doc[c].version

\* A reprocessed note is queued with no look at the RTC and the national list.
ReadRule(w) ==
  LET c == job[w].doc
      n == job[w].arg
      found == Resolved(c, n.service, n.day) IN
  /\ job[w].pc = "rule"
  /\ \/ found = {} /\ Reject(w)
     \/ \E r \in found :
          LET m == [n EXCEPT !.rule = r, !.version = VersionOf(c), !.rtc = None, !.tax = None] IN
          IF job[w].op = "again"
          THEN note' = [m EXCEPT !.status = "queued"] /\ Done(w)
          ELSE job' = [job EXCEPT ![w].pc = "rtc", ![w].arg = m] /\ UNCHANGED note
  /\ UNCHANGED <<doc, dates, services, left>>

\* resolve_rtc_classification: a code missing from the published version.
Unclassified(v) == v # None /\ ~(RtcCode \subseteq doc[v].lines)

\* build_rtc_emission_context and the emit-mode check of create_nf_issue.
ReadRtc(w) ==
  LET n == job[w].arg
      v == InForce(Rtc)
      refused == \/ ~NationalOK(n.service)
                 \/ MODE # "off" /\ Unclassified(v)
                 \/ MODE = "emit" /\ v = None IN
  /\ job[w].pc = "rtc"
  /\ \/ refused /\ Reject(w)
     \/ /\ ~refused
        /\ note' = [n EXCEPT !.status = "queued",
                      !.rtc = IF MODE = "off" THEN None ELSE v,
                      !.tax = IF MODE = "off" THEN None ELSE Assessed(n.rule, n.day, n.amount)]
        /\ Done(w)
  /\ UNCHANGED <<doc, dates, services, left>>

\* The transaction of a note is rolled back as a whole.
EmitAborts(w) ==
  /\ job[w].pc \in {"catalog", "rule", "rtc"}
  /\ Done(w)
  /\ UNCHANGED <<doc, dates, services, note, left>>

Next ==
  \/ \E w \in Worker :
       \/ CreateLoad(w) \/ CreateInsert(w)
       \/ \E c \in Catalog : \E ready \in BOOLEAN : EditLoad(w, c, "tick", ready)
       \/ \E c \in Catalog, r \in Rule : EditLoad(w, c, "rule", r)
       \/ SaveChecklist(w) \/ InsertRule(w)
       \/ \E d \in Doc : PublishLoad(w, d)
       \/ \E n \in National, publish \in BOOLEAN : Import(w, n, publish)
       \/ \E d \in Rtc : \E codes \in SUBSET RtcCode : CreateRtc(w, d, codes)
       \/ SeedCreate(w) \/ SeedCodes(w)
       \/ PublishUpdate(w) \/ PublishLock(w) \/ PublishSave(w) \/ Abort(w)
       \/ \E s \in Service, day \in Day, amount \in Amount : EmitBegin(w, s, day, amount)
       \/ ReprocessBegin(w) \/ ReadCatalog(w) \/ ReadRule(w) \/ ReadRtc(w) \/ EmitAborts(w)
  \/ \E all \in BOOLEAN : Materialize(all)

Spec == Init /\ [][Next]_vars

-----------------------------------------------------------------------------
(* Properties *)

\* A tenant never has two published catalogues, however publications overlap: the
\* rule of a note does not depend on which row a query returns first.
OnePublished == Cardinality(Published(Catalog)) <= 1

\* A publication supersedes every one that was over when it began, also where two
\* side by side have left both their lists published: when it commits, what is
\* published of its kind, and so what queries take to be in force, is its own list
\* or one that another published since its UPDATE.
OlderAreSuperseded ==
  [][\A w \in Worker, d \in Doc :
       job[w].pc = "save" /\ job[w].doc = d /\ job'[w] = Idle /\ doc' = Committed(w) =>
         Published(Kind(d))' \subseteq {d} \cup beside[w]]_vars

\* Once a list of a kind is published there is always one: emission never meets the
\* moment between the old and the new, nor does a failed publication leave a hole.
NeverWithdrawn ==
  [][\A D \in {Catalog, Rtc, National} : Published(D) # {} => Published(D)' # {}]_vars

\* The snapshot of a queued note still explains it: its version names one catalogue,
\* and that catalogue has the rule, whatever was created, edited and published since;
\* what is due of the new taxes fits into their base, down to single cents.
NoteIsExplained ==
  note.status = "queued" =>
    /\ Cardinality({c \in Catalog : doc[c].status # "absent" /\ doc[c].version = note.version}) = 1
    /\ \E c \in Catalog :
         /\ doc[c].version = note.version /\ note.rule \in doc[c].lines
         /\ InTime(note.rule, note.day)
    /\ note.tax # None => note.tax.cbs + note.tax.ibs <= note.tax.base

\* "Um catálogo só pode ser editado enquanto status=draft": what has been published
\* keeps its rules.
CatalogIsFrozen ==
  [][\A c \in Catalog : doc[c].status \in {"published", "superseded"} =>
       doc'[c].lines = doc[c].lines]_vars
=============================================================================
