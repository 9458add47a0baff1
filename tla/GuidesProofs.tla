----------------------------- MODULE GuidesProofs -----------------------------
(***************************************************************************)
(* Proofs about Guides, for any certificates, proxies, keys, requests and  *)
(* days: one primary certificate, each guide under a certificate and a     *)
(* proxy that were valid, no stored expiry without its alert.              *)
(***************************************************************************)
EXTENDS Guides, FiniteSetTheorems, TLAPS

-----------------------------------------------------------------------------
(* The inductive invariant *)

Uploads == {c \in Cert : cert[c] # NoCert}

\* The version of the primary certificate is the highest, and no more than there
\* are certificates: uploads number them without a gap.
CertsOK ==
  /\ cert \in [Cert -> CertRow \cup {NoCert}]
  /\ \A c \in Uploads : cert[c].version <= Cardinality(Uploads)
  /\ \A c, d \in Uploads : c # d => cert[c].version # cert[d].version
  /\ Uploads # {} =>
       \E p \in Uploads :
         Primary = {p} /\ \A c \in Uploads : cert[c].version <= cert[p].version

\* The mandates of a guide on the days it asked for them.
ValidProxy(p, d) ==
  p \in Proxy /\ p \in HasCode /\ From[p] <= d /\ (To[p] # None => d <= To[p])
ValidCert(c, d) == c \in Cert /\ d < NotAfter[c]

GuideRow == [cert : Cert, proxy : Proxy, checked : 0..LastDay, loaded : 0..LastDay]
GuideOK(g) ==
  g # NoGuide => g \in GuideRow /\ ValidProxy(g.proxy, g.checked) /\ ValidCert(g.cert, g.loaded)

GuidesOK ==
  /\ guide \in [Key -> GuideRow \cup {NoGuide}]
  /\ \A k \in Key : GuideOK(guide[k])

RowsOK ==
  /\ proxy \in [Proxy -> ProxyStatus \cup {"absent"}]
  /\ alerts \subseteq Cert \X Alert /\ day \in 0..LastDay

Job == [pc : PC, on : Cert \cup Key \cup {None}, cert : Cert \cup {None},
        proxy : Proxy \cup {None}, checked : 0..LastDay, loaded : 0..LastDay,
        marks : SUBSET Mark, seen : SUBSET (Cert \X CertStatus)]

\* Program points of emitir_guia after the proxy, and after the PFX, is found.
HasProxy == {"load", "post", "repost", "insert"}
HasPfx == {"post", "repost", "insert"}

\* What a request remembers.  A request for a guide writes a certificate's status
\* only when it can be used; nobody marks or reads a certificate that is not there.
Remembered(j, uploads) ==
  /\ j.pc = "demoted" => j.on \in Cert
  /\ j.pc \in HasProxy \cup {"proxy"} => j.on \in Key
  /\ j.pc \in HasProxy => ValidProxy(j.proxy, j.checked)
  /\ j.pc \in HasPfx => ValidCert(j.cert, j.loaded)
  /\ j.marks \subseteq (uploads \X Usable) \cup (Proxy \X ProxyStatus)
  /\ j.seen \subseteq uploads \X CertStatus

JobsOK ==
  /\ job \in [Worker -> Job]
  /\ \A w \in Worker : Remembered(job[w], Uploads)

IInv == CertsOK /\ GuidesOK /\ RowsOK /\ JobsOK

-----------------------------------------------------------------------------
(* Lemmas on the operators *)

LEMMA RowTypes == NoCert \notin CertRow /\ NoGuide \notin GuideRow
<1>1. NoCert.status \notin CertStatus
  BY DEF NoCert, CertStatus
<1>2. NoGuide.cert \notin Cert
  BY NoneAssumption DEF NoGuide
<1>. QED
  BY <1>1, <1>2 DEF CertRow, GuideRow

LEMMA AbsentIsNotPrimary == [NoCert EXCEPT !.primary = FALSE] = NoCert
<1>1. ASSUME NEW r \in [status : {"absent"}, primary : {FALSE}, version : {0}]
      PROVE  [r EXCEPT !.primary = FALSE] = r
  OBVIOUS
<1>2. NoCert \in [status : {"absent"}, primary : {FALSE}, version : {0}]
  BY DEF NoCert
<1>. QED
  BY <1>1, <1>2

LEMMA PrimaryIsUploaded == ASSUME CertsOK PROVE Primary \subseteq Uploads
BY DEF CertsOK, Primary, Uploads, NoCert

\* A row of a certificate that is there has the fields of CertRow.
LEMMA UploadedRow ==
  ASSUME CertsOK, NEW c \in Uploads
  PROVE  /\ c \in Cert /\ cert[c] \in CertRow
         /\ cert[c].status \in CertStatus /\ cert[c].primary \in BOOLEAN
         /\ cert[c].version \in Nat /\ cert[c].version \in 1..Cardinality(Cert)
<1>1. c \in Cert /\ cert[c] \in CertRow
  BY DEF CertsOK, Uploads
<1>2. Cardinality(Cert) \in Nat
  BY RowAssumption, FS_CardinalityType
<1>. QED
  BY <1>1, <1>2 DEF CertRow

LEMMA RefreshedStatus ==
  ASSUME day \in Nat, NEW c \in Cert, NEW status \in CertStatus
  PROVE  /\ Refreshed(c, status) \in CertStatus
         /\ Refreshed(c, status) \in Usable => day < NotAfter[c]
<1>1. NotAfter[c] \in Int /\ Soon \in Nat
  BY DayAssumption
<1>. QED
  BY <1>1 DEF Refreshed, StatusForValidity, CertStatus, Usable

LEMMA RefreshedProxyStatus ==
  ASSUME NEW p \in Proxy, NEW status \in ProxyStatus
  PROVE  RefreshedProxy(p, status) \in ProxyStatus
BY DEF RefreshedProxy, ProxyStatus

\* A row is committed with its own mark, or as it was.
LEMMA MarkedStatus ==
  ASSUME NEW row, NEW status, NEW marks
  PROVE  \/ Marked(row, status, marks) = status /\ ~\E m \in marks : m[1] = row
         \/ \E m \in marks : m[1] = row /\ Marked(row, status, marks) = m[2]
<1>1. CASE \E m \in marks : m[1] = row
  <2>. DEFINE m == CHOOSE m \in marks : m[1] = row
  <2>1. m \in marks /\ m[1] = row
    BY <1>1
  <2>2. Marked(row, status, marks) = m[2]
    BY <1>1 DEF Marked
  <2>. QED
    BY <2>1, <2>2
<1>2. CASE ~\E m \in marks : m[1] = row
  BY <1>2 DEF Marked
<1>. QED
  BY <1>1, <1>2

\* The mark of a certificate, and of a proxy: they are rows of two tables.
LEMMA MarkedCert ==
  ASSUME NEW marks \in SUBSET Mark, NEW c \in Cert, NEW status
  PROVE  \/ Marked(c, status, marks) = status
         \/ /\ Marked(c, status, marks) \in CertStatus
            /\ <<c, Marked(c, status, marks)>> \in marks
<1>1. SUFFICES ASSUME NEW m \in marks, m[1] = c, Marked(c, status, marks) = m[2]
               PROVE  m[2] \in CertStatus /\ <<c, m[2]>> \in marks
  BY MarkedStatus
<1>2. m \in Cert \X CertStatus
  BY <1>1, RowAssumption DEF Mark
<1>. QED
  BY <1>1, <1>2

LEMMA MarkedProxy ==
  ASSUME NEW marks \in SUBSET Mark, NEW p \in Proxy, NEW status
  PROVE  Marked(p, status, marks) = status \/ Marked(p, status, marks) \in ProxyStatus
<1>1. SUFFICES ASSUME NEW m \in marks, m[1] = p, Marked(p, status, marks) = m[2]
               PROVE  m[2] \in ProxyStatus
  BY MarkedStatus
<1>2. m \in Proxy \X ProxyStatus
  BY <1>1, RowAssumption DEF Mark
<1>. QED
  BY <1>1, <1>2

-----------------------------------------------------------------------------
(* Lemmas on single writes *)

\* A write that leaves the uploads, their versions and the flag alone.
LEMMA CertsStay ==
  ASSUME CertsOK, cert' \in [Cert -> CertRow \cup {NoCert}],
         \A c \in Cert : /\ cert'[c] = NoCert <=> cert[c] = NoCert
                         /\ cert'[c].version = cert[c].version
                         /\ cert'[c].primary = cert[c].primary
  PROVE  CertsOK' /\ Uploads' = Uploads /\ Primary' = Primary
<1>1. Uploads' = Uploads
  BY DEF Uploads
<1>2. Primary' = Primary
  BY DEF Primary
<1>3. \A c \in Uploads : c \in Cert
  BY DEF Uploads
<1>. QED
  BY <1>1, <1>2, <1>3 DEF CertsOK

\* What a transaction commits: only statuses change.
LEMMA Committed ==
  ASSUME CertsOK, RowsOK, NEW marks \in SUBSET Mark,
         marks \subseteq (Uploads \X CertStatus) \cup (Proxy \X ProxyStatus),
         CommitMarks(marks)
  PROVE  /\ CertsOK' /\ Uploads' = Uploads
         /\ proxy' \in [Proxy -> ProxyStatus \cup {"absent"}]
         /\ \A c \in Cert : cert'[c].status = Marked(c, cert[c].status, marks)
<1>1. cert' = [c \in Cert |-> [cert[c] EXCEPT !.status = Marked(c, @, marks)]]
  BY DEF CommitMarks
<1>2. ASSUME NEW c \in Cert
      PROVE  /\ cert'[c] \in CertRow \cup {NoCert}
             /\ cert'[c] = NoCert <=> cert[c] = NoCert
             /\ cert'[c].version = cert[c].version /\ cert'[c].primary = cert[c].primary
             /\ cert'[c].status = Marked(c, cert[c].status, marks)
  <2>. DEFINE status == Marked(c, cert[c].status, marks)
  <2>1. cert'[c] = [cert[c] EXCEPT !.status = status]
    BY <1>1
  <2>2. status = cert[c].status \/ (c \in Uploads /\ status \in CertStatus)
    <3>1. status = cert[c].status \/ (status \in CertStatus /\ <<c, status>> \in marks)
      BY MarkedCert
    <3>2. <<c, status>> \in marks => c \in Uploads
      BY RowAssumption
    <3>. QED
      BY <3>1, <3>2
  <2>. HIDE DEF status
  <2>3. CASE c \in Uploads
    <3>1. cert[c] \in CertRow /\ cert[c].status \in CertStatus
      BY <2>3, UploadedRow
    <3>2. status \in CertStatus
      BY <2>2, <3>1
    <3>3. cert'[c] \in CertRow /\ cert'[c].status = status
           /\ cert'[c].version = cert[c].version /\ cert'[c].primary = cert[c].primary
      BY <2>1, <3>1, <3>2 DEF CertRow
    <3>. QED
      BY <2>3, <3>3, RowTypes DEF Uploads, status
  <2>4. CASE c \notin Uploads
    <3>1. cert[c] = NoCert
      BY <2>4 DEF Uploads
    <3>2. status = "absent"
      BY <2>2, <2>4, <3>1 DEF NoCert
    <3>3. cert'[c] = NoCert
      BY <2>1, <3>1, <3>2 DEF NoCert
    <3>. QED
      BY <3>1, <3>2, <3>3 DEF NoCert, status
  <2>. QED
    BY <2>3, <2>4
<1>3. CertsOK' /\ Uploads' = Uploads
  <2>1. cert' \in [Cert -> CertRow \cup {NoCert}]
    BY <1>1, <1>2
  <2>. QED
    BY <2>1, <1>2, CertsStay
<1>4. proxy' \in [Proxy -> ProxyStatus \cup {"absent"}]
  <2>1. proxy' = [p \in Proxy |-> Marked(p, proxy[p], marks)]
    BY DEF CommitMarks
  <2>2. \A p \in Proxy : Marked(p, proxy[p], marks) \in ProxyStatus \cup {"absent"}
    BY MarkedProxy DEF RowsOK
  <2>. QED
    BY <2>1, <2>2
<1>. QED
  BY <1>2, <1>3, <1>4

\* A worker writes down what it is doing; certificates are only added.
LEMMA JobWrite ==
  ASSUME JobsOK, Uploads \subseteq Uploads', NEW w \in Worker, NEW j \in Job,
         Remembered(j, Uploads), job' = [job EXCEPT ![w] = j]
  PROVE  JobsOK'
<1>1. job' \in [Worker -> Job]
  BY DEF JobsOK
<1>2. \A v \in Worker : job'[v] = j \/ job'[v] = job[v]
  BY DEF JobsOK
<1>3. \A v \in Worker : Remembered(job'[v], Uploads)
  BY <1>2 DEF JobsOK
<1>4. ASSUME NEW k, Remembered(k, Uploads)
      PROVE  Remembered(k, Uploads')
  BY <1>4 DEF Remembered
<1>. QED
  BY <1>1, <1>3, <1>4 DEF JobsOK

LEMMA JobsStay ==
  ASSUME JobsOK, Uploads \subseteq Uploads', job' = job
  PROVE  JobsOK'
<1>1. ASSUME NEW k, Remembered(k, Uploads)
      PROVE  Remembered(k, Uploads')
  BY <1>1 DEF Remembered
<1>. QED
  BY <1>1 DEF JobsOK

LEMMA IdleJob == ASSUME RowsOK PROVE Idle \in Job /\ Remembered(Idle, Uploads)
<1>1. 0 \in 0..LastDay
  BY DayAssumption
<1>. QED
  BY <1>1 DEF Idle, Job, PC, Remembered, HasProxy, HasPfx

LEMMA OneJob ==
  ASSUME JobsOK, NEW w \in Worker
  PROVE  job[w] \in Job /\ Remembered(job[w], Uploads)
BY DEF JobsOK

LEMMA SameGuides == ASSUME GuidesOK, guide' = guide PROVE GuidesOK'
BY DEF GuidesOK

LEMMA SameCerts == ASSUME CertsOK, cert' = cert PROVE CertsOK' /\ Uploads' = Uploads
BY DEF CertsOK, Uploads, Primary

-----------------------------------------------------------------------------
(* The actions *)

LEMMA Begins == Init => IInv
<1>. SUFFICES ASSUME Init PROVE IInv
  OBVIOUS
<1>1. 0 \in 0..LastDay
  BY DayAssumption
<1>2. Uploads = {} /\ CertsOK
  BY DEF Init, Uploads, CertsOK
<1>3. GuidesOK
  BY DEF Init, GuidesOK, GuideOK
<1>4. RowsOK
  BY <1>1 DEF Init, RowsOK
<1>5. JobsOK
  BY <1>4, IdleJob DEF Init, JobsOK
<1>. QED
  BY <1>2, <1>3, <1>4, <1>5 DEF IInv

LEMMA KeepUploadDemote ==
  ASSUME IInv, NEW w \in Worker, NEW c \in Cert, UploadDemote(w, c)
  PROVE  IInv'
<1>. DEFINE old == IF Primary = {} THEN None ELSE CHOOSE p \in Primary : TRUE
            j == [Idle EXCEPT !.pc = "demoted", !.on = c, !.cert = old]
<1>1. old \in Cert \cup {None}
  BY DEF Primary
<1>2. job' = [job EXCEPT ![w] = j]
  BY DEF UploadDemote
<1>. HIDE DEF old
<1>3. j \in Job /\ Remembered(j, Uploads)
  <2>1. "demoted" \in PC /\ Idle \in Job /\ Idle.marks = {} /\ Idle.seen = {}
    BY IdleJob DEF IInv, PC, Idle
  <2>2. /\ j \in Job /\ j.pc = "demoted" /\ j.on = c
        /\ j.marks = {} /\ j.seen = {}
    BY <1>1, <2>1 DEF Job
  <2>. QED
    BY <2>2 DEF Remembered, HasProxy, HasPfx
<1>. HIDE DEF j
<1>4. cert' = cert /\ guide' = guide /\ UNCHANGED <<proxy, alerts, day>>
  BY DEF UploadDemote
<1>5. CertsOK' /\ Uploads' = Uploads
  BY <1>4, SameCerts DEF IInv
<1>. QED
  BY <1>2, <1>3, <1>4, <1>5, JobWrite, SameGuides DEF IInv, RowsOK

\* The versions so far, and the highest of them: no more than there are uploads.
LEMMA HighestVersion ==
  ASSUME CertsOK, Cert # {}
  PROVE  LET top == Max({cert[d].version : d \in Cert}) IN
         /\ top \in Nat /\ top <= Cardinality(Uploads)
         /\ \A d \in Uploads : cert[d].version <= top
<1>. DEFINE V == {cert[d].version : d \in Cert}
<1>1. \A d \in Cert : cert[d].version \in Nat /\ (d \notin Uploads => cert[d].version = 0)
  BY UploadedRow DEF Uploads, NoCert
<1>2. IsFiniteSet(Uploads) /\ Cardinality(Uploads) \in Nat
  <2>1. Uploads \subseteq Cert
    BY DEF Uploads
  <2>. QED
    BY <2>1, RowAssumption, FS_Subset, FS_CardinalityType
<1>3. PICK t \in V : /\ \A v \in V : t >= v
                     /\ t <= Cardinality(Uploads)
  <2>1. CASE Uploads = {}
    <3>1. PICK d \in Cert : TRUE
      OBVIOUS
    <3>2. \A e \in Cert : cert[e].version = 0
      BY <1>1, <2>1
    <3>3. V = {0}
      BY <3>1, <3>2
    <3>. QED
      BY <3>3, <1>2
  <2>2. CASE Uploads # {}
    <3>1. PICK p \in Uploads : \A c \in Uploads : cert[c].version <= cert[p].version
      BY <2>2 DEF CertsOK
    <3>2. p \in Cert /\ cert[p].version <= Cardinality(Uploads)
      BY UploadedRow DEF CertsOK
    <3>3. \A d \in Cert : cert[p].version >= cert[d].version
      BY <1>1, <3>1, <3>2
    <3>4. cert[p].version \in V /\ \A v \in V : cert[p].version >= v
      BY <3>2, <3>3
    <3>. QED
      BY <3>2, <3>4
  <2>. QED
    BY <2>1, <2>2
<1>4. \A v \in V : v \in Nat
  BY <1>1
<1>5. Max(V) = t
  <2>1. Max(V) \in V /\ \A v \in V : Max(V) >= v
    BY <1>3 DEF Max
  <2>. HIDE DEF V
  <2>. QED
    BY <2>1, <1>3, <1>4
<1>6. \A d \in Uploads : cert[d].version <= t
  <2>1. \A d \in Uploads : cert[d].version \in V
    BY DEF Uploads
  <2>. QED
    BY <2>1, <1>3, <1>4
<1>. QED
  BY <1>3, <1>4, <1>5, <1>6

\* The new primary certificate, one version above those before it.
LEMMA KeepUploadInsert ==
  ASSUME IInv, NEW w \in Worker, UploadInsert(w)
  PROVE  IInv'
<1>. DEFINE c == job[w].on
            top == Max({cert[d].version : d \in Cert})
            new == [status |-> StatusForValidity(c), primary |-> TRUE, version |-> 1 + top]
<1>1. c \in Cert /\ cert[c] = NoCert
  BY OneJob DEF IInv, UploadInsert, Remembered
<1>2. CertsOK /\ top \in Nat /\ top <= Cardinality(Uploads)
      /\ \A d \in Uploads : cert[d].version <= top
  BY <1>1, HighestVersion DEF IInv
<1>3. cert' = [d \in Cert |->
        IF d = c THEN new
        ELSE IF d = job[w].cert THEN [cert[d] EXCEPT !.primary = FALSE] ELSE cert[d]]
  BY DEF UploadInsert, Uploaded
<1>4. Primary \subseteq {job[w].cert}
  BY DEF UploadInsert
<1>5. StatusForValidity(c) \in CertStatus
  BY DEF StatusForValidity, CertStatus
<1>. HIDE DEF top
<1>6. new.primary = TRUE /\ new.version = 1 + top /\ new.status \in CertStatus
  BY <1>5
<1>7. ASSUME NEW d \in Cert, d # c
      PROVE  /\ cert'[d] \in CertRow \cup {NoCert}
             /\ cert'[d] = NoCert <=> cert[d] = NoCert
             /\ cert'[d].version = cert[d].version /\ cert'[d].primary = FALSE
  <2>1. cert'[d] = [cert[d] EXCEPT !.primary = FALSE]
        \/ (cert'[d] = cert[d] /\ d # job[w].cert)
    BY <1>3, <1>7
  <2>2. CASE d \in Uploads
    <3>1. cert[d] \in CertRow
      BY <2>2, UploadedRow, <1>2
    <3>2. d # job[w].cert => cert[d].primary = FALSE
      BY <1>4, <3>1 DEF Primary, CertRow
    <3>3. cert'[d] \in CertRow /\ cert'[d].version = cert[d].version /\ cert'[d].primary = FALSE
      BY <2>1, <3>1, <3>2 DEF CertRow
    <3>. QED
      BY <2>2, <3>3, RowTypes DEF Uploads
  <2>3. CASE d \notin Uploads
    <3>1. cert[d] = NoCert
      BY <2>3 DEF Uploads
    <3>2. [NoCert EXCEPT !.primary = FALSE] = NoCert
      BY AbsentIsNotPrimary
    <3>3. [cert[d] EXCEPT !.primary = FALSE] = NoCert
      BY <3>1, <3>2
    <3>4. cert'[d] = NoCert
      BY <2>1, <3>1, <3>3
    <3>. QED
      BY <3>1, <3>4 DEF NoCert
  <2>. QED
    BY <2>2, <2>3
<1>8. cert'[c] = new
  BY <1>1, <1>3
<1>9. /\ IsFiniteSet(Uploads) /\ Cardinality(Uploads \cup {c}) = Cardinality(Uploads) + 1
      /\ Cardinality(Uploads) \in Nat /\ Cardinality(Cert) \in Nat
      /\ Cardinality(Uploads \cup {c}) <= Cardinality(Cert)
  <2>1. Uploads \subseteq Cert /\ c \notin Uploads
    BY <1>1 DEF Uploads
  <2>2. Uploads \cup {c} \subseteq Cert
    BY <1>1, <2>1
  <2>. QED
    BY <2>1, <2>2, RowAssumption, FS_Subset, FS_CardinalityType, FS_AddElement
<1>10. new \in CertRow
  BY <1>2, <1>5, <1>9 DEF CertRow
<1>. HIDE DEF new
<1>11. Uploads' = Uploads \cup {c}
  <2>1. cert'[c] # NoCert
    BY <1>8, <1>10, RowTypes
  <2>2. \A d \in Cert : d # c => (cert'[d] = NoCert <=> cert[d] = NoCert)
    BY <1>7
  <2>. QED
    BY <1>1, <2>1, <2>2 DEF Uploads
<1>12. Primary' = {c}
  BY <1>1, <1>6, <1>7, <1>8 DEF Primary
<1>13. c \notin Uploads /\ \A d \in Uploads : /\ d \in Cert /\ d # c
                                              /\ cert'[d].version = cert[d].version
                                              /\ cert[d].version \in Nat
  BY <1>1, <1>2, <1>7, UploadedRow DEF Uploads
<1>14. CertsOK'
  <2>1. cert' \in [Cert -> CertRow \cup {NoCert}]
    <3>1. \A d \in Cert : cert'[d] \in CertRow \cup {NoCert}
      BY <1>7, <1>8, <1>10
    <3>. QED
      BY <1>3, <3>1
  <2>2. \A d \in Uploads \cup {c} : cert'[d].version <= 1 + top
    BY <1>2, <1>6, <1>8, <1>13
  <2>3. \A d \in Uploads \cup {c} : cert'[d].version <= Cardinality(Uploads) + 1
    BY <1>2, <1>6, <1>8, <1>9, <1>13
  <2>4. \A d, e \in Uploads \cup {c} : d # e => cert'[d].version # cert'[e].version
    <3>1. \A d, e \in Uploads : d # e => cert[d].version # cert[e].version
      BY <1>2 DEF CertsOK
    <3>2. \A d \in Uploads : cert'[d].version # cert'[c].version
      BY <1>2, <1>6, <1>8, <1>13
    <3>. QED
      BY <3>1, <3>2, <1>13
  <2>5. cert'[c].version = 1 + top
    BY <1>6, <1>8
  <2>. QED
    BY <2>1, <2>2, <2>3, <2>4, <2>5, <1>9, <1>11, <1>12 DEF CertsOK
<1>15. job' = [job EXCEPT ![w] = Idle] /\ guide' = guide /\ UNCHANGED <<proxy, alerts, day>>
  BY DEF UploadInsert
<1>16. JobsOK'
  <2>1. Idle \in Job /\ Remembered(Idle, Uploads)
    BY IdleJob DEF IInv
  <2>2. JobsOK /\ Uploads \subseteq Uploads'
    BY <1>11 DEF IInv
  <2>. QED
    BY <1>15, <2>1, <2>2, JobWrite
<1>. QED
  BY <1>14, <1>15, <1>16, SameGuides DEF IInv, RowsOK

LEMMA KeepScanRead ==
  ASSUME IInv, NEW w \in Worker, ScanRead(w)
  PROVE  IInv'
<1>. DEFINE live == {<<c, cert[c].status>> : c \in {d \in Cert : cert[d].status \notin {"absent", "revoked"}}}
            j == [Idle EXCEPT !.pc = "scan", !.seen = live]
<1>1. live \subseteq Uploads \X CertStatus
  <2>1. \A c \in Cert : cert[c].status # "absent" => c \in Uploads
    BY DEF Uploads, NoCert
  <2>. QED
    BY <2>1, UploadedRow DEF IInv
<1>2. job' = [job EXCEPT ![w] = j]
  BY DEF ScanRead
<1>. HIDE DEF live
<1>3. j \in Job /\ Remembered(j, Uploads)
  <2>1. "scan" \in PC /\ Idle \in Job /\ Idle.marks = {} /\ live \subseteq Cert \X CertStatus
    BY <1>1, IdleJob DEF IInv, PC, Idle, Uploads
  <2>2. j \in Job /\ j.pc = "scan" /\ j.marks = {} /\ j.seen = live
    BY <2>1 DEF Job
  <2>. QED
    BY <1>1, <2>2 DEF Remembered, HasProxy, HasPfx
<1>. HIDE DEF j
<1>4. cert' = cert /\ guide' = guide /\ UNCHANGED <<proxy, alerts, day>>
  BY DEF ScanRead
<1>5. CertsOK' /\ Uploads' = Uploads
  BY <1>4, SameCerts DEF IInv
<1>. QED
  BY <1>2, <1>3, <1>4, <1>5, JobWrite, SameGuides DEF IInv, RowsOK

\* What a scan finds is the status of certificates that are there.
LEMMA ScanWrites ==
  ASSUME IInv, NEW w \in Worker
  PROVE  {<<s[1], Refreshed(s[1], s[2])>> : s \in job[w].seen} \subseteq Uploads \X CertStatus
<1>1. SUFFICES ASSUME NEW s \in job[w].seen
               PROVE  s[1] \in Uploads /\ Refreshed(s[1], s[2]) \in CertStatus
  OBVIOUS
<1>2. s \in Uploads \X CertStatus
  BY OneJob DEF IInv, Remembered
<1>3. s[1] \in Uploads /\ s[1] \in Cert /\ s[2] \in CertStatus /\ day \in Nat
  BY <1>2, DayAssumption DEF Uploads, IInv, RowsOK
<1>. QED
  BY <1>3, RefreshedStatus

LEMMA KeepScanCommit ==
  ASSUME IInv, NEW w \in Worker, ScanCommit(w)
  PROVE  IInv'
<1>. DEFINE new == {<<s[1], Refreshed(s[1], s[2])>> : s \in job[w].seen}
            changed == new \ job[w].seen
<1>1. /\ CommitMarks(changed)
      /\ alerts' = alerts \cup {<<n[1], cert'[n[1]].status>> :
                                  n \in {m \in new : cert'[m[1]].status \in Alert}}
      /\ job' = [job EXCEPT ![w] = Idle] /\ guide' = guide /\ day' = day
  BY DEF ScanCommit
<1>2. new \subseteq Uploads \X CertStatus
  BY ScanWrites
<1>. HIDE DEF new
<1>3. changed \in SUBSET Mark /\ changed \subseteq (Uploads \X CertStatus) \cup (Proxy \X ProxyStatus)
  BY <1>2 DEF Mark, Uploads
<1>4. alerts' \subseteq Cert \X Alert
  BY <1>1, <1>2 DEF IInv, RowsOK, Uploads
<1>. HIDE DEF changed
<1>5. CertsOK' /\ Uploads' = Uploads /\ proxy' \in [Proxy -> ProxyStatus \cup {"absent"}]
  BY <1>1, <1>3, Committed DEF IInv
<1>6. Idle \in Job /\ Remembered(Idle, Uploads)
  BY IdleJob DEF IInv
<1>7. JobsOK'
  BY <1>1, <1>5, <1>6, JobWrite DEF IInv
<1>. QED
  BY <1>1, <1>4, <1>5, <1>7, SameGuides DEF IInv, RowsOK

LEMMA KeepCreateProxy ==
  ASSUME IInv, NEW p \in Proxy, CreateProxy(p)
  PROVE  IInv'
<1>1. cert' = cert /\ guide' = guide /\ job' = job /\ UNCHANGED <<alerts, day>>
  BY DEF CreateProxy
<1>2. RowsOK'
  BY <1>1 DEF IInv, RowsOK, CreateProxy
<1>. QED
  BY <1>1, <1>2, SameCerts, SameGuides, JobsStay DEF IInv

LEMMA KeepRevokeProxy ==
  ASSUME IInv, NEW p \in Proxy, RevokeProxy(p)
  PROVE  IInv'
<1>1. cert' = cert /\ guide' = guide /\ job' = job /\ UNCHANGED <<alerts, day>>
  BY DEF RevokeProxy
<1>2. RowsOK'
  BY <1>1 DEF IInv, RowsOK, RevokeProxy, ProxyStatus
<1>. QED
  BY <1>1, <1>2, SameCerts, SameGuides, JobsStay DEF IInv

LEMMA KeepRevokeCert ==
  ASSUME IInv, NEW c \in Cert, RevokeCert(c)
  PROVE  IInv'
<1>1. cert' = [cert EXCEPT ![c].status = "revoked"] /\ c \in Uploads
      /\ guide' = guide /\ job' = job /\ UNCHANGED <<proxy, alerts, day>>
  BY DEF RevokeCert, Uploads
<1>2. cert[c] \in CertRow /\ cert \in [Cert -> CertRow \cup {NoCert}]
  BY <1>1, UploadedRow DEF IInv, CertsOK
<1>. DEFINE new == [cert[c] EXCEPT !.status = "revoked"]
<1>3. new \in CertRow /\ new.version = cert[c].version /\ new.primary = cert[c].primary
  BY <1>2 DEF CertRow, CertStatus
<1>4. cert' = [cert EXCEPT ![c] = new]
  BY <1>1
<1>. HIDE DEF new
<1>5. cert' \in [Cert -> CertRow \cup {NoCert}]
  BY <1>2, <1>3, <1>4
<1>6. \A d \in Cert : d # c => cert'[d] = cert[d]
  BY <1>2, <1>4
<1>7. cert'[c] = new /\ new # NoCert /\ cert[c] # NoCert
  BY <1>1, <1>2, <1>3, <1>4, RowTypes DEF Uploads
<1>8. CertsOK' /\ Uploads' = Uploads
  BY <1>3, <1>5, <1>6, <1>7, CertsStay DEF IInv
<1>. QED
  BY <1>1, <1>8, SameGuides, JobsStay DEF IInv, RowsOK

LEMMA KeepNextDay == ASSUME IInv, NextDay PROVE IInv'
<1>1. cert' = cert /\ guide' = guide /\ job' = job /\ UNCHANGED <<proxy, alerts>>
  BY DEF NextDay
<1>2. day' \in 0..LastDay
  BY DayAssumption DEF NextDay, IInv, RowsOK
<1>. QED
  BY <1>1, <1>2, SameCerts, SameGuides, JobsStay DEF IInv, RowsOK

LEMMA KeepRollback ==
  ASSUME IInv, NEW w \in Worker, Rollback(w)
  PROVE  IInv'
<1>1. /\ cert' = cert /\ guide' = guide /\ UNCHANGED <<proxy, alerts, day>>
      /\ job' = [job EXCEPT ![w] = Idle]
  BY DEF Rollback
<1>2. Idle \in Job /\ Remembered(Idle, Uploads)
  BY IdleJob DEF IInv
<1>3. CertsOK' /\ Uploads' = Uploads
  BY <1>1, SameCerts DEF IInv
<1>. QED
  BY <1>1, <1>2, <1>3, JobWrite, SameGuides DEF IInv, RowsOK

\* A request writes at most the status it has just found for a certificate.
LEMMA CertMark ==
  ASSUME CertsOK, day \in Nat, NEW c \in Primary, NEW old \in CertStatus,
         Refreshed(c, old) \in Usable
  PROVE  /\ c \in Cert /\ c \in Uploads /\ day < NotAfter[c]
         /\ MarkIfNew(c, old, Refreshed(c, old)) \subseteq Uploads \X Usable
         /\ MarkIfNew(c, old, Refreshed(c, old)) \subseteq Mark
<1>1. c \in Uploads /\ c \in Cert
  BY PrimaryIsUploaded DEF Uploads
<1>2. day < NotAfter[c]
  BY <1>1, RefreshedStatus
<1>. QED
  BY <1>1, <1>2 DEF MarkIfNew, Mark, Usable, CertStatus

LEMMA KeepEmitBegin ==
  ASSUME IInv, NEW w \in Worker, NEW k \in Key, EmitBegin(w, k)
  PROVE  IInv'
<1>1. CertsOK /\ JobsOK /\ day \in Nat
  BY DayAssumption DEF IInv, RowsOK
<1>2. PICK c \in Primary :
        /\ Refreshed(c, cert[c].status) \in Usable
        /\ job' = [job EXCEPT ![w] =
             [Idle EXCEPT !.pc = "proxy", !.on = k,
                !.marks = MarkIfNew(c, cert[c].status, Refreshed(c, cert[c].status))]]
  BY DEF EmitBegin
<1>. DEFINE marks == MarkIfNew(c, cert[c].status, Refreshed(c, cert[c].status))
            j == [Idle EXCEPT !.pc = "proxy", !.on = k, !.marks = marks]
<1>3. marks \subseteq Uploads \X Usable /\ marks \subseteq Mark
  BY <1>1, <1>2, CertMark, UploadedRow, PrimaryIsUploaded
<1>4. job' = [job EXCEPT ![w] = j]
  BY <1>2
<1>. HIDE DEF marks
<1>5. j \in Job /\ Remembered(j, Uploads)
  <2>1. "proxy" \in PC /\ Idle \in Job /\ Idle.seen = {}
    BY IdleJob DEF IInv, PC, Idle
  <2>2. j \in Job /\ j.pc = "proxy" /\ j.on = k /\ j.marks = marks /\ j.seen = {}
    BY <1>3, <2>1 DEF Job
  <2>. QED
    BY <1>3, <2>2 DEF Remembered, HasProxy, HasPfx
<1>. HIDE DEF j
<1>6. cert' = cert /\ guide' = guide /\ UNCHANGED <<proxy, alerts, day>>
  BY DEF EmitBegin
<1>7. CertsOK' /\ Uploads' = Uploads
  BY <1>1, <1>6, SameCerts
<1>. QED
  BY <1>1, <1>4, <1>5, <1>6, <1>7, JobWrite, SameGuides DEF IInv, RowsOK

LEMMA KeepUseProxy ==
  ASSUME IInv, NEW w \in Worker, UseProxy(w)
  PROVE  IInv'
<1>. DEFINE visited(p) == {q \in Candidates : From[q] >= From[p]}
            found(p) == UNION {MarkIfNew(q, proxy[q], RefreshedProxy(q, proxy[q])) : q \in visited(p)}
<1>1. PICK p \in Candidates \cap HasCode :
        job' = [job EXCEPT ![w].pc = "load", ![w].proxy = p, ![w].checked = day,
                           ![w].marks = @ \cup found(p)]
  BY DEF UseProxy
<1>2. found(p) \subseteq Proxy \X ProxyStatus
  <2>1. SUFFICES ASSUME NEW q \in Candidates
                 PROVE  MarkIfNew(q, proxy[q], RefreshedProxy(q, proxy[q])) \subseteq Proxy \X ProxyStatus
    OBVIOUS
  <2>2. q \in Proxy /\ proxy[q] \in ProxyStatus
    BY DEF Candidates, Usable, ProxyStatus
  <2>. QED
    BY <2>2, RefreshedProxyStatus DEF MarkIfNew
<1>3. ValidProxy(p, day) /\ p \in Proxy
  <2>1. p \in Proxy /\ p \in HasCode /\ From[p] <= day /\ (To[p] = None \/ To[p] >= day)
    BY DEF Candidates
  <2>2. day \in Int /\ (To[p] = None \/ To[p] \in Int)
    BY <2>1, DayAssumption DEF IInv, RowsOK
  <2>. QED
    BY <2>1, <2>2 DEF ValidProxy
<1>4. job[w] \in Job /\ Remembered(job[w], Uploads) /\ job \in [Worker -> Job]
  BY OneJob DEF IInv, JobsOK
<1>. HIDE DEF found
<1>. DEFINE j == [job[w] EXCEPT !.pc = "load", !.proxy = p, !.checked = day,
                               !.marks = @ \cup found(p)]
<1>5. job' = [job EXCEPT ![w] = j]
  BY <1>1, <1>4
<1>6. /\ j \in Job /\ j.pc = "load" /\ j.proxy = p /\ j.checked = day /\ j.on = job[w].on
      /\ j.seen = job[w].seen /\ j.marks = job[w].marks \cup found(p)
  <2>1. "load" \in PC /\ day \in 0..LastDay /\ found(p) \subseteq Mark
    BY <1>2 DEF PC, IInv, RowsOK, Mark
  <2>. QED
    BY <1>3, <1>4, <2>1 DEF Job
<1>7. Remembered(j, Uploads)
  <2>1. job[w].pc = "proxy"
    BY DEF UseProxy
  <2>. QED
    BY <1>2, <1>3, <1>4, <1>6, <2>1 DEF Remembered, HasProxy, HasPfx
<1>. HIDE DEF j
<1>8. cert' = cert /\ guide' = guide /\ UNCHANGED <<proxy, alerts, day>>
  BY DEF UseProxy
<1>9. CertsOK' /\ Uploads' = Uploads
  BY <1>8, SameCerts DEF IInv
<1>. QED
  BY <1>5, <1>6, <1>7, <1>8, <1>9, JobWrite, SameGuides DEF IInv, RowsOK

\* A request sees the status of a certificate that is there.
LEMMA SeenStatus ==
  ASSUME IInv, NEW w \in Worker, NEW c \in Uploads
  PROVE  CertSeen(w, c) \in CertStatus
<1>1. c \in Cert /\ cert[c].status \in CertStatus
  BY UploadedRow DEF IInv
<1>2. job[w].marks \in SUBSET Mark
  BY OneJob DEF IInv, Job
<1>. QED
  BY <1>1, <1>2, MarkedCert DEF CertSeen

LEMMA KeepLoadPfx ==
  ASSUME IInv, NEW w \in Worker, LoadPfx(w)
  PROVE  IInv'
<1>. DEFINE new(c) == MarkIfNew(c, CertSeen(w, c), Refreshed(c, CertSeen(w, c)))
            kept(c) == {m \in job[w].marks : m[1] # c \/ new(c) = {}}
<1>1. job[w] \in Job /\ Remembered(job[w], Uploads) /\ job \in [Worker -> Job]
  BY OneJob DEF IInv, JobsOK
<1>2. PICK c \in Primary :
        /\ Refreshed(c, CertSeen(w, c)) \in Usable
        /\ job' = [job EXCEPT ![w].pc = "post", ![w].cert = c, ![w].loaded = day,
                              ![w].marks = {m \in @ : m[1] # c \/ new(c) = {}} \cup new(c)]
  BY DEF LoadPfx
<1>3. /\ c \in Cert /\ c \in Uploads /\ day < NotAfter[c]
      /\ new(c) \subseteq Uploads \X Usable /\ new(c) \subseteq Mark
  <2>1. CertsOK /\ day \in Nat
    BY DayAssumption DEF IInv, RowsOK
  <2>2. CertSeen(w, c) \in CertStatus
    BY <2>1, PrimaryIsUploaded, SeenStatus
  <2>. QED
    BY <1>2, <2>1, <2>2, CertMark
<1>. HIDE DEF new
<1>. DEFINE j == [job[w] EXCEPT !.pc = "post", !.cert = c, !.loaded = day,
                               !.marks = kept(c) \cup new(c)]
<1>4. job' = [job EXCEPT ![w] = j]
  BY <1>1, <1>2
<1>5. /\ kept(c) \subseteq Mark
      /\ kept(c) \subseteq (Uploads \X Usable) \cup (Proxy \X ProxyStatus)
  BY <1>1 DEF Job, Remembered
<1>. HIDE DEF kept
<1>6. /\ j \in Job /\ j.pc = "post" /\ j.cert = c /\ j.loaded = day /\ j.on = job[w].on
      /\ j.seen = job[w].seen /\ j.marks = kept(c) \cup new(c)
      /\ j.proxy = job[w].proxy /\ j.checked = job[w].checked
  <2>1. "post" \in PC /\ day \in 0..LastDay
    BY DEF PC, IInv, RowsOK
  <2>. QED
    BY <1>1, <1>3, <1>5, <2>1 DEF Job
<1>7. Remembered(j, Uploads)
  <2>1. job[w].pc = "load"
    BY DEF LoadPfx
  <2>2. ValidCert(c, day)
    BY <1>3 DEF ValidCert
  <2>. QED
    BY <1>1, <1>3, <1>5, <1>6, <2>1, <2>2 DEF Remembered, HasProxy, HasPfx
<1>. HIDE DEF j
<1>8. cert' = cert /\ guide' = guide /\ UNCHANGED <<proxy, alerts, day>>
  BY DEF LoadPfx
<1>9. CertsOK' /\ Uploads' = Uploads
  BY <1>8, SameCerts DEF IInv
<1>. QED
  BY <1>4, <1>6, <1>7, <1>8, <1>9, JobWrite, SameGuides DEF IInv, RowsOK

LEMMA KeepPost ==
  ASSUME IInv, NEW w \in Worker, Post(w)
  PROVE  IInv'
<1>1. PICK pc \in {"insert", "repost"} : job' = [job EXCEPT ![w].pc = pc]
  BY DEF Post
<1>2. job[w] \in Job /\ Remembered(job[w], Uploads) /\ job \in [Worker -> Job]
  BY OneJob DEF IInv, JobsOK
<1>. DEFINE j == [job[w] EXCEPT !.pc = pc]
<1>3. job' = [job EXCEPT ![w] = j]
  BY <1>1, <1>2
<1>4. /\ j \in Job /\ j.pc = pc /\ j.cert = job[w].cert /\ j.loaded = job[w].loaded
      /\ j.on = job[w].on /\ j.seen = job[w].seen /\ j.marks = job[w].marks
      /\ j.proxy = job[w].proxy /\ j.checked = job[w].checked
  BY <1>1, <1>2 DEF Job, PC
<1>5. Remembered(j, Uploads)
  <2>1. job[w].pc \in {"post", "repost"}
    BY DEF Post
  <2>. HIDE DEF j
  <2>. QED
    BY <1>2, <1>4, <2>1 DEF Remembered, HasProxy, HasPfx
<1>. HIDE DEF j
<1>6. cert' = cert /\ guide' = guide /\ UNCHANGED <<proxy, alerts, day>>
  BY DEF Post
<1>7. CertsOK' /\ Uploads' = Uploads
  BY <1>6, SameCerts DEF IInv
<1>. QED
  BY <1>3, <1>4, <1>5, <1>6, <1>7, JobWrite, SameGuides DEF IInv, RowsOK

\* What a request commits with its guide.
LEMMA RequestMarks ==
  ASSUME IInv, NEW w \in Worker
  PROVE  /\ job[w].marks \in SUBSET Mark
         /\ job[w].marks \subseteq (Uploads \X CertStatus) \cup (Proxy \X ProxyStatus)
<1>1. job[w] \in Job /\ Remembered(job[w], Uploads)
  BY OneJob DEF IInv
<1>. QED
  BY <1>1 DEF Job, Remembered, Usable, CertStatus

LEMMA KeepInsert ==
  ASSUME IInv, NEW w \in Worker, Insert(w)
  PROVE  IInv'
<1>. DEFINE k == job[w].on
            g == [cert |-> job[w].cert, proxy |-> job[w].proxy,
                  checked |-> job[w].checked, loaded |-> job[w].loaded]
<1>1. /\ job[w].pc = "insert" /\ guide' = [guide EXCEPT ![k] = g]
      /\ CommitMarks(job[w].marks) /\ job' = [job EXCEPT ![w] = Idle]
      /\ alerts' = alerts /\ day' = day
  BY DEF Insert
<1>2. job[w] \in Job /\ Remembered(job[w], Uploads)
  BY OneJob DEF IInv
<1>3. k \in Key /\ ValidProxy(g.proxy, g.checked) /\ ValidCert(g.cert, g.loaded)
  BY <1>1, <1>2 DEF Remembered, HasProxy, HasPfx
<1>4. g \in GuideRow
  <2>1. job[w].cert \in Cert /\ job[w].proxy \in Proxy
    BY <1>3 DEF ValidProxy, ValidCert
  <2>2. job[w].checked \in 0..LastDay /\ job[w].loaded \in 0..LastDay
    BY <1>2 DEF Job
  <2>. QED
    BY <2>1, <2>2 DEF GuideRow
<1>. HIDE DEF g
<1>5. GuidesOK'
  <2>1. guide' \in [Key -> GuideRow \cup {NoGuide}]
    BY <1>1, <1>3, <1>4 DEF IInv, GuidesOK
  <2>2. \A j \in Key : guide'[j] = IF j = k THEN g ELSE guide[j]
    BY <1>1, <1>3 DEF IInv, GuidesOK
  <2>3. \A j \in Key : GuideOK(guide'[j])
    BY <1>3, <1>4, <2>2 DEF IInv, GuidesOK, GuideOK
  <2>. QED
    BY <2>1, <2>3 DEF GuidesOK
<1>6. CertsOK' /\ Uploads' = Uploads /\ proxy' \in [Proxy -> ProxyStatus \cup {"absent"}]
  BY <1>1, RequestMarks, Committed DEF IInv
<1>7. Idle \in Job /\ Remembered(Idle, Uploads)
  BY IdleJob DEF IInv
<1>8. JobsOK'
  BY <1>1, <1>6, <1>7, JobWrite DEF IInv
<1>. QED
  BY <1>1, <1>5, <1>6, <1>8 DEF IInv, RowsOK

LEMMA KeepStutter == ASSUME IInv, UNCHANGED vars PROVE IInv'
<1>1. cert' = cert /\ guide' = guide /\ job' = job /\ UNCHANGED <<proxy, alerts, day>>
  BY DEF vars
<1>. QED
  BY <1>1, SameCerts, SameGuides, JobsStay DEF IInv, RowsOK

LEMMA Inductive == IInv /\ [Next]_vars => IInv'
<1>. SUFFICES ASSUME IInv, [Next]_vars PROVE IInv'
  OBVIOUS
<1>1. CASE \E w \in Worker, c \in Cert : UploadDemote(w, c)
  BY <1>1, KeepUploadDemote
<1>2. CASE \E w \in Worker, k \in Key : EmitBegin(w, k)
  BY <1>2, KeepEmitBegin
<1>3. ASSUME NEW w \in Worker,
             UploadInsert(w) \/ ScanRead(w) \/ ScanCommit(w)
      PROVE  IInv'
  BY <1>3, KeepUploadInsert, KeepScanRead, KeepScanCommit
<1>4. ASSUME NEW w \in Worker,
             UseProxy(w) \/ LoadPfx(w) \/ Post(w) \/ Insert(w) \/ Rollback(w)
      PROVE  IInv'
  BY <1>4, KeepUseProxy, KeepLoadPfx, KeepPost, KeepInsert, KeepRollback
<1>5. CASE \E p \in Proxy : CreateProxy(p) \/ RevokeProxy(p)
  BY <1>5, KeepCreateProxy, KeepRevokeProxy
<1>6. CASE \E c \in Cert : RevokeCert(c)
  BY <1>6, KeepRevokeCert
<1>. QED
  BY <1>1, <1>2, <1>3, <1>4, <1>5, <1>6, KeepNextDay, KeepStutter DEF Next

LEMMA Invariance == Spec => []IInv
BY Begins, Inductive, PTL DEF Spec

-----------------------------------------------------------------------------
(* The theorems *)

\* Every certificate, proxy, guide, alert, request and day has its type.
THEOREM TypeCorrect == Spec => []TypeOK
<1>1. IInv => TypeOK
  <2>. SUFFICES ASSUME IInv PROVE TypeOK
    OBVIOUS
  <2>1. \A w \in Worker : job[w] \in Job
    BY OneJob DEF IInv
  <2>2. guide \in [Key -> [cert : Cert, proxy : Proxy, checked : 0..LastDay, loaded : 0..LastDay]
                         \cup {NoGuide}]
    BY DEF IInv, GuidesOK, GuideRow
  <2>. QED
    BY <2>1, <2>2 DEF IInv, CertsOK, RowsOK, TypeOK, Job
<1>. QED
  BY <1>1, Invariance, PTL

\* From the first upload on, exactly one certificate of the CNPJ is the primary
\* one, and it is the newest, however many uploads run side by side and fail.
THEOREM OnePrimaryCertificate == Spec => []OnePrimary
<1>1. IInv => OnePrimary
  <2>. SUFFICES ASSUME IInv, \E c \in Cert : cert[c] # NoCert
                PROVE  /\ Cardinality(Primary) = 1
                       /\ \A c \in Cert : cert[c] # NoCert => \E p \in Primary : cert[c].version <= cert[p].version
                       /\ \A c, d \in Cert : c # d /\ cert[c] # NoCert => cert[c].version # cert[d].version
    BY DEF OnePrimary
  <2>1. PICK p \in Uploads : Primary = {p} /\ \A c \in Uploads : cert[c].version <= cert[p].version
    BY DEF IInv, CertsOK, Uploads
  <2>2. Cardinality(Primary) = 1
    BY <2>1, FS_Singleton
  <2>3. \A c \in Cert : cert[c] # NoCert => \E q \in Primary : cert[c].version <= cert[q].version
    BY <2>1 DEF Uploads
  <2>4. ASSUME NEW c \in Cert, NEW d \in Cert, c # d, cert[c] # NoCert
        PROVE  cert[c].version # cert[d].version
    <3>1. c \in Uploads /\ cert[c].version \in 1..Cardinality(Cert)
      BY <2>4, UploadedRow DEF IInv, Uploads
    <3>2. cert[c].version # 0
      <4>1. Cardinality(Cert) \in Nat
        BY RowAssumption, FS_CardinalityType
      <4>. QED
        BY <3>1, <4>1
    <3>3. CASE d \in Uploads
      BY <2>4, <3>1, <3>3 DEF IInv, CertsOK
    <3>4. CASE d \notin Uploads
      BY <3>2, <3>4 DEF Uploads, NoCert
    <3>. QED
      BY <3>3, <3>4
  <2>. QED
    BY <2>2, <2>3, <2>4
<1>. QED
  BY <1>1, Invariance, PTL

\* No guide was captured with a certificate that was past its end when the
\* request loaded it, whatever status was stored.
THEOREM UnderValidCertificate == Spec => []GuideUnderValidCertificate
<1>1. IInv => GuideUnderValidCertificate
  BY DEF IInv, GuidesOK, GuideOK, ValidCert, GuideUnderValidCertificate
<1>. QED
  BY <1>1, Invariance, PTL

\* Every guide rests on a proxy whose codes allow it and which was in force on
\* the day the request chose it.
THEOREM UnderValidProxy == Spec => []GuideUnderValidProxy
<1>1. IInv => GuideUnderValidProxy
  BY DEF IInv, GuidesOK, GuideOK, ValidProxy, GuideUnderValidProxy
<1>. QED
  BY <1>1, Invariance, PTL

\* No step turns the stored status of a certificate into expired unless
\* certificate.expired has been enqueued for it: of the steps that write statuses,
\* only a scan does; a request for a guide that finds it takes everything back.  The
\* insert of an upload is no such step: a file that is past its end when it is
\* uploaded is stored as expired with no alert.
THEOREM ExpiryIsAlerted == Spec => ExpiredIsAlerted
<1>. DEFINE Alerted == \A c \in Cert :
              cert[c].status \notin {"absent", "expired"} /\ cert'[c].status = "expired" =>
                <<c, "expired">> \in alerts'
<1>1. ASSUME IInv, NEW w \in Worker, ScanCommit(w) PROVE Alerted
  <2>. SUFFICES ASSUME NEW c \in Cert, cert[c].status \notin {"absent", "expired"}, cert'[c].status = "expired"
                PROVE  <<c, "expired">> \in alerts'
    OBVIOUS
  <2>. DEFINE new == {<<s[1], Refreshed(s[1], s[2])>> : s \in job[w].seen}
              changed == new \ job[w].seen
  <2>1. /\ CommitMarks(changed)
        /\ alerts' = alerts \cup {<<n[1], cert'[n[1]].status>> :
                                    n \in {m \in new : cert'[m[1]].status \in Alert}}
    BY <1>1 DEF ScanCommit
  <2>2. new \subseteq Uploads \X CertStatus
    BY <1>1, ScanWrites
  <2>. HIDE DEF new
  <2>3. changed \in SUBSET Mark /\ changed \subseteq (Uploads \X CertStatus) \cup (Proxy \X ProxyStatus)
    BY <2>2 DEF Mark, Uploads
  <2>4. changed \subseteq new
    OBVIOUS
  <2>. HIDE DEF changed
  <2>5. cert'[c].status = Marked(c, cert[c].status, changed)
    BY <1>1, <2>1, <2>3, Committed DEF IInv
  <2>6. cert[c].status # "expired"
    OBVIOUS
  <2>7. <<c, "expired">> \in new
    BY <2>3, <2>4, <2>5, <2>6, MarkedCert
  <2>8. "expired" \in Alert
    BY DEF Alert
  <2>. QED
    BY <2>1, <2>7, <2>8
<1>2. ASSUME IInv, NEW w \in Worker, Insert(w) PROVE Alerted
  <2>. SUFFICES ASSUME NEW c \in Cert, cert[c].status \notin {"absent", "expired"}, cert'[c].status = "expired"
                PROVE  FALSE
    OBVIOUS
  <2>1. cert'[c].status = Marked(c, cert[c].status, job[w].marks)
    BY <1>2, RequestMarks, Committed DEF IInv, Insert
  <2>2. cert[c].status # "expired"
    BY DEF Usable
  <2>3. <<c, "expired">> \in job[w].marks
    BY <1>2, <2>1, <2>2, RequestMarks, MarkedCert
  <2>4. job[w].marks \subseteq (Uploads \X Usable) \cup (Proxy \X ProxyStatus)
    BY <1>2, OneJob DEF IInv, Remembered
  <2>. QED
    BY <2>3, <2>4, RowAssumption DEF Usable
<1>3. ASSUME IInv, NEW w \in Worker, UploadInsert(w) PROVE Alerted
  <2>. SUFFICES ASSUME NEW c \in Cert, cert[c].status \notin {"absent", "expired"}, cert'[c].status = "expired"
                PROVE  FALSE
    OBVIOUS
  <2>1. cert[c] # NoCert /\ cert[c] \in CertRow
    BY <1>3 DEF NoCert, Usable, IInv, CertsOK
  <2>2. c # job[w].on
    BY <1>3, <2>1 DEF UploadInsert
  <2>3. cert'[c] = [cert[c] EXCEPT !.primary = FALSE] \/ cert'[c] = cert[c]
    BY <1>3, <2>2 DEF UploadInsert, Uploaded
  <2>4. cert'[c].status = cert[c].status
    BY <2>1, <2>3 DEF CertRow
  <2>. QED
    BY <2>4 DEF Usable
<1>4. ASSUME IInv, NEW d \in Cert, RevokeCert(d) PROVE Alerted
  <2>. SUFFICES ASSUME NEW c \in Cert, cert[c].status \notin {"absent", "expired"}, cert'[c].status = "expired"
                PROVE  FALSE
    OBVIOUS
  <2>1. cert' = [cert EXCEPT ![d].status = "revoked"] /\ d \in Uploads
    BY <1>4 DEF RevokeCert, Uploads
  <2>2. cert[d] \in CertRow /\ cert \in [Cert -> CertRow \cup {NoCert}]
    BY <1>4, <2>1, UploadedRow DEF IInv, CertsOK
  <2>3. c = d => cert'[c].status = "revoked"
    BY <2>1, <2>2 DEF CertRow
  <2>4. c # d => cert'[c] = cert[c]
    BY <2>1, <2>2
  <2>. QED
    BY <2>3, <2>4 DEF Usable
<1>5. ASSUME cert' = cert PROVE Alerted
  BY <1>5 DEF Usable
<1>6. ASSUME IInv, [Next]_vars PROVE Alerted
  <2>1. CASE UNCHANGED vars
    BY <1>5, <2>1 DEF vars
  <2>2. CASE \E w \in Worker, c \in Cert : UploadDemote(w, c)
    BY <1>5, <2>2 DEF UploadDemote
  <2>3. CASE \E w \in Worker, k \in Key : EmitBegin(w, k)
    BY <1>5, <2>3 DEF EmitBegin
  <2>4. ASSUME NEW w \in Worker,
               \/ UploadInsert(w) \/ ScanRead(w) \/ ScanCommit(w)
               \/ UseProxy(w) \/ LoadPfx(w) \/ Post(w) \/ Insert(w) \/ Rollback(w)
        PROVE  Alerted
    <3>1. UploadInsert(w) \/ ScanCommit(w) \/ Insert(w) \/ cert' = cert
      BY <2>4 DEF ScanRead, UseProxy, LoadPfx, Post, Rollback
    <3>. HIDE DEF Alerted
    <3>. QED
      BY <1>1, <1>2, <1>3, <1>5, <1>6, <3>1
  <2>5. CASE \E p \in Proxy : CreateProxy(p) \/ RevokeProxy(p)
    BY <1>5, <2>5 DEF CreateProxy, RevokeProxy
  <2>6. CASE \E c \in Cert : RevokeCert(c)
    BY <1>4, <1>6, <2>6
  <2>7. CASE NextDay
    BY <1>5, <2>7 DEF NextDay
  <2>. HIDE DEF Alerted
  <2>. QED
    BY <1>6, <2>1, <2>2, <2>3, <2>4, <2>5, <2>6, <2>7 DEF Next
<1>7. IInv /\ [Next]_vars => [Alerted]_vars
  BY <1>6
<1>. QED
  BY <1>7, Invariance, PTL DEF Spec, ExpiredIsAlerted
=============================================================================
