----------------------------- MODULE FiscalProofs -----------------------------
(***************************************************************************)
(* Proofs about Fiscal, for any lists, rules, services, amounts, requests   *)
(* and settings: one published catalogue, none withdrawn without another,   *)
(* older lists superseded, and a note whose snapshot explains it.           *)
(***************************************************************************)
EXTENDS Fiscal, FiniteSetTheorems, WellFoundedInduction, TLAPS

-----------------------------------------------------------------------------
(* The inductive invariant *)

\* What is never taken back: a list is not deleted, a catalogue keeps its version
\* and its rules.
Made == {d \in Doc : doc[d].status # "absent"}
MadeCatalogs == {c \in Catalog : doc[c].status # "absent"}
Numbers == 1..(Cardinality(MadeCatalogs) + 1)
Ruled == {p \in Numbers \X Rule :
            \E c \in MadeCatalogs : doc[c].version = p[1] /\ p[2] \in doc[c].lines}

Tax == [base : Nat, cbs : Nat, ibs : Nat]
Note == [status : {"none", "pending_tax", "rejected", "queued"}, service : Service \cup {None},
         day : Day \cup {None}, amount : Amount \cup {None}, rule : Rule \cup {None},
         version : (1..MaxVersion) \cup {None}, rtc : Rtc \cup {None}, tax : Tax \cup {None}]

PC == {"idle", "insert", "edit", "codes", "update", "lock", "save", "catalog", "rule", "rtc"}
Op == {"none", "create", "tick", "rule", "publish", "import", "seed", "emit", "again"}
Times == 0..now
Arg == Nat \cup BOOLEAN \cup Rule \cup (SUBSET Doc) \cup Note \cup Status \cup {None}
Job == [pc : PC, op : Op, doc : Doc \cup {None}, arg : Arg, hit : SUBSET Doc]

\* The catalogue and the rule of a note.
Explained(n, ruled) == <<n.version, n.rule>> \in ruled /\ n.rule \in Rule /\ InTime(n.rule, n.day)

\* What a request of each kind remembers.
Remembered(j, made, numbers, ruled, times) ==
  /\ j.op = "none" => j.pc = "idle"
  /\ j.op = "create" => j.pc = "insert" /\ j.arg \in numbers
  /\ j.op \in {"tick", "rule"} => j.pc = "edit" /\ j.doc \in Catalog \cap made
  /\ j.op = "tick" => j.arg \in BOOLEAN
  /\ j.op = "rule" => j.arg \in Rule
  /\ j.op \in {"publish", "import", "seed"} =>
       /\ j.pc \in {"codes", "update", "lock", "save"}
       /\ j.doc \in made \cup National /\ j.hit \subseteq Kind(j.doc) \cap made
       /\ j.pc = "lock" => j.arg \subseteq Kind(j.doc)
       /\ j.pc = "codes" => Seed \in made
       /\ j.pc = "save" => j.arg \in times
  /\ j.op \in {"emit", "again"} =>
       /\ j.pc \in {"catalog", "rule", "rtc"}
       /\ j.arg \in Note /\ j.arg.service \in Service /\ j.arg.day \in Day /\ j.arg.amount \in Amount
       /\ j.pc = "rule" => j.doc \in Catalog \cap made
       /\ j.pc = "rtc" => Explained(j.arg, ruled) /\ j.arg.tax = None

JobsOK ==
  /\ job \in [Worker -> Job]
  /\ \A w \in Worker : Remembered(job[w], Made, Numbers, Ruled, Times)

NoteOK ==
  /\ note \in Note
  /\ note.status = "rejected" =>
       note.service \in Service /\ note.day \in Day /\ note.amount \in Amount
  /\ note.status = "queued" =>
       /\ Explained(note, Ruled)
       /\ note.tax # None =>
            \E r \in Rule, day \in Day, amount \in Amount : note.tax = Assessed(r, day, amount)

ListsOK == Shaped(doc) /\ Numbered(doc) /\ Dates(published_at, now)
RestOK ==
  services \subseteq Service /\ left \in 0..MaxRequests /\ beside \in [Worker -> SUBSET Doc]

IInv == ListsOK /\ JobsOK /\ NoteOK /\ RestOK

-----------------------------------------------------------------------------
(* Lemmas on the operators *)

\* A nonempty set of natural numbers has a least element: the intervals that
\* end in it are ordered by inclusion, which is well-founded below any of them.
LEMMA LeastNatural ==
  ASSUME NEW P \in SUBSET Nat, P # {}
  PROVE  \E m \in P : \A k \in P : m <= k
<1>1. PICK n \in P : TRUE
  OBVIOUS
<1>. DEFINE S == 0..n
            G == {0..m : m \in {k \in P : k <= n}}
<1>2. IsWellFoundedOn(StrictSubsetOrdering(S), SUBSET S)
  <2>1. IsFiniteSet(S)
    BY <1>1, FS_Interval
  <2>. QED
    BY <2>1, FS_StrictSubsetOrderingWellFounded, FS_FiniteSubsetsOfFinite
<1>3. G \subseteq SUBSET S /\ G # {}
  BY <1>1
<1>4. PICK T \in G : \A U \in G : ~(<<U, T>> \in StrictSubsetOrdering(S))
  <2>. HIDE DEF G, S
  <2>. QED
    BY <1>2, <1>3, WFMin
<1>5. PICK m \in P : m <= n /\ T = 0..m
  BY <1>4
<1>6. ASSUME NEW k \in P, k < m
      PROVE  FALSE
  <2>1. 0..k \in G /\ 0..k \subseteq 0..m /\ m \in 0..m /\ m \notin 0..k /\ k <= n
    BY <1>1, <1>5, <1>6
  <2>. QED
    BY <1>3, <1>4, <1>5, <2>1 DEF StrictSubsetOrdering
<1>7. \A k \in P : m <= k
  BY <1>5, <1>6
<1>. QED
  BY <1>5, <1>7

LEMMA Kinds ==
  ASSUME NEW d \in Doc
  PROVE  /\ Kind(d) \in {Catalog, Rtc, National} /\ d \in Kind(d) /\ Kind(d) \subseteq Doc
         /\ d \in Catalog => Kind(d) = Catalog /\ Line(d) = Rule /\ d \notin Rtc \cup National
         /\ d \in Rtc => Kind(d) = Rtc /\ Line(d) = RtcCode /\ d \notin Catalog \cup National
         /\ d \in National => Kind(d) = National /\ Line(d) = Items[d] /\ d \notin Catalog \cup Rtc
BY RowAssumption DEF Kind, Line, Doc

LEMMA OneList ==
  ASSUME ListsOK, NEW d \in Doc
  PROVE  /\ doc[d] \in DocRow(d) /\ doc[d].status \in Status /\ doc[d].lines \subseteq Line(d)
         /\ doc[d].version \in 0..MaxVersion /\ doc[d].ready \in BOOLEAN
BY DEF ListsOK, Shaped, DocRow

LEMMA MadeCounts ==
  ASSUME ListsOK
  PROVE  /\ MadeCatalogs = Catalog \cap Made /\ MadeCatalogs \subseteq Catalog
         /\ IsFiniteSet(MadeCatalogs) /\ Cardinality(MadeCatalogs) \in Nat
         /\ MaxVersion \in Nat /\ Cardinality(MadeCatalogs) <= MaxVersion
         /\ \A c \in MadeCatalogs : doc[c].version \in 1..Cardinality(MadeCatalogs)
<1>1. MadeCatalogs = Catalog \cap Made /\ MadeCatalogs \subseteq Catalog
  BY DEF MadeCatalogs, Made, Doc
<1>2. /\ IsFiniteSet(MadeCatalogs) /\ Cardinality(MadeCatalogs) \in Nat
      /\ MaxVersion \in Nat /\ Cardinality(MadeCatalogs) <= MaxVersion
  BY <1>1, RowAssumption, FS_Subset, FS_CardinalityType DEF MaxVersion
<1>. QED
  BY <1>1, <1>2 DEF ListsOK, Numbered, MadeCatalogs

\* Catalogues are added to the others' numbers.
LEMMA NextIsNumber == ASSUME ListsOK PROVE NextVersion \in Numbers
<1>. DEFINE n == Cardinality(MadeCatalogs)
            P == {n - v : v \in Versions}
<1>1. n \in Nat /\ \A v \in Versions : v \in 1..n
  BY MadeCounts DEF Versions, MadeCatalogs
<1>2. CASE Versions = {}
  BY <1>1, <1>2 DEF NextVersion, Numbers
<1>3. CASE Versions # {}
  <2>1. P \in SUBSET Nat /\ P # {}
    BY <1>1, <1>3
  <2>2. PICK m \in P : \A k \in P : m <= k
    <3>. HIDE DEF P
    <3>. QED
      BY <2>1, LeastNatural
  <2>3. PICK v \in Versions : m = n - v
    BY <2>2
  <2>4. \A u \in Versions : u <= v
    <3>1. \A u \in Versions : n - u \in P
      OBVIOUS
    <3>. QED
      BY <1>1, <2>2, <2>3, <3>1
  <2>. DEFINE top == CHOOSE x \in Versions : \A u \in Versions : u <= x
  <2>5. top \in Versions
    BY <2>3, <2>4
  <2>6. NextVersion = 1 + top
    BY <1>3 DEF NextVersion
  <2>. HIDE DEF top
  <2>. QED
    BY <1>1, <2>5, <2>6 DEF Numbers
<1>. QED
  BY <1>2, <1>3

\* The list in force is a published one, if there is one.
LEMMA ForceIsPublished ==
  ASSUME ListsOK, NEW D \in {Rtc, National}
  PROVE  IF Published(D) = {} THEN InForce(D) = None ELSE InForce(D) \in Published(D)
<1>1. CASE Published(D) = {}
  BY <1>1 DEF InForce
<1>2. CASE Published(D) # {}
  <2>. DEFINE ages == {now - published_at[d] : d \in Published(D)}
  <2>1. \A d \in Published(D) : published_at[d] \in 0..now /\ now \in Nat
    BY DEF Published, ListsOK, Dates
  <2>2. ages \in SUBSET Nat /\ ages # {}
    BY <1>2, <2>1
  <2>3. PICK age \in ages : \A other \in ages : age <= other
    <3>. HIDE DEF ages
    <3>. QED
      BY <2>2, LeastNatural
  <2>4. PICK d \in Published(D) : age = now - published_at[d]
    BY <2>3
  <2>5. \A e \in Published(D) : published_at[e] <= published_at[d]
    <3>1. ASSUME NEW e \in Published(D) PROVE published_at[e] <= published_at[d]
      <4>1. now - published_at[d] <= now - published_at[e]
        BY <2>3, <2>4
      <4>. QED
        BY <2>1, <4>1
    <3>. QED
      BY <3>1
  <2>. QED
    BY <1>2, <2>4, <2>5 DEF InForce
<1>. QED
  BY <1>1, <1>2

-----------------------------------------------------------------------------
(* Changes of the lists *)

\* Nothing is taken back.
Grows ==
  /\ ListsOK' /\ Made \subseteq Made' /\ Numbers \subseteq Numbers' /\ Ruled \subseteq Ruled'
  /\ Times \subseteq Times'

LEMMA ChangedRow ==
  ASSUME ListsOK, NEW d \in Doc, NEW row \in DocRow(d), row.status # "absent",
         doc' = [doc EXCEPT ![d] = row]
  PROVE  Shaped(doc') /\ doc'[d] = row /\ \A e \in Doc : e # d => doc'[e] = doc[e]
<1>1. doc = [e \in Doc |-> doc[e]]
  BY DEF ListsOK, Shaped
<1>2. doc'[d] = row /\ (\A e \in Doc : e # d => doc'[e] = doc[e]) /\ doc' = [e \in Doc |-> doc'[e]]
  BY <1>1
<1>. QED
  BY <1>2 DEF ListsOK, Shaped

\* No catalogue is added: numbers and rules stay.
LEMMA SameCatalogs ==
  ASSUME ListsOK, MadeCatalogs' = MadeCatalogs,
         \A c \in Catalog : doc'[c].version = doc[c].version /\ doc[c].lines \subseteq doc'[c].lines,
         \A c, e \in MadeCatalogs :
           doc'[c].status = "published" /\ doc'[e].status = "published" => c = e
  PROVE  Numbered(doc') /\ Numbers' = Numbers /\ Ruled \subseteq Ruled'
<1>1. MadeCatalogs \subseteq Catalog
  BY DEF MadeCatalogs
<1>2. /\ \A c \in MadeCatalogs : doc[c].version \in 1..Cardinality(MadeCatalogs)
      /\ \A c, e \in MadeCatalogs : doc[c].version = doc[e].version => c = e
  BY DEF ListsOK, Numbered, MadeCatalogs
<1>3. MadeCatalogs = {c \in Catalog : doc'[c].status # "absent"}
  BY DEF MadeCatalogs
<1>4. Numbered(doc')
  BY <1>1, <1>2, <1>3 DEF Numbered
<1>5. Numbers' = Numbers
  BY DEF Numbers
<1>6. Ruled \subseteq Ruled'
  BY <1>1, <1>5 DEF Ruled
<1>. QED
  BY <1>4, <1>5, <1>6

\* The clock does not run back.
LEMMA SameDates ==
  ASSUME ListsOK, dates' = dates
  PROVE  Dates(published_at', now') /\ Times' = Times /\ beside' = beside
BY DEF ListsOK, Dates, Times, dates

\* A list is edited: its lines may change, a catalogue's are only added to.
LEMMA EditDoc ==
  ASSUME ListsOK, NEW d \in Doc, NEW row \in DocRow(d), doc[d].status # "absent",
         row.status = doc[d].status, row.version = doc[d].version,
         d \in Catalog => doc[d].lines \subseteq row.lines,
         doc' = [doc EXCEPT ![d] = row], dates' = dates
  PROVE  Grows
<1>1. Shaped(doc') /\ doc'[d] = row /\ \A e \in Doc : e # d => doc'[e] = doc[e]
  BY ChangedRow
<1>2. \A e \in Doc : doc'[e].status = doc[e].status /\ doc'[e].version = doc[e].version
  BY <1>1
<1>3. MadeCatalogs' = MadeCatalogs /\ Made' = Made
  BY <1>2 DEF MadeCatalogs, Made, Doc
<1>4. \A c \in Catalog : doc'[c].version = doc[c].version /\ doc[c].lines \subseteq doc'[c].lines
  BY <1>1, <1>2 DEF Doc
<1>5. \A c, e \in MadeCatalogs : doc'[c].status = "published" /\ doc'[e].status = "published" => c = e
  BY <1>2 DEF ListsOK, Numbered, MadeCatalogs, Doc
<1>6. Numbered(doc') /\ Numbers' = Numbers /\ Ruled \subseteq Ruled'
  BY <1>3, <1>4, <1>5, SameCatalogs
<1>7. Dates(published_at', now') /\ Times' = Times
  BY SameDates
<1>. QED
  BY <1>1, <1>3, <1>6, <1>7 DEF Grows, ListsOK

\* A draft is added; a catalogue with a number that no other has.
LEMMA AddDoc ==
  ASSUME ListsOK, NEW d \in Doc, NEW row \in DocRow(d), doc[d].status = "absent",
         row.status = "draft", d \in Catalog => row.version \in Numbers \ Versions,
         doc' = [doc EXCEPT ![d] = row], dates' = dates
  PROVE  Grows
<1>1. Shaped(doc') /\ doc'[d] = row /\ \A e \in Doc : e # d => doc'[e] = doc[e]
  BY ChangedRow
<1>2. Made \subseteq Made'
  BY <1>1 DEF Made
<1>3. Dates(published_at', now') /\ Times' = Times
  BY SameDates
<1>4. CASE d \notin Catalog
  <2>1. \A c \in Catalog : c \in Doc /\ c # d
    BY <1>4 DEF Doc
  <2>2. \A c \in Catalog : doc'[c] = doc[c]
    BY <1>1, <2>1
  <2>3. MadeCatalogs' = MadeCatalogs
    BY <2>2 DEF MadeCatalogs
  <2>4. \A c, e \in MadeCatalogs : doc'[c].status = "published" /\ doc'[e].status = "published" => c = e
    BY <2>2 DEF ListsOK, Numbered, MadeCatalogs
  <2>5. Numbered(doc') /\ Numbers' = Numbers /\ Ruled \subseteq Ruled'
    BY <2>2, <2>3, <2>4, SameCatalogs
  <2>. QED
    BY <1>1, <1>2, <1>3, <2>5 DEF Grows, ListsOK
<1>5. CASE d \in Catalog
  <2>. DEFINE n == Cardinality(MadeCatalogs)
  <2>1. d \notin MadeCatalogs /\ MadeCatalogs \subseteq Catalog /\ Catalog \subseteq Doc
    BY DEF MadeCatalogs, Doc
  <2>2. MadeCatalogs' = MadeCatalogs \cup {d}
    BY <1>1, <1>5, <2>1 DEF MadeCatalogs
  <2>3. n \in Nat /\ IsFiniteSet(MadeCatalogs)
    BY MadeCounts
  <2>4. Cardinality(MadeCatalogs \cup {d}) = n + 1
    BY <2>1, <2>3, FS_AddElement
  <2>5. MadeCatalogs \cup {d} = {c \in Catalog : doc'[c].status # "absent"}
    BY <2>2 DEF MadeCatalogs
  <2>6. \A c \in MadeCatalogs : doc'[c] = doc[c] /\ c # d
    BY <1>1, <2>1
  <2>7. \A c \in MadeCatalogs : doc[c].version \in 1..n /\ doc[c].version \in Versions
    BY <2>1, MadeCounts DEF Versions, MadeCatalogs
  <2>8. row.version \in 1..(n + 1) /\ \A c \in MadeCatalogs : doc[c].version # row.version
    BY <1>5, <2>7 DEF Numbers
  <2>9. Numbered(doc')
    <3>. DEFINE made == MadeCatalogs \cup {d}
    <3>1. \A c \in made : doc'[c].version \in 1..(n + 1)
      BY <1>1, <2>3, <2>6, <2>7, <2>8
    <3>2. \A c, e \in made : doc'[c].version = doc'[e].version => c = e
      <4>1. \A c, e \in MadeCatalogs : doc[c].version = doc[e].version => c = e
        BY DEF ListsOK, Numbered, MadeCatalogs
      <4>. QED
        BY <1>1, <2>6, <2>8, <4>1
    <3>3. \A c, e \in made : doc'[c].status = "published" /\ doc'[e].status = "published" => c = e
      <4>1. \A c, e \in MadeCatalogs : doc[c].status = "published" /\ doc[e].status = "published" => c = e
        BY DEF ListsOK, Numbered, MadeCatalogs
      <4>. QED
        BY <1>1, <2>6, <4>1
    <3>4. made = {c \in Catalog : doc'[c].status # "absent"} /\ Cardinality(made) = n + 1
      BY <2>4, <2>5
    <3>. HIDE DEF made
    <3>. QED
      BY <3>1, <3>2, <3>3, <3>4 DEF Numbered
  <2>10. Numbers \subseteq Numbers'
    BY <2>2, <2>3, <2>4 DEF Numbers
  <2>11. Ruled \subseteq Ruled'
    BY <2>2, <2>6, <2>10 DEF Ruled
  <2>. QED
    BY <1>1, <1>2, <1>3, <2>9, <2>10, <2>11 DEF Grows, ListsOK
<1>. QED
  BY <1>4, <1>5

LEMMA SameLists == ASSUME ListsOK, doc' = doc, dates' = dates PROVE Grows
BY SameDates DEF Grows, ListsOK, Made, Numbers, Ruled, MadeCatalogs

\* What is published, and by whom.
LEMMA CommittedRows ==
  ASSUME ListsOK, NEW w \in Worker, NEW d \in Made \cup National, job[w].doc = d,
         job[w].hit \subseteq Kind(d) \cap Made, doc' = Committed(w)
  PROVE  /\ Shaped(doc') /\ d \in Doc /\ doc'[d].status = "published"
         /\ \A e \in Doc : e # d /\ e \in job[w].hit => doc'[e].status = "superseded"
         /\ \A e \in Doc : e # d /\ e \notin job[w].hit => doc'[e] = doc[e]
         /\ \A e \in Doc : doc'[e].version = doc[e].version
         /\ \A e \in Doc \ National : doc'[e].lines = doc[e].lines
         /\ \A e \in Doc : e \in Made => doc'[e].status # "absent"
<1>1. d \in Doc /\ \A e \in Doc : doc[e] \in DocRow(e)
  BY OneList DEF Made, Doc
<1>2. doc' = [e \in Doc |->
        IF e = d
        THEN [doc[d] EXCEPT !.status = "published", !.lines = IF d \in National THEN Items[d] ELSE @]
        ELSE IF e \in job[w].hit THEN [doc[e] EXCEPT !.status = "superseded"] ELSE doc[e]]
  BY DEF Committed
<1>. DEFINE row == [doc[d] EXCEPT !.status = "published",
                                  !.lines = IF d \in National THEN Items[d] ELSE @]
<1>3. /\ row \in DocRow(d) /\ row.status = "published" /\ row.version = doc[d].version
      /\ d \notin National => row.lines = doc[d].lines
  <2>1. d \in National => Line(d) = Items[d]
    BY <1>1, Kinds
  <2>2. doc[d] \in DocRow(d)
    BY <1>1
  <2>. QED
    BY <2>1, <2>2 DEF DocRow, Status
<1>4. doc'[d] = row
  BY <1>1, <1>2
<1>. HIDE DEF row
<1>5. ASSUME NEW e \in Doc, e # d, e \in job[w].hit
      PROVE  /\ doc'[e] \in DocRow(e) /\ doc'[e].status = "superseded"
             /\ doc'[e].version = doc[e].version /\ doc'[e].lines = doc[e].lines
  <2>1. doc'[e] = [doc[e] EXCEPT !.status = "superseded"]
    BY <1>2, <1>5
  <2>2. doc[e] \in DocRow(e)
    BY <1>1
  <2>. QED
    BY <2>1, <2>2 DEF DocRow, Status
<1>6. \A e \in Doc : e # d /\ e \notin job[w].hit => doc'[e] = doc[e]
  BY <1>2
<1>7. Shaped(doc')
  <2>1. doc' = [e \in Doc |-> doc'[e]]
    BY <1>2
  <2>2. \A e \in Doc : doc[e].status = "absent" => doc[e] = Absent
    BY DEF ListsOK, Shaped
  <2>3. ASSUME NEW e \in Doc
        PROVE  doc'[e] \in DocRow(e) /\ (doc'[e].status = "absent" => doc'[e] = Absent)
    <3>1. CASE e = d
      BY <1>3, <1>4, <3>1
    <3>2. CASE e # d /\ e \in job[w].hit
      BY <1>5, <3>2
    <3>3. CASE e # d /\ e \notin job[w].hit
      BY <1>1, <1>6, <2>2, <3>3
    <3>. QED
      BY <3>1, <3>2, <3>3
  <2>. QED
    BY <2>1, <2>3 DEF Shaped
<1>8. \A e \in Doc : doc'[e].version = doc[e].version
  BY <1>3, <1>4, <1>5, <1>6
<1>9. \A e \in Doc \ National : doc'[e].lines = doc[e].lines
  BY <1>3, <1>4, <1>5, <1>6
<1>10. \A e \in Doc : e \in Made => doc'[e].status # "absent"
  BY <1>3, <1>4, <1>5, <1>6 DEF Made
<1>. QED
  BY <1>1, <1>3, <1>4, <1>5, <1>6, <1>7, <1>8, <1>9, <1>10

\* A catalogue is published: every other one that was is superseded.
LEMMA CatalogPublished ==
  ASSUME ListsOK, NEW w \in Worker, NEW d \in Made, d \in Catalog, job[w].doc = d,
         job[w].hit \subseteq Kind(d) \cap Made, Published(Catalog) \subseteq job[w].hit \cup {d},
         doc' = Committed(w), Dates(published_at', now'), now' = now
  PROVE  Grows
<1>1. /\ Shaped(doc') /\ d \in Doc /\ doc'[d].status = "published"
      /\ \A e \in Doc : e # d /\ e \in job[w].hit => doc'[e].status = "superseded"
      /\ \A e \in Doc : e # d /\ e \notin job[w].hit => doc'[e] = doc[e]
      /\ \A e \in Doc : doc'[e].version = doc[e].version
      /\ \A e \in Doc \ National : doc'[e].lines = doc[e].lines
      /\ \A e \in Doc : e \in Made => doc'[e].status # "absent"
  BY CommittedRows
<1>2. /\ Catalog \subseteq Doc \ National /\ Rtc \cup National \subseteq Doc
      /\ Kind(d) = Catalog /\ Catalog \cap (Rtc \cup National) = {}
  BY <1>1, Kinds, RowAssumption DEF Doc
<1>3. Made \subseteq Made'
  BY <1>1 DEF Made
<1>4. MadeCatalogs' = MadeCatalogs
  <2>1. ASSUME NEW e \in Catalog PROVE doc[e].status # "absent" <=> doc'[e].status # "absent"
    <3>1. e \in Doc /\ (e \in Made <=> doc[e].status # "absent")
      BY <1>2 DEF Made
    <3>2. e = d \/ e \in job[w].hit => e \in Made
      BY <1>2
    <3>. QED
      BY <1>1, <3>1, <3>2
  <2>. QED
    BY <2>1 DEF MadeCatalogs
<1>5. \A e \in Catalog : doc'[e].status = "published" => e = d
  <2>. SUFFICES ASSUME NEW e \in Catalog, doc'[e].status = "published", e # d PROVE FALSE
    OBVIOUS
  <2>1. e \in Doc /\ e \notin job[w].hit
    BY <1>1, <1>2
  <2>2. e \in Published(Catalog)
    BY <1>1, <2>1 DEF Published
  <2>. QED
    BY <2>1, <2>2
<1>6. Numbered(doc') /\ Numbers' = Numbers /\ Ruled \subseteq Ruled'
  <2>1. \A c \in Catalog : doc'[c].version = doc[c].version /\ doc[c].lines \subseteq doc'[c].lines
    BY <1>1, <1>2
  <2>2. \A c, e \in MadeCatalogs : doc'[c].status = "published" /\ doc'[e].status = "published" => c = e
    BY <1>5 DEF MadeCatalogs
  <2>. QED
    BY <1>4, <2>1, <2>2, SameCatalogs
<1>7. Times' = Times
  BY DEF Times
<1>. QED
  BY <1>1, <1>3, <1>6, <1>7 DEF Grows, ListsOK

\* An RTC version or a national list is published.
LEMMA ListPublished ==
  ASSUME ListsOK, NEW w \in Worker, NEW d \in Made \cup National, d \notin Catalog, job[w].doc = d,
         job[w].hit \subseteq Kind(d) \cap Made,
         doc' = Committed(w), Dates(published_at', now'), now' = now
  PROVE  Grows
<1>1. /\ Shaped(doc') /\ d \in Doc /\ doc'[d].status = "published"
      /\ \A e \in Doc : e # d /\ e \in job[w].hit => doc'[e].status = "superseded"
      /\ \A e \in Doc : e # d /\ e \notin job[w].hit => doc'[e] = doc[e]
      /\ \A e \in Doc : doc'[e].version = doc[e].version
      /\ \A e \in Doc \ National : doc'[e].lines = doc[e].lines
      /\ \A e \in Doc : e \in Made => doc'[e].status # "absent"
  BY CommittedRows
<1>2. /\ d \in Rtc \cup National /\ Kind(d) \in {Rtc, National} /\ d \in Kind(d)
      /\ Catalog \subseteq Doc \ National /\ Rtc \cup National \subseteq Doc
      /\ Kind(d) \cap Catalog = {} /\ \A D \in {Rtc, National} : D # Kind(d) => D \cap Kind(d) = {}
  BY <1>1, Kinds, RowAssumption DEF Doc
<1>3. Made \subseteq Made'
  BY <1>1 DEF Made
<1>4. \A e \in Catalog : doc'[e] = doc[e]
  BY <1>1, <1>2
<1>5. Numbered(doc') /\ Numbers' = Numbers /\ Ruled \subseteq Ruled'
  <2>1. MadeCatalogs' = MadeCatalogs
    BY <1>4 DEF MadeCatalogs
  <2>2. \A c, e \in MadeCatalogs : doc'[c].status = "published" /\ doc'[e].status = "published" => c = e
    BY <1>4 DEF ListsOK, Numbered, MadeCatalogs
  <2>. QED
    BY <1>4, <2>1, <2>2, SameCatalogs
<1>6. Times' = Times
  BY DEF Times
<1>. QED
  BY <1>1, <1>3, <1>5, <1>6 DEF Grows, ListsOK

-----------------------------------------------------------------------------
(* Requests *)

LEMMA OneJob ==
  ASSUME JobsOK, NEW w \in Worker
  PROVE  job[w] \in Job /\ Remembered(job[w], Made, Numbers, Ruled, Times)
BY DEF JobsOK

\* What is remembered stays true when the lists grow.
LEMMA JobWrite ==
  ASSUME JobsOK, Grows, NEW w \in Worker, NEW j \in Job,
         Remembered(j, Made', Numbers', Ruled', Times'), job' = [job EXCEPT ![w] = j]
  PROVE  JobsOK'
<1>1. /\ Made \subseteq Made' /\ Numbers \subseteq Numbers' /\ Ruled \subseteq Ruled'
      /\ Times \subseteq Times'
  BY DEF Grows
<1>2. ASSUME NEW v \in Worker
      PROVE  Remembered(job'[v], Made', Numbers', Ruled', Times')
  <2>1. CASE v = w
    BY <2>1 DEF JobsOK
  <2>2. CASE v # w
    <3>1. job'[v] = job[v] /\ Remembered(job[v], Made, Numbers, Ruled, Times)
      BY <2>2 DEF JobsOK
    <3>2. Remembered(job[v], Made', Numbers', Ruled', Times')
      BY <1>1, <3>1 DEF Remembered, Explained
    <3>. QED
      BY <3>1, <3>2
  <2>. QED
    BY <2>1, <2>2
<1>. QED
  BY <1>2 DEF JobsOK

LEMMA JobsStay == ASSUME JobsOK, Grows, job' = job PROVE JobsOK'
<1>1. /\ Made \subseteq Made' /\ Numbers \subseteq Numbers' /\ Ruled \subseteq Ruled'
      /\ Times \subseteq Times'
  BY DEF Grows
<1>2. ASSUME NEW v \in Worker
      PROVE  Remembered(job[v], Made', Numbers', Ruled', Times')
  <2>1. Remembered(job[v], Made, Numbers, Ruled, Times)
    BY DEF JobsOK
  <2>. QED
    BY <1>1, <2>1 DEF Remembered, Explained
<1>. QED
  BY <1>2 DEF JobsOK

LEMMA NoteStays == ASSUME NoteOK, Grows, note' = note PROVE NoteOK'
BY DEF NoteOK, Grows, Explained

LEMMA IdleJob ==
  /\ Idle \in Job /\ Remembered(Idle, Made', Numbers', Ruled', Times')
  /\ Idle.pc = "idle" /\ Idle.op = "none" /\ Idle.doc = None /\ Idle.arg = None /\ Idle.hit = {}
BY DEF Idle, Job, PC, Op, Arg, Remembered

LEMMA JobDone ==
  ASSUME JobsOK, Grows, NEW w \in Worker, Done(w)
  PROVE  JobsOK'
BY IdleJob, JobWrite DEF Done

\* A draft or a request that only asks for one leaves the notes.
LEMMA KeepLists ==
  ASSUME IInv, Grows, JobsOK', note' = note, services' = services,
         left' = left \/ (left > 0 /\ left' = left - 1),
         dates' = dates \/ beside' \in [Worker -> SUBSET Doc]
  PROVE  IInv'
<1>1. MaxRequests \in Nat
  BY FiscalAssumption
<1>2. RestOK'
  BY <1>1 DEF IInv, RestOK, dates
<1>. QED
  BY <1>2, NoteStays DEF IInv, Grows

\* Which requests are at which step.
LEMMA StepOf ==
  ASSUME JobsOK, NEW w \in Worker
  PROVE  /\ job[w].pc \in {"codes", "update", "lock", "save"} <=>
              job[w].op \in {"publish", "import", "seed"}
         /\ job[w].pc \in {"catalog", "rule", "rtc"} <=> job[w].op \in {"emit", "again"}
BY OneJob DEF Remembered, Job, PC, Op

-----------------------------------------------------------------------------
(* Every action keeps the invariant: catalogues *)

LEMMA KeepCreateLoad ==
  ASSUME IInv, NEW w \in Worker, CreateLoad(w)
  PROVE  IInv'
<1>. DEFINE j == [Idle EXCEPT !.pc = "insert", !.op = "create", !.arg = NextVersion]
<1>1. /\ job' = [job EXCEPT ![w] = j] /\ doc' = doc /\ dates' = dates /\ services' = services
      /\ note' = note /\ left > 0 /\ left' = left - 1
  BY DEF CreateLoad, Start
<1>2. Grows
  BY <1>1, SameLists DEF IInv
<1>3. NextVersion \in Numbers /\ Numbers \subseteq Nat /\ Numbers \subseteq Numbers'
  BY <1>2, NextIsNumber, MadeCounts DEF IInv, Numbers, Grows
<1>4. j \in Job /\ j.pc = "insert" /\ j.op = "create" /\ j.arg = NextVersion
  BY <1>3, IdleJob DEF Job, PC, Op, Arg
<1>. HIDE DEF j
<1>5. Remembered(j, Made', Numbers', Ruled', Times')
  BY <1>3, <1>4 DEF Remembered
<1>6. JobsOK'
  BY <1>1, <1>2, <1>4, <1>5, JobWrite DEF IInv
<1>. QED
  BY <1>1, <1>2, <1>6, KeepLists

\* The version that was found free is one of the versions there may be.
LEMMA RoomForVersion ==
  ASSUME ListsOK, NEW c \in Catalog, doc[c].status = "absent"
  PROVE  Numbers \subseteq 0..MaxVersion
<1>1. /\ MadeCatalogs \subseteq Catalog /\ IsFiniteSet(MadeCatalogs)
      /\ Cardinality(MadeCatalogs) \in Nat /\ MaxVersion \in Nat
  BY MadeCounts
<1>2. c \notin MadeCatalogs
  BY DEF MadeCatalogs
<1>3. Cardinality(MadeCatalogs \cup {c}) = Cardinality(MadeCatalogs) + 1
  BY <1>1, <1>2, FS_AddElement
<1>4. Cardinality(MadeCatalogs \cup {c}) <= Cardinality(Catalog)
  BY <1>1, RowAssumption, FS_Subset
<1>. QED
  BY <1>1, <1>3, <1>4 DEF Numbers, MaxVersion

LEMMA KeepCreateInsert ==
  ASSUME IInv, NEW w \in Worker, CreateInsert(w)
  PROVE  IInv'
<1>1. /\ job[w].op = "create" /\ Done(w) /\ dates' = dates /\ services' = services
      /\ note' = note /\ left' = left
  BY DEF CreateInsert
<1>2. job[w].arg \in Numbers
  BY <1>1, OneJob DEF IInv, Remembered
<1>3. Grows
  <2>1. CASE job[w].arg \in Versions
    BY <1>1, <2>1, SameLists DEF IInv, CreateInsert
  <2>2. CASE job[w].arg \notin Versions
    <3>. DEFINE row == [Absent EXCEPT !.status = "draft", !.version = job[w].arg]
    <3>1. PICK c \in Catalog : doc[c] = Absent /\ doc' = [doc EXCEPT ![c] = row]
      BY <2>2 DEF CreateInsert
    <3>2. c \in Doc /\ doc[c].status = "absent"
      BY <3>1 DEF Doc, Absent
    <3>3. job[w].arg \in 0..MaxVersion
      BY <1>2, <3>2, RoomForVersion DEF IInv
    <3>4. row \in DocRow(c) /\ row.status = "draft" /\ row.version = job[w].arg
      BY <3>3 DEF DocRow, Absent, Status
    <3>. HIDE DEF row
    <3>. QED
      BY <1>1, <1>2, <2>2, <3>1, <3>2, <3>4, AddDoc DEF IInv
  <2>. QED
    BY <2>1, <2>2
<1>4. JobsOK'
  BY <1>1, <1>3, JobDone DEF IInv
<1>. QED
  BY <1>1, <1>3, <1>4, KeepLists

LEMMA KeepEditLoad ==
  ASSUME IInv, NEW w \in Worker, NEW c \in Catalog, NEW op, NEW arg, EditLoad(w, c, op, arg),
         (op = "tick" /\ arg \in BOOLEAN) \/ (op = "rule" /\ arg \in Rule)
  PROVE  IInv'
<1>. DEFINE j == [Idle EXCEPT !.pc = "edit", !.op = op, !.doc = c, !.arg = arg]
<1>1. /\ job' = [job EXCEPT ![w] = j] /\ doc' = doc /\ dates' = dates /\ services' = services
      /\ note' = note /\ left > 0 /\ left' = left - 1 /\ doc[c].status = "draft"
  BY DEF EditLoad, Start
<1>2. Grows
  BY <1>1, SameLists DEF IInv
<1>3. c \in Doc /\ c \in Made'
  BY <1>1, <1>2 DEF Made, Doc, Grows
<1>4. j \in Job /\ j.pc = "edit" /\ j.op = op /\ j.doc = c /\ j.arg = arg
  BY <1>3, IdleJob DEF Job, PC, Op, Arg
<1>. HIDE DEF j
<1>5. Remembered(j, Made', Numbers', Ruled', Times')
  BY <1>3, <1>4 DEF Remembered
<1>6. JobsOK'
  BY <1>1, <1>2, <1>4, <1>5, JobWrite DEF IInv
<1>. QED
  BY <1>1, <1>2, <1>6, KeepLists

LEMMA KeepSaveChecklist ==
  ASSUME IInv, NEW w \in Worker, SaveChecklist(w)
  PROVE  IInv'
<1>. DEFINE c == job[w].doc
            row == [doc[c] EXCEPT !.ready = job[w].arg]
<1>1. /\ job[w].op = "tick" /\ Done(w) /\ dates' = dates /\ services' = services
      /\ note' = note /\ left' = left
  BY DEF SaveChecklist
<1>2. c \in Catalog \cap Made /\ job[w].arg \in BOOLEAN
  BY <1>1, OneJob DEF IInv, Remembered
<1>3. c \in Doc /\ doc[c].status # "absent" /\ doc[c] \in DocRow(c)
  BY <1>2, OneList DEF Made, IInv
<1>4. doc' = [doc EXCEPT ![c] = row]
  BY DEF SaveChecklist
<1>5. /\ row \in DocRow(c) /\ row.status = doc[c].status /\ row.version = doc[c].version
      /\ row.lines = doc[c].lines
  BY <1>2, <1>3 DEF DocRow
<1>. HIDE DEF row, c
<1>6. Grows
  BY <1>1, <1>3, <1>4, <1>5, EditDoc DEF IInv
<1>7. JobsOK'
  BY <1>1, <1>6, JobDone DEF IInv
<1>. QED
  BY <1>1, <1>6, <1>7, KeepLists

LEMMA KeepInsertRule ==
  ASSUME IInv, NEW w \in Worker, InsertRule(w)
  PROVE  IInv'
<1>. DEFINE c == job[w].doc
            row == [doc[c] EXCEPT !.lines = @ \cup {job[w].arg}]
<1>1. /\ job[w].op = "rule" /\ Done(w) /\ dates' = dates /\ services' = services
      /\ note' = note /\ left' = left
  BY DEF InsertRule
<1>2. c \in Catalog \cap Made /\ job[w].arg \in Rule
  BY <1>1, OneJob DEF IInv, Remembered
<1>3. c \in Doc /\ doc[c].status # "absent" /\ doc[c] \in DocRow(c) /\ Line(c) = Rule
  BY <1>2, OneList, Kinds DEF Made, IInv
<1>4. doc' = doc \/ doc' = [doc EXCEPT ![c] = row]
  BY DEF InsertRule
<1>5. /\ row \in DocRow(c) /\ row.status = doc[c].status /\ row.version = doc[c].version
      /\ doc[c].lines \subseteq row.lines
  BY <1>2, <1>3 DEF DocRow
<1>. HIDE DEF row, c
<1>6. Grows
  <2>1. CASE doc' = doc
    BY <1>1, <2>1, SameLists DEF IInv
  <2>2. CASE doc' = [doc EXCEPT ![c] = row]
    BY <1>1, <1>3, <1>5, <2>2, EditDoc DEF IInv
  <2>. QED
    BY <1>4, <2>1, <2>2
<1>7. JobsOK'
  BY <1>1, <1>6, JobDone DEF IInv
<1>. QED
  BY <1>1, <1>6, <1>7, KeepLists

-----------------------------------------------------------------------------
(* Every action keeps the invariant: publications *)

LEMMA KeepPublishLoad ==
  ASSUME IInv, NEW w \in Worker, NEW d \in Doc, PublishLoad(w, d)
  PROVE  IInv'
<1>. DEFINE j == [Idle EXCEPT !.pc = "update", !.op = "publish", !.doc = d]
<1>1. /\ job' = [job EXCEPT ![w] = j] /\ doc' = doc /\ dates' = dates /\ services' = services
      /\ note' = note /\ left > 0 /\ left' = left - 1 /\ doc[d].status # "absent"
  BY DEF PublishLoad, Start
<1>2. Grows
  BY <1>1, SameLists DEF IInv
<1>3. d \in Made'
  BY <1>1, <1>2 DEF Made, Grows
<1>4. j \in Job /\ j.pc = "update" /\ j.op = "publish" /\ j.doc = d /\ j.hit = {}
  BY IdleJob DEF Job, PC, Op, Arg
<1>. HIDE DEF j
<1>5. Remembered(j, Made', Numbers', Ruled', Times')
  BY <1>3, <1>4 DEF Remembered
<1>6. JobsOK'
  BY <1>1, <1>2, <1>4, <1>5, JobWrite DEF IInv
<1>. QED
  BY <1>1, <1>2, <1>6, KeepLists

LEMMA KeepImport ==
  ASSUME IInv, NEW w \in Worker, NEW n \in National, NEW publish \in BOOLEAN, Import(w, n, publish)
  PROVE  IInv'
<1>. DEFINE j == [Idle EXCEPT !.pc = "update", !.op = "import", !.doc = n]
            row == [Absent EXCEPT !.status = "draft", !.lines = Items[n]]
<1>1. /\ dates' = dates /\ services' = services /\ note' = note /\ left > 0 /\ left' = left - 1
      /\ doc[n] = Absent
  BY DEF Import, Start
<1>2. n \in Doc /\ doc[n].status = "absent" /\ n \notin Catalog /\ Line(n) = Items[n]
  BY <1>1, Kinds DEF Doc, Absent
<1>3. CASE publish
  <2>1. doc' = doc /\ job' = [job EXCEPT ![w] = j]
    BY <1>3 DEF Import
  <2>2. Grows
    BY <1>1, <2>1, SameLists DEF IInv
  <2>3. j \in Job /\ j.pc = "update" /\ j.op = "import" /\ j.doc = n /\ j.hit = {}
    BY <1>2, IdleJob DEF Job, PC, Op, Arg
  <2>. HIDE DEF j
  <2>4. Remembered(j, Made', Numbers', Ruled', Times')
    BY <2>3 DEF Remembered
  <2>5. JobsOK'
    BY <2>1, <2>2, <2>3, <2>4, JobWrite DEF IInv
  <2>. QED
    BY <1>1, <2>2, <2>5, KeepLists
<1>4. CASE ~publish
  <2>1. doc' = [doc EXCEPT ![n] = row] /\ job' = job
    BY <1>4 DEF Import
  <2>2. row \in DocRow(n) /\ row.status = "draft"
    <3>1. 0 \in 0..MaxVersion
      BY MadeCounts DEF IInv
    <3>. QED
      BY <1>2, <3>1 DEF DocRow, Absent, Status
  <2>. HIDE DEF row
  <2>3. Grows
    BY <1>1, <1>2, <2>1, <2>2, AddDoc DEF IInv
  <2>4. JobsOK'
    BY <2>1, <2>3, JobsStay DEF IInv
  <2>. QED
    BY <1>1, <2>3, <2>4, KeepLists
<1>. QED
  BY <1>3, <1>4

LEMMA KeepCreateRtc ==
  ASSUME IInv, NEW w \in Worker, NEW d \in Rtc, NEW codes \in SUBSET RtcCode, CreateRtc(w, d, codes)
  PROVE  IInv'
<1>. DEFINE row == [Absent EXCEPT !.status = "draft", !.lines = codes]
<1>1. /\ doc' = [doc EXCEPT ![d] = row] /\ job' = job
      /\ dates' = dates /\ services' = services /\ note' = note /\ left > 0 /\ left' = left - 1
      /\ doc[d] = Absent
  BY DEF CreateRtc, Start
<1>2. d \in Doc /\ doc[d].status = "absent" /\ d \notin Catalog /\ Line(d) = RtcCode
  BY <1>1, Kinds DEF Doc, Absent
<1>3. row \in DocRow(d) /\ row.status = "draft"
  <2>1. 0 \in 0..MaxVersion
    BY MadeCounts DEF IInv
  <2>. QED
    BY <1>2, <2>1 DEF DocRow, Absent, Status
<1>. HIDE DEF row
<1>4. Grows
  BY <1>1, <1>2, <1>3, AddDoc DEF IInv
<1>5. JobsOK'
  BY <1>1, <1>4, JobsStay DEF IInv
<1>. QED
  BY <1>1, <1>4, <1>5, KeepLists

LEMMA KeepSeedCreate ==
  ASSUME IInv, NEW w \in Worker, SeedCreate(w)
  PROVE  IInv'
<1>. DEFINE row == [doc[Seed] EXCEPT !.status = "draft"]
            j == [Idle EXCEPT !.pc = "codes", !.op = "seed", !.doc = Seed, !.arg = doc[Seed].status]
<1>1. /\ doc' = IF doc[Seed] = Absent THEN [doc EXCEPT ![Seed] = row] ELSE doc
      /\ job' = [job EXCEPT ![w] = j]
      /\ dates' = dates /\ services' = services /\ note' = note /\ left > 0 /\ left' = left - 1
  BY DEF SeedCreate, Start
<1>2. /\ Seed \in Doc /\ Seed \notin Catalog /\ doc[Seed] \in DocRow(Seed)
      /\ doc[Seed].status \in Status
      /\ doc[Seed] # Absent => doc[Seed].status # "absent"
  <2>1. Seed \in Rtc /\ Seed \in Doc
    BY FiscalAssumption DEF Doc
  <2>2. doc[Seed].status = "absent" => doc[Seed] = Absent
    BY <2>1 DEF IInv, ListsOK, Shaped
  <2>. QED
    BY <2>1, <2>2, OneList, Kinds DEF IInv
<1>3. Grows /\ Seed \in Made'
  <2>1. CASE doc[Seed] = Absent
    <3>0. doc[Seed].status = "absent"
      BY <2>1 DEF Absent
    <3>1. row \in DocRow(Seed) /\ row.status = "draft" /\ doc[Seed].status = "absent"
      BY <1>2, <3>0 DEF DocRow, Status
    <3>. HIDE DEF row
    <3>2. doc' = [doc EXCEPT ![Seed] = row]
      BY <1>1, <2>1
    <3>3. Grows
      BY <1>1, <1>2, <3>1, <3>2, AddDoc DEF IInv
    <3>4. doc'[Seed] = row
      BY <1>2, <3>1, <3>2, ChangedRow DEF IInv
    <3>. QED
      BY <1>2, <3>1, <3>3, <3>4 DEF Made
  <2>2. CASE doc[Seed] # Absent
    BY <1>1, <1>2, <2>2, SameLists DEF IInv, Made
  <2>. QED
    BY <2>1, <2>2
<1>4. j \in Job /\ j.pc = "codes" /\ j.op = "seed" /\ j.doc = Seed /\ j.hit = {}
  BY <1>2, IdleJob DEF Job, PC, Op, Arg
<1>. HIDE DEF j
<1>5. Remembered(j, Made', Numbers', Ruled', Times')
  BY <1>3, <1>4 DEF Remembered
<1>6. JobsOK'
  BY <1>1, <1>3, <1>4, <1>5, JobWrite DEF IInv
<1>. QED
  BY <1>1, <1>3, <1>6, KeepLists

LEMMA KeepSeedCodes ==
  ASSUME IInv, NEW w \in Worker, SeedCodes(w)
  PROVE  IInv'
<1>. DEFINE row == [doc[Seed] EXCEPT !.lines = RtcCode]
            j == [job[w] EXCEPT !.pc = "update"]
<1>1. /\ doc' = [doc EXCEPT ![Seed] = row] /\ job[w].pc = "codes"
      /\ Done(w) \/ job' = [job EXCEPT ![w] = j]
      /\ dates' = dates /\ services' = services /\ note' = note /\ left' = left
  BY DEF SeedCodes, Goto
<1>2. job[w] \in Job /\ Remembered(job[w], Made, Numbers, Ruled, Times)
      /\ job[w].op \in {"publish", "import", "seed"}
  BY <1>1, OneJob, StepOf DEF IInv
<1>3. Seed \in Made
  BY <1>1, <1>2 DEF Remembered
<1>4. /\ Seed \in Doc /\ Seed \notin Catalog /\ doc[Seed].status # "absent"
      /\ doc[Seed] \in DocRow(Seed) /\ Line(Seed) = RtcCode
  <2>1. Seed \in Rtc /\ Seed \in Doc
    BY FiscalAssumption DEF Doc
  <2>. QED
    BY <1>3, <2>1, OneList, Kinds DEF IInv, Made
<1>5. row \in DocRow(Seed) /\ row.status = doc[Seed].status /\ row.version = doc[Seed].version
  BY <1>4 DEF DocRow
<1>. HIDE DEF row
<1>6. Grows
  BY <1>1, <1>4, <1>5, EditDoc DEF IInv
<1>7. JobsOK'
  <2>1. CASE Done(w)
    BY <1>6, <2>1, JobDone DEF IInv
  <2>2. CASE job' = [job EXCEPT ![w] = j]
    <3>1. /\ j \in Job /\ j.pc = "update" /\ j.op = job[w].op /\ j.doc = job[w].doc
          /\ j.hit = job[w].hit
      BY <1>2 DEF Job, PC
    <3>. HIDE DEF j
    <3>2. Remembered(j, Made', Numbers', Ruled', Times')
      BY <1>2, <1>6, <3>1 DEF Remembered, Grows
    <3>. QED
      BY <1>6, <2>2, <3>1, <3>2, JobWrite DEF IInv
  <2>. QED
    BY <1>1, <2>1, <2>2
<1>. QED
  BY <1>1, <1>6, <1>7, KeepLists

LEMMA KeepPublishUpdate ==
  ASSUME IInv, NEW w \in Worker, PublishUpdate(w)
  PROVE  IInv'
<1>. DEFINE d == job[w].doc
            seen == Published(Kind(d)) \ (IF d \in Catalog THEN {} ELSE {d})
            j == [job[w] EXCEPT !.pc = "lock", !.arg = seen]
<1>1. /\ job[w].pc = "update" /\ doc' = doc /\ dates' = dates /\ services' = services
      /\ note' = note /\ left' = left
  BY DEF PublishUpdate
<1>2. /\ job[w] \in Job /\ Remembered(job[w], Made, Numbers, Ruled, Times)
      /\ job[w].op \in {"publish", "import", "seed"} /\ job \in [Worker -> Job]
  BY <1>1, OneJob, StepOf DEF IInv, JobsOK
<1>3. job' = [job EXCEPT ![w] = j]
  BY <1>2 DEF PublishUpdate
<1>4. seen \subseteq Kind(d) /\ seen \subseteq Doc
  <2>1. d \in Doc
    BY <1>2 DEF Remembered, Made, Doc
  <2>. QED
    BY <2>1, Kinds DEF Published
<1>. HIDE DEF seen
<1>5. /\ j \in Job /\ j.pc = "lock" /\ j.op = job[w].op /\ j.doc = d
      /\ j.hit = job[w].hit /\ j.arg = seen
  BY <1>2, <1>4 DEF Job, PC, Arg
<1>. HIDE DEF j
<1>6. Grows
  BY <1>1, SameLists DEF IInv
<1>7. Remembered(j, Made', Numbers', Ruled', Times')
  BY <1>2, <1>4, <1>5, <1>6 DEF Remembered, Grows
<1>8. JobsOK'
  BY <1>3, <1>5, <1>6, <1>7, JobWrite DEF IInv
<1>. QED
  BY <1>1, <1>6, <1>8, KeepLists

LEMMA KeepPublishLock ==
  ASSUME IInv, NEW w \in Worker, PublishLock(w)
  PROVE  IInv'
<1>. DEFINE hit == Published(job[w].arg)
            j == [job[w] EXCEPT !.pc = "save", !.hit = hit, !.arg = now + 1]
<1>1. /\ job[w].pc = "lock" /\ doc' = doc /\ published_at' = published_at /\ now' = now + 1
      /\ beside' = beside /\ services' = services /\ note' = note /\ left' = left
  BY DEF PublishLock
<1>2. /\ job[w] \in Job /\ Remembered(job[w], Made, Numbers, Ruled, Times)
      /\ job[w].op \in {"publish", "import", "seed"} /\ job \in [Worker -> Job]
  BY <1>1, OneJob, StepOf DEF IInv, JobsOK
<1>3. job' = [job EXCEPT ![w] = j]
  BY <1>2 DEF PublishLock
<1>4. hit \subseteq Kind(job[w].doc) \cap Made
  <2>1. job[w].doc \in Doc /\ job[w].arg \subseteq Kind(job[w].doc)
    BY <1>1, <1>2 DEF Remembered, Made, Doc
  <2>2. Kind(job[w].doc) \subseteq Doc
    BY <2>1, Kinds
  <2>. QED
    BY <2>1, <2>2 DEF Published, Made
<1>. HIDE DEF hit
<1>5. hit \subseteq Doc /\ now \in Nat /\ now + 1 \in Nat
  <2>1. now \in Nat
    BY DEF IInv, ListsOK, Dates
  <2>. QED
    BY <1>4, <2>1 DEF Made
<1>6. /\ j \in Job /\ j.pc = "save" /\ j.op = job[w].op /\ j.doc = job[w].doc
      /\ j.hit = hit /\ j.arg = now + 1
  BY <1>2, <1>5 DEF Job, PC, Arg
<1>. HIDE DEF j
<1>7. Times \subseteq Times' /\ now + 1 \in Times' /\ Dates(published_at', now')
  BY <1>1, <1>5 DEF Times, IInv, ListsOK, Dates
<1>8. Grows
  BY <1>1, <1>7 DEF Grows, IInv, ListsOK, Made, Numbers, Ruled, MadeCatalogs
<1>9. Remembered(j, Made', Numbers', Ruled', Times')
  <2>1. Made \subseteq Made'
    BY <1>8 DEF Grows
  <2>2. j.doc \in Made' \cup National /\ j.hit \subseteq Kind(j.doc) \cap Made'
    BY <1>2, <1>4, <1>6, <2>1 DEF Remembered
  <2>. QED
    BY <1>2, <1>6, <1>7, <2>2 DEF Remembered
<1>10. JobsOK'
  BY <1>3, <1>6, <1>8, <1>9, JobWrite DEF IInv
<1>11. beside' \in [Worker -> SUBSET Doc]
  BY <1>1 DEF IInv, RestOK
<1>. QED
  BY <1>1, <1>8, <1>10, <1>11, KeepLists

\* Nothing is taken back when a publication commits or is refused.
LEMMA SaveGrows ==
  ASSUME IInv, NEW w \in Worker, PublishSave(w)
  PROVE  Grows
<1>. DEFINE d == job[w].doc
<1>1. /\ job[w].pc = "save" /\ now' = now
      /\ doc' = IF Refused(w) THEN doc ELSE Committed(w)
      /\ published_at' = [e \in Rtc \cup National |-> IF e = d THEN job[w].arg ELSE published_at[e]]
  BY DEF PublishSave
<1>2. /\ job[w] \in Job /\ Remembered(job[w], Made, Numbers, Ruled, Times)
      /\ job[w].op \in {"publish", "import", "seed"}
  BY <1>1, OneJob, StepOf DEF IInv
<1>3. d \in Made \cup National /\ job[w].hit \subseteq Kind(d) \cap Made /\ job[w].arg \in Times
  BY <1>1, <1>2 DEF Remembered
<1>4. Dates(published_at', now') /\ Times' = Times
  <2>1. Dates(published_at, now)
    BY DEF IInv, ListsOK
  <2>. QED
    BY <1>1, <1>3, <2>1 DEF Dates, Times
<1>5. CASE Refused(w)
  BY <1>1, <1>4, <1>5 DEF IInv, ListsOK, Grows, Made, Numbers, Ruled, MadeCatalogs
<1>6. CASE ~Refused(w) /\ d \in Catalog
  <2>1. d \in Made
    BY <1>3, <1>6, RowAssumption
  <2>2. Published(Catalog) \subseteq job[w].hit \cup {d} /\ doc' = Committed(w)
    BY <1>1, <1>6 DEF Refused
  <2>3. job[w].doc = d /\ d \in Catalog
    BY <1>6
  <2>. HIDE DEF d
  <2>. QED
    BY <1>1, <1>3, <1>4, <2>1, <2>2, <2>3, CatalogPublished DEF IInv
<1>7. CASE d \notin Catalog
  <2>1. doc' = Committed(w)
    BY <1>1, <1>7 DEF Refused
  <2>2. job[w].doc = d /\ d \notin Catalog
    BY <1>7
  <2>. HIDE DEF d
  <2>. QED
    BY <1>1, <1>3, <1>4, <2>1, <2>2, ListPublished DEF IInv
<1>. QED
  BY <1>5, <1>6, <1>7

LEMMA BesideTyped ==
  ASSUME IInv, NEW w \in Worker,
         beside' = [beside EXCEPT ![w] = {}] \/ (beside' = SideBySide(w) /\ job[w].doc \in Doc)
  PROVE  beside' \in [Worker -> SUBSET Doc]
BY DEF IInv, RestOK, SideBySide

LEMMA KeepPublishSave ==
  ASSUME IInv, NEW w \in Worker, PublishSave(w)
  PROVE  IInv'
<1>1. Grows
  BY SaveGrows
<1>2. /\ Done(w) /\ services' = services /\ note' = note /\ left' = left /\ job[w].pc = "save"
      /\ beside' = [beside EXCEPT ![w] = {}] \/ beside' = SideBySide(w)
  BY DEF PublishSave
<1>3. JobsOK'
  BY <1>1, <1>2, JobDone DEF IInv
<1>4. job[w].doc \in Doc
  BY <1>2, OneJob, StepOf DEF IInv, Remembered, Made, Doc
<1>5. beside' \in [Worker -> SUBSET Doc]
  BY <1>2, <1>4, BesideTyped
<1>. QED
  BY <1>1, <1>2, <1>3, <1>5, KeepLists

LEMMA KeepAbort ==
  ASSUME IInv, NEW w \in Worker, Abort(w) \/ EmitAborts(w)
  PROVE  IInv'
<1>1. /\ Done(w) /\ doc' = doc /\ published_at' = published_at /\ now' = now
      /\ services' = services /\ note' = note /\ left' = left
      /\ beside' = beside \/ beside' = [beside EXCEPT ![w] = {}]
  BY DEF Abort, EmitAborts, dates
<1>2. Grows
  BY <1>1 DEF Grows, Times, IInv, ListsOK, Made, Numbers, Ruled, MadeCatalogs
<1>3. JobsOK'
  BY <1>1, <1>2, JobDone DEF IInv
<1>4. beside' \in [Worker -> SUBSET Doc]
  BY <1>1, BesideTyped DEF IInv, RestOK
<1>. QED
  BY <1>1, <1>2, <1>3, <1>4, KeepLists

-----------------------------------------------------------------------------
(* Every action keeps the invariant: services and notes *)

LEMMA KeepMaterialize ==
  ASSUME IInv, NEW all \in BOOLEAN, Materialize(all)
  PROVE  IInv'
<1>. DEFINE list == InForce(National)
            has(n) == {s \in services : s.code = n \/ s.nacional = n}
            of(s, n) == [code |-> s.code, nacional |-> n, lc116 |-> Hint[n]]
            own(n) == [code |-> n, nacional |-> n, lc116 |-> Hint[n]]
            new == {of(p[1], p[2]) : p \in {q \in services \X Lines(list) : q[1] \in has(q[2])}}
<1>1. /\ doc' = doc /\ dates' = dates /\ note' = note /\ job' = job
      /\ left > 0 /\ left' = left - 1 /\ list # None
  BY DEF Materialize
<1>2. Grows
  BY <1>1, SameLists DEF IInv
<1>3. JobsOK' /\ NoteOK' /\ ListsOK'
  BY <1>1, <1>2, JobsStay, NoteStays DEF IInv, Grows
<1>4. services' \subseteq services \cup new \cup {own(n) : n \in Lines(list)}
  BY DEF Materialize
<1>5. Lines(list) \subseteq NatCode
  <2>1. list \in National
    BY <1>1, ForceIsPublished DEF IInv, Published
  <2>2. doc[list].lines \subseteq Items[list]
    BY <2>1, OneList, Kinds DEF IInv, Doc
  <2>. QED
    BY <1>1, <2>1, <2>2 DEF Lines, NatCode
<1>. HIDE DEF list
<1>6. services \subseteq Service
  BY DEF IInv, RestOK
<1>7. ASSUME NEW n \in Lines(list) PROVE own(n) \in Service
  BY <1>5, ServiceAssumption
<1>8. ASSUME NEW n \in Lines(list), NEW s \in has(n) PROVE of(s, n) \in Service
  <2>1. n \in NatCode /\ s \in Service /\ n \in {s.code, s.nacional}
    BY <1>5, <1>6
  <2>. QED
    BY <2>1, ServiceAssumption
<1>9. new \subseteq Service
  <2>. SUFFICES ASSUME NEW p \in services \X Lines(list), p[1] \in has(p[2])
                PROVE  of(p[1], p[2]) \in Service
    OBVIOUS
  <2>1. p[2] \in Lines(list)
    OBVIOUS
  <2>. HIDE DEF has, of
  <2>. QED
    BY <1>8, <2>1
<1>. HIDE DEF new, own
<1>10. services' \subseteq Service
  BY <1>4, <1>6, <1>7, <1>9
<1>11. RestOK'
  BY <1>1, <1>10, FiscalAssumption DEF IInv, RestOK, dates
<1>. QED
  BY <1>3, <1>11 DEF IInv

LEMMA NoNoteYet ==
  /\ NoNote \in Note /\ NoNote.status = "none" /\ NoNote.tax = None
BY DEF NoNote, Note

LEMMA KeepEmitBegin ==
  ASSUME IInv, NEW w \in Worker, NEW s \in Service, NEW day \in Day, NEW amount \in Amount,
         EmitBegin(w, s, day, amount)
  PROVE  IInv'
<1>. DEFINE n == [NoNote EXCEPT !.status = "pending_tax", !.service = s, !.day = day, !.amount = amount]
            j == [Idle EXCEPT !.pc = "catalog", !.op = "emit", !.arg = n]
<1>1. /\ job' = [job EXCEPT ![w] = j] /\ doc' = doc /\ dates' = dates /\ services' = services
      /\ note' = note /\ left > 0 /\ left' = left - 1
  BY DEF EmitBegin, Start
<1>2. Grows
  BY <1>1, SameLists DEF IInv
<1>3. n \in Note /\ n.service = s /\ n.day = day /\ n.amount = amount
  BY NoNoteYet DEF Note
<1>. HIDE DEF n
<1>4. j \in Job /\ j.pc = "catalog" /\ j.op = "emit" /\ j.arg = n
  BY <1>3, IdleJob DEF Job, PC, Op, Arg
<1>. HIDE DEF j
<1>5. Remembered(j, Made', Numbers', Ruled', Times')
  BY <1>3, <1>4 DEF Remembered
<1>6. JobsOK'
  BY <1>1, <1>2, <1>4, <1>5, JobWrite DEF IInv
<1>. QED
  BY <1>1, <1>2, <1>6, KeepLists

LEMMA KeepReprocessBegin ==
  ASSUME IInv, NEW w \in Worker, ReprocessBegin(w)
  PROVE  IInv'
<1>. DEFINE j == [Idle EXCEPT !.pc = "catalog", !.op = "again", !.arg = note]
<1>1. /\ job' = [job EXCEPT ![w] = j] /\ doc' = doc /\ dates' = dates /\ services' = services
      /\ note' = note /\ left > 0 /\ left' = left - 1 /\ note.status = "rejected"
  BY DEF ReprocessBegin, Start
<1>2. Grows
  BY <1>1, SameLists DEF IInv
<1>3. note \in Note /\ note.service \in Service /\ note.day \in Day /\ note.amount \in Amount
  BY <1>1 DEF IInv, NoteOK
<1>4. j \in Job /\ j.pc = "catalog" /\ j.op = "again" /\ j.arg = note
  BY <1>3, IdleJob DEF Job, PC, Op, Arg
<1>. HIDE DEF j
<1>5. Remembered(j, Made', Numbers', Ruled', Times')
  BY <1>3, <1>4 DEF Remembered
<1>6. JobsOK'
  BY <1>1, <1>2, <1>4, <1>5, JobWrite DEF IInv
<1>. QED
  BY <1>1, <1>2, <1>6, KeepLists

\* The note of a request is refused.
LEMMA KeepReject ==
  ASSUME IInv, NEW w \in Worker, job[w].pc \in {"catalog", "rule", "rtc"}, Reject(w),
         UNCHANGED <<doc, dates, services, left>>
  PROVE  IInv'
<1>1. job[w].op \in {"emit", "again"}
  BY StepOf DEF IInv
<1>2. Grows
  BY SameLists DEF IInv
<1>3. JobsOK'
  BY <1>2, JobDone DEF IInv, Reject
<1>4. NoteOK'
  <2>. DEFINE n == job[w].arg
              m == [n EXCEPT !.status = "rejected"]
  <2>1. n \in Note /\ n.service \in Service /\ n.day \in Day /\ n.amount \in Amount
    BY <1>1, OneJob DEF IInv, Remembered
  <2>2. /\ m \in Note /\ m.status = "rejected" /\ m.service = n.service /\ m.day = n.day
        /\ m.amount = n.amount
    BY <2>1 DEF Note
  <2>3. note' = m
    BY DEF Reject
  <2>. HIDE DEF m
  <2>. QED
    BY <2>1, <2>2, <2>3 DEF NoteOK
<1>5. RestOK'
  BY DEF IInv, RestOK, dates
<1>. QED
  BY <1>2, <1>3, <1>4, <1>5 DEF IInv, Grows

LEMMA KeepReadCatalog ==
  ASSUME IInv, NEW w \in Worker, ReadCatalog(w)
  PROVE  IInv'
<1>1. job[w].pc = "catalog" /\ UNCHANGED <<doc, dates, services, left>>
  BY DEF ReadCatalog
<1>2. CASE Reject(w)
  BY <1>1, <1>2, KeepReject
<1>3. CASE ~Reject(w)
  <2>1. PICK c \in Published(Catalog) :
          job' = [job EXCEPT ![w].pc = "rule", ![w].doc = c] /\ note' = note
    BY <1>3 DEF ReadCatalog
  <2>. DEFINE j == [job[w] EXCEPT !.pc = "rule", !.doc = c]
  <2>2. /\ job[w] \in Job /\ Remembered(job[w], Made, Numbers, Ruled, Times)
        /\ job[w].op \in {"emit", "again"} /\ job \in [Worker -> Job]
    BY <1>1, OneJob, StepOf DEF IInv, JobsOK
  <2>3. job' = [job EXCEPT ![w] = j]
    BY <2>1, <2>2
  <2>4. Grows
    BY <1>1, SameLists DEF IInv
  <2>5. c \in Catalog \cap Made' /\ c \in Doc
    BY <2>4 DEF Published, Made, Doc, Grows
  <2>6. j \in Job /\ j.pc = "rule" /\ j.op = job[w].op /\ j.doc = c /\ j.arg = job[w].arg
    BY <2>2, <2>5 DEF Job, PC
  <2>. HIDE DEF j
  <2>7. Remembered(j, Made', Numbers', Ruled', Times')
    BY <2>2, <2>5, <2>6 DEF Remembered
  <2>8. JobsOK'
    BY <2>3, <2>4, <2>6, <2>7, JobWrite DEF IInv
  <2>. QED
    BY <1>1, <2>1, <2>4, <2>8, KeepLists
<1>. QED
  BY <1>2, <1>3

\* A rule that is found is in the catalogue and in force.
LEMMA ResolvedIsRule ==
  ASSUME NEW c, NEW s, NEW day, NEW r \in Resolved(c, s, day)
  PROVE  r \in doc[c].lines /\ InTime(r, day)
<1>. DEFINE base == {q \in doc[c].lines : InTime(q, day)}
            of(i) == {q \in base : q.code = Candidates(s)[i]}
<1>1. \A R : Best(R) \subseteq R
  BY DEF Best
<1>2. \E i : r \in Best(of(i)) \/ r \in Best(base)
  BY DEF Resolved
<1>. QED
  BY <1>1, <1>2

LEMMA ShareIsNatural ==
  ASSUME NEW cents \in Nat, NEW rate \in Nat
  PROVE  Share(cents, rate) \in Nat
<1>. DEFINE p == cents * rate
<1>1. p \in Nat
  OBVIOUS
<1>2. Share(cents, rate) = (2 * p + 10000) \div (2 * 10000)
  BY DEF Share, RoundHalfUp
<1>. HIDE DEF p
<1>. QED
  BY <1>1, <1>2

LEMMA RateIsNatural == \A rate \in Rate : rate \in Nat
BY DEF Rate

LEMMA RatesAreNatural ==
  ASSUME NEW r \in Rule, NEW amount \in Amount
  PROVE  amount \in Nat /\ r.iss \in Nat /\ r.pis \in Nat /\ r.cofins \in Nat
<1>1. r.iss \in Rate /\ r.pis \in Rate /\ r.cofins \in Rate
  BY RateAssumption
<1>2. amount \in Nat
  BY FiscalAssumption
<1>. QED
  BY <1>1, <1>2, RateIsNatural

\* The base of a note, and the two rates that add up to one per thousand.
LEMMA AssessedParts ==
  ASSUME NEW r \in Rule, NEW day \in Day, NEW amount \in Amount
  PROVE  \E base \in Nat : \E uf, mun \in 0..10 :
           /\ uf + mun = 10 /\ (uf = 10 \/ uf = 5)
           /\ Assessed(r, day, amount) =
                [base |-> base, cbs |-> Share(base, TEST_CBS), ibs |-> Share(base, uf) + Share(base, mun)]
<1>. DEFINE iss == Share(amount, r.iss)
            other == IF day <= LastTestDay THEN Share(amount, r.pis) + Share(amount, r.cofins) ELSE 0
            base == IF amount > iss + other THEN amount - iss - other ELSE 0
            uf == IF day <= LastTestDay THEN 10 ELSE 5
            mun == IF day <= LastTestDay THEN 0 ELSE 5
<1>1. amount \in Nat /\ r.iss \in Nat /\ r.pis \in Nat /\ r.cofins \in Nat
  BY RatesAreNatural
<1>2. iss \in Nat /\ Share(amount, r.pis) \in Nat /\ Share(amount, r.cofins) \in Nat
  BY <1>1, ShareIsNatural
<1>3. base \in Nat
  BY <1>1, <1>2
<1>4. uf \in 0..10 /\ mun \in 0..10 /\ uf + mun = 10 /\ (uf = 10 \/ uf = 5)
  <2>1. (uf = 10 /\ mun = 0) \/ (uf = 5 /\ mun = 5)
    OBVIOUS
  <2>. HIDE DEF uf, mun
  <2>. QED
    BY <2>1
<1>5. Assessed(r, day, amount) =
        [base |-> base, cbs |-> Share(base, TEST_CBS), ibs |-> Share(base, uf) + Share(base, mun)]
  BY DEF Assessed
<1>. HIDE DEF base, uf, mun
<1>. QED
  BY <1>3, <1>4, <1>5

LEMMA AssessedIsTax ==
  ASSUME NEW r \in Rule, NEW day \in Day, NEW amount \in Amount
  PROVE  Assessed(r, day, amount) \in Tax
<1>1. PICK base \in Nat, uf \in 0..10, mun \in 0..10 :
        Assessed(r, day, amount) =
          [base |-> base, cbs |-> Share(base, TEST_CBS), ibs |-> Share(base, uf) + Share(base, mun)]
  BY AssessedParts
<1>2. TEST_CBS \in Nat /\ uf \in Nat /\ mun \in Nat
  BY RateAssumption, RateIsNatural
<1>3. Share(base, TEST_CBS) \in Nat /\ Share(base, uf) \in Nat /\ Share(base, mun) \in Nat
  BY <1>2, ShareIsNatural
<1>. QED
  BY <1>1, <1>3 DEF Tax

LEMMA KeepReadRule ==
  ASSUME IInv, NEW w \in Worker, ReadRule(w)
  PROVE  IInv'
<1>. DEFINE c == job[w].doc
            n == job[w].arg
<1>1. job[w].pc = "rule" /\ UNCHANGED <<doc, dates, services, left>>
  BY DEF ReadRule
<1>2. /\ job[w] \in Job /\ Remembered(job[w], Made, Numbers, Ruled, Times)
      /\ job[w].op \in {"emit", "again"} /\ job \in [Worker -> Job]
  BY <1>1, OneJob, StepOf DEF IInv, JobsOK
<1>3. /\ c \in Catalog \cap Made /\ n \in Note
      /\ n.service \in Service /\ n.day \in Day /\ n.amount \in Amount
  BY <1>1, <1>2 DEF Remembered
<1>4. Grows
  BY <1>1, SameLists DEF IInv
<1>5. CASE Reject(w)
  BY <1>1, <1>5, KeepReject
<1>6. CASE ~Reject(w)
  <2>1. PICK r \in Resolved(c, n.service, n.day) :
          LET m == [n EXCEPT !.rule = r, !.version = VersionOf(c), !.rtc = None, !.tax = None] IN
          IF job[w].op = "again"
          THEN note' = [m EXCEPT !.status = "queued"] /\ Done(w)
          ELSE job' = [job EXCEPT ![w].pc = "rtc", ![w].arg = m] /\ UNCHANGED note
    BY <1>6 DEF ReadRule
  <2>. DEFINE m == [n EXCEPT !.rule = r, !.version = VersionOf(c), !.rtc = None, !.tax = None]
  <2>2. r \in doc[c].lines /\ InTime(r, n.day)
    BY <2>1, ResolvedIsRule
  <2>3. r \in Rule
    <3>1. c \in Doc /\ c \in Catalog
      BY <1>3 DEF Doc
    <3>2. doc[c].lines \subseteq Rule
      BY <3>1, OneList, Kinds DEF IInv
    <3>. QED
      BY <2>2, <3>2
  <2>4. /\ c \in MadeCatalogs /\ doc[c].version \in Numbers /\ doc[c].version \in 1..MaxVersion
    <3>1. c \in MadeCatalogs
      BY <1>3, MadeCounts DEF IInv
    <3>2. /\ doc[c].version \in 1..Cardinality(MadeCatalogs) /\ Cardinality(MadeCatalogs) \in Nat
          /\ MaxVersion \in Nat /\ Cardinality(MadeCatalogs) <= MaxVersion
      BY <3>1, MadeCounts DEF IInv
    <3>. QED
      BY <3>1, <3>2 DEF Numbers
  <2>5. /\ m \in Note /\ m.service = n.service /\ m.day = n.day /\ m.amount = n.amount
        /\ m.rule = r /\ m.version = doc[c].version /\ m.tax = None
    BY <1>3, <2>3, <2>4 DEF Note, VersionOf
  <2>6. Explained(m, Ruled)
    <3>1. <<doc[c].version, r>> \in Ruled
      BY <2>2, <2>3, <2>4 DEF Ruled
    <3>. QED
      BY <2>2, <2>3, <2>5, <3>1 DEF Explained
  <2>7. Explained(m, Ruled')
    BY <1>4, <2>6 DEF Explained, Grows
  <2>8. CASE job[w].op = "again"
    <3>. DEFINE q == [m EXCEPT !.status = "queued"]
    <3>1. note' = q /\ Done(w)
      BY <2>1, <2>8
    <3>. HIDE DEF m
    <3>2. /\ q \in Note /\ q.status = "queued" /\ q.tax = None /\ q.rule = m.rule
          /\ q.version = m.version /\ q.day = m.day
      BY <2>5 DEF Note
    <3>. HIDE DEF q
    <3>3. NoteOK'
      BY <2>7, <3>1, <3>2 DEF NoteOK, Explained
    <3>4. JobsOK'
      BY <1>4, <3>1, JobDone DEF IInv
    <3>. QED
      BY <1>1, <1>4, <3>3, <3>4 DEF IInv, RestOK, Grows, dates
  <2>9. CASE job[w].op # "again"
    <3>. DEFINE j == [job[w] EXCEPT !.pc = "rtc", !.arg = m]
    <3>1. job' = [job EXCEPT ![w].pc = "rtc", ![w].arg = m] /\ note' = note
      BY <2>1, <2>9
    <3>. HIDE DEF m
    <3>2. job' = [job EXCEPT ![w] = j]
      BY <1>2, <3>1
    <3>3. j \in Job /\ j.pc = "rtc" /\ j.op = job[w].op /\ j.arg = m
      BY <1>2, <2>5 DEF Job, PC, Arg
    <3>. HIDE DEF j
    <3>4. Remembered(j, Made', Numbers', Ruled', Times')
      BY <1>2, <1>3, <2>5, <2>7, <3>3 DEF Remembered
    <3>5. JobsOK'
      BY <1>4, <3>2, <3>3, <3>4, JobWrite DEF IInv
    <3>. QED
      BY <1>1, <1>4, <3>1, <3>5, KeepLists
  <2>. QED
    BY <2>8, <2>9
<1>. QED
  BY <1>5, <1>6

LEMMA KeepReadRtc ==
  ASSUME IInv, NEW w \in Worker, ReadRtc(w)
  PROVE  IInv'
<1>. DEFINE n == job[w].arg
            v == InForce(Rtc)
            rtc == IF MODE = "off" THEN None ELSE v
            tax == IF MODE = "off" THEN None ELSE Assessed(n.rule, n.day, n.amount)
            q == [n EXCEPT !.status = "queued", !.rtc = rtc, !.tax = tax]
<1>1. job[w].pc = "rtc" /\ UNCHANGED <<doc, dates, services, left>>
  BY DEF ReadRtc
<1>2. Grows
  BY <1>1, SameLists DEF IInv
<1>3. CASE Reject(w)
  BY <1>1, <1>3, KeepReject
<1>4. CASE ~Reject(w)
  <2>1. note' = q /\ Done(w)
    BY <1>4 DEF ReadRtc
  <2>2. /\ n \in Note /\ n.day \in Day /\ n.amount \in Amount
        /\ Explained(n, Ruled) /\ n.rule \in Rule
    <3>1. job[w].op \in {"emit", "again"}
      BY <1>1, StepOf DEF IInv
    <3>. QED
      BY <1>1, <3>1, OneJob DEF IInv, Remembered, Explained
  <2>3. rtc \in Rtc \cup {None}
    BY ForceIsPublished DEF IInv, Published
  <2>4. tax # None => tax = Assessed(n.rule, n.day, n.amount)
    OBVIOUS
  <2>5. tax \in Tax \cup {None}
    BY <2>2, AssessedIsTax
  <2>. HIDE DEF rtc, tax
  <2>6. /\ q \in Note /\ q.status = "queued" /\ q.rule = n.rule /\ q.version = n.version
        /\ q.day = n.day /\ q.tax = tax
    BY <2>2, <2>3, <2>5 DEF Note
  <2>. HIDE DEF q
  <2>7. NoteOK'
    <3>1. Explained(q, Ruled')
      BY <1>2, <2>2, <2>6 DEF Explained, Grows
    <3>2. q.tax # None =>
            \E r \in Rule, day \in Day, amount \in Amount : q.tax = Assessed(r, day, amount)
      BY <2>2, <2>4, <2>6
    <3>. QED
      BY <2>1, <2>6, <3>1, <3>2 DEF NoteOK
  <2>8. JobsOK'
    BY <1>2, <2>1, JobDone DEF IInv
  <2>. QED
    BY <1>1, <1>2, <2>7, <2>8 DEF IInv, RestOK, Grows, dates
<1>. QED
  BY <1>3, <1>4

-----------------------------------------------------------------------------
(* The invariant *)

LEMMA Begins == Init => IInv
<1>. SUFFICES ASSUME Init PROVE IInv
  OBVIOUS
<1>1. PICK s \in StartDocs : /\ doc = s.doc /\ published_at = s.published_at /\ now = s.now
                            /\ services = s.services
  BY DEF Init
<1>2. /\ Shaped(s.doc) /\ Numbered(s.doc) /\ Dates(s.published_at, s.now)
      /\ s.services \subseteq Service
  BY StartAssumption
<1>3. ListsOK
  BY <1>1, <1>2 DEF ListsOK
<1>4. RestOK
  BY <1>1, <1>2, FiscalAssumption DEF RestOK, Init
<1>5. NoteOK
  BY NoNoteYet DEF NoteOK, Init
<1>6. JobsOK
  <2>1. Idle \in Job /\ Remembered(Idle, Made, Numbers, Ruled, Times)
    BY DEF Idle, Job, PC, Op, Arg, Remembered
  <2>. QED
    BY <2>1 DEF JobsOK, Init
<1>. QED
  BY <1>3, <1>4, <1>5, <1>6 DEF IInv

LEMMA KeepStutter == ASSUME IInv, UNCHANGED vars PROVE IInv'
<1>1. /\ doc' = doc /\ dates' = dates /\ services' = services /\ note' = note
      /\ job' = job /\ left' = left
  BY DEF vars, dates
<1>2. Grows
  BY <1>1, SameLists DEF IInv
<1>3. JobsOK'
  BY <1>1, <1>2, JobsStay DEF IInv
<1>. QED
  BY <1>1, <1>2, <1>3, KeepLists

LEMMA Inductive == IInv /\ [Next]_vars => IInv'
<1>. SUFFICES ASSUME IInv, [Next]_vars PROVE IInv'
  OBVIOUS
<1>1. ASSUME NEW w \in Worker, CreateLoad(w) \/ CreateInsert(w) \/ SaveChecklist(w) \/ InsertRule(w)
      PROVE  IInv'
  BY <1>1, KeepCreateLoad, KeepCreateInsert, KeepSaveChecklist, KeepInsertRule
<1>2. ASSUME NEW w \in Worker, NEW c \in Catalog, NEW ready \in BOOLEAN, EditLoad(w, c, "tick", ready)
      PROVE  IInv'
  BY <1>2, KeepEditLoad
<1>3. ASSUME NEW w \in Worker, NEW c \in Catalog, NEW r \in Rule, EditLoad(w, c, "rule", r)
      PROVE  IInv'
  BY <1>3, KeepEditLoad
<1>4. ASSUME NEW w \in Worker, NEW d \in Doc, PublishLoad(w, d)
      PROVE  IInv'
  BY <1>4, KeepPublishLoad
<1>5. ASSUME NEW w \in Worker, NEW n \in National, NEW publish \in BOOLEAN, Import(w, n, publish)
      PROVE  IInv'
  BY <1>5, KeepImport
<1>6. ASSUME NEW w \in Worker, NEW d \in Rtc, NEW codes \in SUBSET RtcCode, CreateRtc(w, d, codes)
      PROVE  IInv'
  BY <1>6, KeepCreateRtc
<1>7. ASSUME NEW w \in Worker,
             \/ SeedCreate(w) \/ SeedCodes(w) \/ PublishUpdate(w) \/ PublishLock(w) \/ PublishSave(w)
             \/ Abort(w) \/ EmitAborts(w)
      PROVE  IInv'
  BY <1>7, KeepSeedCreate, KeepSeedCodes, KeepPublishUpdate, KeepPublishLock, KeepPublishSave, KeepAbort
<1>8. ASSUME NEW w \in Worker, NEW s \in Service, NEW day \in Day, NEW amount \in Amount,
             EmitBegin(w, s, day, amount)
      PROVE  IInv'
  BY <1>8, KeepEmitBegin
<1>9. ASSUME NEW w \in Worker,
             ReprocessBegin(w) \/ ReadCatalog(w) \/ ReadRule(w) \/ ReadRtc(w)
      PROVE  IInv'
  BY <1>9, KeepReprocessBegin, KeepReadCatalog, KeepReadRule, KeepReadRtc
<1>10. ASSUME NEW all \in BOOLEAN, Materialize(all)
       PROVE  IInv'
  BY <1>10, KeepMaterialize
<1>. QED
  BY <1>1, <1>2, <1>3, <1>4, <1>5, <1>6, <1>7, <1>8, <1>9, <1>10, KeepStutter DEF Next

LEMMA Invariance == Spec => []IInv
BY Begins, Inductive, PTL DEF Spec

-----------------------------------------------------------------------------
(* What it says *)

LEMMA Typed == ASSUME IInv PROVE TypeOK
<1>1. ASSUME NEW d \in Doc
      PROVE  /\ doc[d].status \in Status /\ doc[d].lines \subseteq Line(d)
             /\ doc[d].version \in 0..MaxVersion /\ doc[d].ready \in BOOLEAN
             /\ doc[d].status = "absent" <=> doc[d] = Absent
  <2>1. doc[d].status = "absent" => doc[d] = Absent
    BY DEF IInv, ListsOK, Shaped
  <2>2. Absent.status = "absent"
    BY DEF Absent
  <2>. QED
    BY <2>1, <2>2, OneList DEF IInv
<1>2. Dates(published_at, now)
  BY DEF IInv, ListsOK
<1>3. note.status \in {"none", "pending_tax", "rejected", "queued"}
  BY DEF IInv, NoteOK, Note
<1>4. ASSUME note.status = "queued"
      PROVE  /\ note.rule \in Rule /\ note.version \in 1..MaxVersion /\ note.rtc \in Rtc \cup {None}
             /\ note.tax \in [base : Nat, cbs : Nat, ibs : Nat] \cup {None}
  <2>1. Explained(note, Ruled) /\ note \in Note
    BY <1>4 DEF IInv, NoteOK
  <2>2. PICK c \in MadeCatalogs : doc[c].version = note.version
    BY <2>1 DEF Explained, Ruled
  <2>3. /\ doc[c].version \in 1..Cardinality(MadeCatalogs) /\ Cardinality(MadeCatalogs) \in Nat
        /\ MaxVersion \in Nat /\ Cardinality(MadeCatalogs) <= MaxVersion
    BY MadeCounts DEF IInv
  <2>4. note.version \in 1..MaxVersion
    BY <2>2, <2>3
  <2>. QED
    BY <2>1, <2>4 DEF Explained, Note, Tax
<1>5. \A w \in Worker : job[w].hit \subseteq Doc /\ beside[w] \subseteq Doc
  BY OneJob DEF IInv, RestOK, Job
<1>. QED
  BY <1>1, <1>2, <1>3, <1>4, <1>5 DEF IInv, RestOK, TypeOK

LEMMA Single == ASSUME IInv PROVE OnePublished
<1>1. \A c, e \in Published(Catalog) : c = e
  BY DEF IInv, ListsOK, Numbered, Published
<1>2. CASE Published(Catalog) = {}
  BY <1>2, FS_EmptySet DEF OnePublished
<1>3. CASE Published(Catalog) # {}
  <2>1. PICK c \in Published(Catalog) : Published(Catalog) = {c}
    BY <1>1, <1>3
  <2>2. Cardinality({c}) = 1
    BY FS_Singleton
  <2>. QED
    BY <2>1, <2>2 DEF OnePublished
<1>. QED
  BY <1>2, <1>3

\* At least one per cent is left, for the IBS and the rounding.
ModestRate == 0..9900

\* A version names one catalogue, which has the rule; the taxes fit.
LEMMA SharesFit ==
  ASSUME NEW b \in Nat, NEW T \in ModestRate, NEW uf \in 0..10, NEW mun \in 0..10,
         uf + mun = 10, uf = 10 \/ uf = 5
  PROVE  Share(b, T) + (Share(b, uf) + Share(b, mun)) <= b
<1>. DEFINE p == b * T
            x == Share(b, T)
            y == Share(b, 10)
            z == Share(b, 5)
<1>1. p \in Nat /\ p <= 9900 * b
  BY DEF ModestRate
<1>2. x = (2 * p + 10000) \div 20000
  BY DEF Share, RoundHalfUp
<1>. HIDE DEF p
<1>3. x \in Nat /\ 20000 * x <= 2 * p + 10000
  BY <1>1, <1>2
<1>. HIDE DEF x
<1>4. y = (20 * b + 10000) \div 20000
  BY DEF Share, RoundHalfUp
<1>5. z = (10 * b + 10000) \div 20000
  BY DEF Share, RoundHalfUp
<1>6. y \in Nat /\ 20000 * y <= 20 * b + 10000
  BY <1>4
<1>7. z \in Nat /\ 20000 * z <= 10 * b + 10000
  BY <1>5
<1>8. Share(b, 0) = 0
  BY DEF Share, RoundHalfUp
<1>. HIDE DEF y, z
<1>9. x + (y + 0) <= b
  <2>1. CASE b < 500
    <3>1. y = 0
      BY <1>6, <2>1
    <3>. QED
      BY <1>1, <1>3, <3>1
  <2>2. CASE b >= 500
    BY <1>1, <1>3, <1>6, <2>2
  <2>. QED
    BY <2>1, <2>2
<1>10. x + (z + z) <= b
  <2>1. CASE b < 500
    <3>1. z = 0
      BY <1>7, <2>1
    <3>. QED
      BY <1>1, <1>3, <3>1
  <2>2. CASE b >= 500
    BY <1>1, <1>3, <1>7, <2>2
  <2>. QED
    BY <2>1, <2>2
<1>11. (uf = 10 /\ mun = 0) \/ (uf = 5 /\ mun = 5)
  OBVIOUS
<1>. QED
  BY <1>8, <1>9, <1>10, <1>11 DEF x, y, z

LEMMA AssessedFits ==
  ASSUME TEST_CBS \in ModestRate, NEW r \in Rule, NEW day \in Day, NEW amount \in Amount
  PROVE  LET t == Assessed(r, day, amount) IN t.cbs + t.ibs <= t.base
<1>1. PICK base \in Nat, uf \in 0..10, mun \in 0..10 :
        /\ uf + mun = 10 /\ (uf = 10 \/ uf = 5)
        /\ Assessed(r, day, amount) =
             [base |-> base, cbs |-> Share(base, TEST_CBS), ibs |-> Share(base, uf) + Share(base, mun)]
  BY AssessedParts
<1>2. Share(base, TEST_CBS) + (Share(base, uf) + Share(base, mun)) <= base
  <2>1. uf + mun = 10 /\ (uf = 10 \/ uf = 5)
    BY <1>1
  <2>. QED
    BY <2>1, SharesFit
<1>. QED
  BY <1>1, <1>2

LEMMA Explains == ASSUME IInv, TEST_CBS \in ModestRate PROVE NoteIsExplained
<1>1. ASSUME note.status = "queued"
      PROVE  /\ Explained(note, Ruled)
             /\ note.tax # None => note.tax.cbs + note.tax.ibs <= note.tax.base
  <2>1. /\ Explained(note, Ruled)
        /\ note.tax # None =>
             \E r \in Rule, day \in Day, amount \in Amount : note.tax = Assessed(r, day, amount)
    BY <1>1 DEF IInv, NoteOK
  <2>. QED
    BY <2>1, AssessedFits
<1>2. ASSUME Explained(note, Ruled)
      PROVE  \E c \in Catalog :
               /\ {e \in Catalog : doc[e].status # "absent" /\ doc[e].version = note.version} = {c}
               /\ doc[c].version = note.version /\ note.rule \in doc[c].lines
               /\ InTime(note.rule, note.day)
  <2>1. PICK c \in MadeCatalogs : doc[c].version = note.version /\ note.rule \in doc[c].lines
    BY <1>2 DEF Explained, Ruled
  <2>2. \A e \in MadeCatalogs : doc[e].version = doc[c].version => e = c
    BY DEF IInv, ListsOK, Numbered, MadeCatalogs
  <2>3. {e \in Catalog : doc[e].status # "absent" /\ doc[e].version = note.version} = {c}
    BY <2>1, <2>2 DEF MadeCatalogs
  <2>. QED
    BY <1>2, <2>1, <2>3 DEF Explained, MadeCatalogs
<1>3. \A c \in Catalog : Cardinality({c}) = 1
  BY FS_Singleton
<1>. QED
  BY <1>1, <1>2, <1>3 DEF NoteIsExplained

\* Only the commit of a publication publishes a list, or ends that of another.
Stays(d) == doc'[d].status = "published" <=> doc[d].status = "published"

LEMMA OthersPublishNothing ==
  ASSUME IInv, [Next]_vars, \A w \in Worker : ~PublishSave(w), NEW d \in Doc
  PROVE  Stays(d)
<1>1. doc = [e \in Doc |-> doc[e]] /\ \A e \in Doc : doc[e] \in DocRow(e)
  BY OneList DEF IInv, ListsOK, Shaped
<1>3. CASE doc' = doc
  BY <1>3 DEF Stays
<1>4. ASSUME NEW c \in Doc, NEW row, doc[c] = Absent, doc' = [doc EXCEPT ![c] = row],
             row.status = "draft"
      PROVE  Stays(d)
  BY <1>1, <1>4 DEF Absent, Stays
<1>5. ASSUME NEW c, NEW row, doc' = [doc EXCEPT ![c] = row], c \in Doc => row.status = doc[c].status
      PROVE  Stays(d)
  BY <1>1, <1>5 DEF Stays
<1>6. ASSUME NEW w \in Worker, CreateInsert(w) PROVE Stays(d)
  <2>1. CASE job[w].arg \in Versions
    BY <1>3, <1>6, <2>1 DEF CreateInsert
  <2>2. CASE job[w].arg \notin Versions
    <3>1. PICK c \in Catalog : /\ doc[c] = Absent
            /\ doc' = [doc EXCEPT ![c] = [Absent EXCEPT !.status = "draft", !.version = job[w].arg]]
      BY <1>6, <2>2 DEF CreateInsert
    <3>. DEFINE row == [Absent EXCEPT !.status = "draft", !.version = job[w].arg]
    <3>2. row.status = "draft" /\ c \in Doc
      BY DEF Absent, Doc
    <3>3. doc' = [doc EXCEPT ![c] = row]
      BY <3>1
    <3>. HIDE DEF row
    <3>. QED
      BY <1>4, <3>1, <3>2, <3>3
  <2>. QED
    BY <2>1, <2>2
<1>7. ASSUME NEW w \in Worker, SaveChecklist(w) PROVE Stays(d)
  <2>. DEFINE row == [doc[job[w].doc] EXCEPT !.ready = job[w].arg]
  <2>1. doc' = [doc EXCEPT ![job[w].doc] = row]
    BY <1>7 DEF SaveChecklist
  <2>2. job[w].doc \in Doc => row.status = doc[job[w].doc].status
    BY <1>1 DEF DocRow
  <2>. HIDE DEF row
  <2>. QED
    BY <1>5, <2>1, <2>2
<1>8. ASSUME NEW w \in Worker, InsertRule(w) PROVE Stays(d)
  <2>. DEFINE row == [doc[job[w].doc] EXCEPT !.lines = @ \cup {job[w].arg}]
  <2>1. doc' = doc \/ doc' = [doc EXCEPT ![job[w].doc] = row]
    BY <1>8 DEF InsertRule
  <2>2. job[w].doc \in Doc => row.status = doc[job[w].doc].status
    BY <1>1 DEF DocRow
  <2>. HIDE DEF row
  <2>. QED
    BY <1>3, <1>5, <2>1, <2>2
<1>9. ASSUME NEW w \in Worker, NEW n \in National, NEW publish \in BOOLEAN, Import(w, n, publish)
      PROVE  Stays(d)
  <2>. DEFINE row == [Absent EXCEPT !.status = "draft", !.lines = Items[n]]
  <2>1. doc[n] = Absent /\ (doc' = doc \/ doc' = [doc EXCEPT ![n] = row]) /\ n \in Doc
    BY <1>9 DEF Import, Doc
  <2>2. row.status = "draft"
    BY DEF Absent
  <2>. HIDE DEF row
  <2>. QED
    BY <1>3, <1>4, <2>1, <2>2
<1>10. ASSUME NEW w \in Worker, NEW e \in Rtc, NEW codes \in SUBSET RtcCode, CreateRtc(w, e, codes)
       PROVE  Stays(d)
  <2>. DEFINE row == [Absent EXCEPT !.status = "draft", !.lines = codes]
  <2>1. doc[e] = Absent /\ doc' = [doc EXCEPT ![e] = row] /\ e \in Doc
    BY <1>10 DEF CreateRtc, Doc
  <2>2. row.status = "draft"
    BY DEF Absent
  <2>. HIDE DEF row
  <2>. QED
    BY <1>4, <2>1, <2>2
<1>11. ASSUME NEW w \in Worker, SeedCreate(w) PROVE Stays(d)
  <2>. DEFINE row == [doc[Seed] EXCEPT !.status = "draft"]
  <2>1. doc' = IF doc[Seed] = Absent THEN [doc EXCEPT ![Seed] = row] ELSE doc
    BY <1>11 DEF SeedCreate
  <2>2. Seed \in Doc
    BY FiscalAssumption DEF Doc
  <2>3. row.status = "draft"
    BY <1>1, <2>2 DEF DocRow
  <2>. HIDE DEF row
  <2>. QED
    BY <1>3, <1>4, <2>1, <2>2, <2>3
<1>12. ASSUME NEW w \in Worker, SeedCodes(w) PROVE Stays(d)
  <2>. DEFINE row == [doc[Seed] EXCEPT !.lines = RtcCode]
  <2>1. doc' = [doc EXCEPT ![Seed] = row]
    BY <1>12 DEF SeedCodes
  <2>2. Seed \in Doc => row.status = doc[Seed].status
    BY <1>1 DEF DocRow
  <2>. HIDE DEF row
  <2>. QED
    BY <1>5, <2>1, <2>2
<1>13. CASE UNCHANGED vars
  BY <1>3, <1>13 DEF vars
<1>14. CASE \E w \in Worker :
              \/ CreateLoad(w) \/ PublishUpdate(w) \/ PublishLock(w) \/ Abort(w)
              \/ ReprocessBegin(w) \/ ReadCatalog(w) \/ ReadRule(w) \/ ReadRtc(w) \/ EmitAborts(w)
  BY <1>3, <1>14 DEF CreateLoad, PublishUpdate, PublishLock, Abort, ReprocessBegin, ReadCatalog,
                     ReadRule, ReadRtc, EmitAborts
<1>15. CASE \/ \E w \in Worker, c \in Catalog, ready \in BOOLEAN : EditLoad(w, c, "tick", ready)
            \/ \E w \in Worker, c \in Catalog, r \in Rule : EditLoad(w, c, "rule", r)
            \/ \E w \in Worker, e \in Doc : PublishLoad(w, e)
            \/ \E w \in Worker, s \in Service, day \in Day, amount \in Amount : EmitBegin(w, s, day, amount)
            \/ \E all \in BOOLEAN : Materialize(all)
  BY <1>3, <1>15 DEF EditLoad, PublishLoad, EmitBegin, Materialize
<1>. QED
  BY <1>6, <1>7, <1>8, <1>9, <1>10, <1>11, <1>12, <1>13, <1>14, <1>15 DEF Next

LEMMA Withdraws ==
  ASSUME IInv, [Next]_vars, NEW D \in {Catalog, Rtc, National}, Published(D) # {}
  PROVE  \E d \in D : doc'[d].status = "published"
<1>1. PICK e \in D : doc[e].status = "published"
  BY DEF Published
<1>2. e \in Doc
  BY DEF Doc
<1>3. CASE \A w \in Worker : ~PublishSave(w)
  BY <1>1, <1>2, <1>3, OthersPublishNothing DEF Stays
<1>4. ASSUME NEW w \in Worker, PublishSave(w)
      PROVE  \E d \in D : doc'[d].status = "published"
  <2>. DEFINE d == job[w].doc
  <2>1. job[w].pc = "save" /\ (doc' = doc \/ doc' = Committed(w))
    BY <1>4 DEF PublishSave
  <2>2. d \in Made \cup National /\ job[w].hit \subseteq Kind(d) \cap Made
    <3>1. /\ Remembered(job[w], Made, Numbers, Ruled, Times)
          /\ job[w].op \in {"publish", "import", "seed"}
      BY <2>1, OneJob, StepOf DEF IInv
    <3>. QED
      BY <3>1 DEF Remembered
  <2>3. CASE doc' = doc
    BY <1>1, <2>3
  <2>4. CASE doc' = Committed(w)
    <3>1. job[w].doc = d
      OBVIOUS
    <3>. HIDE DEF d
    <3>2. /\ d \in Doc /\ doc'[d].status = "published"
          /\ \A x \in Doc : x # d /\ x \notin job[w].hit => doc'[x] = doc[x]
      BY <2>2, <2>4, <3>1, CommittedRows DEF IInv
    <3>3. CASE d \in D
      BY <3>2, <3>3
    <3>4. CASE d \notin D
      <4>1. D \cap Kind(d) = {}
        BY <3>2, <3>4, Kinds, RowAssumption
      <4>2. doc'[e] = doc[e]
        BY <1>1, <1>2, <2>2, <3>2, <3>4, <4>1
      <4>. QED
        BY <1>1, <4>2
    <3>. QED
      BY <3>3, <3>4
  <2>. QED
    BY <2>1, <2>3, <2>4
<1>. QED
  BY <1>3, <1>4

-----------------------------------------------------------------------------
(* What a publication under way will supersede *)

\* Past its UPDATE, all that is published of its kind is its own list, one that it
\* supersedes, or one published at its side.
Covers(d, superseded, aside) == Published(Kind(d)) \subseteq {d} \cup superseded \cup aside
Covered ==
  \A w \in Worker :
    /\ job[w].pc = "lock" => Covers(job[w].doc, job[w].arg, beside[w])
    /\ job[w].pc = "save" => Covers(job[w].doc, job[w].hit, beside[w])

LEMMA SamePublished ==
  ASSUME IInv, [Next]_vars, \A w \in Worker : ~PublishSave(w), NEW d \in Doc
  PROVE  Published(Kind(d))' = Published(Kind(d))
<1>1. Kind(d) \subseteq Doc
  BY Kinds
<1>2. \A e \in Doc : Stays(e)
  BY OthersPublishNothing
<1>. QED
  BY <1>1, <1>2 DEF Published, Stays

LEMMA PublishersDoc ==
  ASSUME IInv, NEW w \in Worker, job[w].pc \in {"update", "lock", "save"}
  PROVE  job[w].doc \in Doc
BY OneJob, StepOf DEF IInv, Remembered, Made, Doc

\* A request that takes another step is not past the UPDATE of a publication.
LEMMA AnotherStep ==
  ASSUME IInv, NEW w \in Worker, NEW v \in Worker, NEW j,
         job' = [job EXCEPT ![w] = j], j.pc \notin {"lock", "save"}, job'[v].pc \in {"lock", "save"}
  PROVE  job'[v] = job[v]
BY DEF IInv, JobsOK

\* Who is past the UPDATE was so before, or takes the step into or within it.
LEMMA OnlyOwnSteps ==
  ASSUME IInv, [Next]_vars, NEW v \in Worker, job'[v].pc \in {"lock", "save"}
  PROVE  job'[v] = job[v] \/ PublishUpdate(v) \/ PublishLock(v)
<1>1. ASSUME NEW w \in Worker, Done(w)
      PROVE  job'[v] = job[v]
  BY <1>1, IdleJob, AnotherStep DEF Done
<1>2. ASSUME NEW w \in Worker, PublishUpdate(w) \/ PublishLock(w)
      PROVE  job'[v] = job[v] \/ PublishUpdate(v) \/ PublishLock(v)
  BY <1>2 DEF PublishUpdate, PublishLock, IInv, JobsOK
<1>3. ASSUME NEW w \in Worker, NEW j, job' = [job EXCEPT ![w] = j], j.pc \notin {"lock", "save"}
      PROVE  job'[v] = job[v]
  BY <1>3, AnotherStep
<1>4. \A w \in Worker : job[w] \in Job
  BY OneJob DEF IInv
<1>5. Idle \in Job
  BY IdleJob
<1>6. CASE job' = job
  BY <1>6
<1>7. CASE UNCHANGED vars
  BY <1>6, <1>7 DEF vars
<1>8. ASSUME NEW w \in Worker,
             \/ CreateInsert(w) \/ SaveChecklist(w) \/ InsertRule(w) \/ PublishSave(w)
             \/ Abort(w) \/ EmitAborts(w)
      PROVE  job'[v] = job[v]
  BY <1>1, <1>8 DEF CreateInsert, SaveChecklist, InsertRule, PublishSave, Abort, EmitAborts
<1>9. ASSUME NEW w \in Worker, CreateLoad(w) PROVE job'[v] = job[v]
  <2>. DEFINE j == [Idle EXCEPT !.pc = "insert", !.op = "create", !.arg = NextVersion]
  <2>1. job' = [job EXCEPT ![w] = j] /\ j.pc = "insert"
    BY <1>5, <1>9 DEF CreateLoad, Job
  <2>. HIDE DEF j
  <2>. QED
    BY <1>3, <2>1
<1>10. ASSUME NEW w \in Worker, NEW c, NEW op, NEW arg, EditLoad(w, c, op, arg) PROVE job'[v] = job[v]
  <2>. DEFINE j == [Idle EXCEPT !.pc = "edit", !.op = op, !.doc = c, !.arg = arg]
  <2>1. job' = [job EXCEPT ![w] = j] /\ j.pc = "edit"
    BY <1>5, <1>10 DEF EditLoad, Job
  <2>. HIDE DEF j
  <2>. QED
    BY <1>3, <2>1
<1>11. ASSUME NEW w \in Worker, NEW d, PublishLoad(w, d) PROVE job'[v] = job[v]
  <2>. DEFINE j == [Idle EXCEPT !.pc = "update", !.op = "publish", !.doc = d]
  <2>1. job' = [job EXCEPT ![w] = j] /\ j.pc = "update"
    BY <1>5, <1>11 DEF PublishLoad, Job
  <2>. HIDE DEF j
  <2>. QED
    BY <1>3, <2>1
<1>12. ASSUME NEW w \in Worker, NEW n, NEW publish, Import(w, n, publish) PROVE job'[v] = job[v]
  <2>. DEFINE j == [Idle EXCEPT !.pc = "update", !.op = "import", !.doc = n]
  <2>1. (job' = job \/ job' = [job EXCEPT ![w] = j]) /\ j.pc = "update"
    BY <1>5, <1>12 DEF Import, Job
  <2>. HIDE DEF j
  <2>. QED
    BY <1>3, <1>6, <2>1
<1>13. ASSUME NEW w \in Worker, SeedCreate(w) PROVE job'[v] = job[v]
  <2>. DEFINE j == [Idle EXCEPT !.pc = "codes", !.op = "seed", !.doc = Seed, !.arg = doc[Seed].status]
  <2>1. job' = [job EXCEPT ![w] = j] /\ j.pc = "codes"
    BY <1>5, <1>13 DEF SeedCreate, Job
  <2>. HIDE DEF j
  <2>. QED
    BY <1>3, <2>1
<1>14. ASSUME NEW w \in Worker, SeedCodes(w) PROVE job'[v] = job[v]
  <2>. DEFINE j == [job[w] EXCEPT !.pc = "update"]
  <2>1. Done(w) \/ job' = [job EXCEPT ![w] = j]
    BY <1>4, <1>14 DEF SeedCodes, Goto, IInv, JobsOK
  <2>2. j.pc = "update"
    BY <1>4 DEF Job
  <2>. HIDE DEF j
  <2>. QED
    BY <1>1, <1>3, <2>1, <2>2
<1>15. ASSUME NEW w \in Worker, NEW s, NEW day, NEW amount, EmitBegin(w, s, day, amount)
       PROVE  job'[v] = job[v]
  <2>. DEFINE n == [NoNote EXCEPT !.status = "pending_tax", !.service = s, !.day = day, !.amount = amount]
              j == [Idle EXCEPT !.pc = "catalog", !.op = "emit", !.arg = n]
  <2>1. job' = [job EXCEPT ![w] = j] /\ j.pc = "catalog"
    BY <1>5, <1>15 DEF EmitBegin, Job
  <2>. HIDE DEF j
  <2>. QED
    BY <1>3, <2>1
<1>16. ASSUME NEW w \in Worker, ReprocessBegin(w) PROVE job'[v] = job[v]
  <2>. DEFINE j == [Idle EXCEPT !.pc = "catalog", !.op = "again", !.arg = note]
  <2>1. job' = [job EXCEPT ![w] = j] /\ j.pc = "catalog"
    BY <1>5, <1>16 DEF ReprocessBegin, Job
  <2>. HIDE DEF j
  <2>. QED
    BY <1>3, <2>1
<1>17. ASSUME NEW w \in Worker, ReadCatalog(w) PROVE job'[v] = job[v]
  <2>1. CASE Reject(w)
    BY <1>1, <2>1 DEF Reject
  <2>2. ASSUME NEW c, job' = [job EXCEPT ![w].pc = "rule", ![w].doc = c]
        PROVE  job'[v] = job[v]
    <3>. DEFINE j == [job[w] EXCEPT !.pc = "rule", !.doc = c]
    <3>1. job' = [job EXCEPT ![w] = j] /\ j.pc = "rule"
      BY <1>4, <2>2 DEF IInv, JobsOK, Job
    <3>. HIDE DEF j
    <3>. QED
      BY <1>3, <3>1
  <2>. QED
    BY <1>17, <2>1, <2>2 DEF ReadCatalog
<1>18. ASSUME NEW w \in Worker, ReadRule(w) PROVE job'[v] = job[v]
  <2>1. CASE Done(w)
    BY <1>1, <2>1
  <2>2. ASSUME NEW m, job' = [job EXCEPT ![w].pc = "rtc", ![w].arg = m]
        PROVE  job'[v] = job[v]
    <3>. DEFINE j == [job[w] EXCEPT !.pc = "rtc", !.arg = m]
    <3>1. job' = [job EXCEPT ![w] = j] /\ j.pc = "rtc"
      BY <1>4, <2>2 DEF IInv, JobsOK, Job
    <3>. HIDE DEF j
    <3>. QED
      BY <1>3, <3>1
  <2>3. Done(w) \/ \E m : job' = [job EXCEPT ![w].pc = "rtc", ![w].arg = m]
    BY <1>18 DEF ReadRule, Reject
  <2>. QED
    BY <2>1, <2>2, <2>3
<1>19. ASSUME NEW w \in Worker, ReadRtc(w) PROVE job'[v] = job[v]
  BY <1>1, <1>19 DEF ReadRtc, Reject
<1>20. ASSUME NEW w \in Worker, NEW d, NEW codes, CreateRtc(w, d, codes) PROVE job'[v] = job[v]
  BY <1>20 DEF CreateRtc
<1>21. ASSUME NEW all, Materialize(all) PROVE job'[v] = job[v]
  BY <1>21 DEF Materialize
<1>. QED
  BY <1>2, <1>7, <1>8, <1>9, <1>10, <1>11, <1>12, <1>13, <1>14, <1>15, <1>16, <1>17, <1>18, <1>19,
     <1>20, <1>21 DEF Next

\* What was published at the side of a request is forgotten only when it ends.
LEMMA BesideStays ==
  ASSUME IInv, [Next]_vars, \A w \in Worker : ~PublishSave(w), NEW v \in Worker,
         job'[v].pc \in {"lock", "save"}
  PROVE  beside'[v] = beside[v]
<1>1. CASE dates' = dates
  BY <1>1 DEF dates
<1>2. ASSUME NEW w \in Worker, Abort(w) PROVE beside'[v] = beside[v]
  <2>1. v # w
    BY <1>2, IdleJob DEF Abort, Done, IInv, JobsOK
  <2>. QED
    BY <1>2, <2>1 DEF Abort, IInv, RestOK
<1>3. ASSUME NEW w \in Worker, PublishLock(w) PROVE beside'[v] = beside[v]
  BY <1>3 DEF PublishLock
<1>4. CASE UNCHANGED vars
  BY <1>4 DEF vars
<1>5. CASE \E w \in Worker :
             \/ CreateLoad(w) \/ CreateInsert(w) \/ SaveChecklist(w) \/ InsertRule(w) \/ SeedCreate(w)
             \/ SeedCodes(w) \/ PublishUpdate(w) \/ ReprocessBegin(w) \/ ReadCatalog(w)
             \/ ReadRule(w) \/ ReadRtc(w) \/ EmitAborts(w)
  BY <1>1, <1>5 DEF CreateLoad, CreateInsert, SaveChecklist, InsertRule, SeedCreate, SeedCodes,
                    PublishUpdate, ReprocessBegin, ReadCatalog, ReadRule, ReadRtc, EmitAborts
<1>6. CASE \/ \E w \in Worker, c \in Catalog, ready \in BOOLEAN : EditLoad(w, c, "tick", ready)
           \/ \E w \in Worker, c \in Catalog, r \in Rule : EditLoad(w, c, "rule", r)
           \/ \E w \in Worker, d \in Doc : PublishLoad(w, d)
           \/ \E w \in Worker, n \in National, publish \in BOOLEAN : Import(w, n, publish)
           \/ \E w \in Worker, d \in Rtc, codes \in SUBSET RtcCode : CreateRtc(w, d, codes)
           \/ \E w \in Worker, s \in Service, day \in Day, amount \in Amount : EmitBegin(w, s, day, amount)
           \/ \E all \in BOOLEAN : Materialize(all)
  BY <1>1, <1>6 DEF EditLoad, PublishLoad, Import, CreateRtc, EmitBegin, Materialize
<1>. QED
  BY <1>2, <1>3, <1>4, <1>5, <1>6 DEF Next

LEMMA CoveredStays ==
  ASSUME IInv, Covered, [Next]_vars
  PROVE  Covered'
<1>1. job \in [Worker -> Job] /\ beside \in [Worker -> SUBSET Doc]
  BY DEF IInv, JobsOK, RestOK
<1>2. SUFFICES ASSUME NEW v \in Worker, job'[v].pc \in {"lock", "save"}
               PROVE  /\ job'[v].pc = "lock" => Covers(job[v].doc, job[v].arg, beside[v])'
                      /\ job'[v].pc = "save" => Covers(job[v].doc, job[v].hit, beside[v])'
  BY DEF Covered
<1>3. /\ job[v].pc = "lock" => Covers(job[v].doc, job[v].arg, beside[v])
      /\ job[v].pc = "save" => Covers(job[v].doc, job[v].hit, beside[v])
  BY DEF Covered
<1>4. job'[v] = job[v] \/ PublishUpdate(v) \/ PublishLock(v)
  BY <1>2, OnlyOwnSteps
<1>5. job[v].doc \in Doc
  <2>1. job[v].pc \in {"update", "lock", "save"}
    BY <1>2, <1>4 DEF PublishUpdate, PublishLock
  <2>. QED
    BY <2>1, PublishersDoc
<1>6. CASE \A w \in Worker : ~PublishSave(w)
  <2>1. PICK d \in Doc : d = job[v].doc
    BY <1>5
  <2>2. Published(Kind(d))' = Published(Kind(d)) /\ beside'[v] = beside[v]
    BY <1>2, <1>6, SamePublished, BesideStays
  <2>3. CASE job'[v] = job[v]
    BY <1>3, <2>1, <2>2, <2>3 DEF Covers, Published
  <2>4. CASE PublishUpdate(v)
    <3>1. /\ job'[v].pc = "lock" /\ job'[v].doc = d
          /\ job'[v].arg = Published(Kind(d)) \ (IF d \in Catalog THEN {} ELSE {d})
      BY <1>1, <2>1, <2>4 DEF PublishUpdate, Job
    <3>. QED
      BY <2>2, <3>1 DEF Covers, Published
  <2>5. CASE PublishLock(v)
    <3>1. /\ job[v].pc = "lock" /\ job'[v].pc = "save" /\ job'[v].doc = d
          /\ job'[v].hit = Published(job[v].arg)
      BY <1>1, <2>1, <2>5 DEF PublishLock, Job
    <3>. QED
      BY <1>3, <2>1, <2>2, <3>1 DEF Covers, Published
  <2>. QED
    BY <1>4, <2>3, <2>4, <2>5
<1>7. ASSUME NEW w \in Worker, PublishSave(w)
      PROVE  /\ job'[v].pc = "lock" => Covers(job[v].doc, job[v].arg, beside[v])'
             /\ job'[v].pc = "save" => Covers(job[v].doc, job[v].hit, beside[v])'
  <2>1. /\ job[w].pc = "save" /\ Done(w) /\ doc' = IF Refused(w) THEN doc ELSE Committed(w)
        /\ beside' = IF Refused(w) THEN [beside EXCEPT ![w] = {}] ELSE SideBySide(w)
    BY <1>7 DEF PublishSave
  <2>2. v # w /\ job'[v] = job[v] /\ job[v].pc \in {"lock", "save"}
    BY <1>1, <1>2, <2>1, IdleJob DEF Done
  <2>3. CASE Refused(w)
    <3>1. doc' = doc /\ beside'[v] = beside[v]
      BY <1>1, <2>1, <2>2, <2>3
    <3>. QED
      BY <1>3, <2>2, <3>1 DEF Covers, Published
  <2>4. CASE ~Refused(w)
    <3>1. doc' = Committed(w) /\ beside'[v] = beside[v] \cup {job[w].doc}
      BY <2>1, <2>2, <2>4 DEF SideBySide
    <3>2. \A e \in Doc : e # job[w].doc /\ doc'[e].status = "published" => doc[e].status = "published"
      <4>1. /\ Remembered(job[w], Made, Numbers, Ruled, Times)
            /\ job[w].op \in {"publish", "import", "seed"}
        BY <2>1, OneJob, StepOf DEF IInv
      <4>2. job[w].doc \in Made \cup National /\ job[w].hit \subseteq Kind(job[w].doc) \cap Made
        BY <4>1 DEF Remembered
      <4>. QED
        BY <3>1, <4>2, CommittedRows DEF IInv
    <3>3. Kind(job[v].doc) \subseteq Doc
      BY <1>5, Kinds
    <3>. QED
      BY <1>3, <2>2, <3>1, <3>2, <3>3 DEF Covers, Published
  <2>. QED
    BY <2>3, <2>4
<1>. QED
  BY <1>6, <1>7

LEMMA AlwaysCovered == Spec => []Covered
<1>1. Init => Covered
  BY IdleJob DEF Init, Covered
<1>. QED
  BY <1>1, Invariance, CoveredStays, PTL DEF Spec

\* A commit supersedes the rest.
LEMMA CommitSupersedes ==
  ASSUME IInv, Covered, NEW w \in Worker, NEW d \in Doc,
         job[w].pc = "save", job[w].doc = d, doc' = Committed(w)
  PROVE  Published(Kind(d))' \subseteq {d} \cup beside[w]
<1>1. /\ Remembered(job[w], Made, Numbers, Ruled, Times)
      /\ job[w].op \in {"publish", "import", "seed"}
  BY OneJob, StepOf DEF IInv
<1>2. d \in Made \cup National /\ job[w].hit \subseteq Kind(d) \cap Made
  BY <1>1 DEF Remembered
<1>3. /\ \A e \in Doc : e # d /\ e \in job[w].hit => doc'[e].status = "superseded"
      /\ \A e \in Doc : e # d /\ e \notin job[w].hit => doc'[e] = doc[e]
  BY <1>2, CommittedRows DEF IInv
<1>4. Published(Kind(d)) \subseteq {d} \cup job[w].hit \cup beside[w] /\ Kind(d) \subseteq Doc
  BY Kinds DEF Covered, Covers
<1>. QED
  BY <1>3, <1>4 DEF Published

-----------------------------------------------------------------------------
(* The theorems *)

\* Lists, services, notes and requests have their types: no catalogue gets a version
\* beyond their number.
THEOREM TypeCorrect == Spec => []TypeOK
<1>1. IInv => TypeOK
  BY Typed
<1>. QED
  BY <1>1, Invariance, PTL

\* A tenant never has two published catalogues, however publications overlap.
THEOREM OnePublishedCatalog == Spec => []OnePublished
<1>1. IInv => OnePublished
  BY Single
<1>. QED
  BY <1>1, Invariance, PTL

\* A publication leaves no list published of its kind that was published before its
\* UPDATE and not again since, whatever ran at its side.
THEOREM OlderAreAlwaysSuperseded == Spec => OlderAreSuperseded
<1>1. IInv /\ Covered /\ [Next]_vars =>
        [\A w \in Worker, d \in Doc :
           job[w].pc = "save" /\ job[w].doc = d /\ job'[w] = Idle /\ doc' = Committed(w) =>
             Published(Kind(d))' \subseteq {d} \cup beside[w]]_vars
  BY CommitSupersedes
<1>. QED
  BY <1>1, Invariance, AlwaysCovered, PTL DEF Spec, OlderAreSuperseded

\* No step leaves a kind of list without a published one, once there is one.
THEOREM NeverWithdrawnList == Spec => NeverWithdrawn
<1>1. IInv /\ [Next]_vars =>
        [\A D \in {Catalog, Rtc, National} : Published(D) # {} => Published(D)' # {}]_vars
  <2>. SUFFICES ASSUME IInv, [Next]_vars, NEW D \in {Catalog, Rtc, National}, Published(D) # {}
                PROVE  Published(D)' # {}
    OBVIOUS
  <2>. QED
    BY Withdraws DEF Published
<1>. QED
  BY <1>1, Invariance, PTL DEF Spec, NeverWithdrawn

\* The snapshot of a queued note names one catalogue that has its rule, and the new
\* taxes fit into their base, for any test rate of the CBS up to 99 per cent.
THEOREM NoteIsAlwaysExplained == ASSUME TEST_CBS \in ModestRate PROVE Spec => []NoteIsExplained
<1>1. IInv => NoteIsExplained
  BY Explains
<1>. QED
  BY <1>1, Invariance, PTL
=============================================================================
