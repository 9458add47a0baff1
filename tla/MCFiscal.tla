------------------------------- MODULE MCFiscal -------------------------------
(* Three catalogues, two RTC versions, two national lists, two requests at a   *)
(* time, from a tenant in use and from an empty database.                      *)
EXTENDS Fiscal, TLC

CONSTANTS c1, c2, c3, seed, official, n1, n2, w1, w2

Catalogs == {c1, c2, c3}
RtcVersions == {seed, official}
Lists == {n1, n2}
TwoWorkers == {w1, w2}

RuleOf(code, from, to, priority, iss) ==
  [code |-> code, from |-> from, to |-> to, priority |-> priority,
   iss |-> iss, pis |-> 65, cofins |-> 300]
R1 == RuleOf("consulting", 1, 2, 100, 200)
R2 == RuleOf("1.01", 1, None, 10, 10000) \* the deductions exceed the price
Rules == {R1, R2}
Codes == {"000"}
ItemsOf == (n1 :> {"10101"}) @@ (n2 :> {"10101", "10201"})
HintOf == ("10101" :> "1.01") @@ ("10201" :> "1.02")

ServiceOf(code, nacional, lc116) == [code |-> code, nacional |-> nacional, lc116 |-> lc116]
Own == ServiceOf("consulting", "10101", "1")
Services == {Own, ServiceOf("consulting", "10101", "1.01"), ServiceOf("10101", "10101", "1.01"),
             ServiceOf("10201", "10201", "1.02")}

Empty == [doc |-> [d \in Doc |-> Absent], services |-> {Own},
          published_at |-> [d \in Rtc \cup National |-> 0], now |-> 0]
InUse ==
  [services |-> {Own}, now |-> 3,
   published_at |-> (official :> 3) @@ (seed :> 2) @@ (n1 :> 1) @@ (n2 :> 0), doc |->
     (c1 :> [status |-> "published", lines |-> {R1}, version |-> 1, ready |-> TRUE]) @@
     (c2 :> [status |-> "draft", lines |-> {R2}, version |-> 2, ready |-> TRUE]) @@
     (official :> [status |-> "published", lines |-> Codes, version |-> 0, ready |-> FALSE]) @@
     (seed :> [status |-> "superseded", lines |-> Codes, version |-> 0, ready |-> FALSE]) @@
     (n1 :> [status |-> "published", lines |-> {"10101"}, version |-> 0, ready |-> FALSE]) @@
     [d \in Doc |-> Absent]]
Starts == {Empty, InUse}

Symmetry == Permutations(TwoWorkers)
=============================================================================
