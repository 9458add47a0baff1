--------------------------- MODULE DeliveryProofs ---------------------------
(***************************************************************************)
(* Proofs about Delivery: its types, and that a message whose outcome the  *)
(* Hub knows is not sent again, for any messages, workers and bounds.      *)
(***************************************************************************)
EXTENDS Delivery, TLAPS

-----------------------------------------------------------------------------
(* The inductive invariant *)

Unsettled == {"pending", "failed"}
Sending == {"send", "finish"}
Hearing == {"existing", "recent", "create"}
Job == [pc : {"idle"} \cup Sending \cup Hearing,
        on : Message \cup Inbound \cup {None}, result : Result,
        last : Inbound \cup {None}]

\* A message that may be tried again has attempts left.
RowsOK ==
  /\ msg \in [Message -> Row \cup {NoMsg}]
  /\ \A m \in Message : msg[m].status \in Unsettled => msg[m].attempts < MAX_ATTEMPTS

CountsOK ==
  /\ tasks \in [Message -> 0..MaxTask]
  /\ rows \in [Message -> [Notification -> 0..2]]
  /\ sent \in [Message -> 0..2]
  /\ heard \in [Inbound -> 0..MaxHeard]
  /\ quiet \in {"chat", "outbox"}

\* A session holds words of the phone whose message it is named for.
SessionsOK ==
  /\ session \in [Inbound -> Session \cup {NoSession}]
  /\ \A i \in Inbound : session[i] # NoSession => Phone[session[i].text] = Phone[i]

\* What a worker in a chat request remembers is of the phone that wrote.
Remembered(j) ==
  /\ j.pc \in Hearing => j.on \in Inbound
  /\ j.pc = "existing" => j.last \in Inbound /\ Phone[j.last] = Phone[j.on]

JobsOK == job \in [Worker -> Job] /\ \A w \in Worker : Remembered(job[w])

\* A worker that sends a message holds its row, which is as it was claimed.
Claimed ==
  /\ lock \in [Message -> Worker \cup {None}]
  /\ \A w \in Worker : job[w].pc \in Sending =>
       /\ job[w].on \in Message /\ lock[job[w].on] = w
       /\ msg[job[w].on].status \in Unsettled

IInv == RowsOK /\ CountsOK /\ SessionsOK /\ JobsOK /\ Claimed

-----------------------------------------------------------------------------
(* Lemmas on numbers, on rows, and on single writes *)

LEMMA Numbers ==
  /\ MAX_ATTEMPTS \in Nat /\ MAX_ATTEMPTS > 0 /\ Backoff \in Nat
  /\ MaxTask \in Nat /\ MaxTask > 0 /\ MaxHeard \in Nat /\ Debounce \in Nat
  BY NumberAssumption

\* Max and Min of FiniteSetsExt, on two numbers.
LEMMA MaxOfTwo ==
  ASSUME NEW a \in Int, NEW b \in Int
  PROVE  Max({a, b}) = IF a >= b THEN a ELSE b
<1>1. \E x \in {a, b} : \A y \in {a, b} : x >= y
  OBVIOUS
<1>2. Max({a, b}) \in {a, b} /\ \A y \in {a, b} : Max({a, b}) >= y
  BY <1>1 DEF Max
<1>. QED  BY <1>2

LEMMA MinOfTwo ==
  ASSUME NEW a \in Int, NEW b \in Int
  PROVE  Min({a, b}) = IF a <= b THEN a ELSE b
<1>1. \E x \in {a, b} : \A y \in {a, b} : x <= y
  OBVIOUS
<1>2. Min({a, b}) \in {a, b} /\ \A y \in {a, b} : Min({a, b}) <= y
  BY <1>1 DEF Min
<1>. QED  BY <1>2

LEMMA MoreWaits ==
  ASSUME NEW b \in Nat, NEW n \in Nat, NEW max \in Nat, n <= max
  PROVE  b * n \in Nat /\ b * max \in Nat /\ b * n <= b * max
<1>1. PICK k \in Nat : max = n + k
  <2>1. max - n \in Nat /\ max = n + (max - n)
    OBVIOUS
  <2>. QED  BY <2>1
<1>2. b * n \in Nat /\ b * k \in Nat
  OBVIOUS
<1>3. b * max = b * n + b * k
  BY <1>1
<1>. QED  BY <1>2, <1>3

\* A message a worker may try.
LEMMA RowRead ==
  ASSUME IInv, NEW m \in Message, msg[m].status \in Unsettled
  PROVE  msg[m] \in Row /\ msg[m].attempts \in Nat /\ msg[m].attempts < MAX_ATTEMPTS
<1>1. msg[m] \in Row
  BY DEF IInv, RowsOK, Unsettled, NoMsg
<1>2. msg[m].attempts \in 0..MAX_ATTEMPTS /\ msg[m].attempts < MAX_ATTEMPTS
  BY <1>1 DEF IInv, RowsOK, Row
<1>. QED  BY <1>1, <1>2

\* A failed attempt leaves a row with one attempt more, dead at the last.
LEMMA FailureRow ==
  ASSUME NEW r \in Row, r.attempts < MAX_ATTEMPTS
  PROVE  /\ AfterFailure(r) \in Row
         /\ AfterFailure(r).status \in Unsettled => AfterFailure(r).attempts < MAX_ATTEMPTS
<1>1. r.attempts \in Nat /\ r.attempts + 1 \in 0..MAX_ATTEMPTS
  BY Numbers DEF Row
<1>2. CASE r.attempts + 1 >= MAX_ATTEMPTS
  <2>1. AfterFailure(r) = [r EXCEPT !.attempts = r.attempts + 1, !.status = "dead"]
    BY <1>2 DEF AfterFailure
  <2>. QED  BY <1>1, <2>1 DEF Row, Status, Unsettled
<1>3. CASE ~(r.attempts + 1 >= MAX_ATTEMPTS)
  <2> DEFINE wait == Backoff * (r.attempts + 1)
  <2>1. AfterFailure(r) =
          [r EXCEPT !.attempts = r.attempts + 1, !.status = "failed", !.wait = wait]
    BY <1>3 DEF AfterFailure
  <2>2. wait \in -1..(Backoff * MAX_ATTEMPTS)
    <3>1. wait \in Nat /\ Backoff * MAX_ATTEMPTS \in Nat /\ wait <= Backoff * MAX_ATTEMPTS
      BY <1>1, Numbers, MoreWaits
    <3>. QED  BY <3>1
  <2>3. r.attempts + 1 < MAX_ATTEMPTS
    BY <1>1, <1>3, Numbers
  <2>. HIDE DEF wait
  <2>. QED  BY <1>1, <2>1, <2>2, <2>3 DEF Row, Status
<1>. QED  BY <1>2, <1>3

\* One message is written.
LEMMA RowWrite ==
  ASSUME IInv, NEW m \in Message, NEW r \in Row, msg' = [msg EXCEPT ![m] = r],
         r.status \in Unsettled => r.attempts < MAX_ATTEMPTS
  PROVE  RowsOK' /\ msg'[m] = r /\ \A o \in Message : o # m => msg'[o] = msg[o]
  BY DEF IInv, RowsOK

\* A message that was tried is settled.
LEMMA ProcessedRow ==
  ASSUME NEW r \in Row, r.attempts < MAX_ATTEMPTS
  PROVE  [r EXCEPT !.status = "processed", !.attempts = @ + 1] \in Row
<1>1. r.attempts + 1 \in 0..MAX_ATTEMPTS
  BY Numbers DEF Row
<1>. QED  BY <1>1 DEF Row, Status

LEMMA JobWrite ==
  ASSUME IInv, NEW w \in Worker, NEW r \in Job, Remembered(r), job' = [job EXCEPT ![w] = r]
  PROVE  JobsOK'
  BY DEF IInv, JobsOK

LEMMA IdleJob ==
  /\ Idle \in Job /\ Remembered(Idle) /\ Idle.pc \notin Sending
  BY DEF Idle, Job, Remembered, Sending, Hearing, Result

\* Other workers keep the rows they hold, as they claimed them.
LEMMA ClaimWrite ==
  ASSUME IInv, NEW w \in Worker, NEW r, job' = [job EXCEPT ![w] = r],
         lock' \in [Message -> Worker \cup {None}],
         r.pc \in Sending =>
           r.on \in Message /\ lock'[r.on] = w /\ msg'[r.on].status \in Unsettled,
         \A m \in Message : lock[m] \notin {w, None} => lock'[m] = lock[m] /\ msg'[m] = msg[m]
  PROVE  Claimed'
<1> SUFFICES ASSUME NEW v \in Worker, job'[v].pc \in Sending
             PROVE  /\ job'[v].on \in Message /\ lock'[job'[v].on] = v
                    /\ msg'[job'[v].on].status \in Unsettled
  BY DEF Claimed
<1>1. CASE v = w
  BY <1>1 DEF IInv, JobsOK
<1>2. CASE v # w
  <2>1. job'[v] = job[v]
    BY <1>2 DEF IInv, JobsOK
  <2>2. job[v].on \in Message /\ lock[job[v].on] = v /\ msg[job[v].on].status \in Unsettled
    BY <2>1 DEF IInv, Claimed
  <2>. QED  BY <1>2, <2>1, <2>2, NoneAssumption
<1>. QED  BY <1>1, <1>2

\* The outbox is written, by nobody who holds or takes a row.
LEMMA ClaimKept ==
  ASSUME IInv, UNCHANGED <<lock, job>>,
         \A m \in Message : lock[m] # None /\ msg[m].status \in Unsettled =>
           msg'[m].status \in Unsettled
  PROVE  Claimed'
  BY NoneAssumption DEF IInv, Claimed

LEMMA InitOK == Init => IInv
<1> SUFFICES ASSUME Init PROVE IInv
  OBVIOUS
<1>1. RowsOK /\ CountsOK
  BY Numbers DEF Init, RowsOK, CountsOK, NoMsg, Unsettled, Notification
<1>2. SessionsOK /\ JobsOK /\ Claimed
  BY IdleJob DEF Init, SessionsOK, JobsOK, Claimed
<1>. QED  BY <1>1, <1>2 DEF IInv

-----------------------------------------------------------------------------
(* The outbox *)

LEMMA TickKeeps == ASSUME IInv, Tick PROVE IInv'
<1>1. ASSUME NEW m \in Message
      PROVE  /\ msg'[m] \in Row \cup {NoMsg} /\ msg'[m].status = msg[m].status
             /\ msg'[m].attempts = msg[m].attempts
  <2>1. CASE msg[m] = NoMsg
    BY <2>1 DEF Tick
  <2>2. CASE msg[m] # NoMsg
    <3> DEFINE wait == Max({msg[m].wait - 1, -1})
               top == Backoff * MAX_ATTEMPTS
    <3>1. msg[m] \in Row /\ msg[m].wait \in -1..top
      BY <2>2 DEF IInv, RowsOK, Row
    <3>2. top \in Nat
      BY Numbers, MoreWaits
    <3>. HIDE DEF top
    <3>3. wait \in -1..top
      BY <3>1, <3>2, MaxOfTwo
    <3>4. msg'[m] = [msg[m] EXCEPT !.wait = wait]
      BY <2>2 DEF Tick
    <3>. HIDE DEF wait
    <3>. QED  BY <3>1, <3>3, <3>4 DEF Row, top
  <2>. QED  BY <2>1, <2>2
<1>2. RowsOK'
  <2>1. msg' \in [Message -> Row \cup {NoMsg}]
    BY <1>1 DEF Tick
  <2>. QED  BY <1>1, <2>1 DEF IInv, RowsOK
<1>3. ASSUME NEW i \in Inbound
      PROVE  session'[i] = session[i] \/
             /\ session[i] # NoSession /\ session'[i] \in Session
             /\ session'[i].text = session[i].text
  <2>1. CASE session[i] = NoSession
    BY <2>1 DEF Tick
  <2>2. CASE session[i] # NoSession
    <3> DEFINE age == Min({session[i].age + 1, Debounce + 1})
    <3>1. session[i] \in Session /\ session[i].age \in 0..(Debounce + 1)
      BY <2>2 DEF IInv, SessionsOK, Session
    <3>2. age \in 0..(Debounce + 1)
      BY <3>1, Numbers, MinOfTwo
    <3>3. session'[i] = [session[i] EXCEPT !.age = age]
      BY <2>2 DEF Tick
    <3>. HIDE DEF age
    <3>. QED  BY <2>2, <3>1, <3>2, <3>3 DEF Session
  <2>. QED  BY <2>1, <2>2
<1>4. SessionsOK'
  <2>1. session' \in [Inbound -> Session \cup {NoSession}]
    <3>1. session' = [i \in Inbound |-> session'[i]]
      BY DEF Tick
    <3>2. \A i \in Inbound : session'[i] \in Session \cup {NoSession}
      BY <1>3 DEF IInv, SessionsOK
    <3>. QED  BY <3>1, <3>2
  <2>. QED  BY <1>3, <2>1 DEF IInv, SessionsOK
<1>5. CountsOK' /\ JobsOK'
  BY DEF Tick, IInv, CountsOK, JobsOK
<1>6. Claimed'
  BY <1>1, ClaimKept DEF Tick
<1>. QED  BY <1>2, <1>4, <1>5, <1>6 DEF IInv

LEMMA EnqueueKeeps ==
  ASSUME IInv, NEW m \in Message, Enqueue(m) PROVE IInv'
<1> DEFINE r == [status |-> "pending", attempts |-> 0, wait |-> 0]
<1>1. r \in Row /\ r.attempts < MAX_ATTEMPTS
  <2>1. Backoff * MAX_ATTEMPTS \in Nat
    BY Numbers, MoreWaits
  <2>. QED  BY <2>1, Numbers DEF Row, Status
<1>2. RowsOK' /\ msg'[m] = r /\ \A o \in Message : o # m => msg'[o] = msg[o]
  <2>1. msg' = [msg EXCEPT ![m] = r]
    BY DEF Enqueue
  <2>. HIDE DEF r
  <2>. QED  BY <1>1, <2>1, RowWrite
<1>3. CountsOK'
  BY Numbers DEF Enqueue, chatVars, IInv, CountsOK
<1>4. SessionsOK' /\ JobsOK'
  BY DEF Enqueue, chatVars, IInv, SessionsOK, JobsOK
<1>5. Claimed'
  BY <1>2, ClaimKept DEF Enqueue, Unsettled
<1>. QED  BY <1>2, <1>3, <1>4, <1>5 DEF IInv

LEMMA SweepKeeps == ASSUME IInv, Sweep PROVE IInv'
<1>1. CountsOK'
  BY Numbers DEF Sweep, chatVars, IInv, CountsOK
<1>2. RowsOK' /\ SessionsOK' /\ JobsOK' /\ Claimed'
  BY DEF Sweep, chatVars, IInv, RowsOK, SessionsOK, JobsOK, Claimed
<1>. QED  BY <1>1, <1>2 DEF IInv

LEMMA ConsumeKeeps ==
  ASSUME IInv, NEW m \in Message, tasks[m] > 0, Consume(m)
  PROVE  tasks' \in [Message -> 0..MaxTask]
<1>1. tasks[m] - 1 \in 0..MaxTask
  BY Numbers DEF IInv, CountsOK
<1>. QED  BY <1>1 DEF IInv, CountsOK, Consume

LEMMA TakeNothingKeeps ==
  ASSUME IInv, NEW w \in Worker, NEW m \in Message, TakeNothing(w, m) PROVE IInv'
<1>1. CountsOK'
  BY ConsumeKeeps DEF TakeNothing, chatVars, IInv, CountsOK
<1>2. RowsOK' /\ SessionsOK' /\ JobsOK' /\ Claimed'
  BY DEF TakeNothing, chatVars, IInv, RowsOK, SessionsOK, JobsOK, Claimed
<1>. QED  BY <1>1, <1>2 DEF IInv

LEMMA ClaimKeeps ==
  ASSUME IInv, NEW w \in Worker, NEW m \in Message, Claim(w, m) PROVE IInv'
<1> DEFINE r == [Idle EXCEPT !.pc = "send", !.on = m]
<1>1. r \in Job /\ Remembered(r) /\ r.on = m
  BY DEF Idle, Job, Remembered, Sending, Hearing, Result
<1>2. job' = [job EXCEPT ![w] = r]
  BY DEF Claim
<1>3. CountsOK'
  BY ConsumeKeeps DEF Claim, chatVars, IInv, CountsOK
<1>4. RowsOK' /\ SessionsOK'
  BY DEF Claim, chatVars, IInv, RowsOK, SessionsOK
<1>5. JobsOK'
  BY <1>1, <1>2, JobWrite
<1>6. Claimed'
  <2>1. /\ lock' \in [Message -> Worker \cup {None}] /\ lock'[m] = w
        /\ \A o \in Message : lock[o] # None => lock'[o] = lock[o]
        /\ msg' = msg /\ msg[m].status \in Unsettled
    BY DEF Claim, IInv, Claimed, Due, Unsettled
  <2>. QED  BY <1>1, <1>2, <2>1, ClaimWrite
<1>. QED  BY <1>3, <1>4, <1>5, <1>6 DEF IInv

LEMMA ProcessSilentKeeps ==
  ASSUME IInv, NEW w \in Worker, NEW m \in Message, ProcessSilent(w, m) PROVE IInv'
<1> DEFINE r == [msg[m] EXCEPT !.status = "processed", !.attempts = @ + 1]
<1>1. msg[m].status \in Unsettled
  BY DEF ProcessSilent, Due, Unsettled
<1>2. r \in Row /\ r.status = "processed"
  <2>1. msg[m] \in Row /\ msg[m].attempts < MAX_ATTEMPTS
    BY <1>1, RowRead
  <2>. QED  BY <2>1, ProcessedRow DEF Row
<1>3. RowsOK' /\ \A o \in Message : o # m => msg'[o] = msg[o]
  <2>1. msg' = [msg EXCEPT ![m] = r]
    BY DEF ProcessSilent
  <2>. HIDE DEF r
  <2>. QED  BY <1>2, <2>1, RowWrite DEF Unsettled
<1>4. CountsOK'
  BY ConsumeKeeps DEF ProcessSilent, chatVars, IInv, CountsOK
<1>5. SessionsOK' /\ JobsOK'
  BY DEF ProcessSilent, chatVars, IInv, SessionsOK, JobsOK
<1>6. Claimed'
  BY <1>3, ClaimKept DEF ProcessSilent
<1>. QED  BY <1>3, <1>4, <1>5, <1>6 DEF IInv

LEMMA SendKeeps ==
  ASSUME IInv, NEW w \in Worker, Send(w) PROVE IInv'
<1> DEFINE j == job[w]
           m == j.on
<1>1. /\ j \in Job /\ Remembered(j) /\ j.pc = "send"
      /\ m \in Message /\ lock[m] = w /\ msg[m].status \in Unsettled
  BY DEF Send, IInv, JobsOK, Claimed, Sending
<1>2. PICK result \in Result \ {"none"}, taken \in BOOLEAN :
        /\ job' = [job EXCEPT ![w].pc = "finish", ![w].result = result]
        /\ sent' = IF taken THEN [sent EXCEPT ![m] = UpToTwo(@)] ELSE sent
  BY DEF Send
<1> DEFINE r == [j EXCEPT !.pc = "finish", !.result = result]
<1>3. r \in Job /\ Remembered(r) /\ r.on = m /\ job' = [job EXCEPT ![w] = r]
  BY <1>1, <1>2 DEF Job, Remembered, Sending, Hearing
<1>4. CountsOK'
  BY <1>1, <1>2 DEF Send, chatVars, IInv, CountsOK, UpToTwo
<1>5. RowsOK' /\ SessionsOK'
  BY DEF Send, chatVars, IInv, RowsOK, SessionsOK
<1>6. JobsOK'
  BY <1>3, JobWrite
<1>7. Claimed'
  <2>1. lock' = lock /\ msg' = msg /\ lock \in [Message -> Worker \cup {None}]
    BY DEF Send, IInv, Claimed
  <2>. HIDE DEF r
  <2>. QED  BY <1>1, <1>3, <2>1, ClaimWrite
<1>. QED  BY <1>4, <1>5, <1>6, <1>7 DEF IInv

\* A worker gives its row back, having written that row or none.
LEMMA UnlockKeeps ==
  ASSUME IInv, NEW w \in Worker, job[w].pc \in Sending, Unlock(w),
         \A m \in Message : m # job[w].on => msg'[m] = msg[m]
  PROVE  JobsOK' /\ Claimed'
<1>1. job' = [job EXCEPT ![w] = Idle]
  BY DEF Unlock
<1>2. JobsOK'
  BY <1>1, JobWrite, IdleJob
<1>3. Claimed'
  <2>1. /\ lock' \in [Message -> Worker \cup {None}]
        /\ \A m \in Message : lock[m] \notin {w, None} => lock'[m] = lock[m]
    BY DEF Unlock, IInv, Claimed
  <2>2. \A m \in Message : lock[m] \notin {w, None} => msg'[m] = msg[m]
    BY DEF IInv, Claimed
  <2>. QED  BY <1>1, <2>1, <2>2, ClaimWrite, IdleJob
<1>. QED  BY <1>2, <1>3

LEMMA EndKeeps ==
  ASSUME IInv, NEW w \in Worker, Failed(w) \/ Processed(w) \/ Crash(w) PROVE IInv'
<1> DEFINE m == job[w].on
<1>1. job[w].pc \in Sending /\ m \in Message /\ msg[m].status \in Unsettled
  BY DEF Failed, Processed, Crash, IInv, Claimed, Sending
<1>2. msg[m] \in Row /\ msg[m].attempts < MAX_ATTEMPTS
  BY <1>1, RowRead
<1>3. RowsOK' /\ \A o \in Message : o # m => msg'[o] = msg[o]
  <2>1. CASE Failed(w)
    <3>1. msg' = [msg EXCEPT ![m] = AfterFailure(msg[m])]
      BY <2>1 DEF Failed
    <3>. QED  BY <1>1, <1>2, <3>1, FailureRow, RowWrite
  <2>2. CASE Processed(w)
    <3> DEFINE r == [msg[m] EXCEPT !.status = "processed", !.attempts = @ + 1]
    <3>1. r \in Row /\ r.status = "processed"
      BY <1>2, ProcessedRow DEF Row
    <3>2. msg' = [msg EXCEPT ![m] = r]
      BY <2>2 DEF Processed
    <3>. HIDE DEF r
    <3>. QED  BY <1>1, <3>1, <3>2, RowWrite DEF Unsettled
  <2>3. CASE Crash(w)
    BY <2>3 DEF Crash, IInv, RowsOK
  <2>. QED  BY <2>1, <2>2, <2>3
<1>4. CountsOK'
  <2>1. CASE Processed(w)
    <3>1. PICK n \in Notification : rows' = [rows EXCEPT ![m][n] = UpToTwo(@)]
      BY <2>1 DEF Processed, Notification
    <3>2. rows \in [Message -> [Notification -> 0..2]] /\ UpToTwo(rows[m][n]) \in 0..2
      BY <1>1 DEF IInv, CountsOK, UpToTwo
    <3>3. rows' \in [Message -> [Notification -> 0..2]]
      BY <3>1, <3>2
    <3>. QED  BY <2>1, <3>3 DEF Processed, chatVars, IInv, CountsOK
  <2>2. CASE Failed(w) \/ Crash(w)
    BY <2>2 DEF Failed, Crash, chatVars, IInv, CountsOK
  <2>. QED  BY <2>1, <2>2
<1>5. SessionsOK'
  BY DEF Failed, Processed, Crash, chatVars, IInv, SessionsOK
<1>6. JobsOK' /\ Claimed'
  BY <1>1, <1>3, UnlockKeeps DEF Failed, Processed, Crash
<1>. QED  BY <1>3, <1>4, <1>5, <1>6 DEF IInv

-----------------------------------------------------------------------------
(* The chat *)

\* A worker of the chat leaves the outbox alone.
LEMMA ChatWrite ==
  ASSUME IInv, NEW w \in Worker, UNCHANGED <<outboxVars, quiet>>,
         NEW r \in Job, Remembered(r), r.pc \notin Sending, job' = [job EXCEPT ![w] = r]
  PROVE  RowsOK' /\ JobsOK' /\ Claimed'
<1>1. RowsOK' /\ JobsOK'
  BY JobWrite DEF outboxVars, IInv, RowsOK
<1>2. Claimed'
  BY ClaimWrite DEF outboxVars, IInv, Claimed
<1>. QED  BY <1>1, <1>2

\* A session takes a message of its phone.
LEMMA SessionWrite ==
  ASSUME IInv, NEW i \in Inbound, NEW text \in Inbound, NEW last \in Inbound,
         Phone[text] = Phone[i], Phone[last] = Phone[i],
         session' = [session EXCEPT ![i] = [text |-> text, last |-> last, age |-> 0]]
  PROVE  SessionsOK'
<1> DEFINE s == [text |-> text, last |-> last, age |-> 0]
<1>1. s \in Session /\ s.text = text
  BY Numbers DEF Session
<1>. HIDE DEF s
<1>2. session' = [session EXCEPT ![i] = s]
  BY DEF s
<1>. QED  BY <1>1, <1>2 DEF IInv, SessionsOK

LEMMA HearKeeps ==
  ASSUME IInv, NEW w \in Worker, NEW i \in Inbound, Hear(w, i) PROVE IInv'
<1> DEFINE r == IF session[i] # NoSession
                THEN [Idle EXCEPT !.pc = "existing", !.on = i, !.last = session[i].last]
                ELSE [Idle EXCEPT !.pc = "recent", !.on = i]
<1>1. r \in Job /\ Remembered(r) /\ r.pc \notin Sending
  <2>1. CASE session[i] # NoSession
    <3>1. session[i].last \in Inbound /\ Phone[session[i].last] = Phone[i]
      BY <2>1 DEF IInv, SessionsOK, Session
    <3>. QED  BY <2>1, <3>1 DEF Idle, Job, Remembered, Sending, Hearing, Result
  <2>2. CASE session[i] = NoSession
    BY <2>2 DEF Idle, Job, Remembered, Sending, Hearing, Result
  <2>. QED  BY <2>1, <2>2
<1>2. job' = [job EXCEPT ![w] = r]
  BY DEF Hear
<1>. HIDE DEF r
<1>3. RowsOK' /\ JobsOK' /\ Claimed'
  BY <1>1, <1>2, ChatWrite DEF Hear
<1>4. CountsOK'
  <2>1. heard[i] + 1 \in 0..MaxHeard
    BY Numbers DEF Hear, IInv, CountsOK
  <2>. QED  BY <2>1 DEF Hear, outboxVars, IInv, CountsOK
<1>5. SessionsOK'
  BY DEF Hear, IInv, SessionsOK
<1>. QED  BY <1>3, <1>4, <1>5 DEF IInv

LEMMA ChatKeeps ==
  ASSUME IInv, NEW w \in Worker,
         UpdateExisting(w) \/ UpdateRecent(w) \/ NoRecent(w) \/ Create(w)
  PROVE  IInv'
<1> DEFINE j == job[w]
           i == j.on
<1>1. j \in Job /\ Remembered(j) /\ i \in Inbound /\ j.pc \in Hearing
  BY DEF UpdateExisting, UpdateRecent, NoRecent, Create, IInv, JobsOK, Remembered, Hearing
<1>2. CountsOK'
  BY DEF UpdateExisting, UpdateRecent, NoRecent, Create, outboxVars, chatVars, IInv, CountsOK
<1>3. RowsOK' /\ JobsOK' /\ Claimed'
  <2>1. CASE NoRecent(w)
    <3> DEFINE r == [j EXCEPT !.pc = "create"]
    <3>1. r \in Job /\ Remembered(r) /\ r.pc \notin Sending
      BY <1>1 DEF Job, Remembered, Sending, Hearing
    <3>2. job' = [job EXCEPT ![w] = r] /\ UNCHANGED <<outboxVars, quiet>>
      BY <2>1 DEF NoRecent
    <3>. HIDE DEF r
    <3>. QED  BY <3>1, <3>2, ChatWrite
  <2>2. CASE ~NoRecent(w)
    <3>1. job' = [job EXCEPT ![w] = Idle] /\ UNCHANGED <<outboxVars, quiet>>
      BY <2>2 DEF UpdateExisting, UpdateRecent, Create
    <3>. QED  BY <3>1, IdleJob, ChatWrite
  <2>. QED  BY <2>1, <2>2
<1>4. SessionsOK'
  <2>1. CASE UpdateExisting(w)
    BY <1>1, <2>1, SessionWrite DEF UpdateExisting, Remembered
  <2>2. CASE UpdateRecent(w)
    <3>1. PICK k \in Recent(i) :
            session' = [session EXCEPT ![k] = [text |-> i, last |-> i, age |-> 0]]
      BY <2>2 DEF UpdateRecent
    <3>2. k \in Inbound /\ Phone[k] = Phone[i]
      BY DEF Recent
    <3>. QED  BY <1>1, <3>1, <3>2, SessionWrite
  <2>3. CASE NoRecent(w)
    BY <2>3 DEF NoRecent, chatVars, IInv, SessionsOK
  <2>4. CASE Create(w)
    <3>1. CASE session[i] # NoSession
      BY <2>4, <3>1 DEF Create, IInv, SessionsOK
    <3>2. CASE session[i] = NoSession
      BY <1>1, <2>4, <3>2, SessionWrite DEF Create
    <3>. QED  BY <3>1, <3>2
  <2>. QED  BY <2>1, <2>2, <2>3, <2>4
<1>. QED  BY <1>2, <1>3, <1>4 DEF IInv

-----------------------------------------------------------------------------
(* Theorems *)

LEMMA StepOK == IInv /\ [Next]_vars => IInv'
<1> SUFFICES ASSUME IInv, [Next]_vars PROVE IInv'
  OBVIOUS
<1>1. CASE UNCHANGED vars
  BY <1>1 DEF vars, IInv, RowsOK, CountsOK, SessionsOK, JobsOK, Claimed
<1>2. CASE Next
  BY <1>2, EnqueueKeeps, TakeNothingKeeps, ClaimKeeps, ProcessSilentKeeps, SendKeeps,
     EndKeeps, HearKeeps, ChatKeeps, SweepKeeps, TickKeeps DEF Next
<1>. QED  BY <1>1, <1>2

LEMMA Inductive == Spec => []IInv
  BY InitOK, StepOK, PTL DEF Spec

\* The type invariant: among others, a message is tried MAX_ATTEMPTS times at
\* most, and a chat session never holds words of two phones.
THEOREM TypeCorrect == Spec => []TypeOK
<1>1. IInv => TypeOK
  BY DEF IInv, RowsOK, CountsOK, SessionsOK, JobsOK, Claimed, TypeOK, Session, NoSession,
         Job, Sending, Hearing
<1>. QED  BY <1>1, Inductive, PTL

\* claim_and_dispatch sends a text only for a message whose outcome is open: its
\* lock lasts from the check to the commit, so no other worker settles the
\* message while the gateway is called.
THEOREM NeverSentAgain == Spec => NotSentAgain
<1>1. IInv /\ [Next]_vars =>
        [\A m \in Message :
           sent'[m] > sent[m] => msg[m].status \in {"pending", "failed"}]_vars
  <2> SUFFICES ASSUME IInv, Next, NEW m \in Message, sent'[m] > sent[m]
               PROVE  msg[m].status \in {"pending", "failed"}
    OBVIOUS
  <2>1. sent[m] \in Nat /\ ~(sent[m] > sent[m])
    BY DEF IInv, CountsOK
  <2>2. PICK w \in Worker : Send(w)
    BY <2>1 DEF Next, Enqueue, TakeNothing, Claim, ProcessSilent, Failed, Processed, Crash,
       Hear, UpdateExisting, UpdateRecent, NoRecent, Create, Sweep, Tick, outboxVars
  <2>3. m = job[w].on
    BY <2>1, <2>2 DEF Send, IInv, CountsOK
  <2>. QED  BY <2>2, <2>3 DEF Send, IInv, Claimed, Sending, Unsettled
<1>. QED  BY <1>1, Inductive, PTL DEF Spec, NotSentAgain
=============================================================================
