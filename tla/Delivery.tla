------------------------------- MODULE Delivery -------------------------------
(***************************************************************************)
(* What the Hub tells customers and what it hears from them: the outbox of  *)
(* apps/ops with the notifications of apps/channel that its handlers send,  *)
(* and the inbound chat of the Evolution webhook.                           *)
(*                                                                         *)
(* claim_and_dispatch is one transaction: it locks the message, sends the   *)
(* text to the gateway and commits what became of it.  Nothing but the      *)
(* task queued on commit, and dispatch_pending_outbox when somebody runs    *)
(* it, starts it.                                                           *)
(***************************************************************************)
EXTENDS Integers, FiniteSets, FiniteSetsExt

CONSTANTS
  Message,      \* outbox messages the dispatcher handles
  Silent,       \* those with no handler, no phone or no body
  Inbound,      \* WhatsApp messages, by message id
  Phone,        \* who sends each of them
  Worker,       \* Celery workers and web requests
  MAX_ATTEMPTS, \* 8 in the code
  Backoff,      \* 30 seconds, in ticks
  Limit,        \* messages taken by one dispatch_pending_outbox, 50 in the code
  Debounce,     \* DEBOUNCE_SECONDS, in ticks
  MaxTask, MaxHeard, \* bounds: tasks queued for a message, calls with a chat message
  None

ASSUME NoneAssumption == None \notin Message \cup Inbound \cup Worker
ASSUME NumberAssumption ==
  /\ {MAX_ATTEMPTS, Limit, MaxTask} \subseteq Nat \ {0}
  /\ {Backoff, Debounce, MaxHeard} \subseteq Nat
ASSUME SetAssumption == Silent \subseteq Message /\ Inbound \subseteq DOMAIN Phone

VARIABLES
  msg,     \* OutboxMessage rows
  tasks,   \* dispatch_outbox_message tasks in the broker
  rows,    \* committed ChannelNotification rows of each message
  sent,    \* texts of each message the gateway took, up to 2
  lock,    \* holder of each OutboxMessage row
  session, \* ChannelSession rows, by the message id of their key
  heard,   \* webhook calls for each inbound message
  job,     \* what each worker is doing
  quiet    \* no more chat, or no more outbox messages, are to come

outboxVars == <<msg, tasks, rows, sent, lock>>
chatVars == <<session, heard>>
vars == <<msg, tasks, rows, sent, lock, session, heard, job, quiet>>

Status == {"pending", "processing", "processed", "failed", "dead"}
\* available_at as the ticks still to wait, no lower than -1.
Row == [status : Status, attempts : 0..MAX_ATTEMPTS, wait : -1..(Backoff * MAX_ATTEMPTS)]
NoMsg == [status |-> "absent", attempts |-> 0, wait |-> 0]
Notification == {"sent", "failed"}
Result == {"none", "ok", "refused", "raised"}
\* last_message_at as the ticks since, no more than the window and one.
\* A session holds words of one phone only.
Session ==
  {s \in [text : Inbound, last : Inbound, age : 0..(Debounce + 1)] :
     Phone[s.text] = Phone[s.last]}
NoSession == [text |-> None, last |-> None, age |-> 0]
Idle == [pc |-> "idle", on |-> None, result |-> "none", last |-> None]

TypeOK ==
  /\ msg \in [Message -> Row \cup {NoMsg}]
  /\ tasks \in [Message -> 0..MaxTask]
  /\ rows \in [Message -> [Notification -> 0..2]]
  /\ sent \in [Message -> 0..2]
  /\ lock \in [Message -> Worker \cup {None}]
  /\ \A i \in Inbound :
       session[i] = NoSession \/ (session[i] \in Session /\ Phone[session[i].text] = Phone[i])
  /\ heard \in [Inbound -> 0..MaxHeard]
  /\ job \in [Worker -> [pc : {"idle", "send", "finish", "existing", "recent", "create"},
                         on : Message \cup Inbound \cup {None}, result : Result,
                         last : Inbound \cup {None}]]
  /\ quiet \in {"chat", "outbox"}

Init ==
  /\ msg = [m \in Message |-> NoMsg]
  /\ tasks = [m \in Message |-> 0]
  /\ rows = [m \in Message |-> [n \in Notification |-> 0]]
  /\ sent = [m \in Message |-> 0]
  /\ lock = [m \in Message |-> None]
  /\ session = [i \in Inbound |-> NoSession]
  /\ heard = [i \in Inbound |-> 0]
  /\ job = [w \in Worker |-> Idle]
  /\ quiet \in {"chat", "outbox"}

UpToTwo(n) == IF n < 2 THEN n + 1 ELSE 2

\* Time passes for what is stored.
Tick ==
  /\ msg' = [m \in Message |-> IF msg[m] = NoMsg THEN NoMsg
                              ELSE [msg[m] EXCEPT !.wait = Max({@ - 1, -1})]]
  /\ session' = [i \in Inbound |-> IF session[i] = NoSession THEN NoSession
                                   ELSE [session[i] EXCEPT !.age = Min({@ + 1, Debounce + 1})]]
  /\ UNCHANGED <<tasks, rows, sent, lock, heard, job, quiet>>

-----------------------------------------------------------------------------
(* The outbox *)

\* enqueue_outbox and the commit of its transaction; the on_commit call may not
\* reach the broker.
Enqueue(m) ==
  /\ quiet = "chat" /\ msg[m] = NoMsg
  /\ msg' = [msg EXCEPT ![m] = [status |-> "pending", attempts |-> 0, wait |-> 0]]
  /\ \E n \in {0, 1} : tasks' = [tasks EXCEPT ![m] = n]
  /\ UNCHANGED <<rows, sent, lock, chatVars, job, quiet>>

Due(m) == msg[m].status \in {"pending", "failed"} /\ msg[m].wait <= 0

\* The Limit due messages that became available first.
Batch ==
  LET due == {m \in Message : Due(m)} IN
  {S \in SUBSET due :
     /\ Cardinality(S) = Min({Limit, Cardinality(due)})
     /\ \A m \in S, o \in due \ S : msg[m].wait <= msg[o].wait}

\* dispatch_pending_outbox: in no schedule of the code.
Sweep ==
  /\ \E m \in Message : Due(m)
  /\ \E S \in Batch :
       /\ \E m \in S : tasks[m] < MaxTask
       /\ tasks' = [m \in Message |->
                      IF m \in S /\ tasks[m] < MaxTask THEN tasks[m] + 1 ELSE tasks[m]]
  /\ UNCHANGED <<msg, rows, sent, lock, chatVars, job, quiet>>

Consume(m) == tasks' = [tasks EXCEPT ![m] = @ - 1]

\* A message that is processed, dead or not yet due again: nothing to do.
TakeNothing(w, m) ==
  /\ job[w].pc = "idle" /\ tasks[m] > 0 /\ lock[m] = None /\ ~Due(m)
  /\ Consume(m)
  /\ UNCHANGED <<msg, rows, sent, lock, chatVars, job, quiet>>

\* Mutant: the message is read without FOR UPDATE.
Claim_PlainRead(w, m) ==
  /\ job[w].pc = "idle" /\ tasks[m] > 0 /\ Due(m) /\ m \notin Silent
  /\ Consume(m)
  /\ job' = [job EXCEPT ![w] = [Idle EXCEPT !.pc = "send", !.on = m]]
  /\ UNCHANGED <<msg, rows, sent, lock, chatVars, quiet>>

\* FOR UPDATE, status and backoff; processing and attempts + 1 are not committed yet.
Claim(w, m) ==
  /\ job[w].pc = "idle" /\ tasks[m] > 0 /\ lock[m] = None /\ Due(m) /\ m \notin Silent
  /\ Consume(m)
  /\ lock' = [lock EXCEPT ![m] = w]
  /\ job' = [job EXCEPT ![w] = [Idle EXCEPT !.pc = "send", !.on = m]]
  /\ UNCHANGED <<msg, rows, sent, chatVars, quiet>>

\* No handler, or a handler with nobody to tell.
ProcessSilent(w, m) ==
  /\ job[w].pc = "idle" /\ tasks[m] > 0 /\ lock[m] = None /\ Due(m) /\ m \in Silent
  /\ Consume(m)
  /\ msg' = [msg EXCEPT ![m].status = "processed", ![m].attempts = @ + 1]
  /\ UNCHANGED <<rows, sent, lock, chatVars, job, quiet>>

\* EvolutionHttpGateway.send_text: an HTTP error is an answer, a timeout raises
\* though the gateway may have taken the text.
Send(w) ==
  LET m == job[w].on IN
  /\ job[w].pc = "send"
  /\ \E result \in Result \ {"none"}, taken \in BOOLEAN :
       /\ result = "ok" => taken
       /\ result = "refused" => ~taken
       /\ job' = [job EXCEPT ![w].pc = "finish", ![w].result = result]
       /\ sent' = IF taken THEN [sent EXCEPT ![m] = UpToTwo(@)] ELSE sent
  /\ UNCHANGED <<msg, tasks, rows, lock, chatVars, quiet>>

Unlock(w) ==
  /\ lock' = [m \in Message |-> IF lock[m] = w THEN None ELSE lock[m]]
  /\ job' = [job EXCEPT ![w] = Idle]

\* Mutant: the exhausted message is taken back by the next sweep.
AfterFailure_NeverDead(row) ==
  [row EXCEPT !.attempts = Min({@ + 1, MAX_ATTEMPTS}), !.status = "failed", !.wait = Backoff]

\* Mutant: one attempt too many.
AfterFailure_OneMore(row) ==
  IF row.attempts + 1 > MAX_ATTEMPTS
  THEN [row EXCEPT !.attempts = @ + 1, !.status = "dead"]
  ELSE [row EXCEPT !.attempts = @ + 1, !.status = "failed",
                   !.wait = Backoff * (row.attempts + 1)]

AfterFailure(row) ==
  IF row.attempts + 1 >= MAX_ATTEMPTS
  THEN [row EXCEPT !.attempts = @ + 1, !.status = "dead"]
  ELSE [row EXCEPT !.attempts = @ + 1, !.status = "failed",
                   !.wait = Backoff * (row.attempts + 1)]

\* The gateway raised: the notification goes back with its savepoint.
Failed(w) ==
  LET m == job[w].on IN
  /\ job[w].pc = "finish" /\ job[w].result = "raised"
  /\ msg' = [msg EXCEPT ![m] = AfterFailure(@)]
  /\ Unlock(w)
  /\ UNCHANGED <<tasks, rows, sent, chatVars, quiet>>

\* Processed, though the gateway may have refused: the notification says so.
Processed(w) ==
  LET m == job[w].on
      n == IF job[w].result = "ok" THEN "sent" ELSE "failed" IN
  /\ job[w].pc = "finish" /\ job[w].result # "raised"
  /\ msg' = [msg EXCEPT ![m].status = "processed", ![m].attempts = @ + 1]
  /\ rows' = [rows EXCEPT ![m][n] = UpToTwo(@)]
  /\ Unlock(w)
  /\ UNCHANGED <<tasks, sent, chatVars, quiet>>

\* The worker dies; the task was acknowledged when it was taken.
Crash(w) ==
  /\ job[w].pc \in {"send", "finish"}
  /\ Unlock(w)
  /\ UNCHANGED <<msg, tasks, rows, sent, chatVars, quiet>>

-----------------------------------------------------------------------------
(* ingest_inbound_message *)

\* The first read: the session of this very message.
Hear(w, i) ==
  /\ quiet = "outbox" /\ job[w].pc = "idle" /\ heard[i] < MaxHeard
  /\ heard' = [heard EXCEPT ![i] = @ + 1]
  /\ job' = [job EXCEPT ![w] =
       IF session[i] # NoSession
       THEN [Idle EXCEPT !.pc = "existing", !.on = i, !.last = session[i].last]
       ELSE [Idle EXCEPT !.pc = "recent", !.on = i]]
  /\ UNCHANGED <<outboxVars, session, quiet>>

\* draft_payload is written as it was read, with the text replaced.
UpdateExisting(w) ==
  LET i == job[w].on IN
  /\ job[w].pc = "existing"
  /\ session' = [session EXCEPT ![i] = [text |-> i, last |-> job[w].last, age |-> 0]]
  /\ job' = [job EXCEPT ![w] = Idle]
  /\ UNCHANGED <<outboxVars, heard, quiet>>

\* Sessions of this phone in the debounce window.
Recent(i) ==
  {j \in Inbound : session[j] # NoSession /\ Phone[j] = Phone[i]
                   /\ session[j].age <= Debounce}

\* FOR UPDATE on the latest session of the window, which takes the message.
UpdateRecent(w) ==
  LET i == job[w].on IN
  /\ job[w].pc = "recent"
  /\ \E j \in Recent(i) :
       /\ \A k \in Recent(i) : session[k].age >= session[j].age
       /\ session' = [session EXCEPT ![j] = [text |-> i, last |-> i, age |-> 0]]
  /\ job' = [job EXCEPT ![w] = Idle]
  /\ UNCHANGED <<outboxVars, heard, quiet>>

NoRecent(w) ==
  /\ job[w].pc = "recent" /\ Recent(job[w].on) = {}
  /\ job' = [job EXCEPT ![w].pc = "create"]
  /\ UNCHANGED <<outboxVars, chatVars, quiet>>

\* The unique key refuses the second of two requests with the same message.
Create(w) ==
  LET i == job[w].on IN
  /\ job[w].pc = "create"
  /\ session' = IF session[i] # NoSession THEN session
                ELSE [session EXCEPT ![i] = [text |-> i, last |-> i, age |-> 0]]
  /\ job' = [job EXCEPT ![w] = Idle]
  /\ UNCHANGED <<outboxVars, heard, quiet>>

Next ==
  \/ \E m \in Message : Enqueue(m)
  \/ \E w \in Worker, m \in Message :
       TakeNothing(w, m) \/ Claim(w, m) \/ ProcessSilent(w, m)
  \/ \E w \in Worker : Send(w) \/ Failed(w) \/ Processed(w) \/ Crash(w)
  \/ \E w \in Worker, i \in Inbound : Hear(w, i)
  \/ \E w \in Worker :
       UpdateExisting(w) \/ UpdateRecent(w) \/ NoRecent(w) \/ Create(w)
  \/ Sweep
  \/ Tick

Spec == Init /\ [][Next]_vars

\* Celery takes tasks in turn, a worker does not die in every attempt, time goes on.
FairSpec ==
  /\ Spec
  /\ WF_vars(Tick)
  /\ \A m \in Message :
       SF_vars(\E w \in Worker : TakeNothing(w, m) \/ Claim(w, m) \/ ProcessSilent(w, m))
  /\ \A w \in Worker : SF_vars(Send(w)) /\ SF_vars(Failed(w) \/ Processed(w))

-----------------------------------------------------------------------------
(* Properties *)

\* Once the Hub knows what became of a message the gateway is not called for it
\* again: a customer is told twice only after a crash or a timeout.
NotSentAgain ==
  [][\A m \in Message :
       sent'[m] > sent[m] => msg[m].status \in {"pending", "failed"}]_vars

\* If dispatch_pending_outbox is run again and again no message is left behind,
\* whatever the gateway answers, and whatever task was lost.
SweptIsSettled ==
  WF_vars(Sweep) =>
    \A m \in Message : msg[m] # NoMsg ~> msg[m].status \in {"processed", "dead"}
=============================================================================
