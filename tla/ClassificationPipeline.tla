----------------------- MODULE ClassificationPipeline -----------------------
(***************************************************************************)
(* Background classification of tickets: the API commits tickets and then  *)
(* publishes one Celery task for each, workers take deliveries from the    *)
(* Redis broker with late acknowledgement, and support agents edit the     *)
(* same rows meanwhile.                                                    *)
(*                                                                         *)
(* A transaction that locks its ticket row (SELECT ... FOR UPDATE to       *)
(* COMMIT) is one action.  Everything between two transactions is a step   *)
(* at which another worker, an agent, a crash or the broker's visibility   *)
(* timeout may come in.  A task keeps its id over Celery retries and each  *)
(* ticket is published by one API call, so the task id is the ticket.      *)
(***************************************************************************)
EXTENDS Integers

CONSTANTS
  Tickets,        \* ticket ids that may be created
  Workers,        \* Celery worker slots, one task at a time each
  Verdicts,       \* the classifications a model or an agent may give
  NoVerdict,      \* NULL classification columns
  NoRow,          \* no dead_letters row
  NoMessage,      \* the worker slot holds no delivery
  MaxRetries,     \* celery_task_max_retries
  ExtraAttempts,  \* provider attempts beyond the first, of one classification
  MaxFaults       \* bound on crashes and visibility-timeout redeliveries

ASSUME MaxRetriesAssumption == MaxRetries \in Nat
ASSUME ExtraAttemptsAssumption == ExtraAttempts \subseteq Nat
ASSUME MaxFaultsAssumption == MaxFaults \in Nat
ASSUME NullAssumption == NoRow \notin Nat /\ NoVerdict \notin Verdicts

Message == [ticket : Tickets, retries : 0 .. MaxRetries]
ASSUME NoMessageAssumption == NoMessage \notin Message

VARIABLES
  status,      \* tickets.status, "absent" before the row exists
  verdict,     \* tickets.urgency, category, confidence, assigned_queue
  retryCount,  \* tickets.retry_count
  deadLetter,  \* retry_count of the ticket's dead_letters row, or NoRow
  outbound,    \* per API request still publishing: its tickets not yet sent
  broker,      \* how many copies of each task message the broker holds
  pc,          \* where each worker is in its task
  msg,         \* the delivery each worker is working on
  err,         \* the class of exception it caught
  unacked,     \* workers whose delivery the broker will restore if they die
  notified,    \* tickets with a dead-letter notification in Redis
  incidents,   \* history: what interfered with the delivery of each ticket
  faults       \* crashes and redeliveries so far

rowVars == <<status, verdict, retryCount, deadLetter>>
workerVars == <<pc, msg, err>>
vars == <<rowVars, outbound, broker, workerVars, unacked, notified,
          incidents, faults>>

TicketStatus == {"pending", "processing", "complete", "failed"}
WorkerState == {"idle", "received", "classifying", "failing", "retrying",
                "notifying", "done"}
Failure == {"none", "database", "exhausted", "permanent"}
Incident == {"dispatch_failed", "retry_unpublished", "failure_unrecorded",
             "delivery_lost", "overridden"}

TypeOK ==
  /\ status \in [Tickets -> TicketStatus \cup {"absent"}]
  /\ verdict \in [Tickets -> Verdicts \cup {NoVerdict}]
  /\ retryCount \in [Tickets -> Nat]
  /\ deadLetter \in [Tickets -> Nat \cup {NoRow}]
  /\ outbound \in SUBSET SUBSET Tickets
  /\ broker \in [Message -> Nat]
  /\ pc \in [Workers -> WorkerState]
  /\ msg \in [Workers -> Message \cup {NoMessage}]
  /\ err \in [Workers -> Failure]
  /\ unacked \in SUBSET Workers
  /\ notified \in SUBSET Tickets
  /\ incidents \in [Tickets -> SUBSET Incident]
  /\ faults \in Nat

Init ==
  /\ status = [t \in Tickets |-> "absent"]
  /\ verdict = [t \in Tickets |-> NoVerdict]
  /\ retryCount = [t \in Tickets |-> 0]
  /\ deadLetter = [t \in Tickets |-> NoRow]
  /\ outbound = {}
  /\ broker = [m \in Message |-> 0]
  /\ pc = [w \in Workers |-> "idle"]
  /\ msg = [w \in Workers |-> NoMessage]
  /\ err = [w \in Workers |-> "none"]
  /\ unacked = {}
  /\ notified = {}
  /\ incidents = [t \in Tickets |-> {}]
  /\ faults = 0

Copy(t, r) == [ticket |-> t, retries |-> r]
TicketOf(w) == msg[w].ticket
Exists(t) == status[t] # "absent"

Note(t, cause) == incidents' = [incidents EXCEPT ![t] = @ \cup {cause}]

(***************************************************************************)
(* The API process                                                         *)
(***************************************************************************)

(* POST /tickets and POST /tickets/batch: one commit creates the rows. *)
CreateTickets(S) ==
  /\ S # {}
  /\ \A t \in S : ~Exists(t)
  /\ status' = [t \in Tickets |-> IF t \in S THEN "pending" ELSE status[t]]
  /\ outbound' = outbound \cup {S}
  /\ UNCHANGED <<verdict, retryCount, deadLetter, broker, workerVars, unacked,
                 notified, incidents, faults>>

(* After the commit the request publishes its tasks one by one. *)
Dispatch(S, t) ==
  /\ S \in outbound
  /\ t \in S
  /\ outbound' = (outbound \ {S}) \cup ({S \ {t}} \ {{}})
  /\ broker' = [broker EXCEPT ![Copy(t, 0)] = @ + 1]
  /\ UNCHANGED <<rowVars, workerVars, unacked, notified, incidents, faults>>

(* The broker refuses a publish (TaskDispatchError, 503) or the API process *)
(* dies: the rows stay, and the message in flight may have landed.          *)
DispatchFails(S, landed) ==
  /\ S \in outbound
  /\ outbound' = outbound \ {S}
  /\ broker' = [m \in Message |->
                  IF m.ticket \in landed /\ m.retries = 0
                    THEN broker[m] + 1 ELSE broker[m]]
  /\ incidents' = [t \in Tickets |->
                     IF t \in S THEN incidents[t] \cup {"dispatch_failed"}
                                ELSE incidents[t]]
  /\ UNCHANGED <<rowVars, workerVars, unacked, notified, faults>>

(* PATCH /tickets/{id}/status by an agent or an admin: any status, no task. *)
UpdateStatus(t, s) ==
  /\ Exists(t)
  /\ status' = [status EXCEPT ![t] = s]
  /\ IF s = "complete" THEN UNCHANGED incidents ELSE Note(t, "overridden")
  /\ UNCHANGED <<verdict, retryCount, deadLetter, outbound, broker,
                 workerVars, unacked, notified, faults>>

(* Mutant: a correction sends the ticket back for classification. *)
CorrectClassification_Reopens(t, v) ==
  /\ Exists(t)
  /\ verdict' = [verdict EXCEPT ![t] = v]
  /\ status' = [status EXCEPT ![t] = "pending"]
  /\ UNCHANGED <<retryCount, deadLetter, outbound, broker, workerVars,
                 unacked, notified, incidents, faults>>

(* PATCH /tickets/{id}/classification: the status stays what it was. *)
CorrectClassification(t, v) ==
  /\ Exists(t)
  /\ verdict' = [verdict EXCEPT ![t] = v]
  /\ UNCHANGED <<status, retryCount, deadLetter, outbound, broker,
                 workerVars, unacked, notified, incidents, faults>>

(***************************************************************************)
(* A Celery worker                                                         *)
(***************************************************************************)
Goto(w, p) == pc' = [pc EXCEPT ![w] = p]

(* An exception leaves process(): the task goes on to record_failure. *)
Catch(w, e) ==
  /\ Goto(w, "failing")
  /\ err' = [err EXCEPT ![w] = e]
  /\ UNCHANGED msg

(* Mutant: a worker takes a message the broker does not hold. *)
Receive_Unguarded(w, m) ==
  /\ pc[w] = "idle"
  /\ broker' = [broker EXCEPT ![m] = @ - 1]
  /\ Goto(w, "received")
  /\ msg' = [msg EXCEPT ![w] = m]
  /\ unacked' = unacked \cup {w}
  /\ UNCHANGED <<rowVars, outbound, err, notified, incidents, faults>>

Receive(w, m) ==
  /\ pc[w] = "idle"
  /\ broker[m] > 0
  /\ broker' = [broker EXCEPT ![m] = @ - 1]
  /\ Goto(w, "received")
  /\ msg' = [msg EXCEPT ![w] = m]
  /\ unacked' = unacked \cup {w}
  /\ UNCHANGED <<rowVars, outbound, err, notified, incidents, faults>>

(* The two checks for COMPLETE, before the claim and before the save. *)
SkipComplete(w) ==
  /\ pc[w] \in {"received", "classifying"}
  /\ status[TicketOf(w)] = "complete"
  /\ Goto(w, "done")
  /\ UNCHANGED <<rowVars, outbound, broker, msg, err, unacked, notified,
                 incidents, faults>>

ClaimedRow(t) ==
  /\ status' = [status EXCEPT ![t] = "processing"]
  /\ UNCHANGED <<verdict, retryCount, deadLetter>>

Claim(w) ==
  /\ pc[w] = "received"
  /\ status[TicketOf(w)] # "complete"
  /\ ClaimedRow(TicketOf(w))
  /\ Goto(w, "classifying")
  /\ UNCHANGED <<outbound, broker, msg, err, unacked, notified, incidents,
                 faults>>

(* The database fails before or after the claim commits. *)
ClaimFails(w, applied) ==
  /\ pc[w] = "received"
  /\ IF applied /\ status[TicketOf(w)] # "complete"
       THEN ClaimedRow(TicketOf(w)) ELSE UNCHANGED rowVars
  /\ Catch(w, "database")
  /\ UNCHANGED <<outbound, broker, unacked, notified, incidents, faults>>

(* Both models used up their attempts, or an error no attempt can cure. *)
ClassifyFails(w, e) ==
  /\ pc[w] = "classifying"
  /\ e \in {"exhausted", "permanent"}
  /\ Catch(w, e)
  /\ UNCHANGED <<rowVars, outbound, broker, unacked, notified, incidents,
                 faults>>

CompletedRow(t, v, extra) ==
  /\ verdict' = [verdict EXCEPT ![t] = v]
  /\ retryCount' = [retryCount EXCEPT ![t] = @ + extra]
  /\ status' = [status EXCEPT ![t] = "complete"]
  /\ UNCHANGED deadLetter

(* Mutant: no second look at the status after the model has answered. *)
SaveResult_Unchecked(w, v, extra) ==
  /\ pc[w] = "classifying"
  /\ CompletedRow(TicketOf(w), v, extra)
  /\ Goto(w, "done")
  /\ UNCHANGED <<outbound, broker, msg, err, unacked, notified, incidents,
                 faults>>

SaveResult(w, v, extra) ==
  /\ pc[w] = "classifying"
  /\ status[TicketOf(w)] # "complete"
  /\ CompletedRow(TicketOf(w), v, extra)
  /\ Goto(w, "done")
  /\ UNCHANGED <<outbound, broker, msg, err, unacked, notified, incidents,
                 faults>>

(* The save, its commit or the refresh after the commit fails. *)
SaveFails(w, v, extra, applied) ==
  /\ pc[w] = "classifying"
  /\ IF applied /\ status[TicketOf(w)] # "complete"
       THEN CompletedRow(TicketOf(w), v, extra) ELSE UNCHANGED rowVars
  /\ Catch(w, "database")
  /\ UNCHANGED <<outbound, broker, unacked, notified, incidents, faults>>

RetryAvailable(w) == msg[w].retries < MaxRetries
WillRetry(w) == err[w] = "database" /\ RetryAvailable(w)

Larger(m, n) == IF m >= n THEN m ELSE n

(* Mutant: a failure that will be retried is not counted. *)
FailedTotal_Uncounted(w, extra) ==
  retryCount[TicketOf(w)] + (IF err[w] = "exhausted" THEN extra ELSE 0)

(* tickets.retry_count after a failure. *)
FailedTotal(w, extra) ==
  retryCount[TicketOf(w)] + (IF err[w] = "exhausted" THEN extra ELSE 1)

(* Mutants: an existing dead-letter row is overwritten; a failure that is   *)
(* not an exhausted budget leaves no row.                                   *)
Audit_Overwrites(w, total) ==
  deadLetter' = IF WillRetry(w) THEN deadLetter ELSE
    [deadLetter EXCEPT ![TicketOf(w)] = Larger(msg[w].retries, total)]

Audit_ExhaustedOnly(w, total) ==
  deadLetter' =
    IF err[w] # "exhausted" \/ deadLetter[TicketOf(w)] # NoRow THEN deadLetter
    ELSE [deadLetter EXCEPT ![TicketOf(w)] = Larger(msg[w].retries, total)]

(* The dead-letter row of the task, unless it has one or will be retried. *)
Audit(w, total) ==
  deadLetter' =
    IF WillRetry(w) \/ deadLetter[TicketOf(w)] # NoRow THEN deadLetter
    ELSE [deadLetter EXCEPT ![TicketOf(w)] = Larger(msg[w].retries, total)]

FailedRow(w, extra) ==
  LET t == TicketOf(w)
      total == FailedTotal(w, extra)
  IN  /\ retryCount' = [retryCount EXCEPT ![t] = total]
      /\ status' = [status EXCEPT ![t] =
                      IF WillRetry(w) THEN "pending" ELSE "failed"]
      /\ Audit(w, total)
      /\ UNCHANGED verdict

(* Mutant: a failure that will be retried is announced as terminal. *)
AfterFailure_AlwaysNotifies(w) ==
  /\ Goto(w, "notifying")
  /\ UNCHANGED <<outbound, broker, msg, err, unacked, notified, faults>>

AfterFailure(w) ==
  /\ Goto(w, IF WillRetry(w) THEN "retrying" ELSE "notifying")
  /\ UNCHANGED <<outbound, broker, msg, err, unacked, notified, faults>>

RecordFailure(w, extra) ==
  /\ pc[w] = "failing"
  /\ IF status[TicketOf(w)] # "complete"
       THEN FailedRow(w, extra) ELSE UNCHANGED rowVars
  /\ AfterFailure(w)
  /\ UNCHANGED incidents

(* "Could not persist ticket failure state": logged, and the task goes on. *)
RecordFailureFails(w, extra, applied) ==
  /\ pc[w] = "failing"
  /\ IF applied /\ status[TicketOf(w)] # "complete"
       THEN FailedRow(w, extra) ELSE UNCHANGED rowVars
  /\ AfterFailure(w)
  /\ Note(TicketOf(w), "failure_unrecorded")

(* self.retry publishes the same task with one more retry. *)
PublishRetry(w) ==
  /\ pc[w] = "retrying"
  /\ broker' = [broker EXCEPT ![Copy(TicketOf(w), msg[w].retries + 1)] = @ + 1]
  /\ Goto(w, "done")
  /\ UNCHANGED <<rowVars, outbound, msg, err, unacked, notified, incidents,
                 faults>>

(* The retry cannot be published: Celery rejects the delivery for good. *)
PublishRetryFails(w) ==
  /\ pc[w] = "retrying"
  /\ Goto(w, "done")
  /\ Note(TicketOf(w), "retry_unpublished")
  /\ UNCHANGED <<rowVars, outbound, broker, msg, err, unacked, notified,
                 faults>>

(* The dead-letter task is published, or its publication fails unnoticed. *)
Notify(w, sent) ==
  /\ pc[w] = "notifying"
  /\ notified' = IF sent THEN notified \cup {TicketOf(w)} ELSE notified
  /\ Goto(w, "done")
  /\ UNCHANGED <<rowVars, outbound, broker, msg, err, unacked, incidents,
                 faults>>

(* The worker slot forgets its delivery. *)
Release(w) ==
  /\ Goto(w, "idle")
  /\ msg' = [msg EXCEPT ![w] = NoMessage]
  /\ err' = [err EXCEPT ![w] = "none"]
  /\ unacked' = unacked \ {w}

(* Mutant: a task whose delivery was restored meanwhile cannot finish. *)
Ack_OwnedOnly(w) ==
  /\ pc[w] = "done"
  /\ w \in unacked
  /\ Release(w)
  /\ UNCHANGED <<rowVars, outbound, broker, notified, incidents, faults>>

(* Only now is the delivery acknowledged (acks_late). *)
Ack(w) ==
  /\ pc[w] = "done"
  /\ Release(w)
  /\ UNCHANGED <<rowVars, outbound, broker, notified, incidents, faults>>

(***************************************************************************)
(* What goes wrong around a worker                                         *)
(***************************************************************************)

(* Mutant: the delivery of a lost worker is acknowledged. *)
Crash_Drops(w) ==
  /\ pc[w] # "idle"
  /\ faults < MaxFaults
  /\ Release(w)
  /\ faults' = faults + 1
  /\ UNCHANGED <<rowVars, outbound, broker, notified, incidents>>

(* reject_on_worker_lost: the delivery returns to the queue, unless the     *)
(* visibility timeout has already given it to somebody else.                *)
Crash(w) ==
  /\ pc[w] # "idle"
  /\ faults < MaxFaults
  /\ IF w \in unacked
       THEN broker' = [broker EXCEPT ![msg[w]] = @ + 1] /\ UNCHANGED incidents
       ELSE Note(TicketOf(w), "delivery_lost") /\ UNCHANGED broker
  /\ Release(w)
  /\ faults' = faults + 1
  /\ UNCHANGED <<rowVars, outbound, notified>>

(* The visibility timeout passes while w still works on the delivery. *)
Redeliver(w) ==
  /\ w \in unacked
  /\ faults < MaxFaults
  /\ broker' = [broker EXCEPT ![msg[w]] = @ + 1]
  /\ unacked' = unacked \ {w}
  /\ faults' = faults + 1
  /\ UNCHANGED <<rowVars, outbound, workerVars, notified, incidents>>

(***************************************************************************)
(* The specification                                                       *)
(***************************************************************************)
DispatchStep ==
  \E S \in outbound :
    \/ \E t \in S : Dispatch(S, t)
    \/ \E landed \in {{}} \cup {{t} : t \in S} : DispatchFails(S, landed)

AgentStep(t) ==
  \/ \E s \in TicketStatus : UpdateStatus(t, s)
  \/ \E v \in Verdicts : CorrectClassification(t, v)

WorkerStep(w) ==
  \/ \E m \in Message : Receive(w, m)
  \/ SkipComplete(w)
  \/ Claim(w)
  \/ \E e \in Failure : ClassifyFails(w, e)
  \/ \E v \in Verdicts, extra \in ExtraAttempts : SaveResult(w, v, extra)
  \/ \E extra \in ExtraAttempts : RecordFailure(w, extra)
  \/ PublishRetry(w)
  \/ PublishRetryFails(w)
  \/ Ack(w)
  \/ \E b \in BOOLEAN :
       \/ ClaimFails(w, b)
       \/ Notify(w, b)
       \/ \E extra \in ExtraAttempts :
            \/ RecordFailureFails(w, extra, b)
            \/ \E v \in Verdicts : SaveFails(w, v, extra, b)

Next ==
  \/ \E S \in SUBSET Tickets : CreateTickets(S)
  \/ DispatchStep
  \/ \E t \in Tickets : AgentStep(t)
  \/ \E w \in Workers : WorkerStep(w) \/ Crash(w) \/ Redeliver(w)

(* A request handler and a worker that can take a step take one; nothing   *)
(* is promised about agents, about new tickets or about faults.            *)
Fairness ==
  /\ WF_vars(DispatchStep)
  /\ \A w \in Workers : WF_vars(WorkerStep(w))

Spec == Init /\ [][Next]_vars /\ Fairness

(***************************************************************************)
(* Safety                                                                  *)
(***************************************************************************)

(* Somebody still has to act on the ticket: an API request about to publish *)
(* it, a message in the broker, or a worker that will write its row or      *)
(* publish its retry.                                                       *)
Carried(t) ==
  \/ \E S \in outbound : t \in S
  \/ \E m \in Message : m.ticket = t /\ broker[m] > 0
  \/ \E w \in Workers :
       /\ pc[w] \in {"received", "classifying", "failing", "retrying"}
       /\ TicketOf(w) = t

Settled(t) == status[t] \in {"complete", "failed"}

(* A ticket that is neither complete nor failed is still being carried, or  *)
(* one of the named incidents befell it: no interleaving of claims, retries,*)
(* crashes and acknowledgements by itself strands a ticket.                 *)
NoSilentOrphan ==
  \A t \in Tickets :
    Exists(t) => Settled(t) \/ Carried(t) \/ incidents[t] # {}

(* A ticket the pipeline has failed has its dead-letter row: whoever finds  *)
(* FAILED without one is looking at an agent's status change.               *)
FailedIsAudited ==
  \A t \in Tickets :
    status[t] = "failed" =>
      deadLetter[t] # NoRow \/ "overridden" \in incidents[t]

(* A failure of the ticket may have gone unrecorded: the row was complete,  *)
(* perhaps before an agent changed it again, or the record was lost.        *)
RecordSkipped(t) ==
  \/ status[t] = "complete"
  \/ "overridden" \in incidents[t]
  \/ "failure_unrecorded" \in incidents[t]

(* The retries a delivery carries have been recorded in the ticket's        *)
(* retry_count, so the count never understates the Celery retries made,     *)
(* unless a record was lost or the row was complete in between.             *)
RetriesAreRecorded ==
  \A m \in Message :
    (broker[m] > 0 \/ \E w \in Workers : msg[w] = m) =>
      m.retries <= retryCount[m.ticket] \/ RecordSkipped(m.ticket)

(* A dead-letter notification is backed by the durable row, unless the row  *)
(* could not be written or the ticket was completed meanwhile.              *)
NotificationIsBacked ==
  \A t \in notified : deadLetter[t] # NoRow \/ RecordSkipped(t)

(* README.md:377, "Failed terminal jobs create durable PostgreSQL           *)
(* dead-letter records before Redis notification."                          *)
NotifiedIsDurable ==
  \A t \in notified : deadLetter[t] # NoRow \/ status[t] = "complete"

(* Whatever a worker does with a late, duplicated or restored delivery, a   *)
(* COMPLETE row stays as it is: only agents may change it.                  *)
WorkersKeepComplete ==
  (\E w \in Workers : pc'[w] # pc[w]) =>
    \A t \in Tickets : status[t] = "complete" =>
      /\ status'[t] = "complete"
      /\ verdict'[t] = verdict[t]
      /\ retryCount'[t] = retryCount[t]
      /\ deadLetter'[t] = deadLetter[t]

CompleteIsFinal == [][WorkersKeepComplete]_vars

(* The audit row of a task is written once and never changed or removed,    *)
(* although the same task may fail terminally several times.                *)
AuditKept ==
  \A t \in Tickets : deadLetter[t] # NoRow => deadLetter'[t] = deadLetter[t]

AuditIsPermanent == [][AuditKept]_vars

(***************************************************************************)
(* Refinement and liveness                                                 *)
(***************************************************************************)
Lifecycle == INSTANCE TicketLifecycle
  WITH audited <- {u \in Tickets : deadLetter[u] # NoRow}

(* Seen from the tables alone, workers, agents and requests do what the     *)
(* ticket life cycle allows and nothing else.                               *)
ImplementsLifecycle == Lifecycle!Spec

Drained ==
  /\ outbound = {}
  /\ \A m \in Message : broker[m] = 0
  /\ \A w \in Workers : pc[w] = "idle"

(* Deliveries die out: retries, restored and duplicated messages are all    *)
(* consumed and acknowledged, and the workers fall idle for good.           *)
QueueDrains == <>[]Drained

(* Every ticket the API has committed is completed or failed in the end, or *)
(* an incident befell it.                                                   *)
EverySettles ==
  \A t \in Tickets : Exists(t) ~> (Settled(t) \/ incidents[t] # {})
=============================================================================
