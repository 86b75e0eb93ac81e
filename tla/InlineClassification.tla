------------------------ MODULE InlineClassification ------------------------
(***************************************************************************)
(* Classification inside the request, for deployments without workers: the *)
(* handler that creates a ticket also claims, classifies and saves it, all *)
(* in one database session, while agents edit the same row from sessions   *)
(* of their own.                                                           *)
(*                                                                         *)
(* The session is configured with expire_on_commit=False and the handler   *)
(* keeps the ticket object alive, so SELECT ... FOR UPDATE locks the row   *)
(* but hands back the object with the attributes it already has: what the  *)
(* handler decides on is its own copy.                                     *)
(*                                                                         *)
(* Nothing rolls the session back between an error of the classification   *)
(* and record_failure.  A session that only failed to get a connection has *)
(* no transaction to lose and goes on, with its copy.  One whose statement *)
(* or commit failed, or whose refresh after the commit did, refuses what   *)
(* record_failure asks of it, and the request dies.                        *)
(***************************************************************************)
CONSTANTS
  Tickets,    \* ticket ids; each is created by one request
  Verdicts,   \* classifications
  NoVerdict   \* NULL classification columns

VARIABLES
  status,     \* tickets.status, "absent" before the INSERT commits
  verdict,    \* tickets.urgency, category, confidence, assigned_queue
  audited,    \* tickets with a dead_letters row for task "inline:<id>"
  pc,         \* where the request that creates the ticket is
  seen,       \* status in the request's session
  incidents   \* history: tickets whose request died, whose status an agent
              \* has set, or that came in a batch

vars == <<status, verdict, audited, pc, seen, incidents>>

TicketStatus == {"pending", "processing", "complete", "failed"}

TypeOK ==
  /\ status \in [Tickets -> TicketStatus \cup {"absent"}]
  /\ verdict \in [Tickets -> Verdicts \cup {NoVerdict}]
  /\ audited \in SUBSET Tickets
  /\ pc \in [Tickets -> {"idle", "created", "classifying", "failing",
                         "answered", "broken", "accepted"}]
  /\ seen \in [Tickets -> TicketStatus \cup {"absent"}]
  /\ incidents \in [Tickets -> SUBSET {"request_lost", "overridden",
                                       "unclassified"}]

Init ==
  /\ status = [t \in Tickets |-> "absent"]
  /\ verdict = [t \in Tickets |-> NoVerdict]
  /\ audited = {}
  /\ pc = [t \in Tickets |-> "idle"]
  /\ seen = [t \in Tickets |-> "absent"]
  /\ incidents = [t \in Tickets |-> {}]

Goto(t, p) == pc' = [pc EXCEPT ![t] = p]
Note(t, cause) == incidents' = [incidents EXCEPT ![t] = @ \cup {cause}]

(* Write the row's status, in the database and in the session's copy. *)
WriteStatus(t, s) ==
  /\ status' = [status EXCEPT ![t] = s]
  /\ seen' = [seen EXCEPT ![t] = s]

Create(t) ==
  /\ pc[t] = "idle"
  /\ WriteStatus(t, "pending")
  /\ Goto(t, "created")
  /\ UNCHANGED <<verdict, audited, incidents>>

(* POST /tickets/batch classifies nothing without workers: the rows are     *)
(* committed and the request answers.                                       *)
AcceptBatch(S) ==
  /\ S # {}
  /\ \A t \in S : pc[t] = "idle"
  /\ status' = [t \in Tickets |-> IF t \in S THEN "pending" ELSE status[t]]
  /\ pc' = [t \in Tickets |-> IF t \in S THEN "accepted" ELSE pc[t]]
  /\ incidents' = [t \in Tickets |->
                     IF t \in S THEN {"unclassified"} ELSE incidents[t]]
  /\ UNCHANGED <<verdict, audited, seen>>

(* What the transactions of _claim, classify and record_failure commit. *)
ClaimRow(t) ==
  /\ pc[t] = "created" /\ seen[t] # "complete"
  /\ WriteStatus(t, "processing")
  /\ UNCHANGED <<verdict, audited>>

SaveRow(t, v) ==
  /\ pc[t] = "classifying" /\ seen[t] # "complete"
  /\ verdict' = [verdict EXCEPT ![t] = v]
  /\ WriteStatus(t, "complete")
  /\ UNCHANGED audited

(* Mutant: the failed ticket gets no dead-letter row. *)
FailRow_Unaudited(t) ==
  /\ pc[t] = "failing"
  /\ IF seen[t] # "complete"
       THEN WriteStatus(t, "failed") ELSE UNCHANGED <<status, seen>>
  /\ UNCHANGED <<verdict, audited>>

FailRow(t) ==
  /\ pc[t] = "failing"
  /\ IF seen[t] # "complete"
       THEN WriteStatus(t, "failed") /\ audited' = audited \cup {t}
       ELSE UNCHANGED <<status, seen, audited>>
  /\ UNCHANGED verdict

Claim(t) == ClaimRow(t) /\ Goto(t, "classifying") /\ UNCHANGED incidents

SaveResult(t, v) == SaveRow(t, v) /\ Goto(t, "answered") /\ UNCHANGED incidents

(* Mutant: the error of a classifier leaves the request without a record. *)
ClassifyFails_Unrecorded(t) ==
  /\ pc[t] = "classifying"
  /\ Goto(t, "answered")
  /\ UNCHANGED <<status, verdict, audited, seen, incidents>>

(* The classifier raises; create() catches it. *)
ClassifyFails(t) ==
  /\ pc[t] = "classifying"
  /\ Goto(t, "failing")
  /\ UNCHANGED <<status, verdict, audited, seen, incidents>>

(* The claim, or the save, gets no connection for its SELECT ... FOR UPDATE: *)
(* nothing has been written, and the session keeps its copy and can go on.  *)
CheckoutFails(t) ==
  /\ pc[t] \in {"created", "classifying"}
  /\ Goto(t, "failing")
  /\ UNCHANGED <<status, verdict, audited, seen, incidents>>

(* record_failure in the same session, never to be retried. *)
RecordFailure(t) == FailRow(t) /\ Goto(t, "answered") /\ UNCHANGED incidents

(* Mutant: the result is saved in a session of its own, as in the workers,  *)
(* so that the handler's own session survives the lost answer, copy and all. *)
DiesCommitted_OwnSession(t) ==
  /\ pc[t] = "classifying"
  /\ status' = [status EXCEPT ![t] = "complete"]
  /\ verdict' \in {[verdict EXCEPT ![t] = v] : v \in Verdicts}
  /\ Goto(t, "failing")
  /\ UNCHANGED <<audited, seen, incidents>>

(* A write is committed, but its answer or the refresh after it is lost.    *)
DiesCommitted(t) ==
  /\ ClaimRow(t) \/ FailRow(t) \/ \E v \in Verdicts : SaveRow(t, v)
  /\ Goto(t, "broken")
  /\ Note(t, "request_lost")

(* A statement or a commit fails and is not applied, record_failure gets no *)
(* connection either, or the process is gone: the request ends in an error   *)
(* and nobody returns to the ticket.                                        *)
RequestDies(t) ==
  /\ pc[t] \in {"created", "classifying", "failing"}
  /\ Goto(t, "broken")
  /\ Note(t, "request_lost")
  /\ UNCHANGED <<status, verdict, audited, seen>>

UpdateStatus(t, s) ==
  /\ status[t] # "absent"
  /\ status' = [status EXCEPT ![t] = s]
  /\ Note(t, "overridden")
  /\ UNCHANGED <<verdict, audited, pc, seen>>

CorrectClassification(t, v) ==
  /\ status[t] # "absent"
  /\ verdict' = [verdict EXCEPT ![t] = v]
  /\ UNCHANGED <<status, audited, pc, seen, incidents>>

RequestStep(t) ==
  \/ Claim(t)
  \/ ClassifyFails(t)
  \/ CheckoutFails(t)
  \/ RecordFailure(t)
  \/ \E v \in Verdicts : SaveResult(t, v)

AgentStep(t) ==
  \/ \E s \in TicketStatus : UpdateStatus(t, s)
  \/ \E v \in Verdicts : CorrectClassification(t, v)

Next ==
  \/ \E S \in SUBSET Tickets : AcceptBatch(S)
  \/ \E t \in Tickets :
       Create(t) \/ RequestStep(t) \/ AgentStep(t)
         \/ RequestDies(t) \/ DiesCommitted(t)

(* A handler that has begun goes on while its process lives; its awaits are  *)
(* bounded by timeouts.                                                     *)
Spec == Init /\ [][Next]_vars /\ \A t \in Tickets : WF_vars(RequestStep(t))

(***************************************************************************)
(* Properties                                                              *)
(***************************************************************************)

(* A ticket the handler has failed has its dead-letter row. *)
FailedIsAudited ==
  \A t \in Tickets :
    status[t] = "failed" => t \in audited \/ "overridden" \in incidents[t]

(* Once the handler has answered, the ticket is not left half-way: it is    *)
(* complete or failed unless an agent has set it otherwise.                 *)
AnsweredIsSettled ==
  \A t \in Tickets :
    pc[t] = "answered" =>
      status[t] \in {"complete", "failed"} \/ "overridden" \in incidents[t]

(* Every ticket created by itself settles, or its request died, or an agent *)
(* set it; those of a batch wait for one of them.                           *)
EverySettles ==
  \A t \in Tickets :
    status[t] = "pending" ~>
      (status[t] \in {"complete", "failed"} \/ incidents[t] # {})

(* A handler writes over a COMPLETE row only if an agent has set its status: *)
(* a save that was committed although its answer was lost is not undone by   *)
(* record_failure, whose session is the one that the lost answer has broken; *)
(* and when a session can go on, its handler has not saved.                  *)
CompleteStaysUnlessOverridden ==
  [][\A t \in Tickets :
       status[t] = "complete" /\ pc'[t] # pc[t] =>
         \/ status'[t] = "complete" /\ verdict'[t] = verdict[t]
         \/ "overridden" \in incidents[t]]_vars

(* tests/integration/db/test_classification_flow.py:55,                     *)
(* test_completed_ticket_is_idempotent: a ticket that is COMPLETE when its  *)
(* classification comes to save is left alone.                              *)
CompletedIsIdempotent ==
  [][\A t \in Tickets :
       status[t] = "complete" /\ pc'[t] # pc[t] =>
         status'[t] = "complete" /\ verdict'[t] = verdict[t]]_vars
=============================================================================
