-------------------------- MODULE TicketLifecycle --------------------------
(***************************************************************************)
(* What a row of the tickets table promises, whoever writes it: automation *)
(* claims a ticket, completes it, puts it back or fails it with a          *)
(* dead-letter row, and never touches a row that is COMPLETE; a support    *)
(* agent may set any status and any classification at any time.            *)
(*                                                                         *)
(* Every action is one committed transaction on locked rows.  Brokers,     *)
(* workers and errors do not appear: ClassificationPipeline is shown to    *)
(* implement this specification.                                           *)
(***************************************************************************)
CONSTANTS
  Tickets,    \* ticket identifiers that may ever be created
  Verdicts,   \* classifications (urgency, category, confidence) a ticket may get
  NoVerdict   \* the NULL classification columns of an unclassified ticket

VARIABLES
  status,     \* tickets.status, or "absent" before the INSERT commits
  verdict,    \* tickets.urgency, category, confidence
  audited     \* the tickets whose task has a dead_letters row

lvars == <<status, verdict, audited>>

TicketStatus == {"pending", "processing", "complete", "failed"}

Init ==
  /\ status = [t \in Tickets |-> "absent"]
  /\ verdict = [t \in Tickets |-> NoVerdict]
  /\ audited = {}

(* Rows that automation may still write. *)
Claimable(t) == status[t] \in TicketStatus \ {"complete"}

Open(S) ==
  /\ \A t \in S : status[t] = "absent"
  /\ status' = [t \in Tickets |-> IF t \in S THEN "pending" ELSE status[t]]
  /\ UNCHANGED <<verdict, audited>>

Claim(t) ==
  /\ Claimable(t)
  /\ status' = [status EXCEPT ![t] = "processing"]
  /\ UNCHANGED <<verdict, audited>>

Complete(t, v) ==
  /\ Claimable(t)
  /\ status' = [status EXCEPT ![t] = "complete"]
  /\ verdict' = [verdict EXCEPT ![t] = v]
  /\ UNCHANGED audited

Requeue(t) ==
  /\ Claimable(t)
  /\ status' = [status EXCEPT ![t] = "pending"]
  /\ UNCHANGED <<verdict, audited>>

(* No failure is terminal without its dead-letter row. *)
Fail(t) ==
  /\ Claimable(t)
  /\ status' = [status EXCEPT ![t] = "failed"]
  /\ audited' = audited \cup {t}
  /\ UNCHANGED verdict

AgentSetStatus(t, s) ==
  /\ status[t] # "absent"
  /\ status' = [status EXCEPT ![t] = s]
  /\ UNCHANGED <<verdict, audited>>

AgentCorrect(t, v) ==
  /\ status[t] # "absent"
  /\ verdict' = [verdict EXCEPT ![t] = v]
  /\ UNCHANGED <<status, audited>>

Next ==
  \/ \E S \in SUBSET Tickets : Open(S)
  \/ \E t \in Tickets :
       \/ Claim(t) \/ Requeue(t) \/ Fail(t)
       \/ \E v \in Verdicts : Complete(t, v) \/ AgentCorrect(t, v)
       \/ \E s \in TicketStatus : AgentSetStatus(t, s)

Spec == Init /\ [][Next]_lvars
=============================================================================
