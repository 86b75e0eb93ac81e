---------------------------- MODULE InlineRequest ----------------------------
(***************************************************************************)
(* InlineClassification with what its handler waits for: while the request *)
(* that creates a ticket is classifying, OpenAIService goes through its    *)
(* calls and waits, or the local rules answer at once where no credential  *)
(* is configured.  Agents edit the row all the while.                      *)
(***************************************************************************)
EXTENDS OpenAIRetry

CONSTANTS
  Ticket,     \* the ticket the request creates
  Verdicts,   \* classifications
  NoVerdict   \* NULL classification columns

VARIABLES
  status, verdict, audited, seen, incidents,  \* see InlineClassification
  handler,     \* its pc
  retryCount,  \* tickets.retry_count
  credential   \* openai_api_key is set

rowVars == <<status, verdict, audited, seen, incidents, handler>>
requestVars == <<vars, rowVars, retryCount, credential>>

Inline == INSTANCE InlineClassification
  WITH Tickets <- {Ticket}, pc <- handler

RequestTypeOK ==
  /\ TypeOK
  /\ Inline!TypeOK
  /\ retryCount \in 0 .. 2 * MaxAttempts
  /\ credential \in BOOLEAN

RequestInit ==
  /\ Init
  /\ Inline!Init
  /\ retryCount = 0
  /\ credential \in BOOLEAN

(* The handler awaits classify_ticket. *)
AwaitProvider ==
  /\ handler[Ticket] = "classifying"
  /\ credential
  /\ Next
  /\ UNCHANGED <<rowVars, retryCount, credential>>

Classified == pc = "classified" \/ ~credential

(* attempt_count - 1; the local rules report one attempt. *)
Extra == IF credential THEN reported - 1 ELSE 0

SaveResult(v) ==
  /\ Classified
  /\ Inline!SaveResult(Ticket, v)
  /\ retryCount' = retryCount + Extra

ClassifyFails ==
  /\ pc \in {"exhausted", "refused"}
  /\ Inline!ClassifyFails(Ticket)
  /\ UNCHANGED retryCount

CheckoutFails ==
  /\ handler[Ticket] = "classifying" => Classified
  /\ Inline!CheckoutFails(Ticket)
  /\ UNCHANGED retryCount

(* Mutant: an exhausted provider counts as one retry, like any error. *)
Increment_Flat == 1

(* retry_increment *)
Increment == IF pc = "exhausted" THEN reported - 1 ELSE 1

(* What record_failure adds. *)
RecordedRetries == IF seen[Ticket] = "complete" THEN 0 ELSE Increment

RecordFailure ==
  /\ Inline!RecordFailure(Ticket)
  /\ retryCount' = retryCount + RecordedRetries

(* The count is committed with the rest of the row. *)
DiesCommitted ==
  /\ handler[Ticket] = "classifying" => Classified
  /\ Inline!DiesCommitted(Ticket)
  /\ retryCount' = CASE handler[Ticket] = "created" -> retryCount
                     [] handler[Ticket] = "classifying" -> retryCount + Extra
                     [] handler[Ticket] = "failing" -> retryCount + RecordedRetries

HandlerStep ==
  \/ \E v \in Verdicts : SaveResult(v)
  \/ ClassifyFails
  \/ CheckoutFails
  \/ RecordFailure
  \/ Inline!Claim(Ticket) /\ UNCHANGED retryCount

OthersStep ==
  /\ \/ Inline!Create(Ticket)
     \/ Inline!RequestDies(Ticket)
     \/ Inline!AcceptBatch({Ticket})
     \/ Inline!AgentStep(Ticket)
  /\ UNCHANGED retryCount

RequestNext ==
  \/ AwaitProvider
  \/ (HandlerStep \/ DiesCommitted \/ OthersStep) /\ UNCHANGED <<vars, credential>>

(* A handler that has begun goes on, and so does the provider's client: a    *)
(* call ends by its timeout and a wait by its timer.                        *)
RequestSpec ==
  /\ RequestInit /\ [][RequestNext]_requestVars
  /\ WF_requestVars(AwaitProvider)
  /\ WF_requestVars(HandlerStep /\ UNCHANGED <<vars, credential>>)

(***************************************************************************)
(* Properties                                                              *)
(***************************************************************************)
(* A ticket the handler has failed has its dead-letter row. *)
FailedIsAudited == Inline!FailedIsAudited

(* Once the handler has answered, the ticket is not left half-way: it is    *)
(* complete or failed unless an agent has set it otherwise.                 *)
AnsweredIsSettled == Inline!AnsweredIsSettled

(* The handler writes over a COMPLETE row only if an agent has set it,       *)
(* whatever becomes of the provider's answer and of its own commits: after   *)
(* one whose answer was lost it has no session to write with.                *)
CompleteStaysUnlessOverridden == Inline!CompleteStaysUnlessOverridden

(* Every ticket created by itself settles, however the provider and the     *)
(* database behave, unless its request dies or an agent sets it.            *)
EverySettles == Inline!EverySettles

(* The retry_count that agents see is the number of calls after the first,  *)
(* over both models, if the provider's last answer settled the ticket; a    *)
(* save that got no connection counts as one instead.                       *)
RetriesAreCalls ==
  handler[Ticket] = "answered" /\ incidents[Ticket] = {} /\ credential =>
    /\ pc = "exhausted" => retryCount = calls - 1
    /\ pc = "classified" =>
         retryCount = IF status[Ticket] = "complete" THEN calls - 1 ELSE 1
=============================================================================
