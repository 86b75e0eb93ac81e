------------------------------ MODULE HttpStack ------------------------------
(***************************************************************************)
(* A request's way through the API process: create_app wraps the router in *)
(* five layers, each added around those before it, and the rate limiter is *)
(* one of them.  What the limiter lets through runs its handler; the layers *)
(* that the answer, or the exception, then meets finish it.                *)
(***************************************************************************)
EXTENDS RateLimit, Sequences

CONSTANT Probes  \* requests whose handler calls nothing: GET /live, GET /health

ASSUME ProbesAssumption == Probes \subseteq Requests

VARIABLES
  outcome,  \* how the handler of each request ended
  runs      \* how often it has run

stackVars == <<vars, outcome, runs>>

Refusals == {"rejected", "unavailable"}
Passed == Answers \ Refusals
Outcomes == {"ok", "error", "crash"}

StackTypeOK ==
  /\ TypeOK
  /\ outcome \in [Requests -> Outcomes \cup {"none"}]
  /\ runs \in [Requests -> Nat]

StackInit ==
  /\ Init
  /\ outcome = [r \in Requests |-> "none"]
  /\ runs = [r \in Requests |-> 0]

(* A probe's handler only answers. *)
CanEnd(r) == IF r \in Probes THEN {"ok"} ELSE Outcomes

(* Mutant: the handler is called inside the limiter's try, whose except     *)
(* clause takes its exception for one of Redis.                             *)
Handle_InsideTry(r, o) ==
  /\ pc[r] \in Passed /\ outcome[r] = "none"
  /\ o \in CanEnd(r)
  /\ runs' = [runs EXCEPT ![r] = @ + 1]
  /\ IF o = "crash" /\ pc[r] = "admitted"
       THEN pc' = [pc EXCEPT ![r] = IF failOpen THEN "uncounted" ELSE "unavailable"]
            /\ UNCHANGED outcome
       ELSE outcome' = [outcome EXCEPT ![r] = o] /\ UNCHANGED pc
  /\ UNCHANGED <<now, failOpen, counter, expiry, arrived, charged>>

(* call_next: the handler answers, raises an exception that               *)
(* core/exceptions maps to an answer, or raises any other.                  *)
Handle(r, o) ==
  /\ pc[r] \in Passed /\ outcome[r] = "none"
  /\ o \in CanEnd(r)
  /\ outcome' = [outcome EXCEPT ![r] = o]
  /\ runs' = [runs EXCEPT ![r] = @ + 1]
  /\ UNCHANGED vars

StackNext ==
  \/ Next /\ UNCHANGED <<outcome, runs>>
  \/ \E r \in Requests, o \in Outcomes : Handle(r, o)

StackSpec == StackInit /\ [][StackNext]_stackVars

(* Mutant: the limiter is added last. *)
Layers_LimiterOutside ==
  <<"cors", "exception", "context", "security", "rate_limit">>

(* In the order they are added, the innermost first. *)
Layers == <<"cors", "rate_limit", "exception", "context", "security">>

Raised == [raised |-> TRUE, marks |-> {}]
Plain(marks) == [raised |-> FALSE, marks |-> marks]
Mark(answer, mark) ==
  IF answer.raised THEN Raised ELSE Plain(answer.marks \cup {mark})

(* RedisRateLimitMiddleware: its own answer, or the handler's with the      *)
(* X-RateLimit headers if the request was counted.                          *)
Limited(r, answer) ==
  CASE pc[r] = "rejected" -> Plain({"budget"})
    [] pc[r] = "unavailable" -> Plain({})
    [] pc[r] = "admitted" -> Mark(answer, "budget")
    [] OTHER -> answer

(* exception_middleware: an answer of its own for an exception. *)
Sanitized(answer) == IF answer.raised THEN Plain({}) ELSE answer

(* request_context_middleware logs an exception and lets it pass.           *)
Identified(answer) == Mark(answer, "request_id")

(* security_headers_middleware *)
Hardened(answer) == Mark(answer, "hardening")

Through(r, layer, answer) ==
  CASE layer = "cors" -> Mark(answer, "cors")
    [] layer = "rate_limit" -> Limited(r, answer)
    [] layer = "exception" -> Sanitized(answer)
    [] layer = "context" -> Identified(answer)
    [] layer = "security" -> Hardened(answer)

(* What the handler has made, passed out through the five layers. *)
Response(r) ==
  Through(r, Layers[5], Through(r, Layers[4], Through(r, Layers[3],
    Through(r, Layers[2], Through(r, Layers[1],
      IF outcome[r] = "crash" THEN Raised ELSE Plain({}))))))

Done(r) == pc[r] \in Refusals \/ outcome[r] # "none"

(***************************************************************************)
(* Properties                                                              *)
(***************************************************************************)
(* The handler of a request runs once if the request was let through and    *)
(* never if it was refused, whatever Redis and the handler did meanwhile.   *)
HandledOnce ==
  \A r \in Requests :
    Done(r) => runs[r] = IF pc[r] \in Refusals THEN 0 ELSE 1

(* Every answer - the limiter's refusals and the 500 of a crash included -  *)
(* has its request id and the hardening headers, and none is an exception.  *)
AnswersAreWhole ==
  \A r \in Requests :
    Done(r) =>
      ~Response(r).raised /\ {"request_id", "hardening"} \subseteq Response(r).marks

(* docs/DEPLOYMENT.md:65, "`/live`: process-only liveness": while the       *)
(* process serves requests, its liveness probe is not refused.              *)
LivenessIsProcessOnly == \A r \in Probes : pc[r] \notin Refusals
=============================================================================
