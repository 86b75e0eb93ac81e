---------------------------- MODULE WindowBudget ----------------------------
(***************************************************************************)
(* What a fixed-window rate limiter promises, without keys, clocks or      *)
(* expiry: each window has a budget, a request is decided once, and the    *)
(* decision is the one the budget calls for.  Once a window is closed its  *)
(* budget binds only refusals: a straggler may still get in over it.       *)
(***************************************************************************)
EXTENDS Naturals

CONSTANTS Requests, Windows, Limit

VARIABLES
  spent,   \* requests charged to each window
  verdict, \* what was decided on each request
  closed   \* windows whose spending is no longer kept for good

budgetVars == <<spent, verdict, closed>>

Init ==
  /\ spent = [w \in Windows |-> 0]
  /\ verdict = [r \in Requests |-> "none"]
  /\ closed = {}

Decide(r, v) ==
  /\ verdict[r] = "none"
  /\ verdict' = [verdict EXCEPT ![r] = v]
  /\ UNCHANGED closed

Spend(w) == spent' = [spent EXCEPT ![w] = @ + 1]

Admit(r, w) ==
  Decide(r, "admitted") /\ (spent[w] < Limit \/ w \in closed) /\ Spend(w)

Reject(r, w) == Decide(r, "rejected") /\ spent[w] >= Limit /\ Spend(w)

(* The limiter does not decide: the request is exempt, or what Redis says   *)
(* is not known - it may have been charged all the same.                    *)
Waive(r) == Decide(r, "waived") /\ UNCHANGED spent
ChargeAndWaive(r, w) == Decide(r, "waived") /\ Spend(w)

Close ==
  /\ closed' \in SUBSET Windows /\ closed \subseteq closed'
  /\ UNCHANGED <<spent, verdict>>

Next ==
  \/ Close
  \/ \E r \in Requests :
       \/ Waive(r)
       \/ \E w \in Windows : Admit(r, w) \/ Reject(r, w) \/ ChargeAndWaive(r, w)

Spec == Init /\ [][Next]_budgetVars
=============================================================================
