----------------------------- MODULE RateLimit -----------------------------
(***************************************************************************)
(* RedisRateLimitMiddleware, for the requests of one client: a request is  *)
(* stamped with its window, then one transaction increments and re-dates   *)
(* that window's counter, and the count decides.  Other clients have other *)
(* keys.  API processes share nothing but Redis; a clock that is slow      *)
(* counts as lateness.                                                     *)
(***************************************************************************)
EXTENDS Naturals, FiniteSets

CONSTANTS
  Requests,  \* requests of the client
  Exempt,    \* those for a path of _EXEMPT_PATHS, or all if it is disabled
  Limit,     \* rate_limit_requests
  Window,    \* rate_limit_window_seconds
  MaxTime,   \* bound on the clock, in seconds
  MaxLate,   \* longest way, in seconds, from the stamp to the transaction
  Never      \* the expiry of a key without one

ASSUME LimitAssumption == Limit \in Nat \ {0} /\ Window \in Nat \ {0}
ASSUME ExemptAssumption == Exempt \subseteq Requests
ASSUME TimeAssumption == MaxTime \in Nat /\ MaxLate \in Nat
ASSUME FiniteAssumption == IsFiniteSet(Requests)
ASSUME NeverAssumption == Never \notin Nat

VARIABLES
  now,       \* the clock
  failOpen,  \* rate_limit_fail_open
  counter,   \* Redis: the counter of each window, 0 where there is no key
  expiry,    \* Redis: when that key is dropped
  pc,        \* what has become of each request
  arrived,   \* when it was stamped
  charged    \* history: its transaction ran

vars == <<now, failOpen, counter, expiry, pc, arrived, charged>>

Windows == 0 .. MaxTime \div Window
WindowOf(t) == t \div Window
Answers == {"admitted", "uncounted", "rejected", "unavailable", "exempt"}

TypeOK ==
  /\ now \in 0 .. MaxTime
  /\ failOpen \in BOOLEAN
  /\ counter \in [Windows -> 0 .. Cardinality(Requests)]
  /\ expiry \in [Windows -> 0 .. MaxTime + Window + 1 \cup {Never}]
  /\ pc \in [Requests -> {"idle", "stamped"} \cup Answers]
  /\ arrived \in [Requests -> 0 .. MaxTime]
  /\ charged \in [Requests -> BOOLEAN]

Init ==
  /\ now = 0
  /\ failOpen \in BOOLEAN
  /\ counter = [w \in Windows |-> 0]
  /\ expiry = [w \in Windows |-> Never]
  /\ pc = [r \in Requests |-> "idle"]
  /\ arrived = [r \in Requests |-> 0]
  /\ charged = [r \in Requests |-> FALSE]

(* A second passes, and Redis drops what has expired.  No transaction is    *)
(* later than MaxLate.                                                      *)
Tick ==
  /\ now < MaxTime
  /\ \A r \in Requests : pc[r] = "stamped" => now < arrived[r] + MaxLate
  /\ now' = now + 1
  /\ counter' = [w \in Windows |-> IF expiry[w] = now' THEN 0 ELSE counter[w]]
  /\ expiry' = [w \in Windows |-> IF expiry[w] = now' THEN Never ELSE expiry[w]]
  /\ UNCHANGED <<failOpen, pc, arrived, charged>>

(* The limiter passes the request on without looking at Redis. *)
Bypass(r) ==
  /\ pc[r] = "idle" /\ r \in Exempt
  /\ pc' = [pc EXCEPT ![r] = "exempt"]
  /\ UNCHANGED <<now, failOpen, counter, expiry, arrived, charged>>

Arrive(r) ==
  /\ pc[r] = "idle" /\ r \notin Exempt
  /\ pc' = [pc EXCEPT ![r] = "stamped"]
  /\ arrived' = [arrived EXCEPT ![r] = now]
  /\ UNCHANGED <<now, failOpen, counter, expiry, charged>>

(* Mutant: one key for the client, without its window. *)
KeyOf_Client(r) == 0

KeyOf(r) == WindowOf(arrived[r])

(* Mutant: without a transaction, EXPIRE may fail after INCR. *)
Transaction_Pipeline(r) ==
  /\ counter' = [counter EXCEPT ![KeyOf(r)] = @ + 1]
  /\ \/ expiry' = [expiry EXCEPT ![KeyOf(r)] = now + Window + 1]
     \/ UNCHANGED expiry
  /\ charged' = [charged EXCEPT ![r] = TRUE]

(* Mutant: the key lives for one window, with nothing to spare. *)
Transaction_NoMargin(r) ==
  /\ counter' = [counter EXCEPT ![KeyOf(r)] = @ + 1]
  /\ expiry' = [expiry EXCEPT ![KeyOf(r)] = now + Window]
  /\ charged' = [charged EXCEPT ![r] = TRUE]

(* Mutant: EXPIRE is given milliseconds. *)
Transaction_Milliseconds(r) ==
  /\ counter' = [counter EXCEPT ![KeyOf(r)] = @ + 1]
  /\ expiry' = [expiry EXCEPT ![KeyOf(r)] = now + (Window + 1) * 1000]
  /\ charged' = [charged EXCEPT ![r] = TRUE]

(* MULTI, INCR, EXPIRE window + 1, EXEC. *)
Transaction(r) ==
  /\ counter' = [counter EXCEPT ![KeyOf(r)] = @ + 1]
  /\ expiry' = [expiry EXCEPT ![KeyOf(r)] = now + Window + 1]
  /\ charged' = [charged EXCEPT ![r] = TRUE]

Answer(r, a) ==
  /\ pc' = [pc EXCEPT ![r] = a]
  /\ UNCHANGED <<now, failOpen, arrived>>

Charge(r) ==
  /\ pc[r] = "stamped"
  /\ Transaction(r)
  /\ Answer(r, IF counter[KeyOf(r)] + 1 > Limit THEN "rejected" ELSE "admitted")

(* _on_unavailable *)
AnswerUnavailable(r) ==
  Answer(r, IF failOpen THEN "uncounted" ELSE "unavailable")

(* The transaction ran but its reply did not come. *)
ReplyLost(r) ==
  /\ pc[r] = "stamped"
  /\ Transaction(r)
  /\ AnswerUnavailable(r)

(* It did not run: no connection, an error, a timeout. *)
Unavailable(r) ==
  /\ pc[r] = "stamped"
  /\ AnswerUnavailable(r)
  /\ UNCHANGED <<counter, expiry, charged>>

Next ==
  \/ Tick
  \/ \E r \in Requests :
       Bypass(r) \/ Arrive(r) \/ Charge(r) \/ ReplyLost(r) \/ Unavailable(r)

Spec == Init /\ [][Next]_vars

(***************************************************************************)
(* Properties                                                              *)
(***************************************************************************)
ChargedTo(w) == {r \in Requests : charged[r] /\ WindowOf(arrived[r]) = w}

Decided ==
  [r \in Requests |->
     CASE pc[r] \in {"idle", "stamped"} -> "none"
       [] pc[r] \in {"admitted", "rejected"} -> pc[r]
       [] OTHER -> "waived"]

(* Windows that ended more than a second ago, so that their counter may have *)
(* been dropped.                                                            *)
Over == {w \in Windows : now > (w + 1) * Window}

Budget == INSTANCE WindowBudget
  WITH spent <- [w \in Windows |-> Cardinality(ChargedTo(w))],
       verdict <- Decided, closed <- Over

(* The limiter is the budget it stands for until EXPIRE window + 1 can have  *)
(* dropped the counter: of the counted requests that arrive in a window, the *)
(* first Limit get in and every other gets its 429.  A transaction that is   *)
(* still on the way when the window has been over for longer may find a      *)
(* counter that begins again, and let its request in over the budget; but    *)
(* whoever gets a 429, however late, has earned it.                          *)
ImplementsBudget == Budget!Spec

(* No counter stays in Redis for good: each one, whatever request was cut   *)
(* off, has an expiry that is still to come.                                *)
CountersExpire ==
  \A w \in Windows : counter[w] > 0 => expiry[w] # Never /\ expiry[w] > now
=============================================================================
