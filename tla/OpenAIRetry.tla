---------------------------- MODULE OpenAIRetry ----------------------------
(***************************************************************************)
(* One classification by OpenAIService: a retry budget for the primary     *)
(* model, and a budget of its own for the fallback model once the first is *)
(* used up by transient errors.  Time is counted in whole units; a call    *)
(* takes any time up to its timeout, and a wait any time the jitter and    *)
(* the provider's Retry-After header allow.                                *)
(***************************************************************************)
EXTENDS Naturals

CONSTANTS
  MaxAttempts,       \* openai_max_attempts
  Timeout,           \* openai_timeout_seconds
  BackoffBase,       \* openai_backoff_base_seconds
  BackoffMax,        \* openai_backoff_max_seconds
  RetryAfterMax,     \* openai_retry_after_max_seconds
  RetryAfters,       \* Retry-After values the provider may send
  NoHeader,          \* the error carries no Retry-After
  VisibilityTimeout  \* after which the broker redelivers the task

Larger(m, n) == IF m >= n THEN m ELSE n
Smaller(m, n) == IF m <= n THEN m ELSE n

LongestWait == Larger(BackoffMax, RetryAfterMax)

ASSUME SettingsAssumption ==
  /\ MaxAttempts \in Nat \ {0}
  /\ Timeout \in Nat
  /\ BackoffBase \in Nat
  /\ BackoffMax \in Nat
  /\ RetryAfterMax \in Nat
  /\ RetryAfters \subseteq Nat
  /\ NoHeader \notin Nat

(* The bounds of Settings (5 attempts, 120 s, 60 s, 300 s) make this        *)
(* 2 * (5*120 + 4*300) = 3600 s, the visibility timeout of the broker.      *)
ASSUME VisibilityAssumption ==
  /\ VisibilityTimeout \in Nat
  /\ 2 * (MaxAttempts * Timeout + (MaxAttempts - 1) * LongestWait)
       <= VisibilityTimeout

VARIABLES
  pc,               \* "calling", "waiting", or how classify_ticket ended
  model,            \* the model being tried
  attempt,          \* attempts of this model, the current one included
  primaryAttempts,  \* primary_error.attempts, 0 before the fallback
  hint,             \* Retry-After of the last error
  reported,         \* attempt_count of the result, attempts of the error
  calls,            \* history: calls made to the provider
  waits,            \* history: waits between them
  elapsed           \* time since classify_ticket was called

vars == <<pc, model, attempt, primaryAttempts, hint, reported, calls, waits,
          elapsed>>

Outcomes == {"classified", "exhausted", "refused"}

TypeOK ==
  /\ pc \in {"calling", "waiting"} \cup Outcomes
  /\ model \in {"primary", "fallback"}
  /\ attempt \in 1 .. MaxAttempts
  /\ primaryAttempts \in 0 .. MaxAttempts
  /\ hint \in RetryAfters \cup {NoHeader}
  /\ reported \in 0 .. 2 * MaxAttempts
  /\ calls \in 0 .. 2 * MaxAttempts
  /\ waits \in 0 .. 2 * (MaxAttempts - 1)
  /\ elapsed \in Nat

Init ==
  /\ pc = "calling" /\ model = "primary" /\ attempt = 1
  /\ primaryAttempts = 0 /\ hint = NoHeader /\ reported = 0
  /\ calls = 0 /\ waits = 0 /\ elapsed = 0

(* One call to the provider, cut off after the timeout. *)
Call(d) ==
  /\ pc = "calling"
  /\ d \in 0 .. Timeout
  /\ calls' = calls + 1
  /\ elapsed' = elapsed + d
  /\ UNCHANGED waits

(* Mutant: a success of the fallback forgets what the primary has used. *)
Succeeds_LastModelOnly(d) ==
  /\ Call(d)
  /\ pc' = "classified"
  /\ reported' = attempt
  /\ UNCHANGED <<model, attempt, primaryAttempts, hint>>

Succeeds(d) ==
  /\ Call(d)
  /\ pc' = "classified"
  /\ reported' = primaryAttempts + attempt
  /\ UNCHANGED <<model, attempt, primaryAttempts, hint>>

(* Mutant: one attempt more than the budget. *)
FailsTransiently_OneMore(d, h) ==
  /\ Call(d)
  /\ attempt <= MaxAttempts
  /\ pc' = "waiting"
  /\ hint' = h
  /\ UNCHANGED <<model, attempt, primaryAttempts, reported>>

(* A 429, a 5xx or a timeout with attempts left: wait and try again. *)
FailsTransiently(d, h) ==
  /\ Call(d)
  /\ attempt < MaxAttempts
  /\ pc' = "waiting"
  /\ hint' = h
  /\ UNCHANGED <<model, attempt, primaryAttempts, reported>>

(* Mutant: the fallback is tried although the primary has attempts left. *)
PrimaryExhausted_Early(d) ==
  /\ Call(d)
  /\ model = "primary"
  /\ model' = "fallback"
  /\ attempt' = 1
  /\ primaryAttempts' = attempt
  /\ UNCHANGED <<pc, hint, reported>>

(* The primary's last attempt fails transiently: the fallback starts anew. *)
PrimaryExhausted(d) ==
  /\ Call(d)
  /\ model = "primary"
  /\ attempt = MaxAttempts
  /\ model' = "fallback"
  /\ attempt' = 1
  /\ primaryAttempts' = attempt
  /\ UNCHANGED <<pc, hint, reported>>

(* AllModelsFailedError: both budgets are used up. *)
AllModelsFail(d) ==
  /\ Call(d)
  /\ model = "fallback"
  /\ attempt = MaxAttempts
  /\ pc' = "exhausted"
  /\ reported' = primaryAttempts + attempt
  /\ UNCHANGED <<model, attempt, primaryAttempts, hint>>

(* A refusal, an invalid answer or another status: raised at once, from     *)
(* either model.                                                            *)
FailsPermanently(d) ==
  /\ Call(d)
  /\ pc' = "refused"
  /\ UNCHANGED <<model, attempt, primaryAttempts, hint, reported>>

(* Full jitter below the exponential cap; openai_backoff_max_seconds bounds *)
(* it too, where Next chooses the jitter.                                   *)
Jitter(j) == j <= BackoffBase * 2 ^ (attempt - 1)

(* Mutant: a Retry-After longer than the cap is obeyed. *)
Delay_Uncapped(jitter) == IF hint = NoHeader THEN jitter ELSE Larger(jitter, hint)

Delay(jitter) ==
  IF hint = NoHeader THEN jitter
                     ELSE Larger(jitter, Smaller(hint, RetryAfterMax))

(* Mutant: without a Retry-After the service never wakes up. *)
Wait_OnHeaderOnly(jitter) ==
  /\ pc = "waiting"
  /\ Jitter(jitter)
  /\ hint # NoHeader
  /\ pc' = "calling"
  /\ attempt' = attempt + 1
  /\ waits' = waits + 1
  /\ elapsed' = elapsed + Delay(jitter)
  /\ UNCHANGED <<model, primaryAttempts, hint, reported, calls>>

Wait(jitter) ==
  /\ pc = "waiting"
  /\ Jitter(jitter)
  /\ pc' = "calling"
  /\ attempt' = attempt + 1
  /\ waits' = waits + 1
  /\ elapsed' = elapsed + Delay(jitter)
  /\ UNCHANGED <<model, primaryAttempts, hint, reported, calls>>

Next ==
  \/ \E d \in 0 .. Timeout :
       \/ Succeeds(d)
       \/ \E h \in RetryAfters \cup {NoHeader} : FailsTransiently(d, h)
       \/ PrimaryExhausted(d)
       \/ AllModelsFail(d)
       \/ FailsPermanently(d)
  \/ \E jitter \in 0 .. BackoffMax : Wait(jitter)

(* A call ends by its timeout and a wait by its timer. *)
Spec == Init /\ [][Next]_vars /\ WF_vars(Next)

(***************************************************************************)
(* Properties                                                              *)
(***************************************************************************)

(* The attempt count that becomes part of the ticket's retry_count is the   *)
(* number of calls made to the provider, over both models.                  *)
AttemptsAreCalls ==
  pc \in {"classified", "exhausted"} => reported = calls

(* README.md:376: the fallback is tried only after the primary has used up  *)
(* its whole budget, and then has a budget of its own.                      *)
IndependentBudgets ==
  /\ model = "fallback" => primaryAttempts = MaxAttempts
  /\ calls <= primaryAttempts + MaxAttempts

(* However the provider behaves, one classification is over before the      *)
(* broker would redeliver its task.                                         *)
WithinVisibility == elapsed <= VisibilityTimeout
=============================================================================
