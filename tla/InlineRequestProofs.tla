------------------------ MODULE InlineRequestProofs ------------------------
(***************************************************************************)
(* Proofs about OpenAIRetry and InlineRequest for any settings of          *)
(* OpenAIService that fit the visibility timeout and any verdicts: first   *)
(* the provider's client by itself, then the handler that waits for it.    *)
(***************************************************************************)
EXTENDS InlineRequest, TLAPS

(***************************************************************************)
(* The provider's client                                                   *)
(***************************************************************************)
(* Calls and waits so far are given by the position in the two budgets, and *)
(* each has taken no longer than it may.                                    *)
Position ==
  /\ model = "primary" => primaryAttempts = 0 /\ waits = attempt - 1
  /\ model = "fallback" => /\ primaryAttempts = MaxAttempts
                           /\ waits = MaxAttempts + attempt - 2
  /\ pc = "calling" => calls = primaryAttempts + attempt - 1
  /\ pc # "calling" => calls = primaryAttempts + attempt
  /\ pc = "waiting" => attempt < MaxAttempts

Clock == elapsed <= calls * Timeout + waits * LongestWait

Inv == TypeOK /\ Position /\ AttemptsAreCalls /\ Clock

(* The longest wait is an upper bound of both caps on a delay. *)
LEMMA LongestWaitFacts ==
  /\ LongestWait \in Nat
  /\ BackoffMax <= LongestWait
  /\ RetryAfterMax <= LongestWait
BY SettingsAssumption DEF LongestWait, Larger

(* No wait is longer than the longest one allowed. *)
LEMMA DelayBound ==
  ASSUME TypeOK, NEW jitter \in 0 .. BackoffMax
  PROVE  Delay(jitter) \in 0 .. LongestWait
BY SettingsAssumption, LongestWaitFacts DEF TypeOK, Delay, Larger, Smaller

(* One more call, or one more wait, moves the bound by its longest duration. *)
LEMMA OneMore ==
  ASSUME NEW n \in Nat, NEW c \in Nat
  PROVE  n * c \in Nat /\ (n + 1) * c = n * c + c
OBVIOUS

(* More calls and more waits never lower the bound on the time they take. *)
LEMMA Monotone ==
  ASSUME NEW m \in Nat, NEW n \in Nat, NEW c \in Nat, m <= n
  PROVE  m * c <= n * c
OBVIOUS

(* classify_ticket starts with both budgets untouched. *)
LEMMA InitInv == Init => Inv
<1> SUFFICES ASSUME Init PROVE Inv
  OBVIOUS
<1>1. TypeOK /\ Position /\ AttemptsAreCalls
  BY SettingsAssumption
     DEF Init, TypeOK, Position, AttemptsAreCalls, Outcomes
<1>2. Clock
  BY LongestWaitFacts, SettingsAssumption DEF Init, Clock
<1> QED
  BY <1>1, <1>2 DEF Inv

(* The bound on time grows by a timeout with a call. *)
LEMMA CallClock ==
  ASSUME TypeOK, Clock, NEW d \in 0 .. Timeout, Call(d)
  PROVE  Clock'
<1>1. calls \in Nat /\ waits \in Nat /\ elapsed \in Nat /\ Timeout \in Nat
  BY SettingsAssumption DEF TypeOK
<1>2. (calls + 1) * Timeout = calls * Timeout + Timeout /\ calls * Timeout \in Nat
  BY <1>1, OneMore
<1>3. waits * LongestWait \in Nat
  BY <1>1, LongestWaitFacts, OneMore
<1>4. LongestWait' = LongestWait
  BY DEF LongestWait, Larger
<1> QED
  BY <1>1, <1>2, <1>3, <1>4 DEF Clock, Call

(* The bound on time grows by the longest wait with a wait. *)
LEMMA WaitClock ==
  ASSUME TypeOK, Clock, NEW jitter \in 0 .. BackoffMax, Wait(jitter)
  PROVE  Clock'
<1>1. calls \in Nat /\ waits \in Nat /\ elapsed \in Nat /\ Timeout \in Nat
  BY SettingsAssumption DEF TypeOK
<1>2. (waits + 1) * LongestWait = waits * LongestWait + LongestWait
      /\ waits * LongestWait \in Nat
  BY <1>1, LongestWaitFacts, OneMore
<1>3. calls * Timeout \in Nat
  BY <1>1, OneMore
<1>4. Delay(jitter) \in Nat /\ Delay(jitter) <= LongestWait
  BY DelayBound, LongestWaitFacts
<1> QED
  BY <1>1, <1>2, <1>3, <1>4, LongestWaitFacts DEF Clock, Wait

(* Each action moves the position in one budget and the counts with it. *)
LEMMA NextInv == Inv /\ [Next]_vars => Inv'
<1> SUFFICES ASSUME Inv, [Next]_vars PROVE Inv'
  OBVIOUS
<1> DEFINE Counted == TypeOK /\ Position /\ AttemptsAreCalls
<1> USE SettingsAssumption
<1>1. ASSUME NEW d \in 0 .. Timeout, Succeeds(d) PROVE Inv'
  <2>1. Counted'
    BY <1>1 DEF Inv, TypeOK, Position, AttemptsAreCalls, Outcomes, Succeeds, Call
  <2> QED
    BY <1>1, <2>1, CallClock DEF Inv, Succeeds
<1>2. ASSUME NEW d \in 0 .. Timeout, NEW h \in RetryAfters \cup {NoHeader},
             FailsTransiently(d, h)
      PROVE  Inv'
  <2>1. Counted'
    BY <1>2 DEF Inv, TypeOK, Position, AttemptsAreCalls, Outcomes,
                FailsTransiently, Call
  <2> QED
    BY <1>2, <2>1, CallClock DEF Inv, FailsTransiently
<1>3. ASSUME NEW d \in 0 .. Timeout, PrimaryExhausted(d) PROVE Inv'
  <2>1. Counted'
    BY <1>3 DEF Inv, TypeOK, Position, AttemptsAreCalls, Outcomes,
                PrimaryExhausted, Call
  <2> QED
    BY <1>3, <2>1, CallClock DEF Inv, PrimaryExhausted
<1>4. ASSUME NEW d \in 0 .. Timeout, AllModelsFail(d) PROVE Inv'
  <2>1. Counted'
    BY <1>4 DEF Inv, TypeOK, Position, AttemptsAreCalls, Outcomes,
                AllModelsFail, Call
  <2> QED
    BY <1>4, <2>1, CallClock DEF Inv, AllModelsFail
<1>5. ASSUME NEW d \in 0 .. Timeout, FailsPermanently(d) PROVE Inv'
  <2>1. Counted'
    BY <1>5 DEF Inv, TypeOK, Position, AttemptsAreCalls, Outcomes,
                FailsPermanently, Call
  <2> QED
    BY <1>5, <2>1, CallClock DEF Inv, FailsPermanently
<1>6. ASSUME NEW jitter \in 0 .. BackoffMax, Wait(jitter) PROVE Inv'
  <2>1. Delay(jitter) \in Nat
    BY DelayBound, LongestWaitFacts DEF Inv
  <2>2. Counted'
    BY <1>6, <2>1 DEF Inv, TypeOK, Position, AttemptsAreCalls, Outcomes, Wait
  <2> QED
    BY <1>6, <2>2, WaitClock DEF Inv
<1>7. ASSUME UNCHANGED vars PROVE Inv'
  BY <1>7 DEF Inv, TypeOK, Position, AttemptsAreCalls, Clock, Outcomes, vars,
              LongestWait, Larger
<1> QED
  BY <1>1, <1>2, <1>3, <1>4, <1>5, <1>6, <1>7 DEF Next

(* The inductive invariant: position, counts and time move together. *)
THEOREM Invariance == Spec => []Inv
<1>1. Init => Inv
  BY InitInv
<1>2. Inv /\ [Next]_vars => Inv'
  BY NextInv
<1> QED
  BY <1>1, <1>2, PTL DEF Spec

(* No call or wait falls outside its budget. *)
THEOREM TypeCorrectness == Spec => []TypeOK
<1>1. Inv => TypeOK
  BY DEF Inv
<1> QED
  BY <1>1, Invariance, PTL

(* The reported attempts are the calls made, over both models. *)
THEOREM ReportedAttemptsAreCalls == Spec => []AttemptsAreCalls
<1>1. Inv => AttemptsAreCalls
  BY DEF Inv
<1> QED
  BY <1>1, Invariance, PTL

(* The fallback never eats into the budget of the primary, nor vice versa. *)
THEOREM BudgetsAreIndependent == Spec => []IndependentBudgets
<1>1. Inv => IndependentBudgets
  BY SettingsAssumption DEF Inv, TypeOK, Position, IndependentBudgets, Outcomes
<1> QED
  BY <1>1, Invariance, PTL

(* Calls and waits within their budgets take no longer than the bound the    *)
(* settings are validated with.                                              *)
LEMMA FitsVisibility == Inv => WithinVisibility
<1> SUFFICES ASSUME Inv PROVE WithinVisibility
  OBVIOUS
<1>1. /\ calls \in Nat /\ waits \in Nat /\ elapsed \in Nat
      /\ calls <= 2 * MaxAttempts /\ waits <= 2 * (MaxAttempts - 1)
  BY SettingsAssumption DEF Inv, TypeOK
<1>2. calls * Timeout <= (2 * MaxAttempts) * Timeout
  BY <1>1, Monotone, SettingsAssumption
<1>3. waits * LongestWait <= (2 * (MaxAttempts - 1)) * LongestWait
  BY <1>1, Monotone, LongestWaitFacts, SettingsAssumption
<1>4. elapsed <= 2 * (MaxAttempts * Timeout + (MaxAttempts - 1) * LongestWait)
  BY <1>1, <1>2, <1>3, LongestWaitFacts, SettingsAssumption DEF Inv, Clock
<1> QED
  BY <1>1, <1>4, VisibilityAssumption, LongestWaitFacts, SettingsAssumption
     DEF WithinVisibility

(* Settings whose worst case fits the visibility timeout are safe: no run of *)
(* a classification outlasts it.                                             *)
THEOREM ClassificationFitsVisibility == Spec => []WithinVisibility
BY FitsVisibility, Invariance, PTL

(***************************************************************************)
(* The request                                                             *)
(***************************************************************************)
(* Nobody calls the provider before the handler waits for it, or without a  *)
(* credential.                                                              *)
NotYetCalled ==
  ~credential \/ handler[Ticket] \in {"idle", "created"} => pc = "calling"

(* The session's copy of the status, by the handler's place; the row says   *)
(* the same while the handler waits, unless an agent has set it.            *)
Copy ==
  /\ handler[Ticket] = "created" => seen[Ticket] = "pending"
  /\ handler[Ticket] = "classifying" =>
       /\ seen[Ticket] = "processing"
       /\ status[Ticket] = "processing" \/ "overridden" \in incidents[Ticket]
  /\ handler[Ticket] = "failing" => seen[Ticket] \in {"pending", "processing"}

(* retry_count before the handler has answered. *)
Count ==
  /\ retryCount \in 0 .. 2 * MaxAttempts
  /\ handler[Ticket] \in {"idle", "created", "classifying", "failing"} =>
       retryCount = 0

Handling ==
  /\ Inline!TypeOK
  /\ credential \in BOOLEAN
  /\ NotYetCalled
  /\ Copy
  /\ Count
  /\ FailedIsAudited
  /\ AnsweredIsSettled
  /\ RetriesAreCalls

RequestInv == Inv /\ Handling

(* The calls behind an outcome are counted, and there was at least one. *)
LEMMA OutcomeFacts ==
  ASSUME Inv, pc \in {"classified", "exhausted"}
  PROVE  reported = calls /\ calls \in 1 .. 2 * MaxAttempts
BY SettingsAssumption DEF Inv, TypeOK, Position, AttemptsAreCalls

(* What record_failure adds is a number of calls after the first, or one. *)
LEMMA IncrementFacts ==
  ASSUME Inv
  PROVE  /\ Increment \in 0 .. 2 * MaxAttempts
         /\ IF pc = "exhausted" THEN Increment = calls - 1 ELSE Increment = 1
BY OutcomeFacts, SettingsAssumption DEF Increment

(* A request that has not begun. *)
LEMMA RequestInitInv == RequestInit => RequestInv
<1> SUFFICES ASSUME RequestInit PROVE RequestInv
  OBVIOUS
<1>1. Inv
  BY InitInv DEF RequestInit
<1>2. Handling
  BY SettingsAssumption
     DEF RequestInit, Init, Inline!Init, Handling, Inline!TypeOK,
         Inline!TicketStatus, NotYetCalled, Copy, Count, FailedIsAudited,
         Inline!FailedIsAudited, AnsweredIsSettled, Inline!AnsweredIsSettled,
         RetriesAreCalls
<1> QED
  BY <1>1, <1>2 DEF RequestInv

(* While the provider's client works the row and the handler stand still. *)
LEMMA AwaitInv == RequestInv /\ AwaitProvider => Handling'
BY DEF RequestInv, AwaitProvider, rowVars, Handling, Inline!TypeOK,
       Inline!TicketStatus, NotYetCalled, Copy, Count, FailedIsAudited,
       Inline!FailedIsAudited, AnsweredIsSettled, Inline!AnsweredIsSettled,
       RetriesAreCalls

(* Each write of the handler leaves the row and retry_count in agreement. *)
LEMMA HandlerInv ==
  ASSUME RequestInv, HandlerStep, UNCHANGED <<vars, credential>>
  PROVE  Handling'
<1> USE SettingsAssumption, OutcomeFacts
    DEF RequestInv, vars, Handling, Inline!TypeOK, Inline!TicketStatus,
        NotYetCalled, Copy, Count, FailedIsAudited, Inline!FailedIsAudited,
        AnsweredIsSettled, Inline!AnsweredIsSettled, RetriesAreCalls,
        Inline!Goto, Inline!WriteStatus
<1>1. ASSUME NEW v \in Verdicts, SaveResult(v) PROVE Handling'
  <2>1. Extra \in 0 .. 2 * MaxAttempts - 1 /\ (credential => Extra = calls - 1)
    BY <1>1 DEF Extra, SaveResult, Classified
  <2> QED
    BY <1>1, <2>1 DEF SaveResult, Classified, Inline!SaveResult, Inline!SaveRow
<1>2. ASSUME ClassifyFails PROVE Handling'
  BY <1>2 DEF ClassifyFails, Inline!ClassifyFails
<1>3. ASSUME CheckoutFails PROVE Handling'
  BY <1>3 DEF CheckoutFails, Inline!CheckoutFails
<1>4. ASSUME RecordFailure PROVE Handling'
  <2>1. seen[Ticket] # "complete" /\ RecordedRetries = Increment
    BY <1>4 DEF RecordFailure, Inline!RecordFailure, Inline!FailRow,
                RecordedRetries
  <2> QED
    BY <1>4, <2>1, IncrementFacts
       DEF RecordFailure, Inline!RecordFailure, Inline!FailRow
<1>5. ASSUME Inline!Claim(Ticket), UNCHANGED retryCount PROVE Handling'
  BY <1>5 DEF Inline!Claim, Inline!ClaimRow
<1> QED
  BY <1>1, <1>2, <1>3, <1>4, <1>5 DEF HandlerStep

(* A commit whose answer is lost has written as much as any other. *)
LEMMA DiesCommittedInv ==
  ASSUME RequestInv, DiesCommitted, UNCHANGED <<vars, credential>>
  PROVE  Handling'
<1> USE SettingsAssumption, OutcomeFacts
    DEF RequestInv, vars, Handling, Inline!TypeOK, Inline!TicketStatus,
        NotYetCalled, Copy, Count, FailedIsAudited, Inline!FailedIsAudited,
        AnsweredIsSettled, Inline!AnsweredIsSettled, RetriesAreCalls,
        Inline!Goto, Inline!Note, Inline!WriteStatus, DiesCommitted,
        Inline!DiesCommitted
<1>1. CASE Inline!ClaimRow(Ticket)
  BY <1>1 DEF Inline!ClaimRow
<1>2. ASSUME NEW v \in Verdicts, Inline!SaveRow(Ticket, v) PROVE Handling'
  <2>1. handler[Ticket] = "classifying"
    BY <1>2 DEF Inline!SaveRow
  <2>2. Extra \in 0 .. 2 * MaxAttempts - 1
    BY <2>1 DEF Extra, Classified
  <2> QED
    BY <1>2, <2>1, <2>2 DEF Inline!SaveRow
<1>3. CASE Inline!FailRow(Ticket)
  <2>1. handler[Ticket] = "failing" /\ RecordedRetries = Increment
    BY <1>3 DEF Inline!FailRow, RecordedRetries
  <2> QED
    BY <1>3, <2>1, IncrementFacts DEF Inline!FailRow
<1> QED
  BY <1>1, <1>2, <1>3

(* Neither creation nor what agents and crashes do can undo it. *)
LEMMA OthersInv ==
  ASSUME RequestInv, OthersStep, UNCHANGED <<vars, credential>>
  PROVE  Handling'
<1> USE SettingsAssumption
    DEF RequestInv, vars, Handling, Inline!TypeOK, Inline!TicketStatus,
        NotYetCalled, Copy, Count, FailedIsAudited, Inline!FailedIsAudited,
        AnsweredIsSettled, Inline!AnsweredIsSettled, RetriesAreCalls,
        Inline!Goto, Inline!Note
<1>1. ASSUME Inline!Create(Ticket), UNCHANGED retryCount PROVE Handling'
  BY <1>1 DEF Inline!Create, Inline!WriteStatus
<1>2. ASSUME Inline!RequestDies(Ticket), UNCHANGED retryCount PROVE Handling'
  BY <1>2 DEF Inline!RequestDies
<1>3. ASSUME Inline!AcceptBatch({Ticket}), UNCHANGED retryCount PROVE Handling'
  BY <1>3 DEF Inline!AcceptBatch
<1>4. ASSUME NEW s \in Inline!TicketStatus, Inline!UpdateStatus(Ticket, s),
             UNCHANGED retryCount
      PROVE  Handling'
  BY <1>4 DEF Inline!UpdateStatus
<1>5. ASSUME NEW v \in Verdicts, Inline!CorrectClassification(Ticket, v),
             UNCHANGED retryCount
      PROVE  Handling'
  BY <1>5 DEF Inline!CorrectClassification
<1> QED
  BY <1>1, <1>2, <1>3, <1>4, <1>5 DEF OthersStep, Inline!AgentStep

(* A stutter changes nothing. *)
LEMMA StutterInv == RequestInv /\ UNCHANGED requestVars => RequestInv'
<1> SUFFICES ASSUME RequestInv, UNCHANGED requestVars PROVE RequestInv'
  OBVIOUS
<1>1. Inv'
  BY NextInv DEF RequestInv, requestVars
<1>2. Handling'
  BY DEF RequestInv, requestVars, vars, rowVars, Handling, Inline!TypeOK,
         Inline!TicketStatus, NotYetCalled, Copy, Count, FailedIsAudited,
         Inline!FailedIsAudited, AnsweredIsSettled, Inline!AnsweredIsSettled,
         RetriesAreCalls
<1> QED
  BY <1>1, <1>2 DEF RequestInv

(* The client's invariant is kept by its steps and untouched by the others'. *)
THEOREM RequestInvariance == RequestSpec => []RequestInv
<1>1. RequestInv /\ [RequestNext]_requestVars => RequestInv'
  <2> SUFFICES ASSUME RequestInv, [RequestNext]_requestVars PROVE RequestInv'
    OBVIOUS
  <2>1. CASE AwaitProvider
    BY <2>1, NextInv, AwaitInv DEF RequestInv, AwaitProvider
  <2>2. CASE HandlerStep /\ UNCHANGED <<vars, credential>>
    <3>1. Inv'
      BY <2>2, NextInv DEF RequestInv
    <3> QED
      BY <2>2, <3>1, HandlerInv DEF RequestInv
  <2>3. CASE DiesCommitted /\ UNCHANGED <<vars, credential>>
    <3>1. Inv'
      BY <2>3, NextInv DEF RequestInv
    <3> QED
      BY <2>3, <3>1, DiesCommittedInv DEF RequestInv
  <2>4. CASE OthersStep /\ UNCHANGED <<vars, credential>>
    <3>1. Inv'
      BY <2>4, NextInv DEF RequestInv
    <3> QED
      BY <2>4, <3>1, OthersInv DEF RequestInv
  <2>5. CASE UNCHANGED requestVars
    BY <2>5, StutterInv
  <2> QED
    BY <2>1, <2>2, <2>3, <2>4, <2>5 DEF RequestNext
<1> QED
  BY RequestInitInv, <1>1, PTL DEF RequestSpec

(* The row, the session's copy and retry_count keep their types. *)
THEOREM RequestTypeCorrectness == RequestSpec => []RequestTypeOK
<1>1. RequestInv => RequestTypeOK
  BY DEF RequestInv, Inv, Handling, Count, RequestTypeOK
<1> QED
  BY <1>1, RequestInvariance, PTL

(* A ticket that its own request has failed has its dead-letter row. *)
THEOREM InlineFailuresAreAudited == RequestSpec => []FailedIsAudited
<1>1. RequestInv => FailedIsAudited
  BY DEF RequestInv, Handling
<1> QED
  BY <1>1, RequestInvariance, PTL

(* A request that has answered has left its ticket settled. *)
THEOREM AnswersAreSettled == RequestSpec => []AnsweredIsSettled
<1>1. RequestInv => AnsweredIsSettled
  BY DEF RequestInv, Handling
<1> QED
  BY <1>1, RequestInvariance, PTL

(* The retry_count of a settled ticket is what the provider was really asked. *)
THEOREM RetryCountsAreCalls == RequestSpec => []RetriesAreCalls
<1>1. RequestInv => RetriesAreCalls
  BY DEF RequestInv, Handling
<1> QED
  BY <1>1, RequestInvariance, PTL

(* What is proved of the provider's client holds for the one the handler    *)
(* drives: it is called once it is waited for and not after its answer.     *)
THEOREM ClientKeepsItsPromises ==
  RequestSpec => [](AttemptsAreCalls /\ IndependentBudgets /\ WithinVisibility)
<1>1. Inv => AttemptsAreCalls /\ IndependentBudgets
  BY SettingsAssumption DEF Inv, TypeOK, Position, IndependentBudgets, Outcomes
<1>2. RequestInv => AttemptsAreCalls /\ IndependentBudgets /\ WithinVisibility
  BY <1>1, FitsVisibility DEF RequestInv
<1> QED
  BY <1>2, RequestInvariance, PTL

(***************************************************************************)
(* The handler's copy and the life of the row                              *)
(***************************************************************************)

(* The row is there once its request has begun; and it is what the session's *)
(* copy says while the handler may still write it, unless an agent has set   *)
(* its status meanwhile.                                                     *)
CopyIsRow ==
  /\ handler[Ticket] = "idle" => status[Ticket] = "absent"
  /\ handler[Ticket] \in {"created", "classifying", "failing"} =>
       /\ status[Ticket] # "absent"
       /\ seen[Ticket] = status[Ticket] \/ "overridden" \in incidents[Ticket]

(* The places of the handler, for the two proofs that follow.               *)
LEMMA NextCopyIsRow ==
  RequestInv /\ CopyIsRow /\ [RequestNext]_requestVars => CopyIsRow'
<1> SUFFICES ASSUME RequestInv, CopyIsRow, [RequestNext]_requestVars
             PROVE  CopyIsRow'
  OBVIOUS
<1> USE DEF RequestInv, Handling, Inline!TypeOK, Inline!TicketStatus, CopyIsRow,
            Inline!Goto, Inline!WriteStatus, Inline!Note
<1>1. CASE AwaitProvider \/ UNCHANGED requestVars
  BY <1>1 DEF AwaitProvider, requestVars, rowVars
<1>2. CASE HandlerStep
  <2>1. CASE \E v \in Verdicts : SaveResult(v)
    BY <2>1 DEF SaveResult, Inline!SaveResult, Inline!SaveRow
  <2>2. CASE ClassifyFails
    BY <2>2 DEF ClassifyFails, Inline!ClassifyFails
  <2>3. CASE CheckoutFails
    BY <2>3 DEF CheckoutFails, Inline!CheckoutFails
  <2>4. CASE RecordFailure
    BY <2>4 DEF RecordFailure, Inline!RecordFailure, Inline!FailRow
  <2>5. CASE Inline!Claim(Ticket)
    BY <2>5 DEF Inline!Claim, Inline!ClaimRow
  <2> QED
    BY <1>2, <2>1, <2>2, <2>3, <2>4, <2>5 DEF HandlerStep
<1>3. CASE DiesCommitted
  BY <1>3 DEF DiesCommitted, Inline!DiesCommitted
<1>4. CASE OthersStep
  <2>1. CASE Inline!Create(Ticket)
    BY <2>1 DEF Inline!Create
  <2>2. CASE Inline!RequestDies(Ticket)
    BY <2>2 DEF Inline!RequestDies
  <2>3. CASE Inline!AcceptBatch({Ticket})
    BY <2>3 DEF Inline!AcceptBatch
  <2>4. CASE Inline!AgentStep(Ticket)
    BY <2>4 DEF Inline!AgentStep, Inline!UpdateStatus,
                Inline!CorrectClassification
  <2> QED
    BY <1>4, <2>1, <2>2, <2>3, <2>4 DEF OthersStep
<1> QED
  BY <1>1, <1>2, <1>3, <1>4 DEF RequestNext

LEMMA CopyIsRowAlways == RequestSpec => [](RequestInv /\ CopyIsRow)
<1>1. RequestInit => CopyIsRow
  BY DEF RequestInit, Inline!Init, CopyIsRow
<1> QED
  BY <1>1, NextCopyIsRow, RequestInvariance, PTL DEF RequestSpec

(* A completed row that no agent has touched is safe from its handler.      *)
THEOREM CompleteRowsStay == RequestSpec => CompleteStaysUnlessOverridden
<1>1. ASSUME RequestInv, CopyIsRow, [RequestNext]_requestVars,
             NEW t \in {Ticket}, status[t] = "complete",
             handler'[t] # handler[t]
      PROVE  \/ status'[t] = "complete" /\ verdict'[t] = verdict[t]
             \/ "overridden" \in incidents[t]
  <2> USE <1>1 DEF RequestInv, Handling, Inline!TypeOK, Inline!TicketStatus,
                   Copy, CopyIsRow, Inline!Goto, Inline!WriteStatus, Inline!Note
  <2>1. CASE AwaitProvider \/ UNCHANGED requestVars
    BY <2>1 DEF AwaitProvider, requestVars, rowVars
  <2>2. CASE HandlerStep
    BY <2>2 DEF HandlerStep, SaveResult, Inline!SaveResult, Inline!SaveRow,
                ClassifyFails, Inline!ClassifyFails, CheckoutFails,
                Inline!CheckoutFails, RecordFailure, Inline!RecordFailure,
                Inline!FailRow, Inline!Claim, Inline!ClaimRow
  <2>3. CASE DiesCommitted
    BY <2>3 DEF DiesCommitted, Inline!DiesCommitted, Inline!SaveRow,
                Inline!FailRow, Inline!ClaimRow
  <2>4. CASE OthersStep
    BY <2>4 DEF OthersStep, Inline!Create, Inline!RequestDies,
                Inline!AcceptBatch, Inline!AgentStep, Inline!UpdateStatus,
                Inline!CorrectClassification
  <2> QED
    BY <2>1, <2>2, <2>3, <2>4 DEF RequestNext
<1>2. RequestInv /\ CopyIsRow /\ [RequestNext]_requestVars
        => [\A t \in {Ticket} :
              status[t] = "complete" /\ handler'[t] # handler[t] =>
                \/ status'[t] = "complete" /\ verdict'[t] = verdict[t]
                \/ "overridden" \in incidents[t]]_(Inline!vars)
  BY <1>1
<1> QED
  BY <1>2, CopyIsRowAlways, PTL
     DEF RequestSpec, CompleteStaysUnlessOverridden,
         Inline!CompleteStaysUnlessOverridden

(***************************************************************************)
(* The inline mode as a TicketLifecycle                                    *)
(***************************************************************************)
Lifecycle == INSTANCE TicketLifecycle WITH Tickets <- {Ticket}

(* The one step a TicketLifecycle has not: the handler writes, on the       *)
(* strength of its copy, over what an agent has completed.                  *)
WritesOverAgent ==
  /\ status[Ticket] = "complete" /\ "overridden" \in incidents[Ticket]
  /\ handler'[Ticket] # handler[Ticket]

LifecycleUnlessOverridden ==
  /\ Lifecycle!Init
  /\ [][Lifecycle!Next \/ WritesOverAgent]_(Lifecycle!lvars)

(* A write of the handler, whatever its copy says, is a step of the         *)
(* lifecycle or writes over an agent.                                       *)
LEMMA WritesRefine ==
  ASSUME RequestInv, CopyIsRow, handler'[Ticket] # handler[Ticket]
  PROVE  /\ Inline!ClaimRow(Ticket) => Lifecycle!Next \/ WritesOverAgent
         /\ \A v \in Verdicts :
              Inline!SaveRow(Ticket, v) => Lifecycle!Next \/ WritesOverAgent
         /\ Inline!FailRow(Ticket) =>
              Lifecycle!Next \/ WritesOverAgent \/ UNCHANGED Lifecycle!lvars
<1> USE DEF RequestInv, Handling, Inline!TypeOK, Inline!TicketStatus, CopyIsRow,
            Inline!WriteStatus
<1>1. ASSUME handler[Ticket] \in {"created", "classifying", "failing"},
             seen[Ticket] # "complete"
      PROVE  Lifecycle!Claimable(Ticket) \/ WritesOverAgent
  BY <1>1 DEF Lifecycle!Claimable, Lifecycle!TicketStatus, WritesOverAgent
<1>2. ASSUME Inline!ClaimRow(Ticket) PROVE Lifecycle!Next \/ WritesOverAgent
  <2>1. Lifecycle!Claimable(Ticket) => Lifecycle!Claim(Ticket)
    BY <1>2 DEF Inline!ClaimRow, Lifecycle!Claim
  <2>2. Lifecycle!Claimable(Ticket) \/ WritesOverAgent
    BY <1>1, <1>2 DEF Inline!ClaimRow
  <2> QED
    BY <2>1, <2>2 DEF Lifecycle!Next
<1>3. ASSUME NEW v \in Verdicts, Inline!SaveRow(Ticket, v)
      PROVE  Lifecycle!Next \/ WritesOverAgent
  <2>1. Lifecycle!Claimable(Ticket) => Lifecycle!Complete(Ticket, v)
    BY <1>3 DEF Inline!SaveRow, Lifecycle!Complete
  <2>2. Lifecycle!Claimable(Ticket) \/ WritesOverAgent
    BY <1>1, <1>3 DEF Inline!SaveRow
  <2> QED
    BY <2>1, <2>2 DEF Lifecycle!Next
<1>4. ASSUME Inline!FailRow(Ticket)
      PROVE  Lifecycle!Next \/ WritesOverAgent \/ UNCHANGED Lifecycle!lvars
  <2>1. CASE seen[Ticket] = "complete"
    BY <1>4, <2>1 DEF Inline!FailRow, Lifecycle!lvars
  <2>2. CASE seen[Ticket] # "complete"
    <3>1. Lifecycle!Claimable(Ticket) => Lifecycle!Fail(Ticket)
      BY <1>4, <2>2 DEF Inline!FailRow, Lifecycle!Fail
    <3>2. Lifecycle!Claimable(Ticket) \/ WritesOverAgent
      BY <1>1, <1>4, <2>2 DEF Inline!FailRow
    <3> QED
      BY <3>1, <3>2 DEF Lifecycle!Next
  <2> QED
    BY <2>1, <2>2
<1> QED
  BY <1>2, <1>3, <1>4

(* The handler goes on only through its writes, and where it writes nothing *)
(* the row stays.                                                           *)
LEMMA HandlerRefines ==
  ASSUME RequestInv, CopyIsRow, HandlerStep \/ DiesCommitted
  PROVE  \/ Lifecycle!Next
         \/ WritesOverAgent
         \/ UNCHANGED Lifecycle!lvars
<1> USE DEF RequestInv, Handling, Inline!TypeOK, Inline!Goto
<1>1. CASE ClassifyFails \/ CheckoutFails
  BY <1>1 DEF ClassifyFails, Inline!ClassifyFails, CheckoutFails,
              Inline!CheckoutFails, Lifecycle!lvars
<1>2. ASSUME NEW v \in Verdicts, SaveResult(v)
      PROVE  Lifecycle!Next \/ WritesOverAgent
  <2>1. Inline!SaveRow(Ticket, v) /\ handler'[Ticket] # handler[Ticket]
    BY <1>2 DEF SaveResult, Inline!SaveResult, Inline!SaveRow
  <2> QED
    BY <2>1, WritesRefine
<1>3. CASE RecordFailure
  <2>1. Inline!FailRow(Ticket) /\ handler'[Ticket] # handler[Ticket]
    BY <1>3 DEF RecordFailure, Inline!RecordFailure, Inline!FailRow
  <2> QED
    BY <2>1, WritesRefine
<1>4. CASE Inline!Claim(Ticket)
  <2>1. Inline!ClaimRow(Ticket) /\ handler'[Ticket] # handler[Ticket]
    BY <1>4 DEF Inline!Claim, Inline!ClaimRow
  <2> QED
    BY <2>1, WritesRefine
<1>5. CASE DiesCommitted
  <2>1. handler'[Ticket] # handler[Ticket]
    BY <1>5 DEF DiesCommitted, Inline!DiesCommitted, Inline!ClaimRow,
                Inline!SaveRow, Inline!FailRow
  <2> QED
    BY <1>5, <2>1, WritesRefine DEF DiesCommitted, Inline!DiesCommitted
<1> QED
  BY <1>1, <1>2, <1>3, <1>4, <1>5 DEF HandlerStep

(* Creation, agents and the end of the process are all the lifecycle's.     *)
LEMMA OthersRefine ==
  ASSUME RequestInv, CopyIsRow, OthersStep
  PROVE  Lifecycle!Next \/ UNCHANGED Lifecycle!lvars
<1> USE DEF RequestInv, Handling, Inline!TypeOK, Inline!TicketStatus, CopyIsRow,
            Inline!Goto, Inline!WriteStatus, Inline!Note
<1>1. ASSUME Inline!Create(Ticket) \/ Inline!AcceptBatch({Ticket})
      PROVE  Lifecycle!Next
  <2>1. Lifecycle!Open({Ticket})
    BY <1>1 DEF Inline!Create, Inline!AcceptBatch, Lifecycle!Open
  <2> QED
    BY <2>1 DEF Lifecycle!Next
<1>2. CASE Inline!RequestDies(Ticket)
  BY <1>2 DEF Inline!RequestDies, Lifecycle!lvars
<1>3. ASSUME NEW s \in Inline!TicketStatus, Inline!UpdateStatus(Ticket, s)
      PROVE  Lifecycle!Next
  <2>1. Lifecycle!AgentSetStatus(Ticket, s) /\ s \in Lifecycle!TicketStatus
    BY <1>3 DEF Inline!UpdateStatus, Lifecycle!AgentSetStatus,
                Lifecycle!TicketStatus
  <2> QED
    BY <2>1 DEF Lifecycle!Next
<1>4. ASSUME NEW v \in Verdicts, Inline!CorrectClassification(Ticket, v)
      PROVE  Lifecycle!Next
  <2>1. Lifecycle!AgentCorrect(Ticket, v)
    BY <1>4 DEF Inline!CorrectClassification, Lifecycle!AgentCorrect
  <2> QED
    BY <2>1 DEF Lifecycle!Next
<1> QED
  BY <1>1, <1>2, <1>3, <1>4 DEF OthersStep, Inline!AgentStep

(* The inline mode keeps every promise of TicketLifecycle but one: where an *)
(* agent has completed a ticket its handler is still working on, the handler *)
(* may write over it.  With the workers, which lock and read the row again,  *)
(* there is no such exception: see PipelineImplementsLifecycle.              *)
THEOREM InlineImplementsLifecycleUnlessOverridden ==
  RequestSpec => LifecycleUnlessOverridden
<1>1. RequestInit => Lifecycle!Init
  BY DEF RequestInit, Inline!Init, Lifecycle!Init
<1>2. RequestInv /\ CopyIsRow /\ [RequestNext]_requestVars
        => [Lifecycle!Next \/ WritesOverAgent]_(Lifecycle!lvars)
  <2>1. AwaitProvider \/ UNCHANGED requestVars => UNCHANGED Lifecycle!lvars
    BY DEF AwaitProvider, requestVars, rowVars, Lifecycle!lvars
  <2> QED
    BY <2>1, HandlerRefines, OthersRefine DEF RequestNext
<1> QED
  BY <1>1, <1>2, CopyIsRowAlways, PTL DEF RequestSpec, LifecycleUnlessOverridden

=============================================================================
