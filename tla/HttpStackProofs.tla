-------------------------- MODULE HttpStackProofs --------------------------
(***************************************************************************)
(* Proofs about RateLimit and HttpStack for any client, limit and window,  *)
(* and however late a transaction is.                                      *)
(***************************************************************************)
EXTENDS HttpStack, FiniteSetTheorems, TLAPS

(***************************************************************************)
(* Windows and the requests charged to them                                *)
(***************************************************************************)

(* A moment lies in its window. *)
LEMMA WindowBounds ==
  ASSUME NEW t \in Nat
  PROVE  /\ WindowOf(t) \in Nat
         /\ WindowOf(t) * Window <= t
         /\ t < (WindowOf(t) + 1) * Window
BY LimitAssumption DEF WindowOf

(* Windows are numbered in the order of time. *)
LEMMA WindowsAreOrdered ==
  ASSUME NEW t \in 0 .. MaxTime
  PROVE  WindowOf(t) \in Windows
BY LimitAssumption, TimeAssumption DEF WindowOf, Windows

(* The number of requests charged to a window is at most that of requests. *)
LEMMA ChargedToFacts ==
  ASSUME NEW w
  PROVE  /\ IsFiniteSet(ChargedTo(w))
         /\ Cardinality(ChargedTo(w)) \in Nat
         /\ Cardinality(ChargedTo(w)) <= Cardinality(Requests)
         /\ Cardinality(Requests) \in Nat
<1>1. ChargedTo(w) \in SUBSET Requests
  BY DEF ChargedTo
<1> QED
  BY <1>1, FiniteAssumption, FS_Subset, FS_CardinalityType

(* Nothing is charged: only the stamp of an uncharged request may change. *)
LEMMA NoCharge ==
  ASSUME UNCHANGED charged,
         \A r \in Requests : charged[r] => arrived'[r] = arrived[r],
         NEW w
  PROVE  ChargedTo(w)' = ChargedTo(w)
BY DEF ChargedTo, WindowOf

(* One request more is charged, and to its own window. *)
LEMMA OneCharge ==
  ASSUME TypeOK, NEW r \in Requests, ~charged[r], NEW w,
         charged' = [charged EXCEPT ![r] = TRUE], UNCHANGED arrived
  PROVE  Cardinality(ChargedTo(w))' = IF w = KeyOf(r)
                                        THEN Cardinality(ChargedTo(w)) + 1
                                        ELSE Cardinality(ChargedTo(w))
<1>1. CASE w = KeyOf(r)
  <2>1. ChargedTo(w)' = ChargedTo(w) \cup {r}
    BY <1>1 DEF TypeOK, ChargedTo, KeyOf, WindowOf
  <2>2. r \notin ChargedTo(w)
    BY DEF ChargedTo
  <2> QED
    BY <1>1, <2>1, <2>2, ChargedToFacts, FS_AddElement
<1>2. CASE w # KeyOf(r)
  <2>1. ChargedTo(w)' = ChargedTo(w)
    BY <1>2 DEF TypeOK, ChargedTo, KeyOf, WindowOf
  <2> QED
    BY <1>2, <2>1
<1> QED
  BY <1>1, <1>2

(***************************************************************************)
(* The limiter                                                             *)
(***************************************************************************)

(* A request is stamped before it is charged, and charged in time. *)
Stamps ==
  \A r \in Requests :
    /\ arrived[r] <= now
    /\ pc[r] = "stamped" => now <= arrived[r] + MaxLate
    /\ charged[r] => pc[r] \notin {"idle", "stamped"}

(* A counter has its key, which outlives the window by a second at least. *)
Keys ==
  \A w \in Windows :
    /\ counter[w] > 0 => expiry[w] # Never
    /\ expiry[w] # Never => /\ now < expiry[w]
                            /\ expiry[w] <= now + Window + 1
                            /\ (w + 1) * Window < expiry[w]

(* No counter runs ahead of the requests that were charged. *)
Counts == \A w \in Windows : counter[w] <= Cardinality(ChargedTo(w))

LimiterInv == TypeOK /\ Stamps /\ Keys /\ Counts

(* Nothing has been stamped, charged or stored yet. *)
LEMMA InitLimiterInv == Init => LimiterInv
<1> SUFFICES ASSUME Init PROVE LimiterInv
  OBVIOUS
<1>1. Cardinality(Requests) \in Nat
  BY ChargedToFacts
<1>2. TypeOK
  BY <1>1, LimitAssumption, TimeAssumption DEF Init, TypeOK
<1>3. Stamps /\ Keys
  BY TimeAssumption DEF Init, Stamps, Keys
<1>4. Counts
  BY ChargedToFacts DEF Init, Counts
<1> QED
  BY <1>2, <1>3, <1>4 DEF LimiterInv

(* The clock: a key is dropped with its counter. *)
LEMMA TickInv ==
  ASSUME LimiterInv, Tick
  PROVE  LimiterInv'
<1> USE LimitAssumption, TimeAssumption, NeverAssumption
    DEF LimiterInv
<1>1. TypeOK'
  <2>1. now' \in 0 .. MaxTime
    BY DEF Tick, TypeOK
  <2>2. counter' \in [Windows -> 0 .. Cardinality(Requests)]
    BY ChargedToFacts DEF Tick, TypeOK
  <2>3. expiry' \in [Windows -> 0 .. MaxTime + Window + 1 \cup {Never}]
    BY DEF Tick, TypeOK
  <2> QED
    BY <2>1, <2>2, <2>3 DEF Tick, TypeOK
<1>2. Stamps'
  BY DEF Tick, TypeOK, Stamps
<1>3. Keys'
  BY DEF Tick, TypeOK, Keys
<1>4. Counts'
  <2> SUFFICES ASSUME NEW w \in Windows
               PROVE  counter'[w] <= Cardinality(ChargedTo(w)')
    BY DEF Counts
  <2>1. ChargedTo(w)' = ChargedTo(w)
    BY NoCharge DEF Tick
  <2>2. counter'[w] = 0 \/ counter'[w] = counter[w]
    BY DEF Tick
  <2> QED
    BY <2>1, <2>2, ChargedToFacts DEF Counts
<1> QED
  BY <1>1, <1>2, <1>3, <1>4

(* The transaction dates the key from now on, which is in the window of the *)
(* request or after it.                                                     *)
LEMMA TransactionInv ==
  ASSUME LimiterInv, NEW r \in Requests, pc[r] = "stamped", Transaction(r),
         NEW a \in Answers, Answer(r, a)
  PROVE  LimiterInv'
<1> USE LimitAssumption, TimeAssumption, NeverAssumption
    DEF LimiterInv, Answer
<1>1. ~charged[r]
  BY DEF Stamps
<1>2. /\ KeyOf(r) \in Windows /\ KeyOf(r) \in Nat
      /\ KeyOf(r) * Window <= now
  BY WindowBounds, WindowsAreOrdered DEF KeyOf, TypeOK, Stamps
<1>3. ASSUME NEW w \in Windows
      PROVE  counter'[w] <= Cardinality(ChargedTo(w))'
  <2>1. Cardinality(ChargedTo(w))' = IF w = KeyOf(r)
                                       THEN Cardinality(ChargedTo(w)) + 1
                                       ELSE Cardinality(ChargedTo(w))
    BY <1>1, OneCharge DEF Transaction
  <2>2. counter'[w] = IF w = KeyOf(r) THEN counter[w] + 1 ELSE counter[w]
    BY DEF Transaction, TypeOK
  <2>3. counter[w] <= Cardinality(ChargedTo(w)) /\ counter[w] \in Int
    BY DEF Counts, TypeOK
  <2> QED
    BY <2>1, <2>2, <2>3, ChargedToFacts
<1>4. TypeOK'
  <2>1. counter' \in [Windows -> 0 .. Cardinality(Requests)]
    <3>1. counter' \in [Windows -> Nat]
      BY <1>2, ChargedToFacts DEF Transaction, TypeOK
    <3>2. ASSUME NEW w \in Windows
          PROVE  Cardinality(ChargedTo(w)') <= Cardinality(Requests)
                 /\ Cardinality(ChargedTo(w)') \in Nat
      <4>1. ChargedTo(w)' \in SUBSET Requests
        BY DEF ChargedTo
      <4> QED
        BY <4>1, FiniteAssumption, FS_Subset, FS_CardinalityType
    <3>3. \A w \in Windows : counter'[w] \in 0 .. Cardinality(Requests)
      <4> TAKE w \in Windows
      <4>1. counter'[w] \in Nat
        BY <3>1
      <4>2. counter'[w] <= Cardinality(ChargedTo(w)')
        BY <1>3
      <4> QED
        BY <3>2, <4>1, <4>2, ChargedToFacts
    <3> QED
      BY <3>1, <3>3
  <2>2. expiry' \in [Windows -> 0 .. MaxTime + Window + 1 \cup {Never}]
    <3>1. now + Window + 1 \in 0 .. MaxTime + Window + 1
      BY DEF TypeOK
    <3> QED
      BY <3>1 DEF Transaction, TypeOK
  <2> QED
    BY <2>1, <2>2 DEF Transaction, TypeOK
<1>5. Stamps'
  BY DEF Transaction, TypeOK, Stamps, Answers
<1>6. Keys'
  <2> SUFFICES ASSUME NEW w \in Windows
               PROVE  /\ counter'[w] > 0 => expiry'[w] # Never
                      /\ expiry'[w] # Never =>
                           /\ now < expiry'[w]
                           /\ expiry'[w] <= now + Window + 1
                           /\ (w + 1) * Window < expiry'[w]
    <3>1. now' = now
      BY DEF Answer
    <3> QED
      BY <3>1 DEF Keys
  <2>1. CASE w = KeyOf(r)
    <3>1. expiry'[w] = now + Window + 1 /\ now \in Nat
      BY <2>1 DEF Transaction, TypeOK
    <3>2. (w + 1) * Window = w * Window + Window /\ w * Window \in Nat
      BY <1>2, <2>1
    <3> QED
      BY <1>2, <2>1, <3>1, <3>2
  <2>2. CASE w # KeyOf(r)
    BY <2>2 DEF Transaction, TypeOK, Keys
  <2> QED
    BY <2>1, <2>2
<1>7. Counts'
  BY <1>3 DEF Counts
<1> QED
  BY <1>4, <1>5, <1>6, <1>7

(* A request that Redis does not hear of. *)
LEMMA UntouchedInv ==
  ASSUME LimiterInv, NEW r \in Requests,
         Bypass(r) \/ Arrive(r) \/ Unavailable(r)
  PROVE  LimiterInv'
<1> USE TimeAssumption DEF LimiterInv
<1>1. /\ UNCHANGED <<now, failOpen, counter, expiry, charged>>
      /\ \A s \in Requests : charged[s] => arrived'[s] = arrived[s]
  BY DEF Bypass, Arrive, Unavailable, AnswerUnavailable, Answer, Stamps, TypeOK
<1>2. TypeOK'
  BY <1>1 DEF Bypass, Arrive, Unavailable, AnswerUnavailable, Answer, TypeOK,
              Answers
<1>3. Stamps'
  BY <1>1 DEF Bypass, Arrive, Unavailable, AnswerUnavailable, Answer, TypeOK,
              Stamps
<1>4. Keys'
  BY <1>1 DEF Keys
<1>5. Counts'
  BY <1>1, NoCharge DEF Counts
<1> QED
  BY <1>2, <1>3, <1>4, <1>5

(* Every step of the limiter. *)
LEMMA NextLimiterInv == LimiterInv /\ [Next]_vars => LimiterInv'
<1> SUFFICES ASSUME LimiterInv, [Next]_vars PROVE LimiterInv'
  OBVIOUS
<1>1. CASE Tick
  BY <1>1, TickInv
<1>2. ASSUME NEW r \in Requests, Bypass(r) \/ Arrive(r) \/ Unavailable(r)
      PROVE  LimiterInv'
  BY <1>2, UntouchedInv
<1>3. ASSUME NEW r \in Requests, Charge(r) PROVE LimiterInv'
  BY <1>3, TransactionInv DEF Charge, Answers
<1>4. ASSUME NEW r \in Requests, ReplyLost(r) PROVE LimiterInv'
  BY <1>4, TransactionInv DEF ReplyLost, AnswerUnavailable, Answers
<1>5. CASE UNCHANGED vars
  <2>1. \A w : ChargedTo(w)' = ChargedTo(w)
    BY <1>5, NoCharge DEF vars
  <2> QED
    BY <1>5, <2>1 DEF vars, LimiterInv, TypeOK, Stamps, Keys, Counts
<1> QED
  BY <1>1, <1>2, <1>3, <1>4, <1>5 DEF Next

(***************************************************************************)
(* The limiter, for each of the runs' properties about it                  *)
(***************************************************************************)

(* The limiter's invariant holds in every behaviour of its own.             *)
THEOREM LimiterInvariance == Spec => []LimiterInv
BY InitLimiterInv, NextLimiterInv, PTL DEF Spec

(* What the counters' keys promise: see CountersExpire.                     *)
LEMMA KeysExpire == LimiterInv => CountersExpire
BY NeverAssumption DEF LimiterInv, Keys, CountersExpire, TypeOK

(***************************************************************************)
(* The stack: the handler runs behind the limiter                          *)
(***************************************************************************)

(* A handler has run once if it has ended, and never before.                *)
HandlerInv ==
  \A r \in Requests :
    /\ outcome[r] = "none" => runs[r] = 0
    /\ outcome[r] # "none" => runs[r] = 1 /\ pc[r] \in Passed

StackInv == LimiterInv /\ StackTypeOK /\ HandlerInv

(* No handler has run in an initial state.                                  *)
LEMMA InitStackInv == StackInit => StackInv
BY InitLimiterInv
   DEF StackInit, StackInv, LimiterInv, StackTypeOK, HandlerInv

(* The limiter's answer is its last word on a request.                      *)
LEMMA AnswersStay ==
  ASSUME TypeOK, [Next]_vars, NEW r \in Requests, pc[r] \in Answers
  PROVE  pc'[r] = pc[r]
<1>1. pc[r] \notin {"idle", "stamped"}
  BY DEF Answers
<1> QED
  BY <1>1 DEF Next, vars, Tick, Bypass, Arrive, Charge, ReplyLost, Unavailable,
              AnswerUnavailable, Answer, TypeOK

(* Every step of the stack.                                                 *)
LEMMA NextStackInv == StackInv /\ [StackNext]_stackVars => StackInv'
<1> SUFFICES ASSUME StackInv, [StackNext]_stackVars PROVE StackInv'
  OBVIOUS
<1> USE DEF StackInv
<1>1. CASE [Next]_vars /\ UNCHANGED <<outcome, runs>>
  <2>1. LimiterInv'
    BY <1>1, NextLimiterInv
  <2>2. StackTypeOK'
    BY <1>1, <2>1 DEF StackTypeOK, LimiterInv
  <2>3. HandlerInv'
    <3> SUFFICES ASSUME NEW r \in Requests, outcome[r] # "none"
                 PROVE  pc'[r] \in Passed
      BY <1>1 DEF HandlerInv
    <3> QED
      BY <1>1, AnswersStay DEF HandlerInv, Passed, StackTypeOK
  <2> QED
    BY <2>1, <2>2, <2>3
<1>2. ASSUME NEW r \in Requests, NEW o \in Outcomes, Handle(r, o)
      PROVE  StackInv'
  <2>1. LimiterInv'
    BY <1>2, NextLimiterInv DEF Handle
  <2>2. StackTypeOK'
    BY <1>2, <2>1 DEF StackTypeOK, LimiterInv, Handle
  <2>3. HandlerInv'
    BY <1>2 DEF HandlerInv, StackTypeOK, Handle, vars, Outcomes
  <2> QED
    BY <2>1, <2>2, <2>3
<1> QED
  BY <1>1, <1>2 DEF StackNext, stackVars

(* The stack's invariant holds in every behaviour.                          *)
THEOREM StackInvariance == StackSpec => []StackInv
BY InitStackInv, NextStackInv, PTL DEF StackSpec

(* Every variable of the stack has its type.                                *)
THEOREM StackTypes == StackSpec => []StackTypeOK
<1>1. StackInv => StackTypeOK
  BY DEF StackInv
<1> QED
  BY <1>1, StackInvariance, PTL

(* However late the transactions are and whatever becomes of their replies, *)
(* no counter is left in Redis without an expiry to come.                   *)
THEOREM EveryCounterExpires == StackSpec => []CountersExpire
<1>1. StackInv => CountersExpire
  BY KeysExpire DEF StackInv
<1> QED
  BY <1>1, StackInvariance, PTL

(* A handler runs once for a request that is let through, and never for one *)
(* that is refused.                                                         *)
THEOREM HandlersRunOnce == StackSpec => []HandledOnce
<1>1. StackInv => HandledOnce
  BY DEF StackInv, HandlerInv, HandledOnce, Done, Passed, StackTypeOK
<1> QED
  BY <1>1, StackInvariance, PTL

(***************************************************************************)
(* What leaves the five layers                                             *)
(***************************************************************************)

(* A mark is added to every answer that is not an exception.                *)
LEMMA Marked ==
  ASSUME NEW answer, ~answer.raised, NEW mark
  PROVE  /\ ~Mark(answer, mark).raised
         /\ mark \in Mark(answer, mark).marks
         /\ answer.marks \subseteq Mark(answer, mark).marks
BY DEF Mark, Plain

(* The layer that answers for an exception lies inside the two that mark,   *)
(* and outside the limiter, whose refusals are marked as well.              *)
LEMMA WholeResponse ==
  ASSUME NEW r
  PROVE  /\ ~Response(r).raised
         /\ {"request_id", "hardening"} \subseteq Response(r).marks
<1> DEFINE made == IF outcome[r] = "crash" THEN Raised ELSE Plain({})
           inner == Limited(r, Mark(made, "cors"))
<1>1. Response(r) = Hardened(Identified(Sanitized(inner)))
  BY DEF Response, Through, Layers
<1> HIDE DEF inner
<1>2. ~Sanitized(inner).raised
  BY DEF Sanitized, Plain
<1>3. /\ ~Identified(Sanitized(inner)).raised
      /\ "request_id" \in Identified(Sanitized(inner)).marks
  BY <1>2, Marked DEF Identified
<1>4. /\ ~Hardened(Identified(Sanitized(inner))).raised
      /\ "hardening" \in Hardened(Identified(Sanitized(inner))).marks
      /\ "request_id" \in Hardened(Identified(Sanitized(inner))).marks
  BY <1>3, Marked DEF Hardened
<1> QED
  BY <1>1, <1>4

(* Every answer, whoever made it, leaves with its request id and the        *)
(* hardening headers, and no exception leaves.                              *)
THEOREM EveryAnswerIsWhole == StackSpec => []AnswersAreWhole
<1>1. AnswersAreWhole
  BY WholeResponse DEF AnswersAreWhole
<1> QED
  BY <1>1, PTL

(***************************************************************************)
(* Refusals are earned, however late the transactions are                  *)
(***************************************************************************)

(* A 429 is given to a request only if more requests than the limit, itself *)
(* included, have been charged to its window.                               *)
RefusalsAreEarned ==
  \A r \in Requests :
    pc[r] = "rejected" => Cardinality(ChargedTo(KeyOf(r))) > Limit

(* A step stamps only an idle request.                                      *)
LEMMA StampsStay ==
  ASSUME TypeOK, [Next]_vars, NEW r \in Requests, pc[r] # "idle"
  PROVE  arrived'[r] = arrived[r]
BY DEF Next, vars, Tick, Bypass, Arrive, Charge, ReplyLost, Unavailable,
       AnswerUnavailable, Answer, Transaction, TypeOK

(* What is charged stays charged, to the same window.                       *)
LEMMA ChargesStay ==
  ASSUME LimiterInv, [Next]_vars, NEW w
  PROVE  Cardinality(ChargedTo(w)) <= Cardinality(ChargedTo(w))'
<1>1. ASSUME NEW s \in Requests, charged[s]
      PROVE  charged'[s] /\ arrived'[s] = arrived[s]
  <2>1. arrived'[s] = arrived[s]
    BY <1>1, StampsStay DEF LimiterInv, Stamps
  <2>2. charged'[s]
    BY <1>1 DEF Next, vars, Tick, Bypass, Arrive, Charge, ReplyLost,
                Unavailable, AnswerUnavailable, Answer, Transaction,
                LimiterInv, TypeOK
  <2> QED
    BY <2>1, <2>2
<1>2. ChargedTo(w) \subseteq ChargedTo(w)'
  BY <1>1 DEF ChargedTo, WindowOf
<1>3. ChargedTo(w)' \in SUBSET Requests
  BY DEF ChargedTo
<1>4. IsFiniteSet(ChargedTo(w)')
  BY <1>3, FiniteAssumption, FS_Subset
<1> QED
  BY <1>2, <1>4, FS_Subset

(* The counter that refuses is no higher than the charges: Counts.          *)
LEMMA NextEarned ==
  ASSUME LimiterInv, RefusalsAreEarned, [Next]_vars
  PROVE  RefusalsAreEarned'
<1> SUFFICES ASSUME NEW r \in Requests, pc'[r] = "rejected"
             PROVE  Cardinality(ChargedTo(KeyOf(r)))' > Limit
  BY DEF RefusalsAreEarned
<1> USE LimitAssumption DEF LimiterInv
<1>1. CASE pc[r] = "rejected"
  <2>1. KeyOf(r)' = KeyOf(r)
    BY <1>1, StampsStay DEF KeyOf, WindowOf
  <2>2. PICK w : w = KeyOf(r)
    OBVIOUS
  <2>3. Cardinality(ChargedTo(w)) > Limit
    BY <1>1, <2>2 DEF RefusalsAreEarned
  <2>4. Cardinality(ChargedTo(w)) <= Cardinality(ChargedTo(w)')
    BY ChargesStay
  <2>5. ChargedTo(w)' \in SUBSET Requests
    BY DEF ChargedTo
  <2>6. Cardinality(ChargedTo(w)') \in Nat
    BY <2>5, FiniteAssumption, FS_Subset, FS_CardinalityType
  <2>7. ChargedTo(KeyOf(r))' = ChargedTo(w)'
    BY <2>1, <2>2 DEF ChargedTo
  <2> QED
    BY <2>3, <2>4, <2>6, <2>7, ChargedToFacts
<1>2. CASE pc[r] # "rejected"
  <2>1. /\ pc[r] = "stamped" /\ Transaction(r) /\ UNCHANGED arrived
        /\ counter[KeyOf(r)] + 1 > Limit
    BY <1>2 DEF Next, vars, Tick, Bypass, Arrive, Charge, ReplyLost,
                Unavailable, AnswerUnavailable, Answer, TypeOK
  <2>2. PICK w \in Windows : w = KeyOf(r)
    BY WindowsAreOrdered DEF KeyOf, TypeOK
  <2>3. Cardinality(ChargedTo(w))' = Cardinality(ChargedTo(w)) + 1
    BY <2>1, <2>2, OneCharge DEF Transaction, Stamps
  <2>4. /\ counter[w] <= Cardinality(ChargedTo(w))
        /\ counter[w] \in 0 .. Cardinality(Requests)
    BY DEF Counts, TypeOK
  <2>5. ChargedTo(KeyOf(r))' = ChargedTo(w)'
    BY <2>1, <2>2 DEF ChargedTo, KeyOf
  <2> QED
    BY <2>1, <2>2, <2>3, <2>4, <2>5, ChargedToFacts
<1> QED
  BY <1>1, <1>2

(* No request is refused for the sake of another window, of a request that  *)
(* was not charged, or of a counter that should have been dropped.          *)
THEOREM RefusalsEarned == Spec => []RefusalsAreEarned
<1>1. Init => RefusalsAreEarned
  BY DEF Init, RefusalsAreEarned
<1>2. LimiterInv /\ RefusalsAreEarned /\ [Next]_vars => RefusalsAreEarned'
  BY NextEarned
<1> QED
  BY <1>1, <1>2, LimiterInvariance, PTL DEF Spec

(***************************************************************************)
(* The refinement of WindowBudget                                          *)
(***************************************************************************)
Spent == [w \in Windows |-> Cardinality(ChargedTo(w))]

(* The counter is exact until it is dropped, which is later than the first  *)
(* second after the window.                                                 *)
Exact == \A w \in Windows : counter[w] = Cardinality(ChargedTo(w)) \/ w \in Over

(* Charges are counted one by one, and a counter is dropped only once its   *)
(* window has been over for more than a second.                             *)
LEMMA NextExact ==
  ASSUME LimiterInv, Exact, [Next]_vars
  PROVE  Exact'
<1> SUFFICES ASSUME NEW w \in Windows
             PROVE  \/ counter'[w] = Cardinality(ChargedTo(w))'
                    \/ now' > (w + 1) * Window
  BY DEF Exact, Over
<1> USE LimitAssumption, TimeAssumption, NeverAssumption DEF LimiterInv, Over
<1>1. ASSUME NEW r \in Requests, pc[r] = "stamped", Transaction(r),
             UNCHANGED <<now, arrived>>
      PROVE  \/ counter'[w] = Cardinality(ChargedTo(w))'
             \/ now' > (w + 1) * Window
  <2>1. Cardinality(ChargedTo(w))' = IF w = KeyOf(r)
                                       THEN Cardinality(ChargedTo(w)) + 1
                                       ELSE Cardinality(ChargedTo(w))
    BY <1>1, OneCharge DEF Transaction, Stamps
  <2>2. counter'[w] = IF w = KeyOf(r) THEN counter[w] + 1 ELSE counter[w]
    BY <1>1 DEF Transaction, TypeOK
  <2> QED
    BY <1>1, <2>1, <2>2 DEF Exact
<1>2. CASE Tick
  <2>1. ChargedTo(w)' = ChargedTo(w)
    BY <1>2, NoCharge DEF Tick
  <2>2. CASE expiry[w] = now'
    <3>1. now' \in Nat
      BY <1>2 DEF Tick, TypeOK
    <3>2. expiry[w] # Never
      BY <2>2, <3>1
    <3> QED
      BY <2>2, <3>2 DEF Keys
  <2>3. CASE expiry[w] # now'
    <3>1. counter'[w] = counter[w] /\ now' = now + 1 /\ now \in Nat
      BY <1>2, <2>3 DEF Tick, TypeOK
    <3>2. (w + 1) * Window \in Int
      BY DEF Windows
    <3> QED
      BY <2>1, <3>1, <3>2 DEF Exact
  <2> QED
    BY <2>2, <2>3
<1>3. CASE UNCHANGED <<now, counter, charged>>
  <2>1. \A r \in Requests : charged[r] => arrived'[r] = arrived[r]
    BY StampsStay DEF Stamps
  <2>2. ChargedTo(w)' = ChargedTo(w)
    BY <1>3, <2>1, NoCharge
  <2> QED
    BY <1>3, <2>2 DEF Exact
<1>4. ASSUME NEW r \in Requests, Charge(r) \/ ReplyLost(r)
      PROVE  pc[r] = "stamped" /\ Transaction(r) /\ UNCHANGED <<now, arrived>>
  BY <1>4 DEF Charge, ReplyLost, AnswerUnavailable, Answer
<1>5. ASSUME NEW r \in Requests, Bypass(r) \/ Arrive(r) \/ Unavailable(r)
      PROVE  UNCHANGED <<now, counter, charged>>
  BY <1>5 DEF Bypass, Arrive, Unavailable, AnswerUnavailable, Answer
<1> QED
  BY <1>1, <1>2, <1>3, <1>4, <1>5 DEF Next, vars

(* An answer of the limiter is a decision of the budget.                    *)
LEMMA AnswerDecides ==
  ASSUME TypeOK, NEW r \in Requests, pc[r] \in {"idle", "stamped"},
         NEW a \in Answers, pc' = [pc EXCEPT ![r] = a],
         NEW v, v = IF a \in {"admitted", "rejected"} THEN a ELSE "waived",
         UNCHANGED now
  PROVE  Budget!Decide(r, v)
<1>1. Decided[r] = "none"
  BY DEF Decided
<1>2. ASSUME NEW s \in Requests
      PROVE  Decided'[s] = [Decided EXCEPT ![r] = v][s]
  <2>1. CASE s = r
    BY <2>1 DEF Decided, TypeOK, Answers
  <2>2. CASE s # r
    BY <2>2 DEF Decided, TypeOK
  <2> QED
    BY <2>1, <2>2
<1>3. Decided' = [Decided EXCEPT ![r] = v]
  BY <1>2 DEF Decided
<1> QED
  BY <1>1, <1>3 DEF Budget!Decide, Over

(* A transaction spends one unit of the budget of the request's window.     *)
LEMMA TransactionSpends ==
  ASSUME TypeOK, NEW r \in Requests, ~charged[r], Transaction(r),
         UNCHANGED arrived, NEW w \in Windows, w = KeyOf(r)
  PROVE  Spent' = [Spent EXCEPT ![w] = @ + 1]
<1>1. ASSUME NEW x \in Windows
      PROVE  Cardinality(ChargedTo(x))' = IF x = w
                                            THEN Cardinality(ChargedTo(x)) + 1
                                            ELSE Cardinality(ChargedTo(x))
  BY OneCharge DEF Transaction
<1> QED
  BY <1>1 DEF Spent

(* Each step decides as the budget calls for, or changes nothing of it.     *)
LEMMA StepRefines ==
  ASSUME LimiterInv, Exact, [Next]_vars
  PROVE  [Budget!Next]_(Budget!budgetVars)
<1> USE DEF LimiterInv
<1>1. ASSUME NEW r \in Requests, Charge(r) PROVE Budget!Next
  <2>1. PICK w \in Windows : w = KeyOf(r)
    BY WindowsAreOrdered DEF KeyOf, TypeOK
  <2>2. Spent' = [Spent EXCEPT ![w] = @ + 1]
    BY <1>1, <2>1, TransactionSpends DEF Charge, Answer, Stamps
  <2>3. counter[w] <= Spent[w] /\ counter[w] \in Int /\ Spent[w] \in Int
    BY ChargedToFacts DEF Counts, TypeOK, Spent
  <2>4. Spent[w] = counter[w] \/ w \in Over
    BY DEF Exact, Spent
  <2>5. CASE counter[w] + 1 > Limit
    <3>1. Budget!Decide(r, "rejected")
      BY <1>1, <2>1, <2>5, AnswerDecides DEF Charge, Answer, Answers
    <3>2. Budget!Reject(r, w)
      BY <2>2, <2>3, <2>5, <3>1, LimitAssumption
         DEF Budget!Reject, Budget!Spend, Spent
    <3> QED
      BY <3>2 DEF Budget!Next
  <2>6. CASE ~(counter[w] + 1 > Limit)
    <3>1. Budget!Decide(r, "admitted")
      BY <1>1, <2>1, <2>6, AnswerDecides DEF Charge, Answer, Answers
    <3>2. Budget!Admit(r, w)
      BY <2>2, <2>3, <2>4, <2>6, <3>1, LimitAssumption
         DEF Budget!Admit, Budget!Spend, Spent
    <3> QED
      BY <3>2 DEF Budget!Next
  <2> QED
    BY <2>5, <2>6
<1>2. ASSUME NEW r \in Requests, ReplyLost(r) PROVE Budget!Next
  <2>1. PICK w \in Windows : w = KeyOf(r)
    BY WindowsAreOrdered DEF KeyOf, TypeOK
  <2>2. Spent' = [Spent EXCEPT ![w] = @ + 1]
    BY <1>2, <2>1, TransactionSpends
       DEF ReplyLost, AnswerUnavailable, Answer, Stamps
  <2>3. Budget!Decide(r, "waived")
    BY <1>2, AnswerDecides DEF ReplyLost, AnswerUnavailable, Answer, Answers
  <2> QED
    BY <2>2, <2>3 DEF Budget!Next, Budget!ChargeAndWaive, Budget!Spend, Spent
<1>3. \A r \in Requests : charged[r] => arrived'[r] = arrived[r]
  BY StampsStay DEF Stamps
<1>4. UNCHANGED charged => UNCHANGED Spent
  <2> SUFFICES ASSUME UNCHANGED charged PROVE UNCHANGED Spent
    OBVIOUS
  <2>1. \A w \in Windows : ChargedTo(w)' = ChargedTo(w)
    BY <1>3, NoCharge
  <2> QED
    BY <2>1 DEF Spent
<1>5. ASSUME NEW r \in Requests, Unavailable(r) \/ Bypass(r) PROVE Budget!Next
  <2>1. Budget!Decide(r, "waived")
    BY <1>5, AnswerDecides
       DEF Unavailable, Bypass, AnswerUnavailable, Answer, Answers
  <2>2. UNCHANGED Spent
    BY <1>4, <1>5 DEF Unavailable, Bypass
  <2> QED
    BY <2>1, <2>2 DEF Budget!Next, Budget!Waive, Spent
<1>6. ASSUME NEW r \in Requests, Arrive(r) PROVE UNCHANGED Budget!budgetVars
  <2>1. UNCHANGED Decided
    BY <1>6 DEF Arrive, Decided, TypeOK
  <2>2. UNCHANGED Spent
    BY <1>4, <1>6 DEF Arrive
  <2>3. UNCHANGED Over
    BY <1>6 DEF Arrive, Over
  <2> QED
    BY <2>1, <2>2, <2>3 DEF Budget!budgetVars, Spent
<1>7. ASSUME Tick PROVE Budget!Next
  <2>1. UNCHANGED Decided
    BY <1>7 DEF Tick, Decided
  <2>2. UNCHANGED Spent
    BY <1>4, <1>7 DEF Tick
  <2>3. Over' \in SUBSET Windows /\ Over \subseteq Over'
    <3>1. ASSUME NEW w \in Windows PROVE (w + 1) * Window \in Int
      BY LimitAssumption DEF Windows
    <3>2. now \in Nat /\ now' = now + 1
      BY <1>7, TimeAssumption DEF Tick, TypeOK
    <3> QED
      BY <3>1, <3>2 DEF Over
  <2> QED
    BY <2>1, <2>2, <2>3 DEF Budget!Next, Budget!Close, Spent
<1>8. CASE UNCHANGED vars
  <2>1. UNCHANGED Decided /\ UNCHANGED Over
    BY <1>8 DEF vars, Decided, Over
  <2>2. UNCHANGED Spent
    BY <1>4, <1>8 DEF vars
  <2> QED
    BY <2>1, <2>2 DEF Budget!budgetVars, Spent
<1> QED
  BY <1>1, <1>2, <1>5, <1>6, <1>7, <1>8 DEF Next

(* The initial states agree.                                                *)
LEMMA InitRefines == Init => Budget!Init /\ Exact
<1> SUFFICES ASSUME Init PROVE Budget!Init /\ Exact
  OBVIOUS
<1>1. \A w : Cardinality(ChargedTo(w)) = 0
  <2>1. \A w : ChargedTo(w) = {}
    BY DEF Init, ChargedTo
  <2> QED
    BY <2>1, FS_EmptySet
<1>2. Over = {}
  BY LimitAssumption DEF Init, Over, Windows
<1> QED
  BY <1>1, <1>2 DEF Init, Budget!Init, Exact, Decided

(* However late its transactions are, the limiter keeps the budget of each  *)
(* window until a second after the window, and refuses nobody who has not   *)
(* earned it even then.                                                     *)
THEOREM LimiterImplementsBudget == Spec => ImplementsBudget
<1>1. LimiterInv /\ Exact /\ [Next]_vars => Exact'
  BY NextExact
<1>2. LimiterInv /\ Exact /\ [Next]_vars => [Budget!Next]_(Budget!budgetVars)
  BY StepRefines
<1> QED
  BY <1>1, <1>2, InitRefines, LimiterInvariance, PTL
     DEF Spec, ImplementsBudget, Budget!Spec

(* And it still is behind the layers and in front of the handlers, which    *)
(* leave the limiter's state alone.                                         *)
THEOREM StackImplementsBudget == StackSpec => ImplementsBudget
<1>1. StackInit => Init
  BY DEF StackInit
<1>2. [StackNext]_stackVars => [Next]_vars
  BY DEF StackNext, stackVars, Handle
<1>3. StackSpec => Spec
  BY <1>1, <1>2, PTL DEF StackSpec, Spec
<1> QED
  BY <1>3, LimiterImplementsBudget

(***************************************************************************)
(* How much gets in, stragglers included                                   *)
(***************************************************************************)
AdmittedTo(w) == {r \in Requests : pc[r] = "admitted" /\ KeyOf(r) = w}

(* Until a second after its window no more requests are admitted to it than *)
(* the limit; and however long stragglers go on to come, each further       *)
(* Window + 1 seconds let in no more than the limit again.                  *)
OverrunsAreBounded ==
  \A w \in Windows, n \in Nat \ {0} :
    now < w * Window + n * (Window + 1) => Cardinality(AdmittedTo(w)) <= n * Limit

(* k counters of the window have been dropped, each with its own Limit of   *)
(* admissions and at least Window + 1 seconds after it began.               *)
Dropped(w, k) ==
  /\ k > 0 => w * Window + k * (Window + 1) <= now
  /\ expiry[w] # Never => w * Window + (k + 1) * (Window + 1) <= expiry[w]
  /\ Cardinality(AdmittedTo(w)) <= k * Limit + counter[w]
  /\ Cardinality(AdmittedTo(w)) <= (k + 1) * Limit

Drops == \A w \in Windows : \E k \in Nat : Dropped(w, k)

(* One factor more. *)
LEMMA OneMore ==
  ASSUME NEW n \in Nat, NEW c \in Nat
  PROVE  n * c \in Nat /\ (n + 1) * c = n * c + c
OBVIOUS

(* More factors make no less. *)
LEMMA Monotone ==
  ASSUME NEW m \in Nat, NEW n \in Nat, NEW c \in Nat, m <= n
  PROVE  m * c <= n * c
OBVIOUS

(* The admitted requests can be counted. *)
LEMMA AdmittedToFacts ==
  ASSUME NEW w
  PROVE  IsFiniteSet(AdmittedTo(w)) /\ Cardinality(AdmittedTo(w)) \in Nat
<1>1. AdmittedTo(w) \in SUBSET Requests
  BY DEF AdmittedTo
<1> QED
  BY <1>1, FiniteAssumption, FS_Subset, FS_CardinalityType

(* A window admits nobody, or the one request whose count allows for it.    *)
LEMMA OneAdmission ==
  ASSUME LimiterInv, [Next]_vars, NEW w \in Windows
  PROVE  \/ AdmittedTo(w)' = AdmittedTo(w)
         \/ \E r \in Requests :
              /\ Charge(r) /\ w = KeyOf(r) /\ counter[w] + 1 <= Limit
              /\ Cardinality(AdmittedTo(w))' = Cardinality(AdmittedTo(w)) + 1
<1> USE LimitAssumption DEF LimiterInv
<1>1. ASSUME NEW s \in Requests, pc[s] = "admitted"
      PROVE  pc'[s] = "admitted" /\ KeyOf(s)' = KeyOf(s)
  <2>1. pc'[s] = pc[s]
    BY <1>1, AnswersStay DEF Answers
  <2>2. arrived'[s] = arrived[s]
    BY <1>1, StampsStay
  <2> QED
    BY <1>1, <2>1, <2>2 DEF KeyOf, WindowOf
<1>2. CASE \A r \in Requests : pc'[r] = "admitted" => pc[r] = "admitted"
  BY <1>1, <1>2 DEF AdmittedTo
<1>3. ASSUME NEW r \in Requests, pc[r] # "admitted", pc'[r] = "admitted"
      PROVE  \/ AdmittedTo(w)' = AdmittedTo(w)
             \/ /\ Charge(r) /\ w = KeyOf(r) /\ counter[w] + 1 <= Limit
                /\ Cardinality(AdmittedTo(w))' = Cardinality(AdmittedTo(w)) + 1
  <2>1. Charge(r)
    BY <1>3 DEF Next, vars, Tick, Bypass, Arrive, Charge, ReplyLost, Unavailable,
                AnswerUnavailable, Answer, TypeOK
  <2>2. /\ \A s \in Requests \ {r} : pc'[s] = pc[s]
        /\ KeyOf(r)' = KeyOf(r)
    BY <2>1 DEF Charge, Answer, TypeOK, KeyOf, WindowOf
  <2>3. CASE KeyOf(r) # w
    BY <1>1, <1>3, <2>2, <2>3 DEF AdmittedTo
  <2>4. CASE KeyOf(r) = w
    <3>1. AdmittedTo(w)' = AdmittedTo(w) \cup {r} /\ r \notin AdmittedTo(w)
      BY <1>1, <1>3, <2>2, <2>4 DEF AdmittedTo
    <3>2. Cardinality(AdmittedTo(w)') = Cardinality(AdmittedTo(w)) + 1
      BY <3>1, AdmittedToFacts, FS_AddElement
    <3>3. counter[w] \in 0 .. Cardinality(Requests)
      BY DEF TypeOK
    <3>4. counter[w] + 1 <= Limit
      BY <1>3, <2>1, <2>4, <3>3, ChargedToFacts DEF Charge, Answer, TypeOK
    <3> QED
      BY <2>1, <2>4, <3>2, <3>4
  <2> QED
    BY <2>3, <2>4
<1> QED
  BY <1>2, <1>3

(* A transaction of the window: its counter lives another Window + 1 seconds *)
(* and admits while it is below the limit.                                  *)
LEMMA TransactionDropped ==
  ASSUME LimiterInv, [Next]_vars, NEW w \in Windows, NEW k \in Nat, Dropped(w, k),
         NEW r \in Requests, Charge(r) \/ ReplyLost(r), w = KeyOf(r)
  PROVE  Dropped(w, k)'
<1> USE LimitAssumption, TimeAssumption, NeverAssumption DEF LimiterInv
<1>1. /\ counter'[w] = counter[w] + 1 /\ counter[w] \in Nat
      /\ expiry'[w] = now + Window + 1 /\ now' = now /\ now \in Nat
  <2>1. counter[w] \in 0 .. Cardinality(Requests)
    BY DEF TypeOK
  <2> QED
    BY <2>1, ChargedToFacts
       DEF Charge, ReplyLost, AnswerUnavailable, Answer, Transaction, TypeOK
<1>2. w * Window \in Nat /\ w * Window <= now
  <2>1. arrived[r] \in Nat /\ arrived[r] <= now
    BY DEF TypeOK, Stamps
  <2> QED
    BY <1>1, <2>1, WindowBounds DEF KeyOf, Windows
<1>3. /\ k * (Window + 1) \in Nat
      /\ (k + 1) * (Window + 1) = k * (Window + 1) + (Window + 1)
      /\ k * Limit \in Nat /\ (k + 1) * Limit = k * Limit + Limit
  BY OneMore
<1>4. w * Window + (k + 1) * (Window + 1) <= expiry'[w]
  <2>1. CASE k = 0
    BY <1>1, <1>2, <2>1
  <2>2. CASE k > 0
    BY <1>1, <1>2, <1>3, <2>2 DEF Dropped
  <2> QED
    BY <2>1, <2>2
<1>5. \/ AdmittedTo(w)' = AdmittedTo(w)
      \/ /\ counter[w] + 1 <= Limit
         /\ Cardinality(AdmittedTo(w))' = Cardinality(AdmittedTo(w)) + 1
  BY OneAdmission
<1>6. /\ Cardinality(AdmittedTo(w))' <= k * Limit + counter'[w]
      /\ Cardinality(AdmittedTo(w))' <= (k + 1) * Limit
  <2>1. Cardinality(AdmittedTo(w)) \in Nat
    BY AdmittedToFacts
  <2>2. CASE AdmittedTo(w)' = AdmittedTo(w)
    BY <1>1, <1>3, <2>1, <2>2 DEF Dropped
  <2>3. CASE /\ counter[w] + 1 <= Limit
             /\ Cardinality(AdmittedTo(w))' = Cardinality(AdmittedTo(w)) + 1
    BY <1>1, <1>3, <2>1, <2>3 DEF Dropped
  <2> QED
    BY <1>5, <2>2, <2>3
<1> QED
  BY <1>1, <1>4, <1>6 DEF Dropped

(* A tick: a counter that is dropped has lived for its Window + 1 seconds.  *)
LEMMA TickDropped ==
  ASSUME LimiterInv, Tick, NEW w \in Windows, NEW k \in Nat, Dropped(w, k)
  PROVE  Dropped(w, k)' \/ Dropped(w, k + 1)'
<1> USE LimitAssumption, TimeAssumption, NeverAssumption DEF LimiterInv
<1>1. AdmittedTo(w)' = AdmittedTo(w)
  BY DEF Tick, AdmittedTo, KeyOf, WindowOf
<1>2. now' = now + 1 /\ now \in Nat
  BY DEF Tick, TypeOK
<1>3. Cardinality(AdmittedTo(w)) \in Nat
  BY AdmittedToFacts
<1>4. /\ k * (Window + 1) \in Nat
      /\ k * Limit \in Nat /\ (k + 1) * Limit = k * Limit + Limit
      /\ k + 1 \in Nat /\ (k + 1 + 1) * Limit = (k + 1) * Limit + Limit
      /\ w * Window \in Int
  BY OneMore DEF Windows
<1>5. CASE expiry[w] = now'
  <2>1. counter'[w] = 0 /\ expiry'[w] = Never
    BY <1>5 DEF Tick
  <2>2. w * Window + (k + 1) * (Window + 1) <= now'
    BY <1>2, <1>5 DEF Dropped
  <2>3. /\ Cardinality(AdmittedTo(w)) <= (k + 1) * Limit + 0
        /\ Cardinality(AdmittedTo(w)) <= (k + 1 + 1) * Limit
    BY <1>3, <1>4 DEF Dropped
  <2> QED
    BY <1>1, <2>1, <2>2, <2>3 DEF Dropped
<1>6. CASE expiry[w] # now'
  <2>1. counter'[w] = counter[w] /\ expiry'[w] = expiry[w]
    BY <1>6 DEF Tick
  <2> QED
    BY <1>1, <1>2, <1>4, <2>1 DEF Dropped
<1> QED
  BY <1>5, <1>6

(* Every other step leaves the window's counter and its admissions alone.   *)
LEMMA NextDrops == LimiterInv /\ Drops /\ [Next]_vars => Drops'
<1> SUFFICES ASSUME LimiterInv, Drops, [Next]_vars, NEW w \in Windows
             PROVE  \E k \in Nat : Dropped(w, k)'
  BY DEF Drops
<1>1. PICK k \in Nat : Dropped(w, k)
  BY DEF Drops
<1>2. CASE Tick
  <2>1. k + 1 \in Nat
    OBVIOUS
  <2> QED
    BY <1>1, <1>2, <2>1, TickDropped
<1>3. ASSUME NEW r \in Requests, Charge(r) \/ ReplyLost(r), w = KeyOf(r)
      PROVE  Dropped(w, k)'
  BY <1>1, <1>3, TransactionDropped
<1>4. CASE ~Tick /\ ~\E r \in Requests : (Charge(r) \/ ReplyLost(r)) /\ w = KeyOf(r)
  <2>1. AdmittedTo(w)' = AdmittedTo(w)
    BY <1>4, OneAdmission
  <2>2. now' = now /\ counter'[w] = counter[w] /\ expiry'[w] = expiry[w]
    BY <1>4 DEF Next, vars, Bypass, Arrive, Charge, ReplyLost, Unavailable,
                AnswerUnavailable, Answer, Transaction, LimiterInv, TypeOK
  <2> QED
    BY <1>1, <2>1, <2>2 DEF Dropped
<1> QED
  BY <1>2, <1>3, <1>4

(* While fewer counters than n can have been dropped, n limits suffice.     *)
LEMMA DropsBound == LimiterInv /\ Drops => OverrunsAreBounded
<1> SUFFICES ASSUME LimiterInv, Drops, NEW w \in Windows, NEW n \in Nat \ {0},
                    now < w * Window + n * (Window + 1)
             PROVE  Cardinality(AdmittedTo(w)) <= n * Limit
  BY DEF OverrunsAreBounded
<1> USE LimitAssumption, TimeAssumption
<1>1. PICK k \in Nat : Dropped(w, k)
  BY DEF Drops
<1>2. k < n
  <2> SUFFICES ASSUME k >= n PROVE FALSE
    OBVIOUS
  <2>1. n * (Window + 1) <= k * (Window + 1) /\ w * Window \in Int
        /\ n * (Window + 1) \in Int /\ k * (Window + 1) \in Int
    BY Monotone DEF Windows
  <2>2. k > 0 /\ w * Window + k * (Window + 1) <= now /\ now \in Nat
    BY <1>1 DEF Dropped, LimiterInv, TypeOK
  <2> QED
    BY <2>1, <2>2
<1>3. (k + 1) * Limit <= n * Limit
  BY <1>2, Monotone
<1>4. /\ Cardinality(AdmittedTo(w)) \in Nat
      /\ (k + 1) * Limit \in Nat /\ n * Limit \in Nat
  BY AdmittedToFacts
<1> QED
  BY <1>1, <1>3, <1>4 DEF Dropped

(* Stragglers may get in over the limit of their window once its counter is *)
(* gone, but never more than the limit for each lifetime of a counter, the  *)
(* Window + 1 seconds of rate_limit.py:44, since the window began.          *)
THEOREM StragglersAreFew == Spec => []OverrunsAreBounded
<1>1. Init => Drops
  <2> SUFFICES ASSUME Init, NEW w \in Windows PROVE Dropped(w, 0)
    BY DEF Drops
  <2>1. AdmittedTo(w) = {}
    BY DEF Init, AdmittedTo
  <2> QED
    BY <2>1, FS_EmptySet, LimitAssumption DEF Init, Dropped
<1> QED
  BY <1>1, NextDrops, DropsBound, LimiterInvariance, PTL DEF Spec

=============================================================================
