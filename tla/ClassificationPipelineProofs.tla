-------------------- MODULE ClassificationPipelineProofs --------------------
(***************************************************************************)
(* Proofs about ClassificationPipeline for any tickets, workers, verdicts, *)
(* retry limit, attempt budget and number of faults.                       *)
(***************************************************************************)
EXTENDS ClassificationPipeline, TLAPS

(* What a broker message is made of, and that workers read its ticket. *)
LEMMA MessageFacts ==
  ASSUME NEW m \in Message
  PROVE  /\ m.ticket \in Tickets
         /\ m.retries \in 0 .. MaxRetries
         /\ m = Copy(m.ticket, m.retries)
BY DEF Message, Copy

(* The message a request or a retry publishes, and which ticket it is for. *)
LEMMA CopyFacts ==
  ASSUME NEW t \in Tickets, NEW r \in 0 .. MaxRetries
  PROVE  /\ Copy(t, r) \in Message
         /\ Copy(t, r).ticket = t
         /\ Copy(t, r).retries = r
BY DEF Message, Copy

(* A worker has a delivery exactly while it is in its task, the broker can  *)
(* restore only such a delivery, and a retry is published only when one is  *)
(* left.                                                                    *)
WorkersHoldDeliveries ==
  \A w \in Workers :
    /\ msg[w] \in Message <=> pc[w] # "idle"
    /\ w \in unacked => pc[w] # "idle"
    /\ pc[w] = "retrying" => msg[w].retries < MaxRetries

TypeInv == TypeOK /\ WorkersHoldDeliveries

(* The empty system has the types, and no worker holds a delivery. *)
LEMMA InitTypeInv == Init => TypeInv
BY MaxRetriesAssumption, NoMessageAssumption
   DEF Init, TypeInv, TypeOK, WorkersHoldDeliveries, TicketStatus, WorkerState,
       Failure, Incident

(* Every action keeps the types and the worker's hold on its delivery. *)
LEMMA NextTypeInv == TypeInv /\ [Next]_vars => TypeInv'
<1> SUFFICES ASSUME TypeInv, [Next]_vars PROVE TypeInv'
  OBVIOUS
<1> USE DEF TypeInv, TypeOK, WorkersHoldDeliveries, TicketStatus, WorkerState,
            Failure, Incident, rowVars, workerVars, TicketOf
<1>1. ASSUME NEW S \in SUBSET Tickets, CreateTickets(S) PROVE TypeInv'
  BY <1>1 DEF CreateTickets
<1>2. ASSUME NEW S \in outbound, NEW t \in S, Dispatch(S, t) PROVE TypeInv'
  BY <1>2, CopyFacts, MaxRetriesAssumption DEF Dispatch, Copy
<1>3. ASSUME NEW S \in outbound, NEW landed \in {{}} \cup {{t} : t \in S},
      DispatchFails(S, landed) PROVE TypeInv'
  BY <1>3, MessageFacts DEF DispatchFails
<1>4. ASSUME NEW t \in Tickets, NEW s \in TicketStatus, UpdateStatus(t, s)
      PROVE TypeInv'
  BY <1>4 DEF UpdateStatus, Note
<1>5. ASSUME NEW t \in Tickets, NEW v \in Verdicts, CorrectClassification(t,
      v) PROVE TypeInv'
  BY <1>5 DEF CorrectClassification
<1>6. ASSUME NEW w \in Workers, NEW m \in Message, Receive(w, m) PROVE
      TypeInv'
  BY <1>6 DEF Receive, Goto
<1>7. ASSUME NEW w \in Workers, SkipComplete(w) PROVE TypeInv'
  BY <1>7 DEF SkipComplete, Goto
<1>8. ASSUME NEW w \in Workers, Claim(w) PROVE TypeInv'
  BY <1>8, MessageFacts DEF Claim, ClaimedRow, Goto
<1>9. ASSUME NEW w \in Workers, NEW e \in Failure, ClassifyFails(w, e) PROVE
      TypeInv'
  BY <1>9 DEF ClassifyFails, Catch, Goto
<1>10. ASSUME NEW w \in Workers, NEW v \in Verdicts, NEW extra \in
      ExtraAttempts, SaveResult(w, v, extra) PROVE TypeInv'
  BY <1>10, MessageFacts, ExtraAttemptsAssumption
     DEF SaveResult, CompletedRow, Goto
<1>11. ASSUME NEW w \in Workers, NEW extra \in ExtraAttempts, RecordFailure(w,
      extra) PROVE TypeInv'
  BY <1>11, MessageFacts, ExtraAttemptsAssumption, MaxRetriesAssumption
     DEF RecordFailure, FailedRow, AfterFailure, Goto, WillRetry,
        RetryAvailable, Larger, Audit, FailedTotal
<1>12. ASSUME NEW w \in Workers, PublishRetry(w) PROVE TypeInv'
  BY <1>12, CopyFacts, MessageFacts, MaxRetriesAssumption
     DEF PublishRetry, Copy, Goto
<1>13. ASSUME NEW w \in Workers, PublishRetryFails(w) PROVE TypeInv'
  BY <1>13, MessageFacts DEF PublishRetryFails, Note, Goto
<1>14. ASSUME NEW w \in Workers, Ack(w) PROVE TypeInv'
  BY <1>14, NoMessageAssumption DEF Ack, Release, Goto
<1>15. ASSUME NEW w \in Workers, NEW b \in BOOLEAN, ClaimFails(w, b) PROVE
      TypeInv'
  BY <1>15, MessageFacts DEF ClaimFails, ClaimedRow, Catch, Goto
<1>16. ASSUME NEW w \in Workers, NEW b \in BOOLEAN, Notify(w, b) PROVE
      TypeInv'
  BY <1>16, MessageFacts DEF Notify, Goto
<1>17. ASSUME NEW w \in Workers, NEW extra \in ExtraAttempts, NEW b \in
      BOOLEAN, RecordFailureFails(w, extra, b) PROVE TypeInv'
  BY <1>17, MessageFacts, ExtraAttemptsAssumption, MaxRetriesAssumption
     DEF RecordFailureFails, FailedRow, AfterFailure, Note, Goto, WillRetry,
        RetryAvailable, Larger, Audit, FailedTotal
<1>18. ASSUME NEW w \in Workers, NEW v \in Verdicts, NEW extra \in
      ExtraAttempts, NEW b \in BOOLEAN, SaveFails(w, v, extra, b) PROVE
      TypeInv'
  BY <1>18, MessageFacts, ExtraAttemptsAssumption
     DEF SaveFails, CompletedRow, Catch, Goto
<1>19. ASSUME NEW w \in Workers, Crash(w) PROVE TypeInv'
  BY <1>19, MessageFacts, NoMessageAssumption DEF Crash, Release, Goto, Note
<1>20. ASSUME NEW w \in Workers, Redeliver(w) PROVE TypeInv'
  BY <1>20, MessageFacts DEF Redeliver
<1>21. ASSUME UNCHANGED vars PROVE TypeInv'
  BY <1>21 DEF vars
<1>22. QED
  BY <1>1, <1>2, <1>3, <1>4, <1>5, <1>6, <1>7, <1>8, <1>9, <1>10, <1>11,
     <1>12, <1>13, <1>14, <1>15, <1>16, <1>17, <1>18, <1>19, <1>20, <1>21
     DEF Next, DispatchStep, AgentStep, WorkerStep

(* Requests, messages and deliveries are about rows that exist. *)
RowsExist ==
  /\ \A S \in outbound : \A t \in S : Exists(t)
  /\ \A m \in Message : broker[m] > 0 => Exists(m.ticket)
  /\ \A w \in Workers : pc[w] # "idle" => Exists(TicketOf(w))

(* Rows are committed before they are published, and none is ever removed. *)
LEMMA NextRowsExist ==
  TypeInv /\ RowsExist /\ [Next]_vars => RowsExist'
<1> SUFFICES ASSUME TypeInv /\ RowsExist, [Next]_vars PROVE RowsExist'
  OBVIOUS
<1> USE MessageFacts, MaxRetriesAssumption DEF TypeInv, TypeOK,
            WorkersHoldDeliveries, rowVars, workerVars, TicketOf, RowsExist,
            Exists, TicketStatus
<1>1. ASSUME NEW S \in SUBSET Tickets, CreateTickets(S) PROVE RowsExist'
  BY <1>1 DEF CreateTickets
<1>2. ASSUME NEW S \in outbound, NEW t \in S, Dispatch(S, t) PROVE RowsExist'
  BY <1>2, CopyFacts DEF Dispatch, Copy
<1>3. ASSUME NEW S \in outbound, NEW landed \in {{}} \cup {{t} : t \in S},
      DispatchFails(S, landed) PROVE RowsExist'
  BY <1>3 DEF DispatchFails
<1>4. ASSUME NEW t \in Tickets, NEW s \in TicketStatus, UpdateStatus(t, s)
      PROVE RowsExist'
  BY <1>4 DEF UpdateStatus, Note
<1>5. ASSUME NEW t \in Tickets, NEW v \in Verdicts, CorrectClassification(t,
      v) PROVE RowsExist'
  BY <1>5 DEF CorrectClassification
<1>6. ASSUME NEW w \in Workers, NEW m \in Message, Receive(w, m) PROVE
      RowsExist'
  BY <1>6 DEF Receive, Goto
<1>7. ASSUME NEW w \in Workers, SkipComplete(w) PROVE RowsExist'
  BY <1>7 DEF SkipComplete, Goto
<1>8. ASSUME NEW w \in Workers, Claim(w) PROVE RowsExist'
  BY <1>8 DEF Claim, ClaimedRow, Goto
<1>9. ASSUME NEW w \in Workers, NEW e \in Failure, ClassifyFails(w, e) PROVE
      RowsExist'
  BY <1>9 DEF ClassifyFails, Catch, Goto
<1>10. ASSUME NEW w \in Workers, NEW v \in Verdicts, NEW extra \in
      ExtraAttempts, SaveResult(w, v, extra) PROVE RowsExist'
  BY <1>10 DEF SaveResult, CompletedRow, Goto
<1>11. ASSUME NEW w \in Workers, NEW extra \in ExtraAttempts, RecordFailure(w,
      extra) PROVE RowsExist'
  BY <1>11
     DEF RecordFailure, FailedRow, AfterFailure, Goto, WillRetry,
        RetryAvailable, Audit, FailedTotal
<1>12. ASSUME NEW w \in Workers, PublishRetry(w) PROVE RowsExist'
  BY <1>12, CopyFacts DEF PublishRetry, Copy, Goto
<1>13. ASSUME NEW w \in Workers, PublishRetryFails(w) PROVE RowsExist'
  BY <1>13 DEF PublishRetryFails, Note, Goto
<1>14. ASSUME NEW w \in Workers, Ack(w) PROVE RowsExist'
  BY <1>14 DEF Ack, Release, Goto
<1>15. ASSUME NEW w \in Workers, NEW b \in BOOLEAN, ClaimFails(w, b) PROVE
      RowsExist'
  BY <1>15 DEF ClaimFails, ClaimedRow, Catch, Goto
<1>16. ASSUME NEW w \in Workers, NEW b \in BOOLEAN, Notify(w, b) PROVE
      RowsExist'
  BY <1>16 DEF Notify, Goto
<1>17. ASSUME NEW w \in Workers, NEW extra \in ExtraAttempts, NEW b \in
      BOOLEAN, RecordFailureFails(w, extra, b) PROVE RowsExist'
  BY <1>17
     DEF RecordFailureFails, FailedRow, AfterFailure, Note, Goto, WillRetry,
        RetryAvailable, Audit, FailedTotal
<1>18. ASSUME NEW w \in Workers, NEW v \in Verdicts, NEW extra \in
      ExtraAttempts, NEW b \in BOOLEAN, SaveFails(w, v, extra, b) PROVE
      RowsExist'
  BY <1>18 DEF SaveFails, CompletedRow, Catch, Goto
<1>19. ASSUME NEW w \in Workers, Crash(w) PROVE RowsExist'
  BY <1>19 DEF Crash, Release, Goto, Note
<1>20. ASSUME NEW w \in Workers, Redeliver(w) PROVE RowsExist'
  BY <1>20 DEF Redeliver
<1>21. ASSUME UNCHANGED vars PROVE RowsExist'
  BY <1>21 DEF vars
<1>22. QED
  BY <1>1, <1>2, <1>3, <1>4, <1>5, <1>6, <1>7, <1>8, <1>9, <1>10, <1>11,
     <1>12, <1>13, <1>14, <1>15, <1>16, <1>17, <1>18, <1>19, <1>20, <1>21
     DEF Next, DispatchStep, AgentStep, WorkerStep

(* FAILED is written together with the dead-letter row, or by an agent. *)
LEMMA NextFailedIsAudited ==
  TypeInv /\ FailedIsAudited /\ [Next]_vars => FailedIsAudited'
<1> SUFFICES ASSUME TypeInv /\ FailedIsAudited, [Next]_vars PROVE FailedIsAudited'
  OBVIOUS
<1> USE MessageFacts, MaxRetriesAssumption DEF TypeInv, TypeOK,
            WorkersHoldDeliveries, rowVars, workerVars, TicketOf,
            FailedIsAudited
<1>1. ASSUME NEW S \in SUBSET Tickets, CreateTickets(S) PROVE FailedIsAudited'
  BY <1>1 DEF CreateTickets
<1>2. ASSUME NEW S \in outbound, NEW t \in S, Dispatch(S, t) PROVE
      FailedIsAudited'
  BY <1>2 DEF Dispatch, Copy
<1>3. ASSUME NEW S \in outbound, NEW landed \in {{}} \cup {{t} : t \in S},
      DispatchFails(S, landed) PROVE FailedIsAudited'
  BY <1>3 DEF DispatchFails
<1>4. ASSUME NEW t \in Tickets, NEW s \in TicketStatus, UpdateStatus(t, s)
      PROVE FailedIsAudited'
  BY <1>4 DEF UpdateStatus, Note
<1>5. ASSUME NEW t \in Tickets, NEW v \in Verdicts, CorrectClassification(t,
      v) PROVE FailedIsAudited'
  BY <1>5 DEF CorrectClassification
<1>6. ASSUME NEW w \in Workers, NEW m \in Message, Receive(w, m) PROVE
      FailedIsAudited'
  BY <1>6 DEF Receive, Goto
<1>7. ASSUME NEW w \in Workers, SkipComplete(w) PROVE FailedIsAudited'
  BY <1>7 DEF SkipComplete, Goto
<1>8. ASSUME NEW w \in Workers, Claim(w) PROVE FailedIsAudited'
  BY <1>8 DEF Claim, ClaimedRow, Goto
<1>9. ASSUME NEW w \in Workers, NEW e \in Failure, ClassifyFails(w, e) PROVE
      FailedIsAudited'
  BY <1>9 DEF ClassifyFails, Catch, Goto
<1>10. ASSUME NEW w \in Workers, NEW v \in Verdicts, NEW extra \in
      ExtraAttempts, SaveResult(w, v, extra) PROVE FailedIsAudited'
  BY <1>10 DEF SaveResult, CompletedRow, Goto
<1>11. ASSUME NEW w \in Workers, NEW extra \in ExtraAttempts, RecordFailure(w,
      extra) PROVE FailedIsAudited'
  BY <1>11, NullAssumption, ExtraAttemptsAssumption
     DEF RecordFailure, FailedRow, AfterFailure, Goto, WillRetry,
        RetryAvailable, Audit, FailedTotal, Larger
<1>12. ASSUME NEW w \in Workers, PublishRetry(w) PROVE FailedIsAudited'
  BY <1>12 DEF PublishRetry, Copy, Goto
<1>13. ASSUME NEW w \in Workers, PublishRetryFails(w) PROVE FailedIsAudited'
  BY <1>13 DEF PublishRetryFails, Note, Goto
<1>14. ASSUME NEW w \in Workers, Ack(w) PROVE FailedIsAudited'
  BY <1>14 DEF Ack, Release, Goto
<1>15. ASSUME NEW w \in Workers, NEW b \in BOOLEAN, ClaimFails(w, b) PROVE
      FailedIsAudited'
  BY <1>15 DEF ClaimFails, ClaimedRow, Catch, Goto
<1>16. ASSUME NEW w \in Workers, NEW b \in BOOLEAN, Notify(w, b) PROVE
      FailedIsAudited'
  BY <1>16 DEF Notify, Goto
<1>17. ASSUME NEW w \in Workers, NEW extra \in ExtraAttempts, NEW b \in
      BOOLEAN, RecordFailureFails(w, extra, b) PROVE FailedIsAudited'
  BY <1>17, NullAssumption, ExtraAttemptsAssumption
     DEF RecordFailureFails, FailedRow, AfterFailure, Note, Goto, WillRetry,
        RetryAvailable, Audit, FailedTotal, Larger
<1>18. ASSUME NEW w \in Workers, NEW v \in Verdicts, NEW extra \in
      ExtraAttempts, NEW b \in BOOLEAN, SaveFails(w, v, extra, b) PROVE
      FailedIsAudited'
  BY <1>18 DEF SaveFails, CompletedRow, Catch, Goto
<1>19. ASSUME NEW w \in Workers, Crash(w) PROVE FailedIsAudited'
  BY <1>19 DEF Crash, Release, Goto, Note
<1>20. ASSUME NEW w \in Workers, Redeliver(w) PROVE FailedIsAudited'
  BY <1>20 DEF Redeliver
<1>21. ASSUME UNCHANGED vars PROVE FailedIsAudited'
  BY <1>21 DEF vars
<1>22. QED
  BY <1>1, <1>2, <1>3, <1>4, <1>5, <1>6, <1>7, <1>8, <1>9, <1>10, <1>11,
     <1>12, <1>13, <1>14, <1>15, <1>16, <1>17, <1>18, <1>19, <1>20, <1>21
     DEF Next, DispatchStep, AgentStep, WorkerStep

(* No step takes the last carrier of an unsettled ticket without an incident. *)
LEMMA NextNoSilentOrphan == TypeInv /\ NoSilentOrphan /\ [Next]_vars => NoSilentOrphan'
<1> SUFFICES ASSUME TypeInv, NoSilentOrphan, [Next]_vars, NEW t \in Tickets,
                    Exists(t)', ~Settled(t)', incidents'[t] = {}
             PROVE  Carried(t)'
  BY DEF NoSilentOrphan
<1> USE MessageFacts, MaxRetriesAssumption DEF TypeInv, TypeOK,
        WorkersHoldDeliveries, rowVars, workerVars, TicketOf
<1>a. Exists(t) /\ ~Settled(t) /\ incidents[t] = {} => Carried(t)
  BY DEF NoSilentOrphan
<1> DEFINE Busy(w) == pc[w] \in {"received", "classifying", "failing", "retrying"}
<1>b. ASSUME status'[t] = status[t], incidents[t] = {},
             \A S \in outbound : t \in S => \E Q \in outbound' : t \in Q,
             \A m \in Message :
               m.ticket = t /\ broker[m] > 0 => broker'[m] > 0,
             \A w \in Workers : Busy(w) /\ TicketOf(w) = t => Carried(t)'
      PROVE  Carried(t)'
  <2>1. Carried(t)
    BY <1>a, <1>b DEF Exists, Settled
  <2> QED
    BY <1>b, <2>1 DEF Carried
<1> USE DEF Exists, Settled, TicketStatus, Carried
<1>1. ASSUME NEW S \in SUBSET Tickets, CreateTickets(S) PROVE Carried(t)'
  BY <1>1, <1>a DEF CreateTickets
<1>2. ASSUME NEW S \in outbound, NEW u \in S, Dispatch(S, u) PROVE Carried(t)'
  <2>1. CASE u = t
    <3>1. broker'[Copy(t, 0)] > 0
      BY <1>2, <2>1, CopyFacts DEF Dispatch
    <3> QED
      BY <3>1, CopyFacts
  <2>2. CASE u # t
    <3>1. /\ status' = status /\ incidents' = incidents
          /\ pc' = pc /\ msg' = msg
          /\ \A m \in Message : broker[m] > 0 => broker'[m] > 0
      BY <1>2, CopyFacts DEF Dispatch
    <3>2. ASSUME NEW R \in outbound, t \in R
          PROVE  \E Q \in outbound' : t \in Q
      <4>1. CASE R = S
        <5>1. t \in S \ {u} /\ S \ {u} \in {S \ {u}} \ {{}}
          BY <2>2, <3>2, <4>1
        <5>2. S \ {u} \in outbound'
          BY <1>2, <5>1 DEF Dispatch
        <5> QED
          BY <5>1, <5>2
      <4>2. CASE R # S
        BY <1>2, <3>2, <4>2 DEF Dispatch
      <4> QED
        BY <4>1, <4>2
    <3> QED
      BY <1>b, <3>1, <3>2
  <2> QED
    BY <2>1, <2>2
<1>3. ASSUME NEW S \in outbound, NEW landed \in {{}} \cup {{u} : u \in S},
      DispatchFails(S, landed) PROVE Carried(t)'
  <2>1. t \notin S /\ incidents[t] = {} /\ outbound' = outbound \ {S}
    BY <1>3 DEF DispatchFails
  <2>2. /\ status' = status /\ pc' = pc /\ msg' = msg
        /\ \A m \in Message : broker[m] > 0 => broker'[m] > 0
    BY <1>3 DEF DispatchFails
  <2> QED
    BY <1>b, <2>1, <2>2
<1>4. ASSUME NEW u \in Tickets, NEW s \in TicketStatus, UpdateStatus(u, s)
      PROVE Carried(t)'
  <2>1. u # t
    <3>1. s = "complete" => status'[u] = "complete"
      BY <1>4 DEF UpdateStatus
    <3>2. s # "complete" => "overridden" \in incidents'[u]
      BY <1>4 DEF UpdateStatus, Note
    <3> QED
      BY <3>1, <3>2
  <2> QED
    BY <1>4, <1>a, <2>1 DEF UpdateStatus, Note
<1>5. ASSUME NEW u \in Tickets, NEW v \in Verdicts, CorrectClassification(u,
      v) PROVE Carried(t)'
  BY <1>5, <1>a DEF CorrectClassification
<1>6. ASSUME NEW w \in Workers, NEW m \in Message, Receive(w, m) PROVE
      Carried(t)'
  BY <1>6, <1>a DEF Receive, Goto
<1>7. ASSUME NEW w \in Workers, SkipComplete(w) PROVE Carried(t)'
  BY <1>7, <1>a DEF SkipComplete, Goto
<1>8. ASSUME NEW w \in Workers, Claim(w) PROVE Carried(t)'
  BY <1>8, <1>a DEF Claim, ClaimedRow, Goto
<1>9. ASSUME NEW w \in Workers, NEW e \in Failure, ClassifyFails(w, e) PROVE
      Carried(t)'
  BY <1>9, <1>a DEF ClassifyFails, Catch, Goto
<1>10. ASSUME NEW w \in Workers, NEW v \in Verdicts, NEW extra \in
      ExtraAttempts, SaveResult(w, v, extra) PROVE Carried(t)'
  BY <1>10, <1>a DEF SaveResult, CompletedRow, Goto
<1>11. ASSUME NEW w \in Workers, NEW extra \in ExtraAttempts, RecordFailure(w,
      extra) PROVE Carried(t)'
  BY <1>11, <1>a
     DEF RecordFailure, FailedRow, AfterFailure, Goto, WillRetry,
        RetryAvailable, Audit, FailedTotal
<1>12. ASSUME NEW w \in Workers, PublishRetry(w) PROVE Carried(t)'
  BY <1>12, <1>a, CopyFacts DEF PublishRetry, Copy, Goto
<1>13. ASSUME NEW w \in Workers, PublishRetryFails(w) PROVE Carried(t)'
  BY <1>13, <1>a DEF PublishRetryFails, Note, Goto
<1>14. ASSUME NEW w \in Workers, Ack(w) PROVE Carried(t)'
  BY <1>14, <1>a DEF Ack, Release, Goto
<1>15. ASSUME NEW w \in Workers, NEW b \in BOOLEAN, ClaimFails(w, b) PROVE
      Carried(t)'
  BY <1>15, <1>a DEF ClaimFails, ClaimedRow, Catch, Goto
<1>16. ASSUME NEW w \in Workers, NEW b \in BOOLEAN, Notify(w, b) PROVE
      Carried(t)'
  BY <1>16, <1>a DEF Notify, Goto
<1>17. ASSUME NEW w \in Workers, NEW extra \in ExtraAttempts, NEW b \in
      BOOLEAN, RecordFailureFails(w, extra, b) PROVE Carried(t)'
  BY <1>17, <1>a
     DEF RecordFailureFails, FailedRow, AfterFailure, Note, Goto, WillRetry,
        RetryAvailable, Audit, FailedTotal
<1>18. ASSUME NEW w \in Workers, NEW v \in Verdicts, NEW extra \in
      ExtraAttempts, NEW b \in BOOLEAN, SaveFails(w, v, extra, b) PROVE
      Carried(t)'
  BY <1>18, <1>a DEF SaveFails, CompletedRow, Catch, Goto
<1>19. ASSUME NEW w \in Workers, Crash(w) PROVE Carried(t)'
  <2>1. status' = status /\ outbound' = outbound
    BY <1>19 DEF Crash
  <2>2. CASE TicketOf(w) = t
    <3>1. msg[w] \in Message
      BY <1>19 DEF Crash
    <3>2. w \notin unacked => "delivery_lost" \in incidents'[TicketOf(w)]
      BY <1>19 DEF Crash, Note
    <3>3. broker'[msg[w]] > 0
      BY <1>19, <2>2, <3>1, <3>2 DEF Crash
    <3> QED
      BY <2>2, <3>1, <3>3
  <2>3. CASE TicketOf(w) # t
    <3>1. incidents'[t] = incidents[t]
      BY <1>19, <2>3 DEF Crash, Note
    <3>2. \A m \in Message : broker[m] > 0 => broker'[m] > 0
      BY <1>19 DEF Crash, Note
    <3>3. \A x \in Workers : x # w => pc'[x] = pc[x] /\ msg'[x] = msg[x]
      BY <1>19 DEF Crash, Release, Goto
    <3> QED
      BY <1>b, <2>1, <2>3, <3>1, <3>2, <3>3
  <2> QED
    BY <2>2, <2>3
<1>20. ASSUME NEW w \in Workers, Redeliver(w) PROVE Carried(t)'
  BY <1>20, <1>a DEF Redeliver
<1>21. ASSUME UNCHANGED vars PROVE Carried(t)'
  BY <1>21, <1>a DEF vars
<1> HIDE DEF Carried, TypeInv
<1>22. QED
  BY <1>1, <1>2, <1>3, <1>4, <1>5, <1>6, <1>7, <1>8, <1>9, <1>10, <1>11,
     <1>12, <1>13, <1>14, <1>15, <1>16, <1>17, <1>18, <1>19, <1>20, <1>21
     DEF Next, DispatchStep, AgentStep, WorkerStep

(* A worker about to publish a retry has recorded it, or had no reason to. *)
RetryingIsRecorded ==
  \A w \in Workers :
    pc[w] = "retrying" =>
      msg[w].retries + 1 <= retryCount[TicketOf(w)] \/ RecordSkipped(TicketOf(w))

RetriesInv == RetriesAreRecorded /\ RetryingIsRecorded

(* The recorded count keeps up with the retries in flight. *)
LEMMA NextRetriesInv ==
  TypeInv /\ RetriesInv /\ [Next]_vars => RetriesInv'
<1> SUFFICES ASSUME TypeInv /\ RetriesInv, [Next]_vars PROVE RetriesInv'
  OBVIOUS
<1> USE MessageFacts, MaxRetriesAssumption DEF TypeInv, TypeOK,
            WorkersHoldDeliveries, rowVars, workerVars, TicketOf, RetriesInv,
            RetriesAreRecorded, RetryingIsRecorded, RecordSkipped, Exists,
            TicketStatus
<1>1. ASSUME NEW S \in SUBSET Tickets, CreateTickets(S) PROVE RetriesInv'
  BY <1>1 DEF CreateTickets
<1>2. ASSUME NEW S \in outbound, NEW t \in S, Dispatch(S, t) PROVE RetriesInv'
  BY <1>2, CopyFacts DEF Dispatch, Copy
<1>3. ASSUME NEW S \in outbound, NEW landed \in {{}} \cup {{t} : t \in S},
      DispatchFails(S, landed) PROVE RetriesInv'
  BY <1>3 DEF DispatchFails
<1>4. ASSUME NEW t \in Tickets, NEW s \in TicketStatus, UpdateStatus(t, s)
      PROVE RetriesInv'
  BY <1>4 DEF UpdateStatus, Note
<1>5. ASSUME NEW t \in Tickets, NEW v \in Verdicts, CorrectClassification(t,
      v) PROVE RetriesInv'
  BY <1>5 DEF CorrectClassification
<1>6. ASSUME NEW w \in Workers, NEW m \in Message, Receive(w, m) PROVE
      RetriesInv'
  BY <1>6 DEF Receive, Goto
<1>7. ASSUME NEW w \in Workers, SkipComplete(w) PROVE RetriesInv'
  BY <1>7 DEF SkipComplete, Goto
<1>8. ASSUME NEW w \in Workers, Claim(w) PROVE RetriesInv'
  BY <1>8 DEF Claim, ClaimedRow, Goto
<1>9. ASSUME NEW w \in Workers, NEW e \in Failure, ClassifyFails(w, e) PROVE
      RetriesInv'
  BY <1>9 DEF ClassifyFails, Catch, Goto
<1>10. ASSUME NEW w \in Workers, NEW v \in Verdicts, NEW extra \in
      ExtraAttempts, SaveResult(w, v, extra) PROVE RetriesInv'
  BY <1>10, ExtraAttemptsAssumption DEF SaveResult, CompletedRow, Goto
<1>11. ASSUME NEW w \in Workers, NEW extra \in ExtraAttempts, RecordFailure(w,
      extra) PROVE RetriesInv'
  BY <1>11, ExtraAttemptsAssumption
     DEF RecordFailure, FailedRow, AfterFailure, Goto, WillRetry,
        RetryAvailable, Audit, FailedTotal
<1>12. ASSUME NEW w \in Workers, PublishRetry(w) PROVE RetriesInv'
  BY <1>12, CopyFacts DEF PublishRetry, Copy, Goto
<1>13. ASSUME NEW w \in Workers, PublishRetryFails(w) PROVE RetriesInv'
  BY <1>13 DEF PublishRetryFails, Note, Goto
<1>14. ASSUME NEW w \in Workers, Ack(w) PROVE RetriesInv'
  BY <1>14, NoMessageAssumption DEF Ack, Release, Goto
<1>15. ASSUME NEW w \in Workers, NEW b \in BOOLEAN, ClaimFails(w, b) PROVE
      RetriesInv'
  BY <1>15 DEF ClaimFails, ClaimedRow, Catch, Goto
<1>16. ASSUME NEW w \in Workers, NEW b \in BOOLEAN, Notify(w, b) PROVE
      RetriesInv'
  BY <1>16 DEF Notify, Goto
<1>17. ASSUME NEW w \in Workers, NEW extra \in ExtraAttempts, NEW b \in
      BOOLEAN, RecordFailureFails(w, extra, b) PROVE RetriesInv'
  BY <1>17, ExtraAttemptsAssumption
     DEF RecordFailureFails, FailedRow, AfterFailure, Note, Goto, WillRetry,
        RetryAvailable, Audit, FailedTotal
<1>18. ASSUME NEW w \in Workers, NEW v \in Verdicts, NEW extra \in
      ExtraAttempts, NEW b \in BOOLEAN, SaveFails(w, v, extra, b) PROVE
      RetriesInv'
  BY <1>18, ExtraAttemptsAssumption DEF SaveFails, CompletedRow, Catch, Goto
<1>19. ASSUME NEW w \in Workers, Crash(w) PROVE RetriesInv'
  BY <1>19, NoMessageAssumption DEF Crash, Release, Goto, Note
<1>20. ASSUME NEW w \in Workers, Redeliver(w) PROVE RetriesInv'
  BY <1>20 DEF Redeliver
<1>21. ASSUME UNCHANGED vars PROVE RetriesInv'
  BY <1>21 DEF vars
<1>22. QED
  BY <1>1, <1>2, <1>3, <1>4, <1>5, <1>6, <1>7, <1>8, <1>9, <1>10, <1>11,
     <1>12, <1>13, <1>14, <1>15, <1>16, <1>17, <1>18, <1>19, <1>20, <1>21
     DEF Next, DispatchStep, AgentStep, WorkerStep

(* A worker about to notify has its dead-letter row, or had no reason to. *)
NotifyingIsAudited ==
  \A w \in Workers :
    pc[w] = "notifying" =>
      deadLetter[TicketOf(w)] # NoRow \/ RecordSkipped(TicketOf(w))

NotificationInv == NotificationIsBacked /\ NotifyingIsAudited

(* Between the record and the notification nothing removes the row. *)
LEMMA NextNotificationInv ==
  TypeInv /\ NotificationInv /\ [Next]_vars => NotificationInv'
<1> SUFFICES ASSUME TypeInv /\ NotificationInv, [Next]_vars PROVE NotificationInv'
  OBVIOUS
<1> USE MessageFacts, MaxRetriesAssumption DEF TypeInv, TypeOK,
            WorkersHoldDeliveries, rowVars, workerVars, TicketOf,
            NotificationInv, NotificationIsBacked, NotifyingIsAudited,
            RecordSkipped, Exists, TicketStatus
<1>1. ASSUME NEW S \in SUBSET Tickets, CreateTickets(S) PROVE NotificationInv'
  BY <1>1 DEF CreateTickets
<1>2. ASSUME NEW S \in outbound, NEW t \in S, Dispatch(S, t) PROVE
      NotificationInv'
  BY <1>2 DEF Dispatch, Copy
<1>3. ASSUME NEW S \in outbound, NEW landed \in {{}} \cup {{t} : t \in S},
      DispatchFails(S, landed) PROVE NotificationInv'
  BY <1>3 DEF DispatchFails
<1>4. ASSUME NEW t \in Tickets, NEW s \in TicketStatus, UpdateStatus(t, s)
      PROVE NotificationInv'
  BY <1>4 DEF UpdateStatus, Note
<1>5. ASSUME NEW t \in Tickets, NEW v \in Verdicts, CorrectClassification(t,
      v) PROVE NotificationInv'
  BY <1>5 DEF CorrectClassification
<1>6. ASSUME NEW w \in Workers, NEW m \in Message, Receive(w, m) PROVE
      NotificationInv'
  BY <1>6 DEF Receive, Goto
<1>7. ASSUME NEW w \in Workers, SkipComplete(w) PROVE NotificationInv'
  BY <1>7 DEF SkipComplete, Goto
<1>8. ASSUME NEW w \in Workers, Claim(w) PROVE NotificationInv'
  BY <1>8 DEF Claim, ClaimedRow, Goto
<1>9. ASSUME NEW w \in Workers, NEW e \in Failure, ClassifyFails(w, e) PROVE
      NotificationInv'
  BY <1>9 DEF ClassifyFails, Catch, Goto
<1>10. ASSUME NEW w \in Workers, NEW v \in Verdicts, NEW extra \in
      ExtraAttempts, SaveResult(w, v, extra) PROVE NotificationInv'
  BY <1>10 DEF SaveResult, CompletedRow, Goto
<1>11. ASSUME NEW w \in Workers, NEW extra \in ExtraAttempts, RecordFailure(w,
      extra) PROVE NotificationInv'
  BY <1>11, ExtraAttemptsAssumption, NullAssumption
     DEF RecordFailure, FailedRow, AfterFailure, Goto, WillRetry,
        RetryAvailable, Audit, FailedTotal, Larger
<1>12. ASSUME NEW w \in Workers, PublishRetry(w) PROVE NotificationInv'
  BY <1>12 DEF PublishRetry, Copy, Goto
<1>13. ASSUME NEW w \in Workers, PublishRetryFails(w) PROVE NotificationInv'
  BY <1>13 DEF PublishRetryFails, Note, Goto
<1>14. ASSUME NEW w \in Workers, Ack(w) PROVE NotificationInv'
  BY <1>14 DEF Ack, Release, Goto
<1>15. ASSUME NEW w \in Workers, NEW b \in BOOLEAN, ClaimFails(w, b) PROVE
      NotificationInv'
  BY <1>15 DEF ClaimFails, ClaimedRow, Catch, Goto
<1>16. ASSUME NEW w \in Workers, NEW b \in BOOLEAN, Notify(w, b) PROVE
      NotificationInv'
  BY <1>16 DEF Notify, Goto
<1>17. ASSUME NEW w \in Workers, NEW extra \in ExtraAttempts, NEW b \in
      BOOLEAN, RecordFailureFails(w, extra, b) PROVE NotificationInv'
  BY <1>17, ExtraAttemptsAssumption, NullAssumption
     DEF RecordFailureFails, FailedRow, AfterFailure, Note, Goto, WillRetry,
        RetryAvailable, Audit, FailedTotal, Larger
<1>18. ASSUME NEW w \in Workers, NEW v \in Verdicts, NEW extra \in
      ExtraAttempts, NEW b \in BOOLEAN, SaveFails(w, v, extra, b) PROVE
      NotificationInv'
  BY <1>18 DEF SaveFails, CompletedRow, Catch, Goto
<1>19. ASSUME NEW w \in Workers, Crash(w) PROVE NotificationInv'
  BY <1>19 DEF Crash, Release, Goto, Note
<1>20. ASSUME NEW w \in Workers, Redeliver(w) PROVE NotificationInv'
  BY <1>20 DEF Redeliver
<1>21. ASSUME UNCHANGED vars PROVE NotificationInv'
  BY <1>21 DEF vars
<1>22. QED
  BY <1>1, <1>2, <1>3, <1>4, <1>5, <1>6, <1>7, <1>8, <1>9, <1>10, <1>11,
     <1>12, <1>13, <1>14, <1>15, <1>16, <1>17, <1>18, <1>19, <1>20, <1>21
     DEF Next, DispatchStep, AgentStep, WorkerStep

(***************************************************************************)
(* The inductive invariant and what follows from it                        *)
(***************************************************************************)
Inv ==
  /\ TypeInv
  /\ RowsExist
  /\ NoSilentOrphan
  /\ FailedIsAudited
  /\ RetriesInv
  /\ NotificationInv

(* The invariant holds of the empty system: there is no row to break it. *)
LEMMA InitInv == Init => Inv
<1> SUFFICES ASSUME Init PROVE Inv
  OBVIOUS
<1>1. TypeInv
  BY InitTypeInv
<1>2. RowsExist
  BY DEF Init, RowsExist, Exists
<1>3. NoSilentOrphan
  BY DEF Init, NoSilentOrphan, Exists
<1>4. FailedIsAudited
  BY DEF Init, FailedIsAudited
<1>5. RetriesInv
  BY NoMessageAssumption
     DEF Init, RetriesInv, RetriesAreRecorded, RetryingIsRecorded
<1>6. NotificationInv
  BY DEF Init, NotificationInv, NotificationIsBacked, NotifyingIsAudited
<1> QED
  BY <1>1, <1>2, <1>3, <1>4, <1>5, <1>6 DEF Inv

(* The lemmas above, one per conjunct, make the invariant inductive. *)
LEMMA NextInv == Inv /\ [Next]_vars => Inv'
BY NextTypeInv, NextRowsExist, NextNoSilentOrphan, NextFailedIsAudited,
   NextRetriesInv, NextNotificationInv DEF Inv

(* The inductive invariant holds however requests, workers, agents, crashes *)
(* and redeliveries interleave.                                             *)
THEOREM Invariance == Spec => []Inv
<1>1. Init => Inv
  BY InitInv
<1>2. Inv /\ [Next]_vars => Inv'
  BY NextInv
<1> QED
  BY <1>1, <1>2, PTL DEF Spec

(* The types of rows, messages and workers, for every instance. *)
THEOREM TypeCorrectness == Spec => []TypeOK
<1>1. Inv => TypeOK
  BY DEF Inv, TypeInv
<1> QED
  BY <1>1, Invariance, PTL

(* However many workers, tickets, retries and faults there are, an unsettled *)
(* ticket is carried or has met one of the named incidents.                  *)
THEOREM OrphansAreNeverSilent == Spec => []NoSilentOrphan
<1>1. Inv => NoSilentOrphan
  BY DEF Inv
<1> QED
  BY <1>1, Invariance, PTL

(* FAILED rows have their audit row unless an agent interfered. *)
THEOREM FailuresAreAudited == Spec => []FailedIsAudited
<1>1. Inv => FailedIsAudited
  BY DEF Inv
<1> QED
  BY <1>1, Invariance, PTL

(* A delivery never carries more retries than its ticket has on record. *)
THEOREM RetriesNeverOutrunTheRecord == Spec => []RetriesAreRecorded
<1>1. Inv => RetriesAreRecorded
  BY DEF Inv, RetriesInv
<1> QED
  BY <1>1, Invariance, PTL

(* A notification is backed by the durable row or by a skipped record. *)
THEOREM NotificationsAreBacked == Spec => []NotificationIsBacked
<1>1. Inv => NotificationIsBacked
  BY DEF Inv, NotificationInv
<1> QED
  BY <1>1, Invariance, PTL

(* Each write of a worker is guarded by a fresh look at the status. *)
LEMMA WorkersKeepCompleteStep == TypeInv /\ [Next]_vars => WorkersKeepComplete
<1> SUFFICES ASSUME TypeInv, [Next]_vars PROVE WorkersKeepComplete
  OBVIOUS
<1> USE MessageFacts DEF TypeInv, TypeOK, WorkersHoldDeliveries, rowVars,
            workerVars, TicketOf, WorkersKeepComplete, Exists
<1>1. ASSUME NEW S \in SUBSET Tickets, CreateTickets(S) PROVE
      WorkersKeepComplete
  BY <1>1 DEF CreateTickets
<1>2. ASSUME NEW S \in outbound, NEW t \in S, Dispatch(S, t) PROVE
      WorkersKeepComplete
  BY <1>2 DEF Dispatch, Copy
<1>3. ASSUME NEW S \in outbound, NEW landed \in {{}} \cup {{t} : t \in S},
      DispatchFails(S, landed) PROVE WorkersKeepComplete
  BY <1>3 DEF DispatchFails
<1>4. ASSUME NEW t \in Tickets, NEW s \in TicketStatus, UpdateStatus(t, s)
      PROVE WorkersKeepComplete
  BY <1>4 DEF UpdateStatus, Note
<1>5. ASSUME NEW t \in Tickets, NEW v \in Verdicts, CorrectClassification(t,
      v) PROVE WorkersKeepComplete
  BY <1>5 DEF CorrectClassification
<1>6. ASSUME NEW w \in Workers, NEW m \in Message, Receive(w, m) PROVE
      WorkersKeepComplete
  BY <1>6 DEF Receive, Goto
<1>7. ASSUME NEW w \in Workers, SkipComplete(w) PROVE WorkersKeepComplete
  BY <1>7 DEF SkipComplete, Goto
<1>8. ASSUME NEW w \in Workers, Claim(w) PROVE WorkersKeepComplete
  BY <1>8 DEF Claim, ClaimedRow, Goto
<1>9. ASSUME NEW w \in Workers, NEW e \in Failure, ClassifyFails(w, e) PROVE
      WorkersKeepComplete
  BY <1>9 DEF ClassifyFails, Catch, Goto
<1>10. ASSUME NEW w \in Workers, NEW v \in Verdicts, NEW extra \in
      ExtraAttempts, SaveResult(w, v, extra) PROVE WorkersKeepComplete
  BY <1>10 DEF SaveResult, CompletedRow, Goto
<1>11. ASSUME NEW w \in Workers, NEW extra \in ExtraAttempts, RecordFailure(w,
      extra) PROVE WorkersKeepComplete
  BY <1>11
     DEF RecordFailure, FailedRow, AfterFailure, Goto, WillRetry,
        RetryAvailable, Audit, FailedTotal
<1>12. ASSUME NEW w \in Workers, PublishRetry(w) PROVE WorkersKeepComplete
  BY <1>12 DEF PublishRetry, Copy, Goto
<1>13. ASSUME NEW w \in Workers, PublishRetryFails(w) PROVE
      WorkersKeepComplete
  BY <1>13 DEF PublishRetryFails, Note, Goto
<1>14. ASSUME NEW w \in Workers, Ack(w) PROVE WorkersKeepComplete
  BY <1>14 DEF Ack, Release, Goto
<1>15. ASSUME NEW w \in Workers, NEW b \in BOOLEAN, ClaimFails(w, b) PROVE
      WorkersKeepComplete
  BY <1>15 DEF ClaimFails, ClaimedRow, Catch, Goto
<1>16. ASSUME NEW w \in Workers, NEW b \in BOOLEAN, Notify(w, b) PROVE
      WorkersKeepComplete
  BY <1>16 DEF Notify, Goto
<1>17. ASSUME NEW w \in Workers, NEW extra \in ExtraAttempts, NEW b \in
      BOOLEAN, RecordFailureFails(w, extra, b) PROVE WorkersKeepComplete
  BY <1>17
     DEF RecordFailureFails, FailedRow, AfterFailure, Note, Goto, WillRetry,
        RetryAvailable, Audit, FailedTotal
<1>18. ASSUME NEW w \in Workers, NEW v \in Verdicts, NEW extra \in
      ExtraAttempts, NEW b \in BOOLEAN, SaveFails(w, v, extra, b) PROVE
      WorkersKeepComplete
  BY <1>18 DEF SaveFails, CompletedRow, Catch, Goto
<1>19. ASSUME NEW w \in Workers, Crash(w) PROVE WorkersKeepComplete
  BY <1>19 DEF Crash, Release, Goto, Note
<1>20. ASSUME NEW w \in Workers, Redeliver(w) PROVE WorkersKeepComplete
  BY <1>20 DEF Redeliver
<1>21. ASSUME UNCHANGED vars PROVE WorkersKeepComplete
  BY <1>21 DEF vars
<1>22. QED
  BY <1>1, <1>2, <1>3, <1>4, <1>5, <1>6, <1>7, <1>8, <1>9, <1>10, <1>11,
     <1>12, <1>13, <1>14, <1>15, <1>16, <1>17, <1>18, <1>19, <1>20, <1>21
     DEF Next, DispatchStep, AgentStep, WorkerStep

(* Only a task without a dead-letter row writes one. *)
LEMMA AuditKeptStep == TypeInv /\ [Next]_vars => AuditKept
<1> SUFFICES ASSUME TypeInv, [Next]_vars PROVE AuditKept
  OBVIOUS
<1> USE MessageFacts DEF TypeInv, TypeOK, WorkersHoldDeliveries, rowVars,
            workerVars, TicketOf, AuditKept
<1>1. ASSUME NEW S \in SUBSET Tickets, CreateTickets(S) PROVE AuditKept
  BY <1>1 DEF CreateTickets
<1>2. ASSUME NEW S \in outbound, NEW t \in S, Dispatch(S, t) PROVE AuditKept
  BY <1>2 DEF Dispatch, Copy
<1>3. ASSUME NEW S \in outbound, NEW landed \in {{}} \cup {{t} : t \in S},
      DispatchFails(S, landed) PROVE AuditKept
  BY <1>3 DEF DispatchFails
<1>4. ASSUME NEW t \in Tickets, NEW s \in TicketStatus, UpdateStatus(t, s)
      PROVE AuditKept
  BY <1>4 DEF UpdateStatus, Note
<1>5. ASSUME NEW t \in Tickets, NEW v \in Verdicts, CorrectClassification(t,
      v) PROVE AuditKept
  BY <1>5 DEF CorrectClassification
<1>6. ASSUME NEW w \in Workers, NEW m \in Message, Receive(w, m) PROVE
      AuditKept
  BY <1>6 DEF Receive, Goto
<1>7. ASSUME NEW w \in Workers, SkipComplete(w) PROVE AuditKept
  BY <1>7 DEF SkipComplete, Goto
<1>8. ASSUME NEW w \in Workers, Claim(w) PROVE AuditKept
  BY <1>8 DEF Claim, ClaimedRow, Goto
<1>9. ASSUME NEW w \in Workers, NEW e \in Failure, ClassifyFails(w, e) PROVE
      AuditKept
  BY <1>9 DEF ClassifyFails, Catch, Goto
<1>10. ASSUME NEW w \in Workers, NEW v \in Verdicts, NEW extra \in
      ExtraAttempts, SaveResult(w, v, extra) PROVE AuditKept
  BY <1>10 DEF SaveResult, CompletedRow, Goto
<1>11. ASSUME NEW w \in Workers, NEW extra \in ExtraAttempts, RecordFailure(w,
      extra) PROVE AuditKept
  BY <1>11
     DEF RecordFailure, FailedRow, AfterFailure, Goto, WillRetry,
        RetryAvailable, Audit, FailedTotal
<1>12. ASSUME NEW w \in Workers, PublishRetry(w) PROVE AuditKept
  BY <1>12 DEF PublishRetry, Copy, Goto
<1>13. ASSUME NEW w \in Workers, PublishRetryFails(w) PROVE AuditKept
  BY <1>13 DEF PublishRetryFails, Note, Goto
<1>14. ASSUME NEW w \in Workers, Ack(w) PROVE AuditKept
  BY <1>14 DEF Ack, Release, Goto
<1>15. ASSUME NEW w \in Workers, NEW b \in BOOLEAN, ClaimFails(w, b) PROVE
      AuditKept
  BY <1>15 DEF ClaimFails, ClaimedRow, Catch, Goto
<1>16. ASSUME NEW w \in Workers, NEW b \in BOOLEAN, Notify(w, b) PROVE
      AuditKept
  BY <1>16 DEF Notify, Goto
<1>17. ASSUME NEW w \in Workers, NEW extra \in ExtraAttempts, NEW b \in
      BOOLEAN, RecordFailureFails(w, extra, b) PROVE AuditKept
  BY <1>17
     DEF RecordFailureFails, FailedRow, AfterFailure, Note, Goto, WillRetry,
        RetryAvailable, Audit, FailedTotal
<1>18. ASSUME NEW w \in Workers, NEW v \in Verdicts, NEW extra \in
      ExtraAttempts, NEW b \in BOOLEAN, SaveFails(w, v, extra, b) PROVE
      AuditKept
  BY <1>18 DEF SaveFails, CompletedRow, Catch, Goto
<1>19. ASSUME NEW w \in Workers, Crash(w) PROVE AuditKept
  BY <1>19 DEF Crash, Release, Goto, Note
<1>20. ASSUME NEW w \in Workers, Redeliver(w) PROVE AuditKept
  BY <1>20 DEF Redeliver
<1>21. ASSUME UNCHANGED vars PROVE AuditKept
  BY <1>21 DEF vars
<1>22. QED
  BY <1>1, <1>2, <1>3, <1>4, <1>5, <1>6, <1>7, <1>8, <1>9, <1>10, <1>11,
     <1>12, <1>13, <1>14, <1>15, <1>16, <1>17, <1>18, <1>19, <1>20, <1>21
     DEF Next, DispatchStep, AgentStep, WorkerStep

(* No worker changes a COMPLETE row, whatever the deliveries it works on. *)
THEOREM CompleteRowsAreFinal == Spec => CompleteIsFinal
<1>1. Inv /\ [Next]_vars => [WorkersKeepComplete]_vars
  BY WorkersKeepCompleteStep DEF Inv
<1> QED
  BY <1>1, Invariance, PTL DEF Spec, CompleteIsFinal

(* The audit trail is append-only. *)
THEOREM AuditTrailIsAppendOnly == Spec => AuditIsPermanent
<1>1. Inv /\ [Next]_vars => [AuditKept]_vars
  BY AuditKeptStep DEF Inv
<1> QED
  BY <1>1, Invariance, PTL DEF Spec, AuditIsPermanent

(***************************************************************************)
(* Refinement of the ticket life cycle                                     *)
(***************************************************************************)
Audited == {u \in Tickets : deadLetter[u] # NoRow}
LifecycleStep == [Lifecycle!Next]_(Lifecycle!lvars)

(* A step that leaves the tables alone is a stuttering step. *)
LEMMA RowsUnchanged ==
  ASSUME UNCHANGED rowVars
  PROVE  LifecycleStep
BY DEF rowVars, LifecycleStep, Lifecycle!lvars

(* The commit of _claim is a Claim of the life cycle. *)
LEMMA ClaimedRefines ==
  ASSUME TypeInv, NEW t \in Tickets, Exists(t), status[t] # "complete",
         ClaimedRow(t)
  PROVE  LifecycleStep
<1>1. Lifecycle!Claim(t)
  BY DEF TypeInv, TypeOK, Exists, ClaimedRow, TicketStatus, Lifecycle!Claim,
         Lifecycle!Claimable, Lifecycle!TicketStatus
<1> QED
  BY <1>1 DEF LifecycleStep, Lifecycle!Next

(* The commit of a classification is a Complete of the life cycle. *)
LEMMA CompletedRefines ==
  ASSUME TypeInv, NEW t \in Tickets, Exists(t), status[t] # "complete",
         NEW v \in Verdicts, NEW extra, CompletedRow(t, v, extra)
  PROVE  LifecycleStep
<1>1. Lifecycle!Complete(t, v)
  BY DEF TypeInv, TypeOK, Exists, CompletedRow, TicketStatus,
         Lifecycle!Complete, Lifecycle!Claimable, Lifecycle!TicketStatus
<1> QED
  BY <1>1 DEF LifecycleStep, Lifecycle!Next

(* A failure that will be retried puts the row back; a terminal one fails it *)
(* and adds the task to the audited ones.                                    *)
LEMMA FailedRefines ==
  ASSUME TypeInv, NEW w \in Workers, pc[w] = "failing", Exists(TicketOf(w)),
         status[TicketOf(w)] # "complete",
         NEW extra \in ExtraAttempts, FailedRow(w, extra)
  PROVE  LifecycleStep
<1> DEFINE total == FailedTotal(w, extra)
<1>1. msg[w] \in Message
  BY DEF TypeInv, WorkersHoldDeliveries
<1>t. PICK t \in Tickets : t = TicketOf(w)
  BY <1>1, MessageFacts DEF TicketOf
<1>2. Lifecycle!Claimable(t)
  BY <1>t DEF TypeInv, TypeOK, Exists, TicketStatus, Lifecycle!Claimable,
              Lifecycle!TicketStatus
<1>3. Larger(msg[w].retries, total) # NoRow
  BY <1>1, <1>t, MessageFacts, MaxRetriesAssumption,
     ExtraAttemptsAssumption, NullAssumption
     DEF TypeInv, TypeOK, Larger, FailedTotal
<1>4. CASE WillRetry(w)
  <2>1. status' = [status EXCEPT ![t] = "pending"] /\ UNCHANGED <<verdict, deadLetter>>
    BY <1>t, <1>4 DEF FailedRow, Audit
  <2>2. Lifecycle!Requeue(t)
    BY <1>2, <2>1 DEF Lifecycle!Requeue
  <2> QED
    BY <2>2 DEF LifecycleStep, Lifecycle!Next
<1>5. CASE ~WillRetry(w)
  <2>1. status' = [status EXCEPT ![t] = "failed"] /\ UNCHANGED verdict
    BY <1>t, <1>5 DEF FailedRow
  <2>2. Audited' = Audited \cup {t}
    BY <1>t, <1>3, <1>5 DEF FailedRow, Audit, Audited, TypeInv, TypeOK
  <2>3. Lifecycle!Fail(t)
    BY <1>2, <2>1, <2>2 DEF Lifecycle!Fail, Audited
  <2> QED
    BY <2>3 DEF LifecycleStep, Lifecycle!Next
<1> QED
  BY <1>4, <1>5

(* Every step of the pipeline is a step of the life cycle or a stutter. *)
LEMMA StepRefines ==
  TypeInv /\ RowsExist /\ [Next]_vars => LifecycleStep
<1> SUFFICES ASSUME TypeInv, RowsExist, [Next]_vars PROVE LifecycleStep
  OBVIOUS
<1>a. ASSUME NEW w \in Workers, pc[w] # "idle"
      PROVE  TicketOf(w) \in Tickets /\ Exists(TicketOf(w))
  BY <1>a, MessageFacts DEF TypeInv, WorkersHoldDeliveries, RowsExist, TicketOf
<1>1. ASSUME NEW S \in SUBSET Tickets, CreateTickets(S) PROVE LifecycleStep
  <2>1. Lifecycle!Open(S)
    BY <1>1 DEF CreateTickets, Exists, Lifecycle!Open
  <2> QED
    BY <2>1 DEF LifecycleStep, Lifecycle!Next
<1>2. ASSUME NEW S \in outbound, NEW t \in S, Dispatch(S, t) PROVE
      LifecycleStep
  BY <1>2, RowsUnchanged DEF Dispatch
<1>3. ASSUME NEW S \in outbound, NEW landed \in {{}} \cup {{t} : t \in S},
      DispatchFails(S, landed) PROVE LifecycleStep
  BY <1>3, RowsUnchanged DEF DispatchFails
<1>4. ASSUME NEW t \in Tickets, NEW s \in TicketStatus, UpdateStatus(t, s)
      PROVE LifecycleStep
  <2>1. Lifecycle!AgentSetStatus(t, s)
    BY <1>4 DEF UpdateStatus, Exists, Lifecycle!AgentSetStatus
  <2> QED
    BY <2>1 DEF LifecycleStep, Lifecycle!Next, TicketStatus,
                Lifecycle!TicketStatus
<1>5. ASSUME NEW t \in Tickets, NEW v \in Verdicts, CorrectClassification(t,
      v) PROVE LifecycleStep
  <2>1. Lifecycle!AgentCorrect(t, v)
    BY <1>5 DEF CorrectClassification, Exists, Lifecycle!AgentCorrect
  <2> QED
    BY <2>1 DEF LifecycleStep, Lifecycle!Next
<1>6. ASSUME NEW w \in Workers, NEW m \in Message, Receive(w, m) PROVE
      LifecycleStep
  BY <1>6, RowsUnchanged DEF Receive
<1>7. ASSUME NEW w \in Workers, SkipComplete(w) PROVE LifecycleStep
  BY <1>7, RowsUnchanged DEF SkipComplete
<1>8. ASSUME NEW w \in Workers, Claim(w) PROVE LifecycleStep
  BY <1>8, <1>a, ClaimedRefines, RowsUnchanged DEF Claim
<1>9. ASSUME NEW w \in Workers, NEW e \in Failure, ClassifyFails(w, e) PROVE
      LifecycleStep
  BY <1>9, RowsUnchanged DEF ClassifyFails
<1>10. ASSUME NEW w \in Workers, NEW v \in Verdicts, NEW extra \in
      ExtraAttempts, SaveResult(w, v, extra) PROVE LifecycleStep
  BY <1>10, <1>a, CompletedRefines, RowsUnchanged DEF SaveResult
<1>11. ASSUME NEW w \in Workers, NEW extra \in ExtraAttempts, RecordFailure(w,
      extra) PROVE LifecycleStep
  BY <1>11, <1>a, FailedRefines, RowsUnchanged DEF RecordFailure
<1>12. ASSUME NEW w \in Workers, PublishRetry(w) PROVE LifecycleStep
  BY <1>12, RowsUnchanged DEF PublishRetry
<1>13. ASSUME NEW w \in Workers, PublishRetryFails(w) PROVE LifecycleStep
  BY <1>13, RowsUnchanged DEF PublishRetryFails
<1>14. ASSUME NEW w \in Workers, Ack(w) PROVE LifecycleStep
  BY <1>14, RowsUnchanged DEF Ack
<1>15. ASSUME NEW w \in Workers, NEW b \in BOOLEAN, ClaimFails(w, b) PROVE
      LifecycleStep
  BY <1>15, <1>a, ClaimedRefines, RowsUnchanged DEF ClaimFails
<1>16. ASSUME NEW w \in Workers, NEW b \in BOOLEAN, Notify(w, b) PROVE
      LifecycleStep
  BY <1>16, RowsUnchanged DEF Notify
<1>17. ASSUME NEW w \in Workers, NEW extra \in ExtraAttempts, NEW b \in
      BOOLEAN, RecordFailureFails(w, extra, b) PROVE LifecycleStep
  BY <1>17, <1>a, FailedRefines, RowsUnchanged DEF RecordFailureFails
<1>18. ASSUME NEW w \in Workers, NEW v \in Verdicts, NEW extra \in
      ExtraAttempts, NEW b \in BOOLEAN, SaveFails(w, v, extra, b) PROVE
      LifecycleStep
  BY <1>18, <1>a, CompletedRefines, RowsUnchanged DEF SaveFails
<1>19. ASSUME NEW w \in Workers, Crash(w) PROVE LifecycleStep
  BY <1>19, RowsUnchanged DEF Crash
<1>20. ASSUME NEW w \in Workers, Redeliver(w) PROVE LifecycleStep
  BY <1>20, RowsUnchanged DEF Redeliver
<1>21. ASSUME UNCHANGED vars PROVE LifecycleStep
  BY <1>21, RowsUnchanged DEF vars
<1>22. QED
  BY <1>1, <1>2, <1>3, <1>4, <1>5, <1>6, <1>7, <1>8, <1>9, <1>10, <1>11,
     <1>12, <1>13, <1>14, <1>15, <1>16, <1>17, <1>18, <1>19, <1>20, <1>21
     DEF Next, DispatchStep, AgentStep, WorkerStep

(* The pipeline implements the life cycle of a ticket: whatever brokers,    *)
(* workers and faults do, the tables only ever change as it allows.         *)
THEOREM PipelineImplementsLifecycle == Spec => ImplementsLifecycle
<1>1. Init => Lifecycle!Init
  BY DEF Init, Lifecycle!Init
<1>2. Inv /\ [Next]_vars => [Lifecycle!Next]_(Lifecycle!lvars)
  BY StepRefines DEF Inv, LifecycleStep
<1> QED
  BY <1>1, <1>2, Invariance, PTL DEF Spec, ImplementsLifecycle, Lifecycle!Spec

(* A committed row is never removed: the life cycle has no such step. *)
LEMMA RowsStay ==
  ASSUME Inv, [Next]_vars, NEW t \in Tickets, Exists(t)
  PROVE  Exists(t)'
<1>1. [Lifecycle!Next]_(Lifecycle!lvars)
  BY StepRefines DEF Inv, LifecycleStep
<1> QED
  BY <1>1 DEF Inv, TypeInv, TypeOK, Exists, TicketStatus, Lifecycle!Next,
     Lifecycle!Open, Lifecycle!Claim, Lifecycle!Complete, Lifecycle!Requeue,
     Lifecycle!Fail, Lifecycle!AgentSetStatus, Lifecycle!AgentCorrect,
     Lifecycle!TicketStatus, Lifecycle!lvars

(* Where the queue drains for good, every committed ticket settles or has   *)
(* met an incident: nobody carries it, and orphans are never silent.        *)
THEOREM DrainingSettles == Spec /\ QueueDrains => EverySettles
<1> DEFINE Met(t) == Settled(t) \/ incidents[t] # {}
<1>1. ASSUME NEW t \in Tickets
      PROVE  Spec /\ QueueDrains => (Exists(t) ~> Met(t))
  <2>1. Inv /\ Drained /\ Exists(t) => Met(t)
    BY DEF Inv, Drained, NoSilentOrphan, Carried
  <2>2. Inv /\ Exists(t) /\ [Next]_vars => Exists(t)'
    BY RowsStay
  <2> HIDE DEF Met
  <2> QED
    BY <2>1, <2>2, Invariance, PTL DEF Spec, QueueDrains
<1> QED
  BY <1>1 DEF EverySettles
=============================================================================
