------------------------- MODULE QueueRoutingProofs -------------------------
(***************************************************************************)
(* Proofs about QueueRouting for any rows and texts of any length.         *)
(***************************************************************************)
EXTENDS QueueRouting, TLAPS

(* A classified row has both of its columns. *)
BothColumns == \A t \in Tickets : urgency[t] # Null => category[t] \in Category

RoutingInv == TypeOK /\ BothColumns /\ RestoredIsRouted

(* Every urgency and category has a department queue. *)
LEMMA AssignQueueType ==
  ASSUME NEW u \in Urgency, NEW c \in Category
  PROVE  AssignQueue(u, c) \in Queue
BY DEF AssignQueue, CategoryQueues, Category, Queue

(* So has every row in SQL, whatever its columns are. *)
LEMMA RestoredQueueType ==
  ASSUME NEW t \in Tickets
  PROVE  RestoredQueue(t) \in Queue
BY DEF RestoredQueue, CategoryQueues, Category, Queue

(* The local rules answer with a category and an urgency of the schema. *)
LEMMA LocalTypes ==
  ASSUME NEW x \in Texts
  PROVE  LocalCategory(x) \in Category /\ LocalUrgency(x) \in Urgency
<1>1. LocalCategory(x) \in Category
  BY DEF LocalCategory, Winner, Order, Category
<1>2. LocalUrgency(x) \in Urgency
  BY DEF LocalUrgency, Urgency
<1> QED
  BY <1>1, <1>2

(* On a classified row the CASE of 0007 and RoutingService agree. *)
LEMMA TheTwoRulesAgree ==
  ASSUME TypeOK, BothColumns, NEW t \in Tickets, urgency[t] # Null
  PROVE  RestoredQueue(t) = AssignQueue(urgency[t], category[t])
<1>1. category[t] \in Category
  BY DEF BothColumns
<1>2. CASE urgency[t] = "critical"
  BY <1>2 DEF RestoredQueue, AssignQueue
<1>3. CASE urgency[t] # "critical"
  BY <1>1, <1>3 DEF RestoredQueue, AssignQueue
<1> QED
  BY <1>2, <1>3

(* What a classification or a correction stores is routed. *)
LEMMA StoreInv ==
  ASSUME RoutingInv, NEW t \in Tickets, NEW u \in Urgency, NEW c \in Category,
         Store(t, u, c), status' \in [Tickets -> Status]
  PROVE  RoutingInv'
<1>1. AssignQueue(u, c) \in Queue
  BY AssignQueueType
<1>2. TypeOK'
  BY <1>1 DEF RoutingInv, TypeOK, Store
<1>3. BothColumns'
  BY DEF RoutingInv, TypeOK, BothColumns, Store
<1>4. RestoredIsRouted'
  <2> SUFFICES ASSUME revision = "0007", NEW s \in restored PROVE Routed(s)'
    BY DEF RestoredIsRouted, Store
  <2>1. s \in Tickets
    BY DEF RoutingInv, TypeOK
  <2>2. CASE s = t
    BY <2>1, <2>2 DEF RoutingInv, TypeOK, Store, Routed
  <2>3. CASE s # t
    <3>1. urgency'[s] = urgency[s] /\ category'[s] = category[s]
          /\ queue'[s] = queue[s]
      BY <2>1, <2>3 DEF RoutingInv, TypeOK, Store
    <3> QED
      BY <3>1 DEF RoutingInv, RestoredIsRouted, Routed
  <2> QED
    BY <2>2, <2>3
<1> QED
  BY <1>2, <1>3, <1>4 DEF RoutingInv

(* Classifications, corrections and migrations keep restored rows routed. *)
LEMMA RoutingStep == RoutingInv /\ [Next]_vars => RoutingInv'
<1> SUFFICES ASSUME RoutingInv, [Next]_vars PROVE RoutingInv'
  OBVIOUS
<1> USE DEF RoutingInv, TypeOK
<1>1. ASSUME NEW t \in Tickets, NEW u \in Urgency, NEW c \in Category,
             Classify(t, u, c)
      PROVE  RoutingInv'
  <2>1. Store(t, u, c) /\ status' \in [Tickets -> Status]
    BY <1>1 DEF Classify, Status
  <2> QED
    BY <2>1, StoreInv
<1>2. ASSUME NEW t \in Tickets, NEW u \in Urgency, NEW c \in Category,
             Correct(t, u, c)
      PROVE  RoutingInv'
  BY <1>2, StoreInv DEF Correct
<1>3. ASSUME NEW t \in Tickets, ClassifyLocally(t) PROVE RoutingInv'
  <2>1. text[t] \in Texts
    OBVIOUS
  <2> QED
    BY <1>1, <1>3, <2>1, LocalTypes DEF ClassifyLocally
<1>4. ASSUME NEW t \in Tickets, NEW s \in Status, UpdateStatus(t, s)
      PROVE  RoutingInv'
  BY <1>4 DEF UpdateStatus, BothColumns, RestoredIsRouted, Routed, AssignQueue,
              CategoryQueues
<1>5. ASSUME Upgrade0006 PROVE RoutingInv'
  BY <1>5 DEF Upgrade0006, BothColumns, RestoredIsRouted, Queue
<1>6. ASSUME Upgrade0007 PROVE RoutingInv'
  <2>1. TypeOK' /\ BothColumns'
    BY <1>6, RestoredQueueType DEF Upgrade0007, BothColumns
  <2>2. RestoredIsRouted'
    <3> SUFFICES ASSUME NEW t \in Tickets, status[t] = "complete",
                        urgency[t] # Null
                 PROVE  queue'[t] = AssignQueue(urgency[t], category[t])
      BY <1>6 DEF Upgrade0007, RestoredIsRouted, Routed, AssignQueue,
                  CategoryQueues
    <3> QED
      BY <1>6, TheTwoRulesAgree DEF Upgrade0007
  <2> QED
    BY <2>1, <2>2
<1>7. ASSUME Downgrade0007 PROVE RoutingInv'
  BY <1>7 DEF Downgrade0007, BothColumns, RestoredIsRouted, Queue
<1>8. ASSUME Downgrade0006 PROVE RoutingInv'
  BY <1>8 DEF Downgrade0006, BothColumns, RestoredIsRouted
<1>9. ASSUME UNCHANGED vars PROVE RoutingInv'
  BY <1>9 DEF vars, BothColumns, RestoredIsRouted, Routed, AssignQueue,
              CategoryQueues
<1> QED
  BY <1>1, <1>2, <1>3, <1>4, <1>5, <1>6, <1>7, <1>8, <1>9 DEF Next

(* The inductive invariant, from an empty table on. *)
THEOREM RoutingInvariance == Spec => []RoutingInv
<1>1. Init => RoutingInv
  BY DEF Init, RoutingInv, TypeOK, BothColumns, RestoredIsRouted, Status
<1> QED
  BY <1>1, RoutingStep, PTL DEF Spec

(* Columns, queues and revisions keep their types. *)
THEOREM TypeCorrectness == Spec => []TypeOK
<1>1. RoutingInv => TypeOK
  BY DEF RoutingInv
<1> QED
  BY <1>1, RoutingInvariance, PTL

(* A row 0007 has restored is where RoutingService would put it, for good. *)
THEOREM RestoredRowsAreRouted == Spec => []RestoredIsRouted
<1>1. RoutingInv => RestoredIsRouted
  BY DEF RoutingInv
<1> QED
  BY <1>1, RoutingInvariance, PTL

(* The local rules name the first category with most terms, in texts of any *)
(* length.                                                                  *)
THEOREM FirstBestIsChosen == Spec => []LocalIsFirstBest
<1>1. ASSUME TypeOK PROVE LocalIsFirstBest
  <2> SUFFICES ASSUME NEW t \in Tickets
               PROVE  LET n == [i \in DOMAIN Order |-> text[t].scores[Order[i]]]
                          c == LocalCategory(text[t])
                      IN  IF \A i \in DOMAIN n : n[i] = 0
                            THEN c = "general"
                            ELSE \E i \in DOMAIN n :
                                   /\ c = Order[i]
                                   /\ \A j \in DOMAIN n :
                                        n[j] <= n[i] /\ (j < i => n[j] < n[i])
    BY DEF LocalIsFirstBest
  <2> DEFINE n == [i \in DOMAIN Order |-> text[t].scores[Order[i]]]
             c == LocalCategory(text[t])
  <2>1. DOMAIN Order = 1 .. 4 /\ DOMAIN n = 1 .. 4
    BY DEF Order
  <2>2. n \in [1 .. 4 -> Nat]
    <3>1. text[t].scores \in [Scored -> 0 .. MaxTerms]
      BY <1>1 DEF TypeOK, Texts
    <3>2. \A i \in 1 .. 4 : Order[i] \in Scored
      BY <2>1 DEF Scored
    <3> QED
      BY <2>1, <3>1, <3>2, MaxTermsAssumption
  <2>3. \A i \in 1 .. 4 : text[t].scores[Order[i]] = n[i]
    BY <2>1
  <2> HIDE DEF n
  <2> DEFINE k2 == IF n[2] > n[1] THEN 2 ELSE 1
             k3 == IF n[3] > n[k2] THEN 3 ELSE k2
             k4 == IF n[4] > n[k3] THEN 4 ELSE k3
  <2>4. /\ k4 \in 1 .. 4
        /\ \A j \in 1 .. 4 : n[j] <= n[k4] /\ (j < k4 => n[j] < n[k4])
    BY <2>2
  <2>5. c = IF n[k4] = 0 THEN "general" ELSE Order[k4]
    <3>1. Winner(text[t].scores, Order[2], Order[1]) = Order[k2]
      BY <2>3 DEF Winner, Better
    <3>2. k2 \in 1 .. 4 /\ k3 \in 1 .. 4
      OBVIOUS
    <3> HIDE DEF k2
    <3>3. Winner(text[t].scores, Order[3], Order[k2]) = Order[k3]
      BY <2>3, <3>2 DEF Winner, Better
    <3> HIDE DEF k3
    <3>4. Winner(text[t].scores, Order[4], Order[k3]) = Order[k4]
      BY <2>3, <3>2 DEF Winner, Better
    <3> QED
      BY <2>3, <2>4, <3>1, <3>3, <3>4 DEF LocalCategory
  <2> HIDE DEF k4
  <2>6. CASE \A i \in DOMAIN n : n[i] = 0
    <3>1. c = "general"
      BY <2>1, <2>4, <2>5, <2>6
    <3> QED
      BY <2>6, <3>1 DEF n
  <2>7. CASE ~(\A i \in DOMAIN n : n[i] = 0)
    <3>1. n[k4] # 0
      BY <2>1, <2>2, <2>4, <2>7
    <3>2. k4 \in DOMAIN n /\ c = Order[k4]
      BY <2>1, <2>4, <2>5, <3>1
    <3>3. \A j \in DOMAIN n : n[j] <= n[k4] /\ (j < k4 => n[j] < n[k4])
      BY <2>1, <2>4
    <3> QED
      BY <2>7, <3>2, <3>3 DEF n
  <2> QED
    BY <2>6, <2>7
<1>2. TypeOK => LocalIsFirstBest
  BY <1>1
<1> QED
  BY <1>2, TypeCorrectness, PTL
=============================================================================
