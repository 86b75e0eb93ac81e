--------------------------- MODULE QueueRouting ---------------------------
(***************************************************************************)
(* Routing of classified tickets to department queues, and the two data    *)
(* migrations that first sent every ticket to the support queue and then   *)
(* brought the departments back.  Rows are written by classification and   *)
(* by agents before, between and after the migrations; where no provider   *)
(* is configured, the local rules classify the ticket's text.              *)
(***************************************************************************)
EXTENDS LocalClassifier

CONSTANTS
  Tickets,  \* ticket rows
  Null      \* a NULL column

Urgency == {"low", "medium", "high", "critical"}
Category == {"technical", "bug", "billing", "account", "general"}
Queue == {"engineering", "finance", "customer-success", "support", "emergency"}
Status == {"pending", "processing", "complete", "failed"}

VARIABLES
  text,      \* tickets.title and description, never changed
  status,    \* tickets.status
  urgency,   \* tickets.urgency
  category,  \* tickets.category
  queue,     \* tickets.assigned_queue
  revision,  \* the Alembic revision the database is at
  restored   \* history: rows that were COMPLETE when 0007 ran

vars == <<text, status, urgency, category, queue, revision, restored>>

TypeOK ==
  /\ text \in [Tickets -> Texts]
  /\ status \in [Tickets -> Status]
  /\ urgency \in [Tickets -> Urgency \cup {Null}]
  /\ category \in [Tickets -> Category \cup {Null}]
  /\ queue \in [Tickets -> Queue \cup {Null}]
  /\ revision \in {"0005", "0006", "0007"}
  /\ restored \in SUBSET Tickets

Init ==
  /\ text \in [Tickets -> Texts]
  /\ status = [t \in Tickets |-> "pending"]
  /\ urgency = [t \in Tickets |-> Null]
  /\ category = [t \in Tickets |-> Null]
  /\ queue = [t \in Tickets |-> Null]
  /\ revision = "0005"
  /\ restored = {}

CategoryQueues ==
  [c \in Category |->
     CASE c \in {"technical", "bug"} -> "engineering"
       [] c = "billing" -> "finance"
       [] c = "account" -> "customer-success"
       [] c = "general" -> "support"]

(* Mutant: a ticket goes to a queue with the name of its category. *)
AssignQueue_ByName(u, c) == IF u = "critical" THEN "emergency" ELSE c

(* Urgency comes first: a critical ticket goes to the emergency queue. *)
AssignQueue(u, c) == IF u = "critical" THEN "emergency" ELSE CategoryQueues[c]

(* Mutant: a correction leaves the ticket in the queue it was in. *)
Store_KeepsQueue(t, u, c) ==
  /\ urgency' = [urgency EXCEPT ![t] = u]
  /\ category' = [category EXCEPT ![t] = c]
  /\ queue' = [queue EXCEPT ![t] = IF @ = Null THEN AssignQueue(u, c) ELSE @]
  /\ UNCHANGED <<text, revision, restored>>

(* The columns a classification or its correction writes. *)
Store(t, u, c) ==
  /\ urgency' = [urgency EXCEPT ![t] = u]
  /\ category' = [category EXCEPT ![t] = c]
  /\ queue' = [queue EXCEPT ![t] = AssignQueue(u, c)]
  /\ UNCHANGED <<text, revision, restored>>

Classify(t, u, c) ==
  /\ status[t] # "complete"
  /\ Store(t, u, c)
  /\ status' = [status EXCEPT ![t] = "complete"]

(* No credential: the local rules take the provider's place. *)
ClassifyLocally(t) ==
  Classify(t, LocalUrgency(text[t]), LocalCategory(text[t]))

Correct(t, u, c) == Store(t, u, c) /\ UNCHANGED status

UpdateStatus(t, s) ==
  /\ status' = [status EXCEPT ![t] = s]
  /\ UNCHANGED <<text, urgency, category, queue, revision, restored>>

(* "Route every existing classified ticket to the central support queue." *)
Upgrade0006 ==
  /\ revision = "0005"
  /\ revision' = "0006"
  /\ queue' = [t \in Tickets |-> IF queue[t] = Null THEN Null ELSE "support"]
  /\ UNCHANGED <<text, status, urgency, category, restored>>

(* Mutant: the migration looks at the category only. *)
RestoredQueue_NoUrgency(t) ==
  IF category[t] \in Category THEN CategoryQueues[category[t]] ELSE "support"

(* The CASE expression of 0007; an unknown or NULL category is "support". *)
RestoredQueue(t) ==
  CASE urgency[t] = "critical" -> "emergency"
    [] urgency[t] # "critical" /\ category[t] \in Category ->
         CategoryQueues[category[t]]
    [] OTHER -> "support"

Upgrade0007 ==
  /\ revision = "0006"
  /\ revision' = "0007"
  /\ queue' = [t \in Tickets |->
                 IF status[t] = "complete" THEN RestoredQueue(t) ELSE queue[t]]
  /\ restored' = {t \in Tickets : status[t] = "complete"}
  /\ UNCHANGED <<text, status, urgency, category>>

Downgrade0007 ==
  /\ revision = "0007"
  /\ revision' = "0006"
  /\ queue' = [t \in Tickets |-> IF queue[t] = Null THEN Null ELSE "support"]
  /\ restored' = {}
  /\ UNCHANGED <<text, status, urgency, category>>

(* 0006 cannot be undone: its downgrade leaves the rows alone. *)
Downgrade0006 ==
  /\ revision = "0006"
  /\ revision' = "0005"
  /\ UNCHANGED <<text, status, urgency, category, queue, restored>>

Next ==
  \/ \E t \in Tickets, u \in Urgency, c \in Category :
       Classify(t, u, c) \/ Correct(t, u, c)
  \/ \E t \in Tickets : ClassifyLocally(t)
  \/ \E t \in Tickets, s \in Status : UpdateStatus(t, s)
  \/ Upgrade0006 \/ Upgrade0007 \/ Downgrade0006 \/ Downgrade0007

Spec == Init /\ [][Next]_vars

(***************************************************************************)
(* Properties                                                              *)
(***************************************************************************)
Routed(t) ==
  urgency[t] # Null => queue[t] = AssignQueue(urgency[t], category[t])

(* The two routing rules, one in Python and one in SQL, agree: a row that   *)
(* 0007 restored is where the service would put it, and stays so through    *)
(* later corrections and status changes.                                    *)
RestoredIsRouted == revision = "0007" => \A t \in restored : Routed(t)

(* What max() over the dictionary ends with is the reference answer: the    *)
(* first category that no other has more terms than, or the general one     *)
(* for a text without a term - on which its queue depends.                  *)
LocalIsFirstBest ==
  \A t \in Tickets :
    LET n == [i \in DOMAIN Order |-> text[t].scores[Order[i]]]
        c == LocalCategory(text[t])
    IN  IF \A i \in DOMAIN n : n[i] = 0
          THEN c = "general"
          ELSE \E i \in DOMAIN n :
                 /\ c = Order[i]
                 /\ \A j \in DOMAIN n : n[j] <= n[i] /\ (j < i => n[j] < n[i])
=============================================================================
