------------------------------ MODULE Accounts ------------------------------
(***************************************************************************)
(* The users table: sign-up, the create_admin script and an                *)
(* administrator's changes of role and activity.  None of them locks a     *)
(* row: each looks first, and writes in a later step what it has decided   *)
(* on (while sign-up hashes a password in a thread).  SQLAlchemy writes    *)
(* the columns whose value differs from the one that was read, no others,  *)
(* and the unique index on users.email has the last word on inserts.       *)
(*                                                                         *)
(* A process inserts at most one row, so rows are named by their inserter. *)
(***************************************************************************)
CONSTANTS
  Processes,  \* requests and runs of the script
  People,     \* owners of e-mail addresses
  NoRow       \* no row, or nothing found

Spelling == {"folded", "mixed"}
Address == [person : People, spelling : Spelling]
Role == {"customer", "support_agent", "admin"}
Row == [email : Address, role : Role, active : BOOLEAN, password : Processes]
ASSUME NoRowAssumption == NoRow \notin Row

VARIABLES
  users,   \* the row each process has inserted, or NoRow
  pc,      \* where each process is
  goal,    \* what it is to do: a new address, or new values of two columns
  target,  \* the row it has found
  seen     \* the content of that row when it was found

vars == <<users, pc, goal, target, seen>>

(* An administrator changes one column; the script sets both. *)
SignUpGoal == [kind : {"signup"}, email : Address]
ScriptGoal == [kind : {"script"}, email : Address]
RoleGoal == [kind : {"role"}, role : Role]
ActiveGoal == [kind : {"active"}, active : BOOLEAN]
NoGoal == [kind |-> "none"]

TypeOK ==
  /\ users \in [Processes -> Row \cup {NoRow}]
  /\ pc \in [Processes -> {"idle", "found", "missing", "created", "conflict",
                           "changed", "error"}]
  /\ goal \in [Processes -> SignUpGoal \cup ScriptGoal \cup RoleGoal
                              \cup ActiveGoal \cup {NoGoal}]
  /\ target \in [Processes -> Processes \cup {NoRow}]
  /\ seen \in [Processes -> Row \cup {NoRow}]

Init ==
  /\ users = [p \in Processes |-> NoRow]
  /\ pc = [p \in Processes |-> "idle"]
  /\ goal = [p \in Processes |-> NoGoal]
  /\ target = [p \in Processes |-> NoRow]
  /\ seen = [p \in Processes |-> NoRow]

Rows == {p \in Processes : users[p] # NoRow}

(* str.casefold: all spellings of an address become one. *)
Folded(a) == [a EXCEPT !.spelling = "folded"]

(* get_by_email compares with the folded address. *)
Holders(a) == {u \in Rows : users[u].email = Folded(a)}

Goto(p, s) == pc' = [pc EXCEPT ![p] = s]

Find(p, g, u) ==
  /\ goal' = [goal EXCEPT ![p] = g]
  /\ target' = [target EXCEPT ![p] = u]
  /\ seen' = [seen EXCEPT ![p] = users[u]]
  /\ Goto(p, "found")
  /\ UNCHANGED users

Miss(p, g) ==
  /\ goal' = [goal EXCEPT ![p] = g]
  /\ Goto(p, "missing")
  /\ UNCHANGED <<users, target, seen>>

(* register: the request schema has folded the address already. *)
SignUp(p, a) ==
  LET g == [kind |-> "signup", email |-> Folded(a)]
  IN  /\ pc[p] = "idle"
      /\ IF Holders(a) = {}
           THEN Miss(p, g)
           ELSE /\ goal' = [goal EXCEPT ![p] = g]
                /\ Goto(p, "conflict")
                /\ UNCHANGED <<users, target, seen>>

(* The script takes the address as it was typed. *)
CreateAdmin(p, a) ==
  LET g == [kind |-> "script", email |-> a]
  IN  /\ pc[p] = "idle"
      /\ \/ \E u \in Holders(a) : Find(p, g, u)
         \/ Holders(a) = {} /\ Miss(p, g)

(* PATCH /admin/users/{id}/role and /active, by an active administrator. *)
Change(p, g, u) ==
  /\ pc[p] = "idle"
  /\ \E v \in Rows : users[v].role = "admin" /\ users[v].active
  /\ u \in Rows
  /\ Find(p, g, u)

(* Mutant: the script stores the address as it was typed. *)
NewRow_Typed(p) ==
  [email |-> goal[p].email, password |-> p, active |-> TRUE,
   role |-> IF goal[p].kind = "script" THEN "admin" ELSE "customer"]

(* Mutant: a column without which the row is not whole is forgotten. *)
NewRow_NoActivity(p) ==
  [email |-> Folded(goal[p].email), password |-> p,
   role |-> IF goal[p].kind = "script" THEN "admin" ELSE "customer"]

NewRow(p) ==
  [email |-> Folded(goal[p].email), password |-> p, active |-> TRUE,
   role |-> IF goal[p].kind = "script" THEN "admin" ELSE "customer"]

Insert(p) ==
  /\ pc[p] = "missing"
  /\ \A u \in Rows : users[u].email # NewRow(p).email
  /\ users' = [users EXCEPT ![p] = NewRow(p)]
  /\ Goto(p, "created")
  /\ UNCHANGED <<goal, target, seen>>

(* Mutant: a violation of the unique index is taken for success. *)
InsertRefused_Ignored(p) ==
  /\ pc[p] = "missing"
  /\ \E u \in Rows : users[u].email = NewRow(p).email
  /\ Goto(p, "created")
  /\ UNCHANGED <<users, goal, target, seen>>

(* The address was taken meanwhile: IntegrityError, which only sign-up      *)
(* turns into an answer.                                                    *)
InsertRefused(p) ==
  /\ pc[p] = "missing"
  /\ \E u \in Rows : users[u].email = NewRow(p).email
  /\ Goto(p, IF goal[p].kind = "signup" THEN "conflict" ELSE "error")
  /\ UNCHANGED <<users, goal, target, seen>>

(* The row as the process wants it. *)
Wanted(p) ==
  CASE goal[p].kind = "script" -> [seen[p] EXCEPT !.role = "admin", !.active = TRUE]
    [] goal[p].kind = "role" -> [seen[p] EXCEPT !.role = goal[p].role]
    [] goal[p].kind = "active" -> [seen[p] EXCEPT !.active = goal[p].active]

(* Mutant: UPDATE writes the whole row as it was read. *)
Merged_WholeRow(p) == Wanted(p)

(* UPDATE sets the columns that differ from what was read. *)
Merged(p) ==
  [c \in DOMAIN seen[p] |->
     IF Wanted(p)[c] # seen[p][c] THEN Wanted(p)[c] ELSE users[target[p]][c]]

Update(p) ==
  /\ pc[p] = "found"
  /\ users' = [users EXCEPT ![target[p]] = Merged(p)]
  /\ Goto(p, "changed")
  /\ UNCHANGED <<goal, target, seen>>

(* Any other database error; the commit may have gone through. *)
Fails(p) ==
  /\ pc[p] \in {"missing", "found"}
  /\ Goto(p, "error")
  /\ \/ UNCHANGED users
     \/ /\ pc[p] = "missing"
        /\ \A u \in Rows : users[u].email # NewRow(p).email
        /\ users' = [users EXCEPT ![p] = NewRow(p)]
     \/ pc[p] = "found" /\ users' = [users EXCEPT ![target[p]] = Merged(p)]
  /\ UNCHANGED <<goal, target, seen>>

Next ==
  \E p \in Processes :
    \/ \E a \in Address : SignUp(p, a) \/ CreateAdmin(p, a)
    \/ \E g \in RoleGoal \cup ActiveGoal, u \in Rows : Change(p, g, u)
    \/ Insert(p)
    \/ InsertRefused(p)
    \/ Update(p)
    \/ Fails(p)

Spec == Init /\ [][Next]_vars

(***************************************************************************)
(* Properties                                                              *)
(***************************************************************************)

(* No two accounts share an address, however it is spelled and whoever      *)
(* looks before the other has written.                                      *)
OneAccountPerAddress ==
  \A u, v \in Rows :
    Folded(users[u].email) = Folded(users[v].email) => u = v

(* What sign-up answers is so: "created" means an account with this         *)
(* address and this password, a conflict means the address is somebody's.   *)
SignUpAnswersTruly ==
  \A p \in Processes :
    goal[p].kind = "signup" =>
      /\ pc[p] = "created" =>
           \E u \in Rows : users[u].email = goal[p].email /\ users[u].password = p
      /\ pc[p] = "conflict" =>
           \E u \in Rows : users[u].email = goal[p].email

(* A change of role never undoes a concurrent change of activity, nor the   *)
(* other way round.                                                         *)
ChangesAreIndependent ==
  [][\A p \in Processes : pc[p] = "found" /\ pc'[p] # pc[p] =>
       \A u \in Rows :
         /\ goal[p].kind = "role" => users'[u].active = users[u].active
         /\ goal[p].kind = "active" => users'[u].role = users[u].role]_vars
=============================================================================
