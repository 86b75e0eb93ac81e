--------------------------- MODULE AccountsProofs ---------------------------
(***************************************************************************)
(* Proofs about Accounts for any number of processes and people.           *)
(***************************************************************************)
EXTENDS Accounts, TLAPS

(* Folding is idempotent: a folded address stays as it is. *)
LEMMA FoldedFacts ==
  ASSUME NEW a \in Address
  PROVE  /\ Folded(a) \in Address
         /\ Folded(Folded(a)) = Folded(a)
BY DEF Address, Folded, Spelling

(* What a process has found when it comes to write: a process that inserts  *)
(* has no row yet, one that updates has a row before it.                    *)
LookedUp ==
  \A p \in Processes :
    /\ pc[p] \in {"idle", "missing"} => users[p] = NoRow
    /\ pc[p] = "missing" => goal[p] \in SignUpGoal \cup ScriptGoal
    /\ pc[p] = "found" => /\ goal[p] \in ScriptGoal \cup RoleGoal \cup ActiveGoal
                          /\ target[p] \in Rows
                          /\ seen[p] \in Row
    /\ goal[p].kind = "signup" => goal[p].email = Folded(goal[p].email)

(* Stored addresses are folded, and the unique index holds. *)
FoldedAndUnique ==
  /\ \A u \in Rows : users[u].email = Folded(users[u].email)
  /\ \A u, v \in Rows : users[u].email = users[v].email => u = v

Inv == TypeOK /\ LookedUp /\ FoldedAndUnique /\ SignUpAnswersTruly

(* The row a process inserts is whole, and has the folded address and the   *)
(* process's own password.                                                  *)
LEMMA NewRowFacts ==
  ASSUME TypeOK, LookedUp, NEW p \in Processes, pc[p] = "missing"
  PROVE  /\ NewRow(p) \in Row
         /\ NewRow(p) # NoRow
         /\ NewRow(p).email = Folded(goal[p].email)
         /\ NewRow(p).email = Folded(NewRow(p).email)
         /\ NewRow(p).password = p
<1>1. goal[p].email \in Address
  BY DEF LookedUp, SignUpGoal, ScriptGoal
<1>2. Folded(goal[p].email) \in Address
      /\ Folded(Folded(goal[p].email)) = Folded(goal[p].email)
  BY <1>1, FoldedFacts
<1>3. NewRow(p) \in Row
  BY <1>2 DEF NewRow, Row, Role
<1> QED
  BY <1>2, <1>3, NoRowAssumption DEF NewRow

(* A row that was there has its type. *)
LEMMA RowFacts ==
  ASSUME TypeOK, NEW u \in Rows
  PROVE  u \in Processes /\ users[u] \in Row
BY DEF TypeOK, Rows

(* The wanted row differs from what was read in role and activity at most. *)
LEMMA WantedFacts ==
  ASSUME TypeOK, LookedUp, NEW p \in Processes, pc[p] = "found"
  PROVE  /\ Wanted(p) \in Row
         /\ Wanted(p).email = seen[p].email
         /\ Wanted(p).password = seen[p].password
         /\ goal[p].kind = "role" => Wanted(p).active = seen[p].active
         /\ goal[p].kind = "active" => Wanted(p).role = seen[p].role
<1>1. seen[p] \in Row
  BY DEF LookedUp
<1>2. CASE goal[p] \in ScriptGoal
  BY <1>1, <1>2 DEF Wanted, Row, Role, ScriptGoal
<1>3. CASE goal[p] \in RoleGoal
  BY <1>1, <1>3 DEF Wanted, Row, Role, RoleGoal
<1>4. CASE goal[p] \in ActiveGoal
  BY <1>1, <1>4 DEF Wanted, Row, Role, ActiveGoal
<1> QED
  BY <1>2, <1>3, <1>4 DEF LookedUp

(* An UPDATE keeps the address and the password of the row, and the column  *)
(* it was not asked to change.                                              *)
LEMMA MergedFacts ==
  ASSUME TypeOK, LookedUp, NEW p \in Processes, pc[p] = "found"
  PROVE  /\ Merged(p) \in Row
         /\ Merged(p) # NoRow
         /\ Merged(p).email = users[target[p]].email
         /\ Merged(p).password = users[target[p]].password
         /\ goal[p].kind = "role" => Merged(p).active = users[target[p]].active
         /\ goal[p].kind = "active" => Merged(p).role = users[target[p]].role
<1>1. seen[p] \in Row /\ target[p] \in Rows
  BY DEF LookedUp
<1>2. users[target[p]] \in Row
  BY <1>1, RowFacts
<1>3. Merged(p) \in Row
  BY <1>1, <1>2, WantedFacts DEF Merged, Row
<1>4. /\ Merged(p).email = users[target[p]].email
      /\ Merged(p).password = users[target[p]].password
      /\ goal[p].kind = "role" => Merged(p).active = users[target[p]].active
      /\ goal[p].kind = "active" => Merged(p).role = users[target[p]].role
  BY <1>1, <1>2, WantedFacts DEF Merged, Row
<1> QED
  BY <1>3, <1>4, NoRowAssumption

(* At the beginning there is no account and no process. *)
LEMMA InitInv == Init => Inv
BY DEF Init, Inv, TypeOK, LookedUp, FoldedAndUnique, SignUpAnswersTruly, Rows,
       NoGoal

(* What a step may do to the table. *)
Inserts(p) ==
  /\ pc[p] = "missing"
  /\ \A u \in Rows : users[u].email # NewRow(p).email
  /\ users' = [users EXCEPT ![p] = NewRow(p)]

Updates(p) ==
  /\ pc[p] = "found"
  /\ users' = [users EXCEPT ![target[p]] = Merged(p)]

(* Both leave every other row, and every address and password, alone. *)
LEMMA TableFacts ==
  ASSUME Inv, NEW p \in Processes,
         UNCHANGED users \/ Inserts(p) \/ Updates(p)
  PROVE  /\ users' \in [Processes -> Row \cup {NoRow}]
         /\ Rows \subseteq Rows'
         /\ \A u \in Rows : /\ users'[u].email = users[u].email
                            /\ users'[u].password = users[u].password
         /\ \A q \in Processes \ {p} : users[q] = NoRow => users'[q] = NoRow
         /\ FoldedAndUnique'
<1> USE DEF Inv
<1>1. CASE UNCHANGED users
  BY <1>1 DEF TypeOK, Rows, FoldedAndUnique
<1>2. CASE Inserts(p)
  <2>1. users[p] = NoRow
    BY <1>2 DEF Inserts, LookedUp
  <2>2. users' = [users EXCEPT ![p] = NewRow(p)]
        /\ \A u \in Rows : users[u].email # NewRow(p).email
    BY <1>2 DEF Inserts
  <2>3. NewRow(p) \in Row /\ NewRow(p) # NoRow
        /\ NewRow(p).email = Folded(NewRow(p).email)
    BY <1>2, NewRowFacts DEF Inserts
  <2>4. Rows' = Rows \cup {p} /\ p \notin Rows
    BY <2>1, <2>2, <2>3 DEF Rows, TypeOK
  <2>5. users' \in [Processes -> Row \cup {NoRow}]
    BY <2>2, <2>3 DEF TypeOK
  <2>6. \A u \in Rows : users'[u] = users[u]
    BY <2>2, <2>4 DEF Rows, TypeOK
  <2>7. users'[p] = NewRow(p)
    BY <2>2 DEF TypeOK
  <2>8. \A u \in Rows' : users'[u].email = Folded(users'[u].email)
    BY <2>3, <2>4, <2>6, <2>7 DEF FoldedAndUnique
  <2>9. \A u, v \in Rows' : users'[u].email = users'[v].email => u = v
    BY <2>2, <2>4, <2>6, <2>7 DEF FoldedAndUnique
  <2> QED
    BY <2>2, <2>4, <2>5, <2>6, <2>8, <2>9 DEF FoldedAndUnique, TypeOK
<1>3. CASE Updates(p)
  <2>1. target[p] \in Rows /\ users[target[p]] \in Row /\ target[p] \in Processes
    BY <1>3, RowFacts DEF Updates, LookedUp
  <2>2. users' = [users EXCEPT ![target[p]] = Merged(p)]
    BY <1>3 DEF Updates
  <2>3. /\ Merged(p) \in Row /\ Merged(p) # NoRow
        /\ Merged(p).email = users[target[p]].email
        /\ Merged(p).password = users[target[p]].password
    BY <1>3, MergedFacts DEF Updates
  <2>4. Rows' = Rows
    BY <2>1, <2>2, <2>3 DEF Rows, TypeOK
  <2>5. users' \in [Processes -> Row \cup {NoRow}]
    BY <2>2, <2>3 DEF TypeOK
  <2>6. \A u \in Rows : /\ users'[u].email = users[u].email
                        /\ users'[u].password = users[u].password
    BY <2>1, <2>2, <2>3 DEF Rows, TypeOK
  <2>7. FoldedAndUnique'
    BY <2>4, <2>6 DEF FoldedAndUnique
  <2>8. \A q \in Processes : users[q] = NoRow => users'[q] = NoRow
    BY <2>1, <2>2 DEF TypeOK, Rows
  <2> QED
    BY <2>4, <2>5, <2>6, <2>7, <2>8
<1> QED
  BY <1>1, <1>2, <1>3

(* What sign-up has answered stays true while others change the table. *)
LEMMA AnswersStay ==
  ASSUME Inv, NEW p \in Processes,
         UNCHANGED users \/ Inserts(p) \/ Updates(p),
         NEW q \in Processes, pc'[q] = pc[q], goal'[q] = goal[q],
         goal[q].kind = "signup"
  PROVE  /\ pc'[q] = "created" =>
              \E u \in Rows' : users'[u].email = goal'[q].email
                               /\ users'[u].password = q
         /\ pc'[q] = "conflict" =>
              \E u \in Rows' : users'[u].email = goal'[q].email
<1>1. /\ Rows \subseteq Rows'
      /\ \A u \in Rows : /\ users'[u].email = users[u].email
                         /\ users'[u].password = users[u].password
  BY TableFacts
<1> QED
  BY <1>1 DEF Inv, SignUpAnswersTruly

(* A process that looks leaves the table alone. *)
LEMMA LookInv ==
  ASSUME Inv, NEW p \in Processes,
         \/ \E a \in Address : SignUp(p, a) \/ CreateAdmin(p, a)
         \/ \E g \in RoleGoal \cup ActiveGoal, u \in Rows : Change(p, g, u)
  PROVE  Inv'
<1> USE DEF Inv
<1>1. UNCHANGED users
  BY DEF SignUp, CreateAdmin, Change, Find, Miss
<1>2. pc[p] = "idle" /\ users[p] = NoRow
  BY DEF SignUp, CreateAdmin, Change, LookedUp
<1>3. \A a \in Address : SignUp(p, a) => Inv'
  <2> SUFFICES ASSUME NEW a \in Address, SignUp(p, a) PROVE Inv'
    OBVIOUS
  <2> DEFINE g == [kind |-> "signup", email |-> Folded(a)]
  <2>1. g \in SignUpGoal /\ g.kind = "signup" /\ g.email = Folded(g.email)
    BY FoldedFacts DEF SignUpGoal
  <2>2. goal' = [goal EXCEPT ![p] = g] /\ UNCHANGED <<users, target, seen>>
    BY DEF SignUp, Miss
  <2>3. \/ pc' = [pc EXCEPT ![p] = "missing"]
        \/ /\ pc' = [pc EXCEPT ![p] = "conflict"]
           /\ \E u \in Rows : users[u].email = Folded(a)
    BY DEF SignUp, Miss, Goto, Holders
  <2> HIDE DEF g
  <2>4. TypeOK'
    BY <2>1, <2>2, <2>3 DEF TypeOK
  <2>5. LookedUp'
    BY <1>2, <2>1, <2>2, <2>3 DEF TypeOK, LookedUp, Rows
  <2>6. FoldedAndUnique'
    BY <1>1, TableFacts
  <2>7. \A q \in Processes \ {p} : pc'[q] = pc[q] /\ goal'[q] = goal[q]
    BY <2>2, <2>3 DEF TypeOK
  <2>8. pc'[p] # "created" /\ goal'[p].email = Folded(a)
        /\ (pc'[p] = "conflict" => \E u \in Rows' : users'[u].email = Folded(a))
    BY <2>2, <2>3 DEF TypeOK, Rows, g
  <2>9. SignUpAnswersTruly'
    BY <1>1, <2>7, <2>8, AnswersStay DEF SignUpAnswersTruly
  <2> QED
    BY <2>4, <2>5, <2>6, <2>9
<1>4. ASSUME NEW g \in ScriptGoal \cup RoleGoal \cup ActiveGoal,
             NEW u \in Rows, Find(p, g, u) PROVE Inv'
  <2>1. /\ goal' = [goal EXCEPT ![p] = g]
        /\ target' = [target EXCEPT ![p] = u]
        /\ seen' = [seen EXCEPT ![p] = users[u]]
        /\ pc' = [pc EXCEPT ![p] = "found"]
    BY <1>4 DEF Find, Goto
  <2>2. g.kind # "signup" /\ u \in Processes /\ users[u] \in Row
    BY RowFacts DEF ScriptGoal, RoleGoal, ActiveGoal
  <2>3. TypeOK'
    BY <1>1, <2>1, <2>2 DEF TypeOK
  <2>4. LookedUp'
    BY <1>1, <1>2, <2>1, <2>2 DEF TypeOK, LookedUp, Rows
  <2>5. FoldedAndUnique'
    BY <1>1, TableFacts
  <2>6. \A q \in Processes \ {p} : pc'[q] = pc[q] /\ goal'[q] = goal[q]
    BY <2>1 DEF TypeOK
  <2>7. goal'[p].kind # "signup"
    BY <2>1, <2>2 DEF TypeOK
  <2>8. SignUpAnswersTruly'
    BY <1>1, <2>6, <2>7, AnswersStay DEF SignUpAnswersTruly
  <2> QED
    BY <2>3, <2>4, <2>5, <2>8
<1>5. ASSUME NEW a \in Address, CreateAdmin(p, a) PROVE Inv'
  <2> DEFINE g == [kind |-> "script", email |-> a]
  <2>1. g \in ScriptGoal /\ g.kind = "script"
    BY DEF ScriptGoal
  <2>2. CASE \E u \in Holders(a) : Find(p, g, u)
    BY <1>4, <2>1, <2>2 DEF Holders
  <2>3. CASE Miss(p, g)
    <3> HIDE DEF g
    <3>1. /\ goal' = [goal EXCEPT ![p] = g] /\ pc' = [pc EXCEPT ![p] = "missing"]
          /\ UNCHANGED <<users, target, seen>>
      BY <2>3 DEF Miss, Goto
    <3>2. TypeOK'
      BY <2>1, <3>1 DEF TypeOK
    <3>3. LookedUp'
      BY <1>2, <2>1, <3>1 DEF TypeOK, LookedUp, Rows
    <3>4. FoldedAndUnique'
      BY <1>1, TableFacts
    <3>5. \A q \in Processes \ {p} : pc'[q] = pc[q] /\ goal'[q] = goal[q]
      BY <3>1 DEF TypeOK
    <3>6. goal'[p].kind # "signup"
      BY <2>1, <3>1 DEF TypeOK
    <3>7. SignUpAnswersTruly'
      BY <1>1, <3>5, <3>6, AnswersStay DEF SignUpAnswersTruly
    <3> QED
      BY <3>2, <3>3, <3>4, <3>7
  <2> QED
    BY <1>5, <2>2, <2>3 DEF CreateAdmin
<1>6. ASSUME NEW g \in RoleGoal \cup ActiveGoal, NEW u \in Rows, Change(p, g, u)
      PROVE Inv'
  BY <1>4, <1>6 DEF Change
<1> QED
  BY <1>3, <1>5, <1>6

(* A process that writes ends, whatever the outcome. *)
LEMMA WriteInv ==
  ASSUME Inv, NEW p \in Processes,
         Insert(p) \/ InsertRefused(p) \/ Update(p) \/ Fails(p)
  PROVE  Inv'
<1> USE DEF Inv
<1>1. UNCHANGED users \/ Inserts(p) \/ Updates(p)
  BY DEF Insert, InsertRefused, Update, Fails, Inserts, Updates
<1>2. UNCHANGED <<goal, target, seen>>
  BY DEF Insert, InsertRefused, Update, Fails
<1>3. PICK s \in {"created", "conflict", "changed", "error"} :
        pc' = [pc EXCEPT ![p] = s]
  BY DEF Insert, InsertRefused, Update, Fails, Goto
<1>4. /\ users' \in [Processes -> Row \cup {NoRow}]
      /\ Rows \subseteq Rows'
      /\ \A q \in Processes \ {p} : users[q] = NoRow => users'[q] = NoRow
      /\ FoldedAndUnique'
  BY <1>1, TableFacts
<1>5. TypeOK'
  BY <1>2, <1>3, <1>4 DEF TypeOK
<1>6. LookedUp'
  BY <1>2, <1>3, <1>4 DEF TypeOK, LookedUp
<1>7. \A q \in Processes \ {p} : pc'[q] = pc[q] /\ goal'[q] = goal[q]
  BY <1>2, <1>3 DEF TypeOK
<1>8. ASSUME goal[p].kind = "signup", pc'[p] = "created"
      PROVE  \E u \in Rows' : users'[u].email = goal[p].email
                              /\ users'[u].password = p
  <2>1. Insert(p)
    BY <1>3, <1>8 DEF Insert, InsertRefused, Update, Fails, Goto, TypeOK
  <2>2. users' = [users EXCEPT ![p] = NewRow(p)] /\ pc[p] = "missing"
    BY <2>1 DEF Insert
  <2>3. NewRow(p) # NoRow /\ NewRow(p).email = Folded(goal[p].email)
        /\ NewRow(p).password = p
    BY <2>2, NewRowFacts
  <2>4. p \in Rows' /\ users'[p] = NewRow(p)
    BY <2>2, <2>3 DEF Rows, TypeOK
  <2> QED
    BY <1>8, <2>3, <2>4 DEF LookedUp
<1>9. ASSUME goal[p].kind = "signup", pc'[p] = "conflict"
      PROVE  \E u \in Rows' : users'[u].email = goal[p].email
  <2>1. InsertRefused(p)
    BY <1>3, <1>9 DEF Insert, InsertRefused, Update, Fails, Goto, TypeOK
  <2>2. NewRow(p).email = Folded(goal[p].email)
    BY <2>1, NewRowFacts DEF InsertRefused
  <2> QED
    BY <1>9, <2>1, <2>2 DEF InsertRefused, LookedUp, Rows
<1>10. SignUpAnswersTruly'
  BY <1>1, <1>2, <1>7, <1>8, <1>9, AnswersStay DEF SignUpAnswersTruly
<1> QED
  BY <1>4, <1>5, <1>6, <1>10

(* The invariant holds in every state, for any number of processes.         *)
THEOREM Invariance == Spec => []Inv
<1>1. Inv /\ [Next]_vars => Inv'
  <2> SUFFICES ASSUME Inv, [Next]_vars PROVE Inv'
    OBVIOUS
  <2>1. CASE Next
    BY <2>1, LookInv, WriteInv DEF Next
  <2>2. CASE UNCHANGED vars
    BY <2>2 DEF vars, Inv, TypeOK, LookedUp, FoldedAndUnique,
                SignUpAnswersTruly, Rows
  <2> QED
    BY <2>1, <2>2
<1> QED
  BY InitInv, <1>1, PTL DEF Spec

(* Every variable keeps its type: no step stores a row that is not whole.   *)
THEOREM TypeCorrectness == Spec => []TypeOK
<1>1. Inv => TypeOK
  BY DEF Inv
<1> QED
  BY Invariance, <1>1, PTL

(* register and create_admin never give one person two accounts: stored     *)
(* addresses are folded, so the unique index sees through their spelling.   *)
THEOREM NoSecondAccount == Spec => []OneAccountPerAddress
<1>1. Inv => OneAccountPerAddress
  BY DEF Inv, FoldedAndUnique, OneAccountPerAddress
<1> QED
  BY Invariance, <1>1, PTL

(* What register answers is so, and stays so.                               *)
THEOREM SignUpIsTruthful == Spec => []SignUpAnswersTruly
<1>1. Inv => SignUpAnswersTruly
  BY DEF Inv
<1> QED
  BY Invariance, <1>1, PTL

(* change_role and change_active, each from a row it has read before, do    *)
(* not undo each other.                                                     *)
THEOREM NoLostChange == Spec => ChangesAreIndependent
<1>1. Inv /\ [Next]_vars =>
        \A p \in Processes : pc[p] = "found" /\ pc'[p] # pc[p] =>
          \A u \in Rows :
            /\ goal[p].kind = "role" => users'[u].active = users[u].active
            /\ goal[p].kind = "active" => users'[u].role = users[u].role
  <2> SUFFICES ASSUME Inv, [Next]_vars, NEW p \in Processes,
                      pc[p] = "found", pc'[p] # pc[p], NEW u \in Rows
               PROVE  /\ goal[p].kind = "role" => users'[u].active = users[u].active
                      /\ goal[p].kind = "active" => users'[u].role = users[u].role
    OBVIOUS
  <2> USE DEF Inv
  <2>1. Update(p) \/ Fails(p)
    BY DEF Next, SignUp, CreateAdmin, Change, Find, Miss, Insert, InsertRefused,
           Update, Fails, Goto, TypeOK, vars
  <2>2. UNCHANGED users \/ users' = [users EXCEPT ![target[p]] = Merged(p)]
    BY <2>1 DEF Update, Fails
  <2>3. target[p] \in Processes /\ u \in Processes
    BY RowFacts DEF LookedUp
  <2> QED
    BY <2>2, <2>3, MergedFacts DEF TypeOK
<1> QED
  BY Invariance, <1>1, PTL DEF Spec, ChangesAreIndependent
=============================================================================
