--------------------------- MODULE SessionsProofs ---------------------------
(***************************************************************************)
(* Safety of Sessions for any users, clients and tickets: what is granted  *)
(* and what is refused has its reason in the roles held meanwhile.         *)
(***************************************************************************)
EXTENDS Sessions, TLAPS

(* What each kind of operation carries.                                     *)
LEMMA OperationFacts ==
  ASSUME NEW o \in Operation
  PROVE  /\ o.kind \in {"assign", "role", "active"} => o.user \in Users
         /\ o.kind = "role" => o.role \in Role
         /\ o.kind = "active" => o.active \in BOOLEAN
BY DEF Operation

(* Only an administrator assigns.                                           *)
LEMMA OnlyAdminsAssign ==
  ASSUME NEW r, NEW mine
  PROVE  Allowed("assign", r, mine) <=> r = "admin"
BY DEF Allowed

(***************************************************************************)
(* The invariant: a request knows every role its user, and every agent it  *)
(* could be about, has had since it was sent                               *)
(***************************************************************************)
Flying(c) == pc[c] \in {"sent", "acting", "assigning"}

(* The history of a request that is on its way.                             *)
Remembers(c) ==
  Flying(c) =>
    /\ op[c] \in Operation
    /\ active[subject[c]] => role[subject[c]] \in held[c]
    /\ op[c].kind = "assign" => Agents \subseteq agents[c]

(* The copy it decides on was true once, and so was the check of the agent. *)
Decides(c) ==
  /\ pc[c] \in {"acting", "assigning"} => copy[c] \in held[c]
  /\ pc[c] = "assigning" => /\ op[c].kind = "assign" /\ copy[c] = "admin"
                            /\ op[c].user \in agents[c]

RequestInv(c) == Remembers(c) /\ Decides(c)

Inv == TypeOK /\ \A c \in Clients : RequestInv(c)

(* No request has been sent.                                                *)
LEMMA InitInv == Init => Inv
BY RootAssumption, NobodyAssumption
   DEF Init, Inv, TypeOK, RequestInv, Remembers, Decides, Flying, Settled, Role

(***************************************************************************)
(* Types                                                                   *)
(***************************************************************************)

(* The request's variables after its answer.                                *)
LEMMA AnswerTypes ==
  ASSUME TypeOK, NEW c \in Clients, NEW result \in Settled, Answer(c, result),
         role' \in [Users -> Role], active' \in [Users -> BOOLEAN],
         owner' \in [Tickets -> Users \cup {Nobody}],
         cookie' \in [Clients -> Users \cup {Nobody}],
         held' \in [Clients -> SUBSET Role], agents' \in [Clients -> SUBSET Users]
  PROVE  TypeOK'
<1>1. /\ pc' \in [Clients -> Settled \cup {"verifying", "sent", "acting", "assigning"}]
      /\ op' \in [Clients -> Operation \cup {NoOperation}]
      /\ subject' \in [Clients -> Users \cup {Nobody}]
      /\ copy' \in [Clients -> Role \cup {Nobody}]
  BY DEF Answer, TypeOK
<1>2. ASSUME NEW d \in Clients
      PROVE  /\ (copy'[d] # Nobody) = (pc'[d] \in {"acting", "assigning"})
             /\ (subject'[d] = Nobody) = (pc'[d] \in Settled)
  <2>1. CASE d = c
    BY <2>1 DEF Answer, TypeOK, Settled
  <2>2. CASE d # c
    BY <2>2 DEF Answer, TypeOK
  <2> QED
    BY <2>1, <2>2
<1> QED
  BY <1>1, <1>2 DEF TypeOK

(* Forgetting keeps the types of the histories.                             *)
LEMMA ForgetTypes ==
  ASSUME TypeOK, NEW c \in Clients, Forget(c)
  PROVE  held' \in [Clients -> SUBSET Role] /\ agents' \in [Clients -> SUBSET Users]
BY DEF Forget, TypeOK

(***************************************************************************)
(* The requests of the other clients                                       *)
(***************************************************************************)

(* A step that changes no user leaves them as they are.                     *)
LEMMA OthersKeep ==
  ASSUME NEW d \in Clients, RequestInv(d), UNCHANGED userVars,
         pc'[d] = pc[d], op'[d] = op[d], subject'[d] = subject[d],
         copy'[d] = copy[d], held'[d] = held[d], agents'[d] = agents[d]
  PROVE  RequestInv(d)'
BY DEF RequestInv, Remembers, Decides, Flying, Agents, userVars

(* A change of a user is remembered by all of them.                         *)
LEMMA OthersRemember ==
  ASSUME Inv, NEW c \in Clients, NEW d \in Clients, d # c, ChangeUser(c)
  PROVE  RequestInv(d)'
<1> USE DEF Inv
<1>1. /\ pc'[d] = pc[d] /\ op'[d] = op[d]
      /\ subject'[d] = subject[d] /\ copy'[d] = copy[d]
  BY DEF ChangeUser, Answer, TypeOK
<1>2. held[d] \subseteq held'[d] /\ agents[d] \subseteq agents'[d]
  BY DEF ChangeUser, Remember
<1>3. ASSUME Flying(d)
      PROVE  /\ active'[subject[d]] => role'[subject[d]] \in held'[d]
             /\ op[d].kind = "assign" => Agents' \subseteq agents'[d]
  <2>1. pc[d] \notin Settled \cup {"verifying"}
    BY <1>3 DEF Flying, Settled
  <2> QED
    BY <2>1 DEF ChangeUser, Remember
<1> QED
  BY <1>1, <1>2, <1>3 DEF RequestInv, Remembers, Decides, Flying

(***************************************************************************)
(* The steps                                                               *)
(***************************************************************************)

(* Login and logout send no request.                                        *)
LEMMA LoginInv ==
  ASSUME Inv, NEW c \in Clients, NEW u \in Users, Login(c, u)
  PROVE  Inv'
<1> USE DEF Inv
<1>1. TypeOK'
  BY NobodyAssumption DEF Login, TypeOK, userVars, Settled
<1>2. ASSUME NEW d \in Clients PROVE RequestInv(d)'
  <2>1. CASE d = c
    BY <2>1 DEF Login, TypeOK, RequestInv, Remembers, Decides, Flying
  <2>2. CASE d # c
    BY <2>2, OthersKeep DEF Login, TypeOK
  <2> QED
    BY <2>1, <2>2
<1> QED
  BY <1>1, <1>2

LEMMA CookieInv ==
  ASSUME Inv, NEW c \in Clients, LoseCookie(c)
  PROVE  Inv'
<1> USE DEF Inv
<1>1. TypeOK'
  BY DEF LoseCookie, TypeOK, userVars, requestVars
<1>2. ASSUME NEW d \in Clients PROVE RequestInv(d)'
  BY OthersKeep DEF LoseCookie, requestVars
<1> QED
  BY <1>1, <1>2

(* A request is sent with the roles and the agents of that moment.          *)
LEMMA SendInv ==
  ASSUME Inv, NEW c \in Clients, NEW o \in Operation, Send(c, o)
  PROVE  Inv'
<1> USE DEF Inv
<1>1. TypeOK'
  <2>1. cookie[c] \in Users
    BY DEF Send, TypeOK
  <2>2. /\ pc' \in [Clients -> Settled \cup {"verifying", "sent", "acting", "assigning"}]
        /\ op' \in [Clients -> Operation \cup {NoOperation}]
        /\ subject' \in [Clients -> Users \cup {Nobody}]
        /\ held' \in [Clients -> SUBSET Role]
        /\ agents' \in [Clients -> SUBSET Users]
    BY <2>1 DEF Send, TypeOK, Agents
  <2>3. ASSUME NEW d \in Clients
        PROVE  /\ (copy'[d] # Nobody) = (pc'[d] \in {"acting", "assigning"})
               /\ (subject'[d] = Nobody) = (pc'[d] \in Settled)
    <3>1. CASE d = c
      BY <2>1, <3>1, NobodyAssumption DEF Send, TypeOK, Settled
    <3>2. CASE d # c
      BY <3>2 DEF Send, TypeOK
    <3> QED
      BY <3>1, <3>2
  <2> QED
    BY <2>2, <2>3 DEF Send, TypeOK, userVars
<1>2. ASSUME NEW d \in Clients PROVE RequestInv(d)'
  <2>1. CASE d = c
    BY <2>1 DEF Send, TypeOK, RequestInv, Remembers, Decides, Flying, userVars,
                Agents
  <2>2. CASE d # c
    BY <2>2, OthersKeep DEF Send, TypeOK
  <2> QED
    BY <2>1, <2>2
<1> QED
  BY <1>1, <1>2

(* The user is active when the copy is taken, so its role is remembered.    *)
LEMMA AuthenticateInv ==
  ASSUME Inv, NEW c \in Clients, Authenticate(c)
  PROVE  Inv'
<1> USE DEF Inv, Authenticate, Load
<1>1. subject[c] \in Users
  BY DEF TypeOK, Settled
<1>2. TypeOK'
  <2>1. /\ pc' \in [Clients -> Settled \cup {"verifying", "sent", "acting", "assigning"}]
        /\ copy' \in [Clients -> Role \cup {Nobody}]
    BY <1>1 DEF TypeOK
  <2>2. ASSUME NEW d \in Clients
        PROVE  /\ (copy'[d] # Nobody) = (pc'[d] \in {"acting", "assigning"})
               /\ (subject'[d] = Nobody) = (pc'[d] \in Settled)
    <3>1. CASE d = c
      BY <1>1, <3>1, NobodyAssumption DEF TypeOK, Settled
    <3>2. CASE d # c
      BY <3>2 DEF TypeOK
    <3> QED
      BY <3>1, <3>2
  <2> QED
    BY <2>1, <2>2 DEF TypeOK, userVars
<1>3. ASSUME NEW d \in Clients PROVE RequestInv(d)'
  <2>1. CASE d = c
    BY <2>1 DEF TypeOK, RequestInv, Remembers, Decides, Flying, userVars, Agents
  <2>2. CASE d # c
    BY <2>2, OthersKeep DEF TypeOK
  <2> QED
    BY <2>1, <2>2
<1> QED
  BY <1>2, <1>3

(* A request ends, and no user is changed.                                  *)
LEMMA EndInv ==
  ASSUME Inv, NEW c \in Clients, NEW result \in Settled, Answer(c, result),
         UNCHANGED userVars,
         owner' \in [Tickets -> Users \cup {Nobody}],
         cookie' \in [Clients -> Users \cup {Nobody}],
         Forget(c) \/ UNCHANGED <<held, agents>>
  PROVE  Inv'
<1> USE DEF Inv
<1>1. held' \in [Clients -> SUBSET Role] /\ agents' \in [Clients -> SUBSET Users]
  BY ForgetTypes DEF TypeOK
<1>2. TypeOK'
  BY <1>1, AnswerTypes DEF userVars, TypeOK
<1>3. ASSUME NEW d \in Clients PROVE RequestInv(d)'
  <2>1. CASE d = c
    <3>1. pc'[d] \in Settled
      BY <2>1 DEF Answer, TypeOK
    <3> QED
      BY <3>1 DEF RequestInv, Remembers, Decides, Flying, Settled
  <2>2. CASE d # c
    <3>1. /\ pc'[d] = pc[d] /\ op'[d] = op[d]
          /\ subject'[d] = subject[d] /\ copy'[d] = copy[d]
      BY <2>2 DEF Answer, TypeOK
    <3>2. held'[d] = held[d] /\ agents'[d] = agents[d]
      BY <2>2 DEF Forget, TypeOK
    <3> QED
      BY <3>1, <3>2, OthersKeep
  <2> QED
    BY <2>1, <2>2
<1> QED
  BY <1>2, <1>3

(* The agent is checked, and is one of those the request remembers.         *)
LEMMA CheckAgentInv ==
  ASSUME Inv, NEW c \in Clients, CheckAgent(c)
  PROVE  Inv'
<1> USE DEF Inv, CheckAgent
<1>1. CASE op[c].user \in Agents \ {subject[c]}
  <2>1. Goto(c, "assigning")
    BY <1>1 DEF Accept
  <2>2. pc[c] = "acting" /\ copy[c] = "admin"
    BY OnlyAdminsAssign DEF Permitted
  <2>3. op[c].user \in agents[c] /\ copy[c] \in held[c]
    BY <1>1, <2>2 DEF RequestInv, Remembers, Decides, Flying
  <2>4. TypeOK'
    <3>1. ASSUME NEW d \in Clients
          PROVE  /\ (copy'[d] # Nobody) = (pc'[d] \in {"acting", "assigning"})
                 /\ (subject'[d] = Nobody) = (pc'[d] \in Settled)
      BY <2>1, <2>2 DEF Goto, TypeOK, Settled
    <3> QED
      BY <2>1, <3>1 DEF Goto, TypeOK, userVars
  <2>5. ASSUME NEW d \in Clients PROVE RequestInv(d)'
    <3>1. CASE d = c
      BY <2>1, <2>2, <2>3, <3>1
         DEF Goto, TypeOK, RequestInv, Remembers, Decides, Flying, userVars,
             Agents
    <3>2. CASE d # c
      BY <2>1, <3>2, OthersKeep DEF Goto, TypeOK
    <3> QED
      BY <3>1, <3>2
  <2> QED
    BY <2>4, <2>5
<1>2. CASE op[c].user \notin Agents \ {subject[c]}
  <2>1. Answer(c, "refused") /\ Forget(c)
    BY <1>2 DEF Accept
  <2> QED
    BY <2>1, EndInv DEF Settled, TypeOK
<1> QED
  BY <1>1, <1>2

(* A user is changed: everybody on the way remembers it.                    *)
LEMMA ChangeUserInv ==
  ASSUME Inv, NEW c \in Clients, ChangeUser(c)
  PROVE  Inv'
<1> USE DEF Inv
<1>1. op[c] \in Operation
  BY DEF ChangeUser, Permitted, RequestInv, Remembers, Flying
<1>2. role' \in [Users -> Role]
  BY <1>1, OperationFacts DEF ChangeUser, TypeOK
<1>3. active' \in [Users -> BOOLEAN]
  BY <1>1, OperationFacts DEF ChangeUser, TypeOK
<1>4. held' \in [Clients -> SUBSET Role]
  <2>1. ASSUME NEW d \in Clients, pc[d] \notin Settled PROVE subject[d] \in Users
    BY <2>1 DEF TypeOK
  <2> QED
    BY <1>2, <2>1 DEF ChangeUser, Remember, TypeOK
<1>5. agents' \in [Clients -> SUBSET Users]
  BY DEF ChangeUser, Remember, Agents, TypeOK
<1>6. TypeOK'
  <2>1. Answer(c, "served") /\ UNCHANGED <<owner, cookie>>
    BY DEF ChangeUser
  <2> QED
    BY <1>2, <1>3, <1>4, <1>5, <2>1, AnswerTypes DEF Settled, TypeOK
<1>7. ASSUME NEW d \in Clients PROVE RequestInv(d)'
  <2>1. CASE d = c
    BY <2>1 DEF ChangeUser, Answer, TypeOK, RequestInv, Remembers, Decides, Flying
  <2>2. CASE d # c
    BY <2>2, OthersRemember
  <2> QED
    BY <2>1, <2>2
<1> QED
  BY <1>6, <1>7

(* Every step.                                                              *)
LEMMA NextInv == Inv /\ [Next]_vars => Inv'
<1> SUFFICES ASSUME Inv, [Next]_vars PROVE Inv'
  OBVIOUS
<1>1. CASE UNCHANGED vars
  BY <1>1 DEF vars, userVars, requestVars, Inv, TypeOK, RequestInv, Remembers,
              Decides, Flying, Agents
<1>2. ASSUME NEW c \in Clients,
             IssueToken(c) \/ WrongPassword(c) \/ Unauthenticated(c)
               \/ Refuse(c) \/ UseTicket(c) \/ Assign(c)
      PROVE  Inv'
  <2>1. /\ UNCHANGED <<userVars, owner>>
        /\ Forget(c) \/ UNCHANGED <<held, agents>>
        /\ \E result \in Settled : Answer(c, result)
    BY <1>2 DEF IssueToken, WrongPassword, Unauthenticated, Refuse, UseTicket,
                Assign, Settled
  <2>2. cookie' \in [Clients -> Users \cup {Nobody}]
    BY <1>2 DEF IssueToken, WrongPassword, Unauthenticated, Refuse, UseTicket,
                Assign, Inv, TypeOK
  <2> QED
    BY <2>1, <2>2, EndInv DEF Inv, TypeOK
<1>3. ASSUME NEW c \in Clients, NEW t \in Tickets, CreateTicket(c, t)
      PROVE  Inv'
  <2>1. Answer(c, "served") /\ Forget(c) /\ UNCHANGED <<userVars, cookie>>
    BY <1>3 DEF CreateTicket
  <2>2. owner' \in [Tickets -> Users \cup {Nobody}]
    BY <1>3 DEF CreateTicket, Inv, TypeOK
  <2> QED
    BY <2>1, <2>2, EndInv DEF Inv, TypeOK, Settled
<1> QED
  BY <1>1, <1>2, <1>3, LoginInv, CookieInv, SendInv, AuthenticateInv,
     CheckAgentInv, ChangeUserInv
     DEF Next, ClientStep

(* The invariant holds in every behaviour.                                  *)
THEOREM Invariance == Spec => []Inv
BY InitInv, NextInv, PTL DEF Spec

(* Every variable has its type, and a request has a user and a copy of its  *)
(* role exactly where it should.                                            *)
THEOREM TypeCorrectness == Spec => []TypeOK
<1>1. Inv => TypeOK
  BY DEF Inv
<1> QED
  BY <1>1, Invariance, PTL

(***************************************************************************)
(* How requests end                                                        *)
(***************************************************************************)

(* A client's step moves no other client's request.                         *)
LEMMA OwnStep ==
  ASSUME Inv, [Next]_vars, NEW c \in Clients, pc[c] \notin Settled, pc'[c] # pc[c]
  PROVE  ClientStep(c)
<1>1. ASSUME NEW d \in Clients, d # c, ClientStep(d) PROVE FALSE
  BY <1>1 DEF ClientStep, IssueToken, WrongPassword, Authenticate, Load,
              Unauthenticated, Refuse, CreateTicket, UseTicket, CheckAgent,
              Accept, Goto, Assign, ChangeUser, Answer, Inv, TypeOK
<1>2. ASSUME NEW d \in Clients,
             \/ \E u \in Users : Login(d, u)
             \/ LoseCookie(d)
             \/ \E o \in Operation : Send(d, o)
      PROVE  FALSE
  BY <1>2 DEF Login, LoseCookie, Send, requestVars, Inv, TypeOK
<1>3. ~UNCHANGED vars
  BY DEF vars, requestVars
<1> QED
  BY <1>1, <1>2, <1>3 DEF Next

(* What a request is served by.                                             *)
LEMMA ServedBy ==
  ASSUME Inv, [Next]_vars, NEW c \in Clients, Ends(c, "served")
  PROVE  \/ Assign(c)
         \/ Permitted(c) /\ op[c].kind # "assign"
<1>1. ClientStep(c)
  BY OwnStep DEF Ends, Settled
<1>2. CASE IssueToken(c) \/ WrongPassword(c) \/ Authenticate(c)
             \/ Unauthenticated(c) \/ Refuse(c) \/ CheckAgent(c)
  <2>1. pc'[c] # "served"
    BY <1>2 DEF IssueToken, WrongPassword, Authenticate, Load, Unauthenticated,
                Refuse, CheckAgent, Accept, Goto, Answer, Inv, TypeOK
  <2> QED
    BY <2>1 DEF Ends
<1>3. CASE (\E t \in Tickets : CreateTicket(c, t)) \/ UseTicket(c) \/ ChangeUser(c)
  BY <1>3 DEF CreateTicket, Creates, UseTicket, ChangeUser
<1> QED
  BY <1>1, <1>2, <1>3 DEF ClientStep

(* What a request past its authentication is refused by.                    *)
LEMMA RefusedBy ==
  ASSUME Inv, [Next]_vars, NEW c \in Clients,
         pc[c] = "acting", pc'[c] = "refused"
  PROVE  \/ ~Permitted(c)
         \/ op[c].kind = "assign"
         \/ op[c].kind \in {"view", "work"} /\ ~Found(op[c])
<1>1. ClientStep(c)
  BY OwnStep DEF Settled
<1>2. CASE (\E t \in Tickets : CreateTicket(c, t)) \/ ChangeUser(c)
  <2>1. pc'[c] = "served"
    BY <1>2 DEF CreateTicket, ChangeUser, Answer, Inv, TypeOK
  <2> QED
    BY <2>1
<1>3. CASE UseTicket(c)
  BY <1>3 DEF UseTicket, Answer, Inv, TypeOK
<1>4. CASE Refuse(c) \/ CheckAgent(c)
  BY <1>4 DEF Refuse, CheckAgent
<1> QED
  BY <1>1, <1>2, <1>3, <1>4
     DEF ClientStep, IssueToken, WrongPassword, Authenticate, Unauthenticated,
         Assign

(* The copy that granted it is a role its user has had since the request    *)
(* was sent; for an assignment the grant was one step earlier.              *)
THEOREM WhatIsServedWasEntitled == Spec => ServedWasEntitled
<1>1. ASSUME Inv, [Next]_vars, NEW c \in Clients, Ends(c, "served")
      PROVE  \E r \in held[c] : Entitled(c, r)
  <2>1. CASE Assign(c)
    <3>1. copy[c] = "admin" /\ copy[c] \in held[c] /\ op[c].kind = "assign"
      BY <1>1, <2>1 DEF Assign, Inv, RequestInv, Decides
    <3> QED
      BY <3>1, OnlyAdminsAssign DEF Entitled
  <2>2. CASE Permitted(c)
    <3>1. copy[c] \in held[c] /\ Allowed(op[c].kind, copy[c], Mine(c))
      BY <1>1, <2>2 DEF Permitted, Inv, RequestInv, Decides
    <3> QED
      BY <3>1 DEF Entitled, Mine
  <2> QED
    BY <1>1, <2>1, <2>2, ServedBy
<1>2. Inv /\ [Next]_vars
        => [\A c \in Clients :
              Ends(c, "served") => \E r \in held[c] : Entitled(c, r)]_vars
  BY <1>1
<1> QED
  BY <1>2, Invariance, PTL DEF Spec, ServedWasEntitled

(* Whoever is assigned a ticket was an active agent while it was asked for.  *)
THEOREM WhoIsAssignedWasAgent == Spec => AssignedWasAgent
<1>1. ASSUME Inv, [Next]_vars, NEW c \in Clients, Ends(c, "served"),
             op[c].kind = "assign"
      PROVE  op[c].user \in agents[c]
  <2>1. Assign(c)
    BY <1>1, ServedBy
  <2> QED
    BY <1>1, <2>1 DEF Assign, Inv, RequestInv, Decides
<1>2. Inv /\ [Next]_vars
        => [\A c \in Clients :
              Ends(c, "served") /\ op[c].kind = "assign"
                => op[c].user \in agents[c]]_vars
  BY <1>1
<1> QED
  BY <1>2, Invariance, PTL DEF Spec, AssignedWasAgent

(* Nobody is refused what every role held since the request was sent may    *)
(* have, their own tickets included.                                        *)
THEOREM EveryRefusalHasAReason == Spec => RefusalsHaveAReason
<1>1. ASSUME Inv, [Next]_vars, NEW c \in Clients,
             pc[c] = "acting", pc'[c] = "refused", op[c].kind # "assign",
             op[c].kind \in {"view", "work"} => Found(op[c])
      PROVE  \E r \in held[c] : ~Entitled(c, r)
  <2>1. ~Permitted(c)
    BY <1>1, RefusedBy
  <2>2. ~Allowed(op[c].kind, copy[c], Mine(c)) /\ copy[c] \in held[c]
    BY <1>1, <2>1 DEF Permitted, Inv, RequestInv, Decides
  <2> QED
    BY <2>2 DEF Entitled, Mine
<1>2. Inv /\ [Next]_vars
        => [\A c \in Clients :
              /\ pc[c] = "acting" /\ pc'[c] = "refused"
              /\ op[c].kind # "assign"
              /\ op[c].kind \in {"view", "work"} => Found(op[c])
              => \E r \in held[c] : ~Entitled(c, r)]_vars
  BY <1>1
<1> QED
  BY <1>2, Invariance, PTL DEF Spec, RefusalsHaveAReason

=============================================================================
