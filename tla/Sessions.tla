------------------------------ MODULE Sessions ------------------------------
(***************************************************************************)
(* Logins, cookies and what requests may do.  A request loads its user     *)
(* once, and decides on that copy until it ends, while administrators      *)
(* change roles and activity.  Which accounts exist, and how they are      *)
(* written, is the subject of Accounts; here a change is one step.         *)
(***************************************************************************)
EXTENDS Naturals, FiniteSets

CONSTANTS
  Users,     \* accounts
  Clients,   \* browsers, each with one cookie and one request at a time
  Tickets,   \* ticket ids
  Root,      \* the account create_admin has made
  Nobody     \* no owner, no user, no cookie

ASSUME RootAssumption == Root \in Users
Role == {"customer", "support_agent", "admin"}

ASSUME NobodyAssumption == Nobody \notin Users \cup Role

(* What a request asks for; its ticket and its user where it needs them. *)
Operation ==
  [kind : {"create", "batch"}]
    \cup [kind : {"view", "work"}, ticket : Tickets]
    \cup [kind : {"assign"}, ticket : Tickets, user : Users]
    \cup [kind : {"role"}, user : Users, role : Role]
    \cup [kind : {"active"}, user : Users, active : BOOLEAN]
NoOperation == [kind |-> "none"]

VARIABLES
  role,      \* users.role
  active,    \* users.is_active
  owner,     \* tickets.customer_id
  cookie,    \* whose access token each client holds
  pc,        \* where each client's request is
  op,        \* what it asks for
  subject,   \* the user it is made by, or tries to log in as
  copy,      \* that user's role as the request has loaded it
  held,      \* history: roles its user has had, while active, since it was sent
  agents     \* history: users that were active agents since it was sent

userVars == <<role, active>>
requestVars == <<pc, op, subject, copy, held, agents>>
vars == <<userVars, owner, cookie, requestVars>>

Settled == {"idle", "served", "refused"}

TypeOK ==
  /\ role \in [Users -> Role]
  /\ active \in [Users -> BOOLEAN]
  /\ owner \in [Tickets -> Users \cup {Nobody}]
  /\ cookie \in [Clients -> Users \cup {Nobody}]
  /\ pc \in [Clients -> Settled \cup {"verifying", "sent", "acting", "assigning"}]
  /\ op \in [Clients -> Operation \cup {NoOperation}]
  /\ subject \in [Clients -> Users \cup {Nobody}]
  /\ copy \in [Clients -> Role \cup {Nobody}]
  /\ held \in [Clients -> SUBSET Role]
  /\ agents \in [Clients -> SUBSET Users]
  /\ \A c \in Clients : /\ (copy[c] # Nobody) = (pc[c] \in {"acting", "assigning"})
                         /\ (subject[c] = Nobody) = (pc[c] \in Settled)

Init ==
  /\ role = [u \in Users |-> IF u = Root THEN "admin" ELSE "customer"]
  /\ active = [u \in Users |-> TRUE]
  /\ owner = [t \in Tickets |-> Nobody]
  /\ cookie = [c \in Clients |-> Nobody]
  /\ pc = [c \in Clients |-> "idle"]
  /\ op = [c \in Clients |-> NoOperation]
  /\ subject = [c \in Clients |-> Nobody]
  /\ copy = [c \in Clients |-> Nobody]
  /\ held = [c \in Clients |-> {}]
  /\ agents = [c \in Clients |-> {}]

Agents == {u \in Users : role[u] = "support_agent" /\ active[u]}

Goto(c, p) ==
  /\ pc' = [pc EXCEPT ![c] = p]
  /\ UNCHANGED <<op, subject, copy, held, agents>>

(* Mutant: the user that has been loaded stays for the next request. *)
Answer_KeepsUser(c, result) ==
  /\ pc' = [pc EXCEPT ![c] = result]
  /\ op' = [op EXCEPT ![c] = NoOperation]
  /\ UNCHANGED <<subject, copy>>

(* The request ends: with a 2xx ("served"), or with 401, 403 or 404. *)
Answer(c, result) ==
  /\ pc' = [pc EXCEPT ![c] = result]
  /\ op' = [op EXCEPT ![c] = NoOperation]
  /\ subject' = [subject EXCEPT ![c] = Nobody]
  /\ copy' = [copy EXCEPT ![c] = Nobody]

Forget(c) ==
  /\ held' = [held EXCEPT ![c] = {}]
  /\ agents' = [agents EXCEPT ![c] = {}]

(***************************************************************************)
(* Login and logout                                                        *)
(***************************************************************************)
Login(c, u) ==
  /\ pc[c] \in Settled
  /\ active[u]
  /\ pc' = [pc EXCEPT ![c] = "verifying"]
  /\ subject' = [subject EXCEPT ![c] = u]
  /\ UNCHANGED <<userVars, owner, cookie, op, copy, held, agents>>

(* The password has been compared in a thread; the user is not read again. *)
IssueToken(c) ==
  /\ pc[c] = "verifying"
  /\ cookie' = [cookie EXCEPT ![c] = subject[c]]
  /\ Answer(c, "idle")
  /\ UNCHANGED <<userVars, owner, held, agents>>

WrongPassword(c) ==
  /\ pc[c] = "verifying"
  /\ Answer(c, "idle")
  /\ UNCHANGED <<userVars, owner, cookie, held, agents>>

(* Logout only deletes the cookie; a cookie past its age is gone as well. *)
LoseCookie(c) ==
  /\ pc[c] \in Settled
  /\ cookie' = [cookie EXCEPT ![c] = Nobody]
  /\ UNCHANGED <<userVars, owner, requestVars>>

(***************************************************************************)
(* Requests                                                                *)
(***************************************************************************)
Creates(o) == o.kind \in {"create", "batch"}

(* Tickets bounds the creations; any other operation is always possible. *)
Send(c, o) ==
  /\ pc[c] \in Settled
  /\ cookie[c] # Nobody
  /\ Creates(o) => Cardinality({d \in Clients : Creates(op[d])})
                     < Cardinality({t \in Tickets : owner[t] = Nobody})
  /\ LET u == cookie[c]
     IN  /\ subject' = [subject EXCEPT ![c] = u]
         /\ held' = [held EXCEPT ![c] = IF active[u] THEN {role[u]} ELSE {}]
  /\ agents' = [agents EXCEPT ![c] = IF o.kind = "assign" THEN Agents ELSE {}]
  /\ op' = [op EXCEPT ![c] = o]
  /\ pc' = [pc EXCEPT ![c] = "sent"]
  /\ UNCHANGED <<userVars, owner, cookie, copy>>

Load(c) ==
  /\ copy' = [copy EXCEPT ![c] = role[subject[c]]]
  /\ pc' = [pc EXCEPT ![c] = "acting"]
  /\ UNCHANGED <<userVars, owner, cookie, op, subject, held, agents>>

(* Mutant: the token is enough, whatever has become of the account. *)
Authenticate_AnyAccount(c) == pc[c] = "sent" /\ Load(c)

(* get_current_user, with a token that has not expired. *)
Authenticate(c) == pc[c] = "sent" /\ active[subject[c]] /\ Load(c)

(* A deactivated account, or a token that has expired on the way. *)
Unauthenticated(c) ==
  /\ pc[c] = "sent"
  /\ Answer(c, "refused")
  /\ Forget(c)
  /\ UNCHANGED <<userVars, owner, cookie>>

(* What a role may do: "mine" says that the user owns the ticket.  A batch  *)
(* is accepted from every role.                                             *)
Allowed(k, r, mine) ==
  CASE k = "create" -> r \in {"customer", "admin"}
    [] k = "batch" -> TRUE
    [] k = "view" -> r \in {"admin", "support_agent"} \/ mine
    [] k = "work" -> r \in {"admin", "support_agent"}
    [] k \in {"assign", "role", "active"} -> r = "admin"

Found(o) == owner[o.ticket] # Nobody
Owns(u, o) == o.kind = "view" /\ owner[o.ticket] = u

(* Mutant: ownership is not looked at. *)
Mine_Never(c) == FALSE

Mine(c) == Owns(subject[c], op[c])

Permitted(c) == pc[c] = "acting" /\ Allowed(op[c].kind, copy[c], Mine(c))

Refuse(c) ==
  /\ pc[c] = "acting"
  /\ ~Permitted(c)
  /\ Answer(c, "refused")
  /\ Forget(c)
  /\ UNCHANGED <<userVars, owner, cookie>>

CreateTicket(c, t) ==
  /\ Permitted(c)
  /\ Creates(op[c])
  /\ owner[t] = Nobody
  /\ owner' = [owner EXCEPT ![t] = subject[c]]
  /\ Answer(c, "served")
  /\ Forget(c)
  /\ UNCHANGED <<userVars, cookie>>

(* GET, and PATCH of status or classification; their effect on the row is   *)
(* the subject of ClassificationPipeline.                                   *)
UseTicket(c) ==
  /\ Permitted(c)
  /\ op[c].kind \in {"view", "work"}
  /\ Answer(c, IF Found(op[c]) THEN "served" ELSE "refused")
  /\ Forget(c)
  /\ UNCHANGED <<userVars, owner, cookie>>

Accept(c, u) == IF u THEN Goto(c, "assigning") ELSE Answer(c, "refused") /\ Forget(c)

(* Mutant: an agent need not be active to be assigned. *)
CheckAgent_RoleOnly(c) ==
  /\ Permitted(c)
  /\ op[c].kind = "assign"
  /\ Accept(c, role[op[c].user] = "support_agent")
  /\ UNCHANGED <<userVars, owner, cookie>>

(* assign reads the agent (its own user it has loaded already), and then    *)
(* waits for the lock on the ticket.                                        *)
CheckAgent(c) ==
  /\ Permitted(c)
  /\ op[c].kind = "assign"
  /\ Accept(c, op[c].user \in Agents \ {subject[c]})
  /\ UNCHANGED <<userVars, owner, cookie>>

(* tickets.assigned_agent_id is written and read by nothing in this module. *)
Assign(c) ==
  /\ pc[c] = "assigning"
  /\ Answer(c, IF Found(op[c]) THEN "served" ELSE "refused")
  /\ Forget(c)
  /\ UNCHANGED <<userVars, owner, cookie>>

(* Requests in flight remember every role their user has had. *)
Remember(c) ==
  LET flying(d) == d # c /\ pc[d] \notin Settled \cup {"verifying"}
  IN  /\ held' = [d \in Clients |->
                    IF d = c THEN {}
                    ELSE IF flying(d) /\ active'[subject[d]]
                      THEN held[d] \cup {role'[subject[d]]} ELSE held[d]]
      /\ agents' = [d \in Clients |->
                      IF d = c THEN {}
                      ELSE IF flying(d) /\ op[d].kind = "assign"
                        THEN agents[d] \cup Agents' ELSE agents[d]]

(* A user's own row is the copy the request has loaded (as active, or it    *)
(* would not be here): setting it to what it was loaded as writes nothing.  *)
AsLoaded(c) ==
  /\ op[c].user = subject[c]
  /\ op[c].kind = "role" => op[c].role = copy[c]
  /\ op[c].kind = "active" => op[c].active

ChangeUser(c) ==
  /\ Permitted(c)
  /\ op[c].kind \in {"role", "active"}
  /\ role' = IF op[c].kind = "role" /\ ~AsLoaded(c)
               THEN [role EXCEPT ![op[c].user] = op[c].role] ELSE role
  /\ active' = IF op[c].kind = "active" /\ ~AsLoaded(c)
                 THEN [active EXCEPT ![op[c].user] = op[c].active] ELSE active
  /\ Answer(c, "served")
  /\ Remember(c)
  /\ UNCHANGED <<owner, cookie>>

ClientStep(c) ==
  \/ IssueToken(c)
  \/ WrongPassword(c)
  \/ Authenticate(c)
  \/ Unauthenticated(c)
  \/ Refuse(c)
  \/ \E t \in Tickets : CreateTicket(c, t)
  \/ UseTicket(c)
  \/ CheckAgent(c)
  \/ Assign(c)
  \/ ChangeUser(c)

Next ==
  \E c \in Clients :
    \/ \E u \in Users : Login(c, u)
    \/ LoseCookie(c)
    \/ \E o \in Operation : Send(c, o)
    \/ ClientStep(c)

Spec == Init /\ [][Next]_vars

(***************************************************************************)
(* Properties                                                              *)
(***************************************************************************)
Entitled(c, r) == Allowed(op[c].kind, r, Owns(subject[c], op[c]))
Ends(c, result) == pc[c] \notin Settled /\ pc'[c] = result

(* Whatever is granted, the user was active in a role that may have it at   *)
(* some moment since the request was sent: a token issued earlier gives     *)
(* nothing that was taken away before, though get_current_user reads the    *)
(* account once and the endpoint decides on that copy.                      *)
ServedWasEntitled ==
  [][\A c \in Clients :
       Ends(c, "served") => \E r \in held[c] : Entitled(c, r)]_vars

(* assign gives a ticket only to somebody who was an active support agent   *)
(* at some moment of the assigning request, whatever other administrators   *)
(* do between the check and the write.                                      *)
AssignedWasAgent ==
  [][\A c \in Clients :
       Ends(c, "served") /\ op[c].kind = "assign" => op[c].user \in agents[c]]_vars

(* A request that got past authentication, for a ticket there is if it is   *)
(* for one, is refused only if its user had, since it was sent, a role that *)
(* may not have what it asks for: _authorize_ticket refuses nobody their    *)
(* own ticket.                                                              *)
RefusalsHaveAReason ==
  [][\A c \in Clients :
       /\ pc[c] = "acting" /\ pc'[c] = "refused"
       /\ op[c].kind # "assign"
       /\ op[c].kind \in {"view", "work"} => Found(op[c])
       => \E r \in held[c] : ~Entitled(c, r)]_vars
=============================================================================
