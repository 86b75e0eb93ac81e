---------------------------- MODULE TicketScreen ----------------------------
(***************************************************************************)
(* The customer's page (app.js) over the life of the rows it shows: it     *)
(* posts tickets, polls each one that is not settled yet, and reloads the  *)
(* whole list now and then.  Requests and answers are on the way for any   *)
(* time and may be lost, so an answer may be older than what is shown.     *)
(* The rows are TicketLifecycle's: customers read them, never the cache.   *)
(***************************************************************************)
EXTENDS TicketLifecycle, Naturals

CONSTANT PollLimit  \* POLL_LIMIT

ASSUME PollLimitAssumption == PollLimit \in Nat \ {0}

VARIABLES
  shown,     \* state.tickets: the status shown, "absent" if not listed
  phase,     \* what the page does about each ticket; "timer" and "asking"
             \* are the keys of state.polling
  wire,      \* the answer to its POST or GET that is on the way
  attempts,  \* polls that did not settle it
  loading,   \* state.loading: FALSE as "idle", TRUE as "asked" or "answered"
  listed     \* the list in the answer that is on the way

screen == <<shown, phase, wire, attempts, loading, listed>>
screenVars == <<lvars, screen>>

Settled == {"complete", "failed"}
Rows == [Tickets -> TicketStatus \cup {"absent"}]

ScreenTypeOK ==
  /\ shown \in Rows
  /\ phase \in [Tickets -> {"unsent", "posting", "timer", "asking", "done"}]
  /\ wire \in [Tickets -> TicketStatus \cup {"none"}]
  /\ attempts \in [Tickets -> 0 .. PollLimit]
  /\ loading \in {"idle", "asked", "answered"}
  /\ listed \in Rows

ScreenInit ==
  /\ Init
  /\ shown = [t \in Tickets |-> "absent"]
  /\ phase = [t \in Tickets |-> "unsent"]
  /\ wire = [t \in Tickets |-> "none"]
  /\ attempts = [t \in Tickets |-> 0]
  /\ loading = "idle"
  /\ listed = shown

Goto(t, p) == phase' = [phase EXCEPT ![t] = p]
Put(t, s) == shown' = [shown EXCEPT ![t] = s]
Carry(t, s) == wire' = [wire EXCEPT ![t] = s]

(* submitTicket; the button is disabled while a POST is on the way. *)
Submit(t) ==
  /\ phase[t] = "unsent" /\ status[t] = "absent"
  /\ \A u \in Tickets : phase[u] # "posting"
  /\ Goto(t, "posting")
  /\ UNCHANGED <<lvars, shown, wire, attempts, loading, listed>>

(* The answer to a POST: the row as it was inserted, or as the handler that *)
(* classified it has left it.                                               *)
AnswerPost(t) ==
  /\ phase[t] = "posting" /\ wire[t] = "none" /\ status[t] # "absent"
  /\ \E s \in {"pending", status[t]} : Carry(t, s)
  /\ UNCHANGED <<lvars, shown, phase, attempts, loading, listed>>

PostAnswered(t) ==
  /\ phase[t] = "posting" /\ wire[t] # "none"
  /\ Put(t, wire[t])
  /\ Carry(t, "none")
  /\ Goto(t, IF wire[t] \in Settled THEN "done" ELSE "timer")
  /\ UNCHANGED <<lvars, attempts, loading, listed>>

(* "Ticket was not created", though the row may be there or yet come. *)
PostFails(t) ==
  /\ phase[t] = "posting"
  /\ Carry(t, "none")
  /\ Goto(t, "done")
  /\ UNCHANGED <<lvars, shown, attempts, loading, listed>>

TimerFires(t) ==
  /\ phase[t] = "timer"
  /\ Goto(t, "asking")
  /\ UNCHANGED <<lvars, shown, wire, attempts, loading, listed>>

AnswerPoll(t) ==
  /\ phase[t] = "asking" /\ wire[t] = "none"
  /\ Carry(t, status[t])
  /\ UNCHANGED <<lvars, shown, phase, attempts, loading, listed>>

(* Mutant: one attempt too many. *)
CountAttempt_OneMore(t) ==
  /\ attempts' = [attempts EXCEPT ![t] = @ + 1]
  /\ Goto(t, IF attempts[t] < PollLimit THEN "timer" ELSE "done")

(* Another attempt, unless this was the last. *)
CountAttempt(t) ==
  /\ attempts' = [attempts EXCEPT ![t] = @ + 1]
  /\ Goto(t, IF attempts[t] + 1 < PollLimit THEN "timer" ELSE "done")

PollAnswered(t) ==
  /\ phase[t] = "asking" /\ wire[t] # "none"
  /\ Put(t, wire[t])
  /\ Carry(t, "none")
  /\ IF wire[t] \in Settled
       THEN Goto(t, "done") /\ UNCHANGED attempts
       ELSE CountAttempt(t)
  /\ UNCHANGED <<lvars, loading, listed>>

(* Mutant: a failed poll is repeated without being counted. *)
PollFails_Uncounted(t) ==
  /\ phase[t] = "asking"
  /\ Carry(t, "none")
  /\ Goto(t, "timer")
  /\ UNCHANGED <<lvars, shown, attempts, loading, listed>>

(* The request or its answer is lost, or the answer is an error. *)
PollFails(t) ==
  /\ phase[t] = "asking"
  /\ Carry(t, "none")
  /\ CountAttempt(t)
  /\ UNCHANGED <<lvars, shown, loading, listed>>

(* loadTickets, by the interval or the button, unless it is running. *)
LoadTickets ==
  /\ loading = "idle"
  /\ loading' = "asked"
  /\ UNCHANGED <<lvars, shown, phase, wire, attempts, listed>>

AnswerList ==
  /\ loading = "asked"
  /\ loading' = "answered"
  /\ listed' = status
  /\ UNCHANGED <<lvars, shown, phase, wire, attempts>>

(* The answer replaces the whole list, older or not. *)
ListAnswered ==
  /\ loading = "answered"
  /\ loading' = "idle"
  /\ shown' = listed
  /\ UNCHANGED <<lvars, phase, wire, attempts, listed>>

(* Mutant: a failed load leaves state.loading set. *)
ListFails_StillLoading ==
  /\ loading \in {"asked", "answered"}
  /\ loading' = "failed"
  /\ UNCHANGED <<lvars, shown, phase, wire, attempts, listed>>

(* Its error is swallowed; the finally clause ends the load. *)
ListFails ==
  /\ loading # "idle"
  /\ loading' = "idle"
  /\ UNCHANGED <<lvars, shown, phase, wire, attempts, listed>>

PollStep(t) ==
  TimerFires(t) \/ AnswerPoll(t) \/ PollAnswered(t) \/ PollFails(t)

PageStep ==
  \/ LoadTickets \/ AnswerList \/ ListAnswered \/ ListFails
  \/ \E t \in Tickets :
       Submit(t) \/ AnswerPost(t) \/ PostAnswered(t) \/ PostFails(t) \/ PollStep(t)

ScreenNext == (Next /\ UNCHANGED screen) \/ PageStep

(* The page stays open: its interval and its timers fire, what it has asked *)
(* is answered or given up, and not every load of the list fails.           *)
ScreenSpec ==
  /\ ScreenInit /\ [][ScreenNext]_screenVars
  /\ WF_screenVars(LoadTickets)
  /\ WF_screenVars(AnswerList \/ ListFails)
  /\ SF_screenVars(AnswerList) /\ SF_screenVars(ListAnswered)
  /\ \A t \in Tickets : WF_screenVars(PollStep(t))

(***************************************************************************)
(* Properties                                                              *)
(***************************************************************************)
(* No ticket is polled for ever, whatever its row and the network do: the   *)
(* chain of timers and requests ends.                                       *)
PollingEnds ==
  \A t \in Tickets : phase[t] \in {"timer", "asking"} ~> phase[t] = "done"

(* Once nobody writes the rows any more, the page comes to show what they   *)
(* are and keeps to it - tickets whose polling was given up, whose POST     *)
(* seemed to fail, or that a stale list has overwritten included.           *)
ScreenConverges == <>[][FALSE]_status => <>[](shown = status)
=============================================================================
