------------------------- MODULE TicketScreenProofs -------------------------
(***************************************************************************)
(* Safety of TicketScreen for any tickets and any POLL_LIMIT.              *)
(***************************************************************************)
EXTENDS TicketScreen, TLAPS

(* What is listed, asked for or answered is there: rows are never deleted.  *)
KnownAreThere ==
  /\ status \in Rows
  /\ \A t \in Tickets :
       status[t] = "absent" =>
         /\ shown[t] = "absent" /\ listed[t] = "absent" /\ wire[t] = "none"
         /\ phase[t] \notin {"timer", "asking"}

(* A ticket that will be asked for once more has an attempt left, and an    *)
(* answer on the way has somebody who waits for it.                         *)
PollsAreCounted ==
  \A t \in Tickets :
    /\ phase[t] # "done" => attempts[t] < PollLimit
    /\ phase[t] \in {"unsent", "posting"} => attempts[t] = 0
    /\ phase[t] \notin {"posting", "asking"} => wire[t] = "none"

ScreenInv == ScreenTypeOK /\ KnownAreThere /\ PollsAreCounted

(* The page is empty, and so is the table.                                  *)
LEMMA InitScreenInv == ScreenInit => ScreenInv
BY PollLimitAssumption
   DEF ScreenInit, Init, ScreenInv, ScreenTypeOK, KnownAreThere, Rows,
       PollsAreCounted

(* No row ever goes, whoever writes it.                                     *)
LEMMA RowsStay ==
  ASSUME status \in Rows, Next
  PROVE  /\ status' \in Rows
         /\ \A t \in Tickets : status[t] # "absent" => status'[t] # "absent"
BY DEF Rows, TicketStatus, Next, Open, Claim, Requeue, Fail, Complete,
       AgentCorrect, AgentSetStatus, Claimable

(* The table changes and the page does not.                                 *)
LEMMA RowStepInv ==
  ASSUME ScreenInv, Next, UNCHANGED screen
  PROVE  ScreenInv'
<1>1. ScreenTypeOK' /\ PollsAreCounted'
  BY DEF ScreenInv, ScreenTypeOK, Rows, TicketStatus, PollsAreCounted, screen
<1>2. KnownAreThere'
  <2>1. status \in Rows
    BY DEF ScreenInv, KnownAreThere
  <2> QED
    BY <2>1, RowsStay DEF ScreenInv, KnownAreThere, screen, Rows, TicketStatus
<1> QED
  BY <1>1, <1>2 DEF ScreenInv

(* The list is asked for, read as a whole, and replaces what is shown.      *)
LEMMA ListStepInv ==
  ASSUME ScreenInv, LoadTickets \/ AnswerList \/ ListAnswered \/ ListFails
  PROVE  ScreenInv'
<1> USE DEF ScreenInv, ScreenTypeOK, KnownAreThere, PollsAreCounted, lvars
<1>1. CASE LoadTickets
  BY <1>1 DEF LoadTickets, Rows, TicketStatus
<1>2. CASE AnswerList
  BY <1>2 DEF AnswerList, Rows, TicketStatus
<1>3. CASE ListAnswered
  BY <1>3 DEF ListAnswered, Rows, TicketStatus
<1>4. CASE ListFails
  BY <1>4 DEF ListFails, Rows, TicketStatus
<1> QED
  BY <1>1, <1>2, <1>3, <1>4

(* A POST and its answer.                                                   *)
LEMMA PostStepInv ==
  ASSUME ScreenInv, NEW t \in Tickets,
         Submit(t) \/ AnswerPost(t) \/ PostAnswered(t) \/ PostFails(t)
  PROVE  ScreenInv'
<1> USE PollLimitAssumption
    DEF ScreenInv, ScreenTypeOK, KnownAreThere, PollsAreCounted, lvars, Goto,
        Put, Carry, Rows, TicketStatus
<1>1. CASE Submit(t)
  BY <1>1 DEF Submit
<1>2. CASE AnswerPost(t)
  BY <1>2 DEF AnswerPost
<1>3. CASE PostAnswered(t)
  BY <1>3 DEF PostAnswered, Settled
<1>4. CASE PostFails(t)
  BY <1>4 DEF PostFails
<1> QED
  BY <1>1, <1>2, <1>3, <1>4

(* A poll: every one that does not settle the ticket uses up an attempt.    *)
LEMMA PollStepInv ==
  ASSUME ScreenInv, NEW t \in Tickets, PollStep(t)
  PROVE  ScreenInv'
<1> USE PollLimitAssumption
    DEF ScreenInv, ScreenTypeOK, KnownAreThere, PollsAreCounted, lvars, Goto,
        Put, Carry, Rows, TicketStatus, CountAttempt
<1>1. CASE TimerFires(t)
  BY <1>1 DEF TimerFires
<1>2. CASE AnswerPoll(t)
  BY <1>2 DEF AnswerPoll
<1>3. CASE PollAnswered(t)
  BY <1>3 DEF PollAnswered, Settled
<1>4. CASE PollFails(t)
  BY <1>4 DEF PollFails
<1> QED
  BY <1>1, <1>2, <1>3, <1>4 DEF PollStep

(* Every step. *)
LEMMA NextScreenInv == ScreenInv /\ [ScreenNext]_screenVars => ScreenInv'
<1> SUFFICES ASSUME ScreenInv, [ScreenNext]_screenVars PROVE ScreenInv'
  OBVIOUS
<1>1. CASE UNCHANGED screenVars
  BY <1>1 DEF screenVars, screen, lvars, ScreenInv, ScreenTypeOK, KnownAreThere,
              PollsAreCounted
<1> QED
  BY <1>1, RowStepInv, ListStepInv, PostStepInv, PollStepInv
     DEF ScreenNext, PageStep

(* The invariant holds in every behaviour. *)
THEOREM ScreenInvariance == ScreenSpec => []ScreenInv
BY InitScreenInv, NextScreenInv, PTL DEF ScreenSpec

(* Every variable has its type; in particular no ticket is polled more than *)
(* POLL_LIMIT times.                                                        *)
THEOREM ScreenTypes == ScreenSpec => []ScreenTypeOK
<1>1. ScreenInv => ScreenTypeOK
  BY DEF ScreenInv
<1> QED
  BY <1>1, ScreenInvariance, PTL

(* However late or old an answer is, the page lists and polls only tickets  *)
(* whose row is there: pollTicket's branch for a 404 has no step in the     *)
(* model because no poll of a customer's own ticket can meet it.            *)
THEOREM OnlyRowsAreShown == ScreenSpec => []KnownAreThere
<1>1. ScreenInv => KnownAreThere
  BY DEF ScreenInv
<1> QED
  BY <1>1, ScreenInvariance, PTL

=============================================================================
