--------------------------- MODULE MCTicketScreen ---------------------------
(***************************************************************************)
(* One ticket: two meet only in the list, which is read as a whole.        *)
(***************************************************************************)
EXTENDS TicketScreen
=============================================================================
