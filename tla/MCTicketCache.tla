--------------------------- MODULE MCTicketCache ---------------------------
(***************************************************************************)
(* Small instances of TicketCache.                                         *)
(***************************************************************************)
EXTENDS TicketCache
=============================================================================
