--------------------------- MODULE MCQueueRouting ---------------------------
(***************************************************************************)
(* One row is enough: no action of QueueRouting relates two rows.          *)
(***************************************************************************)
EXTENDS QueueRouting
=============================================================================
