--------------------------- MODULE MCInlineRequest ---------------------------
(***************************************************************************)
(* A small instance of InlineRequest; one Retry-After is beyond its cap.   *)
(***************************************************************************)
EXTENDS InlineRequest
=============================================================================
