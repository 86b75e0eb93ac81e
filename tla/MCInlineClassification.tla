----------------------- MODULE MCInlineClassification -----------------------
(***************************************************************************)
(* Small instances of InlineClassification.                                *)
(***************************************************************************)
EXTENDS InlineClassification
=============================================================================
