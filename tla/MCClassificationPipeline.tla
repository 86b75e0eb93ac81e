---------------------- MODULE MCClassificationPipeline ----------------------
(***************************************************************************)
(* Small instances of ClassificationPipeline.                              *)
(***************************************************************************)
EXTENDS ClassificationPipeline, TLC

(* Ticket, worker and verdict names are interchangeable.  Symmetry is used  *)
(* by the runs that check no liveness.                                      *)
MCSymmetry ==
  Permutations(Tickets) \cup Permutations(Workers) \cup Permutations(Verdicts)
=============================================================================
