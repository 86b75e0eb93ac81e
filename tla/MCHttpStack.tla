---------------------------- MODULE MCHttpStack ----------------------------
(***************************************************************************)
(* Requests of one client that are neither exempt nor probes are alike.    *)
(***************************************************************************)
EXTENDS HttpStack, TLC

MCSymmetry == Permutations(Requests \ (Exempt \cup Probes))
=============================================================================
