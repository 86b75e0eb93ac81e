----------------------------- MODULE MCSessions -----------------------------
(***************************************************************************)
(* Two users can be each other's administrator, agent and customer; two    *)
(* requests overlap, one of them changing what the other relies on.        *)
(***************************************************************************)
EXTENDS Sessions, TLC

MCSymmetry == Permutations(Clients)
=============================================================================
