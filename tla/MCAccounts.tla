----------------------------- MODULE MCAccounts -----------------------------
(***************************************************************************)
(* Four processes are an account, an administrator and two changes at the  *)
(* same time; two people are a taken and a free address.                   *)
(***************************************************************************)
EXTENDS Accounts, TLC

(* Processes and people are interchangeable in the initial state. *)
MCSymmetry == Permutations(Processes) \cup Permutations(People)
=============================================================================
