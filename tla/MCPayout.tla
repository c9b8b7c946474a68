------------------------------ MODULE MCPayout ------------------------------
(***************************************************************************)
(* Two tabs of one interviewer and two admins, alike among themselves.     *)
(***************************************************************************)
EXTENDS Payout, TLC

PageSymmetry == Permutations(Tabs) \cup Permutations(Admins)

=============================================================================
