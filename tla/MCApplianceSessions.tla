------------------------ MODULE MCApplianceSessions -------------------------
(***************************************************************************)
(* ApplianceSessions with two concurrent requests.                         *)
(***************************************************************************)
EXTENDS ApplianceSessions, TLC

Symmetry == Permutations(Requests) \cup Permutations(Users)
=============================================================================
