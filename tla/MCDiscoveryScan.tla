-------------------------- MODULE MCDiscoveryScan ---------------------------
(***************************************************************************)
(* DiscoveryScan with policies of one to three addresses.                  *)
(***************************************************************************)
EXTENDS DiscoveryScan

Policy(cidrs, maxTargets) == [cidrs |-> cidrs, maxTargets |-> maxTargets]

\* Two overlapping blocks, a block of one, no block at all, and more
\* addresses than the limit.
AllPolicies == {Policy(<<{1, 2}, {2, 3}>>, 3), Policy(<<{1}>>, 3),
                Policy(<<>>, 3), Policy(<<{1, 2}, {3}>>, 2)}
=============================================================================
