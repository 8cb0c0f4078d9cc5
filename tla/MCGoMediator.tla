---------------------------- MODULE MCGoMediator ----------------------------
(***************************************************************************)
(* Instances of GoMediator for TLC.                                        *)
(***************************************************************************)
EXTENDS GoMediator, TLC

CONSTANTS a, b, s1, s2

\* Slots are interchangeable, and the registry does not depend on them.
SlotSymmetry == Permutations(Slots)
=============================================================================
