------------------------------ MODULE MCA1Rmr -------------------------------
(***************************************************************************)
(* Instances of A1Rmr for TLC.                                             *)
(***************************************************************************)
EXTENDS A1Rmr, TLC

CONSTANTS p1, p2, e1, e2, s1, s2

AllTypes == {"response", "query", "ei_query", "ei_job", "other", "malformed"}
NoTypes == {}
=============================================================================
