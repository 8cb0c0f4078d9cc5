----------------------------- MODULE MCA1System -----------------------------
(***************************************************************************)
(* An instance of A1System for TLC.                                        *)
(***************************************************************************)
EXTENDS A1System

CONSTANTS i1, s1
=============================================================================
