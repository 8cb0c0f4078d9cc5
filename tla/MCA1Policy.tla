----------------------------- MODULE MCA1Policy -----------------------------
(***************************************************************************)
(* Instances of A1Policy for TLC.  Schema s1 accepts b1 and b2, s2 only    *)
(* b2: replacing the type changes which bodies conform.  Schema s3 accepts *)
(* nothing.                                                                *)
(***************************************************************************)
EXTENDS A1Policy

CONSTANTS s1, s2, s3, b1, b2

MCConforms == [s \in Schemas |-> CASE s = s1 -> {b1, b2} \cap Bodies
                                   [] s = s2 -> {b2} \cap Bodies
                                   [] s = s3 -> {}]
=============================================================================
