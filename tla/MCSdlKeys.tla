------------------------------ MODULE MCSdlKeys ------------------------------
(***************************************************************************)
(* An instance of SdlKeys for TLC: one type id is the beginning of the     *)
(* other, and so are the ids of instances, with and without a dot; the     *)
(* handler id has a dot.  The threads are interchangeable.                 *)
(***************************************************************************)
EXTENDS SdlKeys

MCChars == {"0", "1", "a", "b", "h", "."}
MCPolicyTypes == {<<"1">>, <<"1", "0">>}
MCInstances == {<<"a">>, <<"a", "b">>, <<"a", ".", "b">>}
MCSymmetry == Permutations(Threads)
MCHandlers == {<<"b", ".", "h">>}
==============================================================================
