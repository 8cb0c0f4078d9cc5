----------------------------- MODULE MCGoServer -----------------------------
(***************************************************************************)
(* Instances of GoServer for TLC.                                          *)
(***************************************************************************)
EXTENDS GoServer

\* What restful.Run uses, and all listeners that the server can have.
MCConfigs == {{}, {"unix", "http", "https"}}
=============================================================================
