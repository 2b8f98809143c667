------------------------------ MODULE MCServer ------------------------------
(* Small instances of Server. *)
EXTENDS Server
=============================================================================
