----------------------------- MODULE MCBackend ------------------------------
(* Instance of module Backend for TLC.                                       *)
EXTENDS Backend
=============================================================================
