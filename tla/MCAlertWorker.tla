--------------------------- MODULE MCAlertWorker ----------------------------
(***************************************************************************)
(* Two hits of a rule with three subscriptions, two of them of one user,   *)
(* and a limit of two messages per window.                                 *)
(***************************************************************************)
EXTENDS AlertWorker

CONSTANTS h1, h2, ann, bob

MCSubs == <<"ann-phone", "bob-phone", "ann-desk">>
MCUserOf == <<ann, bob, ann>>
=============================================================================
