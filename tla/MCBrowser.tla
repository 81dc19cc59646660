----------------------------- MODULE MCBrowser ------------------------------
(* Model values of module Browser for TLC.                                   *)
EXTENDS Browser

MCSessions == <<"first", "second">>
=============================================================================
