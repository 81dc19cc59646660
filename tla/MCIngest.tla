------------------------------ MODULE MCIngest ------------------------------
(***************************************************************************)
(* Instances of Ingest for TLC.  Windows of 2 and 3 minutes stand for the  *)
(* strict 5m windows and for the larger, 90 % ones; the small coverage     *)
(* fraction lets a 3-bar gap-free window and a sparse one both happen.     *)
(***************************************************************************)
EXTENDS Ingest

CONSTANTS btc, doge, short, long

MCStep == [tf \in TargetTFs |-> IF tf = short THEN 2 ELSE 3]
=============================================================================
