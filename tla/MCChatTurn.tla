----------------------------- MODULE MCChatTurn -----------------------------
(***************************************************************************)
(* Two turns of one user, a third on a foreign session; one fact, which a  *)
(* text may state with or without a tool having reported it.               *)
(***************************************************************************)
EXTENDS ChatTurn, TLC

CONSTANTS t1, t2, t3, ann, price

MCUserOf == t1 :> ann @@ t2 :> ann @@ t3 :> ann
MCTexts == {"", "plain", "price", "buy now"}
MCFactsIn == [m \in MCTexts |-> IF m = "price" THEN {price} ELSE {}]
=============================================================================
