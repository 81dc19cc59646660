---------------------------- MODULE MCScanWorker ----------------------------
(***************************************************************************)
(* Two rules, the first on 1m and 5m, the second on 1m; a duplicated 1m    *)
(* job, a 5m job for the same start time and one for the next 1m bar, at   *)
(* which the market is closed.                                             *)
(***************************************************************************)
EXTENDS ScanWorker

CONSTANTS m1, m5, a, b, c, d

MCTf == [j \in Jobs |-> IF j = c THEN m5 ELSE m1]
MCTs == [j \in Jobs |-> IF j = d THEN 2 ELSE 1]
MCRules == <<"cross", "minute">>
MCRuleTfs == <<{m1, m5}, {m1}>>
MCFiring == {<<1, m1, 1>>, <<1, m5, 1>>, <<2, m1, 1>>, <<2, m1, 2>>}
=============================================================================
