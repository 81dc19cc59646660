------------------------------ MODULE Backend -------------------------------
(***************************************************************************)
(* The backend's remaining writers: requests on rules and on configs,      *)
(* backtests, and the cron jobs.  None of them writes a table another      *)
(* writes, and what a backtest reads of the bars is left open by           *)
(* BacktestJob, so that a behaviour is of one of them and the others rest. *)
(***************************************************************************)
EXTENDS Rows, BacktestJob, Sweeps

VARIABLE part       \* the one that runs

vars == <<part, rvars, bvars, svars>>

Init ==
    /\ part \in {"rules", "configs", "backtest", "sweeps"}
    /\ RowsInit /\ JobInit /\ SweepsInit
    /\ part # "sweeps" => instruments = {} /\ delay = 0

RowsStep ==
    /\ \/ part = "rules" /\ RuleNext
       \/ part = "configs" /\ ConfigNext
    /\ UNCHANGED <<part, bvars, svars>>
JobStep(step) == part = "backtest" /\ step /\ UNCHANGED <<part, rvars, svars>>
SweepsStep == part = "sweeps" /\ SweepsNext /\ UNCHANGED <<part, rvars, bvars>>

Next == RowsStep \/ JobStep(JobNext) \/ SweepsStep

\* The worker takes the jobs of its queue, the page's timer fires, and a fetch
\* ends, answered or not.
Spec ==
    /\ Init /\ [][Next]_vars
    /\ \A b \in Backtests : /\ WF_vars(JobStep(JobProgress(b)))
                            /\ WF_vars(JobStep(Timer(b)))
                            /\ WF_vars(JobStep(Answer(b) \/ AnswerFails(b)))

\* The types of all of them.
TypeOK == RowsTypeOK /\ JobTypeOK /\ SweepsTypeOK

\* From now on no fetch of b is answered.
Unanswered(b) == [](b \in asking \/ failures[b] = 1)

\* useBacktest.ts:51-55: a page polls a backtest for ever only if its job went
\* for good or no fetch is answered any more; otherwise an outcome ends it.
PollEnds ==
    \A b \in Backtests :
        part = "backtest" /\ b \in polling ~> b \notin polling \/ b \in lost \/ Unanswered(b)
=============================================================================
