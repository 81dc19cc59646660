---------------------------- MODULE BacktestJob -----------------------------
(***************************************************************************)
(* A backtest from POST /backtests to the page that polls it: the row is   *)
(* committed, the job enqueued, a worker computes on the candles there are *)
(* and commits the outcome, and useBacktest asks for it until it is final. *)
(***************************************************************************)
EXTENDS Integers, FiniteSets

CONSTANTS
    Backtests,
    Results,            \* stats of runs that are done
    MaxPollFailures,    \* MAX_POLL_FAILURES
    MaxTrouble          \* bound: calls that fail, workers stopped, jobs timed out

ASSUME BacktestJobAssumption ==
    /\ Results \cap {"none", "pending", "failed"} = {}
    /\ MaxPollFailures \in Nat /\ MaxPollFailures > 1
    /\ MaxTrouble \in Nat

VARIABLES
    row,        \* "none" before it is committed, "pending", an outcome
    request,    \* the POST: "new", "stored", "sent", "broken"
    queued,     \* jobs of arq
    running,    \* "no", "read": the worker has the row, "ended": it has committed
    polling,    \* the page's timer is set
    asking,     \* a fetch of the page is on its way
    failures,   \* fetchFailureCount
    seen,       \* the row the page has
    lost,       \* backtests whose job went for good without an outcome
    rerun,      \* backtests whose worker stopped behind its commit
    trouble

bvars == <<row, request, queued, running, polling, asking, failures, seen, lost, rerun, trouble>>
page == <<polling, asking, failures, seen>>

JobInit ==
    /\ row = [b \in Backtests |-> "none"]
    /\ request = [b \in Backtests |-> "new"]
    /\ queued = {}
    /\ running = [b \in Backtests |-> "no"]
    /\ polling = {} /\ asking = {}
    /\ failures = [b \in Backtests |-> 0]
    /\ seen = [b \in Backtests |-> "none"]
    /\ lost = {} /\ rerun = {} /\ trouble = 0

Trouble == trouble < MaxTrouble /\ trouble' = trouble + 1

\* The outcomes are the terminal states.
Outcomes == Results \cup {"failed"}

-----------------------------------------------------------------------------
(* create_backtest.                                                         *)

Store(b) ==
    /\ request[b] = "new"
    /\ row' = [row EXCEPT ![b] = "pending"]
    /\ request' = [request EXCEPT ![b] = "stored"]
    /\ UNCHANGED <<page, queued, running, lost, rerun, trouble>>

\* The answer gives the page the id to poll.
Enqueue(b) ==
    /\ request[b] = "stored"
    /\ request' = [request EXCEPT ![b] = "sent"]
    /\ queued' = queued \cup {b}
    /\ polling' = polling \cup {b}
    /\ UNCHANGED <<row, running, asking, failures, seen, lost, rerun, trouble>>

\* Redis is away: a 500, and the row stays.
EnqueueFails(b) ==
    /\ Trouble
    /\ request[b] = "stored"
    /\ request' = [request EXCEPT ![b] = "broken"]
    /\ lost' = lost \cup {b}
    /\ UNCHANGED <<page, row, queued, running, rerun>>

-----------------------------------------------------------------------------
(* run_backtest_job.                                                        *)

\* The row is there: it was committed before the job was enqueued.
StartJob(b) ==
    /\ b \in queued /\ running[b] = "no"
    /\ queued' = queued \ {b}
    /\ running' = [running EXCEPT ![b] = "read"]
    /\ UNCHANGED <<page, row, request, lost, rerun, trouble>>

\* Mutant of EndJob: an error is logged and the status left.
EndJobQuietly(b) ==
    /\ running[b] = "read"
    /\ \E o \in Outcomes : row' = [row EXCEPT ![b] = IF o = "failed" THEN @ ELSE o]
    /\ running' = [running EXCEPT ![b] = "ended"]
    /\ UNCHANGED <<page, request, queued, lost, rerun, trouble>>

\* The result, or the error the run raised, is committed, whatever the row has.
\* Poller, sweep, flush and retention change the candles it is computed on.
EndJob(b) ==
    /\ running[b] = "read"
    /\ \E o \in Outcomes : row' = [row EXCEPT ![b] = o]
    /\ running' = [running EXCEPT ![b] = "ended"]
    /\ UNCHANGED <<page, request, queued, lost, rerun, trouble>>

LeaveJob(b) ==
    /\ running[b] = "ended"
    /\ running' = [running EXCEPT ![b] = "no"]
    /\ UNCHANGED <<page, row, request, queued, lost, rerun, trouble>>

\* The worker is stopped: arq runs a cancelled job again, ended or not.
WorkerStops(b) ==
    /\ Trouble
    /\ running[b] # "no"
    /\ running' = [running EXCEPT ![b] = "no"]
    /\ queued' = queued \cup {b}
    /\ rerun' = IF running[b] = "ended" THEN rerun \cup {b} ELSE rerun
    /\ UNCHANGED <<page, row, request, lost>>

\* Timed out by arq, or raising in the commit itself: neither is caught here,
\* and neither is run again.
JobDies(b) ==
    /\ Trouble
    /\ running[b] = "read"
    /\ running' = [running EXCEPT ![b] = "no"]
    /\ lost' = lost \cup {b}
    /\ UNCHANGED <<page, row, request, queued, rerun>>

-----------------------------------------------------------------------------
(* useBacktest.                                                             *)

\* Mutant of RefetchInterval: only a result is terminal.
RefetchUntilDone(status, n) == n < MaxPollFailures /\ status \notin Results

RefetchInterval(status, n) == n < MaxPollFailures /\ status \notin Outcomes

\* A fetch starts with no failures: it is not retried, so that its own is the
\* first.
Ask(b) ==
    /\ request[b] = "sent" /\ b \notin asking
    /\ asking' = asking \cup {b}
    /\ failures' = [failures EXCEPT ![b] = 0]
    /\ UNCHANGED <<row, request, queued, running, polling, seen, lost, rerun, trouble>>

\* The window gets the focus: what a page has is stale at once.
Focus(b) == b \notin polling /\ Ask(b)

Timer(b) == b \in polling /\ Ask(b)

Polls(b, again) == polling' = IF again THEN polling \cup {b} ELSE polling \ {b}

Answer(b) ==
    /\ b \in asking
    /\ asking' = asking \ {b}
    /\ seen' = [seen EXCEPT ![b] = row[b]]
    /\ Polls(b, RefetchInterval(row[b], failures[b]))
    /\ UNCHANGED <<row, request, queued, running, failures, lost, rerun, trouble>>

AnswerFails(b) ==
    /\ b \in asking
    /\ asking' = asking \ {b}
    /\ failures' = [failures EXCEPT ![b] = @ + 1]
    /\ Polls(b, RefetchInterval(seen[b], failures[b] + 1))
    /\ UNCHANGED <<row, request, queued, running, seen, lost, rerun, trouble>>

JobProgress(b) == StartJob(b) \/ EndJob(b) \/ LeaveJob(b)

JobNext ==
    \E b \in Backtests :
        \/ Store(b)
        \/ Enqueue(b)
        \/ EnqueueFails(b)
        \/ JobProgress(b)
        \/ WorkerStops(b)
        \/ JobDies(b)
        \/ Timer(b)
        \/ Focus(b)
        \/ Answer(b)
        \/ AnswerFails(b)

-----------------------------------------------------------------------------
(* Properties.                                                              *)

\* A fetch counts one failure at most: MAX_POLL_FAILURES is never reached.
JobTypeOK ==
    /\ row \in [Backtests -> {"none", "pending"} \cup Outcomes]
    /\ queued \subseteq Backtests /\ polling \subseteq Backtests /\ asking \subseteq Backtests
    /\ lost \subseteq Backtests /\ rerun \subseteq Backtests
    /\ failures \in [Backtests -> 0 .. 1]

\* api/backtests.py:34-36: a pending row has a job that will still run, or the
\* request that will enqueue it, unless its job went for good.
PendingHasJob ==
    \A b \in Backtests :
        row[b] = "pending" => \/ request[b] = "stored"
                              \/ b \in queued \cup lost
                              \/ running[b] = "read"

\* useBacktest.ts:51-55: a page that has an outcome asks no more of its own
\* accord, and what it has is what is stored; only a worker that was stopped
\* behind its commit computes and stores another outcome, never none.
SeenStands ==
    \A b \in Backtests :
        seen[b] \in Outcomes => /\ b \notin polling
                                /\ row[b] \in Outcomes
                                /\ row[b] = seen[b] \/ b \in rerun

\* api/backtests.py, workers/backtest_worker.py: however requests, jobs and pages
\* fail, a backtest does not stay pending unseen, and an outcome once seen is
\* replaced only by a job that ran again.
BacktestsSound == PendingHasJob /\ SeenStands
=============================================================================
