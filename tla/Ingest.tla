------------------------------- MODULE Ingest -------------------------------
(***************************************************************************)
(* The live crypto ingester, one asyncio process (app/ingest/runner.py):   *)
(* a consumer task adds closed 1m candles to the CandleBuffer while a      *)
(* flush task swaps the buffer out, upserts the batch, commits, publishes, *)
(* enqueues the candle-close jobs and rolls the batch up into higher       *)
(* timeframes (app/ingest/buffer.py, aggregator.py, writer.py,             *)
(* dispatch.py).  The arq worker's backfill sweep writes to the same       *)
(* table.  Everything between two awaits is one action; the program        *)
(* counter pc says which await the flush task is at.                       *)
(*                                                                         *)
(* A candle is its minute.  Prices, logging and the gates that decide who  *)
(* wants a job (enabled strategies, rules, models) are left out.           *)
(***************************************************************************)
EXTENDS LiveAggregator, Sequences, Functions

CONSTANTS
    Symbols,         \* what the stream may carry
    Known,           \* the keys of symbol_to_instrument_id
    MaxMinute,       \* bound: minutes 0 .. MaxMinute
    MaxFaults,       \* bound: failed awaits, crashes and shutdowns
    MaxSweeps        \* bound: backfill sweeps that write something

ASSUME IngestAssumption ==
    /\ Known \subseteq Symbols
    /\ MaxMinute \in Nat
    /\ MaxFaults \in Nat
    /\ MaxSweeps \in Nat

Minutes == 0 .. MaxMinute
Windows == 0 .. MaxMinute

VARIABLES
    \* the process
    pc,              \* the await the flush task is at, or the process's end
    pending,         \* CandleBuffer._pending
    batch,           \* the batch _flush_once took
    emit,            \* produce()'s emissions: their minutes, {} for none
    mark,            \* LiveAggregator._last_emitted
    \* the database, Redis pub/sub and the arq queue
    stored,          \* 1m rows
    higher,          \* higher-tf rows: the minutes each was rolled up from
    feed,            \* 1m minutes published, in order, per symbol
    highFeed,        \* newest higher-tf window published per series
    jobs,            \* 1m candles a candle-close job was enqueued for
    highJobs,        \* higher-tf windows such a job was enqueued for
    \* history, read by the properties only
    received,        \* candles the consumer put in the buffer
    lost,            \* those dropped with the process or by a failed drain
    dropped,         \* those dropped because a rollback did not complete
    verdict,         \* what became of each window produce() looked at
    \* the bounds
    faults, sweeps

memory   == <<pending, batch, emit, mark>>
services == <<stored, higher, feed, highFeed, jobs, highJobs>>
history  == <<received, lost, dropped, verdict>>
vars     == <<pc, memory, services, history, faults, sweeps>>

Series(S) == [Symbols -> [TargetTFs -> S]]
EachSeries(v) == [s \in Symbols |-> [tf \in TargetTFs |-> v]]

Empty    == [s \in Symbols |-> <<>>]
NoneRolled == EachSeries([w \in Windows |-> {}])

\* The candles of a buffer, per symbol.
Held(buf, s) == Range(buf[s])
NoCandles(buf) == \A s \in Symbols : buf[s] = <<>>

UpStates == {"idle", "writing", "rollback", "publishing", "dispatching",
             "rolling", "committing", "undoing", "announcing", "confirming"}

TypeOK ==
    /\ pc \in UpStates \cup {"draining", "down"}
    /\ pc \in {"idle", "draining", "down"} => batch = Empty
    /\ pc \notin {"committing", "undoing", "announcing", "confirming"} =>
          emit = NoneRolled
    /\ pending \in [Symbols -> Seq(Minutes)]
    /\ batch \in [Symbols -> Seq(Minutes)]
    /\ emit \in Series([Windows -> SUBSET Minutes])
    /\ mark \in Series(Windows \cup {NoMark})
    /\ stored \in [Symbols -> SUBSET Minutes]
    /\ higher \in Series([Windows -> SUBSET Minutes])
    /\ feed \in [Symbols -> Seq(Minutes)]
    /\ highFeed \in Series(Windows \cup {NoMark})
    /\ jobs \in [Symbols -> SUBSET Minutes]
    /\ highJobs \in Series(SUBSET Windows)
    /\ received \in [Symbols -> SUBSET Minutes]
    /\ lost \in [Symbols -> SUBSET Minutes]
    /\ dropped \in [Symbols -> SUBSET Minutes]
    /\ verdict \in Series([Windows -> {"none", "sparse", "failed"}])
    /\ faults \in 0 .. MaxFaults
    /\ sweeps \in 0 .. MaxSweeps

Init ==
    /\ pc = "idle"
    /\ pending = Empty
    /\ batch = Empty
    /\ emit = NoneRolled
    /\ mark = EachSeries(NoMark)
    /\ stored = [s \in Symbols |-> {}]
    /\ higher = NoneRolled
    /\ feed = Empty
    /\ highFeed = EachSeries(NoMark)
    /\ jobs = [s \in Symbols |-> {}]
    /\ highJobs = EachSeries({})
    /\ received = [s \in Symbols |-> {}]
    /\ lost = [s \in Symbols |-> {}]
    /\ dropped = [s \in Symbols |-> {}]
    /\ verdict = EachSeries([w \in Windows |-> "none"])
    /\ faults = 0
    /\ sweeps = 0

-----------------------------------------------------------------------------
(* The consumer task and the buffer.                                       *)

Goto(from, to) == pc = from /\ pc' = to

Fault == faults < MaxFaults /\ faults' = faults + 1

\* CandleBuffer.add, called by the consumer with a closed candle.  The
\* stream sends a symbol's closes in order; a jump is what it sent while the
\* socket was down.
Add(s, t) ==
    /\ pc \in UpStates
    /\ \A u \in received[s] : u < t
    /\ pending' = [pending EXCEPT ![s] = Append(@, t)]
    /\ received' = [received EXCEPT ![s] = @ \cup {t}]
    /\ UNCHANGED <<pc, batch, emit, mark, services, lost, dropped, verdict,
                   faults, sweeps>>

\* run_flush_loop wakes up, finds candles and _flush_once swaps them out.
TakeBatch ==
    /\ Goto("idle", "writing")
    /\ ~NoCandles(pending)
    /\ batch' = pending
    /\ pending' = Empty
    /\ UNCHANGED <<emit, mark, services, history, faults, sweeps>>

\* Mutants of Prepended: the batch replaces what arrived since, or goes
\* behind it.
OverwrittenByBatch ==
    [s \in Symbols |-> IF batch[s] = <<>> THEN pending[s] ELSE batch[s]]

\* The batch put back ahead of what arrived while it was in flight.
Prepended == [s \in Symbols |-> batch[s] \o pending[s]]

\* Mutant of Written: the first unknown symbol ends the loop.
WrittenUntilUnknown(buf) ==
    [s \in Symbols |->
        IF s \in Known /\ \A r \in Symbols \ Known : buf[r] = <<>>
        THEN stored[s] \cup Held(buf, s) ELSE stored[s]]

\* What a committed _write_batch leaves: unknown symbols write no row.
Written(buf) ==
    [s \in Symbols |-> stored[s] \cup (IF s \in Known THEN Held(buf, s) ELSE {})]

\* The candles of a buffer that goes away and the rows do not have.
Discard(buf, rows, into) ==
    [s \in Symbols |-> into[s] \cup (Held(buf, s) \ rows[s])]

\* _write_batch and the commit.
Persist ==
    /\ Goto("writing", "publishing")
    /\ stored' = Written(batch)
    /\ UNCHANGED <<memory, higher, feed, highFeed, jobs, highJobs, history,
                   faults, sweeps>>

\* Mutant of PersistFails: the error is logged and the cycle goes on.
PersistErrorSwallowed ==
    /\ Goto("writing", "publishing")
    /\ Fault
    /\ UNCHANGED <<memory, services, history, sweeps>>

\* One of them raised.  A commit whose answer was lost has landed all the same.
PersistFails ==
    /\ Goto("writing", "rollback")
    /\ Fault
    /\ stored' \in {stored, Written(batch)}
    /\ UNCHANGED <<memory, higher, feed, highFeed, jobs, highJobs, history,
                   sweeps>>

\* Mutant of Requeue: the failed batch is forgotten.
ForgetBatch ==
    /\ Goto("rollback", "idle")
    /\ batch' = Empty
    /\ UNCHANGED <<pending, emit, mark, services, history, faults, sweeps>>

\* rollback() returned: _requeue puts the batch ahead of what arrived since.
Requeue ==
    /\ Goto("rollback", "idle")
    /\ pending' = Prepended
    /\ batch' = Empty
    /\ UNCHANGED <<emit, mark, services, history, faults, sweeps>>

-----------------------------------------------------------------------------
(* Fan-out of the committed batch.                                         *)

\* How far an in-order loop over each symbol's candles got.
Cuts(buf) == {cut \in [Symbols -> 0 .. (MaxMinute + 1)] :
                 \A s \in Symbols : cut[s] <= Len(buf[s])
                                    /\ (s \notin Known => cut[s] = 0)}

Complete(buf, cut) == \A s \in Known : cut[s] = Len(buf[s])

\* publish_candles per known symbol: an error stops that symbol only.
Publish ==
    /\ Goto("publishing", "dispatching")
    /\ \E cut \in Cuts(batch) :
          /\ IF Complete(batch, cut) THEN UNCHANGED faults ELSE Fault
          /\ feed' = [s \in Symbols |-> feed[s] \o SubSeq(batch[s], 1, cut[s])]
    /\ UNCHANGED <<memory, stored, higher, highFeed, jobs, highJobs, history,
                   sweeps>>

\* dispatch_close_jobs: an error ends the whole loop, so at most one symbol
\* is left half done.
Dispatch ==
    /\ Goto("dispatching", "rolling")
    /\ \E cut \in Cuts(batch) :
          /\ IF Complete(batch, cut) THEN UNCHANGED faults ELSE Fault
          /\ \A r, s \in Known :
                0 < cut[r] /\ cut[r] < Len(batch[r])
                /\ 0 < cut[s] /\ cut[s] < Len(batch[s]) => r = s
          /\ jobs' = [s \in Symbols |->
                         jobs[s] \cup Range(SubSeq(batch[s], 1, cut[s]))]
    /\ UNCHANGED <<memory, stored, higher, feed, highFeed, highJobs, history,
                   sweeps>>

-----------------------------------------------------------------------------
(* _roll_up_higher_tfs.                                                    *)

\* The series produce() looks at: known symbols with candles in the batch.
Touched == {s \in Known : batch[s] # <<>>}

Newest(s) == Max(Held(batch, s))

Emissions ==
    [s \in Symbols |-> [tf \in TargetTFs |-> [w \in Windows |->
        IF s \in Touched
           /\ w \in EmittedWindows(stored[s], mark[s][tf], Newest(s), tf)
        THEN MinutesIn(stored[s], w, tf)
        ELSE {}]]]

EmittedIn(e, s, tf) == {w \in Windows : e[s][tf][w] # {}}
Nothing(e) == e = NoneRolled

\* The verdicts after produce(): a candidate too sparse is noted as such.
Judged ==
    [s \in Symbols |-> [tf \in TargetTFs |-> [w \in Windows |->
        IF s \notin Touched
           \/ w \notin CandidateWindows(mark[s][tf], Newest(s), tf)
        THEN verdict[s][tf][w]
        ELSE IF w \in SparseWindows(stored[s], mark[s][tf], Newest(s), tf)
             THEN "sparse" ELSE "none"]]]

Verdict(v) ==
    [s \in Symbols |-> [tf \in TargetTFs |-> [w \in Windows |->
        IF emit[s][tf][w] # {} THEN v ELSE verdict[s][tf][w]]]]

\* Mutant of Finish: the batch outlives its flush.
KeptLocals == UNCHANGED <<batch, emit>>

\* The flush cycle is over: its locals go.
Finish == batch' = Empty /\ emit' = NoneRolled

Produce ==
    /\ pc = "rolling"
    /\ verdict' = Judged
    /\ IF Nothing(Emissions)
       THEN pc' = "idle" /\ Finish
       ELSE pc' = "committing" /\ emit' = Emissions /\ UNCHANGED batch
    /\ UNCHANGED <<pending, mark, services, received, lost, dropped, faults,
                   sweeps>>

\* One of produce()'s queries raised.
ProduceFails ==
    /\ Goto("rolling", "undoing")
    /\ Fault
    /\ UNCHANGED <<memory, services, history, sweeps>>

RolledUp ==
    [s \in Symbols |-> [tf \in TargetTFs |-> [w \in Windows |->
        IF emit[s][tf][w] # {} THEN emit[s][tf][w] ELSE higher[s][tf][w]]]]

\* The upserts of the emissions and their commit.
CommitHigher ==
    /\ Goto("committing", "announcing")
    /\ higher' = RolledUp
    /\ UNCHANGED <<memory, stored, feed, highFeed, jobs, highJobs, history,
                   faults, sweeps>>

CommitHigherFails ==
    /\ Goto("committing", "undoing")
    /\ Fault
    /\ higher' \in {higher, RolledUp}
    /\ verdict' = Verdict("failed")
    /\ UNCHANGED <<memory, stored, feed, highFeed, jobs, highJobs, received,
                   lost, dropped, sweeps>>

\* rollback() returned: the emissions are forgotten, the mark stays.
GiveUpRollUp ==
    /\ Goto("undoing", "idle")
    /\ Finish
    /\ UNCHANGED <<pending, mark, services, history, faults, sweeps>>

\* publish_candles of the emissions, ascending per series; an error stops
\* the rest of that symbol.  cut: how many windows of the series got out.
PublishHigher ==
    /\ Goto("announcing", "confirming")
    /\ \E out \in [Symbols -> [TargetTFs -> SUBSET Windows]] :
          /\ \A s \in Symbols, tf \in TargetTFs :
                /\ out[s][tf] \subseteq EmittedIn(emit, s, tf)
                /\ \A w \in out[s][tf], v \in EmittedIn(emit, s, tf) :
                      v < w => v \in out[s][tf]
          /\ IF \A s \in Symbols, tf \in TargetTFs :
                   out[s][tf] = EmittedIn(emit, s, tf)
             THEN UNCHANGED faults ELSE Fault
          /\ highFeed' = [s \in Symbols |-> [tf \in TargetTFs |->
                IF out[s][tf] = {} THEN highFeed[s][tf] ELSE Max(out[s][tf])]]
    /\ UNCHANGED <<memory, stored, higher, feed, jobs, highJobs, history,
                   sweeps>>

\* confirm(), then dispatch_close_jobs for the emissions; the error that
\* ends the dispatch is swallowed.
ConfirmAndDispatch ==
    /\ Goto("confirming", "idle")
    /\ mark' = [s \in Symbols |-> [tf \in TargetTFs |->
                   Confirmed(mark[s][tf], EmittedIn(emit, s, tf))]]
    /\ verdict' = Verdict("none")
    /\ \/ /\ UNCHANGED faults
          /\ highJobs' = [s \in Symbols |-> [tf \in TargetTFs |->
                             highJobs[s][tf] \cup EmittedIn(emit, s, tf)]]
       \/ Fault /\ UNCHANGED highJobs
    /\ Finish
    /\ UNCHANGED <<pending, stored, higher, feed, highFeed, jobs, received,
                   lost, dropped, sweeps>>

-----------------------------------------------------------------------------
(* Stopping: a cancel, an error that escapes, a crash; and starting again. *)

\* rollback() raised: the error escapes _flush_once and the flush loop, and
\* run_ingest goes on to its drain.  The batch was a local of _flush_once.
RollbackFails ==
    /\ pc \in {"rollback", "undoing"}
    /\ pc' = "draining"
    /\ Fault
    /\ dropped' = IF pc = "rollback" THEN Discard(batch, stored, dropped) ELSE dropped
    /\ Finish
    /\ UNCHANGED <<pending, mark, services, received, lost, verdict, sweeps>>

\* run_ingest is cancelled and cancels both tasks.  Up to the commit the
\* flush task puts its batch back; cancelled inside rollback() it does not.
Shutdown ==
    /\ pc \in UpStates
    /\ pc' = "draining"
    /\ Fault
    /\ pending' = IF pc = "writing" THEN Prepended ELSE pending
    /\ dropped' = IF pc = "rollback" THEN Discard(batch, stored, dropped) ELSE dropped
    /\ stored' \in IF pc = "writing" THEN {stored, Written(batch)} ELSE {stored}
    /\ higher' \in IF pc = "committing" THEN {higher, RolledUp} ELSE {higher}
    /\ Finish
    /\ UNCHANGED <<mark, feed, highFeed, jobs, highJobs, received, lost,
                   verdict, sweeps>>

\* run_ingest's finally block: flush() and commit, errors swallowed.
Drain ==
    /\ Goto("draining", "down")
    /\ pending' = Empty
    /\ \/ /\ stored' = Written(pending)
          /\ UNCHANGED <<lost, faults>>
       \/ /\ Fault
          /\ stored' \in {stored, Written(pending)}
          /\ lost' = Discard(pending, stored', lost)
    /\ UNCHANGED <<batch, emit, mark, higher, feed, highFeed, jobs, highJobs,
                   received, dropped, verdict, sweeps>>

\* The process is killed (SIGTERM has no handler): a commit in flight may land.
Crash ==
    /\ pc # "down"
    /\ pc' = "down"
    /\ Fault
    /\ stored' \in IF pc = "writing" THEN {stored, Written(batch)} ELSE {stored}
    /\ higher' \in IF pc = "committing" THEN {higher, RolledUp} ELSE {higher}
    /\ lost' = Discard(Prepended, stored', lost)
    /\ pending' = Empty
    /\ Finish
    /\ UNCHANGED <<mark, feed, highFeed, jobs, highJobs, received, dropped,
                   verdict, sweeps>>

\* The container comes back with an empty buffer and no marks.
Restart ==
    /\ Goto("down", "idle")
    /\ mark' = EachSeries(NoMark)
    /\ verdict' = EachSeries([w \in Windows |-> "none"])
    /\ UNCHANGED <<pending, batch, emit, services, received, lost, dropped,
                   faults, sweeps>>

\* backfill_gaps in the arq worker: closed minutes the table lacks, whether
\* the stream has delivered them or not.  It neither publishes nor dispatches.
Backfill(s) ==
    /\ sweeps < MaxSweeps
    /\ sweeps' = sweeps + 1
    /\ \E found \in SUBSET (Minutes \ stored[s]) :
          /\ found # {}
          /\ stored' = [stored EXCEPT ![s] = @ \cup found]
    /\ UNCHANGED <<pc, memory, higher, feed, highFeed, jobs, highJobs, history,
                   faults>>

-----------------------------------------------------------------------------
FlushStep ==
    \/ TakeBatch \/ Persist \/ PersistFails \/ Requeue
    \/ Publish \/ Dispatch
    \/ Produce \/ ProduceFails \/ CommitHigher \/ CommitHigherFails
    \/ GiveUpRollUp \/ PublishHigher \/ ConfirmAndDispatch \/ RollbackFails

Next ==
    \/ \E s \in Symbols, t \in Minutes : Add(s, t)
    \/ FlushStep
    \/ Shutdown \/ Drain \/ Crash \/ Restart
    \/ \E s \in Known : Backfill(s)

Spec == Init /\ [][Next]_vars

\* The event loop runs the flush task and the drain; nothing obliges the
\* stream, the sweep, an operator or a fault to act.
FairSpec == Spec /\ WF_vars(FlushStep) /\ WF_vars(Drain)
-----------------------------------------------------------------------------
(* Properties.                                                             *)

StrictlyIncreasing(q) == \A i, j \in DOMAIN q : i < j => q[i] < q[j]

\* Whatever order failures, re-queues and cancels come in, the candles held
\* for a symbol stay in stream order and none is held twice: a batch with a
\* repeated key would make every later ON CONFLICT upsert of it fail.
HeldInOrder == \A s \in Symbols : StrictlyIncreasing(batch[s] \o pending[s])

\* /ws/candles subscribers get a symbol's 1m bars in time order, none twice,
\* across retries and restarts (_requeue prepends; publish follows commit).
FeedInOrder == \A s \in Symbols : StrictlyIncreasing(feed[s])

\* Nothing is announced before it is durable: every 1m bar published or
\* handed to a compute job is a row (buffer.py publishes after the commit).
FanOutDurable == \A s \in Symbols : Range(feed[s]) \cup jobs[s] \subseteq stored[s]

HasRow(s, tf, w) == higher[s][tf][w] # {}

\* The same for the higher timeframes, and the high-water mark with them: a
\* mark ahead of its row would make produce() skip a bar nobody stored.
HigherFanOutDurable ==
    \A s \in Symbols, tf \in TargetTFs :
        /\ mark[s][tf] # NoMark => HasRow(s, tf, mark[s][tf])
        /\ highFeed[s][tf] # NoMark => HasRow(s, tf, highFeed[s][tf])
        /\ \A w \in highJobs[s][tf] : HasRow(s, tf, w)

\* buffer.py:99: whatever fails between the write and the fan-out, of a batch
\* or of a roll-up, subscribers and jobs are told of rows only.
AnnouncedIsStored == FanOutDurable /\ HigherFanOutDurable

\* The coverage rule as _rollup_window's docstring states it.
CoverageMet(bars, w, tf) ==
    LET missing == Cardinality(WindowMinutes(w, tf) \ bars)
    IN  IF Step[tf] <= StrictMax
        THEN missing = 0
        ELSE missing < Step[tf] /\ missing * CoverDen <= Step[tf] * (CoverDen - CoverNum)

\* A higher-tf row is never rolled up from a window that is still open or
\* too sparse, nor from a bar a rollback discarded.
HigherRowsSound ==
    \A s \in Symbols, tf \in TargetTFs, w \in Windows :
        HasRow(s, tf, w) =>
            /\ higher[s][tf][w] \subseteq stored[s]
            /\ CoverageMet(higher[s][tf][w], w, tf)
            /\ \E t \in stored[s] : WindowOf(t, tf) > w

\* Every candle the consumer accepted for a known symbol is stored, still
\* held for the next flush, went with the process, or was in the batch of a
\* rollback that did not complete: no other path of buffer.py drops one.
LossAccounted ==
    \A s \in Known :
        received[s] \subseteq stored[s] \cup Held(batch, s) \cup Held(pending, s)
                              \cup lost[s] \cup dropped[s]

\* Within one life of the process the mark never goes back, and the window
\* published last never does, even over a restart that forgets the marks.
HigherTFsInOrder ==
    [][\A s \in Symbols, tf \in TargetTFs :
          /\ pc # "down" => mark'[s][tf] >= mark[s][tf]
          /\ highFeed'[s][tf] >= highFeed[s][tf]]_vars

\* When the mark jumps over windows, each of them has its row, was too
\* sparse when it was read, or is further back than the catch-up cap: a
\* reconnect does not silently drop the middle ones (aggregator.py:169-171).
CatchUpComplete ==
    \A s \in Symbols, tf \in TargetTFs :
        mark[s][tf] # NoMark =>
            \A w \in mark[s][tf] + 1 .. mark'[s][tf] :
                \/ HasRow(s, tf, w)
                \/ verdict[s][tf][w] = "sparse"
                \/ w + MaxCatchup <= CompletedWindow(Newest(s), tf)

\* buffer.py:138-139: after a failed roll-up "the window is simply retried
\* next flush".  No later look at it finds it too sparse, so with
\* CatchUpComplete the mark does not pass it without its row, the cap apart.
\* Before the first mark only the latest completed window is looked at
\* (aggregator.py:171-175): there a failed one is dropped for a newer one.
FailedRollUpIsRetried ==
    \A s \in Symbols, tf \in TargetTFs, w \in Windows :
        verdict[s][tf][w] = "failed" => verdict'[s][tf][w] # "sparse"

\* aggregator.py:169-171, buffer.py:138-139: no window is left behind the mark,
\* be it in the middle of a gap or one whose roll-up failed.
NoWindowSkipped == [][CatchUpComplete /\ FailedRollUpIsRetried]_vars

\* aggregator.py:135-137: a window too sparse "produces nothing and is retried
\* once the periodic backfill sweep fills the gap", so one that was looked at
\* above the mark, after a window that has its row, and that has its bars by
\* now is not behind the mark without a row.
SparseWindowIsRetried ==
    \A s \in Symbols, tf \in TargetTFs, w \in Windows :
        /\ verdict[s][tf][w] = "sparse" /\ w <= mark[s][tf]
        /\ \E v \in Windows : v < w /\ HasRow(s, tf, v)
        => HasRow(s, tf, w) \/ ~EnoughBars(stored[s], w, tf)

\* Every held candle is eventually stored or, if the process stops first,
\* accounted for as lost: retries do not starve a batch.
HeldSettles ==
    \A s \in Known, t \in Minutes :
        t \in Held(batch, s) \cup Held(pending, s)
            ~> t \in stored[s] \cup lost[s] \cup dropped[s]

-----------------------------------------------------------------------------
(* The promise of module CandleFeed, kept for the known symbols.           *)

Running == pc \in UpStates

Unsettled(s) ==
    Held(pending, s)
    \cup IF pc \in {"writing", "rollback"} THEN Held(batch, s) ELSE {}

Promise == INSTANCE CandleFeed WITH
    Symbols   <- Known,
    running   <- Running,
    held      <- [s \in Known |-> Unsettled(s)],
    durable   <- [s \in Known |-> stored[s]],
    announced <- [s \in Known |-> feed[s]]

\* The ingester implements the promise: while it runs it forgets no accepted
\* candle, and it announces only durable ones, in order.
ImplementsCandleFeed == Promise!Spec
=============================================================================
