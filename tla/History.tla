------------------------------ MODULE History ------------------------------
(***************************************************************************)
(* What the analysis code makes of one instrument's stored candles as they *)
(* accrue bar by bar: indicators, presets, the backtest walk of each       *)
(* preset, training rows and gaps.  Every one of them is a function of the *)
(* candles, so the state is the candles and the walks.                     *)
(***************************************************************************)
EXTENDS Backtest, Training

CONSTANTS
    Shapes,         \* [o, h, l, c, v] a bar may have
    MaxBars,        \* bound: bars that close, the lost ones among them
    MaxMissing,     \* bound: bars never delivered
    Step,           \* ticks of the clock from a bar to the next
    SweepBars       \* _BACKFILL_SWEEP_WINDOW, in bars

ASSUME HistoryAssumption ==
    /\ \A s \in Shapes : s.o \in Nat /\ s.h \in Nat /\ s.l \in Nat /\ s.c \in Nat /\ s.v \in Nat
    /\ \A s \in Shapes : s.l <= s.o /\ s.l <= s.c /\ s.o <= s.h /\ s.c <= s.h /\ s.l > 0
    /\ MaxBars \in Nat /\ MaxMissing \in Nat
    /\ Step \in Nat \ {0} /\ SweepBars \in Nat \ {0}

VARIABLES
    bars,       \* the rows of candles, by ts
    walk        \* _walk_signal_trades of each preset, over them

vars == <<bars, walk>>

Missing == IF bars = <<>> THEN 0 ELSE Last(bars).ts + 1 - Len(bars)
NextTs == IF bars = <<>> THEN 0 ELSE Last(bars).ts + 1

Init ==
    /\ bars = <<>>
    /\ walk = [n \in Names |-> NewWalk]

\* api/strategies.py:191-199: the walk of the API is not told the timeframe.
WalkWindow == session_floor_window(P.window, FALSE, "crypto")

\* A bar closes, after none or one that was lost.
CloseBar(s, skipped) ==
    /\ NextTs + skipped < MaxBars
    /\ skipped + Missing <= MaxMissing
    /\ bars = <<>> => skipped = 0
    /\ bars' = Append(bars, [ts |-> NextTs + skipped, o |-> s.o, h |-> s.h, l |-> s.l,
                             c |-> s.c, v |-> s.v])
    /\ walk' = [n \in Names |-> WalkBar(n, bars', WalkWindow, walk[n])]

Next == \E s \in Shapes, skipped \in {0, 1} : CloseBar(s, skipped)

Spec == Init /\ [][Next]_vars

Full == bars # <<>>
Now == Last(bars)

-----------------------------------------------------------------------------
(* backfill.py: the gaps of a range, and what is fetched for them.          *)

\* Maximal runs of consecutive numbers.
Runs(S) ==
    {r \in S \X S : /\ r[1] <= r[2] /\ r[1] - 1 \notin S /\ r[2] + 1 \notin S
                    /\ r[1] .. r[2] \subseteq S}

\* Steps of [start, end), from its start, at which there is no row.
MissingSteps(existing, start, end, step) ==
    {k \in 0 .. end - start : start + k * step < end /\ start + k * step \notin existing}

\* Mutant of find_gaps: a gap that reaches the end is not closed.
find_gapsOpen(existing, start, end, step) ==
    {<<start + r[1] * step, start + r[2] * step>> :
        r \in {q \in Runs(MissingSteps(existing, start, end, step)) :
                  start + (q[2] + 1) * step < end}}

\* The first and last timestamp of each run; a run that reaches the end of the
\* range is closed a step before it.
find_gaps(existing, start, end, step) ==
    {<<start + r[1] * step,
       IF start + (r[2] + 1) * step < end THEN start + r[2] * step ELSE end - step>> :
        r \in Runs(MissingSteps(existing, start, end, step))}

\* Of the exchange's bars, numbered from 0 to the one still forming, the first
\* that it has room for from the gap's start, and of these those in the gap.
Fetched(g, now) ==
    LET limit == (g[2] - g[1]) \div Step + 1
        From(ts, x) == {y \in 0 .. x : ts <= y * Step}
    IN {x \in 0 .. now \div Step : /\ g[1] <= x * Step /\ x * Step <= g[2]
                                   /\ Cardinality(From(g[1], x)) <= limit}

\* Gaps of the sweep at a time of the clock, over the rows in its window.
SweepGaps(stored, now) ==
    LET start == now - SweepBars * Step
    IN find_gaps({x * Step : x \in {y \in stored : start <= y * Step /\ y * Step < now}},
                 start, now, Step)

-----------------------------------------------------------------------------
(* Properties.                                                              *)

\* Bars in order of time, and walks over them whose open position was entered
\* at the bar its signal is for.
TypeOK ==
    /\ Len(bars) <= MaxBars
    /\ \A i \in 2 .. Len(bars) : bars[i - 1].ts < bars[i].ts
    /\ \A n \in Names :
          /\ walk[n].open \in BOOLEAN /\ walk[n].entry \in 0 .. Len(bars)
          /\ walk[n].signal \in Signals
          /\ walk[n].open => walk[n].signal.ts = bars[walk[n].entry].ts
          /\ \A k \in 1 .. Len(walk[n].trades) :
                /\ walk[n].trades[k].reason \in {"tp", "sl"}
                /\ 0 < walk[n].trades[k].entry /\ walk[n].trades[k].exit <= Len(bars)

\* indicators.py, cross-checked in the tests against pandas-ta: over any bars
\* the oscillators stay within 0 and 100, the averages within the prices they
\* average, and the bands around their middle.
IndicatorsBounded ==
    Full =>
    LET c == Closes(bars)
        s == latest_session(bars)
        Within(x, lo, hi) == Known(x) => lo <= x /\ x <= hi
        bb == bollinger(c, P.bb_period, P.bb_std)
    IN /\ Within(Last(rsi(c, P.rsi_period)), 0, 10000)
       /\ Len(bars) >= P.adx_period => Within(Last(adx(bars, P.adx_period)), 0, 10000)
       /\ Within(Last(vwap(s)), Smallest(Lows(s)), Largest(Highs(s)))
       /\ Within(Last(ema(c, P.slow)), Smallest(c), Largest(c))
       /\ Len(c) >= P.bb_period =>
             LET w == Trailing(c, Len(c), P.bb_period)
             IN /\ Within(Last(bb.mid), Smallest(w), Largest(w))
                /\ Last(bb.lower) <= Last(bb.mid) /\ Last(bb.mid) <= Last(bb.upper)

\* A backtest sees at bar i what the live worker saw: a value an indicator has
\* for a bar does not change when later bars arrive.
Causal ==
    \A key \in Keys :
        LET old == Series(key, bars, P.rsi_period)
            new == Series(key, bars', P.rsi_period)
        IN \A i \in 1 .. Len(bars) : Known(old[i]) => new[i] = old[i]

\* cache.py:75-80: the snapshot of a bar that is already stored is that of the
\* stored bars, the last of them counted once.
SnapshotOfStoredBars ==
    Full => \A key \in {"sma", "rel_volume", "gap_pct"} :
        recompute_from_history(bars, P.rsi_period, P.rsi_period + 1)[key]
            = Last(Series(key, bars, P.rsi_period))

\* scanner/indicators.py, cache.py:75-80: what a rule compares is a value of its
\* indicator over the stored bars, and within that indicator's range.
IndicatorsSound == IndicatorsBounded /\ SnapshotOfStoredBars

\* grid_range.py:64-66, bb_rsi_revert.py:65-67: an entry lies between its stop
\* and its target, for every preset on every history; only a trade without any
\* risk may have its target at the entry.
LevelsOrdered ==
    Full => \A n \in Names : \A s \in generate_signals(n, bars) :
        /\ s.direction = "long" => s.ref_sl <= s.ref_entry /\ s.ref_entry <= s.ref_tp
        /\ s.direction = "short" => s.ref_tp <= s.ref_entry /\ s.ref_entry <= s.ref_sl
        /\ s.ref_tp = s.ref_entry => s.ref_sl = s.ref_entry

\* orb.py:9-15: what a preset emits is for the session of the newest bar.
SignalIsOfThisSession ==
    Full => \A n \in Names : \A s \in Live(n, bars) : DayOf(s) = DayOf(Now)

\* Within a session ORB names one bar, however often the worker asks it: the claim
\* of that bar is what keeps it from being sent again.  Only while the worker's
\* frame holds the session: beyond it the opening range moves along.
OrbKeepsItsBreakout ==
    /\ Full /\ DayOf(Last(bars')) = DayOf(Now)
    /\ Len(latest_session(bars')) <= P.history
    => orb(Frame(bars)) \subseteq orb(Frame(bars'))

\* indicators.py, orb.py:9-15: what a live worker acted on is what a backtest
\* finds there later: neither a value nor a breakout of the past changes when
\* bars arrive.
PastIsKept == [][Causal /\ OrbKeepsItsBreakout]_vars

\* signal_bridge.py:226-240: the window of a caller that passes the timeframe, as
\* the chat tool does (signal_tools.py:160-161), shows a session-anchored preset
\* the whole session, if that is no longer than its market's: it finds what it
\* would find in all of history.  The API's walk has no such window.
SessionInView ==
    Full => \A n \in {"orb", "breakout_retest"}, market \in Markets :
        Len(latest_session(bars)) <= SessionBars(market) =>
        generate_signals(n, Newest(bars, session_floor_window(P.window, TRUE, market)))
            = generate_signals(n, bars)

\* strategies/*.py, signal_bridge.py:226-240: a preset's signal is for the session
\* it runs in, its entry between its levels, and a window floored to the session
\* loses none.
PresetsSound == LevelsOrdered /\ SignalIsOfThisSession /\ SessionInView

\* signal_bridge.py:76-86: every trade closes at the first bar after its entry
\* that reaches one of its levels, at its stop if that is among them, and
\* trades do not overlap; what is open has reached neither.
ClosedAtFirstTouch ==
    \A n \in Names :
        LET w == walk[n]
            Stops(s, j) == IF s.direction = "long" THEN bars[j].l <= s.ref_sl
                           ELSE bars[j].h >= s.ref_sl
            Wins(s, j) == IF s.direction = "long" THEN bars[j].h >= s.ref_tp
                          ELSE bars[j].l <= s.ref_tp
            Reached(s, from, to) == {j \in from .. to : Stops(s, j) \/ Wins(s, j)}
        IN /\ \A k \in 1 .. Len(w.trades) :
                 LET t == w.trades[k]
                 IN /\ Reached(t.signal, t.entry + 1, t.exit) = {t.exit}
                    /\ t.reason = "sl" <=> Stops(t.signal, t.exit)
                    /\ k > 1 => w.trades[k - 1].exit < t.entry
           /\ w.open => Reached(w.signal, w.entry + 1, Len(bars)) = {}

\* signal_bridge.py:7-9: "HONEST" stats: a trade that reached its target has
\* gained before costs and one that was stopped has not, short ones included;
\* without a winning trade, and without one that lost more than all there
\* was, there is no net return.
WinsGain ==
    \A n \in Names :
        /\ \A k \in 1 .. Len(walk[n].trades) :
              LET t == walk[n].trades[k]
              IN IF t.reason = "tp" THEN Gross(t) >= 0 ELSE Gross(t) <= 0
        /\ /\ wins(walk[n]) = 0
           /\ \A k \in 1 .. Len(walk[n].trades) : Bps + Net(walk[n].trades[k]) >= 0
           => net_return(walk[n]) <= 0

\* signal_bridge.py:16-17: the flags handed to the runner and the honest
\* trades never drift apart: the runner closes the same trades, is
\* charged for their sides alone, and holds a position when the walk does.
RunnerAgrees ==
    \A n \in Names :
        LET flags == AdapterFlags(walk[n], Len(bars))
        IN /\ ClosedTrades(flags) =
                 [k \in 1 .. Len(walk[n].trades) |->
                    <<walk[n].trades[k].entry, walk[n].trades[k].exit>>]
           /\ Charged(flags) = 2 * Len(walk[n].trades) + (IF walk[n].open THEN 1 ELSE 0)
           /\ Position(flags)[Len(bars)] = walk[n].open

\* runner.py:43-48 and :59-77: the position the equity curve is made from is
\* held over exactly the trades the win rate is made from, whatever repeated
\* entries and idle exits the crossing averages flag.
CurveMatchesTrades ==
    LET flags == SmaCross(bars, P.sma_fast, P.sma_slow)
        closed == ClosedTrades(flags)
        held == {i \in 1 .. Len(bars) : Position(flags)[i]}
    IN /\ \A k \in 1 .. Len(closed) : closed[k][1] .. closed[k][2] - 1 \subseteq held
       /\ \A i \in held : \/ \E k \in 1 .. Len(closed) : i \in closed[k][1] .. closed[k][2] - 1
                          \/ \A j \in i .. Len(bars) : j \in held

\* signal_bridge.py:7-17: win rate, returns and equity curve are statistics of
\* the same trades, each closed where its levels say and valued by direction.
TradesHonest ==
    TypeOK /\ ClosedAtFirstTouch /\ WinsGain /\ RunnerAgrees /\ CurveMatchesTrades

\* features.py:44-48: dropping incomplete rows must not drop the bar that just
\* closed, of which a prediction is to be made.
NewestRowServed ==
    Len(bars) > FeatureBars /\ Len(bars) >= VolumeWindow => Len(bars) \in FeatureRows(bars)

\* train.py:86-88: no label of a training row is known only inside the window
\* its fold is tested on, whichever rows the features lost.
FoldsHeldOut ==
    Trains(bars) => LET at == Rows(bars) IN \A k \in 0 .. Folds - 1 : NoLeak(at, k)

\* evaluate.py:14-17: trades of one model do not overlap and all of them can be
\* held for the horizon the label asked about.
GateTradesApart ==
    \A mask \in SUBSET (1 .. Len(bars)), horizon \in 1 .. 2 :
        LET e == TradeEntries(mask, Len(bars), horizon)
        IN /\ \A k \in 2 .. Len(e) : e[k] - e[k - 1] >= horizon
           /\ e # <<>> => Last(e) + horizon <= Len(bars)

\* labels.py:41-62: a triple-barrier label is decided by bars after its entry,
\* the first that reaches a barrier, within the horizon.
LabelLooksAhead ==
    \A i \in LabelRows(bars) :
        LET b == TripleBarrier(bars, i, 10, 10)
            Out(j) == 10 * bars[j].h >= 11 * bars[i].c \/ 10 * bars[j].l <= 9 * bars[i].c
        IN /\ i < b.at /\ b.at <= i + Horizon
           /\ \A j \in i + 1 .. b.at - 1 : ~Out(j)
           /\ Out(b.at) \/ b.at = i + Horizon

\* ml/train.py:86-130: from the bars to the gate a model is published by, nothing
\* is decided by bars that were not to be known, and the newest bar is not lost.
TrainingHeldOut == NewestRowServed /\ FoldsHeldOut /\ GateTradesApart /\ LabelLooksAhead

\* worker.py:59-67, backfill.py:25-104: at whatever second the sweep runs, every
\* bar of its window that has closed and has no row is fetched, for one gap, and
\* the bar still forming for none.  Only on the minute are the stored ones spared.
GapsExact ==
    \A now \in NextTs * Step .. (NextTs + MaxMissing + 1) * Step - 1 :
        LET stored == {bars[i].ts : i \in 1 .. Len(bars)}
            gaps == SweepGaps(stored, now)
            fetched == UNION {Fetched(g, now) : g \in gaps}
            due == {x \in 0 .. now \div Step :
                       now - SweepBars * Step <= x * Step /\ (x + 1) * Step <= now}
        IN /\ due \ stored \subseteq fetched /\ fetched \subseteq due
           /\ \A g, h \in gaps : g = h \/ Fetched(g, now) \cap Fetched(h, now) = {}
           /\ now % Step = 0 => fetched \cap stored = {}
=============================================================================
