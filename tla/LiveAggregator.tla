--------------------------- MODULE LiveAggregator ---------------------------
(***************************************************************************)
(* app/ingest/aggregator.py: which higher-timeframe windows the closes of  *)
(* one flush complete, which of them have enough 1m bars to be emitted,    *)
(* and how far the high-water mark moves.  Pure operators; module Ingest   *)
(* drives them.                                                            *)
(*                                                                         *)
(* A minute is a number counted from the epoch.  Window w of timeframe tf  *)
(* covers the Step[tf] minutes from w * Step[tf] on, so the code's         *)
(* _floor_to_window is a division.  Prices are left out: a rolled-up bar   *)
(* is the set of minutes it was rolled up from.                            *)
(***************************************************************************)
EXTENDS Integers, FiniteSetsExt

CONSTANTS
    TargetTFs,       \* the higher timeframes (DEFAULT_HIGHER_TFS)
    Step,            \* minutes per window (_WINDOW_MINUTES)
    StrictMax,       \* windows up to this size must be complete (5)
    CoverNum,        \* larger ones need CoverNum/CoverDen of their bars (9/10)
    CoverDen,
    MaxCatchup       \* windows one produce() looks at per series (500)

ASSUME AggregatorAssumption ==
    /\ Step \in [TargetTFs -> Nat \ {0}]
    /\ StrictMax \in Nat
    /\ CoverNum \in Nat \ {0}
    /\ CoverDen \in Nat \ {0}
    /\ MaxCatchup \in Nat \ {0}

NoMark == -1         \* _last_emitted has no entry for the series

WindowOf(t, tf) == t \div Step[tf]

WindowMinutes(w, tf) == (w * Step[tf]) .. ((w + 1) * Step[tf] - 1)

MinutesIn(bars, w, tf) == bars \cap WindowMinutes(w, tf)

\* _rollup_window returns a candle rather than None.
EnoughBars(bars, w, tf) ==
    LET present == Cardinality(MinutesIn(bars, w, tf))
    IN  /\ present > 0
        /\ IF Step[tf] <= StrictMax
           THEN present >= Step[tf]
           ELSE present * CoverDen >= Step[tf] * CoverNum

\* Mutant of CompletedWindow: the window the bar itself is in.
OpenWindow(t, tf) == WindowOf(t, tf)

\* A window is closed once a bar of the next one has arrived.
CompletedWindow(t, tf) == WindowOf(t, tf) - 1

\* Mutants of CandidateWindows: no catch-up, and a catch-up that forgets
\* where the mark is.
LatestOnly(seen, t, tf) ==
    LET done == CompletedWindow(t, tf)
    IN  IF seen # NoMark /\ done <= seen THEN {} ELSE {done}

FromTheStart(seen, t, tf) == 0 .. CompletedWindow(t, tf)

\* The windows produce() walks: from just above the mark (from the newest
\* completed one when there is no mark) to the newest completed one, only the
\* last MaxCatchup of them.  Empty when the mark is already there.
CandidateWindows(seen, t, tf) ==
    LET done  == CompletedWindow(t, tf)
        first == IF seen = NoMark THEN done ELSE seen + 1
    IN  (first .. done) \cap ((done - MaxCatchup + 1) .. done)

\* produce() for one series: its emissions, and the candidates too sparse.
EmittedWindows(bars, seen, t, tf) ==
    {w \in CandidateWindows(seen, t, tf) : EnoughBars(bars, w, tf)}

SparseWindows(bars, seen, t, tf) ==
    {w \in CandidateWindows(seen, t, tf) : ~EnoughBars(bars, w, tf)}

\* confirm(): the mark moves to the newest emitted window and never back.
Confirmed(seen, windows) == Max(windows \cup {seen})
=============================================================================
