------------------------------ MODULE Backtest ------------------------------
(***************************************************************************)
(* app/backtest: the walk that resolves a preset's signals into trades, the *)
(* flags it hands to the close-to-close runner, and the runner itself.      *)
(* Prices are integers, rates and returns are in basis points.             *)
(***************************************************************************)
EXTENDS Presets

CONSTANTS
    Fees,       \* fees_bps
    Slippage    \* slippage_bps

\* Costs, as api/schemas/backtest.py:16-17 demands of them.
ASSUME BacktestAssumption == Fees \in Nat /\ Slippage \in Nat

Bps == 10000

\* Bars of a market's session, in a timeframe of BarsPerDay bars: of the UTC day's
\* 1440 minutes an equity is traded for 375.
Markets == {"equity", "crypto"}
SessionBars(asset_class) ==
    IF asset_class = "equity" THEN (375 * BarsPerDay + 1439) \div 1440 ELSE BarsPerDay

\* Mutant of session_floor_window: what was asked for is used as it is.
window_as_given(window, tf_given, asset_class) == window

\* signal_bridge._session_floor_window: at least one session of bars, for a
\* caller that passes the timeframe.
session_floor_window(window, tf_given, asset_class) ==
    IF tf_given THEN Max({window, SessionBars(asset_class)}) ELSE window

NoSignal == Signal([ts |-> 0, c |-> 0], "long", 0, 0)

\* A walk before the first bar.
NewWalk == [open |-> FALSE, entry |-> 0, signal |-> NoSignal, trades |-> <<>>]

\* Mutant of Touches: the target is looked at first.
TargetFirst(bar, s) ==
    IF s.direction = "long"
    THEN IF bar.h >= s.ref_tp THEN "tp" ELSE IF bar.l <= s.ref_sl THEN "sl" ELSE "none"
    ELSE IF bar.l <= s.ref_tp THEN "tp" ELSE IF bar.h >= s.ref_sl THEN "sl" ELSE "none"

\* A bar that touches both levels counts as a loss.
Touches(bar, s) ==
    IF s.direction = "long"
    THEN IF bar.l <= s.ref_sl THEN "sl" ELSE IF bar.h >= s.ref_tp THEN "tp" ELSE "none"
    ELSE IF bar.h >= s.ref_sl THEN "sl" ELSE IF bar.l <= s.ref_tp THEN "tp" ELSE "none"

\* Only a signal of the bar itself opens a position.
Fresh(name, bars, window) ==
    {s \in generate_signals(name, Newest(bars, window)) : s.ts = Last(bars).ts}

\* One bar of _walk_signal_trades: open when flat, close on the first later
\* bar that touches a level.  A bar never does both.
WalkBar(name, bars, window, w) ==
    IF w.open
    THEN LET reason == Touches(Last(bars), w.signal)
         IN IF reason = "none" THEN w
            ELSE [w EXCEPT !.open = FALSE,
                           !.trades = Append(@, [entry |-> w.entry, exit |-> Len(bars),
                                                 signal |-> w.signal, reason |-> reason])]
    ELSE LET fresh == Fresh(name, bars, window)
         IN IF fresh = {} THEN w
            ELSE [w EXCEPT !.open = TRUE, !.entry = Len(bars),
                           !.signal = CHOOSE s \in fresh : TRUE]

-----------------------------------------------------------------------------
(* run_signal_backtest                                                      *)

ExitPrice(t) == IF t.reason = "tp" THEN t.signal.ref_tp ELSE t.signal.ref_sl

\* Directional: a short gains when the price falls.
Gross(t) ==
    LET move == ExitPrice(t) - t.signal.ref_entry
    IN (Bps * (IF t.signal.direction = "long" THEN move ELSE -move)) \div t.signal.ref_entry

Net(t) == Gross(t) - 2 * (Fees + Slippage)

wins(w) == Cardinality({k \in 1 .. Len(w.trades) : w.trades[k].reason = "tp"})

\* Capital compounds from trade to trade.
Equity(w) ==
    LET e[k \in 0 .. Len(w.trades)] ==
            IF k = 0 THEN Bps ELSE (e[k - 1] * (Bps + Net(w.trades[k]))) \div Bps
    IN e

net_return(w) == Equity(w)[Len(w.trades)] - Bps

-----------------------------------------------------------------------------
(* SignalStrategyAdapter and SmaCrossStrategy: entry and exit flags.        *)

AdapterFlags(w, n) ==
    LET opened == {w.trades[k].entry : k \in 1 .. Len(w.trades)}
                      \cup (IF w.open THEN {w.entry} ELSE {})
        closed == {w.trades[k].exit : k \in 1 .. Len(w.trades)}
    IN [entries |-> [i \in 1 .. n |-> i \in opened], exits |-> [i \in 1 .. n |-> i \in closed]]

Rolling(c, p) == sma(c, p)

SmaCross(bars, fast, slow) ==
    LET f == Rolling(Closes(bars), fast)
        s == Rolling(Closes(bars), slow)
        Both(i) == i > 1 /\ Known(f[i - 1]) /\ Known(s[i - 1])
    IN [entries |-> [i \in 1 .. Len(bars) |-> Both(i) /\ f[i] > s[i] /\ f[i - 1] <= s[i - 1]],
        exits   |-> [i \in 1 .. Len(bars) |-> Both(i) /\ f[i] < s[i] /\ f[i - 1] >= s[i - 1]]]

\* run_backtest's position series: an entry sets it, an exit clears it, and
\* in between it is carried forward.
Position(flags) ==
    LET held[i \in 0 .. Len(flags.entries)] ==
            i > 0 /\ ~flags.exits[i] /\ (flags.entries[i] \/ held[i - 1])
    IN held

\* Its trades: an entry when flat, paired with the next exit.
PairFlags(acc, i, flags) ==
    IF flags.entries[i] /\ ~acc.open
    THEN [open |-> TRUE, at |-> i, closed |-> acc.closed]
    ELSE IF acc.open /\ flags.exits[i]
    THEN [open |-> FALSE, at |-> 0, closed |-> Append(acc.closed, <<acc.at, i>>)]
    ELSE acc

ClosedTrades(flags) ==
    LET run[i \in 0 .. Len(flags.entries)] ==
            IF i = 0 THEN [open |-> FALSE, at |-> 0, closed |-> <<>>]
            ELSE PairFlags(run[i - 1], i, flags)
    IN run[Len(flags.entries)].closed

\* Sides of a trade the equity curve is charged for.
Charged(flags) ==
    Cardinality({i \in DOMAIN flags.entries : flags.entries[i]})
        + Cardinality({i \in DOMAIN flags.exits : flags.exits[i]})
=============================================================================
