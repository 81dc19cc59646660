------------------------------ MODULE Presets ------------------------------
(***************************************************************************)
(* The strategy presets of app/strategies: what each makes of the candles  *)
(* up to the one just closed.  A preset yields at most one signal, here a  *)
(* set of none or one; its parameters are the fields of P.  funding_extreme *)
(* is left out: nothing supplies the column it reads.                      *)
(***************************************************************************)
EXTENDS Indicators

CONSTANTS
    P,          \* parameters of the presets, and the periods they hard-code
    BarsPerDay  \* bars from midnight UTC to midnight

\* Multiples and percentages are whole numbers here; above that, no more than
\* each param_schema demands.
ASSUME PresetsAssumption ==
    /\ BarsPerDay \in Nat \ {0}
    /\ P.history \in Nat \ {0}
    /\ {P.or_bars, P.rr, P.level_lookback, P.range_lookback, P.grid_levels, P.std_k,
        P.sl_atr_mult, P.atr_period, P.bb_std, P.sl_lookback, P.swing_lookback, P.trend_ema,
        P.slow, P.window, P.sma_fast, P.sma_slow, P.rsi_period, P.adx_period} \subseteq Nat \ {0}
    /\ {P.std_min, P.bb_period} \subseteq Nat \ {0, 1}
    /\ {P.retest_tolerance, P.touch_tolerance} \subseteq Nat

Names == {"orb", "breakout_retest", "grid_range", "vwap_revert",
          "bb_rsi_revert", "pullback_trend", "ema_vwap_trend"}

\* "trend" or "range", as each class declares.
regime_mode(name) ==
    IF name \in {"grid_range", "vwap_revert", "bb_rsi_revert"} THEN "range" ELSE "trend"

Signal(bar, dir, stop, target) ==
    [ts |-> bar.ts, direction |-> dir, ref_entry |-> bar.c, ref_sl |-> stop, ref_tp |-> target]

Signals == [ts : Nat, direction : {"long", "short"}, ref_entry : Int, ref_sl : Int, ref_tp : Int]

-----------------------------------------------------------------------------
(* levels.py                                                                *)

DayOf(bar) == bar.ts \div BarsPerDay

\* The bars of the newest bar's UTC day.
latest_session(bars) ==
    MembersAt(bars, {i \in 1 .. Len(bars) : DayOf(bars[i]) = DayOf(Last(bars))})

rr_target(entry, stop, dir, rr) ==
    IF dir = "long" THEN entry + AbsDiff(entry, stop) * rr
    ELSE entry - AbsDiff(entry, stop) * rr

Newest(bars, n) == IF Len(bars) <= n THEN bars ELSE Trailing(bars, Len(bars), n)
swing_low(bars, n)  == Smallest(Lows(Newest(bars, n)))
swing_high(bars, n) == Largest(Highs(Newest(bars, n)))

Percent(x, pct) == (x * pct) \div 100

\* regime_gate.py: an ADX that cannot be read yet allows nothing.
adx_allows(bars, mode) ==
    /\ Len(bars) >= P.adx_period
    /\ LET now == Last(adx(bars, P.adx_period))
       IN /\ Known(now)
          /\ IF mode = "trend" THEN now >= P.min_adx ELSE now < P.min_adx

-----------------------------------------------------------------------------
(* The presets.  A signal is for one bar, usually the newest.               *)

\* The first bar of the session that closes out of its opening range on
\* confirming volume: the same one each time the session is seen again.
orb(bars) ==
    LET s == latest_session(bars)
        range == SubSeq(s, 1, P.or_bars)
        or_high == Largest(Highs(range))
        or_low == Smallest(Lows(range))
        rv == rel_volume(Volumes(s), P.or_bars)
        Confirmed(i) == Known(rv[i]) /\ rv[i] >= P.min_rel_volume
        breaks == {i \in P.or_bars + 1 .. Len(s) :
                      Confirmed(i) /\ (s[i].c > or_high \/ s[i].c < or_low)}
        bar == s[Min(breaks)]
    IN IF Len(s) <= P.or_bars \/ breaks = {} THEN {}
       ELSE IF bar.c > or_high
       THEN {Signal(bar, "long", or_low, rr_target(bar.c, or_low, "long", P.rr))}
       ELSE {Signal(bar, "short", or_high, rr_target(bar.c, or_high, "short", P.rr))}

\* The newest breakout that the next bar retested and held.
breakout_retest(bars) ==
    LET s == latest_session(bars)
        n == P.level_lookback
        resistance == Largest(Highs(SubSeq(s, 1, n)))
        rv == rel_volume(Volumes(s), n)
        held == {i \in n + 1 .. Len(s) - 1 :
                    /\ Known(rv[i]) /\ rv[i] >= P.min_rel_volume
                    /\ s[i].c > resistance
                    /\ s[i + 1].l >= resistance - Percent(resistance, P.retest_tolerance)
                    /\ s[i + 1].c > resistance}
        bar == s[Max(held) + 1]
    IN IF Len(s) < n + 2 \/ held = {} THEN {}
       ELSE {Signal(bar, "long", resistance, rr_target(bar.c, resistance, "long", P.rr))}

\* A touch of the outermost grid line, if the next line is still ahead.
grid_range(bars) ==
    LET w == Newest(bars, P.range_lookback)
        high == Largest(Highs(w))
        low == Smallest(Lows(w))
        tol == Percent(high - low, P.touch_tolerance)
        up == low + (high - low) \div P.grid_levels
        down == low + ((high - low) * (P.grid_levels - 1)) \div P.grid_levels
        bar == Last(bars)
    IN IF Len(bars) < P.range_lookback \/ high = low THEN {}
       ELSE IF bar.l <= low + tol
       THEN IF up <= bar.c THEN {} ELSE {Signal(bar, "long", low - tol, up)}
       ELSE IF bar.h >= high - tol
       THEN IF down >= bar.c THEN {} ELSE {Signal(bar, "short", high + tol, down)}
       ELSE {}

\* Sample deviation of the session's closes from the VWAP, over all its bars.
DeviationStd(dev) ==
    LET mean == Total(dev) \div Len(dev)
    IN Sqrt(Total([i \in 1 .. Len(dev) |-> Square(dev[i] - mean)]) \div (Len(dev) - 1))

vwap_revert(bars) ==
    LET s == latest_session(bars)
        sv == vwap(s)
        known == MembersAt([i \in 1 .. Len(s) |-> s[i].c - sv[i]],
                           {i \in 1 .. Len(s) : Known(sv[i])})
        sd == DeviationStd(known)
        strength == Last(rsi(Closes(bars), P.rsi_period))
        a == IF Len(bars) < P.atr_period THEN 0 ELSE Last(atr(bars, P.atr_period))
        bar == Last(bars)
        away == bar.c - Last(sv)
    IN IF \/ Len(known) < P.std_min \/ ~Known(Last(sv)) \/ ~Known(strength) THEN {}
       ELSE IF sd = 0 THEN {}
       ELSE IF away <= -P.std_k * sd /\ strength <= P.oversold
       THEN {Signal(bar, "long", bar.c - a * P.sl_atr_mult, Last(sv))}
       ELSE IF away >= P.std_k * sd /\ strength >= P.overbought
       THEN {Signal(bar, "short", bar.c + a * P.sl_atr_mult, Last(sv))}
       ELSE {}

\* A close outside the bands; the stop is clamped beyond it.
bb_rsi_revert(bars) ==
    LET c == Closes(bars)
        bb == bollinger(c, P.bb_period, P.bb_std)
        strength == Last(rsi(c, P.rsi_period))
        bar == Last(bars)
        mid == Last(bb.mid)
        lower == Last(bb.lower)
        upper == Last(bb.upper)
    IN IF Len(bars) < P.bb_period + 1 \/ ~Known(strength) THEN {}
       ELSE IF bar.c < lower /\ strength <= P.oversold
       THEN LET buffer == (mid - lower) \div 4
            IN {Signal(bar, "long", Min({lower, bar.c}) - buffer, mid)}
       ELSE IF bar.c > upper /\ strength >= P.overbought
       THEN LET buffer == (upper - mid) \div 4
            IN {Signal(bar, "short", Max({upper, bar.c}) + buffer, mid)}
       ELSE {}

pullback_trend(bars) ==
    LET n == Len(bars)
        trend == ema(Closes(bars), P.trend_ema)
        pull == ema(Closes(bars), P.pullback_ema)
        bar == bars[n]
        prior == bars[n - 1]
    IN IF n < P.trend_ema + 2 \/ ~Known(pull[n - 1]) THEN {}
       ELSE IF /\ bar.c > trend[n]
               /\ AbsDiff(prior.l, pull[n - 1]) <= Percent(pull[n - 1], P.pullback_tolerance)
               /\ bar.c > bar.o /\ bar.c > prior.c
       THEN LET stop == swing_low(bars, P.sl_lookback)
            IN {Signal(bar, "long", stop, rr_target(bar.c, stop, "long", P.rr))}
       ELSE {}

\* The fast average crosses the slow one on the trend's side of the VWAP.
ema_vwap_trend(bars) ==
    LET n == Len(bars)
        fast == ema(Closes(bars), P.fast)
        slow == ema(Closes(bars), P.slow)
        vw == Last(vwap(latest_session(bars)))
        bar == bars[n]
        low == swing_low(bars, P.swing_lookback)
        high == swing_high(bars, P.swing_lookback)
    IN IF n < P.slow + 2 \/ ~Known(vw) THEN {}
       ELSE IF fast[n - 1] <= slow[n - 1] /\ fast[n] > slow[n] /\ bar.c > vw
       THEN {Signal(bar, "long", low, rr_target(bar.c, low, "long", P.rr))}
       ELSE IF fast[n - 1] >= slow[n - 1] /\ fast[n] < slow[n] /\ bar.c < vw
       THEN {Signal(bar, "short", high, rr_target(bar.c, high, "short", P.rr))}
       ELSE {}

generate_signals(name, bars) ==
    CASE name = "orb" -> orb(bars)
      [] name = "breakout_retest" -> breakout_retest(bars)
      [] name = "grid_range" -> grid_range(bars)
      [] name = "vwap_revert" -> vwap_revert(bars)
      [] name = "bb_rsi_revert" -> bb_rsi_revert(bars)
      [] name = "pullback_trend" -> pullback_trend(bars)
      [] name = "ema_vwap_trend" -> ema_vwap_trend(bars)

\* What strategies/worker.py reads of a timeframe's candles.
Frame(bars) == Newest(bars, P.history)

\* The newest candles through the gate and the preset.
Live(name, bars) ==
    LET frame == Frame(bars)
    IN IF adx_allows(frame, regime_mode(name)) THEN generate_signals(name, frame) ELSE {}
=============================================================================
