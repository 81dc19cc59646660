----------------------------- MODULE Indicators -----------------------------
(***************************************************************************)
(* app/scanner/indicators.py: technical indicators over a series, defined  *)
(* bar by bar, and the snapshot app/scanner/cache.py takes of them.  A     *)
(* float is an integer count of a small unit and a division rounds, as a   *)
(* float's does; a bar an indicator has no value for yet is NaN.  Ratios   *)
(* are in hundredths.                                                      *)
(***************************************************************************)
EXTENDS Integers, Sequences, SequencesExt, FiniteSetsExt

CONSTANT NaN

ASSUME IndicatorsAssumption == NaN \notin Int

Known(x) == x # NaN

Column(bars, f(_)) == [i \in 1 .. Len(bars) |-> f(bars[i])]
Opens(bars)   == Column(bars, LAMBDA b : b.o)
Highs(bars)   == Column(bars, LAMBDA b : b.h)
Lows(bars)    == Column(bars, LAMBDA b : b.l)
Closes(bars)  == Column(bars, LAMBDA b : b.c)
Volumes(bars) == Column(bars, LAMBDA b : b.v)

Total(s) ==
    LET sum[i \in 0 .. Len(s)] == IF i = 0 THEN 0 ELSE sum[i - 1] + s[i]
    IN sum[Len(s)]
Trailing(s, i, n) == SubSeq(s, i - n + 1, i)
AbsDiff(x, y) == IF x >= y THEN x - y ELSE y - x
Largest(s) == Max(ToSet(s))
Smallest(s) == Min(ToSet(s))

Square(x) == x * x

\* Integer square root.
Sqrt(x) == CHOOSE r \in 0 .. x : Square(r) <= x /\ x < Square(r + 1)

\* A set of indices, ascending, and the members of s at them: a mask, or a
\* join, keeps the order.
InOrder(S) ==
    [r \in 1 .. Cardinality(S) |-> CHOOSE i \in S : Cardinality({j \in S : j <= i}) = r]
MembersAt(s, S) == [r \in 1 .. Cardinality(S) |-> s[InOrder(S)[r]]]

-----------------------------------------------------------------------------

\* The window's sum is carried along: the new value in, the one that left out.
sma(s, p) ==
    LET running[i \in 0 .. Len(s)] ==
            IF i = 0 THEN 0
            ELSE running[i - 1] + s[i] - (IF i > p THEN s[i - p] ELSE 0)
    IN [i \in 1 .. Len(s) |-> IF i >= p THEN running[i] \div p ELSE NaN]

\* Mutant of ema: seeded with the mean of all there is.
emaWholeSeries(s, p) ==
    LET e[i \in 1 .. Len(s)] ==
            IF i < p THEN NaN
            ELSE IF i = p THEN Total(s) \div Len(s)
            ELSE (2 * s[i] + (p - 1) * e[i - 1]) \div (p + 1)
    IN e

\* Seeded with the mean of the first p values.
ema(s, p) ==
    LET e[i \in 1 .. Len(s)] ==
            IF i < p THEN NaN
            ELSE IF i = p THEN Total(SubSeq(s, 1, p)) \div p
            ELSE (2 * s[i] + (p - 1) * e[i - 1]) \div (p + 1)
    IN e

\* A step of Wilder's smoothing: what is mixed with NaN is NaN.
Wilder(prev, x, p) == IF Known(prev) /\ Known(x) THEN (x + (p - 1) * prev) \div p ELSE NaN

\* Wilder's smoothing of s from a first value at index at.
Smooth(s, p, at, seed) ==
    LET w[i \in 1 .. Len(s)] ==
            IF i < at THEN NaN ELSE IF i = at THEN seed ELSE Wilder(w[i - 1], s[i], p)
    IN w

\* Seeded with the mean of the first p values that are defined.
wilder_smooth_presma(s, p) ==
    LET window == MembersAt(s, {i \in 1 .. Len(s) : i <= p /\ Known(s[i])})
    IN IF window = <<>> THEN [i \in 1 .. Len(s) |-> NaN]
       ELSE Smooth(s, p, p, Total(window) \div Len(window))

rma_from_first_valid(s, p, at) ==
    IF at > Len(s) THEN [i \in 1 .. Len(s) |-> NaN] ELSE Smooth(s, p, at, s[at])

Change(s, part(_)) ==
    [i \in 1 .. Len(s) |-> IF i = 1 THEN NaN ELSE part(s[i] - s[i - 1])]
Rise(d) == IF d > 0 THEN d ELSE 0
Fall(d) == IF d < 0 THEN -d ELSE 0

\* Nothing before there are more than p bars, then from the second bar on.
rsi(c, p) ==
    LET gain == rma_from_first_valid(Change(c, Rise), p, 2)
        loss == rma_from_first_valid(Change(c, Fall), p, 2)
    IN [i \in 1 .. Len(c) |->
          IF Len(c) <= p \/ i = 1 \/ gain[i] + loss[i] = 0 THEN NaN
          ELSE (10000 * gain[i]) \div (gain[i] + loss[i])]

Typical(b) == (b.h + b.l + b.c) \div 3

\* Cumulative over the bars given: the caller passes one session.
vwap(bars) ==
    LET pv[i \in 0 .. Len(bars)] ==
            IF i = 0 THEN 0 ELSE pv[i - 1] + Typical(bars[i]) * bars[i].v
        cv[i \in 0 .. Len(bars)] == IF i = 0 THEN 0 ELSE cv[i - 1] + bars[i].v
    IN [i \in 1 .. Len(bars) |-> IF cv[i] = 0 THEN NaN ELSE pv[i] \div cv[i]]

true_range(bars) ==
    [i \in 1 .. Len(bars) |->
       IF i = 1 THEN bars[1].h - bars[1].l
       ELSE Max({bars[i].h - bars[i].l, AbsDiff(bars[i].h, bars[i - 1].c),
                 AbsDiff(bars[i].l, bars[i - 1].c)})]

\* Both are asked for by callers only when there are p bars.
atr(bars, p) == wilder_smooth_presma(true_range(bars), p)

\* Movement of one side: only the larger of the two counts.
DM(bars, up) ==
    [i \in 1 .. Len(bars) |->
       IF i = 1 THEN NaN
       ELSE LET u == bars[i].h - bars[i - 1].h
                d == bars[i - 1].l - bars[i].l
            IN IF up THEN IF u > d /\ u > 0 THEN u ELSE 0
               ELSE IF d > u /\ d > 0 THEN d ELSE 0]

DX(bars, p) ==
    LET tr == wilder_smooth_presma([true_range(bars) EXCEPT ![1] = NaN], p)
        plus == rma_from_first_valid(DM(bars, TRUE), p, 2)
        minus == rma_from_first_valid(DM(bars, FALSE), p, 2)
    IN [i \in 1 .. Len(bars) |->
          IF i < p \/ ~Known(tr[i]) \/ tr[i] = 0 THEN NaN
          ELSE LET pdi == (100 * plus[i]) \div tr[i]
                   mdi == (100 * minus[i]) \div tr[i]
               IN IF pdi + mdi = 0 THEN 0
                  ELSE (10000 * AbsDiff(pdi, mdi)) \div (pdi + mdi)]

adx(bars, p) ==
    LET dx == DX(bars, p)
        defined == {i \in 1 .. Len(bars) : Known(dx[i])}
    IN IF defined = {} THEN dx
       ELSE rma_from_first_valid(dx, p, Min(defined))

\* A bar's volume against the mean of the p bars before it.
rel_volume(v, p) ==
    [i \in 1 .. Len(v) |->
       IF i <= p \/ Total(SubSeq(v, i - p, i - 1)) = 0 THEN NaN
       ELSE (100 * p * v[i]) \div Total(SubSeq(v, i - p, i - 1))]

\* Over the cache's columns: the first bar is compared with its own close.
gap_pct(bars) ==
    [i \in 1 .. Len(bars) |->
       LET before == bars[IF i = 1 THEN 1 ELSE i - 1].c
       IN IF before = 0 THEN NaN ELSE (10000 * (bars[i].o - before)) \div before]

\* The middle band and the width of the outer ones, k sample deviations.
bollinger(c, p, k) ==
    LET mid == sma(c, p)
        Var(i) == Total([j \in 1 .. p |-> Square(c[i - p + j] - mid[i])]) \div (p - 1)
        std == [i \in 1 .. Len(c) |-> IF i < p THEN NaN ELSE Sqrt(Var(i))]
    IN [mid   |-> mid,
        upper |-> [i \in 1 .. Len(c) |-> IF i < p THEN NaN ELSE mid[i] + k * std[i]],
        lower |-> [i \in 1 .. Len(c) |-> IF i < p THEN NaN ELSE mid[i] - k * std[i]]]

-----------------------------------------------------------------------------
(* cache.py: the value of an indicator at the last of the bars loaded.      *)

Keys == {"rsi", "ema", "sma", "vwap", "atr", "adx", "rel_volume", "gap_pct"}

\* The cache loads the newest WARM_START_BARS bars, the one just closed
\* among them, and takes each indicator's last value.
Warm(bars, n) == IF Len(bars) <= n THEN bars ELSE Trailing(bars, Len(bars), n)

Series(key, bars, p) ==
    CASE key = "rsi" -> rsi(Closes(bars), p)
      [] key = "ema" -> ema(Closes(bars), p)
      [] key = "sma" -> sma(Closes(bars), p)
      [] key = "vwap" -> vwap(bars)
      [] key = "atr" -> IF Len(bars) < p THEN [i \in 1 .. Len(bars) |-> NaN] ELSE atr(bars, p)
      [] key = "adx" -> IF Len(bars) < p THEN [i \in 1 .. Len(bars) |-> NaN] ELSE adx(bars, p)
      [] key = "rel_volume" -> rel_volume(Volumes(bars), p)
      [] key = "gap_pct" -> gap_pct(bars)

\* Mutant: update() appends the bar that history already ends with.
update_after_load(bars, p, n) ==
    [key \in Keys |-> LET w == Warm(bars, n) IN Last(Series(key, Append(w, Last(w)), p))]
recompute_from_history(bars, p, n) ==
    [key \in Keys |-> Last(Series(key, Warm(bars, n), p))]

=============================================================================
