------------------------------ MODULE Training ------------------------------
(***************************************************************************)
(* app/ml: features and labels of a bar, the rows joined of them, and the  *)
(* trades the publish gate compares with its baselines.  The classifier is *)
(* external: it enters on any of the rows the gate looks at.               *)
(***************************************************************************)
EXTENDS Splitter, Indicators

CONSTANTS
    Folds,          \* n_splits
    FeatureBars,    \* bars before every rolling feature window is full
    VolumeWindow    \* VOLUME_Z_WINDOW and VWAP_WINDOW

ASSUME TrainingAssumption ==
    Folds \in Nat /\ FeatureBars \in Nat /\ VolumeWindow \in Nat \ {0}

\* features.build_features: rolling windows need so many bars; a window
\* without volume, or without any spread of it, gives 0 and not a gap.
VolumeZ(bars, i) ==
    LET w == Trailing(Volumes(bars), i, VolumeWindow)
    IN IF Cardinality(ToSet(w)) = 1 THEN 0 ELSE 100 * w[VolumeWindow] - (100 * Total(w)) \div VolumeWindow

VwapDist(bars, i) ==
    LET w == Trailing(bars, i, VolumeWindow)
        v == Total(Volumes(w))
        pv == Total([k \in 1 .. VolumeWindow |-> Typical(w[k]) * w[k].v])
    IN IF v = 0 THEN 0 ELSE (10000 * (bars[i].c - pv \div v)) \div (pv \div v)

\* Bars whose row survives dropna().
FeatureRows(bars) ==
    {i \in FeatureBars + 1 .. Len(bars) :
        i >= VolumeWindow /\ Known(VolumeZ(bars, i)) /\ Known(VwapDist(bars, i))}

-----------------------------------------------------------------------------
(* labels.py                                                                *)

FixedLabel(bars, i) == IF bars[i + Horizon].c > bars[i].c THEN 1 ELSE 0
LabelRows(bars) == 1 .. Len(bars) - Horizon

\* The first bar within the horizon that touches a barrier decides, both at
\* once is a loss, none is the sign of the last close.
TripleBarrier(bars, i, tp, sl) ==
    LET HitTp(j) == 100 * bars[j].h >= (100 + tp) * bars[i].c
        HitSl(j) == 100 * bars[j].l <= (100 - sl) * bars[i].c
        touched == {j \in i + 1 .. i + Horizon : HitTp(j) \/ HitSl(j)}
    IN IF touched = {} THEN [y |-> FixedLabel(bars, i), at |-> i + Horizon]
       ELSE [y |-> IF HitSl(Min(touched)) THEN 0 ELSE 1, at |-> Min(touched)]

-----------------------------------------------------------------------------
(* train.py                                                                 *)

\* The inner join, in order: row number to bar.
Rows(bars) == InOrder(FeatureRows(bars) \cap LabelRows(bars))

\* Folds fit, or train_model raises.
Trains(bars) == PurgeAccepted /\ TestEnd(Folds - 1) <= Len(Rows(bars))

\* evaluate._trade_returns over n bars: while a trade is held no other starts,
\* and one that could not be held for the horizon ends the search.
TradeEntries(mask, n, horizon) ==
    LET from[i \in 1 .. n + horizon] ==
            IF i + horizon > n THEN <<>>
            ELSE IF i \in mask THEN <<i>> \o from[i + horizon]
            ELSE from[i + 1]
    IN from[1]
=============================================================================
