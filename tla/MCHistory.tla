----------------------------- MODULE MCHistory ------------------------------
(* Model values of History, and of the rules over it, for TLC.               *)
EXTENDS RuleHistory

MCParams ==
    [or_bars |-> 2, min_rel_volume |-> 100, rr |-> 2, level_lookback |-> 2,
     retest_tolerance |-> 5, range_lookback |-> 3, grid_levels |-> 4, touch_tolerance |-> 10,
     std_k |-> 1, std_min |-> 3, oversold |-> 3500, overbought |-> 6500, sl_atr_mult |-> 1,
     rsi_period |-> 2, atr_period |-> 2, bb_period |-> 3, bb_std |-> 1,
     trend_ema |-> 3, pullback_ema |-> 2, pullback_tolerance |-> 15, sl_lookback |-> 2,
     fast |-> 2, slow |-> 3, swing_lookback |-> 2, adx_period |-> 2, min_adx |-> 2000,
     window |-> 4, history |-> 4, sma_fast |-> 1, sma_slow |-> 2]

Bar(o, h, l, c, v) == [o |-> o, h |-> h, l |-> l, c |-> c, v |-> v]

MCShapes ==
    {Bar(1000, 1100, 1000, 1100, 10), Bar(1100, 1200, 700, 800, 30),
     Bar(900, 1400, 900, 1300, 40), Bar(1000, 1000, 1000, 1000, 0)}

MCRuleTrees ==
    {Condition("rsi", "closing", "!=", 10000),
     AllOf(<<Condition("sma", "closing", ">", 1000),
             AnyOf(<<Condition("rsi", "closing", "<", 4000), Condition("adx", "closing", "!=", 0)>>)>>),
     AnyOf(<<Condition("gap_pct", "closing", "<=", 0), Condition("ema", "other", "==", 0),
             AllOf(<<Condition("vwap", "closing", ">=", 1000),
                     Condition("rel_volume", "other", "!=", 1)>>)>>)}

Parts(S) == S \cup UNION {ToSet(n.nodes) : n \in {m \in S : m.kind # "if"}}
MCNodes == Parts(Parts(MCRuleTrees))
=============================================================================
