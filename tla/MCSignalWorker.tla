--------------------------- MODULE MCSignalWorker ---------------------------
(***************************************************************************)
(* Two users' configs of one strategy, whose keys collide on a bar both    *)
(* emit on, and a model.                                                   *)
(***************************************************************************)
EXTENDS SignalWorker

MCConfigs == <<"orb of ann", "orb of bob", "lgbm">>
MCStrategyOf == <<"orb", "orb", "ml">>
MCEmits == {<<1, 1>>, <<1, 2>>, <<2, 2>>, <<3, 2>>}
=============================================================================
