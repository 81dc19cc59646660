----------------------------- MODULE CandleFeed -----------------------------
(***************************************************************************)
(* What the ingest pipeline promises the rest of the system about 1m       *)
(* candles, without buffers, batches, transactions or retries.  A candle   *)
(* the pipeline accepted is held until it is durable; while the pipeline   *)
(* runs it may not be forgotten.  Bars are announced to live subscribers   *)
(* in time order, once, and only when durable.  Others (the backfill       *)
(* sweep) may make candles durable too.                                    *)
(***************************************************************************)
EXTENDS Integers, Sequences, Functions

CONSTANTS Symbols, Minutes

VARIABLES running, held, durable, announced

vars == <<running, held, durable, announced>>

Init ==
    /\ running = TRUE
    /\ held = [s \in Symbols |-> {}]
    /\ durable = [s \in Symbols |-> {}]
    /\ announced = [s \in Symbols |-> <<>>]

Accept(s, t) ==
    /\ running = TRUE
    /\ held' = [held EXCEPT ![s] = @ \cup {t}]
    /\ UNCHANGED <<running, durable, announced>>

\* Some held candles become durable.
Stored ==
    \A s \in Symbols : /\ durable[s] \subseteq durable'[s]
                       /\ durable'[s] \subseteq durable[s] \cup held[s]

\* Only what is durable is let go.
Settle ==
    /\ Stored
    /\ \A s \in Symbols : /\ held'[s] \subseteq held[s]
                          /\ held[s] \ held'[s] \subseteq durable'[s]
    /\ UNCHANGED <<running, announced>>

\* The pipeline stops, or is stopped: held candles may go.
Stop ==
    /\ running' = FALSE
    /\ Stored
    /\ \A s \in Symbols : held'[s] \subseteq held[s]
    /\ UNCHANGED announced

Start ==
    /\ running' = TRUE
    /\ \A s \in Symbols : held[s] = {}
    /\ UNCHANGED <<held, durable, announced>>

Repair ==
    /\ \A s \in Symbols : durable[s] \subseteq durable'[s]
    /\ UNCHANGED <<running, held, announced>>

Announce ==
    /\ \A s \in Symbols :
          /\ announced[s] = SubSeq(announced'[s], 1, Len(announced[s]))
          /\ Range(announced'[s]) \subseteq durable[s]
          /\ \A i, j \in DOMAIN announced'[s] :
                i < j => announced'[s][i] < announced'[s][j]
    /\ UNCHANGED <<running, held, durable>>

Next ==
    \/ \E s \in Symbols, t \in Minutes : Accept(s, t)
    \/ Settle \/ Stop \/ Start \/ Repair \/ Announce

Spec == Init /\ [][Next]_vars
=============================================================================
