---------------------------- MODULE RuleHistory -----------------------------
(***************************************************************************)
(* Scanner rules over the snapshots of an instrument's history.            *)
(***************************************************************************)
EXTENDS History, Rules

CONSTANTS
    RuleTrees,      \* scanner rules
    Closing,        \* the timeframe of the bars, the others have no history yet
    REQUESTED       \* keys computed of it in any case, for the payload

ASSUME RuleHistoryAssumption ==
    RuleTrees \subseteq Nodes /\ Closing \in Tfs /\ REQUESTED \subseteq Keys

\* Every indicator of every timeframe.
Snapshots ==
    [tf \in Tfs |-> IF tf = Closing THEN recompute_from_history(bars, P.rsi_period, MaxBars)
                    ELSE [key \in Keys |-> NaN]]

\* requested_by_tf and snapshot_by_tf: of these the scan worker computes what
\* the payload shows and what one of the enabled rules asks for.
Requested(enabled) ==
    REQUESTED \X {Closing} \cup UNION {required_indicators(r) : r \in enabled}
Restricted(snap, asked) ==
    [tf \in Tfs |-> [key \in Keys |-> IF <<key, tf>> \in asked THEN snap[tf][key] ELSE NaN]]

\* evaluator.py:6: "a missing key or a NaN value evaluates to False".  Losing
\* a value of a snapshot therefore never makes a rule fire, whatever operators
\* and groups it is made of.
MissingDataNeverFires ==
    Full =>
    \A snap \in {Snapshots} : \A r \in RuleTrees : Parses(r) /\ ~Eval(r, snap) =>
        \A key \in Keys : ~Eval(r, [snap EXCEPT ![Closing][key] = NaN])

\* scanner/worker.py:104-106: "request - PER TIMEFRAME - the union of each
\* rule's period-suffixed keys".  A missing key fails quietly, so what is not
\* asked for would silence a rule: over the keys the enabled rules ask for, a
\* rule fires exactly when it would over every indicator there is.
RequestedSuffices ==
    Full =>
    \A snap \in {Snapshots} : \A enabled \in SUBSET RuleTrees :
    \A loaded \in {Restricted(snap, Requested(enabled))} : \A r \in enabled :
        Parses(r) => (Eval(r, loaded) <=> Eval(r, snap))
=============================================================================
