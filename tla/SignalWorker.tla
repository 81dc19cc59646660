---------------------------- MODULE SignalWorker ----------------------------
(***************************************************************************)
(* The jobs that turn a closed candle of one (instrument, tf) into signals *)
(* (app/strategies/worker.py, app/workers/ml_inference_worker.py).  A      *)
(* strategy job evaluates every enabled config over the rolling window,    *)
(* claims a Redis key for each candidate (SET NX EX), inserts what it      *)
(* claimed, commits once and publishes after the commit.  A model job does *)
(* the same for the newest bar of the window it was enqueued with, and     *)
(* publishes nothing.  Jobs run concurrently; arq runs a job again when    *)
(* its worker was stopped, never when it raised.                           *)
(*                                                                         *)
(* Time is counted in bars.  What a source emits on a bar is a constant:   *)
(* the indicators, the asset filter and the ADX gate are behind it, and    *)
(* each source has one direction.                                          *)
(***************************************************************************)
EXTENDS Integers, Sequences, FiniteSets

CONSTANTS
    Configs,         \* strategy configs and models, a sequence: query order
    StrategyOf,      \* the name each writes in its key: a model, its id
    Models,          \* the indices of published models
    Emits,           \* <<source, bar>> on which a source has a candidate
    HistoryBars,     \* _HISTORY_BARS
    Ttl,             \* DEDUP_TTL_SECONDS, in bars
    MaxLag,          \* bars after its candle by which arq has ended a job
    MaxBatch,        \* candles one flush stores
    MaxBar,          \* bound: bars 1 .. MaxBar
    MaxFaults        \* bound: calls that fail, stops, repeats and toggles

Sources == 1 .. Len(Configs)
Bars    == 1 .. MaxBar

ASSUME SignalAssumption ==
    /\ Configs \in Seq(STRING)
    /\ StrategyOf \in [Sources -> STRING]
    /\ Models \subseteq Sources
    /\ \A i \in Sources \ Models, m \in Models : StrategyOf[i] # StrategyOf[m]
    /\ Emits \subseteq Sources \X Bars
    /\ HistoryBars \in Nat \ {0} /\ Ttl \in Nat \ {0}
    /\ MaxLag \in Nat \ {0} /\ MaxBatch \in 1 .. MaxLag + 1
    /\ MaxBar \in Nat /\ MaxFaults \in Nat

Keys == {StrategyOf[i] : i \in Sources} \X Bars   \* signal_dedup:<..>:<bar>
Close == 0                                        \* on_candle_close_job
Jobs == ({Close} \cup Models) \X Bars             \* one per closed candle

VARIABLES
    now,             \* the newest stored bar
    enabled,         \* StrategyConfig.enabled
    claimed,         \* the bar during which a key was last set, 0 for never
    stored,          \* rows of the signals table per key
    published,       \* messages on signals:<symbol>:<tf> per key
    pc,              \* where each job is
    todo,            \* candidates it has not dealt with
    fresh,           \* candidates in its transaction, or committed and
                     \* waiting to be published
    torn,            \* history: keys whose job ended before its commit
    mute,            \* history: keys whose job ended before its publish
    toggled,         \* history: configs switched on or off
    faults

vars == <<now, enabled, claimed, stored, published, pc, todo, fresh, torn, mute,
          toggled, faults>>

Working == {"claim", "insert", "publish"}
Ended   == {"done", "failed"}

TypeOK ==
    /\ now \in 0 .. MaxBar
    /\ enabled \subseteq Sources \ Models
    /\ claimed \in [Keys -> 0 .. MaxBar]
    /\ stored \in [Keys -> Nat]
    /\ published \in [Keys -> Nat]
    /\ pc \in [Jobs -> {"unsent", "queued"} \cup Working \cup Ended]
    /\ todo \in [Jobs -> SUBSET Emits]
    /\ fresh \in [Jobs -> SUBSET Emits]
    /\ \A j \in Jobs : /\ j[2] > now => pc[j] = "unsent"
                       /\ pc[j] \notin Working => todo[j] = {} /\ fresh[j] = {}
                       /\ pc[j] = "publish" => todo[j] = {}
    /\ torn \subseteq Keys
    /\ mute \subseteq Keys
    /\ toggled \subseteq Sources
    /\ faults \in 0 .. MaxFaults

Init ==
    /\ now = 0
    /\ enabled \in SUBSET (Sources \ Models)
    /\ claimed = [k \in Keys |-> 0]
    /\ stored = [k \in Keys |-> 0]
    /\ published = [k \in Keys |-> 0]
    /\ pc = [j \in Jobs |-> "unsent"]
    /\ todo = [j \in Jobs |-> {}]
    /\ fresh = [j \in Jobs |-> {}]
    /\ torn = {}
    /\ mute = {}
    /\ toggled = {}
    /\ faults = 0

Fault == faults < MaxFaults /\ faults' = faults + 1

-----------------------------------------------------------------------------
(* What enqueues the jobs.                                                 *)

\* A batch of candles is stored and dispatch_close_jobs enqueues the jobs of each;
\* all of them will find its last candle the newest.  By then arq has ended the
\* jobs of candles MaxLag older: a run is cancelled after five minutes, and
\* MaxLag also covers the wait in the queue and for the batch.
CloseBar ==
    /\ \E n \in 1 .. MaxBatch :
          /\ now + n <= MaxBar
          /\ \A j \in Jobs :
                pc[j] \in {"queued"} \cup Working => now + n <= j[2] + MaxLag
          /\ now' = now + n
          /\ pc' = [j \in Jobs |-> IF j[2] \in now + 1 .. now + n THEN "queued" ELSE pc[j]]
    /\ UNCHANGED <<enabled, claimed, stored, published, todo, fresh, torn, mute,
                   toggled, faults>>

\* The newest candle is flushed again and its job enqueued a second time.
Repeat(j) ==
    /\ Fault
    /\ pc[j] \in Ended /\ j[2] = now
    /\ pc' = [pc EXCEPT ![j] = "queued"]
    /\ UNCHANGED <<now, enabled, claimed, stored, published, todo, fresh, torn,
                   mute, toggled>>

\* POST /api/strategy-configs on an existing scope.
Toggle(c) ==
    /\ Fault
    /\ enabled' = (enabled \ {c}) \cup ({c} \ enabled)
    /\ toggled' = toggled \cup {c}
    /\ UNCHANGED <<now, claimed, stored, published, pc, todo, fresh, torn, mute>>

-----------------------------------------------------------------------------
(* One job.                                                                *)

KeyOf(e) == <<StrategyOf[e[1]], e[2]>>

\* Candidates are dealt with, and published, config by config in bar order.
Before(e, d) == e[1] < d[1] \/ (e[1] = d[1] /\ e[2] < d[2])
First(S) == {e \in S : \A d \in S : d = e \/ Before(e, d)}

InWindow(b) == b <= now /\ now < b + HistoryBars

\* What the job evaluates: the enabled configs, each over the rolling window;
\* or the model, on the bar it was enqueued for.
Candidates(j) ==
    {e \in Emits : \/ j[1] = Close /\ e[1] \in enabled /\ InWindow(e[2])
                   \/ j[1] # Close /\ e = j}

\* Reads configs and history, evaluates; with no candidate there is nothing
\* left to do: an early return, or an empty commit.
StartRun(j) ==
    /\ pc[j] = "queued"
    /\ todo' = [todo EXCEPT ![j] = Candidates(j)]
    /\ pc' = [pc EXCEPT ![j] = IF Candidates(j) = {} THEN "done" ELSE "claim"]
    /\ UNCHANGED <<now, enabled, claimed, stored, published, fresh, torn, mute,
                   toggled, faults>>

\* The key exists: set during bar b, it lives for Ttl bars.
HeldKey(k) == claimed[k] # 0 /\ now < claimed[k] + Ttl

\* Mutant of SkipClaimed: a claimed candidate keeps the job at it.
StuckOnClaimed(j) ==
    /\ pc[j] = "claim"
    /\ \E e \in First(todo[j]) : HeldKey(KeyOf(e))
    /\ UNCHANGED vars

\* SET NX did not set: the signal was emitted, or is being emitted.
SkipClaimed(j) ==
    /\ pc[j] = "claim"
    /\ \E e \in First(todo[j]) :
          /\ HeldKey(KeyOf(e))
          /\ todo' = [todo EXCEPT ![j] = @ \ {e}]
    /\ UNCHANGED <<now, enabled, claimed, stored, published, pc, fresh, torn,
                   mute, toggled, faults>>

\* SET NX EX sets the key of the candidate the job is at.
SetKey(j) ==
    \E e \in First(todo[j]) :
        /\ ~HeldKey(KeyOf(e))
        /\ claimed' = [claimed EXCEPT ![KeyOf(e)] = now]

\* Mutant of Claim: the key is read, not set.
ReadKeyOnly(j) ==
    /\ pc[j] = "claim"
    /\ \E e \in First(todo[j]) : ~HeldKey(KeyOf(e))
    /\ pc' = [pc EXCEPT ![j] = "insert"]
    /\ UNCHANGED <<now, enabled, claimed, stored, published, todo, fresh, torn,
                   mute, toggled, faults>>

Claim(j) ==
    /\ pc[j] = "claim"
    /\ SetKey(j)
    /\ pc' = [pc EXCEPT ![j] = "insert"]
    /\ UNCHANGED <<now, enabled, stored, published, todo, fresh, torn, mute,
                   toggled, faults>>

\* session.add and flush: the row is in the transaction and has its id.
Insert(j) ==
    /\ pc[j] = "insert"
    /\ \E e \in First(todo[j]) :
          /\ fresh' = [fresh EXCEPT ![j] = @ \cup {e}]
          /\ todo' = [todo EXCEPT ![j] = @ \ {e}]
    /\ pc' = [pc EXCEPT ![j] = "claim"]
    /\ UNCHANGED <<now, enabled, claimed, stored, published, torn, mute, toggled,
                   faults>>

Committing(j) == pc[j] = "claim" /\ todo[j] = {}

RowsOf(S, k) == Cardinality({e \in S : KeyOf(e) = k})

AddRows(j) == stored' = [k \in Keys |-> stored[k] + RowsOf(fresh[j], k)]

Announces(j) == j[1] = Close /\ fresh[j] # {}

\* The one commit of the run; a model's signal is published to nobody.
Commit(j) ==
    /\ Committing(j)
    /\ AddRows(j)
    /\ pc' = [pc EXCEPT ![j] = IF Announces(j) THEN "publish" ELSE "done"]
    /\ fresh' = [fresh EXCEPT ![j] = IF Announces(j) THEN @ ELSE {}]
    /\ UNCHANGED <<now, enabled, claimed, published, todo, torn, mute, toggled,
                   faults>>

Send(e) == published' = [published EXCEPT ![KeyOf(e)] = @ + 1]

\* Mutant of Publish: only the first of the pending messages is sent.
PublishFirst(j) ==
    /\ pc[j] = "publish"
    /\ \E e \in First(fresh[j]) : Send(e)
    /\ fresh' = [fresh EXCEPT ![j] = {}]
    /\ pc' = [pc EXCEPT ![j] = "done"]
    /\ UNCHANGED <<now, enabled, claimed, stored, todo, torn, mute, toggled, faults>>

\* One message of pending_publishes.
Publish(j) ==
    /\ pc[j] = "publish"
    /\ \E e \in First(fresh[j]) :
          /\ Send(e)
          /\ fresh' = [fresh EXCEPT ![j] = @ \ {e}]
          /\ pc' = [pc EXCEPT ![j] = IF fresh[j] = {e} THEN "done" ELSE "publish"]
    /\ UNCHANGED <<now, enabled, claimed, stored, todo, torn, mute, toggled, faults>>

-----------------------------------------------------------------------------
(* A job that does not reach its end.                                      *)

KeysOf(S) == {KeyOf(e) : e \in S}

\* What a job has claimed and not committed.
InHand(j) ==
    IF pc[j] \in {"claim", "insert"}
    THEN fresh[j] \cup IF pc[j] = "insert" THEN First(todo[j]) ELSE {}
    ELSE {}

\* The session is closed and rolls back what it has not committed.
End(j, to) ==
    /\ pc' = [pc EXCEPT ![j] = to]
    /\ todo' = [todo EXCEPT ![j] = {}]
    /\ fresh' = [fresh EXCEPT ![j] = {}]

\* The job ends at the call it is at, which was not carried out: the call
\* raised, or arq's timeout cancelled it, and the job has failed; or the
\* worker was stopped, and the job is run again.
StopBefore(j, to) ==
    /\ Fault
    /\ pc[j] \in Working
    /\ End(j, to)
    /\ torn' = torn \cup KeysOf(InHand(j))
    /\ mute' = mute \cup IF pc[j] = "publish" THEN KeysOf(fresh[j]) ELSE {}
    /\ UNCHANGED <<now, enabled, claimed, stored, published, toggled>>

\* As above, but the server carried out the SET.
StopAfterClaim(j, to) ==
    /\ Fault
    /\ pc[j] = "claim"
    /\ End(j, to)
    /\ SetKey(j)
    /\ torn' = torn \cup KeysOf(fresh[j] \cup First(todo[j]))
    /\ UNCHANGED <<now, enabled, stored, published, mute, toggled>>

\* As above, but the server carried out the COMMIT.
StopAfterCommit(j, to) ==
    /\ Fault
    /\ Committing(j)
    /\ End(j, to)
    /\ AddRows(j)
    /\ mute' = mute \cup KeysOf(fresh[j])
    /\ UNCHANGED <<now, enabled, claimed, published, torn, toggled>>

\* As above, but the message went out.
StopAfterPublish(j, to) ==
    /\ Fault
    /\ pc[j] = "publish"
    /\ End(j, to)
    /\ \E e \in First(fresh[j]) :
          /\ Send(e)
          /\ mute' = mute \cup KeysOf(fresh[j] \ {e})
    /\ UNCHANGED <<now, enabled, claimed, stored, torn, toggled>>

JobStep(j) ==
    \/ StartRun(j)
    \/ SkipClaimed(j)
    \/ Claim(j)
    \/ Insert(j)
    \/ Commit(j)
    \/ Publish(j)

JobStops(j) ==
    \E to \in {"failed", "queued"} :
        \/ StopBefore(j, to)
        \/ StopAfterClaim(j, to)
        \/ StopAfterCommit(j, to)
        \/ StopAfterPublish(j, to)

Next ==
    \/ CloseBar
    \/ \E j \in Jobs : JobStep(j) \/ JobStops(j) \/ Repeat(j)
    \/ \E c \in Sources \ Models : Toggle(c)

Spec == Init /\ [][Next]_vars

\* asyncio schedules a job whose call has returned, arq runs what is queued.
\* A run has finitely many steps, so it is enough that the worker goes on.
FairSpec == Spec /\ WF_vars(\E j \in Jobs : JobStep(j))

-----------------------------------------------------------------------------
(* Properties.                                                             *)

\* strategies/worker.py:128-131: the window is evaluated again on each close,
\* and "a failed claim means we already emitted this signal -> skip": no
\* signal is stored twice, whatever jobs overlap, repeat or are run again.
StoredOnce == \A k \in Keys : stored[k] <= 1

\* strategies/worker.py:104-106: no subscriber observes a signal whose row
\* never persisted.
PublishedIsStored == \A k \in Keys : published[k] > 0 => stored[k] > 0

\* A claimed signal is not silently lost: it has its row, a job has it in
\* hand, or the job that claimed it did not reach its commit, which is the
\* at-most-once case of strategies/worker.py:132-133.
ClaimedIsAccounted ==
    \A k \in Keys : claimed[k] # 0 =>
        stored[k] > 0 \/ k \in torn \/ \E j \in Jobs : k \in KeysOf(InHand(j))

\* Each row of a strategy is published, about to be, or its job did not reach
\* the publish.
StoredIsAnnounced ==
    \A i \in Sources \ Models, b \in Bars :
        LET k == <<StrategyOf[i], b>>
        IN  stored[k] > published[k] =>
                \/ k \in mute
                \/ \E j \in Jobs : pc[j] = "publish" /\ k \in KeysOf(fresh[j])

\* A job that is done has seen to it that the candidate of its own bar is
\* claimed: by itself, or by another job.
DoneMeansClaimed ==
    \A j \in Jobs, i \in Sources :
        /\ pc[j] = "done"
        /\ <<i, j[2]>> \in Emits
        /\ i = j[1] \/ (j[1] = Close /\ i \in enabled \ toggled)
        => claimed[KeyOf(<<i, j[2]>>)] # 0

\* Every enqueued job ends: again and again the worker has none under way.
JobsEnd == []<>(\A j \in Jobs : pc[j] \in {"unsent"} \cup Ended)

\* strategies/worker.py:128-180: however jobs overlap and break off, no candidate
\* is lost on the way from the claim over the row to the publish but with a job
\* that broke off there, and none is announced without its row.
SignalsAccounted ==
    ClaimedIsAccounted /\ PublishedIsStored /\ StoredIsAnnounced /\ DoneMeansClaimed
=============================================================================
