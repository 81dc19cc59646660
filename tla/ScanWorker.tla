----------------------------- MODULE ScanWorker -----------------------------
(***************************************************************************)
(* The scanner's candle-close jobs (app/scanner/worker.py, dedup.py) for   *)
(* one instrument.  The arq worker runs several jobs at a time; a job      *)
(* walks the enabled rules and, for each that fires, checks the Redis      *)
(* fast-path key, inserts the ScanHit (UNIQUE rule, instrument, ts; the    *)
(* timeframe is not part of it), claims the key, publishes the hit and     *)
(* enqueues its Telegram alert.  arq runs a job again when its worker was  *)
(* stopped under it, and never again when the job raised.                  *)
(*                                                                         *)
(* Whether a rule fires on a bar is a parameter: the series it is evaluated *)
(* over and their indicators are module RuleHistory's.                     *)
(***************************************************************************)
EXTENDS Integers, Sequences, FiniteSets

CONSTANTS
    Jobs,            \* scan_on_candle_close_job instances
    JobTf, JobTs,    \* the closed candle of each
    Rules,           \* the enabled rules, a sequence: the order of the loop
    RuleTfs,         \* the timeframes a rule's conditions name
    Firing,          \* <<rule, tf, ts>> at which the rule evaluates to true
    TFs, MaxTs,
    Session,         \* bars an equity is scanned at; every one of crypto's
    MaxFaults        \* bound: stops, failed calls, deleted rules

NoRow == "none"      \* no row with this (rule, instrument, ts)

ASSUME ScanAssumption ==
    /\ Len(Rules) \in Nat
    /\ JobTf \in [Jobs -> TFs]
    /\ JobTs \in [Jobs -> 1 .. MaxTs]
    /\ RuleTfs \in [1 .. Len(Rules) -> SUBSET TFs]
    /\ Firing \subseteq (1 .. Len(Rules)) \X TFs \X (1 .. MaxTs)
    /\ MaxTs \in Nat /\ MaxFaults \in Nat /\ Session \subseteq 1 .. MaxTs
    /\ NoRow \notin TFs

RuleIds == 1 .. Len(Rules)
Bars    == 1 .. MaxTs
Keys    == RuleIds \X TFs \X Bars      \* scan_hit_dedup:<rule>:..:<tf>:<ts>
Rows    == RuleIds \X Bars             \* UNIQUE(rule_id, instrument_id, ts)
None    == 0                           \* no rule

VARIABLES
    pc,              \* where each job is
    at,              \* the rule it is at
    loaded,          \* the rules it found enabled
    expired,         \* a rollback expired its session's ScanRule objects
    hits,            \* rows of scan_hits, with the tf that wrote each
    keys,            \* Redis fast-path keys
    published,       \* how often a row was published to scan_hits:<user>
    alerts,          \* how often send_telegram_alert_job was enqueued for it
    cut,             \* history: rows whose job was stopped before the alert
    deleted,         \* rules their owner has deleted
    faults

vars == <<pc, at, loaded, expired, hits, keys, published, alerts, cut, deleted,
          faults>>

\* unsent: not enqueued yet; queued: in arq; failed: it raised; poisoned: it
\* raised reading an expired rule.
Steps == {"loop", "insert", "rollback", "claim", "publish", "alert"}
Ended == {"done", "failed", "poisoned"}

TypeOK ==
    /\ pc \in [Jobs -> {"unsent", "queued"} \cup Steps \cup Ended]
    /\ at \in [Jobs -> RuleIds \cup {None, Len(Rules) + 1}]
    /\ \A j \in Jobs : pc[j] \in {"unsent", "queued"} => at[j] = None /\ ~expired[j]
    /\ loaded \in [Jobs -> SUBSET RuleIds]
    /\ expired \in [Jobs -> BOOLEAN]
    /\ hits \in [Rows -> TFs \cup {NoRow}]
    /\ keys \subseteq Keys
    /\ published \in [Rows -> Nat]
    /\ alerts \in [Rows -> Nat]
    /\ cut \subseteq Rows /\ deleted \subseteq RuleIds
    /\ faults \in 0 .. MaxFaults

Init ==
    /\ pc = [j \in Jobs |-> "unsent"]
    /\ at = [j \in Jobs |-> None]
    /\ loaded = [j \in Jobs |-> {}]
    /\ expired = [j \in Jobs |-> FALSE]
    /\ hits = [r \in Rows |-> NoRow]
    /\ keys = {}
    /\ published = [r \in Rows |-> 0]
    /\ alerts = [r \in Rows |-> 0]
    /\ cut = {}
    /\ deleted = {}
    /\ faults = 0

\* Every misfortune counts, one rule deleted as one call failed.
Fault == faults < MaxFaults /\ faults' = faults + 1

-----------------------------------------------------------------------------
(* The surroundings: a user deletes a rule, the ingester enqueues a job.   *)

\* Its owner's request.  A rule that has hits cannot be deleted: their foreign
\* key does not cascade.
DeleteRule(r) ==
    /\ Fault
    /\ r \notin deleted
    /\ \A b \in Bars : hits[<<r, b>>] = NoRow
    /\ deleted' = deleted \cup {r}
    /\ UNCHANGED <<pc, at, loaded, expired, hits, keys, published, alerts, cut>>

Enqueue(j) ==
    /\ pc[j] = "unsent"
    /\ pc' = [pc EXCEPT ![j] = "queued"]
    /\ UNCHANGED <<at, loaded, expired, hits, keys, published, alerts, cut,
                   deleted, faults>>

-----------------------------------------------------------------------------
(* One job.                                                                *)

Row(j) == <<at[j], JobTs[j]>>
Key(j) == <<at[j], JobTf[j], JobTs[j]>>

Move(j, from, to) == pc[j] = from /\ pc' = [pc EXCEPT ![j] = to]

NextRule(j) == at' = [at EXCEPT ![j] = @ + 1]

\* The session is new and the enabled rules are loaded.
StartJob(j) ==
    /\ Move(j, "queued", "loop")
    /\ JobTs[j] \in Session
    /\ at' = [at EXCEPT ![j] = 1]
    /\ loaded' = [loaded EXCEPT ![j] = RuleIds \ deleted]
    /\ expired' = [expired EXCEPT ![j] = FALSE]
    /\ UNCHANGED <<hits, keys, published, alerts, cut, deleted, faults>>

\* An equity's bar from outside the market's session is not looked at.
LeaveClosedBar(j) ==
    /\ Move(j, "queued", "done")
    /\ JobTs[j] \notin Session
    /\ UNCHANGED <<at, loaded, expired, hits, keys, published, alerts, cut,
                   deleted, faults>>

Relevant(j) == JobTf[j] \in RuleTfs[at[j]]
Fires(j)    == at[j] \in loaded[j] /\ Relevant(j) /\ Key(j) \in Firing

\* The rule is not there, does not use this tf or does not fire, or its key is
\* claimed.
SkipRule(j) ==
    /\ pc[j] = "loop"
    /\ at[j] \in RuleIds
    /\ ~Fires(j) \/ (~expired[j] /\ Key(j) \in keys)
    /\ NextRule(j)
    /\ UNCHANGED <<pc, loaded, expired, hits, keys, published, alerts, cut,
                   deleted, faults>>

\* rule.id of an expired ScanRule would load lazily: the job raises.
ReadExpiredRule(j) ==
    /\ Move(j, "loop", "poisoned")
    /\ at[j] \in RuleIds
    /\ Fires(j)
    /\ expired[j]
    /\ UNCHANGED <<at, loaded, expired, hits, keys, published, alerts, cut,
                   deleted, faults>>

\* The fast path misses: the hit is added and the commit is awaited.
TryInsert(j) ==
    /\ Move(j, "loop", "insert")
    /\ at[j] \in RuleIds
    /\ Fires(j)
    /\ ~expired[j]
    /\ Key(j) \notin keys
    /\ UNCHANGED <<at, loaded, expired, hits, keys, published, alerts, cut,
                   deleted, faults>>

\* Mutant of Insert: the key is claimed together with the insert attempt.
ClaimThenInsert(j) ==
    /\ Move(j, "insert", "claim")
    /\ hits[Row(j)] = NoRow
    /\ keys' = keys \cup {Key(j)}
    /\ hits' \in {hits, [hits EXCEPT ![Row(j)] = JobTf[j]]}
    /\ UNCHANGED <<at, loaded, expired, published, alerts, cut, deleted, faults>>

\* The commit takes effect when no other job's row is there and the rule still is.
Insert(j) ==
    /\ Move(j, "insert", "claim")
    /\ hits[Row(j)] = NoRow /\ at[j] \notin deleted
    /\ hits' = [hits EXCEPT ![Row(j)] = JobTf[j]]
    /\ UNCHANGED <<at, loaded, expired, keys, published, alerts, cut, deleted,
                   faults>>

\* Mutant of Duplicate: the conflict is taken for success.
DuplicateIgnored(j) ==
    /\ Move(j, "insert", "claim")
    /\ hits[Row(j)] # NoRow \/ at[j] \in deleted
    /\ UNCHANGED <<at, loaded, expired, hits, keys, published, alerts, cut,
                   deleted, faults>>

\* IntegrityError, of the unique key or of the one of the rule: rollback() expires
\* every ScanRule the session loaded.
Duplicate(j) ==
    /\ Move(j, "insert", "rollback")
    /\ hits[Row(j)] # NoRow \/ at[j] \in deleted
    /\ expired' = [expired EXCEPT ![j] = TRUE]
    /\ UNCHANGED <<at, loaded, hits, keys, published, alerts, cut, deleted,
                   faults>>

\* Mutant of ClaimDuplicate: return where the code has continue.
DuplicateEndsJob(j) ==
    /\ Move(j, "rollback", "done")
    /\ keys' = keys \cup {Key(j)}
    /\ UNCHANGED <<at, loaded, expired, hits, published, alerts, cut, deleted,
                   faults>>

\* claim_hit after the rollback, and on to the next rule.
ClaimDuplicate(j) ==
    /\ Move(j, "rollback", "loop")
    /\ keys' = keys \cup {Key(j)}
    /\ NextRule(j)
    /\ UNCHANGED <<loaded, expired, hits, published, alerts, cut, deleted,
                   faults>>

ClaimHit(j) ==
    /\ Move(j, "claim", "publish")
    /\ keys' = keys \cup {Key(j)}
    /\ UNCHANGED <<at, loaded, expired, hits, published, alerts, cut, deleted,
                   faults>>

\* Mutant of PublishHit: the alert is forgotten.
PublishOnly(j) ==
    /\ Move(j, "publish", "loop")
    /\ published' = [published EXCEPT ![Row(j)] = @ + 1]
    /\ NextRule(j)
    /\ UNCHANGED <<loaded, expired, hits, keys, alerts, cut, deleted, faults>>

PublishHit(j) ==
    /\ Move(j, "publish", "alert")
    /\ published' = [published EXCEPT ![Row(j)] = @ + 1]
    /\ UNCHANGED <<at, loaded, expired, hits, keys, alerts, cut, deleted, faults>>

EnqueueAlert(j) ==
    /\ Move(j, "alert", "loop")
    /\ alerts' = [alerts EXCEPT ![Row(j)] = @ + 1]
    /\ NextRule(j)
    /\ UNCHANGED <<loaded, expired, hits, keys, published, cut, deleted, faults>>

FinishJob(j) ==
    /\ at[j] = Len(Rules) + 1
    /\ Move(j, "loop", "done")
    /\ UNCHANGED <<at, loaded, expired, hits, keys, published, alerts, cut,
                   deleted, faults>>

-----------------------------------------------------------------------------
(* Failures.                                                               *)

\* Rows whose alert can no longer come when the job stops where it is.
Abandoned(j) == IF pc[j] \in {"claim", "publish", "alert"} THEN {Row(j)} ELSE {}

\* A database or Redis call raises something else: arq drops the job.  An
\* INSERT whose commit was not acknowledged may have landed.
CallFails(j) ==
    /\ pc[j] \in Steps
    /\ pc' = [pc EXCEPT ![j] = "failed"]
    /\ Fault
    /\ \/ cut' = cut \cup Abandoned(j) /\ UNCHANGED hits
       \/ /\ pc[j] = "insert" /\ hits[Row(j)] = NoRow /\ at[j] \notin deleted
          /\ hits' = [hits EXCEPT ![Row(j)] = JobTf[j]]
          /\ cut' = cut \cup {Row(j)}
    /\ UNCHANGED <<at, loaded, expired, keys, published, alerts, deleted>>

\* The worker process stops: arq runs the job again from the start.
Interrupt(j) ==
    /\ pc[j] \in Steps
    /\ pc' = [pc EXCEPT ![j] = "queued"]
    /\ Fault
    /\ \/ cut' = cut \cup Abandoned(j) /\ UNCHANGED hits
       \/ /\ pc[j] = "insert" /\ hits[Row(j)] = NoRow /\ at[j] \notin deleted
          /\ hits' = [hits EXCEPT ![Row(j)] = JobTf[j]]
          /\ cut' = cut \cup {Row(j)}
    /\ at' = [at EXCEPT ![j] = None]
    /\ loaded' = [loaded EXCEPT ![j] = {}]
    /\ expired' = [expired EXCEPT ![j] = FALSE]
    /\ UNCHANGED <<keys, published, alerts, deleted>>

\* A fast-path key reaches its 48 h TTL (a flushed Redis looks the same).
ExpireKey ==
    /\ Fault
    /\ \E k \in keys : keys' = keys \ {k}
    /\ UNCHANGED <<pc, at, loaded, expired, hits, published, alerts, cut,
                   deleted>>

JobStep(j) ==
    \/ StartJob(j) \/ LeaveClosedBar(j) \/ SkipRule(j) \/ ReadExpiredRule(j) \/ TryInsert(j)
    \/ Insert(j) \/ Duplicate(j) \/ ClaimDuplicate(j) \/ ClaimHit(j)
    \/ PublishHit(j) \/ EnqueueAlert(j) \/ FinishJob(j)

Next ==
    \/ \E r \in RuleIds : DeleteRule(r)
    \/ \E j \in Jobs : Enqueue(j) \/ JobStep(j) \/ CallFails(j) \/ Interrupt(j)
    \/ ExpireKey

Spec == Init /\ [][Next]_vars

\* arq runs a queued job, and a running job's awaits return.
FairSpec == Spec /\ \A j \in Jobs : WF_vars(JobStep(j))

-----------------------------------------------------------------------------
(* Properties.                                                             *)

\* Concurrent jobs, replays and expired keys never fan a hit out twice: at
\* most one publication and one alert job per (rule, instrument, bar).
FannedOutOnce == \A r \in Rows : published[r] <= 1 /\ alerts[r] <= 1

\* Nothing is fanned out before its row is durable, and while its rule exists no
\* fast-path key does so without a row: a failed commit never suppresses a
\* genuine retry.  No hit is of a bar outside the market's session.
KeyImpliesRow ==
    /\ \A k \in keys : hits[<<k[1], k[3]>>] # NoRow \/ k[1] \in deleted
    /\ \A r \in Rows : published[r] + alerts[r] > 0 => hits[r] # NoRow
    /\ \A r \in Rows : hits[r] # NoRow => r[2] \in Session

\* A row without its alert is the work of a running job, or of one that was
\* stopped between its commit and the enqueue.
UnalertedAccounted ==
    \A r \in Rows :
        hits[r] # NoRow /\ alerts[r] = 0 =>
            \/ r \in cut
            \/ \E j \in Jobs : /\ pc[j] \in {"claim", "publish", "alert"}
                               /\ Row(j) = r

\* A rule firing on the bar of a job that ran to its end has its row, whoever
\* wrote it, unless it is deleted or the market was closed.
Recorded(j) ==
    \A r \in RuleIds \ deleted :
        /\ JobTf[j] \in RuleTfs[r] /\ <<r, JobTf[j], JobTs[j]>> \in Firing
        /\ JobTs[j] \in Session
        => hits[<<r, JobTs[j]>>] # NoRow

FiredIsRecorded == \A j \in Jobs : pc[j] = "done" => Recorded(j)

\* scanner/worker.py:137-199: whatever replays, conflicts and stops it meets, a
\* job comes to its end, and one that is done has recorded what fired.
EndsRecorded ==
    \A j \in Jobs : pc[j] = "queued" ~> \/ pc[j] = "done" /\ Recorded(j)
                                        \/ pc[j] \in {"failed", "poisoned"}
=============================================================================
