---------------------------- MODULE AlertWorker -----------------------------
(***************************************************************************)
(* send_telegram_alert_job (app/workers/alert_worker.py) with the fixed-   *)
(* window limiter it calls (app/core/rate_limit.py).  One job per hit      *)
(* walks the subscriptions of the hit's rule: skip those marked delivered, *)
(* INCR and EXPIRE the user's counter, send, mark.  When a send failed the *)
(* job raises Retry and arq runs it again, as it does when the worker was  *)
(* stopped, up to MaxTries runs.  Jobs of different hits run concurrently  *)
(* and share the counters.                                                 *)
(***************************************************************************)
EXTENDS Integers, Sequences

CONSTANTS
    Hits,            \* one alert job each, all of one rule
    Subs,            \* the rule's telegram subscriptions, in query order
    UserOf,          \* the user of each
    Limit,           \* telegram_rate_limit_per_min
    MaxTries,        \* arq's max_tries
    MaxFaults,       \* bound: failed sends and calls, stops, rule switched off
    MaxWindows       \* bound: counter windows that run out

ASSUME AlertAssumption ==
    /\ Len(Subs) \in Nat
    /\ Limit \in Nat \ {0}
    /\ MaxTries \in Nat \ {0}
    /\ MaxFaults \in Nat
    /\ MaxWindows \in Nat

SubIds == 1 .. Len(Subs)
Users  == {UserOf[i] : i \in SubIds}

VARIABLES
    pc,              \* where each job is
    at,              \* the subscription it is at
    tries,           \* runs of the job so far
    hadFailure,      \* a send failed in this run
    enabled,         \* ScanRule.enabled
    marks,           \* alert_sent:<hit>:<sub> keys
    count,           \* ratelimit:telegram_alert:<user>, 0 when absent
    ttl,             \* whether that key has a TTL
    sent,            \* history: messages delivered per hit and subscription
    unmarked,        \* history: of these, those the job could not mark
    admitted,        \* history: sends allowed since the user's counter began
    torn,            \* history: users whose last INCR was not followed by EXPIRE
    skipped,         \* history: subscriptions over the limit in the last run
    faults, windows

vars == <<pc, at, tries, hadFailure, enabled, marks, count, ttl, sent, unmarked,
          admitted, torn, skipped, faults, windows>>

Steps == {"sub", "incr", "expire", "send", "mark"}
Ended == {"done", "gaveup", "failed"}

TypeOK ==
    /\ pc \in [Hits -> {"queued"} \cup Steps \cup Ended]
    /\ at \in [Hits -> 1 .. Len(Subs) + 1]
    /\ \A h \in Hits : pc[h] \in Steps \ {"sub"} => at[h] \in SubIds
    /\ tries \in [Hits -> 0 .. MaxTries]
    /\ hadFailure \in [Hits -> BOOLEAN]
    /\ enabled \in BOOLEAN
    /\ marks \subseteq Hits \X SubIds
    /\ count \in [Users -> Nat]
    /\ ttl \in [Users -> BOOLEAN]
    /\ sent \in [Hits \X SubIds -> Nat]
    /\ unmarked \in [Hits \X SubIds -> Nat]
    /\ admitted \in [Users -> Nat]
    /\ torn \subseteq Users
    /\ skipped \subseteq Hits \X SubIds
    /\ faults \in 0 .. MaxFaults
    /\ windows \in 0 .. MaxWindows

Init ==
    /\ pc = [h \in Hits |-> "queued"]
    /\ at = [h \in Hits |-> 1]
    /\ tries = [h \in Hits |-> 0]
    /\ hadFailure = [h \in Hits |-> FALSE]
    /\ enabled = TRUE
    /\ marks = {}
    /\ count = [u \in Users |-> 0]
    /\ ttl = [u \in Users |-> FALSE]
    /\ sent = [x \in Hits \X SubIds |-> 0]
    /\ unmarked = [x \in Hits \X SubIds |-> 0]
    /\ admitted = [u \in Users |-> 0]
    /\ torn = {}
    /\ skipped = {}
    /\ faults = 0
    /\ windows = 0

-----------------------------------------------------------------------------
Move(h, from, to) == pc[h] = from /\ pc' = [pc EXCEPT ![h] = to]
Fault == faults < MaxFaults /\ faults' = faults + 1
This(h) == <<h, at[h]>>
User(h) == UserOf[at[h]]
NextSub(h) == at' = [at EXCEPT ![h] = @ + 1]

\* A run starts; it does nothing when the rule was switched off meanwhile.
StartRun(h) ==
    /\ pc[h] = "queued"
    /\ tries[h] < MaxTries
    /\ pc' = [pc EXCEPT ![h] = IF enabled THEN "sub" ELSE "done"]
    /\ at' = [at EXCEPT ![h] = 1]
    /\ tries' = [tries EXCEPT ![h] = @ + 1]
    /\ hadFailure' = [hadFailure EXCEPT ![h] = FALSE]
    /\ skipped' = {x \in skipped : x[1] # h}
    /\ UNCHANGED <<enabled, marks, count, ttl, sent, unmarked, admitted, torn,
                   faults, windows>>

\* Out of tries: arq drops the job instead of running it.
GiveUp(h) ==
    /\ tries[h] = MaxTries
    /\ Move(h, "queued", "gaveup")
    /\ UNCHANGED <<at, tries, hadFailure, enabled, marks, count, ttl, sent,
                   unmarked, admitted, torn, skipped, faults, windows>>

AlreadyDelivered(h) ==
    /\ pc[h] = "sub"
    /\ This(h) \in marks
    /\ NextSub(h)
    /\ UNCHANGED <<pc, tries, hadFailure, enabled, marks, count, ttl, sent,
                   unmarked, admitted, torn, skipped, faults, windows>>

\* The delivery marker is absent.
NotDelivered(h) ==
    /\ Move(h, "sub", "incr")
    /\ at[h] \in SubIds
    /\ This(h) \notin marks
    /\ UNCHANGED <<at, tries, hadFailure, enabled, marks, count, ttl, sent,
                   unmarked, admitted, torn, skipped, faults, windows>>

\* Mutant of Allowed: the limit is one off.
AllowedOneMore(n) == n <= Limit + 1

Allowed(n) == n <= Limit

\* INCR: its answer decides, whatever happens to the key afterwards.
Incr(h) ==
    /\ pc[h] = "incr"
    /\ LET n == count[User(h)] + 1 IN
          /\ count' = [count EXCEPT ![User(h)] = n]
          /\ IF Allowed(n)
             THEN /\ admitted' = [admitted EXCEPT ![User(h)] = @ + 1]
                  /\ skipped' = skipped
             ELSE /\ admitted' = admitted
                  /\ skipped' = skipped \cup {This(h)}
    /\ pc' = [pc EXCEPT ![h] = "expire"]
    /\ UNCHANGED <<at, tries, hadFailure, enabled, marks, ttl, sent, unmarked,
                   torn, faults, windows>>

\* Mutant of WithTtl: EXPIRE only by the call that created the counter.
TtlOnFirst(u) == IF count[u] = 1 THEN [ttl EXCEPT ![u] = TRUE] ELSE ttl

\* EXPIRE NX: a TTL where there is none, if the key is still there.
WithTtl(u) == IF count[u] > 0 THEN [ttl EXCEPT ![u] = TRUE] ELSE ttl

Expire(h) ==
    /\ pc[h] = "expire"
    /\ ttl' = WithTtl(User(h))
    /\ torn' = torn \ {User(h)}
    /\ IF This(h) \in skipped
       THEN pc' = [pc EXCEPT ![h] = "sub"] /\ NextSub(h)
       ELSE pc' = [pc EXCEPT ![h] = "send"] /\ UNCHANGED at
    /\ UNCHANGED <<tries, hadFailure, enabled, marks, count, sent, unmarked,
                   admitted, skipped, faults, windows>>

SendOk(h) ==
    /\ Move(h, "send", "mark")
    /\ sent' = [sent EXCEPT ![This(h)] = @ + 1]
    /\ UNCHANGED <<at, tries, hadFailure, enabled, marks, count, ttl, unmarked,
                   admitted, torn, skipped, faults, windows>>

\* Mutant of SendFails: continue without hadFailure.
SendFailureForgotten(h) ==
    /\ Move(h, "send", "sub")
    /\ Fault
    /\ NextSub(h)
    /\ UNCHANGED <<tries, hadFailure, enabled, marks, count, ttl, sent, unmarked,
                   admitted, torn, skipped, windows>>

\* The send raised or was not ok, although the message may have arrived.
SendFails(h) ==
    /\ Move(h, "send", "sub")
    /\ Fault
    /\ hadFailure' = [hadFailure EXCEPT ![h] = TRUE]
    /\ NextSub(h)
    /\ \/ UNCHANGED <<sent, unmarked>>
       \/ /\ sent' = [sent EXCEPT ![This(h)] = @ + 1]
          /\ unmarked' = [unmarked EXCEPT ![This(h)] = @ + 1]
    /\ UNCHANGED <<tries, enabled, marks, count, ttl, admitted, torn, skipped,
                   windows>>

\* Mutant of Mark: no delivery marker.
MarkNothing(h) ==
    /\ Move(h, "mark", "sub")
    /\ NextSub(h)
    /\ UNCHANGED <<tries, hadFailure, enabled, marks, count, ttl, sent, unmarked,
                   admitted, torn, skipped, faults, windows>>

Mark(h) ==
    /\ Move(h, "mark", "sub")
    /\ marks' = marks \cup {This(h)}
    /\ NextSub(h)
    /\ UNCHANGED <<tries, hadFailure, enabled, count, ttl, sent, unmarked,
                   admitted, torn, skipped, faults, windows>>

\* The loop is over: Retry when a send failed.
EndRun(h) ==
    /\ pc[h] = "sub"
    /\ at[h] = Len(Subs) + 1
    /\ pc' = [pc EXCEPT ![h] = IF hadFailure[h] THEN "queued" ELSE "done"]
    /\ UNCHANGED <<at, tries, hadFailure, enabled, marks, count, ttl, sent,
                   unmarked, admitted, torn, skipped, faults, windows>>

\* What a run leaves behind when it stops at its current await.
StopAt(h) ==
    /\ torn' = IF pc[h] = "expire" THEN torn \cup {User(h)} ELSE torn
    /\ unmarked' = IF pc[h] = "mark"
                   THEN [unmarked EXCEPT ![This(h)] = @ + 1] ELSE unmarked

\* A Redis call raises: nothing catches it, and arq does not retry.
CallFails(h) ==
    /\ pc[h] \in Steps \ {"send"}
    /\ pc[h] = "sub" => at[h] \in SubIds
    /\ pc' = [pc EXCEPT ![h] = "failed"]
    /\ Fault
    /\ StopAt(h)
    /\ UNCHANGED <<at, tries, hadFailure, enabled, marks, count, ttl, sent,
                   admitted, skipped, windows>>

\* The worker process stops: the job is run again.
Interrupt(h) ==
    /\ pc[h] \in Steps
    /\ pc' = [pc EXCEPT ![h] = "queued"]
    /\ Fault
    /\ StopAt(h)
    /\ UNCHANGED <<at, tries, hadFailure, enabled, marks, count, ttl, sent,
                   admitted, skipped, windows>>

WindowEnds(u) ==
    /\ ttl[u]
    /\ windows < MaxWindows
    /\ windows' = windows + 1
    /\ count' = [count EXCEPT ![u] = 0]
    /\ ttl' = [ttl EXCEPT ![u] = FALSE]
    /\ admitted' = [admitted EXCEPT ![u] = 0]
    /\ UNCHANGED <<pc, at, tries, hadFailure, enabled, marks, sent, unmarked,
                   torn, skipped, faults>>

\* The user switches the rule off.
DisableRule ==
    /\ enabled
    /\ Fault
    /\ enabled' = FALSE
    /\ UNCHANGED <<pc, at, tries, hadFailure, marks, count, ttl, sent, unmarked,
                   admitted, torn, skipped, windows>>

JobStep(h) ==
    \/ StartRun(h) \/ GiveUp(h) \/ AlreadyDelivered(h) \/ NotDelivered(h)
    \/ Incr(h) \/ Expire(h) \/ SendOk(h) \/ SendFails(h) \/ Mark(h) \/ EndRun(h)

Next ==
    \/ \E h \in Hits : JobStep(h) \/ CallFails(h) \/ Interrupt(h)
    \/ \E u \in Users : WindowEnds(u)
    \/ DisableRule

Spec == Init /\ [][Next]_vars

FairSpec == Spec /\ \A h \in Hits : WF_vars(JobStep(h))

-----------------------------------------------------------------------------
(* Properties.                                                             *)

\* A retried job does not message a subscriber again, except for a message
\* that arrived without its marker (alert_worker.py:29-31).
NotSentTwice ==
    \A x \in Hits \X SubIds :
        sent[x] <= 1 + unmarked[x] /\ (x \in marks => sent[x] >= 1)

\* Concurrent jobs together admit at most Limit sends of a user per window,
\* failed sends and retries included.
WithinLimit == \A u \in Users : admitted[u] <= Limit

\* A counter without a TTL is one between its INCR and its EXPIRE, or one a
\* stopped job left there since the last request: any later request gives it
\* a TTL, so a leaked counter cannot lock a user out (rate_limit.py:20-24).
LeakHealsOnNextCall ==
    \A u \in Users :
        count[u] > 0 /\ ~ttl[u] =>
            \/ u \in torn
            \/ \E h \in Hits : pc[h] = "expire" /\ User(h) = u

\* A job that ends without giving up has delivered to every subscriber that
\* its last run did not skip for being over the limit.
Settled(h) == \A i \in SubIds : <<h, i>> \in marks \cup skipped

DoneMeansSettled == \A h \in Hits : pc[h] = "done" /\ enabled => Settled(h)

\* A job is given up only after a run that failed: without a fault, done.
DoneWithoutFaults == \A h \in Hits : pc[h] \in {"gaveup", "failed"} => faults > 0

\* workers/alert_worker.py:114-124: however its runs fail and are retried, a
\* job comes to its end, and one that is done has served its subscribers.
EndsServed ==
    \A h \in Hits : <>[](\/ pc[h] = "done" /\ (Settled(h) \/ ~enabled)
                         \/ pc[h] \in {"gaveup", "failed"} /\ faults > 0)
=============================================================================
