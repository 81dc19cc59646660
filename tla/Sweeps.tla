------------------------------- MODULE Sweeps -------------------------------
(***************************************************************************)
(* The worker's cron jobs on quarter-hour ticks: the equity poller with    *)
(* the instruments it makes sure of (so does POST seed-nifty50) and the    *)
(* candle retention at night.  Tick 0 is the opening of the NSE session    *)
(* and tick Quarters its close; quarter q lies between ticks q and q + 1.  *)
(* The tick after the close is the night.  A job starts some seconds past  *)
(* its tick: the head of a quarter is the minute those seconds belong to.  *)
(***************************************************************************)
EXTENDS Integers, FiniteSets

CONSTANTS
    Equities,       \* NIFTY50_SYMBOLS
    Quarters,       \* of a session
    Lookback,       \* quarters a poll asks for
    Delays,         \* quarters by which the vendor may be late
    Retention,      \* candle_retention_days
    Holidays,       \* days without a session
    LastDay,        \* bound: days
    MaxMissed       \* bound: equities of polls that stored nothing of them

ASSUME SweepsAssumption ==
    /\ Quarters \in Nat \ {0} /\ Lookback \in Nat \ {0} /\ Retention \in Nat \ {0}
    /\ Delays \subseteq Nat /\ LastDay \in Nat /\ MaxMissed \in Nat

VARIABLES
    delay,          \* the vendor's
    day, tick,
    due,            \* jobs this tick's cron has not started: "poll", "retention"
    instruments,    \* rows of the instruments table
    seeding,        \* the POST: [missing] that it read, {} when none
    poll,           \* the poll that runs, {} when none
    bars,           \* rows of the candles table: [of, day, quarter, part]
    missed          \* what a poll stored nothing of: [of, day, tick]

svars == <<delay, day, tick, due, instruments, seeding, poll, bars, missed>>

Trades(d) == d \notin Holidays
Night == Quarters + 1

SweepsInit ==
    /\ delay \in Delays
    /\ day = 0 /\ tick = 0
    /\ due = {"poll"}
    /\ instruments \in {{}, Equities}
    /\ seeding = {} /\ poll = {} /\ bars = {} /\ missed = {}

\* The jobs of a tick are over before the next: arq times them out earlier.
Tick ==
    /\ due = {} /\ poll = {}
    /\ IF tick = Night
       THEN day < LastDay /\ day' = day + 1 /\ tick' = 0
       ELSE day' = day /\ tick' = tick + 1
    /\ due' = IF tick' = Night THEN {"retention"} ELSE {"poll"}
    /\ UNCHANGED <<instruments, seeding, poll, bars, missed>>

-----------------------------------------------------------------------------
(* ensure_equity_instruments, in two transactions that can cross.           *)

Missing == Equities \ instruments

\* The unique constraint refuses the insert of what another has inserted since.
Inserts(m) == m \cap instruments = {}

SeedReads ==
    /\ seeding = {} /\ Missing # {}
    /\ seeding' = {[missing |-> Missing]}
    /\ UNCHANGED <<day, tick, due, instruments, poll, bars, missed>>

SeedCommits(s) ==
    /\ instruments' = IF Inserts(s.missing) THEN instruments \cup s.missing ELSE instruments
    /\ seeding' = {}
    /\ UNCHANGED <<day, tick, due, poll, bars, missed>>

-----------------------------------------------------------------------------
(* poll_equity_universe.                                                    *)

\* The clock of a job that starts at the close is past it: is_in_session asks
\* for a time of day that is not later.
InSession == Trades(day) /\ tick < Quarters

StartPoll ==
    /\ "poll" \in due
    /\ due' = due \ {"poll"}
    /\ poll' = IF InSession THEN {[missing |-> Missing, left |-> Equities, got |-> {}]} ELSE {}
    /\ UNCHANGED <<day, tick, instruments, seeding, bars, missed>>

CanMiss == Cardinality(missed) < MaxMissed
ThisPoll(es) == [of : es, day : {day}, tick : {tick}]

\* A poll that is aborted rolls all of it back, instruments too.
Abort ==
    /\ missed' = missed \cup ThisPoll(Equities)
    /\ poll' = {}
    /\ UNCHANGED <<day, tick, instruments, seeding, bars>>

\* The worker is down at the tick, and cron does not make up for it.
PollSkipped ==
    /\ CanMiss
    /\ "poll" \in due /\ InSession
    /\ due' = due \ {"poll"}
    /\ missed' = missed \cup ThisPoll(Equities)
    /\ UNCHANGED <<day, tick, instruments, seeding, poll, bars>>

Parts == [quarter : 0 .. Quarters - 1, part : {"head", "rest"}]

\* Mutant of Window: it looks back one interval less.
WindowOfLess == {w \in Parts : tick - Lookback < w.quarter /\ w.quarter + delay < tick}

\* From now - lookback, seconds past a tick, to what the vendor has by now.  The
\* bar still forming is overwritten by the next poll and does not count.
Window ==
    {w \in Parts : /\ tick - Lookback <= w.quarter
                   /\ w.part = "head" => tick - Lookback < w.quarter
                   /\ w.quarter + delay < tick}

BarsOf(i) == {[of |-> i, day |-> day, quarter |-> w.quarter, part |-> w.part] : w \in Window}

\* yfinance answers for one instrument.
Fetch(p, i) ==
    /\ poll' = {[p EXCEPT !.left = @ \ {i}, !.got = @ \cup BarsOf(i)]}
    /\ UNCHANGED <<day, tick, due, instruments, seeding, bars, missed>>

\* It has nothing, and the poll goes on to the next.
FetchEmpty(p, i) ==
    /\ CanMiss
    /\ poll' = {[p EXCEPT !.left = @ \ {i}]}
    /\ missed' = missed \cup ThisPoll({i})
    /\ UNCHANGED <<day, tick, due, instruments, seeding, bars>>

\* yfinance raises for one instrument: there is no poll of the others.
FetchFails == CanMiss /\ Abort /\ UNCHANGED due

\* The insert of the instruments waits for a transaction that inserts the same
\* and fails with it; the bars are upserted, and published when committed.
CommitPoll(p) ==
    /\ p.left = {}
    /\ IF Inserts(p.missing)
       THEN /\ instruments' = instruments \cup p.missing
            /\ bars' = bars \cup p.got
            /\ poll' = {}
            /\ UNCHANGED <<day, tick, seeding, missed>>
       ELSE Abort
    /\ UNCHANGED due

-----------------------------------------------------------------------------
(* retention_job.                                                           *)

\* The night of a day is 08:30 of the next in the exchange's time.
Kept(b) == b.day >= day + 1 - Retention

RetentionJob ==
    /\ "retention" \in due
    /\ due' = due \ {"retention"}
    /\ bars' = {b \in bars : Kept(b)}
    /\ UNCHANGED <<day, tick, instruments, seeding, poll, missed>>

SweepsNext ==
    /\ \/ Tick
       \/ SeedReads
       \/ \E s \in seeding : SeedCommits(s)
       \/ StartPoll
       \/ PollSkipped
       \/ \E p \in poll :
            \/ CommitPoll(p)
            \/ FetchFails
            \/ \E i \in p.left : Fetch(p, i) \/ FetchEmpty(p, i)
       \/ RetentionJob
    /\ UNCHANGED delay

-----------------------------------------------------------------------------
(* Properties.                                                              *)

SweepsTypeOK ==
    /\ delay \in Delays
    /\ day \in 0 .. LastDay /\ tick \in 0 .. Night
    /\ due \subseteq {"poll", "retention"}
    /\ instruments \subseteq Equities
    /\ bars \subseteq [of : Equities, day : 0 .. LastDay, quarter : 0 .. Quarters - 1,
                       part : {"head", "rest"}]

\* The polls that may get a part of quarter q while the session lasts: the
\* vendor has it, and the seconds do not cut it off.
PollsOf(q, part) ==
    {t \in q + delay + 1 .. q + Lookback :
        t < Quarters /\ (part = "head" => t < q + Lookback)}

Over(d, q) == d < day \/ (d = day /\ (q + Lookback < tick \/ tick = Night))

Misses(i, d, q, part) == \A t \in PollsOf(q, part) : [of |-> i, day |-> d, tick |-> t] \in missed

\* equity_poller.py:44-46: a part of a quarter of an equity is stored unless every
\* poll that can get it was missed or answered with nothing, so that one miss is
\* made up for, but for the head, by the next poll.  Retention, a crossing seed
\* and the other instruments take nothing from it.
SweptByNextPoll ==
    \A i \in Equities, d \in 0 .. day, q \in 0 .. Quarters - 1, part \in {"head", "rest"} :
        /\ Trades(d) /\ Over(d, q) /\ ~Misses(i, d, q, part)
        /\ d > day - Retention
        => [of |-> i, day |-> d, quarter |-> q, part |-> part] \in bars

\* equity_poller.py:44-46: "a delayed or skipped run still sweeps the gap", so
\* that a session no poll missed is stored by its night, with a vendor in time.
SessionStored ==
    tick = Night /\ Trades(day) /\ missed = {} /\ delay = 0 =>
        \A i \in Equities, w \in Parts :
            [of |-> i, day |-> day, quarter |-> w.quarter, part |-> w.part] \in bars

\* equity_poller.py, universe_equity.py, retention_worker.py: missed polls are
\* made up for whatever other cron jobs and requests run beside them.
SweepsSound == SweepsTypeOK /\ SweptByNextPoll
=============================================================================
