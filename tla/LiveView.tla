------------------------------ MODULE LiveView ------------------------------
(***************************************************************************)
(* A live view of the frontend: the reconnecting socket of useWebSocket,   *)
(* the server relay behind it (api/ws_candles, ws_signals, ws_scanner),    *)
(* the REST history, and what useCandles, useLivePrice, useSignals and     *)
(* useScanHits fold of both.  A key is a symbol and timeframe, of the hits *)
(* view the user; the keys of the signals view are timeframes of the one   *)
(* instrument both its pages are about.  The backend has published db[k]   *)
(* items of k, numbered.                                                   *)
(***************************************************************************)
EXTENDS Integers, Sequences, SequencesExt, FiniteSets

CONSTANTS
    Keys,       \* subscriptions
    NoKey,      \* and none
    Views,      \* "candles", "price", "signals", "hits"
    PerDay,     \* items of a UTC day
    MaxHits,    \* MAX_HITS
    SeenCap,    \* SEEN_CAP
    MaxLive,    \* MAX_LIVE
    MaxItems,   \* bound: items of a key
    MaxFaults,  \* bound: sockets lost and refused, calls that fail
    MaxMoves    \* bound: switches, token refreshes, replays and reloads

ASSUME LiveViewAssumption ==
    /\ Views \subseteq {"candles", "price", "signals", "hits"} /\ NoKey \notin Keys
    /\ PerDay \in Nat \ {0} /\ MaxHits \in Nat \ {0} /\ MaxLive \in Nat
    /\ SeenCap \in Nat /\ SeenCap >= MaxHits
    /\ MaxItems \in Nat \ {0} /\ MaxFaults \in Nat /\ MaxMoves \in Nat

VARIABLES
    view,       \* the mounted hook
    key,        \* what it is mounted for
    status,     \* useWebSocket's status, "crashed" on the error page
    sock,       \* wsRef.current and the relay's side of it
    fetches,    \* REST requests in flight
    cache,      \* query cache of the instrument's signals, as counts by key
    shown,      \* the hook's state
    db,         \* items stored and published
    faults, moves

lvars == <<view, key, status, sock, fetches, cache, shown, db, faults, moves>>

Item(k, i) == [key |-> k, id |-> i]
Bar(i) == (i + 1) \div 2            \* a bar has a forming version and a last one
Day(i) == (i - 1) \div PerDay

NewSocket == [phase |-> "connecting", asked |-> NoKey, chan |-> NoKey, fed |-> FALSE,
              died |-> FALSE, pipe |-> <<>>]

Blank == [series |-> {}, list |-> <<>>, seen |-> <<>>, last |-> Item(NoKey, 0),
          open |-> Item(NoKey, 0), day |-> -1]

None == [k \in Keys |-> 0]

\* The price view asks for the 1d candle of the day it is mounted on.
Fetch(k) == [live |-> TRUE, key |-> k, day |-> db[k] \div PerDay, came |-> FALSE,
             got |-> None, row |-> FALSE]
Fetched(k) == IF view = "hits" THEN {} ELSE {Fetch(k)}

LiveInit ==
    /\ view \in Views /\ key \in Keys
    /\ status = "connecting"
    /\ sock = NewSocket
    /\ db \in [Keys -> 0 .. 1]
    /\ fetches = Fetched(key)
    /\ cache = None
    /\ shown = Blank
    /\ faults = 0 /\ moves = 0

Fault == faults < MaxFaults /\ faults' = faults + 1 /\ UNCHANGED moves
Move  == moves < MaxMoves /\ moves' = moves + 1 /\ UNCHANGED faults
Free  == UNCHANGED <<faults, moves>>

-----------------------------------------------------------------------------
(* useWebSocket and the relay.                                              *)

\* The hook sends its subscription; the hits relay knows the channel itself.
OpenSocket ==
    /\ sock.phase = "connecting"
    /\ status' = "open"
    /\ sock' = IF view = "hits"
               THEN [sock EXCEPT !.phase = "open", !.chan = key, !.fed = TRUE]
               ELSE [sock EXCEPT !.phase = "open", !.asked = key]
    /\ Free /\ UNCHANGED <<view, key, fetches, cache, shown, db>>

\* Mutant of AfterClose: no timer is set.
AfterCloseForGood == [NewSocket EXCEPT !.phase = "none"]

\* A timer will open the next socket.
AfterClose == [NewSocket EXCEPT !.phase = "waiting"]

\* The socket is refused, or lost with what it still had to deliver.
CloseSocket ==
    /\ Fault
    /\ sock.phase \in {"connecting", "open"}
    /\ status' = "closed"
    /\ sock' = AfterClose
    /\ UNCHANGED <<view, key, fetches, cache, shown, db>>

Reconnect ==
    /\ sock.phase = "waiting"
    /\ status' = "connecting"
    /\ sock' = NewSocket
    /\ Free /\ UNCHANGED <<view, key, fetches, cache, shown, db>>

\* The relay reads the subscription and starts its forwarder.
Subscribe ==
    /\ sock.asked # NoKey
    /\ sock' = [sock EXCEPT !.asked = NoKey, !.chan = sock.asked, !.fed = TRUE,
                         !.died = FALSE]
    /\ Free /\ UNCHANGED <<view, key, status, fetches, cache, shown, db>>

\* Redis fails under the forwarder, which ends; the receive loop does not see it.
ForwarderDies ==
    /\ Fault
    /\ view # "hits" /\ sock.fed
    /\ sock' = [sock EXCEPT !.fed = FALSE, !.died = TRUE]
    /\ UNCHANGED <<view, key, status, fetches, cache, shown, db>>

Forwarded(k, i) ==
    IF sock.fed /\ sock.chan = k THEN [sock EXCEPT !.pipe = Append(@, Item(k, i))] ELSE sock

Publish(k) ==
    /\ db[k] < MaxItems
    /\ db' = [db EXCEPT ![k] = @ + 1]
    /\ sock' = Forwarded(k, db[k] + 1)
    /\ Free /\ UNCHANGED <<view, key, status, fetches, cache, shown>>

\* A worker that is run again announces an old signal or hit again.
Replay(k, i) ==
    /\ Move
    /\ view \in {"signals", "hits"} /\ i <= db[k]
    /\ sock' = Forwarded(k, i)
    /\ UNCHANGED <<view, key, status, fetches, cache, shown, db>>

-----------------------------------------------------------------------------
(* What a frame does to each hook's state.                                  *)

\* A version of a bar takes the place of the one shown.
WithCandle(s, it) == {c \in s : Bar(c.id) # Bar(it.id)} \cup {it}

\* Mutant of WithPrice: a new day keeps the old baseline.
WithPriceOld(s, it) ==
    IF s.day = -1 THEN [s EXCEPT !.day = Day(it.id), !.open = it, !.last = it]
    ELSE [s EXCEPT !.day = Day(it.id), !.last = it]

\* The first candle seen of a day is its baseline.
WithPrice(s, it) ==
    IF s.day = Day(it.id) THEN [s EXCEPT !.last = it]
    ELSE [s EXCEPT !.day = Day(it.id), !.open = it, !.last = it]

FirstOf(s, n) == SubSeq(s, 1, IF Len(s) < n THEN Len(s) ELSE n)

WithSignal(s, it) ==
    IF Contains(s.list, it) THEN s ELSE [s EXCEPT !.list = FirstOf(<<it>> \o @, MaxLive)]

\* The key evicted from the memory of hits is the oldest.
WithHit(s, it) ==
    IF Contains(s.seen, it) THEN s
    ELSE [s EXCEPT !.seen = IF Len(@) = SeenCap THEN Append(Tail(@), it) ELSE Append(@, it),
                   !.list = FirstOf(<<it>> \o @, MaxHits)]

\* Frames of another shape are dropped by the parsers.
Deliver ==
    /\ sock.pipe # <<>>
    /\ sock' = [sock EXCEPT !.pipe = Tail(@)]
    /\ LET it == Head(sock.pipe)
       IN shown' = CASE view = "candles" -> [shown EXCEPT !.series = WithCandle(@, it)]
                     [] view = "price" -> WithPrice(shown, it)
                     [] view = "signals" -> WithSignal(shown, it)
                     [] view = "hits" -> WithHit(shown, it)
    /\ Free /\ UNCHANGED <<view, key, status, fetches, cache, db>>

-----------------------------------------------------------------------------
(* REST history.                                                            *)

\* What the server has for a request: the signals of every timeframe, the
\* items of the key, and the 1d candle of a day once its last item is stored
\* and rolled up.
Stored(f) == [k \in Keys |-> IF view = "signals" \/ k = f.key THEN db[k] ELSE 0]
DayIsOver(f) == view = "price" /\ (f.day + 1) * PerDay <= db[f.key]

\* The server reads its tables at some moment before the answer arrives.
RestAnswers(f) ==
    /\ ~f.came
    /\ \E row \in BOOLEAN :
          /\ row => DayIsOver(f)
          /\ fetches' = (fetches \ {f}) \cup
                        {[f EXCEPT !.came = TRUE, !.got = Stored(f), !.row = row]}
    /\ Free /\ UNCHANGED <<view, key, status, sock, cache, shown, db>>

\* The last version of every bar up to the n-th item.
History(k, n) == {Item(k, i) : i \in {j \in 1 .. n : j = n \/ j % 2 = 0}}

\* No row, no baseline: while the day lasts it is left to the first candle.
WithDayOpen(s, f) ==
    IF ~f.row THEN s
    ELSE [s EXCEPT !.open = Item(f.key, f.day * PerDay + 1), !.day = f.day]

\* The answer replaces the series; one that was cancelled is ignored, and the
\* query's answer goes to the cache, whoever is mounted.
RestArrives(f) ==
    /\ f.came
    /\ fetches' = fetches \ {f}
    /\ cache' = IF view = "signals" THEN f.got ELSE cache
    /\ shown' = IF ~f.live \/ view = "signals" THEN shown
                ELSE IF view = "candles"
                THEN [shown EXCEPT !.series = History(f.key, f.got[f.key])]
                ELSE WithDayOpen(shown, f)
    /\ Free /\ UNCHANGED <<view, key, status, sock, db>>

\* Offline or refused: the series stays for the socket to fill.
RestFails(f) ==
    /\ Fault
    /\ fetches' = fetches \ {f}
    /\ UNCHANGED <<view, key, status, sock, cache, shown, db>>

-----------------------------------------------------------------------------
(* The user.                                                                *)

\* Mutant of Cancelled: the flag is not set by the effect's cleanup.
NotCancelled(fs) == fs

Cancelled(fs) == {[f EXCEPT !.live = FALSE] : f \in fs}

\* Another symbol or timeframe: the socket is torn down, handlers first, and a
\* new one opened.  The subscription effect runs in the same commit, after
\* that, and still with the status of the render: sending on a socket that is
\* connecting throws, and the route shows its error page.
Switch(k) ==
    /\ Move
    /\ view = "candles" /\ k # key /\ status # "crashed"
    /\ key' = k
    /\ shown' = Blank
    /\ fetches' = IF status = "open" THEN Cancelled(fetches \cup Fetched(k))
                  ELSE Cancelled(fetches) \cup Fetched(k)
    /\ status' = IF status = "open" THEN "crashed" ELSE "connecting"
    /\ sock' = IF status = "open" THEN [NewSocket EXCEPT !.phase = "none"] ELSE NewSocket
    /\ UNCHANGED <<view, cache, db>>

\* The other page of the signals view, of another timeframe: a hook of its own,
\* over the query cache that is there.  A request in flight answers both.
Revisit(k) ==
    /\ Move
    /\ view = "signals" /\ k # key
    /\ key' = k
    /\ shown' = Blank
    /\ fetches' = IF fetches = {} THEN Fetched(k) ELSE Cancelled(fetches)
    /\ status' = "connecting"
    /\ sock' = NewSocket
    /\ UNCHANGED <<view, cache, db>>

\* What a new token empties: the live signals, the hits and their memory.
Emptied == IF view \in {"signals", "hits"} THEN Blank ELSE shown

\* The session is refreshed: the url changes, so the socket is opened anew.
RefreshToken ==
    /\ Move
    /\ status # "crashed"
    /\ status' = "connecting"
    /\ sock' = NewSocket
    /\ shown' = Emptied
    /\ UNCHANGED <<view, key, fetches, cache, db>>

\* The error page's button, or a reload at any time.
Reload ==
    /\ Move
    /\ \E k \in Keys : key' = k /\ fetches' = Fetched(k)
    /\ status' = "connecting"
    /\ sock' = NewSocket
    /\ shown' = Blank
    /\ cache' = None
    /\ UNCHANGED <<view, db>>

Network == OpenSocket \/ Reconnect \/ Subscribe \/ Deliver

LiveNext ==
    \/ Network
    \/ CloseSocket
    \/ ForwarderDies
    \/ \E k \in Keys :
          Publish(k) \/ Switch(k) \/ Revisit(k) \/ \E i \in 1 .. MaxItems : Replay(k, i)
    \/ \E f \in fetches : RestAnswers(f) \/ RestArrives(f) \/ RestFails(f)
    \/ RefreshToken
    \/ Reload

-----------------------------------------------------------------------------
(* Properties.                                                              *)

\* What the view renders at each of its places: the live items and, below the
\* live signals, the rows of the instrument's history that are not among them.
Rendered ==
    LET past == IF view = "signals"
                THEN {p \in Keys \X (1 .. MaxItems) :
                         p[2] <= cache[p[1]] /\ ~Contains(shown.list, Item(p[1], p[2]))}
                ELSE {}
    IN  [p \in ({"live"} \X DOMAIN shown.list) \cup ({"history"} \X past) |->
            IF p[1] = "live" THEN shown.list[p[2]] ELSE Item(p[2][1], p[2][2])]

\* One candle per bar and time-ordered, as useCandles.ts:21-23 has it, within
\* the bounds of the live buffers.
LiveTypeOK ==
    /\ view \in Views /\ key \in Keys
    /\ status \in {"connecting", "open", "closed", "crashed"}
    /\ sock.phase \in {"none", "connecting", "waiting", "open"}
    /\ \A a, b \in shown.series : Bar(a.id) = Bar(b.id) => a = b
    /\ Len(shown.list) <= (IF view = "hits" THEN MaxHits ELSE MaxLive)
    /\ db \in [Keys -> 0 .. MaxItems]

\* useCandles.ts:90-92: neither an answer nor a frame of the key shown before
\* gets into the reset series or the live items, whenever it arrives.  Below
\* the live signals are those of the instrument, of any timeframe.
ShownIsOfKey ==
    \A it \in shown.series \cup ToSet(shown.list) \cup {shown.last} :
        it.key \in {key, NoKey}

\* useCandles.ts:98-102: whenever the page says "Live", the relay has yet to
\* read the shown key or forwards it, unless its forwarder has died, after any
\* number of reconnects and token refreshes.
LiveOnShownKey ==
    status = "open" =>
        /\ sock.phase = "open"
        /\ sock.asked = key \/ (sock.chan = key /\ (sock.fed \/ sock.died))

\* useScanHits.ts:15-18, useSignals.ts:37-41: no hit and no signal is shown
\* twice, replayed, evicted from the memory or loaded as it may have been.
NoneShownTwice == IsInjective(Rendered)

\* useCandles.ts, useSignals.ts, useScanHits.ts: whatever arrives in whatever
\* order, a live page shows the items of the key chosen, each once, and is fed
\* with them when it says so, but for a forwarder that died unnoticed.
PageIsOfKey == LiveTypeOK /\ ShownIsOfKey /\ LiveOnShownKey /\ NoneShownTwice

\* useLivePrice.ts:60-72: after a candle, the change is measured within its
\* day, and from where it was if the baseline was of that day.  That this is
\* the day's open (lines 20-22) is not so: no 1d candle is there before the
\* day is over, and the first candle the page sees is the baseline.
ChangeWithinDay ==
    [][shown'.last # shown.last /\ shown'.last.key # NoKey =>
          /\ Day(shown'.open.id) = Day(shown'.last.id)
          /\ shown.open.key # NoKey /\ Day(shown.open.id) = Day(shown'.last.id) =>
                shown'.open = shown.open]_lvars

\* useWebSocket.ts:11-13: on a change of the key "the socket is torn down and
\* reopened, so a symbol/tf switch drops the previous server subscription and
\* starts fresh".
SwitchStartsFresh == status # "crashed"
=============================================================================
