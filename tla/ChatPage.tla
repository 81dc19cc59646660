------------------------------ MODULE ChatPage ------------------------------
(***************************************************************************)
(* The chat page of the frontend: useChatStream, the page's effects and    *)
(* the store that outlives it, against the server's log of each session.   *)
(* Question n and its answer are <<"user", n>> and <<"assistant", n>>.     *)
(***************************************************************************)
EXTENDS Integers, Sequences, SequencesExt, FiniteSets

CONSTANTS
    Sessions,   \* ids the server can give out, in this order
    NoSession,
    MaxAsked,   \* bound: questions
    MaxVisits,  \* bound: changes of session and visits of the page
    MaxDown     \* bound: requests that fail

ASSUME ChatPageAssumption ==
    /\ Sessions \in Seq(ToSet(Sessions)) /\ IsInjective(Sessions)
    /\ NoSession \notin ToSet(Sessions)
    /\ MaxAsked \in Nat /\ MaxVisits \in Nat /\ MaxDown \in Nat

VARIABLES
    mounted,    \* the page is the one shown
    active,     \* activeSessionId
    known,      \* sessions created so far
    store,      \* messagesBySession
    streaming,  \* isStreaming
    panel,      \* of which session's turn streamingText, toolEvents and error are
    streams,    \* turns whose response is still read or written
    lists,      \* listSessions calls in flight: of the page shown, or of an earlier one
    loads,      \* getSessionMessages calls in flight
    log,        \* the server's messages
    asked, visits, down

cvars == <<mounted, active, known, store, streaming, panel, streams, lists, loads,
           log, asked, visits, down>>

Ids == ToSet(Sessions)
Visit == visits < MaxVisits /\ visits' = visits + 1 /\ UNCHANGED down
Down  == down < MaxDown /\ down' = down + 1 /\ UNCHANGED visits
Calm  == UNCHANGED <<visits, down>>

Load(s) == [live |-> TRUE, session |-> s, came |-> FALSE, history |-> <<>>]
Loads(s) == IF s = NoSession THEN {} ELSE {Load(s)}

NoPanel == [text |-> NoSession, tools |-> NoSession, error |-> NoSession]

ChatInit ==
    /\ mounted = TRUE /\ active = NoSession
    /\ known = 0
    /\ store = [s \in Ids |-> <<>>]
    /\ streaming = FALSE /\ panel = NoPanel /\ streams = {}
    /\ lists = {TRUE} /\ loads = {}
    /\ log = [s \in Ids |-> <<>>]
    /\ asked = 0 /\ visits = 0 /\ down = 0

-----------------------------------------------------------------------------
(* Changing the session.                                                    *)

\* The effect's cleanup aborts the request; its handlers then touch no state.
Aborted(ts) == {[t EXCEPT !.aborted = TRUE] : t \in ts}
Dropped(ls) == {[l EXCEPT !.live = FALSE] : l \in ls}

\* The id changes under both effects: the turn is aborted, which leaves
\* isStreaming and what the turn has put on the page as they were, and the
\* history of the new session is asked for.
Activate(s) ==
    /\ active' = s
    /\ streams' = IF mounted /\ s # active THEN Aborted(streams) ELSE streams
    /\ loads' = IF mounted /\ s # active THEN Dropped(loads) \cup Loads(s) ELSE loads

\* The sidebar.
Select(s) ==
    /\ Visit
    /\ mounted /\ s \in {Sessions[i] : i \in 1 .. known} \ {active}
    /\ Activate(s)
    /\ UNCHANGED <<mounted, known, store, streaming, panel, lists, log, asked>>

\* createSession has come back, to a page that may be gone.
NewSession ==
    /\ Visit
    /\ known < Len(Sessions)
    /\ known' = known + 1
    /\ Activate(Sessions[known + 1])
    /\ UNCHANGED <<mounted, store, streaming, panel, lists, log, asked>>

\* listSessions has come back: the newest session is opened, or a first one
\* created.  The page that asked may have been left since.
ListArrives(live) ==
    /\ live \in lists
    /\ lists' = lists \ {live}
    /\ IF live /\ (known > 0 \/ Len(Sessions) > 0)
       THEN /\ known' = IF known = 0 THEN 1 ELSE known
            /\ Activate(Sessions[known'])
       ELSE UNCHANGED <<known, active, streams, loads>>
    /\ Calm
    /\ UNCHANGED <<mounted, store, streaming, panel, log, asked>>

ListFails(live) ==
    /\ Down
    /\ live \in lists
    /\ lists' = lists \ {live}
    /\ UNCHANGED <<mounted, active, known, store, streaming, panel, streams, loads, log,
                   asked>>

LoadAnswers(l) ==
    /\ ~l.came
    /\ loads' = (loads \ {l}) \cup {[l EXCEPT !.came = TRUE, !.history = log[l.session]]}
    /\ Calm
    /\ UNCHANGED <<mounted, active, known, store, streaming, panel, streams, lists, log,
                   asked>>

\* setMessages: the history takes the place of what the store has.
LoadArrives(l) ==
    /\ l.came
    /\ loads' = loads \ {l}
    /\ store' = IF l.live THEN [store EXCEPT ![l.session] = l.history] ELSE store
    /\ Calm
    /\ UNCHANGED <<mounted, active, known, streaming, panel, streams, lists, log, asked>>

Leave ==
    /\ Visit
    /\ mounted
    /\ mounted' = FALSE
    /\ streaming' = FALSE /\ panel' = NoPanel
    /\ streams' = Aborted(streams)
    /\ loads' = Dropped(loads)
    /\ lists' = IF lists = {} THEN {} ELSE {FALSE}
    /\ UNCHANGED <<active, known, store, log, asked>>

Return ==
    /\ ~mounted
    /\ mounted' = TRUE
    /\ loads' = loads \cup Loads(active)
    /\ lists' = lists \cup {TRUE}
    /\ Calm
    /\ UNCHANGED <<active, known, store, streaming, panel, streams, log, asked>>

-----------------------------------------------------------------------------
(* A turn.                                                                  *)

SendMessage ==
    /\ mounted /\ active # NoSession /\ ~streaming
    /\ asked < MaxAsked
    /\ asked' = asked + 1
    /\ streams' = Aborted(streams) \cup
                  {[n |-> asked + 1, session |-> active, at |-> "sent", aborted |-> FALSE]}
    /\ store' = [store EXCEPT ![active] = Append(@, <<"user", asked + 1>>)]
    /\ streaming' = TRUE /\ panel' = NoPanel
    /\ Calm
    /\ UNCHANGED <<mounted, active, known, lists, loads, log>>

\* A token or a tool's event is read; a reader that was aborted reads none.
PartArrives(t) ==
    /\ ~t.aborted
    /\ \E part \in {"text", "tools"} : panel' = [panel EXCEPT ![part] = t.session]
    /\ Calm
    /\ UNCHANGED <<mounted, active, known, store, streaming, streams, lists, loads, log,
                   asked>>

Advance(t, at) == streams' = (streams \ {t}) \cup {[t EXCEPT !.at = at]}

\* The server commits both messages of the turn; then its response ends.
TurnCommits(t) ==
    /\ t.at = "sent"
    /\ log' = [log EXCEPT ![t.session] = @ \o <<<<"user", t.n>>, <<"assistant", t.n>>>>]
    /\ Advance(t, "answered")
    /\ Calm
    /\ UNCHANGED <<mounted, active, known, store, streaming, panel, lists, loads, asked>>

\* The turn fails, or is cancelled with the request.
TurnFails(t) ==
    /\ Down
    /\ t.at = "sent"
    /\ Advance(t, "failed")
    /\ UNCHANGED <<mounted, active, known, store, streaming, panel, lists, loads, log,
                   asked>>

\* The composer is freed and the partial text gone; the chips stay, unshown.
Ended(t) ==
    /\ streaming' = IF t.aborted THEN streaming ELSE FALSE
    /\ panel' = IF t.aborted THEN panel
                ELSE [panel EXCEPT !.text = NoSession,
                                   !.error = IF t.at = "failed" THEN t.session ELSE @]

\* Mutant of StreamEnds: the answer goes to the session that is shown.
StreamEndsShown(t) ==
    /\ t.at # "sent"
    /\ streams' = streams \ {t}
    /\ store' = IF t.at = "answered" /\ active # NoSession
                THEN [store EXCEPT ![active] = Append(@, <<"assistant", t.n>>)]
                ELSE store
    /\ Ended(t)
    /\ Calm
    /\ UNCHANGED <<mounted, active, known, lists, loads, log, asked>>

\* The reader reaches the end: the answer is appended, or the error shown, and
\* the composer freed; a reader that was aborted does none of it.
StreamEnds(t) ==
    /\ t.at # "sent"
    /\ streams' = streams \ {t}
    /\ store' = IF t.at = "answered" /\ ~t.aborted
                THEN [store EXCEPT ![t.session] = Append(@, <<"assistant", t.n>>)]
                ELSE store
    /\ Ended(t)
    /\ Calm
    /\ UNCHANGED <<mounted, active, known, lists, loads, log, asked>>

TurnProgress(t) == TurnCommits(t) \/ StreamEnds(t)

ChatNext ==
    \/ \E s \in Ids : Select(s)
    \/ NewSession
    \/ \E live \in lists : ListArrives(live) \/ ListFails(live)
    \/ \E l \in loads : LoadAnswers(l) \/ LoadArrives(l)
    \/ Leave
    \/ Return
    \/ SendMessage
    \/ \E t \in streams : PartArrives(t) \/ TurnProgress(t) \/ TurnFails(t)

-----------------------------------------------------------------------------
(* Properties.                                                              *)

ChatTypeOK ==
    /\ mounted \in BOOLEAN /\ streaming \in BOOLEAN
    /\ active \in {NoSession} \cup {Sessions[i] : i \in 1 .. known}
    /\ streaming => mounted
    /\ \A t \in streams : t.session \in Ids /\ t.at \in {"sent", "answered", "failed"}

\* useChatStream.ts:26-28: a turn that still writes to the page's state was
\* started by the page and session shown, and there is at most one.
WriterIsShown ==
    \A t \in streams : ~t.aborted =>
        /\ mounted /\ t.session = active /\ streaming
        /\ \A u \in streams : ~u.aborted => u = t

\* Chat.tsx:110-131: while a turn is at work on the page, no text, chip or error
\* of another session stands on it.  What a turn leaves that a change of session
\* aborted does stay (useChatStream.ts:119-128 clears nothing), and so does an
\* error, until the next question or visit.
PartIsOfShown ==
    (\E t \in streams : ~t.aborted) =>
        {panel.text, panel.tools, panel.error} \subseteq {active, NoSession}

\* chatStore.ts:39-45: a session holds no message of another, neither in the
\* store nor where a late history or answer put it.
StaysInSession ==
    \A r, s \in Ids : r # s => ToSet(store[r]) \cap (ToSet(store[s]) \cup ToSet(log[s])) = {}

\* useChatStream.ts, Chat.tsx: streams and loads that end late, in any order,
\* write to their own session only, and to the page only while it shows that.
ChatInSession == ChatTypeOK /\ WriterIsShown /\ PartIsOfShown /\ StaysInSession
=============================================================================
