--------------------------- MODULE Browser_proofs ---------------------------
(***************************************************************************)
(* Theorems about the pages of module Browser, for every set of keys and   *)
(* sessions and every size of their buffers.                               *)
(***************************************************************************)
EXTENDS Browser, SequenceTheorems, TLAPS

-----------------------------------------------------------------------------
(* The chat page.  Each question was asked in one session, its home; what  *)
(* is stored, logged, loaded or streamed for a session is at home there.   *)

Messages == {"user", "assistant"} \X Nat
Logs == [Ids -> Seq(Messages)]

Turn == [n : Nat, session : Ids, at : {"sent", "answered", "failed"}, aborted : BOOLEAN]
Loading == [live : BOOLEAN, session : Ids, came : BOOLEAN, history : Seq(Messages)]

ChatShape ==
    /\ known \in 0 .. Len(Sessions)
    /\ store \in Logs /\ log \in Logs
    /\ asked \in Nat
    /\ streams \subseteq Turn
    /\ loads \subseteq Loading

AtHome(home, msgs, s) == \A m \in msgs : m[2] <= asked /\ home[m[2]] = s

LivesIn(home) ==
    /\ \A s \in Ids : AtHome(home, ToSet(store[s]), s) /\ AtHome(home, ToSet(log[s]), s)
    /\ \A l \in loads : AtHome(home, ToSet(l.history), l.session)
    /\ \A t \in streams : t.n <= asked /\ home[t.n] = t.session

Homes == [Nat -> Ids \cup {NoSession}]

OneHome == \E home \in Homes : LivesIn(home)

ChatInv == ChatShape /\ ChatTypeOK /\ WriterIsShown /\ OneHome

\* The ids the server has given out are sessions.
LEMMA KnownIds ==
    /\ Len(Sessions) \in Nat
    /\ \A i \in 1 .. Len(Sessions) : Sessions[i] \in Ids /\ Sessions[i] # NoSession
<1>1. Sessions \in Seq(Ids) /\ NoSession \notin Ids
  BY ChatPageAssumption DEF Ids
<1> QED BY <1>1, LenProperties, ElementOfSeq

\* What is appended to a log joins its messages.
LEMMA ToSetAppend ==
    ASSUME NEW S, NEW q \in Seq(S), NEW m \in S
    PROVE  /\ Append(q, m) \in Seq(S)
           /\ ToSet(Append(q, m)) = ToSet(q) \cup {m}
<1>1. /\ Append(q, m) \in Seq(S)
      /\ Len(Append(q, m)) = Len(q) + 1
      /\ \A i \in 1 .. Len(q) : Append(q, m)[i] = q[i]
      /\ Append(q, m)[Len(q) + 1] = m
  BY AppendProperties
<1>2. /\ Len(q) \in Nat /\ DOMAIN q = 1 .. Len(q)
      /\ DOMAIN Append(q, m) = 1 .. Len(q) + 1
  BY <1>1, LenProperties
<1>3. ToSet(Append(q, m)) \subseteq ToSet(q) \cup {m}
  <2> SUFFICES ASSUME NEW i \in 1 .. Len(q) + 1
               PROVE  Append(q, m)[i] \in ToSet(q) \cup {m}
    BY <1>2 DEF ToSet
  <2>1. CASE i \in 1 .. Len(q)
    BY <1>1, <1>2, <2>1 DEF ToSet
  <2>2. CASE i = Len(q) + 1
    BY <1>1, <2>2
  <2> QED BY <1>2, <2>1, <2>2
<1>4. ToSet(q) \subseteq ToSet(Append(q, m))
  <2> SUFFICES ASSUME NEW i \in 1 .. Len(q) PROVE q[i] \in ToSet(Append(q, m))
    BY <1>2 DEF ToSet
  <2>1. i \in DOMAIN Append(q, m) /\ Append(q, m)[i] = q[i]
    BY <1>1, <1>2
  <2> QED BY <2>1 DEF ToSet
<1>5. m \in ToSet(Append(q, m))
  BY <1>1, <1>2 DEF ToSet
<1> QED BY <1>1, <1>3, <1>4, <1>5

\* A turn adds its question and its answer.
LEMMA ToSetTurn ==
    ASSUME NEW S, NEW q \in Seq(S), NEW a \in S, NEW b \in S
    PROVE  /\ q \o <<a, b>> \in Seq(S)
           /\ ToSet(q \o <<a, b>>) = ToSet(q) \cup {a, b}
<1>1. q \o <<a, b>> = Append(Append(q, a), b)
  OBVIOUS
<1>2. Append(q, a) \in Seq(S) /\ ToSet(Append(q, a)) = ToSet(q) \cup {a}
  BY ToSetAppend
<1>3. /\ Append(Append(q, a), b) \in Seq(S)
      /\ ToSet(Append(Append(q, a), b)) = ToSet(Append(q, a)) \cup {b}
  <2> DEFINE r == Append(q, a)
  <2>1. r \in Seq(S)
    BY <1>2
  <2> HIDE DEF r
  <2>2. Append(r, b) \in Seq(S) /\ ToSet(Append(r, b)) = ToSet(r) \cup {b}
    BY <2>1, ToSetAppend
  <2> QED BY <2>2 DEF r
<1> QED BY <1>1, <1>2, <1>3

\* Aborting a turn and dropping a load change nothing but who may write.
LEMMA AbortedAndDropped ==
    ASSUME ChatShape
    PROVE  /\ \A t \in Aborted(streams) :
                 /\ t \in Turn /\ t.aborted
                 /\ \E u \in streams : t.n = u.n /\ t.session = u.session
           /\ \A l \in Dropped(loads) :
                 /\ l \in Loading
                 /\ \E k \in loads : l.session = k.session /\ l.history = k.history
<1>1. ASSUME NEW u \in Turn
      PROVE  LET t == [u EXCEPT !.aborted = TRUE]
             IN  t \in Turn /\ t.aborted /\ t.n = u.n /\ t.session = u.session
  BY DEF Turn
<1>2. ASSUME NEW k \in Loading
      PROVE  LET l == [k EXCEPT !.live = FALSE]
             IN  l \in Loading /\ l.session = k.session /\ l.history = k.history
  BY DEF Loading
<1>3. ASSUME NEW t \in Aborted(streams)
      PROVE  /\ t \in Turn /\ t.aborted
             /\ \E u \in streams : t.n = u.n /\ t.session = u.session
  <2>1. PICK u \in streams : t = [u EXCEPT !.aborted = TRUE]
    BY <1>3 DEF Aborted
  <2>2. u \in Turn
    BY DEF ChatShape
  <2> QED BY <1>1, <2>1, <2>2
<1>4. ASSUME NEW l \in Dropped(loads)
      PROVE  /\ l \in Loading
             /\ \E k \in loads : l.session = k.session /\ l.history = k.history
  <2>1. PICK k \in loads : l = [k EXCEPT !.live = FALSE]
    BY <1>4 DEF Dropped
  <2>2. k \in Loading
    BY DEF ChatShape
  <2> QED BY <1>2, <2>1, <2>2
<1> QED BY <1>3, <1>4

\* What is at home stays there while no question is asked: a step only moves
\* messages between the places of one session.
LEMMA HomeKept ==
    ASSUME NEW home \in Homes, LivesIn(home), asked' = asked,
           \A s \in Ids : /\ AtHome(home, ToSet(store'[s]), s)
                         /\ AtHome(home, ToSet(log'[s]), s),
           \A l \in loads' : \/ \E k \in loads : l.session = k.session /\ l.history = k.history
                            \/ AtHome(home, ToSet(l.history), l.session),
           \A t \in streams' : \E u \in streams : t.n = u.n /\ t.session = u.session
    PROVE  OneHome'
<1>1. \A l \in loads' : AtHome(home, ToSet(l.history), l.session)
  BY DEF LivesIn
<1>2. \A t \in streams' : t.n <= asked /\ home[t.n] = t.session
  BY DEF LivesIn
<1>3. LivesIn(home)'
  BY <1>1, <1>2 DEF LivesIn, AtHome
<1> QED BY <1>3 DEF OneHome

\* An effect that activates a session aborts the turn of the one before.
LEMMA Activated ==
    ASSUME ChatInv, NEW s, s \in Ids, Activate(s),
           known' \in 0 .. Len(Sessions), known <= known', 
           \E i \in 1 .. known' : Sessions[i] = s,
           UNCHANGED <<mounted, store, streaming, log, asked>>
    PROVE  ChatInv'
<1>1. ChatShape /\ ChatTypeOK /\ WriterIsShown
  BY DEF ChatInv
<1>2. PICK home \in Homes : LivesIn(home)
  BY DEF ChatInv, OneHome
<1>3. /\ active' = s
      /\ streams' \in {Aborted(streams), streams}
      /\ loads' \in {Dropped(loads) \cup Loads(s), loads}
      /\ s # active /\ mounted => streams' = Aborted(streams)
      /\ ~(s # active /\ mounted) => streams' = streams
  BY DEF Activate
<1>4. /\ \A t \in streams' :
            /\ t \in Turn /\ (t \in streams \/ t.aborted)
            /\ \E u \in streams : t.n = u.n /\ t.session = u.session
      /\ \A l \in Dropped(loads) :
            /\ l \in Loading
            /\ \E k \in loads : l.session = k.session /\ l.history = k.history
  BY <1>1, <1>3, AbortedAndDropped DEF ChatShape
<1>5. \A l \in Loads(s) : l \in Loading /\ l.history = <<>> /\ l.session = s
  <2>1. Loads(s) \subseteq {Load(s)}
    BY DEF Loads
  <2>2. Load(s) \in Loading /\ Load(s).history = <<>> /\ Load(s).session = s
    BY EmptySeq DEF Load, Loading
  <2> QED BY <2>1, <2>2
<1>6. ChatShape'
  BY <1>1, <1>3, <1>4, <1>5 DEF ChatShape, Logs
<1>7. ChatTypeOK'
  BY <1>1, <1>3, <1>4 DEF ChatTypeOK, Turn
<1>8. WriterIsShown'
  <2>1. CASE s # active /\ mounted
    <3>1. \A t \in streams' : t.aborted
      BY <1>1, <1>3, <2>1, AbortedAndDropped
    <3> QED BY <3>1 DEF WriterIsShown
  <2>2. CASE ~(s # active /\ mounted)
    <3>1. streams' = streams /\ (s = active \/ ~mounted)
      BY <1>3, <2>2
    <3> QED BY <1>1, <1>3, <3>1 DEF WriterIsShown
  <2> QED BY <2>1, <2>2
<1>9. OneHome'
  <2>1. \A l \in Loads(s) : AtHome(home, ToSet(l.history), l.session)
    BY <1>5 DEF AtHome, ToSet
  <2>2. \A r \in Ids : /\ AtHome(home, ToSet(store'[r]), r)
                      /\ AtHome(home, ToSet(log'[r]), r)
    BY <1>2 DEF LivesIn
  <2> QED BY <1>2, <1>3, <1>4, <2>1, <2>2, HomeKept
<1> QED BY <1>6, <1>7, <1>8, <1>9 DEF ChatInv

\* Every step of the chat page keeps its turns, loads and logs at home.
LEMMA ChatStep == ChatInv /\ [ChatNext]_cvars => ChatInv'
<1> SUFFICES ASSUME ChatInv, [ChatNext]_cvars PROVE ChatInv'
  OBVIOUS
<1>0. ChatShape /\ ChatTypeOK /\ WriterIsShown
  BY DEF ChatInv
<1>1. PICK home \in Homes : LivesIn(home)
  BY DEF ChatInv, OneHome
<1>2. /\ \A s \in Ids : /\ AtHome(home, ToSet(store[s]), s)
                       /\ AtHome(home, ToSet(log[s]), s)
                       /\ store[s] \in Seq(Messages) /\ log[s] \in Seq(Messages)
      /\ \A l \in loads : /\ l \in Loading
                          /\ AtHome(home, ToSet(l.history), l.session)
      /\ \A t \in streams : t \in Turn /\ t.n <= asked /\ home[t.n] = t.session
  BY <1>0, <1>1 DEF LivesIn, ChatShape, Logs
<1>3. ASSUME UNCHANGED <<store, log, asked>>,
             \A l \in loads' : /\ l \in Loading
                              /\ \E k \in loads : l.session = k.session /\ l.history = k.history,
             \A t \in streams' : /\ t \in Turn
                                /\ \E u \in streams : t.n = u.n /\ t.session = u.session,
             UNCHANGED known
      PROVE  ChatShape' /\ OneHome'
  <2>1. ChatShape'
    BY <1>0, <1>3 DEF ChatShape
  <2>2. \A r \in Ids : /\ AtHome(home, ToSet(store'[r]), r)
                      /\ AtHome(home, ToSet(log'[r]), r)
    BY <1>2, <1>3
  <2> QED BY <1>1, <1>3, <2>1, <2>2, HomeKept
<1>4. ASSUME NEW s \in Ids, Select(s) PROVE ChatInv'
  <2>1. /\ \E i \in 1 .. known : Sessions[i] = s
        /\ Activate(s) /\ UNCHANGED <<mounted, known, store, streaming, log, asked>>
    BY <1>4 DEF Select
  <2> QED BY <1>0, <2>1, KnownIds, Activated DEF ChatShape
<1>5. CASE NewSession
  <2>1. /\ known < Len(Sessions) /\ known' = known + 1
        /\ Activate(Sessions[known + 1])
        /\ UNCHANGED <<mounted, store, streaming, log, asked>>
    BY <1>5 DEF NewSession
  <2>2. known + 1 \in 1 .. Len(Sessions) /\ known' \in 0 .. Len(Sessions) /\ known <= known'
    BY <1>0, <2>1, KnownIds DEF ChatShape
  <2>3. Sessions[known + 1] \in Ids /\ \E i \in 1 .. known' : Sessions[i] = Sessions[known + 1]
    BY <2>1, <2>2, KnownIds
  <2> QED BY <2>1, <2>2, <2>3, Activated
<1>6. ASSUME NEW live \in lists, ListArrives(live) PROVE ChatInv'
  <2>1. CASE live /\ (known > 0 \/ Len(Sessions) > 0)
    <3>1. /\ known' = IF known = 0 THEN 1 ELSE known
          /\ Activate(Sessions[known'])
          /\ UNCHANGED <<mounted, store, streaming, log, asked>>
      BY <1>6, <2>1 DEF ListArrives
    <3>2. known' \in 1 .. Len(Sessions) /\ known <= known'
      BY <1>0, <2>1, <3>1, KnownIds DEF ChatShape
    <3>3. Sessions[known'] \in Ids /\ \E i \in 1 .. known' : Sessions[i] = Sessions[known']
      BY <3>2, KnownIds
    <3>4. known' \in 0 .. Len(Sessions)
      BY <3>2, KnownIds
    <3> QED BY <3>1, <3>2, <3>3, <3>4, Activated
  <2>2. CASE ~(live /\ (known > 0 \/ Len(Sessions) > 0))
    <3>1. UNCHANGED <<mounted, active, known, store, streaming, streams, loads, log, asked>>
      BY <1>6, <2>2 DEF ListArrives
    <3>2. ChatTypeOK' /\ WriterIsShown'
      BY <1>0, <3>1 DEF ChatTypeOK, WriterIsShown
    <3> QED BY <1>2, <1>3, <3>1, <3>2 DEF ChatInv
  <2> QED BY <2>1, <2>2
<1>7. CASE \/ \E live \in lists : ListFails(live)
           \/ \E t \in streams : PartArrives(t)
           \/ UNCHANGED cvars
  <2>1. UNCHANGED <<mounted, active, known, store, streaming, streams, loads, log, asked>>
    BY <1>7 DEF ListFails, PartArrives, cvars
  <2>2. ChatTypeOK' /\ WriterIsShown'
    BY <1>0, <2>1 DEF ChatTypeOK, WriterIsShown
  <2> QED BY <1>2, <1>3, <2>1, <2>2 DEF ChatInv
<1>8. ASSUME NEW l \in loads, LoadAnswers(l) PROVE ChatInv'
  <2> DEFINE k == [l EXCEPT !.came = TRUE, !.history = log[l.session]]
  <2>1. loads' = (loads \ {l}) \cup {k}
    BY <1>8 DEF LoadAnswers
  <2>2. UNCHANGED <<mounted, active, known, store, streaming, streams, log, asked>>
    BY <1>8 DEF LoadAnswers
  <2>3. l \in Loading /\ l.session \in Ids
    BY <1>2 DEF Loading
  <2>4. k \in Loading /\ k.session = l.session /\ k.history = log[l.session]
    BY <1>2, <2>3 DEF Loading
  <2> HIDE DEF k
  <2>5. AtHome(home, ToSet(k.history), k.session)
    BY <1>2, <2>3, <2>4
  <2>6. ChatTypeOK' /\ WriterIsShown'
    BY <1>0, <2>2 DEF ChatTypeOK, WriterIsShown
  <2>7. ChatShape'
    BY <1>0, <2>1, <2>2, <2>4 DEF ChatShape
  <2>8. \A r \in Ids : /\ AtHome(home, ToSet(store'[r]), r)
                      /\ AtHome(home, ToSet(log'[r]), r)
    BY <1>2, <2>2
  <2>9. OneHome'
    BY <1>1, <2>1, <2>2, <2>5, <2>8, HomeKept
  <2> QED BY <2>6, <2>7, <2>9 DEF ChatInv
<1>9. ASSUME NEW l \in loads, LoadArrives(l) PROVE ChatInv'
  <2>1. /\ loads' = loads \ {l}
        /\ store' = IF l.live THEN [store EXCEPT ![l.session] = l.history] ELSE store
        /\ UNCHANGED <<mounted, active, known, streaming, streams, log, asked>>
    BY <1>9 DEF LoadArrives
  <2>2. l.session \in Ids /\ l.history \in Seq(Messages)
    BY <1>2 DEF Loading
  <2>3. ChatTypeOK' /\ WriterIsShown'
    BY <1>0, <2>1 DEF ChatTypeOK, WriterIsShown
  <2>4. ChatShape'
    BY <1>0, <2>1, <2>2 DEF ChatShape, Logs
  <2>5. \A r \in Ids : store'[r] = store[r] \/ (r = l.session /\ store'[r] = l.history)
    BY <1>0, <2>1, <2>2 DEF ChatShape, Logs
  <2>6. \A r \in Ids : /\ AtHome(home, ToSet(store'[r]), r)
                      /\ AtHome(home, ToSet(log'[r]), r)
    BY <1>2, <2>1, <2>5
  <2>7. OneHome'
    BY <1>1, <2>1, <2>6, HomeKept
  <2> QED BY <2>3, <2>4, <2>7 DEF ChatInv
<1>10. CASE Leave
  <2>1. /\ mounted' = FALSE /\ streaming' = FALSE
        /\ streams' = Aborted(streams) /\ loads' = Dropped(loads)
        /\ UNCHANGED <<active, known, store, log, asked>>
    BY <1>10 DEF Leave
  <2>2. ChatShape' /\ OneHome'
    BY <1>0, <1>3, <2>1, AbortedAndDropped
  <2>3. \A t \in streams' : t.aborted /\ t \in Turn
    BY <1>0, <2>1, AbortedAndDropped
  <2>4. ChatTypeOK' /\ WriterIsShown'
    BY <1>0, <2>1, <2>3 DEF ChatTypeOK, WriterIsShown, Turn
  <2> QED BY <2>2, <2>4 DEF ChatInv
<1>11. CASE Return
  <2>1. /\ ~mounted /\ mounted' = TRUE /\ loads' = loads \cup Loads(active)
        /\ UNCHANGED <<active, known, store, streaming, streams, log, asked>>
    BY <1>11 DEF Return
  <2>2. \A l \in Loads(active) : l \in Loading /\ l.history = <<>>
    <3>1. active # NoSession => active \in Ids
      BY <1>0, KnownIds DEF ChatTypeOK, ChatShape
    <3>2. active \in Ids => Load(active) \in Loading /\ Load(active).history = <<>>
      BY EmptySeq DEF Load, Loading
    <3> QED BY <3>1, <3>2 DEF Loads
  <2>3. ChatShape'
    BY <1>0, <2>1, <2>2 DEF ChatShape
  <2>4. ChatTypeOK' /\ WriterIsShown'
    BY <1>0, <2>1 DEF ChatTypeOK, WriterIsShown
  <2>5. \A l \in Loads(active) : AtHome(home, ToSet(l.history), l.session)
    BY <2>2 DEF AtHome, ToSet
  <2>6. \A r \in Ids : /\ AtHome(home, ToSet(store'[r]), r)
                      /\ AtHome(home, ToSet(log'[r]), r)
    BY <1>2, <2>1
  <2>7. OneHome'
    BY <1>1, <2>1, <2>5, <2>6, HomeKept
  <2> QED BY <2>3, <2>4, <2>7 DEF ChatInv
<1>12. CASE SendMessage
  <2> DEFINE new == [n |-> asked + 1, session |-> active, at |-> "sent", aborted |-> FALSE]
             ask == <<"user", asked + 1>>
             there == [home EXCEPT ![asked + 1] = active]
  <2>1. /\ mounted /\ active # NoSession /\ asked' = asked + 1
        /\ streams' = Aborted(streams) \cup {new}
        /\ store' = [store EXCEPT ![active] = Append(@, ask)]
        /\ streaming' = TRUE
        /\ UNCHANGED <<mounted, active, known, loads, log>>
    BY <1>12 DEF SendMessage
  <2>2. active \in Ids /\ asked \in Nat
    BY <1>0, <2>1, KnownIds DEF ChatTypeOK, ChatShape
  <2>3. /\ new \in Turn /\ ~new.aborted /\ new.session = active /\ new.n = asked + 1
        /\ ask \in Messages /\ ask[2] = asked + 1
    BY <2>2 DEF Turn, Messages
  <2>4. /\ there \in Homes /\ there[asked + 1] = active
        /\ \A n \in Nat : n <= asked => there[n] = home[n]
    BY <2>2 DEF Homes
  <2> HIDE DEF new, ask, there
  <2>5. /\ Append(store[active], ask) \in Seq(Messages)
        /\ ToSet(Append(store[active], ask)) = ToSet(store[active]) \cup {ask}
    BY <1>2, <2>2, <2>3, ToSetAppend
  <2>6. /\ store'[active] = Append(store[active], ask)
        /\ \A r \in Ids : r # active => store'[r] = store[r]
        /\ store' \in Logs
    BY <1>0, <2>1, <2>2, <2>5 DEF ChatShape, Logs
  <2>7. \A t \in Aborted(streams) :
           /\ t \in Turn /\ t.aborted
           /\ \E u \in streams : t.n = u.n /\ t.session = u.session
    BY <1>0, AbortedAndDropped
  <2>8. ChatShape'
    BY <1>0, <2>1, <2>2, <2>3, <2>6, <2>7 DEF ChatShape
  <2>9. ChatTypeOK'
    BY <1>0, <2>1, <2>2, <2>3, <2>7 DEF ChatTypeOK, Turn
  <2>10. WriterIsShown'
    BY <2>1, <2>3, <2>7 DEF WriterIsShown
  <2>11. PICK next \in Homes : next = there
    BY <2>4
  <2>12. ASSUME NEW s \in Ids, NEW q \in Seq(Messages), AtHome(home, ToSet(q), s)
         PROVE  \A m \in ToSet(q) : m[2] <= asked' /\ next[m[2]] = s
    <3>1. \A m \in ToSet(q) : m[2] \in Nat /\ m[2] <= asked /\ home[m[2]] = s
      BY <2>12, ElementOfSeq, LenProperties DEF AtHome, ToSet, Messages
    <3>2. \A m \in ToSet(q) : m[2] <= asked + 1 /\ there[m[2]] = s
      BY <2>2, <2>4, <3>1
    <3> QED BY <2>1, <2>11, <3>2
  <2>13. ASSUME NEW s \in Ids
         PROVE  \A m \in ToSet(store'[s]) : m[2] <= asked' /\ next[m[2]] = s
    <3>1. \A m \in ToSet(store[s]) : m[2] <= asked' /\ next[m[2]] = s
      BY <1>2, <2>12
    <3>2. CASE s # active
      BY <2>6, <3>1, <3>2
    <3>3. CASE s = active
      <4>1. ToSet(store'[s]) = ToSet(store[s]) \cup {ask}
        BY <2>5, <2>6, <3>3
      <4>2. ask[2] <= asked' /\ next[ask[2]] = s
        BY <2>1, <2>2, <2>3, <2>4, <2>11, <3>3
      <4> QED BY <3>1, <4>1, <4>2
    <3> QED BY <3>2, <3>3
  <2>14. /\ \A s \in Ids : \A m \in ToSet(log[s]) : m[2] <= asked' /\ next[m[2]] = s
         /\ \A l \in loads : \A m \in ToSet(l.history) :
               m[2] <= asked' /\ next[m[2]] = l.session
    <3>1. \A l \in loads : l.session \in Ids /\ l.history \in Seq(Messages)
      BY <1>2 DEF Loading
    <3> QED BY <1>2, <2>12, <3>1
  <2>15. \A t \in streams' : t.n <= asked' /\ next[t.n] = t.session
    <3>1. \A u \in streams : u.n \in Nat /\ u.n <= asked /\ home[u.n] = u.session
      BY <1>2 DEF Turn
    <3>2. \A u \in streams : u.n <= asked + 1 /\ there[u.n] = u.session
      BY <2>2, <2>4, <3>1
    <3>3. new.n <= asked + 1 /\ there[new.n] = new.session
      BY <2>2, <2>3, <2>4
    <3> QED BY <2>1, <2>7, <2>11, <3>2, <3>3
  <2>16. LivesIn(next)'
    BY <2>1, <2>13, <2>14, <2>15 DEF LivesIn, AtHome
  <2>17. OneHome'
    BY <2>16 DEF OneHome
  <2> QED BY <2>8, <2>9, <2>10, <2>17 DEF ChatInv
<1>13. ASSUME NEW t \in streams, NEW at \in {"answered", "failed"}, Advance(t, at),
              UNCHANGED <<mounted, active, known, store, streaming, loads, asked>>,
              \/ UNCHANGED log
              \/ log' = [log EXCEPT ![t.session] =
                            @ \o <<<<"user", t.n>>, <<"assistant", t.n>>>>]
       PROVE  ChatInv'
  <2> DEFINE u == [t EXCEPT !.at = at]
             a == <<"user", t.n>>
             b == <<"assistant", t.n>>
  <2>1. streams' = (streams \ {t}) \cup {u}
    BY <1>13 DEF Advance
  <2>2. t \in Turn
    BY <1>2
  <2>3. u \in Turn /\ u.n = t.n /\ u.session = t.session /\ u.aborted = t.aborted
    BY <2>2 DEF Turn
  <2>4. /\ a \in Messages /\ b \in Messages /\ a[2] = t.n /\ b[2] = t.n
        /\ t.session \in Ids
    BY <2>2 DEF Turn, Messages
  <2>5. log' = log \/ log' = [log EXCEPT ![t.session] = @ \o <<a, b>>]
    BY <1>13
  <2> HIDE DEF u, a, b
  <2>6. /\ log[t.session] \o <<a, b>> \in Seq(Messages)
        /\ ToSet(log[t.session] \o <<a, b>>) = ToSet(log[t.session]) \cup {a, b}
    BY <1>2, <2>4, ToSetTurn
  <2>7. /\ log' \in Logs
        /\ \A s \in Ids : \/ log'[s] = log[s]
                          \/ s = t.session /\ log'[s] = log[s] \o <<a, b>>
    BY <1>0, <2>4, <2>5, <2>6 DEF ChatShape, Logs
  <2>8. ASSUME NEW s \in Ids PROVE AtHome(home, ToSet(log'[s]), s)
    <3>1. CASE log'[s] = log[s]
      BY <1>2, <3>1
    <3>2. CASE s = t.session /\ log'[s] = log[s] \o <<a, b>>
      <4>1. ToSet(log'[s]) = ToSet(log[s]) \cup {a, b}
        BY <2>6, <3>2
      <4>2. a[2] <= asked /\ b[2] <= asked /\ home[a[2]] = s /\ home[b[2]] = s
        BY <1>2, <2>4, <3>2
      <4> QED BY <1>2, <4>1, <4>2 DEF AtHome
    <3> QED BY <2>7, <3>1, <3>2
  <2>9. ChatShape'
    BY <1>0, <1>13, <2>1, <2>3, <2>7 DEF ChatShape
  <2>10. ChatTypeOK'
    BY <1>0, <1>13, <2>1, <2>3 DEF ChatTypeOK, Turn
  <2>11. WriterIsShown'
    BY <1>0, <1>13, <2>1, <2>3 DEF WriterIsShown
  <2>12. OneHome'
    BY <1>1, <1>2, <1>13, <2>1, <2>3, <2>8, HomeKept
  <2> QED BY <2>9, <2>10, <2>11, <2>12 DEF ChatInv
<1>14. ASSUME NEW t \in streams, StreamEnds(t) PROVE ChatInv'
  <2> DEFINE b == <<"assistant", t.n>>
  <2>1. /\ streams' = streams \ {t}
        /\ streaming' = IF t.aborted THEN streaming ELSE FALSE
        /\ UNCHANGED <<mounted, active, known, loads, log, asked>>
        /\ store' = store \/ store' = [store EXCEPT ![t.session] = Append(@, b)]
    BY <1>14 DEF StreamEnds, Ended
  <2>2. b \in Messages /\ b[2] = t.n /\ t.session \in Ids /\ t.aborted \in BOOLEAN
    BY <1>2 DEF Turn, Messages
  <2> HIDE DEF b
  <2>3. /\ Append(store[t.session], b) \in Seq(Messages)
        /\ ToSet(Append(store[t.session], b)) = ToSet(store[t.session]) \cup {b}
    BY <1>2, <2>2, ToSetAppend
  <2>4. /\ store' \in Logs
        /\ \A s \in Ids : \/ store'[s] = store[s]
                          \/ s = t.session /\ store'[s] = Append(store[s], b)
    BY <1>0, <2>1, <2>2, <2>3 DEF ChatShape, Logs
  <2>5. ASSUME NEW s \in Ids PROVE AtHome(home, ToSet(store'[s]), s)
    <3>1. CASE store'[s] = store[s]
      BY <1>2, <3>1
    <3>2. CASE s = t.session /\ store'[s] = Append(store[s], b)
      <4>1. ToSet(store'[s]) = ToSet(store[s]) \cup {b}
        BY <2>3, <3>2
      <4>2. b[2] <= asked /\ home[b[2]] = s
        BY <1>2, <2>2, <3>2
      <4> QED BY <1>2, <4>1, <4>2 DEF AtHome
    <3> QED BY <2>4, <3>1, <3>2
  <2>6. ChatShape'
    BY <1>0, <2>1, <2>4 DEF ChatShape
  <2>7. ChatTypeOK'
    BY <1>0, <2>1 DEF ChatTypeOK
  <2>8. WriterIsShown'
    BY <1>0, <2>1, <2>2 DEF WriterIsShown
  <2>9. \A r \in Ids : AtHome(home, ToSet(log'[r]), r)
    BY <1>2, <2>1
  <2>10. OneHome'
    BY <1>1, <2>1, <2>5, <2>9, HomeKept
  <2> QED BY <2>6, <2>7, <2>8, <2>10 DEF ChatInv
<1>15. ASSUME NEW t \in streams, TurnCommits(t) \/ TurnFails(t) PROVE ChatInv'
  BY <1>13, <1>15 DEF TurnCommits, TurnFails
<1> QED BY <1>4, <1>5, <1>6, <1>7, <1>8, <1>9, <1>10, <1>11, <1>12, <1>14, <1>15
        DEF ChatNext, TurnProgress

\* A step of a page with a turn at work puts no part of another session on it.
Panels == [text : Ids \cup {NoSession}, tools : Ids \cup {NoSession},
           error : Ids \cup {NoSession}]
PartInv == panel \in Panels /\ PartIsOfShown

LEMMA PartStep ==
    ASSUME ChatShape, WriterIsShown, PartInv, [ChatNext]_cvars
    PROVE  PartInv'
<1>0. panel \in Panels
  BY DEF PartInv
<1>1. ASSUME panel' = panel, active' = active,
             \A t \in streams' : t.aborted \/ \E u \in streams : ~u.aborted
      PROVE  PartInv'
  BY <1>1 DEF PartInv, PartIsOfShown
<1>2. ASSUME panel' \in Panels, \A t \in streams' : t.aborted PROVE PartInv'
  BY <1>2 DEF PartInv, PartIsOfShown
<1>3. \A t \in Aborted(streams) : t.aborted
  BY AbortedAndDropped
<1>4. ASSUME NEW s, Activate(s), UNCHANGED <<panel, mounted>> PROVE PartInv'
  <2>1. CASE mounted /\ s # active
    BY <1>0, <1>2, <1>3, <1>4, <2>1 DEF Activate
  <2>2. CASE s = active
    BY <1>1, <1>4, <2>2 DEF Activate
  <2>3. CASE ~mounted
    BY <1>0, <1>2, <1>4, <2>3 DEF Activate, WriterIsShown
  <2> QED BY <2>1, <2>2, <2>3
<1>5. CASE (\E s \in Ids : Select(s)) \/ NewSession
  BY <1>4, <1>5 DEF Select, NewSession
<1>6. ASSUME NEW live \in lists, ListArrives(live) PROVE PartInv'
  BY <1>1, <1>4, <1>6 DEF ListArrives
<1>7. CASE \/ \E live \in lists : ListFails(live)
           \/ \E l \in loads : LoadAnswers(l) \/ LoadArrives(l)
           \/ Return \/ UNCHANGED cvars
  BY <1>1, <1>7 DEF ListFails, LoadAnswers, LoadArrives, Return, cvars
<1>8. CASE Leave
  BY <1>2, <1>3, <1>8 DEF Leave, NoPanel, Panels
<1>9. CASE SendMessage
  BY <1>9 DEF SendMessage, PartInv, PartIsOfShown, NoPanel, Panels
<1>10. ASSUME NEW t \in streams, PartArrives(t) PROVE PartInv'
  <2>1. ~t.aborted /\ t.session = active /\ active' = active /\ streams' = streams
    BY <1>10 DEF PartArrives, WriterIsShown
  <2>2. {panel.text, panel.tools, panel.error} \subseteq {active, NoSession}
    BY <2>1 DEF PartInv, PartIsOfShown
  <2>3. \/ panel' = [panel EXCEPT !["text"] = t.session]
        \/ panel' = [panel EXCEPT !["tools"] = t.session]
    BY <1>10 DEF PartArrives
  <2>4. t.session \in Ids
    BY DEF ChatShape, Turn
  <2>5. /\ panel' \in Panels /\ panel'.text \in {panel.text, t.session}
        /\ panel'.tools \in {panel.tools, t.session} /\ panel'.error = panel.error
    BY <1>0, <2>3, <2>4 DEF Panels
  <2> QED BY <2>1, <2>2, <2>5 DEF PartInv, PartIsOfShown
<1>11. ASSUME NEW t \in streams, NEW at, Advance(t, at), UNCHANGED <<panel, active>>
       PROVE  PartInv'
  <2>1. t \in Turn
    BY DEF ChatShape
  <2>2. [t EXCEPT !.at = at].aborted = t.aborted
    BY <2>1 DEF Turn
  <2> QED BY <1>1, <1>11, <2>2 DEF Advance
<1>12. ASSUME NEW t \in streams, StreamEnds(t) PROVE PartInv'
  <2>1. CASE t.aborted
    BY <1>1, <1>12, <2>1 DEF StreamEnds, Ended
  <2>2. CASE ~t.aborted
    <3>1. \A u \in streams' : u.aborted
      BY <1>12, <2>2 DEF StreamEnds, WriterIsShown
    <3>2. t.session \in Ids /\ panel.error \in Ids \cup {NoSession}
      BY <1>0 DEF ChatShape, Turn, Panels
    <3>3. PICK e \in Ids \cup {NoSession} :
             panel' = [panel EXCEPT !.text = NoSession, !.error = e]
      BY <1>12, <2>2, <3>2 DEF StreamEnds, Ended
    <3>4. panel' \in Panels
      BY <1>0, <3>3 DEF Panels
    <3> QED BY <1>2, <3>1, <3>4
  <2> QED BY <2>1, <2>2
<1> QED BY <1>5, <1>6, <1>7, <1>8, <1>9, <1>10, <1>11, <1>12
        DEF ChatNext, TurnProgress, TurnCommits, TurnFails

\* On the chat page, turns and histories that end late, in any order and after
\* any change of session or visit, write only to the session they were asked in,
\* and to the page only while it shows that (useChatStream.ts, chatStore.ts:39-45).
THEOREM ChatStaysInSession == Spec => []ChatInSession
<1>1. Init => ChatInv
  <2> SUFFICES ASSUME ChatInit PROVE ChatInv
    BY DEF Init
  <2>1. ChatShape
    BY KnownIds, EmptySeq DEF ChatInit, ChatShape, Logs
  <2>2. ChatTypeOK /\ WriterIsShown
    BY DEF ChatInit, ChatTypeOK, WriterIsShown
  <2>3. [n \in Nat |-> NoSession] \in Homes
    BY DEF Homes
  <2>4. LivesIn([n \in Nat |-> NoSession])
    BY DEF ChatInit, LivesIn, AtHome, ToSet
  <2> QED BY <2>1, <2>2, <2>3, <2>4 DEF ChatInv, OneHome
<1>2. Init => PartInv
  BY DEF Init, ChatInit, PartInv, PartIsOfShown, NoPanel, Panels
<1>3. ChatInv /\ PartInv /\ [Next]_vars => ChatInv' /\ PartInv'
  <2>1. [Next]_vars => [ChatNext]_cvars
    BY DEF Next, Live, Chat, vars
  <2> QED BY <2>1, ChatStep, PartStep DEF ChatInv
<1>4. ChatInv /\ PartInv => ChatInSession
  <2> SUFFICES ASSUME ChatInv, NEW r \in Ids, NEW s \in Ids, r # s
               PROVE  ToSet(store[r]) \cap (ToSet(store[s]) \cup ToSet(log[s])) = {}
    BY DEF ChatInSession, StaysInSession, ChatInv, PartInv
  <2>1. PICK home \in Homes : LivesIn(home)
    BY DEF ChatInv, OneHome
  <2> QED BY <2>1 DEF LivesIn, AtHome
<1> QED BY <1>1, <1>2, <1>3, <1>4, PTL DEF Spec
-----------------------------------------------------------------------------
(* The live view.  A page of key k shows items of k: candles one to a bar, *)
(* hits as its memory of them has them, signals each once.                 *)

Of(k) == [key : {k}, id : Nat \ {0}]
Nothing == Item(NoKey, 0)

Socks(k) == [phase : {"none", "connecting", "waiting", "open"},
             asked : {k, NoKey}, chan : {k, NoKey}, fed : BOOLEAN, died : BOOLEAN,
             pipe : Seq(Of(k))]

Fetches == [live : BOOLEAN, key : Keys, day : Nat, came : BOOLEAN, got : [Keys -> Nat],
            row : BOOLEAN]

Pages(k) == [series : SUBSET Of(k), list : Seq(Of(k)), seen : Seq(Of(k)),
             last : Of(k) \cup {Nothing}, open : Of(k) \cup {Nothing},
             day : Nat \cup {-1}]

OnePerBar(s) == \A a, b \in s.series : Bar(a.id) = Bar(b.id) => a = b

BaselineOfDay(s) == s.day # -1 \/ s.open.key # NoKey => Day(s.open.id) = s.day

\* The change shown after a candle is measured as ChangeWithinDay has it.
WithinDay(s, r) ==
    r.last # s.last /\ r.last.key # NoKey =>
        /\ Day(r.open.id) = Day(r.last.id)
        /\ s.open.key # NoKey /\ Day(s.open.id) = Day(r.last.id) => r.open = s.open

\* The list is the newest end of the memory, newest first.
Remembered(s) ==
    /\ IsInjective(s.seen) /\ Len(s.seen) <= SeenCap
    /\ Len(s.list) = (IF Len(s.seen) < MaxHits THEN Len(s.seen) ELSE MaxHits)
    /\ \A i \in 1 .. Len(s.list) : s.list[i] = s.seen[Len(s.seen) + 1 - i]

Listed(s) == IsInjective(s.list) /\ Len(s.list) <= MaxLive

Sound(v, s) ==
    /\ OnePerBar(s)
    /\ BaselineOfDay(s)
    /\ IF v = "hits" THEN Remembered(s) ELSE Listed(s)

LiveShape ==
    /\ view \in Views /\ key \in Keys
    /\ status \in {"connecting", "open", "closed", "crashed"}
    /\ sock \in Socks(key)
    /\ \A f \in fetches : f \in Fetches /\ (f.live => f.key = key)
    /\ cache \in [Keys -> Nat]
    /\ shown \in Pages(key)
    /\ db \in [Keys -> 0 .. MaxItems]

LiveInv == LiveShape /\ LiveOnShownKey /\ Sound(view, shown)

\* The days of items.
LEMMA Days ==
    /\ \A i \in Nat \ {0} : Day(i) \in Nat
    /\ \A d \in Nat : d * PerDay + 1 \in Nat \ {0} /\ Day(d * PerDay + 1) = d
    /\ \A n \in Nat : n \div PerDay \in Nat
<1>1. PerDay \in Nat \ {0}
  BY LiveViewAssumption
<1>2. \A n \in Nat, p \in Nat \ {0} : n \div p \in Nat
  OBVIOUS
<1>3. \A d \in Nat, p \in Nat \ {0} : d * p \in Nat /\ (d * p) \div p = d
  OBVIOUS
<1>4. \A d \in Nat : d * PerDay \in Nat /\ (d * PerDay) \div PerDay = d
  BY <1>1, <1>3
<1>5. \A d \in Nat : d * PerDay + 1 \in Nat \ {0} /\ (d * PerDay + 1) - 1 = d * PerDay
  BY <1>4
<1>6. \A i \in Nat \ {0} : i - 1 \in Nat
  OBVIOUS
<1> QED BY <1>1, <1>2, <1>4, <1>5, <1>6 DEF Day

\* A list with a new item in front, cut to n.
InFront(q, it, n) == FirstOf(<<it>> \o q, n)

LEMMA FrontIsCut ==
    ASSUME NEW S, NEW q \in Seq(S), NEW it \in S, NEW n \in Nat,
           NEW r, r = InFront(q, it, n),
           NEW m \in Nat, m = (IF Len(q) + 1 < n THEN Len(q) + 1 ELSE n)
    PROVE  /\ r \in Seq(S) /\ Len(r) = m
           /\ \A i \in 1 .. m : r[i] = (IF i = 1 THEN it ELSE q[i - 1])
<1> DEFINE p == <<it>> \o q
<1>1. <<it>> \in Seq(S) /\ Len(<<it>>) = 1 /\ <<it>>[1] = it
  OBVIOUS
<1>2. Len(q) \in Nat
  BY LenProperties
<1>3. /\ p \in Seq(S) /\ Len(p) = Len(q) + 1
      /\ \A i \in 1 .. Len(q) + 1 : p[i] = (IF i = 1 THEN it ELSE q[i - 1])
  <2> DEFINE o == <<it>>
  <2>1. o \in Seq(S) /\ Len(o) = 1 /\ o[1] = it
    BY <1>1
  <2> HIDE DEF o
  <2>2. /\ o \o q \in Seq(S) /\ Len(o \o q) = Len(o) + Len(q)
        /\ \A i \in 1 .. Len(o) + Len(q) :
              (o \o q)[i] = IF i <= Len(o) THEN o[i] ELSE q[i - Len(o)]
    BY <2>1, ConcatProperties
  <2>3. /\ o \o q \in Seq(S) /\ Len(o \o q) = Len(q) + 1
        /\ \A i \in 1 .. Len(q) + 1 : (o \o q)[i] = (IF i = 1 THEN it ELSE q[i - 1])
    BY <1>2, <2>1, <2>2
  <2> QED BY <2>3 DEF o
<1> HIDE DEF p
<1>4. m <= Len(p) /\ m = (IF Len(p) < n THEN Len(p) ELSE n)
  BY <1>2, <1>3
<1>5. FirstOf(p, n) = SubSeq(p, 1, m)
  BY <1>4 DEF FirstOf
<1>6. \A i \in 1 .. m : p[i] \in S
  BY <1>3, <1>4, ElementOfSeq
<1>7. /\ SubSeq(p, 1, m) \in Seq(S)
      /\ Len(SubSeq(p, 1, m)) = IF 1 <= m THEN m - 1 + 1 ELSE 0
      /\ \A i \in 1 .. m - 1 + 1 : SubSeq(p, 1, m)[i] = p[1 + i - 1]
  BY <1>4, <1>6, SubSeqProperties
<1>8. Len(SubSeq(p, 1, m)) = m /\ \A i \in 1 .. m : SubSeq(p, 1, m)[i] = p[i]
  BY <1>4, <1>7
<1>9. r = SubSeq(p, 1, m)
  BY <1>5 DEF p, InFront
<1>10. r \in Seq(S) /\ Len(r) = m /\ \A i \in 1 .. m : r[i] = p[i]
  BY <1>7, <1>8, <1>9
<1>11. \A i \in 1 .. m : i \in 1 .. Len(q) + 1
  BY <1>2, <1>3, <1>4
<1>12. \A i \in 1 .. m : r[i] = (IF i = 1 THEN it ELSE q[i - 1])
  BY <1>3, <1>10, <1>11
<1> QED BY <1>10, <1>12

LEMMA FrontLength ==
    ASSUME NEW S, NEW q \in Seq(S), NEW it \in S, NEW n \in Nat,
           NEW r, r = InFront(q, it, n)
    PROVE  /\ r \in Seq(S) /\ Len(q) \in Nat /\ Len(r) \in Nat
           /\ Len(r) <= n /\ Len(r) <= Len(q) + 1
           /\ Len(r) = n \/ Len(r) = Len(q) + 1
<1>1. Len(q) \in Nat
  BY LenProperties
<1>2. PICK m \in Nat : m = (IF Len(q) + 1 < n THEN Len(q) + 1 ELSE n)
  BY <1>1
<1>3. r \in Seq(S) /\ Len(r) = m
  BY <1>2, FrontIsCut
<1> QED BY <1>1, <1>2, <1>3

LEMMA FrontItems ==
    ASSUME NEW S, NEW q \in Seq(S), NEW it \in S, NEW n \in Nat,
           NEW r, r = InFront(q, it, n)
    PROVE  \A i \in 1 .. Len(r) : r[i] = (IF i = 1 THEN it ELSE q[i - 1])
<1>1. Len(q) \in Nat
  BY LenProperties
<1>2. PICK m \in Nat : m = (IF Len(q) + 1 < n THEN Len(q) + 1 ELSE n)
  BY <1>1
<1>3. Len(r) = m /\ \A i \in 1 .. m : r[i] = (IF i = 1 THEN it ELSE q[i - 1])
  BY <1>2, FrontIsCut
<1> QED BY <1>3

\* A page that was reset shows nothing.
LEMMA BlankIsSound ==
    ASSUME NEW k \in Keys, NEW v \in Views
    PROVE  Blank \in Pages(k) /\ Sound(v, Blank)
<1>1. /\ Blank.series = {} /\ Blank.list = <<>> /\ Blank.seen = <<>>
      /\ Blank.day = -1 /\ Blank.open.key = NoKey /\ Blank \in Pages(k)
  BY EmptySeq DEF Blank, Pages, Nothing, Item
<1>2. /\ IsInjective(Blank.list) /\ IsInjective(Blank.seen)
      /\ Len(Blank.list) = 0 /\ Len(Blank.seen) = 0
  BY <1>1 DEF IsInjective
<1> QED BY <1>1, <1>2, LiveViewAssumption
        DEF Sound, OnePerBar, BaselineOfDay, Remembered, Listed

\* A version of a bar takes the place of the one before.
LEMMA CandleIsSound ==
    ASSUME NEW k \in Keys, NEW v, NEW s \in Pages(k), Sound(v, s), NEW it \in Of(k)
    PROVE  LET r == [s EXCEPT !.series = WithCandle(@, it)]
           IN  r \in Pages(k) /\ Sound(v, r)
<1> DEFINE r == [s EXCEPT !.series = WithCandle(@, it)]
<1>1. WithCandle(s.series, it) \in SUBSET Of(k)
  BY DEF WithCandle, Pages
<1>2. /\ r \in Pages(k) /\ r.series = WithCandle(s.series, it) /\ r.list = s.list
      /\ r.seen = s.seen /\ r.day = s.day /\ r.open = s.open
  BY <1>1 DEF Pages
<1> HIDE DEF r
<1>3. OnePerBar(r)
  BY <1>2 DEF Sound, OnePerBar, WithCandle
<1>4. BaselineOfDay(r) /\ IF v = "hits" THEN Remembered(r) ELSE Listed(r)
  BY <1>2 DEF Sound, BaselineOfDay, Remembered, Listed
<1> QED BY <1>2, <1>3, <1>4 DEF Sound, r

\* The price view's baseline stays of its day, and the change it shows after
\* a candle is within it.
LEMMA PriceIsSound ==
    ASSUME NEW k \in Keys, NEW v, NEW s \in Pages(k), Sound(v, s), NEW it \in Of(k)
    PROVE  LET r == WithPrice(s, it)
           IN  r \in Pages(k) /\ Sound(v, r) /\ WithinDay(s, r)
<1> DEFINE r == WithPrice(s, it)
<1>1. it.id \in Nat \ {0} /\ Day(it.id) \in Nat
  BY Days DEF Of
<1>2. /\ r \in Pages(k) /\ r.series = s.series /\ r.list = s.list /\ r.seen = s.seen
      /\ r.last = it /\ r.day = Day(it.id)
      /\ r.open = (IF s.day = Day(it.id) THEN s.open ELSE it)
  BY <1>1 DEF Pages, WithPrice
<1> HIDE DEF r
<1>3. Day(r.open.id) = Day(it.id)
  BY <1>1, <1>2 DEF Sound, BaselineOfDay
<1>4. Sound(v, r)
  BY <1>2, <1>3 DEF Sound, OnePerBar, BaselineOfDay, Remembered, Listed
<1>5. WithinDay(s, r)
  BY <1>2, <1>3 DEF WithinDay, Sound, BaselineOfDay
<1> QED BY <1>2, <1>4, <1>5 DEF r

\* A signal that is shown is not put in front again.
LEMMA SignalIsSound ==
    ASSUME NEW k \in Keys, NEW v, v # "hits", NEW s \in Pages(k), Sound(v, s), NEW it \in Of(k)
    PROVE  LET r == WithSignal(s, it)
           IN  r \in Pages(k) /\ Sound(v, r) /\ r.last = s.last
<1> DEFINE q == FirstOf(<<it>> \o s.list, MaxLive)
           r == [s EXCEPT !.list = q]
<1>1. CASE Contains(s.list, it)
  BY <1>1 DEF WithSignal
<1>2. CASE ~Contains(s.list, it)
  <2>1. s.list \in Seq(Of(k)) /\ MaxLive \in Nat
    BY LiveViewAssumption DEF Pages
  <2>2. /\ q \in Seq(Of(k)) /\ Len(s.list) \in Nat /\ Len(q) \in Nat
        /\ Len(q) <= MaxLive /\ Len(q) <= Len(s.list) + 1
        /\ Len(q) = MaxLive \/ Len(q) = Len(s.list) + 1
        /\ \A i \in 1 .. Len(q) : q[i] = (IF i = 1 THEN it ELSE s.list[i - 1])
    <3>1. q = InFront(s.list, it, MaxLive)
      BY DEF InFront
    <3> HIDE DEF q
    <3>2. \A i \in 1 .. Len(q) : q[i] = (IF i = 1 THEN it ELSE s.list[i - 1])
      BY <2>1, <3>1, FrontItems
    <3>3. /\ q \in Seq(Of(k)) /\ Len(s.list) \in Nat /\ Len(q) \in Nat
          /\ Len(q) <= MaxLive /\ Len(q) <= Len(s.list) + 1
          /\ Len(q) = MaxLive \/ Len(q) = Len(s.list) + 1
      <4> DEFINE l == s.list
      <4>1. l \in Seq(Of(k)) /\ it \in Of(k) /\ MaxLive \in Nat
        BY <2>1
      <4>2. q = InFront(l, it, MaxLive)
        BY <3>1
      <4> HIDE DEF l
      <4>3. /\ q \in Seq(Of(k)) /\ Len(l) \in Nat /\ Len(q) \in Nat
            /\ Len(q) <= MaxLive /\ Len(q) <= Len(l) + 1
            /\ Len(q) = MaxLive \/ Len(q) = Len(l) + 1
        BY ONLY <4>1, <4>2, FrontLength
      <4> QED BY <4>3 DEF l
    <3> QED BY <3>2, <3>3
  <2> HIDE DEF q
  <2>3. /\ r \in Pages(k) /\ r.list = q /\ r.series = s.series /\ r.seen = s.seen
        /\ r.last = s.last /\ r.day = s.day /\ r.open = s.open
    BY <2>2 DEF Pages
  <2>4. Len(q) <= MaxLive /\ Len(q) <= Len(s.list) + 1 /\ DOMAIN q = 1 .. Len(q)
    BY <2>1, <2>2, LenProperties
  <2>5. IsInjective(s.list) /\ DOMAIN s.list = 1 .. Len(s.list)
    BY <2>1, LenProperties DEF Sound, Listed
  <2>6. \A i \in 1 .. Len(s.list) : s.list[i] # it
    BY <1>2 DEF Contains
  <2>7. ASSUME NEW i \in 1 .. Len(q), NEW j \in 1 .. Len(q), q[i] = q[j] PROVE i = j
    <3>0. Len(q) \in Nat /\ Len(s.list) \in Nat /\ Len(q) <= Len(s.list) + 1
      BY <2>2
    <3>1. /\ i # 1 => i - 1 \in 1 .. Len(s.list)
          /\ j # 1 => j - 1 \in 1 .. Len(s.list)
      BY <3>0
    <3>2. /\ i # 1 => q[i] = s.list[i - 1]
          /\ j # 1 => q[j] = s.list[j - 1]
      BY <2>2
    <3>3. (i = 1 => q[i] = it) /\ (j = 1 => q[j] = it)
      BY <2>2
    <3>4. CASE i = 1 \/ j = 1
      BY <2>6, <2>7, <3>1, <3>2, <3>3, <3>4
    <3>5. CASE i # 1 /\ j # 1
      <4>1. i - 1 = j - 1
        BY <2>5, <2>7, <3>1, <3>2, <3>5 DEF IsInjective
      <4> QED BY <4>1
    <3> QED BY <3>4, <3>5
  <2>8. IsInjective(q)
    BY <2>4, <2>7 DEF IsInjective
  <2> HIDE DEF r
  <2>9. Sound(v, r)
    BY <2>3, <2>4, <2>8 DEF Sound, OnePerBar, BaselineOfDay, Listed
  <2>10. WithSignal(s, it) = r
    BY <1>2 DEF WithSignal, q, r
  <2> QED BY <2>3, <2>9, <2>10
<1> QED BY <1>1, <1>2

\* A hit is shown when the memory does not hold it, and what the memory drops
\* is no longer shown.
LEMMA HitIsSound ==
    ASSUME NEW k \in Keys, NEW s \in Pages(k), Sound("hits", s), NEW it \in Of(k)
    PROVE  LET r == WithHit(s, it)
           IN  r \in Pages(k) /\ Sound("hits", r) /\ r.last = s.last
<1> DEFINE q == FirstOf(<<it>> \o s.list, MaxHits)
           m == IF Len(s.seen) = SeenCap THEN Append(Tail(s.seen), it) ELSE Append(s.seen, it)
           r == [s EXCEPT !.seen = m, !.list = q]
<1>1. CASE Contains(s.seen, it)
  BY <1>1 DEF WithHit
<1>2. CASE ~Contains(s.seen, it)
  <2>1. /\ s.list \in Seq(Of(k)) /\ s.seen \in Seq(Of(k))
        /\ MaxHits \in Nat /\ MaxHits # 0 /\ SeenCap \in Nat /\ MaxHits <= SeenCap
    BY LiveViewAssumption DEF Pages
  <2>2. /\ IsInjective(s.seen) /\ Len(s.seen) <= SeenCap
        /\ Len(s.list) = (IF Len(s.seen) < MaxHits THEN Len(s.seen) ELSE MaxHits)
        /\ \A i \in 1 .. Len(s.list) : s.list[i] = s.seen[Len(s.seen) + 1 - i]
    BY DEF Sound, Remembered
  <2>3. /\ Len(s.seen) \in Nat /\ DOMAIN s.seen = 1 .. Len(s.seen)
        /\ \A i \in 1 .. Len(s.seen) : s.seen[i] # it
    BY <1>2, <2>1, LenProperties DEF Contains
  <2>4. /\ q \in Seq(Of(k)) /\ Len(s.list) \in Nat /\ Len(q) \in Nat
        /\ Len(q) <= MaxHits /\ Len(q) <= Len(s.list) + 1
        /\ Len(q) = MaxHits \/ Len(q) = Len(s.list) + 1
        /\ \A i \in 1 .. Len(q) : q[i] = (IF i = 1 THEN it ELSE s.list[i - 1])
    <3>1. q = InFront(s.list, it, MaxHits)
      BY DEF InFront
    <3> HIDE DEF q
    <3>2. \A i \in 1 .. Len(q) : q[i] = (IF i = 1 THEN it ELSE s.list[i - 1])
      BY <2>1, <3>1, FrontItems
    <3>3. /\ q \in Seq(Of(k)) /\ Len(s.list) \in Nat /\ Len(q) \in Nat
          /\ Len(q) <= MaxHits /\ Len(q) <= Len(s.list) + 1
          /\ Len(q) = MaxHits \/ Len(q) = Len(s.list) + 1
      <4> DEFINE l == s.list
      <4>1. l \in Seq(Of(k)) /\ it \in Of(k) /\ MaxHits \in Nat
        BY <2>1
      <4>2. q = InFront(l, it, MaxHits)
        BY <3>1
      <4> HIDE DEF l
      <4>3. /\ q \in Seq(Of(k)) /\ Len(l) \in Nat /\ Len(q) \in Nat
            /\ Len(q) <= MaxHits /\ Len(q) <= Len(l) + 1
            /\ Len(q) = MaxHits \/ Len(q) = Len(l) + 1
        BY ONLY <4>1, <4>2, FrontLength
      <4> QED BY <4>3 DEF l
    <3> QED BY <3>2, <3>3
  <2> HIDE DEF q
  <2>5. PICK kept \in Seq(Of(k)), d \in {0, 1} :
           /\ m = Append(kept, it) /\ Len(kept) = Len(s.seen) - d
           /\ \A i \in 1 .. Len(kept) : kept[i] = s.seen[i + d]
           /\ IF Len(s.seen) = SeenCap THEN d = 1 ELSE d = 0
    <3>1. CASE Len(s.seen) = SeenCap
      <4> DEFINE t == s.seen
      <4>1. t \in Seq(Of(k)) /\ t # <<>>
        BY <2>1, <2>3, <3>1, EmptySeq
      <4> HIDE DEF t
      <4>2. /\ Tail(t) \in Seq(Of(k)) /\ Len(Tail(t)) = Len(t) - 1
            /\ \A i \in 1 .. Len(Tail(t)) : Tail(t)[i] = t[i + 1]
        BY <4>1, HeadTailProperties
      <4>3. /\ Tail(s.seen) \in Seq(Of(k)) /\ Len(Tail(s.seen)) = Len(s.seen) - 1
            /\ \A i \in 1 .. Len(Tail(s.seen)) : Tail(s.seen)[i] = s.seen[i + 1]
        BY <4>2 DEF t
      <4>4. m = Append(Tail(s.seen), it)
        BY <3>1
      <4> HIDE DEF m
      <4> QED BY <3>1, <4>3, <4>4
    <3>2. CASE Len(s.seen) # SeenCap
      <4>1. m = Append(s.seen, it)
        BY <3>2
      <4> HIDE DEF m
      <4>2. \A i \in 1 .. Len(s.seen) : i + 0 = i
        BY <2>3
      <4>3. Len(s.seen) = Len(s.seen) - 0
        BY <2>3
      <4> QED BY <2>1, <3>2, <4>1, <4>2, <4>3
    <3> QED BY <3>1, <3>2
  <2> HIDE DEF m
  <2>6. /\ m \in Seq(Of(k)) /\ Len(kept) \in Nat /\ Len(m) = Len(kept) + 1
        /\ \A i \in 1 .. Len(kept) : m[i] = s.seen[i + d]
        /\ m[Len(kept) + 1] = it /\ DOMAIN m = 1 .. Len(kept) + 1
    <3>1. /\ Append(kept, it) \in Seq(Of(k)) /\ Len(Append(kept, it)) = Len(kept) + 1
          /\ \A i \in 1 .. Len(kept) : Append(kept, it)[i] = kept[i]
          /\ Append(kept, it)[Len(kept) + 1] = it
      BY AppendProperties
    <3>2. m \in Seq(Of(k)) /\ Len(kept) \in Nat
      BY <2>5, <3>1, LenProperties
    <3>3. DOMAIN m = 1 .. Len(m)
      BY <3>2, LenProperties
    <3> QED BY <2>5, <3>1, <3>2, <3>3
  <2>7. /\ r \in Pages(k) /\ r.list = q /\ r.seen = m /\ r.series = s.series
        /\ r.last = s.last /\ r.day = s.day /\ r.open = s.open
    BY <2>4, <2>6 DEF Pages
  <2>8. \A i \in 1 .. Len(kept) : i + d \in 1 .. Len(s.seen)
    BY <2>3, <2>5, <2>6
  <2>9. ASSUME NEW i \in 1 .. Len(kept) + 1, NEW j \in 1 .. Len(kept) + 1, m[i] = m[j]
        PROVE  i = j
    <3>1. CASE i \in 1 .. Len(kept) /\ j \in 1 .. Len(kept)
      <4>1. s.seen[i + d] = s.seen[j + d]
        BY <2>6, <2>9, <3>1
      <4>2. i + d = j + d
        BY <2>2, <2>3, <2>8, <3>1, <4>1 DEF IsInjective
      <4> QED BY <4>2
    <3>2. CASE i = Len(kept) + 1 /\ j \in 1 .. Len(kept)
      BY <2>3, <2>6, <2>8, <2>9, <3>2
    <3>3. CASE j = Len(kept) + 1 /\ i \in 1 .. Len(kept)
      BY <2>3, <2>6, <2>8, <2>9, <3>3
    <3> QED BY <2>6, <3>1, <3>2, <3>3
  <2>10. IsInjective(m)
    BY <2>6, <2>9 DEF IsInjective
  <2>11. Len(m) \in Nat /\ Len(m) <= SeenCap
    <3>1. CASE Len(s.seen) = SeenCap
      BY <2>1, <2>3, <2>5, <2>6, <3>1
    <3>2. CASE Len(s.seen) # SeenCap
      BY <2>1, <2>2, <2>3, <2>5, <2>6, <3>2
    <3> QED BY <3>1, <3>2
  <2>12. Len(q) = (IF Len(m) < MaxHits THEN Len(m) ELSE MaxHits)
    <3>1. CASE Len(s.seen) = SeenCap
      <4>1. Len(m) = SeenCap /\ Len(s.list) = MaxHits
        BY <2>1, <2>2, <2>3, <2>5, <2>6, <3>1
      <4> QED BY <2>1, <2>4, <4>1
    <3>2. CASE Len(s.seen) # SeenCap
      <4>1. Len(m) = Len(s.seen) + 1
        BY <2>3, <2>5, <2>6, <3>2
      <4> QED BY <2>1, <2>2, <2>3, <2>4, <4>1
    <3> QED BY <3>1, <3>2
  <2>13. ASSUME NEW i \in 1 .. Len(q) PROVE q[i] = m[Len(m) + 1 - i]
    <3>1. CASE i = 1
      <4>1. Len(m) + 1 - i = Len(kept) + 1
        BY <2>6, <3>1
      <4> QED BY <2>4, <2>6, <3>1, <4>1
    <3>2. CASE i # 1
      <4>1. i - 1 \in 1 .. Len(s.list) /\ q[i] = s.list[i - 1]
        <5>1. Len(q) \in Nat /\ Len(q) <= Len(s.list) + 1
          BY <2>1, <2>4
        <5>2. i - 1 \in 1 .. Len(s.list)
          BY <2>4, <3>2, <5>1
        <5> QED BY <2>4, <3>2, <5>2
      <4>2. q[i] = s.seen[Len(s.seen) + 1 - (i - 1)]
        BY <2>2, <4>1
      <4>3. i <= Len(m)
        BY <2>1, <2>4, <2>11, <2>12
      <4>4. /\ Len(m) + 1 - i \in 1 .. Len(kept)
            /\ (Len(m) + 1 - i) + d = Len(s.seen) + 1 - (i - 1)
        BY <2>3, <2>5, <2>6, <3>2, <4>1, <4>3
      <4> QED BY <2>6, <4>2, <4>4
    <3> QED BY <3>1, <3>2
  <2>14. Remembered(r)
    BY <2>7, <2>10, <2>11, <2>12, <2>13 DEF Remembered
  <2> HIDE DEF r
  <2>15. Sound("hits", r)
    BY <2>7, <2>14 DEF Sound, OnePerBar, BaselineOfDay
  <2>16. WithHit(s, it) = r
    BY <1>2 DEF WithHit, q, m, r
  <2> QED BY <2>7, <2>15, <2>16
<1> QED BY <1>1, <1>2

\* An answer has the last version of each bar, and the price view takes from
\* it the baseline of the day it asked for.
LEMMA HistoryIsSound ==
    ASSUME NEW k \in Keys, NEW v, NEW s \in Pages(k), Sound(v, s),
           NEW f \in Fetches, f.key = k, NEW n \in Nat
    PROVE  /\ LET r == [s EXCEPT !.series = History(k, n)]
              IN  r \in Pages(k) /\ Sound(v, r) /\ r.last = s.last
           /\ LET r == WithDayOpen(s, f)
              IN  r \in Pages(k) /\ Sound(v, r) /\ r.last = s.last
<1> DEFINE h == History(k, n)
           a == [s EXCEPT !.series = h]
           b == WithDayOpen(s, f)
<1>1. n \in Nat /\ f.day \in Nat
  BY DEF Fetches
<1>2. \A c \in h : \E i \in 1 .. n :
         c = Item(k, i) /\ c.id = i /\ (i = n \/ i % 2 = 0)
  BY DEF History, Item
<1>3. h \subseteq Of(k)
  BY <1>1, <1>2 DEF Of, Item
<1>4. \A c, e \in h : Bar(c.id) = Bar(e.id) => c = e
  <2> SUFFICES ASSUME NEW c \in h, NEW e \in h, Bar(c.id) = Bar(e.id) PROVE c = e
    OBVIOUS
  <2>1. PICK i \in 1 .. n : c = Item(k, i) /\ c.id = i /\ (i = n \/ i % 2 = 0)
    BY <1>2
  <2>2. PICK j \in 1 .. n : e = Item(k, j) /\ e.id = j /\ (j = n \/ j % 2 = 0)
    BY <1>2
  <2>3. (i + 1) \div 2 = (j + 1) \div 2
    BY <2>1, <2>2 DEF Bar
  <2>4. i = j
    BY <1>1, <2>1, <2>2, <2>3
  <2> QED BY <2>1, <2>2, <2>4
<1> HIDE DEF h
<1>5. /\ a \in Pages(k) /\ a.series = h /\ a.list = s.list /\ a.seen = s.seen
      /\ a.last = s.last /\ a.day = s.day /\ a.open = s.open
  BY <1>3 DEF Pages
<1> HIDE DEF a
<1>6. Sound(v, a)
  BY <1>4, <1>5 DEF Sound, OnePerBar, BaselineOfDay, Remembered, Listed
<1>7. b \in Pages(k) /\ Sound(v, b) /\ b.last = s.last
  <2> DEFINE o == Item(k, f.day * PerDay + 1)
             c == [s EXCEPT !.open = o, !.day = f.day]
  <2>1. o \in Of(k) /\ Day(o.id) = f.day
    BY <1>1, Days DEF Of, Item
  <2>2. b = s \/ b = c
    BY DEF WithDayOpen
  <2> HIDE DEF o
  <2>3. /\ c \in Pages(k) /\ c.series = s.series /\ c.list = s.list /\ c.seen = s.seen
        /\ c.last = s.last /\ c.day = f.day /\ c.open = o
    BY <1>1, <2>1 DEF Pages
  <2> HIDE DEF b, c
  <2>4. Sound(v, c)
    BY <2>1, <2>3 DEF Sound, OnePerBar, BaselineOfDay, Remembered, Listed
  <2> QED BY <2>2, <2>3, <2>4
<1> QED BY <1>5, <1>6, <1>7 DEF a, b, h

\* A socket that is new, or waits to be, knows no key.
LEMMA FreshSocket ==
    ASSUME NEW k
    PROVE  /\ NewSocket \in Socks(k) /\ AfterClose \in Socks(k)
           /\ [NewSocket EXCEPT !.phase = "none"] \in Socks(k)
  BY EmptySeq DEF NewSocket, AfterClose, Socks

\* The requests of an effect are for its key.
LEMMA FreshFetches ==
    ASSUME NEW k \in Keys, db \in [Keys -> 0 .. MaxItems]
    PROVE  \A f \in Fetched(k) : f \in Fetches /\ f.key = k
<1>1. db[k] \in Nat /\ db[k] \div PerDay \in Nat
  BY Days, LiveViewAssumption
<1>2. \A d \in Nat : LET f == [live |-> TRUE, key |-> k, day |-> d, came |-> FALSE,
                             got |-> None, row |-> FALSE]
                     IN  f \in Fetches /\ f.key = k
  BY DEF Fetches, None
<1>3. Fetch(k) \in Fetches /\ Fetch(k).key = k
  BY <1>1, <1>2 DEF Fetch
<1> QED BY <1>3 DEF Fetched

\* Cancelled requests are harmless to any key.
LEMMA CancelledFetches ==
    ASSUME NEW fs, \A f \in fs : f \in Fetches
    PROVE  \A f \in Cancelled(fs) : f \in Fetches /\ ~f.live
<1>1. ASSUME NEW f \in Fetches
      PROVE  [f EXCEPT !.live = FALSE] \in Fetches /\ ~[f EXCEPT !.live = FALSE].live
  BY DEF Fetches
<1> QED BY <1>1 DEF Cancelled

\* A frame changes the view's part of the page.
LEMMA Delivered ==
    ASSUME LiveInv, Deliver
    PROVE  /\ sock' \in Socks(key) /\ sock'.phase = sock.phase
           /\ sock'.asked = sock.asked /\ sock'.chan = sock.chan
           /\ sock'.fed = sock.fed /\ sock'.died = sock.died
           /\ shown' \in Pages(key) /\ Sound(view, shown') /\ WithinDay(shown, shown')
<1> DEFINE it == Head(sock.pipe)
<1>1. /\ view \in {"candles", "price", "signals", "hits"} /\ key \in Keys
      /\ sock \in Socks(key) /\ shown \in Pages(key) /\ Sound(view, shown)
  BY LiveViewAssumption DEF LiveInv, LiveShape
<1>2. sock.pipe \in Seq(Of(key)) /\ sock.pipe # <<>>
  BY <1>1 DEF Socks, Deliver
<1>3. it \in Of(key) /\ Tail(sock.pipe) \in Seq(Of(key))
  BY <1>2, HeadTailProperties
<1>4. /\ sock' = [sock EXCEPT !.pipe = Tail(@)]
      /\ shown' = CASE view = "candles" -> [shown EXCEPT !.series = WithCandle(@, it)]
                    [] view = "price" -> WithPrice(shown, it)
                    [] view = "signals" -> WithSignal(shown, it)
                    [] view = "hits" -> WithHit(shown, it)
  BY DEF Deliver
<1> HIDE DEF it
<1>5. /\ sock' \in Socks(key) /\ sock'.phase = sock.phase
      /\ sock'.asked = sock.asked /\ sock'.chan = sock.chan
      /\ sock'.fed = sock.fed /\ sock'.died = sock.died
  <2> DEFINE t == Tail(sock.pipe)
  <2>1. t \in Seq(Of(key)) /\ sock' = [sock EXCEPT !.pipe = t]
    BY <1>3, <1>4
  <2> HIDE DEF t
  <2> QED BY <1>1, <2>1 DEF Socks
<1>6. CASE view = "candles"
  <2>1. shown' = [shown EXCEPT !.series = WithCandle(@, it)]
    BY <1>4, <1>6
  <2>2. shown'.last = shown.last
    BY <1>1, <2>1 DEF Pages
  <2> QED BY <1>1, <1>3, <1>5, <2>1, <2>2, CandleIsSound DEF WithinDay
<1>7. CASE view = "price"
  <2>1. shown' = WithPrice(shown, it)
    BY <1>4, <1>7
  <2> QED BY <1>1, <1>3, <1>5, <2>1, PriceIsSound
<1>8. CASE view = "signals"
  <2>1. shown' = WithSignal(shown, it)
    BY <1>4, <1>8
  <2> QED BY <1>1, <1>3, <1>5, <1>8, <2>1, SignalIsSound DEF WithinDay
<1>9. CASE view = "hits"
  <2>1. shown' = WithHit(shown, it)
    BY <1>4, <1>9
  <2> QED BY <1>1, <1>3, <1>5, <1>9, <2>1, HitIsSound DEF WithinDay
<1> QED BY <1>1, <1>6, <1>7, <1>8, <1>9

\* Every step of the live view keeps the page sound and its socket on its key,
\* and shows a change within the day of the candle.
LEMMA LiveStep ==
    ASSUME LiveInv, LiveNext
    PROVE  LiveInv' /\ WithinDay(shown, shown')
<1> DEFINE Change == WithinDay(shown, shown')
           Feeds(q) == /\ q.phase = "open"
                       /\ q.asked = key \/ (q.chan = key /\ (q.fed \/ q.died))
<1>1. /\ view \in Views /\ key \in Keys /\ NoKey \notin Keys
      /\ status \in {"connecting", "open", "closed", "crashed"}
      /\ sock \in Socks(key)
      /\ \A f \in fetches : f \in Fetches /\ (f.live => f.key = key)
      /\ cache \in [Keys -> Nat]
      /\ shown \in Pages(key)
      /\ db \in [Keys -> 0 .. MaxItems]
      /\ Sound(view, shown)
      /\ status = "open" => Feeds(sock)
  BY LiveViewAssumption DEF LiveInv, LiveShape, LiveOnShownKey
<1>2. ASSUME UNCHANGED <<view, key, fetches, cache, shown, db>>,
             status' \in {"connecting", "open", "closed", "crashed"},
             sock' \in Socks(key),
             status' = "open" => Feeds(sock')
      PROVE  LiveInv' /\ Change
  BY <1>1, <1>2 DEF WithinDay, LiveInv, LiveShape, LiveOnShownKey
<1>3. CASE OpenSocket
  <2>1. /\ UNCHANGED <<view, key, fetches, cache, shown, db>> /\ status' = "open"
        /\ sock' = IF view = "hits"
                   THEN [sock EXCEPT !.phase = "open", !.chan = key, !.fed = TRUE]
                   ELSE [sock EXCEPT !.phase = "open", !.asked = key]
    BY <1>3 DEF OpenSocket
  <2>2. sock' \in Socks(key) /\ Feeds(sock')
    BY <1>1, <2>1 DEF Socks
  <2> QED BY <1>2, <2>1, <2>2
<1>4. CASE CloseSocket \/ Reconnect
  <2>1. /\ UNCHANGED <<view, key, fetches, cache, shown, db>>
        /\ status' \in {"closed", "connecting"} /\ sock' \in {AfterClose, NewSocket}
    BY <1>4 DEF CloseSocket, Reconnect
  <2> QED BY <1>2, <2>1, FreshSocket
<1>5. CASE Subscribe
  <2>1. /\ UNCHANGED <<view, key, fetches, cache, shown, db, status>>
        /\ sock.asked # NoKey
        /\ sock' = [sock EXCEPT !.asked = NoKey, !.chan = sock.asked, !.fed = TRUE,
                             !.died = FALSE]
    BY <1>5 DEF Subscribe
  <2>2. sock.asked = key
    BY <1>1, <2>1 DEF Socks
  <2>3. sock' \in Socks(key) /\ sock'.phase = sock.phase /\ sock'.chan = key /\ sock'.fed
    BY <1>1, <2>1, <2>2 DEF Socks
  <2> QED BY <1>1, <1>2, <2>1, <2>3
<1>6. CASE ForwarderDies
  <2>1. /\ UNCHANGED <<view, key, fetches, cache, shown, db, status>>
        /\ sock' = [sock EXCEPT !.fed = FALSE, !.died = TRUE]
    BY <1>6 DEF ForwarderDies
  <2>2. /\ sock' \in Socks(key) /\ sock'.phase = sock.phase /\ sock'.died
        /\ sock'.chan = sock.chan /\ sock'.asked = sock.asked
    BY <1>1, <2>1 DEF Socks
  <2> QED BY <1>1, <1>2, <2>1, <2>2
<1>7. ASSUME NEW k \in Keys, NEW i \in Nat \ {0}
      PROVE  /\ Forwarded(k, i) \in Socks(key)
             /\ Forwarded(k, i).phase = sock.phase
             /\ Forwarded(k, i).chan = sock.chan /\ Forwarded(k, i).asked = sock.asked
             /\ Forwarded(k, i).fed = sock.fed /\ Forwarded(k, i).died = sock.died
  <2>1. CASE sock.fed /\ sock.chan = k
    <3> DEFINE t == Append(sock.pipe, Item(k, i))
    <3>1. k = key
      BY <1>1, <2>1 DEF Socks
    <3>2. Item(k, i) \in Of(key) /\ sock.pipe \in Seq(Of(key))
      BY <1>1, <3>1 DEF Of, Item, Socks
    <3>3. t \in Seq(Of(key)) /\ Forwarded(k, i) = [sock EXCEPT !.pipe = t]
      BY <2>1, <3>2, AppendProperties DEF Forwarded
    <3> HIDE DEF t
    <3> QED BY <1>1, <3>3 DEF Socks
  <2>2. CASE ~(sock.fed /\ sock.chan = k)
    BY <1>1, <2>2 DEF Forwarded
  <2> QED BY <2>1, <2>2
<1>8. ASSUME NEW k \in Keys, Publish(k) PROVE LiveInv' /\ Change
  <2>1. /\ UNCHANGED <<view, key, fetches, cache, shown, status>>
        /\ db[k] < MaxItems /\ db' = [db EXCEPT ![k] = @ + 1]
        /\ sock' = Forwarded(k, db[k] + 1)
    BY <1>8 DEF Publish
  <2>2. db[k] \in Nat /\ db[k] + 1 \in Nat \ {0} /\ MaxItems \in Nat
    BY <1>1, LiveViewAssumption
  <2>3. db' \in [Keys -> 0 .. MaxItems]
    BY <1>1, <2>1, <2>2
  <2>4. /\ sock' \in Socks(key) /\ sock'.phase = sock.phase
        /\ sock'.chan = sock.chan /\ sock'.asked = sock.asked
        /\ sock'.fed = sock.fed /\ sock'.died = sock.died
    BY <1>7, <2>1, <2>2
  <2> QED BY <1>1, <2>1, <2>3, <2>4 DEF WithinDay, LiveInv, LiveShape, LiveOnShownKey
<1>9. ASSUME NEW k \in Keys, NEW i \in 1 .. MaxItems, Replay(k, i) PROVE LiveInv' /\ Change
  <2>1. /\ UNCHANGED <<view, key, fetches, cache, shown, db, status>>
        /\ sock' = Forwarded(k, i) /\ i \in Nat \ {0}
    BY <1>9, LiveViewAssumption DEF Replay
  <2>2. /\ sock' \in Socks(key) /\ sock'.phase = sock.phase
        /\ sock'.chan = sock.chan /\ sock'.asked = sock.asked
        /\ sock'.fed = sock.fed /\ sock'.died = sock.died
    BY <1>7, <2>1
  <2> QED BY <1>1, <1>2, <2>1, <2>2
<1>10. CASE Deliver
  <2>1. UNCHANGED <<view, key, status, fetches, cache, db>>
    BY <1>10 DEF Deliver
  <2>2. /\ sock' \in Socks(key) /\ sock'.phase = sock.phase
        /\ sock'.asked = sock.asked /\ sock'.chan = sock.chan
        /\ sock'.fed = sock.fed /\ sock'.died = sock.died
        /\ shown' \in Pages(key) /\ Sound(view, shown')
        /\ Change
    BY <1>10, Delivered
  <2> QED BY <1>1, <2>1, <2>2 DEF LiveInv, LiveShape, LiveOnShownKey
<1>11. ASSUME UNCHANGED <<view, key, status, sock, db>>,
              \A f \in fetches' : f \in Fetches /\ (f.live => f.key = key),
              cache' \in [Keys -> Nat],
              shown' \in Pages(key), Sound(view, shown'), shown'.last = shown.last
       PROVE  LiveInv' /\ Change
  BY <1>1, <1>11 DEF WithinDay, LiveInv, LiveShape, LiveOnShownKey
<1>12. ASSUME NEW f \in fetches, RestAnswers(f) PROVE LiveInv' /\ Change
  <2>1. PICK row \in BOOLEAN :
           fetches' = (fetches \ {f}) \cup
                      {[f EXCEPT !.came = TRUE, !.got = Stored(f), !.row = row]}
    BY <1>12 DEF RestAnswers
  <2> DEFINE g == [f EXCEPT !.came = TRUE, !.got = Stored(f), !.row = row]
  <2>2. UNCHANGED <<view, key, status, sock, cache, shown, db>>
    BY <1>12 DEF RestAnswers
  <2>3. f \in Fetches /\ (f.live => f.key = key)
    BY <1>1
  <2>4. Stored(f) \in [Keys -> Nat]
    BY <1>1, LiveViewAssumption DEF Stored
  <2>5. g \in Fetches /\ (g.live => g.key = key)
    BY <2>3, <2>4 DEF Fetches
  <2> HIDE DEF g
  <2> QED BY <1>1, <1>11, <2>1, <2>2, <2>5 DEF g
<1>13. ASSUME NEW f \in fetches, RestArrives(f) PROVE LiveInv' /\ Change
  <2>1. /\ UNCHANGED <<view, key, status, sock, db>>
        /\ fetches' = fetches \ {f}
        /\ cache' = IF view = "signals" THEN f.got ELSE cache
        /\ shown' = IF ~f.live \/ view = "signals" THEN shown
                    ELSE IF view = "candles"
                    THEN [shown EXCEPT !.series = History(f.key, f.got[f.key])]
                    ELSE WithDayOpen(shown, f)
    BY <1>13 DEF RestArrives
  <2>2. /\ f \in Fetches /\ f.got \in [Keys -> Nat] /\ f.got[f.key] \in Nat
        /\ f.live => f.key = key
    BY <1>1, <2>1 DEF Fetches
  <2>3. cache' \in [Keys -> Nat]
    BY <1>1, <2>1, <2>2
  <2>4. shown' \in Pages(key) /\ Sound(view, shown') /\ shown'.last = shown.last
    <3>1. CASE ~f.live \/ view = "signals"
      BY <1>1, <2>1, <3>1
    <3>2. CASE f.live /\ view # "signals"
      <4>1. PICK n \in Nat : n = f.got[f.key]
        BY <2>2
      <4>2. /\ f.key = key
            /\ \/ shown' = [shown EXCEPT !.series = History(key, n)]
               \/ shown' = WithDayOpen(shown, f)
        BY <2>1, <2>2, <3>2, <4>1
      <4>3. /\ LET r == [shown EXCEPT !.series = History(key, n)]
               IN  r \in Pages(key) /\ Sound(view, r) /\ r.last = shown.last
            /\ LET r == WithDayOpen(shown, f)
               IN  r \in Pages(key) /\ Sound(view, r) /\ r.last = shown.last
        BY <1>1, <2>2, <4>2, HistoryIsSound
      <4> QED BY <4>2, <4>3
    <3> QED BY <3>1, <3>2
  <2> QED BY <1>1, <1>11, <2>1, <2>3, <2>4
<1>14. ASSUME NEW f \in fetches, RestFails(f) PROVE LiveInv' /\ Change
  <2>1. /\ UNCHANGED <<view, key, status, sock, cache, shown, db>>
        /\ fetches' = fetches \ {f}
    BY <1>14 DEF RestFails
  <2> QED BY <1>1, <1>11, <2>1
<1>15. Blank.last.key = NoKey
  BY DEF Blank, Item
<1>16. ASSUME NEW k \in Keys, Switch(k) PROVE LiveInv' /\ Change
  <2>1. /\ key' = k /\ shown' = Blank /\ UNCHANGED <<view, cache, db>>
        /\ fetches' = IF status = "open" THEN Cancelled(fetches \cup Fetched(k))
                      ELSE Cancelled(fetches) \cup Fetched(k)
        /\ status' = IF status = "open" THEN "crashed" ELSE "connecting"
        /\ sock' \in {[NewSocket EXCEPT !.phase = "none"], NewSocket}
    BY <1>16 DEF Switch
  <2>2. /\ shown' \in Pages(k) /\ Sound(view, shown') /\ sock' \in Socks(k)
        /\ status' \in {"crashed", "connecting"}
    BY <1>1, <2>1, BlankIsSound, FreshSocket
  <2>3. \A f \in Fetched(k) : f \in Fetches /\ f.key = k
    BY <1>1, FreshFetches
  <2>4. /\ \A f \in Cancelled(fetches \cup Fetched(k)) : f \in Fetches /\ ~f.live
        /\ \A f \in Cancelled(fetches) : f \in Fetches /\ ~f.live
    BY <1>1, <2>3, CancelledFetches
  <2>5. \A f \in fetches' : f \in Fetches /\ (f.live => f.key = k)
    BY <2>1, <2>3, <2>4
  <2> QED BY <1>1, <1>15, <2>1, <2>2, <2>5 DEF WithinDay, LiveInv, LiveShape, LiveOnShownKey
<1>17. CASE RefreshToken
  <2>1. /\ UNCHANGED <<view, key, fetches, cache, db>>
        /\ status' = "connecting" /\ sock' = NewSocket /\ shown' \in {Blank, shown}
    BY <1>17 DEF RefreshToken, Emptied
  <2>2. shown' \in Pages(key) /\ Sound(view, shown') /\ sock' \in Socks(key)
    BY <1>1, <2>1, BlankIsSound, FreshSocket
  <2> QED BY <1>1, <1>15, <2>1, <2>2 DEF WithinDay, LiveInv, LiveShape, LiveOnShownKey
<1>18. CASE Reload
  <2>1. PICK k \in Keys : key' = k /\ fetches' = Fetched(k)
    BY <1>18 DEF Reload
  <2>2. /\ UNCHANGED <<view, db>> /\ cache' = None
        /\ status' = "connecting" /\ sock' = NewSocket /\ shown' = Blank
    BY <1>18 DEF Reload
  <2>3. shown' \in Pages(k) /\ Sound(view, shown') /\ sock' \in Socks(k)
    BY <1>1, <2>2, BlankIsSound, FreshSocket
  <2>4. \A f \in fetches' : f \in Fetches /\ (f.live => f.key = k)
    BY <1>1, <2>1, FreshFetches
  <2>5. cache' \in [Keys -> Nat]
    BY <2>2 DEF None
  <2> QED BY <1>1, <1>15, <2>1, <2>2, <2>3, <2>4, <2>5
          DEF WithinDay, LiveInv, LiveShape, LiveOnShownKey
<1>19. ASSUME NEW k \in Keys, Revisit(k) PROVE LiveInv' /\ Change
  <2>1. /\ key' = k /\ shown' = Blank /\ UNCHANGED <<view, cache, db>>
        /\ fetches' \in {Fetched(k), Cancelled(fetches)}
        /\ status' = "connecting" /\ sock' = NewSocket
    BY <1>19 DEF Revisit
  <2>2. shown' \in Pages(k) /\ Sound(view, shown') /\ sock' \in Socks(k)
    BY <1>1, <2>1, BlankIsSound, FreshSocket
  <2>3. \A f \in fetches' : f \in Fetches /\ (f.live => f.key = k)
    BY <1>1, <2>1, FreshFetches, CancelledFetches
  <2> QED BY <1>1, <1>15, <2>1, <2>2, <2>3
          DEF WithinDay, LiveInv, LiveShape, LiveOnShownKey
<1> QED BY <1>3, <1>4, <1>5, <1>6, <1>8, <1>9, <1>10, <1>12, <1>13, <1>14, <1>16,
           <1>17, <1>18, <1>19 DEF LiveNext, Network

LEMMA LiveStart == Init => LiveInv
<1> SUFFICES ASSUME LiveInit PROVE LiveInv
  BY DEF Init
<1>1. view \in Views /\ key \in Keys /\ status = "connecting" /\ sock = NewSocket
      /\ fetches = Fetched(key) /\ cache = None /\ shown = Blank
  BY DEF LiveInit
<1>2. db \in [Keys -> 0 .. MaxItems]
  <2>1. \A m \in Nat \ {0} : 0 .. 1 \subseteq 0 .. m
    OBVIOUS
  <2>2. 0 .. 1 \subseteq 0 .. MaxItems
    BY <2>1, LiveViewAssumption
  <2> QED BY <2>2 DEF LiveInit
<1>3. \A f \in fetches : f \in Fetches /\ f.key = key
  BY <1>1, <1>2, FreshFetches
<1>4. cache \in [Keys -> Nat]
  BY <1>1 DEF None
<1>5. shown \in Pages(key) /\ Sound(view, shown) /\ sock \in Socks(key)
  BY <1>1, BlankIsSound, FreshSocket
<1> QED BY <1>1, <1>2, <1>3, <1>4, <1>5 DEF LiveInv, LiveShape, LiveOnShownKey

LEMMA LiveKept ==
    LiveInv /\ [Next]_vars =>
        LiveInv' /\ WithinDay(shown, shown')
<1> SUFFICES ASSUME LiveInv, [Next]_vars
             PROVE  LiveInv' /\ WithinDay(shown, shown')
  OBVIOUS
<1>1. CASE LiveNext
  BY <1>1, LiveStep
<1>2. CASE UNCHANGED lvars
  <2>1. UNCHANGED <<view, key, status, sock, fetches, cache, shown, db>>
    BY <1>2 DEF lvars
  <2> QED BY <2>1 DEF WithinDay, LiveInv, LiveShape, LiveOnShownKey
<1> QED BY <1>1, <1>2 DEF Next, Live, Chat, vars

\* No item is in two places of what a sound page renders: neither twice in the
\* live list, nor twice in the history, nor in both.
LEMMA RenderedOnce == LiveInv => NoneShownTwice
<1> SUFFICES ASSUME LiveInv PROVE NoneShownTwice
  OBVIOUS
<1> DEFINE Past == IF view = "signals"
                   THEN {p \in Keys \X (1 .. MaxItems) :
                            p[2] <= cache[p[1]] /\ ~Contains(shown.list, Item(p[1], p[2]))}
                   ELSE {}
           Places == ({"live"} \X DOMAIN shown.list) \cup ({"history"} \X Past)
           At(p) == IF p[1] = "live" THEN shown.list[p[2]] ELSE Item(p[2][1], p[2][2])
<1>1. shown.list \in Seq(Of(key)) /\ Len(shown.list) \in Nat
      /\ DOMAIN shown.list = 1 .. Len(shown.list)
  BY LenProperties DEF LiveInv, LiveShape, Pages
<1>2. IsInjective(shown.list)
  <2>1. CASE view = "hits"
    <3>1. /\ shown.seen \in Seq(Of(key)) /\ IsInjective(shown.seen)
          /\ MaxHits \in Nat
          /\ Len(shown.list) = (IF Len(shown.seen) < MaxHits THEN Len(shown.seen) ELSE MaxHits)
          /\ \A i \in 1 .. Len(shown.list) :
                shown.list[i] = shown.seen[Len(shown.seen) + 1 - i]
      BY <2>1, LiveViewAssumption DEF LiveInv, LiveShape, Pages, Sound, Remembered
    <3>2. Len(shown.seen) \in Nat /\ DOMAIN shown.seen = 1 .. Len(shown.seen)
      BY <3>1, LenProperties
    <3>3. \A i \in 1 .. Len(shown.list) :
             Len(shown.seen) + 1 - i \in 1 .. Len(shown.seen)
      BY <1>1, <3>1, <3>2
    <3>4. ASSUME NEW i \in 1 .. Len(shown.list), NEW j \in 1 .. Len(shown.list),
                 shown.list[i] = shown.list[j]
          PROVE  i = j
      <4>1. shown.seen[Len(shown.seen) + 1 - i] = shown.seen[Len(shown.seen) + 1 - j]
        BY <3>1, <3>4
      <4>2. Len(shown.seen) + 1 - i = Len(shown.seen) + 1 - j
        BY <3>1, <3>2, <3>3, <4>1 DEF IsInjective
      <4> QED BY <3>2, <4>2
    <3> QED BY <1>1, <3>4 DEF IsInjective
  <2>2. CASE view # "hits"
    BY <2>2 DEF LiveInv, Sound, Listed
  <2> QED BY <2>1, <2>2
<1>3. \A p \in Past : \A j \in DOMAIN shown.list : shown.list[j] # Item(p[1], p[2])
  BY <1>1 DEF Contains
<1>4. ASSUME NEW p \in Places, NEW q \in Places, At(p) = At(q) PROVE p = q
  <2>1. /\ p = <<p[1], p[2]>> /\ q = <<q[1], q[2]>>
        /\ \/ p[1] = "live" /\ p[2] \in DOMAIN shown.list
           \/ p[1] = "history" /\ p[2] \in Past
        /\ \/ q[1] = "live" /\ q[2] \in DOMAIN shown.list
           \/ q[1] = "history" /\ q[2] \in Past
    OBVIOUS
  <2>2. \A i, j \in Past : Item(i[1], i[2]) = Item(j[1], j[2]) => i = j
    BY DEF Item
  <2> HIDE DEF Past
  <2>3. p[1] = q[1]
    BY <1>3, <1>4, <2>1
  <2>4. p[2] = q[2]
    BY <1>2, <1>4, <2>1, <2>2, <2>3 DEF IsInjective
  <2> QED BY <2>1, <2>3, <2>4
<1>5. Rendered = [p \in Places |-> At(p)]
  BY DEF Rendered
<1> HIDE DEF Places, At
<1>6. /\ DOMAIN [p \in Places |-> At(p)] = Places
      /\ \A p \in Places : [r \in Places |-> At(r)][p] = At(p)
  OBVIOUS
<1>7. IsInjective([p \in Places |-> At(p)])
  BY <1>4, <1>6 DEF IsInjective
<1> QED BY <1>5, <1>7 DEF NoneShownTwice

\* Whatever the socket, the requests, the user and the server do in whatever
\* order, a live page shows the items of the key chosen, each once, and is fed
\* with them when it says so, unless its forwarder died (useCandles.ts, useSignals.ts, useScanHits.ts).
THEOREM LivePageIsOfKey == Spec => []PageIsOfKey
<1>1. LiveInv => PageIsOfKey
  <2> SUFFICES ASSUME LiveInv PROVE PageIsOfKey
    OBVIOUS
  <2>1. /\ view \in Views /\ key \in Keys
        /\ status \in {"connecting", "open", "closed", "crashed"}
        /\ sock \in Socks(key) /\ shown \in Pages(key)
        /\ db \in [Keys -> 0 .. MaxItems] /\ LiveOnShownKey /\ Sound(view, shown)
    BY DEF LiveInv, LiveShape
  <2>2. LiveTypeOK
    <3>1. sock.phase \in {"none", "connecting", "waiting", "open"}
      BY <2>1 DEF Socks
    <3>2. \A a, b \in shown.series : Bar(a.id) = Bar(b.id) => a = b
      BY <2>1 DEF Sound, OnePerBar
    <3>3. Len(shown.list) <= (IF view = "hits" THEN MaxHits ELSE MaxLive)
      <4>1. Len(shown.seen) \in Nat /\ MaxHits \in Nat
        BY <2>1, LenProperties, LiveViewAssumption DEF Pages
      <4> QED BY <2>1, <4>1 DEF Sound, Remembered, Listed
    <3> QED BY <2>1, <3>1, <3>2, <3>3 DEF LiveTypeOK
  <2>3. ShownIsOfKey
    <3>1. /\ shown.series \subseteq Of(key) /\ shown.last \in Of(key) \cup {Nothing}
          /\ shown.list \in Seq(Of(key))
      BY <2>1 DEF Pages
    <3>2. ToSet(shown.list) \subseteq Of(key)
      BY <3>1, LenProperties, ElementOfSeq DEF ToSet
    <3> QED BY <3>1, <3>2 DEF ShownIsOfKey, Of, Nothing, Item
  <2> QED BY <2>1, <2>2, <2>3, RenderedOnce DEF PageIsOfKey
<1>2. LiveInv /\ [Next]_vars => LiveInv'
  BY LiveKept
<1> QED BY LiveStart, <1>1, <1>2, PTL DEF Spec

\* A candle never leaves the change on another day's baseline, nor moves the
\* baseline within a day, whatever 1d candle arrives when; the baseline is the
\* day's open only if its first candle was seen (useLivePrice.ts:60-72).
THEOREM ChangeIsWithinDay == Spec => ChangeWithinDay
<1>1. LiveInv /\ [Next]_vars =>
         [shown'.last # shown.last /\ shown'.last.key # NoKey =>
             /\ Day(shown'.open.id) = Day(shown'.last.id)
             /\ shown.open.key # NoKey /\ Day(shown.open.id) = Day(shown'.last.id) =>
                   shown'.open = shown.open]_lvars
  BY LiveKept DEF WithinDay
<1>2. LiveInv /\ [Next]_vars => LiveInv'
  BY LiveKept
<1> QED BY LiveStart, <1>1, <1>2, PTL DEF Spec, ChangeWithinDay

\* The states of both pages are well typed.
THEOREM TypeCorrect == Spec => []TypeOK
<1>1. PageIsOfKey /\ ChatInSession => TypeOK
  BY DEF PageIsOfKey, ChatInSession, TypeOK
<1> QED BY LivePageIsOfKey, ChatStaysInSession, <1>1, PTL
=============================================================================
