------------------------------ MODULE Browser -------------------------------
(***************************************************************************)
(* The frontend with one of its pages open: a live view, or the chat.  The *)
(* pages share the login and nothing these properties tell apart, so a     *)
(* behaviour is of the page that is open and the other is not mounted.     *)
(***************************************************************************)
EXTENDS LiveView, ChatPage

VARIABLE page       \* the route

vars == <<page, lvars, cvars>>

Unmounted == /\ db = [k \in Keys |-> 0]
             /\ key = CHOOSE k \in Keys : TRUE
             /\ view = CHOOSE v \in Views : TRUE

Init ==
    /\ page \in {"live", "chat"}
    /\ LiveInit
    /\ ChatInit
    /\ page = "chat" => Unmounted

Live(step) == page = "live" /\ step /\ UNCHANGED <<page, cvars>>
Chat(step) == page = "chat" /\ step /\ UNCHANGED <<page, lvars>>

Next == Live(LiveNext) \/ Chat(ChatNext)

\* The browser fires the events of a socket that is there and its timers, and
\* a server that is up accepts.
Spec ==
    /\ Init /\ [][Next]_vars
    /\ WF_vars(Live(OpenSocket)) /\ WF_vars(Live(Reconnect))

\* useWebSocket.ts:19-21: a view that is not live becomes live again.
Reconnects == page = "live" /\ status # "open" ~> status \in {"open", "crashed"}

\* The types of both pages' states.
TypeOK == LiveTypeOK /\ ChatTypeOK
=============================================================================
