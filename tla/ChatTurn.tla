------------------------------ MODULE ChatTurn ------------------------------
(***************************************************************************)
(* Concurrent chat turns over one daily LLM budget (app/chat/orchestrator, *)
(* quota, rate_limit, app/api/chat.py).  A turn is admitted, runs rounds   *)
(* of the provider against the tools, is checked by the grounding and the  *)
(* advice guard, regenerated at most once, and commits its messages in one *)
(* transaction of the request's session, which its tools read through too. *)
(*                                                                         *)
(* A text is what the guards tell of it: the facts it states and whether   *)
(* it is advice.  A tool call is the facts it returns, none if it fails.   *)
(***************************************************************************)
EXTENDS Integers, FiniteSets

CONSTANTS
    Turns,           \* POST /sessions/{id}/turns requests
    UserOf,          \* who sent each of them
    Foreign,         \* turns on a session of somebody else
    Facts,           \* numbers a tool may report and a text may state
    Texts,           \* what a provider round may say
    NoWords,         \* the text of a round that says nothing
    FactsIn,         \* the numbers each text states
    Advice,          \* texts that check_advice_language refuses
    MaxRounds,       \* MAX_TOOL_ROUNDS
    DailyQuota,      \* llm_daily_quota
    RateLimit,       \* CHAT_RATE_LIMIT
    MaxFaults        \* bound: calls that fail and clients that leave

ASSUME ChatAssumption ==
    /\ IsFiniteSet(Turns) /\ Foreign \subseteq Turns
    /\ NoWords \in Texts /\ Advice \subseteq Texts
    /\ FactsIn \in [Texts -> SUBSET Facts] /\ FactsIn[NoWords] = {}
    /\ MaxRounds \in Nat \ {0} /\ DailyQuota \in Nat /\ RateLimit \in Nat
    /\ MaxFaults \in Nat
    /\ {"none", "fallback", "quota"} \cap Texts = {}

Users == {UserOf[t] : t \in Turns}

VARIABLES
    pc,              \* where each turn is
    pass,            \* 1, or 2 when regenerating
    round,           \* rounds of the pass that called tools
    facts,           \* numbers of the pass's tool results
    text,            \* final_text
    calling,         \* last_had_calls
    blocked,         \* quota_blocked of the pass
    broken,          \* sessions that can flush and query no more
    saved,           \* the committed answer, "none" before
    spent,           \* llm_quota:<provider>:<date>
    counted,         \* chat_rate_limit:<user>
    calls,           \* history: provider calls made
    hurt,            \* history: turns a fault has hit
    faults

vars == <<pc, pass, round, facts, text, calling, blocked, broken, saved, spent,
          counted, calls, hurt, faults>>

Running == {"limit", "round", "stream", "synth", "final", "judge", "commit"}
Ended   == {"done", "refused", "error", "gone"}

TypeOK ==
    /\ pc \in [Turns -> {"new"} \cup Running \cup Ended]
    /\ pass \in [Turns -> 1 .. 2]
    /\ round \in [Turns -> 0 .. MaxRounds]
    /\ facts \in [Turns -> SUBSET Facts]
    /\ text \in [Turns -> Texts \cup {"fallback", "quota"}]
    /\ calling \in [Turns -> BOOLEAN]
    /\ blocked \in [Turns -> BOOLEAN]
    /\ broken \subseteq Turns
    /\ saved \in [Turns -> Texts \cup {"none", "fallback", "quota"}]
    /\ \A t \in Turns : /\ pc[t] \in {"stream", "round"} => round[t] < MaxRounds
                        /\ pc[t] \in {"synth", "final"} => calling[t]
                        /\ saved[t] # "none" => pc[t] \in {"done", "error", "gone"}
    /\ spent \in Nat /\ calls \in Nat
    /\ counted \in [Users -> Nat]
    /\ hurt \subseteq Turns
    /\ faults \in 0 .. MaxFaults

Init ==
    /\ pc = [t \in Turns |-> "new"]
    /\ pass = [t \in Turns |-> 1]
    /\ round = [t \in Turns |-> 0]
    /\ facts = [t \in Turns |-> {}]
    /\ text = [t \in Turns |-> NoWords]
    /\ calling = [t \in Turns |-> FALSE]
    /\ blocked = [t \in Turns |-> FALSE]
    /\ broken = {}
    /\ saved = [t \in Turns |-> "none"]
    /\ spent = 0
    /\ counted = [u \in Users |-> 0]
    /\ calls = 0
    /\ hurt = {}
    /\ faults = 0

GoTo(t, where) == pc' = [pc EXCEPT ![t] = where]
Fault(t) == faults < MaxFaults /\ faults' = faults + 1 /\ hurt' = hurt \cup {t}
NoFault  == UNCHANGED <<faults, hurt>>

-----------------------------------------------------------------------------
(* Admission.                                                              *)

\* The owner is checked before anything is counted.
Request(t) ==
    /\ pc[t] = "new"
    /\ GoTo(t, IF t \in Foreign THEN "refused" ELSE "limit")
    /\ NoFault
    /\ UNCHANGED <<pass, round, facts, text, calling, blocked, broken, saved,
                   spent, counted, calls>>

CountRequest(t) == counted' = [counted EXCEPT ![UserOf[t]] = @ + 1]

CheckRate(t) ==
    /\ pc[t] = "limit"
    /\ CountRequest(t)
    /\ GoTo(t, IF counted[UserOf[t]] < RateLimit THEN "round" ELSE "refused")
    /\ NoFault
    /\ UNCHANGED <<pass, round, facts, text, calling, blocked, broken, saved,
                   spent, calls>>

\* Redis is unreachable, before or after it counted: fail closed.
CheckRateFails(t) ==
    /\ Fault(t)
    /\ pc[t] = "limit"
    /\ CountRequest(t) \/ UNCHANGED counted
    /\ GoTo(t, "refused")
    /\ UNCHANGED <<pass, round, facts, text, calling, blocked, broken, saved,
                   spent, calls>>

\* The fixed window of a user ends.
WindowEnds(u) ==
    /\ counted[u] > 0
    /\ counted' = [counted EXCEPT ![u] = 0]
    /\ NoFault
    /\ UNCHANGED <<pc, pass, round, facts, text, calling, blocked, broken, saved,
                   spent, calls>>

-----------------------------------------------------------------------------
(* _run_rounds.                                                            *)

\* Mutant of HasUnit: the counter is compared with one too many.
HasOneMore == spent <= DailyQuota

\* What INCR returns is within the quota.
HasUnit == spent < DailyQuota

\* One unit of the budget per provider round; when there is none the pass ends.
TakeUnit(t) ==
    /\ pc[t] \in {"round", "synth"}
    /\ spent' = spent + 1
    /\ blocked' = [blocked EXCEPT ![t] = ~HasUnit]
    /\ GoTo(t, IF ~HasUnit THEN "judge"
               ELSE IF pc[t] = "round" THEN "stream" ELSE "final")
    /\ NoFault
    /\ UNCHANGED <<pass, round, facts, text, calling, broken, saved, counted, calls>>

\* Redis raises; the unit may have been counted.
TakeUnitFails(t) ==
    /\ Fault(t)
    /\ pc[t] \in {"round", "synth"}
    /\ spent' \in {spent, spent + 1}
    /\ GoTo(t, "error")
    /\ UNCHANGED <<pass, round, facts, text, calling, blocked, broken, saved,
                   counted, calls>>

\* A round without tool calls is the last of its pass.
StreamAnswer(t) ==
    /\ pc[t] = "stream"
    /\ \E said \in Texts : text' = [text EXCEPT ![t] = said]
    /\ calling' = [calling EXCEPT ![t] = FALSE]
    /\ calls' = calls + 1
    /\ GoTo(t, "judge")
    /\ NoFault
    /\ UNCHANGED <<pass, round, facts, blocked, broken, saved, spent, counted>>

\* A round with calls: its text is chatter, its results are the model's to use.
Called(t, found) ==
    /\ \E said \in Texts : text' = [text EXCEPT ![t] = said]
    /\ calling' = [calling EXCEPT ![t] = TRUE]
    /\ facts' = [facts EXCEPT ![t] = @ \cup found]
    /\ round' = [round EXCEPT ![t] = @ + 1]
    /\ calls' = calls + 1

\* Mutant of ToolsPass: the last round's chatter is left as the answer.
NoSynthesis(t) == GoTo(t, IF round[t] + 1 = MaxRounds THEN "judge" ELSE "round")

\* After the last round a synthesis without tools follows.
ToolsPass(t) == GoTo(t, IF round[t] + 1 = MaxRounds THEN "synth" ELSE "round")

\* Mutant of StreamTools: a failing tool raises out of the loop.
StreamToolsRaising(t) ==
    /\ pc[t] = "stream"
    /\ \E found \in SUBSET Facts :
          /\ t \in broken => found = {}
          /\ Called(t, found)
          /\ IF found = {} THEN GoTo(t, "error") ELSE ToolsPass(t)
    /\ NoFault
    /\ UNCHANGED <<pass, blocked, broken, saved, spent, counted>>

\* dispatch_tool_call never raises.  In a broken session every query fails, so
\* every tool does.
StreamTools(t) ==
    /\ pc[t] = "stream"
    /\ \E found \in SUBSET Facts :
          /\ t \in broken => found = {}
          /\ Called(t, found)
    /\ ToolsPass(t)
    /\ NoFault
    /\ UNCHANGED <<pass, blocked, broken, saved, spent, counted>>

\* A tool returns NaN, as get_indicators does of 20 to 27 candles: JSONB refuses
\* its record, with which every later query of the session is flushed, and the
\* commit.
ToolReturnsNaN(t) ==
    /\ pc[t] = "stream" /\ t \notin broken
    /\ \E found \in SUBSET Facts : Called(t, found)
    /\ ToolsPass(t)
    /\ broken' = broken \cup {t}
    /\ NoFault
    /\ UNCHANGED <<pass, blocked, saved, spent, counted>>

\* A query of one of the tools fails in the database: its result is an error,
\* and the transaction the request's session has open is aborted.
ToolBreaksSession(t) ==
    /\ Fault(t)
    /\ pc[t] = "stream"
    /\ \E found \in SUBSET Facts :
          /\ t \in broken => found = {}
          /\ Called(t, found)
    /\ ToolsPass(t)
    /\ broken' = broken \cup {t}
    /\ UNCHANGED <<pass, blocked, saved, spent, counted>>

Synthesize(t) ==
    /\ pc[t] = "final"
    /\ \E said \in Texts : text' = [text EXCEPT ![t] = said]
    /\ calling' = [calling EXCEPT ![t] = FALSE]
    /\ calls' = calls + 1
    /\ GoTo(t, "judge")
    /\ NoFault
    /\ UNCHANGED <<pass, round, facts, blocked, broken, saved, spent, counted>>

\* The provider raises in the middle of its stream.
StreamFails(t) ==
    /\ Fault(t)
    /\ pc[t] \in {"stream", "final"}
    /\ calls' = calls + 1
    /\ GoTo(t, "error")
    /\ UNCHANGED <<pass, round, facts, text, calling, blocked, broken, saved,
                   spent, counted>>

-----------------------------------------------------------------------------
(* run_chat_turn after a pass.                                             *)

\* check_grounding: every number stated is one of this pass's results.
Grounded(t) == FactsIn[text[t]] \subseteq facts[t]

OutOfQuota(t) == pass[t] = 1 /\ blocked[t] /\ text[t] = NoWords

\* Only the first pass is followed by another, and only within the budget.
Regenerates(t) == pass[t] = 1 /\ ~blocked[t] /\ ~Grounded(t)

\* The second pass starts from the base messages, with no results of its own.
Regenerate(t) ==
    /\ pc[t] = "judge" /\ Regenerates(t)
    /\ pass' = [pass EXCEPT ![t] = 2]
    /\ round' = [round EXCEPT ![t] = 0]
    /\ facts' = [facts EXCEPT ![t] = {}]
    /\ text' = [text EXCEPT ![t] = NoWords]
    /\ calling' = [calling EXCEPT ![t] = FALSE]
    /\ GoTo(t, "round")
    /\ NoFault
    /\ UNCHANGED <<blocked, broken, saved, spent, counted, calls>>

\* Mutant of Surfaced: a regenerated answer is not checked for advice.
SurfacedGrounded(t) ==
    IF OutOfQuota(t) THEN "quota"
    ELSE IF Grounded(t) /\ (pass[t] = 2 \/ text[t] \notin Advice) THEN text[t]
    ELSE "fallback"

\* What is surfaced: the text if both guards accept it, else a fallback.
Surfaced(t) ==
    IF OutOfQuota(t) THEN "quota"
    ELSE IF Grounded(t) /\ text[t] \notin Advice THEN text[t]
    ELSE "fallback"

Judge(t) ==
    /\ pc[t] = "judge" /\ ~Regenerates(t)
    /\ text' = [text EXCEPT ![t] = Surfaced(t)]
    /\ GoTo(t, "commit")
    /\ NoFault
    /\ UNCHANGED <<pass, round, facts, calling, blocked, broken, saved, spent,
                   counted, calls>>

\* The turn's messages are flushed and committed: of a broken session the flush
\* raises.
Commit(t) ==
    /\ pc[t] = "commit"
    /\ saved' = [saved EXCEPT ![t] = IF t \in broken THEN @ ELSE text[t]]
    /\ GoTo(t, IF t \in broken THEN "error" ELSE "done")
    /\ NoFault
    /\ UNCHANGED <<pass, round, facts, text, calling, blocked, broken, spent,
                   counted, calls>>

\* The commit raises; it may have been applied.
CommitFails(t) ==
    /\ Fault(t)
    /\ pc[t] = "commit"
    /\ saved' \in {saved, [saved EXCEPT ![t] = IF t \in broken THEN @ ELSE text[t]]}
    /\ GoTo(t, "error")
    /\ UNCHANGED <<pass, round, facts, text, calling, blocked, broken, spent,
                   counted, calls>>

\* The client goes away and the response task is cancelled.
Disconnect(t) ==
    /\ Fault(t)
    /\ pc[t] \in Running \ {"limit"}
    /\ GoTo(t, "gone")
    /\ UNCHANGED <<pass, round, facts, text, calling, blocked, broken, saved,
                   spent, counted, calls>>

TurnStep(t) ==
    \/ Request(t)
    \/ CheckRate(t)
    \/ TakeUnit(t)
    \/ StreamAnswer(t)
    \/ StreamTools(t)
    \/ ToolReturnsNaN(t)
    \/ Synthesize(t)
    \/ Regenerate(t)
    \/ Judge(t)
    \/ Commit(t)

TurnFault(t) ==
    \/ CheckRateFails(t)
    \/ TakeUnitFails(t)
    \/ ToolBreaksSession(t)
    \/ StreamFails(t)
    \/ CommitFails(t)
    \/ Disconnect(t)

Next ==
    \/ \E t \in Turns : TurnStep(t) \/ TurnFault(t)
    \/ \E u \in Users : WindowEnds(u)

Spec == Init /\ [][Next]_vars

\* asyncio runs the task of a request whose call has returned; a provider's
\* stream ends.
FairSpec == Spec /\ \A t \in Turns : WF_vars(TurnStep(t))

-----------------------------------------------------------------------------
(* Properties.                                                             *)

\* orchestrator.py:117-120 and :122-127: an answer a user sees states only
\* numbers from the tools of the pass it was produced in, and is no advice.
SurfacedIsChecked ==
    \A t \in Turns : saved[t] \in Texts =>
        FactsIn[saved[t]] \subseteq facts[t] /\ saved[t] \notin Advice

\* orchestrator.py:77-81: the budget is consumed per provider round, so that
\* no number of concurrent turns makes more provider calls than the quota.
CallsWithinQuota == calls <= DailyQuota

\* orchestrator.py:145-147, :220-223: the text of a round that called tools is
\* chatter.  It is surfaced as an answer only when the budget has run out.
ChatterOnlyWhenSpent ==
    \A t \in Turns : saved[t] \in Texts /\ calling[t] => spent > DailyQuota

\* tools/router.py:4-6: a failing tool becomes a safe result, so a turn that no
\* call of its own failed ends with an answer, if its session can still store
\* what its tools returned.
ErrorIsExplained == \A t \in Turns : pc[t] = "error" => t \in hurt \cup broken

\* A turn that was answered or refused left no message behind it but all of
\* them, one that broke off only by a failing commit, and one none whose tool
\* records could not be stored with it.
SavedWhenDone ==
    \A t \in Turns : /\ pc[t] = "done" => saved[t] # "none"
                     /\ saved[t] # "none" => pc[t] = "done" \/ t \in hurt
                     /\ t \in broken => saved[t] = "none"

\* orchestrator.py:69-130, api/chat.py:105-120: whatever the model, its tools
\* and the budget do, a turn comes to its end: with its messages saved,
\* refused, with its client gone, or in an error that a fault explains or a
\* result that cannot be stored.
EndsSaved ==
    \A t \in Turns : <>[](/\ pc[t] \in Ended
                          /\ pc[t] = "done" => saved[t] # "none"
                          /\ pc[t] = "error" => t \in hurt \cup broken)
=============================================================================
