--------------------------- MODULE ChatTurn_proofs ---------------------------
(***************************************************************************)
(* Theorems about module ChatTurn: for any number of turns, users, texts   *)
(* and faults, the types, the budget, and what a saved answer may be.      *)
(***************************************************************************)
EXTENDS ChatTurn, FiniteSetTheorems, TLAPS

\* Turns that have taken a unit of the budget and not called yet.
Paid == {t \in Turns : pc[t] \in {"stream", "final"}}

\* Calls made and calls paid for are both within what was counted and the quota.
Budget ==
    /\ calls + Cardinality(Paid) <= spent
    /\ calls + Cardinality(Paid) <= DailyQuota

\* What is about to be committed has passed both guards.
Settled ==
    \A t \in Turns : pc[t] = "commit" /\ text[t] \in Texts =>
        FactsIn[text[t]] \subseteq facts[t] /\ text[t] \notin Advice

\* Chatter reaches the guards only when there was no unit for a further round.
NoChatterYet ==
    \A t \in Turns : pc[t] \in {"judge", "commit"} /\ calling[t] => spent > DailyQuota

\* A turn that has not been admitted has made no round.
NotBegun == \A t \in Turns : pc[t] \in {"new", "limit"} => round[t] = 0

\* The inductive invariant.
IInv ==
    /\ TypeOK /\ NotBegun /\ Budget /\ Settled /\ SurfacedIsChecked
    /\ NoChatterYet /\ ChatterOnlyWhenSpent
    /\ ErrorIsExplained /\ SavedWhenDone

-----------------------------------------------------------------------------

LEMMA InitInv == Init => IInv
<1> SUFFICES ASSUME Init PROVE IInv
  OBVIOUS
<1> USE DEF Init
<1>1. TypeOK /\ NotBegun
  BY ChatAssumption DEF TypeOK, NotBegun, Running, Ended, Users
<1>2. Paid = {}
  BY DEF Paid
<1>3. Budget
  BY <1>2, FS_EmptySet, ChatAssumption DEF Budget
<1>4. Settled /\ SurfacedIsChecked /\ NoChatterYet /\ ChatterOnlyWhenSpent
  BY ChatAssumption DEF Settled, SurfacedIsChecked, NoChatterYet, ChatterOnlyWhenSpent
<1>5. ErrorIsExplained /\ SavedWhenDone
  BY DEF ErrorIsExplained, SavedWhenDone
<1> QED BY <1>1, <1>3, <1>4, <1>5 DEF IInv

\* A step of a turn keeps the types.
LEMMA TypeStep ==
    ASSUME TypeOK, NotBegun, NEW t \in Turns, TurnStep(t)
    PROVE  TypeOK' /\ NotBegun'
<1> USE ChatAssumption DEF TypeOK, NotBegun, GoTo, NoFault, Running, Ended
<1>1. CASE Request(t)
  BY <1>1 DEF Request
<1>2. CASE CheckRate(t)
  <2>1. UserOf[t] \in Users
    BY DEF Users
  <2>2. counted' \in [Users -> Nat]
    BY <1>2, <2>1 DEF CheckRate, CountRequest
  <2> QED BY <1>2, <2>2 DEF CheckRate
<1>3. CASE TakeUnit(t)
  BY <1>3 DEF TakeUnit
<1>4. CASE StreamAnswer(t)
  BY <1>4 DEF StreamAnswer
<1>5. CASE StreamTools(t)
  BY <1>5 DEF StreamTools, Called, ToolsPass
<1>6. CASE Synthesize(t)
  BY <1>6 DEF Synthesize
<1>7. CASE Regenerate(t)
  BY <1>7 DEF Regenerate
<1>8. CASE Judge(t)
  BY <1>8 DEF Judge, Surfaced
<1>9. CASE Commit(t)
  BY <1>9 DEF Commit
<1>10. CASE ToolReturnsNaN(t)
  BY <1>10 DEF ToolReturnsNaN, Called, ToolsPass
<1> QED BY <1>1, <1>2, <1>3, <1>4, <1>5, <1>6, <1>7, <1>8, <1>9, <1>10 DEF TurnStep

\* So does a fault.
LEMMA TypeFault ==
    ASSUME TypeOK, NotBegun, NEW t \in Turns, TurnFault(t)
    PROVE  TypeOK' /\ NotBegun'
<1> USE ChatAssumption DEF TypeOK, NotBegun, GoTo, Fault, Running, Ended
<1>1. CASE CheckRateFails(t)
  <2>1. UserOf[t] \in Users
    BY DEF Users
  <2>2. counted' \in [Users -> Nat]
    BY <1>1, <2>1 DEF CheckRateFails, CountRequest
  <2> QED BY <1>1, <2>2 DEF CheckRateFails
<1>2. CASE TakeUnitFails(t)
  BY <1>2 DEF TakeUnitFails
<1>3. CASE ToolBreaksSession(t)
  BY <1>3 DEF ToolBreaksSession, Called, ToolsPass
<1>4. CASE StreamFails(t)
  BY <1>4 DEF StreamFails
<1>5. CASE CommitFails(t)
  BY <1>5 DEF CommitFails
<1>6. CASE Disconnect(t)
  BY <1>6 DEF Disconnect
<1> QED BY <1>1, <1>2, <1>3, <1>4, <1>5, <1>6 DEF TurnFault

-----------------------------------------------------------------------------
(* The budget.                                                              *)

LEMMA PaidFinite == IsFiniteSet(Paid) /\ Cardinality(Paid) \in Nat
BY ChatAssumption, FS_Subset, FS_CardinalityType DEF Paid

\* A turn that is paid for makes its call, whether or not it returns.
LEMMA CallKeepsBudget ==
    ASSUME TypeOK, Budget, NEW t \in Turns, NEW where,
           pc[t] \in {"stream", "final"}, where \notin {"stream", "final"},
           GoTo(t, where), calls' = calls + 1, spent' = spent
    PROVE  Budget'
<1>1. t \in Paid /\ Paid' = Paid \ {t}
  BY DEF Paid, GoTo, TypeOK
<1>2. Cardinality(Paid') = Cardinality(Paid) - 1
  BY <1>1, PaidFinite, FS_RemoveElement
<1> QED BY <1>2, PaidFinite, ChatAssumption DEF Budget, TypeOK

\* A step that neither pays nor calls keeps the budget.
LEMMA OtherKeepsBudget ==
    ASSUME TypeOK, Budget, NEW t \in Turns, NEW where,
           where \notin {"stream", "final"},
           GoTo(t, where), calls' = calls, spent' \in {spent, spent + 1}
    PROVE  Budget'
<1>1. Paid' \subseteq Paid
  BY DEF Paid, GoTo, TypeOK
<1>2. Cardinality(Paid') \in Nat /\ Cardinality(Paid') <= Cardinality(Paid)
  BY <1>1, PaidFinite, FS_Subset, FS_CardinalityType
<1> QED BY <1>2, PaidFinite, ChatAssumption DEF Budget, TypeOK

\* A unit is paid for with the counter that is compared with the quota.
LEMMA UnitKeepsBudget ==
    ASSUME TypeOK, Budget, NEW t \in Turns, TakeUnit(t)
    PROVE  Budget'
<1>1. CASE ~HasUnit
  BY <1>1, OtherKeepsBudget DEF TakeUnit
<1>2. CASE HasUnit
  <2>1. t \notin Paid /\ Paid' = Paid \cup {t}
    BY <1>2 DEF Paid, TakeUnit, GoTo, TypeOK
  <2>2. Cardinality(Paid') = Cardinality(Paid) + 1
    BY <2>1, PaidFinite, FS_AddElement
  <2> QED BY <1>2, <2>2, PaidFinite, ChatAssumption DEF Budget, TypeOK, TakeUnit, HasUnit
<1> QED BY <1>1, <1>2

LEMMA BudgetStep ==
    ASSUME TypeOK, Budget, NEW t \in Turns, TurnStep(t) \/ TurnFault(t)
    PROVE  Budget'
<1>1. CASE TakeUnit(t)
  BY <1>1, UnitKeepsBudget
<1>2. CASE StreamTools(t) \/ ToolReturnsNaN(t) \/ ToolBreaksSession(t)
  <2>1. /\ pc[t] = "stream" /\ calls' = calls + 1 /\ spent' = spent
        /\ GoTo(t, IF round[t] + 1 = MaxRounds THEN "synth" ELSE "round")
    BY <1>2 DEF StreamTools, ToolReturnsNaN, ToolBreaksSession, Called, ToolsPass
  <2> QED BY <2>1, CallKeepsBudget
<1>3. CASE StreamAnswer(t) \/ Synthesize(t) \/ StreamFails(t)
  <2>1. /\ pc[t] \in {"stream", "final"} /\ calls' = calls + 1 /\ spent' = spent
        /\ GoTo(t, "judge") \/ GoTo(t, "error")
    BY <1>3 DEF StreamAnswer, Synthesize, StreamFails
  <2> QED BY <2>1, CallKeepsBudget
<1>4. CASE \/ Request(t) \/ CheckRate(t) \/ Regenerate(t) \/ Judge(t) \/ Commit(t)
           \/ CheckRateFails(t) \/ TakeUnitFails(t) \/ CommitFails(t) \/ Disconnect(t)
  <2>1. /\ calls' = calls /\ spent' \in {spent, spent + 1}
        /\ \E where \in {"refused", "limit", "round", "commit", "error", "done", "gone"} :
              GoTo(t, where)
    BY <1>4 DEF Request, CheckRate, Regenerate, Judge, Commit, CheckRateFails,
                TakeUnitFails, CommitFails, Disconnect
  <2> QED BY <2>1, OtherKeepsBudget
<1> QED BY <1>1, <1>2, <1>3, <1>4 DEF TurnStep, TurnFault

-----------------------------------------------------------------------------
(* The answer.                                                              *)

\* Both guards have passed what is committed, and nothing is committed but that.
LEMMA AnswerStep ==
    ASSUME TypeOK, Settled, SurfacedIsChecked, NEW t \in Turns, TurnStep(t) \/ TurnFault(t)
    PROVE  Settled' /\ SurfacedIsChecked'
<1> USE ChatAssumption DEF Settled, SurfacedIsChecked, TypeOK, GoTo
<1>1. CASE Judge(t)
  <2>1. Surfaced(t) \in Texts => FactsIn[Surfaced(t)] \subseteq facts[t] /\ Surfaced(t) \notin Advice
    BY DEF Surfaced, Grounded
  <2> QED BY <1>1, <2>1 DEF Judge
<1>2. CASE Commit(t)
  BY <1>2 DEF Commit
<1>3. CASE CommitFails(t)
  BY <1>3 DEF CommitFails
<1>4. CASE StreamTools(t) \/ ToolReturnsNaN(t) \/ ToolBreaksSession(t)
  BY <1>4 DEF StreamTools, ToolReturnsNaN, ToolBreaksSession, Called, ToolsPass
<1>5. CASE Regenerate(t)
  BY <1>5 DEF Regenerate
<1>6. CASE StreamAnswer(t) \/ Synthesize(t)
  BY <1>6 DEF StreamAnswer, Synthesize
<1>7. CASE \/ Request(t) \/ CheckRate(t) \/ CheckRateFails(t) \/ TakeUnit(t)
           \/ TakeUnitFails(t) \/ StreamFails(t) \/ Disconnect(t)
  <2>1. /\ text' = text /\ facts' = facts /\ saved' = saved
        /\ \E where \in {"refused", "limit", "round", "stream", "final", "judge", "error", "gone"} :
              GoTo(t, where)
    BY <1>7 DEF Request, CheckRate, CheckRateFails, TakeUnit, TakeUnitFails, StreamFails, Disconnect
  <2> QED BY <2>1
<1> QED BY <1>1, <1>2, <1>3, <1>4, <1>5, <1>6, <1>7 DEF TurnStep, TurnFault

\* spent only grows, and chatter reaches the guards through a refused unit.
LEMMA ChatterStep ==
    ASSUME TypeOK, NoChatterYet, ChatterOnlyWhenSpent, NEW t \in Turns, TurnStep(t) \/ TurnFault(t)
    PROVE  NoChatterYet' /\ ChatterOnlyWhenSpent'
<1> USE ChatAssumption DEF NoChatterYet, ChatterOnlyWhenSpent, TypeOK, GoTo
<1>1. CASE TakeUnit(t)
  BY <1>1 DEF TakeUnit, HasUnit
<1>2. CASE TakeUnitFails(t)
  BY <1>2 DEF TakeUnitFails
<1>3. CASE Commit(t)
  BY <1>3 DEF Commit
<1>4. CASE CommitFails(t)
  BY <1>4 DEF CommitFails
<1>5. CASE StreamTools(t) \/ ToolReturnsNaN(t) \/ ToolBreaksSession(t)
  BY <1>5 DEF StreamTools, ToolReturnsNaN, ToolBreaksSession, Called, ToolsPass
<1>6. CASE StreamAnswer(t) \/ Synthesize(t)
  BY <1>6 DEF StreamAnswer, Synthesize
<1>7. CASE Regenerate(t) \/ Judge(t)
  BY <1>7 DEF Regenerate, Judge
<1>8. CASE Request(t) \/ CheckRate(t) \/ CheckRateFails(t) \/ StreamFails(t) \/ Disconnect(t)
  <2>1. /\ calling' = calling /\ saved' = saved /\ spent' = spent
        /\ \E where \in {"refused", "limit", "round", "error", "gone"} : GoTo(t, where)
    BY <1>8 DEF Request, CheckRate, CheckRateFails, StreamFails, Disconnect
  <2> QED BY <2>1
<1> QED BY <1>1, <1>2, <1>3, <1>4, <1>5, <1>6, <1>7, <1>8 DEF TurnStep, TurnFault

\* Whatever breaks off is hurt, and only the commit saves.
LEMMA SavedStep ==
    ASSUME TypeOK, ErrorIsExplained, SavedWhenDone,
           NEW t \in Turns, TurnStep(t) \/ TurnFault(t)
    PROVE  ErrorIsExplained' /\ SavedWhenDone'
<1> USE ChatAssumption DEF ErrorIsExplained, SavedWhenDone, TypeOK, GoTo, NoFault, Fault
<1>1. CASE Commit(t)
  BY <1>1 DEF Commit
<1>2. CASE CommitFails(t)
  BY <1>2 DEF CommitFails
<1>3. CASE StreamTools(t)
  BY <1>3 DEF StreamTools, Called, ToolsPass
<1>4. CASE ToolReturnsNaN(t) \/ ToolBreaksSession(t)
  BY <1>4 DEF ToolBreaksSession, ToolReturnsNaN, Called, ToolsPass
<1>5. CASE CheckRateFails(t) \/ TakeUnitFails(t) \/ StreamFails(t) \/ Disconnect(t)
  <2>1. /\ hurt' = hurt \cup {t} /\ broken' = broken /\ saved' = saved /\ pc[t] # "done"
        /\ \E where \in {"refused", "error", "gone"} : GoTo(t, where)
    BY <1>5 DEF CheckRateFails, TakeUnitFails, StreamFails, Disconnect, Running
  <2> QED BY <2>1
<1>6. CASE \/ Request(t) \/ CheckRate(t) \/ TakeUnit(t) \/ StreamAnswer(t) \/ Synthesize(t)
           \/ Regenerate(t) \/ Judge(t)
  <2>1. /\ hurt' = hurt /\ broken' = broken /\ saved' = saved /\ pc[t] # "done"
        /\ \E where \in {"refused", "limit", "round", "stream", "final", "judge", "commit"} :
              GoTo(t, where)
    BY <1>6 DEF Request, CheckRate, TakeUnit, StreamAnswer, Synthesize, Regenerate, Judge
  <2> QED BY <2>1
<1> QED BY <1>1, <1>2, <1>3, <1>4, <1>5, <1>6 DEF TurnStep, TurnFault

\* The end of a rate-limit window, and a stutter, touch none of it.
LEMMA RestKeepsInv ==
    ASSUME IInv, (\E u \in Users : WindowEnds(u)) \/ UNCHANGED vars
    PROVE  IInv'
<1>1. UNCHANGED <<pc, pass, round, facts, text, calling, blocked, broken, saved, spent, calls, hurt, faults>>
  BY DEF WindowEnds, NoFault, vars
<1>2. counted' \in [Users -> Nat]
  BY DEF IInv, TypeOK, WindowEnds, vars
<1>3. TypeOK' /\ NotBegun'
  BY <1>1, <1>2 DEF IInv, TypeOK, NotBegun
<1>4. Paid' = Paid
  BY <1>1 DEF Paid
<1>5. Budget' /\ Settled' /\ SurfacedIsChecked'
  BY <1>1, <1>4 DEF IInv, Budget, Settled, SurfacedIsChecked
<1>6. NoChatterYet' /\ ChatterOnlyWhenSpent' /\ ErrorIsExplained' /\ SavedWhenDone'
  BY <1>1 DEF IInv, NoChatterYet, ChatterOnlyWhenSpent, ErrorIsExplained, SavedWhenDone
<1> QED BY <1>3, <1>5, <1>6 DEF IInv

-----------------------------------------------------------------------------

LEMMA Invariant == Spec => []IInv
<1>1. IInv /\ [Next]_vars => IInv'
  <2> SUFFICES ASSUME IInv, [Next]_vars PROVE IInv'
    OBVIOUS
  <2>1. CASE \E t \in Turns : TurnStep(t) \/ TurnFault(t)
    <3> PICK t \in Turns : TurnStep(t) \/ TurnFault(t)
      BY <2>1
    <3>1. TypeOK' /\ NotBegun'
      BY TypeStep, TypeFault DEF IInv
    <3>2. Budget' /\ Settled' /\ SurfacedIsChecked'
      BY BudgetStep, AnswerStep DEF IInv
    <3>3. NoChatterYet' /\ ChatterOnlyWhenSpent' /\ ErrorIsExplained' /\ SavedWhenDone'
      BY ChatterStep, SavedStep DEF IInv
    <3> QED BY <3>1, <3>2, <3>3 DEF IInv
  <2>2. CASE (\E u \in Users : WindowEnds(u)) \/ UNCHANGED vars
    BY <2>2, RestKeepsInv
  <2> QED BY <2>1, <2>2 DEF Next
<1> QED BY InitInv, <1>1, PTL DEF Spec

\* Every reachable state of the turns is well typed: rounds stay below
\* MAX_TOOL_ROUNDS (orchestrator.py:188-225) and only a turn that reached its
\* commit has an answer saved.
THEOREM TypeCorrect == Spec => []TypeOK
<1>1. IInv => TypeOK
  BY DEF IInv
<1> QED BY Invariant, <1>1, PTL

\* However many turns share the counter and whatever fails between the unit
\* and the call, the provider is called at most DailyQuota times
\* (orchestrator.py:77-81, quota.py:36-43).
THEOREM BudgetIsKept == Spec => []CallsWithinQuota
<1>1. IInv => CallsWithinQuota
  BY PaidFinite, ChatAssumption DEF IInv, Budget, CallsWithinQuota, TypeOK
<1> QED BY Invariant, <1>1, PTL

\* A saved answer states only numbers of the tools of its own pass and is no
\* advice, through regenerations, quota stops and faults
\* (orchestrator.py:106-129).
THEOREM SavedAnswerIsChecked == Spec => []SurfacedIsChecked
<1>1. IInv => SurfacedIsChecked
  BY DEF IInv
<1> QED BY Invariant, <1>1, PTL

\* Text that accompanied tool calls is saved as an answer only after the
\* budget ran out (orchestrator.py:145-147, 220-225).
THEOREM ChatterNeedsSpentBudget == Spec => []ChatterOnlyWhenSpent
<1>1. IInv => ChatterOnlyWhenSpent
  BY DEF IInv
<1> QED BY Invariant, <1>1, PTL

\* A turn ends in an error only when a fault has hit it or its session cannot
\* store what its tools returned: a tool that fails does not raise
\* (tools/router.py:24-35), one that returns NaN spoils the commit
\* (market_tools.py:115-123).
THEOREM ErrorsAreExplained == Spec => []ErrorIsExplained
<1>1. IInv => ErrorIsExplained
  BY DEF IInv
<1> QED BY Invariant, <1>1, PTL

\* A turn that is done has saved its messages, one that saved them without being
\* done was hit by a fault at its commit, and one whose session broke saved none
\* (api/chat.py:105-120).
THEOREM AnswersAreSaved == Spec => []SavedWhenDone
<1>1. IInv => SavedWhenDone
  BY DEF IInv
<1> QED BY Invariant, <1>1, PTL
=============================================================================
