------------------------- MODULE ScanWorker_proofs --------------------------
(***************************************************************************)
(* Theorems about module ScanWorker: types, and what the scanner promises  *)
(* of its hits for any number of jobs, rules, timeframes and faults.       *)
(***************************************************************************)
EXTENDS ScanWorker, TLAPS

\* The steps of a job whose own insert made the row.
Holding == {"claim", "publish", "alert"}

\* A running job is at a rule, and in the loop perhaps behind the last one; it
\* found all rules that are not deleted since, and the market open.
AtRule ==
    \A j \in Jobs :
        /\ pc[j] \in Steps => at[j] \in 1 .. Len(Rules) + 1
        /\ pc[j] \in Steps \ {"loop"} => at[j] \in RuleIds
        /\ pc[j] \in Steps => RuleIds \ deleted \subseteq loaded[j] /\ JobTs[j] \in Session
        /\ pc[j] = "done" /\ JobTs[j] \in Session => at[j] = Len(Rules) + 1

\* Behind the insert the row is there, its own or the one it ran into, if any.
RowBehindInsert ==
    \A j \in Jobs :
        /\ pc[j] \in Holding => hits[Row(j)] # NoRow
        /\ pc[j] = "rollback" => hits[Row(j)] # NoRow \/ at[j] \in deleted

\* The row was made by one insert, so one job at most fans it out.
OneHolder ==
    \A j, g \in Jobs : pc[j] \in Holding /\ pc[g] \in Holding /\ Row(j) = Row(g) => j = g

\* Until the holder does, nobody has fanned it out.
NotYetTold ==
    \A j \in Jobs :
        /\ pc[j] \in {"claim", "publish"} => published[Row(j)] = 0
        /\ pc[j] \in Holding => alerts[Row(j)] = 0

\* The rules a job has passed, that fire and that stand have their rows.
PassedIsRecorded ==
    \A j \in Jobs, r \in RuleIds \ deleted :
        /\ pc[j] \in Steps \cup {"done"} /\ JobTs[j] \in Session
        /\ r < at[j] /\ JobTf[j] \in RuleTfs[r] /\ <<r, JobTf[j], JobTs[j]>> \in Firing
        => hits[<<r, JobTs[j]>>] # NoRow

HitsInv ==
    /\ AtRule /\ RowBehindInsert /\ OneHolder /\ NotYetTold /\ PassedIsRecorded
    /\ FannedOutOnce /\ KeyImpliesRow /\ UnalertedAccounted

LEMMA InitInv == Init => TypeOK /\ HitsInv
<1> SUFFICES ASSUME Init PROVE TypeOK /\ HitsInv
  OBVIOUS
<1> USE ScanAssumption DEF Init
<1>1. TypeOK
  BY DEF TypeOK, None, Steps, Ended
<1>2. HitsInv
  BY DEF HitsInv, AtRule, RowBehindInsert, OneHolder, NotYetTold, PassedIsRecorded,
         FannedOutOnce, KeyImpliesRow, UnalertedAccounted, Holding, Steps
<1> QED BY <1>1, <1>2

\* A job's row and key are ones the tables can hold.
LEMMA RowTyped ==
    ASSUME TypeOK, NEW j \in Jobs, at[j] \in RuleIds
    PROVE  Row(j) \in Rows /\ Key(j) \in Keys /\ JobTf[j] \in TFs /\ JobTf[j] # NoRow
BY ScanAssumption DEF Row, Key, Rows, Keys, RuleIds, Bars

LEMMA TypeStep ==
    ASSUME TypeOK, AtRule, [Next]_vars
    PROVE  TypeOK'
<1> USE ScanAssumption DEF TypeOK
<1>1. CASE UNCHANGED vars
  BY <1>1 DEF vars
<1>2. ASSUME NEW r \in RuleIds, DeleteRule(r) PROVE TypeOK'
  BY <1>2 DEF DeleteRule, Fault
<1>3. ASSUME NEW j \in Jobs, Enqueue(j) PROVE TypeOK'
  BY <1>3 DEF Enqueue, Steps
<1>4. ASSUME NEW j \in Jobs, JobStep(j) PROVE TypeOK'
  <2> USE DEF Move, NextRule, Steps, Ended, None, RuleIds
  <2>1. CASE StartJob(j)
    BY <2>1 DEF StartJob
  <2>2. CASE SkipRule(j)
    BY <2>2 DEF SkipRule
  <2>3. CASE ReadExpiredRule(j)
    BY <2>3 DEF ReadExpiredRule
  <2>4. CASE TryInsert(j)
    BY <2>4 DEF TryInsert
  <2>5. CASE Insert(j)
    BY <2>5, RowTyped DEF Insert, AtRule
  <2>6. CASE Duplicate(j)
    BY <2>6 DEF Duplicate
  <2>7. CASE ClaimDuplicate(j)
    <3>1. at[j] \in RuleIds
      BY <2>7 DEF ClaimDuplicate, AtRule
    <3>2. Row(j) \in Rows /\ Key(j) \in Keys
      BY <3>1, RowTyped
    <3> QED BY <2>7, <3>1, <3>2 DEF ClaimDuplicate
  <2>8. CASE ClaimHit(j)
    BY <2>8, RowTyped DEF ClaimHit, AtRule
  <2>9. CASE PublishHit(j)
    <3>1. at[j] \in RuleIds
      BY <2>9 DEF PublishHit, AtRule
    <3>2. Row(j) \in Rows /\ Key(j) \in Keys
      BY <3>1, RowTyped
    <3> QED BY <2>9, <3>1, <3>2 DEF PublishHit
  <2>10. CASE EnqueueAlert(j)
    <3>1. at[j] \in RuleIds
      BY <2>10 DEF EnqueueAlert, AtRule
    <3>2. Row(j) \in Rows /\ Key(j) \in Keys
      BY <3>1, RowTyped
    <3>3. alerts' \in [Rows -> Nat]
      BY <2>10, <3>2 DEF EnqueueAlert
    <3>4. at' \in [Jobs -> RuleIds \cup {None, Len(Rules) + 1}]
      BY <2>10, <3>1 DEF EnqueueAlert
    <3> QED BY <2>10, <3>3, <3>4 DEF EnqueueAlert
  <2>11. CASE FinishJob(j)
    BY <2>11 DEF FinishJob
  <2>12. CASE LeaveClosedBar(j)
    BY <2>12 DEF LeaveClosedBar
  <2> QED BY <1>4, <2>1, <2>2, <2>3, <2>4, <2>5, <2>6, <2>7, <2>8, <2>9, <2>10, <2>11, <2>12
          DEF JobStep
<1>5. ASSUME NEW j \in Jobs, CallFails(j) PROVE TypeOK'
  <2>1. pc[j] \in Holding \cup {"insert"} => Row(j) \in Rows /\ JobTf[j] \in TFs
    BY RowTyped DEF AtRule, Steps, Holding
  <2>2. pc' \in [Jobs -> {"unsent", "queued"} \cup Steps \cup Ended]
    BY <1>5 DEF CallFails, Ended
  <2>3. hits' \in [Rows -> TFs \cup {NoRow}] /\ cut' \subseteq Rows
    BY <1>5, <2>1 DEF CallFails, Abandoned, Holding
  <2> QED BY <1>5, <2>2, <2>3 DEF CallFails, Fault
<1>6. ASSUME NEW j \in Jobs, Interrupt(j) PROVE TypeOK'
  <2>1. pc[j] \in Holding \cup {"insert"} => Row(j) \in Rows /\ JobTf[j] \in TFs
    BY RowTyped DEF AtRule, Steps, Holding
  <2>2. pc' \in [Jobs -> {"unsent", "queued"} \cup Steps \cup Ended]
    BY <1>6 DEF Interrupt
  <2>3. hits' \in [Rows -> TFs \cup {NoRow}] /\ cut' \subseteq Rows
    BY <1>6, <2>1 DEF Interrupt, Abandoned, Holding
  <2> QED BY <1>6, <2>2, <2>3 DEF Interrupt, Fault, None
<1>7. CASE ExpireKey
  BY <1>7 DEF ExpireKey, Fault
<1> QED BY <1>1, <1>2, <1>3, <1>4, <1>5, <1>6, <1>7 DEF Next

LEMMA AtRuleStep ==
    ASSUME TypeOK, AtRule, [Next]_vars
    PROVE  AtRule'
<1> USE ScanAssumption DEF AtRule, Steps, RuleIds
<1>1. CASE UNCHANGED vars
  BY <1>1 DEF vars
<1>2. ASSUME NEW j \in Jobs, JobStep(j) PROVE AtRule'
  <2> USE DEF Move, NextRule, TypeOK
  <2>1. CASE StartJob(j)
    BY <2>1 DEF StartJob
  <2>2. CASE SkipRule(j)
    BY <2>2 DEF SkipRule
  <2>3. CASE ReadExpiredRule(j)
    BY <2>3 DEF ReadExpiredRule
  <2>4. CASE TryInsert(j)
    BY <2>4 DEF TryInsert
  <2>5. CASE Insert(j)
    BY <2>5 DEF Insert
  <2>6. CASE Duplicate(j)
    BY <2>6 DEF Duplicate
  <2>7. CASE ClaimDuplicate(j)
    BY <2>7 DEF ClaimDuplicate
  <2>8. CASE ClaimHit(j)
    BY <2>8 DEF ClaimHit
  <2>9. CASE PublishHit(j)
    BY <2>9 DEF PublishHit
  <2>10. CASE EnqueueAlert(j)
    BY <2>10 DEF EnqueueAlert
  <2>11. CASE FinishJob(j)
    BY <2>11 DEF FinishJob
  <2>12. CASE LeaveClosedBar(j)
    BY <2>12 DEF LeaveClosedBar
  <2> QED BY <1>2, <2>1, <2>2, <2>3, <2>4, <2>5, <2>6, <2>7, <2>8, <2>9, <2>10, <2>11, <2>12
          DEF JobStep
<1>3. ASSUME NEW j \in Jobs, Enqueue(j) \/ CallFails(j) \/ Interrupt(j) PROVE AtRule'
  BY <1>3 DEF Enqueue, CallFails, Interrupt, TypeOK
<1>4. CASE ExpireKey \/ \E r \in RuleIds : DeleteRule(r)
  BY <1>4 DEF ExpireKey, DeleteRule
<1> QED BY <1>1, <1>2, <1>3, <1>4 DEF Next

\* Rows are never deleted or taken over.
LEMMA HitsGrow ==
    ASSUME TypeOK, AtRule, [Next]_vars, NEW r \in Rows, hits[r] # NoRow
    PROVE  hits'[r] = hits[r]
BY DEF Next, vars, JobStep, StartJob, LeaveClosedBar, SkipRule, ReadExpiredRule, TryInsert, Insert,
   Duplicate, ClaimDuplicate, ClaimHit, PublishHit, EnqueueAlert, FinishJob, Enqueue,
   CallFails, Interrupt, ExpireKey, DeleteRule, TypeOK

\* What one job does leaves the places of the others alone.
OthersKeep(j) == \A g \in Jobs : g # j => pc'[g] = pc[g] /\ at'[g] = at[g]

LEMMA JobAlone ==
    ASSUME TypeOK, NEW j \in Jobs,
           Enqueue(j) \/ JobStep(j) \/ CallFails(j) \/ Interrupt(j)
    PROVE  OthersKeep(j)
BY DEF OthersKeep, JobStep, StartJob, LeaveClosedBar, SkipRule, ReadExpiredRule, TryInsert, Insert,
   Duplicate, ClaimDuplicate, ClaimHit, PublishHit, EnqueueAlert, FinishJob, Enqueue,
   CallFails, Interrupt, Move, NextRule, TypeOK

\* What is said of the jobs that hold a row and of what was told of it.
HoldInv == RowBehindInsert /\ OneHolder /\ NotYetTold /\ FannedOutOnce /\ UnalertedAccounted

\* A step of a job outside the stretch from its insert to its alert.
LEMMA QuietStep ==
    ASSUME TypeOK, HoldInv, NEW j \in Jobs, OthersKeep(j),
           pc[j] \notin Holding, pc'[j] \notin Holding,
           pc'[j] = "rollback" => at'[j] = at[j] /\ (hits[Row(j)] # NoRow \/ at[j] \in deleted),
           UNCHANGED <<hits, published, alerts, cut, deleted>>
    PROVE  HoldInv'
<1> USE DEF HoldInv
<1>1. \A g \in Jobs : g # j => pc'[g] = pc[g] /\ Row(g)' = Row(g) /\ at'[g] = at[g]
  BY DEF OthersKeep, Row
<1>2. pc'[j] = "rollback" => Row(j)' = Row(j)
  BY DEF Row
<1> HIDE DEF Row
<1>3. RowBehindInsert'
  BY <1>1, <1>2 DEF RowBehindInsert
<1>4. OneHolder'
  BY <1>1 DEF OneHolder
<1>5. NotYetTold'
  BY <1>1 DEF NotYetTold, Holding
<1>6. FannedOutOnce'
  BY DEF FannedOutOnce
<1>7. UnalertedAccounted'
  BY <1>1 DEF UnalertedAccounted, Holding
<1> QED BY <1>3, <1>4, <1>5, <1>6, <1>7

\* The stretch from the insert to the alert, and what cuts it short.
LEMMA HoldStep ==
    ASSUME TypeOK, AtRule, HoldInv, KeyImpliesRow, NEW j \in Jobs,
           Enqueue(j) \/ JobStep(j) \/ CallFails(j) \/ Interrupt(j)
    PROVE  HoldInv'
<1> USE DEF Move, NextRule
<1>0. OthersKeep(j)
  BY JobAlone
<1>1. /\ \A g \in Jobs : g # j => pc'[g] = pc[g] /\ Row(g)' = Row(g) /\ at'[g] = at[g]
      /\ deleted' = deleted
  BY <1>0 DEF OthersKeep, Row, Enqueue, JobStep, StartJob, LeaveClosedBar, SkipRule,
     ReadExpiredRule, TryInsert, Insert, Duplicate, ClaimDuplicate, ClaimHit, PublishHit,
     EnqueueAlert, FinishJob, CallFails, Interrupt
<1>2. at'[j] = at[j] => Row(j)' = Row(j)
  BY DEF Row
<1>3. pc[j] \in Holding \cup {"insert"} => Row(j) \in Rows
  BY RowTyped DEF AtRule, Steps, Holding
<1>4. \A g \in Jobs : pc[g] \in Holding \cup {"rollback"} => Row(g) \in Rows
  BY RowTyped DEF AtRule, Steps, Holding
<1>5. CASE \/ Enqueue(j) \/ StartJob(j) \/ LeaveClosedBar(j) \/ SkipRule(j) \/ ReadExpiredRule(j) \/ TryInsert(j)
           \/ Duplicate(j) \/ ClaimDuplicate(j) \/ FinishJob(j)
  <2>1. /\ pc[j] \notin Holding /\ pc'[j] \notin Holding
        /\ pc'[j] = "rollback" => at'[j] = at[j] /\ (hits[Row(j)] # NoRow \/ at[j] \in deleted)
        /\ UNCHANGED <<hits, published, alerts, cut, deleted>>
    BY <1>5 DEF Enqueue, StartJob, LeaveClosedBar, SkipRule, ReadExpiredRule, TryInsert, Duplicate,
       ClaimDuplicate, FinishJob, Holding, TypeOK
  <2> QED BY <1>0, <2>1, QuietStep
<1>6. CASE Insert(j)
  <2>1. /\ pc[j] = "insert" /\ pc'[j] = "claim" /\ Row(j)' = Row(j) /\ Row(j) \in Rows
        /\ hits[Row(j)] = NoRow /\ UNCHANGED <<published, alerts, cut>>
        /\ hits'[Row(j)] # NoRow
        /\ \A r \in Rows : r # Row(j) => hits'[r] = hits[r]
    BY <1>2, <1>3, <1>6, RowTyped DEF Insert, TypeOK, AtRule, Steps
  <2>2. \A g \in Jobs : pc[g] \in Holding => Row(g) # Row(j)
    BY <2>1 DEF HoldInv, RowBehindInsert
  <2>3. published[Row(j)] = 0 /\ alerts[Row(j)] = 0
    BY <2>1 DEF KeyImpliesRow, TypeOK
  <2> HIDE DEF Row
  <2>4. RowBehindInsert'
    BY <1>1, <1>4, <2>1, <2>2 DEF HoldInv, RowBehindInsert, Holding
  <2>5. OneHolder'
    BY <1>1, <2>1, <2>2 DEF HoldInv, OneHolder, Holding
  <2>6. NotYetTold'
    BY <1>1, <2>1, <2>3 DEF HoldInv, NotYetTold, Holding
  <2>7. FannedOutOnce'
    BY <2>1 DEF HoldInv, FannedOutOnce
  <2>8. UnalertedAccounted'
    BY <1>1, <2>1 DEF HoldInv, UnalertedAccounted
  <2> QED BY <2>4, <2>5, <2>6, <2>7, <2>8 DEF HoldInv
<1>7. CASE ClaimHit(j)
  <2>1. /\ pc[j] = "claim" /\ pc'[j] = "publish" /\ Row(j)' = Row(j)
        /\ UNCHANGED <<hits, published, alerts, cut>>
    BY <1>2, <1>7 DEF ClaimHit, TypeOK
  <2> HIDE DEF Row
  <2>2. RowBehindInsert' /\ OneHolder' /\ NotYetTold'
    BY <1>1, <2>1 DEF HoldInv, RowBehindInsert, OneHolder, NotYetTold, Holding
  <2>3. FannedOutOnce' /\ UnalertedAccounted'
    BY <1>1, <2>1 DEF HoldInv, FannedOutOnce, UnalertedAccounted
  <2> QED BY <2>2, <2>3 DEF HoldInv
<1>8. CASE PublishHit(j)
  <2>1. /\ pc[j] = "publish" /\ pc'[j] = "alert" /\ Row(j)' = Row(j) /\ Row(j) \in Rows
        /\ UNCHANGED <<hits, alerts, cut>> /\ published'[Row(j)] = published[Row(j)] + 1
        /\ \A r \in Rows : r # Row(j) => published'[r] = published[r]
    BY <1>2, <1>3, <1>8 DEF PublishHit, TypeOK, Holding
  <2>2. published[Row(j)] = 0 /\ \A g \in Jobs : g # j /\ pc[g] \in Holding => Row(g) # Row(j)
    BY <2>1 DEF HoldInv, NotYetTold, OneHolder, Holding
  <2> HIDE DEF Row
  <2>3. RowBehindInsert' /\ OneHolder'
    BY <1>1, <2>1 DEF HoldInv, RowBehindInsert, OneHolder, Holding
  <2>4. NotYetTold'
    BY <1>1, <1>4, <2>1, <2>2 DEF HoldInv, NotYetTold, Holding
  <2>5. FannedOutOnce' /\ UnalertedAccounted'
    BY <1>1, <2>1, <2>2 DEF HoldInv, FannedOutOnce, UnalertedAccounted
  <2> QED BY <2>3, <2>4, <2>5 DEF HoldInv
<1>9. CASE EnqueueAlert(j)
  <2>1. /\ pc[j] = "alert" /\ pc'[j] = "loop" /\ Row(j) \in Rows
        /\ UNCHANGED <<hits, published, cut>> /\ alerts'[Row(j)] = alerts[Row(j)] + 1
        /\ \A r \in Rows : r # Row(j) => alerts'[r] = alerts[r]
    BY <1>3, <1>9 DEF EnqueueAlert, TypeOK, Holding
  <2>2. alerts[Row(j)] = 0 /\ \A g \in Jobs : g # j /\ pc[g] \in Holding => Row(g) # Row(j)
    BY <2>1 DEF HoldInv, NotYetTold, OneHolder, Holding
  <2> HIDE DEF Row
  <2>3. RowBehindInsert' /\ OneHolder'
    BY <1>1, <2>1 DEF HoldInv, RowBehindInsert, OneHolder, Holding
  <2>4. NotYetTold'
    BY <1>1, <1>4, <2>1, <2>2 DEF HoldInv, NotYetTold, Holding
  <2>5. FannedOutOnce'
    BY <2>1, <2>2 DEF HoldInv, FannedOutOnce
  <2>6. UnalertedAccounted'
    BY <1>1, <2>1, <2>2 DEF HoldInv, UnalertedAccounted
  <2> QED BY <2>3, <2>4, <2>5, <2>6 DEF HoldInv
<1>10. CASE CallFails(j) \/ Interrupt(j)
  <2>1. /\ pc'[j] \in {"failed", "queued"} /\ UNCHANGED <<published, alerts>>
        /\ pc[j] \in Holding => Row(j) \in cut'
        /\ cut \subseteq cut'
        /\ \A r \in Rows : hits[r] # NoRow => hits'[r] = hits[r]
        /\ \A r \in Rows : hits'[r] # hits[r] => r \in cut'
    BY <1>10 DEF CallFails, Interrupt, TypeOK, Abandoned, Holding
  <2> HIDE DEF Row
  <2>2. RowBehindInsert' /\ OneHolder' /\ NotYetTold'
    BY <1>1, <1>4, <2>1 DEF HoldInv, RowBehindInsert, OneHolder, NotYetTold, Holding
  <2>3. FannedOutOnce'
    BY <2>1 DEF HoldInv, FannedOutOnce
  <2>4. UnalertedAccounted'
    BY <1>1, <2>1 DEF HoldInv, UnalertedAccounted, Holding
  <2> QED BY <2>2, <2>3, <2>4 DEF HoldInv
<1> QED BY <1>5, <1>6, <1>7, <1>8, <1>9, <1>10 DEF JobStep

\* A deleted rule is not created again.
LEMMA DeletedGrow ==
    ASSUME [Next]_vars
    PROVE  deleted \subseteq deleted'
BY DEF Next, vars, JobStep, StartJob, LeaveClosedBar, SkipRule, ReadExpiredRule, TryInsert,
   Insert, Duplicate, ClaimDuplicate, ClaimHit, PublishHit, EnqueueAlert, FinishJob, Enqueue,
   CallFails, Interrupt, ExpireKey, DeleteRule

\* A row is written by a job that found the market open.
LEMMA HitsInSession ==
    ASSUME TypeOK, AtRule, [Next]_vars, NEW r \in Rows, hits'[r] # hits[r]
    PROVE  r[2] \in Session
<1>1. PICK j \in Jobs : pc[j] = "insert" /\ hits' = [hits EXCEPT ![Row(j)] = JobTf[j]]
  BY DEF Next, vars, JobStep, StartJob, LeaveClosedBar, SkipRule, ReadExpiredRule, TryInsert,
     Insert, Duplicate, ClaimDuplicate, ClaimHit, PublishHit, EnqueueAlert, FinishJob, Enqueue,
     CallFails, Interrupt, ExpireKey, DeleteRule, Move
<1>2. JobTs[j] \in Session /\ r = Row(j)
  BY <1>1 DEF AtRule, Steps, TypeOK
<1> QED BY <1>2 DEF Row

\* Keys and announcements follow the row.
LEMMA KeyStep ==
    ASSUME TypeOK, AtRule, RowBehindInsert, KeyImpliesRow, [Next]_vars
    PROVE  KeyImpliesRow'
<1>1. \A r \in Rows : hits[r] # NoRow => hits'[r] # NoRow
  BY HitsGrow
<1>7. deleted \subseteq deleted' /\ \A r \in Rows : hits'[r] # NoRow => r[2] \in Session
  BY DeletedGrow, HitsInSession DEF KeyImpliesRow
<1>2. \A k \in Keys : <<k[1], k[3]>> \in Rows
  BY DEF Keys, Rows
<1>3. ASSUME keys' \subseteq keys, UNCHANGED <<published, alerts>> PROVE KeyImpliesRow'
  BY <1>1, <1>2, <1>3, <1>7 DEF KeyImpliesRow, TypeOK
<1>4. ASSUME NEW j \in Jobs, ClaimDuplicate(j) \/ ClaimHit(j) PROVE KeyImpliesRow'
  <2>1. /\ hits[Row(j)] # NoRow \/ at[j] \in deleted
        /\ Row(j) \in Rows /\ Key(j) \in Keys
        /\ UNCHANGED <<hits, published, alerts, deleted>> /\ keys' = keys \cup {Key(j)}
    BY <1>4, RowTyped DEF ClaimDuplicate, ClaimHit, Move, RowBehindInsert, Holding, AtRule, Steps
  <2>2. <<Key(j)[1], Key(j)[3]>> = Row(j) /\ Key(j)[1] = at[j]
    BY DEF Key, Row
  <2> QED BY <1>7, <2>1, <2>2 DEF KeyImpliesRow
<1>5. ASSUME NEW j \in Jobs, PublishHit(j) \/ EnqueueAlert(j) PROVE KeyImpliesRow'
  <2>1. /\ hits[Row(j)] # NoRow /\ Row(j) \in Rows /\ UNCHANGED <<hits, keys>>
        /\ \A r \in Rows : r # Row(j) => published'[r] = published[r] /\ alerts'[r] = alerts[r]
    BY <1>5, RowTyped
       DEF PublishHit, EnqueueAlert, Move, RowBehindInsert, Holding, AtRule, Steps, TypeOK
  <2> QED BY <1>7, <2>1 DEF KeyImpliesRow
<1>6. \/ keys' \subseteq keys /\ UNCHANGED <<published, alerts>>
      \/ \E j \in Jobs : ClaimDuplicate(j) \/ ClaimHit(j) \/ PublishHit(j) \/ EnqueueAlert(j)
  BY DEF Next, vars, JobStep, StartJob, LeaveClosedBar, SkipRule, ReadExpiredRule, TryInsert, Insert,
     Duplicate, FinishJob, Enqueue, CallFails, Interrupt, ExpireKey, DeleteRule
<1> QED BY <1>3, <1>4, <1>5, <1>6

\* A job passes a rule that fires only with its row there.
LEMMA PassedStep ==
    ASSUME TypeOK, AtRule, RowBehindInsert, KeyImpliesRow, PassedIsRecorded, [Next]_vars
    PROVE  PassedIsRecorded'
<1> USE ScanAssumption DEF RuleIds
<1>1. \A r \in Rows : hits[r] # NoRow => hits'[r] # NoRow
  BY HitsGrow
<1>2. \A j \in Jobs, r \in RuleIds : <<r, JobTs[j]>> \in Rows
  BY DEF Rows, Bars
<1> DEFINE Fired(j, r) == JobTf[j] \in RuleTfs[r] /\ <<r, JobTf[j], JobTs[j]>> \in Firing
           Passed(j) == \A r \in RuleIds \ deleted : r < at[j] /\ Fired(j, r) => hits[<<r, JobTs[j]>>] # NoRow
           There(j) == at[j] \notin deleted /\ Fired(j, at[j]) => hits[<<at[j], JobTs[j]>>] # NoRow
<1>0. deleted \subseteq deleted'
  BY DeletedGrow
<1>3. ASSUME NEW j \in Jobs, pc[j] \in Steps \cup {"done"}, JobTs[j] \in Session, at'[j] = at[j]
      PROVE  Passed(j)'
  BY <1>0, <1>1, <1>2, <1>3 DEF PassedIsRecorded
<1>4. ASSUME NEW j \in Jobs, pc[j] \in Steps, JobTs[j] \in Session, at'[j] = at[j] + 1, at[j] \in RuleIds, There(j)
      PROVE  Passed(j)'
  <2>1. \A r \in RuleIds : r < at'[j] => r < at[j] \/ r = at[j]
    BY <1>4
  <2> QED BY <1>0, <1>1, <1>2, <1>4, <2>1 DEF PassedIsRecorded
<1>5. ASSUME NEW j \in Jobs, at'[j] = 1
      PROVE  Passed(j)'
  BY <1>5
<1>6. ASSUME NEW j \in Jobs, pc'[j] \in Steps \cup {"done"}, JobTs[j] \in Session
      PROVE  \/ pc[j] \in Steps \cup {"done"} /\ at'[j] = at[j]
             \/ pc[j] \in Steps /\ at[j] \in RuleIds /\ at'[j] = at[j] + 1 /\ There(j)
             \/ at'[j] = 1
  <2> USE DEF Move, NextRule, Steps, TypeOK, AtRule
  <2>1. CASE UNCHANGED vars \/ ExpireKey \/ \E r \in RuleIds : DeleteRule(r)
    BY <1>6, <2>1 DEF vars, ExpireKey, DeleteRule
  <2>2. ASSUME NEW g \in Jobs, g # j,
               Enqueue(g) \/ JobStep(g) \/ CallFails(g) \/ Interrupt(g)
        PROVE  pc[j] \in Steps \cup {"done"} /\ at'[j] = at[j]
    BY <1>6, <2>2, JobAlone DEF OthersKeep
  <2>3. CASE Enqueue(j) \/ CallFails(j) \/ Interrupt(j)
    BY <1>6, <2>3 DEF Enqueue, CallFails, Interrupt
  <2>4. CASE SkipRule(j)
    <3>1. ~Fired(j, at[j]) \/ at[j] \in deleted \/ Key(j) \in keys
      BY <2>4 DEF SkipRule, Fires, Relevant, Key
    <3>2. Key(j) \in keys => hits[<<at[j], JobTs[j]>>] # NoRow \/ at[j] \in deleted
      BY DEF KeyImpliesRow, Key
    <3> QED BY <2>4, <3>1, <3>2 DEF SkipRule
  <2>5. CASE ClaimDuplicate(j) \/ EnqueueAlert(j)
    <3>1. hits[<<at[j], JobTs[j]>>] # NoRow \/ at[j] \in deleted
      BY <2>5 DEF ClaimDuplicate, EnqueueAlert, RowBehindInsert, Holding, Row
    <3> QED BY <2>5, <3>1 DEF ClaimDuplicate, EnqueueAlert
  <2>6. CASE StartJob(j) \/ LeaveClosedBar(j)
    BY <1>6, <2>6 DEF StartJob, LeaveClosedBar
  <2>7. CASE \/ ReadExpiredRule(j) \/ TryInsert(j) \/ Insert(j) \/ Duplicate(j)
             \/ ClaimHit(j) \/ PublishHit(j) \/ FinishJob(j)
    BY <2>7 DEF ReadExpiredRule, TryInsert, Insert, Duplicate, ClaimHit, PublishHit, FinishJob
  <2> QED BY <2>1, <2>2, <2>3, <2>4, <2>5, <2>6, <2>7 DEF Next, JobStep
<1>7. ASSUME NEW j \in Jobs, pc'[j] \in Steps \cup {"done"}, JobTs[j] \in Session
      PROVE  Passed(j)'
  BY <1>3, <1>4, <1>5, <1>6, <1>7
<1> QED BY <1>7 DEF PassedIsRecorded

LEMMA HitsStep ==
    ASSUME TypeOK, HitsInv, [Next]_vars
    PROVE  HitsInv'
<1>1. AtRule' /\ KeyImpliesRow' /\ PassedIsRecorded'
  BY AtRuleStep, KeyStep, PassedStep DEF HitsInv
<1>2. HoldInv
  BY DEF HitsInv, HoldInv
<1>3. HoldInv'
  <2>1. CASE UNCHANGED vars \/ ExpireKey \/ \E r \in RuleIds : DeleteRule(r)
    <3>1. UNCHANGED <<pc, at, hits, published, alerts, cut>>
      BY <2>1 DEF vars, ExpireKey, DeleteRule
    <3>2. deleted \subseteq deleted'
      BY DeletedGrow
    <3>3. \A j \in Jobs : Row(j)' = Row(j)
      BY <3>1 DEF Row
    <3> HIDE DEF Row
    <3>4. RowBehindInsert' /\ OneHolder' /\ NotYetTold'
      BY <1>2, <3>1, <3>2, <3>3 DEF HoldInv, RowBehindInsert, OneHolder, NotYetTold
    <3>5. FannedOutOnce' /\ UnalertedAccounted'
      BY <1>2, <3>1, <3>3 DEF HoldInv, FannedOutOnce, UnalertedAccounted
    <3> QED BY <3>4, <3>5 DEF HoldInv
  <2>2. ASSUME NEW j \in Jobs, Enqueue(j) \/ JobStep(j) \/ CallFails(j) \/ Interrupt(j)
        PROVE  HoldInv'
    BY <1>2, <2>2, HoldStep DEF HitsInv
  <2> QED BY <2>1, <2>2 DEF Next
<1> QED BY <1>1, <1>3 DEF HitsInv, HoldInv

LEMMA Invariant == Spec => [](TypeOK /\ HitsInv)
<1>1. TypeOK /\ HitsInv /\ [Next]_vars => (TypeOK /\ HitsInv)'
  BY TypeStep, HitsStep DEF HitsInv
<1> QED BY InitInv, <1>1, PTL DEF Spec

\* Every reachable state of the scanner's jobs, rows and keys is well typed;
\* a job that has not started has no rule in hand (scanner/worker.py:84-137).
THEOREM TypeCorrect == Spec => []TypeOK
<1> QED BY Invariant, PTL

\* However many jobs of however many bars run together, are replayed or find
\* their keys expired, a hit is published once and alerted once at most
\* (scanner/worker.py:155-199).
THEOREM HitsAreFannedOutOnce == Spec => []FannedOutOnce
<1>1. HitsInv => FannedOutOnce
  BY DEF HitsInv
<1> QED BY Invariant, <1>1, PTL

\* A key suppresses a hit only when its row is there, and what was fanned out
\* is stored (scanner/worker.py:162-184).
THEOREM KeysAndTellingFollowRows == Spec => []KeyImpliesRow
<1>1. HitsInv => KeyImpliesRow
  BY DEF HitsInv
<1> QED BY Invariant, <1>1, PTL

\* A stored hit is alerted, about to be, or its job was stopped in between
\* (scanner/worker.py:173-199).
THEOREM UnalertedHitsAreAccounted == Spec => []UnalertedAccounted
<1>1. HitsInv => UnalertedAccounted
  BY DEF HitsInv
<1> QED BY Invariant, <1>1, PTL

\* A job that ran to its end has a row for each rule that fired on its bar,
\* its own or one another job wrote (scanner/worker.py:137-199).
THEOREM DoneJobsRecorded == Spec => []FiredIsRecorded
<1>1. HitsInv => FiredIsRecorded
  <2> SUFFICES ASSUME HitsInv, NEW j \in Jobs, NEW r \in RuleIds \ deleted,
                      pc[j] = "done", JobTs[j] \in Session,
                      JobTf[j] \in RuleTfs[r], <<r, JobTf[j], JobTs[j]>> \in Firing
               PROVE  hits[<<r, JobTs[j]>>] # NoRow
    BY DEF FiredIsRecorded, Recorded
  <2>1. r < at[j]
    BY ScanAssumption DEF HitsInv, AtRule, RuleIds
  <2> QED BY <2>1 DEF HitsInv, PassedIsRecorded
<1> QED BY Invariant, <1>1, PTL
=============================================================================
