--------------------------- MODULE Backend_proofs ---------------------------
(***************************************************************************)
(* Theorems about module Backend: backtests and their pages, the rows of   *)
(* several users, for any users, chats, scopes and number of requests, and *)
(* the cron jobs, for any session, look-back and retention.                *)
(***************************************************************************)
EXTENDS Backend, TLAPS

(* Backtests.                                                               *)

\* Where the parts of a backtest are, together.  A job that is there though its
\* row has an outcome runs again after it.
JobShape ==
    /\ request \in [Backtests -> {"new", "stored", "sent", "broken"}]
    /\ running \in [Backtests -> {"no", "read", "ended"}]
    /\ seen \in [Backtests -> {"none", "pending"} \cup Outcomes]
    /\ \A b \in Backtests :
        /\ request[b] = "new" => row[b] = "none"
        /\ request[b] = "stored" => row[b] = "pending"
        /\ b \in queued \cup polling \cup asking \/ running[b] # "no" \/ seen[b] # "none"
              => request[b] = "sent"
        /\ b \in asking => failures[b] = 0
        /\ running[b] # "no" => b \notin queued
        /\ running[b] = "ended" => row[b] \in Outcomes
        /\ row[b] \in Outcomes /\ (b \in queued \/ running[b] = "read") => b \in rerun

JobInv == JobTypeOK /\ JobShape /\ PendingHasJob /\ SeenStands

LEMMA OutcomesApart == "none" \notin Outcomes /\ "pending" \notin Outcomes
BY BacktestJobAssumption DEF Outcomes

LEMMA JobInitInv ==
    ASSUME JobInit
    PROVE  JobInv
BY OutcomesApart DEF JobInit, JobInv, JobTypeOK, JobShape, PendingHasJob, SeenStands

\* Types and the shape of a backtest, action by action.
LEMMA JobShapeStep ==
    ASSUME JobInv, JobNext
    PROVE  JobTypeOK' /\ JobShape'
<1> PICK b \in Backtests :
        \/ Store(b) \/ Enqueue(b) \/ EnqueueFails(b) \/ JobProgress(b)
        \/ WorkerStops(b) \/ JobDies(b) \/ Timer(b) \/ Focus(b) \/ Answer(b) \/ AnswerFails(b)
  BY DEF JobNext
<1> USE BacktestJobAssumption, OutcomesApart DEF JobInv, JobTypeOK, JobShape, Trouble, page
<1>1. CASE Store(b)
  BY <1>1 DEF Store
<1>2. CASE Enqueue(b)
  BY <1>2 DEF Enqueue
<1>3. CASE EnqueueFails(b)
  BY <1>3 DEF EnqueueFails
<1>4. CASE StartJob(b)
  BY <1>4 DEF StartJob
<1>5. CASE EndJob(b)
  BY <1>5 DEF EndJob
<1>6. CASE LeaveJob(b)
  BY <1>6 DEF LeaveJob
<1>7. CASE WorkerStops(b)
  BY <1>7 DEF WorkerStops
<1>8. CASE JobDies(b)
  BY <1>8 DEF JobDies
<1>9. CASE Timer(b) \/ Focus(b)
  BY <1>9 DEF Timer, Focus, Ask
<1>10. CASE Answer(b)
  BY <1>10 DEF Answer, Polls, RefetchInterval
<1>11. CASE AnswerFails(b)
  BY <1>11 DEF AnswerFails, Polls, RefetchInterval
<1> QED BY <1>1, <1>2, <1>3, <1>4, <1>5, <1>6, <1>7, <1>8, <1>9, <1>10, <1>11 DEF JobProgress

\* No step takes the job of a pending row away, nor replaces an outcome that was
\* seen, but for a job that runs again.
LEMMA JobSafeStep ==
    ASSUME JobInv, JobNext
    PROVE  PendingHasJob' /\ SeenStands'
<1> PICK b \in Backtests :
        \/ Store(b) \/ Enqueue(b) \/ EnqueueFails(b) \/ JobProgress(b)
        \/ WorkerStops(b) \/ JobDies(b) \/ Timer(b) \/ Focus(b) \/ Answer(b) \/ AnswerFails(b)
  BY DEF JobNext
<1> USE OutcomesApart DEF JobInv, JobTypeOK, JobShape, PendingHasJob, SeenStands, page
<1>1. CASE Store(b)
  BY <1>1 DEF Store
<1>2. CASE Enqueue(b)
  BY <1>2 DEF Enqueue
<1>3. CASE EnqueueFails(b)
  BY <1>3 DEF EnqueueFails
<1>4. CASE StartJob(b)
  BY <1>4 DEF StartJob
<1>5. CASE EndJob(b)
  BY <1>5 DEF EndJob
<1>6. CASE LeaveJob(b)
  BY <1>6 DEF LeaveJob
<1>7. CASE WorkerStops(b)
  BY <1>7 DEF WorkerStops
<1>8. CASE JobDies(b)
  BY <1>8 DEF JobDies
<1>9. CASE Timer(b) \/ Focus(b)
  BY <1>9 DEF Timer, Focus, Ask
<1>10. CASE Answer(b)
  BY <1>10 DEF Answer, Polls, RefetchInterval
<1>11. CASE AnswerFails(b)
  BY <1>11 DEF AnswerFails, Polls, RefetchInterval
<1> QED BY <1>1, <1>2, <1>3, <1>4, <1>5, <1>6, <1>7, <1>8, <1>9, <1>10, <1>11 DEF JobProgress

LEMMA JobInvariant == Spec => []JobInv
<1>1. Init => JobInv
  BY JobInitInv DEF Init
<1>2. JobInv /\ [Next]_vars => JobInv'
  <2> SUFFICES ASSUME JobInv, [Next]_vars PROVE JobInv'
    OBVIOUS
  <2>1. CASE JobNext
    BY <2>1, JobShapeStep, JobSafeStep DEF JobInv
  <2>2. CASE UNCHANGED bvars
    BY <2>2 DEF bvars, JobInv, JobTypeOK, JobShape, PendingHasJob, SeenStands
  <2>3. JobNext \/ UNCHANGED bvars
    BY DEF Next, RowsStep, JobStep, SweepsStep, vars
  <2> QED BY <2>1, <2>2, <2>3
<1> QED BY <1>1, <1>2, PTL DEF Spec

\* A row stays pending only while a job or a request will see to it, or when
\* its job was lost (api/backtests.py:34-37, workers/backtest_worker.py:67-110).
THEOREM PendingRowHasItsJob == Spec => []PendingHasJob
<1>1. JobInv => PendingHasJob
  BY DEF JobInv
<1> QED BY JobInvariant, <1>1, PTL

\* The outcome a page stops polling at is the one in the table, whatever each
\* run of the job comes to, unless a worker stopped behind its commit and the
\* job ran again; then another outcome is (useBacktest.ts:35-55).
THEOREM SeenOutcomeStands == Spec => []SeenStands
<1>1. JobInv => SeenStands
  BY DEF JobInv
<1> QED BY JobInvariant, <1>1, PTL

\* For any number of backtests, and whatever requests, jobs and pages fail: none
\* stays pending without a job or a known loss, and only a job that ran again
\* replaces an outcome that was seen (api/backtests.py:34-36, useBacktest.ts:51-55).
THEOREM BacktestsAreSound == Spec => []BacktestsSound
<1>1. PendingHasJob /\ SeenStands => BacktestsSound
  BY DEF BacktestsSound
<1> QED BY PendingRowHasItsJob, SeenOutcomeStands, <1>1, PTL

-----------------------------------------------------------------------------
(* Rows of several users.                                                   *)

RuleRow   == [id : Nat, user : Users, enabled : BOOLEAN]
SubRow    == [id : Nat, user : Users, rule : Nat, target : Targets, before : SUBSET Nat]
ConfigRow == [id : Nat, user : Users, scope : Scopes, params : Params, enabled : BOOLEAN]

RuleRequest   == [op : {"delete", "enable", "disable"}, user : Users, rule : Nat]
SubRequest    == [op : {"subscribe"}, at : {"foreign", "same", "insert"}, user : Users,
                  rule : Nat, target : Targets, n : Nat, before : SUBSET Nat]
ConfigRequest == [op : {"config"}, user : Users, n : Nat, by : {"scope", "id"},
                  saw : SUBSET ConfigRow, scope : Scopes, params : Params,
                  enabled : BOOLEAN, alone : BOOLEAN]

RowsShape ==
    /\ rules \subseteq RuleRow /\ subs \subseteq SubRow /\ configs \subseteq ConfigRow
    /\ requests \subseteq RuleRequest \cup SubRequest \cup ConfigRequest
    /\ hits \subseteq Nat /\ issued \in Nat

\* Subscribe requests in flight.
Subscribing == {r \in requests : r.op = "subscribe"}

\* A number is given once: no row or request has the number of another.
Numbered ==
    /\ \A x \in rules : x.id \in 1 .. issued
    /\ \A x, y \in rules : x.id = y.id => x = y
    /\ \A s \in subs : s.id <= issued /\ \A i \in s.before : i <= issued
    /\ \A r \in Subscribing : /\ r.n <= issued /\ r.rule <= issued
                              /\ \A i \in r.before : i <= issued
                              /\ \A s \in subs : s.id # r.n /\ r.n \notin s.before
    /\ \A q, r \in Subscribing : (q.n = r.n => q = r) /\ q.n \notin r.before
    /\ \A a, b \in subs : a.id = b.id => a = b

\* The rule of a subscribe request is still its user's, if it is still there.
Claims == \A r \in Subscribing, x \in rules : x.id = r.rule => x.user = r.user

\* A request past its check has not missed a chat subscribed before it began.
Checked ==
    \A r \in Subscribing, s \in subs :
        r.at # "foreign" /\ s.target = r.target /\ s.user # r.user => s.id \notin r.before

RowsInv ==
    /\ RowsShape /\ Numbered /\ Claims /\ Checked
    /\ OnePerScope(configs) /\ NothingDangles /\ SharedOnlyByRacing

LEMMA RowsInitInv ==
    ASSUME RowsInit
    PROVE  RowsInv
BY DEF RowsInit, RowsInv, RowsShape, Subscribing, Numbered, Claims, Checked, OnePerScope,
       NothingDangles, SharedOnlyByRacing

\* A step that leaves the rules' tables and the subscribe requests alone.
LEMMA Aside ==
    ASSUME RowsInv, RowsShape', OnePerScope(configs)',
           UNCHANGED <<rules, hits, subs>>, Subscribing' \subseteq Subscribing,
           issued' >= issued
    PROVE  RowsInv'
<1>1. issued \in Nat /\ issued' \in Nat /\ \A s \in subs : s.id \in Nat /\ s.before \subseteq Nat
  BY DEF RowsInv, RowsShape, SubRow
<1>2. \A r \in Subscribing : r.n \in Nat /\ r.rule \in Nat /\ r.before \subseteq Nat
  BY DEF RowsInv, RowsShape, Subscribing, SubRequest, RuleRequest, ConfigRequest
<1>3. Numbered'
  BY <1>1, <1>2 DEF RowsInv, Numbered
<1>4. Claims' /\ Checked' /\ NothingDangles' /\ SharedOnlyByRacing'
  BY DEF RowsInv, Claims, Checked, NothingDangles, SharedOnlyByRacing, Owned
<1> QED BY <1>3, <1>4 DEF RowsInv

LEMMA ConfigStep ==
    ASSUME RowsInv, ConfigNext
    PROVE  RowsInv'
<1>1. ASSUME NEW u \in Users, NEW sc \in Scopes, NEW p \in Params, NEW e \in BOOLEAN,
             AskConfig(u, sc, p, e) \/ \E c \in configs : PatchConfig(u, c, sc, p, e)
      PROVE  RowsInv'
  <2>1. PICK r \in ConfigRequest : BeginConfig(r)
    <3>1. CASE AskConfig(u, sc, p, e)
      <4> DEFINE r == [op |-> "config", user |-> u, n |-> issued + 1, by |-> "scope",
                       saw |-> Existing(u, sc), scope |-> sc, params |-> p, enabled |-> e,
                       alone |-> OfUser(u) = {}]
      <4>1. Existing(u, sc) \subseteq ConfigRow /\ issued + 1 \in Nat
        BY DEF Existing, RowsInv, RowsShape
      <4>2. (OfUser(u) = {}) \in BOOLEAN
        OBVIOUS
      <4>3. r \in ConfigRequest
        BY <4>1, <4>2 DEF ConfigRequest
      <4> QED BY <3>1, <4>3 DEF AskConfig
    <3>2. CASE \E c \in configs : PatchConfig(u, c, sc, p, e)
      <4> PICK c \in configs : PatchConfig(u, c, sc, p, e)
        BY <3>2
      <4> DEFINE r == [op |-> "config", user |-> u, n |-> issued + 1, by |-> "id",
                       saw |-> {c}, scope |-> sc, params |-> p, enabled |-> e,
                       alone |-> OfUser(u) = {}]
      <4>1. {c} \subseteq ConfigRow /\ issued + 1 \in Nat
        BY DEF RowsInv, RowsShape
      <4>2. (OfUser(u) = {}) \in BOOLEAN
        OBVIOUS
      <4>3. r \in ConfigRequest
        BY <4>1, <4>2 DEF ConfigRequest
      <4> QED BY <4>3 DEF PatchConfig
    <3> QED BY <1>1, <3>1, <3>2
  <2>2. OfUser(r.user) \subseteq ConfigRequest
    BY DEF OfUser, RowsInv, RowsShape, RuleRequest, SubRequest
  <2>3. {[q EXCEPT !.alone = FALSE] : q \in OfUser(r.user)} \subseteq ConfigRequest
    <3>1. \A q \in ConfigRequest : [q EXCEPT !.alone = FALSE] \in ConfigRequest
      BY DEF ConfigRequest
    <3> QED BY <2>2, <3>1
  <2>4. RowsShape'
    BY <2>1, <2>3 DEF BeginConfig, RowsInv, RowsShape
  <2>5. Subscribing' \subseteq Subscribing
    BY <2>1, <2>3 DEF BeginConfig, Subscribing, ConfigRequest
  <2> QED BY <2>1, <2>4, <2>5, Aside DEF BeginConfig, RowsInv, RowsShape
<1>2. ASSUME NEW r \in requests, CommitConfig(r)
      PROVE  RowsInv'
  <2>1. r \in ConfigRequest
    BY <1>2 DEF CommitConfig, RowsInv, RowsShape, RuleRequest, SubRequest
  <2>2. Written(r) \subseteq ConfigRow
    <3>1. CASE r.saw = {}
      BY <2>1, <3>1 DEF Written, RowsInv, RowsShape, ConfigRequest, ConfigRow
    <3>2. CASE r.saw # {}
      <4> DEFINE s == CHOOSE s \in r.saw : TRUE
      <4>1. s \in ConfigRow
        BY <3>2, <2>1 DEF ConfigRequest
      <4>2. \A c \in configs : Updated(r, s, c) \in ConfigRow
        BY <2>1 DEF Updated, ConfigRequest, ConfigRow, RowsInv, RowsShape
      <4> QED BY <3>2, <4>2 DEF Written, RowsInv, RowsShape
    <3> QED BY <3>1, <3>2
  <2>3. RowsShape' /\ OnePerScope(configs)'
    BY <1>2, <2>2 DEF CommitConfig, Ends, RowsInv, RowsShape, OnePerScope
  <2>4. Subscribing' \subseteq Subscribing
    BY <1>2 DEF CommitConfig, Ends, Subscribing
  <2> QED BY <1>2, <2>3, <2>4, Aside DEF CommitConfig, Ends, RowsInv, RowsShape
<1> QED BY <1>1, <1>2 DEF ConfigNext

\* A rule is created, a hit recorded, or an owner asks to change a rule.
LEMMA RuleAskStep ==
    ASSUME RowsInv, NEW u \in Users, NEW id \in 1 .. MaxRequests,
           \/ \E e \in BOOLEAN : CreateRule(u, e)
           \/ RecordHit(id)
           \/ \E op \in {"delete", "enable", "disable"} : AskRule(u, id, op)
    PROVE  RowsInv'
<1> USE DEF Issue
<1>1. ASSUME NEW e \in BOOLEAN, CreateRule(u, e)
      PROVE  RowsInv'
  <2>1. PICK x \in RuleRow : rules' = rules \cup {x} /\ x.id = issued + 1
    <3> DEFINE x == [id |-> issued + 1, user |-> u, enabled |-> e]
    <3>1. x \in RuleRow
      BY DEF RuleRow, RowsInv, RowsShape
    <3> QED BY <1>1, <3>1 DEF CreateRule
  <2>2. Subscribing' = Subscribing /\ issued' = issued + 1 /\ issued \in Nat
    BY <1>1 DEF CreateRule, Subscribing, RowsInv, RowsShape
  <2>3. \A r \in Subscribing : r.n \in Nat /\ r.rule \in Nat /\ r.before \subseteq Nat
    BY DEF RowsInv, RowsShape, Subscribing, SubRequest, RuleRequest, ConfigRequest
  <2>4. \A s \in subs : s.id \in Nat /\ s.before \subseteq Nat
    BY DEF RowsInv, RowsShape, SubRow
  <2>5. RowsShape'
    BY <1>1, <2>1, <2>2 DEF CreateRule, RowsInv, RowsShape
  <2>6. Numbered'
    <3>1. /\ \A y \in rules' : y.id \in 1 .. issued'
          /\ \A y, z \in rules' : y.id = z.id => y = z
      BY <2>1, <2>2 DEF RowsInv, Numbered
    <3>2. \A s \in subs : s.id <= issued' /\ \A i \in s.before : i <= issued'
      BY <2>2, <2>4 DEF RowsInv, Numbered
    <3>3. \A r \in Subscribing : /\ r.n <= issued' /\ r.rule <= issued'
                                 /\ \A i \in r.before : i <= issued'
      BY <2>2, <2>3 DEF RowsInv, Numbered
    <3> QED BY <1>1, <2>2, <3>1, <3>2, <3>3 DEF CreateRule, RowsInv, Numbered
  <2>7. Claims'
    BY <2>1, <2>2, <2>3 DEF RowsInv, Numbered, Claims
  <2>8. Checked' /\ SharedOnlyByRacing' /\ OnePerScope(configs)'
    BY <1>1, <2>2 DEF CreateRule, RowsInv, Checked, SharedOnlyByRacing, OnePerScope
  <2>9. NothingDangles'
    BY <1>1 DEF CreateRule, RowsInv, NothingDangles, Owned
  <2> QED BY <2>5, <2>6, <2>7, <2>8, <2>9 DEF RowsInv
<1>2. CASE RecordHit(id)
  <2>1. Subscribing' = Subscribing
    BY <1>2 DEF RecordHit, Subscribing
  <2>2. RowsShape'
    BY <1>2 DEF RecordHit, RowsInv, RowsShape
  <2>3. \A r \in Subscribing : r.n \in Nat /\ r.rule \in Nat /\ r.before \subseteq Nat
    BY DEF RowsInv, RowsShape, Subscribing, SubRequest, RuleRequest, ConfigRequest
  <2>4. \A s \in subs : s.id \in Nat /\ s.before \subseteq Nat
    BY DEF RowsInv, RowsShape, SubRow
  <2>5. Numbered'
    BY <1>2, <2>1, <2>3, <2>4 DEF RecordHit, RowsInv, RowsShape, Numbered
  <2>6. Claims' /\ Checked' /\ SharedOnlyByRacing' /\ OnePerScope(configs)'
    BY <1>2, <2>1 DEF RecordHit, RowsInv, Claims, Checked, SharedOnlyByRacing, OnePerScope
  <2>7. NothingDangles'
    BY <1>2 DEF RecordHit, RowsInv, NothingDangles, Owned
  <2> QED BY <2>2, <2>5, <2>6, <2>7 DEF RowsInv
<1>3. ASSUME NEW op \in {"delete", "enable", "disable"}, AskRule(u, id, op)
      PROVE  RowsInv'
  <2>1. RowsShape'
    BY <1>3 DEF AskRule, Begin, RowsInv, RowsShape, RuleRequest
  <2>2. Subscribing' \subseteq Subscribing
    BY <1>3 DEF AskRule, Begin, Subscribing
  <2> QED BY <1>3, <2>1, <2>2, Aside DEF AskRule, Begin, RowsInv, RowsShape, OnePerScope
<1> QED BY <1>1, <1>2, <1>3

\* A rule is updated or deleted.
LEMMA RuleCommitStep ==
    ASSUME RowsInv, NEW r \in requests, UpdateRule(r) \/ DeleteRule(r)
    PROVE  RowsInv'
<1>1. Subscribing' \subseteq Subscribing
  BY DEF UpdateRule, DeleteRule, Ends, Subscribing
<1>2. CASE UpdateRule(r)
  <2> DEFINE new(x) == IF x.id = r.rule THEN [x EXCEPT !.enabled = r.op = "enable"] ELSE x
  <2>1. \A x \in rules : new(x) \in RuleRow /\ new(x).id = x.id /\ new(x).user = x.user
    BY DEF RowsInv, RowsShape, RuleRow
  <2>2. rules' = {new(x) : x \in rules}
    BY <1>2 DEF UpdateRule
  <2> HIDE DEF new
  <2>3. RowsShape'
    BY <1>2, <2>1, <2>2 DEF UpdateRule, Ends, RowsInv, RowsShape
  <2>4. Numbered'
    BY <1>1, <1>2, <2>1, <2>2 DEF UpdateRule, Ends, RowsInv, Numbered
  <2>5. Claims'
    BY <1>1, <2>1, <2>2 DEF RowsInv, Claims
  <2>6. Checked' /\ SharedOnlyByRacing' /\ OnePerScope(configs)'
    BY <1>1, <1>2 DEF UpdateRule, RowsInv, Checked, SharedOnlyByRacing, OnePerScope
  <2>7. NothingDangles'
    BY <1>2, <2>1, <2>2 DEF UpdateRule, RowsInv, NothingDangles, Owned
  <2> QED BY <2>3, <2>4, <2>5, <2>6, <2>7 DEF RowsInv
<1>3. CASE DeleteRule(r)
  <2>1. rules' \subseteq rules /\ subs' \subseteq subs
    BY <1>3 DEF DeleteRule
  <2>2. RowsShape'
    BY <1>3, <2>1 DEF DeleteRule, Ends, RowsInv, RowsShape
  <2>3. Numbered' /\ Claims' /\ Checked'
    BY <1>1, <1>3, <2>1 DEF DeleteRule, Ends, RowsInv, Numbered, Claims, Checked
  <2>4. SharedOnlyByRacing' /\ OnePerScope(configs)'
    BY <1>3, <2>1 DEF DeleteRule, RowsInv, SharedOnlyByRacing, OnePerScope
  <2>5. NothingDangles'
    BY <1>3 DEF DeleteRule, RowsInv, NothingDangles, Owned
  <2> QED BY <2>2, <2>3, <2>4, <2>5 DEF RowsInv
<1> QED BY <1>2, <1>3

\* A subscribe request begins: its number is new, and so is nothing it saw.
LEMMA AskSubscriptionStep ==
    ASSUME RowsInv, NEW u \in Users, NEW id \in 1 .. MaxRequests, NEW t \in Targets,
           AskSubscription(u, id, t)
    PROVE  RowsInv'
<1> DEFINE r == [op |-> "subscribe", at |-> "foreign", user |-> u, rule |-> id, target |-> t,
                 n |-> issued + 1, before |-> {s.id : s \in {x \in subs : x.target = t}}]
<1>1. requests' = requests \cup {r} /\ issued' = issued + 1 /\ Owned(u, id)
  BY DEF AskSubscription, Begin, Issue
<1>2. UNCHANGED <<rules, hits, subs, configs>>
  BY DEF AskSubscription
<1>3. issued \in Nat /\ \A s \in subs : s.id \in Nat /\ s.before \subseteq Nat /\ s.id <= issued
  BY DEF RowsInv, RowsShape, SubRow, Numbered
<1>4. r.before \subseteq Nat /\ \A i \in r.before : i <= issued /\ \E s \in subs : i = s.id
  BY <1>3
<1>5. r \in SubRequest
  BY <1>3, <1>4, RowsAssumption DEF SubRequest
<1>6. r.n = issued + 1 /\ r.rule = id /\ r.user = u /\ r.at = "foreign" /\ r.op = "subscribe"
  OBVIOUS
<1> HIDE DEF r
<1>7. RowsShape'
  BY <1>1, <1>2, <1>3, <1>5 DEF RowsInv, RowsShape
<1>8. Subscribing' = Subscribing \cup {r}
  BY <1>1, <1>6 DEF Subscribing
<1>9. \A q \in Subscribing : /\ q.n \in Nat /\ q.rule \in Nat /\ q.before \subseteq Nat
                             /\ q.n <= issued /\ \A i \in q.before : i <= issued
  BY DEF RowsInv, RowsShape, Subscribing, SubRequest, RuleRequest, ConfigRequest, Numbered
<1>10. \E x \in rules : x.id = id /\ x.user = u
  BY <1>1 DEF Owned
<1>11. \A x \in rules : x.id \in Nat /\ x.id <= issued /\ (x.id = id => x.user = u)
  BY <1>3, <1>10 DEF RowsInv, Numbered
<1>12. id \in Nat /\ id <= issued
  BY <1>10, <1>11
<1>13. Numbered'
  <2>1. \A x \in rules : x.id \in 1 .. issued + 1
    BY <1>3 DEF RowsInv, Numbered
  <2>2. \A s \in subs : s.id <= issued + 1 /\ \A i \in s.before : i <= issued + 1 /\ i # issued + 1
    BY <1>3 DEF RowsInv, Numbered
  <2>3. \A q \in Subscribing' : /\ q.n <= issued + 1 /\ q.rule <= issued + 1
                                /\ \A i \in q.before : i <= issued + 1
    BY <1>3, <1>4, <1>6, <1>8, <1>9, <1>12 DEF RowsInv, Numbered
  <2>4. \A q \in Subscribing', s \in subs : s.id # q.n /\ q.n \notin s.before
    BY <1>3, <1>6, <1>8, <2>2 DEF RowsInv, Numbered
  <2>5. \A q, p \in Subscribing' : q.n = p.n => q = p
    BY <1>3, <1>6, <1>8, <1>9 DEF RowsInv, Numbered
  <2>6. \A q, p \in Subscribing' : q.n \notin p.before
    <3>1. ASSUME NEW q \in Subscribing PROVE q.n \notin r.before
      BY <1>4 DEF RowsInv, Numbered
    <3>2. ASSUME NEW p \in Subscribing \cup {r} PROVE r.n \notin p.before
      BY <1>3, <1>4, <1>6, <1>9
    <3> QED BY <1>8, <3>1, <3>2 DEF RowsInv, Numbered
  <2> QED BY <1>1, <1>2, <2>1, <2>2, <2>3, <2>4, <2>5, <2>6 DEF RowsInv, Numbered
<1>14. Claims'
  BY <1>2, <1>6, <1>8, <1>11 DEF RowsInv, Claims
<1>15. Checked'
  BY <1>2, <1>6, <1>8 DEF RowsInv, Checked
<1>16. NothingDangles' /\ SharedOnlyByRacing' /\ OnePerScope(configs)'
  BY <1>2 DEF RowsInv, NothingDangles, Owned, SharedOnlyByRacing, OnePerScope
<1> QED BY <1>7, <1>13, <1>14, <1>15, <1>16 DEF RowsInv

\* A check lets a request on with its number and what it saw, or ends it.
LEMMA CheckStep ==
    ASSUME RowsInv, NEW r \in requests, CheckForeign(r) \/ CheckSame(r)
    PROVE  RowsInv'
<1> DEFINE next(at) == [r EXCEPT !.at = at]
<1>1. r \in SubRequest /\ r \in Subscribing
  BY DEF CheckForeign, CheckSame, RowsInv, RowsShape, RuleRequest, ConfigRequest, Subscribing
<1>2. \A at \in {"same", "insert"} :
         /\ next(at) \in SubRequest /\ next(at).at = at /\ next(at).op = r.op
         /\ next(at).n = r.n /\ next(at).rule = r.rule /\ next(at).user = r.user
         /\ next(at).target = r.target /\ next(at).before = r.before
  BY <1>1 DEF SubRequest
<1>3. UNCHANGED <<rules, hits, subs, configs, issued>>
  BY DEF CheckForeign, CheckSame
<1>4. PICK at \in {"same", "insert"} :
          /\ requests' \subseteq (requests \ {r}) \cup {next(at)}
          /\ next(at) \in requests' => r.at # "foreign" \/ ~Foreign(r) \/ next(at) \in requests \ {r}
  <2>1. CASE CheckForeign(r)
    BY <2>1 DEF CheckForeign
  <2>2. CASE CheckSame(r)
    BY <2>2 DEF CheckSame
  <2> QED BY <2>1, <2>2
<1> HIDE DEF next
<1>5. next(at).op = "subscribe"
  BY <1>1, <1>2, <1>4 DEF Subscribing
<1>6. Subscribing' \subseteq (Subscribing \ {r}) \cup {next(at)}
  BY <1>4 DEF Subscribing
<1>7. RowsShape'
  BY <1>2, <1>3, <1>4 DEF RowsInv, RowsShape
<1>8. Numbered'
  BY <1>1, <1>2, <1>3, <1>6 DEF RowsInv, Numbered
<1>9. Claims'
  BY <1>1, <1>2, <1>3, <1>6 DEF RowsInv, Claims
<1>10. Checked'
  <2> SUFFICES ASSUME NEW q \in Subscribing', NEW s \in subs,
                      q.at # "foreign", s.target = q.target, s.user # q.user
               PROVE  s.id \notin q.before
    BY <1>3 DEF Checked
  <2>1. CASE q \in Subscribing \ {r}
    BY <2>1 DEF RowsInv, Checked
  <2>2. CASE q = next(at) /\ q \notin Subscribing \ {r}
    <3>1. next(at) \in requests' /\ next(at) \notin requests \ {r}
      BY <1>5, <2>2 DEF Subscribing
    <3>2. r.at # "foreign" \/ ~Foreign(r)
      BY <1>4, <3>1
    <3> QED BY <1>1, <1>2, <2>2, <3>2 DEF RowsInv, Checked, Foreign
  <2> QED BY <1>6, <2>1, <2>2
<1>11. NothingDangles' /\ SharedOnlyByRacing' /\ OnePerScope(configs)'
  BY <1>3 DEF RowsInv, NothingDangles, Owned, SharedOnlyByRacing, OnePerScope
<1> QED BY <1>7, <1>8, <1>9, <1>10, <1>11 DEF RowsInv

\* The row that is inserted carries what its request was checked for.
LEMMA SubscribeStep ==
    ASSUME RowsInv, NEW r \in requests, Subscribe(r)
    PROVE  RowsInv'
<1> DEFINE s == [id |-> r.n, user |-> r.user, rule |-> r.rule,
                 target |-> r.target, before |-> r.before]
<1>1. r \in SubRequest /\ r \in Subscribing /\ r.at = "insert"
  BY DEF Subscribe, RowsInv, RowsShape, RuleRequest, ConfigRequest, Subscribing
<1>2. s \in SubRow
  BY <1>1 DEF SubRequest, SubRow
<1>3. /\ s.id = r.n /\ s.user = r.user /\ s.rule = r.rule
      /\ s.target = r.target /\ s.before = r.before
  OBVIOUS
<1>4. /\ subs' \subseteq subs \cup {s}
      /\ s \in subs' => s \in subs \/ \E x \in rules : x.id = r.rule
  BY DEF Subscribe
<1> HIDE DEF s
<1>5. requests' = requests \ {r} /\ UNCHANGED <<rules, hits, configs, issued>>
  BY DEF Subscribe, Ends
<1>6. Subscribing' = Subscribing \ {r}
  BY <1>5 DEF Subscribing
<1>7. RowsShape'
  BY <1>2, <1>4, <1>5 DEF RowsInv, RowsShape
<1>8. Numbered'
  BY <1>1, <1>3, <1>4, <1>5, <1>6 DEF RowsInv, Numbered
<1>9. Claims' /\ OnePerScope(configs)'
  BY <1>5, <1>6 DEF RowsInv, Claims, OnePerScope
<1>10. Checked'
  BY <1>1, <1>3, <1>4, <1>6 DEF RowsInv, Checked, Numbered
<1>11. NothingDangles'
  BY <1>1, <1>3, <1>4, <1>5 DEF RowsInv, NothingDangles, Owned, Claims
<1>12. SharedOnlyByRacing'
  <2>1. ASSUME NEW a \in subs, a.target = s.target, a.user # s.user
        PROVE  a.id \notin s.before /\ s.id \notin a.before
    BY <1>1, <1>3, <2>1 DEF RowsInv, Checked, Numbered
  <2> QED BY <1>4, <2>1 DEF RowsInv, SharedOnlyByRacing
<1> QED BY <1>7, <1>8, <1>9, <1>10, <1>11, <1>12 DEF RowsInv

LEMMA UnsubscribeStep ==
    ASSUME RowsInv, NEW u \in Users, NEW id \in 1 .. MaxRequests, Unsubscribe(u, id)
    PROVE  RowsInv'
<1>1. /\ subs' \subseteq subs /\ issued' = issued + 1
      /\ UNCHANGED <<rules, hits, configs, requests>> /\ Subscribing' = Subscribing
  BY DEF Unsubscribe, Issue, Subscribing
<1>2. RowsShape'
  BY <1>1 DEF RowsInv, RowsShape
<1>3. issued \in Nat /\ \A s \in subs : s.id \in Nat /\ s.before \subseteq Nat
  BY DEF RowsInv, RowsShape, SubRow
<1>4. \A r \in Subscribing : r.n \in Nat /\ r.rule \in Nat /\ r.before \subseteq Nat
  BY DEF RowsInv, RowsShape, Subscribing, SubRequest, RuleRequest, ConfigRequest
<1>5. Numbered'
  BY <1>1, <1>3, <1>4 DEF RowsInv, Numbered
<1>6. Claims' /\ Checked' /\ SharedOnlyByRacing' /\ OnePerScope(configs)' /\ NothingDangles'
  BY <1>1 DEF RowsInv, Claims, Checked, SharedOnlyByRacing, OnePerScope, NothingDangles, Owned
<1> QED BY <1>2, <1>5, <1>6 DEF RowsInv

LEMMA RowsInvariant == Spec => []RowsInv
<1>1. Init => RowsInv
  BY RowsInitInv DEF Init
<1>2. RowsInv /\ [Next]_vars => RowsInv'
  <2> SUFFICES ASSUME RowsInv, [Next]_vars PROVE RowsInv'
    OBVIOUS
  <2>1. CASE RuleNext
    <3>1. CASE \E u \in Users, id \in 1 .. MaxRequests :
                  \/ \E e \in BOOLEAN : CreateRule(u, e)
                  \/ \E op \in {"delete", "enable", "disable"} : AskRule(u, id, op)
      BY <3>1, RuleAskStep
    <3>2. CASE \E id \in 1 .. MaxRequests : RecordHit(id)
      <4> PICK id \in 1 .. MaxRequests : RecordHit(id)
        BY <3>2
      <4>1. \E x \in rules : x.user \in Users
        BY DEF RecordHit, RowsInv, RowsShape, RuleRow
      <4> QED BY <4>1, RuleAskStep
    <3>3. CASE \E u \in Users, id \in 1 .. MaxRequests : Unsubscribe(u, id)
      BY <3>3, UnsubscribeStep
    <3>4. CASE \E u \in Users, id \in 1 .. MaxRequests, t \in Targets : AskSubscription(u, id, t)
      BY <3>4, AskSubscriptionStep
    <3>5. CASE \E r \in requests : UpdateRule(r) \/ DeleteRule(r)
      BY <3>5, RuleCommitStep
    <3>6. CASE \E r \in requests : CheckForeign(r) \/ CheckSame(r)
      BY <3>6, CheckStep
    <3>7. CASE \E r \in requests : Subscribe(r)
      BY <3>7, SubscribeStep
    <3> QED BY <2>1, <3>1, <3>2, <3>3, <3>4, <3>5, <3>6, <3>7 DEF RuleNext
  <2>2. CASE ConfigNext
    BY <2>2, ConfigStep
  <2>3. CASE UNCHANGED rvars
    BY <2>3 DEF rvars, RowsInv, RowsShape, Subscribing, Numbered, Claims, Checked,
                OnePerScope, NothingDangles, Owned, SharedOnlyByRacing
  <2>4. RuleNext \/ ConfigNext \/ UNCHANGED rvars
    BY DEF Next, RowsStep, JobStep, SweepsStep, vars
  <2> QED BY <2>1, <2>2, <2>3, <2>4
<1> QED BY <1>1, <1>2, PTL DEF Spec

\* Whatever requests cross, a subscription is of a rule that is there and its
\* user's, and a hit keeps its rule (api/alert_subscriptions.py:22-24).
THEOREM SubscriptionsAreOwned == Spec => []NothingDangles
<1>1. RowsInv => NothingDangles
  BY DEF RowsInv
<1> QED BY RowsInvariant, <1>1, PTL

\* Two users share a chat only when neither subscription was there as the
\* other's request began (api/alert_subscriptions.py:25-38): the check without
\* a lock lets nothing else through.
THEOREM ChatsAreSharedByRacingOnly == Spec => []SharedOnlyByRacing
<1>1. RowsInv => SharedOnlyByRacing
  BY DEF RowsInv
<1> QED BY RowsInvariant, <1>1, PTL

\* For any users, chats and overlapping requests: no subscription or hit is
\* without its rule or its owner, and only requests that crossed share a chat
\* (api/alert_subscriptions.py:22-40, api/scanner.py).
THEOREM RowsAreSound == Spec => []RowsSound
<1>1. NothingDangles /\ SharedOnlyByRacing => RowsSound
  BY DEF RowsSound
<1> QED BY SubscriptionsAreOwned, ChatsAreSharedByRacingOnly, <1>1, PTL

-----------------------------------------------------------------------------
(* A config request that nothing of its user crossed.                       *)

\* Config requests in flight.
Asking == {r \in requests : r.op = "config"}

\* A config row and a config request have a number of their own.
ConfigsNumbered ==
    /\ \A c \in configs : c.id <= issued
    /\ \A c, d \in configs : c.id = d.id => c = d
    /\ \A r \in Asking : r.n <= issued /\ \A c \in configs : c.id # r.n
    /\ \A q, r \in Asking : q.n = r.n => q = r

\* What a request read was, and is, a row of its user.
SawOwn ==
    \A r \in Asking : \A s \in r.saw :
        s.user = r.user /\ \E c \in configs : c.id = s.id /\ c.user = r.user

\* What an alone request read is what is there.
AloneSeesNow ==
    \A r \in Asking : r.alone =>
        /\ OfUser(r.user) = {r}
        /\ r.by = "scope" => r.saw = Existing(r.user, r.scope)
        /\ r.by = "id" => \E c \in configs : r.saw = {c}

ToggleInv == RowsInv /\ ConfigsNumbered /\ SawOwn /\ AloneSeesNow

\* Config requests are those in flight of one user or another.
LEMMA AskingTyped ==
    ASSUME RowsInv
    PROVE  /\ Asking \subseteq ConfigRequest
           /\ \A u : OfUser(u) = {r \in Asking : r.user = u}
           /\ configs \subseteq ConfigRow /\ issued \in Nat
BY DEF RowsInv, RowsShape, Asking, OfUser, RuleRequest, SubRequest

\* Requests on rules leave config rows and config requests alone.
LEMMA RulesAside ==
    ASSUME RowsInv, RuleNext
    PROVE  configs' = configs /\ Asking' = Asking /\ issued' >= issued
<1>0. issued \in Nat
  BY AskingTyped
<1>1. CASE \E u \in Users, id \in 1 .. MaxRequests :
              \/ \E e \in BOOLEAN : CreateRule(u, e)
              \/ Unsubscribe(u, id) \/ RecordHit(id)
  BY <1>0, <1>1 DEF CreateRule, Unsubscribe, RecordHit, Issue, Asking
<1>2. CASE \E u \in Users, id \in 1 .. MaxRequests :
              \/ \E op \in {"delete", "enable", "disable"} : AskRule(u, id, op)
              \/ \E t \in Targets : AskSubscription(u, id, t)
  BY <1>0, <1>2 DEF AskRule, AskSubscription, Begin, Issue, Asking
<1>3. CASE \E r \in requests : UpdateRule(r) \/ DeleteRule(r) \/ Subscribe(r)
  BY <1>0, <1>3 DEF UpdateRule, DeleteRule, Subscribe, Ends, Asking
<1>4. CASE \E r \in requests : CheckForeign(r) \/ CheckSame(r)
  <2>1. PICK r \in requests : CheckForeign(r) \/ CheckSame(r)
    BY <1>4
  <2>2. r \in SubRequest /\ r.op = "subscribe"
    BY <2>1 DEF CheckForeign, CheckSame, RowsInv, RowsShape, RuleRequest, ConfigRequest
  <2>3. \A at \in {"same", "insert"} : [r EXCEPT !.at = at].op = "subscribe"
    BY <2>2 DEF SubRequest
  <2>4. \E at \in {"same", "insert"} : requests' \subseteq (requests \ {r}) \cup {[r EXCEPT !.at = at]}
    BY <2>1 DEF CheckForeign, CheckSame
  <2>5. requests \ {r} \subseteq requests' /\ configs' = configs /\ issued' = issued
    BY <2>1 DEF CheckForeign, CheckSame
  <2>6. \A q \in requests' : q \in requests \/ q.op = "subscribe"
    BY <2>3, <2>4
  <2>7. Asking' = Asking
    BY <2>2, <2>5, <2>6 DEF Asking
  <2> QED BY <1>0, <2>5, <2>7
<1>5. CASE \E id \in 1 .. MaxRequests : RecordHit(id)
  BY <1>0, <1>5 DEF RecordHit, Issue, Asking
<1> QED BY <1>1, <1>2, <1>3, <1>4, <1>5 DEF RuleNext

\* A step that leaves rows and requests alone.
LEMMA ConfigsRest ==
    ASSUME ToggleInv, RowsInv', configs' = configs, Asking' = Asking, issued' >= issued
    PROVE  ToggleInv'
<1>1. issued \in Nat /\ issued' \in Nat
  BY AskingTyped DEF ToggleInv, RowsInv, RowsShape
<1>2. \A c \in configs : c.id \in Nat
  BY AskingTyped DEF ToggleInv, ConfigRow
<1>3. \A r \in Asking : r.n \in Nat
  BY AskingTyped DEF ToggleInv, ConfigRequest
<1>4. ConfigsNumbered'
  BY <1>1, <1>2, <1>3 DEF ToggleInv, ConfigsNumbered
<1>5. SawOwn'
  BY DEF ToggleInv, SawOwn
<1>6. \A u : OfUser(u) = {r \in Asking : r.user = u} /\ OfUser(u)' = {r \in Asking' : r.user = u}
  BY DEF OfUser, Asking
<1>7. AloneSeesNow'
  BY <1>6 DEF ToggleInv, AloneSeesNow, Existing
<1> QED BY <1>4, <1>5, <1>7 DEF ToggleInv

\* A request that begins reads what is there, and those it crosses are not
\* alone any more.
LEMMA BeginStep ==
    ASSUME ToggleInv, RowsInv', NEW r \in ConfigRequest, BeginConfig(r), r.n = issued + 1,
           r.alone = (OfUser(r.user) = {}),
           r.saw \subseteq configs, \A s \in r.saw : s.user = r.user,
           r.by = "scope" => r.saw = Existing(r.user, r.scope),
           r.by = "id" => \E c \in configs : r.saw = {c}
    PROVE  ToggleInv' /\ r \in OfUser(r.user)'
           /\ \A q \in Asking : q.user # r.user => q \in OfUser(q.user)'
<1> DEFINE crossed(q) == [q EXCEPT !.alone = FALSE]
<1>1. /\ requests' = (requests \ OfUser(r.user)) \cup {crossed(q) : q \in OfUser(r.user)} \cup {r}
      /\ configs' = configs /\ issued' = issued + 1 /\ issued \in Nat
  BY AskingTyped DEF BeginConfig, ToggleInv
<1>2. \A q \in ConfigRequest :
         /\ crossed(q).op = q.op /\ crossed(q).user = q.user /\ crossed(q).n = q.n
         /\ crossed(q).saw = q.saw /\ crossed(q).alone = FALSE
  BY DEF ConfigRequest
<1>3. r.op = "config" /\ \A q \in Asking : q \in ConfigRequest /\ q.op = "config" /\ q.n \in Nat
  BY AskingTyped DEF ToggleInv, ConfigRequest
<1>4. \A u : OfUser(u) = {q \in Asking : q.user = u} /\ OfUser(u)' = {q \in Asking' : q.user = u}
  BY DEF OfUser, Asking
<1> HIDE DEF crossed
<1>5. Asking' = {q \in Asking : q.user # r.user}
                 \cup {crossed(q) : q \in {p \in Asking : p.user = r.user}} \cup {r}
  <2>1. {q \in requests \ OfUser(r.user) : q.op = "config"} = {q \in Asking : q.user # r.user}
    BY <1>4 DEF Asking
  <2>2. \A q \in {crossed(p) : p \in OfUser(r.user)} : q.op = "config"
    BY <1>2, <1>3, <1>4
  <2> QED BY <1>1, <1>3, <1>4, <2>1, <2>2 DEF Asking
\* Each request of afterwards is one of before, or the new one.
<1>6. \A q \in Asking' : \/ q = r
                         \/ q \in Asking /\ q.user # r.user
                         \/ \E p \in Asking : /\ p.user = r.user /\ q = crossed(p)
                                              /\ q.user = p.user /\ q.n = p.n /\ q.saw = p.saw
                                              /\ q.alone = FALSE
  BY <1>2, <1>3, <1>5
<1>7. ConfigsNumbered'
  <2>1. \A c \in configs : c.id \in Nat /\ c.id <= issued
    BY AskingTyped DEF ToggleInv, ConfigsNumbered, ConfigRow
  <2>2. \A q \in Asking' : \/ q = r
                           \/ \E p \in Asking : q.n = p.n
    BY <1>6
  <2>3. \A p \in Asking : p.n \in Nat /\ p.n <= issued /\ \A c \in configs : c.id # p.n
    BY <1>3 DEF ToggleInv, ConfigsNumbered
  <2>4. \A q \in Asking' : q.n <= issued' /\ \A c \in configs : c.id # q.n
    BY <1>1, <2>1, <2>2, <2>3
  <2>5. ASSUME NEW p \in Asking', NEW q \in Asking', p.n = q.n
        PROVE  p = q
    <3>1. CASE p = r \/ q = r
      BY <1>1, <2>2, <2>3, <2>5, <3>1
    <3>2. CASE p # r /\ q # r
      BY <1>6, <2>5, <3>2 DEF ToggleInv, ConfigsNumbered
    <3> QED BY <3>1, <3>2
  <2>6. \A c \in configs : c.id <= issued'
    BY <1>1, <2>1
  <2>7. \A c, d \in configs : c.id = d.id => c = d
    BY DEF ToggleInv, ConfigsNumbered
  <2> QED BY <1>1, <2>4, <2>5, <2>6, <2>7 DEF ConfigsNumbered
<1>8. SawOwn'
  <2> SUFFICES ASSUME NEW q \in Asking', NEW s \in q.saw
               PROVE  s.user = q.user /\ \E c \in configs : c.id = s.id /\ c.user = q.user
    BY <1>1 DEF SawOwn
  <2>1. CASE q = r
    BY <2>1
  <2>2. CASE q # r
    BY <1>6, <2>2 DEF ToggleInv, SawOwn
  <2> QED BY <2>1, <2>2
<1>9. AloneSeesNow'
  <2> SUFFICES ASSUME NEW q \in Asking', q.alone
               PROVE  /\ OfUser(q.user)' = {q}
                      /\ q.by = "scope" => q.saw = Existing(q.user, q.scope)
                      /\ q.by = "id" => \E c \in configs : q.saw = {c}
    BY <1>1 DEF AloneSeesNow, Existing
  <2>1. CASE q = r
    <3>1. {p \in Asking : p.user = r.user} = {}
      BY <1>4, <2>1
    <3>2. OfUser(q.user)' = {q}
      BY <1>4, <1>5, <2>1, <3>1
    <3> QED BY <2>1, <3>2
  <2>2. CASE q \in Asking /\ q.user # r.user
    <3>1. OfUser(q.user)' = OfUser(q.user)
      BY <1>4, <1>5, <1>6, <2>2
    <3> QED BY <2>2, <3>1 DEF ToggleInv, AloneSeesNow
  <2> QED BY <1>6, <2>1, <2>2
<1>10. r \in OfUser(r.user)' /\ \A q \in Asking : q.user # r.user => q \in OfUser(q.user)'
  BY <1>4, <1>5
<1> QED BY <1>7, <1>8, <1>9, <1>10 DEF ToggleInv

\* Every request of a user is begun as BeginStep takes it.
LEMMA AskBegins ==
    ASSUME ToggleInv, NEW u \in Users, NEW sc \in Scopes, NEW p \in Params, NEW e \in BOOLEAN,
           AskConfig(u, sc, p, e) \/ \E c \in configs : PatchConfig(u, c, sc, p, e)
    PROVE  \E r \in ConfigRequest :
              /\ BeginConfig(r) /\ r.n = issued + 1 /\ r.alone = (OfUser(r.user) = {})
              /\ r.saw \subseteq configs /\ \A s \in r.saw : s.user = r.user
              /\ r.by = "scope" => r.saw = Existing(r.user, r.scope)
              /\ r.by = "id" => \E c \in configs : r.saw = {c}
<1>0. configs \subseteq ConfigRow /\ issued \in Nat /\ (OfUser(u) = {}) \in BOOLEAN
  BY AskingTyped DEF ToggleInv
<1>1. CASE AskConfig(u, sc, p, e)
  <2> DEFINE r == [op |-> "config", user |-> u, n |-> issued + 1, by |-> "scope",
                   saw |-> Existing(u, sc), scope |-> sc, params |-> p, enabled |-> e,
                   alone |-> OfUser(u) = {}]
  <2>1. r \in ConfigRequest
    BY <1>0 DEF ConfigRequest, Existing
  <2>2. /\ r.n = issued + 1 /\ r.alone = (OfUser(r.user) = {})
        /\ r.saw = Existing(r.user, r.scope) /\ r.by = "scope" /\ r.user = u
    OBVIOUS
  <2>3. BeginConfig(r)
    BY <1>1 DEF AskConfig
  <2> HIDE DEF r
  <2> QED BY <2>1, <2>2, <2>3 DEF Existing
<1>2. CASE \E c \in configs : PatchConfig(u, c, sc, p, e)
  <2> PICK c \in configs : PatchConfig(u, c, sc, p, e)
    BY <1>2
  <2> DEFINE r == [op |-> "config", user |-> u, n |-> issued + 1, by |-> "id",
                   saw |-> {c}, scope |-> sc, params |-> p, enabled |-> e,
                   alone |-> OfUser(u) = {}]
  <2>1. r \in ConfigRequest
    BY <1>0 DEF ConfigRequest
  <2>2. /\ r.n = issued + 1 /\ r.alone = (OfUser(r.user) = {})
        /\ r.saw = {c} /\ r.by = "id" /\ r.user = u
    OBVIOUS
  <2>3. BeginConfig(r) /\ c.user = u
    BY DEF PatchConfig
  <2> HIDE DEF r
  <2> QED BY <2>1, <2>2, <2>3
<1> QED BY <1>1, <1>2

\* What a commit may do to the rows: it inserts one of its user, or writes the
\* row it read; the rows of other users stay as they are.
LEMMA CommitRows ==
    ASSUME ToggleInv, NEW r \in Asking, CommitConfig(r)
    PROVE  /\ \A c \in configs : \E d \in configs' : d.id = c.id /\ d.user = c.user
           /\ \A c \in configs : c.user # r.user => c \in configs'
           /\ \A d \in configs' : \/ d.id = r.n /\ d.user = r.user
                                  \/ \E c \in configs : /\ c.id = d.id /\ c.user = d.user
                                                        /\ c.user # r.user => c = d
           /\ \A c, d \in configs' : c.id = d.id => c = d
<1>1. CASE configs' = configs
  BY <1>1 DEF ToggleInv, ConfigsNumbered
<1>2. CASE configs' = Written(r) /\ r.saw = {}
  <2> DEFINE new == [id |-> r.n, user |-> r.user, scope |-> r.scope,
                     params |-> r.params, enabled |-> r.enabled]
  <2>1. configs' = configs \cup {new} /\ new.id = r.n /\ new.user = r.user
    BY <1>2 DEF Written
  <2> HIDE DEF new
  <2> QED BY <2>1 DEF ToggleInv, ConfigsNumbered
<1>3. CASE configs' = Written(r) /\ r.saw # {}
  <2>1. PICK s \in r.saw : configs' = {IF c.id = s.id THEN Updated(r, s, c) ELSE c : c \in configs}
    BY <1>3 DEF Written
  <2>2. \A c \in configs : Updated(r, s, c).id = c.id /\ Updated(r, s, c).user = c.user
    BY AskingTyped DEF Updated, ToggleInv, ConfigRow
  <2>3. \A c \in configs : c.id = s.id => c.user = r.user
    BY DEF ToggleInv, SawOwn, ConfigsNumbered
  <2> DEFINE new(c) == IF c.id = s.id THEN Updated(r, s, c) ELSE c
  <2>4. \A c \in configs : /\ new(c).id = c.id /\ new(c).user = c.user
                           /\ c.user # r.user => new(c) = c
    BY <2>2, <2>3
  <2>5. configs' = {new(c) : c \in configs}
    BY <2>1
  <2> HIDE DEF new
  <2> QED BY <2>4, <2>5 DEF ToggleInv, ConfigsNumbered
<1> QED BY <1>1, <1>2, <1>3 DEF CommitConfig

\* A commit changes nothing an alone request of another user relies on.
LEMMA CommitStep ==
    ASSUME ToggleInv, RowsInv', NEW r \in Asking, CommitConfig(r)
    PROVE  ToggleInv'
<1>1. Asking' = Asking \ {r} /\ issued' = issued /\ issued \in Nat
  BY AskingTyped DEF CommitConfig, Ends, Asking, ToggleInv
<1>2. \A u : OfUser(u) = {q \in Asking : q.user = u} /\ OfUser(u)' = {q \in Asking' : q.user = u}
  BY DEF OfUser, Asking
<1>3. ConfigsNumbered'
  BY <1>1, CommitRows DEF ToggleInv, ConfigsNumbered
<1>4. SawOwn'
  <2> SUFFICES ASSUME NEW q \in Asking', NEW s \in q.saw
               PROVE  s.user = q.user /\ \E d \in configs' : d.id = s.id /\ d.user = q.user
    BY DEF SawOwn
  <2>1. s.user = q.user
    BY <1>1 DEF ToggleInv, SawOwn
  <2>2. PICK c \in configs : c.id = s.id /\ c.user = q.user
    BY <1>1 DEF ToggleInv, SawOwn
  <2> QED BY <2>1, <2>2, CommitRows
<1>5. AloneSeesNow'
  <2> SUFFICES ASSUME NEW q \in Asking', q.alone
               PROVE  /\ OfUser(q.user)' = {q}
                      /\ q.by = "scope" => q.saw = Existing(q.user, q.scope)'
                      /\ q.by = "id" => \E c \in configs' : q.saw = {c}
    BY DEF AloneSeesNow, Existing
  <2>1. q \in Asking /\ q # r /\ OfUser(q.user) = {q}
    BY <1>1 DEF ToggleInv, AloneSeesNow
  <2>2. q.user # r.user
    BY <1>2, <2>1
  <2>3. OfUser(q.user)' = {q}
    BY <1>1, <1>2, <2>1
  <2>4. Existing(q.user, q.scope)' = Existing(q.user, q.scope)
    BY <2>2, CommitRows DEF Existing
  <2>5. ASSUME q.by = "id"
        PROVE  \E c \in configs' : q.saw = {c}
    <3>1. PICK c \in configs : q.saw = {c}
      BY <2>1, <2>5 DEF ToggleInv, AloneSeesNow
    <3>2. c.user = q.user
      BY <2>1, <3>1 DEF ToggleInv, SawOwn
    <3> QED BY <2>2, <3>1, <3>2, CommitRows
  <2> QED BY <2>1, <2>3, <2>4, <2>5 DEF ToggleInv, AloneSeesNow
<1> QED BY <1>3, <1>4, <1>5 DEF ToggleInv

\* The commit of an alone request writes what it asked for.
LEMMA CommitAsAsked ==
    ASSUME ToggleInv, NEW r \in Asking, CommitConfig(r), r.alone,
           r.by = "scope" \/ configs' # configs
    PROVE  \E c \in configs' : /\ c.user = r.user /\ c.scope = r.scope
                               /\ c.params = r.params /\ c.enabled = r.enabled
<1>0. r \in ConfigRequest /\ configs \subseteq ConfigRow /\ OnePerScope(configs)
  BY AskingTyped DEF ToggleInv, RowsInv
<1>1. CASE r.saw = {}
  <2> DEFINE new == [id |-> r.n, user |-> r.user, scope |-> r.scope,
                     params |-> r.params, enabled |-> r.enabled]
  <2>1. Written(r) = configs \cup {new}
    BY <1>1 DEF Written
  <2>2. /\ new.user = r.user /\ new.scope = r.scope
        /\ new.params = r.params /\ new.enabled = r.enabled
    OBVIOUS
  <2> HIDE DEF new
  <2>3. r.by = "scope"
    BY <1>0, <1>1 DEF ToggleInv, AloneSeesNow, ConfigRequest
  <2>4. \A c \in configs : ~(c.user = r.user /\ c.scope = r.scope)
    BY <1>1, <2>3 DEF ToggleInv, AloneSeesNow, Existing
  <2>5. OnePerScope(Written(r))
    BY <1>0, <2>1, <2>2, <2>4 DEF OnePerScope
  <2> QED BY <2>1, <2>2, <2>5 DEF CommitConfig
<1>2. CASE r.saw # {}
  <2>1. PICK s \in r.saw : Written(r) = {IF c.id = s.id THEN Updated(r, s, c) ELSE c : c \in configs}
    BY <1>2 DEF Written
  <2>2. s \in configs /\ s.user = r.user
    BY <1>0 DEF ToggleInv, AloneSeesNow, Existing, ConfigRequest, SawOwn
  <2>3. /\ Updated(r, s, s).user = r.user /\ Updated(r, s, s).scope = r.scope
        /\ Updated(r, s, s).params = r.params /\ Updated(r, s, s).enabled = r.enabled
    BY <1>0, <2>2 DEF Updated, ConfigRow
  <2>4. Updated(r, s, s) \in Written(r)
    BY <2>1, <2>2
  <2>5. r.by = "scope" => OnePerScope(Written(r))
    <3> SUFFICES ASSUME r.by = "scope" PROVE OnePerScope(Written(r))
      OBVIOUS
    <3>1. s.scope = r.scope
      BY DEF ToggleInv, AloneSeesNow, Existing
    <3>2. \A c \in configs : c.id = s.id => c = s
      BY <2>2 DEF ToggleInv, ConfigsNumbered
    <3>3. \A d \in Written(r) : d = Updated(r, s, s) \/ (d \in configs /\ d # s)
      BY <2>1, <3>2
    <3> QED BY <1>0, <2>2, <2>3, <3>1, <3>3 DEF OnePerScope
  <2> QED BY <2>3, <2>4, <2>5 DEF CommitConfig
<1> QED BY <1>1, <1>2

LEMMA ToggleInvariant == Spec => []ToggleInv
<1>1. Init => ToggleInv
  BY RowsInitInv DEF Init, RowsInit, ToggleInv, Asking, ConfigsNumbered, SawOwn, AloneSeesNow
<1>2. ToggleInv /\ RowsInv' /\ [Next]_vars => ToggleInv'
  <2> SUFFICES ASSUME ToggleInv, RowsInv', [Next]_vars PROVE ToggleInv'
    OBVIOUS
  <2>1. CASE RuleNext
    BY <2>1, RulesAside, ConfigsRest DEF ToggleInv
  <2>2. CASE ConfigNext
    <3>1. CASE \E r \in requests : CommitConfig(r)
      BY <3>1, CommitStep DEF CommitConfig, Asking
    <3>2. CASE \E u \in Users, sc \in Scopes, p \in Params, e \in BOOLEAN :
                  AskConfig(u, sc, p, e) \/ \E c \in configs : PatchConfig(u, c, sc, p, e)
      BY <3>2, AskBegins, BeginStep
    <3> QED BY <2>2, <3>1, <3>2 DEF ConfigNext
  <2>3. CASE UNCHANGED rvars
    <3>1. issued' >= issued
      BY <2>3, AskingTyped DEF rvars, ToggleInv
    <3> QED BY <2>3, <3>1, ConfigsRest DEF rvars, Asking
  <2>4. RuleNext \/ ConfigNext \/ UNCHANGED rvars
    BY DEF Next, RowsStep, JobStep, SweepsStep, vars
  <2> QED BY <2>1, <2>2, <2>3, <2>4
<1> QED BY RowsInvariant, <1>1, <1>2, PTL DEF Spec

\* A request leaves only by its commit, and an alone one is then carried out.
LEMMA ToggleStep ==
    ASSUME ToggleInv, RowsInv', Next,
           NEW r \in requests, r.op = "config", OfUser(r.user)' = {},
           r.alone, r.by = "scope" \/ configs' # configs
    PROVE  \E c \in configs' : /\ c.user = r.user /\ c.scope = r.scope
                               /\ c.params = r.params /\ c.enabled = r.enabled
<1>1. r \in Asking /\ r \notin Asking'
  BY DEF Asking, OfUser
<1>2. CASE RuleNext
  BY <1>1, <1>2, RulesAside DEF ToggleInv
<1>3. CASE ConfigNext
  <2>1. CASE \E q \in requests : CommitConfig(q)
    <3>1. PICK q \in requests : CommitConfig(q)
      BY <2>1
    <3>2. q = r
      BY <1>1, <3>1 DEF CommitConfig, Ends, Asking
    <3> QED BY <1>1, <3>1, <3>2, CommitAsAsked
  <2>2. CASE \E u \in Users, sc \in Scopes, p \in Params, e \in BOOLEAN :
                AskConfig(u, sc, p, e) \/ \E c \in configs : PatchConfig(u, c, sc, p, e)
    <3>1. PICK q \in ConfigRequest :
              /\ BeginConfig(q) /\ q.n = issued + 1 /\ q.alone = (OfUser(q.user) = {})
              /\ q.saw \subseteq configs /\ \A s \in q.saw : s.user = q.user
              /\ q.by = "scope" => q.saw = Existing(q.user, q.scope)
              /\ q.by = "id" => \E c \in configs : q.saw = {c}
      BY <2>2, AskBegins
    <3>2. q \in OfUser(q.user)' /\ (r.user # q.user => r \in OfUser(r.user)')
      BY <1>1, <3>1, BeginStep
    <3> QED BY <3>2
  <2> QED BY <1>3, <2>1, <2>2 DEF ConfigNext
<1>4. CASE UNCHANGED rvars
  BY <1>1, <1>4 DEF rvars, Asking
<1>5. RuleNext \/ ConfigNext \/ UNCHANGED rvars
  BY DEF Next, RowsStep, JobStep, SweepsStep, vars
<1> QED BY <1>2, <1>3, <1>4, <1>5

\* A POST that no other request of its user crossed leaves the one row of its
\* scope as it asked, and a PATCH does or is refused (api/strategies.py:90-93),
\* whatever the other users' requests do meanwhile.
THEOREM AloneToggleTakesEffect == Spec => ToggleTakesEffect
<1>1. ToggleInv /\ RowsInv' /\ [Next]_vars =>
         [\A r \in {q \in requests : q.op = "config" /\ OfUser(q.user)' = {}} :
             r.alone /\ (r.by = "scope" \/ configs' # configs) =>
                 \E c \in configs' : /\ c.user = r.user /\ c.scope = r.scope
                                     /\ c.params = r.params /\ c.enabled = r.enabled]_rvars
  BY ToggleStep DEF vars
<1> QED BY RowsInvariant, ToggleInvariant, <1>1, PTL DEF ToggleTakesEffect, Spec

-----------------------------------------------------------------------------
(* The cron jobs.                                                           *)

Bar   == [of : Equities, day : 0 .. LastDay, quarter : 0 .. Quarters - 1, part : {"head", "rest"}]
Poll1 == [missing : SUBSET Equities, left : SUBSET Equities, got : SUBSET Bar]

SweepsShape ==
    /\ SweepsTypeOK
    /\ seeding \subseteq [missing : SUBSET Equities]
    /\ poll \subseteq Poll1

\* Every step of the cron jobs keeps their types.
LEMMA SweepsShapeStep ==
    ASSUME SweepsShape, SweepsNext
    PROVE  SweepsShape'
<1>0. delay' = delay
  BY DEF SweepsNext
<1> USE SweepsAssumption, <1>0 DEF SweepsShape, SweepsTypeOK, Bar, Poll1, Night
<1>1. CASE Tick
  BY <1>1 DEF Tick
<1>2. CASE SeedReads
  BY <1>2 DEF SeedReads, Missing
<1>3. ASSUME NEW s \in seeding, SeedCommits(s) PROVE SweepsShape'
  BY <1>3 DEF SeedCommits
<1>4. CASE StartPoll
  <2>1. poll' \subseteq Poll1
    BY <1>4 DEF StartPoll, Missing
  <2> QED BY <1>4, <2>1 DEF StartPoll
<1>5. CASE PollSkipped
  BY <1>5 DEF PollSkipped
<1>6. ASSUME NEW p \in poll, CommitPoll(p) PROVE SweepsShape'
  BY <1>6 DEF CommitPoll, Abort
<1>7. CASE FetchFails
  BY <1>7 DEF FetchFails, Abort
<1>8. ASSUME NEW p \in poll, NEW i \in p.left, Fetch(p, i) PROVE SweepsShape'
  <2>1. p \in Poll1 /\ i \in Equities
    OBVIOUS
  <2>2. BarsOf(i) \subseteq Bar
    BY <2>1 DEF BarsOf, Window, Parts
  <2> DEFINE q == [p EXCEPT !.left = @ \ {i}, !.got = @ \cup BarsOf(i)]
  <2>3. q \in Poll1
    BY <2>1, <2>2
  <2>4. poll' = {q}
    BY <1>8 DEF Fetch
  <2> HIDE DEF q
  <2> QED BY <1>8, <2>3, <2>4 DEF Fetch
<1>9. CASE RetentionJob
  BY <1>9 DEF RetentionJob
<1>10. ASSUME NEW p \in poll, NEW i \in p.left, FetchEmpty(p, i) PROVE SweepsShape'
  <2> DEFINE q == [p EXCEPT !.left = @ \ {i}]
  <2>1. q \in Poll1
    OBVIOUS
  <2>2. poll' = {q}
    BY <1>10 DEF FetchEmpty
  <2> HIDE DEF q
  <2> QED BY <1>10, <2>1, <2>2 DEF FetchEmpty
<1> QED BY <1>1, <1>2, <1>3, <1>4, <1>5, <1>6, <1>7, <1>8, <1>9, <1>10 DEF SweepsNext

\* What tick t asks for, and the row of it.
WindowOf(t) ==
    {w \in Parts : /\ t - Lookback <= w.quarter
                   /\ w.part = "head" => t - Lookback < w.quarter
                   /\ w.quarter + delay < t}
BarOf(i, d, w) == [of |-> i, day |-> d, quarter |-> w.quarter, part |-> w.part]
MissedOf(i, d, t) == [of |-> i, day |-> d, tick |-> t] \in missed

LEMMA BarsAreOfWindow ==
    ASSUME NEW i
    PROVE  Window = WindowOf(tick) /\ BarsOf(i) = {BarOf(i, day, w) : w \in Window}
BY DEF Window, WindowOf, BarsOf, BarOf

\* The poll that runs is of this tick, and has what it fetched: the window of
\* each equity it is done with, unless there was nothing.
PollAtWork ==
    \A p \in poll :
        /\ poll = {p} /\ InSession /\ "poll" \notin due
        /\ \A i \in Equities \ p.left : MissedOf(i, day, tick) \/ BarsOf(i) \subseteq p.got

\* The poll of tick t of day d has run, or was skipped.
PollOver(d, t) ==
    d < day \/ (d = day /\ (t < tick \/ (t = tick /\ "poll" \notin due /\ poll = {})))

\* What a poll did not miss is stored, while it is kept.
PollsStored ==
    \A i \in Equities, d \in 0 .. day, t \in 0 .. Quarters - 1 :
        Trades(d) /\ d > day - Retention /\ PollOver(d, t) /\ ~MissedOf(i, d, t)
            => \A w \in WindowOf(t) : BarOf(i, d, w) \in bars

\* The inductive invariant of SweepsAreSound.
SweepsInv == SweepsShape /\ PollAtWork /\ PollsStored

\* A tick begins when its day's earlier polls are over, and so is its own.
LEMMA TickStored ==
    ASSUME SweepsInv, Tick, delay' = delay
    PROVE  PollAtWork' /\ PollsStored'
<1>1. /\ due = {} /\ poll = {} /\ poll' = {} /\ bars' = bars /\ missed' = missed
      /\ day \in Nat /\ tick \in 0 .. Night
  BY SweepsAssumption DEF Tick, SweepsInv, SweepsShape, SweepsTypeOK
<1>2. PollAtWork'
  BY <1>1 DEF PollAtWork
<1>3. day' \in Nat /\ day <= day'
  BY <1>1 DEF Tick
<1>4. Quarters \in Nat /\ Night = Quarters + 1 /\ Retention \in Nat
  BY SweepsAssumption DEF Night
<1>5. ASSUME NEW d \in 0 .. day', NEW t \in 0 .. Quarters - 1, PollOver(d, t)'
      PROVE  d \in 0 .. day /\ PollOver(d, t)
  <2>1. CASE tick = Night
    <3>1. day' = day + 1 /\ tick' = 0 /\ due' = {"poll"}
      BY <1>4, <2>1 DEF Tick
    <3> QED BY <1>1, <1>4, <1>5, <2>1, <3>1 DEF PollOver
  <2>2. CASE tick # Night
    <3>1. day' = day /\ tick' = tick + 1
      BY <2>2 DEF Tick
    <3>2. tick' # Night => due' = {"poll"}
      BY DEF Tick
    <3> QED BY <1>1, <1>4, <1>5, <2>2, <3>1, <3>2 DEF PollOver
  <2> QED BY <2>1, <2>2
<1>6. ASSUME NEW i \in Equities, NEW d \in 0 .. day', NEW t \in 0 .. Quarters - 1,
             Trades(d), d > day' - Retention, PollOver(d, t)', ~MissedOf(i, d, t)',
             NEW w \in WindowOf(t)'
      PROVE  BarOf(i, d, w) \in bars
  <2>1. d > day - Retention
    <3>1. d \in Int /\ d > day' - Retention
      BY <1>6
    <3>2. day \in Int /\ day' \in Int /\ Retention \in Int /\ day <= day'
      BY <1>1, <1>3, <1>4
    <3>3. \A a, b, c, e \in Int : a <= b /\ c > b - e => c > a - e
      OBVIOUS
    <3> QED BY <3>1, <3>2, <3>3
  <2>2. ~MissedOf(i, d, t) /\ w \in WindowOf(t)
    BY <1>1, <1>6 DEF MissedOf, WindowOf
  <2> QED BY <1>5, <1>6, <2>1, <2>2 DEF SweepsInv, PollsStored
<1>7. PollsStored'
  BY <1>1, <1>6 DEF PollsStored, Trades, BarOf
<1> QED BY <1>2, <1>7

\* A step within a tick: polls that are over stay so, unless this tick's ends.
LEMMA WithinTick ==
    ASSUME SweepsInv, UNCHANGED <<delay, day, tick>>, missed \subseteq missed',
           \A b \in bars : b.day > day - Retention => b \in bars',
           \/ "poll" \notin due' /\ poll' = {} =>
                 \/ "poll" \notin due /\ poll = {}
                 \/ ~InSession
                 \/ \A i \in Equities : MissedOf(i, day, tick)' \/ BarsOf(i) \subseteq bars'
    PROVE  PollsStored'
<1> SUFFICES ASSUME NEW i \in Equities, NEW d \in 0 .. day, NEW t \in 0 .. Quarters - 1,
                    Trades(d), d > day - Retention, PollOver(d, t)', ~MissedOf(i, d, t)',
                    NEW w \in WindowOf(t)
             PROVE  BarOf(i, d, w) \in bars'
  BY DEF PollsStored, Trades, WindowOf, BarOf
<1>1. day \in Nat /\ Quarters \in Nat
  BY SweepsAssumption DEF SweepsInv, SweepsShape, SweepsTypeOK
<1>2. CASE PollOver(d, t)
  <2>1. ~MissedOf(i, d, t)
    BY DEF MissedOf
  <2>2. BarOf(i, d, w) \in bars
    BY <1>2, <2>1 DEF SweepsInv, PollsStored
  <2>3. BarOf(i, d, w).day = d
    BY DEF BarOf
  <2> QED BY <2>2, <2>3
<1>3. CASE ~PollOver(d, t)
  <2>1. d = day /\ t = tick /\ "poll" \notin due' /\ poll' = {} /\ ~("poll" \notin due /\ poll = {})
    BY <1>3 DEF PollOver
  <2>2. InSession
    BY <1>1, <2>1 DEF InSession
  <2>3. ~MissedOf(i, day, tick)'
    BY <2>1 DEF MissedOf
  <2>4. BarsOf(i) \subseteq bars'
    BY <2>1, <2>2, <2>3
  <2> QED BY <2>1, <2>4, BarsAreOfWindow
<1> QED BY <1>2, <1>3

\* Every step of the cron jobs keeps what the polls stored.
LEMMA SweepsInvStep ==
    ASSUME SweepsInv, SweepsNext
    PROVE  SweepsInv'
<1>0. delay' = delay
  BY DEF SweepsNext
<1>1. SweepsShape'
  BY SweepsShapeStep DEF SweepsInv
<1>2. ASSUME UNCHANGED <<day, tick, due, poll, bars, missed>>
      PROVE  SweepsInv'
  BY <1>0, <1>1, <1>2 DEF SweepsInv, PollAtWork, PollsStored, PollOver, InSession,
                    Window, WindowOf, BarsOf, BarOf, MissedOf, Trades
<1>4. CASE Tick
  BY <1>0, <1>1, <1>4, TickStored DEF Tick, SweepsInv
<1>5. CASE SeedReads \/ \E s \in seeding : SeedCommits(s)
  BY <1>2, <1>5 DEF SeedReads, SeedCommits
<1>6. CASE StartPoll
  <2>1. PollAtWork'
    BY <1>6 DEF StartPoll, PollAtWork, InSession, Trades
  <2>2. PollsStored'
    BY <1>0, <1>6, WithinTick DEF StartPoll
  <2> QED BY <1>1, <2>1, <2>2 DEF SweepsInv
<1>7. CASE PollSkipped
  <2>1. poll' = poll /\ \A p \in poll : "poll" \notin due
    BY <1>7 DEF PollSkipped, SweepsInv, PollAtWork
  <2>2. poll = {}
    BY <1>7, <2>1 DEF PollSkipped
  <2>3. PollAtWork'
    BY <2>1, <2>2 DEF PollAtWork
  <2>4. \A i \in Equities : MissedOf(i, day, tick)'
    BY <1>7 DEF PollSkipped, ThisPoll, MissedOf
  <2>5. PollsStored'
    BY <1>0, <1>7, <2>4, WithinTick DEF PollSkipped
  <2> QED BY <1>1, <2>3, <2>5 DEF SweepsInv
<1>8. ASSUME NEW p \in poll, UNCHANGED due, Abort
      PROVE  SweepsInv'
  <2>1. PollAtWork'
    BY <1>8 DEF Abort, PollAtWork
  <2>2. \A i \in Equities : MissedOf(i, day, tick)'
    BY <1>8 DEF Abort, ThisPoll, MissedOf
  <2>3. PollsStored'
    BY <1>0, <1>8, <2>2, WithinTick DEF Abort
  <2> QED BY <1>1, <2>1, <2>3 DEF SweepsInv
<1>9. ASSUME NEW p \in poll, CommitPoll(p)
      PROVE  SweepsInv'
  <2>1. CASE Inserts(p.missing)
    <3>1. /\ poll' = {} /\ bars' = bars \cup p.got /\ p.left = {}
          /\ UNCHANGED <<day, tick, due, missed>>
      BY <1>9, <2>1 DEF CommitPoll
    <3>2. \A i \in Equities : MissedOf(i, day, tick)' \/ BarsOf(i) \subseteq bars'
      BY <3>1 DEF SweepsInv, PollAtWork, MissedOf
    <3>3. PollsStored'
      BY <1>0, <3>1, <3>2, WithinTick
    <3>4. PollAtWork'
      BY <3>1 DEF PollAtWork
    <3> QED BY <1>1, <3>3, <3>4 DEF SweepsInv
  <2>2. CASE ~Inserts(p.missing)
    BY <1>8, <1>9, <2>2 DEF CommitPoll
  <2> QED BY <2>1, <2>2
<1>10. ASSUME NEW p \in poll, FetchFails
       PROVE  SweepsInv'
  BY <1>8, <1>10 DEF FetchFails
<1>11. ASSUME NEW p \in poll, NEW i \in p.left, Fetch(p, i) \/ FetchEmpty(p, i)
       PROVE  SweepsInv'
  <2>1. /\ UNCHANGED <<day, tick, due, bars>> /\ missed \subseteq missed'
    BY <1>11 DEF Fetch, FetchEmpty
  <2>2. p \in Poll1
    BY DEF SweepsInv, SweepsShape
  <2>3. PICK q \in Poll1 :
          /\ poll' = {q} /\ q.left = p.left \ {i} /\ p.got \subseteq q.got
          /\ MissedOf(i, day, tick)' \/ BarsOf(i) \subseteq q.got
    <3>1. CASE Fetch(p, i)
      <4> DEFINE q == [p EXCEPT !.left = @ \ {i}, !.got = @ \cup BarsOf(i)]
      <4>1. poll' = {q}
        BY <3>1 DEF Fetch
      <4>2. q \in Poll1
        BY <1>1, <4>1 DEF SweepsShape
      <4>3. q.left = p.left \ {i} /\ q.got = p.got \cup BarsOf(i)
        BY <2>2 DEF Poll1
      <4> HIDE DEF q
      <4> QED BY <4>1, <4>2, <4>3
    <3>2. CASE FetchEmpty(p, i)
      <4> DEFINE q == [p EXCEPT !.left = @ \ {i}]
      <4>1. poll' = {q}
        BY <3>2 DEF FetchEmpty
      <4>2. q \in Poll1
        BY <1>1, <4>1 DEF SweepsShape
      <4>3. q.left = p.left \ {i} /\ q.got = p.got
        BY <2>2 DEF Poll1
      <4>4. MissedOf(i, day, tick)'
        BY <3>2 DEF FetchEmpty, ThisPoll, MissedOf
      <4> HIDE DEF q
      <4> QED BY <4>1, <4>2, <4>3, <4>4
    <3> QED BY <1>11, <3>1, <3>2
  <2>4. \A h \in Equities \ q.left : MissedOf(h, day, tick)' \/ BarsOf(h) \subseteq q.got
    <3> SUFFICES ASSUME NEW h \in Equities \ q.left
                 PROVE  MissedOf(h, day, tick)' \/ BarsOf(h) \subseteq q.got
      OBVIOUS
    <3>1. CASE h = i
      BY <2>3, <3>1
    <3>2. CASE h # i
      <4>1. h \in Equities \ p.left
        BY <2>3, <3>2
      <4>2. MissedOf(h, day, tick) \/ BarsOf(h) \subseteq p.got
        BY <4>1 DEF SweepsInv, PollAtWork
      <4>3. MissedOf(h, day, tick) => MissedOf(h, day, tick)'
        BY <2>1 DEF MissedOf
      <4> QED BY <2>3, <4>2, <4>3
    <3> QED BY <3>1, <3>2
  <2>5. InSession /\ "poll" \notin due
    BY DEF SweepsInv, PollAtWork
  <2>6. InSession' = InSession /\ \A h : BarsOf(h)' = BarsOf(h)
    BY <1>0, <2>1 DEF BarsOf, Window, InSession, Trades
  <2>7. PollAtWork'
    BY <2>1, <2>3, <2>4, <2>5, <2>6 DEF PollAtWork, MissedOf
  <2>8. PollsStored'
    BY <1>0, <2>1, <2>3, WithinTick
  <2> QED BY <1>1, <2>7, <2>8 DEF SweepsInv
<1>12. CASE RetentionJob
  <2>1. UNCHANGED <<day, tick, poll, missed>> /\ ("poll" \in due' <=> "poll" \in due)
    BY <1>12 DEF RetentionJob
  <2>2. \A b \in bars : b.day > day - Retention => b \in bars'
    <3> SUFFICES ASSUME NEW b \in bars, b.day > day - Retention PROVE b \in bars'
      OBVIOUS
    <3>1. b.day \in Nat /\ day \in Nat /\ Retention \in Nat
      BY SweepsAssumption DEF SweepsInv, SweepsShape, SweepsTypeOK
    <3> QED BY <1>12, <3>1 DEF RetentionJob, Kept
  <2>3. PollAtWork'
    BY <1>0, <2>1 DEF SweepsInv, PollAtWork, InSession, Trades, Window, BarsOf, MissedOf
  <2>4. PollsStored'
    BY <1>0, <2>1, <2>2, WithinTick
  <2> QED BY <1>1, <2>3, <2>4 DEF SweepsInv
<1> QED BY <1>4, <1>5, <1>6, <1>7, <1>9, <1>10, <1>11, <1>12 DEF SweepsNext

LEMMA SweepsInvariant == Spec => []SweepsInv
<1>1. Init => SweepsInv
  <2> SUFFICES ASSUME Init PROVE SweepsInv
    OBVIOUS
  <2> USE DEF Init, SweepsInit
  <2>1. SweepsShape
    BY SweepsAssumption DEF SweepsShape, SweepsTypeOK, Night
  <2>2. PollAtWork
    BY DEF PollAtWork
  <2>3. PollsStored
    BY SweepsAssumption DEF PollsStored, PollOver
  <2> QED BY <2>1, <2>2, <2>3 DEF SweepsInv
<1>2. SweepsInv /\ [Next]_vars => SweepsInv'
  <2> SUFFICES ASSUME SweepsInv, [Next]_vars PROVE SweepsInv'
    OBVIOUS
  <2>1. CASE UNCHANGED svars
    BY <2>1 DEF svars, SweepsInv, SweepsShape, SweepsTypeOK, PollAtWork, PollsStored, PollOver,
                InSession, Window, WindowOf, BarsOf, BarOf, MissedOf, Trades
  <2>2. SweepsNext \/ UNCHANGED svars
    BY DEF Next, RowsStep, JobStep, SweepsStep, vars
  <2> QED BY <2>1, <2>2, SweepsInvStep
<1> QED BY <1>1, <1>2, PTL DEF Spec

\* A part of a quarter is stored when a poll that can get it ran: the last of
\* them is over, and one was not missed.
LEMMA SweptIfPolled == SweepsInv => SweptByNextPoll
<1> SUFFICES ASSUME SweepsInv, NEW i \in Equities, NEW d \in 0 .. day,
                    NEW q \in 0 .. Quarters - 1, NEW p \in {"head", "rest"},
                    Trades(d), Over(d, q), ~Misses(i, d, q, p), d > day - Retention
             PROVE  [of |-> i, day |-> d, quarter |-> q, part |-> p] \in bars
  BY DEF SweptByNextPoll
<1> DEFINE w == [quarter |-> q, part |-> p]
<1>0. delay \in Nat
  BY SweepsAssumption DEF SweepsInv, SweepsShape, SweepsTypeOK
<1>1. PICK t \in q + delay + 1 .. q + Lookback :
         t < Quarters /\ (p = "head" => t < q + Lookback) /\ ~MissedOf(i, d, t)
  BY DEF Misses, PollsOf, MissedOf
<1>2. /\ day \in Nat /\ tick \in Nat /\ Quarters \in Nat /\ Lookback \in Nat /\ q \in Nat
      /\ Night = Quarters + 1
  BY SweepsAssumption DEF SweepsInv, SweepsShape, SweepsTypeOK, Night
<1>3. t \in 0 .. Quarters - 1 /\ t - Lookback <= q /\ q + delay < t
  BY <1>0, <1>1, <1>2
<1>4. PollOver(d, t)
  BY <1>1, <1>2, <1>3 DEF Over, PollOver
<1>5. w \in WindowOf(t)
  BY <1>1, <1>2, <1>3 DEF WindowOf, Parts
<1>6. BarOf(i, d, w) \in bars
  BY <1>1, <1>3, <1>4, <1>5 DEF SweepsInv, PollsStored
<1> QED BY <1>6 DEF BarOf

\* For any equities, session, look-back, vendor's delay and retention: each part
\* of a quarter is stored unless every poll that can get it was missed or had no
\* answer, whatever seeds, failed fetches and retention runs cross them
\* (equity_poller.py:44-46, yfinance_adapter.py:51-52).
THEOREM SweepsAreSound == Spec => []SweepsSound
<1>1. SweepsInv => SweepsSound
  BY SweptIfPolled DEF SweepsInv, SweepsShape, SweepsSound
<1> QED BY SweepsInvariant, <1>1, PTL

\* Every reachable state of the backend's tables and jobs is well typed; that
\* includes one row per scope of a user's configs (models/strategy_config.py)
\* and one subscription of a number.
THEOREM TypeCorrect == Spec => []TypeOK
<1>1. RowsInv /\ JobInv /\ SweepsInv => TypeOK
  BY DEF RowsInv, RowsShape, RuleRow, Numbered, RowsTypeOK, JobInv, SweepsInv, SweepsShape, TypeOK
<1> QED BY RowsInvariant, JobInvariant, SweepsInvariant, <1>1, PTL
=============================================================================
