------------------------ MODULE SignalWorker_proofs -------------------------
(***************************************************************************)
(* Theorems about module SignalWorker: types, no publish without a row,    *)
(* and, when a key outlives the window of the jobs that may look for it,   *)
(* no signal stored twice.                                                 *)
(***************************************************************************)
EXTENDS SignalWorker, FiniteSetTheorems, TLAPS

\* The sets the constants span are what the actions take them for.
LEMMA ConstantsTyped ==
    /\ Sources \subseteq Nat \ {0} /\ Bars \subseteq Nat \ {0}
    /\ \A j \in Jobs : j[2] \in Bars
    /\ Models \X Bars \subseteq Jobs
    /\ \A e \in Emits : e[1] \in Sources /\ e[2] \in Bars /\ KeyOf(e) \in Keys
    /\ \A e \in Emits : KeyOf(e)[2] = e[2]
<1>1. Len(Configs) \in Nat /\ MaxBar \in Nat
  BY SignalAssumption
<1>2. \A e \in Emits : e[1] \in Sources /\ e[2] \in Bars
  BY SignalAssumption
<1>3. Sources \subseteq Nat \ {0} /\ Bars \subseteq Nat \ {0}
  BY <1>1 DEF Sources, Bars
<1>4. (\A j \in Jobs : j[2] \in Bars) /\ Models \X Bars \subseteq Jobs
  <2>2. \A j \in Jobs : j[2] \in Bars
    BY DEF Jobs
  <2>3. Models \X Bars \subseteq Jobs
    BY DEF Jobs
  <2> QED BY <2>2, <2>3
<1>5. \A e \in Emits : KeyOf(e) \in Keys /\ KeyOf(e)[2] = e[2]
  BY <1>2 DEF KeyOf, Keys
<1> QED BY <1>2, <1>3, <1>4, <1>5

\* A job's transaction has finitely many rows.
LEMMA EmitsFinite == IsFiniteSet(Emits) /\ \A S \in SUBSET Emits : IsFiniteSet(S)
<1>1. IsFiniteSet(Sources) /\ IsFiniteSet(Bars)
  BY SignalAssumption, FS_Interval DEF Sources, Bars
<1>2. IsFiniteSet(Sources \X Bars)
  BY <1>1, FS_Product
<1> QED BY <1>2, SignalAssumption, FS_Subset

\* A commit adds a number of rows to each key.
LEMMA RowsTyped ==
    ASSUME NEW S \in SUBSET Emits, NEW k
    PROVE  RowsOf(S, k) \in Nat
<1>1. IsFiniteSet({e \in S : KeyOf(e) = k})
  BY EmitsFinite
<1> QED BY <1>1, FS_CardinalityType DEF RowsOf

\* The state before the first candle is well typed.
LEMMA InitType == Init => TypeOK
<1> SUFFICES ASSUME Init PROVE TypeOK
  OBVIOUS
<1> USE DEF Init
<1>1. pc \in [Jobs -> {"unsent", "queued"} \cup Working \cup Ended]
  OBVIOUS
<1>2. todo \in [Jobs -> SUBSET Emits] /\ fresh \in [Jobs -> SUBSET Emits]
  OBVIOUS
<1>3. \A j \in Jobs : pc[j] \notin Working
  BY DEF Working
<1>4. \A j \in Jobs : /\ j[2] > now => pc[j] = "unsent"
                      /\ pc[j] \notin Working => todo[j] = {} /\ fresh[j] = {}
                      /\ pc[j] = "publish" => todo[j] = {}
  BY <1>3
<1>5. now \in 0 .. MaxBar /\ faults \in 0 .. MaxFaults
  BY SignalAssumption
<1> QED BY <1>1, <1>2, <1>4, <1>5, SignalAssumption DEF TypeOK

\* What a batch of closed candles does to the clock and the jobs.
LEMMA BatchReads ==
    ASSUME TypeOK, CloseBar
    PROVE  /\ now \in Nat /\ now' \in Nat /\ now < now' /\ now' <= now + 1 + MaxLag
           /\ now' <= MaxBar
           /\ \A j \in Jobs :
                /\ j[2] \in now + 1 .. now' => pc[j] = "unsent" /\ pc'[j] = "queued"
                /\ j[2] \notin now + 1 .. now' => pc'[j] = pc[j]
                /\ pc[j] \in {"queued"} \cup Working => now' <= j[2] + MaxLag
<1>1. MaxBatch \in 1 .. MaxLag + 1 /\ MaxLag \in Nat /\ MaxBar \in Nat /\ now \in Nat
  BY SignalAssumption DEF TypeOK
<1>2. PICK n \in 1 .. MaxBatch :
         /\ now + n <= MaxBar /\ now' = now + n
         /\ \A j \in Jobs : pc[j] \in {"queued"} \cup Working => now + n <= j[2] + MaxLag
         /\ pc' = [j \in Jobs |-> IF j[2] \in now + 1 .. now + n THEN "queued" ELSE pc[j]]
  BY DEF CloseBar
<1>3. ASSUME NEW j \in Jobs, j[2] \in now + 1 .. now' PROVE pc[j] = "unsent"
  <2>1. j[2] > now
    BY <1>1, <1>2, <1>3
  <2> QED BY <2>1 DEF TypeOK
<1> QED BY <1>1, <1>2, <1>3

\* Every step keeps the state well typed.
LEMMA TypeStep == TypeOK /\ [Next]_vars => TypeOK'
<1> SUFFICES ASSUME TypeOK, [Next]_vars PROVE TypeOK'
  OBVIOUS
<1> USE DEF TypeOK, Working, Ended
<1>1. CASE CloseBar
  <2>1. now' \in 0 .. MaxBar
    BY <1>1, BatchReads, SignalAssumption
  <2>2. pc' \in [Jobs -> {"unsent", "queued"} \cup Working \cup Ended]
    BY <1>1 DEF CloseBar
  <2>3. ASSUME NEW j \in Jobs
        PROVE  /\ j[2] > now' => pc'[j] = "unsent"
               /\ pc'[j] \notin Working => todo'[j] = {} /\ fresh'[j] = {}
               /\ pc'[j] = "publish" => todo'[j] = {}
    <3>1. now \in Nat /\ now' \in Nat /\ now < now' /\ j[2] \in Nat
      BY <1>1, BatchReads, ConstantsTyped
    <3>2. UNCHANGED <<todo, fresh>>
      BY <1>1 DEF CloseBar
    <3>3. CASE j[2] \in now + 1 .. now'
      <4>1. pc[j] = "unsent" /\ pc'[j] = "queued" /\ ~(j[2] > now')
        BY <1>1, <3>1, <3>3, BatchReads
      <4> QED BY <3>2, <4>1
    <3>4. CASE j[2] \notin now + 1 .. now'
      <4>1. pc'[j] = pc[j] /\ (j[2] > now' => j[2] > now)
        BY <1>1, <3>1, <3>4, BatchReads
      <4> QED BY <3>2, <4>1
    <3> QED BY <3>3, <3>4
  <2> QED BY <1>1, <2>1, <2>2, <2>3 DEF CloseBar
<1>2. CASE \E j \in Jobs : StartRun(j) \/ SkipClaimed(j) \/ Insert(j)
  <2>1. PICK j \in Jobs : StartRun(j) \/ SkipClaimed(j) \/ Insert(j)
    BY <1>2
  <2>2. ~(j[2] > now)
    BY <2>1 DEF StartRun, SkipClaimed, Insert
  <2>3. CASE StartRun(j)
    <3>1. Candidates(j) \in SUBSET Emits
      BY DEF Candidates
    <3> HIDE DEF Candidates
    <3> QED BY <2>2, <2>3, <3>1 DEF StartRun
  <2>4. CASE SkipClaimed(j)
    BY <2>2, <2>4 DEF SkipClaimed, First
  <2>5. CASE Insert(j)
    BY <2>2, <2>5 DEF Insert, First
  <2> QED BY <2>1, <2>3, <2>4, <2>5
<1>3. CASE \E j \in Jobs : Claim(j)
  <2>1. PICK j \in Jobs : Claim(j)
    BY <1>3
  <2>2. claimed' \in [Keys -> 0 .. MaxBar]
    BY <2>1, ConstantsTyped DEF Claim, SetKey, First
  <2> QED BY <2>1, <2>2 DEF Claim
<1>4. CASE \E j \in Jobs : Commit(j)
  <2>1. PICK j \in Jobs : Commit(j)
    BY <1>4
  <2>2. stored' \in [Keys -> Nat]
    BY <2>1, RowsTyped DEF Commit, AddRows
  <2> QED BY <2>1, <2>2 DEF Commit, Committing, Announces
<1>5. CASE \E j \in Jobs : Publish(j)
  <2>1. PICK j \in Jobs : Publish(j)
    BY <1>5
  <2>2. published' \in [Keys -> Nat]
    BY <2>1, ConstantsTyped DEF Publish, Send, First
  <2> QED BY <2>1, <2>2 DEF Publish
<1>6. CASE \E j \in Jobs : JobStops(j)
  <2>1. PICK j \in Jobs, to \in {"failed", "queued"} :
           \/ StopBefore(j, to) \/ StopAfterClaim(j, to)
           \/ StopAfterCommit(j, to) \/ StopAfterPublish(j, to)
    BY <1>6 DEF JobStops
  <2>2. /\ pc' = [pc EXCEPT ![j] = to] /\ todo' = [todo EXCEPT ![j] = {}]
        /\ fresh' = [fresh EXCEPT ![j] = {}]
    BY <2>1 DEF StopBefore, StopAfterClaim, StopAfterCommit, StopAfterPublish, End
  <2>3. /\ KeysOf(InHand(j)) \subseteq Keys
        /\ \A S \in SUBSET Emits : KeysOf(S) \subseteq Keys
    BY ConstantsTyped DEF KeysOf, InHand, First
  <2>4. faults' \in 0 .. MaxFaults
    BY <2>1, SignalAssumption DEF StopBefore, StopAfterClaim, StopAfterCommit, StopAfterPublish, Fault
  <2>5. torn' \subseteq Keys /\ mute' \subseteq Keys
    BY <2>1, <2>3 DEF StopBefore, StopAfterClaim, StopAfterCommit, StopAfterPublish, First
  <2>6. claimed' \in [Keys -> 0 .. MaxBar] /\ stored' \in [Keys -> Nat]
    BY <2>1, ConstantsTyped, RowsTyped
    DEF StopBefore, StopAfterClaim, StopAfterCommit, StopAfterPublish, SetKey, AddRows, First
  <2>7. published' \in [Keys -> Nat]
    <3>1. CASE StopAfterPublish(j, to)
      BY <3>1, ConstantsTyped DEF StopAfterPublish, Send, First
    <3>2. CASE StopBefore(j, to) \/ StopAfterClaim(j, to) \/ StopAfterCommit(j, to)
      BY <3>2 DEF StopBefore, StopAfterClaim, StopAfterCommit
    <3> QED BY <2>1, <3>1, <3>2
  <2>8. now' = now /\ enabled' = enabled /\ toggled' = toggled
    BY <2>1 DEF StopBefore, StopAfterClaim, StopAfterCommit, StopAfterPublish
  <2>9. ~(j[2] > now)
    BY <2>1
    DEF StopBefore, StopAfterClaim, StopAfterCommit, StopAfterPublish, Committing
  <2>10. \A i \in Jobs : /\ i[2] > now' => pc'[i] = "unsent"
                         /\ pc'[i] \notin Working => todo'[i] = {} /\ fresh'[i] = {}
                         /\ pc'[i] = "publish" => todo'[i] = {}
    BY <2>2, <2>8, <2>9
  <2> QED BY <2>2, <2>4, <2>5, <2>6, <2>7, <2>8, <2>10
<1>7. CASE \E j \in Jobs : Repeat(j)
  BY <1>7, SignalAssumption DEF Repeat, Fault
<1>8. CASE \E c \in Sources \ Models : Toggle(c)
  BY <1>8, SignalAssumption DEF Toggle, Fault
<1>9. CASE UNCHANGED vars
  BY <1>9 DEF vars
<1> QED
  BY <1>1, <1>2, <1>3, <1>4, <1>5, <1>6, <1>7, <1>8, <1>9 DEF Next, JobStep

\* Every reachable state is well typed, and a job that is not working has
\* neither candidates nor rows in hand.
THEOREM TypeCorrect == Spec => []TypeOK
<1> QED BY InitType, TypeStep, PTL DEF Spec

\* What is published has its row: rows are never deleted, and a job gets to
\* its publishes through its commit.
PublishInv ==
    /\ PublishedIsStored
    /\ \A j \in Jobs : pc[j] = "publish" =>
          \A e \in fresh[j] : stored[KeyOf(e)] > 0

\* Each candidate of a committed transaction has at least one row.
LEMMA CommitStores ==
    ASSUME TypeOK, NEW j \in Jobs, AddRows(j), NEW e \in fresh[j]
    PROVE  stored'[KeyOf(e)] > 0
<1> DEFINE rows == {d \in fresh[j] : KeyOf(d) = KeyOf(e)}
<1>1. e \in Emits /\ fresh[j] \in SUBSET Emits
  BY DEF TypeOK
<1>2. IsFiniteSet(rows) /\ rows # {}
  BY <1>1, EmitsFinite
<1>3. Cardinality(rows) \in Nat /\ Cardinality(rows) # 0
  BY <1>2, FS_CardinalityType, FS_EmptySet
<1>4. KeyOf(e) \in Keys
  BY <1>1, ConstantsTyped
<1>5. RowsOf(fresh[j], KeyOf(e)) \in Nat /\ RowsOf(fresh[j], KeyOf(e)) > 0
  BY <1>3 DEF RowsOf
<1>6. stored[KeyOf(e)] \in Nat
  BY <1>4 DEF TypeOK
<1> HIDE DEF rows
<1> QED BY <1>4, <1>5, <1>6 DEF AddRows

\* A commit deletes nothing.
LEMMA CommitKeeps ==
    ASSUME TypeOK, NEW j \in Jobs, AddRows(j), NEW k \in Keys
    PROVE  stored'[k] >= stored[k]
<1>1. RowsOf(fresh[j], k) \in Nat /\ stored[k] \in Nat
  BY RowsTyped DEF TypeOK
<1> QED BY <1>1 DEF AddRows

\* Every step keeps what is published stored.
LEMMA PublishInvStep == TypeOK /\ PublishInv /\ [Next]_vars => PublishInv'
<1> SUFFICES ASSUME TypeOK, PublishInv, [Next]_vars PROVE PublishInv'
  OBVIOUS
<1>1. \A j \in Jobs : \A e \in fresh[j] : e \in Emits /\ KeyOf(e) \in Keys
  BY ConstantsTyped DEF TypeOK
<1>2. CASE CloseBar
  BY <1>2 DEF CloseBar, PublishInv, PublishedIsStored
<1>3. CASE \E j \in Jobs : StartRun(j) \/ SkipClaimed(j) \/ Claim(j) \/ Insert(j) \/ Repeat(j)
  BY <1>3 DEF StartRun, SkipClaimed, Claim, Insert, Repeat, PublishInv, PublishedIsStored, TypeOK
<1>4. CASE \E j \in Jobs : Commit(j)
  <2>1. PICK j \in Jobs : Commit(j)
    BY <1>4
  <2>2. AddRows(j)
    BY <2>1 DEF Commit
  <2>3. \A k \in Keys : stored[k] \in Nat /\ stored'[k] \in Nat /\ stored'[k] >= stored[k]
    BY <2>2, CommitKeeps, RowsTyped DEF AddRows, TypeOK
  <2>4. PublishedIsStored'
    BY <2>1, <2>3 DEF Commit, PublishInv, PublishedIsStored
  <2>5. ASSUME NEW i \in Jobs, pc'[i] = "publish", NEW e \in fresh'[i]
        PROVE  stored'[KeyOf(e)] > 0
    <3>1. CASE i = j
      <4>1. e \in fresh[j]
        BY <2>1, <3>1, <2>5 DEF Commit, TypeOK
      <4> QED BY <2>2, <4>1, CommitStores
    <3>2. CASE i # j
      <4>1. pc[i] = "publish" /\ e \in fresh[i]
        BY <2>1, <3>2, <2>5 DEF Commit, TypeOK
      <4> QED BY <1>1, <2>3, <4>1 DEF PublishInv
    <3> QED BY <3>1, <3>2
  <2> QED BY <2>4, <2>5 DEF PublishInv
<1>5. CASE \E j \in Jobs : Publish(j)
  <2>0. PICK j \in Jobs : Publish(j)
    BY <1>5
  <2>1. PICK e \in First(fresh[j]) :
          /\ pc[j] = "publish" /\ Send(e) /\ stored' = stored
          /\ fresh' = [fresh EXCEPT ![j] = @ \ {e}]
          /\ \A i \in Jobs : pc'[i] = "publish" => pc[i] = "publish"
    BY <2>0 DEF Publish, TypeOK
  <2>2. stored[KeyOf(e)] > 0
    BY <2>1 DEF First, PublishInv
  <2>3. PublishedIsStored'
    BY <2>1, <2>2 DEF Send, PublishInv, PublishedIsStored, TypeOK
  <2> QED BY <2>1, <2>3 DEF PublishInv, TypeOK
<1>6. CASE \E j \in Jobs : JobStops(j)
  <2>1. PICK j \in Jobs, to \in {"failed", "queued"} :
           \/ StopBefore(j, to) \/ StopAfterClaim(j, to)
           \/ StopAfterCommit(j, to) \/ StopAfterPublish(j, to)
    BY <1>6 DEF JobStops
  <2>2. /\ pc' = [pc EXCEPT ![j] = to] /\ fresh' = [fresh EXCEPT ![j] = {}]
    BY <2>1 DEF StopBefore, StopAfterClaim, StopAfterCommit, StopAfterPublish, End
  <2>3. \A k \in Keys : stored[k] \in Nat /\ stored'[k] \in Nat /\ stored'[k] >= stored[k]
    <3>1. CASE StopAfterCommit(j, to)
      <4>1. AddRows(j)
        BY <3>1 DEF StopAfterCommit
      <4> QED BY <4>1, CommitKeeps, RowsTyped DEF AddRows, TypeOK
    <3>2. CASE StopBefore(j, to) \/ StopAfterClaim(j, to) \/ StopAfterPublish(j, to)
      BY <3>2 DEF StopBefore, StopAfterClaim, StopAfterPublish, TypeOK
    <3> QED BY <2>1, <3>1, <3>2
  <2>4. PublishedIsStored'
    <3>1. CASE StopAfterPublish(j, to)
      <4>1. PICK e \in First(fresh[j]) : Send(e) /\ stored' = stored /\ pc[j] = "publish"
        BY <3>1 DEF StopAfterPublish
      <4>2. stored[KeyOf(e)] > 0
        BY <4>1 DEF First, PublishInv
      <4> QED BY <4>1, <4>2 DEF Send, PublishInv, PublishedIsStored, TypeOK
    <3>2. CASE StopBefore(j, to) \/ StopAfterClaim(j, to) \/ StopAfterCommit(j, to)
      <4>1. published' = published
        BY <3>2 DEF StopBefore, StopAfterClaim, StopAfterCommit
      <4> QED BY <2>3, <4>1 DEF PublishInv, PublishedIsStored
    <3> QED BY <2>1, <3>1, <3>2
  <2>5. ASSUME NEW i \in Jobs, pc'[i] = "publish", NEW e \in fresh'[i]
        PROVE  stored'[KeyOf(e)] > 0
    <3>1. pc[i] = "publish" /\ e \in fresh[i]
      BY <2>2, <2>5 DEF TypeOK
    <3> QED BY <1>1, <2>3, <3>1 DEF PublishInv
  <2> QED BY <2>4, <2>5 DEF PublishInv
<1>7. CASE (\E c \in Sources \ Models : Toggle(c)) \/ UNCHANGED vars
  BY <1>7 DEF Toggle, vars, PublishInv, PublishedIsStored
<1> QED BY <1>2, <1>3, <1>4, <1>5, <1>6, <1>7 DEF Next, JobStep

\* No subscriber observes a signal whose row never persisted
\* (strategies/worker.py:104-106), whatever jobs overlap or break off.
THEOREM PublishedSignalIsStored == Spec => []PublishedIsStored
<1>1. Init => PublishInv
  BY DEF Init, PublishInv, PublishedIsStored
<1>2. TypeOK /\ PublishInv /\ [Next]_vars => PublishInv'
  BY PublishInvStep
<1>3. PublishInv => PublishedIsStored
  BY DEF PublishInv
<1> QED BY TypeCorrect, <1>1, <1>2, <1>3, PTL DEF Spec

-----------------------------------------------------------------------------
(* No signal is stored twice, when a key outlives every job that may look  *)
(* for it: a job looks back HistoryBars and has ended MaxLag bars after    *)
(* its candle.                                                             *)

\* A key set when its bar closed outlives the last job that may look for it.
TtlCovers == Ttl >= HistoryBars + MaxLag

\* The job is enqueued or running.
UnderWay(j) == pc[j] \in {"queued"} \cup Working

\* A job that may still claim looks at bars whose keys, if set, still live.
InReach ==
    /\ \A j \in Jobs : UnderWay(j) => j[2] <= now /\ now <= j[2] + MaxLag
    /\ \A j \in Jobs : \A e \in todo[j] \cup fresh[j] :
          e[2] <= now /\ j[2] < e[2] + HistoryBars
    /\ \A k \in Keys : claimed[k] # 0 => k[2] <= claimed[k]

\* A key in hand or stored was claimed, and it is in one hand or stored.
OneClaimant ==
    /\ \A k \in Keys : stored[k] > 0 => claimed[k] # 0
    /\ \A j \in Jobs : \A e \in InHand(j) :
          claimed[KeyOf(e)] # 0 /\ stored[KeyOf(e)] = 0
    /\ \A i, j \in Jobs : \A e \in InHand(i), d \in InHand(j) :
          KeyOf(e) = KeyOf(d) => i = j /\ e = d

\* The inductive invariant of SignalIsStoredOnce.
OnceInv == InReach /\ OneClaimant /\ StoredOnce

\* Bars are counted in natural numbers.
LEMMA NowTyped == TypeOK => now \in Nat
  BY SignalAssumption DEF TypeOK

\* The order of the loop is strict: a job is at one candidate.
LEMMA FirstIsUnique ==
    ASSUME NEW S \in SUBSET Emits, NEW e \in First(S), NEW d \in First(S)
    PROVE  e = d
<1>1. e[1] \in Nat /\ d[1] \in Nat /\ e[2] \in Nat /\ d[2] \in Nat
  BY ConstantsTyped DEF First
<1> QED BY <1>1 DEF First, Before

\* A job finds the key of a candidate in reach, if it was ever set.
LEMMA ClaimedIsHeld ==
    ASSUME TypeOK, InReach, TtlCovers,
           NEW j \in Jobs, pc[j] = "claim", NEW e \in todo[j],
           claimed[KeyOf(e)] # 0
    PROVE  HeldKey(KeyOf(e))
<1>1. e \in Emits /\ KeyOf(e) \in Keys /\ KeyOf(e)[2] = e[2]
  BY ConstantsTyped DEF TypeOK
<1>2. claimed[KeyOf(e)] \in Nat /\ e[2] <= claimed[KeyOf(e)]
  BY <1>1, SignalAssumption DEF InReach, TypeOK
<1>3. now <= j[2] + MaxLag /\ j[2] < e[2] + HistoryBars
  BY DEF InReach, UnderWay, Working
<1>4. now \in Nat /\ j[2] \in Nat /\ e[2] \in Nat
  BY <1>1, NowTyped, ConstantsTyped
<1>5. MaxLag \in Nat /\ HistoryBars \in Nat /\ Ttl \in Nat
  BY SignalAssumption
<1> QED BY <1>5, <1>2, <1>3, <1>4 DEF TtlCovers, HeldKey

\* Every step keeps the keys of the candidates at hand alive.
LEMMA InReachStep == TypeOK /\ InReach /\ [Next]_vars => InReach'
<1> SUFFICES ASSUME TypeOK, InReach, [Next]_vars PROVE InReach'
  OBVIOUS
<1>0. /\ now \in Nat
      /\ MaxLag \in Nat /\ MaxLag >= 1 /\ HistoryBars \in Nat /\ HistoryBars >= 1
      /\ \A j \in Jobs : j[2] \in Nat
      /\ \A e \in Emits : e[2] \in Nat /\ KeyOf(e) \in Keys /\ KeyOf(e)[2] = e[2]
  <2>1. MaxLag \in Nat /\ MaxLag >= 1 /\ HistoryBars \in Nat /\ HistoryBars >= 1
    BY SignalAssumption
  <2> QED BY <2>1, NowTyped, ConstantsTyped
<1>1. CASE CloseBar
  <2>1. UNCHANGED <<todo, fresh, claimed>>
    BY <1>1 DEF CloseBar
  <2>0. now' \in Nat /\ now < now' /\ now' <= now + 1 + MaxLag
    BY <1>1, BatchReads
  <2>2. ASSUME NEW j \in Jobs, UnderWay(j)'
        PROVE  j[2] <= now' /\ now' <= j[2] + MaxLag
    <3>1. CASE j[2] \in now + 1 .. now'
      BY <1>0, <2>0, <3>1
    <3>2. CASE j[2] \notin now + 1 .. now'
      <4>1. UnderWay(j)
        BY <1>1, <2>2, <3>2, BatchReads DEF UnderWay
      <4>2. now' <= j[2] + MaxLag
        BY <1>1, <4>1, BatchReads DEF UnderWay
      <4> QED BY <1>0, <2>0, <4>1, <4>2 DEF InReach
    <3> QED BY <3>1, <3>2
  <2>3. \A j \in Jobs : \A e \in todo[j] \cup fresh[j] : e[2] \in Nat
    BY <1>0 DEF TypeOK
  <2> QED BY <1>0, <2>0, <2>1, <2>2, <2>3 DEF InReach
<1>2. CASE \E j \in Jobs : StartRun(j)
  <2>1. PICK j \in Jobs : StartRun(j)
    BY <1>2
  <2>2. \A e \in Candidates(j) : e[2] <= now /\ j[2] < e[2] + HistoryBars
    <3>1. pc[j] = "queued"
      BY <2>1 DEF StartRun
    <3>2. j[2] <= now
      BY <3>1 DEF InReach, UnderWay
    <3> SUFFICES ASSUME NEW e \in Candidates(j)
                 PROVE  e[2] <= now /\ j[2] < e[2] + HistoryBars
      OBVIOUS
    <3>3. e \in Emits /\ (e = j \/ InWindow(e[2]))
      BY DEF Candidates
    <3> QED BY <1>0, <3>2, <3>3 DEF InWindow
  <2> HIDE DEF Candidates
  <2>3. \A i \in Jobs : UnderWay(i)' => UnderWay(i)
    BY <2>1 DEF StartRun, UnderWay, TypeOK, Working
  <2> QED BY <2>1, <2>2, <2>3 DEF StartRun, InReach, TypeOK
<1>3. CASE \E j \in Jobs : SkipClaimed(j) \/ Insert(j) \/ Commit(j) \/ Publish(j)
  <2>1. PICK j \in Jobs : SkipClaimed(j) \/ Insert(j) \/ Commit(j) \/ Publish(j)
    BY <1>3
  <2>2. now' = now /\ claimed' = claimed
    BY <2>1 DEF SkipClaimed, Insert, Commit, Publish
  <2>3. \A i \in Jobs : UnderWay(i)' => UnderWay(i)
    BY <2>1 DEF SkipClaimed, Insert, Commit, Publish, Committing, UnderWay, TypeOK, Working
  <2>4. \A i \in Jobs : todo'[i] \cup fresh'[i] \subseteq todo[i] \cup fresh[i]
    BY <2>1 DEF SkipClaimed, Insert, Commit, Publish, First, TypeOK
  <2> QED BY <2>2, <2>3, <2>4 DEF InReach
<1>4. CASE \E j \in Jobs : Claim(j)
  <2>1. PICK j \in Jobs : Claim(j)
    BY <1>4
  <2>2. PICK e \in First(todo[j]) : claimed' = [claimed EXCEPT ![KeyOf(e)] = now]
    BY <2>1 DEF Claim, SetKey
  <2>3. e \in todo[j] /\ e \in Emits /\ e[2] <= now
    BY <2>2 DEF First, InReach, TypeOK
  <2>4. \A k \in Keys : claimed'[k] # 0 => k[2] <= claimed'[k]
    BY <1>0, <2>2, <2>3 DEF InReach, TypeOK
  <2>5. \A i \in Jobs : UnderWay(i)' => UnderWay(i)
    BY <2>1 DEF Claim, UnderWay, TypeOK, Working
  <2>6. UNCHANGED <<now, todo, fresh>>
    BY <2>1 DEF Claim
  <2> QED BY <2>4, <2>5, <2>6 DEF InReach
<1>5. CASE \E j \in Jobs : JobStops(j)
  <2>1. PICK j \in Jobs, to \in {"failed", "queued"} :
           \/ StopBefore(j, to) \/ StopAfterClaim(j, to)
           \/ StopAfterCommit(j, to) \/ StopAfterPublish(j, to)
    BY <1>5 DEF JobStops
  <2>2. /\ pc' = [pc EXCEPT ![j] = to] /\ fresh' = [fresh EXCEPT ![j] = {}]
        /\ todo' = [todo EXCEPT ![j] = {}] /\ now' = now /\ pc[j] \in Working
    BY <2>1 DEF StopBefore, StopAfterClaim, StopAfterCommit, StopAfterPublish, End,
                Committing, Working
  <2>3. \A i \in Jobs : UnderWay(i)' => UnderWay(i)
    BY <2>2 DEF UnderWay, TypeOK
  <2>4. \A k \in Keys : claimed'[k] # 0 => k[2] <= claimed'[k]
    <3>1. CASE StopAfterClaim(j, to)
      <4>1. PICK e \in First(todo[j]) : claimed' = [claimed EXCEPT ![KeyOf(e)] = now]
        BY <3>1 DEF StopAfterClaim, SetKey
      <4>2. e \in todo[j] /\ e \in Emits /\ e[2] <= now
        BY <4>1 DEF First, InReach, TypeOK
      <4> QED BY <1>0, <4>1, <4>2 DEF InReach, TypeOK
    <3>2. CASE StopBefore(j, to) \/ StopAfterCommit(j, to) \/ StopAfterPublish(j, to)
      <4>1. claimed' = claimed
        BY <3>2 DEF StopBefore, StopAfterCommit, StopAfterPublish
      <4> QED BY <4>1 DEF InReach
    <3> QED BY <2>1, <3>1, <3>2
  <2> QED BY <2>2, <2>3, <2>4 DEF InReach, TypeOK
<1>6. CASE \E j \in Jobs : Repeat(j)
  <2>1. PICK j \in Jobs : Repeat(j)
    BY <1>6
  <2>2. \A i \in Jobs : UnderWay(i)' => UnderWay(i) \/ i[2] = now
    BY <2>1 DEF Repeat, UnderWay, TypeOK
  <2> QED BY <1>0, <2>1, <2>2 DEF Repeat, InReach
<1>7. CASE (\E c \in Sources \ Models : Toggle(c)) \/ UNCHANGED vars
  BY <1>7 DEF Toggle, vars, InReach, UnderWay
<1> QED BY <1>1, <1>2, <1>3, <1>4, <1>5, <1>6, <1>7 DEF Next, JobStep

\* What a job takes in hand or puts down leaves one claimant per key.
LEMMA OneClaimantStep ==
    TypeOK /\ InReach /\ OneClaimant /\ TtlCovers /\ [Next]_vars => OneClaimant'
<1> SUFFICES ASSUME TypeOK, InReach, OneClaimant, TtlCovers, [Next]_vars
             PROVE  OneClaimant'
  OBVIOUS
<1>0. /\ \A j \in Jobs : InHand(j) \subseteq Emits
      /\ \A e \in Emits : KeyOf(e) \in Keys /\ e[2] \in Nat /\ e[2] > 0
      /\ now \in Nat
  <2>1. \A j \in Jobs : First(todo[j]) \subseteq Emits /\ fresh[j] \subseteq Emits
    BY DEF First, TypeOK
  <2>2. \A j \in Jobs : InHand(j) \subseteq Emits
    BY <2>1 DEF InHand
  <2>3. ASSUME NEW e \in Emits
        PROVE  KeyOf(e) \in Keys /\ e[2] \in Nat /\ e[2] > 0
    <3>1. KeyOf(e) \in Keys /\ e[2] \in Nat /\ e[2] # 0
      BY ConstantsTyped
    <3> HIDE DEF KeyOf, Keys
    <3> QED BY <3>1
  <2>4. now \in Nat
    BY NowTyped
  <2> QED BY <2>2, <2>3, <2>4
\* Steps after which no job has more in hand, and no key or row is new.
<1>1. ASSUME UNCHANGED <<claimed, stored>>,
             \A i \in Jobs : InHand(i)' \subseteq InHand(i)
      PROVE  OneClaimant'
  BY <1>1 DEF OneClaimant
\* Steps that set the key of the candidate a job is at.
<1>2. ASSUME NEW j \in Jobs, pc[j] = "claim", SetKey(j), stored' = stored,
             InHand(j)' \subseteq fresh[j] \cup First(todo[j]),
             \A i \in Jobs \ {j} : InHand(i)' \subseteq InHand(i)
      PROVE  OneClaimant'
  <2>1. PICK e \in First(todo[j]) :
          ~HeldKey(KeyOf(e)) /\ claimed' = [claimed EXCEPT ![KeyOf(e)] = now]
    BY <1>2 DEF SetKey
  <2>2. First(todo[j]) = {e} /\ e \in todo[j] /\ e \in Emits
    BY <2>1, FirstIsUnique DEF First, TypeOK
  <2>3. claimed[KeyOf(e)] = 0
    BY <1>2, <2>1, <2>2, ClaimedIsHeld
  <2>4. stored[KeyOf(e)] = 0
    <3>1. KeyOf(e) \in Keys /\ stored[KeyOf(e)] \in Nat
      BY <1>0, <2>2 DEF TypeOK
    <3> QED BY <2>3, <3>1 DEF OneClaimant
  <2>5. \A i \in Jobs : \A d \in InHand(i) : KeyOf(d) # KeyOf(e)
    BY <2>3 DEF OneClaimant
  <2>6. InHand(j) = fresh[j]
    BY <1>2 DEF InHand
  <2>7. \A i \in Jobs : \A d \in InHand(i)' : d \in InHand(i) \/ (i = j /\ d = e)
    BY <1>2, <2>2, <2>6
  <2>8. now # 0
    BY <1>0, <2>2 DEF InReach
  <2>9. \A k \in Keys : /\ claimed[k] # 0 => claimed'[k] # 0
                        /\ k = KeyOf(e) => claimed'[k] # 0
    BY <2>1, <2>8 DEF TypeOK
  <2>10. \A i \in Jobs : \A d \in InHand(i)' :
            claimed'[KeyOf(d)] # 0 /\ stored'[KeyOf(d)] = 0
    BY <1>0, <1>2, <2>2, <2>4, <2>7, <2>9 DEF OneClaimant
  <2>11. ASSUME NEW i \in Jobs, NEW h \in Jobs, NEW c \in InHand(i)', NEW d \in InHand(h)',
                KeyOf(c) = KeyOf(d)
         PROVE  i = h /\ c = d
    BY <2>5, <2>7, <2>11 DEF OneClaimant
  <2>12. \A k \in Keys : stored'[k] > 0 => claimed'[k] # 0
    BY <1>2, <2>9 DEF OneClaimant
  <2> HIDE DEF InHand
  <2> QED BY <2>10, <2>11, <2>12 DEF OneClaimant
\* Steps that commit what a job has in hand.
<1>3. ASSUME NEW j \in Jobs, Committing(j), AddRows(j), claimed' = claimed,
             InHand(j)' = {},
             \A i \in Jobs \ {j} : InHand(i)' = InHand(i)
      PROVE  OneClaimant'
  <2>1. InHand(j) = fresh[j] /\ fresh[j] \in SUBSET Emits
    BY <1>3 DEF Committing, InHand, TypeOK
  <2>2. \A k \in Keys : k \notin KeysOf(fresh[j]) => stored'[k] = stored[k]
    <3> SUFFICES ASSUME NEW k \in Keys, k \notin KeysOf(fresh[j])
                 PROVE  stored'[k] = stored[k]
      OBVIOUS
    <3>1. {e \in fresh[j] : KeyOf(e) = k} = {}
      BY DEF KeysOf
    <3>2. RowsOf(fresh[j], k) = 0
      BY <3>1, FS_EmptySet DEF RowsOf
    <3>3. stored[k] \in Nat
      BY DEF TypeOK
    <3> QED BY <1>3, <3>2, <3>3 DEF AddRows
  <2>3. \A k \in Keys : k \in KeysOf(fresh[j]) => claimed[k] # 0
    BY <2>1 DEF KeysOf, OneClaimant
  <2>4. \A k \in Keys : stored'[k] > 0 => claimed'[k] # 0
    BY <1>3, <2>2, <2>3 DEF OneClaimant
  <2>5. ASSUME NEW i \in Jobs, NEW d \in InHand(i)'
        PROVE  claimed'[KeyOf(d)] # 0 /\ stored'[KeyOf(d)] = 0
    <3>1. i # j /\ d \in InHand(i)
      BY <1>3, <2>5
    <3>2. KeyOf(d) \notin KeysOf(fresh[j])
      BY <2>1, <3>1 DEF KeysOf, OneClaimant
    <3>3. KeyOf(d) \in Keys
      BY <1>0, <3>1
    <3> QED BY <1>3, <2>2, <3>1, <3>2, <3>3 DEF OneClaimant
  <2>6. \A i \in Jobs : InHand(i)' \subseteq InHand(i)
    BY <1>3
  <2> HIDE DEF InHand
  <2> QED BY <2>4, <2>5, <2>6 DEF OneClaimant
<1>4. CASE CloseBar
  <2>1. \A j \in Jobs : InHand(j)' \subseteq InHand(j)
    BY <1>4 DEF CloseBar, InHand, First, TypeOK
  <2> QED BY <1>1, <1>4, <2>1 DEF CloseBar
<1>5. CASE \E j \in Jobs : StartRun(j) \/ SkipClaimed(j) \/ Insert(j) \/ Publish(j) \/ Repeat(j)
  <2>1. PICK j \in Jobs : StartRun(j) \/ SkipClaimed(j) \/ Insert(j) \/ Publish(j) \/ Repeat(j)
    BY <1>5
  <2>2. UNCHANGED <<claimed, stored>>
    BY <2>1 DEF StartRun, SkipClaimed, Insert, Publish, Repeat
  <2>3. \A i \in Jobs \ {j} : InHand(i)' = InHand(i)
    BY <2>1 DEF StartRun, SkipClaimed, Insert, Publish, Repeat, InHand, TypeOK
  <2>4. InHand(j)' \subseteq InHand(j)
    <3>1. CASE StartRun(j) \/ Repeat(j)
      BY <3>1 DEF StartRun, Repeat, InHand, TypeOK, Working, Ended
    <3>2. CASE SkipClaimed(j)
      BY <3>2 DEF SkipClaimed, InHand, TypeOK
    <3>3. CASE Insert(j)
      BY <3>3 DEF Insert, InHand, TypeOK
    <3>4. CASE Publish(j)
      BY <3>4 DEF Publish, InHand, TypeOK
    <3> QED BY <2>1, <3>1, <3>2, <3>3, <3>4
  <2> QED BY <1>1, <2>2, <2>3, <2>4
<1>6. CASE \E j \in Jobs : Claim(j)
  <2>1. PICK j \in Jobs : Claim(j)
    BY <1>6
  <2>2. InHand(j)' \subseteq fresh[j] \cup First(todo[j])
    BY <2>1 DEF Claim, InHand, First, TypeOK
  <2>3. \A i \in Jobs \ {j} : InHand(i)' \subseteq InHand(i)
    BY <2>1 DEF Claim, InHand, First, TypeOK
  <2> QED BY <1>2, <2>1, <2>2, <2>3 DEF Claim
<1>7. CASE \E j \in Jobs : Commit(j)
  <2>1. PICK j \in Jobs : Commit(j)
    BY <1>7
  <2>2. InHand(j)' = {}
    BY <2>1 DEF Commit, InHand, TypeOK
  <2>3. \A i \in Jobs \ {j} : InHand(i)' = InHand(i)
    BY <2>1 DEF Commit, InHand, First, TypeOK
  <2> QED BY <1>3, <2>1, <2>2, <2>3 DEF Commit
<1>8. CASE \E j \in Jobs : JobStops(j)
  <2>1. PICK j \in Jobs, to \in {"failed", "queued"} :
           \/ StopBefore(j, to) \/ StopAfterClaim(j, to)
           \/ StopAfterCommit(j, to) \/ StopAfterPublish(j, to)
    BY <1>8 DEF JobStops
  <2>2. End(j, to)
    BY <2>1 DEF StopBefore, StopAfterClaim, StopAfterCommit, StopAfterPublish
  <2>3. InHand(j)' = {}
    BY <2>2 DEF End, InHand, TypeOK
  <2>4. \A i \in Jobs \ {j} : InHand(i)' = InHand(i)
    BY <2>2 DEF End, InHand, First, TypeOK
  <2>5. CASE StopBefore(j, to) \/ StopAfterPublish(j, to)
    BY <1>1, <2>3, <2>4, <2>5 DEF StopBefore, StopAfterPublish
  <2>6. CASE StopAfterClaim(j, to)
    BY <1>2, <2>3, <2>4, <2>6 DEF StopAfterClaim
  <2>7. CASE StopAfterCommit(j, to)
    BY <1>3, <2>3, <2>4, <2>7 DEF StopAfterCommit
  <2> QED BY <2>1, <2>5, <2>6, <2>7
<1>9. CASE (\E c \in Sources \ Models : Toggle(c)) \/ UNCHANGED vars
  <2>1. UNCHANGED <<claimed, stored, pc, todo, fresh>>
    BY <1>9 DEF Toggle, vars
  <2>2. \A i \in Jobs : InHand(i)' = InHand(i)
    BY <2>1 DEF InHand, First
  <2> QED BY <1>1, <2>1, <2>2
<1> QED BY <1>4, <1>5, <1>6, <1>7, <1>8, <1>9 DEF Next, JobStep

\* A commit adds at most one row to a key, and only to one without a row.
LEMMA StoredOnceStep ==
    TypeOK /\ OneClaimant /\ StoredOnce /\ [Next]_vars => StoredOnce'
<1> SUFFICES ASSUME TypeOK, OneClaimant, StoredOnce, [Next]_vars PROVE StoredOnce'
  OBVIOUS
<1>1. ASSUME NEW j \in Jobs, Committing(j), AddRows(j)
      PROVE  StoredOnce'
  <2> SUFFICES ASSUME NEW k \in Keys PROVE stored'[k] <= 1
    BY DEF StoredOnce
  <2> DEFINE rows == {e \in fresh[j] : KeyOf(e) = k}
  <2>1. InHand(j) = fresh[j]
    BY <1>1 DEF Committing, InHand
  <2>2. stored[k] \in Nat /\ stored[k] <= 1 /\ stored'[k] = stored[k] + RowsOf(fresh[j], k)
    BY <1>1 DEF AddRows, StoredOnce, TypeOK
  <2>3. CASE rows = {}
    <3>1. RowsOf(fresh[j], k) = 0
      BY <2>3, FS_EmptySet DEF RowsOf
    <3> QED BY <2>2, <3>1
  <2>4. CASE rows # {}
    <3>1. PICK e : e \in rows
      BY <2>4
    <3>2. rows = {e} /\ stored[k] = 0
      BY <2>1, <3>1 DEF OneClaimant
    <3>3. RowsOf(fresh[j], k) = 1
      BY <3>2, FS_Singleton DEF RowsOf
    <3> QED BY <2>2, <3>2, <3>3
  <2> QED BY <2>3, <2>4
<1>2. CASE \E j \in Jobs : Commit(j)
  BY <1>1, <1>2 DEF Commit
<1>3. CASE \E j \in Jobs : JobStops(j)
  BY <1>1, <1>3 DEF JobStops, StopBefore, StopAfterClaim, StopAfterCommit,
                    StopAfterPublish, StoredOnce
<1>4. CASE CloseBar \/ (\E c \in Sources \ Models : Toggle(c)) \/ UNCHANGED vars
  BY <1>4 DEF CloseBar, Toggle, vars, StoredOnce
<1>5. CASE \E j \in Jobs : \/ StartRun(j) \/ SkipClaimed(j) \/ Claim(j)
                          \/ Insert(j) \/ Publish(j) \/ Repeat(j)
  BY <1>5 DEF StartRun, SkipClaimed, Claim, Insert, Publish, Repeat, StoredOnce
<1> QED BY <1>2, <1>3, <1>4, <1>5 DEF Next, JobStep

\* A signal is stored at most once (strategies/worker.py:128-131), whatever
\* jobs overlap, repeat, break off or run again, provided that keys live as
\* long as the window and the lag of the jobs.
THEOREM SignalIsStoredOnce == ASSUME TtlCovers PROVE Spec => []StoredOnce
<1>1. Init => OnceInv
  <2> SUFFICES ASSUME Init PROVE OnceInv
    OBVIOUS
  <2>1. InReach
    BY DEF Init, InReach, UnderWay, Working
  <2>2. OneClaimant
    BY DEF Init, OneClaimant, InHand
  <2>3. StoredOnce
    BY DEF Init, StoredOnce
  <2> QED BY <2>1, <2>2, <2>3 DEF OnceInv
<1>2. TypeOK /\ OnceInv /\ [Next]_vars => OnceInv'
  BY TtlCovers, InReachStep, OneClaimantStep, StoredOnceStep DEF OnceInv
<1>3. OnceInv => StoredOnce
  BY DEF OnceInv
<1> QED BY TypeCorrect, <1>1, <1>2, <1>3, PTL DEF Spec

-----------------------------------------------------------------------------
(* No candidate is lost between the claim, the row and the publish, when   *)
(* the window of a job still holds its own candle.  Keys may expire here.  *)

\* A job ends before its candle leaves the rolling window (500 bars against
\* the five minutes of worker.py's job_timeout and the wait in the queue).
LagInWindow == MaxLag < HistoryBars

\* The configs a job answers for on its own bar: a model's job for its model,
\* a strategy job for every config nobody switched meanwhile.
Owes(j, i) == /\ <<i, j[2]>> \in Emits
              /\ i = j[1] \/ (j[1] = Close /\ i \in enabled \ toggled)

\* What a job holds was claimed; a model's job holds its own bar only; the
\* candidate of its bar is before a job, or claimed.
HandsInv ==
    /\ \A j \in Jobs : \A e \in InHand(j) : claimed[KeyOf(e)] # 0
    /\ \A j \in Jobs : j[1] # Close => todo[j] \cup fresh[j] \subseteq {j}
    /\ \A j \in Jobs, i \in Sources :
          /\ pc[j] \in Working \cup {"done"}
          /\ Owes(j, i)
          => <<i, j[2]>> \in todo[j] \/ claimed[KeyOf(<<i, j[2]>>)] # 0

\* The messages of key k that jobs have still to send.
Pending(k) == {p \in Jobs \X Emits :
                  pc[p[1]] = "publish" /\ p[2] \in fresh[p[1]] /\ KeyOf(p[2]) = k}

ConfigKeys == {StrategyOf[i] : i \in Sources \ Models} \X Bars

\* Every row of a config has its message, sent or to be sent.
RowsAnnounced ==
    \A k \in ConfigKeys \ mute : stored[k] <= published[k] + Cardinality(Pending(k))

\* The inductive invariant of NoSignalIsLost.
AccountInv == InReach /\ HandsInv /\ ClaimedIsAccounted /\ RowsAnnounced

\* A job's step changes its own place only.
LEMMA JobAlone ==
    ASSUME TypeOK, NEW j \in Jobs, JobStep(j) \/ JobStops(j) \/ Repeat(j)
    PROVE  /\ \A i \in Jobs \ {j} : /\ pc'[i] = pc[i] /\ todo'[i] = todo[i]
                                    /\ fresh'[i] = fresh[i]
                                    /\ InHand(i)' = InHand(i)
           /\ UNCHANGED <<now, enabled>> /\ toggled' = toggled
<1>1. CASE JobStep(j) \/ Repeat(j)
  <2>1. \A i \in Jobs \ {j} : pc'[i] = pc[i] /\ todo'[i] = todo[i] /\ fresh'[i] = fresh[i]
    BY <1>1 DEF JobStep, StartRun, SkipClaimed, Claim, Insert, Commit, Publish, Repeat, TypeOK
  <2>2. UNCHANGED <<now, enabled, toggled>>
    BY <1>1 DEF JobStep, StartRun, SkipClaimed, Claim, Insert, Commit, Publish, Repeat
  <2> QED BY <2>1, <2>2 DEF InHand, First
<1>2. CASE JobStops(j)
  <2>1. PICK to \in {"failed", "queued"} :
           \/ StopBefore(j, to) \/ StopAfterClaim(j, to)
           \/ StopAfterCommit(j, to) \/ StopAfterPublish(j, to)
    BY <1>2 DEF JobStops
  <2>2. \A i \in Jobs \ {j} : pc'[i] = pc[i] /\ todo'[i] = todo[i] /\ fresh'[i] = fresh[i]
    BY <2>1 DEF StopBefore, StopAfterClaim, StopAfterCommit, StopAfterPublish, End, TypeOK
  <2>3. UNCHANGED <<now, enabled, toggled>>
    BY <2>1 DEF StopBefore, StopAfterClaim, StopAfterCommit, StopAfterPublish
  <2> QED BY <2>2, <2>3 DEF InHand, First
<1> QED BY <1>1, <1>2

\* SET NX sets the key of the one candidate the job is at, and unsets none.
LEMMA SetKeyClaims ==
    ASSUME TypeOK, InReach, NEW j \in Jobs, SetKey(j)
    PROVE  /\ \A k \in Keys : claimed[k] # 0 => claimed'[k] # 0
           /\ \E e \in todo[j] : /\ First(todo[j]) = {e} /\ KeyOf(e) \in Keys
                                 /\ claimed' = [claimed EXCEPT ![KeyOf(e)] = now]
                                 /\ claimed'[KeyOf(e)] # 0
<1>1. PICK e \in First(todo[j]) : claimed' = [claimed EXCEPT ![KeyOf(e)] = now]
  BY DEF SetKey
<1>2. First(todo[j]) = {e} /\ e \in todo[j] /\ e \in Emits
  BY <1>1, FirstIsUnique DEF First, TypeOK
<1>3. KeyOf(e) \in Keys /\ e[2] \in Nat \ {0} /\ e[2] <= now
  BY <1>2, ConstantsTyped DEF InReach
<1>4. now # 0
  BY <1>3, NowTyped
<1> QED BY <1>1, <1>2, <1>3, <1>4 DEF TypeOK

\* No job takes a key back.
LEMMA KeysStaySet ==
    ASSUME TypeOK, InReach, NEW j \in Jobs, JobStep(j) \/ JobStops(j) \/ Repeat(j)
    PROVE  \A k \in Keys : claimed[k] # 0 => claimed'[k] # 0
<1>1. CASE SetKey(j)
  BY <1>1, SetKeyClaims
<1>2. CASE ~SetKey(j)
  <2>1. claimed' = claimed
    BY <1>2 DEF JobStep, StartRun, SkipClaimed, Claim, Insert, Commit, Publish, Repeat,
                JobStops, StopBefore, StopAfterClaim, StopAfterCommit, StopAfterPublish
  <2> QED BY <2>1
<1> QED BY <1>1, <1>2

\* What HandsInv says of one job.
HandsOf(j) ==
    /\ \A e \in InHand(j) : claimed[KeyOf(e)] # 0
    /\ j[1] # Close => todo[j] \cup fresh[j] \subseteq {j}
    /\ \A i \in Sources :
          /\ pc[j] \in Working \cup {"done"}
          /\ Owes(j, i)
          => <<i, j[2]>> \in todo[j] \/ claimed[KeyOf(<<i, j[2]>>)] # 0

\* A strategy job's number is no config's; a job is a pair.
LEMMA JobShape == /\ Close \notin Sources
                  /\ \A j \in Jobs : j = <<j[1], j[2]>> /\ (j[1] # Close => j[1] \in Models)
<1>1. Close \notin Sources
  BY DEF Sources, Close
<1>2. \A j \in Jobs : j = <<j[1], j[2]>> /\ (j[1] # Close => j[1] \in Models)
  BY DEF Jobs
<1> QED BY <1>1, <1>2

\* A run that starts has the candidates of its own bar before it.
LEMMA StartHands ==
    ASSUME TypeOK, InReach, LagInWindow, NEW j \in Jobs, StartRun(j)
    PROVE  HandsOf(j)'
<1>1. /\ pc[j] = "queued" /\ fresh'[j] = {} /\ todo'[j] = Candidates(j)
      /\ pc'[j] \in {"done", "claim"} /\ (pc'[j] = "done" <=> Candidates(j) = {})
      /\ UNCHANGED <<now, enabled, claimed>> /\ toggled' = toggled
  BY DEF StartRun, TypeOK, Working
<1>2. InHand(j)' = {}
  BY <1>1 DEF InHand
<1>3. j[1] # Close => Candidates(j) \subseteq {j}
  BY DEF Candidates
<1>4. ASSUME NEW i \in Sources, Owes(j, i)
      PROVE  <<i, j[2]>> \in Candidates(j)
  <2>1. InWindow(j[2])
    <3>1. j[2] <= now /\ now <= j[2] + MaxLag
      BY <1>1 DEF InReach, UnderWay
    <3>2. now \in Nat /\ j[2] \in Nat /\ MaxLag \in Nat /\ HistoryBars \in Nat
      BY NowTyped, ConstantsTyped, SignalAssumption
    <3> QED BY <3>1, <3>2 DEF InWindow, LagInWindow
  <2>2. CASE i = j[1]
    BY <1>4, <2>2, JobShape DEF Owes, Candidates
  <2>3. CASE j[1] = Close /\ i \in enabled \ toggled
    BY <1>4, <2>1, <2>3 DEF Owes, Candidates
  <2> QED BY <1>4, <2>2, <2>3 DEF Owes
<1>5. \A i \in Sources : Owes(j, i)' <=> Owes(j, i)
  BY <1>1 DEF Owes
<1> QED BY <1>1, <1>2, <1>3, <1>4, <1>5 DEF HandsOf

\* A step of a job keeps what HandsInv says of it.
LEMMA JobHands ==
    ASSUME TypeOK, InReach, LagInWindow, NEW j \in Jobs, HandsOf(j),
           JobStep(j) \/ JobStops(j) \/ Repeat(j)
    PROVE  HandsOf(j)'
<1>0. /\ \A i \in Sources : Owes(j, i)' <=> Owes(j, i)
      /\ \A k \in Keys : claimed[k] # 0 => claimed'[k] # 0
      /\ \A i \in Sources : Owes(j, i) => KeyOf(<<i, j[2]>>) \in Keys
      /\ todo[j] \in SUBSET Emits /\ fresh[j] \in SUBSET Emits
      /\ \A e \in Emits : KeyOf(e) \in Keys
  <2>1. \A i \in Sources : Owes(j, i)' <=> Owes(j, i)
    BY JobAlone DEF Owes
  <2>2. \A i \in Sources : Owes(j, i) => KeyOf(<<i, j[2]>>) \in Keys
    BY ConstantsTyped DEF Owes
  <2>3. todo[j] \in SUBSET Emits /\ fresh[j] \in SUBSET Emits
    BY DEF TypeOK
  <2> QED BY <2>1, <2>2, <2>3, KeysStaySet, ConstantsTyped
\* The job ended, or is queued: it holds nothing and owes nothing yet.
<1>1. ASSUME pc'[j] \in {"failed", "queued"}, todo'[j] = {}, fresh'[j] = {}
      PROVE  HandsOf(j)'
  BY <1>1 DEF HandsOf, InHand, Working
<1>2. CASE StartRun(j)
  BY <1>2, StartHands
<1>3. CASE SkipClaimed(j)
  <2>1. PICK e \in First(todo[j]) :
          /\ HeldKey(KeyOf(e)) /\ todo'[j] = todo[j] \ {e} /\ pc[j] = "claim"
          /\ pc'[j] = "claim" /\ claimed' = claimed /\ fresh'[j] = fresh[j]
    BY <1>3 DEF SkipClaimed, TypeOK
  <2>2. claimed[KeyOf(e)] # 0
    BY <2>1 DEF HeldKey
  <2>3. InHand(j)' = InHand(j)
    BY <2>1 DEF InHand
  <2> HIDE DEF KeyOf, Owes
  <2> QED BY <1>0, <2>1, <2>2, <2>3 DEF HandsOf, Working
<1>4. CASE Claim(j)
  <2>1. PICK e \in todo[j] : /\ First(todo[j]) = {e} /\ claimed'[KeyOf(e)] # 0
    BY <1>4, SetKeyClaims DEF Claim
  <2>2. /\ pc[j] = "claim" /\ pc'[j] = "insert" /\ todo'[j] = todo[j]
        /\ fresh'[j] = fresh[j]
    BY <1>4 DEF Claim, TypeOK
  <2>3. InHand(j) = fresh[j] /\ InHand(j)' = fresh[j] \cup {e}
    BY <2>1, <2>2 DEF InHand
  <2>4. \A d \in InHand(j)' : claimed'[KeyOf(d)] # 0
    BY <1>0, <2>1, <2>3 DEF HandsOf
  <2> QED BY <1>0, <2>2, <2>4 DEF HandsOf, Working
<1>5. CASE Insert(j)
  <2>1. PICK e \in First(todo[j]) :
          /\ todo'[j] = todo[j] \ {e} /\ fresh'[j] = fresh[j] \cup {e}
          /\ pc[j] = "insert" /\ pc'[j] = "claim" /\ claimed' = claimed
    BY <1>5 DEF Insert, TypeOK
  <2>2. InHand(j)' \subseteq InHand(j)
    BY <2>1 DEF InHand
  <2>3. claimed[KeyOf(e)] # 0
    BY <2>1 DEF InHand, HandsOf
  <2>4. e \in todo[j]
    BY <2>1 DEF First
  <2> HIDE DEF KeyOf, Owes, InHand
  <2> QED BY <1>0, <2>1, <2>2, <2>3, <2>4 DEF HandsOf, Working
<1>6. CASE Commit(j) \/ Publish(j)
  <2>1. /\ pc[j] \in {"claim", "publish"} /\ pc'[j] \in {"publish", "done"}
        /\ todo'[j] = todo[j] /\ fresh'[j] \subseteq fresh[j] /\ claimed' = claimed
    BY <1>6 DEF Commit, Committing, Publish, TypeOK
  <2>2. InHand(j)' = {}
    BY <2>1 DEF InHand
  <2> HIDE DEF KeyOf, Owes, InHand
  <2> QED BY <1>0, <2>1, <2>2 DEF HandsOf, Working
<1>7. CASE JobStops(j)
  <2>1. PICK to \in {"failed", "queued"} :
           \/ StopBefore(j, to) \/ StopAfterClaim(j, to)
           \/ StopAfterCommit(j, to) \/ StopAfterPublish(j, to)
    BY <1>7 DEF JobStops
  <2>2. pc'[j] = to /\ todo'[j] = {} /\ fresh'[j] = {}
    BY <2>1 DEF StopBefore, StopAfterClaim, StopAfterCommit, StopAfterPublish, End, TypeOK
  <2> QED BY <1>1, <2>2
<1>8. CASE Repeat(j)
  <2>1. pc'[j] = "queued" /\ todo'[j] = {} /\ fresh'[j] = {}
    BY <1>8 DEF Repeat, TypeOK, Working, Ended
  <2> QED BY <1>1, <2>1
<1> QED BY <1>2, <1>3, <1>4, <1>5, <1>6, <1>7, <1>8 DEF JobStep

\* Every step keeps what the jobs hold claimed, and what they owe before them.
LEMMA HandsStep ==
    TypeOK /\ InReach /\ HandsInv /\ LagInWindow /\ [Next]_vars => HandsInv'
<1> SUFFICES ASSUME TypeOK, InReach, HandsInv, LagInWindow, [Next]_vars
             PROVE  HandsInv'
  OBVIOUS
<1>1. HandsInv <=> \A j \in Jobs : HandsOf(j)
  BY DEF HandsInv, HandsOf
<1>2. HandsInv' <=> \A j \in Jobs : HandsOf(j)'
  BY DEF HandsInv, HandsOf
<1>3. CASE \E j \in Jobs : JobStep(j) \/ JobStops(j) \/ Repeat(j)
  <2>1. PICK j \in Jobs : JobStep(j) \/ JobStops(j) \/ Repeat(j)
    BY <1>3
  <2>2. HandsOf(j)'
    BY <1>1, <2>1, JobHands
  <2>3. ASSUME NEW h \in Jobs \ {j}
        PROVE  HandsOf(h)'
    <3>1. /\ pc'[h] = pc[h] /\ todo'[h] = todo[h] /\ fresh'[h] = fresh[h]
          /\ InHand(h)' = InHand(h)
          /\ \A i \in Sources : Owes(h, i)' <=> Owes(h, i)
      BY <2>1, JobAlone DEF Owes
    <3>2. InHand(h) \subseteq Emits
      BY DEF InHand, First, TypeOK
    <3>3. \A k \in Keys : claimed[k] # 0 => claimed'[k] # 0
      BY <2>1, KeysStaySet
    <3>4. \A i \in Sources : Owes(h, i) => KeyOf(<<i, h[2]>>) \in Keys
      BY ConstantsTyped DEF Owes
    <3>5. \A e \in InHand(h) : KeyOf(e) \in Keys
      BY <3>2, ConstantsTyped
    <3> HIDE DEF KeyOf, Owes, InHand
    <3> QED BY <1>1, <3>1, <3>3, <3>4, <3>5 DEF HandsOf
  <2> QED BY <1>2, <2>2, <2>3
<1>4. CASE CloseBar
  <2>1. UNCHANGED <<claimed, todo, fresh, enabled>> /\ toggled' = toggled
    BY <1>4 DEF CloseBar
  <2>2. ASSUME NEW j \in Jobs
        PROVE  HandsOf(j)'
    <3>1. CASE j[2] \in now + 1 .. now'
      <4>1. pc'[j] = "queued"
        BY <1>4, <3>1, BatchReads
      <4>2. InHand(j)' = {}
        BY <4>1 DEF InHand
      <4> QED BY <1>1, <2>1, <4>1, <4>2 DEF HandsOf, Working
    <3>2. CASE j[2] \notin now + 1 .. now'
      <4>1. pc'[j] = pc[j]
        BY <1>4, <3>2, BatchReads
      <4>2. InHand(j)' = InHand(j)
        BY <2>1, <4>1 DEF InHand, First
      <4> QED BY <1>1, <2>1, <4>1, <4>2 DEF HandsOf, Owes
    <3> QED BY <3>1, <3>2
  <2> QED BY <1>2, <2>2
<1>5. CASE (\E c \in Sources \ Models : Toggle(c)) \/ UNCHANGED vars
  <2>1. UNCHANGED <<claimed, pc, todo, fresh>>
    BY <1>5 DEF Toggle, vars
  <2>2. enabled' \ toggled' \subseteq enabled \ toggled
    BY <1>5 DEF Toggle, vars
  <2>3. \A j \in Jobs : InHand(j)' = InHand(j)
    BY <2>1 DEF InHand, First
  <2>4. \A j \in Jobs, i \in Sources : Owes(j, i)' => Owes(j, i)
    BY <2>2 DEF Owes
  <2> QED BY <1>1, <1>2, <2>1, <2>3, <2>4 DEF HandsOf
<1> QED BY <1>3, <1>4, <1>5 DEF Next

\* The key of a claimed candidate has its row, a job has it in hand, or a job
\* let it go.
Accounted(k) == stored[k] > 0 \/ k \in torn \/ \E j \in Jobs : k \in KeysOf(InHand(j))

\* A commit keeps the rows there are, and stores what the job had in hand.
LEMMA CommitAccounts ==
    ASSUME TypeOK, NEW j \in Jobs, Committing(j), AddRows(j), NEW k \in Keys
    PROVE  /\ stored[k] > 0 => stored'[k] > 0
           /\ k \in KeysOf(InHand(j)) => stored'[k] > 0
<1>1. stored[k] \in Nat /\ stored'[k] \in Nat /\ stored'[k] >= stored[k]
  BY CommitKeeps, RowsTyped DEF AddRows, TypeOK
<1>2. InHand(j) = fresh[j]
  BY DEF Committing, InHand
<1>3. k \in KeysOf(fresh[j]) => stored'[k] > 0
  BY CommitStores DEF KeysOf
<1> QED BY <1>1, <1>2, <1>3

\* Every step accounts for the claimed keys.
LEMMA AccountedStep ==
    TypeOK /\ InReach /\ ClaimedIsAccounted /\ [Next]_vars => ClaimedIsAccounted'
<1> SUFFICES ASSUME TypeOK, InReach, ClaimedIsAccounted, [Next]_vars
             PROVE  ClaimedIsAccounted'
  OBVIOUS
<1>1. ClaimedIsAccounted <=> \A k \in Keys : claimed[k] # 0 => Accounted(k)
  BY DEF ClaimedIsAccounted, Accounted
<1>2. ClaimedIsAccounted' <=> \A k \in Keys : claimed'[k] # 0 => Accounted(k)'
  BY DEF ClaimedIsAccounted, Accounted
\* A step of j that sets no key and takes no row: what j gives up is torn or
\* stored.
<1>3. ASSUME NEW j \in Jobs, NEW k \in Keys, claimed'[k] # 0, claimed[k] # 0,
             stored[k] > 0 => stored'[k] > 0, torn \subseteq torn',
             \A i \in Jobs \ {j} : InHand(i)' = InHand(i),
             k \in KeysOf(InHand(j)) => Accounted(k)'
      PROVE  Accounted(k)'
  <2>1. Accounted(k)
    BY <1>1, <1>3
  <2>2. CASE \E i \in Jobs \ {j} : k \in KeysOf(InHand(i))
    <3>1. \E i \in Jobs : k \in KeysOf(InHand(i)')
      BY <1>3, <2>2
    <3> QED BY <3>1 DEF Accounted, KeysOf
  <2> HIDE DEF InHand, KeysOf
  <2>3. CASE stored[k] > 0 \/ k \in torn
    BY <1>3, <2>3 DEF Accounted
  <2> QED BY <1>3, <2>1, <2>2, <2>3 DEF Accounted
<1>4. CASE \E j \in Jobs : JobStep(j) \/ JobStops(j) \/ Repeat(j)
  <2>1. PICK j \in Jobs : JobStep(j) \/ JobStops(j) \/ Repeat(j)
    BY <1>4
  <2>2. \A i \in Jobs \ {j} : InHand(i)' = InHand(i)
    BY <2>1, JobAlone
  <2>3. ASSUME \A k \in Keys : /\ stored[k] > 0 => stored'[k] > 0
                               /\ claimed'[k] # 0 => claimed[k] # 0 \/ Accounted(k)'
                               /\ k \in KeysOf(InHand(j)) => Accounted(k)',
               torn \subseteq torn'
        PROVE  ClaimedIsAccounted'
    BY <1>2, <1>3, <2>2, <2>3
  <2>4. ASSUME NEW k \in Keys, k \in KeysOf(InHand(j)'), claimed'[k] # 0
        PROVE  Accounted(k)'
    BY <2>4 DEF Accounted, KeysOf
  <2>5. CASE \/ StartRun(j) \/ SkipClaimed(j) \/ Insert(j) \/ Publish(j) \/ Repeat(j)
    <3>1. InHand(j) \subseteq InHand(j)'
      <4>1. CASE Insert(j)
        <5>1. PICK e \in First(todo[j]) :
                 /\ fresh'[j] = fresh[j] \cup {e} /\ pc[j] = "insert" /\ pc'[j] = "claim"
          BY <4>1 DEF Insert, TypeOK
        <5>2. First(todo[j]) = {e}
          BY <5>1, FirstIsUnique DEF TypeOK
        <5> QED BY <5>1, <5>2 DEF InHand
      <4>2. CASE SkipClaimed(j)
        BY <4>2 DEF SkipClaimed, InHand, TypeOK
      <4>3. CASE StartRun(j) \/ Repeat(j) \/ Publish(j)
        <5>1. pc[j] \notin {"claim", "insert"}
          BY <4>3 DEF StartRun, Repeat, Publish, Ended
        <5> QED BY <5>1 DEF InHand
      <4> QED BY <2>5, <4>1, <4>2, <4>3
    <3>2. UNCHANGED <<claimed, stored, torn>>
      BY <2>5 DEF StartRun, SkipClaimed, Insert, Publish, Repeat
    <3>3. \A k \in Keys : k \in KeysOf(InHand(j)) => Accounted(k)'
      BY <3>1 DEF Accounted, KeysOf
    <3> QED BY <2>3, <3>2, <3>3
  <2>6. CASE Claim(j)
    <3>1. PICK e \in todo[j] : /\ First(todo[j]) = {e}
                               /\ claimed' = [claimed EXCEPT ![KeyOf(e)] = now]
      BY <2>6, SetKeyClaims DEF Claim
    <3>2. /\ pc[j] = "claim" /\ pc'[j] = "insert" /\ todo'[j] = todo[j]
          /\ fresh'[j] = fresh[j] /\ UNCHANGED <<stored, torn>>
      BY <2>6 DEF Claim, TypeOK
    <3>3. InHand(j) \subseteq InHand(j)' /\ e \in InHand(j)'
      BY <3>1, <3>2 DEF InHand
    <3>4. \A k \in Keys : claimed'[k] # 0 => claimed[k] # 0 \/ k = KeyOf(e)
      BY <3>1 DEF TypeOK
    <3>5. /\ \A k \in Keys : k \in KeysOf(InHand(j)) => Accounted(k)'
          /\ Accounted(KeyOf(e))'
      <4>1. Accounted(KeyOf(e))'
        <5>1. \E i \in Jobs : KeyOf(e) \in KeysOf(InHand(i)')
          BY <3>3 DEF KeysOf
        <5> QED BY <5>1 DEF Accounted, KeysOf
      <4>2. \A k \in Keys : k \in KeysOf(InHand(j)) => Accounted(k)'
        BY <3>3 DEF Accounted, KeysOf
      <4> QED BY <4>1, <4>2
    <3> QED BY <2>3, <3>2, <3>4, <3>5
  <2>7. CASE Commit(j)
    <3>1. Committing(j) /\ AddRows(j) /\ UNCHANGED <<claimed, torn>>
      BY <2>7 DEF Commit
    <3> QED BY <2>3, <3>1, CommitAccounts DEF Accounted
  <2>8. CASE JobStops(j)
    <3>1. PICK to \in {"failed", "queued"} :
             \/ StopBefore(j, to) \/ StopAfterClaim(j, to)
             \/ StopAfterCommit(j, to) \/ StopAfterPublish(j, to)
      BY <2>8 DEF JobStops
    <3>2. CASE StopBefore(j, to)
      <4>1. torn' = torn \cup KeysOf(InHand(j)) /\ UNCHANGED <<claimed, stored>>
        BY <3>2 DEF StopBefore
      <4> QED BY <2>3, <4>1 DEF Accounted
    <3>3. CASE StopAfterClaim(j, to)
      <4>1. PICK e \in todo[j] : /\ First(todo[j]) = {e}
                                 /\ claimed' = [claimed EXCEPT ![KeyOf(e)] = now]
        BY <3>3, SetKeyClaims DEF StopAfterClaim
      <4>2. /\ torn' = torn \cup KeysOf(fresh[j] \cup {e}) /\ stored' = stored
            /\ InHand(j) = fresh[j]
        BY <3>3, <4>1 DEF StopAfterClaim, InHand
      <4>3. \A k \in Keys : claimed'[k] # 0 => claimed[k] # 0 \/ k = KeyOf(e)
        BY <4>1 DEF TypeOK
      <4>4. \A k \in Keys : k = KeyOf(e) \/ k \in KeysOf(InHand(j)) => k \in torn'
        BY <4>2 DEF KeysOf
      <4> QED BY <2>3, <4>2, <4>3, <4>4 DEF Accounted
    <3>4. CASE StopAfterCommit(j, to)
      <4>1. Committing(j) /\ AddRows(j) /\ UNCHANGED <<claimed, torn>>
        BY <3>4 DEF StopAfterCommit
      <4> QED BY <2>3, <4>1, CommitAccounts DEF Accounted
    <3>5. CASE StopAfterPublish(j, to)
      <4>1. InHand(j) = {} /\ UNCHANGED <<claimed, stored, torn>>
        BY <3>5 DEF StopAfterPublish, InHand
      <4> QED BY <2>3, <4>1 DEF KeysOf
    <3> QED BY <3>1, <3>2, <3>3, <3>4, <3>5
  <2> QED BY <2>1, <2>5, <2>6, <2>7, <2>8 DEF JobStep
<1>5. CASE CloseBar
  <2>1. UNCHANGED <<claimed, stored, torn, todo, fresh>>
    BY <1>5 DEF CloseBar
  <2>2. ASSUME NEW j \in Jobs
        PROVE  InHand(j)' = InHand(j)
    <3>1. CASE j[2] \in now + 1 .. now'
      <4>1. pc[j] = "unsent" /\ pc'[j] = "queued"
        BY <1>5, <3>1, BatchReads
      <4> QED BY <4>1 DEF InHand
    <3>2. CASE j[2] \notin now + 1 .. now'
      <4>1. pc'[j] = pc[j]
        BY <1>5, <3>2, BatchReads
      <4> QED BY <2>1, <4>1 DEF InHand, First
    <3> QED BY <3>1, <3>2
  <2> QED BY <1>1, <1>2, <2>1, <2>2 DEF Accounted, KeysOf
<1>6. CASE (\E c \in Sources \ Models : Toggle(c)) \/ UNCHANGED vars
  <2>1. UNCHANGED <<claimed, stored, torn, pc, todo, fresh>>
    BY <1>6 DEF Toggle, vars
  <2>2. \A j \in Jobs : InHand(j)' = InHand(j)
    BY <2>1 DEF InHand, First
  <2> QED BY <1>1, <1>2, <2>1, <2>2 DEF Accounted, KeysOf
<1> QED BY <1>4, <1>5, <1>6 DEF Next

\* There are finitely many messages to send.
LEMMA PendingFinite ==
    /\ \A P \in SUBSET (Jobs \X Emits) : IsFiniteSet(P) /\ Cardinality(P) \in Nat
    /\ \A k : Pending(k) \in SUBSET (Jobs \X Emits)
<1>1. IsFiniteSet(Sources) /\ IsFiniteSet(Bars)
  BY SignalAssumption, FS_Interval DEF Sources, Bars
<1>2. IsFiniteSet(Models) /\ IsFiniteSet({Close})
  BY <1>1, SignalAssumption, FS_Subset, FS_Singleton
<1>3. IsFiniteSet({Close} \cup Models)
  BY <1>2, FS_Union
<1>4. IsFiniteSet(Jobs)
  BY <1>1, <1>3, FS_Product DEF Jobs
<1>5. IsFiniteSet(Jobs \X Emits)
  BY <1>4, EmitsFinite, FS_Product
<1>6. \A P \in SUBSET (Jobs \X Emits) : IsFiniteSet(P)
  BY <1>5, FS_Subset
<1> QED BY <1>6, FS_CardinalityType DEF Pending

\* The messages of a job for a key are as many as the rows it committed.
LEMMA RowsAreMessages ==
    ASSUME NEW j, NEW S \in SUBSET Emits, NEW k
    PROVE  Cardinality({j} \X {e \in S : KeyOf(e) = k}) = RowsOf(S, k)
<1> DEFINE T == {e \in S : KeyOf(e) = k}
<1>1. IsFiniteSet(T) /\ IsFiniteSet({j}) /\ Cardinality({j}) = 1
  BY EmitsFinite, FS_Singleton
<1>2. Cardinality({j} \X T) = Cardinality({j}) * Cardinality(T)
  BY <1>1, FS_Product
<1>3. Cardinality(T) \in Nat
  BY <1>1, FS_CardinalityType
<1> HIDE DEF T
<1>4. Cardinality({j} \X T) = Cardinality(T)
  BY <1>1, <1>2, <1>3
<1> QED BY <1>4 DEF T, RowsOf

\* A key none of whose candidates is in S gets no row from it.
LEMMA NoRows ==
    ASSUME NEW S, NEW k, k \notin KeysOf(S)
    PROVE  RowsOf(S, k) = 0
<1>1. {e \in S : KeyOf(e) = k} = {}
  BY DEF KeysOf
<1> QED BY <1>1, FS_EmptySet DEF RowsOf

\* A model's job has nothing in its transaction for a config's key.
LEMMA ModelRows ==
    ASSUME HandsInv, NEW j \in Jobs, j[1] # Close, NEW k \in ConfigKeys
    PROVE  k \notin KeysOf(fresh[j])
<1>1. j[1] \in Models /\ fresh[j] \subseteq {j}
  BY JobShape DEF HandsInv
<1>2. k[1] # StrategyOf[j[1]]
  <2>1. PICK i \in Sources \ Models : k[1] = StrategyOf[i]
    BY DEF ConfigKeys
  <2> QED BY <1>1, <2>1, SignalAssumption
<1> QED BY <1>1, <1>2 DEF KeysOf, KeyOf

\* Every step leaves each row of a config its message, or its job is mute.
LEMMA RowsStep ==
    TypeOK /\ HandsInv /\ RowsAnnounced /\ [Next]_vars => RowsAnnounced'
<1> SUFFICES ASSUME TypeOK, HandsInv, RowsAnnounced, [Next]_vars,
                    NEW k \in ConfigKeys, k \notin mute'
             PROVE  stored'[k] <= published'[k] + Cardinality(Pending(k)')
  BY DEF RowsAnnounced, Pending
<1>1. mute \subseteq mute'
  <2>1. CASE \E j \in Jobs : JobStep(j) \/ Repeat(j)
    BY <2>1 DEF JobStep, StartRun, SkipClaimed, Claim, Insert, Commit, Publish, Repeat
  <2>2. CASE \E j \in Jobs : JobStops(j)
    BY <2>2 DEF JobStops, StopBefore, StopAfterClaim, StopAfterCommit, StopAfterPublish
  <2>3. CASE CloseBar \/ (\E c \in Sources \ Models : Toggle(c)) \/ UNCHANGED vars
    BY <2>3 DEF CloseBar, Toggle, vars
  <2> QED BY <2>1, <2>2, <2>3 DEF Next
<1>2. k \in Keys /\ stored[k] \in Nat /\ published[k] \in Nat
  <2>1. k \in Keys
    BY DEF ConfigKeys, Keys
  <2> QED BY <2>1 DEF TypeOK
<1>3. stored[k] <= published[k] + Cardinality(Pending(k))
  BY <1>1 DEF RowsAnnounced
<1>4. /\ Cardinality(Pending(k)) \in Nat /\ IsFiniteSet(Pending(k))
      /\ Pending(k) \in SUBSET (Jobs \X Emits)
  BY PendingFinite
\* No row, no message.
<1>5. ASSUME stored'[k] = stored[k], published'[k] = published[k],
             \A i \in Jobs : /\ pc'[i] = "publish" <=> pc[i] = "publish"
                             /\ pc[i] = "publish" => fresh'[i] = fresh[i]
      PROVE  stored'[k] <= published'[k] + Cardinality(Pending(k)')
  <2>1. Pending(k)' = Pending(k)
    BY <1>5 DEF Pending
  <2> QED BY <1>3, <1>5, <2>1
\* A message of j is sent, or given up for keys that are mute.
<1>6. ASSUME NEW j \in Jobs, pc[j] = "publish", stored'[k] = stored[k],
             NEW e \in fresh[j], Send(e),
             \A i \in Jobs \ {j} : pc'[i] = pc[i] /\ fresh'[i] = fresh[i],
             \A d \in fresh[j] \ {e} :
                KeyOf(d) = k => pc'[j] = "publish" /\ d \in fresh'[j],
             pc'[j] = "publish" => fresh'[j] \subseteq fresh[j] \ {e}
      PROVE  stored'[k] <= published'[k] + Cardinality(Pending(k)')
  <2>1. Pending(k)' = Pending(k) \ {<<j, e>>}
    <3>1. ASSUME NEW p \in Jobs \X Emits
          PROVE  p \in Pending(k)' <=> p \in Pending(k) \ {<<j, e>>}
      <4>1. CASE p[1] = j
        <5>1. p # <<j, e>> <=> p[2] # e
          BY <4>1
        <5> HIDE DEF KeyOf
        <5> QED BY <1>6, <4>1, <5>1 DEF Pending
      <4>2. CASE p[1] # j
        BY <1>6, <4>2 DEF Pending
      <4> QED BY <4>1, <4>2
    <3>2. Pending(k)' \subseteq Jobs \X Emits
      BY DEF Pending
    <3> QED BY <1>4, <3>1, <3>2
  <2>2. CASE KeyOf(e) = k
    <3>1. <<j, e>> \in Pending(k)
      BY <1>6, <2>2 DEF Pending, TypeOK
    <3>2. Cardinality(Pending(k)') = Cardinality(Pending(k)) - 1
      BY <1>4, <2>1, <3>1, FS_RemoveElement
    <3>3. published'[k] = published[k] + 1
      BY <1>2, <1>6, <2>2 DEF Send, TypeOK
    <3> QED BY <1>2, <1>3, <1>4, <1>6, <3>2, <3>3
  <2>3. CASE KeyOf(e) # k
    <3>1. Pending(k)' = Pending(k)
      BY <2>1, <2>3 DEF Pending
    <3>2. published'[k] = published[k]
      BY <1>2, <1>6, <2>3 DEF Send, TypeOK
    <3> QED BY <1>3, <1>6, <3>1, <3>2
  <2> QED BY <2>2, <2>3
<1>7. CASE \E j \in Jobs : \/ StartRun(j) \/ SkipClaimed(j) \/ Claim(j)
                          \/ Insert(j) \/ Repeat(j)
  <2>1. PICK j \in Jobs : StartRun(j) \/ SkipClaimed(j) \/ Claim(j) \/ Insert(j) \/ Repeat(j)
    BY <1>7
  <2>2. UNCHANGED <<stored, published>>
    BY <2>1 DEF StartRun, SkipClaimed, Claim, Insert, Repeat
  <2>3. pc[j] # "publish" /\ pc'[j] # "publish"
    BY <2>1 DEF StartRun, SkipClaimed, Claim, Insert, Repeat, Ended, TypeOK
  <2>4. \A i \in Jobs \ {j} : pc'[i] = pc[i] /\ fresh'[i] = fresh[i]
    BY <2>1, JobAlone DEF JobStep
  <2> QED BY <1>5, <2>2, <2>3, <2>4
<1>8. CASE \E j \in Jobs : Commit(j)
  <2>1. PICK j \in Jobs : Commit(j)
    BY <1>8
  <2>2. /\ stored'[k] = stored[k] + RowsOf(fresh[j], k) /\ published' = published
        /\ pc[j] = "claim" /\ fresh[j] \in SUBSET Emits
    BY <1>2, <2>1 DEF Commit, Committing, AddRows, TypeOK
  <2>3. \A i \in Jobs \ {j} : pc'[i] = pc[i] /\ fresh'[i] = fresh[i]
    BY <2>1, JobAlone DEF JobStep
  <2>4. CASE Announces(j)
    <3> DEFINE new == {j} \X {e \in fresh[j] : KeyOf(e) = k}
    <3>1. pc'[j] = "publish" /\ fresh'[j] = fresh[j]
      BY <2>1, <2>4 DEF Commit, TypeOK
    <3>2. new \in SUBSET (Jobs \X Emits)
      BY <2>2
    <3>3. Pending(k)' = Pending(k) \cup new
      <4>1. ASSUME NEW p \in Jobs \X Emits
            PROVE  p \in Pending(k)' <=> p \in Pending(k) \/ p \in new
        <5>1. CASE p[1] = j
          BY <2>2, <3>1, <5>1 DEF Pending
        <5>2. CASE p[1] # j
          BY <2>3, <5>2 DEF Pending
        <5> QED BY <5>1, <5>2
      <4>2. Pending(k)' \subseteq Jobs \X Emits
        BY DEF Pending
      <4> HIDE DEF new
      <4> QED BY <1>4, <3>2, <4>1, <4>2
    <3>4. Pending(k) \cap new = {}
      BY <2>2 DEF Pending
    <3>5. Cardinality(new) = RowsOf(fresh[j], k)
      BY <2>2, RowsAreMessages
    <3>6. IsFiniteSet(new) /\ Cardinality(new) \in Nat
      BY <3>2, PendingFinite
    <3> HIDE DEF new
    <3>7. Cardinality(Pending(k)') = Cardinality(Pending(k)) + Cardinality(new)
      <4>1. Cardinality(Pending(k) \cup new) =
               Cardinality(Pending(k)) + Cardinality(new) - Cardinality(Pending(k) \cap new)
        BY <1>4, <3>6, FS_Union
      <4>2. Cardinality(Pending(k) \cap new) = 0
        BY <3>4, FS_EmptySet
      <4> QED BY <1>4, <3>3, <3>6, <4>1, <4>2
    <3> QED BY <1>2, <1>3, <1>4, <2>2, <3>5, <3>6, <3>7
  <2>5. CASE ~Announces(j)
    <3>1. k \notin KeysOf(fresh[j])
      <4>1. CASE j[1] # Close
        BY <4>1, ModelRows
      <4>2. CASE fresh[j] = {}
        BY <4>2 DEF KeysOf
      <4> QED BY <2>5, <4>1, <4>2 DEF Announces
    <3>2. stored'[k] = stored[k]
      BY <1>2, <2>2, <3>1, NoRows
    <3>3. pc'[j] = "done"
      BY <2>1, <2>5 DEF Commit, TypeOK
    <3> QED BY <1>5, <2>2, <2>3, <3>2, <3>3
  <2> QED BY <2>4, <2>5
<1>9. CASE \E j \in Jobs : Publish(j)
  <2>1. PICK j \in Jobs : Publish(j)
    BY <1>9
  <2>2. PICK e \in First(fresh[j]) :
          /\ Send(e) /\ pc[j] = "publish" /\ stored' = stored
          /\ fresh'[j] = fresh[j] \ {e}
          /\ pc'[j] = IF fresh[j] = {e} THEN "done" ELSE "publish"
    BY <2>1 DEF Publish, TypeOK
  <2>3. e \in fresh[j]
    BY <2>2 DEF First
  <2>4. \A i \in Jobs \ {j} : pc'[i] = pc[i] /\ fresh'[i] = fresh[i]
    BY <2>1, JobAlone DEF JobStep
  <2>5. \A d \in fresh[j] \ {e} : pc'[j] = "publish" /\ d \in fresh'[j]
    BY <2>2, <2>3
  <2> QED BY <1>6, <2>2, <2>3, <2>4, <2>5
<1>10. CASE \E j \in Jobs : JobStops(j)
  <2>1. PICK j \in Jobs, to \in {"failed", "queued"} :
           \/ StopBefore(j, to) \/ StopAfterClaim(j, to)
           \/ StopAfterCommit(j, to) \/ StopAfterPublish(j, to)
    BY <1>10 DEF JobStops
  <2>2. \A i \in Jobs \ {j} : pc'[i] = pc[i] /\ fresh'[i] = fresh[i]
    BY <1>10, <2>1, JobAlone DEF JobStops
  <2>3. pc'[j] = to /\ fresh'[j] = {} /\ pc'[j] # "publish"
    BY <2>1 DEF StopBefore, StopAfterClaim, StopAfterCommit, StopAfterPublish, End, TypeOK
  <2>4. CASE StopAfterClaim(j, to)
    BY <1>5, <2>2, <2>3, <2>4 DEF StopAfterClaim
  <2>5. CASE StopAfterCommit(j, to)
    <3>1. k \notin KeysOf(fresh[j])
      BY <2>5 DEF StopAfterCommit
    <3>2. stored'[k] = stored[k]
      BY <1>2, <2>5, <3>1, NoRows DEF StopAfterCommit, AddRows
    <3> QED BY <1>5, <2>2, <2>3, <2>5, <3>2 DEF StopAfterCommit, Committing
  <2>6. CASE StopBefore(j, to) /\ pc[j] # "publish"
    BY <1>5, <2>2, <2>3, <2>6 DEF StopBefore
  <2>7. CASE StopBefore(j, to) /\ pc[j] = "publish"
    <3>1. k \notin KeysOf(fresh[j]) /\ UNCHANGED <<stored, published>>
      BY <2>7 DEF StopBefore
    <3>2. Pending(k)' = Pending(k)
      <4>1. \A p \in Jobs \X Emits : p \in Pending(k)' <=> p \in Pending(k)
        BY <2>2, <2>3, <3>1 DEF Pending, KeysOf
      <4>2. Pending(k)' \subseteq Jobs \X Emits
        BY DEF Pending
      <4> QED BY <1>4, <4>1, <4>2
    <3> QED BY <1>3, <3>1, <3>2
  <2>8. CASE StopAfterPublish(j, to)
    <3>1. PICK e \in First(fresh[j]) :
            /\ Send(e) /\ mute' = mute \cup KeysOf(fresh[j] \ {e})
            /\ pc[j] = "publish" /\ stored' = stored
      BY <2>8 DEF StopAfterPublish
    <3>2. e \in fresh[j] /\ \A d \in fresh[j] \ {e} : KeyOf(d) # k
      BY <3>1 DEF First, KeysOf
    <3> QED BY <1>6, <2>2, <2>3, <3>1, <3>2
  <2> QED BY <2>1, <2>4, <2>5, <2>6, <2>7, <2>8
<1>11. CASE CloseBar
  <2>1. UNCHANGED <<stored, published, fresh>>
    BY <1>11 DEF CloseBar
  <2>2. \A i \in Jobs : pc'[i] = "publish" <=> pc[i] = "publish"
    <3> SUFFICES ASSUME NEW i \in Jobs PROVE pc'[i] = "publish" <=> pc[i] = "publish"
      OBVIOUS
    <3> QED BY <1>11, BatchReads
  <2> QED BY <1>5, <2>1, <2>2
<1>12. CASE (\E c \in Sources \ Models : Toggle(c)) \/ UNCHANGED vars
  BY <1>5, <1>12 DEF Toggle, vars
<1> QED BY <1>7, <1>8, <1>9, <1>10, <1>11, <1>12 DEF Next, JobStep

\* A row beyond the published ones has its message waiting.
LEMMA AnnouncedRows == TypeOK /\ RowsAnnounced => StoredIsAnnounced
<1> SUFFICES ASSUME TypeOK, RowsAnnounced, NEW i \in Sources \ Models, NEW b \in Bars,
                    stored[<<StrategyOf[i], b>>] > published[<<StrategyOf[i], b>>],
                    <<StrategyOf[i], b>> \notin mute
             PROVE  \E j \in Jobs : /\ pc[j] = "publish"
                                    /\ <<StrategyOf[i], b>> \in KeysOf(fresh[j])
  BY DEF StoredIsAnnounced
<1> DEFINE k == <<StrategyOf[i], b>>
<1>1. k \in ConfigKeys /\ k \in Keys
  BY DEF ConfigKeys, Keys
<1> HIDE DEF k
<1>2. stored[k] \in Nat /\ published[k] \in Nat /\ stored[k] <= published[k] + Cardinality(Pending(k))
  BY <1>1 DEF RowsAnnounced, TypeOK, k
<1>3. Cardinality(Pending(k)) \in Nat /\ Pending(k) \in SUBSET (Jobs \X Emits)
  BY PendingFinite
<1>4. Cardinality(Pending(k)) # 0
  BY <1>2, <1>3 DEF k
<1>5. PICK p : p \in Pending(k)
  BY <1>4, FS_EmptySet
<1>6. p[1] \in Jobs /\ pc[p[1]] = "publish" /\ p[2] \in fresh[p[1]] /\ KeyOf(p[2]) = k
  BY <1>5 DEF Pending
<1> QED BY <1>6 DEF KeysOf, k

\* No candidate is lost on the way from the claim over the row to the publish
\* (strategies/worker.py:104-106 and 128-180), however jobs overlap and break
\* off, and even when keys expire: a claimed key has its row, a job has it in
\* hand or its job broke off; a config's row is published, about to be, or its
\* job broke off; a job that is done has its bar's candidates claimed.
THEOREM NoSignalIsLost == ASSUME LagInWindow PROVE Spec => []SignalsAccounted
<1>1. Init => AccountInv
  <2> SUFFICES ASSUME Init PROVE AccountInv
    OBVIOUS
  <2>1. InReach
    BY DEF Init, InReach, UnderWay, Working
  <2>2. HandsInv
    BY DEF Init, HandsInv, InHand, Working
  <2>3. ClaimedIsAccounted
    BY DEF Init, ClaimedIsAccounted
  <2>4. RowsAnnounced
    <3>1. \A k \in ConfigKeys : k \in Keys
      BY DEF ConfigKeys, Keys
    <3>2. \A k : Cardinality(Pending(k)) \in Nat
      BY PendingFinite
    <3> QED BY <3>1, <3>2 DEF Init, RowsAnnounced
  <2> QED BY <2>1, <2>2, <2>3, <2>4 DEF AccountInv
<1>2. TypeOK /\ AccountInv /\ [Next]_vars => AccountInv'
  BY LagInWindow, InReachStep, HandsStep, AccountedStep, RowsStep DEF AccountInv
<1>3. TypeOK /\ AccountInv /\ PublishedIsStored => SignalsAccounted
  <2> SUFFICES ASSUME TypeOK, AccountInv, PublishedIsStored PROVE SignalsAccounted
    OBVIOUS
  <2>1. DoneMeansClaimed
    <3>1. ASSUME NEW j \in Jobs, NEW i \in Sources, pc[j] = "done", Owes(j, i)
          PROVE  claimed[KeyOf(<<i, j[2]>>)] # 0
      <4>1. todo[j] = {}
        BY <3>1 DEF TypeOK, Working
      <4> QED BY <3>1, <4>1 DEF AccountInv, HandsInv
    <3> QED BY <3>1 DEF DoneMeansClaimed, Owes
  <2> QED BY <2>1, AnnouncedRows DEF AccountInv, SignalsAccounted
<1> QED BY TypeCorrect, PublishedSignalIsStored, <1>1, <1>2, <1>3, PTL DEF Spec
=============================================================================
