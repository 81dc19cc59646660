--------------------------- MODULE Ingest_proofs ----------------------------
(***************************************************************************)
(* Theorems about module Ingest, for every set of symbols and timeframes   *)
(* and every value of the bounds.                                          *)
(***************************************************************************)
EXTENDS Ingest, SequenceTheorems, FiniteSetTheorems, WellFoundedInduction, TLAPS

\* A non-empty set of minutes, of windows, or of windows and NoMark, has a
\* maximum.
LEMMA MaxInRange ==
    ASSUME NEW S \in SUBSET (-1 .. MaxMinute), S # {}
    PROVE  /\ Max(S) \in S
           /\ \A y \in S : y <= Max(S)
<1> DEFINE down == {MaxMinute - x : x \in S}
           less == OpToRel(<, Nat)
<1>0. MaxMinute \in Int /\ S \subseteq Int /\ \A x \in S : x <= MaxMinute
  BY IngestAssumption
<1>1. IsWellFoundedOn(less, Nat)
  BY NatLessThanWellFounded
<1>2. down \subseteq Nat /\ down # {}
  <2>1. \A x \in S : MaxMinute - x \in Nat
    BY <1>0
  <2>2. PICK x \in S : TRUE
    OBVIOUS
  <2> QED BY <2>1, <2>2
<1>3. PICK d \in down : \A y \in down : <<y, d>> \notin less
  <2> HIDE DEF less, down
  <2> QED BY <1>1, <1>2, WFMin
<1>4. \A y \in down : d <= y
  <2> SUFFICES ASSUME NEW y \in down, y < d PROVE FALSE
    <3> HIDE DEF down
    <3> QED BY <1>2
  <2>1. <<y, d>> \in Nat \X Nat
    BY <1>2
  <2>2. <<y, d>>[1] < <<y, d>>[2]
    OBVIOUS
  <2>3. <<y, d>> \in less
    <3> HIDE DEF down
    <3> QED BY <2>1, <2>2 DEF OpToRel
  <2> QED BY <2>3, <1>3
<1>5. PICK x \in S : d = MaxMinute - x
  BY <1>3
<1>6. \A y \in S : x >= y
  <2> SUFFICES ASSUME NEW y \in S PROVE x >= y
    OBVIOUS
  <2>1. MaxMinute - y \in down
    OBVIOUS
  <2>2. d <= MaxMinute - y
    BY <2>1, <1>4
  <2> HIDE DEF down
  <2> QED BY <2>2, <1>0, <1>5
<1>7. Max(S) \in S /\ \A y \in S : Max(S) >= y
  BY <1>6 DEF Max
<1> QED BY <1>7

-----------------------------------------------------------------------------
(* Type correctness.                                                       *)

\* The state CandleBuffer.__init__ and run_ingest start from is well typed.
LEMMA InitType == Init => TypeOK
BY IngestAssumption DEF Init, TypeOK, UpStates, Empty, NoneRolled, EachSeries,
   Series, Minutes, Windows, NoMark

\* The candles of a well-typed buffer are minutes.
LEMMA HeldTyped ==
    ASSUME NEW buf \in [Symbols -> Seq(Minutes)], NEW s \in Symbols
    PROVE  Held(buf, s) \subseteq Minutes
BY ElementOfSeq, LenProperties DEF Held, Range

\* add, the swap of _take_batch and the merge of _requeue keep per-symbol
\* sequences of minutes.
LEMMA BuffersTyped ==
    ASSUME TypeOK
    PROVE  /\ Prepended \in [Symbols -> Seq(Minutes)]
           /\ Empty \in [Symbols -> Seq(Minutes)]
           /\ Written(batch) \in [Symbols -> SUBSET Minutes]
           /\ Written(pending) \in [Symbols -> SUBSET Minutes]
<1>1. \A s \in Symbols : batch[s] \in Seq(Minutes) /\ pending[s] \in Seq(Minutes)
  BY DEF TypeOK
<1>2. \A s \in Symbols : Held(batch, s) \subseteq Minutes /\ Held(pending, s) \subseteq Minutes
  BY <1>1, ElementOfSeq, LenProperties DEF Held, Range
<1>3. \A s \in Symbols : batch[s] \o pending[s] \in Seq(Minutes)
  BY <1>1, ConcatProperties
<1> QED BY <1>2, <1>3 DEF TypeOK, Prepended, Empty, Written

\* What produce() hands to the commit is a set of windows per timeframe.
LEMMA RollUpTyped ==
    ASSUME TypeOK
    PROVE  /\ NoneRolled \in Series([Windows -> SUBSET Minutes])
           /\ RolledUp \in Series([Windows -> SUBSET Minutes])
           /\ Emissions \in Series([Windows -> SUBSET Minutes])
           /\ Judged \in Series([Windows -> {"none", "sparse", "failed"}])
           /\ Verdict("none") \in Series([Windows -> {"none", "sparse", "failed"}])
           /\ Verdict("failed") \in Series([Windows -> {"none", "sparse", "failed"}])
<1>1. \A s \in Symbols, tf \in TargetTFs, w \in Windows :
         /\ emit[s][tf][w] \subseteq Minutes
         /\ higher[s][tf][w] \subseteq Minutes
         /\ verdict[s][tf][w] \in {"none", "sparse", "failed"}
         /\ MinutesIn(stored[s], w, tf) \subseteq Minutes
  BY DEF TypeOK, Series, MinutesIn
<1>2. NoneRolled \in Series([Windows -> SUBSET Minutes])
  BY DEF NoneRolled, EachSeries, Series
<1>3. RolledUp \in Series([Windows -> SUBSET Minutes])
  BY <1>1 DEF RolledUp, Series
<1>4. Emissions \in Series([Windows -> SUBSET Minutes])
  BY <1>1 DEF Emissions, Series
<1>5. Judged \in Series([Windows -> {"none", "sparse", "failed"}])
  BY <1>1 DEF Judged, Series
<1>6. \A v \in {"none", "failed"} :
         Verdict(v) \in Series([Windows -> {"none", "sparse", "failed"}])
  BY <1>1 DEF Verdict, Series
<1> QED BY <1>2, <1>3, <1>4, <1>5, <1>6

\* What a partial publication or dispatch handles is a prefix of the batch.
LEMMA CutTyped ==
    ASSUME TypeOK, NEW cut \in Cuts(batch), NEW s \in Symbols
    PROVE  /\ cut[s] \in Nat /\ cut[s] <= Len(batch[s])
           /\ SubSeq(batch[s], 1, cut[s]) \in Seq(Minutes)
           /\ Range(SubSeq(batch[s], 1, cut[s])) \subseteq Held(batch, s)
           /\ Held(batch, s) \subseteq Minutes
           /\ s \notin Known => SubSeq(batch[s], 1, cut[s]) = <<>>
<1>1. cut[s] \in Nat /\ cut[s] <= Len(batch[s]) /\ (s \notin Known => cut[s] = 0)
  BY IngestAssumption DEF Cuts
<1>2. batch[s] \in Seq(Minutes)
  BY DEF TypeOK
<1>3. Len(batch[s]) \in Nat /\ DOMAIN batch[s] = 1 .. Len(batch[s])
  BY <1>2, LenProperties
<1>4. \A i \in 1 .. cut[s] : batch[s][i] \in Held(batch, s)
  BY <1>1, <1>3 DEF Held, Range
<1>5. Held(batch, s) \subseteq Minutes
  BY <1>2, <1>3, ElementOfSeq DEF Held, Range
<1>6. SubSeq(batch[s], 1, cut[s]) \in Seq(Held(batch, s))
  BY <1>1, <1>4, SubSeqProperties
<1>7. SubSeq(batch[s], 1, cut[s]) \in Seq(Minutes)
  BY <1>5, <1>6, SeqMonotonic
<1>8. Range(SubSeq(batch[s], 1, cut[s])) \subseteq Held(batch, s)
  BY <1>6, ElementOfSeq, LenProperties DEF Range
<1>9. s \notin Known => SubSeq(batch[s], 1, cut[s]) = <<>>
  BY <1>1, SubSeqEmpty
<1> QED BY <1>1, <1>5, <1>7, <1>8, <1>9

\* The mark after confirm() is the newest of the old one and the emitted windows.
LEMMA ConfirmedMark ==
    ASSUME TypeOK, NEW s \in Symbols, NEW tf \in TargetTFs
    PROVE  /\ Confirmed(mark[s][tf], EmittedIn(emit, s, tf))
                \in EmittedIn(emit, s, tf) \cup {mark[s][tf]}
           /\ \A w \in EmittedIn(emit, s, tf) \cup {mark[s][tf]} :
                 w <= Confirmed(mark[s][tf], EmittedIn(emit, s, tf))
<1> DEFINE S == EmittedIn(emit, s, tf) \cup {mark[s][tf]}
<1>1. S \in SUBSET (-1 .. MaxMinute) /\ S # {}
  <2>1. mark[s][tf] \in Windows \cup {NoMark}
    BY DEF TypeOK, Series
  <2>2. EmittedIn(emit, s, tf) \subseteq Windows
    BY DEF EmittedIn
  <2> QED BY <2>1, <2>2, IngestAssumption DEF Windows, NoMark
<1> HIDE DEF S
<1>2. Max(S) \in S /\ \A y \in S : y <= Max(S)
  BY <1>1, MaxInRange
<1> QED BY <1>2 DEF S, Confirmed

\* The larger of two windows, which confirm() keeps, is a window.
LEMMA MaxWindow ==
    ASSUME NEW S \in SUBSET Windows, S # {}
    PROVE  /\ Max(S) \in S
           /\ \A y \in S : y <= Max(S)
<1>1. S \in SUBSET (-1 .. MaxMinute)
  BY IngestAssumption DEF Windows
<1> QED BY <1>1, MaxInRange

\* Every step of the pipeline keeps the state well typed.
LEMMA TypeStep == TypeOK /\ [Next]_vars => TypeOK'
<1> SUFFICES ASSUME TypeOK, [Next]_vars PROVE TypeOK'
  OBVIOUS
<1> USE DEF vars, memory, services, history
<1>61. /\ Prepended \in [Symbols -> Seq(Minutes)]
      /\ Empty \in [Symbols -> Seq(Minutes)]
      /\ Written(batch) \in [Symbols -> SUBSET Minutes]
      /\ Written(pending) \in [Symbols -> SUBSET Minutes]
  BY BuffersTyped
<1>62. /\ NoneRolled \in Series([Windows -> SUBSET Minutes])
      /\ RolledUp \in Series([Windows -> SUBSET Minutes])
      /\ Emissions \in Series([Windows -> SUBSET Minutes])
      /\ Judged \in Series([Windows -> {"none", "sparse", "failed"}])
      /\ Verdict("none") \in Series([Windows -> {"none", "sparse", "failed"}])
      /\ Verdict("failed") \in Series([Windows -> {"none", "sparse", "failed"}])
  BY RollUpTyped
<1>63. Fault => faults' \in 0 .. MaxFaults
  BY IngestAssumption DEF Fault, TypeOK
<1>1. ASSUME NEW s \in Symbols, NEW t \in Minutes, Add(s, t) PROVE TypeOK'
  BY <1>1 DEF Add, TypeOK, UpStates
<1>2. CASE TakeBatch
  BY <1>2, <1>61 DEF TakeBatch, Goto, TypeOK, UpStates
<1>3. CASE Persist
  BY <1>3, <1>61 DEF Persist, Goto, TypeOK, UpStates
<1>4. CASE PersistFails
  BY <1>4, <1>61, <1>63 DEF PersistFails, Goto, TypeOK, UpStates
<1>5. CASE Requeue
  <2>1. /\ pending' \in [Symbols -> Seq(Minutes)] /\ batch' = Empty /\ pc' = "idle"
        /\ UNCHANGED <<emit, mark, services, history, faults, sweeps>>
    BY <1>5, <1>61 DEF Requeue, Goto
  <2>2. emit = NoneRolled
    BY <1>5 DEF TypeOK, Requeue, Goto
  <2> QED BY <2>1, <2>2, <1>61 DEF TypeOK, UpStates
<1>6. CASE Publish
  <2>1. PICK cut \in Cuts(batch) :
          /\ faults' \in 0 .. MaxFaults
          /\ feed' = [s \in Symbols |-> feed[s] \o SubSeq(batch[s], 1, cut[s])]
    BY <1>6, <1>63 DEF Publish, TypeOK
  <2>2. \A s \in Symbols : feed[s] \o SubSeq(batch[s], 1, cut[s]) \in Seq(Minutes)
    BY CutTyped, ConcatProperties DEF TypeOK
  <2>3. feed' \in [Symbols -> Seq(Minutes)]
    BY <2>1, <2>2
  <2> QED BY <1>6, <2>1, <2>3 DEF Publish, Goto, TypeOK, UpStates
<1>7. CASE Dispatch
  <2>1. PICK cut \in Cuts(batch) :
          /\ faults' \in 0 .. MaxFaults
          /\ jobs' = [s \in Symbols |->
                         jobs[s] \cup Range(SubSeq(batch[s], 1, cut[s]))]
    BY <1>7, <1>63 DEF Dispatch, TypeOK
  <2>2. \A s \in Symbols :
          jobs[s] \cup Range(SubSeq(batch[s], 1, cut[s])) \subseteq Minutes
    BY CutTyped DEF TypeOK
  <2>3. jobs' \in [Symbols -> SUBSET Minutes]
    BY <2>1, <2>2
  <2> QED BY <1>7, <2>1, <2>3 DEF Dispatch, Goto, TypeOK, UpStates
<1>8. CASE Produce
  BY <1>8, <1>61, <1>62 DEF Produce, Finish, TypeOK, UpStates
<1>9. CASE ProduceFails
  BY <1>9, <1>63 DEF ProduceFails, Goto, TypeOK, UpStates
<1>10. CASE CommitHigher
  BY <1>10, <1>62 DEF CommitHigher, Goto, TypeOK, UpStates
<1>11. CASE CommitHigherFails
  BY <1>11, <1>62, <1>63 DEF CommitHigherFails, Goto, TypeOK, UpStates
<1>12. CASE GiveUpRollUp
  BY <1>12, <1>61, <1>62 DEF GiveUpRollUp, Goto, Finish, TypeOK, UpStates
<1>13. CASE PublishHigher
  <2>1. PICK out \in [Symbols -> [TargetTFs -> SUBSET Windows]] :
          /\ faults' \in 0 .. MaxFaults
          /\ highFeed' = [s \in Symbols |-> [tf \in TargetTFs |->
                IF out[s][tf] = {} THEN highFeed[s][tf] ELSE Max(out[s][tf])]]
    BY <1>13, <1>63 DEF PublishHigher, TypeOK
  <2>2. \A s \in Symbols, tf \in TargetTFs :
          (IF out[s][tf] = {} THEN highFeed[s][tf] ELSE Max(out[s][tf]))
              \in Windows \cup {NoMark}
    <3> TAKE s \in Symbols, tf \in TargetTFs
    <3>1. out[s][tf] \in SUBSET Windows /\ highFeed[s][tf] \in Windows \cup {NoMark}
      BY DEF TypeOK, Series
    <3> QED BY <3>1, MaxWindow
  <2>3. highFeed' \in Series(Windows \cup {NoMark})
    BY <2>1, <2>2 DEF Series
  <2> QED BY <1>13, <2>1, <2>3 DEF PublishHigher, Goto, TypeOK, UpStates
<1>14. CASE ConfirmAndDispatch
  <2>1. \A s \in Symbols, tf \in TargetTFs :
          /\ EmittedIn(emit, s, tf) \subseteq Windows
          /\ Confirmed(mark[s][tf], EmittedIn(emit, s, tf)) \in Windows \cup {NoMark}
    <3> TAKE s \in Symbols, tf \in TargetTFs
    <3>1. EmittedIn(emit, s, tf) \subseteq Windows
      BY DEF EmittedIn
    <3>2. mark[s][tf] \in Windows \cup {NoMark}
      BY DEF TypeOK, Series
    <3> QED BY <3>1, <3>2, ConfirmedMark
  <2>2. mark' \in Series(Windows \cup {NoMark})
    BY <1>14, <2>1 DEF ConfirmAndDispatch, Series
  <2>3. /\ highJobs' \in Series(SUBSET Windows)
        /\ faults' \in 0 .. MaxFaults
    BY <1>14, <1>63, <2>1 DEF ConfirmAndDispatch, TypeOK, Series
  <2> QED BY <1>14, <1>61, <1>62, <2>2, <2>3
          DEF ConfirmAndDispatch, Goto, Finish, TypeOK, UpStates
<1>64. \A rows : \A buf \in {batch, pending, Prepended}, into \in {lost, dropped} :
          Discard(buf, rows, into) \in [Symbols -> SUBSET Minutes]
  BY <1>61, HeldTyped DEF Discard, TypeOK
<1>15. CASE RollbackFails
  <2>1. dropped' \in [Symbols -> SUBSET Minutes]
    BY <1>15, <1>64 DEF RollbackFails, TypeOK
  <2> QED BY <1>15, <1>61, <1>62, <1>63, <2>1
          DEF RollbackFails, Finish, TypeOK, UpStates
<1>16. CASE Shutdown
  <2>1. dropped' \in [Symbols -> SUBSET Minutes]
    BY <1>16, <1>64 DEF Shutdown, TypeOK
  <2>2. stored' \in [Symbols -> SUBSET Minutes]
    BY <1>16, <1>61 DEF Shutdown, TypeOK
  <2>3. higher' \in Series([Windows -> SUBSET Minutes])
    BY <1>16, <1>62 DEF Shutdown, TypeOK
  <2>4. pending' \in [Symbols -> Seq(Minutes)]
    BY <1>16, <1>61 DEF Shutdown, TypeOK
  <2> QED BY <1>16, <1>61, <1>62, <1>63, <2>1, <2>2, <2>3, <2>4
          DEF Shutdown, Finish, TypeOK, UpStates
<1>17. CASE Drain
  <2>1. stored' \in [Symbols -> SUBSET Minutes]
    BY <1>17, <1>61 DEF Drain, TypeOK
  <2>2. lost' \in [Symbols -> SUBSET Minutes] /\ faults' \in 0 .. MaxFaults
    BY <1>17, <1>63, <1>64 DEF Drain, TypeOK
  <2> QED BY <1>17, <1>61, <2>1, <2>2 DEF Drain, Goto, TypeOK, UpStates
<1>18. CASE Crash
  <2>1. lost' \in [Symbols -> SUBSET Minutes]
    BY <1>18, <1>64 DEF Crash
  <2>2. stored' \in [Symbols -> SUBSET Minutes]
    BY <1>18, <1>61 DEF Crash, TypeOK
  <2>3. higher' \in Series([Windows -> SUBSET Minutes])
    BY <1>18, <1>62 DEF Crash, TypeOK
  <2> QED BY <1>18, <1>61, <1>62, <1>63, <2>1, <2>2, <2>3
          DEF Crash, Finish, TypeOK, UpStates
<1>19. CASE Restart
  <2>1. /\ EachSeries(NoMark) \in Series(Windows \cup {NoMark})
        /\ EachSeries([w \in Windows |-> "none"])
             \in Series([Windows -> {"none", "sparse", "failed"}])
    BY DEF EachSeries, Series
  <2>2. batch = Empty /\ emit = NoneRolled
    BY <1>19 DEF Restart, Goto, TypeOK
  <2> QED BY <1>19, <2>1, <2>2 DEF Restart, Goto, TypeOK, UpStates
<1>20. ASSUME NEW s \in Known, Backfill(s) PROVE TypeOK'
  BY <1>20, IngestAssumption DEF Backfill, TypeOK, UpStates
<1>21. CASE UNCHANGED vars
  BY <1>21 DEF TypeOK
<1> QED BY <1>1, <1>2, <1>3, <1>4, <1>5, <1>6, <1>7, <1>8, <1>9, <1>10, <1>11,
           <1>12, <1>13, <1>14, <1>15, <1>16, <1>17, <1>18, <1>19, <1>20, <1>21
        DEF Next, FlushStep

\* Every variable keeps its type, and the locals of a flush cycle are gone
\* when it is over.
THEOREM TypeCorrect == Spec => []TypeOK
<1>1. Init => TypeOK
  BY InitType
<1>2. TypeOK /\ [Next]_vars => TypeOK'
  BY TypeStep
<1> QED BY <1>1, <1>2, PTL DEF Spec

-----------------------------------------------------------------------------
(* Durability.  The batch a flush fans out, and drops at its end, is in    *)
(* the table from the commit on, because rows are never deleted.           *)

\* Merging a batch in front of the pending list holds the candles of both.
LEMMA RangeConcat ==
    ASSUME NEW S, NEW p \in Seq(S), NEW q \in Seq(S)
    PROVE  Range(p \o q) = Range(p) \cup Range(q)
<1>1. /\ Len(p) \in Nat /\ DOMAIN p = 1 .. Len(p)
      /\ Len(q) \in Nat /\ DOMAIN q = 1 .. Len(q)
      /\ p \o q \in Seq(S)
  BY LenProperties, ConcatProperties
<1>2. /\ DOMAIN (p \o q) = 1 .. Len(p) + Len(q)
      /\ \A i \in 1 .. Len(p) + Len(q) :
            (p \o q)[i] = IF i <= Len(p) THEN p[i] ELSE q[i - Len(p)]
  BY <1>1, LenProperties, ConcatProperties
<1>3. Range(p \o q) \subseteq Range(p) \cup Range(q)
  BY <1>1, <1>2 DEF Range
<1>4. Range(p) \subseteq Range(p \o q)
  <2> SUFFICES ASSUME NEW i \in 1 .. Len(p) PROVE p[i] \in Range(p \o q)
    BY <1>1 DEF Range
  <2>1. i \in DOMAIN (p \o q) /\ (p \o q)[i] = p[i]
    BY <1>1, <1>2
  <2> QED BY <2>1 DEF Range
<1>5. Range(q) \subseteq Range(p \o q)
  <2> SUFFICES ASSUME NEW i \in 1 .. Len(q) PROVE q[i] \in Range(p \o q)
    BY <1>1 DEF Range
  <2>1. i + Len(p) \in DOMAIN (p \o q) /\ (p \o q)[i + Len(p)] = q[i]
    BY <1>1, <1>2
  <2> QED BY <2>1 DEF Range
<1> QED BY <1>3, <1>4, <1>5

\* Appending one candle is merging a list of one behind.
LEMMA AppendAsConcat ==
    ASSUME NEW S, NEW q \in Seq(S), NEW t \in S
    PROVE  Append(q, t) = q \o <<t>> /\ <<t>> \in Seq(S)
OBVIOUS

\* add() holds what was held and the new candle.
LEMMA RangeAppend ==
    ASSUME NEW S, NEW q \in Seq(S), NEW t \in S
    PROVE  Range(Append(q, t)) = Range(q) \cup {t}
<1>1. Append(q, t) = q \o <<t>> /\ <<t>> \in Seq(S)
  BY AppendAsConcat
<1>2. Range(<<t>>) = {t}
  BY DEF Range
<1>3. Range(q \o <<t>>) = Range(q) \cup Range(<<t>>)
  BY <1>1, RangeConcat
<1> QED BY <1>1, <1>2, <1>3

\* What add, _take_batch and _requeue do to the candles held for each symbol.
LEMMA HeldOps ==
    ASSUME TypeOK, NEW s \in Symbols
    PROVE  /\ Held(Empty, s) = {}
           /\ Held(Prepended, s) = Held(batch, s) \cup Held(pending, s)
           /\ \A t \in Minutes :
                 Range(Append(pending[s], t)) = Held(pending, s) \cup {t}
<1>1. batch[s] \in Seq(Minutes) /\ pending[s] \in Seq(Minutes)
  BY DEF TypeOK
<1>2. Held(Empty, s) = {}
  BY DEF Held, Empty, Range
<1>3. Held(Prepended, s) = Held(batch, s) \cup Held(pending, s)
  BY <1>1, RangeConcat DEF Held, Prepended
<1>4. \A t \in Minutes : Range(Append(pending[s], t)) = Held(pending, s) \cup {t}
  BY <1>1, RangeAppend DEF Held
<1> QED BY <1>2, <1>3, <1>4

\* No step of the process or of the sweep deletes a 1m row.
LEMMA StoredGrows ==
    ASSUME TypeOK, [Next]_vars
    PROVE  \A s \in Symbols : stored[s] \subseteq stored'[s]
<1> USE DEF vars, memory, services, history
<1>1. \A buf : \A s \in Symbols : stored[s] \subseteq Written(buf)[s]
  BY DEF Written
<1>2. CASE \E s \in Symbols, t \in Minutes : Add(s, t)
  BY <1>2 DEF Add
<1>3. CASE TakeBatch \/ Requeue \/ Publish \/ Dispatch \/ Produce \/ ProduceFails
  BY <1>3 DEF TakeBatch, Requeue, Publish, Dispatch, Produce, ProduceFails
<1>4. CASE CommitHigher \/ CommitHigherFails \/ GiveUpRollUp \/ PublishHigher
            \/ ConfirmAndDispatch \/ RollbackFails \/ Restart
  BY <1>4 DEF CommitHigher, CommitHigherFails, GiveUpRollUp, PublishHigher,
              ConfirmAndDispatch, RollbackFails, Restart
<1>5. CASE Persist \/ PersistFails
  BY <1>1, <1>5 DEF Persist, PersistFails
<1>6. CASE Shutdown \/ Drain \/ Crash
  BY <1>1, <1>6 DEF Shutdown, Drain, Crash
<1>7. ASSUME NEW r \in Known, Backfill(r)
      PROVE  \A s \in Symbols : stored[s] \subseteq stored'[s]
  BY <1>7, IngestAssumption DEF Backfill, TypeOK
<1>8. CASE UNCHANGED vars
  BY <1>8
<1> QED BY <1>2, <1>3, <1>4, <1>5, <1>6, <1>7, <1>8 DEF Next, FlushStep

AfterCommit == {"publishing", "dispatching", "rolling", "committing", "undoing",
                "announcing", "confirming"}

BatchDurable ==
    pc \in AfterCommit => \A s \in Known : Held(batch, s) \subseteq stored[s]

\* The batch of a flush only changes when the flush begins or ends.
LEMMA BatchDurableStep ==
    TypeOK /\ BatchDurable /\ [Next]_vars => BatchDurable'
<1> SUFFICES ASSUME TypeOK, BatchDurable, [Next]_vars PROVE BatchDurable'
  OBVIOUS
<1> USE DEF vars, memory, services, history
<1>1. \A s \in Symbols : stored[s] \subseteq stored'[s]
  BY StoredGrows
<1>2. ASSUME pc \in AfterCommit, UNCHANGED batch PROVE BatchDurable'
  BY <1>1, <1>2, IngestAssumption DEF BatchDurable, Held
<1>3. ASSUME pc' \notin AfterCommit PROVE BatchDurable'
  BY <1>3 DEF BatchDurable
<1>4. CASE Persist
  BY <1>4, IngestAssumption DEF Persist, BatchDurable, Written, Held
<1>5. CASE TakeBatch \/ PersistFails \/ Requeue \/ GiveUpRollUp
            \/ ConfirmAndDispatch \/ RollbackFails
  BY <1>3, <1>5 DEF TakeBatch, PersistFails, Requeue, GiveUpRollUp,
                    ConfirmAndDispatch, RollbackFails, Goto, AfterCommit
<1>6. CASE Shutdown \/ Drain \/ Crash \/ Restart
  BY <1>3, <1>6 DEF Shutdown, Drain, Crash, Restart, Goto, AfterCommit
<1>7. CASE Publish \/ Dispatch \/ ProduceFails \/ CommitHigher
            \/ CommitHigherFails \/ PublishHigher
  BY <1>2, <1>7 DEF Publish, Dispatch, ProduceFails, CommitHigher,
                    CommitHigherFails, PublishHigher, Goto, AfterCommit
<1>8. CASE Produce
  BY <1>2, <1>3, <1>8 DEF Produce, AfterCommit
<1>9. CASE \/ \E s \in Symbols, t \in Minutes : Add(s, t)
           \/ \E s \in Known : Backfill(s)
           \/ UNCHANGED vars
  BY <1>2, <1>3, <1>9 DEF Add, Backfill
<1> QED BY <1>4, <1>5, <1>6, <1>7, <1>8, <1>9 DEF Next, FlushStep

\* Every step keeps the published and dispatched 1m bars stored.
LEMMA FanOutDurableStep ==
    TypeOK /\ BatchDurable /\ FanOutDurable /\ [Next]_vars => FanOutDurable'
<1> SUFFICES ASSUME TypeOK, BatchDurable, FanOutDurable, [Next]_vars
             PROVE  FanOutDurable'
  OBVIOUS
<1> USE DEF vars, memory, services, history
<1>1. \A s \in Symbols : stored[s] \subseteq stored'[s]
  BY StoredGrows
<1>2. ASSUME UNCHANGED <<feed, jobs>> PROVE FanOutDurable'
  BY <1>1, <1>2 DEF FanOutDurable
<1>3. ASSUME pc \in AfterCommit, NEW cut \in Cuts(batch), NEW s \in Symbols
      PROVE  Range(SubSeq(batch[s], 1, cut[s])) \subseteq stored[s]
  <2>1. CASE s \in Known
    BY <1>3, <2>1, CutTyped DEF BatchDurable
  <2>2. CASE s \notin Known
    BY <2>2, CutTyped DEF Range
  <2> QED BY <2>1, <2>2
<1>4. CASE Publish
  <2>1. PICK cut \in Cuts(batch) :
          feed' = [s \in Symbols |-> feed[s] \o SubSeq(batch[s], 1, cut[s])]
    BY <1>4 DEF Publish
  <2>2. pc \in AfterCommit /\ UNCHANGED <<stored, jobs>>
    BY <1>4 DEF Publish, Goto, AfterCommit
  <2>3. ASSUME NEW s \in Symbols
        PROVE  Range(feed'[s]) = Range(feed[s]) \cup Range(SubSeq(batch[s], 1, cut[s]))
    <3>1. feed[s] \in Seq(Minutes) /\ SubSeq(batch[s], 1, cut[s]) \in Seq(Minutes)
      BY CutTyped DEF TypeOK
    <3>2. feed'[s] = feed[s] \o SubSeq(batch[s], 1, cut[s])
      BY <2>1
    <3>3. Range(feed[s] \o SubSeq(batch[s], 1, cut[s]))
             = Range(feed[s]) \cup Range(SubSeq(batch[s], 1, cut[s]))
      BY <3>1, RangeConcat
    <3> QED BY <3>2, <3>3
  <2> QED BY <2>2, <2>3, <1>3 DEF FanOutDurable
<1>5. CASE Dispatch
  <2>1. PICK cut \in Cuts(batch) :
          jobs' = [s \in Symbols |-> jobs[s] \cup Range(SubSeq(batch[s], 1, cut[s]))]
    BY <1>5 DEF Dispatch
  <2>2. pc \in AfterCommit /\ UNCHANGED <<stored, feed>>
    BY <1>5 DEF Dispatch, Goto, AfterCommit
  <2> QED BY <2>1, <2>2, <1>3 DEF FanOutDurable
<1>6. CASE TakeBatch \/ Persist \/ PersistFails \/ Requeue \/ Produce
            \/ ProduceFails \/ CommitHigher \/ CommitHigherFails
  BY <1>2, <1>6 DEF TakeBatch, Persist, PersistFails, Requeue, Produce,
                    ProduceFails, CommitHigher, CommitHigherFails
<1>7. CASE GiveUpRollUp \/ PublishHigher \/ ConfirmAndDispatch \/ RollbackFails
            \/ Shutdown \/ Drain \/ Crash \/ Restart
  BY <1>2, <1>7 DEF GiveUpRollUp, PublishHigher, ConfirmAndDispatch,
                    RollbackFails, Shutdown, Drain, Crash, Restart
<1>8. CASE \/ \E s \in Symbols, t \in Minutes : Add(s, t)
           \/ \E s \in Known : Backfill(s)
           \/ UNCHANGED vars
  BY <1>2, <1>8 DEF Add, Backfill
<1> QED BY <1>4, <1>5, <1>6, <1>7, <1>8 DEF Next, FlushStep

\* Every 1m bar published on the live feed or handed to a compute job is a
\* row of the candles table, whatever fails and whenever the process dies.
THEOREM FanOutIsDurable == Spec => []FanOutDurable
<1> DEFINE Inv == TypeOK /\ BatchDurable /\ FanOutDurable
<1>1. Init => Inv
  <2> SUFFICES ASSUME Init PROVE BatchDurable /\ FanOutDurable
    BY InitType
  <2> QED BY DEF Init, BatchDurable, AfterCommit, FanOutDurable, Empty, Range
<1>2. Inv /\ [Next]_vars => Inv'
  BY TypeStep, BatchDurableStep, FanOutDurableStep
<1>3. Inv => FanOutDurable
  OBVIOUS
<1> QED BY <1>1, <1>2, <1>3, PTL DEF Spec

\* Every step keeps each delivered candle held, stored or accounted for.
LEMMA LossAccountedStep ==
    TypeOK /\ BatchDurable /\ LossAccounted /\ [Next]_vars => LossAccounted'
<1> SUFFICES ASSUME TypeOK, BatchDurable, LossAccounted, [Next]_vars,
                    NEW s \in Known
             PROVE  received'[s] \subseteq
                        stored'[s] \cup Held(batch', s) \cup Held(pending', s)
                            \cup lost'[s] \cup dropped'[s]
  BY DEF LossAccounted, Held
<1> USE DEF vars, memory, services, history
<1>1. s \in Symbols /\ stored[s] \subseteq stored'[s]
  BY StoredGrows, IngestAssumption
<1>2. received[s] \subseteq stored[s] \cup Held(batch, s) \cup Held(pending, s)
                               \cup lost[s] \cup dropped[s]
  BY DEF LossAccounted
<1>3. /\ Held(Empty, s) = {}
      /\ Held(Prepended, s) = Held(batch, s) \cup Held(pending, s)
      /\ \A t \in Minutes :
            Range(Append(pending[s], t)) = Held(pending, s) \cup {t}
  BY <1>1, HeldOps
<1>4. ASSUME UNCHANGED <<pending, batch, received, lost, dropped>> PROVE
         received'[s] \subseteq
             stored'[s] \cup Held(batch', s) \cup Held(pending', s)
                 \cup lost'[s] \cup dropped'[s]
  BY <1>1, <1>2, <1>4
<1>5. ASSUME Held(batch, s) \subseteq stored'[s], Finish,
             UNCHANGED <<pending, received, lost, dropped>>
      PROVE  received'[s] \subseteq
                 stored'[s] \cup Held(batch', s) \cup Held(pending', s)
                     \cup lost'[s] \cup dropped'[s]
  BY <1>1, <1>2, <1>5
<1>6. pc \in AfterCommit => Held(batch, s) \subseteq stored'[s]
  BY <1>1 DEF BatchDurable
<1>7. pc \in {"idle", "draining", "down"} => Held(batch, s) = {}
  BY <1>3 DEF TypeOK
<1>8. \A buf, rows, into :
         /\ into[s] \subseteq Discard(buf, rows, into)[s]
         /\ Held(buf, s) \subseteq rows[s] \cup Discard(buf, rows, into)[s]
  BY <1>1 DEF Discard
<1>9. \A buf : Held(buf, s) \subseteq Written(buf)[s]
  BY <1>1 DEF Written
<1>10. ASSUME NEW r \in Symbols, NEW t \in Minutes, Add(r, t)
       PROVE  received'[s] \subseteq
                  stored'[s] \cup Held(batch', s) \cup Held(pending', s)
                      \cup lost'[s] \cup dropped'[s]
  <2>1. /\ received'[s] = IF r = s THEN received[s] \cup {t} ELSE received[s]
        /\ pending'[s] = IF r = s THEN Append(pending[s], t) ELSE pending[s]
        /\ UNCHANGED <<batch, stored, lost, dropped>>
    BY <1>1, <1>10 DEF Add, TypeOK
  <2>2. Held(pending', s) = IF r = s THEN Held(pending, s) \cup {t} ELSE Held(pending, s)
    BY <1>3, <2>1 DEF Held
  <2> QED BY <1>2, <2>1, <2>2
<1>11. CASE TakeBatch
  BY <1>1, <1>2, <1>3, <1>7, <1>11 DEF TakeBatch, Goto
<1>12. CASE Requeue
  BY <1>1, <1>2, <1>3, <1>12 DEF Requeue
<1>13. CASE Persist \/ PersistFails \/ Publish \/ Dispatch \/ ProduceFails
             \/ CommitHigher \/ CommitHigherFails \/ PublishHigher
  BY <1>4, <1>13 DEF Persist, PersistFails, Publish, Dispatch, ProduceFails,
                     CommitHigher, CommitHigherFails, PublishHigher
<1>14. CASE Produce
  BY <1>4, <1>5, <1>6, <1>14 DEF Produce, AfterCommit
<1>15. CASE GiveUpRollUp \/ ConfirmAndDispatch
  BY <1>5, <1>6, <1>15 DEF GiveUpRollUp, ConfirmAndDispatch, Goto, AfterCommit
<1>16. CASE RollbackFails
  <2>1. CASE pc = "rollback"
    BY <1>1, <1>2, <1>3, <1>8, <1>16, <2>1 DEF RollbackFails, Finish
  <2>2. CASE pc # "rollback"
    BY <1>5, <1>6, <1>16, <2>2 DEF RollbackFails, AfterCommit
  <2> QED BY <2>1, <2>2
<1>17. CASE Shutdown
  <2>1. CASE pc = "writing"
    BY <1>1, <1>2, <1>3, <1>17, <2>1 DEF Shutdown, Finish
  <2>2. CASE pc = "rollback"
    BY <1>1, <1>2, <1>3, <1>8, <1>17, <2>2 DEF Shutdown, Finish
  <2>3. CASE pc \notin {"writing", "rollback"}
    BY <1>3, <1>5, <1>6, <1>7, <1>17, <2>3 DEF Shutdown, UpStates, AfterCommit
  <2> QED BY <2>1, <2>2, <2>3
<1>18. CASE Drain
  BY <1>1, <1>2, <1>3, <1>7, <1>8, <1>9, <1>18 DEF Drain, Goto
<1>19. CASE Crash
  BY <1>1, <1>2, <1>3, <1>8, <1>19 DEF Crash, Finish
<1>20. CASE Restart \/ UNCHANGED vars
  BY <1>4, <1>20 DEF Restart
<1>21. CASE \E r \in Known : Backfill(r)
  BY <1>4, <1>21 DEF Backfill
<1> QED BY <1>10, <1>11, <1>12, <1>13, <1>14, <1>15, <1>16, <1>17, <1>18, <1>19,
           <1>20, <1>21 DEF Next, FlushStep

\* No candle of a known symbol is lost on any path but a killed process, a
\* failed drain and a rollback that did not complete.
THEOREM LossIsAccounted == Spec => []LossAccounted
<1> DEFINE Inv == TypeOK /\ BatchDurable /\ LossAccounted
<1>1. Init => Inv
  <2> SUFFICES ASSUME Init PROVE BatchDurable /\ LossAccounted
    BY InitType
  <2> QED BY IngestAssumption DEF Init, BatchDurable, AfterCommit, LossAccounted
<1>2. Inv /\ [Next]_vars => Inv'
  BY TypeStep, BatchDurableStep, LossAccountedStep
<1>3. Inv => LossAccounted
  OBVIOUS
<1> QED BY <1>1, <1>2, <1>3, PTL DEF Spec

-----------------------------------------------------------------------------
(* The higher timeframes.  From the second commit to the end of the cycle  *)
(* every emission has its row, so the mark and the fan-out may follow.     *)

\* No step deletes a higher-tf row.
LEMMA HigherGrows ==
    ASSUME TypeOK, [Next]_vars, NEW s \in Symbols, NEW tf \in TargetTFs,
           NEW w \in Windows, HasRow(s, tf, w)
    PROVE  HasRow(s, tf, w)'
<1> USE DEF vars, memory, services, history
<1>1. RolledUp[s][tf][w] # {}
  BY DEF RolledUp, HasRow
<1>2. ASSUME higher' \in {higher, RolledUp} PROVE HasRow(s, tf, w)'
  BY <1>1, <1>2 DEF HasRow
<1>3. CASE TakeBatch \/ Persist \/ PersistFails \/ Requeue \/ Publish \/ Dispatch
            \/ Produce \/ ProduceFails
  BY <1>2, <1>3 DEF TakeBatch, Persist, PersistFails, Requeue, Publish,
                    Dispatch, Produce, ProduceFails
<1>4. CASE CommitHigher \/ CommitHigherFails \/ GiveUpRollUp \/ PublishHigher
            \/ ConfirmAndDispatch \/ RollbackFails
  BY <1>2, <1>4 DEF CommitHigher, CommitHigherFails, GiveUpRollUp,
                    PublishHigher, ConfirmAndDispatch, RollbackFails
<1>5. CASE Shutdown \/ Drain \/ Crash \/ Restart
  BY <1>2, <1>5 DEF Shutdown, Drain, Crash, Restart
<1>6. CASE \/ \E r \in Symbols, t \in Minutes : Add(r, t)
           \/ \E r \in Known : Backfill(r)
           \/ UNCHANGED vars
  BY <1>2, <1>6 DEF Add, Backfill
<1> QED BY <1>3, <1>4, <1>5, <1>6 DEF Next, FlushStep

EmissionsStored ==
    pc \in {"announcing", "confirming"} =>
        \A s \in Symbols, tf \in TargetTFs :
            \A w \in EmittedIn(emit, s, tf) : HasRow(s, tf, w)

\* Every step keeps the emissions past their commit stored.
LEMMA EmissionsStoredStep ==
    TypeOK /\ EmissionsStored /\ [Next]_vars => EmissionsStored'
<1> SUFFICES ASSUME TypeOK, EmissionsStored, [Next]_vars PROVE EmissionsStored'
  OBVIOUS
<1> USE DEF vars, memory, services, history
<1>1. ASSUME pc' \notin {"announcing", "confirming"} PROVE EmissionsStored'
  BY <1>1 DEF EmissionsStored
<1>2. ASSUME pc \in {"announcing", "confirming"}, UNCHANGED emit
      PROVE  EmissionsStored'
  <2> SUFFICES ASSUME NEW s \in Symbols, NEW tf \in TargetTFs,
                      NEW w \in EmittedIn(emit, s, tf)
               PROVE  HasRow(s, tf, w)'
    BY <1>2 DEF EmissionsStored, EmittedIn
  <2>1. w \in Windows /\ HasRow(s, tf, w)
    BY <1>2 DEF EmissionsStored, EmittedIn
  <2> QED BY <2>1, HigherGrows
<1>3. CASE CommitHigher
  BY <1>3 DEF CommitHigher, RolledUp, EmissionsStored, EmittedIn, HasRow
<1>4. CASE PublishHigher
  BY <1>2, <1>4 DEF PublishHigher, Goto
<1>5. CASE TakeBatch \/ Persist \/ PersistFails \/ Requeue \/ Publish \/ Dispatch
            \/ Produce \/ ProduceFails
  BY <1>1, <1>5 DEF TakeBatch, Persist, PersistFails, Requeue, Publish,
                    Dispatch, Produce, ProduceFails, Goto
<1>6. CASE CommitHigherFails \/ GiveUpRollUp \/ ConfirmAndDispatch
            \/ RollbackFails \/ Shutdown \/ Drain \/ Crash \/ Restart
  BY <1>1, <1>6 DEF CommitHigherFails, GiveUpRollUp, ConfirmAndDispatch,
                    RollbackFails, Shutdown, Drain, Crash, Restart, Goto
<1>7. CASE \/ \E s \in Symbols, t \in Minutes : Add(s, t)
           \/ \E s \in Known : Backfill(s)
           \/ UNCHANGED vars
  BY <1>1, <1>2, <1>7 DEF Add, Backfill
<1> QED BY <1>3, <1>4, <1>5, <1>6, <1>7 DEF Next, FlushStep

\* Every step keeps the published higher-timeframe bars stored.
LEMMA HigherFanOutStep ==
    TypeOK /\ EmissionsStored /\ HigherFanOutDurable /\ [Next]_vars
        => HigherFanOutDurable'
<1> SUFFICES ASSUME TypeOK, EmissionsStored, HigherFanOutDurable, [Next]_vars,
                    NEW s \in Symbols, NEW tf \in TargetTFs
             PROVE  /\ mark'[s][tf] # NoMark => HasRow(s, tf, mark[s][tf])'
                    /\ highFeed'[s][tf] # NoMark => HasRow(s, tf, highFeed[s][tf])'
                    /\ \A w \in highJobs'[s][tf] : HasRow(s, tf, w)'
  BY DEF HigherFanOutDurable
<1> USE DEF vars, memory, services, history
<1>1. ASSUME NEW w \in Windows, HasRow(s, tf, w) PROVE HasRow(s, tf, w)'
  BY <1>1, HigherGrows
<1>2. /\ mark[s][tf] \in Windows \cup {NoMark}
      /\ highFeed[s][tf] \in Windows \cup {NoMark}
      /\ highJobs[s][tf] \subseteq Windows
  BY DEF TypeOK, Series
<1>3. /\ mark[s][tf] # NoMark => HasRow(s, tf, mark[s][tf])
      /\ highFeed[s][tf] # NoMark => HasRow(s, tf, highFeed[s][tf])
      /\ \A w \in highJobs[s][tf] : HasRow(s, tf, w)
  BY DEF HigherFanOutDurable
<1> DEFINE Kept(x) == x # NoMark => higher'[s][tf][x] # {}
<1>4. /\ Kept(mark[s][tf])
      /\ Kept(highFeed[s][tf])
      /\ \A w \in highJobs[s][tf] : higher'[s][tf][w] # {}
  BY <1>1, <1>2, <1>3 DEF HasRow
<1>5. SUFFICES /\ Kept(mark'[s][tf])
               /\ Kept(highFeed'[s][tf])
               /\ \A w \in highJobs'[s][tf] : higher'[s][tf][w] # {}
  BY DEF HasRow
<1>6. ASSUME UNCHANGED <<mark, highFeed, highJobs>>
      PROVE  /\ Kept(mark'[s][tf])
             /\ Kept(highFeed'[s][tf])
             /\ \A w \in highJobs'[s][tf] : higher'[s][tf][w] # {}
  BY <1>4, <1>6
<1>7. EmittedIn(emit, s, tf) \subseteq Windows
  BY DEF EmittedIn
<1>8. ASSUME pc \in {"announcing", "confirming"}, NEW w \in EmittedIn(emit, s, tf)
      PROVE  higher'[s][tf][w] # {}
  BY <1>1, <1>7, <1>8 DEF EmissionsStored, HasRow
<1>9. CASE PublishHigher
  <2>1. PICK out \in [Symbols -> [TargetTFs -> SUBSET Windows]] :
          /\ out[s][tf] \subseteq EmittedIn(emit, s, tf)
          /\ highFeed' = [r \in Symbols |-> [f \in TargetTFs |->
                IF out[r][f] = {} THEN highFeed[r][f] ELSE Max(out[r][f])]]
    BY <1>9 DEF PublishHigher
  <2>2. highFeed'[s][tf] \in EmittedIn(emit, s, tf) \cup {highFeed[s][tf]}
    <3>1. out[s][tf] \in SUBSET Windows
      OBVIOUS
    <3>2. out[s][tf] # {} => Max(out[s][tf]) \in out[s][tf]
      BY <3>1, MaxWindow
    <3> QED BY <2>1, <3>2
  <2>3. UNCHANGED <<mark, highJobs>> /\ pc = "announcing"
    BY <1>9 DEF PublishHigher, Goto
  <2> QED BY <1>4, <1>8, <2>2, <2>3
<1>10. CASE ConfirmAndDispatch
  <2>1. mark'[s][tf] \in EmittedIn(emit, s, tf) \cup {mark[s][tf]}
    BY <1>10, ConfirmedMark DEF ConfirmAndDispatch
  <2>2. highJobs'[s][tf] \subseteq highJobs[s][tf] \cup EmittedIn(emit, s, tf)
    BY <1>10 DEF ConfirmAndDispatch
  <2>3. UNCHANGED highFeed /\ pc = "confirming"
    BY <1>10 DEF ConfirmAndDispatch, Goto
  <2> QED BY <1>4, <1>8, <2>1, <2>2, <2>3
<1>11. CASE Restart
  <2>1. mark'[s][tf] = NoMark /\ UNCHANGED <<highFeed, highJobs>>
    BY <1>11 DEF Restart, EachSeries
  <2> QED BY <1>4, <2>1
<1>12. CASE TakeBatch \/ Persist \/ PersistFails \/ Requeue \/ Publish \/ Dispatch
             \/ Produce \/ ProduceFails
  BY <1>6, <1>12 DEF TakeBatch, Persist, PersistFails, Requeue, Publish,
                     Dispatch, Produce, ProduceFails
<1>13. CASE CommitHigher \/ CommitHigherFails \/ GiveUpRollUp \/ RollbackFails
             \/ Shutdown \/ Drain \/ Crash
  BY <1>6, <1>13 DEF CommitHigher, CommitHigherFails, GiveUpRollUp,
                     RollbackFails, Shutdown, Drain, Crash
<1>14. CASE \/ \E r \in Symbols, t \in Minutes : Add(r, t)
            \/ \E r \in Known : Backfill(r)
            \/ UNCHANGED vars
  BY <1>6, <1>14 DEF Add, Backfill
<1> QED BY <1>9, <1>10, <1>11, <1>12, <1>13, <1>14 DEF Next, FlushStep

\* Every higher-tf window that is published, handed to a compute job or at a
\* high-water mark has its row: produce() never skips a bar nobody stored.
THEOREM HigherFanOutIsDurable == Spec => []HigherFanOutDurable
<1> DEFINE Inv == TypeOK /\ EmissionsStored /\ HigherFanOutDurable
<1>1. Init => Inv
  <2> SUFFICES ASSUME Init PROVE EmissionsStored /\ HigherFanOutDurable
    BY InitType
  <2> QED BY DEF Init, EmissionsStored, HigherFanOutDurable, EachSeries
<1>2. Inv /\ [Next]_vars => Inv'
  BY TypeStep, EmissionsStoredStep, HigherFanOutStep
<1>3. Inv => HigherFanOutDurable
  OBVIOUS
<1> QED BY <1>1, <1>2, <1>3, PTL DEF Spec

\* Both feeds and both queues: what the ingester announces is in the table, for
\* any number of failed writes, cancels and restarts (buffer.py:86-110, 138-166).
THEOREM AnnouncedBarsAreStored == Spec => []AnnouncedIsStored
<1>1. FanOutDurable /\ HigherFanOutDurable => AnnouncedIsStored
  BY DEF AnnouncedIsStored
<1> QED BY FanOutIsDurable, HigherFanOutIsDurable, <1>1, PTL

-----------------------------------------------------------------------------
(* Order.  What was published lies before what is in flight, and that      *)
(* before what waits; a new candle is later than all of them.              *)

Below(A, B) == \A a \in A, b \in B : a < b

\* Two ordered lists, the first all before the second, merge into an ordered one.
LEMMA ConcatInOrder ==
    ASSUME NEW p \in Seq(Minutes), NEW q \in Seq(Minutes)
    PROVE  StrictlyIncreasing(p \o q) <=>
              StrictlyIncreasing(p) /\ StrictlyIncreasing(q) /\ Below(Range(p), Range(q))
<1>1. /\ Len(p) \in Nat /\ DOMAIN p = 1 .. Len(p)
      /\ Len(q) \in Nat /\ DOMAIN q = 1 .. Len(q)
      /\ DOMAIN (p \o q) = 1 .. Len(p) + Len(q)
      /\ \A i \in 1 .. Len(p) + Len(q) :
            (p \o q)[i] = IF i <= Len(p) THEN p[i] ELSE q[i - Len(p)]
  BY LenProperties, ConcatProperties
<1>2. ASSUME StrictlyIncreasing(p \o q) PROVE StrictlyIncreasing(p)
  BY <1>1, <1>2 DEF StrictlyIncreasing
<1>3. ASSUME StrictlyIncreasing(p \o q) PROVE StrictlyIncreasing(q)
  <2> SUFFICES ASSUME NEW i \in 1 .. Len(q), NEW j \in 1 .. Len(q), i < j
               PROVE  q[i] < q[j]
    BY <1>1 DEF StrictlyIncreasing
  <2>1. /\ i + Len(p) \in DOMAIN (p \o q) /\ (p \o q)[i + Len(p)] = q[i]
        /\ j + Len(p) \in DOMAIN (p \o q) /\ (p \o q)[j + Len(p)] = q[j]
        /\ i + Len(p) < j + Len(p)
    BY <1>1
  <2> QED BY <2>1, <1>3 DEF StrictlyIncreasing
<1>4. ASSUME StrictlyIncreasing(p \o q) PROVE Below(Range(p), Range(q))
  <2> SUFFICES ASSUME NEW i \in 1 .. Len(p), NEW j \in 1 .. Len(q)
               PROVE  p[i] < q[j]
    BY <1>1 DEF Below, Range
  <2>1. /\ i \in DOMAIN (p \o q) /\ (p \o q)[i] = p[i]
        /\ j + Len(p) \in DOMAIN (p \o q) /\ (p \o q)[j + Len(p)] = q[j]
        /\ i < j + Len(p)
    BY <1>1
  <2> QED BY <2>1, <1>4 DEF StrictlyIncreasing
<1>5. ASSUME StrictlyIncreasing(p), StrictlyIncreasing(q), Below(Range(p), Range(q))
      PROVE  StrictlyIncreasing(p \o q)
  <2> SUFFICES ASSUME NEW i \in 1 .. Len(p) + Len(q),
                      NEW j \in 1 .. Len(p) + Len(q), i < j
               PROVE  (p \o q)[i] < (p \o q)[j]
    BY <1>1 DEF StrictlyIncreasing
  <2>1. CASE j <= Len(p)
    BY <1>1, <1>5, <2>1 DEF StrictlyIncreasing
  <2>2. CASE i <= Len(p) /\ j > Len(p)
    <3>1. /\ i \in DOMAIN p /\ j - Len(p) \in DOMAIN q
          /\ (p \o q)[i] = p[i] /\ (p \o q)[j] = q[j - Len(p)]
      BY <1>1, <2>2
    <3> QED BY <3>1, <1>5 DEF Below, Range
  <2>3. CASE i > Len(p)
    <3>1. /\ i - Len(p) \in DOMAIN q /\ j - Len(p) \in DOMAIN q
          /\ (p \o q)[i] = q[i - Len(p)] /\ (p \o q)[j] = q[j - Len(p)]
          /\ i - Len(p) < j - Len(p)
      BY <1>1, <2>3
    <3> QED BY <3>1, <1>5 DEF StrictlyIncreasing
  <2> QED BY <1>1, <2>1, <2>2, <2>3
<1> QED BY <1>2, <1>3, <1>4, <1>5

\* A prefix of an ordered list, what a broken publish sent, is ordered.
LEMMA PrefixInOrder ==
    ASSUME NEW q \in Seq(Minutes), NEW n \in Nat, n <= Len(q), StrictlyIncreasing(q)
    PROVE  StrictlyIncreasing(SubSeq(q, 1, n))
<1>1. Len(q) \in Nat /\ DOMAIN q = 1 .. Len(q) /\ \A i \in 1 .. n : q[i] \in Minutes
  BY LenProperties, ElementOfSeq
<1>2. /\ SubSeq(q, 1, n) \in Seq(Minutes)
      /\ Len(SubSeq(q, 1, n)) = n
      /\ \A i \in 1 .. n : SubSeq(q, 1, n)[i] = q[i]
  BY <1>1, SubSeqProperties
<1>3. DOMAIN SubSeq(q, 1, n) = 1 .. n
  BY <1>2, LenProperties
<1> QED BY <1>1, <1>2, <1>3 DEF StrictlyIncreasing

BeforeFeed == {"idle", "writing", "rollback", "publishing"}

OrderInv ==
    \A s \in Symbols :
        /\ StrictlyIncreasing(batch[s])
        /\ StrictlyIncreasing(pending[s])
        /\ StrictlyIncreasing(feed[s])
        /\ Below(Held(batch, s), Held(pending, s))
        /\ Below(Range(feed[s]), Held(pending, s))
        /\ pc \in BeforeFeed => Below(Range(feed[s]), Held(batch, s))
        /\ Range(feed[s]) \cup Held(batch, s) \cup Held(pending, s) \subseteq received[s]

\* Every step keeps memory and feed in time order and the feed behind memory.
LEMMA OrderInvStep ==
    TypeOK /\ OrderInv /\ [Next]_vars => OrderInv'
<1> SUFFICES ASSUME TypeOK, OrderInv, [Next]_vars PROVE OrderInv'
  OBVIOUS
<1> USE DEF vars, memory, services, history
<1>1. \A s \in Symbols :
         /\ batch[s] \in Seq(Minutes)
         /\ pending[s] \in Seq(Minutes)
         /\ feed[s] \in Seq(Minutes)
         /\ received[s] \subseteq Minutes
  BY DEF TypeOK
<1>2. \A s \in Symbols :
         /\ Held(Empty, s) = {}
         /\ Held(Prepended, s) = Held(batch, s) \cup Held(pending, s)
         /\ \A t \in Minutes :
               Range(Append(pending[s], t)) = Held(pending, s) \cup {t}
  BY HeldOps
<1>3. \A s \in Symbols : StrictlyIncreasing(Empty[s])
  BY DEF Empty, StrictlyIncreasing
<1>4. pc \in {"idle", "draining", "down"} => batch = Empty
  BY DEF TypeOK
<1>5. ASSUME batch' \in {batch, Empty}, pending' \in {pending, Empty},
             UNCHANGED <<feed, received>>,
             pc' \in BeforeFeed => pc \in BeforeFeed \/ batch' = Empty
      PROVE  OrderInv'
  <2> SUFFICES ASSUME NEW s \in Symbols
               PROVE  /\ StrictlyIncreasing(batch'[s])
                      /\ StrictlyIncreasing(pending'[s])
                      /\ StrictlyIncreasing(feed'[s])
                      /\ Below(Held(batch', s), Held(pending', s))
                      /\ Below(Range(feed'[s]), Held(pending', s))
                      /\ pc' \in BeforeFeed => Below(Range(feed'[s]), Held(batch', s))
                      /\ Range(feed'[s]) \cup Held(batch', s) \cup Held(pending', s)
                            \subseteq received'[s]
    BY DEF OrderInv, Held
  <2> QED BY <1>2, <1>3, <1>5 DEF OrderInv, Below
<1>6. ASSUME batch' = Empty, pending' = Prepended, UNCHANGED <<feed, received>>,
             pc \in BeforeFeed
      PROVE  OrderInv'
  <2> SUFFICES ASSUME NEW s \in Symbols
               PROVE  /\ StrictlyIncreasing(batch'[s])
                      /\ StrictlyIncreasing(pending'[s])
                      /\ StrictlyIncreasing(feed'[s])
                      /\ Below(Held(batch', s), Held(pending', s))
                      /\ Below(Range(feed'[s]), Held(pending', s))
                      /\ Below(Range(feed'[s]), Held(batch', s))
                      /\ Range(feed'[s]) \cup Held(batch', s) \cup Held(pending', s)
                            \subseteq received'[s]
    BY DEF OrderInv, Held
  <2>1. StrictlyIncreasing(Prepended[s])
    BY <1>1, ConcatInOrder DEF OrderInv, Prepended, Held
  <2> QED BY <1>2, <1>3, <1>6, <2>1 DEF OrderInv, Below
<1>7. ASSUME NEW r \in Symbols, NEW t \in Minutes, Add(r, t) PROVE OrderInv'
  <2> SUFFICES ASSUME NEW s \in Symbols
               PROVE  /\ StrictlyIncreasing(batch'[s])
                      /\ StrictlyIncreasing(pending'[s])
                      /\ StrictlyIncreasing(feed'[s])
                      /\ Below(Held(batch', s), Held(pending', s))
                      /\ Below(Range(feed'[s]), Held(pending', s))
                      /\ pc' \in BeforeFeed => Below(Range(feed'[s]), Held(batch', s))
                      /\ Range(feed'[s]) \cup Held(batch', s) \cup Held(pending', s)
                            \subseteq received'[s]
    BY DEF OrderInv, Held
  <2>1. /\ UNCHANGED <<pc, batch, feed>>
        /\ \A u \in received[r] : u < t
        /\ received' = [received EXCEPT ![r] = @ \cup {t}]
        /\ pending' = [pending EXCEPT ![r] = Append(@, t)]
    BY <1>7 DEF Add
  <2>2. CASE s # r
    <3>1. pending'[s] = pending[s] /\ received'[s] = received[s]
      BY <2>1, <2>2 DEF TypeOK
    <3> QED BY <2>1, <3>1 DEF OrderInv, Held
  <2>3. CASE s = r
    <3>1. pending'[s] = Append(pending[s], t) /\ received'[s] = received[s] \cup {t}
      BY <2>1, <2>3 DEF TypeOK
    <3>2. Held(pending', s) = Held(pending, s) \cup {t}
      BY <1>2, <3>1 DEF Held
    <3>3. StrictlyIncreasing(pending'[s])
      <4>1. Append(pending[s], t) = pending[s] \o <<t>> /\ <<t>> \in Seq(Minutes)
        BY <1>1, AppendAsConcat
      <4>2. Range(<<t>>) = {t} /\ StrictlyIncreasing(<<t>>)
        BY DEF Range, StrictlyIncreasing
      <4>3. Below(Range(pending[s]), Range(<<t>>))
        BY <2>1, <2>3, <4>2 DEF OrderInv, Below, Held
      <4>4. StrictlyIncreasing(pending[s] \o <<t>>)
        BY <1>1, <4>1, <4>2, <4>3, ConcatInOrder DEF OrderInv
      <4> QED BY <3>1, <4>1, <4>4
    <3>4. \A x \in Range(feed[s]) \cup Held(batch, s) : x < t
      BY <2>1, <2>3 DEF OrderInv
    <3> QED BY <2>1, <3>1, <3>2, <3>3, <3>4 DEF OrderInv, Below, Held
  <2> QED BY <2>2, <2>3
<1>8. CASE TakeBatch
  <2> SUFFICES ASSUME NEW s \in Symbols
               PROVE  /\ StrictlyIncreasing(batch'[s])
                      /\ StrictlyIncreasing(pending'[s])
                      /\ StrictlyIncreasing(feed'[s])
                      /\ Below(Held(batch', s), Held(pending', s))
                      /\ Below(Range(feed'[s]), Held(pending', s))
                      /\ Below(Range(feed'[s]), Held(batch', s))
                      /\ Range(feed'[s]) \cup Held(batch', s) \cup Held(pending', s)
                            \subseteq received'[s]
    BY DEF OrderInv, Held
  <2>1. batch' = pending /\ pending' = Empty /\ UNCHANGED <<feed, received>>
    BY <1>8 DEF TakeBatch
  <2> QED BY <1>2, <1>3, <2>1 DEF OrderInv, Below
<1>9. CASE Publish
  <2>1. PICK cut \in Cuts(batch) :
          feed' = [s \in Symbols |-> feed[s] \o SubSeq(batch[s], 1, cut[s])]
    BY <1>9 DEF Publish
  <2>2. /\ pc = "publishing" /\ pc' = "dispatching"
        /\ UNCHANGED <<batch, pending, received>>
    BY <1>9 DEF Publish, Goto
  <2> SUFFICES ASSUME NEW s \in Symbols
               PROVE  /\ StrictlyIncreasing(feed'[s])
                      /\ Below(Range(feed'[s]), Held(pending, s))
                      /\ Range(feed'[s]) \subseteq received[s]
    BY <2>2 DEF OrderInv, Held, BeforeFeed
  <2> DEFINE out == SubSeq(batch[s], 1, cut[s])
  <2>3. feed'[s] = feed[s] \o out
    BY <2>1
  <2>4. out \in Seq(Minutes) /\ Range(out) \subseteq Held(batch, s) /\ StrictlyIncreasing(out)
    BY <1>1, CutTyped, PrefixInOrder DEF OrderInv
  <2> HIDE DEF out
  <2>5. Below(Range(feed[s]), Range(out))
    BY <2>2, <2>4 DEF OrderInv, Below, BeforeFeed
  <2>6. StrictlyIncreasing(feed[s] \o out)
    BY <1>1, <2>4, <2>5, ConcatInOrder DEF OrderInv
  <2>7. Range(feed[s] \o out) = Range(feed[s]) \cup Range(out)
    BY <1>1, <2>4, RangeConcat
  <2> QED BY <2>3, <2>4, <2>6, <2>7 DEF OrderInv, Below
<1>10. CASE Requeue
  BY <1>6, <1>10 DEF Requeue, Goto, BeforeFeed
<1>11. CASE Shutdown
  BY <1>5, <1>6, <1>11 DEF Shutdown, Finish, BeforeFeed
<1>12. CASE Persist \/ PersistFails \/ Dispatch \/ ProduceFails
             \/ CommitHigher \/ CommitHigherFails \/ PublishHigher
  BY <1>5, <1>12 DEF Persist, PersistFails, Dispatch, ProduceFails, CommitHigher,
                     CommitHigherFails, PublishHigher, Goto, BeforeFeed
<1>13. CASE Produce \/ GiveUpRollUp \/ ConfirmAndDispatch \/ RollbackFails \/ Crash
  BY <1>5, <1>13 DEF Produce, GiveUpRollUp, ConfirmAndDispatch, RollbackFails,
                     Crash, Finish, BeforeFeed
<1>14. CASE Drain \/ Restart
  BY <1>4, <1>5, <1>14 DEF Drain, Restart, Goto, BeforeFeed
<1>15. CASE (\E s \in Known : Backfill(s)) \/ UNCHANGED vars
  BY <1>5, <1>15 DEF Backfill
<1> QED BY <1>7, <1>8, <1>9, <1>10, <1>11, <1>12, <1>13, <1>14, <1>15
        DEF Next, FlushStep

\* The strengthening behind the two order theorems holds in every reachable state.
LEMMA OrderInvariant == Spec => [](TypeOK /\ OrderInv)
<1>1. Init => TypeOK /\ OrderInv
  <2> SUFFICES ASSUME Init PROVE OrderInv
    BY InitType
  <2> QED BY DEF Init, OrderInv, Empty, Held, Range, StrictlyIncreasing, Below
<1>2. TypeOK /\ OrderInv /\ [Next]_vars => (TypeOK /\ OrderInv)'
  BY TypeStep, OrderInvStep
<1> QED BY <1>1, <1>2, PTL DEF Spec

\* A symbol's live 1m feed is in time order and shows no bar twice, across
\* failed writes, retries, cancels and restarts.
THEOREM FeedStaysInOrder == Spec => []FeedInOrder
<1>1. OrderInv => FeedInOrder
  BY DEF OrderInv, FeedInOrder
<1> QED BY <1>1, OrderInvariant, PTL

\* The batch in flight and what arrived since are in stream order, with no
\* candle held twice, whatever is put back.
THEOREM HeldStaysInOrder == Spec => []HeldInOrder
<1>1. TypeOK /\ OrderInv => HeldInOrder
  <2> SUFFICES ASSUME TypeOK, OrderInv, NEW s \in Symbols
               PROVE  StrictlyIncreasing(batch[s] \o pending[s])
    BY DEF HeldInOrder
  <2>1. batch[s] \in Seq(Minutes) /\ pending[s] \in Seq(Minutes)
    BY DEF TypeOK
  <2> QED BY <2>1, ConcatInOrder DEF OrderInv, Held
<1> QED BY <1>1, OrderInvariant, PTL

-----------------------------------------------------------------------------
(* Refinement.  Ingest implements CandleFeed: initial states map to        *)
(* initial states, and each step of the ingester or of the sweep to a step *)
(* of the promise or to a stutter.                                         *)

\* A stopped process holds nothing: what its drain did not store is gone.
DownIsEmpty == pc = "down" => pending = Empty

\* A step keeps a stopped process empty: only Crash and the end of Drain stop
\* it, and both leave nothing in memory.
LEMMA DownIsEmptyStep == TypeOK /\ DownIsEmpty /\ [Next]_vars => DownIsEmpty'
<1> SUFFICES ASSUME TypeOK, DownIsEmpty, [Next]_vars PROVE DownIsEmpty'
  OBVIOUS
<1> USE DEF vars, memory, services, history, DownIsEmpty
<1>1. CASE \E s \in Symbols, t \in Minutes : Add(s, t)
  BY <1>1 DEF Add, UpStates
<1>2. CASE TakeBatch \/ Persist \/ PersistFails \/ Requeue \/ Publish \/ Dispatch
            \/ Produce \/ ProduceFails
  BY <1>2 DEF TakeBatch, Persist, PersistFails, Requeue, Publish, Dispatch,
              Produce, ProduceFails, Goto
<1>3. CASE CommitHigher \/ CommitHigherFails \/ GiveUpRollUp \/ PublishHigher
            \/ ConfirmAndDispatch \/ RollbackFails
  BY <1>3 DEF CommitHigher, CommitHigherFails, GiveUpRollUp, PublishHigher,
              ConfirmAndDispatch, RollbackFails, Goto
<1>4. CASE Shutdown \/ Drain \/ Crash \/ Restart
  BY <1>4 DEF Shutdown, Drain, Crash, Restart, Goto
<1>5. CASE (\E s \in Known : Backfill(s)) \/ UNCHANGED vars
  BY <1>5 DEF Backfill
<1> QED BY <1>1, <1>2, <1>3, <1>4, <1>5 DEF Next, FlushStep

\* A cut of a batch into what was published and what was not gives back the
\* batch: publish_candles sends a prefix.
LEMMA ConcatPrefix ==
    ASSUME NEW S, NEW p \in Seq(S), NEW q \in Seq(S)
    PROVE  SubSeq(p \o q, 1, Len(p)) = p
<1>1. /\ Len(p) \in Nat /\ p \o q \in Seq(S)
      /\ \A i \in 1 .. Len(p) : (p \o q)[i] = p[i] /\ p[i] \in S
  BY LenProperties, ConcatProperties, ElementOfSeq
<1>2. /\ SubSeq(p \o q, 1, Len(p)) \in Seq(S)
      /\ Len(SubSeq(p \o q, 1, Len(p))) = Len(p)
      /\ \A i \in 1 .. Len(p) : SubSeq(p \o q, 1, Len(p))[i] = p[i]
  BY <1>1, SubSeqProperties
<1> QED BY <1>2, SeqEqual

PromiseInv ==
    /\ TypeOK
    /\ BatchDurable
    /\ FanOutDurable
    /\ OrderInv
    /\ DownIsEmpty

\* The strengthening the refinement uses holds in every reachable state.
LEMMA PromiseInvariant == Spec => []PromiseInv
<1>1. Init => PromiseInv
  <2> SUFFICES ASSUME Init PROVE BatchDurable /\ FanOutDurable /\ OrderInv /\ DownIsEmpty
    BY InitType DEF PromiseInv
  <2>1. BatchDurable /\ FanOutDurable /\ DownIsEmpty
    BY DEF Init, BatchDurable, AfterCommit, FanOutDurable, Empty, Range, DownIsEmpty
  <2>2. OrderInv
    BY DEF Init, OrderInv, Empty, Held, Range, StrictlyIncreasing, Below
  <2> QED BY <2>1, <2>2
<1>2. PromiseInv /\ [Next]_vars => PromiseInv'
  BY TypeStep, BatchDurableStep, FanOutDurableStep, OrderInvStep, DownIsEmptyStep
  DEF PromiseInv
<1> QED BY <1>1, <1>2, PTL DEF Spec

\* A fresh CandleBuffer is an empty abstract feed.
LEMMA PromiseInit == Init => Promise!Init
BY IngestAssumption
DEF Init, Promise!Init, Running, UpStates, Unsettled, Empty, Held, Range

\* Steps that leave the promise's state alone.
LEMMA PromiseStutter ==
    ASSUME Running' = Running,
           \A s \in Known : Unsettled(s)' = Unsettled(s),
           UNCHANGED <<stored, feed>>
    PROVE  UNCHANGED Promise!vars
BY DEF Promise!vars

\* Every step of the pipeline is a step of the abstract feed or leaves it alone.
LEMMA PromiseStep == PromiseInv /\ [Next]_vars => [Promise!Next]_(Promise!vars)
<1> SUFFICES ASSUME PromiseInv, [Next]_vars PROVE Promise!Next \/ UNCHANGED Promise!vars
  OBVIOUS
<1> USE DEF vars, memory, services, history
<1>1. TypeOK /\ BatchDurable /\ OrderInv /\ DownIsEmpty
  BY DEF PromiseInv
<1>2. \A s \in Known : /\ s \in Symbols
                       /\ Held(Empty, s) = {}
                       /\ Held(Prepended, s) = Held(batch, s) \cup Held(pending, s)
                       /\ \A t \in Minutes :
                             Range(Append(pending[s], t)) = Held(pending, s) \cup {t}
  BY <1>1, HeldOps, IngestAssumption
<1>3. \A buf : \A s \in Known : Written(buf)[s] = stored[s] \cup Held(buf, s)
  BY <1>2 DEF Written
<1>4. ASSUME NEW r \in Symbols, NEW t \in Minutes, Add(r, t)
      PROVE  Promise!Next \/ UNCHANGED Promise!vars
  <2>1. /\ pc \in UpStates /\ UNCHANGED <<pc, batch, stored, feed>>
        /\ pending' = [pending EXCEPT ![r] = Append(@, t)]
    BY <1>4 DEF Add
  <2>2. \A s \in Known : Held(pending', s) =
           IF s = r THEN Held(pending, s) \cup {t} ELSE Held(pending, s)
    BY <1>1, <1>2, <2>1 DEF Held, TypeOK
  <2>3. \A s \in Known : Unsettled(s)' =
           IF s = r THEN Unsettled(s) \cup {t} ELSE Unsettled(s)
    <3> TAKE s \in Known
    <3>1. Unsettled(s)' = Held(pending', s)
             \cup IF pc \in {"writing", "rollback"} THEN Held(batch, s) ELSE {}
      BY <2>1 DEF Unsettled, Held
    <3> QED BY <2>2, <3>1 DEF Unsettled
  <2>4. CASE r \in Known
    <3>1. Promise!Accept(r, t)
      BY <2>1, <2>3, <2>4 DEF Promise!Accept, Running
    <3> QED BY <3>1, <2>4 DEF Promise!Next
  <2>5. CASE r \notin Known
    BY <2>1, <2>3, <2>5, PromiseStutter DEF Running
  <2> QED BY <2>4, <2>5
<1>5. CASE TakeBatch
  <2>1. /\ pc = "idle" /\ pc' = "writing" /\ UNCHANGED <<stored, feed>>
        /\ batch' = pending /\ pending' = Empty
    BY <1>5 DEF TakeBatch, Goto
  <2>2. \A s \in Known : Unsettled(s)' = Unsettled(s)
    BY <1>2, <2>1 DEF Unsettled, Held
  <2> QED BY <2>1, <2>2, PromiseStutter DEF Running, UpStates
<1>6. CASE Requeue
  <2>1. /\ pc = "rollback" /\ pc' = "idle" /\ UNCHANGED <<stored, feed>>
        /\ batch' = Empty /\ pending' = Prepended
    BY <1>6 DEF Requeue, Goto
  <2>2. \A s \in Known : Unsettled(s)' = Unsettled(s)
    BY <1>2, <2>1 DEF Unsettled, Held
  <2> QED BY <2>1, <2>2, PromiseStutter DEF Running, UpStates
<1>7. CASE Persist \/ PersistFails
  <2>1. /\ pc = "writing" /\ pc' \in {"publishing", "rollback"}
        /\ pc' = "publishing" => stored' = Written(batch)
        /\ stored' \in {stored, Written(batch)}
        /\ UNCHANGED <<pending, batch, feed>>
    BY <1>7 DEF Persist, PersistFails, Goto
  <2>2. \A s \in Known :
          /\ Unsettled(s) = Held(pending, s) \cup Held(batch, s)
          /\ Unsettled(s)' = IF pc' = "publishing" THEN Held(pending, s)
                             ELSE Held(pending, s) \cup Held(batch, s)
    BY <2>1 DEF Unsettled, Held
  <2>3. \A s \in Known : /\ stored[s] \subseteq stored'[s]
                         /\ stored'[s] \subseteq stored[s] \cup Held(batch, s)
                         /\ pc' = "publishing" => Held(batch, s) \subseteq stored'[s]
    BY <1>3, <2>1
  <2>4. Promise!Settle
    BY <2>1, <2>2, <2>3 DEF Promise!Settle, Promise!Stored, Running, UpStates
  <2> QED BY <2>4 DEF Promise!Next
<1>8. CASE Publish
  <2>1. PICK cut \in Cuts(batch) :
          feed' = [s \in Symbols |-> feed[s] \o SubSeq(batch[s], 1, cut[s])]
    BY <1>8 DEF Publish
  <2>2. /\ pc = "publishing" /\ pc' = "dispatching"
        /\ UNCHANGED <<stored, pending, batch>>
    BY <1>8 DEF Publish, Goto
  <2>3. \A s \in Known : Unsettled(s)' = Unsettled(s)
    BY <2>2 DEF Unsettled, Held
  <2>4. FanOutDurable' /\ OrderInv'
    BY FanOutDurableStep, OrderInvStep DEF PromiseInv
  <2>5. ASSUME NEW s \in Known
        PROVE  /\ feed[s] = SubSeq(feed'[s], 1, Len(feed[s]))
               /\ Range(feed'[s]) \subseteq stored[s]
               /\ StrictlyIncreasing(feed'[s])
    <3>1. /\ s \in Symbols /\ feed[s] \in Seq(Minutes)
          /\ SubSeq(batch[s], 1, cut[s]) \in Seq(Minutes)
      BY <1>1, <1>2, CutTyped DEF TypeOK
    <3>2. feed'[s] = feed[s] \o SubSeq(batch[s], 1, cut[s])
      BY <2>1, <3>1
    <3>3. feed[s] = SubSeq(feed'[s], 1, Len(feed[s]))
      BY <3>1, <3>2, ConcatPrefix
    <3> QED BY <2>2, <2>4, <3>1, <3>3 DEF FanOutDurable, OrderInv
  <2>6. Promise!Announce
    BY <2>2, <2>3, <2>5
    DEF Promise!Announce, Running, UpStates, StrictlyIncreasing, Range, Promise!Range
  <2> QED BY <2>6 DEF Promise!Next
<1>9. ASSUME pc \in UpStates \ {"writing", "rollback"},
             pc' \in UpStates \ {"writing", "rollback"},
             UNCHANGED <<pending, stored, feed>>
      PROVE  UNCHANGED Promise!vars
  <2>1. \A s \in Known : Unsettled(s)' = Unsettled(s)
    BY <1>9 DEF Unsettled, Held
  <2> QED BY <1>9, <2>1, PromiseStutter DEF Running
<1>10. CASE Dispatch \/ Produce \/ ProduceFails \/ CommitHigher
             \/ CommitHigherFails
  BY <1>9, <1>10 DEF Dispatch, Produce, ProduceFails, CommitHigher,
                     CommitHigherFails, Goto, UpStates
<1>11. CASE GiveUpRollUp \/ PublishHigher \/ ConfirmAndDispatch
  BY <1>9, <1>11 DEF GiveUpRollUp, PublishHigher, ConfirmAndDispatch, Goto,
                     UpStates
<1>12. ASSUME pc' \in {"draining", "down"}, UNCHANGED feed,
              \A s \in Known : /\ stored[s] \subseteq stored'[s]
                               /\ stored'[s] \subseteq stored[s] \cup Unsettled(s)
                               /\ Held(pending', s) \subseteq Unsettled(s)
       PROVE  Promise!Next
  <2>1. Running' = FALSE /\ \A s \in Known : Unsettled(s)' = Held(pending', s)
    BY <1>12 DEF Running, UpStates, Unsettled, Held
  <2>2. Promise!Stop
    BY <1>12, <2>1 DEF Promise!Stop, Promise!Stored
  <2> QED BY <2>2 DEF Promise!Next
<1>13. CASE RollbackFails
  BY <1>12, <1>13 DEF RollbackFails, Unsettled
<1>14. CASE Shutdown
  BY <1>2, <1>3, <1>12, <1>14 DEF Shutdown, Unsettled
<1>15. CASE Drain
  BY <1>2, <1>3, <1>12, <1>15 DEF Drain, Unsettled, Goto
<1>16. CASE Crash
  BY <1>2, <1>3, <1>12, <1>16 DEF Crash, Unsettled
<1>17. CASE Restart
  <2>1. /\ pc = "down" /\ pc' = "idle" /\ UNCHANGED <<pending, stored, feed>>
        /\ pending = Empty
    BY <1>1, <1>17 DEF Restart, Goto, DownIsEmpty
  <2>2. \A s \in Known : Unsettled(s) = {} /\ Unsettled(s)' = {}
    BY <1>2, <2>1 DEF Unsettled, Held
  <2>3. Promise!Start
    BY <2>1, <2>2 DEF Promise!Start, Running, UpStates
  <2> QED BY <2>3 DEF Promise!Next
<1>18. ASSUME NEW r \in Known, Backfill(r) PROVE Promise!Next
  <2>1. /\ UNCHANGED <<pc, pending, batch, feed>>
        /\ \A s \in Known : stored[s] \subseteq stored'[s]
    BY <1>1, <1>2, <1>18 DEF Backfill, TypeOK
  <2>2. Running' = Running /\ \A s \in Known : Unsettled(s)' = Unsettled(s)
    BY <2>1 DEF Running, Unsettled, Held
  <2>3. Promise!Repair
    BY <2>1, <2>2 DEF Promise!Repair
  <2> QED BY <2>3 DEF Promise!Next
<1>19. CASE UNCHANGED vars
  <2>1. Running' = Running /\ \A s \in Known : Unsettled(s)' = Unsettled(s)
    BY <1>19 DEF Running, Unsettled, Held
  <2> QED BY <1>19, <2>1, PromiseStutter
<1> QED BY <1>4, <1>5, <1>6, <1>7, <1>8, <1>10, <1>11, <1>13, <1>14, <1>15, <1>16,
           <1>17, <1>18, <1>19 DEF Next, FlushStep

\* The ingester keeps the promise of CandleFeed: while it runs it forgets no
\* accepted candle before it is stored, and it announces only stored ones, in
\* time order and once.
THEOREM IngestKeepsPromise == Spec => ImplementsCandleFeed
<1>1. Init => Promise!Init
  BY PromiseInit
<1>2. PromiseInv /\ [Next]_vars => [Promise!Next]_(Promise!vars)
  BY PromiseStep
<1>3. Spec => Promise!Spec
  BY <1>1, <1>2, PromiseInvariant, PTL DEF Spec, Promise!Spec
<1> QED BY <1>3 DEF ImplementsCandleFeed

-----------------------------------------------------------------------------
(* Windows and their bars.                                                 *)

\* _floor_to_window: a window is a number, and a later minute is in the same
\* window or in a later one.
LEMMA WindowsGrow ==
    ASSUME NEW tf \in TargetTFs, NEW t \in Nat, NEW u \in Nat, t <= u
    PROVE  /\ WindowOf(t, tf) \in Nat
           /\ WindowOf(t, tf) <= WindowOf(u, tf)
           /\ CompletedWindow(t, tf) <= CompletedWindow(u, tf)
           /\ CompletedWindow(t, tf) >= NoMark
<1>1. Step[tf] \in Nat /\ Step[tf] > 0
  BY AggregatorAssumption
<1>2. \A n, a \in Nat : n > 0 =>
         /\ a \div n \in Nat
         /\ n * (a \div n) <= a
         /\ a < n * (a \div n) + n
  OBVIOUS
<1>3. \A n, p, q \in Nat : n > 0 /\ q + 1 <= p => n * q + n <= n * p
  <2> SUFFICES ASSUME NEW n \in Nat, NEW p \in Nat, NEW q \in Nat, n > 0, q + 1 <= p
               PROVE  n * q + n <= n * p
    OBVIOUS
  <2>1. n * (q + 1) = n * q + n
    OBVIOUS
  <2>2. n * (q + 1) <= n * p
    OBVIOUS
  <2> QED BY <2>1, <2>2
<1> DEFINE n == Step[tf]
           p == t \div n
           q == u \div n
<1>4. /\ p \in Nat /\ n * p <= t
      /\ q \in Nat /\ u < n * q + n
  BY <1>1, <1>2
<1>5. p <= q
  <2> SUFFICES ASSUME q + 1 <= p PROVE FALSE
    <3> HIDE DEF p, q
    <3> QED BY <1>4
  <2>1. n * q + n <= n * p
    <3> HIDE DEF p, q
    <3> QED BY <1>1, <1>3, <1>4
  <2>2. n * p \in Nat /\ n * q \in Nat
    <3> HIDE DEF p, q
    <3> QED BY <1>1, <1>4
  <2> HIDE DEF p, q
  <2> QED BY <1>1, <1>4, <2>1, <2>2
<1> QED BY <1>4, <1>5 DEF WindowOf, CompletedWindow, NoMark

\* A window has as many minutes as its timeframe says.
LEMMA WindowSize ==
    ASSUME NEW tf \in TargetTFs, NEW w \in Nat
    PROVE  /\ IsFiniteSet(WindowMinutes(w, tf))
           /\ Cardinality(WindowMinutes(w, tf)) = Step[tf]
<1>1. Step[tf] \in Nat /\ Step[tf] > 0
  BY AggregatorAssumption
<1>2. \A n, a \in Nat : a * n \in Nat /\ (a + 1) * n = a * n + n
  OBVIOUS
<1> DEFINE a == w * Step[tf]
           b == (w + 1) * Step[tf] - 1
<1>3. a \in Int /\ b \in Int /\ b - a + 1 = Step[tf] /\ ~(a > b)
  <2>1. a \in Nat /\ b = a + Step[tf] - 1
    BY <1>1, <1>2
  <2> HIDE DEF a, b
  <2> QED BY <1>1, <2>1
<1>4. /\ IsFiniteSet(a .. b)
      /\ Cardinality(a .. b) = IF a > b THEN 0 ELSE b - a + 1
  <2> HIDE DEF a, b
  <2> QED BY <1>3, FS_Interval
<1>5. WindowMinutes(w, tf) = a .. b
  BY DEF WindowMinutes
<1> HIDE DEF a, b
<1> QED BY <1>3, <1>4, <1>5

\* What a window has and what it lacks make up the window.
LEMMA PresentAndMissing ==
    ASSUME NEW bars, NEW tf \in TargetTFs, NEW w \in Nat
    PROVE  LET present == Cardinality(MinutesIn(bars, w, tf))
               missing == Cardinality(WindowMinutes(w, tf) \ MinutesIn(bars, w, tf))
           IN  present \in Nat /\ missing \in Nat /\ present + missing = Step[tf]
<1> DEFINE all == WindowMinutes(w, tf)
           here == MinutesIn(bars, w, tf)
<1>1. IsFiniteSet(all) /\ Cardinality(all) = Step[tf]
  BY WindowSize
<1>2. here \subseteq all /\ all \cap here = here
  BY DEF MinutesIn
<1> HIDE DEF all, here
<1>3. IsFiniteSet(here) /\ IsFiniteSet(all \ here)
  BY <1>1, <1>2, FS_Subset, FS_Difference
<1>4. Cardinality(all \ here) = Cardinality(all) - Cardinality(all \cap here)
  BY <1>1, FS_Difference
<1>5. Cardinality(here) \in Nat /\ Cardinality(all \ here) \in Nat /\ Step[tf] \in Nat
  BY <1>3, FS_CardinalityType, AggregatorAssumption
<1>6. Cardinality(here) + Cardinality(all \ here) = Step[tf]
  BY <1>1, <1>2, <1>4, <1>5
<1> QED BY <1>5, <1>6 DEF all, here

\* _rollup_window rolls up only what its docstring allows.
LEMMA EnoughIsCovered ==
    ASSUME NEW bars, NEW tf \in TargetTFs, NEW w \in Nat, EnoughBars(bars, w, tf)
    PROVE  /\ CoverageMet(MinutesIn(bars, w, tf), w, tf)
           /\ MinutesIn(bars, w, tf) # {}
<1> DEFINE p == Cardinality(MinutesIn(bars, w, tf))
           m == Cardinality(WindowMinutes(w, tf) \ MinutesIn(bars, w, tf))
<1>1. p \in Nat /\ m \in Nat /\ p + m = Step[tf]
  BY PresentAndMissing
<1>2. /\ Step[tf] \in Nat /\ StrictMax \in Nat
      /\ CoverNum \in Nat /\ CoverDen \in Nat
  BY AggregatorAssumption
<1>3. /\ p > 0
      /\ IF Step[tf] <= StrictMax THEN p >= Step[tf]
         ELSE p * CoverDen >= Step[tf] * CoverNum
  BY DEF EnoughBars
<1>4. \A x, y, n, d, s \in Nat :
         x + y = s /\ x * d >= s * n => y * d <= s * (d - n)
  <2> SUFFICES ASSUME NEW x \in Nat, NEW y \in Nat, NEW n \in Nat, NEW d \in Nat,
                      x * d >= (x + y) * n
               PROVE  y * d <= (x + y) * (d - n)
    OBVIOUS
  <2>1. (x + y) * (d - n) = (x + y) * d - (x + y) * n
    OBVIOUS
  <2>2. (x + y) * d = x * d + y * d
    OBVIOUS
  <2>3. x * d \in Nat /\ y * d \in Nat /\ (x + y) * n \in Nat
    OBVIOUS
  <2> QED BY <2>1, <2>2, <2>3
<1>5. MinutesIn(bars, w, tf) # {}
  BY <1>3, FS_EmptySet
<1>6. IF Step[tf] <= StrictMax THEN m = 0
      ELSE m < Step[tf] /\ m * CoverDen <= Step[tf] * (CoverDen - CoverNum)
  <2> HIDE DEF p, m
  <2>1. CASE Step[tf] <= StrictMax
    BY <1>1, <1>2, <1>3, <2>1
  <2>2. CASE ~(Step[tf] <= StrictMax)
    <3>1. m < Step[tf]
      BY <1>1, <1>2, <1>3
    <3>2. m * CoverDen <= Step[tf] * (CoverDen - CoverNum)
      BY <1>1, <1>2, <1>3, <1>4, <2>2
    <3> QED BY <2>2, <3>1, <3>2
  <2> QED BY <2>1, <2>2
<1> QED BY <1>5, <1>6 DEF CoverageMet

\* More bars do not make a window too sparse.
LEMMA EnoughStaysEnough ==
    ASSUME NEW A, NEW B, A \subseteq B, NEW tf \in TargetTFs, NEW w \in Nat,
           EnoughBars(A, w, tf)
    PROVE  EnoughBars(B, w, tf)
<1> DEFINE a == Cardinality(MinutesIn(A, w, tf))
           b == Cardinality(MinutesIn(B, w, tf))
<1>1. /\ IsFiniteSet(MinutesIn(B, w, tf))
      /\ MinutesIn(A, w, tf) \subseteq MinutesIn(B, w, tf)
  BY WindowSize, FS_Subset DEF MinutesIn
<1>2. a \in Nat /\ b \in Nat /\ a <= b
  BY <1>1, FS_Subset, FS_CardinalityType
<1>3. \A x, y, d, z \in Nat : x <= y /\ x * d >= z => y * d >= z
  <2> SUFFICES ASSUME NEW x \in Nat, NEW y \in Nat, NEW d \in Nat, x <= y
               PROVE  x * d <= y * d
    OBVIOUS
  <2> QED OBVIOUS
<1>4. /\ Step[tf] \in Nat /\ StrictMax \in Nat /\ CoverDen \in Nat
      /\ Step[tf] * CoverNum \in Nat
  BY AggregatorAssumption
<1>5. /\ a > 0
      /\ IF Step[tf] <= StrictMax THEN a >= Step[tf]
         ELSE a * CoverDen >= Step[tf] * CoverNum
  BY DEF EnoughBars
<1>6. /\ b > 0
      /\ IF Step[tf] <= StrictMax THEN b >= Step[tf]
         ELSE b * CoverDen >= Step[tf] * CoverNum
  <2> HIDE DEF a, b
  <2> QED BY <1>2, <1>3, <1>4, <1>5
<1> QED BY <1>6 DEF EnoughBars

-----------------------------------------------------------------------------
(* What produce() hands to the commit.                                     *)

RolledFrom(bars, rows, tf, w) ==
    /\ bars \subseteq rows
    /\ CoverageMet(bars, w, tf)
    /\ \E t \in rows : WindowOf(t, tf) > w

EmitSound ==
    \A s \in Symbols, tf \in TargetTFs, w \in Windows :
        emit[s][tf][w] # {} =>
            /\ s \in Touched
            /\ w \in CandidateWindows(mark[s][tf], Newest(s), tf)
            /\ EnoughBars(stored[s], w, tf)
            /\ RolledFrom(emit[s][tf][w], stored[s], tf, w)

FailedHasBars ==
    \A s \in Symbols, tf \in TargetTFs, w \in Windows :
        verdict[s][tf][w] = "failed" => EnoughBars(stored[s], w, tf)

JudgedAll ==
    pc \in {"committing", "announcing", "confirming"} =>
        \A s \in Touched, tf \in TargetTFs : \A w \in Windows :
            w \in CandidateWindows(mark[s][tf], Newest(s), tf) =>
                emit[s][tf][w] # {} \/ verdict[s][tf][w] = "sparse"

EmitInv == EmitSound /\ FailedHasBars /\ JudgedAll

\* A series produce() looks at has a newest candle, and it is in the batch.
LEMMA NewestHeld ==
    ASSUME TypeOK, NEW s \in Touched
    PROVE  /\ s \in Symbols /\ s \in Known
           /\ Newest(s) \in Held(batch, s)
           /\ Newest(s) \in Minutes
           /\ \A t \in Held(batch, s) : t <= Newest(s)
<1>1. s \in Symbols /\ s \in Known /\ batch[s] \in Seq(Minutes) /\ batch[s] # <<>>
  BY IngestAssumption DEF Touched, TypeOK
<1>2. Held(batch, s) # {}
  <2>1. 1 \in DOMAIN batch[s]
    BY <1>1, LenProperties, EmptySeq
  <2> QED BY <2>1 DEF Held, Range
<1>3. Held(batch, s) \in SUBSET (-1 .. MaxMinute) /\ Held(batch, s) \subseteq Minutes
  <2>1. batch \in [Symbols -> Seq(Minutes)]
    BY DEF TypeOK
  <2>2. Held(batch, s) \subseteq Minutes
    BY <1>1, <2>1, HeldTyped
  <2> QED BY <2>2, IngestAssumption DEF Minutes
<1> QED BY <1>1, <1>2, <1>3, MaxInRange DEF Newest

\* Rolled up once, rolled up soundly for good: rows are never deleted.
LEMMA RolledStays ==
    ASSUME NEW bars, NEW A, NEW B, A \subseteq B, NEW tf, NEW w, RolledFrom(bars, A, tf, w)
    PROVE  RolledFrom(bars, B, tf, w)
BY DEF RolledFrom

\* Each emission of produce() has its bars and a newer one in the table.
LEMMA EmissionsSound ==
    ASSUME TypeOK, BatchDurable, pc = "rolling",
           NEW s \in Symbols, NEW tf \in TargetTFs, NEW w \in Windows,
           Emissions[s][tf][w] # {}
    PROVE  /\ s \in Touched
           /\ w \in CandidateWindows(mark[s][tf], Newest(s), tf)
           /\ EnoughBars(stored[s], w, tf)
           /\ RolledFrom(Emissions[s][tf][w], stored[s], tf, w)
<1>1. /\ s \in Touched
      /\ w \in EmittedWindows(stored[s], mark[s][tf], Newest(s), tf)
      /\ Emissions[s][tf][w] = MinutesIn(stored[s], w, tf)
  BY DEF Emissions
<1>2. /\ w \in CandidateWindows(mark[s][tf], Newest(s), tf)
      /\ EnoughBars(stored[s], w, tf)
  BY <1>1 DEF EmittedWindows
<1>3. w \in Nat
  BY IngestAssumption DEF Windows
<1>4. Newest(s) \in stored[s] /\ Newest(s) \in Nat
  BY <1>1, NewestHeld, IngestAssumption DEF BatchDurable, AfterCommit, Minutes
<1>5. WindowOf(Newest(s), tf) > w
  <2>1. w <= CompletedWindow(Newest(s), tf)
    BY <1>2 DEF CandidateWindows
  <2>2. WindowOf(Newest(s), tf) \in Nat
    BY <1>4, WindowsGrow
  <2> QED BY <1>3, <2>1, <2>2 DEF CompletedWindow
<1>6. CoverageMet(MinutesIn(stored[s], w, tf), w, tf)
  BY <1>2, <1>3, EnoughIsCovered
<1>7. MinutesIn(stored[s], w, tf) \subseteq stored[s]
  BY DEF MinutesIn
<1> QED BY <1>1, <1>2, <1>4, <1>5, <1>6, <1>7 DEF RolledFrom

\* produce() notes of every candidate whether it was emitted or too sparse.
LEMMA CandidatesJudged ==
    ASSUME TypeOK, NEW s \in Touched, NEW tf \in TargetTFs, NEW w \in Windows,
           w \in CandidateWindows(mark[s][tf], Newest(s), tf)
    PROVE  Emissions[s][tf][w] # {} \/ Judged[s][tf][w] = "sparse"
<1>1. s \in Symbols /\ w \in Nat
  BY NewestHeld, IngestAssumption DEF Windows
<1>2. CASE EnoughBars(stored[s], w, tf)
  <2>1. Emissions[s][tf][w] = MinutesIn(stored[s], w, tf)
    BY <1>1, <1>2 DEF Emissions, EmittedWindows
  <2> QED BY <1>1, <1>2, <2>1, EnoughIsCovered
<1>3. CASE ~EnoughBars(stored[s], w, tf)
  BY <1>1, <1>3 DEF Judged, SparseWindows
<1> QED BY <1>2, <1>3

\* Every step keeps what is known of emissions and verdicts.
LEMMA EmitInvStep ==
    TypeOK /\ BatchDurable /\ EmitInv /\ [Next]_vars => EmitInv'
<1> SUFFICES ASSUME TypeOK, BatchDurable, EmitInv, [Next]_vars PROVE EmitInv'
  OBVIOUS
<1> USE DEF vars, memory, services, history
<1>1. \A s \in Symbols : stored[s] \subseteq stored'[s]
  BY StoredGrows
<1>2. \A s \in Symbols, tf \in TargetTFs, w \in Windows :
         EnoughBars(stored[s], w, tf) => EnoughBars(stored'[s], w, tf)
  BY <1>1, EnoughStaysEnough, IngestAssumption DEF Windows
<1>3. ASSUME UNCHANGED <<emit, mark>>, emit # NoneRolled => UNCHANGED batch
      PROVE  EmitSound'
  <2> SUFFICES ASSUME NEW s \in Symbols, NEW tf \in TargetTFs, NEW w \in Windows,
                      emit'[s][tf][w] # {}
               PROVE  /\ (s \in Touched)'
                      /\ w \in CandidateWindows(mark[s][tf], Newest(s), tf)'
                      /\ EnoughBars(stored'[s], w, tf)
                      /\ RolledFrom(emit'[s][tf][w], stored'[s], tf, w)
    BY DEF EmitSound
  <2>1. UNCHANGED batch
    BY <1>3 DEF NoneRolled, EachSeries
  <2>2. /\ s \in Touched
        /\ w \in CandidateWindows(mark[s][tf], Newest(s), tf)
        /\ EnoughBars(stored[s], w, tf)
        /\ RolledFrom(emit[s][tf][w], stored[s], tf, w)
    BY <1>3 DEF EmitInv, EmitSound
  <2>3. RolledFrom(emit[s][tf][w], stored'[s], tf, w)
    BY <1>1, <2>2, RolledStays
  <2> QED BY <1>2, <1>3, <2>1, <2>2, <2>3 DEF Touched, Newest, Held
<1>4. ASSUME emit' = NoneRolled PROVE EmitSound'
  BY <1>4 DEF EmitSound, NoneRolled, EachSeries
<1>5. ASSUME \A s \in Symbols, tf \in TargetTFs, w \in Windows :
                verdict'[s][tf][w] = "failed" =>
                    verdict[s][tf][w] = "failed" \/ EnoughBars(stored[s], w, tf)
      PROVE  FailedHasBars'
  BY <1>2, <1>5 DEF EmitInv, FailedHasBars
<1>6. ASSUME UNCHANGED verdict PROVE FailedHasBars'
  BY <1>5, <1>6
<1>7. ASSUME pc' \notin {"committing", "announcing", "confirming"} PROVE JudgedAll'
  BY <1>7 DEF JudgedAll
<1>8. ASSUME pc \in {"committing", "announcing", "confirming"},
             UNCHANGED <<batch, emit, mark, verdict>>
      PROVE  JudgedAll'
  BY <1>8 DEF EmitInv, JudgedAll, Touched, Newest, Held
<1>9. CASE TakeBatch \/ Persist \/ PersistFails \/ Requeue \/ Publish \/ Dispatch
            \/ ProduceFails
  <2>1. /\ UNCHANGED <<emit, mark, verdict>>
        /\ pc' \notin {"committing", "announcing", "confirming"}
        /\ emit = NoneRolled
    BY <1>9 DEF TakeBatch, Persist, PersistFails, Requeue, Publish, Dispatch,
                ProduceFails, Goto, TypeOK
  <2> QED BY <1>3, <1>6, <1>7, <2>1 DEF EmitInv
<1>10. CASE Produce
  <2>1. /\ pc = "rolling" /\ verdict' = Judged /\ UNCHANGED <<mark, stored>>
    BY <1>10 DEF Produce
  <2>2. FailedHasBars'
    BY <1>5, <2>1 DEF Judged
  <2>3. CASE Nothing(Emissions)
    <3>1. emit' = NoneRolled /\ pc' = "idle"
      BY <1>10, <2>3 DEF Produce, Finish
    <3> QED BY <1>4, <1>7, <2>2, <3>1 DEF EmitInv
  <2>4. CASE ~Nothing(Emissions)
    <3>1. emit' = Emissions /\ pc' = "committing" /\ UNCHANGED batch
      BY <1>10, <2>4 DEF Produce
    <3>2. EmitSound'
      BY <2>1, <3>1, EmissionsSound DEF EmitSound, Touched, Newest, Held
    <3>3. JudgedAll'
      <4> SUFFICES ASSUME NEW s \in Touched, NEW tf \in TargetTFs, NEW w \in Windows,
                          w \in CandidateWindows(mark[s][tf], Newest(s), tf)
                   PROVE  emit'[s][tf][w] # {} \/ verdict'[s][tf][w] = "sparse"
        BY <2>1, <3>1 DEF JudgedAll, Touched, Newest, Held
      <4> QED BY <2>1, <3>1, CandidatesJudged
    <3> QED BY <2>2, <3>2, <3>3 DEF EmitInv
  <2> QED BY <2>3, <2>4
<1>11. CASE CommitHigher \/ PublishHigher
  <2>1. /\ UNCHANGED <<batch, emit, mark, verdict>>
        /\ pc \in {"committing", "announcing", "confirming"}
    BY <1>11 DEF CommitHigher, PublishHigher, Goto
  <2> QED BY <1>3, <1>6, <1>8, <2>1 DEF EmitInv
<1>12. CASE CommitHigherFails
  <2>1. /\ UNCHANGED <<batch, emit, mark, stored>>
        /\ verdict' = Verdict("failed") /\ pc' = "undoing"
    BY <1>12 DEF CommitHigherFails, Goto
  <2>2. FailedHasBars'
    BY <1>5, <2>1 DEF Verdict, EmitInv, EmitSound
  <2> QED BY <1>3, <1>7, <2>1, <2>2 DEF EmitInv
<1>13. CASE ConfirmAndDispatch
  <2>1. emit' = NoneRolled /\ verdict' = Verdict("none") /\ pc' = "idle"
    BY <1>13 DEF ConfirmAndDispatch, Goto, Finish
  <2>2. FailedHasBars'
    BY <1>5, <2>1 DEF Verdict
  <2> QED BY <1>4, <1>7, <2>1, <2>2 DEF EmitInv
<1>14. CASE GiveUpRollUp \/ RollbackFails \/ Shutdown \/ Crash
  <2>1. /\ emit' = NoneRolled /\ UNCHANGED verdict
        /\ pc' \in {"idle", "draining", "down"}
    BY <1>14 DEF GiveUpRollUp, RollbackFails, Shutdown, Crash, Goto, Finish
  <2> QED BY <1>4, <1>6, <1>7, <2>1 DEF EmitInv
<1>15. CASE Drain
  <2>1. /\ UNCHANGED <<emit, mark, batch, verdict>> /\ pc' = "down"
    BY <1>15 DEF Drain, Goto
  <2> QED BY <1>3, <1>6, <1>7, <2>1 DEF EmitInv
<1>16. CASE Restart
  <2>1. emit' = emit /\ emit = NoneRolled /\ pc' = "idle"
        /\ verdict' = EachSeries([w \in Windows |-> "none"])
    BY <1>16 DEF Restart, Goto, TypeOK
  <2>2. FailedHasBars'
    BY <1>5, <2>1 DEF EachSeries
  <2> QED BY <1>4, <1>7, <2>1, <2>2 DEF EmitInv
<1>17. CASE \/ \E s \in Symbols, t \in Minutes : Add(s, t)
            \/ \E s \in Known : Backfill(s)
            \/ UNCHANGED vars
  <2>1. UNCHANGED <<pc, batch, emit, mark, verdict>>
    BY <1>17 DEF Add, Backfill
  <2> QED BY <1>3, <1>6, <1>7, <1>8, <2>1 DEF EmitInv
<1> QED BY <1>9, <1>10, <1>11, <1>12, <1>13, <1>14, <1>15, <1>16, <1>17
        DEF Next, FlushStep

\* Every step keeps the higher-tf rows sound.
LEMMA HigherRowsStep ==
    TypeOK /\ EmitInv /\ HigherRowsSound /\ [Next]_vars => HigherRowsSound'
<1> SUFFICES ASSUME TypeOK, EmitInv, HigherRowsSound, [Next]_vars,
                    NEW s \in Symbols, NEW tf \in TargetTFs, NEW w \in Windows,
                    higher'[s][tf][w] # {}
             PROVE  RolledFrom(higher'[s][tf][w], stored'[s], tf, w)
  BY DEF HigherRowsSound, HasRow, RolledFrom
<1> USE DEF vars, memory, services, history
<1>1. stored[s] \subseteq stored'[s]
  BY StoredGrows
<1>2. higher[s][tf][w] # {} => RolledFrom(higher[s][tf][w], stored[s], tf, w)
  BY DEF HigherRowsSound, HasRow, RolledFrom
<1>3. emit[s][tf][w] # {} => RolledFrom(emit[s][tf][w], stored[s], tf, w)
  BY DEF EmitInv, EmitSound
<1>4. RolledUp[s][tf][w] \in {emit[s][tf][w], higher[s][tf][w]}
  BY DEF RolledUp
<1>5. higher' \in {higher, RolledUp}
  <2>1. CASE TakeBatch \/ Persist \/ PersistFails \/ Requeue \/ Publish
              \/ Dispatch \/ Produce \/ ProduceFails
    BY <2>1 DEF TakeBatch, Persist, PersistFails, Requeue, Publish, Dispatch,
                Produce, ProduceFails
  <2>2. CASE CommitHigher \/ CommitHigherFails \/ GiveUpRollUp \/ PublishHigher
              \/ ConfirmAndDispatch \/ RollbackFails
    BY <2>2 DEF CommitHigher, CommitHigherFails, GiveUpRollUp, PublishHigher,
                ConfirmAndDispatch, RollbackFails
  <2>3. CASE Shutdown \/ Drain \/ Crash \/ Restart
    BY <2>3 DEF Shutdown, Drain, Crash, Restart
  <2>4. CASE \/ \E r \in Symbols, t \in Minutes : Add(r, t)
             \/ \E r \in Known : Backfill(r)
             \/ UNCHANGED vars
    BY <2>4 DEF Add, Backfill
  <2> QED BY <2>1, <2>2, <2>3, <2>4 DEF Next, FlushStep
<1>6. higher'[s][tf][w] \in {emit[s][tf][w], higher[s][tf][w]}
  BY <1>4, <1>5
<1>7. RolledFrom(higher'[s][tf][w], stored[s], tf, w)
  BY <1>2, <1>3, <1>6
<1> QED BY <1>1, <1>7, RolledStays

RollUpInv == TypeOK /\ BatchDurable /\ EmissionsStored /\ EmitInv

\* The strengthening behind the theorems on the higher timeframes holds in
\* every reachable state.
LEMMA RollUpInvariant == Spec => []RollUpInv
<1>1. Init => RollUpInv
  <2> SUFFICES ASSUME Init PROVE BatchDurable /\ EmissionsStored /\ EmitInv
    BY InitType DEF RollUpInv
  <2>1. BatchDurable /\ EmissionsStored /\ JudgedAll
    BY DEF Init, BatchDurable, AfterCommit, EmissionsStored, JudgedAll
  <2>2. EmitSound /\ FailedHasBars
    BY DEF Init, EmitSound, FailedHasBars, NoneRolled, EachSeries
  <2> QED BY <2>1, <2>2 DEF EmitInv
<1>2. RollUpInv /\ [Next]_vars => RollUpInv'
  BY TypeStep, BatchDurableStep, EmissionsStoredStep, EmitInvStep DEF RollUpInv
<1> QED BY <1>1, <1>2, PTL DEF Spec

\* A higher-timeframe row was rolled up from enough bars of a closed window, all
\* of them in the table, whatever commit failed and whatever a sweep filled in
\* (_rollup_window; buffer.py:138-152).
THEOREM HigherRowsAreSound == Spec => []HigherRowsSound
<1>1. Init => HigherRowsSound
  BY DEF Init, HigherRowsSound, HasRow, NoneRolled, EachSeries
<1>2. RollUpInv /\ HigherRowsSound /\ [Next]_vars => HigherRowsSound'
  BY HigherRowsStep DEF RollUpInv
<1> QED BY <1>1, <1>2, RollUpInvariant, PTL DEF Spec

\* A step that moves the mark is confirm().
LEMMA OnlyConfirmMoves ==
    ASSUME TypeOK, [Next]_vars, NEW s \in Symbols, NEW tf \in TargetTFs
    PROVE  \/ mark'[s][tf] = mark[s][tf]
           \/ pc = "down" /\ mark'[s][tf] = NoMark
           \/ /\ pc = "confirming"
              /\ mark'[s][tf] = Confirmed(mark[s][tf], EmittedIn(emit, s, tf))
<1> USE DEF vars, memory, services, history
<1>1. CASE ConfirmAndDispatch
  BY <1>1 DEF ConfirmAndDispatch, Goto
<1>2. CASE Restart
  BY <1>2 DEF Restart, Goto, EachSeries
<1>3. CASE TakeBatch \/ Persist \/ PersistFails \/ Requeue \/ Publish \/ Dispatch
            \/ Produce \/ ProduceFails
  BY <1>3 DEF TakeBatch, Persist, PersistFails, Requeue, Publish, Dispatch,
              Produce, ProduceFails
<1>4. CASE CommitHigher \/ CommitHigherFails \/ GiveUpRollUp \/ PublishHigher
            \/ RollbackFails \/ Shutdown \/ Drain \/ Crash
  BY <1>4 DEF CommitHigher, CommitHigherFails, GiveUpRollUp, PublishHigher,
              RollbackFails, Shutdown, Drain, Crash
<1>5. CASE \/ \E r \in Symbols, t \in Minutes : Add(r, t)
           \/ \E r \in Known : Backfill(r)
           \/ UNCHANGED vars
  BY <1>5 DEF Add, Backfill
<1> QED BY <1>1, <1>2, <1>3, <1>4, <1>5 DEF Next, FlushStep

\* confirm() passes only windows produce() has looked at, or cut off by the cap.
LEMMA CatchUpStep == RollUpInv /\ [Next]_vars => CatchUpComplete
<1> SUFFICES ASSUME RollUpInv, [Next]_vars,
                    NEW s \in Symbols, NEW tf \in TargetTFs,
                    mark[s][tf] # NoMark,
                    NEW w \in mark[s][tf] + 1 .. mark'[s][tf]
             PROVE  \/ HasRow(s, tf, w)
                    \/ verdict[s][tf][w] = "sparse"
                    \/ w + MaxCatchup <= CompletedWindow(Newest(s), tf)
  BY DEF CatchUpComplete
<1>1. TypeOK /\ EmissionsStored /\ EmitSound /\ JudgedAll
  BY DEF RollUpInv, EmitInv
<1>2. mark[s][tf] \in 0 .. MaxMinute
  BY <1>1 DEF TypeOK, Series, Windows, NoMark
<1> DEFINE top == Confirmed(mark[s][tf], EmittedIn(emit, s, tf))
<1>3. pc = "confirming" /\ mark'[s][tf] = top
  BY <1>1, <1>2, OnlyConfirmMoves, IngestAssumption DEF NoMark
<1>4. top \in EmittedIn(emit, s, tf)
  <2>1. top \in EmittedIn(emit, s, tf) \cup {mark[s][tf]}
    BY <1>1, ConfirmedMark
  <2>2. top # mark[s][tf]
    <3> HIDE DEF top
    <3> QED BY <1>2, <1>3, IngestAssumption
  <2> QED BY <2>1, <2>2
<1> HIDE DEF top
<1>5. /\ top \in Windows /\ s \in Touched
      /\ top \in CandidateWindows(mark[s][tf], Newest(s), tf)
  BY <1>1, <1>4 DEF EmittedIn, EmitSound
<1> DEFINE done == CompletedWindow(Newest(s), tf)
<1>6. done \in Int
  <2>1. Newest(s) \in Nat
    BY <1>1, <1>5, NewestHeld, IngestAssumption DEF Minutes
  <2> QED BY <2>1, WindowsGrow DEF CompletedWindow
<1>7. top <= done /\ top \in 0 .. MaxMinute
  BY <1>5 DEF CandidateWindows, Windows
<1>8. w \in mark[s][tf] + 1 .. done /\ w \in Windows
  <2> HIDE DEF done
  <2> QED BY <1>2, <1>3, <1>6, <1>7, IngestAssumption DEF Windows
<1>9. CASE w \in CandidateWindows(mark[s][tf], Newest(s), tf)
  <2>1. emit[s][tf][w] # {} \/ verdict[s][tf][w] = "sparse"
    BY <1>1, <1>3, <1>5, <1>8, <1>9 DEF JudgedAll
  <2>2. emit[s][tf][w] # {} => HasRow(s, tf, w)
    BY <1>1, <1>3, <1>8 DEF EmissionsStored, EmittedIn
  <2> QED BY <2>1, <2>2
<1>10. CASE w \notin CandidateWindows(mark[s][tf], Newest(s), tf)
  <2>1. w \notin (done - MaxCatchup + 1) .. done
    BY <1>8, <1>10 DEF CandidateWindows
  <2> HIDE DEF done
  <2>2. w + MaxCatchup <= done
    BY <1>2, <1>6, <1>8, <2>1, AggregatorAssumption DEF Windows
  <2> QED BY <2>2 DEF done
<1> QED BY <1>9, <1>10

\* No later look finds a failed window too sparse, for its bars stay stored.
LEMMA RetryStep == RollUpInv /\ [Next]_vars => FailedRollUpIsRetried
<1> SUFFICES ASSUME RollUpInv, [Next]_vars,
                    NEW s \in Symbols, NEW tf \in TargetTFs, NEW w \in Windows,
                    verdict[s][tf][w] = "failed"
             PROVE  verdict'[s][tf][w] # "sparse"
  BY DEF FailedRollUpIsRetried
<1> USE DEF vars, memory, services, history
<1>1. EnoughBars(stored[s], w, tf)
  BY DEF RollUpInv, EmitInv, FailedHasBars
<1>2. CASE Produce
  BY <1>1, <1>2 DEF Produce, Judged, SparseWindows
<1>3. CASE CommitHigherFails \/ ConfirmAndDispatch
  <2>1. verdict' = Verdict("failed") \/ verdict' = Verdict("none")
    BY <1>3 DEF CommitHigherFails, ConfirmAndDispatch
  <2>2. /\ Verdict("failed")[s][tf][w] = "failed"
        /\ Verdict("none")[s][tf][w] \in {"none", "failed"}
    BY DEF Verdict
  <2> QED BY <2>1, <2>2
<1>4. CASE Restart
  BY <1>4 DEF Restart, EachSeries
<1>5. CASE TakeBatch \/ Persist \/ PersistFails \/ Requeue \/ Publish \/ Dispatch
            \/ ProduceFails \/ CommitHigher
  BY <1>5 DEF TakeBatch, Persist, PersistFails, Requeue, Publish, Dispatch,
              ProduceFails, CommitHigher
<1>6. CASE GiveUpRollUp \/ PublishHigher \/ RollbackFails \/ Shutdown \/ Drain
            \/ Crash
  BY <1>6 DEF GiveUpRollUp, PublishHigher, RollbackFails, Shutdown, Drain, Crash
<1>7. CASE \/ \E r \in Symbols, t \in Minutes : Add(r, t)
           \/ \E r \in Known : Backfill(r)
           \/ UNCHANGED vars
  BY <1>7 DEF Add, Backfill
<1> QED BY <1>2, <1>3, <1>4, <1>5, <1>6, <1>7 DEF Next, FlushStep

\* However many windows a gap spans and whatever roll-up failed in between, the
\* mark passes no window within the catch-up cap but for one that has its row or
\* was too sparse (aggregator.py:169-171, buffer.py:138-139).
THEOREM WindowsAreNotSkipped == Spec => NoWindowSkipped
<1>1. RollUpInv /\ [Next]_vars => [CatchUpComplete /\ FailedRollUpIsRetried]_vars
  BY CatchUpStep, RetryStep
<1> QED BY <1>1, RollUpInvariant, PTL DEF Spec, NoWindowSkipped

-----------------------------------------------------------------------------
(* The newest window published lies behind every candle in memory, and at  *)
(* or behind the mark but while it is being confirmed.                     *)

Ahead(s, tf, t) == highFeed[s][tf] <= CompletedWindow(t, tf)

HighFeedInv ==
    \A s \in Symbols, tf \in TargetTFs :
        /\ \A t \in Held(pending, s) : Ahead(s, tf, t)
        /\ pc # "confirming" => \A t \in Held(batch, s) : Ahead(s, tf, t)
        /\ highFeed[s][tf] # NoMark => \E t \in received[s] : Ahead(s, tf, t)
        /\ pc \in UpStates \ {"confirming"} /\ mark[s][tf] # NoMark =>
              highFeed[s][tf] <= mark[s][tf]
        /\ pc = "confirming" /\ EmittedIn(emit, s, tf) \cup {mark[s][tf]} # {NoMark} =>
              \E w \in EmittedIn(emit, s, tf) \cup {mark[s][tf]} : highFeed[s][tf] <= w

OrderedInv == TypeOK /\ BatchDurable /\ EmitInv /\ OrderInv /\ HighFeedInv

\* The completed windows of minutes, marks and published windows are numbers.
LEMMA HighFeedTyped ==
    ASSUME TypeOK, NEW s \in Symbols, NEW tf \in TargetTFs
    PROVE  /\ highFeed[s][tf] \in Int /\ highFeed[s][tf] >= NoMark
           /\ mark[s][tf] \in Int /\ mark[s][tf] >= NoMark
           /\ \A t \in Minutes : t \in Nat /\ CompletedWindow(t, tf) \in Int
           /\ \A t, u \in Minutes : t <= u =>
                 CompletedWindow(t, tf) <= CompletedWindow(u, tf)
           /\ \A t \in Minutes : NoMark <= CompletedWindow(t, tf)
<1>1. highFeed[s][tf] \in Windows \cup {NoMark} /\ mark[s][tf] \in Windows \cup {NoMark}
  BY DEF TypeOK, Series
<1>2. Minutes \subseteq Nat
  BY IngestAssumption DEF Minutes
<1>3. \A t \in Minutes : CompletedWindow(t, tf) \in Int
  BY <1>2, WindowsGrow DEF CompletedWindow
<1>4. \A t \in Minutes : NoMark <= CompletedWindow(t, tf)
  <2> TAKE t \in Minutes
  <2>1. t \in Nat /\ t <= t
    BY <1>2
  <2>2. CompletedWindow(t, tf) >= NoMark
    BY <2>1, WindowsGrow
  <2> QED BY <1>3, <2>2 DEF NoMark
<1>5. \A t, u \in Minutes : t <= u => CompletedWindow(t, tf) <= CompletedWindow(u, tf)
  BY <1>2, WindowsGrow
<1>6. \A x \in Windows \cup {NoMark} : x \in Int /\ x >= NoMark
  BY IngestAssumption DEF Windows, NoMark
<1>7. /\ highFeed[s][tf] \in Int /\ highFeed[s][tf] >= NoMark
      /\ mark[s][tf] \in Int /\ mark[s][tf] >= NoMark
  BY <1>1, <1>6
<1> QED BY <1>2, <1>3, <1>4, <1>5, <1>7

\* A window about to be published is one its batch completes, and at or behind
\* none that was published.
LEMMA PublishedAbove ==
    ASSUME OrderedInv, pc = "announcing", NEW s \in Symbols, NEW tf \in TargetTFs,
           NEW w \in EmittedIn(emit, s, tf)
    PROVE  /\ w \in Int /\ highFeed[s][tf] <= w
           /\ \E t \in Held(batch, s) : w <= CompletedWindow(t, tf)
<1>1. TypeOK /\ EmitSound /\ HighFeedInv
  BY DEF OrderedInv, EmitInv
<1>2. /\ w \in Windows /\ s \in Touched
      /\ w \in CandidateWindows(mark[s][tf], Newest(s), tf)
  BY <1>1 DEF EmittedIn, EmitSound
<1>3. Newest(s) \in Held(batch, s) /\ Newest(s) \in Minutes
  BY <1>1, <1>2, NewestHeld
<1> DEFINE done == CompletedWindow(Newest(s), tf)
           hf == highFeed[s][tf]
           m == mark[s][tf]
<1>4. hf \in Int /\ m \in Int /\ done \in Int
  BY <1>1, <1>3, HighFeedTyped
<1>5. hf <= done
  BY <1>1, <1>3 DEF HighFeedInv, Ahead
<1>6. m # NoMark => hf <= m
  BY <1>1 DEF HighFeedInv, UpStates
<1>7. w \in (IF m = NoMark THEN done ELSE m + 1) .. done
  BY <1>2 DEF CandidateWindows
<1>8. w \in Int /\ hf <= w /\ w <= done
  <2> HIDE DEF done, hf, m
  <2> QED BY <1>4, <1>5, <1>6, <1>7
<1> QED BY <1>3, <1>8

\* publish_candles of the emissions moves the newest published window on, to
\* one of them, or leaves it.
LEMMA PublishMoves ==
    ASSUME OrderedInv, PublishHigher, NEW s \in Symbols, NEW tf \in TargetTFs
    PROVE  /\ highFeed'[s][tf] \in EmittedIn(emit, s, tf) \cup {highFeed[s][tf]}
           /\ highFeed'[s][tf] >= highFeed[s][tf]
<1>1. PICK out \in [Symbols -> [TargetTFs -> SUBSET Windows]] :
        /\ out[s][tf] \subseteq EmittedIn(emit, s, tf)
        /\ highFeed' = [r \in Symbols |-> [f \in TargetTFs |->
              IF out[r][f] = {} THEN highFeed[r][f] ELSE Max(out[r][f])]]
  BY DEF PublishHigher
<1>2. out[s][tf] \in SUBSET Windows
  OBVIOUS
<1>3. out[s][tf] # {} => Max(out[s][tf]) \in out[s][tf]
  BY <1>2, MaxWindow
<1>4. highFeed'[s][tf] \in EmittedIn(emit, s, tf) \cup {highFeed[s][tf]}
  BY <1>1, <1>3
<1>5. highFeed[s][tf] \in Int /\ pc = "announcing"
  BY HighFeedTyped DEF OrderedInv, PublishHigher, Goto
<1>6. \A w \in EmittedIn(emit, s, tf) : w \in Int /\ highFeed[s][tf] <= w
  BY <1>5, PublishedAbove
<1> QED BY <1>4, <1>5, <1>6

\* Every step keeps the published windows behind what is in memory.
LEMMA HighFeedStep == OrderedInv /\ [Next]_vars => HighFeedInv'
<1> SUFFICES ASSUME OrderedInv, [Next]_vars,
                    NEW s \in Symbols, NEW tf \in TargetTFs
             PROVE  /\ \A t \in Held(pending', s) : Ahead(s, tf, t)'
                    /\ pc' # "confirming" =>
                          \A t \in Held(batch', s) : Ahead(s, tf, t)'
                    /\ highFeed'[s][tf] # NoMark =>
                          \E t \in received'[s] : Ahead(s, tf, t)'
                    /\ pc' \in UpStates \ {"confirming"} /\ mark'[s][tf] # NoMark =>
                          highFeed'[s][tf] <= mark'[s][tf]
                    /\ pc' = "confirming"
                       /\ EmittedIn(emit', s, tf) \cup {mark'[s][tf]} # {NoMark} =>
                          \E w \in EmittedIn(emit', s, tf) \cup {mark'[s][tf]} :
                              highFeed'[s][tf] <= w
  BY DEF HighFeedInv, EmittedIn, Held
<1> USE DEF vars, memory, services, history
<1> DEFINE Goal ==
             /\ \A t \in Held(pending', s) : Ahead(s, tf, t)'
             /\ pc' # "confirming" => \A t \in Held(batch', s) : Ahead(s, tf, t)'
             /\ highFeed'[s][tf] # NoMark => \E t \in received'[s] : Ahead(s, tf, t)'
             /\ pc' \in UpStates \ {"confirming"} /\ mark'[s][tf] # NoMark =>
                   highFeed'[s][tf] <= mark'[s][tf]
             /\ pc' = "confirming"
                /\ EmittedIn(emit', s, tf) \cup {mark'[s][tf]} # {NoMark} =>
                   \E w \in EmittedIn(emit', s, tf) \cup {mark'[s][tf]} :
                       highFeed'[s][tf] <= w
<1>1. TypeOK /\ OrderInv
  BY DEF OrderedInv
<1>2. /\ \A t \in Held(pending, s) : Ahead(s, tf, t)
      /\ pc # "confirming" => \A t \in Held(batch, s) : Ahead(s, tf, t)
      /\ highFeed[s][tf] # NoMark => \E t \in received[s] : Ahead(s, tf, t)
      /\ pc \in UpStates \ {"confirming"} /\ mark[s][tf] # NoMark =>
            highFeed[s][tf] <= mark[s][tf]
      /\ pc = "confirming" /\ EmittedIn(emit, s, tf) \cup {mark[s][tf]} # {NoMark} =>
            \E w \in EmittedIn(emit, s, tf) \cup {mark[s][tf]} : highFeed[s][tf] <= w
  BY DEF OrderedInv, HighFeedInv
<1>3. /\ highFeed[s][tf] \in Int /\ highFeed[s][tf] >= NoMark
      /\ mark[s][tf] \in Int /\ mark[s][tf] >= NoMark
      /\ \A t \in Minutes : t \in Nat /\ CompletedWindow(t, tf) \in Int
      /\ \A t, u \in Minutes : t <= u =>
            CompletedWindow(t, tf) <= CompletedWindow(u, tf)
      /\ \A t \in Minutes : NoMark <= CompletedWindow(t, tf)
  BY <1>1, HighFeedTyped
<1>4. /\ Held(Empty, s) = {}
      /\ Held(Prepended, s) = Held(batch, s) \cup Held(pending, s)
      /\ \A t \in Minutes : Range(Append(pending[s], t)) = Held(pending, s) \cup {t}
  BY <1>1, HeldOps
<1>5. /\ Held(batch, s) \subseteq Minutes /\ Held(pending, s) \subseteq Minutes
      /\ received[s] \subseteq Minutes
  BY <1>1, HeldTyped DEF TypeOK
<1>6. ASSUME pc # "confirming", pc' # "confirming", pc' \in UpStates => pc \in UpStates,
             UNCHANGED <<highFeed, mark, received>>,
             Held(batch', s) \subseteq Held(batch, s) \cup Held(pending, s),
             Held(pending', s) \subseteq Held(batch, s) \cup Held(pending, s)
      PROVE  Goal
  BY <1>2, <1>6 DEF Ahead
<1>7. ASSUME pc' \in {"draining", "down"}, UNCHANGED <<highFeed, received>>,
             Held(batch', s) = {}, Held(pending', s) \subseteq Held(pending, s)
      PROVE  Goal
  BY <1>2, <1>7 DEF Ahead, UpStates
<1>8. ASSUME UNCHANGED <<pc, batch, pending, emit, mark, highFeed, received>>
      PROVE  Goal
  BY <1>2, <1>8 DEF Ahead, Held, EmittedIn
<1>9. ASSUME NEW r \in Symbols, NEW t \in Minutes, Add(r, t) PROVE Goal
  <2>1. /\ UNCHANGED <<pc, batch, emit, mark, highFeed>>
        /\ \A u \in received[r] : u < t
        /\ received' = [received EXCEPT ![r] = @ \cup {t}]
        /\ pending' = [pending EXCEPT ![r] = Append(@, t)]
    BY <1>9 DEF Add
  <2>2. CASE s # r
    <3>1. pending'[s] = pending[s] /\ received'[s] = received[s]
      BY <1>1, <2>1, <2>2 DEF TypeOK
    <3> QED BY <1>2, <2>1, <3>1 DEF Ahead, Held, EmittedIn
  <2>3. CASE s = r
    <3>1. pending'[s] = Append(pending[s], t) /\ received'[s] = received[s] \cup {t}
      BY <1>1, <2>1, <2>3 DEF TypeOK
    <3>2. Held(pending', s) = Held(pending, s) \cup {t}
      BY <1>4, <3>1 DEF Held
    <3>3. Ahead(s, tf, t)
      <4>1. CASE highFeed[s][tf] = NoMark
        BY <1>3, <4>1 DEF Ahead
      <4>2. CASE highFeed[s][tf] # NoMark
        <5>1. PICK u \in received[s] : Ahead(s, tf, u)
          BY <1>2, <4>2
        <5>2. u \in Minutes /\ u <= t
          BY <1>3, <1>5, <2>1, <2>3
        <5>3. CompletedWindow(u, tf) <= CompletedWindow(t, tf)
          BY <1>3, <5>2
        <5>4. \A a, b, c \in Int : a <= b /\ b <= c => a <= c
          OBVIOUS
        <5> QED BY <1>3, <5>1, <5>2, <5>3, <5>4 DEF Ahead
      <4> QED BY <4>1, <4>2
    <3>4. Held(batch', s) = Held(batch, s)
      BY <2>1 DEF Held
    <3> QED BY <1>2, <2>1, <3>1, <3>2, <3>3, <3>4 DEF Ahead, EmittedIn
  <2> QED BY <2>2, <2>3
<1>10. CASE TakeBatch \/ Requeue
  BY <1>4, <1>6, <1>10 DEF TakeBatch, Requeue, Goto, UpStates
<1>11. CASE Persist \/ PersistFails \/ Publish \/ Dispatch \/ ProduceFails
             \/ CommitHigher \/ CommitHigherFails
  <2>1. /\ pc # "confirming" /\ pc' # "confirming" /\ pc \in UpStates
        /\ UNCHANGED <<highFeed, mark, received, batch, pending>>
    BY <1>11 DEF Persist, PersistFails, Publish, Dispatch, ProduceFails,
                 CommitHigher, CommitHigherFails, Goto, UpStates
  <2> QED BY <1>6, <2>1 DEF Held
<1>12. CASE Produce \/ GiveUpRollUp \/ RollbackFails
  <2>1. /\ pc # "confirming" /\ pc' # "confirming" /\ pc \in UpStates
        /\ UNCHANGED <<highFeed, mark, received, pending>>
        /\ batch' \in {batch, Empty}
    BY <1>12 DEF Produce, GiveUpRollUp, RollbackFails, Goto, Finish, UpStates
  <2> QED BY <1>4, <1>6, <2>1 DEF Held
<1>13. CASE Shutdown
  <2>1. /\ pc' = "draining" /\ batch' = Empty /\ UNCHANGED <<highFeed, mark, received>>
        /\ pending' = IF pc = "writing" THEN Prepended ELSE pending
    BY <1>13 DEF Shutdown, Finish
  <2>2. CASE pc = "writing"
    BY <1>4, <1>6, <2>1, <2>2 DEF UpStates
  <2>3. CASE pc # "writing"
    BY <1>4, <1>7, <2>1, <2>3
  <2> QED BY <2>2, <2>3
<1>14. CASE Crash \/ Drain
  <2>1. /\ pc' = "down" /\ batch' \in {batch, Empty} /\ pending' = Empty
        /\ UNCHANGED <<highFeed, received>> /\ (pc = "draining" \/ batch' = Empty)
    BY <1>14 DEF Crash, Drain, Finish, Goto
  <2>2. batch' = Empty
    BY <1>1, <2>1 DEF TypeOK
  <2> QED BY <1>4, <1>7, <2>1, <2>2
<1>15. CASE Restart
  <2>1. /\ pc' = "idle" /\ mark'[s][tf] = NoMark /\ pc = "down"
        /\ UNCHANGED <<highFeed, received, batch, pending>>
    BY <1>15 DEF Restart, Goto, EachSeries
  <2> QED BY <1>2, <2>1 DEF Ahead, Held
<1>16. CASE PublishHigher
  <2>1. /\ pc = "announcing" /\ pc' = "confirming"
        /\ UNCHANGED <<batch, pending, emit, mark, received>>
    BY <1>16 DEF PublishHigher, Goto
  <2> DEFINE E == EmittedIn(emit, s, tf)
             now == highFeed'[s][tf]
  <2>2. now \in E \cup {highFeed[s][tf]}
    BY <1>16, PublishMoves
  <2>3. \A w \in E : /\ w \in Int /\ highFeed[s][tf] <= w
                    /\ \E t \in Held(batch, s) : w <= CompletedWindow(t, tf)
    BY <2>1, PublishedAbove
  <2>4. EmittedIn(emit', s, tf) = E
    BY <2>1 DEF EmittedIn
  <2>5. CASE now \in E
    <3>1. PICK u \in Held(batch, s) : now <= CompletedWindow(u, tf)
      BY <2>3, <2>5
    <3>2. u \in Minutes /\ u \in received[s]
      BY <1>1, <1>5 DEF OrderInv
    <3>3. ASSUME NEW t \in Held(pending, s) PROVE now <= CompletedWindow(t, tf)
      <4>1. u < t /\ t \in Minutes
        BY <1>1, <1>5 DEF OrderInv, Below
      <4>2. CompletedWindow(u, tf) <= CompletedWindow(t, tf)
        BY <1>3, <3>2, <4>1
      <4>3. \A a, b, c \in Int : a <= b /\ b <= c => a <= c
        OBVIOUS
      <4> QED BY <1>3, <2>3, <2>5, <3>1, <3>2, <4>1, <4>2, <4>3
    <3>4. now <= now
      BY <2>3, <2>5
    <3> HIDE DEF E
    <3> QED BY <2>1, <2>4, <2>5, <3>1, <3>2, <3>3, <3>4 DEF Ahead, Held
  <2>6. CASE now = highFeed[s][tf]
    <3>1. ASSUME E \cup {mark[s][tf]} # {NoMark}
          PROVE  \E w \in E \cup {mark[s][tf]} : now <= w
      <4>1. CASE mark[s][tf] # NoMark
        BY <1>2, <2>1, <2>6, <4>1 DEF UpStates
      <4>2. CASE mark[s][tf] = NoMark
        <5>1. PICK w \in E : TRUE
          BY <3>1, <4>2
        <5> QED BY <2>3, <2>6, <5>1
      <4> QED BY <4>1, <4>2
    <3> HIDE DEF E
    <3> QED BY <1>2, <2>1, <2>4, <2>6, <3>1 DEF Ahead, Held
  <2> QED BY <2>2, <2>5, <2>6
<1>17. CASE ConfirmAndDispatch
  <2>1. /\ pc = "confirming" /\ pc' = "idle" /\ batch' = Empty
        /\ UNCHANGED <<pending, received, highFeed>>
        /\ mark'[s][tf] = Confirmed(mark[s][tf], EmittedIn(emit, s, tf))
    BY <1>17 DEF ConfirmAndDispatch, Goto, Finish
  <2> DEFINE S == EmittedIn(emit, s, tf) \cup {mark[s][tf]}
  <2>2. mark'[s][tf] \in S /\ \A w \in S : w <= mark'[s][tf]
    BY <1>1, <2>1, ConfirmedMark
  <2>3. S \subseteq Int
    BY <1>3, IngestAssumption DEF EmittedIn, Windows
  <2>4. ASSUME mark'[s][tf] # NoMark PROVE highFeed[s][tf] <= mark'[s][tf]
    <3>1. PICK w \in S : highFeed[s][tf] <= w
      BY <1>2, <2>1, <2>2, <2>4
    <3>2. w <= mark'[s][tf] /\ w \in Int /\ mark'[s][tf] \in Int
      BY <2>2, <2>3
    <3> QED BY <1>3, <3>1, <3>2
  <2> HIDE DEF S
  <2> QED BY <1>2, <1>4, <2>1, <2>4 DEF Ahead, Held
<1>18. CASE (\E r \in Known : Backfill(r)) \/ UNCHANGED vars
  BY <1>8, <1>18 DEF Backfill
<1> QED BY <1>9, <1>10, <1>11, <1>12, <1>13, <1>14, <1>15, <1>16, <1>17, <1>18
        DEF Next, FlushStep

\* The strengthening behind the order of the higher timeframes holds in every
\* reachable state.
LEMMA OrderedInvariant == Spec => []OrderedInv
<1>1. Init => HighFeedInv
  BY DEF Init, HighFeedInv, Held, Empty, Range, EachSeries, EmittedIn
<1>2. OrderedInv /\ [Next]_vars => HighFeedInv'
  BY HighFeedStep
<1>3. TypeOK /\ OrderInv /\ BatchDurable /\ EmitInv /\ HighFeedInv <=> OrderedInv
  BY DEF OrderedInv
<1>4. RollUpInv => BatchDurable /\ EmitInv
  BY DEF RollUpInv
<1> QED BY <1>1, <1>2, <1>3, <1>4, OrderInvariant, RollUpInvariant, PTL DEF Spec

\* The mark and the live feed of a higher timeframe never go back: publishing
\* again after a failed publish, a failed confirm or a restart that forgot the
\* marks starts at or above what subscribers have (buffer.py:153-166).
THEOREM HigherTimeframesInOrder == Spec => HigherTFsInOrder
<1>1. OrderedInv /\ [Next]_vars =>
        [\A s \in Symbols, tf \in TargetTFs :
            /\ pc # "down" => mark'[s][tf] >= mark[s][tf]
            /\ highFeed'[s][tf] >= highFeed[s][tf]]_vars
  <2> SUFFICES ASSUME OrderedInv, [Next]_vars, NEW s \in Symbols, NEW tf \in TargetTFs
               PROVE  /\ pc # "down" => mark'[s][tf] >= mark[s][tf]
                      /\ highFeed'[s][tf] >= highFeed[s][tf]
    OBVIOUS
  <2>1. TypeOK
    BY DEF OrderedInv
  <2>2. highFeed[s][tf] \in Int /\ mark[s][tf] \in Int
    BY <2>1, HighFeedTyped
  <2>3. mark[s][tf] <= Confirmed(mark[s][tf], EmittedIn(emit, s, tf))
        /\ Confirmed(mark[s][tf], EmittedIn(emit, s, tf)) \in Int
    <3>1. EmittedIn(emit, s, tf) \subseteq Int
      BY IngestAssumption DEF EmittedIn, Windows
    <3> QED BY <2>1, <2>2, <3>1, ConfirmedMark
  <2>4. pc # "down" => mark'[s][tf] >= mark[s][tf]
    BY <2>1, <2>2, <2>3, OnlyConfirmMoves
  <2>5. highFeed'[s][tf] >= highFeed[s][tf]
    <3> USE DEF vars, memory, services, history
    <3>1. CASE PublishHigher
      BY <3>1, PublishMoves
    <3>2. CASE UNCHANGED highFeed
      BY <2>2, <3>2
    <3>3. PublishHigher \/ UNCHANGED highFeed
      BY DEF Next, FlushStep, Add, TakeBatch, Persist, PersistFails, Requeue, Publish,
             Dispatch, Produce, ProduceFails, CommitHigher, CommitHigherFails,
             GiveUpRollUp, ConfirmAndDispatch, RollbackFails, Shutdown, Drain,
             Crash, Restart, Backfill
    <3> QED BY <3>1, <3>2, <3>3
  <2> QED BY <2>4, <2>5
<1> QED BY <1>1, OrderedInvariant, PTL DEF Spec, HigherTFsInOrder
=============================================================================
