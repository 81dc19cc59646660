------------------------ MODULE AlertWorker_proofs --------------------------
(***************************************************************************)
(* Theorems about module AlertWorker: types, no second message, the limit, *)
(* leaked counters, and what a job that is done has settled, for any       *)
(* number of jobs, subscriptions, users, tries and faults.                 *)
(***************************************************************************)
EXTENDS AlertWorker, TLAPS

\* A job behind the check of the marker has an unmarked subscription in hand.
InHand ==
    \A h \in Hits : pc[h] \in Steps \ {"sub"} => This(h) \notin marks

\* Nobody was messaged but once, or without the marker that would have told.
Sends ==
    \A h \in Hits, i \in SubIds :
        /\ <<h, i>> \in marks => 1 <= sent[<<h, i>>]
        /\ sent[<<h, i>>] <= 1 + unmarked[<<h, i>>]
        /\ <<h, i>> \notin marks /\ ~(pc[h] = "mark" /\ at[h] = i) =>
               sent[<<h, i>>] <= unmarked[<<h, i>>]
        /\ pc[h] = "mark" /\ at[h] = i => 1 <= sent[<<h, i>>]

\* The counter has counted at least what it admitted.
Counted == \A u \in Users : admitted[u] <= count[u] /\ admitted[u] <= Limit

\* A run that has had no failure has settled what it has passed.
PassedIsSettled ==
    \A h \in Hits :
        /\ pc[h] \in Steps /\ ~hadFailure[h] =>
               \A i \in SubIds : i < at[h] => <<h, i>> \in marks \cup skipped
        /\ pc[h] = "done" /\ enabled => \A i \in SubIds : <<h, i>> \in marks \cup skipped

\* A job that was run and is queued again has met a fault.
RetriedForFault ==
    \A h \in Hits :
        /\ hadFailure[h] \/ (pc[h] = "queued" /\ tries[h] > 0) => faults > 0
        /\ pc[h] \in {"gaveup", "failed"} => faults > 0

AlertInv ==
    TypeOK /\ InHand /\ Sends /\ Counted /\ LeakHealsOnNextCall /\ PassedIsSettled
    /\ RetriedForFault

LEMMA InitInv == Init => AlertInv
<1> SUFFICES ASSUME Init PROVE AlertInv
  OBVIOUS
<1> USE AlertAssumption DEF Init
<1>1. TypeOK
  BY DEF TypeOK, Steps, Ended
<1>2. InHand /\ Sends /\ Counted /\ LeakHealsOnNextCall /\ PassedIsSettled /\ RetriedForFault
  BY DEF InHand, Sends, Counted, LeakHealsOnNextCall, PassedIsSettled, RetriedForFault, Steps
<1> QED BY <1>1, <1>2 DEF AlertInv

LEMMA UserTyped ==
    ASSUME TypeOK, NEW h \in Hits, at[h] \in SubIds
    PROVE  User(h) \in Users /\ This(h) \in Hits \X SubIds
BY DEF User, Users, This

\* A counter that goes up stays a counter.
LEMMA OneMore ==
    ASSUME NEW S, NEW f \in [S -> Nat], NEW x \in S
    PROVE  [f EXCEPT ![x] = @ + 1] \in [S -> Nat]
OBVIOUS

\* The loop goes on to the next subscription or behind the last one.
LEMMA NextInRange ==
    ASSUME TypeOK, NEW h \in Hits, at[h] \in SubIds, NextSub(h)
    PROVE  at' \in [Hits -> 1 .. Len(Subs) + 1]
BY AlertAssumption DEF NextSub, SubIds, TypeOK

LEMMA TypeStep ==
    ASSUME TypeOK, [Next]_vars
    PROVE  TypeOK'
<1>1. CASE UNCHANGED vars
  BY <1>1 DEF vars, TypeOK
<1>2. ASSUME NEW h \in Hits, JobStep(h) PROVE TypeOK'
  <2> USE DEF Move
  <2>0. /\ at[h] \in SubIds => User(h) \in Users /\ This(h) \in Hits \X SubIds
        /\ pc[h] \in Steps \ {"sub"} => at[h] \in SubIds
        /\ This(h) \in marks => at[h] \in SubIds
    BY UserTyped DEF TypeOK, This
  <2>1. CASE StartRun(h)
    <3>1. pc' \in [Hits -> {"queued"} \cup Steps \cup Ended]
      BY <2>1 DEF StartRun, TypeOK, Steps, Ended
    <3>2. at' \in [Hits -> 1 .. Len(Subs) + 1] /\ tries' \in [Hits -> 0 .. MaxTries]
      BY <2>1, AlertAssumption DEF StartRun, TypeOK
    <3>3. \A g \in Hits : pc'[g] \in Steps \ {"sub"} => at'[g] \in SubIds
      BY <2>1 DEF StartRun, TypeOK, Steps
    <3> QED BY <2>1, <3>1, <3>2, <3>3 DEF StartRun, TypeOK
  <2>2. CASE GiveUp(h)
    BY <2>2 DEF GiveUp, TypeOK, Steps, Ended
  <2>3. CASE AlreadyDelivered(h)
    <3>1. at' \in [Hits -> 1 .. Len(Subs) + 1]
      BY <2>0, <2>3, NextInRange DEF AlreadyDelivered
    <3> QED BY <2>3, <3>1 DEF AlreadyDelivered, NextSub, TypeOK, Steps
  <2>4. CASE NotDelivered(h)
    BY <2>4 DEF NotDelivered, TypeOK, Steps
  <2>5. CASE Incr(h)
    <3>1. at[h] \in SubIds /\ User(h) \in Users /\ This(h) \in Hits \X SubIds
      BY <2>0, <2>5 DEF Incr, Steps
    <3>2. count' \in [Users -> Nat] /\ admitted' \in [Users -> Nat]
      <4>1. count' = [count EXCEPT ![User(h)] = count[User(h)] + 1]
        BY <2>5 DEF Incr
      <4>2. admitted' = admitted \/ admitted' = [admitted EXCEPT ![User(h)] = admitted[User(h)] + 1]
        BY <2>5 DEF Incr
      <4>3. count \in [Users -> Nat] /\ admitted \in [Users -> Nat]
        BY DEF TypeOK
      <4>4. count' \in [Users -> Nat]
        BY <3>1, <4>1, <4>3
      <4>5. admitted' \in [Users -> Nat]
        BY <3>1, <4>2, <4>3
      <4> QED BY <4>4, <4>5
    <3> QED BY <2>5, <3>1, <3>2 DEF Incr, TypeOK, Steps
  <2>6. CASE Expire(h)
    <3>1. at[h] \in SubIds /\ User(h) \in Users
      BY <2>0, <2>6 DEF Expire, Steps
    <3>2. at' \in [Hits -> 1 .. Len(Subs) + 1]
      BY <2>6, <3>1, NextInRange DEF Expire, TypeOK
    <3>3. ttl' \in [Users -> BOOLEAN] /\ torn' \subseteq Users
      BY <2>6, <3>1 DEF Expire, WithTtl, TypeOK
    <3>4. /\ pc' \in [Hits -> {"queued"} \cup Steps \cup Ended]
          /\ \A g \in Hits : pc'[g] \in Steps \ {"sub"} => at'[g] \in SubIds
      BY <2>6, <3>1 DEF Expire, NextSub, TypeOK, Steps
    <3> QED BY <2>6, <3>2, <3>3, <3>4 DEF Expire, TypeOK
  <2>7. CASE SendOk(h)
    <3>1. sent' \in [Hits \X SubIds -> Nat]
      BY <2>0, <2>7, OneMore DEF SendOk, TypeOK, Steps
    <3> QED BY <2>7, <3>1 DEF SendOk, TypeOK, Steps
  <2>8. CASE SendFails(h)
    <3>1. at[h] \in SubIds /\ This(h) \in Hits \X SubIds
      BY <2>0, <2>8 DEF SendFails, Steps
    <3>2. sent' \in [Hits \X SubIds -> Nat] /\ unmarked' \in [Hits \X SubIds -> Nat]
      <4>1. \/ UNCHANGED <<sent, unmarked>>
            \/ /\ sent' = [sent EXCEPT ![This(h)] = sent[This(h)] + 1]
               /\ unmarked' = [unmarked EXCEPT ![This(h)] = unmarked[This(h)] + 1]
        BY <2>8 DEF SendFails
      <4>2. /\ sent \in [Hits \X SubIds -> Nat] /\ unmarked \in [Hits \X SubIds -> Nat]
            /\ This(h) \in Hits \X SubIds
        BY <3>1 DEF TypeOK
      <4>3. /\ [sent EXCEPT ![This(h)] = sent[This(h)] + 1] \in [Hits \X SubIds -> Nat]
            /\ [unmarked EXCEPT ![This(h)] = unmarked[This(h)] + 1] \in [Hits \X SubIds -> Nat]
        BY <4>2, OneMore
      <4> QED BY <4>1, <4>2, <4>3
    <3>3. at' \in [Hits -> 1 .. Len(Subs) + 1]
      BY <2>8, <3>1, NextInRange DEF SendFails
    <3>4. faults' \in 0 .. MaxFaults
      BY <2>8, AlertAssumption DEF SendFails, Fault, TypeOK
    <3>5. /\ pc' \in [Hits -> {"queued"} \cup Steps \cup Ended]
          /\ \A g \in Hits : pc'[g] \in Steps \ {"sub"} => at'[g] \in SubIds
      BY <2>8 DEF SendFails, NextSub, TypeOK, Steps
    <3> QED BY <2>8, <3>2, <3>3, <3>4, <3>5 DEF SendFails, TypeOK
  <2>9. CASE Mark(h)
    <3>1. at[h] \in SubIds /\ This(h) \in Hits \X SubIds
      BY <2>0, <2>9 DEF Mark, Steps
    <3>2. at' \in [Hits -> 1 .. Len(Subs) + 1]
      BY <2>9, <3>1, NextInRange DEF Mark
    <3>3. /\ pc' \in [Hits -> {"queued"} \cup Steps \cup Ended]
          /\ \A g \in Hits : pc'[g] \in Steps \ {"sub"} => at'[g] \in SubIds
      BY <2>9 DEF Mark, NextSub, TypeOK, Steps
    <3> QED BY <2>9, <3>1, <3>2, <3>3 DEF Mark, TypeOK
  <2>10. CASE EndRun(h)
    BY <2>10 DEF EndRun, TypeOK, Steps, Ended
  <2> QED BY <1>2, <2>1, <2>2, <2>3, <2>4, <2>5, <2>6, <2>7, <2>8, <2>9, <2>10 DEF JobStep
<1>3. ASSUME NEW h \in Hits, CallFails(h) \/ Interrupt(h) PROVE TypeOK'
  <2>1. pc[h] \in Steps \ {"sub"} => User(h) \in Users /\ This(h) \in Hits \X SubIds
    BY UserTyped DEF TypeOK
  <2>2. StopAt(h)
    BY <1>3 DEF CallFails, Interrupt
  <2>3. torn' \subseteq Users
    BY <2>1, <2>2 DEF StopAt, Steps, TypeOK
  <2>4. unmarked' \in [Hits \X SubIds -> Nat]
    BY <2>1, <2>2, OneMore DEF StopAt, Steps, TypeOK
  <2>5. faults' \in 0 .. MaxFaults
    BY <1>3, AlertAssumption DEF CallFails, Interrupt, Fault, TypeOK
  <2>6. /\ pc' \in [Hits -> {"queued"} \cup Steps \cup Ended] /\ UNCHANGED at
        /\ \A g \in Hits : pc'[g] \in Steps \ {"sub"} => at'[g] \in SubIds
    BY <1>3 DEF CallFails, Interrupt, TypeOK, Steps, Ended
  <2> QED BY <1>3, <2>3, <2>4, <2>5, <2>6 DEF CallFails, Interrupt, TypeOK
<1>4. ASSUME NEW u \in Users, WindowEnds(u) PROVE TypeOK'
  BY <1>4, AlertAssumption DEF WindowEnds, TypeOK
<1>5. CASE DisableRule
  <2>1. faults' \in 0 .. MaxFaults
    BY <1>5, AlertAssumption DEF DisableRule, Fault, TypeOK
  <2>2. enabled' \in BOOLEAN
    BY <1>5, Zenon DEF DisableRule
  <2> QED BY <1>5, <2>1, <2>2 DEF DisableRule, TypeOK
<1> QED BY <1>1, <1>2, <1>3, <1>4, <1>5 DEF Next

\* What one job does leaves the places of the others alone.
OthersKeep(h) ==
    \A g \in Hits \ {h} : pc'[g] = pc[g] /\ at'[g] = at[g] /\ This(g)' = This(g)

LEMMA JobAlone ==
    ASSUME TypeOK, NEW h \in Hits, JobStep(h) \/ CallFails(h) \/ Interrupt(h)
    PROVE  OthersKeep(h)
<1>1. \A g \in Hits \ {h} : pc'[g] = pc[g]
  BY DEF JobStep, StartRun, GiveUp, AlreadyDelivered, NotDelivered, Incr, Expire, SendOk,
     SendFails, Mark, EndRun, CallFails, Interrupt, Move, TypeOK
<1>2. \A g \in Hits \ {h} : at'[g] = at[g]
  BY DEF JobStep, StartRun, GiveUp, AlreadyDelivered, NotDelivered, Incr, Expire, SendOk,
     SendFails, Mark, EndRun, CallFails, Interrupt, Move, NextSub, TypeOK
<1> QED BY <1>1, <1>2 DEF OthersKeep, This

LEMMA InHandStep ==
    ASSUME TypeOK, InHand, [Next]_vars
    PROVE  InHand'
<1>1. CASE UNCHANGED vars \/ DisableRule \/ \E u \in Users : WindowEnds(u)
  BY <1>1 DEF vars, DisableRule, WindowEnds, InHand, This
<1>2. ASSUME NEW h \in Hits, JobStep(h) \/ CallFails(h) \/ Interrupt(h) PROVE InHand'
  <2>1. OthersKeep(h)
    BY <1>2, JobAlone
  <2>2. marks' = marks \/ (marks' = marks \cup {This(h)} /\ Mark(h))
    BY <1>2 DEF JobStep, StartRun, GiveUp, AlreadyDelivered, NotDelivered, Incr, Expire,
       SendOk, SendFails, Mark, EndRun, CallFails, Interrupt
  <2>3. \A g \in Hits \ {h} : This(g) # This(h)
    BY DEF This
  <2>4. \A g \in Hits \ {h} : pc'[g] \in Steps \ {"sub"} => This(g)' \notin marks'
    BY <2>1, <2>2, <2>3 DEF InHand, OthersKeep
  <2>5. pc'[h] \in Steps \ {"sub"} =>
            /\ pc[h] \in Steps \ {"sub"} \/ This(h) \notin marks
            /\ at'[h] = at[h] /\ marks' = marks
    BY <1>2 DEF JobStep, StartRun, GiveUp, AlreadyDelivered, NotDelivered, Incr, Expire,
       SendOk, SendFails, Mark, EndRun, CallFails, Interrupt, Move, TypeOK, Steps, Ended
  <2>6. pc'[h] \in Steps \ {"sub"} => This(h)' \notin marks'
    BY <2>5 DEF InHand, This
  <2> QED BY <2>4, <2>6 DEF InHand
<1> QED BY <1>1, <1>2 DEF Next

\* What Sends says of one subscription: m, it is marked; n messages, k of them
\* unmarked; b, its job is about to mark it.
Fine(m, n, k, b) ==
    /\ m => 1 <= n
    /\ n <= 1 + k
    /\ ~m /\ ~b => n <= k
    /\ b => 1 <= n

LEMMA SendsStep ==
    ASSUME TypeOK, InHand, Sends, [Next]_vars
    PROVE  Sends'
<1>1. CASE UNCHANGED vars \/ DisableRule \/ \E u \in Users : WindowEnds(u)
  BY <1>1 DEF vars, DisableRule, WindowEnds, Sends
<1>2. ASSUME NEW h \in Hits, JobStep(h) \/ CallFails(h) \/ Interrupt(h),
             NEW g \in Hits, NEW i \in SubIds
      PROVE  Fine(<<g, i>> \in marks', sent'[<<g, i>>], unmarked'[<<g, i>>],
                  pc'[g] = "mark" /\ at'[g] = i)
  <2>1. PICK x \in Hits \X SubIds : x = <<g, i>>
    OBVIOUS
  <2>2. Fine(x \in marks, sent[x], unmarked[x], pc[g] = "mark" /\ at[g] = i)
    BY <2>1 DEF Sends, Fine
  <2>3. sent[x] \in Nat /\ unmarked[x] \in Nat
    BY DEF TypeOK
  <2>4. CASE x # This(h)
    <3>1. sent'[x] = sent[x] /\ unmarked'[x] = unmarked[x] /\ (x \in marks' <=> x \in marks)
      BY <1>2, <2>4 DEF JobStep, StartRun, GiveUp, AlreadyDelivered, NotDelivered, Incr,
         Expire, SendOk, SendFails, Mark, EndRun, CallFails, Interrupt, StopAt, TypeOK
    <3>2. g # h => pc'[g] = pc[g] /\ at'[g] = at[g]
      BY <1>2, JobAlone DEF OthersKeep
    <3>3. g = h => i # at[h]
      BY <2>1, <2>4 DEF This
    <3>4. g = h => ~(pc[g] = "mark" /\ at[g] = i) /\ ~(pc'[g] = "mark" /\ at'[g] = i)
      BY <1>2, <3>3 DEF JobStep, StartRun, GiveUp, AlreadyDelivered, NotDelivered, Incr, Expire,
         SendOk, SendFails, Mark, EndRun, CallFails, Interrupt, Move, TypeOK, Steps
    <3>5. (pc'[g] = "mark" /\ at'[g] = i) <=> (pc[g] = "mark" /\ at[g] = i)
      BY <3>2, <3>4
    <3> QED BY <2>1, <2>2, <3>1, <3>5 DEF Fine
  <2>5. CASE x = This(h)
    <3>1. g = h /\ i = at[h]
      BY <2>1, <2>5 DEF This
    <3>2. Fine(x \in marks, sent[x], unmarked[x], pc[h] = "mark")
      BY <2>2, <3>1
    <3>3. SUFFICES Fine(x \in marks', sent'[x], unmarked'[x], pc'[h] = "mark" /\ at'[h] = at[h])
      BY <2>1, <3>1
    <3>4. CASE SendOk(h)
      <4>1. /\ pc[h] = "send" /\ x \notin marks /\ x \notin marks'
            /\ unmarked'[x] = unmarked[x] /\ sent'[x] = sent[x] + 1
            /\ pc'[h] = "mark" /\ at'[h] = at[h]
        BY <2>5, <3>4 DEF SendOk, Move, InHand, Steps, TypeOK
      <4> QED BY <2>3, <3>2, <4>1 DEF Fine
    <3>5. CASE SendFails(h)
      <4>1. pc[h] = "send" /\ pc'[h] = "sub" /\ x \notin marks /\ x \notin marks'
        BY <2>5, <3>5 DEF SendFails, Move, InHand, Steps, TypeOK
      <4>2. \/ sent'[x] = sent[x] /\ unmarked'[x] = unmarked[x]
            \/ sent'[x] = sent[x] + 1 /\ unmarked'[x] = unmarked[x] + 1
        BY <2>5, <3>5 DEF SendFails, TypeOK
      <4> QED BY <2>3, <3>2, <4>1, <4>2 DEF Fine
    <3>6. CASE Mark(h)
      <4>1. /\ pc[h] = "mark" /\ pc'[h] = "sub" /\ x \in marks'
            /\ sent' = sent /\ unmarked' = unmarked
        BY <2>5, <3>6 DEF Mark, Move, TypeOK
      <4> QED BY <2>3, <3>2, <4>1 DEF Fine
    <3>7. CASE CallFails(h) \/ Interrupt(h)
      <4>1. /\ pc'[h] # "mark" /\ marks' = marks /\ sent' = sent
            /\ unmarked'[x] = IF pc[h] = "mark" THEN unmarked[x] + 1 ELSE unmarked[x]
        BY <2>5, <3>7 DEF CallFails, Interrupt, StopAt, TypeOK
      <4> QED BY <2>3, <3>2, <4>1 DEF Fine
    <3>8. CASE \/ StartRun(h) \/ GiveUp(h) \/ AlreadyDelivered(h) \/ NotDelivered(h)
               \/ Incr(h) \/ Expire(h) \/ EndRun(h)
      <4>1. /\ pc[h] # "mark" /\ pc'[h] # "mark"
            /\ marks' = marks /\ sent' = sent /\ unmarked' = unmarked
        BY <3>8 DEF StartRun, GiveUp, AlreadyDelivered, NotDelivered, Incr, Expire, EndRun,
           Move, TypeOK
      <4> QED BY <3>2, <4>1 DEF Fine
    <3> QED BY <1>2, <3>4, <3>5, <3>6, <3>7, <3>8 DEF JobStep
  <2> QED BY <2>4, <2>5
<1>3. ASSUME NEW h \in Hits, JobStep(h) \/ CallFails(h) \/ Interrupt(h) PROVE Sends'
  <2>1. \A g \in Hits, i \in SubIds :
            Fine(<<g, i>> \in marks', sent'[<<g, i>>], unmarked'[<<g, i>>],
                 pc'[g] = "mark" /\ at'[g] = i)
    BY <1>2, <1>3
  <2> QED BY <2>1 DEF Sends, Fine
<1> QED BY <1>1, <1>3 DEF Next

\* INCR admits only while the counter it answers with is within the limit.
LEMMA CountedStep ==
    ASSUME TypeOK, Counted, [Next]_vars
    PROVE  Counted'
<1>1. ASSUME NEW u \in Users, count'[u] = count[u], admitted'[u] = admitted[u]
      PROVE  admitted'[u] <= count'[u] /\ admitted'[u] <= Limit
  BY <1>1 DEF Counted
<1>2. CASE UNCHANGED <<count, admitted>>
  BY <1>2 DEF Counted
<1>3. ASSUME NEW h \in Hits, Incr(h) PROVE Counted'
  <2>1. at[h] \in SubIds
    BY <1>3 DEF Incr, TypeOK, Steps
  <2>2. PICK v \in Users : v = User(h)
    BY <2>1, UserTyped
  <2>3. ASSUME NEW u \in Users PROVE admitted'[u] <= count'[u] /\ admitted'[u] <= Limit
    <3>1. CASE u # v
      BY <1>1, <1>3, <2>2, <3>1 DEF Incr, TypeOK
    <3>2. CASE u = v
      <4>1. count'[v] = count[v] + 1
        BY <1>3, <2>2 DEF Incr, TypeOK
      <4>2. \/ admitted'[v] = admitted[v]
            \/ admitted'[v] = admitted[v] + 1 /\ count[v] + 1 <= Limit
        BY <1>3, <2>2 DEF Incr, Allowed, TypeOK
      <4>3. /\ count[v] \in Nat /\ admitted[v] \in Nat /\ Limit \in Nat
            /\ admitted[v] <= count[v] /\ admitted[v] <= Limit
        BY AlertAssumption DEF TypeOK, Counted
      <4> QED BY <3>2, <4>1, <4>2, <4>3
    <3> QED BY <3>1, <3>2
  <2> QED BY <2>3 DEF Counted
<1>4. ASSUME NEW v \in Users, WindowEnds(v) PROVE Counted'
  <2>1. count'[v] = 0 /\ admitted'[v] = 0 /\ 0 <= Limit
    BY <1>4, AlertAssumption DEF WindowEnds, TypeOK
  <2>2. \A u \in Users \ {v} : count'[u] = count[u] /\ admitted'[u] = admitted[u]
    BY <1>4 DEF WindowEnds, TypeOK
  <2>3. ASSUME NEW u \in Users PROVE admitted'[u] <= count'[u] /\ admitted'[u] <= Limit
    <3>1. CASE u = v
      BY <2>1, <3>1
    <3>2. CASE u # v
      BY <1>1, <2>2, <3>2
    <3> QED BY <3>1, <3>2
  <2> QED BY <2>3 DEF Counted
<1>5. ASSUME NEW h \in Hits, JobStep(h) \/ CallFails(h) \/ Interrupt(h), ~Incr(h)
      PROVE  UNCHANGED <<count, admitted>>
  BY <1>5 DEF JobStep, StartRun, GiveUp, AlreadyDelivered, NotDelivered, Expire, SendOk,
     SendFails, Mark, EndRun, CallFails, Interrupt
<1>6. CASE UNCHANGED vars \/ DisableRule
  BY <1>2, <1>6 DEF vars, DisableRule
<1> QED BY <1>2, <1>3, <1>4, <1>5, <1>6 DEF Next

\* Only the step to the next subscription or out of the run ends "expire".
LEMMA LeakStep ==
    ASSUME TypeOK, LeakHealsOnNextCall, [Next]_vars
    PROVE  LeakHealsOnNextCall'
<1> DEFINE Between(h, u) == pc[h] = "expire" /\ User(h) = u
           Told(u) == u \in torn \/ \E h \in Hits : Between(h, u)
<1>1. CASE UNCHANGED vars \/ DisableRule
  BY <1>1 DEF vars, DisableRule, LeakHealsOnNextCall, User
<1>2. ASSUME NEW v \in Users, WindowEnds(v) PROVE LeakHealsOnNextCall'
  BY <1>2 DEF WindowEnds, LeakHealsOnNextCall, User, TypeOK
<1>3. ASSUME NEW h \in Hits, JobStep(h) \/ CallFails(h) \/ Interrupt(h) PROVE LeakHealsOnNextCall'
  <2>1. \A g \in Hits \ {h}, u \in Users : Between(g, u) => Between(g, u)'
    BY <1>3, JobAlone DEF OthersKeep, User
  <2>2. CASE Incr(h)
    <3>1. Between(h, User(h))' /\ User(h)' = User(h)
      BY <2>2 DEF Incr, User, TypeOK
    <3>2. \A u \in Users \ {User(h)} : count'[u] = count[u] /\ ttl'[u] = ttl[u]
      BY <2>2 DEF Incr, TypeOK
    <3>3. \A u \in Users : u \in torn => u \in torn'
      BY <2>2 DEF Incr
    <3>4. \A u \in Users : ~Between(h, u)
      BY <2>2 DEF Incr
    <3>5. ASSUME NEW u \in Users, count'[u] > 0, ~ttl'[u]
          PROVE  u \in torn' \/ \E g \in Hits : Between(g, u)'
      <4>1. CASE u = User(h)
        BY <3>1, <4>1
      <4>2. CASE u # User(h)
        <5>1. Told(u)
          BY <3>2, <3>5, <4>2 DEF LeakHealsOnNextCall
        <5> QED BY <2>1, <3>3, <3>4, <5>1
      <4> QED BY <4>1, <4>2
    <3> QED BY <3>5 DEF LeakHealsOnNextCall
  <2>3. CASE Expire(h)
    <3>1. at[h] \in SubIds /\ User(h) \in Users
      BY <2>3, UserTyped DEF Expire, TypeOK, Steps
    <3>2. PICK v \in Users : v = User(h)
      BY <3>1
    <3>3. count' = count /\ (count[v] > 0 => ttl'[v])
      BY <2>3, <3>2 DEF Expire, WithTtl, TypeOK
    <3>4. \A u \in Users \ {v} : (ttl'[u] <=> ttl[u]) /\ (u \in torn => u \in torn') /\ ~Between(h, u)
      BY <2>3, <3>2 DEF Expire, WithTtl, TypeOK
    <3>5. ASSUME NEW u \in Users, count'[u] > 0, ~ttl'[u]
          PROVE  u \in torn' \/ \E g \in Hits : Between(g, u)'
      <4>1. u # v
        BY <3>3, <3>5
      <4>2. Told(u)
        BY <3>3, <3>4, <3>5, <4>1 DEF LeakHealsOnNextCall
      <4> QED BY <2>1, <3>4, <4>1, <4>2
    <3> QED BY <3>5 DEF LeakHealsOnNextCall
  <2>4. CASE CallFails(h) \/ Interrupt(h)
    <3>1. count' = count /\ ttl' = ttl
      BY <2>4 DEF CallFails, Interrupt
    <3>2. \A u \in Users : (u \in torn => u \in torn') /\ (Between(h, u) => u \in torn')
      BY <2>4 DEF CallFails, Interrupt, StopAt
    <3>3. ASSUME NEW u \in Users, count'[u] > 0, ~ttl'[u]
          PROVE  u \in torn' \/ \E g \in Hits : Between(g, u)'
      <4>1. Told(u)
        BY <3>1, <3>3 DEF LeakHealsOnNextCall
      <4> QED BY <2>1, <3>2, <4>1
    <3> QED BY <3>3 DEF LeakHealsOnNextCall
  <2>5. CASE \/ StartRun(h) \/ GiveUp(h) \/ AlreadyDelivered(h) \/ NotDelivered(h)
             \/ SendOk(h) \/ SendFails(h) \/ Mark(h) \/ EndRun(h)
    <3>1. count' = count /\ ttl' = ttl /\ torn' = torn /\ pc[h] # "expire"
      BY <2>5 DEF StartRun, GiveUp, AlreadyDelivered, NotDelivered, SendOk, SendFails, Mark,
         EndRun, Move
    <3>2. ASSUME NEW u \in Users, count'[u] > 0, ~ttl'[u]
          PROVE  u \in torn' \/ \E g \in Hits : Between(g, u)'
      <4>1. Told(u)
        BY <3>1, <3>2 DEF LeakHealsOnNextCall
      <4> QED BY <2>1, <3>1, <4>1
    <3> QED BY <3>2 DEF LeakHealsOnNextCall
  <2> QED BY <1>3, <2>2, <2>3, <2>4, <2>5 DEF JobStep
<1> QED BY <1>1, <1>2, <1>3 DEF Next

\* The loop moves on from a subscription it has marked or skipped, or sets the
\* flag of a failure; only a new run forgets what was skipped.
LEMMA PassedStep ==
    ASSUME TypeOK, PassedIsSettled, [Next]_vars
    PROVE  PassedIsSettled'
<1> DEFINE Past(g) == pc[g] \in Steps /\ ~hadFailure[g] =>
                          \A i \in SubIds : i < at[g] => <<g, i>> \in marks \cup skipped
           Through(g) == pc[g] = "done" /\ enabled => \A i \in SubIds : <<g, i>> \in marks \cup skipped
<1>0. \A g \in Hits : Past(g) /\ Through(g)
  BY DEF PassedIsSettled
<1>1. CASE UNCHANGED vars \/ DisableRule \/ \E u \in Users : WindowEnds(u)
  BY <1>1 DEF vars, DisableRule, WindowEnds, PassedIsSettled
<1>2. ASSUME NEW h \in Hits, JobStep(h) \/ CallFails(h) \/ Interrupt(h) PROVE PassedIsSettled'
  <2>1. /\ OthersKeep(h)
        /\ \A g \in Hits \ {h} : hadFailure'[g] = hadFailure[g]
        /\ enabled' = enabled
    BY <1>2, JobAlone DEF JobStep, StartRun, GiveUp, AlreadyDelivered, NotDelivered, Incr,
       Expire, SendOk, SendFails, Mark, EndRun, CallFails, Interrupt, TypeOK
  <2>2. /\ marks \subseteq marks'
        /\ \A x \in skipped : x[1] # h => x \in skipped'
        /\ ~StartRun(h) => skipped \subseteq skipped'
    BY <1>2 DEF JobStep, StartRun, GiveUp, AlreadyDelivered, NotDelivered, Incr,
       Expire, SendOk, SendFails, Mark, EndRun, CallFails, Interrupt
  <2>3. \A g \in Hits \ {h} : Past(g)' /\ Through(g)'
    <3>1. \A g \in Hits \ {h}, i \in SubIds :
              <<g, i>> \in marks \cup skipped => <<g, i>> \in marks' \cup skipped'
      BY <2>2
    <3> QED BY <1>0, <2>1, <3>1 DEF OthersKeep
  <2>4. Past(h)' /\ Through(h)'
    <3>1. CASE StartRun(h)
      <4>1. at'[h] = 1 /\ pc'[h] = (IF enabled THEN "sub" ELSE "done")
        BY <3>1 DEF StartRun, TypeOK
      <4>2. Past(h)'
        BY <4>1 DEF SubIds
      <4>3. Through(h)'
        BY <2>1, <4>1
      <4> QED BY <4>2, <4>3
    <3>2. CASE \/ pc'[h] = "queued" \/ pc'[h] = "failed" \/ pc'[h] = "gaveup"
      BY <3>2 DEF Steps
    <3>3. CASE EndRun(h)
      <4>1. /\ pc[h] = "sub" /\ at[h] = Len(Subs) + 1 /\ marks' = marks /\ skipped' = skipped
            /\ pc'[h] = "queued" \/ (pc'[h] = "done" /\ ~hadFailure[h])
        BY <3>3 DEF EndRun, TypeOK
      <4>2. ~hadFailure[h] => \A i \in SubIds : <<h, i>> \in marks \cup skipped
        BY <1>0, <4>1, AlertAssumption DEF Steps, SubIds
      <4> QED BY <4>1, <4>2 DEF Steps
    <3>4. CASE \/ NotDelivered(h) \/ Incr(h) \/ SendOk(h)
               \/ (Expire(h) /\ This(h) \notin skipped)
      <4>1. /\ pc[h] \in Steps /\ pc'[h] # "done" /\ at'[h] = at[h]
            /\ hadFailure'[h] = hadFailure[h] /\ skipped \subseteq skipped'
        BY <3>4 DEF NotDelivered, Incr, SendOk, Expire, Move, TypeOK, Steps
      <4> QED BY <1>0, <2>2, <4>1
    <3>5. CASE \/ AlreadyDelivered(h) \/ Mark(h) \/ (Expire(h) /\ This(h) \in skipped)
      <4>1. /\ pc[h] \in Steps /\ pc'[h] # "done" /\ at'[h] = at[h] + 1
            /\ hadFailure'[h] = hadFailure[h] /\ skipped \subseteq skipped'
            /\ This(h) \in marks' \cup skipped'
        BY <3>5 DEF AlreadyDelivered, Mark, Expire, Move, NextSub, TypeOK, Steps
      <4>2. \A i \in SubIds : i < at'[h] => i < at[h] \/ i = at[h]
        BY <4>1 DEF SubIds, TypeOK
      <4>3. ~hadFailure'[h] => \A i \in SubIds : i < at'[h] => <<h, i>> \in marks' \cup skipped'
        BY <1>0, <2>2, <4>1, <4>2 DEF This
      <4> QED BY <4>1, <4>3
    <3>6. CASE SendFails(h)
      BY <3>6 DEF SendFails, Move, TypeOK
    <3> QED
      <4>1. \/ StartRun(h) \/ EndRun(h) \/ NotDelivered(h) \/ Incr(h) \/ SendOk(h)
            \/ Expire(h) \/ AlreadyDelivered(h) \/ Mark(h) \/ SendFails(h)
            \/ pc'[h] = "queued" \/ pc'[h] = "failed" \/ pc'[h] = "gaveup"
        BY <1>2 DEF JobStep, GiveUp, CallFails, Interrupt, Move, TypeOK
      <4> QED BY <3>1, <3>2, <3>3, <3>4, <3>5, <3>6, <4>1
  <2> QED BY <2>3, <2>4 DEF PassedIsSettled
<1> QED BY <1>1, <1>2 DEF Next

LEMMA RetriedStep ==
    ASSUME TypeOK, RetriedForFault, [Next]_vars
    PROVE  RetriedForFault'
<1>0. faults \in Nat /\ \A g \in Hits : tries[g] \in Nat
  BY AlertAssumption DEF TypeOK
<1>1. CASE UNCHANGED vars \/ DisableRule \/ \E u \in Users : WindowEnds(u)
  BY <1>0, <1>1 DEF vars, DisableRule, WindowEnds, Fault, RetriedForFault
<1>2. ASSUME NEW h \in Hits, JobStep(h) \/ CallFails(h) \/ Interrupt(h) PROVE RetriedForFault'
  <2>1. CASE faults' = faults + 1
    <3>1. faults' > 0
      BY <1>0, <2>1
    <3> QED BY <3>1 DEF RetriedForFault
  <2>2. CASE faults' = faults
    <3>1. ~SendFails(h) /\ ~CallFails(h) /\ ~Interrupt(h)
      BY <1>0, <2>2 DEF SendFails, CallFails, Interrupt, Fault
    <3>2. \A g \in Hits \ {h} :
              pc'[g] = pc[g] /\ tries'[g] = tries[g] /\ hadFailure'[g] = hadFailure[g]
      BY <1>2, <3>1, JobAlone DEF OthersKeep, JobStep, StartRun, GiveUp, AlreadyDelivered,
         NotDelivered, Incr, Expire, SendOk, Mark, EndRun, TypeOK
    <3>3. /\ hadFailure'[h] => hadFailure[h]
          /\ pc'[h] = "queued" => hadFailure[h]
          /\ pc'[h] \in {"gaveup", "failed"} => pc[h] = "queued" /\ tries[h] > 0
      BY <1>2, <3>1, AlertAssumption DEF JobStep, StartRun, GiveUp, AlreadyDelivered,
         NotDelivered, Incr, Expire, SendOk, Mark, EndRun, Move, TypeOK
    <3> QED BY <2>2, <3>2, <3>3 DEF RetriedForFault
  <2> QED
    <3>1. faults' = faults \/ faults' = faults + 1
      BY <1>2 DEF JobStep, StartRun, GiveUp, AlreadyDelivered, NotDelivered, Incr, Expire,
         SendOk, SendFails, Mark, EndRun, CallFails, Interrupt, Fault
    <3> QED BY <2>1, <2>2, <3>1
<1> QED BY <1>1, <1>2 DEF Next

LEMMA Invariant == Spec => []AlertInv
<1>1. AlertInv /\ [Next]_vars => AlertInv'
  BY TypeStep, InHandStep, SendsStep, CountedStep, LeakStep, PassedStep, RetriedStep DEF AlertInv
<1> QED BY InitInv, <1>1, PTL DEF Spec

\* The state of the alert jobs, the markers and the counters stays well-typed:
\* behind the loop's head a job always has a subscription (workers/alert_worker.py:88-91).
THEOREM TypeCorrect == Spec => []TypeOK
<1>1. AlertInv => TypeOK
  BY DEF AlertInv
<1> QED BY Invariant, <1>1, PTL

\* alert_worker.py:29-31: a retried job does not message a subscriber again,
\* except for messages that arrived and could not be marked.
THEOREM NobodyMessagedTwice == Spec => []NotSentTwice
<1>1. AlertInv => NotSentTwice
  <2> SUFFICES ASSUME AlertInv, NEW h \in Hits, NEW i \in SubIds
               PROVE  /\ sent[<<h, i>>] <= 1 + unmarked[<<h, i>>]
                      /\ <<h, i>> \in marks => sent[<<h, i>>] >= 1
    BY DEF NotSentTwice
  <2>1. /\ <<h, i>> \in marks => 1 <= sent[<<h, i>>]
        /\ sent[<<h, i>>] <= 1 + unmarked[<<h, i>>]
        /\ sent[<<h, i>>] \in Nat
    BY DEF AlertInv, Sends, TypeOK
  <2> QED BY <2>1
<1> QED BY Invariant, <1>1, PTL

\* Any number of concurrent jobs admit at most Limit sends of a user while his
\* counter lives (rate_limit.py:20-24).
THEOREM LimitIsKept == Spec => []WithinLimit
<1>1. AlertInv => WithinLimit
  BY DEF AlertInv, Counted, WithinLimit
<1> QED BY Invariant, <1>1, PTL

\* A counter lacks a TTL only between INCR and EXPIRE, or where a job stopped
\* there and no request came since (rate_limit.py:20-24).
THEOREM LeakedCounterHeals == Spec => []LeakHealsOnNextCall
<1>1. AlertInv => LeakHealsOnNextCall
  BY DEF AlertInv
<1> QED BY Invariant, <1>1, PTL

\* alert_worker.py:114-124: a job that is done has delivered to, or skipped for
\* the limit, every subscription, and one that is not met a fault.
THEOREM DoneIsSettled == Spec => [](DoneMeansSettled /\ DoneWithoutFaults)
<1>1. AlertInv => DoneMeansSettled /\ DoneWithoutFaults
  BY DEF AlertInv, PassedIsSettled, RetriedForFault, DoneMeansSettled, Settled, DoneWithoutFaults
<1> QED BY Invariant, <1>1, PTL
=============================================================================
