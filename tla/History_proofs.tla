--------------------------- MODULE History_proofs ---------------------------
(***************************************************************************)
(* Theorems about module History and the modules below it: which rows a    *)
(* model is fitted and tried on and what its labels look at, the gaps a    *)
(* sweep finds, what the presets emit, the walk that resolves signals into *)
(* trades, the statistics of these, and what scanner rules come to.        *)
(***************************************************************************)
EXTENDS RuleHistory, FiniteSetTheorems, WellFoundedInduction, TLAPS

\* Rows keep the order of the bars they were made from, at most one per bar.
InBarOrder(at, n) ==
    /\ at \in [1 .. n -> Nat]
    /\ \A i, j \in 1 .. n : i < j => at[j] - at[i] >= j - i

\* A row is tried on at least a purge of rows after the last it is fitted on.
LEMMA PurgedApart ==
    ASSUME NEW k \in Nat, NEW i \in TrainRows(k), NEW j \in TestRows(k)
    PROVE  /\ i \in Nat /\ j \in Nat /\ i >= 1
           /\ j - i > Purge
<1>1. k * TestSize \in Nat
  BY SplitterAssumption
<1> QED BY <1>1, SplitterAssumption DEF TrainRows, TestRows, TestStart, TestEnd, train_end

\* train.py:86-88, leakage.py:33-58: whichever bars lost their row, no label of
\* a training row looks as far as a bar of its fold's test rows, provided the
\* purge is accepted.
THEOREM AcceptedPurgeHoldsOut ==
    ASSUME PurgeAccepted, NEW n \in Nat, NEW at, InBarOrder(at, n),
           NEW k \in Nat, TestEnd(k) <= n
    PROVE  NoLeak(at, k)
<1> SUFFICES ASSUME NEW i \in TrainRows(k), NEW j \in TestRows(k)
             PROVE  at[i] + Horizon < at[j]
  BY DEF NoLeak
<1>1. i \in Nat /\ j \in Nat /\ i >= 1 /\ j - i > Purge
  BY PurgedApart
<1>2. k * TestSize \in Nat
  BY SplitterAssumption
<1>3. j <= TestEnd(k) /\ TestEnd(k) \in Nat
  BY <1>2, SplitterAssumption DEF TestRows, TestStart, TestEnd, train_end
<1>4. i \in 1 .. n /\ j \in 1 .. n /\ i < j
  BY <1>1, <1>3, SplitterAssumption
<1>5. at[i] \in Nat /\ at[j] \in Nat /\ at[j] - at[i] >= j - i
  BY <1>4 DEF InBarOrder
<1> QED BY <1>1, <1>5, SplitterAssumption DEF PurgeAccepted

\* splitter.py:7-30: the test rows of two folds are disjoint, so that a row has
\* one out-of-fold prediction.
THEOREM TestRowsDisjoint ==
    ASSUME NEW j \in Nat, NEW k \in Nat, j < k
    PROVE  TestRows(j) \cap TestRows(k) = {}
<1>1. j * TestSize \in Nat /\ k * TestSize \in Nat /\ (k - j) * TestSize \in Nat
  BY SplitterAssumption
<1>2. k * TestSize = j * TestSize + (k - j) * TestSize
  BY SplitterAssumption
<1>3. (k - j) * TestSize >= TestSize
  BY SplitterAssumption
<1> QED BY <1>1, <1>2, <1>3, SplitterAssumption DEF TestRows, TestStart, TestEnd, train_end
-----------------------------------------------------------------------------
(* The gaps a sweep finds.                                                  *)

\* A set of naturals has a least one.
LEMMA LeastOf ==
    ASSUME NEW T \in SUBSET Nat, T # {}
    PROVE  \E x \in T : \A y \in T : x <= y
<1> DEFINE R == {p \in Nat \X Nat : p[1] < p[2]}
<1>1. IsWellFoundedOn(R, Nat)
  BY NatLessThanWellFounded DEF OpToRel
<1>2. PICK x \in T : \A y \in T : ~(<<y, x>> \in R)
  <2> HIDE DEF R
  <2> QED BY <1>1, WFMin
<1>3. ASSUME NEW y \in T PROVE x <= y
  <2>1. ~(<<y, x>> \in R) /\ <<y, x>> \in Nat \X Nat
    BY <1>2
  <2>2. <<y, x>>[1] = y /\ <<y, x>>[2] = x
    OBVIOUS
  <2> QED BY <2>1, <2>2
<1> QED BY <1>3

\* The whole part of a quotient.
LEMMA QuotientIsNat ==
    ASSUME NEW x \in Nat, NEW y \in Nat \ {0}
    PROVE  x \div y \in Nat
OBVIOUS

\* A quotient of what lies between multiples.
LEMMA QuotientBetween ==
    ASSUME NEW v \in Int, NEW p \in Nat \ {0}, NEW lo \in Int, NEW hi \in Int,
           p * lo <= v, v <= p * hi
    PROVE  v \div p \in Int /\ lo <= v \div p /\ v \div p <= hi
<1>1. PICK q \in Int : q = v \div p
  OBVIOUS
<1>2. p * q <= v /\ v < p * q + p
  BY <1>1
<1>3. ASSUME q < lo PROVE FALSE
  <2>1. PICK d \in Nat : lo = q + 1 + d
    <3>1. lo - q - 1 \in Nat /\ lo = q + 1 + (lo - q - 1)
      BY <1>3
    <3> QED BY <3>1
  <2>2. p * lo = p * q + p + p * d /\ p * d \in Nat
    BY <2>1
  <2> QED BY <1>2, <2>2
<1>4. ASSUME hi < q PROVE FALSE
  <2>1. PICK d \in Nat : q = hi + 1 + d
    <3>1. q - hi - 1 \in Nat /\ q = hi + 1 + (q - hi - 1)
      BY <1>4
    <3> QED BY <3>1
  <2>2. p * q = p * hi + p + p * d /\ p * d \in Nat
    BY <2>1
  <2> QED BY <1>2, <2>2
<1> QED BY <1>1, <1>3, <1>4

\* Times of bars are apart as the bars are.
LEMMA TicksInOrder ==
    ASSUME NEW a \in Int, NEW b \in Int
    PROVE  /\ a * Step \in Int /\ b * Step \in Int
           /\ (a + b) * Step = a * Step + b * Step /\ (a - b) * Step = a * Step - b * Step
           /\ a < b <=> a * Step < b * Step
           /\ a <= b <=> a * Step <= b * Step
<1>1. Step \in Nat \ {0}
  BY HistoryAssumption
<1>2. \A x, y \in Int : x < y => x * Step < y * Step
  <2> SUFFICES ASSUME NEW x \in Int, NEW y \in Int, x < y PROVE x * Step < y * Step
    OBVIOUS
  <2>1. PICK d \in Nat : y = x + 1 + d
    <3>1. y - x - 1 \in Nat /\ y = x + 1 + (y - x - 1)
      OBVIOUS
    <3> QED BY <3>1
  <2>2. y * Step = x * Step + Step + d * Step /\ d * Step \in Nat /\ x * Step \in Int
    BY <1>1, <2>1
  <2> QED BY <1>1, <2>2
<1>3. a * Step \in Int /\ b * Step \in Int
  BY <1>1
<1>4. (a + b) * Step = a * Step + b * Step /\ (a - b) * Step = a * Step - b * Step
  BY <1>1
<1>5. a < b \/ a = b \/ b < a
  OBVIOUS
<1>6. (a < b => a * Step < b * Step) /\ (b < a => b * Step < a * Step)
  BY <1>2
<1> QED BY <1>3, <1>4, <1>5, <1>6

\* A run is a pair of its ends, all of it in the set and neither neighbour.
LEMMA RunReads ==
    ASSUME NEW n \in Nat, NEW M \in SUBSET (0 .. n - 1), NEW r \in Runs(M)
    PROVE  /\ r[1] \in 0 .. n - 1 /\ r[2] \in 0 .. n - 1 /\ r = <<r[1], r[2]>>
           /\ r[1] <= r[2] /\ r[1] - 1 \notin M /\ r[2] + 1 \notin M /\ r[1] .. r[2] \subseteq M
<1>1. r \in M \X M
  BY DEF Runs
<1>2. r[1] <= r[2] /\ r[1] - 1 \notin M /\ r[2] + 1 \notin M /\ r[1] .. r[2] \subseteq M
  BY DEF Runs
<1>3. r[1] \in M /\ r[2] \in M /\ r = <<r[1], r[2]>>
  BY <1>1
<1> QED BY <1>2, <1>3

\* Around every member there is a run.
LEMMA RunAround ==
    ASSUME NEW n \in Nat, NEW M \in SUBSET (0 .. n - 1), NEW t \in M
    PROVE  \E r \in Runs(M) : t \in r[1] .. r[2]
<1> DEFINE Before == {x \in 0 .. t : x .. t \subseteq M}
           After == {y \in t + 1 .. n : y \notin M}
<1>1. t \in Nat /\ t < n
  OBVIOUS
<1>2. t \in Before
  <2>1. \A x \in t .. t : x = t
    BY <1>1
  <2> QED BY <1>1, <2>1
<1>3. n \in After
  BY <1>1
<1>4. PICK a \in Before : \A x \in Before : a <= x
  <2>1. Before \in SUBSET Nat /\ Before # {}
    BY <1>1, <1>2
  <2> HIDE DEF Before
  <2> QED BY <2>1, LeastOf
<1>5. PICK z \in After : \A y \in After : z <= y
  <2>1. After \in SUBSET Nat /\ After # {}
    BY <1>1, <1>3
  <2> HIDE DEF After
  <2> QED BY <2>1, LeastOf
<1>6. a \in 0 .. t /\ a .. t \subseteq M
  BY <1>4
<1>7. z \in t + 1 .. n /\ z \notin M
  BY <1>5
<1>8. t .. z - 1 \subseteq M
  <2> SUFFICES ASSUME NEW y \in t .. z - 1 PROVE y \in M
    OBVIOUS
  <2>1. CASE y = t
    BY <2>1
  <2>2. CASE y # t
    <3>1. y \in t + 1 .. n /\ ~(z <= y)
      BY <1>1, <1>7, <2>2
    <3> QED BY <3>1, <1>5
  <2> QED BY <2>1, <2>2
<1>9. a - 1 \notin M
  <2> SUFFICES ASSUME a - 1 \in M PROVE FALSE
    OBVIOUS
  <2>1. a - 1 \in 0 .. t /\ \A x \in a - 1 .. t : x = a - 1 \/ x \in a .. t
    BY <1>1, <1>6
  <2>2. a - 1 \in Before
    BY <2>1, <1>6
  <2> QED BY <2>1, <2>2, <1>4, <1>6, <1>1
<1>10. a .. z - 1 \subseteq M
  <2>1. \A x \in a .. z - 1 : x \in a .. t \/ x \in t .. z - 1
    BY <1>1, <1>6, <1>7
  <2> QED BY <2>1, <1>6, <1>8
<1>11. a \in Int /\ z - 1 \in Int /\ a <= z - 1 /\ a \in a .. z - 1 /\ z - 1 \in a .. z - 1 /\ (z - 1) + 1 = z
         /\ t \in a .. z - 1
  BY <1>1, <1>6, <1>7
<1>12. <<a, z - 1>> \in Runs(M)
  BY <1>7, <1>9, <1>10, <1>11 DEF Runs
<1> QED BY <1>11, <1>12

\* Two runs are the same or lie apart.
LEMMA RunsApart ==
    ASSUME NEW n \in Nat, NEW M \in SUBSET (0 .. n - 1), NEW g \in Runs(M), NEW h \in Runs(M)
    PROVE  g = h \/ g[2] < h[1] \/ h[2] < g[1]
<1>1. /\ g[1] \in Int /\ g[2] \in Int /\ g = <<g[1], g[2]>>
      /\ h[1] \in Int /\ h[2] \in Int /\ h = <<h[1], h[2]>>
      /\ g[1] <= g[2] /\ g[1] - 1 \notin M /\ g[2] + 1 \notin M /\ g[1] .. g[2] \subseteq M
      /\ h[1] <= h[2] /\ h[1] - 1 \notin M /\ h[2] + 1 \notin M /\ h[1] .. h[2] \subseteq M
  BY RunReads
<1> SUFFICES ASSUME g[2] >= h[1], h[2] >= g[1] PROVE g = h
  BY <1>1
<1>2. ~(g[1] < h[1])
  <2>1. g[1] < h[1] => h[1] - 1 \in g[1] .. g[2]
    BY <1>1
  <2> QED BY <1>1, <2>1
<1>3. ~(h[1] < g[1])
  <2>1. h[1] < g[1] => g[1] - 1 \in h[1] .. h[2]
    BY <1>1
  <2> QED BY <1>1, <2>1
<1>4. ~(g[2] < h[2])
  <2>1. g[2] < h[2] => g[2] + 1 \in h[1] .. h[2]
    BY <1>1
  <2> QED BY <1>1, <2>1
<1>5. ~(h[2] < g[2])
  <2>1. h[2] < g[2] => h[2] + 1 \in g[1] .. g[2]
    BY <1>1
  <2> QED BY <1>1, <2>1
<1>6. g[1] = h[1] /\ g[2] = h[2]
  BY <1>1, <1>2, <1>3, <1>4, <1>5
<1> QED BY <1>1, <1>6

\* The limit of a request has room for every bar of its gap.
LEMMA FetchedReads ==
    ASSUME NEW now \in Nat, NEW a \in Int, NEW b \in Int, NEW x
    PROVE  x \in Fetched(<<a, b>>, now)
              <=> x \in 0 .. now \div Step /\ a <= x * Step /\ x * Step <= b
<1>1. <<a, b>>[1] = a /\ <<a, b>>[2] = b
  OBVIOUS
<1>2. ASSUME x \in 0 .. now \div Step, a <= x * Step, x * Step <= b
      PROVE  Cardinality({y \in 0 .. x : a <= y * Step}) <= (b - a) \div Step + 1
  <2> DEFINE L == (b - a) \div Step
             T == {y \in 0 .. x : a <= y * Step}
  <2>1. Step \in Nat \ {0} /\ now \div Step \in Nat /\ x \in Nat /\ x * Step \in Int
    BY <1>2, HistoryAssumption, QuotientIsNat
  <2>2. b - a \in Nat /\ L \in Nat
    <3>1. b - a \in Nat
      BY <1>2, <2>1
    <3> QED BY <2>1, <3>1, QuotientIsNat
  <2>3. ASSUME NEW y \in T PROVE y \in x - L .. x
    <3>1. y \in 0 .. x /\ a <= y * Step /\ y * Step \in Int
      BY <2>1, TicksInOrder
    <3>2. (x - y) * Step = x * Step - y * Step
      BY <2>1, <3>1, TicksInOrder
    <3>3. (x - y) * Step <= b - a /\ x - y \in Nat
      BY <1>2, <2>1, <3>1, <3>2
    <3>4. x - y <= L
      <4> DEFINE d == x - y
                 v == b - a
      <4>1. d \in Nat /\ v \in Nat /\ d * Step <= v
        BY <2>2, <3>3
      <4> HIDE DEF d, v
      <4>2. Step * d <= v /\ v <= Step * v
        BY <2>1, <4>1
      <4>3. d <= v \div Step
        BY <2>1, <4>1, <4>2, QuotientBetween
      <4> QED BY <4>3 DEF d, v
    <3> HIDE DEF L
    <3> QED BY <2>1, <2>2, <3>1, <3>4
  <2> HIDE DEF L, T
  <2>4. x - L \in Int /\ x - L <= x /\ x - (x - L) + 1 = L + 1
    BY <2>1, <2>2
  <2>5. IsFiniteSet(x - L .. x) /\ Cardinality(x - L .. x) = L + 1
    BY <2>1, <2>4, FS_Interval
  <2>6. Cardinality(T) <= Cardinality(x - L .. x)
    BY <2>3, <2>5, FS_Subset
  <2> QED BY <2>5, <2>6 DEF L, T
<1> QED BY <1>1, <1>2 DEF Fetched

\* What a sweep sees: steps of its window by number, from its start.
SweepStart(now) == now - SweepBars * Step
RowsInView(stored, now) ==
    {x * Step : x \in {y \in stored : SweepStart(now) <= y * Step /\ y * Step < now}}
MissingInView(stored, now) ==
    {k \in 0 .. SweepBars - 1 : SweepStart(now) + k * Step \notin RowsInView(stored, now)}
GapOf(now, r) == <<SweepStart(now) + r[1] * Step, SweepStart(now) + r[2] * Step>>

LEMMA WindowReads ==
    ASSUME NEW now \in Nat
    PROVE  /\ Step \in Nat \ {0} /\ SweepBars \in Nat \ {0} /\ SweepBars * Step \in Int
           /\ SweepStart(now) \in Int /\ now = SweepStart(now) + SweepBars * Step
           /\ now - Step = SweepStart(now) + (SweepBars - 1) * Step
<1>1. Step \in Nat \ {0} /\ SweepBars \in Nat \ {0}
  BY HistoryAssumption
<1>2. SweepBars * Step \in Int /\ (SweepBars - 1) * Step = SweepBars * Step - 1 * Step
  BY <1>1, TicksInOrder
<1> QED BY <1>1, <1>2 DEF SweepStart

\* The gaps of a sweep are the runs of the steps it misses.
LEMMA GapsAreRuns ==
    ASSUME NEW now \in Nat, NEW stored \in SUBSET Nat
    PROVE  SweepGaps(stored, now) = {GapOf(now, r) : r \in Runs(MissingInView(stored, now))}
<1> DEFINE start == SweepStart(now)
           rows == RowsInView(stored, now)
           M == MissingInView(stored, now)
           n == SweepBars
           Closed(r) == <<start + r[1] * Step,
                          IF start + (r[2] + 1) * Step < now THEN start + r[2] * Step ELSE now - Step>>
<1>1. /\ Step \in Nat \ {0} /\ n \in Nat \ {0} /\ n * Step \in Int
      /\ start \in Int /\ now = start + n * Step /\ now - Step = start + (n - 1) * Step
  BY WindowReads
<1>2. SweepGaps(stored, now) = find_gaps(rows, start, now, Step)
  BY DEF SweepGaps, RowsInView, SweepStart
<1> HIDE DEF start, rows, n
<1>3. MissingSteps(rows, start, now, Step) = M
  <2>1. ASSUME NEW k \in Nat PROVE start + k * Step < now <=> k < n
    <3>1. k < n <=> k * Step < n * Step
      BY <1>1, TicksInOrder
    <3>2. k * Step \in Int
      BY <1>1
    <3> QED BY <1>1, <3>1, <3>2
  <2>2. ASSUME NEW k \in 0 .. n - 1 PROVE k \in 0 .. now - start
    <3>1. k <= n * Step
      <4>1. k <= k * Step /\ k * Step < n * Step /\ k * Step \in Int
        BY <1>1, TicksInOrder
      <4> QED BY <1>1, <4>1
    <3> QED BY <1>1, <3>1
  <2>3. \A k : k \in 0 .. now - start /\ start + k * Step < now <=> k \in 0 .. n - 1
    BY <1>1, <2>1, <2>2
  <2> QED BY <2>3 DEF MissingSteps, MissingInView, start, rows, n
<1>4. SweepGaps(stored, now) = {Closed(r) : r \in Runs(M)}
  BY <1>2, <1>3 DEF find_gaps
<1>5. ASSUME NEW r \in Runs(M) PROVE Closed(r) = GapOf(now, r)
  <2>1. r[2] \in 0 .. n - 1
    BY <1>1, RunReads DEF MissingInView, n
  <2>2. (r[2] + 1) * Step < n * Step <=> r[2] + 1 < n
    BY <1>1, <2>1, TicksInOrder
  <2>3. (r[2] + 1) * Step \in Int
    BY <1>1, <2>1
  <2>4. ~(start + (r[2] + 1) * Step < now) => r[2] = n - 1
    BY <1>1, <2>1, <2>2, <2>3
  <2>5. Closed(r)[2] = start + r[2] * Step
    BY <1>1, <2>4
  <2> QED BY <2>5 DEF GapOf, start
<1> HIDE DEF Closed, M
<1> QED BY <1>4, <1>5 DEF M

\* The gap of a run fetches the bars between the steps at its ends.
LEMMA GapFetches ==
    ASSUME NEW now \in Nat, NEW stored \in SUBSET Nat, NEW r \in Runs(MissingInView(stored, now)),
           NEW x \in Int
    PROVE  /\ r[1] \in 0 .. SweepBars - 1 /\ r[2] \in 0 .. SweepBars - 1
           /\ x \in Fetched(GapOf(now, r), now)
                 <=> /\ x \in 0 .. now \div Step
                     /\ SweepStart(now) + r[1] * Step <= x * Step
                     /\ x * Step <= SweepStart(now) + r[2] * Step
<1>1. SweepBars \in Nat /\ MissingInView(stored, now) \in SUBSET (0 .. SweepBars - 1)
  BY WindowReads DEF MissingInView
<1>2. r[1] \in 0 .. SweepBars - 1 /\ r[2] \in 0 .. SweepBars - 1
  BY <1>1, RunReads
<1>3. SweepStart(now) + r[1] * Step \in Int /\ SweepStart(now) + r[2] * Step \in Int
  <2>1. r[1] \in Int /\ r[2] \in Int
    BY <1>2
  <2>2. r[1] * Step \in Int /\ r[2] * Step \in Int
    BY <2>1, TicksInOrder
  <2>3. SweepStart(now) \in Int
    BY WindowReads
  <2> QED BY <2>2, <2>3
<1> DEFINE lo == SweepStart(now) + r[1] * Step
           hi == SweepStart(now) + r[2] * Step
<1>4. GapOf(now, r) = <<lo, hi>> /\ lo \in Int /\ hi \in Int
  BY <1>3 DEF GapOf
<1> HIDE DEF lo, hi
<1>5. x \in Fetched(<<lo, hi>>, now) <=> x \in 0 .. now \div Step /\ lo <= x * Step /\ x * Step <= hi
  BY <1>4, FetchedReads
<1> QED BY <1>2, <1>4, <1>5 DEF lo, hi

\* What a sweep at a time of the clock fetches, over any rows.
LEMMA SweepFetches ==
    ASSUME NEW now \in Nat, NEW stored \in SUBSET Nat
    PROVE  LET gaps == SweepGaps(stored, now)
               fetched == UNION {Fetched(g, now) : g \in gaps}
               due == {x \in 0 .. now \div Step :
                          now - SweepBars * Step <= x * Step /\ (x + 1) * Step <= now}
           IN /\ due \ stored \subseteq fetched /\ fetched \subseteq due
              /\ \A g, h \in gaps : g = h \/ Fetched(g, now) \cap Fetched(h, now) = {}
              /\ now % Step = 0 => fetched \cap stored = {}
<1> DEFINE start == SweepStart(now)
           n == SweepBars
           M == MissingInView(stored, now)
           gaps == SweepGaps(stored, now)
           fetched == UNION {Fetched(g, now) : g \in gaps}
           due == {x \in 0 .. now \div Step :
                      now - SweepBars * Step <= x * Step /\ (x + 1) * Step <= now}
           In(r, x) == start + r[1] * Step <= x * Step /\ x * Step <= start + r[2] * Step
<1>1. /\ Step \in Nat \ {0} /\ n \in Nat \ {0} /\ n * Step \in Int
      /\ start \in Int /\ now = start + n * Step /\ now - Step = start + (n - 1) * Step
  BY WindowReads
<1>2. gaps = {GapOf(now, r) : r \in Runs(M)}
  BY GapsAreRuns
<1>3. \A r \in Runs(M), x \in Int :
         /\ r[1] \in 0 .. n - 1 /\ r[2] \in 0 .. n - 1
         /\ x \in Fetched(GapOf(now, r), now) <=> x \in 0 .. now \div Step /\ In(r, x)
  BY GapFetches
<1>4. \A g : Fetched(g, now) \subseteq Int
  BY DEF Fetched
<1>5. \A x : x \in fetched <=> x \in 0 .. now \div Step /\ \E r \in Runs(M) : In(r, x)
  <2>1. \A x : x \in fetched <=> x \in Int /\ \E r \in Runs(M) : x \in Fetched(GapOf(now, r), now)
    BY <1>2, <1>4
  <2>2. 0 .. now \div Step \subseteq Int
    OBVIOUS
  <2> HIDE DEF fetched, In, M, n
  <2> QED BY <2>1, <2>2, <1>3
<1>6. M \in SUBSET (0 .. n - 1)
  BY DEF MissingInView
<1>7. \A x \in 0 .. now \div Step :
         /\ x \in Int /\ x * Step \in Int /\ (x + 1) * Step = x * Step + Step
         /\ x \in due <=> start <= x * Step /\ x * Step <= start + (n - 1) * Step
  <2> SUFFICES ASSUME NEW x \in 0 .. now \div Step
               PROVE  /\ x \in Int /\ x * Step \in Int /\ (x + 1) * Step = x * Step + Step
                      /\ x \in due <=> start <= x * Step /\ x * Step <= start + (n - 1) * Step
    OBVIOUS
  <2>1. x \in Int /\ x * Step \in Int /\ (x + 1) * Step = x * Step + 1 * Step
    BY TicksInOrder
  <2>2. x \in due <=> start <= x * Step /\ x * Step + Step <= now
    BY <1>1, <2>1 DEF SweepStart
  <2> HIDE DEF due, start, n
  <2>3. x * Step + Step <= now <=> x * Step <= now - Step
    BY <1>1, <2>1
  <2> QED BY <1>1, <2>1, <2>2, <2>3
<1>8. \A x \in due : x \in 0 .. now \div Step
  OBVIOUS
<1>9. \A x : x \in Int /\ x * Step \in RowsInView(stored, now) => x \in stored
  <2> SUFFICES ASSUME NEW x \in Int, x * Step \in RowsInView(stored, now) PROVE x \in stored
    OBVIOUS
  <2>1. PICK y \in stored : x * Step = y * Step
    BY DEF RowsInView
  <2>2. y \in Int /\ (x < y <=> x * Step < y * Step) /\ (y < x <=> y * Step < x * Step)
    BY TicksInOrder
  <2>3. x = y
    BY <2>1, <2>2, TicksInOrder
  <2> QED BY <2>3
<1>10. \A k : k \in M <=> k \in 0 .. n - 1 /\ start + k * Step \notin RowsInView(stored, now)
  BY DEF MissingInView
<1> HIDE DEF start, n, M, gaps, fetched, due
<1>11. ASSUME NEW r \in Runs(M), NEW x \in 0 .. now \div Step, In(r, x)
       PROVE  start <= x * Step /\ x * Step <= start + (n - 1) * Step
  <2>1. r[1] \in 0 .. n - 1 /\ r[2] \in 0 .. n - 1 /\ x \in Int /\ x * Step \in Int
    BY <1>3, <1>7
  <2>2. 0 * Step <= r[1] * Step /\ r[2] * Step <= (n - 1) * Step
    BY <1>1, <2>1, TicksInOrder
  <2>3. 0 * Step = 0 /\ r[1] * Step \in Int /\ r[2] * Step \in Int /\ (n - 1) * Step \in Int
    BY <1>1, <2>1
  <2> QED BY <1>1, <1>11, <2>1, <2>2, <2>3
<1>12. fetched \subseteq due
  <2> SUFFICES ASSUME NEW x \in fetched PROVE x \in due
    OBVIOUS
  <2>1. PICK r \in Runs(M) : In(r, x)
    BY <1>5
  <2>2. x \in 0 .. now \div Step
    BY <1>5
  <2> HIDE DEF In
  <2> QED BY <2>1, <2>2, <1>7, <1>11
<1>13. ASSUME NEW x \in due \ stored PROVE x \in fetched
  <2>1. /\ x \in 0 .. now \div Step /\ x \in Int /\ x * Step \in Int
        /\ start <= x * Step /\ x * Step <= start + (n - 1) * Step
    BY <1>7, <1>8
  <2>2. CASE \E k \in Int : start + k * Step = x * Step
    <3>1. PICK k \in Int : start + k * Step = x * Step
      BY <2>2
    <3>2. k \in 0 .. n - 1
      <4>1. k * Step \in Int /\ 0 * Step = 0 /\ (n - 1) * Step \in Int
        BY <1>1
      <4>2. 0 * Step <= k * Step /\ k * Step <= (n - 1) * Step
        BY <1>1, <2>1, <3>1, <4>1
      <4>3. 0 <= k /\ k <= n - 1
        BY <1>1, <4>2, TicksInOrder
      <4> QED BY <1>1, <4>3
    <3>3. k \in M
      BY <3>1, <3>2, <2>1, <1>9, <1>10
    <3>4. PICK r \in Runs(M) : k \in r[1] .. r[2]
      BY <1>1, <1>6, <3>3, RunAround
    <3>5. r[1] \in Int /\ r[2] \in Int
      BY <1>1, <1>6, RunReads
    <3>6. r[1] * Step <= k * Step /\ k * Step <= r[2] * Step
      <4>1. r[1] <= k /\ k <= r[2]
        BY <3>4, <3>5
      <4>2. (r[1] <= k <=> r[1] * Step <= k * Step) /\ (k <= r[2] <=> k * Step <= r[2] * Step)
        BY <3>5, TicksInOrder
      <4> QED BY <4>1, <4>2
    <3>7. r[1] * Step \in Int /\ k * Step \in Int /\ r[2] * Step \in Int
      BY <1>1, <3>5
    <3>8. In(r, x)
      BY <1>1, <3>1, <3>6, <3>7
    <3> QED BY <2>1, <3>8, <1>5
  <2>3. CASE ~ \E k \in Int : start + k * Step = x * Step
    <3>1. ASSUME NEW k \in 0 .. n - 1 PROVE start + k * Step \notin RowsInView(stored, now)
      <4> SUFFICES ASSUME start + k * Step \in RowsInView(stored, now) PROVE FALSE
        OBVIOUS
      <4>1. PICK y \in stored : start + k * Step = y * Step
        BY DEF RowsInView
      <4>2. y \in Int /\ k \in Int /\ k + (x - y) \in Int
        BY <2>1
      <4>3. (k + (x - y)) * Step = k * Step + (x - y) * Step /\ (x - y) * Step = x * Step - y * Step
        BY <2>1, <4>2, TicksInOrder
      <4>4. k * Step \in Int /\ y * Step \in Int
        BY <1>1, <4>2
      <4>5. start + (k + (x - y)) * Step = x * Step
        BY <1>1, <2>1, <4>1, <4>3, <4>4
      <4> QED BY <2>3, <4>2, <4>5
    <3>2. M = 0 .. n - 1
      BY <3>1, <1>10
    <3>3. <<0, n - 1>> \in Runs(M)
      BY <1>1, <3>2 DEF Runs
    <3>4. 0 * Step = 0
      BY <1>1
    <3>5. In(<<0, n - 1>>, x)
      BY <1>1, <2>1, <3>4
    <3> QED BY <2>1, <3>3, <3>5, <1>5
  <2> QED BY <2>2, <2>3
<1>14. ASSUME NEW g \in gaps, NEW h \in gaps, g # h
       PROVE  Fetched(g, now) \cap Fetched(h, now) = {}
  <2>1. PICK r \in Runs(M) : g = GapOf(now, r)
    BY <1>2
  <2>2. PICK q \in Runs(M) : h = GapOf(now, q)
    BY <1>2
  <2>3. r # q
    BY <2>1, <2>2, <1>14
  <2>4. r[2] < q[1] \/ q[2] < r[1]
    BY <1>1, <1>6, <2>3, RunsApart
  <2> SUFFICES ASSUME NEW x, x \in Fetched(g, now), x \in Fetched(h, now) PROVE FALSE
    OBVIOUS
  <2>5. x \in Int /\ In(r, x) /\ In(q, x)
    <3>1. x \in Int
      BY <1>4
    <3> HIDE DEF In
    <3> QED BY <3>1, <2>1, <2>2, <1>3
  <2>6. r[1] \in Int /\ r[2] \in Int /\ q[1] \in Int /\ q[2] \in Int
    BY <1>1, <1>6, RunReads
  <2>7. (r[2] < q[1] => r[2] * Step < q[1] * Step) /\ (q[2] < r[1] => q[2] * Step < r[1] * Step)
    BY <2>6, TicksInOrder
  <2>8. r[1] * Step \in Int /\ r[2] * Step \in Int /\ q[1] * Step \in Int /\ q[2] * Step \in Int /\ x * Step \in Int
    BY <1>1, <2>5, <2>6
  <2> QED BY <1>1, <2>4, <2>5, <2>7, <2>8
<1>15. ASSUME now % Step = 0, NEW x \in fetched, x \in stored PROVE FALSE
  <2>1. PICK r \in Runs(M) : In(r, x)
    BY <1>5
  <2>2. x \in 0 .. now \div Step /\ x \in Int /\ x * Step \in Int
    BY <1>5, <1>7
  <2>3. start <= x * Step /\ x * Step <= start + (n - 1) * Step
    BY <1>11, <2>1, <2>2
  <2>4. PICK m \in Int : now = m * Step
    <3>1. now \div Step \in Int /\ now = (now \div Step) * Step
      BY <1>1, <1>15
    <3> QED BY <3>1
  <2> DEFINE k == x - (m - n)
  <2>5. /\ (m - n) * Step = m * Step - n * Step
        /\ k * Step = x * Step - (m - n) * Step /\ k \in Int /\ m * Step \in Int /\ k * Step \in Int
    BY <1>1, <2>2, TicksInOrder
  <2> HIDE DEF k
  <2>6. start + k * Step = x * Step
    BY <1>1, <2>2, <2>4, <2>5
  <2>7. r[1] \in 0 .. n - 1 /\ r[2] \in 0 .. n - 1 /\ r[1] .. r[2] \subseteq M
    BY <1>1, <1>6, RunReads
  <2>8. r[1] * Step <= k * Step /\ k * Step <= r[2] * Step
    <3>1. r[1] * Step \in Int /\ r[2] * Step \in Int
      BY <1>1, <2>7
    <3> QED BY <1>1, <2>1, <2>2, <2>5, <2>6, <3>1
  <2>9. r[1] <= k /\ k <= r[2]
    <3>1. r[1] \in Int /\ r[2] \in Int /\ k \in Int
      BY <1>1, <2>5, <2>7
    <3>2. (r[1] <= k <=> r[1] * Step <= k * Step) /\ (k <= r[2] <=> k * Step <= r[2] * Step)
      BY <3>1, TicksInOrder
    <3> QED BY <3>2, <2>8
  <2>10. k \in M
    BY <2>5, <2>7, <2>9
  <2>11. x * Step \notin RowsInView(stored, now)
    BY <2>6, <2>10, <1>10
  <2>12. x * Step < now
    BY <1>1, <2>2, <2>3
  <2> QED BY <1>15, <2>3, <2>11, <2>12 DEF RowsInView, start
<1>16. due \ stored \subseteq fetched
  BY <1>13
<1> QED BY <1>12, <1>14, <1>15, <1>16 DEF gaps, fetched, due
-----------------------------------------------------------------------------
(* The bars, and the gaps among them.                                       *)

\* A row of candles: its prices are of one bar, and none of them is zero.
BarRow == {r \in [ts : Nat, o : Nat, h : Nat, l : Nat, c : Nat, v : Nat] :
              0 < r.l /\ r.l <= r.h /\ r.l <= r.c /\ r.c <= r.h}

\* Rows come in order of time.
BarsInv ==
    /\ bars \in Seq(BarRow)
    /\ \A i, j \in 1 .. Len(bars) : i < j => bars[i].ts < bars[j].ts

LEMMA NextIsNat ==
    ASSUME BarsInv
    PROVE  NextTs \in Nat /\ \A i \in 1 .. Len(bars) : bars[i].ts < NextTs
<1>1. CASE bars = <<>>
  BY <1>1 DEF NextTs
<1>2. CASE bars # <<>>
  <2>1. Len(bars) \in 1 .. Len(bars) /\ Last(bars) = bars[Len(bars)]
    BY <1>2 DEF BarsInv, Last
  <2>2. \A i \in 1 .. Len(bars) : bars[i] \in BarRow
    BY DEF BarsInv
  <2>3. \A i \in 1 .. Len(bars) : bars[i].ts \in Nat
    BY <2>2 DEF BarRow
  <2>4. ASSUME NEW i \in 1 .. Len(bars) PROVE bars[i].ts <= bars[Len(bars)].ts
    <3>1. i = Len(bars) \/ i < Len(bars)
      OBVIOUS
    <3>2. CASE i = Len(bars)
      BY <3>2, <2>3
    <3>3. CASE i < Len(bars)
      BY <3>3, <2>1, <2>3 DEF BarsInv
    <3> QED BY <3>1, <3>2, <3>3
  <2>5. NextTs = bars[Len(bars)].ts + 1
    BY <1>2, <2>1 DEF NextTs
  <2> QED BY <2>1, <2>3, <2>4, <2>5
<1> QED BY <1>1, <1>2

\* The row of a closed bar, and where it goes.
NewBar(s, skipped) == [ts |-> NextTs + skipped, o |-> s.o, h |-> s.h, l |-> s.l, c |-> s.c, v |-> s.v]

LEMMA NewBarIsRow ==
    ASSUME BarsInv, NEW s \in Shapes, NEW skipped \in {0, 1}
    PROVE  NewBar(s, skipped) \in BarRow /\ NewBar(s, skipped).ts = NextTs + skipped
<1>1. s.o \in Nat /\ s.h \in Nat /\ s.l \in Nat /\ s.c \in Nat /\ s.v \in Nat
  BY HistoryAssumption
<1>2. NextTs + skipped \in Nat
  BY NextIsNat
<1>3. 0 < s.l /\ s.l <= s.h /\ s.l <= s.c /\ s.c <= s.h
  <2>1. s.l <= s.o /\ s.o <= s.h /\ s.l > 0 /\ s.l <= s.c /\ s.c <= s.h
    BY HistoryAssumption
  <2> QED BY <2>1, <1>1
<1> QED BY <1>1, <1>2, <1>3 DEF NewBar, BarRow

LEMMA BarsInvStep == BarsInv /\ [Next]_vars => BarsInv'
<1> SUFFICES ASSUME BarsInv, [Next]_vars PROVE BarsInv'
  OBVIOUS
<1>1. CASE UNCHANGED vars
  BY <1>1 DEF vars, BarsInv
<1>2. ASSUME NEW s \in Shapes, NEW skipped \in {0, 1}, CloseBar(s, skipped) PROVE BarsInv'
  <2> DEFINE r == NewBar(s, skipped)
  <2>1. bars' = Append(bars, r)
    BY <1>2 DEF CloseBar, NewBar
  <2>2. r \in BarRow /\ r.ts = NextTs + skipped
    BY NewBarIsRow
  <2>3. NextTs \in Nat /\ \A i \in 1 .. Len(bars) : bars[i].ts < NextTs
    BY NextIsNat
  <2> HIDE DEF r
  <2>4. /\ bars' \in Seq(BarRow) /\ Len(bars') = Len(bars) + 1 /\ Len(bars) \in Nat
        /\ bars'[Len(bars) + 1] = r /\ \A i \in 1 .. Len(bars) : bars'[i] = bars[i]
    BY <2>1, <2>2 DEF BarsInv
  <2>5. \A i \in 1 .. Len(bars) : bars[i].ts \in Nat
    <3>1. \A i \in 1 .. Len(bars) : bars[i] \in BarRow
      BY DEF BarsInv
    <3> QED BY <3>1 DEF BarRow
  <2>6. ASSUME NEW i \in 1 .. Len(bars'), NEW j \in 1 .. Len(bars'), i < j
        PROVE  bars'[i].ts < bars'[j].ts
    <3>1. i \in 1 .. Len(bars)
      BY <2>4, <2>6
    <3>2. CASE j \in 1 .. Len(bars)
      BY <3>1, <3>2, <2>4, <2>6 DEF BarsInv
    <3>3. CASE j = Len(bars) + 1
      <4>1. bars'[i].ts < NextTs /\ bars'[i].ts \in Nat
        BY <3>1, <2>3, <2>4, <2>5
      <4>2. bars'[j].ts = NextTs + skipped
        BY <3>3, <2>2, <2>4
      <4> QED BY <4>1, <4>2, <2>3
    <3> QED BY <3>2, <3>3, <2>4
  <2> QED BY <2>4, <2>6 DEF BarsInv
<1> QED BY <1>1, <1>2 DEF Next

LEMMA BarsInvariant == Spec => []BarsInv
<1>1. Init => BarsInv
  BY DEF Init, BarsInv
<1> QED BY <1>1, BarsInvStep, PTL DEF Spec

\* worker.py:59-67, backfill.py:25-104: for bars of any number and with any losses,
\* at any tick of the clock: a sweep fetches every closed bar of its window that has
\* no row, each for one gap, never the bar still forming, and on the minute no stored one.
THEOREM GapsAreExact == Spec => []GapsExact
<1>1. ASSUME BarsInv PROVE GapsExact
  <2> SUFFICES ASSUME NEW now \in NextTs * Step .. (NextTs + MaxMissing + 1) * Step - 1
               PROVE  LET stored == {bars[i].ts : i \in 1 .. Len(bars)}
                          gaps == SweepGaps(stored, now)
                          fetched == UNION {Fetched(g, now) : g \in gaps}
                          due == {x \in 0 .. now \div Step :
                                     now - SweepBars * Step <= x * Step /\ (x + 1) * Step <= now}
                      IN /\ due \ stored \subseteq fetched /\ fetched \subseteq due
                         /\ \A g, h \in gaps : g = h \/ Fetched(g, now) \cap Fetched(h, now) = {}
                         /\ now % Step = 0 => fetched \cap stored = {}
    BY DEF GapsExact
  <2> DEFINE stored == {bars[i].ts : i \in 1 .. Len(bars)}
  <2>1. now \in Nat
    <3>1. NextTs * Step \in Nat
      BY <1>1, NextIsNat, HistoryAssumption
    <3> QED BY <3>1
  <2>2. stored \in SUBSET Nat
    <3>1. \A i \in 1 .. Len(bars) : bars[i] \in BarRow
      BY <1>1 DEF BarsInv
    <3> QED BY <3>1 DEF BarRow
  <2> HIDE DEF stored
  <2>3. LET gaps == SweepGaps(stored, now)
            fetched == UNION {Fetched(g, now) : g \in gaps}
            due == {x \in 0 .. now \div Step :
                       now - SweepBars * Step <= x * Step /\ (x + 1) * Step <= now}
        IN /\ due \ stored \subseteq fetched /\ fetched \subseteq due
           /\ \A g, h \in gaps : g = h \/ Fetched(g, now) \cap Fetched(h, now) = {}
           /\ now % Step = 0 => fetched \cap stored = {}
    BY <2>1, <2>2, SweepFetches
  <2> QED BY <2>3 DEF stored
<1> QED BY <1>1, BarsInvariant, PTL
-----------------------------------------------------------------------------
(* Rows of a feature table, in the order of their bars.                     *)

\* The members of a set up to one of them.
UpTo(S, i) == {j \in S : j <= i}

\* One more is counted at a member than just before it.
LEMMA UpToSteps ==
    ASSUME NEW N \in Nat, NEW S \in SUBSET (1 .. N), NEW i \in Int
    PROVE  /\ Cardinality(UpTo(S, i)) \in Nat
           /\ i \in S => Cardinality(UpTo(S, i)) = Cardinality(UpTo(S, i - 1)) + 1
           /\ i \notin S => Cardinality(UpTo(S, i)) = Cardinality(UpTo(S, i - 1))
<1>0. \A j \in S : j \in Int
  OBVIOUS
<1>1. UpTo(S, i) \in SUBSET (1 .. N) /\ UpTo(S, i - 1) \in SUBSET (1 .. N)
  BY DEF UpTo
<1>2. IsFiniteSet(1 .. N)
  BY FS_Interval
<1>3. IsFiniteSet(UpTo(S, i)) /\ IsFiniteSet(UpTo(S, i - 1))
  BY <1>1, <1>2, FS_Subset
<1>4. Cardinality(UpTo(S, i)) \in Nat
  BY <1>3, FS_CardinalityType
<1>5. ASSUME i \in S PROVE Cardinality(UpTo(S, i)) = Cardinality(UpTo(S, i - 1)) + 1
  <2>1. \A j \in S : j <= i <=> j <= i - 1 \/ j = i
    BY <1>0
  <2>2. ~(i <= i - 1)
    OBVIOUS
  <2>3. UpTo(S, i) = UpTo(S, i - 1) \cup {i} /\ i \notin UpTo(S, i - 1)
    BY <2>1, <2>2, <1>5 DEF UpTo
  <2> QED BY <2>3, <1>3, FS_AddElement
<1>6. ASSUME i \notin S PROVE UpTo(S, i) = UpTo(S, i - 1)
  <2>1. \A j \in S : j <= i <=> j <= i - 1
    BY <1>0, <1>6
  <2> QED BY <2>1 DEF UpTo
<1> QED BY <1>4, <1>5, <1>6

\* Every number up to the size of a set is the place of one of its members.
LEMMA PlaceIsTaken ==
    ASSUME NEW N \in Nat, NEW S \in SUBSET (1 .. N), NEW r \in 1 .. Cardinality(S)
    PROVE  \E i \in S : Cardinality(UpTo(S, i)) = r
<1> DEFINE T == {i \in 0 .. N : Cardinality(UpTo(S, i)) >= r}
<1>1. UpTo(S, N) = S /\ UpTo(S, 0) = {}
  <2>1. \A j \in S : j <= N /\ ~(j <= 0)
    OBVIOUS
  <2> QED BY <2>1 DEF UpTo
<1>2. Cardinality(S) \in Nat /\ N \in Int
  <2>1. N \in Int
    OBVIOUS
  <2> QED BY <2>1, <1>1, UpToSteps
<1>3. T \in SUBSET Nat /\ T # {}
  BY <1>1, <1>2
<1>4. PICK i \in T : \A x \in T : i <= x
  <2> HIDE DEF T
  <2> QED BY <1>3, LeastOf
<1>5. i \in 0 .. N /\ Cardinality(UpTo(S, i)) >= r
  BY <1>4
<1>6. i # 0
  BY <1>1, <1>2, <1>5, FS_EmptySet
<1>7. i - 1 \in 0 .. N /\ i - 1 \notin T
  BY <1>2, <1>4, <1>5, <1>6
<1>8. Cardinality(UpTo(S, i - 1)) \in Nat /\ Cardinality(UpTo(S, i)) \in Nat
  <2>1. i \in Int /\ i - 1 \in Int
    BY <1>5
  <2> QED BY <2>1, UpToSteps
<1>9. Cardinality(UpTo(S, i - 1)) < r
  BY <1>7, <1>8
<1>10. i \in S /\ Cardinality(UpTo(S, i)) = Cardinality(UpTo(S, i - 1)) + 1
  <2>1. i \in Int
    BY <1>5
  <2>2. i \in S
    <3>1. ~(Cardinality(UpTo(S, i)) = Cardinality(UpTo(S, i - 1)))
      BY <1>2, <1>5, <1>8, <1>9
    <3> QED BY <2>1, <3>1, UpToSteps
  <2> QED BY <2>1, <2>2, UpToSteps
<1> QED BY <1>2, <1>5, <1>8, <1>9, <1>10

\* Places differ by no more than their members do.
LEMMA PlacesGrowSlowly ==
    ASSUME NEW N \in Nat, NEW S \in SUBSET (1 .. N), NEW i \in Nat, NEW j \in Nat, i <= j
    PROVE  /\ Cardinality(UpTo(S, i)) <= Cardinality(UpTo(S, j))
           /\ Cardinality(UpTo(S, j)) - Cardinality(UpTo(S, i)) <= j - i
<1> DEFINE C(k) == Cardinality(UpTo(S, k))
           T == {d \in Nat : ~(C(i) <= C(i + d) /\ C(i + d) - C(i) <= d)}
<1>1. \A k \in Nat : C(k) \in Nat /\ (C(k + 1) = C(k) \/ C(k + 1) = C(k) + 1)
  <2> SUFFICES ASSUME NEW k \in Nat PROVE C(k) \in Nat /\ (C(k + 1) = C(k) \/ C(k + 1) = C(k) + 1)
    OBVIOUS
  <2>1. k + 1 \in Int /\ (k + 1) - 1 = k /\ k \in Int
    OBVIOUS
  <2> QED BY <2>1, UpToSteps
<1> HIDE DEF C
<1>2. T = {}
  <2> SUFFICES ASSUME T # {} PROVE FALSE
    OBVIOUS
  <2>1. T \in SUBSET Nat
    OBVIOUS
  <2>2. PICK d \in T : \A x \in T : d <= x
    <3> HIDE DEF T
    <3> QED BY <2>1, LeastOf
  <2>3. d # 0
    <3>1. i + 0 = i
      OBVIOUS
    <3> QED BY <3>1, <1>1
  <2>4. d - 1 \in Nat /\ d - 1 \notin T
    BY <2>2, <2>3
  <2>5. C(i) <= C(i + (d - 1)) /\ C(i + (d - 1)) - C(i) <= d - 1
    BY <2>4
  <2>6. i + (d - 1) \in Nat /\ (i + (d - 1)) + 1 = i + d /\ i + d \in Nat
    BY <2>4
  <2>7. C(i) <= C(i + d) /\ C(i + d) - C(i) <= d
    BY <2>5, <2>6, <1>1
  <2> QED BY <2>2, <2>7
<1>3. j - i \in Nat /\ i + (j - i) = j
  OBVIOUS
<1>4. C(i) <= C(j) /\ C(j) - C(i) <= j - i
  BY <1>2, <1>3
<1> QED BY <1>4 DEF C

\* The members of a finite set of positive numbers in ascending order.
LEMMA InOrderAscends ==
    ASSUME NEW N \in Nat, NEW S \in SUBSET (1 .. N)
    PROVE  /\ Cardinality(S) \in Nat
           /\ InOrder(S) \in [1 .. Cardinality(S) -> S]
           /\ \A r \in 1 .. Cardinality(S) : Cardinality(UpTo(S, InOrder(S)[r])) = r
<1> DEFINE n == Cardinality(S)
           at == InOrder(S)
<1>1. n \in Nat
  <2>1. IsFiniteSet(1 .. N)
    BY FS_Interval
  <2> QED BY <2>1, FS_Subset, FS_CardinalityType
<1>2. at = [r \in 1 .. n |-> CHOOSE i \in S : Cardinality(UpTo(S, i)) = r]
  BY DEF InOrder, UpTo
<1> HIDE DEF n, at
<1>3. \A r \in 1 .. n : at[r] \in S /\ Cardinality(UpTo(S, at[r])) = r
  BY <1>2, PlaceIsTaken DEF n
<1>4. at \in [1 .. n -> S]
  BY <1>2, <1>3
<1> QED BY <1>1, <1>3, <1>4 DEF n, at

LEMMA InOrderIsBarOrder ==
    ASSUME NEW N \in Nat, NEW S \in SUBSET (1 .. N)
    PROVE  InBarOrder(InOrder(S), Cardinality(S))
<1> DEFINE n == Cardinality(S)
           at == InOrder(S)
<1>1. /\ n \in Nat /\ at \in [1 .. n -> S]
      /\ \A r \in 1 .. n : Cardinality(UpTo(S, at[r])) = r
  BY InOrderAscends
<1> HIDE DEF n, at
<1>2. at \in [1 .. n -> Nat]
  <2>1. \A x \in S : x \in Nat
    OBVIOUS
  <2> QED BY <2>1, <1>1
<1>3. ASSUME NEW i \in 1 .. n, NEW j \in 1 .. n, i < j PROVE at[j] - at[i] >= j - i
  <2>1. PICK x \in Nat, y \in Nat : x = at[i] /\ y = at[j]
    BY <1>2
  <2>2. Cardinality(UpTo(S, x)) = i /\ Cardinality(UpTo(S, y)) = j
    BY <1>1, <2>1
  <2>3. ~(y <= x)
    <3> SUFFICES ASSUME y <= x PROVE FALSE
      OBVIOUS
    <3>1. Cardinality(UpTo(S, y)) <= Cardinality(UpTo(S, x))
      BY PlacesGrowSlowly
    <3> QED BY <3>1, <2>2, <1>1, <1>3
  <2>4. x <= y
    BY <2>3
  <2>5. Cardinality(UpTo(S, y)) - Cardinality(UpTo(S, x)) <= y - x
    BY <2>4, PlacesGrowSlowly
  <2> QED BY <2>1, <2>2, <2>5
<1> QED BY <1>2, <1>3 DEF InBarOrder, n, at

\* The joined rows are numbered in the order of their bars.
LEMMA RowsInBarOrder ==
    ASSUME NEW b, Len(b) \in Nat
    PROVE  Len(Rows(b)) \in Nat /\ InBarOrder(Rows(b), Len(Rows(b)))
<1> DEFINE S == FeatureRows(b) \cap LabelRows(b)
<1>1. S \in SUBSET (1 .. Len(b))
  BY TrainingAssumption, SplitterAssumption DEF FeatureRows, LabelRows
<1>2. Rows(b) = InOrder(S)
  BY DEF Rows
<1> HIDE DEF S
<1>3. /\ Cardinality(S) \in Nat /\ InOrder(S) \in [1 .. Cardinality(S) -> S]
      /\ InBarOrder(InOrder(S), Cardinality(S))
  BY <1>1, InOrderAscends, InOrderIsBarOrder
<1>4. Len(Rows(b)) = Cardinality(S)
  BY <1>2, <1>3
<1> QED BY <1>2, <1>3, <1>4

\* Folds end in their order.
LEMMA LastFoldEndsLast ==
    ASSUME NEW k \in 0 .. Folds - 1
    PROVE  k \in Nat /\ TestEnd(k) <= TestEnd(Folds - 1)
<1>1. Folds - 1 \in Nat /\ Folds - 1 - k \in Nat /\ k \in Nat
  BY TrainingAssumption
<1>2. /\ k * TestSize \in Nat /\ (Folds - 1) * TestSize \in Nat /\ (Folds - 1 - k) * TestSize \in Nat
      /\ (Folds - 1) * TestSize = k * TestSize + (Folds - 1 - k) * TestSize
  BY <1>1, SplitterAssumption
<1> QED BY <1>1, <1>2, SplitterAssumption DEF TestEnd, TestStart, train_end

LEMMA FoldsAreHeldOut ==
    ASSUME Len(bars) \in Nat
    PROVE  FoldsHeldOut
<1> SUFFICES ASSUME Trains(bars), NEW k \in 0 .. Folds - 1 PROVE NoLeak(Rows(bars), k)
  BY DEF FoldsHeldOut
<1>1. Len(Rows(bars)) \in Nat /\ InBarOrder(Rows(bars), Len(Rows(bars)))
  BY RowsInBarOrder
<1>2. k \in Nat /\ TestEnd(k) <= TestEnd(Folds - 1)
  BY LastFoldEndsLast
<1>3. TestEnd(k) \in Int /\ TestEnd(Folds - 1) \in Int
  BY <1>2, TrainingAssumption, SplitterAssumption DEF TestEnd, TestStart, train_end
<1>4. TestEnd(k) <= Len(Rows(bars))
  BY <1>1, <1>2, <1>3 DEF Trains
<1> QED BY <1>1, <1>2, <1>4, AcceptedPurgeHoldsOut DEF Trains
-----------------------------------------------------------------------------
(* Labels.                                                                  *)

LEMMA LeastIsMin ==
    ASSUME NEW S \in SUBSET Nat, S # {}
    PROVE  Min(S) \in S /\ \A x \in S : Min(S) <= x
BY LeastOf DEF Min

LEMMA LabelsLookAhead ==
    ASSUME bars \in Seq(BarRow)
    PROVE  LabelLooksAhead
<1> DEFINE Out(i, j) == 10 * bars[j].h >= 11 * bars[i].c \/ 10 * bars[j].l <= 9 * bars[i].c
<1> SUFFICES ASSUME NEW i \in LabelRows(bars)
             PROVE  LET t == TripleBarrier(bars, i, 10, 10)
                    IN /\ i < t.at /\ t.at <= i + Horizon
                       /\ \A j \in i + 1 .. t.at - 1 : ~Out(i, j)
                       /\ Out(i, t.at) \/ t.at = i + Horizon
  BY DEF LabelLooksAhead
<1> DEFINE HitTp(j) == 100 * bars[j].h >= (100 + 10) * bars[i].c
           HitSl(j) == 100 * bars[j].l <= (100 - 10) * bars[i].c
           touched == {j \in i + 1 .. i + Horizon : HitTp(j) \/ HitSl(j)}
           t == TripleBarrier(bars, i, 10, 10)
<1>1. /\ Len(bars) \in Nat /\ i \in Nat /\ i \in 1 .. Len(bars) /\ i + Horizon <= Len(bars)
      /\ Horizon \in Nat /\ Horizon >= 1
  BY SplitterAssumption DEF LabelRows
<1>2. \A j \in 1 .. Len(bars) : bars[j].h \in Nat /\ bars[j].l \in Nat /\ bars[j].c \in Nat
  <2>1. \A j \in 1 .. Len(bars) : bars[j] \in BarRow
    OBVIOUS
  <2> QED BY <2>1 DEF BarRow
<1>3. \A j \in i + 1 .. i + Horizon : Out(i, j) <=> HitTp(j) \/ HitSl(j)
  <2> SUFFICES ASSUME NEW j \in i + 1 .. i + Horizon PROVE Out(i, j) <=> HitTp(j) \/ HitSl(j)
    OBVIOUS
  <2>1. j \in 1 .. Len(bars)
    BY <1>1
  <2>2. bars[j].h \in Nat /\ bars[j].l \in Nat /\ bars[i].c \in Nat
    BY <1>1, <1>2, <2>1
  <2>3. PICK h \in Nat, l \in Nat, c \in Nat : h = bars[j].h /\ l = bars[j].l /\ c = bars[i].c
    BY <2>2
  <2>4. /\ 10 * h >= 11 * c <=> 100 * h >= (100 + 10) * c
        /\ 10 * l <= 9 * c <=> 100 * l <= (100 - 10) * c
    OBVIOUS
  <2> QED BY <2>3, <2>4
<1>4. t = IF touched = {} THEN [y |-> FixedLabel(bars, i), at |-> i + Horizon]
          ELSE [y |-> IF HitSl(Min(touched)) THEN 0 ELSE 1, at |-> Min(touched)]
  BY DEF TripleBarrier
<1>5. CASE touched = {}
  <2>1. t.at = i + Horizon
    BY <1>4, <1>5
  <2>2. \A j \in i + 1 .. i + Horizon : ~Out(i, j)
    BY <1>3, <1>5
  <2>3. \A j \in i + 1 .. t.at - 1 : j \in i + 1 .. i + Horizon
    BY <2>1, <1>1
  <2> HIDE DEF t, Out
  <2>4. i < t.at /\ t.at <= i + Horizon
    BY <2>1, <1>1
  <2> QED BY <2>1, <2>2, <2>3, <2>4 DEF t
<1>6. CASE touched # {}
  <2>1. t.at = Min(touched)
    BY <1>4, <1>6
  <2>2. touched \in SUBSET Nat
    BY <1>1
  <2>3. Min(touched) \in touched /\ \A x \in touched : Min(touched) <= x
    <3> HIDE DEF touched
    <3> QED BY <1>6, <2>2, LeastIsMin
  <2>4. Min(touched) \in i + 1 .. i + Horizon /\ (HitTp(Min(touched)) \/ HitSl(Min(touched)))
    BY <2>3
  <2>5. \A j \in i + 1 .. i + Horizon : j < Min(touched) => ~(HitTp(j) \/ HitSl(j))
    <3>1. \A j \in i + 1 .. i + Horizon : j < Min(touched) => j \notin touched
      <4> HIDE DEF touched
      <4> QED BY <1>1, <2>3, <2>4
    <3> QED BY <3>1
  <2> HIDE DEF touched, t, Out, HitTp, HitSl
  <2>6. i < t.at /\ t.at <= i + Horizon /\ t.at \in i + 1 .. i + Horizon
    BY <2>1, <2>4, <1>1
  <2>7. \A j \in i + 1 .. t.at - 1 : j \in i + 1 .. i + Horizon /\ j < t.at
    BY <2>6, <1>1
  <2>8. \A j \in i + 1 .. t.at - 1 : ~Out(i, j)
    BY <2>7, <2>5, <2>1, <1>3
  <2>9. Out(i, t.at)
    BY <2>6, <2>1, <2>4, <1>3
  <2> QED BY <2>6, <2>8, <2>9 DEF t
<1> QED BY <1>5, <1>6
-----------------------------------------------------------------------------
(* Trades of the publish gate.                                              *)

\* Trades that start from bar i on, apart by at least the horizon, and held
\* for it within n bars.
ApartFrom(i, n, horizon) ==
    {s \in Seq(Nat) : /\ \A k \in 1 .. Len(s) : i <= s[k] /\ s[k] + horizon <= n
                      /\ \A k \in 2 .. Len(s) : s[k] - s[k - 1] >= horizon}

LEMMA StartsEarlier ==
    ASSUME NEW n \in Nat, NEW horizon \in Nat, NEW i \in Nat, NEW j \in Nat, i <= j,
           NEW s \in ApartFrom(j, n, horizon)
    PROVE  s \in ApartFrom(i, n, horizon)
<1>1. s \in Seq(Nat) /\ \A k \in 1 .. Len(s) : j <= s[k]
  BY DEF ApartFrom
<1>2. ASSUME NEW k \in 1 .. Len(s) PROVE i <= s[k]
  <2>1. s[k] \in Nat /\ j <= s[k]
    BY <1>1
  <2> QED BY <2>1
<1> QED BY <1>1, <1>2 DEF ApartFrom

LEMMA StartsWith ==
    ASSUME NEW n \in Nat, NEW horizon \in Nat, NEW i \in Nat, i + horizon <= n,
           NEW s \in ApartFrom(i + horizon, n, horizon)
    PROVE  <<i>> \o s \in ApartFrom(i, n, horizon)
<1> DEFINE t == <<i>> \o s
<1>1. s \in Seq(Nat) /\ \A k \in 1 .. Len(s) : s[k] \in Nat /\ i + horizon <= s[k] /\ s[k] + horizon <= n
  BY DEF ApartFrom
<1>2. t \in Seq(Nat) /\ Len(t) = Len(s) + 1 /\ t[1] = i /\ Len(s) \in Nat
  BY <1>1
<1>3. \A k \in 2 .. Len(t) : k - 1 \in 1 .. Len(s) /\ t[k] = s[k - 1]
  BY <1>1
<1> HIDE DEF t
<1>4. ASSUME NEW k \in 1 .. Len(t) PROVE i <= t[k] /\ t[k] + horizon <= n
  <2>1. CASE k = 1
    BY <2>1, <1>2
  <2>2. CASE k # 1
    <3>1. k \in 2 .. Len(t)
      BY <2>2, <1>2
    <3>2. k - 1 \in 1 .. Len(s) /\ t[k] = s[k - 1]
      BY <3>1, <1>3
    <3>3. s[k - 1] \in Nat /\ i + horizon <= s[k - 1] /\ s[k - 1] + horizon <= n
      BY <3>2, <1>1
    <3> QED BY <3>2, <3>3
  <2> QED BY <2>1, <2>2
<1>5. ASSUME NEW k \in 2 .. Len(t) PROVE t[k] - t[k - 1] >= horizon
  <2>1. CASE k = 2
    <3>1. k \in 2 .. Len(t) /\ k - 1 = 1
      BY <2>1
    <3>2. 1 \in 1 .. Len(s) /\ t[k] = s[1] /\ t[k - 1] = i
      BY <3>1, <1>2, <1>3
    <3>3. PICK x \in Nat : x = s[1] /\ i + horizon <= x
      BY <3>2, <1>1
    <3>4. x - i >= horizon
      BY <3>3
    <3> QED BY <3>2, <3>3, <3>4
  <2>2. CASE k # 2
    <3>1. k - 1 \in 2 .. Len(t) /\ k - 1 \in 2 .. Len(s)
      BY <2>2, <1>2
    <3>2. t[k] = s[k - 1] /\ t[k - 1] = s[(k - 1) - 1]
      BY <3>1, <1>3
    <3>3. s[k - 1] - s[(k - 1) - 1] >= horizon
      BY <3>1 DEF ApartFrom
    <3> QED BY <3>2, <3>3
  <2> QED BY <2>1, <2>2
<1>6. t \in ApartFrom(i, n, horizon)
  BY <1>2, <1>4, <1>5 DEF ApartFrom
<1> QED BY <1>6 DEF t

\* What the search from bar i finds, given what it finds from later ones.
Search(f, i, mask, n, horizon) ==
    IF i + horizon > n THEN <<>>
    ELSE IF i \in mask THEN <<i>> \o f[i + horizon]
    ELSE f[i + 1]

LEMMA SearchStep ==
    ASSUME NEW mask, NEW n \in Nat, NEW horizon \in Nat \ {0}, NEW i \in Nat, NEW f,
           \A j \in i + 1 .. n + horizon : f[j] \in ApartFrom(j, n, horizon)
    PROVE  Search(f, i, mask, n, horizon) \in ApartFrom(i, n, horizon)
<1>1. CASE i + horizon > n
  <2>1. <<>> \in ApartFrom(i, n, horizon)
    BY DEF ApartFrom
  <2> QED BY <1>1, <2>1 DEF Search
<1>2. CASE i + horizon <= n
  <2>1. i + 1 \in i + 1 .. n + horizon /\ i + horizon \in i + 1 .. n + horizon /\ i + 1 \in Nat /\ i + horizon \in Nat
    BY <1>2
  <2>2. f[i + 1] \in ApartFrom(i + 1, n, horizon) /\ f[i + horizon] \in ApartFrom(i + horizon, n, horizon)
    BY <2>1
  <2>3. f[i + 1] \in ApartFrom(i, n, horizon)
    BY <2>1, <2>2, StartsEarlier
  <2>4. <<i>> \o f[i + horizon] \in ApartFrom(i, n, horizon)
    BY <1>2, <2>2, StartsWith
  <2>5. ~(i + horizon > n)
    BY <1>2
  <2> QED BY <2>3, <2>4, <2>5 DEF Search
<1> QED BY <1>1, <1>2

\* A function that gives what the search finds from each bar.
Finds(f, mask, n, horizon) == f = [i \in 1 .. n + horizon |-> Search(f, i, mask, n, horizon)]

\* The search is well defined from every bar.
LEMMA SearchEnds ==
    ASSUME NEW mask, NEW n \in Nat, NEW horizon \in Nat \ {0}
    PROVE  \E f : /\ Finds(f, mask, n, horizon)
                  /\ \A i \in 1 .. n + horizon : f[i] \in ApartFrom(i, n, horizon)
<1> DEFINE top == n + horizon
           Good(a, f) == /\ f = [i \in a .. top |-> Search(f, i, mask, n, horizon)]
                         /\ \A i \in a .. top : f[i] \in ApartFrom(i, n, horizon)
           T == {d \in 0 .. top : ~(\E f : Good(top + 1 - d, f))}
<1>1. top \in Nat
  OBVIOUS
<1>2. T = {}
  <2> SUFFICES ASSUME T # {} PROVE FALSE
    OBVIOUS
  <2>1. T \in SUBSET Nat
    BY <1>1
  <2>2. PICK d \in T : \A x \in T : d <= x
    <3> HIDE DEF T
    <3> QED BY <2>1, LeastOf
  <2>3. d # 0
    <3> SUFFICES ASSUME d = 0 PROVE FALSE
      OBVIOUS
    <3> DEFINE e == [i \in top + 1 .. top |-> <<>>]
    <3>1. top + 1 .. top = {}
      BY <1>1
    <3>2. Good(top + 1, e)
      BY <3>1
    <3> HIDE DEF Good
    <3>3. top + 1 - 0 = top + 1
      BY <1>1
    <3> QED BY <2>2, <3>2, <3>3
  <2>4. d - 1 \in 0 .. top /\ d - 1 \notin T /\ d \in 0 .. top
    <3>1. d \in 0 .. top
      OBVIOUS
    <3>2. d - 1 \in 0 .. top /\ ~(d <= d - 1)
      BY <1>1, <2>3, <3>1
    <3> HIDE DEF T
    <3> QED BY <2>2, <3>1, <3>2
  <2> DEFINE a == top + 1 - d
  <2>5. top + 1 - (d - 1) = a + 1 /\ a \in 1 .. top /\ a \in Nat
    BY <1>1, <2>3, <2>4
  <2>6. PICK f : Good(a + 1, f)
    <3> HIDE DEF Good
    <3> QED BY <2>4, <2>5
  <2> HIDE DEF a
  <2> DEFINE g == [i \in a .. top |-> IF i = a THEN Search(f, a, mask, n, horizon) ELSE f[i]]
  <2>7. a \in a .. top /\ \A i \in a .. top : i = a \/ i \in a + 1 .. top
    BY <1>1, <2>5
  <2>8. a \notin a + 1 .. top /\ \A i \in a + 1 .. top : i \in a .. top
    BY <1>1, <2>5
  <2>9. g[a] = Search(f, a, mask, n, horizon) /\ \A i \in a + 1 .. top : g[i] = f[i]
    BY <2>7, <2>8
  <2>10. \A i \in a .. top : Search(g, i, mask, n, horizon) = Search(f, i, mask, n, horizon)
    <3> SUFFICES ASSUME NEW i \in a .. top
                 PROVE  Search(g, i, mask, n, horizon) = Search(f, i, mask, n, horizon)
      OBVIOUS
    <3>1. CASE i + horizon > n
      BY <3>1 DEF Search
    <3>2. CASE ~(i + horizon > n)
      <4>1. i + 1 \in a + 1 .. top /\ i + horizon \in a + 1 .. top
        BY <1>1, <2>5, <3>2
      <4>2. g[i + 1] = f[i + 1] /\ g[i + horizon] = f[i + horizon]
        BY <4>1, <2>9
      <4> HIDE DEF g
      <4> QED BY <3>2, <4>2 DEF Search
    <3> QED BY <3>1, <3>2
  <2>11. \A i \in a + 1 .. top : f[i] = Search(f, i, mask, n, horizon) /\ f[i] \in ApartFrom(i, n, horizon)
    BY <2>6
  <2>12. Search(f, a, mask, n, horizon) \in ApartFrom(a, n, horizon)
    BY <2>5, <2>11, SearchStep
  <2>13. \A i \in a .. top : g[i] = Search(g, i, mask, n, horizon)
    <3> HIDE DEF g
    <3> QED BY <2>7, <2>9, <2>10, <2>11
  <2>14. \A i \in a .. top : g[i] \in ApartFrom(i, n, horizon)
    <3> HIDE DEF g
    <3> QED BY <2>7, <2>9, <2>11, <2>12
  <2>15. g = [i \in a .. top |-> Search(g, i, mask, n, horizon)]
    <3>1. g = [i \in a .. top |-> g[i]]
      OBVIOUS
    <3> HIDE DEF g
    <3> QED BY <3>1, <2>13
  <2>16. Good(a, g)
    <3> HIDE DEF g
    <3> QED BY <2>14, <2>15
  <2>17. ~(\E h : Good(a, h))
    <3> HIDE DEF Good
    <3> QED BY <2>2 DEF a
  <2> HIDE DEF Good
  <2> QED BY <2>16, <2>17
<1>3. top \in 0 .. top /\ top + 1 - top = 1
  BY <1>1
<1>4. \E f : Good(1, f)
  <2> HIDE DEF Good
  <2> QED BY <1>2, <1>3
<1> QED BY <1>4 DEF Finds

\* Two searches find the same.
LEMMA SearchIsUnique ==
    ASSUME NEW mask, NEW n \in Nat, NEW horizon \in Nat \ {0},
           NEW f, Finds(f, mask, n, horizon), NEW g, Finds(g, mask, n, horizon)
    PROVE  f = g
<1> DEFINE top == n + horizon
           T == {d \in 0 .. top : top - d \in 1 .. top /\ f[top - d] # g[top - d]}
<1> USE DEF Finds
<1>1. top \in Nat
  OBVIOUS
<1>2. T = {}
  <2> SUFFICES ASSUME T # {} PROVE FALSE
    OBVIOUS
  <2>1. T \in SUBSET Nat
    BY <1>1
  <2>2. PICK d \in T : \A x \in T : d <= x
    <3> HIDE DEF T
    <3> QED BY <2>1, LeastOf
  <2> DEFINE a == top - d
  <2>3. d \in 0 .. top /\ a \in 1 .. top /\ f[a] # g[a]
    OBVIOUS
  <2>4. \A j \in a + 1 .. top : f[j] = g[j]
    <3> SUFFICES ASSUME NEW j \in a + 1 .. top PROVE f[j] = g[j]
      OBVIOUS
    <3>1. top - j \in 0 .. top /\ top - (top - j) = j /\ j \in 1 .. top /\ ~(d <= top - j)
      BY <1>1, <2>3
    <3>2. top - j \notin T
      <4> HIDE DEF T
      <4> QED BY <2>2, <3>1
    <3> QED BY <3>1, <3>2
  <2> HIDE DEF a
  <2>5. Search(f, a, mask, n, horizon) = Search(g, a, mask, n, horizon)
    <3> SUFFICES ASSUME ~(a + horizon > n)
                 PROVE  f[a + 1] = g[a + 1] /\ f[a + horizon] = g[a + horizon]
      BY DEF Search
    <3>1. a + 1 \in a + 1 .. top /\ a + horizon \in a + 1 .. top
      BY <1>1, <2>3
    <3> QED BY <3>1, <2>4
  <2>6. f[a] = Search(f, a, mask, n, horizon) /\ g[a] = Search(g, a, mask, n, horizon)
    BY <2>3
  <2> QED BY <2>3, <2>5, <2>6
<1>3. ASSUME NEW i \in 1 .. top PROVE f[i] = g[i]
  <2>1. top - i \in 0 .. top /\ top - (top - i) = i
    BY <1>1
  <2> QED BY <1>2, <2>1
<1>4. f = [i \in 1 .. top |-> f[i]] /\ g = [i \in 1 .. top |-> g[i]]
  OBVIOUS
<1> QED BY <1>3, <1>4

LEMMA TradesOfTheGate ==
    ASSUME NEW mask, NEW n \in Nat, NEW horizon \in Nat \ {0}
    PROVE  TradeEntries(mask, n, horizon) \in ApartFrom(1, n, horizon)
<1>1. PICK f : /\ Finds(f, mask, n, horizon)
               /\ \A i \in 1 .. n + horizon : f[i] \in ApartFrom(i, n, horizon)
  BY SearchEnds
<1> DEFINE from == CHOOSE g : Finds(g, mask, n, horizon)
<1>2. TradeEntries(mask, n, horizon) = from[1]
  BY DEF TradeEntries, Finds, Search
<1>3. Finds(from, mask, n, horizon)
  BY <1>1
<1> HIDE DEF from
<1>4. from = f
  BY <1>1, <1>3, SearchIsUnique
<1>5. 1 \in 1 .. n + horizon
  OBVIOUS
<1> QED BY <1>1, <1>2, <1>4, <1>5

LEMMA GateTradesAreApart ==
    ASSUME bars \in Seq(BarRow)
    PROVE  GateTradesApart
<1> SUFFICES ASSUME NEW mask \in SUBSET (1 .. Len(bars)), NEW horizon \in 1 .. 2
             PROVE  LET e == TradeEntries(mask, Len(bars), horizon)
                    IN /\ \A k \in 2 .. Len(e) : e[k] - e[k - 1] >= horizon
                       /\ e # <<>> => Last(e) + horizon <= Len(bars)
  BY DEF GateTradesApart
<1> DEFINE e == TradeEntries(mask, Len(bars), horizon)
<1>1. e \in ApartFrom(1, Len(bars), horizon)
  <2>1. horizon \in Nat \ {0} /\ Len(bars) \in Nat
    OBVIOUS
  <2> QED BY <2>1, TradesOfTheGate
<1> HIDE DEF e
<1>2. e \in Seq(Nat)
  BY <1>1 DEF ApartFrom
<1>3. e # <<>> => Len(e) \in 1 .. Len(e) /\ Last(e) = e[Len(e)]
  BY <1>2 DEF Last
<1>4. (\A k \in 2 .. Len(e) : e[k] - e[k - 1] >= horizon) /\ (e # <<>> => Last(e) + horizon <= Len(bars))
  BY <1>1, <1>3 DEF ApartFrom
<1> QED BY <1>4 DEF e
-----------------------------------------------------------------------------
(* Sums, and the features made of them.                                     *)

\* A function that gives the sums of the first members of s.
Sums(f, s) == f = [i \in 0 .. Len(s) |-> IF i = 0 THEN 0 ELSE f[i - 1] + s[i]]

LEMMA SumsExist ==
    ASSUME NEW s \in Seq(Int)
    PROVE  \E f : Sums(f, s) /\ f \in [0 .. Len(s) -> Int]
<1> DEFINE Good(n, f) == /\ f \in [0 .. n -> Int] /\ f[0] = 0
                         /\ \A i \in 1 .. n : f[i] = f[i - 1] + s[i]
           T == {n \in 0 .. Len(s) : ~(\E f : Good(n, f))}
<1>1. Len(s) \in Nat /\ \A i \in 1 .. Len(s) : s[i] \in Int
  OBVIOUS
<1>2. T = {}
  <2> SUFFICES ASSUME T # {} PROVE FALSE
    OBVIOUS
  <2>1. T \in SUBSET Nat
    BY <1>1
  <2>2. PICK n \in T : \A x \in T : n <= x
    <3> HIDE DEF T
    <3> QED BY <2>1, LeastOf
  <2>3. n \in 0 .. Len(s) /\ ~(\E f : Good(n, f))
    OBVIOUS
  <2>4. n # 0
    <3> SUFFICES ASSUME n = 0 PROVE FALSE
      OBVIOUS
    <3> DEFINE e == [i \in 0 .. 0 |-> 0]
    <3>1. Good(0, e)
      OBVIOUS
    <3> HIDE DEF Good
    <3> QED BY <2>3, <3>1
  <2>5. n - 1 \in 0 .. Len(s) /\ n - 1 \notin T
    <3>1. n - 1 \in 0 .. Len(s) /\ ~(n <= n - 1)
      BY <1>1, <2>3, <2>4
    <3> HIDE DEF T
    <3> QED BY <2>2, <3>1
  <2>6. PICK f : Good(n - 1, f)
    <3> HIDE DEF Good
    <3> QED BY <2>5
  <2> DEFINE g == [i \in 0 .. n |-> IF i = n THEN f[n - 1] + s[n] ELSE f[i]]
  <2>7. n \in Nat /\ n >= 1 /\ n \in 1 .. Len(s)
    BY <1>1, <2>3, <2>4
  <2>8. f[n - 1] \in Int /\ s[n] \in Int
    BY <1>1, <2>6, <2>7
  <2>9. \A i \in 0 .. n - 1 : f[i] \in Int /\ i \in 0 .. n /\ i # n
    BY <2>6, <2>7
  <2>10. g[n] = f[n - 1] + s[n] /\ \A i \in 0 .. n - 1 : g[i] = f[i]
    BY <2>7, <2>9
  <2>11. g \in [0 .. n -> Int]
    <3>1. \A i \in 0 .. n : i = n \/ i \in 0 .. n - 1
      BY <2>7
    <3>2. \A i \in 0 .. n : (IF i = n THEN f[n - 1] + s[n] ELSE f[i]) \in Int
      BY <3>1, <2>8, <2>9
    <3> QED BY <3>2
  <2> HIDE DEF g
  <2>12. ASSUME NEW i \in 1 .. n PROVE g[i] = g[i - 1] + s[i]
    <3>1. i - 1 \in 0 .. n - 1
      BY <2>7
    <3>2. CASE i = n
      BY <3>1, <3>2, <2>10
    <3>3. CASE i # n
      <4>1. i \in 1 .. n - 1 /\ i \in 0 .. n - 1
        BY <3>3, <2>7
      <4> QED BY <4>1, <3>1, <2>6, <2>10
    <3> QED BY <3>2, <3>3
  <2>13. g[0] = 0
    <3>1. 0 \in 0 .. n - 1
      BY <2>7
    <3> QED BY <3>1, <2>6, <2>10
  <2>14. Good(n, g)
    BY <2>11, <2>12, <2>13
  <2> HIDE DEF Good
  <2> QED BY <2>3, <2>14
<1>3. PICK f : Good(Len(s), f)
  <2>1. Len(s) \in 0 .. Len(s)
    BY <1>1
  <2> HIDE DEF Good
  <2> QED BY <1>2, <2>1
<1>4. \A i \in 0 .. Len(s) : f[i] = IF i = 0 THEN 0 ELSE f[i - 1] + s[i]
  <2>1. \A i \in 0 .. Len(s) : i = 0 \/ i \in 1 .. Len(s)
    BY <1>1
  <2> QED BY <2>1, <1>3
<1>5. f = [i \in 0 .. Len(s) |-> f[i]]
  BY <1>3
<1> QED BY <1>3, <1>4, <1>5 DEF Sums

\* Two functions of the sums of one sequence are the same, in particular at its
\* end; and sums of smaller members are smaller.
LEMMA SumsAreMonotone ==
    ASSUME NEW s \in Seq(Int), NEW t \in Seq(Int), Len(s) = Len(t),
           \A k \in 1 .. Len(s) : s[k] <= t[k],
           NEW f, Sums(f, s), NEW g, Sums(g, t)
    PROVE  \A n \in 0 .. Len(s) : f[n] \in Int /\ g[n] \in Int /\ f[n] <= g[n]
<1> DEFINE Good(n) == f[n] \in Int /\ g[n] \in Int /\ f[n] <= g[n]
           T == {n \in 0 .. Len(s) : ~Good(n)}
<1>1. Len(s) \in Nat /\ \A i \in 1 .. Len(s) : s[i] \in Int /\ t[i] \in Int /\ s[i] <= t[i]
  OBVIOUS
<1>2. f[0] = 0 /\ g[0] = 0
  BY <1>1 DEF Sums
<1>3. ASSUME NEW i \in 1 .. Len(s) PROVE f[i] = f[i - 1] + s[i] /\ g[i] = g[i - 1] + t[i]
  <2>1. i \in 0 .. Len(s) /\ i # 0
    BY <1>1
  <2> QED BY <2>1 DEF Sums
<1>4. ASSUME T # {} PROVE FALSE
  <2>1. T \in SUBSET Nat
    BY <1>1
  <2>2. PICK n \in T : \A x \in T : n <= x
    <3> HIDE DEF T
    <3> QED BY <1>4, <2>1, LeastOf
  <2>3. n \in 0 .. Len(s) /\ ~Good(n)
    OBVIOUS
  <2>4. n # 0
    BY <1>2, <2>3
  <2>5. n - 1 \in 0 .. Len(s) /\ ~(n <= n - 1) /\ n \in 1 .. Len(s)
    BY <1>1, <2>3, <2>4
  <2>6. n - 1 \notin T
    <3> HIDE DEF T
    <3> QED BY <2>2, <2>5
  <2>7. Good(n - 1)
    BY <2>5, <2>6
  <2>8. PICK a \in Int, b \in Int : a = f[n - 1] /\ b = g[n - 1] /\ a <= b
    BY <2>7
  <2>9. PICK x \in Int, y \in Int : x = s[n] /\ y = t[n] /\ x <= y
    BY <1>1, <2>5
  <2>10. f[n] = a + x /\ g[n] = b + y
    BY <1>3, <2>5, <2>8, <2>9
  <2>11. a <= b /\ x <= y
    BY <2>8, <2>9
  <2>12. a + x \in Int /\ b + y \in Int /\ a + x <= b + y
    BY <2>11
  <2> QED BY <2>3, <2>10, <2>12
<1> QED BY <1>4

LEMMA TotalIsSum ==
    ASSUME NEW s \in Seq(Int)
    PROVE  \E f : Sums(f, s) /\ Total(s) = f[Len(s)]
<1> DEFINE sum == CHOOSE f : Sums(f, s)
<1>1. Sums(sum, s)
  BY SumsExist
<1>2. Total(s) = sum[Len(s)]
  BY DEF Total, Sums
<1> QED BY <1>1, <1>2

LEMMA TotalIsMonotone ==
    ASSUME NEW s \in Seq(Int), NEW t \in Seq(Int), Len(s) = Len(t),
           \A k \in 1 .. Len(s) : s[k] <= t[k]
    PROVE  Total(s) \in Int /\ Total(t) \in Int /\ Total(s) <= Total(t)
<1>1. PICK f : Sums(f, s) /\ Total(s) = f[Len(s)]
  BY TotalIsSum
<1>2. PICK g : Sums(g, t) /\ Total(t) = g[Len(t)]
  BY TotalIsSum
<1>3. Len(s) \in 0 .. Len(s)
  OBVIOUS
<1> QED BY <1>1, <1>2, <1>3, SumsAreMonotone

\* The sum of nothing but zeros is zero.
LEMMA TotalOfZeros ==
    ASSUME NEW n \in Nat
    PROVE  Total([k \in 1 .. n |-> 0]) = 0
<1> DEFINE z == [k \in 1 .. n |-> 0]
           f == [i \in 0 .. n |-> 0]
<1>1. z \in Seq(Int) /\ Len(z) = n /\ \A k \in 1 .. n : z[k] = 0
  OBVIOUS
<1>2. Sums(f, z)
  <2>1. \A i \in 0 .. n : 0 = IF i = 0 THEN 0 ELSE f[i - 1] + z[i]
    <3> SUFFICES ASSUME NEW i \in 0 .. n, i # 0 PROVE f[i - 1] + z[i] = 0
      OBVIOUS
    <3>1. f[i - 1] = 0 /\ z[i] = 0
      OBVIOUS
    <3> QED BY <3>1
  <2> HIDE DEF z
  <2> QED BY <2>1, <1>1 DEF Sums
<1>3. PICK g : Sums(g, z) /\ Total(z) = g[Len(z)]
  <2> HIDE DEF z
  <2> QED BY <1>1, TotalIsSum
<1>4. \A k \in 1 .. Len(z) : z[k] <= z[k]
  BY <1>1
<1>5. n \in 0 .. Len(z) /\ f[n] = 0
  BY <1>1
<1> HIDE DEF z, f
<1>6. f[n] \in Int /\ g[n] \in Int /\ f[n] <= g[n] /\ g[n] <= f[n]
  BY <1>1, <1>2, <1>3, <1>4, <1>5, SumsAreMonotone
<1>7. Total(z) = 0
  BY <1>1, <1>3, <1>5, <1>6
<1> QED BY <1>7 DEF z

\* The trailing window of a sequence.
LEMMA TrailingWindow ==
    ASSUME NEW S, NEW s \in Seq(S), NEW n \in Nat \ {0}, NEW i \in Nat, n <= i, i <= Len(s)
    PROVE  /\ Trailing(s, i, n) \in Seq(S) /\ Len(Trailing(s, i, n)) = n
           /\ \A k \in 1 .. n : Trailing(s, i, n)[k] \in S
<1> DEFINE w == SubSeq(s, i - n + 1, i)
<1>1. i - n + 1 \in 1 .. Len(s) /\ i \in 1 .. Len(s) /\ i - (i - n + 1) + 1 = n
  OBVIOUS
<1>2. w \in Seq(S) /\ Len(w) = n
  BY <1>1
<1>3. \A k \in 1 .. n : w[k] \in S
  BY <1>2
<1> QED BY <1>2, <1>3 DEF Trailing

\* A bar's typical price is at least one.
LEMMA TypicalIsPositive ==
    ASSUME NEW r \in BarRow
    PROVE  Typical(r) \in Nat /\ Typical(r) >= 1 /\ r.v \in Nat /\ r.c \in Nat
<1>1. r.h \in Nat /\ r.l \in Nat /\ r.c \in Nat /\ r.v \in Nat /\ 0 < r.l /\ r.l <= r.h /\ r.l <= r.c
  BY DEF BarRow
<1>2. PICK x \in Nat : x = r.h + r.l + r.c /\ x >= 3
  BY <1>1
<1>3. x \div 3 \in Nat /\ x \div 3 >= 1
  BY <1>2
<1> QED BY <1>1, <1>2, <1>3 DEF Typical

LEMMA VolumesAreNat ==
    ASSUME NEW b \in Seq(BarRow)
    PROVE  Volumes(b) \in Seq(Nat) /\ Len(Volumes(b)) = Len(b) /\ \A k \in 1 .. Len(b) : Volumes(b)[k] = b[k].v
<1>1. \A k \in 1 .. Len(b) : b[k].v \in Nat
  <2>1. \A k \in 1 .. Len(b) : b[k] \in BarRow
    OBVIOUS
  <2> QED BY <2>1, TypicalIsPositive
<1>2. Volumes(b) = [k \in 1 .. Len(b) |-> b[k].v]
  BY DEF Volumes, Column
<1>3. Len(b) \in Nat
  OBVIOUS
<1> QED BY <1>1, <1>2, <1>3

LEMMA VolumeZIsNumber ==
    ASSUME NEW b \in Seq(BarRow), NEW i \in Nat, VolumeWindow <= i, i <= Len(b)
    PROVE  VolumeZ(b, i) \in Int
<1> DEFINE w == Trailing(Volumes(b), i, VolumeWindow)
<1>1. Volumes(b) \in Seq(Nat) /\ Len(Volumes(b)) = Len(b)
  BY VolumesAreNat
<1>2. VolumeWindow \in Nat \ {0}
  BY TrainingAssumption
<1>3. w \in Seq(Nat) /\ Len(w) = VolumeWindow /\ \A k \in 1 .. VolumeWindow : w[k] \in Nat
  BY <1>1, <1>2, TrailingWindow
<1> HIDE DEF w
<1>4. w \in Seq(Int)
  BY <1>3
<1>5. \A k \in 1 .. Len(w) : w[k] <= w[k]
  BY <1>3
<1>6. Total(w) \in Int
  BY <1>4, <1>5, TotalIsMonotone
<1>7. w[VolumeWindow] \in Int
  BY <1>2, <1>3
<1>8. 100 * w[VolumeWindow] - (100 * Total(w)) \div VolumeWindow \in Int
  BY <1>2, <1>6, <1>7
<1>9. VolumeZ(b, i) = IF Cardinality(ToSet(w)) = 1 THEN 0
                      ELSE 100 * w[VolumeWindow] - (100 * Total(w)) \div VolumeWindow
  BY DEF VolumeZ, w
<1> QED BY <1>8, <1>9

\* The mean price of a window with volume is not zero.
LEMMA VwapDistIsNumber ==
    ASSUME NEW b \in Seq(BarRow), NEW i \in Nat, VolumeWindow <= i, i <= Len(b)
    PROVE  VwapDist(b, i) \in Int
<1> DEFINE w == Trailing(b, i, VolumeWindow)
           vs == Volumes(w)
           zs == [k \in 1 .. VolumeWindow |-> 0]
           ps == [k \in 1 .. VolumeWindow |-> Typical(w[k]) * w[k].v]
           v == Total(vs)
           pv == Total(ps)
<1>1. VolumeWindow \in Nat \ {0}
  BY TrainingAssumption
<1>2. w \in Seq(BarRow) /\ Len(w) = VolumeWindow /\ \A k \in 1 .. VolumeWindow : w[k] \in BarRow
  BY <1>1, TrailingWindow
<1> HIDE DEF w
<1>3. vs \in Seq(Int) /\ Len(vs) = VolumeWindow /\ \A k \in 1 .. VolumeWindow : vs[k] = w[k].v
  <2>1. vs \in Seq(Nat) /\ Len(vs) = Len(w) /\ \A k \in 1 .. Len(w) : vs[k] = w[k].v
    BY <1>2, VolumesAreNat
  <2> HIDE DEF vs
  <2>2. vs \in Seq(Int)
    BY <2>1
  <2> QED BY <2>1, <2>2, <1>2
<1>4. ASSUME NEW k \in 1 .. VolumeWindow
      PROVE  /\ w[k].v \in Nat /\ Typical(w[k]) * w[k].v \in Nat
             /\ w[k].v <= Typical(w[k]) * w[k].v
  <2>1. PICK x \in Nat, y \in Nat : x = Typical(w[k]) /\ y = w[k].v /\ x >= 1
    BY <1>2, TypicalIsPositive
  <2>2. PICK d \in Nat : x = d + 1
    <3>1. x - 1 \in Nat /\ x = (x - 1) + 1
      BY <2>1
    <3> QED BY <3>1
  <2>3. d * y \in Nat /\ (d + 1) * y = d * y + y
    OBVIOUS
  <2>4. x * y \in Nat /\ y <= x * y
    BY <2>2, <2>3
  <2> QED BY <2>1, <2>4
<1>5. ps \in Seq(Int) /\ Len(ps) = VolumeWindow /\ \A k \in 1 .. VolumeWindow : vs[k] <= ps[k]
  <2>1. \A k \in 1 .. VolumeWindow : Typical(w[k]) * w[k].v \in Int /\ w[k].v <= Typical(w[k]) * w[k].v
    BY <1>4
  <2>2. \A k \in 1 .. VolumeWindow : ps[k] = Typical(w[k]) * w[k].v
    OBVIOUS
  <2>3. ps \in Seq(Int) /\ Len(ps) = VolumeWindow
    BY <1>1, <2>1
  <2> HIDE DEF ps, vs
  <2> QED BY <2>1, <2>2, <2>3, <1>3
<1>6. zs \in Seq(Int) /\ Len(zs) = VolumeWindow /\ \A k \in 1 .. VolumeWindow : zs[k] <= vs[k]
  BY <1>1, <1>3, <1>4
<1>7. Total(zs) = 0
  BY <1>1, TotalOfZeros
<1> HIDE DEF vs, zs, ps
<1>8. v \in Int /\ pv \in Int /\ v <= pv
  BY <1>3, <1>5, TotalIsMonotone
<1>9. Total(zs) <= v
  BY <1>3, <1>6, TotalIsMonotone
<1>10. VwapDist(b, i) = IF v = 0 THEN 0 ELSE (10000 * (b[i].c - pv \div v)) \div (pv \div v)
  BY DEF VwapDist, w, vs, ps
<1>11. b[i].c \in Int
  <2>1. i \in 1 .. Len(b)
    BY <1>1
  <2>2. b[i] \in BarRow
    BY <2>1
  <2>3. b[i].c \in Nat
    BY <2>2, TypicalIsPositive
  <2> QED BY <2>3
<1> HIDE DEF v, pv
<1>12. ASSUME v # 0 PROVE (10000 * (b[i].c - pv \div v)) \div (pv \div v) \in Int
  <2>1. v >= 1 /\ v <= pv
    BY <1>7, <1>8, <1>9, <1>12
  <2>2. PICK q \in Int : q = pv \div v /\ q >= 1
    BY <2>1, <1>8
  <2>3. 10000 * (b[i].c - q) \in Int
    BY <1>11
  <2> QED BY <2>2, <2>3
<1> QED BY <1>10, <1>12

LEMMA NewestRowIsServed ==
    ASSUME bars \in Seq(BarRow)
    PROVE  NewestRowServed
<1> SUFFICES ASSUME Len(bars) > FeatureBars, Len(bars) >= VolumeWindow
             PROVE  Len(bars) \in FeatureRows(bars)
  BY DEF NewestRowServed
<1>1. Len(bars) \in Nat /\ FeatureBars \in Nat /\ VolumeWindow \in Nat
  BY TrainingAssumption
<1>2. VolumeZ(bars, Len(bars)) \in Int /\ VwapDist(bars, Len(bars)) \in Int
  BY <1>1, VolumeZIsNumber, VwapDistIsNumber
<1>3. Known(VolumeZ(bars, Len(bars))) /\ Known(VwapDist(bars, Len(bars)))
  BY <1>2, IndicatorsAssumption DEF Known
<1>4. Len(bars) \in FeatureBars + 1 .. Len(bars)
  BY <1>1
<1> QED BY <1>3, <1>4 DEF FeatureRows

\* ml/train.py:86-130: for any bars, folds, horizons and windows: a feature row of the
\* newest bar is served, no label of a training row reaches into the test rows of its
\* fold, a barrier label is decided after its entry and within the horizon, and
\* the trades of the gate do not overlap.
THEOREM TrainingIsHeldOut == Spec => []TrainingHeldOut
<1>1. ASSUME BarsInv PROVE TrainingHeldOut
  <2>1. bars \in Seq(BarRow) /\ Len(bars) \in Nat
    BY <1>1 DEF BarsInv
  <2> QED BY <2>1, NewestRowIsServed, FoldsAreHeldOut, GateTradesAreApart, LabelsLookAhead
          DEF TrainingHeldOut
<1> QED BY <1>1, BarsInvariant, PTL
-----------------------------------------------------------------------------
(* Sequences of bars and of numbers.                                        *)

LEMMA FunctionIsSequence ==
    ASSUME NEW X, NEW n \in Nat, NEW f \in [1 .. n -> X]
    PROVE  f \in Seq(X) /\ Len(f) = n
OBVIOUS

\* What holds at 0 and goes on holding holds up to n.
LEMMA UpFromZero ==
    ASSUME NEW n \in Nat, NEW T, 0 \in T, \A i \in 1 .. n : i - 1 \in T => i \in T
    PROVE  0 .. n \subseteq T
<1> DEFINE R == {i \in 0 .. n : i \notin T}
<1>1. ASSUME R # {} PROVE FALSE
  <2>1. R \in SUBSET Nat
    OBVIOUS
  <2>2. PICK i \in R : \A x \in R : i <= x
    <3> HIDE DEF R
    <3> QED BY <1>1, <2>1, LeastOf
  <2>3. i \in 0 .. n /\ i \notin T
    BY <2>2
  <2>4. i # 0
    BY <2>3
  <2>5. i \in 1 .. n /\ i - 1 \in 0 .. n /\ ~(i <= i - 1)
    BY <2>3, <2>4
  <2>6. i - 1 \notin R
    <3> HIDE DEF R
    <3> QED BY <2>2, <2>5
  <2> QED BY <2>3, <2>5, <2>6
<1> QED BY <1>1

\* The members of a sequence at some of its places.
LEMMA MembersAreOf ==
    ASSUME NEW X, NEW s \in Seq(X), NEW S \in SUBSET (1 .. Len(s))
    PROVE  /\ MembersAt(s, S) \in Seq(X) /\ Len(MembersAt(s, S)) = Cardinality(S)
           /\ Cardinality(S) \in Nat
           /\ \A r \in 1 .. Cardinality(S) :
                 InOrder(S)[r] \in S /\ MembersAt(s, S)[r] = s[InOrder(S)[r]]
<1>1. Len(s) \in Nat
  OBVIOUS
<1>2. Cardinality(S) \in Nat /\ InOrder(S) \in [1 .. Cardinality(S) -> S]
  BY <1>1, InOrderAscends
<1>3. \A r \in 1 .. Cardinality(S) : InOrder(S)[r] \in S /\ s[InOrder(S)[r]] \in X
  <2>1. \A i \in S : s[i] \in X
    OBVIOUS
  <2> QED BY <2>1, <1>2
<1>4. MembersAt(s, S) = [r \in 1 .. Cardinality(S) |-> s[InOrder(S)[r]]]
  BY DEF MembersAt
<1> QED BY <1>2, <1>3, <1>4

\* A sequence of numbers has a least and a greatest.
LEMMA ExtremesAreMembers ==
    ASSUME NEW s \in Seq(Nat), s # <<>>
    PROVE  /\ Smallest(s) \in ToSet(s) /\ Largest(s) \in ToSet(s)
           /\ Smallest(s) \in Nat /\ Largest(s) \in Nat
           /\ \A i \in 1 .. Len(s) : Smallest(s) <= s[i] /\ s[i] <= Largest(s)
<1> DEFINE V == ToSet(s)
           n == Len(s)
           T == {k \in 0 .. n : k = 0 \/ \E m \in 1 .. k : \A j \in 1 .. k : s[j] <= s[m]}
<1>1. n \in Nat /\ n >= 1 /\ \A i \in 1 .. n : s[i] \in Nat
  OBVIOUS
<1>2. V = {s[i] : i \in 1 .. n}
  BY DEF ToSet
<1>3. V \in SUBSET Nat /\ s[1] \in V
  BY <1>1, <1>2
<1> HIDE DEF V, n
<1>4. Min(V) \in V /\ \A x \in V : Min(V) <= x
  BY <1>3, LeastIsMin
<1>5. n \in T
  <2>1. 0 \in T
    BY <1>1
  <2>2. ASSUME NEW k \in 1 .. n, k - 1 \in T PROVE k \in T
    <3>1. k \in 0 .. n /\ k \in 1 .. k /\ \A j \in 1 .. k : j = k \/ j \in 1 .. k - 1
      BY <1>1
    <3>2. CASE k = 1
      <4>1. \A j \in 1 .. k : s[j] <= s[k]
        BY <3>2, <1>1
      <4> QED BY <4>1, <3>1
    <3>3. CASE k # 1
      <4>1. PICK m \in 1 .. k - 1 : \A j \in 1 .. k - 1 : s[j] <= s[m]
        BY <2>2, <3>3
      <4>2. /\ m \in 1 .. k /\ m \in 1 .. n /\ k \in 1 .. k
            /\ \A j \in 1 .. k - 1 : j \in 1 .. n
        BY <1>1
      <4>3. PICK x \in Nat, y \in Nat : x = s[m] /\ y = s[k]
        BY <4>2, <1>1
      <4>4. \A j \in 1 .. k - 1 : s[j] \in Nat /\ s[j] <= x
        BY <4>1, <4>2, <4>3, <1>1
      <4>5. ASSUME NEW z \in Nat, x <= z, y <= z PROVE \A j \in 1 .. k : s[j] <= z
        <5>1. \A a \in Nat : a <= x => a <= z
          BY <4>5
        <5>2. \A j \in 1 .. k - 1 : s[j] <= z
          BY <5>1, <4>4
        <5> QED BY <5>2, <3>1, <4>3, <4>5
      <4>6. x <= y \/ y <= x
        OBVIOUS
      <4>7. x <= x /\ y <= y
        OBVIOUS
      <4>8. CASE x <= y
        <5>1. \A j \in 1 .. k : s[j] <= s[k]
          BY <4>5, <4>7, <4>8, <4>3
        <5> QED BY <5>1, <3>1
      <4>9. CASE y <= x
        <5>1. \A j \in 1 .. k : s[j] <= s[m]
          BY <4>5, <4>7, <4>9, <4>3
        <5> QED BY <5>1, <3>1, <4>2
      <4> QED BY <4>6, <4>8, <4>9
    <3> QED BY <3>2, <3>3
  <2> HIDE DEF T
  <2>3. 0 .. n \subseteq T
    BY <1>1, <2>1, <2>2, UpFromZero
  <2> QED BY <2>3, <1>1
<1>6. PICK m \in 1 .. n : \A j \in 1 .. n : s[j] <= s[m]
  BY <1>1, <1>5
<1>7. s[m] \in V /\ \A x \in V : s[m] >= x
  <2>1. \A j \in 1 .. n : s[m] >= s[j]
    BY <1>1, <1>6
  <2> QED BY <2>1, <1>2
<1>8. Max(V) \in V /\ \A x \in V : Max(V) >= x
  BY <1>7 DEF Max
<1>9. \A i \in 1 .. n : s[i] \in V
  BY <1>2
<1>10. Smallest(s) = Min(V) /\ Largest(s) = Max(V)
  BY DEF Smallest, Largest, V
<1>11. \A x \in V : x \in Nat
  BY <1>3
<1>12. \A i \in 1 .. n : Min(V) <= s[i] /\ s[i] <= Max(V)
  <2>1. \A x \in V : Min(V) <= x /\ x <= Max(V)
    BY <1>4, <1>8, <1>11
  <2> QED BY <2>1, <1>9
<1>13. Min(V) \in V /\ Max(V) \in V /\ Min(V) \in Nat /\ Max(V) \in Nat
  BY <1>4, <1>8, <1>11
<1> QED BY <1>10, <1>12, <1>13 DEF n, V

LEMMA SmallestAndLargest ==
    ASSUME NEW s \in Seq(Nat), s # <<>>
    PROVE  /\ Smallest(s) \in Nat /\ Largest(s) \in Nat
           /\ \A i \in 1 .. Len(s) : Smallest(s) <= s[i] /\ s[i] <= Largest(s)
BY ExtremesAreMembers

\* A bounded set of numbers has a greatest member.
LEMMA GreatestIsMax ==
    ASSUME NEW N \in Nat, NEW S \in SUBSET (1 .. N), S # {}
    PROVE  Max(S) \in S /\ \A x \in S : Max(S) >= x
<1> DEFINE A == {b \in 1 .. N : \A x \in S : x <= b}
<1>0. \A x \in S : x \in Int /\ 1 <= x /\ x <= N
  OBVIOUS
<1>1. A \in SUBSET Nat /\ A # {}
  <2>1. N \in 1 .. N
    <3>1. PICK y \in S : TRUE
      OBVIOUS
    <3>2. y \in Int /\ 1 <= y /\ y <= N
      BY <1>0
    <3> QED BY <3>2
  <2>2. N \in A
    BY <2>1, <1>0
  <2> QED BY <2>2
<1>2. PICK b \in A : \A x \in A : b <= x
  <2> HIDE DEF A
  <2> QED BY <1>1, LeastOf
<1>3. b \in 1 .. N /\ \A x \in S : x <= b
  BY <1>2
<1>4. b \in S
  <2> SUFFICES ASSUME b \notin S PROVE FALSE
    OBVIOUS
  <2>1. \A x \in S : x <= b - 1 /\ 1 <= x
    <3> SUFFICES ASSUME NEW x \in S PROVE x <= b - 1 /\ 1 <= x
      OBVIOUS
    <3>1. x \in Int /\ x <= b /\ x # b /\ 1 <= x
      BY <1>0, <1>3
    <3> QED BY <3>1, <1>3
  <2>2. PICK y \in S : TRUE
    OBVIOUS
  <2>3. b - 1 \in 1 .. N /\ ~(b <= b - 1)
    <3>1. y \in Int /\ y <= b - 1 /\ 1 <= y
      BY <2>1, <2>2, <1>0
    <3> QED BY <3>1, <1>3
  <2>4. b - 1 \in A
    BY <2>1, <2>3
  <2> HIDE DEF A
  <2> QED BY <1>2, <2>3, <2>4
<1>5. \A x \in S : b >= x
  BY <1>0, <1>3
<1> QED BY <1>4, <1>5 DEF Max

\* The square root of a number is one.
LEMMA SqrtIsNat ==
    ASSUME NEW x \in Nat
    PROVE  Sqrt(x) \in Nat
<1> DEFINE A == {r \in 0 .. x : x < Square(r + 1)}
<1>1. x \in A
  <2>1. (x + 1) * (x + 1) = x * x + x + x + 1 /\ x * x \in Nat
    OBVIOUS
  <2> QED BY <2>1 DEF Square
<1>2. PICK r \in A : \A y \in A : r <= y
  <2>1. A \in SUBSET Nat /\ A # {}
    BY <1>1
  <2> HIDE DEF A
  <2> QED BY <2>1, LeastOf
<1>3. r \in 0 .. x /\ x < Square(r + 1)
  BY <1>2
<1>4. Square(r) <= x
  <2>1. CASE r = 0
    <3>1. r * r = 0
      BY <2>1
    <3> QED BY <3>1 DEF Square
  <2>2. CASE r # 0
    <3>1. r - 1 \in 0 .. x /\ ~(r <= r - 1) /\ (r - 1) + 1 = r
      BY <1>3, <2>2
    <3>2. r - 1 \notin A
      <4> HIDE DEF A
      <4> QED BY <3>1, <1>2
    <3>3. ~(x < Square(r))
      BY <3>1, <3>2
    <3>4. Square(r) \in Int
      BY <1>3 DEF Square
    <3> QED BY <3>3, <3>4
  <2> QED BY <2>1, <2>2
<1>5. \E q \in 0 .. x : Square(q) <= x /\ x < Square(q + 1)
  BY <1>3, <1>4
<1>6. Sqrt(x) \in 0 .. x
  BY <1>5 DEF Sqrt
<1> QED BY <1>6
\* What is given at 0, and at each number from the one before it, is a function.
Steps(f, n, X, x0, step) ==
    /\ f \in [0 .. n -> X] /\ f[0] = x0
    /\ \A i \in 1 .. n : f[i] = step[i][f[i - 1]]

LEMMA RecursionExists ==
    ASSUME NEW n \in Nat, NEW X, NEW x0 \in X, NEW step \in [1 .. n -> [X -> X]]
    PROVE  \E f : Steps(f, n, X, x0, step)
<1> DEFINE Good(m, f) == /\ f \in [0 .. m -> X] /\ f[0] = x0
                         /\ \A i \in 1 .. m : f[i] = step[i][f[i - 1]]
           T == {m \in 0 .. n : \E f : Good(m, f)}
<1>1. 0 \in T
  <2> DEFINE e == [i \in 0 .. 0 |-> x0]
  <2>1. Good(0, e)
    OBVIOUS
  <2> HIDE DEF Good
  <2> QED BY <2>1
<1>2. ASSUME NEW m \in 1 .. n, m - 1 \in T PROVE m \in T
  <2>1. PICK f : Good(m - 1, f)
    <3> HIDE DEF Good
    <3> QED BY <1>2
  <2> DEFINE g == [i \in 0 .. m |-> IF i = m THEN step[m][f[m - 1]] ELSE f[i]]
  <2>2. m \in Nat /\ m - 1 \in 0 .. m - 1 /\ m \in 0 .. m /\ m \in 0 .. n /\ 0 \in 0 .. m - 1
    OBVIOUS
  <2>3. f[m - 1] \in X /\ step[m] \in [X -> X]
    BY <2>1, <2>2
  <2>4. step[m][f[m - 1]] \in X
    BY <2>3
  <2>5. \A i \in 0 .. m - 1 : f[i] \in X /\ i \in 0 .. m /\ i # m
    BY <2>1, <2>2
  <2>6. g[m] = step[m][f[m - 1]] /\ \A i \in 0 .. m - 1 : g[i] = f[i]
    BY <2>2, <2>5
  <2>7. g \in [0 .. m -> X]
    <3>1. \A i \in 0 .. m : i = m \/ i \in 0 .. m - 1
      BY <2>2
    <3>2. \A i \in 0 .. m : (IF i = m THEN step[m][f[m - 1]] ELSE f[i]) \in X
      BY <3>1, <2>4, <2>5
    <3> QED BY <3>2
  <2> HIDE DEF g
  <2>8. ASSUME NEW i \in 1 .. m PROVE g[i] = step[i][g[i - 1]]
    <3>1. i - 1 \in 0 .. m - 1
      BY <2>2
    <3>2. CASE i = m
      BY <3>1, <3>2, <2>6
    <3>3. CASE i # m
      <4>1. i \in 1 .. m - 1 /\ i \in 0 .. m - 1
        BY <3>3, <2>2
      <4> QED BY <4>1, <3>1, <2>1, <2>6
    <3> QED BY <3>2, <3>3
  <2>9. g[0] = x0
    BY <2>1, <2>2, <2>6
  <2>10. Good(m, g)
    BY <2>7, <2>8, <2>9
  <2> HIDE DEF Good
  <2> QED BY <2>2, <2>10
<1>3. n \in T
  <2>1. n \in 0 .. n
    OBVIOUS
  <2> HIDE DEF T
  <2> QED BY <2>1, <1>1, <1>2, UpFromZero
<1>4. PICK f : Good(n, f)
  <2> HIDE DEF Good
  <2> QED BY <1>3
<1>5. Steps(f, n, X, x0, step)
  BY <1>4 DEF Steps
<1> QED BY <1>5

-----------------------------------------------------------------------------
(* Values of the indicators the presets read.                               *)

\* The sum the simple average carries along.
Accumulates(f, s, p) ==
    f = [i \in 0 .. Len(s) |-> IF i = 0 THEN 0
                               ELSE f[i - 1] + s[i] - (IF i > p THEN s[i - p] ELSE 0)]

LEMMA SmaIsNumber ==
    ASSUME NEW s \in Seq(Int), NEW p \in Nat \ {0}
    PROVE  /\ DOMAIN sma(s, p) = 1 .. Len(s) /\ Len(sma(s, p)) = Len(s)
           /\ \A i \in 1 .. Len(s) : i >= p => sma(s, p)[i] \in Int
           /\ \A i \in 1 .. Len(s) : i < p => sma(s, p)[i] = NaN
<1> DEFINE n == Len(s)
           New(i) == s[i] - (IF i > p THEN s[i - p] ELSE 0)
           step == [i \in 1 .. n |-> [x \in Int |-> x + s[i] - (IF i > p THEN s[i - p] ELSE 0)]]
           running == CHOOSE f : Accumulates(f, s, p)
<1>1. n \in Nat /\ \A i \in 1 .. n : s[i] \in Int
  OBVIOUS
<1>2. ASSUME NEW i \in 1 .. n PROVE (IF i > p THEN s[i - p] ELSE 0) \in Int
  <2>1. CASE i > p
    <3>1. i - p \in 1 .. n
      BY <2>1, <1>1
    <3> QED BY <3>1, <2>1, <1>1
  <2>2. CASE ~(i > p)
    BY <2>2
  <2> QED BY <2>1, <2>2
<1>3. ASSUME NEW i \in 1 .. n, NEW x \in Int
      PROVE  x + s[i] - (IF i > p THEN s[i - p] ELSE 0) \in Int
  <2>1. PICK a \in Int, b \in Int : a = s[i] /\ b = (IF i > p THEN s[i - p] ELSE 0)
    BY <1>1, <1>2
  <2>2. x + a - b \in Int
    OBVIOUS
  <2> QED BY <2>1, <2>2
<1>4. step \in [1 .. n -> [Int -> Int]]
  BY <1>3
<1>5. \A i \in 1 .. n : \A x \in Int :
         step[i][x] = x + s[i] - (IF i > p THEN s[i - p] ELSE 0)
  OBVIOUS
<1> HIDE DEF step
<1>6. PICK f \in [0 .. n -> Int] : f[0] = 0 /\ \A i \in 1 .. n : f[i] = step[i][f[i - 1]]
  <2> DEFINE X == Int
  <2>1. 0 \in X /\ step \in [1 .. n -> [X -> X]]
    BY <1>4
  <2> HIDE DEF n, X
  <2>2. \E f : Steps(f, n, X, 0, step)
    BY <1>1, <2>1, RecursionExists
  <2> QED BY <2>2 DEF X, Steps
<1>7. Accumulates(f, s, p)
  <2>1. ASSUME NEW i \in 1 .. n
        PROVE  f[i] = f[i - 1] + s[i] - (IF i > p THEN s[i - p] ELSE 0)
    <3>1. i - 1 \in 0 .. n
      BY <1>1
    <3>2. f[i - 1] \in Int
      BY <3>1
    <3> QED BY <3>2, <1>5, <1>6
  <2>2. \A i \in 0 .. n : i = 0 \/ i \in 1 .. n
    BY <1>1
  <2>3. \A i \in 0 .. n : f[i] = IF i = 0 THEN 0
                                 ELSE f[i - 1] + s[i] - (IF i > p THEN s[i - p] ELSE 0)
    BY <2>1, <2>2, <1>6
  <2>4. f = [i \in 0 .. n |-> f[i]]
    BY <1>6
  <2> QED BY <2>3, <2>4 DEF Accumulates
<1>8. Accumulates(running, s, p)
  BY <1>7
<1> HIDE DEF running
<1>9. \A i \in 0 .. n : running[i] \in Int
  <2> DEFINE T == {i \in 0 .. n : running[i] \in Int}
  <2>1. 0 \in T
    BY <1>1, <1>8 DEF Accumulates
  <2>2. ASSUME NEW i \in 1 .. n, i - 1 \in T PROVE i \in T
    <3>1. i \in 0 .. n /\ i # 0
      BY <1>1
    <3>2. running[i] = running[i - 1] + s[i] - (IF i > p THEN s[i - p] ELSE 0)
      BY <3>1, <1>8 DEF Accumulates
    <3>3. running[i - 1] \in Int
      BY <2>2
    <3>4. running[i - 1] + s[i] - (IF i > p THEN s[i - p] ELSE 0) \in Int
      BY <3>3, <1>3
    <3> QED BY <3>1, <3>2, <3>4
  <2> HIDE DEF T
  <2>3. 0 .. n \subseteq T
    <3> HIDE DEF n
    <3> QED BY <1>1, <2>1, <2>2, UpFromZero
  <2> QED BY <2>3 DEF T
<1>10. sma(s, p) = [i \in 1 .. n |-> IF i >= p THEN running[i] \div p ELSE NaN]
  BY DEF sma, Accumulates, running
<1>11. \A i \in 1 .. n : running[i] \div p \in Int
  <2> SUFFICES ASSUME NEW i \in 1 .. n PROVE running[i] \div p \in Int
    OBVIOUS
  <2>1. i \in 0 .. n
    BY <1>1
  <2>2. PICK x \in Int : x = running[i]
    BY <2>1, <1>9
  <2>3. x \div p \in Int
    OBVIOUS
  <2> QED BY <2>2, <2>3
<1>12. \A i \in 1 .. n : i >= p <=> ~(i < p)
  OBVIOUS
<1>13. DOMAIN sma(s, p) = 1 .. n /\ Len(sma(s, p)) = n
  BY <1>1, <1>10
<1>14. /\ \A i \in 1 .. n : i >= p => sma(s, p)[i] \in Int
       /\ \A i \in 1 .. n : i < p => sma(s, p)[i] = NaN
  BY <1>10, <1>11, <1>12
<1> QED BY <1>13, <1>14

\* Numbers, and what is none.
Value == Int \cup {NaN}

\* A series without values before a first one, then given step by step.
FromFirst(g, n, X, at, seed, M) ==
    /\ g \in [1 .. n -> X \cup {NaN}]
    /\ \A i \in at .. n : g[i] \in X
    /\ \A i \in 1 .. n : g[i] = IF i < at THEN NaN ELSE IF i = at THEN seed ELSE M[i][g[i - 1]]

LEMMA FromFirstExists ==
    ASSUME NEW n \in Nat, NEW X, NEW at \in Nat \ {0}, NEW seed \in X,
           NEW M \in [1 .. n -> [X -> X]]
    PROVE  \E g : FromFirst(g, n, X, at, seed, M)
<1> DEFINE step == [i \in 1 .. n |-> [x \in X |-> IF i <= at THEN seed ELSE M[i][x]]]
<1>1. step \in [1 .. n -> [X -> X]]
  OBVIOUS
<1>2. \A i \in 1 .. n : \A x \in X : step[i][x] = IF i <= at THEN seed ELSE M[i][x]
  OBVIOUS
<1> HIDE DEF step
<1>3. PICK f : Steps(f, n, X, seed, step)
  BY <1>1, RecursionExists
<1>4. f \in [0 .. n -> X] /\ \A i \in 1 .. n : f[i] = step[i][f[i - 1]]
  BY <1>3 DEF Steps
<1> DEFINE g == [i \in 1 .. n |-> IF i < at THEN NaN ELSE f[i]]
<1>5. \A i \in 1 .. n : i \in 0 .. n /\ i - 1 \in 0 .. n
  OBVIOUS
<1>6. \A i \in 1 .. n : f[i] \in X /\ f[i - 1] \in X
  BY <1>4, <1>5
<1>7. g \in [1 .. n -> X \cup {NaN}]
  BY <1>6
<1>8. ASSUME NEW i \in at .. n PROVE g[i] \in X
  <2>1. i \in 1 .. n /\ ~(i < at)
    OBVIOUS
  <2> QED BY <2>1, <1>6
<1>9. ASSUME NEW i \in 1 .. n
      PROVE  g[i] = IF i < at THEN NaN ELSE IF i = at THEN seed ELSE M[i][g[i - 1]]
  <2>1. f[i] = IF i <= at THEN seed ELSE M[i][f[i - 1]]
    BY <1>2, <1>4, <1>6
  <2>2. CASE i < at
    BY <2>2
  <2>3. CASE i = at
    BY <2>1, <2>3
  <2>4. CASE i > at
    <3>1. i - 1 \in 1 .. n /\ ~(i - 1 < at) /\ ~(i <= at) /\ i # at /\ ~(i < at)
      BY <2>4
    <3>2. g[i - 1] = f[i - 1] /\ g[i] = f[i]
      BY <3>1
    <3> QED BY <3>1, <3>2, <2>1
  <2> QED BY <2>2, <2>3, <2>4
<1> HIDE DEF g
<1>10. FromFirst(g, n, X, at, seed, M)
  BY <1>7, <1>8, <1>9 DEF FromFirst
<1> QED BY <1>10

\* A weighted mean lies between what it is of.
LEMMA MeanBetween ==
    ASSUME NEW a \in Nat, NEW b \in Nat, a + b # 0, NEW x \in Int, NEW y \in Int,
           NEW lo \in Int, NEW hi \in Int, lo <= x, x <= hi, lo <= y, y <= hi
    PROVE  (a * x + b * y) \div (a + b) \in Int
           /\ lo <= (a * x + b * y) \div (a + b) /\ (a * x + b * y) \div (a + b) <= hi
<1>1. PICK c \in Nat, d \in Nat, e \in Nat, f \in Nat :
         x = lo + c /\ hi = x + d /\ y = lo + e /\ hi = y + f
  <2>1. x - lo \in Nat /\ hi - x \in Nat /\ y - lo \in Nat /\ hi - y \in Nat
    OBVIOUS
  <2>2. x = lo + (x - lo) /\ hi = x + (hi - x) /\ y = lo + (y - lo) /\ hi = y + (hi - y)
    OBVIOUS
  <2> QED BY <2>1, <2>2
<1>2. a * x = a * lo + a * c /\ b * y = b * lo + b * e /\ a * c \in Nat /\ b * e \in Nat
  BY <1>1
<1>3. a * hi = a * x + a * d /\ b * hi = b * y + b * f /\ a * d \in Nat /\ b * f \in Nat
  BY <1>1
<1>4. (a + b) * lo = a * lo + b * lo /\ (a + b) * hi = a * hi + b * hi
  OBVIOUS
<1>5. PICK v \in Int, p \in Nat \ {0} : v = a * x + b * y /\ p = a + b
  <2>1. a * x + b * y \in Int /\ a + b \in Nat \ {0}
    OBVIOUS
  <2> QED BY <2>1
<1>6. p * lo <= v /\ v <= p * hi
  <2>1. PICK k \in Int, l \in Int, m \in Int, n \in Int, r \in Int, s \in Int :
           k = a * x /\ l = a * lo /\ m = a * hi /\ n = b * y /\ r = b * lo /\ s = b * hi
    OBVIOUS
  <2>2. l <= k /\ k <= m /\ r <= n /\ n <= s
    BY <1>2, <1>3, <2>1
  <2>3. l + r <= k + n /\ k + n <= m + s
    BY <2>2
  <2> QED BY <1>4, <1>5, <2>1, <2>3
<1>7. v \div p \in Int /\ lo <= v \div p /\ v \div p <= hi
  BY <1>6, QuotientBetween
<1> QED BY <1>5, <1>7

LEMMA WilderIsValue ==
    ASSUME NEW x \in Value, NEW y \in Value, NEW p \in Nat \ {0}
    PROVE  /\ Wilder(x, y, p) \in Value
           /\ Known(Wilder(x, y, p)) => Known(x) /\ Known(y)
<1>1. CASE Known(x) /\ Known(y)
  <2>1. x \in Int /\ y \in Int
    BY <1>1 DEF Value, Known
  <2>2. PICK d \in Int : d = (p - 1) * x
    BY <2>1
  <2>3. (y + d) \div p \in Int
    BY <2>1
  <2> QED BY <1>1, <2>2, <2>3 DEF Wilder, Value
<1>2. CASE ~(Known(x) /\ Known(y))
  BY <1>2 DEF Wilder, Value, Known
<1> QED BY <1>1, <1>2

LEMMA WilderBetween ==
    ASSUME NEW x \in Int, NEW y \in Int, NEW p \in Nat \ {0}, NEW lo \in Int, NEW hi \in Int,
           lo <= x, x <= hi, lo <= y, y <= hi
    PROVE  Wilder(x, y, p) \in Int /\ lo <= Wilder(x, y, p) /\ Wilder(x, y, p) <= hi
<1>1. Known(x) /\ Known(y)
  BY IndicatorsAssumption DEF Known
<1>2. PICK b \in Nat : b = p - 1
  OBVIOUS
<1>3. Wilder(x, y, p) = (y + b * x) \div p
  BY <1>1, <1>2 DEF Wilder
<1>4. p = 1 + b /\ 1 + b # 0 /\ y + b * x = 1 * y + b * x
  BY <1>2
<1> QED BY <1>2, <1>3, <1>4, MeanBetween

\* Wilder's smoothing, bar by bar.
LEMMA SmoothReads ==
    ASSUME NEW s \in Seq(Value), NEW p \in Nat \ {0}, NEW at \in Nat \ {0}, NEW seed \in Value
    PROVE  /\ Smooth(s, p, at, seed) \in [1 .. Len(s) -> Value]
           /\ \A i \in 1 .. Len(s) : Smooth(s, p, at, seed)[i]
                 = IF i < at THEN NaN ELSE IF i = at THEN seed
                   ELSE Wilder(Smooth(s, p, at, seed)[i - 1], s[i], p)
<1> DEFINE n == Len(s)
           X == Value
           M == [i \in 1 .. n |-> [x \in X |-> Wilder(x, s[i], p)]]
           Is(w) == w = [i \in 1 .. n |-> IF i < at THEN NaN ELSE IF i = at THEN seed
                                           ELSE Wilder(w[i - 1], s[i], p)]
           W == CHOOSE w : Is(w)
<1>1. n \in Nat /\ \A i \in 1 .. n : s[i] \in X
  OBVIOUS
<1>2. M \in [1 .. n -> [X -> X]]
  BY <1>1, WilderIsValue
<1>3. \A i \in 1 .. n : \A x \in X : M[i][x] = Wilder(x, s[i], p)
  OBVIOUS
<1> HIDE DEF M
<1>4. PICK g : FromFirst(g, n, X, at, seed, M)
  <2> HIDE DEF n, X
  <2>1. seed \in X
    BY DEF X
  <2> QED BY <2>1, <1>1, <1>2, FromFirstExists
<1>5. /\ g \in [1 .. n -> X]
      /\ \A i \in 1 .. n : g[i] = IF i < at THEN NaN ELSE IF i = at THEN seed ELSE M[i][g[i - 1]]
  <2>1. X \cup {NaN} = X
    BY DEF Value
  <2> QED BY <2>1, <1>4 DEF FromFirst
<1>6. ASSUME NEW i \in 1 .. n
      PROVE  g[i] = IF i < at THEN NaN ELSE IF i = at THEN seed ELSE Wilder(g[i - 1], s[i], p)
  <2>1. CASE i > at
    <3>1. i - 1 \in 1 .. n
      BY <2>1, <1>1
    <3>2. g[i - 1] \in X
      BY <3>1, <1>5
    <3>3. M[i][g[i - 1]] = Wilder(g[i - 1], s[i], p)
      BY <3>2, <1>3
    <3> QED BY <3>3, <1>5
  <2>2. CASE ~(i > at)
    <3>1. i < at \/ i = at
      BY <2>2, <1>1
    <3> QED BY <3>1, <1>5
  <2> QED BY <2>1, <2>2
<1>7. Is(g)
  <2>1. g = [i \in 1 .. n |-> g[i]]
    BY <1>5
  <2> QED BY <2>1, <1>6
<1>8. Is(W)
  <2> HIDE DEF Is
  <2> QED BY <1>7
<1>9. Smooth(s, p, at, seed) = W
  BY DEF Smooth
<1> HIDE DEF W
<1>10. \A i \in 1 .. n : W[i] = IF i < at THEN NaN ELSE IF i = at THEN seed
                                 ELSE Wilder(W[i - 1], s[i], p)
  BY <1>8
<1>11. DOMAIN W = 1 .. n
  BY <1>8
<1> HIDE DEF Is
<1> DEFINE T == {i \in 0 .. n : i = 0 \/ W[i] \in Value}
<1>12. 0 \in T
  BY <1>1
<1>13. ASSUME NEW i \in 1 .. n, i - 1 \in T PROVE i \in T
  <2>1. i \in 0 .. n
    BY <1>1
  <2>2. CASE i > at
    <3>1. W[i - 1] \in Value
      BY <2>2, <1>13
    <3>2. W[i] = Wilder(W[i - 1], s[i], p)
      BY <2>2, <1>10
    <3>3. Wilder(W[i - 1], s[i], p) \in Value
      BY <3>1, <1>1, WilderIsValue
    <3> QED BY <2>1, <3>2, <3>3
  <2>3. CASE ~(i > at)
    <3>1. i < at \/ i = at
      BY <2>3, <1>1
    <3>2. W[i] = NaN \/ W[i] = seed
      BY <3>1, <1>10
    <3> QED BY <2>1, <3>2 DEF Value
  <2> QED BY <2>2, <2>3
<1> HIDE DEF T
<1>14. 0 .. n \subseteq T
  <2> HIDE DEF n
  <2> QED BY <1>1, <1>12, <1>13, UpFromZero
<1>15. W \in [1 .. n -> Value]
  <2>1. \A i \in 1 .. n : i \in 0 .. n /\ i # 0
    BY <1>1
  <2>2. \A i \in 1 .. n : W[i] \in Value
    BY <2>1, <1>14 DEF T
  <2>3. W = [i \in 1 .. n |-> W[i]]
    BY <1>8 DEF Is
  <2> QED BY <2>2, <2>3
<1> QED BY <1>9, <1>10, <1>15

\* It stays within what it smooths.
LEMMA SmoothBetween ==
    ASSUME NEW s \in Seq(Value), NEW p \in Nat \ {0}, NEW at \in Nat \ {0}, NEW seed \in Int,
           NEW lo \in Int, NEW hi \in Int, lo <= seed, seed <= hi,
           \A i \in 1 .. Len(s) : i > at /\ Known(s[i]) => lo <= s[i] /\ s[i] <= hi
    PROVE  \A i \in 1 .. Len(s) :
              Known(Smooth(s, p, at, seed)[i]) =>
                 /\ Smooth(s, p, at, seed)[i] \in Int
                 /\ lo <= Smooth(s, p, at, seed)[i] /\ Smooth(s, p, at, seed)[i] <= hi
<1> DEFINE n == Len(s)
           w == Smooth(s, p, at, seed)
           Good(x) == Known(x) => x \in Int /\ lo <= x /\ x <= hi
           T == {i \in 0 .. n : i = 0 \/ Good(w[i])}
<1>1. n \in Nat /\ \A i \in 1 .. n : s[i] \in Value
  OBVIOUS
<1>2. /\ w \in [1 .. n -> Value]
      /\ \A i \in 1 .. n : w[i] = IF i < at THEN NaN ELSE IF i = at THEN seed
                                   ELSE Wilder(w[i - 1], s[i], p)
  <2>1. seed \in Value
    BY DEF Value
  <2> QED BY <2>1, SmoothReads
<1> HIDE DEF w, n
<1>3. 0 \in T
  BY <1>1
<1>4. ASSUME NEW i \in 1 .. n, i - 1 \in T PROVE i \in T
  <2>1. i \in 0 .. n
    BY <1>1
  <2>2. CASE i > at
    <3>1. i - 1 \in 1 .. n /\ w[i - 1] \in Value /\ Good(w[i - 1])
      <4>1. i - 1 \in 1 .. n /\ i - 1 # 0
        BY <2>2, <1>1
      <4>2. Good(w[i - 1])
        BY <4>1, <1>4
      <4> QED BY <4>1, <4>2, <1>2
    <3>2. w[i] = Wilder(w[i - 1], s[i], p) /\ s[i] \in Value
      BY <2>2, <1>1, <1>2
    <3>3. CASE Known(w[i - 1]) /\ Known(s[i])
      <4>1. PICK x \in Int : x = w[i - 1] /\ lo <= x /\ x <= hi
        BY <3>1, <3>3
      <4>2. PICK y \in Int : y = s[i] /\ lo <= y /\ y <= hi
        <5>1. s[i] \in Int
          BY <3>2, <3>3 DEF Value, Known
        <5>2. lo <= s[i] /\ s[i] <= hi
          BY <2>2, <3>3 DEF n
        <5> QED BY <5>1, <5>2
      <4>3. Wilder(x, y, p) \in Int /\ lo <= Wilder(x, y, p) /\ Wilder(x, y, p) <= hi
        BY <4>1, <4>2, WilderBetween
      <4>4. Good(w[i])
        BY <3>2, <4>1, <4>2, <4>3
      <4> QED BY <2>1, <4>4
    <3>4. CASE ~(Known(w[i - 1]) /\ Known(s[i]))
      <4>1. ~Known(w[i])
        BY <3>1, <3>2, <3>4, WilderIsValue
      <4> QED BY <2>1, <4>1
    <3> QED BY <3>3, <3>4
  <2>3. CASE i < at
    <3>1. ~Known(w[i])
      BY <2>3, <1>2 DEF Known
    <3> QED BY <2>1, <3>1
  <2>4. CASE i = at
    <3>1. w[i] = seed
      BY <2>4, <1>2
    <3> QED BY <2>1, <3>1
  <2> QED BY <2>2, <2>3, <2>4
<1> HIDE DEF T
<1>5. 0 .. n \subseteq T
  BY <1>1, <1>3, <1>4, UpFromZero
<1>6. \A i \in 1 .. n : i \in 0 .. n /\ i # 0
  BY <1>1
<1>7. \A i \in 1 .. n : Good(w[i])
  BY <1>5, <1>6 DEF T
<1> QED BY <1>7 DEF w, n

\* From the first value on it is a number no less than zero, where what it smooths is.
LEMMA SmoothFrom ==
    ASSUME NEW s \in Seq(Value), NEW p \in Nat \ {0}, NEW at \in 1 .. Len(s), NEW seed \in Nat,
           \A i \in at + 1 .. Len(s) : s[i] \in Nat
    PROVE  \A i \in at .. Len(s) : Smooth(s, p, at, seed)[i] \in Nat
<1> DEFINE n == Len(s)
           w == Smooth(s, p, at, seed)
           T == {i \in 0 .. n : i >= at => w[i] \in Nat}
<1>1. n \in Nat /\ at \in Nat \ {0}
  OBVIOUS
<1>2. \A i \in 1 .. n : w[i] = IF i < at THEN NaN ELSE IF i = at THEN seed
                                ELSE Wilder(w[i - 1], s[i], p)
  <2>1. seed \in Value
    BY DEF Value
  <2> QED BY <1>1, <2>1, SmoothReads
<1>3. \A i \in at + 1 .. n : s[i] \in Nat
  OBVIOUS
<1> HIDE DEF w, n
<1>4. 0 \in T
  BY <1>1
<1>5. ASSUME NEW i \in 1 .. n, i - 1 \in T PROVE i \in T
  <2>1. i \in 0 .. n
    BY <1>1
  <2>2. CASE i < at
    BY <2>1, <2>2, <1>1
  <2>3. CASE i = at
    <3>1. w[i] = seed
      BY <2>3, <1>2
    <3> QED BY <2>1, <3>1
  <2>4. CASE i > at
    <3>1. PICK x \in Nat : x = w[i - 1]
      <4>1. i - 1 >= at
        BY <2>4, <1>1
      <4> QED BY <4>1, <1>5
    <3>2. PICK y \in Nat : y = s[i]
      <4>1. i \in at + 1 .. n
        BY <2>4, <1>1
      <4> QED BY <4>1, <1>3
    <3>3. w[i] = Wilder(x, y, p)
      BY <2>4, <3>1, <3>2, <1>2
    <3>4. PICK hi \in Int : x <= hi /\ y <= hi
      <4>1. x + y \in Int /\ x <= x + y /\ y <= x + y
        OBVIOUS
      <4> QED BY <4>1
    <3>5. Wilder(x, y, p) \in Int /\ 0 <= Wilder(x, y, p)
      <4>1. x \in Int /\ y \in Int /\ 0 \in Int /\ 0 <= x /\ 0 <= y
        OBVIOUS
      <4> QED BY <4>1, <3>4, WilderBetween
    <3>6. w[i] \in Nat
      BY <3>3, <3>5
    <3> QED BY <2>1, <3>6
  <2> QED BY <2>2, <2>3, <2>4
<1> HIDE DEF T
<1>6. 0 .. n \subseteq T
  BY <1>1, <1>4, <1>5, UpFromZero
<1>7. \A i \in at .. n : i \in 0 .. n /\ i >= at
  BY <1>1
<1> QED BY <1>6, <1>7 DEF T, w, n

LEMMA SmoothIsNat ==
    ASSUME NEW s \in Seq(Nat), NEW p \in Nat \ {0}, NEW at \in 1 .. Len(s), NEW seed \in Nat
    PROVE  /\ Len(Smooth(s, p, at, seed)) = Len(s)
           /\ \A i \in at .. Len(s) : Smooth(s, p, at, seed)[i] \in Nat
<1>1. Len(s) \in Nat /\ \A i \in 1 .. Len(s) : s[i] \in Nat
  OBVIOUS
<1>2. s \in Seq(Value) /\ seed \in Value /\ at \in Nat \ {0}
  BY <1>1 DEF Value
<1>3. \A i \in at + 1 .. Len(s) : s[i] \in Nat
  BY <1>1
<1>4. Smooth(s, p, at, seed) \in [1 .. Len(s) -> Value]
  BY <1>2, SmoothReads
<1>5. Len(Smooth(s, p, at, seed)) = Len(s)
  BY <1>1, <1>4
<1> QED BY <1>2, <1>3, <1>5, SmoothFrom

\* A sum of numbers no less than zero is no less than zero.
LEMMA TotalIsNat ==
    ASSUME NEW s \in Seq(Nat)
    PROVE  Total(s) \in Nat
<1> DEFINE z == [k \in 1 .. Len(s) |-> 0]
<1>1. Len(s) \in Nat /\ \A k \in 1 .. Len(s) : s[k] \in Nat
  OBVIOUS
<1>2. /\ s \in Seq(Int) /\ z \in Seq(Int) /\ Len(z) = Len(s)
      /\ \A k \in 1 .. Len(s) : z[k] <= s[k]
  BY <1>1
<1>3. Total(z) = 0
  BY <1>1, TotalOfZeros
<1> HIDE DEF z
<1>4. Total(s) \in Int /\ Total(z) <= Total(s)
  BY <1>2, TotalIsMonotone
<1> QED BY <1>3, <1>4

LEMMA SquareIsNat ==
    ASSUME NEW x \in Int
    PROVE  Square(x) \in Nat
<1>1. CASE x \in Nat
  BY <1>1 DEF Square
<1>2. CASE -x \in Nat
  <2>1. PICK y \in Nat : y = -x
    BY <1>2
  <2>2. y * y \in Nat /\ (-y) * (-y) = y * y
    OBVIOUS
  <2> QED BY <2>1, <2>2 DEF Square
<1> QED BY <1>1, <1>2

\* The greatest of three.
LEMMA MaxOfThree ==
    ASSUME NEW a \in Nat, NEW b \in Nat, NEW c \in Nat
    PROVE  Max({a, b, c}) \in Nat
<1> DEFINE S == {a, b, c}
<1>1. \E x \in S : \A y \in S : x >= y
  <2>1. CASE a >= b /\ a >= c
    BY <2>1
  <2>2. CASE b >= a /\ b >= c
    BY <2>2
  <2>3. CASE c >= a /\ c >= b
    BY <2>3
  <2> QED BY <2>1, <2>2, <2>3
<1>2. Max(S) \in S
  BY <1>1 DEF Max
<1> QED BY <1>2

LEMMA TrueRangeIsNat ==
    ASSUME NEW b \in Seq(BarRow)
    PROVE  true_range(b) \in Seq(Nat) /\ Len(true_range(b)) = Len(b)
<1>1. Len(b) \in Nat
  OBVIOUS
<1>2. ASSUME NEW i \in 1 .. Len(b)
      PROVE  b[i].h \in Nat /\ b[i].l \in Nat /\ b[i].c \in Nat /\ b[i].l <= b[i].h
  <2>1. b[i] \in BarRow
    OBVIOUS
  <2> QED BY <2>1 DEF BarRow
<1>3. ASSUME NEW x \in Nat, NEW y \in Nat PROVE AbsDiff(x, y) \in Nat
  BY DEF AbsDiff
<1> DEFINE Reach(i) == IF i = 1 THEN b[1].h - b[1].l
                       ELSE Max({b[i].h - b[i].l, AbsDiff(b[i].h, b[i - 1].c),
                                 AbsDiff(b[i].l, b[i - 1].c)})
<1>4. ASSUME NEW i \in 1 .. Len(b) PROVE Reach(i) \in Nat
  <2>1. CASE i = 1
    <3>1. PICK x \in Nat, y \in Nat : x = b[1].h /\ y = b[1].l /\ y <= x
      BY <2>1, <1>2
    <3>2. x - y \in Nat
      BY <3>1
    <3> QED BY <3>1, <3>2, <2>1
  <2>2. CASE i # 1
    <3>1. i - 1 \in 1 .. Len(b)
      BY <2>2, <1>1
    <3>2. PICK x \in Nat, y \in Nat, z \in Nat :
             x = b[i].h /\ y = b[i].l /\ z = b[i - 1].c /\ y <= x
      BY <3>1, <1>2
    <3>3. x - y \in Nat
      BY <3>2
    <3>4. AbsDiff(x, z) \in Nat /\ AbsDiff(y, z) \in Nat
      BY <1>3
    <3>5. Max({x - y, AbsDiff(x, z), AbsDiff(y, z)}) \in Nat
      BY <3>3, <3>4, MaxOfThree
    <3> QED BY <3>2, <3>5, <2>2
  <2> QED BY <2>1, <2>2
<1>5. true_range(b) = [i \in 1 .. Len(b) |-> Reach(i)]
  BY DEF true_range
<1> HIDE DEF Reach
<1> QED BY <1>1, <1>4, <1>5

\* The average true range of enough bars is a number no less than zero.
LEMMA AtrIsNat ==
    ASSUME NEW b \in Seq(BarRow), NEW p \in Nat \ {0}, p <= Len(b)
    PROVE  Len(atr(b, p)) = Len(b) /\ \A i \in p .. Len(b) : atr(b, p)[i] \in Nat
<1> DEFINE s == true_range(b)
           S == {i \in 1 .. Len(s) : i <= p /\ Known(s[i])}
           window == MembersAt(s, S)
<1>1. s \in Seq(Nat) /\ Len(s) = Len(b)
  BY TrueRangeIsNat
<1> HIDE DEF s
<1>2. Len(s) \in Nat /\ 1 \in 1 .. Len(s) /\ \A i \in 1 .. Len(s) : s[i] \in Nat
  BY <1>1
<1>3. \A i \in 1 .. Len(s) : Known(s[i])
  BY <1>2, IndicatorsAssumption DEF Known
<1>4. 1 \in S /\ S \in SUBSET (1 .. Len(s))
  BY <1>2, <1>3
<1> HIDE DEF S
<1>5. window \in Seq(Nat) /\ Len(window) = Cardinality(S) /\ Cardinality(S) \in Nat
  BY <1>1, <1>4, MembersAreOf
<1>6. Cardinality(S) # 0
  <2>1. IsFiniteSet(S)
    <3>1. IsFiniteSet(1 .. Len(s))
      BY <1>2, FS_Interval
    <3> QED BY <3>1, <1>4, FS_Subset
  <2> QED BY <2>1, <1>4, FS_EmptySet
<1> HIDE DEF window
<1>7. window # <<>> /\ Len(window) \in Nat \ {0}
  BY <1>5, <1>6
<1>8. Total(window) \in Nat
  BY <1>5, TotalIsNat
<1>9. PICK seed \in Nat : seed = Total(window) \div Len(window)
  <2>1. PICK x \in Nat, y \in Nat \ {0} : x = Total(window) /\ y = Len(window)
    BY <1>7, <1>8
  <2>2. x \div y \in Nat
    OBVIOUS
  <2> QED BY <2>1, <2>2
<1>10. atr(b, p) = Smooth(s, p, p, seed)
  BY <1>7, <1>9 DEF atr, wilder_smooth_presma, s, S, window
<1>11. p \in 1 .. Len(s)
  BY <1>1, <1>2
<1>12. /\ Len(Smooth(s, p, p, seed)) = Len(s)
       /\ \A i \in p .. Len(s) : Smooth(s, p, p, seed)[i] \in Nat
  BY <1>1, <1>11, SmoothIsNat
<1> QED BY <1>1, <1>10, <1>12

\* Sums of numbers no less than zero are no less than zero.
LEMMA SumsAreNat ==
    ASSUME NEW s \in Seq(Nat), NEW f, Sums(f, s)
    PROVE  \A i \in 0 .. Len(s) : f[i] \in Nat
<1> DEFINE n == Len(s)
           T == {i \in 0 .. n : f[i] \in Nat}
<1>1. n \in Nat /\ \A i \in 1 .. n : s[i] \in Nat
  OBVIOUS
<1>2. 0 \in T
  BY <1>1 DEF Sums
<1>3. ASSUME NEW i \in 1 .. n, i - 1 \in T PROVE i \in T
  <2>1. i \in 0 .. n /\ i # 0
    BY <1>1
  <2>2. f[i] = f[i - 1] + s[i]
    BY <2>1 DEF Sums
  <2>3. PICK x \in Nat, y \in Nat : x = f[i - 1] /\ y = s[i]
    BY <1>1, <1>3
  <2>4. x + y \in Nat
    OBVIOUS
  <2> QED BY <2>1, <2>2, <2>3, <2>4
<1> HIDE DEF T
<1>4. 0 .. n \subseteq T
  <2> HIDE DEF n
  <2> QED BY <1>1, <1>2, <1>3, UpFromZero
<1> QED BY <1>4 DEF T

\* What is traded up to each bar of a session, and what was paid for it.
Paid(f, b) ==
    f = [i \in 0 .. Len(b) |-> IF i = 0 THEN 0 ELSE f[i - 1] + Typical(b[i]) * b[i].v]
Traded(f, b) ==
    f = [i \in 0 .. Len(b) |-> IF i = 0 THEN 0 ELSE f[i - 1] + b[i].v]

\* Both, and the mean price they give.
Carried(pv, cv, b) ==
    /\ \A i \in 0 .. Len(b) : pv[i] \in Nat /\ cv[i] \in Nat
    /\ pv[0] = 0 /\ cv[0] = 0
    /\ \A i \in 1 .. Len(b) : pv[i] = pv[i - 1] + Typical(b[i]) * b[i].v /\ cv[i] = cv[i - 1] + b[i].v
    /\ vwap(b) = [i \in 1 .. Len(b) |-> IF cv[i] = 0 THEN NaN ELSE pv[i] \div cv[i]]

LEMMA VwapReads ==
    ASSUME NEW b \in Seq(BarRow)
    PROVE  \E pv, cv : Carried(pv, cv, b)
<1> DEFINE n == Len(b)
           ps == [k \in 1 .. n |-> Typical(b[k]) * b[k].v]
           vs == [k \in 1 .. n |-> b[k].v]
           pv == CHOOSE f : Paid(f, b)
           cv == CHOOSE f : Traded(f, b)
<1>1. n \in Nat /\ \A k \in 1 .. n : b[k].v \in Nat /\ Typical(b[k]) \in Nat
  <2>1. \A k \in 1 .. n : b[k] \in BarRow
    OBVIOUS
  <2> QED BY <2>1, TypicalIsPositive
<1>2. \A k \in 1 .. n : Typical(b[k]) * b[k].v \in Nat
  <2> SUFFICES ASSUME NEW k \in 1 .. n PROVE Typical(b[k]) * b[k].v \in Nat
    OBVIOUS
  <2>1. PICK x \in Nat, y \in Nat : x = Typical(b[k]) /\ y = b[k].v
    BY <1>1
  <2>2. x * y \in Nat
    OBVIOUS
  <2> QED BY <2>1, <2>2
<1>3. ps \in Seq(Nat) /\ Len(ps) = n /\ \A k \in 1 .. n : ps[k] = Typical(b[k]) * b[k].v
  BY <1>1, <1>2
<1>4. vs \in Seq(Nat) /\ Len(vs) = n /\ \A k \in 1 .. n : vs[k] = b[k].v
  BY <1>1
<1> HIDE DEF ps, vs
<1>5. \A i \in 0 .. n : i = 0 \/ i \in 1 .. n
  BY <1>1
<1>6. \A f : Sums(f, ps) <=> Paid(f, b)
  <2> SUFFICES ASSUME NEW f PROVE Sums(f, ps) <=> Paid(f, b)
    OBVIOUS
  <2>1. \A i \in 0 .. n : (IF i = 0 THEN 0 ELSE f[i - 1] + ps[i])
                             = (IF i = 0 THEN 0 ELSE f[i - 1] + Typical(b[i]) * b[i].v)
    BY <1>3, <1>5
  <2>2. [i \in 0 .. n |-> IF i = 0 THEN 0 ELSE f[i - 1] + ps[i]]
           = [i \in 0 .. n |-> IF i = 0 THEN 0 ELSE f[i - 1] + Typical(b[i]) * b[i].v]
    BY <2>1
  <2> QED BY <2>2, <1>3 DEF Sums, Paid
<1>7. \A f : Sums(f, vs) <=> Traded(f, b)
  <2> SUFFICES ASSUME NEW f PROVE Sums(f, vs) <=> Traded(f, b)
    OBVIOUS
  <2>1. \A i \in 0 .. n : (IF i = 0 THEN 0 ELSE f[i - 1] + vs[i])
                             = (IF i = 0 THEN 0 ELSE f[i - 1] + b[i].v)
    BY <1>4, <1>5
  <2>2. [i \in 0 .. n |-> IF i = 0 THEN 0 ELSE f[i - 1] + vs[i]]
           = [i \in 0 .. n |-> IF i = 0 THEN 0 ELSE f[i - 1] + b[i].v]
    BY <2>1
  <2> QED BY <2>2, <1>4 DEF Sums, Traded
<1>8. ps \in Seq(Int) /\ vs \in Seq(Int)
  BY <1>3, <1>4
<1>9. Sums(pv, ps)
  <2>1. \E f : Sums(f, ps)
    BY <1>8, SumsExist
  <2>2. Paid(pv, b)
    BY <2>1, <1>6
  <2> HIDE DEF pv
  <2> QED BY <2>2, <1>6
<1>10. Sums(cv, vs)
  <2>1. \E f : Sums(f, vs)
    BY <1>8, SumsExist
  <2>2. Traded(cv, b)
    BY <2>1, <1>7
  <2> HIDE DEF cv
  <2> QED BY <2>2, <1>7
<1>11. vwap(b) = [i \in 1 .. n |-> IF cv[i] = 0 THEN NaN ELSE pv[i] \div cv[i]]
  BY DEF vwap, Paid, Traded
<1> HIDE DEF pv, cv
<1>12. \A i \in 0 .. n : pv[i] \in Nat /\ cv[i] \in Nat
  <2>1. \A i \in 0 .. Len(ps) : pv[i] \in Nat
    BY <1>3, <1>9, SumsAreNat
  <2>2. \A i \in 0 .. Len(vs) : cv[i] \in Nat
    BY <1>4, <1>10, SumsAreNat
  <2> QED BY <2>1, <2>2, <1>3, <1>4
<1>13. Paid(pv, b) /\ Traded(cv, b)
  BY <1>6, <1>7, <1>9, <1>10
<1>14. 0 \in 0 .. n /\ \A i \in 1 .. n : i \in 0 .. n /\ i # 0
  BY <1>1
<1>15. pv[0] = 0 /\ \A i \in 1 .. n : pv[i] = pv[i - 1] + Typical(b[i]) * b[i].v
  BY <1>13, <1>14 DEF Paid
<1>16. cv[0] = 0 /\ \A i \in 1 .. n : cv[i] = cv[i - 1] + b[i].v
  BY <1>13, <1>14 DEF Traded
<1>17. Carried(pv, cv, b)
  BY <1>11, <1>12, <1>15, <1>16 DEF Carried
<1> QED BY <1>17

\* The mean price is a number where anything was traded.
LEMMA VwapIsNumber ==
    ASSUME NEW b \in Seq(BarRow)
    PROVE  /\ vwap(b) \in Seq(Int \cup {NaN}) /\ Len(vwap(b)) = Len(b)
           /\ \A i \in 1 .. Len(b) : Known(vwap(b)[i]) => vwap(b)[i] \in Int
<1> DEFINE n == Len(b)
<1>1. n \in Nat
  OBVIOUS
<1>2. PICK pv, cv : Carried(pv, cv, b)
  BY VwapReads
<1>3. vwap(b) = [i \in 1 .. n |-> IF cv[i] = 0 THEN NaN ELSE pv[i] \div cv[i]]
  BY <1>2 DEF Carried
<1>4. \A i \in 0 .. n : pv[i] \in Nat /\ cv[i] \in Nat
  BY <1>2 DEF Carried
<1>5. \A i \in 1 .. n : cv[i] # 0 => pv[i] \div cv[i] \in Int
  <2> SUFFICES ASSUME NEW i \in 1 .. n, cv[i] # 0 PROVE pv[i] \div cv[i] \in Int
    OBVIOUS
  <2>1. i \in 0 .. n
    BY <1>1
  <2>2. PICK x \in Nat, y \in Nat \ {0} : x = pv[i] /\ y = cv[i]
    BY <2>1, <1>4
  <2>3. x \div y \in Nat
    BY QuotientIsNat
  <2> QED BY <2>2, <2>3
<1>6. \A i \in 1 .. n : vwap(b)[i] = NaN \/ vwap(b)[i] \in Int
  BY <1>3, <1>5
<1>7. vwap(b) \in Seq(Int \cup {NaN}) /\ Len(vwap(b)) = n
  BY <1>1, <1>3, <1>5
<1> QED BY <1>6, <1>7 DEF Known

\* A sum of squares of distances, spread over a count.
LEMMA SpreadIsNat ==
    ASSUME NEW s \in Seq(Int), NEW m \in Int, NEW y \in Nat \ {0}
    PROVE  Sqrt(Total([i \in 1 .. Len(s) |-> Square(s[i] - m)]) \div y) \in Nat
<1> DEFINE q == [i \in 1 .. Len(s) |-> Square(s[i] - m)]
<1>1. Len(s) \in Nat /\ \A i \in 1 .. Len(s) : s[i] \in Int
  OBVIOUS
<1>2. \A i \in 1 .. Len(s) : Square(s[i] - m) \in Nat
  <2>1. \A i \in 1 .. Len(s) : s[i] - m \in Int
    BY <1>1
  <2> QED BY <2>1, SquareIsNat
<1>3. q \in Seq(Nat)
  BY <1>1, <1>2
<1> HIDE DEF q
<1>4. Total(q) \in Nat
  BY <1>3, TotalIsNat
<1>5. Total(q) \div y \in Nat
  BY <1>4, QuotientIsNat
<1>6. Sqrt(Total(q) \div y) \in Nat
  BY <1>5, SqrtIsNat
<1> QED BY <1>6 DEF q

LEMMA DeviationIsNat ==
    ASSUME NEW s \in Seq(Int), Len(s) >= 2
    PROVE  DeviationStd(s) \in Nat
<1>1. Len(s) \in Nat \ {0} /\ Len(s) - 1 \in Nat \ {0}
  <2>1. PICK n \in Nat : n = Len(s)
    OBVIOUS
  <2>2. n >= 2
    BY <2>1
  <2>3. n \in Nat \ {0} /\ n - 1 \in Nat \ {0}
    BY <2>2
  <2> QED BY <2>1, <2>3
<1> DEFINE m == Total(s) \div Len(s)
<1>2. m \in Int
  <2>1. \A k \in 1 .. Len(s) : s[k] <= s[k]
    OBVIOUS
  <2>2. PICK x \in Int, y \in Nat \ {0} : x = Total(s) /\ y = Len(s)
    BY <2>1, <1>1, TotalIsMonotone
  <2>3. x \div y \in Int
    OBVIOUS
  <2> QED BY <2>2, <2>3
<1> HIDE DEF m
<1>3. Sqrt(Total([i \in 1 .. Len(s) |-> Square(s[i] - m)]) \div (Len(s) - 1)) \in Nat
  BY <1>1, <1>2, SpreadIsNat
<1> QED BY <1>3 DEF DeviationStd, m

\* The bands lie around their middle.
LEMMA BandsAround ==
    ASSUME NEW c \in Seq(Int), NEW p \in Nat \ {0, 1}, NEW k \in Nat \ {0}, p <= Len(c)
    PROVE  \E mid \in Int, e \in Nat :
              LET bb == bollinger(c, p, k)
              IN /\ Last(bb.mid) = mid /\ Last(bb.upper) = mid + e /\ Last(bb.lower) = mid - e
<1> DEFINE n == Len(c)
           mid == sma(c, p)
           w == [j \in 1 .. p |-> c[n - p + j]]
           sd == Sqrt(Total([j \in 1 .. p |-> Square(c[n - p + j] - mid[n])]) \div (p - 1))
           bb == bollinger(c, p, k)
<1>0. n \in Nat /\ n >= p /\ p \in Nat /\ p >= 2
  OBVIOUS
<1>1. n \in Nat \ {0} /\ n \in 1 .. n /\ n >= p /\ ~(n < p) /\ p \in Nat \ {0} /\ p - 1 \in Nat \ {0}
  <2> HIDE DEF n
  <2> QED BY <1>0
<1>2. mid[n] \in Int /\ Len(mid) = n
  BY <1>1, SmaIsNumber
<1>3. w \in Seq(Int) /\ Len(w) = p /\ \A j \in 1 .. p : w[j] = c[n - p + j]
  <2>1. \A j \in 1 .. p : c[n - p + j] \in Int
    <3> SUFFICES ASSUME NEW j \in 1 .. p PROVE c[n - p + j] \in Int
      OBVIOUS
    <3>1. n - p + j \in 1 .. n
      BY <1>1
    <3> QED BY <3>1
  <2> QED BY <2>1, <1>1
<1>4. sd \in Nat
  <2> HIDE DEF w, mid
  <2>1. Sqrt(Total([j \in 1 .. Len(w) |-> Square(w[j] - mid[n])]) \div (p - 1)) \in Nat
    BY <1>1, <1>2, <1>3, SpreadIsNat
  <2>2. [j \in 1 .. Len(w) |-> Square(w[j] - mid[n])]
           = [j \in 1 .. p |-> Square(c[n - p + j] - mid[n])]
    BY <1>3
  <2> QED BY <2>1, <2>2
<1>5. /\ bb.mid = mid
      /\ bb.upper[n] = mid[n] + k * sd /\ Len(bb.upper) = n
      /\ bb.lower[n] = mid[n] - k * sd /\ Len(bb.lower) = n
  BY <1>1 DEF bollinger
<1> HIDE DEF bb, sd, mid
<1>6. /\ Last(bb.mid) = mid[n] /\ Last(bb.upper) = mid[n] + k * sd
      /\ Last(bb.lower) = mid[n] - k * sd
  BY <1>2, <1>5 DEF Last
<1>7. k * sd \in Nat
  BY <1>4
<1> QED BY <1>2, <1>6, <1>7 DEF bb

-----------------------------------------------------------------------------
(* The view a preset has of the bars.                                       *)

\* Bars in order of time.
History(b) ==
    /\ b \in Seq(BarRow) /\ b # <<>>
    /\ \A i, j \in 1 .. Len(b) : i < j => b[i].ts < b[j].ts

\* The newest bars are the last of them.
LEMMA NewestIsTail ==
    ASSUME NEW b, History(b), NEW n \in Nat \ {0}
    PROVE  /\ History(Newest(b, n)) /\ Last(Newest(b, n)) = Last(b)
           /\ Len(Newest(b, n)) = IF Len(b) <= n THEN Len(b) ELSE n
           /\ \A i \in 1 .. Len(Newest(b, n)) :
                 Newest(b, n)[i] = b[Len(b) - Len(Newest(b, n)) + i]
<1>1. CASE Len(b) <= n
  <2>1. Newest(b, n) = b /\ Len(b) \in Nat
    BY <1>1 DEF Newest, History
  <2>2. \A i \in 1 .. Len(b) : Len(b) - Len(b) + i = i
    BY <2>1
  <2> QED BY <1>1, <2>1, <2>2
<1>2. CASE ~(Len(b) <= n)
  <2> DEFINE w == Newest(b, n)
             d == Len(b) - n
  <2>1. w = Trailing(b, Len(b), n)
    BY <1>2 DEF Newest
  <2>2. /\ Len(b) \in Nat /\ d \in Nat /\ d >= 1 /\ d + n = Len(b) /\ Len(b) - n + 1 = d + 1
        /\ b \in Seq(BarRow) /\ Len(b) <= Len(b) /\ n <= Len(b)
    BY <1>2 DEF History
  <2>3. w \in Seq(BarRow) /\ Len(w) = n
    BY <2>1, <2>2, TrailingWindow
  <2>4. \A i \in 1 .. n : w[i] = b[d + i]
    <3>1. w = SubSeq(b, d + 1, Len(b))
      BY <2>1, <2>2 DEF Trailing
    <3>2. d + 1 \in 1 .. Len(b) /\ Len(b) \in 1 .. Len(b) /\ Len(b) - (d + 1) + 1 = n
      BY <2>2
    <3> HIDE DEF w, d
    <3> SUFFICES ASSUME NEW i \in 1 .. n PROVE w[i] = b[d + i]
      OBVIOUS
    <3>3. w[i] = b[(d + 1) + i - 1]
      BY <3>1, <3>2, <2>2
    <3>4. (d + 1) + i - 1 = d + i
      BY <2>2
    <3> QED BY <3>3, <3>4
  <2> HIDE DEF w, d
  <2>5. \A i \in 1 .. n : d + i \in 1 .. Len(b)
    BY <2>2
  <2>6. ASSUME NEW i \in 1 .. n, NEW j \in 1 .. n, i < j PROVE w[i].ts < w[j].ts
    <3>1. d + i \in 1 .. Len(b) /\ d + j \in 1 .. Len(b) /\ d + i < d + j
      BY <2>2, <2>5, <2>6
    <3>2. b[d + i].ts < b[d + j].ts
      BY <3>1 DEF History
    <3> QED BY <3>2, <2>4
  <2>7. w # <<>> /\ n \in 1 .. n
    BY <2>3
  <2>8. History(w)
    BY <2>3, <2>6, <2>7 DEF History
  <2>9. Last(w) = Last(b)
    <3>1. Last(w) = w[n] /\ Last(b) = b[Len(b)]
      BY <2>3 DEF Last
    <3>2. w[n] = b[d + n]
      BY <2>4, <2>7
    <3> QED BY <3>1, <3>2, <2>2
  <2>10. d = Len(b) - Len(w)
    BY <2>2, <2>3
  <2> QED BY <1>2, <2>3, <2>4, <2>8, <2>9, <2>10 DEF w
<1> QED BY <1>1, <1>2

LEMMA BarValues ==
    ASSUME NEW b, History(b)
    PROVE  /\ Len(b) \in Nat \ {0} /\ Last(b) = b[Len(b)] /\ Last(b) \in BarRow
           /\ \A i \in 1 .. Len(b) :
                 /\ b[i] \in BarRow /\ b[i].ts \in Nat /\ b[i].h \in Nat /\ b[i].l \in Nat
                 /\ b[i].c \in Nat /\ b[i].v \in Nat
                 /\ b[i].l <= b[i].h /\ b[i].l <= b[i].c /\ b[i].c <= b[i].h /\ 0 < b[i].c
<1>1. Len(b) \in Nat \ {0} /\ Last(b) = b[Len(b)] /\ Len(b) \in 1 .. Len(b)
  BY DEF History, Last
<1>2. \A i \in 1 .. Len(b) : b[i] \in BarRow
  BY DEF History
<1>3. \A r \in BarRow : /\ r.ts \in Nat /\ r.h \in Nat /\ r.l \in Nat /\ r.c \in Nat /\ r.v \in Nat
                        /\ r.l <= r.h /\ r.l <= r.c /\ r.c <= r.h /\ 0 < r.c
  <2> SUFFICES ASSUME NEW r \in BarRow
               PROVE  /\ r.ts \in Nat /\ r.h \in Nat /\ r.l \in Nat /\ r.c \in Nat /\ r.v \in Nat
                      /\ r.l <= r.h /\ r.l <= r.c /\ r.c <= r.h /\ 0 < r.c
    OBVIOUS
  <2>1. /\ r.ts \in Nat /\ r.h \in Nat /\ r.l \in Nat /\ r.c \in Nat /\ r.v \in Nat
        /\ 0 < r.l /\ r.l <= r.h /\ r.l <= r.c /\ r.c <= r.h
    BY DEF BarRow
  <2> QED BY <2>1
<1> QED BY <1>1, <1>2, <1>3

LEMMA ClosesAreInt ==
    ASSUME NEW b, History(b)
    PROVE  Closes(b) \in Seq(Int) /\ Len(Closes(b)) = Len(b)
<1>1. Len(b) \in Nat /\ \A i \in 1 .. Len(b) : b[i].c \in Int
  BY BarValues
<1>2. Closes(b) = [i \in 1 .. Len(b) |-> b[i].c]
  BY DEF Closes, Column
<1> QED BY <1>1, <1>2

\* The low and the high of some bars.
LEMMA LowAndHigh ==
    ASSUME NEW w \in Seq(BarRow), w # <<>>
    PROVE  /\ Smallest(Lows(w)) \in Nat /\ Largest(Highs(w)) \in Nat
           /\ Smallest(Lows(w)) <= Largest(Highs(w))
           /\ \A i \in 1 .. Len(w) : Smallest(Lows(w)) <= w[i].l /\ w[i].h <= Largest(Highs(w))
<1> DEFINE lows == Lows(w)
           highs == Highs(w)
<1>1. Len(w) \in Nat \ {0} /\ \A i \in 1 .. Len(w) : w[i].l \in Nat /\ w[i].h \in Nat /\ w[i].l <= w[i].h
  <2>1. \A i \in 1 .. Len(w) : w[i] \in BarRow
    OBVIOUS
  <2> QED BY <2>1 DEF BarRow
<1>2. lows \in Seq(Nat) /\ Len(lows) = Len(w) /\ \A i \in 1 .. Len(w) : lows[i] = w[i].l
  <2>1. lows = [i \in 1 .. Len(w) |-> w[i].l]
    BY DEF Lows, Column
  <2> QED BY <2>1, <1>1
<1>3. highs \in Seq(Nat) /\ Len(highs) = Len(w) /\ \A i \in 1 .. Len(w) : highs[i] = w[i].h
  <2>1. highs = [i \in 1 .. Len(w) |-> w[i].h]
    BY DEF Highs, Column
  <2> QED BY <2>1, <1>1
<1> HIDE DEF lows, highs
<1>4. lows # <<>> /\ highs # <<>> /\ 1 \in 1 .. Len(w)
  BY <1>1, <1>2, <1>3
<1>5. Smallest(lows) \in Nat /\ \A i \in 1 .. Len(w) : Smallest(lows) <= w[i].l
  BY <1>2, <1>4, SmallestAndLargest
<1>6. Largest(highs) \in Nat /\ \A i \in 1 .. Len(w) : w[i].h <= Largest(highs)
  BY <1>3, <1>4, SmallestAndLargest
<1>7. Smallest(lows) <= Largest(highs)
  <2>1. PICK a \in Nat, z \in Nat, l \in Nat, h \in Nat :
           /\ a = Smallest(lows) /\ z = Largest(highs) /\ l = w[1].l /\ h = w[1].h
           /\ a <= l /\ l <= h /\ h <= z
    BY <1>1, <1>4, <1>5, <1>6
  <2>2. a <= z
    BY <2>1
  <2> QED BY <2>1, <2>2
<1> QED BY <1>5, <1>6, <1>7 DEF lows, highs

\* The session: bars of the newest bar's day.
LEMMA SessionIsOfDay ==
    ASSUME NEW b, History(b)
    PROVE  /\ latest_session(b) \in Seq(BarRow)
           /\ \A i \in 1 .. Len(latest_session(b)) :
                 /\ latest_session(b)[i] \in BarRow
                 /\ DayOf(latest_session(b)[i]) = DayOf(Last(b))
<1> DEFINE S == {i \in 1 .. Len(b) : DayOf(b[i]) = DayOf(Last(b))}
           s == MembersAt(b, S)
<1>1. S \in SUBSET (1 .. Len(b)) /\ \A i \in S : DayOf(b[i]) = DayOf(Last(b)) /\ b[i] \in BarRow
  BY BarValues
<1>2. b \in Seq(BarRow)
  BY DEF History
<1> HIDE DEF S
<1>3. /\ s \in Seq(BarRow) /\ Len(s) = Cardinality(S)
      /\ \A r \in 1 .. Cardinality(S) : InOrder(S)[r] \in S /\ s[r] = b[InOrder(S)[r]]
  BY <1>1, <1>2, MembersAreOf
<1> HIDE DEF s
<1>4. ASSUME NEW r \in 1 .. Len(s) PROVE s[r] \in BarRow /\ DayOf(s[r]) = DayOf(Last(b))
  <2>1. PICK i \in S : s[r] = b[i]
    BY <1>3
  <2> QED BY <2>1, <1>1
<1> QED BY <1>3, <1>4 DEF latest_session, S, s

\* The last members of a sequence, in order.
LEMMA TailMembers ==
    ASSUME NEW X, NEW s \in Seq(X), NEW a \in 1 .. Len(s)
    PROVE  MembersAt(s, a .. Len(s)) = [r \in 1 .. Len(s) - a + 1 |-> s[a + r - 1]]
<1> DEFINE n == Len(s)
           S == a .. n
           m == n - a + 1
<1>1. n \in Nat /\ a \in Nat /\ a >= 1 /\ a <= n /\ m \in Nat
  OBVIOUS
<1>2. S \in SUBSET (1 .. n)
  BY <1>1
<1>3. Cardinality(S) = m
  <2> HIDE DEF n
  <2>1. a \in Int /\ n \in Int
    BY <1>1
  <2>2. Cardinality(a .. n) = IF a > n THEN 0 ELSE n - a + 1
    BY <2>1, FS_Interval
  <2> QED BY <2>2, <1>1
<1>4. ASSUME NEW r \in 1 .. m PROVE InOrder(S)[r] = a + r - 1
  <2>1. PICK x \in S : x = InOrder(S)[r] /\ Cardinality(UpTo(S, x)) = r
    <3> HIDE DEF S, m, n
    <3> QED BY <1>1, <1>2, <1>3, InOrderAscends
  <2>2. x \in Int /\ a <= x /\ x <= n
    BY <1>1
  <2>3. UpTo(S, x) = a .. x
    BY <2>2, <1>1 DEF UpTo
  <2>4. Cardinality(a .. x) = x - a + 1
    <3>1. a \in Int /\ x \in Int
      BY <1>1, <2>2
    <3>2. Cardinality(a .. x) = IF a > x THEN 0 ELSE x - a + 1
      BY <3>1, FS_Interval
    <3> QED BY <3>2, <2>2, <1>1
  <2>5. x - a + 1 = r
    BY <2>1, <2>3, <2>4
  <2>6. x = a + r - 1
    BY <2>5, <2>2, <1>1
  <2> QED BY <2>1, <2>6
<1>5. MembersAt(s, S) = [r \in 1 .. m |-> s[InOrder(S)[r]]]
  BY <1>3 DEF MembersAt
<1> HIDE DEF S, m, n
<1>6. MembersAt(s, S) = [r \in 1 .. m |-> s[a + r - 1]]
  BY <1>4, <1>5
<1> QED BY <1>6 DEF S, m, n

\* Later bars are later by a step each at least.
LEMMA TimeGoesOn ==
    ASSUME NEW b, History(b), NEW i \in 1 .. Len(b), NEW j \in i .. Len(b)
    PROVE  b[i].ts \in Nat /\ b[j].ts \in Nat /\ j - i <= b[j].ts - b[i].ts
<1> DEFINE n == j - i
           T == {k \in 0 .. n : k <= b[i + k].ts - b[i].ts}
<1>1. Len(b) \in Nat /\ n \in Nat /\ i + n = j /\ i \in Nat /\ j \in Nat
  BY BarValues
<1>2. \A k \in 0 .. n : i + k \in 1 .. Len(b)
  BY <1>1
<1>3. \A k \in 0 .. n : b[i + k].ts \in Nat
  BY <1>2, BarValues
<1>4. 0 \in T
  <2>1. i + 0 = i /\ 0 \in 0 .. n
    BY <1>1
  <2>2. b[i].ts \in Nat
    BY <2>1, <1>3
  <2> QED BY <2>1, <2>2
<1>5. ASSUME NEW k \in 1 .. n, k - 1 \in T PROVE k \in T
  <2>1. k \in 0 .. n /\ k - 1 \in 0 .. n /\ i + (k - 1) < i + k
    BY <1>1
  <2>2. b[i + (k - 1)].ts < b[i + k].ts
    BY <2>1, <1>2 DEF History
  <2>3. PICK x \in Nat, y \in Nat, z \in Nat :
           x = b[i].ts /\ y = b[i + (k - 1)].ts /\ z = b[i + k].ts
    BY <2>1, <1>3, BarValues
  <2>4. k - 1 <= y - x /\ y < z
    BY <2>2, <2>3, <1>5
  <2>5. k <= z - x
    BY <2>4
  <2> QED BY <2>1, <2>3, <2>5
<1>6. n \in T
  <2> HIDE DEF T, n
  <2>1. 0 .. n \subseteq T
    BY <1>1, <1>4, <1>5, UpFromZero
  <2>2. n \in 0 .. n
    BY <1>1
  <2> QED BY <2>1, <2>2
<1>7. n <= b[i + n].ts - b[i].ts
  BY <1>6
<1>8. b[i].ts \in Nat /\ b[j].ts \in Nat
  BY <1>1, BarValues
<1> QED BY <1>1, <1>7, <1>8

\* Times of one day, and of what lies between them.
LEMMA DaysInOrder ==
    ASSUME NEW x \in Nat, NEW y \in Nat, NEW d \in Nat \ {0}, x <= y
    PROVE  /\ x \div d \in Nat /\ y \div d \in Nat /\ x \div d <= y \div d
           /\ x \div d = y \div d => y - x < d
OBVIOUS

\* The session is what comes last, no more bars than a day has.
LEMMA SessionIsTail ==
    ASSUME NEW b, History(b)
    PROVE  \E a \in 1 .. Len(b) :
              /\ {i \in 1 .. Len(b) : DayOf(b[i]) = DayOf(Last(b))} = a .. Len(b)
              /\ Len(b) - a < BarsPerDay
<1> DEFINE n == Len(b)
           S == {i \in 1 .. n : DayOf(b[i]) = DayOf(Last(b))}
<1>1. n \in Nat \ {0} /\ n \in 1 .. n /\ Last(b) = b[n] /\ \A i \in 1 .. n : b[i].ts \in Nat
  BY BarValues
<1>2. BarsPerDay \in Nat \ {0}
  BY PresetsAssumption
<1>3. n \in S /\ S \in SUBSET Nat
  BY <1>1
<1>4. PICK a \in S : \A x \in S : a <= x
  <2> HIDE DEF S
  <2> QED BY <1>3, LeastOf
<1>5. a \in 1 .. n /\ DayOf(b[a]) = DayOf(b[n])
  BY <1>1, <1>4
<1>6. ASSUME NEW i \in 1 .. n, NEW j \in i .. n
      PROVE  /\ DayOf(b[i]) \in Nat /\ DayOf(b[j]) \in Nat /\ DayOf(b[i]) <= DayOf(b[j])
             /\ DayOf(b[i]) = DayOf(b[j]) => b[j].ts - b[i].ts < BarsPerDay
  <2>0. 0 <= j - i
    BY <1>1
  <2>1. b[i].ts \in Nat /\ b[j].ts \in Nat /\ j - i <= b[j].ts - b[i].ts /\ 0 <= j - i
    <3>1. b[i].ts \in Nat /\ b[j].ts \in Nat /\ j - i <= b[j].ts - b[i].ts
      BY TimeGoesOn
    <3> QED BY <3>1, <2>0
  <2>2. b[i].ts <= b[j].ts
    <3>1. PICK x \in Nat, y \in Nat, e \in Int : x = b[i].ts /\ y = b[j].ts /\ e = j - i /\ e <= y - x /\ 0 <= e
      BY <2>1, <1>1
    <3>2. x <= y
      BY <3>1
    <3> QED BY <3>1, <3>2
  <2> QED BY <2>1, <2>2, <1>2, DaysInOrder DEF DayOf
<1>7. ASSUME NEW j \in a .. n PROVE j \in S
  <2>1. j \in 1 .. n /\ n \in j .. n /\ a \in 1 .. n
    BY <1>1, <1>5
  <2>2. DayOf(b[a]) <= DayOf(b[j]) /\ DayOf(b[a]) \in Nat /\ DayOf(b[j]) \in Nat
    BY <2>1, <1>6
  <2>3. DayOf(b[j]) <= DayOf(b[n]) /\ DayOf(b[n]) \in Nat
    BY <2>1, <1>6
  <2>4. DayOf(b[j]) = DayOf(b[n])
    BY <2>2, <2>3, <1>5
  <2> QED BY <2>1, <2>4, <1>1
<1>8. ASSUME NEW j \in S PROVE j \in a .. n
  <2>1. a <= j /\ j \in 1 .. n /\ a \in Nat
    BY <1>4, <1>5
  <2> QED BY <2>1, <1>1
<1>9. n - a < BarsPerDay
  <2>1. n \in a .. n
    BY <1>1, <1>5
  <2>2. b[n].ts - b[a].ts < BarsPerDay /\ n - a <= b[n].ts - b[a].ts /\ b[n].ts \in Nat /\ b[a].ts \in Nat
    BY <2>1, <1>5, <1>6, TimeGoesOn
  <2>3. PICK x \in Nat, y \in Nat : x = b[a].ts /\ y = b[n].ts
    BY <2>2
  <2>4. n - a <= y - x /\ y - x < BarsPerDay
    BY <2>2, <2>3
  <2> QED BY <2>4, <1>1, <1>2, <1>5
<1>10. S = a .. n
  BY <1>7, <1>8
<1> QED BY <1>5, <1>9, <1>10

\* A view of as many bars as the session has holds the whole of it.
LEMMA SessionIsSeen ==
    ASSUME NEW b, History(b), NEW m \in Nat \ {0}, Len(latest_session(b)) <= m
    PROVE  latest_session(Newest(b, m)) = latest_session(b)
<1> DEFINE w == Newest(b, m)
           n == Len(b)
           k == Len(w)
           S == {i \in 1 .. n : DayOf(b[i]) = DayOf(Last(b))}
           R == {i \in 1 .. k : DayOf(w[i]) = DayOf(Last(w))}
<1>2. /\ History(w) /\ Last(w) = Last(b) /\ k = (IF n <= m THEN n ELSE m)
      /\ \A i \in 1 .. k : w[i] = b[n - k + i]
  BY NewestIsTail
<1> HIDE DEF w
<1>3. n \in Nat \ {0} /\ k \in Nat \ {0}
  BY <1>2, BarValues
<1>4. PICK a \in 1 .. n : S = a .. n
  BY SessionIsTail
<1>5. PICK e \in 1 .. k : R = e .. k
  BY <1>2, SessionIsTail
<1>6. b \in Seq(BarRow) /\ w \in Seq(BarRow)
  BY <1>2 DEF History
<1>7. MembersAt(b, a .. n) = [r \in 1 .. n - a + 1 |-> b[a + r - 1]]
  BY <1>6, TailMembers
<1>8. MembersAt(w, e .. k) = [r \in 1 .. k - e + 1 |-> w[e + r - 1]]
  BY <1>6, TailMembers
<1>9. k <= n /\ n - k < a
  <2>0. Len([r \in 1 .. n - a + 1 |-> b[a + r - 1]]) = n - a + 1
    <3> n - a + 1 \in Nat
      BY <1>3
    <3> QED OBVIOUS
  <2>1. a \in Nat /\ a >= 1 /\ a <= n /\ n - a + 1 <= m
    <3>1. latest_session(b) = MembersAt(b, S)
      BY DEF latest_session
    <3> HIDE DEF S, n
    <3>2. Len(latest_session(b)) = n - a + 1
      BY <3>1, <2>0, <1>4, <1>7
    <3> QED BY <3>2, <1>3
  <2>2. CASE n <= m
    BY <2>1, <2>2, <1>2, <1>3
  <2>3. CASE ~(n <= m)
    BY <2>1, <2>3, <1>2, <1>3
  <2> QED BY <2>2, <2>3
<1>10. \A i \in 1 .. k : i \in e .. k <=> n - k + i \in a .. n
  <2>0. \A i \in 1 .. k : n - k + i \in 1 .. n
    <3> HIDE DEF k, n
    <3> QED BY <1>3, <1>9
  <2>1. \A i \in 1 .. k : n - k + i \in 1 .. n /\ w[i] = b[n - k + i]
    BY <1>2, <2>0
  <2>2. \A i \in 1 .. k : i \in R <=> n - k + i \in S
    BY <2>1, <1>2
  <2> HIDE DEF R, S
  <2> QED BY <2>2, <1>4, <1>5
<1>11. e = a - (n - k)
  <2>1. a - (n - k) \in 1 .. k /\ n - k + (a - (n - k)) = a /\ a \in a .. n
    BY <1>3, <1>4, <1>9
  <2>2. a - (n - k) \in e .. k
    BY <2>1, <1>10
  <2>3. e \in 1 .. k /\ e \in e .. k
    BY <1>3, <1>5
  <2>4. n - k + e \in a .. n
    BY <2>3, <1>10
  <2> QED BY <2>2, <2>4, <1>3, <1>4, <1>5
<1>12. k - e + 1 = n - a + 1
  BY <1>11, <1>3, <1>4
<1>13. ASSUME NEW r \in 1 .. n - a + 1 PROVE w[e + r - 1] = b[a + r - 1]
  <2>1. e + r - 1 \in 1 .. k /\ n - k + (e + r - 1) = a + r - 1
    BY <1>3, <1>4, <1>5, <1>9, <1>11
  <2> QED BY <2>1, <1>2
<1>14. MembersAt(w, e .. k) = MembersAt(b, a .. n)
  BY <1>7, <1>8, <1>12, <1>13
<1>15. latest_session(w) = MembersAt(w, R) /\ latest_session(b) = MembersAt(b, S)
  BY DEF latest_session
<1> QED BY <1>4, <1>5, <1>14, <1>15 DEF w

-----------------------------------------------------------------------------
(* What the presets emit.                                                   *)

\* A signal for a bar of the newest bar's day, its entry between its levels.
Sound(s, b) ==
    /\ s \in Signals /\ 0 < s.ref_entry /\ DayOf(s) = DayOf(Last(b))
    /\ s.direction = "long" => s.ref_sl <= s.ref_entry /\ s.ref_entry <= s.ref_tp
    /\ s.direction = "short" => s.ref_tp <= s.ref_entry /\ s.ref_entry <= s.ref_sl
    /\ s.ref_tp = s.ref_entry => s.ref_sl = s.ref_entry

\* A bar a preset may name.
OfDay(r, b) == r \in BarRow /\ DayOf(r) = DayOf(Last(b))

LEMMA OfDayValues ==
    ASSUME NEW b, NEW r, OfDay(r, b)
    PROVE  /\ r.ts \in Nat /\ r.h \in Nat /\ r.l \in Nat /\ r.c \in Nat /\ 0 < r.c
           /\ r.l <= r.c /\ r.c <= r.h /\ r.l <= r.h
<1>1. r \in BarRow
  BY DEF OfDay
<1>2. /\ r.ts \in Nat /\ r.h \in Nat /\ r.l \in Nat /\ r.c \in Nat
      /\ 0 < r.l /\ r.l <= r.h /\ r.l <= r.c /\ r.c <= r.h
  BY <1>1 DEF BarRow
<1> QED BY <1>2

LEMMA LongIsSound ==
    ASSUME NEW b, NEW r, OfDay(r, b), NEW stop \in Int, NEW target \in Int,
           stop <= r.c, r.c <= target, target = r.c => stop = r.c
    PROVE  Sound(Signal(r, "long", stop, target), b)
<1> DEFINE s == Signal(r, "long", stop, target)
<1>1. /\ s.ts = r.ts /\ s.direction = "long" /\ s.ref_entry = r.c /\ s.ref_sl = stop
      /\ s.ref_tp = target
  BY DEF Signal
<1>2. r.ts \in Nat /\ r.c \in Nat /\ r.c \in Int /\ 0 < r.c
  BY OfDayValues
<1>3. s \in Signals
  BY <1>2 DEF Signal, Signals
<1>4. DayOf(s) = DayOf(Last(b))
  BY <1>1 DEF DayOf, OfDay
<1> HIDE DEF s
<1>5. s.direction # "short"
  BY <1>1
<1> QED BY <1>1, <1>2, <1>3, <1>4, <1>5 DEF Sound, s

LEMMA ShortIsSound ==
    ASSUME NEW b, NEW r, OfDay(r, b), NEW stop \in Int, NEW target \in Int,
           r.c <= stop, target <= r.c, target = r.c => stop = r.c
    PROVE  Sound(Signal(r, "short", stop, target), b)
<1> DEFINE s == Signal(r, "short", stop, target)
<1>1. /\ s.ts = r.ts /\ s.direction = "short" /\ s.ref_entry = r.c /\ s.ref_sl = stop
      /\ s.ref_tp = target
  BY DEF Signal
<1>2. r.ts \in Nat /\ r.c \in Nat /\ r.c \in Int /\ 0 < r.c
  BY OfDayValues
<1>3. s \in Signals
  BY <1>2 DEF Signal, Signals
<1>4. DayOf(s) = DayOf(Last(b))
  BY <1>1 DEF DayOf, OfDay
<1> HIDE DEF s
<1>5. s.direction # "long"
  BY <1>1
<1> QED BY <1>1, <1>2, <1>3, <1>4, <1>5 DEF Sound, s

\* A multiple of a distance, one at least.
LEMMA RewardGrows ==
    ASSUME NEW d \in Nat, NEW m \in Nat \ {0}
    PROVE  d * m \in Nat /\ (d * m = 0 => d = 0)
<1>1. PICK k \in Nat : m = k + 1
  <2>1. m - 1 \in Nat /\ m = (m - 1) + 1
    OBVIOUS
  <2> QED BY <2>1
<1>2. d * (k + 1) = d * k + d /\ d * k \in Nat
  OBVIOUS
<1> QED BY <1>1, <1>2

\* The parameters, one by one.
LEMMA Parameters ==
    /\ BarsPerDay \in Nat \ {0} /\ P.or_bars \in Nat \ {0} /\ P.rr \in Nat \ {0}
    /\ P.level_lookback \in Nat \ {0} /\ P.range_lookback \in Nat \ {0}
    /\ P.grid_levels \in Nat \ {0} /\ P.std_k \in Nat \ {0} /\ P.sl_atr_mult \in Nat \ {0}
    /\ P.atr_period \in Nat \ {0} /\ P.bb_std \in Nat \ {0} /\ P.sl_lookback \in Nat \ {0}
    /\ P.swing_lookback \in Nat \ {0} /\ P.trend_ema \in Nat \ {0} /\ P.slow \in Nat \ {0}
    /\ P.window \in Nat \ {0} /\ P.history \in Nat \ {0}
    /\ P.sma_fast \in Nat \ {0} /\ P.sma_slow \in Nat \ {0}
    /\ P.std_min \in Nat \ {0, 1} /\ P.bb_period \in Nat \ {0, 1}
    /\ P.retest_tolerance \in Nat /\ P.touch_tolerance \in Nat
BY PresetsAssumption

LEMMA LongRewardIsSound ==
    ASSUME NEW b, NEW r, OfDay(r, b), NEW stop \in Int, stop <= r.c
    PROVE  Sound(Signal(r, "long", stop, rr_target(r.c, stop, "long", P.rr)), b)
<1>1. PICK x \in Nat : x = r.c
  BY OfDayValues
<1>2. PICK m \in Nat \ {0} : m = P.rr
  BY Parameters
<1>3. x - stop \in Nat
  BY <1>1
<1>4. AbsDiff(x, stop) = x - stop
  BY <1>1 DEF AbsDiff
<1>5. PICK d \in Nat : d = x - stop
  BY <1>3
<1>6. PICK e \in Nat : e = d * m /\ (e = 0 => d = 0)
  BY RewardGrows
<1>7. rr_target(r.c, stop, "long", P.rr) = x + e
  BY <1>1, <1>2, <1>4, <1>5, <1>6 DEF rr_target
<1>8. x + e \in Int /\ r.c <= x + e /\ stop <= r.c /\ (x + e = r.c => stop = r.c)
  <2>1. x + e \in Int /\ x <= x + e
    OBVIOUS
  <2>2. ASSUME x + e = x PROVE stop = x
    <3>1. e = 0
      BY <2>2
    <3>2. x - stop = 0
      BY <3>1, <1>5, <1>6
    <3> QED BY <3>2
  <2> QED BY <2>1, <2>2, <1>1
<1> QED BY <1>7, <1>8, LongIsSound

LEMMA ShortRewardIsSound ==
    ASSUME NEW b, NEW r, OfDay(r, b), NEW stop \in Int, r.c <= stop
    PROVE  Sound(Signal(r, "short", stop, rr_target(r.c, stop, "short", P.rr)), b)
<1>1. PICK x \in Nat : x = r.c
  BY OfDayValues
<1>2. PICK m \in Nat \ {0} : m = P.rr
  BY Parameters
<1>3. stop - x \in Nat
  BY <1>1
<1>4. AbsDiff(x, stop) = stop - x
  <2>1. CASE x >= stop
    BY <2>1, <1>1 DEF AbsDiff
  <2>2. CASE ~(x >= stop)
    BY <2>2, <1>1 DEF AbsDiff
  <2> QED BY <2>1, <2>2
<1>5. PICK d \in Nat : d = stop - x
  BY <1>3
<1>6. PICK e \in Nat : e = d * m /\ (e = 0 => d = 0)
  BY RewardGrows
<1>7. rr_target(r.c, stop, "short", P.rr) = x - e
  BY <1>1, <1>2, <1>4, <1>5, <1>6 DEF rr_target
<1>8. x - e \in Int /\ x - e <= r.c /\ r.c <= stop /\ (x - e = r.c => stop = r.c)
  <2>1. x - e \in Int /\ x - e <= x
    OBVIOUS
  <2>2. ASSUME x - e = x PROVE stop = x
    <3>1. e = 0
      BY <2>2
    <3>2. stop - x = 0
      BY <3>1, <1>5, <1>6
    <3> QED BY <3>2
  <2> QED BY <2>1, <2>2, <1>1
<1> QED BY <1>7, <1>8, ShortIsSound

LEMMA PercentIsNat ==
    ASSUME NEW x \in Nat, NEW y \in Nat
    PROVE  Percent(x, y) \in Nat
<1>1. PICK z \in Nat : z = x * y
  OBVIOUS
<1>2. z \div 100 \in Nat
  OBVIOUS
<1> QED BY <1>1, <1>2 DEF Percent

\* The first bars of a sequence.
LEMMA FirstBars ==
    ASSUME NEW X, NEW s \in Seq(X), NEW n \in Nat \ {0}, n <= Len(s)
    PROVE  SubSeq(s, 1, n) \in Seq(X) /\ SubSeq(s, 1, n) # <<>>
<1>1. 1 \in 1 .. Len(s) /\ n \in 1 .. Len(s) /\ n - 1 + 1 = n
  OBVIOUS
<1>2. SubSeq(s, 1, n) \in Seq(X) /\ Len(SubSeq(s, 1, n)) = n
  BY <1>1
<1> QED BY <1>2

LEMMA OrbIsSound ==
    ASSUME NEW b, History(b), NEW x \in orb(b)
    PROVE  Sound(x, b)
<1> DEFINE s == latest_session(b)
           range == SubSeq(s, 1, P.or_bars)
           or_high == Largest(Highs(range))
           or_low == Smallest(Lows(range))
           rv == rel_volume(Volumes(s), P.or_bars)
           breaks == {i \in P.or_bars + 1 .. Len(s) :
                        /\ Known(rv[i]) /\ rv[i] >= P.min_rel_volume
                        /\ s[i].c > or_high \/ s[i].c < or_low}
           bar == s[Min(breaks)]
<1>1. orb(b) = IF Len(s) <= P.or_bars \/ breaks = {} THEN {}
               ELSE IF bar.c > or_high
               THEN {Signal(bar, "long", or_low, rr_target(bar.c, or_low, "long", P.rr))}
               ELSE {Signal(bar, "short", or_high, rr_target(bar.c, or_high, "short", P.rr))}
  BY DEF orb
<1>2. s \in Seq(BarRow) /\ \A i \in 1 .. Len(s) : OfDay(s[i], b)
  BY SessionIsOfDay DEF OfDay
<1> HIDE DEF s
<1>3. breaks # {} /\ P.or_bars \in Nat \ {0} /\ P.or_bars <= Len(s) /\ Len(s) \in Nat
  <2>1. breaks # {} /\ ~(Len(s) <= P.or_bars)
    <3> HIDE DEF breaks, bar, or_high, or_low
    <3> QED BY <1>1
  <2>2. P.or_bars \in Nat \ {0} /\ Len(s) \in Nat
    BY <1>2, Parameters
  <2> HIDE DEF breaks
  <2> QED BY <2>1, <2>2
<1>4. or_high \in Nat /\ or_low \in Nat /\ or_low <= or_high
  <2>1. range \in Seq(BarRow) /\ range # <<>>
    BY <1>2, <1>3, FirstBars
  <2> HIDE DEF range
  <2> QED BY <2>1, LowAndHigh
<1> HIDE DEF or_high, or_low, rv
<1>5. breaks \in SUBSET Nat
  BY <1>3
<1>6. /\ Min(breaks) \in 1 .. Len(s)
      /\ s[Min(breaks)].c > or_high \/ s[Min(breaks)].c < or_low
  <2>1. Min(breaks) \in breaks
    <3> HIDE DEF breaks
    <3> QED BY <1>3, <1>5, LeastIsMin
  <2>2. \A i \in P.or_bars + 1 .. Len(s) : i \in 1 .. Len(s)
    BY <1>3
  <2> QED BY <2>1, <2>2
<1> HIDE DEF breaks
<1>7. OfDay(bar, b) /\ bar.c \in Nat /\ (bar.c > or_high \/ bar.c < or_low)
  <2>1. OfDay(bar, b)
    BY <1>2, <1>6
  <2> HIDE DEF bar
  <2>2. bar.c \in Nat
    BY <2>1, OfDayValues
  <2> QED BY <2>1, <2>2, <1>6 DEF bar
<1>8. \/ bar.c > or_high /\ x = Signal(bar, "long", or_low, rr_target(bar.c, or_low, "long", P.rr))
      \/ ~(bar.c > or_high) /\ x = Signal(bar, "short", or_high, rr_target(bar.c, or_high, "short", P.rr))
  BY <1>1, <1>3
<1> HIDE DEF bar
<1>9. CASE bar.c > or_high
  <2>1. or_low \in Int /\ or_low <= bar.c
    BY <1>4, <1>7, <1>9
  <2>2. Sound(Signal(bar, "long", or_low, rr_target(bar.c, or_low, "long", P.rr)), b)
    BY <2>1, <1>7, LongRewardIsSound
  <2> QED BY <2>2, <1>8, <1>9
<1>10. CASE ~(bar.c > or_high)
  <2>1. or_high \in Int /\ bar.c <= or_high
    BY <1>4, <1>7, <1>10
  <2>2. Sound(Signal(bar, "short", or_high, rr_target(bar.c, or_high, "short", P.rr)), b)
    BY <2>1, <1>7, ShortRewardIsSound
  <2> QED BY <2>2, <1>8, <1>10
<1> QED BY <1>9, <1>10

LEMMA RetestIsSound ==
    ASSUME NEW b, History(b), NEW x \in breakout_retest(b)
    PROVE  Sound(x, b)
<1> DEFINE s == latest_session(b)
           n == P.level_lookback
           resistance == Largest(Highs(SubSeq(s, 1, n)))
           rv == rel_volume(Volumes(s), n)
           held == {i \in n + 1 .. Len(s) - 1 :
                      /\ Known(rv[i]) /\ rv[i] >= P.min_rel_volume
                      /\ s[i].c > resistance
                      /\ s[i + 1].l >= resistance - Percent(resistance, P.retest_tolerance)
                      /\ s[i + 1].c > resistance}
           bar == s[Max(held) + 1]
<1>1. breakout_retest(b) =
        IF Len(s) < n + 2 \/ held = {} THEN {}
        ELSE {Signal(bar, "long", resistance, rr_target(bar.c, resistance, "long", P.rr))}
  BY DEF breakout_retest
<1>2. s \in Seq(BarRow) /\ (\A i \in 1 .. Len(s) : OfDay(s[i], b)) /\ n \in Nat \ {0}
  BY SessionIsOfDay, Parameters DEF OfDay
<1> HIDE DEF s, n
<1>3. /\ held # {} /\ n <= Len(s) /\ Len(s) \in Nat /\ Len(s) - 1 \in Nat
      /\ x = Signal(bar, "long", resistance, rr_target(bar.c, resistance, "long", P.rr))
  <2>1. /\ held # {} /\ ~(Len(s) < n + 2)
        /\ x = Signal(bar, "long", resistance, rr_target(bar.c, resistance, "long", P.rr))
    <3> HIDE DEF held, bar, resistance
    <3> QED BY <1>1
  <2>2. Len(s) \in Nat
    BY <1>2
  <2> HIDE DEF held, bar, resistance
  <2> QED BY <2>1, <2>2, <1>2
<1>4. resistance \in Nat
  <2> DEFINE range == SubSeq(s, 1, n)
  <2>1. range \in Seq(BarRow) /\ range # <<>>
    BY <1>2, <1>3, FirstBars
  <2> HIDE DEF range
  <2>2. Largest(Highs(range)) \in Nat
    BY <2>1, LowAndHigh
  <2> QED BY <2>2 DEF range
<1> HIDE DEF resistance, rv
<1>5. held \in SUBSET (1 .. Len(s) - 1)
  <2>1. \A i \in n + 1 .. Len(s) - 1 : i \in 1 .. Len(s) - 1
    BY <1>2, <1>3
  <2> QED BY <2>1
<1>6. Max(held) + 1 \in 1 .. Len(s) /\ s[Max(held) + 1].c > resistance
  <2>1. Max(held) \in held
    <3> HIDE DEF held
    <3> QED BY <1>3, <1>5, GreatestIsMax
  <2>2. \A i \in held : i + 1 \in 1 .. Len(s)
    BY <1>3, <1>5
  <2>3. \A i \in held : s[i + 1].c > resistance
    OBVIOUS
  <2> HIDE DEF held
  <2> QED BY <2>1, <2>2, <2>3
<1>7. OfDay(bar, b) /\ bar.c > resistance
  BY <1>2, <1>6
<1> HIDE DEF bar
<1>8. resistance \in Int /\ resistance <= bar.c
  <2>1. bar.c \in Nat
    BY <1>7, OfDayValues
  <2> QED BY <2>1, <1>4, <1>7
<1>9. Sound(Signal(bar, "long", resistance, rr_target(bar.c, resistance, "long", P.rr)), b)
  BY <1>7, <1>8, LongRewardIsSound
<1> QED BY <1>3, <1>9

LEMMA NewestBarIsOfDay ==
    ASSUME NEW b, History(b)
    PROVE  OfDay(Last(b), b)
BY BarValues DEF OfDay

\* The newest bars' low and high are around the newest bar.
LEMMA SwingsAround ==
    ASSUME NEW b, History(b), NEW n \in Nat \ {0}
    PROVE  /\ swing_low(b, n) \in Nat /\ swing_high(b, n) \in Nat
           /\ swing_low(b, n) <= Last(b).l /\ Last(b).h <= swing_high(b, n)
           /\ swing_low(b, n) <= Last(b).c /\ Last(b).c <= swing_high(b, n)
<1> DEFINE w == Newest(b, n)
<1>1. History(w) /\ Last(w) = Last(b)
  BY NewestIsTail
<1> HIDE DEF w
<1>2. w \in Seq(BarRow) /\ w # <<>> /\ Len(w) \in 1 .. Len(w) /\ Last(w) = w[Len(w)]
  BY <1>1, BarValues DEF History
<1>3. /\ Smallest(Lows(w)) \in Nat /\ Largest(Highs(w)) \in Nat
      /\ Smallest(Lows(w)) <= Last(b).l /\ Last(b).h <= Largest(Highs(w))
  <2>1. /\ Smallest(Lows(w)) \in Nat /\ Largest(Highs(w)) \in Nat
        /\ \A i \in 1 .. Len(w) : Smallest(Lows(w)) <= w[i].l /\ w[i].h <= Largest(Highs(w))
    BY <1>2, LowAndHigh
  <2>2. Last(b) = w[Len(w)]
    BY <1>1, <1>2
  <2> QED BY <2>1, <2>2, <1>2
<1>4. PICK lo \in Nat, hi \in Nat, l \in Nat, c \in Nat, h \in Nat :
         /\ lo = Smallest(Lows(w)) /\ hi = Largest(Highs(w)) /\ l = Last(b).l /\ c = Last(b).c
         /\ h = Last(b).h /\ lo <= l /\ h <= hi /\ l <= c /\ c <= h
  BY <1>3, NewestBarIsOfDay, OfDayValues
<1>5. lo <= c /\ c <= hi
  BY <1>4
<1> QED BY <1>4, <1>5 DEF swing_low, swing_high, w

LEMMA GridIsSound ==
    ASSUME NEW b, History(b), NEW x \in grid_range(b)
    PROVE  Sound(x, b)
<1> DEFINE w == Newest(b, P.range_lookback)
           high == Largest(Highs(w))
           low == Smallest(Lows(w))
           tol == Percent(high - low, P.touch_tolerance)
           up == low + (high - low) \div P.grid_levels
           down == low + ((high - low) * (P.grid_levels - 1)) \div P.grid_levels
           bar == Last(b)
<1>1. grid_range(b) =
        IF Len(b) < P.range_lookback \/ high = low THEN {}
        ELSE IF bar.l <= low + tol
        THEN IF up <= bar.c THEN {} ELSE {Signal(bar, "long", low - tol, up)}
        ELSE IF bar.h >= high - tol
        THEN IF down >= bar.c THEN {} ELSE {Signal(bar, "short", high + tol, down)}
        ELSE {}
  BY DEF grid_range
<1>2. OfDay(bar, b)
  BY NewestBarIsOfDay
<1>3. PICK lo \in Nat, hi \in Nat, c \in Nat :
         lo = low /\ hi = high /\ c = bar.c /\ lo <= c /\ c <= hi
  <2>1. P.range_lookback \in Nat \ {0}
    BY Parameters
  <2>2. /\ low \in Nat /\ high \in Nat /\ low <= bar.c /\ bar.c <= high
    BY <2>1, SwingsAround DEF swing_low, swing_high
  <2>3. bar.c \in Nat
    BY <1>2, OfDayValues
  <2> QED BY <2>2, <2>3
<1> HIDE DEF w, high, low, bar
<1>4. PICK g \in Nat \ {0}, d \in Nat, t \in Nat :
         g = P.grid_levels /\ d = high - low /\ t = tol
  <2>1. hi - lo \in Nat
    BY <1>3
  <2>2. high - low \in Nat
    BY <2>1, <1>3
  <2>3. P.grid_levels \in Nat \ {0} /\ P.touch_tolerance \in Nat
    BY Parameters
  <2>4. tol \in Nat
    BY <2>2, <2>3, PercentIsNat
  <2> QED BY <2>2, <2>3, <2>4
<1> HIDE DEF tol
<1>5. up \in Int /\ down \in Int
  <2>1. d \div g \in Nat
    BY QuotientIsNat
  <2>2. g - 1 \in Nat
    OBVIOUS
  <2>3. d * (g - 1) \in Nat
    BY <2>2
  <2>4. (d * (g - 1)) \div g \in Nat
    BY <2>3, QuotientIsNat
  <2>5. PICK y \in Nat, z \in Nat : y = d \div g /\ z = (d * (g - 1)) \div g
    BY <2>1, <2>4
  <2>6. up = lo + y /\ down = lo + z
    BY <2>5, <1>3, <1>4
  <2> HIDE DEF up, down
  <2> QED BY <2>6
<1> HIDE DEF up, down
<1>6. \/ ~(up <= bar.c) /\ x = Signal(bar, "long", low - tol, up)
      \/ ~(down >= bar.c) /\ x = Signal(bar, "short", high + tol, down)
  BY <1>1
<1>7. CASE ~(up <= bar.c) /\ x = Signal(bar, "long", low - tol, up)
  <2>1. low - tol \in Int /\ low - tol <= bar.c /\ bar.c <= up /\ up # bar.c
    <3>1. PICK u \in Int : u = up
      BY <1>5
    <3>2. lo - t \in Int /\ lo - t <= c /\ c <= u /\ u # c
      BY <3>1, <1>3, <1>7
    <3> QED BY <3>1, <3>2, <1>3, <1>4
  <2> QED BY <2>1, <1>2, <1>5, <1>7, LongIsSound
<1>8. CASE ~(down >= bar.c) /\ x = Signal(bar, "short", high + tol, down)
  <2>1. high + tol \in Int /\ bar.c <= high + tol /\ down <= bar.c /\ down # bar.c
    <3>1. PICK u \in Int : u = down
      BY <1>5
    <3>2. hi + t \in Int /\ c <= hi + t /\ u <= c /\ u # c
      BY <3>1, <1>3, <1>8
    <3> QED BY <3>1, <3>2, <1>3, <1>4
  <2> QED BY <2>1, <1>2, <1>5, <1>8, ShortIsSound
<1> QED BY <1>6, <1>7, <1>8

LEMMA PullbackIsSound ==
    ASSUME NEW b, History(b), NEW x \in pullback_trend(b)
    PROVE  Sound(x, b)
<1> DEFINE bar == b[Len(b)]
           stop == swing_low(b, P.sl_lookback)
<1>1. x = Signal(bar, "long", stop, rr_target(bar.c, stop, "long", P.rr))
  BY DEF pullback_trend
<1>2. bar = Last(b) /\ OfDay(bar, b)
  BY BarValues, NewestBarIsOfDay
<1> HIDE DEF bar
<1>3. stop \in Int /\ stop <= bar.c
  BY <1>2, Parameters, SwingsAround
<1> HIDE DEF stop
<1>4. Sound(Signal(bar, "long", stop, rr_target(bar.c, stop, "long", P.rr)), b)
  BY <1>2, <1>3, LongRewardIsSound
<1> QED BY <1>1, <1>4

LEMMA CrossIsSound ==
    ASSUME NEW b, History(b), NEW x \in ema_vwap_trend(b)
    PROVE  Sound(x, b)
<1> DEFINE bar == b[Len(b)]
           low == swing_low(b, P.swing_lookback)
           high == swing_high(b, P.swing_lookback)
<1>1. \/ x = Signal(bar, "long", low, rr_target(bar.c, low, "long", P.rr))
      \/ x = Signal(bar, "short", high, rr_target(bar.c, high, "short", P.rr))
  BY DEF ema_vwap_trend
<1>2. bar = Last(b) /\ OfDay(bar, b)
  BY BarValues, NewestBarIsOfDay
<1> HIDE DEF bar
<1>3. low \in Int /\ low <= bar.c /\ high \in Int /\ bar.c <= high
  BY <1>2, Parameters, SwingsAround
<1> HIDE DEF low, high
<1>4. Sound(Signal(bar, "long", low, rr_target(bar.c, low, "long", P.rr)), b)
  BY <1>2, <1>3, LongRewardIsSound
<1>5. Sound(Signal(bar, "short", high, rr_target(bar.c, high, "short", P.rr)), b)
  BY <1>2, <1>3, ShortRewardIsSound
<1> QED BY <1>1, <1>4, <1>5

LEMMA BandReversionIsSound ==
    ASSUME NEW b, History(b), NEW x \in bb_rsi_revert(b)
    PROVE  Sound(x, b)
<1> DEFINE c == Closes(b)
           bb == bollinger(c, P.bb_period, P.bb_std)
           bar == Last(b)
           mid == Last(bb.mid)
           lower == Last(bb.lower)
           upper == Last(bb.upper)
<1>1. /\ ~(Len(b) < P.bb_period + 1)
      /\ \/ /\ bar.c < lower
            /\ x = Signal(bar, "long", Min({lower, bar.c}) - (mid - lower) \div 4, mid)
         \/ /\ bar.c > upper
            /\ x = Signal(bar, "short", Max({upper, bar.c}) + (upper - mid) \div 4, mid)
  BY DEF bb_rsi_revert
<1>2. OfDay(bar, b)
  BY NewestBarIsOfDay
<1>3. PICK z \in Nat : z = bar.c
  BY <1>2, OfDayValues
<1>4. PICK m \in Int, e \in Nat : mid = m /\ upper = m + e /\ lower = m - e
  <2>1. c \in Seq(Int) /\ Len(c) = Len(b) /\ Len(b) \in Nat
    BY ClosesAreInt, BarValues
  <2>2. P.bb_period \in Nat \ {0, 1} /\ P.bb_std \in Nat \ {0}
    BY Parameters
  <2>3. P.bb_period <= Len(c)
    <3> HIDE DEF c, bar, mid, lower, upper
    <3> QED BY <1>1, <2>1, <2>2
  <2> HIDE DEF c
  <2> QED BY <2>1, <2>2, <2>3, BandsAround
<1> HIDE DEF c, bb, bar, mid, lower, upper
<1>5. PICK q \in Nat : q = e \div 4
  OBVIOUS
<1>6. CASE bar.c < lower /\ x = Signal(bar, "long", Min({lower, bar.c}) - (mid - lower) \div 4, mid)
  <2>1. z < m - e /\ m - (m - e) = e
    BY <1>3, <1>4, <1>6
  <2>2. Min({m - e, z}) = z
    BY <2>1 DEF Min
  <2>3. z - q \in Int /\ z - q <= z /\ z <= m /\ m # z
    BY <2>1
  <2>4. x = Signal(bar, "long", z - q, m)
    BY <1>3, <1>4, <1>5, <1>6, <2>1, <2>2
  <2> QED BY <2>3, <2>4, <1>2, <1>3, LongIsSound
<1>7. CASE bar.c > upper /\ x = Signal(bar, "short", Max({upper, bar.c}) + (upper - mid) \div 4, mid)
  <2>1. z > m + e /\ (m + e) - m = e
    BY <1>3, <1>4, <1>7
  <2>2. Max({m + e, z}) = z
    BY <2>1 DEF Max
  <2>3. z + q \in Int /\ z <= z + q /\ m <= z /\ m # z
    BY <2>1
  <2>4. x = Signal(bar, "short", z + q, m)
    BY <1>3, <1>4, <1>5, <1>7, <2>1, <2>2
  <2> QED BY <2>3, <2>4, <1>2, <1>3, ShortIsSound
<1> QED BY <1>1, <1>6, <1>7

LEMMA VwapReversionIsSound ==
    ASSUME NEW b, History(b), NEW x \in vwap_revert(b)
    PROVE  Sound(x, b)
<1> DEFINE s == latest_session(b)
           sv == vwap(s)
           S == {i \in 1 .. Len(s) : Known(sv[i])}
           dev == [i \in 1 .. Len(s) |-> s[i].c - sv[i]]
           known == MembersAt(dev, S)
           sd == DeviationStd(known)
           a == IF Len(b) < P.atr_period THEN 0 ELSE Last(atr(b, P.atr_period))
           bar == Last(b)
           away == bar.c - Last(sv)
<1>1. /\ ~(Len(known) < P.std_min) /\ Known(Last(sv)) /\ sd # 0
      /\ \/ away <= -P.std_k * sd /\ x = Signal(bar, "long", bar.c - a * P.sl_atr_mult, Last(sv))
         \/ away >= P.std_k * sd /\ x = Signal(bar, "short", bar.c + a * P.sl_atr_mult, Last(sv))
  BY DEF vwap_revert
<1>2. OfDay(bar, b)
  BY NewestBarIsOfDay
<1>3. PICK z \in Nat : z = bar.c
  BY <1>2, OfDayValues
<1>4. s \in Seq(BarRow) /\ Len(s) \in Nat /\ \A i \in 1 .. Len(s) : s[i].c \in Nat
  <2>1. s \in Seq(BarRow) /\ \A i \in 1 .. Len(s) : OfDay(s[i], b)
    BY SessionIsOfDay DEF OfDay
  <2> HIDE DEF s
  <2>2. \A i \in 1 .. Len(s) : s[i].c \in Nat
    BY <2>1, OfDayValues
  <2> QED BY <2>1, <2>2
<1> HIDE DEF s
<1>5. Len(sv) = Len(s) /\ \A i \in 1 .. Len(s) : Known(sv[i]) => sv[i] \in Int
  BY <1>4, VwapIsNumber
<1> HIDE DEF sv
<1>6. S \in SUBSET (1 .. Len(s)) /\ \A i \in S : dev[i] \in Int
  <2>1. ASSUME NEW i \in S PROVE dev[i] \in Int
    <3>1. i \in 1 .. Len(s) /\ dev[i] = s[i].c - sv[i]
      OBVIOUS
    <3>2. sv[i] \in Int /\ s[i].c \in Int
      BY <1>4, <1>5
    <3> QED BY <3>1, <3>2
  <2> QED BY <2>1
<1> HIDE DEF S, dev
<1>7. /\ Cardinality(S) \in Nat /\ Len(known) = Cardinality(S)
      /\ known \in Seq(Int) /\ \A r \in 1 .. Cardinality(S) : InOrder(S)[r] \in S
  <2>0. Cardinality(S) \in Nat /\ InOrder(S) \in [1 .. Cardinality(S) -> S]
    BY <1>4, <1>6, InOrderAscends
  <2>1. Cardinality(S) \in Nat /\ \A r \in 1 .. Cardinality(S) : InOrder(S)[r] \in S
    BY <2>0
  <2>2. known = [r \in 1 .. Cardinality(S) |-> dev[InOrder(S)[r]]]
    BY DEF MembersAt
  <2>3. \A r \in 1 .. Cardinality(S) : dev[InOrder(S)[r]] \in Int
    BY <2>1, <1>6
  <2> HIDE DEF known
  <2> QED BY <2>1, <2>2, <2>3
<1> HIDE DEF known
<1>8. Len(known) >= 2 /\ Len(s) \in 1 .. Len(s)
  <2>1. ~(Len(known) < P.std_min) /\ P.std_min \in Nat \ {0, 1}
    BY <1>1, Parameters
  <2>2. Len(known) \in Nat /\ Len(known) >= 2
    BY <2>1, <1>7
  <2>3. 1 \in 1 .. Cardinality(S)
    BY <2>2, <1>7
  <2>4. InOrder(S)[1] \in 1 .. Len(s)
    BY <2>3, <1>6, <1>7
  <2> QED BY <2>2, <2>4, <1>4
<1>9. PICK v \in Int : v = Last(sv)
  <2>1. Last(sv) = sv[Len(s)]
    BY <1>5 DEF Last
  <2>2. Known(sv[Len(s)])
    BY <1>1, <2>1
  <2> QED BY <2>1, <2>2, <1>5, <1>8
<1>10. PICK e \in Nat : e = P.std_k * sd /\ e # 0
  <2>1. PICK k \in Nat \ {0} : k = P.std_k
    BY Parameters
  <2>2. PICK d \in Nat : d = sd /\ d # 0
    <3>1. sd \in Nat
      BY <1>7, <1>8, DeviationIsNat
    <3>2. sd # 0
      BY <1>1
    <3> QED BY <3>1, <3>2
  <2>3. d * k \in Nat /\ d * k # 0 /\ k * d = d * k
    BY <2>2, RewardGrows
  <2> QED BY <2>1, <2>2, <2>3
<1>11. PICK y \in Nat : y = a * P.sl_atr_mult
  <2>1. P.atr_period \in Nat \ {0} /\ P.sl_atr_mult \in Nat \ {0} /\ Len(b) \in Nat
    BY Parameters, BarValues
  <2>2. a \in Nat
    <3>1. CASE Len(b) < P.atr_period
      BY <3>1
    <3>2. CASE ~(Len(b) < P.atr_period)
      <4>1. b \in Seq(BarRow) /\ P.atr_period <= Len(b)
        BY <3>2, <2>1 DEF History
      <4>2. /\ Len(atr(b, P.atr_period)) = Len(b)
            /\ \A i \in P.atr_period .. Len(b) : atr(b, P.atr_period)[i] \in Nat
        BY <4>1, <2>1, AtrIsNat
      <4>3. Len(b) \in P.atr_period .. Len(b)
        BY <4>1, <2>1
      <4>4. Last(atr(b, P.atr_period)) \in Nat
        BY <4>2, <4>3 DEF Last
      <4> QED BY <4>4, <3>2
    <3> QED BY <3>1, <3>2
  <2> HIDE DEF a
  <2>3. PICK d \in Nat, m \in Nat \ {0} : d = a /\ m = P.sl_atr_mult
    BY <2>1, <2>2
  <2>4. d * m \in Nat
    BY RewardGrows
  <2> QED BY <2>3, <2>4
<1>12. \/ z - v <= -e /\ x = Signal(bar, "long", z - y, v)
       \/ z - v >= e /\ x = Signal(bar, "short", z + y, v)
  <2>1. -P.std_k * sd = -e /\ away = z - v
    BY <1>3, <1>9, <1>10
  <2> HIDE DEF bar, a, sd, away
  <2> QED BY <2>1, <1>1, <1>3, <1>9, <1>10, <1>11
<1> HIDE DEF bar
<1>13. CASE z - v <= -e /\ x = Signal(bar, "long", z - y, v)
  <2>1. z - y \in Int /\ z - y <= z /\ z <= v /\ v # z
    BY <1>10, <1>13
  <2> QED BY <2>1, <1>2, <1>3, <1>13, LongIsSound
<1>14. CASE z - v >= e /\ x = Signal(bar, "short", z + y, v)
  <2>1. z + y \in Int /\ z <= z + y /\ v <= z /\ v # z
    BY <1>10, <1>14
  <2> QED BY <2>1, <1>2, <1>3, <1>14, ShortIsSound
<1> QED BY <1>12, <1>13, <1>14

\* Every preset, over any history.
LEMMA SignalsAreSound ==
    ASSUME NEW b, History(b), NEW n \in Names, NEW x \in generate_signals(n, b)
    PROVE  Sound(x, b)
<1>1. CASE n = "orb"
  BY <1>1, OrbIsSound DEF generate_signals
<1>2. CASE n = "breakout_retest"
  BY <1>2, RetestIsSound DEF generate_signals
<1>3. CASE n = "grid_range"
  BY <1>3, GridIsSound DEF generate_signals
<1>4. CASE n = "vwap_revert"
  BY <1>4, VwapReversionIsSound DEF generate_signals
<1>5. CASE n = "bb_rsi_revert"
  BY <1>5, BandReversionIsSound DEF generate_signals
<1>6. CASE n = "pullback_trend"
  BY <1>6, PullbackIsSound DEF generate_signals
<1>7. CASE n = "ema_vwap_trend"
  BY <1>7, CrossIsSound DEF generate_signals
<1> QED BY <1>1, <1>2, <1>3, <1>4, <1>5, <1>6, <1>7 DEF Names

\* A view that holds the session gives ORB and the retest what all of history does.
LEMMA WholeSessionIsEnough ==
    ASSUME NEW b, NEW w, latest_session(w) = latest_session(b), NEW n \in {"orb", "breakout_retest"}
    PROVE  generate_signals(n, w) = generate_signals(n, b)
<1>1. orb(w) = orb(b)
  BY DEF orb
<1>2. breakout_retest(w) = breakout_retest(b)
  BY DEF breakout_retest
<1>3. CASE n = "orb"
  BY <1>1, <1>3 DEF generate_signals
<1>4. CASE n = "breakout_retest"
  BY <1>2, <1>4 DEF generate_signals
<1> QED BY <1>3, <1>4

LEMMA WalkWindowIsNat == WalkWindow \in Nat \ {0}
BY Parameters DEF WalkWindow, session_floor_window

\* A window floored for a market has room for its session.
LEMMA FloorHoldsSession ==
    ASSUME NEW market \in Markets
    PROVE  LET m == session_floor_window(P.window, TRUE, market)
           IN m \in Nat \ {0} /\ SessionBars(market) \in Int /\ SessionBars(market) <= m
<1>1. SessionBars(market) \in Int
  BY Parameters DEF SessionBars
<1>2. PICK x \in Nat \ {0}, y \in Int : x = P.window /\ y = SessionBars(market)
  BY <1>1, Parameters
<1>3. Max({x, y}) \in Nat \ {0} /\ y <= Max({x, y})
  <2>1. CASE x >= y
    <3>1. Max({x, y}) = x
      BY <2>1 DEF Max
    <3> QED BY <2>1, <3>1
  <2>2. CASE ~(x >= y)
    <3>1. Max({x, y}) = y
      BY <2>2 DEF Max
    <3> QED BY <2>2, <3>1
  <2> QED BY <2>1, <2>2
<1> QED BY <1>1, <1>2, <1>3 DEF session_floor_window

\* strategies/*.py, signal_bridge.py:226-240: on every history, whatever the parameters,
\* a preset's signal is for the newest bar's day and its entry lies between its levels,
\* and a window floored to a market's session shows a session-anchored preset all of a
\* session that is no longer than that.
THEOREM PresetsAreSound == Spec => []PresetsSound
<1>1. ASSUME BarsInv PROVE PresetsSound
  <2>1. ASSUME Full PROVE History(bars)
    BY <1>1, <2>1 DEF BarsInv, History, Full
  <2>2. LevelsOrdered
    <3> SUFFICES ASSUME Full, NEW n \in Names, NEW s \in generate_signals(n, bars)
                 PROVE  /\ s.direction = "long" => s.ref_sl <= s.ref_entry /\ s.ref_entry <= s.ref_tp
                        /\ s.direction = "short" => s.ref_tp <= s.ref_entry /\ s.ref_entry <= s.ref_sl
                        /\ s.ref_tp = s.ref_entry => s.ref_sl = s.ref_entry
      BY DEF LevelsOrdered
    <3>1. Sound(s, bars)
      BY <2>1, SignalsAreSound
    <3> QED BY <3>1 DEF Sound
  <2>3. SignalIsOfThisSession
    <3> SUFFICES ASSUME Full, NEW n \in Names, NEW s \in Live(n, bars)
                 PROVE  DayOf(s) = DayOf(Now)
      BY DEF SignalIsOfThisSession
    <3> DEFINE frame == Frame(bars)
    <3>1. History(frame) /\ Last(frame) = Last(bars)
      BY <2>1, Parameters, NewestIsTail DEF Frame
    <3>2. s \in generate_signals(n, frame)
      BY DEF Live
    <3> HIDE DEF frame
    <3>3. Sound(s, frame)
      BY <3>1, <3>2, SignalsAreSound
    <3> QED BY <3>1, <3>3 DEF Sound, Now
  <2>4. SessionInView
    <3> SUFFICES ASSUME Full, NEW n \in {"orb", "breakout_retest"}, NEW market \in Markets,
                        Len(latest_session(bars)) <= SessionBars(market)
                 PROVE  generate_signals(n, Newest(bars, session_floor_window(P.window, TRUE, market)))
                            = generate_signals(n, bars)
      BY DEF SessionInView
    <3> DEFINE m == session_floor_window(P.window, TRUE, market)
    <3>1. m \in Nat \ {0} /\ SessionBars(market) \in Int /\ SessionBars(market) <= m
      BY FloorHoldsSession
    <3> HIDE DEF m
    <3>2. Len(latest_session(bars)) \in Nat
      BY <2>1, SessionIsOfDay
    <3>3. Len(latest_session(bars)) <= m
      BY <3>1, <3>2
    <3>4. latest_session(Newest(bars, m)) = latest_session(bars)
      BY <2>1, <3>1, <3>3, SessionIsSeen
    <3>5. generate_signals(n, Newest(bars, m)) = generate_signals(n, bars)
      BY <3>4, WholeSessionIsEnough
    <3> QED BY <3>5 DEF m
  <2> QED BY <2>2, <2>3, <2>4 DEF PresetsSound
<1> QED BY <1>1, BarsInvariant, PTL

-----------------------------------------------------------------------------
(* Within what range an indicator's values lie.                             *)

\* A sum of a stretch is a difference of sums.
LEMMA SliceIsDifference ==
    ASSUME NEW s \in Seq(Int), NEW f, Sums(f, s), NEW a \in Nat, NEW m \in Nat,
           a + m <= Len(s)
    PROVE  /\ f[a] \in Int /\ f[a + m] \in Int
           /\ Total(SubSeq(s, a + 1, a + m)) = f[a + m] - f[a]
<1> DEFINE w == SubSeq(s, a + 1, a + m)
           n == Len(s)
<1>1. n \in Nat /\ a + m <= n
  OBVIOUS
<1>2. \A i \in 0 .. n : f[i] \in Int
  <2>1. \A k \in 1 .. Len(s) : s[k] <= s[k]
    OBVIOUS
  <2>2. \A i \in 0 .. Len(s) : f[i] \in Int /\ f[i] \in Int /\ f[i] <= f[i]
    BY <2>1, SumsAreMonotone
  <2> QED BY <2>2
<1>3. f[0] = 0 /\ \A i \in 1 .. n : f[i] = f[i - 1] + s[i]
  <2>1. 0 \in 0 .. n /\ \A i \in 1 .. n : i \in 0 .. n /\ i # 0
    BY <1>1
  <2> QED BY <2>1 DEF Sums
<1>4. w \in Seq(Int) /\ Len(w) = m /\ \A k \in 1 .. m : w[k] = s[a + k] /\ a + k \in 1 .. n
  <2>1. CASE m = 0
    BY <2>1, <1>1
  <2>2. CASE m # 0
    <3>1. a + 1 \in 1 .. Len(s) /\ a + m \in 1 .. Len(s) /\ (a + m) - (a + 1) + 1 = m
      BY <2>2, <1>1
    <3>2. w \in Seq(Int) /\ Len(w) = m
      BY <3>1
    <3>3. ASSUME NEW k \in 1 .. m PROVE w[k] = s[a + k] /\ a + k \in 1 .. n
      <4>1. w[k] = s[(a + 1) + k - 1]
        BY <3>1
      <4>2. (a + 1) + k - 1 = a + k
        OBVIOUS
      <4>3. a + k \in 1 .. n
        BY <1>1
      <4> QED BY <4>1, <4>2, <4>3
    <3> QED BY <3>2, <3>3
  <2> QED BY <2>1, <2>2
<1> HIDE DEF w, n
<1>5. PICK g : Sums(g, w) /\ Total(w) = g[Len(w)]
  BY <1>4, TotalIsSum
<1>6. g[0] = 0 /\ \A k \in 1 .. m : g[k] = g[k - 1] + w[k]
  <2>1. 0 \in 0 .. m /\ \A i \in 1 .. m : i \in 0 .. m /\ i # 0
    OBVIOUS
  <2> QED BY <2>1, <1>4, <1>5 DEF Sums
<1> DEFINE T == {k \in 0 .. m : g[k] = f[a + k] - f[a]}
<1>7. a \in 0 .. n /\ a + m \in 0 .. n
  BY <1>1
<1>8. 0 \in T
  <2>1. PICK x \in Int : x = f[a]
    BY <1>2, <1>7
  <2>2. a + 0 = a /\ x - x = 0 /\ 0 \in 0 .. m
    OBVIOUS
  <2> QED BY <2>1, <2>2, <1>6
<1>9. ASSUME NEW k \in 1 .. m, k - 1 \in T PROVE k \in T
  <2>1. a + k \in 1 .. n /\ a + k - 1 \in 0 .. n /\ a + (k - 1) = a + k - 1 /\ k \in 0 .. m
    BY <1>1
  <2>2. PICK x \in Int : x = f[a]
    BY <1>2, <1>7
  <2>3. PICK y \in Int : y = f[a + k - 1]
    BY <2>1, <1>2
  <2>4. PICK z \in Int : z = w[k] /\ z = s[a + k]
    <3>1. w[k] \in Int
      BY <1>4
    <3> QED BY <3>1, <1>4
  <2>5. g[k - 1] = y - x
    BY <2>1, <2>2, <2>3, <1>9
  <2>6. f[a + k] = y + z
    <3>1. f[a + k] = f[(a + k) - 1] + s[a + k]
      BY <2>1, <1>3
    <3> QED BY <3>1, <2>3, <2>4
  <2>7. g[k] = (y - x) + z
    <3>1. g[k] = g[k - 1] + w[k]
      BY <1>6
    <3> QED BY <3>1, <2>4, <2>5
  <2>8. (y - x) + z = (y + z) - x
    OBVIOUS
  <2> QED BY <2>1, <2>2, <2>6, <2>7, <2>8
<1> HIDE DEF T
<1>10. 0 .. m \subseteq T
  BY <1>8, <1>9, UpFromZero
<1>11. m \in T
  BY <1>10
<1> QED BY <1>2, <1>4, <1>5, <1>7, <1>11 DEF T, w

\* The carried sum is that of the window.
LEMMA SmaIsMean ==
    ASSUME NEW s \in Seq(Int), NEW p \in Nat \ {0}, NEW i \in Nat, p <= i, i <= Len(s)
    PROVE  sma(s, p)[i] = Total(Trailing(s, i, p)) \div p
<1> DEFINE n == Len(s)
           Out(k) == IF k > p THEN s[k - p] ELSE 0
           Low(k) == IF k > p THEN k - p ELSE 0
           running == CHOOSE f : Accumulates(f, s, p)
<1>1. n \in Nat /\ i <= n /\ \A k \in 1 .. n : s[k] \in Int
  OBVIOUS
<1>2. PICK f : Sums(f, s)
  BY SumsExist
<1>3. \A k \in 0 .. n : f[k] \in Int
  <2>1. \A k \in 1 .. Len(s) : s[k] <= s[k]
    OBVIOUS
  <2>2. \A k \in 0 .. Len(s) : f[k] \in Int /\ f[k] \in Int /\ f[k] <= f[k]
    BY <2>1, <1>2, SumsAreMonotone
  <2> QED BY <2>2
<1>4. f[0] = 0 /\ \A k \in 1 .. n : f[k] = f[k - 1] + s[k]
  <2>1. 0 \in 0 .. n /\ \A k \in 1 .. n : k \in 0 .. n /\ k # 0
    BY <1>1
  <2> QED BY <2>1, <1>2 DEF Sums
<1> DEFINE r == [k \in 0 .. n |-> f[k] - f[Low(k)]]
<1>5. Accumulates(r, s, p)
  <2>1. r[0] = 0
    <3>1. f[0] - f[0] = 0
      <4>1. f[0] = 0
        BY <1>4
      <4> QED BY <4>1
    <3>2. Low(0) = 0 /\ 0 \in 0 .. n
      BY <1>1
    <3> QED BY <3>1, <3>2
  <2>2. ASSUME NEW k \in 1 .. n PROVE r[k] = r[k - 1] + s[k] - Out(k)
    <3>1. k \in 0 .. n /\ k - 1 \in 0 .. n
      BY <1>1
    <3>2. PICK x \in Int, y \in Int : x = f[k - 1] /\ y = s[k]
      BY <3>1, <1>1, <1>3
    <3>3. f[k] = x + y
      BY <3>2, <1>4
    <3>4. CASE k > p
      <4>1. k - p \in 1 .. n /\ k - p - 1 \in 0 .. n /\ Low(k) = k - p /\ Out(k) = s[k - p]
        BY <3>4, <1>1
      <4>2. Low(k - 1) = k - p - 1
        <5>1. CASE k - 1 > p
          BY <5>1
        <5>2. CASE ~(k - 1 > p)
          <6>1. k - p - 1 = 0
            BY <5>2, <3>4
          <6> QED BY <6>1, <5>2
        <5> QED BY <5>1, <5>2
      <4>3. PICK u \in Int, v \in Int : u = f[k - p - 1] /\ v = s[k - p]
        BY <4>1, <1>1, <1>3
      <4>4. f[k - p] = u + v
        BY <4>1, <4>3, <1>4
      <4>5. r[k] = (x + y) - (u + v)
        BY <3>1, <3>3, <4>1, <4>4
      <4>6. r[k - 1] = x - u
        BY <3>1, <3>2, <4>2, <4>3
      <4>7. (x + y) - (u + v) = (x - u) + y - v
        OBVIOUS
      <4> QED BY <4>1, <4>3, <4>5, <4>6, <4>7, <3>2
    <3>5. CASE ~(k > p)
      <4>1. Low(k) = 0 /\ Out(k) = 0 /\ Low(k - 1) = 0
        <5>1. ~(k - 1 > p)
          BY <3>5
        <5> QED BY <5>1, <3>5
      <4>2. r[k] = (x + y) - 0 /\ r[k - 1] = x - 0
        BY <3>1, <3>2, <3>3, <4>1, <1>4
      <4>3. (x + y) - 0 = (x - 0) + y - 0
        OBVIOUS
      <4> QED BY <4>1, <4>2, <4>3, <3>2
    <3> QED BY <3>4, <3>5
  <2>3. r = [k \in 0 .. n |-> r[k]]
    OBVIOUS
  <2>4. \A k \in 0 .. n : k = 0 \/ k \in 1 .. n
    BY <1>1
  <2> HIDE DEF r
  <2>5. \A k \in 0 .. n : r[k] = IF k = 0 THEN 0 ELSE r[k - 1] + s[k] - Out(k)
    BY <2>1, <2>2, <2>4
  <2> QED BY <2>3, <2>5 DEF Accumulates
<1>6. Accumulates(running, s, p)
  <2> HIDE DEF r
  <2> QED BY <1>5
<1>7. sma(s, p) = [k \in 1 .. n |-> IF k >= p THEN running[k] \div p ELSE NaN]
  BY DEF sma, Accumulates, running
<1> HIDE DEF running
<1>8. ASSUME NEW k \in 1 .. n, NEW a \in Int, NEW b \in Int, running[k - 1] = a, s[k] = b
      PROVE  running[k] = a + b - Out(k)
  <2>1. k \in 0 .. n /\ k # 0
    BY <1>1
  <2> QED BY <2>1, <1>6, <1>8 DEF Accumulates
<1> DEFINE T == {k \in 0 .. n : running[k] = r[k]}
<1>9. \A k \in 0 .. n : r[k] \in Int
  <2> SUFFICES ASSUME NEW k \in 0 .. n PROVE r[k] \in Int
    OBVIOUS
  <2>1. Low(k) \in 0 .. n
    <3>1. CASE k > p
      <4>1. k - p \in 0 .. n
        BY <3>1, <1>1
      <4> QED BY <3>1, <4>1
    <3>2. CASE ~(k > p)
      BY <3>2, <1>1
    <3> QED BY <3>1, <3>2
  <2>2. PICK x \in Int, y \in Int : x = f[k] /\ y = f[Low(k)]
    BY <2>1, <1>3
  <2>3. x - y \in Int
    OBVIOUS
  <2> QED BY <2>2, <2>3
<1>10. r[i] = f[i] - f[i - p] /\ i \in 0 .. n
  <2>1. i \in 0 .. n
    BY <1>1
  <2>2. Low(i) = i - p
    <3>1. CASE i > p
      BY <3>1
    <3>2. CASE ~(i > p)
      <4>1. i = p /\ i - p = 0
        BY <3>2
      <4> QED BY <4>1, <3>2
    <3> QED BY <3>1, <3>2
  <2> QED BY <2>1, <2>2
<1> HIDE DEF r
<1>11. 0 \in T
  <2>1. 0 \in 0 .. n
    BY <1>1
  <2>2. running[0] = 0 /\ r[0] = 0
    BY <2>1, <1>5, <1>6 DEF Accumulates
  <2> QED BY <2>1, <2>2
<1>12. ASSUME NEW k \in 1 .. n, k - 1 \in T PROVE k \in T
  <2>1. k \in 0 .. n /\ k # 0 /\ k - 1 \in 0 .. n
    BY <1>1
  <2>2. PICK a \in Int, b \in Int : a = r[k - 1] /\ b = s[k]
    BY <2>1, <1>1, <1>9
  <2>3. running[k - 1] = a
    BY <2>2, <1>12
  <2>4. running[k] = a + b - Out(k)
    BY <2>2, <2>3, <1>8
  <2>5. r[k] = a + b - Out(k)
    BY <2>1, <2>2, <1>5 DEF Accumulates
  <2> QED BY <2>1, <2>4, <2>5
<1> HIDE DEF T
<1>13. 0 .. n \subseteq T
  <2> HIDE DEF n
  <2> QED BY <1>1, <1>11, <1>12, UpFromZero
<1>14. running[i] = f[i] - f[i - p]
  BY <1>10, <1>13 DEF T
<1>15. Total(Trailing(s, i, p)) = f[i] - f[i - p]
  <2>1. PICK a \in Nat : a = i - p
    <3>1. i - p \in Nat
      OBVIOUS
    <3> QED BY <3>1
  <2>2. a + p = i /\ a + 1 = i - p + 1 /\ a + p <= Len(s) /\ p \in Nat
    BY <2>1
  <2>3. Total(SubSeq(s, a + 1, a + p)) = f[a + p] - f[a]
    BY <2>2, <1>2, SliceIsDifference
  <2> QED BY <2>1, <2>2, <2>3 DEF Trailing
<1>16. i \in 1 .. n /\ i >= p
  BY <1>1
<1> QED BY <1>7, <1>14, <1>15, <1>16

\* What is constant adds up to a multiple.
LEMMA TotalOfConstants ==
    ASSUME NEW n \in Nat, NEW x \in Int
    PROVE  Total([k \in 1 .. n |-> x]) = n * x
<1> DEFINE z == [k \in 1 .. n |-> x]
           f == [i \in 0 .. n |-> i * x]
<1>1. z \in Seq(Int) /\ Len(z) = n /\ \A k \in 1 .. n : z[k] = x
  OBVIOUS
<1>2. \A i \in 0 .. n : f[i] = i * x
  OBVIOUS
<1> HIDE DEF z
<1>3. ASSUME NEW i \in 0 .. n PROVE f[i] = IF i = 0 THEN 0 ELSE f[i - 1] + z[i]
  <2>1. CASE i = 0
    <3>1. 0 * x = 0
      OBVIOUS
    <3> QED BY <2>1, <3>1, <1>2
  <2>2. CASE i # 0
    <3>1. PICK j \in Nat : i = j + 1 /\ i - 1 = j /\ j \in 0 .. n /\ i \in 1 .. n
      <4>1. i - 1 \in Nat /\ i = (i - 1) + 1 /\ i - 1 \in 0 .. n /\ i \in 1 .. n
        BY <2>2
      <4> QED BY <4>1
    <3>2. (j + 1) * x = j * x + x
      OBVIOUS
    <3> QED BY <3>1, <3>2, <2>2, <1>1, <1>2
  <2> QED BY <2>1, <2>2
<1>4. f = [i \in 0 .. n |-> f[i]]
  OBVIOUS
<1> HIDE DEF f
<1>5. Sums(f, z)
  BY <1>1, <1>3, <1>4 DEF Sums
<1>6. Total(SubSeq(z, 0 + 1, 0 + n)) = f[0 + n] - f[0]
  <2>1. 0 \in Nat /\ 0 + n <= Len(z)
    BY <1>1
  <2> QED BY <2>1, <1>1, <1>5, SliceIsDifference
<1>7. f[0] = 0 /\ f[n] = n * x
  <2>1. 0 \in 0 .. n /\ n \in 0 .. n
    OBVIOUS
  <2> QED BY <2>1, <1>2, <1>3
<1>8. SubSeq(z, 0 + 1, 0 + n) = z
  <2>1. SubSeq(z, 1, Len(z)) = z
    BY <1>1
  <2> QED BY <2>1, <1>1
<1>9. 0 + n = n /\ n * x \in Int /\ (n * x) - 0 = n * x
  OBVIOUS
<1> QED BY <1>6, <1>7, <1>8, <1>9 DEF z

\* A mean lies between the least and the greatest of what it is of.
LEMMA MeanWithin ==
    ASSUME NEW w \in Seq(Nat), w # <<>>
    PROVE  /\ Total(w) \div Len(w) \in Int
           /\ Smallest(w) <= Total(w) \div Len(w) /\ Total(w) \div Len(w) <= Largest(w)
<1>1. PICK n \in Nat \ {0} : n = Len(w)
  OBVIOUS
<1>2. PICK lo \in Nat, hi \in Nat : lo = Smallest(w) /\ hi = Largest(w)
  BY SmallestAndLargest
<1>3. \A i \in 1 .. n : w[i] \in Nat /\ lo <= w[i] /\ w[i] <= hi
  BY <1>1, <1>2, SmallestAndLargest
<1> DEFINE a == [k \in 1 .. n |-> lo]
           z == [k \in 1 .. n |-> hi]
<1>4. Total(a) = n * lo /\ Total(z) = n * hi
  <2>1. n \in Nat /\ lo \in Int /\ hi \in Int
    OBVIOUS
  <2>2. Total(a) = n * lo
    BY <2>1, TotalOfConstants
  <2>3. Total(z) = n * hi
    BY <2>1, TotalOfConstants
  <2> QED BY <2>2, <2>3
<1>5. /\ a \in Seq(Int) /\ z \in Seq(Int) /\ Len(a) = n /\ Len(z) = n /\ w \in Seq(Int)
      /\ \A k \in 1 .. n : a[k] = lo /\ z[k] = hi
  BY <1>1
<1> HIDE DEF a, z
<1>6. \A k \in 1 .. n : a[k] <= w[k] /\ w[k] <= z[k]
  BY <1>3, <1>5
<1>7. Total(w) \in Int /\ Total(a) <= Total(w) /\ Total(w) <= Total(z)
  <2>1. Total(w) \in Int /\ Total(a) <= Total(w)
    BY <1>1, <1>5, <1>6, TotalIsMonotone
  <2>2. Total(w) <= Total(z)
    BY <1>1, <1>5, <1>6, TotalIsMonotone
  <2> QED BY <2>1, <2>2
<1>8. PICK v \in Int : v = Total(w) /\ n * lo <= v /\ v <= n * hi
  BY <1>4, <1>7
<1>9. lo \in Int /\ hi \in Int
  OBVIOUS
<1>10. v \div n \in Int /\ lo <= v \div n /\ v \div n <= hi
  BY <1>8, <1>9, QuotientBetween
<1> QED BY <1>1, <1>2, <1>8, <1>10

\* The exponential average, step by step.
Averages(e, s, p) ==
    \A i \in 1 .. Len(s) :
        e[i] = IF i < p THEN NaN ELSE IF i = p THEN Total(SubSeq(s, 1, p)) \div p
               ELSE (2 * s[i] + (p - 1) * e[i - 1]) \div (p + 1)

\* A price average never leaves the prices it averages.
LEMMA EmaWithin ==
    ASSUME NEW s \in Seq(Nat), s # <<>>, NEW p \in Nat \ {0}
    PROVE  /\ DOMAIN ema(s, p) = 1 .. Len(s) /\ Len(ema(s, p)) = Len(s)
           /\ Averages(ema(s, p), s, p)
           /\ \A i \in 1 .. Len(s) :
                 /\ i < p => ema(s, p)[i] = NaN
                 /\ i >= p => /\ ema(s, p)[i] \in Int
                              /\ Smallest(s) <= ema(s, p)[i] /\ ema(s, p)[i] <= Largest(s)
<1> DEFINE n == Len(s)
           lo == Smallest(s)
           hi == Largest(s)
           X == {x \in Int : lo <= x /\ x <= hi}
           Mix(i, x) == (2 * s[i] + (p - 1) * x) \div (p + 1)
           seed == Total(SubSeq(s, 1, p)) \div p
           Is(e) == e = [i \in 1 .. n |-> IF i < p THEN NaN ELSE IF i = p THEN seed
                                           ELSE Mix(i, e[i - 1])]
           W == CHOOSE e : Is(e)
<1>1. n \in Nat /\ n >= 1 /\ s \in Seq(Nat) /\ \A i \in 1 .. n : s[i] \in Nat
  OBVIOUS
<1>2. lo \in Nat /\ hi \in Nat /\ \A i \in 1 .. n : lo <= s[i] /\ s[i] <= hi
  BY SmallestAndLargest
<1>3. ASSUME p <= n PROVE seed \in X
  <2> DEFINE w == SubSeq(s, 1, p)
  <2>1. 1 \in 1 .. n /\ p \in 1 .. n /\ p - 1 + 1 = p
    BY <1>1, <1>3
  <2>2. w \in Seq(Nat) /\ Len(w) = p /\ \A k \in 1 .. p : w[k] = s[k]
    BY <2>1
  <2> HIDE DEF w, lo, hi
  <2>3. w # <<>>
    BY <2>2
  <2>4. PICK m \in Int : m = Total(w) \div p /\ Smallest(w) <= m /\ m <= Largest(w)
    BY <2>2, <2>3, MeanWithin
  <2>5. lo <= Smallest(w) /\ Largest(w) <= hi /\ Smallest(w) \in Nat /\ Largest(w) \in Nat
    <3>1. Smallest(w) \in ToSet(w) /\ Largest(w) \in ToSet(w) /\ Smallest(w) \in Nat /\ Largest(w) \in Nat
      BY <2>2, <2>3, ExtremesAreMembers
    <3>2. \A x \in ToSet(w) : lo <= x /\ x <= hi
      <4>1. ToSet(w) = {w[k] : k \in 1 .. p}
        BY <2>2 DEF ToSet
      <4>2. \A k \in 1 .. p : k \in 1 .. n
        BY <2>1
      <4>3. \A k \in 1 .. p : lo <= w[k] /\ w[k] <= hi
        BY <4>2, <2>2, <1>2
      <4> QED BY <4>1, <4>3
    <3> QED BY <3>1, <3>2
  <2>6. PICK a \in Int, b \in Int, c \in Int, d \in Int :
           a = lo /\ b = hi /\ c = Smallest(w) /\ d = Largest(w) /\ a <= c /\ c <= m /\ m <= d /\ d <= b
    BY <2>4, <2>5, <1>2
  <2>7. a <= m /\ m <= b
    BY <2>6
  <2>8. seed = m
    BY <2>4 DEF w
  <2> QED BY <2>6, <2>7, <2>8
<1>4. ASSUME NEW i \in 1 .. n, NEW x \in X PROVE Mix(i, x) \in X
  <2>1. PICK y \in Int : y = s[i] /\ lo <= y /\ y <= hi
    <3>1. s[i] \in Nat /\ lo <= s[i] /\ s[i] <= hi
      BY <1>1, <1>2
    <3> HIDE DEF lo, hi
    <3>2. s[i] \in Int
      BY <3>1
    <3> QED BY <3>1, <3>2
  <2>2. PICK b \in Nat : b = p - 1
    OBVIOUS
  <2>3. 2 + b = p + 1 /\ 2 + b # 0 /\ 2 \in Nat
    BY <2>2
  <2>4. x \in Int /\ lo <= x /\ x <= hi /\ lo \in Int /\ hi \in Int
    BY <1>2
  <2> HIDE DEF lo, hi
  <2>5. (2 * y + b * x) \div (2 + b) \in Int
        /\ lo <= (2 * y + b * x) \div (2 + b) /\ (2 * y + b * x) \div (2 + b) <= hi
    BY <2>1, <2>3, <2>4, MeanBetween
  <2> QED BY <2>1, <2>2, <2>3, <2>5
<1>5. \E e : Is(e)
  <2>1. CASE p <= n
    <3> DEFINE M == [i \in 1 .. n |-> [x \in X |-> Mix(i, x)]]
    <3>1. M \in [1 .. n -> [X -> X]]
      BY <1>4
    <3>2. \A i \in 1 .. n : \A x \in X : M[i][x] = Mix(i, x)
      OBVIOUS
    <3> HIDE DEF M, X, Mix, seed
    <3>3. PICK g : FromFirst(g, n, X, p, seed, M)
      <4> HIDE DEF n
      <4> QED BY <1>1, <1>3, <2>1, <3>1, FromFirstExists
    <3>4. /\ g \in [1 .. n -> X \cup {NaN}] /\ \A i \in p .. n : g[i] \in X
          /\ \A i \in 1 .. n : g[i] = IF i < p THEN NaN ELSE IF i = p THEN seed ELSE M[i][g[i - 1]]
      BY <3>3 DEF FromFirst
    <3>5. ASSUME NEW i \in 1 .. n
          PROVE  g[i] = IF i < p THEN NaN ELSE IF i = p THEN seed ELSE Mix(i, g[i - 1])
      <4>1. CASE i > p
        <5>1. i - 1 \in p .. n
          BY <4>1, <1>1
        <5>2. g[i - 1] \in X
          BY <5>1, <3>4
        <5>3. M[i][g[i - 1]] = Mix(i, g[i - 1])
          BY <5>2, <3>2
        <5> QED BY <5>3, <3>4
      <4>2. CASE ~(i > p)
        <5>1. i < p \/ i = p
          BY <4>2, <1>1
        <5> QED BY <5>1, <3>4
      <4> QED BY <4>1, <4>2
    <3>6. g = [i \in 1 .. n |-> g[i]]
      BY <3>4
    <3> QED BY <3>5, <3>6
  <2>2. CASE ~(p <= n)
    <3> DEFINE g == [i \in 1 .. n |-> NaN]
    <3>1. \A i \in 1 .. n : i < p /\ g[i] = NaN
      BY <2>2, <1>1
    <3>2. g = [i \in 1 .. n |-> g[i]]
      OBVIOUS
    <3> HIDE DEF g
    <3> QED BY <3>1, <3>2
  <2> QED BY <2>1, <2>2
<1>6. Is(W)
  <2> HIDE DEF Is
  <2> QED BY <1>5
<1>7. ema(s, p) = W
  BY DEF ema
<1> HIDE DEF W, Mix, seed
<1>8. /\ DOMAIN W = 1 .. n
      /\ \A i \in 1 .. n : W[i] = IF i < p THEN NaN ELSE IF i = p THEN seed ELSE Mix(i, W[i - 1])
  BY <1>6
<1> HIDE DEF Is
<1> DEFINE T == {i \in 0 .. n : i >= p => W[i] \in X}
<1>9. 0 \in T
  BY <1>1
<1>10. ASSUME NEW i \in 1 .. n, i - 1 \in T PROVE i \in T
  <2>1. i \in 0 .. n
    BY <1>1
  <2> HIDE DEF X
  <2>2. CASE i > p
    <3>1. W[i - 1] \in X
      BY <2>2, <1>10
    <3>2. W[i] = Mix(i, W[i - 1])
      BY <2>2, <1>8
    <3> QED BY <2>1, <3>1, <3>2, <1>4
  <2>3. CASE i = p
    <3>1. p <= n /\ W[i] = seed
      BY <2>3, <1>1, <1>8
    <3> QED BY <2>1, <3>1, <1>3
  <2>4. CASE i < p
    BY <2>1, <2>4, <1>1
  <2> QED BY <2>2, <2>3, <2>4
<1> HIDE DEF T
<1>11. 0 .. n \subseteq T
  <2> HIDE DEF n
  <2> QED BY <1>1, <1>9, <1>10, UpFromZero
<1>12. ASSUME NEW i \in 1 .. n, i >= p PROVE W[i] \in X
  <2>1. i \in 0 .. n
    BY <1>1
  <2> QED BY <2>1, <1>11, <1>12 DEF T
<1>13. Len(W) = n
  BY <1>1, <1>8
<1>14. Averages(W, s, p)
  BY <1>8 DEF Averages, Mix, seed
<1> QED BY <1>7, <1>8, <1>12, <1>13, <1>14

\* A share of a whole, in parts of one.
LEMMA ShareWithin ==
    ASSUME NEW k \in Nat, NEW x \in Nat, NEW y \in Nat, y # 0, x <= y
    PROVE  (k * x) \div y \in 0 .. k
<1>1. PICK d \in Nat : y = x + d
  <2>1. y - x \in Nat /\ y = x + (y - x)
    OBVIOUS
  <2> QED BY <2>1
<1>2. PICK v \in Int, w \in Int : v = k * x /\ w = y * k /\ 0 <= v /\ v <= w
  <2>1. y * k = k * x + k * d /\ k * x \in Nat /\ k * d \in Nat
    BY <1>1
  <2>2. PICK a \in Nat, b \in Nat : a = k * x /\ b = k * d
    BY <2>1
  <2>3. y * k = a + b /\ 0 <= a /\ a <= a + b /\ a \in Int /\ a + b \in Int
    BY <2>1, <2>2
  <2> QED BY <2>2, <2>3
<1>3. y * 0 <= v /\ 0 \in Int /\ k \in Int /\ y \in Nat \ {0} /\ v <= y * k
  BY <1>2
<1>4. v \div y \in Int /\ 0 <= v \div y /\ v \div y <= k
  BY <1>3, QuotientBetween
<1>5. v \div y \in 0 .. k
  BY <1>4
<1> QED BY <1>2, <1>5

Share(x) == x \in Int /\ 0 <= x /\ x <= 10000

LEMMA ShareBetween ==
    ASSUME NEW hi, hi = 10000
    PROVE  \A x : Share(x) <=> x \in Int /\ 0 <= x /\ x <= hi
BY DEF Share

\* Sides of a change.
LEMMA RiseAndFallAreNat ==
    ASSUME NEW d \in Int
    PROVE  Rise(d) \in Nat /\ Fall(d) \in Nat
BY DEF Rise, Fall

LEMMA ChangesRead ==
    ASSUME NEW c \in Seq(Int)
    PROVE  /\ Change(c, Rise) \in Seq(Value) /\ Len(Change(c, Rise)) = Len(c)
           /\ Change(c, Fall) \in Seq(Value) /\ Len(Change(c, Fall)) = Len(c)
           /\ \A i \in 2 .. Len(c) : Change(c, Rise)[i] \in Nat /\ Change(c, Fall)[i] \in Nat
<1>1. Len(c) \in Nat /\ \A i \in 1 .. Len(c) : c[i] \in Int
  OBVIOUS
<1>2. \A i \in 1 .. Len(c) : i = 1 \/ (i # 1 /\ i - 1 \in 1 .. Len(c))
  BY <1>1
<1>3. \A i \in 1 .. Len(c) : i # 1 => Rise(c[i] - c[i - 1]) \in Nat /\ Fall(c[i] - c[i - 1]) \in Nat
  <2>1. \A i \in 1 .. Len(c) : i # 1 => c[i] - c[i - 1] \in Int
    BY <1>1, <1>2
  <2> QED BY <2>1, RiseAndFallAreNat
<1>4. /\ Change(c, Rise) = [i \in 1 .. Len(c) |-> IF i = 1 THEN NaN ELSE Rise(c[i] - c[i - 1])]
      /\ Change(c, Fall) = [i \in 1 .. Len(c) |-> IF i = 1 THEN NaN ELSE Fall(c[i] - c[i - 1])]
  BY DEF Change
<1>5. \A i \in 2 .. Len(c) : i \in 1 .. Len(c) /\ i # 1
  BY <1>1
<1>6. \A i \in 2 .. Len(c) : Change(c, Rise)[i] \in Nat /\ Change(c, Fall)[i] \in Nat
  BY <1>3, <1>4, <1>5
<1>7. \A i \in 1 .. Len(c) : /\ (IF i = 1 THEN NaN ELSE Rise(c[i] - c[i - 1])) \in Value
                             /\ (IF i = 1 THEN NaN ELSE Fall(c[i] - c[i - 1])) \in Value
  BY <1>3 DEF Value
<1>8. Change(c, Rise) \in [1 .. Len(c) -> Value] /\ Change(c, Fall) \in [1 .. Len(c) -> Value]
  BY <1>4, <1>7
<1> DEFINE u == Change(c, Rise)
           d == Change(c, Fall)
<1> HIDE DEF u, d
<1>9. u \in [1 .. Len(c) -> Value] /\ d \in [1 .. Len(c) -> Value]
  BY <1>8 DEF u, d
<1>10. u \in Seq(Value) /\ Len(u) = Len(c) /\ d \in Seq(Value) /\ Len(d) = Len(c)
  BY <1>1, <1>9, FunctionIsSequence, Zenon
<1> QED BY <1>6, <1>10 DEF u, d

\* From a first value at place two on, the smoothed changes are no less than zero.
LEMMA SmoothedFromSecond ==
    ASSUME NEW s \in Seq(Value), NEW p \in Nat \ {0}, 2 <= Len(s),
           \A i \in 2 .. Len(s) : s[i] \in Nat
    PROVE  \A i \in 2 .. Len(s) : rma_from_first_valid(s, p, 2)[i] \in Nat
<1>1. Len(s) \in Nat /\ ~(2 > Len(s)) /\ 2 \in 1 .. Len(s) /\ 2 \in 2 .. Len(s)
  OBVIOUS
<1>2. PICK seed \in Nat : seed = s[2]
  BY <1>1
<1>3. \A i \in 2 + 1 .. Len(s) : s[i] \in Nat
  <2>1. \A i \in 2 + 1 .. Len(s) : i \in 2 .. Len(s)
    BY <1>1
  <2> QED BY <2>1
<1>4. \A i \in 2 .. Len(s) : Smooth(s, p, 2, seed)[i] \in Nat
  BY <1>1, <1>3, SmoothFrom
<1> QED BY <1>1, <1>2, <1>4 DEF rma_from_first_valid

\* The strength index is a share.
LEMMA RsiWithin ==
    ASSUME NEW c \in Seq(Int), NEW p \in Nat \ {0}
    PROVE  /\ Len(rsi(c, p)) = Len(c)
           /\ \A i \in 1 .. Len(c) : Known(rsi(c, p)[i]) => Share(rsi(c, p)[i])
<1> DEFINE n == Len(c)
           gain == rma_from_first_valid(Change(c, Rise), p, 2)
           loss == rma_from_first_valid(Change(c, Fall), p, 2)
<1>1. n \in Nat
  OBVIOUS
<1>2. rsi(c, p) = [i \in 1 .. n |->
          IF n <= p \/ i = 1 \/ gain[i] + loss[i] = 0 THEN NaN
          ELSE (10000 * gain[i]) \div (gain[i] + loss[i])]
  BY DEF rsi
<1>3. ASSUME ~(n <= p) PROVE \A i \in 2 .. n : gain[i] \in Nat /\ loss[i] \in Nat
  <2>1. 2 <= n
    BY <1>1, <1>3
  <2>2. \A i \in 2 .. n : gain[i] \in Nat
    <3> DEFINE s == Change(c, Rise)
    <3>1. s \in Seq(Value) /\ Len(s) = n /\ \A i \in 2 .. n : s[i] \in Nat
      BY ChangesRead
    <3> HIDE DEF s
    <3>2. 2 <= Len(s) /\ \A i \in 2 .. Len(s) : s[i] \in Nat
      BY <2>1, <3>1
    <3>3. \A i \in 2 .. Len(s) : rma_from_first_valid(s, p, 2)[i] \in Nat
      BY <3>1, <3>2, SmoothedFromSecond
    <3> QED BY <3>1, <3>3 DEF s
  <2>3. \A i \in 2 .. n : loss[i] \in Nat
    <3> DEFINE s == Change(c, Fall)
    <3>1. s \in Seq(Value) /\ Len(s) = n /\ \A i \in 2 .. n : s[i] \in Nat
      BY ChangesRead
    <3> HIDE DEF s
    <3>2. 2 <= Len(s) /\ \A i \in 2 .. Len(s) : s[i] \in Nat
      BY <2>1, <3>1
    <3>3. \A i \in 2 .. Len(s) : rma_from_first_valid(s, p, 2)[i] \in Nat
      BY <3>1, <3>2, SmoothedFromSecond
    <3> QED BY <3>1, <3>3 DEF s
  <2> QED BY <2>2, <2>3
<1> HIDE DEF gain, loss
<1>4. ASSUME NEW i \in 1 .. n, Known(rsi(c, p)[i]) PROVE Share(rsi(c, p)[i])
  <2>1. ~(n <= p \/ i = 1 \/ gain[i] + loss[i] = 0)
    BY <1>2, <1>4 DEF Known
  <2>2. i \in 2 .. n
    BY <1>1, <2>1
  <2>3. PICK x \in Nat, y \in Nat : x = gain[i] /\ y = loss[i]
    BY <1>3, <2>1, <2>2
  <2>4. PICK k \in Nat : k = 10000 /\ rsi(c, p)[i] = (k * x) \div (x + y)
    <3>1. rsi(c, p)[i] = (10000 * x) \div (x + y)
      BY <1>2, <2>1, <2>3
    <3> QED BY <3>1
  <2>5. PICK z \in Nat : z = x + y /\ z # 0 /\ x <= z
    <3>1. x + y \in Nat /\ x <= x + y
      <4>1. x \in Nat /\ y \in Nat
        BY <2>3
      <4> QED BY <4>1, SMT
    <3>2. x + y # 0
      BY <2>1, <2>3, Zenon
    <3> QED BY <3>1, <3>2
  <2>6. (k * x) \div z \in 0 .. k
    <3>1. x \in Nat /\ z \in Nat /\ z # 0 /\ x <= z
      BY <2>3, <2>5
    <3> QED BY <3>1, ShareWithin, Zenon
  <2>7. rsi(c, p)[i] = (k * x) \div z
    BY <2>4, <2>5
  <2>8. Share((k * x) \div z)
    <3>1. PICK q \in 0 .. k : q = (k * x) \div z
      BY <2>6
    <3>2. Share(q)
      BY <2>4 DEF Share
    <3> QED BY <3>1, <3>2, Zenon
  <2> QED BY <2>7, <2>8, Zenon
<1>5. Len(rsi(c, p)) = n
  <2>1. DOMAIN rsi(c, p) = 1 .. n
    BY <1>2
  <2> QED BY <2>1, <1>1
<1> QED BY <1>4, <1>5, Zenon

\* The movements of one side.
LEMMA MovementsRead ==
    ASSUME NEW b \in Seq(BarRow), NEW up \in BOOLEAN
    PROVE  /\ DM(b, up) \in Seq(Value) /\ Len(DM(b, up)) = Len(b)
           /\ \A i \in 2 .. Len(b) : DM(b, up)[i] \in Nat
<1> DEFINE n == Len(b)
           Moved(i) == LET u == b[i].h - b[i - 1].h
                           d == b[i - 1].l - b[i].l
                       IN IF up THEN IF u > d /\ u > 0 THEN u ELSE 0
                          ELSE IF d > u /\ d > 0 THEN d ELSE 0
           f == [i \in 1 .. n |-> IF i = 1 THEN NaN ELSE Moved(i)]
<1>1. n \in Nat /\ \A i \in 1 .. n : b[i].h \in Nat /\ b[i].l \in Nat
  <2>1. \A i \in 1 .. n : b[i] \in BarRow
    OBVIOUS
  <2> QED BY <2>1 DEF BarRow
<1>2. ASSUME NEW i \in 1 .. n, i # 1 PROVE Moved(i) \in Nat
  <2>1. i - 1 \in 1 .. n
    BY <1>1, <1>2
  <2>2. PICK u \in Int, d \in Int : u = b[i].h - b[i - 1].h /\ d = b[i - 1].l - b[i].l
    <3>1. PICK w \in Nat, x \in Nat, y \in Nat, z \in Nat :
             w = b[i].h /\ x = b[i - 1].h /\ y = b[i - 1].l /\ z = b[i].l
      BY <2>1, <1>1
    <3>2. w - x \in Int /\ y - z \in Int
      OBVIOUS
    <3> QED BY <3>1, <3>2
  <2>3. Moved(i) = IF up THEN IF u > d /\ u > 0 THEN u ELSE 0
                   ELSE IF d > u /\ d > 0 THEN d ELSE 0
    BY <2>2
  <2>4. (IF u > d /\ u > 0 THEN u ELSE 0) \in Nat /\ (IF d > u /\ d > 0 THEN d ELSE 0) \in Nat
    BY <2>2
  <2> QED BY <2>3, <2>4
<1>3. DM(b, up) = f
  BY DEF DM
<1> HIDE DEF Moved
<1>4. f \in [1 .. n -> Value]
  BY <1>2 DEF Value
<1>5. \A i \in 2 .. n : f[i] \in Nat
  <2>1. \A i \in 2 .. n : i \in 1 .. n /\ i # 1
    BY <1>1
  <2> QED BY <2>1, <1>2
<1> HIDE DEF f
<1>6. f \in Seq(Value) /\ Len(f) = n
  BY <1>1, <1>4, FunctionIsSequence, Zenon
<1> QED BY <1>3, <1>5, <1>6

\* The smoothed range leaves the first bar out: with a period of one it has no
\* values, with a longer one it is a number from the period on.
LEMMA SmoothedRange ==
    ASSUME NEW b \in Seq(BarRow), NEW p \in Nat \ {0}, p <= Len(b)
    PROVE  LET tr == wilder_smooth_presma([true_range(b) EXCEPT ![1] = NaN], p)
           IN \A i \in p .. Len(b) : IF p = 1 THEN ~Known(tr[i]) ELSE tr[i] \in Nat
<1> DEFINE n == Len(b)
           r == true_range(b)
           s == [r EXCEPT ![1] = NaN]
           S == {i \in 1 .. Len(s) : i <= p /\ Known(s[i])}
           window == MembersAt(s, S)
           tr == wilder_smooth_presma(s, p)
<1>1. n \in Nat /\ p <= n /\ 1 \in 1 .. n /\ p \in 1 .. n
  OBVIOUS
<1>2. r \in Seq(Nat) /\ Len(r) = n
  BY TrueRangeIsNat
<1> HIDE DEF r
<1>3. r \in [1 .. n -> Nat]
  BY <1>2
<1>4. s \in [1 .. n -> Value] /\ s[1] = NaN /\ \A i \in 2 .. n : s[i] \in Nat /\ i \in 1 .. n
  <2>1. \A i \in 1 .. n : s[i] = IF i = 1 THEN NaN ELSE r[i]
    BY <1>1, <1>3
  <2>2. DOMAIN s = 1 .. n
    BY <1>3
  <2>3. \A i \in 2 .. n : i \in 1 .. n /\ i # 1
    BY <1>1
  <2>4. \A i \in 1 .. n : r[i] \in Nat
    BY <1>3
  <2>5. \A i \in 1 .. n : s[i] \in Value
    BY <2>1, <2>4 DEF Value
  <2>6. s = [i \in 1 .. n |-> s[i]]
    BY <1>3
  <2> HIDE DEF s
  <2>7. s \in [1 .. n -> Value]
    BY <2>5, <2>6
  <2>8. s[1] = NaN /\ \A i \in 2 .. n : s[i] \in Nat /\ i \in 1 .. n
    BY <1>1, <2>1, <2>3, <2>4
  <2> QED BY <2>7, <2>8
<1> HIDE DEF s
<1>5. s \in Seq(Value) /\ Len(s) = n
  BY <1>1, <1>4, FunctionIsSequence, Zenon
<1>6. ~Known(s[1]) /\ \A i \in 2 .. n : Known(s[i])
  BY <1>4, IndicatorsAssumption DEF Known
<1>7. S \in SUBSET (1 .. Len(s)) /\ \A i \in S : i \in 2 .. n /\ i <= p
  <2>1. \A i \in 1 .. n : i = 1 \/ i \in 2 .. n
    BY <1>1
  <2> QED BY <2>1, <1>5, <1>6
<1>8. p # 1 => 2 \in S
  <2>1. p # 1 => 2 \in 2 .. n /\ 2 \in 1 .. n /\ 2 <= p
    BY <1>1
  <2> QED BY <2>1, <1>5, <1>6
<1> HIDE DEF S
<1>9. /\ window \in Seq(Value) /\ Len(window) = Cardinality(S) /\ Cardinality(S) \in Nat
      /\ \A q \in 1 .. Cardinality(S) : InOrder(S)[q] \in S /\ window[q] = s[InOrder(S)[q]]
  BY <1>5, <1>7, MembersAreOf
<1> HIDE DEF window
<1>10. IsFiniteSet(S)
  <2>1. IsFiniteSet(1 .. Len(s))
    BY <1>1, <1>5, FS_Interval
  <2> QED BY <2>1, <1>7, FS_Subset
<1>11. CASE p = 1
  <2>1. S = {}
    <3>1. \A i \in 2 .. n : ~(i <= 1)
      BY <1>1
    <3> QED BY <3>1, <1>7, <1>11
  <2>2. window = <<>>
    BY <2>1, <1>9, FS_EmptySet
  <2>3. tr = [i \in 1 .. n |-> NaN]
    BY <2>2, <1>5 DEF wilder_smooth_presma, S, window
  <2>4. \A i \in p .. n : i \in 1 .. n
    BY <1>1
  <2>5. \A i \in p .. n : ~Known(tr[i])
    <3> HIDE DEF tr
    <3> QED BY <2>3, <2>4 DEF Known
  <2> QED BY <2>5, <1>11 DEF s, r
<1>12. CASE p # 1
  <2>1. Cardinality(S) # 0
    BY <1>8, <1>10, <1>12, FS_EmptySet
  <2>2. window \in Seq(Nat)
    <3>1. \A q \in 1 .. Cardinality(S) : window[q] \in Nat
      BY <1>4, <1>7, <1>9
    <3>2. window \in [1 .. Cardinality(S) -> Value]
      BY <1>9
    <3>3. window \in [1 .. Cardinality(S) -> Nat]
      BY <3>1, <3>2
    <3> QED BY <3>3, <1>9, FunctionIsSequence, Zenon
  <2>3. window # <<>> /\ Len(window) \in Nat \ {0}
    BY <2>1, <1>9
  <2>4. Total(window) \in Nat
    BY <2>2, TotalIsNat
  <2>5. PICK seed \in Nat : seed = Total(window) \div Len(window)
    <3>1. PICK x \in Nat, y \in Nat \ {0} : x = Total(window) /\ y = Len(window)
      BY <2>3, <2>4
    <3>2. x \div y \in Nat
      OBVIOUS
    <3> QED BY <3>1, <3>2
  <2>6. tr = Smooth(s, p, p, seed)
    BY <2>3, <2>5 DEF wilder_smooth_presma, S, window
  <2>7. \A i \in p + 1 .. Len(s) : s[i] \in Nat
    <3>1. \A i \in p + 1 .. Len(s) : i \in 2 .. n
      BY <1>1, <1>5
    <3> QED BY <3>1, <1>4
  <2>8. p \in 1 .. Len(s)
    BY <1>1, <1>5
  <2>9. \A i \in p .. Len(s) : Smooth(s, p, p, seed)[i] \in Nat
    BY <1>5, <2>7, <2>8, SmoothFrom
  <2>10. \A i \in p .. n : tr[i] \in Nat
    <3> HIDE DEF tr
    <3> QED BY <2>6, <2>9, <1>5
  <2> QED BY <2>10, <1>12 DEF s, r
<1> QED BY <1>11, <1>12

\* The directional index is a share.
LEMMA DXWithin ==
    ASSUME NEW b \in Seq(BarRow), NEW p \in Nat \ {0}, p <= Len(b)
    PROVE  /\ DX(b, p) \in Seq(Value) /\ Len(DX(b, p)) = Len(b)
           /\ \A i \in 1 .. Len(b) : Known(DX(b, p)[i]) => Share(DX(b, p)[i])
<1> DEFINE n == Len(b)
           tr == wilder_smooth_presma([true_range(b) EXCEPT ![1] = NaN], p)
           plus == rma_from_first_valid(DM(b, TRUE), p, 2)
           minus == rma_from_first_valid(DM(b, FALSE), p, 2)
           Pdi(i) == (100 * plus[i]) \div tr[i]
           Mdi(i) == (100 * minus[i]) \div tr[i]
           Index(i) == IF Pdi(i) + Mdi(i) = 0 THEN 0
                       ELSE (10000 * AbsDiff(Pdi(i), Mdi(i))) \div (Pdi(i) + Mdi(i))
           None(i) == i < p \/ ~Known(tr[i]) \/ tr[i] = 0
           f == [i \in 1 .. n |-> IF None(i) THEN NaN ELSE Index(i)]
<1>1. n \in Nat /\ p <= n
  OBVIOUS
<1>2. DX(b, p) = f
  BY DEF DX
<1>3. \A i \in p .. n : IF p = 1 THEN ~Known(tr[i]) ELSE tr[i] \in Nat
  BY SmoothedRange
<1>4. ASSUME p # 1 PROVE \A i \in 2 .. n : plus[i] \in Nat /\ minus[i] \in Nat
  <2>1. 2 <= n
    BY <1>1, <1>4
  <2>2. \A i \in 2 .. n : plus[i] \in Nat
    <3> DEFINE s == DM(b, TRUE)
    <3>1. s \in Seq(Value) /\ Len(s) = n /\ \A i \in 2 .. n : s[i] \in Nat
      BY MovementsRead
    <3> HIDE DEF s
    <3>2. 2 <= Len(s) /\ \A i \in 2 .. Len(s) : s[i] \in Nat
      BY <2>1, <3>1
    <3>3. \A i \in 2 .. Len(s) : rma_from_first_valid(s, p, 2)[i] \in Nat
      BY <3>1, <3>2, SmoothedFromSecond
    <3> QED BY <3>1, <3>3 DEF s
  <2>3. \A i \in 2 .. n : minus[i] \in Nat
    <3> DEFINE s == DM(b, FALSE)
    <3>1. s \in Seq(Value) /\ Len(s) = n /\ \A i \in 2 .. n : s[i] \in Nat
      BY MovementsRead
    <3> HIDE DEF s
    <3>2. 2 <= Len(s) /\ \A i \in 2 .. Len(s) : s[i] \in Nat
      BY <2>1, <3>1
    <3>3. \A i \in 2 .. Len(s) : rma_from_first_valid(s, p, 2)[i] \in Nat
      BY <3>1, <3>2, SmoothedFromSecond
    <3> QED BY <3>1, <3>3 DEF s
  <2> QED BY <2>2, <2>3
<1> HIDE DEF tr, plus, minus
<1>5. ASSUME NEW i \in 1 .. n, ~None(i) PROVE Share(Index(i))
  <2>1. i \in p .. n /\ Known(tr[i]) /\ tr[i] # 0
    BY <1>1, <1>5
  <2>2. p # 1
    BY <2>1, <1>3
  <2>3. PICK t \in Nat \ {0} : t = tr[i]
    <3>1. tr[i] \in Nat
      BY <2>1, <2>2, <1>3
    <3> QED BY <3>1, <2>1
  <2>4. i \in 2 .. n
    BY <2>1, <2>2, <1>1
  <2>5. PICK x \in Nat, y \in Nat : x = plus[i] /\ y = minus[i]
    BY <2>2, <2>4, <1>4
  <2>6. PICK u \in Nat, d \in Nat : u = (100 * x) \div t /\ d = (100 * y) \div t
    <3>1. 100 * x \in Nat /\ 100 * y \in Nat
      BY <2>5
    <3>2. (100 * x) \div t \in Nat /\ (100 * y) \div t \in Nat
      BY <3>1, QuotientIsNat
    <3> QED BY <3>2
  <2>7. Pdi(i) = u /\ Mdi(i) = d
    BY <2>3, <2>5, <2>6
  <2>8. Index(i) = IF u + d = 0 THEN 0 ELSE (10000 * AbsDiff(u, d)) \div (u + d)
    BY <2>7
  <2> HIDE DEF Index
  <2>9. CASE u + d = 0
    <3>1. Share(0)
      BY DEF Share
    <3>2. Index(i) = 0
      BY <2>8, <2>9
    <3> QED BY <3>1, <3>2, Zenon
  <2>10. CASE u + d # 0
    <3>1. PICK z \in Nat, a \in Nat : z = u + d /\ a = AbsDiff(u, d) /\ z # 0 /\ a <= z
      <4>1. u + d \in Nat /\ AbsDiff(u, d) \in Nat /\ AbsDiff(u, d) <= u + d
        BY <2>6 DEF AbsDiff
      <4> QED BY <4>1, <2>10
    <3>2. PICK k \in Nat : k = 10000
      OBVIOUS
    <3>3. a \in Nat /\ z \in Nat /\ k \in Nat /\ z # 0 /\ a <= z
      BY <3>1, <3>2
    <3>4. (k * a) \div z \in 0 .. k
      BY <3>3, ShareWithin, Zenon
    <3>5. Share((k * a) \div z)
      <4>1. PICK q \in 0 .. k : q = (k * a) \div z
        BY <3>4
      <4>2. Share(q)
        BY <3>2 DEF Share
      <4> QED BY <4>1, <4>2, Zenon
    <3>6. Index(i) = (k * a) \div z
      BY <2>8, <2>10, <3>1, <3>2
    <3> QED BY <3>5, <3>6, Zenon
  <2> QED BY <2>9, <2>10
<1> HIDE DEF Index
<1>6. ASSUME NEW i \in 1 .. n PROVE f[i] \in Value /\ (Known(f[i]) => Share(f[i]))
  <2>1. CASE None(i)
    <3>1. f[i] = NaN
      BY <2>1
    <3> HIDE DEF f
    <3> QED BY <3>1 DEF Value, Known
  <2>2. CASE ~None(i)
    <3>1. f[i] = Index(i) /\ Share(Index(i))
      BY <2>2, <1>5
    <3>2. \A x : Share(x) => x \in Value
      BY DEF Share, Value
    <3> HIDE DEF f
    <3> QED BY <3>1, <3>2, Zenon
  <2> QED BY <2>1, <2>2
<1>7. f = [i \in 1 .. n |-> f[i]]
  OBVIOUS
<1> HIDE DEF f
<1>8. f \in [1 .. n -> Value]
  BY <1>6, <1>7
<1>9. f \in Seq(Value) /\ Len(f) = n
  BY <1>1, <1>8, FunctionIsSequence, Zenon
<1> QED BY <1>2, <1>6, <1>9

\* The average of the directional index is one as well.
LEMMA AdxWithin ==
    ASSUME NEW b \in Seq(BarRow), NEW p \in Nat \ {0}, p <= Len(b)
    PROVE  /\ adx(b, p) \in Seq(Value) /\ Len(adx(b, p)) = Len(b)
           /\ \A i \in 1 .. Len(b) : Known(adx(b, p)[i]) => Share(adx(b, p)[i])
<1> DEFINE n == Len(b)
           dx == DX(b, p)
           defined == {i \in 1 .. n : Known(dx[i])}
           at == Min(defined)
<1>1. n \in Nat
  OBVIOUS
<1>2. dx \in Seq(Value) /\ Len(dx) = n /\ \A i \in 1 .. n : Known(dx[i]) => Share(dx[i])
  BY DXWithin
<1>3. adx(b, p) = IF defined = {} THEN dx ELSE rma_from_first_valid(dx, p, at)
  BY DEF adx
<1> HIDE DEF dx
<1>4. CASE defined = {}
  BY <1>2, <1>3, <1>4
<1>5. CASE defined # {}
  <2>1. at \in defined
    <3>1. defined \in SUBSET Nat
      BY <1>1
    <3> HIDE DEF defined
    <3> QED BY <3>1, <1>5, LeastIsMin
  <2>2. at \in 1 .. n /\ Known(dx[at])
    BY <2>1
  <2> HIDE DEF at, defined
  <2>3. PICK lo \in Int, hi \in Int : lo = 0 /\ hi = 10000
    OBVIOUS
  <2>4. \A x : Share(x) <=> x \in Int /\ lo <= x /\ x <= hi
    <3>1. \A x : Share(x) <=> x \in Int /\ 0 <= x /\ x <= hi
      BY <2>3, ShareBetween
    <3> QED BY <3>1, <2>3, Zenon
  <2>5. PICK seed \in Int : seed = dx[at] /\ lo <= seed /\ seed <= hi
    <3>1. Share(dx[at])
      BY <2>2, <1>2
    <3> QED BY <3>1, <2>4, Zenon
  <2>6. adx(b, p) = Smooth(dx, p, at, seed)
    <3>1. ~(at > Len(dx))
      BY <2>2, <1>1, <1>2
    <3> QED BY <3>1, <2>5, <1>3, <1>5 DEF rma_from_first_valid
  <2>7. \A i \in 1 .. Len(dx) : i > at /\ Known(dx[i]) => lo <= dx[i] /\ dx[i] <= hi
    BY <1>2, <2>4, Zenon
  <2>8. at \in Nat \ {0} /\ lo <= seed /\ seed <= hi /\ seed \in Value
    BY <2>2, <2>5 DEF Value
  <2> DEFINE w == Smooth(dx, p, at, seed)
  <2>9. w \in [1 .. n -> Value]
    BY <1>2, <2>8, SmoothReads
  <2>10. \A i \in 1 .. Len(dx) : Known(w[i]) => w[i] \in Int /\ lo <= w[i] /\ w[i] <= hi
    BY <1>2, <2>7, <2>8, SmoothBetween
  <2> HIDE DEF w
  <2>11. \A i \in 1 .. n : Known(w[i]) => Share(w[i])
    BY <1>2, <2>4, <2>10, Zenon
  <2>12. w \in Seq(Value) /\ Len(w) = n
    BY <1>1, <2>9, FunctionIsSequence, Zenon
  <2> QED BY <2>6, <2>11, <2>12 DEF w
<1> QED BY <1>4, <1>5

\* A typical price lies between the low and the high.
LEMMA TypicalWithin ==
    ASSUME NEW r \in BarRow
    PROVE  Typical(r) \in Nat /\ r.l <= Typical(r) /\ Typical(r) <= r.h
<1>1. PICK h \in Nat, l \in Nat, c \in Nat :
         h = r.h /\ l = r.l /\ c = r.c /\ l <= c /\ c <= h /\ l <= h
  BY DEF BarRow
<1>2. PICK v \in Int : v = h + l + c /\ 3 * l <= v /\ v <= 3 * h
  <2>1. h + l + c \in Int /\ 3 * l <= h + l + c /\ h + l + c <= 3 * h
    BY <1>1
  <2> QED BY <2>1
<1>3. l \in Int /\ h \in Int /\ 3 \in Nat \ {0}
  OBVIOUS
<1>4. v \div 3 \in Int /\ l <= v \div 3 /\ v \div 3 <= h
  BY <1>2, <1>3, QuotientBetween
<1>5. Typical(r) = v \div 3
  BY <1>1, <1>2 DEF Typical
<1> QED BY <1>1, <1>4, <1>5

\* The mean price of a session lies between its low and its high.
LEMMA VwapWithin ==
    ASSUME NEW b \in Seq(BarRow), b # <<>>
    PROVE  \A i \in 1 .. Len(b) : Known(vwap(b)[i]) =>
              /\ vwap(b)[i] \in Int
              /\ Smallest(Lows(b)) <= vwap(b)[i] /\ vwap(b)[i] <= Largest(Highs(b))
<1> DEFINE n == Len(b)
<1>1. n \in Nat /\ \A i \in 1 .. n : b[i] \in BarRow
  OBVIOUS
<1>2. PICK lo \in Nat, hi \in Nat : lo = Smallest(Lows(b)) /\ hi = Largest(Highs(b))
  BY LowAndHigh
<1>3. \A i \in 1 .. n : lo <= b[i].l /\ b[i].h <= hi
  BY <1>2, LowAndHigh
<1>4. PICK pv, cv : Carried(pv, cv, b)
  BY VwapReads
<1>5. \A i \in 0 .. n : pv[i] \in Nat /\ cv[i] \in Nat
  BY <1>4 DEF Carried
<1>6. /\ pv[0] = 0 /\ cv[0] = 0
      /\ \A i \in 1 .. n : pv[i] = pv[i - 1] + Typical(b[i]) * b[i].v /\ cv[i] = cv[i - 1] + b[i].v
  BY <1>4 DEF Carried
<1>7. vwap(b) = [i \in 1 .. n |-> IF cv[i] = 0 THEN NaN ELSE pv[i] \div cv[i]]
  BY <1>4 DEF Carried
<1> DEFINE T == {i \in 0 .. n : cv[i] * lo <= pv[i] /\ pv[i] <= cv[i] * hi}
<1>8. 0 \in T
  <2>1. 0 * lo <= 0 /\ 0 <= 0 * hi /\ 0 \in 0 .. n
    BY <1>1
  <2> QED BY <2>1, <1>6
<1>9. ASSUME NEW i \in 1 .. n, i - 1 \in T PROVE i \in T
  <2>1. i \in 0 .. n /\ i - 1 \in 0 .. n
    BY <1>1
  <2>2. PICK p \in Nat, c \in Nat : p = pv[i - 1] /\ c = cv[i - 1]
    BY <2>1, <1>5
  <2>3. PICK v \in Nat : v = b[i].v
    BY <1>1, TypicalIsPositive
  <2>4. PICK t \in Nat : t = Typical(b[i]) /\ lo <= t /\ t <= hi
    <3>1. PICK t \in Nat : t = Typical(b[i]) /\ b[i].l <= t /\ t <= b[i].h
      BY <1>1, TypicalWithin
    <3>2. PICK l \in Nat, h \in Nat : l = b[i].l /\ h = b[i].h
      <4>1. b[i] \in BarRow
        BY <1>1
      <4> QED BY <4>1 DEF BarRow
    <3>3. lo <= l /\ l <= t /\ t <= h /\ h <= hi
      BY <3>1, <3>2, <1>3
    <3>4. lo <= t /\ t <= hi
      BY <3>3
    <3> QED BY <3>1, <3>4
  <2>5. c * lo <= p /\ p <= c * hi
    BY <2>2, <1>9
  <2>6. PICK d \in Nat, e \in Nat : t = lo + d /\ hi = t + e
    <3>1. t - lo \in Nat /\ t = lo + (t - lo)
      BY <2>4
    <3>2. hi - t \in Nat /\ hi = t + (hi - t)
      BY <2>4
    <3> QED BY <3>1, <3>2
  <2>7. /\ (c + v) * lo = c * lo + v * lo /\ (c + v) * hi = c * hi + v * hi
        /\ t * v = v * lo + v * d /\ v * hi = t * v + v * e /\ v * d \in Nat /\ v * e \in Nat
    BY <2>6
  <2>8. PICK x1 \in Int, x2 \in Int, x3 \in Int, x4 \in Int, x5 \in Int, x6 \in Nat, x7 \in Nat :
           /\ x1 = c * lo /\ x2 = c * hi /\ x3 = v * lo /\ x4 = v * hi /\ x5 = t * v
           /\ x6 = v * d /\ x7 = v * e
    BY <2>7
  <2>9. x1 + x3 <= p + x5 /\ p + x5 <= x2 + x4
    BY <2>5, <2>7, <2>8
  <2>10. (c + v) * lo <= p + t * v /\ p + t * v <= (c + v) * hi
    BY <2>7, <2>8, <2>9
  <2>11. pv[i] = p + t * v /\ cv[i] = c + v
    BY <2>2, <2>3, <2>4, <1>6
  <2> QED BY <2>1, <2>10, <2>11
<1> HIDE DEF T
<1>10. 0 .. n \subseteq T
  <2> HIDE DEF n
  <2> QED BY <1>1, <1>8, <1>9, UpFromZero
<1>11. ASSUME NEW i \in 1 .. n, Known(vwap(b)[i])
       PROVE  vwap(b)[i] \in Int /\ lo <= vwap(b)[i] /\ vwap(b)[i] <= hi
  <2>1. i \in 0 .. n
    BY <1>1
  <2>2. cv[i] # 0
    BY <1>7, <1>11 DEF Known
  <2>3. PICK x \in Int, y \in Nat \ {0} : x = pv[i] /\ y = cv[i]
    <3>1. pv[i] \in Int /\ cv[i] \in Nat \ {0}
      BY <2>1, <2>2, <1>5
    <3> QED BY <3>1
  <2>4. y * lo <= x /\ x <= y * hi
    BY <2>1, <2>3, <1>10 DEF T
  <2>5. lo \in Int /\ hi \in Int
    OBVIOUS
  <2>6. x \div y \in Int /\ lo <= x \div y /\ x \div y <= hi
    BY <2>4, <2>5, QuotientBetween
  <2>7. vwap(b)[i] = x \div y
    BY <2>2, <2>3, <1>7
  <2> QED BY <2>6, <2>7
<1> QED BY <1>2, <1>11

\* The newest bar is of the session.
LEMMA SessionHasBars ==
    ASSUME NEW b, History(b)
    PROVE  latest_session(b) \in Seq(BarRow) /\ latest_session(b) # <<>>
<1> DEFINE S == {i \in 1 .. Len(b) : DayOf(b[i]) = DayOf(Last(b))}
<1>1. S \in SUBSET (1 .. Len(b)) /\ Len(b) \in S /\ Len(b) \in Nat
  BY BarValues
<1>2. b \in Seq(BarRow)
  BY DEF History
<1> HIDE DEF S
<1>3. MembersAt(b, S) \in Seq(BarRow) /\ Len(MembersAt(b, S)) = Cardinality(S)
  BY <1>1, <1>2, MembersAreOf
<1>4. IsFiniteSet(S)
  <2>1. IsFiniteSet(1 .. Len(b))
    BY <1>1, FS_Interval
  <2> QED BY <2>1, <1>1, FS_Subset
<1>5. Cardinality(S) # 0
  BY <1>1, <1>4, FS_EmptySet
<1> QED BY <1>3, <1>5 DEF latest_session, S

LEMMA ClosesAreNat ==
    ASSUME NEW b, History(b)
    PROVE  /\ Closes(b) \in Seq(Nat) /\ Closes(b) \in Seq(Int) /\ Closes(b) # <<>>
           /\ Len(Closes(b)) = Len(b) /\ Len(b) \in Nat \ {0} /\ b \in Seq(BarRow)
<1>1. Len(b) \in Nat \ {0} /\ \A i \in 1 .. Len(b) : b[i].c \in Nat
  BY BarValues
<1>2. Closes(b) = [i \in 1 .. Len(b) |-> b[i].c]
  BY DEF Closes, Column
<1>3. Closes(b) \in [1 .. Len(b) -> Nat]
  BY <1>1, <1>2
<1> DEFINE c == Closes(b)
<1> HIDE DEF c
<1>4. c \in [1 .. Len(b) -> Nat]
  BY <1>3 DEF c
<1>5. c \in Seq(Nat) /\ Len(c) = Len(b)
  BY <1>1, <1>4, FunctionIsSequence, Zenon
<1>6. c \in Seq(Int) /\ c # <<>>
  BY <1>1, <1>5
<1> QED BY <1>1, <1>5, <1>6 DEF c, History

\* Over any bars, an indicator's newest value is within its range.
Within(x, lo, hi) == Known(x) => lo <= x /\ x <= hi

LEMMA RsiOfHistory ==
    ASSUME NEW b, History(b)
    PROVE  Within(Last(rsi(Closes(b), P.rsi_period)), 0, 10000)
<1> DEFINE x == Last(rsi(Closes(b), P.rsi_period))
<1>1. P.rsi_period \in Nat \ {0}
  BY PresetsAssumption
<1>2. Known(x) => Share(x)
  <2>1. Closes(b) \in Seq(Int) /\ Len(Closes(b)) \in 1 .. Len(Closes(b))
    BY ClosesAreNat
  <2>2. /\ Len(rsi(Closes(b), P.rsi_period)) = Len(Closes(b))
        /\ \A i \in 1 .. Len(Closes(b)) : Known(rsi(Closes(b), P.rsi_period)[i])
                                             => Share(rsi(Closes(b), P.rsi_period)[i])
    BY <1>1, <2>1, RsiWithin
  <2> QED BY <2>1, <2>2 DEF Last
<1> HIDE DEF x
<1>3. PICK hi : hi = 10000
  OBVIOUS
<1>4. \A y : Share(y) => 0 <= y /\ y <= hi
  BY <1>3, ShareBetween
<1>5. Within(x, 0, hi)
  BY <1>2, <1>4, Zenon DEF Within
<1>6. Within(x, 0, 10000)
  BY <1>3, <1>5
<1> QED BY <1>6 DEF x

LEMMA AdxOfHistory ==
    ASSUME NEW b, History(b), Len(b) >= P.adx_period
    PROVE  Within(Last(adx(b, P.adx_period)), 0, 10000)
<1> DEFINE x == Last(adx(b, P.adx_period))
<1>1. P.adx_period \in Nat \ {0}
  BY PresetsAssumption
<1>2. Known(x) => Share(x)
  <2>1. b \in Seq(BarRow) /\ Len(b) \in 1 .. Len(b) /\ P.adx_period <= Len(b)
    BY <1>1, ClosesAreNat
  <2>2. /\ Len(adx(b, P.adx_period)) = Len(b)
        /\ \A i \in 1 .. Len(b) : Known(adx(b, P.adx_period)[i]) => Share(adx(b, P.adx_period)[i])
    BY <1>1, <2>1, AdxWithin
  <2> QED BY <2>1, <2>2 DEF Last
<1> HIDE DEF x
<1>3. PICK hi : hi = 10000
  OBVIOUS
<1>4. \A y : Share(y) => 0 <= y /\ y <= hi
  BY <1>3, ShareBetween
<1>5. Within(x, 0, hi)
  BY <1>2, <1>4, Zenon DEF Within
<1>6. Within(x, 0, 10000)
  BY <1>3, <1>5
<1> QED BY <1>6 DEF x

LEMMA VwapOfHistory ==
    ASSUME NEW b, History(b)
    PROVE  Within(Last(vwap(latest_session(b))), Smallest(Lows(latest_session(b))),
                  Largest(Highs(latest_session(b))))
<1> DEFINE s == latest_session(b)
<1>1. s \in Seq(BarRow) /\ s # <<>>
  BY SessionHasBars
<1> HIDE DEF s
<1>2. Len(s) \in 1 .. Len(s) /\ Len(vwap(s)) = Len(s)
  BY <1>1, VwapIsNumber
<1>3. Known(vwap(s)[Len(s)]) => /\ Smallest(Lows(s)) <= vwap(s)[Len(s)]
                                /\ vwap(s)[Len(s)] <= Largest(Highs(s))
  BY <1>1, <1>2, VwapWithin
<1>4. Within(Last(vwap(s)), Smallest(Lows(s)), Largest(Highs(s)))
  BY <1>2, <1>3 DEF Last, Within
<1> QED BY <1>4 DEF s

LEMMA EmaOfHistory ==
    ASSUME NEW b, History(b)
    PROVE  Within(Last(ema(Closes(b), P.slow)), Smallest(Closes(b)), Largest(Closes(b)))
<1> DEFINE c == Closes(b)
           e == ema(c, P.slow)
<1>1. PICK p \in Nat \ {0} : p = P.slow
  BY Parameters
<1>2. c \in Seq(Nat) /\ c # <<>> /\ Len(c) \in Nat \ {0}
  BY ClosesAreNat
<1> HIDE DEF c
<1>3. /\ Len(e) = Len(c)
      /\ \A i \in 1 .. Len(c) :
            /\ i < p => e[i] = NaN
            /\ i >= p => e[i] \in Int /\ Smallest(c) <= e[i] /\ e[i] <= Largest(c)
  BY <1>1, <1>2, EmaWithin
<1>4. Len(c) \in 1 .. Len(c) /\ (Len(c) < p \/ Len(c) >= p)
  BY <1>2
<1> HIDE DEF e
<1>5. Within(Last(e), Smallest(c), Largest(c))
  BY <1>3, <1>4 DEF Last, Within, Known
<1> QED BY <1>5 DEF e, c

\* The middle band is the mean of the window, and the others lie around it.
LEMMA BandsOfHistory ==
    ASSUME NEW b, History(b), Len(b) >= P.bb_period
    PROVE  LET c == Closes(b)
               bb == bollinger(c, P.bb_period, P.bb_std)
               w == Trailing(c, Len(c), P.bb_period)
           IN /\ Within(Last(bb.mid), Smallest(w), Largest(w))
              /\ Last(bb.lower) <= Last(bb.mid) /\ Last(bb.mid) <= Last(bb.upper)
<1> DEFINE c == Closes(b)
           bb == bollinger(c, P.bb_period, P.bb_std)
           w == Trailing(c, Len(c), P.bb_period)
<1>1. PICK p \in Nat \ {0, 1}, k \in Nat \ {0} : p = P.bb_period /\ k = P.bb_std
  BY Parameters
<1>2. c \in Seq(Nat) /\ c \in Seq(Int) /\ Len(c) \in Nat \ {0} /\ p <= Len(c)
  BY <1>1, ClosesAreNat
<1> HIDE DEF c
<1>3. PICK mid \in Int, e \in Nat :
         Last(bb.mid) = mid /\ Last(bb.upper) = mid + e /\ Last(bb.lower) = mid - e
  BY <1>1, <1>2, BandsAround
<1>4. Last(bb.lower) <= Last(bb.mid) /\ Last(bb.mid) <= Last(bb.upper)
  <2>1. mid - e <= mid /\ mid <= mid + e
    OBVIOUS
  <2> HIDE DEF bb
  <2> QED BY <2>1, <1>3
<1>5. w \in Seq(Nat) /\ Len(w) = p
  <2> DEFINE X == Nat
  <2>1. c \in Seq(X) /\ p \in Nat \ {0} /\ Len(c) \in Nat /\ p <= Len(c) /\ Len(c) <= Len(c)
    BY <1>2
  <2> HIDE DEF X
  <2>2. Trailing(c, Len(c), p) \in Seq(X) /\ Len(Trailing(c, Len(c), p)) = p
    BY <2>1, TrailingWindow
  <2> QED BY <2>2, <1>1 DEF X
<1>6. Last(bb.mid) = sma(c, p)[Len(c)]
  <2>1. bb.mid = sma(c, p)
    BY <1>1 DEF bollinger
  <2>2. Len(sma(c, p)) = Len(c)
    BY <1>2, SmaIsNumber
  <2> QED BY <2>1, <2>2 DEF Last
<1>7. sma(c, p)[Len(c)] = Total(w) \div Len(w)
  <2>1. sma(c, p)[Len(c)] = Total(Trailing(c, Len(c), p)) \div p
    BY <1>2, SmaIsMean
  <2> QED BY <2>1, <1>1, <1>5
<1> HIDE DEF w, bb
<1>8. w # <<>>
  BY <1>5
<1>9. Smallest(w) <= Total(w) \div Len(w) /\ Total(w) \div Len(w) <= Largest(w)
  BY <1>5, <1>8, MeanWithin
<1>10. Within(Last(bb.mid), Smallest(w), Largest(w))
  BY <1>6, <1>7, <1>9, Zenon DEF Within
<1> QED BY <1>4, <1>10, Zenon DEF bb, w, c

\* Stretches of two sequences with the same members are the same.
LEMMA StretchesAgree ==
    ASSUME NEW X, NEW s \in Seq(X), NEW t \in Seq(X), NEW a \in Nat, NEW d \in Nat,
           NEW m \in Nat \ {0}, a + m <= Len(s), d + m <= Len(t),
           \A k \in 1 .. m : s[a + k] = t[d + k]
    PROVE  SubSeq(s, a + 1, a + m) = SubSeq(t, d + 1, d + m)
<1> DEFINE u == SubSeq(s, a + 1, a + m)
           v == SubSeq(t, d + 1, d + m)
<1>1. /\ a + 1 \in 1 .. Len(s) /\ a + m \in 1 .. Len(s) /\ (a + m) - (a + 1) + 1 = m
      /\ d + 1 \in 1 .. Len(t) /\ d + m \in 1 .. Len(t) /\ (d + m) - (d + 1) + 1 = m
  OBVIOUS
<1>2. u \in Seq(X) /\ Len(u) = m /\ v \in Seq(X) /\ Len(v) = m
  BY <1>1
<1>3. ASSUME NEW k \in 1 .. m PROVE u[k] = v[k]
  <2>1. u[k] = s[(a + 1) + k - 1]
    BY <1>1
  <2>2. v[k] = t[(d + 1) + k - 1]
    BY <1>1
  <2>3. (a + 1) + k - 1 = a + k /\ (d + 1) + k - 1 = d + k
    OBVIOUS
  <2> QED BY <2>1, <2>2, <2>3
<1> HIDE DEF u, v
<1>4. u \in [1 .. m -> X] /\ v \in [1 .. m -> X]
  BY <1>2
<1>5. u = v
  BY <1>3, <1>4
<1> QED BY <1>5 DEF u, v

LEMMA TailsAgree ==
    ASSUME NEW X, NEW s \in Seq(X), NEW t \in Seq(X), NEW m \in Nat \ {0},
           m <= Len(s), m <= Len(t),
           \A k \in 1 .. m : s[Len(s) - m + k] = t[Len(t) - m + k]
    PROVE  Trailing(s, Len(s), m) = Trailing(t, Len(t), m)
<1> DEFINE u == SubSeq(s, Len(s) - m + 1, Len(s))
           v == SubSeq(t, Len(t) - m + 1, Len(t))
<1>1. /\ Len(s) - m + 1 \in 1 .. Len(s) /\ Len(s) \in 1 .. Len(s)
      /\ Len(t) - m + 1 \in 1 .. Len(t) /\ Len(t) \in 1 .. Len(t)
      /\ Len(s) - (Len(s) - m + 1) + 1 = m /\ Len(t) - (Len(t) - m + 1) + 1 = m
  OBVIOUS
<1>2. u \in Seq(X) /\ Len(u) = m /\ v \in Seq(X) /\ Len(v) = m
  BY <1>1
<1>3. ASSUME NEW k \in 1 .. m PROVE u[k] = v[k]
  <2>1. u[k] = s[(Len(s) - m + 1) + k - 1]
    BY <1>1
  <2>2. v[k] = t[(Len(t) - m + 1) + k - 1]
    BY <1>1
  <2>3. (Len(s) - m + 1) + k - 1 = Len(s) - m + k /\ (Len(t) - m + 1) + k - 1 = Len(t) - m + k
    BY <1>1
  <2> QED BY <2>1, <2>2, <2>3
<1> HIDE DEF u, v
<1>4. u \in [1 .. m -> X] /\ v \in [1 .. m -> X]
  BY <1>2
<1>5. u = v
  BY <1>3, <1>4
<1> QED BY <1>5 DEF u, v, Trailing

\* The bars the cache loads: enough for indicators that read the last of them.
LEMMA WarmReads ==
    ASSUME NEW b, History(b), NEW p \in Nat \ {0}, Len(b) > p + 1
    PROVE  /\ Warm(b, p + 1) \in Seq(BarRow) /\ Len(Warm(b, p + 1)) = p + 1
           /\ History(Warm(b, p + 1))
           /\ \A i \in 1 .. p + 1 : Warm(b, p + 1)[i] = b[Len(b) - (p + 1) + i]
<1>1. Warm(b, p + 1) = Newest(b, p + 1)
  BY DEF Warm, Newest
<1>2. PICK n \in Nat \ {0} : n = p + 1
  OBVIOUS
<1>3. Len(b) \in Nat /\ ~(Len(b) <= n)
  BY <1>2, BarValues
<1>4. /\ History(Newest(b, n)) /\ Len(Newest(b, n)) = n
      /\ \A i \in 1 .. Len(Newest(b, n)) : Newest(b, n)[i] = b[Len(b) - Len(Newest(b, n)) + i]
  BY <1>3, NewestIsTail
<1>5. \A i \in 1 .. n : Newest(b, n)[i] = b[Len(b) - n + i]
  BY <1>4
<1> QED BY <1>1, <1>2, <1>4, <1>5 DEF History

LEMMA SnapshotOfSma ==
    ASSUME NEW b, History(b), NEW p \in Nat \ {0}, Len(b) > p + 1
    PROVE  Last(sma(Closes(Warm(b, p + 1)), p)) = Last(sma(Closes(b), p))
<1> DEFINE w == Warm(b, p + 1)
           c == Closes(b)
           d == Closes(w)
<1>1. PICK n \in Nat : n = Len(b) /\ n > p + 1
  BY BarValues
<1>2. Len(w) = p + 1 /\ History(w) /\ \A i \in 1 .. p + 1 : w[i] = b[n - (p + 1) + i]
  BY <1>1, WarmReads
<1> HIDE DEF w
<1>3. /\ c \in Seq(Int) /\ Len(c) = n /\ d \in Seq(Int) /\ Len(d) = p + 1
      /\ \A i \in 1 .. n : c[i] = b[i].c
      /\ \A i \in 1 .. p + 1 : d[i] = w[i].c
  <2>1. c = [i \in 1 .. n |-> b[i].c] /\ d = [i \in 1 .. p + 1 |-> w[i].c]
    BY <1>1, <1>2 DEF Closes, Column
  <2>2. c \in Seq(Int) /\ Len(c) = n
    BY <1>1, ClosesAreNat
  <2>3. d \in Seq(Int) /\ Len(d) = p + 1
    BY <1>2, ClosesAreNat
  <2> HIDE DEF c, d
  <2> QED BY <2>1, <2>2, <2>3
<1> HIDE DEF c, d
<1>4. Trailing(c, n, p) = Trailing(d, p + 1, p)
  <2>1. ASSUME NEW k \in 1 .. p PROVE c[n - p + k] = d[(p + 1) - p + k]
    <3>1. n - p + k \in 1 .. n /\ 1 + k \in 1 .. p + 1 /\ n - (p + 1) + (1 + k) = n - p + k
      BY <1>1
    <3>2. d[1 + k] = w[1 + k].c /\ w[1 + k] = b[n - (p + 1) + (1 + k)]
      BY <3>1, <1>2, <1>3
    <3>3. (p + 1) - p + k = 1 + k
      OBVIOUS
    <3> QED BY <3>1, <3>2, <3>3, <1>3
  <2> DEFINE X == Int
  <2>2. c \in Seq(X) /\ d \in Seq(X)
    BY <1>3
  <2> HIDE DEF X
  <2>3. p <= Len(c) /\ p <= Len(d) /\ \A k \in 1 .. p : c[Len(c) - p + k] = d[Len(d) - p + k]
    BY <2>1, <1>1, <1>3
  <2>4. Trailing(c, Len(c), p) = Trailing(d, Len(d), p)
    BY <2>2, <2>3, TailsAgree
  <2> QED BY <2>4, <1>3
<1>5. sma(c, p)[n] = Total(Trailing(c, n, p)) \div p
  <2>1. p <= n /\ n <= Len(c)
    BY <1>1, <1>3
  <2> QED BY <2>1, <1>3, SmaIsMean
<1>6. sma(d, p)[p + 1] = Total(Trailing(d, p + 1, p)) \div p
  <2>1. PICK m \in Nat : m = p + 1
    OBVIOUS
  <2>2. p <= m /\ m <= Len(d)
    BY <2>1, <1>3
  <2>3. sma(d, p)[m] = Total(Trailing(d, m, p)) \div p
    BY <2>2, <1>3, SmaIsMean
  <2> QED BY <2>1, <2>3
<1>7. Len(sma(c, p)) = n /\ Len(sma(d, p)) = p + 1
  BY <1>3, SmaIsNumber
<1>8. Last(sma(c, p)) = Last(sma(d, p))
  BY <1>4, <1>5, <1>6, <1>7 DEF Last
<1> QED BY <1>8 DEF c, d, w

LEMMA SnapshotOfVolume ==
    ASSUME NEW b, History(b), NEW p \in Nat \ {0}, Len(b) > p + 1
    PROVE  Last(rel_volume(Volumes(Warm(b, p + 1)), p)) = Last(rel_volume(Volumes(b), p))
<1> DEFINE w == Warm(b, p + 1)
           v == Volumes(b)
           u == Volumes(w)
<1>1. PICK n \in Nat : n = Len(b) /\ n > p + 1
  BY BarValues
<1>2. Len(w) = p + 1 /\ History(w) /\ \A i \in 1 .. p + 1 : w[i] = b[n - (p + 1) + i]
  BY <1>1, WarmReads
<1> HIDE DEF w
<1>3. /\ v \in Seq(Int) /\ Len(v) = n /\ u \in Seq(Int) /\ Len(u) = p + 1
      /\ \A i \in 1 .. n : v[i] = b[i].v
      /\ \A i \in 1 .. p + 1 : u[i] = w[i].v
  <2>1. v = [i \in 1 .. n |-> b[i].v] /\ u = [i \in 1 .. p + 1 |-> w[i].v]
    BY <1>1, <1>2 DEF Volumes, Column
  <2>2. \A i \in 1 .. n : b[i].v \in Int
    BY <1>1, BarValues
  <2>3. \A i \in 1 .. p + 1 : w[i].v \in Int
    BY <1>2, BarValues
  <2>4. v \in [1 .. n -> Int] /\ u \in [1 .. p + 1 -> Int]
    BY <2>1, <2>2, <2>3
  <2>5. n \in Nat /\ p + 1 \in Nat
    OBVIOUS
  <2> HIDE DEF v, u
  <2>6. v \in Seq(Int) /\ Len(v) = n
    BY <2>4, <2>5, FunctionIsSequence, Zenon
  <2>7. u \in Seq(Int) /\ Len(u) = p + 1
    BY <2>4, <2>5, FunctionIsSequence, Zenon
  <2> QED BY <2>1, <2>6, <2>7
<1> HIDE DEF v, u
<1>4. PICK a \in Nat : a = n - (p + 1) /\ a + 1 = n - p /\ a + p = n - 1
  <2>1. n - (p + 1) \in Nat /\ (n - (p + 1)) + 1 = n - p /\ (n - (p + 1)) + p = n - 1
    BY <1>1
  <2> QED BY <2>1
<1>5. SubSeq(v, a + 1, a + p) = SubSeq(u, 0 + 1, 0 + p)
  <2>1. ASSUME NEW k \in 1 .. p PROVE v[a + k] = u[0 + k]
    <3>1. a + k \in 1 .. n /\ k \in 1 .. p + 1 /\ n - (p + 1) + k = a + k /\ 0 + k = k
      BY <1>1, <1>4
    <3>2. u[k] = w[k].v /\ w[k] = b[n - (p + 1) + k]
      BY <3>1, <1>2, <1>3
    <3> QED BY <3>1, <3>2, <1>3
  <2> DEFINE X == Int
  <2>2. v \in Seq(X) /\ u \in Seq(X) /\ a + p <= Len(v) /\ 0 + p <= Len(u) /\ 0 \in Nat
    BY <1>1, <1>3, <1>4
  <2> HIDE DEF X
  <2> QED BY <2>1, <2>2, StretchesAgree
<1>6. PICK t : t = Total(SubSeq(v, n - p, n - 1)) /\ t = Total(SubSeq(u, 1, p))
  <2>1. 0 + 1 = 1 /\ 0 + p = p
    OBVIOUS
  <2> QED BY <2>1, <1>4, <1>5
<1>7. v[n] = u[p + 1]
  <2>1. p + 1 \in 1 .. p + 1 /\ n - (p + 1) + (p + 1) = n /\ n \in 1 .. n
    BY <1>1
  <2>2. u[p + 1] = w[p + 1].v /\ w[p + 1] = b[n - (p + 1) + (p + 1)]
    BY <2>1, <1>2, <1>3
  <2> QED BY <2>1, <2>2, <1>3
<1>8. rel_volume(v, p)[n] = (IF t = 0 THEN NaN ELSE (100 * p * v[n]) \div t) /\ Len(rel_volume(v, p)) = n
  <2>1. n \in 1 .. n /\ ~(n <= p)
    BY <1>1
  <2> QED BY <2>1, <1>3, <1>6 DEF rel_volume
<1>9. /\ rel_volume(u, p)[p + 1] = (IF t = 0 THEN NaN ELSE (100 * p * u[p + 1]) \div t)
      /\ Len(rel_volume(u, p)) = p + 1
  <2>1. PICK m \in Nat : m = p + 1 /\ m \in 1 .. m /\ ~(m <= p) /\ m - p = 1 /\ m - 1 = p
    <3>1. p + 1 \in Nat /\ p + 1 \in 1 .. p + 1 /\ ~(p + 1 <= p) /\ (p + 1) - p = 1 /\ (p + 1) - 1 = p
      OBVIOUS
    <3> QED BY <3>1
  <2>2. rel_volume(u, p)[m] = (IF t = 0 THEN NaN ELSE (100 * p * u[m]) \div t) /\ Len(rel_volume(u, p)) = m
    BY <2>1, <1>3, <1>6 DEF rel_volume
  <2> QED BY <2>1, <2>2
<1>10. Last(rel_volume(v, p)) = Last(rel_volume(u, p))
  BY <1>7, <1>8, <1>9 DEF Last
<1> QED BY <1>10 DEF v, u, w

LEMMA SnapshotOfGap ==
    ASSUME NEW b, History(b), NEW p \in Nat \ {0}, Len(b) > p + 1
    PROVE  Last(gap_pct(Warm(b, p + 1))) = Last(gap_pct(b))
<1> DEFINE w == Warm(b, p + 1)
           Gap(x, o) == IF x = 0 THEN NaN ELSE (10000 * (o - x)) \div x
<1>1. PICK n \in Nat, m \in Nat : n = Len(b) /\ m = p + 1 /\ n > m /\ m > 1
  <2>1. Len(b) \in Nat /\ p + 1 \in Nat /\ p + 1 > 1
    BY BarValues
  <2> QED BY <2>1
<1>2. Len(w) = m /\ \A i \in 1 .. m : w[i] = b[n - m + i]
  BY <1>1, WarmReads
<1> HIDE DEF w
<1>3. ASSUME NEW x, NEW k \in Nat, k = Len(x), k > 1
      PROVE  Last(gap_pct(x)) = Gap(x[k - 1].c, x[k].o)
  <2>1. k \in 1 .. k /\ k # 1
    BY <1>3
  <2>2. gap_pct(x)[k] = Gap(x[k - 1].c, x[k].o) /\ Len(gap_pct(x)) = k
    BY <2>1, <1>3 DEF gap_pct
  <2> HIDE DEF Gap
  <2> QED BY <2>2 DEF Last
<1>4. w[m] = b[n] /\ w[m - 1] = b[n - 1]
  <2>1. m \in 1 .. m /\ m - 1 \in 1 .. m /\ n - m + m = n /\ n - m + (m - 1) = n - 1
    BY <1>1
  <2>2. w[m] = b[n - m + m] /\ w[m - 1] = b[n - m + (m - 1)]
    BY <2>1, <1>2
  <2> QED BY <2>1, <2>2
<1> HIDE DEF Gap
<1>5. Last(gap_pct(w)) = Gap(w[m - 1].c, w[m].o)
  BY <1>1, <1>2, <1>3
<1>6. Last(gap_pct(b)) = Gap(b[n - 1].c, b[n].o)
  <2>1. n > 1
    BY <1>1
  <2> QED BY <2>1, <1>1, <1>3
<1> QED BY <1>4, <1>5, <1>6 DEF w

\* The cache's snapshot is that of all the stored bars.
LEMMA SnapshotOfHistory ==
    ASSUME NEW b, History(b), NEW key \in {"sma", "rel_volume", "gap_pct"}
    PROVE  recompute_from_history(b, P.rsi_period, P.rsi_period + 1)[key]
              = Last(Series(key, b, P.rsi_period))
<1>1. PICK p \in Nat \ {0} : p = P.rsi_period
  BY PresetsAssumption
<1> DEFINE w == Warm(b, p + 1)
<1>2. recompute_from_history(b, p, p + 1)[key] = Last(Series(key, w, p))
  BY DEF recompute_from_history, Keys
<1>3. CASE ~(Len(b) > p + 1)
  <2>1. Len(b) <= p + 1
    BY <1>3, BarValues
  <2>2. w = b
    BY <2>1 DEF Warm
  <2> QED BY <2>2, <1>1, <1>2
<1>4. CASE Len(b) > p + 1
  <2>1. /\ Last(sma(Closes(w), p)) = Last(sma(Closes(b), p))
        /\ Last(rel_volume(Volumes(w), p)) = Last(rel_volume(Volumes(b), p))
        /\ Last(gap_pct(w)) = Last(gap_pct(b))
    BY <1>4, SnapshotOfSma, SnapshotOfVolume, SnapshotOfGap
  <2> HIDE DEF w
  <2>2. \A x : Series("sma", x, p) = sma(Closes(x), p)
    BY DEF Series
  <2>3. \A x : Series("rel_volume", x, p) = rel_volume(Volumes(x), p)
    BY DEF Series
  <2>4. \A x : Series("gap_pct", x, p) = gap_pct(x)
    BY DEF Series
  <2>5. Last(Series(key, w, p)) = Last(Series(key, b, p))
    <3>1. CASE key = "sma"
      BY <3>1, <2>1, <2>2
    <3>2. CASE key = "rel_volume"
      BY <3>2, <2>1, <2>3
    <3>3. CASE key = "gap_pct"
      BY <3>3, <2>1, <2>4
    <3> QED BY <3>1, <3>2, <3>3
  <2> QED BY <2>5, <1>1, <1>2
<1> QED BY <1>3, <1>4

\* scanner/indicators.py, cache.py:75-80: whatever the periods and the bars, an
\* indicator's newest value is within its range, and the snapshot the scanner
\* takes of the bars the cache loads is that of all the stored bars.
THEOREM IndicatorsAreSound == Spec => []IndicatorsSound
<1>1. ASSUME BarsInv PROVE IndicatorsSound
  <2> SUFFICES ASSUME Full PROVE IndicatorsSound
    BY DEF IndicatorsSound, IndicatorsBounded, SnapshotOfStoredBars
  <2>1. History(bars)
    BY <1>1 DEF BarsInv, History, Full
  <2>2. IndicatorsBounded
    <3> DEFINE c == Closes(bars)
               s == latest_session(bars)
               bb == bollinger(c, P.bb_period, P.bb_std)
               w == Trailing(c, Len(c), P.bb_period)
    <3>1. Within(Last(rsi(c, P.rsi_period)), 0, 10000)
      BY <2>1, RsiOfHistory
    <3>2. Len(bars) >= P.adx_period => Within(Last(adx(bars, P.adx_period)), 0, 10000)
      BY <2>1, AdxOfHistory
    <3>3. Within(Last(vwap(s)), Smallest(Lows(s)), Largest(Highs(s)))
      BY <2>1, VwapOfHistory
    <3>4. Within(Last(ema(c, P.slow)), Smallest(c), Largest(c))
      BY <2>1, EmaOfHistory
    <3>5. Len(bars) >= P.bb_period =>
             /\ Within(Last(bb.mid), Smallest(w), Largest(w))
             /\ Last(bb.lower) <= Last(bb.mid) /\ Last(bb.mid) <= Last(bb.upper)
      BY <2>1, BandsOfHistory
    <3>6. Len(c) = Len(bars)
      BY <2>1, ClosesAreNat
    <3> QED BY <3>1, <3>2, <3>3, <3>4, <3>5, <3>6 DEF IndicatorsBounded, Within
  <2>3. SnapshotOfStoredBars
    BY <2>1, SnapshotOfHistory DEF SnapshotOfStoredBars
  <2> QED BY <2>2, <2>3 DEF IndicatorsSound
<1> QED BY <1>1, BarsInvariant, PTL

-----------------------------------------------------------------------------
(* Bars that arrive change no value of the past.                            *)

\* t goes on from s.
GoesOn(s, t) == Len(s) <= Len(t) /\ \A i \in 1 .. Len(s) : t[i] = s[i]

\* A stretch of what is common to both.
LEMMA StretchOfPrefix ==
    ASSUME NEW X, NEW s \in Seq(X), NEW t \in Seq(X), GoesOn(s, t),
           NEW a \in Nat \ {0}, NEW z \in Nat, a <= z, z <= Len(s)
    PROVE  SubSeq(s, a, z) = SubSeq(t, a, z)
<1> DEFINE u == SubSeq(s, a, z)
           v == SubSeq(t, a, z)
           m == z - a + 1
<1>1. a \in 1 .. Len(s) /\ z \in 1 .. Len(s) /\ a \in 1 .. Len(t) /\ z \in 1 .. Len(t) /\ m \in Nat
  BY DEF GoesOn
<1>2. u \in Seq(X) /\ Len(u) = m /\ v \in Seq(X) /\ Len(v) = m
  BY <1>1
<1>3. ASSUME NEW k \in 1 .. m PROVE u[k] = v[k]
  <2>1. u[k] = s[a + k - 1] /\ v[k] = t[a + k - 1]
    BY <1>1
  <2>2. a + k - 1 \in 1 .. Len(s)
    BY <1>1
  <2> QED BY <2>1, <2>2 DEF GoesOn
<1> HIDE DEF u, v, m
<1>4. u \in [1 .. m -> X] /\ v \in [1 .. m -> X]
  BY <1>2
<1>5. u = [k \in 1 .. m |-> u[k]] /\ v = [k \in 1 .. m |-> v[k]]
  BY <1>4
<1>6. u = v
  BY <1>3, <1>5
<1> QED BY <1>6 DEF u, v

LEMMA SmaIsKept ==
    ASSUME NEW s \in Seq(Int), NEW t \in Seq(Int), GoesOn(s, t), NEW p \in Nat \ {0}
    PROVE  \A i \in 1 .. Len(s) : sma(t, p)[i] = sma(s, p)[i]
<1> SUFFICES ASSUME NEW i \in 1 .. Len(s) PROVE sma(t, p)[i] = sma(s, p)[i]
  OBVIOUS
<1>1. i \in Nat /\ i <= Len(s) /\ i <= Len(t) /\ i \in 1 .. Len(t) /\ Len(s) \in Nat /\ Len(t) \in Nat
  BY DEF GoesOn
<1>2. CASE i < p
  BY <1>1, <1>2, SmaIsNumber
<1>3. CASE p <= i
  <2>1. sma(s, p)[i] = Total(Trailing(s, i, p)) \div p
    BY <1>1, <1>3, SmaIsMean
  <2>2. sma(t, p)[i] = Total(Trailing(t, i, p)) \div p
    BY <1>1, <1>3, SmaIsMean
  <2>3. SubSeq(s, i - p + 1, i) = SubSeq(t, i - p + 1, i)
    <3> DEFINE X == Int
               a == i - p + 1
    <3>1. s \in Seq(X) /\ t \in Seq(X) /\ a \in Nat \ {0} /\ a <= i
      BY <1>1, <1>3
    <3> HIDE DEF X, a
    <3>2. SubSeq(s, a, i) = SubSeq(t, a, i)
      BY <3>1, <1>1, StretchOfPrefix, Zenon
    <3> QED BY <3>2 DEF a
  <2> QED BY <2>1, <2>2, <2>3 DEF Trailing
<1> QED BY <1>1, <1>2, <1>3

LEMMA VolumeIsKept ==
    ASSUME NEW s \in Seq(Int), NEW t \in Seq(Int), GoesOn(s, t), NEW p \in Nat \ {0}
    PROVE  \A i \in 1 .. Len(s) : rel_volume(t, p)[i] = rel_volume(s, p)[i]
<1> SUFFICES ASSUME NEW i \in 1 .. Len(s) PROVE rel_volume(t, p)[i] = rel_volume(s, p)[i]
  OBVIOUS
<1>0. t[i] = s[i]
  BY DEF GoesOn
<1>1. i \in Nat /\ i <= Len(s) /\ i \in 1 .. Len(t) /\ Len(s) \in Nat /\ Len(t) \in Nat
  BY DEF GoesOn
<1> DEFINE Ratio(v) == IF i <= p \/ Total(SubSeq(v, i - p, i - 1)) = 0 THEN NaN
                       ELSE (100 * p * v[i]) \div Total(SubSeq(v, i - p, i - 1))
<1>2. rel_volume(s, p)[i] = Ratio(s) /\ rel_volume(t, p)[i] = Ratio(t)
  BY <1>1 DEF rel_volume
<1>3. CASE i <= p
  <2>1. Ratio(s) = NaN /\ Ratio(t) = NaN
    BY <1>3
  <2> QED BY <2>1, <1>2
<1>4. CASE ~(i <= p)
  <2> DEFINE X == Int
             a == i - p
             z == i - 1
  <2>1. s \in Seq(X) /\ t \in Seq(X) /\ a \in Nat \ {0} /\ z \in Nat /\ a <= z /\ z <= Len(s)
    BY <1>1, <1>4
  <2> HIDE DEF X, a, z
  <2>2. SubSeq(s, a, z) = SubSeq(t, a, z)
    BY <2>1, StretchOfPrefix, Zenon
  <2>3. Ratio(s) = Ratio(t)
    BY <2>2, <1>0 DEF a, z
  <2> QED BY <2>3, <1>2
<1> QED BY <1>3, <1>4

LEMMA GapIsKept ==
    ASSUME NEW s \in Seq(BarRow), NEW t \in Seq(BarRow), GoesOn(s, t)
    PROVE  \A i \in 1 .. Len(s) : gap_pct(t)[i] = gap_pct(s)[i]
<1> SUFFICES ASSUME NEW i \in 1 .. Len(s) PROVE gap_pct(t)[i] = gap_pct(s)[i]
  OBVIOUS
<1> DEFINE j == IF i = 1 THEN 1 ELSE i - 1
           Gap(before, o) == IF before = 0 THEN NaN ELSE (10000 * (o - before)) \div before
<1>1. i \in 1 .. Len(t) /\ j \in 1 .. Len(s)
  BY DEF GoesOn
<1>2. t[i] = s[i] /\ t[j] = s[j]
  BY <1>1 DEF GoesOn
<1>3. gap_pct(s)[i] = Gap(s[j].c, s[i].o) /\ gap_pct(t)[i] = Gap(t[j].c, t[i].o)
  BY <1>1 DEF gap_pct
<1> HIDE DEF Gap, j
<1> QED BY <1>2, <1>3

LEMMA EmaIsKept ==
    ASSUME NEW s \in Seq(Nat), NEW t \in Seq(Nat), GoesOn(s, t), s # <<>>, NEW p \in Nat \ {0}
    PROVE  \A i \in 1 .. Len(s) : ema(t, p)[i] = ema(s, p)[i]
<1> DEFINE n == Len(s)
           e == ema(s, p)
           f == ema(t, p)
           T == {i \in 0 .. n : i = 0 \/ f[i] = e[i]}
<1>1. n \in Nat /\ n <= Len(t) /\ Len(t) \in Nat /\ t # <<>>
  BY DEF GoesOn
<1>2. Averages(e, s, p) /\ Averages(f, t, p)
  BY <1>1, EmaWithin
<1> HIDE DEF e, f, n
<1>3. 0 \in T
  BY <1>1
<1>4. ASSUME NEW i \in 1 .. n, i - 1 \in T PROVE i \in T
  <2>1. i \in 0 .. n /\ i \in 1 .. Len(s) /\ i \in 1 .. Len(t) /\ t[i] = s[i]
    BY <1>1 DEF n, GoesOn
  <2>2. e[i] = IF i < p THEN NaN ELSE IF i = p THEN Total(SubSeq(s, 1, p)) \div p
               ELSE (2 * s[i] + (p - 1) * e[i - 1]) \div (p + 1)
    BY <2>1, <1>2 DEF Averages
  <2>3. f[i] = IF i < p THEN NaN ELSE IF i = p THEN Total(SubSeq(t, 1, p)) \div p
               ELSE (2 * t[i] + (p - 1) * f[i - 1]) \div (p + 1)
    BY <2>1, <1>2 DEF Averages
  <2>4. CASE i < p
    <3>1. e[i] = NaN /\ f[i] = NaN
      BY <2>2, <2>3, <2>4
    <3> QED BY <2>1, <3>1
  <2>5. CASE i = p
    <3>1. ~(i < p) /\ 1 <= p /\ p <= Len(s) /\ p \in Nat
      BY <2>1, <2>5
    <3>2. SubSeq(s, 1, p) = SubSeq(t, 1, p)
      <4> DEFINE X == Nat
                 a == 1
      <4>1. s \in Seq(X) /\ t \in Seq(X) /\ a \in Nat \ {0} /\ a <= p
        BY <3>1
      <4> HIDE DEF X, a
      <4>2. SubSeq(s, a, p) = SubSeq(t, a, p)
        BY <3>1, <4>1, StretchOfPrefix, Zenon
      <4> QED BY <4>2 DEF a
    <3>3. e[i] = f[i]
      BY <2>2, <2>3, <2>5, <3>1, <3>2
    <3> QED BY <2>1, <3>3
  <2>6. CASE i > p
    <3>1. ~(i < p) /\ i # p /\ i - 1 # 0
      BY <2>6
    <3>2. f[i - 1] = e[i - 1]
      BY <3>1, <1>4
    <3>3. e[i] = f[i]
      BY <2>1, <2>2, <2>3, <3>1, <3>2
    <3> QED BY <2>1, <3>3
  <2> QED BY <2>4, <2>5, <2>6
<1> HIDE DEF T
<1>5. 0 .. n \subseteq T
  BY <1>1, <1>3, <1>4, UpFromZero
<1>6. \A i \in 1 .. n : i \in 0 .. n /\ i # 0
  BY <1>1
<1> QED BY <1>5, <1>6 DEF T, n, e, f

LEMMA SmoothIsKept ==
    ASSUME NEW s \in Seq(Value), NEW t \in Seq(Value), GoesOn(s, t), NEW p \in Nat \ {0},
           NEW at \in Nat \ {0}, NEW seed \in Value
    PROVE  \A i \in 1 .. Len(s) : Smooth(t, p, at, seed)[i] = Smooth(s, p, at, seed)[i]
<1> DEFINE n == Len(s)
           e == Smooth(s, p, at, seed)
           f == Smooth(t, p, at, seed)
           T == {i \in 0 .. n : i = 0 \/ f[i] = e[i]}
<1>1. n \in Nat /\ n <= Len(t) /\ Len(t) \in Nat
  BY DEF GoesOn
<1>2. \A i \in 1 .. Len(s) : e[i] = IF i < at THEN NaN ELSE IF i = at THEN seed
                                     ELSE Wilder(e[i - 1], s[i], p)
  BY SmoothReads
<1>3. \A i \in 1 .. Len(t) : f[i] = IF i < at THEN NaN ELSE IF i = at THEN seed
                                     ELSE Wilder(f[i - 1], t[i], p)
  BY SmoothReads
<1> HIDE DEF e, f, n
<1>4. 0 \in T
  BY <1>1
<1>5. ASSUME NEW i \in 1 .. n, i - 1 \in T PROVE i \in T
  <2>1. i \in 0 .. n /\ i \in 1 .. Len(s) /\ i \in 1 .. Len(t) /\ t[i] = s[i]
    BY <1>1 DEF n, GoesOn
  <2>2. CASE i > at
    <3>1. i - 1 # 0 /\ ~(i < at) /\ i # at
      BY <2>2
    <3>2. f[i - 1] = e[i - 1]
      BY <3>1, <1>5
    <3>3. f[i] = e[i]
      BY <2>1, <3>1, <3>2, <1>2, <1>3
    <3> QED BY <2>1, <3>3
  <2>3. CASE ~(i > at)
    <3>1. i < at \/ i = at
      BY <2>3, <2>1
    <3>2. f[i] = e[i]
      BY <2>1, <3>1, <1>2, <1>3
    <3> QED BY <2>1, <3>2
  <2> QED BY <2>2, <2>3
<1> HIDE DEF T
<1>6. 0 .. n \subseteq T
  BY <1>1, <1>4, <1>5, UpFromZero
<1>7. \A i \in 1 .. n : i \in 0 .. n /\ i # 0
  BY <1>1
<1> QED BY <1>6, <1>7 DEF T, n, e, f

LEMMA RmaIsKept ==
    ASSUME NEW s \in Seq(Value), NEW t \in Seq(Value), GoesOn(s, t), NEW p \in Nat \ {0},
           NEW at \in Nat \ {0}, at <= Len(s)
    PROVE  \A i \in 1 .. Len(s) : rma_from_first_valid(t, p, at)[i] = rma_from_first_valid(s, p, at)[i]
<1>1. ~(at > Len(s)) /\ ~(at > Len(t)) /\ at \in 1 .. Len(s)
  BY DEF GoesOn
<1>2. PICK seed \in Value : seed = s[at] /\ seed = t[at]
  <2>1. s[at] \in Value
    BY <1>1
  <2> QED BY <2>1, <1>1 DEF GoesOn
<1>3. /\ rma_from_first_valid(s, p, at) = Smooth(s, p, at, seed)
      /\ rma_from_first_valid(t, p, at) = Smooth(t, p, at, seed)
  BY <1>1, <1>2 DEF rma_from_first_valid
<1>4. \A i \in 1 .. Len(s) : Smooth(t, p, at, seed)[i] = Smooth(s, p, at, seed)[i]
  BY SmoothIsKept
<1> QED BY <1>3, <1>4

\* Both sides of the changes go on as what changes does.
LEMMA ChangesGoOn ==
    ASSUME NEW c \in Seq(Int), NEW e \in Seq(Int), GoesOn(c, e)
    PROVE  GoesOn(Change(c, Rise), Change(e, Rise)) /\ GoesOn(Change(c, Fall), Change(e, Fall))
<1> DEFINE Risen(s, i) == IF i = 1 THEN NaN ELSE Rise(s[i] - s[i - 1])
           Fallen(s, i) == IF i = 1 THEN NaN ELSE Fall(s[i] - s[i - 1])
<1>1. Len(c) \in Nat /\ Len(e) \in Nat /\ Len(c) <= Len(e)
  BY DEF GoesOn
<1>2. /\ Len(Change(c, Rise)) = Len(c) /\ Len(Change(e, Rise)) = Len(e)
      /\ Len(Change(c, Fall)) = Len(c) /\ Len(Change(e, Fall)) = Len(e)
  BY ChangesRead
<1>3. ASSUME NEW i \in 1 .. Len(c) PROVE Risen(e, i) = Risen(c, i) /\ Fallen(e, i) = Fallen(c, i)
  <2>1. CASE i = 1
    BY <2>1
  <2>2. CASE i # 1
    <3>1. i - 1 \in 1 .. Len(c)
      BY <2>2, <1>1
    <3>2. e[i] = c[i] /\ e[i - 1] = c[i - 1]
      BY <3>1 DEF GoesOn
    <3> QED BY <3>2, <2>2
  <2> QED BY <2>1, <2>2
<1>4. \A i \in 1 .. Len(c) : i \in 1 .. Len(e)
  BY <1>1
<1>5. /\ Change(c, Rise) = [i \in 1 .. Len(c) |-> Risen(c, i)]
      /\ Change(e, Rise) = [i \in 1 .. Len(e) |-> Risen(e, i)]
      /\ Change(c, Fall) = [i \in 1 .. Len(c) |-> Fallen(c, i)]
      /\ Change(e, Fall) = [i \in 1 .. Len(e) |-> Fallen(e, i)]
  BY DEF Change
<1> HIDE DEF Risen, Fallen
<1>6. \A i \in 1 .. Len(c) : /\ Change(e, Rise)[i] = Change(c, Rise)[i]
                             /\ Change(e, Fall)[i] = Change(c, Fall)[i]
  BY <1>3, <1>4, <1>5
<1> QED BY <1>1, <1>2, <1>6 DEF GoesOn

LEMMA RsiIsKept ==
    ASSUME NEW c \in Seq(Int), NEW e \in Seq(Int), GoesOn(c, e), NEW p \in Nat \ {0}
    PROVE  \A i \in 1 .. Len(c) : Known(rsi(c, p)[i]) => rsi(e, p)[i] = rsi(c, p)[i]
<1> SUFFICES ASSUME NEW i \in 1 .. Len(c), Known(rsi(c, p)[i]) PROVE rsi(e, p)[i] = rsi(c, p)[i]
  OBVIOUS
<1> DEFINE Gain(s) == rma_from_first_valid(Change(s, Rise), p, 2)
           Loss(s) == rma_from_first_valid(Change(s, Fall), p, 2)
           Index(s) == IF Gain(s)[i] + Loss(s)[i] = 0 THEN NaN
                       ELSE (10000 * Gain(s)[i]) \div (Gain(s)[i] + Loss(s)[i])
<1>1. Len(c) \in Nat /\ Len(e) \in Nat /\ Len(c) <= Len(e) /\ i \in 1 .. Len(e)
  BY DEF GoesOn
<1>2. rsi(c, p)[i] = IF Len(c) <= p \/ i = 1 THEN NaN ELSE Index(c)
  BY DEF rsi
<1>3. rsi(e, p)[i] = IF Len(e) <= p \/ i = 1 THEN NaN ELSE Index(e)
  BY <1>1 DEF rsi
<1>4. ~(Len(c) <= p) /\ i # 1
  <2> HIDE DEF Index
  <2> QED BY <1>2 DEF Known
<1>5. ~(Len(e) <= p) /\ 2 <= Len(c)
  <2>1. PICK m \in Nat, n \in Nat : m = Len(c) /\ n = Len(e)
    BY <1>1
  <2>2. m <= n /\ ~(m <= p)
    BY <2>1, <1>1, <1>4
  <2>3. ~(n <= p) /\ 2 <= m
    BY <2>2
  <2> QED BY <2>1, <2>3
<1>6. Gain(e)[i] = Gain(c)[i]
  <2> DEFINE s == Change(c, Rise)
             t == Change(e, Rise)
             at == 2
  <2>1. s \in Seq(Value) /\ t \in Seq(Value) /\ GoesOn(s, t) /\ Len(s) = Len(c)
    BY ChangesRead, ChangesGoOn
  <2>2. at \in Nat \ {0} /\ at <= Len(c)
    BY <1>5
  <2> HIDE DEF s, t, at
  <2>3. at <= Len(s) /\ i \in 1 .. Len(s)
    BY <2>1, <2>2
  <2>4. rma_from_first_valid(t, p, at)[i] = rma_from_first_valid(s, p, at)[i]
    BY <2>1, <2>2, <2>3, RmaIsKept, Zenon
  <2> QED BY <2>4 DEF s, t, at
<1>7. Loss(e)[i] = Loss(c)[i]
  <2> DEFINE s == Change(c, Fall)
             t == Change(e, Fall)
             at == 2
  <2>1. s \in Seq(Value) /\ t \in Seq(Value) /\ GoesOn(s, t) /\ Len(s) = Len(c)
    BY ChangesRead, ChangesGoOn
  <2>2. at \in Nat \ {0} /\ at <= Len(c)
    BY <1>5
  <2> HIDE DEF s, t, at
  <2>3. at <= Len(s) /\ i \in 1 .. Len(s)
    BY <2>1, <2>2
  <2>4. rma_from_first_valid(t, p, at)[i] = rma_from_first_valid(s, p, at)[i]
    BY <2>1, <2>2, <2>3, RmaIsKept, Zenon
  <2> QED BY <2>4 DEF s, t, at
<1> HIDE DEF Gain, Loss
<1>8. Index(e) = Index(c)
  BY <1>6, <1>7
<1> HIDE DEF Index
<1> QED BY <1>2, <1>3, <1>4, <1>5, <1>8

\* The mean price of a session that goes on.
LEMMA VwapIsKept ==
    ASSUME NEW b \in Seq(BarRow), NEW d \in Seq(BarRow), GoesOn(b, d)
    PROVE  \A i \in 1 .. Len(b) : vwap(d)[i] = vwap(b)[i]
<1> DEFINE n == Len(b)
<1>1. n \in Nat /\ Len(d) \in Nat /\ n <= Len(d)
  BY DEF GoesOn
<1>2. PICK pv, cv : Carried(pv, cv, b)
  BY VwapReads
<1>3. PICK pw, cw : Carried(pw, cw, d)
  BY VwapReads
<1> DEFINE T == {i \in 0 .. n : pw[i] = pv[i] /\ cw[i] = cv[i]}
<1>4. 0 \in T
  BY <1>1, <1>2, <1>3 DEF Carried
<1>5. ASSUME NEW i \in 1 .. n, i - 1 \in T PROVE i \in T
  <2>1. i \in 0 .. n /\ i \in 1 .. Len(d) /\ d[i] = b[i]
    BY <1>1 DEF GoesOn
  <2>2. /\ pv[i] = pv[i - 1] + Typical(b[i]) * b[i].v /\ cv[i] = cv[i - 1] + b[i].v
        /\ pw[i] = pw[i - 1] + Typical(d[i]) * d[i].v /\ cw[i] = cw[i - 1] + d[i].v
    BY <2>1, <1>2, <1>3 DEF Carried
  <2>3. pw[i - 1] = pv[i - 1] /\ cw[i - 1] = cv[i - 1]
    BY <1>5
  <2>4. pw[i] = pv[i] /\ cw[i] = cv[i]
    BY <2>1, <2>2, <2>3
  <2> QED BY <2>1, <2>4
<1> HIDE DEF T, n
<1>6. 0 .. n \subseteq T
  BY <1>1, <1>4, <1>5, UpFromZero
<1>7. ASSUME NEW i \in 1 .. n PROVE vwap(d)[i] = vwap(b)[i]
  <2>1. i \in 0 .. n /\ i \in 1 .. Len(d) /\ i \in 1 .. Len(b)
    BY <1>1 DEF n
  <2>2. pw[i] = pv[i] /\ cw[i] = cv[i]
    BY <2>1, <1>6 DEF T
  <2>3. vwap(b)[i] = IF cv[i] = 0 THEN NaN ELSE pv[i] \div cv[i]
    BY <2>1, <1>2 DEF Carried
  <2>4. vwap(d)[i] = IF cw[i] = 0 THEN NaN ELSE pw[i] \div cw[i]
    BY <2>1, <1>3 DEF Carried
  <2> QED BY <2>2, <2>3, <2>4
<1> QED BY <1>7 DEF n

\* True ranges and movements go on as the bars do.
LEMMA RangesGoOn ==
    ASSUME NEW b \in Seq(BarRow), NEW d \in Seq(BarRow), GoesOn(b, d)
    PROVE  GoesOn(true_range(b), true_range(d))
<1> DEFINE Widest(s, i) == IF i = 1 THEN s[1].h - s[1].l
                           ELSE Max({s[i].h - s[i].l, AbsDiff(s[i].h, s[i - 1].c),
                                     AbsDiff(s[i].l, s[i - 1].c)})
<1>1. Len(b) \in Nat /\ Len(d) \in Nat /\ Len(b) <= Len(d)
  BY DEF GoesOn
<1>2. Len(true_range(b)) = Len(b) /\ Len(true_range(d)) = Len(d)
  BY TrueRangeIsNat
<1>3. ASSUME NEW i \in 1 .. Len(b) PROVE Widest(d, i) = Widest(b, i)
  <2>1. CASE i = 1
    <3>1. d[1] = b[1]
      BY <2>1 DEF GoesOn
    <3> QED BY <3>1, <2>1
  <2>2. CASE i # 1
    <3>1. i - 1 \in 1 .. Len(b)
      BY <2>2, <1>1
    <3>2. d[i] = b[i] /\ d[i - 1] = b[i - 1]
      BY <3>1 DEF GoesOn
    <3> QED BY <3>2, <2>2
  <2> QED BY <2>1, <2>2
<1>4. \A i \in 1 .. Len(b) : i \in 1 .. Len(d)
  BY <1>1
<1>5. /\ true_range(b) = [i \in 1 .. Len(b) |-> Widest(b, i)]
      /\ true_range(d) = [i \in 1 .. Len(d) |-> Widest(d, i)]
  BY DEF true_range
<1> HIDE DEF Widest
<1>6. \A i \in 1 .. Len(b) : true_range(d)[i] = true_range(b)[i]
  BY <1>3, <1>4, <1>5
<1> QED BY <1>1, <1>2, <1>6 DEF GoesOn

LEMMA MovementsGoOn ==
    ASSUME NEW b \in Seq(BarRow), NEW d \in Seq(BarRow), GoesOn(b, d), NEW up \in BOOLEAN
    PROVE  GoesOn(DM(b, up), DM(d, up))
<1> DEFINE Moved(s, i) == IF i = 1 THEN NaN
                          ELSE LET u == s[i].h - s[i - 1].h
                                   v == s[i - 1].l - s[i].l
                               IN IF up THEN IF u > v /\ u > 0 THEN u ELSE 0
                                  ELSE IF v > u /\ v > 0 THEN v ELSE 0
<1>1. Len(b) \in Nat /\ Len(d) \in Nat /\ Len(b) <= Len(d)
  BY DEF GoesOn
<1>2. Len(DM(b, up)) = Len(b) /\ Len(DM(d, up)) = Len(d)
  BY MovementsRead
<1>3. ASSUME NEW i \in 1 .. Len(b) PROVE Moved(d, i) = Moved(b, i)
  <2>1. CASE i = 1
    BY <2>1
  <2>2. CASE i # 1
    <3>1. i - 1 \in 1 .. Len(b)
      BY <2>2, <1>1
    <3>2. d[i] = b[i] /\ d[i - 1] = b[i - 1]
      BY <3>1 DEF GoesOn
    <3> QED BY <3>2, <2>2
  <2> QED BY <2>1, <2>2
<1>4. \A i \in 1 .. Len(b) : i \in 1 .. Len(d)
  BY <1>1
<1>5. /\ DM(b, up) = [i \in 1 .. Len(b) |-> Moved(b, i)]
      /\ DM(d, up) = [i \in 1 .. Len(d) |-> Moved(d, i)]
  BY DEF DM
<1> HIDE DEF Moved
<1>6. \A i \in 1 .. Len(b) : DM(d, up)[i] = DM(b, up)[i]
  BY <1>3, <1>4, <1>5
<1> QED BY <1>1, <1>2, <1>6 DEF GoesOn

\* A mean over the first period's values is that of what went on.
LEMMA PresmaIsKept ==
    ASSUME NEW s \in Seq(Value), NEW t \in Seq(Value), GoesOn(s, t), NEW p \in Nat \ {0},
           p <= Len(s)
    PROVE  \A i \in 1 .. Len(s) : wilder_smooth_presma(t, p)[i] = wilder_smooth_presma(s, p)[i]
<1> DEFINE S == {i \in 1 .. Len(s) : i <= p /\ Known(s[i])}
           R == {i \in 1 .. Len(t) : i <= p /\ Known(t[i])}
           window == MembersAt(s, S)
           n == Len(s)
<1>1. n \in Nat /\ Len(t) \in Nat /\ n <= Len(t) /\ \A i \in 1 .. n : t[i] = s[i] /\ s[i] \in Value
  BY DEF GoesOn
<1>2. \A i \in 1 .. Len(t) : i <= p => i \in 1 .. n
  BY <1>1
<1>3. \A i \in 1 .. n : i \in 1 .. Len(t)
  BY <1>1
<1>4. R = S
  BY <1>1, <1>2, <1>3
<1>5. S \in SUBSET (1 .. n) /\ \A i \in S : Known(s[i]) /\ t[i] = s[i] /\ s[i] \in Int
  <2>1. \A i \in 1 .. n : Known(s[i]) => s[i] \in Int
    BY <1>1 DEF Known, Value
  <2> QED BY <2>1, <1>1
<1> HIDE DEF S, R
<1>6. /\ window \in Seq(Value) /\ Len(window) = Cardinality(S) /\ Cardinality(S) \in Nat
      /\ \A r \in 1 .. Cardinality(S) : InOrder(S)[r] \in S /\ window[r] = s[InOrder(S)[r]]
  BY <1>5, MembersAreOf
<1>7. MembersAt(t, S) = window
  <2>1. MembersAt(t, S) = [r \in 1 .. Cardinality(S) |-> t[InOrder(S)[r]]]
    BY DEF MembersAt
  <2>2. window = [r \in 1 .. Cardinality(S) |-> s[InOrder(S)[r]]]
    BY DEF MembersAt
  <2>3. \A r \in 1 .. Cardinality(S) : t[InOrder(S)[r]] = s[InOrder(S)[r]]
    BY <1>5, <1>6
  <2> HIDE DEF window
  <2> QED BY <2>1, <2>2, <2>3
<1> HIDE DEF window, n
<1>8. \A i \in 1 .. n : wilder_smooth_presma(t, p)[i] = wilder_smooth_presma(s, p)[i]
  <2>1. CASE window = <<>>
    <3>1. wilder_smooth_presma(s, p) = [i \in 1 .. Len(s) |-> NaN]
      BY <2>1 DEF wilder_smooth_presma, S, window
    <3>2. wilder_smooth_presma(t, p) = [i \in 1 .. Len(t) |-> NaN]
      BY <2>1, <1>4, <1>7 DEF wilder_smooth_presma, R
    <3> QED BY <3>1, <3>2, <1>3 DEF n
  <2>2. CASE window # <<>>
    <3>1. window \in Seq(Int)
      <4>1. \A r \in 1 .. Cardinality(S) : window[r] \in Int
        BY <1>5, <1>6
      <4>2. window \in [1 .. Cardinality(S) -> Value]
        BY <1>6
      <4>3. window = [r \in 1 .. Cardinality(S) |-> window[r]]
        BY <4>2
      <4>4. window \in [1 .. Cardinality(S) -> Int]
        BY <4>1, <4>3
      <4> QED BY <4>4, <1>6, FunctionIsSequence, Zenon
    <3>2. Len(window) \in Nat \ {0}
      BY <3>1, <2>2
    <3>3. PICK seed \in Int : seed = Total(window) \div Len(window)
      <4>1. Total(window) \in Int
        <5>1. \A k \in 1 .. Len(window) : window[k] <= window[k]
          BY <3>1
        <5> QED BY <3>1, <5>1, TotalIsMonotone
      <4>2. PICK x \in Int, y \in Nat \ {0} : x = Total(window) /\ y = Len(window)
        BY <3>2, <4>1
      <4>3. x \div y \in Int
        OBVIOUS
      <4> QED BY <4>2, <4>3
    <3>4. wilder_smooth_presma(s, p) = Smooth(s, p, p, seed)
      BY <2>2, <3>3 DEF wilder_smooth_presma, S, window
    <3>5. wilder_smooth_presma(t, p) = Smooth(t, p, p, seed)
      BY <2>2, <3>3, <1>4, <1>7 DEF wilder_smooth_presma, R
    <3>6. seed \in Value
      BY DEF Value
    <3>7. \A i \in 1 .. Len(s) : Smooth(t, p, p, seed)[i] = Smooth(s, p, p, seed)[i]
      BY <3>6, SmoothIsKept
    <3> QED BY <3>4, <3>5, <3>7 DEF n
  <2> QED BY <2>1, <2>2
<1> QED BY <1>8 DEF n

LEMMA AtrIsKept ==
    ASSUME NEW b \in Seq(BarRow), NEW d \in Seq(BarRow), GoesOn(b, d), NEW p \in Nat \ {0},
           p <= Len(b)
    PROVE  \A i \in 1 .. Len(b) : atr(d, p)[i] = atr(b, p)[i]
<1> DEFINE s == true_range(b)
           t == true_range(d)
<1>1. s \in Seq(Nat) /\ t \in Seq(Nat) /\ Len(s) = Len(b) /\ GoesOn(s, t)
  BY TrueRangeIsNat, RangesGoOn
<1> HIDE DEF s, t
<1>2. s \in Seq(Value) /\ t \in Seq(Value)
  BY <1>1 DEF Value
<1>3. \A i \in 1 .. Len(s) : wilder_smooth_presma(t, p)[i] = wilder_smooth_presma(s, p)[i]
  BY <1>1, <1>2, PresmaIsKept
<1> QED BY <1>1, <1>3 DEF atr, s, t

\* The ranges the directional index starts from leave the first bar out.
LEMMA LaterRanges ==
    ASSUME NEW b \in Seq(BarRow), 1 <= Len(b)
    PROVE  LET s == [true_range(b) EXCEPT ![1] = NaN]
           IN /\ s \in Seq(Value) /\ Len(s) = Len(b)
              /\ \A i \in 1 .. Len(b) : s[i] = IF i = 1 THEN NaN ELSE true_range(b)[i]
<1> DEFINE n == Len(b)
           r == true_range(b)
           s == [r EXCEPT ![1] = NaN]
<1>1. n \in Nat /\ 1 \in 1 .. n
  OBVIOUS
<1>2. r \in Seq(Nat) /\ Len(r) = n
  BY TrueRangeIsNat
<1> HIDE DEF r
<1>3. r \in [1 .. n -> Nat]
  BY <1>2
<1>4. \A i \in 1 .. n : s[i] = (IF i = 1 THEN NaN ELSE r[i]) /\ r[i] \in Nat
  BY <1>1, <1>3
<1>5. \A i \in 1 .. n : s[i] \in Value
  BY <1>4 DEF Value
<1>6. s = [i \in 1 .. n |-> s[i]]
  BY <1>3
<1> HIDE DEF s
<1>7. s \in [1 .. n -> Value]
  BY <1>5, <1>6
<1>8. s \in Seq(Value) /\ Len(s) = n
  BY <1>1, <1>7, FunctionIsSequence, Zenon
<1> QED BY <1>4, <1>8 DEF s, r

LEMMA DXGoesOn ==
    ASSUME NEW b \in Seq(BarRow), NEW d \in Seq(BarRow), GoesOn(b, d), NEW p \in Nat \ {0},
           p <= Len(b)
    PROVE  GoesOn(DX(b, p), DX(d, p))
<1> DEFINE TR(x) == wilder_smooth_presma([true_range(x) EXCEPT ![1] = NaN], p)
           Up(x) == rma_from_first_valid(DM(x, TRUE), p, 2)
           Down(x) == rma_from_first_valid(DM(x, FALSE), p, 2)
           Index(t, u, v) == LET pdi == (100 * u) \div t
                                 mdi == (100 * v) \div t
                             IN IF pdi + mdi = 0 THEN 0
                                ELSE (10000 * AbsDiff(pdi, mdi)) \div (pdi + mdi)
           At(x, i) == IF i < p \/ ~Known(TR(x)[i]) \/ TR(x)[i] = 0 THEN NaN
                       ELSE Index(TR(x)[i], Up(x)[i], Down(x)[i])
<1>1. /\ Len(b) \in Nat /\ Len(d) \in Nat /\ Len(b) <= Len(d) /\ p <= Len(d)
      /\ 1 <= Len(b) /\ 1 <= Len(d)
  BY DEF GoesOn
<1>2. Len(DX(b, p)) = Len(b) /\ Len(DX(d, p)) = Len(d)
  BY <1>1, DXWithin
<1>3. \A i \in 1 .. Len(b) : i \in 1 .. Len(d) /\ (~(i < p) => i \in p .. Len(b) /\ i \in p .. Len(d))
  BY <1>1
<1>4. \A i \in 1 .. Len(b) : DX(b, p)[i] = At(b, i)
  <2>1. DX(b, p) = [i \in 1 .. Len(b) |-> At(b, i)]
    BY DEF DX
  <2> HIDE DEF At
  <2> QED BY <2>1
<1>5. \A i \in 1 .. Len(b) : DX(d, p)[i] = At(d, i)
  <2>1. DX(d, p) = [i \in 1 .. Len(d) |-> At(d, i)]
    BY DEF DX
  <2> HIDE DEF At
  <2> QED BY <2>1, <1>3
<1>6. ASSUME p = 1 PROVE \A i \in 1 .. Len(b) : At(b, i) = NaN /\ At(d, i) = NaN
  <2>1. \A i \in p .. Len(b) : ~Known(TR(b)[i])
    BY <1>6, SmoothedRange
  <2>2. \A i \in p .. Len(d) : ~Known(TR(d)[i])
    BY <1>1, <1>6, SmoothedRange
  <2> HIDE DEF TR, Index
  <2> QED BY <2>1, <2>2, <1>3
<1>7. ASSUME p # 1, NEW i \in 1 .. Len(b) PROVE At(d, i) = At(b, i)
  <2>1. 2 <= Len(b)
    BY <1>1, <1>7
  <2>2. TR(d)[i] = TR(b)[i]
    <3> DEFINE s == [true_range(b) EXCEPT ![1] = NaN]
               t == [true_range(d) EXCEPT ![1] = NaN]
    <3>1. /\ s \in Seq(Value) /\ Len(s) = Len(b)
          /\ \A k \in 1 .. Len(b) : s[k] = IF k = 1 THEN NaN ELSE true_range(b)[k]
      BY <1>1, LaterRanges
    <3>2. /\ t \in Seq(Value) /\ Len(t) = Len(d)
          /\ \A k \in 1 .. Len(d) : t[k] = IF k = 1 THEN NaN ELSE true_range(d)[k]
      BY <1>1, LaterRanges
    <3>3. \A k \in 1 .. Len(b) : true_range(d)[k] = true_range(b)[k]
      <4>1. Len(true_range(b)) = Len(b)
        BY TrueRangeIsNat
      <4> QED BY <4>1, RangesGoOn DEF GoesOn
    <3> HIDE DEF s, t
    <3>4. GoesOn(s, t) /\ p <= Len(s) /\ i \in 1 .. Len(s)
      BY <1>1, <1>3, <3>1, <3>2, <3>3 DEF GoesOn
    <3>5. wilder_smooth_presma(t, p)[i] = wilder_smooth_presma(s, p)[i]
      BY <3>1, <3>2, <3>4, PresmaIsKept
    <3> QED BY <3>5 DEF s, t
  <2>3. ASSUME NEW up \in BOOLEAN
        PROVE  rma_from_first_valid(DM(d, up), p, 2)[i] = rma_from_first_valid(DM(b, up), p, 2)[i]
    <3> DEFINE s == DM(b, up)
               t == DM(d, up)
               at == 2
    <3>1. s \in Seq(Value) /\ t \in Seq(Value) /\ GoesOn(s, t) /\ Len(s) = Len(b)
      BY MovementsRead, MovementsGoOn
    <3>2. at \in Nat \ {0} /\ at <= Len(b)
      BY <2>1
    <3> HIDE DEF s, t, at
    <3>3. at <= Len(s) /\ i \in 1 .. Len(s)
      BY <3>1, <3>2
    <3>4. rma_from_first_valid(t, p, at)[i] = rma_from_first_valid(s, p, at)[i]
      BY <3>1, <3>2, <3>3, RmaIsKept, Zenon
    <3> QED BY <3>4 DEF s, t, at
  <2>4. Up(d)[i] = Up(b)[i] /\ Down(d)[i] = Down(b)[i]
    BY <2>3
  <2> HIDE DEF TR, Up, Down, Index
  <2> QED BY <2>2, <2>4
<1> HIDE DEF At
<1>8. \A i \in 1 .. Len(b) : DX(d, p)[i] = DX(b, p)[i]
  BY <1>4, <1>5, <1>6, <1>7
<1> QED BY <1>1, <1>2, <1>8 DEF GoesOn

LEMMA AdxIsKept ==
    ASSUME NEW b \in Seq(BarRow), NEW d \in Seq(BarRow), GoesOn(b, d), NEW p \in Nat \ {0},
           p <= Len(b)
    PROVE  \A i \in 1 .. Len(b) : Known(adx(b, p)[i]) => adx(d, p)[i] = adx(b, p)[i]
<1> DEFINE n == Len(b)
           x == DX(b, p)
           y == DX(d, p)
           S == {i \in 1 .. n : Known(x[i])}
           R == {i \in 1 .. Len(d) : Known(y[i])}
<1>1. n \in Nat /\ Len(d) \in Nat /\ n <= Len(d) /\ p <= Len(d)
  BY DEF GoesOn
<1>2. x \in Seq(Value) /\ Len(x) = n /\ y \in Seq(Value) /\ Len(y) = Len(d) /\ GoesOn(x, y)
  BY <1>1, DXWithin, DXGoesOn
<1>3. adx(b, p) = (IF S = {} THEN x ELSE rma_from_first_valid(x, p, Min(S)))
  BY DEF adx
<1>4. adx(d, p) = (IF R = {} THEN y ELSE rma_from_first_valid(y, p, Min(R)))
  BY DEF adx
<1> HIDE DEF x, y
<1>5. \A i \in 1 .. n : i \in 1 .. Len(d) /\ y[i] = x[i]
  BY <1>1, <1>2 DEF GoesOn
<1>6. CASE S = {}
  <2>1. \A i \in 1 .. n : ~Known(adx(b, p)[i])
    BY <1>3, <1>6
  <2> QED BY <2>1
<1>7. CASE S # {}
  <2>1. S \in SUBSET Nat /\ R \in SUBSET Nat
    BY <1>1
  <2>2. S \subseteq R
    BY <1>5
  <2>3. PICK at \in S : at = Min(S) /\ \A j \in S : at <= j
    <3> HIDE DEF S
    <3> QED BY <2>1, <1>7, LeastIsMin
  <2>4. PICK to \in R : to = Min(R) /\ \A j \in R : to <= j
    <3>1. R # {}
      BY <2>2, <1>7
    <3> HIDE DEF R
    <3> QED BY <2>1, <3>1, LeastIsMin
  <2>5. to <= at /\ at \in 1 .. n /\ to \in 1 .. Len(d)
    BY <2>2, <2>3, <2>4
  <2>6. to \in 1 .. n
    BY <2>5, <1>1
  <2>7. to \in S
    BY <2>4, <2>6, <1>5
  <2>8. at <= to
    BY <2>3, <2>7
  <2>9. to = at /\ at \in Nat \ {0} /\ at <= Len(x)
    BY <2>5, <2>6, <2>8, <1>1, <1>2
  <2>10. R # {}
    BY <2>2, <1>7
  <2>11. adx(b, p) = rma_from_first_valid(x, p, at) /\ adx(d, p) = rma_from_first_valid(y, p, at)
    <3> HIDE DEF S, R
    <3> QED BY <1>3, <1>4, <1>7, <2>3, <2>4, <2>9, <2>10
  <2>12. \A i \in 1 .. Len(x) : rma_from_first_valid(y, p, at)[i] = rma_from_first_valid(x, p, at)[i]
    BY <2>9, <1>2, RmaIsKept, Zenon
  <2> QED BY <2>11, <2>12, <1>2
<1> QED BY <1>6, <1>7

\* The closes and the volumes go on as the bars do.
LEMMA ColumnsGoOn ==
    ASSUME NEW b \in Seq(BarRow), NEW d \in Seq(BarRow), GoesOn(b, d)
    PROVE  /\ Closes(b) \in Seq(Nat) /\ Closes(d) \in Seq(Nat)
           /\ Len(Closes(b)) = Len(b) /\ GoesOn(Closes(b), Closes(d))
           /\ Volumes(b) \in Seq(Nat) /\ Volumes(d) \in Seq(Nat)
           /\ Len(Volumes(b)) = Len(b) /\ GoesOn(Volumes(b), Volumes(d))
<1>1. Len(b) \in Nat /\ Len(d) \in Nat /\ Len(b) <= Len(d) /\ \A i \in 1 .. Len(b) : i \in 1 .. Len(d)
  BY DEF GoesOn
<1>2. ASSUME NEW x \in Seq(BarRow)
      PROVE  /\ Closes(x) \in Seq(Nat) /\ Len(Closes(x)) = Len(x)
             /\ Volumes(x) \in Seq(Nat) /\ Len(Volumes(x)) = Len(x)
             /\ \A i \in 1 .. Len(x) : Closes(x)[i] = x[i].c /\ Volumes(x)[i] = x[i].v
  <2>1. Len(x) \in Nat /\ \A i \in 1 .. Len(x) : x[i] \in BarRow
    OBVIOUS
  <2>2. \A i \in 1 .. Len(x) : x[i].c \in Nat /\ x[i].v \in Nat
    BY <2>1 DEF BarRow
  <2>3. Closes(x) = [i \in 1 .. Len(x) |-> x[i].c] /\ Volumes(x) = [i \in 1 .. Len(x) |-> x[i].v]
    BY DEF Closes, Volumes, Column
  <2> QED BY <2>1, <2>2, <2>3
<1>3. \A i \in 1 .. Len(b) : Closes(d)[i] = Closes(b)[i] /\ Volumes(d)[i] = Volumes(b)[i]
  <2> SUFFICES ASSUME NEW i \in 1 .. Len(b)
               PROVE  Closes(d)[i] = Closes(b)[i] /\ Volumes(d)[i] = Volumes(b)[i]
    OBVIOUS
  <2>1. d[i] = b[i] /\ i \in 1 .. Len(d)
    BY <1>1 DEF GoesOn
  <2> QED BY <2>1, <1>2
<1> QED BY <1>1, <1>2, <1>3 DEF GoesOn

\* Whatever the indicator.
LEMMA ValuesAreKept ==
    ASSUME NEW b \in Seq(BarRow), b # <<>>, NEW d \in Seq(BarRow), GoesOn(b, d),
           NEW p \in Nat \ {0}, NEW key \in Keys
    PROVE  \A i \in 1 .. Len(b) :
              Known(Series(key, b, p)[i]) => Series(key, d, p)[i] = Series(key, b, p)[i]
<1> DEFINE c == Closes(b)
           e == Closes(d)
           v == Volumes(b)
           w == Volumes(d)
           Kept(s, t) == \A i \in 1 .. Len(b) : Known(s[i]) => t[i] = s[i]
<1>1. /\ c \in Seq(Nat) /\ e \in Seq(Nat) /\ Len(c) = Len(b) /\ GoesOn(c, e)
      /\ v \in Seq(Nat) /\ w \in Seq(Nat) /\ Len(v) = Len(b) /\ GoesOn(v, w)
  BY ColumnsGoOn
<1> HIDE DEF c, e, v, w
<1>2. c \in Seq(Int) /\ e \in Seq(Int) /\ v \in Seq(Int) /\ w \in Seq(Int) /\ c # <<>>
  <2>1. Len(b) # 0
    OBVIOUS
  <2>2. c # <<>>
    BY <2>1, <1>1
  <2>3. ASSUME NEW q \in Seq(Nat) PROVE q \in Seq(Int)
    OBVIOUS
  <2> QED BY <2>2, <2>3, <1>1, Zenon
<1>3. Len(b) \in Nat /\ Len(d) \in Nat /\ Len(b) <= Len(d)
  BY DEF GoesOn
<1>4. CASE key = "rsi"
  <2>1. Kept(rsi(c, p), rsi(e, p))
    BY <1>1, <1>2, RsiIsKept
  <2> QED BY <2>1, <1>4 DEF Series, c, e
<1>5. CASE key = "ema"
  <2>1. Kept(ema(c, p), ema(e, p))
    BY <1>1, <1>2, EmaIsKept
  <2> QED BY <2>1, <1>5 DEF Series, c, e
<1>6. CASE key = "sma"
  <2>1. Kept(sma(c, p), sma(e, p))
    BY <1>1, <1>2, SmaIsKept
  <2> QED BY <2>1, <1>6 DEF Series, c, e
<1>7. CASE key = "vwap"
  <2>1. Kept(vwap(b), vwap(d))
    BY VwapIsKept
  <2> QED BY <2>1, <1>7 DEF Series
<1>8. CASE key = "atr"
  <2>1. CASE Len(b) < p
    <3>1. Series(key, b, p) = [i \in 1 .. Len(b) |-> NaN]
      BY <2>1, <1>8 DEF Series
    <3>2. \A i \in 1 .. Len(b) : ~Known(Series(key, b, p)[i])
      BY <3>1 DEF Known
    <3> QED BY <3>2
  <2>2. CASE ~(Len(b) < p)
    <3>1. p <= Len(b) /\ ~(Len(d) < p)
      BY <2>2, <1>3
    <3>2. Kept(atr(b, p), atr(d, p))
      BY <3>1, AtrIsKept
    <3>3. Series(key, b, p) = atr(b, p) /\ Series(key, d, p) = atr(d, p)
      BY <2>2, <3>1, <1>8 DEF Series
    <3> QED BY <3>2, <3>3
  <2> QED BY <2>1, <2>2
<1>9. CASE key = "adx"
  <2>1. CASE Len(b) < p
    <3>1. Series(key, b, p) = [i \in 1 .. Len(b) |-> NaN]
      BY <2>1, <1>9 DEF Series
    <3>2. \A i \in 1 .. Len(b) : ~Known(Series(key, b, p)[i])
      BY <3>1 DEF Known
    <3> QED BY <3>2
  <2>2. CASE ~(Len(b) < p)
    <3>1. p <= Len(b) /\ ~(Len(d) < p)
      BY <2>2, <1>3
    <3>2. Kept(adx(b, p), adx(d, p))
      BY <3>1, AdxIsKept
    <3>3. Series(key, b, p) = adx(b, p) /\ Series(key, d, p) = adx(d, p)
      BY <2>2, <3>1, <1>9 DEF Series
    <3> QED BY <3>2, <3>3
  <2> QED BY <2>1, <2>2
<1>10. CASE key = "rel_volume"
  <2>1. Kept(rel_volume(v, p), rel_volume(w, p))
    BY <1>1, <1>2, VolumeIsKept
  <2> QED BY <2>1, <1>10 DEF Series, v, w
<1>11. CASE key = "gap_pct"
  <2>1. Kept(gap_pct(b), gap_pct(d))
    BY GapIsKept
  <2> QED BY <2>1, <1>11 DEF Series
<1> QED BY <1>4, <1>5, <1>6, <1>7, <1>8, <1>9, <1>10, <1>11 DEF Keys

\* The session of a history that goes on within its day.
LEMMA SessionGoesOn ==
    ASSUME NEW b, History(b), NEW d, History(d), GoesOn(b, d), DayOf(Last(d)) = DayOf(Last(b))
    PROVE  GoesOn(latest_session(b), latest_session(d))
<1> DEFINE n == Len(b)
           m == Len(d)
           S == {i \in 1 .. n : DayOf(b[i]) = DayOf(Last(b))}
           R == {i \in 1 .. m : DayOf(d[i]) = DayOf(Last(d))}
<1>1. n \in Nat \ {0} /\ m \in Nat \ {0} /\ n <= m /\ \A i \in 1 .. n : i \in 1 .. m /\ d[i] = b[i]
  <2>1. n \in Nat \ {0} /\ m \in Nat \ {0} /\ n <= m
    BY BarValues DEF GoesOn
  <2>2. \A i \in 1 .. n : i \in 1 .. m
    BY <2>1
  <2> QED BY <2>1, <2>2 DEF GoesOn
<1>2. PICK a \in 1 .. n : S = a .. n
  BY SessionIsTail
<1>3. PICK e \in 1 .. m : R = e .. m
  BY SessionIsTail
<1>4. \A i \in 1 .. n : i \in S <=> i \in R
  BY <1>1
<1>5. b \in Seq(BarRow) /\ d \in Seq(BarRow)
  BY DEF History
<1>6. MembersAt(b, a .. n) = [r \in 1 .. n - a + 1 |-> b[a + r - 1]]
  BY <1>5, TailMembers
<1>7. MembersAt(d, e .. m) = [r \in 1 .. m - e + 1 |-> d[e + r - 1]]
  BY <1>5, TailMembers
<1>8. latest_session(b) = MembersAt(b, S) /\ latest_session(d) = MembersAt(d, R)
  BY DEF latest_session
<1> HIDE DEF S, R, n, m
<1>9. e = a
  <2>1. a \in a .. n /\ e \in e .. m
    BY <1>1
  <2>2. a \in e .. m
    BY <2>1, <1>2, <1>3, <1>4
  <2>3. e <= a /\ e \in 1 .. n
    BY <2>2, <1>1
  <2>4. e \in a .. n
    BY <2>1, <2>3, <1>2, <1>3, <1>4
  <2> QED BY <2>3, <2>4, <1>1
<1> DEFINE s == [r \in 1 .. n - a + 1 |-> b[a + r - 1]]
           t == [r \in 1 .. m - a + 1 |-> d[a + r - 1]]
<1>10. n - a + 1 \in Nat /\ m - a + 1 \in Nat /\ n - a + 1 <= m - a + 1
  BY <1>1
<1>11. Len(s) = n - a + 1 /\ Len(t) = m - a + 1
  BY <1>10
<1>12. ASSUME NEW r \in 1 .. n - a + 1 PROVE t[r] = s[r]
  <2>1. a + r - 1 \in 1 .. n /\ r \in 1 .. m - a + 1
    BY <1>1
  <2>2. d[a + r - 1] = b[a + r - 1]
    BY <2>1, <1>1
  <2> QED BY <2>1, <2>2
<1>13. latest_session(b) = s /\ latest_session(d) = t
  BY <1>2, <1>3, <1>6, <1>7, <1>8, <1>9
<1> HIDE DEF s, t
<1> QED BY <1>10, <1>11, <1>12, <1>13 DEF GoesOn

\* ORB names the breakout it named before.
LEMMA OrbIsKept ==
    ASSUME NEW b, History(b), NEW d, History(d), GoesOn(b, d), DayOf(Last(d)) = DayOf(Last(b))
    PROVE  orb(b) \subseteq orb(d)
<1> DEFINE s == latest_session(b)
           t == latest_session(d)
           k == P.or_bars
           High(x) == Largest(Highs(SubSeq(x, 1, k)))
           Low(x) == Smallest(Lows(SubSeq(x, 1, k)))
           Ratios(x) == rel_volume(Volumes(x), k)
           Out(x, i, h, l) == x[i].c > h \/ x[i].c < l
           Confirmed(rv, i) == Known(rv[i]) /\ rv[i] >= P.min_rel_volume
           Breaks(x, h, l, rv) == {i \in k + 1 .. Len(x) : Confirmed(rv, i) /\ Out(x, i, h, l)}
           Told(bar, h, l) == IF bar.c > h THEN {Signal(bar, "long", l, rr_target(bar.c, l, "long", P.rr))}
                              ELSE {Signal(bar, "short", h, rr_target(bar.c, h, "short", P.rr))}
           B == Breaks(s, High(s), Low(s), Ratios(s))
           R == Breaks(t, High(t), Low(t), Ratios(t))
<1>1. orb(b) = IF Len(s) <= k \/ B = {} THEN {} ELSE Told(s[Min(B)], High(s), Low(s))
  BY DEF orb
<1>2. orb(d) = IF Len(t) <= k \/ R = {} THEN {} ELSE Told(t[Min(R)], High(t), Low(t))
  BY DEF orb
<1>3. s \in Seq(BarRow) /\ t \in Seq(BarRow) /\ GoesOn(s, t)
  BY SessionIsOfDay, SessionGoesOn
<1>4. k \in Nat \ {0}
  BY Parameters
<1> HIDE DEF s, t, k
<1>5. Len(s) \in Nat /\ Len(t) \in Nat /\ Len(s) <= Len(t)
  BY <1>3 DEF GoesOn
<1>6. \A i \in 1 .. Len(s) : t[i] = s[i] /\ Ratios(t)[i] = Ratios(s)[i]
  <2>1. /\ Volumes(s) \in Seq(Nat) /\ Volumes(t) \in Seq(Nat) /\ Len(Volumes(s)) = Len(s)
        /\ GoesOn(Volumes(s), Volumes(t))
    BY <1>3, ColumnsGoOn
  <2> DEFINE v == Volumes(s)
             w == Volumes(t)
  <2>2. v \in Seq(Int) /\ w \in Seq(Int) /\ Len(v) = Len(s) /\ GoesOn(v, w)
    BY <2>1
  <2> HIDE DEF v, w
  <2>3. \A i \in 1 .. Len(s) : rel_volume(w, k)[i] = rel_volume(v, k)[i]
    BY <2>2, <1>4, VolumeIsKept
  <2> QED BY <2>3, <1>3 DEF v, w, GoesOn
<1>7. CASE Len(s) <= k \/ B = {}
  BY <1>1, <1>7
<1>8. CASE ~(Len(s) <= k \/ B = {})
  <2>1. SubSeq(s, 1, k) = SubSeq(t, 1, k)
    <3> DEFINE a == 1
               X == BarRow
    <3>1. s \in Seq(X) /\ t \in Seq(X) /\ a \in Nat \ {0} /\ a <= k /\ k \in Nat /\ k <= Len(s)
      BY <1>3, <1>4, <1>5, <1>8
    <3> HIDE DEF a, X
    <3>2. SubSeq(s, a, k) = SubSeq(t, a, k)
      BY <3>1, <1>3, StretchOfPrefix, Zenon
    <3> QED BY <3>2 DEF a
  <2>2. High(t) = High(s) /\ Low(t) = Low(s)
    BY <2>1
  <2> HIDE DEF High, Low, Ratios
  <2>3. \A i \in k + 1 .. Len(s) : i \in 1 .. Len(s) /\ i \in k + 1 .. Len(t)
    BY <1>4, <1>5
  <2>4. \A i \in 1 .. Len(s) : i \in B <=> i \in R
    <3>1. \A i \in 1 .. Len(s) : i \in k + 1 .. Len(s) <=> i \in k + 1 .. Len(t)
      BY <1>4, <1>5
    <3>2. ASSUME NEW i \in 1 .. Len(s)
          PROVE  /\ Confirmed(Ratios(t), i) <=> Confirmed(Ratios(s), i)
                 /\ Out(t, i, High(t), Low(t)) <=> Out(s, i, High(s), Low(s))
      BY <1>6, <2>2
    <3> HIDE DEF Confirmed, Out
    <3> QED BY <3>1, <3>2
  <2>5. B \in SUBSET (1 .. Len(s)) /\ B \in SUBSET Nat /\ R \in SUBSET Nat /\ R \in SUBSET (1 .. Len(t))
    BY <1>4, <1>5
  <2> HIDE DEF B, R
  <2>6. B # {} /\ B \subseteq R
    BY <1>8, <2>4, <2>5
  <2>7. PICK at \in B : at = Min(B) /\ \A j \in B : at <= j
    BY <2>5, <2>6, LeastIsMin
  <2>8. PICK to \in R : to = Min(R) /\ \A j \in R : to <= j
    <3>1. R # {}
      BY <2>6
    <3> QED BY <3>1, <2>5, LeastIsMin
  <2>9. to <= at /\ at \in 1 .. Len(s) /\ to \in 1 .. Len(t)
    BY <2>5, <2>6, <2>7, <2>8
  <2>10. to \in 1 .. Len(s)
    BY <2>9, <1>5
  <2>11. at <= to
    BY <2>4, <2>7, <2>8, <2>10
  <2>12. to = at /\ t[at] = s[at] /\ ~(Len(t) <= k) /\ R # {}
    <3>1. to = at
      BY <2>9, <2>10, <2>11
    <3>2. ~(Len(t) <= k)
      BY <1>4, <1>5, <1>8
    <3> QED BY <3>1, <3>2, <2>6, <2>9, <1>6
  <2> HIDE DEF Told
  <2>13. orb(b) = Told(s[at], High(s), Low(s))
    BY <1>1, <1>8, <2>7
  <2>14. orb(d) = Told(s[at], High(s), Low(s))
    BY <1>2, <2>2, <2>8, <2>12
  <2> QED BY <2>13, <2>14
<1> QED BY <1>7, <1>8

\* A frame that holds the session gives ORB what all of history does.
LEMMA OrbOfFrame ==
    ASSUME NEW b, History(b), Len(latest_session(b)) <= P.history
    PROVE  orb(Frame(b)) = orb(b)
<1>1. latest_session(Frame(b)) = latest_session(b)
  BY Parameters, SessionIsSeen DEF Frame
<1> QED BY <1>1 DEF orb

\* indicators.py, orb.py:9-15: whatever the periods and the bars, and however
\* many bars there are, a bar that arrives changes no value an indicator had and,
\* while the worker's frame holds the session, no breakout ORB named in it.
THEOREM PastStaysAsItWas == Spec => PastIsKept
<1>1. ASSUME BarsInv, BarsInv', [Next]_vars PROVE [Causal /\ OrbKeepsItsBreakout]_vars
  <2>1. CASE UNCHANGED vars
    BY <2>1
  <2>2. ASSUME NEW s \in Shapes, NEW skipped \in {0, 1}, CloseBar(s, skipped)
        PROVE  Causal /\ OrbKeepsItsBreakout
    <3> DEFINE r == NewBar(s, skipped)
    <3>1. bars' = Append(bars, r)
      BY <2>2 DEF CloseBar, NewBar
    <3>2. r \in BarRow /\ bars \in Seq(BarRow) /\ bars' \in Seq(BarRow)
      BY <1>1, NewBarIsRow DEF BarsInv
    <3> HIDE DEF r
    <3>3. Len(bars) \in Nat /\ Len(bars') = Len(bars) + 1
          /\ \A i \in 1 .. Len(bars) : bars'[i] = bars[i]
      BY <3>1, <3>2
    <3>4. GoesOn(bars, bars') /\ bars' # <<>>
      BY <3>2, <3>3 DEF GoesOn
    <3>5. Causal
      <4> SUFFICES ASSUME NEW key \in Keys, NEW i \in 1 .. Len(bars),
                          Known(Series(key, bars, P.rsi_period)[i])
                   PROVE  Series(key, bars', P.rsi_period)[i] = Series(key, bars, P.rsi_period)[i]
        BY DEF Causal
      <4>1. bars # <<>> /\ P.rsi_period \in Nat \ {0}
        BY PresetsAssumption
      <4> QED BY <4>1, <3>2, <3>4, ValuesAreKept
    <3>6. OrbKeepsItsBreakout
      <4> SUFFICES ASSUME Full, DayOf(Last(bars')) = DayOf(Now),
                          Len(latest_session(bars')) <= P.history
                   PROVE  orb(Frame(bars)) \subseteq orb(Frame(bars'))
        BY DEF OrbKeepsItsBreakout
      <4>1. History(bars)
        BY <1>1 DEF BarsInv, History, Full
      <4>2. History(bars')
        BY <1>1, <3>4 DEF BarsInv, History
      <4>3. orb(bars) \subseteq orb(bars')
        BY <4>1, <4>2, <3>4, OrbIsKept DEF Now
      <4>4. Len(latest_session(bars)) <= Len(latest_session(bars'))
        BY <4>1, <4>2, <3>4, SessionGoesOn DEF GoesOn, Now
      <4>5. Len(latest_session(bars)) \in Nat /\ Len(latest_session(bars')) \in Nat /\ P.history \in Nat
        <5>1. latest_session(bars) \in Seq(BarRow)
          BY <4>1, SessionIsOfDay
        <5>2. latest_session(bars') \in Seq(BarRow)
          BY <4>2, SessionIsOfDay
        <5>3. P.history \in Nat
          BY Parameters
        <5> QED BY <5>1, <5>2, <5>3
      <4>6. orb(Frame(bars)) = orb(bars)
        BY <4>1, <4>4, <4>5, OrbOfFrame
      <4>7. orb(Frame(bars')) = orb(bars')
        BY <4>2, OrbOfFrame
      <4> QED BY <4>3, <4>6, <4>7
    <3> QED BY <3>5, <3>6
  <2> QED BY <1>1, <2>1, <2>2 DEF Next
<1>2. BarsInv /\ [Next]_vars => BarsInv'
  BY BarsInvStep
<1> QED BY <1>1, <1>2, BarsInvariant, PTL DEF Spec, PastIsKept

-----------------------------------------------------------------------------
(* The walk that resolves signals into trades.                              *)

\* What a preset may emit, and what a walk starts with.
Emitted == {s \in Signals :
              /\ 0 < s.ref_entry
              /\ s.direction = "long" => s.ref_sl <= s.ref_entry /\ s.ref_entry <= s.ref_tp
              /\ s.direction = "short" => s.ref_tp <= s.ref_entry /\ s.ref_entry <= s.ref_sl}
AnySignal == Emitted \cup {NoSignal}
Trade == [entry : Nat \ {0}, exit : Nat, signal : Emitted, reason : {"tp", "sl"}]
Walk == [open : BOOLEAN, entry : Nat, signal : AnySignal, trades : Seq(Trade)]

\* A bar reaches the stop, or the target, of a signal.
StopAt(bar, s) == IF s.direction = "long" THEN bar.l <= s.ref_sl ELSE bar.h >= s.ref_sl
WinAt(bar, s) == IF s.direction = "long" THEN bar.h >= s.ref_tp ELSE bar.l <= s.ref_tp
Reach(b, s, from, to) == {j \in from .. to : StopAt(b[j], s) \/ WinAt(b[j], s)}

\* A closed trade of a walk over b, the end of its own bars.
ClosedWell(t, b) ==
    /\ t.entry < t.exit /\ t.exit <= Len(b)
    /\ Reach(b, t.signal, t.entry + 1, t.exit) = {t.exit}
    /\ t.reason = "sl" <=> StopAt(b[t.exit], t.signal)

WalkSound(w, b) ==
    /\ w \in Walk /\ w.entry <= Len(b)
    /\ \A k \in 1 .. Len(w.trades) : ClosedWell(w.trades[k], b)
    /\ \A k \in 1 .. Len(w.trades) : k > 1 => w.trades[k - 1].exit < w.trades[k].entry
    /\ w.open => /\ \A k \in 1 .. Len(w.trades) : w.trades[k].exit < w.entry
                 /\ Reach(b, w.signal, w.entry + 1, Len(b)) = {}
                 /\ w.entry # 0 /\ w.signal \in Emitted /\ w.signal.ts = b[w.entry].ts

\* What bars reached does not change when another one follows.
LEMMA ReachIsKept ==
    ASSUME NEW b \in Seq(BarRow), NEW r \in BarRow, NEW s, NEW from \in Nat \ {0},
           NEW to \in Nat, to <= Len(b)
    PROVE  Reach(Append(b, r), s, from, to) = Reach(b, s, from, to)
<1>1. \A j \in from .. to : Append(b, r)[j] = b[j]
  OBVIOUS
<1> QED BY <1>1 DEF Reach

LEMMA ReachGrows ==
    ASSUME NEW b \in Seq(BarRow), NEW r \in BarRow, NEW s, NEW from \in Nat \ {0},
           from <= Len(b) + 1, Reach(b, s, from, Len(b)) = {}
    PROVE  /\ ~StopAt(r, s) /\ ~WinAt(r, s) => Reach(Append(b, r), s, from, Len(b) + 1) = {}
           /\ StopAt(r, s) \/ WinAt(r, s) => Reach(Append(b, r), s, from, Len(b) + 1) = {Len(b) + 1}
<1>1. Append(b, r)[Len(b) + 1] = r /\ Len(b) \in Nat
  OBVIOUS
<1>2. \A j \in from .. Len(b) : Append(b, r)[j] = b[j]
  OBVIOUS
<1>3. from .. Len(b) + 1 = (from .. Len(b)) \cup {Len(b) + 1}
  BY <1>1
<1>4. \A j \in from .. Len(b) : ~StopAt(b[j], s) /\ ~WinAt(b[j], s)
  BY DEF Reach
<1> DEFINE m == Len(b) + 1
<1> HIDE DEF m
<1> QED BY <1>1, <1>2, <1>3, <1>4 DEF Reach, m

LEMMA TouchesReads ==
    ASSUME NEW bar, NEW s
    PROVE  /\ Touches(bar, s) \in {"sl", "tp", "none"}
           /\ Touches(bar, s) = "none" <=> ~StopAt(bar, s) /\ ~WinAt(bar, s)
           /\ Touches(bar, s) = "sl" <=> StopAt(bar, s)
  BY DEF Touches, StopAt, WinAt

LEMMA ClosedWellIsKept ==
    ASSUME NEW b \in Seq(BarRow), NEW r \in BarRow, NEW t \in Trade, ClosedWell(t, b)
    PROVE  ClosedWell(t, Append(b, r))
<1>1. t.entry \in Nat /\ t.exit \in Nat /\ t.entry < t.exit /\ t.exit <= Len(b)
  BY DEF Trade, ClosedWell
<1>2. Len(Append(b, r)) = Len(b) + 1 /\ Len(b) \in Nat
  OBVIOUS
<1>3. Append(b, r)[t.exit] = b[t.exit]
  BY <1>1, <1>2
<1>4. t.exit <= Len(Append(b, r))
  BY <1>1, <1>2
<1>5. Reach(Append(b, r), t.signal, t.entry + 1, t.exit) = Reach(b, t.signal, t.entry + 1, t.exit)
  BY <1>1, ReachIsKept
<1> HIDE DEF Reach
<1> QED BY <1>1, <1>3, <1>4, <1>5 DEF ClosedWell

\* A step of the walk that leaves it as it is.
LEMMA WalkWaits ==
    ASSUME NEW b \in Seq(BarRow), NEW r \in BarRow, NEW w, WalkSound(w, b),
           w.open => ~StopAt(r, w.signal) /\ ~WinAt(r, w.signal)
    PROVE  WalkSound(w, Append(b, r))
<1> DEFINE c == Append(b, r)
<1>1. Len(c) = Len(b) + 1 /\ Len(b) \in Nat
  OBVIOUS
<1>2. /\ w \in Walk /\ w.entry \in Nat /\ w.trades \in Seq(Trade) /\ w.entry <= Len(b)
      /\ \A k \in 1 .. Len(w.trades) : w.trades[k] \in Trade
  BY DEF WalkSound, Walk
<1>3. \A k \in 1 .. Len(w.trades) : ClosedWell(w.trades[k], c)
  BY <1>2, ClosedWellIsKept DEF WalkSound
<1>4. ASSUME w.open PROVE Reach(c, w.signal, w.entry + 1, Len(c)) = {}
  <2>1. Reach(b, w.signal, w.entry + 1, Len(b)) = {}
    BY <1>4 DEF WalkSound
  <2>2. Reach(c, w.signal, w.entry + 1, Len(b) + 1) = {}
    <3>1. w.entry + 1 \in Nat \ {0} /\ w.entry + 1 <= Len(b) + 1
      BY <1>1, <1>2
    <3> QED BY <2>1, <3>1, <1>4, ReachGrows
  <2> QED BY <2>2, <1>1
<1>5. w.entry <= Len(c)
  BY <1>1, <1>2
<1>6. ASSUME w.open
      PROVE  w.entry # 0 /\ w.signal \in Emitted /\ w.signal.ts = c[w.entry].ts
  <2>1. w.entry # 0 /\ w.signal \in Emitted /\ w.signal.ts = b[w.entry].ts
    BY <1>6 DEF WalkSound
  <2>2. c[w.entry] = b[w.entry]
    BY <2>1, <1>2
  <2> QED BY <2>1, <2>2
<1> HIDE DEF c
<1> QED BY <1>2, <1>3, <1>4, <1>5, <1>6 DEF WalkSound, c

\* The walk w after bar m closes its trade, or opens one.
WithClosed(w, m, reason) ==
    [w EXCEPT !.open = FALSE,
              !.trades = Append(@, [entry |-> w.entry, exit |-> m, signal |-> w.signal, reason |-> reason])]
WithOpened(w, m, s) == [w EXCEPT !.open = TRUE, !.entry = m, !.signal = s]

\* A bar that touches a level closes the trade.
LEMMA WalkCloses ==
    ASSUME NEW b \in Seq(BarRow), NEW r \in BarRow, NEW w, WalkSound(w, b), w.open,
           NEW reason \in {"tp", "sl"}, reason = Touches(r, w.signal)
    PROVE  WalkSound(WithClosed(w, Len(b) + 1, reason), Append(b, r))
<1> DEFINE c == Append(b, r)
           t == [entry |-> w.entry, exit |-> Len(b) + 1, signal |-> w.signal, reason |-> reason]
           v == WithClosed(w, Len(b) + 1, reason)
<1>1. Len(c) = Len(b) + 1 /\ Len(b) \in Nat /\ c[Len(b) + 1] = r
  OBVIOUS
<1>2. /\ w \in Walk /\ w.entry \in Nat /\ w.trades \in Seq(Trade) /\ w.entry <= Len(b)
      /\ w.signal \in Emitted /\ w.entry # 0
      /\ \A k \in 1 .. Len(w.trades) : w.trades[k] \in Trade
  BY DEF WalkSound, Walk
<1>3. t \in Trade /\ t.entry = w.entry /\ t.exit = Len(b) + 1 /\ t.signal = w.signal /\ t.reason = reason
  BY <1>1, <1>2 DEF Trade
<1>4. StopAt(r, w.signal) \/ WinAt(r, w.signal)
  BY TouchesReads
<1>5. reason = "sl" <=> StopAt(r, w.signal)
  BY TouchesReads
<1>6. ClosedWell(t, c)
  <2>1. Reach(b, w.signal, w.entry + 1, Len(b)) = {}
    BY DEF WalkSound
  <2>2. Reach(c, w.signal, w.entry + 1, Len(b) + 1) = {Len(b) + 1}
    <3>1. w.entry + 1 \in Nat \ {0} /\ w.entry + 1 <= Len(b) + 1
      BY <1>1, <1>2
    <3> QED BY <2>1, <3>1, <1>4, ReachGrows
  <2>3. t.entry < t.exit /\ t.exit <= Len(c)
    BY <1>1, <1>2, <1>3
  <2>4. t.reason = "sl" <=> StopAt(c[t.exit], t.signal)
    BY <1>1, <1>3, <1>5
  <2> HIDE DEF t, c
  <2> QED BY <2>2, <2>3, <2>4, <1>3 DEF ClosedWell
<1> HIDE DEF t
<1>7. /\ v \in Walk /\ v.open = FALSE /\ v.entry = w.entry /\ v.trades = Append(w.trades, t)
  <2>1. Append(w.trades, t) \in Seq(Trade)
    BY <1>2, <1>3
  <2>2. v = [w EXCEPT !.open = FALSE, !.trades = Append(w.trades, t)]
    BY <1>2 DEF Walk, WithClosed, t
  <2> HIDE DEF v
  <2> QED BY <2>1, <2>2, <1>2 DEF Walk
<1> HIDE DEF v
<1>8. /\ Len(v.trades) = Len(w.trades) + 1 /\ Len(w.trades) \in Nat
      /\ v.trades[Len(w.trades) + 1] = t
      /\ \A k \in 1 .. Len(w.trades) : v.trades[k] = w.trades[k]
  BY <1>2, <1>3, <1>7
<1>9. \A k \in 1 .. Len(w.trades) : ClosedWell(w.trades[k], c)
  BY <1>2, ClosedWellIsKept DEF WalkSound
<1>10. \A k \in 1 .. Len(v.trades) : ClosedWell(v.trades[k], c)
  <2> SUFFICES ASSUME NEW k \in 1 .. Len(v.trades) PROVE ClosedWell(v.trades[k], c)
    OBVIOUS
  <2>1. k \in 1 .. Len(w.trades) \/ k = Len(w.trades) + 1
    BY <1>8
  <2> HIDE DEF c
  <2> QED BY <2>1, <1>6, <1>8, <1>9
<1>11. ASSUME NEW k \in 1 .. Len(v.trades), k > 1
       PROVE  v.trades[k - 1].exit < v.trades[k].entry
  <2>1. k - 1 \in 1 .. Len(w.trades) /\ v.trades[k - 1] = w.trades[k - 1]
    <3>1. PICK m \in Nat, l \in Nat : m = Len(w.trades) /\ l = Len(v.trades) /\ l = m + 1
      BY <1>8
    <3>2. k - 1 \in 1 .. m
      BY <3>1, <1>11
    <3> QED BY <3>1, <3>2, <1>8
  <2>2. CASE k \in 1 .. Len(w.trades)
    BY <2>1, <2>2, <1>8, <1>11 DEF WalkSound
  <2>3. CASE k = Len(w.trades) + 1
    <3>1. w.trades[k - 1].exit < w.entry
      BY <2>1 DEF WalkSound
    <3> QED BY <3>1, <2>1, <2>3, <1>3, <1>8
  <2> QED BY <2>2, <2>3, <1>8
<1>12. v.entry <= Len(c)
  BY <1>1, <1>2, <1>7
<1> HIDE DEF c
<1>13. WalkSound(v, c)
  BY <1>7, <1>10, <1>11, <1>12 DEF WalkSound
<1> QED BY <1>13 DEF v, c

\* A flat walk opens at a fresh signal.
LEMMA WalkOpens ==
    ASSUME NEW b \in Seq(BarRow), NEW r \in BarRow, NEW w, WalkSound(w, b), ~w.open,
           NEW s \in Emitted, s.ts = r.ts
    PROVE  WalkSound(WithOpened(w, Len(b) + 1, s), Append(b, r))
<1> DEFINE c == Append(b, r)
           v == WithOpened(w, Len(b) + 1, s)
<1>1. Len(c) = Len(b) + 1 /\ Len(b) \in Nat
  OBVIOUS
<1>2. /\ w \in Walk /\ w.trades \in Seq(Trade)
      /\ \A k \in 1 .. Len(w.trades) : w.trades[k] \in Trade
  BY DEF WalkSound, Walk
<1>3. v \in Walk /\ v.open = TRUE /\ v.entry = Len(b) + 1 /\ v.signal = s /\ v.trades = w.trades
  <2>1. s \in AnySignal /\ Len(b) + 1 \in Nat
    BY <1>1 DEF AnySignal
  <2> QED BY <2>1, <1>2 DEF Walk, WithOpened
<1> HIDE DEF v
<1>4. \A k \in 1 .. Len(w.trades) : ClosedWell(w.trades[k], c)
  BY <1>2, ClosedWellIsKept DEF WalkSound
<1>5. \A k \in 1 .. Len(w.trades) : w.trades[k].exit < v.entry
  <2> SUFFICES ASSUME NEW k \in 1 .. Len(w.trades) PROVE w.trades[k].exit < v.entry
    OBVIOUS
  <2>1. w.trades[k].exit <= Len(b)
    BY DEF WalkSound, ClosedWell
  <2>2. w.trades[k].exit \in Nat
    BY <1>2 DEF Trade
  <2> QED BY <2>1, <2>2, <1>1, <1>3
<1>6. Reach(c, v.signal, v.entry + 1, Len(c)) = {}
  <2>1. (v.entry + 1) .. Len(c) = {}
    BY <1>1, <1>3
  <2> QED BY <2>1 DEF Reach
<1>7. v.entry <= Len(c)
  BY <1>1, <1>3
<1>8. \A k \in 1 .. Len(w.trades) : k > 1 => w.trades[k - 1].exit < w.trades[k].entry
  BY DEF WalkSound
<1>9. v.entry # 0 /\ v.signal \in Emitted /\ v.signal.ts = c[v.entry].ts
  BY <1>1, <1>3
<1> HIDE DEF c
<1>10. WalkSound(v, c)
  BY <1>3, <1>4, <1>5, <1>6, <1>7, <1>8, <1>9 DEF WalkSound
<1> QED BY <1>10 DEF v, c

LEMMA WalkBarKeeps ==
    ASSUME NEW n \in Names, NEW b \in Seq(BarRow), NEW r \in BarRow, NEW w, WalkSound(w, b),
           History(Append(b, r))
    PROVE  WalkSound(WalkBar(n, Append(b, r), WalkWindow, w), Append(b, r))
<1> DEFINE c == Append(b, r)
           reason == Touches(r, w.signal)
           fresh == Fresh(n, c, WalkWindow)
<1>1. Len(c) = Len(b) + 1 /\ Last(c) = r /\ c \in Seq(BarRow)
  BY DEF Last
<1>2. CASE w.open /\ reason = "none"
  <2>1. WalkBar(n, c, WalkWindow, w) = w
    BY <1>1, <1>2 DEF WalkBar
  <2> QED BY <2>1, <1>2, TouchesReads, WalkWaits
<1>3. CASE w.open /\ reason # "none"
  <2>1. reason \in {"tp", "sl"}
    BY <1>3, TouchesReads
  <2>2. WalkBar(n, c, WalkWindow, w) = WithClosed(w, Len(b) + 1, reason)
    BY <1>1, <1>3 DEF WalkBar, WithClosed
  <2> HIDE DEF reason
  <2>3. w.open /\ reason = Touches(r, w.signal)
    BY <1>3 DEF reason
  <2> QED BY <2>1, <2>2, <2>3, WalkCloses
<1>4. CASE ~w.open /\ fresh = {}
  <2>1. WalkBar(n, c, WalkWindow, w) = w
    BY <1>4 DEF WalkBar
  <2> QED BY <2>1, <1>4, WalkWaits
<1>5. CASE ~w.open /\ fresh # {}
  <2> DEFINE s == CHOOSE x \in fresh : TRUE
  <2>1. WalkBar(n, c, WalkWindow, w) = WithOpened(w, Len(b) + 1, s)
    BY <1>1, <1>5 DEF WalkBar, WithOpened
  <2>2. s \in fresh
    BY <1>5
  <2>3. s \in Emitted /\ s.ts = r.ts
    <3> DEFINE view == Newest(c, WalkWindow)
    <3>1. s \in generate_signals(n, view) /\ s.ts = r.ts
      BY <2>2, <1>1 DEF Fresh
    <3>2. History(view)
      BY WalkWindowIsNat, NewestIsTail
    <3> HIDE DEF s, view
    <3>3. Sound(s, view)
      BY <3>1, <3>2, SignalsAreSound
    <3> QED BY <3>1, <3>3 DEF Emitted, Sound
  <2> HIDE DEF s
  <2> QED BY <2>1, <2>3, <1>5, WalkOpens
<1> QED BY <1>2, <1>3, <1>4, <1>5

WalksInv == BarsInv /\ walk = [n \in Names |-> walk[n]] /\ \A n \in Names : WalkSound(walk[n], bars)

LEMMA WalksInvariant == Spec => []WalksInv
<1>1. Init => WalksInv
  <2> SUFFICES ASSUME Init PROVE WalksInv
    OBVIOUS
  <2>1. bars = <<>> /\ walk = [n \in Names |-> NewWalk]
    BY DEF Init
  <2>2. NewWalk \in Walk /\ NewWalk.open = FALSE /\ NewWalk.trades = <<>> /\ NewWalk.entry = 0
    <3>1. NoSignal \in AnySignal /\ <<>> \in Seq(Trade)
      BY DEF AnySignal
    <3> QED BY <3>1 DEF NewWalk, Walk
  <2>3. WalkSound(NewWalk, bars)
    BY <2>1, <2>2 DEF WalkSound
  <2> QED BY <2>1, <2>3 DEF WalksInv, BarsInv
<1>2. WalksInv /\ [Next]_vars => WalksInv'
  <2> SUFFICES ASSUME WalksInv, [Next]_vars PROVE WalksInv'
    OBVIOUS
  <2>1. BarsInv'
    BY BarsInvStep DEF WalksInv
  <2>2. CASE UNCHANGED vars
    BY <2>1, <2>2 DEF vars, WalksInv
  <2>3. ASSUME NEW s \in Shapes, NEW skipped \in {0, 1}, CloseBar(s, skipped) PROVE WalksInv'
    <3> DEFINE r == NewBar(s, skipped)
    <3>1. bars' = Append(bars, r)
      BY <2>3 DEF CloseBar, NewBar
    <3>2. walk' = [n \in Names |-> WalkBar(n, bars', WalkWindow, walk[n])]
      BY <2>3 DEF CloseBar
    <3>3. r \in BarRow /\ bars \in Seq(BarRow)
      BY NewBarIsRow DEF WalksInv, BarsInv
    <3> HIDE DEF r
    <3>4. \A n \in Names : WalkSound(walk'[n], bars')
      <4>1. History(Append(bars, r))
        BY <2>1, <3>1, <3>3 DEF BarsInv, History
      <4>2. \A n \in Names : WalkSound(WalkBar(n, Append(bars, r), WalkWindow, walk[n]), Append(bars, r))
        BY <3>3, <4>1, WalkBarKeeps DEF WalksInv
      <4> QED BY <3>1, <3>2, <4>2
    <3>5. walk' = [n \in Names |-> walk'[n]]
      BY <3>2
    <3> QED BY <2>1, <3>4, <3>5 DEF WalksInv
  <2> QED BY <2>2, <2>3 DEF Next
<1> QED BY <1>1, <1>2, PTL DEF Spec

\* signal_bridge.py:76-86: whatever the presets emit, on whichever bars: a trade closes at the
\* first bar after its entry that reaches one of its levels, as a loss if that
\* reaches its stop, and trades do not overlap.
THEOREM TradesCloseAtFirstTouch == Spec => []ClosedAtFirstTouch
<1>1. ASSUME WalksInv PROVE ClosedAtFirstTouch
  <2> SUFFICES ASSUME NEW n \in Names
               PROVE  /\ \A k \in 1 .. Len(walk[n].trades) :
                            LET t == walk[n].trades[k]
                            IN /\ Reach(bars, t.signal, t.entry + 1, t.exit) = {t.exit}
                               /\ t.reason = "sl" <=> StopAt(bars[t.exit], t.signal)
                               /\ k > 1 => walk[n].trades[k - 1].exit < t.entry
                      /\ walk[n].open => Reach(bars, walk[n].signal, walk[n].entry + 1, Len(bars)) = {}
    BY DEF ClosedAtFirstTouch, Reach, StopAt, WinAt
  <2>1. WalkSound(walk[n], bars)
    BY <1>1 DEF WalksInv
  <2> QED BY <2>1 DEF WalkSound, ClosedWell
<1> QED BY <1>1, WalksInvariant, PTL
-----------------------------------------------------------------------------
(* What the statistics are made of.                                         *)

\* There is room for the bars there are.
RoomInv == WalksInv /\ (bars # <<>> => bars[Len(bars)].ts < MaxBars)

LEMMA RoomInvariant == Spec => []RoomInv
<1>1. Init => (bars # <<>> => bars[Len(bars)].ts < MaxBars)
  BY DEF Init
<1>2. ASSUME WalksInv, RoomInv, [Next]_vars
      PROVE  (bars # <<>> => bars[Len(bars)].ts < MaxBars)'
  <2>1. CASE UNCHANGED vars
    BY <1>2, <2>1 DEF vars, RoomInv
  <2>2. ASSUME NEW s \in Shapes, NEW skipped \in {0, 1}, CloseBar(s, skipped)
        PROVE  bars'[Len(bars')].ts < MaxBars
    <3> DEFINE r == NewBar(s, skipped)
    <3>1. bars' = Append(bars, r) /\ NextTs + skipped < MaxBars
      BY <2>2 DEF CloseBar, NewBar
    <3>2. r \in BarRow /\ r.ts = NextTs + skipped /\ bars \in Seq(BarRow)
      BY <1>2, NewBarIsRow DEF WalksInv, BarsInv
    <3> HIDE DEF r
    <3>3. bars'[Len(bars')] = r
      BY <3>1, <3>2
    <3> QED BY <3>1, <3>2, <3>3
  <2> QED BY <1>2, <2>1, <2>2 DEF Next
<1>3. WalksInv' /\ (bars # <<>> => bars[Len(bars)].ts < MaxBars)' => RoomInv'
  BY DEF RoomInv
<1>4. WalksInv /\ (bars # <<>> => bars[Len(bars)].ts < MaxBars) => RoomInv
  BY DEF RoomInv
<1>5. RoomInv => (bars # <<>> => bars[Len(bars)].ts < MaxBars)
  BY DEF RoomInv
<1> QED BY <1>1, <1>2, <1>4, <1>5, WalksInvariant, PTL DEF Spec

LEMMA BarsAndWalksTyped ==
    ASSUME RoomInv
    PROVE  TypeOK
<1>1. BarsInv /\ Len(bars) \in Nat
  BY DEF RoomInv, WalksInv, BarsInv
<1>2. Len(bars) <= MaxBars
  <2>1. CASE bars = <<>>
    BY <2>1, HistoryAssumption
  <2>2. CASE bars # <<>>
    <3>1. History(bars)
      BY <1>1, <2>2 DEF BarsInv, History
    <3>2. 1 \in 1 .. Len(bars) /\ Len(bars) \in 1 .. Len(bars)
      BY <3>1, BarValues
    <3>3. /\ bars[1].ts \in Nat /\ bars[Len(bars)].ts \in Nat
          /\ Len(bars) - 1 <= bars[Len(bars)].ts - bars[1].ts
      BY <3>1, <3>2, TimeGoesOn
    <3>4. bars[Len(bars)].ts < MaxBars
      BY <2>2 DEF RoomInv
    <3>5. PICK x \in Nat, y \in Nat, m \in Nat, k \in Nat :
             x = bars[1].ts /\ y = bars[Len(bars)].ts /\ m = MaxBars /\ k = Len(bars)
      BY <1>1, <3>3, HistoryAssumption
    <3>6. k - 1 <= y - x /\ y < m
      BY <3>3, <3>4, <3>5
    <3>7. k <= m
      BY <3>6
    <3> QED BY <3>5, <3>7
  <2> QED BY <2>1, <2>2
<1>3. \A i \in 2 .. Len(bars) : bars[i - 1].ts < bars[i].ts
  <2> SUFFICES ASSUME NEW i \in 2 .. Len(bars) PROVE bars[i - 1].ts < bars[i].ts
    OBVIOUS
  <2>1. i - 1 \in 1 .. Len(bars) /\ i \in 1 .. Len(bars) /\ i - 1 < i
    BY <1>1
  <2> QED BY <2>1, <1>1 DEF BarsInv
<1>4. ASSUME NEW n \in Names
      PROVE  /\ walk[n].open \in BOOLEAN /\ walk[n].entry \in 0 .. Len(bars)
             /\ walk[n].signal \in Signals
             /\ walk[n].open => walk[n].signal.ts = bars[walk[n].entry].ts
             /\ \A k \in 1 .. Len(walk[n].trades) :
                   /\ walk[n].trades[k].reason \in {"tp", "sl"}
                   /\ 0 < walk[n].trades[k].entry /\ walk[n].trades[k].exit <= Len(bars)
  <2> DEFINE w == walk[n]
  <2>1. WalkSound(w, bars)
    BY DEF RoomInv, WalksInv
  <2> HIDE DEF w
  <2>2. w.open \in BOOLEAN /\ w.entry \in Nat /\ w.signal \in AnySignal /\ w.trades \in Seq(Trade)
    BY <2>1 DEF WalkSound, Walk
  <2>3. w.entry \in 0 .. Len(bars)
    BY <2>1, <2>2, <1>1 DEF WalkSound
  <2>4. w.signal \in Signals
    <3>1. NoSignal \in Signals
      BY DEF NoSignal, Signal, Signals
    <3> QED BY <2>2, <3>1 DEF AnySignal, Emitted
  <2>5. w.open => w.signal.ts = bars[w.entry].ts
    BY <2>1 DEF WalkSound
  <2>6. ASSUME NEW k \in 1 .. Len(w.trades)
        PROVE  w.trades[k].reason \in {"tp", "sl"} /\ 0 < w.trades[k].entry /\ w.trades[k].exit <= Len(bars)
    <3>1. w.trades[k] \in Trade
      BY <2>2
    <3>2. w.trades[k].exit <= Len(bars)
      BY <2>1 DEF WalkSound, ClosedWell
    <3>3. w.trades[k].reason \in {"tp", "sl"} /\ w.trades[k].entry \in Nat \ {0}
      BY <3>1 DEF Trade
    <3> QED BY <3>2, <3>3
  <2> QED BY <2>2, <2>3, <2>4, <2>5, <2>6 DEF w
<1> QED BY <1>2, <1>3, <1>4 DEF TypeOK

\* A quotient has the sign of what is divided.
LEMMA QuotientSign ==
    ASSUME NEW x \in Int, NEW y \in Nat \ {0}
    PROVE  x \div y \in Int /\ (0 <= x => 0 <= x \div y) /\ (x <= 0 => x \div y <= 0)
OBVIOUS

\* A trade gains where its target is reached and loses where its stop is.
LEMMA GrossSign ==
    ASSUME NEW t \in Trade
    PROVE  /\ Gross(t) \in Int
           /\ IF t.reason = "tp" THEN Gross(t) >= 0 ELSE Gross(t) <= 0
<1> DEFINE s == t.signal
           gain == IF s.direction = "long" THEN ExitPrice(t) - s.ref_entry
                   ELSE -(ExitPrice(t) - s.ref_entry)
<1>1. s \in Emitted /\ t.reason \in {"tp", "sl"}
  BY DEF Trade
<1>2. /\ s.direction \in {"long", "short"} /\ s.ref_entry \in Int /\ s.ref_sl \in Int /\ s.ref_tp \in Int
      /\ 0 < s.ref_entry
      /\ s.direction = "long" => s.ref_sl <= s.ref_entry /\ s.ref_entry <= s.ref_tp
      /\ s.direction = "short" => s.ref_tp <= s.ref_entry /\ s.ref_entry <= s.ref_sl
  BY <1>1 DEF Emitted, Signals
<1>3. ExitPrice(t) = IF t.reason = "tp" THEN s.ref_tp ELSE s.ref_sl
  BY DEF ExitPrice
<1> HIDE DEF s
<1>4. PICK p \in Int, e \in Nat \ {0} : p = ExitPrice(t) /\ e = s.ref_entry
  BY <1>2, <1>3
<1>5. gain \in Int /\ IF t.reason = "tp" THEN gain >= 0 ELSE gain <= 0
  <2>1. CASE s.direction = "long" /\ t.reason = "tp"
    BY <2>1, <1>2, <1>3
  <2>2. CASE s.direction = "long" /\ t.reason = "sl"
    BY <2>2, <1>2, <1>3
  <2>3. CASE s.direction = "short" /\ t.reason = "tp"
    BY <2>3, <1>2, <1>3
  <2>4. CASE s.direction = "short" /\ t.reason = "sl"
    BY <2>4, <1>2, <1>3
  <2> QED BY <2>1, <2>2, <2>3, <2>4, <1>1, <1>2
<1>6. Gross(t) = (Bps * gain) \div s.ref_entry
  BY DEF Gross, s
<1> HIDE DEF gain
<1>7. PICK g \in Int : g = gain
  BY <1>5
<1>8. PICK x \in Int : x = Bps * g /\ (0 <= g => 0 <= x) /\ (g <= 0 => x <= 0)
  BY DEF Bps
<1>9. Gross(t) = x \div e
  BY <1>4, <1>6, <1>7, <1>8
<1>10. x \div e \in Int /\ (0 <= x => 0 <= x \div e) /\ (x <= 0 => x \div e <= 0)
  BY QuotientSign
<1>11. CASE t.reason = "tp"
  <2>1. 0 <= g
    BY <1>5, <1>7, <1>11
  <2>2. 0 <= x \div e
    BY <2>1, <1>8, <1>10
  <2> QED BY <2>2, <1>9, <1>10, <1>11
<1>12. CASE t.reason # "tp"
  <2>1. g <= 0
    BY <1>5, <1>7, <1>12
  <2>2. x \div e <= 0
    BY <2>1, <1>8, <1>10
  <2> QED BY <2>2, <1>9, <1>10, <1>12
<1> QED BY <1>11, <1>12

\* The capital after each trade.
Compounds(e, w) ==
    e = [k \in 0 .. Len(w.trades) |->
           IF k = 0 THEN Bps ELSE (e[k - 1] * (Bps + Net(w.trades[k]))) \div Bps]

LEMMA LossesAddUp ==
    ASSUME NEW w, w.trades \in Seq(Trade),
           \A k \in 1 .. Len(w.trades) : 0 <= Bps + Net(w.trades[k]) /\ Net(w.trades[k]) <= 0
    PROVE  net_return(w) <= 0
<1> DEFINE n == Len(w.trades)
           e == CHOOSE f : Compounds(f, w)
           X == Int
           Grown(k, x) == (x * (Bps + Net(w.trades[k]))) \div Bps
           step == [k \in 1 .. n |-> [x \in X |-> Grown(k, x)]]
<1>1. n \in Nat /\ \A k \in 1 .. n : w.trades[k] \in Trade
  OBVIOUS
<1>2. \A k \in 1 .. n : Net(w.trades[k]) \in Int
  <2> SUFFICES ASSUME NEW k \in 1 .. n PROVE Net(w.trades[k]) \in Int
    OBVIOUS
  <2>1. PICK g \in Int, a \in Nat, b \in Nat : g = Gross(w.trades[k]) /\ a = Fees /\ b = Slippage
    BY <1>1, GrossSign, BacktestAssumption
  <2>2. g - 2 * (a + b) \in Int
    OBVIOUS
  <2> QED BY <2>1, <2>2 DEF Net
<1>3. ASSUME NEW k \in 1 .. n, NEW x \in Int PROVE Grown(k, x) \in Int
  <2>1. PICK g \in Int : g = Bps + Net(w.trades[k])
    BY <1>2 DEF Bps
  <2>2. PICK y \in Int : y = x * g
    OBVIOUS
  <2>3. y \div Bps \in Int
    BY DEF Bps
  <2> QED BY <2>1, <2>2, <2>3
<1>4. step \in [1 .. n -> [X -> X]] /\ Bps \in X
  <2>1. Bps \in X
    BY DEF Bps
  <2> HIDE DEF Grown
  <2> QED BY <2>1, <1>3
<1>5. \A k \in 1 .. n : \A x \in Int : step[k][x] = Grown(k, x)
  OBVIOUS
<1> HIDE DEF step
<1>6. PICK f : Steps(f, n, X, Bps, step)
  <2> HIDE DEF n, X
  <2> QED BY <1>1, <1>4, RecursionExists
<1>7. f \in [0 .. n -> Int] /\ f[0] = Bps /\ \A k \in 1 .. n : f[k] = step[k][f[k - 1]]
  BY <1>6 DEF Steps
<1>8. Compounds(f, w)
  <2>1. ASSUME NEW k \in 1 .. n PROVE f[k] = Grown(k, f[k - 1])
    <3>1. k - 1 \in 0 .. n
      BY <1>1
    <3>2. f[k - 1] \in Int
      <4> HIDE DEF n
      <4> QED BY <3>1, <1>7
    <3> HIDE DEF Grown
    <3> QED BY <3>2, <1>5, <1>7
  <2>2. \A k \in 0 .. n : k = 0 \/ k \in 1 .. n
    BY <1>1
  <2>3. \A k \in 0 .. n : f[k] = IF k = 0 THEN Bps ELSE Grown(k, f[k - 1])
    <3> HIDE DEF Grown
    <3> QED BY <2>1, <2>2, <1>7
  <2>4. f = [k \in 0 .. n |-> f[k]]
    BY <1>7
  <2> QED BY <2>3, <2>4 DEF Compounds
<1>9. Compounds(e, w)
  BY <1>8
<1>10. Equity(w) = e
  BY DEF Equity, Compounds
<1> HIDE DEF e
<1> DEFINE T == {k \in 0 .. n : e[k] \in Nat /\ e[k] <= Bps}
<1>11. 0 \in T
  <2>1. e[0] = Bps
    BY <1>1, <1>9 DEF Compounds
  <2> QED BY <2>1, <1>1 DEF Bps
<1>12. ASSUME NEW k \in 1 .. n, k - 1 \in T PROVE k \in T
  <2>1. k \in 0 .. n /\ k # 0
    BY <1>1
  <2>2. e[k] = Grown(k, e[k - 1])
    BY <2>1, <1>9 DEF Compounds
  <2>3. PICK x \in Nat : x = e[k - 1] /\ x <= Bps
    BY <1>12
  <2>4. PICK g \in Nat : g = Bps + Net(w.trades[k]) /\ g <= Bps
    <3>1. PICK y \in Int : y = Net(w.trades[k]) /\ 0 <= Bps + y /\ y <= 0
      BY <1>2
    <3>2. Bps + y \in Nat /\ Bps + y <= Bps
      BY <3>1 DEF Bps
    <3> QED BY <3>1, <3>2
  <2>5. PICK d \in Nat : Bps = g + d
    <3>1. Bps - g \in Nat /\ Bps = g + (Bps - g)
      BY <2>4 DEF Bps
    <3> QED BY <3>1
  <2>6. x * (g + d) = x * g + x * d /\ x * g \in Nat /\ x * d \in Nat
    OBVIOUS
  <2>7. PICK y \in Nat : y = x * g /\ y <= x * Bps
    BY <2>5, <2>6
  <2>8. y \div Bps \in Nat /\ y \div Bps <= x
    BY <2>7 DEF Bps
  <2>9. e[k] = y \div Bps
    BY <2>2, <2>3, <2>4, <2>7
  <2>10. e[k] \in Nat /\ e[k] <= Bps
    BY <2>3, <2>8, <2>9 DEF Bps
  <2> QED BY <2>1, <2>10
<1>13. n \in T
  <2> HIDE DEF T, n
  <2>1. 0 .. n \subseteq T
    BY <1>1, <1>11, <1>12, UpFromZero
  <2>2. n \in 0 .. n
    BY <1>1
  <2> QED BY <2>1, <2>2
<1>14. e[n] \in Nat /\ e[n] <= Bps
  BY <1>13
<1> QED BY <1>10, <1>14 DEF net_return, Bps

LEMMA WalksGain ==
    ASSUME RoomInv
    PROVE  WinsGain
<1> SUFFICES ASSUME NEW n \in Names
             PROVE  /\ \A k \in 1 .. Len(walk[n].trades) :
                          IF walk[n].trades[k].reason = "tp" THEN Gross(walk[n].trades[k]) >= 0
                          ELSE Gross(walk[n].trades[k]) <= 0
                    /\ /\ wins(walk[n]) = 0
                       /\ \A k \in 1 .. Len(walk[n].trades) : Bps + Net(walk[n].trades[k]) >= 0
                       => net_return(walk[n]) <= 0
  BY DEF WinsGain
<1> DEFINE w == walk[n]
<1>1. w.trades \in Seq(Trade)
  <2>1. WalkSound(w, bars)
    BY DEF RoomInv, WalksInv
  <2> QED BY <2>1 DEF WalkSound, Walk
<1> HIDE DEF w
<1>2. Len(w.trades) \in Nat /\ \A k \in 1 .. Len(w.trades) : w.trades[k] \in Trade
  BY <1>1
<1>3. \A k \in 1 .. Len(w.trades) :
         /\ Gross(w.trades[k]) \in Int
         /\ IF w.trades[k].reason = "tp" THEN Gross(w.trades[k]) >= 0 ELSE Gross(w.trades[k]) <= 0
  BY <1>2, GrossSign
<1>4. ASSUME wins(w) = 0, \A k \in 1 .. Len(w.trades) : Bps + Net(w.trades[k]) >= 0
      PROVE  net_return(w) <= 0
  <2> DEFINE S == {k \in 1 .. Len(w.trades) : w.trades[k].reason = "tp"}
  <2>1. S = {}
    <3>1. IsFiniteSet(1 .. Len(w.trades))
      BY <1>2, FS_Interval
    <3>2. IsFiniteSet(S)
      BY <3>1, FS_Subset
    <3>3. Cardinality(S) = 0
      BY <1>4 DEF wins
    <3> HIDE DEF S
    <3> QED BY <3>2, <3>3, FS_EmptySet
  <2>2. ASSUME NEW k \in 1 .. Len(w.trades)
        PROVE  0 <= Bps + Net(w.trades[k]) /\ Net(w.trades[k]) <= 0
    <3>1. w.trades[k].reason # "tp"
      BY <2>1
    <3>2. PICK g \in Int : g = Gross(w.trades[k]) /\ g <= 0
      BY <3>1, <1>3
    <3>3. PICK a \in Nat, b \in Nat : a = Fees /\ b = Slippage
      BY BacktestAssumption
    <3>4. g - 2 * (a + b) \in Int /\ g - 2 * (a + b) <= 0
      BY <3>2
    <3>5. Net(w.trades[k]) = g - 2 * (a + b)
      BY <3>2, <3>3 DEF Net
    <3>6. Bps + Net(w.trades[k]) >= 0
      BY <1>4
    <3> QED BY <3>4, <3>5, <3>6 DEF Bps
  <2> QED BY <2>2, <1>1, LossesAddUp
<1> QED BY <1>3, <1>4 DEF w

-----------------------------------------------------------------------------
(* What the runner makes of flags.                                          *)

Flags(n) == [entries : [1 .. n -> BOOLEAN], exits : [1 .. n -> BOOLEAN]]
Flat == [open |-> FALSE, at |-> 0, closed |-> <<>>]
Acc == [open : BOOLEAN, at : Nat, closed : Seq(Nat \X Nat)]

\* The trades and the position after each bar.
Pairs(f, F) == f = [i \in 0 .. Len(F.entries) |-> IF i = 0 THEN Flat ELSE PairFlags(f[i - 1], i, F)]
HeldFrom(h, F) == h = [i \in 0 .. Len(F.entries) |->
                      i > 0 /\ ~F.exits[i] /\ (F.entries[i] \/ h[i - 1])]

LEMMA FlagsLength ==
    ASSUME NEW n \in Nat, NEW F \in Flags(n)
    PROVE  Len(F.entries) = n /\ \A i \in 1 .. n : F.entries[i] \in BOOLEAN /\ F.exits[i] \in BOOLEAN
<1>1. F.entries \in [1 .. n -> BOOLEAN] /\ F.exits \in [1 .. n -> BOOLEAN]
  BY DEF Flags
<1>2. Len(F.entries) = n
  <2> DEFINE e == F.entries
  <2>1. e \in [1 .. n -> BOOLEAN]
    BY <1>1
  <2> HIDE DEF e
  <2>2. Len(e) = n
    BY <2>1
  <2> QED BY <2>2 DEF e
<1> QED BY <1>1, <1>2

LEMMA PairIsAcc ==
    ASSUME NEW n \in Nat, NEW F \in Flags(n), NEW i \in 1 .. n, NEW a \in Acc
    PROVE  PairFlags(a, i, F) \in Acc
<1>1. a.open \in BOOLEAN /\ a.at \in Nat /\ a.closed \in Seq(Nat \X Nat) /\ i \in Nat
  BY DEF Acc
<1>2. [open |-> TRUE, at |-> i, closed |-> a.closed] \in Acc
  BY <1>1 DEF Acc
<1>3. [open |-> FALSE, at |-> 0, closed |-> Append(a.closed, <<a.at, i>>)] \in Acc
  <2>1. <<a.at, i>> \in Nat \X Nat
    BY <1>1
  <2>2. Append(a.closed, <<a.at, i>>) \in Seq(Nat \X Nat)
    BY <1>1, <2>1
  <2> QED BY <2>2 DEF Acc
<1> QED BY <1>2, <1>3 DEF PairFlags

LEMMA PairsExist ==
    ASSUME NEW n \in Nat, NEW F \in Flags(n)
    PROVE  \E f : Pairs(f, F)
<1> DEFINE step == [i \in 1 .. n |-> [a \in Acc |-> PairFlags(a, i, F)]]
<1>1. step \in [1 .. n -> [Acc -> Acc]]
  BY PairIsAcc
<1>2. \A i \in 1 .. n : \A a \in Acc : step[i][a] = PairFlags(a, i, F)
  OBVIOUS
<1>3. Flat \in Acc
  BY DEF Flat, Acc
<1> HIDE DEF step
<1>4. PICK f : Steps(f, n, Acc, Flat, step)
  BY <1>1, <1>3, RecursionExists
<1>5. f \in [0 .. n -> Acc] /\ f[0] = Flat /\ \A i \in 1 .. n : f[i] = step[i][f[i - 1]]
  BY <1>4 DEF Steps
<1>6. ASSUME NEW i \in 1 .. n PROVE f[i] = PairFlags(f[i - 1], i, F)
  <2>1. i - 1 \in 0 .. n
    OBVIOUS
  <2>2. f[i - 1] \in Acc
    BY <2>1, <1>5
  <2> QED BY <2>2, <1>2, <1>5
<1>7. \A i \in 0 .. n : f[i] = IF i = 0 THEN Flat ELSE PairFlags(f[i - 1], i, F)
  <2>1. \A i \in 0 .. n : i = 0 \/ i \in 1 .. n
    OBVIOUS
  <2> QED BY <2>1, <1>5, <1>6
<1>8. f = [i \in 0 .. n |-> f[i]]
  BY <1>5
<1>9. Pairs(f, F)
  BY <1>7, <1>8, FlagsLength DEF Pairs
<1> QED BY <1>9

LEMMA HoldsExist ==
    ASSUME NEW n \in Nat, NEW F \in Flags(n)
    PROVE  \E h : HeldFrom(h, F)
<1> DEFINE step == [i \in 1 .. n |-> [a \in BOOLEAN |-> ~F.exits[i] /\ (F.entries[i] \/ a)]]
<1>1. step \in [1 .. n -> [BOOLEAN -> BOOLEAN]]
  OBVIOUS
<1>2. \A i \in 1 .. n : \A a \in BOOLEAN : step[i][a] = (~F.exits[i] /\ (F.entries[i] \/ a))
  OBVIOUS
<1>3. FALSE \in BOOLEAN
  OBVIOUS
<1> HIDE DEF step
<1>4. PICK f : Steps(f, n, BOOLEAN, FALSE, step)
  BY <1>1, <1>3, RecursionExists
<1>5. f \in [0 .. n -> BOOLEAN] /\ f[0] = FALSE /\ \A i \in 1 .. n : f[i] = step[i][f[i - 1]]
  BY <1>4 DEF Steps
<1>6. ASSUME NEW i \in 1 .. n PROVE f[i] = (~F.exits[i] /\ (F.entries[i] \/ f[i - 1]))
  <2>1. i - 1 \in 0 .. n
    OBVIOUS
  <2>2. f[i - 1] \in BOOLEAN
    BY <2>1, <1>5
  <2> QED BY <2>2, <1>2, <1>5
<1>7. \A i \in 0 .. n : f[i] = (i > 0 /\ ~F.exits[i] /\ (F.entries[i] \/ f[i - 1]))
  <2> SUFFICES ASSUME NEW i \in 0 .. n
               PROVE  f[i] = (i > 0 /\ ~F.exits[i] /\ (F.entries[i] \/ f[i - 1]))
    OBVIOUS
  <2>1. CASE i = 0
    <3>1. ~(i > 0)
      BY <2>1
    <3> QED BY <3>1, <2>1, <1>5
  <2>2. CASE i # 0
    <3>1. i \in 1 .. n /\ i > 0
      BY <2>2
    <3> QED BY <3>1, <1>6
  <2> QED BY <2>1, <2>2
<1>8. f = [i \in 0 .. n |-> f[i]]
  BY <1>5
<1>9. HeldFrom(f, F)
  BY <1>7, <1>8, FlagsLength DEF HeldFrom
<1> QED BY <1>9

\* The same, read bar by bar.
LEMMA PairsRead ==
    ASSUME NEW n \in Nat, NEW F \in Flags(n), NEW f, Pairs(f, F)
    PROVE  f[0] = Flat /\ \A i \in 1 .. n : f[i] = PairFlags(f[i - 1], i, F)
<1>1. \A i \in 0 .. n : f[i] = IF i = 0 THEN Flat ELSE PairFlags(f[i - 1], i, F)
  <2>1. Len(F.entries) = n
    BY FlagsLength
  <2> QED BY <2>1 DEF Pairs
<1>2. 0 \in 0 .. n /\ \A i \in 1 .. n : i \in 0 .. n /\ i # 0
  OBVIOUS
<1> QED BY <1>1, <1>2

LEMMA HoldsRead ==
    ASSUME NEW n \in Nat, NEW F \in Flags(n), NEW h, HeldFrom(h, F)
    PROVE  /\ h[0] = FALSE
           /\ \A i \in 1 .. n : h[i] = (~F.exits[i] /\ (F.entries[i] \/ h[i - 1]))
           /\ \A i \in 0 .. n : h[i] \in BOOLEAN
<1>1. \A i \in 0 .. n : h[i] = (i > 0 /\ ~F.exits[i] /\ (F.entries[i] \/ h[i - 1]))
  <2>1. Len(F.entries) = n
    BY FlagsLength
  <2> QED BY <2>1 DEF HeldFrom
<1>2. h[0] = FALSE
  <2>1. 0 \in 0 .. n /\ ~(0 > 0)
    OBVIOUS
  <2> QED BY <2>1, <1>1
<1>3. ASSUME NEW i \in 1 .. n PROVE h[i] = (~F.exits[i] /\ (F.entries[i] \/ h[i - 1]))
  <2>1. i \in 0 .. n /\ i > 0
    OBVIOUS
  <2> QED BY <2>1, <1>1
<1>4. \A i \in 0 .. n : h[i] \in BOOLEAN
  BY <1>1
<1> QED BY <1>2, <1>3, <1>4

\* One more bar is one more step.
LEMMA PairsGoOn ==
    ASSUME NEW n \in Nat, NEW F \in Flags(n), NEW G \in Flags(n + 1),
           \A i \in 1 .. n : F.entries[i] = G.entries[i] /\ F.exits[i] = G.exits[i],
           NEW f, Pairs(f, F), NEW g, Pairs(g, G)
    PROVE  g[n + 1] = PairFlags(f[n], n + 1, G)
<1> DEFINE T == {i \in 0 .. n : f[i] = g[i]}
<1>1. f[0] = Flat /\ \A i \in 1 .. n : f[i] = PairFlags(f[i - 1], i, F)
  BY PairsRead
<1>2. g[0] = Flat /\ \A i \in 1 .. n + 1 : g[i] = PairFlags(g[i - 1], i, G)
  <2>1. n + 1 \in Nat
    OBVIOUS
  <2> QED BY <2>1, PairsRead
<1>3. 0 \in T
  BY <1>1, <1>2
<1>4. ASSUME NEW i \in 1 .. n, i - 1 \in T PROVE i \in T
  <2>1. i \in 0 .. n /\ i \in 1 .. n + 1
    OBVIOUS
  <2>2. f[i] = PairFlags(f[i - 1], i, F) /\ g[i] = PairFlags(f[i - 1], i, G)
    BY <2>1, <1>1, <1>2, <1>4
  <2>3. PairFlags(f[i - 1], i, F) = PairFlags(f[i - 1], i, G)
    BY DEF PairFlags
  <2> QED BY <2>1, <2>2, <2>3
<1> HIDE DEF T
<1>5. 0 .. n \subseteq T
  BY <1>3, <1>4, UpFromZero
<1>6. f[n] = g[n]
  <2>1. n \in 0 .. n
    OBVIOUS
  <2> QED BY <2>1, <1>5 DEF T
<1>7. n + 1 \in 1 .. n + 1 /\ (n + 1) - 1 = n
  OBVIOUS
<1> QED BY <1>2, <1>6, <1>7

LEMMA HoldsGoOn ==
    ASSUME NEW n \in Nat, NEW F \in Flags(n), NEW G \in Flags(n + 1),
           \A i \in 1 .. n : F.entries[i] = G.entries[i] /\ F.exits[i] = G.exits[i],
           NEW f, HeldFrom(f, F), NEW g, HeldFrom(g, G)
    PROVE  g[n + 1] = (~G.exits[n + 1] /\ (G.entries[n + 1] \/ f[n]))
<1> DEFINE T == {i \in 0 .. n : f[i] = g[i]}
<1>1. f[0] = FALSE /\ \A i \in 1 .. n : f[i] = (~F.exits[i] /\ (F.entries[i] \/ f[i - 1]))
  BY HoldsRead
<1>2. g[0] = FALSE /\ \A i \in 1 .. n + 1 : g[i] = (~G.exits[i] /\ (G.entries[i] \/ g[i - 1]))
  <2>1. n + 1 \in Nat
    OBVIOUS
  <2> QED BY <2>1, HoldsRead
<1>3. 0 \in T
  <2>1. 0 \in 0 .. n /\ 0 \in 0 .. n + 1 /\ n + 1 \in Nat
    OBVIOUS
  <2>2. f[0] \in BOOLEAN /\ g[0] \in BOOLEAN
    BY <2>1, HoldsRead
  <2>3. ~f[0] /\ ~g[0]
    BY <1>1, <1>2
  <2>4. f[0] = g[0]
    BY <2>2, <2>3
  <2> QED BY <2>1, <2>4
<1>4. ASSUME NEW i \in 1 .. n, i - 1 \in T PROVE i \in T
  <2>1. i \in 0 .. n /\ i \in 1 .. n + 1
    OBVIOUS
  <2>2. f[i] = (~F.exits[i] /\ (F.entries[i] \/ f[i - 1]))
    BY <1>1
  <2>3. g[i] = (~G.exits[i] /\ (G.entries[i] \/ g[i - 1])) /\ f[i - 1] = g[i - 1]
    BY <2>1, <1>2, <1>4
  <2>4. f[i] = g[i]
    BY <2>2, <2>3
  <2> QED BY <2>1, <2>4
<1> HIDE DEF T
<1>5. 0 .. n \subseteq T
  BY <1>3, <1>4, UpFromZero
<1>6. f[n] = g[n]
  <2>1. n \in 0 .. n
    OBVIOUS
  <2> QED BY <2>1, <1>5 DEF T
<1>7. n + 1 \in 1 .. n + 1 /\ (n + 1) - 1 = n
  OBVIOUS
<1> QED BY <1>2, <1>6, <1>7

\* The flags of a walk are those of the bars it entered and left at.
FlagsOf(E, X, n) == [entries |-> [i \in 1 .. n |-> i \in E], exits |-> [i \in 1 .. n |-> i \in X]]
EntryBars(w) == {w.trades[k].entry : k \in 1 .. Len(w.trades)}
Opened(w) == EntryBars(w) \cup (IF w.open THEN {w.entry} ELSE {})
Exited(w) == {w.trades[k].exit : k \in 1 .. Len(w.trades)}
Spans(trades) == [k \in 1 .. Len(trades) |-> <<trades[k].entry, trades[k].exit>>]
Ends(w) == [open |-> w.open, at |-> IF w.open THEN w.entry ELSE 0, closed |-> Spans(w.trades)]

LEMMA AdapterReads ==
    ASSUME NEW w, NEW n
    PROVE  AdapterFlags(w, n) = FlagsOf(Opened(w), Exited(w), n)
BY DEF AdapterFlags, FlagsOf, Opened, EntryBars, Exited

LEMMA FlagsOfRead ==
    ASSUME NEW n \in Nat, NEW E, NEW X
    PROVE  /\ FlagsOf(E, X, n) \in Flags(n)
           /\ \A i \in 1 .. n : /\ FlagsOf(E, X, n).entries[i] = (i \in E)
                                /\ FlagsOf(E, X, n).exits[i] = (i \in X)
BY DEF FlagsOf, Flags

\* What the runner has at the end of n bars is what the walk has.
Mirrors(w, n) ==
    /\ \A f : Pairs(f, FlagsOf(Opened(w), Exited(w), n)) => f[n] = Ends(w)
    /\ \A h : HeldFrom(h, FlagsOf(Opened(w), Exited(w), n)) => h[n] = w.open
    /\ Opened(w) \subseteq 1 .. n /\ Exited(w) \subseteq 1 .. n
    /\ Cardinality(Opened(w)) = Len(w.trades) + (IF w.open THEN 1 ELSE 0)
    /\ Cardinality(Exited(w)) = Len(w.trades)

\* Flags go on over one more bar, which is in neither set, or in one.
LEMMA MirrorSteps ==
    ASSUME NEW n \in Nat, NEW w, Mirrors(w, n), w.open \in BOOLEAN,
           NEW E, NEW X, \A i \in 1 .. n : (i \in E <=> i \in Opened(w)) /\ (i \in X <=> i \in Exited(w))
    PROVE  LET G == FlagsOf(E, X, n + 1)
           IN /\ \A g : Pairs(g, G) => g[n + 1] = PairFlags(Ends(w), n + 1, G)
              /\ \A g : HeldFrom(g, G) => g[n + 1] = (n + 1 \notin X /\ (n + 1 \in E \/ w.open))
              /\ G.entries[n + 1] = (n + 1 \in E) /\ G.exits[n + 1] = (n + 1 \in X)
<1> DEFINE F == FlagsOf(Opened(w), Exited(w), n)
           G == FlagsOf(E, X, n + 1)
<1>1. F \in Flags(n) /\ \A i \in 1 .. n : F.entries[i] = (i \in Opened(w)) /\ F.exits[i] = (i \in Exited(w))
  BY FlagsOfRead
<1>2. G \in Flags(n + 1) /\ \A i \in 1 .. n + 1 : G.entries[i] = (i \in E) /\ G.exits[i] = (i \in X)
  <2>1. n + 1 \in Nat
    OBVIOUS
  <2> QED BY <2>1, FlagsOfRead
<1> HIDE DEF F, G
<1>3. ASSUME NEW i \in 1 .. n PROVE F.entries[i] = G.entries[i] /\ F.exits[i] = G.exits[i]
  <2>1. i \in 1 .. n + 1
    OBVIOUS
  <2>2. F.entries[i] = (i \in Opened(w)) /\ F.exits[i] = (i \in Exited(w))
    BY <1>1
  <2>3. G.entries[i] = (i \in E) /\ G.exits[i] = (i \in X)
    BY <2>1, <1>2
  <2> QED BY <2>2, <2>3
<1>4. PICK f : Pairs(f, F)
  BY <1>1, PairsExist
<1>5. PICK h : HeldFrom(h, F)
  BY <1>1, HoldsExist
<1>6. f[n] = Ends(w) /\ h[n] = w.open
  BY <1>4, <1>5 DEF Mirrors, F
<1>7. ASSUME NEW g, Pairs(g, G) PROVE g[n + 1] = PairFlags(Ends(w), n + 1, G)
  <2>0. F \in Flags(n) /\ G \in Flags(n + 1)
    BY <1>1, <1>2
  <2>1. g[n + 1] = PairFlags(f[n], n + 1, G)
    BY <2>0, <1>3, <1>4, <1>7, PairsGoOn
  <2> QED BY <2>1, <1>6
<1>8. G.entries[n + 1] = (n + 1 \in E) /\ G.exits[n + 1] = (n + 1 \in X)
  <2>1. n + 1 \in 1 .. n + 1
    OBVIOUS
  <2> QED BY <2>1, <1>2
<1>9. ASSUME NEW g, HeldFrom(g, G) PROVE g[n + 1] = (n + 1 \notin X /\ (n + 1 \in E \/ w.open))
  <2>1. g[n + 1] = (~G.exits[n + 1] /\ (G.entries[n + 1] \/ h[n]))
    BY <1>1, <1>2, <1>3, <1>5, <1>9, HoldsGoOn
  <2> QED BY <2>1, <1>6, <1>8
<1> QED BY <1>7, <1>8, <1>9 DEF G

LEMMA MirrorWaits ==
    ASSUME NEW n \in Nat, NEW w, Mirrors(w, n), w.open \in BOOLEAN
    PROVE  Mirrors(w, n + 1)
<1> DEFINE E == Opened(w)
           X == Exited(w)
           G == FlagsOf(E, X, n + 1)
<1>1. E \subseteq 1 .. n /\ X \subseteq 1 .. n
  BY DEF Mirrors
<1>2. n + 1 \notin E /\ n + 1 \notin X
  <2>1. n + 1 \notin 1 .. n
    OBVIOUS
  <2> QED BY <2>1, <1>1
<1> HIDE DEF E, X
<1>3. \A i \in 1 .. n : (i \in E <=> i \in Opened(w)) /\ (i \in X <=> i \in Exited(w))
  BY DEF E, X
<1>4. /\ \A g : Pairs(g, G) => g[n + 1] = PairFlags(Ends(w), n + 1, G)
      /\ \A g : HeldFrom(g, G) => g[n + 1] = (n + 1 \notin X /\ (n + 1 \in E \/ w.open))
      /\ G.entries[n + 1] = (n + 1 \in E) /\ G.exits[n + 1] = (n + 1 \in X)
  BY <1>3, MirrorSteps
<1> HIDE DEF G
<1>5. PairFlags(Ends(w), n + 1, G) = Ends(w)
  <2>1. ~G.entries[n + 1] /\ ~G.exits[n + 1]
    BY <1>2, <1>4
  <2> QED BY <2>1 DEF PairFlags
<1>6. \A g : Pairs(g, G) => g[n + 1] = Ends(w)
  BY <1>4, <1>5
<1>7. \A g : HeldFrom(g, G) => g[n + 1] = w.open
  BY <1>2, <1>4
<1>8. E \subseteq 1 .. n + 1 /\ X \subseteq 1 .. n + 1
  <2>1. 1 .. n \subseteq 1 .. n + 1
    OBVIOUS
  <2> QED BY <2>1, <1>1
<1>9. /\ Cardinality(E) = Len(w.trades) + (IF w.open THEN 1 ELSE 0)
      /\ Cardinality(X) = Len(w.trades)
  BY DEF Mirrors, E, X
<1> QED BY <1>6, <1>7, <1>8, <1>9 DEF Mirrors, G, E, X

LEMMA MirrorCloses ==
    ASSUME NEW n \in Nat, NEW w \in Walk, Mirrors(w, n), w.open, NEW reason \in {"tp", "sl"}
    PROVE  Mirrors(WithClosed(w, n + 1, reason), n + 1)
<1> DEFINE v == WithClosed(w, n + 1, reason)
           t == [entry |-> w.entry, exit |-> n + 1, signal |-> w.signal, reason |-> reason]
           m == Len(w.trades)
           E == Opened(v)
           X == Exited(v)
           G == FlagsOf(E, X, n + 1)
<1>1. /\ w.trades \in Seq(Trade) /\ w.open = TRUE /\ m \in Nat
  BY DEF Walk
<1>2. v.open = FALSE /\ v.trades = Append(w.trades, t)
  BY DEF Walk, WithClosed
<1>3. t.entry = w.entry /\ t.exit = n + 1
  OBVIOUS
<1> HIDE DEF t, v, m
<1>4. /\ Len(v.trades) = m + 1 /\ v.trades[m + 1] = t
      /\ \A k \in 1 .. m : v.trades[k] = w.trades[k]
  BY <1>1, <1>2 DEF m
<1>5. 1 .. m + 1 = (1 .. m) \cup {m + 1}
  BY <1>1
<1>6. E = Opened(w)
  <2>1. EntryBars(v) = {v.trades[k].entry : k \in 1 .. m + 1} /\ EntryBars(w) = {w.trades[k].entry : k \in 1 .. m}
    BY <1>4 DEF EntryBars, m
  <2>2. \A k \in 1 .. m : v.trades[k].entry = w.trades[k].entry
    BY <1>4
  <2>3. v.trades[m + 1].entry = w.entry
    BY <1>3, <1>4
  <2>4. EntryBars(v) = EntryBars(w) \cup {w.entry}
    BY <2>1, <2>2, <2>3, <1>5
  <2> QED BY <2>4, <1>1, <1>2 DEF Opened
<1>7. X = Exited(w) \cup {n + 1}
  <2>1. X = {v.trades[k].exit : k \in 1 .. m + 1} /\ Exited(w) = {w.trades[k].exit : k \in 1 .. m}
    BY <1>4 DEF Exited, m
  <2>2. \A k \in 1 .. m : v.trades[k].exit = w.trades[k].exit
    BY <1>4
  <2>3. v.trades[m + 1].exit = n + 1
    BY <1>3, <1>4
  <2> QED BY <2>1, <2>2, <2>3, <1>5
<1>8. Opened(w) \subseteq 1 .. n /\ Exited(w) \subseteq 1 .. n /\ n + 1 \notin 1 .. n
  <2>1. n + 1 \notin 1 .. n
    OBVIOUS
  <2> QED BY <2>1 DEF Mirrors
<1>9. n + 1 \notin E /\ n + 1 \in X
  BY <1>6, <1>7, <1>8
<1>10. \A i \in 1 .. n : (i \in E <=> i \in Opened(w)) /\ (i \in X <=> i \in Exited(w))
  <2>1. \A i \in 1 .. n : i # n + 1
    OBVIOUS
  <2> QED BY <2>1, <1>6, <1>7
<1> HIDE DEF E, X
<1>11. /\ \A g : Pairs(g, G) => g[n + 1] = PairFlags(Ends(w), n + 1, G)
       /\ \A g : HeldFrom(g, G) => g[n + 1] = (n + 1 \notin X /\ (n + 1 \in E \/ w.open))
       /\ G.entries[n + 1] = (n + 1 \in E) /\ G.exits[n + 1] = (n + 1 \in X)
  <2>1. w.open \in BOOLEAN
    BY <1>1
  <2> QED BY <2>1, <1>10, MirrorSteps, Zenon
<1> HIDE DEF G
<1>12. Spans(v.trades) = Append(Spans(w.trades), <<w.entry, n + 1>>)
  <2> DEFINE S == [k \in 1 .. m |-> <<w.trades[k].entry, w.trades[k].exit>>]
             p == <<w.entry, n + 1>>
  <2>1. Spans(w.trades) = S
    BY DEF Spans, m
  <2>2. S \in Seq(Nat \X Nat) /\ Len(S) = m
    <3>1. ASSUME NEW k \in 1 .. m PROVE <<w.trades[k].entry, w.trades[k].exit>> \in Nat \X Nat
      <4>1. w.trades[k] \in Trade
        BY <1>1 DEF m
      <4>2. w.trades[k].entry \in Nat /\ w.trades[k].exit \in Nat
        BY <4>1 DEF Trade
      <4> QED BY <4>2
    <3>2. S \in [1 .. m -> Nat \X Nat]
      BY <3>1
    <3> HIDE DEF S
    <3> QED BY <3>2, <1>1
  <2>3. Append(S, p) = [k \in 1 .. m + 1 |-> IF k = m + 1 THEN p ELSE S[k]]
    <3>1. p \in Nat \X Nat
      <4>1. w.entry \in Nat
        BY DEF Walk
      <4> QED BY <4>1
    <3> HIDE DEF S, p
    <3>2. Append(S, p) \in Seq(Nat \X Nat) /\ Len(Append(S, p)) = m + 1
      BY <3>1, <2>2, <1>1
    <3>3. \A k \in 1 .. m + 1 : Append(S, p)[k] = IF k = m + 1 THEN p ELSE S[k]
      BY <3>1, <2>2, <1>1
    <3> DEFINE A == Append(S, p)
    <3>4. A \in Seq(Nat \X Nat) /\ Len(A) = m + 1
      BY <3>2
    <3> HIDE DEF A
    <3>5. A = [k \in 1 .. Len(A) |-> A[k]]
      <4>1. A \in [1 .. Len(A) -> Nat \X Nat]
        BY <3>4
      <4> QED BY <4>1
    <3> QED BY <3>3, <3>4, <3>5 DEF A
  <2>4. Spans(v.trades) = [k \in 1 .. m + 1 |-> <<v.trades[k].entry, v.trades[k].exit>>]
    BY <1>4 DEF Spans
  <2>5. ASSUME NEW k \in 1 .. m + 1
        PROVE  <<v.trades[k].entry, v.trades[k].exit>> = IF k = m + 1 THEN p ELSE S[k]
    <3>1. CASE k = m + 1
      BY <3>1, <1>3, <1>4
    <3>2. CASE k # m + 1
      <4>1. k \in 1 .. m
        BY <3>2, <1>1
      <4> QED BY <4>1, <3>2, <1>4
    <3> QED BY <3>1, <3>2
  <2> HIDE DEF S, p
  <2>6. Spans(v.trades) = Append(S, p)
    BY <2>3, <2>4, <2>5
  <2> QED BY <2>1, <2>6 DEF p
<1>13. PairFlags(Ends(w), n + 1, G) = Ends(v)
  <2>1. ~G.entries[n + 1] /\ G.exits[n + 1]
    BY <1>9, <1>11
  <2>2. Ends(w) = [open |-> TRUE, at |-> w.entry, closed |-> Spans(w.trades)]
    BY <1>1 DEF Ends
  <2>3. Ends(v) = [open |-> FALSE, at |-> 0, closed |-> Append(Spans(w.trades), <<w.entry, n + 1>>)]
    BY <1>2, <1>12 DEF Ends
  <2> QED BY <2>1, <2>2, <2>3 DEF PairFlags
<1>14. \A g : Pairs(g, G) => g[n + 1] = Ends(v)
  BY <1>11, <1>13
<1>15. \A g : HeldFrom(g, G) => g[n + 1] = v.open
  BY <1>2, <1>9, <1>11
<1>16. E \subseteq 1 .. n + 1 /\ X \subseteq 1 .. n + 1
  <2>1. 1 .. n \subseteq 1 .. n + 1 /\ n + 1 \in 1 .. n + 1
    OBVIOUS
  <2> QED BY <2>1, <1>6, <1>7, <1>8
<1>17. Cardinality(E) = m + 1
  BY <1>1, <1>6 DEF Mirrors, m
<1>18. Cardinality(X) = m + 1
  <2>1. IsFiniteSet(Exited(w))
    <3>1. IsFiniteSet(1 .. n)
      BY FS_Interval
    <3> QED BY <3>1, <1>8, FS_Subset
  <2>2. Cardinality(Exited(w)) = m
    BY DEF Mirrors, m
  <2>3. n + 1 \notin Exited(w)
    BY <1>8
  <2> QED BY <2>1, <2>2, <2>3, <1>7, FS_AddElement
<1>19. Mirrors(v, n + 1)
  <2>1. /\ Cardinality(E) = Len(v.trades) + (IF v.open THEN 1 ELSE 0)
        /\ Cardinality(X) = Len(v.trades)
    BY <1>1, <1>2, <1>4, <1>17, <1>18
  <2> QED BY <2>1, <1>14, <1>15, <1>16 DEF Mirrors, G, E, X
<1> QED BY <1>19 DEF v

LEMMA MirrorOpens ==
    ASSUME NEW n \in Nat, NEW w \in Walk, Mirrors(w, n), ~w.open, NEW s
    PROVE  Mirrors(WithOpened(w, n + 1, s), n + 1)
<1> DEFINE v == WithOpened(w, n + 1, s)
           E == Opened(v)
           X == Exited(v)
           G == FlagsOf(E, X, n + 1)
<1>1. w.trades \in Seq(Trade) /\ w.open = FALSE
  BY DEF Walk
<1>2. v.open = TRUE /\ v.entry = n + 1 /\ v.trades = w.trades
  BY DEF Walk, WithOpened
<1> HIDE DEF v
<1>3. E = Opened(w) \cup {n + 1} /\ X = Exited(w)
  BY <1>1, <1>2 DEF Opened, Exited, EntryBars
<1>4. Opened(w) \subseteq 1 .. n /\ Exited(w) \subseteq 1 .. n /\ n + 1 \notin 1 .. n
  <2>1. n + 1 \notin 1 .. n
    OBVIOUS
  <2> QED BY <2>1 DEF Mirrors
<1>5. n + 1 \in E /\ n + 1 \notin X
  BY <1>3, <1>4
<1>6. \A i \in 1 .. n : (i \in E <=> i \in Opened(w)) /\ (i \in X <=> i \in Exited(w))
  <2>1. \A i \in 1 .. n : i # n + 1
    OBVIOUS
  <2> QED BY <2>1, <1>3
<1> HIDE DEF E, X
<1>7. /\ \A g : Pairs(g, G) => g[n + 1] = PairFlags(Ends(w), n + 1, G)
      /\ \A g : HeldFrom(g, G) => g[n + 1] = (n + 1 \notin X /\ (n + 1 \in E \/ w.open))
      /\ G.entries[n + 1] = (n + 1 \in E) /\ G.exits[n + 1] = (n + 1 \in X)
  <2>1. w.open \in BOOLEAN
    BY <1>1
  <2> QED BY <2>1, <1>6, MirrorSteps
<1> HIDE DEF G
<1>8. PairFlags(Ends(w), n + 1, G) = Ends(v)
  <2>1. G.entries[n + 1]
    BY <1>5, <1>7
  <2>2. Ends(w) = [open |-> FALSE, at |-> 0, closed |-> Spans(w.trades)]
    BY <1>1 DEF Ends
  <2>3. Ends(v) = [open |-> TRUE, at |-> n + 1, closed |-> Spans(w.trades)]
    BY <1>2 DEF Ends
  <2> QED BY <2>1, <2>2, <2>3 DEF PairFlags
<1>9. \A g : Pairs(g, G) => g[n + 1] = Ends(v)
  BY <1>7, <1>8
<1>10. \A g : HeldFrom(g, G) => g[n + 1] = v.open
  BY <1>2, <1>5, <1>7
<1>11. E \subseteq 1 .. n + 1 /\ X \subseteq 1 .. n + 1
  <2>1. 1 .. n \subseteq 1 .. n + 1 /\ n + 1 \in 1 .. n + 1
    OBVIOUS
  <2> QED BY <2>1, <1>3, <1>4
<1>12. Cardinality(X) = Len(w.trades)
  BY <1>3 DEF Mirrors
<1>13. Cardinality(E) = Len(w.trades) + 1
  <2>1. IsFiniteSet(Opened(w))
    <3>1. IsFiniteSet(1 .. n)
      BY FS_Interval
    <3> QED BY <3>1, <1>4, FS_Subset
  <2>2. Cardinality(Opened(w)) = Len(w.trades)
    <3>1. Cardinality(Opened(w)) = Len(w.trades) + 0
      BY <1>1 DEF Mirrors
    <3>2. Len(w.trades) \in Nat
      BY <1>1
    <3> QED BY <3>1, <3>2
  <2>3. n + 1 \notin Opened(w)
    BY <1>4
  <2> QED BY <2>1, <2>2, <2>3, <1>3, FS_AddElement
<1>14. Mirrors(v, n + 1)
  BY <1>2, <1>9, <1>10, <1>11, <1>12, <1>13 DEF Mirrors, G, E, X
<1> QED BY <1>14 DEF v

LEMMA NewWalkMirrors == Mirrors(NewWalk, 0)
<1> DEFINE F == FlagsOf(Opened(NewWalk), Exited(NewWalk), 0)
<1>1. NewWalk.open = FALSE /\ NewWalk.trades = <<>> /\ Len(NewWalk.trades) = 0
  BY DEF NewWalk
<1>2. 1 .. 0 = {}
  OBVIOUS
<1>3. Opened(NewWalk) = {} /\ Exited(NewWalk) = {}
  BY <1>1, <1>2 DEF Opened, EntryBars, Exited
<1>4. Ends(NewWalk) = Flat
  <2>1. Spans(NewWalk.trades) = <<>>
    BY <1>1 DEF Spans
  <2> QED BY <2>1, <1>1 DEF Ends, Flat
<1>5. F \in Flags(0)
  BY FlagsOfRead
<1> HIDE DEF F
<1>6. \A f : Pairs(f, F) => f[0] = Ends(NewWalk)
  BY <1>4, <1>5, PairsRead
<1>7. \A h : HeldFrom(h, F) => h[0] = NewWalk.open
  BY <1>1, <1>5, HoldsRead
<1>8. Cardinality({}) = 0
  BY FS_EmptySet
<1> QED BY <1>1, <1>3, <1>6, <1>7, <1>8 DEF Mirrors, F

LEMMA WalkBarMirrors ==
    ASSUME NEW n \in Names, NEW b \in Seq(BarRow), NEW r \in BarRow, NEW w \in Walk,
           Mirrors(w, Len(b))
    PROVE  Mirrors(WalkBar(n, Append(b, r), WalkWindow, w), Len(b) + 1)
<1> DEFINE c == Append(b, r)
           reason == Touches(r, w.signal)
           fresh == Fresh(n, c, WalkWindow)
<1>1. Len(c) = Len(b) + 1 /\ Last(c) = r /\ Len(b) \in Nat
  BY DEF Last
<1>2. w.open \in BOOLEAN
  BY DEF Walk
<1>3. CASE w.open /\ reason = "none"
  <2>1. WalkBar(n, c, WalkWindow, w) = w
    BY <1>1, <1>3 DEF WalkBar
  <2> QED BY <2>1, <1>1, <1>2, MirrorWaits
<1>4. CASE w.open /\ reason # "none"
  <2>1. reason \in {"tp", "sl"}
    BY <1>4, TouchesReads
  <2>2. WalkBar(n, c, WalkWindow, w) = WithClosed(w, Len(b) + 1, reason)
    BY <1>1, <1>4 DEF WalkBar, WithClosed
  <2> HIDE DEF reason
  <2>3. w.open
    BY <1>4
  <2> QED BY <2>1, <2>2, <2>3, <1>1, MirrorCloses
<1>5. CASE ~w.open /\ fresh = {}
  <2>1. WalkBar(n, c, WalkWindow, w) = w
    BY <1>5 DEF WalkBar
  <2> QED BY <2>1, <1>1, <1>2, MirrorWaits
<1>6. CASE ~w.open /\ fresh # {}
  <2> DEFINE s == CHOOSE x \in fresh : TRUE
  <2>1. WalkBar(n, c, WalkWindow, w) = WithOpened(w, Len(b) + 1, s)
    BY <1>1, <1>6 DEF WalkBar, WithOpened
  <2> HIDE DEF s
  <2>2. ~w.open
    BY <1>6
  <2> QED BY <2>1, <2>2, <1>1, MirrorOpens
<1> QED BY <1>3, <1>4, <1>5, <1>6

MirrorsInv == WalksInv /\ \A n \in Names : Mirrors(walk[n], Len(bars))

LEMMA MirrorsInvariant == Spec => []MirrorsInv
<1>1. Init => \A n \in Names : Mirrors(walk[n], Len(bars))
  <2> SUFFICES ASSUME Init, NEW n \in Names PROVE Mirrors(walk[n], Len(bars))
    OBVIOUS
  <2>1. walk[n] = NewWalk /\ Len(bars) = 0
    BY DEF Init
  <2> QED BY <2>1, NewWalkMirrors
<1>2. ASSUME WalksInv, \A n \in Names : Mirrors(walk[n], Len(bars)), [Next]_vars
      PROVE  \A n \in Names : Mirrors(walk'[n], Len(bars'))
  <2>1. CASE UNCHANGED vars
    BY <1>2, <2>1 DEF vars
  <2>2. ASSUME NEW s \in Shapes, NEW skipped \in {0, 1}, CloseBar(s, skipped), NEW n \in Names
        PROVE  Mirrors(walk'[n], Len(bars'))
    <3> DEFINE r == NewBar(s, skipped)
    <3>1. bars' = Append(bars, r)
      BY <2>2 DEF CloseBar, NewBar
    <3>2. walk'[n] = WalkBar(n, bars', WalkWindow, walk[n])
      BY <2>2 DEF CloseBar
    <3>3. r \in BarRow /\ bars \in Seq(BarRow)
      BY <1>2, <2>2, NewBarIsRow DEF WalksInv, BarsInv
    <3> HIDE DEF r
    <3>4. walk[n] \in Walk /\ Mirrors(walk[n], Len(bars))
      BY <1>2 DEF WalksInv, WalkSound
    <3>5. Mirrors(WalkBar(n, Append(bars, r), WalkWindow, walk[n]), Len(bars) + 1)
      BY <3>3, <3>4, WalkBarMirrors
    <3>6. Len(bars') = Len(bars) + 1
      BY <3>1, <3>3
    <3> QED BY <3>1, <3>2, <3>5, <3>6
  <2> QED BY <1>2, <2>1, <2>2 DEF Next
<1>3. Init /\ WalksInv => MirrorsInv
  BY <1>1 DEF MirrorsInv
<1>4. MirrorsInv /\ WalksInv' /\ [Next]_vars => MirrorsInv'
  BY <1>2 DEF MirrorsInv
<1> QED BY <1>3, <1>4, WalksInvariant, PTL DEF Spec

\* What the runner reports of flags is the end of both series.
LEMMA RunnerReads ==
    ASSUME NEW n \in Nat, NEW F \in Flags(n)
    PROVE  /\ \E f : Pairs(f, F) /\ ClosedTrades(F) = f[n].closed
           /\ HeldFrom(Position(F), F)
<1>1. Len(F.entries) = n
  BY FlagsLength
<1> DEFINE R == CHOOSE f : Pairs(f, F)
           H == CHOOSE h : HeldFrom(h, F)
<1>2. Pairs(R, F)
  <2>1. \E f : Pairs(f, F)
    BY PairsExist
  <2> QED BY <2>1
<1>3. HeldFrom(H, F)
  <2>1. \E h : HeldFrom(h, F)
    BY HoldsExist
  <2> QED BY <2>1
<1>4. ClosedTrades(F) = R[Len(F.entries)].closed
  BY DEF ClosedTrades, Pairs, Flat
<1>5. Position(F) = H
  BY DEF Position, HeldFrom
<1> HIDE DEF R, H
<1> QED BY <1>1, <1>2, <1>3, <1>4, <1>5

LEMMA FlagsAgree ==
    ASSUME MirrorsInv
    PROVE  RunnerAgrees
<1> SUFFICES ASSUME NEW n \in Names
             PROVE  LET w == walk[n]
                        F == AdapterFlags(w, Len(bars))
                    IN /\ ClosedTrades(F) = Spans(w.trades)
                       /\ Charged(F) = 2 * Len(w.trades) + (IF w.open THEN 1 ELSE 0)
                       /\ Position(F)[Len(bars)] = w.open
  BY DEF RunnerAgrees, Spans
<1> DEFINE w == walk[n]
           m == Len(bars)
           F == FlagsOf(Opened(w), Exited(w), m)
<1>1. w \in Walk /\ Mirrors(w, m)
  BY DEF MirrorsInv, WalksInv, WalkSound
<1>2. m \in Nat
  BY DEF MirrorsInv, WalksInv, BarsInv
<1>3. AdapterFlags(w, m) = F
  BY AdapterReads
<1> HIDE DEF w, m
<1>4. F \in Flags(m)
  BY <1>2, FlagsOfRead
<1>5. ClosedTrades(F) = Spans(w.trades)
  <2> HIDE DEF F
  <2>1. PICK f : Pairs(f, F) /\ ClosedTrades(F) = f[m].closed
    BY <1>2, <1>4, RunnerReads
  <2>2. f[m] = Ends(w)
    BY <2>1, <1>1 DEF Mirrors, F
  <2> QED BY <2>1, <2>2 DEF Ends
<1>6. Position(F)[m] = w.open
  <2> HIDE DEF F
  <2>1. HeldFrom(Position(F), F)
    BY <1>2, <1>4, RunnerReads
  <2> QED BY <2>1, <1>1 DEF Mirrors, F
<1>7. Charged(F) = 2 * Len(w.trades) + (IF w.open THEN 1 ELSE 0)
  <2>1. Opened(w) \subseteq 1 .. m /\ Exited(w) \subseteq 1 .. m
    BY <1>1 DEF Mirrors
  <2>2. {i \in DOMAIN F.entries : F.entries[i]} = Opened(w)
    BY <2>1 DEF FlagsOf
  <2>3. {i \in DOMAIN F.exits : F.exits[i]} = Exited(w)
    BY <2>1 DEF FlagsOf
  <2> HIDE DEF F
  <2>4. Charged(F) = Cardinality(Opened(w)) + Cardinality(Exited(w))
    BY <2>2, <2>3 DEF Charged
  <2>5. Charged(F) = Len(w.trades) + (IF w.open THEN 1 ELSE 0) + Len(w.trades)
    BY <2>4, <1>1 DEF Mirrors
  <2>6. w.trades \in Seq(Trade)
    BY <1>1 DEF Walk
  <2>7. PICK k \in Nat : k = Len(w.trades)
    BY <2>6
  <2>8. PICK x \in Nat : x = IF w.open THEN 1 ELSE 0
    OBVIOUS
  <2>9. Charged(F) = k + x + k
    BY <2>5, <2>7, <2>8
  <2>10. Charged(F) = 2 * k + x
    BY <2>9
  <2> QED BY <2>7, <2>8, <2>10
<1> QED BY <1>3, <1>5, <1>6, <1>7 DEF w, m
-----------------------------------------------------------------------------
(* The position of a flag strategy, and its trades.                         *)

Spanned(closed, h, i) ==
    \A k \in 1 .. Len(closed) : /\ closed[k][1] \in 1 .. i /\ closed[k][2] <= i
                                /\ \A j \in closed[k][1] .. closed[k][2] - 1 : h[j]
InSpan(closed, j) == \E k \in 1 .. Len(closed) : j \in closed[k][1] .. closed[k][2] - 1

\* After bar i the position was held over the trades and no other bar.
Matches(a, h, i) ==
    /\ a \in Acc /\ a.open = h[i] /\ Spanned(a.closed, h, i)
    /\ a.open => a.at \in 1 .. i /\ \A j \in a.at .. i : h[j]
    /\ \A j \in 1 .. i : h[j] => InSpan(a.closed, j) \/ (a.open /\ a.at <= j)

LEMMA SpansStay ==
    ASSUME NEW i \in Nat, NEW h, NEW closed \in Seq(Nat \X Nat), Spanned(closed, h, i)
    PROVE  Spanned(closed, h, i + 1)
<1> SUFFICES ASSUME NEW k \in 1 .. Len(closed)
             PROVE  /\ closed[k][1] \in 1 .. i + 1 /\ closed[k][2] <= i + 1
                    /\ \A j \in closed[k][1] .. closed[k][2] - 1 : h[j]
  BY DEF Spanned
<1>1. PICK x \in Nat, y \in Nat : x = closed[k][1] /\ y = closed[k][2]
  <2>1. closed[k] \in Nat \X Nat
    OBVIOUS
  <2> QED BY <2>1
<1>2. x \in 1 .. i /\ y <= i /\ \A j \in x .. y - 1 : h[j]
  BY <1>1 DEF Spanned
<1>3. x \in 1 .. i + 1 /\ y <= i + 1
  BY <1>2
<1> QED BY <1>1, <1>2, <1>3

LEMMA MatchEnters ==
    ASSUME NEW i \in Nat, NEW h, NEW a, Matches(a, h, i), ~a.open, h[i + 1] = TRUE
    PROVE  Matches([open |-> TRUE, at |-> i + 1, closed |-> a.closed], h, i + 1)
<1> DEFINE z == [open |-> TRUE, at |-> i + 1, closed |-> a.closed]
<1>1. a.closed \in Seq(Nat \X Nat) /\ i + 1 \in Nat
  BY DEF Matches, Acc
<1>2. z \in Acc /\ z.open = h[i + 1] /\ z.at = i + 1 /\ z.closed = a.closed
  BY <1>1 DEF Acc
<1> HIDE DEF z
<1>3. Spanned(z.closed, h, i + 1)
  BY <1>1, <1>2, SpansStay DEF Matches
<1>4. z.at \in 1 .. i + 1 /\ \A j \in z.at .. i + 1 : h[j]
  <2>1. i + 1 \in 1 .. i + 1 /\ \A j \in i + 1 .. i + 1 : j = i + 1
    OBVIOUS
  <2> QED BY <2>1, <1>2
<1>5. ASSUME NEW j \in 1 .. i + 1, h[j]
      PROVE  InSpan(z.closed, j) \/ (z.open /\ z.at <= j)
  <2>1. CASE j = i + 1
    BY <2>1, <1>2
  <2>2. CASE j # i + 1
    <3>1. j \in 1 .. i
      BY <2>2
    <3> QED BY <3>1, <1>2, <1>5 DEF Matches
  <2> QED BY <2>1, <2>2
<1>6. Matches(z, h, i + 1)
  BY <1>2, <1>3, <1>4, <1>5 DEF Matches
<1> QED BY <1>6 DEF z

LEMMA MatchLeaves ==
    ASSUME NEW i \in Nat, NEW h, NEW a, Matches(a, h, i), a.open, h[i + 1] = FALSE
    PROVE  Matches([open |-> FALSE, at |-> 0, closed |-> Append(a.closed, <<a.at, i + 1>>)], h, i + 1)
<1> DEFINE p == <<a.at, i + 1>>
           C == Append(a.closed, p)
           z == [open |-> FALSE, at |-> 0, closed |-> C]
           m == Len(a.closed)
<1>1. a.closed \in Seq(Nat \X Nat) /\ i + 1 \in Nat /\ a.at \in Nat /\ m \in Nat
  BY DEF Matches, Acc
<1>2. p \in Nat \X Nat /\ p[1] = a.at /\ p[2] = i + 1
  BY <1>1
<1> HIDE DEF p
<1>3. /\ C \in Seq(Nat \X Nat) /\ Len(C) = m + 1 /\ C[m + 1] = p
      /\ \A k \in 1 .. m : C[k] = a.closed[k]
  BY <1>1, <1>2
<1> HIDE DEF C
<1>4. z \in Acc /\ z.open = FALSE /\ z.closed = C
  BY <1>3 DEF Acc
<1> HIDE DEF z
<1>5. Spanned(a.closed, h, i + 1)
  BY <1>1, SpansStay DEF Matches
<1>6. Spanned(C, h, i + 1)
  <2> SUFFICES ASSUME NEW k \in 1 .. m + 1
               PROVE  /\ C[k][1] \in 1 .. i + 1 /\ C[k][2] <= i + 1
                      /\ \A j \in C[k][1] .. C[k][2] - 1 : h[j]
    BY <1>3 DEF Spanned
  <2>1. CASE k = m + 1
    <3>1. a.at \in 1 .. i /\ \A j \in a.at .. i : h[j]
      BY DEF Matches
    <3>2. a.at \in 1 .. i + 1 /\ (i + 1) - 1 = i /\ i + 1 <= i + 1
      BY <3>1
    <3>3. C[k][1] = a.at /\ C[k][2] = i + 1
      BY <2>1, <1>2, <1>3
    <3> QED BY <3>1, <3>2, <3>3
  <2>2. CASE k # m + 1
    <3>1. k \in 1 .. m
      BY <2>2, <1>1
    <3>2. C[k] = a.closed[k]
      BY <3>1, <1>3
    <3> HIDE DEF m
    <3>3. /\ a.closed[k][1] \in 1 .. i + 1 /\ a.closed[k][2] <= i + 1
          /\ \A j \in a.closed[k][1] .. a.closed[k][2] - 1 : h[j]
      BY <3>1, <1>5 DEF Spanned, m
    <3> QED BY <3>2, <3>3
  <2> QED BY <2>1, <2>2
<1>7. ASSUME NEW j \in 1 .. i + 1, h[j] PROVE InSpan(C, j)
  <2>1. j \in 1 .. i
    <3>1. j # i + 1
      BY <1>7
    <3> QED BY <3>1
  <2>2. CASE InSpan(a.closed, j)
    <3>1. PICK k \in 1 .. m : j \in a.closed[k][1] .. a.closed[k][2] - 1
      BY <2>2 DEF InSpan
    <3>2. k \in 1 .. m + 1
      BY <1>1
    <3>3. j \in C[k][1] .. C[k][2] - 1
      BY <3>1, <1>3
    <3> QED BY <3>2, <3>3, <1>3 DEF InSpan
  <2>3. CASE a.at <= j
    <3>1. C[m + 1][1] = a.at /\ C[m + 1][2] = i + 1 /\ m + 1 \in 1 .. m + 1
      BY <1>1, <1>2, <1>3
    <3>2. j \in a.at .. (i + 1) - 1
      BY <2>1, <2>3, <1>1
    <3>3. j \in C[m + 1][1] .. C[m + 1][2] - 1
      BY <3>1, <3>2
    <3> QED BY <3>1, <3>3, <1>3 DEF InSpan
  <2> QED BY <2>1, <2>2, <2>3, <1>7 DEF Matches
<1>8. z.open = h[i + 1]
  BY <1>4
<1>9. Matches(z, h, i + 1)
  BY <1>4, <1>6, <1>7, <1>8 DEF Matches
<1> QED BY <1>9 DEF z, C, p

LEMMA MatchStays ==
    ASSUME NEW i \in Nat, NEW h, NEW a, Matches(a, h, i), h[i + 1] = h[i]
    PROVE  Matches(a, h, i + 1)
<1>1. a \in Acc /\ a.closed \in Seq(Nat \X Nat) /\ a.open = h[i + 1] /\ a.at \in Nat /\ a.open \in BOOLEAN
  BY DEF Matches, Acc
<1>2. Spanned(a.closed, h, i + 1)
  BY <1>1, SpansStay DEF Matches
<1>3. ASSUME a.open PROVE a.at \in 1 .. i + 1 /\ \A j \in a.at .. i + 1 : h[j]
  <2>1. a.at \in 1 .. i /\ \A j \in a.at .. i : h[j]
    BY <1>3 DEF Matches
  <2>2. h[i + 1]
    BY <1>1, <1>3
  <2>3. \A j \in a.at .. i + 1 : j = i + 1 \/ j \in a.at .. i
    BY <2>1
  <2>4. a.at \in 1 .. i + 1
    BY <2>1
  <2> QED BY <2>1, <2>2, <2>3, <2>4
<1>4. ASSUME NEW j \in 1 .. i + 1, h[j]
      PROVE  InSpan(a.closed, j) \/ (a.open /\ a.at <= j)
  <2>1. CASE j = i + 1
    <3>1. a.open
      BY <2>1, <1>1, <1>4
    <3>2. a.at \in 1 .. i + 1
      BY <3>1, <1>3
    <3>3. a.at <= j
      BY <3>2, <2>1
    <3> QED BY <3>1, <3>3
  <2>2. CASE j # i + 1
    <3>1. j \in 1 .. i
      BY <2>2
    <3> QED BY <3>1, <1>4 DEF Matches
  <2> QED BY <2>1, <2>2
<1> QED BY <1>1, <1>2, <1>3, <1>4 DEF Matches

\* runner.py:43-48 and :59-77, for flags that never enter and exit at one bar.
LEMMA CurveIsOfTrades ==
    ASSUME NEW n \in Nat, NEW F \in Flags(n), \A i \in 1 .. n : ~(F.entries[i] /\ F.exits[i]),
           NEW f, Pairs(f, F), NEW h, HeldFrom(h, F)
    PROVE  Matches(f[n], h, n)
<1> DEFINE T == {i \in 0 .. n : Matches(f[i], h, i)}
<1>1. f[0] = Flat /\ \A i \in 1 .. n : f[i] = PairFlags(f[i - 1], i, F)
  BY PairsRead
<1>2. /\ h[0] = FALSE
      /\ \A i \in 1 .. n : h[i] = (~F.exits[i] /\ (F.entries[i] \/ h[i - 1]))
  BY HoldsRead
<1>3. \A i \in 1 .. n : F.entries[i] \in BOOLEAN /\ F.exits[i] \in BOOLEAN
  BY FlagsLength
<1>4. 0 \in T
  <2>1. Flat \in Acc /\ Flat.open = FALSE /\ Flat.closed = <<>>
    BY DEF Flat, Acc
  <2>2. Spanned(<<>>, h, 0) /\ 1 .. 0 = {}
    BY DEF Spanned
  <2>3. Matches(Flat, h, 0)
    BY <2>1, <2>2, <1>2 DEF Matches
  <2> QED BY <2>3, <1>1
<1>5. ASSUME NEW i \in 1 .. n, i - 1 \in T PROVE i \in T
  <2> DEFINE q == i - 1
             a == f[q]
  <2>1. q \in Nat /\ q + 1 = i /\ i \in 0 .. n
    OBVIOUS
  <2>2. Matches(a, h, q)
    BY <1>5
  <2>3. f[i] = PairFlags(a, i, F) /\ h[i] = (~F.exits[i] /\ (F.entries[i] \/ h[q]))
    BY <1>1, <1>2
  <2>4. a.open \in BOOLEAN /\ a.open = h[q] /\ h[q] \in BOOLEAN
    BY <2>2 DEF Matches, Acc
  <2> HIDE DEF a, q
  <2>5. CASE F.entries[i] /\ ~a.open
    <3>1. f[i] = [open |-> TRUE, at |-> i, closed |-> a.closed] /\ h[i] = TRUE
      BY <2>3, <2>5, <1>3 DEF PairFlags
    <3>2. Matches([open |-> TRUE, at |-> q + 1, closed |-> a.closed], h, q + 1)
      BY <2>1, <2>2, <2>5, <3>1, MatchEnters
    <3> QED BY <2>1, <3>1, <3>2
  <2>6. CASE ~(F.entries[i] /\ ~a.open) /\ a.open /\ F.exits[i]
    <3>1. f[i] = [open |-> FALSE, at |-> 0, closed |-> Append(a.closed, <<a.at, i>>)] /\ h[i] = FALSE
      BY <2>3, <2>6 DEF PairFlags
    <3>2. Matches([open |-> FALSE, at |-> 0, closed |-> Append(a.closed, <<a.at, q + 1>>)], h, q + 1)
      BY <2>1, <2>2, <2>6, <3>1, MatchLeaves
    <3> QED BY <2>1, <3>1, <3>2
  <2>7. CASE ~(F.entries[i] /\ ~a.open) /\ ~(a.open /\ F.exits[i])
    <3>1. f[i] = a
      BY <2>3, <2>7 DEF PairFlags
    <3>2. h[i] = h[q]
      <4>1. CASE a.open
        <5>1. ~F.exits[i] /\ h[q] = TRUE
          BY <4>1, <2>4, <2>7
        <5> QED BY <5>1, <2>3
      <4>2. CASE ~a.open
        <5>1. ~F.entries[i] /\ h[q] = FALSE
          BY <4>2, <2>4, <2>7
        <5> QED BY <5>1, <2>3
      <4> QED BY <4>1, <4>2
    <3>3. Matches(a, h, q + 1)
      BY <2>1, <2>2, <3>2, MatchStays
    <3> QED BY <2>1, <3>1, <3>3
  <2> QED BY <2>5, <2>6, <2>7
<1> HIDE DEF T
<1>6. 0 .. n \subseteq T
  BY <1>4, <1>5, UpFromZero
<1>7. n \in 0 .. n
  OBVIOUS
<1> QED BY <1>6, <1>7 DEF T

\* Averages that cross upwards at a bar do not cross downwards there.
LEMMA CrossesAreFlags ==
    ASSUME BarsInv
    PROVE  LET F == SmaCross(bars, P.sma_fast, P.sma_slow)
           IN F \in Flags(Len(bars)) /\ \A i \in 1 .. Len(bars) : ~(F.entries[i] /\ F.exits[i])
<1> DEFINE n == Len(bars)
           c == Closes(bars)
           f == Rolling(c, P.sma_fast)
           s == Rolling(c, P.sma_slow)
           Both(i) == i > 1 /\ Known(f[i - 1]) /\ Known(s[i - 1])
           F == [entries |-> [i \in 1 .. n |-> Both(i) /\ f[i] > s[i] /\ f[i - 1] <= s[i - 1]],
                 exits   |-> [i \in 1 .. n |-> Both(i) /\ f[i] < s[i] /\ f[i - 1] >= s[i - 1]]]
<1>1. SmaCross(bars, P.sma_fast, P.sma_slow) = F
  BY DEF SmaCross
<1>2. n \in Nat
  BY DEF BarsInv
<1>3. F \in Flags(n)
  BY DEF Flags
<1>4. ASSUME NEW i \in 1 .. n PROVE ~(F.entries[i] /\ F.exits[i])
  <2> SUFFICES ASSUME Both(i), f[i] > s[i], f[i] < s[i] PROVE FALSE
    BY <1>4
  <2>1. History(bars)
    BY <1>2 DEF BarsInv, History
  <2>2. c \in Seq(Int) /\ Len(c) = n
    BY <2>1, ClosesAreInt
  <2>3. P.sma_fast \in Nat \ {0} /\ P.sma_slow \in Nat \ {0}
    BY PresetsAssumption
  <2>4. PICK j \in 1 .. n : j = i - 1
    BY <1>2
  <2> HIDE DEF c, n
  <2>5. /\ \A k \in 1 .. n : k >= P.sma_fast => f[k] \in Int
        /\ \A k \in 1 .. n : k < P.sma_fast => f[k] = NaN
    BY <2>2, <2>3, SmaIsNumber DEF Rolling
  <2>6. /\ \A k \in 1 .. n : k >= P.sma_slow => s[k] \in Int
        /\ \A k \in 1 .. n : k < P.sma_slow => s[k] = NaN
    BY <2>2, <2>3, SmaIsNumber DEF Rolling
  <2> HIDE DEF f, s
  <2>7. f[j] # NaN /\ s[j] # NaN
    BY <2>4 DEF Known
  <2>8. i >= P.sma_fast /\ i >= P.sma_slow
    BY <2>3, <2>4, <2>5, <2>6, <2>7
  <2>9. PICK x \in Int, y \in Int : x = f[i] /\ y = s[i]
    BY <2>5, <2>6, <2>8
  <2>10. x > y /\ x < y
    BY <2>9
  <2> QED BY <2>10
<1> QED BY <1>1, <1>3, <1>4

LEMMA CurveMatches ==
    ASSUME BarsInv
    PROVE  CurveMatchesTrades
<1> DEFINE n == Len(bars)
           F == SmaCross(bars, P.sma_fast, P.sma_slow)
           C == ClosedTrades(F)
           h == Position(F)
           held == {i \in 1 .. n : h[i]}
<1>1. n \in Nat /\ F \in Flags(n) /\ \A i \in 1 .. n : ~(F.entries[i] /\ F.exits[i])
  BY CrossesAreFlags DEF BarsInv
<1> HIDE DEF F, n
<1>2. PICK f : Pairs(f, F) /\ C = f[n].closed
  BY <1>1, RunnerReads
<1>3. HeldFrom(h, F)
  BY <1>1, RunnerReads
<1> DEFINE a == f[n]
<1>4. Matches(a, h, n)
  BY <1>1, <1>2, <1>3, CurveIsOfTrades
<1> HIDE DEF a, h, C
<1>5. C = a.closed /\ C \in Seq(Nat \X Nat) /\ a.at \in Nat
  BY <1>2, <1>4 DEF Matches, Acc, a
<1>6. ASSUME NEW k \in 1 .. Len(C) PROVE C[k][1] .. C[k][2] - 1 \subseteq held
  <2>1. C[k] \in Nat \X Nat
    BY <1>5
  <2>2. PICK x \in Nat, y \in Nat : x = C[k][1] /\ y = C[k][2]
    BY <2>1
  <2>3. x \in 1 .. n /\ y <= n /\ \A j \in x .. y - 1 : h[j]
    BY <2>2, <1>4, <1>5 DEF Matches, Spanned
  <2>4. \A j \in x .. y - 1 : j \in 1 .. n
    BY <2>3, <1>1
  <2> QED BY <2>2, <2>3, <2>4
<1>7. ASSUME NEW i \in held
      PROVE  \/ \E k \in 1 .. Len(C) : i \in C[k][1] .. C[k][2] - 1
             \/ \A j \in i .. n : j \in held
  <2>1. i \in 1 .. n /\ h[i]
    OBVIOUS
  <2>2. InSpan(C, i) \/ (a.open /\ a.at <= i)
    BY <2>1, <1>4, <1>5 DEF Matches
  <2>3. ASSUME a.open, a.at <= i, NEW j \in i .. n PROVE j \in held
    <3>1. j \in a.at .. n /\ j \in 1 .. n
      BY <2>1, <2>3, <1>1, <1>5
    <3> QED BY <3>1, <2>3, <1>4 DEF Matches
  <2> QED BY <2>2, <2>3 DEF InSpan
<1> QED BY <1>6, <1>7 DEF CurveMatchesTrades, F, n, C, h

\* signal_bridge.py:7-17: whatever the bars and the presets: the trades close
\* where their levels say and are valued by direction, the flags hand the
\* close-to-close runner the same trades, and a strategy's curve is held over
\* exactly the trades its win rate is made from.
THEOREM TradesAreHonest == Spec => []TradesHonest
<1>1. ASSUME MirrorsInv, RoomInv, ClosedAtFirstTouch PROVE TradesHonest
  <2>1. TypeOK /\ WinsGain
    BY <1>1, BarsAndWalksTyped, WalksGain
  <2>2. RunnerAgrees
    BY <1>1, FlagsAgree
  <2>3. CurveMatchesTrades
    BY <1>1, CurveMatches DEF RoomInv, WalksInv
  <2> QED BY <1>1, <2>1, <2>2, <2>3 DEF TradesHonest
<1> QED BY <1>1, MirrorsInvariant, RoomInvariant, TradesCloseAtFirstTouch, PTL
-----------------------------------------------------------------------------
(* Rules: what their trees come to, depth by depth.                         *)

\* A function of the depth, from a bottom up.
LEMMA LevelsExist ==
    ASSUME NEW X, NEW bottom \in X, NEW level \in [X -> X]
    PROVE  \E f \in [0 .. MaxDepth -> X] :
              f = [d \in 0 .. MaxDepth |-> level[IF d = 0 THEN bottom ELSE f[d - 1]]]
<1> DEFINE step == [d \in 1 .. MaxDepth |-> level]
<1>1. MaxDepth \in Nat /\ step \in [1 .. MaxDepth -> [X -> X]] /\ level[bottom] \in X
  BY RulesAssumption
<1>2. \A d \in 1 .. MaxDepth : step[d] = level
  OBVIOUS
<1> HIDE DEF step
<1>3. PICK f : Steps(f, MaxDepth, X, level[bottom], step)
  BY <1>1, RecursionExists
<1>4. /\ f \in [0 .. MaxDepth -> X] /\ f[0] = level[bottom]
      /\ \A d \in 1 .. MaxDepth : f[d] = level[f[d - 1]]
  BY <1>2, <1>3 DEF Steps
<1>5. \A d \in 0 .. MaxDepth : d = 0 \/ (d # 0 /\ d \in 1 .. MaxDepth)
  BY <1>1
<1>6. \A d \in 0 .. MaxDepth : f[d] = level[IF d = 0 THEN bottom ELSE f[d - 1]]
  BY <1>4, <1>5
<1>7. f = [d \in 0 .. MaxDepth |-> f[d]]
  BY <1>4
<1>8. f = [d \in 0 .. MaxDepth |-> level[IF d = 0 THEN bottom ELSE f[d - 1]]]
  BY <1>6, <1>7
<1> QED BY <1>4, <1>8

HoldingByDepth(f, snap) ==
    f = [d \in 0 .. MaxDepth |-> Holding(IF d = 0 THEN {} ELSE f[d - 1], snap)]
ParsingByDepth(f) == f = [d \in 0 .. MaxDepth |-> Parsing(IF d = 0 THEN {} ELSE f[d - 1])]
SeenByDepth(f) ==
    f = [d \in 0 .. MaxDepth |-> Collect(IF d = 0 THEN [n \in Nodes |-> {}] ELSE f[d - 1])]

\* What a tree evaluates to is what holds at its root, each depth from the one
\* below it.
LEMMA EvalByDepth ==
    ASSUME NEW snap
    PROVE  \E f : /\ \A n : Eval(n, snap) <=> n \in f[MaxDepth]
                  /\ f[0] = Holding({}, snap)
                  /\ \A d \in 1 .. MaxDepth : f[d] = Holding(f[d - 1], snap)
<1> DEFINE X == SUBSET Nodes
           level == [B \in X |-> Holding(B, snap)]
           h == CHOOSE f : HoldingByDepth(f, snap)
<1>1. level \in [X -> X] /\ {} \in X
  BY DEF Holding
<1>2. \A B \in X : level[B] = Holding(B, snap)
  OBVIOUS
<1> HIDE DEF level, X
<1>3. PICK f \in [0 .. MaxDepth -> X] :
         f = [d \in 0 .. MaxDepth |-> level[IF d = 0 THEN {} ELSE f[d - 1]]]
  BY <1>1, LevelsExist
<1>4. \A d \in 0 .. MaxDepth : (IF d = 0 THEN {} ELSE f[d - 1]) \in X
  <2>1. \A d \in 0 .. MaxDepth : d # 0 => d - 1 \in 0 .. MaxDepth
    BY RulesAssumption
  <2> QED BY <1>1, <1>3, <2>1
<1>5. \A d \in 0 .. MaxDepth : level[IF d = 0 THEN {} ELSE f[d - 1]]
                                   = Holding(IF d = 0 THEN {} ELSE f[d - 1], snap)
  BY <1>2, <1>4
<1>6. HoldingByDepth(f, snap)
  BY <1>3, <1>5 DEF HoldingByDepth
<1>7. HoldingByDepth(h, snap)
  BY <1>6
<1>8. \A n : Eval(n, snap) <=> n \in h[MaxDepth]
  BY DEF Eval, HoldingByDepth
<1> HIDE DEF h
<1>9. h[0] = Holding({}, snap) /\ \A d \in 1 .. MaxDepth : h[d] = Holding(h[d - 1], snap)
  <2>1. 0 \in 0 .. MaxDepth /\ \A d \in 1 .. MaxDepth : d \in 0 .. MaxDepth /\ d # 0
    BY RulesAssumption
  <2> QED BY <2>1, <1>7 DEF HoldingByDepth
<1> QED BY <1>8, <1>9

\* The same of parsing,
LEMMA ParsesByDepth ==
    \E f : /\ \A n : Parses(n) <=> n \in f[MaxDepth]
           /\ f[0] = Parsing({})
           /\ \A d \in 1 .. MaxDepth : f[d] = Parsing(f[d - 1])
<1> DEFINE X == SUBSET Nodes
           level == [B \in X |-> Parsing(B)]
           h == CHOOSE f : ParsingByDepth(f)
<1>1. level \in [X -> X] /\ {} \in X
  BY DEF Parsing
<1>2. \A B \in X : level[B] = Parsing(B)
  OBVIOUS
<1> HIDE DEF level, X
<1>3. PICK f \in [0 .. MaxDepth -> X] :
         f = [d \in 0 .. MaxDepth |-> level[IF d = 0 THEN {} ELSE f[d - 1]]]
  BY <1>1, LevelsExist
<1>4. \A d \in 0 .. MaxDepth : (IF d = 0 THEN {} ELSE f[d - 1]) \in X
  <2>1. \A d \in 0 .. MaxDepth : d # 0 => d - 1 \in 0 .. MaxDepth
    BY RulesAssumption
  <2> QED BY <1>1, <1>3, <2>1
<1>5. \A d \in 0 .. MaxDepth : level[IF d = 0 THEN {} ELSE f[d - 1]]
                                   = Parsing(IF d = 0 THEN {} ELSE f[d - 1])
  BY <1>2, <1>4
<1>6. ParsingByDepth(f)
  BY <1>3, <1>5 DEF ParsingByDepth
<1>7. ParsingByDepth(h)
  BY <1>6
<1>8. \A n : Parses(n) <=> n \in h[MaxDepth]
  BY DEF Parses, ParsingByDepth
<1> HIDE DEF h
<1>9. h[0] = Parsing({}) /\ \A d \in 1 .. MaxDepth : h[d] = Parsing(h[d - 1])
  <2>1. 0 \in 0 .. MaxDepth /\ \A d \in 1 .. MaxDepth : d \in 0 .. MaxDepth /\ d # 0
    BY RulesAssumption
  <2> QED BY <2>1, <1>7 DEF ParsingByDepth
<1> QED BY <1>8, <1>9

\* and of the indicators a tree asks for.
LEMMA RequiredByDepth ==
    \E f : /\ \A n \in Nodes : required_indicators(n) = f[MaxDepth][n]
           /\ f[0] = Collect([n \in Nodes |-> {}])
           /\ \A d \in 1 .. MaxDepth : f[d] = Collect(f[d - 1])
<1> DEFINE W == {<<n.ind, n.tf>> : n \in Nodes}
           X == [Nodes -> SUBSET W]
           none == [n \in Nodes |-> {}]
           level == [B \in X |-> Collect(B)]
           h == CHOOSE f : SeenByDepth(f)
<1>1. ASSUME NEW B \in X PROVE Collect(B) \in X
  <2>1. ASSUME NEW n \in Nodes, n.kind # "if"
        PROVE  UNION {B[n.nodes[i]] : i \in DOMAIN n.nodes} \subseteq W
    <3>1. \A i \in DOMAIN n.nodes : n.nodes[i] \in Nodes
      BY <2>1, RulesAssumption
    <3>2. \A i \in DOMAIN n.nodes : B[n.nodes[i]] \subseteq W
      BY <3>1
    <3> QED BY <3>2
  <2>2. \A n \in Nodes : {<<n.ind, n.tf>>} \subseteq W
    OBVIOUS
  <2> HIDE DEF W
  <2> QED BY <2>1, <2>2 DEF Collect
<1>2. level \in [X -> X] /\ none \in X
  <2>1. none \in X
    OBVIOUS
  <2> HIDE DEF X
  <2> QED BY <1>1, <2>1
<1>3. \A B \in X : level[B] = Collect(B)
  OBVIOUS
<1> HIDE DEF level, X, none
<1>4. PICK f \in [0 .. MaxDepth -> X] :
         f = [d \in 0 .. MaxDepth |-> level[IF d = 0 THEN none ELSE f[d - 1]]]
  BY <1>2, LevelsExist
<1>5. \A d \in 0 .. MaxDepth : (IF d = 0 THEN none ELSE f[d - 1]) \in X
  <2>1. \A d \in 0 .. MaxDepth : d # 0 => d - 1 \in 0 .. MaxDepth
    BY RulesAssumption
  <2> QED BY <1>2, <1>4, <2>1
<1>6. \A d \in 0 .. MaxDepth : level[IF d = 0 THEN none ELSE f[d - 1]]
                                   = Collect(IF d = 0 THEN none ELSE f[d - 1])
  BY <1>3, <1>5
<1>7. SeenByDepth(f)
  BY <1>4, <1>6 DEF SeenByDepth, none
<1>8. SeenByDepth(h)
  BY <1>7
<1>9. \A n \in Nodes : required_indicators(n) = h[MaxDepth][n]
  BY DEF required_indicators, SeenByDepth
<1> HIDE DEF h
<1>10. h[0] = Collect(none) /\ \A d \in 1 .. MaxDepth : h[d] = Collect(h[d - 1])
  <2>1. 0 \in 0 .. MaxDepth /\ \A d \in 1 .. MaxDepth : d \in 0 .. MaxDepth /\ d # 0
    BY RulesAssumption
  <2> QED BY <2>1, <1>8 DEF SeenByDepth, none
<1> QED BY <1>9, <1>10 DEF none

\* One snapshot has every value the other has, or does not have it.
LosesFrom(s, t) == \A tf \in Tfs, key \in Keys : Known(s[tf][key]) => s[tf][key] = t[tf][key]

\* evaluator.py:43-46: one call of _eval_node on a tree that parses, if its
\* calls on the children have not lost a "no".
LEMMA LossKeepsLevel ==
    ASSUME NEW s, NEW t, LosesFrom(s, t), NEW ok, NEW low, NEW high, ok \cap low \subseteq high
    PROVE  Parsing(ok) \cap Holding(low, s) \subseteq Holding(high, t)
<1> SUFFICES ASSUME NEW n \in Parsing(ok), n \in Holding(low, s) PROVE n \in Holding(high, t)
  OBVIOUS
<1>1. n \in Nodes
  BY DEF Parsing
<1>2. CASE n.kind = "if"
  <2>1. n.ind \in Keys /\ n.tf \in Tfs
    BY <1>2 DEF Parsing
  <2>2. Holds(n, s)
    BY <1>2 DEF Holding
  <2>3. s[n.tf][n.ind] = t[n.tf][n.ind]
    BY <2>1, <2>2 DEF LosesFrom, Holds
  <2>4. Holds(n, t)
    BY <2>2, <2>3 DEF Holds
  <2> QED BY <1>1, <1>2, <2>4 DEF Holding
<1>3. CASE n.kind = "all"
  <2>1. \A i \in DOMAIN n.nodes : n.nodes[i] \in ok /\ n.nodes[i] \in low
    BY <1>3 DEF Parsing, Holding
  <2>2. \A i \in DOMAIN n.nodes : n.nodes[i] \in high
    BY <2>1
  <2> QED BY <1>1, <1>3, <2>2 DEF Holding
<1>4. CASE n.kind = "any"
  <2>1. PICK i \in DOMAIN n.nodes : n.nodes[i] \in low
    BY <1>4 DEF Holding
  <2>2. n.nodes[i] \in ok
    BY <1>4 DEF Parsing
  <2>3. n.nodes[i] \in high
    BY <2>1, <2>2
  <2> QED BY <1>1, <1>4, <2>3 DEF Holding
<1> QED BY <1>2, <1>3, <1>4 DEF Parsing

\* evaluator.py:6, _eval_node: "a missing key or a NaN value evaluates to
\* False": a rule that fires on a snapshot fires on every one that has at least
\* the values of it, whatever is missing from either.
THEOREM LossNeverFires ==
    ASSUME NEW s, NEW t, LosesFrom(s, t), NEW rule, Parses(rule), Eval(rule, s)
    PROVE  Eval(rule, t)
<1>1. PICK f : /\ \A n : Parses(n) <=> n \in f[MaxDepth]
               /\ f[0] = Parsing({})
               /\ \A d \in 1 .. MaxDepth : f[d] = Parsing(f[d - 1])
  BY ParsesByDepth
<1>2. PICK g : /\ \A n : Eval(n, s) <=> n \in g[MaxDepth]
               /\ g[0] = Holding({}, s)
               /\ \A d \in 1 .. MaxDepth : g[d] = Holding(g[d - 1], s)
  BY EvalByDepth
<1>3. PICK h : /\ \A n : Eval(n, t) <=> n \in h[MaxDepth]
               /\ h[0] = Holding({}, t)
               /\ \A d \in 1 .. MaxDepth : h[d] = Holding(h[d - 1], t)
  BY EvalByDepth
<1> DEFINE T == {d \in 0 .. MaxDepth : f[d] \cap g[d] \subseteq h[d]}
<1>4. MaxDepth \in Nat /\ 0 \in 0 .. MaxDepth /\ MaxDepth \in 0 .. MaxDepth
  BY RulesAssumption
<1>5. 0 \in T
  <2>1. f[0] \cap g[0] \subseteq h[0]
    BY <1>1, <1>2, <1>3, LossKeepsLevel
  <2> QED BY <1>4, <2>1
<1>6. ASSUME NEW d \in 1 .. MaxDepth, d - 1 \in T PROVE d \in T
  <2>1. f[d - 1] \cap g[d - 1] \subseteq h[d - 1]
    BY <1>6
  <2>2. Parsing(f[d - 1]) \cap Holding(g[d - 1], s) \subseteq Holding(h[d - 1], t)
    BY <2>1, LossKeepsLevel
  <2>3. d \in 0 .. MaxDepth
    BY <1>4
  <2> QED BY <1>1, <1>2, <1>3, <2>2, <2>3
<1> HIDE DEF T
<1>7. MaxDepth \in T
  BY <1>4, <1>5, <1>6, UpFromZero
<1> QED BY <1>1, <1>2, <1>3, <1>7 DEF T

\* Two snapshots have the same values for what a node asks for.
SameFor(s, t, asked) == \A p \in asked : s[p[2]][p[1]] = t[p[2]][p[1]]

\* One call of _eval_node, if its calls on the children answer as they would
\* have over the other snapshot.
LEMMA AskedDecideLevel ==
    ASSUME NEW s, NEW t, NEW ok, NEW low, NEW high, NEW seen,
           \A n \in ok : SameFor(s, t, seen[n]) => (n \in low <=> n \in high)
    PROVE  \A n \in Parsing(ok) : SameFor(s, t, Collect(seen)[n])
                => (n \in Holding(low, s) <=> n \in Holding(high, t))
<1> SUFFICES ASSUME NEW n \in Parsing(ok), SameFor(s, t, Collect(seen)[n])
             PROVE  n \in Holding(low, s) <=> n \in Holding(high, t)
  OBVIOUS
<1>1. n \in Nodes
  BY DEF Parsing
<1>2. CASE n.kind = "if"
  <2>1. Collect(seen)[n] = {<<n.ind, n.tf>>}
    BY <1>1, <1>2 DEF Collect
  <2>2. s[n.tf][n.ind] = t[n.tf][n.ind]
    BY <2>1 DEF SameFor
  <2>3. Holds(n, s) <=> Holds(n, t)
    BY <2>2 DEF Holds
  <2> QED BY <1>1, <1>2, <2>3 DEF Holding
<1>3. CASE n.kind \in {"all", "any"}
  <2>1. Collect(seen)[n] = UNION {seen[n.nodes[i]] : i \in DOMAIN n.nodes}
    BY <1>1, <1>3 DEF Collect
  <2>2. \A i \in DOMAIN n.nodes : SameFor(s, t, seen[n.nodes[i]])
    BY <2>1 DEF SameFor
  <2>3. \A i \in DOMAIN n.nodes : n.nodes[i] \in ok
    BY <1>3 DEF Parsing
  <2>4. \A i \in DOMAIN n.nodes : n.nodes[i] \in low <=> n.nodes[i] \in high
    BY <2>2, <2>3
  <2> QED BY <1>1, <1>3, <2>4 DEF Holding
<1> QED BY <1>2, <1>3 DEF Parsing

\* evaluator.py:49-64: required_indicators names all that a rule looks at: two
\* snapshots that agree on it, the rule cannot tell apart.
THEOREM AskedDecide ==
    ASSUME NEW s, NEW t, NEW rule \in Nodes, Parses(rule),
           SameFor(s, t, required_indicators(rule))
    PROVE  Eval(rule, s) <=> Eval(rule, t)
<1>1. PICK f : /\ \A n : Parses(n) <=> n \in f[MaxDepth]
               /\ f[0] = Parsing({})
               /\ \A d \in 1 .. MaxDepth : f[d] = Parsing(f[d - 1])
  BY ParsesByDepth
<1>2. PICK g : /\ \A n : Eval(n, s) <=> n \in g[MaxDepth]
               /\ g[0] = Holding({}, s)
               /\ \A d \in 1 .. MaxDepth : g[d] = Holding(g[d - 1], s)
  BY EvalByDepth
<1>3. PICK h : /\ \A n : Eval(n, t) <=> n \in h[MaxDepth]
               /\ h[0] = Holding({}, t)
               /\ \A d \in 1 .. MaxDepth : h[d] = Holding(h[d - 1], t)
  BY EvalByDepth
<1>4. PICK k : /\ \A n \in Nodes : required_indicators(n) = k[MaxDepth][n]
               /\ k[0] = Collect([n \in Nodes |-> {}])
               /\ \A d \in 1 .. MaxDepth : k[d] = Collect(k[d - 1])
  BY RequiredByDepth
<1> DEFINE Same(d) == \A n \in f[d] : SameFor(s, t, k[d][n]) => (n \in g[d] <=> n \in h[d])
           T == {d \in 0 .. MaxDepth : Same(d)}
<1>5. MaxDepth \in Nat /\ 0 \in 0 .. MaxDepth /\ MaxDepth \in 0 .. MaxDepth
  BY RulesAssumption
<1>6. Same(0)
  <2> DEFINE none == [n \in Nodes |-> {}]
  <2>1. \A n \in {} : SameFor(s, t, none[n]) => (n \in {} <=> n \in {})
    OBVIOUS
  <2> HIDE DEF none
  <2>2. \A n \in Parsing({}) : SameFor(s, t, Collect(none)[n])
             => (n \in Holding({}, s) <=> n \in Holding({}, t))
    BY <2>1, AskedDecideLevel
  <2> QED BY <1>1, <1>2, <1>3, <1>4, <2>2 DEF none
<1>7. ASSUME NEW d \in 1 .. MaxDepth, Same(d - 1) PROVE Same(d)
  <2>1. \A n \in Parsing(f[d - 1]) : SameFor(s, t, Collect(k[d - 1])[n])
             => (n \in Holding(g[d - 1], s) <=> n \in Holding(h[d - 1], t))
    BY <1>7, AskedDecideLevel
  <2> QED BY <1>1, <1>2, <1>3, <1>4, <2>1
<1> HIDE DEF Same
<1>8. 0 \in T /\ \A d \in 1 .. MaxDepth : d - 1 \in T => d \in T
  <2>1. \A d \in 1 .. MaxDepth : d \in 0 .. MaxDepth
    BY <1>5
  <2> QED BY <1>5, <1>6, <1>7, <2>1
<1> HIDE DEF T
<1>9. MaxDepth \in T
  BY <1>5, <1>8, UpFromZero
<1>10. Same(MaxDepth)
  BY <1>9 DEF T
<1> QED BY <1>1, <1>2, <1>3, <1>4, <1>10 DEF Same

\* dsl.py:67-72: a tree that parses asks for indicators of timeframes there are.
LEMMA AsksForExisting ==
    ASSUME NEW rule \in Nodes, Parses(rule)
    PROVE  required_indicators(rule) \subseteq Keys \X Tfs
<1>1. PICK f : /\ \A n : Parses(n) <=> n \in f[MaxDepth]
               /\ f[0] = Parsing({})
               /\ \A d \in 1 .. MaxDepth : f[d] = Parsing(f[d - 1])
  BY ParsesByDepth
<1>2. PICK k : /\ \A n \in Nodes : required_indicators(n) = k[MaxDepth][n]
               /\ k[0] = Collect([n \in Nodes |-> {}])
               /\ \A d \in 1 .. MaxDepth : k[d] = Collect(k[d - 1])
  BY RequiredByDepth
<1> DEFINE Exist(ok, seen) == \A n \in ok : seen[n] \subseteq Keys \X Tfs
           T == {d \in 0 .. MaxDepth : Exist(f[d], k[d])}
<1>3. ASSUME NEW ok, NEW seen, Exist(ok, seen) PROVE Exist(Parsing(ok), Collect(seen))
  <2> SUFFICES ASSUME NEW n \in Parsing(ok) PROVE Collect(seen)[n] \subseteq Keys \X Tfs
    OBVIOUS
  <2>1. n \in Nodes
    BY DEF Parsing
  <2>2. CASE n.kind = "if"
    <3>1. n.ind \in Keys /\ n.tf \in Tfs
      BY <2>2 DEF Parsing
    <3> QED BY <2>1, <2>2, <3>1 DEF Collect
  <2>3. CASE n.kind \in {"all", "any"}
    <3>1. Collect(seen)[n] = UNION {seen[n.nodes[i]] : i \in DOMAIN n.nodes}
      BY <2>1, <2>3 DEF Collect
    <3>2. \A i \in DOMAIN n.nodes : n.nodes[i] \in ok
      BY <2>3 DEF Parsing
    <3>3. \A i \in DOMAIN n.nodes : seen[n.nodes[i]] \subseteq Keys \X Tfs
      BY <1>3, <3>2
    <3> QED BY <3>1, <3>3
  <2> QED BY <2>2, <2>3 DEF Parsing
<1>4. MaxDepth \in Nat /\ 0 \in 0 .. MaxDepth /\ MaxDepth \in 0 .. MaxDepth
  BY RulesAssumption
<1>5. \A seen : Exist({}, seen)
  OBVIOUS
<1> HIDE DEF Exist
<1>6. Exist(f[0], k[0])
  BY <1>1, <1>2, <1>3, <1>5
<1>7. \A d \in 1 .. MaxDepth : Exist(f[d - 1], k[d - 1]) => Exist(f[d], k[d])
  BY <1>1, <1>2, <1>3
<1>8. 0 \in T /\ \A d \in 1 .. MaxDepth : d - 1 \in T => d \in T
  <2>1. \A d \in 1 .. MaxDepth : d \in 0 .. MaxDepth
    BY <1>4
  <2> QED BY <1>4, <1>6, <1>7, <2>1
<1> HIDE DEF T
<1>9. MaxDepth \in T
  BY <1>4, <1>8, UpFromZero
<1>10. Exist(f[MaxDepth], k[MaxDepth])
  BY <1>9 DEF T
<1> QED BY <1>1, <1>2, <1>10 DEF Exist

\* evaluator.py:6: over any history, losing a value of the snapshot never makes
\* a rule fire, whatever its tree.
THEOREM NoRuleFiresOnMissingData == Spec => []MissingDataNeverFires
<1>1. MissingDataNeverFires
  <2> SUFFICES ASSUME NEW r \in RuleTrees, Parses(r), NEW key \in Keys,
                      Eval(r, [Snapshots EXCEPT ![Closing][key] = NaN])
               PROVE  Eval(r, Snapshots)
    BY DEF MissingDataNeverFires
  <2>1. LosesFrom([Snapshots EXCEPT ![Closing][key] = NaN], Snapshots)
    <3> DEFINE lost == [Snapshots EXCEPT ![Closing][key] = NaN]
    <3> SUFFICES ASSUME NEW tf \in Tfs, NEW k \in Keys, Known(lost[tf][k])
                 PROVE  lost[tf][k] = Snapshots[tf][k]
      BY DEF LosesFrom
    <3>1. DOMAIN Snapshots = Tfs /\ DOMAIN Snapshots[Closing] = Keys
      BY RuleHistoryAssumption DEF Snapshots, recompute_from_history
    <3>2. CASE tf = Closing /\ k = key
      <4>1. lost[tf][k] = NaN
        BY <3>1, <3>2, RuleHistoryAssumption
      <4> QED BY <4>1 DEF Known
    <3>3. CASE ~(tf = Closing /\ k = key)
      BY <3>1, <3>3, RuleHistoryAssumption
    <3> QED BY <3>2, <3>3
  <2> QED BY <2>1, LossNeverFires
<1> QED BY <1>1, PTL

\* scanner/worker.py:104-106: over any history and whatever rules are enabled, the
\* values the worker computes for them decide each as all values would.
THEOREM RequestedDecide == Spec => []RequestedSuffices
<1>1. RequestedSuffices
  <2> SUFFICES ASSUME NEW enabled \in SUBSET RuleTrees, NEW r \in enabled, Parses(r)
               PROVE  Eval(r, Restricted(Snapshots, Requested(enabled))) <=> Eval(r, Snapshots)
    BY DEF RequestedSuffices
  <2> DEFINE asked == Requested(enabled)
             loaded == Restricted(Snapshots, asked)
  <2>1. r \in Nodes
    BY RuleHistoryAssumption
  <2>2. required_indicators(r) \subseteq asked
    BY DEF Requested
  <2>3. SameFor(loaded, Snapshots, required_indicators(r))
    <3> HIDE DEF asked
    <3>1. ASSUME NEW p \in required_indicators(r)
          PROVE  loaded[p[2]][p[1]] = Snapshots[p[2]][p[1]]
      <4>1. p \in Keys \X Tfs /\ p \in asked
        BY <2>1, <2>2, AsksForExisting
      <4>2. PICK key \in Keys, tf \in Tfs : p = <<key, tf>>
        BY <4>1
      <4>3. loaded[tf][key] = Snapshots[tf][key]
        BY <4>1, <4>2 DEF Restricted
      <4> QED BY <4>2, <4>3
    <3> QED BY <3>1 DEF SameFor
  <2> QED BY <2>1, <2>3, AskedDecide
<1> QED BY <1>1, PTL

=============================================================================
