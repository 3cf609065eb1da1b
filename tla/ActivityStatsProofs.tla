------------------------ MODULE ActivityStatsProofs ------------------------
(***************************************************************************)
(* Proofs about ActivityStats, for every window length that divides the    *)
(* day, every query and every reachable state of Aggregation.              *)
(***************************************************************************)
EXTENDS ActivityStats, AggregationProofs, FiniteSetTheorems, FunctionTheorems

-----------------------------------------------------------------------------
(* Arithmetic of windows and days *)

\* Division with a remainder.
LEMMA Division ==
    ASSUME NEW d \in Nat \ {0}, NEW t \in Int
    PROVE  /\ t % d \in 0 .. d - 1 /\ t \div d \in Int
           /\ t = d * (t \div d) + (t % d)
BY Z3

\* Whatever is left below the divisor is the remainder.
LEMMA Remainder ==
    ASSUME NEW d \in Nat \ {0}, NEW t \in Int, NEW q \in Int, NEW r \in 0 .. d - 1,
           t = d * q + r
    PROVE  t % d = r
<1> DEFINE p == t \div d
           s == t % d
<1>1. p \in Int /\ s \in 0 .. d - 1 /\ t = d * p + s
    BY Division
<1> HIDE DEF p, s
<1>2. d * (p - q) = r - s /\ d * (q - p) = s - r
    BY <1>1
<1>3. ASSUME NEW k \in Int, k >= 1
      PROVE  d * k >= d
    BY <1>3
<1>4. ~ (p - q >= 1) /\ ~ (q - p >= 1)
    BY <1>1, <1>2, <1>3
<1>5. p = q
    BY <1>1, <1>4
<1> QED BY <1>1, <1>5 DEF s

\* The window of an instant: the aligned w with w <= t < w + Size.
LEMMA WindowOf ==
    ASSUME NEW t \in Int, NEW w \in Nat, Aligned(w), w <= t, t < w + Size
    PROVE  BucketStart(t) = w
<1>1. Size \in Nat \ {0}
    BY SizeAssumption
<1> DEFINE q == w \div Size
<1>2. w = Size * q /\ q \in Int
    BY <1>1, Division DEF Aligned
<1>3. t = Size * q + (t - w) /\ t - w \in 0 .. Size - 1
    BY <1>1, <1>2
<1>4. t % Size = t - w
    <2> HIDE DEF q
    <2> QED BY <1>1, <1>2, <1>3, Remainder
<1> QED BY <1>4 DEF BucketStart

\* Truncating the start of a range moves it below every window that holds a
\* later instant.
LEMMA FirstWindowBelow ==
    ASSUME NEW s \in Int, NEW t \in Int, NEW w \in Nat, Aligned(w), w <= t, t < w + Size, s <= t
    PROVE  BucketStart(s) <= w
<1> SUFFICES ASSUME BucketStart(s) > w PROVE FALSE
    <2>1. s % Size \in 0 .. Size - 1
        BY SizeAssumption, Division
    <2>2. BucketStart(s) \in Int
        BY <2>1, SizeAssumption DEF BucketStart
    <2> QED BY <2>2
<1> DEFINE p == s \div Size
           q == w \div Size
<1>1. p \in Int /\ q \in Int /\ w = Size * q /\ BucketStart(s) = Size * p
    <2>1. Size \in Nat \ {0}
        BY SizeAssumption
    <2>2. p \in Int /\ s % Size \in 0 .. Size - 1 /\ s = Size * p + (s % Size)
        BY <2>1, Division
    <2>3. q \in Int /\ w = Size * q + (w % Size)
        BY <2>1, Division
    <2>4. w = Size * q
        BY <2>1, <2>3 DEF Aligned
    <2> HIDE DEF p, q
    <2>5. BucketStart(s) = Size * p
        BY <2>1, <2>2 DEF BucketStart
    <2> QED BY <2>2, <2>3, <2>4, <2>5
<1>2. BucketStart(s) <= s
    BY SizeAssumption, Division DEF BucketStart
<1> HIDE DEF p, q
<1>3. Size * (p - q) > 0 /\ Size * (p - q) < Size
    BY <1>1, <1>2, SizeAssumption
<1>4. \A k \in Int : k >= 1 => Size * k >= Size
    BY SizeAssumption
<1>5. \A k \in Int : k <= 0 => Size * k <= 0
    BY SizeAssumption
<1>6. p - q \in Int /\ (p - q >= 1 \/ p - q <= 0)
    BY <1>1
<1> QED BY <1>3, <1>4, <1>5, <1>6, SizeAssumption

\* No window lies in two days, because the window length divides the day.
LEMMA DayOfWindow ==
    ASSUME NEW t \in Int, NEW w \in Nat, Aligned(w), w <= t, t < w + Size
    PROVE  DayOf(t) = DayOf(w)
<1>1. Size \in Nat \ {0} /\ Day \in Nat \ {0} /\ Aligned(Day)
    BY SizeAssumption, DayAssumption DEF Validated, Aligned
<1> DEFINE q == w \div Day
           r == w % Day
           m == Day \div Size
           k == w \div Size
<1>2. q \in Nat /\ r \in 0 .. Day - 1 /\ w = Day * q + r
    BY <1>1, Z3
<1>3. m \in Int /\ Day = Size * m /\ k \in Int /\ w = Size * k
    BY <1>1, Division DEF Aligned
<1> HIDE DEF q, r, m, k
<1>4. r = Size * (k - m * q)
    <2>1. Day * q = Size * (m * q)
        BY <1>1, <1>2, <1>3
    <2>2. m * q \in Int
        BY <1>2, <1>3
    <2> QED BY <1>1, <1>2, <1>3, <2>1, <2>2
<1>5. Aligned(r)
    <2>1. k - m * q \in Int /\ 0 \in 0 .. Size - 1
        BY <1>1, <1>2, <1>3
    <2>2. PICK i \in Int : i = k - m * q
        BY <2>1
    <2>3. r = Size * i + 0 /\ r \in Int
        BY <1>1, <1>2, <1>4, <2>2
    <2>4. r % Size = 0
        BY <1>1, <2>1, <2>3, Remainder
    <2> QED BY <2>4 DEF Aligned
<1>6. r + Size <= Day
    BY <1>1, <1>2, <1>5, AlignedGap
<1>7. t = Day * q + (r + (t - w)) /\ r + (t - w) \in 0 .. Day - 1
    BY <1>1, <1>2, <1>6
<1>8. t % Day = r + (t - w)
    <2>1. PICK i \in Int, j \in 0 .. Day - 1 : i = q /\ j = r + (t - w)
        BY <1>2, <1>7
    <2>2. t = Day * i + j
        BY <1>7, <2>1
    <2> QED BY <1>1, <2>1, <2>2, Remainder
<1> QED BY <1>2, <1>8 DEF DayOf, r

-----------------------------------------------------------------------------
(* Counting.  Rows hold finitely many events, so their sizes are numbers.  *)

\* The events table is finite.
FiniteEvents == IsFiniteSet(inflight) /\ IsFiniteSet(events)

\* Events arrive and are committed one at a time.
LEMMA FiniteStep == FiniteEvents /\ [Next]_vars => FiniteEvents'
<1> SUFFICES ASSUME FiniteEvents, [Next]_vars PROVE FiniteEvents'
    OBVIOUS
<1>1. \A S, x : IsFiniteSet(S) => IsFiniteSet(S \cup {x}) /\ IsFiniteSet(S \ {x})
    BY FS_AddElement, FS_RemoveElement
<1>2. CASE \E u \in Users, t \in Instants : ReceiveEvent(u, t)
    <2>1. PICK u \in Users, t \in Instants : ReceiveEvent(u, t)
        BY <1>2
    <2> QED BY <1>1, <2>1 DEF FiniteEvents, ReceiveEvent
<1>3. CASE \E e \in inflight : CommitEvent(e)
    <2>1. PICK e \in inflight : CommitEvent(e)
        BY <1>3
    <2> QED BY <1>1, <2>1 DEF FiniteEvents, CommitEvent
<1>4. CASE UNCHANGED eventVars
    BY <1>4 DEF FiniteEvents, eventVars
<1>5. [Next]_vars => \/ \E u \in Users, t \in Instants : ReceiveEvent(u, t)
                     \/ \E e \in inflight : CommitEvent(e)
                     \/ UNCHANGED eventVars
    BY DEF Next, vars, eventVars, Tick, RunnerStep, FaultStep, StartManual, ReapSession,
           StartPass, ReadWatermark, ReadEarliest, OpenRun, TryLockBucket, Upsert,
           CommitAggregate, RecordRun, FailRead, FailAggregate, LoseCommit, FailRecord, Crash
<1> QED BY <1>2, <1>3, <1>4, <1>5

\* One pair per event: pairing the events with something else changes no count.
LEMMA PairsCount ==
    ASSUME NEW P, NEW E, IsFiniteSet(E),
           \A p \in P : p[2] \in E,
           \A p, q \in P : p[2] = q[2] => p = q,
           \A e \in E : \E p \in P : p[2] = e
    PROVE  Cardinality(P) = Cardinality(E)
<1> DEFINE f == [p \in P |-> p[2]]
<1>1. f \in Bijection(P, E)
    BY DEF Bijection, Injection, Surjection, IsInjective
<1>2. ExistsBijection(P, E)
    BY <1>1 DEF ExistsBijection
<1>3. ExistsBijection(E, P)
    BY <1>2, Fun_ExistsBijSymmetric
<1> QED BY <1>3, FS_Bijection

-----------------------------------------------------------------------------
(* The two views *)

\* A counted event lies in one row, that of its own window, and in one day.
LEMMA RowOfEvent ==
    ASSUME TypeInv, SafeInv,
           NEW u \in Users, NEW w \in Times, NEW e \in buckets[u][w]
    PROVE  /\ e \in events /\ e.at \in Int /\ w \in Nat /\ Aligned(w)
           /\ w <= e.at /\ e.at < w + Size
           /\ BucketStart(e.at) = w /\ DayOf(e.at) = DayOf(w)
<1>1. e \in Event /\ w \in Nat
    <2>1. buckets \in [Users -> [Times -> SUBSET Event]]
        BY DEF TypeInv, TypeOK
    <2> QED BY <2>1, BoundsAssumption DEF Times
<1>2. e.at \in Int
    BY <1>1 DEF Event, Times
<1>3. Aligned(w)
    BY DEF SafeInv, WindowsAligned
<1>4. e \in events /\ w <= e.at /\ e.at < w + Size
    BY DEF SafeInv, RowsSound, InWindow
<1> QED BY <1>1, <1>2, <1>3, <1>4, WindowOf, DayOfWindow

\* Until and Since are instants, whatever the query leaves out.
LEMMA RangeType ==
    ASSUME TypeInv, NEW from \in Marks \cup {Absent}, NEW to \in Marks \cup {Absent}
    PROVE  Until(to) \in Int /\ Since(from, to) \in Int
<1>1. now \in Int
    BY DEF TypeInv, TypeOK, Times
<1>2. Until(to) \in Int
    BY <1>1, RangeAssumption DEF Until
<1> QED BY <1>2, RangeAssumption DEF Since

\* In one state: the answers by window and by day agree with the events.
LEMMA ViewsAgree == TypeInv /\ SafeInv /\ FiniteEvents => StatsAgree
<1> SUFFICES ASSUME TypeInv, SafeInv, FiniteEvents,
                    NEW u \in Users,
                    NEW from \in Marks \cup {Absent}, NEW to \in Marks \cup {Absent},
                    ~ Refused(from, to)
             PROVE  LET counted == UNION {buckets[u][w] : w \in Times}
                        windows == DOMAIN Stats(u, from, to, FALSE)
                        shown == {e \in counted : BucketStart(e.at) \in windows}
                        daily == Stats(u, from, to, TRUE)
                    IN  /\ \A e \in counted : Since(from, to) <= e.at /\ e.at < Until(to) => e \in shown
                        /\ DOMAIN daily = {DayOf(e.at) : e \in shown}
                        /\ \A d \in DOMAIN daily :
                               daily[d] = Cardinality({e \in shown : DayOf(e.at) = d})
    BY DEF StatsAgree
<1> DEFINE counted == UNION {buckets[u][w] : w \in Times}
           rows == Selected(u, from, to)
           shown == {e \in counted : BucketStart(e.at) \in rows}
           daily == Daily(u, from, to)
           OfDay(d) == UNION {{w} \X buckets[u][w] : w \in {v \in rows : DayOf(v) = d}}
<1>1. DOMAIN Stats(u, from, to, FALSE) = rows /\ Stats(u, from, to, TRUE) = daily
    <2>1. Stats(u, from, to, FALSE) = Buckets(u, from, to)
        BY DEF Stats
    <2>2. DOMAIN Buckets(u, from, to) = rows
        BY DEF Buckets
    <2>3. Stats(u, from, to, TRUE) = daily
        BY DEF Stats
    <2> QED BY <2>1, <2>2, <2>3
<1>2. /\ DOMAIN daily = {DayOf(w) : w \in rows}
      /\ \A d \in DOMAIN daily : daily[d] = Cardinality(OfDay(d))
    BY DEF Daily
<1>3. \A w \in rows : w \in Times /\ buckets[u][w] # {}
    BY DEF Selected
<1> HIDE DEF rows, daily
<1>4. ASSUME NEW e \in counted, Since(from, to) <= e.at, e.at < Until(to)
      PROVE  e \in shown
    <2>1. PICK w \in Times : e \in buckets[u][w]
        OBVIOUS
    <2>2. w \in Nat /\ e.at \in Int /\ Aligned(w) /\ w <= e.at /\ e.at < w + Size /\ BucketStart(e.at) = w
        BY <2>1, RowOfEvent
    <2>3. FirstWindow(from, to) <= w
        BY <1>4, <2>2, RangeType, FirstWindowBelow DEF FirstWindow
    <2>4. w < Until(to)
        BY <1>4, <2>2, RangeType
    <2>5. w \in rows
        BY <2>1, <2>3, <2>4 DEF rows, Selected
    <2> QED BY <2>2, <2>5
<1>5. ASSUME NEW e \in shown
      PROVE  BucketStart(e.at) \in rows /\ e \in buckets[u][BucketStart(e.at)]
             /\ DayOf(e.at) = DayOf(BucketStart(e.at)) /\ e \in events
    <2>1. PICK w \in Times : e \in buckets[u][w]
        OBVIOUS
    <2>2. BucketStart(e.at) = w /\ DayOf(e.at) = DayOf(w) /\ e \in events
        BY <2>1, RowOfEvent
    <2> QED BY <2>1, <2>2
<1>6. ASSUME NEW w \in rows, NEW e \in buckets[u][w]
      PROVE  e \in shown /\ BucketStart(e.at) = w /\ DayOf(e.at) = DayOf(w)
    <2>1. BucketStart(e.at) = w /\ DayOf(e.at) = DayOf(w)
        BY <1>3, RowOfEvent
    <2> QED BY <1>3, <2>1
<1> HIDE DEF counted, shown
<1>7. DOMAIN daily = {DayOf(e.at) : e \in shown}
    <2>1. ASSUME NEW w \in rows PROVE \E e \in shown : DayOf(e.at) = DayOf(w)
        BY <1>3, <1>6
    <2> QED BY <1>2, <1>5, <2>1
<1>8. ASSUME NEW d \in DOMAIN daily
      PROVE  Cardinality(OfDay(d)) = Cardinality({e \in shown : DayOf(e.at) = d})
    <2> DEFINE day == {e \in shown : DayOf(e.at) = d}
    <2>1. IsFiniteSet(day)
        <3>1. day \in SUBSET events
            BY <1>5
        <3> QED BY <3>1, FS_Subset DEF FiniteEvents
    <2>2. \A p \in OfDay(d) : p[1] \in rows /\ DayOf(p[1]) = d /\ p[2] \in buckets[u][p[1]]
                              /\ p = <<p[1], p[2]>>
        OBVIOUS
    <2>3. \A p \in OfDay(d) : p[2] \in day
        BY <1>6, <2>2
    <2>4. \A p, q \in OfDay(d) : p[2] = q[2] => p = q
        BY <1>6, <2>2
    <2>5. ASSUME NEW e \in day PROVE \E p \in OfDay(d) : p[2] = e
        <3>1. <<BucketStart(e.at), e>> \in OfDay(d)
            BY <1>5
        <3> QED BY <3>1
    <2>6. PICK P, E : P = OfDay(d) /\ E = day
        OBVIOUS
    <2>7. Cardinality(P) = Cardinality(E)
        <3> HIDE DEF OfDay, day
        <3> QED BY <2>1, <2>3, <2>4, <2>5, <2>6, PairsCount
    <2> QED BY <2>6, <2>7
<1>9. \A d \in DOMAIN daily : daily[d] = Cardinality({e \in shown : DayOf(e.at) = d})
    BY <1>2, <1>8
<1>10. \A e \in counted : Since(from, to) <= e.at /\ e.at < Until(to) => e \in shown
    BY <1>4
<1> HIDE DEF OfDay
<1> QED BY <1>1, <1>7, <1>9, <1>10, Zenon DEF shown, counted

\* The four-hour and the daily view of GET /stats/activity never disagree, and
\* neither misses a counted event of the requested range.
THEOREM ViewsNeverDisagree == Spec => []StatsAgree
<1>1. Init => FiniteEvents
    BY FS_EmptySet DEF Init, FiniteEvents
<1>2. Spec => []FiniteEvents
    BY <1>1, FiniteStep, PTL DEF Spec
<1> QED BY <1>2, Safe, ViewsAgree, PTL
=============================================================================
