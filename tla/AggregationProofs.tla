------------------------- MODULE AggregationProofs -------------------------
(***************************************************************************)
(* Proofs about Aggregation, for every set of workers, admins and users,   *)
(* every window length, backfill limit, skew and bound.                    *)
(***************************************************************************)
EXTENDS Aggregation, TLAPS

-----------------------------------------------------------------------------
(* Arithmetic of windows *)

\* Division by the window length.
LEMMA DivMod ==
    ASSUME NEW t \in Nat
    PROVE  /\ t % Size \in 0 .. Size - 1
           /\ t = Size * (t \div Size) + (t % Size)
           /\ t \div Size \in Nat
BY SizeAssumption, Z3

\* Naturals are closed under multiplication.
LEMMA ProductNat ==
    ASSUME NEW a \in Nat, NEW b \in Nat
    PROVE  a * b \in Nat
OBVIOUS

\* BucketStart truncates to the start of the window that holds the instant.
LEMMA BucketStartFacts ==
    ASSUME NEW t \in Nat
    PROVE  /\ BucketStart(t) \in Nat
           /\ BucketStart(t) <= t
           /\ t < BucketStart(t) + Size
           /\ Aligned(BucketStart(t))
<1>1. BucketStart(t) = Size * (t \div Size) /\ t % Size \in 0 .. Size - 1
    BY SizeAssumption, DivMod DEF BucketStart
<1>2. BucketStart(t) \in Nat /\ BucketStart(t) <= t /\ t < BucketStart(t) + Size
    BY SizeAssumption, DivMod DEF BucketStart
<1>3. \A k \in Nat : (Size * k) % Size = 0
    BY SizeAssumption, Z3
<1> QED BY <1>1, <1>2, <1>3, DivMod DEF Aligned

\* Two aligned instants are equal or at least one window apart.
LEMMA AlignedGap ==
    ASSUME NEW a \in Nat, NEW b \in Nat, Aligned(a), Aligned(b), b < a
    PROVE  b + Size <= a
<1> DEFINE i == a \div Size
           j == b \div Size
<1>1. /\ i \in Nat /\ j \in Nat
      /\ a = Size * i /\ b = Size * j
    BY DivMod, SizeAssumption DEF Aligned
<1> HIDE DEF i, j
<1>2. ASSUME NEW k \in Nat, NEW l \in Nat, k <= l
      PROVE  Size * l = Size * k + Size * (l - k) /\ Size * (l - k) \in Nat
    BY <1>2, SizeAssumption, ProductNat
<1>3. j < i
    BY <1>1, <1>2, SizeAssumption, ProductNat
<1>4. Size * i = Size * (j + 1) + Size * (i - (j + 1)) /\ Size * (i - (j + 1)) \in Nat
    <2>1. j + 1 \in Nat /\ j + 1 <= i
        BY <1>1, <1>3
    <2> QED BY <1>1, <1>2, <2>1
<1>5. Size * (j + 1) = b + Size
    BY <1>1, SizeAssumption
<1> QED BY <1>1, <1>4, <1>5, SizeAssumption

\* The window after an aligned one is aligned.
LEMMA AlignedNext ==
    ASSUME NEW a \in Nat, Aligned(a)
    PROVE  Aligned(a + Size)
<1> DEFINE i == a \div Size
<1>1. i \in Nat /\ a = Size * i
    BY DivMod, SizeAssumption DEF Aligned
<1>2. a + Size = Size * (i + 1)
    BY <1>1, SizeAssumption
<1>3. \A k \in Nat : (Size * k) % Size = 0
    BY SizeAssumption, Z3
<1> HIDE DEF i
<1>4. i + 1 \in Nat
    BY <1>1
<1> QED BY <1>2, <1>3, <1>4 DEF Aligned

\* What pendingBuckets plans lies between its first and the newest window.
LEMMA LastPlannedFacts ==
    ASSUME NEW from \in Nat, NEW newest \in Nat, from <= newest
    PROVE  LastPlanned(from, newest) \in from .. newest
<1>1. (Backfill - 1) * Size \in Nat
    BY SizeAssumption, BackfillAssumption, ProductNat
<1> QED BY <1>1 DEF LastPlanned

-----------------------------------------------------------------------------
(* Type correctness *)

\* The local state of a runner.
Proc == [pc : Phase, win : Times, until : Times, snap : SUBSET Event, status : Status]

\* The newest closed window, once a window's length has passed.
Clock == now >= Size

\* A run that is being recorded has an outcome.
Outcome == \A r \in Runners : At(r, "record") => proc[r].status # "none"

\* Type correctness with what the clock and the outcomes need to keep it.
TypeInv == TypeOK /\ Clock /\ Outcome

\* The local state of a runner with nothing to do is well typed.
LEMMA IdleType == Idle \in Proc
BY BoundsAssumption, SizeAssumption DEF Idle, Local, Proc, Phase, Status, Times

\* What pendingBuckets plans is a runner's local state.
LEMMA PlanType ==
    ASSUME TypeOK, NEW r \in Runners, NEW from \in Nat
    PROVE  Plan(r, from) \in Proc /\ Plan(r, from).pc # "record"
<1>1. proc[r] \in Proc
    BY DEF TypeOK, Proc
<1>2. CASE from > proc[r].until
    BY <1>2, IdleType DEF Plan, Idle, Local
<1>3. CASE ~(from > proc[r].until)
    <2>1. /\ from \in Times /\ proc[r].until \in Nat /\ from <= proc[r].until
          /\ proc[r].until <= Horizon
        BY <1>1, <1>3, BoundsAssumption DEF Proc, Times
    <2>2. LastPlanned(from, proc[r].until) \in Times
        BY <2>1, LastPlannedFacts, BoundsAssumption DEF Times
    <2> QED BY <1>3, <2>1, <2>2 DEF Plan, Local, Proc, Phase, Status
<1> QED BY <1>2, <1>3

\* Become changes the local state of one runner.
LEMMA BecomeFacts ==
    ASSUME TypeOK, NEW r \in Runners, NEW p \in Proc, Become(r, p)
    PROVE  /\ proc' \in [Runners -> Proc]
           /\ proc'[r] = p
           /\ \A s \in Runners : s # r => proc'[s] = proc[s]
BY DEF TypeOK, Become, Proc

\* The same for the type invariant: the other variables are typed by the
\* action, the local state by the record it becomes.
LEMMA BecomeType ==
    ASSUME TypeInv, NEW r \in Runners, NEW p \in Proc, Become(r, p),
           p.pc = "record" => p.status # "none"
    PROVE  proc' \in [Runners -> Proc] /\ Outcome'
BY BecomeFacts DEF TypeInv, Outcome, At

\* now - Size lies in a closed window, which starts at or after time 0.
LEMMA NewestClosedFacts ==
    ASSUME now \in Times, Clock
    PROVE  NewestClosed \in Times /\ Aligned(NewestClosed + Size) /\ NewestClosed + Size <= now
<1>1. now \in Nat /\ Size \in Nat /\ 0 < Size /\ now <= Horizon /\ Size <= now
    BY SizeAssumption, BoundsAssumption DEF Times, Clock
<1>2. /\ BucketStart(now) \in Nat /\ BucketStart(now) <= now
      /\ now < BucketStart(now) + Size /\ Aligned(BucketStart(now))
    BY <1>1, BucketStartFacts
<1>3. Aligned(0)
    BY SizeAssumption, DivMod DEF Aligned
<1>4. 0 + Size <= BucketStart(now)
    BY <1>1, <1>2, <1>3, AlignedGap
<1>5. NewestClosed \in Times
    BY <1>1, <1>2, <1>4, BoundsAssumption DEF NewestClosed, Times
<1>6. NewestClosed + Size = BucketStart(now)
    BY <1>1, <1>2 DEF NewestClosed
<1> QED BY <1>2, <1>5, <1>6

\* activity_buckets keeps its type when a transaction commits.
LEMMA WrittenType ==
    ASSUME TypeOK, NEW r \in Runners
    PROVE  Written(r) \in [Users -> [Times -> SUBSET Event]]
<1>1. proc[r].snap \subseteq Event
    BY DEF TypeOK
<1> QED BY <1>1 DEF Written, TypeOK

\* So does aggregation_runs when an attempt is recorded.
LEMMA RecordedType ==
    ASSUME TypeInv, NEW r \in Runners, At(r, "record")
    PROVE  Recorded(r) \subseteq Run
<1>1. proc[r].win \in Times /\ proc[r].status \in Status \ {"none"}
    BY DEF TypeInv, TypeOK, Outcome
<1> QED BY <1>1 DEF Recorded, Run, Trigger, TypeInv, TypeOK

\* RunPending's next window, after one was recorded, lies within the plan.
LEMMA AfterRecordType ==
    ASSUME TypeOK, NEW r \in Runners
    PROVE  AfterRecord(r) \in Proc /\ AfterRecord(r).pc # "record"
<1>1. proc[r] \in Proc
    BY DEF TypeOK, Proc
<1>2. CASE proc[r].status = "succeeded" /\ proc[r].win + Size <= proc[r].until
    <2>1. proc[r].win + Size \in Times
        BY <1>1, <1>2, SizeAssumption, BoundsAssumption DEF Proc, Times
    <2> QED BY <1>1, <1>2, <2>1 DEF AfterRecord, Proc, Phase, Status
<1>3. CASE ~(proc[r].status = "succeeded" /\ proc[r].win + Size <= proc[r].until)
    BY <1>3, IdleType DEF AfterRecord, Idle, Local
<1> QED BY <1>2, <1>3

\* Every step keeps the type invariant.
LEMMA TypeStep == TypeInv /\ [Next]_vars => TypeInv'
<1> SUFFICES ASSUME TypeInv, [Next]_vars PROVE TypeInv'
    OBVIOUS
<1>ty. /\ TypeOK /\ Clock /\ Outcome
       /\ \A r \in Runners : proc[r] \in Proc
    BY DEF TypeInv, TypeOK, Proc
<1>1. CASE Tick
    BY <1>1, <1>ty, BoundsAssumption, SizeAssumption
       DEF Tick, TypeInv, TypeOK, Clock, Outcome, At, Times, eventVars, dbVars
<1>2. ASSUME NEW u \in Users, NEW t \in Instants, ReceiveEvent(u, t) PROVE TypeInv'
    <2>1. [id |-> nextId, user |-> u, at |-> t] \in Event
        BY <1>2, <1>ty, BoundsAssumption DEF ReceiveEvent, TypeOK, Event, Times
    <2> QED BY <1>2, <2>1, <1>ty, BoundsAssumption
            DEF ReceiveEvent, TypeInv, TypeOK, Clock, Outcome, At, dbVars
<1>3. ASSUME NEW e \in inflight, CommitEvent(e) PROVE TypeInv'
    BY <1>3, <1>ty DEF CommitEvent, TypeInv, TypeOK, Clock, Outcome, At, dbVars
<1>4. ASSUME NEW r \in Runners, RunnerStep(r) PROVE TypeInv'
    <2>1. CASE StartPass(r)
        <3>1. Local("watermark", 0, NewestClosed) \in Proc
            BY <1>ty, NewestClosedFacts, BoundsAssumption
               DEF Local, Proc, Phase, Status, Times, TypeOK
        <3> QED BY <2>1, <3>1, <1>ty, BecomeType
                DEF StartPass, TypeInv, TypeOK, Proc, Clock, Local, eventVars, dbVars
    <2>2. CASE ReadWatermark(r)
        <3>1. PICK p \in Proc : Become(r, p) /\ p.pc # "record"
            <4>1. \A last \in Times : last + Size \in Nat
                BY SizeAssumption DEF Times
            <4>2. [proc[r] EXCEPT !.pc = "earliest"] \in Proc
                BY <1>ty DEF Proc, Phase
            <4> QED BY <2>2, <4>1, <4>2, <1>ty, PlanType DEF ReadWatermark, Proc
        <3> QED BY <2>2, <3>1, <1>ty, BecomeType
                DEF ReadWatermark, TypeInv, TypeOK, Proc, Clock, eventVars, dbVars
    <2>3. CASE ReadEarliest(r)
        <3>1. PICK p \in Proc : Become(r, p) /\ p.pc # "record"
            <4>0. \A e \in events : e.at \in Nat
                BY <1>ty DEF TypeOK, Event, Times
            <4>1. \A e \in events : BucketStart(e.at) \in Nat
                BY <4>0, BucketStartFacts
            <4>2. Idle.pc # "record"
                BY DEF Idle, Local
            <4> QED BY <2>3, <4>1, <4>2, <1>ty, PlanType, IdleType DEF ReadEarliest
        <3> QED BY <2>3, <3>1, <1>ty, BecomeType
                DEF ReadEarliest, TypeInv, TypeOK, Proc, Clock, eventVars, dbVars
    <2>4. CASE OpenRun(r)
        <3>1. PICK p \in Proc : Become(r, p) /\ p.pc # "record"
            <4>1. [proc[r] EXCEPT !.pc = "lock"] \in Proc
                BY <1>ty DEF Proc, Phase
            <4>2. Idle.pc # "record"
                BY DEF Idle, Local
            <4> QED BY <2>4, <4>1, <4>2, <1>ty, IdleType DEF OpenRun, Proc
        <3>2. asked' \in [Runners -> SUBSET Event]
            BY <2>4, <1>ty DEF OpenRun, TypeOK
        <3> QED BY <2>4, <3>1, <3>2, <1>ty, BecomeType
                DEF OpenRun, TypeInv, TypeOK, Proc, Clock, eventVars, dbVars
    <2>5. CASE TryLockBucket(r)
        <3>1. PICK p \in Proc : Become(r, p) /\ (p.pc = "record" => p.status # "none")
            <4>1. [proc[r] EXCEPT !.pc = "record", !.status = "skipped"] \in Proc
                BY <1>ty DEF Proc, Phase, Status
            <4>2. [proc[r] EXCEPT !.pc = "upsert"] \in Proc
                BY <1>ty DEF Proc, Phase
            <4> QED BY <2>5, <4>1, <4>2, <1>ty DEF TryLockBucket, Proc
        <3>2. locks' \subseteq Times
            BY <2>5, <1>ty DEF TryLockBucket, TypeOK
        <3> QED BY <2>5, <3>1, <3>2, <1>ty, BecomeType
                DEF TryLockBucket, TypeInv, TypeOK, Proc, Clock, eventVars
    <2>6. CASE Upsert(r)
        <3> DEFINE p == [proc[r] EXCEPT !.pc = "commit",
                                        !.snap = {e \in events : InWindow(e, proc[r].win)}]
        <3>1. p \in Proc /\ p.pc # "record"
            BY <1>ty DEF Proc, Phase, TypeOK
        <3> QED BY <2>6, <3>1, <1>ty, BecomeType
                DEF Upsert, TypeInv, TypeOK, Proc, Clock, eventVars, dbVars
    <2>7. CASE CommitAggregate(r)
        <3> DEFINE p == [proc[r] EXCEPT !.pc = "record", !.status = "succeeded", !.snap = {}]
        <3>1. p \in Proc /\ p.status # "none"
            BY <1>ty DEF Proc, Phase, Status
        <3> QED BY <2>7, <3>1, <1>ty, BecomeType, WrittenType
                DEF CommitAggregate, TypeInv, TypeOK, Proc, Clock, eventVars
    <2>8. CASE RecordRun(r)
        <3>1. asked' \in [Runners -> SUBSET Event] /\ promised' \subseteq Event
            BY <2>8, <1>ty DEF RecordRun, TypeOK
        <3> QED BY <2>8, <3>1, <1>ty, BecomeType, AfterRecordType, RecordedType
                DEF RecordRun, TypeInv, TypeOK, Proc, Clock, eventVars
    <2> QED BY <1>4, <2>1, <2>2, <2>3, <2>4, <2>5, <2>6, <2>7, <2>8 DEF RunnerStep
<1>5. ASSUME NEW r \in Runners, FaultStep(r) PROVE TypeInv'
    <2>1. /\ Idle \in Proc /\ Idle.pc # "record"
          /\ [proc[r] EXCEPT !.pc = "record", !.status = "failed", !.snap = {}] \in Proc
          /\ [proc[r] EXCEPT !.pc = "record", !.status = "failed", !.snap = {}].status # "none"
        BY <1>ty, IdleType DEF Proc, Phase, Status, Idle, Local
    <2>2. Fault => faults' \in 0 .. MaxFaults
        BY <1>ty, BoundsAssumption DEF Fault, TypeOK
    <2>3. [asked EXCEPT ![r] = {}] \in [Runners -> SUBSET Event]
        BY <1>ty DEF TypeOK
    <2>4. CASE FailRead(r)
        BY <2>4, <2>1, <2>2, <1>ty, BecomeType
           DEF FailRead, TypeInv, TypeOK, Proc, Clock, eventVars, dbVars
    <2>5. CASE FailAggregate(r)
        <3>1. locks' \subseteq Times
            BY <2>5, <1>ty DEF FailAggregate, TypeOK
        <3> QED BY <2>5, <3>1, <2>1, <2>2, <1>ty, BecomeType
                DEF FailAggregate, TypeInv, TypeOK, Proc, Clock, eventVars
    <2>6. CASE LoseCommit(r)
        BY <2>6, <2>1, <2>2, <1>ty, BecomeType, WrittenType
           DEF LoseCommit, TypeInv, TypeOK, Proc, Clock, eventVars
    <2>7. CASE FailRecord(r)
        <3>1. runs' \subseteq Run
            BY <2>7, <1>ty, RecordedType DEF FailRecord, TypeOK
        <3> QED BY <2>7, <3>1, <2>1, <2>2, <2>3, <1>ty, BecomeType
                DEF FailRecord, TypeInv, TypeOK, Proc, Clock, eventVars
    <2>8. CASE Crash(r)
        BY <2>8, <2>1, <2>2, <2>3, <1>ty, BecomeType
           DEF Crash, TypeInv, TypeOK, Proc, Clock, eventVars, dbVars
    <2> QED BY <1>5, <2>4, <2>5, <2>6, <2>7, <2>8 DEF FaultStep
<1>6. ASSUME NEW r \in Admins, NEW t \in Instants, StartManual(r, t) PROVE TypeInv'
    <2>1. r \in Runners /\ t \in Nat /\ t <= Horizon
        BY BoundsAssumption DEF Runners
    <2>2. Local("open", BucketStart(t), BucketStart(t)) \in Proc
        BY <2>1, BucketStartFacts, BoundsAssumption DEF Local, Proc, Phase, Status, Times
    <2> QED BY <1>6, <2>1, <2>2, <1>ty, BecomeType
            DEF StartManual, TypeInv, TypeOK, Proc, Clock, Local, eventVars, dbVars
<1>7. ASSUME NEW w \in locks, ReapSession(w) PROVE TypeInv'
    BY <1>7, <1>ty DEF ReapSession, TypeInv, TypeOK, Clock, Outcome, At, eventVars
<1>8. CASE UNCHANGED vars
    BY <1>8, <1>ty DEF vars, TypeInv, TypeOK, Clock, Outcome, At
<1> QED BY <1>1, <1>2, <1>3, <1>4, <1>5, <1>6, <1>7, <1>8 DEF Next

\* Type correctness of the whole pipeline.
THEOREM TypeCorrect == Spec => []TypeOK
<1>1. Init => TypeInv
    BY IdleType, BoundsAssumption, SizeAssumption
       DEF Init, TypeInv, TypeOK, Clock, Outcome, At, Proc, Idle, Local, Times, Event
<1> QED BY <1>1, TypeStep, PTL DEF Spec, TypeInv

-----------------------------------------------------------------------------
(***************************************************************************)
(* The safety argument.  While a transaction is open it owns its window    *)
(* (LocksOwned), so between its snapshot and its commit nobody changes the *)
(* rows it will replace and its snapshot stays a superset of them          *)
(* (SnapCurrent).  Hence rows only grow, and what a run was asked to count *)
(* is in its snapshot, then in the rows, and stays there (AskedKept).      *)
(***************************************************************************)

\* Windows are multiples of Size wherever they are stored.
WindowsAligned ==
    /\ \A r \in Runners : Aligned(proc[r].win)
    /\ \A run \in runs : Aligned(run.window)
    /\ \A u \in Users, w \in Times : buckets[u][w] # {} => Aligned(w)

\* RunBucket past its check, and every recorded run, is about a closed window.
WindowsClosed ==
    /\ \A r \in Runners : proc[r].pc \in {"lock", "upsert", "commit", "record"}
                            => Closed(proc[r].win)
    /\ \A run \in runs : Closed(run.window)

\* An open transaction holds its window's lock, alone.
LocksOwned ==
    /\ \A r \in Runners : InTx(r) => proc[r].win \in locks
    /\ \A r, s \in Runners : InTx(r) /\ InTx(s) /\ r # s => proc[r].win # proc[s].win

\* A snapshot is sound, and covers the rows it is about to replace.
SnapCurrent ==
    \A r \in Runners : At(r, "commit") =>
        /\ \A e \in proc[r].snap : e \in events /\ InWindow(e, proc[r].win)
        /\ \A u \in Users : buckets[u][proc[r].win] \subseteq proc[r].snap

\* What a run was asked to count makes its way into the rows.
AskedKept ==
    \A r \in Runners :
        /\ proc[r].pc \in {"lock", "upsert"} =>
               \A e \in asked[r] : e \in events /\ InWindow(e, proc[r].win)
        /\ At(r, "commit") => asked[r] \subseteq proc[r].snap
        /\ At(r, "record") /\ proc[r].status = "succeeded" =>
               \A e \in asked[r] : Counted(e)

\* The inductive invariant behind the properties of rows and runs.
SafeInv ==
    /\ WindowsAligned /\ WindowsClosed /\ LocksOwned
    /\ RowsSound /\ SnapCurrent /\ AskedKept /\ SucceededRunsCounted

\* A runner that is not past RunBucket's check, and others as they were: the
\* shape of every step that only moves one runner between windows.
LEMMA QuietStep ==
    ASSUME TypeInv, SafeInv, NEW r \in Runners, NEW p \in Proc, Become(r, p),
           p.pc \in {"idle", "watermark", "earliest", "open"}, Aligned(p.win),
           UNCHANGED <<now, events, buckets, locks>>,
           \A s \in Runners : s # r => asked'[s] = asked[s],
           \A run \in runs' : Aligned(run.window) /\ Closed(run.window),
           \A e \in promised' : Counted(e)
    PROVE  SafeInv'
<1>1. /\ proc'[r] = p
      /\ \A s \in Runners : s # r => proc'[s] = proc[s]
    BY BecomeFacts DEF TypeInv
<1>2. WindowsAligned'
    BY <1>1 DEF SafeInv, WindowsAligned, Aligned
<1>3. WindowsClosed'
    BY <1>1 DEF SafeInv, WindowsClosed, Closed
<1>4. LocksOwned'
    BY <1>1 DEF SafeInv, LocksOwned, InTx
<1>5. RowsSound'
    BY DEF SafeInv, RowsSound, InWindow, Closed
<1>6. SnapCurrent'
    BY <1>1 DEF SafeInv, SnapCurrent, At, InWindow
<1>7. AskedKept'
    BY <1>1 DEF SafeInv, AskedKept, At, InWindow, Counted
<1>8. SucceededRunsCounted'
    BY DEF SucceededRunsCounted, Counted
<1> QED BY <1>2, <1>3, <1>4, <1>5, <1>6, <1>7, <1>8 DEF SafeInv

\* What becomes visible when the transaction of r commits: rows only grow,
\* everything in the snapshot is counted, and the rows stay sound.
LEMMA CommitFacts ==
    ASSUME TypeInv, SafeInv, NEW r \in Runners, At(r, "commit"),
           buckets' = Written(r), UNCHANGED <<now, events>>
    PROVE  /\ \A u \in Users, w \in Times : buckets[u][w] \subseteq buckets'[u][w]
           /\ \A u \in Users, w \in Times : w # proc[r].win => buckets'[u][w] = buckets[u][w]
           /\ \A e \in proc[r].snap : Counted(e)'
           /\ \A e : Counted(e) /\ e \in Event => Counted(e)'
           /\ RowsSound'
           /\ \A u \in Users, w \in Times : buckets'[u][w] # {} => Aligned(w)
<1>1. /\ proc[r].win \in Times /\ proc[r].snap \subseteq Event
      /\ buckets \in [Users -> [Times -> SUBSET Event]]
    BY DEF TypeInv, TypeOK
<1>2. /\ \A e \in proc[r].snap : e \in events /\ InWindow(e, proc[r].win)
      /\ \A u \in Users : buckets[u][proc[r].win] \subseteq proc[r].snap
      /\ Closed(proc[r].win) /\ Aligned(proc[r].win)
    BY DEF SafeInv, SnapCurrent, WindowsClosed, WindowsAligned, At
<1>3. \A u \in Users, w \in Times :
        buckets'[u][w] = IF w = proc[r].win /\ {e \in proc[r].snap : e.user = u} # {}
                         THEN {e \in proc[r].snap : e.user = u}
                         ELSE buckets[u][w]
    BY DEF Written
<1>4. \A u \in Users : \A e \in buckets[u][proc[r].win] : e.user = u
    BY <1>1 DEF SafeInv, RowsSound
<1>5. \A u \in Users, w \in Times : buckets[u][w] \subseteq buckets'[u][w]
    BY <1>2, <1>3, <1>4
<1>6. \A u \in Users, w \in Times : w # proc[r].win => buckets'[u][w] = buckets[u][w]
    BY <1>3
<1>7. \A e \in Event : e.user \in Users
    BY DEF Event
<1>8. \A e \in proc[r].snap : Counted(e)'
    BY <1>1, <1>3, <1>7 DEF Counted
<1>9. \A e : Counted(e) /\ e \in Event => Counted(e)'
    BY <1>5, <1>7 DEF Counted
<1>10. RowsSound'
    <2> SUFFICES ASSUME NEW u \in Users, NEW w \in Times, NEW e \in buckets'[u][w]
                 PROVE  e \in events /\ e.user = u /\ InWindow(e, w) /\ Closed(w)
        BY DEF RowsSound, InWindow, Closed
    <2>1. CASE e \in buckets[u][w]
        BY <2>1 DEF SafeInv, RowsSound
    <2>2. CASE e \notin buckets[u][w]
        <3>1. w = proc[r].win /\ e \in {f \in proc[r].snap : f.user = u}
            BY <2>2, <1>3
        <3> QED BY <3>1, <1>2
    <2> QED BY <2>1, <2>2
<1>11. \A u \in Users, w \in Times : buckets'[u][w] # {} => Aligned(w)
    BY <1>2, <1>3 DEF SafeInv, WindowsAligned
<1> QED BY <1>5, <1>6, <1>8, <1>9, <1>10, <1>11

\* The transaction of r ends, committed or not, and its run is to be recorded.
LEMMA EndTxStep ==
    ASSUME TypeInv, SafeInv, NEW r \in Runners, NEW p \in Proc, Become(r, p),
           proc[r].pc \in {"lock", "upsert", "commit"},
           p.pc = "record", p.win = proc[r].win,
           \/ buckets' = buckets /\ p.status # "succeeded"
           \/ At(r, "commit") /\ buckets' = Written(r),
           locks' = IF InTx(r) THEN locks \ {proc[r].win} ELSE locks,
           UNCHANGED <<now, events, runs, asked, promised>>
    PROVE  SafeInv'
<1>1. /\ proc'[r] = p
      /\ \A s \in Runners : s # r => proc'[s] = proc[s]
    BY BecomeFacts DEF TypeInv
<1>2. /\ \A r1 \in Runners : proc[r1].win \in Times /\ asked[r1] \subseteq Event
      /\ promised \subseteq Event
    BY DEF TypeInv, TypeOK
<1>3. /\ RowsSound'
      /\ \A u \in Users, w \in Times : buckets'[u][w] # {} => Aligned(w)
      /\ \A e \in Event : Counted(e) => Counted(e)'
    <2>1. CASE buckets' = buckets
        BY <2>1 DEF SafeInv, RowsSound, WindowsAligned, Counted, InWindow, Closed
    <2>2. CASE At(r, "commit") /\ buckets' = Written(r)
        BY <2>2, CommitFacts
    <2> QED BY <2>1, <2>2
<1>4. WindowsAligned'
    BY <1>1, <1>3 DEF SafeInv, WindowsAligned, Aligned
<1>5. WindowsClosed'
    BY <1>1 DEF SafeInv, WindowsClosed, Closed
<1>6. LocksOwned'
    BY <1>1 DEF SafeInv, LocksOwned, InTx
<1>7. SnapCurrent'
    <2> SUFFICES ASSUME NEW s \in Runners, At(s, "commit")'
                 PROVE  /\ \A e \in proc[s].snap : e \in events /\ InWindow(e, proc[s].win)
                        /\ \A u \in Users : buckets'[u][proc[s].win] \subseteq proc[s].snap
                        /\ s # r
        BY <1>1 DEF SnapCurrent, At, InWindow
    <2>1. s # r /\ At(s, "commit")
        BY <1>1 DEF At
    <2>2. \A u \in Users : buckets'[u][proc[s].win] = buckets[u][proc[s].win]
        <3>1. CASE buckets' = buckets
            BY <3>1
        <3>2. CASE At(r, "commit") /\ buckets' = Written(r)
            <4>1. proc[s].win # proc[r].win
                BY <2>1, <3>2 DEF SafeInv, LocksOwned, InTx, At
            <4> QED BY <3>2, <4>1, <1>2, CommitFacts
        <3> QED BY <3>1, <3>2
    <2> QED BY <2>1, <2>2 DEF SafeInv, SnapCurrent
<1>8. AskedKept'
    <2> SUFFICES ASSUME NEW s \in Runners
                 PROVE  /\ proc'[s].pc \in {"lock", "upsert"} =>
                             \A e \in asked[s] : e \in events /\ InWindow(e, proc'[s].win)
                        /\ proc'[s].pc = "commit" => asked[s] \subseteq proc'[s].snap
                        /\ proc'[s].pc = "record" /\ proc'[s].status = "succeeded" =>
                             \A e \in asked[s] : Counted(e)'
        BY DEF AskedKept, At, InWindow
    <2>1. CASE s # r
        BY <2>1, <1>1, <1>2, <1>3 DEF SafeInv, AskedKept, At
    <2>2. CASE s = r
        <3>1. CASE p.status # "succeeded"
            BY <2>2, <3>1, <1>1
        <3>2. CASE At(r, "commit") /\ buckets' = Written(r)
            BY <2>2, <3>2, <1>1, CommitFacts DEF SafeInv, AskedKept
        <3> QED BY <3>1, <3>2
    <2> QED BY <2>1, <2>2
<1>9. SucceededRunsCounted'
    BY <1>2, <1>3 DEF SafeInv, SucceededRunsCounted
<1> QED BY <1>3, <1>4, <1>5, <1>6, <1>7, <1>8, <1>9 DEF SafeInv

\* Every step keeps the safety invariant.
LEMMA SafeStep == TypeInv /\ TypeInv' /\ SafeInv /\ [Next]_vars => SafeInv'
<1> SUFFICES ASSUME TypeInv, TypeInv', SafeInv, [Next]_vars PROVE SafeInv'
    OBVIOUS
<1>ty. /\ TypeOK /\ Clock
       /\ \A r \in Runners : proc[r] \in Proc
       /\ events \subseteq Event /\ \A e \in Event : e.at \in Nat
       /\ now \in Nat /\ Size \in Nat
       /\ Idle \in Proc /\ Idle.pc = "idle" /\ Aligned(Idle.win)
    <2>1. Aligned(0)
        BY SizeAssumption, DivMod DEF Aligned
    <2> QED BY <2>1, IdleType, BoundsAssumption, SizeAssumption
            DEF TypeInv, TypeOK, Proc, Event, Times, Idle, Local
<1>al. /\ \A r \in Runners : Aligned(proc[r].win)
       /\ \A run \in runs : Aligned(run.window) /\ Closed(run.window)
       /\ \A e \in promised : Counted(e)
    BY DEF SafeInv, WindowsAligned, WindowsClosed, SucceededRunsCounted
<1>pl. ASSUME NEW r \in Runners, NEW from \in Nat, Aligned(from)
       PROVE  /\ Plan(r, from) \in Proc /\ Aligned(Plan(r, from).win)
              /\ Plan(r, from).pc \in {"idle", "open"}
    BY <1>pl, <1>ty, PlanType DEF Plan, Local
<1>1. CASE Tick
    <2>1. \A w \in Times : Closed(w) => Closed(w)'
        BY <1>1, <1>ty DEF Tick, Closed, Times
    <2>2. \A r \in Runners : proc[r].win \in Times
        BY <1>ty DEF Proc
    <2>3. \A run \in runs : run.window \in Times
        BY <1>ty DEF TypeOK, Run
    <2>4. WindowsClosed' /\ RowsSound'
        BY <1>1, <2>1, <2>2, <2>3
           DEF Tick, SafeInv, WindowsClosed, RowsSound, InWindow, eventVars, dbVars
    <2> QED BY <1>1, <2>4
            DEF Tick, SafeInv, WindowsAligned, LocksOwned, SnapCurrent, AskedKept,
                SucceededRunsCounted, InTx, At, InWindow, Counted, Aligned, eventVars, dbVars
<1>2. ASSUME NEW u \in Users, NEW t \in Instants, ReceiveEvent(u, t) PROVE SafeInv'
    BY <1>2
       DEF ReceiveEvent, SafeInv, WindowsAligned, WindowsClosed, LocksOwned, RowsSound,
           SnapCurrent, AskedKept, SucceededRunsCounted, InTx, At, InWindow, Counted,
           Aligned, Closed, dbVars
<1>3. ASSUME NEW e \in inflight, CommitEvent(e) PROVE SafeInv'
    <2>1. RowsSound' /\ SnapCurrent' /\ AskedKept'
        BY <1>3 DEF CommitEvent, SafeInv, RowsSound, SnapCurrent, AskedKept, At,
                    InWindow, Closed, Counted, dbVars
    <2> QED BY <1>3, <2>1
            DEF CommitEvent, SafeInv, WindowsAligned, WindowsClosed, LocksOwned,
                SucceededRunsCounted, InTx, Counted, Aligned, Closed, dbVars
<1>4. ASSUME NEW r \in Runners, RunnerStep(r) PROVE SafeInv'
    <2>1. CASE StartPass(r)
        <3>1. /\ Local("watermark", 0, NewestClosed) \in Proc
              /\ Aligned(0)
            BY <1>ty, NewestClosedFacts, BoundsAssumption
               DEF Local, Proc, Phase, Status, Times, TypeOK, Idle
        <3> QED BY <2>1, <3>1, <1>al, QuietStep DEF StartPass, Local, eventVars, dbVars
    <2>2. CASE ReadWatermark(r)
        <3>1. PICK p \in Proc : /\ Become(r, p) /\ Aligned(p.win)
                                /\ p.pc \in {"idle", "watermark", "earliest", "open"}
            <4>1. CASE Succeeded = {} /\ Become(r, [proc[r] EXCEPT !.pc = "earliest"])
                <5>1. /\ [proc[r] EXCEPT !.pc = "earliest"] \in Proc
                      /\ [proc[r] EXCEPT !.pc = "earliest"].win = proc[r].win
                      /\ [proc[r] EXCEPT !.pc = "earliest"].pc = "earliest"
                    BY <1>ty DEF Proc, Phase
                <5> QED BY <4>1, <5>1, <1>al
            <4>2. ASSUME NEW last \in Times, IsLastSucceeded(last),
                         Become(r, Plan(r, last + Size))
                  PROVE  \E p \in Proc : /\ Become(r, p) /\ Aligned(p.win)
                                         /\ p.pc \in {"idle", "watermark", "earliest", "open"}
                <5>1. last \in Nat /\ Aligned(last)
                    BY <4>2, <1>al DEF IsLastSucceeded, Succeeded, Times
                <5>2. last + Size \in Nat /\ Aligned(last + Size)
                    BY <5>1, <1>ty, AlignedNext
                <5> QED BY <4>2, <5>2, <1>pl
            <4> QED BY <2>2, <4>1, <4>2 DEF ReadWatermark
        <3> QED BY <2>2, <3>1, <1>al, QuietStep DEF ReadWatermark, eventVars, dbVars
    <2>3. CASE ReadEarliest(r)
        <3>1. PICK p \in Proc : /\ Become(r, p) /\ Aligned(p.win)
                                /\ p.pc \in {"idle", "watermark", "earliest", "open"}
            <4>1. \A e \in events : BucketStart(e.at) \in Nat /\ Aligned(BucketStart(e.at))
                BY <1>ty, BucketStartFacts
            <4> QED BY <2>3, <4>1, <1>ty, <1>pl DEF ReadEarliest
        <3> QED BY <2>3, <3>1, <1>al, QuietStep DEF ReadEarliest, eventVars, dbVars
    <2>4. CASE OpenRun(r) /\ ~ Closed(proc[r].win)
        BY <2>4, <1>ty, <1>al, QuietStep DEF OpenRun, eventVars, dbVars
    <2>5. CASE OpenRun(r) /\ Closed(proc[r].win)
        <3> DEFINE p == [proc[r] EXCEPT !.pc = "lock"]
        <3>1. p \in Proc /\ p.pc = "lock" /\ p.win = proc[r].win
            BY <1>ty DEF Proc, Phase
        <3>2. /\ proc'[r] = p /\ \A s \in Runners : s # r => proc'[s] = proc[s]
              /\ asked'[r] = {e \in events : InWindow(e, proc[r].win)}
              /\ \A s \in Runners : s # r => asked'[s] = asked[s]
            BY <2>5, <3>1, <1>ty, BecomeFacts DEF OpenRun, TypeOK
        <3> HIDE DEF p
        <3>3. AskedKept'
            BY <2>5, <3>1, <3>2 DEF SafeInv, AskedKept, OpenRun, At, InWindow, Counted, eventVars, dbVars
        <3>4. WindowsAligned' /\ WindowsClosed' /\ LocksOwned'
            BY <2>5, <3>1, <3>2
               DEF SafeInv, WindowsAligned, WindowsClosed, LocksOwned, OpenRun, InTx,
                   Aligned, Closed, eventVars, dbVars
        <3>5. SnapCurrent'
            BY <2>5, <3>1, <3>2 DEF SafeInv, SnapCurrent, OpenRun, At, InWindow, eventVars, dbVars
        <3> QED BY <2>5, <3>3, <3>4, <3>5
                DEF SafeInv, RowsSound, SucceededRunsCounted, OpenRun, InWindow, Closed,
                    Counted, eventVars, dbVars
    <2>6. CASE TryLockBucket(r) /\ proc[r].win \in locks
        <3> DEFINE p == [proc[r] EXCEPT !.pc = "record", !.status = "skipped"]
        <3>1. p \in Proc /\ p.pc = "record" /\ p.win = proc[r].win /\ p.status = "skipped"
            BY <1>ty DEF Proc, Phase, Status
        <3>2. Become(r, p) /\ ~ InTx(r)
            BY <2>6 DEF TryLockBucket, At, InTx
        <3> HIDE DEF p
        <3> QED BY <2>6, <3>1, <3>2, EndTxStep DEF TryLockBucket, At, eventVars
    <2>7. CASE TryLockBucket(r) /\ proc[r].win \notin locks
        <3> DEFINE p == [proc[r] EXCEPT !.pc = "upsert"]
        <3>1. p \in Proc /\ p.pc = "upsert" /\ p.win = proc[r].win
            BY <1>ty DEF Proc, Phase
        <3>2. /\ proc'[r] = p /\ \A s \in Runners : s # r => proc'[s] = proc[s]
              /\ locks' = locks \cup {proc[r].win} /\ At(r, "lock")
            BY <2>7, <3>1, <1>ty, BecomeFacts DEF TryLockBucket
        <3> HIDE DEF p
        <3>3. LocksOwned'
            BY <2>7, <3>1, <3>2 DEF SafeInv, LocksOwned, InTx
        <3>4. WindowsAligned' /\ WindowsClosed'
            BY <2>7, <3>1, <3>2
               DEF SafeInv, WindowsAligned, WindowsClosed, TryLockBucket, At,
                   Aligned, Closed, eventVars
        <3>5. AskedKept' /\ SnapCurrent'
            BY <2>7, <3>1, <3>2
               DEF SafeInv, AskedKept, SnapCurrent, TryLockBucket, At, InWindow, Counted, eventVars
        <3> QED BY <2>7, <3>3, <3>4, <3>5
                DEF SafeInv, RowsSound, SucceededRunsCounted, TryLockBucket, InWindow,
                    Closed, Counted, eventVars
    <2>8. CASE Upsert(r)
        <3> DEFINE snap == {e \in events : InWindow(e, proc[r].win)}
                   p == [proc[r] EXCEPT !.pc = "commit", !.snap = snap]
        <3>1. p \in Proc /\ p.pc = "commit" /\ p.win = proc[r].win /\ p.snap = snap
            BY <1>ty DEF Proc, Phase, TypeOK
        <3>2. /\ proc'[r] = p /\ \A s \in Runners : s # r => proc'[s] = proc[s]
              /\ At(r, "upsert") /\ proc[r].win \in Times
            BY <2>8, <3>1, <1>ty, BecomeFacts DEF Upsert, Proc
        <3> HIDE DEF p
        <3>3. \A u \in Users : buckets[u][proc[r].win] \subseteq snap
            BY <3>2 DEF SafeInv, RowsSound
        <3>4. SnapCurrent'
            BY <2>8, <3>1, <3>2, <3>3 DEF SafeInv, SnapCurrent, Upsert, At, InWindow, eventVars, dbVars
        <3>5. asked[r] \subseteq snap
            BY <3>2 DEF SafeInv, AskedKept, At
        <3>6. AskedKept'
            BY <2>8, <3>1, <3>2, <3>5
               DEF SafeInv, AskedKept, Upsert, At, InWindow, Counted, eventVars, dbVars
        <3>7. WindowsAligned' /\ WindowsClosed' /\ LocksOwned'
            BY <2>8, <3>1, <3>2
               DEF SafeInv, WindowsAligned, WindowsClosed, LocksOwned, Upsert, InTx, At,
                   Aligned, Closed, eventVars, dbVars
        <3> QED BY <2>8, <3>4, <3>6, <3>7
                DEF SafeInv, RowsSound, SucceededRunsCounted, Upsert, InWindow, Closed,
                    Counted, eventVars, dbVars
    <2>9. CASE CommitAggregate(r)
        <3> DEFINE p == [proc[r] EXCEPT !.pc = "record", !.status = "succeeded", !.snap = {}]
        <3>1. p \in Proc /\ p.pc = "record" /\ p.win = proc[r].win
            BY <1>ty DEF Proc, Phase, Status
        <3>2. Become(r, p) /\ InTx(r)
            BY <2>9 DEF CommitAggregate, At, InTx
        <3> HIDE DEF p
        <3> QED BY <2>9, <3>1, <3>2, EndTxStep DEF CommitAggregate, At, eventVars
    <2>10. CASE RecordRun(r)
        <3>1. /\ AfterRecord(r) \in Proc /\ Aligned(AfterRecord(r).win)
              /\ AfterRecord(r).pc \in {"idle", "open"}
            <4>1. CASE AfterRecord(r) = Idle
                BY <4>1, <1>ty
            <4>2. CASE AfterRecord(r) = [proc[r] EXCEPT !.pc = "open", !.win = @ + Size, !.status = "none"]
                <5>1. proc[r].win \in Nat
                    BY <1>ty DEF Proc, Times
                <5> QED BY <4>2, <5>1, <1>ty, <1>al, AfterRecordType, AlignedNext DEF Proc
            <4> QED BY <4>1, <4>2 DEF AfterRecord
        <3>2. \A run \in runs' : Aligned(run.window) /\ Closed(run.window)
            BY <2>10, <1>al DEF RecordRun, Recorded, SafeInv, WindowsClosed, At
        <3>3. \A e \in promised' : Counted(e)
            BY <2>10, <1>al DEF RecordRun, SafeInv, AskedKept
        <3>4. \A s \in Runners : s # r => asked'[s] = asked[s]
            BY <2>10, <1>ty DEF RecordRun, TypeOK
        <3> QED BY <2>10, <3>1, <3>2, <3>3, <3>4, QuietStep DEF RecordRun, eventVars
    <2> QED BY <1>4, <2>1, <2>2, <2>3, <2>4, <2>5, <2>6, <2>7, <2>8, <2>9, <2>10 DEF RunnerStep
<1>5. ASSUME NEW r \in Runners, FaultStep(r) PROVE SafeInv'
    <2> DEFINE p == [proc[r] EXCEPT !.pc = "record", !.status = "failed", !.snap = {}]
    <2>1. /\ p \in Proc /\ p.pc = "record" /\ p.win = proc[r].win
          /\ p.status = "failed"
        BY <1>ty DEF Proc, Phase, Status
    <2>2. FailAggregate(r) \/ LoseCommit(r) => Become(r, p)
        BY DEF FailAggregate, LoseCommit
    <2> HIDE DEF p
    <2>3. CASE FailRead(r)
        BY <2>3, <1>ty, <1>al, QuietStep DEF FailRead, eventVars, dbVars
    <2>4. CASE FailAggregate(r)
        BY <2>4, <2>1, <2>2, EndTxStep DEF FailAggregate, At, InTx, eventVars
    <2>5. CASE LoseCommit(r)
        <3>1. InTx(r)
            BY <2>5 DEF LoseCommit, At, InTx
        <3> QED BY <2>5, <2>1, <2>2, <3>1, EndTxStep DEF LoseCommit, At, eventVars
    <2>6. CASE FailRecord(r)
        <3>1. \A run \in runs' : Aligned(run.window) /\ Closed(run.window)
            BY <2>6, <1>al DEF FailRecord, Recorded, SafeInv, WindowsClosed, At
        <3>2. \A s \in Runners : s # r => asked'[s] = asked[s]
            BY <2>6, <1>ty DEF FailRecord, TypeOK
        <3> QED BY <2>6, <3>1, <3>2, <1>ty, <1>al, QuietStep DEF FailRecord, eventVars
    <2>7. CASE Crash(r)
        <3>1. \A s \in Runners : s # r => asked'[s] = asked[s]
            BY <2>7, <1>ty DEF Crash, TypeOK
        <3> QED BY <2>7, <3>1, <1>ty, <1>al, QuietStep DEF Crash, eventVars, dbVars
    <2> QED BY <1>5, <2>3, <2>4, <2>5, <2>6, <2>7 DEF FaultStep
<1>6. ASSUME NEW r \in Admins, NEW t \in Instants, StartManual(r, t) PROVE SafeInv'
    <2>1. r \in Runners /\ t \in Nat /\ t <= Horizon
        BY BoundsAssumption DEF Runners
    <2>2. Local("open", BucketStart(t), BucketStart(t)) \in Proc /\ Aligned(BucketStart(t))
        BY <2>1, BucketStartFacts, BoundsAssumption DEF Local, Proc, Phase, Status, Times
    <2> QED BY <1>6, <2>1, <2>2, <1>al, QuietStep DEF StartManual, Local, eventVars, dbVars
<1>7. ASSUME NEW w \in locks, ReapSession(w) PROVE SafeInv'
    <2>1. LocksOwned'
        BY <1>7 DEF ReapSession, SafeInv, LocksOwned, InTx
    <2> QED BY <1>7, <2>1
            DEF ReapSession, SafeInv, WindowsAligned, WindowsClosed, RowsSound, SnapCurrent,
                AskedKept, SucceededRunsCounted, At, InWindow, Counted, Aligned, Closed, eventVars
<1>8. CASE UNCHANGED vars
    BY <1>8 DEF vars, SafeInv, WindowsAligned, WindowsClosed, LocksOwned, RowsSound,
                SnapCurrent, AskedKept, SucceededRunsCounted, InTx, At, InWindow, Counted,
                Aligned, Closed
<1> QED BY <1>1, <1>2, <1>3, <1>4, <1>5, <1>6, <1>7, <1>8 DEF Next

\* The initial state satisfies both invariants.
LEMMA InitSafe == Init => TypeInv /\ SafeInv
<1> SUFFICES ASSUME Init PROVE TypeInv /\ SafeInv
    OBVIOUS
<1>1. TypeInv
    BY IdleType, BoundsAssumption, SizeAssumption
       DEF Init, TypeInv, TypeOK, Clock, Outcome, At, Proc, Idle, Local, Times, Event
<1>2. Aligned(0)
    BY SizeAssumption, DivMod DEF Aligned
<1>3. \A r \in Runners : proc[r].pc = "idle" /\ proc[r].win = 0
    BY DEF Init, Idle, Local
<1> QED BY <1>1, <1>2, <1>3
        DEF Init, SafeInv, WindowsAligned, WindowsClosed, LocksOwned, RowsSound,
            SnapCurrent, AskedKept, SucceededRunsCounted, InTx, At

\* Both invariants hold throughout.
LEMMA Safe == Spec => [](TypeInv /\ SafeInv)
<1>1. TypeInv /\ SafeInv /\ [Next]_vars => (TypeInv /\ SafeInv)'
    BY TypeStep, SafeStep
<1> QED BY <1>1, InitSafe, PTL DEF Spec

\* Rows count committed events of their user and closed window only.
THEOREM RowsAreSound == Spec => []RowsSound
BY Safe, PTL DEF SafeInv

\* What a succeeded run was asked to count stays counted.
THEOREM SucceededRunsKept == Spec => []SucceededRunsCounted
BY Safe, PTL DEF SafeInv

\* Rows of different windows are disjoint.
THEOREM EventsCountedOnce == Spec => []CountedOnce
<1>1. TypeInv /\ SafeInv => CountedOnce
    <2> SUFFICES ASSUME TypeInv, SafeInv PROVE CountedOnce
        OBVIOUS
    <2> SUFFICES ASSUME NEW u \in Users, NEW v \in Times, NEW w \in Times, v < w,
                        NEW e \in Event, e \in buckets[u][v], e \in buckets[u][w]
                 PROVE  FALSE
        <3>1. \A u \in Users, w \in Times : buckets[u][w] \subseteq Event
            BY DEF TypeInv, TypeOK
        <3>2. \A v, w \in Times : v # w => v < w \/ w < v
            BY DEF Times
        <3> QED BY <3>1, <3>2 DEF CountedOnce
    <2>1. v \in Nat /\ w \in Nat /\ Size \in Nat /\ e.at \in Nat
        BY SizeAssumption DEF Times, Event
    <2>2. Aligned(v) /\ Aligned(w)
        BY DEF SafeInv, WindowsAligned
    <2>3. v + Size <= w
        BY <2>1, <2>2, AlignedGap
    <2>4. e.at < v + Size /\ w <= e.at
        BY DEF SafeInv, RowsSound, InWindow
    <2> QED BY <2>1, <2>3, <2>4
<1> QED BY <1>1, Safe, PTL

\* No step takes an event out of a row.
THEOREM RowsGrow == Spec => RowsNeverShrink
<1> DEFINE Grow == \A u \in Users, w \in Times : buckets[u][w] \subseteq buckets'[u][w]
<1>1. TypeInv /\ SafeInv /\ [Next]_vars => [Grow]_vars
    <2> SUFFICES ASSUME TypeInv, SafeInv, [Next]_vars PROVE Grow
        OBVIOUS
    <2>1. CASE buckets' = buckets
        BY <2>1
    <2>2. ASSUME NEW r \in Runners, CommitAggregate(r) \/ LoseCommit(r) PROVE Grow
        BY <2>2, CommitFacts DEF CommitAggregate, LoseCommit, eventVars
    <2>3. ASSUME NEW r \in Runners, RunnerStep(r) \/ FaultStep(r) PROVE Grow
        BY <2>1, <2>2, <2>3
           DEF RunnerStep, FaultStep, StartPass, ReadWatermark, ReadEarliest, OpenRun,
               TryLockBucket, Upsert, RecordRun, FailRead, FailAggregate, FailRecord,
               Crash, dbVars
    <2> QED BY <2>1, <2>3
            DEF Next, vars, Tick, ReceiveEvent, CommitEvent, StartManual, ReapSession, dbVars
<1>2. RowsNeverShrink <=> [][Grow]_vars
    BY PTL DEF RowsNeverShrink
<1> HIDE DEF Grow
<1> QED BY <1>1, <1>2, Safe, PTL DEF Spec

-----------------------------------------------------------------------------
(***************************************************************************)
(* No stranded events.  When only the scheduler runs, the pass that takes  *)
(* a window has left nothing behind it: every event that was committed in  *)
(* time for an earlier window is already counted (OnTimeReady), because    *)
(* the pass started right after the watermark or at the earliest event and *)
(* stops at the first window that did not succeed.                         *)
(***************************************************************************)

\* The phases of a runner that has taken a window.
Working == {"open", "lock", "upsert", "commit", "record"}

\* A pass plans only windows that were closed when it read the clock.
PlanClosed ==
    \A r \in Runners :
        /\ proc[r].pc \in Working \cup {"watermark", "earliest"} => Closed(proc[r].until)
        /\ proc[r].pc \in Working => proc[r].win <= proc[r].until

\* Nothing committed in time is left behind the window a pass works on.
OnTimeReady ==
    \A r \in Runners : proc[r].pc \in Working =>
        \A e \in onTime : e.at < proc[r].win => Counted(e)

\* Events committed in time for the window are in its snapshot, then counted.
OnTimeTaken ==
    \A r \in Runners : \A e \in onTime : InWindow(e, proc[r].win) =>
        /\ At(r, "commit") => e \in proc[r].snap
        /\ At(r, "record") /\ proc[r].status = "succeeded" => Counted(e)

\* The inductive invariant behind OnTimeCounted.
OnTimeInv ==
    /\ onTime \subseteq events
    /\ PlanClosed /\ OnTimeReady /\ OnTimeTaken /\ OnTimeCounted

\* An event committed before its window closed lies after every window that
\* is closed by then.
LEMMA OnTimeIsLater ==
    ASSUME now \in Nat, NEW e \in Event, now < BucketStart(e.at) + Size,
           NEW w \in Nat, Aligned(w), Closed(w)
    PROVE  w + Size <= e.at
<1>1. e.at \in Nat /\ Size \in Nat
    BY SizeAssumption DEF Event, Times
<1>2. BucketStart(e.at) \in Nat /\ BucketStart(e.at) <= e.at /\ Aligned(BucketStart(e.at))
    BY <1>1, BucketStartFacts
<1>3. w < BucketStart(e.at)
    BY <1>1, <1>2 DEF Closed
<1>4. w + Size <= BucketStart(e.at)
    BY <1>2, <1>3, AlignedGap
<1> QED BY <1>1, <1>2, <1>4

\* A step of one runner that adds no event and takes nothing out of a row
\* keeps the invariant if the runner's new state and the new runs do.
LEMMA OnTimeLocal ==
    ASSUME TypeInv, OnTimeInv, NEW r \in Runners, NEW p \in Proc, Become(r, p),
           UNCHANGED <<now, events, onTime>>,
           \A e \in onTime : Counted(e) => Counted(e)',
           p.pc \in Working \cup {"watermark", "earliest"} => Closed(p.until),
           p.pc \in Working => p.win <= p.until,
           p.pc \in Working => \A e \in onTime : e.at < p.win => Counted(e)',
           \A e \in onTime : InWindow(e, p.win) =>
               /\ p.pc = "commit" => e \in p.snap
               /\ p.pc = "record" /\ p.status = "succeeded" => Counted(e)',
           OnTimeCounted'
    PROVE  OnTimeInv'
<1>1. /\ proc'[r] = p
      /\ \A s \in Runners : s # r => proc'[s] = proc[s]
    BY BecomeFacts DEF TypeInv
<1>2. PlanClosed'
    BY <1>1 DEF OnTimeInv, PlanClosed, Closed
<1>3. OnTimeReady'
    BY <1>1 DEF OnTimeInv, OnTimeReady
<1>4. OnTimeTaken'
    BY <1>1 DEF OnTimeInv, OnTimeTaken, At, InWindow
<1> QED BY <1>2, <1>3, <1>4 DEF OnTimeInv

\* The same when no row and no run changes either.
LEMMA OnTimeQuiet ==
    ASSUME TypeInv, OnTimeInv, NEW r \in Runners, NEW p \in Proc, Become(r, p),
           UNCHANGED <<now, events, onTime, buckets, runs>>,
           p.pc \in Working \cup {"watermark", "earliest"} => Closed(p.until),
           p.pc \in Working =>
               /\ p.win <= p.until
               /\ p.pc # "commit"
               /\ p.pc = "record" => p.status # "succeeded"
               /\ \A e \in onTime : e.at < p.win => Counted(e)
    PROVE  OnTimeInv'
<1>1. \A e : Counted(e)' <=> Counted(e)
    BY DEF Counted
<1>2. OnTimeCounted'
    BY <1>1 DEF OnTimeInv, OnTimeCounted, Succeeded
<1>3. "commit" \in Working /\ "record" \in Working
    BY DEF Working
<1>4. \A e \in onTime : InWindow(e, p.win) =>
               /\ p.pc = "commit" => e \in p.snap
               /\ p.pc = "record" /\ p.status = "succeeded" => Counted(e)'
    BY <1>3
<1> QED BY <1>1, <1>2, <1>4, OnTimeLocal

\* A pass planned from a window behind which nothing is left.
LEMMA OnTimePlan ==
    ASSUME TypeInv, OnTimeInv, NEW r \in Runners, NEW from \in Nat,
           proc[r].pc \in {"watermark", "earliest"},
           Become(r, Plan(r, from)), \A e \in onTime : e.at < from => Counted(e),
           UNCHANGED <<now, events, onTime, buckets, runs>>
    PROVE  OnTimeInv'
<1>1. Plan(r, from) \in Proc
    BY PlanType DEF TypeInv
<1>2. CASE from > proc[r].until
    <2>1. Plan(r, from).pc = "idle"
        BY <1>2 DEF Plan, Idle, Local
    <2> QED BY <1>1, <2>1, OnTimeQuiet DEF Working
<1>3. CASE ~(from > proc[r].until)
    <2>1. /\ Plan(r, from).pc = "open" /\ Plan(r, from).win = from
          /\ Plan(r, from).until = LastPlanned(from, proc[r].until)
        BY <1>3 DEF Plan, Local
    <2>2. proc[r].until \in Nat /\ now \in Nat /\ Size \in Nat
        BY SizeAssumption, BoundsAssumption DEF TypeInv, TypeOK, Times
    <2>3. Plan(r, from).until \in from .. proc[r].until
        BY <1>3, <2>1, <2>2, LastPlannedFacts
    <2>4. Closed(proc[r].until)
        BY DEF OnTimeInv, PlanClosed
    <2>5. Closed(Plan(r, from).until) /\ from <= Plan(r, from).until
        BY <2>2, <2>3, <2>4 DEF Closed
    <2> QED BY <1>1, <2>1, <2>5, OnTimeQuiet
<1> QED BY <1>2, <1>3

\* Every step of the scheduler keeps the invariant.
LEMMA OnTimeStep ==
    ASSUME Admins = {}
    PROVE  TypeInv /\ SafeInv /\ OnTimeInv /\ [Next]_vars => OnTimeInv'
<1> SUFFICES ASSUME TypeInv, SafeInv, OnTimeInv, [Next]_vars PROVE OnTimeInv'
    OBVIOUS
<1>ty. /\ TypeOK /\ Clock
       /\ \A r \in Runners : proc[r] \in Proc /\ proc[r].win \in Nat /\ proc[r].until \in Nat
       /\ events \subseteq Event /\ inflight \subseteq Event /\ onTime \subseteq Event
       /\ \A e \in Event : e.at \in Nat
       /\ now \in Nat /\ Size \in Nat
       /\ Idle \in Proc /\ Idle.pc = "idle" /\ "idle" \notin Working \cup {"watermark", "earliest"}
    BY IdleType, BoundsAssumption, SizeAssumption
       DEF TypeInv, TypeOK, Proc, Event, Times, Idle, Local, Working
<1>1. CASE Tick
    <2>1. PlanClosed'
        <3>1. \A w \in Nat : Closed(w) => Closed(w)'
            BY <1>1, <1>ty DEF Tick, Closed
        <3> QED BY <1>1, <3>1, <1>ty DEF Tick, OnTimeInv, PlanClosed
    <2> QED BY <1>1, <2>1
            DEF Tick, OnTimeInv, OnTimeReady, OnTimeTaken, OnTimeCounted, Succeeded, Counted,
                At, InWindow, eventVars, dbVars
<1>2. ASSUME NEW u \in Users, NEW t \in Instants, ReceiveEvent(u, t) PROVE OnTimeInv'
    BY <1>2 DEF ReceiveEvent, OnTimeInv, PlanClosed, OnTimeReady, OnTimeTaken, OnTimeCounted,
                Succeeded, Counted, Closed, At, InWindow, dbVars
<1>3. ASSUME NEW f \in inflight, CommitEvent(f) PROVE OnTimeInv'
    <2>1. \A e \in onTime' : e \in onTime \/ (e = f /\ now < BucketStart(f.at) + Size)
        BY <1>3 DEF CommitEvent
    <2>2. ASSUME now < BucketStart(f.at) + Size, NEW w \in Nat, Aligned(w), Closed(w)
          PROVE  w + Size <= f.at
        BY <2>2, <1>ty, OnTimeIsLater
    <2>3. f.at \in Nat
        BY <1>ty
    <2>4. PlanClosed'
        BY <1>3 DEF CommitEvent, OnTimeInv, PlanClosed, Closed
    <2>5. \A r \in Runners : proc[r].pc \in Working => Aligned(proc[r].win) /\ Closed(proc[r].win)
        <3>1. \A r \in Runners : proc[r].pc \in Working =>
                  Closed(proc[r].until) /\ proc[r].win <= proc[r].until
            BY DEF OnTimeInv, PlanClosed
        <3> QED BY <3>1, <1>ty DEF SafeInv, WindowsAligned, Closed
    <2>6. OnTimeReady'
        <3> SUFFICES ASSUME NEW r \in Runners, proc[r].pc \in Working,
                            NEW e \in onTime', e.at < proc[r].win
                     PROVE  Counted(e)
            BY <1>3 DEF OnTimeReady, Counted, CommitEvent, dbVars
        <3>1. ASSUME now < BucketStart(f.at) + Size PROVE ~(f.at < proc[r].win)
            BY <3>1, <2>2, <2>3, <2>5, <1>ty
        <3> QED BY <2>1, <3>1 DEF OnTimeInv, OnTimeReady
    <2>7. OnTimeTaken'
        <3> SUFFICES ASSUME NEW r \in Runners, proc[r].pc \in Working,
                            NEW e \in onTime', InWindow(e, proc[r].win)
                     PROVE  /\ At(r, "commit") => e \in proc[r].snap
                            /\ At(r, "record") /\ proc[r].status = "succeeded" => Counted(e)
            BY <1>3 DEF OnTimeTaken, Counted, CommitEvent, dbVars, At, InWindow, Working
        <3>1. ASSUME now < BucketStart(f.at) + Size PROVE ~ InWindow(f, proc[r].win)
            BY <3>1, <2>2, <2>3, <2>5, <1>ty DEF InWindow
        <3> QED BY <2>1, <3>1 DEF OnTimeInv, OnTimeTaken
    <2>8. OnTimeCounted'
        <3> SUFFICES ASSUME NEW e \in onTime', NEW w \in Succeeded, e.at < w + Size
                     PROVE  Counted(e)
            BY <1>3 DEF OnTimeCounted, Succeeded, Counted, CommitEvent, dbVars
        <3>1. w \in Nat /\ Aligned(w) /\ Closed(w)
            BY <1>ty DEF Succeeded, SafeInv, WindowsAligned, WindowsClosed, TypeOK, Run, Times
        <3>2. ASSUME now < BucketStart(f.at) + Size PROVE ~(f.at < w + Size)
            BY <3>1, <3>2, <2>2, <2>3, <1>ty
        <3> QED BY <2>1, <3>2 DEF OnTimeInv, OnTimeCounted
    <2> QED BY <1>3, <2>4, <2>6, <2>7, <2>8 DEF CommitEvent, OnTimeInv
<1>4. ASSUME NEW r \in Runners, CommitAggregate(r) \/ LoseCommit(r) PROVE OnTimeInv'
    <2>1. PICK p \in Proc : /\ Become(r, p) /\ p.pc = "record"
                            /\ p.win = proc[r].win /\ p.until = proc[r].until
        <3> DEFINE q(st) == [proc[r] EXCEPT !.pc = "record", !.status = st, !.snap = {}]
        <3>1. \A st \in Status : /\ q(st) \in Proc /\ q(st).pc = "record"
                                 /\ q(st).win = proc[r].win /\ q(st).until = proc[r].until
            BY <1>ty DEF Proc, Phase
        <3>2. Become(r, q("succeeded")) \/ Become(r, q("failed"))
            BY <1>4 DEF CommitAggregate, LoseCommit
        <3>3. "succeeded" \in Status /\ "failed" \in Status
            BY DEF Status
        <3> HIDE DEF q
        <3> QED BY <3>1, <3>2, <3>3
    <2>2. /\ At(r, "commit") /\ buckets' = Written(r)
          /\ UNCHANGED <<now, events, onTime, runs>>
        BY <1>4 DEF CommitAggregate, LoseCommit, eventVars
    <2>3. /\ \A e \in proc[r].snap : Counted(e)'
          /\ \A e \in onTime : Counted(e) => Counted(e)'
        BY <2>2, <1>ty, CommitFacts
    <2>4. /\ Closed(proc[r].until) /\ proc[r].win <= proc[r].until
          /\ \A e \in onTime : e.at < proc[r].win => Counted(e)
        BY <2>2 DEF OnTimeInv, PlanClosed, OnTimeReady, Working, At
    <2>5. \A e \in onTime : InWindow(e, proc[r].win) => e \in proc[r].snap
        BY <2>2 DEF OnTimeInv, OnTimeTaken
    <2>6. OnTimeCounted'
        BY <2>2, <2>3 DEF OnTimeInv, OnTimeCounted, Succeeded
    <2> QED BY <2>1, <2>2, <2>3, <2>4, <2>5, <2>6, OnTimeLocal
<1>5. ASSUME NEW r \in Runners, RecordRun(r) \/ FailRecord(r) PROVE OnTimeInv'
    <2>1. /\ At(r, "record") /\ runs' \in {runs, Recorded(r)}
          /\ Become(r, AfterRecord(r)) \/ Become(r, Idle)
          /\ UNCHANGED <<now, events, onTime, buckets>>
        BY <1>5 DEF RecordRun, FailRecord, eventVars
    <2>2. \A e : Counted(e)' <=> Counted(e)
        BY <2>1 DEF Counted
    <2>3. /\ Closed(proc[r].until) /\ proc[r].win <= proc[r].until
          /\ \A e \in onTime : e.at < proc[r].win => Counted(e)
          /\ \A e \in onTime : InWindow(e, proc[r].win) /\ proc[r].status = "succeeded"
                => Counted(e)
        BY <2>1 DEF OnTimeInv, PlanClosed, OnTimeReady, OnTimeTaken, Working, At
    <2>4. proc[r].status = "succeeded" =>
              \A e \in onTime : e.at < proc[r].win + Size => Counted(e)
        BY <2>3, <1>ty DEF InWindow
    <2>5. \A w \in Succeeded' : \/ w \in Succeeded
                                \/ w = proc[r].win /\ proc[r].status = "succeeded"
        BY <2>1 DEF Succeeded, Recorded
    <2>6. OnTimeCounted'
        BY <2>1, <2>2, <2>4, <2>5 DEF OnTimeInv, OnTimeCounted
    <2>7. CASE Become(r, Idle)
        BY <2>7, <2>1, <2>2, <2>6, <1>ty, OnTimeLocal DEF Working
    <2>8. CASE Become(r, AfterRecord(r)) /\ AfterRecord(r) # Idle
        <3>1. /\ proc[r].status = "succeeded"
              /\ proc[r].win + Size <= proc[r].until
              /\ AfterRecord(r) = [proc[r] EXCEPT !.pc = "open", !.win = @ + Size, !.status = "none"]
            BY <2>8 DEF AfterRecord
        <3>2. /\ AfterRecord(r).pc = "open" /\ AfterRecord(r).until = proc[r].until
              /\ AfterRecord(r).win = proc[r].win + Size
            BY <3>1, <1>ty DEF Proc
        <3>3. AfterRecord(r) \in Proc
            BY <1>ty, AfterRecordType
        <3> QED BY <2>8, <2>1, <2>2, <2>3, <2>4, <2>6, <3>1, <3>2, <3>3, OnTimeLocal
    <2> QED BY <2>1, <2>7, <2>8
<1>6. ASSUME NEW r \in Runners, RunnerStep(r) PROVE OnTimeInv'
    <2>1. CASE StartPass(r)
        <3>1. Local("watermark", 0, NewestClosed) \in Proc /\ Closed(NewestClosed)
            BY <1>ty, NewestClosedFacts, BoundsAssumption
               DEF Local, Proc, Phase, Status, Times, TypeOK, Closed
        <3> QED BY <2>1, <3>1, OnTimeQuiet DEF StartPass, Local, Working, eventVars, dbVars
    <2>2. CASE ReadWatermark(r)
        <3>1. /\ At(r, "watermark") /\ proc[r].pc = "watermark"
              /\ UNCHANGED <<now, events, onTime, buckets, runs>>
            BY <2>2 DEF ReadWatermark, At, eventVars, dbVars
        <3>2. CASE Become(r, [proc[r] EXCEPT !.pc = "earliest"])
            <4>1. /\ [proc[r] EXCEPT !.pc = "earliest"] \in Proc
                  /\ [proc[r] EXCEPT !.pc = "earliest"].pc = "earliest"
                  /\ [proc[r] EXCEPT !.pc = "earliest"].until = proc[r].until
                BY <1>ty DEF Proc, Phase
            <4>2. Closed(proc[r].until)
                BY <3>1 DEF OnTimeInv, PlanClosed
            <4> QED BY <3>1, <3>2, <4>1, <4>2, OnTimeQuiet DEF Working
        <3>3. ASSUME NEW last \in Times, IsLastSucceeded(last), Become(r, Plan(r, last + Size))
              PROVE  OnTimeInv'
            <4>1. last + Size \in Nat
                BY <1>ty DEF Times
            <4>2. \A e \in onTime : e.at < last + Size => Counted(e)
                BY <3>3 DEF IsLastSucceeded, OnTimeInv, OnTimeCounted
            <4> QED BY <3>1, <3>3, <4>1, <4>2, OnTimePlan
        <3> QED BY <2>2, <3>2, <3>3 DEF ReadWatermark
    <2>3. CASE ReadEarliest(r)
        <3>1. /\ proc[r].pc = "earliest"
              /\ UNCHANGED <<now, events, onTime, buckets, runs>>
            BY <2>3 DEF ReadEarliest, At, eventVars, dbVars
        <3>2. CASE Become(r, Idle)
            BY <3>1, <3>2, <1>ty, OnTimeQuiet DEF Working
        <3>3. ASSUME NEW e \in events, IsEarliestEvent(e), Become(r, Plan(r, BucketStart(e.at)))
              PROVE  OnTimeInv'
            <4>1. BucketStart(e.at) \in Nat /\ BucketStart(e.at) <= e.at /\ e.at \in Nat
                BY <1>ty, BucketStartFacts
            <4>2. \A f \in onTime : f.at \in Nat /\ e.at <= f.at
                BY <3>3, <1>ty DEF IsEarliestEvent, OnTimeInv
            <4>3. \A f \in onTime : ~(f.at < BucketStart(e.at))
                BY <4>1, <4>2
            <4> QED BY <3>1, <3>3, <4>1, <4>3, OnTimePlan
        <3> QED BY <2>3, <3>2, <3>3 DEF ReadEarliest
    <2>4. CASE OpenRun(r)
        <3>1. CASE Become(r, Idle)
            BY <2>4, <3>1, <1>ty, OnTimeQuiet DEF OpenRun, Working, eventVars, dbVars
        <3>2. CASE Become(r, [proc[r] EXCEPT !.pc = "lock"])
            <4> DEFINE p == [proc[r] EXCEPT !.pc = "lock"]
            <4>1. p \in Proc /\ p.pc = "lock" /\ p.win = proc[r].win /\ p.until = proc[r].until
                BY <1>ty DEF Proc, Phase
            <4>2. /\ Closed(proc[r].until) /\ proc[r].win <= proc[r].until
                  /\ \A e \in onTime : e.at < proc[r].win => Counted(e)
                BY <2>4 DEF OpenRun, OnTimeInv, PlanClosed, OnTimeReady, Working, At
            <4> HIDE DEF p
            <4> QED BY <2>4, <3>2, <4>1, <4>2, OnTimeQuiet DEF OpenRun, p, eventVars, dbVars
        <3> QED BY <2>4, <3>1, <3>2 DEF OpenRun
    <2>5. CASE TryLockBucket(r)
        <3>1. PICK p \in Proc : /\ Become(r, p)
                                /\ \/ p.pc = "record" /\ p.status = "skipped"
                                   \/ p.pc = "upsert"
                                /\ p.win = proc[r].win /\ p.until = proc[r].until
            <4> DEFINE q1 == [proc[r] EXCEPT !.pc = "record", !.status = "skipped"]
                       q2 == [proc[r] EXCEPT !.pc = "upsert"]
            <4>1. /\ q1 \in Proc /\ q1.pc = "record" /\ q1.status = "skipped"
                  /\ q1.win = proc[r].win /\ q1.until = proc[r].until
                BY <1>ty DEF Proc, Phase, Status
            <4>2. /\ q2 \in Proc /\ q2.pc = "upsert"
                  /\ q2.win = proc[r].win /\ q2.until = proc[r].until
                BY <1>ty DEF Proc, Phase
            <4>3. Become(r, q1) \/ Become(r, q2)
                BY <2>5 DEF TryLockBucket
            <4> HIDE DEF q1, q2
            <4> QED BY <4>1, <4>2, <4>3
        <3>2. /\ Closed(proc[r].until) /\ proc[r].win <= proc[r].until
              /\ \A e \in onTime : e.at < proc[r].win => Counted(e)
            BY <2>5 DEF TryLockBucket, OnTimeInv, PlanClosed, OnTimeReady, Working, At
        <3> QED BY <2>5, <3>1, <3>2, OnTimeQuiet DEF TryLockBucket, eventVars
    <2>6. CASE Upsert(r)
        <3> DEFINE snap == {e \in events : InWindow(e, proc[r].win)}
                   p == [proc[r] EXCEPT !.pc = "commit", !.snap = snap]
        <3>1. /\ p \in Proc /\ p.pc = "commit" /\ p.win = proc[r].win
              /\ p.until = proc[r].until /\ p.snap = snap
            BY <1>ty DEF Proc, Phase, TypeOK
        <3>2. /\ Become(r, p) /\ UNCHANGED <<now, events, onTime, buckets, runs>>
              /\ proc[r].pc = "upsert"
            BY <2>6 DEF Upsert, At, eventVars, dbVars
        <3> HIDE DEF p
        <3>3. /\ Closed(proc[r].until) /\ proc[r].win <= proc[r].until
              /\ \A e \in onTime : e.at < proc[r].win => Counted(e)
              /\ \A e \in onTime : InWindow(e, proc[r].win) => e \in snap
            BY <3>2 DEF OnTimeInv, PlanClosed, OnTimeReady, Working
        <3>4. \A e : Counted(e)' <=> Counted(e)
            BY <3>2 DEF Counted
        <3>5. OnTimeCounted'
            BY <3>2, <3>4 DEF OnTimeInv, OnTimeCounted, Succeeded
        <3> QED BY <3>1, <3>2, <3>3, <3>4, <3>5, OnTimeLocal
    <2> QED BY <1>4, <1>5, <1>6, <2>1, <2>2, <2>3, <2>4, <2>5, <2>6 DEF RunnerStep
<1>7. ASSUME NEW r \in Runners, FaultStep(r) PROVE OnTimeInv'
    <2>1. CASE FailRead(r) \/ Crash(r)
        BY <2>1, <1>ty, OnTimeQuiet DEF FailRead, Crash, Working, eventVars, dbVars
    <2>2. CASE FailAggregate(r)
        <3>1. PICK p \in Proc : /\ Become(r, p) /\ p.pc = "record" /\ p.status = "failed"
                                /\ p.win = proc[r].win /\ p.until = proc[r].until
            <4> DEFINE q == [proc[r] EXCEPT !.pc = "record", !.status = "failed", !.snap = {}]
            <4>1. /\ q \in Proc /\ q.pc = "record" /\ q.status = "failed"
                  /\ q.win = proc[r].win /\ q.until = proc[r].until
                BY <1>ty DEF Proc, Phase, Status
            <4>2. Become(r, q)
                BY <2>2 DEF FailAggregate
            <4> HIDE DEF q
            <4> QED BY <4>1, <4>2
        <3>2. /\ Closed(proc[r].until) /\ proc[r].win <= proc[r].until
              /\ \A e \in onTime : e.at < proc[r].win => Counted(e)
            BY <2>2 DEF FailAggregate, OnTimeInv, PlanClosed, OnTimeReady, Working, At, InTx
        <3> QED BY <2>2, <3>1, <3>2, OnTimeQuiet DEF FailAggregate, eventVars
    <2> QED BY <1>4, <1>5, <1>7, <2>1, <2>2 DEF FaultStep
<1>8. ASSUME NEW w \in locks, ReapSession(w) PROVE OnTimeInv'
    BY <1>8 DEF ReapSession, OnTimeInv, PlanClosed, OnTimeReady, OnTimeTaken, OnTimeCounted,
                Succeeded, Counted, Closed, At, InWindow, eventVars
<1>9. CASE UNCHANGED vars
    BY <1>9 DEF vars, OnTimeInv, PlanClosed, OnTimeReady, OnTimeTaken, OnTimeCounted,
                Succeeded, Counted, Closed, At, InWindow
<1> QED BY <1>1, <1>2, <1>3, <1>6, <1>7, <1>8, <1>9 DEF Next

\* With any number of scheduler workers, and no manual runs, the watermark
\* never passes an event that was committed while its window was open and is
\* not counted.
THEOREM SchedulerStrandsNothing ==
    ASSUME Admins = {}
    PROVE  Spec => []OnTimeCounted
<1>1. Init => OnTimeInv
    BY DEF Init, OnTimeInv, PlanClosed, OnTimeReady, OnTimeTaken, OnTimeCounted, Working,
           Idle, Local
<1>2. TypeInv /\ SafeInv /\ OnTimeInv /\ [Next]_vars => OnTimeInv'
    BY OnTimeStep
<1>3. OnTimeInv => OnTimeCounted
    BY DEF OnTimeInv
<1> QED BY <1>1, <1>2, <1>3, Safe, PTL DEF Spec
=============================================================================
