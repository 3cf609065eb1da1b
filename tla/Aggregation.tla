---------------------------- MODULE Aggregation ----------------------------
(***************************************************************************)
(* The aggregation pipeline: scheduler workers and admins that fold the    *)
(* events table into per-user activity_buckets, one window at a time, each *)
(* in its own Postgres transaction under a per-window advisory lock, and   *)
(* that record every attempt in aggregation_runs.                          *)
(*                                                                         *)
(* Sources: internal/service/aggregation.go (RunBucket, RunPending,        *)
(* pendingBuckets), internal/repository/aggregation.go (Aggregate,         *)
(* RecordRun, LastSucceededBucket, EarliestEvent, tryLockBucket),          *)
(* internal/scheduler/scheduler.go (Run) and internal/handler/             *)
(* aggregation.go (Trigger).                                               *)
(*                                                                         *)
(* Time is a natural number; a window is named by its start.  A row of     *)
(* activity_buckets is the set of events its counters were computed from   *)
(* (event_count, type_counts, first/last_event_at are functions of that    *)
(* set); the empty set stands for "no row".  aggregation_runs is a set:    *)
(* ids, timestamps and error texts are left out, so two identical attempts *)
(* are one element.                                                        *)
(***************************************************************************)
EXTENDS Integers

CONSTANTS
    Workers,     \* processes that run the scheduler loop
    Admins,      \* concurrent callers of the manual trigger endpoint
    Users,       \* owners of events
    Size,        \* length of a window (AGGREGATION_BUCKET)
    Backfill,    \* windows per pass (AGGREGATION_BACKFILL)
    Skew,        \* how far in the future an event may lie (maxClockSkew)
    Horizon,     \* bound: the clock stops here
    Instants,    \* bound: the instants clients send (occurred_at, bucket_start)
    MaxEvents,   \* bound: events received
    MaxFaults    \* bound: failed calls, lost answers and crashes

ASSUME RunnersAssumption == Workers \cap Admins = {}
ASSUME SizeAssumption == Size \in Nat \ {0}
ASSUME BackfillAssumption == Backfill \in Nat \ {0}
ASSUME SkewAssumption == Skew \in Nat
ASSUME BoundsAssumption ==
    /\ Horizon \in Nat /\ Horizon >= Size /\ Instants \subseteq 0 .. Horizon
    /\ MaxEvents \in Nat /\ MaxFaults \in Nat

Runners == Workers \cup Admins
Times == 0 .. Horizon

VARIABLES
    now,         \* the clock every process reads
    inflight,    \* events validated, their INSERT not committed yet
    events,      \* the events table
    nextId,      \* its identity column
    buckets,     \* activity_buckets: events counted per user and window
    runs,        \* aggregation_runs
    locks,       \* windows whose advisory lock some transaction holds
    proc,        \* local state of each runner
    faults,      \* faults so far
    onTime,      \* history: events committed before their window closed
    asked,       \* history: events of the window committed when a run opened
    promised     \* history: those of the runs recorded as succeeded

dbVars == <<buckets, runs, locks>>
eventVars == <<inflight, events, nextId, onTime>>
vars == <<now, inflight, events, nextId, buckets, runs, locks, proc, faults,
          onTime, asked, promised>>

-----------------------------------------------------------------------------
(* Windows *)

BucketStart(t) == t - (t % Size)

Aligned(t) == t % Size = 0

InWindow(e, w) == w <= e.at /\ e.at < w + Size

Closed(w) == w + Size <= now

NewestClosed == BucketStart(now) - Size

Event == [id : 1 .. MaxEvents, user : Users, at : Times]

-----------------------------------------------------------------------------
(* Runners.  A runner is idle, reads the watermark ("watermark", then      *)
(* "earliest" if no run ever succeeded), and takes each planned window     *)
(* through "open", "lock", "upsert", "commit" and "record".                *)

Phase == {"idle", "watermark", "earliest", "open", "lock", "upsert", "commit", "record"}

Status == {"none", "succeeded", "failed", "skipped"}

Run == [window : Times, status : Status \ {"none"}, trigger : {"schedule", "manual"}]

Local(phase, win, until) ==
    [pc |-> phase, win |-> win, until |-> until, snap |-> {}, status |-> "none"]

Idle == Local("idle", 0, 0)

Trigger(r) == IF r \in Workers THEN "schedule" ELSE "manual"

At(r, phase) == proc[r].pc = phase

\* The transaction of r is open and holds its window's lock.
InTx(r) == proc[r].pc \in {"upsert", "commit"}

Become(r, p) == proc' = [proc EXCEPT ![r] = p]

Init ==
    /\ now = Size
    /\ inflight = {} /\ events = {} /\ nextId = 1
    /\ buckets = [u \in Users |-> [w \in Times |-> {}]]
    /\ runs = {} /\ locks = {}
    /\ proc = [r \in Runners |-> Idle]
    /\ faults = 0
    /\ onTime = {} /\ promised = {}
    /\ asked = [r \in Runners |-> {}]

-----------------------------------------------------------------------------
(* The world around the pipeline *)

Tick ==
    /\ now < Horizon
    /\ now' = now + 1
    /\ UNCHANGED <<eventVars, dbVars, proc, faults, asked, promised>>

\* An event passes validation: it may lie up to Skew in the future.
ReceiveEvent(u, t) ==
    /\ nextId <= MaxEvents
    /\ t <= now + Skew
    /\ inflight' = inflight \cup {[id |-> nextId, user |-> u, at |-> t]}
    /\ nextId' = nextId + 1
    /\ UNCHANGED <<now, events, onTime, dbVars, proc, faults, asked, promised>>

\* Its INSERT commits, some time later, and statements that start now see it.
CommitEvent(e) ==
    /\ e \in inflight
    /\ inflight' = inflight \ {e}
    /\ events' = events \cup {e}
    /\ onTime' = IF now < BucketStart(e.at) + Size THEN onTime \cup {e} ELSE onTime
    /\ UNCHANGED <<now, nextId, dbVars, proc, faults, asked, promised>>

-----------------------------------------------------------------------------
(* A pass of the scheduler: what is left to do *)

Succeeded == {run.window : run \in {x \in runs : x.status = "succeeded"}}

IsLastSucceeded(w) == w \in Succeeded /\ \A v \in Succeeded : v <= w

IsEarliestEvent(e) == e \in events /\ \A f \in events : e.at <= f.at

\* pendingBuckets reads the clock before it queries the watermark.
StartPass(r) ==
    /\ r \in Workers
    /\ At(r, "idle")
    /\ Become(r, Local("watermark", 0, NewestClosed))
    /\ UNCHANGED <<now, eventVars, dbVars, faults, asked, promised>>

\* The last window of BucketsBetween(from, newest)[:backfill].
LastPlanned(from, newest) ==
    LET cap == from + (Backfill - 1) * Size
    IN  IF cap < newest THEN cap ELSE newest

\* Faulty variant of Plan: keeps the newest windows instead of the oldest.
PlanNewest(r, from) ==
    LET newest == proc[r].until
        first == newest - (Backfill - 1) * Size
    IN  IF from > newest
        THEN Idle
        ELSE Local("open", IF first > from THEN first ELSE from, newest)

\* Faulty variant of Plan: leaves out the newest closed window.
PlanStrict(r, from) ==
    IF from >= proc[r].until
    THEN Idle
    ELSE Local("open", from, LastPlanned(from, proc[r].until))

Plan(r, from) ==
    IF from > proc[r].until
    THEN Idle
    ELSE Local("open", from, LastPlanned(from, proc[r].until))

ReadWatermark(r) ==
    /\ At(r, "watermark")
    /\ \/ \E last \in Times : IsLastSucceeded(last) /\ Become(r, Plan(r, last + Size))
       \/ Succeeded = {} /\ Become(r, [proc[r] EXCEPT !.pc = "earliest"])
    /\ UNCHANGED <<now, eventVars, dbVars, faults, asked, promised>>

ReadEarliest(r) ==
    /\ At(r, "earliest")
    /\ \/ \E e \in events : IsEarliestEvent(e) /\ Become(r, Plan(r, BucketStart(e.at)))
       \/ events = {} /\ Become(r, Idle)
    /\ UNCHANGED <<now, eventVars, dbVars, faults, asked, promised>>

-----------------------------------------------------------------------------
(* RunBucket: one window, one transaction, one row of aggregation_runs *)

\* Faulty variant of StartManual: takes the instant for the window's start.
StartManualUntruncated(r, t) ==
    /\ r \in Admins
    /\ At(r, "idle")
    /\ Become(r, Local("open", t, t))
    /\ UNCHANGED <<now, eventVars, dbVars, faults, asked, promised>>

\* POST /admin/aggregation/runs with any instant; the newest closed window is
\* what an omitted bucket_start means.
StartManual(r, t) ==
    /\ r \in Admins
    /\ At(r, "idle")
    /\ Become(r, Local("open", BucketStart(t), BucketStart(t)))
    /\ UNCHANGED <<now, eventVars, dbVars, faults, asked, promised>>

\* Faulty variant of OpenRun: aggregates a window that is still open.
OpenRunUnchecked(r) ==
    /\ At(r, "open")
    /\ Become(r, [proc[r] EXCEPT !.pc = "lock"])
    /\ asked' = [asked EXCEPT ![r] = {e \in events : InWindow(e, proc[r].win)}]
    /\ UNCHANGED <<now, eventVars, dbVars, faults, promised>>

\* ErrBucketNotClosed ends the call (and a pass): nothing is recorded.
OpenRun(r) ==
    /\ At(r, "open")
    /\ IF Closed(proc[r].win)
       THEN /\ Become(r, [proc[r] EXCEPT !.pc = "lock"])
            /\ asked' = [asked EXCEPT ![r] = {e \in events : InWindow(e, proc[r].win)}]
       ELSE /\ Become(r, Idle)
            /\ UNCHANGED asked
    /\ UNCHANGED <<now, eventVars, dbVars, faults, promised>>

\* Faulty variant of TryLockBucket: the result of the lock query is ignored.
TryLockBucketIgnored(r) ==
    /\ At(r, "lock")
    /\ Become(r, [proc[r] EXCEPT !.pc = "upsert"])
    /\ locks' = locks \cup {proc[r].win}
    /\ UNCHANGED <<now, eventVars, buckets, runs, faults, asked, promised>>

\* Faulty variant of TryLockBucket: the loser's run gets no status.
TryLockBucketNoStatus(r) ==
    /\ At(r, "lock")
    /\ IF proc[r].win \in locks
       THEN /\ Become(r, [proc[r] EXCEPT !.pc = "record"])
            /\ UNCHANGED locks
       ELSE /\ Become(r, [proc[r] EXCEPT !.pc = "upsert"])
            /\ locks' = locks \cup {proc[r].win}
    /\ UNCHANGED <<now, eventVars, buckets, runs, faults, asked, promised>>

\* pg_try_advisory_xact_lock: the loser does not wait, it records "skipped".
TryLockBucket(r) ==
    /\ At(r, "lock")
    /\ IF proc[r].win \in locks
       THEN /\ Become(r, [proc[r] EXCEPT !.pc = "record", !.status = "skipped"])
            /\ UNCHANGED locks
       ELSE /\ Become(r, [proc[r] EXCEPT !.pc = "upsert"])
            /\ locks' = locks \cup {proc[r].win}
    /\ UNCHANGED <<now, eventVars, buckets, runs, faults, asked, promised>>

\* The statement reads the events committed when it starts (READ COMMITTED).
Upsert(r) ==
    /\ At(r, "upsert")
    /\ Become(r, [proc[r] EXCEPT !.pc = "commit",
                                 !.snap = {e \in events : InWindow(e, proc[r].win)}])
    /\ UNCHANGED <<now, eventVars, dbVars, faults, asked, promised>>

\* Faulty variant of Written: ON CONFLICT DO NOTHING.
WrittenOnce(r) ==
    [u \in Users |-> [w \in Times |->
        LET counted == {e \in proc[r].snap : e.user = u}
        IN  IF w = proc[r].win /\ buckets[u][w] = {} THEN counted ELSE buckets[u][w]]]

\* activity_buckets once r's statement is visible: only users that have
\* events in the window are written, and a row that exists is replaced.
Written(r) ==
    [u \in Users |-> [w \in Times |->
        LET counted == {e \in proc[r].snap : e.user = u}
        IN  IF w = proc[r].win /\ counted # {} THEN counted ELSE buckets[u][w]]]

CommitAggregate(r) ==
    /\ At(r, "commit")
    /\ buckets' = Written(r)
    /\ locks' = locks \ {proc[r].win}
    /\ Become(r, [proc[r] EXCEPT !.pc = "record", !.status = "succeeded", !.snap = {}])
    /\ UNCHANGED <<now, eventVars, runs, faults, asked, promised>>

Recorded(r) ==
    runs \cup {[window |-> proc[r].win, status |-> proc[r].status, trigger |-> Trigger(r)]}

\* Faulty variant of AfterRecord: a pass goes on after a failed window.
AfterRecordAlways(r) ==
    IF proc[r].win + Size <= proc[r].until
    THEN [proc[r] EXCEPT !.pc = "open", !.win = @ + Size, !.status = "none"]
    ELSE Idle

\* RunPending goes on to the next window only after a success.
AfterRecord(r) ==
    IF proc[r].status = "succeeded" /\ proc[r].win + Size <= proc[r].until
    THEN [proc[r] EXCEPT !.pc = "open", !.win = @ + Size, !.status = "none"]
    ELSE Idle

RecordRun(r) ==
    /\ At(r, "record")
    /\ runs' = Recorded(r)
    /\ promised' = IF proc[r].status = "succeeded" THEN promised \cup asked[r] ELSE promised
    /\ asked' = [asked EXCEPT ![r] = {}]
    /\ Become(r, AfterRecord(r))
    /\ UNCHANGED <<now, eventVars, buckets, locks, faults>>

-----------------------------------------------------------------------------
(* Faults.  Any call to the database may fail, or succeed with its answer  *)
(* lost; a process may die at any point.                                   *)

Fault == faults < MaxFaults /\ faults' = faults + 1

FailRead(r) ==
    /\ Fault
    /\ At(r, "watermark") \/ At(r, "earliest")
    /\ Become(r, Idle)
    /\ UNCHANGED <<now, eventVars, dbVars, asked, promised>>

\* Begin, lock query, statement or commit fails: the deferred Rollback frees
\* the lock and the attempt is recorded as failed.
FailAggregate(r) ==
    /\ Fault
    /\ At(r, "lock") \/ InTx(r)
    /\ locks' = IF InTx(r) THEN locks \ {proc[r].win} ELSE locks
    /\ Become(r, [proc[r] EXCEPT !.pc = "record", !.status = "failed", !.snap = {}])
    /\ UNCHANGED <<now, eventVars, buckets, runs, asked, promised>>

\* The COMMIT took effect but its answer was lost: also recorded as failed.
LoseCommit(r) ==
    /\ Fault
    /\ At(r, "commit")
    /\ buckets' = Written(r)
    /\ locks' = locks \ {proc[r].win}
    /\ Become(r, [proc[r] EXCEPT !.pc = "record", !.status = "failed", !.snap = {}])
    /\ UNCHANGED <<now, eventVars, runs, asked, promised>>

\* RecordRun fails, with or without its row: RunBucket returns the error.
FailRecord(r) ==
    /\ Fault
    /\ At(r, "record")
    /\ runs' \in {runs, Recorded(r)}
    /\ asked' = [asked EXCEPT ![r] = {}]
    /\ Become(r, Idle)
    /\ UNCHANGED <<now, eventVars, buckets, locks, promised>>

\* The process dies.  Its session, and the lock it holds, outlive it a while.
Crash(r) ==
    /\ Fault
    /\ ~ At(r, "idle")
    /\ asked' = [asked EXCEPT ![r] = {}]
    /\ Become(r, Idle)
    /\ UNCHANGED <<now, eventVars, dbVars, promised>>

\* Postgres notices the dead session, rolls it back and frees its lock.
ReapSession(w) ==
    /\ w \in locks
    /\ \A r \in Runners : ~ (InTx(r) /\ proc[r].win = w)
    /\ locks' = locks \ {w}
    /\ UNCHANGED <<now, eventVars, buckets, runs, proc, faults, asked, promised>>

-----------------------------------------------------------------------------

RunnerStep(r) ==
    \/ StartPass(r) \/ ReadWatermark(r) \/ ReadEarliest(r)
    \/ OpenRun(r) \/ TryLockBucket(r) \/ Upsert(r) \/ CommitAggregate(r) \/ RecordRun(r)

FaultStep(r) ==
    \/ FailRead(r) \/ FailAggregate(r) \/ LoseCommit(r) \/ FailRecord(r) \/ Crash(r)

Next ==
    \/ Tick
    \/ \E u \in Users, t \in Instants : ReceiveEvent(u, t)
    \/ \E e \in inflight : CommitEvent(e)
    \/ \E r \in Runners : RunnerStep(r) \/ FaultStep(r)
    \/ \E r \in Admins, t \in Instants : StartManual(r, t)
    \/ \E w \in locks : ReapSession(w)

Spec == Init /\ [][Next]_vars

\* The clock advances, a live process takes its next step, the scheduler's
\* ticker keeps firing and Postgres reaps dead sessions.
FairSpec ==
    /\ Spec
    /\ WF_vars(Tick)
    /\ \A r \in Runners : WF_vars(RunnerStep(r))
    /\ \A w \in Times : WF_vars(ReapSession(w))

-----------------------------------------------------------------------------
(* Properties *)

\* Type invariant: every variable holds what its table, lock or local
\* variable in the code can hold.
TypeOK ==
    /\ now \in Times
    /\ inflight \subseteq Event /\ events \subseteq Event
    /\ nextId \in 1 .. MaxEvents + 1
    /\ buckets \in [Users -> [Times -> SUBSET Event]]
    /\ runs \subseteq Run
    /\ locks \subseteq Times
    /\ proc \in [Runners -> [pc : Phase, win : Times, until : Times,
                             snap : SUBSET Event, status : Status]]
    /\ faults \in 0 .. MaxFaults
    /\ onTime \subseteq Event /\ promised \subseteq Event
    /\ asked \in [Runners -> SUBSET Event]

Counted(e) == \E w \in Times : e \in buckets[e.user][w]

\* Rows are sound: a row counts only committed events of its user that fall
\* into its window, and the window had closed (Aggregate, RunBucket:107).
RowsSound ==
    \A u \in Users, w \in Times : \A e \in buckets[u][w] :
        /\ e \in events /\ e.user = u
        /\ InWindow(e, w)
        /\ Closed(w)

\* No event is counted by two rows, so a daily sum over rows counts it once:
\* every caller goes through BucketStart, whatever instant an admin passes.
CountedOnce ==
    \A u \in Users, v, w \in Times : v # w => buckets[u][v] \cap buckets[u][w] = {}

\* A succeeded run keeps its word: every event of its window that was
\* committed when RunBucket was called is in activity_buckets from then on,
\* whatever concurrent, retried, failed or replayed runs do to the row.
SucceededRunsCounted == \A e \in promised : Counted(e)

\* No step takes an event out of a row: two transactions never overwrite one
\* window, which is what the advisory lock is for (tryLockBucket).
RowsNeverShrink ==
    [][\A u \in Users, w \in Times : buckets[u][w] \subseteq buckets'[u][w]]_vars

\* The watermark strands nothing: an event that was committed while its
\* window was open is counted once the watermark has reached that window.
OnTimeCounted ==
    \A e \in onTime, w \in Succeeded : e.at < w + Size => Counted(e)

\* Every event committed while its window was open is counted in the end
\* (if the clock, bounded here, lets the window close): passes that fail,
\* crash or are skipped are made up for by later ones (RunPending).
OnTimeEventuallyCounted ==
    \A i \in 1 .. MaxEvents :
        (\E e \in onTime : e.id = i /\ BucketStart(e.at) + Size <= Horizon)
            ~> (\E e \in onTime : e.id = i /\ Counted(e))

\* The scheduler catches up after faults and restarts: the watermark reaches
\* every closed window that is not older than all events.
CatchesUp ==
    \A w \in Times :
        (Aligned(w) /\ Closed(w) /\ \E e \in events : e.at < w + Size)
            ~> (\E v \in Succeeded : v >= w)
=============================================================================
