--------------------------- MODULE ActivityStats ---------------------------
(***************************************************************************)
(* GET /stats/activity: the per-window and the per-day view of             *)
(* activity_buckets, over the tables of Aggregation.                       *)
(*                                                                         *)
(* Sources: internal/service/aggregation.go (Stats) and                    *)
(* internal/repository/aggregation.go (Buckets, Daily).  Each is one       *)
(* statement, so an answer is a function of the current state.             *)
(***************************************************************************)
EXTENDS Aggregation, FiniteSets

CONSTANTS
    Absent,        \* a query parameter that was not sent
    Marks,         \* bound: instants in from and to
    Day,           \* 24 hours
    StatsWindow,   \* defaultStatsWindow
    MaxRange       \* MaxStatsRange

\* validate: the process refuses to start with any other window.
Validated == Size > 0 /\ Day % Size = 0

ASSUME DayAssumption == Day \in Nat \ {0} /\ Validated
ASSUME RangeAssumption ==
    /\ StatsWindow \in Nat /\ MaxRange \in Nat
    /\ Marks \subseteq Int /\ Absent \notin Int

Until(to) == IF to = Absent THEN now ELSE to

Since(from, to) == IF from = Absent THEN Until(to) - StatsWindow ELSE from

\* to is not after from, or too long after it.
Refused(from, to) == Until(to) - Since(from, to) \notin 1 .. MaxRange

\* Faulty variant of FirstWindow: the range starts at the instant itself.
FirstInstant(from, to) == Since(from, to)

FirstWindow(from, to) == BucketStart(Since(from, to))

\* The windows with a row that the WHERE clause of both queries selects.
Selected(u, from, to) ==
    {w \in Times : buckets[u][w] # {} /\ FirstWindow(from, to) <= w /\ w < Until(to)}

Buckets(u, from, to) == [w \in Selected(u, from, to) |-> Cardinality(buckets[u][w])]

DayOf(t) == t - (t % Day)

\* The sum of a day's counts: rows are told apart by their windows.
Daily(u, from, to) ==
    LET rows == Selected(u, from, to)
    IN  [d \in {DayOf(w) : w \in rows} |->
            Cardinality(UNION {{w} \X buckets[u][w] : w \in {v \in rows : DayOf(v) = d}})]

\* granularity=day or not; no rows for a range that is refused.
Stats(u, from, to, daily) ==
    IF Refused(from, to) THEN <<>>
    ELSE IF daily THEN Daily(u, from, to) ELSE Buckets(u, from, to)

-----------------------------------------------------------------------------

\* The answer to a query, by window and by day: no event that is counted and
\* falls into the requested range is missing, and a day's number is that of
\* the counted events of that day in the answered windows, each counted once,
\* so "the four-hour and the daily view cannot disagree" (README:387).
StatsAgree ==
    \A u \in Users :
        LET counted == UNION {buckets[u][w] : w \in Times}
        IN  \A from, to \in Marks \cup {Absent} : ~ Refused(from, to) =>
                LET windows == DOMAIN Stats(u, from, to, FALSE)
                    shown == {e \in counted : BucketStart(e.at) \in windows}
                    daily == Stats(u, from, to, TRUE)
                IN  /\ \A e \in counted : Since(from, to) <= e.at /\ e.at < Until(to) => e \in shown
                    /\ DOMAIN daily = {DayOf(e.at) : e \in shown}
                    /\ \A d \in DOMAIN daily : daily[d] = Cardinality({e \in shown : DayOf(e.at) = d})
=============================================================================
