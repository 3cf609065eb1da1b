------------------------------ MODULE LiveFeed ------------------------------
(***************************************************************************)
(* The dashboard's live feed over the listing and the stream: history      *)
(* first, then the stream, and both again when the stream ends; events are *)
(* recorded, committed and then handed to the open streams.                *)
(*                                                                         *)
(* Sources: frontend/src/LiveFeed.tsx (connect, add), frontend/src/api.ts  *)
(* (streamEvents), internal/service/event.go (Record, publish).  Broker    *)
(* has the stream's own concurrency; here a stream is a queue that may     *)
(* drop what it is offered (stream.Broker.Publish) or end.                 *)
(***************************************************************************)
EXTENDS EventReads

CONSTANTS
    Feeds,       \* open dashboards
    FeedPage,    \* limit of the history request
    FeedLimit    \* feedLimit

ASSUME FeedAssumption == FeedPage \in 1 .. PageMax /\ FeedLimit \in Nat /\ FeedLimit >= FeedPage

VARIABLES
    unpublished,   \* rows committed by requests that have not published them yet
    published,     \* rows handed to the broker
    feed           \* dashboard: connection, user, events shown, stream; history:
                   \* rows its stream dropped, rows published while it was joining

vars == <<rows, reader, unpublished, published, feed>>

Offline == [pc |-> "offline", user |-> None, events |-> <<>>, queue |-> <<>>, dropped |-> {}, gap |-> {}]

Init ==
    /\ InitReads
    /\ unpublished = {} /\ published = {}
    /\ feed = [f \in Feeds |-> Offline]

RecordEvent(r) ==
    /\ Record(r)
    /\ unpublished' = unpublished \cup {r}
    /\ UNCHANGED <<published, feed>>

\* A listing, which leaves the feeds alone.
ReadPages(c) == Read(c) /\ UNCHANGED <<unpublished, published, feed>>

\* listEvents: the newest page of the user's own events.
NewestPage(u) == Page([NoListing EXCEPT !.target = u, !.limit = PageSize(FeedPage)], None).got

\* Faulty variant of History: a feed that was connected before keeps its events.
HistoryOnce(f, u) == IF feed[f].user = u THEN feed[f].events ELSE NewestPage(u)

History(f, u) == NewestPage(u)

\* connect, up to setConnection('live'): the badge is on before the stream is.
LoadHistory(f, u) ==
    /\ feed[f].pc = "offline"
    /\ feed[f].user \in {None, u}
    /\ feed' = [feed EXCEPT ![f] = [Offline EXCEPT !.pc = "joining", !.user = u, !.events = History(f, u)]]
    /\ UNCHANGED <<rows, reader, unpublished, published>>

Subscribe(f) ==
    /\ feed[f].pc = "joining"
    /\ feed' = [feed EXCEPT ![f].pc = "live"]
    /\ UNCHANGED <<rows, reader, unpublished, published>>

\* A feed whose user has a new row: its stream takes it or is full, or it has
\* no stream (yet).
Offered(s, r, full) ==
    CASE s.pc = "joining" -> [s EXCEPT !.gap = @ \cup {r}]
      [] s.pc = "live" /\ full -> [s EXCEPT !.dropped = @ \cup {r}]
      [] s.pc = "live" /\ ~ full -> [s EXCEPT !.queue = Append(@, r)]
      [] OTHER -> s

\* publish: every open stream of the user is offered the row.
Publish(r) ==
    /\ r \in unpublished
    /\ unpublished' = unpublished \ {r} /\ published' = published \cup {r}
    /\ \E full \in SUBSET Feeds :
          feed' = [f \in Feeds |-> IF feed[f].user = r.user
                                   THEN Offered(feed[f], r, f \in full)
                                   ELSE feed[f]]
    /\ UNCHANGED <<rows, reader>>

\* The process dies, or the answer to the COMMIT is lost, before the hand-over.
NeverPublished(r) ==
    /\ r \in unpublished
    /\ unpublished' = unpublished \ {r}
    /\ UNCHANGED <<rows, reader, published, feed>>

Known(events, r) == \E i \in DOMAIN events : events[i].id = r.id

\* Faulty variant of Shown: the list is not cut.
ShownUncut(events, r) == IF Known(events, r) THEN events ELSE <<r>> \o events

\* add: an id that is shown already is ignored, the list is cut.
Shown(events, r) ==
    IF Known(events, r) THEN events
    ELSE SubSeq(<<r>> \o events, 1, IF Len(events) < FeedLimit THEN Len(events) + 1 ELSE FeedLimit)

Receive(f) ==
    /\ feed[f].pc = "live" /\ feed[f].queue # <<>>
    /\ feed' = [feed EXCEPT ![f].queue = Tail(@), ![f].events = Shown(@, Head(feed[f].queue))]
    /\ UNCHANGED <<rows, reader, unpublished, published>>

\* The stream ends or cannot be opened; connect runs again after a while.
Disconnect(f) ==
    /\ feed[f].pc \in {"joining", "live"}
    /\ feed' = [feed EXCEPT ![f] = [Offline EXCEPT !.user = feed[f].user, !.events = feed[f].events]]
    /\ UNCHANGED <<rows, reader, unpublished, published>>

Next ==
    \/ \E r \in Row : RecordEvent(r)
    \/ \E c \in Readers : ReadPages(c)
    \/ \E r \in unpublished : Publish(r) \/ NeverPublished(r)
    \/ \E f \in Feeds, u \in Users : LoadHistory(f, u)
    \/ \E f \in Feeds : Subscribe(f) \/ Receive(f) \/ Disconnect(f)

Spec == Init /\ [][Next]_vars

-----------------------------------------------------------------------------
(* Properties *)

\* Type invariant of the table, the listings and the feeds.
TypeOK ==
    /\ rows \subseteq Row /\ \A r, s \in rows : r.id = s.id => r = s
    /\ reader \in [Readers -> Listing]
    /\ unpublished \subseteq rows /\ published \subseteq rows
    /\ feed \in [Feeds -> [pc : {"offline", "joining", "live"}, user : Users \cup {None},
                           events : Seq(Row), queue : Seq(Row), dropped : SUBSET Row, gap : SUBSET Row]]
    /\ \A f \in Feeds : Len(feed[f].events) <= FeedLimit

\* A feed shows its own user's recorded events, none twice, although the same
\* event may come with the history and with the stream; and while it is
\* connected it lacks none that was published, but those its stream dropped
\* and those published between its history and its stream: whatever was
\* missed while it was offline comes back with the history (as long as a page
\* holds all of the user's events).
FeedFaithful == \A f \in Feeds :
    LET s == feed[f]
        own == {r \in rows : r.user = s.user}
    IN  /\ IsInjective(s.events) /\ ToSet(s.events) \subseteq own
        /\ s.pc = "live" /\ Cardinality(own) <= FeedPage =>
              own \cap published \subseteq ToSet(s.events \o s.queue) \cup s.dropped \cup s.gap
=============================================================================
