---------------------------- MODULE ServerProofs ----------------------------
(***************************************************************************)
(* Proofs about Broker, for any number of publishers, streams and users,   *)
(* any channel capacity and any number of events; then about Server:       *)
(* whatever the process does around them, its streams and publishers are   *)
(* those of Broker, and a graceful stop cuts nobody off.                   *)
(***************************************************************************)
EXTENDS Server, SequenceTheorems, TLAPS

\* The local state of a publisher.
Publisher == [pc : {"idle", "lock", "send"}, ev : Event \cup {NoEvent}, left : SUBSET Streams]
\* The local state of a stream.
Client == [pc : {"new", "join", "open", "leave", "close", "gone"}, user : Users \cup {None}]

\* What stream s was sent or has waiting, in order.
Feed(s) == got[s] \o chan[s]

-----------------------------------------------------------------------------
(***************************************************************************)
(* The inductive invariant.  The read lock keeps the streams a publisher   *)
(* has left registered; registration keeps their channels open; a publisher *)
(* that has a stream left has not yet put its event there.                  *)
(***************************************************************************)

\* A publisher under way has its own latest event, and streams left only
\* inside RLock, where they stay registered.
PubKnown(p) ==
    /\ pub[p].pc = "send" <=> p \in readers
    /\ pub[p].pc # "send" => pub[p].left = {}
    /\ pub[p].pc # "idle" => /\ pub[p].ev \in Event
                             /\ pub[p].ev.pub = p /\ pub[p].ev.seq = count[p]
    /\ \A s \in pub[p].left : s \in subs[pub[p].ev.user]

\* A stream is registered for its user from Subscribe to its cancel function,
\* closed after it, and untouched before.
StreamKnown(s) ==
    /\ stream[s].pc # "new" => stream[s].user \in Users
    /\ \A u \in Users : s \in subs[u] <=> stream[s].pc \in {"open", "leave"} /\ u = stream[s].user
    /\ s \in closed => stream[s].pc = "gone"
    /\ stream[s].pc \in {"new", "join"} =>
          chan[s] = <<>> /\ got[s] = <<>> /\ offered[s] = {} /\ dropped[s] = {}

\* p's next event for s comes after all of p's events in s's feed.
Ahead(p, s) == \A i \in DOMAIN Feed(s) : Feed(s)[i].pub = p =>
    /\ Feed(s)[i].seq <= count[p]
    /\ pub[p].pc = "lock" \/ s \in pub[p].left => Feed(s)[i].seq < count[p]

\* A feed has its user's events only, each publisher's in order.
FeedOf(s) ==
    /\ \A i \in DOMAIN Feed(s) : Feed(s)[i].user = stream[s].user
    /\ \A i, j \in DOMAIN Feed(s) :
          i < j /\ Feed(s)[i].pub = Feed(s)[j].pub => Feed(s)[i].seq < Feed(s)[j].seq

\* Accounted, event by event.
AccountOf(s) == stream[s].pc = "open" => \A e \in Event :
    e \in offered[s] <=> \/ e \in ToSet(Feed(s)) \/ e \in dropped[s]
                         \/ \E p \in Pubs : s \in pub[p].left /\ e = pub[p].ev

\* The inductive invariant of the stream.
BrokerInv ==
    /\ TypeOK
    /\ \A p \in Pubs : PubKnown(p)
    /\ \A s \in Streams : StreamKnown(s) /\ FeedOf(s) /\ AccountOf(s)
    /\ \A p \in Pubs, s \in Streams : Ahead(p, s)

-----------------------------------------------------------------------------
(* Lemmas about feeds *)

\* A feed is a sequence of events: those written, then those waiting.
LEMMA FeedType ==
    ASSUME TypeOK, NEW s \in Streams
    PROVE  /\ Feed(s) \in Seq(Event) /\ Len(Feed(s)) \in Nat /\ DOMAIN Feed(s) = 1 .. Len(Feed(s))
           /\ \A i \in DOMAIN Feed(s) : Feed(s)[i] \in Event
           /\ ToSet(Feed(s)) = ToSet(got[s]) \cup ToSet(chan[s])
<1>1. got[s] \in Seq(Event) /\ chan[s] \in Seq(Event)
    BY DEF TypeOK
<1>2. Feed(s) \in Seq(Event)
    BY <1>1, ConcatProperties DEF Feed
<1>3. /\ Len(Feed(s)) \in Nat /\ DOMAIN Feed(s) = 1 .. Len(Feed(s))
      /\ \A i \in DOMAIN Feed(s) : Feed(s)[i] \in Event
    BY <1>2, LenProperties
<1>4. Range(Feed(s)) = Range(got[s]) \cup Range(chan[s])
    BY <1>1, RangeConcatenation DEF Feed
<1> QED BY <1>2, <1>3, <1>4 DEF Range, ToSet

\* What is appended to the second part of a sequence comes last in all of it.
LEMMA ConcatAppend ==
    ASSUME NEW S, NEW g \in Seq(S), NEW c \in Seq(S), NEW e \in S
    PROVE  g \o Append(c, e) = Append(g \o c, e)
<1>1. g \o Append(c, e) \in Seq(S) /\ Append(g \o c, e) \in Seq(S)
    OBVIOUS
<1>2. /\ Len(g \o Append(c, e)) = Len(Append(g \o c, e))
      /\ \A i \in 1 .. Len(g \o Append(c, e)) : (g \o Append(c, e))[i] = Append(g \o c, e)[i]
    OBVIOUS
<1> QED BY <1>1, <1>2, SeqEqual

\* An event that is sent comes last in the feed.
LEMMA FeedGrows ==
    ASSUME TypeOK, NEW s \in Streams, NEW e \in Event,
           got'[s] = got[s], chan'[s] = Append(chan[s], e)
    PROVE  Feed(s)' = Append(Feed(s), e)
<1>1. \A g, c \in Seq(Event), x \in Event : g \o Append(c, x) = Append(g \o c, x)
    BY ConcatAppend
<1>2. got[s] \in Seq(Event) /\ chan[s] \in Seq(Event)
    BY DEF TypeOK
<1> QED BY <1>1, <1>2 DEF Feed

\* Writing the first waiting event to the client leaves the feed as it is.
LEMMA FeedDelivered ==
    ASSUME TypeOK, NEW s \in Streams, chan[s] # <<>>,
           got'[s] = Append(got[s], Head(chan[s])), chan'[s] = Tail(chan[s])
    PROVE  Feed(s)' = Feed(s)
<1> DEFINE g == got[s]
           c == chan[s]
<1>1. g \in Seq(Event) /\ c \in Seq(Event) /\ c # <<>>
    BY DEF TypeOK
<1> HIDE DEF g, c
<1>2. Head(c) \in Event /\ Tail(c) \in Seq(Event) /\ <<Head(c)>> \in Seq(Event)
    BY <1>1, HeadTailProperties
<1>3. c = <<Head(c)>> \o Tail(c)
    <2>1. /\ Len(<<Head(c)>> \o Tail(c)) = Len(c) /\ <<Head(c)>> \o Tail(c) \in Seq(Event)
          /\ \A i \in 1 .. Len(c) : (<<Head(c)>> \o Tail(c))[i] = c[i]
        BY <1>1, <1>2
    <2> QED BY <1>1, <2>1, SeqEqual
<1>4. Append(g, Head(c)) \o Tail(c) = g \o (<<Head(c)>> \o Tail(c))
    BY <1>1, <1>2, AppendIsConcat, ConcatAssociative
<1>5. Append(g, Head(c)) \o Tail(c) = g \o c
    BY <1>3, <1>4
<1> QED BY <1>5 DEF Feed, g, c

-----------------------------------------------------------------------------
(* One lemma per action *)

\* A new event is later than all that its publisher sent before.
LEMMA StartPublishStep ==
    ASSUME BrokerInv, NEW p \in Pubs, NEW u \in Users, StartPublish(p, u)
    PROVE  BrokerInv'
<1> DEFINE ev == [pub |-> p, user |-> u, seq |-> count[p] + 1]
           r == [pc |-> "lock", left |-> {}, ev |-> ev]
<1>1. TypeOK /\ PubKnown(p) /\ pub[p].pc = "idle"
    BY DEF BrokerInv, StartPublish, PubAt
<1>2. /\ count[p] \in 0 .. MaxEvents /\ count[p] < MaxEvents /\ count' = [count EXCEPT ![p] = @ + 1]
      /\ pub' = [pub EXCEPT ![p] = r]
      /\ UNCHANGED <<subs, entries, readers, writer, chan, closed, stream, got, offered, dropped>>
    BY <1>1 DEF StartPublish, TypeOK, registry
<1>3. ev \in Event /\ ev.pub = p /\ ev.seq = count[p] + 1
    BY <1>2, BufferAssumption DEF Event
<1> HIDE DEF ev
<1>4. r \in Publisher /\ r.pc = "lock" /\ r.left = {} /\ r.ev = ev
    BY <1>3 DEF Publisher
<1> HIDE DEF r
<1>5. /\ count' \in [Pubs -> 0 .. MaxEvents] /\ count'[p] = count[p] + 1
      /\ pub' \in [Pubs -> Publisher] /\ pub'[p] = r
      /\ \A q \in Pubs : q # p => pub'[q] = pub[q] /\ count'[q] = count[q]
    BY <1>1, <1>2, <1>4, BufferAssumption DEF TypeOK, Publisher
<1>6. TypeOK'
    BY <1>1, <1>2, <1>5 DEF TypeOK, Publisher
<1>7. ASSUME NEW q \in Pubs PROVE PubKnown(q)'
    BY <1>1, <1>2, <1>3, <1>4, <1>5, <1>7 DEF BrokerInv, PubKnown
<1>8. ASSUME NEW s \in Streams PROVE Feed(s)' = Feed(s) /\ (\A q \in Pubs : pub'[q].left = pub[q].left)
    BY <1>1, <1>2, <1>4, <1>5 DEF Feed, PubKnown
<1>9. ASSUME NEW s \in Streams PROVE StreamKnown(s)' /\ FeedOf(s)'
    BY <1>2, <1>8, <1>9 DEF BrokerInv, StreamKnown, FeedOf
<1>10. ASSUME NEW s \in Streams PROVE AccountOf(s)'
    <2>1. \A q \in Pubs : s \in pub'[q].left <=> s \in pub[q].left
        BY <1>8
    <2>2. \A q \in Pubs : s \in pub[q].left => pub'[q] = pub[q]
        BY <1>1, <1>5 DEF PubKnown
    <2> QED BY <1>2, <1>8, <1>10, <2>1, <2>2 DEF BrokerInv, AccountOf
<1>11. ASSUME NEW q \in Pubs, NEW s \in Streams PROVE Ahead(q, s)'
    <2>1. Ahead(q, s) /\ \A i \in DOMAIN Feed(s) : Feed(s)[i].seq \in Int
        <3>1. \A i \in DOMAIN Feed(s) : Feed(s)[i] \in Event
            BY <1>1, FeedType
        <3> QED BY <1>11, <3>1, BufferAssumption DEF BrokerInv, Event
    <2>2. CASE q = p
        BY <1>2, <1>5, <1>8, <2>1, <2>2 DEF Ahead
    <2>3. CASE q # p
        BY <1>2, <1>5, <1>8, <2>1, <2>3 DEF Ahead
    <2> QED BY <2>2, <2>3
<1> QED BY <1>6, <1>7, <1>9, <1>10, <1>11 DEF BrokerInv

\* Every stream the loop will visit is registered for the event's user.
LEMMA RLockStep == ASSUME BrokerInv, NEW p \in Pubs, RLock(p) PROVE BrokerInv'
<1> DEFINE ev == pub[p].ev
           found == subs[ev.user]
           r == [pub[p] EXCEPT !.pc = "send", !.left = found]
<1>1. TypeOK /\ PubKnown(p) /\ pub[p].pc = "lock" /\ pub[p] \in Publisher
    BY DEF BrokerInv, RLock, PubAt, TypeOK, Publisher
<1>2. ev \in Event /\ ev.user \in Users /\ found \in SUBSET Streams
    BY <1>1 DEF PubKnown, Event, TypeOK
<1>3. /\ readers' = readers \cup {p} /\ pub' = [pub EXCEPT ![p] = r]
      /\ offered' = [s \in Streams |-> IF s \in found THEN offered[s] \cup {ev} ELSE offered[s]]
      /\ UNCHANGED <<subs, entries, writer, chan, closed, stream, count, got, dropped>>
    BY <1>1 DEF RLock, registry, TypeOK
<1>4. r \in Publisher /\ r.pc = "send" /\ r.left = found /\ r.ev = ev
    BY <1>1, <1>2 DEF Publisher
<1> HIDE DEF ev, found, r
<1>5. /\ pub' \in [Pubs -> Publisher] /\ pub'[p] = r /\ \A q \in Pubs : q # p => pub'[q] = pub[q]
    BY <1>1, <1>3, <1>4 DEF TypeOK, Publisher
<1>6. TypeOK'
    <2>1. offered' \in [Streams -> SUBSET Event]
        BY <1>1, <1>2, <1>3 DEF TypeOK
    <2> QED BY <1>1, <1>3, <1>5, <2>1 DEF TypeOK, Publisher
<1>7. ASSUME NEW q \in Pubs PROVE PubKnown(q)'
    <2>1. CASE q = p
        BY <1>1, <1>2, <1>3, <1>4, <1>5, <2>1 DEF PubKnown, ev, found
    <2>2. CASE q # p
        BY <1>3, <1>5, <1>7, <2>2 DEF BrokerInv, PubKnown
    <2> QED BY <2>1, <2>2
<1>8. ASSUME NEW s \in Streams PROVE Feed(s)' = Feed(s)
    BY <1>3 DEF Feed
<1>9. ASSUME NEW s \in Streams PROVE StreamKnown(s)' /\ FeedOf(s)'
    <2>1. StreamKnown(s) /\ FeedOf(s)
        BY <1>9 DEF BrokerInv
    <2>2. s \in found => stream[s].pc \in {"open", "leave"}
        BY <1>2, <2>1 DEF StreamKnown, found
    <2>3. offered'[s] = IF s \in found THEN offered[s] \cup {ev} ELSE offered[s]
        BY <1>3, <1>9
    <2> QED BY <1>3, <1>8, <2>1, <2>2, <2>3 DEF StreamKnown, FeedOf
<1>10. ASSUME NEW s \in Streams PROVE AccountOf(s)'
    <2>1. offered'[s] = IF s \in found THEN offered[s] \cup {ev} ELSE offered[s]
        BY <1>3, <1>10
    <2>2. pub[p].left = {}
        BY <1>1 DEF PubKnown
    <2>3. ASSUME NEW e PROVE (\E q \in Pubs : s \in pub'[q].left /\ e = pub'[q].ev)
                             <=> \/ \E q \in Pubs : s \in pub[q].left /\ e = pub[q].ev
                                 \/ s \in found /\ e = ev
        BY <1>4, <1>5, <2>2
    <2> QED BY <1>3, <1>8, <1>10, <2>1, <2>3, ZenonT(60) DEF BrokerInv, AccountOf
<1>11. ASSUME NEW q \in Pubs, NEW s \in Streams PROVE Ahead(q, s)'
    <2>1. CASE q = p
        BY <1>1, <1>3, <1>8, <1>11, <2>1 DEF BrokerInv, Ahead
    <2>2. CASE q # p
        BY <1>3, <1>5, <1>8, <1>11, <2>2 DEF BrokerInv, Ahead
    <2> QED BY <2>1, <2>2
<1> QED BY <1>6, <1>7, <1>9, <1>10, <1>11 DEF BrokerInv

\* The event goes last into a feed of its user that has nothing later of its
\* publisher, or is counted as dropped; either way it is accounted for.
LEMMA SendStep == ASSUME BrokerInv, NEW p \in Pubs, NEW s \in Streams, Send(p, s) PROVE BrokerInv'
<1> DEFINE ev == pub[p].ev
           r == [pub[p] EXCEPT !.left = @ \ {s}]
<1>1. /\ TypeOK /\ PubKnown(p) /\ StreamKnown(s) /\ FeedOf(s) /\ AccountOf(s)
      /\ pub[p].pc = "send" /\ s \in pub[p].left /\ pub[p] \in Publisher
    BY DEF BrokerInv, Send, PubAt, TypeOK, Publisher
<1>2. /\ ev \in Event /\ ev.pub = p /\ ev.seq = count[p] /\ ev.user \in Users
      /\ stream[s].user = ev.user /\ count[p] \in Int
    BY <1>1 DEF PubKnown, StreamKnown, Event, TypeOK
<1>3. /\ pub' = [pub EXCEPT ![p] = r]
      /\ UNCHANGED <<subs, entries, readers, writer, closed, stream, count, got, offered>>
    BY <1>1 DEF Send, registry, TypeOK
<1>4. r \in Publisher /\ r.pc = "send" /\ r.left = pub[p].left \ {s} /\ r.ev = ev
    BY <1>1 DEF Publisher
<1>5. \/ chan' = [chan EXCEPT ![s] = Append(@, ev)] /\ dropped' = dropped /\ Len(chan[s]) < Buffer
      \/ chan' = chan /\ dropped' = [dropped EXCEPT ![s] = @ \cup {ev}]
    BY DEF Send
<1> HIDE DEF ev, r
<1>6. /\ pub' \in [Pubs -> Publisher] /\ pub'[p] = r /\ \A q \in Pubs : q # p => pub'[q] = pub[q]
    BY <1>1, <1>3, <1>4 DEF TypeOK, Publisher
<1>7. /\ \A t \in Streams : t # s => chan'[t] = chan[t] /\ dropped'[t] = dropped[t]
      /\ \/ chan'[s] = Append(chan[s], ev) /\ dropped'[s] = dropped[s]
         \/ chan'[s] = chan[s] /\ dropped'[s] = dropped[s] \cup {ev}
    BY <1>1, <1>5 DEF TypeOK
<1>8. TypeOK'
    <2>1. CASE chan' = chan /\ dropped' = [dropped EXCEPT ![s] = @ \cup {ev}]
        BY <1>1, <1>2, <1>3, <1>6, <2>1 DEF TypeOK, Publisher
    <2>2. CASE chan' = [chan EXCEPT ![s] = Append(@, ev)] /\ dropped' = dropped /\ Len(chan[s]) < Buffer
        <3>1. chan[s] \in Seq(Event) /\ Len(chan[s]) \in Nat
            BY <1>1 DEF TypeOK
        <3>2. Append(chan[s], ev) \in Seq(Event) /\ Len(Append(chan[s], ev)) = Len(chan[s]) + 1
            BY <1>2, <3>1, AppendProperties
        <3>3. Len(Append(chan[s], ev)) <= Buffer
            BY <2>2, <3>1, <3>2, BufferAssumption
        <3>4. chan' \in [Streams -> Seq(Event)] /\ \A t \in Streams : Len(chan'[t]) <= Buffer
            BY <1>1, <2>2, <3>2, <3>3 DEF TypeOK
        <3> QED BY <1>1, <1>3, <1>6, <2>2, <3>4 DEF TypeOK, Publisher
    <2> QED BY <1>5, <2>1, <2>2
<1>9. ASSUME NEW q \in Pubs PROVE PubKnown(q)'
    <2>1. CASE q = p
        BY <1>1, <1>3, <1>4, <1>6, <2>1 DEF PubKnown, ev
    <2>2. CASE q # p
        BY <1>3, <1>6, <1>9, <2>2 DEF BrokerInv, PubKnown
    <2> QED BY <2>1, <2>2
<1>10. ASSUME NEW t \in Streams PROVE StreamKnown(t)'
    <2>1. StreamKnown(t) /\ (t = s => stream[t].pc \in {"open", "leave"})
        BY <1>1, <1>2, <1>10 DEF BrokerInv, StreamKnown, PubKnown, ev
    <2> QED BY <1>3, <1>7, <2>1 DEF StreamKnown
<1>11. /\ \A t \in Streams : t # s => Feed(t)' = Feed(t)
       /\ \/ Feed(s)' = Append(Feed(s), ev) /\ dropped'[s] = dropped[s]
          \/ Feed(s)' = Feed(s) /\ dropped'[s] = dropped[s] \cup {ev}
    <2>1. \A t \in Streams : t # s => Feed(t)' = Feed(t)
        BY <1>3, <1>7 DEF Feed
    <2>2. CASE chan'[s] = Append(chan[s], ev) /\ dropped'[s] = dropped[s]
        BY <1>1, <1>2, <1>3, <2>1, <2>2, FeedGrows
    <2>3. CASE chan'[s] = chan[s] /\ dropped'[s] = dropped[s] \cup {ev}
        BY <1>3, <2>1, <2>3 DEF Feed
    <2> QED BY <1>7, <2>2, <2>3
<1>12. /\ Feed(s) \in Seq(Event) /\ Len(Feed(s)) \in Nat /\ DOMAIN Feed(s) = 1 .. Len(Feed(s))
       /\ \A i \in DOMAIN Feed(s) : Feed(s)[i].seq \in Int
    <2>1. /\ Feed(s) \in Seq(Event) /\ Len(Feed(s)) \in Nat /\ DOMAIN Feed(s) = 1 .. Len(Feed(s))
          /\ \A i \in DOMAIN Feed(s) : Feed(s)[i] \in Event
        BY <1>1, FeedType
    <2>2. \A e \in Event : e.seq \in Int
        BY BufferAssumption DEF Event
    <2> QED BY <2>1, <2>2
<1>13. CASE Feed(s)' = Feed(s) /\ dropped'[s] = dropped[s] \cup {ev}
    <2>1. ASSUME NEW t \in Streams PROVE FeedOf(t)'
        BY <1>3, <1>11, <1>13, <2>1 DEF BrokerInv, FeedOf
    <2>2. ASSUME NEW q \in Pubs, NEW t \in Streams PROVE Ahead(q, t)'
        BY <1>1, <1>3, <1>4, <1>6, <1>11, <1>13, <2>2 DEF BrokerInv, Ahead
    <2>3. ASSUME NEW t \in Streams PROVE AccountOf(t)'
        <3>1. CASE t = s
            <4>1. ASSUME NEW e PROVE (\E q \in Pubs : s \in pub[q].left /\ e = pub[q].ev)
                                     <=> \/ \E q \in Pubs : s \in pub'[q].left /\ e = pub'[q].ev
                                         \/ e = ev
                BY <1>1, <1>4, <1>6 DEF ev
            <4> QED BY <1>1, <1>3, <1>13, <3>1, <4>1, SMTT(30) DEF AccountOf
        <3>2. CASE t # s
            <4>1. ASSUME NEW e PROVE (\E q \in Pubs : t \in pub[q].left /\ e = pub[q].ev)
                                     <=> \E q \in Pubs : t \in pub'[q].left /\ e = pub'[q].ev
                BY <1>4, <1>6, <3>2 DEF ev
            <4> QED BY <1>3, <1>7, <1>11, <2>3, <3>2, <4>1 DEF BrokerInv, AccountOf
        <3> QED BY <3>1, <3>2
    <2> QED BY <1>8, <1>9, <1>10, <2>1, <2>2, <2>3 DEF BrokerInv
<1>14. CASE Feed(s)' = Append(Feed(s), ev) /\ dropped'[s] = dropped[s]
    <2> DEFINE n == Len(Feed(s))
               old == Feed(s)
               new == Append(Feed(s), ev)
    <2>1. /\ n \in Nat /\ DOMAIN old = 1 .. n /\ DOMAIN new = 1 .. n + 1
          /\ \A i \in 1 .. n : new[i] = old[i] /\ old[i].seq \in Int
          /\ new[n + 1] = ev
        <3>1. new \in Seq(Event) /\ Len(new) = n + 1 /\ (\A i \in 1 .. n : new[i] = old[i]) /\ new[n + 1] = ev
            BY <1>2, <1>12, AppendProperties
        <3>2. DOMAIN new = 1 .. n + 1
            BY <3>1, LenProperties
        <3> QED BY <1>12, <3>1, <3>2
    <2>2. Feed(s)' = new /\ Feed(s) = old
        BY <1>14
    <2>3. Ahead(p, s) /\ s \in pub[p].left
        BY <1>1 DEF BrokerInv
    <2>4. \A i \in 1 .. n : old[i].pub = p => old[i].seq < count[p]
        BY <2>1, <2>2, <2>3 DEF Ahead
    <2>5. ToSet(new) = ToSet(old) \cup {ev}
        BY <2>1 DEF ToSet
    <2> HIDE DEF n, old, new
    <2>6. ASSUME NEW t \in Streams PROVE FeedOf(t)'
        <3>1. CASE t # s
            BY <1>3, <1>11, <2>6, <3>1 DEF BrokerInv, FeedOf
        <3>2. CASE t = s
            <4>1. \A i \in 1 .. n + 1 : new[i].user = stream'[s].user
                BY <1>1, <1>2, <1>3, <2>1, <2>2 DEF FeedOf
            <4>2. \A i, j \in 1 .. n + 1 : i < j /\ new[i].pub = new[j].pub => new[i].seq < new[j].seq
                <5>1. \A i, j \in 1 .. n : i < j /\ old[i].pub = old[j].pub => old[i].seq < old[j].seq
                    BY <1>1, <2>1, <2>2 DEF FeedOf
                <5> SUFFICES ASSUME NEW i \in 1 .. n + 1, NEW j \in 1 .. n + 1, i < j, new[i].pub = new[j].pub
                             PROVE  new[i].seq < new[j].seq
                    OBVIOUS
                <5>2. i \in 1 .. n /\ (j \in 1 .. n \/ j = n + 1)
                    BY <2>1
                <5>3. CASE j = n + 1
                    BY <1>2, <2>1, <2>4, <5>2, <5>3
                <5> QED BY <2>1, <5>1, <5>2, <5>3
            <4> QED BY <2>1, <2>2, <3>2, <4>1, <4>2 DEF FeedOf
        <3> QED BY <3>1, <3>2
    <2>7. ASSUME NEW q \in Pubs, NEW t \in Streams PROVE Ahead(q, t)'
        <3>1. CASE t # s
            BY <1>3, <1>4, <1>6, <1>11, <1>1, <2>7, <3>1 DEF BrokerInv, Ahead
        <3>2. CASE t = s /\ q # p
            <4>1. /\ \A i \in 1 .. n : old[i].pub = q =>
                        /\ old[i].seq <= count[q]
                        /\ pub[q].pc = "lock" \/ s \in pub[q].left => old[i].seq < count[q]
                BY <2>1, <2>2, <2>7 DEF BrokerInv, Ahead
            <4>2. \A i \in 1 .. n + 1 : new[i].pub = q =>
                        /\ new[i].seq <= count[q]
                        /\ pub[q].pc = "lock" \/ s \in pub[q].left => new[i].seq < count[q]
                BY <1>2, <2>1, <3>2, <4>1
            <4> QED BY <1>3, <1>6, <2>1, <2>2, <3>2, <4>2 DEF Ahead
        <3>3. CASE t = s /\ q = p
            BY <1>2, <1>3, <1>4, <1>6, <2>1, <2>2, <2>4, <3>3 DEF Ahead
        <3> QED BY <3>1, <3>2, <3>3
    <2>8. ASSUME NEW t \in Streams PROVE AccountOf(t)'
        <3>1. CASE t = s
            <4>1. ASSUME NEW e PROVE (\E q \in Pubs : s \in pub[q].left /\ e = pub[q].ev)
                                     <=> \/ \E q \in Pubs : s \in pub'[q].left /\ e = pub'[q].ev
                                         \/ e = ev
                BY <1>1, <1>4, <1>6 DEF ev
            <4> QED BY <1>1, <1>3, <1>14, <2>2, <2>5, <3>1, <4>1, SMTT(30) DEF AccountOf
        <3>2. CASE t # s
            <4>1. ASSUME NEW e PROVE (\E q \in Pubs : t \in pub[q].left /\ e = pub[q].ev)
                                     <=> \E q \in Pubs : t \in pub'[q].left /\ e = pub'[q].ev
                BY <1>4, <1>6, <3>2 DEF ev
            <4> QED BY <1>3, <1>7, <1>11, <2>8, <3>2, <4>1 DEF BrokerInv, AccountOf
        <3> QED BY <3>1, <3>2
    <2> QED BY <1>8, <1>9, <1>10, <2>6, <2>7, <2>8 DEF BrokerInv
<1> QED BY <1>11, <1>13, <1>14

\* A publisher that is done leaves RLock.
LEMMA RUnlockStep == ASSUME BrokerInv, NEW p \in Pubs, RUnlock(p) PROVE BrokerInv'
<1>1. TypeOK /\ PubKnown(p) /\ pub[p].pc = "send" /\ pub[p].left = {}
    BY DEF BrokerInv, RUnlock, PubAt
<1>2. /\ readers' = readers \ {p} /\ pub' = [pub EXCEPT ![p] = Quiet]
      /\ UNCHANGED <<subs, entries, writer, chan, closed, stream, count, got, offered, dropped>>
    BY DEF RUnlock, registry
<1>3. Quiet \in Publisher /\ Quiet.pc = "idle" /\ Quiet.left = {}
    BY DEF Quiet, Publisher
<1>4. /\ pub' \in [Pubs -> Publisher] /\ pub'[p] = Quiet /\ \A q \in Pubs : q # p => pub'[q] = pub[q]
    BY <1>1, <1>2, <1>3 DEF TypeOK, Publisher
<1>5. TypeOK'
    BY <1>1, <1>2, <1>4 DEF TypeOK, Publisher
<1>6. ASSUME NEW q \in Pubs PROVE PubKnown(q)'
    BY <1>2, <1>3, <1>4, <1>6 DEF BrokerInv, PubKnown
<1>7. ASSUME NEW s \in Streams PROVE Feed(s)' = Feed(s) /\ StreamKnown(s)' /\ FeedOf(s)'
    BY <1>2, <1>7, ZenonT(60) DEF BrokerInv, Feed, StreamKnown, FeedOf
<1>8. ASSUME NEW s \in Streams PROVE AccountOf(s)'
    <2>1. ASSUME NEW e PROVE (\E q \in Pubs : s \in pub[q].left /\ e = pub[q].ev)
                             <=> \E q \in Pubs : s \in pub'[q].left /\ e = pub'[q].ev
        BY <1>1, <1>3, <1>4
    <2> QED BY <1>2, <1>7, <1>8, <2>1, SMTT(30) DEF BrokerInv, AccountOf
<1>9. ASSUME NEW q \in Pubs, NEW s \in Streams PROVE Ahead(q, s)'
    BY <1>1, <1>2, <1>3, <1>4, <1>7, <1>9 DEF BrokerInv, Ahead
<1> QED BY <1>5, <1>6, <1>7, <1>8, <1>9 DEF BrokerInv

\* A stream moves on, the feeds and the publishers stay: only what is known of
\* this stream changes.
LEMMA StreamMove ==
    ASSUME BrokerInv, NEW s \in Streams,
           UNCHANGED <<readers, pub, count, chan, got, offered, dropped>>,
           writer' \in Streams \cup {None}, entries' \subseteq Users, closed' \subseteq Streams,
           stream' \in [Streams -> Client], subs' \in [Users -> SUBSET Streams],
           \A t \in Streams : t # s => /\ stream'[t] = stream[t] /\ (t \in closed' <=> t \in closed)
                                       /\ \A u \in Users : t \in subs'[u] <=> t \in subs[u],
           \A p \in Pubs : s \in pub[p].left => s \in subs'[pub[p].ev.user],
           stream'[s].user = stream[s].user \/ stream[s].pc = "new",
           stream'[s].pc = "open" => stream[s].pc \in {"join", "open"},
           StreamKnown(s)'
    PROVE  BrokerInv'
<1>1. TypeOK'
    BY DEF BrokerInv, TypeOK, Client
<1>2. ASSUME NEW p \in Pubs PROVE PubKnown(p)'
    <2>1. PubKnown(p) /\ pub[p].left \subseteq Streams
        BY <1>2 DEF BrokerInv, TypeOK
    <2>2. pub[p].left # {} => pub[p].ev.user \in Users
        BY <2>1 DEF PubKnown, Event
    <2> QED BY <1>2, <2>1, <2>2 DEF PubKnown
<1>3. ASSUME NEW t \in Streams, t # s PROVE StreamKnown(t)'
    BY <1>3 DEF BrokerInv, StreamKnown
<1>4. ASSUME NEW t \in Streams PROVE Feed(t)' = Feed(t)
    BY DEF Feed
<1>5. ASSUME NEW p \in Pubs, NEW t \in Streams PROVE Ahead(p, t)'
    BY <1>4, <1>5 DEF BrokerInv, Ahead
<1>6. ASSUME NEW t \in Streams PROVE FeedOf(t)'
    <2>1. CASE stream'[t].user = stream[t].user
        BY <1>4, <1>6, <2>1 DEF BrokerInv, FeedOf
    <2>2. CASE stream[t].pc = "new"
        <3>1. Feed(t) = <<>>
            BY <1>6, <2>2, ConcatEmptySeq DEF BrokerInv, StreamKnown, Feed
        <3> QED BY <1>4, <1>6, <3>1 DEF FeedOf
    <2> QED BY <1>6, <2>1, <2>2
<1>7. ASSUME NEW t \in Streams PROVE AccountOf(t)'
    <2>1. CASE stream[t].pc = "open" \/ stream'[t].pc # "open"
        BY <1>4, <1>7, <2>1 DEF BrokerInv, AccountOf
    <2>2. CASE stream[t].pc = "join"
        <3>1. StreamKnown(t)
            BY <1>7 DEF BrokerInv
        <3>2. Feed(t) = <<>> /\ offered[t] = {} /\ dropped[t] = {}
            BY <2>2, <3>1, ConcatEmptySeq DEF StreamKnown, Feed
        <3>3. ToSet(Feed(t)) = {}
            BY <3>2 DEF ToSet
        <3>4. ASSUME NEW p \in Pubs PROVE t \notin pub[p].left
            <4>1. PubKnown(p)
                BY <3>4 DEF BrokerInv
            <4>2. pub[p].left # {} => pub[p].ev.user \in Users
                BY <4>1 DEF PubKnown, Event
            <4> QED BY <2>2, <3>1, <4>1, <4>2 DEF PubKnown, StreamKnown
        <3> QED BY <1>4, <1>7, <3>2, <3>3, <3>4 DEF AccountOf
    <2> QED BY <1>7, <2>1, <2>2
<1> QED BY <1>1, <1>2, <1>3, <1>5, <1>6, <1>7 DEF BrokerInv

\* Before it is registered, and while others hold the registry, a stream
\* changes nothing that a publisher can see.
LEMMA OpenStep == ASSUME BrokerInv, NEW s \in Streams, NEW u \in Users, Open(s, u) PROVE BrokerInv'
<1> DEFINE r == [pc |-> "join", user |-> u]
<1>1. /\ TypeOK /\ StreamKnown(s) /\ stream[s].pc = "new"
      /\ stream' = [stream EXCEPT ![s] = r]
      /\ UNCHANGED <<subs, entries, readers, writer, chan, closed, pub, count, got, offered, dropped>>
    BY DEF BrokerInv, Open, StreamAt, registry
<1>2. /\ r \in Client /\ r.pc = "join" /\ r.user = u
    BY DEF Client
<1> HIDE DEF r
<1>3. /\ stream' \in [Streams -> Client] /\ stream'[s] = r
      /\ \A t \in Streams : t # s => stream'[t] = stream[t]
    BY <1>1, <1>2 DEF TypeOK, Client
<1>4. StreamKnown(s)'
    BY <1>1, <1>2, <1>3 DEF StreamKnown
<1>5. \A p \in Pubs : s \in pub[p].left => s \in subs'[pub[p].ev.user]
    BY <1>1 DEF BrokerInv, PubKnown
<1> QED BY <1>1, <1>2, <1>3, <1>4, <1>5, StreamMove DEF TypeOK

\* A stream takes the write lock.
LEMMA LockStep == ASSUME BrokerInv, NEW s \in Streams, Lock(s) PROVE BrokerInv'
<1>1. /\ TypeOK /\ StreamKnown(s) /\ writer' = s
      /\ UNCHANGED <<subs, entries, readers, stream, chan, closed, pub, count, got, offered, dropped>>
    BY DEF BrokerInv, Lock, registry
<1>2. stream' \in [Streams -> Client]
    BY <1>1 DEF TypeOK, Client
<1>3. StreamKnown(s)'
    BY <1>1 DEF StreamKnown
<1>4. \A p \in Pubs : s \in pub[p].left => s \in subs'[pub[p].ev.user]
    BY <1>1 DEF BrokerInv, PubKnown
<1> QED BY <1>1, <1>2, <1>3, <1>4, StreamMove DEF TypeOK

\* Subscribe registers the stream with an empty channel.
LEMMA RegisterStep == ASSUME BrokerInv, NEW s \in Streams, Register(s) PROVE BrokerInv'
<1> DEFINE u == stream[s].user
           r == [stream[s] EXCEPT !.pc = "open"]
<1>1. /\ TypeOK /\ StreamKnown(s) /\ stream[s].pc = "join" /\ stream[s] \in Client /\ u \in Users
      /\ stream' = [stream EXCEPT ![s] = r] /\ subs' = [subs EXCEPT ![u] = @ \cup {s}]
      /\ entries' = entries \cup {u} /\ writer' = None
      /\ UNCHANGED <<readers, chan, closed, pub, count, got, offered, dropped>>
    BY DEF BrokerInv, Register, StreamAt, StreamGoto, TypeOK, Client, StreamKnown
<1>2. /\ r \in Client /\ r.pc = "open" /\ r.user = u
    BY <1>1 DEF Client
<1> HIDE DEF r
<1>3. /\ stream' \in [Streams -> Client] /\ stream'[s] = r
      /\ \A t \in Streams : t # s => stream'[t] = stream[t]
    BY <1>1, <1>2 DEF TypeOK, Client
<1>4. /\ subs' \in [Users -> SUBSET Streams]
      /\ \A v \in Users : subs'[v] = IF v = u THEN subs[v] \cup {s} ELSE subs[v]
    BY <1>1 DEF TypeOK
<1>5. StreamKnown(s)'
    <2>1. \A v \in Users : s \in subs'[v] <=> v = u
        BY <1>1, <1>4 DEF StreamKnown
    <2>2. s \notin closed'
        BY <1>1 DEF StreamKnown
    <2> QED BY <1>1, <1>2, <1>3, <2>1, <2>2 DEF StreamKnown
<1>6. ASSUME NEW p \in Pubs, s \in pub[p].left PROVE s \in subs'[pub[p].ev.user]
    <2>1. PubKnown(p) /\ pub[p].ev \in Event
        BY <1>6 DEF BrokerInv, PubKnown
    <2>2. pub[p].ev.user \in Users /\ s \in subs[pub[p].ev.user]
        BY <1>6, <2>1 DEF PubKnown, Event
    <2> QED BY <1>4, <2>2
<1>7. \A t \in Streams : t # s => \A v \in Users : t \in subs'[v] <=> t \in subs[v]
    BY <1>4
<1>8. writer' \in Streams \cup {None} /\ entries' \subseteq Users /\ closed' \subseteq Streams
    BY <1>1 DEF TypeOK
<1>9. /\ stream'[s].user = stream[s].user /\ stream[s].pc = "join"
      /\ UNCHANGED <<readers, pub, count, chan, got, offered, dropped, closed>>
    BY <1>1, <1>2, <1>3
<1>10. \A p \in Pubs : s \in pub[p].left => s \in subs'[pub[p].ev.user]
    BY <1>6
<1> HIDE DEF u
<1> QED BY <1>3, <1>4, <1>5, <1>7, <1>8, <1>9, <1>10, StreamMove

\* A client that goes away stops reading.
LEMMA LeaveStep == ASSUME BrokerInv, NEW s \in Streams, Leave(s) PROVE BrokerInv'
<1> DEFINE r == [stream[s] EXCEPT !.pc = "leave"]
<1>1. /\ TypeOK /\ StreamKnown(s) /\ stream[s].pc = "open" /\ stream[s] \in Client
      /\ stream' = [stream EXCEPT ![s] = r]
      /\ UNCHANGED <<subs, entries, readers, writer, chan, closed, pub, count, got, offered, dropped>>
    BY DEF BrokerInv, Leave, StreamAt, StreamGoto, registry, TypeOK, Client
<1>2. /\ r \in Client /\ r.pc = "leave" /\ r.user = stream[s].user
    BY <1>1 DEF Client
<1> HIDE DEF r
<1>3. /\ stream' \in [Streams -> Client] /\ stream'[s] = r
      /\ \A t \in Streams : t # s => stream'[t] = stream[t]
    BY <1>1, <1>2 DEF TypeOK, Client
<1>4. StreamKnown(s)'
    BY <1>1, <1>2, <1>3 DEF StreamKnown
<1>5. \A p \in Pubs : s \in pub[p].left => s \in subs'[pub[p].ev.user]
    BY <1>1 DEF BrokerInv, PubKnown
<1> QED BY <1>1, <1>2, <1>3, <1>4, <1>5, StreamMove DEF TypeOK

\* The write lock is granted once no publisher is inside, so none has the
\* stream left.
LEMMA UnregisterStep == ASSUME BrokerInv, NEW s \in Streams, Unregister(s) PROVE BrokerInv'
<1> DEFINE u == stream[s].user
           r == [stream[s] EXCEPT !.pc = "close"]
<1>1. /\ TypeOK /\ StreamKnown(s) /\ stream[s].pc = "leave" /\ stream[s] \in Client /\ u \in Users
      /\ stream' = [stream EXCEPT ![s] = r] /\ subs' = [subs EXCEPT ![u] = @ \ {s}]
      /\ entries' \subseteq entries /\ writer' = None /\ readers = {}
      /\ UNCHANGED <<readers, chan, closed, pub, count, got, offered, dropped>>
    BY DEF BrokerInv, Unregister, StreamAt, StreamGoto, TypeOK, Client, StreamKnown
<1>2. /\ r \in Client /\ r.pc = "close" /\ r.user = u
    BY <1>1 DEF Client
<1> HIDE DEF r
<1>3. /\ stream' \in [Streams -> Client] /\ stream'[s] = r
      /\ \A t \in Streams : t # s => stream'[t] = stream[t]
    BY <1>1, <1>2 DEF TypeOK, Client
<1>4. /\ subs' \in [Users -> SUBSET Streams]
      /\ \A v \in Users : subs'[v] = IF v = u THEN subs[v] \ {s} ELSE subs[v]
    BY <1>1 DEF TypeOK
<1>5. StreamKnown(s)'
    <2>1. \A v \in Users : s \notin subs'[v]
        BY <1>1, <1>4 DEF StreamKnown
    <2>2. s \notin closed'
        BY <1>1 DEF StreamKnown
    <2> QED BY <1>1, <1>2, <1>3, <2>1, <2>2 DEF StreamKnown
<1>6. \A p \in Pubs : s \notin pub[p].left
    BY <1>1 DEF BrokerInv, PubKnown
<1>7. \A t \in Streams : t # s => \A v \in Users : t \in subs'[v] <=> t \in subs[v]
    BY <1>4
<1> QED BY <1>1, <1>2, <1>3, <1>4, <1>5, <1>6, <1>7, StreamMove DEF TypeOK

\* The cancel function closes a channel that is no longer registered.
LEMMA CloseStep == ASSUME BrokerInv, NEW s \in Streams, Close(s) PROVE BrokerInv'
<1> DEFINE r == [stream[s] EXCEPT !.pc = "gone"]
<1>1. /\ TypeOK /\ StreamKnown(s) /\ stream[s].pc = "close" /\ stream[s] \in Client
      /\ stream' = [stream EXCEPT ![s] = r] /\ closed' = closed \cup {s}
      /\ UNCHANGED <<subs, entries, readers, writer, chan, pub, count, got, offered, dropped>>
    BY DEF BrokerInv, Close, StreamAt, StreamGoto, registry, TypeOK, Client
<1>2. /\ r \in Client /\ r.pc = "gone" /\ r.user = stream[s].user
    BY <1>1 DEF Client
<1> HIDE DEF r
<1>3. /\ stream' \in [Streams -> Client] /\ stream'[s] = r
      /\ \A t \in Streams : t # s => stream'[t] = stream[t]
    BY <1>1, <1>2 DEF TypeOK, Client
<1>4. StreamKnown(s)'
    BY <1>1, <1>2, <1>3 DEF StreamKnown
<1>5. \A p \in Pubs : s \in pub[p].left => s \in subs'[pub[p].ev.user]
    BY <1>1 DEF BrokerInv, PubKnown
<1> QED BY <1>1, <1>2, <1>3, <1>4, <1>5, StreamMove DEF TypeOK

\* The handler writes one waiting event to its client.
LEMMA DeliverStep == ASSUME BrokerInv, NEW s \in Streams, Deliver(s) PROVE BrokerInv'
<1>1. /\ TypeOK /\ stream[s].pc = "open" /\ chan[s] # <<>>
      /\ chan' = [chan EXCEPT ![s] = Tail(@)] /\ got' = [got EXCEPT ![s] = Append(@, Head(chan[s]))]
      /\ UNCHANGED <<subs, entries, readers, writer, closed, pub, stream, count, offered, dropped>>
    BY DEF BrokerInv, Deliver, StreamAt, registry
<1>2. /\ chan'[s] = Tail(chan[s]) /\ got'[s] = Append(got[s], Head(chan[s]))
      /\ \A t \in Streams : t # s => chan'[t] = chan[t] /\ got'[t] = got[t]
    BY <1>1 DEF TypeOK
<1>3. TypeOK'
    <2>1. chan[s] \in Seq(Event) /\ got[s] \in Seq(Event) /\ Len(chan[s]) \in Nat /\ Len(chan[s]) <= Buffer
        BY <1>1 DEF TypeOK
    <2>2. Head(chan[s]) \in Event /\ Tail(chan[s]) \in Seq(Event) /\ Len(Tail(chan[s])) = Len(chan[s]) - 1
        BY <1>1, <2>1, HeadTailProperties
    <2>3. Append(got[s], Head(chan[s])) \in Seq(Event)
        BY <2>1, <2>2, AppendProperties
    <2>4. /\ chan' \in [Streams -> Seq(Event)] /\ got' \in [Streams -> Seq(Event)]
        BY <1>1, <2>2, <2>3 DEF TypeOK
    <2>5. \A t \in Streams : Len(chan'[t]) <= Buffer
        BY <1>1, <1>2, <2>1, <2>2, BufferAssumption DEF TypeOK
    <2> QED BY <1>1, <2>4, <2>5 DEF TypeOK
<1>4. ASSUME NEW t \in Streams PROVE Feed(t)' = Feed(t)
    <2>1. CASE t = s
        BY <1>1, <1>2, <2>1, FeedDelivered
    <2>2. CASE t # s
        BY <1>2, <1>4, <2>2 DEF Feed
    <2> QED BY <2>1, <2>2
<1>5. ASSUME NEW p \in Pubs PROVE PubKnown(p)'
    BY <1>1, <1>5 DEF BrokerInv, PubKnown
<1>6. ASSUME NEW t \in Streams PROVE StreamKnown(t)'
    BY <1>1, <1>2, <1>6 DEF BrokerInv, StreamKnown
<1>7. ASSUME NEW t \in Streams PROVE FeedOf(t)' /\ AccountOf(t)'
    BY <1>1, <1>4, <1>7 DEF BrokerInv, FeedOf, AccountOf
<1>8. ASSUME NEW p \in Pubs, NEW t \in Streams PROVE Ahead(p, t)'
    BY <1>1, <1>4, <1>8 DEF BrokerInv, Ahead
<1> QED BY <1>3, <1>5, <1>6, <1>7, <1>8 DEF BrokerInv

-----------------------------------------------------------------------------
(* Theorems *)

\* A broker without streams satisfies the invariant.
LEMMA InvInit == Init => BrokerInv
<1> SUFFICES ASSUME Init PROVE BrokerInv
    OBVIOUS
<1>1. TypeOK
    <2>1. Quiet \in Publisher /\ \A s \in Streams : stream[s] \in Client
        BY DEF Init, Quiet, Publisher, Client
    <2>2. chan \in [Streams -> Seq(Event)] /\ got \in [Streams -> Seq(Event)] /\ \A s \in Streams : Len(chan[s]) <= Buffer
        BY BufferAssumption DEF Init
    <2>3. pub \in [Pubs -> Publisher] /\ stream \in [Streams -> Client] /\ count \in [Pubs -> 0 .. MaxEvents]
        BY <2>1, BufferAssumption DEF Init
    <2> QED BY <2>2, <2>3 DEF Init, TypeOK, Publisher, Client
<1>2. ASSUME NEW p \in Pubs PROVE PubKnown(p)
    BY <1>2 DEF Init, PubKnown, Quiet
<1>3. ASSUME NEW s \in Streams PROVE StreamKnown(s) /\ Feed(s) = <<>>
    BY <1>3, ConcatEmptySeq DEF Init, StreamKnown, Feed
<1>4. ASSUME NEW s \in Streams PROVE FeedOf(s) /\ AccountOf(s)
    BY <1>3, <1>4 DEF Init, FeedOf, AccountOf
<1>5. ASSUME NEW p \in Pubs, NEW s \in Streams PROVE Ahead(p, s)
    BY <1>3, <1>5 DEF Ahead
<1> QED BY <1>1, <1>2, <1>3, <1>4, <1>5 DEF BrokerInv

\* Every step keeps the invariant.
LEMMA InvNext == BrokerInv /\ [Next]_vars => BrokerInv'
<1> SUFFICES ASSUME BrokerInv, [Next]_vars PROVE BrokerInv'
    OBVIOUS
<1>1. CASE UNCHANGED vars
    <2>1. UNCHANGED <<subs, entries, readers, writer, chan, closed, pub, stream, count, got, offered, dropped>>
        BY <1>1 DEF vars, registry
    <2>2. TypeOK' /\ (\A p \in Pubs : PubKnown(p)') /\ (\A s \in Streams : StreamKnown(s)' /\ Feed(s)' = Feed(s))
        BY <2>1 DEF BrokerInv, TypeOK, PubKnown, StreamKnown, Feed
    <2>3. \A s \in Streams : FeedOf(s)' /\ AccountOf(s)'
        BY <2>1, <2>2 DEF BrokerInv, FeedOf, AccountOf
    <2>4. \A p \in Pubs, s \in Streams : Ahead(p, s)'
        BY <2>1, <2>2 DEF BrokerInv, Ahead
    <2> QED BY <2>2, <2>3, <2>4 DEF BrokerInv
<1>2. CASE \E p \in Pubs, u \in Users : StartPublish(p, u)
    BY <1>2, StartPublishStep
<1>3. CASE \E p \in Pubs : PubStep(p)
    BY <1>3, RLockStep, SendStep, RUnlockStep DEF PubStep
<1>4. CASE \E s \in Streams, u \in Users : Open(s, u)
    BY <1>4, OpenStep
<1>5. CASE \E s \in Streams : StreamStep(s) \/ Deliver(s) \/ Leave(s)
    BY <1>5, LockStep, RegisterStep, UnregisterStep, CloseStep, DeliverStep, LeaveStep DEF StreamStep
<1> QED BY <1>1, <1>2, <1>3, <1>4, <1>5 DEF Next

\* What the inductive invariant says, in the words of Broker.
LEMMA InvImplies == BrokerInv => TypeOK /\ NoSendOnClosed /\ FeedSound /\ Accounted
<1> SUFFICES ASSUME BrokerInv PROVE TypeOK /\ NoSendOnClosed /\ FeedSound /\ Accounted
    OBVIOUS
<1>1. TypeOK
    BY DEF BrokerInv
<1>2. ASSUME NEW p \in Pubs, NEW s \in pub[p].left PROVE s \in Streams /\ pub[p].ev.user \in Users
    <2>1. PubKnown(p) /\ s \in Streams
        BY <1>1, <1>2 DEF BrokerInv, TypeOK
    <2> QED BY <1>2, <2>1 DEF PubKnown, Event
<1>3. NoSendOnClosed
    <2> SUFFICES ASSUME NEW p \in Pubs, NEW s \in pub[p].left PROVE s \notin closed
        BY DEF NoSendOnClosed
    <2>1. PubKnown(p) /\ s \in Streams /\ pub[p].ev.user \in Users /\ StreamKnown(s)
        BY <1>2 DEF BrokerInv
    <2> QED BY <2>1 DEF PubKnown, StreamKnown
<1>4. FeedSound
    <2>1. \A s \in Streams : FeedOf(s)
        BY DEF BrokerInv
    <2> QED BY <2>1, Zenon DEF FeedOf, Feed, FeedSound
<1>5. Accounted
    <2> SUFFICES ASSUME NEW s \in Streams, stream[s].pc = "open"
                 PROVE  /\ s \in subs[stream[s].user]
                        /\ offered[s] = ToSet(got[s]) \cup ToSet(chan[s]) \cup dropped[s]
                                          \cup {pub[p].ev : p \in {q \in Pubs : s \in pub[q].left}}
        BY DEF Accounted, StreamAt
    <2>1. s \in subs[stream[s].user]
        BY DEF BrokerInv, StreamKnown
    <2>2. ToSet(Feed(s)) = ToSet(got[s]) \cup ToSet(chan[s]) /\ ToSet(Feed(s)) \subseteq Event
        BY <1>1, FeedType DEF ToSet
    <2>3. \A p \in Pubs : s \in pub[p].left => pub[p].ev \in Event
        BY DEF BrokerInv, PubKnown
    <2>4. offered[s] \subseteq Event /\ dropped[s] \subseteq Event
        BY <1>1 DEF TypeOK
    <2>5. AccountOf(s)
        BY DEF BrokerInv
    <2>6. \A e : e \in offered[s] <=> \/ e \in ToSet(Feed(s)) \/ e \in dropped[s]
                                      \/ e \in {pub[p].ev : p \in {q \in Pubs : s \in pub[q].left}}
        BY <2>2, <2>3, <2>4, <2>5 DEF AccountOf
    <2> QED BY <2>1, <2>2, <2>6
<1> QED BY <1>1, <1>3, <1>4, <1>5

\* The inductive invariant holds in every reachable state.
THEOREM BrokerInvariant == Spec => []BrokerInv
BY InvInit, InvNext, PTL DEF Spec

\* Type correctness: in particular no channel holds more than its buffer.
THEOREM TypeCorrect == Spec => []TypeOK
BY BrokerInvariant, InvImplies, PTL

\* No publisher ever sends on a closed channel, for any number of publishers
\* and streams that come and go (Publish, the cancel function of Subscribe).
THEOREM NoPanic == Spec => []NoSendOnClosed
BY BrokerInvariant, InvImplies, PTL

\* Every client is sent its own user's events, none twice, and each
\* publisher's in the order they were published (Publish, Stream).
THEOREM SoundFeeds == Spec => []FeedSound
BY BrokerInvariant, InvImplies, PTL

\* No event published while a stream is registered is missed silently: it is
\* written, waiting, counted as dropped or on its way (Publish).
THEOREM NothingMissed == Spec => []Accounted
BY BrokerInvariant, InvImplies, PTL

-----------------------------------------------------------------------------
(***************************************************************************)
(* The inductive invariant: once Shutdown has returned nil nothing is open, *)
(* and nothing is accepted any more that could open again.                 *)
(***************************************************************************)
DrainInv ==
    /\ srv = "wait" \/ exit = "graceful" => Quiesced
    /\ exit = "graceful" => srv \in {"close", "ended"}

-----------------------------------------------------------------------------
(* The server runs the broker *)

\* A step of the process is a step of the broker or leaves it alone.
LEMMA StepMaps == [ServerNext]_allVars => [Next]_vars
<1> SUFFICES ASSUME [ServerNext]_allVars PROVE [Next]_vars
    OBVIOUS
<1>1. CASE UNCHANGED allVars
    BY <1>1 DEF allVars
<1>2. CASE MainStep
    BY <1>2 DEF MainStep, PingFails, BuildFails, Up, ListenFails, BeginShutdown, Drained, DrainTimeout,
        WorkerAwaited, ClosePool
<1>3. CASE Signal \/ Tick \/ Query \/ WorkerStep
    BY <1>3 DEF Signal, Tick, Query, WorkerStep, QueryEnds, PassEnds, WorkerStops, WorkerMove
<1>4. CASE \E p \in Pubs : Begin(p) \/ Answered(p) \/ Working(p)
    BY <1>4 DEF Begin, Answered, Working, Next
<1>5. CASE \E s \in Streams : Connected(s) \/ Streaming(s)
    BY <1>5 DEF Connected, Streaming, Next
<1> QED BY <1>1, <1>2, <1>3, <1>4, <1>5 DEF ServerNext

\* The server implements the broker: what was proved of streams and publishers
\* alone holds of them in a process that starts, drains and stops (run).
THEOREM ServerRunsBroker == ServerSpec => Spec
<1>1. ServerInit => Init
    BY DEF ServerInit
<1> QED BY <1>1, StepMaps, PTL DEF ServerSpec, Spec

\* So no publisher of the process ever sends on a closed channel, and no
\* stream of it loses an event silently, during a shutdown either.
THEOREM ServerStreams == ServerSpec => [](NoSendOnClosed /\ FeedSound /\ Accounted)
BY ServerRunsBroker, BrokerInvariant, InvImplies, PTL

-----------------------------------------------------------------------------
(* A graceful stop *)

\* While nothing is accepted, what is quiet stays quiet.
LEMMA QuietStays ==
    ASSUME TypeOK, Quiesced, ~ Accepting, [ServerNext]_allVars
    PROVE  Quiesced'
<1>1. CASE UNCHANGED <<req, pub, count, stream>>
    BY <1>1 DEF Quiesced, Finished, PubAt, StreamAt
<1>2. CASE \E p \in Pubs : Answered(p) \/ Working(p)
    <2>1. PICK p \in Pubs : Answered(p) \/ Working(p)
        BY <1>2
    <2>2. req[p] = "publish" /\ PubAt(p, "idle") /\ count[p] = MaxEvents /\ Working(p)
        BY <2>1 DEF Quiesced, Finished, Answered, Working
    <2> QED BY <2>2, BufferAssumption DEF Working, StartPublish, PubStep, RLock, Send, RUnlock, PubAt
<1>3. CASE \E s \in Streams : Streaming(s)
    BY <1>3 DEF Streaming, StreamStep, Lock, Register, Unregister, Close, Deliver, Leave, StreamAt, Quiesced
<1>4. CASE UNCHANGED allVars \/ MainStep \/ Signal \/ Tick \/ Query \/ WorkerStep
    BY <1>1, <1>4 DEF allVars, vars, MainStep, PingFails, BuildFails, Up, ListenFails, BeginShutdown, Drained, DrainTimeout,
        WorkerAwaited, ClosePool, Signal, Tick, Query, WorkerStep, QueryEnds, PassEnds, WorkerStops, WorkerMove
<1>5. ~ (\E p \in Pubs : Begin(p)) /\ ~ (\E s \in Streams : Connected(s))
    BY DEF Begin, Connected
<1> QED BY <1>2, <1>3, <1>4, <1>5 DEF ServerNext

\* A process that starts has not been shut down.
LEMMA DrainInit == ServerInit => DrainInv
BY DEF ServerInit, DrainInv

\* Every step of the process keeps it.
LEMMA DrainNext == TypeOK /\ DrainInv /\ [ServerNext]_allVars => DrainInv'
<1> SUFFICES ASSUME TypeOK, DrainInv, [ServerNext]_allVars PROVE DrainInv'
    OBVIOUS
<1>1. CASE UNCHANGED allVars
    BY <1>1, QuietStays DEF allVars, lifeVars, DrainInv, Accepting
<1>2. CASE MainStep
    <2>1. CASE Drained
        BY <2>1 DEF Drained, DrainInv, Quiesced, Finished, PubAt, StreamAt, vars
    <2>2. CASE ~ Drained
        BY <1>2, <2>2, QuietStays DEF MainStep, PingFails, BuildFails, Up, ListenFails, BeginShutdown, DrainTimeout,
            WorkerAwaited, ClosePool, Return, DrainInv, Accepting
    <2> QED BY <2>1, <2>2
<1>3. CASE Signal \/ Tick \/ Query \/ WorkerStep
    BY <1>3, QuietStays DEF Signal, Tick, Query, WorkerStep, QueryEnds, PassEnds, WorkerStops, WorkerMove,
        DrainInv, Accepting, Over
<1>4. CASE \E p \in Pubs : Begin(p) \/ Answered(p) \/ Working(p)
    BY <1>4, QuietStays DEF Begin, Answered, Working, lifeVars, DrainInv, Accepting
<1>5. CASE \E s \in Streams : Connected(s) \/ Streaming(s)
    BY <1>5, QuietStays DEF Connected, Streaming, lifeVars, DrainInv, Accepting
<1> QED BY <1>1, <1>2, <1>3, <1>4, <1>5 DEF ServerNext

\* A process that says it stopped gracefully has answered every request it
\* accepted and closed every stream (run, http.Server.Shutdown).
THEOREM GracefulStop == ServerSpec => []GracefulCutsNobody
<1>1. DrainInv => GracefulCutsNobody
    BY DEF DrainInv, GracefulCutsNobody
<1>2. ServerSpec => []TypeOK
    BY ServerRunsBroker, TypeCorrect, PTL
<1> QED BY <1>1, <1>2, DrainInit, DrainNext, PTL DEF ServerSpec
=============================================================================
