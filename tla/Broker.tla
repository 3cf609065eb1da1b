------------------------------- MODULE Broker -------------------------------
(***************************************************************************)
(* The in-process event stream: requests that recorded an event publish it *)
(* to every open GET /events/stream of its user, through one buffered      *)
(* channel per stream, under one sync.RWMutex.                             *)
(*                                                                         *)
(* Sources: internal/stream/broker.go (Subscribe, its cancel function,     *)
(* Publish) and internal/handler/event.go (Stream).                        *)
(*                                                                         *)
(* sync.RWMutex (external): Lock first shuts out new readers and writers   *)
(* ("writer"), then waits for the readers inside to leave.  An event is    *)
(* its publisher, user and position in its publisher's order.  Heartbeats  *)
(* only matter when their write fails, which is Leave.                     *)
(***************************************************************************)
EXTENDS Integers, Sequences, SequencesExt

CONSTANTS
    Pubs,        \* requests that record events and then publish them
    Streams,     \* stream requests
    Users,
    None,
    Buffer,      \* capacity of a channel (defaultBuffer)
    MaxEvents    \* bound: events of one request, published one by one

ASSUME NobodyAssumption == None \notin Streams \cup Pubs \cup Users
ASSUME BufferAssumption == Buffer \in Nat \ {0} /\ MaxEvents \in Nat

VARIABLES
    subs,      \* b.subs: streams registered per user
    entries,   \* users that have an inner map in b.subs
    readers,   \* publishers inside RLock
    writer,    \* stream that called Lock and has not called Unlock, or None
    chan,      \* channel of each stream
    closed,    \* streams whose channel is closed
    pub,       \* publisher: program counter, event, streams left to visit
    stream,    \* stream: program counter, user
    count,     \* events published by each publisher
    got,       \* events written to each client
    offered,   \* history: events whose Publish found the stream registered
    dropped    \* events counted as dropped, per stream

registry == <<subs, entries>>
vars == <<registry, readers, writer, chan, closed, pub, stream, count, got, offered, dropped>>

Event == [pub : Pubs, user : Users, seq : 1 .. MaxEvents]

NoEvent == None

Quiet == [pc |-> "idle", ev |-> NoEvent, left |-> {}]

PubAt(p, phase) == pub[p].pc = phase
StreamAt(s, phase) == stream[s].pc = phase

StreamGoto(s, phase) == stream' = [stream EXCEPT ![s].pc = phase]

Init ==
    /\ subs = [u \in Users |-> {}] /\ entries = {}
    /\ readers = {} /\ writer = None
    /\ chan = [s \in Streams |-> <<>>] /\ closed = {}
    /\ pub = [p \in Pubs |-> Quiet]
    /\ stream = [s \in Streams |-> [pc |-> "new", user |-> None]]
    /\ count = [p \in Pubs |-> 0]
    /\ got = [s \in Streams |-> <<>>]
    /\ offered = [s \in Streams |-> {}] /\ dropped = [s \in Streams |-> {}]

-----------------------------------------------------------------------------
(* Publish *)

StartPublish(p, u) ==
    /\ PubAt(p, "idle")
    /\ count[p] < MaxEvents
    /\ count' = [count EXCEPT ![p] = @ + 1]
    /\ pub' = [pub EXCEPT ![p] = [pc |-> "lock", left |-> {},
                                  ev |-> [pub |-> p, user |-> u, seq |-> count[p] + 1]]]
    /\ UNCHANGED <<registry, readers, writer, chan, closed, stream, got, offered, dropped>>

\* Faulty variant of RLock: ranges over the streams of every user.
RLockAll(p) ==
    /\ PubAt(p, "lock")
    /\ writer = None
    /\ readers' = readers \cup {p}
    /\ LET found == UNION {subs[u] : u \in Users}
       IN  /\ pub' = [pub EXCEPT ![p].pc = "send", ![p].left = found]
           /\ offered' = [s \in Streams |-> IF s \in found THEN offered[s] \cup {pub[p].ev}
                                                           ELSE offered[s]]
    /\ UNCHANGED <<registry, writer, chan, closed, stream, count, got, dropped>>

\* RLock, and the set the loop ranges over, which the lock keeps from changing.
RLock(p) ==
    /\ PubAt(p, "lock")
    /\ writer = None
    /\ readers' = readers \cup {p}
    /\ LET found == subs[pub[p].ev.user]
       IN  /\ pub' = [pub EXCEPT ![p].pc = "send", ![p].left = found]
           /\ offered' = [s \in Streams |-> IF s \in found THEN offered[s] \cup {pub[p].ev}
                                                           ELSE offered[s]]
    /\ UNCHANGED <<registry, writer, chan, closed, stream, count, got, dropped>>

\* Faulty variant of Send: no default case.
SendBlocking(p, s) ==
    /\ PubAt(p, "send")
    /\ s \in pub[p].left
    /\ Len(chan[s]) < Buffer
    /\ chan' = [chan EXCEPT ![s] = Append(@, pub[p].ev)]
    /\ pub' = [pub EXCEPT ![p].left = @ \ {s}]
    /\ UNCHANGED <<registry, readers, writer, closed, stream, count, got, offered, dropped>>

\* Faulty variant of Send: the channel takes one event more than its buffer.
SendOneMore(p, s) ==
    /\ PubAt(p, "send")
    /\ s \in pub[p].left
    /\ IF Len(chan[s]) <= Buffer
       THEN /\ chan' = [chan EXCEPT ![s] = Append(@, pub[p].ev)]
            /\ UNCHANGED dropped
       ELSE /\ dropped' = [dropped EXCEPT ![s] = @ \cup {pub[p].ev}]
            /\ UNCHANGED chan
    /\ pub' = [pub EXCEPT ![p].left = @ \ {s}]
    /\ UNCHANGED <<registry, readers, writer, closed, stream, count, got, offered>>

\* Faulty variant of Send: a full channel ends the loop.
SendBreaks(p, s) ==
    /\ PubAt(p, "send")
    /\ s \in pub[p].left
    /\ IF Len(chan[s]) < Buffer
       THEN /\ chan' = [chan EXCEPT ![s] = Append(@, pub[p].ev)]
            /\ pub' = [pub EXCEPT ![p].left = @ \ {s}]
            /\ UNCHANGED dropped
       ELSE /\ dropped' = [dropped EXCEPT ![s] = @ \cup {pub[p].ev}]
            /\ pub' = [pub EXCEPT ![p].left = {}]
            /\ UNCHANGED chan
    /\ UNCHANGED <<registry, readers, writer, closed, stream, count, got, offered>>

\* One turn of the loop, in any order: a full channel drops the event.
Send(p, s) ==
    /\ PubAt(p, "send")
    /\ s \in pub[p].left
    /\ IF Len(chan[s]) < Buffer
       THEN /\ chan' = [chan EXCEPT ![s] = Append(@, pub[p].ev)]
            /\ UNCHANGED dropped
       ELSE /\ dropped' = [dropped EXCEPT ![s] = @ \cup {pub[p].ev}]
            /\ UNCHANGED chan
    /\ pub' = [pub EXCEPT ![p].left = @ \ {s}]
    /\ UNCHANGED <<registry, readers, writer, closed, stream, count, got, offered>>

RUnlock(p) ==
    /\ PubAt(p, "send")
    /\ pub[p].left = {}
    /\ readers' = readers \ {p}
    /\ pub' = [pub EXCEPT ![p] = Quiet]
    /\ UNCHANGED <<registry, writer, chan, closed, stream, count, got, offered, dropped>>

-----------------------------------------------------------------------------
(* Stream: Subscribe, the loop, and the deferred cancel *)

Open(s, u) ==
    /\ StreamAt(s, "new")
    /\ stream' = [stream EXCEPT ![s] = [pc |-> "join", user |-> u]]
    /\ UNCHANGED <<registry, readers, writer, chan, closed, pub, count, got, offered, dropped>>

\* Lock: shuts out others, then waits for the readers inside.
Lock(s) ==
    /\ StreamAt(s, "join") \/ StreamAt(s, "leave")
    /\ writer = None
    /\ writer' = s
    /\ UNCHANGED <<registry, readers, chan, closed, pub, stream, count, got, offered, dropped>>

Register(s) ==
    LET u == stream[s].user IN
    /\ StreamAt(s, "join") /\ writer = s /\ readers = {}
    /\ entries' = entries \cup {u}
    /\ subs' = [subs EXCEPT ![u] = @ \cup {s}]
    /\ writer' = None
    /\ StreamGoto(s, "open")
    /\ UNCHANGED <<readers, chan, closed, pub, count, got, offered, dropped>>

\* An event is taken from the channel and written to the client.
Deliver(s) ==
    /\ StreamAt(s, "open")
    /\ chan[s] # <<>>
    /\ chan' = [chan EXCEPT ![s] = Tail(@)]
    /\ got' = [got EXCEPT ![s] = Append(@, Head(chan[s]))]
    /\ UNCHANGED <<registry, readers, writer, closed, pub, stream, count, offered, dropped>>

\* Faulty variant of Leave: the channel is closed before it is unregistered.
LeaveCloses(s) ==
    /\ StreamAt(s, "open")
    /\ StreamGoto(s, "leave")
    /\ closed' = closed \cup {s}
    /\ UNCHANGED <<registry, readers, writer, chan, pub, count, got, offered, dropped>>

\* The client is gone or a write fails (the event taken for it is lost).
Leave(s) ==
    /\ StreamAt(s, "open")
    /\ StreamGoto(s, "leave")
    /\ UNCHANGED <<registry, readers, writer, chan, closed, pub, count, got, offered, dropped>>

\* Faulty variant of Unregister: drops the user's entry with other streams in it.
UnregisterAll(s) ==
    LET u == stream[s].user IN
    /\ StreamAt(s, "leave") /\ writer = s /\ readers = {}
    /\ subs' = [subs EXCEPT ![u] = {}]
    /\ entries' = entries \ {u}
    /\ writer' = None
    /\ StreamGoto(s, "close")
    /\ UNCHANGED <<readers, chan, closed, pub, count, got, offered, dropped>>

\* Faulty variant of Unregister: the Unlock is missing.
UnregisterNoUnlock(s) ==
    LET u == stream[s].user IN
    /\ StreamAt(s, "leave") /\ writer = s /\ readers = {}
    /\ subs' = [subs EXCEPT ![u] = @ \ {s}]
    /\ entries' = IF subs[u] \subseteq {s} THEN entries \ {u} ELSE entries
    /\ StreamGoto(s, "close")
    /\ UNCHANGED <<writer, readers, chan, closed, pub, count, got, offered, dropped>>

Unregister(s) ==
    LET u == stream[s].user IN
    /\ StreamAt(s, "leave") /\ writer = s /\ readers = {}
    /\ subs' = [subs EXCEPT ![u] = @ \ {s}]
    /\ entries' = IF subs[u] \subseteq {s} THEN entries \ {u} ELSE entries
    /\ writer' = None
    /\ StreamGoto(s, "close")
    /\ UNCHANGED <<readers, chan, closed, pub, count, got, offered, dropped>>

Close(s) ==
    /\ StreamAt(s, "close")
    /\ closed' = closed \cup {s}
    /\ StreamGoto(s, "gone")
    /\ UNCHANGED <<registry, readers, writer, chan, pub, count, got, offered, dropped>>

PubStep(p) == RLock(p) \/ (\E s \in Streams : Send(p, s)) \/ RUnlock(p)

StreamStep(s) == Lock(s) \/ Register(s) \/ Unregister(s) \/ Close(s)

Next ==
    \/ \E p \in Pubs, u \in Users : StartPublish(p, u)
    \/ \E p \in Pubs : PubStep(p)
    \/ \E s \in Streams, u \in Users : Open(s, u)
    \/ \E s \in Streams : StreamStep(s) \/ Deliver(s) \/ Leave(s)

Spec == Init /\ [][Next]_vars

-----------------------------------------------------------------------------
(* Properties *)

\* Type invariant: the registry, the lock and the requests hold what the code
\* can put there, and no channel holds more than its buffer.
TypeOK ==
    /\ subs \in [Users -> SUBSET Streams] /\ entries \subseteq Users
    /\ readers \subseteq Pubs /\ writer \in Streams \cup {None}
    /\ chan \in [Streams -> Seq(Event)] /\ \A s \in Streams : Len(chan[s]) <= Buffer
    /\ closed \subseteq Streams
    /\ pub \in [Pubs -> [pc : {"idle", "lock", "send"}, ev : Event \cup {NoEvent}, left : SUBSET Streams]]
    /\ stream \in [Streams -> [pc : {"new", "join", "open", "leave", "close", "gone"},
                               user : Users \cup {None}]]
    /\ count \in [Pubs -> 0 .. MaxEvents]
    /\ got \in [Streams -> Seq(Event)]
    /\ offered \in [Streams -> SUBSET Event] /\ dropped \in [Streams -> SUBSET Event]

\* No publisher is about to send on a closed channel, which would panic: the
\* cancel function closes it only once no Publish can see it.
NoSendOnClosed == \A p \in Pubs : \A s \in pub[p].left : s \notin closed

\* What a client is sent is its own user's events, none twice, each
\* publisher's in the order it published them.
FeedSound == \A s \in Streams :
    LET feed == got[s] \o chan[s]
    IN  /\ \A i \in DOMAIN feed : feed[i].user = stream[s].user
        /\ \A i, j \in DOMAIN feed : i < j /\ feed[i].pub = feed[j].pub => feed[i].seq < feed[j].seq

\* An open stream misses no event silently: what was published while it was
\* registered is written, waiting in its channel, counted as dropped, or on
\* its way; other streams that come and go make no difference.
Accounted == \A s \in Streams : StreamAt(s, "open") =>
    /\ s \in subs[stream[s].user]
    /\ offered[s] = ToSet(got[s]) \cup ToSet(chan[s]) \cup dropped[s]
                      \cup {pub[p].ev : p \in {q \in Pubs : s \in pub[q].left}}
=============================================================================
