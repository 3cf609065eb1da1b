---------------------------- MODULE EventIngest ----------------------------
(***************************************************************************)
(* Recording events: POST /events and POST /events/batch, as concurrent    *)
(* requests run them against the events table and its partial unique index *)
(* on (user_id, idempotency_key).                                          *)
(*                                                                         *)
(* Sources: internal/handler/event.go (Create, CreateBatch),               *)
(* internal/service/event.go (Record, RecordBatch, normalize),             *)
(* internal/repository/event.go (Create, CreateBatch, byIdempotencyKey).   *)
(*                                                                         *)
(* An event is what its idempotency_key field holds, or BadEvent when      *)
(* normalize refuses its type, payload or time.  A row is named by the     *)
(* request and the position in it that it came from; the identity column   *)
(* and the rest of the row are left out.                                   *)
(***************************************************************************)
EXTENDS Integers, Sequences, SequencesExt

CONSTANTS
    Procs,         \* requests that are served at the same time
    Users,
    Keys,          \* idempotency keys
    NoKey,         \* the empty string
    Blank,         \* white space only
    LongKey,       \* over maxIdempotencyKeyLen
    BadEvent,
    MaxBatch,      \* MaxBatchEvents
    MaxRequests,   \* bound: requests received
    MaxFaults      \* bound: requests that fail half-way

ASSUME KeysAssumption ==
    /\ {NoKey, Blank, LongKey, BadEvent} \cap Keys = {}
    /\ NoKey \notin {Blank, LongKey, BadEvent} /\ Blank \notin {LongKey, BadEvent}
ASSUME BatchAssumption == MaxBatch \in Nat \ {0}
ASSUME IngestBounds == MaxRequests \in Nat /\ MaxFaults \in Nat

RawKeys == Keys \cup {NoKey, Blank, LongKey}
Items == RawKeys \cup {BadEvent}
Stored == Keys \cup {NoKey}

Row == [req : 1 .. MaxRequests, item : 1 .. MaxBatch, user : Users, key : Stored]

VARIABLES
    rows,       \* events: committed rows
    pending,    \* rows of each open transaction
    proc,       \* request: see Request
    published,  \* rows handed to the stream broker, in order
    requests,   \* requests received
    faults

vars == <<rows, pending, proc, published, requests, faults>>

Phase == {"idle", "insert", "commit", "lookup", "publish", "done"}
Reply == {"none", "created", "existing", "rejected", "error"}

Idle == [pc |-> "idle", req |-> 0, user |-> NoKey, header |-> NoKey, items |-> <<>>,
         batch |-> FALSE, idx |-> 0, found |-> {}, reply |-> "none"]

At(p, phase) == proc[p].pc = phase

Become(p, r) == proc' = [proc EXCEPT ![p] = r]

Done(p, reply) == [proc[p] EXCEPT !.pc = "done", !.reply = reply]

Init ==
    /\ rows = {} /\ published = <<>> /\ requests = 0 /\ faults = 0
    /\ pending = [p \in Procs |-> {}]
    /\ proc = [p \in Procs |-> Idle]

-----------------------------------------------------------------------------
(* Validation *)

\* strings.TrimSpace on the key.
Trim(raw) == IF raw = Blank THEN NoKey ELSE raw

\* Faulty variant of Accepted: no limit on the length of a batch.
AcceptedAnyLength(raws) ==
    /\ Len(raws) > 0
    /\ \A i \in DOMAIN raws : raws[i] \notin {LongKey, BadEvent}
    /\ \A i, j \in DOMAIN raws : i # j /\ Trim(raws[i]) # NoKey => Trim(raws[i]) # Trim(raws[j])

\* RecordBatch: size, each event, and no key twice.  Record is a batch of one.
Accepted(raws) ==
    /\ Len(raws) \in 1 .. MaxBatch
    /\ \A i \in DOMAIN raws : raws[i] \notin {LongKey, BadEvent}
    /\ \A i, j \in DOMAIN raws : i # j /\ Trim(raws[i]) # NoKey => Trim(raws[i]) # Trim(raws[j])

Begin(p, u, header, raws, batch) ==
    LET new == [Idle EXCEPT !.req = requests + 1, !.user = u, !.header = header, !.batch = batch]
    IN  /\ At(p, "idle") \/ At(p, "done")
        /\ requests < MaxRequests
        /\ requests' = requests + 1
        /\ Become(p, IF Accepted(raws)
                     THEN [new EXCEPT !.pc = "insert", !.idx = 1,
                                      !.items = [i \in DOMAIN raws |-> Trim(raws[i])]]
                     ELSE [new EXCEPT !.pc = "done", !.reply = "rejected"])
        /\ UNCHANGED <<rows, pending, published, faults>>

\* The header counts only if the body has no key, and a blank one is a key.
\* (History: the header's key is kept where the body has another.)
Create(p, u, header, body) ==
    Begin(p, u, IF {header, body} \subseteq Keys /\ header # body THEN header ELSE NoKey,
          <<IF body = NoKey THEN header ELSE body>>, FALSE)

CreateBatch(p, u, raws) == Begin(p, u, NoKey, raws, TRUE)

-----------------------------------------------------------------------------
(* The table.  INSERT ... ON CONFLICT DO NOTHING looks at uncommitted rows  *)
(* too: it waits for the transaction that inserted the same key.           *)

Key(p) == proc[p].items[proc[p].idx]

NewRow(p) == [req |-> proc[p].req, item |-> proc[p].idx, user |-> proc[p].user, key |-> Key(p)]

\* Faulty variant of SameKey: the index covers the key alone.
SameKeyAnyUser(p, table) == {r \in table : Key(p) # NoKey /\ r.key = Key(p)}

SameKey(p, table) == {r \in table : Key(p) # NoKey /\ r.key = Key(p) /\ r.user = proc[p].user}

WaitsFor(p, q) == p # q /\ At(p, "insert") /\ SameKey(p, pending[q]) # {}

Own(p) == {r \in rows : r.req = proc[p].req}

\* The next statement of the transaction.
AfterInsert(p) ==
    IF proc[p].idx < Len(proc[p].items)
    THEN [proc[p] EXCEPT !.idx = @ + 1]
    ELSE [proc[p] EXCEPT !.pc = "commit"]

\* Faulty variant of Insert: looks for the key among committed rows only.
InsertUnguarded(p) ==
    /\ At(p, "insert")
    /\ IF SameKey(p, rows) = {}
       THEN /\ pending' = [pending EXCEPT ![p] = @ \cup {NewRow(p)}]
            /\ Become(p, AfterInsert(p))
       ELSE /\ Become(p, IF proc[p].batch THEN AfterInsert(p) ELSE [proc[p] EXCEPT !.pc = "lookup"])
            /\ UNCHANGED pending
    /\ UNCHANGED <<rows, published, requests, faults>>

\* Faulty variant of Insert: a batch without a transaction.
InsertAutocommit(p) ==
    /\ At(p, "insert")
    /\ IF SameKey(p, rows) = {}
       THEN rows' = rows \cup {NewRow(p)} /\ Become(p, AfterInsert(p))
       ELSE /\ Become(p, IF proc[p].batch THEN AfterInsert(p) ELSE [proc[p] EXCEPT !.pc = "lookup"])
            /\ UNCHANGED rows
    /\ UNCHANGED <<pending, published, requests, faults>>

\* One INSERT.  A conflict is a duplicate in a batch; Create reads it back.
Insert(p) ==
    /\ At(p, "insert")
    /\ \A q \in Procs : ~ WaitsFor(p, q)
    /\ IF SameKey(p, rows) = {}
       THEN /\ pending' = [pending EXCEPT ![p] = @ \cup {NewRow(p)}]
            /\ Become(p, AfterInsert(p))
       ELSE /\ Become(p, IF proc[p].batch THEN AfterInsert(p) ELSE [proc[p] EXCEPT !.pc = "lookup"])
            /\ UNCHANGED pending
    /\ UNCHANGED <<rows, published, requests, faults>>

Commit(p) ==
    /\ At(p, "commit")
    /\ rows' = rows \cup pending[p]
    /\ pending' = [pending EXCEPT ![p] = {}]
    /\ Become(p, [proc[p] EXCEPT !.pc = "publish"])
    /\ UNCHANGED <<published, requests, faults>>

\* Faulty variant of Lookup: the row is published whether new or not.
LookupPublishes(p) ==
    /\ At(p, "lookup")
    /\ \E r \in SameKey(p, rows) :
          /\ Become(p, [Done(p, "existing") EXCEPT !.found = {r}])
          /\ published' = Append(published, r)
    /\ UNCHANGED <<rows, pending, requests, faults>>

\* byIdempotencyKey, in a transaction of its own; ErrNotFound is an error.
Lookup(p) ==
    /\ At(p, "lookup")
    /\ LET found == SameKey(p, rows)
       IN  Become(p, [Done(p, IF found = {} THEN "error" ELSE "existing") EXCEPT !.found = found])
    /\ UNCHANGED <<rows, pending, published, requests, faults>>

Unpublished(p) == Own(p) \ ToSet(published)

\* Created rows go to the broker one by one, in order, then the answer is sent.
Publish(p) ==
    /\ At(p, "publish")
    /\ \/ \E r \in Unpublished(p) :
             /\ \A s \in Unpublished(p) : r.item <= s.item
             /\ published' = Append(published, r)
             /\ UNCHANGED proc
       \/ Unpublished(p) = {} /\ Become(p, Done(p, "created")) /\ UNCHANGED published
    /\ UNCHANGED <<rows, pending, requests, faults>>

-----------------------------------------------------------------------------
(* Failures *)

\* Faulty variant of Fail: the transaction is left open.
FailNoRollback(p) ==
    /\ proc[p].pc \notin {"idle", "done"}
    /\ faults < MaxFaults
    /\ faults' = faults + 1
    /\ Become(p, Done(p, "error"))
    /\ UNCHANGED <<rows, pending, published, requests>>

\* A call fails or the process dies: the open transaction is rolled back.
Fail(p) ==
    /\ proc[p].pc \notin {"idle", "done"}
    /\ faults < MaxFaults
    /\ faults' = faults + 1
    /\ pending' = [pending EXCEPT ![p] = {}]
    /\ Become(p, Done(p, "error"))
    /\ UNCHANGED <<rows, published, requests>>

\* The COMMIT took effect but its answer was lost: nothing is published.
LoseCommit(p) ==
    /\ At(p, "commit")
    /\ faults < MaxFaults
    /\ faults' = faults + 1
    /\ rows' = rows \cup pending[p]
    /\ pending' = [pending EXCEPT ![p] = {}]
    /\ Become(p, Done(p, "error"))
    /\ UNCHANGED <<published, requests>>

\* Postgres aborts a transaction that waits for itself through others.
AbortDeadlock(p) ==
    /\ \E cycle \in SUBSET Procs :
          /\ p \in cycle
          /\ \A q \in cycle : (\E r \in cycle : WaitsFor(q, r)) /\ (\E r \in cycle : WaitsFor(r, q))
    /\ pending' = [pending EXCEPT ![p] = {}]
    /\ Become(p, Done(p, "error"))
    /\ UNCHANGED <<rows, published, requests, faults>>

Step(p) == Insert(p) \/ Commit(p) \/ Lookup(p) \/ Publish(p) \/ AbortDeadlock(p)

Next == \E p \in Procs :
    \/ \E u \in Users, header \in RawKeys, body \in Items : Create(p, u, header, body)
    \/ \E u \in Users, raws \in UNION {[1 .. n -> Items] : n \in 0 .. MaxBatch + 1} :
          CreateBatch(p, u, raws)
    \/ Step(p)
    \/ Fail(p) \/ LoseCommit(p)

Spec == Init /\ [][Next]_vars

\* A request that can go on does; Postgres breaks deadlocks.
FairSpec == Spec /\ \A p \in Procs : WF_vars(Step(p))

-----------------------------------------------------------------------------
(* Properties *)

\* Type invariant: rows, transactions and requests are what validation lets
\* through; no batch is longer than the limit.
TypeOK ==
    /\ rows \subseteq Row
    /\ pending \in [Procs -> SUBSET Row]
    /\ published \in Seq(Row)
    /\ requests \in 0 .. MaxRequests /\ faults \in 0 .. MaxFaults
    /\ \A p \in Procs :
          /\ proc[p].pc \in Phase /\ proc[p].reply \in Reply
          /\ proc[p].req \in 0 .. MaxRequests /\ proc[p].user \in Users \cup {NoKey}
          /\ proc[p].items \in Seq(Stored) /\ Len(proc[p].items) <= MaxBatch
          /\ proc[p].idx \in 0 .. MaxBatch /\ proc[p].header \in Stored
          /\ proc[p].found \subseteq rows /\ proc[p].batch \in BOOLEAN

\* "two concurrent requests cannot both win": a key of a user has one row at
\* most, committed or about to be (Create, CreateBatch, the unique index).
OneRowPerKey ==
    LET all == rows \cup UNION {pending[p] : p \in Procs}
    IN  \A r, s \in all : r.key # NoKey /\ r.key = s.key /\ r.user = s.user => r = s

\* Position i of p's request is in the table, through p or an earlier request.
Recorded(p, i) == \E r \in rows :
    /\ r.user = proc[p].user
    /\ \/ r.req = proc[p].req /\ r.item = i
       \/ proc[p].items[i] # NoKey /\ r.key = proc[p].items[i]

\* A batch is recorded as a whole or not at all, whichever statement fails,
\* deadlocks or loses its answer (CreateBatch).
AllOrNothing == \A p \in Procs :
    Own(p) # {} => \A i \in DOMAIN proc[p].items : Recorded(p, i)

\* Answers are true: 201 means every event is in the table, 200 returns the
\* caller's own row with the key that was sent, 400 means nothing was written;
\* and without a fault or a deadlock no request ends in an error, so the row
\* a conflict points at is always found (Create, byIdempotencyKey).
AnswersHold == \A p \in Procs : At(p, "done") =>
    /\ proc[p].reply = "created" => \A i \in DOMAIN proc[p].items : Recorded(p, i)
    /\ proc[p].reply = "existing" =>
          \E r \in proc[p].found : r \in rows /\ r.user = proc[p].user /\ r.key = proc[p].items[1]
    /\ proc[p].reply = "rejected" => Own(p) = {}
    /\ proc[p].reply = "error" /\ ~ proc[p].batch => faults > 0

\* The stream sees a row once, after it was committed, and every row of a
\* request that was answered; a repeat of a key is not streamed (Record:108).
PublishedOnce ==
    /\ IsInjective(published) /\ ToSet(published) \subseteq rows
    /\ \A p \in Procs : At(p, "done") /\ proc[p].reply = "created" => Unpublished(p) = {}

\* Every request is answered: batches that wait for each other's keys do not
\* wait for ever.
RequestsEnd == \A p \in Procs : At(p, "insert") ~> At(p, "done")

\* "The header wins if both are set" (api/openapi.yaml:250).
HeaderWins == \A p \in Procs :
    proc[p].header \in Keys => \A r \in Own(p) : r.key = proc[p].header
=============================================================================
