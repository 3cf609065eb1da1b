------------------------- MODULE EventIngestProofs -------------------------
(***************************************************************************)
(* Proofs about EventIngest, for any number of requests, users, keys and   *)
(* faults and batches of any length.                                       *)
(***************************************************************************)
EXTENDS EventIngest, SequenceTheorems, TLAPS

\* The local state of a request.
Request == [pc : Phase, req : 0 .. MaxRequests, user : Users \cup {NoKey}, header : Stored,
            items : Seq(Stored), batch : BOOLEAN, idx : 0 .. MaxBatch, found : SUBSET Row, reply : Reply]

-----------------------------------------------------------------------------
(***************************************************************************)
(* The inductive invariant.  A transaction's rows are its request's own, up *)
(* to the statement it has reached; what it skipped is in the table under  *)
(* the same key.                                                           *)
(***************************************************************************)

\* Requests have numbers of their own.
Numbered(p) ==
    /\ proc[p].req \in 0 .. requests
    /\ proc[p].pc # "idle" => proc[p].req \in 1 .. requests

\* Two requests never share a number.
NumbersApart(p, q) == p # q /\ proc[p].req = proc[q].req => proc[p].req = 0

\* A request under way passed validation.
Fit(p) == proc[p].pc \in {"insert", "commit", "lookup", "publish"} =>
    /\ proc[p].user \in Users
    /\ proc[p].idx \in DOMAIN proc[p].items
    /\ \A i, j \in DOMAIN proc[p].items :
          i # j /\ proc[p].items[i] # NoKey => proc[p].items[i] # proc[p].items[j]
    /\ ~ proc[p].batch => Len(proc[p].items) = 1

\* The rows of an open transaction come from the statements before this one.
PendingKnown(p) ==
    /\ proc[p].pc \notin {"insert", "commit"} => pending[p] = {}
    /\ \A r \in pending[p] :
          /\ r.req = proc[p].req /\ r.user = proc[p].user
          /\ r.item \in DOMAIN proc[p].items /\ r.key = proc[p].items[r.item]
          /\ proc[p].pc = "insert" => r.item < proc[p].idx

\* Nothing of a request is committed before its COMMIT.
OwnKnown(p) == Own(p) # {} => proc[p].pc \in {"publish", "done"}

\* Statement i of p's transaction inserted a row or found one with its key.
Handled(p, i) ==
    \/ \E r \in pending[p] : r.item = i
    \/ \E r \in rows : proc[p].items[i] # NoKey /\ r.user = proc[p].user /\ r.key = proc[p].items[i]

\* The statements before this one are handled, all of them at COMMIT, and a
\* lookup has a row to find.
HandledKnown(p) ==
    /\ proc[p].pc = "insert" => \A i \in DOMAIN proc[p].items : i < proc[p].idx => Handled(p, i)
    /\ proc[p].pc = "commit" => \A i \in DOMAIN proc[p].items : Handled(p, i)
    /\ proc[p].pc = "publish" => \A i \in DOMAIN proc[p].items : Recorded(p, i)
    /\ proc[p].pc = "lookup" => ~ proc[p].batch /\ SameKey(p, rows) # {}

\* The bodies of AnswersHold, AllOrNothing and PublishedOnce, for one request.
AnswerOf(p) == At(p, "done") =>
    /\ proc[p].reply = "created" => \A i \in DOMAIN proc[p].items : Recorded(p, i)
    /\ proc[p].reply = "existing" =>
          \E r \in proc[p].found : r \in rows /\ r.user = proc[p].user /\ r.key = proc[p].items[1]
    /\ proc[p].reply = "rejected" => Own(p) = {}
    /\ proc[p].reply = "error" /\ ~ proc[p].batch => faults > 0

\* A request that left a row left all of its batch.
WholeOf(p) == Own(p) # {} => \A i \in DOMAIN proc[p].items : Recorded(p, i)

\* A request that answered "created" handed its rows to the broker.
StreamedOf(p) == At(p, "done") /\ proc[p].reply = "created" => Unpublished(p) = {}

\* What holds of each request.
RequestInv(p) ==
    /\ Numbered(p) /\ Fit(p) /\ PendingKnown(p) /\ OwnKnown(p) /\ HandledKnown(p)
    /\ AnswerOf(p) /\ WholeOf(p) /\ StreamedOf(p)
    /\ proc[p].found \subseteq rows

\* No two rows with one key, in the table and all open transactions.
SameRow(r, s) == r.key # NoKey /\ r.key = s.key /\ r.user = s.user => r = s

\* No key is used twice, counting rows that are not yet committed.
KeysApart ==
    /\ \A r, s \in rows : SameRow(r, s)
    /\ \A p \in Procs : \A r \in pending[p], s \in rows : SameRow(r, s)
    /\ \A p, q \in Procs : \A r \in pending[p], s \in pending[q] : SameRow(r, s)

\* TypeOK, with batches within the limit.
Typed ==
    /\ rows \subseteq Row /\ pending \in [Procs -> SUBSET Row] /\ proc \in [Procs -> Request]
    /\ published \in Seq(Row) /\ requests \in 0 .. MaxRequests /\ faults \in 0 .. MaxFaults
    /\ \A p \in Procs : Len(proc[p].items) <= MaxBatch

\* What was published is in the table, and was published once.
Streamed == IsInjective(published) /\ ToSet(published) \subseteq rows

\* The inductive invariant of ingestion.
IngestInv ==
    /\ Typed /\ KeysApart /\ Streamed
    /\ \A r \in rows : r.req <= requests
    /\ \A p \in Procs : RequestInv(p)
    /\ \A p, q \in Procs : NumbersApart(p, q)

-----------------------------------------------------------------------------
(* Lemmas *)

\* A request that moves on leaves the others where they are.
LEMMA BecomeFacts ==
    ASSUME proc \in [Procs -> Request], NEW p \in Procs, NEW r \in Request, Become(p, r)
    PROVE  /\ proc' \in [Procs -> Request] /\ proc'[p] = r
           /\ \A q \in Procs : q # p => proc'[q] = proc[q]
BY DEF Become

\* What another request commits, publishes or suffers changes nothing for q.
LEMMA OthersKept ==
    ASSUME Typed, NEW p \in Procs, NEW q \in Procs, q # p, NumbersApart(p, q), RequestInv(q),
           proc'[q] = proc[q], pending'[q] = pending[q],
           rows \subseteq rows', \A r \in rows' : r \in rows \/ (r.req = proc[p].req /\ r.req > 0),
           ToSet(published) \subseteq ToSet(published'),
           requests' \in Int, requests <= requests', faults' \in Int, faults <= faults'
    PROVE  RequestInv(q)'
<1>1. proc[p].req \in Nat /\ proc[q].req \in Nat /\ requests \in Nat /\ faults \in Nat
  BY DEF Typed, Request
<1>2. Own(q)' = Own(q)
  BY <1>1 DEF Own, NumbersApart
<1>3. \A i : Recorded(q, i) => Recorded(q, i)'
  BY DEF Recorded
<1>4. \A i : Handled(q, i) => Handled(q, i)'
  BY DEF Handled
<1>5. SameKey(q, rows) # {} => SameKey(q, rows)' # {}
  BY DEF SameKey, Key
<1>6. Numbered(q)'
  BY <1>1 DEF RequestInv, Numbered
<1>7. Fit(q)' /\ PendingKnown(q)'
  BY DEF RequestInv, Fit, PendingKnown
<1>8. OwnKnown(q)'
  BY <1>2 DEF RequestInv, OwnKnown
<1>9. HandledKnown(q)'
  BY <1>3, <1>4, <1>5 DEF RequestInv, HandledKnown
<1>10. AnswerOf(q)'
  BY <1>1, <1>2, <1>3 DEF RequestInv, AnswerOf, At
<1>11. WholeOf(q)'
  BY <1>2, <1>3 DEF RequestInv, WholeOf
<1>12. StreamedOf(q)'
  BY <1>2 DEF RequestInv, StreamedOf, Unpublished, At
<1>13. proc'[q].found \subseteq rows'
  BY DEF RequestInv
<1> QED
  BY <1>6, <1>7, <1>8, <1>9, <1>10, <1>11, <1>12, <1>13 DEF RequestInv

\* A step of p keeps the invariant when it keeps p's own part and the parts
\* that relate the requests: the rest is the frame.
LEMMA StepFrame ==
    ASSUME IngestInv, NEW p \in Procs, NEW new \in Request, Len(new.items) <= MaxBatch, Become(p, new),
           pending' \in [Procs -> SUBSET Row], \A q \in Procs : q # p => pending'[q] = pending[q],
           rows' \subseteq Row, rows \subseteq rows',
           \A r \in rows' : r \in rows \/ (r.req = proc[p].req /\ r.req > 0),
           published' \in Seq(Row), ToSet(published) \subseteq ToSet(published'),
           requests' \in 0 .. MaxRequests, requests <= requests',
           faults' \in 0 .. MaxFaults, faults <= faults',
           new.req = proc[p].req \/ (new.req = requests + 1 /\ requests' = requests + 1),
           RequestInv(p)', KeysApart', Streamed'
    PROVE  IngestInv'
<1>1. /\ proc' \in [Procs -> Request] /\ proc'[p] = new
      /\ \A q \in Procs : q # p => proc'[q] = proc[q]
  BY BecomeFacts DEF IngestInv, Typed
<1>2. Typed'
  BY <1>1 DEF IngestInv, Typed
<1>3. /\ requests \in Nat /\ \A q \in Procs : proc[q].req \in 0 .. requests
      /\ requests' \in Int /\ faults' \in Int
  BY IngestBounds DEF IngestInv, Typed, RequestInv, Numbered
<1>4. \A r \in rows' : r.req <= requests'
  BY <1>3, IngestBounds DEF IngestInv, Typed, Row
<1>5. \A q \in Procs : RequestInv(q)'
  <2>1. ASSUME NEW q \in Procs, q # p  PROVE RequestInv(q)'
    <3>1. Typed /\ NumbersApart(p, q) /\ RequestInv(q)
      BY DEF IngestInv
    <3> QED
      BY <1>1, <1>3, <2>1, <3>1, OthersKept
  <2> QED
    BY <2>1
<1>6. \A q, s \in Procs : NumbersApart(q, s)'
  BY <1>1, <1>3 DEF IngestInv, NumbersApart
<1> QED
  BY <1>2, <1>4, <1>5, <1>6 DEF IngestInv

-----------------------------------------------------------------------------
(* A request arrives *)

\* A field that passes validation is a key or none once it is trimmed.
LEMMA TrimStored ==
    ASSUME NEW raw \in Items, raw \notin {LongKey, BadEvent}
    PROVE  Trim(raw) \in Stored
BY DEF Trim, Items, RawKeys, Stored

\* The items of an accepted request: not too many, and no key twice.
LEMMA TrimmedItems ==
    ASSUME NEW raws \in Seq(Items), Accepted(raws), NEW items,
           items = [i \in DOMAIN raws |-> Trim(raws[i])]
    PROVE  /\ items \in Seq(Stored) /\ Len(items) \in 1 .. MaxBatch /\ Len(items) = Len(raws)
           /\ \A i, j \in DOMAIN items : i # j /\ items[i] # NoKey => items[i] # items[j]
<1>1. DOMAIN raws = 1 .. Len(raws) /\ \A i \in DOMAIN raws : raws[i] \in Items
  OBVIOUS
<1>2. \A i \in DOMAIN raws : Trim(raws[i]) \in Stored
  BY <1>1, TrimStored DEF Accepted
<1>3. items \in Seq(Stored) /\ Len(items) = Len(raws)
  BY <1>1, <1>2
<1> QED
  BY <1>1, <1>3 DEF Accepted

\* A request that has not begun is well typed.
LEMMA IdleRequest == Idle \in Request /\ Idle.items = <<>> /\ Idle.found = {} /\ Idle.idx = 0
<1>1. Idle \in Request
  BY BatchAssumption, IngestBounds DEF Idle, Request, Phase, Reply, Stored
<1> QED
  BY <1>1 DEF Idle

\* Validation starts a request or refuses it.
LEMMA BeginStep ==
    ASSUME IngestInv, NEW p \in Procs, NEW u \in Users, NEW header \in Stored,
           NEW raws \in Seq(Items), NEW batch \in BOOLEAN, ~ batch => Len(raws) = 1,
           Begin(p, u, header, raws, batch)
    PROVE  IngestInv'
<1> DEFINE items == [i \in DOMAIN raws |-> Trim(raws[i])]
           new == [Idle EXCEPT !.req = requests + 1, !.user = u, !.header = header, !.batch = batch]
           some == [new EXCEPT !.pc = "insert", !.idx = 1, !.items = items]
           none == [new EXCEPT !.pc = "done", !.reply = "rejected"]
<1>1. /\ requests \in Nat /\ requests + 1 \in 1 .. MaxRequests /\ requests' = requests + 1
      /\ rows' = rows /\ pending' = pending /\ published' = published /\ faults' = faults
      /\ rows \subseteq Row /\ pending \in [Procs -> SUBSET Row] /\ published \in Seq(Row)
      /\ faults \in 0 .. MaxFaults
  BY IngestBounds DEF IngestInv, Typed, Begin
<1>2. pending[p] = {}
  BY DEF IngestInv, RequestInv, PendingKnown, Begin, At
<1>3. \A r \in rows : r.req # requests + 1
  BY <1>1 DEF IngestInv, Typed, Row
<1>4. KeysApart' /\ Streamed'
  BY <1>1 DEF IngestInv, KeysApart, Streamed
<1>5. Become(p, IF Accepted(raws) THEN some ELSE none)
  BY DEF Begin
<1> HIDE DEF items, new
<1>6. /\ new \in Request /\ new.req = requests + 1 /\ new.user = u
      /\ new.items = <<>> /\ new.idx = 0 /\ new.found = {}
  <2>1. requests + 1 \in 0 .. MaxRequests
    BY <1>1
  <2> QED
    BY <2>1, IdleRequest DEF new, Request
<1>7. ~ new.batch => Len(raws) = 1
  BY IdleRequest DEF new, Request
<1>8. CASE Accepted(raws)
  <2>1. /\ items \in Seq(Stored) /\ Len(items) \in 1 .. MaxBatch /\ Len(items) = Len(raws)
        /\ \A i, j \in DOMAIN items : i # j /\ items[i] # NoKey => items[i] # items[j]
    BY <1>8, TrimmedItems DEF items
  <2>2. Become(p, some)
    BY <1>5, <1>8 DEF Become
  <2>3. /\ some \in Request /\ some.pc = "insert" /\ some.idx = 1 /\ some.items = items
        /\ some.req = requests + 1 /\ some.user = u /\ some.found = {}
    <3>1. 1 \in 0 .. MaxBatch /\ "insert" \in Phase
      BY BatchAssumption DEF Phase
    <3> QED
      BY <1>6, <2>1, <3>1 DEF Request
  <2>4. some.batch <=> new.batch
    BY <1>6 DEF Request
  <2> HIDE DEF some
  <2>5. proc'[p] = some
    BY <2>2, <2>3, BecomeFacts DEF IngestInv, Typed
  <2>6. Own(p)' = {}
    BY <1>1, <1>3, <2>3, <2>5 DEF Own
  <2>7. Len(items) = Len(raws)
    BY <2>1
  <2>8. ~ some.batch => Len(items) = 1
    BY <1>7, <2>4, <2>7, Zenon
  <2>9. Fit(p)'
    <3>1. proc'[p].items = items
      BY <2>3, <2>5
    <3>2. ~ proc'[p].batch => Len(proc'[p].items) = 1
      BY <2>5, <2>8, <3>1, Zenon
    <3>3. /\ proc'[p].user \in Users /\ proc'[p].idx \in DOMAIN proc'[p].items
          /\ \A i, j \in DOMAIN proc'[p].items :
                i # j /\ proc'[p].items[i] # NoKey => proc'[p].items[i] # proc'[p].items[j]
      BY <2>1, <2>3, <2>5, <3>1
    <3> QED
      BY <3>2, <3>3, Zenon DEF Fit
  <2>10. HandledKnown(p)'
    BY <2>1, <2>3, <2>5 DEF HandledKnown
  <2>11. Numbered(p)' /\ PendingKnown(p)' /\ OwnKnown(p)' /\ AnswerOf(p)' /\ WholeOf(p)' /\ StreamedOf(p)'
    BY <1>1, <1>2, <2>3, <2>5, <2>6 DEF Numbered, PendingKnown, OwnKnown, AnswerOf, WholeOf, StreamedOf, At
  <2>12. RequestInv(p)'
    BY <2>3, <2>5, <2>9, <2>10, <2>11 DEF RequestInv
  <2>13. Len(some.items) <= MaxBatch
    BY <2>1, <2>3, BatchAssumption
  <2> QED
    BY <1>1, <1>4, <2>2, <2>3, <2>12, <2>13, StepFrame
<1>9. CASE ~ Accepted(raws)
  <2>1. Become(p, none)
    BY <1>5, <1>9 DEF Become
  <2>2. /\ none \in Request /\ none.pc = "done" /\ none.reply = "rejected" /\ none.items = <<>>
        /\ none.req = requests + 1 /\ none.user = u /\ none.found = {}
    BY <1>6 DEF Request, Phase, Reply
  <2> HIDE DEF none
  <2>3. proc'[p] = none
    BY <2>1, <2>2, BecomeFacts DEF IngestInv, Typed
  <2>4. Own(p)' = {}
    BY <1>1, <1>3, <2>2, <2>3 DEF Own
  <2>5. RequestInv(p)'
    BY <1>1, <1>2, <2>2, <2>3, <2>4
    DEF RequestInv, Numbered, Fit, PendingKnown, OwnKnown, HandledKnown, AnswerOf, WholeOf, StreamedOf, At
  <2>6. Len(none.items) <= MaxBatch
    BY <2>2, BatchAssumption
  <2> QED
    BY <1>1, <1>4, <2>1, <2>2, <2>5, <2>6, StepFrame
<1> QED
  BY <1>8, <1>9

-----------------------------------------------------------------------------
(* A statement is executed *)

\* The fields AfterInsert leaves alone, and where it goes.
LEMMA AfterInsertFacts ==
    ASSUME IngestInv, NEW p \in Procs, At(p, "insert"), NEW r, r = AfterInsert(p)
    PROVE  /\ r \in Request /\ r.req = proc[p].req /\ r.user = proc[p].user /\ r.items = proc[p].items
           /\ r.found = proc[p].found /\ (r.batch <=> proc[p].batch)
           /\ \/ r.pc = "insert" /\ r.idx = proc[p].idx + 1 /\ proc[p].idx < Len(proc[p].items)
              \/ r.pc = "commit" /\ r.idx = proc[p].idx /\ proc[p].idx = Len(proc[p].items)
<1>1. /\ proc[p] \in Request /\ Len(proc[p].items) \in Nat /\ Len(proc[p].items) <= MaxBatch
      /\ proc[p].idx \in 1 .. Len(proc[p].items) /\ proc[p].pc = "insert"
  BY DEF IngestInv, Typed, RequestInv, Fit, At, Request
<1>2. CASE proc[p].idx < Len(proc[p].items)
  <2>1. r = [proc[p] EXCEPT !.idx = proc[p].idx + 1]
    BY <1>2 DEF AfterInsert
  <2>2. proc[p].idx + 1 \in 0 .. MaxBatch
    BY <1>1, <1>2, BatchAssumption
  <2>3. r \in Request /\ r.pc = "insert" /\ r.idx = proc[p].idx + 1
    BY <1>1, <2>1, <2>2 DEF Request
  <2>4. /\ r.req = proc[p].req /\ r.user = proc[p].user /\ r.items = proc[p].items
        /\ r.found = proc[p].found
    BY <1>1, <2>1 DEF Request
  <2>5. r.batch <=> proc[p].batch
    BY <1>1, <2>1 DEF Request
  <2> QED
    BY <1>2, <2>3, <2>4, <2>5
<1>3. CASE ~ proc[p].idx < Len(proc[p].items)
  <2>1. r = [proc[p] EXCEPT !.pc = "commit"]
    BY <1>3 DEF AfterInsert
  <2>2. "commit" \in Phase /\ proc[p].idx = Len(proc[p].items)
    BY <1>1, <1>3 DEF Phase
  <2>3. r \in Request /\ r.pc = "commit" /\ r.idx = proc[p].idx
    BY <1>1, <2>1, <2>2 DEF Request
  <2>4. /\ r.req = proc[p].req /\ r.user = proc[p].user /\ r.items = proc[p].items
        /\ r.found = proc[p].found
    BY <1>1, <2>1 DEF Request
  <2>5. r.batch <=> proc[p].batch
    BY <1>1, <2>1 DEF Request
  <2> QED
    BY <2>2, <2>3, <2>4, <2>5
<1> QED
  BY <1>2, <1>3

\* A request that has committed nothing keeps the three promises trivially.
LEMMA NothingYet ==
    ASSUME NEW p \in Procs, Own(p)' = {}, proc'[p].pc \in {"insert", "commit", "lookup"}
    PROVE  OwnKnown(p)' /\ AnswerOf(p)' /\ WholeOf(p)' /\ StreamedOf(p)'
BY DEF OwnKnown, AnswerOf, WholeOf, StreamedOf, At

\* A statement that leaves its event handled takes the transaction one further.
LEMMA Advance ==
    ASSUME IngestInv, NEW p \in Procs, At(p, "insert"), Become(p, AfterInsert(p)),
           pending' \in [Procs -> SUBSET Row], \A q \in Procs : q # p => pending'[q] = pending[q],
           pending[p] \subseteq pending'[p],
           \A r \in pending'[p] : r \in pending[p] \/ r = NewRow(p),
           NEW k, k = proc[p].idx, Handled(p, k)', KeysApart', UNCHANGED <<rows, published, requests, faults>>
    PROVE  IngestInv'
<1> DEFINE new == AfterInsert(p)
<1>1. /\ new \in Request /\ new.req = proc[p].req /\ new.user = proc[p].user /\ new.items = proc[p].items
      /\ new.found = proc[p].found /\ (new.batch <=> proc[p].batch)
      /\ \/ new.pc = "insert" /\ new.idx = proc[p].idx + 1 /\ proc[p].idx < Len(proc[p].items)
         \/ new.pc = "commit" /\ new.idx = proc[p].idx /\ proc[p].idx = Len(proc[p].items)
  BY AfterInsertFacts
<1> HIDE DEF new
<1>2. Become(p, new)
  BY DEF new
<1>3. proc'[p] = new
  BY <1>1, <1>2, BecomeFacts DEF IngestInv, Typed
<1>4. /\ Typed /\ RequestInv(p) /\ proc[p] \in Request /\ proc[p].pc = "insert"
      /\ proc[p].idx \in 1 .. Len(proc[p].items) /\ Len(proc[p].items) \in Nat
      /\ DOMAIN proc[p].items = 1 .. Len(proc[p].items) /\ Len(proc[p].items) <= MaxBatch
  BY DEF IngestInv, Typed, RequestInv, Fit, At, Request
<1>5. Own(p)' = {}
  BY <1>1, <1>3, <1>4 DEF Own, RequestInv, OwnKnown
<1>6. OwnKnown(p)' /\ AnswerOf(p)' /\ WholeOf(p)' /\ StreamedOf(p)'
  BY <1>1, <1>3, <1>5, NothingYet
<1>7. Numbered(p)'
  BY <1>1, <1>3, <1>4 DEF RequestInv, Numbered
<1>8. Fit(p)'
  <2>1. ~ proc[p].batch => Len(proc[p].items) = 1
    BY <1>4, Zenon DEF RequestInv, Fit
  <2>2. proc'[p].items = proc[p].items /\ proc'[p].user = proc[p].user
    BY <1>1, <1>3
  <2>3. ~ proc'[p].batch => Len(proc'[p].items) = 1
    BY <1>1, <1>3, <2>1, <2>2, Zenon
  <2>4. /\ proc'[p].user \in Users /\ proc'[p].idx \in DOMAIN proc'[p].items
        /\ \A i, j \in DOMAIN proc'[p].items :
              i # j /\ proc'[p].items[i] # NoKey => proc'[p].items[i] # proc'[p].items[j]
    BY <1>1, <1>3, <1>4, <2>2 DEF RequestInv, Fit
  <2> QED
    BY <2>3, <2>4, Zenon DEF Fit
<1>9. PendingKnown(p)'
  BY <1>1, <1>3, <1>4 DEF RequestInv, PendingKnown, NewRow, Key
<1>10. HandledKnown(p)'
  <2>1. \A i \in DOMAIN proc[p].items : i < proc[p].idx => Handled(p, i)'
    BY <1>1, <1>3, <1>4 DEF RequestInv, HandledKnown, Handled
  <2>2. \A i \in DOMAIN proc[p].items : i <= proc[p].idx => Handled(p, i)'
    BY <1>4, <2>1
  <2> QED
    BY <1>1, <1>3, <1>4, <2>2 DEF HandledKnown
<1>11. proc'[p].found \subseteq rows'
  BY <1>1, <1>3, <1>4 DEF RequestInv
<1>12. RequestInv(p)'
  BY <1>6, <1>7, <1>8, <1>9, <1>10, <1>11 DEF RequestInv
<1>13. Streamed'
  BY DEF IngestInv, Streamed
<1>14. /\ rows' \subseteq Row /\ published' \in Seq(Row) /\ requests' \in 0 .. MaxRequests
       /\ faults' \in 0 .. MaxFaults /\ rows' = rows /\ published' = published
       /\ requests <= requests' /\ faults <= faults'
  BY <1>4 DEF Typed
<1>15. Len(new.items) <= MaxBatch
  BY <1>1, <1>4
<1> QED
  BY <1>1, <1>2, <1>12, <1>13, <1>14, <1>15, StepFrame

\* The index admits the row: no other transaction holds its key, nor does the
\* table, and validation left the key in one event of the batch only.
LEMMA RoomForKey ==
    ASSUME IngestInv, NEW p \in Procs, At(p, "insert"), \A q \in Procs : ~ WaitsFor(p, q),
           SameKey(p, rows) = {}
    PROVE  /\ NewRow(p) \in Row
           /\ \A s \in rows : SameRow(NewRow(p), s) /\ SameRow(s, NewRow(p))
           /\ \A q \in Procs : \A s \in pending[q] : SameRow(NewRow(p), s) /\ SameRow(s, NewRow(p))
<1>1. /\ proc[p] \in Request /\ proc[p].pc = "insert" /\ RequestInv(p) /\ proc[p].req # 0
      /\ proc[p].idx \in DOMAIN proc[p].items /\ proc[p].user \in Users
      /\ DOMAIN proc[p].items = 1 .. Len(proc[p].items) /\ Len(proc[p].items) <= MaxBatch
      /\ Len(proc[p].items) \in Nat
  BY IngestBounds DEF IngestInv, Typed, RequestInv, Fit, Numbered, At, Request
<1>2. Key(p) \in Stored /\ NewRow(p) \in Row
  <2>1. proc[p].req \in 1 .. MaxRequests /\ proc[p].idx \in 1 .. MaxBatch
    BY <1>1, IngestBounds, BatchAssumption DEF Request
  <2> QED
    BY <1>1, <2>1 DEF Key, NewRow, Row, Request
<1>3. NewRow(p).key = Key(p) /\ NewRow(p).user = proc[p].user
  BY DEF NewRow
<1>4. \A s \in rows : SameRow(NewRow(p), s) /\ SameRow(s, NewRow(p))
  BY <1>3 DEF SameRow, SameKey
<1>5. ASSUME NEW q \in Procs, q # p, NEW s \in pending[q]
      PROVE  SameRow(NewRow(p), s) /\ SameRow(s, NewRow(p))
  <2>1. SameKey(p, pending[q]) = {}
    BY <1>5 DEF WaitsFor
  <2> QED
    BY <1>3, <1>5, <2>1 DEF SameRow, SameKey
<1>6. ASSUME NEW s \in pending[p]
      PROVE  SameRow(NewRow(p), s) /\ SameRow(s, NewRow(p))
  <2>1. s.item \in DOMAIN proc[p].items /\ s.key = proc[p].items[s.item] /\ s.item < proc[p].idx
    BY <1>1 DEF RequestInv, PendingKnown
  <2>2. s.key # NoKey => s.key # Key(p)
    BY <1>1, <2>1 DEF RequestInv, Fit, Key
  <2> QED
    BY <1>3, <2>2 DEF SameRow
<1> QED
  BY <1>2, <1>4, <1>5, <1>6

\* INSERT ... ON CONFLICT DO NOTHING adds a row with a key nobody has, or none.
LEMMA InsertStep ==
    ASSUME IngestInv, NEW p \in Procs, Insert(p)
    PROVE  IngestInv'
<1>1. /\ At(p, "insert") /\ (\A q \in Procs : ~ WaitsFor(p, q)) /\ pending \in [Procs -> SUBSET Row]
      /\ UNCHANGED <<rows, published, requests, faults>>
  BY DEF Insert, IngestInv, Typed
<1>2. PICK k : k = proc[p].idx
  OBVIOUS
<1>3. /\ proc[p] \in Request /\ proc \in [Procs -> Request] /\ RequestInv(p) /\ proc[p].pc = "insert"
      /\ k \in DOMAIN proc[p].items
  BY <1>1, <1>2 DEF IngestInv, Typed, RequestInv, Fit, At
<1>4. ASSUME Become(p, AfterInsert(p))
      PROVE  proc'[p].items = proc[p].items /\ proc'[p].user = proc[p].user
  <2>1. PICK r : r = AfterInsert(p)
    OBVIOUS
  <2>2. r \in Request /\ r.items = proc[p].items /\ r.user = proc[p].user
    BY <1>1, <2>1, AfterInsertFacts
  <2>3. proc'[p] = r
    BY <1>3, <1>4, <2>1 DEF Become
  <2> QED
    BY <2>2, <2>3
<1>5. CASE SameKey(p, rows) = {}
  <2>1. pending' = [pending EXCEPT ![p] = @ \cup {NewRow(p)}] /\ Become(p, AfterInsert(p))
    BY <1>5 DEF Insert
  <2>2. /\ NewRow(p) \in Row
        /\ \A s \in rows : SameRow(NewRow(p), s) /\ SameRow(s, NewRow(p))
        /\ \A q \in Procs : \A s \in pending[q] : SameRow(NewRow(p), s) /\ SameRow(s, NewRow(p))
    BY <1>1, <1>5, RoomForKey
  <2>3. /\ pending' \in [Procs -> SUBSET Row] /\ pending'[p] = pending[p] \cup {NewRow(p)}
        /\ \A q \in Procs : q # p => pending'[q] = pending[q]
    BY <1>1, <2>1, <2>2
  <2>4. KeysApart'
    <3>1. SameRow(NewRow(p), NewRow(p))
      BY DEF SameRow
    <3>2. \A q \in Procs : \A s \in pending'[q] : s \in pending[q] \/ s = NewRow(p)
      BY <2>3
    <3> QED
      BY <1>1, <2>2, <3>1, <3>2 DEF IngestInv, KeysApart
  <2>5. Handled(p, k)'
    <3>1. NewRow(p).item = k
      BY <1>2 DEF NewRow
    <3> QED
      BY <2>3, <3>1 DEF Handled
  <2> QED
    BY <1>1, <1>2, <2>1, <2>3, <2>4, <2>5, Advance
<1>6. CASE SameKey(p, rows) # {} /\ proc[p].batch
  <2>1. pending' = pending /\ Become(p, AfterInsert(p))
    BY <1>6 DEF Insert
  <2>2. KeysApart'
    BY <1>1, <2>1 DEF IngestInv, KeysApart
  <2>3. Handled(p, k)'
    BY <1>1, <1>2, <1>4, <1>6, <2>1 DEF Handled, SameKey, Key
  <2> QED
    BY <1>1, <1>2, <2>1, <2>2, <2>3, Advance
<1>7. CASE SameKey(p, rows) # {} /\ ~ proc[p].batch
  <2> DEFINE new == [proc[p] EXCEPT !.pc = "lookup"]
  <2>1. pending' = pending /\ Become(p, new)
    BY <1>7 DEF Insert, Become
  <2>2. "lookup" \in Phase
    BY DEF Phase
  <2>3. /\ new \in Request /\ new.pc = "lookup" /\ new.req = proc[p].req /\ new.user = proc[p].user
        /\ new.items = proc[p].items /\ new.found = proc[p].found /\ new.idx = proc[p].idx
    BY <1>3, <2>2 DEF Request
  <2>4. ~ new.batch
    BY <1>3, <1>7 DEF Request
  <2> HIDE DEF new
  <2>5. proc'[p] = new
    BY <1>3, <2>1 DEF Become
  <2>6. Len(proc[p].items) = 1 /\ Len(new.items) <= MaxBatch /\ DOMAIN proc[p].items = 1 .. 1
    <3>1. Len(proc[p].items) = 1
      BY <1>3, <1>7, Zenon DEF RequestInv, Fit
    <3>2. Len(proc[p].items) <= MaxBatch /\ DOMAIN proc[p].items = 1 .. Len(proc[p].items)
      BY <1>3 DEF IngestInv, Typed, Request
    <3> QED
      BY <2>3, <3>1, <3>2
  <2>7. pending[p] = {}
    BY <1>1, <1>2, <1>3, <2>6 DEF RequestInv, PendingKnown, IngestInv, Typed, Row
  <2>8. Own(p)' = {}
    BY <1>1, <1>3, <2>3, <2>5 DEF Own, RequestInv, OwnKnown
  <2>9. OwnKnown(p)' /\ AnswerOf(p)' /\ WholeOf(p)' /\ StreamedOf(p)'
    BY <2>3, <2>5, <2>8, NothingYet
  <2>10. Numbered(p)' /\ PendingKnown(p)' /\ proc'[p].found \subseteq rows'
    BY <1>1, <1>3, <2>1, <2>3, <2>5, <2>7 DEF RequestInv, Numbered, PendingKnown
  <2>11. Fit(p)'
    <3>1. /\ proc'[p].user \in Users /\ proc'[p].idx \in DOMAIN proc'[p].items
          /\ \A i, j \in DOMAIN proc'[p].items :
                i # j /\ proc'[p].items[i] # NoKey => proc'[p].items[i] # proc'[p].items[j]
          /\ Len(proc'[p].items) = 1
      BY <1>3, <2>3, <2>5, <2>6 DEF RequestInv, Fit
    <3> QED
      BY <3>1, Zenon DEF Fit
  <2>12. HandledKnown(p)'
    <3>1. SameKey(p, rows)' # {}
      BY <1>1, <1>7, <2>3, <2>5 DEF SameKey, Key
    <3>2. ~ proc'[p].batch
      BY <2>4, <2>5, Zenon
    <3>3. proc'[p].pc \notin {"insert", "commit", "publish"}
      BY <2>3, <2>5
    <3> QED
      BY <3>1, <3>2, <3>3, Zenon DEF HandledKnown
  <2>13. RequestInv(p)'
    BY <2>9, <2>10, <2>11, <2>12 DEF RequestInv
  <2>14. KeysApart' /\ Streamed'
    BY <1>1, <2>1 DEF IngestInv, KeysApart, Streamed
  <2>15. /\ rows' \subseteq Row /\ published' \in Seq(Row) /\ requests' \in 0 .. MaxRequests
         /\ faults' \in 0 .. MaxFaults /\ rows' = rows /\ published' = published
         /\ requests <= requests' /\ faults <= faults' /\ pending' \in [Procs -> SUBSET Row]
    BY <1>1, <2>1 DEF IngestInv, Typed
  <2> QED
    BY <2>1, <2>3, <2>6, <2>13, <2>14, <2>15, StepFrame
<1> QED
  BY <1>5, <1>6, <1>7

-----------------------------------------------------------------------------
(* A transaction or a request ends *)

\* An answer changes only where the request stands.
LEMMA DoneFacts ==
    ASSUME NEW p \in Procs, proc[p] \in Request, NEW reply \in Reply, NEW r, r = Done(p, reply)
    PROVE  /\ r \in Request /\ r.pc = "done" /\ r.reply = reply
           /\ r.req = proc[p].req /\ r.user = proc[p].user /\ r.items = proc[p].items
           /\ r.found = proc[p].found /\ (r.batch <=> proc[p].batch)
<1>1. "done" \in Phase
  BY DEF Phase
<1>2. r = [proc[p] EXCEPT !.pc = "done", !.reply = reply]
  BY DEF Done
<1>3. /\ r \in Request /\ r.pc = "done" /\ r.reply = reply
      /\ r.req = proc[p].req /\ r.user = proc[p].user /\ r.items = proc[p].items
      /\ r.found = proc[p].found
  BY <1>1, <1>2 DEF Request
<1>4. r.batch <=> proc[p].batch
  BY <1>2 DEF Request
<1> QED
  BY <1>3, <1>4

\* COMMIT makes the transaction's rows visible at once: with what was there
\* under the same keys they are the whole request.
LEMMA CommitRows ==
    ASSUME IngestInv, NEW p \in Procs, At(p, "commit"),
           rows' = rows \cup pending[p], pending' = [pending EXCEPT ![p] = {}],
           NEW new \in Request, proc'[p] = new, new.pc \in {"publish", "done"},
           new.req = proc[p].req, new.user = proc[p].user, new.items = proc[p].items,
           new.found = proc[p].found, requests' = requests, published' = published
    PROVE  /\ KeysApart' /\ Streamed' /\ rows' \subseteq Row /\ rows \subseteq rows'
           /\ \A r \in rows' : r \in rows \/ (r.req = proc[p].req /\ r.req > 0)
           /\ pending' \in [Procs -> SUBSET Row] /\ \A q \in Procs : q # p => pending'[q] = pending[q]
           /\ \A i \in DOMAIN proc'[p].items : Recorded(p, i)'
           /\ Numbered(p)' /\ PendingKnown(p)' /\ OwnKnown(p)' /\ WholeOf(p)'
           /\ proc'[p].found \subseteq rows'
<1>1. /\ rows \subseteq Row /\ pending \in [Procs -> SUBSET Row] /\ RequestInv(p)
      /\ proc[p].pc = "commit" /\ KeysApart /\ Streamed
  BY DEF IngestInv, Typed, At
<1>2. /\ pending' \in [Procs -> SUBSET Row] /\ pending'[p] = {}
      /\ \A q \in Procs : q # p => pending'[q] = pending[q]
  BY <1>1
<1>3. KeysApart'
  <2>1. \A r, s \in rows' : SameRow(r, s)
    BY <1>1 DEF KeysApart, SameRow
  <2>2. \A q \in Procs : \A r \in pending'[q], s \in rows' : SameRow(r, s)
    BY <1>1, <1>2 DEF KeysApart
  <2>3. \A q, t \in Procs : \A r \in pending'[q], s \in pending'[t] : SameRow(r, s)
    BY <1>1, <1>2 DEF KeysApart
  <2> QED
    BY <2>1, <2>2, <2>3 DEF KeysApart
<1>4. Streamed'
  BY <1>1 DEF Streamed
<1>5. rows' \subseteq Row /\ rows \subseteq rows'
  BY <1>1
<1>6. \A r \in rows' : r \in rows \/ (r.req = proc[p].req /\ r.req > 0)
  BY <1>1, IngestBounds DEF RequestInv, PendingKnown, Row
<1>7. \A i \in DOMAIN proc'[p].items : Recorded(p, i)'
  <2>1. \A i \in DOMAIN proc[p].items : Handled(p, i)
    BY <1>1 DEF RequestInv, HandledKnown
  <2>2. \A r \in pending[p] : r.req = proc[p].req /\ r.user = proc[p].user
    BY <1>1 DEF RequestInv, PendingKnown
  <2> QED
    BY <2>1, <2>2 DEF Handled, Recorded
<1>8. Numbered(p)' /\ PendingKnown(p)' /\ OwnKnown(p)' /\ proc'[p].found \subseteq rows'
  BY <1>1, <1>2 DEF RequestInv, Numbered, PendingKnown, OwnKnown
<1>9. WholeOf(p)'
  BY <1>7 DEF WholeOf
<1> QED
  BY <1>2, <1>3, <1>4, <1>5, <1>6, <1>7, <1>8, <1>9

\* COMMIT makes the rows of the transaction visible together.
LEMMA CommitStep ==
    ASSUME IngestInv, NEW p \in Procs, Commit(p)
    PROVE  IngestInv'
<1> DEFINE new == [proc[p] EXCEPT !.pc = "publish"]
<1>1. /\ proc \in [Procs -> Request] /\ proc[p] \in Request /\ proc[p].pc = "commit" /\ RequestInv(p)
      /\ published \in Seq(Row) /\ requests \in 0 .. MaxRequests /\ faults \in 0 .. MaxFaults
      /\ Len(proc[p].items) <= MaxBatch
  BY DEF IngestInv, Typed, Commit, At
<1>2. /\ At(p, "commit") /\ rows' = rows \cup pending[p] /\ pending' = [pending EXCEPT ![p] = {}]
      /\ Become(p, new) /\ published' = published /\ requests' = requests /\ faults' = faults
  BY DEF Commit
<1>3. "publish" \in Phase
  BY DEF Phase
<1>4. /\ new \in Request /\ new.pc = "publish" /\ new.req = proc[p].req /\ new.user = proc[p].user
      /\ new.items = proc[p].items /\ new.found = proc[p].found /\ new.idx = proc[p].idx
  BY <1>1, <1>3 DEF Request
<1>5. new.batch <=> proc[p].batch
  BY <1>1 DEF Request
<1> HIDE DEF new
<1>6. proc'[p] = new
  BY <1>1, <1>2 DEF Become
<1>7. /\ KeysApart' /\ Streamed' /\ rows' \subseteq Row /\ rows \subseteq rows'
      /\ \A r \in rows' : r \in rows \/ (r.req = proc[p].req /\ r.req > 0)
      /\ pending' \in [Procs -> SUBSET Row] /\ \A q \in Procs : q # p => pending'[q] = pending[q]
      /\ \A i \in DOMAIN proc'[p].items : Recorded(p, i)'
      /\ Numbered(p)' /\ PendingKnown(p)' /\ OwnKnown(p)' /\ WholeOf(p)'
      /\ proc'[p].found \subseteq rows'
  BY <1>2, <1>4, <1>6, CommitRows
<1>8. Fit(p)'
  <2>1. ~ proc[p].batch => Len(proc[p].items) = 1
    BY <1>1, Zenon DEF RequestInv, Fit
  <2>2. proc'[p].items = proc[p].items
    BY <1>4, <1>6
  <2>3. ~ proc'[p].batch => Len(proc'[p].items) = 1
    BY <1>5, <1>6, <2>1, <2>2, Zenon
  <2>4. /\ proc'[p].user \in Users /\ proc'[p].idx \in DOMAIN proc'[p].items
        /\ \A i, j \in DOMAIN proc'[p].items :
              i # j /\ proc'[p].items[i] # NoKey => proc'[p].items[i] # proc'[p].items[j]
    BY <1>1, <1>4, <1>6 DEF RequestInv, Fit
  <2> QED
    BY <2>3, <2>4, Zenon DEF Fit
<1>9. HandledKnown(p)'
  BY <1>4, <1>6, <1>7 DEF HandledKnown
<1>10. AnswerOf(p)' /\ StreamedOf(p)'
  BY <1>4, <1>6 DEF AnswerOf, StreamedOf, At
<1>11. RequestInv(p)'
  BY <1>7, <1>8, <1>9, <1>10 DEF RequestInv
<1>12. /\ published' \in Seq(Row) /\ requests' \in 0 .. MaxRequests /\ faults' \in 0 .. MaxFaults
       /\ requests <= requests' /\ faults <= faults' /\ Len(new.items) <= MaxBatch
       /\ ToSet(published) \subseteq ToSet(published')
  BY <1>1, <1>2, <1>4
<1> QED
  BY <1>2, <1>4, <1>7, <1>11, <1>12, StepFrame

\* A COMMIT whose answer is lost leaves the whole batch.
LEMMA LoseCommitStep ==
    ASSUME IngestInv, NEW p \in Procs, LoseCommit(p)
    PROVE  IngestInv'
<1> DEFINE new == Done(p, "error")
<1>1. /\ proc \in [Procs -> Request] /\ proc[p] \in Request /\ proc[p].pc = "commit" /\ RequestInv(p)
      /\ published \in Seq(Row) /\ requests \in 0 .. MaxRequests /\ faults \in 0 .. MaxFaults
      /\ Len(proc[p].items) <= MaxBatch
  BY DEF IngestInv, Typed, LoseCommit, At
<1>2. /\ At(p, "commit") /\ rows' = rows \cup pending[p] /\ pending' = [pending EXCEPT ![p] = {}]
      /\ Become(p, new) /\ published' = published /\ requests' = requests
      /\ faults < MaxFaults /\ faults' = faults + 1
  BY DEF LoseCommit
<1>3. /\ new \in Request /\ new.pc = "done" /\ new.reply = "error" /\ new.req = proc[p].req
      /\ new.user = proc[p].user /\ new.items = proc[p].items /\ new.found = proc[p].found
  BY <1>1, DoneFacts DEF Reply
<1> HIDE DEF new
<1>4. proc'[p] = new
  BY <1>1, <1>2 DEF Become
<1>5. /\ KeysApart' /\ Streamed' /\ rows' \subseteq Row /\ rows \subseteq rows'
      /\ \A r \in rows' : r \in rows \/ (r.req = proc[p].req /\ r.req > 0)
      /\ pending' \in [Procs -> SUBSET Row] /\ \A q \in Procs : q # p => pending'[q] = pending[q]
      /\ Numbered(p)' /\ PendingKnown(p)' /\ OwnKnown(p)' /\ WholeOf(p)'
      /\ proc'[p].found \subseteq rows'
  BY <1>2, <1>3, <1>4, CommitRows
<1>6. faults' \in 0 .. MaxFaults /\ faults <= faults' /\ faults' > 0
  BY <1>1, <1>2, IngestBounds
<1>7. Fit(p)' /\ HandledKnown(p)' /\ AnswerOf(p)' /\ StreamedOf(p)'
  BY <1>3, <1>4, <1>6 DEF Fit, HandledKnown, AnswerOf, StreamedOf, At
<1>8. RequestInv(p)'
  BY <1>5, <1>7 DEF RequestInv
<1>9. /\ published' \in Seq(Row) /\ requests' \in 0 .. MaxRequests
      /\ requests <= requests' /\ Len(new.items) <= MaxBatch
      /\ ToSet(published) \subseteq ToSet(published')
  BY <1>1, <1>2, <1>3
<1> QED
  BY <1>2, <1>3, <1>5, <1>6, <1>8, <1>9, StepFrame

\* A request that ends in an error leaves no row of its open transaction; one
\* that is not a batch ends so only by a fault.
LEMMA Rollback ==
    ASSUME IngestInv, NEW p \in Procs, proc[p].pc # "idle", pending' = [pending EXCEPT ![p] = {}],
           Become(p, Done(p, "error")), UNCHANGED <<rows, published, requests>>,
           faults' \in 0 .. MaxFaults, faults <= faults', proc[p].batch \/ faults' > 0
    PROVE  IngestInv'
<1> DEFINE new == Done(p, "error")
<1>1. /\ proc \in [Procs -> Request] /\ proc[p] \in Request /\ RequestInv(p)
      /\ rows \subseteq Row /\ pending \in [Procs -> SUBSET Row]
      /\ published \in Seq(Row) /\ requests \in 0 .. MaxRequests /\ Len(proc[p].items) <= MaxBatch
  BY DEF IngestInv, Typed
<1>2. /\ new \in Request /\ new.pc = "done" /\ new.reply = "error" /\ new.req = proc[p].req
      /\ new.user = proc[p].user /\ new.items = proc[p].items /\ new.found = proc[p].found
      /\ (new.batch <=> proc[p].batch)
  BY <1>1, DoneFacts DEF Reply
<1>3. proc'[p] = new
  BY <1>1 DEF Become
<1>4. Become(p, new)
  OBVIOUS
<1> HIDE DEF new
<1>5. /\ pending' \in [Procs -> SUBSET Row] /\ pending'[p] = {}
      /\ \A q \in Procs : q # p => pending'[q] = pending[q]
  BY <1>1
<1>6. KeysApart' /\ Streamed'
  BY <1>5 DEF IngestInv, KeysApart, Streamed
<1>7. Own(p)' = Own(p)
  BY <1>2, <1>3 DEF Own
<1>8. \A i : Recorded(p, i) => Recorded(p, i)'
  BY <1>2, <1>3 DEF Recorded
<1>9. WholeOf(p)'
  BY <1>1, <1>2, <1>3, <1>7, <1>8 DEF RequestInv, WholeOf
<1>10. AnswerOf(p)'
  <2>1. ~ proc'[p].batch => faults' > 0
    BY <1>2, <1>3, Zenon
  <2>2. proc'[p].reply = "error"
    BY <1>2, <1>3
  <2> QED
    BY <2>1, <2>2, Zenon DEF AnswerOf
<1>11. /\ Numbered(p)' /\ Fit(p)' /\ PendingKnown(p)' /\ OwnKnown(p)' /\ HandledKnown(p)' /\ StreamedOf(p)'
       /\ proc'[p].found \subseteq rows'
  BY <1>1, <1>2, <1>3, <1>5
  DEF RequestInv, Numbered, Fit, PendingKnown, OwnKnown, HandledKnown, StreamedOf, At
<1>12. RequestInv(p)'
  BY <1>9, <1>10, <1>11 DEF RequestInv
<1>13. /\ rows' \subseteq Row /\ rows' = rows /\ published' \in Seq(Row) /\ published' = published
       /\ requests' \in 0 .. MaxRequests /\ requests <= requests' /\ Len(new.items) <= MaxBatch
  BY <1>1, <1>2
<1> QED
  BY <1>2, <1>4, <1>5, <1>6, <1>12, <1>13, StepFrame

\* A failed statement rolls the transaction back.
LEMMA FailStep ==
    ASSUME IngestInv, NEW p \in Procs, Fail(p)
    PROVE  IngestInv'
<1>1. proc[p].pc # "idle" /\ pending' = [pending EXCEPT ![p] = {}] /\ Become(p, Done(p, "error"))
  BY DEF Fail
<1>2. UNCHANGED <<rows, published, requests>>
  BY DEF Fail
<1>3. faults' \in 0 .. MaxFaults /\ faults <= faults' /\ faults' > 0
  BY IngestBounds DEF Fail, IngestInv, Typed
<1> QED
  BY <1>1, <1>2, <1>3, Rollback

\* Only a batch is waited for while it waits itself: a single event holds no
\* row while its one statement runs.
LEMMA AbortStep ==
    ASSUME IngestInv, NEW p \in Procs, AbortDeadlock(p)
    PROVE  IngestInv'
<1>1. PICK q \in Procs, r \in Procs : WaitsFor(p, q) /\ WaitsFor(r, p)
  BY DEF AbortDeadlock
<1>2. /\ proc[p].pc = "insert" /\ RequestInv(p) /\ pending[p] # {} /\ pending[p] \subseteq Row
      /\ Len(proc[p].items) \in Nat /\ DOMAIN proc[p].items = 1 .. Len(proc[p].items)
  BY <1>1 DEF WaitsFor, At, SameKey, IngestInv, Typed, Request
<1>3. Len(proc[p].items) # 1
  <2>1. PICK s \in pending[p] : TRUE
    BY <1>2
  <2>2. s.item \in DOMAIN proc[p].items /\ s.item < proc[p].idx /\ proc[p].idx \in DOMAIN proc[p].items
    BY <1>2 DEF RequestInv, PendingKnown, Fit
  <2>3. s.item \in 1 .. Len(proc[p].items) /\ proc[p].idx \in 1 .. Len(proc[p].items)
    BY <1>2, <2>2
  <2> QED
    BY <2>2, <2>3
<1>4. proc[p].batch
  BY <1>2, <1>3, Zenon DEF RequestInv, Fit
<1>5. faults' \in 0 .. MaxFaults /\ faults <= faults'
  BY DEF AbortDeadlock, IngestInv, Typed
<1>6. /\ pending' = [pending EXCEPT ![p] = {}] /\ Become(p, Done(p, "error"))
      /\ UNCHANGED <<rows, published, requests>> /\ proc[p].pc # "idle"
  BY <1>2 DEF AbortDeadlock
<1> QED
  BY <1>4, <1>5, <1>6, Rollback

\* The conflicting row was committed when the INSERT met it, and rows stay.
LEMMA LookupStep ==
    ASSUME IngestInv, NEW p \in Procs, Lookup(p)
    PROVE  IngestInv'
<1> DEFINE found == SameKey(p, rows)
           end == Done(p, "existing")
           new == [end EXCEPT !.found = found]
<1>1. /\ proc \in [Procs -> Request] /\ proc[p] \in Request /\ RequestInv(p) /\ proc[p].pc = "lookup"
      /\ rows \subseteq Row /\ pending \in [Procs -> SUBSET Row]
      /\ published \in Seq(Row) /\ requests \in 0 .. MaxRequests /\ Len(proc[p].items) <= MaxBatch
      /\ faults \in 0 .. MaxFaults /\ UNCHANGED <<rows, pending, published, requests, faults>>
  BY DEF IngestInv, Typed, Lookup, At
<1>2. found # {} /\ found \subseteq rows
  BY <1>1 DEF RequestInv, HandledKnown, SameKey
<1>3. Become(p, new)
  BY <1>2 DEF Lookup, Become
<1>4. /\ end \in Request /\ end.pc = "done" /\ end.reply = "existing" /\ end.req = proc[p].req
      /\ end.user = proc[p].user /\ end.items = proc[p].items
  BY <1>1, DoneFacts DEF Reply
<1>5. proc[p].idx = 1
  <2>1. ~ proc[p].batch
    BY <1>1, Zenon DEF RequestInv, HandledKnown
  <2>2. Len(proc[p].items) = 1
    BY <1>1, <2>1 DEF RequestInv, Fit
  <2> QED
    BY <1>1, <2>2 DEF RequestInv, Fit, Request
<1> HIDE DEF end
<1>6. /\ new \in Request /\ new.pc = "done" /\ new.reply = "existing" /\ new.req = proc[p].req
      /\ new.user = proc[p].user /\ new.items = proc[p].items /\ new.found = found
  BY <1>1, <1>2, <1>4 DEF Request
<1> HIDE DEF new
<1>7. proc'[p] = new
  BY <1>1, <1>3 DEF Become
<1>8. AnswerOf(p)'
  <2>1. \A r \in found : r \in rows' /\ r.user = proc'[p].user /\ r.key = proc'[p].items[1]
    BY <1>1, <1>5, <1>6, <1>7 DEF SameKey, Key
  <2> QED
    BY <1>2, <1>6, <1>7, <2>1 DEF AnswerOf
<1>9. Own(p)' = {}
  BY <1>1, <1>6, <1>7 DEF Own, RequestInv, OwnKnown
<1>10. /\ Numbered(p)' /\ Fit(p)' /\ PendingKnown(p)' /\ OwnKnown(p)' /\ HandledKnown(p)' /\ StreamedOf(p)'
       /\ WholeOf(p)' /\ proc'[p].found \subseteq rows'
  BY <1>1, <1>2, <1>6, <1>7, <1>9
  DEF RequestInv, Numbered, Fit, PendingKnown, OwnKnown, HandledKnown, StreamedOf, WholeOf, At
<1>11. RequestInv(p)'
  BY <1>8, <1>10 DEF RequestInv
<1>12. KeysApart' /\ Streamed'
  BY <1>1 DEF IngestInv, KeysApart, Streamed
<1>13. /\ rows' \subseteq Row /\ rows' = rows /\ published' \in Seq(Row) /\ published' = published
       /\ requests' \in 0 .. MaxRequests /\ requests <= requests' /\ Len(new.items) <= MaxBatch
       /\ faults' \in 0 .. MaxFaults /\ faults <= faults'
       /\ pending' = pending /\ pending' \in [Procs -> SUBSET Row]
  BY <1>1, <1>6
<1> QED
  BY <1>3, <1>6, <1>11, <1>12, <1>13, StepFrame

\* Publish hands one created row to the broker.
LEMMA PublishStep ==
    ASSUME IngestInv, NEW p \in Procs, Publish(p)
    PROVE  IngestInv'
<1>1. /\ proc \in [Procs -> Request] /\ proc[p] \in Request /\ RequestInv(p) /\ proc[p].pc = "publish"
      /\ rows \subseteq Row /\ pending \in [Procs -> SUBSET Row]
      /\ published \in Seq(Row) /\ requests \in 0 .. MaxRequests /\ Len(proc[p].items) <= MaxBatch
      /\ faults \in 0 .. MaxFaults /\ UNCHANGED <<rows, pending, requests, faults>>
      /\ requests <= requests' /\ faults <= faults' /\ Streamed
  BY DEF IngestInv, Typed, Publish, At
<1>2. KeysApart'
  BY <1>1 DEF IngestInv, KeysApart
<1>3. ASSUME NEW r \in Unpublished(p), published' = Append(published, r), UNCHANGED proc
      PROVE  IngestInv'
  <2>1. r \in rows /\ r \notin ToSet(published) /\ r \in Row
    BY <1>1, <1>3 DEF Unpublished, Own
  <2>2. published' \in Seq(Row) /\ Len(published') = Len(published) + 1 /\ Len(published) \in Nat
    BY <1>1, <1>3, <2>1
  <2>3. /\ \A i \in 1 .. Len(published) : published'[i] = published[i]
        /\ published'[Len(published) + 1] = r
    BY <1>1, <1>3, <2>1
  <2>4. ToSet(published') = ToSet(published) \cup {r}
    BY <1>1, <2>2, <2>3 DEF ToSet
  <2>5. IsInjective(published')
    <3>1. \A i, j \in 1 .. Len(published) : published[i] = published[j] => i = j
      BY <1>1 DEF Streamed, IsInjective
    <3>2. \A i \in 1 .. Len(published) : published[i] # r
      BY <1>1, <2>1 DEF ToSet
    <3>3. DOMAIN published' = 1 .. Len(published) + 1
      BY <2>2
    <3> QED
      BY <2>2, <2>3, <3>1, <3>2, <3>3 DEF IsInjective
  <2>6. Streamed'
    BY <1>1, <2>1, <2>4, <2>5 DEF Streamed
  <2>7. proc' = proc /\ Become(p, proc[p])
    BY <1>1, <1>3 DEF Become
  <2>8. RequestInv(p)'
    <3>1. AnswerOf(p)' /\ StreamedOf(p)'
      BY <1>1, <2>7 DEF AnswerOf, StreamedOf, At
    <3>2. Numbered(p)' /\ Fit(p)' /\ PendingKnown(p)' /\ OwnKnown(p)'
      BY <1>1, <2>7 DEF RequestInv, Numbered, Fit, PendingKnown, OwnKnown, Own
    <3>3. HandledKnown(p)' /\ WholeOf(p)' /\ proc'[p].found \subseteq rows'
      BY <1>1, <2>7 DEF RequestInv, HandledKnown, WholeOf, Own, Recorded
    <3> QED
      BY <3>1, <3>2, <3>3 DEF RequestInv
  <2>9. /\ rows' \subseteq Row /\ rows' = rows /\ requests' \in 0 .. MaxRequests
        /\ faults' \in 0 .. MaxFaults /\ pending' = pending /\ pending' \in [Procs -> SUBSET Row]
        /\ ToSet(published) \subseteq ToSet(published')
    BY <1>1, <2>4
  <2> QED
    BY <1>1, <1>2, <2>2, <2>6, <2>7, <2>8, <2>9, StepFrame
<1>4. ASSUME Unpublished(p) = {}, Become(p, Done(p, "created")), published' = published
      PROVE  IngestInv'
  <2> DEFINE new == Done(p, "created")
  <2>1. /\ new \in Request /\ new.pc = "done" /\ new.reply = "created" /\ new.req = proc[p].req
        /\ new.user = proc[p].user /\ new.items = proc[p].items /\ new.found = proc[p].found
    BY <1>1, DoneFacts DEF Reply
  <2>2. Become(p, new) /\ proc'[p] = new
    BY <1>1, <1>4 DEF Become
  <2> HIDE DEF new
  <2>3. Own(p)' = Own(p) /\ Unpublished(p)' = {}
    BY <1>1, <1>4, <2>1, <2>2 DEF Own, Unpublished
  <2>4. \A i \in DOMAIN proc'[p].items : Recorded(p, i)'
    BY <1>1, <2>1, <2>2 DEF RequestInv, HandledKnown, Recorded
  <2>5. AnswerOf(p)' /\ WholeOf(p)' /\ StreamedOf(p)'
    BY <2>1, <2>2, <2>3, <2>4 DEF AnswerOf, WholeOf, StreamedOf
  <2>6. /\ Numbered(p)' /\ Fit(p)' /\ PendingKnown(p)' /\ OwnKnown(p)' /\ HandledKnown(p)'
        /\ proc'[p].found \subseteq rows'
    BY <1>1, <2>1, <2>2 DEF RequestInv, Numbered, Fit, PendingKnown, OwnKnown, HandledKnown
  <2>7. RequestInv(p)'
    BY <2>5, <2>6 DEF RequestInv
  <2>8. Streamed'
    BY <1>1, <1>4 DEF Streamed
  <2>9. /\ rows' \subseteq Row /\ rows' = rows /\ published' \in Seq(Row) /\ requests' \in 0 .. MaxRequests
        /\ faults' \in 0 .. MaxFaults /\ pending' = pending /\ pending' \in [Procs -> SUBSET Row]
        /\ ToSet(published) \subseteq ToSet(published') /\ Len(new.items) <= MaxBatch
    BY <1>1, <1>4, <2>1
  <2> QED
    BY <1>1, <1>2, <2>1, <2>2, <2>7, <2>8, <2>9, StepFrame
<1> QED
  BY <1>3, <1>4 DEF Publish

-----------------------------------------------------------------------------
(* The theorems *)

\* The empty table satisfies the invariant.
LEMMA InitInv == Init => IngestInv
<1> SUFFICES ASSUME Init PROVE IngestInv
  OBVIOUS
<1>1. /\ rows = {} /\ published = <<>> /\ requests = 0 /\ faults = 0
      /\ pending = [p \in Procs |-> {}] /\ proc = [p \in Procs |-> Idle]
  BY DEF Init
<1>2. Idle \in Request /\ Idle.items = <<>> /\ Idle.found = {} /\ Idle.pc = "idle" /\ Idle.req = 0
  BY IdleRequest DEF Idle
<1>3. Typed
  BY <1>1, <1>2, BatchAssumption, IngestBounds DEF Typed
<1>4. KeysApart /\ Streamed
  BY <1>1 DEF KeysApart, Streamed, IsInjective, ToSet
<1>5. ASSUME NEW p \in Procs  PROVE RequestInv(p)
  BY <1>1, <1>2
  DEF RequestInv, Numbered, Fit, PendingKnown, OwnKnown, HandledKnown, AnswerOf, WholeOf, StreamedOf, Own, At
<1>6. \A p, q \in Procs : NumbersApart(p, q)
  BY <1>1, <1>2 DEF NumbersApart
<1> QED
  BY <1>1, <1>3, <1>4, <1>5, <1>6 DEF IngestInv

\* A step that changes nothing keeps the invariant.
LEMMA StutterStep ==
    ASSUME IngestInv, UNCHANGED vars
    PROVE  IngestInv'
<1>1. Typed' /\ KeysApart' /\ Streamed' /\ (\A r \in rows' : r.req <= requests')
  BY DEF IngestInv, vars, Typed, KeysApart, Streamed
<1>2. ASSUME NEW p \in Procs  PROVE RequestInv(p)'
  <2>1. Numbered(p)' /\ Fit(p)' /\ PendingKnown(p)'
    BY DEF IngestInv, RequestInv, vars, Numbered, Fit, PendingKnown
  <2>2. OwnKnown(p)' /\ HandledKnown(p)'
    BY DEF IngestInv, RequestInv, vars, OwnKnown, HandledKnown, Own, Handled, Recorded, SameKey, Key
  <2>3. AnswerOf(p)' /\ WholeOf(p)' /\ StreamedOf(p)' /\ proc'[p].found \subseteq rows'
    BY DEF IngestInv, RequestInv, vars, AnswerOf, WholeOf, StreamedOf, Own, Recorded, Unpublished, At
  <2> QED
    BY <2>1, <2>2, <2>3 DEF RequestInv
<1>3. \A p, q \in Procs : NumbersApart(p, q)'
  BY DEF IngestInv, vars, NumbersApart
<1> QED
  BY <1>1, <1>2, <1>3 DEF IngestInv

\* Every step keeps the invariant.
LEMMA NextInv == IngestInv /\ [Next]_vars => IngestInv'
<1> SUFFICES ASSUME IngestInv, [Next]_vars  PROVE IngestInv'
  OBVIOUS
<1>1. ASSUME NEW p \in Procs, NEW u \in Users, NEW header \in RawKeys, NEW body \in Items,
             Create(p, u, header, body)
      PROVE  IngestInv'
  <2> DEFINE kept == IF {header, body} \subseteq Keys /\ header # body THEN header ELSE NoKey
             raws == <<IF body = NoKey THEN header ELSE body>>
  <2>1. kept \in Stored /\ raws \in Seq(Items) /\ Len(raws) = 1
    BY DEF Stored, Items, RawKeys
  <2>2. Begin(p, u, kept, raws, FALSE)
    BY <1>1 DEF Create
  <2> HIDE DEF kept, raws
  <2> QED
    BY <2>1, <2>2, BeginStep
<1>2. ASSUME NEW p \in Procs, NEW u \in Users,
             NEW raws \in UNION {[1 .. n -> Items] : n \in 0 .. MaxBatch + 1}, CreateBatch(p, u, raws)
      PROVE  IngestInv'
  <2>1. raws \in Seq(Items)
    BY BatchAssumption
  <2>2. Begin(p, u, NoKey, raws, TRUE) /\ NoKey \in Stored
    BY <1>2 DEF CreateBatch, Stored
  <2> QED
    BY <2>1, <2>2, BeginStep
<1>3. ASSUME NEW p \in Procs, Step(p)  PROVE IngestInv'
  BY <1>3, InsertStep, CommitStep, LookupStep, PublishStep, AbortStep DEF Step
<1>4. ASSUME NEW p \in Procs, Fail(p) \/ LoseCommit(p)  PROVE IngestInv'
  BY <1>4, FailStep, LoseCommitStep
<1>5. CASE UNCHANGED vars
  BY <1>5, StutterStep
<1> QED
  BY <1>1, <1>2, <1>3, <1>4, <1>5 DEF Next

\* IngestInv holds in every reachable state.
THEOREM IngestInvariant == Spec => []IngestInv
BY InitInv, NextInv, PTL DEF Spec

\* Rows, transactions and requests are what validation lets through, and no
\* batch is longer than the limit (Record, RecordBatch, normalize).
THEOREM TypeCorrect == Spec => []TypeOK
<1>1. IngestInv => TypeOK
  BY DEF IngestInv, Typed, TypeOK, Request, RequestInv
<1> QED
  BY <1>1, IngestInvariant, PTL

\* Of any number of requests with one key of one user a single one inserts a
\* row, whatever commits, rolls back or is lost (the partial unique index).
THEOREM KeysUnique == Spec => []OneRowPerKey
<1>1. IngestInv => OneRowPerKey
  BY DEF IngestInv, KeysApart, SameRow, OneRowPerKey
<1> QED
  BY <1>1, IngestInvariant, PTL

\* Every answer is true, and a request for one event ends in an error only
\* by a fault: its conflict is always found (Create, byIdempotencyKey).
THEOREM TrueAnswers == Spec => []AnswersHold
<1>1. IngestInv => AnswersHold
  BY DEF IngestInv, RequestInv, AnswerOf, AnswersHold
<1> QED
  BY <1>1, IngestInvariant, PTL

\* The stream gets a row once, after its COMMIT, and every row of a request
\* that was answered (Record, RecordBatch).
THEOREM StreamedOnce == Spec => []PublishedOnce
<1>1. IngestInv => PublishedOnce
  BY DEF IngestInv, RequestInv, Streamed, StreamedOf, PublishedOnce
<1> QED
  BY <1>1, IngestInvariant, PTL

\* A batch is in the table as a whole or not at all (CreateBatch).
THEOREM WholeBatches == Spec => []AllOrNothing
<1>1. IngestInv => AllOrNothing
  BY DEF IngestInv, RequestInv, WholeOf, AllOrNothing
<1> QED
  BY <1>1, IngestInvariant, PTL
=============================================================================
