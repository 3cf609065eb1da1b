----------------------------- MODULE EventReads -----------------------------
(***************************************************************************)
(* GET /events: who may read whose events, the filters, and keyset pages    *)
(* read one after the other while events are being recorded.               *)
(*                                                                         *)
(* Sources: internal/handler/event.go (List, targetUser, timeQuery),       *)
(* internal/middleware/auth.go (RequireAuth), internal/service/event.go    *)
(* (List, pageSize, encodeCursor, decodeCursor) and internal/repository/   *)
(* event.go (List).                                                        *)
(*                                                                         *)
(* A row's id is drawn when it is inserted and the row is seen when its    *)
(* transaction commits, so rows appear in any order of ids and times.  A   *)
(* cursor is the time and the id it encodes, both exact: occurred_at has   *)
(* microseconds in the table and the cursor nanoseconds.  Cursors that do  *)
(* not decode change nothing and are left out.                             *)
(***************************************************************************)
EXTENDS Integers, Sequences, SequencesExt, FiniteSets

CONSTANTS
    Readers,      \* clients that read a listing page by page
    Users,
    Admins,       \* users whose access token has the admin role
    Types,
    Times,        \* bound: instants in occurred_at
    Marks,        \* bound: instants in from and to
    None, Malformed,
    PageDefault, PageMax,    \* DefaultPageSize, MaxPageSize
    Limits,       \* values of limit clients send; 0: none
    MaxRows       \* bound: rows recorded

ASSUME ReadsAssumption ==
    /\ Admins \subseteq Users /\ Times \cup Marks \cup Limits \subseteq Int
    /\ {None, Malformed} \cap (Users \cup Types) = {} /\ None # Malformed
    /\ PageMax \in Nat /\ PageDefault \in 1 .. PageMax /\ MaxRows \in Nat

VARIABLES
    rows,      \* events: committed rows
    reader     \* listing of each client: see Listing

Row == [id : 1 .. MaxRows, user : Users, at : Times, type : Types]

\* A cursor that was not sent is none of the rows.
ASSUME CursorAssumption == None \notin Row

\* A query and what came of it: the pages so far, in order, the cursor of the
\* last one (None: no more), and (history) the rows it matched at the start.
Listing == [pc : {"idle", "more", "end", "refused"}, self : Users \cup {None},
            target : Users \cup {None}, types : SUBSET Types, from : Marks \cup {None},
            to : Marks \cup {None}, limit : 1 .. PageMax, got : Seq(Row), due : SUBSET Row]

NoListing == [pc |-> "idle", self |-> None, target |-> None, types |-> {}, from |-> None,
              to |-> None, limit |-> PageMax, got |-> <<>>, due |-> {}]

-----------------------------------------------------------------------------
(* The query *)

\* Faulty variant of Earlier: the cursor compares times only.
EarlierTime(r, s) == r.at < s.at

\* (occurred_at, id) < ($5, $6)
Earlier(r, s) == r.at < s.at \/ (r.at = s.at /\ r.id < s.id)

Matches(r, q) ==
    /\ r.user = q.target
    /\ q.types # {} => r.type \in q.types
    /\ q.from # None => r.at >= q.from
    /\ q.to # None => r.at < q.to

\* r comes before s in an answer.
Newer(r, s) == s.at < r.at \/ (s.at = r.at /\ s.id < r.id)

\* ORDER BY occurred_at DESC, id DESC
Sorted(found) ==
    CHOOSE q \in SetToSeqs(found) : \A i, j \in DOMAIN q : i < j => Newer(q[i], q[j])

\* LIMIT n, after the cursor if there is one.
Select(q, cursor, n) ==
    LET sorted == Sorted({r \in rows : Matches(r, q) /\ (cursor # None => Earlier(r, cursor))})
    IN  SubSeq(sorted, 1, IF n < Len(sorted) THEN n ELSE Len(sorted))

PageSize(limit) ==
    CASE limit <= 0 -> PageDefault
      [] limit > PageMax -> PageMax
      [] OTHER -> limit

\* Service.List: one row more than the page tells whether there is a next one.
Page(q, cursor) ==
    LET found == Select(q, cursor, q.limit + 1)
        more == Len(found) = q.limit + 1
    IN  [q EXCEPT !.got = @ \o (IF more THEN Front(found) ELSE found),
                  !.pc = IF more THEN "more" ELSE "end"]

-----------------------------------------------------------------------------
(* Requests *)

\* RequireAuth: the access token names its user; None: missing, malformed or
\* expired.
Authenticated(self) == self # None

\* targetUser: oneself, or anyone for an admin.
MayRead(self, wanted) == wanted \in {None, self} \/ (wanted \in Users /\ self \in Admins)

FirstPage(c, self, wanted, types, from, to, limit) ==
    LET target == IF wanted = None THEN self ELSE wanted
        q == [NoListing EXCEPT !.self = self, !.target = target, !.types = types,
                               !.from = from, !.to = to, !.limit = PageSize(limit)]
        bad == from # None /\ to # None /\ from >= to
    IN  /\ reader' = [reader EXCEPT ![c] =
              IF ~ Authenticated(self) \/ ~ MayRead(self, wanted) \/ bad THEN [NoListing EXCEPT !.pc = "refused"]
              ELSE Page([q EXCEPT !.due = {r \in rows : Matches(r, q)}], None)]
        /\ UNCHANGED rows

NextPage(c) ==
    /\ reader[c].pc = "more"
    /\ reader' = [reader EXCEPT ![c] = Page(@, Last(@.got))]
    /\ UNCHANGED rows

\* A transaction that recorded events commits.
Record(r) ==
    /\ r.id \notin {s.id : s \in rows}
    /\ rows' = rows \cup {r}
    /\ UNCHANGED reader

InitReads ==
    /\ rows = {}
    /\ reader = [c \in Readers |-> NoListing]

Read(c) ==
    \/ /\ reader[c].pc = "idle"
       /\ \E self \in Users \cup {None}, wanted \in Users \cup {None, Malformed}, types \in SUBSET Types,
             from, to \in Marks \cup {None}, limit \in Limits :
             FirstPage(c, self, wanted, types, from, to, limit)
    \/ NextPage(c)

-----------------------------------------------------------------------------
(* Properties *)

\* "events sharing a timestamp are neither lost nor repeated between pages ...
\* its absence means the last page" (api/openapi.yaml:288): whatever is
\* recorded between two pages, the pages are in strictly falling order of time
\* and id, hold nothing but the target's matching rows, and by the last page
\* every row that matched at the start; and nobody reads without signing in, or
\* another user's events without being an admin.
PagesRight == \A c \in Readers : reader[c].pc \in {"more", "end"} =>
    LET q == reader[c] IN
    /\ \A i, j \in DOMAIN q.got : i < j =>
          q.got[j].at < q.got[i].at \/ (q.got[j].at = q.got[i].at /\ q.got[j].id < q.got[i].id)
    /\ \A i \in DOMAIN q.got : q.got[i] \in rows /\ Matches(q.got[i], q)
    /\ q.pc = "end" => q.due \subseteq ToSet(q.got)
    /\ q.self \in Users /\ (q.target = q.self \/ q.self \in Admins)
=============================================================================
