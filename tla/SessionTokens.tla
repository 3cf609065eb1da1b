--------------------------- MODULE SessionTokens ---------------------------
(***************************************************************************)
(* Refresh-token sessions as the API handlers run them against Postgres:   *)
(* every request is a sequence of statements of one or two transactions,   *)
(* interleaved with those of other requests.                               *)
(*                                                                         *)
(* Sources: internal/service/auth.go (Refresh, Logout, startSession,       *)
(* attachGoogle, revokeCompromisedFamily), internal/repository/            *)
(* refresh_token.go (Create, ByHash, Rotate, RevokeFamily, lockFamily) and *)
(* internal/repository/user.go (AttachGoogle).                             *)
(*                                                                         *)
(* Three locks matter: the advisory lock on a family (lockFamily), the lock *)
(* on a users row (FOR UPDATE in AttachGoogle against the FOR KEY SHARE    *)
(* that the foreign key of refresh_tokens takes on insert), and the row    *)
(* lock an UPDATE takes.  All are held until the transaction ends.  What a *)
(* transaction wrote is invisible to others until it commits, and a         *)
(* statement selects its rows when it starts (READ COMMITTED).             *)
(*                                                                         *)
(* A token is its row; hashes, user agents and addresses are left out.  A  *)
(* family is named by its first token.  Fresh uuids are drawn from the     *)
(* tokens that are not in the table.                                       *)
(***************************************************************************)
EXTENDS Integers, FiniteSets

CONSTANTS
    Procs,       \* requests that are served at the same time
    Tokens,      \* bound: rows of refresh_tokens
    Users,
    Subs,        \* Google accounts
    NoToken, NoUser, NoSub,
    MaxFaults    \* bound: requests that fail half-way

ASSUME NoneAssumption == NoToken \notin Tokens /\ NoUser \notin Users /\ NoSub \notin Subs
ASSUME FaultsAssumption == MaxFaults \in Nat

VARIABLES
    status,      \* committed state of each row: "free", "pending", "live", "revoked"
    family,      \* family_id
    owner,       \* user_id
    replacedBy,  \* replaced_by
    expired,     \* tokens past expires_at
    verified,    \* users.email_verified
    sub,         \* users.google_sub
    proc,        \* request: program counter, presented token, successor, user, subject
    famLock,     \* advisory locks of each open transaction
    keyShare,    \* users rows it locked FOR KEY SHARE
    forUpdate,   \* users rows it locked FOR UPDATE
    targets,     \* rows its UPDATE selected
    marked,      \* rows it has updated (locked until it ends)
    faults,
    dead         \* history: families revoked by logout, reuse or account link

rows == <<status, family, owner, replacedBy>>
accounts == <<verified, sub>>
tx == <<famLock, keyShare, forUpdate, targets, marked>>
vars == <<rows, expired, accounts, proc, tx, faults, dead>>

Phase == {"idle",
          "rotateLock", "rotateInsert", "rotateUpdate", "rotateCommit",
          "revokeLock", "revokeScan", "revokeMark", "revokeCommit",
          "startInsert", "startCommit",
          "linkLock", "linkUpdate", "linkScan", "linkMark", "linkCommit"}

Idle == [pc |-> "idle", tok |-> NoToken, next |-> NoToken, user |-> NoUser, sub |-> NoSub]

Committed(t) == status[t] \in {"live", "revoked"}

At(p, phase) == proc[p].pc = phase

Others(p) == Procs \ {p}

\* Bound: a request that will insert a row is let in only if there is one
\* left for it.
Room ==
    Cardinality({p \in Procs : proc[p].pc \in {"rotateLock", "rotateInsert", "startInsert"}})
        < Cardinality({t \in Tokens : status[t] = "free"})

Goto(p, phase) == proc' = [proc EXCEPT ![p].pc = phase]

\* Faulty variant of EndTx: a session-level advisory lock outlives it.
EndTxSessionLock(p) ==
    /\ UNCHANGED famLock
    /\ keyShare' = [keyShare EXCEPT ![p] = {}]
    /\ forUpdate' = [forUpdate EXCEPT ![p] = {}]
    /\ targets' = [targets EXCEPT ![p] = {}]
    /\ marked' = [marked EXCEPT ![p] = {}]

\* Ends p's transaction: every lock it holds is released.
EndTx(p) ==
    /\ famLock' = [famLock EXCEPT ![p] = {}]
    /\ keyShare' = [keyShare EXCEPT ![p] = {}]
    /\ forUpdate' = [forUpdate EXCEPT ![p] = {}]
    /\ targets' = [targets EXCEPT ![p] = {}]
    /\ marked' = [marked EXCEPT ![p] = {}]

\* The rows after p's inserts are undone.
WithoutPending(p) ==
    [t \in Tokens |-> IF t = proc[p].next THEN "free" ELSE status[t]]

\* The rows after p's updates and insert become visible.
WithCommitted(p) ==
    [t \in Tokens |-> IF t \in marked[p] THEN "revoked"
                      ELSE IF t = proc[p].next THEN "live" ELSE status[t]]

Init ==
    /\ status = [t \in Tokens |-> "free"]
    /\ family = [t \in Tokens |-> t]
    /\ owner = [t \in Tokens |-> NoUser]
    /\ replacedBy = [t \in Tokens |-> NoToken]
    /\ expired = {}
    /\ verified = [u \in Users |-> FALSE]
    /\ sub = [u \in Users |-> NoSub]
    /\ proc = [p \in Procs |-> Idle]
    /\ famLock = [p \in Procs |-> {}]
    /\ keyShare = [p \in Procs |-> {}]
    /\ forUpdate = [p \in Procs |-> {}]
    /\ targets = [p \in Procs |-> {}]
    /\ marked = [p \in Procs |-> {}]
    /\ faults = 0
    /\ dead = {}

-----------------------------------------------------------------------------
(* Locks and statements *)

\* pg_advisory_xact_lock waits for its turn.
LockFamily(p, from, to) ==
    /\ At(p, from)
    /\ \A q \in Others(p) : family[proc[p].tok] \notin famLock[q]
    /\ famLock' = [famLock EXCEPT ![p] = {family[proc[p].tok]}]
    /\ Goto(p, to)
    /\ UNCHANGED <<rows, expired, accounts, keyShare, forUpdate, targets, marked, faults, dead>>

\* INSERT INTO refresh_tokens: the foreign key locks the users row FOR KEY
\* SHARE, which waits for a FOR UPDATE.
Insert(p, n, f, u, to) ==
    /\ status[n] = "free"
    /\ \A q \in Others(p) : u \notin forUpdate[q]
    /\ keyShare' = [keyShare EXCEPT ![p] = {u}]
    /\ status' = [status EXCEPT ![n] = "pending"]
    /\ family' = [family EXCEPT ![n] = f]
    /\ owner' = [owner EXCEPT ![n] = u]
    /\ replacedBy' = [replacedBy EXCEPT ![n] = NoToken]
    /\ proc' = [proc EXCEPT ![p].pc = to, ![p].next = n]
    /\ UNCHANGED <<expired, accounts, famLock, forUpdate, targets, marked, faults, dead>>

\* An UPDATE ... WHERE ... AND revoked_at IS NULL selects its rows ...
Scan(p, from, rowsWanted, to) ==
    /\ At(p, from)
    /\ targets' = [targets EXCEPT ![p] = {t \in rowsWanted : status[t] = "live"}]
    /\ Goto(p, to)
    /\ UNCHANGED <<rows, expired, accounts, famLock, keyShare, forUpdate, marked, faults, dead>>

\* ... waits for those another transaction has updated, and updates the ones
\* that still match.
Mark(p, from, to) ==
    /\ At(p, from)
    /\ \A q \in Others(p) : targets[p] \cap marked[q] = {}
    /\ marked' = [marked EXCEPT ![p] = {t \in targets[p] : status[t] = "live"}]
    /\ Goto(p, to)
    /\ UNCHANGED <<rows, expired, accounts, famLock, keyShare, forUpdate, targets, faults, dead>>

-----------------------------------------------------------------------------
(* Refresh *)

\* ByHash, then the checks of Refresh: a revoked token kills its family.
\* Not found and expired end the request with no effect.
Refresh(p, t) ==
    /\ At(p, "idle")
    /\ Committed(t)
    /\ status[t] = "revoked" \/ (t \notin expired /\ Room)
    /\ proc' = [proc EXCEPT ![p].tok = t,
                            ![p].pc = IF status[t] = "revoked" THEN "revokeLock" ELSE "rotateLock"]
    /\ UNCHANGED <<rows, expired, accounts, tx, faults, dead>>

RotateLock(p) == LockFamily(p, "rotateLock", "rotateInsert")

RotateInsert(p) ==
    /\ At(p, "rotateInsert")
    /\ \E n \in Tokens : Insert(p, n, family[proc[p].tok], owner[proc[p].tok], "rotateUpdate")

\* Faulty variant of RotateUpdate: WHERE id = $1 alone.
RotateUpdateById(p) ==
    /\ At(p, "rotateUpdate")
    /\ \A q \in Others(p) : proc[p].tok \notin marked[q]
    /\ marked' = [marked EXCEPT ![p] = {proc[p].tok}]
    /\ Goto(p, "rotateCommit")
    /\ UNCHANGED <<rows, famLock, keyShare, forUpdate, targets, expired, accounts, faults, dead>>

\* UPDATE of the presented row.  If it was revoked meanwhile nothing matches:
\* the successor is rolled back and the whole family revoked.
RotateUpdate(p) ==
    /\ At(p, "rotateUpdate")
    /\ \A q \in Others(p) : proc[p].tok \notin marked[q]
    /\ IF status[proc[p].tok] = "live"
       THEN /\ marked' = [marked EXCEPT ![p] = {proc[p].tok}]
            /\ Goto(p, "rotateCommit")
            /\ UNCHANGED <<status, famLock, keyShare, forUpdate, targets>>
       ELSE /\ status' = WithoutPending(p)
            /\ proc' = [proc EXCEPT ![p].pc = "revokeLock", ![p].next = NoToken]
            /\ EndTx(p)
    /\ UNCHANGED <<family, owner, replacedBy, expired, accounts, faults, dead>>

RotateCommit(p) ==
    /\ At(p, "rotateCommit")
    /\ status' = WithCommitted(p)
    /\ replacedBy' = [replacedBy EXCEPT ![proc[p].tok] = proc[p].next]
    /\ proc' = [proc EXCEPT ![p] = Idle]
    /\ EndTx(p)
    /\ UNCHANGED <<family, owner, expired, accounts, faults, dead>>

-----------------------------------------------------------------------------
(* Logout, and RevokeFamily, which Refresh calls too *)

Logout(p, t) ==
    /\ At(p, "idle")
    /\ Committed(t)
    /\ proc' = [proc EXCEPT ![p].tok = t, ![p].pc = "revokeLock"]
    /\ UNCHANGED <<rows, expired, accounts, tx, faults, dead>>

\* Faulty variant of RevokeLock: the lock is missing.
RevokeNoLock(p) ==
    /\ At(p, "revokeLock")
    /\ Goto(p, "revokeScan")
    /\ UNCHANGED <<rows, expired, accounts, tx, faults, dead>>

\* Faulty variant of RevokeLock: gives up when a rotation holds the lock.
RevokeTryLock(p) ==
    /\ At(p, "revokeLock")
    /\ IF \E q \in Others(p) : family[proc[p].tok] \in famLock[q]
       THEN proc' = [proc EXCEPT ![p] = Idle] /\ UNCHANGED famLock
       ELSE /\ famLock' = [famLock EXCEPT ![p] = {family[proc[p].tok]}]
            /\ Goto(p, "revokeScan")
    /\ UNCHANGED <<rows, expired, accounts, keyShare, forUpdate, targets, marked, faults, dead>>

RevokeLock(p) == LockFamily(p, "revokeLock", "revokeScan")

RevokeScan(p) ==
    Scan(p, "revokeScan", {t \in Tokens : family[t] = family[proc[p].tok]}, "revokeMark")

RevokeMark(p) == Mark(p, "revokeMark", "revokeCommit")

RevokeCommit(p) ==
    /\ At(p, "revokeCommit")
    /\ status' = WithCommitted(p)
    /\ dead' = dead \cup {family[proc[p].tok]}
    /\ proc' = [proc EXCEPT ![p] = Idle]
    /\ EndTx(p)
    /\ UNCHANGED <<family, owner, replacedBy, expired, accounts, faults>>

-----------------------------------------------------------------------------
(* startSession: one INSERT in a transaction of its own *)

StartSession(p, u) ==
    /\ At(p, "idle")
    /\ Room
    /\ proc' = [proc EXCEPT ![p].pc = "startInsert", ![p].user = u]
    /\ UNCHANGED <<rows, expired, accounts, tx, faults, dead>>

\* Faulty variant of StartInsert: no family id is drawn.
StartInsertNoFamily(p) ==
    /\ At(p, "startInsert")
    /\ \E n \in Tokens : Insert(p, n, proc[p].tok, proc[p].user, "startCommit")

StartInsert(p) ==
    /\ At(p, "startInsert")
    /\ \E n \in Tokens : Insert(p, n, n, proc[p].user, "startCommit")

StartCommit(p) ==
    /\ At(p, "startCommit")
    /\ status' = WithCommitted(p)
    /\ proc' = [proc EXCEPT ![p] = Idle]
    /\ EndTx(p)
    /\ UNCHANGED <<family, owner, replacedBy, expired, accounts, faults, dead>>

-----------------------------------------------------------------------------
(* attachGoogle: links a password account that has no Google account yet *)

Link(p, u, s) ==
    /\ At(p, "idle")
    /\ sub[u] = NoSub
    /\ proc' = [proc EXCEPT ![p].pc = "linkLock", ![p].user = u, ![p].sub = s]
    /\ UNCHANGED <<rows, expired, accounts, tx, faults, dead>>

\* Faulty variant of LinkLock: SELECT without FOR UPDATE.
LinkNoLock(p) ==
    /\ At(p, "linkLock")
    /\ Goto(p, "linkUpdate")
    /\ UNCHANGED <<rows, expired, accounts, tx, faults, dead>>

\* SELECT ... FOR UPDATE
LinkLock(p) ==
    /\ At(p, "linkLock")
    /\ \A q \in Others(p) : proc[p].user \notin keyShare[q] \cup forUpdate[q]
    /\ forUpdate' = [forUpdate EXCEPT ![p] = {proc[p].user}]
    /\ Goto(p, "linkUpdate")
    /\ UNCHANGED <<rows, expired, accounts, famLock, keyShare, targets, marked, faults, dead>>

\* UPDATE users waits for a transaction that is about to give the subject to
\* another account.  An account linked to another subject meanwhile, or a
\* subject another account has (ErrGoogleSubTaken), ends the request; a
\* verified account keeps its sessions.
LinkUpdate(p) ==
    /\ At(p, "linkUpdate")
    /\ \A q \in Others(p) :
          proc[q].pc \in {"linkScan", "linkMark", "linkCommit"} => proc[q].sub # proc[p].sub
    /\ IF /\ sub[proc[p].user] \in {NoSub, proc[p].sub}
          /\ \A v \in Users \ {proc[p].user} : sub[v] # proc[p].sub
       THEN /\ Goto(p, IF verified[proc[p].user] THEN "linkCommit" ELSE "linkScan")
            /\ UNCHANGED tx
       ELSE /\ proc' = [proc EXCEPT ![p] = Idle]
            /\ EndTx(p)
    /\ UNCHANGED <<rows, expired, accounts, faults, dead>>

LinkScan(p) ==
    Scan(p, "linkScan", {t \in Tokens : owner[t] = proc[p].user}, "linkMark")

LinkMark(p) == Mark(p, "linkMark", "linkCommit")

LinkCommit(p) ==
    /\ At(p, "linkCommit")
    /\ status' = WithCommitted(p)
    /\ sub' = [sub EXCEPT ![proc[p].user] = proc[p].sub]
    /\ verified' = [verified EXCEPT ![proc[p].user] = TRUE]
    /\ dead' = IF verified[proc[p].user] THEN dead
               ELSE dead \cup {family[t] : t \in {x \in Tokens : Committed(x) /\ owner[x] = proc[p].user}}
    /\ proc' = [proc EXCEPT ![p] = Idle]
    /\ EndTx(p)
    /\ UNCHANGED <<family, owner, replacedBy, expired, faults>>

-----------------------------------------------------------------------------

Expire(t) ==
    /\ Committed(t)
    /\ t \notin expired
    /\ expired' = expired \cup {t}
    /\ UNCHANGED <<rows, accounts, proc, tx, faults, dead>>

\* A statement fails, the client goes away or the process dies: the open
\* transaction is rolled back and the request ends.  (A COMMIT whose answer is
\* lost leaves the state the commit actions leave.)
Fail(p) ==
    /\ ~ At(p, "idle")
    /\ faults < MaxFaults
    /\ faults' = faults + 1
    /\ status' = WithoutPending(p)
    /\ proc' = [proc EXCEPT ![p] = Idle]
    /\ EndTx(p)
    /\ UNCHANGED <<family, owner, replacedBy, expired, accounts, dead>>

LockStep(p) == RotateLock(p) \/ RevokeLock(p) \/ LinkLock(p)

WriteStep(p) ==
    \/ RotateInsert(p) \/ RotateUpdate(p) \/ RotateCommit(p)
    \/ RevokeScan(p) \/ RevokeMark(p) \/ RevokeCommit(p)
    \/ StartInsert(p) \/ StartCommit(p)
    \/ LinkUpdate(p) \/ LinkScan(p) \/ LinkMark(p) \/ LinkCommit(p)

Arrive(p) ==
    \/ \E t \in Tokens : Refresh(p, t) \/ Logout(p, t)
    \/ \E u \in Users : StartSession(p, u)
    \/ \E u \in Users, s \in Subs : Link(p, u, s)

Next ==
    \/ \E p \in Procs : Arrive(p) \/ LockStep(p) \/ WriteStep(p) \/ Fail(p)
    \/ \E t \in Tokens : Expire(t)

Spec == Init /\ [][Next]_vars

\* A request that can go on does, and Postgres serves lock waiters in order.
FairSpec == Spec /\ \A p \in Procs : SF_vars(LockStep(p) \/ WriteStep(p))

-----------------------------------------------------------------------------
(* Properties *)

\* Type invariant: tables, locks and requests hold what the schema and the
\* handlers can put there.
TypeOK ==
    /\ status \in [Tokens -> {"free", "pending", "live", "revoked"}]
    /\ family \in [Tokens -> Tokens]
    /\ owner \in [Tokens -> Users \cup {NoUser}]
    /\ replacedBy \in [Tokens -> Tokens \cup {NoToken}]
    /\ expired \subseteq Tokens
    /\ verified \in [Users -> BOOLEAN]
    /\ sub \in [Users -> Subs \cup {NoSub}]
    /\ proc \in [Procs -> [pc : Phase, tok : Tokens \cup {NoToken}, next : Tokens \cup {NoToken},
                           user : Users \cup {NoUser}, sub : Subs \cup {NoSub}]]
    /\ famLock \in [Procs -> SUBSET Tokens]
    /\ keyShare \in [Procs -> SUBSET Users]
    /\ forUpdate \in [Procs -> SUBSET Users]
    /\ targets \in [Procs -> SUBSET Tokens]
    /\ marked \in [Procs -> SUBSET Tokens]
    /\ faults \in 0 .. MaxFaults
    /\ dead \subseteq Tokens

LiveIn(f) == {t \in Tokens : status[t] = "live" /\ family[t] = f}

\* A session has at most one token that can be exchanged, however many
\* requests present its tokens at once (Rotate).
OneLivePerFamily == \A s, t \in Tokens :
    status[s] = "live" /\ status[t] = "live" /\ family[s] = family[t] => s = t

\* A revoked family never gets a live token again: no rotation that was under
\* way slips its successor past a logout, a reuse or an account link
\* (lockFamily, and FOR UPDATE in AttachGoogle).
DeadStaysDead == \A f \in dead : LiveIn(f) = {}

\* Every request ends: the locks of rotation, revocation and linking are
\* never waited for in a circle.
RequestsEnd == \A p \in Procs : ~ At(p, "idle") ~> At(p, "idle")

\* A request that set out to revoke a family gets it revoked (if no statement
\* fails): "Presenting a token that was already used revokes the entire
\* family" holds even when a rotation holds the family's lock.
ReuseRevokes == \A f \in Tokens :
    (\E p \in Procs : At(p, "revokeLock") /\ family[proc[p].tok] = f) ~> f \in dead

Promise == INSTANCE TokenFamilies WITH
    live <- {t \in Tokens : status[t] = "live"},
    used <- {t \in Tokens : status[t] = "revoked"},
    family <- [t \in Tokens |-> IF Committed(t) THEN family[t] ELSE t],
    dead <- dead

\* The handlers and their transactions implement TokenFamilies.
ImplementsFamilies == Promise!Spec
=============================================================================
