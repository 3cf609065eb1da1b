------------------------ MODULE SessionTokensProofs ------------------------
(***************************************************************************)
(* Proofs about SessionTokens, for any number of requests, tokens, users,  *)
(* Google accounts and faults.                                             *)
(***************************************************************************)
EXTENDS SessionTokens, TLAPS

\* The local state of a request.
Proc == [pc : Phase, tok : Tokens \cup {NoToken}, next : Tokens \cup {NoToken},
         user : Users \cup {NoUser}, sub : Subs \cup {NoSub}]

-----------------------------------------------------------------------------
(* What the building blocks of the actions change *)

\* A request that moves on keeps what it carries; the others are where they were.
LEMMA GotoFacts ==
    ASSUME TypeOK, NEW p \in Procs, NEW phase \in Phase, Goto(p, phase)
    PROVE  /\ proc' \in [Procs -> Proc]
           /\ proc'[p].pc = phase /\ proc'[p].tok = proc[p].tok
           /\ proc'[p].next = proc[p].next /\ proc'[p].user = proc[p].user
           /\ proc'[p].sub = proc[p].sub
           /\ \A q \in Procs : q # p => proc'[q] = proc[q]
BY ZenonT(60) DEF TypeOK, Goto, Proc

\* Ending a transaction empties its locks and leaves the others'.
LEMMA EndTxFacts ==
    ASSUME TypeOK, NEW p \in Procs, EndTx(p)
    PROVE  /\ famLock' \in [Procs -> SUBSET Tokens] /\ keyShare' \in [Procs -> SUBSET Users]
           /\ forUpdate' \in [Procs -> SUBSET Users] /\ targets' \in [Procs -> SUBSET Tokens]
           /\ marked' \in [Procs -> SUBSET Tokens]
           /\ famLock'[p] = {} /\ keyShare'[p] = {} /\ forUpdate'[p] = {}
           /\ targets'[p] = {} /\ marked'[p] = {}
           /\ \A q \in Procs : q # p =>
                /\ famLock'[q] = famLock[q] /\ keyShare'[q] = keyShare[q]
                /\ forUpdate'[q] = forUpdate[q] /\ targets'[q] = targets[q]
                /\ marked'[q] = marked[q]
BY DEF TypeOK, EndTx

\* A request that ends is idle, the others are where they were.
LEMMA IdleFacts ==
    ASSUME TypeOK, NEW p \in Procs, proc' = [proc EXCEPT ![p] = Idle]
    PROVE  /\ proc' \in [Procs -> Proc]
           /\ proc'[p] = Idle /\ Idle.pc = "idle" /\ Idle.next = NoToken
           /\ \A q \in Procs : q # p => proc'[q] = proc[q]
BY DEF TypeOK, Idle, Proc, Phase

\* Committing or undoing a transaction leaves a table of rows.
LEMMA RowsType ==
    ASSUME TypeOK, NEW p \in Procs
    PROVE  /\ WithoutPending(p) \in [Tokens -> {"free", "pending", "live", "revoked"}]
           /\ WithCommitted(p) \in [Tokens -> {"free", "pending", "live", "revoked"}]
BY DEF TypeOK, WithoutPending, WithCommitted

-----------------------------------------------------------------------------
(***************************************************************************)
(* The inductive invariant.  Each conjunct says what a request knows at a  *)
(* point of its transaction, because of the locks it holds there.          *)
(***************************************************************************)

\* The phases in which a request has been presented a token.
HasTok == {"rotateLock", "rotateInsert", "rotateUpdate", "rotateCommit",
           "revokeLock", "revokeScan", "revokeMark", "revokeCommit"}
\* The phases in which a request holds the advisory lock of its family.
HasFamLock == {"rotateInsert", "rotateUpdate", "rotateCommit",
               "revokeScan", "revokeMark", "revokeCommit"}
\* The phases in which a request has inserted a token.
HasNext == {"rotateUpdate", "rotateCommit", "startCommit"}
\* The phases in which a request works for a user.
HasUser == {"startInsert", "startCommit", "linkLock", "linkUpdate", "linkScan", "linkMark", "linkCommit"}
\* The phases in which a link holds its users row FOR UPDATE.
HasUserLock == {"linkUpdate", "linkScan", "linkMark", "linkCommit"}
\* The phases in which an UPDATE has changed its rows and holds them.
HasMarks == {"rotateCommit", "revokeCommit", "linkCommit"}

\* The tokens p works on: the presented one is committed, the new one is not
\* and already has its family and owner.
TokensKnown(p) ==
    /\ proc[p].pc \in HasTok => proc[p].tok \in Tokens /\ Committed(proc[p].tok)
    /\ proc[p].pc \in HasNext => proc[p].next \in Tokens /\ status[proc[p].next] = "pending"
    /\ proc[p].pc \notin HasNext => proc[p].next = NoToken
    /\ proc[p].pc \in HasUser => proc[p].user \in Users
    /\ proc[p].pc \in {"rotateUpdate", "rotateCommit"} =>
          family[proc[p].next] = family[proc[p].tok] /\ owner[proc[p].next] = owner[proc[p].tok]
    /\ proc[p].pc = "startCommit" => family[proc[p].next] = proc[p].next

\* The locks p holds at each point of its transaction.
LocksHeld(p) ==
    /\ proc[p].pc \in HasFamLock => family[proc[p].tok] \in famLock[p]
    /\ proc[p].pc \in HasNext => owner[proc[p].next] \in keyShare[p]
    /\ proc[p].pc \in HasUserLock => proc[p].user \in forUpdate[p]

\* What p's UPDATE selected and wrote: no live row that it is about is missed.
MarksRight(p) ==
    /\ proc[p].pc = "rotateCommit" =>
          status[proc[p].tok] = "live" /\ \A t \in Tokens : t \in marked[p] <=> t = proc[p].tok
    /\ proc[p].pc = "revokeMark" =>
          \A t \in Tokens : /\ status[t] = "live" /\ family[t] = family[proc[p].tok] => t \in targets[p]
                            /\ t \in targets[p] => Committed(t) /\ family[t] = family[proc[p].tok]
    /\ proc[p].pc = "revokeCommit" =>
          \A t \in Tokens : t \in marked[p] <=> status[t] = "live" /\ family[t] = family[proc[p].tok]
    /\ proc[p].pc = "linkMark" =>
          \A t \in Tokens : /\ status[t] = "live" /\ owner[t] = proc[p].user => t \in targets[p]
                            /\ t \in targets[p] => Committed(t) /\ owner[t] = proc[p].user
    /\ proc[p].pc = "linkCommit" =>
          \A t \in Tokens : t \in marked[p] <=> /\ verified[proc[p].user] = FALSE
                                               /\ status[t] = "live" /\ owner[t] = proc[p].user
    /\ proc[p].pc \in {"linkScan", "linkMark"} => verified[proc[p].user] = FALSE
    /\ proc[p].pc \notin HasMarks => \A t \in Tokens : t \notin marked[p]

\* Uncommitted rows belong to one transaction, and locks exclude each other.
Apart(p, q) ==
    /\ proc[p].next \in Tokens => proc[p].next # proc[q].next
    /\ \A f \in Tokens : ~ (f \in famLock[p] /\ f \in famLock[q])
    /\ \A u \in Users : ~ (u \in forUpdate[p] /\ u \in forUpdate[q])
    /\ \A u \in Users : ~ (u \in forUpdate[p] /\ u \in keyShare[q])
    /\ \A t \in Tokens : ~ (t \in marked[p] /\ t \in marked[q])

\* A family starts with its head and belongs to the head's user.
Headed(t) ==
    status[t] # "free" =>
        /\ owner[t] \in Users
        /\ owner[t] = owner[family[t]]
        /\ family[t] # t => Committed(family[t])
        /\ family[family[t]] = family[t]

\* Only committed families are revoked.
DeadCommitted == \A f \in dead : Committed(f)

\* The inductive invariant of the session store.
TokenInv ==
    /\ TypeOK
    /\ \A p \in Procs : TokensKnown(p) /\ LocksHeld(p) /\ MarksRight(p)
    /\ \A p, q \in Procs : p # q => Apart(p, q)
    /\ \A t \in Tokens : Headed(t)
    /\ DeadCommitted /\ OneLivePerFamily /\ DeadStaysDead

\* A request moves within one transaction, takes no lock and writes no row.
LEMMA MoveStep ==
    ASSUME TokenInv,
           NEW p \in Procs,
           proc' \in [Procs -> Proc],
           \A q \in Procs : q # p => proc'[q] = proc[q],
           UNCHANGED <<rows, accounts, tx, faults, dead>>,
           expired' \subseteq Tokens,
           \/ /\ At(p, "idle")
              /\ proc'[p].next = NoToken
              /\ \/ /\ proc'[p].pc \in {"rotateLock", "revokeLock"}
                    /\ proc'[p].tok \in Tokens /\ Committed(proc'[p].tok)
                 \/ proc'[p].pc \in {"startInsert", "linkLock"} /\ proc'[p].user \in Users
           \/ /\ At(p, "linkUpdate")
              /\ \/ proc'[p].pc = "linkCommit" /\ verified[proc[p].user] = TRUE
                 \/ proc'[p].pc = "linkScan" /\ verified[proc[p].user] = FALSE
              /\ proc'[p].user = proc[p].user /\ proc'[p].next = proc[p].next
              /\ proc'[p].tok = proc[p].tok
           \/ proc'[p] = proc[p]
    PROVE  TokenInv'
<1> USE NoneAssumption DEF HasTok, HasFamLock, HasNext, HasUser, HasUserLock, HasMarks
<1>i. /\ TypeOK /\ DeadCommitted /\ OneLivePerFamily /\ DeadStaysDead
      /\ TokensKnown(p) /\ LocksHeld(p) /\ MarksRight(p)
    BY DEF TokenInv
<1>f. /\ UNCHANGED <<status, family, owner, replacedBy, verified, sub, famLock, keyShare,
                     forUpdate, targets, marked, faults, dead>>
      /\ proc' \in [Procs -> Proc] /\ \A q \in Procs : q # p => proc'[q] = proc[q]
      /\ expired' \subseteq Tokens
    BY DEF rows, accounts, tx
<1>0. TypeOK'
    BY <1>i, <1>f DEF TypeOK, Proc
<1>1. TokensKnown(p)' /\ LocksHeld(p)' /\ MarksRight(p)'
    <2>1. CASE proc'[p] = proc[p]
        BY <1>i, <1>f, <2>1 DEF TokensKnown, LocksHeld, MarksRight, Committed
    <2>2. CASE proc[p].pc = "idle" /\ proc'[p] # proc[p]
        BY <1>i, <1>f, <2>2 DEF At, TokensKnown, LocksHeld, MarksRight, Committed
    <2>3. CASE proc[p].pc = "linkUpdate" /\ proc'[p] # proc[p]
        BY <1>i, <1>f, <2>3 DEF At, TokensKnown, LocksHeld, MarksRight, Committed
    <2> QED BY <2>1, <2>2, <2>3 DEF At
<1>2. ASSUME NEW q \in Procs, q # p PROVE TokensKnown(q)' /\ LocksHeld(q)' /\ MarksRight(q)'
    <2>i. TokensKnown(q) /\ LocksHeld(q) /\ MarksRight(q) /\ Apart(p, q) /\ Apart(q, p)
        BY <1>2 DEF TokenInv
    <2>p. proc'[q] = proc[q]
        BY <1>f, <1>2
    <2>e. /\ famLock'[q] = famLock[q] /\ keyShare'[q] = keyShare[q]
          /\ forUpdate'[q] = forUpdate[q] /\ targets'[q] = targets[q]
          /\ marked'[q] = marked[q]
        BY <1>f, <1>2
    <2>r. UNCHANGED <<status, family, owner, verified>>
        BY <1>f
    <2>1. TokensKnown(q)'
        BY <2>r, <2>i, <2>p DEF TokensKnown, Committed
    <2>2. LocksHeld(q)'
        BY <2>r, <2>i, <2>p, <2>e DEF LocksHeld
    <2>3. MarksRight(q)'
        BY <2>r, <2>i, <2>p, <2>e DEF MarksRight, Committed
    <2> QED BY <2>1, <2>2, <2>3
<1>3. ASSUME NEW q \in Procs, NEW r \in Procs, q # r PROVE Apart(q, r)'
    <2>i. Apart(q, r) /\ Apart(r, q) /\ TokensKnown(q) /\ TokensKnown(r)
        BY <1>3 DEF TokenInv
    <2>1. proc'[q].next = proc[q].next /\ proc'[r].next = proc[r].next
        BY <1>f, <1>i, <1>3 DEF TokenInv, TokensKnown, At
    <2> QED BY <1>f, <2>i, <2>1 DEF Apart
<1>4. ASSUME NEW t \in Tokens PROVE Headed(t)'
    BY <1>4, <1>f DEF TokenInv, Headed, Committed
<1>5. DeadCommitted'
    BY <1>i, <1>f DEF DeadCommitted, Committed
<1>6. OneLivePerFamily'
    BY <1>i, <1>f DEF OneLivePerFamily
<1>7. DeadStaysDead'
    BY <1>i, <1>f DEF DeadStaysDead, LiveIn
<1> QED BY <1>0, <1>1, <1>2, <1>3, <1>4, <1>5, <1>6, <1>7 DEF TokenInv

\* lockFamily is granted: no other transaction has the family.
LEMMA LockFamilyStep ==
    ASSUME TokenInv,
           NEW p \in Procs,
           NEW to \in {"rotateInsert", "revokeScan"},
           LockFamily(p, IF to = "rotateInsert" THEN "rotateLock" ELSE "revokeLock", to)
    PROVE  TokenInv'
<1> USE NoneAssumption DEF HasTok, HasFamLock, HasNext, HasUser, HasUserLock, HasMarks
<1>i. /\ TypeOK /\ DeadCommitted /\ OneLivePerFamily /\ DeadStaysDead
      /\ TokensKnown(p) /\ LocksHeld(p) /\ MarksRight(p)
    BY DEF TokenInv
<1>g. /\ proc[p].pc \in {"rotateLock", "revokeLock"} /\ to \in Phase /\ Goto(p, to)
    BY DEF LockFamily, At, Phase
<1>h. proc[p].tok \in Tokens /\ family[proc[p].tok] \in Tokens
    BY <1>i, <1>g DEF TokensKnown, TypeOK
<1>f. /\ UNCHANGED <<status, family, owner, replacedBy, verified, sub, keyShare,
                     forUpdate, targets, marked, faults, dead, expired>>
      /\ proc' \in [Procs -> Proc] /\ \A q \in Procs : q # p => proc'[q] = proc[q]
      /\ proc'[p].pc = to /\ proc'[p].tok = proc[p].tok /\ proc'[p].next = proc[p].next
      /\ famLock' \in [Procs -> SUBSET Tokens]
      /\ famLock'[p] = {family[proc[p].tok]} /\ \A q \in Procs : q # p => famLock'[q] = famLock[q]
      /\ \A q \in Procs : q # p => family[proc[p].tok] \notin famLock[q]
    BY <1>i, <1>g, <1>h, GotoFacts DEF LockFamily, TypeOK, rows, accounts, Others
<1>0. TypeOK'
    BY <1>i, <1>f DEF TypeOK, Proc
<1>1. TokensKnown(p)' /\ LocksHeld(p)' /\ MarksRight(p)'
    <2>1. TokensKnown(p)' /\ LocksHeld(p)'
        BY <1>i, <1>f, <1>g, <1>h DEF TokensKnown, LocksHeld, Committed
    <2>2. MarksRight(p)'
        BY <1>i, <1>f, <1>g DEF MarksRight
    <2> QED BY <2>1, <2>2
<1>2. ASSUME NEW q \in Procs, q # p PROVE TokensKnown(q)' /\ LocksHeld(q)' /\ MarksRight(q)'
    <2>i. TokensKnown(q) /\ LocksHeld(q) /\ MarksRight(q) /\ Apart(p, q) /\ Apart(q, p)
        BY <1>2 DEF TokenInv
    <2>p. proc'[q] = proc[q]
        BY <1>f, <1>2
    <2>e. /\ famLock'[q] = famLock[q] /\ keyShare'[q] = keyShare[q]
          /\ forUpdate'[q] = forUpdate[q] /\ targets'[q] = targets[q]
          /\ marked'[q] = marked[q]
        BY <1>f, <1>2
    <2>r. UNCHANGED <<status, family, owner, verified>>
        BY <1>f
    <2>1. TokensKnown(q)'
        BY <2>r, <2>i, <2>p DEF TokensKnown, Committed
    <2>2. LocksHeld(q)'
        BY <2>r, <2>i, <2>p, <2>e DEF LocksHeld
    <2>3. MarksRight(q)'
        BY <2>r, <2>i, <2>p, <2>e DEF MarksRight, Committed
    <2> QED BY <2>1, <2>2, <2>3
<1>3. ASSUME NEW q \in Procs, NEW r \in Procs, q # r PROVE Apart(q, r)'
    <2>i. Apart(q, r) /\ Apart(r, q) /\ TokensKnown(q) /\ TokensKnown(r)
        BY <1>3 DEF TokenInv
    <2>1. proc'[q].next = proc[q].next /\ proc'[r].next = proc[r].next
        BY <1>f, <1>3
    <2> QED BY <1>f, <1>3, <2>i, <2>1 DEF Apart
<1>4. ASSUME NEW t \in Tokens PROVE Headed(t)'
    BY <1>4, <1>f DEF TokenInv, Headed, Committed
<1>5. DeadCommitted'
    BY <1>i, <1>f DEF DeadCommitted, Committed
<1>6. OneLivePerFamily'
    BY <1>i, <1>f DEF OneLivePerFamily
<1>7. DeadStaysDead'
    BY <1>i, <1>f DEF DeadStaysDead, LiveIn
<1> QED BY <1>0, <1>1, <1>2, <1>3, <1>4, <1>5, <1>6, <1>7 DEF TokenInv

\* SELECT ... FOR UPDATE is granted: no other transaction has the users row.
LEMMA LinkLockStep ==
    ASSUME TokenInv,
           NEW p \in Procs,
           LinkLock(p)
    PROVE  TokenInv'
<1> USE NoneAssumption DEF HasTok, HasFamLock, HasNext, HasUser, HasUserLock, HasMarks
<1>i. /\ TypeOK /\ DeadCommitted /\ OneLivePerFamily /\ DeadStaysDead
      /\ TokensKnown(p) /\ LocksHeld(p) /\ MarksRight(p)
    BY DEF TokenInv
<1>g. proc[p].pc = "linkLock" /\ "linkUpdate" \in Phase /\ Goto(p, "linkUpdate")
    BY DEF LinkLock, At, Phase
<1>h. proc[p].user \in Users
    BY <1>i, <1>g DEF TokensKnown
<1>f. /\ UNCHANGED <<status, family, owner, replacedBy, verified, sub, famLock, keyShare,
                     targets, marked, faults, dead, expired>>
      /\ proc' \in [Procs -> Proc] /\ \A q \in Procs : q # p => proc'[q] = proc[q]
      /\ proc'[p].pc = "linkUpdate" /\ proc'[p].next = proc[p].next /\ proc'[p].user = proc[p].user
      /\ forUpdate' \in [Procs -> SUBSET Users]
      /\ forUpdate'[p] = {proc[p].user} /\ \A q \in Procs : q # p => forUpdate'[q] = forUpdate[q]
      /\ \A q \in Procs : q # p => proc[p].user \notin keyShare[q] /\ proc[p].user \notin forUpdate[q]
    BY <1>i, <1>g, <1>h, GotoFacts DEF LinkLock, TypeOK, rows, accounts, Others
<1>0. TypeOK'
    BY <1>i, <1>f DEF TypeOK, Proc
<1>1. TokensKnown(p)' /\ LocksHeld(p)' /\ MarksRight(p)'
    BY <1>i, <1>f, <1>g, <1>h DEF TokensKnown, LocksHeld, MarksRight
<1>2. ASSUME NEW q \in Procs, q # p PROVE TokensKnown(q)' /\ LocksHeld(q)' /\ MarksRight(q)'
    <2>i. TokensKnown(q) /\ LocksHeld(q) /\ MarksRight(q) /\ Apart(p, q) /\ Apart(q, p)
        BY <1>2 DEF TokenInv
    <2>p. proc'[q] = proc[q]
        BY <1>f, <1>2
    <2>e. /\ famLock'[q] = famLock[q] /\ keyShare'[q] = keyShare[q]
          /\ forUpdate'[q] = forUpdate[q] /\ targets'[q] = targets[q]
          /\ marked'[q] = marked[q]
        BY <1>f, <1>2
    <2>r. UNCHANGED <<status, family, owner, verified>>
        BY <1>f
    <2>1. TokensKnown(q)'
        BY <2>r, <2>i, <2>p DEF TokensKnown, Committed
    <2>2. LocksHeld(q)'
        BY <2>r, <2>i, <2>p, <2>e DEF LocksHeld
    <2>3. MarksRight(q)'
        BY <2>r, <2>i, <2>p, <2>e DEF MarksRight, Committed
    <2> QED BY <2>1, <2>2, <2>3
<1>3. ASSUME NEW q \in Procs, NEW r \in Procs, q # r PROVE Apart(q, r)'
    <2>i. Apart(q, r) /\ Apart(r, q) /\ TokensKnown(q) /\ TokensKnown(r)
        BY <1>3 DEF TokenInv
    <2>1. proc'[q].next = proc[q].next /\ proc'[r].next = proc[r].next
        BY <1>f, <1>3
    <2> QED BY <1>f, <1>3, <2>i, <2>1 DEF Apart
<1>4. ASSUME NEW t \in Tokens PROVE Headed(t)'
    BY <1>4, <1>f DEF TokenInv, Headed, Committed
<1>5. DeadCommitted'
    BY <1>i, <1>f DEF DeadCommitted, Committed
<1>6. OneLivePerFamily'
    BY <1>i, <1>f DEF OneLivePerFamily
<1>7. DeadStaysDead'
    BY <1>i, <1>f DEF DeadStaysDead, LiveIn
<1> QED BY <1>0, <1>1, <1>2, <1>3, <1>4, <1>5, <1>6, <1>7 DEF TokenInv

\* A row is inserted, uncommitted, in the family and for the user the request knows.
LEMMA InsertStep ==
    ASSUME TokenInv,
           NEW p \in Procs,
           NEW n \in Tokens,
           NEW f \in Tokens,
           NEW u \in Users,
           NEW to \in {"rotateUpdate", "startCommit"},
           Insert(p, n, f, u, to),
           \/ /\ to = "rotateUpdate" /\ At(p, "rotateInsert")
              /\ f = family[proc[p].tok] /\ u = owner[proc[p].tok]
           \/ to = "startCommit" /\ At(p, "startInsert") /\ f = n /\ u = proc[p].user
    PROVE  TokenInv'
<1> USE NoneAssumption DEF HasTok, HasFamLock, HasNext, HasUser, HasUserLock, HasMarks
<1>i. /\ TypeOK /\ DeadCommitted /\ OneLivePerFamily /\ DeadStaysDead
      /\ TokensKnown(p) /\ LocksHeld(p) /\ MarksRight(p)
    BY DEF TokenInv
<1>g. proc[p].pc \in {"rotateInsert", "startInsert"} /\ to \in Phase /\ status[n] = "free"
    BY DEF Insert, At, Phase
<1>f. /\ UNCHANGED <<verified, sub, famLock, forUpdate, targets, marked, faults, dead, expired>>
      /\ status' \in [Tokens -> {"free", "pending", "live", "revoked"}]
      /\ family' \in [Tokens -> Tokens] /\ owner' \in [Tokens -> Users \cup {NoUser}]
      /\ replacedBy' \in [Tokens -> Tokens \cup {NoToken}]
      /\ status'[n] = "pending" /\ family'[n] = f /\ owner'[n] = u
      /\ \A t \in Tokens : t # n => status'[t] = status[t] /\ family'[t] = family[t] /\ owner'[t] = owner[t]
      /\ proc' \in [Procs -> Proc] /\ \A q \in Procs : q # p => proc'[q] = proc[q]
      /\ proc'[p].pc = to /\ proc'[p].tok = proc[p].tok /\ proc'[p].next = n
      /\ proc'[p].user = proc[p].user
      /\ keyShare' \in [Procs -> SUBSET Users]
      /\ keyShare'[p] = {u} /\ \A q \in Procs : q # p => keyShare'[q] = keyShare[q]
      /\ \A q \in Procs : q # p => u \notin forUpdate[q]
    <2>1. /\ proc' \in [Procs -> Proc] /\ \A q \in Procs : q # p => proc'[q] = proc[q]
          /\ proc'[p].pc = to /\ proc'[p].tok = proc[p].tok /\ proc'[p].next = n
          /\ proc'[p].user = proc[p].user
        <3>1. proc \in [Procs -> Proc] /\ proc' = [proc EXCEPT ![p].pc = to, ![p].next = n]
            BY <1>i DEF Insert, TypeOK, Proc
        <3>2. proc'[p] = [proc[p] EXCEPT !.pc = to, !.next = n]
            BY <3>1
        <3>3. proc'[p] \in Proc
            BY <1>g, <3>1, <3>2 DEF Proc
        <3>4. /\ proc'[p].pc = to /\ proc'[p].tok = proc[p].tok /\ proc'[p].next = n
              /\ proc'[p].user = proc[p].user
            BY <3>1, <3>2 DEF Proc
        <3>5. \A q \in Procs : q # p => proc'[q] = proc[q]
            BY <3>1
        <3>6. proc' \in [Procs -> Proc]
            BY <3>1, <3>3
        <3> QED BY <3>3, <3>4, <3>5, <3>6
    <2> QED BY <1>i, <2>1 DEF Insert, TypeOK, accounts, Others
<1>k. \A t \in Tokens : Committed(t) => t # n /\ family[t] # n
    BY <1>g DEF TokenInv, Headed, Committed
<1>t. \A q \in Procs : proc[q].pc \in HasTok =>
          proc[q].tok \in Tokens /\ Committed(proc[q].tok) /\ proc[q].tok # n
    BY <1>k DEF TokenInv, TokensKnown
<1>0. TypeOK'
    BY <1>i, <1>f DEF TypeOK, Proc
<1>1. TokensKnown(p)' /\ LocksHeld(p)' /\ MarksRight(p)'
    <2>1. TokensKnown(p)'
        BY <1>i, <1>f, <1>g, <1>t DEF At, TokensKnown, Committed
    <2>2. LocksHeld(p)'
        BY <1>i, <1>f, <1>g, <1>t DEF LocksHeld, At
    <2>3. MarksRight(p)'
        BY <1>i, <1>f, <1>g DEF MarksRight
    <2> QED BY <2>1, <2>2, <2>3
<1>2. ASSUME NEW q \in Procs, q # p PROVE TokensKnown(q)' /\ LocksHeld(q)' /\ MarksRight(q)'
    <2>i. TokensKnown(q) /\ LocksHeld(q) /\ MarksRight(q) /\ Apart(p, q) /\ Apart(q, p)
        BY <1>2 DEF TokenInv
    <2>p. proc'[q] = proc[q]
        BY <1>f, <1>2
    <2>n. proc[q].pc \in HasNext => proc[q].next \in Tokens /\ proc[q].next # n
        BY <1>g, <2>i DEF TokensKnown
    <2>1. TokensKnown(q)'
        BY <1>f, <1>t, <2>i, <2>p, <2>n DEF TokensKnown, Committed
    <2>2. LocksHeld(q)'
        BY <1>f, <1>t, <2>i, <2>p, <2>n DEF LocksHeld
    <2>3. MarksRight(q)'
        <3>1. \A t \in Tokens : status'[t] = "live" <=> status[t] = "live"
            BY <1>f, <1>g
        <3>2. n \notin marked[q]
            BY <1>g, <1>t, <2>i DEF MarksRight
        <3> QED BY <1>f, <1>g, <1>t, <2>i, <2>p, <3>1, <3>2 DEF MarksRight, Committed
    <2> QED BY <2>1, <2>2, <2>3
<1>3. ASSUME NEW q \in Procs, NEW r \in Procs, q # r PROVE Apart(q, r)'
    <2>i. Apart(q, r) /\ Apart(r, q) /\ TokensKnown(q) /\ TokensKnown(r)
        BY <1>3 DEF TokenInv
    <2>1. \A x \in Procs : x # p /\ proc[x].next \in Tokens => proc[x].next # n
        BY <1>g DEF TokenInv, TokensKnown
    <2> QED BY <1>f, <1>g, <1>3, <2>i, <2>1 DEF Apart, TokensKnown
<1>4. ASSUME NEW t \in Tokens PROVE Headed(t)'
    BY <1>4, <1>f, <1>g, <1>k, <1>t DEF TokenInv, Headed, Committed, At
<1>5. DeadCommitted'
    BY <1>i, <1>f, <1>g DEF DeadCommitted, Committed, TypeOK
<1>6. OneLivePerFamily'
    BY <1>i, <1>f, <1>g DEF OneLivePerFamily
<1>7. DeadStaysDead'
    BY <1>i, <1>f, <1>g DEF DeadStaysDead, LiveIn
<1> QED BY <1>0, <1>1, <1>2, <1>3, <1>4, <1>5, <1>6, <1>7 DEF TokenInv

\* RotateUpdate finds the presented row live and revokes it, uncommitted.
LEMMA ClaimStep ==
    ASSUME TokenInv,
           NEW p \in Procs,
           At(p, "rotateUpdate"),
           status[proc[p].tok] = "live",
           \A q \in Others(p) : proc[p].tok \notin marked[q],
           marked' = [marked EXCEPT ![p] = {proc[p].tok}],
           Goto(p, "rotateCommit"),
           UNCHANGED <<rows, expired, accounts, famLock, keyShare, forUpdate, targets, faults, dead>>
    PROVE  TokenInv'
<1> USE NoneAssumption DEF HasTok, HasFamLock, HasNext, HasUser, HasUserLock, HasMarks
<1>i. /\ TypeOK /\ DeadCommitted /\ OneLivePerFamily /\ DeadStaysDead
      /\ TokensKnown(p) /\ LocksHeld(p) /\ MarksRight(p)
    BY DEF TokenInv
<1>g. proc[p].pc = "rotateUpdate" /\ "rotateCommit" \in Phase /\ proc[p].tok \in Tokens
    BY <1>i DEF At, Phase, TokensKnown
<1>f. /\ UNCHANGED <<status, family, owner, replacedBy, verified, sub, famLock, keyShare,
                     forUpdate, targets, faults, dead, expired>>
      /\ proc' \in [Procs -> Proc] /\ \A q \in Procs : q # p => proc'[q] = proc[q]
      /\ proc'[p].pc = "rotateCommit" /\ proc'[p].tok = proc[p].tok /\ proc'[p].next = proc[p].next
      /\ marked' \in [Procs -> SUBSET Tokens]
      /\ marked'[p] = {proc[p].tok} /\ \A q \in Procs : q # p => marked'[q] = marked[q]
      /\ \A q \in Procs : q # p => proc[p].tok \notin marked[q]
    BY <1>i, <1>g, GotoFacts DEF TypeOK, rows, accounts, Others
<1>0. TypeOK'
    BY <1>i, <1>f DEF TypeOK, Proc
<1>1. TokensKnown(p)' /\ LocksHeld(p)' /\ MarksRight(p)'
    <2>1. TokensKnown(p)' /\ LocksHeld(p)'
        BY <1>i, <1>f, <1>g DEF TokensKnown, LocksHeld, Committed
    <2>2. MarksRight(p)'
        BY <1>i, <1>f, <1>g DEF MarksRight, Committed
    <2> QED BY <2>1, <2>2
<1>2. ASSUME NEW q \in Procs, q # p PROVE TokensKnown(q)' /\ LocksHeld(q)' /\ MarksRight(q)'
    <2>i. TokensKnown(q) /\ LocksHeld(q) /\ MarksRight(q) /\ Apart(p, q) /\ Apart(q, p)
        BY <1>2 DEF TokenInv
    <2>p. proc'[q] = proc[q]
        BY <1>f, <1>2
    <2>e. /\ famLock'[q] = famLock[q] /\ keyShare'[q] = keyShare[q]
          /\ forUpdate'[q] = forUpdate[q] /\ targets'[q] = targets[q]
          /\ marked'[q] = marked[q]
        BY <1>f, <1>2
    <2>r. UNCHANGED <<status, family, owner, verified>>
        BY <1>f
    <2>1. TokensKnown(q)'
        BY <2>r, <2>i, <2>p DEF TokensKnown, Committed
    <2>2. LocksHeld(q)'
        BY <2>r, <2>i, <2>p, <2>e DEF LocksHeld
    <2>3. MarksRight(q)'
        BY <2>r, <2>i, <2>p, <2>e DEF MarksRight, Committed
    <2> QED BY <2>1, <2>2, <2>3
<1>3. ASSUME NEW q \in Procs, NEW r \in Procs, q # r PROVE Apart(q, r)'
    <2>i. Apart(q, r) /\ Apart(r, q) /\ TokensKnown(q) /\ TokensKnown(r)
        BY <1>3 DEF TokenInv
    <2>1. proc'[q].next = proc[q].next /\ proc'[r].next = proc[r].next
        BY <1>f, <1>3
    <2> QED BY <1>f, <1>3, <2>i, <2>1 DEF Apart
<1>4. ASSUME NEW t \in Tokens PROVE Headed(t)'
    BY <1>4, <1>f DEF TokenInv, Headed, Committed
<1>5. DeadCommitted'
    BY <1>i, <1>f DEF DeadCommitted, Committed
<1>6. OneLivePerFamily'
    BY <1>i, <1>f DEF OneLivePerFamily
<1>7. DeadStaysDead'
    BY <1>i, <1>f DEF DeadStaysDead, LiveIn
<1> QED BY <1>0, <1>1, <1>2, <1>3, <1>4, <1>5, <1>6, <1>7 DEF TokenInv

\* An UPDATE of a family, or of a user, selects the live rows.
LEMMA ScanStep ==
    ASSUME TokenInv,
           NEW p \in Procs,
           NEW to \in {"revokeMark", "linkMark"},
           \/ /\ to = "revokeMark"
              /\ Scan(p, "revokeScan", {t \in Tokens : family[t] = family[proc[p].tok]}, to)
           \/ to = "linkMark" /\ Scan(p, "linkScan", {t \in Tokens : owner[t] = proc[p].user}, to)
    PROVE  TokenInv'
<1> USE NoneAssumption DEF HasTok, HasFamLock, HasNext, HasUser, HasUserLock, HasMarks
<1>i. /\ TypeOK /\ DeadCommitted /\ OneLivePerFamily /\ DeadStaysDead
      /\ TokensKnown(p) /\ LocksHeld(p) /\ MarksRight(p)
    BY DEF TokenInv
<1>g. /\ to = "revokeMark" => proc[p].pc = "revokeScan"
      /\ to = "linkMark" => proc[p].pc = "linkScan"
      /\ to \in Phase /\ Goto(p, to)
    BY DEF Scan, At, Phase
<1>f. /\ UNCHANGED <<status, family, owner, replacedBy, verified, sub, famLock, keyShare,
                     forUpdate, marked, faults, dead, expired>>
      /\ proc' \in [Procs -> Proc] /\ \A q \in Procs : q # p => proc'[q] = proc[q]
      /\ proc'[p].pc = to /\ proc'[p].tok = proc[p].tok /\ proc'[p].next = proc[p].next
      /\ proc'[p].user = proc[p].user
      /\ targets' \in [Procs -> SUBSET Tokens]
      /\ \A t \in Tokens :
            /\ to = "revokeMark" => (t \in targets'[p] <=> status[t] = "live" /\ family[t] = family[proc[p].tok])
            /\ to = "linkMark" => (t \in targets'[p] <=> status[t] = "live" /\ owner[t] = proc[p].user)
      /\ \A q \in Procs : q # p => targets'[q] = targets[q]
    BY <1>i, <1>g, GotoFacts, SMTT(30) DEF Scan, TypeOK, rows, accounts
<1>0. TypeOK'
    BY <1>i, <1>f DEF TypeOK, Proc
<1>1. TokensKnown(p)' /\ LocksHeld(p)' /\ MarksRight(p)'
    <2>1. TokensKnown(p)' /\ LocksHeld(p)'
        BY <1>i, <1>f, <1>g DEF TokensKnown, LocksHeld, Committed
    <2>2. MarksRight(p)'
        BY <1>i, <1>f, <1>g DEF MarksRight, Committed
    <2> QED BY <2>1, <2>2
<1>2. ASSUME NEW q \in Procs, q # p PROVE TokensKnown(q)' /\ LocksHeld(q)' /\ MarksRight(q)'
    <2>i. TokensKnown(q) /\ LocksHeld(q) /\ MarksRight(q) /\ Apart(p, q) /\ Apart(q, p)
        BY <1>2 DEF TokenInv
    <2>p. proc'[q] = proc[q]
        BY <1>f, <1>2
    <2>e. /\ famLock'[q] = famLock[q] /\ keyShare'[q] = keyShare[q]
          /\ forUpdate'[q] = forUpdate[q] /\ targets'[q] = targets[q]
          /\ marked'[q] = marked[q]
        BY <1>f, <1>2
    <2>r. UNCHANGED <<status, family, owner, verified>>
        BY <1>f
    <2>1. TokensKnown(q)'
        BY <2>r, <2>i, <2>p DEF TokensKnown, Committed
    <2>2. LocksHeld(q)'
        BY <2>r, <2>i, <2>p, <2>e DEF LocksHeld
    <2>3. MarksRight(q)'
        BY <2>r, <2>i, <2>p, <2>e DEF MarksRight, Committed
    <2> QED BY <2>1, <2>2, <2>3
<1>3. ASSUME NEW q \in Procs, NEW r \in Procs, q # r PROVE Apart(q, r)'
    <2>i. Apart(q, r) /\ Apart(r, q) /\ TokensKnown(q) /\ TokensKnown(r)
        BY <1>3 DEF TokenInv
    <2>1. proc'[q].next = proc[q].next /\ proc'[r].next = proc[r].next
        BY <1>f, <1>3
    <2> QED BY <1>f, <1>3, <2>i, <2>1 DEF Apart
<1>4. ASSUME NEW t \in Tokens PROVE Headed(t)'
    BY <1>4, <1>f DEF TokenInv, Headed, Committed
<1>5. DeadCommitted'
    BY <1>i, <1>f DEF DeadCommitted, Committed
<1>6. OneLivePerFamily'
    BY <1>i, <1>f DEF OneLivePerFamily
<1>7. DeadStaysDead'
    BY <1>i, <1>f DEF DeadStaysDead, LiveIn
<1> QED BY <1>0, <1>1, <1>2, <1>3, <1>4, <1>5, <1>6, <1>7 DEF TokenInv

\* ... and, when no other transaction has updated one of them, revokes those
\* that are still live, uncommitted.
LEMMA MarkStep ==
    ASSUME TokenInv,
           NEW p \in Procs,
           NEW to \in {"revokeCommit", "linkCommit"},
           Mark(p, IF to = "revokeCommit" THEN "revokeMark" ELSE "linkMark", to)
    PROVE  TokenInv'
<1> USE NoneAssumption DEF HasTok, HasFamLock, HasNext, HasUser, HasUserLock, HasMarks
<1>i. /\ TypeOK /\ DeadCommitted /\ OneLivePerFamily /\ DeadStaysDead
      /\ TokensKnown(p) /\ LocksHeld(p) /\ MarksRight(p)
    BY DEF TokenInv
<1>g. /\ to = "revokeCommit" => proc[p].pc = "revokeMark"
      /\ to = "linkCommit" => proc[p].pc = "linkMark"
      /\ to \in Phase /\ Goto(p, to)
    BY DEF Mark, At, Phase
<1>f. /\ UNCHANGED <<status, family, owner, replacedBy, verified, sub, famLock, keyShare,
                     forUpdate, targets, faults, dead, expired>>
      /\ proc' \in [Procs -> Proc] /\ \A q \in Procs : q # p => proc'[q] = proc[q]
      /\ proc'[p].pc = to /\ proc'[p].tok = proc[p].tok /\ proc'[p].next = proc[p].next
      /\ proc'[p].user = proc[p].user
      /\ marked' \in [Procs -> SUBSET Tokens]
      /\ \A t \in Tokens : t \in marked'[p] <=> t \in targets[p] /\ status[t] = "live"
      /\ \A q \in Procs : q # p => marked'[q] = marked[q]
      /\ \A q \in Procs : q # p => \A t \in Tokens : ~ (t \in targets[p] /\ t \in marked[q])
    BY <1>i, <1>g, GotoFacts DEF Mark, TypeOK, rows, accounts, Others
<1>0. TypeOK'
    BY <1>i, <1>f DEF TypeOK, Proc
<1>1. TokensKnown(p)' /\ LocksHeld(p)' /\ MarksRight(p)'
    <2>1. TokensKnown(p)' /\ LocksHeld(p)'
        BY <1>i, <1>f, <1>g DEF TokensKnown, LocksHeld, Committed
    <2>2. MarksRight(p)'
        BY <1>i, <1>f, <1>g DEF MarksRight, Committed
    <2> QED BY <2>1, <2>2
<1>2. ASSUME NEW q \in Procs, q # p PROVE TokensKnown(q)' /\ LocksHeld(q)' /\ MarksRight(q)'
    <2>i. TokensKnown(q) /\ LocksHeld(q) /\ MarksRight(q) /\ Apart(p, q) /\ Apart(q, p)
        BY <1>2 DEF TokenInv
    <2>p. proc'[q] = proc[q]
        BY <1>f, <1>2
    <2>e. /\ famLock'[q] = famLock[q] /\ keyShare'[q] = keyShare[q]
          /\ forUpdate'[q] = forUpdate[q] /\ targets'[q] = targets[q]
          /\ marked'[q] = marked[q]
        BY <1>f, <1>2
    <2>r. UNCHANGED <<status, family, owner, verified>>
        BY <1>f
    <2>1. TokensKnown(q)'
        BY <2>r, <2>i, <2>p DEF TokensKnown, Committed
    <2>2. LocksHeld(q)'
        BY <2>r, <2>i, <2>p, <2>e DEF LocksHeld
    <2>3. MarksRight(q)'
        BY <2>r, <2>i, <2>p, <2>e DEF MarksRight, Committed
    <2> QED BY <2>1, <2>2, <2>3
<1>3. ASSUME NEW q \in Procs, NEW r \in Procs, q # r PROVE Apart(q, r)'
    <2>i. Apart(q, r) /\ Apart(r, q) /\ TokensKnown(q) /\ TokensKnown(r)
        BY <1>3 DEF TokenInv
    <2>1. proc'[q].next = proc[q].next /\ proc'[r].next = proc[r].next
        BY <1>f, <1>3
    <2> QED BY <1>f, <1>3, <2>i, <2>1 DEF Apart
<1>4. ASSUME NEW t \in Tokens PROVE Headed(t)'
    BY <1>4, <1>f DEF TokenInv, Headed, Committed
<1>5. DeadCommitted'
    BY <1>i, <1>f DEF DeadCommitted, Committed
<1>6. OneLivePerFamily'
    BY <1>i, <1>f DEF OneLivePerFamily
<1>7. DeadStaysDead'
    BY <1>i, <1>f DEF DeadStaysDead, LiveIn
<1> QED BY <1>0, <1>1, <1>2, <1>3, <1>4, <1>5, <1>6, <1>7 DEF TokenInv

\* A transaction ends with nothing written: its new row is gone, its locks are
\* free.  The request ends, or turns to revoking the family.
LEMMA RollbackStep ==
    ASSUME TokenInv,
           NEW p \in Procs,
           EndTx(p),
           status' = WithoutPending(p),
           proc' \in [Procs -> Proc],
           \A q \in Procs : q # p => proc'[q] = proc[q],
           \/ proc'[p].pc = "idle"
           \/ proc'[p].pc = "revokeLock" /\ proc[p].pc \in HasTok /\ proc'[p].tok = proc[p].tok,
           proc'[p].next = NoToken,
           faults' \in 0 .. MaxFaults,
           UNCHANGED <<family, owner, replacedBy, expired, accounts, dead>>
    PROVE  TokenInv'
<1> USE NoneAssumption DEF HasTok, HasFamLock, HasNext, HasUser, HasUserLock, HasMarks
<1>i. /\ TypeOK /\ DeadCommitted /\ OneLivePerFamily /\ DeadStaysDead
      /\ TokensKnown(p) /\ LocksHeld(p) /\ MarksRight(p)
    BY DEF TokenInv
<1>f. /\ UNCHANGED <<family, owner, replacedBy, expired, verified, sub, dead>>
      /\ status' \in [Tokens -> {"free", "pending", "live", "revoked"}]
      /\ \A t \in Tokens : t # proc[p].next => status'[t] = status[t]
      /\ \A t \in Tokens : t = proc[p].next => status[t] = "pending" /\ status'[t] = "free"
      /\ \A q \in Procs : q # p => proc'[q] = proc[q]
    BY <1>i, RowsType DEF WithoutPending, accounts, TypeOK, TokensKnown
<1>e. /\ famLock' \in [Procs -> SUBSET Tokens] /\ keyShare' \in [Procs -> SUBSET Users]
      /\ forUpdate' \in [Procs -> SUBSET Users] /\ targets' \in [Procs -> SUBSET Tokens]
      /\ marked' \in [Procs -> SUBSET Tokens]
      /\ famLock'[p] = {} /\ keyShare'[p] = {} /\ forUpdate'[p] = {}
      /\ targets'[p] = {} /\ marked'[p] = {}
      /\ \A q \in Procs : q # p =>
            /\ famLock'[q] = famLock[q] /\ keyShare'[q] = keyShare[q]
            /\ forUpdate'[q] = forUpdate[q] /\ targets'[q] = targets[q]
            /\ marked'[q] = marked[q]
    BY <1>i, EndTxFacts
<1>s. \A t \in Tokens : (Committed(t) <=> Committed(t)') /\ (status'[t] = "live" <=> status[t] = "live")
    BY <1>f DEF Committed
<1>0. TypeOK'
    BY <1>i, <1>f, <1>e DEF TypeOK, Proc
<1>1. TokensKnown(p)' /\ LocksHeld(p)' /\ MarksRight(p)'
    BY <1>i, <1>f, <1>e, <1>s DEF TokensKnown, LocksHeld, MarksRight
<1>2. ASSUME NEW q \in Procs, q # p PROVE TokensKnown(q)' /\ LocksHeld(q)' /\ MarksRight(q)'
    <2>i. TokensKnown(q) /\ LocksHeld(q) /\ MarksRight(q) /\ Apart(p, q) /\ Apart(q, p)
        BY <1>2 DEF TokenInv
    <2>p. proc'[q] = proc[q]
        BY <1>f, <1>2
    <2>e. /\ famLock'[q] = famLock[q] /\ keyShare'[q] = keyShare[q]
          /\ forUpdate'[q] = forUpdate[q] /\ targets'[q] = targets[q]
          /\ marked'[q] = marked[q]
        BY <1>e, <1>2
    <2>1. TokensKnown(q)'
        BY <1>f, <1>s, <2>i, <2>p DEF TokensKnown, Apart
    <2>2. LocksHeld(q)'
        BY <1>f, <2>i, <2>p, <2>e DEF LocksHeld
    <2>3. MarksRight(q)'
        BY <1>f, <1>s, <2>i, <2>p, <2>e DEF MarksRight, TokensKnown
    <2> QED BY <2>1, <2>2, <2>3
<1>3. ASSUME NEW q \in Procs, NEW r \in Procs, q # r PROVE Apart(q, r)'
    <2>i. Apart(q, r) /\ Apart(r, q) /\ TokensKnown(q) /\ TokensKnown(r)
        BY <1>3 DEF TokenInv
    <2> QED BY <1>f, <1>e, <1>3, <2>i DEF Apart
<1>4. ASSUME NEW t \in Tokens PROVE Headed(t)'
    <2>1. Headed(t) /\ (status'[t] # "free" => status[t] # "free")
        BY <1>4, <1>f DEF TokenInv
    <2>2. family[t] \in Tokens
        BY <1>i, <1>4 DEF TypeOK
    <2> QED BY <1>f, <1>s, <2>1, <2>2 DEF Headed
<1>5. DeadCommitted'
    BY <1>i, <1>f, <1>s DEF DeadCommitted, TypeOK
<1>6. OneLivePerFamily'
    BY <1>i, <1>f, <1>s DEF OneLivePerFamily
<1>7. DeadStaysDead'
    BY <1>i, <1>f, <1>s DEF DeadStaysDead, LiveIn
<1> QED BY <1>0, <1>1, <1>2, <1>3, <1>4, <1>5, <1>6, <1>7 DEF TokenInv

\* A transaction commits: its marks become revocations, its new row comes alive.
\* Families it declares dead lose every live row.
LEMMA CommitStep ==
    ASSUME TokenInv,
           NEW p \in Procs,
           EndTx(p),
           status' = WithCommitted(p),
           proc[p].pc \in {"rotateCommit", "revokeCommit", "startCommit", "linkCommit"},
           proc' = [proc EXCEPT ![p] = Idle],
           replacedBy' \in [Tokens -> Tokens \cup {NoToken}],
           verified' \in [Users -> BOOLEAN],
           sub' \in [Users -> Subs \cup {NoSub}],
           \A u \in Users : verified'[u] # verified[u] => proc[p].pc = "linkCommit" /\ u = proc[p].user,
           UNCHANGED <<family, owner, expired, faults>>,
           dead \subseteq dead',
           \A f \in dead' : f \notin dead =>
              /\ f \in Tokens /\ Committed(f)
              /\ \A t \in Tokens : status[t] = "live" /\ family[t] = f => t \in marked[p]
              /\ proc[p].next \in Tokens => family[proc[p].next] # f
    PROVE  TokenInv'
<1> USE NoneAssumption DEF HasTok, HasFamLock, HasNext, HasUser, HasUserLock, HasMarks
<1>i. /\ TypeOK /\ DeadCommitted /\ OneLivePerFamily /\ DeadStaysDead
      /\ TokensKnown(p) /\ LocksHeld(p) /\ MarksRight(p)
    BY DEF TokenInv
<1>m. \A t \in Tokens : t \in marked[p] => status[t] = "live"
    BY <1>i DEF MarksRight, TokensKnown
<1>n. proc[p].next \in Tokens =>
          /\ status[proc[p].next] = "pending"
          /\ owner[proc[p].next] \in keyShare[p]
          /\ \/ /\ proc[p].pc = "rotateCommit" /\ proc[p].tok \in Tokens
                /\ status[proc[p].tok] = "live" /\ proc[p].tok \in marked[p]
                /\ family[proc[p].next] = family[proc[p].tok]
                /\ family[proc[p].tok] \in famLock[p]
             \/ proc[p].pc = "startCommit" /\ family[proc[p].next] = proc[p].next
    BY <1>i DEF TokensKnown, MarksRight, LocksHeld
<1>f. /\ UNCHANGED <<family, owner, expired, faults>>
      /\ status' \in [Tokens -> {"free", "pending", "live", "revoked"}]
      /\ \A t \in Tokens : t \in marked[p] => status'[t] = "revoked"
      /\ \A t \in Tokens : t \notin marked[p] /\ t = proc[p].next => status'[t] = "live"
      /\ \A t \in Tokens : t \notin marked[p] /\ t # proc[p].next => status'[t] = status[t]
      /\ proc' \in [Procs -> Proc] /\ proc'[p].pc = "idle" /\ proc'[p].next = NoToken
      /\ \A q \in Procs : q # p => proc'[q] = proc[q]
    BY <1>i, RowsType, IdleFacts DEF WithCommitted
<1>e. /\ famLock' \in [Procs -> SUBSET Tokens] /\ keyShare' \in [Procs -> SUBSET Users]
      /\ forUpdate' \in [Procs -> SUBSET Users] /\ targets' \in [Procs -> SUBSET Tokens]
      /\ marked' \in [Procs -> SUBSET Tokens]
      /\ famLock'[p] = {} /\ keyShare'[p] = {} /\ forUpdate'[p] = {}
      /\ targets'[p] = {} /\ marked'[p] = {}
      /\ \A q \in Procs : q # p =>
            /\ famLock'[q] = famLock[q] /\ keyShare'[q] = keyShare[q]
            /\ forUpdate'[q] = forUpdate[q] /\ targets'[q] = targets[q]
            /\ marked'[q] = marked[q]
    BY <1>i, EndTxFacts
<1>s. \A t \in Tokens : Committed(t) => Committed(t)'
    BY <1>f DEF Committed
<1>l. \A t \in Tokens : status'[t] = "live" =>
          (status[t] = "live" /\ t \notin marked[p]) \/ t = proc[p].next
    BY <1>f
<1>0. TypeOK'
    BY <1>i, <1>f, <1>e DEF TypeOK, Proc, DeadStaysDead
<1>1. TokensKnown(p)' /\ LocksHeld(p)' /\ MarksRight(p)'
    BY <1>f, <1>e DEF TokensKnown, LocksHeld, MarksRight
<1>2. ASSUME NEW q \in Procs, q # p PROVE TokensKnown(q)' /\ LocksHeld(q)' /\ MarksRight(q)'
    <2>i. TokensKnown(q) /\ LocksHeld(q) /\ MarksRight(q) /\ Apart(p, q) /\ Apart(q, p)
        BY <1>2 DEF TokenInv
    <2>p. proc'[q] = proc[q]
        BY <1>f, <1>2
    <2>e. /\ famLock'[q] = famLock[q] /\ keyShare'[q] = keyShare[q]
          /\ forUpdate'[q] = forUpdate[q] /\ targets'[q] = targets[q]
          /\ marked'[q] = marked[q]
        BY <1>e, <1>2
    <2>1. TokensKnown(q)'
        <3>1. proc[q].next \in Tokens => proc[q].next # proc[p].next
            BY <2>i DEF Apart
        <3>2. proc[q].pc \in HasNext => status'[proc[q].next] = "pending"
            BY <1>f, <1>m, <2>i, <3>1 DEF TokensKnown
        <3> QED BY <1>f, <1>s, <2>i, <2>p, <3>2 DEF TokensKnown
    <2>2. LocksHeld(q)'
        BY <1>f, <2>i, <2>p, <2>e DEF LocksHeld
    <2>3. MarksRight(q)'
        <3>1. \A t \in Tokens : t \in marked[q] => t \notin marked[p]
            BY <2>i DEF Apart
        <3>2. \A t \in Tokens : t \in marked[q] /\ status[t] = "live" => status'[t] = "live"
            BY <1>f, <1>n, <3>1
        <3>3. proc[q].pc \in {"revokeMark", "revokeCommit"} =>
                 \A t \in Tokens : status'[t] = "live" /\ family[t] = family[proc[q].tok] => status[t] = "live"
            <4>1. SUFFICES ASSUME proc[q].pc \in {"revokeMark", "revokeCommit"}, proc[p].next \in Tokens
                           PROVE  family[proc[p].next] # family[proc[q].tok]
                BY <1>l
            <4>2. /\ proc[q].tok \in Tokens /\ Committed(proc[q].tok)
                  /\ family[proc[q].tok] \in famLock[q] /\ family[proc[q].tok] \in Tokens
                BY <1>i, <2>i, <4>1 DEF TokensKnown, LocksHeld, TypeOK
            <4>3. CASE proc[p].pc = "rotateCommit"
                BY <1>n, <2>i, <4>1, <4>2, <4>3 DEF Apart
            <4>4. CASE proc[p].pc = "startCommit"
                <5>1. Committed(family[proc[q].tok])
                    BY <4>2 DEF TokenInv, Headed, Committed
                <5> QED BY <1>n, <4>1, <4>4, <5>1 DEF Committed
            <4> QED BY <1>n, <4>1, <4>3, <4>4
        <3>4. proc[q].pc \in {"linkMark", "linkCommit"} =>
                 \A t \in Tokens : status'[t] = "live" /\ owner[t] = proc[q].user => status[t] = "live"
            <4>1. SUFFICES ASSUME proc[q].pc \in {"linkMark", "linkCommit"}, proc[p].next \in Tokens
                           PROVE  owner[proc[p].next] # proc[q].user
                BY <1>l
            <4> QED BY <1>n, <2>i, <4>1 DEF TokensKnown, LocksHeld, Apart
        <3>5. proc[q].pc \in HasUserLock => verified'[proc[q].user] = verified[proc[q].user]
            BY <1>i, <2>i DEF TokensKnown, LocksHeld, Apart
        <3>6. proc[q].pc = "rotateCommit" => status'[proc[q].tok] = "live"
            BY <2>i, <3>2 DEF TokensKnown, MarksRight
        <3>7. \A t \in Tokens : status[t] = "live" /\ t \notin marked[p] => status'[t] = "live"
            BY <1>f, <1>n
        <3>8. (proc[q].pc = "revokeCommit" =>
                 \A t \in Tokens : t \in marked[q] <=> status[t] = "live" /\ family[t] = family[proc[q].tok])'
            BY <1>f, <2>i, <2>p, <2>e, <3>2, <3>3 DEF MarksRight
        <3>9. (proc[q].pc = "linkCommit" =>
                 \A t \in Tokens : t \in marked[q] <=> /\ verified[proc[q].user] = FALSE
                                                      /\ status[t] = "live" /\ owner[t] = proc[q].user)'
            BY <1>f, <2>i, <2>p, <2>e, <3>2, <3>4, <3>5 DEF MarksRight
        <3> QED BY <1>f, <1>s, <2>i, <2>p, <2>e, <3>3, <3>4, <3>5, <3>6, <3>8, <3>9 DEF MarksRight
    <2> QED BY <2>1, <2>2, <2>3
<1>3. ASSUME NEW q \in Procs, NEW r \in Procs, q # r PROVE Apart(q, r)'
    <2>i. Apart(q, r) /\ Apart(r, q) /\ TokensKnown(q) /\ TokensKnown(r)
        BY <1>3 DEF TokenInv
    <2> QED BY <1>f, <1>e, <1>3, <2>i DEF Apart
<1>4. ASSUME NEW t \in Tokens PROVE Headed(t)'
    <2>1. Headed(t) /\ (status'[t] # "free" => status[t] # "free")
        BY <1>4, <1>f, <1>m, <1>n DEF TokenInv
    <2>2. family[t] \in Tokens
        BY <1>i, <1>4 DEF TypeOK
    <2> QED BY <1>f, <1>s, <2>1, <2>2 DEF Headed
<1>5. DeadCommitted'
    BY <1>i, <1>s DEF DeadCommitted, TypeOK
<1>6. OneLivePerFamily'
    <2> SUFFICES ASSUME NEW s \in Tokens, NEW t \in Tokens, s # t,
                        status'[s] = "live", status'[t] = "live", family[s] = family[t]
                 PROVE  FALSE
        BY <1>f DEF OneLivePerFamily
    <2>1. CASE s # proc[p].next /\ t # proc[p].next
        BY <1>i, <1>l, <2>1 DEF OneLivePerFamily
    <2>2. ASSUME NEW x \in Tokens, x # proc[p].next, status'[x] = "live", proc[p].next \in Tokens,
                 family[x] = family[proc[p].next]
          PROVE  FALSE
        <3>1. status[x] = "live" /\ x \notin marked[p]
            BY <1>l, <2>2
        <3>2. CASE proc[p].pc = "rotateCommit"
            BY <1>i, <1>n, <2>2, <3>1, <3>2 DEF OneLivePerFamily
        <3>3. CASE proc[p].pc = "startCommit"
            <4>1. Headed(x)
                BY DEF TokenInv
            <4> QED BY <1>n, <2>2, <3>1, <3>3, <4>1 DEF Headed, Committed
        <3> QED BY <1>n, <2>2, <3>2, <3>3
    <2> QED BY <2>1, <2>2
<1>7. DeadStaysDead'
    <2> SUFFICES ASSUME NEW f \in dead', NEW t \in Tokens, status'[t] = "live", family[t] = f
                 PROVE  FALSE
        BY <1>f DEF DeadStaysDead, LiveIn
    <2>1. CASE f \notin dead
        BY <1>l, <2>1
    <2>2. CASE f \in dead
        <3>1. \A x \in Tokens : status[x] = "live" => family[x] # f
            BY <1>i, <2>2 DEF DeadStaysDead, LiveIn
        <3>2. t = proc[p].next
            BY <1>l, <3>1
        <3>3. Committed(f)
            BY <1>i, <2>2 DEF DeadCommitted
        <3> QED BY <1>n, <3>1, <3>2, <3>3 DEF Committed
    <2> QED BY <2>1, <2>2
<1> QED BY <1>0, <1>1, <1>2, <1>3, <1>4, <1>5, <1>6, <1>7 DEF TokenInv

\* The clock passes a token's expiry, or nothing happens.
LEMMA QuietStep ==
    ASSUME TokenInv, UNCHANGED <<rows, accounts, proc, tx, faults, dead>>, expired' \subseteq Tokens
    PROVE  TokenInv'
<1>1. UNCHANGED <<status, family, owner, replacedBy, verified, sub, proc, famLock, keyShare,
                  forUpdate, targets, marked, faults, dead>>
    BY DEF rows, accounts, tx
<1>2. TypeOK'
    BY <1>1 DEF TokenInv, TypeOK
<1>3. \A p \in Procs : TokensKnown(p)' /\ LocksHeld(p)' /\ MarksRight(p)'
    BY <1>1 DEF TokenInv, TokensKnown, LocksHeld, MarksRight, Committed
<1>4. \A p, q \in Procs : p # q => Apart(p, q)'
    BY <1>1 DEF TokenInv, Apart
<1>5. (\A t \in Tokens : Headed(t)') /\ DeadCommitted' /\ OneLivePerFamily' /\ DeadStaysDead'
    BY <1>1 DEF TokenInv, Headed, DeadCommitted, OneLivePerFamily, DeadStaysDead, LiveIn, Committed
<1> QED BY <1>2, <1>3, <1>4, <1>5 DEF TokenInv

\* A request arrives.
LEMMA ArriveStep ==
    ASSUME TokenInv, NEW p \in Procs, Arrive(p)
    PROVE  TokenInv'
<1>1. TypeOK /\ proc \in [Procs -> Proc] /\ proc[p].next = NoToken /\ At(p, "idle")
    BY DEF TokenInv, TypeOK, Proc, Arrive, Refresh, Logout, StartSession, Link, At, TokensKnown, HasNext
<1>2. CASE \E t \in Tokens : Refresh(p, t) \/ Logout(p, t)
    <2>1. PICK t \in Tokens : Refresh(p, t) \/ Logout(p, t)
        BY <1>2
    <2>2. PICK phase \in {"rotateLock", "revokeLock"} :
             proc' = [proc EXCEPT ![p].tok = t, ![p].pc = phase]
        BY <2>1 DEF Refresh, Logout
    <2>3. proc'[p] = [proc[p] EXCEPT !.tok = t, !.pc = phase] /\ \A q \in Procs : q # p => proc'[q] = proc[q]
        BY <1>1, <2>2
    <2>4. /\ proc'[p].tok = t /\ proc'[p].pc = phase /\ proc'[p].next = NoToken
        BY <1>1, <2>3 DEF Proc
    <2>5. proc'[p] \in Proc
        <3>1. phase \in Phase
            BY DEF Phase
        <3> QED BY <1>1, <2>3, <3>1 DEF Proc
    <2>6. proc' \in [Procs -> Proc]
        BY <1>1, <2>2, <2>5
    <2>7. UNCHANGED <<rows, accounts, tx, faults, dead>> /\ expired' \subseteq Tokens /\ Committed(t)
        BY <1>1, <2>1 DEF Refresh, Logout, TypeOK
    <2> QED BY <1>1, <2>3, <2>4, <2>6, <2>7, MoveStep
<1>3. CASE (\E u \in Users : StartSession(p, u)) \/ (\E u \in Users, s \in Subs : Link(p, u, s))
    <2>1. PICK u \in Users : StartSession(p, u) \/ \E s \in Subs : Link(p, u, s)
        BY <1>3
    <2>2. /\ proc'[p].user = u /\ proc'[p].pc \in {"startInsert", "linkLock"} /\ proc'[p].next = NoToken
          /\ proc' \in [Procs -> Proc] /\ \A q \in Procs : q # p => proc'[q] = proc[q]
        <3>1. CASE StartSession(p, u)
            <4>1. /\ proc'[p] = [proc[p] EXCEPT !.pc = "startInsert", !.user = u]
                  /\ \A q \in Procs : q # p => proc'[q] = proc[q]
                BY <1>1, <3>1 DEF StartSession
            <4>a. "startInsert" \in Phase
                BY DEF Phase
            <4>2. proc'[p] \in Proc /\ proc'[p].user = u /\ proc'[p].pc = "startInsert" /\ proc'[p].next = NoToken
                BY <1>1, <4>1, <4>a, ZenonT(60) DEF Proc
            <4>3. proc' \in [Procs -> Proc]
                BY <1>1, <3>1, <4>2 DEF StartSession
            <4> QED BY <4>1, <4>2, <4>3
        <3>2. ASSUME NEW s \in Subs, Link(p, u, s)
              PROVE  <2>2
            <4>1. /\ proc'[p] = [proc[p] EXCEPT !.pc = "linkLock", !.user = u, !.sub = s]
                  /\ \A q \in Procs : q # p => proc'[q] = proc[q]
                BY <1>1, <3>2 DEF Link
            <4>a. "linkLock" \in Phase
                BY DEF Phase
            <4>2. proc'[p] \in Proc /\ proc'[p].user = u /\ proc'[p].pc = "linkLock" /\ proc'[p].next = NoToken
                BY <1>1, <4>1, <4>a, ZenonT(60) DEF Proc
            <4>3. proc' \in [Procs -> Proc]
                BY <1>1, <3>2, <4>2 DEF Link
            <4> QED BY <4>1, <4>2, <4>3
        <3> QED BY <2>1, <3>1, <3>2
    <2>3. UNCHANGED <<rows, accounts, tx, faults, dead>> /\ expired' \subseteq Tokens
        BY <1>1, <2>1 DEF StartSession, Link, TypeOK
    <2> QED BY <1>1, <2>2, <2>3, MoveStep
<1> QED BY <1>2, <1>3 DEF Arrive

\* A request, or one statement of it, fails; its transaction is undone.
LEMMA FailStep ==
    ASSUME TokenInv, NEW p \in Procs, Fail(p)
    PROVE  TokenInv'
<1>1. TypeOK
    BY DEF TokenInv
<1>2. faults' \in 0 .. MaxFaults
    BY <1>1, FaultsAssumption DEF Fail, TypeOK
<1>3. /\ proc' \in [Procs -> Proc] /\ proc'[p].pc = "idle" /\ proc'[p].next = NoToken
      /\ \A q \in Procs : q # p => proc'[q] = proc[q]
    BY <1>1, IdleFacts DEF Fail
<1> QED BY <1>2, <1>3, RollbackStep DEF Fail

\* The rotation's UPDATE: it claims the row, or gives up and revokes the family.
LEMMA RotateUpdateStep ==
    ASSUME TokenInv, NEW p \in Procs, RotateUpdate(p)
    PROVE  TokenInv'
<1>1. TypeOK /\ proc \in [Procs -> Proc] /\ faults \in 0 .. MaxFaults
    BY DEF TokenInv, TypeOK, Proc
<1>2. CASE status[proc[p].tok] = "live"
    BY <1>2, ClaimStep DEF RotateUpdate, rows
<1>3. CASE status[proc[p].tok] # "live"
    <2>1. /\ proc'[p] = [proc[p] EXCEPT !.pc = "revokeLock", !.next = NoToken]
          /\ \A q \in Procs : q # p => proc'[q] = proc[q]
        BY <1>1, <1>3 DEF RotateUpdate
    <2>a. "revokeLock" \in Phase
        BY DEF Phase
    <2>2. /\ proc'[p] \in Proc /\ proc'[p].pc = "revokeLock" /\ proc'[p].next = NoToken
          /\ proc'[p].tok = proc[p].tok
        BY <1>1, <2>1, <2>a DEF Proc
    <2>3. proc' \in [Procs -> Proc]
        BY <1>1, <1>3, <2>2 DEF RotateUpdate
    <2>4. proc[p].pc \in HasTok
        BY DEF RotateUpdate, At, HasTok
    <2> QED BY <1>1, <1>3, <2>1, <2>2, <2>3, <2>4, RollbackStep DEF RotateUpdate
<1> QED BY <1>2, <1>3

\* The UPDATE of the users row: it goes on, or gives up.
LEMMA LinkUpdateStep ==
    ASSUME TokenInv, NEW p \in Procs, LinkUpdate(p)
    PROVE  TokenInv'
<1>1. TypeOK /\ faults' \in 0 .. MaxFaults /\ proc[p].next = NoToken /\ proc[p].pc = "linkUpdate"
      /\ proc[p].user \in Users
    BY DEF TokenInv, TypeOK, LinkUpdate, At, TokensKnown, HasNext, HasUser
<1>2. CASE UNCHANGED tx /\ Goto(p, IF verified[proc[p].user] THEN "linkCommit" ELSE "linkScan")
    <2>1. PICK phase \in {"linkCommit", "linkScan"} :
             /\ Goto(p, phase)
             /\ phase = "linkCommit" => verified[proc[p].user] = TRUE
             /\ phase = "linkScan" => verified[proc[p].user] = FALSE
        BY <1>1, <1>2 DEF TypeOK
    <2>2. /\ proc' \in [Procs -> Proc] /\ \A q \in Procs : q # p => proc'[q] = proc[q]
          /\ proc'[p].pc = phase /\ proc'[p].user = proc[p].user /\ proc'[p].next = proc[p].next
          /\ proc'[p].tok = proc[p].tok
        <3>1. phase \in Phase
            BY DEF Phase
        <3> QED BY <1>1, <2>1, <3>1, GotoFacts
    <2>3. UNCHANGED <<rows, accounts, tx, faults, dead>> /\ expired' \subseteq Tokens
        BY <1>1, <1>2 DEF LinkUpdate, TypeOK
    <2>4. CASE phase = "linkCommit"
        <3>1. At(p, "linkUpdate") /\ proc'[p].pc = "linkCommit" /\ verified[proc[p].user] = TRUE
            BY <1>1, <2>1, <2>2, <2>4 DEF At
        <3> QED BY <2>2, <2>3, <3>1, MoveStep
    <2>5. CASE phase = "linkScan"
        <3>1. At(p, "linkUpdate") /\ proc'[p].pc = "linkScan" /\ verified[proc[p].user] = FALSE
            BY <1>1, <2>1, <2>2, <2>5 DEF At
        <3> QED BY <2>2, <2>3, <3>1, MoveStep
    <2> QED BY <2>4, <2>5
<1>3. CASE EndTx(p) /\ proc' = [proc EXCEPT ![p] = Idle]
    <2>1. status' = WithoutPending(p)
        BY <1>1, NoneAssumption DEF LinkUpdate, rows, WithoutPending, TypeOK
    <2>2. /\ proc' \in [Procs -> Proc] /\ proc'[p].pc = "idle" /\ proc'[p].next = NoToken
          /\ \A q \in Procs : q # p => proc'[q] = proc[q]
        BY <1>1, <1>3, IdleFacts
    <2>3. UNCHANGED <<family, owner, replacedBy, expired, accounts, dead>>
        BY DEF LinkUpdate, rows
    <2> QED BY <1>1, <1>3, <2>1, <2>2, <2>3, RollbackStep
<1> QED BY <1>2, <1>3 DEF LinkUpdate

\* Every commit: what becomes dead has no live row left.
LEMMA CommitSteps ==
    ASSUME TokenInv, NEW p \in Procs,
           RotateCommit(p) \/ RevokeCommit(p) \/ StartCommit(p) \/ LinkCommit(p)
    PROVE  TokenInv'
<1>1. TypeOK /\ TokensKnown(p) /\ MarksRight(p)
    BY DEF TokenInv
<1>2. CASE RotateCommit(p)
    <2>1. proc[p].pc = "rotateCommit" /\ proc[p].tok \in Tokens /\ proc[p].next \in Tokens
        BY <1>1, <1>2 DEF RotateCommit, At, TokensKnown, HasTok, HasNext
    <2>2. replacedBy' \in [Tokens -> Tokens \cup {NoToken}]
        BY <1>1, <1>2, <2>1 DEF RotateCommit, TypeOK
    <2>3. verified' = verified /\ sub' = sub /\ verified \in [Users -> BOOLEAN]
          /\ sub \in [Users -> Subs \cup {NoSub}]
        BY <1>1, <1>2 DEF RotateCommit, accounts, TypeOK
    <2> QED BY <1>2, <2>1, <2>2, <2>3, CommitStep DEF RotateCommit
<1>3. CASE RevokeCommit(p)
    <2>1. proc[p].pc = "revokeCommit" /\ proc[p].tok \in Tokens /\ Committed(proc[p].tok)
          /\ proc[p].next \notin Tokens
        BY <1>1, <1>3, NoneAssumption DEF RevokeCommit, At, TokensKnown, HasTok, HasNext
    <2>2. replacedBy' = replacedBy /\ verified' = verified /\ sub' = sub
          /\ replacedBy \in [Tokens -> Tokens \cup {NoToken}] /\ verified \in [Users -> BOOLEAN]
          /\ sub \in [Users -> Subs \cup {NoSub}]
        BY <1>1, <1>3 DEF RevokeCommit, accounts, TypeOK
    <2>3. Committed(family[proc[p].tok]) /\ family[proc[p].tok] \in Tokens
        BY <1>1, <2>1 DEF TokenInv, TypeOK, Headed, Committed
    <2>4. \A t \in Tokens : status[t] = "live" /\ family[t] = family[proc[p].tok] => t \in marked[p]
        BY <1>1, <2>1 DEF MarksRight
    <2>5. dead' = dead \cup {family[proc[p].tok]}
        BY <1>3 DEF RevokeCommit
    <2> QED BY <1>3, <2>1, <2>2, <2>3, <2>4, <2>5, CommitStep DEF RevokeCommit
<1>4. CASE StartCommit(p)
    <2>1. proc[p].pc = "startCommit"
        BY <1>4 DEF StartCommit, At
    <2>2. replacedBy' = replacedBy /\ verified' = verified /\ sub' = sub /\ dead' = dead
          /\ replacedBy \in [Tokens -> Tokens \cup {NoToken}] /\ verified \in [Users -> BOOLEAN]
          /\ sub \in [Users -> Subs \cup {NoSub}]
        BY <1>1, <1>4 DEF StartCommit, accounts, TypeOK
    <2> QED BY <1>4, <2>1, <2>2, CommitStep DEF StartCommit
<1>5. CASE LinkCommit(p)
    <2> DEFINE u == proc[p].user
    <2>1. proc[p].pc = "linkCommit" /\ u \in Users /\ proc[p].next \notin Tokens
        BY <1>1, <1>5, NoneAssumption DEF LinkCommit, At, TokensKnown, HasUser, HasNext
    <2>2. proc[p].sub \in Subs \cup {NoSub}
        BY <1>1 DEF TypeOK
    <2>3. replacedBy' = replacedBy /\ replacedBy \in [Tokens -> Tokens \cup {NoToken}]
        BY <1>1, <1>5 DEF LinkCommit, TypeOK
    <2>4. verified' \in [Users -> BOOLEAN] /\ sub' \in [Users -> Subs \cup {NoSub}]
          /\ \A v \in Users : verified'[v] # verified[v] => v = u
        BY <1>1, <1>5, <2>1, <2>2 DEF LinkCommit, TypeOK
    <2>5. dead \subseteq dead'
        BY <1>5 DEF LinkCommit
    <2>6. ASSUME NEW f \in dead', f \notin dead
          PROVE  /\ f \in Tokens /\ Committed(f)
                 /\ \A t \in Tokens : status[t] = "live" /\ family[t] = f => t \in marked[p]
        <3>1. verified[u] = FALSE /\ \E x \in Tokens : Committed(x) /\ owner[x] = u /\ f = family[x]
            BY <1>1, <1>5, <2>1, <2>6 DEF LinkCommit, TypeOK
        <3>2. PICK x \in Tokens : Committed(x) /\ owner[x] = u /\ f = family[x]
            BY <3>1
        <3>3. f \in Tokens /\ Committed(f) /\ owner[f] = u
            BY <1>1, <3>2 DEF TokenInv, TypeOK, Headed, Committed
        <3>4. ASSUME NEW t \in Tokens, status[t] = "live", family[t] = f PROVE t \in marked[p]
            <4>1. owner[t] = u
                BY <3>3, <3>4 DEF TokenInv, Headed
            <4> QED BY <1>1, <2>1, <3>1, <3>4, <4>1 DEF MarksRight
        <3> QED BY <3>3, <3>4
    <2> QED BY <1>5, <2>1, <2>3, <2>4, <2>5, <2>6, CommitStep DEF LinkCommit
<1> QED BY <1>2, <1>3, <1>4, <1>5

\* The two inserts know their family and owner.
LEMMA InsertSteps ==
    ASSUME TokenInv, NEW p \in Procs, RotateInsert(p) \/ StartInsert(p)
    PROVE  TokenInv'
<1>1. TypeOK /\ TokensKnown(p)
    BY DEF TokenInv
<1>2. CASE RotateInsert(p)
    <2>1. PICK n \in Tokens : Insert(p, n, family[proc[p].tok], owner[proc[p].tok], "rotateUpdate")
        BY <1>2 DEF RotateInsert
    <2>2. At(p, "rotateInsert") /\ proc[p].tok \in Tokens /\ Committed(proc[p].tok)
        BY <1>1, <1>2 DEF RotateInsert, At, TokensKnown, HasTok
    <2>3. family[proc[p].tok] \in Tokens /\ owner[proc[p].tok] \in Users
        BY <1>1, <2>2 DEF TokenInv, TypeOK, Headed, Committed
    <2> QED BY <2>1, <2>2, <2>3, InsertStep
<1>3. CASE StartInsert(p)
    <2>1. PICK n \in Tokens : Insert(p, n, n, proc[p].user, "startCommit")
        BY <1>3 DEF StartInsert
    <2>2. At(p, "startInsert") /\ proc[p].user \in Users
        BY <1>1, <1>3 DEF StartInsert, At, TokensKnown, HasUser
    <2> QED BY <2>1, <2>2, InsertStep
<1> QED BY <1>2, <1>3

-----------------------------------------------------------------------------
(* The invariant is inductive *)

\* No rows, no requests, no locks.
LEMMA InitTokenInv == Init => TokenInv
<1> SUFFICES ASSUME Init PROVE TokenInv
    OBVIOUS
<1>1. TypeOK
    BY FaultsAssumption DEF Init, TypeOK, Idle, Phase
<1>2. \A p \in Procs : TokensKnown(p) /\ LocksHeld(p) /\ MarksRight(p)
    BY DEF Init, Idle, TokensKnown, LocksHeld, MarksRight, HasTok, HasFamLock, HasNext, HasUser,
           HasUserLock, HasMarks
<1>3. \A p, q \in Procs : p # q => Apart(p, q)
    BY NoneAssumption DEF Init, Idle, Apart
<1>4. (\A t \in Tokens : Headed(t)) /\ DeadCommitted /\ OneLivePerFamily /\ DeadStaysDead
    BY DEF Init, Headed, DeadCommitted, OneLivePerFamily, DeadStaysDead
<1> QED BY <1>1, <1>2, <1>3, <1>4 DEF TokenInv

\* One step per action of Next.
LEMMA NextTokenInv == TokenInv /\ [Next]_vars => TokenInv'
<1> SUFFICES ASSUME TokenInv, [Next]_vars PROVE TokenInv'
    OBVIOUS
<1>1. TypeOK
    BY DEF TokenInv
<1>2. CASE UNCHANGED vars
    BY <1>1, <1>2, QuietStep DEF vars, rows, accounts, tx, TypeOK
<1>3. ASSUME NEW t \in Tokens, Expire(t) PROVE TokenInv'
    BY <1>1, <1>3, QuietStep DEF Expire, TypeOK
<1>4. ASSUME NEW p \in Procs, Arrive(p) \/ Fail(p) PROVE TokenInv'
    BY <1>4, ArriveStep, FailStep
<1>5. ASSUME NEW p \in Procs, LockStep(p) PROVE TokenInv'
    <2>1. CASE RotateLock(p)
        BY <2>1, LockFamilyStep DEF RotateLock
    <2>2. CASE RevokeLock(p)
        BY <2>2, LockFamilyStep DEF RevokeLock
    <2>3. CASE LinkLock(p)
        BY <2>3, LinkLockStep
    <2> QED BY <1>5, <2>1, <2>2, <2>3 DEF LockStep
<1>6. ASSUME NEW p \in Procs, WriteStep(p) PROVE TokenInv'
    <2>1. CASE RotateInsert(p) \/ StartInsert(p)
        BY <2>1, InsertSteps
    <2>2. CASE RotateUpdate(p) \/ LinkUpdate(p)
        BY <2>2, RotateUpdateStep, LinkUpdateStep
    <2>3. CASE RotateCommit(p) \/ RevokeCommit(p) \/ StartCommit(p) \/ LinkCommit(p)
        BY <2>3, CommitSteps
    <2>4. CASE RevokeScan(p)
        BY <2>4, ScanStep DEF RevokeScan
    <2>5. CASE LinkScan(p)
        BY <2>5, ScanStep DEF LinkScan
    <2>6. CASE RevokeMark(p)
        BY <2>6, MarkStep DEF RevokeMark
    <2>7. CASE LinkMark(p)
        BY <2>7, MarkStep DEF LinkMark
    <2> QED BY <1>6, <2>1, <2>2, <2>3, <2>4, <2>5, <2>6, <2>7 DEF WriteStep
<1> QED BY <1>2, <1>3, <1>4, <1>5, <1>6 DEF Next

\* The invariant holds in every behaviour.
LEMMA TokenInvAlways == Spec => []TokenInv
BY InitTokenInv, NextTokenInv, PTL DEF Spec

\* Tables, locks and requests hold what the schema and the handlers put there.
THEOREM TypeCorrect == Spec => []TypeOK
<1>1. TokenInv => TypeOK
    BY DEF TokenInv
<1> QED BY <1>1, TokenInvAlways, PTL

\* However many requests present tokens of a session at once, at most one of
\* its tokens can be exchanged (Rotate).
THEOREM AtMostOneLive == Spec => []OneLivePerFamily
<1>1. TokenInv => OneLivePerFamily
    BY DEF TokenInv
<1> QED BY <1>1, TokenInvAlways, PTL

\* Logout, reuse detection and account linking are final: no rotation under
\* way brings a revoked family back (RevokeFamily, AttachGoogle).
THEOREM RevocationIsFinal == Spec => []DeadStaysDead
<1>1. TokenInv => DeadStaysDead
    BY DEF TokenInv
<1> QED BY <1>1, TokenInvAlways, PTL

-----------------------------------------------------------------------------
(***************************************************************************)
(* SessionTokens implements TokenFamilies.  A step that commits nothing is *)
(* a stutter there; the commits are Start, Rotate and Revoke.              *)
(***************************************************************************)

\* A step that changes no committed row and kills no family is a stutter.
LEMMA Invisible ==
    ASSUME TokenInv, TypeOK', dead' = dead,
           \A t \in Tokens : Committed(t) \/ Committed(t)' => status'[t] = status[t] /\ family'[t] = family[t]
    PROVE  UNCHANGED Promise!vars
<1>1. /\ {t \in Tokens : status'[t] = "live"} = {t \in Tokens : status[t] = "live"}
      /\ {t \in Tokens : status'[t] = "revoked"} = {t \in Tokens : status[t] = "revoked"}
    BY DEF Committed
<1>2. \A t \in Tokens : (Committed(t)' <=> Committed(t)) /\ (Committed(t) => family'[t] = family[t])
    BY DEF Committed
<1>3. [t \in Tokens |-> IF Committed(t)' THEN family'[t] ELSE t]
        = [t \in Tokens |-> IF Committed(t) THEN family[t] ELSE t]
    BY <1>2
<1> QED BY <1>1, <1>3 DEF Promise!vars

\* The rows after a commit, one by one.
LEMMA CommittedRows ==
    ASSUME TokenInv, NEW p \in Procs, status' = WithCommitted(p)
    PROVE  /\ \A t \in marked[p] : t \in Tokens /\ status'[t] = "revoked"
           /\ \A t \in Tokens : t \notin marked[p] /\ t = proc[p].next => status'[t] = "live"
           /\ \A t \in Tokens : t \notin marked[p] /\ t # proc[p].next => status'[t] = status[t]
<1>1. TypeOK
    BY DEF TokenInv
<1> QED BY <1>1 DEF WithCommitted, TypeOK

\* The first token of a session: StartCommit is Start.
LEMMA StartMaps ==
    ASSUME TokenInv, NEW p \in Procs, NEW n \in Tokens, n = proc[p].next, StartCommit(p)
    PROVE  Promise!Start(n)
<1>1. /\ proc[p].pc = "startCommit" /\ status[n] = "pending" /\ family[n] = n
      /\ \A t \in Tokens : t \notin marked[p]
    BY DEF TokenInv, StartCommit, At, TokensKnown, MarksRight, HasNext, HasMarks
<1>2. /\ status'[n] = "live" /\ \A t \in Tokens : t # n => status'[t] = status[t]
      /\ family' = family /\ dead' = dead
    BY <1>1, CommittedRows DEF StartCommit
<1>3. n \notin {t \in Tokens : status[t] = "live"} \cup {t \in Tokens : status[t] = "revoked"}
    BY <1>1
<1>4. {t \in Tokens : status'[t] = "live"} = {t \in Tokens : status[t] = "live"} \cup {n}
    BY <1>1, <1>2
<1>5. {t \in Tokens : status'[t] = "revoked"} = {t \in Tokens : status[t] = "revoked"}
    BY <1>1, <1>2
<1>6. [t \in Tokens |-> IF Committed(t)' THEN family'[t] ELSE t]
        = [[t \in Tokens |-> IF Committed(t) THEN family[t] ELSE t] EXCEPT ![n] = n]
    <2>1. \A t \in Tokens : t # n => (Committed(t)' <=> Committed(t))
        BY <1>2 DEF Committed
    <2> QED BY <1>1, <1>2, <2>1
<1> QED BY <1>1, <1>2, <1>3, <1>4, <1>5, <1>6 DEF Promise!Start, Promise!Fresh

\* A refresh: RotateCommit is Rotate, in a family that is not dead.
LEMMA RotateMaps ==
    ASSUME TokenInv, NEW p \in Procs, NEW o \in Tokens, NEW n \in Tokens,
           o = proc[p].tok, n = proc[p].next, RotateCommit(p)
    PROVE  Promise!Rotate(o, n)
<1>1. /\ proc[p].pc = "rotateCommit" /\ status[n] = "pending" /\ family[n] = family[o]
      /\ status[o] = "live" /\ \A t \in Tokens : t \in marked[p] <=> t = o
    BY DEF TokenInv, RotateCommit, At, TokensKnown, MarksRight, HasNext, HasTok
<1>2. /\ status'[n] = "live" /\ status'[o] = "revoked"
      /\ \A t \in Tokens : t # n /\ t # o => status'[t] = status[t]
      /\ family' = family /\ dead' = dead
    BY <1>1, CommittedRows DEF RotateCommit
<1>3. family[o] \notin dead
    BY <1>1 DEF TokenInv, DeadStaysDead, LiveIn
<1>4. {t \in Tokens : status'[t] = "live"} = ({t \in Tokens : status[t] = "live"} \ {o}) \cup {n}
    BY <1>1, <1>2
<1>5. {t \in Tokens : status'[t] = "revoked"} = {t \in Tokens : status[t] = "revoked"} \cup {o}
    BY <1>1, <1>2
<1>6. [t \in Tokens |-> IF Committed(t)' THEN family'[t] ELSE t]
        = [[t \in Tokens |-> IF Committed(t) THEN family[t] ELSE t] EXCEPT ![n] = family[o]]
    <2>1. \A t \in Tokens : t # n => (Committed(t)' <=> Committed(t))
        BY <1>1, <1>2 DEF Committed
    <2>2. Committed(n)'
        BY <1>2 DEF Committed
    <2> QED BY <1>1, <1>2, <2>1, <2>2
<1>7. [t \in Tokens |-> IF Committed(t) THEN family[t] ELSE t][o] = family[o]
    BY <1>1 DEF Committed
<1>8. n \notin {t \in Tokens : status[t] = "live"} \cup {t \in Tokens : status[t] = "revoked"}
    BY <1>1
<1> QED BY <1>1, <1>2, <1>3, <1>4, <1>5, <1>6, <1>7, <1>8 DEF Promise!Rotate, Promise!Fresh

\* A commit that marks exactly the live rows of some families is Revoke.
LEMMA RevokeMaps ==
    ASSUME TokenInv, NEW p \in Procs, NEW families \in SUBSET Tokens, status' = WithCommitted(p),
           proc[p].next \notin Tokens, family' = family, dead' = dead \cup families,
           \A t \in Tokens : t \in marked[p] <=> status[t] = "live" /\ family[t] \in families
    PROVE  Promise!Revoke(families)
<1> DEFINE fam == [t \in Tokens |-> IF Committed(t) THEN family[t] ELSE t]
<1>1. \A t \in Tokens : /\ t \in marked[p] => status'[t] = "revoked"
                        /\ t \notin marked[p] => status'[t] = status[t]
    BY CommittedRows
<1>2. \A t \in Tokens : status[t] = "live" => fam[t] = family[t]
    BY DEF Committed
<1>3. \A t \in Tokens : Committed(t)' <=> Committed(t)
    BY <1>1 DEF Committed
<1>4. {t \in Tokens : status'[t] = "live"}
        = {t \in {x \in Tokens : status[x] = "live"} : fam[t] \notin families}
    BY <1>1, <1>2
<1>5. {t \in Tokens : status'[t] = "revoked"}
        = {t \in Tokens : status[t] = "revoked"}
            \cup {t \in {x \in Tokens : status[x] = "live"} : fam[t] \in families}
    BY <1>1, <1>2
<1>6. [t \in Tokens |-> IF Committed(t)' THEN family'[t] ELSE t] = fam
    BY <1>3
<1> QED BY <1>4, <1>5, <1>6 DEF Promise!Revoke

\* Every commit is a step of TokenFamilies, or a stutter.
LEMMA CommitMaps ==
    ASSUME TokenInv, TypeOK', NEW p \in Procs,
           RotateCommit(p) \/ RevokeCommit(p) \/ StartCommit(p) \/ LinkCommit(p)
    PROVE  Promise!Next \/ UNCHANGED Promise!vars
<1>1. TypeOK /\ TokensKnown(p) /\ MarksRight(p)
    BY DEF TokenInv
<1>2. CASE RotateCommit(p)
    <2>1. PICK o \in Tokens, n \in Tokens : o = proc[p].tok /\ n = proc[p].next
        BY <1>1, <1>2 DEF RotateCommit, At, TokensKnown, HasTok, HasNext
    <2>2. Promise!Rotate(o, n)
        BY <1>2, <2>1, RotateMaps
    <2> QED BY <2>2 DEF Promise!Next
<1>3. CASE StartCommit(p)
    <2>1. PICK n \in Tokens : n = proc[p].next
        BY <1>1, <1>3 DEF StartCommit, At, TokensKnown, HasNext
    <2>2. Promise!Start(n)
        BY <1>3, <2>1, StartMaps
    <2> QED BY <2>2 DEF Promise!Next
<1>4. CASE RevokeCommit(p)
    <2>1. /\ proc[p].pc = "revokeCommit" /\ proc[p].next \notin Tokens
          /\ {family[proc[p].tok]} \in SUBSET Tokens
        BY <1>1, <1>4, NoneAssumption DEF RevokeCommit, At, TokensKnown, HasTok, HasNext, TypeOK
    <2>2. PICK fs \in SUBSET Tokens : fs = {family[proc[p].tok]}
        BY <2>1
    <2>3. \A t \in Tokens : t \in marked[p] <=> status[t] = "live" /\ family[t] \in fs
        BY <1>1, <2>1, <2>2 DEF MarksRight
    <2>4. Promise!Revoke(fs)
        BY <1>4, <2>1, <2>2, <2>3, RevokeMaps DEF RevokeCommit
    <2> QED BY <2>4 DEF Promise!Next
<1>5. CASE LinkCommit(p)
    <2> DEFINE u == proc[p].user
               mine == {family[t] : t \in {x \in Tokens : Committed(x) /\ owner[x] = proc[p].user}}
    <2>1. /\ proc[p].pc = "linkCommit" /\ proc[p].next \notin Tokens /\ u \in Users
          /\ status' = WithCommitted(p) /\ family' = family
        BY <1>1, <1>5, NoneAssumption DEF LinkCommit, At, TokensKnown, HasUser, HasNext
    <2>2. CASE verified[u] = FALSE
        <3>1. mine \in SUBSET Tokens /\ dead' = dead \cup mine
            BY <1>1, <1>5, <2>2 DEF LinkCommit, TypeOK
        <3>2. \A t \in Tokens : t \in marked[p] <=> status[t] = "live" /\ family[t] \in mine
            <4>1. ASSUME NEW t \in Tokens, t \in marked[p] PROVE status[t] = "live" /\ family[t] \in mine
                BY <1>1, <2>1, <2>2, <4>1 DEF MarksRight, Committed
            <4>2. ASSUME NEW t \in Tokens, status[t] = "live", family[t] \in mine PROVE t \in marked[p]
                <5>1. PICK x \in Tokens : Committed(x) /\ owner[x] = u /\ family[t] = family[x]
                    BY <4>2
                <5>2. owner[t] = u
                    BY <4>2, <5>1 DEF TokenInv, Headed, Committed
                <5> QED BY <1>1, <2>1, <2>2, <4>2, <5>2 DEF MarksRight
            <4> QED BY <4>1, <4>2
        <3> HIDE DEF mine
        <3>3. PICK fs \in SUBSET Tokens : fs = mine
            BY <3>1
        <3>4. Promise!Revoke(fs)
            BY <2>1, <3>1, <3>2, <3>3, RevokeMaps
        <3> QED BY <3>4 DEF Promise!Next
    <2>3. CASE verified[u] = TRUE
        <3>1. dead' = dead /\ \A t \in Tokens : t \notin marked[p]
            BY <1>1, <1>5, <2>1, <2>3 DEF LinkCommit, MarksRight
        <3>2. \A t \in Tokens : status'[t] = status[t] /\ family'[t] = family[t]
            BY <2>1, <3>1, CommittedRows
        <3> QED BY <3>1, <3>2, Invisible
    <2> QED BY <1>1, <2>1, <2>2, <2>3 DEF TypeOK
<1> QED BY <1>2, <1>3, <1>4, <1>5

\* Every other step commits nothing.
LEMMA OtherMaps ==
    ASSUME TokenInv, TokenInv', NEW p \in Procs,
           \/ Arrive(p) \/ LockStep(p) \/ Fail(p)
           \/ RotateInsert(p) \/ StartInsert(p) \/ RotateUpdate(p) \/ LinkUpdate(p)
           \/ RevokeScan(p) \/ RevokeMark(p) \/ LinkScan(p) \/ LinkMark(p)
    PROVE  UNCHANGED Promise!vars
<1>1. TypeOK /\ TypeOK' /\ TokensKnown(p)
    BY DEF TokenInv
<1>2. CASE UNCHANGED <<status, family, dead>>
    BY <1>1, <1>2, Invisible
<1>3. CASE RotateInsert(p) \/ StartInsert(p)
    <2>1. PICK n \in Tokens : \E f, u : \E to : Insert(p, n, f, u, to)
        BY <1>3 DEF RotateInsert, StartInsert
    <2>2. /\ status[n] = "free" /\ status'[n] = "pending" /\ dead' = dead
          /\ \A t \in Tokens : t # n => status'[t] = status[t] /\ family'[t] = family[t]
        BY <1>1, <2>1 DEF Insert, TypeOK
    <2> QED BY <1>1, <2>2, Invisible DEF Committed
<1>4. CASE status' = WithoutPending(p) /\ UNCHANGED <<family, dead>>
    <2>1. \A t \in Tokens : /\ t # proc[p].next => status'[t] = status[t]
                            /\ t = proc[p].next => status[t] = "pending" /\ status'[t] = "free"
        BY <1>1, <1>4, NoneAssumption, SMTT(30) DEF WithoutPending, TokensKnown
    <2> QED BY <1>1, <1>4, <2>1, Invisible DEF Committed
<1>5. CASE Arrive(p) \/ LockStep(p) \/ LinkUpdate(p)
    BY <1>2, <1>5 DEF Arrive, LockStep, LinkUpdate, Refresh, Logout, StartSession, Link, RotateLock,
                      RevokeLock, LinkLock, LockFamily, rows
<1>6. CASE RevokeScan(p) \/ RevokeMark(p) \/ LinkScan(p) \/ LinkMark(p)
    BY <1>2, <1>6 DEF RevokeScan, RevokeMark, LinkScan, LinkMark, Scan, Mark, rows
<1>7. CASE Fail(p) \/ RotateUpdate(p)
    BY <1>2, <1>4, <1>7 DEF Fail, RotateUpdate
<1> QED BY <1>3, <1>5, <1>6, <1>7

\* Refresh, logout, sign-in and account linking, statement by statement and
\* interleaved in any way, behave as the atomic operations of TokenFamilies.
THEOREM Implementation == Spec => ImplementsFamilies
<1>1. Init => Promise!Init
    BY DEF Init, Promise!Init, Committed
<1>2. TokenInv /\ TokenInv' /\ [Next]_vars => [Promise!Next]_(Promise!vars)
    <2> SUFFICES ASSUME TokenInv, TokenInv', [Next]_vars
                 PROVE  Promise!Next \/ UNCHANGED Promise!vars
        OBVIOUS
    <2>1. TypeOK /\ TypeOK'
        BY DEF TokenInv
    <2>2. CASE UNCHANGED vars \/ \E t \in Tokens : Expire(t)
        <3>1. UNCHANGED <<status, family, dead>>
            BY <2>2 DEF vars, rows, Expire
        <3> QED BY <2>1, <3>1, Invisible
    <2>3. CASE \E p \in Procs : Arrive(p) \/ LockStep(p) \/ WriteStep(p) \/ Fail(p)
        BY <2>1, <2>3, OtherMaps, CommitMaps DEF WriteStep
    <2> QED BY <2>2, <2>3 DEF Next
<1> QED BY <1>1, <1>2, TokenInvAlways, PTL DEF Spec, ImplementsFamilies, Promise!Spec
=============================================================================
