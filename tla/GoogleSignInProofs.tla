------------------------- MODULE GoogleSignInProofs -------------------------
(***************************************************************************)
(* Proofs about GoogleSignIn, for any number of requests, addresses,       *)
(* passwords, Google accounts, flows and faults.                           *)
(***************************************************************************)
EXTENDS GoogleSignIn, FiniteSetTheorems, TLAPS

-----------------------------------------------------------------------------
(***************************************************************************)
(* The inductive invariant.  A flow is in one place at a time: its state   *)
(* can be taken, or one request holds it, or it has become a code; and a   *)
(* code is usable, or one request holds it, or it has become a session.    *)
(***************************************************************************)

\* Identity columns: a table's rows are numbered, and the next number is free.
Numbered(table) ==
    /\ IsFiniteSet(table) /\ \A x \in table : x.id \in 1 .. Cardinality(table)
    /\ \A x, y \in table : x.id = y.id => x = y

\* Account id carries the Google account g.
Carries(id, g) == \E u \in users : u.id = id /\ u.sub = g

\* The request is inside the callback and has taken its state.
InFlow(r) == r.pc \in {"verify", "bySub", "byEmail", "create", "byEmailAgain", "attach", "code"}

\* A request under way has its flow for itself.
FlowHeld(r) == InFlow(r) =>
    /\ r.flow \in 1 .. flows /\ r.flow \notin states
    /\ \A c \in codes : c.flow # r.flow

\* The address comes with the subject Google vouched for.
Vouched(r) == (InFlow(r) /\ r.pc # "verify") \/ r.email # None => r.sub \in Subs

\* What the request has learnt of the accounts is still so.
Learnt(r) ==
    /\ r.pc = "verify" => r.email = None
    /\ r.pc \in {"byEmail", "create", "byEmailAgain"} => r.email \in Emails
    /\ r.pc = "byEmailAgain" => EmailTaken(r.email)
    /\ r.pc = "attach" => \E u \in users : u.id = r.id /\ u.email = r.email
    /\ r.pc = "code" => Carries(r.id, r.sub)

\* A code that was taken, with the account it stands for.
Taken(code, id) == \E c \in codes : c.id = code /\ c.user = id /\ ~ c.usable

\* A code is spent by the request that trades it, and by no session yet.
CodeHeld(r) == r.pc = "session" /\ r.code # 0 =>
    Taken(r.code, r.id) /\ \A s \in sessions : s.code # r.code

\* The address belongs to another Google account, or the other way round.
Clash(r) == \E u \in users : \/ u.email = r.email /\ u.sub \notin {None, r.sub}
                             \/ u.sub = r.sub /\ u.email # r.email

\* An error comes from a fault; a verified address is refused for a clash only.
AnswerOf(r) == r.pc = "done" =>
    /\ r.reply = "error" => faults > 0
    /\ r.reply = "invalid_token" /\ r.email \in Emails => Clash(r)

\* What holds of each request.
RequestInv(r) == FlowHeld(r) /\ Vouched(r) /\ Learnt(r) /\ CodeHeld(r) /\ AnswerOf(r)

\* Two requests hold neither one flow nor one code.
HoldApart(r, s) ==
    /\ InFlow(r) /\ InFlow(s) => r.flow # s.flow
    /\ r.pc = "session" /\ s.pc = "session" /\ r.code = s.code => r.code = 0

\* The users table: its unique indexes, and a way in for everyone.
UsersInv ==
    /\ users \subseteq User /\ Numbered(users)
    /\ \A u \in users : u.pw # None \/ u.sub # None
    /\ \A u, v \in users : u # v => u.email # v.email /\ (u.sub = None \/ u.sub # v.sub)

\* A code belongs to one spent flow and to the account of its Google subject.
CodesInv ==
    /\ codes \subseteq [id : Nat, flow : 1 .. flows, user : Nat, sub : Subs, usable : BOOLEAN]
    /\ Numbered(codes)
    /\ \A c \in codes : c.flow \notin states /\ Carries(c.user, c.sub)
    /\ \A c, d \in codes : c.flow = d.flow => c = d

\* A session was paid for by one taken code or by a password.
SessionsInv ==
    /\ sessions \subseteq [id : Nat, user : Nat, code : Nat, late : BOOLEAN, live : BOOLEAN]
    /\ Numbered(sessions)
    /\ \A s \in sessions : s.code # 0 => Taken(s.code, s.user)
    /\ \A s, t \in sessions : s.code # 0 /\ s.code = t.code => s = t
    /\ \A s \in sessions : s.live /\ s.code = 0 => HasPassword(s.user) \/ s.late

\* The inductive invariant of the sign-in flows.
SignInInv ==
    /\ UsersInv /\ CodesInv /\ SessionsInv
    /\ flows \in 0 .. MaxFlows /\ states \subseteq 1 .. flows
    /\ logins \in 0 .. MaxLogins /\ faults \in 0 .. MaxFaults
    /\ proc \in [Procs -> Request]
    /\ \A p \in Procs : RequestInv(proc[p])
    /\ \A p, q \in Procs : p # q => HoldApart(proc[p], proc[q])

-----------------------------------------------------------------------------
(* Numbered tables *)

\* An INSERT takes the next number.
LEMMA NumberedAdd ==
    ASSUME NEW T, Numbered(T), NEW x, x.id = Cardinality(T) + 1
    PROVE  Numbered(T \cup {x}) /\ x \notin T /\ Cardinality(T) \in Nat
<1>1. IsFiniteSet(T) /\ Cardinality(T) \in Nat
  BY FS_CardinalityType DEF Numbered
<1>2. x \notin T
  BY <1>1 DEF Numbered
<1>3. IsFiniteSet(T \cup {x}) /\ Cardinality(T \cup {x}) = Cardinality(T) + 1
  BY <1>1, <1>2, FS_AddElement
<1> QED
  BY <1>1, <1>2, <1>3 DEF Numbered

\* An UPDATE of one row keeps the numbers.
LEMMA NumberedReplace ==
    ASSUME NEW T, Numbered(T), NEW x \in T, NEW y, y.id = x.id
    PROVE  Numbered((T \ {x}) \cup {y})
<1> DEFINE U == T \ {x}
<1>1. IsFiniteSet(T) /\ Cardinality(T) \in Nat
  BY FS_CardinalityType DEF Numbered
<1>2. IsFiniteSet(U) /\ Cardinality(U) = Cardinality(T) - 1
  BY <1>1, FS_RemoveElement
<1>3. y \notin U
  BY DEF Numbered
<1>4. \A z \in U : z.id \in 1 .. Cardinality(T) /\ z.id # x.id
  BY DEF Numbered
<1>5. x.id \in 1 .. Cardinality(T) /\ \A z, w \in U : z.id = w.id => z = w
  BY DEF Numbered
<1> HIDE DEF U
<1>6. IsFiniteSet(U \cup {y}) /\ Cardinality(U \cup {y}) = Cardinality(T)
  <2>1. IsFiniteSet(U \cup {y}) /\ Cardinality(U \cup {y}) = Cardinality(U) + 1
    BY <1>2, <1>3, FS_AddElement
  <2> QED
    BY <1>1, <1>2, <2>1
<1>7. Numbered(U \cup {y})
  BY <1>4, <1>5, <1>6 DEF Numbered
<1> QED
  BY <1>7 DEF U

\* An UPDATE of many rows keeps the numbers.
LEMMA NumberedImage ==
    ASSUME NEW T, Numbered(T), NEW U, NEW f \in [T -> U], \A y \in U : \E x \in T : y = f[x],
           \A x \in T : f[x].id = x.id
    PROVE  Numbered(U)
<1>1. f \in Bijection(T, U)
  <2>1. f \in Injection(T, U)
    BY DEF Injection, IsInjective, Numbered
  <2>2. f \in Surjection(T, U)
    BY DEF Surjection
  <2> QED
    BY <2>1, <2>2 DEF Bijection
<1>2. IsFiniteSet(U) /\ Cardinality(U) = Cardinality(T)
  BY <1>1, FS_Bijection DEF ExistsBijection, Numbered
<1> QED
  BY <1>2 DEF Numbered

-----------------------------------------------------------------------------
(* What no step takes back *)

\* Accounts stay, with their address and, once linked, their Google account.
UsersGrow == \A u \in users : \E v \in users' :
    v.id = u.id /\ v.email = u.email /\ (u.sub # None => v.sub = u.sub)

\* New states are those of new flows.
StatesGrow == flows' \in Int /\ flows <= flows' /\ \A n \in states' : n \in states \/ n > flows

\* Codes stay, and a spent code is spent for good.
CodesGrow == \A c \in codes : \E d \in codes' :
    d.id = c.id /\ d.user = c.user /\ (~ c.usable => ~ d.usable)

\* The steps of others leave a request what it holds and what it has learnt.
LEMMA RequestKept ==
    ASSUME NEW r \in Request, RequestInv(r), UsersGrow, StatesGrow, CodesGrow, flows \in Int,
           InFlow(r) => \A d \in codes' : (\E c \in codes : c.flow = d.flow) \/ d.flow # r.flow,
           r.pc = "session" /\ r.code # 0 =>
              \A s \in sessions' : (\E t \in sessions : t.code = s.code) \/ s.code # r.code,
           faults \in Int, faults' \in Int, faults <= faults', None \notin Emails
    PROVE  RequestInv(r)'
<1>1. FlowHeld(r)'
  BY DEF RequestInv, FlowHeld, StatesGrow
<1>2. Vouched(r)'
  BY DEF RequestInv, Vouched
<1>3. Learnt(r)'
  <2>1. r.sub # None /\ Carries(r.id, r.sub) => Carries(r.id, r.sub)'
    BY DEF Carries, UsersGrow
  <2>2. EmailTaken(r.email) => EmailTaken(r.email)'
    BY DEF EmailTaken, ByEmail, UsersGrow
  <2>3. r.pc = "code" => r.sub # None
    BY SignInNulls DEF RequestInv, Vouched, InFlow
  <2>4. r.pc = "attach" => \E u \in users' : u.id = r.id /\ u.email = r.email
    BY DEF RequestInv, Learnt, UsersGrow
  <2> QED
    BY <2>1, <2>2, <2>3, <2>4 DEF RequestInv, Learnt
<1>4. CodeHeld(r)'
  <2>1. Taken(r.code, r.id) => Taken(r.code, r.id)'
    BY DEF Taken, CodesGrow
  <2> QED
    BY <2>1 DEF RequestInv, CodeHeld
<1>5. AnswerOf(r)'
  <2>1. r.email \in Emails => r.sub # None
    BY SignInNulls DEF RequestInv, Vouched
  <2>2. r.sub # None /\ Clash(r) => Clash(r)'
    BY DEF Clash, UsersGrow
  <2> QED
    BY <2>1, <2>2 DEF RequestInv, AnswerOf
<1> QED
  BY <1>1, <1>2, <1>3, <1>4, <1>5 DEF RequestInv

\* Without a write the users table keeps its invariant.
LEMMA SameUsers ==
    ASSUME users' = users
    PROVE  (UsersInv => UsersInv') /\ UsersGrow /\ (\A id : HasPassword(id) => HasPassword(id)')
BY DEF UsersInv, Numbered, UsersGrow, HasPassword

\* Codes keep their invariant while accounts keep their subjects.
LEMMA SameCodes ==
    ASSUME CodesInv, codes' = codes, UsersGrow, StatesGrow, flows \in Int
    PROVE  CodesInv' /\ CodesGrow
<1>1. CodesGrow
  BY DEF CodesGrow
<1>2. codes' \subseteq [id : Nat, flow : 1 .. flows', user : Nat, sub : Subs, usable : BOOLEAN]
  BY DEF CodesInv, StatesGrow
<1>3. Numbered(codes)'
  BY DEF CodesInv, Numbered
<1>4. \A c \in codes' : c.flow \notin states'
  BY DEF CodesInv, StatesGrow
<1>5. \A c \in codes' : Carries(c.user, c.sub)'
  BY SignInNulls DEF CodesInv, Carries, UsersGrow
<1> QED
  BY <1>1, <1>2, <1>3, <1>4, <1>5 DEF CodesInv

\* Sessions keep their invariant while codes stay taken and passwords stay.
LEMMA SameSessions ==
    ASSUME SessionsInv, sessions' = sessions, CodesGrow, \A id : HasPassword(id) => HasPassword(id)'
    PROVE  SessionsInv'
<1>1. \A code, id : Taken(code, id) => Taken(code, id)'
  BY DEF Taken, CodesGrow
<1>2. Numbered(sessions)'
  BY DEF SessionsInv, Numbered
<1> QED
  BY <1>1, <1>2 DEF SessionsInv

\* A step of p keeps the invariant when it keeps the tables' parts and p's
\* own, and p gets a flow or a code only by taking it.
LEMMA StepFrame ==
    ASSUME SignInInv, NEW p \in Procs, NEW new \in Request, Become(p, new),
           UsersInv', CodesInv', SessionsInv', UsersGrow, StatesGrow, CodesGrow,
           \A d \in codes' : (\E c \in codes : c.flow = d.flow) \/ (InFlow(proc[p]) /\ d.flow = proc[p].flow),
           \A s \in sessions' :
              (\E t \in sessions : t.code = s.code) \/ (At(p, "session") /\ s.code = proc[p].code),
           flows' \in 0 .. MaxFlows, states' \subseteq 1 .. flows', logins' \in 0 .. MaxLogins,
           faults' \in 0 .. MaxFaults, faults <= faults',
           InFlow(new) => (InFlow(proc[p]) /\ new.flow = proc[p].flow) \/ new.flow \in states,
           new.pc = "session" /\ new.code # 0 => \E c \in codes : c.id = new.code /\ c.usable,
           RequestInv(new)'
    PROVE  SignInInv'
<1>1. /\ proc \in [Procs -> Request] /\ flows \in Int /\ faults \in Int /\ faults' \in Int /\ None \notin Emails
      /\ CodesInv /\ \A q \in Procs : RequestInv(proc[q])
      /\ \A q, t \in Procs : q # t => HoldApart(proc[q], proc[t])
  BY SignInBounds, SignInNulls DEF SignInInv
<1>2. /\ proc' \in [Procs -> Request] /\ proc'[p] = new
      /\ \A q \in Procs : q # p => proc'[q] = proc[q]
  BY <1>1 DEF Become
<1>3. ASSUME NEW q \in Procs, q # p  PROVE RequestInv(proc[q])'
  <2>1. PICK r \in Request : r = proc[q]
    BY <1>1
  <2>2. RequestInv(r) /\ HoldApart(proc[p], r)
    BY <1>1, <1>3, <2>1
  <2>3. InFlow(r) => \A d \in codes' : (\E c \in codes : c.flow = d.flow) \/ d.flow # r.flow
    BY <2>2 DEF HoldApart
  <2>4. r.pc = "session" /\ r.code # 0 =>
           \A s \in sessions' : (\E t \in sessions : t.code = s.code) \/ s.code # r.code
    BY <2>2 DEF HoldApart, At
  <2>5. RequestInv(r)'
    BY <1>1, <2>2, <2>3, <2>4, RequestKept
  <2>6. proc'[q] = r
    BY <1>2, <1>3, <2>1
  <2> QED
    BY <2>5, <2>6
<1>4. RequestInv(proc[p])'
  BY <1>2
<1>5. ASSUME NEW q \in Procs, q # p  PROVE HoldApart(new, proc[q]) /\ HoldApart(proc[q], new)
  <2>1. RequestInv(proc[q]) /\ HoldApart(proc[p], proc[q])
    BY <1>1, <1>5
  <2>2. InFlow(new) /\ InFlow(proc[q]) => new.flow # proc[q].flow
    BY <2>1 DEF HoldApart, RequestInv, FlowHeld
  <2>3. new.pc = "session" /\ proc[q].pc = "session" /\ new.code = proc[q].code => new.code = 0
    BY <1>1, <2>1 DEF RequestInv, CodeHeld, Taken, CodesInv, Numbered
  <2> QED
    BY <2>2, <2>3 DEF HoldApart
<1>6. \A q, t \in Procs : q # t => HoldApart(proc'[q], proc'[t])
  BY <1>1, <1>2, <1>5
<1> QED
  BY <1>2, <1>3, <1>4, <1>6 DEF SignInInv

\* A step that moves p on and may change accounts.
LEMMA AccountStep ==
    ASSUME SignInInv, NEW p \in Procs, NEW new \in Request, Become(p, new),
           UsersInv', UsersGrow, \A id : HasPassword(id) => HasPassword(id)',
           UNCHANGED <<flows, states, codes, sessions>>,
           logins' \in 0 .. MaxLogins, faults' \in 0 .. MaxFaults, faults <= faults',
           InFlow(new) => InFlow(proc[p]) /\ new.flow = proc[p].flow,
           new.pc = "session" => new.code = 0,
           Vouched(new), Learnt(new)', AnswerOf(new)'
    PROVE  SignInInv'
<1>1. /\ CodesInv /\ SessionsInv /\ flows \in 0 .. MaxFlows /\ flows \in Int
      /\ states \subseteq 1 .. flows /\ RequestInv(proc[p])
  BY SignInBounds DEF SignInInv
<1>2. StatesGrow
  BY <1>1 DEF StatesGrow
<1>3. CodesInv' /\ CodesGrow
  BY <1>1, <1>2, SameCodes
<1>4. SessionsInv'
  BY <1>1, <1>3, SameSessions
<1>5. RequestInv(new)'
  <2>1. FlowHeld(new)' /\ Vouched(new)' /\ CodeHeld(new)'
    BY <1>1 DEF RequestInv, FlowHeld, Vouched, CodeHeld
  <2> QED
    BY <2>1 DEF RequestInv
<1>6. /\ flows' \in 0 .. MaxFlows /\ states' \subseteq 1 .. flows'
      /\ \A d \in codes' : \E c \in codes : c.flow = d.flow
      /\ \A s \in sessions' : \E t \in sessions : t.code = s.code
      /\ new.pc = "session" /\ new.code # 0 => \E c \in codes : c.id = new.code /\ c.usable
  BY <1>1
<1> QED
  BY <1>2, <1>3, <1>4, <1>5, <1>6, StepFrame

\* A step that only moves p on.
LEMMA MoveStep ==
    ASSUME SignInInv, NEW p \in Procs, NEW new \in Request, Become(p, new),
           UNCHANGED <<users, flows, states, codes, sessions>>,
           logins' \in 0 .. MaxLogins, faults' \in 0 .. MaxFaults, faults <= faults',
           InFlow(new) => InFlow(proc[p]) /\ new.flow = proc[p].flow,
           new.pc = "session" => new.code = 0,
           Vouched(new), Learnt(new), AnswerOf(new)'
    PROVE  SignInInv'
<1>1. UsersInv' /\ UsersGrow /\ (\A id : HasPassword(id) => HasPassword(id)')
  BY SameUsers DEF SignInInv
<1>2. Learnt(new)'
  BY DEF Learnt, EmailTaken, ByEmail, Carries
<1> QED
  BY <1>1, <1>2, AccountStep

-----------------------------------------------------------------------------
(* Steps that read the tables *)

\* A request that has not begun is well typed and holds nothing.
LEMMA FreshFacts ==
    /\ Fresh \in Request /\ Fresh.sub = None /\ Fresh.email = None /\ Fresh.code = 0
    /\ Fresh.id = 0 /\ Fresh.flow = 0
BY DEF Fresh, Request, Phase, Reply

\* A request that answers gives up what it held.
LEMMA AnswerStep ==
    ASSUME SignInInv, NEW p \in Procs, NEW reply \in Reply, Answer(p, reply),
           UNCHANGED <<users, flows, states, codes, sessions>>,
           logins' \in 0 .. MaxLogins, faults' \in 0 .. MaxFaults, faults <= faults',
           reply = "error" => faults' > 0,
           reply = "invalid_token" /\ proc[p].email \in Emails => Clash(proc[p])
    PROVE  SignInInv'
<1>1. proc[p] \in Request /\ RequestInv(proc[p])
  BY DEF SignInInv
<1>2. PICK new : new = [proc[p] EXCEPT !.pc = "done", !.reply = reply]
  OBVIOUS
<1>3. "done" \in Phase
  BY DEF Phase
<1>4. /\ new \in Request /\ new.pc = "done" /\ new.reply = reply /\ new.sub = proc[p].sub
      /\ new.email = proc[p].email
  BY <1>1, <1>2, <1>3 DEF Request
<1>5. Become(p, new)
  BY <1>2 DEF Answer, Become
<1>6. ~ InFlow(new) /\ Vouched(new) /\ Learnt(new)
  BY <1>1, <1>4 DEF InFlow, Vouched, Learnt, RequestInv
<1>7. AnswerOf(new)'
  BY <1>4 DEF AnswerOf, Clash
<1> QED
  BY <1>4, <1>5, <1>6, <1>7, MoveStep

\* A request that is refused at once holds nothing.
LEMMA AnswerNewStep ==
    ASSUME SignInInv, NEW p \in Procs, NEW reply \in Reply \ {"error"}, AnswerNew(p, reply),
           UNCHANGED <<users, flows, states, codes, sessions>>,
           logins' \in 0 .. MaxLogins, faults' = faults
    PROVE  SignInInv'
<1>1. PICK new : new = [Fresh EXCEPT !.pc = "done", !.reply = reply]
  OBVIOUS
<1>2. "done" \in Phase
  BY DEF Phase
<1>3. new \in Request /\ new.pc = "done" /\ new.reply = reply /\ new.sub = None /\ new.email = None
  BY <1>1, <1>2, FreshFacts DEF Request
<1>4. Become(p, new)
  BY <1>1 DEF AnswerNew, Become
<1>5. ~ InFlow(new) /\ Vouched(new) /\ Learnt(new) /\ AnswerOf(new)'
  BY <1>3, SignInNulls DEF InFlow, Vouched, Learnt, AnswerOf
<1>6. faults' \in 0 .. MaxFaults /\ faults <= faults'
  BY DEF SignInInv
<1> QED
  BY <1>3, <1>4, <1>5, <1>6, MoveStep

\* A callback moves on with what it has learnt.
LEMMA GotoStep ==
    ASSUME SignInInv, NEW p \in Procs, NEW id \in Nat,
           NEW phase \in {"byEmail", "create", "byEmailAgain", "attach", "code"}, Goto(p, phase, id),
           InFlow(proc[p]), proc[p].pc # "verify",
           UNCHANGED <<users, flows, states, codes, sessions, logins, faults>>,
           phase \in {"byEmail", "create", "byEmailAgain"} => proc[p].email \in Emails,
           phase = "byEmailAgain" => EmailTaken(proc[p].email),
           phase = "attach" => \E u \in users : u.id = id /\ u.email = proc[p].email,
           phase = "code" => Carries(id, proc[p].sub)
    PROVE  SignInInv'
<1>1. proc[p] \in Request /\ RequestInv(proc[p])
  BY DEF SignInInv
<1>2. PICK new : new = [proc[p] EXCEPT !.pc = phase, !.id = id]
  OBVIOUS
<1>3. phase \in Phase
  BY DEF Phase
<1>4. /\ new \in Request /\ new.pc = phase /\ new.id = id /\ new.sub = proc[p].sub
      /\ new.email = proc[p].email /\ new.flow = proc[p].flow
  BY <1>1, <1>2, <1>3 DEF Request
<1>5. Become(p, new)
  BY <1>2 DEF Goto, Become
<1>6. Vouched(new)
  BY <1>1, <1>4 DEF RequestInv, Vouched
<1>7. Learnt(new)
  BY <1>4 DEF Learnt
<1>8. AnswerOf(new)' /\ new.pc # "session"
  BY <1>4 DEF AnswerOf
<1>9. faults' \in 0 .. MaxFaults /\ faults <= faults' /\ logins' \in 0 .. MaxLogins
  BY DEF SignInInv
<1> QED
  BY <1>4, <1>5, <1>6, <1>7, <1>8, <1>9, MoveStep

\* Login checks the password and goes on to its session, or is refused.
LEMMA LoginStep ==
    ASSUME SignInInv, NEW p \in Procs, NEW e, NEW w, Login(p, e, w)
    PROVE  SignInInv'
<1>1. /\ UNCHANGED <<users, flows, states, codes, sessions>> /\ faults' = faults
      /\ logins' \in 0 .. MaxLogins
  <2>1. logins < MaxLogins /\ logins' = logins + 1 /\ UNCHANGED <<users, flows, states, codes, sessions, faults>>
    BY DEF Login
  <2>2. logins \in 0 .. MaxLogins
    BY DEF SignInInv
  <2> QED
    BY <2>1, <2>2, SignInBounds
<1>2. ASSUME NEW reply \in {"credentials", "password_unavailable"}, AnswerNew(p, reply)
      PROVE  SignInInv'
  <2>1. reply \in Reply \ {"error"}
    BY DEF Reply, APIReply
  <2> QED
    BY <1>1, <1>2, <2>1, AnswerNewStep
<1>3. ASSUME NEW u \in users, Become(p, [Fresh EXCEPT !.pc = "session", !.id = u.id])
      PROVE  SignInInv'
  <2>1. PICK new : new = [Fresh EXCEPT !.pc = "session", !.id = u.id]
    OBVIOUS
  <2>2. "session" \in Phase /\ u.id \in Nat
    BY DEF Phase, SignInInv, UsersInv, User
  <2>3. new \in Request /\ new.pc = "session" /\ new.code = 0 /\ new.sub = None /\ new.email = None
    BY <2>1, <2>2, FreshFacts DEF Request
  <2>4. Become(p, new)
    BY <1>3, <2>1 DEF Become
  <2>5. ~ InFlow(new) /\ Vouched(new) /\ Learnt(new) /\ AnswerOf(new)'
    BY <2>3 DEF InFlow, Vouched, Learnt, AnswerOf
  <2>6. faults' \in 0 .. MaxFaults /\ faults <= faults'
    BY <1>1 DEF SignInInv
  <2> QED
    BY <1>1, <2>3, <2>4, <2>5, <2>6, MoveStep
<1> QED
  BY <1>2, <1>3 DEF Login, ByEmail

\* The callback learns the subject and the address from the id token.
LEMMA VerifyStep ==
    ASSUME SignInInv, NEW p \in Procs, NEW g \in Subs, NEW e \in Emails \cup {BadEmail},
           NEW isVerified \in BOOLEAN, Verify(p, g, e, isVerified)
    PROVE  SignInInv'
<1>1. /\ UNCHANGED <<users, flows, states, codes, sessions>> /\ faults' = faults /\ logins' = logins
      /\ logins' \in 0 .. MaxLogins /\ faults' \in 0 .. MaxFaults /\ faults <= faults'
      /\ proc[p] \in Request /\ proc[p].pc = "verify"
  BY DEF Verify, SignInInv, At
<1>2. CASE isVerified
  <2>1. PICK new : new = [proc[p] EXCEPT !.pc = "bySub", !.sub = g, !.email = e]
    OBVIOUS
  <2>2. "bySub" \in Phase
    BY DEF Phase
  <2>3. /\ new \in Request /\ new.pc = "bySub" /\ new.sub = g /\ new.email = e
        /\ new.flow = proc[p].flow
    BY <1>1, <2>1, <2>2 DEF Request
  <2>4. Become(p, new)
    BY <1>2, <2>1 DEF Verify, Become
  <2>5. InFlow(proc[p]) /\ Vouched(new) /\ Learnt(new) /\ AnswerOf(new)'
    BY <1>1, <2>3 DEF InFlow, Vouched, Learnt, AnswerOf
  <2> QED
    BY <1>1, <2>3, <2>4, <2>5, MoveStep
<1>3. CASE ~ isVerified
  <2>1. Answer(p, "email_unverified")
    BY <1>3 DEF Verify
  <2> QED
    BY <1>1, <2>1, AnswerStep DEF Reply, CallbackReply
<1> QED
  BY <1>2, <1>3

\* A refused id token ends the callback.
LEMMA VerifyFailsStep ==
    ASSUME SignInInv, NEW p \in Procs, VerifyFails(p)
    PROVE  SignInInv'
<1>1. /\ UNCHANGED <<users, flows, states, codes, sessions>> /\ Answer(p, "invalid_token")
      /\ logins' \in 0 .. MaxLogins /\ faults' \in 0 .. MaxFaults /\ faults <= faults'
      /\ proc[p].pc = "verify" /\ RequestInv(proc[p]) /\ "invalid_token" \in Reply
  BY DEF VerifyFails, SignInInv, At, Reply, CallbackReply
<1>2. proc[p].email \notin Emails
  BY <1>1, SignInNulls DEF RequestInv, Learnt
<1> QED
  BY <1>1, <1>2, AnswerStep

\* The look-up by Google subject.
LEMMA ResolveBySubStep ==
    ASSUME SignInInv, NEW p \in Procs, ResolveBySub(p)
    PROVE  SignInInv'
<1>1. /\ UNCHANGED <<users, flows, states, codes, sessions, logins, faults>>
      /\ logins' \in 0 .. MaxLogins /\ faults' \in 0 .. MaxFaults /\ faults <= faults'
      /\ proc[p].pc = "bySub" /\ users \subseteq User
  BY DEF ResolveBySub, SignInInv, UsersInv, At
<1>2. InFlow(proc[p]) /\ proc[p].pc # "verify"
  BY <1>1 DEF InFlow
<1>3. ASSUME NEW u \in ByGoogleSub(proc[p].sub), Goto(p, "code", u.id)  PROVE SignInInv'
  <2>1. u.id \in Nat /\ Carries(u.id, proc[p].sub)
    BY <1>1, <1>3 DEF ByGoogleSub, User, Carries
  <2> QED
    BY <1>1, <1>2, <1>3, <2>1, GotoStep
<1>4. ASSUME ValidEmail(proc[p].email), Goto(p, "byEmail", 0)  PROVE SignInInv'
  BY <1>1, <1>2, <1>4, GotoStep DEF ValidEmail
<1>5. ASSUME ~ ValidEmail(proc[p].email), Answer(p, "invalid_token")  PROVE SignInInv'
  BY <1>1, <1>5, AnswerStep DEF ValidEmail, Reply, CallbackReply
<1> QED
  BY <1>3, <1>4, <1>5 DEF ResolveBySub

\* The look-up by address, before and after a failed insert.
LEMMA ResolveByEmailStep ==
    ASSUME SignInInv, NEW p \in Procs, ResolveByEmail(p)
    PROVE  SignInInv'
<1>1. /\ UNCHANGED <<users, flows, states, codes, sessions, logins, faults>>
      /\ logins' \in 0 .. MaxLogins /\ faults' \in 0 .. MaxFaults /\ faults <= faults'
      /\ users \subseteq User /\ RequestInv(proc[p])
  BY DEF ResolveByEmail, SignInInv, UsersInv
<1>2. proc[p].pc \in {"byEmail", "byEmailAgain"}
  BY DEF ResolveByEmail, At
<1>3. InFlow(proc[p]) /\ proc[p].pc # "verify" /\ proc[p].email \in Emails /\ proc[p].sub # None
  BY <1>1, <1>2, SignInNulls DEF InFlow, RequestInv, Learnt, Vouched
<1>4. ASSUME NEW u \in ByEmail(proc[p].email), AttachStep(p, u)  PROVE SignInInv'
  <2>1. u \in users /\ u.id \in Nat /\ u.email = proc[p].email
    BY <1>1, <1>4 DEF ByEmail, User
  <2>2. CASE u.sub = None
    <3>1. Goto(p, "attach", u.id)
      BY <1>3, <1>4, <2>2 DEF AttachStep
    <3> QED
      BY <1>1, <1>3, <2>1, <3>1, GotoStep
  <2>3. CASE u.sub # None /\ u.sub = proc[p].sub
    <3>1. Goto(p, "code", u.id)
      BY <1>4, <2>3 DEF AttachStep
    <3>2. Carries(u.id, proc[p].sub)
      BY <2>1, <2>3 DEF Carries
    <3> QED
      BY <1>1, <1>3, <2>1, <3>1, <3>2, GotoStep
  <2>4. CASE u.sub # None /\ u.sub # proc[p].sub
    <3>1. Answer(p, "invalid_token")
      BY <1>4, <2>4 DEF AttachStep
    <3>2. Clash(proc[p])
      BY <2>1, <2>4 DEF Clash
    <3>3. "invalid_token" \in Reply
      BY DEF Reply, CallbackReply
    <3> QED
      BY <1>1, <3>1, <3>2, <3>3, AnswerStep
  <2> QED
    BY <2>2, <2>3, <2>4
<1>5. ASSUME At(p, "byEmail"), Goto(p, "create", 0)  PROVE SignInInv'
  BY <1>1, <1>3, <1>5, GotoStep
<1>6. ByEmail(proc[p].email) = {} => At(p, "byEmail")
  BY <1>1, <1>2 DEF RequestInv, Learnt, EmailTaken, At
<1> QED
  BY <1>4, <1>5, <1>6 DEF ResolveByEmail

\* A fault ends a request and leaves what it has written.
LEMMA FailStep ==
    ASSUME SignInInv, NEW p \in Procs, Fail(p)
    PROVE  SignInInv'
<1>1. faults < MaxFaults /\ faults' = faults + 1 /\ faults \in 0 .. MaxFaults
  BY DEF Fail, SignInInv
<1>2. faults' \in 0 .. MaxFaults /\ faults <= faults' /\ faults' > 0
  BY <1>1, SignInBounds
<1>3. /\ UNCHANGED <<users, flows, states, codes, sessions>> /\ logins' \in 0 .. MaxLogins
      /\ Answer(p, "error") /\ "error" \in Reply
  BY DEF Fail, SignInInv, Reply, APIReply
<1> QED
  BY <1>2, <1>3, AnswerStep

-----------------------------------------------------------------------------
(* Accounts are created *)

\* The unique indexes let the row in, and its number is new.
LEMMA UserAdded ==
    ASSUME UsersInv, NEW e \in Emails, NEW w \in Passwords \cup {None}, NEW g \in Subs \cup {None},
           NEW isVerified \in BOOLEAN, Insert(e, w, g, isVerified), NEW id, id = NextId,
           ~ EmailTaken(e), w # None \/ g # None, g = None \/ ByGoogleSub(g) = {}
    PROVE  /\ UsersInv' /\ UsersGrow /\ (\A i : HasPassword(i) => HasPassword(i)')
           /\ id \in Nat /\ Carries(id, g)'
<1>1. PICK x : x = [id |-> id, email |-> e, pw |-> w, sub |-> g, verified |-> isVerified]
  OBVIOUS
<1>2. x.id = id /\ x.email = e /\ x.pw = w /\ x.sub = g
  BY <1>1
<1>3. users' = users \cup {x}
  BY <1>1 DEF Insert
<1>4. \A T, y : Numbered(T) /\ y.id = Cardinality(T) + 1 => Numbered(T \cup {y}) /\ Cardinality(T) \in Nat
  BY NumberedAdd
<1>5. Numbered(users \cup {x}) /\ Cardinality(users) \in Nat
  BY <1>2, <1>4 DEF UsersInv, NextId
<1>6. id \in Nat
  BY <1>5 DEF NextId
<1>7. x \in User
  BY <1>1, <1>6 DEF User
<1>8. Numbered(users)'
  BY <1>3, <1>5 DEF Numbered
<1>9. \A u \in users : u.email # e /\ (g # None => u.sub # g)
  BY DEF EmailTaken, ByEmail, ByGoogleSub
<1>10. UsersInv'
  BY <1>2, <1>3, <1>7, <1>8, <1>9 DEF UsersInv
<1>11. UsersGrow /\ (\A i : HasPassword(i) => HasPassword(i)') /\ Carries(id, g)'
  BY <1>2, <1>3 DEF UsersGrow, HasPassword, Carries
<1> QED
  BY <1>6, <1>10, <1>11

\* Register inserts an account whose address is free.
LEMMA RegisterStep ==
    ASSUME SignInInv, NEW p \in Procs, NEW e, NEW w, Register(p, e, w)
    PROVE  SignInInv'
<1>1. /\ UNCHANGED <<flows, states, codes, sessions>> /\ faults' = faults /\ faults \in 0 .. MaxFaults
      /\ logins' \in 0 .. MaxLogins /\ faults' \in 0 .. MaxFaults /\ faults <= faults'
  <2>1. logins < MaxLogins /\ logins' = logins + 1 /\ UNCHANGED <<flows, states, codes, sessions, faults>>
    BY DEF Register
  <2>2. logins \in 0 .. MaxLogins /\ faults \in 0 .. MaxFaults
    BY DEF SignInInv
  <2> QED
    BY <2>1, <2>2, SignInBounds
<1>2. CASE ValidEmail(e) /\ ValidPassword(w) /\ ~ EmailTaken(e)
  <2>1. PICK id : id = NextId
    OBVIOUS
  <2>2. /\ Insert(e, w, None, FALSE) /\ Become(p, [Fresh EXCEPT !.pc = "session", !.id = NextId])
        /\ e \in Emails /\ w \in Passwords /\ w # None
    BY <1>2, SignInNulls DEF Register, ValidEmail, ValidPassword
  <2>3. UsersInv' /\ UsersGrow /\ (\A i : HasPassword(i) => HasPassword(i)') /\ id \in Nat
    <3>1. UsersInv /\ ~ EmailTaken(e)
      BY <1>2 DEF SignInInv
    <3>2. w \in Passwords \cup {None} /\ None \in Subs \cup {None} /\ FALSE \in BOOLEAN
      BY <2>2
    <3> QED
      BY <2>1, <2>2, <3>1, <3>2, UserAdded
  <2>4. PICK new : new = [Fresh EXCEPT !.pc = "session", !.id = id]
    OBVIOUS
  <2>5. "session" \in Phase
    BY DEF Phase
  <2>6. new \in Request /\ new.pc = "session" /\ new.code = 0 /\ new.sub = None /\ new.email = None
    BY <2>3, <2>4, <2>5, FreshFacts DEF Request
  <2>7. Become(p, new)
    BY <2>1, <2>2, <2>4 DEF Become
  <2>8. ~ InFlow(new) /\ Vouched(new) /\ Learnt(new)' /\ AnswerOf(new)'
    BY <2>6 DEF InFlow, Vouched, Learnt, AnswerOf
  <2> QED
    BY <1>1, <2>3, <2>6, <2>7, <2>8, AccountStep
<1>3. CASE ~ (ValidEmail(e) /\ ValidPassword(w) /\ ~ EmailTaken(e))
  <2>1. PICK reply \in {"email_taken", "invalid"} : AnswerNew(p, reply)
    BY <1>3 DEF Register
  <2>2. users' = users /\ reply \in Reply \ {"error"}
    BY <1>3 DEF Register, Reply, APIReply
  <2> QED
    BY <1>1, <2>1, <2>2, AnswerNewStep
<1> QED
  BY <1>2, <1>3

\* The insert of an account for a Google subject, or its unique violation.
LEMMA CreateGoogleUserStep ==
    ASSUME SignInInv, NEW p \in Procs, CreateGoogleUser(p)
    PROVE  SignInInv'
<1>1. /\ UNCHANGED <<flows, states, codes, sessions, logins, faults>> /\ proc[p].pc = "create"
      /\ logins' \in 0 .. MaxLogins /\ faults' \in 0 .. MaxFaults /\ faults <= faults'
      /\ proc[p] \in Request /\ RequestInv(proc[p])
  BY DEF CreateGoogleUser, SignInInv, At
<1>2. /\ InFlow(proc[p]) /\ proc[p].pc # "verify" /\ proc[p].email \in Emails /\ proc[p].sub \in Subs
      /\ proc[p].sub # None
  BY <1>1, SignInNulls DEF InFlow, RequestInv, Learnt, Vouched
<1>3. CASE ~ EmailTaken(proc[p].email) /\ ByGoogleSub(proc[p].sub) = {}
  <2>1. PICK id, e, g : id = NextId /\ e = proc[p].email /\ g = proc[p].sub
    OBVIOUS
  <2>2. Insert(proc[p].email, None, proc[p].sub, TRUE) /\ Goto(p, "code", NextId)
    BY <1>3 DEF CreateGoogleUser
  <2>3. Insert(e, None, g, TRUE)
    BY <2>1, <2>2 DEF Insert
  <2>4. /\ UsersInv' /\ UsersGrow /\ (\A i : HasPassword(i) => HasPassword(i)')
        /\ id \in Nat /\ Carries(id, g)'
    <3>1. UsersInv /\ ~ EmailTaken(e) /\ ByGoogleSub(g) = {} /\ e \in Emails
      BY <1>2, <1>3, <2>1 DEF SignInInv
    <3>2. g \in Subs \cup {None} /\ g # None /\ None \in Passwords \cup {None} /\ TRUE \in BOOLEAN
      BY <1>2, <2>1
    <3> QED
      BY <2>1, <2>3, <3>1, <3>2, UserAdded
  <2>5. PICK new : new = [proc[p] EXCEPT !.pc = "code", !.id = id]
    OBVIOUS
  <2>6. "code" \in Phase
    BY DEF Phase
  <2>7. /\ new \in Request /\ new.pc = "code" /\ new.id = id /\ new.sub = g /\ new.flow = proc[p].flow
    BY <1>1, <2>1, <2>4, <2>5, <2>6 DEF Request
  <2>8. Become(p, new)
    BY <2>1, <2>2, <2>5 DEF Goto, Become
  <2>9. Vouched(new) /\ Learnt(new)' /\ AnswerOf(new)'
    BY <1>2, <2>1, <2>4, <2>7 DEF Vouched, Learnt, AnswerOf
  <2> QED
    BY <1>1, <1>2, <2>4, <2>7, <2>8, <2>9, AccountStep
<1>4. CASE EmailTaken(proc[p].email)
  <2>1. Goto(p, "byEmailAgain", 0) /\ users' = users
    BY <1>4 DEF CreateGoogleUser, CreateRefused
  <2> QED
    BY <1>1, <1>2, <1>4, <2>1, GotoStep
<1>5. CASE ~ EmailTaken(proc[p].email) /\ ByGoogleSub(proc[p].sub) # {}
  <2>1. Answer(p, "invalid_token") /\ users' = users /\ "invalid_token" \in Reply
    BY <1>5 DEF CreateGoogleUser, CreateRefused, Reply, CallbackReply
  <2>2. Clash(proc[p])
    BY <1>5 DEF Clash, EmailTaken, ByEmail, ByGoogleSub
  <2> QED
    BY <1>1, <2>1, <2>2, AnswerStep
<1> QED
  BY <1>3, <1>4, <1>5

-----------------------------------------------------------------------------
(* Flows and codes *)

\* A new flow has a state of its own.
LEMMA StartGoogleFlowStep ==
    ASSUME SignInInv, NEW p \in Procs, StartGoogleFlow(p)
    PROVE  SignInInv'
<1>1. /\ UNCHANGED <<users, codes, sessions, logins, faults>> /\ AnswerNew(p, "started")
      /\ flows < MaxFlows /\ flows' = flows + 1 /\ states' = states \cup {flows + 1}
  BY DEF StartGoogleFlow
<1>2. /\ UsersInv /\ CodesInv /\ SessionsInv /\ flows \in Nat /\ states \subseteq 1 .. flows
      /\ logins' \in 0 .. MaxLogins /\ faults' \in 0 .. MaxFaults /\ faults <= faults'
  BY <1>1, SignInBounds DEF SignInInv
<1>3. flows' \in 0 .. MaxFlows /\ states' \subseteq 1 .. flows' /\ StatesGrow
  BY <1>1, <1>2, SignInBounds DEF StatesGrow
<1>4. UsersInv' /\ UsersGrow /\ (\A id : HasPassword(id) => HasPassword(id)')
  BY <1>1, <1>2, SameUsers
<1>5. CodesInv' /\ CodesGrow
  BY <1>1, <1>2, <1>3, <1>4, SameCodes
<1>6. SessionsInv'
  BY <1>1, <1>2, <1>4, <1>5, SameSessions
<1>7. PICK new : new = [Fresh EXCEPT !.pc = "done", !.reply = "started"]
  OBVIOUS
<1>8. "done" \in Phase /\ "started" \in Reply
  BY DEF Phase, Reply, APIReply
<1>9. new \in Request /\ new.pc = "done" /\ new.reply = "started" /\ new.sub = None /\ new.email = None
  BY <1>7, <1>8, FreshFacts DEF Request
<1>10. Become(p, new)
  BY <1>1, <1>7 DEF AnswerNew, Become
<1>11. ~ InFlow(new) /\ RequestInv(new)'
  BY <1>9 DEF InFlow, RequestInv, FlowHeld, Vouched, Learnt, CodeHeld, AnswerOf
<1> QED
  BY <1>1, <1>2, <1>3, <1>4, <1>5, <1>6, <1>9, <1>10, <1>11, StepFrame

\* A state is in the table or with one request: no other has its flow.
LEMMA TakeStateStep ==
    ASSUME SignInInv, NEW p \in Procs, NEW n \in 1 .. flows, TakeState(p, n)
    PROVE  SignInInv'
<1>1. /\ UNCHANGED <<users, flows, codes, sessions, logins, faults>> /\ states' = states \ {n}
      /\ Become(p, IF n \in states THEN [Fresh EXCEPT !.pc = "verify", !.flow = n]
                                   ELSE [Fresh EXCEPT !.pc = "done", !.reply = "invalid_state"])
  BY DEF TakeState, StatesAfter, AnswerNew, Become
<1>2. /\ UsersInv /\ CodesInv /\ SessionsInv /\ flows \in Nat /\ states \subseteq 1 .. flows
      /\ logins' \in 0 .. MaxLogins /\ faults' \in 0 .. MaxFaults /\ faults <= faults'
      /\ flows' \in 0 .. MaxFlows
  BY <1>1, SignInBounds DEF SignInInv
<1>3. states' \subseteq 1 .. flows' /\ StatesGrow
  BY <1>1, <1>2 DEF StatesGrow
<1>4. UsersInv' /\ UsersGrow /\ (\A id : HasPassword(id) => HasPassword(id)')
  BY <1>1, <1>2, SameUsers
<1>5. CodesInv' /\ CodesGrow
  BY <1>1, <1>2, <1>3, <1>4, SameCodes
<1>6. SessionsInv'
  BY <1>1, <1>2, <1>4, <1>5, SameSessions
<1>7. CASE n \in states
  <2>1. PICK new : new = [Fresh EXCEPT !.pc = "verify", !.flow = n]
    OBVIOUS
  <2>2. "verify" \in Phase /\ n \in Nat
    BY <1>2 DEF Phase
  <2>3. new \in Request /\ new.pc = "verify" /\ new.flow = n /\ new.email = None
    BY <2>1, <2>2, FreshFacts DEF Request
  <2>4. Become(p, new)
    BY <1>1, <1>7, <2>1 DEF Become
  <2>5. FlowHeld(new)'
    BY <1>1, <1>2, <1>7, <2>3 DEF FlowHeld, CodesInv
  <2>6. RequestInv(new)'
    BY <2>3, <2>5 DEF InFlow, RequestInv, Vouched, Learnt, CodeHeld, AnswerOf
  <2> QED
    BY <1>1, <1>2, <1>3, <1>4, <1>5, <1>6, <1>7, <2>3, <2>4, <2>6, StepFrame
<1>8. CASE n \notin states
  <2>1. PICK new : new = [Fresh EXCEPT !.pc = "done", !.reply = "invalid_state"]
    OBVIOUS
  <2>2. "done" \in Phase /\ "invalid_state" \in Reply
    BY DEF Phase, Reply, CallbackReply
  <2>3. new \in Request /\ new.pc = "done" /\ new.reply = "invalid_state" /\ new.email = None
    BY <2>1, <2>2, FreshFacts DEF Request
  <2>4. Become(p, new)
    BY <1>1, <1>8, <2>1 DEF Become
  <2>5. ~ InFlow(new) /\ RequestInv(new)'
    BY <2>3 DEF InFlow, RequestInv, FlowHeld, Vouched, Learnt, CodeHeld, AnswerOf
  <2> QED
    BY <1>1, <1>2, <1>3, <1>4, <1>5, <1>6, <2>3, <2>4, <2>5, StepFrame
<1> QED
  BY <1>7, <1>8

\* The flow becomes a code of the account that carries the subject.
LEMMA CreateCodeStep ==
    ASSUME SignInInv, NEW p \in Procs, CreateCode(p)
    PROVE  SignInInv'
<1>1. /\ UNCHANGED <<users, flows, states, sessions, logins, faults>> /\ Answer(p, "code")
      /\ proc[p].pc = "code"
  BY DEF CreateCode, At
<1>2. /\ UsersInv /\ CodesInv /\ SessionsInv /\ flows \in Nat /\ states \subseteq 1 .. flows
      /\ logins' \in 0 .. MaxLogins /\ faults' \in 0 .. MaxFaults /\ faults <= faults'
      /\ flows' \in 0 .. MaxFlows /\ states' \subseteq 1 .. flows' /\ proc[p] \in Request
      /\ RequestInv(proc[p])
  BY <1>1, SignInBounds DEF SignInInv
<1>3. /\ InFlow(proc[p]) /\ proc[p].flow \in 1 .. flows /\ proc[p].flow \notin states
      /\ (\A c \in codes : c.flow # proc[p].flow) /\ proc[p].sub \in Subs
      /\ Carries(proc[p].id, proc[p].sub) /\ proc[p].id \in Nat
  BY <1>1, <1>2 DEF InFlow, RequestInv, FlowHeld, Vouched, Learnt, Request
<1>4. PICK x : x = [id |-> Cardinality(codes) + 1, flow |-> proc[p].flow, user |-> proc[p].id,
                    sub |-> proc[p].sub, usable |-> TRUE]
  OBVIOUS
<1>5. /\ x.id = Cardinality(codes) + 1 /\ x.flow = proc[p].flow /\ x.user = proc[p].id
      /\ x.sub = proc[p].sub
  BY <1>4
<1>6. codes' = codes \cup {x}
  BY <1>4 DEF CreateCode
<1>7. Numbered(codes \cup {x}) /\ Cardinality(codes) \in Nat
  <2>1. \A T, y : Numbered(T) /\ y.id = Cardinality(T) + 1 => Numbered(T \cup {y}) /\ Cardinality(T) \in Nat
    BY NumberedAdd
  <2> QED
    BY <1>2, <1>5, <2>1 DEF CodesInv
<1>8. x \in [id : Nat, flow : 1 .. flows, user : Nat, sub : Subs, usable : BOOLEAN]
  BY <1>3, <1>4, <1>7
<1>9. CodesInv'
  <2>1. Numbered(codes)'
    BY <1>6, <1>7 DEF Numbered
  <2>2. \A c \in codes' : c.flow \notin states' /\ Carries(c.user, c.sub)'
    BY <1>1, <1>2, <1>3, <1>5, <1>6 DEF CodesInv, Carries
  <2>3. \A c, d \in codes' : c.flow = d.flow => c = d
    BY <1>2, <1>3, <1>5, <1>6 DEF CodesInv
  <2>4. codes' \subseteq [id : Nat, flow : 1 .. flows', user : Nat, sub : Subs, usable : BOOLEAN]
    BY <1>1, <1>2, <1>6, <1>8 DEF CodesInv
  <2> QED
    BY <2>1, <2>2, <2>3, <2>4 DEF CodesInv
<1>10. CodesGrow /\ StatesGrow
  BY <1>1, <1>2, <1>6 DEF CodesGrow, StatesGrow
<1>11. UsersInv' /\ UsersGrow /\ (\A id : HasPassword(id) => HasPassword(id)')
  BY <1>1, <1>2, SameUsers
<1>12. SessionsInv'
  BY <1>1, <1>2, <1>10, <1>11, SameSessions
<1>13. PICK new : new = [proc[p] EXCEPT !.pc = "done", !.reply = "code"]
  OBVIOUS
<1>14. "done" \in Phase /\ "code" \in Reply
  BY DEF Phase, Reply, CallbackReply
<1>15. new \in Request /\ new.pc = "done" /\ new.reply = "code" /\ new.sub = proc[p].sub
  BY <1>2, <1>13, <1>14 DEF Request
<1>16. Become(p, new)
  BY <1>1, <1>13 DEF Answer, Become
<1>17. ~ InFlow(new) /\ RequestInv(new)'
  BY <1>3, <1>15 DEF InFlow, RequestInv, FlowHeld, Vouched, Learnt, CodeHeld, AnswerOf
<1>18. \A d \in codes' : (\E c \in codes : c.flow = d.flow) \/ (InFlow(proc[p]) /\ d.flow = proc[p].flow)
  BY <1>3, <1>5, <1>6
<1> QED
  BY <1>1, <1>2, <1>9, <1>10, <1>11, <1>12, <1>15, <1>16, <1>17, <1>18, StepFrame

\* DELETE ... RETURNING on a code: its row stays what it was, spent.
LEMMA CodeSpent ==
    ASSUME CodesInv, NEW c \in codes, Spend(c), UNCHANGED <<users, flows, states>>
    PROVE  /\ CodesInv' /\ CodesGrow /\ Taken(c.id, c.user)'
           /\ \A d \in codes' : \E b \in codes : b.flow = d.flow
<1>1. PICK x : x = [c EXCEPT !.usable = FALSE]
  OBVIOUS
<1>2. c \in [id : Nat, flow : 1 .. flows, user : Nat, sub : Subs, usable : BOOLEAN]
  BY DEF CodesInv
<1>3. x.id = c.id /\ x.flow = c.flow /\ x.user = c.user /\ x.sub = c.sub
  BY <1>1, <1>2
<1>4. ~ x.usable
  BY <1>1, <1>2
<1>5. x \in [id : Nat, flow : 1 .. flows, user : Nat, sub : Subs, usable : BOOLEAN]
  BY <1>1, <1>2
<1>6. codes' = (codes \ {c}) \cup {x}
  BY <1>1 DEF Spend
<1>7. Numbered((codes \ {c}) \cup {x})
  <2>1. \A T, y, z : Numbered(T) /\ y \in T /\ z.id = y.id => Numbered((T \ {y}) \cup {z})
    BY NumberedReplace
  <2> QED
    BY <1>3, <2>1 DEF CodesInv
<1>8. Numbered(codes)'
  BY <1>6, <1>7 DEF Numbered
<1>9. \A d \in codes' : d.flow \notin states' /\ Carries(d.user, d.sub)'
  BY <1>3, <1>6 DEF CodesInv, Carries
<1>10. \A b, d \in codes' : b.flow = d.flow => b = d
  BY <1>3, <1>6 DEF CodesInv
<1>11. codes' \subseteq [id : Nat, flow : 1 .. flows', user : Nat, sub : Subs, usable : BOOLEAN]
  BY <1>5, <1>6 DEF CodesInv
<1>12. CodesInv'
  BY <1>8, <1>9, <1>10, <1>11 DEF CodesInv
<1>13. CodesGrow
  BY <1>3, <1>4, <1>6 DEF CodesGrow
<1>14. Taken(c.id, c.user)'
  BY <1>3, <1>4, <1>6 DEF Taken
<1>15. \A d \in codes' : \E b \in codes : b.flow = d.flow
  BY <1>3, <1>6
<1> QED
  BY <1>12, <1>13, <1>14, <1>15

\* A usable code is taken by one request.
LEMMA TakeCodeStep ==
    ASSUME SignInInv, NEW p \in Procs, NEW c \in codes, TakeCode(p, c)
    PROVE  SignInInv'
<1>1. UNCHANGED <<users, flows, states, sessions, logins, faults>> /\ Spend(c)
  BY DEF TakeCode
<1>2. /\ UsersInv /\ CodesInv /\ SessionsInv /\ flows \in Nat /\ states \subseteq 1 .. flows
      /\ logins' \in 0 .. MaxLogins /\ faults' \in 0 .. MaxFaults /\ faults <= faults'
      /\ flows' \in 0 .. MaxFlows /\ states' \subseteq 1 .. flows'
  BY <1>1, SignInBounds DEF SignInInv
<1>3. /\ CodesInv' /\ CodesGrow /\ Taken(c.id, c.user)'
      /\ \A d \in codes' : \E b \in codes : b.flow = d.flow
  BY <1>1, <1>2, CodeSpent
<1>4. StatesGrow
  BY <1>1, <1>2 DEF StatesGrow
<1>5. UsersInv' /\ UsersGrow /\ (\A id : HasPassword(id) => HasPassword(id)')
  BY <1>1, <1>2, SameUsers
<1>6. SessionsInv'
  BY <1>1, <1>2, <1>3, <1>5, SameSessions
<1>7. CASE c.usable
  <2>1. PICK new : new = [Fresh EXCEPT !.pc = "session", !.id = c.user, !.code = c.id]
    OBVIOUS
  <2>2. "session" \in Phase /\ c.user \in Nat /\ c.id \in Nat
    BY <1>2 DEF Phase, CodesInv
  <2>3. new \in Request /\ new.pc = "session" /\ new.id = c.user /\ new.code = c.id /\ new.email = None
    BY <2>1, <2>2, FreshFacts DEF Request
  <2>4. Become(p, new)
    BY <1>7, <2>1 DEF TakeCode, Become
  <2>5. \A s \in sessions : s.code # c.id
    <3> SUFFICES ASSUME NEW s \in sessions, s.code = c.id  PROVE FALSE
      OBVIOUS
    <3>1. c.id # 0
      BY <1>2 DEF CodesInv, Numbered
    <3>2. PICK d \in codes : d.id = c.id /\ ~ d.usable
      BY <1>2, <3>1 DEF SessionsInv, Taken
    <3> QED
      BY <1>2, <1>7, <3>2 DEF CodesInv, Numbered
  <2>6. CodeHeld(new)'
    BY <1>1, <1>3, <2>3, <2>5 DEF CodeHeld
  <2>7. ~ InFlow(new) /\ RequestInv(new)'
    BY <2>3, <2>6 DEF InFlow, RequestInv, FlowHeld, Vouched, Learnt, AnswerOf
  <2>8. \E d \in codes : d.id = new.code /\ d.usable
    BY <1>7, <2>3
  <2> QED
    BY <1>1, <1>2, <1>3, <1>4, <1>5, <1>6, <2>3, <2>4, <2>7, <2>8, StepFrame
<1>8. CASE ~ c.usable
  <2>1. PICK new : new = [Fresh EXCEPT !.pc = "done", !.reply = "exchange_code"]
    OBVIOUS
  <2>2. "done" \in Phase /\ "exchange_code" \in Reply
    BY DEF Phase, Reply, APIReply
  <2>3. new \in Request /\ new.pc = "done" /\ new.reply = "exchange_code" /\ new.email = None
    BY <2>1, <2>2, FreshFacts DEF Request
  <2>4. Become(p, new)
    BY <1>8, <2>1 DEF TakeCode, AnswerNew, Become
  <2>5. ~ InFlow(new) /\ RequestInv(new)'
    BY <2>3 DEF InFlow, RequestInv, FlowHeld, Vouched, Learnt, CodeHeld, AnswerOf
  <2> QED
    BY <1>1, <1>2, <1>3, <1>4, <1>5, <1>6, <2>3, <2>4, <2>5, StepFrame
<1> QED
  BY <1>7, <1>8

\* A step no request takes part in.
LEMMA TableStep ==
    ASSUME SignInInv, UNCHANGED <<users, flows, sessions, proc, logins, faults>>,
           states' \subseteq states, CodesInv', CodesGrow,
           \A d \in codes' : \E c \in codes : c.flow = d.flow
    PROVE  SignInInv'
<1>1. /\ UsersInv /\ SessionsInv /\ flows \in Int /\ faults \in Int /\ None \notin Emails
      /\ proc \in [Procs -> Request]
  BY SignInBounds, SignInNulls DEF SignInInv
<1>2. UsersInv' /\ UsersGrow /\ (\A id : HasPassword(id) => HasPassword(id)')
  BY <1>1, SameUsers
<1>3. StatesGrow
  BY <1>1 DEF StatesGrow
<1>4. SessionsInv'
  BY <1>1, <1>2, SameSessions
<1>5. ASSUME NEW q \in Procs  PROVE RequestInv(proc[q])'
  <2>1. PICK r \in Request : r = proc[q]
    BY <1>1
  <2>2. RequestInv(r)
    BY <2>1 DEF SignInInv
  <2>3. RequestInv(r)'
    BY <1>1, <1>2, <1>3, <2>2, RequestKept
  <2> QED
    BY <2>1, <2>3
<1>6. /\ flows' \in 0 .. MaxFlows /\ states' \subseteq 1 .. flows' /\ logins' \in 0 .. MaxLogins
      /\ faults' \in 0 .. MaxFaults /\ proc' \in [Procs -> Request]
      /\ \A p, q \in Procs : p # q => HoldApart(proc'[p], proc'[q])
  BY DEF SignInInv
<1> QED
  BY <1>2, <1>4, <1>5, <1>6 DEF SignInInv

\* A state that expires can no longer be taken.
LEMMA ExpireStateStep ==
    ASSUME SignInInv, NEW n \in states, ExpireState(n)
    PROVE  SignInInv'
<1>1. UNCHANGED <<users, flows, codes, sessions, proc, logins, faults>> /\ states' \subseteq states
  BY DEF ExpireState
<1>2. CodesInv /\ flows \in Int /\ StatesGrow /\ UsersGrow
  BY <1>1, SameUsers DEF SignInInv, StatesGrow
<1>3. CodesInv' /\ CodesGrow
  BY <1>1, <1>2, SameCodes
<1> QED
  BY <1>1, <1>3, TableStep

\* A code that expires can no longer be taken.
LEMMA ExpireCodeStep ==
    ASSUME SignInInv, NEW c \in codes, ExpireCode(c)
    PROVE  SignInInv'
<1>1. UNCHANGED <<users, flows, states, sessions, proc, logins, faults>> /\ Spend(c) /\ CodesInv
  BY DEF ExpireCode, SignInInv
<1>2. CodesInv' /\ CodesGrow /\ (\A d \in codes' : \E b \in codes : b.flow = d.flow)
  BY <1>1, CodeSpent
<1> QED
  BY <1>1, <1>2, TableStep

\* A step that changes nothing keeps the invariant.
LEMMA StutterStep ==
    ASSUME SignInInv, UNCHANGED vars
    PROVE  SignInInv'
<1>1. UNCHANGED <<users, flows, states, codes, sessions, proc, logins, faults>>
  BY DEF vars
<1>2. CodesInv /\ flows \in Int /\ StatesGrow /\ UsersGrow
  BY <1>1, SameUsers DEF SignInInv, StatesGrow
<1>3. CodesInv' /\ CodesGrow
  BY <1>1, <1>2, SameCodes
<1> QED
  BY <1>1, <1>3, TableStep

-----------------------------------------------------------------------------
(* Sessions *)

\* A code becomes one session, on the account it stands for; a password one
\* that is marked if the password is gone by now.
LEMMA StartSessionStep ==
    ASSUME SignInInv, NEW p \in Procs, StartSession(p)
    PROVE  SignInInv'
<1>1. /\ UNCHANGED <<users, flows, states, codes, logins, faults>> /\ Answer(p, "session")
      /\ proc[p].pc = "session"
  BY DEF StartSession, At
<1>2. /\ UsersInv /\ CodesInv /\ SessionsInv /\ flows \in Nat /\ states \subseteq 1 .. flows
      /\ logins' \in 0 .. MaxLogins /\ faults' \in 0 .. MaxFaults /\ faults <= faults'
      /\ flows' \in 0 .. MaxFlows /\ states' \subseteq 1 .. flows' /\ proc[p] \in Request
      /\ RequestInv(proc[p])
  BY <1>1, SignInBounds DEF SignInInv
<1>3. /\ proc[p].id \in Nat /\ proc[p].code \in Nat
      /\ proc[p].code # 0 => Taken(proc[p].code, proc[p].id) /\ \A s \in sessions : s.code # proc[p].code
  BY <1>1, <1>2 DEF RequestInv, CodeHeld, Request
<1> DEFINE gone == proc[p].code = 0 /\ ~ HasPassword(proc[p].id)
<1>4. PICK late \in BOOLEAN : late = gone
  OBVIOUS
<1>5. PICK x : x = [id |-> Cardinality(sessions) + 1, user |-> proc[p].id, code |-> proc[p].code,
                    late |-> late, live |-> TRUE]
  OBVIOUS
<1>6. x.id = Cardinality(sessions) + 1 /\ x.user = proc[p].id /\ x.code = proc[p].code
  BY <1>5
<1>7. x.code = 0 => HasPassword(x.user) \/ x.late
  <2>1. x.late <=> late
    BY <1>5
  <2>2. late <=> gone
    BY <1>4
  <2> HIDE DEF gone
  <2>3. x.late <=> gone
    BY <2>1, <2>2, Zenon
  <2> QED
    BY <1>6, <2>3, Zenon DEF gone
<1>8. sessions' = sessions \cup {x}
  BY <1>4, <1>5 DEF StartSession
<1>9. Numbered(sessions \cup {x}) /\ Cardinality(sessions) \in Nat
  <2>1. \A T, y : Numbered(T) /\ y.id = Cardinality(T) + 1 => Numbered(T \cup {y}) /\ Cardinality(T) \in Nat
    BY NumberedAdd
  <2> QED
    BY <1>2, <1>6, <2>1 DEF SessionsInv
<1> HIDE DEF gone
<1>10. x \in [id : Nat, user : Nat, code : Nat, late : BOOLEAN, live : BOOLEAN]
  BY <1>3, <1>5, <1>9
<1>11. UsersInv' /\ UsersGrow /\ StatesGrow
  BY <1>1, <1>2, SameUsers DEF StatesGrow
<1>12. CodesInv' /\ CodesGrow
  BY <1>1, <1>2, <1>11, SameCodes
<1>13. SessionsInv'
  <2>1. Numbered(sessions)'
    BY <1>8, <1>9 DEF Numbered
  <2>2. \A s \in sessions' : s.code # 0 => Taken(s.code, s.user)'
    BY <1>1, <1>2, <1>3, <1>6, <1>8 DEF SessionsInv, Taken
  <2>3. \A s, t \in sessions' : s.code # 0 /\ s.code = t.code => s = t
    BY <1>2, <1>3, <1>6, <1>8 DEF SessionsInv
  <2>4. \A s \in sessions' : s.live /\ s.code = 0 => HasPassword(s.user)' \/ s.late
    <3>1. \A id : HasPassword(id) => HasPassword(id)'
      BY <1>1, SameUsers
    <3>2. ASSUME NEW s \in sessions, s.live, s.code = 0  PROVE HasPassword(s.user)' \/ s.late
      BY <1>2, <3>1, <3>2 DEF SessionsInv
    <3>3. x.code = 0 => HasPassword(x.user)' \/ x.late
      BY <1>7, <3>1
    <3> QED
      BY <1>8, <3>2, <3>3
  <2>5. sessions' \subseteq [id : Nat, user : Nat, code : Nat, late : BOOLEAN, live : BOOLEAN]
    BY <1>2, <1>8, <1>10 DEF SessionsInv
  <2> QED
    BY <2>1, <2>2, <2>3, <2>4, <2>5 DEF SessionsInv
<1>14. PICK new : new = [proc[p] EXCEPT !.pc = "done", !.reply = "session"]
  OBVIOUS
<1>15. "done" \in Phase /\ "session" \in Reply
  BY DEF Phase, Reply, APIReply
<1>16. /\ new \in Request /\ new.pc = "done" /\ new.reply = "session" /\ new.sub = proc[p].sub
       /\ new.email = proc[p].email
  BY <1>2, <1>14, <1>15 DEF Request
<1>17. Become(p, new)
  BY <1>1, <1>14 DEF Answer, Become
<1>18. ~ InFlow(new) /\ RequestInv(new)'
  BY <1>2, <1>16 DEF InFlow, RequestInv, FlowHeld, Vouched, Learnt, CodeHeld, AnswerOf
<1>19. \A s \in sessions' :
          (\E t \in sessions : t.code = s.code) \/ (At(p, "session") /\ s.code = proc[p].code)
  BY <1>1, <1>6, <1>8 DEF At
<1>20. \A d \in codes' : \E c \in codes : c.flow = d.flow
  BY <1>1
<1> QED
  BY <1>1, <1>2, <1>11, <1>12, <1>13, <1>16, <1>17, <1>18, <1>19, <1>20, StepFrame

\* The link takes the subject for one account and leaves the others alone.
LEMMA UserLinked ==
    ASSUME UsersInv, NEW u \in users, NEW g \in Subs, Linkable(u, g), NEW v,
           v = [u EXCEPT !.sub = g, !.verified = TRUE, !.pw = IF u.verified THEN @ ELSE None],
           users' = (users \ {u}) \cup {v}
    PROVE  UsersInv' /\ UsersGrow /\ Carries(u.id, g)'
<1>1. u \in User
  BY DEF UsersInv
<1>2. PICK w \in Passwords \cup {None} : w = IF u.verified THEN u.pw ELSE None
  BY <1>1 DEF User
<1>3. v = [u EXCEPT !.sub = g, !.verified = TRUE, !.pw = w]
  BY <1>2
<1>4. v.id = u.id /\ v.email = u.email /\ v.sub = g
  BY <1>1, <1>3 DEF User
<1>5. v \in User
  BY <1>1, <1>3 DEF User
<1>6. Numbered((users \ {u}) \cup {v})
  <2>1. \A T, y, z : Numbered(T) /\ y \in T /\ z.id = y.id => Numbered((T \ {y}) \cup {z})
    BY NumberedReplace
  <2> QED
    BY <1>4, <2>1 DEF UsersInv
<1>7. Numbered(users)'
  BY <1>6 DEF Numbered
<1>8. g # None
  BY SignInNulls
<1>9. \A x \in users : x # u => x.sub # g /\ x.email # u.email
  BY DEF Linkable, ByGoogleSub, UsersInv, Numbered
<1>10. UsersInv'
  <2>1. users' \subseteq User
    BY <1>5 DEF UsersInv
  <2>2. \A x \in users' : x.pw # None \/ x.sub # None
    BY <1>4, <1>8 DEF UsersInv
  <2>3. \A x, y \in users' : x # y => x.email # y.email /\ (x.sub = None \/ x.sub # y.sub)
    <3>1. \A x, y \in users \ {u} : x # y => x.email # y.email /\ (x.sub = None \/ x.sub # y.sub)
      BY DEF UsersInv
    <3>2. \A x \in users \ {u} : x.email # v.email /\ x.sub # v.sub
      BY <1>4, <1>9
    <3> QED
      BY <3>1, <3>2
  <2> QED
    BY <1>7, <2>1, <2>2, <2>3 DEF UsersInv
<1>11. UsersGrow
  BY <1>4 DEF UsersGrow, Linkable
<1>12. Carries(u.id, g)'
  BY <1>4 DEF Carries
<1> QED
  BY <1>10, <1>11, <1>12

\* The sessions of an account that loses its password end with it.
LEMMA SessionsRevoked ==
    ASSUME UsersInv, SessionsInv, NEW u \in users, sessions' = Revoked(u), codes' = codes,
           \A x \in users : x # u => x \in users'
    PROVE  SessionsInv' /\ \A s \in sessions' : \E t \in sessions : t.code = s.code
<1> DEFINE Session == [id : Nat, user : Nat, code : Nat, late : BOOLEAN, live : BOOLEAN]
           cut(s) == [s EXCEPT !.live = @ /\ s.user # u.id]
<1>1. sessions \subseteq Session
  BY DEF SessionsInv
<1>2. ASSUME NEW s \in sessions
      PROVE  /\ cut(s) \in Session /\ cut(s).id = s.id /\ cut(s).user = s.user /\ cut(s).code = s.code
             /\ (cut(s).late <=> s.late) /\ (cut(s).live => s.live /\ s.user # u.id)
  <2>1. PICK b \in BOOLEAN : b = (s.live /\ s.user # u.id)
    OBVIOUS
  <2>2. PICK x : x = [s EXCEPT !.live = b]
    OBVIOUS
  <2>3. cut(s) = x
    BY <2>1, <2>2
  <2>4. s \in Session
    BY <1>1
  <2>5. x \in Session /\ x.id = s.id /\ x.user = s.user /\ x.code = s.code
    BY <2>2, <2>4
  <2>6. x.late <=> s.late
    BY <2>2, <2>4
  <2>7. x.live <=> b
    BY <2>2, <2>4
  <2>8. b => s.live /\ s.user # u.id
    BY <2>1
  <2> HIDE DEF cut, Session
  <2>9. x.live => s.live /\ s.user # u.id
    BY <2>7, <2>8, Zenon
  <2> QED
    BY <2>3, <2>5, <2>6, <2>9, Zenon
<1>3. sessions' = {cut(s) : s \in sessions}
  BY DEF Revoked
<1> HIDE DEF cut, Session
<1>4. Numbered(sessions')
  <2>1. PICK f : f = [s \in sessions |-> cut(s)]
    OBVIOUS
  <2>2. f \in [sessions -> sessions'] /\ (\A y \in sessions' : \E x \in sessions : y = f[x])
    BY <1>3, <2>1
  <2>3. \A x \in sessions : f[x].id = x.id
    BY <1>2, <2>1
  <2>4. \A T, U : Numbered(T) /\ f \in [T -> U] /\ (\A y \in U : \E x \in T : y = f[x])
                  /\ (\A x \in T : f[x].id = x.id) => Numbered(U)
    BY NumberedImage
  <2> QED
    BY <2>2, <2>3, <2>4 DEF SessionsInv
<1>5. Numbered(sessions)'
  BY <1>4 DEF Numbered
<1>6. sessions' \subseteq Session
  BY <1>2, <1>3
<1>7. \A s \in sessions' : s.code # 0 => Taken(s.code, s.user)'
  BY <1>2, <1>3 DEF SessionsInv, Taken
<1>8. \A s, t \in sessions' : s.code # 0 /\ s.code = t.code => s = t
  BY <1>2, <1>3 DEF SessionsInv
<1>9. \A s \in sessions' : s.live /\ s.code = 0 => HasPassword(s.user)' \/ s.late
  <2> SUFFICES ASSUME NEW y \in sessions', y.live, y.code = 0
               PROVE  HasPassword(y.user)' \/ y.late
    OBVIOUS
  <2>1. PICK s \in sessions : y = cut(s)
    BY <1>3
  <2>2. y.user = s.user /\ y.code = s.code /\ (y.late <=> s.late) /\ s.live /\ s.user # u.id
    BY <1>2, <2>1
  <2>3. HasPassword(s.user) \/ s.late
    BY <2>2 DEF SessionsInv
  <2>4. HasPassword(y.user) => HasPassword(y.user)'
    BY <2>2 DEF HasPassword
  <2> QED
    BY <2>2, <2>3, <2>4
<1>10. \A s \in sessions' : \E t \in sessions : t.code = s.code
  BY <1>2, <1>3
<1> QED
  BY <1>5, <1>6, <1>7, <1>8, <1>9, <1>10 DEF SessionsInv, Session

\* The link writes the subject, and for an unverified account drops the password
\* and the sessions.
LEMMA AttachGoogleStep ==
    ASSUME SignInInv, NEW p \in Procs, AttachGoogle(p)
    PROVE  SignInInv'
<1>1. /\ UNCHANGED <<flows, states, codes, logins, faults>> /\ proc[p].pc = "attach"
  BY DEF AttachGoogle, At
<1>2. /\ UsersInv /\ CodesInv /\ SessionsInv /\ flows \in Nat /\ states \subseteq 1 .. flows
      /\ logins' \in 0 .. MaxLogins /\ faults' \in 0 .. MaxFaults /\ faults <= faults'
      /\ flows' \in 0 .. MaxFlows /\ states' \subseteq 1 .. flows' /\ proc[p] \in Request
      /\ RequestInv(proc[p])
  BY <1>1, SignInBounds DEF SignInInv
<1>3. PICK g \in Subs : g = proc[p].sub
  BY <1>1, <1>2 DEF InFlow, RequestInv, Vouched
<1>4. PICK u \in users :
         /\ u.id = proc[p].id
         /\ IF Linkable(u, g)
            THEN /\ users' = (users \ {u}) \cup
                       {[u EXCEPT !.sub = g, !.verified = TRUE, !.pw = IF u.verified THEN @ ELSE None]}
                 /\ sessions' = IF u.verified THEN sessions ELSE Revoked(u)
                 /\ Goto(p, "code", u.id)
            ELSE Answer(p, "invalid_token") /\ UNCHANGED <<users, sessions>>
  BY <1>3 DEF AttachGoogle
<1>5. u.email = proc[p].email /\ u.id \in Nat /\ u \in User /\ InFlow(proc[p])
  BY <1>1, <1>2, <1>4 DEF RequestInv, Learnt, UsersInv, Numbered, User, InFlow
<1>6. CASE ~ Linkable(u, g)
  <2>1. Answer(p, "invalid_token") /\ UNCHANGED <<users, sessions>> /\ "invalid_token" \in Reply
    BY <1>4, <1>6 DEF Reply, CallbackReply
  <2>2. Clash(proc[p])
    <3>1. CASE u.sub \notin {None, g}
      BY <1>3, <1>5, <3>1 DEF Clash
    <3>2. CASE \E x \in ByGoogleSub(g) : x.id # u.id
      BY <1>2, <1>3, <1>5, <3>2 DEF Clash, ByGoogleSub, UsersInv
    <3> QED
      BY <1>6, <3>1, <3>2 DEF Linkable
  <2> QED
    BY <1>1, <1>2, <2>1, <2>2, AnswerStep
<1>7. CASE Linkable(u, g)
  <2>1. PICK v : v = [u EXCEPT !.sub = g, !.verified = TRUE, !.pw = IF u.verified THEN @ ELSE None]
    OBVIOUS
  <2>2. users' = (users \ {u}) \cup {v} /\ sessions' = (IF u.verified THEN sessions ELSE Revoked(u))
    BY <1>4, <1>7, <2>1
  <2>3. UsersInv' /\ UsersGrow /\ Carries(u.id, g)'
    BY <1>2, <1>7, <2>1, <2>2, UserLinked
  <2>4. StatesGrow
    BY <1>1, <1>2 DEF StatesGrow
  <2>5. CodesInv' /\ CodesGrow
    BY <1>1, <1>2, <2>3, <2>4, SameCodes
  <2>6. SessionsInv' /\ \A s \in sessions' : \E t \in sessions : t.code = s.code
    <3>1. CASE u.verified
      <4>1. v = [u EXCEPT !.sub = g, !.verified = TRUE, !.pw = u.pw]
        BY <2>1, <3>1
      <4>2. v.id = u.id /\ v.pw = u.pw
        BY <1>5, <4>1 DEF User
      <4>3. \A id : HasPassword(id) => HasPassword(id)'
        BY <2>2, <4>2 DEF HasPassword
      <4>4. sessions' = sessions
        BY <2>2, <3>1
      <4> QED
        BY <1>2, <2>5, <4>3, <4>4, SameSessions
    <3>2. CASE ~ u.verified
      <4>1. sessions' = Revoked(u) /\ (\A x \in users : x # u => x \in users')
        BY <2>2, <3>2
      <4> QED
        BY <1>1, <1>2, <4>1, SessionsRevoked
    <3> QED
      BY <3>1, <3>2
  <2>7. PICK new : new = [proc[p] EXCEPT !.pc = "code", !.id = u.id]
    OBVIOUS
  <2>8. "code" \in Phase
    BY DEF Phase
  <2>9. new \in Request /\ new.pc = "code" /\ new.id = u.id /\ new.sub = g /\ new.flow = proc[p].flow
    BY <1>2, <1>3, <1>5, <2>7, <2>8 DEF Request
  <2>10. Become(p, new)
    BY <1>4, <1>7, <2>7 DEF Goto, Become
  <2>11. RequestInv(new)'
    <3>1. FlowHeld(new)'
      BY <1>1, <1>2, <1>5, <2>9 DEF RequestInv, FlowHeld
    <3>2. Learnt(new)'
      BY <2>3, <2>9 DEF Learnt
    <3>3. Vouched(new)' /\ CodeHeld(new)' /\ AnswerOf(new)'
      BY <2>9 DEF Vouched, CodeHeld, AnswerOf
    <3> QED
      BY <3>1, <3>2, <3>3 DEF RequestInv
  <2>12. \A d \in codes' : \E c \in codes : c.flow = d.flow
    BY <1>1
  <2> QED
    BY <1>1, <1>2, <1>5, <2>3, <2>4, <2>5, <2>6, <2>9, <2>10, <2>11, <2>12, StepFrame
<1> QED
  BY <1>6, <1>7

-----------------------------------------------------------------------------
(* The theorems *)

\* The initial accounts satisfy the invariant.
LEMMA InitInv == Init => SignInInv
<1> SUFFICES ASSUME Init PROVE SignInInv
  OBVIOUS
<1>1. /\ flows = 0 /\ states = {} /\ codes = {} /\ sessions = {} /\ logins = 0 /\ faults = 0
      /\ proc = [p \in Procs |-> Fresh]
  BY DEF Init
<1>2. IsFiniteSet({}) /\ Cardinality({}) = 0
  BY FS_EmptySet
<1>3. CodesInv /\ SessionsInv
  BY <1>1, <1>2 DEF CodesInv, SessionsInv, Numbered
<1>4. UsersInv
  <2>1. CASE users = {}
    BY <1>2, <2>1 DEF UsersInv, Numbered
  <2>2. ASSUME NEW e \in Emails, NEW w \in Passwords,
               users = {[id |-> 1, email |-> e, pw |-> w, sub |-> None, verified |-> TRUE]}
        PROVE  UsersInv
    <3>1. PICK x : x = [id |-> 1, email |-> e, pw |-> w, sub |-> None, verified |-> TRUE]
      OBVIOUS
    <3>2. x \in User /\ x.id = 1 /\ x.pw # None
      BY <3>1, SignInNulls DEF User
    <3>3. IsFiniteSet({x}) /\ Cardinality({x}) = 1
      BY FS_Singleton
    <3> QED
      BY <2>2, <3>1, <3>2, <3>3 DEF UsersInv, Numbered
  <2> QED
    BY <2>1, <2>2 DEF Init
<1>5. ASSUME NEW p \in Procs  PROVE RequestInv(proc[p]) /\ proc[p].pc = "idle"
  <2>1. proc[p] = Fresh /\ Fresh.pc = "idle" /\ Fresh.email = None
    BY <1>1 DEF Fresh
  <2> QED
    BY <2>1 DEF RequestInv, FlowHeld, Vouched, Learnt, CodeHeld, AnswerOf, InFlow
<1>6. \A p, q \in Procs : HoldApart(proc[p], proc[q])
  BY <1>5 DEF HoldApart, InFlow
<1>7. proc \in [Procs -> Request]
  BY <1>1, FreshFacts
<1>8. /\ flows \in 0 .. MaxFlows /\ states \subseteq 1 .. flows
      /\ logins \in 0 .. MaxLogins /\ faults \in 0 .. MaxFaults
  BY <1>1, SignInBounds
<1> QED
  BY <1>3, <1>4, <1>5, <1>6, <1>7, <1>8 DEF SignInInv

\* Every step keeps the invariant.
LEMMA NextInv == SignInInv /\ [Next]_vars => SignInInv'
<1> SUFFICES ASSUME SignInInv, [Next]_vars  PROVE SignInInv'
  OBVIOUS
<1>1. ASSUME NEW p \in Procs, NEW e \in Emails \cup {BadEmail}, NEW w \in Passwords \cup {BadPassword},
             Register(p, e, w) \/ Login(p, e, w)
      PROVE  SignInInv'
  BY <1>1, RegisterStep, LoginStep
<1>2. ASSUME NEW p \in Procs, NEW n \in 1 .. flows, TakeState(p, n)  PROVE SignInInv'
  BY <1>2, TakeStateStep
<1>3. ASSUME NEW p \in Procs, NEW g \in Subs, NEW e \in Emails \cup {BadEmail}, NEW v \in BOOLEAN,
             Verify(p, g, e, v)
      PROVE  SignInInv'
  BY <1>3, VerifyStep
<1>4. ASSUME NEW p \in Procs, NEW c \in codes, TakeCode(p, c)  PROVE SignInInv'
  BY <1>4, TakeCodeStep
<1>5. ASSUME NEW p \in Procs,
             \/ StartSession(p) \/ StartGoogleFlow(p) \/ VerifyFails(p) \/ ResolveBySub(p)
             \/ ResolveByEmail(p) \/ CreateGoogleUser(p) \/ AttachGoogle(p) \/ CreateCode(p)
             \/ Fail(p)
      PROVE  SignInInv'
  BY <1>5, StartSessionStep, StartGoogleFlowStep, VerifyFailsStep, ResolveBySubStep, ResolveByEmailStep,
     CreateGoogleUserStep, AttachGoogleStep, CreateCodeStep, FailStep
<1>6. ASSUME NEW n \in states, ExpireState(n)  PROVE SignInInv'
  BY <1>6, ExpireStateStep
<1>7. ASSUME NEW c \in codes, ExpireCode(c)  PROVE SignInInv'
  BY <1>7, ExpireCodeStep
<1>8. CASE UNCHANGED vars
  BY <1>8, StutterStep
<1> QED
  BY <1>1, <1>2, <1>3, <1>4, <1>5, <1>6, <1>7, <1>8 DEF Next

\* SignInInv holds in every reachable state.
THEOREM SignInInvariant == Spec => []SignInInv
BY InitInv, NextInv, PTL DEF Spec

\* The tables keep the schema's constraints: one account per address and per
\* Google account, and a way to sign in for each (users_login_method_check).
THEOREM TypeCorrect == Spec => []TypeOK
<1>1. SignInInv => TypeOK
  <2> SUFFICES ASSUME SignInInv PROVE TypeOK
    OBVIOUS
  <2>1. /\ users \subseteq User /\ (\A u \in users : u.pw # None \/ u.sub # None)
        /\ \A u, v \in users : u # v => u.id # v.id /\ u.email # v.email /\ (u.sub = None \/ u.sub # v.sub)
    BY DEF SignInInv, UsersInv, Numbered
  <2>2. /\ codes \subseteq [id : Nat, flow : 1 .. flows, user : Nat, sub : Subs, usable : BOOLEAN]
        /\ sessions \subseteq [id : Nat, user : Nat, code : Nat, late : BOOLEAN, live : BOOLEAN]
    BY DEF SignInInv, CodesInv, SessionsInv
  <2> QED
    BY <2>1, <2>2 DEF SignInInv, TypeOK
<1> QED
  BY <1>1, SignInInvariant, PTL

\* A flow yields one code and a code one session, however many callbacks and
\* exchanges present them at once (TakeState, TakeCode).
THEOREM OneUse == Spec => []TakenOnce
<1>1. SignInInv => TakenOnce
  BY DEF SignInInv, CodesInv, SessionsInv, TakenOnce
<1> QED
  BY <1>1, SignInInvariant, PTL

\* A session opened through Google stays on the account that carries its
\* subject, and a live one opened with a password on an account that has one,
\* or had one when Login looked (attachGoogle, AttachGoogle, startSession).
THEOREM RightAccounts == Spec => []RightAccount
<1>1. SignInInv => RightAccount
  <2> SUFFICES ASSUME SignInInv PROVE RightAccount
    OBVIOUS
  <2>1. ASSUME NEW s \in sessions, NEW c \in codes, s.code = c.id
        PROVE  \E u \in users : u.id = s.user /\ u.sub = c.sub
    <3>1. CodesInv /\ SessionsInv /\ c.id # 0
      BY DEF SignInInv, CodesInv, Numbered
    <3>2. c.user = s.user
      BY <2>1, <3>1 DEF SessionsInv, Taken, CodesInv, Numbered
    <3> QED
      BY <3>1, <3>2 DEF CodesInv, Carries
  <2>2. \A s \in sessions : s.live /\ s.code = 0 => HasPassword(s.user) \/ s.late
    BY DEF SignInInv, SessionsInv
  <2> QED
    BY <2>1, <2>2 DEF RightAccount
<1> QED
  BY <1>1, SignInInvariant, PTL

\* Nobody Google vouched for is refused because of a race, and only a fault
\* ends in an internal error (linkOrCreateGoogleUser).
THEOREM OwnersAdmitted == Spec => []OwnersGetIn
<1>1. SignInInv => OwnersGetIn
  BY DEF SignInInv, RequestInv, AnswerOf, Clash, OwnersGetIn, At
<1> QED
  BY <1>1, SignInInvariant, PTL
=============================================================================
