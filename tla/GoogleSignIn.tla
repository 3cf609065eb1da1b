---------------------------- MODULE GoogleSignIn ----------------------------
(***************************************************************************)
(* Accounts and how they are entered: registration, password sign-in, and  *)
(* the Google flow (a state for the browser, the callback that finds, links *)
(* or creates an account, a one-time code traded for a session), as        *)
(* concurrent requests run them statement by statement.                    *)
(*                                                                         *)
(* Sources: internal/service/auth.go and google_oauth.go, internal/        *)
(* repository/user.go and google_oauth.go, internal/handler/auth.go and    *)
(* google_oauth.go, internal/auth/google_code.go and password.go.          *)
(*                                                                         *)
(* Google answers with any subject and address, verified or not: an address *)
(* may move from one Google account to another.  Addresses are what        *)
(* normalizeEmail makes of them; BadEmail is one it refuses and BadPassword *)
(* one HashPassword refuses.  AttachGoogle is one step here: SessionTokens  *)
(* has its transaction.  An expired row is one no statement can select.     *)
(***************************************************************************)
EXTENDS Integers, FiniteSets

CONSTANTS
    Procs,       \* requests that are served at the same time
    Emails, BadEmail,
    Passwords, BadPassword,
    Subs,        \* Google accounts
    None,
    MaxFlows,    \* bound: sign-ins started with Google
    MaxLogins,   \* bound: registrations and password sign-ins
    MaxFaults    \* bound: requests that fail half-way

ASSUME SignInNulls ==
    /\ BadEmail \notin Emails /\ BadPassword \notin Passwords
    /\ None \notin Emails \cup Passwords \cup Subs \cup {BadEmail, BadPassword}
ASSUME SignInBounds == MaxFlows \in Nat /\ MaxLogins \in Nat /\ MaxFaults \in Nat

VARIABLES
    users,      \* rows of users
    flows,      \* sign-ins started with Google
    states,     \* those whose state can still be taken (google_oauth_states)
    codes,      \* rows of google_oauth_codes, with the subject they stand for
    sessions,   \* token families started, with the code that paid for them (0:
                \* a password) and whether that password was gone by then
    proc,       \* request: see Request
    logins, faults

vars == <<users, flows, states, codes, sessions, proc, logins, faults>>

User == [id : Nat, email : Emails, pw : Passwords \cup {None}, sub : Subs \cup {None},
         verified : BOOLEAN]

Phase == {"idle", "verify", "bySub", "byEmail", "create", "byEmailAgain", "attach", "code",
          "session", "done"}

\* What the API answers (fail) and what the callback redirects with
\* (callbackError); "error" is the default case of both.
APIReply == {"session", "started", "invalid", "email_taken", "credentials",
             "password_unavailable", "exchange_code", "error"}
CallbackReply == {"code", "invalid_state", "email_unverified", "invalid_token", "error"}
Reply == {"none"} \cup APIReply \cup CallbackReply

Request == [pc : Phase, reply : Reply, id : Nat, flow : Nat, code : Nat,
            sub : Subs \cup {None}, email : Emails \cup {BadEmail, None}]

Fresh == [pc |-> "idle", reply |-> "none", id |-> 0, flow |-> 0, code |-> 0,
          sub |-> None, email |-> None]

At(p, phase) == proc[p].pc = phase

Waiting(p) == At(p, "idle") \/ At(p, "done")

Become(p, r) == proc' = [proc EXCEPT ![p] = r]

\* A request that goes on, for account id, and one that is answered.
Goto(p, phase, id) == Become(p, [proc[p] EXCEPT !.pc = phase, !.id = id])
Answer(p, reply) == Become(p, [proc[p] EXCEPT !.pc = "done", !.reply = reply])
AnswerNew(p, reply) == Become(p, [Fresh EXCEPT !.pc = "done", !.reply = reply])

ByEmail(e) == {u \in users : u.email = e}
ByGoogleSub(g) == {u \in users : u.sub = g}
NextId == Cardinality(users) + 1
HasPassword(id) == \E u \in users : u.id = id /\ u.pw # None

\* normalizeEmail and HashPassword accept them.
ValidEmail(e) == e \in Emails
ValidPassword(w) == w \in Passwords

\* A violation of users_email_lower_key.  Postgres tries this index, the older
\* one, before users_google_sub_key.
EmailTaken(e) == ByEmail(e) # {}

\* UserRepository.Create.
Insert(e, w, g, isVerified) ==
    users' = users \cup {[id |-> NextId, email |-> e, pw |-> w, sub |-> g, verified |-> isVerified]}

\* The demo accounts of cmd/seed have a password and a verified address.
Init ==
    /\ users \in {{}} \cup {{[id |-> 1, email |-> e, pw |-> w, sub |-> None, verified |-> TRUE]} :
                               e \in Emails, w \in Passwords}
    /\ flows = 0 /\ states = {} /\ codes = {} /\ sessions = {}
    /\ proc = [p \in Procs |-> Fresh]
    /\ logins = 0 /\ faults = 0

-----------------------------------------------------------------------------
(* Password accounts *)

\* Register: validation, then the INSERT; the session is a later statement.
Register(p, e, w) ==
    /\ Waiting(p)
    /\ logins < MaxLogins
    /\ logins' = logins + 1
    /\ IF ValidEmail(e) /\ ValidPassword(w) /\ ~ EmailTaken(e)
       THEN /\ Insert(e, w, None, FALSE)
            /\ Become(p, [Fresh EXCEPT !.pc = "session", !.id = NextId])
       ELSE /\ AnswerNew(p, IF ValidEmail(e) /\ ValidPassword(w) THEN "email_taken" ELSE "invalid")
            /\ UNCHANGED users
    /\ UNCHANGED <<flows, states, codes, sessions, faults>>

\* Login: the row is read and the password checked; the session comes later.
Login(p, e, w) ==
    /\ Waiting(p)
    /\ logins < MaxLogins
    /\ logins' = logins + 1
    /\ \/ ByEmail(e) = {} /\ AnswerNew(p, "credentials")
       \/ \E u \in ByEmail(e) :
             \/ u.pw = None /\ AnswerNew(p, "password_unavailable")
             \/ u.pw \notin {None, w} /\ AnswerNew(p, "credentials")
             \/ u.pw = w /\ Become(p, [Fresh EXCEPT !.pc = "session", !.id = u.id])
    /\ UNCHANGED <<users, flows, states, codes, sessions, faults>>

\* startSession: the INSERT of a new token family.
StartSession(p) ==
    /\ At(p, "session")
    /\ sessions' = sessions \cup
          {[id |-> Cardinality(sessions) + 1, user |-> proc[p].id, code |-> proc[p].code,
            late |-> proc[p].code = 0 /\ ~ HasPassword(proc[p].id), live |-> TRUE]}
    /\ Answer(p, "session")
    /\ UNCHANGED <<users, flows, states, codes, logins, faults>>

-----------------------------------------------------------------------------
(* The Google flow *)

StartGoogleFlow(p) ==
    /\ Waiting(p)
    /\ flows < MaxFlows
    /\ flows' = flows + 1
    /\ states' = states \cup {flows + 1}
    /\ AnswerNew(p, "started")
    /\ UNCHANGED <<users, codes, sessions, logins, faults>>

\* Faulty variant of StatesAfter: the state is read and stays.
StatesKept(n) == states

\* DELETE ... RETURNING: a state can be taken once.
StatesAfter(n) == states \ {n}

\* The callback takes its state before it asks Google anything.
TakeState(p, n) ==
    /\ Waiting(p)
    /\ IF n \in states
       THEN Become(p, [Fresh EXCEPT !.pc = "verify", !.flow = n])
       ELSE AnswerNew(p, "invalid_state")
    /\ states' = StatesAfter(n)
    /\ UNCHANGED <<users, flows, codes, sessions, logins, faults>>

\* Exchange and Verify: Google refuses, or names a subject and an address,
\* which resolveGoogleUser wants verified.
Verify(p, g, e, isVerified) ==
    /\ At(p, "verify")
    /\ IF isVerified
       THEN Become(p, [proc[p] EXCEPT !.pc = "bySub", !.sub = g, !.email = e])
       ELSE Answer(p, "email_unverified")
    /\ UNCHANGED <<users, flows, states, codes, sessions, logins, faults>>

VerifyFails(p) ==
    /\ At(p, "verify")
    /\ Answer(p, "invalid_token")
    /\ UNCHANGED <<users, flows, states, codes, sessions, logins, faults>>

\* resolveGoogleUser; an address normalizeEmail refuses ends it.
ResolveBySub(p) ==
    /\ At(p, "bySub")
    /\ \/ \E u \in ByGoogleSub(proc[p].sub) : Goto(p, "code", u.id)
       \/ /\ ByGoogleSub(proc[p].sub) = {}
          /\ IF ValidEmail(proc[p].email) THEN Goto(p, "byEmail", 0) ELSE Answer(p, "invalid_token")
    /\ UNCHANGED <<users, flows, states, codes, sessions, logins, faults>>

\* attachGoogle up to its UPDATE, on the row as it was read.
AttachStep(p, u) ==
    CASE u.sub = None -> Goto(p, "attach", u.id)
      [] u.sub = proc[p].sub -> Goto(p, "code", u.id)
      [] OTHER -> Answer(p, "invalid_token")

\* linkOrCreateGoogleUser: the first look for the address, and the second one
\* after a Create that lost a race for it.
ResolveByEmail(p) ==
    /\ At(p, "byEmail") \/ At(p, "byEmailAgain")
    /\ \/ \E u \in ByEmail(proc[p].email) : AttachStep(p, u)
       \/ /\ ByEmail(proc[p].email) = {}
          /\ IF At(p, "byEmail") THEN Goto(p, "create", 0) ELSE Answer(p, "error")
    /\ UNCHANGED <<users, flows, states, codes, sessions, logins, faults>>

\* Faulty variant of CreateRefused: a lost race is not resolved.
CreateGivesUp(p) == Answer(p, "invalid_token")

\* Create's unique violations: a taken address is looked up again.
CreateRefused(p) ==
    IF EmailTaken(proc[p].email) THEN Goto(p, "byEmailAgain", 0) ELSE Answer(p, "invalid_token")

CreateGoogleUser(p) ==
    /\ At(p, "create")
    /\ IF ~ EmailTaken(proc[p].email) /\ ByGoogleSub(proc[p].sub) = {}
       THEN /\ Insert(proc[p].email, None, proc[p].sub, TRUE)
            /\ Goto(p, "code", NextId)
       ELSE CreateRefused(p) /\ UNCHANGED users
    /\ UNCHANGED <<flows, states, codes, sessions, logins, faults>>

\* Faulty variant of Linkable: the UPDATE matches the id alone.
LinkableById(u, g) == \A v \in ByGoogleSub(g) : v.id = u.id

\* Faulty variant of Linkable: no unique index on google_sub.
LinkableTwice(u, g) == u.sub \in {None, g}

\* The WHERE clause of the link and the unique index on google_sub.
Linkable(u, g) == u.sub \in {None, g} /\ \A v \in ByGoogleSub(g) : v.id = u.id

Revoked(u) == {[s EXCEPT !.live = @ /\ s.user # u.id] : s \in sessions}

\* AttachGoogle: an unverified account loses its password and its sessions.
AttachGoogle(p) ==
    LET g == proc[p].sub IN
    /\ At(p, "attach")
    /\ \E u \in users :
          /\ u.id = proc[p].id
          /\ IF Linkable(u, g)
             THEN /\ users' = (users \ {u}) \cup
                        {[u EXCEPT !.sub = g, !.verified = TRUE,
                                   !.pw = IF u.verified THEN @ ELSE None]}
                  /\ sessions' = IF u.verified THEN sessions ELSE Revoked(u)
                  /\ Goto(p, "code", u.id)
             ELSE Answer(p, "invalid_token") /\ UNCHANGED <<users, sessions>>
    /\ UNCHANGED <<flows, states, codes, logins, faults>>

CreateCode(p) ==
    /\ At(p, "code")
    /\ codes' = codes \cup {[id |-> Cardinality(codes) + 1, flow |-> proc[p].flow,
                             user |-> proc[p].id, sub |-> proc[p].sub, usable |-> TRUE]}
    /\ Answer(p, "code")
    /\ UNCHANGED <<users, flows, states, sessions, logins, faults>>

\* Spent or past expires_at.
Spend(c) == codes' = (codes \ {c}) \cup {[c EXCEPT !.usable = FALSE]}

\* ExchangeGoogleCode: TakeCode, then (ByID and) startSession.
TakeCode(p, c) ==
    /\ Waiting(p)
    /\ Spend(c)
    /\ IF c.usable
       THEN Become(p, [Fresh EXCEPT !.pc = "session", !.id = c.user, !.code = c.id])
       ELSE AnswerNew(p, "exchange_code")
    /\ UNCHANGED <<users, flows, states, sessions, logins, faults>>

ExpireState(n) ==
    /\ states' = states \ {n}
    /\ UNCHANGED <<users, flows, codes, sessions, proc, logins, faults>>

ExpireCode(c) ==
    /\ Spend(c)
    /\ UNCHANGED <<users, flows, states, sessions, proc, logins, faults>>

\* A statement or a call fails, or the process dies: what was taken is gone.
Fail(p) ==
    /\ ~ Waiting(p)
    /\ faults < MaxFaults
    /\ faults' = faults + 1
    /\ Answer(p, "error")
    /\ UNCHANGED <<users, flows, states, codes, sessions, logins>>

Next ==
    \/ \E p \in Procs, e \in Emails \cup {BadEmail}, w \in Passwords \cup {BadPassword} :
          Register(p, e, w) \/ Login(p, e, w)
    \/ \E p \in Procs, n \in 1 .. flows : TakeState(p, n)
    \/ \E p \in Procs, g \in Subs, e \in Emails \cup {BadEmail}, v \in BOOLEAN : Verify(p, g, e, v)
    \/ \E p \in Procs, c \in codes : TakeCode(p, c)
    \/ \E p \in Procs :
          \/ StartSession(p) \/ StartGoogleFlow(p) \/ VerifyFails(p) \/ ResolveBySub(p)
          \/ ResolveByEmail(p) \/ CreateGoogleUser(p) \/ AttachGoogle(p) \/ CreateCode(p)
          \/ Fail(p)
    \/ \E n \in states : ExpireState(n)
    \/ \E c \in codes : ExpireCode(c)

Spec == Init /\ [][Next]_vars

-----------------------------------------------------------------------------
(* Properties *)

\* Type invariant, with the schema's constraints: one account per address and
\* per Google account, and a way to sign in for each (users_login_method_check).
TypeOK ==
    /\ users \subseteq User
    /\ \A u \in users : u.pw # None \/ u.sub # None
    /\ \A u, v \in users : u # v => u.id # v.id /\ u.email # v.email /\ (u.sub = None \/ u.sub # v.sub)
    /\ flows \in 0 .. MaxFlows /\ states \subseteq 1 .. flows
    /\ codes \subseteq [id : Nat, flow : 1 .. flows, user : Nat, sub : Subs, usable : BOOLEAN]
    /\ sessions \subseteq [id : Nat, user : Nat, code : Nat, late : BOOLEAN, live : BOOLEAN]
    /\ proc \in [Procs -> Request]
    /\ logins \in 0 .. MaxLogins /\ faults \in 0 .. MaxFaults

\* One sign-in with Google yields one code at most, and one code one session,
\* however many callbacks and exchanges present them at once (TakeState,
\* TakeCode).
TakenOnce ==
    /\ \A c, d \in codes : c.flow = d.flow => c = d
    /\ \A s, t \in sessions : s.code # 0 /\ s.code = t.code => s = t

\* A session opened through Google is on the account that carries the subject
\* Google vouched for, for as long as it lasts: sign-ins that race for one
\* address never enter each other's account (attachGoogle, AttachGoogle).  A
\* live session opened with a password is on an account that still has it,
\* unless a link removed it after Login had checked it.
RightAccount ==
    /\ \A s \in sessions, c \in codes :
          s.code = c.id => \E u \in users : u.id = s.user /\ u.sub = c.sub
    /\ \A s \in sessions : s.live /\ s.code = 0 => HasPassword(s.user) \/ s.late

\* A sign-in that Google vouched for is refused only if the address belongs to
\* another Google account or the Google account to another address: racing
\* first sign-ins and registrations refuse nobody (linkOrCreateGoogleUser),
\* and nothing but a fault ends in an internal error.
OwnersGetIn == \A p \in Procs : At(p, "done") =>
    /\ proc[p].reply = "error" => faults > 0
    /\ proc[p].reply = "invalid_token" /\ proc[p].email \in Emails =>
          \E u \in users : \/ u.email = proc[p].email /\ u.sub \notin {None, proc[p].sub}
                           \/ u.sub = proc[p].sub /\ u.email # proc[p].email
=============================================================================
