------------------------------ MODULE JwksCache ------------------------------
(***************************************************************************)
(* The cache of Google's signing keys that every sign-in verifies its       *)
(* id-token with: a read lock for lookups, a fetch lock for refreshes, a   *)
(* lifetime taken from the answer, a throttle on fetches, and a fallback   *)
(* to the key last seen when Google cannot be asked.                       *)
(*                                                                         *)
(* Source: internal/auth/google.go (Verify, keyForToken, cachedKey,        *)
(* refreshKeys, jwksTTL).                                                  *)
(*                                                                         *)
(* A key is its kid: Google does not give one kid two keys.  A fetched     *)
(* document is the set of its usable RSA keys.  What Verify does with the  *)
(* key (signature, audience, issuer, expiry) is the jwt library's.         *)
(***************************************************************************)
EXTENDS Integers, Sequences

CONSTANTS
    Procs,                    \* tokens verified at the same time
    Kids,
    Nobody,
    MinTTL, MaxTTL, FallbackTTL, MinRefetch,
    MaxAges,                  \* values of max-age in Cache-Control; -1: none or malformed
    Horizon,                  \* bound: the clock stops here
    MaxTokens                 \* bound: tokens verified

ASSUME TTLAssumption ==
    /\ {MinTTL, MaxTTL, FallbackTTL, MinRefetch} \subseteq Nat \ {0}
    /\ MinRefetch <= MinTTL /\ MinTTL <= FallbackTTL /\ FallbackTTL <= MaxTTL
ASSUME JwksBounds == Horizon \in Nat /\ MaxTokens \in Nat /\ MaxAges \subseteq Int
ASSUME NobodyAssumption == Nobody \notin Procs

VARIABLES
    now,
    published,   \* what Google serves: kids not yet ("new"), now, or no longer published
    keys,        \* v.keys
    freshTill,   \* v.freshTill
    fetchMu,     \* the request that holds v.fetchMu, or Nobody
    nextFetch,   \* v.nextFetch
    proc,        \* request: see Request
    tokens,
    fetches,     \* history: when fetches were started
    lastDoc,     \* history: the keys of the last fetch that succeeded
    outage       \* history: the last fetch failed

cache == <<keys, freshTill, lastDoc>>
vars == <<now, published, cache, fetchMu, nextFetch, proc, tokens, fetches, outage>>

Request == [pc : {"idle", "refresh", "fetch", "store", "recheck", "accepted", "refused"},
            kid : Kids \cup {Nobody},
            had : BOOLEAN,          \* keyForToken's key is not nil
            err : BOOLEAN,          \* refreshKeys returned an error
            doc : SUBSET Kids,
            seen : SUBSET Kids,     \* history: keys Google's answers held since the request began
            renewed : BOOLEAN]      \* history: a fetch succeeded meanwhile

Fresh == [pc |-> "idle", kid |-> Nobody, had |-> FALSE, err |-> FALSE, doc |-> {}, seen |-> {},
          renewed |-> FALSE]

At(p, phase) == proc[p].pc = phase
Waiting(p) == proc[p].pc \in {"idle", "accepted", "refused"}
Become(p, r) == proc' = [proc EXCEPT ![p] = r]

Init ==
    /\ now = 0
    /\ published \in [Kids -> {"new", "now"}]
    /\ keys = {} /\ freshTill = 0 /\ lastDoc = {}
    /\ fetchMu = Nobody /\ nextFetch = 0
    /\ proc = [p \in Procs |-> Fresh]
    /\ tokens = 0 /\ fetches = <<>> /\ outage = FALSE

-----------------------------------------------------------------------------
(* The world: the clock, and Google rotating its keys *)

Tick ==
    /\ now < Horizon
    /\ now' = now + 1
    /\ UNCHANGED <<published, cache, fetchMu, nextFetch, proc, tokens, fetches, outage>>

RotateKey(k) ==
    /\ published[k] # "past"
    /\ published' = [published EXCEPT ![k] = IF @ = "new" THEN "now" ELSE "past"]
    /\ UNCHANGED <<now, cache, fetchMu, nextFetch, proc, tokens, fetches, outage>>

-----------------------------------------------------------------------------
(* keyForToken *)

\* cachedKey's second result.
IsFresh(k) == k \in keys /\ now < freshTill

\* A token comes in: its key is fresh, or the key store has to be refreshed.
KeyForToken(p, k) ==
    /\ Waiting(p)
    /\ tokens < MaxTokens
    /\ tokens' = tokens + 1
    /\ Become(p, IF IsFresh(k)
                 THEN [Fresh EXCEPT !.pc = "accepted", !.kid = k, !.seen = lastDoc]
                 ELSE [Fresh EXCEPT !.pc = "refresh", !.kid = k, !.seen = lastDoc, !.had = k \in keys])
    /\ UNCHANGED <<now, published, cache, fetchMu, nextFetch, fetches, outage>>

\* Faulty variant of Throttled: only a key that is still fresh throttles.
ThrottledWhenFresh == now < nextFetch /\ now < freshTill

Throttled == now < nextFetch

\* refreshKeys: fetchMu, the throttle, and the next fetch pushed back before
\* this one is started.
RefreshKeys(p) ==
    /\ At(p, "refresh")
    /\ fetchMu = Nobody
    /\ IF Throttled
       THEN /\ Become(p, [proc[p] EXCEPT !.pc = "recheck", !.err = TRUE])
            /\ UNCHANGED <<fetchMu, nextFetch, fetches, outage>>
       ELSE /\ fetchMu' = p
            /\ nextFetch' = now + MinRefetch
            /\ fetches' = Append(fetches, now)
            /\ outage' = TRUE
            /\ Become(p, [proc[p] EXCEPT !.pc = "fetch"])
    /\ UNCHANGED <<now, published, cache, tokens>>

\* Google answers with the keys of this moment.
FetchAnswered(p) ==
    /\ At(p, "fetch")
    /\ \E k \in Kids : published[k] = "now"
    /\ Become(p, [proc[p] EXCEPT !.pc = "store", !.doc = {k \in Kids : published[k] = "now"}])
    /\ UNCHANGED <<now, published, cache, fetchMu, nextFetch, tokens, fetches, outage>>

\* Faulty variant of Unlocked: an early return keeps the lock.
Kept == fetchMu

\* The deferred Unlock.
Unlocked == Nobody

\* No connection, a timeout, a bad status or body, or no usable key.
FetchFails(p) ==
    /\ At(p, "fetch")
    /\ fetchMu' = Unlocked
    /\ Become(p, [proc[p] EXCEPT !.pc = "recheck", !.err = TRUE])
    /\ UNCHANGED <<now, published, cache, nextFetch, tokens, fetches, outage>>

\* Faulty variant of TTL: the answer's lifetime is taken as it is.
TTLUnclamped(age) == IF age <= 0 THEN FallbackTTL ELSE age

\* jwksTTL; a max-age whose nanoseconds overflow comes out clamped as well.
TTL(age) ==
    CASE age <= 0 -> FallbackTTL
      [] 0 < age /\ age < MinTTL -> MinTTL
      [] age > MaxTTL -> MaxTTL
      [] OTHER -> age

\* Faulty variant of KeysAfter: new keys are added to the old ones.
KeysMerged(doc) == keys \cup doc

KeysAfter(doc) == doc

StoreKeys(p, age) ==
    LET doc == proc[p].doc IN
    /\ At(p, "store")
    /\ keys' = KeysAfter(doc) /\ lastDoc' = doc
    /\ freshTill' = now + TTL(age)
    /\ fetchMu' = Nobody /\ outage' = FALSE
    /\ proc' = [q \in Procs |->
          IF q = p THEN [proc[q] EXCEPT !.pc = "recheck", !.doc = {}, !.seen = @ \cup doc, !.renewed = TRUE]
          ELSE IF Waiting(q) THEN proc[q]
          ELSE [proc[q] EXCEPT !.seen = @ \cup doc, !.renewed = TRUE]]
    /\ UNCHANGED <<now, published, nextFetch, tokens, fetches>>

\* The rest of keyForToken: the refreshed key, else the one it had before if
\* Google could not be asked.
Recheck(p) ==
    LET r == proc[p]
        good == IsFresh(r.kid) \/ (r.err /\ r.had)
    IN  /\ At(p, "recheck")
        /\ Become(p, [Fresh EXCEPT !.pc = IF good THEN "accepted" ELSE "refused",
                                   !.kid = r.kid, !.seen = r.seen])
        /\ UNCHANGED <<now, published, cache, fetchMu, nextFetch, tokens, fetches, outage>>

Step(p) ==
    \/ RefreshKeys(p) \/ FetchAnswered(p) \/ FetchFails(p) \/ Recheck(p)
    \/ \E age \in MaxAges : StoreKeys(p, age)

Next ==
    \/ Tick
    \/ \E k \in Kids : RotateKey(k)
    \/ \E p \in Procs, k \in Kids : KeyForToken(p, k)
    \/ \E p \in Procs : Step(p)

Spec == Init /\ [][Next]_vars

\* A request that can go on does; a fetch ends by jwksTimeout at the latest;
\* sync.Mutex hands its lock to waiters in turn.
FairSpec == Spec /\ \A p \in Procs : SF_vars(Step(p))

-----------------------------------------------------------------------------
(* Properties *)

\* Type invariant: the cache, its locks and the requests are what the code
\* can make of them.
TypeOK ==
    /\ now \in 0 .. Horizon /\ published \in [Kids -> {"new", "now", "past"}]
    /\ keys \subseteq Kids /\ lastDoc \subseteq Kids
    /\ freshTill \in 0 .. Horizon + MaxTTL /\ nextFetch \in 0 .. Horizon + MinRefetch
    /\ fetchMu \in Procs \cup {Nobody}
    /\ proc \in [Procs -> Request]
    /\ tokens \in 0 .. MaxTokens /\ outage \in BOOLEAN

\* Google is asked at most once per jwksMinRefetch, however many tokens with
\* unknown or stale keys arrive and whether or not the fetches succeed.
FetchesSpaced == \A i, j \in DOMAIN fetches : i < j => fetches[j] >= fetches[i] + MinRefetch

\* A key that Google had withdrawn, as far as a fetch completed before the
\* request began could tell, verifies nothing.
WithdrawnRefused == \A p \in Procs : At(p, "accepted") => proc[p].kid \in proc[p].seen

\* A stale key is good exactly when Google cannot be asked: it is used only if
\* the last fetch failed, is under way, or fell into the request, so the
\* throttle alone never keeps a key alive (jwksMinTTL is no less than
\* jwksMinRefetch); and a key known to the cache is refused only if a fetch
\* succeeded meanwhile.
StaleOnlyInOutage == [][\A p \in Procs : At(p, "recheck") =>
    /\ proc'[p].pc = "accepted" /\ ~ IsFresh(proc[p].kid) => outage \/ proc[p].renewed
    /\ proc'[p].pc = "refused" /\ proc[p].had => proc[p].renewed]_vars

\* Every verification ends, even if Google never answers.
RequestsEnd == \A p \in Procs : At(p, "refresh") ~> Waiting(p)
=============================================================================
