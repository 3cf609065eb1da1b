-------------------------- MODULE JwksCacheProofs --------------------------
(***************************************************************************)
(* Proofs about JwksCache, for any number of requests, keys and fetches,   *)
(* any lifetimes that TTLAssumption allows and any max-age Google sends.    *)
(***************************************************************************)
EXTENDS JwksCache, TLAPS

(***************************************************************************)
(* The inductive invariant.  Its parts tie the throttle to the clock, the  *)
(* cache to the last document, and a request to the fetches since it began. *)
(***************************************************************************)

\* The throttle lies behind every fetch and at most MinRefetch ahead of the
\* clock; after a fetch that succeeded the keys outlast it.
ThrottleKept ==
    /\ fetches \in Seq(Int)
    /\ \A i \in DOMAIN fetches : fetches[i] + MinRefetch <= nextFetch
    /\ nextFetch <= now + MinRefetch
    /\ ~ outage => nextFetch <= freshTill

\* What p knows of the keys: it has seen those in the cache and the one it
\* had.
KeysSeen(p) ==
    /\ At(p, "accepted") => proc[p].kid \in proc[p].seen
    /\ ~ Waiting(p) => keys \subseteq proc[p].seen
    /\ ~ Waiting(p) /\ proc[p].had => proc[p].kid \in proc[p].seen

\* Why p refreshes, and what an error of its refresh tells it.
RefreshKnown(p) ==
    /\ At(p, "refresh") /\ proc[p].had => freshTill <= now \/ proc[p].renewed
    /\ At(p, "fetch") => outage \/ proc[p].renewed
    /\ At(p, "recheck") => proc[p].err \/ proc[p].renewed
    /\ At(p, "recheck") /\ proc[p].had => outage \/ proc[p].renewed

\* The inductive invariant of the key cache.
JwksInv ==
    /\ TypeOK /\ ThrottleKept /\ FetchesSpaced
    /\ keys = lastDoc
    /\ \A p \in Procs : KeysSeen(p) /\ RefreshKnown(p)

-----------------------------------------------------------------------------
(* Lemmas *)

\* What the assumptions say of each lifetime.
LEMMA Lifetimes ==
    /\ MinTTL \in Nat /\ MaxTTL \in Nat /\ MinRefetch \in Nat /\ Horizon \in Nat
    /\ 0 < MinRefetch /\ MinRefetch <= MinTTL /\ MinTTL <= MaxTTL
BY TTLAssumption, JwksBounds

\* jwksTTL clamps every lifetime to the configured bounds.
LEMMA TTLClamped ==
    ASSUME NEW age \in Int
    PROVE  TTL(age) \in MinTTL .. MaxTTL
BY TTLAssumption DEF TTL

\* A request that moves on leaves the others where they are.
LEMMA BecomeFacts ==
    ASSUME TypeOK, NEW p \in Procs, NEW r \in Request, Become(p, r)
    PROVE  /\ proc' \in [Procs -> Request] /\ proc'[p] = r
           /\ \A q \in Procs : q # p => proc'[q] = proc[q]
BY DEF TypeOK, Become

\* Only p moves, and the cache, the clock and the throttle stay: the others
\* keep what they know.
LEMMA MoveStep ==
    ASSUME JwksInv, NEW p \in Procs, NEW r \in Request, Become(p, r),
           UNCHANGED <<now, published, cache, nextFetch, fetches, outage>>,
           fetchMu' \in Procs \cup {Nobody}, tokens' \in 0 .. MaxTokens,
           KeysSeen(p)', RefreshKnown(p)'
    PROVE  JwksInv'
<1>1. /\ proc' \in [Procs -> Request]
      /\ \A q \in Procs : q # p => proc'[q] = proc[q]
    BY BecomeFacts DEF JwksInv
<1>2. ASSUME NEW q \in Procs, q # p PROVE KeysSeen(q)' /\ RefreshKnown(q)'
    BY <1>1, <1>2 DEF JwksInv, KeysSeen, RefreshKnown, At, Waiting, cache
<1>3. TypeOK'
    BY <1>1 DEF JwksInv, TypeOK, cache
<1>4. ThrottleKept' /\ FetchesSpaced' /\ (keys = lastDoc)'
    BY DEF JwksInv, ThrottleKept, FetchesSpaced, cache
<1> QED BY <1>2, <1>3, <1>4 DEF JwksInv

-----------------------------------------------------------------------------
(* One lemma per action *)

\* The clock moves on.
LEMMA TickStep == ASSUME JwksInv, Tick PROVE JwksInv'
<1>1. TypeOK'
    BY JwksBounds DEF JwksInv, Tick, TypeOK, cache
<1>2. ThrottleKept' /\ FetchesSpaced' /\ (keys = lastDoc)'
    BY TTLAssumption DEF JwksInv, Tick, TypeOK, ThrottleKept, FetchesSpaced, cache
<1>3. ASSUME NEW p \in Procs PROVE KeysSeen(p)' /\ RefreshKnown(p)'
    BY <1>3, TTLAssumption DEF JwksInv, Tick, TypeOK, KeysSeen, RefreshKnown, At, Waiting, cache
<1> QED BY <1>1, <1>2, <1>3 DEF JwksInv

\* Google publishes or withdraws a key.
LEMMA RotateKeyStep == ASSUME JwksInv, NEW k \in Kids, RotateKey(k) PROVE JwksInv'
<1>1. TypeOK'
    BY DEF JwksInv, RotateKey, TypeOK, cache
<1>2. ThrottleKept' /\ FetchesSpaced' /\ (keys = lastDoc)'
    BY DEF JwksInv, RotateKey, ThrottleKept, FetchesSpaced, cache
<1>3. ASSUME NEW p \in Procs PROVE KeysSeen(p)' /\ RefreshKnown(p)'
    BY <1>3 DEF JwksInv, RotateKey, KeysSeen, RefreshKnown, At, Waiting, cache
<1> QED BY <1>1, <1>2, <1>3 DEF JwksInv

\* A key that is not fresh makes the request refresh: if the cache has it, its
\* lifetime is over.
LEMMA KeyForTokenStep ==
    ASSUME JwksInv, NEW p \in Procs, NEW k \in Kids, KeyForToken(p, k)
    PROVE  JwksInv'
<1> DEFINE had == IF k \in keys THEN TRUE ELSE FALSE
           hit == [Fresh EXCEPT !.pc = "accepted", !.kid = k, !.seen = lastDoc]
           miss == [Fresh EXCEPT !.pc = "refresh", !.kid = k, !.seen = lastDoc, !.had = had]
<1>1. hit \in Request /\ miss \in Request
    BY DEF JwksInv, TypeOK, Fresh, Request
<1>2. /\ tokens' \in 0 .. MaxTokens /\ fetchMu' \in Procs \cup {Nobody}
      /\ UNCHANGED <<now, published, cache, nextFetch, fetches, outage>>
    BY JwksBounds DEF KeyForToken, JwksInv, TypeOK
<1>3. CASE IsFresh(k)
    <2>1. Become(p, hit)
        BY <1>3 DEF KeyForToken
    <2>2. proc'[p] = hit
        BY <1>1, <2>1, BecomeFacts DEF JwksInv
    <2>3. KeysSeen(p)' /\ RefreshKnown(p)'
        BY <1>2, <1>3, <2>2 DEF JwksInv, KeysSeen, RefreshKnown, At, Waiting, IsFresh, Fresh
    <2> HIDE DEF hit
    <2> QED BY <1>1, <1>2, <2>1, <2>3, MoveStep
<1>4. CASE ~ IsFresh(k)
    <2>1. Become(p, miss)
        <3>1. CASE k \in keys
            <4>1. (k \in keys) = TRUE /\ had = TRUE
                BY <3>1
            <4> QED BY <1>4, <4>1 DEF KeyForToken
        <3>2. CASE k \notin keys
            <4>1. (k \in keys) = FALSE /\ had = FALSE
                BY <3>2
            <4> QED BY <1>4, <4>1 DEF KeyForToken
        <3> QED BY <3>1, <3>2
    <2>2. proc'[p] = miss
        BY <1>1, <2>1, BecomeFacts DEF JwksInv
    <2>3. KeysSeen(p)' /\ RefreshKnown(p)'
        BY <1>2, <1>4, <2>2 DEF JwksInv, TypeOK, KeysSeen, RefreshKnown, At, Waiting, IsFresh, Fresh, cache
    <2> HIDE DEF miss
    <2> QED BY <1>1, <1>2, <2>1, <2>3, MoveStep
<1> QED BY <1>3, <1>4

\* The throttle does not hold while a fetch that succeeded keeps the keys
\* fresh, so a request that is throttled with a stale key is in an outage.
LEMMA RefreshKeysStep == ASSUME JwksInv, NEW p \in Procs, RefreshKeys(p) PROVE JwksInv'
<1> DEFINE put == [proc[p] EXCEPT !.pc = "recheck", !.err = TRUE]
           ask == [proc[p] EXCEPT !.pc = "fetch"]
<1>1. put \in Request /\ ask \in Request
    BY DEF JwksInv, TypeOK, Request
<1>2. CASE Throttled
    <2>1. /\ Become(p, put)
          /\ UNCHANGED <<now, published, cache, nextFetch, fetches, outage, fetchMu, tokens>>
        BY <1>2 DEF RefreshKeys
    <2>2. proc'[p] = put
        BY <1>1, <2>1, BecomeFacts DEF JwksInv
    <2>3. proc[p] \in Request /\ At(p, "refresh") /\ KeysSeen(p) /\ RefreshKnown(p)
        BY DEF RefreshKeys, JwksInv, TypeOK
    <2>4. put.pc = "recheck" /\ put.err = TRUE /\ put.had = proc[p].had /\ put.kid = proc[p].kid
             /\ put.seen = proc[p].seen /\ put.renewed = proc[p].renewed
        BY <2>3 DEF Request
    <2>5. outage \/ ~ freshTill <= now
        BY <1>2, TTLAssumption, JwksBounds DEF JwksInv, TypeOK, ThrottleKept, Throttled
    <2>6. KeysSeen(p)' /\ RefreshKnown(p)'
        BY <2>1, <2>2, <2>3, <2>4, <2>5 DEF KeysSeen, RefreshKnown, At, Waiting, cache
    <2> HIDE DEF put
    <2> QED BY <1>1, <2>1, <2>6, MoveStep DEF JwksInv, TypeOK
<1>3. CASE ~ Throttled
    <2>1. /\ Become(p, ask) /\ fetchMu' = p /\ nextFetch' = now + MinRefetch
          /\ fetches' = Append(fetches, now) /\ outage' = TRUE
          /\ UNCHANGED <<now, published, cache, tokens>>
        BY <1>3 DEF RefreshKeys
    <2>2. /\ proc' \in [Procs -> Request] /\ proc'[p] = ask
          /\ \A q \in Procs : q # p => proc'[q] = proc[q]
        BY <1>1, <2>1, BecomeFacts DEF JwksInv
    <2>3. TypeOK'
        BY <2>1, <2>2, TTLAssumption, JwksBounds DEF JwksInv, TypeOK, cache
    <2>4. /\ fetches' \in Seq(Int) /\ Len(fetches') = Len(fetches) + 1
          /\ Len(fetches) \in Nat
          /\ \A i \in 1 .. Len(fetches) : fetches'[i] = fetches[i] /\ fetches[i] \in Int
          /\ fetches'[Len(fetches) + 1] = now
          /\ DOMAIN fetches = 1 .. Len(fetches) /\ DOMAIN fetches' = 1 .. Len(fetches) + 1
        BY <2>1 DEF JwksInv, TypeOK, ThrottleKept
    <2>5. \A i \in DOMAIN fetches : fetches[i] + MinRefetch <= now
        <3>1. now \in Int /\ nextFetch \in Int /\ nextFetch <= now
            BY <1>3, Lifetimes DEF JwksInv, TypeOK, Throttled
        <3> QED BY <2>4, <3>1, Lifetimes DEF JwksInv, ThrottleKept
    <2>6. ThrottleKept'
        BY <2>1, <2>4, <2>5, TTLAssumption, JwksBounds, SMTT(30) DEF JwksInv, TypeOK, ThrottleKept, Throttled
    <2>7. FetchesSpaced'
        BY <2>4, <2>5 DEF JwksInv, FetchesSpaced
    <2>8. (keys = lastDoc)'
        BY <2>1 DEF JwksInv, cache
    <2>9. KeysSeen(p)' /\ RefreshKnown(p)'
        <3>1. proc[p] \in Request /\ At(p, "refresh") /\ KeysSeen(p)
            BY DEF RefreshKeys, JwksInv, TypeOK
        <3>2. ask.pc = "fetch" /\ ask.had = proc[p].had /\ ask.kid = proc[p].kid /\ ask.seen = proc[p].seen
            BY <3>1 DEF Request
        <3> QED BY <2>1, <2>2, <3>1, <3>2 DEF KeysSeen, RefreshKnown, At, Waiting, cache
    <2>10. ASSUME NEW q \in Procs, q # p PROVE KeysSeen(q)' /\ RefreshKnown(q)'
        BY <2>1, <2>2, <2>10 DEF JwksInv, KeysSeen, RefreshKnown, At, Waiting, cache
    <2> QED BY <2>3, <2>6, <2>7, <2>8, <2>9, <2>10 DEF JwksInv
<1> QED BY <1>2, <1>3

\* The call to Google answers or fails, and the cache is as it was.
LEMMA FetchStep ==
    ASSUME JwksInv, NEW p \in Procs, FetchAnswered(p) \/ FetchFails(p)
    PROVE  JwksInv'
<1> DEFINE answered == [proc[p] EXCEPT !.pc = "store", !.doc = {k \in Kids : published[k] = "now"}]
           failed == [proc[p] EXCEPT !.pc = "recheck", !.err = TRUE]
<1>1. /\ proc[p] \in Request /\ At(p, "fetch") /\ KeysSeen(p) /\ RefreshKnown(p)
      /\ UNCHANGED <<now, published, cache, nextFetch, fetches, outage>>
      /\ fetchMu' \in Procs \cup {Nobody} /\ tokens' \in 0 .. MaxTokens
    BY DEF JwksInv, TypeOK, FetchAnswered, FetchFails, Unlocked
<1>2. /\ answered \in Request /\ answered.pc = "store" /\ answered.had = proc[p].had
      /\ answered.kid = proc[p].kid /\ answered.seen = proc[p].seen
    BY <1>1 DEF Request
<1>3. /\ failed \in Request /\ failed.pc = "recheck" /\ failed.had = proc[p].had /\ failed.err = TRUE
      /\ failed.kid = proc[p].kid /\ failed.seen = proc[p].seen /\ failed.renewed = proc[p].renewed
    BY <1>1 DEF Request
<1>4. \/ Become(p, answered) /\ proc'[p] = answered
      \/ Become(p, failed) /\ proc'[p] = failed
    BY <1>2, <1>3, BecomeFacts DEF FetchAnswered, FetchFails, JwksInv
<1> HIDE DEF answered, failed
<1>5. KeysSeen(p)' /\ RefreshKnown(p)'
    BY <1>1, <1>2, <1>3, <1>4 DEF KeysSeen, RefreshKnown, At, Waiting, cache
<1> QED BY <1>1, <1>2, <1>3, <1>4, <1>5, MoveStep

\* After its refresh a request looks at the keys again.
LEMMA RecheckStep == ASSUME JwksInv, NEW p \in Procs, Recheck(p) PROVE JwksInv'
<1> DEFINE good == IsFresh(proc[p].kid) \/ (proc[p].err /\ proc[p].had)
           r == [Fresh EXCEPT !.pc = IF good THEN "accepted" ELSE "refused",
                              !.kid = proc[p].kid, !.seen = proc[p].seen]
<1>1. proc[p] \in Request /\ At(p, "recheck") /\ KeysSeen(p) /\ Become(p, r)
    BY DEF Recheck, JwksInv, TypeOK
<1>2. /\ r \in Request /\ r.kid = proc[p].kid /\ r.seen = proc[p].seen
      /\ r.pc \in {"accepted", "refused"} /\ (r.pc = "accepted" => good)
    BY <1>1 DEF Fresh, Request
<1>3. proc'[p] = r
    BY <1>1, <1>2, BecomeFacts DEF JwksInv
<1> HIDE DEF r
<1>4. KeysSeen(p)' /\ RefreshKnown(p)'
    BY <1>1, <1>2, <1>3 DEF KeysSeen, RefreshKnown, At, Waiting, IsFresh
<1> QED BY <1>1, <1>2, <1>4, MoveStep DEF Recheck, JwksInv, TypeOK

\* A fetch that succeeded renews the cache for at least MinTTL, which no
\* throttle set before outlasts, and for every request under way.
LEMMA StoreKeysStep ==
    ASSUME JwksInv, NEW p \in Procs, NEW age \in MaxAges, StoreKeys(p, age)
    PROVE  JwksInv'
<1> DEFINE doc == proc[p].doc
<1>1. /\ proc[p] \in Request /\ At(p, "store") /\ doc \subseteq Kids
      /\ keys' = doc /\ lastDoc' = doc /\ freshTill' = now + TTL(age)
      /\ fetchMu' = Nobody /\ outage' = FALSE
      /\ UNCHANGED <<now, published, nextFetch, tokens, fetches>>
    BY DEF StoreKeys, KeysAfter, JwksInv, TypeOK, Request
<1>2. TTL(age) \in MinTTL .. MaxTTL
    BY TTLClamped, JwksBounds
<1>3. ASSUME NEW q \in Procs
      PROVE  /\ proc'[q] \in Request /\ proc'[q].pc = (IF q = p THEN "recheck" ELSE proc[q].pc)
             /\ proc'[q].kid = proc[q].kid /\ proc'[q].had = proc[q].had
             /\ Waiting(q) => proc'[q] = proc[q]
             /\ ~ Waiting(q) => proc'[q].seen = proc[q].seen \cup doc /\ proc'[q].renewed = TRUE
    <2>1. proc[q] \in Request /\ ~ Waiting(p)
        BY <1>1, <1>3 DEF JwksInv, TypeOK, At, Waiting
    <2>2. proc'[q] = IF q = p
                     THEN [proc[q] EXCEPT !.pc = "recheck", !.doc = {}, !.seen = @ \cup doc, !.renewed = TRUE]
                     ELSE IF Waiting(q) THEN proc[q]
                     ELSE [proc[q] EXCEPT !.seen = @ \cup doc, !.renewed = TRUE]
        BY <1>3 DEF StoreKeys
    <2>3. CASE q = p
        <3>1. proc'[q] = [proc[q] EXCEPT !.pc = "recheck", !.doc = {}, !.seen = @ \cup doc, !.renewed = TRUE]
            BY <2>2, <2>3
        <3>2. proc[q].seen \cup doc \subseteq Kids
            BY <1>1, <2>1 DEF Request
        <3>3. ~ Waiting(q)
            BY <2>1, <2>3 DEF Waiting
        <3> HIDE DEF doc
        <3>4. proc'[q] \in Request
            BY <2>1, <3>1, <3>2 DEF Request
        <3>5. /\ proc'[q].pc = "recheck" /\ proc'[q].kid = proc[q].kid /\ proc'[q].had = proc[q].had
              /\ proc'[q].seen = proc[q].seen \cup doc /\ proc'[q].renewed = TRUE
            BY <2>1, <3>1 DEF Request
        <3> QED BY <2>3, <3>3, <3>4, <3>5
    <2>4. CASE q # p /\ ~ Waiting(q)
        <3>1. proc'[q] = [proc[q] EXCEPT !.seen = @ \cup doc, !.renewed = TRUE]
            BY <2>2, <2>4
        <3>2. proc[q].seen \cup doc \subseteq Kids
            BY <1>1, <2>1 DEF Request
        <3> HIDE DEF doc
        <3> QED BY <2>1, <2>4, <3>1, <3>2 DEF Request
    <2>5. CASE q # p /\ Waiting(q)
        BY <1>1, <2>1, <2>2, <2>5, SMTT(60)
    <2> QED BY <2>3, <2>4, <2>5
<1>4. proc' \in [Procs -> Request]
    BY <1>3 DEF StoreKeys
<1>5. TypeOK'
    <2>1. freshTill' \in 0 .. Horizon + MaxTTL
        BY <1>1, <1>2, Lifetimes DEF JwksInv, TypeOK
    <2> QED BY <1>1, <1>4, <2>1 DEF JwksInv, TypeOK
<1>6. ThrottleKept'
    BY <1>1, <1>2, TTLAssumption, JwksBounds, SMTT(30) DEF JwksInv, TypeOK, ThrottleKept
<1>7. FetchesSpaced' /\ (keys = lastDoc)'
    BY <1>1 DEF JwksInv, FetchesSpaced
<1>8. ASSUME NEW q \in Procs PROVE KeysSeen(q)' /\ RefreshKnown(q)'
    BY <1>1, <1>3, <1>8 DEF JwksInv, KeysSeen, RefreshKnown, At, Waiting
<1> QED BY <1>5, <1>6, <1>7, <1>8 DEF JwksInv

-----------------------------------------------------------------------------
(* Theorems *)

\* An empty cache satisfies the invariant.
LEMMA InvInit == Init => JwksInv
<1> SUFFICES ASSUME Init PROVE JwksInv
    OBVIOUS
<1> USE DEF Init
<1>1. TypeOK
    <2>1. Fresh \in Request
        BY DEF Fresh, Request
    <2>2. published \in [Kids -> {"new", "now", "past"}]
        OBVIOUS
    <2>3. proc \in [Procs -> Request]
        BY <2>1
    <2>4. /\ now \in 0 .. Horizon /\ tokens \in 0 .. MaxTokens
          /\ freshTill \in 0 .. Horizon + MaxTTL /\ nextFetch \in 0 .. Horizon + MinRefetch
        BY Lifetimes, JwksBounds
    <2> QED BY <2>2, <2>3, <2>4 DEF TypeOK
<1>2. ThrottleKept /\ FetchesSpaced
    BY TTLAssumption DEF ThrottleKept, FetchesSpaced
<1>3. ASSUME NEW p \in Procs PROVE KeysSeen(p) /\ RefreshKnown(p)
    BY <1>3 DEF KeysSeen, RefreshKnown, At, Waiting, Fresh
<1> QED BY <1>1, <1>2, <1>3 DEF JwksInv

\* Every step keeps the invariant.
LEMMA InvNext == JwksInv /\ [Next]_vars => JwksInv'
<1> SUFFICES ASSUME JwksInv, [Next]_vars PROVE JwksInv'
    OBVIOUS
<1>1. CASE UNCHANGED vars
    BY <1>1 DEF vars, cache, JwksInv, TypeOK, ThrottleKept, FetchesSpaced, KeysSeen, RefreshKnown, At, Waiting
<1>2. CASE Tick
    BY <1>2, TickStep
<1>3. CASE \E k \in Kids : RotateKey(k)
    BY <1>3, RotateKeyStep
<1>4. CASE \E p \in Procs, k \in Kids : KeyForToken(p, k)
    BY <1>4, KeyForTokenStep
<1>5. CASE \E p \in Procs : Step(p)
    BY <1>5, RefreshKeysStep, FetchStep, RecheckStep, StoreKeysStep DEF Step
<1> QED BY <1>1, <1>2, <1>3, <1>4, <1>5 DEF Next

\* The inductive invariant holds in every reachable state.
THEOREM JwksInvariant == Spec => []JwksInv
BY InvInit, InvNext, PTL DEF Spec

\* Type correctness: the lifetime of the keys and the throttle stay within
\* their bounds of the clock, whatever max-age Google sends (jwksTTL).
THEOREM TypeCorrect == Spec => []TypeOK
<1>1. JwksInv => TypeOK
    BY DEF JwksInv
<1> QED BY <1>1, JwksInvariant, PTL

\* Google is asked at most once per jwksMinRefetch, for any number of requests
\* and whatever becomes of the fetches (refreshKeys).
THEOREM SpacedFetches == Spec => []FetchesSpaced
<1>1. JwksInv => FetchesSpaced
    BY DEF JwksInv
<1> QED BY <1>1, JwksInvariant, PTL

\* No request verifies its token with a key that every document since the last
\* one before its start has left out (keyForToken).
THEOREM WithdrawnKeysRefused == Spec => []WithdrawnRefused
<1>1. JwksInv => WithdrawnRefused
    BY DEF JwksInv, KeysSeen, WithdrawnRefused
<1> QED BY <1>1, JwksInvariant, PTL

\* A step that ends a lookup with a stale key, or without the one it had.
LEMMA StaleStep ==
    ASSUME JwksInv, [Next]_vars, NEW p \in Procs, At(p, "recheck")
    PROVE  /\ proc'[p].pc = "accepted" /\ ~ IsFresh(proc[p].kid) => outage \/ proc[p].renewed
           /\ proc'[p].pc = "refused" /\ proc[p].had => proc[p].renewed
<1>1. proc[p] \in Request /\ RefreshKnown(p)
    BY DEF JwksInv, TypeOK
<1>2. CASE Recheck(p)
    <2> DEFINE good == IsFresh(proc[p].kid) \/ (proc[p].err /\ proc[p].had)
    <2>1. /\ proc'[p].pc = "accepted" => good
          /\ proc'[p].pc = "refused" => ~ good
        BY <1>1, <1>2 DEF Recheck, Become, JwksInv, TypeOK, Fresh, Request
    <2> QED BY <1>1, <2>1 DEF RefreshKnown, At
<1>3. CASE ~ Recheck(p)
    <2>1. proc'[p].pc = proc[p].pc
        <3>1. CASE UNCHANGED proc
            BY <3>1
        <3>2. CASE \E q \in Procs, k \in Kids : KeyForToken(q, k)
            BY <3>2 DEF KeyForToken, Become, At, Waiting, JwksInv, TypeOK
        <3>3. CASE \E q \in Procs : RefreshKeys(q) \/ FetchAnswered(q) \/ FetchFails(q) \/ Recheck(q)
            BY <1>3, <3>3 DEF RefreshKeys, FetchAnswered, FetchFails, Recheck, Become, At, JwksInv, TypeOK
        <3>4. CASE \E q \in Procs, age \in MaxAges : StoreKeys(q, age)
            <4>1. PICK q \in Procs, age \in MaxAges : StoreKeys(q, age)
                BY <3>4, SMTT(30)
            <4>2. q # p /\ ~ Waiting(p)
                BY <4>1 DEF StoreKeys, At, Waiting
            <4> QED BY <1>1, <4>1, <4>2 DEF StoreKeys, Request
        <3> QED BY <3>1, <3>2, <3>3, <3>4 DEF Next, Step, Tick, RotateKey, vars
    <2> QED BY <2>1 DEF At
<1> QED BY <1>2, <1>3

\* A stale key is used exactly when Google cannot be asked: the throttle alone
\* keeps no key alive, and a known key is refused only after a fetch that
\* succeeded (keyForToken).
THEOREM StaleKeysOnlyInOutage == Spec => StaleOnlyInOutage
<1> DEFINE Allowed == \A p \in Procs : At(p, "recheck") =>
        /\ proc'[p].pc = "accepted" /\ ~ IsFresh(proc[p].kid) => outage \/ proc[p].renewed
        /\ proc'[p].pc = "refused" /\ proc[p].had => proc[p].renewed
<1>1. JwksInv /\ [Next]_vars => [Allowed]_vars
    BY StaleStep
<1> QED BY <1>1, JwksInvariant, PTL DEF Spec, StaleOnlyInOutage
=============================================================================
