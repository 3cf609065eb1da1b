--------------------------- MODULE LiveFeedProofs ---------------------------
(***************************************************************************)
(* Proofs about EventReads and LiveFeed, for any number of listings,       *)
(* feeds, users and rows, every page size and every query.                 *)
(***************************************************************************)
EXTENDS LiveFeed, FiniteSetTheorems, FunctionTheorems, TLAPS

-----------------------------------------------------------------------------
(* ORDER BY.  A row's place is the number of rows that are not behind it,  *)
(* which tells rows apart, so every place is taken.                        *)

\* A table: rows with ids of their own.
Table(S) == S \subseteq Row /\ \A r, s \in S : r.id = s.id => r = s

\* Newest first is a strict total order of a table.
LEMMA NewerOrders ==
    ASSUME NEW S, Table(S)
    PROVE  /\ \A r, s \in S : r # s => Newer(r, s) \/ Newer(s, r)
           /\ \A r, s \in Row : ~ (Newer(r, s) /\ Newer(s, r))
           /\ \A r, s, t \in Row : Newer(r, s) /\ Newer(s, t) => Newer(r, t)
<1>1. \A r \in Row : r.at \in Int /\ r.id \in Int
    BY ReadsAssumption DEF Row
<1>2. \A r, s \in S : r # s => r.id # s.id /\ r \in Row /\ s \in Row
    BY DEF Table
<1> QED BY <1>1, <1>2 DEF Newer

\* A table is finite: its ids are bounded.
LEMMA TableFinite ==
    ASSUME NEW S, Table(S)
    PROVE  IsFiniteSet(S)
<1> DEFINE f == [r \in S |-> r.id]
<1>1. f \in Injection(S, 1 .. MaxRows)
    BY DEF Injection, IsInjective, Table, Row
<1>2. IsFiniteSet(1 .. MaxRows)
    BY ReadsAssumption, FS_Interval
<1> QED BY <1>1, <1>2, FS_Injection

\* The rows up to r, itself included, newest first.
UpTo(S, r) == {s \in S : s = r \/ Newer(s, r)}

\* The place of r when S is sorted newest first.
Place(S, r) == Cardinality(UpTo(S, r))

\* Places are numbers of the sorted sequence, and rise from newer to older.
LEMMA PlaceFacts ==
    ASSUME NEW S, Table(S)
    PROVE  /\ Cardinality(S) \in Nat
           /\ \A r \in S : Place(S, r) \in 1 .. Cardinality(S)
           /\ \A r, s \in S : Newer(r, s) => Place(S, r) < Place(S, s)
<1>1. IsFiniteSet(S)
    BY TableFinite
<1>2. \A T : T \subseteq S => /\ IsFiniteSet(T) /\ Cardinality(T) \in Nat
                             /\ Cardinality(T) <= Cardinality(S)
    BY <1>1, FS_Subset, FS_CardinalityType
<1>3. Cardinality(S) \in Nat
    BY <1>1, FS_CardinalityType
<1>4. ASSUME NEW r \in S PROVE Place(S, r) \in 1 .. Cardinality(S)
    <2>1. UpTo(S, r) \subseteq S /\ UpTo(S, r) # {}
        BY DEF UpTo
    <2>2. Cardinality(UpTo(S, r)) # 0
        BY <1>2, <2>1, FS_EmptySet
    <2> QED BY <1>2, <1>3, <2>1, <2>2 DEF Place
<1>5. ASSUME NEW r \in S, NEW s \in S, Newer(r, s)
      PROVE  Place(S, r) < Place(S, s)
    <2>1. UpTo(S, r) \subseteq UpTo(S, s)
        BY <1>5, NewerOrders DEF UpTo, Table
    <2>2. s \in UpTo(S, s) /\ s \notin UpTo(S, r)
        BY <1>5, NewerOrders DEF UpTo, Table
    <2>3. PICK A, B : A = UpTo(S, r) /\ B = UpTo(S, s)
        OBVIOUS
    <2>4. A \in SUBSET B /\ A # B /\ IsFiniteSet(B) /\ Cardinality(A) \in Nat /\ Cardinality(B) \in Nat
        BY <1>2, <2>1, <2>2, <2>3 DEF UpTo
    <2>5. Cardinality(A) <= Cardinality(B) /\ Cardinality(A) # Cardinality(B)
        BY <2>4, FS_Subset
    <2> QED BY <2>3, <2>4, <2>5 DEF Place
<1> QED BY <1>3, <1>4, <1>5

\* An injection of a table into as many numbers, or back, leaves none out.
LEMMA OntoNumbers ==
    ASSUME NEW S, IsFiniteSet(S), NEW n \in Nat, n = Cardinality(S)
    PROVE  /\ \A f \in Injection(S, 1 .. n) : f \in Surjection(S, 1 .. n)
           /\ \A f \in Injection(1 .. n, S) : f \in Surjection(1 .. n, S)
<1>1. IsFiniteSet(1 .. n) /\ Cardinality(1 .. n) = n
    BY FS_Interval
<1>2. ASSUME NEW f \in Injection(S, 1 .. n) PROVE f \in Surjection(S, 1 .. n)
    BY <1>1, <1>2, FS_Injection
<1>3. ASSUME NEW f \in Injection(1 .. n, S) PROVE f \in Surjection(1 .. n, S)
    BY <1>1, <1>3, FS_Injection
<1> QED BY <1>2, <1>3

\* ORDER BY puts a table into a sequence of all its rows, newest first.
LEMMA SortedFacts ==
    ASSUME NEW S, Table(S)
    PROVE  /\ Sorted(S) \in [1 .. Cardinality(S) -> S]
           /\ Cardinality(S) \in Nat
           /\ \A i, j \in 1 .. Cardinality(S) : i < j => Newer(Sorted(S)[i], Sorted(S)[j])
           /\ \A r \in S : \E i \in 1 .. Cardinality(S) : Sorted(S)[i] = r
<1> DEFINE n == Cardinality(S)
<1>1. n \in Nat /\ IsFiniteSet(S)
    BY PlaceFacts, TableFinite
<1> HIDE DEF n
<1>2. \E q \in SetToSeqs(S) : \A i, j \in DOMAIN q : i < j => Newer(q[i], q[j])
    <2> DEFINE f == [r \in S |-> Place(S, r)]
               g == [i \in 1 .. n |-> CHOOSE r \in S : f[r] = i]
    <2>1. f \in Injection(S, 1 .. n)
        <3>1. f \in [S -> 1 .. n]
            BY PlaceFacts DEF n
        <3>2. \A r, s \in S : f[r] = f[s] => r = s
            <4>1. \A r, s \in S : r # s => f[r] < f[s] \/ f[s] < f[r]
                BY PlaceFacts, NewerOrders
            <4>2. \A r \in S : f[r] \in Int
                BY <3>1, <1>1
            <4> HIDE DEF f
            <4> QED BY <4>1, <4>2
        <3> QED BY <3>1, <3>2 DEF Injection, IsInjective
    <2>2. \A i \in 1 .. n : \E r \in S : f[r] = i
        BY <1>1, <2>1, OntoNumbers DEF Surjection, n
    <2>3. \A i \in 1 .. n : g[i] \in S /\ f[g[i]] = i
        <3> HIDE DEF f
        <3> QED BY <2>2
    <2>4. g \in SetToSeqs(S)
        <3>1. g \in [1 .. n -> S]
            BY <2>3
        <3>2. \A i, j \in 1 .. n : i # j => g[i] # g[j]
            <4> HIDE DEF f, g
            <4> QED BY <2>3
        <3> HIDE DEF g
        <3> QED BY <3>1, <3>2 DEF SetToSeqs, n
    <2>5. \A i, j \in 1 .. n : i < j => Newer(g[i], g[j])
        <3> SUFFICES ASSUME NEW i \in 1 .. n, NEW j \in 1 .. n, i < j PROVE Newer(g[i], g[j])
            OBVIOUS
        <3>1. PICK a \in S, b \in S : a = g[i] /\ b = g[j]
            BY <2>3
        <3>2. Place(S, a) = i /\ Place(S, b) = j
            BY <2>3, <3>1
        <3>3. a # b
            BY <1>1, <3>2
        <3>4. ~ Newer(b, a)
            BY <1>1, <3>2, PlaceFacts
        <3> QED BY <3>1, <3>3, <3>4, NewerOrders
    <2>6. DOMAIN g = 1 .. n
        OBVIOUS
    <2> QED BY <2>4, <2>5, <2>6
<1>3. Sorted(S) \in SetToSeqs(S) /\ \A i, j \in DOMAIN Sorted(S) : i < j => Newer(Sorted(S)[i], Sorted(S)[j])
    BY <1>2 DEF Sorted
<1>4. Sorted(S) \in [1 .. n -> S] /\ \A i, j \in 1 .. n : i # j => Sorted(S)[i] # Sorted(S)[j]
    BY <1>3 DEF SetToSeqs, n
<1>5. Sorted(S) \in Injection(1 .. n, S)
    BY <1>4 DEF Injection, IsInjective
<1>6. Sorted(S) \in Surjection(1 .. n, S)
    BY <1>1, <1>5, OntoNumbers DEF n
<1> QED BY <1>1, <1>3, <1>4, <1>6 DEF Surjection, n

-----------------------------------------------------------------------------
(* Pages *)

\* The rows a query with a cursor is about.
Found(q, cursor) == {r \in rows : Matches(r, q) /\ (cursor # None => Earlier(r, cursor))}

\* A page of at most q.limit rows, the newest ones found, and what is left out.
IsPage(new, q, cursor) ==
    /\ new \in Seq(Row) /\ Len(new) <= q.limit
    /\ \A i \in 1 .. Len(new) : new[i] \in Found(q, cursor)
    /\ \A i, j \in 1 .. Len(new) : i < j => Newer(new[i], new[j])
    /\ \A r \in Found(q, cursor) :
          \/ \E i \in 1 .. Len(new) : new[i] = r
          \/ /\ Len(new) = q.limit /\ Cardinality(Found(q, cursor)) > q.limit
             /\ \A i \in 1 .. Len(new) : Newer(new[i], r)
    /\ Cardinality(Found(q, cursor)) > q.limit => Len(new) = q.limit

\* Asking for one row more than the page tells whether there is a next one.
LEMMA PageFacts ==
    ASSUME Table(rows), NEW q \in Listing, NEW cursor
    PROVE  \E new : /\ IsPage(new, q, cursor)
                   /\ Page(q, cursor) = [q EXCEPT !.got = @ \o new,
                          !.pc = IF Cardinality(Found(q, cursor)) > q.limit THEN "more" ELSE "end"]
<1>1. Table(Found(q, cursor))
    BY DEF Table, Found
<1>2. PICK S : S = Found(q, cursor)
    OBVIOUS
<1>3. PICK z : z = Sorted(S)
    OBVIOUS
<1>4. PICK n \in Nat : n = Cardinality(S)
    BY <1>1, <1>2, SortedFacts
<1>5. /\ z \in [1 .. n -> S]
      /\ \A i, j \in 1 .. n : i < j => Newer(z[i], z[j])
      /\ \A r \in S : \E i \in 1 .. n : z[i] = r
    BY <1>1, <1>2, <1>3, <1>4, SortedFacts
<1>6. S \subseteq Row
    BY <1>1, <1>2 DEF Table
<1>7. z \in Seq(Row) /\ Len(z) = n
    BY <1>4, <1>5, <1>6
<1>8. PICK k \in Nat \ {0} : k = q.limit
    BY ReadsAssumption DEF Listing
<1> DEFINE m == IF k + 1 < n THEN k + 1 ELSE n
           sel == SubSeq(z, 1, m)
           more == n > k
           len == IF more THEN k ELSE n
           new == IF more THEN Front(sel) ELSE sel
<1>9. Select(q, cursor, q.limit + 1) = sel
    BY <1>2, <1>3, <1>7, <1>8 DEF Select, Found
<1>10. /\ m \in Nat /\ m <= n /\ sel \in Seq(Row) /\ Len(sel) = m
       /\ \A i \in 1 .. m : sel[i] = z[i]
    BY <1>4, <1>7, <1>8
<1>11. (Len(sel) = k + 1) <=> more
    BY <1>4, <1>8, <1>10
<1>12. Page(q, cursor) = [q EXCEPT !.got = @ \o new, !.pc = IF more THEN "more" ELSE "end"]
    <2> HIDE DEF sel, more
    <2> QED BY <1>8, <1>9, <1>11 DEF Page
<1>13. /\ new \in Seq(Row) /\ Len(new) = len /\ len \in 0 .. n
       /\ \A i \in 1 .. len : new[i] = z[i]
    <2>1. CASE more
        <3>1. m = k + 1
            BY <1>4, <1>8, <2>1
        <3>2. Front(sel) = SubSeq(sel, 1, k)
            BY <1>8, <1>10, <3>1 DEF Front
        <3>3. /\ Front(sel) \in Seq(Row) /\ Len(Front(sel)) = k
              /\ \A i \in 1 .. k : Front(sel)[i] = sel[i]
            <4> HIDE DEF sel
            <4> QED BY <1>8, <1>10, <3>1, <3>2
        <3> QED BY <1>4, <1>8, <1>10, <2>1, <3>1, <3>3
    <2>2. CASE ~ more
        BY <1>4, <1>8, <1>10, <2>2
    <2> QED BY <2>1, <2>2
<1> HIDE DEF new, sel
<1>14. IsPage(new, q, cursor)
    <2>1. len <= k /\ (n > k => len = k) /\ len \in Nat
        BY <1>4, <1>8
    <2>2. \A i \in 1 .. len : new[i] \in S
        BY <1>4, <1>5, <1>13
    <2>3. \A i, j \in 1 .. len : i < j => Newer(new[i], new[j])
        BY <1>4, <1>5, <1>13
    <2>4. ASSUME NEW r \in S
          PROVE  \/ \E i \in 1 .. len : new[i] = r
                 \/ len = k /\ n > k /\ \A i \in 1 .. len : Newer(new[i], r)
        <3>1. PICK j \in 1 .. n : z[j] = r
            BY <1>5
        <3>2. CASE j <= len
            BY <1>4, <1>13, <3>1, <3>2
        <3>3. CASE j > len
            <4>1. len = k /\ n > k
                BY <1>4, <1>8, <3>3
            <4>2. \A i \in 1 .. len : Newer(new[i], r)
                BY <1>4, <1>5, <1>13, <3>1, <3>3
            <4> QED BY <4>1, <4>2
        <3> QED BY <1>4, <2>1, <3>2, <3>3
    <2> HIDE DEF len
    <2> QED BY <1>2, <1>4, <1>8, <1>13, <2>1, <2>2, <2>3, <2>4 DEF IsPage
<1>15. Cardinality(Found(q, cursor)) > q.limit <=> more
    BY <1>2, <1>4, <1>8
<1> QED BY <1>12, <1>14, <1>15

-----------------------------------------------------------------------------
(***************************************************************************)
(* The inductive invariant.  A listing that is not at its end has every    *)
(* row it owes either in its pages or behind its cursor; rows committed    *)
(* later can only be added behind it.  A feed that is connected has every  *)
(* published row shown, queued, dropped or in the gap.                     *)
(***************************************************************************)

\* r is an entry of the sequence s.
In(r, s) == \E i \in 1 .. Len(s) : s[i] = r

\* The pages so far, and the right to read them.
Pages(q) ==
    /\ \A i, j \in 1 .. Len(q.got) : i < j => Newer(q.got[i], q.got[j])
    /\ \A i \in 1 .. Len(q.got) : q.got[i] \in rows /\ Matches(q.got[i], q)
    /\ q.self \in Users /\ (q.target = q.self \/ q.self \in Admins)
    /\ \A r \in q.due : r \in rows /\ Matches(r, q)

\* A listing under way or at its end.
ListingInv(q) == q.pc \in {"more", "end"} =>
    /\ Pages(q)
    /\ q.pc = "more" => q.got # <<>>
    /\ \A r \in q.due : In(r, q.got) \/ (q.pc = "more" /\ Newer(Last(q.got), r))

\* The rows of user u.
Own(u) == {r \in rows : r.user = u}

\* What a connected feed has of a published row.
Covers(s, r) == In(r, s.events) \/ In(r, s.queue) \/ r \in s.dropped \/ r \in s.gap

\* A feed and its stream.
FeedInv(s) ==
    /\ \A i, j \in 1 .. Len(s.events) : s.events[i] = s.events[j] => i = j
    /\ \A r : In(r, s.events) \/ In(r, s.queue) => r \in Own(s.user)
    /\ s.pc # "offline" /\ Cardinality(Own(s.user)) <= FeedPage =>
          \A r \in Own(s.user) \cap published : Covers(s, r)

\* The inductive invariant of listings and feeds.
LiveInv ==
    /\ TypeOK
    /\ \A c \in Readers : ListingInv(reader[c])
    /\ \A f \in Feeds : FeedInv(feed[f])

-----------------------------------------------------------------------------
(* Listings *)

\* Before a page is read: the cursor is the end of the pages so far, and what
\* they lack lies behind it.
Ready(q, cursor) ==
    /\ Pages(q)
    /\ IF cursor = None THEN q.got = <<>> ELSE q.got # <<>> /\ cursor = Last(q.got)
    /\ \A r \in q.due : In(r, q.got) \/ (cursor # None => Newer(cursor, r))

\* The next page goes on where the last one ended.
LEMMA ListingPage ==
    ASSUME Table(rows), NEW q \in Listing, NEW cursor, Ready(q, cursor)
    PROVE  Page(q, cursor) \in Listing /\ ListingInv(Page(q, cursor))
<1>1. PICK new : /\ IsPage(new, q, cursor)
                 /\ Page(q, cursor) = [q EXCEPT !.got = @ \o new,
                        !.pc = IF Cardinality(Found(q, cursor)) > q.limit THEN "more" ELSE "end"]
    BY PageFacts
<1>2. PICK p : p = Page(q, cursor)
    OBVIOUS
<1>3. new \in Seq(Row) /\ q.got \in Seq(Row) /\ q.limit \in Nat \ {0}
    BY <1>1, ReadsAssumption DEF IsPage, Listing
<1>4. PICK L \in Nat, M \in Nat : L = Len(q.got) /\ M = Len(new)
    BY <1>3
<1>5. PICK got \in Seq(Row) : got = q.got \o new
    <2>1. \A a, b \in Seq(Row) : a \o b \in Seq(Row)
        OBVIOUS
    <2> QED BY <1>3, <2>1
<1>6. /\ Len(got) = L + M
      /\ \A i \in 1 .. L : got[i] = q.got[i]
      /\ \A i \in L + 1 .. L + M : got[i] = new[i - L]
    BY <1>3, <1>4, <1>5
<1>7. /\ p.got = got
      /\ p.pc = IF Cardinality(Found(q, cursor)) > q.limit THEN "more" ELSE "end"
      /\ p.self = q.self /\ p.target = q.target /\ p.types = q.types /\ p.from = q.from
      /\ p.to = q.to /\ p.limit = q.limit /\ p.due = q.due
    BY <1>1, <1>2, <1>5 DEF Listing
<1>8. p \in Listing
    <2>1. p = [q EXCEPT !.got = got, !.pc = p.pc] /\ p.pc \in {"more", "end"}
        BY <1>1, <1>2, <1>5, <1>7
    <2> QED BY <2>1 DEF Listing
<1>9. \A r : Matches(r, p) <=> Matches(r, q)
    BY <1>7 DEF Matches
<1>10. \A i \in 1 .. M : /\ new[i] \in Row /\ new[i] \in rows /\ Matches(new[i], q)
                         /\ cursor # None => Newer(cursor, new[i])
    BY <1>1, <1>3, <1>4 DEF IsPage, Found, Earlier, Newer
<1>11. cursor # None => L > 0 /\ cursor = got[L] /\ cursor = q.got[L] /\ cursor \in Row
    <2> SUFFICES ASSUME cursor # None
                 PROVE  L > 0 /\ cursor = got[L] /\ cursor = q.got[L] /\ cursor \in Row
        OBVIOUS
    <2>1. q.got # <<>> /\ cursor = q.got[L]
        BY <1>4 DEF Ready, Last
    <2>2. L > 0
        BY <1>3, <1>4, <2>1
    <2>3. L \in 1 .. L /\ q.got[L] \in Row
        BY <1>3, <1>4, <2>2
    <2> QED BY <1>6, <2>1, <2>2, <2>3
<1>12. cursor = None => L = 0
    BY <1>4 DEF Ready
<1>13. Pages(p)
    <2>1. ASSUME NEW i \in 1 .. L + M, NEW j \in 1 .. L + M, i < j
          PROVE  Newer(got[i], got[j])
        <3>1. CASE j <= L
            <4>1. Newer(q.got[i], q.got[j])
                BY <1>4, <2>1, <3>1 DEF Ready, Pages
            <4> QED BY <1>4, <1>6, <2>1, <3>1, <4>1
        <3>2. CASE i > L
            <4>1. /\ i - L \in 1 .. M /\ j - L \in 1 .. M /\ i - L < j - L
                  /\ i \in L + 1 .. L + M /\ j \in L + 1 .. L + M
                BY <1>4, <2>1, <3>2
            <4>2. Newer(new[i - L], new[j - L])
                BY <1>1, <1>4, <4>1 DEF IsPage
            <4> QED BY <1>6, <4>1, <4>2
        <3>3. CASE i <= L /\ j > L
            <4>1. cursor # None
                BY <1>4, <1>12, <3>3
            <4>2. got[j] = new[j - L] /\ j - L \in 1 .. M
                <5>1. j \in L + 1 .. L + M /\ j - L \in 1 .. M
                    BY <1>4, <3>3
                <5> QED BY <1>6, <5>1
            <4>3. Newer(cursor, got[j]) /\ got[j] \in Row
                <5>1. PICK k \in 1 .. M : k = j - L
                    BY <4>2
                <5>2. got[j] = new[k]
                    BY <4>2, <5>1
                <5>3. Newer(cursor, new[k]) /\ new[k] \in Row
                    BY <1>10, <4>1
                <5> QED BY <5>2, <5>3, Zenon
            <4>4. got[i] = cursor \/ Newer(got[i], cursor)
                <5>1. CASE i = L
                    BY <1>11, <4>1, <5>1
                <5>2. CASE i < L
                    <6>1. Newer(q.got[i], q.got[L])
                        BY <1>4, <5>2 DEF Ready, Pages
                    <6> QED BY <1>4, <1>6, <1>11, <4>1, <5>2, <6>1
                <5> QED BY <1>4, <3>3, <5>1, <5>2
            <4>5. got[i] \in Row /\ cursor \in Row
                BY <1>4, <1>5, <1>6, <1>11, <4>1
            <4>6. \A a, b, c \in Row : Newer(a, b) /\ Newer(b, c) => Newer(a, c)
                BY NewerOrders
            <4> QED BY <4>3, <4>4, <4>5, <4>6
        <3> QED BY <1>4, <3>1, <3>2, <3>3
    <2>2. ASSUME NEW i \in 1 .. L + M
          PROVE  got[i] \in rows /\ Matches(got[i], q)
        <3>1. CASE i <= L
            BY <1>4, <1>6, <3>1 DEF Ready, Pages
        <3>2. CASE i > L
            <4>1. i \in L + 1 .. L + M /\ i - L \in 1 .. M
                BY <1>4, <3>2
            <4>2. PICK k \in 1 .. M : k = i - L
                BY <4>1
            <4>3. got[i] = new[k]
                BY <1>6, <4>1, <4>2
            <4>4. new[k] \in rows /\ Matches(new[k], q)
                BY <1>10
            <4> QED BY <4>3, <4>4, Zenon
        <3> QED BY <1>4, <3>1, <3>2
    <2> QED BY <1>6, <1>7, <1>9, <2>1, <2>2 DEF Pages, Ready
<1>14. p.pc = "more" => M = q.limit /\ Last(got) = new[M] /\ got # <<>>
    <2> SUFFICES ASSUME p.pc = "more" PROVE M = q.limit /\ Last(got) = new[M] /\ got # <<>>
        OBVIOUS
    <2>1. M = q.limit
        BY <1>1, <1>4, <1>7 DEF IsPage
    <2>2. L + M \in L + 1 .. L + M /\ (L + M) - L = M
        BY <1>3, <1>4, <2>1
    <2>3. Last(got) = new[M]
        BY <1>6, <2>2 DEF Last
    <2>4. Len(got) # 0
        BY <1>3, <1>4, <1>6, <2>1
    <2> QED BY <2>1, <2>3, <2>4
<1>15. ASSUME NEW r \in q.due
       PROVE  In(r, got) \/ (p.pc = "more" /\ Newer(Last(got), r))
    <2>1. CASE In(r, q.got)
        <3>1. PICK i \in 1 .. L : q.got[i] = r
            BY <1>4, <2>1 DEF In
        <3>2. i \in 1 .. L + M /\ got[i] = r
            BY <1>4, <1>6, <3>1
        <3> QED BY <1>6, <3>2 DEF In
    <2>2. CASE ~ In(r, q.got)
        <3>1. r \in Found(q, cursor)
            BY <2>2 DEF Ready, Pages, Found, Earlier, Newer
        <3>2. CASE \E i \in 1 .. M : new[i] = r
            <4>1. PICK i \in 1 .. M : new[i] = r
                BY <3>2
            <4>2. L + i \in 1 .. L + M /\ L + i \in L + 1 .. L + M /\ (L + i) - L = i
                BY <1>4
            <4>3. got[L + i] = r
                BY <1>6, <4>1, <4>2
            <4> QED BY <1>6, <4>2, <4>3 DEF In
        <3>3. CASE ~ \E i \in 1 .. M : new[i] = r
            <4>1. /\ Cardinality(Found(q, cursor)) > q.limit
                  /\ \A i \in 1 .. M : Newer(new[i], r)
                BY <1>1, <1>4, <3>1, <3>3 DEF IsPage
            <4>2. p.pc = "more"
                BY <1>7, <4>1
            <4>3. M \in 1 .. M
                BY <1>3, <1>4, <1>14, <4>2
            <4> QED BY <1>14, <4>1, <4>2, <4>3
        <3> QED BY <3>2, <3>3
    <2> QED BY <2>1, <2>2
<1> QED BY <1>2, <1>7, <1>8, <1>13, <1>14, <1>15 DEF ListingInv

\* A reader that has asked for nothing.
LEMMA NoListingType ==
    /\ NoListing \in Listing /\ NoListing.pc = "idle" /\ NoListing.got = <<>>
    /\ NoListing.types = {} /\ NoListing.from = None /\ NoListing.to = None
<1>1. PageMax \in 1 .. PageMax /\ <<>> \in Seq(Row) /\ "idle" \in {"idle", "more", "end", "refused"}
    BY ReadsAssumption
<1> QED BY <1>1 DEF NoListing, Listing

\* A first page: refused, or that of someone who may read it.
LEMMA FirstPageFacts ==
    ASSUME Table(rows), NEW self \in Users \cup {None}, NEW wanted \in Users \cup {None, Malformed},
           NEW types \in SUBSET Types, NEW from \in Marks \cup {None}, NEW to \in Marks \cup {None},
           NEW limit \in Limits, NEW c \in Readers, reader \in [Readers -> Listing],
           FirstPage(c, self, wanted, types, from, to, limit)
    PROVE  \E q \in Listing : ListingInv(q) /\ reader' = [reader EXCEPT ![c] = q]
<1> DEFINE target == IF wanted = None THEN self ELSE wanted
           q0 == [NoListing EXCEPT !.self = self, !.target = target, !.types = types,
                                   !.from = from, !.to = to, !.limit = PageSize(limit)]
           q1 == [q0 EXCEPT !.due = {r \in rows : Matches(r, q0)}]
           bad == from # None /\ to # None /\ from >= to
           refused == ~ Authenticated(self) \/ ~ MayRead(self, wanted) \/ bad
           no == [NoListing EXCEPT !.pc = "refused"]
<1>1. reader' = [reader EXCEPT ![c] = IF refused THEN no ELSE Page(q1, None)]
    BY DEF FirstPage
<1>2. PageMax \in Nat \ {0} /\ PageMax \in 1 .. PageMax
    BY ReadsAssumption
<1>3. CASE refused
    <2>1. no \in Listing
        BY NoListingType DEF Listing
    <2>2. ListingInv(no)
        BY NoListingType DEF ListingInv
    <2> QED BY <1>1, <1>3, <2>1, <2>2
<1>4. CASE ~ refused
    <2>1. /\ self \in Users /\ target \in Users
          /\ target = self \/ self \in Admins
        BY <1>4, ReadsAssumption DEF Authenticated, MayRead
    <2>2. PICK k \in 1 .. PageMax : k = PageSize(limit)
        BY <1>2, ReadsAssumption DEF PageSize
    <2>3. PICK d \in SUBSET Row : d = {r \in rows : Matches(r, q0)}
        BY DEF Table
    <2> HIDE DEF target
    <2>4. q0 \in Listing /\ q0.self = self /\ q0.target = target /\ q0.got = <<>>
        BY <2>1, <2>2, NoListingType DEF Listing
    <2>5. q1 = [q0 EXCEPT !.due = d]
        BY <2>3
    <2> HIDE DEF q0, q1
    <2>6. q1 \in Listing /\ q1.self = self /\ q1.target = target /\ q1.got = <<>> /\ q1.due = d
        BY <2>4, <2>5 DEF Listing
    <2>7. \A r : Matches(r, q1) <=> Matches(r, q0)
        BY <2>4, <2>5 DEF Matches, Listing
    <2>8. PICK q : q = q1
        OBVIOUS
    <2>9. Ready(q, None)
        <3>1. q.got = <<>> /\ Len(q.got) = 0
            BY <2>6, <2>8
        <3>2. \A r \in q.due : r \in rows /\ Matches(r, q)
            BY <2>3, <2>6, <2>7, <2>8
        <3>3. q.self \in Users /\ (q.target = q.self \/ q.self \in Admins)
            BY <2>1, <2>6, <2>8
        <3> QED BY <3>1, <3>2, <3>3 DEF Ready, Pages
    <2>10. Page(q, None) \in Listing /\ ListingInv(Page(q, None))
        BY <2>6, <2>8, <2>9, ListingPage
    <2> QED BY <1>1, <1>4, <2>8, <2>10
<1> QED BY <1>3, <1>4

\* Reading a page keeps every listing right.
LEMMA ReadStep ==
    ASSUME LiveInv, NEW c \in Readers, ReadPages(c)
    PROVE  reader' \in [Readers -> Listing] /\ \A d \in Readers : ListingInv(reader[d])'
<1>1. Table(rows) /\ reader \in [Readers -> Listing]
    BY DEF LiveInv, TypeOK, Table
<1>2. rows' = rows
    BY ZenonT(60) DEF ReadPages, Read, FirstPage, NextPage
<1>3. \E q \in Listing : ListingInv(q) /\ reader' = [reader EXCEPT ![c] = q]
    <2>1. CASE reader[c].pc = "idle" /\ \E self \in Users \cup {None}, wanted \in Users \cup {None, Malformed},
                  types \in SUBSET Types, from, to \in Marks \cup {None}, limit \in Limits :
                  FirstPage(c, self, wanted, types, from, to, limit)
        BY <1>1, <2>1, FirstPageFacts, SMTT(30)
    <2>2. CASE NextPage(c)
        <3>1. PICK q \in Listing : q = reader[c]
            BY <1>1
        <3>2. ListingInv(q) /\ q.pc = "more"
            BY <2>2, <3>1 DEF LiveInv, NextPage
        <3>3. PICK cursor : cursor = Last(q.got)
            OBVIOUS
        <3>4. q.got # <<>> /\ q.got \in Seq(Row)
            BY <3>2 DEF ListingInv, Listing
        <3>5. cursor # None
            BY <3>3, <3>4, CursorAssumption DEF Last
        <3>6. Ready(q, cursor)
            BY <3>2, <3>3, <3>5 DEF ListingInv, Ready
        <3>7. Page(q, cursor) \in Listing /\ ListingInv(Page(q, cursor))
            BY <1>1, <3>6, ListingPage
        <3>8. reader' = [reader EXCEPT ![c] = Page(q, cursor)]
            BY <2>2, <3>1, <3>3 DEF NextPage
        <3> QED BY <3>7, <3>8
    <2> QED BY <2>1, <2>2 DEF ReadPages, Read
<1>4. PICK q \in Listing : ListingInv(q) /\ reader' = [reader EXCEPT ![c] = q]
    BY <1>3
<1>5. \A d \in Readers : ListingInv(reader'[d])
    BY <1>1, <1>4 DEF LiveInv
<1>6. \A d \in Readers : ListingInv(reader'[d]) <=> ListingInv(reader[d])'
    BY <1>2 DEF ListingInv, Pages, Matches
<1> QED BY <1>1, <1>4, <1>5, <1>6

-----------------------------------------------------------------------------
(* Feeds *)

\* The local state of a feed.
FeedState == [pc : {"offline", "joining", "live"}, user : Users \cup {None},
              events : Seq(Row), queue : Seq(Row), dropped : SUBSET Row, gap : SUBSET Row]

\* A user's rows are a finite table.
LEMMA OwnFinite ==
    ASSUME Table(rows), NEW u
    PROVE  IsFiniteSet(Own(u)) /\ Cardinality(Own(u)) \in Nat
<1>1. Table(Own(u))
    BY DEF Table, Own
<1>2. PICK S : S = Own(u)
    OBVIOUS
<1> QED BY <1>1, <1>2, TableFinite, FS_CardinalityType

\* The history is the newest page of the user's own rows, all of them if they
\* fit.
LEMMA HistoryFacts ==
    ASSUME Table(rows), NEW u \in Users
    PROVE  \E z \in Seq(Row) :
              /\ NewestPage(u) = z /\ Len(z) <= FeedPage
              /\ \A i, j \in 1 .. Len(z) : z[i] = z[j] => i = j
              /\ \A r : In(r, z) => r \in Own(u)
              /\ Cardinality(Own(u)) <= FeedPage => \A r \in Own(u) : In(r, z)
<1> DEFINE q0 == [NoListing EXCEPT !.target = u, !.limit = PageSize(FeedPage)]
<1>1. FeedPage \in 1 .. PageMax /\ PageMax \in Nat /\ PageSize(FeedPage) = FeedPage
    BY ReadsAssumption, FeedAssumption DEF PageSize
<1>2. /\ q0 \in Listing /\ q0.target = u /\ q0.limit = FeedPage /\ q0.got = <<>>
      /\ q0.types = {} /\ q0.from = None /\ q0.to = None
    BY <1>1, NoListingType DEF Listing
<1>3. PICK q \in Listing : q = q0
    BY <1>2
<1>4. Found(q, None) = Own(u)
    BY <1>2, <1>3 DEF Found, Own, Matches
<1>5. PICK z : /\ IsPage(z, q, None)
               /\ Page(q, None) = [q EXCEPT !.got = @ \o z,
                      !.pc = IF Cardinality(Found(q, None)) > q.limit THEN "more" ELSE "end"]
    BY PageFacts
<1>6. z \in Seq(Row) /\ Len(z) <= FeedPage
    BY <1>2, <1>3, <1>5 DEF IsPage
<1>7. NewestPage(u) = z
    <2>1. Page(q, None).got = q.got \o z
        BY <1>5 DEF Listing
    <2>2. q.got = <<>>
        BY <1>2, <1>3
    <2>3. <<>> \o z = z
        BY <1>6
    <2> QED BY <1>3, <2>1, <2>2, <2>3 DEF NewestPage
<1>8. \A i, j \in 1 .. Len(z) : z[i] = z[j] => i = j
    <2>1. \A i \in 1 .. Len(z) : z[i] \in Row /\ i \in Int
        BY <1>6
    <2>2. \A i, j \in 1 .. Len(z) : i < j => Newer(z[i], z[j])
        BY <1>5 DEF IsPage
    <2>3. \A r \in Row : ~ Newer(r, r)
        BY NewerOrders
    <2>4. \A i, j \in 1 .. Len(z) : z[i] = z[j] => ~ (i < j) /\ ~ (j < i)
        BY <2>1, <2>2, <2>3
    <2> QED BY <2>1, <2>4
<1>9. \A r : In(r, z) => r \in Own(u)
    BY <1>4, <1>5 DEF IsPage, In
<1>10. ASSUME Cardinality(Own(u)) <= FeedPage, NEW r \in Own(u) PROVE In(r, z)
    <2>1. ~ (Cardinality(Found(q, None)) > q.limit)
        BY <1>1, <1>2, <1>3, <1>4, <1>10, OwnFinite
    <2> QED BY <1>4, <1>5, <1>10, <2>1 DEF IsPage, In
<1> QED BY <1>6, <1>7, <1>8, <1>9, <1>10

\* A sequence of different rows of one user is no longer than they are many.
LEMMA NoLonger ==
    ASSUME Table(rows), NEW u, NEW w \in Seq(Row),
           \A i, j \in 1 .. Len(w) : w[i] = w[j] => i = j,
           \A i \in 1 .. Len(w) : w[i] \in Own(u)
    PROVE  Len(w) <= Cardinality(Own(u))
<1>1. PICK S : S = Own(u)
    OBVIOUS
<1>2. IsFiniteSet(S)
    BY <1>1, OwnFinite
<1>3. PICK n \in Nat : n = Len(w)
    OBVIOUS
<1>4. w \in [1 .. n -> S]
    BY <1>1, <1>3
<1>5. w \in Injection(1 .. n, S)
    BY <1>3, <1>4 DEF Injection, IsInjective
<1>6. Cardinality(1 .. n) = n
    BY FS_Interval
<1>7. Cardinality(1 .. n) <= Cardinality(S)
    BY <1>2, <1>5, FS_Injection
<1> QED BY <1>1, <1>3, <1>6, <1>7

\* add: an event is shown once, and nothing falls off the end of a feed that
\* has room for all of the user's events.
LEMMA ShownFacts ==
    ASSUME Table(rows), NEW u, NEW events \in Seq(Row), NEW r \in Own(u),
           Len(events) <= FeedLimit,
           \A i, j \in 1 .. Len(events) : events[i] = events[j] => i = j,
           \A x : In(x, events) => x \in Own(u)
    PROVE  \E z \in Seq(Row) :
              /\ Shown(events, r) = z /\ Len(z) <= FeedLimit
              /\ \A i, j \in 1 .. Len(z) : z[i] = z[j] => i = j
              /\ \A x : In(x, z) => x \in Own(u)
              /\ Cardinality(Own(u)) <= FeedPage => \A x : In(x, events) \/ x = r => In(x, z)
<1>1. r \in Row /\ r \in rows
    BY DEF Own, Table
<1>2. CASE Known(events, r)
    <2>1. PICK i \in 1 .. Len(events) : events[i].id = r.id
        BY <1>2 DEF Known
    <2>2. events[i] \in rows
        BY DEF In, Own
    <2>3. events[i] = r
        BY <1>1, <2>1, <2>2 DEF Table
    <2>4. In(r, events)
        BY <2>3 DEF In
    <2>5. Shown(events, r) = events
        BY <1>2 DEF Shown
    <2> QED BY <2>4, <2>5
<1>3. CASE ~ Known(events, r)
    <2>1. PICK L \in Nat, F \in Nat : L = Len(events) /\ F = FeedLimit
        BY FeedAssumption
    <2> DEFINE w == <<r>> \o events
               m == IF L < F THEN L + 1 ELSE F
               z == SubSeq(w, 1, m)
    <2>2. /\ w \in Seq(Row) /\ Len(w) = L + 1
          /\ w[1] = r /\ \A i \in 1 .. L : w[i + 1] = events[i]
        <3>1. <<r>> \in Seq(Row) /\ Len(<<r>>) = 1 /\ <<r>>[1] = r
            BY <1>1
        <3> QED BY <2>1, <3>1
    <2>3. m \in Nat /\ m <= L + 1 /\ m <= F
        BY <2>1
    <2>4. Shown(events, r) = z
        BY <1>3, <2>1 DEF Shown
    <2> HIDE DEF w, m
    <2>5. /\ z \in Seq(Row) /\ Len(z) = m
          /\ \A i \in 1 .. m : z[i] = w[i]
        BY <2>1, <2>2, <2>3
    <2> HIDE DEF z
    <2>6. \A i \in 1 .. L : events[i] # r
        BY <1>3, <2>1 DEF Known
    <2>7. \A i \in 1 .. L + 1 : i = 1 \/ (i - 1 \in 1 .. L /\ w[i] = events[i - 1])
        <3> SUFFICES ASSUME NEW i \in 1 .. L + 1, i # 1 PROVE i - 1 \in 1 .. L /\ w[i] = events[i - 1]
            OBVIOUS
        <3>1. PICK k \in 1 .. L : k = i - 1
            BY <2>1
        <3>2. i = k + 1
            BY <2>1, <3>1
        <3> QED BY <2>2, <3>1, <3>2
    <2>8. \A i \in 1 .. L + 1 : w[i] \in Own(u)
        <3>1. \A i \in 1 .. L : events[i] \in Own(u)
            BY <2>1 DEF In
        <3> QED BY <2>2, <2>7, <3>1
    <2>9. \A i, j \in 1 .. L + 1 : w[i] = w[j] => i = j
        <3> SUFFICES ASSUME NEW i \in 1 .. L + 1, NEW j \in 1 .. L + 1, w[i] = w[j] PROVE i = j
            OBVIOUS
        <3>1. CASE i = 1 \/ j = 1
            BY <2>2, <2>6, <2>7, <3>1
        <3>2. CASE i # 1 /\ j # 1
            <4>1. i - 1 \in 1 .. L /\ j - 1 \in 1 .. L /\ events[i - 1] = events[j - 1]
                BY <2>7, <3>2
            <4>2. i - 1 = j - 1
                BY <2>1, <4>1
            <4> QED BY <2>1, <4>2
        <3> QED BY <3>1, <3>2
    <2>10. ASSUME Cardinality(Own(u)) <= FeedPage PROVE m = L + 1
        <3>1. L + 1 <= Cardinality(Own(u))
            <4>1. Len(w) <= Cardinality(Own(u))
                BY <2>2, <2>8, <2>9, NoLonger
            <4> QED BY <2>2, <4>1
        <3>2. L + 1 <= F
            BY <2>1, <2>10, <3>1, FeedAssumption, ReadsAssumption, OwnFinite
        <3> QED BY <2>1, <3>2 DEF m
    <2>11. ASSUME Cardinality(Own(u)) <= FeedPage, NEW x, In(x, events) \/ x = r PROVE In(x, z)
        <3>1. \E i \in 1 .. L + 1 : w[i] = x
            <4>1. CASE x = r
                <5>1. 1 \in 1 .. L + 1
                    BY <2>1
                <5> QED BY <2>2, <4>1, <5>1
            <4>2. CASE In(x, events)
                <5>1. PICK i \in 1 .. L : events[i] = x
                    BY <2>1, <4>2 DEF In
                <5>2. i + 1 \in 1 .. L + 1 /\ w[i + 1] = x
                    BY <2>1, <2>2, <5>1
                <5> QED BY <5>2
            <4> QED BY <2>11, <4>1, <4>2
        <3> QED BY <2>5, <2>10, <2>11, <3>1 DEF In
    <2>12. \A x : In(x, z) => x \in Own(u)
        BY <2>1, <2>3, <2>5, <2>8 DEF In
    <2>13. \A i, j \in 1 .. m : z[i] = z[j] => i = j
        BY <2>1, <2>3, <2>5, <2>9
    <2> QED BY <2>1, <2>3, <2>4, <2>5, <2>11, <2>12, <2>13
<1> QED BY <1>2, <1>3

-----------------------------------------------------------------------------
(* Steps *)

\* What LiveInv says of the types.
LEMMA Typed ==
    ASSUME LiveInv
    PROVE  /\ Table(rows) /\ reader \in [Readers -> Listing]
           /\ unpublished \subseteq rows /\ published \subseteq rows
           /\ feed \in [Feeds -> FeedState]
           /\ \A f \in Feeds : FeedInv(feed[f]) /\ Len(feed[f].events) <= FeedLimit
BY DEF LiveInv, TypeOK, Table, FeedState

\* A step that changes one feed and nothing else.
LEMMA FeedMoves ==
    ASSUME LiveInv, NEW f \in Feeds, NEW s \in FeedState, FeedInv(s), Len(s.events) <= FeedLimit,
           feed' = [feed EXCEPT ![f] = s], UNCHANGED <<rows, reader, unpublished, published>>
    PROVE  LiveInv'
<1>1. /\ feed' \in [Feeds -> FeedState]
      /\ \A g \in Feeds : feed'[g] = IF g = f THEN s ELSE feed[g]
    BY Typed
<1>2. \A g \in Feeds : FeedInv(feed'[g]) /\ Len(feed'[g].events) <= FeedLimit
    BY <1>1, Typed
<1>3. \A g \in Feeds : FeedInv(feed'[g]) => FeedInv(feed[g])'
    BY DEF FeedInv, Own, Covers
<1>4. \A c \in Readers : ListingInv(reader[c])'
    BY DEF LiveInv, ListingInv, Pages, Matches
<1>5. TypeOK'
    BY <1>1, <1>2 DEF LiveInv, TypeOK, FeedState
<1> QED BY <1>2, <1>3, <1>4, <1>5 DEF LiveInv

\* Recording adds a row: no listing and no feed owes it yet.
LEMMA RecordStep ==
    ASSUME LiveInv, NEW r \in Row, RecordEvent(r)
    PROVE  LiveInv'
<1>1. /\ rows' = rows \cup {r} /\ r.id \notin {x.id : x \in rows}
      /\ unpublished' = unpublished \cup {r} /\ UNCHANGED <<reader, published, feed>>
    BY DEF RecordEvent, Record
<1>2. Table(rows)' /\ Table(rows)
    BY <1>1, Typed DEF Table
<1>3. TypeOK'
    BY <1>1, <1>2 DEF LiveInv, TypeOK, Table
<1>4. \A c \in Readers : ListingInv(reader[c])'
    BY <1>1 DEF LiveInv, ListingInv, Pages, Matches
<1>5. ASSUME NEW f \in Feeds PROVE FeedInv(feed[f])'
    <2>1. FeedInv(feed[f]) /\ feed'[f] = feed[f] /\ published' = published /\ published \subseteq rows
        BY <1>1, Typed
    <2>2. PICK u : u = feed[f].user
        OBVIOUS
    <2>3. PICK A, B : A = Own(u) /\ B = Own(u)'
        OBVIOUS
    <2>4. A \in SUBSET B
        BY <1>1, <2>3 DEF Own
    <2>5. IsFiniteSet(B) /\ Cardinality(B) \in Nat
        <3>1. Table(B)
            BY <1>2, <2>3 DEF Table, Own
        <3> QED BY <3>1, TableFinite, FS_CardinalityType
    <2>6. Cardinality(A) <= Cardinality(B) /\ Cardinality(A) \in Nat
        BY <2>4, <2>5, FS_Subset, FS_CardinalityType
    <2>7. A \cap published = B \cap published
        BY <1>1, <2>1, <2>3 DEF Own
    <2>8. FeedPage \in Nat
        BY FeedAssumption, ReadsAssumption
    <2>9. Cardinality(B) <= FeedPage => Cardinality(A) <= FeedPage
        BY <2>5, <2>6, <2>8
    <2> QED BY <2>1, <2>2, <2>3, <2>4, <2>7, <2>9 DEF FeedInv, Covers
<1> QED BY <1>3, <1>4, <1>5 DEF LiveInv

\* publish: every connected feed of the user gets the row, drops it or is in
\* the gap.
LEMMA PublishStep ==
    ASSUME LiveInv, NEW r \in unpublished, Publish(r)
    PROVE  LiveInv'
<1>1. r \in rows /\ r \in Row
    BY Typed DEF Table
<1>2. PICK full \in SUBSET Feeds :
          feed' = [f \in Feeds |-> IF feed[f].user = r.user
                                   THEN Offered(feed[f], r, f \in full)
                                   ELSE feed[f]]
    BY DEF Publish
<1>3. /\ unpublished' = unpublished \ {r} /\ published' = published \cup {r}
      /\ UNCHANGED <<rows, reader>>
    BY DEF Publish
<1>4. ASSUME NEW f \in Feeds
      PROVE  /\ feed'[f] \in FeedState
             /\ Len(feed'[f].events) <= FeedLimit
             /\ FeedInv(feed[f])'
    <2>1. PICK s \in FeedState : s = feed[f]
        BY Typed
    <2>2. PICK t : t = feed'[f]
        OBVIOUS
    <2>3. FeedInv(s) /\ Len(s.events) <= FeedLimit
        BY <2>1, Typed
    <2>4. s.events \in Seq(Row) /\ s.queue \in Seq(Row) /\ s.dropped \in SUBSET Row /\ s.gap \in SUBSET Row
        BY DEF FeedState
    <2>5. s.pc \in {"offline", "joining", "live"}
        BY DEF FeedState
    <2>6. /\ t \in FeedState /\ t.pc = s.pc /\ t.user = s.user /\ t.events = s.events
          /\ \A x : In(x, s.queue) => In(x, t.queue)
          /\ \A x : In(x, t.queue) => In(x, s.queue) \/ (x = r /\ s.user = r.user)
          /\ s.dropped \subseteq t.dropped /\ s.gap \subseteq t.gap
          /\ s.user = r.user /\ s.pc # "offline" => In(r, t.queue) \/ r \in t.dropped \/ r \in t.gap
        <3>1. CASE s.user # r.user
            <4>1. t = s
                BY <1>2, <2>1, <2>2, <3>1
            <4> QED BY <3>1, <4>1
        <3>2. CASE s.user = r.user /\ s.pc = "joining"
            <4>1. t = [s EXCEPT !.gap = @ \cup {r}]
                BY <1>2, <2>1, <2>2, <3>2 DEF Offered
            <4>2. s.gap \cup {r} \in SUBSET Row
                BY <1>1, <2>4
            <4> QED BY <4>1, <4>2 DEF FeedState
        <3>3. CASE s.user = r.user /\ s.pc = "live" /\ f \in full
            <4>1. t = [s EXCEPT !.dropped = @ \cup {r}]
                BY <1>2, <2>1, <2>2, <3>3 DEF Offered
            <4>2. s.dropped \cup {r} \in SUBSET Row
                BY <1>1, <2>4
            <4> QED BY <4>1, <4>2 DEF FeedState
        <3>4. CASE s.user = r.user /\ s.pc = "live" /\ f \notin full
            <4>1. t = [s EXCEPT !.queue = Append(@, r)]
                <5>1. t = Offered(s, r, f \in full)
                    BY <1>2, <2>1, <2>2, <3>4
                <5>2. Offered(s, r, f \in full) = [s EXCEPT !.queue = Append(@, r)]
                    BY <3>4, Zenon DEF Offered
                <5> QED BY <5>1, <5>2
            <4>2. PICK z \in Seq(Row) : z = Append(s.queue, r)
                <5>1. \A a \in Seq(Row), x \in Row : Append(a, x) \in Seq(Row)
                    OBVIOUS
                <5> QED BY <1>1, <2>4, <5>1
            <4>3. PICK n \in Nat : n = Len(s.queue)
                BY <2>4
            <4>4. Len(z) = n + 1 /\ z[n + 1] = r /\ \A i \in 1 .. n : z[i] = s.queue[i]
                BY <1>1, <2>4, <4>2, <4>3
            <4>5. \A i \in 1 .. n + 1 : i \in 1 .. n \/ i = n + 1
                BY <4>3
            <4>6. 1 .. n \subseteq 1 .. n + 1 /\ n + 1 \in 1 .. n + 1
                BY <4>3
            <4>7. \A x : In(x, s.queue) => In(x, z)
                BY <4>3, <4>4, <4>6 DEF In
            <4>8. In(r, z)
                BY <4>4, <4>6 DEF In
            <4>9. \A x : In(x, z) => In(x, s.queue) \/ x = r
                BY <4>3, <4>4, <4>5 DEF In
            <4>10. /\ t \in FeedState /\ t.pc = s.pc /\ t.user = s.user /\ t.events = s.events
                   /\ t.queue = z /\ t.dropped = s.dropped /\ t.gap = s.gap
                BY <4>1, <4>2 DEF FeedState
            <4> QED BY <3>4, <4>7, <4>8, <4>9, <4>10
        <3>5. CASE s.user = r.user /\ s.pc = "offline"
            <4>1. t = s
                BY <1>2, <2>1, <2>2, <3>5 DEF Offered
            <4> QED BY <3>5, <4>1
        <3> QED BY <2>5, <3>1, <3>2, <3>3, <3>4, <3>5
    <2>7. \A v : Own(v)' = Own(v)
        BY <1>3 DEF Own
    <2>8. r \in Own(r.user)
        BY <1>1 DEF Own
    <2>9. \A x : In(x, t.events) \/ In(x, t.queue) => x \in Own(t.user)
        BY <2>3, <2>6, <2>8 DEF FeedInv
    <2>10. ASSUME t.pc # "offline", Cardinality(Own(t.user)) <= FeedPage,
                  NEW x \in Own(t.user) \cap (published \cup {r})
           PROVE  Covers(t, x)
        <3>1. CASE x = r
            <4>1. t.user = r.user
                BY <3>1 DEF Own
            <4> QED BY <2>6, <2>10, <3>1, <4>1 DEF Covers
        <3>2. CASE x # r
            <4>1. Covers(s, x)
                BY <2>3, <2>6, <2>10, <3>2 DEF FeedInv
            <4> QED BY <2>6, <4>1 DEF Covers
        <3> QED BY <3>1, <3>2
    <2>11. \A i, j \in 1 .. Len(t.events) : t.events[i] = t.events[j] => i = j
        BY <2>3, <2>6 DEF FeedInv
    <2>12. FeedInv(feed[f])'
        BY <1>3, <2>2, <2>7, <2>9, <2>10, <2>11 DEF FeedInv, Covers
    <2> QED BY <2>2, <2>3, <2>6, <2>12
<1>5. feed' \in [Feeds -> FeedState]
    BY <1>2, <1>4
<1>6. TypeOK'
    BY <1>1, <1>3, <1>4, <1>5 DEF LiveInv, TypeOK, FeedState
<1>7. \A c \in Readers : ListingInv(reader[c])'
    BY <1>3 DEF LiveInv, ListingInv, Pages, Matches
<1> QED BY <1>4, <1>6, <1>7 DEF LiveInv

\* connect: the feed starts over with the history of its user.
LEMMA LoadHistoryStep ==
    ASSUME LiveInv, NEW f \in Feeds, NEW u \in Users, LoadHistory(f, u)
    PROVE  LiveInv'
<1>1. PICK z \in Seq(Row) :
              /\ NewestPage(u) = z /\ Len(z) <= FeedPage
              /\ \A i, j \in 1 .. Len(z) : z[i] = z[j] => i = j
              /\ \A r : In(r, z) => r \in Own(u)
              /\ Cardinality(Own(u)) <= FeedPage => \A r \in Own(u) : In(r, z)
    BY Typed, HistoryFacts
<1>2. PICK s : s = [Offline EXCEPT !.pc = "joining", !.user = u, !.events = z]
    OBVIOUS
<1>3. /\ s \in FeedState /\ s.pc = "joining" /\ s.user = u
      /\ s.events = z /\ s.queue = <<>>
    <2>1. <<>> \in Seq(Row) /\ "joining" \in {"offline", "joining", "live"}
        OBVIOUS
    <2> QED BY <1>2, <2>1 DEF Offline, FeedState
<1>4. FeedInv(s)
    <2>1. \A r : ~ In(r, s.queue)
        BY <1>3 DEF In
    <2> QED BY <1>1, <1>3, <2>1 DEF FeedInv, Covers
<1>5. Len(s.events) <= FeedLimit
    <2>1. Len(z) \in Nat /\ FeedPage \in Nat /\ FeedLimit \in Nat /\ FeedPage <= FeedLimit
        BY <1>1, FeedAssumption, ReadsAssumption
    <2> QED BY <1>1, <1>3, <2>1
<1>6. feed' = [feed EXCEPT ![f] = s] /\ UNCHANGED <<rows, reader, unpublished, published>>
    BY <1>1, <1>2 DEF LoadHistory, History
<1> QED BY <1>3, <1>4, <1>5, <1>6, FeedMoves

\* The stream opens.
LEMMA SubscribeStep ==
    ASSUME LiveInv, NEW f \in Feeds, Subscribe(f)
    PROVE  LiveInv'
<1>1. PICK s \in FeedState : s = feed[f]
    BY Typed
<1>2. FeedInv(s) /\ Len(s.events) <= FeedLimit /\ s.pc = "joining"
    BY <1>1, Typed DEF Subscribe
<1>3. PICK t : t = [s EXCEPT !.pc = "live"]
    OBVIOUS
<1>4. /\ t \in FeedState /\ t.pc = "live" /\ t.user = s.user /\ t.events = s.events
      /\ t.queue = s.queue /\ t.dropped = s.dropped /\ t.gap = s.gap
    BY <1>3 DEF FeedState
<1>5. FeedInv(t) /\ Len(t.events) <= FeedLimit
    BY <1>2, <1>4 DEF FeedInv, Covers
<1>6. feed' = [feed EXCEPT ![f] = t] /\ UNCHANGED <<rows, reader, unpublished, published>>
    BY <1>1, <1>3, Typed DEF Subscribe
<1> QED BY <1>4, <1>5, <1>6, FeedMoves

\* The next event of the stream is shown, unless the history had it.
LEMMA ReceiveStep ==
    ASSUME LiveInv, NEW f \in Feeds, Receive(f)
    PROVE  LiveInv'
<1>1. PICK s \in FeedState : s = feed[f]
    BY Typed
<1>2. FeedInv(s) /\ Len(s.events) <= FeedLimit /\ s.pc = "live" /\ s.queue # <<>>
    BY <1>1, Typed DEF Receive
<1>3. s.queue \in Seq(Row) /\ s.events \in Seq(Row)
    BY DEF FeedState
<1>4. PICK q \in Seq(Row) : q = s.queue
    BY <1>3
<1>5. PICK n \in Nat : n = Len(q)
    BY <1>4
<1>6. n > 0
    BY <1>2, <1>4, <1>5
<1>7. PICK r \in Row, z \in Seq(Row) : r = Head(q) /\ z = Tail(q)
    <2>1. \A a \in Seq(Row) : a # <<>> => Head(a) \in Row /\ Tail(a) \in Seq(Row)
        OBVIOUS
    <2> QED BY <1>2, <1>4, <2>1
<1>8. r = q[1] /\ Len(z) = n - 1 /\ \A i \in 1 .. n - 1 : z[i] = q[i + 1]
    BY <1>2, <1>4, <1>5, <1>6, <1>7
<1>9. \A x : In(x, q) => x = r \/ In(x, z)
    <2> SUFFICES ASSUME NEW x, NEW i \in 1 .. n, q[i] = x, x # r PROVE In(x, z)
        BY <1>5 DEF In
    <2>1. PICK k \in 1 .. n - 1 : k = i - 1
        BY <1>5, <1>8
    <2>2. i = k + 1 /\ k \in 1 .. Len(z)
        BY <1>5, <1>8, <2>1
    <2> QED BY <1>8, <2>2 DEF In
<1>10. In(r, q) /\ \A x : In(x, z) => In(x, q)
    <2>1. 1 \in 1 .. n
        BY <1>5, <1>6
    <2>2. \A i \in 1 .. n - 1 : i + 1 \in 1 .. n
        BY <1>5
    <2> QED BY <1>5, <1>8, <2>1, <2>2 DEF In
<1>11. r \in Own(s.user)
    BY <1>2, <1>4, <1>10 DEF FeedInv
<1>12. PICK e \in Seq(Row) :
          /\ Shown(s.events, r) = e /\ Len(e) <= FeedLimit
          /\ \A i, j \in 1 .. Len(e) : e[i] = e[j] => i = j
          /\ \A x : In(x, e) => x \in Own(s.user)
          /\ Cardinality(Own(s.user)) <= FeedPage => \A x : In(x, s.events) \/ x = r => In(x, e)
    <2>1. PICK u \in Users \cup {None}, a \in Seq(Row) : u = s.user /\ a = s.events
        BY <1>3 DEF FeedState
    <2>2. /\ \A i, j \in 1 .. Len(a) : a[i] = a[j] => i = j
          /\ \A x : In(x, a) => x \in Own(u)
          /\ Len(a) <= FeedLimit /\ r \in Own(u)
        BY <1>2, <1>11, <2>1 DEF FeedInv
    <2>3. Table(rows)
        BY Typed
    <2>4. \E e \in Seq(Row) :
              /\ Shown(a, r) = e /\ Len(e) <= FeedLimit
              /\ \A i, j \in 1 .. Len(e) : e[i] = e[j] => i = j
              /\ \A x : In(x, e) => x \in Own(u)
              /\ Cardinality(Own(u)) <= FeedPage => \A x : In(x, a) \/ x = r => In(x, e)
        BY <2>2, <2>3, ShownFacts
    <2> QED BY <2>1, <2>4, Zenon
<1>13. PICK t : t = [s EXCEPT !.queue = z, !.events = e]
    OBVIOUS
<1>14. /\ t \in FeedState /\ t.pc = "live" /\ t.user = s.user /\ t.events = e
       /\ t.queue = z /\ t.dropped = s.dropped /\ t.gap = s.gap
    BY <1>2, <1>13 DEF FeedState
<1>15. FeedInv(t)
    <2>1. \A x : In(x, e) \/ In(x, z) => x \in Own(s.user)
        BY <1>2, <1>4, <1>10, <1>12 DEF FeedInv
    <2>2. ASSUME Cardinality(Own(s.user)) <= FeedPage, NEW x \in Own(s.user) \cap published
          PROVE  Covers(t, x)
        <3>1. Covers(s, x)
            BY <1>2, <2>2 DEF FeedInv
        <3> QED BY <1>4, <1>9, <1>12, <1>14, <2>2, <3>1 DEF Covers
    <2> QED BY <1>12, <1>14, <2>1, <2>2 DEF FeedInv
<1>16. feed' = [feed EXCEPT ![f] = t] /\ UNCHANGED <<rows, reader, unpublished, published>>
    BY <1>1, <1>4, <1>7, <1>12, <1>13, Typed DEF Receive
<1> QED BY <1>12, <1>14, <1>15, <1>16, FeedMoves

\* The stream ends: the feed keeps what it shows.
LEMMA DisconnectStep ==
    ASSUME LiveInv, NEW f \in Feeds, Disconnect(f)
    PROVE  LiveInv'
<1>1. PICK s \in FeedState : s = feed[f]
    BY Typed
<1>2. FeedInv(s) /\ Len(s.events) <= FeedLimit
    BY <1>1, Typed
<1>3. PICK t : t = [Offline EXCEPT !.user = s.user, !.events = s.events]
    OBVIOUS
<1>4. /\ t \in FeedState /\ t.pc = "offline" /\ t.user = s.user /\ t.events = s.events
      /\ t.queue = <<>>
    <2>1. <<>> \in Seq(Row) /\ "offline" \in {"offline", "joining", "live"}
        OBVIOUS
    <2> QED BY <1>3, <2>1 DEF Offline, FeedState
<1>5. \A r : ~ In(r, t.queue)
    BY <1>4 DEF In
<1>6. FeedInv(t) /\ Len(t.events) <= FeedLimit
    BY <1>2, <1>4, <1>5 DEF FeedInv
<1>7. feed' = [feed EXCEPT ![f] = t] /\ UNCHANGED <<rows, reader, unpublished, published>>
    BY <1>1, <1>3 DEF Disconnect
<1> QED BY <1>4, <1>6, <1>7, FeedMoves

\* A step that leaves the table, the listings and the feeds alone.
LEMMA QuietStep ==
    ASSUME LiveInv, UNCHANGED <<rows, reader, published, feed>>, unpublished' \subseteq unpublished
    PROVE  LiveInv'
<1>1. TypeOK'
    BY DEF LiveInv, TypeOK
<1>2. \A c \in Readers : ListingInv(reader[c])'
    BY DEF LiveInv, ListingInv, Pages, Matches
<1>3. \A f \in Feeds : FeedInv(feed[f])'
    BY DEF LiveInv, FeedInv, Own, Covers
<1> QED BY <1>1, <1>2, <1>3 DEF LiveInv

\* Every step keeps the invariant.
LEMMA LiveStep == LiveInv /\ [Next]_vars => LiveInv'
<1> SUFFICES ASSUME LiveInv, [Next]_vars PROVE LiveInv'
    OBVIOUS
<1>1. CASE \E r \in Row : RecordEvent(r)
    BY <1>1, RecordStep
<1>2. ASSUME NEW c \in Readers, ReadPages(c) PROVE LiveInv'
    <2>1. reader' \in [Readers -> Listing] /\ \A d \in Readers : ListingInv(reader[d])'
        BY <1>2, ReadStep
    <2>2. UNCHANGED <<rows, unpublished, published, feed>>
        BY <1>2, ZenonT(60) DEF ReadPages, Read, FirstPage, NextPage
    <2>3. TypeOK'
        BY <2>1, <2>2 DEF LiveInv, TypeOK
    <2>4. \A f \in Feeds : FeedInv(feed[f])'
        BY <2>2 DEF LiveInv, FeedInv, Own, Covers
    <2> QED BY <2>1, <2>3, <2>4 DEF LiveInv
<1>3. ASSUME NEW r \in unpublished, Publish(r) PROVE LiveInv'
    BY <1>3, PublishStep
<1>4. ASSUME NEW r \in unpublished, NeverPublished(r) PROVE LiveInv'
    BY <1>4, QuietStep DEF NeverPublished
<1>5. CASE \E f \in Feeds, u \in Users : LoadHistory(f, u)
    BY <1>5, LoadHistoryStep
<1>6. ASSUME NEW f \in Feeds, Subscribe(f) \/ Receive(f) \/ Disconnect(f) PROVE LiveInv'
    BY <1>6, SubscribeStep, ReceiveStep, DisconnectStep
<1>7. CASE UNCHANGED vars
    BY <1>7, QuietStep DEF vars
<1> QED BY <1>1, <1>2, <1>3, <1>4, <1>5, <1>6, <1>7 DEF Next

\* Nothing recorded, nothing read.
LEMMA InitLive == Init => LiveInv
<1> SUFFICES ASSUME Init PROVE LiveInv
    OBVIOUS
<1>1. /\ rows = {} /\ unpublished = {} /\ published = {}
      /\ reader = [c \in Readers |-> NoListing] /\ feed = [f \in Feeds |-> Offline]
    BY DEF Init, InitReads
<1>2. <<>> \in Seq(Row) /\ Len(<<>>) = 0
    OBVIOUS
<1>3. /\ Offline \in FeedState /\ Offline.pc = "offline"
      /\ Offline.events = <<>> /\ Offline.queue = <<>>
    BY <1>2 DEF Offline, FeedState
<1>4. TypeOK
    BY <1>1, <1>2, <1>3, NoListingType, FeedAssumption DEF TypeOK, FeedState
<1>5. ListingInv(NoListing)
    BY NoListingType DEF ListingInv
<1>6. FeedInv(Offline)
    BY <1>2, <1>3 DEF FeedInv, In
<1> QED BY <1>1, <1>4, <1>5, <1>6 DEF LiveInv

-----------------------------------------------------------------------------
(* Theorems *)

\* The invariant holds throughout.
THEOREM LiveInvariant == Spec => []LiveInv
BY InitLive, LiveStep, PTL DEF Spec

\* The table, the listings and the feeds stay well typed, and no feed grows
\* past its limit (LiveFeed.tsx, add).
THEOREM TypeCorrect == Spec => []TypeOK
<1>1. LiveInv => TypeOK
    BY DEF LiveInv
<1> QED BY <1>1, LiveInvariant, PTL

\* Pages of GET /events neither lose nor repeat a row, whatever is committed
\* between them, and are only read by who may read them.
THEOREM PagesComplete == Spec => []PagesRight
<1>1. LiveInv => PagesRight
    <2> SUFFICES ASSUME LiveInv, NEW c \in Readers, reader[c].pc \in {"more", "end"}
                 PROVE  LET q == reader[c] IN
                        /\ \A i, j \in DOMAIN q.got : i < j =>
                              \/ q.got[j].at < q.got[i].at
                              \/ q.got[j].at = q.got[i].at /\ q.got[j].id < q.got[i].id
                        /\ \A i \in DOMAIN q.got : q.got[i] \in rows /\ Matches(q.got[i], q)
                        /\ q.pc = "end" => q.due \subseteq ToSet(q.got)
                        /\ q.self \in Users /\ (q.target = q.self \/ q.self \in Admins)
        BY DEF PagesRight
    <2>1. PICK q \in Listing : q = reader[c]
        BY Typed
    <2>2. ListingInv(q) /\ q.pc \in {"more", "end"}
        BY <2>1 DEF LiveInv
    <2>3. q.got \in Seq(Row) /\ DOMAIN q.got = 1 .. Len(q.got)
        BY DEF Listing
    <2>4. \A r : In(r, q.got) => r \in ToSet(q.got)
        BY <2>3 DEF In, ToSet
    <2>5. q.pc = "end" => q.due \subseteq ToSet(q.got)
        BY <2>2, <2>4 DEF ListingInv
    <2> QED BY <2>1, <2>2, <2>3, <2>5 DEF ListingInv, Pages, Newer
<1> QED BY <1>1, LiveInvariant, PTL

\* A feed shows its user's recorded events, none twice, and a connected one
\* lacks only what its stream dropped or what fell between history and stream.
THEOREM FeedsFaithful == Spec => []FeedFaithful
<1>1. LiveInv => FeedFaithful
    <2> SUFFICES ASSUME LiveInv, NEW f \in Feeds
                 PROVE  LET s == feed[f]
                            own == {r \in rows : r.user = s.user}
                        IN  /\ IsInjective(s.events) /\ ToSet(s.events) \subseteq own
                            /\ s.pc = "live" /\ Cardinality(own) <= FeedPage =>
                                  own \cap published
                                      \subseteq ToSet(s.events \o s.queue) \cup s.dropped \cup s.gap
        BY DEF FeedFaithful
    <2>1. PICK s \in FeedState : s = feed[f]
        BY Typed
    <2>2. FeedInv(s)
        BY <2>1 DEF LiveInv
    <2>3. PICK a \in Seq(Row), b \in Seq(Row) : a = s.events /\ b = s.queue
        BY DEF FeedState
    <2>4. DOMAIN a = 1 .. Len(a) /\ Len(a) \in Nat /\ Len(b) \in Nat
        BY <2>3
    <2>5. IsInjective(a)
        BY <2>2, <2>3, <2>4 DEF FeedInv, IsInjective
    <2>6. ToSet(a) \subseteq Own(s.user)
        BY <2>2, <2>3, <2>4 DEF FeedInv, ToSet, In
    <2>7. \A x : In(x, a) \/ In(x, b) => x \in ToSet(a \o b)
        <3>1. PICK z \in Seq(Row), k \in Nat, l \in Nat : z = a \o b /\ k = Len(a) /\ l = Len(b)
            <4>1. a \o b \in Seq(Row)
                OBVIOUS
            <4> QED BY <2>4, <4>1
        <3>2. /\ Len(z) = k + l /\ DOMAIN z = 1 .. k + l
              /\ \A i \in 1 .. k + l : z[i] = IF i <= k THEN a[i] ELSE b[i - k]
            BY <3>1
        <3>3. \A i \in 1 .. k : z[i] = a[i]
            BY <3>1, <3>2
        <3>4. \A i \in 1 .. l : z[k + i] = b[i]
            <4> SUFFICES ASSUME NEW i \in 1 .. l PROVE z[k + i] = b[i]
                OBVIOUS
            <4>1. k + i \in 1 .. k + l /\ ~ (k + i <= k) /\ (k + i) - k = i
                BY <3>1
            <4> QED BY <3>2, <4>1
        <3>5. \A i \in 1 .. k : i \in 1 .. k + l
            BY <3>1
        <3>6. \A i \in 1 .. l : k + i \in 1 .. k + l
            BY <3>1
        <3> QED BY <3>1, <3>2, <3>3, <3>4, <3>5, <3>6, ZenonT(60) DEF In, ToSet
    <2>8. s.pc = "live" /\ Cardinality(Own(s.user)) <= FeedPage =>
              Own(s.user) \cap published \subseteq ToSet(a \o b) \cup s.dropped \cup s.gap
        BY <2>2, <2>3, <2>7 DEF FeedInv, Covers
    <2> QED BY <2>1, <2>3, <2>5, <2>6, <2>8 DEF Own
<1> QED BY <1>1, LiveInvariant, PTL
=============================================================================
