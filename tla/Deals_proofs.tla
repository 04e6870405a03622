---------------------------- MODULE Deals_proofs ----------------------------
(***************************************************************************)
(* Proofs about Deals, for any offers, requests, windows and processes.    *)
(*                                                                         *)
(* First what the ranking operators return, then the invariant: what a     *)
(* dispatcher knew of the posts recorded before it began is still known    *)
(* when its own post is queued, or has left the window by then.            *)
(***************************************************************************)
EXTENDS Deals, Order_proofs, TLAPS

IsGood(o) == Discount[o] >= MinDiscount /\ IsPlausible(o)

\* Neither among the titles nor among the links of the window.
IsClear(o, titles, links) ==
    /\ \A q \in links : LinkKey(q) # LinkKey(o)
    /\ \A q \in titles : ~IsSameTitle(o, q)

-----------------------------------------------------------------------------
(***************************************************************************)
(* Ranking.                                                                *)
(***************************************************************************)
LEMMA OffersTypes ==
    ASSUME DealsAssumption
    PROVE  /\ Cards \subseteq Nat /\ IsFiniteSet(Cards)
           /\ \A o \in Cards : /\ Offers[o].category \in Labels
                               /\ Discount[o] \in Int
                               /\ ScoreDeal(o) \in Int
           /\ \A c \in Labels : /\ Place(c) \in 1 .. Len(Categories)
                                /\ Categories[Place(c)] = c
<1>1. 1 \in Int /\ Len(Offers) \in Int
    BY DEF DealsAssumption
<1>2. Cards \subseteq Nat /\ IsFiniteSet(Cards)
    BY <1>1, FS_Interval DEF Cards
<1>3. ASSUME NEW o \in Cards PROVE Discount[o] \in Int
    <2>1. Offers[o].now < Offers[o].was =>
            Round(100 * (Offers[o].was - Offers[o].now), Offers[o].was) \in Int
        <3>1. \A a \in Int, b \in Nat : b > 0 => Round(a, b) \in Int
            BY DEF Round
        <3>2. Offers[o].now \in Nat /\ Offers[o].was \in Nat
            BY DEF DealsAssumption
        <3> QED BY <3>1, <3>2
    <2>2. Offers[o].stated \in Int
        <3>1. \A x \in -1 .. 100 : x \in Int
            OBVIOUS
        <3> QED BY <3>1 DEF DealsAssumption
    <2> QED BY <2>1, <2>2 DEF Discount
<1>4. ASSUME NEW c \in Labels PROVE Engagement(c) \in Int
    <2>1. CASE c \in Of(Preferred)
        <3>1. Len(Preferred) \in Nat /\ \E j \in 1 .. Len(Preferred) : Preferred[j] = c
            BY <2>1 DEF Of, DealsAssumption
        <3> DEFINE i == CHOOSE j \in 1 .. Len(Preferred) : Preferred[j] = c
        <3>2. i \in 1 .. Len(Preferred)
            BY <3>1
        <3> HIDE DEF i
        <3>3. (2500 * (i - 1)) \div Len(Preferred) \in Int
            BY <3>1, <3>2
        <3> QED BY <2>1, <3>3 DEF Engagement, i
    <2>2. CASE c \notin Of(Preferred)
        BY <2>2 DEF Engagement
    <2> QED BY <2>1, <2>2
<1>5. ASSUME NEW o \in Cards PROVE ScoreDeal(o) \in Int
    <2>1. Discount[o] \in Int /\ Engagement(Offers[o].category) \in Int
        BY <1>3, <1>4 DEF DealsAssumption
    <2> QED BY <2>1 DEF ScoreDeal
<1>6. ASSUME NEW c \in Labels
      PROVE  Place(c) \in 1 .. Len(Categories) /\ Categories[Place(c)] = c
    BY DEF Place, Labels
<1> QED BY <1>2, <1>3, <1>5, <1>6 DEF DealsAssumption

\* Sorted gives the elements of S, each at one place.
LEMMA SortedSound ==
    ASSUME NEW S, IsFiniteSet(S), NEW key, \A x \in S : key[x] \in Int,
           \A x, y \in S : key[x] = key[y] => x = y
    PROVE  /\ Cardinality(S) \in Nat
           /\ Sorted(S, key) \in [1 .. Cardinality(S) -> S]
           /\ \A i, j \in 1 .. Cardinality(S) : Sorted(S, key)[i] = Sorted(S, key)[j] => i = j
<1>1. Cardinality(S) \in Nat
    BY FS_CardinalityType
<1>2. PICK ahead :
        /\ \A x \in S : ahead[x] = {y \in S : key[y] < key[x]}
        /\ \A x \in S : Cardinality(ahead[x]) \in 0 .. Cardinality(S) - 1
        /\ \A x, y \in S : Cardinality(ahead[x]) = Cardinality(ahead[y]) => x = y
        /\ \A i \in 0 .. Cardinality(S) - 1 : \E x \in S : Cardinality(ahead[x]) = i
    BY KeyRanks
<1> DEFINE At(i) == CHOOSE x \in S : Cardinality({y \in S : key[y] < key[x]}) = i - 1
<1>3. ASSUME NEW i \in 1 .. Cardinality(S)
      PROVE  At(i) \in S /\ Cardinality(ahead[At(i)]) = i - 1
    <2>1. i - 1 \in 0 .. Cardinality(S) - 1
        BY <1>1
    <2>2. \E x \in S : Cardinality({y \in S : key[y] < key[x]}) = i - 1
        BY <1>2, <2>1
    <2>3. At(i) \in S /\ Cardinality({y \in S : key[y] < key[At(i)]}) = i - 1
        BY <2>2
    <2> HIDE DEF At
    <2> QED BY <1>2, <2>3
<1>4. Sorted(S, key) = [i \in 1 .. Cardinality(S) |-> At(i)]
    BY DEF Sorted
<1> HIDE DEF At
<1>5. ASSUME NEW i \in 1 .. Cardinality(S), NEW j \in 1 .. Cardinality(S), At(i) = At(j)
      PROVE  i = j
    <2>1. i - 1 = j - 1
        BY <1>3, <1>5
    <2> QED BY <2>1
<1> QED BY <1>1, <1>3, <1>4, <1>5

\* The pages show cards of the categories asked for.
LEMMA ScrapedSound ==
    ASSUME NEW pages, NEW most
    PROVE  \A o \in ScrapedFrom(pages, most) :
                o \in Cards /\ \E page \in pages : Offers[o].category = page[2]
BY DEF ScrapedFrom, AmazonPage, FlipkartPage, AjioPage, FirstFew, Unseen, CardsOf

LEMMA RoundRobinSound ==
    ASSUME DealsAssumption, NEW kept \in SUBSET Cards
    PROVE  /\ RoundRobin(kept) \in [1 .. Cardinality(kept) -> kept]
           /\ Cardinality(kept) \in Nat
<1> DEFINE Ahead(o, q) == Offers[o].category = Offers[q].category
                          /\ (Discount[o] > Discount[q] \/ (Discount[o] = Discount[q] /\ o < q))
           lap == [o \in kept |-> Cardinality({q \in kept : Ahead(q, o)})]
           place == [o \in kept |-> Place(Offers[o].category)]
           key == [o \in kept |-> lap[o] * Len(Categories) + place[o]]
<1>1. IsFiniteSet(kept) /\ kept \subseteq Nat /\ \A o \in kept : Discount[o] \in Int
    BY OffersTypes, FS_Subset
<1>2. \A o \in kept : lap[o] \in Nat
    <2>1. \A o \in kept : {q \in kept : Ahead(q, o)} \in SUBSET kept
        OBVIOUS
    <2> QED BY <1>1, <2>1, FS_Subset, FS_CardinalityType
<1>3. \A o \in kept : place[o] \in 1 .. Len(Categories) /\ Categories[place[o]] = Offers[o].category
    BY OffersTypes
<1>4. ASSUME NEW o \in kept, NEW q \in kept, lap[o] = lap[q],
             Offers[o].category = Offers[q].category
      PROVE  o = q
    <2> DEFINE S == {x \in kept : Offers[x].category = Offers[o].category}
               ahead == [x \in S |-> {y \in S : Ahead(y, x)}]
    <2>1. IsFiniteSet(S)
        BY <1>1, FS_Subset
    <2>2. ahead \in [S -> SUBSET S] /\ \A x \in S : x \notin ahead[x]
        BY <1>1
    <2>3. ASSUME NEW x \in S, NEW y \in S, x # y
          PROVE  ahead[x] \cup {x} \subseteq ahead[y] \/ ahead[y] \cup {y} \subseteq ahead[x]
        <3>1. Ahead(x, y) \/ Ahead(y, x)
            BY <1>1, <2>3
        <3>2. \A m, n, r \in S : Ahead(m, n) /\ Ahead(n, r) => Ahead(m, r)
            BY <1>1
        <3> HIDE DEF Ahead
        <3> QED BY <3>1, <3>2
    <2>4. \A x \in S : ahead[x] = {y \in kept : Ahead(y, x)}
        OBVIOUS
    <2>5. o \in S /\ q \in S
        BY <1>4
    <2>6. Cardinality(ahead[o]) = Cardinality(ahead[q])
        BY <1>4, <2>4, <2>5
    <2> HIDE DEF S, ahead
    <2> QED BY <2>1, <2>2, <2>3, <2>5, <2>6, ChainRanks
<1> HIDE DEF lap, place
<1>5. ASSUME NEW o \in kept, NEW q \in kept, key[o] = key[q]
      PROVE  o = q
    <2>1. Len(Categories) \in Nat /\ lap[o] \in Int /\ lap[q] \in Int
        BY <1>2 DEF DealsAssumption
    <2>2. lap[o] * Len(Categories) + place[o] = lap[q] * Len(Categories) + place[q]
        BY <1>5
    <2>3. place[o] \in 1 .. Len(Categories) /\ place[q] \in 1 .. Len(Categories)
        BY <1>3
    <2>4. \A L, a, b, x, y :
            L = Len(Categories) /\ a = lap[o] /\ b = lap[q] /\ x = place[o] /\ y = place[q] =>
                a = b /\ x = y
        <3> SUFFICES ASSUME NEW L, NEW a, NEW b, NEW x, NEW y,
                            L = Len(Categories), a = lap[o], b = lap[q], x = place[o],
                            y = place[q]
                     PROVE  a = b /\ x = y
            OBVIOUS
        <3>1. /\ L \in Nat /\ a \in Int /\ b \in Int /\ x \in 1 .. L /\ y \in 1 .. L
              /\ a * L + x = b * L + y
            BY <2>1, <2>2, <2>3
        <3> QED BY ONLY <3>1, Lexicographic
    <2> QED BY <1>3, <1>4, <2>4
<1>6. \A o \in kept : key[o] \in Int
    BY <1>2, <1>3 DEF DealsAssumption
<1>7. RoundRobin(kept) = Sorted(kept, key)
    BY DEF RoundRobin, lap, place
<1> HIDE DEF key
<1>8. /\ Cardinality(kept) \in Nat
      /\ Sorted(kept, key) \in [1 .. Cardinality(kept) -> kept]
    <2>1. \A o, q \in kept : key[o] = key[q] => o = q
        BY <1>5
    <2> QED BY ONLY <1>1, <1>6, <2>1, SortedSound
<1> QED BY <1>7, <1>8

LEMMA FoundSound ==
    ASSUME DealsAssumption, NEW r, NEW up \in SUBSET Pages(r)
    PROVE  /\ Found(r, up) \in Seq(Cards)
           /\ \A o \in Of(Found(r, up)) :
                /\ Discount[o] >= MinDiscount
                /\ r.wanted # {} => Offers[o].category \in r.wanted
<1> DEFINE wanted == IF r.wanted = {} THEN Labels ELSE r.wanted
           raw == ScrapedFrom(up, r.most)
           kept == Kept(raw)
<1>1. \A o \in raw : o \in Cards /\ Offers[o].category \in wanted
    <2>1. \A page \in up : page[2] \in wanted
        BY DEF Pages
    <2> QED BY <2>1, ScrapedSound
<1>2. kept \subseteq raw /\ \A o \in kept : Discount[o] >= MinDiscount
    BY DEF Kept
<1>3. Found(r, up) = RoundRobin(kept)
    BY DEF Found
<1> HIDE DEF raw, kept
<1>4. kept \in SUBSET Cards
    BY <1>1, <1>2
<1>5. RoundRobin(kept) \in [1 .. Cardinality(kept) -> kept] /\ Cardinality(kept) \in Nat
    BY <1>4, RoundRobinSound
<1>6. RoundRobin(kept) \in Seq(Cards) /\ Len(RoundRobin(kept)) = Cardinality(kept)
    BY <1>4, <1>5
<1>7. Of(RoundRobin(kept)) \subseteq kept
    BY <1>5, <1>6 DEF Of
<1> QED BY <1>1, <1>2, <1>3, <1>6, <1>7

LEMMA RankedSound ==
    ASSUME DealsAssumption, NEW deals \in Seq(Cards), NEW platforms
    PROVE  /\ Ranked(deals, platforms) \in Seq(Cards)
           /\ \A o \in Of(Ranked(deals, platforms)) :
                o \in Of(deals) /\ IsPlausible(o) /\ Offers[o].platform \in platforms
<1> DEFINE places == {i \in 1 .. Len(deals) :
                        IsPlausible(deals[i]) /\ Offers[deals[i]].platform \in platforms}
           score == [i \in places |-> ScoreDeal(deals[i])]
           key == [i \in places |-> i - ScoreDeal(deals[i]) * (Len(deals) + 1)]
           order == Sorted(places, key)
<1>1. Len(deals) \in Nat /\ 1 \in Int
    OBVIOUS
<1>2. IsFiniteSet(places) /\ places \subseteq 1 .. Len(deals)
    <2>1. places \in SUBSET (1 .. Len(deals))
        OBVIOUS
    <2>2. IsFiniteSet(1 .. Len(deals))
        BY <1>1, FS_Interval
    <2> HIDE DEF places
    <2> QED BY <2>1, <2>2, FS_Subset
<1>3. \A i \in places : deals[i] \in Cards /\ score[i] \in Int
    BY OffersTypes
<1>4. \A i \in places : key[i] = i - score[i] * (Len(deals) + 1)
    OBVIOUS
<1>5. \A i \in places : IsPlausible(deals[i]) /\ Offers[deals[i]].platform \in platforms
    OBVIOUS
<1>6. Ranked(deals, platforms) = [i \in DOMAIN order |-> deals[order[i]]]
    BY DEF Ranked
<1> HIDE DEF places, score, key, order
<1>7. \A i \in places : key[i] \in Int
    BY <1>1, <1>2, <1>3, <1>4
<1>8. ASSUME NEW i \in places, NEW j \in places, key[i] = key[j]
      PROVE  i = j
    <2>1. \A L, a, b : L = Len(deals) + 1 /\ a = score[i] /\ b = score[j] => i = j
        <3> SUFFICES ASSUME NEW L, NEW a, NEW b,
                            L = Len(deals) + 1, a = score[i], b = score[j]
                     PROVE  i = j
            OBVIOUS
        <3>1. /\ L \in Nat /\ a \in Int /\ b \in Int /\ i \in 1 .. L /\ j \in 1 .. L
            BY <1>1, <1>2, <1>3
        <3>2. i - a * L = j - b * L
            BY <1>4, <1>8
        <3> QED BY ONLY <3>1, <3>2, LexicographicDown
    <2> QED BY <2>1
<1>9. Cardinality(places) \in Nat /\ Sorted(places, key) \in [1 .. Cardinality(places) -> places]
    <2>1. \A i, j \in places : key[i] = key[j] => i = j
        BY <1>8
    <2> QED BY ONLY <1>2, <1>7, <2>1, SortedSound
<1>10. order \in [1 .. Cardinality(places) -> places]
    BY <1>9 DEF order
<1>11. /\ Ranked(deals, platforms) \in [1 .. Cardinality(places) -> Cards]
       /\ \A i \in 1 .. Cardinality(places) :
            order[i] \in places /\ Ranked(deals, platforms)[i] = deals[order[i]]
    BY <1>3, <1>6, <1>10
<1>12. /\ Ranked(deals, platforms) \in Seq(Cards)
       /\ Len(Ranked(deals, platforms)) = Cardinality(places)
    BY <1>9, <1>11
<1>13. ASSUME NEW o \in Of(Ranked(deals, platforms))
       PROVE  o \in Of(deals) /\ IsPlausible(o) /\ Offers[o].platform \in platforms
    <2>1. PICK i \in 1 .. Cardinality(places) : o = Ranked(deals, platforms)[i]
        BY <1>12 DEF Of
    <2>2. order[i] \in places /\ o = deals[order[i]]
        BY <1>11, <2>1
    <2> QED BY <1>2, <1>5, <2>2 DEF Of
<1> QED BY <1>12, <1>13

LEMMA ByHeadingSound ==
    ASSUME DealsAssumption, NEW ranked \in Seq(Cards)
    PROVE  ByHeading(ranked) \in Seq(Cards) /\ Of(ByHeading(ranked)) \subseteq Of(ranked)
<1> DEFINE S == DOMAIN ranked
           bucket == [i \in S |-> Bucket[Offers[ranked[i]].category]]
           key == [i \in S |-> Bucket[Offers[ranked[i]].category] * (Len(ranked) + 1) + i]
           order == Sorted(S, key)
<1>1. Len(ranked) \in Nat /\ 1 \in Int /\ S = 1 .. Len(ranked)
    OBVIOUS
<1>2. IsFiniteSet(S) /\ Cardinality(S) = Len(ranked)
    <2>1. IsFiniteSet(1 .. Len(ranked)) /\ Cardinality(1 .. Len(ranked)) = Len(ranked)
        BY <1>1, FS_Interval
    <2> QED BY <1>1, <2>1
<1>3. \A i \in S : ranked[i] \in Cards /\ bucket[i] \in Nat
    BY OffersTypes DEF DealsAssumption
<1>4. \A i \in S : key[i] = bucket[i] * (Len(ranked) + 1) + i
    OBVIOUS
<1>5. ByHeading(ranked) = [i \in S |-> ranked[order[i]]]
    BY DEF ByHeading
<1> HIDE DEF bucket, key, order
<1>6. \A i \in S : key[i] \in Int
    BY <1>1, <1>3, <1>4
<1>7. ASSUME NEW i \in S, NEW j \in S, key[i] = key[j]
      PROVE  i = j
    <2>1. \A L, a, b : L = Len(ranked) + 1 /\ a = bucket[i] /\ b = bucket[j] => i = j
        <3> SUFFICES ASSUME NEW L, NEW a, NEW b,
                            L = Len(ranked) + 1, a = bucket[i], b = bucket[j]
                     PROVE  i = j
            OBVIOUS
        <3>1. /\ L \in Nat /\ a \in Int /\ b \in Int /\ i \in 1 .. L /\ j \in 1 .. L
            BY <1>1, <1>3
        <3>2. a * L + i = b * L + j
            BY <1>4, <1>7
        <3> QED BY ONLY <3>1, <3>2, Lexicographic, SMTT(30)
    <2> QED BY <2>1
<1>8. Sorted(S, key) \in [1 .. Cardinality(S) -> S]
    <2>1. \A i, j \in S : key[i] = key[j] => i = j
        BY <1>7
    <2> HIDE DEF S
    <2> QED BY ONLY <1>2, <1>6, <2>1, SortedSound
<1>9. order \in [S -> S]
    BY <1>1, <1>2, <1>8 DEF order
<1>10. /\ ByHeading(ranked) \in Seq(Cards) /\ Len(ByHeading(ranked)) = Len(ranked)
       /\ \A i \in 1 .. Len(ranked) : order[i] \in S /\ ByHeading(ranked)[i] = ranked[order[i]]
    BY <1>1, <1>3, <1>5, <1>9
<1> QED BY <1>1, <1>10 DEF Of

\* What a slot is given: known discounts, its marketplace, the categories it asked for.
LEMMA RankingSound ==
    ASSUME DealsAssumption, NEW r \in Requests, NEW down \in Outages,
           NEW market \in Platforms \cup {"all"}
    PROVE  LET ranked == Rankings[<<r, Pages(r) \ down, market>>]
           IN  /\ ranked \in Seq(Cards)
               /\ \A o \in Of(ranked) :
                    /\ IsGood(o)
                    /\ market # "all" => Offers[o].platform = market
                    /\ r.wanted # {} => Offers[o].category \in r.wanted
<1> DEFINE up == Pages(r) \ down
           found == Found(r, up)
           pool(platforms) == Ranked(found, platforms)
           ranked == IF market = "all" THEN ByHeading(pool(Platforms)) ELSE pool({market})
<1>1. Rankings[<<r, up, market>>] = ranked
    <2> DEFINE q == <<r, up, market>>
    <2>1. q \in {<<x, Pages(x) \ y, z>> : x \in Requests, y \in Outages,
                                           z \in Platforms \cup {"all"}}
        OBVIOUS
    <2>2. q[1] = r /\ q[2] = up /\ q[3] = market
        OBVIOUS
    <2> HIDE DEF q
    <2>3. Rankings[q] = IF q[3] = "all" THEN ByHeading(Ranked(Found(q[1], q[2]), Platforms))
                        ELSE Ranked(Found(q[1], q[2]), {q[3]})
        BY <2>1 DEF Rankings
    <2> QED BY <2>2, <2>3 DEF q
<1>2. /\ found \in Seq(Cards)
      /\ \A o \in Of(found) : /\ Discount[o] >= MinDiscount
                              /\ r.wanted # {} => Offers[o].category \in r.wanted
    <2>1. up \in SUBSET Pages(r)
        OBVIOUS
    <2> QED BY <2>1, FoundSound
<1> HIDE DEF found, up
<1>3. ASSUME NEW platforms
      PROVE  /\ pool(platforms) \in Seq(Cards)
             /\ \A o \in Of(pool(platforms)) :
                    o \in Of(found) /\ IsPlausible(o) /\ Offers[o].platform \in platforms
    BY <1>2, RankedSound
<1> HIDE DEF pool
<1>4. CASE market = "all"
    <2>1. ranked \in Seq(Cards) /\ Of(ranked) \subseteq Of(pool(Platforms))
        BY <1>3, <1>4, ByHeadingSound
    <2> QED BY <1>1, <1>2, <1>3, <1>4, <2>1 DEF IsGood, up
<1>5. CASE market # "all"
    <2>1. ranked = pool({market})
        BY <1>5
    <2> QED BY <1>1, <1>2, <1>3, <1>5, <2>1 DEF IsGood, up
<1> QED BY <1>4, <1>5

-----------------------------------------------------------------------------
(***************************************************************************)
(* Choosing.                                                               *)
(***************************************************************************)
LEMMA SameTitleIsSymmetric ==
    ASSUME NEW o, NEW q, IsSameTitle(o, q)
    PROVE  IsSameTitle(q, o)
<1>1. o \in Cards /\ q \in Cards /\ <<o, q>> \in SameTitles
    BY DEF IsSameTitle, SameTitles
<1>2. Offers[o].words \cap Offers[q].words = Offers[q].words \cap Offers[o].words
    OBVIOUS
<1> QED BY <1>1, <1>2 DEF IsSameTitle, SameTitles

\* Lines of different links, texts and titles, of none of the window, under few headings, and few
\* under each.
AreLines(lines, ranked, titles, links) ==
    /\ lines \in Seq(Cards)
    /\ Of(lines) \subseteq Of(ranked)
    /\ \A o \in Of(lines) : IsClear(o, titles, links)
    /\ \A m, n \in DOMAIN lines : m # n =>
        /\ LinkKey(lines[m]) # LinkKey(lines[n])
        /\ LineText(lines[m]) # LineText(lines[n])
        /\ ~IsSameTitle(lines[m], lines[n])
    /\ IsFiniteSet(Headings(lines)) /\ Cardinality(Headings(lines)) =< BucketsPerLoot
    /\ \A b \in Headings(lines) : Cardinality(InBucket(lines, b)) =< LinesPerBucket

LEMMA BucketsAreFinite ==
    ASSUME DealsAssumption, NEW used \in Seq(Cards), NEW b
    PROVE  IsFiniteSet(InBucket(used, b))
<1>1. InBucket(used, b) \in SUBSET Cards
    BY DEF InBucket, Of
<1>2. IsFiniteSet(Cards)
    BY OffersTypes
<1> QED BY <1>1, <1>2, FS_Subset

\* A set that is below a bound has room for an element.
LEMMA RoomForOne ==
    ASSUME NEW S, IsFiniteSet(S), NEW x, NEW n \in Nat, Cardinality(S) < n
    PROVE  Cardinality(S \cup {x}) =< n
<1>1. Cardinality(S) \in Nat
    BY FS_CardinalityType
<1>2. Cardinality(S \cup {x}) = IF x \in S THEN Cardinality(S) ELSE Cardinality(S) + 1
    BY FS_AddElement
<1> QED BY <1>1, <1>2

LEMMA WithLineSound ==
    ASSUME DealsAssumption, NEW ranked \in Seq(Cards), NEW titles, NEW links,
           NEW before, AreLines(before, ranked, titles, links), NEW o \in Of(ranked)
    PROVE  AreLines(WithLine(before, o, titles, links), ranked, titles, links)
<1> DEFINE heading == Bucket[Offers[o].category]
           after == Append(before, o)
<1>1. CASE WithLine(before, o, titles, links) = before
    BY <1>1
<1>2. CASE /\ \/ heading \in Headings(before)
              \/ Cardinality(Headings(before)) < BucketsPerLoot
           /\ Cardinality(InBucket(before, heading)) < LinesPerBucket
           /\ MayAdd(o, before, titles, links)
           /\ WithLine(before, o, titles, links) = after
    <2>1. before \in Seq(Cards) /\ o \in Cards
        BY DEF AreLines, Of
    <2>2. /\ after \in Seq(Cards) /\ Len(after) = Len(before) + 1 /\ Len(before) \in Nat
          /\ DOMAIN after = 1 .. Len(before) + 1 /\ DOMAIN before = 1 .. Len(before)
          /\ \A i \in 1 .. Len(before) : after[i] = before[i]
          /\ after[Len(before) + 1] = o
        BY <2>1
    <2>3. Of(after) = Of(before) \cup {o}
        BY <2>2 DEF Of
    <2>4. IsClear(o, titles, links)
        BY <1>2 DEF MayAdd, IsClear
    <2>5. \A i \in 1 .. Len(before) :
            /\ LinkKey(before[i]) # LinkKey(o) /\ LineText(before[i]) # LineText(o)
            /\ ~IsSameTitle(o, before[i]) /\ ~IsSameTitle(before[i], o)
        BY <1>2, SameTitleIsSymmetric DEF MayAdd, Of
    <2>6. ASSUME NEW m \in DOMAIN after, NEW n \in DOMAIN after, m # n
          PROVE  /\ LinkKey(after[m]) # LinkKey(after[n])
                 /\ LineText(after[m]) # LineText(after[n])
                 /\ ~IsSameTitle(after[m], after[n])
        <3>1. CASE m \in 1 .. Len(before) /\ n \in 1 .. Len(before)
            BY <2>2, <2>6, <3>1 DEF AreLines
        <3>2. CASE m = Len(before) + 1 \/ n = Len(before) + 1
            BY <2>2, <2>5, <2>6, <3>2
        <3> QED BY <2>2, <3>1, <3>2
    <2>7. Headings(after) = Headings(before) \cup {heading}
        BY <2>3 DEF Headings
    <2>8. /\ IsFiniteSet(Headings(before)) /\ Cardinality(Headings(before)) \in Nat
          /\ Cardinality(Headings(before)) =< BucketsPerLoot
        BY FS_CardinalityType DEF AreLines
    <2>9. /\ IsFiniteSet(Headings(before) \cup {heading})
          /\ Cardinality(Headings(before) \cup {heading}) =< BucketsPerLoot
        <3> HIDE DEF heading
        <3>1. /\ IsFiniteSet(Headings(before) \cup {heading})
              /\ Cardinality(Headings(before) \cup {heading}) =
                    IF heading \in Headings(before) THEN Cardinality(Headings(before))
                    ELSE Cardinality(Headings(before)) + 1
            BY <2>8, FS_AddElement
        <3>2. BucketsPerLoot \in Nat
            BY DEF DealsAssumption
        <3> QED BY <1>2, <2>8, <3>1, <3>2
    <2>10. ASSUME NEW b \in Headings(after)
           PROVE  Cardinality(InBucket(after, b)) =< LinesPerBucket
        <3> HIDE DEF after
        <3>1. CASE b # heading
            <4>1. InBucket(after, b) = InBucket(before, b)
                BY <2>3, <3>1 DEF InBucket
            <4> QED BY <2>7, <2>10, <3>1, <4>1 DEF AreLines
        <3>2. CASE b = heading
            <4>1. InBucket(after, b) = InBucket(before, heading) \cup {o}
                BY <2>3, <3>2 DEF InBucket
            <4>2. IsFiniteSet(InBucket(before, heading))
                BY <2>1, BucketsAreFinite
            <4>3. LinesPerBucket \in Nat
                BY DEF DealsAssumption
            <4>4. Cardinality(InBucket(before, heading) \cup {o}) =< LinesPerBucket
                BY <1>2, <4>2, <4>3, RoomForOne
            <4> QED BY <4>1, <4>4
        <3> QED BY <3>1, <3>2
    <2> HIDE DEF after
    <2> QED BY <1>2, <2>2, <2>3, <2>4, <2>6, <2>7, <2>9, <2>10 DEF AreLines
<1> QED BY <1>1, <1>2 DEF WithLine

\* The recursion of Lines is a definition: there is such a function.
LEMMA LinesEquation ==
    ASSUME NEW ranked, Len(ranked) \in Nat, NEW titles, NEW links
    PROVE  LET lines == Lines(ranked, titles, links)
           IN  lines = [i \in 0 .. Len(ranked) |->
                            IF i = 0 THEN <<>>
                            ELSE WithLine(lines[i - 1], ranked[i], titles, links)]
<1> DEFINE Up(lines, m) == lines = [i \in 0 .. m |->
                            IF i = 0 THEN <<>>
                            ELSE WithLine(lines[i - 1], ranked[i], titles, links)]
           S == {m \in 0 .. Len(ranked) : \E lines : Up(lines, m)}
<1>1. 0 \in S
    <2>1. Up([i \in 0 .. 0 |-> <<>>], 0)
        OBVIOUS
    <2>2. 0 \in 0 .. Len(ranked)
        OBVIOUS
    <2> HIDE DEF Up
    <2> QED BY <2>1, <2>2
<1>2. ASSUME NEW m \in 0 .. Len(ranked) - 1, m \in S
      PROVE  m + 1 \in S
    <2>1. PICK lines : Up(lines, m)
        BY <1>2
    <2> DEFINE longer == [i \in 0 .. m + 1 |->
                            IF i =< m THEN lines[i]
                            ELSE WithLine(lines[m], ranked[m + 1], titles, links)]
    <2>2. \A i \in 0 .. m : lines[i] = IF i = 0 THEN <<>>
                                       ELSE WithLine(lines[i - 1], ranked[i], titles, links)
        BY <2>1
    <2>3. \A i \in 0 .. m + 1 :
            longer[i] = IF i = 0 THEN <<>>
                        ELSE WithLine(longer[i - 1], ranked[i], titles, links)
        <3>1. \A i \in 0 .. m : longer[i] = lines[i]
            OBVIOUS
        <3>2. longer[m + 1] = WithLine(longer[m], ranked[m + 1], titles, links)
            BY <3>1
        <3> QED BY <2>2, <3>1, <3>2
    <2>4. Up(longer, m + 1)
        BY <2>3
    <2> HIDE DEF longer, Up
    <2> QED BY <2>4
<1> HIDE DEF S
<1>3. Len(ranked) \in S
    <2>1. \A m \in 0 .. Len(ranked) : m \in S
        BY ONLY <1>1, <1>2, Len(ranked) \in Nat, InductionUpTo
    <2> QED BY <2>1
<1>4. \E lines : Up(lines, Len(ranked))
    BY <1>3 DEF S
<1>5. Lines(ranked, titles, links) = CHOOSE lines : Up(lines, Len(ranked))
    BY DEF Lines
<1> HIDE DEF Up
<1>6. Up(CHOOSE lines : Up(lines, Len(ranked)), Len(ranked))
    BY <1>4
<1> QED BY <1>5, <1>6 DEF Up

\* The lines of a loot post.
LEMMA LinesSound ==
    ASSUME DealsAssumption, NEW ranked \in Seq(Cards), NEW titles, NEW links
    PROVE  AreLines(Lines(ranked, titles, links)[Len(ranked)], ranked, titles, links)
<1> DEFINE lines == Lines(ranked, titles, links)
           S == {i \in 0 .. Len(ranked) : AreLines(lines[i], ranked, titles, links)}
<1>1. \A i \in 0 .. Len(ranked) :
        lines[i] = IF i = 0 THEN <<>> ELSE WithLine(lines[i - 1], ranked[i], titles, links)
    BY LinesEquation
<1> HIDE DEF lines
<1>2. AreLines(<<>>, ranked, titles, links)
    <2>1. Of(<<>>) = {} /\ DOMAIN <<>> = {} /\ <<>> \in Seq(Cards)
        BY DEF Of
    <2>2. Headings(<<>>) = {}
        BY <2>1 DEF Headings
    <2>3. IsFiniteSet(Headings(<<>>)) /\ Cardinality(Headings(<<>>)) =< BucketsPerLoot
        <3>1. IsFiniteSet(Headings(<<>>)) /\ Cardinality(Headings(<<>>)) = 0
            BY ONLY <2>2, FS_EmptySet
        <3> QED BY <3>1 DEF DealsAssumption
    <2> QED BY <2>1, <2>2, <2>3 DEF AreLines
<1>3. 0 \in S
    BY <1>1, <1>2
<1>4. ASSUME NEW i \in 0 .. Len(ranked) - 1, i \in S
      PROVE  i + 1 \in S
    <2>1. lines[i + 1] = WithLine(lines[i], ranked[i + 1], titles, links)
        BY <1>1
    <2>2. ranked[i + 1] \in Of(ranked)
        BY DEF Of
    <2> QED BY <1>4, <2>1, <2>2, WithLineSound
<1> HIDE DEF S
<1>5. Len(ranked) \in S
    <2>1. Len(ranked) \in Nat
        OBVIOUS
    <2>2. \A i \in 0 .. Len(ranked) : i \in S
        BY ONLY <1>3, <1>4, <2>1, InductionUpTo
    <2> QED BY <2>1, <2>2
<1> QED BY <1>5 DEF S, lines

LEMMA LootSound ==
    ASSUME DealsAssumption, NEW ranked \in Seq(Cards), NEW titles, NEW links,
           LootPost(ranked, titles, links) # <<>>
    PROVE  /\ AreLines(LootPost(ranked, titles, links), ranked, titles, links)
           /\ Len(LootPost(ranked, titles, links)) >= 3
<1> DEFINE lines == Lines(ranked, titles, links)[Len(ranked)]
<1>1. AreLines(lines, ranked, titles, links)
    BY LinesSound
<1>2. LootPost(ranked, titles, links) = IF Len(lines) < 3 THEN <<>> ELSE lines
    BY DEF LootPost
<1> HIDE DEF lines
<1>3. Len(lines) \in Nat
    BY <1>1 DEF AreLines
<1> QED BY <1>1, <1>2, <1>3

LEMMA SingleSound ==
    ASSUME NEW ranked \in Seq(Cards), NEW market, NEW titles, NEW links, NEW gone,
           SinglePost(ranked, market, titles, links, gone) # <<>>
    PROVE  \E o \in Of(ranked) :
                /\ SinglePost(ranked, market, titles, links, gone) = <<o>>
                /\ Offers[o].platform = market
                /\ IsClear(o, titles, links)
<1> DEFINE fresh == {i \in DOMAIN ranked :
                        /\ Offers[ranked[i]].platform = market
                        /\ Offers[ranked[i]].title \notin gone
                        /\ IsProduct(ranked[i])
                        /\ \A q \in links : LinkKey(q) # LinkKey(ranked[i])
                        /\ \A q \in titles : ~IsSameTitle(ranked[i], q)}
           first == CHOOSE i \in fresh : \A j \in fresh : i =< j
<1>1. SinglePost(ranked, market, titles, links, gone) =
        IF fresh = {} THEN <<>> ELSE <<ranked[first]>>
    BY DEF SinglePost
<1>2. fresh # {} /\ fresh \in SUBSET Nat
    BY <1>1
<1>3. \A i \in fresh : /\ i \in 1 .. Len(ranked) /\ Offers[ranked[i]].platform = market
                       /\ IsClear(ranked[i], titles, links)
    BY DEF IsClear
<1> HIDE DEF fresh
<1>4. \E i \in fresh : \A j \in fresh : i =< j
    BY ONLY <1>2, LeastElement
<1>5. first \in fresh
    BY <1>4
<1> HIDE DEF first
<1>6. SinglePost(ranked, market, titles, links, gone) = <<ranked[first]>>
    BY <1>1, <1>2
<1> QED BY <1>3, <1>5, <1>6 DEF Of

-----------------------------------------------------------------------------
(***************************************************************************)
(* The invariant.                                                          *)
(***************************************************************************)

\* Of the posts a dispatcher knew, the goods are among its titles and links or out of their
\* windows.
KnownTitles(it) ==
    \A i \in it.knew : \A o \in Of(posts[i].used) :
        o \in it.titles \/ tick - posts[i].at > TitleWindow

KnownLinks(it) ==
    \A i \in it.knew : \A o \in Of(posts[i].used) :
        o \in it.links \/ tick - posts[i].at > LinkWindow

Apart(knew, used, at) ==
    \A i \in knew : \A o \in Of(posts[i].used), q \in Of(used) :
        /\ LinkKey(o) = LinkKey(q) => at - posts[i].at > LinkWindow
        /\ IsSameTitle(o, q) => at - posts[i].at > TitleWindow

PoolFits(it) ==
    \A o \in Of(it.pool) :
        /\ IsGood(o) /\ Offers[o].platform = it.slot.market
        /\ ~it.broad /\ Resolved(it.slot.topic) # {} =>
                Offers[o].category \in Resolved(it.slot.topic)

\* What is true of a dispatcher at each of its steps.
Fits(w, it) ==
    /\ it.knew \subseteq Recorded
    /\ it.pc = "record" => it.post \in DOMAIN posts
    /\ it.pc \in {"links", "scrape", "check", "queue"} => it.slot \in Slots[w]
    /\ it.pc \in {"links", "scrape", "check"} =>
            KnownTitles(it) /\ (it.slot.kind = "loot" => it.broad)
    /\ it.pc \in {"scrape", "check"} => KnownLinks(it)
    /\ it.pc = "check" =>
            /\ it.slot.kind = "single" /\ PoolFits(it) /\ IsSound(it.used, it.slot)
            /\ \A o \in Of(it.used) : IsClear(o, it.titles, it.links)
    /\ it.pc # "check" => it.pool = <<>>
    /\ it.pc = "queue" => IsSound(it.used, it.slot) /\ Apart(it.knew, it.used, tick)

PostFits(post) ==
    /\ post.at =< tick /\ post.knew \subseteq DOMAIN posts
    /\ IsSound(post.used, post.slot)
    /\ Apart(post.knew, post.used, post.at)
    /\ post.recorded =>
        \A o \in Of(post.used) : \E g \in goods : g.card = o /\ g.at >= post.at

CacheFits(entry) ==
    entry.at >= 0 => /\ entry.key \in Requests
                     /\ \E down \in Outages : entry.up = Pages(entry.key) \ down

DealsInv ==
    /\ DealsTypeOK
    /\ \A w \in Workers : Fits(w, worker[w]) /\ CacheFits(cache[w])
    /\ \A j \in DOMAIN posts : PostFits(posts[j])

LEMMA IdleFits ==
    ASSUME DealsAssumption, NEW w
    PROVE  Idle \in WorkerRow /\ Fits(w, Idle)
<1>1. Idle \in WorkerRow
    BY DEF Idle, WorkerRow, AnySlot, DealsAssumption
<1>2. Fits(w, Idle)
    BY DEF Idle, Fits
<1> QED BY <1>1, <1>2

\* A step of one dispatcher alone.
LEMMA LocalStep ==
    ASSUME DealsInv, NEW w \in Workers, NEW new \in WorkerRow, Put(w, new), Fits(w, new),
           UNCHANGED <<tick, goods, posts>>,
           \/ cache' = cache
           \/ \E entry \in CacheRow : CacheFits(entry) /\ cache' = [cache EXCEPT ![w] = entry]
    PROVE  DealsInv'
<1> USE DEF DealsInv
<1>1. /\ worker' \in [Workers -> WorkerRow] /\ worker'[w] = new
      /\ \A v \in Workers : v # w => worker'[v] = worker[v]
    BY DEF Put, DealsTypeOK
<1>2. cache' \in [Workers -> CacheRow]
    BY DEF DealsTypeOK
<1>3. DealsTypeOK'
    BY <1>1, <1>2 DEF DealsTypeOK
<1>4. ASSUME NEW v \in Workers PROVE Fits(v, worker[v])'
    <2>1. CASE v = w
        BY <1>1, <2>1 DEF Fits, Recorded, KnownTitles, KnownLinks, Apart, PoolFits
    <2>2. CASE v # w
        <3>1. Fits(v, worker[v]) /\ worker'[v] = worker[v]
            BY <1>1, <2>2
        <3>2. UNCHANGED <<tick, posts>>
            OBVIOUS
        <3> QED BY ONLY <3>1, <3>2 DEF Fits, Recorded, KnownTitles, KnownLinks, Apart, PoolFits
    <2> QED BY <2>1, <2>2
<1>5. ASSUME NEW v \in Workers PROVE CacheFits(cache[v])'
    BY DEF CacheFits, DealsTypeOK
<1>6. ASSUME NEW j \in DOMAIN posts' PROVE PostFits(posts[j])'
    BY DEF PostFits, Apart
<1> QED BY <1>3, <1>4, <1>5, <1>6

LEMMA ClearIsApart ==
    ASSUME NEW it, KnownTitles(it), KnownLinks(it), NEW used,
           \A q \in Of(used) : IsClear(q, it.titles, it.links)
    PROVE  Apart(it.knew, used, tick)
<1> SUFFICES ASSUME NEW i \in it.knew, NEW o \in Of(posts[i].used), NEW q \in Of(used)
             PROVE  /\ LinkKey(o) = LinkKey(q) => tick - posts[i].at > LinkWindow
                    /\ IsSameTitle(o, q) => tick - posts[i].at > TitleWindow
    BY DEF Apart
<1>1. o \in it.links => LinkKey(o) # LinkKey(q)
    BY DEF IsClear
<1>2. o \in it.titles => ~IsSameTitle(o, q)
    BY SameTitleIsSymmetric DEF IsClear
<1> QED BY <1>1, <1>2 DEF KnownTitles, KnownLinks

LEMMA ChosenRow ==
    ASSUME DealsAssumption, DealsTypeOK, NEW w \in Workers, NEW post \in Seq(Cards)
    PROVE  LET new == Chosen(w, post)
           IN  /\ new \in WorkerRow
               /\ new.pc = "queue" /\ new.slot = worker[w].slot /\ new.knew = worker[w].knew
               /\ new.used = post /\ new.pool = <<>>
<1>1. Idle \in WorkerRow
    BY IdleFits
<1>2. worker[w] \in WorkerRow
    BY DEF DealsTypeOK
<1> QED BY <1>1, <1>2 DEF Chosen, Idle, WorkerRow

\* What is queued is sound, and apart from the posts its dispatcher knew.
LEMMA ChosenFits ==
    ASSUME DealsAssumption, DealsInv, NEW w \in Workers, NEW it, NEW post \in Seq(Cards),
           it.slot = worker[w].slot, it.slot \in Slots[w], it.knew = worker[w].knew,
           KnownTitles(it), KnownLinks(it),
           IsSound(post, it.slot), \A o \in Of(post) : IsClear(o, it.titles, it.links)
    PROVE  Chosen(w, post) \in WorkerRow /\ Fits(w, Chosen(w, post))
<1> DEFINE new == Chosen(w, post)
<1>1. /\ new \in WorkerRow
      /\ new.pc = "queue" /\ new.slot = worker[w].slot /\ new.knew = worker[w].knew
      /\ new.used = post /\ new.pool = <<>>
    BY ChosenRow DEF DealsInv
<1>2. Apart(it.knew, post, tick)
    BY ClearIsApart
<1>3. worker[w].knew \subseteq Recorded
    BY DEF DealsInv, Fits
<1> HIDE DEF new
<1>4. Fits(w, new)
    BY <1>1, <1>2, <1>3 DEF Fits
<1> QED BY <1>1, <1>4 DEF new

LEMMA SingleIsSound ==
    ASSUME NEW o \in Cards, IsGood(o), NEW slot, slot.kind = "single",
           Offers[o].platform = slot.market
    PROVE  IsSound(<<o>>, slot) /\ Of(<<o>>) = {o}
<1>1. Of(<<o>>) = {o} /\ DOMAIN <<o>> = {1} /\ Len(<<o>>) = 1 /\ <<o>>[1] = o
    BY DEF Of
<1> QED BY <1>1 DEF IsSound, IsGood

\* What Choose leaves its dispatcher with, from a request's deals.
LEMMA ChooseStep ==
    ASSUME DealsAssumption, DealsInv, NEW w \in Workers, NEW it \in WorkerRow,
           it.pc \in {"links", "scrape"}, it.slot = worker[w].slot, it.slot \in Slots[w],
           it.knew = worker[w].knew, it.pool = <<>>, it.slot.kind = "loot" => it.broad,
           KnownTitles(it), KnownLinks(it),
           NEW key \in Requests, key = IF it.broad THEN BroadRequest ELSE OwnRequest(it.slot),
           NEW down \in Outages, Choose(w, it, key, Pages(key) \ down)
    PROVE  \E new \in WorkerRow : Put(w, new) /\ Fits(w, new)
<1> DEFINE loot == it.slot.kind = "loot"
           ranked == Rankings[<<key, Pages(key) \ down, IF loot THEN "all" ELSE it.slot.market>>]
           post == IF loot THEN LootPost(ranked, it.titles, it.links)
                   ELSE SinglePost(ranked, it.slot.market, it.titles, it.links, {})
           checked == [it EXCEPT !.pc = "check", !.pool = ranked, !.used = post]
           broader == [it EXCEPT !.pc = "scrape", !.broad = TRUE]
<1>1. \/ post # <<>> /\ Put(w, IF loot THEN Chosen(w, post) ELSE checked)
      \/ post = <<>> /\ Put(w, IF it.broad THEN Idle ELSE broader)
    BY DEF Choose
<1>2. it.knew \subseteq Recorded
    BY DEF DealsInv, Fits
<1>3. loot \/ (it.slot.kind = "single" /\ it.slot.market \in Platforms)
    BY DEF DealsAssumption
<1>4. /\ ranked \in Seq(Cards)
      /\ \A o \in Of(ranked) :
            /\ IsGood(o)
            /\ ~loot => Offers[o].platform = it.slot.market
            /\ key.wanted # {} => Offers[o].category \in key.wanted
    <2>1. ASSUME NEW market \in Platforms \cup {"all"}
          PROVE  /\ Rankings[<<key, Pages(key) \ down, market>>] \in Seq(Cards)
                 /\ \A o \in Of(Rankings[<<key, Pages(key) \ down, market>>]) :
                        /\ IsGood(o)
                        /\ market # "all" => Offers[o].platform = market
                        /\ key.wanted # {} => Offers[o].category \in key.wanted
        BY RankingSound
    <2>2. CASE loot
        BY <2>1, <2>2
    <2>3. CASE ~loot
        <3>1. it.slot.market \in Platforms /\ it.slot.market # "all"
            BY <1>3, <2>3 DEF DealsAssumption
        <3> QED BY <2>1, <2>3, <3>1
    <2> QED BY <2>2, <2>3
<1>5. ~it.broad => key.wanted = Resolved(it.slot.topic)
    BY DEF OwnRequest
<1>6. Of(ranked) \subseteq Cards
    BY <1>4 DEF Of
<1> HIDE DEF ranked
<1>7. CASE post # <<>> /\ loot
    <2>1. /\ AreLines(post, ranked, it.titles, it.links) /\ Len(post) >= 3
        BY <1>4, <1>7, LootSound
    <2>2. IsSound(post, it.slot)
        BY <1>4, <1>7, <2>1 DEF AreLines, IsSound, IsGood
    <2>3. post \in Seq(Cards) /\ \A o \in Of(post) : IsClear(o, it.titles, it.links)
        BY <2>1 DEF AreLines
    <2> HIDE DEF post
    <2>4. Chosen(w, post) \in WorkerRow /\ Fits(w, Chosen(w, post))
        BY <2>2, <2>3, ChosenFits
    <2> QED BY <1>1, <1>7, <2>4
<1>8. CASE post # <<>> /\ ~loot
    <2>1. PICK o \in Of(ranked) : /\ post = <<o>>
                                  /\ Offers[o].platform = it.slot.market
                                  /\ IsClear(o, it.titles, it.links)
        BY <1>4, <1>8, SingleSound
    <2>2. it.slot.kind = "single" /\ o \in Cards /\ IsGood(o)
        BY <1>3, <1>4, <1>6, <1>8
    <2>3. IsSound(post, it.slot) /\ Of(post) = {o} /\ post \in Seq(Cards)
        <3> HIDE DEF post
        <3>1. IsSound(<<o>>, it.slot) /\ Of(<<o>>) = {o}
            <4>1. Offers[o].platform = it.slot.market
                BY <2>1
            <4> QED BY <2>2, <4>1, SingleIsSound
        <3>2. <<o>> \in Seq(Cards)
            BY <2>2
        <3> QED BY <2>1, <3>1, <3>2
    <2> HIDE DEF post
    <2>4. /\ checked \in WorkerRow /\ checked.pc = "check" /\ checked.slot = it.slot
          /\ checked.broad = it.broad /\ checked.titles = it.titles /\ checked.links = it.links
          /\ checked.knew = it.knew /\ checked.pool = ranked /\ checked.used = post
        BY <1>4, <2>3 DEF WorkerRow
    <2> HIDE DEF checked
    <2>5. PoolFits(checked)
        BY <1>4, <1>5, <1>8, <2>4 DEF PoolFits
    <2>6. KnownTitles(checked) /\ KnownLinks(checked)
        BY <2>4 DEF KnownTitles, KnownLinks
    <2>7. Fits(w, checked)
        BY <1>2, <2>1, <2>2, <2>3, <2>4, <2>5, <2>6 DEF Fits
    <2> QED BY <1>1, <1>8, <2>4, <2>7
<1>9. CASE post = <<>>
    <2>1. CASE it.broad
        BY <1>1, <1>9, <2>1, IdleFits
    <2>2. CASE ~it.broad
        <3>1. /\ broader \in WorkerRow /\ broader.pc = "scrape" /\ broader.slot = it.slot
              /\ broader.broad /\ broader.titles = it.titles /\ broader.links = it.links
              /\ broader.knew = it.knew /\ broader.pool = <<>>
            BY DEF WorkerRow
        <3>2. Put(w, broader)
            BY <1>1, <1>9, <2>2
        <3> HIDE DEF broader
        <3>3. KnownTitles(broader) /\ KnownLinks(broader)
            BY <3>1 DEF KnownTitles, KnownLinks
        <3>4. Fits(w, broader)
            BY <1>2, <3>1, <3>3 DEF Fits
        <3> QED BY <3>1, <3>2, <3>4
    <2> QED BY <2>1, <2>2
<1> QED BY <1>7, <1>8, <1>9

-----------------------------------------------------------------------------
LEMMA DealsInitInv ==
    ASSUME DealsAssumption, DealsInit
    PROVE  DealsInv
<1>1. NoCache \in CacheRow /\ ~(NoCache.at >= 0)
    BY DEF NoCache, CacheRow, DealsAssumption
<1>2. DealsTypeOK
    <2>1. posts \in Seq(PostRow) /\ Len(posts) = 0
        BY DEF DealsInit
    <2> QED BY <1>1, <2>1, IdleFits DEF DealsInit, DealsTypeOK, DealsAssumption
<1>3. ASSUME NEW w \in Workers PROVE Fits(w, worker[w]) /\ CacheFits(cache[w])
    <2>1. worker[w] = Idle /\ cache[w] = NoCache
        BY DEF DealsInit
    <2> QED BY <1>1, <2>1, IdleFits DEF CacheFits
<1>4. DOMAIN posts = {}
    BY DEF DealsInit
<1> QED BY <1>2, <1>3, <1>4 DEF DealsInv

LEMMA PostTypes ==
    ASSUME DealsTypeOK, NEW i \in DOMAIN posts
    PROVE  /\ posts[i] \in PostRow /\ posts[i].at \in Int /\ posts[i].used \in Seq(Cards)
           /\ posts[i].slot \in AnySlot /\ posts[i].recorded \in BOOLEAN
           /\ posts[i].knew \in SUBSET (1 .. MostPosts)
           /\ DOMAIN posts = 1 .. Len(posts) /\ Len(posts) \in Nat
<1>1. posts[i] \in PostRow /\ DOMAIN posts = 1 .. Len(posts) /\ Len(posts) \in Nat
    BY DEF DealsTypeOK
<1> QED BY <1>1 DEF PostRow

LEMMA ReadTitlesStep ==
    ASSUME DealsAssumption, DealsInv, NEW w \in Workers, ReadTitles(w)
    PROVE  DealsInv'
<1> DEFINE titles == {g.card : g \in {g \in goods : g.at >= tick - TitleWindow}}
           new(slot, broad) ==
                [Idle EXCEPT !.pc = "links", !.slot = slot, !.broad = broad, !.knew = Recorded,
                             !.titles = titles]
<1>1. PICK slot \in Slots[w] :
        Put(w, new(slot, slot.kind = "loot"))
    BY DEF ReadTitles
<1> DEFINE loot == slot.kind = "loot"
           it == new(slot, loot)
<1>2. titles \in SUBSET Cards
    BY DEF DealsInv, DealsTypeOK
<1>3. Recorded \in SUBSET (1 .. MostPosts) /\ Recorded \subseteq DOMAIN posts
    BY DEF DealsInv, DealsTypeOK, Recorded, DealsAssumption
<1>4. /\ it \in WorkerRow /\ it.pc = "links" /\ it.slot = slot
      /\ slot.kind = "loot" => it.broad
      /\ it.knew = Recorded /\ it.titles = titles /\ it.pool = <<>>
    <2>1. loot \in BOOLEAN /\ slot \in AnySlot /\ (slot.kind = "loot" => loot)
        BY DEF AnySlot
    <2> HIDE DEF loot, titles
    <2>2. /\ it.pc = "links" /\ it.slot = slot /\ it.broad = loot
          /\ it.knew = Recorded /\ it.titles = titles /\ it.pool = <<>>
        BY DEF Idle
    <2>3. it \in WorkerRow
        BY <1>2, <1>3, <2>1, IdleFits DEF WorkerRow
    <2> QED BY <2>1, <2>2, <2>3
<1>5. ASSUME NEW i \in Recorded, NEW o \in Of(posts[i].used)
      PROVE  o \in titles \/ tick - posts[i].at > TitleWindow
    <2>1. PostFits(posts[i]) /\ posts[i].recorded /\ posts[i].at \in Int
        BY <1>3, PostTypes DEF DealsInv, Recorded
    <2>2. PICK g \in goods : g.card = o /\ g.at >= posts[i].at
        BY <2>1 DEF PostFits
    <2>3. g.at \in Int /\ tick \in Int /\ TitleWindow \in Int
        BY DEF DealsInv, DealsTypeOK, DealsAssumption
    <2> QED BY <2>1, <2>2, <2>3
<1>6. Put(w, it)
    BY <1>1
<1> HIDE DEF it, titles
<1>7. Fits(w, it)
    BY <1>4, <1>5 DEF Fits, KnownTitles
<1> QED BY <1>4, <1>6, <1>7, LocalStep DEF ReadTitles

LEMMA ReadLinksStep ==
    ASSUME DealsAssumption, DealsInv, NEW w \in Workers, ReadLinks(w)
    PROVE  DealsInv'
<1> DEFINE it == [worker[w] EXCEPT !.links = PostedLinks]
           waiting == [worker[w] EXCEPT !.pc = "scrape", !.links = PostedLinks]
<1>1. worker[w] \in WorkerRow /\ worker[w].pc = "links" /\ Fits(w, worker[w])
    BY DEF ReadLinks, DealsInv, DealsTypeOK
<1>2. PostedLinks \in SUBSET Cards
    BY DEF PostedLinks, DealsInv, DealsTypeOK
<1>3. /\ it \in WorkerRow /\ it.pc = "links" /\ it.slot = worker[w].slot
      /\ it.broad = worker[w].broad /\ it.titles = worker[w].titles /\ it.links = PostedLinks
      /\ it.knew = worker[w].knew /\ it.pool = worker[w].pool
    BY <1>1, <1>2 DEF WorkerRow
<1>4. /\ waiting \in WorkerRow /\ waiting.pc = "scrape" /\ waiting.slot = worker[w].slot
      /\ waiting.broad = worker[w].broad /\ waiting.titles = worker[w].titles
      /\ waiting.links = PostedLinks /\ waiting.knew = worker[w].knew
      /\ waiting.pool = worker[w].pool
    BY <1>1, <1>2 DEF WorkerRow
<1>5. \/ IsCached(w) /\ Choose(w, it, cache[w].key, cache[w].up)
      \/ Put(w, waiting)
    BY DEF ReadLinks
<1> HIDE DEF it, waiting
<1>6. ASSUME NEW i \in worker[w].knew, NEW o \in Of(posts[i].used)
      PROVE  o \in PostedLinks \/ tick - posts[i].at > LinkWindow
    <2>1. i \in DOMAIN posts /\ posts[i].recorded
        BY <1>1 DEF Fits, Recorded, DealsInv, DealsTypeOK
    <2>2. PostFits(posts[i]) /\ posts[i].at \in Int
        BY <2>1, PostTypes DEF DealsInv
    <2>3. PICK g \in goods : g.card = o /\ g.at >= posts[i].at
        BY <2>1, <2>2 DEF PostFits
    <2>4. g.at \in Int /\ tick \in Int /\ LinkWindow \in Int
        BY DEF DealsInv, DealsTypeOK, DealsAssumption
    <2> QED BY <2>2, <2>3, <2>4 DEF PostedLinks
<1>7. KnownTitles(it) /\ KnownLinks(it)
    BY <1>1, <1>3, <1>6 DEF Fits, KnownTitles, KnownLinks
<1>8. /\ it.slot \in Slots[w] /\ it.knew \subseteq Recorded /\ it.pool = <<>>
      /\ it.slot.kind = "loot" => it.broad
    BY <1>1, <1>3 DEF Fits
<1>9. CASE IsCached(w) /\ Choose(w, it, cache[w].key, cache[w].up)
    <2>1. /\ cache[w].key = Request(w) /\ CacheFits(cache[w]) /\ cache[w].at >= 0
        BY <1>9 DEF IsCached, DealsInv
    <2>2. PICK down \in Outages : cache[w].up = Pages(cache[w].key) \ down
        BY <2>1 DEF CacheFits
    <2>3. cache[w].key \in Requests
        BY <2>1 DEF CacheFits
    <2>4. cache[w].key = IF it.broad THEN BroadRequest ELSE OwnRequest(it.slot)
        BY <1>3, <2>1 DEF Request
    <2>5. \E new \in WorkerRow : Put(w, new) /\ Fits(w, new)
        BY <1>3, <1>7, <1>8, <1>9, <2>2, <2>3, <2>4, ChooseStep
    <2> QED BY <2>5, LocalStep DEF ReadLinks
<1>10. CASE Put(w, waiting)
    <2>1. KnownTitles(waiting) /\ KnownLinks(waiting)
        BY <1>3, <1>4, <1>7 DEF KnownTitles, KnownLinks
    <2>2. Fits(w, waiting)
        BY <1>3, <1>4, <1>8, <2>1 DEF Fits
    <2> QED BY <1>4, <1>10, <2>2, LocalStep DEF ReadLinks
<1> QED BY <1>5, <1>9, <1>10

LEMMA ResolvedAreLabels ==
    ASSUME DealsAssumption, NEW topic
    PROVE  Resolved(topic) \subseteq Labels
<1>1. topic \in DOMAIN Near => Near[topic] \subseteq Labels
    BY DEF DealsAssumption
<1> QED BY <1>1 DEF Resolved

LEMMA EndScrapeStep ==
    ASSUME DealsAssumption, DealsInv, NEW w \in Workers, EndScrape(w)
    PROVE  DealsInv'
<1> DEFINE key == Request(w)
           it == worker[w]
<1>1. PICK down \in Outages :
        /\ cache' = [cache EXCEPT ![w] = [key |-> key, up |-> Pages(key) \ down, at |-> tick]]
        /\ Choose(w, it, key, Pages(key) \ down)
    BY DEF EndScrape
<1>2. it \in WorkerRow /\ it.pc = "scrape" /\ Fits(w, it)
    BY DEF EndScrape, DealsInv, DealsTypeOK
<1>3. /\ it.slot \in Slots[w] /\ it.knew \subseteq Recorded /\ it.pool = <<>>
      /\ it.slot.kind = "loot" => it.broad
      /\ KnownTitles(it) /\ KnownLinks(it)
    BY <1>2 DEF Fits
<1>4. key = IF it.broad THEN BroadRequest ELSE OwnRequest(it.slot)
    BY DEF Request
<1>5. key \in Requests /\ Pages(key) \subseteq Platforms \X Labels
    <2>1. it.broad \in BOOLEAN
        BY <1>2 DEF WorkerRow
    <2>2. CASE it.broad
        <3>1. key \in Requests /\ key.platforms = Platforms /\ key.wanted = {}
            BY <1>4, <2>2 DEF Requests, BroadRequest
        <3> HIDE DEF key
        <3> QED BY <3>1 DEF Pages
    <2>3. CASE ~it.broad
        <3>1. it.slot.market \in Platforms
            BY <1>3, <2>3 DEF DealsAssumption
        <3>2. key = OwnRequest(it.slot) /\ it.slot \in UNION {Slots[v] : v \in Workers}
            BY <1>3, <1>4, <2>3
        <3> HIDE DEF key, it
        <3>3. key \in Requests
            BY <3>2 DEF Requests
        <3>4. key.platforms = {it.slot.market} /\ key.wanted = Resolved(it.slot.topic)
            BY <3>2 DEF OwnRequest
        <3>5. key.wanted \subseteq Labels
            BY <3>4, ResolvedAreLabels
        <3> QED BY <3>1, <3>3, <3>4, <3>5 DEF Pages
    <2> QED BY <2>1, <2>2, <2>3
<1> DEFINE entry == [key |-> key, up |-> Pages(key) \ down, at |-> tick]
<1>6. entry \in CacheRow /\ CacheFits(entry)
    BY <1>5 DEF CacheRow, CacheFits, DealsInv, DealsTypeOK, DealsAssumption
<1> HIDE DEF key, it
<1>7. it.slot = worker[w].slot /\ it.knew = worker[w].knew
    BY DEF it
<1>8. \E new \in WorkerRow : Put(w, new) /\ Fits(w, new)
    BY <1>1, <1>2, <1>3, <1>4, <1>5, <1>7, ChooseStep
<1> HIDE DEF entry
<1>9. cache' = [cache EXCEPT ![w] = entry]
    BY <1>1 DEF entry
<1> QED BY <1>6, <1>8, <1>9, LocalStep DEF EndScrape

LEMMA ReachableStep ==
    ASSUME DealsAssumption, DealsInv, NEW w \in Workers, Reachable(w)
    PROVE  DealsInv'
<1>1. worker[w] \in WorkerRow /\ worker[w].pc = "check" /\ Fits(w, worker[w])
    BY DEF Reachable, DealsInv, DealsTypeOK
<1>2. worker[w].used \in Seq(Cards)
    BY <1>1 DEF WorkerRow
<1>3. Chosen(w, worker[w].used) \in WorkerRow /\ Fits(w, Chosen(w, worker[w].used))
    BY <1>1, <1>2, ChosenFits DEF Fits
<1> QED BY <1>3, LocalStep DEF Reachable

LEMMA GoneStep ==
    ASSUME DealsAssumption, DealsInv, NEW w \in Workers, Gone(w)
    PROVE  DealsInv'
<1> DEFINE it == worker[w]
           post == SinglePost(it.pool, it.slot.market, it.titles, it.links,
                              {Offers[it.used[1]].title})
<1>1. it \in WorkerRow /\ it.pc = "check" /\ Fits(w, it)
    BY DEF Gone, DealsInv, DealsTypeOK
<1>2. Put(w, IF post = <<>> THEN Idle ELSE Chosen(w, post))
    BY DEF Gone
<1>3. CASE post = <<>>
    BY <1>2, <1>3, IdleFits, LocalStep DEF Gone
<1>4. CASE post # <<>>
    <2>1. it.pool \in Seq(Cards)
        BY <1>1 DEF WorkerRow
    <2>2. PICK o \in Of(it.pool) : /\ post = <<o>>
                                   /\ Offers[o].platform = it.slot.market
                                   /\ IsClear(o, it.titles, it.links)
        BY <1>4, <2>1, SingleSound
    <2> HIDE DEF post
    <2>3. o \in Cards /\ IsGood(o) /\ it.slot.kind = "single"
        BY <1>1, <2>1 DEF Fits, PoolFits, Of
    <2>4. IsSound(<<o>>, it.slot) /\ Of(<<o>>) = {o} /\ <<o>> \in Seq(Cards)
        BY <2>2, <2>3, SingleIsSound
    <2>5. Chosen(w, post) \in WorkerRow /\ Fits(w, Chosen(w, post))
        <3>1. /\ it.slot \in Slots[w] /\ KnownTitles(it) /\ KnownLinks(it)
            BY <1>1 DEF Fits
        <3> QED BY <2>2, <2>4, <3>1, ChosenFits
    <2> QED BY <1>2, <1>4, <2>5, LocalStep DEF Gone
<1> QED BY <1>3, <1>4

LEMMA GiveUpStep ==
    ASSUME DealsAssumption, DealsInv, NEW w \in Workers, Raise(w) \/ Restart(w)
    PROVE  DealsInv'
<1>1. NoCache \in CacheRow /\ CacheFits(NoCache)
    BY DEF NoCache, CacheRow, CacheFits, DealsAssumption
<1> QED BY <1>1, IdleFits, LocalStep DEF Raise, Restart

LEMMA PostsStayApart ==
    ASSUME NEW j \in DOMAIN posts, PostFits(posts[j]),
           \A i \in DOMAIN posts :
                /\ posts'[i].used = posts[i].used
                /\ posts'[i].at = posts[i].at /\ posts'[i].knew = posts[i].knew
    PROVE  Apart(posts[j].knew, posts[j].used, posts[j].at)'
<1>1. posts[j].knew \subseteq DOMAIN posts /\ Apart(posts[j].knew, posts[j].used, posts[j].at)
    BY DEF PostFits
<1> SUFFICES \A i \in posts[j].knew :
                \A o \in Of(posts'[i].used), q \in Of(posts[j].used) :
                    /\ LinkKey(o) = LinkKey(q) => posts[j].at - posts'[i].at > LinkWindow
                    /\ IsSameTitle(o, q) => posts[j].at - posts'[i].at > TitleWindow
    BY DEF Apart
<1> QED BY <1>1 DEF Apart

\* Time passes, posts are added or recorded, and goods are kept: what a dispatcher knew
\* stays so, and what was right of a post.
LEMMA GrowingFits ==
    ASSUME DealsAssumption, DealsInv, DealsTypeOK', tick =< tick', Len(posts) =< Len(posts'),
           \A i \in DOMAIN posts :
                /\ posts'[i].used = posts[i].used /\ posts'[i].slot = posts[i].slot
                /\ posts'[i].at = posts[i].at /\ posts'[i].knew = posts[i].knew
                /\ posts[i].recorded => posts'[i].recorded
    PROVE  /\ \A v \in Workers : worker'[v] = worker[v] => Fits(v, worker[v])'
           /\ \A j \in DOMAIN posts :
                goods \subseteq goods' /\ (posts'[j].recorded => posts[j].recorded)
                    => PostFits(posts[j])'
<1>1. /\ DOMAIN posts = 1 .. Len(posts) /\ Len(posts) \in Nat
      /\ DOMAIN posts' = 1 .. Len(posts') /\ Len(posts') \in Nat
      /\ DOMAIN posts \subseteq DOMAIN posts'
    BY DEF DealsInv, DealsTypeOK
<1>2. /\ tick \in Int /\ tick' \in Int /\ LinkWindow \in Int /\ TitleWindow \in Int
      /\ \A i \in DOMAIN posts : posts[i].at \in Int
    BY PostTypes, SMTT(30) DEF DealsInv, DealsTypeOK, DealsAssumption
<1>3. Recorded \subseteq Recorded' /\ Recorded \subseteq DOMAIN posts
    BY <1>1 DEF Recorded
<1>4. ASSUME NEW v \in Workers, worker'[v] = worker[v]
      PROVE  Fits(v, worker[v])'
    <2>1. Fits(v, worker[v])
        BY DEF DealsInv
    <2>2. worker[v].knew \subseteq DOMAIN posts
        BY <1>3, <2>1 DEF Fits
    <2>3. KnownTitles(worker[v]) => KnownTitles(worker[v])'
        BY <1>2, <1>4, <2>2 DEF KnownTitles
    <2>4. KnownLinks(worker[v]) => KnownLinks(worker[v])'
        BY <1>2, <1>4, <2>2 DEF KnownLinks
    <2>5. Apart(worker[v].knew, worker[v].used, tick)
            => Apart(worker[v].knew, worker[v].used, tick)'
        <3> SUFFICES ASSUME Apart(worker[v].knew, worker[v].used, tick)
                     PROVE  \A i \in worker[v].knew :
                                \A o \in Of(posts'[i].used), q \in Of(worker[v].used) :
                                    /\ LinkKey(o) = LinkKey(q) => tick' - posts'[i].at > LinkWindow
                                    /\ IsSameTitle(o, q) => tick' - posts'[i].at > TitleWindow
            BY <1>4 DEF Apart
        <3> SUFFICES ASSUME NEW i \in worker[v].knew, NEW o \in Of(posts[i].used),
                            NEW q \in Of(worker[v].used)
                     PROVE  /\ LinkKey(o) = LinkKey(q) => tick' - posts[i].at > LinkWindow
                            /\ IsSameTitle(o, q) => tick' - posts[i].at > TitleWindow
            BY <2>2
        <3>1. /\ LinkKey(o) = LinkKey(q) => tick - posts[i].at > LinkWindow
              /\ IsSameTitle(o, q) => tick - posts[i].at > TitleWindow
            BY DEF Apart
        <3>2. posts[i].at \in Int
            BY <1>2, <2>2
        <3> QED BY <1>2, <3>1, <3>2
    <2>6. PoolFits(worker[v]) => PoolFits(worker[v])'
        BY <1>4 DEF PoolFits
    <2> QED BY ONLY <1>1, <1>3, <1>4, <2>1, <2>3, <2>4, <2>5, <2>6 DEF Fits
<1>5. ASSUME NEW j \in DOMAIN posts, goods \subseteq goods',
             posts'[j].recorded => posts[j].recorded
      PROVE  PostFits(posts[j])'
    <2>1. PostFits(posts[j])
        BY DEF DealsInv
    <2>2. posts[j].knew \subseteq DOMAIN posts
        BY <2>1 DEF PostFits
    <2>3. Apart(posts[j].knew, posts[j].used, posts[j].at)'
        BY <2>1, PostsStayApart
    <2> QED BY <1>1, <1>2, <1>5, <2>1, <2>3 DEF PostFits
<1> QED BY <1>4, <1>5

LEMMA QueuePostStep ==
    ASSUME DealsAssumption, DealsInv, NEW w \in Workers, QueuePost(w)
    PROVE  DealsInv'
<1> DEFINE it == worker[w]
           post == [used |-> it.used, slot |-> it.slot, at |-> tick, knew |-> it.knew,
                    recorded |-> FALSE]
           new == [Idle EXCEPT !.pc = "record", !.post = Len(posts) + 1]
<1> PICK n : n = Len(posts) + 1
    OBVIOUS
<1>1. /\ it \in WorkerRow /\ it.pc = "queue" /\ Fits(w, it)
      /\ Len(posts) \in Nat /\ DOMAIN posts = 1 .. Len(posts) /\ posts \in Seq(PostRow)
      /\ Len(posts) < MostPosts /\ MostPosts \in Nat /\ tick \in 0 .. LastTick
    BY DEF QueuePost, DealsInv, DealsTypeOK, DealsAssumption
<1>2. /\ posts' = Append(posts, post) /\ Put(w, new)
      /\ tick' = tick /\ cache' = cache /\ goods' = goods
    BY DEF QueuePost
<1>3. /\ post \in PostRow /\ post.used = it.used /\ post.slot = it.slot /\ post.at = tick
      /\ post.knew = it.knew /\ post.recorded = FALSE
    BY <1>1 DEF PostRow, WorkerRow
<1>4. /\ new \in WorkerRow /\ new.pc = "record" /\ new.post = Len(posts) + 1
      /\ new.knew = {} /\ new.pool = <<>>
    <2>1. Len(posts) + 1 \in 0 .. MostPosts
        BY <1>1
    <2> QED BY <2>1, IdleFits DEF Idle, WorkerRow
<1> HIDE DEF post, new
<1>5. /\ posts' \in Seq(PostRow) /\ Len(posts') = Len(posts) + 1
      /\ DOMAIN posts' = 1 .. n
      /\ \A i \in DOMAIN posts : posts'[i] = posts[i]
      /\ posts'[n] = post
    BY <1>1, <1>2, <1>3
<1>6. /\ worker' \in [Workers -> WorkerRow] /\ worker'[w] = new
      /\ \A v \in Workers : v # w => worker'[v] = worker[v]
    BY <1>2, <1>4 DEF Put, DealsInv, DealsTypeOK
<1>7. DealsTypeOK'
    BY <1>1, <1>2, <1>5, <1>6 DEF DealsInv, DealsTypeOK
<1>8. /\ \A v \in Workers : worker'[v] = worker[v] => Fits(v, worker[v])'
      /\ \A j \in DOMAIN posts : PostFits(posts[j])'
    <2>1. /\ tick =< tick' /\ Len(posts) =< Len(posts') /\ goods \subseteq goods'
          /\ \A j \in DOMAIN posts : posts'[j].recorded => posts[j].recorded
        BY <1>1, <1>2, <1>5
    <2> QED BY <1>5, <1>7, <2>1, GrowingFits
<1>9. Fits(w, worker[w])'
    BY <1>1, <1>4, <1>5, <1>6 DEF Fits
<1>10. PostFits(posts[n])'
    <2>1. it.knew \subseteq DOMAIN posts /\ IsSound(it.used, it.slot)
          /\ Apart(it.knew, it.used, tick)
        BY <1>1 DEF Fits, Recorded
    <2> DEFINE entry == posts'[n]
    <2>2. /\ entry.used = it.used /\ entry.slot = it.slot /\ entry.at = tick
          /\ entry.knew = it.knew /\ ~entry.recorded
        BY <1>3, <1>5
    <2>3. \A i \in it.knew : \A o \in Of(posts'[i].used), q \in Of(it.used) :
                /\ LinkKey(o) = LinkKey(q) => tick - posts'[i].at > LinkWindow
                /\ IsSameTitle(o, q) => tick - posts'[i].at > TitleWindow
        BY <1>5, <2>1 DEF Apart
    <2>4. \A i \in entry.knew : \A o \in Of(posts'[i].used), q \in Of(entry.used) :
                /\ LinkKey(o) = LinkKey(q) => entry.at - posts'[i].at > LinkWindow
                /\ IsSameTitle(o, q) => entry.at - posts'[i].at > TitleWindow
        BY <2>2, <2>3
    <2>5. entry.at =< tick' /\ entry.knew \subseteq DOMAIN posts'
        BY <1>1, <1>2, <1>5, <2>1, <2>2
    <2>6. Apart(posts[n].knew, posts[n].used, posts[n].at)'
        BY <2>4 DEF Apart
    <2>7. IsSound(entry.used, entry.slot)
        BY <2>1, <2>2
    <2> QED BY <2>2, <2>5, <2>6, <2>7 DEF PostFits
<1>11. ASSUME NEW v \in Workers PROVE Fits(v, worker[v])' /\ CacheFits(cache[v])'
    BY <1>2, <1>6, <1>8, <1>9 DEF DealsInv, CacheFits
<1>12. ASSUME NEW j \in DOMAIN posts' PROVE PostFits(posts[j])'
    <2>1. j \in DOMAIN posts \/ j = n
        BY <1>1, <1>5
    <2>2. CASE j \in DOMAIN posts
        BY <1>8, <2>2
    <2>3. CASE j = n
        BY <1>10, <2>3
    <2> QED BY <2>1, <2>2, <2>3
<1> QED BY <1>7, <1>11, <1>12 DEF DealsInv

LEMMA RecordStep ==
    ASSUME DealsAssumption, DealsInv, NEW w \in Workers, Record(w)
    PROVE  DealsInv'
<1> PICK p : p = worker[w].post
    OBVIOUS
<1> DEFINE marked == [i \in DOMAIN posts |-> [posts[i] EXCEPT !.recorded = @ \/ i = p]]
           fresh == {[card |-> o, at |-> tick] : o \in Of(posts[p].used)}
<1>1. /\ p \in DOMAIN posts /\ Len(posts) \in Nat /\ DOMAIN posts = 1 .. Len(posts)
      /\ Len(posts) =< MostPosts /\ tick \in 0 .. LastTick /\ LastTick \in Nat
    BY DEF Record, DealsInv, DealsTypeOK, Fits, DealsAssumption
<1>2. /\ posts' = marked /\ goods' = goods \cup fresh
      /\ tick' = tick /\ cache' = cache /\ Put(w, Idle)
    BY DEF Record
<1>3. ASSUME NEW i \in DOMAIN posts
      PROVE  /\ marked[i] \in PostRow
             /\ marked[i].used = posts[i].used /\ marked[i].slot = posts[i].slot
             /\ marked[i].at = posts[i].at /\ marked[i].knew = posts[i].knew
             /\ marked[i].recorded <=> posts[i].recorded \/ i = p
    BY PostTypes DEF DealsInv, PostRow
<1>4. DOMAIN marked = DOMAIN posts
    OBVIOUS
<1> HIDE DEF marked
<1>5. posts' \in Seq(PostRow) /\ Len(posts') = Len(posts) /\ DOMAIN posts' = DOMAIN posts
    <2>1. marked \in [1 .. Len(posts) -> PostRow]
        <3>1. marked = [i \in 1 .. Len(posts) |-> marked[i]]
            BY <1>1 DEF marked
        <3> QED BY <1>1, <1>3, <3>1
    <2> QED BY <1>1, <1>2, <2>1
<1>6. /\ worker' \in [Workers -> WorkerRow] /\ worker'[w] = Idle
      /\ \A v \in Workers : v # w => worker'[v] = worker[v]
    BY <1>2, IdleFits DEF Put, DealsInv, DealsTypeOK
<1>7. /\ \A g \in fresh : g.card \in Cards /\ g.at = tick
      /\ \A o \in Of(posts[p].used) : \E g \in fresh : g.card = o /\ g.at = tick
    <2>1. Of(posts[p].used) \subseteq Cards
        <3>1. posts[p].used \in Seq(Cards)
            BY <1>1, PostTypes DEF DealsInv
        <3> QED BY <3>1 DEF Of
    <2>2. ASSUME NEW o \in Of(posts[p].used)
          PROVE  \E g \in fresh : g.card = o /\ g.at = tick
        <3>1. [card |-> o, at |-> tick] \in fresh
            OBVIOUS
        <3> HIDE DEF fresh
        <3> QED BY <3>1
    <2> QED BY <2>1, <2>2
<1> HIDE DEF fresh
<1>8. DealsTypeOK'
    <2>1. \A g \in goods' : g.card \in Cards /\ g.at \in 0 .. tick'
        BY <1>1, <1>2, <1>7 DEF DealsInv, DealsTypeOK
    <2> QED BY <1>1, <1>2, <1>5, <1>6, <2>1 DEF DealsInv, DealsTypeOK
<1>9. /\ \A v \in Workers : worker'[v] = worker[v] => Fits(v, worker[v])'
      /\ \A j \in DOMAIN posts : j # p => PostFits(posts[j])'
    <2>1. tick =< tick' /\ Len(posts) =< Len(posts') /\ goods \subseteq goods'
        BY <1>1, <1>2, <1>5
    <2>2. \A j \in DOMAIN posts : j # p => (posts'[j].recorded => posts[j].recorded)
        BY <1>2, <1>3
    <2>3. \A i \in DOMAIN posts :
            /\ posts'[i].used = posts[i].used /\ posts'[i].slot = posts[i].slot
            /\ posts'[i].at = posts[i].at /\ posts'[i].knew = posts[i].knew
            /\ posts[i].recorded => posts'[i].recorded
        BY <1>2, <1>3
    <2>4. \A j \in DOMAIN posts :
            goods \subseteq goods' /\ (posts'[j].recorded => posts[j].recorded)
                => PostFits(posts[j])'
        BY <1>8, <2>1, <2>3, GrowingFits
    <2>5. \A v \in Workers : worker'[v] = worker[v] => Fits(v, worker[v])'
        BY <1>8, <2>1, <2>3, GrowingFits
    <2>6. ASSUME NEW j \in DOMAIN posts, j # p PROVE PostFits(posts[j])'
        BY <2>1, <2>2, <2>4, <2>6
    <2> QED BY <2>5, <2>6
<1>10. Fits(w, worker[w])'
    <2>1. worker'[w] = Idle
        BY <1>6
    <2>2. Idle.pc = "idle" /\ Idle.knew = {} /\ Idle.pool = <<>>
        BY ONLY DEF Idle
    <2> QED BY ONLY <2>1, <2>2 DEF Fits
<1>11. PostFits(posts[p])'
    <2>1. PostFits(posts[p]) /\ posts[p].at \in Int
        BY <1>1, PostTypes DEF DealsInv
    <2>2. Apart(posts[p].knew, posts[p].used, posts[p].at)'
        BY <1>1, <1>2, <1>3, <2>1, PostsStayApart
    <2>3. /\ posts'[p].used = posts[p].used /\ posts'[p].slot = posts[p].slot
          /\ posts'[p].at = posts[p].at /\ posts'[p].knew = posts[p].knew
        BY <1>1, <1>2, <1>3
    <2>4. posts[p].at =< tick
        BY <2>1 DEF PostFits
    <2>5. \A o \in Of(posts[p].used) : \E g \in goods' : g.card = o /\ g.at >= posts[p].at
        BY <1>1, <1>2, <1>7, <2>1, <2>4
    <2>6. /\ posts'[p].at =< tick' /\ posts'[p].knew \subseteq DOMAIN posts'
          /\ IsSound(posts'[p].used, posts'[p].slot)
        BY <1>2, <1>5, <2>1, <2>3 DEF PostFits
    <2>7. \A o \in Of(posts'[p].used) : \E g \in goods' : g.card = o /\ g.at >= posts'[p].at
        BY <2>3, <2>5
    <2> QED BY <2>2, <2>6, <2>7 DEF PostFits
<1>12. ASSUME NEW v \in Workers PROVE Fits(v, worker[v])' /\ CacheFits(cache[v])'
    <2>1. CASE v = w
        BY <1>2, <1>10, <2>1 DEF DealsInv, CacheFits, Fits
    <2>2. CASE v # w
        BY <1>2, <1>6, <1>9, <2>2 DEF DealsInv, CacheFits
    <2> QED BY <2>1, <2>2
<1>13. ASSUME NEW j \in DOMAIN posts' PROVE PostFits(posts[j])'
    <2>1. CASE j = p
        BY <1>11, <2>1 DEF PostFits
    <2>2. CASE j # p
        BY <1>5, <1>9, <2>2
    <2> QED BY <2>1, <2>2
<1> QED BY <1>8, <1>12, <1>13 DEF DealsInv

LEMMA TickStep ==
    ASSUME DealsAssumption, DealsInv, Tick
    PROVE  DealsInv'
<1>1. /\ tick \in Nat /\ tick' = tick + 1 /\ tick < LastTick /\ LastTick \in Nat
      /\ cache' = cache /\ goods' = goods /\ worker' = worker /\ posts' = posts
      /\ Len(posts) \in Nat
    BY DEF Tick, DealsInv, DealsTypeOK, DealsAssumption
<1>2. DealsTypeOK'
    BY <1>1 DEF DealsInv, DealsTypeOK
<1>3. /\ \A v \in Workers : Fits(v, worker[v])'
      /\ \A j \in DOMAIN posts : PostFits(posts[j])'
    BY <1>1, <1>2, GrowingFits
<1>4. \A v \in Workers : CacheFits(cache[v])'
    BY <1>1 DEF DealsInv, CacheFits
<1> QED BY <1>1, <1>2, <1>3, <1>4 DEF DealsInv

THEOREM DealsInvariance ==
    ASSUME DealsAssumption
    PROVE  DealsSpec => []DealsInv
<1>1. ASSUME DealsInv, [DealsNext]_dealVars PROVE DealsInv'
    <2>1. CASE UNCHANGED dealVars
        <3>1. DealsTypeOK' /\ tick =< tick' /\ Len(posts) =< Len(posts')
            BY <1>1, <2>1 DEF dealVars, DealsInv, DealsTypeOK
        <3>2. /\ \A v \in Workers : Fits(v, worker[v])'
              /\ \A j \in DOMAIN posts : PostFits(posts[j])'
            BY <1>1, <2>1, <3>1, GrowingFits DEF dealVars
        <3>3. \A v \in Workers : CacheFits(cache[v])'
            BY <1>1, <2>1 DEF dealVars, DealsInv, CacheFits
        <3> QED BY <2>1, <3>1, <3>2, <3>3 DEF dealVars, DealsInv
    <2>2. CASE Tick
        BY <1>1, <2>2, TickStep
    <2>3. ASSUME NEW w \in Workers, Execute(w) PROVE DealsInv'
        BY <1>1, <2>3, ReadTitlesStep, ReadLinksStep, EndScrapeStep, ReachableStep, GoneStep,
           QueuePostStep, RecordStep, GiveUpStep DEF Execute
    <2> QED BY <1>1, <2>1, <2>2, <2>3 DEF DealsNext
<1> QED BY <1>1, DealsInitInv, PTL DEF DealsSpec

\* Every variable keeps its type: among others the cache holds an answer to a request that
\* some slot makes, and the queue stays in its bound (deal_executor.py:58-185,
\* deal_scrapers.py:470-477).
THEOREM DealsTypeCorrect ==
    ASSUME DealsAssumption
    PROVE  DealsSpec => []DealsTypeOK
<1>1. DealsInv => DealsTypeOK
    BY DEF DealsInv
<1> QED BY <1>1, DealsInvariance, PTL

\* What a dispatcher knew when it began it does not repeat within the window, however long
\* it scrapes and whoever queues in the meantime (deal_executor.py:58-185).
THEOREM KnownIsNotRepeated ==
    ASSUME DealsAssumption
    PROVE  DealsSpec => []NothingKnownIsRepeated
<1>1. DealsInv => NothingKnownIsRepeated
    BY DEF DealsInv, NothingKnownIsRepeated, PostFits, Apart
<1> QED BY <1>1, DealsInvariance, PTL

\* The post queued last is a sound choice: different links, looks and titles, plausible
\* discounts, few headings (loot_deals.py:139-245).
THEOREM QueuedPostsAreSound ==
    ASSUME DealsAssumption
    PROVE  DealsSpec => []PostsAreSound
<1>1. ASSUME DealsInv, posts # <<>>
      PROVE  IsSound(posts[Len(posts)].used, posts[Len(posts)].slot)
    <2>1. posts \in Seq(PostRow)
        BY <1>1 DEF DealsInv, DealsTypeOK
    <2>2. Len(posts) \in DOMAIN posts
        BY <1>1, <2>1
    <2> QED BY <1>1, <2>2 DEF DealsInv, PostFits
<1>2. DealsInv => PostsAreSound
    BY <1>1 DEF PostsAreSound
<1> QED BY <1>2, DealsInvariance, PTL

\* The cache, one entry for all slots of a process, gives none the deals of another's
\* categories or marketplace (deal_scrapers.py:470-477, deal_executor.py:81-110).
THEOREM SlotsGetTheirDeals ==
    ASSUME DealsAssumption
    PROVE  DealsSpec => []SlotGetsItsCategory
<1>1. ASSUME DealsInv, NEW w \in Workers,
             ~worker[w].broad, Resolved(worker[w].slot.topic) # {},
             NEW o \in Of(worker[w].pool)
      PROVE  /\ Offers[o].category \in Resolved(worker[w].slot.topic)
             /\ Offers[o].platform = worker[w].slot.market
    <2>1. Fits(w, worker[w])
        BY <1>1 DEF DealsInv
    <2>2. worker[w].pc = "check"
        BY <1>1, <2>1 DEF Fits, Of
    <2> QED BY <1>1, <2>1, <2>2 DEF Fits, PoolFits
<1>2. DealsInv => SlotGetsItsCategory
    BY <1>1 DEF SlotGetsItsCategory
<1> QED BY <1>2, DealsInvariance, PTL

=============================================================================
