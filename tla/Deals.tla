--------------------------------- MODULE Deals ---------------------------------
(***************************************************************************)
(* The deal slots of one channel.  A dispatcher that has a deal slot in    *)
(* hand (execute_deal_slot) reads what the channel posted lately, gets     *)
(* today's offers from its process's cache or by scraping, ranks them,     *)
(* chooses those of one post, looks whether the page of a single deal is   *)
(* still there, has the post queued, and records the products only then.   *)
(*                                                                         *)
(* A step is what runs between two awaits.  An offer is a card of a search *)
(* page; its title counts by its significant words.  The wording of        *)
(* captions and the shortening of links change no choice and are left out. *)
(***************************************************************************)
EXTENDS FormatMix, Sequences

CONSTANTS
    Platforms,      \* DEAL_PLATFORMS
    Workers,        \* scheduler processes; each works through one slot at a time
    Offers,         \* the cards of the search pages, by marketplace and page: a sequence of
                    \* [platform, category, item, title, words, stated, now, was, image]
    Categories,     \* DEAL_CATEGORIES, a sequence
    Bucket,         \* LOOT_BUCKETS: the heading a category falls under
    AjioSells,      \* the categories with an ajio_kw
    Near,           \* [topics -> sets of categories]: substring matches
    Overlap,        \* [topics -> [categories -> words in common]]
    Slots,          \* the slots each process may come to: [kind, topic, market]
    Preferred,      \* the strategy's primary topics, best first
    Trending,       \* the strategy's trending categories
    LastingWords,   \* at most this many words are too few to tell a product by
    PrefDiscount, MinDiscount, MaxDiscount,   \* DEAL_*_DISCOUNT
    BucketsPerLoot, LinesPerBucket,           \* GRABON_LOOT_BUCKETS, GRABON_LOOT_PER_BUCKET
    CacheTime,      \* _DEAL_CACHE_TTL_SEC
    LinkWindow,     \* DEAL_URL_DEDUP_DAYS
    TitleWindow,    \* DEDUP_WINDOW_DAYS
    Outages,        \* bound: sets of pages, <<marketplace, category>>, that fail together
    LastTick,       \* bound: the last instant
    MostPosts       \* bound: posts queued

Cards == 1 .. Len(Offers)

Labels == {Categories[i] : i \in 1 .. Len(Categories)}

DealsAssumption ==
    /\ Len(Offers) \in Nat /\ Len(Categories) \in Nat /\ Len(Preferred) \in Nat
    /\ \A o \in Cards : /\ Offers[o].category \in Labels
                        /\ Offers[o].stated \in -1 .. 100
                        /\ Offers[o].now \in Nat /\ Offers[o].was \in Nat
                        /\ IsFiniteSet(Offers[o].words)
    /\ \A i, j \in 1 .. Len(Categories) : Categories[i] = Categories[j] => i = j
    /\ Bucket \in [Labels -> Nat]
    /\ AjioSells \subseteq Labels
    /\ \A topic \in DOMAIN Near : Near[topic] \subseteq Labels
    /\ "all" \notin Platforms
    /\ \A w \in Workers : \A slot \in Slots[w] :
        \/ slot.kind = "loot"
        \/ slot.kind = "single" /\ slot.market \in Platforms
    /\ MinDiscount \in Nat /\ PrefDiscount \in Nat /\ MinDiscount =< PrefDiscount
    /\ MaxDiscount \in Nat /\ BucketsPerLoot \in Nat /\ LinesPerBucket \in Nat
    /\ LinkWindow \in Nat /\ TitleWindow \in Nat /\ LinkWindow =< TitleWindow
    /\ CacheTime \in Nat /\ LastTick \in Nat /\ MostPosts \in Nat

VARIABLES
    tick,     \* the clock
    cache,    \* _DEAL_CACHE of each process: what was asked, which pages answered
              \* (the deals follow from both), and when
    goods,    \* content_items: [card, at]
    worker,   \* where each dispatcher is
    posts     \* generated posts, in order, with what their dispatcher knew

dealVars == <<tick, cache, goods, worker, posts>>

NoCache == [key |-> [platforms |-> {}, wanted |-> {}, most |-> 0], up |-> {}, at |-> -1]

Idle == [pc |-> "idle", slot |-> [kind |-> "loot", topic |-> "", market |-> ""], broad |-> FALSE,
         titles |-> {}, links |-> {}, knew |-> {}, pool |-> <<>>, used |-> <<>>, post |-> 0]

DealsInit ==
    /\ tick = 0
    /\ cache = [w \in Workers |-> NoCache]
    /\ goods = {}
    /\ worker = [w \in Workers |-> Idle]
    /\ posts = <<>>

-----------------------------------------------------------------------------
(***************************************************************************)
(* Scraping.                                                               *)
(***************************************************************************)
Of(seq) == {seq[i] : i \in 1 .. Len(seq)}

\* The elements of S by their keys, which differ.
Sorted(S, key) ==
    [i \in 1 .. Cardinality(S) |->
        CHOOSE x \in S : Cardinality({y \in S : key[y] < key[x]}) = i - 1]

\* _discount_pct: what the card says, or what its prices give; 0 for none.
Discount ==
    [o \in Cards |->
        IF Offers[o].stated >= 0 THEN Offers[o].stated
        ELSE IF 0 < Offers[o].now /\ Offers[o].now < Offers[o].was
             THEN Round(100 * (Offers[o].was - Offers[o].now), Offers[o].was)
             ELSE 0]

\* A product name rather than a badge: junk has no words.
IsProduct(o) == Offers[o].words # {}

Readable(o) == IsProduct(o) /\ Discount[o] # 0

\* build_affiliate_link and url_key: the link keeps the product's number or path and none
\* of its query, so offers of one product have one key, whatever page showed them.
LinkKey(o) == <<Offers[o].platform, Offers[o].item>>

CardsOf(platform, c) ==
    {o \in Cards : Offers[o].platform = platform /\ Offers[o].category = c /\ Readable(o)}

FirstFew(S, most) == {o \in S : Cardinality({q \in S : q < o}) < most}

\* A page of Amazon; those of Flipkart and Ajio skip a link they have seen.
AmazonPage(c, most) == FirstFew(CardsOf("Amazon", c), most)

Unseen(S) == {o \in S : ~\E q \in S : q < o /\ LinkKey(q) = LinkKey(o)}

FlipkartPage(c, most) == FirstFew(Unseen(CardsOf("Flipkart", c)), most)

AjioPage(c, most) ==
    IF c \in AjioSells THEN FirstFew(Unseen(CardsOf("Ajio", c)), most) ELSE {}

\* What the pages that answer give.
ScrapedFrom(pages, most) ==
    UNION {IF page[1] = "Amazon" THEN AmazonPage(page[2], most)
           ELSE IF page[1] = "Flipkart" THEN FlipkartPage(page[2], most)
           ELSE IF page[1] = "Ajio" THEN AjioPage(page[2], most)
           ELSE {} : page \in pages}

Place(c) == CHOOSE i \in 1 .. Len(Categories) : Categories[i] = c

\* The discount policy: in each category the great discounts, or else the good ones.
Kept(raw) ==
    LET good == {o \in raw : Discount[o] >= MinDiscount}
        great == {o \in good : Discount[o] >= PrefDiscount}
    IN  great \cup {o \in good : \A q \in great : Offers[q].category # Offers[o].category}

\* Round robin over the categories, the highest discount of each first.
RoundRobin(kept) ==
    LET Ahead(o, q) == Offers[o].category = Offers[q].category
                       /\ (Discount[o] > Discount[q] \/ (Discount[o] = Discount[q] /\ o < q))
        Lap(o) == Cardinality({q \in kept : Ahead(q, o)})
    IN  Sorted(kept, [o \in kept |-> Lap(o) * Len(Categories) + Place(Offers[o].category)])

\* resolve_deal_categories: the category of that name, those with a similar name, the one
\* with most words in common, or none.
Resolved(topic) ==
    IF topic \in Labels THEN {topic}
    ELSE IF topic \notin DOMAIN Near THEN {}
    ELSE IF Near[topic] # {} THEN Near[topic]
    ELSE {c \in Labels :
            /\ Overlap[topic][c] > 0
            /\ \A q \in Labels \ {c} :
                \/ Overlap[topic][q] < Overlap[topic][c]
                \/ Overlap[topic][q] = Overlap[topic][c] /\ Place(c) < Place(q)}

-----------------------------------------------------------------------------
(***************************************************************************)
(* Ranking and choosing.                                                   *)
(***************************************************************************)
IsPlausible(o) ==
    /\ Discount[o] =< MaxDiscount
    /\ Offers[o].now > 0 => Offers[o].was =< 25 * Offers[o].now

\* The score, in ten-thousandths: discount, engagement, trend, image.
Engagement(c) ==
    IF c \in Of(Preferred)
    THEN LET i == CHOOSE j \in 1 .. Len(Preferred) : Preferred[j] = c
         IN  2500 - (2500 * (i - 1)) \div Len(Preferred)
    ELSE 750

ScoreDeal(o) ==
    50 * Discount[o] + Engagement(Offers[o].category)
    + (IF Offers[o].category \in Trending THEN 1500 ELSE 0)
    + (IF Offers[o].image THEN 1000 ELSE 0)

\* rank_deals, which keeps the order of the pool among equals.
Ranked(deals, platforms) ==
    LET places == {i \in 1 .. Len(deals) :
                    IsPlausible(deals[i]) /\ Offers[deals[i]].platform \in platforms}
        order == Sorted(places, [i \in places |-> i - ScoreDeal(deals[i]) * (Len(deals) + 1)])
    IN  [i \in DOMAIN order |-> deals[order[i]]]

\* is_title_dupe: more than one word in common, and three fifths of the shorter title.
SameTitles ==
    {pair \in Cards \X Cards :
        LET common == Cardinality(Offers[pair[1]].words \cap Offers[pair[2]].words)
        IN  /\ common > LastingWords
            /\ \/ 10 * common >= 6 * Cardinality(Offers[pair[1]].words)
               \/ 10 * common >= 6 * Cardinality(Offers[pair[2]].words)}

IsSameTitle(o, q) == <<o, q>> \in SameTitles

\* The order in which a loot post looks at ranked offers: heading by heading.
ByHeading(ranked) ==
    LET order == Sorted(DOMAIN ranked, [i \in DOMAIN ranked |->
                    Bucket[Offers[ranked[i]].category] * (Len(ranked) + 1) + i])
    IN  [i \in DOMAIN ranked |-> ranked[order[i]]]

\* What a line of a loot post shows.
LineText(o) == <<Offers[o].words, Discount[o]>>

\* Variant: one product per link, whatever it looks like.
MayAddAnyLabel(o, used, titles, links) ==
    /\ IsProduct(o)
    /\ \A q \in Of(used) : LinkKey(q) # LinkKey(o)
    /\ \A q \in links : LinkKey(q) # LinkKey(o)
    /\ \A q \in titles : ~IsSameTitle(o, q)

\* An offer that a loot post with these lines may add.
MayAdd(o, used, titles, links) ==
    /\ IsProduct(o)
    /\ \A q \in Of(used) \cup links : LinkKey(q) # LinkKey(o)
    /\ \A q \in Of(used) : LineText(q) # LineText(o)
    /\ \A q \in Of(used) \cup titles : ~IsSameTitle(o, q)

InBucket(used, b) == {o \in Of(used) : Bucket[Offers[o].category] = b}

Headings(used) == {Bucket[Offers[o].category] : o \in Of(used)}

\* The next offer is a line of the post, under a heading it has or may still begin.
WithLine(before, o, titles, links) ==
    LET heading == Bucket[Offers[o].category]
    IN  IF /\ \/ heading \in Headings(before)
              \/ Cardinality(Headings(before)) < BucketsPerLoot
           /\ Cardinality(InBucket(before, heading)) < LinesPerBucket
           /\ MayAdd(o, before, titles, links)
        THEN Append(before, o) ELSE before

\* The lines after each of the offers, which come in the order of headings.
Lines(ranked, titles, links) ==
    LET lines[i \in 0 .. Len(ranked)] ==
            IF i = 0 THEN <<>> ELSE WithLine(lines[i - 1], ranked[i], titles, links)
    IN  lines

\* build_loot_post: all lines, or none if there are fewer than three.
LootPost(ranked, titles, links) ==
    LET lines == Lines(ranked, titles, links)[Len(ranked)]
    IN  IF Len(lines) < 3 THEN <<>> ELSE lines

\* build_single_deal_post: the best that is fresh, and has not the title of one whose page is
\* gone; or none.
SinglePost(ranked, platform, titles, links, gone) ==
    LET fresh == {i \in DOMAIN ranked :
                    /\ Offers[ranked[i]].platform = platform
                    /\ Offers[ranked[i]].title \notin gone
                    /\ IsProduct(ranked[i])
                    /\ \A q \in links : LinkKey(q) # LinkKey(ranked[i])
                    /\ \A q \in titles : ~IsSameTitle(ranked[i], q)}
    IN  IF fresh = {} THEN <<>>
        ELSE <<ranked[CHOOSE i \in fresh : \A j \in fresh : i =< j]>>

\* What get_fresh_deals is asked for: a slot's own deals, or the broad pool.
BroadRequest == [platforms |-> Platforms, wanted |-> {}, most |-> 3]

OwnRequest(slot) == [platforms |-> {slot.market}, wanted |-> Resolved(slot.topic), most |-> 6]

Requests == {BroadRequest} \cup {OwnRequest(slot) : slot \in UNION {Slots[w] : w \in Workers}}

\* The search pages of a request: one of each marketplace for each category.
Pages(r) == r.platforms \X (IF r.wanted = {} THEN Labels ELSE r.wanted)

\* What a scrape gives when some pages answer.
Found(r, up) == RoundRobin(Kept(ScrapedFrom(up, r.most)))

\* The same, best first, for the single deals of a marketplace; or as a loot post takes it.
Rankings ==
    [q \in {<<r, Pages(r) \ down, market>> : r \in Requests, down \in Outages,
                                             market \in Platforms \cup {"all"}} |->
        IF q[3] = "all" THEN ByHeading(Ranked(Found(q[1], q[2]), Platforms))
        ELSE Ranked(Found(q[1], q[2]), {q[3]})]

AnySlot == {Idle.slot} \cup UNION {Slots[w] : w \in Workers}

WorkerRow ==
    [pc : {"idle", "links", "scrape", "check", "queue", "record"}, slot : AnySlot,
     broad : BOOLEAN, titles : SUBSET Cards, links : SUBSET Cards, knew : SUBSET (1 .. MostPosts),
     pool : Seq(Cards), used : Seq(Cards), post : 0 .. MostPosts]

CacheRow ==
    [key : Requests \cup {NoCache.key}, up : SUBSET (Platforms \X Labels), at : -1 .. LastTick]

PostRow ==
    [used : Seq(Cards), slot : AnySlot, at : 0 .. LastTick, knew : SUBSET (1 .. MostPosts),
     recorded : BOOLEAN]

DealsTypeOK ==
    /\ tick \in 0 .. LastTick
    /\ \A g \in goods : g.card \in Cards /\ g.at \in 0 .. tick
    /\ cache \in [Workers -> CacheRow]
    /\ worker \in [Workers -> WorkerRow]
    /\ posts \in Seq(PostRow)
    /\ Len(posts) =< MostPosts

-----------------------------------------------------------------------------
(***************************************************************************)
(* execute_deal_slot.                                                      *)
(***************************************************************************)
Put(w, step) == worker' = [worker EXCEPT ![w] = step]

Recorded == {i \in 1 .. Len(posts) : posts[i].recorded}

\* The fingerprints of the titles of the window; a loot slot takes the whole pool at once.
ReadTitles(w) ==
    /\ worker[w].pc = "idle"
    /\ Len(posts) < MostPosts
    /\ \E slot \in Slots[w] :
        Put(w, [Idle EXCEPT !.pc = "links", !.slot = slot, !.broad = slot.kind = "loot",
                            !.knew = Recorded,
                            !.titles = {g.card : g \in {g \in goods : g.at >= tick - TitleWindow}}])
    /\ UNCHANGED <<tick, cache, goods, posts>>

\* Variant: the window of the links is a day short.
PostedLinksShort == {g.card : g \in {g \in goods : g.at > tick - LinkWindow}}

PostedLinks == {g.card : g \in {g \in goods : g.at >= tick - LinkWindow}}

Request(w) == IF worker[w].broad THEN BroadRequest ELSE OwnRequest(worker[w].slot)

\* Variant: the entry serves any request.
IsCachedForAll(w) ==
    /\ cache[w].at >= 0
    /\ tick - cache[w].at < CacheTime

\* The cache has an answer to the same question that is young enough.
IsCached(w) ==
    /\ cache[w].at >= 0
    /\ cache[w].key = Request(w)
    /\ tick - cache[w].at < CacheTime

\* The post is settled; of what it was chosen from nothing is used again.
Chosen(w, post) ==
    [Idle EXCEPT !.pc = "queue", !.slot = worker[w].slot, !.knew = worker[w].knew, !.used = post]

\* The deals are ranked and the post chosen.  A single slot without one takes the broad pool,
\* which is scraped anew: the one entry of the cache is that of the slot's own deals.  A slot
\* that has had the broad pool is left pending.
Choose(w, it, key, up) ==
    LET loot == it.slot.kind = "loot"
    IN  \E ranked \in {Rankings[<<key, up, IF loot THEN "all" ELSE it.slot.market>>]} :
        \E post \in {IF loot THEN LootPost(ranked, it.titles, it.links)
                     ELSE SinglePost(ranked, it.slot.market, it.titles, it.links, {})} :
            \/ /\ post # <<>>
               /\ Put(w, IF loot THEN Chosen(w, post)
                         ELSE [it EXCEPT !.pc = "check", !.pool = ranked, !.used = post])
            \/ /\ post = <<>>
               /\ Put(w, IF it.broad THEN Idle ELSE [it EXCEPT !.pc = "scrape", !.broad = TRUE])

\* The links of the window, and get_fresh_deals up to its first await: deals of the cache...
ReadLinks(w) ==
    /\ worker[w].pc = "links"
    /\ IF IsCached(w)
       THEN Choose(w, [worker[w] EXCEPT !.links = PostedLinks], cache[w].key, cache[w].up)
       ELSE Put(w, [worker[w] EXCEPT !.pc = "scrape", !.links = PostedLinks])
    /\ UNCHANGED <<tick, cache, goods, posts>>

\* ... or of the marketplaces, some pages of which may not answer; the cache takes what there is,
\* even nothing.
EndScrape(w) ==
    /\ worker[w].pc = "scrape"
    /\ \E down \in Outages :
        LET up == Pages(Request(w)) \ down
        IN  /\ cache' = [cache EXCEPT ![w] = [key |-> Request(w), up |-> up, at |-> tick]]
            /\ Choose(w, worker[w], Request(w), up)
    /\ UNCHANGED <<tick, goods, posts>>

\* is_reachable: the page of a single deal is there, or as good as there...
Reachable(w) ==
    /\ worker[w].pc = "check"
    /\ Put(w, Chosen(w, worker[w].used))
    /\ UNCHANGED <<tick, cache, goods, posts>>

\* ... or gone: the next deal with another title is taken, and not looked at.
Gone(w) ==
    LET it == worker[w]
        post == SinglePost(it.pool, it.slot.market, it.titles, it.links,
                           {Offers[it.used[1]].title})
    IN  /\ it.pc = "check"
        /\ Put(w, IF post = <<>> THEN Idle ELSE Chosen(w, post))
        /\ UNCHANGED <<tick, cache, goods, posts>>

\* add_to_review_queue.
QueuePost(w) ==
    /\ worker[w].pc = "queue"
    /\ Len(posts) < MostPosts
    /\ posts' = Append(posts, [used |-> worker[w].used, slot |-> worker[w].slot, at |-> tick,
                               knew |-> worker[w].knew, recorded |-> FALSE])
    /\ Put(w, [Idle EXCEPT !.pc = "record", !.post = Len(posts) + 1])
    /\ UNCHANGED <<tick, cache, goods>>

\* _record_deal_items, after maybe_auto_publish.
Record(w) ==
    /\ worker[w].pc = "record"
    /\ goods' = goods \cup {[card |-> o, at |-> tick] : o \in Of(posts[worker[w].post].used)}
    /\ posts' = [i \in DOMAIN posts |->
                    [posts[i] EXCEPT !.recorded = @ \/ i = worker[w].post]]
    /\ Put(w, Idle)
    /\ UNCHANGED <<tick, cache>>

\* An exception ends the slot.
Raise(w) ==
    /\ worker[w].pc # "idle"
    /\ Put(w, Idle)
    /\ UNCHANGED <<tick, cache, goods, posts>>

\* The process restarts, and its cache is empty.
Restart(w) ==
    /\ cache' = [cache EXCEPT ![w] = NoCache]
    /\ Put(w, Idle)
    /\ UNCHANGED <<tick, goods, posts>>

Tick ==
    /\ tick < LastTick
    /\ tick' = tick + 1
    /\ UNCHANGED <<cache, goods, worker, posts>>

Execute(w) ==
    \/ ReadTitles(w) \/ ReadLinks(w) \/ EndScrape(w)
    \/ Reachable(w) \/ Gone(w)
    \/ QueuePost(w) \/ Record(w) \/ Raise(w) \/ Restart(w)

DealsNext == (\E w \in Workers : Execute(w)) \/ Tick

DealsSpec == DealsInit /\ [][DealsNext]_dealVars

-----------------------------------------------------------------------------
(***************************************************************************)
(* Correctness.                                                            *)
(***************************************************************************)

\* A post repeats a product of another within the window of links or of titles only if that
\* one was not yet, or never, recorded when the dispatcher of this one began.
NothingKnownIsRepeated ==
    \A i, j \in DOMAIN posts : i < j /\ i \in posts[j].knew =>
        \A o \in Of(posts[i].used), q \in Of(posts[j].used) :
            /\ LinkKey(o) = LinkKey(q) => posts[j].at - posts[i].at > LinkWindow
            /\ IsSameTitle(o, q) => posts[j].at - posts[i].at > TitleWindow

\* A choice of different products that look different, with discounts that are neither small
\* nor a misread price: for a loot post three or more under few headings, and few under each
\* of them, for a single deal one of the slot's marketplace.
IsSound(used, slot) ==
    /\ \A o \in Of(used) : Discount[o] >= MinDiscount /\ IsPlausible(o)
    /\ \A m, n \in DOMAIN used : m # n =>
        /\ LinkKey(used[m]) # LinkKey(used[n])
        /\ LineText(used[m]) # LineText(used[n])
        /\ ~IsSameTitle(used[m], used[n])
    /\ IF slot.kind = "loot"
       THEN /\ Len(used) >= 3 /\ Cardinality(Headings(used)) =< BucketsPerLoot
            /\ \A b \in Headings(used) : Cardinality(InBucket(used, b)) =< LinesPerBucket
       ELSE Len(used) = 1 /\ Offers[used[1]].platform = slot.market

\* The post queued last is sound, and so is every post when it is queued
\* (tools/loot_deals.py:139-245).
PostsAreSound ==
    posts # <<>> => LET post == posts[Len(posts)] IN IsSound(post.used, post.slot)

\* The cache holds one answer for all slots; none is given the deals of another slot's
\* categories or marketplace.
SlotGetsItsCategory ==
    \A w \in Workers :
        LET it == worker[w]
        IN  it.slot.kind = "single" /\ ~it.broad /\ Resolved(it.slot.topic) # {} =>
                \A o \in Of(it.pool) : /\ Offers[o].category \in Resolved(it.slot.topic)
                                       /\ Offers[o].platform = it.slot.market

=============================================================================
