----------------------------- MODULE MCWorkspace -----------------------------
\* Instances of WorkspaceParts, one run for all of them.
EXTENDS WorkspaceParts, TLC

CONSTANTS
    daily, weekly, onboard, h1, b1, b2, k, p1, p2, r1, r2, c1, c2

ByName(a) ==
    CASE a = daily   -> "daily"
      [] a = onboard -> "onboard"
      [] OTHER       -> "weekly"

MCRunKind == [a \in Runs |-> ByName(a)]

MCSymmetry == Permutations({r1, r2}) \cup Permutations({c1, c2})

\* Of the runs of the competitor agent and the refreshes, two at a time.
MCAtATime ==
    Cardinality({a \in Agents : Active(a)}) + Cardinality({c \in Refreshers : listedRivals[c] # {}})
        <= 2

MCKey == [b \in Brands |-> IF b = b1 THEN k ELSE h1]
MCStrength == [n \in Handles \cup {k} |-> CASE n = h1 -> 1 [] n = k -> 2 [] OTHER -> 3]

\* What the Strategy Agent may read: content channels that differ in cadence and trouble, those
\* that differ in formats and rates, and deals channels.
Share(a, n, b) == [f \in {a, b} |-> IF f = a THEN n ELSE 10 - n]
Three(a, m, b, n, c) == [f \in {a, b, c} |-> IF f = a THEN m ELSE IF f = b THEN n ELSE 20 - m - n]
Rate(a, m, b, n) == [f \in {a, b} |-> IF f = a THEN m ELSE n]
Only(a) == [f \in {a} |-> 10]

Topics(n) == SubSeq(<<"t1", "t2", "t3", "t4", "t5", "t6", "t7", "t8">>, 1, n)

\* What an LLM may answer: topics in another order, some the channel has not and more than it
\* has, two, and one.
MCTopicLists ==
    {<<"t2", "t9", "t1", "t10", "t11", "t12", "t8", "t6", "t5">>, <<"t3", "t1">>, <<"t9">>}

Trouble == {<<-1000, FALSE, FALSE>>, <<-30, TRUE, TRUE>>, <<-10, FALSE, TRUE>>,
            <<-1, FALSE, TRUE>>, <<120, FALSE, FALSE>>}

Input(deals, frequency, trouble, er, shares, erBy, rivalEr, best, topics, silent, proven, days,
      target) ==
    [deals |-> deals, frequency |-> frequency, delta |-> trouble[1], churn |-> trouble[2],
     lost |-> trouble[3], er |-> er, shares |-> shares, erBy |-> erBy, rivalEr |-> rivalEr,
     best |-> best, topics |-> Topics(topics), silent |-> silent, proven |-> proven,
     days |-> days, target |-> target]

MCInputs ==
    {Input(FALSE, frequency, trouble, 10, <<>>, <<>>, -1000, best, n, silent, proven, days, 0) :
        frequency \in {0, 25, 48}, trouble \in Trouble, best \in {-1000, 15, 18},
        n \in {1, 4}, silent \in BOOLEAN, proven \in {0, 3}, days \in {1, 7}}
    \cup
    {Input(FALSE, 34, <<0, FALSE, FALSE>>, er, shares, erBy, rivalEr, 9, 4, FALSE, 1, 7, 0) :
        er \in {-1000, 0, 10, 25, 50, 90}, rivalEr \in {-1000, 20, 100},
        shares \in {<<>>, Only("text"), Only("video"), Share("text", 9, "link"),
                     Share("article", 6, "poll"), Share("meme", 5, "photo"),
                     Three("text", 16, "link", 3, "article"), Three("photo", 1, "link", 6, "text"),
                     [f \in {"poll", "photo", "text"} |-> 3]},
        erBy \in {<<>>, Rate("text", 80, "photo", 20), Rate("text", 5, "photo", 140),
                   Rate("poll", 60, "link", 0), Rate("text", 140, "photo", 1)}}
    \cup
    {Input(TRUE, 60, trouble, 10, Only("photo"), <<>>, -1000, -1000, n, TRUE, 3, 1, target) :
        trouble \in {<<-30, TRUE, TRUE>>, <<0, FALSE, FALSE>>}, n \in {1, 8},
        target \in {0, 1, 2, 3, 5, 7, 10, 25, 60}}

\* Cards: platform, category, product, words, stated discount, prices, and whether there is an
\* image.  Products that look the same have titles of their own.
Card(platform, category, item, words, stated, now, was, image) ==
    [platform |-> platform, category |-> category, item |-> item,
     title |-> <<item, words>>, words |-> words,
     stated |-> stated, now |-> now, was |-> was, image |-> image]

\* One product under two headings, one sold on both marketplaces, brands that look the same,
\* a badge, a misread price, and a discount below the floor.
MCOffers == <<
    Card("Amazon", "Watches", 1, {"titan", "neo", "quartz"}, -1, 100, 500, TRUE),
    Card("Amazon", "Watches", 2, {"cosco", "ball"}, -1, 100, 2600, TRUE),
    Card("Amazon", "Watches", 3, {"casio", "retro"}, -1, 50, 100, TRUE),
    Card("Amazon", "Jewellery", 1, {"titan", "neo"}, -1, 100, 600, TRUE),
    Card("Amazon", "Sports", 4, {"nivia", "storm"}, -1, 300, 1000, TRUE),
    Card("Flipkart", "Watches", 5, {"titan", "neo", "steel"}, 80, 100, 500, TRUE),
    Card("Flipkart", "Watches", 6, {}, 90, 100, 1000, TRUE),
    Card("Flipkart", "Sports", 7, {"dervin"}, 70, 300, 1000, FALSE),
    Card("Flipkart", "Sports", 8, {"dervin"}, 70, 240, 800, TRUE),
    Card("Ajio", "Jewellery", 9, {"zaveri", "pearls"}, 85, 300, 2000, TRUE)>>

MCCategories == <<"Watches", "Jewellery", "Sports">>
MCBucket == [c \in {"Watches", "Jewellery", "Sports"} |-> IF c = "Sports" THEN 2 ELSE 1]
MCNear == [t \in {"watch", "outdoor"} |-> IF t = "watch" THEN {"Watches"} ELSE {}]
MCOverlap == [t \in {"outdoor"} |-> [c \in {"Watches", "Jewellery", "Sports"} |->
                                        IF c = "Sports" THEN 1 ELSE 0]]
MCSlots == [w \in Workers |->
    IF w = p1 THEN {[kind |-> "single", topic |-> "outdoor", market |-> "Flipkart"]}
    ELSE {[kind |-> "loot", topic |-> "", market |-> ""]}]

\* All pages answer, or one only.
MCOutages == {{}, (Platforms \X Of(MCCategories)) \ {<<"Flipkart", "Watches">>}}
MCPreferred == <<"Sports", "Watches">>

MCFeedType == [f \in {"blog", "site", "shop"} |-> IF f = "blog" THEN "rss" ELSE "website"]

\* A bio that names the site, posts that link to it twice or once, and short links only; the
\* shop is a default feed too.
MCClues ==
    {[bio |-> <<"t.me", "site">>, links |-> <<>>],
     [bio |-> <<>>, links |-> <<"shop", "www.site", "short", "site">>],
     [bio |-> <<"t.me">>, links |-> <<"site", "t.me", "dead", "short">>],
     [bio |-> <<>>, links |-> <<"t.me", "dead">>]}

MCStripped == [h \in {"t.me", "site", "www.site", "shop", "short", "dead"} |->
                IF h = "www.site" THEN "site" ELSE h]
MCLeadsTo == [h \in {"short", "dead"} |-> IF h = "short" THEN "shop" ELSE "none"]

ASSUME
    /\ GrowthAssumption
    /\ CompetitorsAssumption
    /\ PlanningAssumption
    /\ SettingsFit
    /\ SettingsAlternate
    /\ DealsAssumption
    /\ SourcesAssumption
    /\ TenancyAssumption
=============================================================================
