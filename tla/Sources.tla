-------------------------------- MODULE Sources --------------------------------
(***************************************************************************)
(* The content sources of one channel: they are seeded by onboarding and   *)
(* by hand, with the channel's website and the feeds of its category, and  *)
(* then added, edited and deleted by the operator.  What the Content Agent *)
(* does with them is in Content.                                           *)
(***************************************************************************)
EXTENDS Integers, Sequences, FiniteSets

CONSTANTS
    Seeders,        \* onboarding runs and calls of the seed endpoint
    FeedType,       \* [addresses -> {"rss", "website", "telegram_channel"}]
    CategoryFeeds,  \* DEFAULT_FEEDS_BY_CATEGORY of the channel's category
    Clues,          \* what a seeder may read of the channel: [bio, links], sequences of hosts
    Stripped,       \* [hosts -> hosts]: without the w's and dots they begin with
    Skipped,        \* _SKIP_DOMAINS, the shorteners among them
    LeadsTo,        \* [shorteners -> hosts]: where a short link leads; "none" if it does not
    Precision,      \* averages are kept in units of 1/Precision
    MostSources,    \* bound: sources inserted
    MostEdits       \* bound: operations of the operator

Feeds == DOMAIN FeedType
Shorteners == DOMAIN LeadsTo

VARIABLES
    sources,     \* content_sources
    planted,     \* sources inserted so far; their number is their id
    edits,       \* operations of the operator so far
    seeding,     \* seeders that found no source and look for the website
    oversown     \* history: two seeders have been at work at a time

seedVars == <<sources, planted, edits, seeding, oversown>>

SourcesTypeOK ==
    /\ \A s \in sources : s.id \in 1 .. planted /\ s.feed \in Feeds /\ s.active \in BOOLEAN
    /\ planted \in 0 .. MostSources
    /\ edits \in 0 .. MostEdits
    /\ seeding \subseteq Seeders

SourcesInit ==
    /\ sources = {}
    /\ planted = 0
    /\ edits = 0
    /\ seeding = {}
    /\ oversown = FALSE

-----------------------------------------------------------------------------
(***************************************************************************)
(* The channel's website: the first site its bio names, the site its posts *)
(* link to most if that is twice or more, or the site behind a short link. *)
(***************************************************************************)
IsSite(host) == Stripped[host] \notin Skipped

\* The first host of a sequence that is good, or "none".
FirstHost(hosts, Good(_)) ==
    LET good == {i \in DOMAIN hosts : Good(hosts[i])}
    IN IF good = {} THEN "none" ELSE hosts[CHOOSE i \in good : \A j \in good : i <= j]

BioSite(bio) == FirstHost(bio, IsSite)

LinkCount(links, host) == Cardinality({i \in DOMAIN links : Stripped[links[i]] = host})

MostLinked(links) ==
    LET hosts == [i \in DOMAIN links |-> Stripped[links[i]]]
        Leads(h) == h \notin Skipped /\ \A i \in DOMAIN hosts :
                        hosts[i] \notin Skipped => LinkCount(links, hosts[i]) <= LinkCount(links, h)
    IN FirstHost(hosts, Leads)

ShortenedSite(links) ==
    LET Found(h) == /\ Stripped[h] \in Shorteners
                    /\ LeadsTo[Stripped[h]] \notin Skipped \cup {"none"}
        short == FirstHost(links, Found)
    IN IF short = "none" THEN "none" ELSE LeadsTo[Stripped[short]]

PostsSite(links) ==
    LET top == MostLinked(links)
    IN IF top # "none" /\ LinkCount(links, top) >= 2 THEN top ELSE ShortenedSite(links)

Website(clue) == IF BioSite(clue.bio) # "none" THEN BioSite(clue.bio) ELSE PostsSite(clue.links)

\* A website may be one of the default feeds, as GrabOn's is.
SourcesAssumption ==
    /\ "none" \notin Feeds
    /\ CategoryFeeds \subseteq Feeds
    /\ IsFiniteSet(CategoryFeeds)
    /\ Shorteners \subseteq Skipped
    /\ \A clue \in Clues : Website(clue) \in Feeds \cup {"none"}
    /\ Precision \in Nat \ {0}
    /\ MostSources \in Nat
    /\ MostEdits \in Nat

-----------------------------------------------------------------------------
\* A row; a seeded one remembers what it was made for.
NewSource(n, feed, seeded) ==
    [id |-> n, feed |-> feed, own |-> FALSE, seeded |-> seeded, active |-> TRUE, avg |-> 0,
     scored |-> 0]

\* The website begins with _WEBSITE_INITIAL_SCORE.
OwnSource(n, site) ==
    [id |-> n, feed |-> site, own |-> TRUE, seeded |-> site, active |-> TRUE,
     avg |-> 5 * Precision, scored |-> 0]

\* Variant: sources that are off do not count.
PresentIfActive == {s \in sources : s.active}

\* What seed_default_sources looks at.
Present == sources

SeedCheck(o) ==
    /\ o \notin seeding
    /\ Present = {}
    /\ seeding' = seeding \cup {o}
    /\ oversown' = (oversown \/ seeding # {})
    /\ UNCHANGED <<sources, planted, edits>>

\* The rows of a seeding, the website first, the feeds numbered in any order.
SeedRows(site) ==
    LET first == IF site = "none" THEN planted ELSE planted + 1
        n == Cardinality(CategoryFeeds)
        own == IF site = "none" THEN {} ELSE {OwnSource(first, site)}
        Orders == {q \in [1 .. n -> CategoryFeeds] : \A f \in CategoryFeeds : \E i \in 1 .. n : q[i] = f}
    IN {own \cup {NewSource(first + i, q[i], q[i]) : i \in 1 .. n} : q \in Orders}

SeedInsert(o) ==
    /\ o \in seeding
    /\ \E clue \in Clues : \E rows \in SeedRows(Website(clue)) :
        /\ planted + Cardinality(rows) <= MostSources
        /\ planted' = planted + Cardinality(rows)
        /\ sources' = sources \cup rows
    /\ seeding' = seeding \ {o}
    /\ UNCHANGED <<edits, oversown>>

\* A failure, or a restart.
SeedFails(o) ==
    /\ o \in seeding
    /\ seeding' = seeding \ {o}
    /\ UNCHANGED <<sources, planted, edits, oversown>>

\* One more operation of the operator that changes something.
Operate ==
    /\ edits < MostEdits
    /\ edits' = edits + 1

Add(feed) ==
    /\ Operate
    /\ planted < MostSources
    /\ planted' = planted + 1
    /\ sources' = sources \cup {NewSource(planted + 1, feed, "none")}
    /\ UNCHANGED <<seeding, oversown>>

\* On or off, or another address.
Edit(s, active, feed) ==
    /\ IF active = s.active /\ feed = s.feed THEN UNCHANGED edits ELSE Operate
    /\ sources' = (sources \ {s}) \cup {[s EXCEPT !.active = active, !.feed = feed]}
    /\ UNCHANGED <<planted, seeding, oversown>>

Delete(s) ==
    /\ Operate
    /\ sources' = sources \ {s}
    /\ UNCHANGED <<planted, seeding, oversown>>

-----------------------------------------------------------------------------
SeederStep(o) ==
    \/ SeedCheck(o)
    \/ SeedInsert(o)
    \/ SeedFails(o)

\* Everything but a deletion.
ChangeSources ==
    \/ \E o \in Seeders : SeederStep(o)
    \/ \E feed \in Feeds : Add(feed)
    \/ \E s \in sources, active \in BOOLEAN, feed \in Feeds : Edit(s, active, feed)

SourcesNext ==
    \/ ChangeSources
    \/ \E s \in sources : Delete(s)

SourcesSpec == SourcesInit /\ [][SourcesNext]_seedVars

-----------------------------------------------------------------------------
(***************************************************************************)
(* Properties.                                                             *)
(***************************************************************************)

\* A channel's website is there once and so is each default feed, however often it is onboarded
\* or seeded and whatever the operator does to its sources, unless two seedings overlap: the
\* look for sources and their insertion are separate sessions, with the search for the website
\* in between.  A website that is a default feed as well is there as both, for the insertion
\* does not compare them (tools/content_sources.py:172-211).
FeedsAreSeededOnce ==
    ~oversown =>
        \A s, t \in sources : s.seeded # "none" /\ s.seeded = t.seeded /\ s.own = t.own => s = t
=============================================================================
