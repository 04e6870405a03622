------------------------------- MODULE MCAgents -------------------------------
\* Instances of AgentParts: what the Content Agent can find, and the sources it has.
EXTENDS MCAgentRuns, AgentParts

CONSTANTS p1, p2

\* What can be found: one article in two places, a page of the channel about what rivals
\* have had, a deal and its copy.
Article(feed, url, words, topics, age, hook) ==
    [feed |-> feed, url |-> url, words |-> words, topics |-> topics, age |-> age, views |-> 0,
     forwards |-> 0, reactions |-> 0, hook |-> hook, safe |-> TRUE]

MCArticles == <<
    Article("web", "u1", {"free", "course"}, {"ai"}, -1, TRUE),
    Article("blog", "u1", {"ai", "free", "course"}, {}, 5, TRUE),
    Article("site", "u3", {"free", "course"}, {}, -1, FALSE),
    Article("live", "u4", {"titan", "neo", "watch"}, {}, -1, FALSE),
    Article("live", "u5", {"titan", "neo", "steel"}, {}, -1, FALSE)>>

MCPlan == <<[kind |-> "recycle", topic |-> "ai", format |-> "text"],
            [kind |-> "topical", topic |-> "neo", format |-> "poll"]>>

MCRivalWords == {{"free", "course"}}

\* The channel's website and a feed.
MCFeedType == [f \in {"blog", "site"} |-> IF f = "blog" THEN "rss" ELSE "website"]

MCStartSources ==
    {[id |-> n, feed |-> IF n = 1 THEN "site" ELSE "blog", own |-> n = 1,
      seeded |-> IF n = 1 THEN "site" ELSE "blog", active |-> TRUE,
      avg |-> IF n = 1 THEN 50000 ELSE 0, scored |-> 0] : n \in 1 .. 2}

\* The channel has been onboarded: no seeding is under way.
MCStripped == <<>>
MCLeadsTo == <<>>

ASSUME ContentAssumption
=============================================================================
