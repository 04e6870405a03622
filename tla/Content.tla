-------------------------------- MODULE Content --------------------------------
(***************************************************************************)
(* The Content Agent and the sources of one channel.  A run gathers items  *)
(* for a slot, drops those whose link was used, scores the others (or, on  *)
(* a deals channel, takes a deal), saves the one it chose, counts its      *)
(* score into the quality of its source, has a post generated and queues   *)
(* it.  Runs are started by the dispatcher, which then marks the slot, or  *)
(* by hand; meanwhile sources are seeded, edited and deleted.              *)
(*                                                                         *)
(* A step is what runs between two database sessions.  A text is the set   *)
(* of its significant words; every behaviour is shorter than the window of *)
(* the search for used links.  The auto-approval of the queued post is     *)
(* part of Publishing.                                                     *)
(***************************************************************************)
EXTENDS Integers, Sequences, FiniteSets, Functions

CONSTANTS
    Writers,        \* runs of the Content Agent
    ByHand,         \* those started with services.run_agent
    Plan,           \* the slots, a sequence of [kind, topic, format]
    Articles,       \* what can be found, a sequence of [feed, url, words, topics, age, views,
                    \* forwards, reactions, hook, safe]; feed "web" is found by discovery,
                    \* "live" by the deal scrapers, and age -1 is unknown
    ChannelTopics,  \* primary_topics of the strategy
    RivalWords,     \* the competitor posts of the week
    Threshold,      \* channels.score_threshold
    TrialScores,    \* a source is judged from this many scores on
    MostRuns,       \* bound: runs begun
    MostTrouble,    \* bound: runs that fail, and edits of the sources
    (* those of Sources *)
    StartSources,   \* the sources of a channel that has been onboarded
    Seeders, FeedType, CategoryFeeds, Clues, Stripped, Skipped, LeadsTo, Precision, MostSources,
    MostEdits

Slot == 1 .. Len(Plan)
Found == 1 .. Len(Articles)

VARIABLES
    dealing,     \* the category is one of _DEALS_CATEGORIES
    items,       \* content_items with their content_scores
    stored,      \* items inserted so far
    written,     \* generated posts, in order
    answered,    \* slots that are no longer pending
    writer,      \* where each run is, and what it has in hand
    begun,       \* runs so far
    troubles,    \* failures so far
    (* history *)
    shared,      \* links that two runs have chosen at a time
    forgotten,   \* links of items deleted with their source
    disturbed,   \* sources whose average two runs worked on, or one did not finish
    loose,       \* slots two dispatchers had in hand, or whose mark failed
    (* of Sources *)
    sources, planted, edits, seeding, oversown

Src == INSTANCE Sources

\* What onboarding leaves is within the bounds and has been scored by nobody.
ContentAssumption ==
    /\ Src!SourcesAssumption
    /\ ByHand \subseteq Writers
    /\ Threshold \in 1 .. 7
    /\ TrialScores \in Nat
    /\ MostRuns \in Nat
    /\ MostTrouble \in Nat
    /\ IsFiniteSet(StartSources)
    /\ Cardinality(StartSources) <= MostSources
    /\ StartSources \subseteq
            [id : 1 .. Cardinality(StartSources), feed : Src!Feeds, own : BOOLEAN,
             seeded : Src!Feeds \cup {"none"}, active : BOOLEAN, avg : Nat, scored : {0}]
    /\ \A s, t \in StartSources : s.id = t.id => s = t

sourceVars == <<sources, planted, edits, seeding, oversown>>
itemVars == <<items, stored, forgotten>>
outputVars == <<written, answered, loose>>
runVars == <<writer, begun, troubles, shared, disturbed>>
contentVars == <<dealing, sourceVars, itemVars, outputVars, runVars>>

Resting == [at |-> "idle", slot |-> 0, seen |-> 0, article |-> 0, source |-> 0, item |-> 0,
            total |-> 0, avg |-> 0, scored |-> 0]

ContentTypeOK ==
    /\ Src!SourcesTypeOK
    /\ dealing \in BOOLEAN
    /\ stored \in 0 .. MostRuns
    /\ \A i \in items : i.id \in 1 .. stored /\ i.article \in Found /\ i.total \in 0 .. 7
    /\ Len(written) <= MostRuns
    /\ answered \subseteq Slot
    /\ \A w \in Writers : writer[w].at \in {"idle", "recycle", "gather", "save", "rate", "weigh",
                                            "update", "queue", "mark"}
    /\ begun \in 0 .. MostRuns
    /\ troubles \in 0 .. MostTrouble

\* The channel is new, or has been onboarded.
ContentInit ==
    /\ dealing \in BOOLEAN
    /\ sources \in {{}, StartSources}
    /\ planted = Cardinality(sources)
    /\ edits = 0
    /\ seeding = {}
    /\ items = {}
    /\ stored = 0
    /\ written = <<>>
    /\ answered = {}
    /\ writer = [w \in Writers |-> Resting]
    /\ begun = 0
    /\ troubles = 0
    /\ shared = {}
    /\ forgotten = {}
    /\ disturbed = {}
    /\ loose = {}
    /\ oversown = FALSE

UrlOf(f) == Articles[f.article].url

-----------------------------------------------------------------------------
(***************************************************************************)
(* The seven signals of an item (score_content_item).                      *)
(***************************************************************************)
Similar(a, b, percent) ==
    a # {} /\ b # {} /\ 100 * Cardinality(a \cap b) > percent * Cardinality(a \cup b)

\* The explicit topics, or those of the channel that the text mentions.
TopicsOf(a) == IF a.topics # {} THEN a.topics ELSE ChannelTopics \cap a.words

OnTopic(a) == Cardinality(ChannelTopics \cap TopicsOf(a))

\* No caller sets "evergreen", so an item is fresh for 48 hours.
Signals(a, recent) ==
    [relevance   |-> OnTopic(a) > 0,
     freshness   |-> a.age <= 48,
     novelty     |-> \A r \in recent : ~Similar(a.words, r, 65),
     goal        |-> ChannelTopics # {} /\ 100 * OnTopic(a) >= 33 * Cardinality(ChannelTopics),
     virality    |-> IF a.views > 0 THEN 5 * (6 * a.forwards + 4 * a.reactions) >= a.views
                                    ELSE a.hook,
     competitors |-> \A r \in RivalWords : ~Similar(a.words, r, 60),
     safety      |-> a.safe]

Total(a, recent) == LET signals == Signals(a, recent)
                    IN Cardinality({s \in DOMAIN signals : signals[s]})

\* Those that pass, by a threshold lower by one if there are none; unsafe ones never do.
Passing(found, recent) ==
    LET From(t) == {f \in found : Articles[f.article].safe
                                  /\ Total(Articles[f.article], recent) >= t}
    IN IF From(Threshold) # {} \/ Threshold = 1 THEN From(Threshold) ELSE From(Threshold - 1)

\* The best of them, in any order if there are several.
Best(found, recent) ==
    LET passing == Passing(found, recent)
    IN {f \in passing : \A g \in passing :
            Total(Articles[g.article], recent) <= Total(Articles[f.article], recent)}

-----------------------------------------------------------------------------
(***************************************************************************)
(* Gathering.                                                              *)
(***************************************************************************)
Active == {s \in sources : s.active}

\* The order of fetch_content_sources: the website, then by quality.
Before(s, t) == IF s.own = t.own THEN s.avg >= t.avg ELSE s.own

FirstSources == {s \in Active : \A t \in Active : Before(s, t)}

\* The deals of the day go to the account of the first source; discovered items have none.
DirectSources ==
    IF dealing /\ Active # {} THEN {s.id : s \in FirstSources} ELSE {0}

Direct(source) ==
    {[article |-> a, source |-> source] :
        a \in {x \in Found : Articles[x].feed = IF dealing THEN "live" ELSE "web"}}

Mentions(a, topic) == topic = "none" \/ topic \in a.words

\* An RSS feed gives what is young and about the topic, the others what they have.
FromSource(s, topic) ==
    {[article |-> a, source |-> s.id] :
        a \in {x \in Found : /\ Articles[x].feed = s.feed
                             /\ FeedType[s.feed] = "rss" =>
                                    Articles[x].age <= 48 /\ Mentions(Articles[x], topic)}}

\* What a run may have fetched: sources are asked only if the search gave nothing, and
\* any of them may fail.
Findings(topic) ==
    {Direct(source) : source \in DirectSources}
        \cup {UNION {FromSource(s, topic) : s \in reached} : reached \in SUBSET Active}

\* Variant: items that were never scored do not count.
UsedScored == {UrlOf(i) : i \in {j \in items : j.total > 0}}

\* The links of check_url_used.
Used == {UrlOf(i) : i \in items}

Unused(found) == {f \in found : UrlOf(f) = "none" \/ UrlOf(f) \notin Used}

\* is_title_dupe.
SameTitle(a, b) ==
    LET common == Cardinality(a \cap b)
        Least(x, y) == IF x < y THEN x ELSE y
    IN common >= 2 /\ 10 * common >= 6 * Least(Cardinality(a), Cardinality(b))

\* Deals with a link and a product that was not posted; one about the topic if there is one.
DealsOf(found, topic) ==
    LET real == {f \in found : /\ UrlOf(f) # "none"
                               /\ \A i \in items : ~SameTitle(Articles[f.article].words,
                                                              Articles[i.article].words)}
        near == {f \in real : topic \in Articles[f.article].words}
    IN IF near # {} THEN near ELSE real

\* The texts of the first n posts, which the run read when it began.
RecentTexts(n) == {written[k].words : k \in 1 .. n}

Choices(found, topic, recent) ==
    IF dealing THEN DealsOf(Unused(found), topic) ELSE Best(Unused(found), recent)

-----------------------------------------------------------------------------
(***************************************************************************)
(* A run.                                                                  *)
(***************************************************************************)
Goto(w, place) == writer' = [writer EXCEPT ![w].at = place]
End(w) == writer' = [writer EXCEPT ![w] = Resting]

\* The dispatcher has pending slots only; a run by hand may be for any.  The texts of
\* the posts are read here.
BeginRun(w) ==
    /\ writer[w].at = "idle"
    /\ begun < MostRuns
    /\ begun' = begun + 1
    /\ \E s \in Slot :
        /\ w \in ByHand \/ s \notin answered
        /\ writer' = [writer EXCEPT ![w].at = IF Plan[s].kind = "recycle" THEN "recycle" ELSE "gather",
                                    ![w].slot = s,
                                    ![w].seen = Len(written)]
        /\ loose' = IF w \notin ByHand /\ \E v \in Writers \ ByHand : writer[v].slot = s
                      THEN loose \cup {s} ELSE loose
    /\ UNCHANGED <<dealing, sourceVars, itemVars, written, answered, troubles, shared, disturbed>>

\* A past post, if the analysis found one: candidates carry no link, so none counts as
\* expired; the post is written without one.
Recycle(w) ==
    /\ writer[w].at = "recycle"
    /\ Goto(w, "queue") \/ Goto(w, "gather")
    /\ UNCHANGED <<dealing, sourceVars, itemVars, outputVars, begun, troubles, shared, disturbed>>

\* Somebody else has chosen the link and not yet saved it.
InHand(w, url) ==
    \E v \in Writers \ {w} : writer[v].at = "save" /\ UrlOf(writer[v]) = url

Take(w, f, recent) ==
    /\ writer' = [writer EXCEPT ![w] = [@ EXCEPT
            !.at = "save", !.article = f.article, !.source = f.source, !.seen = 0,
            !.total = IF dealing THEN 0 ELSE Total(Articles[f.article], recent)]]
    /\ shared' = IF InHand(w, UrlOf(f)) THEN shared \cup {UrlOf(f)} ELSE shared

\* Without a choice a deals channel skips the slot; others get an original post.
Gather(w) ==
    /\ writer[w].at = "gather"
    /\ LET topic == Plan[writer[w].slot].topic
           recent == RecentTexts(writer[w].seen)
       IN \E choices \in {Choices(found, topic, recent) : found \in Findings(topic)} :
            \/ \E f \in choices : Take(w, f, recent)
            \/ /\ choices = {}
               /\ IF dealing THEN End(w) ELSE Goto(w, "queue")
               /\ UNCHANGED shared
    /\ UNCHANGED <<dealing, sourceVars, itemVars, outputVars, begun, troubles, disturbed>>

Kept(item) == item = 0 \/ \E i \in items : i.id = item
Exists(source) == source = 0 \/ \E s \in sources : s.id = source

\* save_content_item; the source may be gone.
Save(w) ==
    /\ writer[w].at = "save"
    /\ Exists(writer[w].source)
    /\ stored' = stored + 1
    /\ items' = items \cup {[id |-> stored + 1, article |-> writer[w].article,
                             source |-> writer[w].source, total |-> 0]}
    /\ writer' = [writer EXCEPT ![w].at = IF dealing THEN "queue" ELSE "rate",
                                ![w].item = stored + 1]
    /\ UNCHANGED <<dealing, sourceVars, forgotten, outputVars, begun, troubles, shared, disturbed>>

\* save_content_score, of an item that may be gone.
Rate(w) ==
    /\ writer[w].at = "rate"
    /\ \E i \in items :
        /\ i.id = writer[w].item
        /\ items' = (items \ {i}) \cup {[i EXCEPT !.total = writer[w].total]}
    /\ Goto(w, IF writer[w].source = 0 THEN "queue" ELSE "weigh")
    /\ UNCHANGED <<dealing, sourceVars, stored, forgotten, outputVars, begun, troubles, shared, disturbed>>

\* Another run is between its read and its commit of the same source.
Contended(w) ==
    \E v \in Writers \ {w} : writer[v].at = "update" /\ writer[v].source = writer[w].source

\* update_source_quality_score reads the row, if it is still there...
Weigh(w) ==
    /\ writer[w].at = "weigh"
    /\ \/ \E s \in sources :
            /\ s.id = writer[w].source
            /\ writer' = [writer EXCEPT ![w].at = "update", ![w].avg = s.avg,
                                        ![w].scored = s.scored]
            /\ disturbed' = IF Contended(w) THEN disturbed \cup {s.id} ELSE disturbed
       \/ ~Exists(writer[w].source) /\ Goto(w, "queue") /\ UNCHANGED disturbed
    /\ UNCHANGED <<dealing, sourceVars, itemVars, outputVars, begun, troubles, shared>>

\* Variant: the old average counts once more.
NewAverageHeavy(avg, scored, total) ==
    (2 * (avg * (scored + 1) + Precision * total) + scored + 1) \div (2 * (scored + 1))

\* (avg * n + score) / (n + 1), rounded.
NewAverage(avg, scored, total) ==
    (2 * (avg * scored + Precision * total) + scored + 1) \div (2 * (scored + 1))

\* ... and writes what it made of it; a source that is below 2.5 after its trial is off.
Update(w) ==
    /\ writer[w].at = "update"
    /\ \E s \in sources :
        /\ s.id = writer[w].source
        /\ LET avg == NewAverage(writer[w].avg, writer[w].scored, writer[w].total)
               scored == writer[w].scored + 1
               poor == 2 * avg < 5 * Precision /\ scored >= TrialScores
           IN sources' = (sources \ {s}) \cup
                {[s EXCEPT !.avg = avg, !.scored = scored, !.active = @ /\ ~poor]}
    /\ writer' = [writer EXCEPT ![w].at = "queue", ![w].avg = 0, ![w].scored = 0]
    /\ UNCHANGED <<dealing, planted, edits, seeding, oversown, itemVars, outputVars, begun, troubles,
                   shared, disturbed>>

\* A poll carries no link, and neither does a post without an item.
HasLink(w) ==
    /\ writer[w].article # 0
    /\ UrlOf(writer[w]) # "none"
    /\ Plan[writer[w].slot].format # "poll"

\* The text the model writes has the words of its source.
TextOf(w) == IF writer[w].article = 0 THEN {} ELSE Articles[writer[w].article].words

\* generate_post or generate_original_post, and add_to_review_queue, whose row refers to
\* the item.
Queue(w) ==
    /\ writer[w].at = "queue"
    /\ dealing /\ writer[w].article # 0 => HasLink(w)
    /\ Kept(writer[w].item)
    /\ written' = Append(written,
            [slot |-> writer[w].slot, words |-> TextOf(w), byHand |-> w \in ByHand,
             url |-> IF writer[w].article = 0 THEN "none" ELSE UrlOf(writer[w])])
    /\ IF w \in ByHand THEN End(w)
       ELSE writer' = [writer EXCEPT ![w] = [Resting EXCEPT !.at = "mark", !.slot = writer[w].slot]]
    /\ UNCHANGED <<dealing, sourceVars, itemVars, answered, loose, begun, troubles, shared, disturbed>>

\* A deal whose post came out without a link is dropped.
Drop(w) ==
    /\ writer[w].at = "queue"
    /\ dealing /\ writer[w].article # 0 /\ ~HasLink(w)
    /\ End(w)
    /\ UNCHANGED <<dealing, sourceVars, itemVars, outputVars, begun, troubles, shared, disturbed>>

\* Variant: recycled slots stay pending.
AnsweredIfTopical(s) == IF Plan[s].kind = "recycle" THEN {} ELSE {s}

Answered(s) == {s}

\* mark_task_generated, by the dispatcher.
Mark(w) ==
    /\ writer[w].at = "mark"
    /\ answered' = answered \cup Answered(writer[w].slot)
    /\ End(w)
    /\ UNCHANGED <<dealing, sourceVars, itemVars, written, loose, begun, troubles, shared, disturbed>>

\* What its next write refers to has been deleted.
Dangling(w) ==
    \/ writer[w].at \in {"save", "update"} /\ ~Exists(writer[w].source)
    \/ writer[w].at \in {"rate", "queue"} /\ ~Kept(writer[w].item)

\* The run ends with an exception or a restart.  Its item stays used, and the score may
\* not have been counted.
Fail(w) ==
    /\ writer[w].at # "idle"
    /\ IF Dangling(w) THEN UNCHANGED troubles ELSE troubles + edits < MostTrouble /\ troubles' = troubles + 1
    /\ End(w)
    /\ disturbed' = IF writer[w].at \in {"weigh", "update"} THEN disturbed \cup {writer[w].source}
                    ELSE disturbed
    /\ loose' = IF writer[w].at = "mark" THEN loose \cup {writer[w].slot} ELSE loose
    /\ UNCHANGED <<dealing, sourceVars, itemVars, written, answered, begun, shared>>

-----------------------------------------------------------------------------
\* The items of the source are deleted with it: the cascade of the ORM comes before the
\* SET NULL of the foreign key.
Delete(s) ==
    /\ Src!Delete(s)
    /\ LET gone == {i \in items : i.source = s.id}
       IN /\ items' = items \ gone
          /\ forgotten' = forgotten \cup {UrlOf(i) : i \in gone}
    /\ UNCHANGED <<dealing, stored, outputVars, runVars>>

-----------------------------------------------------------------------------
WriterStep(w) ==
    \/ BeginRun(w)
    \/ Recycle(w)
    \/ Gather(w)
    \/ Save(w)
    \/ Rate(w)
    \/ Weigh(w)
    \/ Update(w)
    \/ Queue(w)
    \/ Drop(w)
    \/ Mark(w)
    \/ Fail(w)

SourceStep ==
    /\ \/ Src!ChangeSources /\ UNCHANGED <<dealing, itemVars, outputVars, runVars>>
       \/ \E s \in sources : Delete(s)
    /\ troubles + edits' <= MostTrouble

ContentNext ==
    \/ \E w \in Writers : WriterStep(w)
    \/ SourceStep

ContentSpec == ContentInit /\ [][ContentNext]_contentVars

-----------------------------------------------------------------------------
(***************************************************************************)
(* Properties.                                                             *)
(***************************************************************************)

\* Whoever runs the agent, over however many sources an article comes in and whatever
\* fails on the way, its link is posted once, unless two runs chose it at a time (it is
\* looked up before and saved after the choice) or its record went with a deleted source
\* (agents/content_intelligence.py:119-124).
ArticleUsedOnce ==
    \A j, k \in 1 .. Len(written) :
        j # k /\ written[j].url # "none" /\ written[j].url = written[k].url =>
            written[j].url \in shared \cup forgotten

ScoresOf(s) == {i \in items : i.source = s.id /\ i.total > 0}

\* Runs that have saved the score of an item and not yet counted it.
Uncounted(s) ==
    {writer[w].item : w \in {v \in Writers : writer[v].at \in {"weigh", "update"}
                                             /\ writer[v].source = s.id}}

SumOf(S) == SumFunctionOnSet([i \in S |-> i.total], S)

\* The quality of a source is the mean of the scores stored for its items, up to the
\* rounding of each step, unless two runs worked on it at a time or one ended before it
\* had counted its score (tools/content.py:194-198, 649-663).
AverageIsOfScores ==
    \A s \in sources :
        s.id \notin disturbed =>
            LET counted == {i \in ScoresOf(s) : i.id \notin Uncounted(s)}
                n == Cardinality(counted)
                drift == s.avg * n - Precision * SumOf(counted)
            IN /\ s.scored = n
               /\ n > 0 => /\ 4 * drift <= n * (n + 1)
                           /\ -4 * drift <= n * (n + 1)

\* The dispatcher answers a slot with one post: runs by hand in between, which do not
\* mark the slot, give it no second try (scheduler/jobs.py:320-331, api/services.py:616-622).
SlotAnsweredOnce ==
    \A s \in Slot \ loose :
        Cardinality({k \in 1 .. Len(written) : written[k].slot = s /\ ~written[k].byHand}) <= 1
=============================================================================
