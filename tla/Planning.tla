------------------------------- MODULE Planning -------------------------------
(***************************************************************************)
(* How the Strategy Agent makes a plan: it reads what is known of the      *)
(* channel, infers cadence and mix, lays out the slots of the period,      *)
(* gives some of them to retention triggers and recycled posts, and gives  *)
(* the others their topics, once by rule and once more by the ranking of   *)
(* an LLM.  The steps work on one list of slots, each on what the one      *)
(* before has left.                                                        *)
(*                                                                         *)
(* Rates and frequencies are in tenths, shares of formats in any unit;     *)
(* times are minutes of a day.                                             *)
(***************************************************************************)
EXTENDS FormatMix, Sequences

CONSTANTS
    Inputs,          \* what load_strategy_inputs may return
    TopicLists,      \* the lists of categories an LLM may answer with
    LootPerDay, SinglePerDay, AmazonPerDay, FlipkartPerDay,   \* settings GRABON_...
    StartHour, EndHour,       \* the hours deals are posted in
    LeadMinutes,     \* CONTENT_GENERATION_LEAD_MIN
    DispatchMinutes, \* CONTENT_DISPATCH_INTERVAL_MIN
    ZoneOffset       \* of SCHEDULER_TIMEZONE, in minutes

\* What is not known; no rate or change has this value.
None == -1000

\* Before anything is read.
NoInputs ==
    [deals |-> FALSE, frequency |-> 0, delta |-> None, churn |-> FALSE, lost |-> FALSE,
     er |-> None, shares |-> <<>>, erBy |-> <<>>, rivalEr |-> None, best |-> None,
     topics |-> <<"general">>, silent |-> FALSE, proven |-> 0, days |-> 1, target |-> 0]

\* A list of topics, best first, of which none is there twice.
IsRanking(ranked) ==
    /\ ranked \in Seq(STRING) /\ Len(ranked) >= 1
    /\ \A r, q \in DOMAIN ranked : ranked[r] = ranked[q] => r = q

PlanningAssumption ==
    /\ {LootPerDay, SinglePerDay, AmazonPerDay, FlipkartPerDay} \subseteq Nat
    /\ StartHour \in 0 .. EndHour /\ EndHour \in 0 .. 23
    /\ LeadMinutes \in Nat /\ DispatchMinutes \in Nat \ {0}
    /\ ZoneOffset \in Nat
    /\ \A in \in Inputs :
          /\ DOMAIN in = DOMAIN NoInputs
          /\ {in.deals, in.churn, in.lost, in.silent} \subseteq BOOLEAN
          /\ in.frequency \in Nat /\ in.proven \in Nat /\ in.target \in Nat
          /\ {in.delta, in.best} \subseteq Int
          /\ in.churn => in.delta # None      \* the signal is computed from the change
          /\ in.er \in Int /\ DOMAIN in.erBy \subseteq Formats
          /\ \A f \in DOMAIN in.erBy : in.erBy[f] \in Nat
          /\ DOMAIN in.shares \subseteq Formats
          /\ Cardinality(DOMAIN in.shares) <= 3          \* the profile keeps the first three
          /\ \A f \in DOMAIN in.shares : in.shares[f] \in Nat \ {0}
          /\ in.days \in {1, 7, 30}
          /\ IsRanking(in.topics)
    /\ \A ranked \in TopicLists : IsRanking(ranked)

VARIABLES
    stage,       \* how far the agent is
    inputs,      \* what it has read
    cadence,     \* slots a day
    mix,         \* content_mix
    tasks,       \* the slots, in order
    pledged      \* retention_plan: the triggers the payload announces

planningVars == <<stage, inputs, cadence, mix, tasks, pledged>>

Stages == {"idle", "read", "inferred", "laid out", "retained", "recycled", "reasoned", "saved"}
Triggers == {"reengage", "challenge", "series", "cliffhanger", "weekly"}

PlanningTypeOK ==
    /\ stage \in Stages
    /\ DOMAIN inputs = DOMAIN NoInputs
    /\ cadence \in Nat
    /\ DOMAIN mix \subseteq Formats
    /\ \A i \in DOMAIN tasks :
          /\ tasks[i].day \in 0 .. 29 /\ tasks[i].at \in 0 .. 1439
          /\ tasks[i].format \in Formats
          /\ tasks[i].kind \in Triggers \cup {"none", "recycle", "loot", "single"}
    /\ pledged \in Seq(Triggers)

PlanningInit ==
    /\ stage = "idle"
    /\ inputs = NoInputs
    /\ cadence = 0
    /\ mix = <<>>
    /\ tasks = <<>>
    /\ pledged = <<>>

Go(from, to) == stage = from /\ stage' = to

\* load_strategy_inputs
Read ==
    /\ Go("idle", "read")
    /\ inputs' \in Inputs
    /\ UNCHANGED <<cadence, mix, tasks, pledged>>

-----------------------------------------------------------------------------
(***************************************************************************)
(* Cadence and mix.                                                        *)
(***************************************************************************)

Declining(in) == in.churn \/ in.lost

\* recommended_frequency
Frequency(in) ==
    LET base    == IF in.frequency = 0 THEN 10 ELSE in.frequency
        boost   == IF in.delta > 100 THEN 10 ELSE IF in.delta > 50 THEN 5 ELSE 0
        penalty == IF in.er \in 0 .. 14 THEN 5 ELSE 0
        cut     == IF Declining(in) THEN 10 ELSE 0
    IN  AtLeast(AtMost(base + boost - penalty - cut, 50), 10)

\* The format of the highest rate.
TopFormat(erBy) == CHOOSE f \in DOMAIN erBy : \A g \in DOMAIN erBy : erBy[g] <= erBy[f]

Behind(in) == in.rivalEr # None /\ in.er # None /\ in.rivalEr > in.er

\* The mix leans to the best format where rivals are ahead, or where nothing is known of
\* them and the format is above the channel's average.
IsBoosted(in) ==
    /\ DOMAIN in.erBy # {}
    /\ Behind(in) \/ (in.rivalEr = None /\ in.erBy[TopFormat(in.erBy)] > AtLeast(in.er, 0))

MixOf(in) ==
    LET content == ContentMix(in.shares, in.erBy, in.er)
    IN  IF in.deals THEN DealsMix
        ELSE IF IsBoosted(in) THEN Boosted(content, TopFormat(in.erBy)) ELSE content

\* compute_strategy up to the profile
Infer ==
    /\ Go("read", "inferred")
    /\ cadence' = AtLeast(Round(Frequency(inputs), 10), 1)
    /\ mix' = MixOf(inputs)
    /\ UNCHANGED <<inputs, tasks, pledged>>

-----------------------------------------------------------------------------
(***************************************************************************)
(* The slots of a content channel: the best hours of every day.            *)
(***************************************************************************)

Hours == 0 .. 23
Distance(g, h) == IF g < h THEN h - g ELSE g - h
SlotMinGap == 3

\* utc_hour_to_local
LocalHour(h) ==
    LET minutes == h * 60 + ZoneOffset
    IN  ((minutes \div 60) + (IF minutes % 60 >= 30 THEN 1 ELSE 0)) % 24

\* _hour_scores without rates by hour, which nothing supplies: the nearer to the peak the
\* better, around the clock.
Score(h, peak) == 12 - AtMost(Distance(h, peak), 24 - Distance(h, peak))

Better(g, h, peak) == Score(g, peak) > Score(h, peak) \/ (Score(g, peak) = Score(h, peak) /\ g < h)

\* greedy_select_slots
BestHours(n, peak) ==
    LET chosen[i \in 0 .. n] ==
            IF i = 0 THEN {}
            ELSE LET before == chosen[i - 1]
                     free == {h \in Hours : \A g \in before : Distance(g, h) >= SlotMinGap}
                 IN  before \cup {h \in free : \A g \in free \ {h} : Better(h, g, peak)}
    IN  chosen[n]

Ascending(S) ==
    [i \in 1 .. Cardinality(S) |-> CHOOSE x \in S : Cardinality({y \in S : y < x}) = i - 1]

Slot(day, at, kind, format) ==
    [day |-> day, at |-> at, scrape |-> None, kind |-> kind, format |-> format,
     topic |-> "none", market |-> "none"]

\* _build_curated_plan
CuratedPlan(in, perDay, cycle) ==
    LET peak  == IF in.best = None THEN 18 ELSE LocalHour(in.best)
        hours == Ascending(BestHours(perDay, peak))
        n     == Len(hours)
    IN  [i \in 1 .. in.days * n |->
            Slot((i - 1) \div n, hours[((i - 1) % n) + 1] * 60, "none",
                 cycle[((i - 1) % Len(cycle)) + 1])]

-----------------------------------------------------------------------------
(***************************************************************************)
(* The slots of a deals channel, spread over the posting window of one day *)
(***************************************************************************)

\* A split of n in the ratio a to b.
Scaled(n, a, b) == AtMost(Round(n * a, AtLeast(a + b, 1)), n)

\* _scale_deal_counts, or the configured counts where the organisation has no target.
DealCounts(target) ==
    IF target = 0
    THEN [loot |-> LootPerDay, single |-> SinglePerDay,
          Amazon |-> AmazonPerDay, Flipkart |-> FlipkartPerDay]
    ELSE LET loot   == Scaled(target, LootPerDay, SinglePerDay)
             single == target - loot
             amazon == Scaled(single, AmazonPerDay, FlipkartPerDay)
         IN  [loot |-> loot, single |-> single, Amazon |-> amazon, Flipkart |-> single - amazon]

\* Variant: scraped when it is to be sent.
ScrapeLate(at) == at

\* The moment at which deals for a slot are scraped: before midnight for a slot just after
\* it.
ScrapeAt(at) == (at - LeadMinutes) % 1440

DealSlot(at, kind, format, topic, market) ==
    [day |-> 0, at |-> at % 1440, scrape |-> ScrapeAt(at), kind |-> kind, format |-> format,
     topic |-> topic, market |-> market]

\* Variant: every third slot.
LootTurnRare(i, done, n) == i % 3 = 1 /\ done < n

\* Loot posts take every other slot until there are enough.
LootTurn(i, done, n) == i % 2 = 1 /\ done < n

\* _build_dense_plan
DensePlan(target) ==
    LET counts  == DealCounts(target)
        total   == AtLeast(counts.loot + counts.single, 1)
        step    == AtLeast(((EndHour + 1 - StartHour) * 60) \div total, 1)
        at(i)   == StartHour * 60 + (i - 1) * step
        markets == Interleaved([m \in {"Amazon", "Flipkart"} |-> counts[m]])
        singles == IF markets = <<>> THEN <<"Amazon">> ELSE markets
        done[i \in 0 .. total] ==
            IF i = 0 THEN 0
            ELSE LET before == done[i - 1]
                 IN  before + (IF LootTurn(i, before, counts.loot) THEN 1 ELSE 0)
        loots   == [i \in 0 .. total |-> done[i]]
        nth(i)  == i - loots[i]
    IN  [i \in 1 .. total |->
            IF loots[i] > loots[i - 1]
            THEN DealSlot(at(i), "loot", "link", "Multiple", "none")
            ELSE DealSlot(at(i), "single", IF nth(i) % 2 = 0 THEN "text" ELSE "photo", "none",
                          singles[((nth(i) - 1) % Len(singles)) + 1])]

LayOut ==
    /\ Go("inferred", "laid out")
    /\ tasks' = IF inputs.deals THEN DensePlan(inputs.target)
                ELSE CuratedPlan(inputs, cadence, FormatCycle(mix))
    /\ UNCHANGED <<inputs, cadence, mix, pledged>>

-----------------------------------------------------------------------------
(***************************************************************************)
(* Retention triggers and recycled posts replace slots of a content plan.  *)
(***************************************************************************)

\* classify_churn_risk
ChurnRisk(in) ==
    IF in.delta = None THEN "unknown"
    ELSE IF in.churn \/ in.delta <= -20 THEN "high"
    ELSE IF in.delta <= -5 THEN "medium"
    ELSE IF in.delta < 0 THEN "low" ELSE "none"

RetentionConcern(in) == ~in.deals /\ (in.churn \/ in.er \in 0 .. 19 \/ in.silent)

\* build_retention_triggers: the most urgent first.
TriggersFor(in) ==
    LET risk   == ChurnRisk(in)
        urgent == IF risk = "high" \/ in.silent THEN <<"reengage", "challenge">> ELSE <<>>
        habit  == IF risk \in {"medium", "high"} \/ in.silent THEN <<"series", "cliffhanger">>
                  ELSE <<>>
    IN  urgent \o habit \o <<"weekly">>

TriggerFormat(kind) == IF kind \in {"challenge", "reengage"} THEN "poll" ELSE "text"

Given(slot, kind, format) ==
    [Slot(slot.day, slot.at, kind, format) EXCEPT !.topic = kind]

\* Every perDay-th slot from the first one takes a trigger, in order.
Retain ==
    /\ Go("laid out", "retained")
    /\ LET triggers == IF RetentionConcern(inputs) /\ tasks # <<>> THEN TriggersFor(inputs) ELSE <<>>
           nth(i)   == ((i - 1) \div cadence) + 1
       IN  /\ pledged' = triggers
           /\ tasks' = [i \in DOMAIN tasks |->
                          IF (i - 1) % cadence = 0 /\ nth(i) \in DOMAIN triggers
                          THEN Given(tasks[i], triggers[nth(i)], TriggerFormat(triggers[nth(i)]))
                          ELSE tasks[i]]
    /\ UNCHANGED <<inputs, cadence, mix>>

\* The format a post is repeated in.
Alternative(format) ==
    CASE format \in {"text", "article"} -> "poll"
      [] format = "poll"                -> "photo"
      [] OTHER                          -> "text"

\* Variant: from the first day on.
RecycledFirstDay(plan, perDay, n) ==
    [i \in DOMAIN plan |->
        IF (i - 1) % perDay = 0 /\ ((i - 1) \div perDay) + 1 \in 1 .. n
        THEN Given(plan[i], "recycle", Alternative(plan[i].format)) ELSE plan[i]]

\* _inject_recycle_slots: the first slot of the second day and of the days after it, as
\* many as there are posts worth it, three at most.
Recycled(plan, perDay, n) ==
    [i \in DOMAIN plan |->
        IF (i - 1) % perDay = 0 /\ (i - 1) \div perDay \in 1 .. AtMost(n, 3)
        THEN Given(plan[i], "recycle", Alternative(plan[i].format)) ELSE plan[i]]

Recycle ==
    /\ Go("retained", "recycled")
    /\ tasks' = IF inputs.deals THEN tasks ELSE Recycled(tasks, cadence, inputs.proven)
    /\ UNCHANGED <<inputs, cadence, mix, pledged>>

-----------------------------------------------------------------------------
(***************************************************************************)
(* Topics: one pass over the slots that are open, which remembers what the *)
(* last ones were given.                                                   *)
(***************************************************************************)

\* RETENTION_KINDS; the teaser ("cliffhanger") is not among them.
RetentionKinds == {"reengage", "series", "weekly", "challenge", "recycle"}

IsOpen(slot) == slot.kind \notin RetentionKinds \cup {"loot"}

\* Variant: as many slots as there are topics.
WindowTooLong(ranked) == AtMost(AtLeast(Len(ranked), 1), 4)

\* The slots for which a topic is not used again.
Window(ranked) == AtMost(AtLeast(Len(ranked) - 1, 1), 4)

\* _choose_category for slot i, given the topics of the slots before it: the first that
\* was not used within the window, or the best.
Choice(ranked, given, i) ==
    LET recent == {given[j] : j \in AtLeast(i - Window(ranked), 1) .. i - 1}
        fresh  == {r \in DOMAIN ranked : ranked[r] \notin recent}
    IN  IF fresh = {} THEN ranked[1] ELSE ranked[CHOOSE r \in fresh : \A q \in fresh : r <= q]

\* _apply_slot_reasons
WithTopics(plan, ranked) ==
    LET given[i \in 0 .. Len(plan)] ==
            IF i = 0 THEN <<>>
            ELSE LET before == given[i - 1]
                 IN  Append(before, IF IsOpen(plan[i]) THEN Choice(ranked, before, i)
                                    ELSE "none")
        topics == given[Len(plan)]
    IN  [i \in DOMAIN plan |-> IF IsOpen(plan[i]) THEN [plan[i] EXCEPT !.topic = topics[i]]
                               ELSE plan[i]]

Reason ==
    /\ Go("recycled", "reasoned")
    /\ tasks' = WithTopics(tasks, inputs.topics)
    /\ UNCHANGED <<inputs, cadence, mix, pledged>>

\* llm_enrich_strategy: a ranking of any categories of the vocabulary, the channel's topics or
\* others, and a mix that is counted in the plan.
Enriched(ranked) ==
    /\ tasks' = WithTopics(tasks, ranked)
    /\ mix' = InPercent([f \in {tasks[i].format : i \in DOMAIN tasks} |->
                            Cardinality({i \in DOMAIN tasks : tasks[i].format = f})])

\* What save_strategy makes of a format (_FORMAT_MAP).
Stored(format) ==
    CASE format = "article" -> "text"
      [] format = "meme"    -> "photo"
      [] OTHER              -> format

\* The LLM's turn, which may fail, and save_strategy.
Enrich(ranked) ==
    /\ Go("reasoned", "saved")
    /\ Enriched(ranked)
    /\ UNCHANGED <<inputs, cadence, pledged>>

EnrichFails ==
    /\ Go("reasoned", "saved")
    /\ UNCHANGED <<inputs, cadence, mix, tasks, pledged>>

Return ==
    /\ Go("saved", "idle")
    /\ inputs' = NoInputs /\ cadence' = 0 /\ mix' = <<>> /\ tasks' = <<>> /\ pledged' = <<>>

PlanningNext ==
    \/ Read
    \/ Infer
    \/ LayOut
    \/ Retain
    \/ Recycle
    \/ Reason
    \/ \E ranked \in TopicLists : Enrich(ranked)
    \/ EnrichFails
    \/ Return

PlanningSpec == PlanningInit /\ [][PlanningNext]_planningVars

-----------------------------------------------------------------------------
(***************************************************************************)
(* What is to hold of a plan.                                              *)
(***************************************************************************)

\* All that engages is one visual format, which the mix then has alone.
IsMonotonous(in) ==
    LET weights == Engaging(in.shares, in.erBy, in.er)
    IN  /\ in.er \notin 0 .. 29
        /\ \E v \in Visual : {f \in DOMAIN weights : weights[f] > 0} = {v}

\* What the comments promise of a content channel's mix, two points of rounding aside: a
\* visual format, no format above 55 % (tools/strategy.py:124-125, 131-132), and 40 % polls
\* where engagement is below the floor (116, 258).  None of the three is kept: a boost after
\* them can round a visual format away or lift one above the cap; a format that engages alone
\* has no other to give its excess to; and a photo added after the polls were raised takes
\* its share from them too.
MixKeepsPromises ==
    stage = "inferred" /\ ~inputs.deals =>
        /\ DOMAIN mix \cap Visual # {}
        /\ \A f \in DOMAIN mix : mix[f] <= 57
        /\ inputs.er \in 0 .. 29 => mix["poll"] >= 38

\* What is left of these promises, whatever the rates.  A mix adds up to 100, through two
\* roundings, and no share is negative; no visual format is there only where the boost of
\* another drops one that had no percent left; only one that engages alone is above 63 %, or
\* above 57 % without a boost; and polls that were to have 40 % keep 25 %, when a photo is added
\* and another format is boosted afterwards (tools/strategy.py:116-126, 130-152, 583-599).
MixIsVaried ==
    stage = "inferred" =>
        LET content == ContentMix(inputs.shares, inputs.erBy, inputs.er)
        IN  /\ SumFunction(mix) = 100
            /\ \A f \in DOMAIN mix : mix[f] \in 0 .. 100
            /\ \/ DOMAIN mix \cap Visual # {}
               \/ IsBoosted(inputs) /\ \A f \in DOMAIN content \cap Visual : content[f] = 0
            /\ ~inputs.deals /\ ~IsMonotonous(inputs) =>
                  \A f \in DOMAIN mix : mix[f] <= IF IsBoosted(inputs) THEN 63 ELSE 57
            /\ ~inputs.deals /\ inputs.er \in 0 .. 29 => mix["poll"] >= 25

\* The formats of a content plan take turns, within a turn of the cycle, from one to the next
\* and across days: none comes again before every format that is to come at least as often
\* has come.
FormatsAreInterleaved ==
    stage = "laid out" /\ ~inputs.deals =>
        \A i, j \in DOMAIN tasks, f \in DOMAIN mix :
            /\ i < j /\ tasks[i].format = tasks[j].format
            /\ Turns(mix)[f] >= Turns(mix)[tasks[i].format]
            => \E k \in i .. j : tasks[k].format = f

IsSpecial(slot) == slot.kind \in Triggers \cup {"recycle"}

\* The most urgent trigger is the first slot of the plan that is saved, with its own topic -
\* the re-engagement poll where members are leaving, as the tactic claims - and no day has two
\* slots that are not regular content, however triggers, recycled posts and topics
\* are laid over each other.
UrgentTriggerIsFirst ==
    stage = "saved" =>
        /\ pledged # <<>> => tasks[1].kind = pledged[1] /\ tasks[1].topic = pledged[1]
        /\ inputs.churn /\ ~inputs.deals => tasks[1].kind = "reengage"
        /\ \A i, j \in DOMAIN tasks :
              IsSpecial(tasks[i]) /\ IsSpecial(tasks[j]) /\ i # j => tasks[i].day # tasks[j].day

CountOf(kind, market) ==
    Cardinality({i \in DOMAIN tasks : tasks[i].kind = kind /\ tasks[i].market = market})

\* The day of a deals channel has exactly the posts its organisation asks for, and the loot
\* posts and marketplaces the goal announces: no rounding loses or adds one, and the
\* alternation leaves a place for every loot post.
SplitIsKept ==
    stage = "laid out" /\ inputs.deals =>
        LET counts == DealCounts(inputs.target)
        IN  /\ inputs.target # 0 => Len(tasks) = inputs.target
            /\ CountOf("loot", "none") = counts.loot
            /\ CountOf("single", "Amazon") = counts.Amazon
            /\ CountOf("single", "Flipkart") = counts.Flipkart
            /\ \A i \in 1 .. Len(tasks) - 1 : tasks[i].at < tasks[i + 1].at

IsSpaced(plan) ==
    LET used == {plan[i].topic : i \in {j \in DOMAIN plan : IsOpen(plan[j])}}
    IN  \A i, j \in DOMAIN plan :
            /\ IsOpen(plan[i]) /\ IsOpen(plan[j]) /\ plan[i].topic = plan[j].topic
            /\ i < j /\ Cardinality(used) > 1
            => j - i > AtMost(Cardinality(used) - 1, 4)

\* A topic that has been given returns only after as many other slots as the number of
\* topics allows, four at most, by rule and by the LLM's ranking alike.
TopicsAreSpaced == stage \in {"reasoned", "saved"} => IsSpaced(tasks)

\* get_due_tasks: whether a slot is taken by a dispatcher that looks at a minute of its day.
\* A second later midnight is past.
IsDue(slot, now) ==
    /\ now < slot.at
    /\ IF slot.scrape # None THEN slot.scrape <= now ELSE slot.at <= now + LeadMinutes

\* Settings with which that is so, as the default ones are: the dispatcher looks before a
\* slot's lead has passed and at the same minutes of every hour, no deals are scraped on the
\* day before, and a day's deals fit into the posting window.
SettingsFit ==
    LET minutes == 60 * (EndHour + 1 - StartHour)
    IN  /\ DispatchMinutes =< LeadMinutes /\ 60 % DispatchMinutes = 0
        /\ LeadMinutes =< 60 * StartHour
        /\ LootPerDay + SinglePerDay =< minutes
        /\ \A in \in Inputs : in.target =< minutes

\* Settings whose posts can alternate, as the default ones: no more loot posts than others,
\* each of which has one of the two marketplaces.
SettingsAlternate ==
    /\ LootPerDay =< SinglePerDay /\ SinglePerDay # 0
    /\ AmazonPerDay + FlipkartPerDay = SinglePerDay

\* Every slot but one at midnight is taken, whenever the dispatcher was started; one at
\* midnight never is, because the minutes before it belong to another day.
OnlyMidnightIsMissed ==
    stage = "saved" =>
        \A slot \in {[at |-> tasks[i].at, scrape |-> tasks[i].scrape] : i \in DOMAIN tasks},
           phase \in 0 .. DispatchMinutes - 1 :
               slot.at # 0 <=>
                   \E n \in 0 .. (1440 \div DispatchMinutes) - 1 :
                       IsDue(slot, n * DispatchMinutes + phase)
=============================================================================
