# TLA+ models of the Aatreyi channel-growth backend

The repository runs Telegram channels for its customers: agents (LLM pipelines) profile a channel,
watch its competitors, plan what to post and when, write the posts, and a publisher sends them. This
directory holds TLA+ modules of the parts where processes meet - the database rows that the api
container, the scheduler container, background tasks and operators all read and write - and of the
algorithms between them; the TLC configurations that check them, and TLAPS proofs.

Paths below are relative to the repository root (`tools/content.py` is `src/tools/content.py` for
`PROJECT.json`).

## 1. The system

Two containers run the same code base over one PostgreSQL database. `api/main.py` serves HTTP and
starts a full scheduler in its lifespan; `scheduler/main.py` starts the same scheduler again.
Everything is asyncio: a step of a task runs undisturbed from one `await` to the next, and almost
every database call is such an `await`. Tools open a session of their own for nearly every
operation, so a workflow is a chain of small transactions, and what was read in one of them may be
out of date in the next. No lock, version column or `SELECT ... FOR UPDATE` is used anywhere.

| Component | State it keeps | Operations | Module |
|---|---|---|---|
| Review queue and publisher (`tools/content.py`, `api/routers/review.py`, `scheduler/jobs.py`) | `generated_posts.review_status`, `post_queue.status/scheduled_at` | queue a post, auto-approve, approve (and publish at once), reject, edit, poll and publish due posts | `Publishing` |
| Strategy slots and dispatcher (`tools/strategy.py`, `agents/strategy.py`, `scheduler/jobs.py`) | `strategies`, `strategy_tasks` | archive, save, read due slots, generate a post for a slot, mark it | `SlotDispatch` |
| Agent runs (`api/routers/review.py`, `agents/base.py`, `tools/shared.py`, `api/main.py`) | `_active_tasks` in memory, `agent_runs` | start, cancel, log begin and end, clean up at start | `AgentRuns` |
| Scheduler cycles (`scheduler/jobs.py`, `tools/channels.py`) | `channels.tier`, `.status`, `.needs_strategy_review` | daily and weekly cycle, onboarding, review flag | `Cycles` |
| Subscriber polling, analytics (`tools/subscribers.py`, `tools/analytics.py`, `agents/analytics.py`) | `analytics_snapshots`, `subscriber_readings` | poll, upsert of the day's snapshot, delta, backfill | `Growth` |
| Planning (`tools/strategy.py`, `tools/retention.py`, `tools/slot_reasons.py`) | none: a list of slots in memory | infer cadence and mix, lay out, retain, recycle, give topics | `FormatMix`, `Planning` |
| Content runs and sources (`agents/content_intelligence.py`, `tools/content.py`, `tools/content_sources.py`) | `content_sources`, `content_items`, `content_scores` | gather, de-duplicate, score, save, average, queue; seed, edit and delete sources | `Content`, `Sources` |
| Deal selection (`tools/deal_executor.py`, `tools/deal_scrapers.py`, `tools/loot_deals.py`) | the scrape cache of each process, used-deal records | scrape, rank, choose, check, queue, record | `Deals` |
| Competitors (`tools/competitor.py`, `agents/competitor_intelligence.py`) | `competitors`, their posts | discover, save, prune, refresh posts | `Competitors` |
| Organisations and access (`api/authz.py`, `tools/organizations.py`, `api/routers/*`) | organisations, users, settings, owners of channels | create, join, read and change settings, onboard, move, delete | `Tenancy` |
| Telegram session (`tools/telegram_client.py`) | an SQLite session file | open with retries, fetch | events of `SlotDispatch` and `Cycles` |
| Channel profile, HTTP read side, LLM prompting, web UI, legacy `app/` service | - | - | not modelled (section 6) |

### What is hard here

* **The same job runs twice.** APScheduler's `max_instances=1` holds per process, and there are two
  (`api/main.py:83`, `scheduler/main.py:94`).
* **Lists are read once.** `publish_due_posts`, `dispatch_content_slots` and the daily cycle read a
  list and work it off; verdicts, replans and other processes change the rows meanwhile.
* **Look, then write.** Whether a row is there (a source, today's snapshot, a used link, the
  settings of an organisation, a stored message) is asked in one session and acted upon in another.
* **Side effects before bookkeeping.** A message is sent before its row is marked; a post is queued
  before its slot is marked and its products are recorded. Crashes, failed commits and lost answers
  fall in between.
* **Errors are swallowed.** `_safe` turns any exception into `None`; the next step follows.
* **Whole lists are retried.** An exception outside `_safe` makes `dispatch_content_slots` run its
  list again from the top.
* **Cancellation.** `CancelledError` is not an `Exception`, so a cancelled agent never writes its
  report; others close its row, and a registry entry may outlive or precede its task.
* **Transactions do not see each other.** A save deletes the pending slots it can see, not those of
  a save still open.
* **One list, many hands.** A plan is laid out, and then triggers, recycled posts, topics and an
  LLM's ranking are put over it, each on what the one before has left; formats are added, capped,
  boosted and rounded one after the other.

`PROJECT.json` lists 40 such hazards at their lines, each with the properties that cover it.

## 2. The modules

| Module | What it is |
|---|---|
| `Delivery` | abstract: what may become of a post (approved, delivered, confirmed) |
| `Publishing`, `Publishing_proofs` | the review queue and the publishers; refines `Delivery` |
| `SlotLedger` | abstract: what may become of a slot (planned, fired, generated, dropped) |
| `SlotDispatch`, `SlotDispatch_proofs` | planners, dispatchers and onboarding runs over one channel's slots; refines `SlotLedger` |
| `AuditLog` | abstract: what may become of a row of `agent_runs` |
| `AgentRuns` | registry, runs, cancellations, restarts; refines `AuditLog` |
| `Cycles` | the jobs over one channel, its tier and its review flag |
| `Growth` | pollers, analytics runs and the backfill over the snapshots of a channel |
| `Competitors` | runs of the Competitor Agent and the daily refresh of posts |
| `FormatMix` | arithmetic of percentages and formats (pure) |
| `Planning` | the Strategy Agent from what it reads to the slots it saves |
| `Deals` | deal slots, the caches of two scheduler processes, used products |
| `Sources` | the content sources of a channel; used by `Content` |
| `Content` | runs of the Content Agent; INSTANCEs `Sources` for what changes its table |
| `Tenancy` | organisations, users, settings, channels and who reaches them |
| `MCPublishing`, `MCSlotDispatch`, `MCAgentRuns` | instances of one module each |
| `MCSlots` | instances of `SlotDispatch` that differ in who is at work |
| `AgentParts`, `MCAgents` | `AgentRuns` or, in other behaviours, `Content`; its instance |
| `MCProgress` | instance of `Cycles` or of `Publishing`, with fairness |
| `WorkspaceParts`, `MCWorkspace` | one of `Growth`, `Competitors`, `Planning`, `Deals`, `Sources` and `Tenancy`; its instance |
| `Publishing_proofs`, `SlotDispatch_proofs`, `Deals_proofs`, `Planning_proofs` | proofs about the module of that name |
| `Agents_proofs` | proofs about `AgentRuns` and `Content`, and about both in `AgentParts` |
| `Cycles_proofs` | proofs about `Cycles` |
| `Workspace_proofs` | proofs about `Growth`, `Competitors`, `Sources` and `Tenancy`, and about the parts of `WorkspaceParts` together |
| `Order_proofs` | facts several proofs share: ranks in a finite order, least elements, induction up to a number, sums over a finite set |

`AgentParts`, `MCProgress` and `WorkspaceParts` hold components that share no state the models keep. A
variable `system` picks one of them at the start of a behaviour; the variables of the others stay at
an initial value, so the state space is the sum of the parts and not their product. They EXTEND the
components, whose names differ for that reason (`GrowthInit`, `CompetitorsNext`), so the properties a
run checks are the components' own definitions, the ones the theorems state; only `MCProgress` takes
`Publishing` by INSTANCE, for its liveness.

Operators named "Variant" above a definition are deliberate bugs used to see that a property can
fail; no specification uses them. `PROJECT.json` maps every definition to the lines it stands for.
An action is the code between two awaits that reach the database, Telegram or the web; `_safe` and
the `except` clauses are its alternatives.

### Publishing

`review` and `queue` are the two status columns; `gen` says where a generator is between
`add_to_review_queue` and the end of `maybe_auto_publish`, which reads the setting in one session
and approves in another; `pc`, `cur` and `todo` are the program counter, the post in hand and the
unread rest of the batch of each *sender*: a publisher (one per scheduler) or a call of the approve
endpoint, which publishes too. `publish_generated_post` is three steps - load (`StartNext`,
`Approve`), send (`SendOk`, `SendFails`, `SendTimesOut`), record (`Record`, `RecordFails`).
`IsBatch` is the query with its `ORDER BY scheduled_at LIMIT 25`; equal slots come in any order.
`update_review_status` has no state machine, so `Approve`, `Reject` and `Edit` take any existing
post, sent ones included. History variables record who approved a post, the copies each sender put
on the channel, and which of them were never recorded.

Left out: text, media, the format of messages, `reschedule_post` (it has no caller), the
`retry_count` and `error_log` columns (nothing writes them), other channels (no query joins them;
the batch limit is shared, which a smaller `BatchLimit` stands for).

### SlotDispatch

`strategy`, `kind`, `status` and `owner` are the columns of `strategies` and `strategy_tasks`;
`plan` is where each run of the Strategy Agent is: archived, or in the transaction of
`save_strategy` with the rows it will insert and those its DELETE has taken. The DELETE sees only
what was committed and locks the rows until the commit, so a worker that needs such a row waits
(`Locked`). A worker reads its list (`ReadDue`, `ReadToday`), has a post queued for each slot
(`QueuePost`, or `FindsNothing`) and marks it (`Mark`). `MarkFails` and `CloseFails` are the two
exceptions that leave `_dispatch` and start the list again; `Abandon` is an exception between
queueing and marking, which `_safe` turns into "no post". What a plan contains is an input: any set
of new slots (what the Strategy Agent puts there is `Planning`). Where it has deal slots, it
replaces all pending ones (`Replaced`). Left out: `update_cron_for_content_agent` (its rows are
never read) and what happens inside a generation, which is `Content` and `Deals`.

### AgentRuns

`registry` is `_active_tasks` by short agent name. A run is a task that goes through a `Pipeline` of
agents, one for a single agent and several for onboarding and cycles; each agent inserts a row
(`Insert`), executes, and reports (`Report`), and each of the two writes may fail. `Cancel` is the
first half of the cancel endpoint (registry and task), `Clear` the second (the rows of this agent,
whoever runs it); for `onboard` the second raises, because there is no such `AgentName`. A cancelled
run stops at its next await (`Interrupt`), or after the commit it is suspended at, and only `Close`
removes "whatever is registered under my key". `RestartApi` includes `_clear_stale_runs`, which
closes the rows of the scheduler container's live runs too.

### Cycles

`job[j]` is where a job is between two sessions and `listed[j]` the channel's row as `list_channels`
gave it when the job began. `Raise` is an analytics run that asks for a review, `Review` to `Clear`
the early review of the daily cycle, which acts on the flag of the *list* and clears that of the
*row*. Onboarding and the weekly cycle refresh the tier first; of all steps of onboarding only that
one is not wrapped in `_safe`. The profile writes the tier as well (`Profile`), and a channel whose
member count is hidden gets the tier "new" from either: what `ActiveIsMeasured` says is that
Telegram was asked before a channel becomes active, not that it told a number. The deals cycle is a
run of the Strategy Agent (`SlotDispatch`), the jobs that publish, dispatch and poll are
`Publishing`, `SlotDispatch` and `Growth`. The monthly audit differs from the weekly cycle in its
trigger only.

### Growth

`snaps` holds the rows of `analytics_snapshots` with type, `period_end`, `created_at` and whether
they have a count; readings are reduced to "there are some". A poll is a query and a commit
(`PollReads`; `PollInserts` or `PollUpdates`), an analytics run is three sessions - the previous
snapshot, the readings when that gave no delta, the insertion - and onboarding ends with `Backfill`,
which replaces all daily snapshots by rows without counts dated at noon. Time goes in half days for
that noon.

### Competitors

A run reads what is tracked, searches (channels and brand names that a language model names, with a
dedup set that is checked before an await and added to after it), saves what it found with ranks and
a stamp, prunes what is unqualified and, if the list is healthy, what was not stamped. Each pruning
is one session and four steps: `SelectRivals`, `DeleteDoomed`, `SelectSurvivors`, `WriteRanks`. The
second SELECT finds the rows as they are now but does not refresh those the session holds
(`expire_on_commit` is off), and only ranks that differ from the held ones are written; a rank for a
row that another run has deleted raises, which ends the run (`"lost"`, then `Abort`). Two prunings
that overlap do leave gaps and ties, with nobody ended early. `tattered` remembers that, and the
next pruning that nobody writes into mends it: the property says when ranks can be relied upon.

The daily refresh, which both containers run, lists the rivals, and for each reads the ids of the
stored messages (`ReadPosts`) and adds the new ones (`WritePosts`). Posts from the public web
preview have no id; the refresh does not see them and stores the same message again, with an id this
time. `MessageStoredOnce` therefore counts ids only. A handle that is twice in one list has its
posts added twice, since `autoflush` is off (`StoredIds`), and two containers that refresh a rival
at the same time store its message twice; `doubled` names the rivals this has happened to. A save is
one step; rivals whose posts somebody else is writing meanwhile are in `doubled` too.

Names are abstract; `Key` is what `_brand_key` makes of a brand and may be another channel's handle.
The scores are an order on names. Two keys of `competitor_intel`'s insights (`best_hours`,
`trending_categories`) are never found under those names by their reader; nothing here depends on
them.

### FormatMix and Planning

`Planning` runs one plan through the stages of `agents/strategy.py`: cadence and mix inferred, slots
laid out (a curated plan over the period, or the dense day of a deals channel), retention triggers,
recycled posts, topics by rule, topics by the ranking of an LLM, saved. Rankings are lists without
repetition, of any length and over any topics: those of the channel or of a deals channel's
categories (`Inputs`), and those an LLM answers with (`TopicLists`). `FormatMix` has the arithmetic:
Python's rounding to even, normalising to 100, caps and floors. Rates and frequencies are tenths,
times minutes of a day; the shares of a mix are whole numbers whose sum is their unit, so rounding
is exact whatever the unit is. Reasons, goals and growth tactics are wording and left out. What
modelling it showed, beside the properties:

* The comments promise a visual format, at most 55 % for any format, and 40 % polls where engagement
  is below the floor. None of the three is kept (`MixKeepsPromises`, violated). The boost and the
  normalisation that follow move all shares: a boosted format may have 62 or 63 %, and a visual format
  left with 0 % is dropped. Where a visual format is all that engages, it gets the whole mix. A photo
  that is added after the polls were raised, and a boost, take from the polls, down to a quarter.
  `MixIsVaried` is what remains.
* Formats are interleaved by their places in a cycle, so a format is not repeated before those that
  come as often have had their turn (`FormatsAreInterleaved`); many formats with one turn each do
  not keep one with several from standing next to itself.
* The topic of a "cliffhanger" is overwritten; recycled posts overwrite triggers of later days.
* A curated slot at 00:00 is never due: a slot is looked for on its own day, before its time, and
  the dispatcher's day begins then.
* `SplitIsKept` needs the configured loot posts not to outnumber the single ones, as they do not.
* `avg_er_by_hour` is never supplied, so hours come from the best hour alone; a dense plan announces
  a re-engagement tactic that it has no slot for.

### Deals

A worker has one deal slot in hand: it reads recent titles (`Begin`), recent links, takes offers
from the cache of its process or scrapes, ranks and chooses, checks the page of a single deal,
queues the post, and records the products. An offer is a card of a search page with category,
marketplace, words, stated discount and prices; the ranking, the discount policy, headings and the
ways two offers count as one product are those of the code. A scrape reads one page per marketplace
and category, and each may fail by itself (`Outages` has the sets of pages that do). Worth knowing:
what a failed scrape found - nothing - is cached for half an hour; a comment calls the second pool
"broad (cached)" (`tools/deal_executor.py:101,112`), but it is asked for under other keys and so
scraped again; a misread discount (over 95 %) counts as a preferred one and pushes out good deals of
its category before it is thrown away itself; the second choice after a page that is gone is not
checked; `daily_plan` has no caller.

### Sources and Content

`Sources` is the table of sources: the seeding by onboarding and by hand (look for sources, find the
website from the bio, links and short links, insert it with the feeds of the category), adding,
editing, deleting. `Content` is a run of the Content Agent from slot to queued post, for runs of the
dispatcher (which marks the slot) and by hand (which does not). A text is the set of its significant
words; a score is computed from the seven signals. The record of a link, the score and the source's
average are separate sessions (`Save`, `Rate`, `Weigh`/`Update`). A run may `Fail` at every point,
and does when its next write refers to a row that was deleted. Worth knowing: deleting a source
deletes its items (the ORM's cascade comes before the `SET NULL` of the foreign key), so their links
count as unused again; candidates for recycling carry no link, so none ever counts as expired and a
recycled post on a deals channel has none; only totals that pass are averaged, so with a threshold
of 4 or more no source is ever switched off; discovered items have no source; the sources are not
asked when discovery gave only used items; `lstrip("www.")` strips characters, not a prefix. The
website found may be a default feed: `https://www.grabon.in/` is a feed of deals channels and just
what detection gives for GrabOn's. The insertion does not compare the two, so the address is there
twice, once as the channel's own (`own`) and once as a feed. That is the code's main case and needs
no overlap; `FeedsAreSeededOnce` counts the website and the feeds apart, and what it excludes is a
*second* row of either.

### Tenancy

Rows of organisations, users, settings and channels, and who added a channel. There is no login: a
request comes from a user, from a member of an organisation without an account, or from the default
administrator. Reading or changing settings takes two steps, the look for the row and the commit; an
UPDATE carries only attributes that differ from what was read. Reading creates the row with
auto-approval off, which overrides the channel's own flag from then on. Unique columns make the
second of two insertions fail. Onboarding an existing username changes nothing in its row; a channel
that is moved keeps who added it and gets the settings of its new organisation. Both a fresh and a
seeded database are initial.

## 3. The runs

Each run finishes in less than four minutes with two workers. Deadlock is checked in all of them.

| Run | Bounds | Shows |
|---|---|---|
| `publishing_safety` | 2 posts, 1 generator, 2 publishers, 1 approve call, batch of 1, 1 fault | `ManualReviewHolds`, `OneCopyPerPublisher`, `PublisherWaitsForSlot`, refinement of `Delivery` |
| `publishing_stale_batch` | 1 publisher, no faults | **violated**: `SendsOnlyApproved` |
| `publishing_starvation` | batch of 1, one post always refused | **violated**: `DuePostIsSent` |
| `slots` | 2 deal slots; a dispatcher, an onboarding run and a planner with 2 plans or with 1 plan and 1 fault; or a dispatcher, a planner, 2 plans and 1 fault; or a dispatcher, 2 planners and 2 plans | `OnePostPerHandling`, `OneDealPlan`, `OneActivePlanPerType`, refinement of `SlotLedger`, `DueSlotIsFired` |
| `slots_double_fire` | 2 dispatchers, no faults | **violated**: `NeverDoubleFires` |
| `agent_runs` | 2 runs, 2 keys, 1 cycle, pipelines of up to 2, 2 faults; or 2 content runs, 3 begun, 2 slots, 5 articles, 2 sources, 1 fault or edit | `WantedRunsAreRegistered`, `RowsTellTheTruth`, refinement of `AuditLog`; `ArticleUsedOnce`, `AverageIsOfScores`, `SlotAnsweredOnce` |
| `agent_runs_cancel` | 2 runs, no faults | **violated**: `RunsCanBeCancelled` |
| `progress` | a daily, a weekly and an onboarding job, 2 tiers, 1 crash; or 1 publisher, batch of 2, one post always refused, 1 fault | `RequestIsKept`, `RequestIsAnswered`, `ActiveIsMeasured`; `DuePostIsSent` |
| `workspace` | see below | 17 properties of six components |
| `growth_delta` | as `workspace` | **violated**: `DeltaIsAcrossPeriods` |
| `competitors_rerun` | 2 handles, 1 brand, 1 run at a time, 2 rounds, 1 refresh | **violated**: `RediscoveredIsKept` |
| `mix_promises` | as `workspace` | **violated**: `MixKeepsPromises` |

The parts of `workspace`:

| Part | Bounds | Properties |
|---|---|---|
| growth | 2 pollers, a daily run and onboarding, 3 half days, 2 snapshots | `OnePolledRow`, `SampledRunHasDelta` |
| competitors | 1 handle and 2 brands (one of which has its key), lists of 2, 2 runs and 2 refreshes of which two are under way at a time (`MCAtATime`), 2 rounds | `RanksAreContiguous`, `HealthyRunReplaces`, `MessageStoredOnce` |
| planning | some 1000 inputs: content channels by cadence and trouble, by formats and rates, and deals channels by target, with 1 or 8 categories; 3 answers of an LLM | `MixIsVaried`, `FormatsAreInterleaved`, `UrgentTriggerIsFirst`, `SplitIsKept`, `TopicsAreSpaced`, `OnlyMidnightIsMissed` |
| picking | 10 offers on 3 marketplaces, a loot and a single slot in two processes, 2 instants, 2 posts; all pages answer, or only one does | `NothingKnownIsRepeated`, `PostsAreSound`, `SlotGetsItsCategory` |
| seeds | 2 seeders, 4 sets of clues, 3 addresses, one of them a feed and a website found, 2 edits, 5 sources | `FeedsAreSeededOnce` |
| tenancy | 2 organisations, 2 users, 1 channel, 2 requests at a time, 3 in all | `ReachIsOwnership`, `LastWordHolds` |

Why the bounds are enough to be interesting: two senders are what it takes to race for one post, two
posts what it takes to have one in hand and one in the list or to be cut off by the limit; one fault
separates the send from its record, and the properties count faults per post. Two planners overlap
or follow each other; the second plan is the one that replaces. In `AgentRuns` two runs make the
reuse of a key. Two pollers, seeders, requests or content runs are what it takes to overlap; two
rounds of discovery are what a run needs to meet what one before has tracked. In `Deals` the window
of links is over before that of titles, so that a product may come back by its link and not by its
title; the offers have one product under two headings, one on two marketplaces, and brands that look
the same. In `Planning` everything is a function of the inputs, which range over the boundaries of
every comparison; a larger instance is a larger set of inputs. The two agents and the two refreshing
containers of the competitors part are interchangeable (`MCSymmetry`; no property of the run is a
liveness property); two at a time are what a pruning, a save or a refresh needs to run into another.
The proofs remove the bounds for the safety properties they cover.

### What the violated runs say

* **Stale batch.** The publisher reads up to 25 approved posts and sends them without looking at
  them again: a post rejected or edited in between still goes out.
* **Starvation.** A refused post stays "queued" with the oldest slot, so as many of them as a batch
  holds keep every later post from being sent; the failure state the schema documents is never
  written.
* **Double fire.** Both containers dispatch the same pending slot; each has a post queued for it.
* **Lost registration.** Start, cancel, start again: the first run, ending late, removes the second
  one's registry entry. The second can then not be cancelled and does not keep a third out.
* **Delta with itself.** On a polled channel the newest daily snapshot is today's, so the analytics
  run compares the count with itself; `db_schema.md:198` says "Change from previous period".
* **Rediscovered rivals are dropped.** Every search passes over what is tracked, so a healthy second
  run does not stamp those rivals and deletes them as not rediscovered (`tools/competitor.py:832`);
  a third finds them anew.
* **The mix is not as promised.** Raising the polls, adding a visual format, capping and boosting come
  one after the other, and each undoes some of what came before: no visual format, 63 %, or fewer
  polls than 40 % (`tools/strategy.py:116,124,131,258`).

The properties that hold are stated around these facts, not in spite of them: a publisher is held to
*its own* copies, a planner to the case without overlap, the registry to the case without a start
during an unwinding run, pollers and seeders to the case where no two are at work, a link to the
case where two runs have not chosen it at a time, ranks to the time after a pruning that went
undisturbed, messages to rivals that no two wrote at a time. The histories (`lost`, `restarted`,
`overlapped`, `oversown`, `shared`, `forgotten`, `disturbed`, `loose`, `entangled`, `tattered`,
`doubled`, `raced`) name the exceptions, and the properties and proofs show that there are no
others.

## 4. Fairness

Liveness is checked under the fairness the scheduling of the code gives and no more.

* `Publishing`: the clock advances; an interval job fires for ever and a list is worked off, hence
  weak fairness of `Poll`, `StartNext`, of finishing a send and of recording it. Telegram accepts a
  post that it does not refuse for good when it is tried again and again: strong fairness of
  `SendOk` for each post. That is the assumption on the environment; without it a post may fail at
  every attempt. Nothing is assumed of operators, generators and faults; faults are finite because
  they are bounded.
* `SlotDispatch`: the dispatch job fires every five minutes and works off its list, an open
  transaction ends, and generation that is tried again and again for a slot succeeds at some time. A
  slot whose window closes may be missed - the code drops it - so `DueSlotIsFired` is about windows
  that stay open until the end of the modelled time. Planners that have not begun to save and
  onboarding runs need not move.
* `Cycles`: the daily job fires every day and works off its list (weak fairness of its beginning and
  of its steps). Nothing is assumed of weekly cycles, onboarding, analytics runs by hand and
  crashes.
* The other components have no liveness property: nothing in the code makes an agent end or a
  request come.

## 5. The proofs

TLAPS checks every theorem for all values of the constants under the named assumptions: any sets of
posts, processes, slots, users, offers, rivals, topics and things to find, any slot times, scores,
settings and pipelines, and any number of faults. The assumptions are hypotheses of the theorems
(`ASSUME GrowthAssumption PROVE GrowthSpec => []...`) or, in `Publishing`, `SlotDispatch` and
`AgentRuns`, an ASSUME of the module; either way a module of a run states them with ASSUME, so that
TLC evaluates them. They say what the code's types say, e.g. that `None` is not an id or that a
threshold is one of 1 to 7. Some say more:

* `ContentAssumption`: the sources onboarding leaves are numbered from 1, have no score yet, and are
  no more than the bound on sources.
* `PlanningAssumption`: what is read of a channel is a record with the fields of `NoInputs`, with
  known formats, at least one topic and none twice, at most three formats with a share (the profile
  keeps as many), and a period of 1, 7 or 30 days; what an LLM answers is such a list of topics, too
  (`tools/strategy_llm.py:256-264` drops repetitions, and an empty list counts as a failure).
* `SettingsFit` (hypothesis of `OnlyMidnight` and `SplitKept`): a day has as many minutes as posts,
  the dispatcher's period divides the hour and is no longer than the lead time. The defaults do.
* `SettingsAlternate` (hypothesis of `SplitKept`): no more loot posts than single ones, and the shops'
  counts add up to the latter. The defaults do; with others the promise fails.

| Module | Theorems | Argument |
|---|---|---|
| `Publishing_proofs` | `TypeCorrect`, `ManualReview`, `SingleCopy`, `SlotKept`, `Refinement` | `IInv` says what a post carries with it that a sender holds - in hand or in its list: somebody approved it, its slot has come, and none of the copies the sender has made of it was recorded. The properties alone are not inductive: a stale list is exactly what they do not talk about. |
| `SlotDispatch_proofs` | `TypeCorrect`, `OnePost`, `FiresOnce`, `DealPlan`, `ActivePlan`, `Refinement` | `Lists` and `Transactions` say what a list and an open transaction may hold; `Accounts` strengthens the count of posts by one for a slot still to be handled; `Serial` says what a planner finds while none has overlapped: no active strategy of its type after archiving, and all pending slots in its DELETE. `FiresOnce` says what `NeverDoubleFires`, which a run violates, would take: one scheduler process, every post followed by its mark, and no list begun again. |
| `Agents_proofs`, on `AgentRuns` | `RunsTypeCorrect`, `RunsStayRegistered`, `RowsAreTruthful`, `Refinement` | `Registry`: who is registered is alive, of that key and not cancelled. `Unwinding`: until runs overlap, a key has wanted runs or unwinding ones, not both - this is why `Close` removes nobody else's entry. A row is blank until its run reaches it and sound while the agent executes. |
| `Agents_proofs`, on `Content` | `ArticleOnce`, `SlotOnce`, `AverageIsTrue` | `Links`: a link neither shared nor forgotten is in one hand or in one post, and on record unless it has just been chosen. `Slots`: a slot not loose is in one hand of the dispatcher or has one post, and is marked, or about to be, when it has. `AverageInv`: a stored score has been counted or is in one hand, whose item is there as long as its source is; what was read of an undisturbed source is still its row; and its average is off by at most a quarter of n(n + 1) units in total after n scores, which each update's half unit of rounding preserves. |
| `Workspace_proofs`, on `Growth` | `GrowthTypeCorrect`, `PolledOnce`, `DeltaIsFound` | `OneWriter`: unless two polls overlap, at most one is between query and commit, and if it is to insert, there is still no polled row of its day - analytics runs and backfills make none. |
| `Cycles_proofs` | `CyclesTypeCorrect`, `RequestKept`, `Measured` | While a job is about to clear the flag, a request not yet taken up counts as raced; an onboarding past the refresh of the tier has measured the channel, and nothing else reaches its last step. |
| `Workspace_proofs`, on `Competitors` | `CompetitorsTypeCorrect`, `RanksWithoutGaps`, `RunReplacesList`, `OneCopyOfMessage` | `LoneRun`: while runs have not overlapped, the rows stamped in this round are those the run has found, so that pruning the others leaves exactly its list. `PruningSound` follows the four steps of a pruning that nobody has written into: the ranks its session holds are those of the table, so that those it writes and those it leaves are the places of the survivors - numbers of those ahead in a total order, hence 1, 2, ... without gap or tie. `RefreshSound`: what a refresh is about to add to a rival that is not in `doubled` is not there yet. |
| `Workspace_proofs`, on `Sources` | `SourcesTypeCorrect`, `SeededOnce` | `Seeded`: unless seedings overlapped, one at most is at work, and nothing was seeded before it is done; what it then inserts is one row of its own, or none, and one of each feed. |
| `Workspace_proofs`, on `Tenancy` | `TenancyTypeCorrect`, `Ownership`, `LastWord` | `Owners` ties a channel's row to who added it; `Words` ties a row of settings to what was said, and a request at work to what it read: an UPDATE of one field leaves the other as the last commit said. |
| `Agents_proofs`, on `Content` | `RunsAreCounted`, `ContentTypeCorrect` | `FitsInv`: the items saved and the runs still to save one are together no more than the runs begun, and so are the posts queued and the runs still to queue one; a run that saves or queues moves from one term to the other. |
| `Agents_proofs`, on `AgentParts` | `PartsAreAgents`, `AgentTypesCorrect` | A behaviour of the run `agent_runs` is one of each part, most steps of which are stutters: what is proved of a part holds in the run's specification. |
| `Workspace_proofs`, on `WorkspaceParts` | `PartsAreWorkspace`, `WorkspaceTypesCorrect` | The same for the six parts of the run `workspace`. |
| `Deals_proofs` | `DealsTypeCorrect`, `KnownIsNotRepeated`, `QueuedPostsAreSound`, `SlotsGetTheirDeals` | First what ranking and choice return: members of the pool, sorted, each product once, as many as there are or as are asked for. Then `Fits`: what was known when a dispatcher began is among the titles and links it holds or has left their windows, step by step until its post is queued, and what a post used is recorded before anybody else can know it. A post's lines are those of at most `BucketsPerLoot` headings, each cut to `LinesPerBucket`. |
| `Planning_proofs` | `UrgentIsFirst`, `TopicsApart`, `OnlyMidnight`, `PlanningTypeCorrect` | `PlanningInv`: a plan is in order of days and times from its layout on, keeps its length and the place of its first trigger under all that is laid over it, and topics once spaced stay so. The topic an algorithm picks is one that was not used for as many slots as there are others. Every slot stays one of the month and of the day: the layouts return such slots, and what is laid over them keeps their times, in a known format and kind. |
| `Planning_proofs` | `MixVaried`, `FormatsInterleaved`, `SplitKept` | `LaidOutInv`: the mix and the slots are still what the algorithms make of the inputs. What those return is proved of them one by one. Mixes: largest remainders lose and add nothing, each share is off by less than a point, capping and raising keep the sum, each with the bound it leaves. Cycles: the k-th of n turns stands at (2k - 1)/2n; the places of the cycle are the turns' ranks in that order, so between two turns of a format lies one of every format with as many. Days of deals: rounding gives each shop its count, and the n-th place is a loot post as often as the alternation's closed form says. |

Each `Refinement` theorem shows that initial states map to initial states and that every step maps
to a step of the abstract specification or a stutter; the mapping is the `INSTANCE ... WITH` of the
component's module. Every invariant was first checked by TLC on the instance of its run.

The prover cannot instantiate a theorem that takes an operator, such as the library's induction
rules. `Order_proofs` therefore proves induction over a *set* of numbers or of subsets (from the
least element, by `FS_...` facts), and with it that the library's `SumFunctionOnSet`, a fold, is the
sum; `Planning` and `Content` take their sums from there. Where an algorithm is a recursive function
(the alternation of deals, the placing of topics) the proofs show that the equation has a solution
and what it satisfies.

Only model-checked: the liveness properties (`DueSlotIsFired`, `DuePostIsSent`, `RequestIsAnswered`:
fairness and `ENABLED` are out of the prover's reach). Every invariant and every safety property of
a passing run is stated by a theorem. The violated properties are counterexamples; `FiresOnce`
proves what rules one of them out, and `RunsStayRegistered` another (no start while a cancelled run
unwinds).

## 6. Not modelled

* LLM calls, the parsing of their answers, scraping and the parsing of pages and feeds: their
  results are inputs of the models.
* The channel profile (`tools/channel_dna.py`), insights and reports: statistics over fetched posts
  that no other operation changes. That there is a profile, or not, is in `Cycles`.
* The HTTP read side (it changes nothing), the web UI, and the legacy `app/` service, which shares
  no state with the rest. Reading an organisation's settings does change something and is in
  `Tenancy`.
* The Telegram session file: opening it is tried four times with pauses; its failure is an event of
  the jobs.
* Migrations (`db/migrations/versions`): `start.sh` runs them before the server, once, when nothing
  else runs. The tables they leave are the state of the models.

`PROJECT.json` gives a status and a reason for every component.

## 7. What is left

1. The composition of `Content` or `Deals` with `Publishing`: both end with a queued post, which
   `Publishing` takes as given. It would show from slot to channel what the parts show separately;
   its state space is a product.
2. The legacy service, if it is kept.
