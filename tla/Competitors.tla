----------------------------- MODULE Competitors -----------------------------
(***************************************************************************)
(* The competitors tracked for one channel.  Runs of the Competitor        *)
(* Intelligence Agent search for rivals, save what they find, and prune    *)
(* the table; the daily cycle, which two containers run, adds the latest   *)
(* posts of the rivals it listed.  Runs and refreshes interleave at every  *)
(* commit.  A save is one step here; rivals whose posts are written by     *)
(* somebody else while it goes on are kept apart in the variable doubled.  *)
(***************************************************************************)
EXTENDS Integers, FiniteSets

CONSTANTS
    Agents,      \* runs of the agent that may be going on at a time
    Refreshers,  \* containers whose daily cycle refreshes the posts
    Handles,     \* Telegram channels that can be found
    Brands,      \* rivals named by the language model
    Key,         \* [Brands -> names]: _brand_key, six letters; it may be another's handle
    Strength,    \* rank_score of a name, all different
    TopN,        \* TOP_N, entries kept of a run
    Healthy,     \* entries of a run that may replace the table
    MaxRounds    \* bound: runs that find something

RivalNames == Handles \cup {Key[b] : b \in Brands}

CompetitorsAssumption ==
    /\ IsFiniteSet(Agents) /\ IsFiniteSet(Handles) /\ IsFiniteSet(Brands)
    /\ RivalNames # {}
    /\ \A n \in RivalNames : Strength[n] \in Int
    /\ \A n, m \in RivalNames : Strength[n] = Strength[m] => n = m
    /\ TopN \in Nat /\ Healthy \in Nat /\ MaxRounds \in Nat

VARIABLES
    rivals,      \* competitors of the channel: [name -> row]
    round,       \* run_started taken so far, which is the clock
    phase,       \* where each run is
    known,       \* seen_handles: what was tracked when the run began
    began,       \* run_started
    found,       \* what the run has found
    toSave,      \* ... and is to save of each name
    pruning,     \* the session of a run's pruning
    listedRivals, \* rows each refresh has yet to visit
    dropped,     \* ... those deleted since
    writing,     \* the rival whose posts are being written, and whether the message is new
    (* history *)
    doubled,     \* rivals whose posts were written by two at a time, or saved from two entries
    entangled,   \* two runs have been going on at a time
    tattered     \* a run has ended early or overlapped another's pruning, and no pruning since

refresh == <<listedRivals, dropped, writing>>
agents == <<phase, known, began, found, toSave>>
competitorVars == <<rivals, round, agents, pruning, refresh, doubled, entangled, tattered>>

\* A row: its subscriber_count, refreshed_at, its rank, and how many of its posts have the
\* telegram_message_id of the latest message.
Row == [size : {"unknown", "junk", "peer"}, at : 0 .. MaxRounds, rank : Nat \ {0}, ids : Nat]

Tracked == DOMAIN rivals

\* What a run has found: the names to save, the length of the list, and the tracked channels
\* it met again.
Findings == [names : SUBSET RivalNames, length : 0 .. TopN, again : SUBSET Handles]
Nothing == [names |-> {}, length |-> 0, again |-> {}]

\* What is saved of a name: whether with figures, at which rank, how many of its entries have
\* posts with ids, whether some have not, and how many they are.
Saving == {s \in [peer : BOOLEAN, rank : Nat \ {0}, ids : Nat, bare : BOOLEAN, times : Nat] :
                s.ids <= s.times}
NoSaving == [n \in RivalNames |->
                [peer |-> FALSE, rank |-> 1, ids |-> 0, bare |-> FALSE, times |-> 0]]

\* A pruning: what it does next, the ranks of the rows its session holds (0: none), which of
\* them it is to delete, and whether another run has written the table since it read it.  At
\* the end the ranks are those to write.
Pruning == [stage : {"select", "delete", "reselect", "rank", "lost"},
            ranks : [RivalNames -> Nat], doomed : SUBSET RivalNames, disturbed : BOOLEAN]
NoRanks == [n \in RivalNames |-> 0]
NoPruning == [stage |-> "select", ranks |-> NoRanks, doomed |-> {}, disturbed |-> FALSE]

NotWritingPosts == [on |-> FALSE, name |-> CHOOSE n \in RivalNames : TRUE, new |-> FALSE]

Active(a) == phase[a] \notin {"idle", "done"}

\* A run that has saved and has not pruned.
IsPruning(a) == phase[a] \in {"junk", "stale"}

CompetitorsTypeOK ==
    /\ Tracked \subseteq RivalNames
    /\ \A n \in Tracked : rivals[n] \in Row
    /\ round \in 0 .. MaxRounds
    /\ phase \in [Agents -> {"idle", "search", "save", "junk", "stale", "done"}]
    /\ known \in [Agents -> SUBSET RivalNames]
    /\ began \in [Agents -> 0 .. MaxRounds]
    /\ found \in [Agents -> Findings]
    /\ toSave \in [Agents -> [RivalNames -> Saving]]
    /\ pruning \in [Agents -> Pruning]
    /\ listedRivals \in [Refreshers -> SUBSET RivalNames]
    /\ dropped \in [Refreshers -> SUBSET RivalNames]
    /\ writing \in [Refreshers -> [on : BOOLEAN, name : RivalNames, new : BOOLEAN]]
    /\ doubled \subseteq RivalNames
    /\ <<entangled, tattered>> \in BOOLEAN \X BOOLEAN

\* The table is empty, or has a row from the time before channels had to qualify.
CompetitorsInit ==
    /\ \/ rivals = <<>>
       \/ \E h \in Handles : rivals = [n \in {h} |->
            [size |-> "junk", at |-> 0, rank |-> 1, ids |-> 0]]
    /\ round = 0
    /\ phase = [a \in Agents |-> "idle"]
    /\ known = [a \in Agents |-> {}]
    /\ began = [a \in Agents |-> 0]
    /\ found = [a \in Agents |-> Nothing]
    /\ toSave = [a \in Agents |-> NoSaving]
    /\ pruning = [a \in Agents |-> NoPruning]
    /\ listedRivals = [k \in Refreshers |-> {}]
    /\ dropped = [k \in Refreshers |-> {}]
    /\ writing = [k \in Refreshers |-> NotWritingPosts]
    /\ doubled = {}
    /\ entangled = FALSE
    /\ tattered = FALSE

Enter(a, step) == phase' = [phase EXCEPT ![a] = step]

\* The session of run a goes on as s.  It has written the table or not, and deleted the rows
\* `gone': the sessions of the others hold these no more, and cannot write them.
GoesOn(a, s, wrote, gone) ==
    pruning' = [b \in Agents |->
        LET t == pruning[b]
        IN  IF b = a THEN s
            ELSE IF t.stage = "select" THEN t
            ELSE [stage |-> IF t.stage = "rank" /\ \E n \in gone : t.ranks[n] # 0
                              THEN "lost" ELSE t.stage,
                  ranks |-> [n \in RivalNames |-> IF n \in gone THEN 0 ELSE t.ranks[n]],
                  doomed |-> t.doomed \ gone,
                  disturbed |-> t.disturbed \/ wrote]]

-----------------------------------------------------------------------------
(***************************************************************************)
(* A run of the agent.                                                     *)
(***************************************************************************)

\* get_tracked_usernames, which are the handles the searches are to pass over.
BeginSearch(a) ==
    /\ ~Active(a)
    /\ round + Cardinality({b \in Agents : phase[b] = "search"}) < MaxRounds
    /\ known' = [known EXCEPT ![a] = Tracked]
    /\ found' = [b \in Agents |-> IF Active(b) THEN found[b] ELSE Nothing]
    /\ phase' = [b \in Agents |-> IF b = a THEN "search"
                                  ELSE IF Active(b) THEN phase[b] ELSE "idle"]
    /\ entangled' = (entangled \/ \E b \in Agents : Active(b))
    /\ UNCHANGED <<rivals, round, began, toSave, pruning, refresh, doubled, tattered>>

\* An entry: its name, whether it has figures, and whether it has posts with ids.
Entry(source, name, peer, ids) ==
    [source |-> source, name |-> name, peer |-> peer, ids |-> ids]

\* A channel found: the public web preview gives no message ids, and a channel of other topics
\* is demoted to an entry without figures, unless a keyword search has found it by MTProto.
ChannelEntry(source, h, web, demoted) ==
    Entry(source, h, h \notin demoted \/ (source = "keyword" /\ h \notin web), h \notin web)

\* A search by keyword or by recommendation enriches handles not seen; one check comes
\* before an await and the entry after it, so both may give the same channel.
EnrichedRivals(a, searched, recommended, web, demoted) ==
    {ChannelEntry("keyword", h, web, demoted) : h \in searched \ known[a]}
        \cup {ChannelEntry("recommendation", h, web, demoted) : h \in recommended \ known[a]}

\* A brand has one of its handles, unless it has been seen, or else its key.
ResolvedBrands(a, seen, brands, handle, web, demoted) ==
    {IF handle[b] \in Handles \ (known[a] \cup seen)
       THEN ChannelEntry(b, handle[b], web, demoted)
       ELSE Entry(b, Key[b], FALSE, FALSE) : b \in brands}

\* The first TOP_N entries: those with figures first.
Shortened(entries, S) ==
    /\ S \subseteq entries
    /\ Cardinality(S) = IF Cardinality(entries) < TopN THEN Cardinality(entries) ELSE TopN
    /\ \A e \in entries \ S : e.peer => \A f \in S : f.peer

\* Entries of a name overwrite the earlier ones, and those without figures are last; the rank
\* is the place of the last entry.
ToSave(S) ==
    LET names == {e.name : e \in S}
        peers == {n \in names : \A e \in S : e.name = n => e.peer}
    IN  [n \in RivalNames |->
            IF n \notin names THEN NoSaving[n]
            ELSE [peer  |-> n \in peers,
                  rank  |-> Cardinality({e \in S : \/ n \notin peers /\ e.peer
                                                   \/ /\ n \in peers => e.peer
                                                      /\ Strength[e.name] >= Strength[n]}),
                  ids   |-> Cardinality({e \in S : e.name = n /\ e.ids}),
                  bare  |-> \E e \in S : e.name = n /\ ~e.ids,
                  times |-> Cardinality({e \in S : e.name = n})]]

\* The channels tracked then and now that are no junk.
Comparable(a) == {n \in known[a] \cap Tracked : rivals[n].size # "junk"}

\* Discovery.  What qualifies, what the brands are and which handles they have is the
\* world's; it sees rivals whether or not they are tracked.  The run notes the time.
Discover(a) ==
    /\ phase[a] = "search"
    /\ \E searched, recommended, web, demoted \in SUBSET Handles :
       \E brands \in SUBSET Brands, handle \in [Brands -> RivalNames] :
       LET firsts  == EnrichedRivals(a, searched, recommended, web, demoted)
           entries == firsts \cup ResolvedBrands(a, {e.name : e \in firsts}, brands, handle,
                                                 web, demoted)
       IN  \E S \in SUBSET entries :
            /\ Shortened(entries, S)
            /\ found' = [found EXCEPT ![a] =
                    [names |-> {e.name : e \in S}, length |-> Cardinality(S),
                     again |-> (searched \cup recommended) \cap Comparable(a)]]
            /\ toSave' = [toSave EXCEPT ![a] = ToSave(S)]
    /\ Enter(a, "save")
    /\ round' = round + 1
    /\ began' = [began EXCEPT ![a] = round + 1]
    /\ known' = [known EXCEPT ![a] = {}]
    /\ UNCHANGED <<rivals, pruning, refresh, doubled, entangled, tattered>>

\* How many posts of a name stay, of all its entries: a later entry deletes the posts of the
\* earlier ones only where a new row of another name has flushed them (autoflush is off).
StoredIds(a, n) ==
    LET s == toSave[a][n]
    IN  {i \in 0 .. s.ids :
            \/ i = s.ids
            \/ s.times > 1 /\ (s.bare \/ i > 0) /\ ~(found[a].names \ {n} \subseteq Tracked)}

SavedRow(a, n, ids) ==
    [size |-> IF toSave[a][n].peer THEN "peer" ELSE "unknown", at |-> round,
     rank |-> toSave[a][n].rank, ids |-> ids]

\* The names whose posts a save and another writer are adding at the same time.
Contested(a) ==
    {n \in found[a].names :
        \/ \E k \in Refreshers : writing[k].on /\ writing[k].name = n
        \/ \E b \in Agents \ {a} : phase[b] = "save" /\ n \in found[b].names}

\* save_competitors: all rows in one session, posts replaced.
SaveRivals(a) ==
    /\ phase[a] = "save"
    /\ \E ids \in [found[a].names -> 0 .. TopN] :
        /\ \A n \in found[a].names : ids[n] \in StoredIds(a, n)
        /\ rivals' = [n \in Tracked \cup found[a].names |->
                        IF n \in found[a].names THEN SavedRow(a, n, ids[n]) ELSE rivals[n]]
    /\ doubled' = doubled \cup Contested(a) \cup {n \in found[a].names : toSave[a][n].times > 1}
    /\ toSave' = [toSave EXCEPT ![a] = NoSaving]
    /\ GoesOn(a, NoPruning, TRUE, {})
    /\ Enter(a, "junk")
    /\ UNCHANGED <<round, known, began, found, refresh, entangled, tattered>>

-----------------------------------------------------------------------------
(***************************************************************************)
(* prune_unqualified_competitors, and prune_stale_competitors after it if  *)
(* the list is not short: each in one session that selects the rows,       *)
(* deletes some, selects the survivors and ranks them.  The second select  *)
(* does not refresh the rows that the session has (expire_on_commit is     *)
(* off), and only ranks that differ from those it has are written.         *)
(***************************************************************************)

\* Variant: a row refreshed at the time the run began is stale.
StaleFromStart(a, n) == rivals[n].at <= began[a]

Stale(a, n) == rivals[n].at < began[a]

ToDelete(a) ==
    {n \in Tracked : IF phase[a] = "junk" THEN rivals[n].size = "junk" ELSE Stale(a, n)}

SelectRivals(a) ==
    /\ IsPruning(a)
    /\ pruning[a].stage = "select"
    /\ pruning' = [pruning EXCEPT ![a] =
            [stage |-> "delete",
             ranks |-> [n \in RivalNames |-> IF n \in Tracked THEN rivals[n].rank ELSE 0],
             doomed |-> ToDelete(a), disturbed |-> FALSE]]
    /\ UNCHANGED <<rivals, round, agents, refresh, doubled, entangled, tattered>>

EndPruning(a) ==
    Enter(a, IF phase[a] = "junk" /\ found[a].length >= Healthy THEN "stale" ELSE "done")

\* Variant: nothing to delete, nothing to rank.
DeleteOrReturn(a) ==
    /\ pruning[a].stage = "delete"
    /\ LET gone == pruning[a].doomed
       IN  /\ rivals' = [n \in Tracked \ gone |-> rivals[n]]
           /\ dropped' = [k \in Refreshers |-> dropped[k] \cup (listedRivals[k] \cap gone)]
           /\ IF gone = {}
                THEN GoesOn(a, NoPruning, FALSE, {}) /\ EndPruning(a)
                ELSE /\ GoesOn(a, [stage |-> "reselect", ranks |-> NoRanks, doomed |-> {},
                                   disturbed |-> FALSE], TRUE, gone)
                     /\ UNCHANGED phase
    /\ UNCHANGED <<round, known, began, found, toSave, listedRivals, writing, doubled,
                   entangled, tattered>>

DeleteDoomed(a) ==
    /\ pruning[a].stage = "delete"
    /\ LET gone == pruning[a].doomed
       IN  /\ rivals' = [n \in Tracked \ gone |-> rivals[n]]
           /\ dropped' = [k \in Refreshers |-> dropped[k] \cup (listedRivals[k] \cap gone)]
           /\ GoesOn(a, [stage |-> "reselect",
                         ranks |-> [n \in RivalNames |->
                                        IF n \in gone THEN 0 ELSE pruning[a].ranks[n]],
                         doomed |-> {}, disturbed |-> pruning[a].disturbed],
                     gone # {}, gone)
    /\ UNCHANGED <<round, agents, listedRivals, writing, doubled, entangled, tattered>>

\* The row of a name whose rank score is higher; names without Telegram figures have none
\* and come last.
Ahead(n, m) ==
    \/ rivals[n].size # "unknown" /\ rivals[m].size = "unknown"
    \/ /\ (rivals[n].size = "unknown") = (rivals[m].size = "unknown")
       /\ Strength[n] > Strength[m]

RankOf(m) == 1 + Cardinality({n \in Tracked : Ahead(n, m)})

\* The rank of a survivor as the session knows it.
KnownRank(a, n) == IF pruning[a].ranks[n] # 0 THEN pruning[a].ranks[n] ELSE rivals[n].rank

SelectSurvivors(a) ==
    /\ pruning[a].stage = "reselect"
    /\ pruning' = [pruning EXCEPT ![a].stage = "rank",
            ![a].ranks = [n \in RivalNames |->
                IF n \in Tracked /\ RankOf(n) # KnownRank(a, n) THEN RankOf(n) ELSE 0]]
    /\ UNCHANGED <<rivals, round, agents, refresh, doubled, entangled, tattered>>

WriteRanks(a) ==
    /\ pruning[a].stage = "rank"
    /\ LET ranks == pruning[a].ranks
       IN  /\ rivals' = [n \in Tracked |->
                IF ranks[n] = 0 THEN rivals[n] ELSE [rivals[n] EXCEPT !.rank = ranks[n]]]
           /\ GoesOn(a, NoPruning, ranks # NoRanks, {})
    /\ EndPruning(a)
    /\ tattered' = pruning[a].disturbed
    /\ UNCHANGED <<round, known, began, found, toSave, refresh, doubled, entangled>>

\* An exception or a cancellation; a save that meets a row another run has just made, and
\* ranks for a row that is gone, end so.
Abort(a) ==
    /\ Active(a)
    /\ Enter(a, "idle")
    /\ found' = [found EXCEPT ![a] = Nothing]
    /\ toSave' = [toSave EXCEPT ![a] = NoSaving]
    /\ pruning' = [pruning EXCEPT ![a] = NoPruning]
    /\ tattered' = (tattered \/ IsPruning(a))
    /\ UNCHANGED <<rivals, round, known, began, refresh, doubled, entangled>>

-----------------------------------------------------------------------------
(***************************************************************************)
(* refresh_competitor_posts_for_channel.                                   *)
(***************************************************************************)
List(k) ==
    /\ listedRivals[k] = {}
    /\ listedRivals' = [listedRivals EXCEPT ![k] = {n \in Tracked : rivals[n].size # "unknown"}]
    /\ UNCHANGED <<rivals, round, agents, pruning, dropped, writing, doubled, entangled, tattered>>

Visited(k, n) ==
    /\ listedRivals' = [listedRivals EXCEPT ![k] = @ \ {n}]
    /\ dropped' = [dropped EXCEPT ![k] = @ \ {n}]

\* The posts could not be fetched.
Skip(k, n) ==
    /\ ~writing[k].on
    /\ n \in listedRivals[k]
    /\ Visited(k, n)
    /\ UNCHANGED <<rivals, round, agents, pruning, writing, doubled, entangled, tattered>>

\* Variant: the messages stored are not looked up.
IsNewAlways(k, n) == TRUE

\* Posts without an id are left out.
IsNew(k, n) == n \in dropped[k] \/ rivals[n].ids = 0

\* The ids stored are read...
ReadPosts(k, n) ==
    /\ ~writing[k].on
    /\ n \in listedRivals[k]
    /\ writing' = [writing EXCEPT ![k] = [on |-> TRUE, name |-> n, new |-> IsNew(k, n)]]
    /\ UNCHANGED <<rivals, round, agents, pruning, listedRivals, dropped, doubled, entangled,
                   tattered>>

\* ... and the new ones added.
WritePosts(k) ==
    /\ writing[k].on
    /\ LET n == writing[k].name
       IN  /\ IF writing[k].new
                THEN /\ n \notin dropped[k]
                     /\ rivals' = [rivals EXCEPT ![n].ids = @ + 1]
                     /\ doubled' = doubled \cup
                            {m \in {n} : \/ \E j \in Refreshers \ {k} :
                                                writing[j].on /\ writing[j].name = n
                                         \/ \E a \in Agents :
                                                phase[a] = "save" /\ n \in found[a].names}
                ELSE UNCHANGED <<rivals, doubled>>
           /\ Visited(k, n)
    /\ writing' = [writing EXCEPT ![k] = NotWritingPosts]
    /\ UNCHANGED <<round, agents, pruning, entangled, tattered>>

\* The rival has been deleted: the exception ends the refresh of the others as well.
EndRefresh(k) ==
    /\ writing[k].on
    /\ writing[k].name \in dropped[k]
    /\ listedRivals' = [listedRivals EXCEPT ![k] = {}]
    /\ dropped' = [dropped EXCEPT ![k] = {}]
    /\ writing' = [writing EXCEPT ![k] = NotWritingPosts]
    /\ UNCHANGED <<rivals, round, agents, pruning, doubled, entangled, tattered>>

-----------------------------------------------------------------------------
AgentStep(a) ==
    \/ BeginSearch(a)
    \/ Discover(a)
    \/ SaveRivals(a)
    \/ SelectRivals(a)
    \/ DeleteDoomed(a)
    \/ SelectSurvivors(a)
    \/ WriteRanks(a)
    \/ Abort(a)

RefreshStep(k) ==
    \/ List(k)
    \/ \E n \in RivalNames : Skip(k, n) \/ ReadPosts(k, n)
    \/ WritePosts(k)
    \/ EndRefresh(k)

CompetitorsNext ==
    \/ \E a \in Agents : AgentStep(a)
    \/ \E k \in Refreshers : RefreshStep(k)

CompetitorsSpec == CompetitorsInit /\ [][CompetitorsNext]_competitorVars

-----------------------------------------------------------------------------
(***************************************************************************)
(* Properties.                                                             *)
(***************************************************************************)

\* Ranks are 1, 2, ... without a gap or a tie whenever no run is between its save and its
\* last pruning: whatever runs overlapped or ended early before, one pruning that no other
\* run wrote into mends the ranks (tools/competitor.py:842-891).
RanksAreContiguous ==
    ~tattered /\ (\A a \in Agents : ~IsPruning(a)) =>
        {rivals[n].rank : n \in Tracked} = 1 .. Cardinality(Tracked)

\* "Removing them gives the re-run true replace-semantics": a run alone that finds a
\* healthy list leaves that list and nothing else (agents/competitor_intelligence.py:339-347).
HealthyRunReplaces ==
    \A a \in Agents :
        phase[a] = "done" /\ found[a].length >= Healthy /\ ~entangled =>
            Tracked = found[a].names

\* "Adds new posts by telegram_message_id (dedup)": whatever runs and refreshes do between the
\* two sessions of a refresh, a rival has one post of a message id, unless two of them wrote
\* its posts at a time or it was saved from two entries (tools/competitor.py:894-960).
MessageStoredOnce == \A n \in Tracked \ doubled : rivals[n].ids <= 1

\* "Delete competitors not (re)discovered in the latest run": a tracked channel, not junk,
\* that the run's searches meet again is still tracked when the run ends
\* (tools/competitor.py:829-840).
RediscoveredIsKept ==
    \A a \in Agents : phase[a] = "done" /\ ~entangled => found[a].again \subseteq Tracked
=============================================================================
