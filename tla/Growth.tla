-------------------------------- MODULE Growth --------------------------------
(***************************************************************************)
(* The growth figures of one channel.  Pollers sample the subscriber count *)
(* every ten minutes and keep today's daily snapshot current; runs of the  *)
(* Analytics Agent compare with the previous snapshot, or with the         *)
(* readings, and insert a snapshot of their own; onboarding replaces the   *)
(* daily snapshots by a history taken from the channel's posts.            *)
(*                                                                         *)
(* Every call of a tool is a database session of its own, and a step is    *)
(* what runs between two of them.  Time advances in half days, because     *)
(* backfilled snapshots are dated at noon.                                 *)
(***************************************************************************)
EXTENDS Integers

CONSTANTS
    Pollers,     \* processes that run poll_subscribers
    Runs,        \* tasks that run the Analytics Agent
    RunKind,     \* [Runs -> {"daily", "weekly", "onboard"}]; the monthly audit is a
                 \* weekly run with another type of snapshot
    MaxTime,     \* bound: last half day
    MaxRows      \* bound: snapshots inserted

GrowthAssumption ==
    /\ RunKind \in [Runs -> {"daily", "weekly", "onboard"}]
    /\ MaxTime \in Nat
    /\ MaxRows \in Nat

VARIABLES
    time,        \* the clock, in half days
    snaps,       \* analytics_snapshots
    inserted,    \* snapshots inserted so far; their number is their id
    sampled,     \* there is a row in subscriber_readings
    poll,        \* what each poller has looked up for the row it is to write
    run,         \* where each run is
    base,        \* what it compares with
    (* history *)
    informed,    \* there were readings when the run read the previous snapshot
    overlapped   \* two pollers have been writing at a time

readings == <<sampled, poll, overlapped>>
runVars  == <<run, base, informed>>
growthVars == <<time, snaps, inserted, readings, runVars>>

Days == 0 .. MaxTime
Today == time \div 2
Noon(day) == 2 * day + 1

\* A snapshot: its type, period_end, created_at, whether it has a subscriber count, and
\* what made it.
Rows == [id : 1 .. MaxRows, type : {"daily", "weekly"}, end : Days, at : Nat,
         counted : BOOLEAN, by : {"poll", "analytics", "backfill"}]

\* What a run compares with: nothing, the snapshot of a period that ended on a day, or
\* the readings.
Bases == [source : {"none", "snapshot", "readings"}, end : Days]
NoBase == [source |-> "none", end |-> 0]
Readings == [source |-> "readings", end |-> 0]

\* A poller between its query and its commit: the day, and the row it found, if any.
NotWriting == [on |-> FALSE, day |-> 0, row |-> 0]

GrowthTypeOK ==
    /\ time \in 0 .. MaxTime
    /\ snaps \subseteq Rows
    /\ inserted \in 0 .. MaxRows
    /\ sampled \in BOOLEAN
    /\ poll \in [Pollers -> [on : BOOLEAN, day : Days, row : 0 .. MaxRows]]
    /\ run \in [Runs -> {"idle", "patch", "save", "backfill"}]
    /\ base \in [Runs -> Bases]
    /\ informed \in [Runs -> BOOLEAN]
    /\ overlapped \in BOOLEAN

GrowthInit ==
    /\ time = 0
    /\ snaps = {}
    /\ inserted = 0
    /\ sampled = FALSE
    /\ poll = [p \in Pollers |-> NotWriting]
    /\ run = [a \in Runs |-> "idle"]
    /\ base = [a \in Runs |-> NoBase]
    /\ informed = [a \in Runs |-> FALSE]
    /\ overlapped = FALSE

\* ORDER BY created_at DESC LIMIT 1: rows created at one time come in any order.
IsNewest(r, S) == r \in S /\ \A q \in S : q.at <= r.at

NewRow(type, end, at, counted, by) ==
    [id |-> inserted + 1, type |-> type, end |-> end, at |-> at, counted |-> counted, by |-> by]

\* Room for one more row.
Insert ==
    /\ inserted < MaxRows
    /\ inserted' = inserted + 1

-----------------------------------------------------------------------------
(***************************************************************************)
(* poll_subscribers, for the channel.  A count Telegram does not give is   *)
(* not recorded and is not a step.                                         *)
(***************************************************************************)

\* Variant: the date of the lookup is a day behind.
Yesterdays == {r \in snaps : r.type = "daily" /\ r.end = Today - 1}

Todays == {r \in snaps : r.type = "daily" /\ r.end = Today}

\* The poller keeps today's date and the row, by its id, or 0.
StartWriting(p, row) == poll' = [poll EXCEPT ![p] = [on |-> TRUE, day |-> Today, row |-> row]]

\* record_subscriber_reading up to its query.
PollReads(p) ==
    /\ ~poll[p].on
    /\ \/ Todays = {} /\ StartWriting(p, 0)
       \/ \E r \in Todays : IsNewest(r, Todays) /\ StartWriting(p, r.id)
    /\ overlapped' = (overlapped \/ \E q \in Pollers : poll[q].on)
    /\ UNCHANGED <<time, snaps, inserted, sampled, runVars>>

Written(p) ==
    /\ sampled' = TRUE
    /\ poll' = [poll EXCEPT ![p] = NotWriting]
    /\ UNCHANGED <<time, overlapped, runVars>>

\* The commit: the reading, and a new snapshot...
PollInserts(p) ==
    /\ poll[p].on
    /\ poll[p].row = 0
    /\ Insert
    /\ snaps' = snaps \cup {NewRow("daily", poll[p].day, time, TRUE, "poll")}
    /\ Written(p)

\* ... or the count of the snapshot found, if it is still there.
PollUpdates(p) ==
    /\ poll[p].on
    /\ \E r \in snaps :
        /\ r.id = poll[p].row
        /\ snaps' = (snaps \ {r}) \cup {[r EXCEPT !.counted = TRUE]}
    /\ UNCHANGED inserted
    /\ Written(p)

\* The row has been deleted meanwhile, or the commit fails: nothing is recorded, and
\* the exception ends the poll.
PollFails(p) ==
    /\ poll[p].on
    /\ poll' = [poll EXCEPT ![p] = NotWriting]
    /\ UNCHANGED <<time, snaps, inserted, sampled, overlapped, runVars>>

-----------------------------------------------------------------------------
(***************************************************************************)
(* The Analytics Agent and the backfill.                                   *)
(***************************************************************************)
SnapshotType(a) == IF RunKind[a] = "weekly" THEN "weekly" ELSE "daily"

Previous(a) == {r \in snaps : r.type = SnapshotType(a)}

\* A snapshot without a count, or with count 0, gives no delta.
BaseOf(r) == IF r.counted THEN [source |-> "snapshot", end |-> r.end] ELSE NoBase

\* get_previous_snapshot.
AnalyseGrowth(a) ==
    /\ run[a] = "idle"
    /\ \/ Previous(a) = {} /\ base' = [base EXCEPT ![a] = NoBase]
       \/ \E r \in Previous(a) : /\ IsNewest(r, Previous(a))
                                 /\ base' = [base EXCEPT ![a] = BaseOf(r)]
    /\ run' = [run EXCEPT ![a] = "patch"]
    /\ informed' = [informed EXCEPT ![a] = sampled]
    /\ UNCHANGED <<time, snaps, inserted, readings>>

\* Variants: the readings replace the source but keep its day, or are asked only when
\* there are no snapshots at all.
PatchedTwice(b) == IF sampled THEN [b EXCEPT !.source = "reading"] ELSE b
PatchedIfEmpty(b) == IF b = NoBase /\ sampled /\ snaps = {} THEN Readings ELSE b

\* Without a delta the readings are asked for one.
Patched(b) == IF b = NoBase /\ sampled THEN Readings ELSE b

Patch(a) ==
    /\ run[a] = "patch"
    /\ base' = [base EXCEPT ![a] = Patched(@)]
    /\ run' = [run EXCEPT ![a] = "save"]
    /\ UNCHANGED <<time, snaps, inserted, readings, informed>>

AfterSnapshot(a) == IF RunKind[a] = "onboard" THEN "backfill" ELSE "idle"

EndRun(a) ==
    /\ run' = [run EXCEPT ![a] = AfterSnapshot(a)]
    /\ base' = [base EXCEPT ![a] = NoBase]
    /\ informed' = [informed EXCEPT ![a] = FALSE]

\* save_analytics_snapshot always inserts; a count that Telegram hides is saved as 0.
SaveSnapshot(a) ==
    /\ run[a] = "save"
    /\ Insert
    /\ \E counted \in BOOLEAN :
        snaps' = snaps \cup {NewRow(SnapshotType(a), Today, time, counted, "analytics")}
    /\ EndRun(a)
    /\ UNCHANGED <<time, readings>>

\* The agent ends with an exception, which its caller swallows.
Fail(a) ==
    /\ run[a] \in {"patch", "save"}
    /\ EndRun(a)
    /\ UNCHANGED <<time, snaps, inserted, readings>>

\* save_real_daily_history: all daily snapshots give way to those of the days that have
\* posts (here one day), without counts and dated at noon, be that past or to come.
Backfill(a) ==
    /\ run[a] = "backfill"
    /\ Insert
    /\ \E day \in 0 .. Today :
        snaps' = {r \in snaps : r.type # "daily"}
                    \cup {NewRow("daily", day, Noon(day), FALSE, "backfill")}
    /\ run' = [run EXCEPT ![a] = "idle"]
    /\ UNCHANGED <<time, readings, base, informed>>

\* No posts, or an exception.
NoBackfill(a) ==
    /\ run[a] = "backfill"
    /\ run' = [run EXCEPT ![a] = "idle"]
    /\ UNCHANGED <<time, snaps, inserted, readings, base, informed>>

NextPeriod ==
    /\ time < MaxTime
    /\ time' = time + 1
    /\ UNCHANGED <<snaps, inserted, readings, runVars>>

-----------------------------------------------------------------------------
PollerStep(p) ==
    \/ PollReads(p)
    \/ PollInserts(p)
    \/ PollUpdates(p)
    \/ PollFails(p)

RunStep(a) ==
    \/ AnalyseGrowth(a)
    \/ Patch(a)
    \/ SaveSnapshot(a)
    \/ Fail(a)
    \/ Backfill(a)
    \/ NoBackfill(a)

GrowthNext ==
    \/ \E p \in Pollers : PollerStep(p)
    \/ \E a \in Runs : RunStep(a)
    \/ NextPeriod

GrowthSpec == GrowthInit /\ [][GrowthNext]_growthVars

-----------------------------------------------------------------------------
(***************************************************************************)
(* Properties.                                                             *)
(***************************************************************************)

\* However polls, analytics runs and backfills interleave, polls make one snapshot a
\* day, unless two of them write at a time (tools/subscribers.py:32-51).
OnePolledRow ==
    ~overlapped =>
        \A r, q \in snaps : r.by = "poll" /\ q.by = "poll" /\ r.end = q.end => r = q

\* Once the channel has been sampled, every run of the Analytics Agent that begins has
\* a delta to save, be the snapshots backfilled, replaced or of an unknown count
\* (agents/analytics.py:56-86).
SampledRunHasDelta ==
    \A a \in Runs : run[a] = "save" /\ informed[a] => base[a] # NoBase

\* "subscriber_delta | INT | Change from previous period" (db_schema.md:198): what a
\* run saves compares with a period that ended before its own.
DeltaIsAcrossPeriods ==
    \A a \in Runs : run[a] = "save" /\ base[a].source = "snapshot" => base[a].end < Today
=============================================================================
