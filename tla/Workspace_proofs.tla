--------------------------- MODULE Workspace_proofs ---------------------------
(***************************************************************************)
(* Proofs about the parts of the workspace: the readings and snapshots of  *)
(* Growth, the table of rivals of Competitors, the feeds of Sources, and   *)
(* the users, organisations and settings of Tenancy; then, with the proofs *)
(* about Planning and Deals, about all of the parts together.              *)
(***************************************************************************)
EXTENDS WorkspaceParts, Planning_proofs, Deals_proofs, Order_proofs, FiniteSetTheorems,
        FunctionTheorems, TLAPS

-----------------------------------------------------------------------------
(***************************************************************************)
(* Proofs about Growth, for any pollers, runs and bounds.                  *)
(*                                                                         *)
(* A poller that found no row of its day inserts one, so GrowthInv says    *)
(* that there is still none when it does: only another poller could make   *)
(* one, and two that write at a time are what overlapped records.          *)
(***************************************************************************)
\* The readings that a run was informed of stay, and a run that may save has asked them.
Informed ==
    \A a \in Runs :
        /\ informed[a] => sampled
        /\ run[a] = "save" /\ informed[a] => base[a] # NoBase

Polled(day) == {r \in snaps : r.by = "poll" /\ r.end = day}

\* Polled rows are daily ones, one a day, and a poller that is to insert has none yet.
OneWriter ==
    ~overlapped =>
        /\ \A p, q \in Pollers : poll[p].on /\ poll[q].on => p = q
        /\ \A p \in Pollers : poll[p].on /\ poll[p].row = 0 => Polled(poll[p].day) = {}
        /\ \A r, q \in snaps : r.by = "poll" /\ q.by = "poll" /\ r.end = q.end => r = q

PolledAreDaily == \A r \in snaps : r.by = "poll" => r.type = "daily"

GrowthInv ==
    /\ GrowthTypeOK
    /\ Informed
    /\ PolledAreDaily
    /\ OneWriter

-----------------------------------------------------------------------------
(***************************************************************************)
(* Lemmas.                                                                 *)
(***************************************************************************)
LEMMA TodayIsADay ==
    ASSUME GrowthAssumption, GrowthTypeOK
    PROVE  Today \in Days
BY DEF GrowthAssumption, GrowthTypeOK, Today, Days

LEMMA NewRowIsRow ==
    ASSUME GrowthAssumption, GrowthTypeOK, inserted < MaxRows, NEW type \in {"daily", "weekly"},
           NEW end \in Days, NEW at \in Nat, NEW counted \in BOOLEAN,
           NEW by \in {"poll", "analytics", "backfill"}
    PROVE  NewRow(type, end, at, counted, by) \in Rows
<1>1. inserted + 1 \in 1 .. MaxRows
    BY DEF GrowthAssumption, GrowthTypeOK
<1> QED BY <1>1 DEF NewRow, Rows

LEMMA BasesAreTyped ==
    ASSUME GrowthAssumption, NEW r \in Rows
    PROVE  BaseOf(r) \in Bases
<1>1. r.end \in Days /\ 0 \in Days
    BY DEF Rows, Days, GrowthAssumption
<1> QED BY <1>1 DEF BaseOf, Bases, NoBase

LEMMA NoBaseIsTyped ==
    ASSUME GrowthAssumption
    PROVE  NoBase \in Bases /\ Readings \in Bases /\ NoBase # Readings
<1>1. 0 \in Days
    BY DEF GrowthAssumption, Days
<1>2. NoBase \in Bases /\ Readings \in Bases
    BY <1>1 DEF NoBase, Readings, Bases
<1>3. NoBase.source # Readings.source
    BY DEF NoBase, Readings
<1> QED BY <1>2, <1>3

-----------------------------------------------------------------------------
(***************************************************************************)
(* The steps of a poller.                                                  *)
(***************************************************************************)
LEMMA PollReadsStep ==
    ASSUME GrowthAssumption, GrowthInv, NEW p \in Pollers, PollReads(p)
    PROVE  GrowthInv'
<1> USE DEF GrowthInv
<1>1. UNCHANGED <<time, snaps, inserted, sampled, run, base, informed>> /\ ~poll[p].on
    BY DEF PollReads, runVars
<1>2. overlapped' = (overlapped \/ \E q \in Pollers : poll[q].on)
    BY DEF PollReads
<1>3. PICK row \in 0 .. MaxRows :
        /\ StartWriting(p, row)
        /\ row = 0 => Todays = {}
    <2>1. CASE Todays = {} /\ StartWriting(p, 0)
        BY <2>1 DEF GrowthAssumption
    <2>2. CASE \E r \in Todays : IsNewest(r, Todays) /\ StartWriting(p, r.id)
        <3>1. \A r \in Todays : r.id \in 1 .. MaxRows
            BY DEF Todays, GrowthTypeOK, Rows
        <3> QED BY <2>2, <3>1 DEF GrowthAssumption
    <2> QED BY <2>1, <2>2 DEF PollReads
<1>4. poll' = [poll EXCEPT ![p] = [on |-> TRUE, day |-> Today, row |-> row]]
    BY <1>3 DEF StartWriting
<1>5. GrowthTypeOK'
    BY <1>1, <1>2, <1>4, TodayIsADay DEF GrowthTypeOK
<1>6. Informed' /\ PolledAreDaily'
    BY <1>1 DEF Informed, PolledAreDaily, NoBase
<1>7. OneWriter'
    <2>1. SUFFICES ASSUME ~overlapped'
                   PROVE  OneWriter'
        BY DEF OneWriter
    <2>2. ~overlapped /\ \A q \in Pollers : ~poll[q].on
        BY <1>2, <2>1
    <2>3. \A q \in Pollers \ {p} : poll'[q] = poll[q]
        BY <1>4 DEF GrowthTypeOK
    <2>4. poll'[p].row = row /\ poll'[p].day = Today
        BY <1>4 DEF GrowthTypeOK
    <2>5. \A q \in Pollers : poll'[q].on => q = p
        BY <2>2, <2>3
    <2>6. row = 0 => Polled(Today)' = {}
        BY <1>1, <1>3 DEF Polled, Todays, PolledAreDaily, Today
    <2> QED BY <1>1, <2>2, <2>4, <2>5, <2>6 DEF OneWriter, Polled, Today
<1> QED BY <1>5, <1>6, <1>7

LEMMA PollInsertsStep ==
    ASSUME GrowthAssumption, GrowthInv, NEW p \in Pollers, PollInserts(p)
    PROVE  GrowthInv'
<1> USE DEF GrowthInv
<1> DEFINE row == NewRow("daily", poll[p].day, time, TRUE, "poll")
<1>1. /\ poll[p].on /\ poll[p].row = 0 /\ inserted < MaxRows /\ inserted' = inserted + 1
      /\ snaps' = snaps \cup {row} /\ sampled' = TRUE
      /\ poll' = [poll EXCEPT ![p] = NotWriting]
      /\ UNCHANGED <<time, overlapped, run, base, informed>>
    BY DEF PollInserts, Insert, Written, runVars
<1>2. row \in Rows
    <2>1. poll[p].day \in Days /\ time \in Nat
        BY DEF GrowthTypeOK
    <2> QED BY <1>1, <2>1, NewRowIsRow
<1>3. row.by = "poll" /\ row.type = "daily" /\ row.end = poll[p].day
    BY DEF NewRow
<1> HIDE DEF row
<1>4. GrowthTypeOK'
    <2>1. NotWriting \in [on : BOOLEAN, day : Days, row : 0 .. MaxRows]
        BY DEF NotWriting, GrowthAssumption, Days
    <2> QED BY <1>1, <1>2, <2>1 DEF GrowthTypeOK, GrowthAssumption
<1>5. Informed' /\ PolledAreDaily'
    BY <1>1, <1>3 DEF Informed, PolledAreDaily, NoBase
<1>6. OneWriter'
    <2>1. SUFFICES ASSUME ~overlapped
                   PROVE  OneWriter'
        BY <1>1 DEF OneWriter
    <2>2. \A q \in Pollers : ~poll'[q].on
        BY <1>1, <2>1 DEF OneWriter, GrowthTypeOK, NotWriting
    <2>3. Polled(poll[p].day) = {}
        BY <1>1, <2>1 DEF OneWriter
    <2> QED BY <1>1, <1>3, <2>1, <2>2, <2>3 DEF OneWriter, Polled
<1> QED BY <1>4, <1>5, <1>6

LEMMA PollUpdatesStep ==
    ASSUME GrowthAssumption, GrowthInv, NEW p \in Pollers, PollUpdates(p)
    PROVE  GrowthInv'
<1> USE DEF GrowthInv
<1>1. PICK r \in snaps : snaps' = (snaps \ {r}) \cup {[r EXCEPT !.counted = TRUE]}
    BY DEF PollUpdates
<1> DEFINE row == [r EXCEPT !.counted = TRUE]
<1>2. /\ poll[p].on /\ sampled' = TRUE
      /\ poll' = [poll EXCEPT ![p] = NotWriting]
      /\ UNCHANGED <<time, inserted, overlapped, run, base, informed>>
    BY DEF PollUpdates, Written, runVars
<1>3. row \in Rows /\ row.by = r.by /\ row.type = r.type /\ row.end = r.end
    BY DEF GrowthTypeOK, Rows
<1> HIDE DEF row
<1>4. snaps' = (snaps \ {r}) \cup {row}
    BY <1>1 DEF row
<1>5. GrowthTypeOK'
    <2>1. NotWriting \in [on : BOOLEAN, day : Days, row : 0 .. MaxRows]
        BY DEF NotWriting, GrowthAssumption, Days
    <2> QED BY <1>2, <1>3, <1>4, <2>1 DEF GrowthTypeOK
<1>6. Informed' /\ PolledAreDaily'
    BY <1>2, <1>3, <1>4 DEF Informed, PolledAreDaily, NoBase
<1>7. OneWriter'
    <2>1. SUFFICES ASSUME ~overlapped
                   PROVE  OneWriter'
        BY <1>2 DEF OneWriter
    <2>2. \A q \in Pollers : ~poll'[q].on
        BY <1>2, <2>1 DEF OneWriter, GrowthTypeOK, NotWriting
    <2> QED BY <1>3, <1>4, <2>1, <2>2 DEF OneWriter
<1> QED BY <1>5, <1>6, <1>7

LEMMA PollFailsStep ==
    ASSUME GrowthAssumption, GrowthInv, NEW p \in Pollers, PollFails(p)
    PROVE  GrowthInv'
<1> USE DEF GrowthInv
<1>1. /\ poll' = [poll EXCEPT ![p] = NotWriting]
      /\ UNCHANGED <<time, snaps, inserted, sampled, overlapped, run, base, informed>>
    BY DEF PollFails, runVars
<1>2. GrowthTypeOK'
    <2>1. NotWriting \in [on : BOOLEAN, day : Days, row : 0 .. MaxRows]
        BY DEF NotWriting, GrowthAssumption, Days
    <2> QED BY <1>1, <2>1 DEF GrowthTypeOK
<1>3. Informed' /\ PolledAreDaily'
    BY <1>1 DEF Informed, PolledAreDaily, NoBase
<1>4. OneWriter'
    <2>1. ~poll'[p].on /\ \A q \in Pollers \ {p} : poll'[q] = poll[q]
        BY <1>1 DEF GrowthTypeOK, NotWriting
    <2> QED BY <1>1, <2>1 DEF OneWriter, Polled
<1> QED BY <1>2, <1>3, <1>4

-----------------------------------------------------------------------------
(***************************************************************************)
(* The steps of a run.                                                     *)
(***************************************************************************)

\* Pollers stay apart over a step that neither polls nor adds a polled row.
LEMMA OthersKeepOneWriter ==
    ASSUME OneWriter, PolledAreDaily, UNCHANGED <<poll, overlapped>>,
           \A r \in snaps' : r \in snaps \/ r.by # "poll"
    PROVE  OneWriter' /\ PolledAreDaily'
BY DEF OneWriter, Polled, PolledAreDaily

LEMMA AnalyseGrowthStep ==
    ASSUME GrowthAssumption, GrowthInv, NEW a \in Runs, AnalyseGrowth(a)
    PROVE  GrowthInv'
<1> USE DEF GrowthInv
<1>1. /\ run' = [run EXCEPT ![a] = "patch"]
      /\ informed' = [informed EXCEPT ![a] = sampled]
      /\ UNCHANGED <<time, snaps, inserted, sampled, poll, overlapped>>
    BY DEF AnalyseGrowth, readings
<1>2. PICK b \in Bases : base' = [base EXCEPT ![a] = b]
    BY BasesAreTyped, NoBaseIsTyped DEF AnalyseGrowth, IsNewest, Previous, GrowthTypeOK
<1>3. GrowthTypeOK'
    BY <1>1, <1>2 DEF GrowthTypeOK
<1>4. Informed'
    BY <1>1, <1>2 DEF Informed, GrowthTypeOK, NoBase
<1>5. OneWriter' /\ PolledAreDaily'
    BY <1>1, OthersKeepOneWriter
<1> QED BY <1>3, <1>4, <1>5

LEMMA PatchStep ==
    ASSUME GrowthAssumption, GrowthInv, NEW a \in Runs, Patch(a)
    PROVE  GrowthInv'
<1> USE DEF GrowthInv
<1>1. /\ base' = [base EXCEPT ![a] = Patched(base[a])]
      /\ run' = [run EXCEPT ![a] = "save"]
      /\ UNCHANGED <<time, snaps, inserted, sampled, poll, overlapped, informed>>
    BY DEF Patch, readings
<1>2. Patched(base[a]) \in Bases
    BY NoBaseIsTyped DEF Patched, GrowthTypeOK
<1>3. GrowthTypeOK'
    BY <1>1, <1>2 DEF GrowthTypeOK
<1>4. Informed'
    <2>1. sampled => Patched(base[a]) # NoBase
        BY NoBaseIsTyped DEF Patched
    <2>2. NoBase' = NoBase
        BY DEF NoBase
    <2> QED BY <1>1, <2>1, <2>2 DEF Informed, GrowthTypeOK
<1>5. OneWriter' /\ PolledAreDaily'
    BY <1>1, OthersKeepOneWriter
<1> QED BY <1>3, <1>4, <1>5

\* The end of a run of the agent.
LEMMA EndKeepsInformed ==
    ASSUME GrowthAssumption, GrowthTypeOK, Informed, NEW a \in Runs, EndRun(a), UNCHANGED sampled
    PROVE  /\ Informed'
           /\ run' \in [Runs -> {"idle", "patch", "save", "backfill"}]
           /\ base' \in [Runs -> Bases]
           /\ informed' \in [Runs -> BOOLEAN]
<1>1. /\ run' = [run EXCEPT ![a] = AfterSnapshot(a)]
      /\ base' = [base EXCEPT ![a] = NoBase]
      /\ informed' = [informed EXCEPT ![a] = FALSE]
    BY DEF EndRun
<1>2. AfterSnapshot(a) \in {"idle", "backfill"}
    BY DEF AfterSnapshot
<1>3. NoBase' = NoBase
    BY DEF NoBase
<1>4. Informed'
    BY <1>1, <1>3 DEF Informed, GrowthTypeOK
<1> QED BY <1>1, <1>2, <1>4, NoBaseIsTyped DEF GrowthTypeOK

LEMMA SaveStep ==
    ASSUME GrowthAssumption, GrowthInv, NEW a \in Runs, SaveSnapshot(a)
    PROVE  GrowthInv'
<1> USE DEF GrowthInv
<1>1. PICK counted \in BOOLEAN :
        snaps' = snaps \cup {NewRow(SnapshotType(a), Today, time, counted, "analytics")}
    BY DEF SaveSnapshot
<1> DEFINE row == NewRow(SnapshotType(a), Today, time, counted, "analytics")
<1>2. /\ inserted < MaxRows /\ inserted' = inserted + 1 /\ EndRun(a)
      /\ UNCHANGED <<time, sampled, poll, overlapped>>
    BY DEF SaveSnapshot, Insert, readings
<1>3. row \in Rows
    <2>1. SnapshotType(a) \in {"daily", "weekly"} /\ time \in Nat
        BY DEF SnapshotType, GrowthTypeOK
    <2> QED BY <1>2, <2>1, TodayIsADay, NewRowIsRow
<1>4. row.by = "analytics"
    BY DEF NewRow
<1> HIDE DEF row
<1>5. snaps' = snaps \cup {row}
    BY <1>1 DEF row
<1>6. Informed' /\ GrowthTypeOK'
    BY <1>2, <1>3, <1>5, EndKeepsInformed DEF GrowthTypeOK, GrowthAssumption
<1>7. OneWriter' /\ PolledAreDaily'
    BY <1>2, <1>4, <1>5, OthersKeepOneWriter
<1> QED BY <1>6, <1>7

LEMMA BackfillStep ==
    ASSUME GrowthAssumption, GrowthInv, NEW a \in Runs, Backfill(a)
    PROVE  GrowthInv'
<1> USE DEF GrowthInv
<1>1. PICK day \in 0 .. Today :
        snaps' = {r \in snaps : r.type # "daily"}
                    \cup {NewRow("daily", day, Noon(day), FALSE, "backfill")}
    BY DEF Backfill
<1> DEFINE row == NewRow("daily", day, Noon(day), FALSE, "backfill")
<1>2. /\ inserted < MaxRows /\ inserted' = inserted + 1
      /\ run' = [run EXCEPT ![a] = "idle"]
      /\ UNCHANGED <<time, sampled, poll, overlapped, base, informed>>
    BY DEF Backfill, Insert, readings
<1>3. row \in Rows
    <2>1. Today \in 0 .. MaxTime
        BY TodayIsADay DEF Days
    <2>2. day \in Days
        BY <2>1 DEF Days, GrowthAssumption
    <2>3. Noon(day) \in Nat
        BY <2>2 DEF Noon, Days
    <2> QED BY <1>2, <2>2, <2>3, NewRowIsRow
<1>4. row.by = "backfill"
    BY DEF NewRow
<1> HIDE DEF row
<1>5. snaps' = {r \in snaps : r.type # "daily"} \cup {row}
    BY <1>1 DEF row
<1>6. GrowthTypeOK'
    BY <1>2, <1>3, <1>5 DEF GrowthTypeOK, GrowthAssumption
<1>7. Informed'
    BY <1>2 DEF Informed, GrowthTypeOK, NoBase
<1>8. OneWriter' /\ PolledAreDaily'
    BY <1>2, <1>4, <1>5, OthersKeepOneWriter
<1> QED BY <1>6, <1>7, <1>8

\* The other steps make no row.
LEMMA OtherSteps ==
    ASSUME GrowthAssumption, GrowthInv,
           \/ NextPeriod
           \/ \E a \in Runs : Fail(a) \/ NoBackfill(a)
           \/ UNCHANGED growthVars
    PROVE  GrowthInv'
<1> USE DEF GrowthInv
<1>1. UNCHANGED <<snaps, inserted, sampled, poll, overlapped>>
    BY DEF NextPeriod, Fail, NoBackfill, growthVars, readings
<1>2. OneWriter' /\ PolledAreDaily'
    BY <1>1, OthersKeepOneWriter
<1>3. CASE NextPeriod
    <2>1. time' \in 0 .. MaxTime
        BY <1>3 DEF NextPeriod, GrowthTypeOK, GrowthAssumption
    <2>2. UNCHANGED <<run, base, informed>>
        BY <1>3 DEF NextPeriod, runVars
    <2> QED BY <1>1, <1>2, <2>1, <2>2 DEF GrowthTypeOK, Informed, NoBase
<1>4. CASE UNCHANGED growthVars
    BY <1>1, <1>2, <1>4 DEF GrowthTypeOK, Informed, NoBase, growthVars, runVars
<1>5. ASSUME NEW a \in Runs, Fail(a)
      PROVE  GrowthInv'
    BY <1>1, <1>2, <1>5, EndKeepsInformed DEF Fail, GrowthTypeOK
<1>6. ASSUME NEW a \in Runs, NoBackfill(a)
      PROVE  GrowthInv'
    <2>1. run' = [run EXCEPT ![a] = "idle"] /\ UNCHANGED <<time, base, informed>>
        BY <1>6 DEF NoBackfill
    <2> QED BY <1>1, <1>2, <2>1 DEF GrowthTypeOK, Informed, NoBase
<1> QED BY <1>3, <1>4, <1>5, <1>6

-----------------------------------------------------------------------------
(***************************************************************************)
(* Theorems.                                                               *)
(***************************************************************************)
LEMMA GrowthInitInvariant ==
    ASSUME GrowthAssumption, GrowthInit
    PROVE  GrowthInv
<1>1. GrowthTypeOK
    <2>1. NotWriting \in [on : BOOLEAN, day : Days, row : 0 .. MaxRows]
        BY DEF NotWriting, GrowthAssumption, Days
    <2>2. 0 \in 0 .. MaxTime /\ 0 \in 0 .. MaxRows
        BY DEF GrowthAssumption
    <2>3. FALSE \in BOOLEAN /\ "idle" \in {"idle", "patch", "save", "backfill"}
        OBVIOUS
    <2>4. /\ poll \in [Pollers -> [on : BOOLEAN, day : Days, row : 0 .. MaxRows]]
          /\ run \in [Runs -> {"idle", "patch", "save", "backfill"}]
        BY <2>1 DEF GrowthInit
    <2>5. base \in [Runs -> Bases]
        BY NoBaseIsTyped DEF GrowthInit
    <2>6. informed \in [Runs -> BOOLEAN]
        BY <2>3 DEF GrowthInit
    <2>7. time \in 0 .. MaxTime /\ inserted \in 0 .. MaxRows /\ snaps \subseteq Rows
        BY <2>2 DEF GrowthInit
    <2> QED BY <2>4, <2>5, <2>6, <2>7 DEF GrowthInit, GrowthTypeOK
<1>2. Informed /\ PolledAreDaily
    BY DEF GrowthInit, Informed, PolledAreDaily
<1>3. OneWriter
    BY DEF GrowthInit, OneWriter, NotWriting, Polled
<1> QED BY <1>1, <1>2, <1>3 DEF GrowthInv

LEMMA GrowthNextInvariant ==
    ASSUME GrowthAssumption, GrowthInv, [GrowthNext]_growthVars
    PROVE  GrowthInv'
<1>1. ASSUME NEW p \in Pollers, PollerStep(p)
      PROVE  GrowthInv'
    BY <1>1, PollReadsStep, PollInsertsStep, PollUpdatesStep, PollFailsStep DEF PollerStep
<1>2. ASSUME NEW a \in Runs, RunStep(a)
      PROVE  GrowthInv'
    BY <1>2, AnalyseGrowthStep, PatchStep, SaveStep, BackfillStep, OtherSteps DEF RunStep
<1> QED BY <1>1, <1>2, OtherSteps DEF GrowthNext

\* The invariant that the theorems rest on.
THEOREM GrowthInvariance ==
    ASSUME GrowthAssumption
    PROVE  GrowthSpec => []GrowthInv
BY GrowthInitInvariant, GrowthNextInvariant, PTL DEF GrowthSpec

\* Every reachable state is well typed.
THEOREM GrowthTypeCorrect ==
    ASSUME GrowthAssumption
    PROVE  GrowthSpec => []GrowthTypeOK
<1>1. GrowthInv => GrowthTypeOK
    BY DEF GrowthInv
<1> QED BY <1>1, GrowthInvariance, PTL

\* For any number of pollers, runs and days: polls make one snapshot a day, unless two of
\* them write at a time (tools/subscribers.py:32-51).
THEOREM PolledOnce ==
    ASSUME GrowthAssumption
    PROVE  GrowthSpec => []OnePolledRow
<1>1. GrowthInv => OnePolledRow
    BY DEF GrowthInv, OneWriter, OnePolledRow
<1> QED BY <1>1, GrowthInvariance, PTL

\* A run that began when there were readings has a delta to save
\* (agents/analytics.py:56-86).
THEOREM DeltaIsFound ==
    ASSUME GrowthAssumption
    PROVE  GrowthSpec => []SampledRunHasDelta
<1>1. GrowthInv => SampledRunHasDelta
    BY DEF GrowthInv, Informed, SampledRunHasDelta
<1> QED BY <1>1, GrowthInvariance, PTL

-----------------------------------------------------------------------------
(***************************************************************************)
(* Proofs about Competitors, for any runs, refreshes, channels and brands. *)
(*                                                                         *)
(* LoneRun follows a run that no other overlapped from its search to its   *)
(* end: rows of earlier runs are older than it, and the rows it saved are  *)
(* of its own time.  PruningSound says what the session of a pruning that  *)
(* no other run wrote into knows of the table: the ranks of all rows, and  *)
(* at the end which of them are to change.  RefreshSound says what stays   *)
(* true of the row whose posts were read until they are written.           *)
(***************************************************************************)
Searching == {a \in Agents : phase[a] = "search"}

RefreshSound ==
    /\ \A k \in Refreshers :
        LET n == writing[k].name
        IN  /\ listedRivals[k] \ dropped[k] \subseteq Tracked
            /\ writing[k].on => n \in listedRivals[k]
            /\ writing[k].on /\ writing[k].new /\ n \notin dropped[k] /\ n \notin doubled =>
                    rivals[n].ids = 0
    /\ MessageStoredOnce

Knows(a) ==
    /\ pruning[a].stage \in {"delete", "reselect"} =>
         \A n \in Tracked : pruning[a].ranks[n] = rivals[n].rank
    /\ pruning[a].stage = "rank" =>
         \A n \in Tracked : IF pruning[a].ranks[n] = 0 THEN rivals[n].rank = RankOf(n)
                            ELSE pruning[a].ranks[n] = RankOf(n)

PruningSound ==
    \A a \in Agents : /\ pruning[a].stage # "select" => IsPruning(a)
                      /\ pruning[a].disturbed \/ Knows(a)

LoneRun ==
    /\ \A a, b \in Agents : phase[a] # "idle" /\ phase[b] # "idle" => a = b
    /\ \A a \in Agents :
        /\ phase[a] = "save" =>
             /\ began[a] = round
             /\ \A n \in Tracked : rivals[n].at < round
        /\ IsPruning(a) =>
             /\ began[a] = round
             /\ found[a].names \subseteq Tracked
             /\ \A n \in Tracked : n \in found[a].names <=> rivals[n].at = round
             /\ \A n \in found[a].names : rivals[n].size # "junk"
             /\ pruning[a].doomed \cap found[a].names = {}
        /\ phase[a] = "stale" /\ pruning[a].stage = "delete" =>
             pruning[a].doomed = Tracked \ found[a].names
        /\ phase[a] = "stale" /\ pruning[a].stage \in {"reselect", "rank"} =>
             Tracked = found[a].names
        /\ phase[a] = "done" /\ found[a].length >= Healthy => Tracked = found[a].names

NotTooLate == \A n \in Tracked : rivals[n].at <= round

RoundsLeft == round + Cardinality(Searching) <= MaxRounds

CompetitorsInv ==
    /\ CompetitorsTypeOK
    /\ RoundsLeft
    /\ NotTooLate
    /\ RefreshSound
    /\ PruningSound
    /\ RanksAreContiguous
    /\ ~entangled => LoneRun

\* What the refreshes touch of a row is neither its rank nor its time nor its size.
SameRow(n) ==
    /\ rivals'[n].rank = rivals[n].rank
    /\ rivals'[n].at = rivals[n].at
    /\ rivals'[n].size = rivals[n].size

LEMMA RivalNamesFinite ==
    ASSUME CompetitorsAssumption
    PROVE  IsFiniteSet(RivalNames)
<1>1. IsFiniteSet({Key[b] : b \in Brands})
    BY ImageFinite DEF CompetitorsAssumption
<1> QED BY <1>1, FS_Union DEF CompetitorsAssumption, RivalNames

\* The places of the rows are 1, 2, ...
LEMMA RankOfSound ==
    ASSUME CompetitorsAssumption, CompetitorsTypeOK
    PROVE  /\ \A n \in Tracked : RankOf(n) \in Nat \ {0}
           /\ {RankOf(n) : n \in Tracked} = 1 .. Cardinality(Tracked)
<1> DEFINE ahead == [m \in Tracked |-> {n \in Tracked : Ahead(n, m)}]
<1>1. IsFiniteSet(Tracked) /\ Cardinality(Tracked) \in Nat
    BY RivalNamesFinite, FS_Subset, FS_CardinalityType DEF CompetitorsTypeOK
<1>2. \A n \in Tracked : Strength[n] \in Int
    BY DEF CompetitorsAssumption, CompetitorsTypeOK
<1>3. ahead \in [Tracked -> SUBSET Tracked] /\ \A x \in Tracked : x \notin ahead[x]
    BY <1>2 DEF Ahead
<1>4. ASSUME NEW x \in Tracked, NEW y \in Tracked, x # y
      PROVE  ahead[x] \cup {x} \subseteq ahead[y] \/ ahead[y] \cup {y} \subseteq ahead[x]
    <2>0. x \in RivalNames /\ y \in RivalNames
        BY DEF CompetitorsTypeOK
    <2>1. Strength[x] < Strength[y] \/ Strength[y] < Strength[x]
        BY <1>2, <1>4, <2>0 DEF CompetitorsAssumption
    <2>2. Ahead(x, y) \/ Ahead(y, x)
        BY <2>1, <1>2 DEF Ahead
    <2>3. \A m, n, o \in Tracked : Ahead(m, n) /\ Ahead(n, o) => Ahead(m, o)
        BY <1>2 DEF Ahead
    <2> QED BY <2>2, <2>3
<1>5. \A m \in Tracked : RankOf(m) = 1 + Cardinality(ahead[m])
    BY DEF RankOf
<1> HIDE DEF ahead
<1>6. /\ \A m \in Tracked : Cardinality(ahead[m]) \in 0 .. Cardinality(Tracked) - 1
      /\ \A i \in 0 .. Cardinality(Tracked) - 1 : \E m \in Tracked : Cardinality(ahead[m]) = i
    BY <1>1, <1>3, <1>4, ChainRanks
<1>7. \A n \in Tracked : RankOf(n) \in 1 .. Cardinality(Tracked)
    BY <1>1, <1>5, <1>6
<1>8. ASSUME NEW i \in 1 .. Cardinality(Tracked)
      PROVE  \E n \in Tracked : RankOf(n) = i
    <2>1. i - 1 \in 0 .. Cardinality(Tracked) - 1
        BY <1>1
    <2>2. PICK n \in Tracked : Cardinality(ahead[n]) = i - 1
        BY <1>6, <2>1
    <2> QED BY <1>5, <2>2
<1>9. \A n \in Tracked : RankOf(n) \in Nat \ {0}
    BY <1>1, <1>7
<1> QED BY <1>7, <1>8, <1>9

\* Places depend on the sizes alone.
LEMMA RankOfSame ==
    ASSUME Tracked' = Tracked, \A n \in Tracked : rivals'[n].size = rivals[n].size
    PROVE  \A n \in Tracked : RankOf(n)' = RankOf(n)
<1> TAKE m \in Tracked
<1>1. \A n \in Tracked : Ahead(n, m)' <=> Ahead(n, m)
    BY DEF Ahead
<1>2. {n \in Tracked' : Ahead(n, m)'} = {n \in Tracked : Ahead(n, m)}
    BY <1>1
<1> QED BY <1>2 DEF RankOf

\* What is saved of a list: no more posts with ids of a name than it has entries.
LEMMA ToSaveSound ==
    ASSUME CompetitorsAssumption, NEW S, IsFiniteSet(S)
    PROVE  ToSave(S) \in [RivalNames -> Saving]
<1> SUFFICES ASSUME NEW n \in RivalNames PROVE ToSave(S)[n] \in Saving
    BY DEF ToSave
<1> DEFINE names == {e.name : e \in S}
           peers == {m \in names : \A e \in S : e.name = m => e.peer}
           before == {e \in S : \/ n \notin peers /\ e.peer
                                \/ /\ n \in peers => e.peer
                                   /\ Strength[e.name] >= Strength[n]}
           withIds == {e \in S : e.name = n /\ e.ids}
           own == {e \in S : e.name = n}
<1>1. CASE n \notin names
    BY <1>1 DEF ToSave, NoSaving, Saving
<1>2. CASE n \in names
    <2>1. /\ IsFiniteSet(before) /\ IsFiniteSet(own) /\ withIds \subseteq own
        BY FS_Subset
    <2>2. /\ Cardinality(before) \in Nat /\ Cardinality(own) \in Nat
          /\ Cardinality(withIds) \in Nat /\ Cardinality(withIds) <= Cardinality(own)
        BY <2>1, FS_Subset, FS_CardinalityType
    <2>4. before # {}
        <3>1. PICK e \in S : e.name = n /\ (n \notin peers => ~e.peer)
            BY <1>2
        <3>2. n \in peers => e.peer
            BY <3>1
        <3>3. Strength[e.name] >= Strength[n]
            BY <3>1 DEF CompetitorsAssumption
        <3>4. e \in before
            BY <3>2, <3>3
        <3> QED BY <3>4
    <2>5. Cardinality(before) # 0
        BY <2>1, <2>4, FS_EmptySet
    <2>3. ToSave(S)[n] = [peer |-> n \in peers, rank |-> Cardinality(before),
                          ids |-> Cardinality(withIds),
                          bare |-> \E e \in S : e.name = n /\ ~e.ids,
                          times |-> Cardinality(own)]
        BY <1>2 DEF ToSave
    <2> HIDE DEF before, withIds, own, peers
    <2> QED BY <2>2, <2>3, <2>5 DEF Saving
<1> QED BY <1>1, <1>2

\* What a search finds is finite, of known names, and cut to TOP_N.
LEMMA DiscoverySound ==
    ASSUME CompetitorsAssumption, CompetitorsTypeOK, NEW a \in Agents, Discover(a)
    PROVE  \E new \in Findings, saving \in [RivalNames -> Saving] :
              /\ found' = [found EXCEPT ![a] = new]
              /\ toSave' = [toSave EXCEPT ![a] = saving]
<1>0. PICK searched \in SUBSET Handles, recommended \in SUBSET Handles,
           web \in SUBSET Handles, demoted \in SUBSET Handles, brands \in SUBSET Brands,
           handle \in [Brands -> RivalNames] :
        LET firsts  == EnrichedRivals(a, searched, recommended, web, demoted)
            entries == firsts \cup ResolvedBrands(a, {e.name : e \in firsts}, brands, handle,
                                                  web, demoted)
        IN  \E S \in SUBSET entries :
             /\ Shortened(entries, S)
             /\ found' = [found EXCEPT ![a] =
                    [names |-> {e.name : e \in S}, length |-> Cardinality(S),
                     again |-> (searched \cup recommended) \cap Comparable(a)]]
             /\ toSave' = [toSave EXCEPT ![a] = ToSave(S)]
    BY Zenon DEF Discover
<1> DEFINE firsts == EnrichedRivals(a, searched, recommended, web, demoted)
           seen == {e.name : e \in firsts}
           entries == firsts \cup ResolvedBrands(a, seen, brands, handle, web, demoted)
           again == (searched \cup recommended) \cap Comparable(a)
<1>1. PICK S \in SUBSET entries :
        /\ Shortened(entries, S)
        /\ found' = [found EXCEPT ![a] =
                [names |-> {e.name : e \in S}, length |-> Cardinality(S), again |-> again]]
        /\ toSave' = [toSave EXCEPT ![a] = ToSave(S)]
    BY <1>0
<1>2. \A e \in firsts : e.name \in RivalNames
    BY <1>1 DEF EnrichedRivals, ChannelEntry, Entry, RivalNames
<1>3. \A e \in entries : e.name \in RivalNames
    BY <1>1, <1>2 DEF ResolvedBrands, ChannelEntry, Entry, RivalNames
<1>4. IsFiniteSet(firsts)
    <2> DEFINE keyword == [h \in Handles |-> ChannelEntry("keyword", h, web, demoted)]
               advised == [h \in Handles |-> ChannelEntry("recommendation", h, web, demoted)]
    <2>1. IsFiniteSet(searched \ known[a]) /\ IsFiniteSet(recommended \ known[a])
        BY FS_Subset DEF CompetitorsAssumption
    <2>2. /\ IsFiniteSet({keyword[h] : h \in searched \ known[a]})
          /\ IsFiniteSet({advised[h] : h \in recommended \ known[a]})
        BY <2>1, ImageFinite
    <2>3. /\ {keyword[h] : h \in searched \ known[a]}
                = {ChannelEntry("keyword", h, web, demoted) : h \in searched \ known[a]}
          /\ {advised[h] : h \in recommended \ known[a]}
                = {ChannelEntry("recommendation", h, web, demoted) :
                        h \in recommended \ known[a]}
        OBVIOUS
    <2> QED BY <1>1, <2>2, <2>3, FS_Union DEF EnrichedRivals
<1>5. IsFiniteSet(entries)
    <2> DEFINE free == Handles \ (known[a] \cup seen)
               as == [b \in Brands |->
                        IF handle[b] \in free THEN ChannelEntry(b, handle[b], web, demoted)
                        ELSE Entry(b, Key[b], FALSE, FALSE)]
    <2>1. IsFiniteSet(brands)
        BY FS_Subset DEF CompetitorsAssumption
    <2>2. IsFiniteSet({as[b] : b \in brands})
        BY <2>1, ImageFinite
    <2>3. {as[b] : b \in brands} = ResolvedBrands(a, seen, brands, handle, web, demoted)
        BY DEF ResolvedBrands
    <2> QED BY <1>1, <1>4, <2>2, <2>3, FS_Union
<1>6. IsFiniteSet(S) /\ Cardinality(S) \in 0 .. TopN
    <2>1. Cardinality(entries) \in Nat /\ IsFiniteSet(S)
        BY <1>5, FS_CardinalityType, FS_Subset
    <2> QED BY <1>1, <2>1 DEF Shortened, CompetitorsAssumption
<1>7. again \subseteq Handles /\ \A e \in S : e.name \in RivalNames
    BY <1>1, <1>3
<1> DEFINE new == [names |-> {e.name : e \in S}, length |-> Cardinality(S), again |-> again]
<1>8. new \in Findings
    <2> HIDE DEF again
    <2>1. {e.name : e \in S} \subseteq RivalNames
        BY <1>7
    <2> QED BY <1>6, <1>7, <2>1 DEF Findings
<1>9. ToSave(S) \in [RivalNames -> Saving]
    BY <1>6, ToSaveSound
<1>10. found' = [found EXCEPT ![a] = new]
    BY <1>1
<1> HIDE DEF new
<1> QED BY <1>1, <1>8, <1>9, <1>10

LEMMA NotWritingType ==
    ASSUME CompetitorsAssumption
    PROVE  /\ NotWritingPosts \in [on : BOOLEAN, name : RivalNames, new : BOOLEAN]
           /\ ~NotWritingPosts.on
BY DEF NotWritingPosts, CompetitorsAssumption

LEMMA NoneTyped ==
    /\ NoPruning \in Pruning
    /\ NoPruning.stage = "select"
    /\ NoPruning.doomed = {}
    /\ NoSaving \in [RivalNames -> Saving]
BY DEF NoPruning, NoRanks, Pruning, NoSaving, Saving

-----------------------------------------------------------------------------
LEMMA CompetitorsInitInv ==
    ASSUME CompetitorsAssumption, CompetitorsInit
    PROVE  CompetitorsInv
<1>1. Searching = {} /\ Cardinality(Searching) = 0
    BY FS_EmptySet DEF CompetitorsInit, Searching
<1>2. /\ Tracked \subseteq RivalNames
      /\ \A n \in Tracked : rivals[n] \in Row /\ rivals[n].at = 0 /\ rivals[n].ids = 0
      /\ {rivals[n].rank : n \in Tracked} = 1 .. Cardinality(Tracked)
    <2>1. CASE rivals = <<>>
        <3>1. Tracked = {} /\ Cardinality(Tracked) = 0
            BY <2>1, FS_EmptySet DEF Tracked
        <3> QED BY <3>1
    <2>2. ASSUME NEW h \in Handles,
                 rivals = [n \in {h} |-> [size |-> "junk", at |-> 0, rank |-> 1, ids |-> 0]]
          PROVE  <1>2!1 /\ <1>2!2 /\ <1>2!3
        <3>1. Tracked = {h} /\ Cardinality(Tracked) = 1
            BY <2>2, FS_Singleton DEF Tracked
        <3>2. rivals[h] = [size |-> "junk", at |-> 0, rank |-> 1, ids |-> 0]
            BY <2>2
        <3>3. rivals[h] \in Row
            BY <3>2 DEF Row, CompetitorsAssumption
        <3> QED BY <3>1, <3>2, <3>3 DEF RivalNames
    <2> QED BY <2>1, <2>2 DEF CompetitorsInit
<1>3. CompetitorsTypeOK
    <2>1. 0 \in 0 .. TopN /\ 0 \in 0 .. MaxRounds
        BY DEF CompetitorsAssumption
    <2>2. Nothing \in Findings
        BY <2>1 DEF Nothing, Findings
    <2>3. NoPruning \in Pruning /\ NoSaving \in [RivalNames -> Saving]
        BY NoneTyped
    <2>4. NotWritingPosts \in [on : BOOLEAN, name : RivalNames, new : BOOLEAN]
        BY NotWritingType
    <2> QED BY <1>2, <2>1, <2>2, <2>3, <2>4 DEF CompetitorsInit, CompetitorsTypeOK
<1>4. RefreshSound
    <2>1. \A k \in Refreshers : ~writing[k].on /\ listedRivals[k] = {}
        BY NotWritingType DEF CompetitorsInit
    <2>2. \A n \in Tracked : rivals[n].ids <= 1
        BY <1>2
    <2> QED BY <2>1, <2>2 DEF RefreshSound, MessageStoredOnce
<1>5. LoneRun
    BY DEF CompetitorsInit, LoneRun, IsPruning
<1>6. PruningSound
    BY DEF CompetitorsInit, PruningSound, Knows, NoPruning
<1>7. RoundsLeft /\ NotTooLate /\ RanksAreContiguous
    BY <1>1, <1>2
       DEF CompetitorsInit, RoundsLeft, NotTooLate, RanksAreContiguous, CompetitorsAssumption
<1> QED BY <1>3, <1>4, <1>5, <1>6, <1>7 DEF CompetitorsInv

\* A step to another phase than the search.
LEMMA FewerSearch ==
    ASSUME CompetitorsAssumption, CompetitorsInv, NEW a \in Agents, NEW step, Enter(a, step),
           step # "search", round' = round
    PROVE  RoundsLeft'
<1>1. IsFiniteSet(Searching) /\ Cardinality(Searching) \in Nat
    BY FS_Subset, FS_CardinalityType DEF Searching, CompetitorsAssumption
<1>2. Searching' \subseteq Searching
    BY DEF Searching, Enter, CompetitorsInv, CompetitorsTypeOK
<1>3. Cardinality(Searching') \in Nat /\ Cardinality(Searching') <= Cardinality(Searching)
    BY <1>1, <1>2, FS_Subset, FS_CardinalityType
<1>4. round \in Nat /\ MaxRounds \in Nat /\ round + Cardinality(Searching) <= MaxRounds
    BY DEF CompetitorsInv, CompetitorsTypeOK, CompetitorsAssumption, RoundsLeft
<1> QED BY <1>1, <1>3, <1>4 DEF RoundsLeft

\* Of the session of a run, that another's commit changes at most by what it wrote.
LEMMA OthersGoOn ==
    ASSUME CompetitorsAssumption, CompetitorsTypeOK, PruningSound, NEW a \in Agents,
           NEW s \in Pruning, NEW wrote \in BOOLEAN, NEW gone \in SUBSET RivalNames,
           GoesOn(a, s, wrote, gone)
    PROVE  /\ pruning' \in [Agents -> Pruning]
           /\ pruning'[a] = s
           /\ \A b \in Agents \ {a} :
                /\ pruning'[b].stage # "select" => IsPruning(b)
                /\ pruning[b].stage # "select" /\ wrote => pruning'[b].disturbed
                /\ gone = {} => /\ pruning'[b].stage = pruning[b].stage
                                /\ \A n \in RivalNames :
                                        pruning'[b].ranks[n] = pruning[b].ranks[n]
                                /\ ~wrote => pruning'[b].disturbed = pruning[b].disturbed
                /\ pruning[b].stage = "select" => pruning'[b] = pruning[b]
<1> DEFINE shaken(t) ==
        [stage |-> IF t.stage = "rank" /\ \E n \in gone : t.ranks[n] # 0 THEN "lost" ELSE t.stage,
         ranks |-> [n \in RivalNames |-> IF n \in gone THEN 0 ELSE t.ranks[n]],
         doomed |-> t.doomed \ gone,
         disturbed |-> t.disturbed \/ wrote]
<1>1. pruning' = [b \in Agents |-> IF b = a THEN s
                                   ELSE IF pruning[b].stage = "select" THEN pruning[b]
                                   ELSE shaken(pruning[b])]
    BY DEF GoesOn
<1>2. \A b \in Agents : pruning[b] \in Pruning
    BY DEF CompetitorsTypeOK
<1>3. ASSUME NEW b \in Agents PROVE shaken(pruning[b]) \in Pruning
    <2>1. pruning[b].disturbed \/ wrote \in BOOLEAN
        BY <1>2 DEF Pruning
    <2> QED BY <1>2, <2>1 DEF Pruning
<1>4. pruning' \in [Agents -> Pruning]
    BY <1>1, <1>2, <1>3
<1>5. ASSUME NEW b \in Agents \ {a}, pruning[b].stage # "select"
      PROVE  /\ IsPruning(b)
             /\ wrote => pruning'[b].disturbed
             /\ gone = {} => /\ pruning'[b].stage = pruning[b].stage
                             /\ \A n \in RivalNames :
                                     pruning'[b].ranks[n] = pruning[b].ranks[n]
                             /\ ~wrote => pruning'[b].disturbed = pruning[b].disturbed
    <2>1. pruning'[b] = shaken(pruning[b])
        BY <1>1, <1>5
    <2>2. IsPruning(b)
        BY <1>5 DEF PruningSound
    <2>3. pruning[b].disturbed \in BOOLEAN
        BY <1>2 DEF Pruning
    <2>4. ~wrote => pruning'[b].disturbed = pruning[b].disturbed
        BY <2>1, <2>3
    <2> QED BY <2>1, <2>2, <2>4
<1>6. ASSUME NEW b \in Agents \ {a}, pruning[b].stage = "select"
      PROVE  pruning'[b] = pruning[b]
    BY <1>1, <1>6
<1>7. pruning'[a] = s
    BY <1>1
<1> QED BY <1>4, <1>5, <1>6, <1>7

\* What a session knows stays true while ranks, sizes and names stay.
LEMMA KnowsSame ==
    ASSUME NEW b \in Agents, Knows(b), Tracked' = Tracked, Tracked \subseteq RivalNames,
           \A n \in Tracked : rivals'[n].rank = rivals[n].rank /\ rivals'[n].size = rivals[n].size,
           pruning'[b].stage = pruning[b].stage,
           \A n \in RivalNames : pruning'[b].ranks[n] = pruning[b].ranks[n]
    PROVE  Knows(b)'
<1>1. \A n \in Tracked : RankOf(n)' = RankOf(n)
    BY RankOfSame
<1>2. pruning[b].stage = "rank" =>
        \A n \in Tracked : IF pruning'[b].ranks[n] = 0 THEN rivals'[n].rank = RankOf(n)'
                           ELSE pruning'[b].ranks[n] = RankOf(n)'
    BY <1>1 DEF Knows
<1>3. pruning[b].stage \in {"delete", "reselect"} =>
        \A n \in Tracked : pruning'[b].ranks[n] = rivals'[n].rank
    BY DEF Knows
<1> QED BY <1>2, <1>3 DEF Knows

LEMMA SamePruning ==
    ASSUME PruningSound, Tracked' = Tracked, Tracked \subseteq RivalNames,
           \A n \in Tracked : rivals'[n].rank = rivals[n].rank /\ rivals'[n].size = rivals[n].size,
           UNCHANGED pruning, \A b \in Agents : IsPruning(b) => IsPruning(b)'
    PROVE  PruningSound'
<1> SUFFICES ASSUME NEW b \in Agents
             PROVE  /\ pruning'[b].stage # "select" => IsPruning(b)'
                    /\ pruning'[b].disturbed \/ Knows(b)'
    BY DEF PruningSound
<1>1. pruning[b].stage # "select" => IsPruning(b)
    BY DEF PruningSound
<1>2. Knows(b) => Knows(b)'
    BY KnowsSame
<1> QED BY <1>1, <1>2 DEF PruningSound

LEMMA BeginSearchStep ==
    ASSUME CompetitorsAssumption, CompetitorsInv, NEW a \in Agents, BeginSearch(a)
    PROVE  CompetitorsInv'
<1> USE DEF CompetitorsInv
<1>1. Searching' = Searching \cup {a} /\ a \notin Searching
    BY DEF BeginSearch, Searching, Active, CompetitorsTypeOK
<1>2. IsFiniteSet(Searching) /\ Cardinality(Searching) \in Nat
    BY FS_Subset, FS_CardinalityType DEF Searching, CompetitorsAssumption
<1>3. Cardinality(Searching') = Cardinality(Searching) + 1
    BY <1>1, <1>2, FS_AddElement
<1>4. RoundsLeft'
    <2>1. round \in Nat /\ MaxRounds \in Nat /\ round' = round
          /\ round + Cardinality(Searching) < MaxRounds
        BY DEF BeginSearch, CompetitorsTypeOK, CompetitorsAssumption, Searching
    <2> QED BY <1>2, <1>3, <2>1 DEF RoundsLeft
<1>5. CompetitorsTypeOK'
    <2>1. Nothing \in Findings
        BY DEF Nothing, Findings, CompetitorsAssumption
    <2>2. found' \in [Agents -> Findings]
        BY <2>1 DEF BeginSearch, CompetitorsTypeOK
    <2>3. known' \in [Agents -> SUBSET RivalNames]
        BY DEF BeginSearch, CompetitorsTypeOK
    <2>4. entangled' \in BOOLEAN
        BY DEF BeginSearch, CompetitorsTypeOK
    <2>5. phase' \in [Agents -> {"idle", "search", "save", "junk", "stale", "done"}]
        BY DEF BeginSearch, CompetitorsTypeOK
    <2> QED BY <2>2, <2>3, <2>4, <2>5 DEF BeginSearch, CompetitorsTypeOK, refresh, Tracked
<1>6. RefreshSound'
    BY DEF BeginSearch, RefreshSound, MessageStoredOnce, refresh, Tracked
<1>7. \A b \in Agents : IsPruning(b) <=> IsPruning(b)'
    BY DEF BeginSearch, Active, IsPruning, CompetitorsTypeOK
<1>8. RanksAreContiguous'
    BY <1>7 DEF BeginSearch, RanksAreContiguous, Tracked
<1>9. PruningSound'
    <2>1. Tracked \subseteq RivalNames
        BY DEF CompetitorsTypeOK
    <2> QED BY <1>7, <2>1, SamePruning DEF BeginSearch, Tracked
<1>10. ASSUME ~entangled' PROVE LoneRun'
    <2>1. \A b \in Agents : phase'[b] = IF b = a THEN "search" ELSE "idle"
        BY <1>10 DEF BeginSearch
    <2> QED BY <2>1 DEF LoneRun, IsPruning
<1> QED BY <1>4, <1>5, <1>6, <1>8, <1>9, <1>10 DEF BeginSearch, NotTooLate, Tracked

LEMMA DiscoverStep ==
    ASSUME CompetitorsAssumption, CompetitorsInv, NEW a \in Agents, Discover(a)
    PROVE  CompetitorsInv'
<1> USE DEF CompetitorsInv
<1>1. PICK new \in Findings, saving \in [RivalNames -> Saving] :
        /\ found' = [found EXCEPT ![a] = new]
        /\ toSave' = [toSave EXCEPT ![a] = saving]
    BY DiscoverySound
<1>2. /\ phase[a] = "search" /\ phase' = [phase EXCEPT ![a] = "save"]
      /\ round' = round + 1 /\ began' = [began EXCEPT ![a] = round + 1]
      /\ known' = [known EXCEPT ![a] = {}]
      /\ UNCHANGED <<rivals, pruning, listedRivals, dropped, writing, doubled, entangled, tattered>>
    BY DEF Discover, Enter, refresh
<1>3. /\ Cardinality(Searching) \in Nat
      /\ Cardinality(Searching') = Cardinality(Searching) - 1
      /\ Cardinality(Searching') \in Nat
    <2>1. IsFiniteSet(Searching) /\ Cardinality(Searching) \in Nat
        BY FS_Subset, FS_CardinalityType DEF Searching, CompetitorsAssumption
    <2>2. Searching' = Searching \ {a} /\ a \in Searching
        BY <1>2 DEF Searching, CompetitorsTypeOK
    <2> QED BY <2>1, <2>2, FS_RemoveElement, FS_CardinalityType
<1>4. RoundsLeft' /\ round' \in 0 .. MaxRounds
    <2>1. round \in Nat /\ MaxRounds \in Nat /\ round + Cardinality(Searching) <= MaxRounds
        BY DEF CompetitorsTypeOK, CompetitorsAssumption, RoundsLeft
    <2> QED BY <1>2, <1>3, <2>1 DEF RoundsLeft
<1>5. CompetitorsTypeOK'
    <2>1. began' \in [Agents -> 0 .. MaxRounds]
        BY <1>2, <1>4 DEF CompetitorsTypeOK
    <2>2. found' \in [Agents -> Findings] /\ toSave' \in [Agents -> [RivalNames -> Saving]]
        BY <1>1 DEF CompetitorsTypeOK
    <2>3. phase' \in [Agents -> {"idle", "search", "save", "junk", "stale", "done"}]
        BY <1>2 DEF CompetitorsTypeOK
    <2>4. known' \in [Agents -> SUBSET RivalNames]
        BY <1>2 DEF CompetitorsTypeOK
    <2> QED BY <1>2, <1>4, <2>1, <2>2, <2>3, <2>4 DEF CompetitorsTypeOK, Tracked
<1>6. RefreshSound'
    BY <1>2 DEF RefreshSound, MessageStoredOnce, Tracked
<1>7. \A b \in Agents : IsPruning(b) <=> IsPruning(b)'
    BY <1>2 DEF IsPruning, CompetitorsTypeOK
<1>8. RanksAreContiguous'
    BY <1>2, <1>7 DEF RanksAreContiguous, Tracked
<1>9. PruningSound'
    <2>1. Tracked \subseteq RivalNames
        BY DEF CompetitorsTypeOK
    <2> QED BY <1>2, <1>7, <2>1, SamePruning DEF Tracked
<1>10. \A n \in Tracked : rivals[n].at < round' /\ rivals[n].at <= round'
    BY <1>2 DEF NotTooLate, CompetitorsTypeOK, Row
<1>11. ASSUME ~entangled' PROVE LoneRun'
    <2>1. \A b \in Agents : phase'[b] # "idle" => b = a
        BY <1>2, <1>11 DEF LoneRun, CompetitorsTypeOK
    <2>2. phase'[a] = "save" /\ began'[a] = round'
        BY <1>2 DEF CompetitorsTypeOK
    <2> QED BY <1>2, <1>10, <2>1, <2>2 DEF LoneRun, IsPruning, Tracked
<1> QED BY <1>2, <1>4, <1>5, <1>6, <1>8, <1>9, <1>10, <1>11 DEF NotTooLate, Tracked

LEMMA SaveSound ==
    ASSUME CompetitorsAssumption, CompetitorsTypeOK, NEW a \in Agents, SaveRivals(a)
    PROVE  /\ Tracked' = Tracked \cup found[a].names
           /\ \A n \in found[a].names : /\ rivals'[n] \in Row
                                        /\ rivals'[n].size # "junk"
                                        /\ rivals'[n].at = round
                                        /\ n \notin doubled' => rivals'[n].ids <= 1
           /\ \A n \in Tracked \ found[a].names : rivals'[n] = rivals[n]
<1> DEFINE names == found[a].names
<1>1. PICK ids \in [names -> 0 .. TopN] :
        /\ \A n \in names : ids[n] \in StoredIds(a, n)
        /\ rivals' = [n \in Tracked \cup names |->
                        IF n \in names THEN SavedRow(a, n, ids[n]) ELSE rivals[n]]
    BY DEF SaveRivals
<1>2. ASSUME NEW n \in names
      PROVE  /\ rivals'[n] \in Row
             /\ rivals'[n].size # "junk"
             /\ rivals'[n].at = round
             /\ n \notin doubled' => rivals'[n].ids <= 1
    <2>0. found[a] \in Findings /\ toSave[a] \in [RivalNames -> Saving]
        BY DEF CompetitorsTypeOK
    <2>1. n \in RivalNames /\ toSave[a][n] \in Saving
          /\ toSave[a][n].rank \in Nat \ {0}
        BY <2>0 DEF Findings, Saving
    <2>2. ids[n] \in Nat /\ ids[n] <= toSave[a][n].ids
        BY <1>1, <2>1 DEF StoredIds, Saving
    <2>3. n \notin doubled' => toSave[a][n].times <= 1
        BY <2>1 DEF SaveRivals, Saving
    <2>4. toSave[a][n].ids <= toSave[a][n].times /\ toSave[a][n].ids \in Nat
          /\ toSave[a][n].times \in Nat
        BY <2>1 DEF Saving
    <2>5. n \notin doubled' => ids[n] <= 1
        BY <2>2, <2>3, <2>4
    <2>6. rivals'[n] = SavedRow(a, n, ids[n])
        BY <1>1
    <2>7. round \in 0 .. MaxRounds
        BY DEF CompetitorsTypeOK
    <2> QED BY <2>1, <2>2, <2>5, <2>6, <2>7 DEF SavedRow, Row
<1>3. Tracked' = Tracked \cup names /\ \A n \in Tracked \ names : rivals'[n] = rivals[n]
    BY <1>1 DEF Tracked
<1> QED BY <1>2, <1>3

LEMMA SaveRivalsStep ==
    ASSUME CompetitorsAssumption, CompetitorsInv, NEW a \in Agents, SaveRivals(a)
    PROVE  CompetitorsInv'
<1> USE DEF CompetitorsInv
<1>1. /\ phase[a] = "save" /\ phase' = [phase EXCEPT ![a] = "junk"]
      /\ doubled' = doubled \cup Contested(a) \cup {n \in found[a].names : toSave[a][n].times > 1}
      /\ toSave' = [toSave EXCEPT ![a] = NoSaving]
      /\ GoesOn(a, NoPruning, TRUE, {})
      /\ UNCHANGED <<round, known, began, found, listedRivals, dropped, writing, entangled,
                     tattered>>
    BY DEF SaveRivals, Enter, refresh
<1>2. /\ Tracked' = Tracked \cup found[a].names
      /\ \A n \in found[a].names : /\ rivals'[n] \in Row
                                   /\ rivals'[n].size # "junk"
                                   /\ rivals'[n].at = round
                                   /\ n \notin doubled' => rivals'[n].ids <= 1
      /\ \A n \in Tracked \ found[a].names : rivals'[n] = rivals[n]
    BY SaveSound
<1>3. /\ pruning' \in [Agents -> Pruning]
      /\ pruning'[a] = NoPruning
      /\ \A b \in Agents \ {a} :
            /\ pruning'[b].stage # "select" => IsPruning(b)
            /\ pruning[b].stage # "select" => pruning'[b].disturbed
            /\ pruning[b].stage = "select" => pruning'[b] = pruning[b]
    <2>1. {} \in SUBSET RivalNames /\ TRUE \in BOOLEAN
        OBVIOUS
    <2>2. NoPruning \in Pruning
        BY NoneTyped
    <2>3. GoesOn(a, NoPruning, TRUE, {})
        BY <1>1
    <2>4. CompetitorsTypeOK /\ PruningSound
        OBVIOUS
    <2> QED BY ONLY CompetitorsAssumption, a \in Agents, <2>1, <2>2, <2>3, <2>4, OthersGoOn
<1>4. RoundsLeft'
    BY <1>1, FewerSearch DEF Enter
<1>5. found[a].names \subseteq RivalNames
    <2>1. found[a] \in Findings
        BY DEF CompetitorsTypeOK
    <2> QED BY <2>1 DEF Findings
<1>6. CompetitorsTypeOK'
    <2>1. phase' \in [Agents -> {"idle", "search", "save", "junk", "stale", "done"}]
        BY <1>1 DEF CompetitorsTypeOK
    <2>2. Tracked' \subseteq RivalNames /\ \A n \in Tracked' : rivals'[n] \in Row
        BY <1>2, <1>5 DEF CompetitorsTypeOK
    <2>3. doubled' \subseteq RivalNames
        BY <1>1, <1>5 DEF Contested, CompetitorsTypeOK
    <2>4. toSave' \in [Agents -> [RivalNames -> Saving]]
        BY <1>1, NoneTyped DEF CompetitorsTypeOK
    <2> QED BY <1>1, <1>3, <2>1, <2>2, <2>3, <2>4 DEF CompetitorsTypeOK
<1>7. NotTooLate'
    BY <1>1, <1>2 DEF NotTooLate, CompetitorsTypeOK
<1>8. RefreshSound'
    <2>1. MessageStoredOnce'
        <3>1. doubled \subseteq doubled'
            BY <1>1
        <3> QED BY <1>2, <3>1 DEF RefreshSound, MessageStoredOnce
    <2>2. ASSUME NEW k \in Refreshers, writing[k].on, writing[k].new,
                 writing[k].name \notin dropped[k], writing[k].name \notin doubled'
          PROVE  rivals'[writing[k].name].ids = 0
        <3>1. writing[k].name \notin found[a].names /\ writing[k].name \notin doubled
            BY <1>1, <2>2 DEF Contested
        <3>2. writing[k].name \in Tracked /\ rivals[writing[k].name].ids = 0
            BY <2>2, <3>1 DEF RefreshSound
        <3> QED BY <1>2, <3>1, <3>2
    <2>3. ASSUME NEW k \in Refreshers
          PROVE  /\ listedRivals[k] \ dropped[k] \subseteq Tracked'
                 /\ writing[k].on => writing[k].name \in listedRivals[k]
        BY <1>2 DEF RefreshSound
    <2> QED BY <1>1, <2>1, <2>2, <2>3 DEF RefreshSound
<1>9. \A b \in Agents : IsPruning(b)' <=> IsPruning(b) \/ b = a
    BY <1>1 DEF IsPruning, CompetitorsTypeOK
<1>10. RanksAreContiguous'
    BY <1>9 DEF RanksAreContiguous
<1>11. PruningSound'
    <2>1. NoPruning.stage = "select" /\ Knows(a)'
        BY <1>3 DEF NoPruning, Knows
    <2>2. ASSUME NEW b \in Agents \ {a}
          PROVE  /\ pruning'[b].stage # "select" => IsPruning(b)'
                 /\ pruning'[b].disturbed \/ Knows(b)'
        <3>1. CASE pruning[b].stage = "select"
            BY <1>3, <1>9, <3>1 DEF Knows
        <3>2. CASE pruning[b].stage # "select"
            BY <1>3, <1>9, <3>2
        <3> QED BY <3>1, <3>2
    <2> QED BY <1>3, <1>9, <2>1, <2>2 DEF PruningSound
<1>12. ASSUME ~entangled' PROVE LoneRun'
    <2>1. /\ \A b \in Agents : phase'[b] # "idle" => b = a
          /\ began[a] = round /\ \A n \in Tracked : rivals[n].at < round
        BY <1>1, <1>12 DEF LoneRun, CompetitorsTypeOK
    <2>2. \A n \in Tracked : rivals[n].at # round
        BY <2>1 DEF CompetitorsTypeOK, Row
    <2>3. phase'[a] = "junk" /\ pruning'[a].doomed = {} /\ pruning'[a].stage = "select"
        BY <1>1, <1>3, NoneTyped DEF CompetitorsTypeOK
    <2> QED BY <1>1, <1>2, <2>1, <2>2, <2>3 DEF LoneRun, IsPruning
<1> QED BY <1>4, <1>6, <1>7, <1>8, <1>10, <1>11, <1>12

\* A step of a pruning that writes nothing.
LEMMA SelectOnly ==
    ASSUME CompetitorsAssumption, CompetitorsInv, NEW a \in Agents, IsPruning(a),
           NEW s \in Pruning, pruning' = [pruning EXCEPT ![a] = s],
           UNCHANGED <<rivals, round, phase, known, began, found, toSave, listedRivals, dropped,
                       writing, doubled, entangled, tattered>>,
           pruning'[a].disturbed \/ Knows(a)',
           ~entangled => LoneRun'
    PROVE  CompetitorsInv'
<1> USE DEF CompetitorsInv
<1>1. CompetitorsTypeOK'
    BY DEF CompetitorsTypeOK, Tracked
<1>2. RoundsLeft' /\ NotTooLate' /\ RefreshSound' /\ RanksAreContiguous'
    BY DEF RoundsLeft, Searching, NotTooLate, RefreshSound, MessageStoredOnce, RanksAreContiguous,
           IsPruning, Tracked
<1>3. ASSUME NEW b \in Agents
      PROVE  /\ pruning'[b].stage # "select" => IsPruning(b)'
             /\ pruning'[b].disturbed \/ Knows(b)'
    <2>1. CASE b = a
        BY <2>1 DEF IsPruning
    <2>2. CASE b # a
        <3>1. pruning'[b] = pruning[b]
            BY <2>2 DEF CompetitorsTypeOK
        <3>2. Knows(b) => Knows(b)'
            BY <3>1, KnowsSame DEF Tracked, CompetitorsTypeOK
        <3> QED BY <3>1, <3>2 DEF PruningSound, IsPruning
    <2> QED BY <2>1, <2>2
<1> QED BY <1>1, <1>2, <1>3 DEF PruningSound

LEMMA SelectRivalsStep ==
    ASSUME CompetitorsAssumption, CompetitorsInv, NEW a \in Agents, SelectRivals(a)
    PROVE  CompetitorsInv'
<1> USE DEF CompetitorsInv
<1> DEFINE s == [stage |-> "delete",
                 ranks |-> [n \in RivalNames |-> IF n \in Tracked THEN rivals[n].rank ELSE 0],
                 doomed |-> ToDelete(a), disturbed |-> FALSE]
<1>1. /\ IsPruning(a) /\ pruning[a].stage = "select" /\ pruning' = [pruning EXCEPT ![a] = s]
      /\ UNCHANGED <<rivals, round, phase, known, began, found, toSave, listedRivals, dropped,
                     writing, doubled, entangled, tattered>>
    BY DEF SelectRivals, agents, refresh
<1>2. ToDelete(a) \subseteq Tracked /\ Tracked \subseteq RivalNames
    BY DEF ToDelete, CompetitorsTypeOK
<1>3. s \in Pruning
    <2>1. \A n \in Tracked : rivals[n].rank \in Nat
        BY DEF CompetitorsTypeOK, Row
    <2> QED BY <1>2, <2>1 DEF Pruning
<1>4. pruning'[a] = s
    BY <1>1 DEF CompetitorsTypeOK
<1>5. Knows(a)'
    BY <1>1, <1>2, <1>4 DEF Knows, Tracked
<1>6. ASSUME ~entangled PROVE LoneRun'
    <2>1. \A b \in Agents : phase'[b] # "idle" => b = a
        BY <1>1, <1>6 DEF LoneRun, IsPruning
    <2>2. \A n \in found[a].names : rivals[n].at = round /\ rivals[n].size # "junk" /\ n \in Tracked
        BY <1>1, <1>6 DEF LoneRun
    <2>3. began[a] = round /\ round \in Int
        BY <1>1, <1>6 DEF LoneRun, CompetitorsTypeOK
    <2>4. ToDelete(a) \cap found[a].names = {}
        BY <2>2, <2>3 DEF ToDelete, Stale
    <2>5. phase[a] = "stale" => ToDelete(a) = Tracked \ found[a].names
        <3>1. \A n \in Tracked : rivals[n].at \in Int /\ rivals[n].at <= round
            BY DEF NotTooLate, CompetitorsTypeOK, Row
        <3>2. \A n \in Tracked : n \in found[a].names <=> rivals[n].at = round
            BY <1>1, <1>6 DEF LoneRun
        <3> QED BY <2>3, <3>1, <3>2 DEF ToDelete, Stale
    <2>6. pruning'[a].stage = "delete" /\ pruning'[a].doomed = ToDelete(a)
        BY <1>4
    <2>7. phase[a] \notin {"save", "done"}
        BY <1>1 DEF IsPruning
    <2> HIDE DEF s
    <2>8. LoneRun
        BY <1>6
    <2> QED BY <1>1, <2>1, <2>4, <2>5, <2>6, <2>7, <2>8 DEF LoneRun, IsPruning, Tracked
<1> HIDE DEF s
<1> QED BY <1>1, <1>3, <1>5, <1>6, SelectOnly

LEMMA SelectSurvivorsStep ==
    ASSUME CompetitorsAssumption, CompetitorsInv, NEW a \in Agents, SelectSurvivors(a)
    PROVE  CompetitorsInv'
<1> USE DEF CompetitorsInv
<1> DEFINE ranks == [n \in RivalNames |->
                IF n \in Tracked /\ RankOf(n) # KnownRank(a, n) THEN RankOf(n) ELSE 0]
           s == [pruning[a] EXCEPT !.stage = "rank", !.ranks = ranks]
<1>1. /\ pruning[a].stage = "reselect" /\ pruning' = [pruning EXCEPT ![a] = s]
      /\ UNCHANGED <<rivals, round, phase, known, began, found, toSave, listedRivals, dropped,
                     writing, doubled, entangled, tattered>>
    <2>1. pruning' = [pruning EXCEPT ![a].stage = "rank", ![a].ranks = ranks]
        BY DEF SelectSurvivors
    <2>2. pruning \in [Agents -> Pruning]
        BY DEF CompetitorsTypeOK
    <2> HIDE DEF ranks
    <2> QED BY <2>1, <2>2 DEF SelectSurvivors, agents, refresh, Pruning
<1>2. ranks \in [RivalNames -> Nat] /\ \A n \in Tracked : RankOf(n) \in Nat \ {0}
    BY RankOfSound
<1>3. pruning[a] \in Pruning
    BY DEF CompetitorsTypeOK
<1>4. s \in Pruning /\ s.stage = "rank" /\ s.ranks = ranks /\ s.doomed = pruning[a].doomed
      /\ s.disturbed = pruning[a].disturbed
    <2> HIDE DEF ranks
    <2> QED BY <1>2, <1>3 DEF Pruning
<1>5. pruning'[a] = s
    BY <1>1 DEF CompetitorsTypeOK
<1>6. IsPruning(a)
    BY <1>1 DEF PruningSound
<1>7. pruning'[a].disturbed \/ Knows(a)'
    <2> SUFFICES ASSUME ~pruning[a].disturbed PROVE Knows(a)'
        BY <1>4, <1>5
    <2>1. \A n \in Tracked : pruning[a].ranks[n] = rivals[n].rank /\ rivals[n].rank # 0
        BY <1>1 DEF PruningSound, Knows, CompetitorsTypeOK, Row
    <2>2. \A n \in Tracked : KnownRank(a, n) = rivals[n].rank
        BY <2>1 DEF KnownRank
    <2>3. \A n \in Tracked : IF ranks[n] = 0 THEN rivals[n].rank = RankOf(n)
                             ELSE ranks[n] = RankOf(n)
        BY <1>2, <2>2 DEF CompetitorsTypeOK
    <2>4. \A n \in Tracked : RankOf(n)' = RankOf(n)
        BY <1>1, RankOfSame DEF Tracked
    <2>5. pruning'[a].stage = "rank" /\ pruning'[a].ranks = ranks
        BY <1>4, <1>5
    <2> HIDE DEF s, ranks
    <2> QED BY <1>1, <2>3, <2>4, <2>5 DEF Knows, Tracked
<1>8. ASSUME ~entangled PROVE LoneRun'
    <2>1. LoneRun
        BY <1>8
    <2>2. /\ pruning'[a].stage = "rank" /\ pruning'[a].doomed = pruning[a].doomed
          /\ \A b \in Agents \ {a} : pruning'[b] = pruning[b]
        BY <1>1, <1>4, <1>5 DEF CompetitorsTypeOK
    <2> HIDE DEF s
    <2> QED BY <1>1, <2>1, <2>2 DEF LoneRun, IsPruning, Tracked
<1> HIDE DEF s
<1> QED BY <1>1, <1>4, <1>6, <1>7, <1>8, SelectOnly

LEMMA DeleteDoomedStep ==
    ASSUME CompetitorsAssumption, CompetitorsInv, NEW a \in Agents, DeleteDoomed(a)
    PROVE  CompetitorsInv'
<1> USE DEF CompetitorsInv
<1> DEFINE gone == pruning[a].doomed
           s == [stage |-> "reselect",
                 ranks |-> [n \in RivalNames |-> IF n \in gone THEN 0 ELSE pruning[a].ranks[n]],
                 doomed |-> {}, disturbed |-> pruning[a].disturbed]
           wrote == gone # {}
<1>1. /\ pruning[a].stage = "delete" /\ GoesOn(a, s, wrote, gone)
      /\ rivals' = [n \in Tracked \ gone |-> rivals[n]]
      /\ dropped' = [k \in Refreshers |-> dropped[k] \cup (listedRivals[k] \cap gone)]
      /\ UNCHANGED <<round, phase, known, began, found, toSave, listedRivals, writing, doubled,
                     entangled, tattered>>
    BY DEF DeleteDoomed, agents
<1>2. pruning[a] \in Pruning /\ gone \in SUBSET RivalNames /\ wrote \in BOOLEAN /\ IsPruning(a)
    BY <1>1 DEF CompetitorsTypeOK, Pruning, PruningSound
<1>3. s \in Pruning
    BY <1>2 DEF Pruning
<1>4. Tracked' = Tracked \ gone /\ \A n \in Tracked' : rivals'[n] = rivals[n]
    BY <1>1 DEF Tracked
<1>5. s.stage = "reselect" /\ s.doomed = {} /\ s.disturbed = pruning[a].disturbed
      /\ \A n \in RivalNames \ gone : s.ranks[n] = pruning[a].ranks[n]
    OBVIOUS
<1> HIDE DEF s, wrote, gone
<1>6. /\ pruning' \in [Agents -> Pruning]
      /\ pruning'[a] = s
      /\ \A b \in Agents \ {a} :
           /\ pruning'[b].stage # "select" => IsPruning(b)
           /\ pruning[b].stage # "select" /\ wrote => pruning'[b].disturbed
           /\ gone = {} => /\ pruning'[b].stage = pruning[b].stage
                           /\ \A n \in RivalNames : pruning'[b].ranks[n] = pruning[b].ranks[n]
                           /\ ~wrote => pruning'[b].disturbed = pruning[b].disturbed
           /\ pruning[b].stage = "select" => pruning'[b] = pruning[b]
    <2>1. CompetitorsTypeOK /\ PruningSound
        OBVIOUS
    <2> QED BY ONLY CompetitorsAssumption, a \in Agents, <1>1, <1>2, <1>3, <2>1, OthersGoOn
<1>7. CompetitorsTypeOK'
    <2>1. Tracked' \subseteq RivalNames /\ \A n \in Tracked' : rivals'[n] \in Row
        BY <1>4 DEF CompetitorsTypeOK
    <2>2. dropped' \in [Refreshers -> SUBSET RivalNames]
        BY <1>1, <1>2 DEF CompetitorsTypeOK
    <2> QED BY <1>1, <1>6, <2>1, <2>2 DEF CompetitorsTypeOK
<1>8. RoundsLeft' /\ NotTooLate'
    BY <1>1, <1>4 DEF RoundsLeft, Searching, NotTooLate
<1>9. RefreshSound'
    <2>1. MessageStoredOnce'
        BY <1>1, <1>4 DEF RefreshSound, MessageStoredOnce
    <2>2. ASSUME NEW k \in Refreshers
          PROVE  /\ listedRivals[k] \ dropped'[k] \subseteq Tracked'
                 /\ writing[k].on => writing[k].name \in listedRivals[k]
                 /\ writing[k].on /\ writing[k].new /\ writing[k].name \notin dropped'[k]
                        /\ writing[k].name \notin doubled =>
                     rivals'[writing[k].name].ids = 0
        <3>1. dropped'[k] = dropped[k] \cup (listedRivals[k] \cap gone)
            BY <1>1
        <3> QED BY <1>4, <3>1 DEF RefreshSound
    <2> QED BY <1>1, <2>1, <2>2 DEF RefreshSound
<1>10. RanksAreContiguous'
    BY <1>1, <1>2 DEF RanksAreContiguous, IsPruning
<1>11. PruningSound'
    <2>1. pruning'[a].disturbed \/ Knows(a)'
        <3> SUFFICES ASSUME ~pruning[a].disturbed PROVE Knows(a)'
            BY <1>5, <1>6
        <3>1. \A n \in Tracked : pruning[a].ranks[n] = rivals[n].rank
            BY <1>1 DEF PruningSound, Knows
        <3>2. \A n \in Tracked' : n \in RivalNames \ gone
            BY <1>4 DEF CompetitorsTypeOK
        <3>3. \A n \in Tracked' : pruning'[a].ranks[n] = rivals'[n].rank
            BY <1>4, <1>5, <1>6, <3>1, <3>2
        <3>4. pruning'[a].stage = "reselect"
            BY <1>5, <1>6
        <3> QED BY <3>3, <3>4 DEF Knows
    <2>2. ASSUME NEW b \in Agents \ {a}
          PROVE  /\ pruning'[b].stage # "select" => IsPruning(b)
                 /\ pruning'[b].disturbed \/ Knows(b)'
        <3>1. CASE pruning[b].stage = "select"
            BY <1>6, <3>1 DEF Knows
        <3>2. CASE pruning[b].stage # "select" /\ wrote
            BY <1>6, <3>2
        <3>3. CASE ~wrote
            <4>1. gone = {}
                BY <3>3 DEF wrote
            <4>2. /\ Tracked' = Tracked /\ Tracked \subseteq RivalNames
                  /\ \A n \in Tracked : /\ rivals'[n].rank = rivals[n].rank
                                        /\ rivals'[n].size = rivals[n].size
                BY <1>4, <4>1 DEF CompetitorsTypeOK
            <4>3. Knows(b) => Knows(b)'
                BY <1>6, <4>1, <4>2, KnowsSame
            <4> QED BY <1>6, <3>3, <4>1, <4>3 DEF PruningSound
        <3> QED BY <3>1, <3>2, <3>3
    <2>3. \A b \in Agents : IsPruning(b)' = IsPruning(b)
        BY <1>1 DEF IsPruning
    <2> QED BY <1>2, <2>1, <2>2, <2>3 DEF PruningSound
<1>12. ASSUME ~entangled' PROVE LoneRun'
    <2>1. LoneRun
        BY <1>1, <1>12
    <2>2. \A b \in Agents : phase'[b] # "idle" => b = a
        BY <1>1, <1>2, <2>1 DEF LoneRun, IsPruning
    <2>3. /\ began[a] = round /\ found[a].names \subseteq Tracked'
          /\ \A n \in Tracked : n \in found[a].names <=> rivals[n].at = round
          /\ \A n \in found[a].names : rivals[n].size # "junk"
        BY <1>2, <1>4, <2>1 DEF LoneRun, gone
    <2>4. phase[a] = "stale" => Tracked' = found[a].names
        BY <1>1, <1>2, <1>4, <2>1 DEF LoneRun, gone, IsPruning
    <2>5. phase[a] \notin {"save", "done"} /\ pruning'[a].stage = "reselect"
          /\ pruning'[a].doomed = {}
        BY <1>2, <1>5, <1>6 DEF IsPruning
    <2> QED BY <1>1, <1>4, <2>2, <2>3, <2>4, <2>5 DEF LoneRun, IsPruning
<1> QED BY <1>7, <1>8, <1>9, <1>10, <1>11, <1>12

LEMMA WriteRanksStep ==
    ASSUME CompetitorsAssumption, CompetitorsInv, NEW a \in Agents, WriteRanks(a)
    PROVE  CompetitorsInv'
<1> USE DEF CompetitorsInv
<1> DEFINE ranks == pruning[a].ranks
           wrote == ranks # NoRanks
           step == IF phase[a] = "junk" /\ found[a].length >= Healthy THEN "stale" ELSE "done"
<1>1. /\ pruning[a].stage = "rank" /\ GoesOn(a, NoPruning, wrote, {})
      /\ rivals' = [n \in Tracked |-> IF ranks[n] = 0 THEN rivals[n]
                                      ELSE [rivals[n] EXCEPT !.rank = ranks[n]]]
      /\ Enter(a, step) /\ phase' = [phase EXCEPT ![a] = step]
      /\ tattered' = pruning[a].disturbed
      /\ UNCHANGED <<round, known, began, found, toSave, listedRivals, dropped, writing, doubled,
                     entangled>>
    BY DEF WriteRanks, EndPruning, Enter, refresh
<1>2. pruning[a] \in Pruning /\ ranks \in [RivalNames -> Nat] /\ wrote \in BOOLEAN
      /\ IsPruning(a) /\ step \in {"stale", "done"}
    BY <1>1 DEF CompetitorsTypeOK, Pruning, PruningSound
<1>3. Tracked' = Tracked /\ Tracked \subseteq RivalNames
    BY <1>1 DEF Tracked, CompetitorsTypeOK
<1>4. ASSUME NEW n \in Tracked
      PROVE  /\ rivals'[n] \in Row
             /\ rivals'[n].size = rivals[n].size
             /\ rivals'[n].at = rivals[n].at
             /\ rivals'[n].ids = rivals[n].ids
             /\ rivals'[n].rank = IF ranks[n] = 0 THEN rivals[n].rank ELSE ranks[n]
    <2>1. rivals[n] \in Row /\ ranks[n] \in Nat
        BY <1>2, <1>3 DEF CompetitorsTypeOK
    <2>2. rivals'[n] = IF ranks[n] = 0 THEN rivals[n] ELSE [rivals[n] EXCEPT !.rank = ranks[n]]
        BY <1>1
    <2> HIDE DEF ranks
    <2> QED BY <2>1, <2>2 DEF Row
<1>5. ~wrote => \A n \in Tracked : ranks[n] = 0
    BY <1>3 DEF NoRanks
<1>6. ~pruning[a].disturbed => \A n \in Tracked : rivals'[n].rank = RankOf(n)
    <2> SUFFICES ASSUME ~pruning[a].disturbed, NEW n \in Tracked
                 PROVE  rivals'[n].rank = RankOf(n)
        OBVIOUS
    <2>1. IF ranks[n] = 0 THEN rivals[n].rank = RankOf(n) ELSE ranks[n] = RankOf(n)
        BY <1>1 DEF PruningSound, Knows
    <2> QED BY <1>4, <2>1
<1> HIDE DEF ranks, wrote, step
<1>7. /\ pruning' \in [Agents -> Pruning]
      /\ pruning'[a] = NoPruning
      /\ \A b \in Agents \ {a} :
           /\ pruning'[b].stage # "select" => IsPruning(b)
           /\ pruning[b].stage # "select" /\ wrote => pruning'[b].disturbed
           /\ pruning'[b].stage = pruning[b].stage
           /\ \A n \in RivalNames : pruning'[b].ranks[n] = pruning[b].ranks[n]
           /\ ~wrote => pruning'[b].disturbed = pruning[b].disturbed
           /\ pruning[b].stage = "select" => pruning'[b] = pruning[b]
    <2>1. CompetitorsTypeOK /\ PruningSound /\ {} \in SUBSET RivalNames
        OBVIOUS
    <2>2. NoPruning \in Pruning
        BY NoneTyped
    <2> QED BY ONLY CompetitorsAssumption, a \in Agents, <1>1, <1>2, <2>1, <2>2, OthersGoOn
<1>8. CompetitorsTypeOK'
    <2>1. phase' \in [Agents -> {"idle", "search", "save", "junk", "stale", "done"}]
        BY <1>1, <1>2 DEF CompetitorsTypeOK
    <2>2. tattered' \in BOOLEAN
        BY <1>1, <1>2 DEF Pruning
    <2>3. Tracked' \subseteq RivalNames /\ \A n \in Tracked' : rivals'[n] \in Row
        BY <1>3, <1>4
    <2> QED BY <1>1, <1>7, <2>1, <2>2, <2>3 DEF CompetitorsTypeOK
<1>9. RoundsLeft'
    BY <1>1, <1>2, FewerSearch
<1>10. NotTooLate'
    BY <1>1, <1>3, <1>4 DEF NotTooLate
<1>11. RefreshSound'
    BY <1>1, <1>3, <1>4 DEF RefreshSound, MessageStoredOnce
<1>12. RanksAreContiguous'
    <2> SUFFICES ASSUME ~pruning[a].disturbed
                 PROVE  {rivals'[n].rank : n \in Tracked'} = 1 .. Cardinality(Tracked')
        BY <1>1 DEF RanksAreContiguous
    <2>1. {RankOf(n) : n \in Tracked} = 1 .. Cardinality(Tracked)
        BY RankOfSound
    <2>2. {rivals'[n].rank : n \in Tracked'} = {RankOf(n) : n \in Tracked}
        BY <1>3, <1>6
    <2> QED BY <1>3, <2>1, <2>2
<1>13. PruningSound'
    <2>1. pruning'[a].stage = "select"
        BY <1>7, NoneTyped
    <2>2. ASSUME NEW b \in Agents \ {a}
          PROVE  /\ pruning'[b].stage # "select" => IsPruning(b)
                 /\ pruning'[b].disturbed \/ Knows(b)'
        <3>1. CASE pruning[b].stage = "select"
            BY <1>7, <3>1 DEF Knows
        <3>2. CASE pruning[b].stage # "select" /\ wrote
            BY <1>7, <3>2
        <3>3. CASE ~wrote
            <4>1. \A n \in Tracked : /\ rivals'[n].rank = rivals[n].rank
                                     /\ rivals'[n].size = rivals[n].size
                BY <1>4, <1>5, <3>3
            <4>2. Knows(b) => Knows(b)'
                BY <1>3, <1>7, <4>1, KnowsSame
            <4> QED BY <1>7, <3>3, <4>2 DEF PruningSound
        <3> QED BY <3>1, <3>2, <3>3
    <2>3. \A b \in Agents \ {a} : IsPruning(b)' = IsPruning(b)
        BY <1>1 DEF IsPruning, CompetitorsTypeOK
    <2> QED BY <2>1, <2>2, <2>3 DEF PruningSound, Knows
<1>14. ASSUME ~entangled' PROVE LoneRun'
    <2>1. LoneRun
        BY <1>1, <1>14
    <2>2. \A b \in Agents : phase'[b] # "idle" => b = a
        BY <1>1, <1>2, <2>1 DEF LoneRun, IsPruning, CompetitorsTypeOK
    <2>3. /\ began[a] = round /\ found[a].names \subseteq Tracked
          /\ \A n \in Tracked : n \in found[a].names <=> rivals[n].at = round
          /\ \A n \in found[a].names : rivals[n].size # "junk"
        BY <1>2, <2>1 DEF LoneRun
    <2>4. phase[a] = "stale" => Tracked = found[a].names
        BY <1>1, <2>1 DEF LoneRun
    <2>5. phase'[a] = step /\ pruning'[a].stage = "select" /\ pruning'[a].doomed = {}
        BY <1>1, <1>7, NoneTyped DEF CompetitorsTypeOK
    <2>6. phase'[a] = "done" => phase[a] = "stale" \/ ~(found[a].length >= Healthy)
        BY <1>2, <2>5 DEF step, IsPruning
    <2>7. phase'[a] \in {"stale", "done"}
        BY <1>2, <2>5
    <2> QED BY <1>1, <1>3, <1>4, <2>2, <2>3, <2>4, <2>5, <2>6, <2>7 DEF LoneRun, IsPruning
<1> QED BY <1>8, <1>9, <1>10, <1>11, <1>12, <1>13, <1>14

LEMMA AbortStep ==
    ASSUME CompetitorsAssumption, CompetitorsInv, NEW a \in Agents, Abort(a)
    PROVE  CompetitorsInv'
<1> USE DEF CompetitorsInv
<1>1. /\ Enter(a, "idle") /\ phase' = [phase EXCEPT ![a] = "idle"]
      /\ found' = [found EXCEPT ![a] = Nothing] /\ toSave' = [toSave EXCEPT ![a] = NoSaving]
      /\ pruning' = [pruning EXCEPT ![a] = NoPruning]
      /\ tattered' = (tattered \/ IsPruning(a))
      /\ UNCHANGED <<rivals, round, known, began, listedRivals, dropped, writing, doubled,
                     entangled>>
    BY DEF Abort, Enter, refresh
<1>2. RoundsLeft'
    BY <1>1, FewerSearch
<1>3. CompetitorsTypeOK'
    <2>1. phase' \in [Agents -> {"idle", "search", "save", "junk", "stale", "done"}]
        BY <1>1 DEF CompetitorsTypeOK
    <2>2. Nothing \in Findings
        BY DEF Nothing, Findings, CompetitorsAssumption
    <2>3. /\ found' \in [Agents -> Findings] /\ toSave' \in [Agents -> [RivalNames -> Saving]]
          /\ pruning' \in [Agents -> Pruning]
        BY <1>1, <2>2, NoneTyped DEF CompetitorsTypeOK
    <2>4. tattered' \in BOOLEAN
        BY <1>1 DEF CompetitorsTypeOK, IsPruning
    <2> QED BY <1>1, <2>1, <2>3, <2>4 DEF CompetitorsTypeOK, Tracked
<1>4. \A b \in Agents : b # a => /\ IsPruning(b)' = IsPruning(b)
                                 /\ pruning'[b] = pruning[b]
    BY <1>1 DEF IsPruning, CompetitorsTypeOK
<1>5. NotTooLate' /\ RefreshSound'
    BY <1>1 DEF NotTooLate, RefreshSound, MessageStoredOnce, Tracked
<1>6. RanksAreContiguous'
    BY <1>1, <1>4 DEF RanksAreContiguous, Tracked
<1>7. PruningSound'
    <2>1. pruning'[a].stage = "select"
        BY <1>1, NoneTyped DEF CompetitorsTypeOK
    <2>2. ASSUME NEW b \in Agents, b # a, Knows(b) PROVE Knows(b)'
        BY <1>1, <1>4, <2>2, KnowsSame DEF Tracked, CompetitorsTypeOK
    <2> QED BY <1>4, <2>1, <2>2 DEF PruningSound, Knows
<1>8. ASSUME ~entangled' PROVE LoneRun'
    <2>1. LoneRun
        BY <1>1, <1>8
    <2>2. phase'[a] = "idle"
        BY <1>1 DEF CompetitorsTypeOK
    <2>3. \A b \in Agents : b # a => /\ phase'[b] = phase[b] /\ found'[b] = found[b]
                                     /\ pruning'[b] = pruning[b]
        BY <1>1 DEF CompetitorsTypeOK
    <2> QED BY <1>1, <2>1, <2>2, <2>3 DEF LoneRun, IsPruning, Tracked
<1> QED BY <1>2, <1>3, <1>5, <1>6, <1>7, <1>8

\* A step of a refresh that keeps all of a row but its posts keeps the invariant if it keeps
\* RefreshSound.
LEMMA RefreshOnly ==
    ASSUME CompetitorsInv,
           UNCHANGED <<round, phase, known, began, found, toSave, pruning, entangled, tattered>>,
           Tracked' = Tracked, \A n \in Tracked : rivals'[n] \in Row /\ SameRow(n),
           listedRivals' \in [Refreshers -> SUBSET RivalNames],
           dropped' \in [Refreshers -> SUBSET RivalNames],
           writing' \in [Refreshers -> [on : BOOLEAN, name : RivalNames, new : BOOLEAN]],
           doubled' \subseteq RivalNames,
           RefreshSound'
    PROVE  CompetitorsInv'
<1> USE DEF CompetitorsInv
<1>1. CompetitorsTypeOK'
    BY DEF CompetitorsTypeOK
<1>2. RoundsLeft' /\ NotTooLate'
    BY DEF RoundsLeft, Searching, NotTooLate, SameRow
<1>3. RanksAreContiguous'
    <2>1. {rivals'[n].rank : n \in Tracked'} = {rivals[n].rank : n \in Tracked}
        BY DEF SameRow
    <2> QED BY <2>1 DEF RanksAreContiguous, IsPruning
<1>4. PruningSound'
    BY SamePruning DEF SameRow, IsPruning, CompetitorsTypeOK
<1>5. entangled' \/ LoneRun'
    BY DEF LoneRun, IsPruning, SameRow
<1> QED BY <1>1, <1>2, <1>3, <1>4, <1>5

\* ... if it keeps the table.
LEMMA RefreshReadsOnly ==
    ASSUME CompetitorsInv,
           UNCHANGED <<rivals, round, phase, known, began, found, toSave, pruning, doubled,
                       entangled, tattered>>,
           listedRivals' \in [Refreshers -> SUBSET RivalNames],
           dropped' \in [Refreshers -> SUBSET RivalNames],
           writing' \in [Refreshers -> [on : BOOLEAN, name : RivalNames, new : BOOLEAN]],
           RefreshSound'
    PROVE  CompetitorsInv'
<1>1. /\ Tracked' = Tracked /\ doubled' \subseteq RivalNames
      /\ \A n \in Tracked : rivals'[n] \in Row /\ SameRow(n)
    BY DEF CompetitorsInv, CompetitorsTypeOK, Tracked, SameRow
<1> QED BY <1>1, RefreshOnly

LEMMA ListStep ==
    ASSUME CompetitorsAssumption, CompetitorsInv, NEW k \in Refreshers, List(k)
    PROVE  CompetitorsInv'
<1> USE DEF CompetitorsInv
<1>1. /\ listedRivals[k] = {}
      /\ listedRivals' = [listedRivals EXCEPT ![k] = {n \in Tracked : rivals[n].size # "unknown"}]
      /\ UNCHANGED <<rivals, round, phase, known, began, found, toSave, pruning, dropped, writing,
                     doubled, entangled, tattered>>
    BY DEF List, agents
<1>2. listedRivals' \in [Refreshers -> SUBSET RivalNames]
    BY <1>1 DEF CompetitorsTypeOK
<1>3. ASSUME NEW j \in Refreshers
      PROVE  /\ listedRivals'[j] \ dropped[j] \subseteq Tracked
             /\ writing[j].on => writing[j].name \in listedRivals'[j]
    <2>1. j # k => listedRivals'[j] = listedRivals[j]
        BY <1>1 DEF CompetitorsTypeOK
    <2>2. listedRivals'[k] \subseteq Tracked
        BY <1>1 DEF CompetitorsTypeOK
    <2> QED BY <1>1, <2>1, <2>2 DEF RefreshSound
<1>4. RefreshSound'
    BY <1>1, <1>3 DEF RefreshSound, MessageStoredOnce, Tracked
<1> QED BY <1>1, <1>2, <1>4, RefreshReadsOnly DEF CompetitorsTypeOK

\* A refresh goes on to the next rival; the others are where they were.
LEMMA VisitedSound ==
    ASSUME CompetitorsTypeOK, RefreshSound, NEW k \in Refreshers, NEW n \in RivalNames,
           Visited(k, n)
    PROVE  /\ listedRivals' \in [Refreshers -> SUBSET RivalNames]
           /\ dropped' \in [Refreshers -> SUBSET RivalNames]
           /\ \A j \in Refreshers : listedRivals'[j] \ dropped'[j] \subseteq Tracked
           /\ \A j \in Refreshers \ {k} :
                listedRivals'[j] = listedRivals[j] /\ dropped'[j] = dropped[j]
<1>1. /\ listedRivals' = [listedRivals EXCEPT ![k] = listedRivals[k] \ {n}]
      /\ dropped' = [dropped EXCEPT ![k] = dropped[k] \ {n}]
    BY DEF Visited
<1>2. /\ listedRivals \in [Refreshers -> SUBSET RivalNames]
      /\ dropped \in [Refreshers -> SUBSET RivalNames]
    BY DEF CompetitorsTypeOK
<1> QED BY <1>1, <1>2 DEF RefreshSound

LEMMA SkipStep ==
    ASSUME CompetitorsAssumption, CompetitorsInv, NEW k \in Refreshers, NEW n \in RivalNames,
           Skip(k, n)
    PROVE  CompetitorsInv'
<1> USE DEF CompetitorsInv
<1>1. /\ ~writing[k].on /\ Visited(k, n)
      /\ UNCHANGED <<rivals, round, phase, known, began, found, toSave, pruning, writing, doubled,
                     entangled, tattered>>
    BY DEF Skip, agents
<1>2. /\ listedRivals' \in [Refreshers -> SUBSET RivalNames]
      /\ dropped' \in [Refreshers -> SUBSET RivalNames]
      /\ \A j \in Refreshers : listedRivals'[j] \ dropped'[j] \subseteq Tracked
      /\ \A j \in Refreshers \ {k} :
            listedRivals'[j] = listedRivals[j] /\ dropped'[j] = dropped[j]
    BY <1>1, VisitedSound
<1>3. RefreshSound'
    BY <1>1, <1>2 DEF RefreshSound, MessageStoredOnce, Tracked
<1> QED BY <1>1, <1>2, <1>3, RefreshReadsOnly DEF CompetitorsTypeOK

LEMMA ReadPostsStep ==
    ASSUME CompetitorsAssumption, CompetitorsInv, NEW k \in Refreshers, NEW n \in RivalNames,
           ReadPosts(k, n)
    PROVE  CompetitorsInv'
<1> USE DEF CompetitorsInv
<1>1. /\ writing' = [writing EXCEPT ![k] = [on |-> TRUE, name |-> n, new |-> IsNew(k, n)]]
      /\ n \in listedRivals[k]
      /\ UNCHANGED <<rivals, round, phase, known, began, found, toSave, pruning, listedRivals,
                     dropped, doubled, entangled, tattered>>
    BY DEF ReadPosts, agents
<1>2. IsNew(k, n) \in BOOLEAN
    BY DEF IsNew
<1>3. writing' \in [Refreshers -> [on : BOOLEAN, name : RivalNames, new : BOOLEAN]]
    BY <1>1, <1>2 DEF CompetitorsTypeOK
<1>4. /\ writing'[k].name = n /\ writing'[k].new = IsNew(k, n)
      /\ \A j \in Refreshers \ {k} : writing'[j] = writing[j]
    BY <1>1 DEF CompetitorsTypeOK
<1>5. IsNew(k, n) /\ n \notin dropped[k] => rivals[n].ids = 0
    BY DEF IsNew
<1>6. RefreshSound'
    BY <1>1, <1>4, <1>5 DEF RefreshSound, MessageStoredOnce, Tracked
<1> QED BY <1>1, <1>3, <1>6, RefreshReadsOnly DEF CompetitorsTypeOK

LEMMA EndRefreshStep ==
    ASSUME CompetitorsAssumption, CompetitorsInv, NEW k \in Refreshers, EndRefresh(k)
    PROVE  CompetitorsInv'
<1> USE DEF CompetitorsInv
<1>1. /\ listedRivals' = [listedRivals EXCEPT ![k] = {}]
      /\ dropped' = [dropped EXCEPT ![k] = {}]
      /\ writing' = [writing EXCEPT ![k] = NotWritingPosts]
      /\ UNCHANGED <<rivals, round, phase, known, began, found, toSave, pruning, doubled,
                     entangled, tattered>>
    BY DEF EndRefresh, agents
<1>2. /\ listedRivals' \in [Refreshers -> SUBSET RivalNames]
      /\ dropped' \in [Refreshers -> SUBSET RivalNames]
      /\ writing' \in [Refreshers -> [on : BOOLEAN, name : RivalNames, new : BOOLEAN]]
    BY <1>1, NotWritingType DEF CompetitorsTypeOK
<1>3. ASSUME NEW j \in Refreshers, j # k
      PROVE  /\ listedRivals'[j] = listedRivals[j] /\ dropped'[j] = dropped[j]
             /\ writing'[j] = writing[j]
    BY <1>1, <1>3 DEF CompetitorsTypeOK
<1>4. listedRivals'[k] = {} /\ ~writing'[k].on
    BY <1>1, NotWritingType DEF CompetitorsTypeOK
<1>5. RefreshSound'
    BY <1>1, <1>3, <1>4 DEF RefreshSound, MessageStoredOnce, Tracked
<1> QED BY <1>1, <1>2, <1>5, RefreshReadsOnly

LEMMA WritePostsStep ==
    ASSUME CompetitorsAssumption, CompetitorsInv, NEW k \in Refreshers, WritePosts(k)
    PROVE  CompetitorsInv'
<1> USE DEF CompetitorsInv
<1> DEFINE w == writing[k].name
           contested == {m \in {w} : \/ \E j \in Refreshers \ {k} :
                                            writing[j].on /\ writing[j].name = w
                                     \/ \E a \in Agents :
                                            phase[a] = "save" /\ w \in found[a].names}
<1>1. /\ writing[k].on /\ Visited(k, w)
      /\ writing' = [writing EXCEPT ![k] = NotWritingPosts]
      /\ UNCHANGED <<round, phase, known, began, found, toSave, pruning, entangled, tattered>>
    BY DEF WritePosts, agents
<1>2. /\ writing[k].new => /\ w \notin dropped[k]
                           /\ rivals' = [rivals EXCEPT ![w].ids = rivals[w].ids + 1]
                           /\ doubled' = doubled \cup contested
      /\ ~writing[k].new => UNCHANGED <<rivals, doubled>>
    BY DEF WritePosts
<1>3. w \in RivalNames /\ writing[k].new \in BOOLEAN
    BY DEF CompetitorsTypeOK
<1>4. /\ listedRivals' \in [Refreshers -> SUBSET RivalNames]
      /\ dropped' \in [Refreshers -> SUBSET RivalNames]
      /\ \A j \in Refreshers : listedRivals'[j] \ dropped'[j] \subseteq Tracked
      /\ \A j \in Refreshers \ {k} :
            listedRivals'[j] = listedRivals[j] /\ dropped'[j] = dropped[j]
    BY <1>1, <1>3, VisitedSound
<1>5. writing' \in [Refreshers -> [on : BOOLEAN, name : RivalNames, new : BOOLEAN]]
      /\ ~writing'[k].on /\ \A j \in Refreshers \ {k} : writing'[j] = writing[j]
    BY <1>1, NotWritingType DEF CompetitorsTypeOK
<1>6. doubled \subseteq doubled' /\ doubled' \subseteq RivalNames
    BY <1>2, <1>3 DEF CompetitorsTypeOK
<1>7. writing[k].new => w \in Tracked /\ (w \notin doubled => rivals[w].ids = 0)
    BY <1>1, <1>2 DEF RefreshSound
<1>8. /\ Tracked' = Tracked
      /\ \A n \in Tracked : n # w \/ ~writing[k].new => rivals'[n] = rivals[n]
      /\ writing[k].new => rivals'[w] = [rivals[w] EXCEPT !.ids = rivals[w].ids + 1]
    BY <1>2, <1>3, <1>7 DEF Tracked
<1>9. writing[k].new => /\ rivals'[w] \in Row /\ SameRow(w)
                        /\ rivals'[w].ids = rivals[w].ids + 1
    <2>1. writing[k].new => rivals[w] \in Row
        BY <1>7 DEF CompetitorsTypeOK
    <2> QED BY <1>8, <2>1 DEF Row, SameRow
<1>10. \A n \in Tracked : rivals'[n] \in Row /\ SameRow(n)
    BY <1>3, <1>8, <1>9 DEF CompetitorsTypeOK, SameRow
<1>11. MessageStoredOnce'
    <2> SUFFICES ASSUME NEW n \in Tracked \ doubled' PROVE rivals'[n].ids <= 1
        BY <1>8 DEF MessageStoredOnce
    <2>1. CASE n = w /\ writing[k].new
        BY <1>6, <1>7, <1>9, <2>1
    <2>2. CASE ~(n = w /\ writing[k].new)
        BY <1>6, <1>8, <2>2 DEF RefreshSound, MessageStoredOnce
    <2> QED BY <2>1, <2>2
<1>12. ASSUME NEW j \in Refreshers, j # k, writing[j].on, writing[j].new,
              writing[j].name \notin dropped[j], writing[j].name \notin doubled'
       PROVE  rivals'[writing[j].name].ids = 0
    <2>1. writing[k].new => writing[j].name # w
        BY <1>2, <1>12
    <2>2. writing[j].name \in Tracked /\ rivals[writing[j].name].ids = 0
        BY <1>6, <1>12 DEF RefreshSound
    <2> QED BY <1>8, <2>1, <2>2
<1>13. RefreshSound'
    BY <1>4, <1>5, <1>8, <1>11, <1>12 DEF RefreshSound
<1> QED BY <1>1, <1>4, <1>5, <1>6, <1>8, <1>10, <1>13, RefreshOnly

\* The invariant of a channel's competitors (tools/competitor.py:763-962).
THEOREM CompetitorsInvariance == CompetitorsAssumption /\ CompetitorsSpec => []CompetitorsInv
<1> SUFFICES ASSUME CompetitorsAssumption PROVE CompetitorsSpec => []CompetitorsInv
    OBVIOUS
<1>1. CompetitorsInit => CompetitorsInv
    BY CompetitorsInitInv
<1>2. CompetitorsInv /\ [CompetitorsNext]_competitorVars => CompetitorsInv'
    <2> SUFFICES ASSUME CompetitorsInv, [CompetitorsNext]_competitorVars
                 PROVE  CompetitorsInv'
        OBVIOUS
    <2>1. ASSUME NEW a \in Agents, AgentStep(a) PROVE CompetitorsInv'
        BY <2>1, BeginSearchStep, DiscoverStep, SaveRivalsStep, SelectRivalsStep,
           DeleteDoomedStep, SelectSurvivorsStep, WriteRanksStep, AbortStep DEF AgentStep
    <2>2. ASSUME NEW k \in Refreshers, RefreshStep(k) PROVE CompetitorsInv'
        BY <2>2, ListStep, SkipStep, ReadPostsStep, WritePostsStep, EndRefreshStep
           DEF RefreshStep
    <2>3. CASE UNCHANGED competitorVars
        <3>1. UNCHANGED <<rivals, round, phase, known, began, found, toSave, pruning,
                          listedRivals, dropped, writing, doubled, entangled, tattered>>
            BY <2>3 DEF competitorVars, agents, refresh
        <3>2. RefreshSound'
            BY <3>1 DEF CompetitorsInv, RefreshSound, MessageStoredOnce, Tracked
        <3> QED BY <3>1, <3>2, RefreshReadsOnly DEF CompetitorsInv, CompetitorsTypeOK
    <2> QED BY <2>1, <2>2, <2>3 DEF CompetitorsNext
<1> QED BY <1>1, <1>2, PTL DEF CompetitorsSpec

\* The variables of Competitors stay in their types (tools/competitor.py:763-962).
THEOREM CompetitorsTypeCorrect ==
    CompetitorsAssumption /\ CompetitorsSpec => []CompetitorsTypeOK
<1>1. CompetitorsInv => CompetitorsTypeOK
    BY DEF CompetitorsInv
<1> QED BY <1>1, CompetitorsInvariance, PTL

\* Outside a run's save and prunings the ranks of the tracked channels are 1, 2, ... without
\* a gap or a tie, once a pruning has gone through that no other run wrote into, and until a
\* run ends early or overlaps another's pruning (tools/competitor.py:842-891).
THEOREM RanksWithoutGaps == CompetitorsAssumption /\ CompetitorsSpec => []RanksAreContiguous
<1>1. CompetitorsInv => RanksAreContiguous
    BY DEF CompetitorsInv
<1> QED BY <1>1, CompetitorsInvariance, PTL

\* A run alone that finds a healthy list leaves that list and nothing else
\* (agents/competitor_intelligence.py:339-347).
THEOREM RunReplacesList == CompetitorsAssumption /\ CompetitorsSpec => []HealthyRunReplaces
<1>1. CompetitorsInv => HealthyRunReplaces
    BY DEF CompetitorsInv, LoneRun, HealthyRunReplaces
<1> QED BY <1>1, CompetitorsInvariance, PTL

\* A rival has one post of a message id, whatever runs and refreshes do between the two
\* sessions of a refresh, unless two of them wrote its posts at a time or it was saved from
\* two entries (tools/competitor.py:894-960).
THEOREM OneCopyOfMessage == CompetitorsAssumption /\ CompetitorsSpec => []MessageStoredOnce
<1>1. CompetitorsInv => MessageStoredOnce
    BY DEF CompetitorsInv, RefreshSound
<1> QED BY <1>1, CompetitorsInvariance, PTL
-----------------------------------------------------------------------------
(***************************************************************************)
(* Proofs about Sources, for any feeds, hosts, seeders and bounds.         *)
(*                                                                         *)
(* SourcesInv says that, as long as seedings have not overlapped, one at   *)
(* most is at work, and that nothing was seeded before it is done.         *)
(***************************************************************************)
\* What a source may have been seeded as.
Marks == Feeds \cup {"none"}

Source ==
    [id : Nat, feed : Feeds, own : BOOLEAN, seeded : Marks, active : BOOLEAN, avg : Int,
     scored : Int]

SourcesTypes ==
    /\ sources \subseteq Source
    /\ \A s \in sources : s.id \in 1 .. planted
    /\ planted \in 0 .. MostSources
    /\ edits \in 0 .. MostEdits
    /\ seeding \subseteq Seeders
    /\ oversown \in BOOLEAN

\* Unless seedings overlapped, there is one at a time, it follows no other, and what was
\* seeded is there once.
Seeded ==
    ~oversown =>
        /\ \A o, q \in seeding : o = q
        /\ seeding # {} => \A s \in sources : s.seeded = "none"
        /\ \A s, t \in sources : s.seeded # "none" /\ s.seeded = t.seeded /\ s.own = t.own => s = t

SourcesInv == SourcesTypes /\ Seeded

-----------------------------------------------------------------------------
(***************************************************************************)
(* Lemmas about the rows of a seeding.                                     *)
(***************************************************************************)

\* A feed is of the type of the table.
LEMMA FeedIsSource ==
    ASSUME NEW n \in Nat, NEW feed \in Feeds, NEW mark \in Marks
    PROVE  /\ NewSource(n, feed, mark) \in Source
           /\ NewSource(n, feed, mark).id = n
           /\ NewSource(n, feed, mark).seeded = mark
           /\ NewSource(n, feed, mark).own = FALSE
BY DEF NewSource, Source

\* So is the website.
LEMMA SiteIsSource ==
    ASSUME SourcesAssumption, NEW n \in Nat, NEW site \in Feeds
    PROVE  /\ OwnSource(n, site) \in Source
           /\ OwnSource(n, site).id = n
           /\ OwnSource(n, site).seeded = site
           /\ OwnSource(n, site).own = TRUE
<1>1. 5 * Precision \in Int
    <2>1. Precision \in Nat
        BY DEF SourcesAssumption
    <2> QED BY <2>1
<1>2. site \in Marks
    BY DEF Marks
<1> QED BY <1>1, <1>2 DEF OwnSource, Source

\* An order of the feeds names each of them once.
LEMMA OrderIsInjective ==
    ASSUME SourcesAssumption,
           NEW q \in [1 .. Cardinality(CategoryFeeds) -> CategoryFeeds],
           \A f \in CategoryFeeds : \E i \in 1 .. Cardinality(CategoryFeeds) : q[i] = f
    PROVE  \A i, j \in 1 .. Cardinality(CategoryFeeds) : q[i] = q[j] => i = j
<1> DEFINE n == Cardinality(CategoryFeeds)
<1>1. IsFiniteSet(CategoryFeeds) /\ n \in Nat
    BY FS_CardinalityType DEF SourcesAssumption
<1>2. IsFiniteSet(1 .. n) /\ Cardinality(1 .. n) = n
    BY <1>1, FS_Interval
<1>3. q \in Surjection(1 .. n, CategoryFeeds)
    BY DEF Surjection
<1>4. q \in Injection(1 .. n, CategoryFeeds)
    BY <1>1, <1>2, <1>3, FS_Surjection
<1> QED BY <1>4 DEF Injection, IsInjective

\* Rows are numbered from the last source on, and each is seeded as something else, the
\* website aside.
LEMMA RowsOfSeeding ==
    ASSUME SourcesAssumption, planted \in Nat,
           NEW site, site = "none" \/ site \in Feeds, NEW rows \in SeedRows(site)
    PROVE  /\ Cardinality(rows) \in Nat
           /\ rows \subseteq Source
           /\ \A s \in rows : s.id \in 1 .. planted + Cardinality(rows) /\ s.seeded # "none"
           /\ \A s, t \in rows : s.seeded = t.seeded /\ s.own = t.own => s = t
<1> DEFINE n == Cardinality(CategoryFeeds)
           first == IF site = "none" THEN planted ELSE planted + 1
           own == IF site = "none" THEN {} ELSE {OwnSource(first, site)}
<1>1. PICK q \in [1 .. n -> CategoryFeeds] :
            /\ \A f \in CategoryFeeds : \E i \in 1 .. n : q[i] = f
            /\ rows = own \cup {NewSource(first + i, q[i], q[i]) : i \in 1 .. n}
    BY DEF SeedRows
<1> DEFINE row(i) == NewSource(first + i, q[i], q[i])
           feeds == {row(i) : i \in 1 .. n}
           number == [i \in 1 .. n |-> row(i)]
<1>2. n \in Nat /\ first \in Nat
    BY FS_CardinalityType DEF SourcesAssumption
<1>3. \A i \in 1 .. n :
        /\ q[i] \in CategoryFeeds /\ q[i] \in Feeds /\ q[i] # "none"
        /\ row(i) \in Source /\ row(i).id = first + i /\ row(i).seeded = q[i]
        /\ row(i).own = FALSE
    <2> SUFFICES ASSUME NEW i \in 1 .. n
                 PROVE  /\ q[i] \in CategoryFeeds /\ q[i] \in Feeds /\ q[i] # "none"
                        /\ row(i) \in Source /\ row(i).id = first + i /\ row(i).seeded = q[i]
                        /\ row(i).own = FALSE
        OBVIOUS
    <2>1. q[i] \in CategoryFeeds /\ q[i] \in Feeds /\ q[i] # "none"
        BY <1>1 DEF SourcesAssumption
    <2>2. q[i] \in Marks /\ first + i \in Nat
        BY <1>2, <2>1 DEF Marks
    <2> HIDE DEF first
    <2>3. /\ row(i) \in Source
          /\ row(i).id = first + i
          /\ row(i).seeded = q[i]
          /\ row(i).own = FALSE
        BY <2>1, <2>2, FeedIsSource
    <2> QED BY <2>1, <2>3
<1>4. \A i, j \in 1 .. n : q[i] = q[j] => i = j
    BY <1>1, OrderIsInjective
<1>5. IsFiniteSet(feeds) /\ Cardinality(feeds) = n
    <2>1. IsFiniteSet(1 .. n) /\ Cardinality(1 .. n) = n
        BY <1>2, FS_Interval
    <2>2. number \in Surjection(1 .. n, feeds)
        BY DEF Surjection
    <2> HIDE DEF row
    <2>3. \A i, j \in 1 .. n : row(i) = row(j) => i = j
        BY <1>3, <1>4
    <2>4. number \in Injection(1 .. n, feeds)
        BY <2>3 DEF Injection, IsInjective
    <2> HIDE DEF number, feeds
    <2> QED BY <2>1, <2>2, <2>4, FS_Surjection
<1>6. CASE site = "none"
    <2>1. rows = feeds /\ first = planted
        BY <1>1, <1>6
    <2>2. \A s \in feeds : \E i \in 1 .. n : s = row(i)
        OBVIOUS
    <2> HIDE DEF row, feeds, first
    <2> QED BY <1>2, <1>3, <1>4, <1>5, <2>1, <2>2
<1>7. CASE site # "none"
    <2> DEFINE page == OwnSource(planted + 1, site)
    <2>1. rows = feeds \cup {page} /\ first = planted + 1
        BY <1>1, <1>7
    <2>2. site \in Marks /\ site \in Feeds /\ planted + 1 \in Nat
        BY <1>7 DEF Marks
    <2>3. page \in Source /\ page.id = planted + 1 /\ page.seeded = site /\ page.own = TRUE
        BY <2>2, SiteIsSource
    <2>4. \A s \in feeds : \E i \in 1 .. n : s = row(i)
        OBVIOUS
    <2> HIDE DEF row, feeds, first, page
    <2>5. page \notin feeds
        BY <1>3, <2>3, <2>4
    <2>6. Cardinality(rows) = n + 1
        BY <1>5, <2>1, <2>5, FS_AddElement
    <2>7. \A s \in rows : s \in Source /\ s.id \in 1 .. planted + Cardinality(rows)
                          /\ s.seeded # "none"
        BY <1>2, <1>3, <1>7, <2>1, <2>3, <2>4, <2>6
    <2>8. \A s, t \in rows : s.seeded = t.seeded /\ s.own = t.own => s = t
        BY <1>3, <1>4, <2>1, <2>3, <2>4
    <2> QED BY <1>2, <2>6, <2>7, <2>8
<1> QED BY <1>6, <1>7

-----------------------------------------------------------------------------
(***************************************************************************)
(* The invariant.                                                          *)
(***************************************************************************)

LEMMA SourcesInitInvariant ==
    ASSUME SourcesAssumption, SourcesInit
    PROVE  SourcesInv
<1>1. MostSources \in Nat /\ MostEdits \in Nat
    BY DEF SourcesAssumption
<1>2. planted \in 0 .. MostSources /\ edits \in 0 .. MostEdits
    <2>1. planted = 0 /\ edits = 0
        BY DEF SourcesInit
    <2> QED BY <1>1, <2>1
<1>3. SourcesTypes
    <2>1. sources = {} /\ seeding = {} /\ oversown = FALSE
        BY DEF SourcesInit
    <2> QED BY <1>2, <2>1 DEF SourcesTypes
<1>4. Seeded
    BY DEF SourcesInit, Seeded
<1> QED BY <1>3, <1>4 DEF SourcesInv

LEMMA CheckStep ==
    ASSUME SourcesInv, NEW o \in Seeders, SeedCheck(o)
    PROVE  SourcesInv'
<1>1. SourcesTypes'
    BY DEF SourcesInv, SourcesTypes, SeedCheck
<1>2. Seeded'
    BY DEF SourcesInv, SourcesTypes, Seeded, SeedCheck, Present
<1> QED BY <1>1, <1>2 DEF SourcesInv

LEMMA InsertStep ==
    ASSUME SourcesAssumption, SourcesInv, NEW o \in Seeders, SeedInsert(o)
    PROVE  SourcesInv'
<1> USE DEF SourcesInv
<1>0. PICK clue \in Clues : \E rows \in SeedRows(Website(clue)) :
        /\ planted + Cardinality(rows) <= MostSources
        /\ planted' = planted + Cardinality(rows)
        /\ sources' = sources \cup rows
    BY DEF SeedInsert
<1>1. PICK rows \in SeedRows(Website(clue)) :
        /\ planted + Cardinality(rows) <= MostSources
        /\ planted' = planted + Cardinality(rows)
        /\ sources' = sources \cup rows
    BY <1>0
<1>2. Website(clue) = "none" \/ Website(clue) \in Feeds
    BY DEF SourcesAssumption
<1>3. /\ o \in seeding
      /\ seeding' = seeding \ {o}
      /\ UNCHANGED <<edits, oversown>>
    BY DEF SeedInsert
<1>4. MostSources \in Nat /\ planted \in Nat
    BY DEF SourcesAssumption, SourcesTypes
<1>5. /\ Cardinality(rows) \in Nat
      /\ rows \subseteq Source
      /\ \A s \in rows : s.id \in 1 .. planted + Cardinality(rows) /\ s.seeded # "none"
      /\ \A s, t \in rows : s.seeded = t.seeded /\ s.own = t.own => s = t
    BY <1>2, <1>4, RowsOfSeeding
<1>6. SourcesTypes'
    BY <1>1, <1>3, <1>4, <1>5 DEF SourcesTypes
<1>7. Seeded'
    <2> SUFFICES ASSUME ~oversown
                 PROVE  Seeded'
        BY <1>3 DEF Seeded
    <2>1. seeding' = {}
        BY <1>3 DEF Seeded
    <2>2. \A s \in sources : s.seeded = "none"
        BY <1>3 DEF Seeded
    <2> QED BY <1>1, <1>5, <2>1, <2>2 DEF Seeded
<1> QED BY <1>6, <1>7

LEMMA AddStep ==
    ASSUME SourcesAssumption, SourcesInv, NEW feed \in Feeds, Add(feed)
    PROVE  SourcesInv'
<1> USE DEF SourcesInv
<1>1. /\ planted < MostSources
      /\ planted' = planted + 1
      /\ sources' = sources \cup {NewSource(planted + 1, feed, "none")}
      /\ UNCHANGED <<seeding, oversown>>
      /\ edits < MostEdits
      /\ edits' = edits + 1
    BY DEF Add, Operate
<1>2. MostSources \in Nat /\ MostEdits \in Nat /\ planted \in Nat
    BY DEF SourcesAssumption, SourcesTypes
<1> DEFINE row == NewSource(planted + 1, feed, "none")
<1>3. row \in Source /\ row.id = planted + 1 /\ row.seeded = "none"
    <2>1. "none" \in Marks /\ planted + 1 \in Nat
        BY <1>2 DEF Marks
    <2> QED BY <2>1, FeedIsSource
<1> HIDE DEF row
<1>4. SourcesTypes'
    <2>1. planted' \in 0 .. MostSources /\ edits' \in 0 .. MostEdits
        BY <1>1, <1>2 DEF SourcesTypes
    <2>2. \A s \in sources' : s.id \in 1 .. planted'
        <3>1. sources' = sources \cup {row}
            BY <1>1 DEF row
        <3>2. planted + 1 \in 1 .. planted'
            BY <1>1, <1>2
        <3>3. \A s \in sources : s.id \in 1 .. planted'
            BY <1>1, <1>2 DEF SourcesTypes
        <3> QED BY <1>3, <3>1, <3>2, <3>3
    <2> QED BY <1>1, <1>3, <2>1, <2>2 DEF SourcesTypes, row
<1>5. Seeded'
    BY <1>1, <1>3 DEF Seeded, row
<1> QED BY <1>4, <1>5

LEMMA EditStep ==
    ASSUME SourcesAssumption, SourcesInv, NEW s \in sources, NEW active \in BOOLEAN, NEW feed \in Feeds,
           Edit(s, active, feed)
    PROVE  SourcesInv'
<1> USE DEF SourcesInv
<1> DEFINE row == [s EXCEPT !.active = active, !.feed = feed]
<1>1. /\ sources' = (sources \ {s}) \cup {row}
      /\ UNCHANGED <<planted, seeding, oversown>>
      /\ edits' = edits \/ (edits < MostEdits /\ edits' = edits + 1)
    BY DEF Edit, Operate
<1>2. MostEdits \in Nat
    BY DEF SourcesAssumption
<1>3. row \in Source /\ row.id = s.id /\ row.seeded = s.seeded /\ row.own = s.own
    BY DEF SourcesTypes, Source
<1> HIDE DEF row
<1>4. SourcesTypes'
    <2>1. edits' \in 0 .. MostEdits
        BY <1>1, <1>2 DEF SourcesTypes
    <2> QED BY <1>1, <1>3, <2>1 DEF SourcesTypes
<1>5. Seeded'
    BY <1>1, <1>3 DEF Seeded
<1> QED BY <1>4, <1>5

LEMMA DeleteStep ==
    ASSUME SourcesAssumption, SourcesInv, NEW s \in sources, Delete(s)
    PROVE  SourcesInv'
<1> USE DEF SourcesInv
<1>1. MostEdits \in Nat
    BY DEF SourcesAssumption
<1>2. SourcesTypes'
    BY <1>1 DEF Delete, Operate, SourcesTypes
<1>3. Seeded'
    BY DEF Delete, Seeded
<1> QED BY <1>2, <1>3

LEMMA SourcesNextInvariant ==
    ASSUME SourcesAssumption, SourcesInv, [SourcesNext]_seedVars
    PROVE  SourcesInv'
<1>1. ASSUME NEW o \in Seeders, SeedFails(o)
      PROVE  SourcesInv'
    BY <1>1 DEF SeedFails, SourcesInv, SourcesTypes, Seeded
<1>2. ASSUME NEW o \in Seeders, SeederStep(o)
      PROVE  SourcesInv'
    BY <1>1, <1>2, CheckStep, InsertStep DEF SeederStep
<1>3. CASE UNCHANGED seedVars
    BY <1>3 DEF SourcesInv, SourcesTypes, Seeded, seedVars
<1> QED BY <1>2, <1>3, AddStep, EditStep, DeleteStep DEF SourcesNext, ChangeSources

-----------------------------------------------------------------------------
(***************************************************************************)
(* The theorems.                                                           *)
(***************************************************************************)

\* Seedings, failures and the operator keep the invariant.
THEOREM SourcesInvariance ==
    ASSUME SourcesAssumption
    PROVE  SourcesSpec => []SourcesInv
<1>1. SourcesInit => SourcesInv
    BY SourcesInitInvariant
<1>2. SourcesInv /\ [SourcesNext]_seedVars => SourcesInv'
    BY SourcesNextInvariant
<1> QED BY <1>1, <1>2, PTL DEF SourcesSpec

\* Every reachable table of sources is well typed.
THEOREM SourcesTypeCorrect ==
    ASSUME SourcesAssumption
    PROVE  SourcesSpec => []SourcesTypeOK
<1>1. SourcesInv => SourcesTypeOK
    BY DEF SourcesInv, SourcesTypes, Source, SourcesTypeOK
<1> QED BY <1>1, SourcesInvariance, PTL

\* Unless two seedings overlap, the website and each default feed are there once,
\* however often the channel is seeded and whatever the operator does to its sources
\* (tools/content_sources.py:172-206).
THEOREM SeededOnce ==
    ASSUME SourcesAssumption
    PROVE  SourcesSpec => []FeedsAreSeededOnce
<1>1. SourcesInv => FeedsAreSeededOnce
    BY DEF SourcesInv, Seeded, FeedsAreSeededOnce
<1> QED BY <1>1, SourcesInvariance, PTL

-----------------------------------------------------------------------------
(***************************************************************************)
(* Proofs about Tenancy, for any organisations, users, channels and        *)
(* requests.                                                               *)
(*                                                                         *)
(* TenancyInv says what the database and the requests at work hold: a row  *)
(* of settings is what was last said of its organisation, a request that   *)
(* read a row will find it, and a channel is owned by who added it.        *)
(***************************************************************************)
SettingRow == [auto : BOOLEAN, target : Int]

\* What a request may ask for: one value of the flag, if any.
Asked == {fields \in [auto : SUBSET BOOLEAN, target : SUBSET Targets] : fields.auto # BOOLEAN}

Channel == [name : Usernames, org : orgs, auto : BOOLEAN, owner : Emails \cup {""}]
Account == [email : Emails, org : orgs, admin : BOOLEAN]
RequestRow ==
    [at : {"none", "look", "commit"}, org : Slugs \cup {""}, fields : Asked, row : SettingRow]

TenancyTypes ==
    /\ orgs \subseteq Slugs
    /\ accounts \subseteq Account
    /\ rules \in [Slugs -> SettingRow]
    /\ channels \subseteq Channel
    /\ request \in [Requesters -> RequestRow]
    /\ calls \in 0 .. MostCalls
    /\ said \in [Slugs -> SettingRow]
    /\ addedBy \in [Usernames -> Emails \cup {""}]

\* A row belongs to an organisation, has a target, and says what was said last.
Words ==
    /\ \A o \in Slugs \ orgs : rules[o] = NoRow
    /\ \A o \in Slugs : rules[o] # NoRow => rules[o].target # -1
    /\ \A o \in Slugs : said[o] = IF rules[o] = NoRow THEN Defaults ELSE rules[o]

\* A request is about an organisation, and rows do not vanish.
RequestsFind ==
    \A r \in Requesters :
        request[r].at # "none" =>
            /\ request[r].org \in orgs
            /\ request[r].row # NoRow => rules[request[r].org] # NoRow

\* A username has one row, which knows who added it.
Owners ==
    /\ \A c, d \in channels : c.name = d.name => c = d
    /\ \A c \in channels : c.owner = addedBy[c.name]

TenancyInv ==
    /\ TenancyTypes
    /\ Words
    /\ RequestsFind
    /\ Owners

-----------------------------------------------------------------------------
(***************************************************************************)
(* Lemmas about the operators.                                             *)
(***************************************************************************)

\* A caller is known by the email of an account, or by nothing.
LEMMA CallersAreKnown ==
    ASSUME TenancyTypes, NEW u \in Callers
    PROVE  /\ u.id \in Emails \cup {""}
           /\ u.admin \in BOOLEAN
<1>1. CASE u \in Users
    <2>1. PICK a \in accounts : u = [id |-> a.email, org |-> a.org, admin |-> a.admin]
        BY <1>1 DEF Users
    <2>2. a.email \in Emails /\ a.admin \in BOOLEAN
        BY DEF TenancyTypes, Account
    <2> QED BY <2>1, <2>2
<1>2. CASE u \in Members
    <2>1. PICK o \in orgs : u = [id |-> "", org |-> o, admin |-> FALSE]
        BY <1>2 DEF Members
    <2>2. u.id = "" /\ u.admin = FALSE
        BY <2>1
    <2> QED BY <2>2
<1>3. CASE u \in Defaulted
    <2>1. u = [id |-> "", org |-> "", admin |-> TRUE]
        BY <1>3 DEF Defaulted
    <2>2. u.id = "" /\ u.admin = TRUE
        BY <2>1
    <2> QED BY <2>2
<1> QED BY <1>1, <1>2, <1>3 DEF Callers

\* What may be asked for.
LEMMA AskedValues ==
    ASSUME TenancyAssumption, NEW fields \in Asked
    PROVE  /\ fields.auto = {} \/ fields.auto = {TRUE} \/ fields.auto = {FALSE}
           /\ fields.auto \subseteq BOOLEAN
           /\ fields.target \subseteq Int
           /\ -1 \notin fields.target
<1>1. /\ fields.auto \in SUBSET BOOLEAN
      /\ fields.target \in SUBSET Targets
      /\ fields.auto # BOOLEAN
    BY DEF Asked
<1>2. fields.auto = {} \/ fields.auto = {TRUE} \/ fields.auto = {FALSE}
    BY <1>1
<1>3. \A n \in fields.target : n \in Int /\ n # -1
    <2> SUFFICES ASSUME NEW n \in fields.target
                 PROVE  n \in Int /\ n # -1
        OBVIOUS
    <2>1. n \in 1 .. 200
        BY <1>1 DEF TenancyAssumption
    <2> QED BY <2>1
<1> QED BY <1>1, <1>2, <1>3

\* The rows a request writes.
LEMMA WithIsRow ==
    ASSUME NEW row \in SettingRow, NEW fields,
           fields.auto \subseteq BOOLEAN, fields.target \subseteq Int
    PROVE  With(row, fields) \in SettingRow
<1>1. Pick(fields.auto, row.auto) \in BOOLEAN
    BY DEF Pick, SettingRow
<1>2. Pick(fields.target, row.target) \in Int
    BY DEF Pick, SettingRow
<1> QED BY <1>1, <1>2 DEF With, SettingRow

\* Neither the defaults nor what is made of them is mistaken for a missing row.
LEMMA CreatedIsRow ==
    ASSUME TenancyAssumption, NEW fields \in Asked
    PROVE  /\ With(Defaults, fields) \in SettingRow
           /\ With(Defaults, fields).target # -1
<1>1. Defaults \in SettingRow
    BY DEF Defaults, SettingRow
<1>2. fields.auto \subseteq BOOLEAN /\ fields.target \subseteq Int /\ -1 \notin fields.target
    BY AskedValues
<1>3. Pick(fields.target, 0) # -1
    BY <1>2 DEF Pick
<1> QED BY <1>1, <1>2, <1>3, WithIsRow DEF With, Defaults

\* A row that is created says what was said: a field that is asked to be what it is by
\* default need not be said.
LEMMA CreatedIsSaid ==
    ASSUME TenancyAssumption, NEW fields \in Asked
    PROVE  With(Defaults, News(NoRow, fields)) = With(Defaults, fields)
<1>1. /\ News(NoRow, fields).auto = fields.auto \ {FALSE}
      /\ News(NoRow, fields).target = fields.target \ {-1}
    BY DEF News, NoRow
<1>2. fields.target \ {-1} = fields.target
    BY AskedValues
<1>3. Pick(fields.auto \ {FALSE}, FALSE) = Pick(fields.auto, FALSE)
    <2>1. fields.auto = {} \/ fields.auto = {TRUE} \/ fields.auto = {FALSE}
        BY AskedValues
    <2>2. CASE fields.auto = {}
        BY <2>2 DEF Pick
    <2>3. CASE fields.auto = {TRUE}
        <3>1. fields.auto \ {FALSE} = fields.auto
            BY <2>3
        <3> QED BY <3>1
    <2>4. CASE fields.auto = {FALSE}
        <3>1. fields.auto \ {FALSE} = {}
            BY <2>4
        <3> QED BY <2>4, <3>1 DEF Pick
    <2> QED BY <2>1, <2>2, <2>3, <2>4
<1> QED BY <1>1, <1>2, <1>3 DEF With, Defaults

\* The news of a request are values of its fields.
LEMMA NewsAreAsked ==
    ASSUME TenancyAssumption, NEW fields \in Asked, NEW row \in SettingRow
    PROVE  /\ News(row, fields).auto \subseteq BOOLEAN
           /\ News(row, fields).target \subseteq Int
           /\ -1 \notin News(row, fields).target
<1>1. /\ News(row, fields).auto = fields.auto \ {row.auto}
      /\ News(row, fields).target = fields.target \ {row.target}
    BY DEF News
<1> QED BY <1>1, AskedValues

\* A missing row and the row there is at first.
LEMMA FirstRows ==
    /\ NoRow \in SettingRow
    /\ Defaults \in SettingRow
    /\ Defaults.target # -1
    /\ NoRow # Defaults
BY DEF NoRow, Defaults, SettingRow

\* RequestsFind that change something are counted.
LEMMA CallsAreCounted ==
    ASSUME TenancyAssumption, TenancyTypes, Call
    PROVE  calls' \in 0 .. MostCalls
<1>1. MostCalls \in Nat
    BY DEF TenancyAssumption
<1>2. calls \in 0 .. MostCalls /\ calls < MostCalls /\ calls' = calls + 1
    BY DEF TenancyTypes, Call
<1> QED BY <1>1, <1>2

-----------------------------------------------------------------------------
(***************************************************************************)
(* The invariant.                                                          *)
(***************************************************************************)

LEMMA TenancyInitInvariant ==
    ASSUME TenancyAssumption, TenancyInit
    PROVE  TenancyInv
<1>1. NoRow \in SettingRow /\ Defaults \in SettingRow /\ NoRow # Defaults
    BY FirstRows
<1>2. NoRequest \in RequestRow
    <2>1. Same \in Asked
        BY DEF Same, Asked
    <2> QED BY <1>1, <2>1 DEF NoRequest, RequestRow
<1>3. orgs \subseteq Slugs
    BY DEF TenancyInit, TenancyAssumption
<1>4. accounts \subseteq Account
    <2>1. PICK e \in Emails : accounts = {[email |-> e, org |-> o, admin |-> TRUE] : o \in orgs}
        BY DEF TenancyInit
    <2>2. \A o \in orgs : [email |-> e, org |-> o, admin |-> TRUE] \in Account
        BY DEF Account
    <2> QED BY <2>1, <2>2
<1>5. TenancyTypes
    <2>0. MostCalls \in Nat
        BY DEF TenancyAssumption
    <2>1. 0 \in 0 .. MostCalls
        BY <2>0
    <2>2. channels \subseteq Channel /\ calls \in 0 .. MostCalls
        BY <2>1 DEF TenancyInit
    <2>3. rules \in [Slugs -> SettingRow] /\ said \in [Slugs -> SettingRow]
        BY <1>1 DEF TenancyInit
    <2>4. request \in [Requesters -> RequestRow] /\ addedBy \in [Usernames -> Emails \cup {""}]
        BY <1>2 DEF TenancyInit
    <2> QED BY <1>3, <1>4, <2>2, <2>3, <2>4 DEF TenancyTypes
<1>6. Words /\ RequestsFind /\ Owners
    BY <1>1 DEF TenancyInit, Words, RequestsFind, Owners, NoRequest
<1> QED BY <1>5, <1>6 DEF TenancyInv

\* What the directory's operations leave alone.
LEMMA OrganizationStep ==
    ASSUME TenancyAssumption, TenancyInv, NEW u \in Callers, NEW slug \in Slugs,
           CreateOrganization(u, slug)
    PROVE  TenancyInv'
<1> USE DEF TenancyInv
<1>1. /\ orgs' = orgs \cup {slug}
      /\ rules' = [rules EXCEPT ![slug] = Defaults]
      /\ slug \notin orgs
      /\ UNCHANGED <<accounts, channels, request, said, addedBy>>
      /\ calls' \in 0 .. MostCalls
    BY CallsAreCounted DEF CreateOrganization
<1>2. Defaults \in SettingRow /\ Defaults # NoRow /\ Defaults.target # -1
    BY FirstRows
<1>3. TenancyTypes'
    <2>1. accounts' \subseteq Account'
        BY <1>1 DEF TenancyTypes, Account
    <2>2. channels' \subseteq Channel'
        BY <1>1 DEF TenancyTypes, Channel
    <2> QED BY <1>1, <1>2, <2>1, <2>2 DEF TenancyTypes
<1>4. said[slug] = Defaults
    BY <1>1 DEF Words
<1>5. Words'
    BY <1>1, <1>2, <1>4 DEF Words, TenancyTypes
<1>6. RequestsFind'
    BY <1>1, <1>2 DEF RequestsFind, TenancyTypes
<1>7. Owners'
    BY <1>1 DEF Owners
<1> QED BY <1>3, <1>5, <1>6, <1>7

LEMMA UserStep ==
    ASSUME TenancyAssumption, TenancyInv, NEW u \in Callers, NEW org \in orgs, NEW email \in Emails,
           NEW admin \in BOOLEAN, CreateUser(u, org, email, admin)
    PROVE  TenancyInv'
<1> USE DEF TenancyInv
<1>1. /\ accounts' = accounts \cup
            {[email |-> email, org |-> org, admin |-> admin /\ org = Platform]}
      /\ UNCHANGED <<orgs, rules, channels, request, said, addedBy>>
      /\ calls' \in 0 .. MostCalls
    BY CallsAreCounted DEF CreateUser
<1>2. TenancyTypes'
    <2>1. (admin /\ org = Platform) \in BOOLEAN
        OBVIOUS
    <2>2. [email |-> email, org |-> org, admin |-> admin /\ org = Platform] \in Account
        BY <2>1 DEF Account
    <2>3. accounts' \subseteq Account'
        BY <1>1, <2>2 DEF TenancyTypes, Account
    <2>4. channels' \subseteq Channel'
        BY <1>1 DEF TenancyTypes, Channel
    <2> QED BY <1>1, <2>3, <2>4 DEF TenancyTypes
<1>3. Words' /\ RequestsFind' /\ Owners'
    BY <1>1 DEF Words, RequestsFind, Owners
<1> QED BY <1>2, <1>3

LEMMA OnboardStep ==
    ASSUME TenancyAssumption, TenancyInv, NEW u \in Callers, NEW name \in Usernames,
           NEW asked \in orgs \cup {""}, Onboard(u, name, asked)
    PROVE  TenancyInv'
<1> USE DEF TenancyInv
<1> DEFINE owner == IF u.admin THEN "" ELSE u.id
           row == [name |-> name, org |-> ChannelOrg(u, asked), auto |-> FALSE, owner |-> owner]
<1>1. /\ \A c \in channels : c.name # name
      /\ ChannelOrg(u, asked) \in orgs
      /\ channels' = channels \cup {row}
      /\ addedBy' = [addedBy EXCEPT ![name] = owner]
      /\ UNCHANGED <<orgs, accounts, rules, request, said>>
      /\ calls' \in 0 .. MostCalls
    BY CallsAreCounted DEF Onboard
<1>2. owner \in Emails \cup {""}
    BY CallersAreKnown
<1>3. TenancyTypes'
    <2>1. row \in Channel
        BY <1>1, <1>2 DEF Channel
    <2>2. accounts' \subseteq Account'
        BY <1>1 DEF TenancyTypes, Account
    <2>3. channels' \subseteq Channel'
        BY <1>1, <2>1 DEF TenancyTypes, Channel
    <2> QED BY <1>1, <1>2, <2>2, <2>3 DEF TenancyTypes
<1>4. Words' /\ RequestsFind'
    BY <1>1 DEF Words, RequestsFind
<1>5. Owners'
    <2>1. row.name = name /\ row.owner = owner
        OBVIOUS
    <2>2. \A c \in channels : c.name \in Usernames
        BY DEF TenancyTypes, Channel
    <2>3. addedBy'[name] = owner /\ \A c \in channels : addedBy'[c.name] = addedBy[c.name]
        BY <1>1, <2>2 DEF TenancyTypes
    <2> QED BY <1>1, <2>1, <2>3 DEF Owners
<1> QED BY <1>3, <1>4, <1>5

\* A channel keeps its name and its owner, whatever else changes.
LEMMA ChangeStep ==
    ASSUME TenancyAssumption, TenancyInv, NEW c \in channels, NEW d \in Channel,
           d.name = c.name, d.owner = c.owner, Call, ChangeChannel(c, d)
    PROVE  TenancyInv'
<1> USE DEF TenancyInv
<1>1. /\ channels' = (channels \ {c}) \cup {d}
      /\ UNCHANGED <<orgs, accounts, rules, request, said, addedBy>>
      /\ calls' \in 0 .. MostCalls
    BY CallsAreCounted DEF ChangeChannel
<1>2. TenancyTypes'
    <2>1. accounts' \subseteq Account'
        BY <1>1 DEF TenancyTypes, Account
    <2>2. channels' \subseteq Channel'
        BY <1>1 DEF TenancyTypes, Channel
    <2> QED BY <1>1, <2>1, <2>2 DEF TenancyTypes
<1>3. Words' /\ RequestsFind'
    BY <1>1 DEF Words, RequestsFind
<1>4. Owners'
    BY <1>1 DEF Owners
<1> QED BY <1>2, <1>3, <1>4

LEMMA ChannelStep ==
    ASSUME TenancyAssumption, TenancyInv, NEW u \in Callers, NEW c \in channels, ChannelCall(u, c)
    PROVE  TenancyInv'
<1>1. c \in Channel
    BY DEF TenancyInv, TenancyTypes
<1>2. ASSUME NEW org \in orgs, Move(u, c, org)
      PROVE  TenancyInv'
    <2>1. [c EXCEPT !.org = org] \in Channel
        BY <1>1 DEF Channel
    <2>2. [c EXCEPT !.org = org].name = c.name /\ [c EXCEPT !.org = org].owner = c.owner
        BY <1>1 DEF Channel
    <2> QED BY <1>2, <2>1, <2>2, ChangeStep DEF Move
<1>3. ASSUME NEW auto \in BOOLEAN, SetFlag(u, c, auto)
      PROVE  TenancyInv'
    <2>1. [c EXCEPT !.auto = auto] \in Channel
        BY <1>1 DEF Channel
    <2>2. [c EXCEPT !.auto = auto].name = c.name /\ [c EXCEPT !.auto = auto].owner = c.owner
        BY <1>1 DEF Channel
    <2> QED BY <1>3, <2>1, <2>2, ChangeStep DEF SetFlag
<1>4. ASSUME DeleteChannel(u, c)
      PROVE  TenancyInv'
    <2> USE DEF TenancyInv
    <2>1. /\ channels' = channels \ {c}
          /\ addedBy' = [addedBy EXCEPT ![c.name] = ""]
          /\ UNCHANGED <<orgs, accounts, rules, request, said>>
          /\ calls' \in 0 .. MostCalls
        BY <1>4, CallsAreCounted DEF DeleteChannel
    <2>2. TenancyTypes'
        <3>1. accounts' \subseteq Account'
            BY <2>1 DEF TenancyTypes, Account
        <3>2. channels' \subseteq Channel'
            BY <2>1 DEF TenancyTypes, Channel
        <3>3. c.name \in Usernames
            BY <1>1 DEF Channel
        <3> QED BY <2>1, <3>1, <3>2, <3>3 DEF TenancyTypes
    <2>3. Words' /\ RequestsFind'
        BY <2>1 DEF Words, RequestsFind
    <2>4. Owners'
        <3>1. \A d \in channels' : d.name # c.name /\ d.name \in Usernames
            BY <2>1 DEF Owners, TenancyTypes, Channel
        <3>2. \A d \in channels' : addedBy'[d.name] = addedBy[d.name]
            BY <2>1, <3>1 DEF TenancyTypes
        <3> QED BY <2>1, <3>2 DEF Owners
    <2> QED BY <2>2, <2>3, <2>4
<1> QED BY <1>2, <1>3, <1>4 DEF ChannelCall

\* Only the request, and perhaps the count of calls, changes.
LEMMA RequestStep ==
    ASSUME TenancyAssumption, TenancyInv, NEW r \in Requesters, NEW q \in RequestRow,
           q.org \in orgs, q.row # NoRow => rules[q.org] # NoRow,
           request' = [request EXCEPT ![r] = q], calls' \in 0 .. MostCalls,
           UNCHANGED <<orgs, accounts, rules, channels, said, addedBy>>
    PROVE  TenancyInv'
<1> USE DEF TenancyInv
<1>1. TenancyTypes'
    <2>1. accounts' \subseteq Account' /\ channels' \subseteq Channel'
        BY DEF TenancyTypes, Account, Channel
    <2>2. request' \in [Requesters -> RequestRow]
        BY DEF TenancyTypes
    <2> QED BY <2>1, <2>2 DEF TenancyTypes
<1>2. RequestsFind'
    BY DEF RequestsFind, TenancyTypes
<1>3. Words' /\ Owners'
    BY DEF Words, Owners
<1> QED BY <1>1, <1>2, <1>3

LEMMA FieldsAreAsked ==
    ASSUME NEW fields \in Fields
    PROVE  fields \in Asked
<1>1. Same \in Asked
    BY DEF Same, Asked
<1>2. ASSUME NEW v \in BOOLEAN, fields = [Same EXCEPT !.auto = {v}]
      PROVE  fields \in Asked
    <2>1. fields = [auto |-> {v}, target |-> {}]
        BY <1>2 DEF Same
    <2>2. {v} # BOOLEAN
        OBVIOUS
    <2> QED BY <2>1, <2>2 DEF Asked
<1>3. ASSUME NEW n \in Targets, fields = [Same EXCEPT !.target = {n}]
      PROVE  fields \in Asked
    <2>1. fields = [auto |-> {}, target |-> {n}]
        BY <1>3 DEF Same
    <2> QED BY <2>1 DEF Asked
<1> QED BY <1>1, <1>2, <1>3 DEF Fields

LEMMA AskStep ==
    ASSUME TenancyAssumption, TenancyInv, NEW u \in Callers, NEW r \in Requesters,
           NEW asked \in orgs \cup {""}, NEW fields \in Fields, Ask(r, u, asked, fields)
    PROVE  TenancyInv'
<1> DEFINE org == SettingsOrg(u, asked)
           q == [at |-> "look", org |-> org, fields |-> fields, row |-> NoRow]
<1>1. /\ org \in orgs
      /\ request' = request \/ request' = [request EXCEPT ![r] = q]
      /\ UNCHANGED <<orgs, accounts, rules, channels, said, addedBy>>
      /\ UNCHANGED calls \/ Call
    BY DEF Ask
<1>2. calls' \in 0 .. MostCalls
    BY <1>1, CallsAreCounted DEF TenancyInv, TenancyTypes
<1>3. q \in RequestRow
    <2>1. NoRow \in SettingRow
        BY FirstRows
    <2>2. org \in Slugs
        BY <1>1 DEF TenancyInv, TenancyTypes
    <2> QED BY <2>1, <2>2, FieldsAreAsked DEF RequestRow
<1>4. CASE request' = [request EXCEPT ![r] = q]
    <2>1. q.org \in orgs /\ q.row = NoRow
        BY <1>1
    <2> HIDE DEF q
    <2> QED BY <1>1, <1>2, <1>3, <1>4, <2>1, RequestStep
<1>5. CASE request' = request
    <2>1. TenancyTypes'
        <3>1. accounts' \subseteq Account' /\ channels' \subseteq Channel'
            BY <1>1 DEF TenancyInv, TenancyTypes, Account, Channel
        <3> QED BY <1>1, <1>2, <1>5, <3>1 DEF TenancyInv, TenancyTypes
    <2>2. Words' /\ RequestsFind' /\ Owners'
        BY <1>1, <1>5 DEF TenancyInv, Words, RequestsFind, Owners
    <2> QED BY <2>1, <2>2 DEF TenancyInv
<1> QED BY <1>1, <1>4, <1>5

LEMMA LookStep ==
    ASSUME TenancyAssumption, TenancyInv, NEW r \in Requesters, Look(r)
    PROVE  TenancyInv'
<1> DEFINE q == [request[r] EXCEPT !.at = "commit", !.row = rules[request[r].org]]
<1>1. /\ request[r] \in RequestRow
      /\ request[r].at = "look"
      /\ request[r].org \in orgs
    BY DEF Look, TenancyInv, TenancyTypes, RequestsFind
<1>2. rules[request[r].org] \in SettingRow
    BY <1>1 DEF TenancyInv, TenancyTypes
<1>3. q \in RequestRow /\ q.org = request[r].org /\ q.row = rules[request[r].org]
    BY <1>1, <1>2 DEF RequestRow
<1>4. request' = [request EXCEPT ![r] = q]
    BY DEF Look, TenancyInv, TenancyTypes
<1>5. calls' \in 0 .. MostCalls /\ UNCHANGED <<orgs, accounts, rules, channels, said, addedBy>>
    BY DEF Look, TenancyInv, TenancyTypes
<1> HIDE DEF q
<1> QED BY <1>1, <1>3, <1>4, <1>5, RequestStep

\* The one row a commit writes, and what it says.
LEMMA CommitWrites ==
    ASSUME TenancyAssumption, TenancyInv, NEW r \in Requesters, Commit(r)
    PROVE  LET org == request[r].org
           IN /\ org \in orgs
              /\ \/ UNCHANGED <<rules, said>>
                 \/ \E row \in SettingRow :
                        /\ row.target # -1
                        /\ rules' = [rules EXCEPT ![org] = row]
                        /\ said' = [said EXCEPT ![org] = row]
<1> DEFINE q == request[r]
           org == q.org
           news == News(q.row, q.fields)
<1>1. q \in RequestRow /\ q.at = "commit" /\ org \in orgs /\ org \in Slugs
      /\ (q.row # NoRow => rules[org] # NoRow)
    BY DEF Commit, TenancyInv, TenancyTypes, RequestsFind
<1>2. q.fields \in Asked /\ q.row \in SettingRow
    BY <1>1 DEF RequestRow
<1>3. CASE q.row = NoRow /\ rules[org] # NoRow
    BY <1>1, <1>3 DEF Commit
<1>4. CASE q.row = NoRow /\ rules[org] = NoRow
    <2>1. /\ rules' = [rules EXCEPT ![org] = With(Defaults, q.fields)]
          /\ said' = [said EXCEPT ![org] = With(said[org], news)]
        BY <1>1, <1>4 DEF Commit, TenancyInv, TenancyTypes
    <2>2. said[org] = Defaults
        BY <1>1, <1>4 DEF TenancyInv, Words
    <2>3. With(said[org], news) = With(Defaults, q.fields)
        BY <1>2, <1>4, <2>2, CreatedIsSaid
    <2>4. With(Defaults, q.fields) \in SettingRow /\ With(Defaults, q.fields).target # -1
        BY <1>2, CreatedIsRow
    <2> QED BY <1>1, <2>1, <2>3, <2>4
<1>5. CASE q.row # NoRow
    <2>1. /\ rules' = [rules EXCEPT ![org] = With(rules[org], news)]
          /\ said' = [said EXCEPT ![org] = With(said[org], news)]
        BY <1>1, <1>5 DEF Commit, WrittenSettings, TenancyInv, TenancyTypes
    <2>2. said[org] = rules[org] /\ rules[org].target # -1 /\ rules[org] \in SettingRow
        BY <1>1, <1>5 DEF TenancyInv, Words, TenancyTypes
    <2>3. With(rules[org], news) \in SettingRow
        BY <1>2, <2>2, NewsAreAsked, WithIsRow
    <2>4. With(rules[org], news).target # -1
        BY <1>2, <2>2, NewsAreAsked DEF With, Pick
    <2> QED BY <1>1, <2>1, <2>2, <2>3, <2>4
<1> QED BY <1>3, <1>4, <1>5

LEMMA CommitStep ==
    ASSUME TenancyAssumption, TenancyInv, NEW r \in Requesters, Commit(r)
    PROVE  TenancyInv'
<1> USE DEF TenancyInv
<1> DEFINE org == request[r].org
<1>1. /\ request' = [request EXCEPT ![r] = NoRequest]
      /\ UNCHANGED <<orgs, accounts, channels, calls, addedBy>>
    BY DEF Commit
<1>2. NoRequest \in RequestRow /\ NoRequest.at = "none"
    <2>1. Same \in Asked
        BY DEF Same, Asked
    <2>2. NoRow \in SettingRow
        BY FirstRows
    <2> QED BY <2>1, <2>2 DEF NoRequest, RequestRow
<1>3. org \in orgs /\ org \in Slugs
    BY CommitWrites DEF TenancyTypes
<1>4. \A row \in SettingRow : row.target # -1 => row # NoRow
    BY DEF NoRow
<1>5. ASSUME UNCHANGED <<rules, said>>
      PROVE  TenancyInv'
    <2>1. TenancyTypes'
        <3>1. accounts' \subseteq Account' /\ channels' \subseteq Channel'
            BY <1>1 DEF TenancyTypes, Account, Channel
        <3> QED BY <1>1, <1>2, <1>5, <3>1 DEF TenancyTypes
    <2>2. Words' /\ Owners'
        BY <1>1, <1>5 DEF Words, Owners
    <2>3. RequestsFind'
        BY <1>1, <1>2, <1>5 DEF RequestsFind, TenancyTypes
    <2> QED BY <2>1, <2>2, <2>3
<1>6. ASSUME NEW row \in SettingRow, row.target # -1,
             rules' = [rules EXCEPT ![org] = row], said' = [said EXCEPT ![org] = row]
      PROVE  TenancyInv'
    <2>1. TenancyTypes'
        <3>1. accounts' \subseteq Account' /\ channels' \subseteq Channel'
            BY <1>1 DEF TenancyTypes, Account, Channel
        <3>2. rules' \in [Slugs -> SettingRow] /\ said' \in [Slugs -> SettingRow]
            BY <1>6 DEF TenancyTypes
        <3>3. request' \in [Requesters -> RequestRow]
            BY <1>1, <1>2 DEF TenancyTypes
        <3> QED BY <1>1, <3>1, <3>2, <3>3 DEF TenancyTypes
    <2>2. rules'[org] = row /\ said'[org] = row /\ row # NoRow
        BY <1>3, <1>4, <1>6 DEF TenancyTypes
    <2>3. \A o \in Slugs \ {org} : rules'[o] = rules[o] /\ said'[o] = said[o]
        BY <1>6 DEF TenancyTypes
    <2>4. Words'
        BY <1>1, <1>3, <1>6, <2>2, <2>3 DEF Words
    <2>5. Owners'
        BY <1>1 DEF Owners
    <2>6. RequestsFind'
        BY <1>1, <1>2, <2>2, <2>3 DEF RequestsFind, TenancyTypes
    <2> QED BY <2>1, <2>4, <2>5, <2>6
<1> QED BY <1>5, <1>6, CommitWrites

LEMMA TenancyNextInvariant ==
    ASSUME TenancyAssumption, TenancyInv, [TenancyNext]_tenancyVars
    PROVE  TenancyInv'
<1>1. ASSUME NEW u \in Callers, Directory(u)
      PROVE  TenancyInv'
    BY <1>1, OrganizationStep, UserStep, OnboardStep DEF Directory
<1>2. ASSUME NEW r \in Requesters, Settle(r)
      PROVE  TenancyInv'
    BY <1>2, LookStep, CommitStep DEF Settle
<1>3. CASE UNCHANGED tenancyVars
    <2>1. TenancyTypes'
        BY <1>3 DEF TenancyInv, TenancyTypes, Account, Channel, tenancyVars
    <2>2. Words' /\ RequestsFind' /\ Owners'
        BY <1>3 DEF TenancyInv, Words, RequestsFind, Owners, tenancyVars
    <2> QED BY <2>1, <2>2 DEF TenancyInv
<1> QED BY <1>1, <1>2, <1>3, ChannelStep, AskStep DEF TenancyNext

-----------------------------------------------------------------------------
(***************************************************************************)
(* The theorems.                                                           *)
(***************************************************************************)

\* Whatever is asked for and however requests overlap, the settings rows hold what was
\* said last, and the rows of channels know who added them (api/authz.py:71-81,
\* tools/organizations.py:68-84).
THEOREM TenancyInvariance ==
    ASSUME TenancyAssumption
    PROVE  TenancySpec => []TenancyInv
<1>1. TenancyInit => TenancyInv
    BY TenancyInitInvariant
<1>2. TenancyInv /\ [TenancyNext]_tenancyVars => TenancyInv'
    BY TenancyNextInvariant
<1> QED BY <1>1, <1>2, PTL DEF TenancySpec

\* Every reachable state of organisations, users, settings and channels is well typed.
THEOREM TenancyTypeCorrect ==
    ASSUME TenancyAssumption
    PROVE  TenancySpec => []TenancyTypeOK
<1>1. TenancyInv => TenancyTypeOK
    <2> SUFFICES ASSUME TenancyInv
                 PROVE  TenancyTypeOK
        OBVIOUS
    <2>1. \A a \in accounts : a.email \in Emails /\ a.org \in orgs
        BY DEF TenancyInv, TenancyTypes, Account
    <2>2. \A c \in channels : c.name \in Usernames /\ c.org \in orgs
        BY DEF TenancyInv, TenancyTypes, Channel
    <2>3. \A r \in Requesters : request[r].at \in {"none", "look", "commit"}
        BY DEF TenancyInv, TenancyTypes, RequestRow
    <2> QED BY <2>1, <2>2, <2>3 DEF TenancyInv, TenancyTypes, Words, TenancyTypeOK
<1> QED BY <1>1, TenancyInvariance, PTL

\* A channel is reached by administrators and by who added it, and listed to just those,
\* whoever onboards its username again and wherever it is moved (api/authz.py:71-81,
\* api/routers/channels.py:49-75, 113-130).
THEOREM Ownership ==
    ASSUME TenancyAssumption
    PROVE  TenancySpec => []ReachIsOwnership
<1>1. TenancyInv => ReachIsOwnership
    BY DEF TenancyInv, Owners, ReachIsOwnership, Listed, Reaches
<1> QED BY <1>1, TenancyInvariance, PTL

\* The last word on each field of an organisation's settings is the one in force
\* (tools/organizations.py:68-84, tools/content.py:1132-1143).
THEOREM LastWord ==
    ASSUME TenancyAssumption
    PROVE  TenancySpec => []LastWordHolds
<1>1. TenancyInv => LastWordHolds
    <2> SUFFICES ASSUME TenancyInv
                 PROVE  LastWordHolds
        OBVIOUS
    <2>1. \A c \in channels : c.org \in Slugs
        BY DEF TenancyInv, TenancyTypes, Channel
    <2> QED BY <2>1 DEF TenancyInv, TenancyTypes, Words, LastWordHolds, AutoApproves
<1> QED BY <1>1, TenancyInvariance, PTL
-----------------------------------------------------------------------------
(***************************************************************************)
(* All parts together: a behaviour of WorkspaceParts is one of each part.  *)
(***************************************************************************)

\* Whichever part is at work, what happens is a behaviour of every part, most of which stand
\* still; so what is proved of each holds here.
THEOREM PartsAreWorkspace ==
    Workspace => /\ GrowthSpec /\ CompetitorsSpec /\ PlanningSpec
                 /\ DealsSpec /\ SourcesSpec /\ TenancySpec
<1>1. Start => /\ GrowthInit /\ CompetitorsInit /\ PlanningInit
               /\ DealsInit /\ SourcesInit /\ TenancyInit
    BY DEF Start
<1>2. [Step]_all => /\ [GrowthNext]_growthVars
                    /\ [CompetitorsNext]_competitorVars
                    /\ [PlanningNext]_planningVars
                    /\ [DealsNext]_dealVars
                    /\ [SourcesNext]_seedVars
                    /\ [TenancyNext]_tenancyVars
    <2>1. ASSUME NEW part, Still(part)
          PROVE  /\ part # "growth" => UNCHANGED growthVars
                 /\ part # "competitors" => UNCHANGED competitorVars
                 /\ part # "planning" => UNCHANGED planningVars
                 /\ part # "picking" => UNCHANGED dealVars
                 /\ part # "seeds" => UNCHANGED seedVars
                 /\ part # "tenancy" => UNCHANGED tenancyVars
        BY <2>1 DEF Still
    <2>2. CASE Step
        <3>1. CASE GrowthNext /\ Still("growth")
            BY <2>1, <3>1
        <3>2. CASE CompetitorsNext /\ Still("competitors")
            BY <2>1, <3>2
        <3>3. CASE PlanningNext /\ Still("planning")
            BY <2>1, <3>3
        <3>4. CASE DealsNext /\ Still("picking")
            BY <2>1, <3>4
        <3>5. CASE SourcesNext /\ Still("seeds")
            BY <2>1, <3>5
        <3>6. CASE TenancyNext /\ Still("tenancy")
            BY <2>1, <3>6
        <3> QED BY <2>2, <3>1, <3>2, <3>3, <3>4, <3>5, <3>6 DEF Step
    <2>3. CASE UNCHANGED all
        BY <2>3 DEF all
    <2> QED BY <2>2, <2>3
<1> QED BY <1>1, <1>2, PTL DEF Workspace, GrowthSpec, CompetitorsSpec, PlanningSpec, DealsSpec,
                               SourcesSpec, TenancySpec

\* Snapshots, rivals, plans, deals, sources, users and settings are of their types and within
\* the bounds, whichever part is at work.
THEOREM WorkspaceTypesCorrect ==
    ASSUME GrowthAssumption, CompetitorsAssumption, PlanningAssumption, DealsAssumption,
           SourcesAssumption, TenancyAssumption
    PROVE  Workspace => []TypesOK
<1>1. /\ GrowthTypeOK /\ CompetitorsTypeOK /\ PlanningTypeOK
      /\ DealsTypeOK /\ SourcesTypeOK /\ TenancyTypeOK
      => TypesOK
    BY DEF TypesOK
<1>2. CompetitorsSpec => []CompetitorsTypeOK
    BY CompetitorsTypeCorrect
<1> QED BY <1>1, <1>2, PartsAreWorkspace, GrowthTypeCorrect, PlanningTypeCorrect,
           DealsTypeCorrect, SourcesTypeCorrect, TenancyTypeCorrect, PTL
===============================================================================
