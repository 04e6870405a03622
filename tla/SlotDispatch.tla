----------------------------- MODULE SlotDispatch -----------------------------
(***************************************************************************)
(* The slots of one channel: planners (the Strategy Agent, run by the      *)
(* daily, weekly and deals jobs, by onboarding and by hand) archive the    *)
(* old strategy and save a new one with its slots; dispatchers (one per    *)
(* scheduler process) and onboarding runs read lists of pending slots and  *)
(* have a post queued for each, after which they mark the slot generated.  *)
(*                                                                         *)
(* A step is what runs between two awaits that reach the database.  A list *)
(* of slots is read once and worked through as it was read.                *)
(***************************************************************************)
EXTENDS Naturals, FiniteSets

CONSTANTS
    Tasks,         \* strategy_tasks rows that plans may insert
    Deals,         \* those of kind "loot" or "single"
    Types,         \* strategies.strategy_type
    Dispatchers,   \* scheduler processes, each running dispatch_due_content
    Onboarders,    \* onboarding runs (generate_content_for_strategy)
    Planners,      \* concurrent runs of the Strategy Agent
    Window,        \* [Tasks -> [day, open, close]]: first instant of the slot's
                   \* day, its scrape moment and its publish time
    Priority,      \* [Tasks -> Nat]: strategy_tasks.priority
    SeedLimit,     \* slots an onboarding run takes (limit=2)
    NoTask,        \* "no slot in hand"
    MaxTime,       \* bound: last instant of the clock
    MaxPlans,      \* bound: strategies saved
    MaxFaults      \* bound: crashes, exceptions and failed commits

Workers == Dispatchers \cup Onboarders

Plans == 1 .. MaxPlans

ASSUME SlotDispatchAssumption ==
    /\ Dispatchers \cap Onboarders = {}
    /\ Deals \subseteq Tasks
    /\ NoTask \notin Tasks
    /\ "daily" \in Types
    /\ Window \in [Tasks -> [day : Nat, open : Nat, close : Nat]]
    /\ Priority \in [Tasks -> Nat]
    /\ SeedLimit \in Nat
    /\ MaxTime \in Nat
    /\ MaxPlans \in Nat
    /\ MaxFaults \in Nat

VARIABLES
    now,          \* the clock
    strategy,     \* strategies.status by id, in order of created_at
    kind,         \* strategies.strategy_type
    status,       \* strategy_tasks.status; "absent" before the row exists
    owner,        \* strategy_tasks.strategy_id
    plan,         \* where each run of the Strategy Agent is, and its open transaction
    created,      \* strategies created so far
    pc,           \* where each worker is in its list
    batch,        \* the list as it was read
    todo,         \* the slots of it still to come
    cur,          \* the slot whose post has been queued and is to be marked
    retries,      \* an exception makes the worker dispatch its list once more
    faults,       \* faults so far
    (* history *)
    firedBy,      \* posts queued for a slot, by the worker that had them queued
    unmarked,     \* those of them after which the slot was not marked
    restarted,    \* times a worker began its list again
    overlapped    \* two runs of the Strategy Agent have overlapped

planVars    == <<strategy, kind, owner, plan, created>>
workerVars  == <<pc, batch, todo, cur, retries>>
historyVars == <<firedBy, unmarked, restarted, overlapped>>
vars == <<now, planVars, status, workerVars, faults, historyVars>>

Counters == [Workers -> [Tasks -> Nat]]

\* Variant: ids that skip one.
RunSkipping(step, type, id, new, old) ==
    [pc |-> step, type |-> type, id |-> id + 1, new |-> new, old |-> old]

Run(step, type, id, new, old) ==
    [pc |-> step, type |-> type, id |-> id, new |-> new, old |-> old]

NoRun == Run("idle", "daily", 0, {}, {})

TypeOK ==
    /\ now \in Nat
    /\ strategy \in [Plans -> {"none", "active", "completed"}]
    /\ kind \in [Plans -> Types]
    /\ status \in [Tasks -> {"absent", "pending", "generated", "deleted"}]
    /\ owner \in [Tasks -> 0 .. MaxPlans]
    /\ plan \in [Planners -> [pc : {"idle", "archived", "saving"}, type : Types,
                              id : 0 .. MaxPlans, new : SUBSET Tasks, old : SUBSET Tasks]]
    /\ created \in 0 .. MaxPlans
    /\ pc \in [Workers -> {"idle", "fire", "mark"}]
    /\ batch \in [Workers -> SUBSET Tasks]
    /\ todo \in [Workers -> SUBSET Tasks]
    /\ cur \in [Workers -> Tasks \cup {NoTask}]
    /\ retries \in [Workers -> BOOLEAN]
    /\ faults \in Nat
    /\ firedBy \in Counters
    /\ unmarked \in Counters
    /\ restarted \in Counters
    /\ overlapped \in BOOLEAN

None == [w \in Workers |-> [t \in Tasks |-> 0]]

Init ==
    /\ now = 0
    /\ strategy = [i \in Plans |-> "none"]
    /\ kind = [i \in Plans |-> "daily"]
    /\ status = [t \in Tasks |-> "absent"]
    /\ owner = [t \in Tasks |-> 0]
    /\ plan = [a \in Planners |-> NoRun]
    /\ created = 0
    /\ pc = [w \in Workers |-> "idle"]
    /\ batch = [w \in Workers |-> {}]
    /\ todo = [w \in Workers |-> {}]
    /\ cur = [w \in Workers |-> NoTask]
    /\ retries = [w \in Workers |-> FALSE]
    /\ faults = 0
    /\ firedBy = None
    /\ unmarked = None
    /\ restarted = None
    /\ overlapped = FALSE

Fault ==
    /\ faults < MaxFaults
    /\ faults' = faults + 1

Pending == {t \in Tasks : status[t] = "pending"}

-----------------------------------------------------------------------------
(***************************************************************************)
(* Planners.                                                               *)
(***************************************************************************)

\* Variant: the type filter is inverted.
OutdatedOther(type) == {i \in Plans : strategy[i] = "active" /\ kind[i] # type}

\* The strategies that a new one of the type replaces.
Outdated(type) == {i \in Plans : strategy[i] = "active" /\ kind[i] = type}

\* archive_old_strategy(strategy_type), before anything is planned.
Archive(a, type) ==
    /\ plan[a].pc = "idle"
    /\ strategy' = [i \in Plans |-> IF i \in Outdated(type) THEN "completed" ELSE strategy[i]]
    /\ plan' = [plan EXCEPT ![a] = Run("archived", type, 0, {}, {})]
    /\ overlapped' = (overlapped \/ \E b \in Planners \ {a} : plan[b].pc # "idle")
    /\ UNCHANGED <<now, kind, owner, created, status, workerVars, faults,
                   firedBy, unmarked, restarted>>

\* Variants: the slots are replaced by the plans without deals, or whether they are
\* generated or not.
ReplacedByOthers(new) == IF new \cap Deals = {} THEN Pending ELSE {}
ReplacedAnyStatus(new) ==
    IF new \cap Deals # {} THEN {t \in Tasks : status[t] \in {"pending", "generated"}} ELSE {}

\* A plan with deal slots replaces the pending slots of all other strategies.
Replaced(new) == IF new \cap Deals # {} THEN Pending ELSE {}

\* save_strategy up to its DELETE: the strategy row gets its place in time, and the
\* transaction takes the rows it can see.
SaveBegin(a, new) ==
    /\ plan[a].pc = "archived"
    /\ created < MaxPlans
    /\ \A t \in new : status[t] = "absent" /\ \A b \in Planners : t \notin plan[b].new
    /\ created' = created + 1
    /\ plan' = [plan EXCEPT ![a] = Run("saving", @.type, created + 1, new, Replaced(new))]
    /\ UNCHANGED <<now, strategy, kind, owner, status, workerVars, faults, historyVars>>

\* The rest of the transaction and its commit.
SaveCommit(a) ==
    /\ plan[a].pc = "saving"
    /\ strategy' = [strategy EXCEPT ![plan[a].id] = "active"]
    /\ kind' = [kind EXCEPT ![plan[a].id] = plan[a].type]
    /\ status' = [t \in Tasks |-> IF t \in plan[a].new THEN "pending"
                                  ELSE IF t \in plan[a].old THEN "deleted"
                                  ELSE status[t]]
    /\ owner' = [t \in Tasks |-> IF t \in plan[a].new THEN plan[a].id ELSE owner[t]]
    /\ plan' = [plan EXCEPT ![a] = NoRun]
    /\ UNCHANGED <<now, created, workerVars, faults, historyVars>>

\* The run dies after it archived: an open transaction is rolled back.
PlanFails(a) ==
    /\ plan[a].pc # "idle"
    /\ plan' = [plan EXCEPT ![a] = NoRun]
    /\ UNCHANGED <<now, strategy, kind, owner, created, status, workerVars, faults,
                   historyVars>>

\* Rows an open transaction has deleted: whoever needs one waits for its end.
Locked(t) == \E a \in Planners : plan[a].pc = "saving" /\ t \in plan[a].old

-----------------------------------------------------------------------------
(***************************************************************************)
(* Workers.                                                                *)
(***************************************************************************)
\* Variant: the closing instant does not count.
InOpenWindow(t) == Window[t].open <= now /\ now < Window[t].close

InWindow(t) == Window[t].open <= now /\ now <= Window[t].close

\* Variant: without the status filter.
DueAgain == {t \in Tasks : status[t] \in {"pending", "generated"} /\ InWindow(t)}

\* get_due_tasks, which does not ask whether the strategy is still active.
Due == {t \in Pending : InWindow(t)}

Receive(w, list, again) ==
    /\ pc' = [pc EXCEPT ![w] = "fire"]
    /\ batch' = [batch EXCEPT ![w] = list]
    /\ todo' = [todo EXCEPT ![w] = list]
    /\ retries' = [retries EXCEPT ![w] = again]

\* dispatch_content_slots reads its list.
ReadDue(w) ==
    /\ w \in Dispatchers
    /\ pc[w] = "idle"
    /\ Due # {}
    /\ Receive(w, Due, TRUE)
    /\ UNCHANGED <<now, planVars, status, cur, faults, historyVars>>

\* get_pending_tasks_for_channel(days_ahead=0): the slots, due today or before, of
\* the active strategy created last.
Today ==
    {t \in Pending : /\ Window[t].day <= now
                     /\ owner[t] \in Plans
                     /\ strategy[owner[t]] = "active"
                     /\ \A i \in Plans : strategy[i] = "active" => i <= owner[t]}

\* generate_content_for_strategy takes the first SeedLimit of them.
ReadToday(w) ==
    /\ w \in Onboarders
    /\ pc[w] = "idle"
    /\ \E list \in SUBSET Today \ {{}} :
        /\ Cardinality(list) <= SeedLimit
        /\ list # Today => Cardinality(list) = SeedLimit
        /\ \A t \in list, u \in Today \ list : Window[t].close <= Window[u].close
        /\ Receive(w, list, FALSE)
    /\ UNCHANGED <<now, planVars, status, cur, faults, historyVars>>

\* t is the next slot of w: by priority in a dispatcher, by time in an onboarding run.
IsNext(w, t) ==
    /\ pc[w] = "fire"
    /\ t \in todo[w]
    /\ \A u \in todo[w] :
        IF w \in Dispatchers THEN Priority[u] <= Priority[t]
                             ELSE Window[t].close <= Window[u].close

\* No post: no genuine deal, or an exception that _safe swallowed.
FindsNothing(w, t) ==
    /\ IsNext(w, t)
    /\ todo' = [todo EXCEPT ![w] = @ \ {t}]
    /\ UNCHANGED <<now, planVars, status, pc, batch, cur, retries, faults, historyVars>>

\* add_to_review_queue.  The slot's status is not looked at again, but its row must
\* exist: the post refers to it.
QueuePost(w, t) ==
    /\ IsNext(w, t)
    /\ status[t] \in {"pending", "generated"}
    /\ ~Locked(t)
    /\ todo' = [todo EXCEPT ![w] = @ \ {t}]
    /\ cur' = [cur EXCEPT ![w] = t]
    /\ pc' = [pc EXCEPT ![w] = "mark"]
    /\ firedBy' = [firedBy EXCEPT ![w][t] = @ + 1]
    /\ UNCHANGED <<now, planVars, status, batch, retries, faults, unmarked, restarted,
                   overlapped>>

Unmarked(w) == unmarked' = [unmarked EXCEPT ![w][cur[w]] = @ + 1]

\* An exception after the post is queued (auto-approval, the used-deal records):
\* _safe returns None and the slot is not marked.
Abandon(w) ==
    /\ pc[w] = "mark"
    /\ Fault
    /\ Unmarked(w)
    /\ pc' = [pc EXCEPT ![w] = "fire"]
    /\ cur' = [cur EXCEPT ![w] = NoTask]
    /\ UNCHANGED <<now, planVars, status, batch, todo, retries, firedBy, restarted,
                   overlapped>>

\* mark_task_generated; nothing happens when the row is gone.
Mark(w) ==
    /\ pc[w] = "mark"
    /\ ~Locked(cur[w])
    /\ status' = [status EXCEPT ![cur[w]] = IF @ = "deleted" THEN @ ELSE "generated"]
    /\ pc' = [pc EXCEPT ![w] = "fire"]
    /\ cur' = [cur EXCEPT ![w] = NoTask]
    /\ UNCHANGED <<now, planVars, batch, todo, retries, faults, historyVars>>

\* dispatch_content_slots: except Exception: return await _dispatch(due, None).
Restart(w) ==
    /\ retries[w]
    /\ pc' = [pc EXCEPT ![w] = "fire"]
    /\ todo' = [todo EXCEPT ![w] = batch[w]]
    /\ retries' = [retries EXCEPT ![w] = FALSE]
    /\ restarted' = [restarted EXCEPT ![w] =
                        [t \in Tasks |-> IF t \in batch[w] THEN @[t] + 1 ELSE @[t]]]
    /\ UNCHANGED batch

Stop(w) ==
    /\ pc' = [pc EXCEPT ![w] = "idle"]
    /\ batch' = [batch EXCEPT ![w] = {}]
    /\ todo' = [todo EXCEPT ![w] = {}]
    /\ retries' = [retries EXCEPT ![w] = FALSE]
    /\ UNCHANGED restarted

\* mark_task_generated raises, because the commit fails or because its row is being
\* deleted.  It is not wrapped in _safe: the exception ends the whole batch.
MarkFails(w) ==
    /\ pc[w] = "mark"
    /\ Fault \/ (Locked(cur[w]) /\ UNCHANGED faults)
    /\ Unmarked(w)
    /\ cur' = [cur EXCEPT ![w] = NoTask]
    /\ Restart(w) \/ (~retries[w] /\ Stop(w))
    /\ UNCHANGED <<now, planVars, status, firedBy, overlapped>>

\* The batch is done, and closing the Telegram session raises.
CloseFails(w) ==
    /\ pc[w] = "fire"
    /\ todo[w] = {}
    /\ Fault
    /\ Restart(w)
    /\ UNCHANGED <<now, planVars, status, cur, firedBy, unmarked, overlapped>>

EndBatch(w) ==
    /\ pc[w] = "fire"
    /\ todo[w] = {}
    /\ Stop(w)
    /\ UNCHANGED <<now, planVars, status, cur, faults, firedBy, unmarked, overlapped>>

\* The process restarts.
Crash(w) ==
    /\ pc[w] # "idle"
    /\ Fault
    /\ IF pc[w] = "mark" THEN Unmarked(w) ELSE UNCHANGED unmarked
    /\ Stop(w)
    /\ cur' = [cur EXCEPT ![w] = NoTask]
    /\ UNCHANGED <<now, planVars, status, firedBy, overlapped>>

Tick ==
    /\ now < MaxTime
    /\ now' = now + 1
    /\ UNCHANGED <<planVars, status, workerVars, faults, historyVars>>

-----------------------------------------------------------------------------
PlannerStep(a) ==
    \/ \E type \in Types : Archive(a, type)
    \/ \E new \in SUBSET Tasks : SaveBegin(a, new)
    \/ SaveCommit(a)
    \/ PlanFails(a)

WorkerStep(w) ==
    \/ ReadDue(w)
    \/ ReadToday(w)
    \/ \E t \in Tasks : FindsNothing(w, t) \/ QueuePost(w, t)
    \/ Abandon(w)
    \/ Mark(w)
    \/ MarkFails(w)
    \/ CloseFails(w)
    \/ EndBatch(w)
    \/ Crash(w)

Next ==
    \/ \E a \in Planners : PlannerStep(a)
    \/ \E w \in Workers : WorkerStep(w)
    \/ Tick

Spec == Init /\ [][Next]_vars

(***************************************************************************)
(* Fairness.  The dispatch job fires every five minutes and works through  *)
(* its list; an open transaction ends; generation that is tried again and  *)
(* again for a slot succeeds at some time.  Nothing is assumed of planners *)
(* that have not begun to save, of onboarding runs and of faults.          *)
(***************************************************************************)
Fairness ==
    /\ \A a \in Planners : WF_vars(SaveCommit(a) \/ (plan[a].pc = "saving" /\ PlanFails(a)))
    /\ \A w \in Dispatchers :
        /\ WF_vars(ReadDue(w))
        /\ WF_vars(EndBatch(w) \/ CloseFails(w))
        /\ WF_vars(Mark(w) \/ MarkFails(w))
        /\ \A t \in Tasks :
            /\ WF_vars(FindsNothing(w, t) \/ QueuePost(w, t))
            /\ SF_vars(QueuePost(w, t))

FairSpec == Spec /\ Fairness

-----------------------------------------------------------------------------
(***************************************************************************)
(* Properties.                                                             *)
(***************************************************************************)

\* However lists, replans and faults interleave, a worker has one post queued for a
\* slot, and one more for each of its own posts after which the slot was not marked
\* and for each time it began a list with the slot again: nothing else makes it
\* come back to a slot it has handled (scheduler/jobs.py:284-330).
OnePostPerHandling ==
    \A w \in Workers, t \in Tasks :
        firedBy[w][t] <= 1 + unmarked[w][t] + restarted[w][t]

\* "keep only this strategy's fresh slots": unless two runs of the Strategy Agent
\* have overlapped, the pending deal slots are those of one plan
\* (tools/strategy.py:880-893).
OneDealPlan ==
    ~overlapped => \A t, u \in Pending \cap Deals : owner[t] = owner[u]

\* Unless two runs have overlapped, a type has at most one active strategy, with
\* failed runs in between (tools/strategy.py:921-948).
OneActivePlanPerType ==
    ~overlapped => \A i, j \in Plans :
        strategy[i] = "active" /\ strategy[j] = "active" /\ kind[i] = kind[j] => i = j

\* Some worker has had a post queued for the slot.
Fired(t) == \E w \in Workers : firedBy[w][t] > 0

\* The abstract state: what was planned, what has a post, what is done, what was dropped.
Ledger == INSTANCE SlotLedger WITH
    planned   <- {t \in Tasks : status[t] # "absent"},
    fired     <- {t \in Tasks : Fired(t)},
    generated <- {t \in Tasks : status[t] = "generated"},
    dropped   <- {t \in Tasks : status[t] = "deleted"}

\* Planning and dispatching keep the promise of SlotLedger: a slot is marked only when
\* a post was queued for it, no post is queued for a slot that a replan dropped, and a
\* replan never drops a slot that is generated, although it works on what it read
\* (tools/strategy.py:883-916, scheduler/jobs.py:299-330).
KeepsLedger == Ledger!Spec

\* A slot that is due and stays due gets a post or leaves the plan; the dispatcher
\* is never stuck in an old list (scheduler/jobs.py:284-337).
DueSlotIsFired ==
    \A t \in Tasks : Window[t].close >= MaxTime =>
        (t \in Due ~> (Fired(t) \/ t \notin Pending))

\* "the executor never double-fires" (tools/strategy.py:884-886): at most one post
\* is queued for a deal slot.
NeverDoubleFires ==
    \A t \in Deals, v, w \in Dispatchers :
        /\ firedBy[w][t] <= 1
        /\ v # w => firedBy[v][t] = 0 \/ firedBy[w][t] = 0
=============================================================================
