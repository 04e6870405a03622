------------------------- MODULE SlotDispatch_proofs -------------------------
(***************************************************************************)
(* Proofs about SlotDispatch, for any slots, processes, windows and bounds.*)
(*                                                                         *)
(* IInv is the inductive invariant.  Its parts say what a worker's list    *)
(* and the open transaction of a planner may hold, how many posts a slot   *)
(* that can still be handled has, and what a planner finds in the tables   *)
(* as long as no two of them have overlapped.                              *)
(***************************************************************************)
EXTENDS SlotDispatch, TLAPS

\* A worker's lists: nothing left of them when it is idle, the slot to be marked is
\* not to come again, and every slot of a list has a row.
Lists ==
    \A w \in Workers :
        /\ pc[w] = "mark" <=> cur[w] # NoTask
        /\ pc[w] = "idle" => batch[w] = {}
        /\ todo[w] \subseteq batch[w]
        /\ cur[w] \notin todo[w]
        /\ \A t \in batch[w] : status[t] # "absent"

\* Open transactions: the rows to be inserted are not there, those to be deleted
\* are pending or already gone, and each has an id of its own.
Transactions ==
    /\ \A i \in Plans : strategy[i] # "none" => i <= created
    /\ \A a \in Planners :
        /\ plan[a].pc # "saving" => plan[a].new = {} /\ plan[a].old = {}
        /\ plan[a].pc = "saving" => plan[a].id \in 1 .. created
        /\ \A t \in plan[a].new : status[t] = "absent"
        /\ \A t \in plan[a].old : status[t] \in {"pending", "deleted"}
        /\ \A b \in Planners \ {a} : plan[a].new \cap plan[b].new = {}

\* The slot to be marked, and a slot that is generated, have a post; a slot
\* without a row has none.
Posted ==
    /\ \A w \in Workers : pc[w] = "mark" => firedBy[w][cur[w]] > 0
    /\ \A t \in Tasks : status[t] = "generated" => Fired(t)
    /\ \A t \in Tasks : status[t] = "absent" => ~Fired(t)

\* A slot that a worker may still get a post for has only unmarked posts of that
\* worker and posts from before it began its list again.
Accounts ==
    \A w \in Workers, t \in Tasks :
        /\ firedBy[w][t] <= 1 + unmarked[w][t] + restarted[w][t]
        /\ status[t] \in {"absent", "pending"} /\ cur[w] # t
            => firedBy[w][t] <= unmarked[w][t] + restarted[w][t]
        /\ t \in todo[w] => firedBy[w][t] <= unmarked[w][t] + restarted[w][t]

\* While no two planners have overlapped, one that has archived finds no active
\* strategy of its type, and one that saves deal slots deletes all pending ones.
Serial ==
    ~overlapped =>
        /\ \A a, b \in Planners : plan[a].pc # "idle" /\ plan[b].pc # "idle" => a = b
        /\ \A a \in Planners, i \in Plans :
            plan[a].pc # "idle" /\ strategy[i] = "active" => kind[i] # plan[a].type
        /\ \A a \in Planners :
            plan[a].pc = "saving" /\ plan[a].new \cap Deals # {} => Pending \subseteq plan[a].old

IInv ==
    /\ TypeOK
    /\ Lists
    /\ Transactions
    /\ Posted
    /\ Accounts
    /\ Serial
    /\ OneDealPlan
    /\ OneActivePlanPerType

-----------------------------------------------------------------------------
(***************************************************************************)
(* The counters.                                                           *)
(***************************************************************************)

\* Queueing counts one post of the slot, and nothing else.
LEMMA FiredCounts ==
    ASSUME TypeOK, NEW w \in Workers, NEW t \in Tasks,
           firedBy' = [firedBy EXCEPT ![w][t] = @ + 1]
    PROVE  /\ firedBy' \in Counters
           /\ firedBy'[w][t] = firedBy[w][t] + 1
           /\ \A v \in Workers, u \in Tasks :
                v # w \/ u # t => firedBy'[v][u] = firedBy[v][u]
    BY DEF TypeOK, Counters

\* Failing to mark counts one unmarked post of the slot, and nothing else.
LEMMA UnmarkedCounts ==
    ASSUME TypeOK, NEW w \in Workers, NEW t \in Tasks,
           unmarked' = [unmarked EXCEPT ![w][t] = @ + 1]
    PROVE  /\ unmarked' \in Counters
           /\ unmarked'[w][t] = unmarked[w][t] + 1
           /\ \A v \in Workers, u \in Tasks :
                v # w \/ u # t => unmarked'[v][u] = unmarked[v][u]
    BY DEF TypeOK, Counters

\* Beginning a list again counts for the slots of the list.
LEMMA RestartCounts ==
    ASSUME TypeOK, NEW w \in Workers, Restart(w)
    PROVE  /\ restarted' \in Counters
           /\ \A v \in Workers, u \in Tasks :
                restarted'[v][u] = IF v = w /\ u \in batch[w] THEN restarted[v][u] + 1
                                                             ELSE restarted[v][u]
<1> DEFINE row == [t \in Tasks |-> IF t \in batch[w] THEN restarted[w][t] + 1
                                                    ELSE restarted[w][t]]
<1>1. restarted \in [Workers -> [Tasks -> Nat]]
    BY DEF TypeOK, Counters
<1>2. row \in [Tasks -> Nat]
    BY <1>1
<1>3. restarted' = [restarted EXCEPT ![w] = row]
    BY DEF Restart
<1> QED BY <1>1, <1>2, <1>3 DEF Counters

-----------------------------------------------------------------------------
(***************************************************************************)
(* Types, and what planners and workers leave to each other.               *)
(***************************************************************************)

\* The initial state satisfies the invariant.
LEMMA InitIInv == Init => IInv
<1> SUFFICES ASSUME Init PROVE IInv
    OBVIOUS
<1> USE SlotDispatchAssumption DEF Init, None, NoRun, Run, Workers
<1>1. TypeOK
    <2>1. None \in Counters
        BY DEF Counters
    <2>2. /\ NoRun.pc = "idle" /\ NoRun.type = "daily" /\ NoRun.id = 0
          /\ plan \in [Planners -> [pc : {"idle", "archived", "saving"}, type : Types,
                               id : 0 .. MaxPlans, new : SUBSET Tasks, old : SUBSET Tasks]]
        BY SlotDispatchAssumption
    <2>3. /\ firedBy \in Counters /\ unmarked \in Counters /\ restarted \in Counters
        BY <2>1
    <2>4. /\ strategy \in [Plans -> {"none", "active", "completed"}]
          /\ kind \in [Plans -> Types]
          /\ owner \in [Tasks -> 0 .. MaxPlans]
          /\ created \in 0 .. MaxPlans
        BY DEF Plans
    <2> QED BY <2>2, <2>3, <2>4 DEF TypeOK
<1>2. Lists
    BY DEF Lists
<1>3. Transactions
    BY DEF Transactions
<1>4. Posted
    BY DEF Posted, Fired
<1>5. Accounts
    BY DEF Accounts
<1>6. Serial /\ OneDealPlan /\ OneActivePlanPerType
    BY DEF Serial, OneDealPlan, OneActivePlanPerType, Pending
<1> QED BY <1>1, <1>2, <1>3, <1>4, <1>5, <1>6 DEF IInv

\* Every step of a planner leaves every variable in its type.
LEMMA PlannerTypes ==
    ASSUME TypeOK, NEW a \in Planners, PlannerStep(a)
    PROVE  TypeOK'
<1> USE SlotDispatchAssumption DEF TypeOK, Plans
<1>1. ASSUME NEW type \in Types, Archive(a, type)
      PROVE  TypeOK'
    BY <1>1 DEF Archive, Run, workerVars
<1>2. ASSUME NEW new \in SUBSET Tasks, SaveBegin(a, new)
      PROVE  TypeOK'
    <2>1. /\ Pending \subseteq Tasks
          /\ created + 1 \in 0 .. MaxPlans
        BY <1>2 DEF SaveBegin, Pending
    <2> QED BY <1>2, <2>1 DEF SaveBegin, Run, Replaced, workerVars, historyVars
<1>3. CASE SaveCommit(a)
    <2>1. plan[a].id \in 0 .. MaxPlans /\ plan[a].type \in Types
        OBVIOUS
    <2>2. strategy' \in [1 .. MaxPlans -> {"none", "active", "completed"}]
        BY <1>3 DEF SaveCommit
    <2>3. kind' \in [1 .. MaxPlans -> Types]
        BY <1>3, <2>1 DEF SaveCommit
    <2>4. owner' \in [Tasks -> 0 .. MaxPlans]
        BY <1>3, <2>1 DEF SaveCommit
    <2> QED BY <1>3, <2>2, <2>3, <2>4 DEF SaveCommit, NoRun, Run, workerVars, historyVars
<1>4. CASE PlanFails(a)
    BY <1>4 DEF PlanFails, NoRun, Run, workerVars, historyVars
<1> QED BY <1>1, <1>2, <1>3, <1>4 DEF PlannerStep

\* Every step of a worker leaves every variable in its type.
LEMMA WorkerTypes ==
    ASSUME TypeOK, Lists, NEW w \in Workers, WorkerStep(w)
    PROVE  TypeOK'
<1> USE SlotDispatchAssumption DEF TypeOK
<1>1. CASE ReadDue(w)
    <2>1. Due \in SUBSET Tasks
        BY DEF Due, Pending
    <2> QED BY <1>1, <2>1 DEF ReadDue, Receive, planVars, historyVars
<1>2. CASE ReadToday(w)
    <2>1. PICK list \in SUBSET Today : Receive(w, list, FALSE)
        BY <1>2 DEF ReadToday
    <2>2. list \in SUBSET Tasks
        BY DEF Today, Pending
    <2> QED BY <1>2, <2>1, <2>2 DEF ReadToday, Receive, planVars, historyVars
<1>3. ASSUME NEW t \in Tasks, FindsNothing(w, t)
      PROVE  TypeOK'
    BY <1>3 DEF FindsNothing, planVars, historyVars
<1>4. ASSUME NEW t \in Tasks, QueuePost(w, t)
      PROVE  TypeOK'
    BY <1>4, FiredCounts DEF QueuePost, planVars
<1>5. CASE Mark(w)
    BY <1>5 DEF Mark, planVars, historyVars
<1>6. CASE EndBatch(w)
    BY <1>6 DEF EndBatch, Stop, planVars
<1>7. CASE Abandon(w) \/ MarkFails(w) \/ CloseFails(w) \/ Crash(w)
    <2>1. unmarked' \in Counters
        <3>1. CASE pc[w] = "mark" /\ Unmarked(w)
            <4>1. cur[w] \in Tasks
                BY <3>1 DEF Lists
            <4> QED BY <3>1, <4>1, UnmarkedCounts DEF Unmarked
        <3>2. CASE UNCHANGED unmarked
            BY <3>2
        <3> QED BY <1>7, <3>1, <3>2 DEF Abandon, MarkFails, CloseFails, Crash
    <2>2. /\ restarted' \in Counters
          /\ pc' \in [Workers -> {"idle", "fire", "mark"}]
          /\ batch' \in [Workers -> SUBSET Tasks]
          /\ todo' \in [Workers -> SUBSET Tasks]
          /\ retries' \in [Workers -> BOOLEAN]
        <3>1. CASE Restart(w)
            BY <3>1, RestartCounts DEF Restart
        <3>2. CASE Stop(w)
            BY <3>2 DEF Stop
        <3>3. CASE Abandon(w)
            BY <3>3 DEF Abandon
        <3> QED BY <1>7, <3>1, <3>2, <3>3 DEF MarkFails, CloseFails, Crash
    <2>3. faults' \in Nat /\ cur' \in [Workers -> Tasks \cup {NoTask}]
        BY <1>7 DEF Abandon, MarkFails, CloseFails, Crash, Fault
    <2>4. UNCHANGED <<now, planVars, status, firedBy, overlapped>>
        BY <1>7 DEF Abandon, MarkFails, CloseFails, Crash
    <2> QED BY <2>1, <2>2, <2>3, <2>4 DEF planVars
<1> QED BY <1>1, <1>2, <1>3, <1>4, <1>5, <1>6, <1>7 DEF WorkerStep

\* A planner touches no list and no counter, and its transactions insert rows that
\* were not there and delete rows that were pending.
LEMMA PlannerFrame ==
    ASSUME TypeOK, Transactions, NEW a \in Planners, PlannerStep(a)
    PROVE  /\ UNCHANGED <<now, workerVars, faults, firedBy, unmarked, restarted>>
           /\ \A t \in Tasks :
                \/ status'[t] = status[t]
                \/ status[t] = "absent" /\ status'[t] = "pending"
                \/ status[t] = "pending" /\ status'[t] = "deleted"
<1>1. CASE \E type \in Types : Archive(a, type)
    BY <1>1 DEF Archive
<1>2. CASE \E new \in SUBSET Tasks : SaveBegin(a, new)
    BY <1>2 DEF SaveBegin, historyVars
<1>3. CASE SaveCommit(a)
    BY <1>3 DEF SaveCommit, historyVars, TypeOK, Transactions
<1>4. CASE PlanFails(a)
    BY <1>4 DEF PlanFails, historyVars
<1> QED BY <1>1, <1>2, <1>3, <1>4 DEF PlannerStep

\* A worker touches no plan; it may only turn the slot it marks from pending to
\* generated, and not while a transaction has the row.
LEMMA WorkerFrame ==
    ASSUME TypeOK, Lists, Posted, NEW w \in Workers, WorkerStep(w)
    PROVE  /\ UNCHANGED <<now, planVars, overlapped>>
           /\ \A t \in Tasks :
                \/ status'[t] = status[t]
                \/ /\ pc[w] = "mark" /\ cur[w] = t /\ ~Locked(t)
                   /\ status[t] = "pending" /\ status'[t] = "generated"
<1>1. CASE Mark(w)
    <2>1. cur[w] \in Tasks /\ status[cur[w]] # "absent"
        BY <1>1 DEF Mark, Lists, Posted, Fired, TypeOK
    <2> QED BY <1>1, <2>1 DEF Mark, historyVars, TypeOK
<1>2. CASE ReadDue(w) \/ ReadToday(w)
    BY <1>2 DEF ReadDue, ReadToday, historyVars
<1>3. CASE \E t \in Tasks : FindsNothing(w, t) \/ QueuePost(w, t)
    BY <1>3 DEF FindsNothing, QueuePost, historyVars
<1>4. CASE Abandon(w) \/ MarkFails(w) \/ CloseFails(w) \/ EndBatch(w) \/ Crash(w)
    BY <1>4 DEF Abandon, MarkFails, CloseFails, EndBatch, Crash
<1> QED BY <1>1, <1>2, <1>3, <1>4 DEF WorkerStep

\* Time changes nothing but the clock.
LEMMA TimeFrame ==
    ASSUME Tick \/ UNCHANGED vars
    PROVE  UNCHANGED <<planVars, status, workerVars, faults, historyVars>>
    BY DEF Tick, vars

-----------------------------------------------------------------------------
(***************************************************************************)
(* Every step preserves each part of the invariant.                        *)
(***************************************************************************)

\* Types are preserved.
LEMMA TypeStep == IInv /\ [Next]_vars => TypeOK'
<1> SUFFICES ASSUME IInv, [Next]_vars PROVE TypeOK'
    OBVIOUS
<1>1. CASE Tick
    BY <1>1 DEF IInv, TypeOK, Tick, planVars, workerVars, historyVars
<1>2. CASE UNCHANGED vars
    BY <1>2 DEF IInv, TypeOK, vars, planVars, workerVars, historyVars
<1> QED BY <1>1, <1>2, PlannerTypes, WorkerTypes DEF IInv, Next

\* Lists hold rows that exist, and shrink until they are read or begun again.
LEMMA ListsStep == IInv /\ [Next]_vars => Lists'
<1> SUFFICES ASSUME IInv, [Next]_vars PROVE Lists'
    OBVIOUS
<1>1. ASSUME NEW a \in Planners, PlannerStep(a)
      PROVE  Lists'
    BY <1>1, PlannerFrame DEF IInv, TypeOK, Lists, workerVars
<1>2. ASSUME NEW w \in Workers, WorkerStep(w)
      PROVE  Lists'
    <2>1. \A t \in Tasks : status[t] # "absent" => status'[t] # "absent"
        BY <1>2, WorkerFrame DEF IInv
    <2> USE SlotDispatchAssumption DEF IInv, TypeOK, Lists
    <2>2. CASE ReadDue(w)
        BY <2>1, <2>2 DEF ReadDue, Receive, Due, Pending
    <2>3. CASE ReadToday(w)
        <3>1. PICK list \in SUBSET Today : Receive(w, list, FALSE)
            BY <2>3 DEF ReadToday
        <3> QED BY <2>1, <2>3, <3>1 DEF ReadToday, Receive, Today, Pending
    <2>4. ASSUME NEW t \in Tasks, FindsNothing(w, t)
          PROVE  Lists'
        BY <2>1, <2>4 DEF FindsNothing
    <2>5. ASSUME NEW t \in Tasks, QueuePost(w, t)
          PROVE  Lists'
        BY <2>1, <2>5 DEF QueuePost, IsNext
    <2>6. CASE Abandon(w)
        BY <2>1, <2>6 DEF Abandon
    <2>7. CASE Mark(w)
        BY <2>1, <2>7 DEF Mark
    <2>8. CASE MarkFails(w) \/ CloseFails(w) \/ EndBatch(w) \/ Crash(w)
        <3>1. cur' = [cur EXCEPT ![w] = NoTask]
            BY <2>8 DEF MarkFails, CloseFails, EndBatch, Crash
        <3>2. CASE Restart(w)
            BY <2>1, <3>1, <3>2 DEF Restart
        <3>3. CASE Stop(w)
            BY <2>1, <3>1, <3>3 DEF Stop
        <3> QED BY <2>8, <3>2, <3>3 DEF MarkFails, CloseFails, EndBatch, Crash
    <2> QED BY <1>2, <2>2, <2>3, <2>4, <2>5, <2>6, <2>7, <2>8 DEF WorkerStep
<1>3. CASE Tick \/ UNCHANGED vars
    BY <1>3, TimeFrame DEF IInv, Lists, workerVars
<1> QED BY <1>1, <1>2, <1>3 DEF Next

\* What a transaction deletes is locked, and what it inserts is its own.
LEMMA TransactionsStep == IInv /\ [Next]_vars => Transactions'
<1> SUFFICES ASSUME IInv, [Next]_vars PROVE Transactions'
    OBVIOUS
<1>1. ASSUME NEW a \in Planners, PlannerStep(a)
      PROVE  Transactions'
    <2> USE SlotDispatchAssumption DEF IInv, TypeOK, Transactions, Plans
    <2>1. CASE \E type \in Types : Archive(a, type)
        BY <2>1 DEF Archive, Outdated, Run
    <2>2. ASSUME NEW new \in SUBSET Tasks, SaveBegin(a, new)
          PROVE  Transactions'
        <3>1. /\ plan'[a].pc = "saving" /\ plan'[a].id = created + 1
              /\ plan'[a].new = new /\ plan'[a].old \subseteq Pending
              /\ \A b \in Planners \ {a} : plan'[b] = plan[b]
            BY <2>2 DEF SaveBegin, Run, Replaced
        <3>2. status' = status /\ strategy' = strategy /\ created' = created + 1
            BY <2>2 DEF SaveBegin
        <3>3. \A b \in Planners \ {a} : new \cap plan[b].new = {}
            BY <2>2 DEF SaveBegin
        <3>4. \A t \in new : status[t] = "absent"
            BY <2>2 DEF SaveBegin
        <3>5. \A i \in Plans : strategy'[i] # "none" => i <= created'
            BY <3>2
        <3>6. \A b \in Planners :
                /\ plan'[b].pc # "saving" => plan'[b].new = {} /\ plan'[b].old = {}
                /\ plan'[b].pc = "saving" => plan'[b].id \in 1 .. created'
            <4>1. created \in Nat /\ created' = created + 1
                BY <3>2
            <4>2. created + 1 \in 1 .. created' /\ 1 .. created \subseteq 1 .. created'
                BY <4>1
            <4>3. ASSUME NEW b \in Planners \ {a}, plan[b].pc = "saving"
                  PROVE  plan[b].id \in 1 .. created'
                BY <4>2, <4>3
            <4>4. ASSUME NEW b \in Planners \ {a}, plan[b].pc # "saving"
                  PROVE  plan[b].new = {} /\ plan[b].old = {}
                BY <4>4
            <4>5. plan'[a].pc = "saving" /\ plan'[a].id \in 1 .. created'
                BY <3>1, <4>2
            <4> HIDE DEF IInv, TypeOK, Transactions
            <4> QED BY <3>1, <4>3, <4>4, <4>5
        <3>7. \A b \in Planners :
                /\ \A t \in plan'[b].new : status'[t] = "absent"
                /\ \A t \in plan'[b].old : status'[t] \in {"pending", "deleted"}
            BY <3>1, <3>2, <3>4 DEF Pending
        <3>8. ASSUME NEW b \in Planners, NEW c \in Planners \ {b}
              PROVE  plan'[b].new \cap plan'[c].new = {}
            <4>1. plan[b].new \cap plan[c].new = {}
                OBVIOUS
            <4>2. CASE b = a
                BY <3>1, <3>3, <4>2
            <4>3. CASE c = a
                BY <3>1, <3>3, <4>3
            <4>4. CASE b # a /\ c # a
                BY <3>1, <4>1, <4>4
            <4> QED BY <4>2, <4>3, <4>4
        <3> QED BY <3>5, <3>6, <3>7, <3>8
    <2>3. CASE SaveCommit(a)
        <3>1. /\ plan'[a] = NoRun
              /\ \A b \in Planners \ {a} : plan'[b] = plan[b]
            BY <2>3 DEF SaveCommit
        <3>2. \A b \in Planners \ {a}, t \in Tasks :
                /\ t \in plan[b].new => status'[t] = "absent"
                /\ t \in plan[b].old => status'[t] \in {"pending", "deleted"}
            BY <2>3 DEF SaveCommit
        <3>3. \A i \in Plans : strategy'[i] # "none" => i <= created'
            BY <2>3 DEF SaveCommit
        <3>5. /\ NoRun.pc = "idle" /\ NoRun.new = {} /\ NoRun.old = {}
              /\ created' = created
            BY <2>3 DEF SaveCommit, NoRun, Run
        <3>6. \A b \in Planners :
                /\ plan'[b].pc # "saving" => plan'[b].new = {} /\ plan'[b].old = {}
                /\ plan'[b].pc = "saving" => plan'[b].id \in 1 .. created'
            <4>1. \A b \in Planners \ {a} :
                    /\ plan[b].pc # "saving" => plan[b].new = {} /\ plan[b].old = {}
                    /\ plan[b].pc = "saving" => plan[b].id \in 1 .. created
                OBVIOUS
            <4> HIDE DEF IInv, TypeOK, Transactions
            <4> QED BY <3>1, <3>5, <4>1
        <3>7. \A b \in Planners :
                /\ \A t \in plan'[b].new : status'[t] = "absent"
                /\ \A t \in plan'[b].old : status'[t] \in {"pending", "deleted"}
            <4> HIDE DEF IInv, TypeOK, Transactions
            <4>1. \A b \in Planners \ {a} : plan'[b].new \subseteq Tasks /\ plan'[b].old \subseteq Tasks
                <5> USE DEF IInv, TypeOK
                <5> QED BY <3>1
            <4> QED BY <3>1, <3>2, <3>5, <4>1
        <3>8. ASSUME NEW b \in Planners, NEW c \in Planners \ {b}
              PROVE  plan'[b].new \cap plan'[c].new = {}
            <4>1. plan[b].new \cap plan[c].new = {}
                OBVIOUS
            <4>2. CASE b = a
                BY <3>1, <3>5, <4>2
            <4>3. CASE c = a
                BY <3>1, <3>5, <4>3
            <4>4. CASE b # a /\ c # a
                BY <3>1, <4>1, <4>4
            <4> QED BY <4>2, <4>3, <4>4
        <3> QED BY <3>3, <3>6, <3>7, <3>8
    <2>4. CASE PlanFails(a)
        BY <2>4 DEF PlanFails, NoRun, Run
    <2> QED BY <1>1, <2>1, <2>2, <2>3, <2>4 DEF PlannerStep
<1>2. ASSUME NEW w \in Workers, WorkerStep(w)
      PROVE  Transactions'
    <2>1. UNCHANGED planVars
        BY <1>2, WorkerFrame DEF IInv
    <2>2. \A t \in Tasks : status'[t] = status[t] \/ (status[t] = "pending" /\ ~Locked(t))
        BY <1>2, WorkerFrame DEF IInv
    <2>3. \A b \in Planners : \A t \in plan[b].old : status'[t] = status[t]
        BY <2>2 DEF IInv, TypeOK, Transactions, Locked
    <2>4. \A b \in Planners : \A t \in plan[b].new : status'[t] = status[t]
        BY <2>2 DEF IInv, TypeOK, Transactions
    <2> QED BY <2>1, <2>3, <2>4 DEF IInv, Transactions, planVars
<1>3. CASE Tick \/ UNCHANGED vars
    BY <1>3, TimeFrame DEF IInv, Transactions, planVars
<1> QED BY <1>1, <1>2, <1>3 DEF Next

\* Only what has a post is marked.
LEMMA PostedStep == IInv /\ [Next]_vars => Posted'
<1> SUFFICES ASSUME IInv, [Next]_vars PROVE Posted'
    OBVIOUS
<1>1. ASSUME NEW a \in Planners, PlannerStep(a)
      PROVE  Posted'
    BY <1>1, PlannerFrame DEF IInv, TypeOK, Posted, Fired, workerVars
<1>2. ASSUME NEW w \in Workers, WorkerStep(w)
      PROVE  Posted'
    <2>0. IInv => TypeOK /\ Lists /\ Posted
        BY DEF IInv
    <2>1. \A t \in Tasks :
            \/ status'[t] = status[t]
            \/ pc[w] = "mark" /\ cur[w] = t /\ status'[t] = "generated"
        BY <1>2, <2>0, WorkerFrame
    <2>2. CASE \E t \in Tasks : QueuePost(w, t)
        <3> PICK t \in Tasks : QueuePost(w, t)
            BY <2>2
        <3>1. /\ firedBy'[w][t] = firedBy[w][t] + 1
              /\ \A v \in Workers, u \in Tasks :
                    v # w \/ u # t => firedBy'[v][u] = firedBy[v][u]
            BY FiredCounts DEF IInv, QueuePost
        <3>2. firedBy'[w][t] > 0
            BY <3>1 DEF IInv, TypeOK, Counters
        <3>3. /\ status' = status /\ status[t] # "absent"
              /\ \A v \in Workers : pc'[v] = "mark" => cur'[v] = IF v = w THEN t ELSE cur[v]
              /\ \A v \in Workers : pc'[v] = "mark" /\ v # w => pc[v] = "mark"
            BY DEF QueuePost, IInv, TypeOK
        <3>4. \A u \in Tasks : Fired(u) => Fired(u)'
            BY <3>1, <3>2 DEF Fired
        <3>5. \A u \in Tasks : Fired(u)' => Fired(u) \/ u = t
            BY <3>1 DEF Fired
        <3>6. \A v \in Workers : pc'[v] = "mark" => firedBy'[v][cur'[v]] > 0
            <4> SUFFICES ASSUME NEW v \in Workers, pc'[v] = "mark"
                         PROVE  firedBy'[v][cur'[v]] > 0
                OBVIOUS
            <4>1. CASE v = w
                BY <3>2, <3>3, <4>1
            <4>2. CASE v # w
                BY <3>1, <3>3, <4>2 DEF IInv, TypeOK, Lists, Posted
            <4> QED BY <4>1, <4>2
        <3> QED BY <3>3, <3>4, <3>5, <3>6 DEF IInv, Posted
    <2>3. CASE UNCHANGED firedBy /\ \A v \in Workers : pc'[v] = "mark" =>
                    pc[v] = "mark" /\ cur'[v] = cur[v]
        <3>1. \A t \in Tasks : Fired(t)' <=> Fired(t)
            BY <2>3 DEF Fired
        <3>2. \A t \in Tasks : status'[t] = "generated" => Fired(t)
            BY <2>1 DEF IInv, Posted, Fired
        <3>3. \A t \in Tasks : status'[t] = "absent" => status[t] = "absent"
            BY <2>1
        <3> QED BY <2>3, <3>1, <3>2, <3>3 DEF IInv, Posted
    <2>4. CASE ReadDue(w) \/ ReadToday(w)
        BY <2>3, <2>4 DEF ReadDue, ReadToday, Receive, historyVars, IInv, TypeOK
    <2>5. CASE \E t \in Tasks : FindsNothing(w, t)
        BY <2>3, <2>5 DEF FindsNothing, historyVars
    <2>6. CASE Abandon(w) \/ Mark(w)
        BY <2>3, <2>6 DEF Abandon, Mark, historyVars, IInv, TypeOK
    <2>7. CASE MarkFails(w) \/ CloseFails(w) \/ EndBatch(w) \/ Crash(w)
        <3>1. UNCHANGED firedBy /\ \A v \in Workers \ {w} : cur'[v] = cur[v]
            BY <2>7 DEF MarkFails, CloseFails, EndBatch, Crash, IInv, TypeOK
        <3>2. Restart(w) \/ Stop(w)
            BY <2>7 DEF MarkFails, CloseFails, EndBatch, Crash
        <3>3. pc'[w] # "mark" /\ \A v \in Workers \ {w} : pc'[v] = pc[v]
            BY <3>2 DEF Restart, Stop, IInv, TypeOK
        <3> QED BY <2>3, <3>1, <3>3
    <2> QED BY <1>2, <2>2, <2>4, <2>5, <2>6, <2>7 DEF WorkerStep
<1>3. CASE Tick \/ UNCHANGED vars
    BY <1>3, TimeFrame DEF IInv, Posted, Fired, workerVars, historyVars
<1> QED BY <1>1, <1>2, <1>3 DEF Next

\* A worker comes back only to what was not marked, or with a list begun again.
LEMMA AccountsStep == IInv /\ [Next]_vars => Accounts'
<1> SUFFICES ASSUME IInv, [Next]_vars PROVE Accounts'
    OBVIOUS
<1>1. ASSUME NEW a \in Planners, PlannerStep(a)
      PROVE  Accounts'
    BY <1>1, PlannerFrame DEF IInv, TypeOK, Accounts, workerVars
<1>2. ASSUME NEW w \in Workers, WorkerStep(w)
      PROVE  Accounts'
    <2> USE SlotDispatchAssumption DEF IInv, TypeOK, Lists, Accounts, Counters
    <2>1. CASE ReadDue(w) \/ ReadToday(w)
        <3>1. /\ \A t \in todo'[w] : status[t] = "pending"
              /\ \A v \in Workers \ {w} : todo'[v] = todo[v]
              /\ pc[w] = "idle"
            BY <2>1 DEF ReadDue, ReadToday, Receive, Due, Today, Pending
        <3>2. UNCHANGED <<status, cur, firedBy, unmarked, restarted>>
            BY <2>1 DEF ReadDue, ReadToday, historyVars
        <3>3. \A t \in Tasks : cur[w] # t
            BY <3>1
        <3> QED BY <3>1, <3>2, <3>3
    <2>2. ASSUME NEW t \in Tasks, FindsNothing(w, t)
          PROVE  Accounts'
        BY <2>2 DEF FindsNothing, historyVars
    <2>3. ASSUME NEW t \in Tasks, QueuePost(w, t)
          PROVE  Accounts'
        <3>1. /\ t \in todo[w] /\ cur' = [cur EXCEPT ![w] = t]
              /\ todo' = [todo EXCEPT ![w] = @ \ {t}]
              /\ UNCHANGED <<status, unmarked, restarted>>
            BY <2>3 DEF QueuePost, IsNext
        <3>2. /\ firedBy'[w][t] = firedBy[w][t] + 1
              /\ \A v \in Workers, u \in Tasks :
                    v # w \/ u # t => firedBy'[v][u] = firedBy[v][u]
            BY <2>3, FiredCounts DEF QueuePost
        <3>3. cur[w] = NoTask
            BY <2>3 DEF QueuePost, IsNext
        <3> QED BY <3>1, <3>2, <3>3
    <2>4. CASE Mark(w)
        <3>1. /\ cur[w] \in Tasks
              /\ status'[cur[w]] \in {"deleted", "generated"}
              /\ \A u \in Tasks : u # cur[w] => status'[u] = status[u]
            BY <2>4 DEF Mark
        <3>2. /\ cur' = [cur EXCEPT ![w] = NoTask]
              /\ UNCHANGED <<todo, firedBy, unmarked, restarted>>
            BY <2>4 DEF Mark, historyVars
        <3> QED BY <3>1, <3>2
    <2>5. CASE EndBatch(w)
        BY <2>5 DEF EndBatch, Stop
    <2>6. CASE Abandon(w) \/ MarkFails(w) \/ CloseFails(w) \/ Crash(w)
        <3>1. /\ cur' = [cur EXCEPT ![w] = NoTask]
              /\ UNCHANGED <<status, firedBy>>
            BY <2>6 DEF Abandon, MarkFails, CloseFails, Crash
        <3>2. \A u \in Tasks : unmarked'[w][u] = IF u = cur[w] THEN unmarked[w][u] + 1
                                                            ELSE unmarked[w][u]
            <4>1. CASE pc[w] = "mark" /\ Unmarked(w)
                BY <4>1, UnmarkedCounts DEF Unmarked
            <4>2. CASE pc[w] # "mark" /\ UNCHANGED unmarked
                BY <4>2
            <4> QED BY <2>6, <4>1, <4>2 DEF Abandon, MarkFails, CloseFails, Crash
        <3>3. \A v \in Workers \ {w} : unmarked'[v] = unmarked[v]
            BY <2>6 DEF Abandon, MarkFails, CloseFails, Crash, Unmarked
        <3>4. CASE Restart(w)
            <4>1. /\ todo'[w] = batch[w]
                  /\ \A v \in Workers \ {w} : todo'[v] = todo[v]
                BY <3>4 DEF Restart
            <4>2. \A v \in Workers, u \in Tasks :
                    restarted'[v][u] = IF v = w /\ u \in batch[w] THEN restarted[v][u] + 1
                                                                 ELSE restarted[v][u]
                BY <3>4, RestartCounts
            <4> QED BY <3>1, <3>2, <3>3, <4>1, <4>2
        <3>5. CASE UNCHANGED restarted /\ \A v \in Workers : todo'[v] \subseteq todo[v]
            BY <3>1, <3>2, <3>3, <3>5
        <3>6. CASE Stop(w)
            BY <3>5, <3>6 DEF Stop
        <3>7. CASE Abandon(w)
            BY <3>5, <3>7 DEF Abandon
        <3> QED BY <2>6, <3>4, <3>6, <3>7 DEF MarkFails, CloseFails, Crash
    <2> QED BY <1>2, <2>1, <2>2, <2>3, <2>4, <2>5, <2>6 DEF WorkerStep
<1>3. CASE Tick \/ UNCHANGED vars
    BY <1>3, TimeFrame DEF IInv, Accounts, workerVars, historyVars
<1> QED BY <1>1, <1>2, <1>3 DEF Next

\* What a planner archived stays archived while it works alone.
LEMMA SerialStep == IInv /\ [Next]_vars => Serial'
<1> SUFFICES ASSUME IInv, [Next]_vars PROVE Serial'
    OBVIOUS
<1>1. ASSUME NEW a \in Planners, PlannerStep(a)
      PROVE  Serial'
    <2> USE DEF IInv, TypeOK, Serial
    <2> SUFFICES ASSUME ~overlapped' PROVE Serial'
        OBVIOUS
    <2>1. \A b \in Planners \ {a} : plan[b].pc = "idle" /\ plan'[b] = plan[b]
        BY <1>1 DEF PlannerStep, Archive, SaveBegin, SaveCommit, PlanFails, historyVars
    <2>2. ASSUME NEW type \in Types, Archive(a, type)
          PROVE  Serial'
        <3>1. plan'[a].pc = "archived" /\ plan'[a].type = type
            BY <2>2 DEF Archive, Run
        <3>2. \A i \in Plans : strategy'[i] = "active" => kind'[i] # type
            BY <2>2 DEF Archive, Outdated
        <3> QED BY <2>1, <3>1, <3>2
    <2>3. ASSUME NEW new \in SUBSET Tasks, SaveBegin(a, new)
          PROVE  Serial'
        <3>1. /\ plan[a].pc = "archived" /\ plan'[a].type = plan[a].type
              /\ plan'[a].new = new
              /\ new \cap Deals # {} => plan'[a].old = Pending
            BY <2>3 DEF SaveBegin, Run, Replaced
        <3>2. UNCHANGED <<strategy, kind, status, overlapped>>
            BY <2>3 DEF SaveBegin, historyVars
        <3> QED BY <2>1, <3>1, <3>2 DEF Pending
    <2>4. CASE SaveCommit(a) \/ PlanFails(a)
        <3>1. plan'[a].pc = "idle"
            BY <2>4 DEF SaveCommit, PlanFails, NoRun, Run
        <3> QED BY <2>1, <3>1
    <2> QED BY <1>1, <2>2, <2>3, <2>4 DEF PlannerStep
<1>2. ASSUME NEW w \in Workers, WorkerStep(w)
      PROVE  Serial'
    <2>1. UNCHANGED <<planVars, overlapped>> /\ Pending' \subseteq Pending
        BY <1>2, WorkerFrame DEF IInv, Pending
    <2> QED BY <2>1 DEF IInv, Serial, planVars
<1>3. CASE Tick \/ UNCHANGED vars
    BY <1>3, TimeFrame DEF IInv, Serial, Pending, planVars, historyVars
<1> QED BY <1>1, <1>2, <1>3 DEF Next

\* A plan with deal slots replaces every pending slot.
LEMMA OneDealPlanStep == IInv /\ [Next]_vars => OneDealPlan'
<1> SUFFICES ASSUME IInv, [Next]_vars PROVE OneDealPlan'
    OBVIOUS
<1>1. ASSUME NEW a \in Planners, SaveCommit(a)
      PROVE  OneDealPlan'
    <2> USE DEF IInv, TypeOK
    <2> SUFFICES ASSUME ~overlapped' PROVE OneDealPlan'
        BY DEF OneDealPlan
    <2>1. ~overlapped
        BY <1>1 DEF SaveCommit, historyVars
    <2>2. \A t \in Tasks : t \in Pending' <=> t \in plan[a].new \/ t \in Pending \ plan[a].old
        BY <1>1 DEF SaveCommit, Pending
    <2>3. \A t \in Tasks : owner'[t] = IF t \in plan[a].new THEN plan[a].id ELSE owner[t]
        BY <1>1 DEF SaveCommit
    <2>4. CASE plan[a].new \cap Deals # {}
        <3>1. Pending \subseteq plan[a].old
            BY <1>1, <2>1, <2>4 DEF SaveCommit, Serial
        <3> QED BY <2>2, <2>3, <3>1 DEF OneDealPlan, Pending
    <2>5. CASE plan[a].new \cap Deals = {}
        BY <2>1, <2>2, <2>3, <2>5 DEF OneDealPlan, Pending
    <2> QED BY <2>4, <2>5
<1>2. ASSUME owner' = owner, Pending' \subseteq Pending, ~overlapped' => ~overlapped
      PROVE  OneDealPlan'
    BY <1>2 DEF IInv, OneDealPlan
<1>3. ASSUME NEW a \in Planners,
             (\E type \in Types : Archive(a, type)) \/ (\E new \in SUBSET Tasks : SaveBegin(a, new))
                \/ PlanFails(a)
      PROVE  OneDealPlan'
    BY <1>2, <1>3 DEF Archive, SaveBegin, PlanFails, historyVars, Pending
<1>4. ASSUME NEW w \in Workers, WorkerStep(w)
      PROVE  OneDealPlan'
    <2>1. UNCHANGED <<planVars, overlapped>> /\ Pending' \subseteq Pending
        BY <1>4, WorkerFrame DEF IInv, Pending
    <2> QED BY <1>2, <2>1 DEF planVars
<1>5. CASE Tick \/ UNCHANGED vars
    BY <1>2, <1>5, TimeFrame DEF planVars, historyVars, Pending
<1> QED BY <1>1, <1>3, <1>4, <1>5 DEF Next, PlannerStep

\* A plan becomes active only where its type was archived.
LEMMA OneActivePlanPerTypeStep == IInv /\ [Next]_vars => OneActivePlanPerType'
<1> SUFFICES ASSUME IInv, [Next]_vars PROVE OneActivePlanPerType'
    OBVIOUS
<1>1. ASSUME NEW a \in Planners, SaveCommit(a)
      PROVE  OneActivePlanPerType'
    <2> USE DEF IInv, TypeOK
    <2> SUFFICES ASSUME ~overlapped' PROVE OneActivePlanPerType'
        BY DEF OneActivePlanPerType
    <2>1. ~overlapped /\ plan[a].pc # "idle"
        BY <1>1 DEF SaveCommit, historyVars
    <2>2. \A i \in Plans : strategy[i] = "active" => kind[i] # plan[a].type
        BY <2>1 DEF Serial
    <2>3. \A i \in Plans : i # plan[a].id => strategy'[i] = strategy[i] /\ kind'[i] = kind[i]
        BY <1>1 DEF SaveCommit
    <2>4. plan[a].id \in Plans => kind'[plan[a].id] = plan[a].type
        BY <1>1 DEF SaveCommit
    <2> QED BY <2>1, <2>2, <2>3, <2>4 DEF OneActivePlanPerType
<1>2. ASSUME kind' = kind, ~overlapped' => ~overlapped,
             \A i \in Plans : strategy'[i] = "active" => strategy[i] = "active"
      PROVE  OneActivePlanPerType'
    BY <1>2 DEF IInv, OneActivePlanPerType
<1>3. ASSUME NEW a \in Planners, NEW type \in Types, Archive(a, type)
      PROVE  OneActivePlanPerType'
    BY <1>2, <1>3 DEF Archive, Outdated
<1>4. ASSUME NEW a \in Planners, (\E new \in SUBSET Tasks : SaveBegin(a, new)) \/ PlanFails(a)
      PROVE  OneActivePlanPerType'
    BY <1>2, <1>4 DEF SaveBegin, PlanFails, historyVars
<1>5. ASSUME NEW w \in Workers, WorkerStep(w)
      PROVE  OneActivePlanPerType'
    BY <1>2, <1>5, WorkerFrame DEF IInv, planVars
<1>6. CASE Tick \/ UNCHANGED vars
    BY <1>2, <1>6, TimeFrame DEF planVars, historyVars
<1> QED BY <1>1, <1>3, <1>4, <1>5, <1>6 DEF Next, PlannerStep

-----------------------------------------------------------------------------
(***************************************************************************)
(* The theorems.                                                           *)
(***************************************************************************)

\* IInv holds in every reachable state.
THEOREM Invariance == Spec => []IInv
<1>1. IInv /\ [Next]_vars => IInv'
    BY TypeStep, ListsStep, TransactionsStep, PostedStep, AccountsStep, SerialStep,
       OneDealPlanStep, OneActivePlanPerTypeStep DEF IInv
<1> QED BY <1>1, InitIInv, PTL DEF Spec

\* Every reachable state is well typed.
THEOREM TypeCorrect == Spec => []TypeOK
<1>1. IInv => TypeOK
    BY DEF IInv
<1> QED BY <1>1, Invariance, PTL

\* A dispatcher or onboarding run queues a second post for a slot only after it left
\* one of its own unmarked, or began a list with the slot again.
THEOREM OnePost == Spec => []OnePostPerHandling
<1>1. IInv => OnePostPerHandling
    BY DEF IInv, Accounts, OnePostPerHandling
<1> QED BY <1>1, Invariance, PTL

\* With one scheduler process the executor does not double-fire as long as every post was
\* followed by its mark and no list was begun again: a second dispatcher, a lost mark or a
\* restarted list is what it takes (tools/strategy.py:884-886, scheduler/jobs.py:284-330).
THEOREM FiresOnce ==
    ASSUME \A v, w \in Dispatchers : v = w
    PROVE  Spec => []((\A w \in Dispatchers, t \in Deals :
                            unmarked[w][t] = 0 /\ restarted[w][t] = 0)
                       => NeverDoubleFires)
<1>1. ASSUME OnePostPerHandling, TypeOK,
             \A w \in Dispatchers, t \in Deals : unmarked[w][t] = 0 /\ restarted[w][t] = 0
      PROVE  NeverDoubleFires
    <2>1. \A w \in Dispatchers, t \in Deals : w \in Workers /\ t \in Tasks
        BY SlotDispatchAssumption DEF Workers
    <2>2. ASSUME NEW w \in Dispatchers, NEW t \in Deals
          PROVE  firedBy[w][t] <= 1
        BY <1>1, <2>1 DEF OnePostPerHandling
    <2> QED BY <2>2 DEF NeverDoubleFires
<1> DEFINE Marked == \A w \in Dispatchers, t \in Deals :
                        unmarked[w][t] = 0 /\ restarted[w][t] = 0
<1>2. OnePostPerHandling /\ TypeOK => (Marked => NeverDoubleFires)
    BY <1>1
<1> HIDE DEF Marked
<1>3. Spec => [](Marked => NeverDoubleFires)
    BY <1>2, OnePost, TypeCorrect, PTL
<1> QED BY <1>3 DEF Marked

\* Planners that do not overlap leave the deal slots of one plan only.
THEOREM DealPlan == Spec => []OneDealPlan
<1>1. IInv => OneDealPlan
    BY DEF IInv
<1> QED BY <1>1, Invariance, PTL

\* Planners that do not overlap leave at most one active strategy of a type.
THEOREM ActivePlan == Spec => []OneActivePlanPerType
<1>1. IInv => OneActivePlanPerType
    BY DEF IInv
<1> QED BY <1>1, Invariance, PTL

\* The steps of the mapped state that SlotLedger allows.
LEMMA LedgerStep == IInv /\ [Next]_vars => [Ledger!Next]_(Ledger!vars)
<1> SUFFICES ASSUME IInv, [Next]_vars PROVE [Ledger!Next]_(Ledger!vars)
    OBVIOUS
<1> DEFINE planned == {t \in Tasks : status[t] # "absent"}
           fired == {t \in Tasks : Fired(t)}
           generated == {t \in Tasks : status[t] = "generated"}
           dropped == {t \in Tasks : status[t] = "deleted"}
<1>1. ASSUME NEW a \in Planners, SaveCommit(a)
      PROVE  \E new, old \in SUBSET Tasks : Ledger!Replan(new, old)
    <2> DEFINE new == plan[a].new
               old == plan[a].old
    <2> USE DEF IInv, TypeOK, Transactions
    <2>1. new \in SUBSET Tasks /\ old \in SUBSET Tasks
        OBVIOUS
    <2>2. new \cap planned = {} /\ old \cap generated = {}
        OBVIOUS
    <2>3. \A t \in Tasks : status'[t] = IF t \in new THEN "pending"
                                        ELSE IF t \in old THEN "deleted" ELSE status[t]
        BY <1>1 DEF SaveCommit
    <2>4. new \cap old = {}
        OBVIOUS
    <2>5. planned' = planned \cup new
        BY <2>1, <2>3, <2>4
    <2>6. dropped' = dropped \cup old
        BY <2>1, <2>2, <2>3, <2>4
    <2>7. generated' = generated
        BY <2>2, <2>3
    <2>8. fired' = fired
        BY <1>1 DEF SaveCommit, historyVars, Fired
    <2> HIDE DEF IInv, TypeOK, Transactions
    <2>9. PICK m \in SUBSET Tasks, n \in SUBSET Tasks : m = new /\ n = old
        BY <2>1
    <2>10. Ledger!Replan(m, n)
        BY <2>2, <2>5, <2>6, <2>7, <2>8, <2>9 DEF Ledger!Replan
    <2> QED BY <2>10
<1>2. ASSUME NEW w \in Workers, NEW t \in Tasks, QueuePost(w, t)
      PROVE  Ledger!Fire(t)
    <2> USE DEF IInv, TypeOK
    <2>1. t \in planned \ dropped
        BY <1>2 DEF QueuePost
    <2>2. UNCHANGED status
        BY <1>2 DEF QueuePost
    <2>3. /\ firedBy'[w][t] = firedBy[w][t] + 1 /\ firedBy[w][t] \in Nat
          /\ \A v \in Workers, u \in Tasks :
                v # w \/ u # t => firedBy'[v][u] = firedBy[v][u]
        BY <1>2, FiredCounts DEF QueuePost, Counters
    <2>4. \A u \in Tasks : Fired(u)' <=> Fired(u) \/ u = t
        <3>1. firedBy'[w][t] > 0
            BY <2>3
        <3>2. \A v \in Workers, u \in Tasks : u # t => firedBy'[v][u] = firedBy[v][u]
            BY <2>3
        <3> QED BY <3>1, <3>2 DEF Fired
    <2>5. fired' = fired \cup {t}
        BY <2>4
    <2> QED BY <2>1, <2>2, <2>5 DEF Ledger!Fire
<1>3. ASSUME NEW w \in Workers, Mark(w)
      PROVE  (\E t \in Tasks : Ledger!Finish(t)) \/ UNCHANGED <<status, firedBy>>
    <2> USE DEF IInv, TypeOK
    <2>1. PICK t \in Tasks : t = cur[w]
        BY <1>3 DEF Mark, Lists
    <2>2. firedBy' = firedBy
        BY <1>3 DEF Mark, historyVars
    <2>3. /\ status'[t] = IF status[t] = "deleted" THEN "deleted" ELSE "generated"
          /\ \A u \in Tasks : u # t => status'[u] = status[u]
        BY <1>3, <2>1 DEF Mark
    <2>4. Fired(t) /\ status[t] # "absent"
        BY <1>3, <2>1 DEF Mark, Posted, Fired
    <2>5. CASE status[t] = "deleted"
        <3>1. \A u \in Tasks : status'[u] = status[u]
            BY <2>3, <2>5
        <3>2. status' = status
            BY <1>3, <3>1 DEF Mark
        <3> QED BY <2>2, <3>2
    <2>6. CASE status[t] # "deleted"
        <3>1. generated' = generated \cup {t}
            BY <2>3, <2>6
        <3>2. planned' = planned /\ dropped' = dropped
            BY <2>3, <2>4, <2>6
        <3>3. fired' = fired
            BY <2>2 DEF Fired
        <3>4. t \in fired \ dropped
            BY <2>4, <2>6
        <3> HIDE DEF IInv, TypeOK
        <3>5. Ledger!Finish(t)
            BY <3>1, <3>2, <3>3, <3>4 DEF Ledger!Finish
        <3> QED BY <3>5
    <2> QED BY <2>5, <2>6
<1>4. CASE UNCHANGED <<status, firedBy>>
    BY <1>4 DEF Ledger!vars, Fired
<1>5. ASSUME NEW a \in Planners,
             (\E type \in Types : Archive(a, type)) \/ (\E new \in SUBSET Tasks : SaveBegin(a, new))
                \/ PlanFails(a)
      PROVE  UNCHANGED <<status, firedBy>>
    BY <1>5 DEF Archive, SaveBegin, PlanFails, historyVars
<1>6. ASSUME NEW w \in Workers,
             \/ ReadDue(w) \/ ReadToday(w) \/ (\E t \in Tasks : FindsNothing(w, t))
             \/ Abandon(w) \/ MarkFails(w) \/ CloseFails(w) \/ EndBatch(w) \/ Crash(w)
      PROVE  UNCHANGED <<status, firedBy>>
    BY <1>6 DEF ReadDue, ReadToday, FindsNothing, Abandon, MarkFails, CloseFails, EndBatch,
                Crash, historyVars
<1>7. CASE Tick \/ UNCHANGED vars
    BY <1>4, <1>7, TimeFrame DEF historyVars
<1>8. CASE \E a \in Planners : PlannerStep(a)
    <2> PICK a \in Planners : PlannerStep(a)
        BY <1>8
    <2>1. CASE SaveCommit(a)
        BY <1>1, <2>1 DEF Ledger!Next
    <2>2. CASE ~SaveCommit(a)
        BY <1>4, <1>5, <2>2 DEF PlannerStep
    <2> QED BY <2>1, <2>2
<1>9. CASE \E w \in Workers : WorkerStep(w)
    <2> PICK w \in Workers : WorkerStep(w)
        BY <1>9
    <2>1. CASE \E t \in Tasks : QueuePost(w, t)
        BY <1>2, <2>1 DEF Ledger!Next
    <2>2. CASE Mark(w)
        BY <1>3, <1>4, <2>2 DEF Ledger!Next
    <2>3. CASE ~Mark(w) /\ ~\E t \in Tasks : QueuePost(w, t)
        BY <1>4, <1>6, <2>3 DEF WorkerStep
    <2> QED BY <2>1, <2>2, <2>3
<1> QED BY <1>7, <1>8, <1>9 DEF Next

\* Planning and dispatching keep the promise of SlotLedger.
THEOREM Refinement == Spec => KeepsLedger
<1>1. Init => Ledger!Init
    BY DEF Init, None, Ledger!Init, Fired
<1> QED BY <1>1, LedgerStep, Invariance, PTL DEF Spec, KeepsLedger, Ledger!Spec
=============================================================================
