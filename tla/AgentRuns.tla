------------------------------- MODULE AgentRuns -------------------------------
(***************************************************************************)
(* Running agents for one channel.                                         *)
(*                                                                         *)
(*   - The api process starts an agent by hand as an asyncio task and      *)
(*     keeps the task in _active_tasks under the agent's short name, so    *)
(*     that a second start is refused and the task can be cancelled        *)
(*     (api/routers/review.py).  Onboarding is such a task too, made of    *)
(*     several agents.                                                     *)
(*   - Both schedulers start agents without registering them.              *)
(*   - Every agent inserts a row of agent_runs when it begins and updates  *)
(*     it when it ends (agents/base.py, tools/shared.py).  Cancelling an   *)
(*     agent, and starting the api, close rows that others have left open. *)
(*                                                                         *)
(* A step is what runs between two awaits that reach the database or       *)
(* Telegram.  asyncio delivers a cancellation at the await a task is       *)
(* suspended at; if that is a commit, the commit may still take place.     *)
(***************************************************************************)
EXTENDS Naturals, Sequences

CONSTANTS
    Runs,        \* asyncio tasks that run agents
    Keys,        \* short names: what can be started and cancelled by hand
    Cycles,      \* what schedulers start
    AgentName,   \* values of agent_runs.agent
    Pipeline,    \* [Keys and Cycles -> Seq(AgentName)]: the agents they run
    FullName,    \* [Keys -> AgentName], or NoAgent for a key that is not the
                 \* name of one agent ("onboard")
    Telegram,    \* what opens a Telegram session before its first agent
    NoAgent,
    NoRun,
    NoKind,
    MaxStages,   \* length of the longest pipeline
    MaxFaults    \* bound: restarts and failed commits

Kinds == Keys \cup Cycles

Stages == 1 .. MaxStages

ASSUME AgentRunsAssumption ==
    /\ NoRun \notin Runs
    /\ NoKind \notin Kinds
    /\ Keys \cap Cycles = {}
    /\ MaxStages \in Nat
    /\ Pipeline \in [Kinds -> Seq(AgentName)]
    /\ \A k \in Kinds : Len(Pipeline[k]) \in Stages
    /\ NoAgent \notin AgentName
    /\ FullName \in [Keys -> AgentName \cup {NoAgent}]
    /\ \A k \in Keys : FullName[k] # NoAgent => Pipeline[k] = <<FullName[k]>>
    /\ Telegram \subseteq Kinds
    /\ MaxFaults \in Nat

VARIABLES
    registry,    \* _active_tasks
    kind,        \* what a run runs
    proc,        \* the process it runs in
    pc,          \* where it is
    stage,       \* the agent of its pipeline it is at
    cancelled,   \* task.cancel() has been called
    clearing,    \* keys whose cancel request has yet to update agent_runs
    row,         \* agent_runs.status and error, by run and stage
    faults,      \* faults so far
    (* history *)
    dropped,     \* runs whose process died or that failed to write their report
    overlapped   \* a run began while a cancelled one of its key was unwinding

taskVars == <<kind, proc, pc, stage, cancelled>>
vars == <<registry, taskVars, clearing, row, faults, dropped, overlapped>>

Statuses == {"none", "running", "completed", "failed"}

Errors == {"none", "own", "cancelled", "interrupted"}

Entry(status, error) == [status |-> status, error |-> error]

TypeOK ==
    /\ registry \in [Keys -> Runs \cup {NoRun}]
    /\ kind \in [Runs -> Kinds \cup {NoKind}]
    /\ proc \in [Runs -> {"api", "scheduler"}]
    /\ pc \in [Runs -> {"new", "insert", "execute", "close", "ended"}]
    /\ stage \in [Runs -> Stages \cup {0}]
    /\ cancelled \in [Runs -> BOOLEAN]
    /\ clearing \in SUBSET Keys
    /\ row \in [Runs -> [Stages -> [status : Statuses, error : Errors]]]
    /\ faults \in Nat
    /\ dropped \in SUBSET Runs
    /\ overlapped \in BOOLEAN

Init ==
    /\ registry = [k \in Keys |-> NoRun]
    /\ kind = [r \in Runs |-> NoKind]
    /\ proc = [r \in Runs |-> "api"]
    /\ pc = [r \in Runs |-> "new"]
    /\ stage = [r \in Runs |-> 0]
    /\ cancelled = [r \in Runs |-> FALSE]
    /\ clearing = {}
    /\ row = [r \in Runs |-> [i \in Stages |-> Entry("none", "none")]]
    /\ faults = 0
    /\ dropped = {}
    /\ overlapped = FALSE

Live(r) == pc[r] \in {"insert", "execute", "close"}

Fault ==
    /\ faults < MaxFaults
    /\ faults' = faults + 1

-----------------------------------------------------------------------------
(***************************************************************************)
(* Starting.                                                               *)
(***************************************************************************)
Begin(r, k, p) ==
    /\ pc[r] = "new"
    /\ kind' = [kind EXCEPT ![r] = k]
    /\ proc' = [proc EXCEPT ![r] = p]
    /\ pc' = [pc EXCEPT ![r] = "insert"]
    /\ stage' = [stage EXCEPT ![r] = 1]
    /\ UNCHANGED <<cancelled, clearing, row, faults, dropped>>

\* Variant: the guard of the endpoint is gone.
FreeAlways(k) == TRUE

\* No task is registered, or the one that is has ended.
Free(k) == registry[k] \notin {r \in Runs : Live(r)}

\* POST agents/run; "already_running" changes nothing.
Start(r, k) ==
    /\ Free(k)
    /\ Begin(r, k, "api")
    /\ registry' = [registry EXCEPT ![k] = r]
    /\ overlapped' = (overlapped \/ \E q \in Runs : kind[q] = k /\ Live(q) /\ cancelled[q])

\* A cron job of either process.
StartCycle(r, c, p) ==
    /\ Begin(r, c, p)
    /\ UNCHANGED <<registry, overlapped>>

-----------------------------------------------------------------------------
(***************************************************************************)
(* BaseAgent.run for one agent after the other.  In a pipeline each run is *)
(* wrapped in _safe: whatever becomes of it, the next one follows.         *)
(***************************************************************************)
\* Variant: one agent too many.
ProceedTooFar(r) ==
    IF cancelled[r] \/ stage[r] > Len(Pipeline[kind[r]])
    THEN /\ pc' = [pc EXCEPT ![r] = "close"]
         /\ UNCHANGED stage
    ELSE /\ pc' = [pc EXCEPT ![r] = "insert"]
         /\ stage' = [stage EXCEPT ![r] = @ + 1]

Proceed(r) ==
    IF cancelled[r] \/ stage[r] = Len(Pipeline[kind[r]])
    THEN /\ pc' = [pc EXCEPT ![r] = "close"]
         /\ UNCHANGED stage
    ELSE /\ pc' = [pc EXCEPT ![r] = "insert"]
         /\ stage' = [stage EXCEPT ![r] = @ + 1]

\* The session cannot be opened (or the channel is gone): the run ends before any agent.
CannotOpen(r) ==
    /\ pc[r] = "insert"
    /\ stage[r] = 1
    /\ kind[r] \in Telegram
    /\ pc' = [pc EXCEPT ![r] = "close"]
    /\ UNCHANGED <<registry, kind, proc, stage, cancelled, clearing, row, faults,
                   dropped, overlapped>>

\* _before_run: log_agent_run inserts the row.  A cancelled task may be suspended at
\* this commit.
Insert(r) ==
    /\ pc[r] = "insert"
    /\ row' = [row EXCEPT ![r][stage[r]] = Entry("running", "none")]
    /\ pc' = [pc EXCEPT ![r] = IF cancelled[r] THEN "close" ELSE "execute"]
    /\ UNCHANGED <<registry, kind, proc, stage, cancelled, clearing, faults,
                   dropped, overlapped>>

InsertFails(r) ==
    /\ pc[r] = "insert"
    /\ Fault
    /\ Proceed(r)
    /\ UNCHANGED <<registry, kind, proc, cancelled, clearing, row, dropped,
                   overlapped>>

\* Variant: only failures are written.
VerdictIfFailed(e, s) == IF s = "completed" THEN e ELSE Entry(s, "own")

\* log_agent_run on an existing row: an absent error leaves the old one.
Verdict(e, s) == IF s = "completed" THEN [e EXCEPT !.status = s] ELSE Entry(s, "own")

\* _after_run, whatever the row says by now.
Report(r) ==
    /\ pc[r] = "execute"
    /\ \E s \in {"completed", "failed"} :
        row' = [row EXCEPT ![r][stage[r]] = Verdict(@, s)]
    /\ Proceed(r)
    /\ UNCHANGED <<registry, kind, proc, cancelled, clearing, faults, dropped,
                   overlapped>>

ReportFails(r) ==
    /\ pc[r] = "execute"
    /\ Fault
    /\ dropped' = dropped \cup {r}
    /\ Proceed(r)
    /\ UNCHANGED <<registry, kind, proc, cancelled, clearing, row, overlapped>>

\* CancelledError is not an Exception: nothing on the way up catches it.
Interrupt(r) ==
    /\ cancelled[r]
    /\ pc[r] \in {"insert", "execute"}
    /\ pc' = [pc EXCEPT ![r] = "close"]
    /\ UNCHANGED <<registry, kind, proc, stage, cancelled, clearing, row, faults,
                   dropped, overlapped>>

\* The Telegram session is closed and the task ends; one started by hand removes what
\* is registered under its key.
Close(r) ==
    /\ pc[r] = "close"
    /\ pc' = [pc EXCEPT ![r] = "ended"]
    /\ registry' = [k \in Keys |-> IF k = kind[r] THEN NoRun ELSE registry[k]]
    /\ UNCHANGED <<kind, proc, stage, cancelled, clearing, row, faults, dropped,
                   overlapped>>

-----------------------------------------------------------------------------
(***************************************************************************)
(* Cancelling, and restarts.                                               *)
(***************************************************************************)

\* POST agents/cancel takes the task out of the registry and cancels it.  One request
\* per key is at work at a time.
Cancel(k) ==
    /\ k \notin clearing
    /\ cancelled' = [r \in Runs |-> cancelled[r] \/ (r = registry[k] /\ Live(r))]
    /\ registry' = [registry EXCEPT ![k] = NoRun]
    /\ clearing' = clearing \cup {k}
    /\ UNCHANGED <<kind, proc, pc, stage, row, faults, dropped, overlapped>>

\* Variant: without the status filter.
OpenOrDone(r, i) == row[r][i].status \in {"running", "completed"}

IsOpen(r, i) == row[r][i].status = "running"

\* The open rows of the agents A become failed.
FailOpen(A, error) ==
    row' = [r \in Runs |-> [i \in Stages |->
        IF IsOpen(r, i) /\ Pipeline[kind[r]][i] \in A THEN Entry("failed", error)
                                                       ELSE row[r][i]]]

\* The second half of the request: every open row of the agent is closed, whoever
\* runs it.  AgentName("onboard") raises and is swallowed.
Clear(k) ==
    /\ k \in clearing
    /\ clearing' = clearing \ {k}
    /\ IF FullName[k] = NoAgent THEN UNCHANGED row ELSE FailOpen({FullName[k]}, "cancelled")
    /\ UNCHANGED <<registry, taskVars, faults, dropped, overlapped>>

ClearFails(k) ==
    /\ k \in clearing
    /\ Fault
    /\ clearing' = clearing \ {k}
    /\ UNCHANGED <<registry, taskVars, row, dropped, overlapped>>

\* The tasks of a process vanish.
Kill(p) ==
    LET gone == {r \in Runs : Live(r) /\ proc[r] = p}
    IN  /\ pc' = [r \in Runs |-> IF r \in gone THEN "ended" ELSE pc[r]]
        /\ dropped' = dropped \cup gone

\* The api restarts; _clear_stale_runs closes every open row, or raises and is ignored.
RestartApi ==
    /\ Fault
    /\ Kill("api")
    /\ registry' = [k \in Keys |-> NoRun]
    /\ clearing' = {}
    /\ FailOpen(AgentName, "interrupted") \/ UNCHANGED row
    /\ UNCHANGED <<kind, proc, stage, cancelled, overlapped>>

RestartScheduler ==
    /\ Fault
    /\ Kill("scheduler")
    /\ UNCHANGED <<registry, kind, proc, stage, cancelled, clearing, row,
                   overlapped>>

-----------------------------------------------------------------------------
RunStep(r) ==
    \/ \E k \in Keys : Start(r, k)
    \/ \E c \in Cycles, p \in {"api", "scheduler"} : StartCycle(r, c, p)
    \/ CannotOpen(r)
    \/ Insert(r)
    \/ InsertFails(r)
    \/ Report(r)
    \/ ReportFails(r)
    \/ Interrupt(r)
    \/ Close(r)

CancelStep(k) == Cancel(k) \/ Clear(k) \/ ClearFails(k)

Next ==
    \/ \E r \in Runs : RunStep(r)
    \/ \E k \in Keys : CancelStep(k)
    \/ RestartApi
    \/ RestartScheduler

Spec == Init /\ [][Next]_vars

-----------------------------------------------------------------------------
(***************************************************************************)
(* Properties.                                                             *)
(***************************************************************************)

\* A run started by hand that nobody has cancelled.
Wanted(r) == Live(r) /\ kind[r] \in Keys /\ ~cancelled[r]

Registered(r) == registry[kind[r]] = r

\* Unless a run was started while a cancelled one of the same key was still unwinding,
\* every run started by hand is in the registry until it is over: it can be
\* cancelled, and a second one is refused (api/routers/review.py:46, 103-110, 131).
WantedRunsAreRegistered == ~overlapped => \A r \in Runs : Wanted(r) => Registered(r)

\* "Tracks running agent tasks so they can be cancelled" (api/routers/review.py:20),
\* without the exception: the code does not guarantee it.
RunsCanBeCancelled == \A r \in Runs : Wanted(r) => Registered(r)

Executing(r, i) == pc[r] = "execute" /\ stage[r] = i

\* A row says "running" only while its agent runs, unless the run was cancelled, its
\* process died or its report was lost; the row of an agent that runs says so unless
\* a cancel request or a start of the api closed it; and an agent's own error is
\* never on a row that says "completed" (agents/base.py:28-50,
\* tools/shared.py:151-181).
RowsTellTheTruth ==
    \A r \in Runs, i \in Stages :
        /\ IsOpen(r, i) => Executing(r, i) \/ cancelled[r] \/ r \in dropped
        /\ Executing(r, i) => IsOpen(r, i) \/ row[r][i].error \in {"cancelled", "interrupted"}
        /\ row[r][i].status = "completed" => row[r][i].error # "own"

\* The abstract state: the status of each row.
Log == INSTANCE AuditLog WITH
    Entries <- Runs \X Stages,
    status  <- [e \in Runs \X Stages |-> row[e[1]][e[2]].status]

\* The runs, the cancel requests and the restarts together keep the promise of
\* AuditLog: "completed" is never taken back (tools/shared.py:151-181,
\* api/routers/review.py:144-157, api/main.py:59-67).
KeepsLog == Log!Spec
=============================================================================
