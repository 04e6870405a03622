--------------------------- MODULE Agents_proofs ----------------------------
(***************************************************************************)
(* Proofs about runs of agents: AgentRuns, how they are registered and     *)
(* logged, Content, what those of the Content Agent do, and both together. *)
(***************************************************************************)
EXTENDS AgentParts, Order_proofs, TLAPS

-----------------------------------------------------------------------------
(***************************************************************************)
(* Proofs about AgentRuns, for any tasks, keys, pipelines and bounds.      *)
(*                                                                         *)
(* RunsInv is the inductive invariant: who is registered is alive and not  *)
(* cancelled; until runs overlap, a key has either wanted runs or runs     *)
(* that unwind; and a row is blank until its run reaches it.               *)
(***************************************************************************)
\* A registered run is alive, of that key, and not cancelled.
Registry ==
    \A k \in Keys, r \in Runs :
        registry[k] = r => Live(r) /\ kind[r] = k /\ ~cancelled[r]

\* Until runs overlap, no run is wanted while one of its key unwinds, and every
\* wanted run is registered.
Unwinding ==
    ~overlapped =>
        /\ \A q, r \in Runs :
            Live(q) /\ cancelled[q] /\ kind[q] = kind[r] => ~Wanted(r)
        /\ \A r \in Runs : Wanted(r) => Registered(r)

\* A run is at an agent of its pipeline, and what is started by hand runs in the api.
Progress ==
    \A r \in Runs :
        /\ pc[r] = "new" => stage[r] = 0 /\ ~cancelled[r]
        /\ pc[r] # "new" => kind[r] \in Kinds /\ stage[r] \in 1 .. Len(Pipeline[kind[r]])
        /\ Live(r) /\ kind[r] \in Keys => proc[r] = "api"

\* Row i of r has not been inserted yet.
Blank(r, i) == stage[r] < i \/ (stage[r] = i /\ pc[r] = "insert")

\* What the row of an agent in progress can say.
Sound(e) ==
    \/ e = Entry("running", "none")
    \/ e.status = "failed" /\ e.error \in {"cancelled", "interrupted"}

\* What a row says, by where its run is.
Rows ==
    \A r \in Runs, i \in Stages :
        /\ Blank(r, i) => row[r][i] = Entry("none", "none")
        /\ Executing(r, i) => Sound(row[r][i])
        /\ IsOpen(r, i) => Executing(r, i) \/ cancelled[r] \/ r \in dropped
        /\ row[r][i].status = "completed" => row[r][i].error # "own"

RunsInv ==
    /\ TypeOK
    /\ Registry
    /\ Unwinding
    /\ Progress
    /\ Rows

-----------------------------------------------------------------------------
(***************************************************************************)
(* Lemmas about the operators.                                             *)
(***************************************************************************)

\* Proceeding moves one run to its next agent, or to its end.
LEMMA ProceedMoves ==
    ASSUME TypeOK, Progress, NEW r \in Runs, Live(r), Proceed(r)
    PROVE  /\ pc' \in [Runs -> {"new", "insert", "execute", "close", "ended"}]
           /\ stage' \in [Runs -> Stages \cup {0}]
           /\ \A q \in Runs \ {r} : pc'[q] = pc[q] /\ stage'[q] = stage[q]
           /\ \/ pc'[r] = "close" /\ stage'[r] = stage[r]
              \/ pc'[r] = "insert" /\ stage'[r] = stage[r] + 1
           /\ stage'[r] \in 1 .. Len(Pipeline[kind[r]])
<1>1. kind[r] \in Kinds /\ stage[r] \in 1 .. Len(Pipeline[kind[r]])
    BY DEF Progress, Live, TypeOK
<1>2. Len(Pipeline[kind[r]]) \in Stages
    BY <1>1, AgentRunsAssumption
<1>3. CASE cancelled[r] \/ stage[r] = Len(Pipeline[kind[r]])
    BY <1>1, <1>3 DEF Proceed, TypeOK
<1>4. CASE ~(cancelled[r] \/ stage[r] = Len(Pipeline[kind[r]]))
    <2>1. stage[r] + 1 \in 1 .. Len(Pipeline[kind[r]])
        BY <1>1, <1>2, <1>4 DEF Stages
    <2>2. stage[r] + 1 \in Stages
        BY <1>2, <2>1, AgentRunsAssumption DEF Stages
    <2> QED BY <1>4, <2>1, <2>2 DEF Proceed, TypeOK
<1> QED BY <1>3, <1>4

\* A sweep changes open rows only, and closes them.
LEMMA FailOpenCloses ==
    ASSUME TypeOK, NEW A, NEW error \in {"cancelled", "interrupted"}, FailOpen(A, error)
    PROVE  /\ row' \in [Runs -> [Stages -> [status : Statuses, error : Errors]]]
           /\ \A r \in Runs, i \in Stages :
                row'[r][i] = row[r][i]
                \/ (IsOpen(r, i) /\ row'[r][i] = Entry("failed", error))
<1>1. \A r \in Runs, i \in Stages :
        row'[r][i] = row[r][i] \/ (IsOpen(r, i) /\ row'[r][i] = Entry("failed", error))
    BY DEF FailOpen
<1>2. Entry("failed", error) \in [status : Statuses, error : Errors]
    BY DEF Entry, Statuses, Errors
<1>3. \A r \in Runs, i \in Stages : row'[r][i] \in [status : Statuses, error : Errors]
    BY <1>1, <1>2 DEF TypeOK
<1>4. row' \in [Runs -> [Stages -> [status : Statuses, error : Errors]]]
    BY <1>3 DEF FailOpen
<1> QED BY <1>1, <1>4

\* A restart ends the runs of one process and changes no other.
LEMMA KillEnds ==
    ASSUME TypeOK, NEW p, Kill(p)
    PROVE  /\ pc' \in [Runs -> {"new", "insert", "execute", "close", "ended"}]
           /\ dropped' \in SUBSET Runs
           /\ dropped \subseteq dropped'
           /\ \A r \in Runs :
                IF Live(r) /\ proc[r] = p THEN pc'[r] = "ended" /\ r \in dropped'
                                          ELSE pc'[r] = pc[r]
BY DEF Kill, TypeOK

-----------------------------------------------------------------------------
(***************************************************************************)
(* Types and progress.                                                     *)
(***************************************************************************)

\* The verdict written at the end of a run is a row.
LEMMA VerdictType ==
    ASSUME NEW e \in [status : Statuses, error : Errors], NEW s \in {"completed", "failed"}
    PROVE  Verdict(e, s) \in [status : Statuses, error : Errors]
BY DEF Verdict, Entry, Statuses, Errors

\* Every action keeps the types and leaves runs within their pipelines.
LEMMA TypeStep == TypeOK /\ Progress /\ [Next]_vars => TypeOK' /\ Progress'
<1> SUFFICES ASSUME TypeOK, Progress, [Next]_vars PROVE TypeOK' /\ Progress'
    OBVIOUS
<1> USE AgentRunsAssumption DEF Live
<1>1. ASSUME NEW r \in Runs, NEW k \in Keys, Start(r, k)
      PROVE  TypeOK' /\ Progress'
    BY <1>1 DEF Start, Begin, TypeOK, Progress, Kinds, Stages
<1>2. ASSUME NEW r \in Runs, NEW c \in Cycles, NEW p \in {"api", "scheduler"}, StartCycle(r, c, p)
      PROVE  TypeOK' /\ Progress'
    BY <1>2 DEF StartCycle, Begin, TypeOK, Progress, Kinds, Stages
<1>3. ASSUME NEW r \in Runs, Insert(r)
      PROVE  TypeOK' /\ Progress'
    BY <1>3 DEF Insert, TypeOK, Progress, Entry, Statuses, Errors
<1>4. ASSUME NEW r \in Runs, Live(r), Proceed(r), UNCHANGED <<kind, proc, cancelled>>
      PROVE  Progress'
    BY <1>4, ProceedMoves DEF Progress
<1>5. ASSUME NEW r \in Runs, InsertFails(r)
      PROVE  TypeOK' /\ Progress'
    <2>1. Live(r) /\ Proceed(r) /\ UNCHANGED <<kind, proc, cancelled>>
        BY <1>5 DEF InsertFails
    <2>2. TypeOK'
        BY <1>5, <2>1, ProceedMoves DEF InsertFails, Fault, TypeOK
    <2> QED BY <1>4, <2>1, <2>2
<1>6. ASSUME NEW r \in Runs, Report(r)
      PROVE  TypeOK' /\ Progress'
    <2>1. Live(r) /\ Proceed(r) /\ UNCHANGED <<kind, proc, cancelled>>
        BY <1>6 DEF Report
    <2>2. row' \in [Runs -> [Stages -> [status : Statuses, error : Errors]]]
        <3>1. PICK s \in {"completed", "failed"} :
                row' = [row EXCEPT ![r][stage[r]] = Verdict(@, s)]
            BY <1>6 DEF Report
        <3>2. stage[r] \in Stages
            BY <2>1 DEF Progress, TypeOK, Stages
        <3>3. Verdict(row[r][stage[r]], s) \in [status : Statuses, error : Errors]
            BY <3>2, VerdictType DEF TypeOK
        <3> QED BY <3>1, <3>2, <3>3 DEF TypeOK
    <2>3. TypeOK'
        BY <1>6, <2>1, <2>2, ProceedMoves DEF Report, TypeOK
    <2> QED BY <1>4, <2>1, <2>3
<1>7. ASSUME NEW r \in Runs, ReportFails(r)
      PROVE  TypeOK' /\ Progress'
    <2>1. Live(r) /\ Proceed(r) /\ UNCHANGED <<kind, proc, cancelled>>
        BY <1>7 DEF ReportFails
    <2>2. TypeOK'
        BY <1>7, <2>1, ProceedMoves DEF ReportFails, Fault, TypeOK
    <2> QED BY <1>4, <2>1, <2>2
<1>8. ASSUME NEW r \in Runs, Interrupt(r) \/ CannotOpen(r)
      PROVE  TypeOK' /\ Progress'
    <2>1. /\ pc[r] \in {"insert", "execute"}
          /\ pc' = [pc EXCEPT ![r] = "close"]
          /\ UNCHANGED <<registry, kind, proc, stage, cancelled, clearing, row, faults,
                         dropped, overlapped>>
        BY <1>8 DEF Interrupt, CannotOpen
    <2>2. TypeOK'
        BY <2>1 DEF TypeOK
    <2> QED BY <2>1, <2>2 DEF Progress, TypeOK
<1>9. ASSUME NEW r \in Runs, Close(r)
      PROVE  TypeOK' /\ Progress'
    BY <1>9 DEF Close, TypeOK, Progress
<1>10. ASSUME NEW k \in Keys, Cancel(k)
       PROVE  TypeOK' /\ Progress'
    BY <1>10 DEF Cancel, TypeOK, Progress
<1>11. ASSUME NEW k \in Keys, Clear(k)
       PROVE  TypeOK' /\ Progress'
    <2>1. row' \in [Runs -> [Stages -> [status : Statuses, error : Errors]]]
        BY <1>11, FailOpenCloses DEF Clear, TypeOK
    <2> QED BY <1>11, <2>1 DEF Clear, taskVars, TypeOK, Progress
<1>12. ASSUME NEW k \in Keys, ClearFails(k)
       PROVE  TypeOK' /\ Progress'
    BY <1>12 DEF ClearFails, Fault, taskVars, TypeOK, Progress
<1>13. CASE RestartApi
    <2>1. row' \in [Runs -> [Stages -> [status : Statuses, error : Errors]]]
        BY <1>13, FailOpenCloses DEF RestartApi, TypeOK
    <2>2. TypeOK'
        BY <1>13, <2>1, KillEnds DEF RestartApi, Fault, TypeOK
    <2> QED BY <1>13, <2>2, KillEnds DEF RestartApi, Progress
<1>14. CASE RestartScheduler
    <2>1. TypeOK'
        BY <1>14, KillEnds DEF RestartScheduler, Fault, TypeOK
    <2> QED BY <1>14, <2>1, KillEnds DEF RestartScheduler, Progress
<1>15. CASE UNCHANGED vars
    BY <1>15 DEF vars, taskVars, TypeOK, Progress
<1> QED
    BY <1>1, <1>2, <1>3, <1>5, <1>6, <1>7, <1>8, <1>9, <1>10, <1>11, <1>12, <1>13, <1>14, <1>15
    DEF Next, RunStep, CancelStep

-----------------------------------------------------------------------------
(***************************************************************************)
(* The registry.                                                           *)
(***************************************************************************)

\* What no action but the ends of a run, starts and cancellations can disturb.
LEMMA SameLives ==
    ASSUME Registry, Unwinding, UNCHANGED <<registry, kind, cancelled, overlapped>>,
           \A r \in Runs : Live(r)' <=> Live(r)
    PROVE  Registry' /\ Unwinding'
BY DEF Registry, Unwinding, Wanted, Registered

\* Within a pipeline a run stays alive.
LEMMA ProceedLives ==
    ASSUME TypeOK, Progress, NEW r \in Runs, Live(r), Proceed(r)
    PROVE  \A q \in Runs : Live(q)' <=> Live(q)
BY ProceedMoves DEF Live

\* Every action keeps the registry in order.
LEMMA RegistryStep == TypeOK /\ Progress /\ Registry /\ Unwinding /\ [Next]_vars
                        => Registry' /\ Unwinding'
<1> SUFFICES ASSUME TypeOK, Progress, Registry, Unwinding, [Next]_vars
             PROVE  Registry' /\ Unwinding'
    OBVIOUS
<1> USE AgentRunsAssumption
<1>1. ASSUME NEW r \in Runs, NEW k \in Keys, Start(r, k)
      PROVE  Registry' /\ Unwinding'
    <2>1. \A q \in Runs : registry[k] # q
        BY <1>1 DEF Start, Free, Registry
    <2>2. /\ kind' = [kind EXCEPT ![r] = k]
          /\ registry' = [registry EXCEPT ![k] = r]
          /\ cancelled' = cancelled
          /\ \A q \in Runs : q # r => (Live(q)' <=> Live(q))
          /\ Live(r)' /\ ~Live(r) /\ ~cancelled[r]
        BY <1>1 DEF Start, Begin, Live, TypeOK, Progress
    <2>3. Registry'
        BY <2>1, <2>2 DEF Registry, TypeOK
    <2>4. ASSUME ~overlapped'
          PROVE  ~overlapped /\ \A q \in Runs : ~(kind[q] = k /\ Live(q) /\ cancelled[q])
        BY <1>1, <2>4 DEF Start
    <2>5. ASSUME ~overlapped', NEW q \in Runs, Wanted(q)'
          PROVE  Registered(q)'
        <3>1. CASE q = r
            BY <2>2, <3>1 DEF Registered, TypeOK
        <3>2. CASE q # r
            <4>1. Wanted(q) /\ kind'[q] = kind[q]
                BY <2>2, <2>5, <3>2 DEF Wanted, TypeOK
            <4>2. Registered(q)
                BY <2>4, <2>5, <4>1 DEF Unwinding
            <4>3. kind[q] \in Keys /\ kind[q] # k
                BY <2>1, <4>1, <4>2 DEF Registered, Wanted
            <4> QED BY <2>2, <4>1, <4>2, <4>3 DEF Registered, TypeOK
        <3> QED BY <3>1, <3>2
    <2>6. ASSUME ~overlapped', NEW q \in Runs, NEW w \in Runs,
                 Live(q)', cancelled'[q], kind'[q] = kind'[w]
          PROVE  ~Wanted(w)'
        <3>1. q # r /\ Live(q) /\ cancelled[q] /\ kind'[q] = kind[q]
            BY <2>2, <2>6 DEF TypeOK
        <3>2. kind[q] # k
            BY <2>4, <2>6, <3>1
        <3>3. w # r /\ kind[w] = kind[q]
            BY <2>2, <2>6, <3>1, <3>2 DEF TypeOK
        <3>4. ~Wanted(w)
            BY <2>4, <2>6, <3>1, <3>3 DEF Unwinding
        <3> QED BY <2>2, <3>3, <3>4 DEF Wanted, TypeOK
    <2> QED BY <2>3, <2>5, <2>6 DEF Unwinding
<1>2. ASSUME NEW r \in Runs, NEW c \in Cycles, NEW p \in {"api", "scheduler"}, StartCycle(r, c, p)
      PROVE  Registry' /\ Unwinding'
    <2>1. /\ kind' = [kind EXCEPT ![r] = c]
          /\ UNCHANGED <<registry, cancelled, overlapped>>
          /\ \A q \in Runs : q # r => (Live(q)' <=> Live(q))
          /\ ~Live(r) /\ ~cancelled[r] /\ c \notin Keys
        BY <1>2 DEF StartCycle, Begin, Live, TypeOK, Progress
    <2> QED BY <2>1 DEF Registry, Unwinding, Wanted, Registered, TypeOK
<1>3. ASSUME NEW r \in Runs, Insert(r)
      PROVE  Registry' /\ Unwinding'
    <2>1. \A q \in Runs : Live(q)' <=> Live(q)
        BY <1>3 DEF Insert, Live, TypeOK
    <2> QED BY <1>3, <2>1, SameLives DEF Insert
<1>4. ASSUME NEW r \in Runs, InsertFails(r) \/ Report(r) \/ ReportFails(r)
      PROVE  Registry' /\ Unwinding'
    <2>1. Live(r) /\ Proceed(r) /\ UNCHANGED <<registry, kind, cancelled, overlapped>>
        BY <1>4 DEF InsertFails, Report, ReportFails, Live
    <2> QED BY <2>1, ProceedLives, SameLives
<1>5. ASSUME NEW r \in Runs, Interrupt(r) \/ CannotOpen(r)
      PROVE  Registry' /\ Unwinding'
    <2>1. \A q \in Runs : Live(q)' <=> Live(q)
        BY <1>5 DEF Interrupt, CannotOpen, Live, TypeOK
    <2>2. UNCHANGED <<registry, kind, cancelled, overlapped>>
        BY <1>5 DEF Interrupt, CannotOpen
    <2> QED BY <2>1, <2>2, SameLives
<1>6. ASSUME NEW r \in Runs, Close(r)
      PROVE  Registry' /\ Unwinding'
    <2>1. /\ UNCHANGED <<kind, cancelled, overlapped>>
          /\ registry' = [k \in Keys |-> IF k = kind[r] THEN NoRun ELSE registry[k]]
          /\ \A q \in Runs : q # r => (Live(q)' <=> Live(q))
          /\ Live(r) /\ ~Live(r)'
        BY <1>6 DEF Close, Live, TypeOK
    <2>2. Registry'
        BY <2>1 DEF Registry
    <2>3. ASSUME ~overlapped, NEW q \in Runs, q # r, Wanted(q)
          PROVE  kind[q] # kind[r]
        <3>1. CASE cancelled[r]
            BY <2>1, <2>3, <3>1 DEF Unwinding
        <3>2. CASE ~cancelled[r]
            BY <2>1, <2>3, <3>2 DEF Unwinding, Wanted, Registered
        <3> QED BY <3>1, <3>2
    <2>4. Unwinding'
        BY <2>1, <2>3 DEF Unwinding, Wanted, Registered
    <2> QED BY <2>2, <2>4
<1>7. ASSUME NEW k \in Keys, Cancel(k)
      PROVE  Registry' /\ Unwinding'
    <2>1. /\ UNCHANGED <<kind, overlapped>>
          /\ registry' = [registry EXCEPT ![k] = NoRun]
          /\ \A q \in Runs : cancelled'[q] <=> cancelled[q] \/ (q = registry[k] /\ Live(q))
          /\ \A q \in Runs : Live(q)' <=> Live(q)
        BY <1>7 DEF Cancel, Live, TypeOK
    <2>2. ASSUME NEW j \in Keys, NEW q \in Runs, registry'[j] = q
          PROVE  Live(q)' /\ kind'[q] = j /\ ~cancelled'[q]
        <3>1. j # k /\ registry[j] = q
            BY <2>1, <2>2 DEF TypeOK
        <3>2. Live(q) /\ kind[q] = j /\ ~cancelled[q]
            BY <3>1 DEF Registry
        <3>3. registry[k] # q
            BY <3>1, <3>2 DEF Registry
        <3> QED BY <2>1, <3>2, <3>3
    <2>3. ASSUME ~overlapped, NEW q \in Runs, Wanted(q)'
          PROVE  Registered(q)'
        BY <2>1, <2>3 DEF Unwinding, Wanted, Registered, TypeOK
    <2>4. ASSUME ~overlapped, NEW q \in Runs, NEW w \in Runs,
                 Live(q), cancelled'[q], kind[q] = kind[w]
          PROVE  ~Wanted(w)'
        <3>1. CASE cancelled[q]
            BY <2>1, <2>4, <3>1 DEF Unwinding, Wanted
        <3>2. CASE q = registry[k] /\ Live(q)
            <4>1. kind[w] = k
                BY <2>4, <3>2 DEF Registry
            <4>2. Wanted(w) => w = registry[k]
                BY <2>4, <4>1 DEF Unwinding, Registered
            <4> QED BY <2>1, <4>2 DEF Wanted
        <3> QED BY <2>1, <2>4, <3>1, <3>2
    <2> QED BY <2>1, <2>2, <2>3, <2>4 DEF Registry, Unwinding
<1>8. ASSUME NEW k \in Keys, Clear(k) \/ ClearFails(k)
      PROVE  Registry' /\ Unwinding'
    <2>1. UNCHANGED <<registry, taskVars, overlapped>>
        BY <1>8 DEF Clear, ClearFails
    <2> QED BY <2>1, SameLives DEF taskVars, Live
<1>9. CASE RestartApi
    <2>1. /\ UNCHANGED <<kind, cancelled, overlapped>>
          /\ registry' = [k \in Keys |-> NoRun]
          /\ \A r \in Runs : Live(r)' <=> Live(r) /\ proc[r] # "api"
        BY <1>9, KillEnds DEF RestartApi, Live
    <2>2. \A r \in Runs : ~Wanted(r)'
        BY <2>1 DEF Wanted, Progress
    <2> QED BY <2>1, <2>2 DEF Registry, Unwinding
<1>10. CASE RestartScheduler
    <2>1. /\ UNCHANGED <<registry, kind, cancelled, overlapped>>
          /\ \A r \in Runs : Live(r)' <=> Live(r) /\ proc[r] # "scheduler"
        BY <1>10, KillEnds DEF RestartScheduler, Live
    <2>2. \A r \in Runs : Live(r) /\ kind[r] \in Keys => Live(r)'
        BY <2>1 DEF Progress
    <2> QED BY <2>1, <2>2 DEF Registry, Unwinding, Wanted, Registered
<1>11. CASE UNCHANGED vars
    BY <1>11, SameLives DEF vars, taskVars, Live
<1> QED
    BY <1>1, <1>2, <1>3, <1>4, <1>5, <1>6, <1>7, <1>8, <1>9, <1>10, <1>11
    DEF Next, RunStep, CancelStep

-----------------------------------------------------------------------------
(***************************************************************************)
(* The rows.                                                               *)
(***************************************************************************)

\* The last agent of a pipeline has a row.
LEMMA StageIsRow ==
    ASSUME TypeOK, Progress, NEW r \in Runs, pc[r] # "new"
    PROVE  stage[r] \in Stages
<1>1. kind[r] \in Kinds /\ stage[r] \in 1 .. Len(Pipeline[kind[r]])
    BY DEF Progress
<1> QED BY <1>1, AgentRunsAssumption DEF Stages

\* Rows whose run does not move keep what holds of them, when they stay as they were
\* or are closed by a sweep.
LEMMA OtherRows ==
    ASSUME Rows, TypeOK, NEW r \in Runs,
           UNCHANGED <<pc[r], stage[r]>>, cancelled[r] => cancelled'[r],
           dropped \subseteq dropped',
           \A i \in Stages :
                row'[r][i] = row[r][i]
                \/ (IsOpen(r, i) /\ \E e \in {"cancelled", "interrupted"} :
                                        row'[r][i] = Entry("failed", e))
    PROVE  \A i \in Stages :
        /\ Blank(r, i)' => row'[r][i] = Entry("none", "none")
        /\ Executing(r, i)' => Sound(row'[r][i])
        /\ IsOpen(r, i)' => Executing(r, i)' \/ cancelled'[r] \/ r \in dropped'
        /\ row'[r][i].status = "completed" => row'[r][i].error # "own"
<1> SUFFICES ASSUME NEW i \in Stages
             PROVE  /\ Blank(r, i)' => row'[r][i] = Entry("none", "none")
                    /\ Executing(r, i)' => Sound(row'[r][i])
                    /\ IsOpen(r, i)' => Executing(r, i)' \/ cancelled'[r] \/ r \in dropped'
                    /\ row'[r][i].status = "completed" => row'[r][i].error # "own"
    OBVIOUS
<1>1. (Blank(r, i)' <=> Blank(r, i)) /\ (Executing(r, i)' <=> Executing(r, i))
    BY DEF Blank, Executing
<1>2. CASE row'[r][i] = row[r][i]
    BY <1>1, <1>2 DEF Rows, IsOpen
<1>3. CASE IsOpen(r, i) /\ \E e \in {"cancelled", "interrupted"} :
                                row'[r][i] = Entry("failed", e)
    BY <1>1, <1>3 DEF Rows, IsOpen, Entry, Sound
<1> QED BY <1>2, <1>3

\* A run that leaves the agent it is at, with its row as it was: it may do so only
\* before the row is inserted, or cancelled, or dropped.
LEMMA LeavingRows ==
    ASSUME Rows, TypeOK, NEW r \in Runs,
           stage[r] \in Nat, stage'[r] \in {stage[r], stage[r] + 1},
           pc'[r] \in {"insert", "close", "ended"},
           pc'[r] = "insert" => stage'[r] = stage[r] + 1,
           pc[r] = "execute" => cancelled'[r] \/ r \in dropped',
           pc[r] # "new",
           cancelled[r] => cancelled'[r], dropped \subseteq dropped',
           \A i \in Stages : row'[r][i] = row[r][i]
    PROVE  \A i \in Stages :
        /\ Blank(r, i)' => row'[r][i] = Entry("none", "none")
        /\ Executing(r, i)' => Sound(row'[r][i])
        /\ IsOpen(r, i)' => Executing(r, i)' \/ cancelled'[r] \/ r \in dropped'
        /\ row'[r][i].status = "completed" => row'[r][i].error # "own"
<1> SUFFICES ASSUME NEW i \in Stages
             PROVE  /\ Blank(r, i)' => row'[r][i] = Entry("none", "none")
                    /\ Executing(r, i)' => Sound(row'[r][i])
                    /\ IsOpen(r, i)' => Executing(r, i)' \/ cancelled'[r] \/ r \in dropped'
                    /\ row'[r][i].status = "completed" => row'[r][i].error # "own"
    OBVIOUS
<1>1. i \in Nat
    BY AgentRunsAssumption DEF Stages
<1>2. Blank(r, i)' => Blank(r, i)
    BY <1>1 DEF Blank
<1>3. ~Executing(r, i)'
    BY DEF Executing
<1>4. IsOpen(r, i)' => cancelled'[r] \/ r \in dropped'
    BY DEF Rows, IsOpen, Executing
<1> QED BY <1>2, <1>3, <1>4 DEF Rows

\* Every action keeps the rows in step with the runs.
LEMMA RowsStep == TypeOK /\ Progress /\ Rows /\ [Next]_vars => Rows'
<1> SUFFICES ASSUME TypeOK, Progress, Rows, [Next]_vars PROVE Rows'
    OBVIOUS
<1> DEFINE Fits(q) ==
        \A i \in Stages :
            /\ Blank(q, i)' => row'[q][i] = Entry("none", "none")
            /\ Executing(q, i)' => Sound(row'[q][i])
            /\ IsOpen(q, i)' => Executing(q, i)' \/ cancelled'[q] \/ q \in dropped'
            /\ row'[q][i].status = "completed" => row'[q][i].error # "own"
<1>a. (\A q \in Runs : Fits(q)) => Rows'
    BY DEF Rows
<1>b. ASSUME NEW r \in Runs,
             \A q \in Runs \ {r} : UNCHANGED <<pc[q], stage[q]>> /\ row'[q] = row[q],
             UNCHANGED cancelled, dropped \subseteq dropped', Fits(r)
      PROVE  Rows'
    <2>1. \A q \in Runs \ {r} : Fits(q)
        BY <1>b, OtherRows
    <2> QED BY <1>a, <1>b, <2>1
<1> HIDE DEF Fits
<1>1. ASSUME NEW r \in Runs, NEW k, NEW p, Begin(r, k, p)
      PROVE  Rows'
    <2>1. /\ \A q \in Runs \ {r} : UNCHANGED <<pc[q], stage[q]>>
          /\ UNCHANGED <<row, cancelled, dropped>>
          /\ pc[r] = "new" /\ stage[r] = 0 /\ pc'[r] = "insert" /\ stage'[r] = 1
        BY <1>1 DEF Begin, TypeOK, Progress
    <2>2. \A i \in Stages : i \in Nat /\ Blank(r, i) /\ ~Executing(r, i)'
        BY <2>1, AgentRunsAssumption DEF Blank, Executing, Stages
    <2>3. Fits(r)
        BY <2>1, <2>2 DEF Fits, Rows, IsOpen, Entry
    <2> QED BY <1>b, <2>1, <2>3
<1>2. ASSUME NEW r \in Runs, Insert(r)
      PROVE  Rows'
    <2>1. stage[r] \in Stages
        BY <1>2, StageIsRow DEF Insert
    <2>2. /\ \A q \in Runs \ {r} : UNCHANGED <<pc[q], stage[q]>> /\ row'[q] = row[q]
          /\ \A i \in Stages : i # stage[r] => row'[r][i] = row[r][i]
          /\ row'[r][stage[r]] = Entry("running", "none")
          /\ pc[r] = "insert" /\ pc'[r] = IF cancelled[r] THEN "close" ELSE "execute"
          /\ UNCHANGED <<stage, cancelled, dropped>>
        BY <1>2, <2>1 DEF Insert, TypeOK
    <2>3. ASSUME NEW i \in Stages, i # stage[r]
          PROVE  /\ Blank(r, i)' => row'[r][i] = Entry("none", "none")
                 /\ Executing(r, i)' => Sound(row'[r][i])
                 /\ IsOpen(r, i)' => Executing(r, i)' \/ cancelled'[r] \/ r \in dropped'
                 /\ row'[r][i].status = "completed" => row'[r][i].error # "own"
        BY <2>2, <2>3 DEF Blank, Executing, IsOpen, Rows
    <2>4. /\ ~Blank(r, stage[r])'
          /\ Sound(row'[r][stage[r]])
          /\ Executing(r, stage[r])' \/ cancelled'[r]
          /\ row'[r][stage[r]].status # "completed"
        BY <2>1, <2>2 DEF Blank, Executing, Sound, Entry, Stages
    <2>5. Fits(r)
        BY <2>2, <2>3, <2>4 DEF Fits, Blank, Executing, IsOpen
    <2> QED BY <1>b, <2>2, <2>5
<1>3. ASSUME NEW r \in Runs, InsertFails(r) \/ ReportFails(r)
      PROVE  Rows'
    <2>1. Live(r) /\ Proceed(r) /\ pc[r] # "new" /\ stage[r] \in Nat
        BY <1>3, StageIsRow DEF InsertFails, ReportFails, Live, Stages
    <2>2. /\ \A q \in Runs \ {r} : UNCHANGED <<pc[q], stage[q]>>
          /\ \/ pc'[r] = "close" /\ stage'[r] = stage[r]
             \/ pc'[r] = "insert" /\ stage'[r] = stage[r] + 1
        <3>1. /\ \A q \in Runs \ {r} : pc'[q] = pc[q] /\ stage'[q] = stage[q]
              /\ \/ pc'[r] = "close" /\ stage'[r] = stage[r]
                 \/ pc'[r] = "insert" /\ stage'[r] = stage[r] + 1
            BY <2>1, ProceedMoves
        <3> QED BY <3>1
    <2>3. /\ UNCHANGED <<row, cancelled>>
          /\ dropped \subseteq dropped'
          /\ pc[r] = "execute" => r \in dropped'
        BY <1>3 DEF InsertFails, ReportFails
    <2>4. Fits(r)
        BY <2>1, <2>2, <2>3, LeavingRows DEF Fits
    <2> QED BY <1>b, <2>2, <2>3, <2>4
<1>4. ASSUME NEW r \in Runs, Report(r)
      PROVE  Rows'
    <2>1. Live(r) /\ Proceed(r) /\ pc[r] = "execute" /\ stage[r] \in Stages
        BY <1>4, StageIsRow DEF Report, Live
    <2>2. /\ \A q \in Runs \ {r} : UNCHANGED <<pc[q], stage[q]>>
          /\ \/ pc'[r] = "close" /\ stage'[r] = stage[r]
             \/ pc'[r] = "insert" /\ stage'[r] = stage[r] + 1
        <3>1. /\ \A q \in Runs \ {r} : pc'[q] = pc[q] /\ stage'[q] = stage[q]
              /\ \/ pc'[r] = "close" /\ stage'[r] = stage[r]
                 \/ pc'[r] = "insert" /\ stage'[r] = stage[r] + 1
            BY <2>1, ProceedMoves
        <3> QED BY <3>1
    <2>3. PICK s \in {"completed", "failed"} :
            row' = [row EXCEPT ![r][stage[r]] = Verdict(@, s)]
        BY <1>4 DEF Report
    <2>4. /\ \A q \in Runs \ {r} : row'[q] = row[q]
          /\ \A i \in Stages : i # stage[r] => row'[r][i] = row[r][i]
          /\ row'[r][stage[r]] = Verdict(row[r][stage[r]], s)
          /\ UNCHANGED <<cancelled, dropped>>
        BY <1>4, <2>1, <2>3 DEF Report, TypeOK
    <2>5. Sound(row[r][stage[r]]) /\ row[r][stage[r]] \in [status : Statuses, error : Errors]
        BY <2>1 DEF Rows, Executing, TypeOK
    <2>6. LET e == row'[r][stage[r]]
          IN  e.status # "running" /\ (e.status = "completed" => e.error # "own")
        BY <2>4, <2>5 DEF Verdict, Sound, Entry
    <2>7. \A i \in Stages : i \in Nat /\ ~Executing(r, i)' /\ (Blank(r, i)' => Blank(r, i) /\ i # stage[r])
        BY <2>1, <2>2, AgentRunsAssumption DEF Stages, Executing, Blank
    <2>8. ASSUME NEW i \in Stages, i # stage[r]
          PROVE  /\ IsOpen(r, i)' => cancelled'[r] \/ r \in dropped'
                 /\ row'[r][i].status = "completed" => row'[r][i].error # "own"
        BY <2>1, <2>4, <2>8 DEF Rows, IsOpen, Executing
    <2>9. Fits(r)
        BY <2>4, <2>6, <2>7, <2>8 DEF Fits, Rows, IsOpen
    <2> QED BY <1>b, <2>2, <2>4, <2>9
<1>5. ASSUME NEW r \in Runs, Interrupt(r) \/ CannotOpen(r) \/ Close(r)
      PROVE  Rows'
    <2>1. /\ \A q \in Runs \ {r} : UNCHANGED <<pc[q], stage[q]>>
          /\ pc'[r] \in {"close", "ended"} /\ pc[r] # "new"
          /\ pc[r] = "execute" => cancelled[r]
          /\ UNCHANGED <<row, stage, cancelled, dropped>>
        BY <1>5 DEF Interrupt, CannotOpen, Close, TypeOK
    <2>2. stage[r] \in Nat
        BY <2>1, StageIsRow DEF Stages
    <2>3. Fits(r)
        BY <2>1, <2>2, LeavingRows DEF Fits
    <2> QED BY <1>b, <2>1, <2>3
<1>6. ASSUME NEW k \in Keys, Cancel(k)
      PROVE  Rows'
    <2>1. /\ UNCHANGED <<pc, stage, row, dropped>>
          /\ \A q \in Runs : cancelled[q] => cancelled'[q]
        BY <1>6 DEF Cancel
    <2>2. \A q \in Runs : Fits(q)
        BY <2>1, OtherRows DEF Fits
    <2> QED BY <1>a, <2>2
<1>7. ASSUME NEW k \in Keys, Clear(k) \/ ClearFails(k)
      PROVE  Rows'
    <2>1. UNCHANGED <<pc, stage, cancelled, dropped>>
        BY <1>7 DEF Clear, ClearFails, taskVars
    <2>2. \/ UNCHANGED row
          \/ FailOpen({FullName[k]}, "cancelled")
        BY <1>7 DEF Clear, ClearFails
    <2>3. \A q \in Runs, i \in Stages :
            row'[q][i] = row[q][i]
            \/ (IsOpen(q, i) /\ \E e \in {"cancelled", "interrupted"} :
                                    row'[q][i] = Entry("failed", e))
        BY <2>2, FailOpenCloses
    <2>4. \A q \in Runs : Fits(q)
        BY <2>1, <2>3, OtherRows DEF Fits
    <2> QED BY <1>a, <2>4
<1>8. ASSUME NEW p \in {"api", "scheduler"}, Kill(p), UNCHANGED <<stage, cancelled>>,
             UNCHANGED row \/ FailOpen(AgentName, "interrupted")
      PROVE  Rows'
    <2>1. \A q \in Runs, i \in Stages :
            row'[q][i] = row[q][i]
            \/ (IsOpen(q, i) /\ \E e \in {"cancelled", "interrupted"} :
                                    row'[q][i] = Entry("failed", e))
        BY <1>8, FailOpenCloses
    <2>2. ASSUME NEW q \in Runs, pc'[q] = pc[q]
          PROVE  Fits(q)
        BY <1>8, <2>1, <2>2, KillEnds, OtherRows DEF Fits
    <2>3. ASSUME NEW q \in Runs, NEW i \in Stages, Live(q), pc'[q] = "ended", q \in dropped'
          PROVE  /\ Blank(q, i)' => row'[q][i] = Entry("none", "none")
                 /\ Executing(q, i)' => Sound(row'[q][i])
                 /\ IsOpen(q, i)' => Executing(q, i)' \/ cancelled'[q] \/ q \in dropped'
                 /\ row'[q][i].status = "completed" => row'[q][i].error # "own"
        <3>1. ~Executing(q, i)' /\ (Blank(q, i)' => Blank(q, i))
            BY <1>8, <2>3 DEF Executing, Blank
        <3>2. CASE row'[q][i] = row[q][i]
            BY <2>3, <3>1, <3>2 DEF Rows
        <3>3. CASE IsOpen(q, i) /\ \E e \in {"cancelled", "interrupted"} :
                                        row'[q][i] = Entry("failed", e)
            BY <2>3, <3>1, <3>3 DEF Rows, IsOpen, Entry
        <3> QED BY <2>1, <3>2, <3>3
    <2>4. \A q \in Runs : Fits(q)
        BY <1>8, <2>2, <2>3, KillEnds DEF Fits
    <2> QED BY <1>a, <2>4
<1>9. CASE UNCHANGED vars
    <2>1. UNCHANGED <<pc, stage, row, cancelled, dropped>>
        BY <1>9 DEF vars, taskVars
    <2>2. \A q \in Runs : Fits(q)
        BY <2>1, OtherRows DEF Fits
    <2> QED BY <1>a, <2>2
<1>10. CASE RestartApi
    BY <1>8, <1>10 DEF RestartApi
<1>11. CASE RestartScheduler
    BY <1>8, <1>11 DEF RestartScheduler
<1> QED
    BY <1>1, <1>2, <1>3, <1>4, <1>5, <1>6, <1>7, <1>9, <1>10, <1>11
    DEF Next, RunStep, CancelStep, Start, StartCycle

-----------------------------------------------------------------------------
(***************************************************************************)
(* The theorems.                                                           *)
(***************************************************************************)

\* Before any run, the invariant holds.
LEMMA RunsInitInvariant == Init => RunsInv
<1> SUFFICES ASSUME Init PROVE RunsInv
    OBVIOUS
<1>1. TypeOK
    BY DEF Init, TypeOK, Entry, Statuses, Errors
<1>2. Registry
    BY AgentRunsAssumption DEF Init, Registry
<1>3. Unwinding /\ Progress
    BY DEF Init, Unwinding, Progress, Wanted, Live
<1>4. Rows
    BY DEF Init, Rows, Blank, Executing, IsOpen, Entry
<1> QED BY <1>1, <1>2, <1>3, <1>4 DEF RunsInv

\* In every reachable state the registry and the rows are in step with the runs.
THEOREM RunsInvariance == Spec => []RunsInv
<1>1. RunsInv /\ [Next]_vars => RunsInv'
    BY TypeStep, RegistryStep, RowsStep DEF RunsInv
<1> QED BY RunsInitInvariant, <1>1, PTL DEF Spec

\* The variables keep their types.
THEOREM RunsTypeCorrect == Spec => []TypeOK
<1>1. RunsInv => TypeOK
    BY DEF RunsInv
<1> QED BY RunsInvariance, <1>1, PTL

\* Until a run starts while a cancelled one of its key is still unwinding, every run
\* started by hand can be found in the registry (api/routers/review.py:35-46, 93-133).
THEOREM RunsStayRegistered == Spec => []WantedRunsAreRegistered
<1>1. RunsInv => WantedRunsAreRegistered
    BY DEF RunsInv, Unwinding, WantedRunsAreRegistered
<1> QED BY RunsInvariance, <1>1, PTL

\* What the rows of agent_runs say about runs, through every failure, cancellation and
\* restart (agents/base.py:28-50, tools/shared.py:151-181).
THEOREM RowsAreTruthful == Spec => []RowsTellTheTruth
<1>1. RunsInv => RowsTellTheTruth
    BY DEF RunsInv, Rows, RowsTellTheTruth, Sound, IsOpen, Entry
<1> QED BY RunsInvariance, <1>1, PTL

\* Steps that only close open rows sweep the log.
LEMMA SweepStep ==
    ASSUME TypeOK, TypeOK',
           \A r \in Runs, i \in Stages :
                row'[r][i].status = row[r][i].status
                \/ (IsOpen(r, i) /\ row'[r][i].status = "failed")
    PROVE  Log!Sweep
<1> DEFINE St == [e \in Runs \X Stages |-> row[e[1]][e[2]].status]
<1> DEFINE Nx == [e \in Runs \X Stages |-> row'[e[1]][e[2]].status]
<1>1. Nx \in [Runs \X Stages -> Statuses]
    BY DEF TypeOK
<1>2. \A e \in Runs \X Stages : Nx[e] # St[e] => St[e] = "running" /\ Nx[e] = "failed"
    BY DEF IsOpen
<1> QED BY <1>1, <1>2 DEF Log!Sweep, Log!Statuses, Statuses

\* A step that writes one row, the others as they were, is a step of the log.
LEMMA WriteStep ==
    ASSUME TypeOK, NEW r \in Runs, NEW i \in Stages, NEW entry,
           row' = [row EXCEPT ![r][i] = entry],
           \/ row[r][i].status = "none" /\ entry.status = "running"
           \/ row[r][i].status \in {"running", "failed"} /\ entry.status = "completed"
    PROVE  Log!Next
<1> DEFINE St == [e \in Runs \X Stages |-> row[e[1]][e[2]].status]
<1> DEFINE Nx == [e \in Runs \X Stages |-> row'[e[1]][e[2]].status]
<1>1. <<r, i>> \in Runs \X Stages /\ St[<<r, i>>] = row[r][i].status
    OBVIOUS
<1>2. \A e \in Runs \X Stages :
        row'[e[1]][e[2]].status = IF e = <<r, i>> THEN entry.status ELSE row[e[1]][e[2]].status
    BY DEF TypeOK
<1>3. Nx = [St EXCEPT ![<<r, i>>] = entry.status]
    BY <1>2
<1>4. CASE row[r][i].status = "none" /\ entry.status = "running"
    <2>1. Log!Open(<<r, i>>)
        BY <1>1, <1>3, <1>4 DEF Log!Open
    <2> QED BY <1>1, <2>1 DEF Log!Next
<1>5. CASE row[r][i].status \in {"running", "failed"} /\ entry.status = "completed"
    <2>1. Log!Complete(<<r, i>>)
        BY <1>1, <1>3, <1>5 DEF Log!Complete
    <2> QED BY <1>1, <2>1 DEF Log!Next
<1> QED BY <1>4, <1>5

\* Every step of the runs is a step of the log, or leaves it alone.
LEMMA LogStep == RunsInv /\ TypeOK' /\ [Next]_vars => Log!Next \/ UNCHANGED row
<1> SUFFICES ASSUME RunsInv, TypeOK', [Next]_vars PROVE Log!Next \/ UNCHANGED row
    OBVIOUS
<1> USE DEF RunsInv
<1>1. ASSUME NEW r \in Runs, Insert(r)
      PROVE  Log!Next
    <2>1. stage[r] \in Stages
        BY <1>1, StageIsRow DEF Insert
    <2>2. row[r][stage[r]].status = "none"
        BY <1>1, <2>1 DEF Insert, Rows, Blank, Entry
    <2>3. row' = [row EXCEPT ![r][stage[r]] = Entry("running", "none")]
        BY <1>1 DEF Insert
    <2>4. Entry("running", "none").status = "running"
        BY DEF Entry
    <2> QED BY <2>1, <2>2, <2>3, <2>4, WriteStep
<1>2. ASSUME NEW r \in Runs, Report(r)
      PROVE  Log!Next
    <2>1. pc[r] = "execute" /\ stage[r] \in Stages
        BY <1>2, StageIsRow DEF Report
    <2>2. row[r][stage[r]].status \in {"running", "failed"}
        BY <2>1 DEF Rows, Executing, Sound, Entry
    <2>3. PICK s \in {"completed", "failed"} :
            row' = [row EXCEPT ![r][stage[r]] = Verdict(@, s)]
        BY <1>2 DEF Report
    <2>4. /\ \A q \in Runs, i \in Stages : <<q, i>> # <<r, stage[r]>> => row'[q][i] = row[q][i]
          /\ row'[r][stage[r]] = Verdict(row[r][stage[r]], s)
          /\ row' = [row EXCEPT ![r][stage[r]] = Verdict(row[r][stage[r]], s)]
        BY <2>1, <2>3 DEF TypeOK
    <2>5. row[r][stage[r]] \in [status : Statuses, error : Errors]
        BY <2>1 DEF TypeOK
    <2>6. CASE s = "completed"
        <3>1. Verdict(row[r][stage[r]], s).status = "completed"
            BY <2>5, <2>6 DEF Verdict
        <3> QED BY <2>1, <2>2, <2>4, <3>1, WriteStep
    <2>7. CASE s = "failed"
        <3>1. Verdict(row[r][stage[r]], s).status = "failed"
            BY <2>7 DEF Verdict, Entry
        <3>2. CASE IsOpen(r, stage[r])
            <4>1. Log!Sweep
                BY <2>4, <3>1, <3>2, SweepStep
            <4> QED BY <4>1 DEF Log!Next
        <3>3. CASE row[r][stage[r]].status = "failed"
            <4>1. Log!Sweep
                BY <2>4, <3>1, <3>3, SweepStep
            <4> QED BY <4>1 DEF Log!Next
        <3> QED BY <2>2, <3>2, <3>3 DEF IsOpen
    <2> QED BY <2>3, <2>6, <2>7
<1>3. ASSUME NEW A, NEW error \in {"cancelled", "interrupted"}, FailOpen(A, error)
      PROVE  Log!Next
    <2>1. \A r \in Runs, i \in Stages :
            row'[r][i] = row[r][i] \/ (IsOpen(r, i) /\ row'[r][i].status = "failed")
        BY <1>3, FailOpenCloses DEF Entry
    <2>2. Log!Sweep
        BY <2>1, SweepStep
    <2> QED BY <2>2 DEF Log!Next
<1>4. ASSUME NEW k \in Keys, CancelStep(k)
      PROVE  Log!Next \/ UNCHANGED row
    BY <1>3, <1>4 DEF CancelStep, Cancel, Clear, ClearFails
<1>5. ASSUME NEW r \in Runs, RunStep(r)
      PROVE  Log!Next \/ UNCHANGED row
    BY <1>1, <1>2, <1>5
    DEF RunStep, Start, StartCycle, Begin, CannotOpen, InsertFails, ReportFails, Interrupt,
        Close
<1> QED
    BY <1>3, <1>4, <1>5 DEF Next, RestartApi, RestartScheduler, vars

\* Runs, cancellations and restarts together keep the promise of AuditLog: a row is
\* opened once and "completed" is never taken back.
THEOREM Refinement == Spec => KeepsLog
<1>1. Init => Log!Init
    BY DEF Init, Entry, Log!Init
<1>2. RunsInv /\ RunsInv' /\ [Next]_vars
        => [Log!Next]_([e \in Runs \X Stages |-> row[e[1]][e[2]].status])
    BY LogStep DEF RunsInv
<1> QED BY RunsInvariance, <1>1, <1>2, PTL DEF Spec, KeepsLog, Log!Spec

-----------------------------------------------------------------------------
(***************************************************************************)
(* Proofs about Content, for any runs, slots, sources, things to find and  *)
(* bounds.                                                                 *)
(*                                                                         *)
(* ContentInv counts who has a link in hand or has posted it, and which    *)
(* run of the dispatcher has a slot in hand or has answered it; AverageInv *)
(* below, where each score is.                                             *)
(***************************************************************************)
Fields == {"at", "slot", "seen", "article", "source", "item", "total", "avg", "scored"}
ItemFields == {"id", "article", "source", "total"}

Places == {"idle", "recycle", "gather", "save", "rate", "weigh", "update", "queue", "mark"}

\* Where a run has an article in hand, if any; from the second on it is recorded.
Recorded == {"rate", "weigh", "update", "queue"}
Holding == Recorded \cup {"save"}

Urls == {Articles[a].url : a \in Found} \cup {"none"}
Words == UNION {Articles[a].words : a \in Found}
Post == [slot : Slot, words : SUBSET Words, byHand : BOOLEAN, url : Urls]
Posts == 1 .. Len(written)

ContentTypes ==
    /\ DOMAIN writer = Writers
    /\ \A w \in Writers :
        /\ DOMAIN writer[w] = Fields
        /\ writer[w].at \in Places
        /\ writer[w].article \in Found \cup {0}
        /\ writer[w].slot = 0 <=> writer[w].at = "idle"
        /\ writer[w].slot \in Slot \cup {0}
        /\ writer[w].at \in {"idle", "recycle", "gather"} => writer[w].article = 0
        /\ writer[w].at = "save" => writer[w].article # 0
        /\ writer[w].at = "mark" => w \notin ByHand
    /\ \A i \in items : DOMAIN i = ItemFields
    /\ written \in Seq(Post)

\* The run w has u in hand.
Has(w, u) ==
    /\ writer[w].at \in Holding
    /\ writer[w].article # 0
    /\ UrlOf(writer[w]) = u

\* A link that was neither chosen twice at a time nor forgotten is in one hand or in one
\* post, and on record unless it has just been chosen.
Links ==
    \A u \in Urls \ (shared \cup forgotten \cup {"none"}) :
        /\ \A v, w \in Writers : Has(v, u) /\ Has(w, u) => v = w
        /\ \A w \in Writers, k \in Posts : Has(w, u) => written[k].url # u
        /\ \A j, k \in Posts : written[j].url = u /\ written[k].url = u => j = k
        /\ \A w \in Writers : Has(w, u) /\ writer[w].at # "save" => u \in Used
        /\ \A k \in Posts : written[k].url = u => u \in Used

\* Post k is the dispatcher's for slot s.
Answers(k, s) == written[k].slot = s /\ ~written[k].byHand

\* A slot that is not loose is in one hand of the dispatcher or has one post, and is
\* marked, or about to be, when it has.
Slots ==
    \A s \in Slot \ loose :
        /\ \A v, w \in Writers \ ByHand : writer[v].slot = s /\ writer[w].slot = s => v = w
        /\ \A w \in Writers \ ByHand, k \in Posts :
                writer[w].slot = s /\ writer[w].at # "mark" => ~Answers(k, s)
        /\ \A j, k \in Posts : Answers(j, s) /\ Answers(k, s) => j = k
        /\ \A k \in Posts : Answers(k, s) =>
                \/ s \in answered
                \/ \E w \in Writers \ ByHand : writer[w].slot = s /\ writer[w].at = "mark"

ContentInv ==
    /\ ContentTypes
    /\ Links
    /\ Slots

-----------------------------------------------------------------------------
(***************************************************************************)
(* Lemmas.                                                                 *)
(***************************************************************************)

\* The step of one run: where it goes, with what, for which slot.
Moved(w, at, article, slot) ==
    /\ DOMAIN writer' = Writers
    /\ \A v \in Writers \ {w} : writer'[v] = writer[v]
    /\ DOMAIN writer'[w] = Fields
    /\ writer'[w].at = at
    /\ writer'[w].article = article
    /\ writer'[w].slot = slot

LEMMA GotoMoves ==
    ASSUME ContentTypes, NEW w \in Writers, NEW place, Goto(w, place)
    PROVE  Moved(w, place, writer[w].article, writer[w].slot)
BY DEF ContentTypes, Fields, Goto, Moved

LEMMA EndMoves ==
    ASSUME ContentTypes, NEW w \in Writers, End(w)
    PROVE  Moved(w, "idle", 0, 0)
BY DEF ContentTypes, Fields, End, Resting, Moved

\* Where a link is found, it is one of the links.
LEMMA HeldIsUrl ==
    ASSUME NEW a \in Found
    PROVE  Articles[a].url \in Urls
BY DEF Urls

\* What is chosen was not on record.
LEMMA ChosenIsUnused ==
    ASSUME NEW found, NEW topic, NEW recent, NEW f \in Choices(found, topic, recent)
    PROVE  f \in found /\ (UrlOf(f) = "none" \/ UrlOf(f) \notin Used)
<1>1. f \in Unused(found)
    <2>1. CASE dealing
        <3>1. f \in DealsOf(Unused(found), topic)
            BY <2>1 DEF Choices
        <3> QED BY <3>1 DEF DealsOf
    <2>2. CASE ~dealing
        <3>1. f \in Passing(Unused(found), recent)
            BY <2>2 DEF Choices, Best
        <3> QED BY <3>1 DEF Passing
    <2> QED BY <2>1, <2>2
<1> QED BY <1>1 DEF Unused

\* What is found is one of the articles.
LEMMA FoundIsArticle ==
    ASSUME NEW topic, NEW found \in Findings(topic), NEW f \in found
    PROVE  f.article \in Found
BY DEF Findings, Direct, FromSource

-----------------------------------------------------------------------------
(***************************************************************************)
(* What a step must keep for each part of the invariant.                   *)
(***************************************************************************)

\* A place fits what a run has in hand.
Fits(w, at, article, slot) ==
    /\ at \in Places
    /\ article \in Found \cup {0}
    /\ slot \in Slot \cup {0}
    /\ slot = 0 <=> at = "idle"
    /\ at \in {"idle", "recycle", "gather"} => article = 0
    /\ at = "save" => article # 0
    /\ at = "mark" => w \notin ByHand

LEMMA TypesKept ==
    ASSUME ContentTypes, NEW w \in Writers, NEW at, NEW article, NEW slot,
           Moved(w, at, article, slot), Fits(w, at, article, slot),
           written' \in Seq(Post), \A i \in items' : DOMAIN i = ItemFields
    PROVE  ContentTypes'
<1>1. DOMAIN writer' = Writers
    BY DEF Moved
<1>2. ASSUME NEW v \in Writers
      PROVE  /\ DOMAIN writer'[v] = Fields
             /\ writer'[v].at \in Places
             /\ writer'[v].article \in Found \cup {0}
             /\ writer'[v].slot = 0 <=> writer'[v].at = "idle"
             /\ writer'[v].slot \in Slot \cup {0}
             /\ writer'[v].at \in {"idle", "recycle", "gather"} => writer'[v].article = 0
             /\ writer'[v].at = "save" => writer'[v].article # 0
             /\ writer'[v].at = "mark" => v \notin ByHand
    <2>1. CASE v = w
        BY <2>1 DEF Moved, Fits
    <2>2. CASE v # w
        BY <2>2 DEF Moved, ContentTypes
    <2> QED BY <2>1, <2>2
<1> QED BY <1>1, <1>2 DEF ContentTypes

\* Links stay in one hand if nobody takes one up and none vanishes from the record.
LEMMA LinksKept ==
    ASSUME Links, NEW w \in Writers, NEW at, NEW article, NEW slot,
           Moved(w, at, article, slot),
           at \in Holding /\ article # 0 =>
                at # "save" /\ article = writer[w].article /\ writer[w].at \in Recorded,
           written' = written, shared \subseteq shared', forgotten \subseteq forgotten',
           \A u \in Used : u \in Used' \/ u \in forgotten'
    PROVE  Links'
<1>1. ASSUME NEW v \in Writers, NEW u \in Urls, Has(v, u)'
      PROVE  Has(v, u) /\ (writer'[v].at # "save" => writer[v].at # "save")
    <2>1. CASE v = w
        BY <1>1, <2>1 DEF Has, Moved, UrlOf, Recorded, Holding
    <2>2. CASE v # w
        BY <1>1, <2>2 DEF Has, Moved, UrlOf
    <2> QED BY <2>1, <2>2
<1>2. SUFFICES ASSUME NEW u \in Urls, u \notin shared' \cup forgotten' \cup {"none"}
               PROVE  /\ \A v, x \in Writers : Has(v, u)' /\ Has(x, u)' => v = x
                      /\ \A x \in Writers, k \in Posts' : Has(x, u)' => written'[k].url # u
                      /\ \A j, k \in Posts' : written'[j].url = u /\ written'[k].url = u => j = k
                      /\ \A x \in Writers : Has(x, u)' /\ writer'[x].at # "save" => u \in Used'
                      /\ \A k \in Posts' : written'[k].url = u => u \in Used'
    BY DEF Links
<1>3. u \in Urls \ (shared \cup forgotten \cup {"none"}) /\ Posts' = Posts
    BY <1>2 DEF Posts
<1>4. u \in Used => u \in Used'
    BY <1>2
<1> QED BY <1>1, <1>3, <1>4 DEF Links

\* Slots stay in one hand if nobody takes one up, and one whose post is to be marked is
\* marked, or loose, when it is let go.
LEMMA SlotsKept ==
    ASSUME Slots, NEW w \in Writers, NEW at, NEW article, NEW slot,
           Moved(w, at, article, slot),
           \/ slot = writer[w].slot /\ (at = "mark" <=> writer[w].at = "mark")
           \/ slot = 0 /\ (writer[w].at = "mark" => writer[w].slot \in answered' \cup loose'),
           written' = written, answered \subseteq answered', loose \subseteq loose'
    PROVE  Slots'
<1>1. ASSUME NEW s \in Slot, NEW v \in Writers, writer'[v].slot = s
      PROVE  writer[v].slot = s /\ (writer'[v].at = "mark" <=> writer[v].at = "mark")
    <2>1. s # 0
        BY DEF Slot
    <2> QED BY <1>1, <2>1 DEF Moved
<1>2. ASSUME NEW s \in Slot, s \notin answered' \cup loose', NEW v \in Writers,
             writer[v].slot = s, writer[v].at = "mark"
      PROVE  writer'[v].slot = s /\ writer'[v].at = "mark"
    BY <1>2 DEF Moved
<1>3. SUFFICES ASSUME NEW s \in Slot, s \notin loose'
               PROVE  /\ \A v, x \in Writers \ ByHand :
                            writer'[v].slot = s /\ writer'[x].slot = s => v = x
                      /\ \A x \in Writers \ ByHand, k \in Posts' :
                            writer'[x].slot = s /\ writer'[x].at # "mark" => ~Answers(k, s)'
                      /\ \A j, k \in Posts' : Answers(j, s)' /\ Answers(k, s)' => j = k
                      /\ \A k \in Posts' : Answers(k, s)' =>
                            \/ s \in answered'
                            \/ \E x \in Writers \ ByHand :
                                    writer'[x].slot = s /\ writer'[x].at = "mark"
    BY DEF Slots
<1>4. s \in Slot \ loose /\ Posts' = Posts /\ \A k \in Posts : Answers(k, s)' <=> Answers(k, s)
    BY <1>3 DEF Posts, Answers
<1> QED BY <1>1, <1>2, <1>3, <1>4 DEF Slots

\* A step of a run that chooses nothing and posts nothing.
LEMMA QuietStep ==
    ASSUME ContentInv, NEW w \in Writers, NEW at, NEW article, NEW slot,
           Moved(w, at, article, slot), Fits(w, at, article, slot),
           at \in Holding /\ article # 0 =>
                at # "save" /\ article = writer[w].article /\ writer[w].at \in Recorded,
           \/ slot = writer[w].slot /\ (at = "mark" <=> writer[w].at = "mark")
           \/ slot = 0 /\ (writer[w].at = "mark" => writer[w].slot \in answered' \cup loose'),
           written' = written, answered \subseteq answered', loose \subseteq loose',
           shared \subseteq shared', forgotten \subseteq forgotten',
           \A i \in items' : DOMAIN i = ItemFields,
           \A u \in Used : u \in Used' \/ u \in forgotten'
    PROVE  ContentInv'
<1>1. ContentTypes'
    BY TypesKept DEF ContentInv, ContentTypes
<1>2. Links'
    BY LinksKept DEF ContentInv
<1>3. Slots'
    BY SlotsKept DEF ContentInv
<1> QED BY <1>1, <1>2, <1>3 DEF ContentInv

-----------------------------------------------------------------------------
(***************************************************************************)
(* The steps of a run.                                                     *)
(***************************************************************************)
LEMMA BeginStep ==
    ASSUME ContentInv, NEW w \in Writers, BeginRun(w)
    PROVE  ContentInv'
<1> USE DEF ContentInv
<1>1. PICK s \in Slot :
        /\ w \in ByHand \/ s \notin answered
        /\ writer' = [writer EXCEPT
                ![w].at = IF Plan[s].kind = "recycle" THEN "recycle" ELSE "gather",
                ![w].slot = s,
                ![w].seen = Len(written)]
        /\ loose' = IF w \notin ByHand /\ \E v \in Writers \ ByHand : writer[v].slot = s
                      THEN loose \cup {s} ELSE loose
    BY DEF BeginRun
<1>2. /\ writer[w].at = "idle" /\ writer[w].article = 0 /\ writer[w].slot = 0
      /\ UNCHANGED <<items, forgotten, written, answered, shared>>
    BY DEF BeginRun, ContentTypes, itemVars
<1>3. PICK at \in {"recycle", "gather"} : Moved(w, at, 0, s)
    <2>1. CASE Plan[s].kind = "recycle"
        BY <1>1, <1>2, <2>1 DEF Moved, ContentTypes, Fields
    <2>2. CASE Plan[s].kind # "recycle"
        BY <1>1, <1>2, <2>2 DEF Moved, ContentTypes, Fields
    <2> QED BY <2>1, <2>2
<1>4. Fits(w, at, 0, s)
    BY <1>3 DEF Fits, Places, Slot
<1>5. ContentTypes'
    BY <1>2, <1>3, <1>4, TypesKept DEF ContentTypes
<1>6. Links'
    <2>1. at \notin Holding
        BY <1>3 DEF Holding, Recorded
    <2>2. \A u \in Used : u \in Used'
        BY <1>2 DEF Used, UrlOf
    <2> QED BY <1>2, <1>3, <2>1, <2>2, LinksKept
<1>7. Slots'
    <2>1. ASSUME NEW z \in Slot, z \notin loose'
          PROVE  /\ \A v, x \in Writers \ ByHand :
                        writer'[v].slot = z /\ writer'[x].slot = z => v = x
                 /\ \A x \in Writers \ ByHand, k \in Posts' :
                        writer'[x].slot = z /\ writer'[x].at # "mark" => ~Answers(k, z)'
                 /\ \A j, k \in Posts' : Answers(j, z)' /\ Answers(k, z)' => j = k
                 /\ \A k \in Posts' : Answers(k, z)' =>
                        \/ z \in answered'
                        \/ \E x \in Writers \ ByHand :
                                writer'[x].slot = z /\ writer'[x].at = "mark"
        <3>1. z \in Slot \ loose
            BY <1>1, <2>1
        <3>2. Posts' = Posts /\ \A k \in Posts : Answers(k, z)' <=> Answers(k, z)
            BY <1>2 DEF Posts, Answers
        <3>3. \A v \in Writers \ {w} : writer'[v] = writer[v]
            BY <1>3 DEF Moved
        <3>4. writer'[w].slot = s /\ writer'[w].at # "mark"
            BY <1>3 DEF Moved
        <3>5. w \notin ByHand /\ z = s =>
                /\ \A v \in Writers \ ByHand : writer[v].slot # z
                /\ z \notin answered
            BY <1>1, <2>1
        <3>6. w \notin ByHand /\ z = s => \A k \in Posts : ~Answers(k, z)
            BY <3>1, <3>5 DEF Slots
        <3>7. \A v \in Writers : writer[v].slot = z /\ writer[v].at = "mark" => v # w
            BY <1>2
        <3> QED BY <1>2, <3>1, <3>2, <3>3, <3>4, <3>5, <3>6, <3>7 DEF Slots
    <2> QED BY <2>1 DEF Slots
<1> QED BY <1>5, <1>6, <1>7

LEMMA RecycleStep ==
    ASSUME ContentInv, NEW w \in Writers, Recycle(w)
    PROVE  ContentInv'
<1>1. PICK at \in {"queue", "gather"} : Goto(w, at)
    BY DEF Recycle
<1>2. Moved(w, at, 0, writer[w].slot)
    BY <1>1, GotoMoves DEF ContentInv, ContentTypes, Recycle
<1>3. Fits(w, at, 0, writer[w].slot)
    BY DEF Fits, ContentInv, ContentTypes, Recycle, Places
<1>4. writer[w].at # "mark"
    BY DEF Recycle
<1>5. UNCHANGED <<items, forgotten, written, answered, loose, shared>>
    BY DEF Recycle, itemVars, outputVars
<1>6. \A u \in Used : u \in Used'
    BY <1>5 DEF Used, UrlOf
<1> QED BY <1>2, <1>3, <1>4, <1>5, <1>6, QuietStep DEF ContentInv, ContentTypes

\* A link that is chosen is not on record, and if somebody else has just chosen it too it
\* counts as shared.
LEMMA TakeLinks ==
    ASSUME ContentTypes, Links, NEW w \in Writers, NEW f, f.article \in Found,
           UrlOf(f) = "none" \/ UrlOf(f) \notin Used,
           Moved(w, "save", f.article, writer[w].slot),
           shared' = IF InHand(w, UrlOf(f)) THEN shared \cup {UrlOf(f)} ELSE shared,
           UNCHANGED <<items, forgotten, written>>
    PROVE  Links'
<1>1. SUFFICES ASSUME NEW u \in Urls, u \notin shared' \cup forgotten' \cup {"none"}
               PROVE  /\ \A v, x \in Writers : Has(v, u)' /\ Has(x, u)' => v = x
                      /\ \A x \in Writers, k \in Posts' : Has(x, u)' => written'[k].url # u
                      /\ \A j, k \in Posts' : written'[j].url = u /\ written'[k].url = u => j = k
                      /\ \A x \in Writers : Has(x, u)' /\ writer'[x].at # "save" => u \in Used'
                      /\ \A k \in Posts' : written'[k].url = u => u \in Used'
    BY DEF Links
<1>2. u \in Urls \ (shared \cup forgotten \cup {"none"}) /\ Posts' = Posts
    BY <1>1 DEF Posts
<1>3. Used' = Used
    BY DEF Used, UrlOf
<1>4. \A v \in Writers \ {w} : Has(v, u)' <=> Has(v, u)
    BY DEF Moved, Has, UrlOf
<1>5. Has(w, u)' => UrlOf(f) = u
    BY DEF Moved, Has, UrlOf
<1>6. CASE UrlOf(f) # u
    BY <1>2, <1>3, <1>4, <1>5, <1>6 DEF Links, Moved
<1>7. CASE UrlOf(f) = u
    <2>1. u \notin Used /\ ~InHand(w, u)
        BY <1>1, <1>7
    <2>2. \A k \in Posts : written[k].url # u
        BY <1>2, <2>1 DEF Links
    <2>3. \A v \in Writers \ {w} : ~Has(v, u)
        BY <1>2, <2>1 DEF Links, InHand, Has
    <2> QED BY <1>2, <1>3, <1>4, <2>2, <2>3 DEF Moved
<1> QED BY <1>6, <1>7

LEMMA TakeStep ==
    ASSUME ContentInv, NEW w \in Writers, writer[w].at = "gather", NEW f, NEW recent, f.article \in Found,
           UrlOf(f) = "none" \/ UrlOf(f) \notin Used,
           Take(w, f, recent), UNCHANGED <<items, forgotten, written, answered, loose>>
    PROVE  ContentInv'
<1>1. Moved(w, "save", f.article, writer[w].slot)
    BY DEF Take, Moved, ContentInv, ContentTypes, Fields
<1>2. Fits(w, "save", f.article, writer[w].slot)
    BY DEF Fits, ContentInv, ContentTypes, Places, Found
<1>3. ContentTypes'
    BY <1>1, <1>2, TypesKept DEF ContentInv, ContentTypes
<1>4. Links'
    BY <1>1, TakeLinks DEF ContentInv, Take
<1>5. Slots'
    BY <1>1, SlotsKept DEF ContentInv
<1> QED BY <1>3, <1>4, <1>5 DEF ContentInv

LEMMA GatherStep ==
    ASSUME ContentInv, NEW w \in Writers, Gather(w)
    PROVE  ContentInv'
<1>1. writer[w].at = "gather" /\ writer[w].article = 0
    BY DEF Gather, ContentInv, ContentTypes
<1>2. UNCHANGED <<items, forgotten, written, answered, loose>>
    BY DEF Gather, itemVars, outputVars
<1> DEFINE topic == Plan[writer[w].slot].topic
           recent == RecentTexts(writer[w].seen)
<1>3. PICK found \in Findings(topic) :
        \/ \E f \in Choices(found, topic, recent) : Take(w, f, recent)
        \/ (IF dealing THEN End(w) ELSE Goto(w, "queue")) /\ UNCHANGED shared
    BY DEF Gather
<1>4. ASSUME NEW f \in Choices(found, topic, recent), Take(w, f, recent)
      PROVE  ContentInv'
    <2>1. f \in found /\ (UrlOf(f) = "none" \/ UrlOf(f) \notin Used)
        BY ChosenIsUnused
    <2>2. f.article \in Found
        BY <2>1, FoundIsArticle
    <2> QED BY <1>1, <1>2, <1>4, <2>1, <2>2, TakeStep
<1>5. ASSUME IF dealing THEN End(w) ELSE Goto(w, "queue"), UNCHANGED shared
      PROVE  ContentInv'
    <2>1. \A u \in Used : u \in Used'
        BY <1>2 DEF Used, UrlOf
    <2>2. \A i \in items' : DOMAIN i = ItemFields
        BY <1>2 DEF ContentInv, ContentTypes
    <2>3. CASE dealing
        <3>1. Moved(w, "idle", 0, 0) /\ Fits(w, "idle", 0, 0)
            BY <1>5, <2>3, EndMoves DEF ContentInv, Fits, Places
        <3> QED BY <1>1, <1>2, <1>5, <2>1, <2>2, <3>1, QuietStep DEF Holding, Recorded
    <2>4. CASE ~dealing
        <3>1. Moved(w, "queue", 0, writer[w].slot)
            BY <1>1, <1>5, <2>4, GotoMoves DEF ContentInv
        <3>2. Fits(w, "queue", 0, writer[w].slot)
            BY <1>1 DEF Fits, ContentInv, ContentTypes, Places
        <3> QED BY <1>1, <1>2, <1>5, <2>1, <2>2, <3>1, <3>2, QuietStep
    <2> QED BY <2>3, <2>4
<1> QED BY <1>3, <1>4, <1>5

\* The article in hand goes on record.
LEMMA SaveStep ==
    ASSUME ContentInv, NEW w \in Writers, Save(w)
    PROVE  ContentInv'
<1> USE DEF ContentInv
<1> DEFINE entry == [id |-> stored + 1, article |-> writer[w].article,
                     source |-> writer[w].source, total |-> 0]
<1>1. /\ writer[w].at = "save"
      /\ items' = items \cup {entry}
      /\ UNCHANGED <<forgotten, written, answered, loose, shared>>
    BY DEF Save, outputVars
<1>2. PICK at \in {"queue", "rate"} : Moved(w, at, writer[w].article, writer[w].slot)
    <2>1. CASE dealing
        BY <2>1 DEF Save, Moved, ContentTypes, Fields
    <2>2. CASE ~dealing
        BY <2>2 DEF Save, Moved, ContentTypes, Fields
    <2> QED BY <2>1, <2>2
<1>3. Fits(w, at, writer[w].article, writer[w].slot)
    BY <1>1 DEF Fits, ContentTypes, Places
<1>4. UrlOf(entry) = UrlOf(writer[w]) /\ DOMAIN entry = ItemFields
    BY DEF UrlOf, ItemFields
<1> HIDE DEF entry
<1>5. ContentTypes'
    BY <1>1, <1>2, <1>3, <1>4, TypesKept DEF ContentTypes
<1>6. Links'
    <2>1. SUFFICES ASSUME NEW u \in Urls, u \notin shared' \cup forgotten' \cup {"none"}
               PROVE  /\ \A v, x \in Writers : Has(v, u)' /\ Has(x, u)' => v = x
                      /\ \A x \in Writers, k \in Posts' : Has(x, u)' => written'[k].url # u
                      /\ \A j, k \in Posts' : written'[j].url = u /\ written'[k].url = u => j = k
                      /\ \A x \in Writers : Has(x, u)' /\ writer'[x].at # "save" => u \in Used'
                      /\ \A k \in Posts' : written'[k].url = u => u \in Used'
        BY DEF Links
    <2>2. u \in Urls \ (shared \cup forgotten \cup {"none"}) /\ Posts' = Posts
        BY <1>1, <2>1 DEF Posts
    <2>3. Used' = Used \cup {UrlOf(entry)}
        BY <1>1 DEF Used, UrlOf
    <2>4. \A v \in Writers : Has(v, u)' => Has(v, u)
        <3>1. \A v \in Writers \ {w} : Has(v, u)' => Has(v, u)
            BY <1>2 DEF Has, Moved, UrlOf
        <3>2. Has(w, u)' => Has(w, u)
            BY <1>1, <1>2 DEF Has, Moved, UrlOf, Holding
        <3> QED BY <3>1, <3>2
    <2>5. Has(w, u) => u \in Used'
        BY <1>4, <2>3 DEF Has
    <2>6. \A v \in Writers \ {w} : writer'[v] = writer[v]
        BY <1>2 DEF Moved
    <2> QED BY <1>1, <2>2, <2>3, <2>4, <2>5, <2>6 DEF Links
<1>7. Slots'
    BY <1>1, <1>2, SlotsKept
<1> QED BY <1>5, <1>6, <1>7

\* The score goes into the item on record.
LEMMA RateStep ==
    ASSUME ContentInv, NEW w \in Writers, Rate(w)
    PROVE  ContentInv'
<1>1. PICK i \in items : items' = (items \ {i}) \cup {[i EXCEPT !.total = writer[w].total]}
    BY DEF Rate
<1>2. writer[w].at = "rate" /\ UNCHANGED <<forgotten, written, answered, loose, shared>>
    BY DEF Rate, outputVars
<1> DEFINE entry == [i EXCEPT !.total = writer[w].total]
<1>3. DOMAIN entry = ItemFields /\ entry.article = i.article
    BY DEF ContentInv, ContentTypes, ItemFields
<1> HIDE DEF entry
<1>4. items' = (items \ {i}) \cup {entry}
    BY <1>1 DEF entry
<1>5. \A u \in Used : u \in Used'
    BY <1>3, <1>4 DEF Used, UrlOf
<1>6. \A j \in items' : DOMAIN j = ItemFields
    BY <1>3, <1>4 DEF ContentInv, ContentTypes
<1>7. PICK at \in {"queue", "weigh"} : Moved(w, at, writer[w].article, writer[w].slot)
    <2>1. CASE writer[w].source = 0
        BY <2>1, GotoMoves DEF ContentInv, Rate
    <2>2. CASE writer[w].source # 0
        BY <2>2, GotoMoves DEF ContentInv, Rate
    <2> QED BY <2>1, <2>2
<1>8. Fits(w, at, writer[w].article, writer[w].slot)
    BY <1>2, <1>7 DEF Fits, ContentInv, ContentTypes, Places
<1>9. at # "save" /\ at # "mark" /\ writer[w].at \in Recorded /\ writer[w].at # "mark"
    BY <1>2, <1>7 DEF Recorded
<1> QED BY <1>2, <1>5, <1>6, <1>7, <1>8, <1>9, QuietStep

LEMMA WeighStep ==
    ASSUME ContentInv, NEW w \in Writers, Weigh(w)
    PROVE  ContentInv'
<1>1. /\ writer[w].at = "weigh"
      /\ UNCHANGED <<items, forgotten, written, answered, loose, shared>>
    BY DEF Weigh, itemVars, outputVars
<1>2. PICK at \in {"update", "queue"} : Moved(w, at, writer[w].article, writer[w].slot)
    <2>1. CASE ~Exists(writer[w].source) /\ Goto(w, "queue")
        BY <2>1, GotoMoves DEF ContentInv
    <2>2. CASE \E s \in sources :
                writer' = [writer EXCEPT ![w].at = "update", ![w].avg = s.avg,
                                         ![w].scored = s.scored]
        BY <2>2 DEF Moved, ContentInv, ContentTypes, Fields
    <2> QED BY <2>1, <2>2 DEF Weigh
<1>3. Fits(w, at, writer[w].article, writer[w].slot)
    BY <1>1, <1>2 DEF Fits, ContentInv, ContentTypes, Places
<1>4. at # "save" /\ at # "mark" /\ writer[w].at \in Recorded /\ writer[w].at # "mark"
    BY <1>1, <1>2 DEF Recorded
<1>5. (\A u \in Used : u \in Used') /\ \A i \in items' : DOMAIN i = ItemFields
    BY <1>1 DEF Used, UrlOf, ContentInv, ContentTypes
<1> QED BY <1>1, <1>2, <1>3, <1>4, <1>5, QuietStep

LEMMA UpdateStep ==
    ASSUME ContentInv, NEW w \in Writers, Update(w)
    PROVE  ContentInv'
<1>1. /\ writer[w].at = "update"
      /\ UNCHANGED <<items, forgotten, written, answered, loose, shared>>
    BY DEF Update, itemVars, outputVars
<1>2. Moved(w, "queue", writer[w].article, writer[w].slot)
    BY DEF Update, Moved, ContentInv, ContentTypes, Fields
<1>3. Fits(w, "queue", writer[w].article, writer[w].slot)
    BY <1>1 DEF Fits, ContentInv, ContentTypes, Places
<1>4. writer[w].at \in Recorded /\ writer[w].at # "mark"
    BY <1>1 DEF Recorded
<1>5. (\A u \in Used : u \in Used') /\ \A i \in items' : DOMAIN i = ItemFields
    BY <1>1 DEF Used, UrlOf, ContentInv, ContentTypes
<1> QED BY <1>1, <1>2, <1>3, <1>4, <1>5, QuietStep

LEMMA DropStep ==
    ASSUME ContentInv, NEW w \in Writers, Drop(w)
    PROVE  ContentInv'
<1>1. /\ writer[w].at = "queue"
      /\ UNCHANGED <<items, forgotten, written, answered, loose, shared>>
    BY DEF Drop, itemVars, outputVars
<1>2. Moved(w, "idle", 0, 0) /\ Fits(w, "idle", 0, 0)
    BY EndMoves DEF ContentInv, Drop, Fits, Places
<1>3. (\A u \in Used : u \in Used') /\ \A i \in items' : DOMAIN i = ItemFields
    BY <1>1 DEF Used, UrlOf, ContentInv, ContentTypes
<1> QED BY <1>1, <1>2, <1>3, QuietStep

LEMMA MarkStep ==
    ASSUME ContentInv, NEW w \in Writers, Mark(w)
    PROVE  ContentInv'
<1>1. /\ answered' = answered \cup {writer[w].slot}
      /\ UNCHANGED <<items, forgotten, written, loose, shared>>
    BY DEF Mark, Answered, itemVars
<1>2. Moved(w, "idle", 0, 0) /\ Fits(w, "idle", 0, 0)
    BY EndMoves DEF ContentInv, Mark, Fits, Places
<1>3. (\A u \in Used : u \in Used') /\ \A i \in items' : DOMAIN i = ItemFields
    BY <1>1 DEF Used, UrlOf, ContentInv, ContentTypes
<1> QED BY <1>1, <1>2, <1>3, QuietStep

LEMMA FailStep ==
    ASSUME ContentInv, NEW w \in Writers, Fail(w)
    PROVE  ContentInv'
<1>1. /\ writer[w].at = "mark" => writer[w].slot \in loose'
      /\ loose \subseteq loose'
      /\ UNCHANGED <<items, forgotten, written, answered, shared>>
    BY DEF Fail, itemVars
<1>2. Moved(w, "idle", 0, 0) /\ Fits(w, "idle", 0, 0)
    BY EndMoves DEF ContentInv, Fail, Fits, Places
<1>3. (\A u \in Used : u \in Used') /\ \A i \in items' : DOMAIN i = ItemFields
    BY <1>1 DEF Used, UrlOf, ContentInv, ContentTypes
<1> QED BY <1>1, <1>2, <1>3, QuietStep

\* What was in hand is posted.
LEMMA QueueStep ==
    ASSUME ContentInv, NEW w \in Writers, Queue(w)
    PROVE  ContentInv'
<1> USE DEF ContentInv
<1> DEFINE url == IF writer[w].article = 0 THEN "none" ELSE UrlOf(writer[w])
           post == [slot |-> writer[w].slot, words |-> TextOf(w), byHand |-> w \in ByHand,
                    url |-> url]
<1>1. /\ writer[w].at = "queue"
      /\ written' = Append(written, post)
      /\ UNCHANGED <<items, forgotten, answered, loose, shared>>
    BY DEF Queue, itemVars
<1>2. url \in Urls /\ writer[w].slot \in Slot
    BY <1>1, HeldIsUrl DEF ContentTypes, UrlOf, Urls
<1>3. TextOf(w) \in SUBSET Words
    BY DEF TextOf, ContentTypes, Words
<1>4. post \in Post
    BY <1>2, <1>3 DEF Post
<1>5. post.slot = writer[w].slot /\ post.url = url /\ (post.byHand <=> w \in ByHand)
    OBVIOUS
<1> HIDE DEF post
<1>6. PICK n :
        /\ written' \in Seq(Post)
        /\ Posts' = Posts \cup {n}
        /\ \A k \in Posts : k # n /\ written'[k] = written[k]
        /\ written'[n] = post
    <2>1. /\ written' \in Seq(Post)
          /\ Posts' = Posts \cup {Len(written) + 1}
          /\ \A k \in Posts : k # Len(written) + 1 /\ written'[k] = written[k]
          /\ written'[Len(written) + 1] = post
        BY <1>1, <1>4 DEF ContentTypes, Posts
    <2> QED BY <2>1
<1>7. PICK at \in {"idle", "mark"} :
        /\ Moved(w, at, 0, IF w \in ByHand THEN 0 ELSE writer[w].slot)
        /\ at = "mark" <=> w \notin ByHand
    <2>1. CASE w \in ByHand
        BY <2>1, EndMoves DEF Queue
    <2>2. CASE w \notin ByHand
        <3>1. writer' = [writer EXCEPT ![w] = [Resting EXCEPT !.at = "mark",
                                                              !.slot = writer[w].slot]]
            BY <2>2 DEF Queue
        <3>2. Moved(w, "mark", 0, writer[w].slot)
            BY <3>1 DEF Moved, ContentTypes, Fields, Resting
        <3> QED BY <2>2, <3>2
    <2> QED BY <2>1, <2>2
<1>8. Fits(w, at, 0, IF w \in ByHand THEN 0 ELSE writer[w].slot)
    BY <1>2, <1>7 DEF Fits, Places, Slot
<1>9. ContentTypes'
    BY <1>1, <1>6, <1>7, <1>8, TypesKept DEF ContentTypes
<1>10. \A v \in Writers \ {w} : writer'[v] = writer[v]
    BY <1>7 DEF Moved
<1>11. Links'
    <2>1. SUFFICES ASSUME NEW u \in Urls, u \notin shared' \cup forgotten' \cup {"none"}
               PROVE  /\ \A v, x \in Writers : Has(v, u)' /\ Has(x, u)' => v = x
                      /\ \A x \in Writers, k \in Posts' : Has(x, u)' => written'[k].url # u
                      /\ \A j, k \in Posts' : written'[j].url = u /\ written'[k].url = u => j = k
                      /\ \A x \in Writers : Has(x, u)' /\ writer'[x].at # "save" => u \in Used'
                      /\ \A k \in Posts' : written'[k].url = u => u \in Used'
        BY DEF Links
    <2>2. u \in Urls \ (shared \cup forgotten \cup {"none"})
        BY <1>1, <2>1
    <2>3. Used' = Used
        BY <1>1 DEF Used, UrlOf
    <2>4. ~Has(w, u)' /\ \A v \in Writers \ {w} : Has(v, u)' <=> Has(v, u)
        BY <1>7, <1>10 DEF Has, Moved, UrlOf, Holding, Recorded
    <2>5. written'[n].url = u => Has(w, u)
        BY <1>1, <1>5, <1>6, <2>2 DEF Has, Holding, Recorded
    <2>6. CASE Has(w, u)
        <3>1. /\ \A v \in Writers \ {w} : ~Has(v, u)
              /\ \A k \in Posts : written[k].url # u
              /\ u \in Used
            BY <1>1, <2>2, <2>6 DEF Links
        <3> QED BY <1>6, <1>10, <2>3, <2>4, <3>1
    <2>7. CASE ~Has(w, u)
        <3>1. written'[n].url # u
            BY <2>5, <2>7
        <3>2. \A j \in Posts' : written'[j].url = u => j \in Posts /\ written[j].url = u
            BY <1>6, <3>1
        <3> QED BY <1>6, <1>10, <2>2, <2>3, <2>4, <3>2 DEF Links
    <2> QED BY <2>6, <2>7
<1>12. Slots'
    <2>1. ASSUME NEW z \in Slot, z \notin loose'
          PROVE  /\ \A v, x \in Writers \ ByHand :
                        writer'[v].slot = z /\ writer'[x].slot = z => v = x
                 /\ \A x \in Writers \ ByHand, k \in Posts' :
                        writer'[x].slot = z /\ writer'[x].at # "mark" => ~Answers(k, z)'
                 /\ \A j, k \in Posts' : Answers(j, z)' /\ Answers(k, z)' => j = k
                 /\ \A k \in Posts' : Answers(k, z)' =>
                        \/ z \in answered'
                        \/ \E x \in Writers \ ByHand :
                                writer'[x].slot = z /\ writer'[x].at = "mark"
        <3>1. z \in Slot \ loose
            BY <1>1, <2>1
        <3>2. \A k \in Posts : Answers(k, z)' <=> Answers(k, z)
            BY <1>6 DEF Answers
        <3>3. Answers(n, z)' => w \notin ByHand /\ writer[w].slot = z
            BY <1>5, <1>6 DEF Answers
        <3>4. CASE w \in ByHand
            <4>1. \A v \in Writers \ ByHand : writer'[v] = writer[v]
                BY <1>10, <3>4
            <4> QED BY <1>1, <1>6, <3>1, <3>2, <3>3, <3>4, <4>1 DEF Slots
        <3>5. CASE w \notin ByHand
            <4>1. writer'[w].slot = writer[w].slot /\ writer'[w].at = "mark"
                BY <1>7, <3>5 DEF Moved
            <4>2. writer[w].slot = z => \A k \in Posts : ~Answers(k, z)
                BY <1>1, <3>1, <3>5 DEF Slots
            <4>3. \A v \in Writers : writer'[v].slot = writer[v].slot
                BY <1>10, <4>1
            <4>4. \A v, x \in Writers \ ByHand :
                        writer'[v].slot = z /\ writer'[x].slot = z => v = x
                BY <3>1, <4>3 DEF Slots
            <4>5. \A x \in Writers \ ByHand, k \in Posts' :
                        writer'[x].slot = z /\ writer'[x].at # "mark" => ~Answers(k, z)'
                <5>1. SUFFICES ASSUME NEW x \in Writers \ ByHand, NEW k \in Posts',
                                      writer'[x].slot = z, writer'[x].at # "mark"
                               PROVE  ~Answers(k, z)'
                    OBVIOUS
                <5>2. x # w /\ writer[x].slot = z /\ writer[x].at # "mark"
                    BY <1>10, <4>1, <5>1
                <5>3. writer[w].slot # z
                    BY <3>1, <3>5, <5>2 DEF Slots
                <5> QED BY <1>6, <3>1, <3>2, <3>3, <5>2, <5>3 DEF Slots
            <4>6. \A j, k \in Posts' : Answers(j, z)' /\ Answers(k, z)' => j = k
                BY <1>6, <3>1, <3>2, <3>3, <4>2 DEF Slots
            <4>7. \A k \in Posts' : Answers(k, z)' =>
                        \/ z \in answered'
                        \/ \E x \in Writers \ ByHand :
                                writer'[x].slot = z /\ writer'[x].at = "mark"
                <5>1. SUFFICES ASSUME NEW k \in Posts', Answers(k, z)', z \notin answered'
                               PROVE  \E x \in Writers \ ByHand :
                                        writer'[x].slot = z /\ writer'[x].at = "mark"
                    OBVIOUS
                <5>2. CASE writer[w].slot = z
                    BY <3>5, <4>1, <5>2
                <5>3. CASE writer[w].slot # z
                    <6>1. k \in Posts /\ Answers(k, z)
                        BY <1>6, <3>2, <3>3, <5>1, <5>3
                    <6>2. PICK x \in Writers \ ByHand :
                                writer[x].slot = z /\ writer[x].at = "mark"
                        BY <1>1, <3>1, <5>1, <6>1 DEF Slots
                    <6> QED BY <1>10, <5>3, <6>2
                <5> QED BY <5>2, <5>3
            <4> QED BY <4>4, <4>5, <4>6, <4>7
        <3> QED BY <3>4, <3>5
    <2> QED BY <2>1 DEF Slots
<1> QED BY <1>9, <1>11, <1>12

-----------------------------------------------------------------------------
(***************************************************************************)
(* The sources, and all steps.                                             *)
(***************************************************************************)

\* A step that leaves the runs and the posts alone.
LEMMA ApartStep ==
    ASSUME ContentInv, UNCHANGED <<writer, written, answered, loose, shared>>,
           items' \subseteq items, forgotten \subseteq forgotten',
           \A u \in Used : u \in Used' \/ u \in forgotten'
    PROVE  ContentInv'
<1>1. ContentTypes'
    BY DEF ContentInv, ContentTypes
<1>2. Links'
    <2>1. Posts' = Posts /\ \A v \in Writers, u \in Urls : Has(v, u)' <=> Has(v, u)
        BY DEF Posts, Has, UrlOf
    <2> QED BY <2>1 DEF ContentInv, Links
<1>3. Slots'
    BY DEF ContentInv, Slots, Posts, Answers
<1> QED BY <1>1, <1>2, <1>3 DEF ContentInv

LEMMA SourceSteps ==
    ASSUME ContentInv, SourceStep
    PROVE  ContentInv'
<1>1. CASE UNCHANGED <<itemVars, outputVars, runVars>>
    <2>1. \A u \in Used : u \in Used'
        BY <1>1 DEF Used, UrlOf, itemVars
    <2> QED BY <1>1, <2>1, ApartStep DEF itemVars, outputVars, runVars
<1>2. CASE \E s \in sources : Delete(s)
    <2>1. PICK s \in sources :
            LET gone == {i \in items : i.source = s.id}
            IN  /\ items' = items \ gone
                /\ forgotten' = forgotten \cup {UrlOf(i) : i \in gone}
        BY <1>2 DEF Delete
    <2>2. \A u \in Used : u \in Used' \/ u \in forgotten'
        BY <2>1 DEF Used, UrlOf
    <2>3. UNCHANGED <<outputVars, runVars>>
        BY <1>2 DEF Delete
    <2> QED BY <2>1, <2>2, <2>3, ApartStep DEF outputVars, runVars
<1> QED BY <1>1, <1>2 DEF SourceStep

LEMMA ContentInitInvariant ==
    ASSUME ContentInit
    PROVE  ContentInv
<1>1. ContentTypes
    BY DEF ContentInit, ContentTypes, Resting, Fields, Places
<1>2. \A w \in Writers : writer[w].at = "idle" /\ writer[w].slot = 0
    BY DEF ContentInit, Resting
<1>3. Posts = {}
    BY DEF ContentInit, Posts
<1>4. Links
    BY <1>2, <1>3 DEF Links, Has, Holding, Recorded
<1>5. Slots
    BY <1>2, <1>3 DEF Slots, Slot
<1> QED BY <1>1, <1>4, <1>5 DEF ContentInv

LEMMA ContentNextInvariant ==
    ASSUME ContentInv, [ContentNext]_contentVars
    PROVE  ContentInv'
<1>1. ASSUME NEW w \in Writers, WriterStep(w)
      PROVE  ContentInv'
    BY <1>1, BeginStep, RecycleStep, GatherStep, SaveStep, RateStep, WeighStep, UpdateStep,
       QueueStep, DropStep, MarkStep, FailStep DEF WriterStep
<1>2. CASE SourceStep
    BY <1>2, SourceSteps
<1>3. CASE UNCHANGED contentVars
    <2>1. \A u \in Used : u \in Used'
        BY <1>3 DEF Used, UrlOf, contentVars, itemVars
    <2> QED BY <1>3, <2>1, ApartStep DEF contentVars, itemVars, outputVars, runVars
<1> QED BY <1>1, <1>2, <1>3 DEF ContentNext

\* Everything below holds of every behaviour: the invariant the proofs rest on.
THEOREM ContentInvariance == ContentSpec => []ContentInv
BY ContentInitInvariant, ContentNextInvariant, PTL DEF ContentSpec

\* A link is posted once, however many runs choose, fail and are repeated, unless two runs
\* chose it at a time or its record was deleted with a source
\* (agents/content_intelligence.py:119-124).
THEOREM ArticleOnce == ContentSpec => []ArticleUsedOnce
<1>1. ContentInv => ArticleUsedOnce
    <2>1. SUFFICES ASSUME ContentTypes, Links, NEW j \in Posts, NEW k \in Posts, j # k,
                          written[j].url # "none", written[j].url = written[k].url
                   PROVE  written[j].url \in shared \cup forgotten
        BY DEF ContentInv, ArticleUsedOnce, Posts
    <2>2. written[j] \in Post
        BY <2>1 DEF ContentTypes, Posts
    <2>3. written[j].url \in Urls
        BY <2>2 DEF Post
    <2> QED BY <2>1, <2>3 DEF Links
<1> QED BY <1>1, ContentInvariance, PTL

\* The dispatcher answers a slot with one post, unless two dispatchers had it in hand or
\* its mark failed (scheduler/jobs.py:320-331).
THEOREM SlotOnce == ContentSpec => []SlotAnsweredOnce
<1>1. ContentInv => SlotAnsweredOnce
    <2>1. SUFFICES ASSUME Slots, NEW s \in Slot \ loose
                   PROVE  Cardinality({k \in Posts : Answers(k, s)}) <= 1
        BY DEF ContentInv, SlotAnsweredOnce, Posts, Answers
    <2> DEFINE answers == {k \in Posts : Answers(k, s)}
    <2>2. \A j, k \in answers : j = k
        BY <2>1 DEF Slots
    <2> HIDE DEF answers
    <2>3. CASE answers = {}
        <3>1. Cardinality(answers) = 0
            BY <2>3, FS_EmptySet
        <3> QED BY <3>1 DEF answers
    <2>4. CASE answers # {}
        <3>1. PICK k : k \in answers
            BY <2>4
        <3>2. answers = {k}
            BY <2>2, <3>1
        <3>3. Cardinality(answers) = 1
            BY <3>2, FS_Singleton
        <3> QED BY <3>3 DEF answers
    <2> QED BY <2>3, <2>4
<1> QED BY <1>1, ContentInvariance, PTL

-----------------------------------------------------------------------------
(***************************************************************************)
(* The quality of a source.  AverageInv says where the score of an item    *)
(* is, from its choice until it is counted: each scored item has been      *)
(* counted or is in one hand, and what a run has read of a source that is  *)
(* not disturbed is still there.                                           *)
(***************************************************************************)
SourceFields == {"id", "feed", "own", "seeded", "active", "avg", "scored"}

SourceRows ==
    /\ planted \in Nat
    /\ \A s \in sources :
        /\ DOMAIN s = SourceFields
        /\ s.id \in 1 .. planted
        /\ s.avg \in Nat
        /\ s.scored \in Nat
    /\ \A s, t \in sources : s.id = t.id => s = t

ItemRows ==
    /\ stored \in Nat
    /\ IsFiniteSet(items)
    /\ \A i \in items :
        /\ i.id \in 1 .. stored
        /\ i.source \in 0 .. planted
        /\ i.total \in 0 .. 7
    /\ \A i, j \in items : i.id = j.id => i = j

\* A run with an item whose score it has to store or to count.
Scoring(w) == writer[w].at \in {"rate", "weigh", "update"}

\* The score of its item is stored and not yet counted.
Owes(w) == writer[w].at \in {"weigh", "update"}

Hands ==
    /\ \A w \in Writers :
        /\ writer[w].source \in 0 .. planted
        /\ writer[w].at \in {"idle", "recycle", "gather"} => writer[w].source = 0
        /\ writer[w].at = "save" => dealing \/ writer[w].total \in 1 .. 7
        /\ Scoring(w) => writer[w].item \in 1 .. stored /\ writer[w].total \in 1 .. 7
        /\ writer[w].at = "update" => writer[w].avg \in Nat /\ writer[w].scored \in Nat
        /\ Owes(w) => writer[w].source # 0
        /\ Owes(w) /\ Exists(writer[w].source) => Kept(writer[w].item)
    /\ \A w \in Writers : \A i \in items :
        Scoring(w) /\ i.id = writer[w].item =>
            /\ i.source = writer[w].source
            /\ i.total = IF writer[w].at = "rate" THEN 0 ELSE writer[w].total
    /\ \A v, w \in Writers :
        Scoring(v) /\ Scoring(w) /\ writer[v].item = writer[w].item => v = w

\* Run w has read the row of s.
HasRead(w, s) == writer[w].at = "update" /\ writer[w].source = s.id

Readings ==
    \A s \in sources :
        s.id \notin disturbed =>
            /\ \A w \in Writers : HasRead(w, s) => writer[w].avg = s.avg /\ writer[w].scored = s.scored
            /\ \A v, w \in Writers : HasRead(v, s) /\ HasRead(w, s) => v = w

\* The items whose score is in the average of source n.
Counted(n) ==
    {i \in items :
        /\ i.source = n
        /\ i.total > 0
        /\ \A w \in Writers : Owes(w) /\ writer[w].source = n => writer[w].item # i.id}

\* avg is the mean of the totals of S up to the rounding of each step.
IsMeanOf(avg, scored, S) ==
    LET n == Cardinality(S)
        drift == avg * n - Precision * SumOf(S)
    IN /\ scored = n
       /\ 4 * drift <= n * (n + 1)
       /\ -4 * drift <= n * (n + 1)

Averages == \A s \in sources : s.id \notin disturbed => IsMeanOf(s.avg, s.scored, Counted(s.id))

AverageInv ==
    /\ SourceRows
    /\ ItemRows
    /\ Hands
    /\ Readings
    /\ Averages

-----------------------------------------------------------------------------
(***************************************************************************)
(* Lemmas about scores.                                                    *)
(***************************************************************************)

\* A total counts some of seven signals.
LEMMA TotalInRange ==
    ASSUME NEW a, NEW recent
    PROVE  Total(a, recent) \in 0 .. 7
<1> DEFINE signals == Signals(a, recent)
           names == {"relevance", "freshness", "novelty", "goal", "virality", "competitors", "safety"}
           set == {s \in DOMAIN signals : signals[s]}
<1>1. DOMAIN signals = names
    BY DEF Signals
<1>2. IsFiniteSet(names) /\ Cardinality(names) \in 0 .. 7
    <2> DEFINE list == <<"relevance", "freshness", "novelty", "goal", "virality", "competitors",
                         "safety">>
    <2>1. list \in Surjection(1 .. 7, names)
        <3>1. DOMAIN list = 1 .. 7 /\ list = [i \in 1 .. 7 |-> list[i]]
            OBVIOUS
        <3>2. \A i \in 1 .. 7 : list[i] \in names
            OBVIOUS
        <3>3. \A x \in names : \E i \in 1 .. 7 : list[i] = x
            OBVIOUS
        <3> HIDE DEF list, names
        <3> QED BY <3>1, <3>2, <3>3 DEF Surjection
    <2>2. IsFiniteSet(1 .. 7) /\ Cardinality(1 .. 7) = 7
        <3>1. PICK n \in Nat : n = 7
            OBVIOUS
        <3>2. IsFiniteSet(1 .. n) /\ Cardinality(1 .. n) = n
            BY FS_Interval
        <3> QED BY <3>1, <3>2
    <2> HIDE DEF list, names
    <2>3. IsFiniteSet(names) /\ Cardinality(names) <= 7
        BY <2>1, <2>2, FS_Surjection
    <2> QED BY <2>3, FS_CardinalityType
<1>3. set \subseteq names
    BY <1>1
<1> HIDE DEF names, set
<1>4. IsFiniteSet(set) /\ Cardinality(set) <= Cardinality(names) /\ Cardinality(set) \in Nat
    BY <1>2, <1>3, FS_Subset, FS_CardinalityType
<1>5. Total(a, recent) = Cardinality(set)
    BY DEF Total, set
<1> QED BY <1>2, <1>4, <1>5

\* What a run chooses for its score has one.
LEMMA ChosenHasScore ==
    ASSUME ContentAssumption, ~dealing, NEW found, NEW topic, NEW recent,
           NEW f \in Choices(found, topic, recent)
    PROVE  Total(Articles[f.article], recent) \in 1 .. 7
<1>1. f \in Passing(Unused(found), recent)
    BY DEF Choices, Best
<1> DEFINE total == Total(Articles[f.article], recent)
<1>2. total \in 0 .. 7
    BY TotalInRange
<1>3. Threshold \in 1 .. 7
    BY DEF ContentAssumption
<1>4. total >= Threshold \/ (Threshold # 1 /\ total >= Threshold - 1)
    BY <1>1 DEF Passing
<1> HIDE DEF total
<1>5. total \in 1 .. 7
    BY <1>2, <1>3, <1>4
<1> QED BY <1>5 DEF total

\* It comes from a source of the channel, or from none.
LEMMA FoundHasSource ==
    ASSUME SourceRows, NEW topic, NEW found \in Findings(topic), NEW f \in found
    PROVE  f.source \in 0 .. planted
<1>1. \A s \in sources : s.id \in 0 .. planted
    BY DEF SourceRows
<1>2. CASE \E source \in DirectSources : f \in Direct(source)
    <2>1. PICK source \in DirectSources : f \in Direct(source)
        BY <1>2
    <2>2. f.source = source
        BY <2>1 DEF Direct
    <2>3. source = 0 \/ \E s \in sources : source = s.id
        BY DEF DirectSources, FirstSources, Active
    <2> QED BY <1>1, <2>2, <2>3 DEF SourceRows
<1>3. CASE \E s \in Active : f \in FromSource(s, topic)
    <2>1. PICK s \in Active : f \in FromSource(s, topic)
        BY <1>3
    <2>2. f.source = s.id /\ s \in sources
        BY <2>1 DEF FromSource, Active
    <2> QED BY <1>1, <2>2
<1>4. (\E source \in DirectSources : f \in Direct(source)) \/ \E s \in Active : f \in FromSource(s, topic)
    BY DEF Findings
<1> QED BY <1>2, <1>3, <1>4

\* A new average is off by half a unit at most.
LEMMA NewAverageRounds ==
    ASSUME NEW avg \in Nat, NEW scored \in Nat, NEW total \in Nat, Precision \in Nat,
           NEW sum \in Int
    PROVE  /\ NewAverage(avg, scored, total) \in Nat
           /\ LET n == scored + 1
                  old == avg * scored - Precision * sum
                  new == NewAverage(avg, scored, total) * n - Precision * (sum + total)
              IN 2 * old - n <= 2 * new /\ 2 * new <= 2 * old + n
<1> DEFINE n == scored + 1
<1>1. PICK up \in Nat : up = 2 * (avg * scored + Precision * total) + n
    <2>1. avg * scored \in Nat /\ Precision * total \in Nat
        OBVIOUS
    <2> QED BY <2>1
<1>2. PICK m \in Nat \ {0} : m = 2 * n
    OBVIOUS
<1> DEFINE q == up \div m
           r == up % m
<1>3. q \in Nat /\ r \in 0 .. m - 1 /\ up = m * q + r
    BY <1>1, <1>2
<1> HIDE DEF q, r
<1>4. NewAverage(avg, scored, total) = q
    BY <1>1, <1>2 DEF NewAverage, q
<1>5. PICK x \in Int : x = avg * scored
    OBVIOUS
<1>6. PICK p \in Int : p = Precision * total
    OBVIOUS
<1>7. PICK y \in Int : y = q * n
    BY <1>3
<1>8. m * q = 2 * y
    BY <1>2, <1>3, <1>7
<1>9. PICK z \in Int : z = Precision * sum
    OBVIOUS
<1>10. Precision * (sum + total) = z + p
    BY <1>6, <1>9
<1>11. up = 2 * (x + p) + n /\ 2 * y <= up /\ up <= 2 * y + (2 * n) - 1
    BY <1>1, <1>2, <1>3, <1>5, <1>6, <1>8
<1>12. 2 * (x - z) - n <= 2 * (y - (z + p)) /\ 2 * (y - (z + p)) <= 2 * (x - z) + n
    BY <1>11
<1> QED BY <1>3, <1>4, <1>5, <1>7, <1>9, <1>10, <1>12

\* One more score keeps the average a mean.
LEMMA MeanGrows ==
    ASSUME ContentAssumption, NEW avg \in Nat, NEW scored \in Nat, NEW S, IsFiniteSet(S),
           \A i \in S : i.total \in Nat, IsMeanOf(avg, scored, S),
           NEW x, x \notin S, x.total \in Nat
    PROVE  IsMeanOf(NewAverage(avg, scored, x.total), scored + 1, S \cup {x})
<1> DEFINE T == S \cup {x}
           total == [i \in T |-> i.total]
<1>1. IsFiniteSet(T) /\ Cardinality(T) = Cardinality(S) + 1 /\ Cardinality(S) \in Nat
    BY FS_AddElement, FS_CardinalityType
<1>2. \A i \in T : total[i] \in Int
    OBVIOUS
<1>3. x \in T /\ T \ {x} = S /\ total[x] = x.total
    OBVIOUS
<1>4. \A i \in S : total[i] = [j \in S |-> j.total][i]
    OBVIOUS
<1> HIDE DEF T, total
<1>5. SumFunctionOnSet(total, S) \in Int /\ SumFunctionOnSet(total, T) = x.total + SumFunctionOnSet(total, S)
    <2>1. SumFunctionOnSet(total, T) = x.total + SumFunctionOnSet(total, S)
        BY ONLY <1>1, <1>2, <1>3, SumSplits
    <2>2. \A i \in S : total[i] \in Int
        BY <1>2 DEF T
    <2>3. SumFunctionOnSet(total, S) \in Int
        BY ONLY IsFiniteSet(S), <2>2, SumSplits
    <2> QED BY <2>1, <2>3
<1>6. SumFunctionOnSet(total, S) = SumOf(S)
    <2> DEFINE part == [j \in S |-> j.total]
    <2>1. \A i \in S : total[i] = part[i]
        BY <1>4
    <2> HIDE DEF part
    <2>2. SumFunctionOnSet(total, S) = SumFunctionOnSet(part, S)
        BY ONLY IsFiniteSet(S), <2>1, SumOfSame
    <2> QED BY <2>2 DEF SumOf, part
<1>7. SumOf(T) = SumFunctionOnSet(total, T)
    BY DEF SumOf, total
<1>8. PICK sum \in Int : sum = SumOf(S) /\ SumOf(T) = sum + x.total
    BY <1>5, <1>6, <1>7
<1>9. Precision \in Nat
    BY DEF ContentAssumption, Src!SourcesAssumption
<1>10. PICK n \in Nat : n = scored + 1
    OBVIOUS
<1>11. PICK t \in Nat : t = x.total
    OBVIOUS
<1>12. PICK new \in Nat : new = NewAverage(avg, scored, t)
    BY <1>9, <1>8, NewAverageRounds
<1>13. PICK old \in Int : old = avg * scored - Precision * sum
    BY <1>9
<1>14. PICK drift \in Int : drift = new * n - Precision * (sum + t)
    BY <1>9
<1>15. 2 * old - n <= 2 * drift /\ 2 * drift <= 2 * old + n
    BY <1>8, <1>9, <1>10, <1>12, <1>13, <1>14, NewAverageRounds
<1>16. scored = Cardinality(S) /\ 4 * old <= scored * n /\ -4 * old <= scored * n
    BY <1>8, <1>10, <1>13 DEF IsMeanOf
<1>17. n * (n + 1) = (scored * n) + (2 * n)
    BY <1>10
<1>18. 4 * drift <= n * (n + 1) /\ -4 * drift <= n * (n + 1)
    <2>1. PICK k \in Int : k = scored * n
        OBVIOUS
    <2> QED BY <1>15, <1>16, <1>17, <2>1
<1>19. n = Cardinality(T)
    BY <1>1, <1>10, <1>16
<1> QED BY <1>8, <1>10, <1>11, <1>12, <1>14, <1>18, <1>19 DEF IsMeanOf, T

-----------------------------------------------------------------------------
(***************************************************************************)
(* The steps of a run and the quality of the sources.                      *)
(***************************************************************************)

\* The other runs stay as they are.
Alone(w) == \A v \in Writers \ {w} : writer'[v] = writer[v]

\* What a run that is no longer at a score may have in hand.
FitsHands(w) ==
    /\ ~Scoring(w)
    /\ writer[w].source \in 0 .. planted
    /\ writer[w].at \in {"idle", "recycle", "gather"} => writer[w].source = 0
    /\ writer[w].at = "save" => dealing \/ writer[w].total \in 1 .. 7

\* A step of a run that leaves the scores alone.  If it lets one go that was not counted,
\* the source is disturbed, or gone.
LEMMA ScoresStay ==
    ASSUME AverageInv, NEW w \in Writers, Alone(w), FitsHands(w)',
           UNCHANGED <<dealing, sources, planted, items, stored>>, disturbed \subseteq disturbed',
           \A s \in sources : Owes(w) /\ s.id = writer[w].source => s.id \in disturbed'
    PROVE  AverageInv'
<1> USE DEF AverageInv
<1>1. SourceRows' /\ ItemRows'
    BY DEF SourceRows, ItemRows
<1>2. \A v \in Writers : Scoring(v)' => v # w /\ Scoring(v) /\ writer'[v] = writer[v]
    BY DEF Alone, FitsHands, Scoring
<1>3. \A v \in Writers : Owes(v)' => v # w /\ Owes(v) /\ writer'[v] = writer[v]
    BY <1>2 DEF Owes, Scoring
<1>4. Hands'
    <2>1. \A v \in Writers :
            /\ writer'[v].source \in 0 .. planted'
            /\ writer'[v].at \in {"idle", "recycle", "gather"} => writer'[v].source = 0
            /\ writer'[v].at = "save" => dealing' \/ writer'[v].total \in 1 .. 7
        BY DEF Hands, FitsHands, Alone
    <2>2. \A v \in Writers :
            /\ Scoring(v)' => writer'[v].item \in 1 .. stored' /\ writer'[v].total \in 1 .. 7
            /\ writer'[v].at = "update" => writer'[v].avg \in Nat /\ writer'[v].scored \in Nat
            /\ Owes(v)' => writer'[v].source # 0
            /\ Owes(v)' /\ Exists(writer[v].source)' => Kept(writer[v].item)'
        BY <1>2, <1>3 DEF Hands, Exists, Kept, Scoring
    <2>3. \A v \in Writers : \A i \in items' :
            Scoring(v)' /\ i.id = writer'[v].item =>
                /\ i.source = writer'[v].source
                /\ i.total = IF writer'[v].at = "rate" THEN 0 ELSE writer'[v].total
        BY <1>2 DEF Hands
    <2>4. \A u, v \in Writers :
            Scoring(u)' /\ Scoring(v)' /\ writer'[u].item = writer'[v].item => u = v
        BY <1>2 DEF Hands
    <2> QED BY <2>1, <2>2, <2>3, <2>4 DEF Hands
<1>5. Readings'
    BY <1>2 DEF Readings, HasRead, Scoring
<1>6. Averages'
    <2>1. ASSUME NEW s \in sources, s.id \notin disturbed'
          PROVE  Counted(s.id)' = Counted(s.id)
        <3>1. \A v \in Writers :
                Owes(v)' /\ writer'[v].source = s.id <=> Owes(v) /\ writer[v].source = s.id
            BY <1>3, <2>1 DEF Owes, Alone
        <3>2. \A v \in Writers : Owes(v)' => writer'[v].item = writer[v].item
            BY <1>3
        <3> QED BY <3>1, <3>2 DEF Counted
    <2>2. ASSUME NEW s \in sources, s.id \notin disturbed'
          PROVE  IsMeanOf(s.avg, s.scored, Counted(s.id))'
        <3>1. IsMeanOf(s.avg, s.scored, Counted(s.id))
            BY <2>2 DEF Averages
        <3> QED BY <2>1, <2>2, <3>1 DEF IsMeanOf, SumOf
    <2> QED BY <2>2 DEF Averages
<1> QED BY <1>1, <1>4, <1>5, <1>6

LEMMA BeginScores ==
    ASSUME ContentInv, AverageInv, NEW w \in Writers, BeginRun(w)
    PROVE  AverageInv'
<1>1. PICK s \in Slot :
        writer' = [writer EXCEPT
                ![w].at = IF Plan[s].kind = "recycle" THEN "recycle" ELSE "gather",
                ![w].slot = s,
                ![w].seen = Len(written)]
    BY DEF BeginRun
<1>2. /\ writer[w].at = "idle" /\ writer[w].source = 0 /\ planted \in Nat
      /\ UNCHANGED <<dealing, sources, planted, items, stored, disturbed>>
    BY DEF BeginRun, AverageInv, Hands, SourceRows, sourceVars, itemVars
<1>3. Alone(w) /\ writer'[w].at \in {"recycle", "gather"} /\ writer'[w].source = 0
    BY <1>1, <1>2 DEF ContentInv, ContentTypes, Fields, Alone
<1>4. FitsHands(w)'
    BY <1>2, <1>3 DEF FitsHands, Scoring
<1> QED BY <1>2, <1>3, <1>4, ScoresStay DEF Owes

\* To end is to have nothing in hand.
LEMMA EndFits ==
    ASSUME ContentInv, AverageInv, NEW w \in Writers, End(w), UNCHANGED planted
    PROVE  Alone(w) /\ FitsHands(w)'
<1>1. Alone(w) /\ writer'[w].at = "idle" /\ writer'[w].source = 0
    BY DEF End, Resting, ContentInv, ContentTypes, Alone
<1>2. planted' \in Nat
    BY DEF AverageInv, SourceRows
<1> QED BY <1>1, <1>2 DEF FitsHands, Scoring

LEMMA GotoFits ==
    ASSUME ContentInv, AverageInv, NEW w \in Writers, NEW place \in {"gather", "queue"},
           writer[w].at \in {"recycle", "gather"} \/ place = "queue", Goto(w, place),
           UNCHANGED <<planted, dealing>>
    PROVE  Alone(w) /\ FitsHands(w)'
<1>1. Alone(w) /\ writer'[w].at = place /\ writer'[w].source = writer[w].source
    BY DEF Goto, ContentInv, ContentTypes, Alone, Fields
<1>2. writer[w].source \in 0 .. planted' /\ (place = "gather" => writer[w].source = 0)
    BY DEF AverageInv, Hands
<1> QED BY <1>1, <1>2 DEF FitsHands, Scoring

LEMMA RecycleScores ==
    ASSUME ContentInv, AverageInv, NEW w \in Writers, Recycle(w)
    PROVE  AverageInv'
<1>1. UNCHANGED <<dealing, sources, planted, items, stored, disturbed>>
    BY DEF Recycle, sourceVars, itemVars
<1>2. Alone(w) /\ FitsHands(w)'
    BY <1>1, GotoFits DEF Recycle
<1> QED BY <1>1, <1>2, ScoresStay DEF Owes, Recycle

LEMMA GatherScores ==
    ASSUME ContentAssumption, ContentInv, AverageInv, NEW w \in Writers, Gather(w)
    PROVE  AverageInv'
<1>1. writer[w].at = "gather" /\ UNCHANGED <<dealing, sources, planted, items, stored, disturbed>>
    BY DEF Gather, sourceVars, itemVars
<1> DEFINE topic == Plan[writer[w].slot].topic
           recent == RecentTexts(writer[w].seen)
<1>2. PICK found \in Findings(topic) :
        \/ \E f \in Choices(found, topic, recent) : Take(w, f, recent)
        \/ IF dealing THEN End(w) ELSE Goto(w, "queue")
    BY DEF Gather
<1>3. ASSUME NEW f \in Choices(found, topic, recent), Take(w, f, recent)
      PROVE  Alone(w) /\ FitsHands(w)'
    <2>1. Alone(w) /\ writer'[w].at = "save" /\ writer'[w].source = f.source
          /\ writer'[w].total = IF dealing THEN 0 ELSE Total(Articles[f.article], recent)
        BY <1>3 DEF Take, ContentInv, ContentTypes, Fields, Alone
    <2>2. f.source \in 0 .. planted
        BY ChosenIsUnused, FoundHasSource DEF AverageInv
    <2>3. ~dealing => Total(Articles[f.article], recent) \in 1 .. 7
        BY ChosenHasScore
    <2> HIDE DEF recent
    <2> QED BY <1>1, <2>1, <2>2, <2>3 DEF FitsHands, Scoring
<1>4. ASSUME IF dealing THEN End(w) ELSE Goto(w, "queue")
      PROVE  Alone(w) /\ FitsHands(w)'
    BY <1>1, <1>4, EndFits, GotoFits
<1>5. Alone(w) /\ FitsHands(w)'
    BY <1>2, <1>3, <1>4
<1> QED BY <1>1, <1>5, ScoresStay DEF Owes

LEMMA QueueScores ==
    ASSUME ContentInv, AverageInv, NEW w \in Writers, Queue(w)
    PROVE  AverageInv'
<1>1. writer[w].at = "queue" /\ UNCHANGED <<dealing, sources, planted, items, stored, disturbed>>
    BY DEF Queue, sourceVars, itemVars
<1>2. CASE w \in ByHand
    <2>1. Alone(w) /\ FitsHands(w)'
        BY <1>1, <1>2, EndFits DEF Queue
    <2> QED BY <1>1, <2>1, ScoresStay DEF Owes
<1>3. CASE w \notin ByHand
    <2>1. writer' = [writer EXCEPT ![w] = [Resting EXCEPT !.at = "mark", !.slot = writer[w].slot]]
        BY <1>3 DEF Queue
    <2>2. Alone(w) /\ writer'[w].at = "mark" /\ writer'[w].source = 0
        BY <2>1 DEF Alone, ContentInv, ContentTypes, Resting
    <2>3. planted' \in Nat
        BY <1>1 DEF AverageInv, SourceRows
    <2>4. FitsHands(w)'
        BY <2>2, <2>3 DEF FitsHands, Scoring
    <2> QED BY <1>1, <2>2, <2>4, ScoresStay DEF Owes
<1> QED BY <1>2, <1>3

LEMMA DropScores ==
    ASSUME ContentInv, AverageInv, NEW w \in Writers, Drop(w)
    PROVE  AverageInv'
<1>1. writer[w].at = "queue" /\ UNCHANGED <<dealing, sources, planted, items, stored, disturbed>>
    BY DEF Drop, sourceVars, itemVars
<1> QED BY <1>1, EndFits, ScoresStay DEF Owes, Drop

LEMMA MarkScores ==
    ASSUME ContentInv, AverageInv, NEW w \in Writers, Mark(w)
    PROVE  AverageInv'
<1>1. writer[w].at = "mark" /\ UNCHANGED <<dealing, sources, planted, items, stored, disturbed>>
    BY DEF Mark, sourceVars, itemVars
<1> QED BY <1>1, EndFits, ScoresStay DEF Owes, Mark

LEMMA FailScores ==
    ASSUME ContentInv, AverageInv, NEW w \in Writers, Fail(w)
    PROVE  AverageInv'
<1>1. UNCHANGED <<dealing, sources, planted, items, stored>>
    BY DEF Fail, sourceVars, itemVars
<1>2. disturbed \subseteq disturbed' /\ (Owes(w) => writer[w].source \in disturbed')
    BY DEF Fail, Owes
<1> QED BY <1>1, <1>2, EndFits, ScoresStay DEF Fail

\* A saved item has no score yet.
LEMMA SaveScores ==
    ASSUME ContentInv, AverageInv, NEW w \in Writers, Save(w)
    PROVE  AverageInv'
<1> USE DEF AverageInv
<1> DEFINE entry == [id |-> stored + 1, article |-> writer[w].article,
                     source |-> writer[w].source, total |-> 0]
<1>1. /\ writer[w].at = "save"
      /\ stored' = stored + 1
      /\ items' = items \cup {entry}
      /\ UNCHANGED <<dealing, sources, planted, disturbed>>
    BY DEF Save, sourceVars
<1>2. /\ writer'[w].at = IF dealing THEN "queue" ELSE "rate"
      /\ writer'[w].item = stored + 1
      /\ writer'[w].source = writer[w].source
      /\ writer'[w].total = writer[w].total
      /\ \A v \in Writers \ {w} : writer'[v] = writer[v]
    BY DEF Save, ContentInv, ContentTypes, Fields
<1>3. /\ entry.id = stored + 1
      /\ entry.source = writer[w].source
      /\ entry.total = 0
    OBVIOUS
<1> HIDE DEF entry
<1>4. stored \in Nat /\ planted \in Nat /\ entry \notin items /\ \A i \in items : i.id # stored + 1
    BY <1>3 DEF ItemRows, SourceRows
<1>5. SourceRows'
    BY <1>1 DEF SourceRows
<1>6. ItemRows'
    <2>1. stored' \in Nat /\ IsFiniteSet(items')
        BY <1>1, <1>4, FS_AddElement DEF ItemRows
    <2>2. entry.source \in 0 .. planted
        BY <1>3 DEF Hands
    <2>3. \A i \in items' : i.id \in 1 .. stored' /\ i.source \in 0 .. planted' /\ i.total \in 0 .. 7
        BY <1>1, <1>3, <1>4, <2>2 DEF ItemRows
    <2>4. \A i, j \in items' : i.id = j.id => i = j
        BY <1>1, <1>3, <1>4 DEF ItemRows
    <2> QED BY <2>1, <2>3, <2>4 DEF ItemRows
<1>7. \A v \in Writers : Owes(v)' => v # w /\ Owes(v) /\ writer'[v] = writer[v]
    BY <1>2 DEF Owes
<1>8. Hands'
    <2>1. \A v \in Writers :
            /\ writer'[v].source \in 0 .. planted'
            /\ writer'[v].at \in {"idle", "recycle", "gather"} => writer'[v].source = 0
            /\ writer'[v].at = "save" => dealing' \/ writer'[v].total \in 1 .. 7
        BY <1>1, <1>2 DEF Hands
    <2>2. \A v \in Writers :
            Scoring(v)' => writer'[v].item \in 1 .. stored' /\ writer'[v].total \in 1 .. 7
        BY <1>1, <1>2, <1>4 DEF Hands, Scoring
    <2>3. \A v \in Writers :
            /\ writer'[v].at = "update" => writer'[v].avg \in Nat /\ writer'[v].scored \in Nat
            /\ Owes(v)' => writer'[v].source # 0
            /\ Owes(v)' /\ Exists(writer[v].source)' => Kept(writer[v].item)'
        BY <1>1, <1>7 DEF Hands, Exists, Kept, Owes
    <2>4. \A v \in Writers : \A i \in items' :
            Scoring(v)' /\ i.id = writer'[v].item =>
                /\ i.source = writer'[v].source
                /\ i.total = IF writer'[v].at = "rate" THEN 0 ELSE writer'[v].total
        <3>1. SUFFICES ASSUME NEW v \in Writers, NEW i \in items', Scoring(v)',
                              i.id = writer'[v].item
                       PROVE  /\ i.source = writer'[v].source
                              /\ i.total = IF writer'[v].at = "rate" THEN 0 ELSE writer'[v].total
            OBVIOUS
        <3>2. CASE v = w
            <4>1. i = entry
                BY <1>1, <1>2, <1>4, <3>1, <3>2
            <4>2. writer'[v].at = "rate"
                BY <1>2, <3>1, <3>2 DEF Scoring
            <4> QED BY <1>2, <1>3, <3>2, <4>1, <4>2
        <3>3. CASE v # w
            <4>1. Scoring(v) /\ writer'[v] = writer[v]
                BY <1>2, <3>1, <3>3 DEF Scoring
            <4>2. writer[v].item \in 1 .. stored
                BY <4>1 DEF Hands
            <4>3. i \in items
                BY <1>1, <1>3, <1>4, <3>1, <4>1, <4>2
            <4> QED BY <3>1, <4>1, <4>3 DEF Hands
        <3> QED BY <3>2, <3>3
    <2>5. \A u, v \in Writers :
            Scoring(u)' /\ Scoring(v)' /\ writer'[u].item = writer'[v].item => u = v
        <3>1. \A v \in Writers \ {w} : Scoring(v)' =>
                writer'[v] = writer[v] /\ Scoring(v) /\ writer[v].item # stored + 1
            BY <1>2, <1>4 DEF Scoring, Hands
        <3> QED BY <1>2, <3>1 DEF Hands
    <2> QED BY <2>1, <2>2, <2>3, <2>4, <2>5 DEF Hands
<1>9. Readings'
    BY <1>1, <1>7 DEF Readings, HasRead, Owes
<1>10. Averages'
    <2>1. ASSUME NEW n
          PROVE  Counted(n)' = Counted(n)
        <3>1. \A v \in Writers :
                Owes(v)' /\ writer'[v].source = n <=> Owes(v) /\ writer[v].source = n
            BY <1>1, <1>2, <1>7 DEF Owes
        <3>2. \A v \in Writers : Owes(v)' => writer'[v].item = writer[v].item
            BY <1>7
        <3> QED BY <1>1, <1>3, <3>1, <3>2 DEF Counted
    <2> QED BY <1>1, <2>1 DEF Averages, IsMeanOf, SumOf
<1> QED BY <1>5, <1>6, <1>8, <1>9, <1>10

\* A stored score is owed to the source.
LEMMA RateScores ==
    ASSUME ContentInv, AverageInv, NEW w \in Writers, Rate(w)
    PROVE  AverageInv'
<1> USE DEF AverageInv
<1>1. PICK i \in items :
        /\ i.id = writer[w].item
        /\ items' = (items \ {i}) \cup {[i EXCEPT !.total = writer[w].total]}
    BY DEF Rate
<1> DEFINE entry == [i EXCEPT !.total = writer[w].total]
<1>2. /\ writer[w].at = "rate" /\ Scoring(w)
      /\ UNCHANGED <<dealing, sources, planted, stored, disturbed>>
    BY DEF Rate, Scoring, sourceVars
<1>3. DOMAIN i = ItemFields /\ i.total = 0 /\ i.source = writer[w].source
    BY <1>1, <1>2 DEF Hands, ContentInv, ContentTypes
<1>4. entry.id = i.id /\ entry.source = i.source /\ entry.total = writer[w].total
    BY <1>3 DEF ItemFields
<1>5. items' = (items \ {i}) \cup {entry}
    BY <1>1
<1> HIDE DEF entry
<1>6. writer[w].total \in 1 .. 7
    BY <1>2 DEF Hands
<1>7. /\ writer'[w].at = IF writer[w].source = 0 THEN "queue" ELSE "weigh"
      /\ writer'[w].item = writer[w].item
      /\ writer'[w].source = writer[w].source
      /\ writer'[w].total = writer[w].total
      /\ \A v \in Writers \ {w} : writer'[v] = writer[v]
    BY DEF Rate, Goto, ContentInv, ContentTypes, Fields
<1>8. SourceRows'
    BY <1>2 DEF SourceRows
<1>9. ItemRows'
    <2>1. IsFiniteSet(items')
        BY <1>5, FS_AddElement, FS_RemoveElement DEF ItemRows
    <2>2. \A j \in items' : j.id \in 1 .. stored' /\ j.source \in 0 .. planted' /\ j.total \in 0 .. 7
        BY <1>2, <1>4, <1>5, <1>6 DEF ItemRows
    <2>3. \A j, k \in items' : j.id = k.id => j = k
        BY <1>4, <1>5 DEF ItemRows
    <2> QED BY <1>2, <2>1, <2>2, <2>3 DEF ItemRows
<1>10. \A v \in Writers : Scoring(v)' => Scoring(v) /\ writer'[v].item = writer[v].item
    BY <1>2, <1>7 DEF Scoring
<1>11. \A v \in Writers \ {w} : Scoring(v) => writer[v].item # i.id
    BY <1>1, <1>2 DEF Hands
<1>12. \A n : Kept(n)' <=> Kept(n)
    BY <1>4, <1>5 DEF Kept
<1>13. Hands'
    <2>1. \A v \in Writers :
            /\ writer'[v].source \in 0 .. planted'
            /\ writer'[v].at \in {"idle", "recycle", "gather"} => writer'[v].source = 0
            /\ writer'[v].at = "save" => dealing' \/ writer'[v].total \in 1 .. 7
            /\ Scoring(v)' => writer'[v].item \in 1 .. stored' /\ writer'[v].total \in 1 .. 7
            /\ writer'[v].at = "update" => writer'[v].avg \in Nat /\ writer'[v].scored \in Nat
        BY <1>2, <1>7 DEF Hands, Scoring
    <2>2. \A v \in Writers :
            /\ Owes(v)' => writer'[v].source # 0
            /\ Owes(v)' /\ Exists(writer[v].source)' => Kept(writer[v].item)'
        <3>1. SUFFICES ASSUME NEW v \in Writers, Owes(v)'
                       PROVE  /\ writer'[v].source # 0
                              /\ Exists(writer[v].source)' => Kept(writer[v].item)'
            OBVIOUS
        <3>2. CASE v = w
            <4>1. writer'[v].source # 0
                BY <1>7, <3>1, <3>2 DEF Owes
            <4>2. Kept(writer[v].item)
                BY <1>1, <3>2 DEF Kept
            <4>3. Kept(writer[v].item)'
                BY <1>7, <1>12, <3>2, <4>2
            <4> QED BY <4>1, <4>3
        <3>3. CASE v # w
            <4>1. Owes(v) /\ writer'[v] = writer[v]
                BY <1>7, <3>1, <3>3 DEF Owes
            <4>2. Exists(writer[v].source)' => Exists(writer[v].source)
                BY <1>2, <4>1 DEF Exists
            <4>3. Kept(writer[v].item) => Kept(writer[v].item)'
                BY <1>12, <4>1
            <4> QED BY <4>1, <4>2, <4>3 DEF Hands
        <3> QED BY <3>2, <3>3
    <2>3. \A v \in Writers : \A j \in items' :
            Scoring(v)' /\ j.id = writer'[v].item =>
                /\ j.source = writer'[v].source
                /\ j.total = IF writer'[v].at = "rate" THEN 0 ELSE writer'[v].total
        <3>1. SUFFICES ASSUME NEW v \in Writers, NEW j \in items', Scoring(v)',
                              j.id = writer'[v].item
                       PROVE  /\ j.source = writer'[v].source
                              /\ j.total = IF writer'[v].at = "rate" THEN 0 ELSE writer'[v].total
            OBVIOUS
        <3>2. CASE v = w
            <4>1. j = entry
                BY <1>1, <1>5, <1>7, <3>1, <3>2 DEF ItemRows
            <4>2. writer'[v].at # "rate"
                BY <1>7, <3>2
            <4> QED BY <1>3, <1>4, <1>7, <3>2, <4>1, <4>2
        <3>3. CASE v # w
            <4>1. Scoring(v) /\ writer'[v] = writer[v]
                BY <1>7, <3>1, <3>3 DEF Scoring
            <4>2. j \in items
                BY <1>4, <1>5, <1>11, <3>1, <3>3, <4>1
            <4> QED BY <3>1, <4>1, <4>2 DEF Hands
        <3> QED BY <3>2, <3>3
    <2>4. \A u, v \in Writers :
            Scoring(u)' /\ Scoring(v)' /\ writer'[u].item = writer'[v].item => u = v
        BY <1>10 DEF Hands
    <2> QED BY <2>1, <2>2, <2>3, <2>4 DEF Hands
<1>14. Readings'
    <2>1. \A v \in Writers, s \in sources : HasRead(v, s)' => HasRead(v, s) /\ writer'[v] = writer[v]
        BY <1>7 DEF HasRead
    <2> QED BY <1>2, <2>1 DEF Readings
<1>15. Averages'
    <2>1. ASSUME NEW n \in Nat \ {0}
          PROVE  Counted(n)' = Counted(n)
        <3>1. \A v \in Writers \ {w} : writer'[v] = writer[v] /\ (Owes(v)' <=> Owes(v))
            BY <1>7 DEF Owes
        <3>2. i \notin Counted(n)
            BY <1>3 DEF Counted
        <3>3. entry \notin Counted(n)'
            <4>1. SUFFICES ASSUME entry.source = n
                           PROVE  Owes(w)' /\ writer'[w].source = n /\ writer'[w].item = entry.id
                BY DEF Counted
            <4> QED BY <1>1, <1>3, <1>4, <1>7, <4>1 DEF Owes
        <3>4. ASSUME NEW j \in items, j # i
              PROVE  j \in Counted(n) <=> j \in Counted(n)'
            <4>1. j \in items' /\ j.id # i.id
                BY <1>5, <3>4 DEF ItemRows
            <4>2. ~Owes(w) /\ writer'[w].item # j.id
                BY <1>1, <1>2, <1>7, <4>1 DEF Owes
            <4> QED BY <3>1, <4>1, <4>2 DEF Counted
        <3>5. \A j \in Counted(n) : j \in items
            BY DEF Counted
        <3>6. \A j \in Counted(n)' : j \in items' /\ (j = entry \/ (j \in items /\ j # i))
            BY <1>5 DEF Counted
        <3> QED BY <3>2, <3>3, <3>4, <3>5, <3>6
    <2>2. ASSUME NEW s \in sources, s.id \notin disturbed
          PROVE  IsMeanOf(s.avg, s.scored, Counted(s.id))'
        <3>1. s.id \in Nat \ {0}
            BY DEF SourceRows
        <3>2. Counted(s.id)' = Counted(s.id)
            BY <2>1, <3>1
        <3>3. IsMeanOf(s.avg, s.scored, Counted(s.id))
            BY <2>2 DEF Averages
        <3> QED BY <3>2, <3>3 DEF IsMeanOf, SumOf
    <2> QED BY <1>2, <2>2 DEF Averages
<1> QED BY <1>8, <1>9, <1>13, <1>14, <1>15

\* The row is read; who else has read it has disturbed it.
LEMMA ReadScores ==
    ASSUME ContentInv, AverageInv, NEW w \in Writers, writer[w].at = "weigh",
           NEW s \in sources, s.id = writer[w].source,
           writer'[w].at = "update", writer'[w].avg = s.avg, writer'[w].scored = s.scored,
           writer'[w].item = writer[w].item, writer'[w].source = writer[w].source,
           writer'[w].total = writer[w].total, Alone(w),
           disturbed' = IF Contended(w) THEN disturbed \cup {s.id} ELSE disturbed,
           UNCHANGED <<dealing, sources, planted, items, stored>>
    PROVE  AverageInv'
<1> USE DEF AverageInv
<1>1. /\ writer'[w].at = "update" /\ writer'[w].avg = s.avg /\ writer'[w].scored = s.scored
      /\ writer'[w].item = writer[w].item
      /\ writer'[w].source = writer[w].source
      /\ writer'[w].total = writer[w].total
      /\ \A v \in Writers \ {w} : writer'[v] = writer[v]
    BY DEF Alone
<1>2. SourceRows' /\ ItemRows'
    BY DEF SourceRows, ItemRows
<1>3. \A v \in Writers :
        /\ Scoring(v)' <=> Scoring(v)
        /\ Owes(v)' <=> Owes(v)
        /\ writer'[v].item = writer[v].item
        /\ writer'[v].source = writer[v].source
        /\ writer'[v].total = writer[v].total
        /\ writer'[v].at # writer[v].at => writer'[v].at = "update" /\ writer[v].at = "weigh"
    BY <1>1 DEF Scoring, Owes
<1>4. s.avg \in Nat /\ s.scored \in Nat
    BY DEF SourceRows
<1>5. Hands'
    <2>1. \A v \in Writers :
            /\ writer'[v].source \in 0 .. planted'
            /\ writer'[v].at \in {"idle", "recycle", "gather"} => writer'[v].source = 0
            /\ writer'[v].at = "save" => dealing' \/ writer'[v].total \in 1 .. 7
            /\ Scoring(v)' => writer'[v].item \in 1 .. stored' /\ writer'[v].total \in 1 .. 7
        BY <1>3 DEF Hands
    <2>2. \A v \in Writers :
            writer'[v].at = "update" => writer'[v].avg \in Nat /\ writer'[v].scored \in Nat
        BY <1>1, <1>4 DEF Hands
    <2>3. \A v \in Writers :
            /\ Owes(v)' => writer'[v].source # 0
            /\ Owes(v)' /\ Exists(writer[v].source)' => Kept(writer[v].item)'
        BY <1>3 DEF Hands, Exists, Kept
    <2>4. \A v \in Writers : \A i \in items' :
            Scoring(v)' /\ i.id = writer'[v].item =>
                /\ i.source = writer'[v].source
                /\ i.total = IF writer'[v].at = "rate" THEN 0 ELSE writer'[v].total
        BY <1>3 DEF Hands
    <2>5. \A u, v \in Writers :
            Scoring(u)' /\ Scoring(v)' /\ writer'[u].item = writer'[v].item => u = v
        BY <1>3 DEF Hands
    <2> QED BY <2>1, <2>2, <2>3, <2>4, <2>5 DEF Hands
<1>6. Readings'
    <2>1. SUFFICES ASSUME NEW t \in sources, t.id \notin disturbed'
                   PROVE  /\ \A v \in Writers : HasRead(v, t)' =>
                                writer'[v].avg = t.avg /\ writer'[v].scored = t.scored
                          /\ \A u, v \in Writers : HasRead(u, t)' /\ HasRead(v, t)' => u = v
        BY DEF Readings
    <2>2. t.id \notin disturbed /\ \A v \in Writers \ {w} : HasRead(v, t)' => HasRead(v, t)
        BY <1>1, <2>1 DEF HasRead
    <2>3. CASE t = s
        <3>1. \A v \in Writers \ {w} : ~HasRead(v, t)'
            BY <1>1, <2>1, <2>3 DEF Contended, HasRead
        <3> QED BY <1>1, <2>3, <3>1
    <2>4. CASE t # s
        <3>1. ~HasRead(w, t)'
            BY <1>1, <2>4 DEF HasRead, SourceRows
        <3> QED BY <1>1, <2>2, <3>1 DEF Readings
    <2> QED BY <2>3, <2>4
<1>7. Averages'
    <2>1. ASSUME NEW n
          PROVE  Counted(n)' = Counted(n)
        BY <1>3 DEF Counted
    <2> QED BY <2>1 DEF Averages, IsMeanOf, SumOf
<1> QED BY <1>2, <1>5, <1>6, <1>7

LEMMA WeighScores ==
    ASSUME ContentInv, AverageInv, NEW w \in Writers, Weigh(w)
    PROVE  AverageInv'
<1>1. writer[w].at = "weigh" /\ UNCHANGED <<dealing, sources, planted, items, stored>>
    BY DEF Weigh, sourceVars, itemVars
<1>2. CASE ~Exists(writer[w].source) /\ Goto(w, "queue") /\ UNCHANGED disturbed
    <2>1. Alone(w) /\ FitsHands(w)'
        BY <1>1, <1>2, GotoFits
    <2>2. \A s \in sources : s.id # writer[w].source
        BY <1>2 DEF Exists
    <2> QED BY <1>1, <1>2, <2>1, <2>2, ScoresStay
<1>3. ASSUME NEW s \in sources, s.id = writer[w].source,
             writer' = [writer EXCEPT ![w].at = "update", ![w].avg = s.avg, ![w].scored = s.scored],
             disturbed' = IF Contended(w) THEN disturbed \cup {s.id} ELSE disturbed
      PROVE  AverageInv'
    <2>1. /\ writer'[w].at = "update" /\ writer'[w].avg = s.avg /\ writer'[w].scored = s.scored
          /\ writer'[w].item = writer[w].item /\ writer'[w].source = writer[w].source
          /\ writer'[w].total = writer[w].total /\ Alone(w)
        BY <1>3 DEF ContentInv, ContentTypes, Fields, Alone
    <2> QED BY ONLY ContentInv, AverageInv, w \in Writers, <1>1, s \in sources, <1>3, <2>1, ReadScores
<1> QED BY <1>2, <1>3 DEF Weigh

\* The score is counted, on top of what is still in the row.
LEMMA UpdateScores ==
    ASSUME ContentAssumption, ContentInv, AverageInv, NEW w \in Writers, Update(w)
    PROVE  AverageInv'
<1> USE DEF AverageInv
<1> DEFINE avg == NewAverage(writer[w].avg, writer[w].scored, writer[w].total)
           scored == writer[w].scored + 1
<1>1. PICK s \in sources :
        /\ s.id = writer[w].source
        /\ \E on \in BOOLEAN :
            sources' = (sources \ {s}) \cup {[s EXCEPT !.avg = avg, !.scored = scored, !.active = on]}
    <2>1. PICK s \in sources :
            /\ s.id = writer[w].source
            /\ LET poor == 2 * avg < 5 * Precision /\ scored >= TrialScores
               IN sources' = (sources \ {s}) \cup
                    {[s EXCEPT !.avg = avg, !.scored = scored, !.active = @ /\ ~poor]}
        BY DEF Update
    <2> DEFINE on == s.active /\ ~(2 * avg < 5 * Precision /\ scored >= TrialScores)
    <2>2. sources' = (sources \ {s}) \cup {[s EXCEPT !.avg = avg, !.scored = scored, !.active = on]}
        BY <2>1
    <2>3. on \in BOOLEAN
        OBVIOUS
    <2> HIDE DEF on, avg, scored
    <2> QED BY <2>1, <2>2, <2>3
<1>2. PICK on \in BOOLEAN :
        sources' = (sources \ {s}) \cup {[s EXCEPT !.avg = avg, !.scored = scored, !.active = on]}
    BY <1>1
<1> DEFINE entry == [s EXCEPT !.avg = avg, !.scored = scored, !.active = on]
<1>3. /\ writer[w].at = "update" /\ Scoring(w) /\ Owes(w) /\ HasRead(w, s)
      /\ UNCHANGED <<dealing, planted, items, stored, disturbed>>
    BY <1>1 DEF Update, Scoring, Owes, HasRead, itemVars
<1>4. writer[w].avg \in Nat /\ writer[w].scored \in Nat /\ writer[w].total \in 1 .. 7
    BY <1>3 DEF Hands
<1>5. Precision \in Nat
    BY DEF ContentAssumption, Src!SourcesAssumption
<1>6. avg \in Nat /\ scored \in Nat
    <2>1. writer[w].total \in Nat /\ 0 \in Int
        BY <1>4
    <2>2. avg \in Nat
        BY <1>4, <1>5, <2>1, NewAverageRounds
    <2> QED BY <1>4, <2>2
<1> HIDE DEF avg, scored
<1>7. /\ DOMAIN entry = SourceFields /\ entry.id = s.id /\ entry.avg = avg /\ entry.scored = scored
      /\ s.id \in 1 .. planted
    BY DEF SourceRows, SourceFields
<1>8. sources' = (sources \ {s}) \cup {entry}
    BY <1>2
<1> HIDE DEF entry
<1>9. /\ writer'[w].at = "queue"
      /\ writer'[w].source = writer[w].source
      /\ \A v \in Writers \ {w} : writer'[v] = writer[v]
    BY DEF Update, ContentInv, ContentTypes, Fields
<1>10. PICK i \in items : i.id = writer[w].item
    BY <1>1, <1>3 DEF Hands, Exists, Kept
<1>11. i.source = s.id /\ i.total = writer[w].total
    BY <1>1, <1>3, <1>10 DEF Hands
<1>12. SourceRows'
    <2>1. \A t \in sources' : /\ DOMAIN t = SourceFields
                              /\ t.id \in 1 .. planted' /\ t.avg \in Nat /\ t.scored \in Nat
        BY <1>3, <1>6, <1>7, <1>8 DEF SourceRows
    <2>2. \A t, u \in sources' : t.id = u.id => t = u
        BY <1>7, <1>8 DEF SourceRows
    <2> QED BY <1>3, <2>1, <2>2 DEF SourceRows
<1>13. ItemRows'
    BY <1>3 DEF ItemRows
<1>14. \A v \in Writers : Scoring(v)' => v # w /\ Scoring(v) /\ writer'[v] = writer[v]
    BY <1>9 DEF Scoring
<1>15. \A v \in Writers : Owes(v)' => v # w /\ Owes(v) /\ writer'[v] = writer[v]
    BY <1>9 DEF Owes
<1>16. \A n : Exists(n)' <=> Exists(n)
    BY <1>7, <1>8 DEF Exists
<1>17. Hands'
    <2>1. \A v \in Writers :
            /\ writer'[v].source \in 0 .. planted'
            /\ writer'[v].at \in {"idle", "recycle", "gather"} => writer'[v].source = 0
            /\ writer'[v].at = "save" => dealing' \/ writer'[v].total \in 1 .. 7
        BY <1>3, <1>9 DEF Hands
    <2>2. \A v \in Writers :
            /\ Scoring(v)' => writer'[v].item \in 1 .. stored' /\ writer'[v].total \in 1 .. 7
            /\ writer'[v].at = "update" => writer'[v].avg \in Nat /\ writer'[v].scored \in Nat
        BY <1>3, <1>14 DEF Hands, Scoring
    <2>3. \A v \in Writers :
            /\ Owes(v)' => writer'[v].source # 0
            /\ Owes(v)' /\ Exists(writer[v].source)' => Kept(writer[v].item)'
        <3>1. SUFFICES ASSUME NEW v \in Writers, Owes(v)'
                       PROVE  /\ writer'[v].source # 0
                              /\ Exists(writer[v].source)' => Kept(writer[v].item)'
            OBVIOUS
        <3>2. Owes(v) /\ writer'[v] = writer[v]
            BY <1>15, <3>1
        <3>3. Exists(writer[v].source)' => Exists(writer[v].source)
            BY <1>16, <3>2
        <3>4. Kept(writer[v].item) => Kept(writer[v].item)'
            BY <1>3, <3>2 DEF Kept
        <3> QED BY <3>2, <3>3, <3>4 DEF Hands
    <2>4. \A v \in Writers : \A j \in items' :
            Scoring(v)' /\ j.id = writer'[v].item =>
                /\ j.source = writer'[v].source
                /\ j.total = IF writer'[v].at = "rate" THEN 0 ELSE writer'[v].total
        BY <1>3, <1>14 DEF Hands
    <2>5. \A u, v \in Writers :
            Scoring(u)' /\ Scoring(v)' /\ writer'[u].item = writer'[v].item => u = v
        BY <1>14 DEF Hands
    <2> QED BY <2>1, <2>2, <2>3, <2>4, <2>5 DEF Hands
<1>18. Readings'
    <2>1. SUFFICES ASSUME NEW t \in sources', t.id \notin disturbed
                   PROVE  /\ \A v \in Writers : HasRead(v, t)' =>
                                writer'[v].avg = t.avg /\ writer'[v].scored = t.scored
                          /\ \A u, v \in Writers : HasRead(u, t)' /\ HasRead(v, t)' => u = v
        BY <1>3 DEF Readings
    <2>2. \A v \in Writers : HasRead(v, t)' => v # w /\ HasRead(v, t) /\ writer'[v] = writer[v]
        BY <1>9 DEF HasRead
    <2>3. CASE t = entry
        <3>1. \A v \in Writers : HasRead(v, t) => HasRead(v, s)
            BY <1>7, <2>3 DEF HasRead
        <3>2. \A v \in Writers : HasRead(v, s) => v = w
            BY <1>3, <1>7, <2>1, <2>3 DEF Readings
        <3> QED BY <2>2, <3>1, <3>2
    <2>4. CASE t # entry
        <3>1. t \in sources
            BY <1>8, <2>4
        <3> QED BY <2>1, <2>2, <3>1 DEF Readings
    <2> QED BY <2>3, <2>4
<1>19. ASSUME NEW n, n # s.id
       PROVE  Counted(n)' = Counted(n)
    <2>1. \A v \in Writers :
            Owes(v)' /\ writer'[v].source = n <=> Owes(v) /\ writer[v].source = n
        BY <1>1, <1>9, <1>15, <1>19 DEF Owes
    <2>2. \A v \in Writers : Owes(v)' => writer'[v].item = writer[v].item
        BY <1>15
    <2> QED BY <1>3, <2>1, <2>2 DEF Counted
<1>20. Counted(s.id)' = Counted(s.id) \cup {i} /\ i \notin Counted(s.id)
    <2>1. i \notin Counted(s.id)
        BY <1>1, <1>3, <1>10 DEF Counted
    <2>2. \A v \in Writers : Owes(v)' => writer'[v].item # i.id
        BY <1>3, <1>10, <1>15 DEF Hands, Owes, Scoring
    <2>3. i \in Counted(s.id)'
        BY <1>3, <1>4, <1>11, <2>2 DEF Counted
    <2>4. ASSUME NEW j \in items, j # i
          PROVE  j \in Counted(s.id) <=> j \in Counted(s.id)'
        <3>1. j.id # i.id
            BY <2>4 DEF ItemRows
        <3>2. \A v \in Writers :
                (Owes(v)' /\ writer'[v].source = s.id => writer'[v].item # j.id)
                <=> (Owes(v) /\ writer[v].source = s.id => writer[v].item # j.id)
            BY <1>9, <1>10, <3>1 DEF Owes
        <3> QED BY <1>3, <3>2 DEF Counted
    <2>5. (\A j \in Counted(s.id) : j \in items) /\ \A j \in Counted(s.id)' : j \in items
        BY <1>3 DEF Counted
    <2> QED BY <2>1, <2>3, <2>4, <2>5
<1>21. Averages'
    <2>1. SUFFICES ASSUME NEW t \in sources', t.id \notin disturbed
                   PROVE  IsMeanOf(t.avg, t.scored, Counted(t.id))'
        BY <1>3 DEF Averages
    <2>2. CASE t = entry
        <3>1. writer[w].avg = s.avg /\ writer[w].scored = s.scored
            BY <1>3, <1>7, <2>1, <2>2 DEF Readings
        <3>2. IsMeanOf(s.avg, s.scored, Counted(s.id))
            BY <1>7, <2>1, <2>2 DEF Averages
        <3> DEFINE S == Counted(s.id)
        <3>3. IsFiniteSet(S) /\ (\A j \in S : j.total \in Nat)
            <4>1. S \subseteq items
                BY DEF Counted
            <4> HIDE DEF S
            <4> QED BY <4>1, FS_Subset DEF ItemRows
        <3>4. i.total \in Nat /\ s.avg \in Nat /\ s.scored \in Nat
            BY <1>4, <1>11 DEF SourceRows
        <3> HIDE DEF S
        <3>5. i \notin S /\ IsMeanOf(s.avg, s.scored, S)
            BY <1>20, <3>2 DEF S
        <3>6. IsMeanOf(NewAverage(s.avg, s.scored, i.total), s.scored + 1, S \cup {i})
            BY <3>3, <3>4, <3>5, MeanGrows
        <3>7. avg = NewAverage(s.avg, s.scored, i.total) /\ scored = s.scored + 1
            BY <1>11, <3>1 DEF avg, scored
        <3>8. IsMeanOf(avg, scored, Counted(s.id)')
            BY <1>20, <3>6, <3>7 DEF S
        <3>9. t.id = s.id /\ t.avg = avg /\ t.scored = scored
            BY <1>7, <2>2
        <3> QED BY <3>8, <3>9 DEF IsMeanOf, SumOf
    <2>3. CASE t # entry
        <3>1. t \in sources /\ t.id # s.id
            BY <1>8, <2>3 DEF SourceRows
        <3>2. Counted(t.id)' = Counted(t.id)
            BY <1>19, <3>1
        <3>3. IsMeanOf(t.avg, t.scored, Counted(t.id))
            BY <2>1, <3>1 DEF Averages
        <3> QED BY <3>2, <3>3 DEF IsMeanOf, SumOf
    <2> QED BY <2>2, <2>3
<1> QED BY <1>12, <1>13, <1>17, <1>18, <1>21

-----------------------------------------------------------------------------
(***************************************************************************)
(* The sources themselves, and all steps.                                  *)
(***************************************************************************)

\* A source nobody has scored has no mean to keep.
LEMMA NothingHasMean ==
    ASSUME NEW avg \in Nat, Precision \in Nat
    PROVE  IsMeanOf(avg, 0, {})
<1>1. Cardinality({}) = 0
    BY FS_EmptySet
<1>2. SumOf({}) = 0
    <2> DEFINE total == [i \in {} |-> i.total]
    <2> HIDE DEF total
    <2>1. SumFunctionOnSet(total, {}) = 0
        BY FS_EmptySet, SumEquation
    <2> QED BY <2>1 DEF SumOf, total
<1> QED BY <1>1, <1>2 DEF IsMeanOf

\* New sources are numbered from the last one on and have no score, the others keep theirs.
LEMMA SourcesChange ==
    ASSUME ContentAssumption, AverageInv, SourceRows', planted <= planted',
           UNCHANGED <<dealing, writer, items, stored, disturbed>>,
           \A s \in sources' :
                \/ s.id > planted /\ s.scored = 0
                \/ \E t \in sources : t.id = s.id /\ t.avg = s.avg /\ t.scored = s.scored
    PROVE  AverageInv'
<1> USE DEF AverageInv
<1>1. planted \in Nat /\ planted' \in Nat
    BY DEF SourceRows
<1>2. \A n \in 0 .. planted : n \in 0 .. planted'
    BY <1>1
<1>3. ItemRows'
    BY <1>2 DEF ItemRows
<1>4. Hands'
    <2>1. ASSUME NEW v \in Writers, Exists(writer[v].source)'
          PROVE  Exists(writer[v].source)
        <3>1. writer[v].source \in 0 .. planted
            BY DEF Hands
        <3> QED BY <1>1, <2>1, <3>1 DEF Exists
    <2>2. \A v \in Writers :
            /\ writer'[v].source \in 0 .. planted'
            /\ Owes(v)' /\ Exists(writer[v].source)' => Kept(writer[v].item)'
        BY <1>2, <2>1 DEF Hands, Owes, Kept
    <2> QED BY <2>2 DEF Hands, Scoring, Owes
<1>5. ASSUME NEW s \in sources', s.id > planted
      PROVE  (\A v \in Writers : ~HasRead(v, s)) /\ Counted(s.id) = {}
    <2>1. \A v \in Writers : writer[v].source # s.id
        BY <1>1, <1>5 DEF Hands
    <2>2. \A i \in items : i.source # s.id
        BY <1>1, <1>5 DEF ItemRows
    <2> QED BY <2>1, <2>2 DEF HasRead, Counted
<1>6. Readings'
    <2>1. SUFFICES ASSUME NEW s \in sources', s.id \notin disturbed
                   PROVE  /\ \A w \in Writers : HasRead(w, s) =>
                                writer[w].avg = s.avg /\ writer[w].scored = s.scored
                          /\ \A v, w \in Writers : HasRead(v, s) /\ HasRead(w, s) => v = w
        BY DEF Readings, HasRead
    <2>2. CASE s.id > planted
        BY <1>5, <2>2
    <2>3. CASE \E t \in sources : t.id = s.id /\ t.avg = s.avg /\ t.scored = s.scored
        BY <2>1, <2>3 DEF Readings, HasRead
    <2> QED BY <2>2, <2>3
<1>7. Averages'
    <2>a. \A n : Counted(n)' = Counted(n)
        BY DEF Counted, Owes
    <2>1. SUFFICES ASSUME NEW s \in sources', s.id \notin disturbed
                   PROVE  IsMeanOf(s.avg, s.scored, Counted(s.id))
        BY <2>a DEF Averages, IsMeanOf, SumOf
    <2>2. CASE s.id > planted /\ s.scored = 0
        <3>1. s.avg \in Nat
            BY DEF SourceRows
        <3>2. Precision \in Nat
            BY DEF ContentAssumption, Src!SourcesAssumption
        <3>3. IsMeanOf(s.avg, 0, {})
            BY <3>1, <3>2, NothingHasMean
        <3> QED BY <1>5, <2>2, <3>3
    <2>3. CASE \E t \in sources : t.id = s.id /\ t.avg = s.avg /\ t.scored = s.scored
        BY <2>1, <2>3 DEF Averages
    <2> QED BY <2>2, <2>3
<1> QED BY <1>3, <1>4, <1>6, <1>7

\* Sizes are the same in the module of the sources.
LEMMA SameSize ==
    ASSUME NEW S
    PROVE  (Src!IsFiniteSet(S) <=> IsFiniteSet(S)) /\ Src!Cardinality(S) = Cardinality(S)
<1>1. Src!IsFiniteSet(S) <=> IsFiniteSet(S)
    BY Zenon DEF Src!IsFiniteSet, IsFiniteSet
<1>2. Src!Cardinality(S) = Cardinality(S)
    BY Zenon DEF Src!Cardinality, Cardinality
<1> QED BY <1>1, <1>2

\* The rows of a seeding.
LEMMA SeededRows ==
    ASSUME ContentAssumption, planted \in Nat, NEW site, NEW rows \in Src!SeedRows(site)
    PROVE  /\ Cardinality(rows) \in Nat
           /\ \A s \in rows : /\ DOMAIN s = SourceFields
                              /\ s.id \in planted + 1 .. planted + Cardinality(rows)
                              /\ s.avg \in Nat
                              /\ s.scored = 0
           /\ \A s, t \in rows : s.id = t.id => s = t
<1> DEFINE n == Cardinality(CategoryFeeds)
           first == IF site = "none" THEN planted ELSE planted + 1
           own == IF site = "none" THEN {} ELSE {Src!OwnSource(first, site)}
<1>1. PICK q \in [1 .. n -> CategoryFeeds] :
            rows = own \cup {Src!NewSource(first + i, q[i], q[i]) : i \in 1 .. n}
    <2>1. Src!Cardinality(CategoryFeeds) = n
        BY SameSize
    <2> QED BY <2>1 DEF Src!SeedRows
<1>2. n \in Nat /\ first \in Nat /\ Precision \in Nat
    <2>1. IsFiniteSet(CategoryFeeds) /\ Precision \in Nat
        BY SameSize DEF ContentAssumption, Src!SourcesAssumption
    <2> QED BY <2>1, FS_CardinalityType
<1> DEFINE entry(i) == Src!NewSource(first + i, q[i], q[i])
           feeds == {entry(i) : i \in 1 .. n}
           number == [i \in 1 .. n |-> entry(i)]
           page == Src!OwnSource(planted + 1, site)
<1>3. \A i \in 1 .. n : /\ DOMAIN entry(i) = SourceFields
                        /\ entry(i).id = first + i /\ entry(i).avg = 0 /\ entry(i).scored = 0
    BY DEF Src!NewSource, SourceFields
<1>4. /\ DOMAIN page = SourceFields
      /\ page.id = planted + 1 /\ page.avg = 5 * Precision /\ page.scored = 0
    BY DEF Src!OwnSource, SourceFields
<1>5. 5 * Precision \in Nat
    BY <1>2
<1>6. IsFiniteSet(feeds) /\ Cardinality(feeds) = n
    <2>1. IsFiniteSet(1 .. n) /\ Cardinality(1 .. n) = n
        BY <1>2, FS_Interval
    <2>2. number \in Surjection(1 .. n, feeds)
        BY DEF Surjection
    <2> HIDE DEF entry
    <2>3. \A i, j \in 1 .. n : entry(i) = entry(j) => i = j
        BY <1>2, <1>3
    <2>4. number \in Injection(1 .. n, feeds)
        BY <2>3 DEF Injection, IsInjective
    <2> HIDE DEF number, feeds
    <2> QED BY <2>1, <2>2, <2>4, FS_Surjection
<1>7. \A s \in feeds : \E i \in 1 .. n : s = entry(i)
    OBVIOUS
<1>8. CASE site = "none"
    <2>1. rows = feeds /\ first = planted
        BY <1>1, <1>8
    <2> HIDE DEF entry, feeds, first, page, number
    <2> QED BY <1>2, <1>3, <1>6, <1>7, <2>1
<1>9. CASE site # "none"
    <2>1. rows = feeds \cup {page} /\ first = planted + 1
        BY <1>1, <1>9
    <2> HIDE DEF entry, feeds, first, page, number
    <2>2. page \notin feeds
        BY <1>2, <1>3, <1>4, <1>7, <2>1
    <2>3. Cardinality(rows) = n + 1
        BY <1>6, <2>1, <2>2, FS_AddElement
    <2>4. \A s \in rows : s = page \/ \E i \in 1 .. n : s = entry(i)
        BY <1>7, <2>1
    <2>5. \A s \in rows : /\ DOMAIN s = SourceFields
                          /\ s.id \in planted + 1 .. planted + (n + 1)
                          /\ s.avg \in Nat
                          /\ s.scored = 0
        BY <1>2, <1>3, <1>4, <1>5, <2>1, <2>4
    <2>6. \A s, t \in rows : s.id = t.id => s = t
        BY <1>2, <1>3, <1>4, <2>1, <2>4
    <2> QED BY <1>2, <2>3, <2>5, <2>6
<1> QED BY <1>8, <1>9

\* Seeding and adding make new sources; an edit keeps the average.
LEMMA ChangeScores ==
    ASSUME ContentAssumption, AverageInv, Src!ChangeSources,
           UNCHANGED <<dealing, itemVars, outputVars, runVars>>
    PROVE  AverageInv'
<1>1. planted \in Nat /\ SourceRows /\ UNCHANGED <<dealing, writer, items, stored, disturbed>>
    BY DEF AverageInv, SourceRows, itemVars, runVars
<1>2. ASSUME UNCHANGED <<sources, planted>>
      PROVE  AverageInv'
    <2>1. SourceRows' /\ planted <= planted'
        BY <1>1, <1>2 DEF SourceRows
    <2>2. \A s \in sources' : \E t \in sources : t.id = s.id /\ t.avg = s.avg /\ t.scored = s.scored
        BY <1>2
    <2> QED BY <1>1, <2>1, <2>2, SourcesChange
<1>3. ASSUME NEW rows, NEW n \in Nat, planted' = planted + n, sources' = sources \cup rows,
             \A s \in rows : /\ DOMAIN s = SourceFields
                             /\ s.id \in planted + 1 .. planted + n
                             /\ s.avg \in Nat
                             /\ s.scored = 0,
             \A s, t \in rows : s.id = t.id => s = t
      PROVE  AverageInv'
    <2>1. planted' \in Nat /\ planted <= planted'
        BY <1>1, <1>3
    <2>2. \A s \in sources' : /\ DOMAIN s = SourceFields
                              /\ s.id \in 1 .. planted' /\ s.avg \in Nat /\ s.scored \in Nat
        BY <1>1, <1>3 DEF SourceRows
    <2>3. \A s, t \in sources' : s.id = t.id => s = t
        BY <1>1, <1>3 DEF SourceRows
    <2>4. SourceRows'
        BY <2>1, <2>2, <2>3 DEF SourceRows
    <2>5. \A s \in sources' :
            \/ s.id > planted /\ s.scored = 0
            \/ \E t \in sources : t.id = s.id /\ t.avg = s.avg /\ t.scored = s.scored
        BY <1>1, <1>3
    <2> QED BY <1>1, <2>1, <2>4, <2>5, SourcesChange
<1>4. ASSUME NEW o \in Seeders, Src!SeederStep(o)
      PROVE  AverageInv'
    <2>1. CASE Src!SeedCheck(o) \/ Src!SeedFails(o)
        BY <1>2, <2>1 DEF Src!SeedCheck, Src!SeedFails
    <2>2. CASE Src!SeedInsert(o)
        <3>1. PICK clue \in Clues : \E rows \in Src!SeedRows(Src!Website(clue)) :
                planted' = planted + Cardinality(rows) /\ sources' = sources \cup rows
            BY <2>2, SameSize DEF Src!SeedInsert
        <3>2. PICK site : site = Src!Website(clue)
            OBVIOUS
        <3>3. PICK rows \in Src!SeedRows(site) :
                planted' = planted + Cardinality(rows) /\ sources' = sources \cup rows
            BY <3>1, <3>2
        <3>4. PICK n : n = Cardinality(rows)
            OBVIOUS
        <3>5. /\ n \in Nat
              /\ \A s \in rows : /\ DOMAIN s = SourceFields
                                 /\ s.id \in planted + 1 .. planted + n
                                 /\ s.avg \in Nat
                                 /\ s.scored = 0
              /\ \A s, t \in rows : s.id = t.id => s = t
            BY <1>1, <3>4, SeededRows
        <3>6. planted' = planted + n /\ sources' = sources \cup rows
            BY <3>3, <3>4
        <3> QED BY <1>3, <3>5, <3>6
    <2> QED BY <1>4, <2>1, <2>2 DEF Src!SeederStep
<1>5. ASSUME NEW feed \in Src!Feeds, Src!Add(feed)
      PROVE  AverageInv'
    <2>1. PICK entry : entry = Src!NewSource(planted + 1, feed, "none")
        OBVIOUS
    <2>2. DOMAIN entry = SourceFields /\ entry.id = planted + 1 /\ entry.avg = 0 /\ entry.scored = 0
        BY <2>1 DEF Src!NewSource, SourceFields
    <2>3. PICK rows : rows = {entry}
        OBVIOUS
    <2>4. PICK n \in Nat : n = 1
        OBVIOUS
    <2>5. planted' = planted + n /\ sources' = sources \cup rows
        BY <1>5, <2>1, <2>3, <2>4 DEF Src!Add
    <2>6. /\ \A s \in rows : /\ DOMAIN s = SourceFields
                             /\ s.id \in planted + 1 .. planted + n
                             /\ s.avg \in Nat
                             /\ s.scored = 0
          /\ \A s, t \in rows : s.id = t.id => s = t
        BY <1>1, <2>2, <2>3, <2>4
    <2> QED BY <1>3, <2>5, <2>6
<1>6. ASSUME NEW s \in sources, NEW active \in BOOLEAN, NEW feed \in Src!Feeds,
             Src!Edit(s, active, feed)
      PROVE  AverageInv'
    <2>1. PICK entry : entry = [s EXCEPT !.active = active, !.feed = feed]
        OBVIOUS
    <2>2. sources' = (sources \ {s}) \cup {entry} /\ planted' = planted
        BY <1>6, <2>1 DEF Src!Edit
    <2>3. DOMAIN entry = SourceFields /\ entry.id = s.id /\ entry.avg = s.avg /\ entry.scored = s.scored
        BY <1>1, <2>1 DEF SourceRows, SourceFields
    <2>4. SourceRows'
        BY <1>1, <2>2, <2>3 DEF SourceRows
    <2>5. \A t \in sources' : \E u \in sources : u.id = t.id /\ u.avg = t.avg /\ u.scored = t.scored
        BY <2>2, <2>3
    <2> QED BY <1>1, <2>2, <2>4, <2>5, SourcesChange
<1> QED BY <1>4, <1>5, <1>6 DEF Src!ChangeSources

\* The items of a source go with it.
LEMMA DeleteScores ==
    ASSUME ContentAssumption, AverageInv, NEW s \in sources, Delete(s)
    PROVE  AverageInv'
<1> USE DEF AverageInv
<1> DEFINE gone == {i \in items : i.source = s.id}
<1>1. /\ sources' = sources \ {s}
      /\ items' = items \ gone
      /\ UNCHANGED <<dealing, planted, writer, stored, disturbed>>
    BY DEF Delete, Src!Delete, runVars
<1>2. \A i \in items' : i \in items /\ i.source # s.id
    BY <1>1
<1>3. \A t \in sources' : t \in sources /\ t.id # s.id
    BY <1>1 DEF SourceRows
<1>4. SourceRows'
    BY <1>1 DEF SourceRows
<1>5. ItemRows'
    <2>1. IsFiniteSet(items')
        BY <1>1, FS_Subset DEF ItemRows
    <2> QED BY <1>1, <2>1 DEF ItemRows
<1>6. Hands'
    <2>1. ASSUME NEW v \in Writers, Owes(v)', Exists(writer[v].source)'
          PROVE  Kept(writer[v].item)'
        <3>1. Owes(v) /\ writer'[v] = writer[v] /\ writer[v].source # 0
            BY <1>1, <2>1 DEF Owes, Hands
        <3>2. Exists(writer[v].source) /\ writer[v].source # s.id
            BY <1>1, <1>3, <2>1, <3>1 DEF Exists
        <3>3. Kept(writer[v].item)
            BY <3>1, <3>2 DEF Hands
        <3>4. \A i \in items : i.id = writer[v].item => i.source = writer[v].source
            BY <3>1 DEF Hands, Owes, Scoring
        <3> QED BY <1>1, <3>2, <3>3, <3>4 DEF Kept
    <2>2. \A v \in Writers : \A i \in items' :
            Scoring(v)' /\ i.id = writer'[v].item =>
                /\ i.source = writer'[v].source
                /\ i.total = IF writer'[v].at = "rate" THEN 0 ELSE writer'[v].total
        BY <1>1, <1>2 DEF Hands, Scoring
    <2>3. \A v \in Writers :
            /\ writer'[v].source \in 0 .. planted'
            /\ writer'[v].at \in {"idle", "recycle", "gather"} => writer'[v].source = 0
            /\ writer'[v].at = "save" => dealing' \/ writer'[v].total \in 1 .. 7
            /\ Scoring(v)' => writer'[v].item \in 1 .. stored' /\ writer'[v].total \in 1 .. 7
            /\ writer'[v].at = "update" => writer'[v].avg \in Nat /\ writer'[v].scored \in Nat
            /\ Owes(v)' => writer'[v].source # 0
        BY <1>1 DEF Hands, Scoring, Owes
    <2>4. \A u, v \in Writers :
            Scoring(u)' /\ Scoring(v)' /\ writer'[u].item = writer'[v].item => u = v
        BY <1>1 DEF Hands, Scoring
    <2> QED BY <2>1, <2>2, <2>3, <2>4 DEF Hands
<1>7. Readings'
    BY <1>1, <1>3 DEF Readings, HasRead
<1>8. Averages'
    <2>1. ASSUME NEW n, n # s.id
          PROVE  Counted(n)' = Counted(n)
        BY <1>1, <2>1 DEF Counted, Owes
    <2> QED BY <1>1, <1>3, <2>1 DEF Averages, IsMeanOf, SumOf
<1> QED BY <1>4, <1>5, <1>6, <1>7, <1>8

LEMMA ScoresInit ==
    ASSUME ContentAssumption, ContentInit
    PROVE  AverageInv
<1>1. /\ sources \in {{}, StartSources} /\ planted = Cardinality(sources)
      /\ items = {} /\ stored = 0
      /\ \A w \in Writers : writer[w].at = "idle" /\ writer[w].source = 0
    BY DEF ContentInit, Resting
<1>2. IsFiniteSet(sources) /\ planted \in Nat
    BY <1>1, FS_EmptySet, FS_CardinalityType DEF ContentAssumption
<1>3. \A s \in sources : /\ DOMAIN s = SourceFields
                         /\ s.id \in 1 .. planted /\ s.avg \in Nat /\ s.scored = 0
    BY <1>1 DEF ContentAssumption, SourceFields
<1>4. SourceRows
    BY <1>1, <1>2, <1>3 DEF SourceRows, ContentAssumption
<1>5. ItemRows
    BY <1>1, FS_EmptySet DEF ItemRows
<1>6. \A w \in Writers : ~Scoring(w) /\ ~Owes(w)
    BY <1>1 DEF Scoring, Owes
<1>7. Hands
    BY <1>1, <1>2, <1>6 DEF Hands
<1>8. Readings
    BY <1>1 DEF Readings, HasRead
<1>9. Averages
    <2>1. \A n : Counted(n) = {}
        BY <1>1 DEF Counted
    <2>2. Precision \in Nat
        BY DEF ContentAssumption, Src!SourcesAssumption
    <2>3. ASSUME NEW s \in sources
          PROVE  IsMeanOf(s.avg, s.scored, Counted(s.id))
        <3>1. s.avg \in Nat /\ s.scored = 0
            BY <1>3
        <3>2. IsMeanOf(s.avg, 0, {})
            BY <2>2, <3>1, NothingHasMean
        <3> QED BY <2>1, <3>1, <3>2
    <2> QED BY <2>3 DEF Averages
<1> QED BY <1>4, <1>5, <1>7, <1>8, <1>9 DEF AverageInv

LEMMA ScoresNext ==
    ASSUME ContentAssumption, ContentInv, AverageInv, [ContentNext]_contentVars
    PROVE  AverageInv'
<1>1. ASSUME NEW w \in Writers, WriterStep(w)
      PROVE  AverageInv'
    BY <1>1, BeginScores, RecycleScores, GatherScores, SaveScores, RateScores, WeighScores,
       UpdateScores, QueueScores, DropScores, MarkScores, FailScores DEF WriterStep
<1>2. CASE SourceStep
    BY <1>2, ChangeScores, DeleteScores DEF SourceStep
<1>3. CASE UNCHANGED contentVars
    <2>1. UNCHANGED <<dealing, sources, planted, writer, items, stored, disturbed>>
        BY <1>3 DEF contentVars, sourceVars, itemVars, runVars
    <2>2. SourceRows' /\ planted <= planted'
        BY <2>1 DEF AverageInv, SourceRows
    <2>3. \A s \in sources' : \E t \in sources : t.id = s.id /\ t.avg = s.avg /\ t.scored = s.scored
        BY <2>1
    <2> QED BY <2>1, <2>2, <2>3, SourcesChange
<1> QED BY <1>1, <1>2, <1>3 DEF ContentNext

\* Where each score is, for any runs, sources, articles and bounds.
THEOREM AverageInvariance ==
    ASSUME ContentAssumption
    PROVE  ContentSpec => []AverageInv
<1>1. ContentInit => AverageInv
    BY ScoresInit
<1>2. ContentInv /\ AverageInv /\ [ContentNext]_contentVars => AverageInv'
    BY ScoresNext
<1> QED BY <1>1, <1>2, ContentInvariance, PTL DEF ContentSpec

\* The quality of a source is the mean of the scores its items were given, up to the
\* rounding of each step, however runs, edits and deletions interleave, unless two runs
\* worked on it at a time or one ended before it had counted its score
\* (tools/content.py:194-198, 649-663).
THEOREM AverageIsTrue ==
    ASSUME ContentAssumption
    PROVE  ContentSpec => []AverageIsOfScores
<1>1. AverageInv => AverageIsOfScores
    <2>1. SUFFICES ASSUME AverageInv, NEW s \in sources, s.id \notin disturbed
                   PROVE  LET counted == {i \in ScoresOf(s) : i.id \notin Uncounted(s)}
                              n == Cardinality(counted)
                              drift == s.avg * n - Precision * SumOf(counted)
                          IN  /\ s.scored = n
                              /\ n > 0 => /\ 4 * drift <= n * (n + 1)
                                          /\ -4 * drift <= n * (n + 1)
        BY DEF AverageIsOfScores
    <2>2. {i \in ScoresOf(s) : i.id \notin Uncounted(s)} = Counted(s.id)
        BY DEF ScoresOf, Uncounted, Counted, Owes
    <2>3. IsMeanOf(s.avg, s.scored, Counted(s.id))
        BY <2>1 DEF AverageInv, Averages
    <2> QED BY <2>2, <2>3 DEF IsMeanOf
<1> QED BY <1>1, AverageInvariance, PTL

-----------------------------------------------------------------------------
(***************************************************************************)
(* Types and bounds.  TallyInv counts runs: each has saved one item and    *)
(* queued one post at most, so there are no more of either than runs       *)
(* begun; FieldsInv is what is left of ContentTypeOK.                      *)
(***************************************************************************)

\* Runs that may still save an item, and those that may still queue a post.
Unsaved == {"recycle", "gather", "save"}
Unwritten == Unsaved \cup Recorded

At(places) == {w \in Writers : writer[w].at \in places}

\* So many were made of one kind, by runs that are no longer at these places.
Tally(made, places) == IsFiniteSet(At(places)) /\ made + Cardinality(At(places)) <= begun

TallyInv ==
    /\ begun \in 0 .. MostRuns
    /\ Tally(stored, Unsaved)
    /\ Tally(Len(written), Unwritten)

FieldsInv ==
    /\ Src!SourcesTypeOK
    /\ dealing \in BOOLEAN
    /\ \A i \in items : i.article \in Found
    /\ answered \subseteq Slot
    /\ troubles \in Nat
    /\ troubles + edits <= MostTrouble

\* One run goes to a place, the others stay where they are.
Walks(w, at) ==
    /\ writer'[w].at = at
    /\ \A v \in Writers \ {w} : writer'[v].at = writer[v].at

LEMMA GotoWalks ==
    ASSUME ContentTypes, NEW w \in Writers, NEW place, Goto(w, place)
    PROVE  Walks(w, place)
BY GotoMoves DEF Moved, Walks

LEMMA EndWalks ==
    ASSUME ContentTypes, NEW w \in Writers, End(w)
    PROVE  Walks(w, "idle")
BY EndMoves DEF Moved, Walks

\* The number of runs at some places, when one more is begun, one makes what it has to
\* make, or one gives up.
LEMMA TallyAdds ==
    ASSUME NEW S, IsFiniteSet(S), NEW w, w \notin S, NEW n \in Nat, NEW b \in Nat,
           n + Cardinality(S) <= b
    PROVE  IsFiniteSet(S \cup {w}) /\ n + Cardinality(S \cup {w}) <= b + 1
<1>1. Cardinality(S \cup {w}) = Cardinality(S) + 1 /\ IsFiniteSet(S \cup {w})
    BY FS_AddElement
<1>2. Cardinality(S) \in Nat
    BY FS_CardinalityType
<1> QED BY <1>1, <1>2

LEMMA TallyMoves ==
    ASSUME NEW S, IsFiniteSet(S), NEW w \in S, NEW n \in Nat, NEW b \in Nat,
           n + Cardinality(S) <= b
    PROVE  IsFiniteSet(S \ {w}) /\ (n + 1) + Cardinality(S \ {w}) <= b
<1>1. Cardinality(S \ {w}) = Cardinality(S) - 1 /\ IsFiniteSet(S \ {w})
    BY FS_RemoveElement
<1>2. Cardinality(S) \in Nat
    BY FS_CardinalityType
<1> QED BY <1>1, <1>2

LEMMA TallyShrinks ==
    ASSUME NEW S, IsFiniteSet(S), NEW T, T \subseteq S, NEW n \in Nat, NEW b \in Nat,
           n + Cardinality(S) <= b
    PROVE  IsFiniteSet(T) /\ n + Cardinality(T) <= b
<1>1. IsFiniteSet(T) /\ Cardinality(T) <= Cardinality(S)
    BY FS_Subset
<1>2. Cardinality(S) \in Nat /\ Cardinality(T) \in Nat
    BY <1>1, FS_CardinalityType
<1> QED BY <1>1, <1>2

\* What a step of a run does to the numbers.
Begins(w, at) ==
    /\ writer[w].at = "idle" /\ at \in {"recycle", "gather"}
    /\ begun < MostRuns /\ begun' = begun + 1 /\ UNCHANGED <<stored, written>>

Saves(w, at) ==
    /\ writer[w].at = "save" /\ at \in {"queue", "rate"}
    /\ stored' = stored + 1 /\ UNCHANGED <<begun, written>>

Queues(w, at) ==
    /\ writer[w].at = "queue" /\ at \in {"idle", "mark"}
    /\ Len(written') = Len(written) + 1 /\ UNCHANGED <<begun, stored>>

Quiet(w, at) ==
    /\ at \in Unsaved => writer[w].at \in Unsaved
    /\ at \in Unwritten => writer[w].at \in Unwritten
    /\ UNCHANGED <<begun, stored, written>>

LEMMA WriterWalks ==
    ASSUME ContentTypes, NEW w \in Writers, WriterStep(w)
    PROVE  \E at : Walks(w, at) /\ (Begins(w, at) \/ Saves(w, at) \/ Queues(w, at) \/ Quiet(w, at))
<1> USE DEF Unsaved, Unwritten, Recorded
<1> SUFFICES \E at : /\ Walks(w, at)
                     /\ Begins(w, at) \/ Saves(w, at) \/ Queues(w, at) \/ Quiet(w, at)
    OBVIOUS
<1>1. CASE BeginRun(w)
    <2>1. PICK s \in Slot : writer' = [writer EXCEPT
                ![w].at = IF Plan[s].kind = "recycle" THEN "recycle" ELSE "gather",
                ![w].slot = s,
                ![w].seen = Len(written)]
        BY <1>1 DEF BeginRun
    <2>2. PICK at \in {"recycle", "gather"} : at = IF Plan[s].kind = "recycle" THEN "recycle" ELSE "gather"
        OBVIOUS
    <2>3. writer' = [writer EXCEPT ![w].at = at, ![w].slot = s, ![w].seen = Len(written)]
        BY <2>1, <2>2
    <2>4. Walks(w, at)
        BY <2>3 DEF Walks, ContentTypes, Fields
    <2>5. Begins(w, at)
        BY <1>1, <2>2 DEF Begins, BeginRun, itemVars
    <2> QED BY <2>4, <2>5
<1>2. CASE Recycle(w)
    <2>1. PICK at \in {"queue", "gather"} : Goto(w, at)
        BY <1>2 DEF Recycle
    <2>2. Walks(w, at)
        BY <2>1, GotoWalks
    <2>3. Quiet(w, at)
        BY <1>2, <2>1 DEF Quiet, Recycle, itemVars, outputVars
    <2> QED BY <2>2, <2>3
<1>3. CASE Gather(w)
    <2>1. writer[w].at = "gather" /\ UNCHANGED <<begun, stored, written>>
        BY <1>3 DEF Gather, itemVars, outputVars
    <2>2. \/ \E f, recent : Take(w, f, recent)
          \/ IF dealing THEN End(w) ELSE Goto(w, "queue")
        BY <1>3 DEF Gather
    <2>3. CASE \E f, recent : Take(w, f, recent)
        <3>1. Walks(w, "save")
            BY <2>3 DEF Take, Walks, ContentTypes, Fields
        <3>2. Quiet(w, "save")
            BY <2>1 DEF Quiet
        <3> QED BY <3>1, <3>2
    <2>4. CASE dealing /\ End(w)
        <3>1. Walks(w, "idle") /\ Quiet(w, "idle")
            BY <2>1, <2>4, EndWalks DEF Quiet
        <3> QED BY <3>1
    <2>5. CASE ~dealing /\ Goto(w, "queue")
        <3>1. Walks(w, "queue") /\ Quiet(w, "queue")
            BY <2>1, <2>5, GotoWalks DEF Quiet
        <3> QED BY <3>1
    <2> QED BY <2>2, <2>3, <2>4, <2>5
<1>4. CASE Save(w)
    <2>1. PICK at \in {"queue", "rate"} : at = IF dealing THEN "queue" ELSE "rate"
        OBVIOUS
    <2>2. writer' = [writer EXCEPT ![w].at = at, ![w].item = stored + 1]
        BY <1>4, <2>1 DEF Save
    <2>3. Walks(w, at)
        BY <2>2 DEF Walks, ContentTypes, Fields
    <2>4. Saves(w, at)
        BY <1>4, <2>1 DEF Saves, Save, outputVars
    <2> QED BY <2>3, <2>4
<1>5. CASE Rate(w)
    <2>1. PICK at \in {"queue", "weigh"} : Goto(w, at)
        BY <1>5 DEF Rate
    <2>2. Walks(w, at)
        BY <2>1, GotoWalks
    <2>3. Quiet(w, at)
        BY <1>5, <2>1 DEF Quiet, Rate, outputVars
    <2> QED BY <2>2, <2>3
<1>6. CASE Weigh(w)
    <2>1. writer[w].at = "weigh" /\ UNCHANGED <<begun, stored, written>>
        BY <1>6 DEF Weigh, itemVars, outputVars
    <2>2. CASE \E s \in sources : writer' = [writer EXCEPT ![w].at = "update", ![w].avg = s.avg,
                                                           ![w].scored = s.scored]
        <3>1. Walks(w, "update")
            BY <2>2 DEF Walks, ContentTypes, Fields
        <3>2. Quiet(w, "update")
            BY <2>1 DEF Quiet
        <3> QED BY <3>1, <3>2
    <2>3. CASE Goto(w, "queue")
        <3>1. Walks(w, "queue") /\ Quiet(w, "queue")
            BY <2>1, <2>3, GotoWalks DEF Quiet
        <3> QED BY <3>1
    <2> QED BY <1>6, <2>2, <2>3 DEF Weigh
<1>7. CASE Update(w)
    <2>1. Walks(w, "queue")
        BY <1>7 DEF Update, Walks, ContentTypes, Fields
    <2>2. Quiet(w, "queue")
        BY <1>7 DEF Quiet, Update, itemVars, outputVars
    <2> QED BY <2>1, <2>2
<1>8. CASE Queue(w)
    <2>1. PICK post : written' = Append(written, post)
        BY <1>8 DEF Queue
    <2>2. Len(written') = Len(written) + 1
        BY <2>1 DEF ContentTypes
    <2>3. writer[w].at = "queue" /\ UNCHANGED <<begun, stored>>
        BY <1>8 DEF Queue, itemVars
    <2>4. CASE w \in ByHand
        <3>1. Walks(w, "idle") /\ Queues(w, "idle")
            BY <1>8, <2>2, <2>3, <2>4, EndWalks DEF Queue, Queues
        <3> QED BY <3>1
    <2>5. CASE w \notin ByHand
        <3>1. Walks(w, "mark")
            BY <1>8, <2>5 DEF Queue, Walks, ContentTypes, Resting
        <3>2. Queues(w, "mark")
            BY <2>2, <2>3 DEF Queues
        <3> QED BY <3>1, <3>2
    <2> QED BY <2>4, <2>5
<1>9. CASE Drop(w) \/ Mark(w) \/ Fail(w)
    <2>1. Walks(w, "idle")
        BY <1>9, EndWalks DEF Drop, Mark, Fail
    <2>2. Quiet(w, "idle")
        BY <1>9 DEF Quiet, Drop, Mark, Fail, itemVars, outputVars
    <2> QED BY <2>1, <2>2
<1> QED BY <1>1, <1>2, <1>3, <1>4, <1>5, <1>6, <1>7, <1>8, <1>9 DEF WriterStep

LEMMA TallyNext ==
    ASSUME ContentAssumption, ContentTypes, ItemRows, TallyInv, [ContentNext]_contentVars
    PROVE  TallyInv'
<1> DEFINE unsaved == At(Unsaved)
           unwritten == At(Unwritten)
<1>0. begun \in Nat /\ MostRuns \in Nat /\ stored \in Nat /\ Len(written) \in Nat
    BY DEF TallyInv, ContentAssumption, ItemRows, ContentTypes
<1>1. /\ IsFiniteSet(unsaved) /\ stored + Cardinality(unsaved) <= begun
      /\ IsFiniteSet(unwritten) /\ Len(written) + Cardinality(unwritten) <= begun
    BY DEF TallyInv, Tally
<1>2. ASSUME NEW w \in Writers, WriterStep(w)
      PROVE  TallyInv'
    <2>1. PICK at : Walks(w, at) /\ (Begins(w, at) \/ Saves(w, at) \/ Queues(w, at) \/ Quiet(w, at))
        BY <1>2, WriterWalks
    <2>2. /\ unsaved' = IF at \in Unsaved THEN unsaved \cup {w} ELSE unsaved \ {w}
          /\ unwritten' = IF at \in Unwritten THEN unwritten \cup {w} ELSE unwritten \ {w}
        BY <2>1 DEF Walks, At
    <2>3. (w \in unsaved <=> writer[w].at \in Unsaved) /\ (w \in unwritten <=> writer[w].at \in Unwritten)
        BY DEF At
    <2>a. SUFFICES /\ begun' \in 0 .. MostRuns
                   /\ IsFiniteSet(unsaved') /\ stored' + Cardinality(unsaved') <= begun'
                   /\ IsFiniteSet(unwritten') /\ Len(written') + Cardinality(unwritten') <= begun'
        BY DEF TallyInv, Tally
    <2>4. CASE Begins(w, at)
        <3>1. w \notin unsaved /\ w \notin unwritten
            BY <2>3, <2>4 DEF Begins, Unsaved, Unwritten, Recorded
        <3>2. unsaved' = unsaved \cup {w} /\ unwritten' = unwritten \cup {w}
            BY <2>2, <2>4 DEF Begins, Unsaved, Unwritten
        <3>3. begun' = begun + 1 /\ begun < MostRuns /\ stored' = stored /\ Len(written') = Len(written)
            BY <2>4 DEF Begins
        <3> HIDE DEF unsaved, unwritten
        <3>4. IsFiniteSet(unsaved') /\ stored' + Cardinality(unsaved') <= begun'
            BY <1>0, <1>1, <3>1, <3>2, <3>3, TallyAdds
        <3>5. IsFiniteSet(unwritten') /\ Len(written') + Cardinality(unwritten') <= begun'
            BY <1>0, <1>1, <3>1, <3>2, <3>3, TallyAdds
        <3> QED BY <1>0, <3>3, <3>4, <3>5
    <2>5. CASE Saves(w, at)
        <3>1. w \in unsaved /\ unsaved' = unsaved \ {w}
            BY <2>2, <2>3, <2>5 DEF Saves, Unsaved
        <3>2. unwritten' \subseteq unwritten
            BY <2>2, <2>3, <2>5 DEF Saves, Unwritten, Unsaved
        <3>3. begun' = begun /\ stored' = stored + 1 /\ Len(written') = Len(written)
            BY <2>5 DEF Saves
        <3> HIDE DEF unsaved, unwritten
        <3>4. IsFiniteSet(unsaved') /\ stored' + Cardinality(unsaved') <= begun'
            BY <1>0, <1>1, <3>1, <3>3, TallyMoves
        <3>5. IsFiniteSet(unwritten') /\ Len(written') + Cardinality(unwritten') <= begun'
            BY <1>0, <1>1, <3>2, <3>3, TallyShrinks
        <3> QED BY <3>3, <3>4, <3>5 DEF TallyInv
    <2>6. CASE Queues(w, at)
        <3>1. w \in unwritten /\ unwritten' = unwritten \ {w}
            BY <2>2, <2>3, <2>6 DEF Queues, Unwritten, Unsaved, Recorded
        <3>2. unsaved' \subseteq unsaved
            BY <2>2, <2>6 DEF Queues, Unsaved
        <3>3. begun' = begun /\ stored' = stored /\ Len(written') = Len(written) + 1
            BY <2>6 DEF Queues
        <3> HIDE DEF unsaved, unwritten
        <3>4. IsFiniteSet(unsaved') /\ stored' + Cardinality(unsaved') <= begun'
            BY <1>0, <1>1, <3>2, <3>3, TallyShrinks
        <3>5. IsFiniteSet(unwritten') /\ Len(written') + Cardinality(unwritten') <= begun'
            BY <1>0, <1>1, <3>1, <3>3, TallyMoves
        <3> QED BY <3>3, <3>4, <3>5 DEF TallyInv
    <2>7. CASE Quiet(w, at)
        <3>1. unsaved' \subseteq unsaved /\ unwritten' \subseteq unwritten
            BY <2>2, <2>3, <2>7 DEF Quiet
        <3>2. begun' = begun /\ stored' = stored /\ Len(written') = Len(written)
            BY <2>7 DEF Quiet
        <3> HIDE DEF unsaved, unwritten
        <3>3. IsFiniteSet(unsaved') /\ stored' + Cardinality(unsaved') <= begun'
            BY <1>0, <1>1, <3>1, <3>2, TallyShrinks
        <3>4. IsFiniteSet(unwritten') /\ Len(written') + Cardinality(unwritten') <= begun'
            BY <1>0, <1>1, <3>1, <3>2, TallyShrinks
        <3> QED BY <3>2, <3>3, <3>4 DEF TallyInv
    <2> QED BY <2>1, <2>4, <2>5, <2>6, <2>7
<1>3. ASSUME UNCHANGED <<writer, begun, stored, written>>
      PROVE  TallyInv'
    BY <1>3 DEF TallyInv, Tally, At
<1>4. CASE SourceStep
    <2>1. UNCHANGED <<writer, begun, stored, written>>
        BY <1>4 DEF SourceStep, Delete, itemVars, outputVars, runVars
    <2> QED BY <1>3, <2>1
<1>5. CASE UNCHANGED contentVars
    BY <1>3, <1>5 DEF contentVars, itemVars, outputVars, runVars
<1> QED BY <1>2, <1>4, <1>5 DEF ContentNext

\* A entry whose feed and switch are of the table's types.
Typed(s) == s.feed \in Src!Feeds /\ s.active \in BOOLEAN

LEMMA SeededAreTyped ==
    ASSUME ContentAssumption, planted \in Nat, NEW clue \in Clues,
           NEW rows \in Src!SeedRows(Src!Website(clue))
    PROVE  \A s \in rows : Typed(s)
<1> DEFINE site == Src!Website(clue)
           n == Src!Cardinality(CategoryFeeds)
           first == IF site = "none" THEN planted ELSE planted + 1
           own == IF site = "none" THEN {} ELSE {Src!OwnSource(first, site)}
<1>1. PICK q \in [1 .. n -> CategoryFeeds] :
            rows = own \cup {Src!NewSource(first + i, q[i], q[i]) : i \in 1 .. n}
    BY DEF Src!SeedRows
<1>2. site = "none" \/ site \in Src!Feeds
    BY DEF ContentAssumption, Src!SourcesAssumption
<1>3. \A i \in 1 .. n : q[i] \in Src!Feeds
    BY DEF ContentAssumption, Src!SourcesAssumption
<1> HIDE DEF site, n
<1>4. \A s \in own : Typed(s)
    <2>1. ASSUME site # "none"
          PROVE  Typed(Src!OwnSource(first, site))
        BY <1>2, <2>1 DEF Src!OwnSource, Typed
    <2>2. \A s \in own : site # "none" /\ s = Src!OwnSource(first, site)
        OBVIOUS
    <2> QED BY <2>1, <2>2
<1>5. \A i \in 1 .. n : Typed(Src!NewSource(first + i, q[i], q[i]))
    BY <1>3 DEF Src!NewSource, Typed
<1> QED BY <1>1, <1>4, <1>5

\* The sources keep their types, whatever is done to them but an update of their quality.
LEMMA SourcesStayTyped ==
    ASSUME ContentAssumption, SourceRows, Src!SourcesTypeOK,
           Src!ChangeSources \/ \E s \in sources : Src!Delete(s)
    PROVE  Src!SourcesTypeOK'
<1> USE DEF Src!SourcesTypeOK
<1>0. MostSources \in Nat /\ MostEdits \in Nat /\ planted \in Nat
    BY DEF ContentAssumption, Src!SourcesAssumption, SourceRows
<1>1. ASSUME NEW o \in Seeders, Src!SeedCheck(o)
      PROVE  Src!SourcesTypeOK'
    BY <1>1 DEF Src!SeedCheck
<1>2. ASSUME NEW o \in Seeders, Src!SeedFails(o)
      PROVE  Src!SourcesTypeOK'
    BY <1>2 DEF Src!SeedFails
<1>3. ASSUME NEW o \in Seeders, Src!SeedInsert(o)
      PROVE  Src!SourcesTypeOK'
    <2>1. PICK clue \in Clues : \E rows \in Src!SeedRows(Src!Website(clue)) :
            /\ planted + Cardinality(rows) <= MostSources
            /\ planted' = planted + Cardinality(rows)
            /\ sources' = sources \cup rows
        BY <1>3, SameSize DEF Src!SeedInsert
    <2>2. PICK rows \in Src!SeedRows(Src!Website(clue)) :
            /\ planted + Cardinality(rows) <= MostSources
            /\ planted' = planted + Cardinality(rows)
            /\ sources' = sources \cup rows
        BY <2>1
    <2>3. /\ Cardinality(rows) \in Nat
          /\ \A s \in rows : s.id \in planted + 1 .. planted + Cardinality(rows)
        BY <1>0, SeededRows
    <2>4. \A s \in rows : Typed(s)
        BY <1>0, SeededAreTyped
    <2>5. seeding' \subseteq seeding /\ edits' = edits
        BY <1>3 DEF Src!SeedInsert
    <2>6. PICK m \in Nat : m = Cardinality(rows)
        BY <2>3
    <2>7. planted' \in 0 .. MostSources /\ \A i \in 1 .. planted : i \in 1 .. planted'
        BY <1>0, <2>2, <2>6
    <2>8. \A s \in rows : s.id \in 1 .. planted'
        BY <1>0, <2>2, <2>3, <2>6
    <2> QED BY <2>2, <2>4, <2>5, <2>7, <2>8 DEF Typed
<1>4. ASSUME NEW feed \in Src!Feeds, Src!Add(feed)
      PROVE  Src!SourcesTypeOK'
    <2> DEFINE entry == Src!NewSource(planted + 1, feed, "none")
    <2>1. entry.id = planted + 1 /\ Typed(entry)
        BY DEF Src!NewSource, Typed
    <2>2. sources' = sources \cup {entry} /\ seeding' = seeding
        BY <1>4 DEF Src!Add
    <2> HIDE DEF entry
    <2>3. /\ planted' \in 0 .. MostSources /\ edits' \in 0 .. MostEdits
          /\ planted + 1 \in 1 .. planted' /\ \A i \in 1 .. planted : i \in 1 .. planted'
        BY <1>0, <1>4 DEF Src!Add, Src!Operate
    <2> QED BY <2>1, <2>2, <2>3 DEF Typed
<1>5. ASSUME NEW s \in sources, NEW active \in BOOLEAN, NEW feed \in Src!Feeds,
             Src!Edit(s, active, feed)
      PROVE  Src!SourcesTypeOK'
    <2> DEFINE entry == [s EXCEPT !.active = active, !.feed = feed]
    <2>1. entry.id = s.id /\ Typed(entry)
        BY DEF SourceRows, SourceFields, Typed
    <2>2. /\ sources' = (sources \ {s}) \cup {entry}
          /\ UNCHANGED <<planted, seeding>>
          /\ edits' = edits \/ (edits < MostEdits /\ edits' = edits + 1)
        BY <1>5 DEF Src!Edit, Src!Operate
    <2> HIDE DEF entry
    <2>3. edits' \in 0 .. MostEdits
        BY <1>0, <2>2
    <2> QED BY <2>1, <2>2, <2>3 DEF Typed
<1>6. ASSUME NEW s \in sources, Src!Delete(s)
      PROVE  Src!SourcesTypeOK'
    <2>1. /\ sources' = sources \ {s}
          /\ UNCHANGED <<planted, seeding>>
          /\ edits < MostEdits /\ edits' = edits + 1
        BY <1>6 DEF Src!Delete, Src!Operate
    <2>2. edits' \in 0 .. MostEdits
        BY <1>0, <2>1
    <2> QED BY <2>1, <2>2
<1> QED BY <1>1, <1>2, <1>3, <1>4, <1>5, <1>6 DEF Src!ChangeSources, Src!SeederStep

LEMMA UpdateStaysTyped ==
    ASSUME SourceRows, Src!SourcesTypeOK, NEW w \in Writers, Update(w)
    PROVE  Src!SourcesTypeOK'
<1> DEFINE avg == NewAverage(writer[w].avg, writer[w].scored, writer[w].total)
           scored == writer[w].scored + 1
           poor == 2 * avg < 5 * Precision /\ scored >= TrialScores
<1>1. PICK s \in sources : sources' = (sources \ {s}) \cup
            {[s EXCEPT !.avg = avg, !.scored = scored, !.active = @ /\ ~poor]}
    BY DEF Update
<1> HIDE DEF avg, scored, poor
<1> DEFINE entry == [s EXCEPT !.avg = avg, !.scored = scored, !.active = @ /\ ~poor]
<1>2. DOMAIN s = SourceFields
    BY DEF SourceRows
<1>3. entry.id = s.id /\ entry.feed = s.feed /\ entry.active \in BOOLEAN
    BY <1>2 DEF SourceFields
<1>4. sources' = (sources \ {s}) \cup {entry} /\ UNCHANGED <<planted, edits, seeding>>
    BY <1>1 DEF Update
<1> HIDE DEF entry
<1> QED BY <1>3, <1>4 DEF Src!SourcesTypeOK

LEMMA FieldsNext ==
    ASSUME ContentAssumption, ContentTypes, SourceRows, FieldsInv, [ContentNext]_contentVars
    PROVE  FieldsInv'
<1>0. /\ edits \in 0 .. MostEdits /\ MostTrouble \in Nat /\ MostEdits \in Nat
      /\ troubles \in Nat /\ troubles + edits <= MostTrouble
    BY DEF FieldsInv, Src!SourcesTypeOK, ContentAssumption, Src!SourcesAssumption
<1>1. ASSUME NEW w \in Writers, WriterStep(w)
      PROVE  FieldsInv'
    <2>1. dealing' = dealing /\ edits' = edits
        BY <1>1 DEF WriterStep, BeginRun, Recycle, Gather, Save, Rate, Weigh, Update, Queue, Drop,
                    Mark, Fail, sourceVars
    <2>2. Src!SourcesTypeOK'
        <3>1. CASE Update(w)
            BY <3>1, UpdateStaysTyped DEF FieldsInv
        <3>2. CASE ~Update(w)
            <4>1. UNCHANGED sourceVars
                BY <1>1, <3>2 DEF WriterStep, BeginRun, Recycle, Gather, Save, Rate, Weigh, Queue,
                                  Drop, Mark, Fail
            <4> QED BY <4>1 DEF FieldsInv, Src!SourcesTypeOK, sourceVars
        <3> QED BY <3>1, <3>2
    <2>3. troubles' \in Nat /\ troubles' + edits' <= MostTrouble
        <3>1. troubles' = troubles \/ (troubles + edits < MostTrouble /\ troubles' = troubles + 1)
            BY <1>1 DEF WriterStep, BeginRun, Recycle, Gather, Save, Rate, Weigh, Update, Queue,
                        Drop, Mark, Fail
        <3> QED BY <1>0, <2>1, <3>1
    <2>4. answered' \subseteq Slot
        <3>1. CASE Mark(w)
            <4>1. writer[w].slot \in Slot
                BY <3>1 DEF Mark, ContentTypes
            <4> QED BY <3>1, <4>1 DEF Mark, Answered, FieldsInv
        <3>2. CASE ~Mark(w)
            <4>1. answered' = answered
                BY <1>1, <3>2 DEF WriterStep, BeginRun, Recycle, Gather, Save, Rate, Weigh, Update,
                                  Queue, Drop, Fail, outputVars
            <4> QED BY <4>1 DEF FieldsInv
        <3> QED BY <3>1, <3>2
    <2>5. \A i \in items' : i.article \in Found
        <3>1. CASE Save(w)
            <4>1. writer[w].article \in Found
                BY <3>1 DEF Save, ContentTypes
            <4> QED BY <3>1, <4>1 DEF Save, FieldsInv
        <3>2. CASE Rate(w)
            <4>1. PICK i \in items : items' = (items \ {i}) \cup {[i EXCEPT !.total = writer[w].total]}
                BY <3>2 DEF Rate
            <4>2. [i EXCEPT !.total = writer[w].total].article = i.article
                BY DEF ContentTypes, ItemFields
            <4> QED BY <4>1, <4>2 DEF FieldsInv
        <3>3. CASE ~Save(w) /\ ~Rate(w)
            <4>1. items' = items
                BY <1>1, <3>3 DEF WriterStep, BeginRun, Recycle, Gather, Weigh, Update, Queue, Drop,
                                  Mark, Fail, itemVars
            <4> QED BY <4>1 DEF FieldsInv
        <3> QED BY <3>1, <3>2, <3>3
    <2> QED BY <2>1, <2>2, <2>3, <2>4, <2>5 DEF FieldsInv
<1>2. CASE SourceStep
    <2>1. Src!ChangeSources \/ \E s \in sources : Src!Delete(s)
        BY <1>2 DEF SourceStep, Delete
    <2>2. Src!SourcesTypeOK'
        BY <2>1, SourcesStayTyped DEF FieldsInv
    <2>3. UNCHANGED <<dealing, answered, troubles>> /\ items' \subseteq items
        BY <1>2 DEF SourceStep, Delete, itemVars, outputVars, runVars
    <2>4. troubles + edits' <= MostTrouble
        BY <1>2 DEF SourceStep
    <2> QED BY <2>2, <2>3, <2>4 DEF FieldsInv
<1>3. CASE UNCHANGED contentVars
    BY <1>3 DEF FieldsInv, Src!SourcesTypeOK, contentVars, sourceVars, itemVars, outputVars, runVars
<1> QED BY <1>1, <1>2, <1>3 DEF ContentNext

\* What the bounds and types of ContentTypeOK rest on.
FitsInv == TallyInv /\ FieldsInv

LEMMA FitsInit ==
    ASSUME ContentAssumption, ContentInit
    PROVE  FitsInv
<1>1. /\ begun = 0 /\ stored = 0 /\ written = <<>> /\ items = {} /\ answered = {} /\ troubles = 0
      /\ edits = 0 /\ seeding = {} /\ dealing \in BOOLEAN /\ writer = [w \in Writers |-> Resting]
      /\ sources \in {{}, StartSources} /\ planted = Cardinality(sources)
    BY DEF ContentInit
<1>2. /\ MostRuns \in Nat /\ MostTrouble \in Nat /\ MostEdits \in Nat /\ MostSources \in Nat
      /\ IsFiniteSet(StartSources) /\ Cardinality(StartSources) <= MostSources
    BY DEF ContentAssumption, Src!SourcesAssumption
<1>3. TallyInv
    <2>1. At(Unsaved) = {} /\ At(Unwritten) = {}
        BY <1>1 DEF At, Unsaved, Unwritten, Recorded, Resting
    <2>2. IsFiniteSet({}) /\ Cardinality({}) = 0
        BY FS_EmptySet
    <2>3. Len(written) = 0
        BY <1>1
    <2> QED BY <1>1, <1>2, <2>1, <2>2, <2>3 DEF TallyInv, Tally
<1>4. Src!SourcesTypeOK
    <2>1. planted \in 0 .. MostSources
        <3>1. Cardinality({}) = 0 /\ Cardinality(StartSources) \in Nat
            BY <1>2, FS_EmptySet, FS_CardinalityType
        <3>2. CASE sources = {}
            BY <1>1, <1>2, <3>1, <3>2
        <3>3. CASE sources = StartSources
            BY <1>1, <1>2, <3>1, <3>3
        <3> QED BY <1>1, <3>2, <3>3
    <2>2. \A s \in sources : s.id \in 1 .. planted /\ s.feed \in Src!Feeds /\ s.active \in BOOLEAN
        BY <1>1 DEF ContentAssumption
    <2> QED BY <1>1, <1>2, <2>1, <2>2 DEF Src!SourcesTypeOK
<1>5. FieldsInv
    BY <1>1, <1>2, <1>4 DEF FieldsInv
<1> QED BY <1>3, <1>5 DEF FitsInv

LEMMA FitsIsType ==
    ASSUME ContentAssumption, ContentTypes, ItemRows, FitsInv
    PROVE  ContentTypeOK
<1>1. /\ begun \in 0 .. MostRuns /\ MostRuns \in Nat /\ stored \in Nat /\ Len(written) \in Nat
      /\ MostTrouble \in Nat
    BY DEF FitsInv, TallyInv, ItemRows, ContentTypes, ContentAssumption
<1>2. stored <= begun /\ Len(written) <= begun
    <2>1. ASSUME NEW places, NEW n \in Nat, Tally(n, places)
          PROVE  n <= begun
        <3>1. Cardinality(At(places)) \in Nat
            BY <2>1, FS_CardinalityType DEF Tally
        <3> QED BY <1>1, <2>1, <3>1 DEF Tally
    <2> QED BY <1>1, <2>1 DEF FitsInv, TallyInv
<1>3. stored \in 0 .. MostRuns /\ Len(written) <= MostRuns
    BY <1>1, <1>2
<1>4. \A i \in items : i.id \in 1 .. stored /\ i.article \in Found /\ i.total \in 0 .. 7
    BY DEF FitsInv, FieldsInv, ItemRows
<1>5. \A w \in Writers : writer[w].at \in {"idle", "recycle", "gather", "save", "rate", "weigh",
                                          "update", "queue", "mark"}
    BY DEF ContentTypes, Places
<1>6. troubles \in 0 .. MostTrouble
    <2>1. troubles \in Nat /\ edits \in Nat /\ troubles + edits <= MostTrouble
        BY DEF FitsInv, FieldsInv, Src!SourcesTypeOK
    <2> QED BY <1>1, <2>1
<1> QED BY <1>1, <1>3, <1>4, <1>5, <1>6 DEF ContentTypeOK, FitsInv, FieldsInv

\* Runs are counted: a run saves one item and queues one post at most, however runs, failures
\* and changes of the sources interleave (agents/content_intelligence.py:199-213).
THEOREM RunsAreCounted ==
    ASSUME ContentAssumption
    PROVE  ContentSpec => []FitsInv
<1>1. ContentInit => FitsInv
    BY FitsInit
<1>2. ContentInv /\ AverageInv /\ FitsInv /\ [ContentNext]_contentVars => FitsInv'
    BY TallyNext, FieldsNext DEF ContentInv, AverageInv, FitsInv
<1> QED BY <1>1, <1>2, ContentInvariance, AverageInvariance, PTL DEF ContentSpec

\* The tables and the runs of the Content Agent are of their types and within the bounds.
THEOREM ContentTypeCorrect ==
    ASSUME ContentAssumption
    PROVE  ContentSpec => []ContentTypeOK
<1>1. ContentInv /\ AverageInv /\ FitsInv => ContentTypeOK
    BY FitsIsType DEF ContentInv, AverageInv
<1> QED BY <1>1, ContentInvariance, AverageInvariance, RunsAreCounted, PTL

-----------------------------------------------------------------------------
(***************************************************************************)
(* Both parts together: a behaviour of AgentParts is one of each part.     *)
(***************************************************************************)

\* Whichever part is at work, what happens is a behaviour of the registry and the audit log,
\* and one of the Content Agent; so what is proved of each holds here.
THEOREM PartsAreAgents == AllAgents => Spec /\ ContentSpec
<1>1. InitAll => Init /\ ContentInit
    BY DEF InitAll
<1>2. [StepAll]_<<system, vars, contentVars>> => [Next]_vars /\ [ContentNext]_contentVars
    <2>1. ASSUME StepAll
          PROVE  [Next]_vars /\ [ContentNext]_contentVars
        BY <2>1 DEF StepAll
    <2>2. ASSUME UNCHANGED <<system, vars, contentVars>>
          PROVE  [Next]_vars /\ [ContentNext]_contentVars
        BY <2>2
    <2> QED BY <2>1, <2>2
<1> QED BY <1>1, <1>2, PTL DEF AllAgents, Spec, ContentSpec

\* The registry, the audit log and the tables of the Content Agent are of their types and
\* within the bounds, whichever part is at work.
THEOREM AgentTypesCorrect ==
    ASSUME ContentAssumption
    PROVE  AllAgents => []TypesOK
<1>1. TypeOK /\ ContentTypeOK => TypesOK
    BY DEF TypesOK
<1> QED BY <1>1, PartsAreAgents, RunsTypeCorrect, ContentTypeCorrect, PTL
==============================================================================
