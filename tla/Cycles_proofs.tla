---------------------------- MODULE Cycles_proofs ----------------------------
(***************************************************************************)
(* Proofs about Cycles, for any number of jobs of each kind, any tiers and *)
(* any number of crashes.                                                  *)
(***************************************************************************)
EXTENDS Cycles, Order_proofs, TLAPS

\* A request that has not been taken up is still in the row, and while a job is about to
\* clear the row it counts as raced.
Requests ==
    unreviewed =>
        /\ flag \/ raced
        /\ (\E j \in Jobs : job[j] = "clear") => raced

\* An onboarding that is past the refresh of the tier has measured the channel; nothing
\* else comes to its last step.
Onboarding ==
    /\ active => measured
    /\ \A j \in Jobs :
        /\ job[j] = "finish" => JobKind[j] = "onboard"
        /\ job[j] = "gate" => JobKind[j] # "onboard"
        /\ JobKind[j] = "onboard" /\ job[j] \in {"profile", "analyse", "strategy", "finish"}
            => measured

CyclesInv ==
    /\ TypeOK
    /\ Requests
    /\ Onboarding

-----------------------------------------------------------------------------
(***************************************************************************)
(* Lemmas.                                                                 *)
(***************************************************************************)

\* A job goes on, and forgets its list if it is over.
LEMMA GotoTypes ==
    ASSUME CyclesAssumption, TypeOK, NEW j \in Jobs,
           NEW step \in {"idle", "refresh", "gate", "profile", "analyse", "strategy", "review",
                         "clear", "finish"},
           Goto(j, step)
    PROVE  /\ job' \in [Jobs -> {"idle", "refresh", "gate", "profile", "analyse", "strategy",
                                 "review", "clear", "finish"}]
           /\ listed' \in [Jobs -> [tier : Tiers, flag : BOOLEAN]]
           /\ job'[j] = step
           /\ \A k \in Jobs \ {j} : job'[k] = job[k]
<1>1. Unlisted \in [tier : Tiers, flag : BOOLEAN]
    BY DEF Unlisted, CyclesAssumption
<1>2. job' = [job EXCEPT ![j] = step]
    BY DEF Goto
<1>3. listed' \in [Jobs -> [tier : Tiers, flag : BOOLEAN]]
    <2>1. CASE step = "idle"
        BY <1>1, <2>1 DEF Goto, TypeOK
    <2>2. CASE step # "idle"
        BY <2>2 DEF Goto, TypeOK
    <2> QED BY <2>1, <2>2
<1> QED BY <1>2, <1>3 DEF TypeOK

\* A job goes to a step that is neither the clearing nor the end of onboarding, and the
\* row does not change.
LEMMA QuietStep ==
    ASSUME CyclesAssumption, CyclesInv, NEW j \in Jobs,
           NEW step \in {"idle", "refresh", "gate", "profile", "analyse", "strategy", "review"},
           Goto(j, step),
           step = "gate" => JobKind[j] # "onboard",
           JobKind[j] = "onboard" /\ step \in {"profile", "analyse", "strategy"} => measured,
           UNCHANGED <<active, measured, review, crashes>>,
           tier' \in Tiers, profiled' \in BOOLEAN
    PROVE  CyclesInv'
<1> USE DEF CyclesInv
<1>1. UNCHANGED <<flag, unreviewed, raced>>
    BY DEF review
<1>2. TypeOK'
    BY <1>1, GotoTypes DEF TypeOK
<1>3. Requests'
    BY <1>1, GotoTypes DEF Requests
<1>4. Onboarding'
    <2>1. job'[j] = step /\ \A k \in Jobs \ {j} : job'[k] = job[k]
        BY GotoTypes
    <2>2. active' = active /\ measured' = measured
        OBVIOUS
    <2>3. ASSUME NEW k \in Jobs
          PROVE  /\ job'[k] = "finish" => JobKind[k] = "onboard"
                 /\ job'[k] = "gate" => JobKind[k] # "onboard"
                 /\ JobKind[k] = "onboard"
                        /\ job'[k] \in {"profile", "analyse", "strategy", "finish"}
                    => measured'
        BY <2>1, <2>2 DEF Onboarding
    <2> QED BY <2>2, <2>3 DEF Onboarding
<1> QED BY <1>2, <1>3, <1>4

-----------------------------------------------------------------------------
(***************************************************************************)
(* The steps.                                                              *)
(***************************************************************************)
LEMMA BeginStep ==
    ASSUME CyclesAssumption, CyclesInv, NEW j \in Jobs, Begin(j)
    PROVE  CyclesInv'
<1> USE DEF CyclesInv
<1>1. /\ job' = [job EXCEPT ![j] = FirstStep(j)]
      /\ listed' = [listed EXCEPT ![j] = Listed]
      /\ UNCHANGED <<tier, active, profiled, measured, flag, unreviewed, raced, crashes>>
    BY DEF Begin, channel, review
<1>2. /\ FirstStep(j) \in {"gate", "analyse", "refresh"}
      /\ JobKind[j] = "onboard" => FirstStep(j) = "refresh"
    BY DEF FirstStep, CyclesAssumption
<1>3. Listed \in [tier : Tiers, flag : BOOLEAN]
    BY DEF Listed, TypeOK
<1>4. TypeOK'
    BY <1>1, <1>2, <1>3 DEF TypeOK
<1>5. job'[j] = FirstStep(j) /\ \A k \in Jobs \ {j} : job'[k] = job[k]
    BY <1>1 DEF TypeOK
<1>6. Requests'
    BY <1>1, <1>2, <1>5 DEF Requests
<1>7. Onboarding'
    BY <1>1, <1>2, <1>5 DEF Onboarding
<1> QED BY <1>4, <1>6, <1>7

LEMMA TierRefreshStep ==
    ASSUME CyclesAssumption, CyclesInv, NEW j \in Jobs, Refresh(j)
    PROVE  CyclesInv'
<1> USE DEF CyclesInv
<1>1. PICK live \in Tiers : tier' = live /\ listed' = [listed EXCEPT ![j].tier = live]
    BY DEF Refresh
<1>2. PICK step \in {"gate", "profile"} :
        /\ job' = [job EXCEPT ![j] = step]
        /\ step = "gate" => JobKind[j] # "onboard"
    <2>1. CASE JobKind[j] = "weekly"
        BY <2>1 DEF Refresh
    <2>2. CASE JobKind[j] # "weekly"
        BY <2>2 DEF Refresh
    <2> QED BY <2>1, <2>2
<1>3. measured' = TRUE /\ UNCHANGED <<active, profiled, flag, unreviewed, raced, crashes>>
    BY DEF Refresh, review
<1>4. TypeOK'
    BY <1>1, <1>2, <1>3 DEF TypeOK
<1>5. job'[j] = step /\ \A k \in Jobs \ {j} : job'[k] = job[k]
    BY <1>2 DEF TypeOK
<1>6. Requests'
    BY <1>3, <1>5 DEF Requests
<1>7. Onboarding'
    BY <1>2, <1>3, <1>5 DEF Onboarding
<1> QED BY <1>4, <1>6, <1>7

LEMMA RefreshFailsStep ==
    ASSUME CyclesAssumption, CyclesInv, NEW j \in Jobs, RefreshFails(j)
    PROVE  CyclesInv'
<1>1. /\ AfterFailedRefresh(j) \in {"gate", "idle"}
      /\ AfterFailedRefresh(j) = "gate" => JobKind[j] # "onboard"
    BY DEF AfterFailedRefresh
<1> QED BY <1>1, QuietStep DEF RefreshFails, channel, CyclesInv, TypeOK

LEMMA GateStep ==
    ASSUME CyclesAssumption, CyclesInv, NEW j \in Jobs, Gate(j)
    PROVE  CyclesInv'
<1>1. JobKind[j] # "onboard"
    BY DEF Gate, CyclesInv, Onboarding
<1>2. PICK step \in {"analyse", "profile", "strategy"} : Goto(j, step)
    BY DEF Gate
<1> QED BY <1>1, <1>2, QuietStep DEF Gate, channel, CyclesInv, TypeOK

LEMMA ProfileStep ==
    ASSUME CyclesAssumption, CyclesInv, NEW j \in Jobs, Profile(j)
    PROVE  CyclesInv'
<1>1. JobKind[j] = "onboard" => measured
    BY DEF Profile, CyclesInv, Onboarding
<1> QED BY <1>1, QuietStep DEF Profile

LEMMA AnalyseStep ==
    ASSUME CyclesAssumption, CyclesInv, NEW j \in Jobs, Analyse(j)
    PROVE  CyclesInv'
<1>1. AfterAnalysis(j) \in {"idle", "strategy"}
    BY DEF AfterAnalysis
<1>2. JobKind[j] = "onboard" => measured
    BY DEF Analyse, CyclesInv, Onboarding
<1> QED BY <1>1, <1>2, QuietStep DEF Analyse, channel, CyclesInv, TypeOK

LEMMA RaiseStep ==
    ASSUME CyclesAssumption, CyclesInv, NEW j \in Jobs, Raise(j)
    PROVE  CyclesInv'
<1> USE DEF CyclesInv
<1>1. /\ job[j] = "analyse"
      /\ flag' = TRUE /\ unreviewed' = TRUE /\ raced' = \E k \in Jobs : job[k] = "clear"
      /\ Goto(j, AfterAnalysis(j))
      /\ UNCHANGED <<tier, active, profiled, measured, crashes>>
    BY DEF Raise, channel
<1>2. AfterAnalysis(j) \in {"idle", "strategy"}
    BY DEF AfterAnalysis
<1>3. job'[j] = AfterAnalysis(j) /\ \A k \in Jobs \ {j} : job'[k] = job[k]
    BY <1>1, <1>2, GotoTypes
<1>4. TypeOK'
    <2>1. raced' \in BOOLEAN
        BY <1>1
    <2> QED BY <1>1, <1>2, <2>1, GotoTypes DEF TypeOK
<1>5. Requests'
    <2>1. ASSUME NEW k \in Jobs, job'[k] = "clear"
          PROVE  raced'
        BY <1>1, <1>2, <1>3, <2>1
    <2> QED BY <1>1, <2>1 DEF Requests
<1>6. Onboarding'
    BY <1>1, <1>2, <1>3 DEF Onboarding
<1> QED BY <1>4, <1>5, <1>6

LEMMA StrategyStep ==
    ASSUME CyclesAssumption, CyclesInv, NEW j \in Jobs, Strategy(j)
    PROVE  CyclesInv'
<1> USE DEF CyclesInv
<1>1. /\ job[j] = "strategy" /\ Goto(j, AfterStrategy(j))
      /\ UNCHANGED <<tier, active, profiled, measured, flag, unreviewed, raced, crashes>>
    BY DEF Strategy, channel, review
<1>2. CASE JobKind[j] = "onboard"
    <2>1. AfterStrategy(j) = "finish" /\ measured
        BY <1>1, <1>2 DEF AfterStrategy, Onboarding
    <2>2. job'[j] = "finish" /\ \A k \in Jobs \ {j} : job'[k] = job[k]
        BY <1>1, <2>1, GotoTypes
    <2>3. TypeOK'
        BY <1>1, <2>1, GotoTypes DEF TypeOK
    <2>4. Requests'
        BY <1>1, <2>2 DEF Requests
    <2>5. Onboarding'
        BY <1>1, <1>2, <2>1, <2>2 DEF Onboarding
    <2> QED BY <2>3, <2>4, <2>5
<1>3. CASE JobKind[j] # "onboard"
    <2>1. AfterStrategy(j) \in {"idle", "review"}
        BY <1>3 DEF AfterStrategy
    <2> QED BY <1>1, <1>3, <2>1, QuietStep DEF review, TypeOK
<1> QED BY <1>2, <1>3

LEMMA ReviewStep ==
    ASSUME CyclesAssumption, CyclesInv, NEW j \in Jobs, Review(j)
    PROVE  CyclesInv'
<1> USE DEF CyclesInv
<1>1. /\ Goto(j, "clear") /\ unreviewed' = FALSE /\ raced' = FALSE
      /\ UNCHANGED <<tier, active, profiled, measured, flag, crashes>>
    BY DEF Review, channel
<1>2. job'[j] = "clear" /\ \A k \in Jobs \ {j} : job'[k] = job[k]
    BY <1>1, GotoTypes
<1>3. TypeOK'
    BY <1>1, GotoTypes DEF TypeOK
<1>4. Requests' /\ Onboarding'
    BY <1>1, <1>2 DEF Requests, Onboarding
<1> QED BY <1>3, <1>4

LEMMA ClearStep ==
    ASSUME CyclesAssumption, CyclesInv, NEW j \in Jobs, Clear(j)
    PROVE  CyclesInv'
<1> USE DEF CyclesInv
<1>1. /\ job[j] = "clear" /\ flag' = FALSE /\ Goto(j, "idle")
      /\ UNCHANGED <<tier, active, profiled, measured, crashes, unreviewed, raced>>
    BY DEF Clear, Cleared, channel
<1>2. job'[j] = "idle" /\ \A k \in Jobs \ {j} : job'[k] = job[k]
    BY <1>1, GotoTypes
<1>3. TypeOK'
    BY <1>1, GotoTypes DEF TypeOK
<1>4. Requests'
    BY <1>1 DEF Requests
<1>5. Onboarding'
    BY <1>1, <1>2 DEF Onboarding
<1> QED BY <1>3, <1>4, <1>5

LEMMA FinishStep ==
    ASSUME CyclesAssumption, CyclesInv, NEW j \in Jobs, Finish(j)
    PROVE  CyclesInv'
<1> USE DEF CyclesInv
<1>1. /\ job[j] = "finish" /\ active' = TRUE /\ Goto(j, "idle")
      /\ UNCHANGED <<tier, profiled, measured, flag, unreviewed, raced, crashes>>
    BY DEF Finish, review
<1>2. job'[j] = "idle" /\ \A k \in Jobs \ {j} : job'[k] = job[k]
    BY <1>1, GotoTypes
<1>3. TypeOK'
    BY <1>1, GotoTypes DEF TypeOK
<1>4. Requests'
    BY <1>1, <1>2 DEF Requests
<1>5. measured
    BY <1>1 DEF Onboarding
<1>6. Onboarding'
    BY <1>1, <1>2, <1>5 DEF Onboarding
<1> QED BY <1>3, <1>4, <1>6

LEMMA CrashStep ==
    ASSUME CyclesAssumption, CyclesInv, NEW j \in Jobs, Crash(j)
    PROVE  CyclesInv'
<1> USE DEF CyclesInv
<1>1. /\ crashes < MaxCrashes /\ crashes' = crashes + 1 /\ Goto(j, "idle")
      /\ UNCHANGED <<tier, active, profiled, measured, flag, unreviewed, raced>>
    BY DEF Crash, channel, review
<1>2. job'[j] = "idle" /\ \A k \in Jobs \ {j} : job'[k] = job[k]
    BY <1>1, GotoTypes
<1>3. TypeOK'
    <2>1. crashes' \in 0 .. MaxCrashes
        BY <1>1 DEF TypeOK, CyclesAssumption
    <2> QED BY <1>1, <2>1, GotoTypes DEF TypeOK
<1>4. Requests' /\ Onboarding'
    BY <1>1, <1>2 DEF Requests, Onboarding
<1> QED BY <1>3, <1>4

-----------------------------------------------------------------------------
(***************************************************************************)
(* Theorems.                                                               *)
(***************************************************************************)
LEMMA CyclesInitInvariant ==
    ASSUME CyclesAssumption, Init
    PROVE  CyclesInv
<1>1. Unlisted \in [tier : Tiers, flag : BOOLEAN]
    BY DEF Unlisted, CyclesAssumption
<1>2. 0 \in 0 .. MaxCrashes
    BY DEF CyclesAssumption
<1>3. TypeOK
    <2>1. listed \in [Jobs -> [tier : Tiers, flag : BOOLEAN]]
        BY <1>1 DEF Init
    <2>2. job \in [Jobs -> {"idle", "refresh", "gate", "profile", "analyse", "strategy",
                            "review", "clear", "finish"}]
        BY DEF Init
    <2> QED BY <1>2, <2>1, <2>2 DEF Init, TypeOK, CyclesAssumption
<1>4. Requests /\ Onboarding
    BY DEF Init, Requests, Onboarding
<1> QED BY <1>3, <1>4 DEF CyclesInv

LEMMA CyclesNextInvariant ==
    ASSUME CyclesAssumption, CyclesInv, [Next]_vars
    PROVE  CyclesInv'
<1>1. ASSUME NEW j \in Jobs, JobStep(j)
      PROVE  CyclesInv'
    BY <1>1, TierRefreshStep, RefreshFailsStep, GateStep, ProfileStep, RaiseStep, AnalyseStep,
       StrategyStep, ReviewStep, ClearStep, FinishStep DEF JobStep
<1>2. CASE UNCHANGED vars
    BY <1>2 DEF CyclesInv, TypeOK, Requests, Onboarding, vars, channel, review
<1> QED BY <1>1, <1>2, BeginStep, CrashStep DEF Next

\* The invariant that the theorems rest on.
THEOREM CyclesInvariance ==
    ASSUME CyclesAssumption
    PROVE  Spec => []CyclesInv
BY CyclesInitInvariant, CyclesNextInvariant, PTL DEF Spec

\* Every reachable state is well typed.
THEOREM CyclesTypeCorrect ==
    ASSUME CyclesAssumption
    PROVE  Spec => []TypeOK
<1>1. CyclesInv => TypeOK
    BY DEF CyclesInv
<1> QED BY <1>1, CyclesInvariance, PTL

\* However many cycles and analytics runs there are at a time: a request for an early
\* review is not taken down before a review, unless it was made during one
\* (scheduler/jobs.py:151-153).
THEOREM RequestKept ==
    ASSUME CyclesAssumption
    PROVE  Spec => []RequestIsKept
<1>1. CyclesInv => RequestIsKept
    BY DEF CyclesInv, Requests, RequestIsKept
<1> QED BY <1>1, CyclesInvariance, PTL

\* Whatever fails during onboarding, a channel that became active has been measured
\* (scheduler/jobs.py:188-219).
THEOREM Measured ==
    ASSUME CyclesAssumption
    PROVE  Spec => []ActiveIsMeasured
<1>1. CyclesInv => ActiveIsMeasured
    BY DEF CyclesInv, Onboarding, ActiveIsMeasured
<1> QED BY <1>1, CyclesInvariance, PTL

==============================================================================
