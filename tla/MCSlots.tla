------------------------------- MODULE MCSlots -------------------------------
\* Instances of SlotDispatch that differ in who is at work, chosen at the start.
EXTENDS MCSlotDispatch

CONSTANTS d1, o1, a1, a2

VARIABLE crew   \* workers and planners of this behaviour, and its bounds

Crew(workers, planners, plans, mostFaults) ==
    [workers |-> workers, planners |-> planners, plans |-> plans, faults |-> mostFaults]

\* A dispatcher and an onboarding run, two plans or a fault; the dispatcher alone with both,
\* and with planners that overlap.
MCCrews ==
    {Crew({d1, o1}, {a1}, 2, 0), Crew({d1, o1}, {a1}, 1, 1),
     Crew({d1}, {a1}, 2, 1), Crew({d1}, {a1, a2}, 2, 0)}

Start == Init /\ crew \in MCCrews

\* The others are idle.
Step ==
    /\ Next
    /\ UNCHANGED crew
    /\ created' <= crew.plans
    /\ faults' <= crew.faults
    /\ \A w \in Workers \ crew.workers : pc'[w] = "idle"
    /\ \A a \in Planners \ crew.planners : plan'[a] = NoRun

Slots == Start /\ [][Step]_<<vars, crew>> /\ Fairness
=============================================================================
