------------------------------ MODULE MCProgress ------------------------------
(***************************************************************************)
(* What must happen in the end: requests for a review are answered, due    *)
(* posts are sent.  The two parts share no state the models keep, so every *)
(* behaviour is one of a single part, chosen at its start, and fair to it. *)
(***************************************************************************)
EXTENDS Cycles

CONSTANTS
    daily, weekly, onboard, p1, p2,
    Posts, Generators, Publishers, Requests, Broken, Slot, BatchLimit, NoPost, MaxTime,
    MaxApprovals, MaxFaults

VARIABLES
    system,
    now, auto, verdict, queue, gen, pc, cur, todo, approvals, faults, approvedBy, everAuto,
    sentBy, lost

publishing ==
    <<now, auto, verdict, queue, gen, pc, cur, todo, approvals, faults, approvedBy, everAuto,
      sentBy, lost>>

MCJobKind == [j \in Jobs |->
    CASE j = daily   -> "daily"
      [] j = onboard -> "onboard"
      [] OTHER       -> "weekly"]

MCSlot == [p \in Posts |-> IF p = p1 THEN 0 ELSE 1]

\* The column review_status, whose name in Publishing is that of two columns here.
Pb == INSTANCE Publishing WITH review <- verdict

ASSUME CyclesAssumption

Start ==
    /\ system \in {"publishing", "cycles"}
    /\ Pb!Init
    /\ Init
    /\ system = "publishing" \/ ~auto

Step ==
    /\ \/ system = "publishing" /\ Pb!Next /\ UNCHANGED vars
       \/ system = "cycles" /\ Next /\ UNCHANGED publishing
    /\ UNCHANGED system

Progress ==
    /\ Start
    /\ [][Step]_<<system, publishing, vars>>
    /\ \/ system = "publishing" /\ Pb!Fairness
       \/ system = "cycles" /\ Fairness

DuePostIsSent == Pb!DuePostIsSent
=============================================================================
