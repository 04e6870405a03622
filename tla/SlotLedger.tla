------------------------------ MODULE SlotLedger ------------------------------
(***************************************************************************)
(* What planning and dispatching promise together about the slots of a     *)
(* strategy: a slot is planned once, a post is queued only for a slot that *)
(* was planned, "generated" is written only for a slot that has a post,    *)
(* and a replan drops only slots that are not generated.  Queueing another *)
(* post for the same slot is a stuttering step: the promise is             *)
(* at-least-once.                                                          *)
(***************************************************************************)
CONSTANT Tasks

VARIABLES
    planned,     \* slots that have been inserted by a plan
    fired,       \* slots for which a post has been queued
    generated,   \* slots whose row says "generated"
    dropped      \* slots a later plan has deleted

vars == <<planned, fired, generated, dropped>>

Init ==
    /\ planned = {}
    /\ fired = {}
    /\ generated = {}
    /\ dropped = {}

Replan(new, old) ==
    /\ new \cap planned = {}
    /\ old \cap generated = {}
    /\ planned' = planned \cup new
    /\ dropped' = dropped \cup old
    /\ UNCHANGED <<fired, generated>>

Fire(t) ==
    /\ t \in planned \ dropped
    /\ fired' = fired \cup {t}
    /\ UNCHANGED <<planned, generated, dropped>>

Finish(t) ==
    /\ t \in fired \ dropped
    /\ generated' = generated \cup {t}
    /\ UNCHANGED <<planned, fired, dropped>>

Next ==
    \/ \E new, old \in SUBSET Tasks : Replan(new, old)
    \/ \E t \in Tasks : Fire(t) \/ Finish(t)

Spec == Init /\ [][Next]_vars
=============================================================================
