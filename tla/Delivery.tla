------------------------------- MODULE Delivery -------------------------------
(***************************************************************************)
(* What the review queue and the publisher promise together about a set of *)
(* generated posts, without saying how: a post reaches the channel only    *)
(* after somebody approved it, its queue row says "sent" only when a copy  *)
(* is on the channel, and none of the three facts is ever taken back.  The *)
(* promise is at-least-once: delivering a post again is a stuttering step. *)
(***************************************************************************)
CONSTANT Posts

VARIABLES
    approved,    \* posts whose review status has been "approved" at some time
    delivered,   \* posts of which at least one copy is on the channel
    confirmed    \* posts whose post_queue row says "sent"

vars == <<approved, delivered, confirmed>>

Init ==
    /\ approved = {}
    /\ delivered = {}
    /\ confirmed = {}

Approve(p) ==
    /\ approved' = approved \cup {p}
    /\ UNCHANGED <<delivered, confirmed>>

Deliver(p) ==
    /\ p \in approved
    /\ delivered' = delivered \cup {p}
    /\ UNCHANGED <<approved, confirmed>>

Confirm(p) ==
    /\ p \in delivered
    /\ confirmed' = confirmed \cup {p}
    /\ UNCHANGED <<approved, delivered>>

Next == \E p \in Posts : Approve(p) \/ Deliver(p) \/ Confirm(p)

Spec == Init /\ [][Next]_vars
=============================================================================
