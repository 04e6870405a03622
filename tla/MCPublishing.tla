----------------------------- MODULE MCPublishing -----------------------------
\* Instances of Publishing: two posts, the first of which has the earlier slot.
EXTENDS Publishing, TLC

CONSTANTS p1, p2

MCSlot == [p \in Posts |-> IF p = p1 THEN 0 ELSE 1]

\* The scheduler processes run the same code; no property tells them apart.
PublisherSymmetry == Permutations(Publishers)
=============================================================================
