---------------------------- MODULE MCSlotDispatch ----------------------------
\* Instances of SlotDispatch: the window of t1 closes before the end of time, those
\* of the other slots do not.
EXTENDS SlotDispatch

CONSTANTS t1, t2

MCWindow ==
    [t \in Tasks |-> IF t = t1 THEN [day |-> 0, open |-> 0, close |-> 0]
                              ELSE [day |-> 0, open |-> 0, close |-> 1]]

MCPriority == [t \in Tasks |-> IF t = t1 THEN 1 ELSE 0]
=============================================================================
