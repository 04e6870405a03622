------------------------------- MODULE AuditLog -------------------------------
(***************************************************************************)
(* What the agent_runs table promises to those who read it: an entry is    *)
(* opened once, an open entry may be closed as failed by anybody, several  *)
(* at a time, but "completed" is only ever written by the run itself and   *)
(* is never taken back, even if the entry was closed as failed before.     *)
(***************************************************************************)
CONSTANT Entries

VARIABLE status

Statuses == {"none", "running", "completed", "failed"}

Init == status = [e \in Entries |-> "none"]

Open(e) ==
    /\ status[e] = "none"
    /\ status' = [status EXCEPT ![e] = "running"]

Complete(e) ==
    /\ status[e] \in {"running", "failed"}
    /\ status' = [status EXCEPT ![e] = "completed"]

\* Any number of open entries are closed in one step.
Sweep ==
    /\ status' \in [Entries -> Statuses]
    /\ \A e \in Entries :
        status'[e] # status[e] => status[e] = "running" /\ status'[e] = "failed"

Next ==
    \/ \E e \in Entries : Open(e) \/ Complete(e)
    \/ Sweep

Spec == Init /\ [][Next]_status
=============================================================================
