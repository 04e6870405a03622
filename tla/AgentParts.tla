------------------------------ MODULE AgentParts ------------------------------
(***************************************************************************)
(* Runs of agents: how they are started, cancelled and logged, and what    *)
(* the Content Agent does in its own.  The two share no state the models   *)
(* keep, so every behaviour is one of a single part, chosen at its start.  *)
(***************************************************************************)
EXTENDS AgentRuns, Content

VARIABLE system  \* the part of this behaviour

InitAll ==
    /\ system \in {"runs", "content"}
    /\ Init
    /\ ContentInit
    /\ dealing => system = "content"
    /\ system = "content" <=> sources # {}

StepAll ==
    /\ \/ system = "runs" /\ Next /\ UNCHANGED contentVars
       \/ system = "content" /\ ContentNext /\ UNCHANGED vars
    /\ UNCHANGED system

AllAgents == InitAll /\ [][StepAll]_<<system, vars, contentVars>>

\* The part that is at work is of its types and within its bounds.
TypesOK == IF system = "runs" THEN TypeOK ELSE ContentTypeOK
=============================================================================
