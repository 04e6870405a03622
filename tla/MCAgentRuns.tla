----------------------------- MODULE MCAgentRuns -----------------------------
\* Instances of AgentRuns: one agent that can be started by hand, onboarding with two
\* agents, and a cycle that runs the first agent.
EXTENDS AgentRuns, TLC

CONSTANTS strategy, onboard, daily, dnaAgent, strategyAgent

MCPipeline ==
    [k \in Kinds |-> IF k = onboard THEN <<dnaAgent, strategyAgent>> ELSE <<strategyAgent>>]

MCFullName == [k \in Keys |-> IF k = onboard THEN NoAgent ELSE strategyAgent]

\* Tasks are interchangeable.
RunSymmetry == Permutations(Runs)
=============================================================================
