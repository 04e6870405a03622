---------------------------- MODULE WorkspaceParts ----------------------------
(***************************************************************************)
(* The parts of the workspace that share no state the models keep: every   *)
(* behaviour is one of a single part, chosen at its start, while the       *)
(* variables of the others stay at their initial values.                   *)
(***************************************************************************)
EXTENDS Growth, Competitors, Planning, Deals, Sources, Tenancy

CONSTANT Parts   \* the parts at work: "growth", "competitors", "planning", "picking", "seeds", "tenancy"

VARIABLE system  \* the part of this behaviour

Start ==
    /\ system \in Parts
    /\ GrowthInit
    /\ CompetitorsInit
    /\ PlanningInit
    /\ DealsInit
    /\ SourcesInit
    /\ TenancyInit
    /\ system = "competitors" \/ rivals = <<>>
    /\ system = "tenancy" \/ orgs = {}

\* All but the variables of one part.
Still(part) ==
    /\ UNCHANGED system
    /\ IF part = "growth" THEN TRUE ELSE UNCHANGED growthVars
    /\ IF part = "competitors" THEN TRUE ELSE UNCHANGED competitorVars
    /\ IF part = "planning" THEN TRUE ELSE UNCHANGED planningVars
    /\ IF part = "picking" THEN TRUE ELSE UNCHANGED dealVars
    /\ IF part = "seeds" THEN TRUE ELSE UNCHANGED seedVars
    /\ IF part = "tenancy" THEN TRUE ELSE UNCHANGED tenancyVars

Step ==
    \/ system = "growth" /\ GrowthNext /\ Still("growth")
    \/ system = "competitors" /\ CompetitorsNext /\ Still("competitors")
    \/ system = "planning" /\ PlanningNext /\ Still("planning")
    \/ system = "picking" /\ DealsNext /\ Still("picking")
    \/ system = "seeds" /\ SourcesNext /\ Still("seeds")
    \/ system = "tenancy" /\ TenancyNext /\ Still("tenancy")

all ==
    <<system, growthVars, competitorVars, planningVars, dealVars, seedVars, tenancyVars>>

Workspace == Start /\ [][Step]_all

\* The part that is at work is of its types and within its bounds.
TypesOK ==
    /\ system = "growth" => GrowthTypeOK
    /\ system = "competitors" => CompetitorsTypeOK
    /\ system = "planning" => PlanningTypeOK
    /\ system = "picking" => DealsTypeOK
    /\ system = "seeds" => SourcesTypeOK
    /\ system = "tenancy" => TenancyTypeOK
=============================================================================
