-------------------------------- MODULE Cycles --------------------------------
(***************************************************************************)
(* The jobs that run the agents over one channel: the daily cycle, the     *)
(* weekly cycle (the monthly audit is the same with another trigger),      *)
(* onboarding, and an analytics run started by hand.  A job works on the   *)
(* list of channels it read when it began, runs one agent after the other, *)
(* swallows the failure of each, and writes the channel's row in sessions  *)
(* of its own.  An analytics run may ask for an early review of the        *)
(* strategy, which the daily cycle answers.                                *)
(***************************************************************************)
EXTENDS Integers

CONSTANTS
    Jobs,        \* tasks that run a job, in either process
    JobKind,     \* [Jobs -> {"daily", "weekly", "onboard", "manual"}]
    Tiers,       \* "new" and the tiers of larger channels
    MaxCrashes   \* bound: crashes and failed commits

CyclesAssumption ==
    /\ JobKind \in [Jobs -> {"daily", "weekly", "onboard", "manual"}]
    /\ "new" \in Tiers
    /\ MaxCrashes \in Nat

VARIABLES
    tier,        \* channels.tier
    active,      \* channels.status is "active", no longer "onboarding"
    profiled,    \* a channel_dna row that is not insufficient_data
    flag,        \* channels.needs_strategy_review
    job,          \* where each job is
    listed,      \* the channel's row as the job has it: its tier and its flag
    crashes,
    (* history *)
    measured,    \* _refresh_tier has set the tier by what Telegram says of the channel
    unreviewed,  \* no review has begun since the flag was last raised
    raced        \* ... and it was raised while a review was going on

review == <<flag, unreviewed, raced>>
channel == <<tier, active, profiled, measured>>
vars == <<channel, review, job, listed, crashes>>

\* What a job keeps in memory when it is not running.
Unlisted == [tier |-> "new", flag |-> FALSE]

TypeOK ==
    /\ tier \in Tiers
    /\ active \in BOOLEAN
    /\ profiled \in BOOLEAN
    /\ flag \in BOOLEAN
    /\ job \in [Jobs -> {"idle", "refresh", "gate", "profile", "analyse", "strategy",
                        "review", "clear", "finish"}]
    /\ listed \in [Jobs -> [tier : Tiers, flag : BOOLEAN]]
    /\ crashes \in 0 .. MaxCrashes
    /\ measured \in BOOLEAN
    /\ unreviewed \in BOOLEAN
    /\ raced \in BOOLEAN

Init ==
    /\ tier = "new"
    /\ active = FALSE
    /\ profiled = FALSE
    /\ flag = FALSE
    /\ job = [j \in Jobs |-> "idle"]
    /\ listed = [j \in Jobs |-> Unlisted]
    /\ crashes = 0
    /\ measured = FALSE
    /\ unreviewed = FALSE
    /\ raced = FALSE

\* The job goes on; its list is gone when it ends.
Goto(j, step) ==
    /\ job' = [job EXCEPT ![j] = step]
    /\ listed' = [listed EXCEPT ![j] = IF step = "idle" THEN Unlisted ELSE @]

-----------------------------------------------------------------------------
\* Variant: the key is missing from list_channels.
ListedWithout == [tier |-> tier, flag |-> FALSE]

\* What list_channels returns of the row.
Listed == [tier |-> tier, flag |-> flag]

FirstStep(j) ==
    CASE JobKind[j] = "daily"  -> "gate"
      [] JobKind[j] = "manual" -> "analyse"
      [] OTHER              -> "refresh"

\* The job reads its list (or the channel's context) and opens a Telegram session.
Begin(j) ==
    /\ job[j] = "idle"
    /\ job' = [job EXCEPT ![j] = FirstStep(j)]
    /\ listed' = [listed EXCEPT ![j] = Listed]
    /\ UNCHANGED <<channel, review, crashes>>

\* _refresh_tier, whose result replaces the tier of the list; a channel that hides its member
\* count is "new".
Refresh(j) ==
    /\ job[j] = "refresh"
    /\ \E live \in Tiers :
        /\ tier' = live
        /\ listed' = [listed EXCEPT ![j].tier = live]
    /\ measured' = TRUE
    /\ job' = [job EXCEPT ![j] = IF JobKind[j] = "weekly" THEN "gate" ELSE "profile"]
    /\ UNCHANGED <<active, profiled, review, crashes>>

\* Variant: onboarding swallows the failure as well.
AfterFailedRefreshAny(j) == IF JobKind[j] = "weekly" THEN "gate" ELSE "profile"

\* A weekly cycle goes on with the tier of its list, onboarding ends with the exception.
AfterFailedRefresh(j) == IF JobKind[j] = "weekly" THEN "gate" ELSE "idle"

RefreshFails(j) ==
    /\ job[j] = "refresh"
    /\ Goto(j, AfterFailedRefresh(j))
    /\ UNCHANGED <<channel, review, crashes>>

\* is_tier_a, of the tier in the list or as just refreshed.
Young(j) == listed[j].tier = "new"

\* The daily cycle has analytics for channels that are not young or have a profile; a
\* weekly cycle runs the whole pipeline for channels that are not young or have posts
\* enough, and plans at once for the others.
Gate(j) ==
    /\ job[j] = "gate"
    /\ IF JobKind[j] = "daily"
         THEN Goto(j, IF ~Young(j) \/ profiled THEN "analyse" ELSE "strategy")
         ELSE \E posts \in BOOLEAN :
                Goto(j, IF ~Young(j) \/ posts THEN "profile" ELSE "strategy")
    /\ UNCHANGED <<channel, review, crashes>>

\* ChannelDNAAgent, which sets the tier by the member count it finds, with too few posts for a
\* profile, with a profile or with a failure; the list keeps the tier it has.
Profile(j) ==
    /\ job[j] = "profile"
    /\ tier' \in Tiers
    /\ profiled' \in BOOLEAN
    /\ Goto(j, "analyse")
    /\ UNCHANGED <<active, measured, review, crashes>>

AfterAnalysis(j) == IF JobKind[j] = "manual" THEN "idle" ELSE "strategy"

\* The analytics run finds churn or a drop of the engagement: flag_strategy_review.
Raise(j) ==
    /\ job[j] = "analyse"
    /\ flag' = TRUE
    /\ unreviewed' = TRUE
    /\ raced' = \E k \in Jobs : job[k] = "clear"
    /\ Goto(j, AfterAnalysis(j))
    /\ UNCHANGED <<channel, crashes>>

\* It finds nothing, or it fails, which may be after it has saved its snapshot.
Analyse(j) ==
    /\ job[j] = "analyse"
    /\ Goto(j, AfterAnalysis(j))
    /\ UNCHANGED <<channel, review, crashes>>

\* Variant: the flag is cleared whether or not there was a review.
AfterStrategyAlways(j) ==
    CASE JobKind[j] = "onboard" -> "finish"
      [] JobKind[j] = "daily"   -> IF listed[j].flag THEN "review" ELSE "clear"
      [] OTHER               -> "idle"

\* Only the daily cycle looks at the flag, as its list has it.
AfterStrategy(j) ==
    CASE JobKind[j] = "onboard"                     -> "finish"
      [] JobKind[j] = "daily" /\ listed[j].flag -> "review"
      [] OTHER                                   -> "idle"

\* The planned run of the Strategy Agent.
Strategy(j) ==
    /\ job[j] = "strategy"
    /\ Goto(j, AfterStrategy(j))
    /\ UNCHANGED <<channel, review, crashes>>

\* The early review begins; it goes on until the flag is cleared.
Review(j) ==
    /\ job[j] = "review"
    /\ Goto(j, "clear")
    /\ unreviewed' = FALSE
    /\ raced' = FALSE
    /\ UNCHANGED <<channel, flag, crashes>>

\* Variant: only the reason is reset.
ClearedReason == flag

\* The flag after clear_strategy_review_flag.
Cleared == FALSE

\* The review has ended, in whatever way.
Clear(j) ==
    /\ job[j] = "clear"
    /\ flag' = Cleared
    /\ Goto(j, "idle")
    /\ UNCHANGED <<channel, crashes, unreviewed, raced>>

\* The end of onboarding, reached whatever became of the agents.
Finish(j) ==
    /\ job[j] = "finish"
    /\ active' = TRUE
    /\ Goto(j, "idle")
    /\ UNCHANGED <<tier, profiled, measured, review, crashes>>

\* The job ends early: an exception outside of _safe, or the process restarts.
Crash(j) ==
    /\ job[j] # "idle"
    /\ crashes < MaxCrashes
    /\ crashes' = crashes + 1
    /\ Goto(j, "idle")
    /\ UNCHANGED <<channel, review>>

-----------------------------------------------------------------------------
JobStep(j) ==
    \/ Refresh(j)
    \/ RefreshFails(j)
    \/ Gate(j)
    \/ Profile(j)
    \/ Raise(j)
    \/ Analyse(j)
    \/ Strategy(j)
    \/ Review(j)
    \/ Clear(j)
    \/ Finish(j)

Next == \E j \in Jobs : Begin(j) \/ JobStep(j) \/ Crash(j)

Spec == Init /\ [][Next]_vars

(***************************************************************************)
(* Fairness: the daily cycle fires every day and works off its list.       *)
(* Nothing is assumed of the other jobs.                                   *)
(***************************************************************************)
Fairness == \A j \in Jobs : JobKind[j] = "daily" => WF_vars(Begin(j)) /\ WF_vars(JobStep(j))

FairSpec == Spec /\ Fairness

-----------------------------------------------------------------------------
(***************************************************************************)
(* Properties.                                                             *)
(***************************************************************************)

\* A request for an early review is not taken down before a review has begun after it,
\* unless it was made while one was going on: cycles act on the flag of an old list,
\* but clear the flag of the row (scheduler/jobs.py:151-153).
RequestIsKept == unreviewed => flag \/ raced

\* A request is taken down some day: the next daily cycle reads it, and one that dies
\* on the way leaves it to the one after (scheduler/jobs.py:134-153).
RequestIsAnswered == flag ~> ~flag

\* A channel that is active has been looked up on Telegram, so that its tier is no longer the
\* one it was created with, unless that is what Telegram says or hides: of all the steps of
\* onboarding only the refresh of the tier may not fail (scheduler/jobs.py:188-219).
ActiveIsMeasured == active => measured
=============================================================================
