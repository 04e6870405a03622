------------------------------ MODULE Publishing ------------------------------
(***************************************************************************)
(* The review queue and the publisher: everything that happens to a        *)
(* generated post once it exists.                                          *)
(*                                                                         *)
(*   - a generator (the slot dispatcher, a manual content run) inserts the *)
(*     post and its queue row, then approves it itself when the            *)
(*     organisation has switched auto-approval on (tools/content.py);      *)
(*   - an operator approves, edits or rejects it over HTTP, and approving  *)
(*     publishes at once (api/routers/review.py);                          *)
(*   - each scheduler process polls for due posts and sends them           *)
(*     (scheduler/jobs.py).  Both the api and the scheduler containers     *)
(*     start a scheduler, so there may be several publishers.              *)
(*                                                                         *)
(* A step is what runs between two awaits that reach the database or       *)
(* Telegram.  The database commits of one step are atomic; everything a    *)
(* process has read stays as it was read.                                  *)
(***************************************************************************)
EXTENDS Naturals, FiniteSets

CONSTANTS
    Posts,         \* generated posts
    Generators,    \* processes that create posts
    Publishers,    \* scheduler processes, each running publish_due_posts
    Requests,      \* concurrent HTTP calls of the approve endpoint
    Broken,        \* posts Telegram always refuses (bot not an admin, bad media)
    Slot,          \* [Posts -> Nat]: post_queue.scheduled_at
    BatchLimit,    \* the LIMIT of publish_due_posts (25 in the code)
    NoPost,        \* "no post in hand"
    MaxTime,       \* bound: last instant of the clock
    MaxApprovals,  \* bound: approve calls
    MaxFaults      \* bound: crashes, lost answers and failed commits

Senders == Publishers \cup Requests

ASSUME PublishingAssumption ==
    /\ Publishers \cap Requests = {}
    /\ Slot \in [Posts -> Nat]
    /\ Broken \subseteq Posts
    /\ NoPost \notin Posts
    /\ BatchLimit \in Nat \ {0}
    /\ MaxTime \in Nat
    /\ MaxApprovals \in Nat
    /\ MaxFaults \in Nat

VARIABLES
    now,         \* the clock
    auto,        \* the effective auto-approve setting of the channel
    review,      \* generated_posts.review_status; "none" before the row exists
    queue,       \* post_queue.status; "none" before the row exists
    gen,         \* where each generator is in its queueing of a post
    pc,          \* where each sender is in publish_generated_post
    cur,         \* the post it has in hand
    todo,        \* rest of the batch a publisher read (a list, oldest slot first)
    approvals,   \* approve calls so far
    faults,      \* faults so far
    (* history *)
    approvedBy,  \* who has approved the post: "operator", "auto"
    everAuto,    \* whether auto-approval has ever been on
    sentBy,      \* copies of a post on the channel, by the sender that sent them
    lost         \* those of them whose sending was never recorded

reviewVars  == <<auto, review, queue, gen>>
senderVars  == <<pc, cur, todo>>
historyVars == <<approvedBy, everAuto, sentBy, lost>>
vars == <<now, reviewVars, senderVars, approvals, faults, historyVars>>

ReviewStatus == {"none", "pending", "approved", "edited", "rejected"}
QueueStatus  == {"none", "queued", "sent"}

TypeOK ==
    /\ now \in Nat
    /\ auto \in BOOLEAN
    /\ review \in [Posts -> ReviewStatus]
    /\ queue \in [Posts -> QueueStatus]
    /\ gen \in [Generators -> [pc : {"idle", "queued", "approving"},
                               post : Posts \cup {NoPost}]]
    /\ pc \in [Senders -> {"idle", "send", "record"}]
    /\ cur \in [Senders -> Posts \cup {NoPost}]
    /\ todo \in [Publishers -> SUBSET Posts]
    /\ approvals \in Nat
    /\ faults \in Nat
    /\ approvedBy \in [Posts -> SUBSET {"operator", "auto"}]
    /\ everAuto \in BOOLEAN
    /\ sentBy \in [Senders -> [Posts -> Nat]]
    /\ lost \in [Senders -> [Posts -> Nat]]

Idle == [pc |-> "idle", post |-> NoPost]

Init ==
    /\ now = 0
    /\ auto \in BOOLEAN
    /\ review = [p \in Posts |-> "none"]
    /\ queue = [p \in Posts |-> "none"]
    /\ gen = [g \in Generators |-> Idle]
    /\ pc = [s \in Senders |-> "idle"]
    /\ cur = [s \in Senders |-> NoPost]
    /\ todo = [s \in Publishers |-> {}]
    /\ approvals = 0
    /\ faults = 0
    /\ approvedBy = [p \in Posts |-> {}]
    /\ everAuto = auto
    /\ sentBy = [s \in Senders |-> [p \in Posts |-> 0]]
    /\ lost = [s \in Senders |-> [p \in Posts |-> 0]]

-----------------------------------------------------------------------------
(***************************************************************************)
(* Generators.                                                             *)
(***************************************************************************)

\* add_to_review_queue: the post and its queue row, in one transaction.
AddToReviewQueue(g, p) ==
    /\ gen[g].pc = "idle"
    /\ review[p] = "none"
    /\ review' = [review EXCEPT ![p] = "pending"]
    /\ queue' = [queue EXCEPT ![p] = "queued"]
    /\ gen' = [gen EXCEPT ![g] = [pc |-> "queued", post |-> p]]
    /\ UNCHANGED <<now, auto, senderVars, approvals, faults, historyVars>>

\* maybe_auto_publish, first session: read the setting, and return if it is off.
ReadAutoApprove(g) ==
    /\ gen[g].pc = "queued"
    /\ gen' = [gen EXCEPT ![g] = IF auto THEN [@ EXCEPT !.pc = "approving"] ELSE Idle]
    /\ UNCHANGED <<now, auto, review, queue, senderVars, approvals, faults, historyVars>>

\* maybe_auto_publish, second session: update_review_status(post, "approved"),
\* whatever the status has become since.
AutoApprove(g) ==
    /\ gen[g].pc = "approving"
    /\ review' = [review EXCEPT ![gen[g].post] = "approved"]
    /\ approvedBy' = [approvedBy EXCEPT ![gen[g].post] = @ \cup {"auto"}]
    /\ gen' = [gen EXCEPT ![g] = Idle]
    /\ UNCHANGED <<now, auto, queue, senderVars, approvals, faults, everAuto, sentBy, lost>>

\* The generator stops (an exception, a restart) after it queued the post.
GeneratorStops(g) ==
    /\ gen[g].pc # "idle"
    /\ gen' = [gen EXCEPT ![g] = Idle]
    /\ UNCHANGED <<now, auto, review, queue, senderVars, approvals, faults, historyVars>>

-----------------------------------------------------------------------------
(***************************************************************************)
(* Operators.  update_review_status has no state machine: any verdict may  *)
(* be given to any existing post, also to one that has been sent.          *)
(***************************************************************************)
Reviewed(p, status) ==
    /\ review[p] # "none"
    /\ review' = [review EXCEPT ![p] = status]

\* The approve endpoint commits the verdict and goes on to publish the post.
Approve(r, p) ==
    /\ pc[r] = "idle"
    /\ approvals < MaxApprovals
    /\ Reviewed(p, "approved")
    /\ approvals' = approvals + 1
    /\ approvedBy' = [approvedBy EXCEPT ![p] = @ \cup {"operator"}]
    /\ pc' = [pc EXCEPT ![r] = "send"]
    /\ cur' = [cur EXCEPT ![r] = p]
    /\ UNCHANGED <<now, auto, queue, gen, todo, faults, everAuto, sentBy, lost>>

Verdict(p, status) ==
    /\ Reviewed(p, status)
    /\ UNCHANGED <<now, auto, queue, gen, senderVars, approvals, faults, historyVars>>

Reject(p) == Verdict(p, "rejected")

\* Variant: editing sends the post back for a new score, a status the enum lacks.
EditRescores(p) == Verdict(p, "rescored")

Edit(p) == Verdict(p, "edited")

\* The organisation's settings are saved with auto_approve_content flipped.
SetAutoApprove ==
    /\ auto' = ~auto
    /\ everAuto' = (everAuto \/ auto')
    /\ UNCHANGED <<now, review, queue, gen, senderVars, approvals, faults,
                   approvedBy, sentBy, lost>>

-----------------------------------------------------------------------------
(***************************************************************************)
(* Senders.  publish_generated_post loads the post, sends it and, when the *)
(* answer says it was sent, marks the queue row.  It looks neither at the  *)
(* review status nor at the queue status.                                  *)
(***************************************************************************)
\* Variants of the query: without the review filter, without the queue filter, and
\* with the lead time of the generator.
DueUnreviewed == {p \in Posts : queue[p] = "queued" /\ Slot[p] <= now}
DueResent == {p \in Posts : review[p] = "approved" /\ Slot[p] <= now}
DueEarly == {p \in Posts : queue[p] = "queued" /\ review[p] = "approved" /\ Slot[p] <= now + 1}

Due == {p \in Posts : queue[p] = "queued" /\ review[p] = "approved" /\ Slot[p] <= now}

\* Variant: one row short of the limit.
IsShortBatch(B) ==
    /\ B \subseteq Due
    /\ Cardinality(B) < BatchLimit
    /\ B # Due => Cardinality(B) = BatchLimit - 1
    /\ \A p \in B, q \in Due \ B : Slot[p] <= Slot[q]

\* ORDER BY scheduled_at LIMIT BatchLimit; equal slots come in any order.
IsBatch(B) ==
    /\ B \subseteq Due
    /\ Cardinality(B) <= BatchLimit
    /\ B # Due => Cardinality(B) = BatchLimit
    /\ \A p \in B, q \in Due \ B : Slot[p] <= Slot[q]

\* publish_due_posts, its query.  max_instances=1: never while a batch is open.
Poll(s) ==
    /\ pc[s] = "idle"
    /\ todo[s] = {}
    /\ Due # {}
    /\ \E B \in SUBSET Due :
        /\ IsBatch(B)
        /\ todo' = [todo EXCEPT ![s] = B]
    /\ UNCHANGED <<now, reviewVars, pc, cur, approvals, faults, historyVars>>

\* The next post of the list: publish_generated_post reads its row.
StartNext(s) ==
    /\ pc[s] = "idle"
    /\ \E p \in todo[s] :
        /\ \A q \in todo[s] : Slot[p] <= Slot[q]
        /\ todo' = [todo EXCEPT ![s] = @ \ {p}]
        /\ cur' = [cur EXCEPT ![s] = p]
    /\ pc' = [pc EXCEPT ![s] = "send"]
    /\ UNCHANGED <<now, reviewVars, approvals, faults, historyVars>>

Return(s) ==
    /\ pc' = [pc EXCEPT ![s] = "idle"]
    /\ cur' = [cur EXCEPT ![s] = NoPost]

Copied(s) == sentBy' = [sentBy EXCEPT ![s][cur[s]] = @ + 1]

Unrecorded(s) == lost' = [lost EXCEPT ![s][cur[s]] = @ + 1]

Fault ==
    /\ faults < MaxFaults
    /\ faults' = faults + 1

\* Telegram accepts the message and its answer arrives.
SendOk(s) ==
    /\ pc[s] = "send"
    /\ cur[s] \notin Broken
    /\ Copied(s)
    /\ pc' = [pc EXCEPT ![s] = "record"]
    /\ UNCHANGED <<now, reviewVars, cur, todo, approvals, faults, approvedBy, everAuto, lost>>

\* Variant: the row is marked whatever Telegram answered.
SendFailsUnchecked(s) ==
    /\ pc[s] = "send"
    /\ pc' = [pc EXCEPT ![s] = "record"]
    /\ UNCHANGED <<now, reviewVars, cur, todo, approvals, faults, historyVars>>

\* Refused, unreachable or no BOT_TOKEN: an error dict, and the row stays "queued".
SendFails(s) ==
    /\ pc[s] = "send"
    /\ Return(s)
    /\ UNCHANGED <<now, reviewVars, todo, approvals, faults, historyVars>>

\* Telegram accepts the message and the answer times out: again an error dict.
SendTimesOut(s) ==
    /\ pc[s] = "send"
    /\ cur[s] \notin Broken
    /\ Fault
    /\ Copied(s)
    /\ Unrecorded(s)
    /\ Return(s)
    /\ UNCHANGED <<now, reviewVars, todo, approvals, approvedBy, everAuto>>

\* status = sent, published_at and the message id, committed.
Record(s) ==
    /\ pc[s] = "record"
    /\ queue' = [queue EXCEPT ![cur[s]] = "sent"]
    /\ Return(s)
    /\ UNCHANGED <<now, auto, review, gen, todo, approvals, faults, historyVars>>

\* The commit raises: _safe swallows it in the publisher, the endpoint answers 500.
RecordFails(s) ==
    /\ pc[s] = "record"
    /\ Fault
    /\ Unrecorded(s)
    /\ Return(s)
    /\ UNCHANGED <<now, reviewVars, todo, approvals, approvedBy, everAuto, sentBy>>

\* The process restarts: the batch and the post in hand are forgotten.
Crash(s) ==
    /\ pc[s] # "idle" \/ (s \in Publishers /\ todo[s] # {})
    /\ Fault
    /\ IF pc[s] = "record" THEN Unrecorded(s) ELSE UNCHANGED lost
    /\ Return(s)
    /\ todo' = [t \in Publishers |-> IF t = s THEN {} ELSE todo[t]]
    /\ UNCHANGED <<now, reviewVars, approvals, approvedBy, everAuto, sentBy>>

Tick ==
    /\ now < MaxTime
    /\ now' = now + 1
    /\ UNCHANGED <<reviewVars, senderVars, approvals, faults, historyVars>>

-----------------------------------------------------------------------------
GeneratorStep(g) ==
    \/ \E p \in Posts : AddToReviewQueue(g, p)
    \/ ReadAutoApprove(g)
    \/ AutoApprove(g)
    \/ GeneratorStops(g)

SenderStep(s) ==
    \/ SendOk(s)
    \/ SendFails(s)
    \/ SendTimesOut(s)
    \/ Record(s)
    \/ RecordFails(s)
    \/ Crash(s)

Next ==
    \/ \E g \in Generators : GeneratorStep(g)
    \/ \E r \in Requests, p \in Posts : Approve(r, p)
    \/ \E p \in Posts : Reject(p) \/ Edit(p)
    \/ SetAutoApprove
    \/ \E s \in Publishers : Poll(s) \/ StartNext(s)
    \/ \E s \in Senders : SenderStep(s)
    \/ Tick

Spec == Init /\ [][Next]_vars

(***************************************************************************)
(* Fairness.  Interval jobs fire forever and a batch is worked through,    *)
(* so a publisher that can poll, start, finish a send or commit does.      *)
(* Telegram accepts a post it does not refuse for good, if it is tried     *)
(* again and again: strong fairness of SendOk, post by post.  Nothing is   *)
(* assumed of operators, generators and faults.                            *)
(***************************************************************************)
Finishes(s) == SendOk(s) \/ SendFails(s) \/ SendTimesOut(s)

Fairness ==
    /\ WF_vars(Tick)
    /\ \A s \in Publishers :
        /\ WF_vars(Poll(s))
        /\ WF_vars(StartNext(s))
        /\ WF_vars(Finishes(s))
        /\ WF_vars(Record(s) \/ RecordFails(s))
        /\ \A p \in Posts : SF_vars(SendOk(s) /\ cur[s] = p)

FairSpec == Spec /\ Fairness

-----------------------------------------------------------------------------
(***************************************************************************)
(* Properties.                                                             *)
(***************************************************************************)
Delivered(p) == \E s \in Senders : sentBy[s][p] > 0

\* While auto-approval has never been switched on, a post reaches the channel
\* only after an operator approved it: publish_due_posts filters on the status,
\* and the approve endpoint sets it before it publishes (scheduler/jobs.py:340-361).
ManualReviewHolds ==
    ~everAuto => \A p \in Posts : Delivered(p) => "operator" \in approvedBy[p]

\* However batches, operators and faults interleave, a scheduler process puts a
\* post on the channel once, and once more for each of its own sends of that post
\* that was never recorded.  The sent mark of another process does not stop it
\* (the batch is stale), but its own does (tools/content.py:1312-1322).
OneCopyPerPublisher ==
    \A s \in Publishers, p \in Posts : sentBy[s][p] <= 1 + lost[s][p]

\* A scheduler process never sends a post before its slot
\* (scheduled_at <= now, scheduler/jobs.py:359).
PublisherWaitsForSlot ==
    \A s \in Publishers, p \in Posts : sentBy[s][p] > 0 => Slot[p] <= now

\* The abstract state: what was ever approved, what is on the channel, what is marked.
Promise == INSTANCE Delivery WITH
    approved  <- {p \in Posts : approvedBy[p] # {}},
    delivered <- {p \in Posts : Delivered(p)},
    confirmed <- {p \in Posts : queue[p] = "sent"}

\* The queue and the publisher keep the promise of Delivery: nothing unapproved
\* reaches the channel, "sent" is written only for a post that is there, and neither
\* is ever taken back (scheduler/jobs.py:340-370, tools/content.py:1290-1323).
ImplementsDelivery == Promise!Spec

\* An approved post whose slot has come is sent, unless its approval is taken
\* back, as long as fewer posts than a batch holds are refused for good
\* (scheduler/jobs.py:353-369: a refused post stays in the queue and is tried again).
DuePostIsSent ==
    \A p \in Posts \ Broken :
        p \in Due ~> (queue[p] = "sent" \/ review[p] # "approved")

\* "Publish approved posts whose slot time has arrived" (scheduler/jobs.py:341): the
\* scheduler sends a post only while it is approved.  The publisher acts on the list
\* it has read, so the code does not guarantee it.
SendsOnlyApproved ==
    [][\A s \in Publishers, p \in Posts :
        sentBy'[s][p] > sentBy[s][p] => review[p] = "approved"]_vars
=============================================================================
