--------------------------- MODULE Publishing_proofs ---------------------------
(***************************************************************************)
(* Proofs about Publishing, for any posts, processes, slots and bounds.    *)
(*                                                                         *)
(* IInv is the inductive invariant.  Its parts say what a post that a      *)
(* sender holds carries with it: it was approved, its slot has come, and   *)
(* the sender has not put a recorded copy of it on the channel before.     *)
(***************************************************************************)
EXTENDS Publishing, TLAPS

\* A sender has a post in hand exactly while it is busy, and not in its list too.
Custody ==
    /\ \A s \in Senders : pc[s] = "idle" <=> cur[s] = NoPost
    /\ \A s \in Publishers : cur[s] \notin todo[s]
    /\ \A g \in Generators : gen[g].pc # "idle" => gen[g].post \in Posts

\* s holds p: it may still put a copy of p on the channel.
Holds(s, p) ==
    \/ s \in Publishers /\ p \in todo[s]
    \/ cur[s] = p

\* Whatever is approved, held or on the channel was approved by somebody, and by
\* the system itself only if auto-approval has been on.
Approvals ==
    /\ auto => everAuto
    /\ \A g \in Generators : gen[g].pc = "approving" => everAuto
    /\ \A p \in Posts :
        /\ "auto" \in approvedBy[p] => everAuto
        /\ review[p] = "approved" => approvedBy[p] # {}
        /\ review[p] = "none" => approvedBy[p] = {}
        /\ \A s \in Senders :
            Holds(s, p) \/ sentBy[s][p] > 0 => approvedBy[p] # {}

\* A copy is on the channel before it is recorded and once it is.
Records ==
    /\ \A s \in Senders : pc[s] = "record" => sentBy[s][cur[s]] > 0
    /\ \A p \in Posts : queue[p] = "sent" => Delivered(p)

\* What a publisher holds or has sent is due.
Slots ==
    \A s \in Publishers, p \in Posts :
        Holds(s, p) \/ sentBy[s][p] > 0 => Slot[p] <= now

\* A publisher may send a post only if its copies so far are all unrecorded.
Copies ==
    \A s \in Publishers, p \in Posts :
        /\ sentBy[s][p] <= 1 + lost[s][p]
        /\ queue[p] # "sent" /\ ~(pc[s] = "record" /\ cur[s] = p)
            => sentBy[s][p] <= lost[s][p]
        /\ Holds(s, p) /\ ~(pc[s] = "record" /\ cur[s] = p)
            => sentBy[s][p] <= lost[s][p]

IInv ==
    /\ TypeOK
    /\ Custody
    /\ Approvals
    /\ Records
    /\ Slots
    /\ Copies

-----------------------------------------------------------------------------
(***************************************************************************)
(* Types.                                                                  *)
(***************************************************************************)

\* Sending counts one copy of the post in hand, and nothing else.
LEMMA CopiedCounts ==
    ASSUME TypeOK, NEW s \in Senders, Copied(s)
    PROVE  /\ sentBy' \in [Senders -> [Posts -> Nat]]
           /\ cur[s] \in Posts => sentBy'[s][cur[s]] = sentBy[s][cur[s]] + 1
           /\ \A t \in Senders, q \in Posts :
                t # s \/ q # cur[s] => sentBy'[t][q] = sentBy[t][q]
<1>1. sentBy \in [Senders -> [Posts -> Nat]]
    BY DEF TypeOK
<1>2. sentBy' = [sentBy EXCEPT ![s][cur[s]] = @ + 1]
    BY DEF Copied
<1>3. CASE cur[s] \in Posts
    BY <1>1, <1>2, <1>3
<1>4. CASE cur[s] \notin Posts
    BY <1>1, <1>2, <1>4
<1> QED BY <1>3, <1>4

\* Nothing is unsent: only the post in hand may be on the channel for the first time.
LEMMA CopiedDelivers ==
    ASSUME TypeOK, NEW s \in Senders, Copied(s), cur[s] \in Posts
    PROVE  /\ \A t \in Senders, q \in Posts : sentBy[t][q] > 0 => sentBy'[t][q] > 0
           /\ \A q \in Posts : Delivered(q)' <=> Delivered(q) \/ q = cur[s]
<1>1. sentBy \in [Senders -> [Posts -> Nat]]
    BY DEF TypeOK
<1>2. sentBy'[s][cur[s]] = sentBy[s][cur[s]] + 1
    BY CopiedCounts
<1>3. \A t \in Senders, q \in Posts :
        t # s \/ q # cur[s] => sentBy'[t][q] = sentBy[t][q]
    BY CopiedCounts
<1>4. sentBy'[s][cur[s]] > 0
    BY <1>1, <1>2
<1>5. \A t \in Senders, q \in Posts : sentBy[t][q] > 0 => sentBy'[t][q] > 0
    BY <1>3, <1>4
<1>6. \A q \in Posts : Delivered(q)' <=> Delivered(q) \/ q = cur[s]
    BY <1>3, <1>4, <1>5 DEF Delivered
<1> QED BY <1>5, <1>6

\* Losing the record of a send counts one lost copy of the post in hand.
LEMMA UnrecordedCounts ==
    ASSUME TypeOK, NEW s \in Senders, Unrecorded(s)
    PROVE  /\ lost' \in [Senders -> [Posts -> Nat]]
           /\ cur[s] \in Posts => lost'[s][cur[s]] = lost[s][cur[s]] + 1
           /\ \A t \in Senders, q \in Posts :
                t # s \/ q # cur[s] => lost'[t][q] = lost[t][q]
<1>1. lost \in [Senders -> [Posts -> Nat]]
    BY DEF TypeOK
<1>2. lost' = [lost EXCEPT ![s][cur[s]] = @ + 1]
    BY DEF Unrecorded
<1>3. CASE cur[s] \in Posts
    BY <1>1, <1>2, <1>3
<1>4. CASE cur[s] \notin Posts
    BY <1>1, <1>2, <1>4
<1> QED BY <1>3, <1>4

\* Every action of Publishing leaves every variable in its type.
LEMMA TypeStep == TypeOK /\ [Next]_vars => TypeOK'
<1> SUFFICES ASSUME TypeOK, [Next]_vars PROVE TypeOK'
    OBVIOUS
<1> USE PublishingAssumption DEF TypeOK, Senders
<1>1. ASSUME NEW g \in Generators, NEW p \in Posts, AddToReviewQueue(g, p)
      PROVE  TypeOK'
    BY <1>1 DEF AddToReviewQueue, senderVars, historyVars, ReviewStatus, QueueStatus
<1>2. ASSUME NEW g \in Generators, ReadAutoApprove(g)
      PROVE  TypeOK'
    <2>1. gen' \in [Generators -> [pc : {"idle", "queued", "approving"},
                                   post : Posts \cup {NoPost}]]
        <3>1. CASE auto
            BY <1>2, <3>1 DEF ReadAutoApprove
        <3>2. CASE ~auto
            BY <1>2, <3>2 DEF ReadAutoApprove, Idle
        <3> QED BY <3>1, <3>2
    <2> QED BY <1>2, <2>1 DEF ReadAutoApprove, senderVars, historyVars
<1>3. ASSUME NEW g \in Generators, AutoApprove(g)
      PROVE  TypeOK'
    BY <1>3 DEF AutoApprove, senderVars, ReviewStatus, Idle
<1>4. ASSUME NEW g \in Generators, GeneratorStops(g)
      PROVE  TypeOK'
    BY <1>4 DEF GeneratorStops, senderVars, historyVars, Idle
<1>5. ASSUME NEW r \in Requests, NEW p \in Posts, Approve(r, p)
      PROVE  TypeOK'
    BY <1>5 DEF Approve, Reviewed, ReviewStatus
<1>6. ASSUME NEW p \in Posts, Reject(p) \/ Edit(p)
      PROVE  TypeOK'
    BY <1>6 DEF Reject, Edit, Verdict, Reviewed, senderVars, historyVars, ReviewStatus
<1>7. ASSUME SetAutoApprove
      PROVE  TypeOK'
    BY <1>7 DEF SetAutoApprove, senderVars
<1>8. ASSUME NEW s \in Publishers, Poll(s)
      PROVE  TypeOK'
    BY <1>8 DEF Poll, Due, reviewVars, historyVars
<1>9. ASSUME NEW s \in Publishers, StartNext(s)
      PROVE  TypeOK'
    BY <1>9 DEF StartNext, reviewVars, historyVars
<1>10. ASSUME NEW s \in Senders, SenderStep(s)
       PROVE  TypeOK'
    <2>1. CASE SendOk(s)
        BY <2>1, CopiedCounts DEF SendOk, reviewVars
    <2>2. CASE SendFails(s)
        BY <2>2 DEF SendFails, Return, reviewVars, historyVars
    <2>3. CASE SendTimesOut(s)
        BY <2>3, CopiedCounts, UnrecordedCounts DEF SendTimesOut, Fault, Return, reviewVars
    <2>4. CASE Record(s)
        BY <2>4 DEF Record, Return, historyVars, QueueStatus
    <2>5. CASE RecordFails(s)
        BY <2>5, UnrecordedCounts DEF RecordFails, Fault, Return, reviewVars
    <2>6. CASE Crash(s)
        <3>1. lost' \in [Senders -> [Posts -> Nat]]
            BY <2>6, UnrecordedCounts DEF Crash
        <3> QED BY <2>6, <3>1 DEF Crash, Fault, Return, reviewVars
    <2> QED BY <1>10, <2>1, <2>2, <2>3, <2>4, <2>5, <2>6 DEF SenderStep
<1>11. ASSUME Tick
       PROVE  TypeOK'
    BY <1>11 DEF Tick, reviewVars, senderVars, historyVars
<1>12. ASSUME UNCHANGED vars
       PROVE  TypeOK'
    BY <1>12 DEF vars, reviewVars, senderVars, historyVars
<1> QED
    BY <1>1, <1>2, <1>3, <1>4, <1>5, <1>6, <1>7, <1>8, <1>9, <1>10, <1>11, <1>12
    DEF Next, GeneratorStep

\* The initial state is well typed and satisfies the invariant.
LEMMA InitIInv == Init => IInv
<1> SUFFICES ASSUME Init PROVE IInv
    OBVIOUS
<1> USE PublishingAssumption DEF Init
<1>1. TypeOK
    BY DEF TypeOK, Senders, ReviewStatus, QueueStatus, Idle
<1>2. Custody
    BY DEF Custody, Senders, Idle
<1>3. Approvals
    BY DEF Approvals, Holds, Senders, Idle
<1>4. Records
    BY DEF Records
<1>5. Slots
    BY DEF Slots, Holds, Senders
<1>6. Copies
    BY DEF Copies, Holds, Senders
<1> QED BY <1>1, <1>2, <1>3, <1>4, <1>5, <1>6 DEF IInv

-----------------------------------------------------------------------------
(***************************************************************************)
(* Every step preserves each part of the invariant.                        *)
(***************************************************************************)

\* A sender keeps its post until it returns, and takes the next one off its list.
LEMMA CustodyStep == IInv /\ [Next]_vars => Custody'
<1> SUFFICES ASSUME IInv, [Next]_vars PROVE Custody'
    OBVIOUS
<1> USE PublishingAssumption DEF IInv, TypeOK, Custody, Senders
<1>1. ASSUME NEW g \in Generators, NEW p \in Posts, AddToReviewQueue(g, p)
      PROVE  Custody'
    BY <1>1 DEF AddToReviewQueue, senderVars, historyVars
<1>2. ASSUME NEW g \in Generators, ReadAutoApprove(g)
      PROVE  Custody'
    BY <1>2 DEF ReadAutoApprove, senderVars, historyVars, Idle
<1>3. ASSUME NEW g \in Generators, AutoApprove(g)
      PROVE  Custody'
    BY <1>3 DEF AutoApprove, senderVars, Idle
<1>4. ASSUME NEW g \in Generators, GeneratorStops(g)
      PROVE  Custody'
    BY <1>4 DEF GeneratorStops, senderVars, historyVars, Idle
<1>5. ASSUME NEW r \in Requests, NEW p \in Posts, Approve(r, p)
      PROVE  Custody'
    BY <1>5 DEF Approve, Reviewed
<1>6. ASSUME NEW p \in Posts, Reject(p) \/ Edit(p)
      PROVE  Custody'
    BY <1>6 DEF Reject, Edit, Verdict, Reviewed, senderVars, historyVars
<1>7. ASSUME SetAutoApprove
      PROVE  Custody'
    BY <1>7 DEF SetAutoApprove, senderVars
<1>8. ASSUME NEW s \in Publishers, Poll(s)
      PROVE  Custody'
    BY <1>8 DEF Poll, IsBatch, Due, reviewVars, historyVars
<1>9. ASSUME NEW s \in Publishers, StartNext(s)
      PROVE  Custody'
    BY <1>9 DEF StartNext, reviewVars, historyVars
<1>10. ASSUME NEW s \in Senders, SendOk(s)
       PROVE  Custody'
    BY <1>10, CopiedCounts DEF SendOk, reviewVars
<1>11. ASSUME NEW s \in Senders, SendFails(s)
       PROVE  Custody'
    BY <1>11 DEF SendFails, Return, reviewVars, historyVars
<1>12. ASSUME NEW s \in Senders, SendTimesOut(s)
       PROVE  Custody'
    BY <1>12, CopiedCounts, UnrecordedCounts DEF SendTimesOut, Fault, Return, reviewVars
<1>13. ASSUME NEW s \in Senders, Record(s)
       PROVE  Custody'
    BY <1>13 DEF Record, Return, historyVars
<1>14. ASSUME NEW s \in Senders, RecordFails(s)
       PROVE  Custody'
    BY <1>14, UnrecordedCounts DEF RecordFails, Fault, Return, reviewVars
<1>15. ASSUME NEW s \in Senders, Crash(s)
       PROVE  Custody'
    BY <1>15, UnrecordedCounts DEF Crash, Fault, Return, reviewVars
<1>16. ASSUME Tick
       PROVE  Custody'
    BY <1>16 DEF Tick, reviewVars, senderVars, historyVars
<1>17. ASSUME UNCHANGED vars
       PROVE  Custody'
    BY <1>17 DEF vars, reviewVars, senderVars, historyVars
<1> QED
    BY <1>1, <1>2, <1>3, <1>4, <1>5, <1>6, <1>7, <1>8, <1>9,
       <1>10, <1>11, <1>12, <1>13, <1>14, <1>15, <1>16, <1>17
    DEF Next, GeneratorStep, SenderStep

\* What is held or sent stays approved in the record, whatever verdict follows.
LEMMA ApprovalsStep == IInv /\ [Next]_vars => Approvals'
<1> SUFFICES ASSUME IInv, [Next]_vars PROVE Approvals'
    OBVIOUS
<1> USE PublishingAssumption DEF IInv, TypeOK, Custody, Approvals, Holds, Senders, ReviewStatus
<1>1. ASSUME NEW g \in Generators, NEW p \in Posts, AddToReviewQueue(g, p)
      PROVE  Approvals'
    BY <1>1 DEF AddToReviewQueue, senderVars, historyVars
<1>2. ASSUME NEW g \in Generators, ReadAutoApprove(g)
      PROVE  Approvals'
    BY <1>2 DEF ReadAutoApprove, senderVars, historyVars, Idle
<1>3. ASSUME NEW g \in Generators, AutoApprove(g)
      PROVE  Approvals'
    BY <1>3 DEF AutoApprove, senderVars, Idle
<1>4. ASSUME NEW g \in Generators, GeneratorStops(g)
      PROVE  Approvals'
    BY <1>4 DEF GeneratorStops, senderVars, historyVars, Idle
<1>5. ASSUME NEW r \in Requests, NEW p \in Posts, Approve(r, p)
      PROVE  Approvals'
    BY <1>5 DEF Approve, Reviewed
<1>6. ASSUME NEW p \in Posts, Reject(p) \/ Edit(p)
      PROVE  Approvals'
    <2>1. CASE Reject(p)
        BY <2>1 DEF Reject, Verdict, Reviewed, senderVars, historyVars
    <2>2. CASE Edit(p)
        BY <2>2 DEF Edit, Verdict, Reviewed, senderVars, historyVars
    <2> QED BY <1>6, <2>1, <2>2
<1>7. ASSUME SetAutoApprove
      PROVE  Approvals'
    BY <1>7 DEF SetAutoApprove, senderVars
<1>8. ASSUME NEW s \in Publishers, Poll(s)
      PROVE  Approvals'
    BY <1>8 DEF Poll, IsBatch, Due, reviewVars, historyVars
<1>9. ASSUME NEW s \in Publishers, StartNext(s)
      PROVE  Approvals'
    BY <1>9 DEF StartNext, reviewVars, historyVars
<1>10. ASSUME NEW s \in Senders, SendOk(s)
       PROVE  Approvals'
    BY <1>10, CopiedCounts DEF SendOk, reviewVars
<1>11. ASSUME NEW s \in Senders, SendFails(s)
       PROVE  Approvals'
    BY <1>11 DEF SendFails, Return, reviewVars, historyVars
<1>12. ASSUME NEW s \in Senders, SendTimesOut(s)
       PROVE  Approvals'
    BY <1>12, CopiedCounts, UnrecordedCounts DEF SendTimesOut, Fault, Return, reviewVars
<1>13. ASSUME NEW s \in Senders, Record(s)
       PROVE  Approvals'
    BY <1>13 DEF Record, Return, historyVars
<1>14. ASSUME NEW s \in Senders, RecordFails(s)
       PROVE  Approvals'
    BY <1>14, UnrecordedCounts DEF RecordFails, Fault, Return, reviewVars
<1>15. ASSUME NEW s \in Senders, Crash(s)
       PROVE  Approvals'
    BY <1>15, UnrecordedCounts DEF Crash, Fault, Return, reviewVars
<1>16. ASSUME Tick
       PROVE  Approvals'
    BY <1>16 DEF Tick, reviewVars, senderVars, historyVars
<1>17. ASSUME UNCHANGED vars
       PROVE  Approvals'
    BY <1>17 DEF vars, reviewVars, senderVars, historyVars
<1> QED
    BY <1>1, <1>2, <1>3, <1>4, <1>5, <1>6, <1>7, <1>8, <1>9,
       <1>10, <1>11, <1>12, <1>13, <1>14, <1>15, <1>16, <1>17
    DEF Next, GeneratorStep, SenderStep

\* No row says "sent" before a copy is on the channel.
LEMMA RecordsStep == IInv /\ [Next]_vars => Records'
<1> SUFFICES ASSUME IInv, [Next]_vars PROVE Records'
    OBVIOUS
<1> USE PublishingAssumption DEF IInv, TypeOK, Custody, Records, Delivered, Senders
<1>1. ASSUME NEW g \in Generators, NEW p \in Posts, AddToReviewQueue(g, p)
      PROVE  Records'
    BY <1>1 DEF AddToReviewQueue, senderVars, historyVars
<1>2. ASSUME NEW g \in Generators, ReadAutoApprove(g)
      PROVE  Records'
    BY <1>2 DEF ReadAutoApprove, senderVars, historyVars, Idle
<1>3. ASSUME NEW g \in Generators, AutoApprove(g)
      PROVE  Records'
    BY <1>3 DEF AutoApprove, senderVars, Idle
<1>4. ASSUME NEW g \in Generators, GeneratorStops(g)
      PROVE  Records'
    BY <1>4 DEF GeneratorStops, senderVars, historyVars, Idle
<1>5. ASSUME NEW r \in Requests, NEW p \in Posts, Approve(r, p)
      PROVE  Records'
    BY <1>5 DEF Approve, Reviewed
<1>6. ASSUME NEW p \in Posts, Reject(p) \/ Edit(p)
      PROVE  Records'
    BY <1>6 DEF Reject, Edit, Verdict, Reviewed, senderVars, historyVars
<1>7. ASSUME SetAutoApprove
      PROVE  Records'
    BY <1>7 DEF SetAutoApprove, senderVars
<1>8. ASSUME NEW s \in Publishers, Poll(s)
      PROVE  Records'
    BY <1>8 DEF Poll, IsBatch, Due, reviewVars, historyVars
<1>9. ASSUME NEW s \in Publishers, StartNext(s)
      PROVE  Records'
    BY <1>9 DEF StartNext, reviewVars, historyVars
<1>10. ASSUME NEW s \in Senders, SendOk(s)
       PROVE  Records'
    <2>1. cur[s] \in Posts /\ sentBy'[s][cur[s]] > 0
        BY <1>10, CopiedCounts DEF SendOk
    <2>2. \A t \in Senders, p \in Posts : sentBy[t][p] > 0 => sentBy'[t][p] > 0
        BY <1>10, CopiedDelivers DEF SendOk
    <2>3. /\ queue' = queue /\ cur' = cur
          /\ \A t \in Senders : t # s => pc'[t] = pc[t]
        BY <1>10 DEF SendOk, reviewVars
    <2>4. \A t \in Senders : pc'[t] = "record" => sentBy'[t][cur'[t]] > 0
        BY <2>1, <2>2, <2>3
    <2> QED BY <2>2, <2>3, <2>4
<1>11. ASSUME NEW s \in Senders, SendFails(s)
       PROVE  Records'
    BY <1>11 DEF SendFails, Return, reviewVars, historyVars
<1>12. ASSUME NEW s \in Senders, SendTimesOut(s)
       PROVE  Records'
    <2>1. \A t \in Senders, p \in Posts : sentBy[t][p] > 0 => sentBy'[t][p] > 0
        BY <1>12, CopiedDelivers DEF SendTimesOut
    <2>2. queue' = queue
        BY <1>12 DEF SendTimesOut, reviewVars
    <2>3. \A t \in Senders : pc'[t] = "record" => pc[t] = "record" /\ cur'[t] = cur[t]
        BY <1>12 DEF SendTimesOut, Return
    <2>4. \A t \in Senders : pc'[t] = "record" => sentBy'[t][cur'[t]] > 0
        <3> SUFFICES ASSUME NEW t \in Senders, pc'[t] = "record"
                     PROVE  sentBy'[t][cur'[t]] > 0
            OBVIOUS
        <3>1. cur[t] \in Posts /\ sentBy[t][cur[t]] > 0
            BY <2>3
        <3> QED BY <2>1, <2>3, <3>1
    <2>5. \A p \in Posts : Delivered(p) => Delivered(p)'
        BY <2>1
    <2> QED BY <2>2, <2>4, <2>5
<1>13. ASSUME NEW s \in Senders, Record(s)
       PROVE  Records'
    BY <1>13 DEF Record, Return, historyVars
<1>14. ASSUME NEW s \in Senders, RecordFails(s)
       PROVE  Records'
    BY <1>14, UnrecordedCounts DEF RecordFails, Fault, Return, reviewVars
<1>15. ASSUME NEW s \in Senders, Crash(s)
       PROVE  Records'
    BY <1>15, UnrecordedCounts DEF Crash, Fault, Return, reviewVars
<1>16. ASSUME Tick
       PROVE  Records'
    BY <1>16 DEF Tick, reviewVars, senderVars, historyVars
<1>17. ASSUME UNCHANGED vars
       PROVE  Records'
    BY <1>17 DEF vars, reviewVars, senderVars, historyVars
<1> QED
    BY <1>1, <1>2, <1>3, <1>4, <1>5, <1>6, <1>7, <1>8, <1>9,
       <1>10, <1>11, <1>12, <1>13, <1>14, <1>15, <1>16, <1>17
    DEF Next, GeneratorStep, SenderStep

\* A batch holds due posts only, and the clock does not go back.
LEMMA SlotsStep == IInv /\ [Next]_vars => Slots'
<1> SUFFICES ASSUME IInv, [Next]_vars PROVE Slots'
    OBVIOUS
<1> USE PublishingAssumption DEF IInv, TypeOK, Custody, Slots, Holds, Senders
<1>1. ASSUME NEW g \in Generators, NEW p \in Posts, AddToReviewQueue(g, p)
      PROVE  Slots'
    BY <1>1 DEF AddToReviewQueue, senderVars, historyVars
<1>2. ASSUME NEW g \in Generators, ReadAutoApprove(g)
      PROVE  Slots'
    BY <1>2 DEF ReadAutoApprove, senderVars, historyVars, Idle
<1>3. ASSUME NEW g \in Generators, AutoApprove(g)
      PROVE  Slots'
    BY <1>3 DEF AutoApprove, senderVars, Idle
<1>4. ASSUME NEW g \in Generators, GeneratorStops(g)
      PROVE  Slots'
    BY <1>4 DEF GeneratorStops, senderVars, historyVars, Idle
<1>5. ASSUME NEW r \in Requests, NEW p \in Posts, Approve(r, p)
      PROVE  Slots'
    BY <1>5 DEF Approve, Reviewed
<1>6. ASSUME NEW p \in Posts, Reject(p) \/ Edit(p)
      PROVE  Slots'
    BY <1>6 DEF Reject, Edit, Verdict, Reviewed, senderVars, historyVars
<1>7. ASSUME SetAutoApprove
      PROVE  Slots'
    BY <1>7 DEF SetAutoApprove, senderVars
<1>8. ASSUME NEW s \in Publishers, Poll(s)
      PROVE  Slots'
    BY <1>8 DEF Poll, IsBatch, Due, reviewVars, historyVars
<1>9. ASSUME NEW s \in Publishers, StartNext(s)
      PROVE  Slots'
    BY <1>9 DEF StartNext, reviewVars, historyVars
<1>10. ASSUME NEW s \in Senders, SendOk(s)
       PROVE  Slots'
    BY <1>10, CopiedCounts DEF SendOk, reviewVars
<1>11. ASSUME NEW s \in Senders, SendFails(s)
       PROVE  Slots'
    BY <1>11 DEF SendFails, Return, reviewVars, historyVars
<1>12. ASSUME NEW s \in Senders, SendTimesOut(s)
       PROVE  Slots'
    BY <1>12, CopiedCounts, UnrecordedCounts DEF SendTimesOut, Fault, Return, reviewVars
<1>13. ASSUME NEW s \in Senders, Record(s)
       PROVE  Slots'
    BY <1>13 DEF Record, Return, historyVars
<1>14. ASSUME NEW s \in Senders, RecordFails(s)
       PROVE  Slots'
    BY <1>14, UnrecordedCounts DEF RecordFails, Fault, Return, reviewVars
<1>15. ASSUME NEW s \in Senders, Crash(s)
       PROVE  Slots'
    BY <1>15, UnrecordedCounts DEF Crash, Fault, Return, reviewVars
<1>16. ASSUME Tick
       PROVE  Slots'
    BY <1>16 DEF Tick, reviewVars, senderVars, historyVars
<1>17. ASSUME UNCHANGED vars
       PROVE  Slots'
    BY <1>17 DEF vars, reviewVars, senderVars, historyVars
<1> QED
    BY <1>1, <1>2, <1>3, <1>4, <1>5, <1>6, <1>7, <1>8, <1>9,
       <1>10, <1>11, <1>12, <1>13, <1>14, <1>15, <1>16, <1>17
    DEF Next, GeneratorStep, SenderStep

\* A publisher that sends a post again has lost the record of every earlier copy.
LEMMA CopiesStep == IInv /\ [Next]_vars => Copies'
<1> SUFFICES ASSUME IInv, [Next]_vars PROVE Copies'
    OBVIOUS
<1> USE PublishingAssumption DEF IInv, TypeOK, Custody, Records, Delivered, Approvals, Copies, Holds, Senders
<1>1. ASSUME NEW g \in Generators, NEW p \in Posts, AddToReviewQueue(g, p)
      PROVE  Copies'
    BY <1>1 DEF AddToReviewQueue, senderVars, historyVars
<1>2. ASSUME NEW g \in Generators, ReadAutoApprove(g)
      PROVE  Copies'
    BY <1>2 DEF ReadAutoApprove, senderVars, historyVars, Idle
<1>3. ASSUME NEW g \in Generators, AutoApprove(g)
      PROVE  Copies'
    BY <1>3 DEF AutoApprove, senderVars, Idle
<1>4. ASSUME NEW g \in Generators, GeneratorStops(g)
      PROVE  Copies'
    BY <1>4 DEF GeneratorStops, senderVars, historyVars, Idle
<1>5. ASSUME NEW r \in Requests, NEW p \in Posts, Approve(r, p)
      PROVE  Copies'
    BY <1>5 DEF Approve, Reviewed
<1>6. ASSUME NEW p \in Posts, Reject(p) \/ Edit(p)
      PROVE  Copies'
    BY <1>6 DEF Reject, Edit, Verdict, Reviewed, senderVars, historyVars
<1>7. ASSUME SetAutoApprove
      PROVE  Copies'
    BY <1>7 DEF SetAutoApprove, senderVars
<1>8. ASSUME NEW s \in Publishers, Poll(s)
      PROVE  Copies'
    BY <1>8 DEF Poll, IsBatch, Due, reviewVars, historyVars
<1>9. ASSUME NEW s \in Publishers, StartNext(s)
      PROVE  Copies'
    BY <1>9 DEF StartNext, reviewVars, historyVars
<1>10. ASSUME NEW s \in Senders, SendOk(s)
       PROVE  Copies'
    BY <1>10, CopiedCounts DEF SendOk, reviewVars
<1>11. ASSUME NEW s \in Senders, SendFails(s)
       PROVE  Copies'
    BY <1>11 DEF SendFails, Return, reviewVars, historyVars
<1>12. ASSUME NEW s \in Senders, SendTimesOut(s)
       PROVE  Copies'
    BY <1>12, CopiedCounts, UnrecordedCounts DEF SendTimesOut, Fault, Return, reviewVars
<1>13. ASSUME NEW s \in Senders, Record(s)
       PROVE  Copies'
    BY <1>13 DEF Record, Return, historyVars
<1>14. ASSUME NEW s \in Senders, RecordFails(s)
       PROVE  Copies'
    BY <1>14, UnrecordedCounts DEF RecordFails, Fault, Return, reviewVars
<1>15. ASSUME NEW s \in Senders, Crash(s)
       PROVE  Copies'
    BY <1>15, UnrecordedCounts DEF Crash, Fault, Return, reviewVars
<1>16. ASSUME Tick
       PROVE  Copies'
    BY <1>16 DEF Tick, reviewVars, senderVars, historyVars
<1>17. ASSUME UNCHANGED vars
       PROVE  Copies'
    BY <1>17 DEF vars, reviewVars, senderVars, historyVars
<1> QED
    BY <1>1, <1>2, <1>3, <1>4, <1>5, <1>6, <1>7, <1>8, <1>9,
       <1>10, <1>11, <1>12, <1>13, <1>14, <1>15, <1>16, <1>17
    DEF Next, GeneratorStep, SenderStep

-----------------------------------------------------------------------------
(***************************************************************************)
(* The theorems.                                                           *)
(***************************************************************************)

\* Every reachable state is well typed.
THEOREM TypeCorrect == Spec => []TypeOK
<1>1. Init => TypeOK
    BY InitIInv DEF IInv
<1> QED BY <1>1, TypeStep, PTL DEF Spec

\* IInv holds in every reachable state.
THEOREM Invariance == Spec => []IInv
<1>1. IInv /\ [Next]_vars => IInv'
    BY TypeStep, CustodyStep, ApprovalsStep, RecordsStep, SlotsStep, CopiesStep DEF IInv
<1> QED BY <1>1, InitIInv, PTL DEF Spec

\* With auto-approval never on, only what an operator approved is published, for
\* any number of processes, posts, stale batches and faults.
THEOREM ManualReview == Spec => []ManualReviewHolds
<1>1. IInv => ManualReviewHolds
    BY DEF IInv, TypeOK, Approvals, ManualReviewHolds, Delivered
<1> QED BY <1>1, Invariance, PTL

\* A scheduler process never publishes a post twice unless a send of its own went
\* unrecorded, whatever the others do.
THEOREM SingleCopy == Spec => []OneCopyPerPublisher
<1>1. IInv => OneCopyPerPublisher
    BY DEF IInv, Copies, OneCopyPerPublisher
<1> QED BY <1>1, Invariance, PTL

\* A scheduler process never publishes a post before its slot.
THEOREM SlotKept == Spec => []PublisherWaitsForSlot
<1>1. IInv => PublisherWaitsForSlot
    BY DEF IInv, Slots, PublisherWaitsForSlot
<1> QED BY <1>1, Invariance, PTL

\* The steps of the mapped state that Promise allows: one fact set grows by one
\* post that it may grow by.
LEMMA PromiseStep == IInv /\ [Next]_vars => [Promise!Next]_(Promise!vars)
<1> SUFFICES ASSUME IInv, [Next]_vars PROVE [Promise!Next]_(Promise!vars)
    OBVIOUS
<1> DEFINE approved == {p \in Posts : approvedBy[p] # {}}
           delivered == {p \in Posts : Delivered(p)}
           confirmed == {p \in Posts : queue[p] = "sent"}
<1> USE PublishingAssumption DEF IInv, TypeOK, Custody, Senders
<1>1. ASSUME NEW g \in Generators, NEW p \in Posts, AddToReviewQueue(g, p)
      PROVE  UNCHANGED <<approved, delivered, confirmed>>
    BY <1>1 DEF AddToReviewQueue, historyVars, Delivered, Records, Approvals
<1>2. ASSUME NEW g \in Generators, AutoApprove(g)
      PROVE  \E p \in Posts : Promise!Approve(p)
    <2>1. PICK p \in Posts : p = gen[g].post
        BY <1>2 DEF AutoApprove
    <2>2. \A q \in Posts : approvedBy'[q] # {} <=> approvedBy[q] # {} \/ q = p
        BY <1>2, <2>1 DEF AutoApprove
    <2>3. UNCHANGED <<delivered, confirmed>>
        BY <1>2 DEF AutoApprove, Delivered
    <2>4. approved' = approved \cup {p}
        BY <2>2
    <2> QED BY <2>3, <2>4 DEF Promise!Approve
<1>3. ASSUME NEW r \in Requests, NEW p \in Posts, Approve(r, p)
      PROVE  Promise!Approve(p)
    <2>1. \A q \in Posts : approvedBy'[q] # {} <=> approvedBy[q] # {} \/ q = p
        BY <1>3 DEF Approve
    <2>2. UNCHANGED <<delivered, confirmed>>
        BY <1>3 DEF Approve, Delivered
    <2>3. approved' = approved \cup {p}
        BY <2>1
    <2> QED BY <2>2, <2>3 DEF Promise!Approve
<1>4. ASSUME NEW s \in Senders, SendOk(s) \/ SendTimesOut(s)
      PROVE  \E p \in Posts : Promise!Deliver(p)
    <2>1. cur[s] \in Posts
        BY <1>4 DEF SendOk, SendTimesOut
    <2>2. cur[s] \in approved
        BY <2>1 DEF Approvals, Holds
    <2>3. Copied(s) /\ UNCHANGED <<approvedBy, queue>>
        BY <1>4 DEF SendOk, SendTimesOut, reviewVars
    <2>4. delivered' = delivered \cup {cur[s]}
        BY <2>1, <2>3, CopiedDelivers
    <2>5. Promise!Deliver(cur[s])
        BY <2>2, <2>3, <2>4 DEF Promise!Deliver
    <2> QED BY <2>1, <2>5
<1>5. ASSUME NEW s \in Senders, Record(s)
      PROVE  \E p \in Posts : Promise!Confirm(p)
    <2>1. cur[s] \in Posts
        BY <1>5 DEF Record
    <2>2. Promise!Confirm(cur[s])
        BY <1>5 DEF Record, historyVars, Delivered, Records, Promise!Confirm
    <2> QED BY <2>1, <2>2
<1> HIDE PublishingAssumption DEF IInv, TypeOK, Custody, Senders
<1>6. CASE UNCHANGED <<approvedBy, sentBy, queue>>
    BY <1>6 DEF Delivered, Promise!vars
<1>7. CASE \E g \in Generators :
            ReadAutoApprove(g) \/ GeneratorStops(g)
    BY <1>6, <1>7 DEF ReadAutoApprove, GeneratorStops, historyVars
<1>8. CASE (\E p \in Posts : Reject(p) \/ Edit(p)) \/ SetAutoApprove
    BY <1>6, <1>8 DEF Reject, Edit, Verdict, SetAutoApprove, historyVars
<1>9. CASE \E s \in Publishers : Poll(s) \/ StartNext(s)
    BY <1>6, <1>9 DEF Poll, StartNext, reviewVars, historyVars
<1>10. CASE \E s \in Senders : SendFails(s) \/ RecordFails(s) \/ Crash(s)
    BY <1>6, <1>10 DEF SendFails, RecordFails, Crash, reviewVars, historyVars
<1>11. CASE Tick \/ UNCHANGED vars
    BY <1>6, <1>11 DEF Tick, vars, reviewVars, historyVars
<1>12. CASE \E g \in Generators, p \in Posts : AddToReviewQueue(g, p)
    BY <1>1, <1>12 DEF Promise!vars
<1>13. CASE \E g \in Generators : AutoApprove(g)
    BY <1>2, <1>13 DEF Promise!Next
<1>14. CASE \E r \in Requests, p \in Posts : Approve(r, p)
    BY <1>3, <1>14 DEF Promise!Next
<1>15. CASE \E s \in Senders : SendOk(s) \/ SendTimesOut(s)
    BY <1>4, <1>15 DEF Promise!Next
<1>16. CASE \E s \in Senders : Record(s)
    BY <1>5, <1>16 DEF Promise!Next
<1> QED
    BY <1>7, <1>8, <1>9, <1>10, <1>11, <1>12, <1>13, <1>14, <1>15, <1>16
    DEF Next, GeneratorStep, SenderStep

\* The queue and the publisher keep the promise of Delivery.
THEOREM Refinement == Spec => ImplementsDelivery
<1>1. Init => Promise!Init
    BY DEF Init, Promise!Init, Delivered
<1> QED BY <1>1, PromiseStep, Invariance, PTL DEF Spec, ImplementsDelivery, Promise!Spec
=============================================================================
