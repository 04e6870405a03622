---------------------------- MODULE Planning_proofs ----------------------------
(***************************************************************************)
(* Proofs about Planning, for any settings and whatever was read of the    *)
(* channel: what its mix of formats adds up to, how formats take turns,    *)
(* the split of a deals day, where the urgent posts of a plan are, how far *)
(* apart it repeats a topic, and which of its slots a dispatcher comes to. *)
(*                                                                         *)
(* First what the algorithms return - hours, slots, topics, mixes, cycles  *)
(* of formats, days of deals -, then the invariants that carry it through  *)
(* the steps of the agent.                                                 *)
(***************************************************************************)
EXTENDS Planning, Order_proofs, TLAPS

-----------------------------------------------------------------------------
(***************************************************************************)
(* The hours of a day.                                                     *)
(***************************************************************************)

\* A plan has one to five slots a day.
LEMMA CadenceIsSmall ==
    ASSUME NEW in, in.frequency \in Nat
    PROVE  AtLeast(Round(Frequency(in), 10), 1) \in 1 .. 5
<1>1. Frequency(in) \in 10 .. 50
    <2> DEFINE base == IF in.frequency = 0 THEN 10 ELSE in.frequency
               boost == IF in.delta > 100 THEN 10 ELSE IF in.delta > 50 THEN 5 ELSE 0
               penalty == IF in.er \in 0 .. 14 THEN 5 ELSE 0
               cut == IF Declining(in) THEN 10 ELSE 0
               sum == base + boost - penalty - cut
    <2>1. base \in Int /\ boost \in Int /\ penalty \in Int /\ cut \in Int
        OBVIOUS
    <2>2. Frequency(in) = AtLeast(AtMost(sum, 50), 10)
        BY DEF Frequency
    <2> HIDE DEF base, boost, penalty, cut
    <2>3. sum \in Int
        BY <2>1
    <2> HIDE DEF sum
    <2> QED BY <2>2, <2>3 DEF AtLeast, AtMost
<1>2. \A f \in 10 .. 50 : Round(f, 10) \in 1 .. 5
    BY DEF Round
<1> QED BY <1>1, <1>2 DEF AtLeast

\* The hours from which those chosen keep their distance.
Blocked(T) == {h \in Hours : \E g \in T : Distance(g, h) < SlotMinGap}

\* The best of some hours, which is one.
Best(free, peak) == {h \in free : \A g \in free \ {h} : Better(h, g, peak)}

LEMMA BestIsOne ==
    ASSUME NEW free \in SUBSET Hours, free # {}, NEW peak \in Int
    PROVE  \E h \in free : Best(free, peak) = {h}
<1> DEFINE key == [h \in free |-> h - 24 * Score(h, peak)]
<1>1. IsFiniteSet(free) /\ \A h \in free : h \in 0 .. 23 /\ Score(h, peak) \in Int
    <2>1. 0 \in Int /\ 23 \in Int
        OBVIOUS
    <2>2. IsFiniteSet(Hours)
        BY <2>1, FS_Interval DEF Hours
    <2>3. \A h \in free : h \in 0 .. 23 /\ Score(h, peak) \in Int
        BY DEF Hours, Score, Distance, AtMost
    <2> QED BY <2>2, <2>3, FS_Subset
<1>2. \A h \in free : key[h] \in Int
    BY <1>1
<1>3. \A g, h \in free : Better(g, h, peak) <=> key[g] < key[h]
    BY <1>1 DEF Better
<1>4. \A g, h \in free : key[g] = key[h] => g = h
    BY <1>1
<1> HIDE DEF key
<1>5. PICK h \in free : \A g \in free \ {h} : key[h] < key[g]
    BY <1>1, <1>2, <1>4, LeastByKey
<1>6. h \in Best(free, peak)
    BY <1>3, <1>5 DEF Best
<1>7. \A g \in Best(free, peak) : g = h
    BY <1>2, <1>3, <1>5 DEF Best
<1> QED BY <1>6, <1>7

\* The recursion of BestHours is a definition: there is such a function.
LEMMA BestHoursEquation ==
    ASSUME NEW n \in Nat, NEW peak
    PROVE  \E chosen :
             /\ BestHours(n, peak) = chosen[n]
             /\ \A i \in 0 .. n :
                    chosen[i] = IF i = 0 THEN {}
                                ELSE chosen[i - 1]
                                     \cup Best({h \in Hours : \A g \in chosen[i - 1] :
                                                    Distance(g, h) >= SlotMinGap}, peak)
<1> DEFINE After(before) ==
                before \cup Best({h \in Hours : \A g \in before :
                                        Distance(g, h) >= SlotMinGap}, peak)
           Up(chosen, m) == chosen = [i \in 0 .. m |-> IF i = 0 THEN {} ELSE After(chosen[i - 1])]
           S == {m \in 0 .. n : \E chosen : Up(chosen, m)}
<1>1. BestHours(n, peak) = (CHOOSE chosen : Up(chosen, n))[n]
    BY DEF BestHours, Best
<1> HIDE DEF After
<1>2. 0 \in S
    <2>1. Up([i \in 0 .. 0 |-> {}], 0)
        OBVIOUS
    <2> HIDE DEF Up
    <2> QED BY <2>1
<1>3. ASSUME NEW m \in 0 .. n - 1, m \in S
      PROVE  m + 1 \in S
    <2>1. PICK chosen : Up(chosen, m)
        BY <1>3
    <2> DEFINE longer == [i \in 0 .. m + 1 |-> IF i =< m THEN chosen[i] ELSE After(chosen[m])]
    <2>2. \A i \in 0 .. m : chosen[i] = IF i = 0 THEN {} ELSE After(chosen[i - 1])
        BY <2>1
    <2>3. \A i \in 0 .. m + 1 : longer[i] = IF i = 0 THEN {} ELSE After(longer[i - 1])
        <3>1. \A i \in 0 .. m : longer[i] = chosen[i]
            OBVIOUS
        <3>2. longer[m + 1] = After(longer[m])
            BY <3>1
        <3> QED BY <2>2, <3>1, <3>2
    <2>4. Up(longer, m + 1)
        BY <2>3
    <2> HIDE DEF longer, Up
    <2> QED BY <2>4
<1> HIDE DEF S
<1>4. n \in S
    <2>1. \A m \in 0 .. n : m \in S
        BY ONLY <1>2, <1>3, n \in Nat, InductionUpTo
    <2> QED BY <2>1
<1>5. \E chosen : Up(chosen, n)
    BY <1>4 DEF S
<1> DEFINE found == CHOOSE chosen : Up(chosen, n)
<1> HIDE DEF Up
<1>6. Up(found, n)
    BY <1>5
<1> HIDE DEF found
<1>7. \A i \in 0 .. n : found[i] = IF i = 0 THEN {} ELSE After(found[i - 1])
    BY <1>6 DEF Up
<1> QED BY <1>1, <1>7 DEF found, After

\* Up to five slots find their hour: four of them leave some hour free.
LEMMA HoursAreFound ==
    ASSUME NEW n \in 1 .. 5, NEW peak \in Int
    PROVE  /\ BestHours(n, peak) \subseteq Hours /\ IsFiniteSet(BestHours(n, peak))
           /\ Cardinality(BestHours(n, peak)) = n
<1> DEFINE Free(before) == {h \in Hours : \A g \in before : Distance(g, h) >= SlotMinGap}
<1>1. PICK chosen :
        /\ BestHours(n, peak) = chosen[n]
        /\ \A i \in 0 .. n :
               chosen[i] = IF i = 0 THEN {}
                           ELSE chosen[i - 1] \cup Best(Free(chosen[i - 1]), peak)
    <2>1. n \in Nat
        OBVIOUS
    <2> QED BY <2>1, BestHoursEquation
<1> DEFINE Good(T, i) == /\ T \subseteq Hours /\ IsFiniteSet(T) /\ Cardinality(T) = i
                         /\ IsFiniteSet(Blocked(T)) /\ Cardinality(Blocked(T)) =< 5 * i
           S == {i \in 0 .. n : Good(chosen[i], i)}
<1>2. 0 \in S
    <2>1. Blocked({}) = {} /\ chosen[0] = {}
        <3>1. 0 \in 0 .. n
            OBVIOUS
        <3>2. chosen[0] = {}
            BY <1>1, <3>1
        <3> QED BY <3>2 DEF Blocked
    <2>2. Good({}, 0)
        BY <2>1, FS_EmptySet
    <2>3. 0 \in 0 .. n
        OBVIOUS
    <2> HIDE DEF Good
    <2> QED BY <2>1, <2>2, <2>3
<1>3. ASSUME NEW i \in 0 .. n - 1, i \in S
      PROVE  i + 1 \in S
    <2>1. PICK T : T = chosen[i]
        OBVIOUS
    <2>2. Good(T, i) /\ i \in 0 .. 4
        <3>1. i \in 0 .. 4
            OBVIOUS
        <3>2. Good(chosen[i], i)
            BY <1>3
        <3> HIDE DEF Good
        <3> QED BY <2>1, <3>1, <3>2
    <2>3. chosen[i + 1] = T \cup Best(Free(T), peak)
        <3>1. i + 1 \in 0 .. n /\ i + 1 # 0 /\ (i + 1) - 1 = i
            OBVIOUS
        <3>2. chosen[i + 1] = chosen[(i + 1) - 1] \cup Best(Free(chosen[(i + 1) - 1]), peak)
            BY <1>1, <3>1
        <3> QED BY <2>1, <3>1, <3>2
    <2>4. Free(T) \subseteq Hours /\ Free(T) # {}
        <3>1. Hours \ Blocked(T) \subseteq Free(T)
            BY <2>2 DEF Blocked, Distance, SlotMinGap, Hours
        <3>2. IsFiniteSet(Hours) /\ Cardinality(Hours) = 24
            <4>1. \E a, b \in Int : Hours = a .. b /\ a =< b /\ b - a + 1 = 24
                <5>1. 0 \in Int /\ 23 \in Int /\ 0 =< 23 /\ 23 - 0 + 1 = 24
                    OBVIOUS
                <5> QED BY ONLY <5>1 DEF Hours
            <4> QED BY ONLY <4>1, FS_Interval
        <3>3. Blocked(T) # Hours
            BY <2>2, <3>2
        <3> QED BY <3>1, <3>3 DEF Blocked
    <2>5. PICK h \in Free(T) : Best(Free(T), peak) = {h}
        BY <2>4, BestIsOne
    <2>6. h \in 0 .. 23 /\ h \notin T
        BY <2>5 DEF Hours, Distance, SlotMinGap
    <2>7. /\ IsFiniteSet(T \cup {h}) /\ Cardinality(T \cup {h}) = i + 1
          /\ T \cup {h} \subseteq Hours
        BY <2>2, <2>6, FS_AddElement DEF Hours
    <2>8. /\ IsFiniteSet(Blocked(T \cup {h}))
          /\ Cardinality(Blocked(T \cup {h})) =< 5 * (i + 1)
        <3>1. Blocked(T \cup {h}) \subseteq Blocked(T) \cup (h - 2 .. h + 2)
            BY <2>6 DEF Blocked, Distance, SlotMinGap, Hours
        <3>2. IsFiniteSet(h - 2 .. h + 2) /\ Cardinality(h - 2 .. h + 2) = 5
            <4>1. /\ h - 2 \in Int /\ h + 2 \in Int /\ h - 2 =< h + 2
                  /\ (h + 2) - (h - 2) + 1 = 5
                BY <2>6
            <4> QED BY ONLY <4>1, FS_Interval
        <3> DEFINE both == Blocked(T) \cup (h - 2 .. h + 2)
                   shared == Blocked(T) \cap (h - 2 .. h + 2)
        <3>3. /\ IsFiniteSet(both) /\ IsFiniteSet(shared)
              /\ Cardinality(both) = Cardinality(Blocked(T)) + 5 - Cardinality(shared)
            BY <2>2, <3>2, FS_Union, FS_Intersection
        <3> HIDE DEF both, shared
        <3>4. /\ Cardinality(Blocked(T)) \in Nat /\ Cardinality(shared) \in Nat
              /\ Cardinality(both) \in Nat
            BY <2>2, <3>3, FS_CardinalityType
        <3>5. Cardinality(both) =< 5 * (i + 1)
            BY <2>2, <3>3, <3>4
        <3>6. /\ IsFiniteSet(Blocked(T \cup {h}))
              /\ Cardinality(Blocked(T \cup {h})) =< Cardinality(both)
              /\ Cardinality(Blocked(T \cup {h})) \in Nat
            <4>1. Blocked(T \cup {h}) \in SUBSET both
                BY <3>1 DEF both
            <4> QED BY <3>3, <4>1, FS_Subset, FS_CardinalityType
        <3> QED BY <3>4, <3>5, <3>6
    <2>9. Good(T \cup {h}, i + 1) /\ i + 1 \in 0 .. n
        BY <2>7, <2>8
    <2> HIDE DEF Good
    <2> QED BY <2>3, <2>5, <2>9
<1> HIDE DEF S
<1>4. n \in S
    <2>1. n \in Nat /\ n \in 0 .. n
        OBVIOUS
    <2>2. \A i \in 0 .. n : i \in S
        BY ONLY <1>2, <1>3, <2>1, InductionUpTo
    <2> QED BY <2>1, <2>2
<1> QED BY <1>1, <1>4 DEF S

\* Ascending lists the elements of a set of numbers.
LEMMA AscendingSound ==
    ASSUME NEW S \in SUBSET Int, IsFiniteSet(S)
    PROVE  /\ Ascending(S) \in Seq(S) /\ Len(Ascending(S)) = Cardinality(S)
           /\ Cardinality(S) \in Nat
<1> DEFINE nth(i) == CHOOSE x \in S : Cardinality({y \in S : y < x}) = i - 1
<1>1. Cardinality(S) \in Nat
    BY FS_CardinalityType
<1>2. \A i \in 0 .. Cardinality(S) - 1 : \E x \in S : Cardinality({y \in S : y < x}) = i
    BY NumberRanks
<1>3. ASSUME NEW i \in 1 .. Cardinality(S) PROVE nth(i) \in S
    <2>1. i - 1 \in 0 .. Cardinality(S) - 1
        BY <1>1
    <2>2. \E x \in S : Cardinality({y \in S : y < x}) = i - 1
        BY <1>2, <2>1
    <2> QED BY <2>2
<1>4. Ascending(S) = [i \in 1 .. Cardinality(S) |-> nth(i)]
    BY DEF Ascending
<1> HIDE DEF nth
<1> QED BY <1>1, <1>3, <1>4

-----------------------------------------------------------------------------
(***************************************************************************)
(* The slots.                                                              *)
(***************************************************************************)
IsSlot(slot) ==
    slot = [day |-> slot.day, at |-> slot.at, scrape |-> slot.scrape, kind |-> slot.kind,
            format |-> slot.format, topic |-> slot.topic, market |-> slot.market]

IsPlan(plan) ==
    /\ Len(plan) \in Nat /\ DOMAIN plan = 1 .. Len(plan)
    /\ \A i \in DOMAIN plan : IsSlot(plan[i])

\* A slot of the month and of the day.
InPeriod(slot) == slot.day \in 0 .. 29 /\ slot.at \in 0 .. 1439

\* A dispatcher comes to the slot on its day, unless it is at midnight.
IsTimely(slot) ==
    /\ slot.at \in 0 .. 1439
    /\ slot.at = 0 \/ slot.at >= DispatchMinutes
    /\ \/ slot.scrape = None
       \/ LeadMinutes =< slot.at /\ slot.scrape = slot.at - LeadMinutes

\* Slots in the order of their times.
Ascends(plan) == \A i \in 1 .. Len(plan) - 1 : plan[i].at < plan[i + 1].at

\* What a plan is that goes through a cycle.
Follows(plan, n, cycle) ==
    /\ n \in Nat /\ DOMAIN plan = 1 .. n
    /\ \A i \in 1 .. n : plan[i].format = cycle[((i - 1) % Len(cycle)) + 1]

LEMMA SlotFields ==
    ASSUME NEW day, NEW at, NEW kind, NEW format
    PROVE  LET slot == Slot(day, at, kind, format)
           IN  /\ IsSlot(slot) /\ slot.day = day /\ slot.at = at /\ slot.kind = kind
               /\ slot.scrape = None /\ slot.format = format
BY DEF Slot, IsSlot

LEMMA GivenFields ==
    ASSUME NEW slot, NEW kind, NEW format
    PROVE  LET given == Given(slot, kind, format)
           IN  /\ IsSlot(given) /\ given.day = slot.day /\ given.at = slot.at
               /\ given.kind = kind /\ given.topic = kind /\ given.scrape = None
               /\ given.format = format
BY DEF Given, Slot, IsSlot

LEMMA DealFields ==
    ASSUME NEW at, NEW kind, NEW format, NEW topic, NEW market
    PROVE  LET slot == DealSlot(at, kind, format, topic, market)
           IN  /\ IsSlot(slot) /\ slot.kind = kind /\ slot.at = at % 1440
               /\ slot.scrape = ScrapeAt(at) /\ slot.day = 0 /\ slot.format = format
BY DEF DealSlot, IsSlot

LEMMA IntervalDividesDay ==
    ASSUME SettingsFit, DispatchMinutes \in Nat \ {0}
    PROVE  DispatchMinutes =< 60 /\ DispatchMinutes * (1440 \div DispatchMinutes) = 1440
<1>1. DispatchMinutes \in 1 .. 60 /\ 60 % DispatchMinutes = 0
    <2>1. \A d \in Nat : d > 60 => 60 % d = 60
        OBVIOUS
    <2> QED BY <2>1 DEF SettingsFit
<1>2. \A d \in 1 .. 60 : 60 % d = 0 => d \in {1, 2, 3, 4, 5, 6, 10, 12, 15, 20, 30, 60}
    OBVIOUS
<1>3. \A d \in {1, 2, 3, 4, 5, 6, 10, 12, 15, 20, 30, 60} : d * (1440 \div d) = 1440
    OBVIOUS
<1> QED BY <1>1, <1>2, <1>3

LEMMA CuratedSound ==
    ASSUME PlanningAssumption, NEW in \in Inputs, NEW perDay \in 1 .. 5, NEW cycle,
           NEW plan, plan = CuratedPlan(in, perDay, cycle)
    PROVE  /\ IsPlan(plan) /\ Len(plan) >= 1 /\ Follows(plan, Len(plan), cycle)
           /\ \A i \in DOMAIN plan :
                /\ plan[i].kind = "none" /\ plan[i].day = (i - 1) \div perDay
                /\ InPeriod(plan[i]) /\ (SettingsFit => IsTimely(plan[i]))
<1> DEFINE peak == IF in.best = None THEN 18 ELSE LocalHour(in.best)
           hours == Ascending(BestHours(perDay, peak))
<1>1. peak \in Int
    <2>1. in.best \in Int /\ ZoneOffset \in Int
        BY DEF PlanningAssumption
    <2>2. ASSUME NEW m \in Int
          PROVE  ((m \div 60) + (IF m % 60 >= 30 THEN 1 ELSE 0)) % 24 \in Int
        OBVIOUS
    <2>3. in.best * 60 + ZoneOffset \in Int
        BY <2>1
    <2>4. LocalHour(in.best) \in Int
        BY <2>2, <2>3 DEF LocalHour
    <2> QED BY <2>4
<1>2. hours \in Seq(Hours) /\ Len(hours) = perDay
    <2> HIDE DEF peak
    <2>1. /\ BestHours(perDay, peak) \subseteq Hours /\ IsFiniteSet(BestHours(perDay, peak))
          /\ Cardinality(BestHours(perDay, peak)) = perDay
        BY <1>1, HoursAreFound
    <2>2. BestHours(perDay, peak) \in SUBSET Int
        BY <2>1 DEF Hours
    <2>3. hours \in Seq(BestHours(perDay, peak)) /\ Len(hours) = perDay
        BY <2>1, <2>2, AscendingSound
    <2> QED BY <2>1, <2>3
<1> DEFINE item(i) == Slot((i - 1) \div perDay, hours[((i - 1) % perDay) + 1] * 60, "none",
                           cycle[((i - 1) % Len(cycle)) + 1])
<1>3. plan = [i \in 1 .. in.days * perDay |-> item(i)]
    BY <1>2 DEF CuratedPlan
<1>4. in.days * perDay \in Nat /\ in.days * perDay >= 1
    <2>1. in.days \in {1, 7, 30}
        BY DEF PlanningAssumption
    <2> QED BY <2>1
<1> HIDE DEF hours
<1>5. ASSUME NEW i \in 1 .. in.days * perDay
      PROVE  /\ IsSlot(item(i)) /\ item(i).kind = "none" /\ item(i).day = (i - 1) \div perDay
             /\ item(i).format = cycle[((i - 1) % Len(cycle)) + 1]
             /\ InPeriod(item(i)) /\ (SettingsFit => IsTimely(item(i)))
    <2> DEFINE at == hours[((i - 1) % perDay) + 1] * 60
    <2>1. /\ IsSlot(item(i)) /\ item(i).kind = "none" /\ item(i).day = (i - 1) \div perDay
          /\ item(i).at = at /\ item(i).scrape = None
        BY SlotFields
    <2>5. item(i).format = cycle[((i - 1) % Len(cycle)) + 1]
        BY SlotFields
    <2>2. PICK h \in 0 .. 23 : at = h * 60
        <3>1. ((i - 1) % perDay) + 1 \in 1 .. perDay
            <4>1. i \in Int
                BY <1>4
            <4> QED BY <4>1
        <3>2. hours[((i - 1) % perDay) + 1] \in Hours
            BY <1>2, <3>1
        <3> QED BY <3>2 DEF Hours
    <2> HIDE DEF item, at
    <2>3. SettingsFit => DispatchMinutes \in 1 .. 60
        BY IntervalDividesDay DEF PlanningAssumption
    <2>4. SettingsFit => IsTimely(item(i))
        BY <2>1, <2>2, <2>3 DEF IsTimely
    <2>6. (i - 1) \div perDay \in 0 .. 29
        <3>1. i - 1 \in Nat /\ i - 1 < 30 * perDay
            <4>1. in.days \in {1, 7, 30}
                BY DEF PlanningAssumption
            <4> QED BY <4>1
        <3>2. \A m \in Nat, d \in 1 .. 5 : m < 30 * d => m \div d \in 0 .. 29
            <4>1. ASSUME NEW m \in Nat
                  PROVE  /\ (m < 30 => m \div 1 \in 0 .. 29)
                         /\ (m < 60 => m \div 2 \in 0 .. 29)
                         /\ (m < 90 => m \div 3 \in 0 .. 29)
                         /\ (m < 120 => m \div 4 \in 0 .. 29)
                         /\ (m < 150 => m \div 5 \in 0 .. 29)
                BY ONLY <4>1
            <4> QED BY <4>1
        <3> QED BY <3>1, <3>2
    <2>7. item(i).at \in 0 .. 1439
        BY <2>1, <2>2
    <2>8. InPeriod(item(i))
        BY <2>1, <2>6, <2>7 DEF InPeriod
    <2> QED BY <2>1, <2>4, <2>5, <2>8
<1> HIDE DEF item
<1>6. DOMAIN plan = 1 .. in.days * perDay /\ Len(plan) = in.days * perDay
    BY <1>3, <1>4
<1>7. Follows(plan, Len(plan), cycle)
    BY <1>3, <1>4, <1>5, <1>6 DEF Follows
<1>8. ASSUME NEW i \in DOMAIN plan
      PROVE  /\ IsSlot(plan[i]) /\ plan[i].kind = "none" /\ plan[i].day = (i - 1) \div perDay
             /\ InPeriod(plan[i]) /\ (SettingsFit => IsTimely(plan[i]))
    <2>1. i \in 1 .. in.days * perDay
        BY <1>6
    <2>2. plan[i] = item(i)
        BY <1>3, <2>1
    <2> QED BY <1>5, <2>1, <2>2
<1>9. IsPlan(plan) /\ Len(plan) >= 1
    BY <1>4, <1>6, <1>8 DEF IsPlan
<1> QED BY <1>7, <1>8, <1>9

LEMMA DenseSound ==
    ASSUME PlanningAssumption, NEW in \in Inputs, NEW dense, dense = DensePlan(in.target)
    PROVE  /\ IsPlan(dense)
           /\ \A i \in DOMAIN dense : /\ dense[i].kind \in {"loot", "single"}
                                      /\ InPeriod(dense[i]) /\ dense[i].format \in Formats
                                      /\ SettingsFit => IsTimely(dense[i])
           /\ SettingsFit => Ascends(dense)
           /\ in.target # 0 => Len(dense) = in.target
<1> DEFINE counts == DealCounts(in.target)
           total == AtLeast(counts.loot + counts.single, 1)
           step == AtLeast(((EndHour + 1 - StartHour) * 60) \div total, 1)
           at(i) == StartHour * 60 + (i - 1) * step
<1>1. /\ counts.loot \in Int /\ counts.single \in Int
      /\ counts.loot + counts.single = IF in.target = 0 THEN LootPerDay + SinglePerDay
                                       ELSE in.target
    <2>1. ASSUME NEW n \in Int, NEW a \in Int, NEW b \in Int
          PROVE  Scaled(n, a, b) \in Int
        <3>1. AtLeast(a + b, 1) \in Nat \ {0} /\ n * a \in Int
            BY DEF AtLeast
        <3>2. \A x \in Int, y \in Nat \ {0} : Round(x, y) \in Int
            BY DEF Round
        <3> HIDE DEF Scaled
        <3>3. Round(n * a, AtLeast(a + b, 1)) \in Int
            BY <3>1, <3>2
        <3> QED BY <3>3 DEF Scaled, AtMost
    <2>2. /\ in.target \in Nat /\ LootPerDay \in Nat /\ SinglePerDay \in Nat
          /\ in.target \in Int /\ LootPerDay \in Int /\ SinglePerDay \in Int
        BY DEF PlanningAssumption
    <2>3. Scaled(in.target, LootPerDay, SinglePerDay) \in Int
        BY <2>1, <2>2
    <2> HIDE DEF Scaled
    <2> QED BY <2>2, <2>3 DEF DealCounts
<1> DEFINE window == (EndHour + 1 - StartHour) * 60
           markets == Interleaved([m \in {"Amazon", "Flipkart"} |-> counts[m]])
           singles == IF markets = <<>> THEN <<"Amazon">> ELSE markets
           done == CHOOSE done : done = [i \in 0 .. total |->
                        IF i = 0 THEN 0
                        ELSE LET before == done[i - 1]
                             IN  before + (IF LootTurn(i, before, counts.loot) THEN 1 ELSE 0)]
           loots == [i \in 0 .. total |-> done[i]]
           nth(i) == i - loots[i]
           loot(i) == DealSlot(at(i), "loot", "link", "Multiple", "none")
           single(i) == DealSlot(at(i), "single", IF nth(i) % 2 = 0 THEN "text" ELSE "photo",
                                 "none", singles[((nth(i) - 1) % Len(singles)) + 1])
           plan == [i \in 1 .. total |-> IF loots[i] > loots[i - 1] THEN loot(i) ELSE single(i)]
<1>2. dense = plan
    BY DEF DensePlan
<1> HIDE DEF counts, singles, done, loots
<1>3. total \in Nat \ {0} /\ (in.target # 0 => total = in.target)
    <2>1. in.target \in Nat
        BY DEF PlanningAssumption
    <2> QED BY <1>1, <2>1 DEF AtLeast
<1>4. SettingsFit => total =< window
    <2>1. StartHour \in 0 .. EndHour /\ EndHour \in 0 .. 23
        BY DEF PlanningAssumption
    <2>2. SettingsFit => counts.loot + counts.single =< window
        BY <1>1, <2>1 DEF SettingsFit
    <2> QED BY <1>1, <2>1, <2>2 DEF AtLeast
<1> HIDE DEF total
<1>5. step \in Nat \ {0} /\ (total =< window => total * step =< window)
    <2>1. ASSUME NEW w \in Int, NEW t \in Nat \ {0}
          PROVE  /\ AtLeast(w \div t, 1) \in Nat \ {0}
                 /\ t =< w => t * AtLeast(w \div t, 1) =< w
        <3>1. PICK q \in Int : q = w \div t
            OBVIOUS
        <3>2. t * q =< w /\ (t =< w => q >= 1)
            BY <3>1
        <3> QED BY <3>1, <3>2 DEF AtLeast
    <2>2. window \in Int
        BY DEF PlanningAssumption
    <2>3. step = AtLeast(window \div total, 1)
        OBVIOUS
    <2> HIDE DEF window, step
    <2> QED BY <1>3, <2>1, <2>2, <2>3
<1> HIDE DEF step
<1>6. ASSUME NEW i \in 1 .. total
      PROVE  at(i) \in Int /\ (SettingsFit => at(i) \in StartHour * 60 .. 1439)
    <2>1. i - 1 \in Nat /\ i - 1 =< total - 1 /\ step \in Nat /\ total \in Nat /\ total - 1 \in Nat
        BY <1>3, <1>5
    <2>2. /\ (i - 1) * step \in Nat /\ (i - 1) * step =< (total - 1) * step
          /\ (total - 1) * step = total * step - step /\ total * step \in Nat
        <3>1. ASSUME NEW a \in Nat, NEW b \in Nat, NEW c \in Nat, a =< b - 1
              PROVE  /\ a * c \in Nat /\ a * c =< (b - 1) * c
                     /\ (b - 1) * c = b * c - c /\ b * c \in Nat
            BY ONLY <3>1
        <3> HIDE DEF step
        <3> QED BY <2>1, <3>1
    <2>3. /\ StartHour \in Nat /\ EndHour \in Nat /\ EndHour =< 23
        <3>1. StartHour \in 0 .. EndHour /\ EndHour \in 0 .. 23
            BY DEF PlanningAssumption
        <3> QED BY ONLY <3>1
    <2> QED BY <1>4, <1>5, <2>2, <2>3
<1>7. ASSUME NEW m \in Int, SettingsFit, m \in StartHour * 60 .. 1439
      PROVE  /\ m % 1440 = m /\ m >= DispatchMinutes /\ LeadMinutes =< m
             /\ ScrapeAt(m) = m - LeadMinutes
    <2>1. /\ StartHour \in Nat /\ LeadMinutes \in Nat /\ DispatchMinutes \in Nat
          /\ DispatchMinutes =< LeadMinutes /\ LeadMinutes =< 60 * StartHour
        BY <1>7 DEF SettingsFit, PlanningAssumption
    <2> QED BY <1>7, <2>1 DEF ScrapeAt
<1> HIDE DEF at
<1>8. ASSUME NEW i \in 1 .. total
      PROVE  /\ IsSlot(plan[i]) /\ plan[i].kind \in {"loot", "single"}
             /\ plan[i].at = at(i) % 1440 /\ plan[i].scrape = ScrapeAt(at(i))
             /\ InPeriod(plan[i]) /\ plan[i].format \in Formats
    <2>1. /\ IsSlot(loot(i)) /\ loot(i).kind = "loot" /\ loot(i).day = 0
          /\ loot(i).at = at(i) % 1440 /\ loot(i).scrape = ScrapeAt(at(i))
          /\ loot(i).format = "link"
        BY DealFields
    <2>2. /\ IsSlot(single(i)) /\ single(i).kind = "single" /\ single(i).day = 0
          /\ single(i).at = at(i) % 1440 /\ single(i).scrape = ScrapeAt(at(i))
          /\ single(i).format = IF nth(i) % 2 = 0 THEN "text" ELSE "photo"
        BY DealFields
    <2>3. plan[i] = loot(i) \/ plan[i] = single(i)
        OBVIOUS
    <2>4. at(i) % 1440 \in 0 .. 1439
        <3>1. PICK m \in Int : m = at(i)
            BY <1>6
        <3>2. m % 1440 \in 0 .. 1439
            OBVIOUS
        <3> QED BY <3>1, <3>2
    <2> HIDE DEF plan, loot, single, nth
    <2>5. /\ IsSlot(plan[i]) /\ plan[i].kind \in {"loot", "single"} /\ plan[i].day = 0
          /\ plan[i].at = at(i) % 1440 /\ plan[i].scrape = ScrapeAt(at(i))
          /\ plan[i].format \in {"link", "text", "photo"}
        BY <2>1, <2>2, <2>3
    <2>6. InPeriod(plan[i])
        BY <2>4, <2>5 DEF InPeriod
    <2> QED BY <2>5, <2>6 DEF Formats
<1>9. DOMAIN plan = 1 .. total /\ Len(plan) = total
    <2> HIDE DEF loot, single
    <2> QED BY <1>3
<1> HIDE DEF plan
<1>10. ASSUME NEW i \in 1 .. total, SettingsFit PROVE IsTimely(plan[i])
    <2>1. at(i) \in StartHour * 60 .. 1439 /\ at(i) \in Int
        BY <1>6, <1>10
    <2>2. /\ plan[i].at = at(i) /\ plan[i].scrape = at(i) - LeadMinutes
          /\ at(i) >= DispatchMinutes /\ LeadMinutes =< at(i)
        <3>1. /\ at(i) % 1440 = at(i) /\ ScrapeAt(at(i)) = at(i) - LeadMinutes
              /\ at(i) >= DispatchMinutes /\ LeadMinutes =< at(i)
            BY <1>7, <1>10, <2>1
        <3>2. plan[i].at = at(i) % 1440 /\ plan[i].scrape = ScrapeAt(at(i))
            BY <1>8
        <3> QED BY <3>1, <3>2
    <2>3. StartHour \in Nat
        BY DEF PlanningAssumption
    <2> QED BY <2>1, <2>2, <2>3 DEF IsTimely
<1>11. ASSUME SettingsFit, NEW i \in 1 .. total - 1 PROVE plan[i].at < plan[i + 1].at
    <2>1. i \in 1 .. total /\ i + 1 \in 1 .. total
        BY <1>3
    <2>2. /\ at(i) \in StartHour * 60 .. 1439 /\ at(i + 1) \in StartHour * 60 .. 1439
          /\ at(i) \in Int /\ at(i + 1) \in Int
        BY <1>6, <1>11, <2>1
    <2>3. plan[i].at = at(i) /\ plan[i + 1].at = at(i + 1)
        <3>1. at(i) % 1440 = at(i) /\ at(i + 1) % 1440 = at(i + 1)
            BY <1>7, <1>11, <2>2
        <3>2. plan[i].at = at(i) % 1440 /\ plan[i + 1].at = at(i + 1) % 1440
            BY <1>8, <2>1
        <3> QED BY <3>1, <3>2
    <2>4. at(i) < at(i + 1)
        <3>1. at(i + 1) = at(i) + step
            <4>1. StartHour \in Nat /\ i \in Nat
                BY <2>1 DEF PlanningAssumption
            <4> QED BY <1>5, <4>1 DEF at
        <3> QED BY <1>5, <2>2, <3>1
    <2> QED BY <2>3, <2>4
<1>12. \A i \in DOMAIN plan :
          /\ IsSlot(plan[i]) /\ plan[i].kind \in {"loot", "single"}
          /\ InPeriod(plan[i]) /\ plan[i].format \in Formats
          /\ SettingsFit => IsTimely(plan[i])
    BY <1>8, <1>9, <1>10
<1>13. IsPlan(plan) /\ (SettingsFit => Ascends(plan)) /\ (in.target # 0 => Len(plan) = in.target)
    BY <1>3, <1>9, <1>11, <1>12 DEF IsPlan, Ascends
<1> QED BY <1>2, <1>12, <1>13

-----------------------------------------------------------------------------
(***************************************************************************)
(* The topics.                                                             *)
(***************************************************************************)
\* The slots before slot i whose topics it is not to repeat.
Lately(ranked, i) == AtLeast(i - Window(ranked), 1) .. i - 1

\* A choice is one of the ranked topics; with two topics or more, there is always one that
\* was not given lately, for the window is shorter than the ranking.
LEMMA ChoiceIsFresh ==
    ASSUME NEW ranked, IsRanking(ranked), NEW given, NEW i \in Nat \ {0}
    PROVE  /\ \E r \in DOMAIN ranked : Choice(ranked, given, i) = ranked[r]
           /\ Len(ranked) >= 2 =>
                  \A j \in Lately(ranked, i) : Choice(ranked, given, i) # given[j]
<1> DEFINE recent == {given[j] : j \in Lately(ranked, i)}
           fresh == {r \in DOMAIN ranked : ranked[r] \notin recent}
           names == {ranked[r] : r \in 1 .. Len(ranked)}
<1>1. /\ Len(ranked) \in Nat \ {0} /\ DOMAIN ranked = 1 .. Len(ranked)
      /\ \A r \in DOMAIN ranked : ranked[r] \in STRING
    BY DEF IsRanking
<1>2. Choice(ranked, given, i) =
        IF fresh = {} THEN ranked[1] ELSE ranked[CHOOSE r \in fresh : \A q \in fresh : r <= q]
    BY DEF Choice, Lately
<1>3. fresh \in SUBSET Nat
    BY <1>1
<1>4. CASE fresh # {}
    <2>1. \E r \in fresh : \A q \in fresh : r <= q
        <3> HIDE DEF fresh
        <3> QED BY <1>3, <1>4, LeastElement
    <2>2. PICK r \in fresh : Choice(ranked, given, i) = ranked[r]
        <3> HIDE DEF fresh
        <3> QED BY <1>2, <1>4, <2>1
    <2> QED BY <1>1, <2>2
<1>5. CASE fresh = {}
    <2>1. Choice(ranked, given, i) = ranked[1]
        BY <1>2, <1>5
    <2>2. Len(ranked) < 2
        <3>1. names \subseteq recent
            BY <1>1, <1>5
        <3>2. IsFiniteSet(Lately(ranked, i)) /\ Cardinality(Lately(ranked, i)) =< Window(ranked)
            <4>1. Window(ranked) \in Nat /\ Window(ranked) >= 1
                BY <1>1 DEF Window, AtLeast, AtMost
            <4>2. ASSUME NEW a \in Int, NEW b \in Int, NEW c \in Nat, b - a + 1 =< c
                  PROVE  IsFiniteSet(a .. b) /\ Cardinality(a .. b) =< c
                <5>1. IsFiniteSet(a .. b) /\ Cardinality(a .. b) = IF a > b THEN 0 ELSE b - a + 1
                    BY FS_Interval
                <5> QED BY <4>2, <5>1
            <4>3. /\ AtLeast(i - Window(ranked), 1) \in Int
                  /\ (i - 1) - AtLeast(i - Window(ranked), 1) + 1 =< Window(ranked)
                BY <4>1 DEF AtLeast
            <4> QED BY <4>1, <4>2, <4>3 DEF Lately
        <3>3. IsFiniteSet(recent) /\ Cardinality(recent) =< Cardinality(Lately(ranked, i))
            BY <3>2, ImageFinite
        <3>4. IsFiniteSet(1 .. Len(ranked)) /\ Cardinality(1 .. Len(ranked)) = Len(ranked)
            BY <1>1, FS_Interval
        <3>5. IsFiniteSet(names) /\ Cardinality(names) = Len(ranked)
            <4> DEFINE f == [r \in 1 .. Len(ranked) |-> ranked[r]]
            <4>1. f \in Bijection(1 .. Len(ranked), names)
                BY <1>1 DEF Bijection, Injection, Surjection, IsInjective, IsRanking
            <4> HIDE DEF f, names
            <4> QED BY <3>4, <4>1, FS_Bijection DEF ExistsBijection
        <3>6. Cardinality(names) =< Cardinality(recent)
            <4> HIDE DEF recent, names
            <4> QED BY <3>1, <3>3, FS_Subset
        <3>7. /\ Cardinality(names) \in Nat /\ Cardinality(recent) \in Nat
              /\ Cardinality(Lately(ranked, i)) \in Nat
            BY <3>2, <3>3, <3>5, FS_CardinalityType
        <3> HIDE DEF names, recent
        <3> QED BY <1>1, <3>2, <3>3, <3>5, <3>6, <3>7 DEF Window, AtLeast, AtMost
    <2> QED BY <1>1, <2>1, <2>2
<1> QED BY <1>4, <1>5

\* A choice depends on the topics of the slots before it alone.
LEMMA ChoiceLooksBack ==
    ASSUME NEW ranked, NEW given, NEW other, NEW i \in Nat \ {0}, Len(ranked) \in Nat,
           \A j \in 1 .. i - 1 : given[j] = other[j]
    PROVE  Choice(ranked, given, i) = Choice(ranked, other, i)
<1>1. \A j \in Lately(ranked, i) : j \in 1 .. i - 1
    BY DEF Lately, Window, AtLeast, AtMost
<1>2. {given[j] : j \in Lately(ranked, i)} = {other[j] : j \in Lately(ranked, i)}
    BY <1>1
<1> DEFINE From(recent) ==
                LET fresh == {r \in DOMAIN ranked : ranked[r] \notin recent}
                IN  IF fresh = {} THEN ranked[1]
                    ELSE ranked[CHOOSE r \in fresh : \A q \in fresh : r <= q]
<1>3. /\ Choice(ranked, given, i) = From({given[j] : j \in Lately(ranked, i)})
      /\ Choice(ranked, other, i) = From({other[j] : j \in Lately(ranked, i)})
    BY DEF Choice, Lately
<1> HIDE DEF From
<1> QED BY <1>2, <1>3

TopicOf(plan, ranked, topics, i) ==
    IF IsOpen(plan[i]) THEN Choice(ranked, topics, i) ELSE "none"

\* The recursion of WithTopics is a definition, of one list of topics.
LEMMA TopicsEquation ==
    ASSUME NEW plan, Len(plan) \in Nat, NEW ranked, IsRanking(ranked)
    PROVE  \E topics :
             /\ \A i \in 1 .. Len(plan) : topics[i] = TopicOf(plan, ranked, topics, i)
             /\ WithTopics(plan, ranked) =
                    [i \in DOMAIN plan |->
                        IF IsOpen(plan[i]) THEN [plan[i] EXCEPT !.topic = topics[i]]
                        ELSE plan[i]]
<1> DEFINE n == Len(plan)
           Topics == {ranked[r] : r \in DOMAIN ranked} \cup {"none"}
           After(before, i) == Append(before, TopicOf(plan, ranked, before, i))
           Up(given, m) == given = [i \in 0 .. m |-> IF i = 0 THEN <<>> ELSE After(given[i - 1], i)]
           S == {m \in 0 .. n : \E given : Up(given, m)}
           found == CHOOSE given : Up(given, n)
           topics == found[n]
<1>1. WithTopics(plan, ranked) =
        [i \in DOMAIN plan |->
            IF IsOpen(plan[i]) THEN [plan[i] EXCEPT !.topic = topics[i]] ELSE plan[i]]
    BY DEF WithTopics, TopicOf
<1> HIDE DEF After, n, Topics
<1>2. 0 \in S
    <2>1. Up([i \in 0 .. 0 |-> <<>>], 0)
        OBVIOUS
    <2>2. 0 \in 0 .. n
        BY DEF n
    <2> HIDE DEF Up
    <2> QED BY <2>1, <2>2
<1>3. ASSUME NEW m \in 0 .. n - 1, m \in S
      PROVE  m + 1 \in S
    <2>1. PICK given : Up(given, m)
        BY <1>3
    <2> DEFINE longer ==
                [i \in 0 .. m + 1 |-> IF i =< m THEN given[i] ELSE After(given[m], m + 1)]
    <2>2. \A i \in 0 .. m : given[i] = IF i = 0 THEN <<>> ELSE After(given[i - 1], i)
        BY <2>1
    <2>3. \A i \in 0 .. m + 1 : longer[i] = IF i = 0 THEN <<>> ELSE After(longer[i - 1], i)
        <3>1. \A i \in 0 .. m : longer[i] = given[i]
            OBVIOUS
        <3>2. longer[m + 1] = After(longer[m], m + 1)
            BY <3>1
        <3> QED BY <2>2, <3>1, <3>2
    <2>4. Up(longer, m + 1) /\ m + 1 \in 0 .. n
        BY <2>3 DEF n
    <2> HIDE DEF longer, Up
    <2> QED BY <2>4
<1> HIDE DEF S
<1>4. n \in S
    <2>1. n \in Nat
        BY DEF n
    <2>2. \A m \in 0 .. n : m \in S
        BY ONLY <1>2, <1>3, <2>1, InductionUpTo
    <2> QED BY <2>1, <2>2
<1>5. \E given : Up(given, n)
    BY <1>4 DEF S
<1> HIDE DEF Up
<1>6. Up(found, n)
    BY <1>5
<1> HIDE DEF found
<1>7. /\ found[0] = <<>>
      /\ \A i \in 1 .. n : found[i] = After(found[i - 1], i)
    BY <1>6 DEF Up, n
<1> DEFINE Good(given, i) ==
                /\ given \in Seq(Topics) /\ Len(given) = i
                /\ \A j \in 1 .. i : given[j] = TopicOf(plan, ranked, given, j)
           T == {i \in 0 .. n : Good(found[i], i)}
<1>8. 0 \in T
    <2>1. 0 \in 0 .. n
        BY DEF n
    <2>2. PICK none : none = <<>>
        OBVIOUS
    <2>3. Good(none, 0)
        BY <2>2
    <2> HIDE DEF Good
    <2> QED BY <1>7, <2>1, <2>2, <2>3
<1>9. ASSUME NEW i \in 0 .. n - 1, i \in T
      PROVE  i + 1 \in T
    <2>1. PICK before : before = found[i]
        OBVIOUS
    <2>2. before \in Seq(Topics) /\ Len(before) = i /\ i \in Nat /\ i + 1 \in 1 .. n
        BY <1>9, <2>1 DEF n
    <2>3. \A j \in 1 .. i : before[j] = TopicOf(plan, ranked, before, j)
        BY <1>9, <2>1
    <2>4. PICK t : t = TopicOf(plan, ranked, before, i + 1)
        OBVIOUS
    <2>5. t \in Topics
        <3>1. i + 1 \in Nat \ {0}
            BY <2>2
        <3>2. \E r \in DOMAIN ranked : Choice(ranked, before, i + 1) = ranked[r]
            BY ONLY <3>1, IsRanking(ranked), ChoiceIsFresh
        <3> QED BY <2>4, <3>2 DEF TopicOf, Topics
    <2>6. found[i + 1] = Append(before, t)
        <3>1. found[i + 1] = After(found[(i + 1) - 1], i + 1)
            BY <1>7, <2>2
        <3>2. (i + 1) - 1 = i
            BY <2>2
        <3> QED BY <2>1, <2>4, <3>1, <3>2 DEF After
    <2>7. PICK now : now = Append(before, t)
        OBVIOUS
    <2>8. /\ now \in Seq(Topics) /\ Len(now) = i + 1 /\ now[i + 1] = t
          /\ \A j \in 1 .. i : now[j] = before[j]
        <3>1. ASSUME NEW V, NEW s \in Seq(V), NEW v \in V
              PROVE  /\ Append(s, v) \in Seq(V) /\ Len(Append(s, v)) = Len(s) + 1
                     /\ Append(s, v)[Len(s) + 1] = v
                     /\ \A j \in 1 .. Len(s) : Append(s, v)[j] = s[j]
            OBVIOUS
        <3>2. /\ Append(before, t) \in Seq(Topics) /\ Len(Append(before, t)) = Len(before) + 1
              /\ Append(before, t)[Len(before) + 1] = t
              /\ \A j \in 1 .. Len(before) : Append(before, t)[j] = before[j]
            BY ONLY <2>2, <2>5, <3>1
        <3> QED BY ONLY <2>2, <2>7, <3>2
    <2>9. ASSUME NEW j \in 1 .. i + 1
          PROVE  TopicOf(plan, ranked, now, j) = TopicOf(plan, ranked, before, j)
        <3>1. j \in Nat \ {0} /\ Len(ranked) \in Nat /\ \A k \in 1 .. j - 1 : now[k] = before[k]
            BY <2>2, <2>8 DEF IsRanking
        <3> QED BY <3>1, ChoiceLooksBack DEF TopicOf
    <2>10. \A j \in 1 .. i + 1 : now[j] = TopicOf(plan, ranked, now, j)
        BY <2>2, <2>3, <2>4, <2>8, <2>9
    <2>11. Good(now, i + 1) /\ i + 1 \in 0 .. n
        BY <2>2, <2>8, <2>10
    <2> HIDE DEF Good
    <2> QED BY <2>6, <2>7, <2>11
<1> HIDE DEF T
<1>10. n \in T
    <2>1. n \in Nat
        BY DEF n
    <2>2. \A i \in 0 .. n : i \in T
        BY ONLY <1>8, <1>9, <2>1, InductionUpTo
    <2> QED BY <2>1, <2>2
<1>11. \A j \in 1 .. n : topics[j] = TopicOf(plan, ranked, topics, j)
    BY <1>10 DEF T
<1> HIDE DEF topics
<1> QED BY <1>1, <1>11 DEF n

\* A topic is all that is changed of a slot.
LEMMA TopicField ==
    ASSUME NEW slot, IsSlot(slot), NEW topic, NEW new, new = [slot EXCEPT !.topic = topic]
    PROVE  /\ IsSlot(new) /\ new.day = slot.day /\ new.at = slot.at
           /\ new.scrape = slot.scrape /\ new.kind = slot.kind /\ new.topic = topic
           /\ new.format = slot.format
<1>1. ASSUME NEW d, NEW a, NEW s, NEW k, NEW f, NEW t, NEW m
      PROVE  [[day |-> d, at |-> a, scrape |-> s, kind |-> k, format |-> f, topic |-> t,
               market |-> m] EXCEPT !.topic = topic]
             = [day |-> d, at |-> a, scrape |-> s, kind |-> k, format |-> f,
                topic |-> topic, market |-> m]
    OBVIOUS
<1>2. PICK d, a, s, k, f, t, m :
        slot = [day |-> d, at |-> a, scrape |-> s, kind |-> k, format |-> f, topic |-> t,
                market |-> m]
    BY DEF IsSlot
<1>3. new =
        [day |-> d, at |-> a, scrape |-> s, kind |-> k, format |-> f, topic |-> topic,
         market |-> m]
    <2>1. [[day |-> d, at |-> a, scrape |-> s, kind |-> k, format |-> f, topic |-> t,
            market |-> m] EXCEPT !.topic = topic]
          = [day |-> d, at |-> a, scrape |-> s, kind |-> k, format |-> f, topic |-> topic,
             market |-> m]
        BY <1>1
    <2> QED BY ONLY new = [slot EXCEPT !.topic = topic], <1>2, <2>1, Zenon
<1> QED BY ONLY <1>2, <1>3, IsSlot(slot), SMT DEF IsSlot

\* What is open takes topics that are apart, and nothing else changes.
LEMMA TopicsSound ==
    ASSUME NEW plan, IsPlan(plan), NEW ranked, IsRanking(ranked)
    PROVE  LET new == WithTopics(plan, ranked)
           IN  /\ IsPlan(new) /\ DOMAIN new = DOMAIN plan /\ Len(new) = Len(plan)
               /\ \A i \in DOMAIN plan :
                    /\ new[i].day = plan[i].day /\ new[i].at = plan[i].at
                    /\ new[i].scrape = plan[i].scrape /\ new[i].kind = plan[i].kind
                    /\ new[i].format = plan[i].format
                    /\ ~IsOpen(plan[i]) => new[i] = plan[i]
               /\ IsSpaced(new)
<1>1. PICK topics :
        /\ \A i \in 1 .. Len(plan) : topics[i] = TopicOf(plan, ranked, topics, i)
        /\ WithTopics(plan, ranked) =
             [i \in DOMAIN plan |->
                IF IsOpen(plan[i]) THEN [plan[i] EXCEPT !.topic = topics[i]] ELSE plan[i]]
    <2>1. Len(plan) \in Nat
        BY DEF IsPlan
    <2> QED BY <2>1, TopicsEquation
<1> DEFINE item(i) == IF IsOpen(plan[i]) THEN [plan[i] EXCEPT !.topic = topics[i]] ELSE plan[i]
<1>2. PICK new : new = WithTopics(plan, ranked)
    OBVIOUS
<1>3. /\ Len(plan) \in Nat /\ DOMAIN plan = 1 .. Len(plan)
      /\ \A i \in 1 .. Len(plan) : IsSlot(plan[i])
    BY DEF IsPlan
<1>4. new = [i \in 1 .. Len(plan) |-> item(i)]
    <2>1. new = [i \in DOMAIN plan |-> item(i)]
        BY <1>1, <1>2
    <2> HIDE DEF item
    <2> QED BY <1>3, <2>1
<1>5. ASSUME NEW i \in 1 .. Len(plan)
      PROVE  /\ IsSlot(item(i)) /\ item(i).day = plan[i].day /\ item(i).at = plan[i].at
             /\ item(i).scrape = plan[i].scrape /\ item(i).kind = plan[i].kind
             /\ item(i).format = plan[i].format
             /\ ~IsOpen(plan[i]) => item(i) = plan[i]
             /\ IsOpen(plan[i]) => item(i).topic = topics[i]
    <2>1. IsSlot(plan[i])
        BY <1>3
    <2>2. CASE IsOpen(plan[i])
        <3>1. item(i) = [plan[i] EXCEPT !.topic = topics[i]]
            BY <2>2
        <3> HIDE DEF item
        <3>2. /\ IsSlot(item(i)) /\ item(i).day = plan[i].day /\ item(i).at = plan[i].at
              /\ item(i).scrape = plan[i].scrape /\ item(i).kind = plan[i].kind
              /\ item(i).topic = topics[i] /\ item(i).format = plan[i].format
            BY ONLY <2>1, <3>1, TopicField
        <3> QED BY <2>2, <3>2
    <2>3. CASE ~IsOpen(plan[i])
        <3>1. item(i) = plan[i]
            BY <2>3
        <3> HIDE DEF item
        <3> QED BY <2>1, <2>3, <3>1
    <2> QED BY <2>2, <2>3
<1> HIDE DEF item
<1>6. DOMAIN new = 1 .. Len(plan) /\ Len(new) = Len(plan)
    BY <1>3, <1>4
<1>7. \A i \in 1 .. Len(plan) : IsOpen(new[i]) <=> IsOpen(plan[i])
    BY <1>4, <1>5 DEF IsOpen
<1> DEFINE open == {i \in 1 .. Len(plan) : IsOpen(new[i])}
           used == {new[i].topic : i \in open}
           names == {ranked[r] : r \in 1 .. Len(ranked)}
<1>8. ASSUME NEW i \in open
      PROVE  /\ i \in Nat \ {0} /\ new[i].topic = topics[i]
             /\ topics[i] = Choice(ranked, topics, i)
    <2>1. i \in 1 .. Len(plan) /\ IsOpen(plan[i])
        BY <1>7
    <2>2. topics[i] = Choice(ranked, topics, i)
        BY <1>1, <2>1 DEF TopicOf
    <2> QED BY <1>3, <1>4, <1>5, <2>1, <2>2
<1>9. Len(ranked) \in Nat \ {0} /\ DOMAIN ranked = 1 .. Len(ranked)
    BY DEF IsRanking
<1>10. used \subseteq names
    <2>1. \A i \in open : \E r \in 1 .. Len(ranked) : new[i].topic = ranked[r]
        BY <1>8, <1>9, ChoiceIsFresh
    <2> QED BY <2>1
<1>11. IsFiniteSet(used) /\ Cardinality(used) \in Nat /\ Cardinality(used) =< Len(ranked)
    <2> HIDE DEF used
    <2>1. IsFiniteSet(1 .. Len(ranked)) /\ Cardinality(1 .. Len(ranked)) = Len(ranked)
        <3>1. 1 \in Int /\ Len(ranked) \in Int /\ Len(ranked) >= 1
            BY <1>9
        <3> QED BY <3>1, FS_Interval
    <2>2. IsFiniteSet(names) /\ Cardinality(names) =< Len(ranked)
        BY <2>1, ImageFinite
    <2> HIDE DEF names
    <2>3. /\ IsFiniteSet(used) /\ Cardinality(used) =< Cardinality(names)
          /\ Cardinality(used) \in Nat /\ Cardinality(names) \in Nat
        BY <1>10, <2>2, FS_Subset, FS_CardinalityType
    <2> QED BY <1>9, <2>2, <2>3
<1>12. ASSUME NEW i \in open, NEW j \in open, new[i].topic = new[j].topic, i < j,
              Cardinality(used) > 1
       PROVE  j - i > AtMost(Cardinality(used) - 1, 4)
    <2> HIDE DEF used, open
    <2>1. topics[i] = Choice(ranked, topics, j) /\ i \in Nat \ {0} /\ j \in Nat \ {0}
        BY <1>8, <1>12
    <2>2. Len(ranked) >= 2
        BY <1>9, <1>11, <1>12
    <2>3. i \notin Lately(ranked, j)
        BY <2>1, <2>2, ChoiceIsFresh
    <2>4. PICK c \in Nat, n \in Nat : c = Cardinality(used) /\ n = Len(ranked)
        BY <1>9, <1>11
    <2> QED BY <1>11, <1>12, <2>1, <2>2, <2>3, <2>4 DEF Lately, Window, AtLeast, AtMost
<1>13. IsSpaced(new)
    BY <1>6, <1>12 DEF IsSpaced
<1>14. IsPlan(new)
    BY <1>3, <1>4, <1>5, <1>6 DEF IsPlan
<1> QED BY <1>2, <1>3, <1>4, <1>5, <1>6, <1>13, <1>14

-----------------------------------------------------------------------------
(***************************************************************************)
(* The mix.  Shares are rounded to whole percent by their remainders,      *)
(* capped, raised for polls, and boosted; each lemma is about one of these *)
(* functions, and MixSound about the way from the inputs to the mix.       *)
(***************************************************************************)

\* Rounding is off by half a unit at most.
LEMMA RoundIsNear ==
    ASSUME NEW a \in Nat, NEW b \in Nat \ {0}
    PROVE  /\ Round(a, b) \in Nat
           /\ 2 * b * Round(a, b) <= 2 * a + b
           /\ 2 * a <= 2 * b * Round(a, b) + b
<1> DEFINE q == a \div b
           m == a % b
<1>1. q \in Nat /\ m \in 0 .. b - 1 /\ a = b * q + m
    OBVIOUS
<1>2. Round(a, b) = IF 2 * m > b \/ (2 * m = b /\ q % 2 = 1) THEN q + 1 ELSE q
    BY DEF Round
<1> HIDE DEF q, m
<1>3. b * q \in Nat /\ 2 * b * (q + 1) = 2 * (b * q) + 2 * b /\ 2 * b * q = 2 * (b * q)
    BY <1>1
<1>4. CASE Round(a, b) = q + 1 /\ 2 * m >= b
    BY <1>1, <1>3, <1>4
<1>5. CASE Round(a, b) = q /\ 2 * m <= b
    BY <1>1, <1>3, <1>5
<1> QED BY <1>1, <1>2, <1>4, <1>5

IsWeights(w) ==
    /\ DOMAIN w \subseteq Formats
    /\ \A f \in DOMAIN w : w[f] \in Nat

LEMMA OneMore ==
    ASSUME NEW S, IsFiniteSet(S), NEW n \in Nat, Cardinality(S) <= n, NEW x
    PROVE  IsFiniteSet(S \cup {x}) /\ Cardinality(S \cup {x}) <= n + 1
<1>1. Cardinality(S) \in Nat
    BY FS_CardinalityType
<1>2. IsFiniteSet(S \cup {x}) /\ Cardinality(S \cup {x}) \in {Cardinality(S), Cardinality(S) + 1}
    <2>1. x \in S => S \cup {x} = S
        OBVIOUS
    <2> QED BY <2>1, FS_AddElement
<1> QED BY <1>1, <1>2

LEMMA FormatsAreFinite ==
    \A D \in SUBSET Formats : IsFiniteSet(D) /\ Cardinality(D) \in 0 .. 7
<1>1. IsFiniteSet({}) /\ Cardinality({}) <= 0
    BY FS_EmptySet
<1>2. IsFiniteSet({"article"}) /\ Cardinality({"article"}) <= 1
    BY FS_Singleton
<1>3. IsFiniteSet({"article", "link"}) /\ Cardinality({"article", "link"}) <= 2
    <2>1. {"article", "link"} = {"article"} \cup {"link"}
        OBVIOUS
    <2> QED BY <1>2, <2>1, OneMore
<1>4. IsFiniteSet({"article", "link", "meme"}) /\ Cardinality({"article", "link", "meme"}) <= 3
    <2>1. {"article", "link", "meme"} = {"article", "link"} \cup {"meme"}
        OBVIOUS
    <2> QED BY <1>3, <2>1, OneMore
<1>5. /\ IsFiniteSet({"article", "link", "meme", "photo"})
      /\ Cardinality({"article", "link", "meme", "photo"}) <= 4
    <2>1. {"article", "link", "meme", "photo"} = {"article", "link", "meme"} \cup {"photo"}
        OBVIOUS
    <2> QED BY <1>4, <2>1, OneMore
<1>6. /\ IsFiniteSet({"article", "link", "meme", "photo", "poll"})
      /\ Cardinality({"article", "link", "meme", "photo", "poll"}) <= 5
    <2>1. {"article", "link", "meme", "photo", "poll"} =
            {"article", "link", "meme", "photo"} \cup {"poll"}
        OBVIOUS
    <2> QED BY <1>5, <2>1, OneMore
<1>7. PICK S : S = {"article", "link", "meme", "photo", "poll"}
    OBVIOUS
<1>8. IsFiniteSet(S \cup {"text"}) /\ Cardinality(S \cup {"text"}) <= 5 + 1
    BY ONLY <1>6, <1>7, 5 \in Nat, OneMore
<1>9. /\ IsFiniteSet((S \cup {"text"}) \cup {"video"})
      /\ Cardinality((S \cup {"text"}) \cup {"video"}) <= 6 + 1
    BY ONLY <1>8, 6 \in Nat, 5 + 1 = 6, OneMore
<1>10. Formats = (S \cup {"text"}) \cup {"video"}
    BY <1>7 DEF Formats
<1>11. IsFiniteSet(Formats) /\ Cardinality(Formats) <= 7
    BY <1>9, <1>10
<1> QED BY <1>11, FS_Subset, FS_CardinalityType

\* The greatest of finitely many weights.
LEMMA GreatestWeight ==
    ASSUME NEW D, IsFiniteSet(D), D # {}, NEW w, \A f \in D : w[f] \in Int
    PROVE  LET top == CHOOSE f \in D : \A g \in D : w[g] <= w[f]
           IN  top \in D /\ \A g \in D : w[g] <= w[top]
<1> DEFINE HasTop(T) == T = {} \/ \E f \in T : \A g \in T : w[g] <= w[f]
           Good == {T \in SUBSET D : HasTop(T)}
<1>1. {} \in Good
    OBVIOUS
<1>2. ASSUME NEW T \in SUBSET D, T \in Good, NEW x \in D \ T
      PROVE  T \cup {x} \in Good
    <2>1. CASE T = {}
        <3>1. \A g \in T \cup {x} : w[g] <= w[x]
            BY <2>1
        <3> QED BY <3>1
    <2>2. CASE T # {}
        <3>1. PICK f \in T : \A g \in T : w[g] <= w[f]
            BY <1>2, <2>2
        <3>2. CASE w[x] <= w[f]
            <4>1. \A g \in T \cup {x} : w[g] <= w[f]
                BY <3>1, <3>2
            <4> QED BY <4>1
        <3>3. CASE ~(w[x] <= w[f])
            <4>1. \A g \in T \cup {x} : w[g] <= w[x]
                BY <3>1, <3>3
            <4> QED BY <4>1
        <3> QED BY <3>2, <3>3
    <2> QED BY <2>1, <2>2
<1> HIDE DEF Good
<1>3. D \in Good
    BY ONLY IsFiniteSet(D), <1>1, <1>2, SetInduction
<1>4. \E f \in D : \A g \in D : w[g] <= w[f]
    BY <1>3 DEF Good
<1> QED BY <1>4

\* Percentages add up to 100; each is near its share, for what it has of the drift.
LEMMA PercentSound ==
    ASSUME NEW w, IsWeights(w), NEW D, D = {f \in DOMAIN w : w[f] > 0}, D # {},
           NEW total, total = SumFunction(w), NEW n, n = Cardinality(D),
           NEW pcts, pcts = InPercent(w)
    PROVE  /\ D \subseteq Formats /\ n \in 1 .. 7 /\ total \in Nat \ {0}
           /\ DOMAIN pcts = D /\ SumFunction(pcts) = 100
           /\ \E top \in D :
                /\ \A f \in D \ {top} : pcts[f] = Round(w[f] * 100, total)
                /\ pcts[top] = 100 - SumFunctionOnSet(pcts, D \ {top})
           /\ \A f \in D : /\ pcts[f] \in 0 .. 100
                           /\ 2 * total * pcts[f] <= 200 * w[f] + total * (n - 1)
                           /\ 200 * w[f] <= 2 * total * pcts[f] + total * (n - 1)
<1> DEFINE raw == [f \in D |-> Round(w[f] * 100, total)]
           top == CHOOSE f \in D : \A g \in D : raw[g] <= raw[f]
           sum == SumFunctionOnSet(raw, D)
<1>1. D # {} /\ D \subseteq Formats /\ IsFiniteSet(D) /\ IsFiniteSet(DOMAIN w) /\ n \in 1 .. 7
    <2>1. D # {} /\ D \in SUBSET Formats /\ DOMAIN w \in SUBSET Formats
        BY DEF IsWeights
    <2> QED BY <2>1, FormatsAreFinite, FS_EmptySet
<1>2. pcts = [f \in D |-> IF f = top THEN raw[f] + 100 - sum ELSE raw[f]]
    <2>1. SumFunction(raw) = sum
        BY DEF SumFunction
    <2>2. InPercent(w) = [raw EXCEPT ![top] = raw[top] + 100 - SumFunction(raw)]
        BY <1>1 DEF InPercent
    <2>3. [raw EXCEPT ![top] = raw[top] + 100 - sum] =
            [f \in D |-> IF f = top THEN raw[f] + 100 - sum ELSE raw[f]]
        <3> HIDE DEF top, sum
        <3> QED OBVIOUS
    <2> QED BY <2>1, <2>2, <2>3
<1>3. \A f \in D : w[f] \in Nat \ {0}
    BY DEF IsWeights
<1>4. total = SumFunctionOnSet(w, D) /\ total \in Nat \ {0}
    <2>1. \A f \in DOMAIN w : w[f] \in Nat
        BY DEF IsWeights
    <2>2. total = SumFunctionOnSet(w, D)
        BY <1>1, <2>1, SumOfPositive DEF SumFunction
    <2>3. SumFunctionOnSet(w, D) \in Nat /\ \A f \in D : w[f] <= SumFunctionOnSet(w, D)
        BY <1>1, <1>3, SumOfNaturals
    <2> QED BY <1>1, <1>3, <2>2, <2>3
<1>5. \A f \in D : /\ raw[f] \in Nat
                   /\ 2 * total * raw[f] <= 200 * w[f] + total
                   /\ 200 * w[f] <= 2 * total * raw[f] + total
    <2>1. ASSUME NEW f \in D
          PROVE  /\ raw[f] \in Nat
                 /\ 2 * total * raw[f] <= 200 * w[f] + total
                 /\ 200 * w[f] <= 2 * total * raw[f] + total
        <3>1. w[f] * 100 \in Nat /\ 2 * (w[f] * 100) = 200 * w[f]
            BY <1>3
        <3>2. raw[f] = Round(w[f] * 100, total)
            OBVIOUS
        <3> HIDE DEF raw
        <3>3. /\ raw[f] \in Nat
              /\ 2 * total * raw[f] <= 2 * (w[f] * 100) + total
              /\ 2 * (w[f] * 100) <= 2 * total * raw[f] + total
            <4>1. PICK a \in Nat, t \in Nat \ {0} : a = w[f] * 100 /\ t = total
                BY <1>4, <3>1
            <4>2. /\ Round(a, t) \in Nat
                  /\ 2 * t * Round(a, t) <= 2 * a + t
                  /\ 2 * a <= 2 * t * Round(a, t) + t
                BY ONLY RoundIsNear, a \in Nat, t \in Nat \ {0}
            <4> QED BY <3>2, <4>1, <4>2, Zenon
        <3> QED BY <3>1, <3>3, Zenon
    <2> QED BY <2>1
<1>6. top \in D /\ \A f \in D : raw[f] <= raw[top]
    <2>1. \A f \in D : raw[f] \in Int
        BY <1>5
    <2> HIDE DEF raw
    <2> QED BY <1>1, <2>1, GreatestWeight
<1> HIDE DEF top
<1> DEFINE rest == SumFunctionOnSet(raw, D \ {top})
<1>7. sum = raw[top] + rest /\ sum \in Nat /\ rest \in Nat
    <2>1. IsFiniteSet(D \ {top}) /\ \A f \in D : raw[f] \in Nat
        BY <1>1, <1>5, FS_Subset
    <2> HIDE DEF raw
    <2> QED BY <1>1, <1>6, <2>1, SumSplits, SumOfNaturals
<1>8. pcts[top] = 100 - rest
    <2>1. pcts[top] = raw[top] + 100 - sum
        BY <1>2, <1>6
    <2> HIDE DEF rest, raw, sum
    <2> QED BY <1>5, <1>6, <1>7, <2>1
<1>9. SumFunctionOnSet(pcts, D \ {top}) = rest
    <2>1. \A f \in D \ {top} : pcts[f] = raw[f]
        BY <1>2
    <2>2. IsFiniteSet(D \ {top})
        BY <1>1, FS_Subset
    <2> HIDE DEF raw
    <2> QED BY <2>1, <2>2, SumOfSame
<1>10. SumFunction(pcts) = 100
    <2>1. \A f \in D : pcts[f] \in Int
        <3> HIDE DEF raw, sum
        <3> QED BY <1>2, <1>5, <1>6, <1>7
    <2>2. DOMAIN pcts = D
        BY <1>2
    <2> HIDE DEF rest
    <2>3. SumFunctionOnSet(pcts, D) = pcts[top] + SumFunctionOnSet(pcts, D \ {top})
        <3> HIDE DEF raw, sum
        <3> QED BY <1>1, <1>6, <2>1, SumSplits
    <2> QED BY <1>7, <1>8, <1>9, <2>2, <2>3 DEF SumFunction
\* The largest lies above the mean, which the drift does not reach.
<1>11. 2 * rest <= 2 * sum /\ 2 * sum <= 200 + n /\ 200 - n <= 2 * sum
    <2>1. \A f \in D : w[f] \in Int /\ raw[f] \in Int
        BY <1>3, <1>5
    <2>2. \A f \in D : (2 * total) * raw[f] <= 200 * w[f] + total
        <3> HIDE DEF raw
        <3> QED BY <1>5
    <2>3. \A f \in D : 200 * w[f] <= (2 * total) * raw[f] + total
        <3> HIDE DEF raw
        <3> QED BY <1>5
    <2>4. PICK c \in Int, e \in Int : c = 2 * total /\ e = 200
        <3>1. 2 * total \in Int /\ 200 \in Int
            BY <1>4
        <3> QED BY ONLY <3>1
    <2>a. total \in Int
        BY <1>4
    <2>b. \A f \in D : c * raw[f] <= e * w[f] + total
        <3> HIDE DEF raw
        <3> QED BY <2>2, <2>4
    <2>c. \A f \in D : e * w[f] <= c * raw[f] + total
        <3> HIDE DEF raw
        <3> QED BY <2>3, <2>4
    <2> HIDE DEF raw
    <2>d. IsFiniteSet(D) /\ \A f \in D : raw[f] \in Int /\ w[f] \in Int
        BY <1>1, <2>1
    <2>5. c * SumFunctionOnSet(raw, D) <= e * SumFunctionOnSet(w, D) + total * Cardinality(D)
        BY ONLY <2>d, <2>b, <2>a, c \in Int, e \in Int, SumIsBounded, Zenon
    <2>6. e * SumFunctionOnSet(w, D) <= c * SumFunctionOnSet(raw, D) + total * Cardinality(D)
        BY ONLY <2>d, <2>c, <2>a, c \in Int, e \in Int, SumIsBounded, Zenon
    <2>7. ASSUME NEW t \in Nat \ {0}, NEW s \in Nat, NEW k \in Nat,
                 (2 * t) * s <= 200 * t + t * k, 200 * t <= (2 * t) * s + t * k
          PROVE  2 * s <= 200 + k /\ 200 - k <= 2 * s
        <3>1. t * (2 * s - 200 - k) <= 0 /\ t * (200 - k - 2 * s) <= 0
            BY <2>7
        <3> QED BY <3>1
    <2>8. 2 * sum <= 200 + n /\ 200 - n <= 2 * sum
        <3> HIDE DEF sum
        <3>1. /\ (2 * total) * sum <= 200 * total + total * n
              /\ 200 * total <= (2 * total) * sum + total * n
            BY <1>4, <2>4, <2>5, <2>6 DEF sum
        <3> QED BY ONLY <1>1, <1>4, <1>7, <2>7, <3>1
    <2> HIDE DEF rest, sum
    <2> QED BY <1>5, <1>6, <1>7, <2>8
<1>12. raw[top] >= 14 /\ rest <= 90
    <2>1. \A f \in D : 0 * w[f] + 1 * raw[f] <= raw[top]
        BY <1>3, <1>5, <1>6
    <2>2. sum <= n * raw[top]
        <3>1. \A f \in D : w[f] \in Int /\ raw[f] \in Int /\ 1 * raw[f] <= 0 * w[f] + raw[top]
            BY <1>3, <1>5, <1>6
        <3>2. raw[top] \in Int
            BY <1>5, <1>6
        <3> HIDE DEF raw
        <3>3. 1 * SumFunctionOnSet(raw, D) <= 0 * SumFunctionOnSet(w, D) + raw[top] * Cardinality(D)
            BY ONLY <1>1, <3>1, <3>2, 0 \in Int, 1 \in Int, SumIsBounded
        <3>4. n \in Nat /\ SumFunctionOnSet(w, D) \in Int /\ raw[top] * n = n * raw[top]
            BY <1>1, <1>4, <3>2
        <3> QED BY <1>7, <3>2, <3>3, <3>4
    <2>3. raw[top] \in Nat
        BY <1>5, <1>6
    <2> HIDE DEF raw, sum, rest
    <2>4. n * raw[top] <= 7 * raw[top]
        BY <1>1, <2>3
    <2> QED BY <1>1, <1>7, <1>11, <2>2, <2>3, <2>4
<1>13. /\ IsFiniteSet(D \ {top}) /\ Cardinality(D \ {top}) = n - 1
       /\ total = w[top] + SumFunctionOnSet(w, D \ {top}) /\ SumFunctionOnSet(w, D \ {top}) \in Nat
    <2>1. \A f \in D : w[f] \in Int
        BY <1>3
    <2>2. \A f \in D \ {top} : w[f] \in Nat
        BY <1>3
    <2>3. IsFiniteSet(D \ {top}) /\ Cardinality(D \ {top}) = n - 1
        BY <1>1, <1>6, SmallerByOne
    <2> QED BY <1>1, <1>4, <1>6, <2>1, <2>2, <2>3, SumSplits, SumOfNaturals
<1>14. \A f \in D \ {top} : pcts[f] \in 0 .. 90 /\ pcts[f] = raw[f]
    <2>1. \A f \in D \ {top} : raw[f] \in Nat
        BY <1>5
    <2>2. \A f \in D \ {top} : pcts[f] = raw[f]
        BY <1>2
    <2> HIDE DEF raw
    <2>3. \A f \in D \ {top} : raw[f] <= rest
        BY <1>13, <2>1, SumOfNaturals
    <2> HIDE DEF rest
    <2> QED BY <1>7, <1>12, <2>1, <2>2, <2>3
<1>15. /\ pcts[top] \in 0 .. 100
       /\ 2 * total * pcts[top] <= 200 * w[top] + total * (n - 1)
       /\ 200 * w[top] <= 2 * total * pcts[top] + total * (n - 1)
    <2>1. PICK c \in Int, e \in Int : c = 2 * total /\ e = 200
        <3>1. 2 * total \in Int /\ 200 \in Int
            BY <1>4
        <3> QED BY ONLY <3>1
    <2>2. \A f \in D \ {top} : /\ w[f] \in Int /\ raw[f] \in Int
                               /\ c * raw[f] <= e * w[f] + total
                               /\ e * w[f] <= c * raw[f] + total
        <3>1. \A f \in D : w[f] \in Int /\ raw[f] \in Int
            BY <1>3, <1>5
        <3> HIDE DEF raw
        <3> QED BY <1>5, <2>1, <3>1
    <2>3. total \in Int /\ D \ {top} = D \ {top}
        BY <1>4
    <2> HIDE DEF raw
    <2> DEFINE E == D \ {top}
    <2>a. IsFiniteSet(E) /\ \A f \in E : w[f] \in Int /\ raw[f] \in Int
        BY <1>13, <2>2
    <2>b. \A f \in E : c * raw[f] <= e * w[f] + total
        BY <2>2
    <2>c. \A f \in E : e * w[f] <= c * raw[f] + total
        BY <2>2
    <2> HIDE DEF E
    <2>4. c * SumFunctionOnSet(raw, E) <= e * SumFunctionOnSet(w, E) + total * Cardinality(E)
        BY ONLY <2>a, <2>b, <2>3, c \in Int, e \in Int, SumIsBounded, Zenon
    <2>5. e * SumFunctionOnSet(w, E) <= c * SumFunctionOnSet(raw, E) + total * Cardinality(E)
        BY ONLY <2>a, <2>c, <2>3, c \in Int, e \in Int, SumIsBounded, Zenon
    <2>6. /\ (2 * total) * rest <= 200 * SumFunctionOnSet(w, D \ {top}) + total * (n - 1)
          /\ 200 * SumFunctionOnSet(w, D \ {top}) <= (2 * total) * rest + total * (n - 1)
        BY <1>13, <2>1, <2>4, <2>5 DEF E
    <2>7. ASSUME NEW t \in Nat, NEW r \in Nat, NEW o \in Nat, NEW x \in Nat, NEW k \in Int,
                 t = x + o, (2 * t) * r <= 200 * o + k, 200 * o <= (2 * t) * r + k
          PROVE  /\ 2 * t * (100 - r) <= 200 * x + k
                 /\ 200 * x <= 2 * t * (100 - r) + k
        <3>1. 2 * t * (100 - r) = 200 * t - (2 * t) * r
            OBVIOUS
        <3> QED BY <2>7, <3>1
    <2>8. w[top] \in Nat
        BY <1>3, <1>6
    <2>9. total \in Nat /\ total * (n - 1) \in Int
        BY <1>1, <1>4
    <2> HIDE DEF rest
    <2>10. /\ 2 * total * (100 - rest) <= 200 * w[top] + total * (n - 1)
           /\ 200 * w[top] <= 2 * total * (100 - rest) + total * (n - 1)
        BY ONLY <1>7, <1>13, <2>6, <2>7, <2>8, <2>9
    <2>11. pcts[top] \in 0 .. 100
        BY <1>7, <1>8, <1>12
    <2> QED BY <1>8, <2>10, <2>11
<1>16. ASSUME NEW f \in D
      PROVE  /\ pcts[f] \in 0 .. 100
             /\ 2 * total * pcts[f] <= 200 * w[f] + total * (n - 1)
             /\ 200 * w[f] <= 2 * total * pcts[f] + total * (n - 1)
    <2>1. CASE f = top
        <3> QED BY <1>15, <2>1
    <2>2. CASE f # top
        <3>1. n - 1 \in Nat \ {0}
            <4>1. f \in D \ {top}
                BY <2>2
            <4> QED BY <1>1, <1>13, <4>1, SmallerByOne
        <3>2. total <= total * (n - 1)
            <4>1. ASSUME NEW t \in Nat, NEW k \in Nat \ {0}
                  PROVE  t <= t * k
                <5>1. t * (k - 1) >= 0 /\ t * (k - 1) = t * k - t
                    OBVIOUS
                <5> QED BY <5>1
            <4> QED BY <1>4, <3>1, <4>1
        <3>3. /\ raw[f] \in 0 .. 90 /\ pcts[f] = raw[f]
              /\ 2 * total * raw[f] <= 200 * w[f] + total
              /\ 200 * w[f] <= 2 * total * raw[f] + total
            BY <1>5, <1>14, <2>2
        <3>4. w[f] \in Nat /\ total * (n - 1) \in Int /\ total \in Int
            BY <1>1, <1>3, <1>4
        <3>5. 2 * total * raw[f] \in Int /\ 2 * total * raw[f] = 2 * total * pcts[f]
            BY <1>4, <3>3
        <3> HIDE DEF raw
        <3> QED BY <3>2, <3>3, <3>4, <3>5
    <2> QED BY <2>1, <2>2
<1>17. \A f \in D : raw[f] = Round(w[f] * 100, total)
    OBVIOUS
<1>18. DOMAIN pcts = D
    BY <1>2
<1> HIDE DEF raw, rest, sum
<1>19. \E t \in D : /\ \A f \in D \ {t} : pcts[f] = Round(w[f] * 100, total)
                   /\ pcts[t] = 100 - SumFunctionOnSet(pcts, D \ {t})
    BY <1>6, <1>8, <1>9, <1>14, <1>17
<1> QED BY <1>1, <1>4, <1>10, <1>16, <1>18, <1>19

IsPositive(v) ==
    /\ DOMAIN v \subseteq Formats /\ DOMAIN v # {}
    /\ \A f \in DOMAIN v : v[f] \in Nat \ {0}

LEMMA TotalIsPositive ==
    ASSUME NEW v, IsPositive(v)
    PROVE  /\ IsFiniteSet(DOMAIN v) /\ Cardinality(DOMAIN v) \in 1 .. 7
           /\ SumFunction(v) = SumFunctionOnSet(v, DOMAIN v) /\ SumFunction(v) \in Nat \ {0}
           /\ \A f \in DOMAIN v : v[f] <= SumFunction(v)
<1>1. IsFiniteSet(DOMAIN v) /\ Cardinality(DOMAIN v) \in 1 .. 7
    <2>1. DOMAIN v \in SUBSET Formats /\ DOMAIN v # {}
        BY DEF IsPositive
    <2> QED BY <2>1, FormatsAreFinite, FS_EmptySet
<1>2. SumFunction(v) = SumFunctionOnSet(v, DOMAIN v)
    BY DEF SumFunction
<1>3. \A f \in DOMAIN v : v[f] \in Nat /\ v[f] > 0
    BY DEF IsPositive
<1>4. /\ SumFunctionOnSet(v, DOMAIN v) \in Nat
      /\ \A f \in DOMAIN v : v[f] <= SumFunctionOnSet(v, DOMAIN v)
    BY <1>1, <1>3, SumOfNaturals
<1>5. PICK f \in DOMAIN v : TRUE
    BY DEF IsPositive
<1> QED BY <1>1, <1>2, <1>3, <1>4, <1>5

\* With a visual format: the weights as they are, or ten of each for three of photos.
LEMMA VisualSound ==
    ASSUME NEW v, IsPositive(v)
    PROVE  LET u == WithVisual(v)
           IN  /\ IsPositive(u)
               /\ DOMAIN u \cap Visual # {}
               /\ DOMAIN v \cap Visual # {} => u = v
               /\ DOMAIN v \cap Visual = {} =>
                     /\ "photo" \notin DOMAIN v /\ DOMAIN u = DOMAIN v \cup {"photo"}
                     /\ u["photo"] = 3 * SumFunction(v)
                     /\ \A f \in DOMAIN v : u[f] = 10 * v[f]
                     /\ SumFunction(u) = 13 * SumFunction(v)
<1>1. CASE DOMAIN v \cap Visual # {}
    BY <1>1 DEF WithVisual
<1>2. CASE DOMAIN v \cap Visual = {}
    <2> DEFINE total == SumFunction(v)
               D == DOMAIN v
               u == [f \in D \cup {"photo"} |-> IF f \in D THEN 10 * v[f] ELSE 3 * total]
    <2>1. WithVisual(v) = u
        BY <1>2 DEF WithVisual
    <2>2. "photo" \notin D
        BY <1>2 DEF Visual
    <2>3. /\ total \in Nat \ {0} /\ total = SumFunctionOnSet(v, D) /\ IsFiniteSet(D)
          /\ IsFiniteSet(D \cup {"photo"})
        BY TotalIsPositive, FS_AddElement
    <2> HIDE DEF total
    <2>4. IsPositive(u)
        BY <2>2, <2>3 DEF IsPositive, Formats
    <2>5. /\ DOMAIN u = D \cup {"photo"} /\ u["photo"] = 3 * total
          /\ \A f \in D : u[f] = 10 * v[f]
        BY <2>2
    <2>6. \A f \in D : v[f] \in Int /\ u[f] \in Int /\ u[f] = 10 * v[f] + 0
        BY <2>5 DEF IsPositive
    <2>7. \A f \in D \cup {"photo"} : u[f] \in Int
        BY <2>3, <2>5, <2>6
    <2> DEFINE E == D \cup {"photo"}
    <2>8. "photo" \in E /\ E \ {"photo"} = D
        BY <2>2
    <2>9. SumFunction(u) = SumFunctionOnSet(u, E)
        BY DEF SumFunction
    <2> HIDE DEF u, D, E
    <2>10. SumFunctionOnSet(u, D) = 10 * SumFunctionOnSet(v, D) + 0 * Cardinality(D)
        <3>1. PICK p \in Int, q \in Int : p = 10 /\ q = 0
            OBVIOUS
        <3>2. /\ \A f \in D : v[f] \in Int /\ u[f] \in Int
              /\ \A f \in D : u[f] = p * v[f] + q
            BY <2>6, <3>1
        <3>3. SumFunctionOnSet(u, D) = p * SumFunctionOnSet(v, D) + q * Cardinality(D)
            <4>1. IsFiniteSet(D)
                BY <2>3
            <4> QED BY ONLY <3>2, <4>1, p \in Int, q \in Int, SumIsLinear
        <3> QED BY <3>1, <3>3
    <2>11. SumFunctionOnSet(u, E) = u["photo"] + SumFunctionOnSet(u, D)
        <3>1. \A f \in E : u[f] \in Int
            BY <2>7 DEF E
        <3> QED BY <2>3, <2>8, <3>1, SumSplits DEF E
    <2>12. SumFunction(u) = 13 * total
        <3>1. Cardinality(D) \in Nat
            BY <2>3, FS_CardinalityType
        <3> QED BY <2>3, <2>5, <2>9, <2>10, <2>11, <3>1
    <2>13. DOMAIN u \cap Visual # {}
        BY <2>5 DEF Visual
    <2> QED BY <1>2, <2>1, <2>2, <2>4, <2>5, <2>12, <2>13 DEF D, total
<1> QED BY <1>1, <1>2

\* No format has more than 55 % but one that is alone, and none but the largest has less than
\* it had.
LEMMA CappedSound ==
    ASSUME NEW v, IsPositive(v)
    PROVE  LET c == Capped(v)
               T == SumFunction(v)
               C == SumFunction(c)
           IN  /\ IsPositive(c) /\ DOMAIN c = DOMAIN v
               /\ Cardinality(DOMAIN v) > 1 => \A f \in DOMAIN v : 20 * c[f] <= 11 * C
               /\ (\A f \in DOMAIN v : 20 * v[f] <= 11 * T) => c = v
               /\ \A f \in DOMAIN v : /\ 20 * v[f] <= 11 * T => c[f] * T >= v[f] * C
                                      /\ Cardinality(DOMAIN v) > 1 /\ 20 * v[f] > 11 * T
                                         => 20 * c[f] = 11 * C
<1> DEFINE D == DOMAIN v
           T == SumFunction(v)
           big == CHOOSE f \in D : \A g \in D : v[g] <= v[f]
           others == Cardinality(D \ {big})
<1>1. /\ IsFiniteSet(D) /\ Cardinality(D) \in 1 .. 7 /\ D # {} /\ T = SumFunctionOnSet(v, D)
      /\ T \in Nat \ {0} /\ \A f \in D : v[f] \in Nat \ {0} /\ v[f] <= T
    BY TotalIsPositive DEF IsPositive
<1> HIDE DEF T
<1>2. big \in D /\ \A g \in D : v[g] <= v[big]
    <2>1. \A f \in D : v[f] \in Int
        BY <1>1
    <2> HIDE DEF D
    <2> QED BY <1>1, <2>1, GreatestWeight
<1> HIDE DEF big
<1>3. others \in Nat /\ others = Cardinality(D) - 1 /\ IsFiniteSet(D \ {big})
    BY <1>1, <1>2, SmallerByOne
<1> DEFINE small == 20 * v[big] <= 11 * T \/ others = 0
<1>4. CASE small
    <2>1. Capped(v) = v
        BY <1>4 DEF Capped, big, T
    <2>2. Cardinality(D) > 1 => \A f \in D : 20 * v[f] <= 11 * T
        <3> HIDE DEF others
        <3> QED BY <1>1, <1>2, <1>3, <1>4
    <2>3. \A f \in D : Cardinality(D) > 1 => ~(20 * v[f] > 11 * T)
        BY <1>1, <2>2
    <2>4. \A f \in D : v[f] * T >= v[f] * T
        BY <1>1
    <2> QED BY <2>1, <2>2, <2>3, <2>4 DEF T
<1>5. CASE ~small
    <2> DEFINE excess == 20 * v[big] - 11 * T
               k == 20 * others
               c == [f \in D |-> IF f = big THEN 11 * T * others
                                ELSE k * v[f] + excess]
    <2>1. Capped(v) = c
        <3>1. Capped(v) = [f \in D |-> IF f = big THEN 11 * T * others
                                      ELSE 20 * others * v[f] + 20 * v[big] - 11 * T]
            BY <1>5 DEF Capped, big, T
        <3>2. \A f \in D : 20 * others * v[f] + 20 * v[big] - 11 * T = k * v[f] + excess
            BY <1>1, <1>2, <1>3
        <3> HIDE DEF others, k, excess
        <3> QED BY <3>1, <3>2
    <2>2. excess \in Nat \ {0} /\ others \in Nat \ {0} /\ k \in Nat \ {0}
        BY <1>1, <1>2, <1>3, <1>5
    <2> HIDE DEF excess
    <2>3. c[big] = 11 * T * others /\ \A f \in D \ {big} : c[f] = k * v[f] + excess
        BY <1>2
    <2> DEFINE E == D \ {big}
    <2> HIDE DEF c, others
    <2>4. \A f \in D : c[f] \in Nat \ {0}
        <3>1. c[big] \in Nat \ {0}
            <4>1. ASSUME NEW t \in Nat \ {0}, NEW o \in Nat \ {0}
                  PROVE  11 * t * o \in Nat \ {0}
                OBVIOUS
            <4> QED BY <1>1, <2>2, <2>3, <4>1
        <3>2. ASSUME NEW f \in D, f # big PROVE c[f] \in Nat \ {0}
            <4>1. c[f] = k * v[f] + excess /\ v[f] \in Nat
                BY <1>1, <2>3, <3>2
            <4> HIDE DEF k
            <4>2. k * v[f] \in Nat
                BY <2>2, <4>1
            <4> QED BY <2>2, <4>1, <4>2
        <3> QED BY <3>1, <3>2
    <2>5. IsPositive(c) /\ DOMAIN c = D
        BY <2>4 DEF IsPositive, c
    <2>6. /\ T = v[big] + SumFunctionOnSet(v, E) /\ SumFunctionOnSet(v, E) \in Nat
          /\ IsFiniteSet(E) /\ Cardinality(E) = others
        <3>1. \A f \in D : v[f] \in Int /\ v[f] \in Nat
            BY <1>1
        <3> HIDE DEF D
        <3> QED BY <1>1, <1>2, <1>3, <3>1, SumSplits, SumOfNaturals DEF others
    <2>7. SumFunctionOnSet(c, E) = k * SumFunctionOnSet(v, E) + excess * others
        <3>1. \A f \in E : v[f] \in Int /\ c[f] \in Int /\ c[f] = k * v[f] + excess
            BY <1>1, <2>3, <2>4
        <3>2. k \in Int /\ excess \in Int
            BY <2>2
        <3> HIDE DEF E, k
        <3> QED BY ONLY <2>6, <3>1, <3>2, SumIsLinear
    <2>8. SumFunction(c) = c[big] + SumFunctionOnSet(c, E)
        <3>1. \A f \in D : c[f] \in Int
            BY <2>4
        <3>2. SumFunction(c) = SumFunctionOnSet(c, D)
            BY <2>5 DEF SumFunction
        <3> HIDE DEF D
        <3> QED BY <1>1, <1>2, <3>1, <3>2, SumSplits
\* The sum stays what it was, in the new unit.
    <2>9. SumFunction(c) = k * T
        <3>1. ASSUME NEW t \in Nat, NEW o \in Nat, NEW b \in Nat, NEW r \in Nat, t = b + r
              PROVE  11 * t * o + ((20 * o) * r + (20 * b - 11 * t) * o) = (20 * o) * t
            <4>1. (20 * b - 11 * t) * o = 20 * (b * o) - 11 * (t * o)
                OBVIOUS
            <4>2. t * o = b * o + r * o /\ 11 * t * o = 11 * (t * o) /\ (20 * o) * r = 20 * (r * o)
                BY <3>1
            <4>3. (20 * o) * t = 20 * (t * o) /\ {b * o, r * o, t * o} \subseteq Nat
                OBVIOUS
            <4> QED BY <4>1, <4>2, <4>3
        <3>2. v[big] \in Nat /\ T \in Nat
            BY <1>1, <1>2
        <3> HIDE DEF E
        <3>3. 11 * T * others + ((20 * others) * SumFunctionOnSet(v, E) + (20 * v[big] - 11 * T) * others)
                = (20 * others) * T
            BY ONLY <1>3, <2>6, <3>1, <3>2
        <3> QED BY <2>3, <2>7, <2>8, <3>3 DEF excess
    <2>10. ASSUME NEW f \in D, 20 * v[f] <= 11 * T
           PROVE  f # big /\ c[f] * T >= v[f] * SumFunction(c) /\ 20 * c[f] <= 11 * SumFunction(c)
        <3>1. f # big
            <4> HIDE DEF others
            <4> QED BY <1>5, <2>10
        <3>2. c[f] = k * v[f] + excess /\ v[f] \in Nat
            BY <1>1, <2>3, <3>1
        <3>3. ASSUME NEW t \in Nat, NEW x \in Nat, NEW y \in Nat, NEW e \in Nat
              PROVE  (y * x + e) * t >= x * (y * t)
            <4>1. (y * x + e) * t = x * (y * t) + e * t /\ e * t \in Nat /\ x * (y * t) \in Nat
                OBVIOUS
            <4> QED BY <4>1
        <3>4. c[f] * T >= v[f] * SumFunction(c)
            <4> HIDE DEF k
            <4> QED BY <1>1, <2>2, <2>9, <3>2, <3>3
        <3>5. v[f] <= SumFunctionOnSet(v, E)
            <4>1. \A g \in E : v[g] \in Nat
                BY <1>1
            <4>2. f \in E
                BY <3>1
            <4> HIDE DEF E
            <4> QED BY <2>6, <4>1, <4>2, SumOfNaturals
        <3>6. ASSUME NEW t \in Nat, NEW x \in Nat, NEW r \in Nat, NEW o \in Nat \ {0}, NEW b \in Nat,
                     t = b + r, x <= r, 20 * b > 11 * t
              PROVE  20 * ((20 * o) * x + (20 * b - 11 * t)) <= 11 * ((20 * o) * t)
            <4>1. 20 * r <= 9 * t /\ 20 * x <= 9 * t /\ 20 * b - 11 * t = 9 * t - 20 * r
                BY <3>6
            <4>2. CASE o = 1
                BY <3>6, <4>1, <4>2
            <4>3. CASE o # 1
                <5>1. o * (9 * t - 20 * x) >= 0 /\ o * (9 * t - 20 * x) = 9 * (o * t) - 20 * (o * x)
                    BY <3>6, <4>1
                <5>2. (o - 2) * t >= 0 /\ (o - 2) * t = o * t - 2 * t
                    BY <4>3
                <5>3. (20 * o) * x = 20 * (o * x) /\ (20 * o) * t = 20 * (o * t)
                      /\ o * x \in Nat /\ o * t \in Nat
                    OBVIOUS
                <5> QED BY <3>6, <4>1, <5>1, <5>2, <5>3
            <4> QED BY <4>2, <4>3
        <3>7. 20 * v[big] > 11 * T /\ v[big] \in Nat /\ T \in Nat
            BY <1>1, <1>2, <1>5
        <3> HIDE DEF E
        <3>8. 20 * ((20 * others) * v[f] + (20 * v[big] - 11 * T)) <= 11 * ((20 * others) * T)
            BY ONLY <2>2, <2>6, <3>2, <3>5, <3>6, <3>7
        <3> QED BY <2>9, <3>1, <3>2, <3>4, <3>8 DEF excess
    <2>11. ASSUME NEW f \in D, 20 * v[f] > 11 * T
           PROVE  20 * c[f] = 11 * SumFunction(c)
        <3>1. f = big
            <4>1. ASSUME f # big PROVE FALSE
                <5>1. \A g \in E : v[g] \in Nat
                    BY <1>1
                <5>2. f \in E
                    BY <4>1
                <5> HIDE DEF E
                <5>3. v[f] <= SumFunctionOnSet(v, E)
                    BY <2>6, <5>1, <5>2, SumOfNaturals
                <5>4. v[f] \in Nat /\ v[big] \in Nat /\ 20 * v[big] > 11 * T
                    BY <1>1, <1>2, <1>5
                <5> QED BY <1>1, <2>6, <2>11, <5>3, <5>4
            <4> QED BY <4>1
        <3>2. 20 * (11 * T * others) = 11 * ((20 * others) * T)
            BY <1>1, <1>3
        <3> QED BY <2>3, <2>9, <3>1, <3>2
    <2>12. ~(\A f \in D : 20 * v[f] <= 11 * T)
        BY <1>2, <1>5
    <2>13. \A f \in D : 20 * c[f] <= 11 * SumFunction(c)
        <3>1. \A f \in D : c[f] \in Nat /\ v[f] \in Nat
            BY <1>1, <2>4
        <3>2. SumFunction(c) \in Nat
            BY <1>1, <2>2, <2>9
        <3> HIDE DEF k
        <3> QED BY <1>1, <2>10, <2>11, <3>1, <3>2
    <2> HIDE DEF c
    <2> QED BY <2>1, <2>5, <2>10, <2>11, <2>12, <2>13 DEF T
<1> QED BY <1>4, <1>5

LEMMA DefaultSound ==
    /\ IsPositive(DefaultMix) /\ DOMAIN DefaultMix = {"article", "photo", "poll"}
    /\ SumFunction(DefaultMix) = 10
    /\ \A f \in DOMAIN DefaultMix : DefaultMix[f] \in 3 .. 4
    /\ IsFiniteSet(DOMAIN DefaultMix) /\ Cardinality(DOMAIN DefaultMix) = 3
<1> DEFINE D == {"article", "photo", "poll"}
           E == D \ {"article"}
           G == E \ {"photo"}
           H == G \ {"poll"}
<1>1. /\ DOMAIN DefaultMix = D /\ DefaultMix["article"] = 4 /\ DefaultMix["photo"] = 3
      /\ DefaultMix["poll"] = 3 /\ \A f \in D : DefaultMix[f] \in 3 .. 4
    BY DEF DefaultMix
<1>2. IsFiniteSet(D) /\ Cardinality(D) \in Nat
    <2>1. D \in SUBSET Formats
        BY DEF Formats
    <2> QED BY <2>1, FormatsAreFinite
<1>3. /\ IsFiniteSet(E) /\ IsFiniteSet(G) /\ \A f \in D : DefaultMix[f] \in Int
      /\ \A f \in E : DefaultMix[f] \in Int /\ \A g \in G : DefaultMix[g] \in Int
    <2>1. E \subseteq D /\ G \subseteq D
        OBVIOUS
    <2>2. \A f \in D : DefaultMix[f] \in Int
        BY <1>1
    <2> HIDE DEF D, E, G
    <2> QED BY <1>2, <2>1, <2>2, FS_Subset
<1>4. H = {} /\ "article" \in D /\ "photo" \in E /\ "poll" \in G
    OBVIOUS
<1>5. G \ {"poll"} = H /\ E \ {"photo"} = G /\ D \ {"article"} = E
    OBVIOUS
<1>6. IsPositive(DefaultMix)
    BY <1>1 DEF IsPositive, Formats
<1>7. SumFunction(DefaultMix) = SumFunctionOnSet(DefaultMix, D)
    BY <1>1 DEF SumFunction
<1> HIDE DEF D, E, G, H
<1>8. SumFunctionOnSet(DefaultMix, H) = 0
    BY <1>4, SumEquation, FS_EmptySet
<1>9. SumFunctionOnSet(DefaultMix, G) = 3 + 0
    BY <1>1, <1>3, <1>4, <1>5, <1>8, SumSplits
<1>10. SumFunctionOnSet(DefaultMix, E) = 3 + 3
    BY <1>1, <1>3, <1>4, <1>5, <1>9, SumSplits
<1>11. SumFunctionOnSet(DefaultMix, D) = 4 + 6
    BY <1>1, <1>3, <1>4, <1>5, <1>2, <1>10, SumSplits
<1>12. Cardinality(D) = 3
    <2>1. Cardinality(H) = 0
        BY <1>4, FS_EmptySet
    <2>2. Cardinality(G) = 1
        BY <1>3, <1>4, <1>5, <2>1, SmallerByOne
    <2>3. Cardinality(E) = 2
        BY <1>3, <1>4, <1>5, <2>2, SmallerByOne
    <2> QED BY <1>2, <1>3, <1>4, <1>5, <2>3, SmallerByOne
<1> QED BY <1>1, <1>2, <1>6, <1>7, <1>11, <1>12 DEF D

\* The formats that are in at all.
Positives(w) == [f \in {g \in DOMAIN w : w[g] > 0} |-> w[f]]

LEMMA VariedCases ==
    ASSUME NEW w, IsWeights(w)
    PROVE  LET v == Positives(w)
           IN  /\ DOMAIN v = {f \in DOMAIN w : w[f] > 0} /\ \A f \in DOMAIN v : v[f] = w[f]
               /\ DOMAIN v = {} => Varied(w) = DefaultMix
               /\ DOMAIN v # {} => /\ IsPositive(v) /\ Varied(w) = Capped(WithVisual(v))
                                   /\ SumFunction(v) = SumFunctionOnSet(w, DOMAIN w)
<1>1. /\ DOMAIN Positives(w) = {f \in DOMAIN w : w[f] > 0}
      /\ \A f \in DOMAIN Positives(w) : Positives(w)[f] = w[f]
    BY DEF Positives
<1>2. DOMAIN Positives(w) = {} => Varied(w) = DefaultMix
    BY DEF Varied, Positives
<1>3. ASSUME DOMAIN Positives(w) # {}
      PROVE  IsPositive(Positives(w)) /\ Varied(w) = Capped(WithVisual(Positives(w)))
    BY <1>1, <1>3 DEF Varied, Positives, IsPositive, IsWeights
<1>4. SumFunction(Positives(w)) = SumFunctionOnSet(w, DOMAIN w)
    <2>1. DOMAIN w \in SUBSET Formats /\ \A f \in DOMAIN w : w[f] \in Nat
        BY DEF IsWeights
    <2>2. IsFiniteSet(DOMAIN w) /\ IsFiniteSet(DOMAIN Positives(w))
        BY <1>1, <2>1, FormatsAreFinite, FS_Subset
    <2> DEFINE P == {f \in DOMAIN w : w[f] > 0}
    <2>3. SumFunctionOnSet(w, DOMAIN w) = SumFunctionOnSet(w, P)
        BY <2>1, <2>2, SumOfPositive
    <2>4. SumFunctionOnSet(w, P) = SumFunctionOnSet(Positives(w), P)
        <3>1. \A f \in P : w[f] = Positives(w)[f]
            BY <1>1
        <3>2. IsFiniteSet(P)
            BY <1>1, <2>2
        <3> HIDE DEF P
        <3> QED BY <3>1, <3>2, SumOfSame
    <2> QED BY <1>1, <2>3, <2>4 DEF SumFunction
<1> QED BY <1>1, <1>2, <1>3, <1>4

\* The mix has a visual format, and none above 55 % but a visual one that engages alone.
LEMMA VariedSound ==
    ASSUME NEW w, IsWeights(w), NEW k \in 3 .. 4, Cardinality(DOMAIN w) <= k
    PROVE  LET c == Varied(w)
           IN  /\ IsPositive(c) /\ DOMAIN c \cap Visual # {}
               /\ Cardinality(DOMAIN c) <= k + 1
               /\ (\E f \in DOMAIN w : w[f] > 0) => DOMAIN c \subseteq DOMAIN w \cup {"photo"}
               /\ Cardinality(DOMAIN c) > 1 => \A f \in DOMAIN c : 20 * c[f] <= 11 * SumFunction(c)
               /\ Cardinality(DOMAIN c) = 1 => \E f \in Visual : {g \in DOMAIN w : w[g] > 0} = {f}
<1> DEFINE v == Positives(w)
           c == Varied(w)
           u == WithVisual(v)
<1>0. DOMAIN v = {f \in DOMAIN w : w[f] > 0}
    BY VariedCases
<1> HIDE DEF v
<1>1. CASE DOMAIN v = {}
    <2>1. c = DefaultMix
        BY <1>1, VariedCases DEF v
    <2>2. ~\E f \in DOMAIN w : w[f] > 0
        BY <1>0, <1>1
    <2>3. \A f \in DOMAIN DefaultMix : 20 * DefaultMix[f] <= 11 * SumFunction(DefaultMix)
        BY DefaultSound
    <2>4. DOMAIN DefaultMix \cap Visual # {}
        BY DefaultSound DEF Visual
    <2>5. k \in Nat /\ 3 <= k + 1 /\ 3 > 1 /\ 3 # 1
        OBVIOUS
    <2> HIDE DEF c
    <2>6. /\ IsPositive(c) /\ DOMAIN c \cap Visual # {} /\ Cardinality(DOMAIN c) = 3
          /\ \A f \in DOMAIN c : 20 * c[f] <= 11 * SumFunction(c)
        BY <2>1, <2>3, <2>4, DefaultSound
    <2> QED BY <2>2, <2>5, <2>6 DEF c
<1>2. CASE DOMAIN v # {}
    <2>1. IsPositive(v) /\ c = Capped(u)
        BY <1>2, VariedCases DEF v
    <2> HIDE DEF c
    <2>2. IsPositive(u) /\ DOMAIN u \cap Visual # {} /\ DOMAIN u \subseteq DOMAIN v \cup {"photo"}
        BY <2>1, VisualSound
    <2>3. DOMAIN v \cap Visual = {} => DOMAIN u = DOMAIN v \cup {"photo"} /\ "photo" \notin DOMAIN v
        BY <2>1, VisualSound
    <2>4. DOMAIN v \cap Visual # {} => u = v
        BY <2>1, VisualSound
    <2> HIDE DEF u
    <2>5. /\ IsPositive(c) /\ DOMAIN c = DOMAIN u
          /\ Cardinality(DOMAIN u) > 1 => \A f \in DOMAIN c : 20 * c[f] <= 11 * SumFunction(c)
        BY <2>1, <2>2, CappedSound
    <2>6. IsFiniteSet(DOMAIN w) /\ IsFiniteSet(DOMAIN v) /\ Cardinality(DOMAIN v) <= k
        <3>1. DOMAIN w \in SUBSET Formats
            BY DEF IsWeights
        <3>2. IsFiniteSet(DOMAIN w) /\ Cardinality(DOMAIN w) \in Nat
            BY <3>1, FormatsAreFinite
        <3>3. IsFiniteSet(DOMAIN v) /\ Cardinality(DOMAIN v) <= Cardinality(DOMAIN w)
            BY <1>0, <3>2, FS_Subset
        <3>4. Cardinality(DOMAIN v) \in Nat
            BY <3>3, FS_CardinalityType
        <3> QED BY <3>2, <3>3, <3>4
    <2>7. Cardinality(DOMAIN u) <= k + 1
        <3>1. k \in Nat /\ Cardinality(DOMAIN v) \in Nat
            BY <2>6, FS_CardinalityType
        <3>2. CASE DOMAIN v \cap Visual = {}
            BY <2>3, <2>6, <3>1, <3>2, OneMore
        <3>3. CASE DOMAIN v \cap Visual # {}
            BY <2>4, <2>6, <3>1, <3>3
        <3> QED BY <3>2, <3>3
    <2>8. ASSUME Cardinality(DOMAIN u) = 1
          PROVE  \E f \in Visual : DOMAIN v = {f}
        <3>1. PICK f : DOMAIN u = {f}
            <4>1. IsFiniteSet(DOMAIN u)
                BY <2>2, TotalIsPositive
            <4> QED BY <2>8, <4>1, FS_Singleton
        <3>2. f \in Visual
            BY <2>2, <3>1
        <3>3. DOMAIN v \cap Visual # {}
            <4>1. ASSUME DOMAIN v \cap Visual = {} PROVE FALSE
                <5>1. DOMAIN v \cup {"photo"} = {f} /\ "photo" \notin DOMAIN v
                    BY <2>3, <3>1, <4>1
                <5>2. PICK g \in DOMAIN v : TRUE
                    BY <1>2
                <5> QED BY <5>1, <5>2
            <4> QED BY <4>1
        <3> QED BY <2>4, <3>1, <3>2, <3>3
    <2> QED BY <1>0, <2>2, <2>5, <2>7, <2>8 DEF c
<1> QED BY <1>1, <1>2

\* What the channel's profile and its rates may be.
IsProfile(shares, er, avg) ==
    /\ DOMAIN shares \subseteq Formats /\ Cardinality(DOMAIN shares) <= 3
    /\ \A f \in DOMAIN shares : shares[f] \in Nat \ {0}
    /\ DOMAIN er \subseteq Formats /\ \A f \in DOMAIN er : er[f] \in Nat
    /\ avg \in Int

LEMMA EngagingSound ==
    ASSUME NEW shares, NEW er, NEW avg, IsProfile(shares, er, avg)
    PROVE  LET w == Engaging(shares, er, avg)
           IN  IsWeights(w) /\ Cardinality(DOMAIN w) <= 3
<1> DEFINE base == IF DOMAIN shares = {} THEN DefaultMix ELSE shares
<1>1. IsPositive(base) /\ Cardinality(DOMAIN base) <= 3
    <2>1. DOMAIN shares # {} => IsPositive(shares) /\ Cardinality(DOMAIN shares) <= 3
        BY DEF IsProfile, IsPositive
    <2>2. IsPositive(DefaultMix) /\ Cardinality(DOMAIN DefaultMix) <= 3
        BY DefaultSound
    <2> QED BY <2>1, <2>2
<1>2. Engaging(shares, er, avg) = ByEngagement(base, er, avg)
    BY DEF Engaging
<1> HIDE DEF base
<1>3. CASE DOMAIN er = {} \/ avg <= 0
    BY <1>1, <1>2, <1>3 DEF ByEngagement, IsPositive, IsWeights
<1>4. CASE ~(DOMAIN er = {} \/ avg <= 0)
    <2> DEFINE rate(f) == IF f \in DOMAIN er THEN er[f] ELSE avg
               w == [f \in DOMAIN base |-> base[f] * rate(f)]
    <2>1. Engaging(shares, er, avg) = w
        BY <1>2, <1>4 DEF ByEngagement
    <2>2. \A f : rate(f) \in Nat
        BY <1>4 DEF IsProfile
    <2> HIDE DEF rate
    <2>3. \A f \in DOMAIN base : base[f] * rate(f) \in Nat
        <3>1. \A f \in DOMAIN base : base[f] \in Nat
            BY <1>1 DEF IsPositive
        <3> QED BY <2>2, <3>1
    <2>4. DOMAIN w = DOMAIN base /\ \A f \in DOMAIN w : w[f] \in Nat
        BY <2>3
    <2> HIDE DEF w
    <2> QED BY <1>1, <2>1, <2>4 DEF IsWeights, IsPositive
<1> QED BY <1>3, <1>4

\* The percentages of weights all of which are positive.
LEMMA PercentOfPositive ==
    ASSUME NEW c, IsPositive(c), NEW pcts, pcts = InPercent(c), NEW C, C = SumFunction(c),
           NEW n, n = Cardinality(DOMAIN c)
    PROVE  /\ DOMAIN pcts = DOMAIN c /\ C \in Nat \ {0} /\ n \in 1 .. 7
           /\ SumFunction(pcts) = 100
           /\ \E top \in DOMAIN c :
                 /\ \A f \in DOMAIN c \ {top} : pcts[f] = Round(c[f] * 100, C)
                 /\ pcts[top] = 100 - SumFunctionOnSet(pcts, DOMAIN c \ {top})
           /\ \A f \in DOMAIN c : /\ pcts[f] \in 0 .. 100
                                 /\ 2 * C * pcts[f] <= 200 * c[f] + C * (n - 1)
                                 /\ 200 * c[f] <= 2 * C * pcts[f] + C * (n - 1)
<1>1. IsWeights(c)
    BY DEF IsPositive, IsWeights
<1>2. \E f \in DOMAIN c : c[f] > 0
    BY DEF IsPositive
<1>3. {f \in DOMAIN c : c[f] > 0} = DOMAIN c
    BY DEF IsPositive
<1>4. DOMAIN c # {} /\ DOMAIN c = {f \in DOMAIN c : c[f] > 0}
    BY <1>2, <1>3
<1> QED BY <1>1, <1>4, PercentSound, SMTT(30)

\* Where polls were raised to two of five they keep 30 %, with a visual format added too.
LEMMA PollsSound ==
    ASSUME NEW a, IsWeights(a), Cardinality(DOMAIN a) <= 3
    PROVE  LET w == MorePolls(a)
           IN  /\ IsWeights(w) /\ DOMAIN w = DOMAIN a \cup {"poll"} /\ w["poll"] > 0
               /\ "poll" \in DOMAIN InPercent(Varied(w)) /\ InPercent(Varied(w))["poll"] >= 30
<1> DEFINE A == DOMAIN a \ {"poll"}
           o == SumFunctionOnSet(a, A)
           w == MorePolls(a)
           W == DOMAIN a \cup {"poll"}
           v == Positives(w)
           u == WithVisual(v)
           c == Varied(w)
           pcts == InPercent(c)
           C == SumFunction(c)
<1>1. /\ DOMAIN w = W /\ w["poll"] = 2 * AtLeast(o, 1)
      /\ \A f \in A : w[f] = 3 * a[f]
    BY DEF MorePolls
<1>2. /\ IsFiniteSet(DOMAIN a) /\ IsFiniteSet(A) /\ IsFiniteSet(W)
      /\ o \in Nat /\ \A f \in A : a[f] \in Nat /\ a[f] <= o
    <2>1. DOMAIN a \in SUBSET Formats /\ A \in SUBSET Formats /\ W \in SUBSET Formats
        BY DEF IsWeights, Formats
    <2>2. \A f \in A : a[f] \in Nat
        BY DEF IsWeights
    <2> QED BY <2>1, <2>2, FormatsAreFinite, SumOfNaturals
<1>3. A = W \ {"poll"} /\ "poll" \in W /\ "poll" \notin A
    OBVIOUS
<1> HIDE DEF w, o
<1>4. IsWeights(w) /\ w["poll"] \in Nat \ {0}
    <2>1. AtLeast(o, 1) \in Nat \ {0}
        BY <1>2 DEF AtLeast
    <2>2. w["poll"] \in Nat \ {0}
        BY <1>1, <2>1
    <2>3. \A f \in A : w[f] \in Nat
        BY <1>1, <1>2
    <2> QED BY <1>1, <1>3, <2>2, <2>3 DEF IsWeights, Formats
<1>5. /\ DOMAIN v = {f \in W : w[f] > 0} /\ \A f \in DOMAIN v : v[f] = w[f]
      /\ "poll" \in DOMAIN v /\ IsPositive(v) /\ c = Capped(u)
      /\ SumFunction(v) = SumFunctionOnSet(w, W)
    <2>1. /\ DOMAIN v = {f \in W : w[f] > 0} /\ \A f \in DOMAIN v : v[f] = w[f]
        BY <1>1, <1>4, VariedCases
    <2>2. "poll" \in DOMAIN v
        BY <1>3, <1>4, <2>1
    <2> HIDE DEF c, u
    <2> QED BY <1>1, <1>4, <2>1, <2>2, VariedCases DEF c, u
<1>6. SumFunction(v) = w["poll"] + 3 * o
    <2>1. \A f \in A : w[f] \in Int /\ a[f] \in Int /\ w[f] = 3 * a[f] + 0
        BY <1>1, <1>2
    <2>2. \A f \in W : w[f] \in Int
        BY <1>1, <1>4 DEF IsWeights
    <2> HIDE DEF A, W
    <2>3. SumFunctionOnSet(w, W) = w["poll"] + SumFunctionOnSet(w, A)
        BY <1>2, <1>3, <2>2, SumSplits
    <2>4. SumFunctionOnSet(w, A) = 3 * o
        <3>1. PICK p \in Int, q \in Int : p = 3 /\ q = 0
            OBVIOUS
        <3>2. /\ \A f \in A : a[f] \in Int /\ w[f] \in Int
              /\ \A f \in A : w[f] = p * a[f] + q
            BY <2>1, <3>1
        <3>3. SumFunctionOnSet(w, A) = p * SumFunctionOnSet(a, A) + q * Cardinality(A)
            BY ONLY <1>2, <3>2, p \in Int, q \in Int, SumIsLinear
        <3>4. Cardinality(A) \in Nat
            BY <1>2, FS_CardinalityType
        <3> QED BY <1>2, <3>1, <3>3, <3>4 DEF o
    <2> QED BY <1>5, <2>3, <2>4
<1> HIDE DEF v
<1>7. /\ IsPositive(u) /\ SumFunction(u) \in Nat \ {0}
      /\ DOMAIN v \cap Visual # {} => u = v
      /\ DOMAIN v \cap Visual = {} =>
            /\ "photo" \notin DOMAIN v /\ DOMAIN u = DOMAIN v \cup {"photo"}
            /\ u["photo"] = 3 * SumFunction(v)
            /\ \A f \in DOMAIN v : u[f] = 10 * v[f]
            /\ SumFunction(u) = 13 * SumFunction(v)
    <2>1. IsPositive(v)
        BY <1>5
    <2> QED BY <2>1, VisualSound, TotalIsPositive
<1> HIDE DEF u
<1>8. /\ IsPositive(c) /\ DOMAIN c = DOMAIN u /\ C \in Nat \ {0}
      /\ c["poll"] \in Nat /\ "poll" \in DOMAIN c /\ u["poll"] \in Nat
      /\ (\A f \in DOMAIN u : 20 * u[f] <= 11 * SumFunction(u)) => c = u
      /\ 20 * u["poll"] <= 11 * SumFunction(u) => c["poll"] * SumFunction(u) >= u["poll"] * C
      /\ Cardinality(DOMAIN u) > 1 /\ 20 * u["poll"] > 11 * SumFunction(u)
            => 20 * c["poll"] = 11 * C
    <2>1. "poll" \in DOMAIN u
        BY <1>5, <1>7
    <2> DEFINE cap == Capped(u)
    <2>2. /\ IsPositive(cap) /\ DOMAIN cap = DOMAIN u
          /\ (\A f \in DOMAIN u : 20 * u[f] <= 11 * SumFunction(u)) => cap = u
          /\ 20 * u["poll"] <= 11 * SumFunction(u)
                => cap["poll"] * SumFunction(u) >= u["poll"] * SumFunction(cap)
          /\ Cardinality(DOMAIN u) > 1 /\ 20 * u["poll"] > 11 * SumFunction(u)
                => 20 * cap["poll"] = 11 * SumFunction(cap)
        BY <1>7, <2>1, CappedSound
    <2>3. c = cap
        BY <1>5
    <2> HIDE DEF cap, c
    <2>4. SumFunction(c) \in Nat \ {0}
        BY <2>2, <2>3, TotalIsPositive
    <2>5. c["poll"] \in Nat /\ u["poll"] \in Nat
        BY <1>7, <2>1, <2>2, <2>3 DEF IsPositive
    <2> QED BY <2>1, <2>2, <2>3, <2>4, <2>5
<1> DEFINE n == Cardinality(DOMAIN c)
<1> HIDE DEF c
<1>9. /\ DOMAIN pcts = DOMAIN c /\ "poll" \in DOMAIN c
      /\ \E top \in DOMAIN c :
            /\ \A f \in DOMAIN c \ {top} : pcts[f] = Round(c[f] * 100, C)
            /\ pcts[top] = 100 - SumFunctionOnSet(pcts, DOMAIN c \ {top})
      /\ n \in 1 .. 7 /\ pcts["poll"] \in 0 .. 100
      /\ 200 * c["poll"] <= 2 * C * pcts["poll"] + C * (n - 1)
    <2>1. IsPositive(c)
        BY <1>8
    <2> HIDE DEF pcts, C, n
    <2> QED BY <1>8, <2>1, PercentOfPositive DEF pcts, C, n
<1> HIDE DEF pcts, C, n
<1> SUFFICES pcts["poll"] >= 30
    BY <1>1, <1>4, <1>9 DEF w, c, pcts
\* A share of the weights above s / 200, for n formats.
<1>10. ASSUME NEW s \in Nat, NEW m \in Nat, n - 1 <= m, s * C <= 200 * c["poll"]
       PROVE  s <= 2 * pcts["poll"] + m
    <2>1. ASSUME NEW t \in Nat \ {0}, NEW p \in Nat, NEW k \in Nat, NEW x \in Nat,
                 s * t <= x, x <= 2 * t * p + t * k, k <= m
          PROVE  s <= 2 * p + m
        <3>1. t * (s - 2 * p - k) <= 0 /\ t * (s - 2 * p - k) \in Int
            BY <2>1
        <3>2. s - 2 * p - k <= 0
            BY <2>1, <3>1
        <3> QED BY <2>1, <3>2
    <2>2. pcts["poll"] \in Nat /\ n - 1 \in Nat /\ 200 * c["poll"] \in Nat
        BY <1>8, <1>9
    <2>3. C \in Nat \ {0} /\ s * C <= 200 * c["poll"] /\ n - 1 <= m /\ s \in Nat /\ m \in Nat
        BY <1>8, <1>10
    <2>4. 200 * c["poll"] <= 2 * C * pcts["poll"] + C * (n - 1)
        BY <1>9
    <2> QED BY ONLY <2>1, <2>2, <2>3, <2>4
<1>11. CASE o = 0
    <2>1. DOMAIN v = {"poll"} /\ v["poll"] = 2 /\ SumFunction(v) = 2
        <3>1. w["poll"] = 2
            BY <1>1, <1>11 DEF AtLeast
        <3>2. \A f \in A : w[f] = 0
            BY <1>1, <1>2, <1>11
        <3> QED BY <1>3, <1>5, <1>6, <1>11, <3>1, <3>2
    <2>2. /\ DOMAIN u = {"poll", "photo"} /\ u["poll"] = 20 /\ SumFunction(u) = 26
        BY <1>7, <2>1 DEF Visual
    <2>3. Cardinality({"poll"} \cup {"photo"}) = 2 /\ {"poll"} \cup {"photo"} = {"poll", "photo"}
        <3>1. IsFiniteSet({"poll"}) /\ Cardinality({"poll"}) = 1
            BY FS_Singleton
        <3>2. "photo" \notin {"poll"}
            OBVIOUS
        <3> QED BY <3>1, <3>2, FS_AddElement
    <2>4. n = 2 /\ 20 * c["poll"] = 11 * C
        BY <1>8, <2>2, <2>3 DEF n
    <2>5. 109 <= 2 * pcts["poll"] + 1
        BY <1>8, <1>10, <2>4
    <2> QED BY <1>1, <1>4, <1>9, <2>5
<1>12. CASE o # 0 /\ DOMAIN v \cap Visual # {}
    <2>1. u = v /\ v["poll"] = 2 * o /\ SumFunction(v) = 5 * o
        BY <1>1, <1>2, <1>5, <1>6, <1>7, <1>12 DEF AtLeast
    <2>2. 20 * u["poll"] <= 11 * SumFunction(u)
        BY <1>2, <2>1
    <2>3. c["poll"] * (5 * o) >= (2 * o) * C
        BY <1>8, <2>1, <2>2
    <2>4. 5 * c["poll"] >= 2 * C
        <3>1. ASSUME NEW q \in Nat, NEW x \in Nat, NEW t \in Nat, q # 0, x * (5 * q) >= (2 * q) * t
              PROVE  5 * x >= 2 * t
            <4>1. q * (5 * x - 2 * t) >= 0
                BY <3>1
            <4> QED BY <3>1, <4>1
        <3> QED BY <1>2, <1>8, <1>12, <2>3, <3>1
    <2>5. n - 1 <= 3
        <3>1. Cardinality(DOMAIN a \cup {"poll"}) <= 3 + 1
            BY <1>2, OneMore
        <3>2. DOMAIN c \subseteq W
            BY <1>5, <1>8, <2>1
        <3>3. Cardinality(DOMAIN c) <= Cardinality(W) /\ Cardinality(W) \in Nat
            BY <1>2, <3>2, FS_Subset, FS_CardinalityType
        <3> QED BY <1>9, <3>1, <3>3 DEF n
    <2>6. 80 <= 2 * pcts["poll"] + 3
        <3>1. 80 * C <= 200 * c["poll"]
            BY <1>8, <2>4
        <3> QED BY <1>10, <2>5, <3>1
    <2> QED BY <1>1, <1>4, <1>9, <2>6
<1>13. CASE o # 0 /\ DOMAIN v \cap Visual = {}
    <2>1. w["poll"] = 2 * o /\ v["poll"] = 2 * o /\ SumFunction(v) = 5 * o /\ o \in Nat \ {0}
        BY <1>1, <1>2, <1>5, <1>6, <1>13 DEF AtLeast
    <2>2. /\ "photo" \notin DOMAIN v /\ DOMAIN u = DOMAIN v \cup {"photo"}
          /\ u["poll"] = 20 * o /\ u["photo"] = 15 * o /\ SumFunction(u) = 65 * o
        BY <1>5, <1>7, <1>13, <2>1
    <2>3. \A f \in DOMAIN v \ {"poll"} : u[f] \in Nat /\ u[f] <= 30 * o
        <3>1. ASSUME NEW f \in DOMAIN v \ {"poll"} PROVE u[f] \in Nat /\ u[f] <= 30 * o
            <4>1. f \in A /\ v[f] = 3 * a[f] /\ a[f] \in Nat /\ a[f] <= o
                BY <1>1, <1>2, <1>5
            <4>2. u[f] = 10 * v[f]
                BY <1>7, <1>13
            <4> QED BY <2>1, <4>1, <4>2
        <3> QED BY <3>1
    <2>4. c = u
        <3>1. \A f \in DOMAIN u : 20 * u[f] <= 11 * SumFunction(u)
            <4>1. ASSUME NEW f \in DOMAIN u PROVE 20 * u[f] <= 11 * (65 * o)
                <5>1. f = "poll" \/ f = "photo" \/ f \in DOMAIN v \ {"poll"}
                    BY <2>2
                <5> QED BY <2>1, <2>2, <2>3, <5>1
            <4> QED BY <2>2, <4>1
        <3> QED BY <1>8, <3>1
    <2>5. C = 65 * o
        BY <2>2, <2>4 DEF C
    <2>6. PICK top \in DOMAIN c :
            /\ \A f \in DOMAIN c \ {top} : pcts[f] = Round(c[f] * 100, C)
            /\ pcts[top] = 100 - SumFunctionOnSet(pcts, DOMAIN c \ {top})
        BY <1>9
    <2>7. CASE top # "poll"
        <3>1. pcts["poll"] = Round((20 * o) * 100, 65 * o)
            BY <1>8, <2>2, <2>4, <2>5, <2>6, <2>7
        <3>2. (20 * o) * 100 \in Nat /\ 65 * o \in Nat \ {0}
            BY <2>1
        <3>3. PICK x \in Nat, y \in Nat \ {0} : x = (20 * o) * 100 /\ y = 65 * o
            BY <3>2
        <3>4. 2 * x <= 2 * y * pcts["poll"] + y
            <4>1. pcts["poll"] = Round(x, y)
                BY <3>1, <3>3
            <4> QED BY <4>1, RoundIsNear
        <3>5. ASSUME NEW q \in Nat \ {0}, NEW p \in Nat,
                     2 * ((20 * q) * 100) <= 2 * (65 * q) * p + 65 * q
              PROVE  p >= 30
            <4>1. q * (4000 - 130 * p - 65) <= 0 /\ q * (4000 - 130 * p - 65) \in Int
                BY <3>5
            <4>2. 4000 - 130 * p - 65 <= 0
                BY <3>5, <4>1
            <4> QED BY <4>2
        <3>6. pcts["poll"] \in Nat
            BY <1>9
        <3> QED BY <1>1, <1>4, <1>9, <2>1, <3>3, <3>4, <3>5, <3>6
    <2>8. CASE top = "poll"
        <3> DEFINE R == DOMAIN c \ {"poll"}
                   E == R \ {"photo"}
        <3>1. \A f \in R : pcts[f] = Round(c[f] * 100, C) /\ c[f] \in Nat
            BY <1>8, <2>6, <2>8 DEF IsPositive
        <3>2. /\ IsFiniteSet(DOMAIN c) /\ "poll" \in DOMAIN c /\ "photo" \in R
              /\ IsFiniteSet(R) /\ IsFiniteSet(E) /\ E \subseteq A
            <4>1. IsFiniteSet(DOMAIN c)
                BY <1>8, TotalIsPositive
            <4>2. DOMAIN c = DOMAIN v \cup {"photo"} /\ DOMAIN v \subseteq W
                BY <1>5, <2>2, <2>4
            <4>3. "photo" \in R /\ E \subseteq A
                BY <4>2
            <4> QED BY <1>8, <4>1, <4>3, FS_Subset
        <3>3. c["poll"] = 20 * o /\ c["photo"] = 15 * o /\ \A f \in DOMAIN c : c[f] \in Nat
            BY <1>8, <2>2, <2>4 DEF IsPositive
        <3>4. SumFunctionOnSet(c, E) = 30 * o
            <4>1. C = SumFunctionOnSet(c, DOMAIN c)
                BY DEF C, SumFunction
            <4>2. \A f \in DOMAIN c : c[f] \in Int
                BY <3>3
            <4>3. \A f \in R : c[f] \in Int
                BY <3>3
            <4>4. C = c["poll"] + SumFunctionOnSet(c, R)
                BY <3>2, <4>1, <4>2, SumSplits
            <4> HIDE DEF R
            <4>5. SumFunctionOnSet(c, R) = c["photo"] + SumFunctionOnSet(c, E)
                BY <3>2, <4>3, SumSplits
            <4>6. \A f \in E : c[f] \in Nat
                BY <3>1
            <4> HIDE DEF E
            <4>7. SumFunctionOnSet(c, E) \in Nat
                BY <3>2, <4>6, SumOfNaturals
            <4> QED BY <2>1, <2>5, <3>3, <4>4, <4>5, <4>7
        <3>5. PICK y \in Nat \ {0} : y = C
            BY <1>8
        <3>6. \A f \in R : /\ pcts[f] \in Nat
                           /\ 2 * y * pcts[f] <= 2 * (c[f] * 100) + y
            <4>1. ASSUME NEW f \in R
                  PROVE  pcts[f] \in Nat /\ 2 * y * pcts[f] <= 2 * (c[f] * 100) + y
                <5>1. PICK x \in Nat : x = c[f] * 100
                    BY <3>1
                <5>2. pcts[f] = Round(x, y)
                    BY <3>1, <3>5, <5>1
                <5> QED BY <5>1, <5>2, RoundIsNear
            <4> QED BY <4>1
        <3>7. pcts["photo"] \in Nat /\ pcts["photo"] <= 23
            <4>1. 2 * y * pcts["photo"] <= 2 * (c["photo"] * 100) + y /\ pcts["photo"] \in Nat
                BY <3>2, <3>6
            <4>2. ASSUME NEW q \in Nat \ {0}, NEW p \in Nat,
                         2 * (65 * q) * p <= 2 * ((15 * q) * 100) + 65 * q
                  PROVE  p <= 23
                <5>1. q * (3000 + 65 - 130 * p) >= 0 /\ q * (3000 + 65 - 130 * p) \in Int
                    BY <4>2
                <5>2. 3000 + 65 - 130 * p >= 0
                    BY <4>2, <5>1
                <5> QED BY <5>2
            <4> QED BY <2>1, <2>5, <3>3, <3>5, <4>1, <4>2
        <3>8. Cardinality(E) \in 0 .. 3
            <4>1. Cardinality(E) <= Cardinality(DOMAIN a) /\ Cardinality(DOMAIN a) \in Nat
                <5>1. E \subseteq DOMAIN a
                    BY <3>2
                <5> HIDE DEF E
                <5> QED BY <1>2, <5>1, FS_Subset, FS_CardinalityType
            <4>2. Cardinality(E) \in Nat
                BY <3>2, FS_CardinalityType
            <4> HIDE DEF E
            <4> QED BY <4>1, <4>2
        <3>9. SumFunctionOnSet(pcts, E) \in Nat /\ SumFunctionOnSet(pcts, E) <= 47
            <4>1. PICK x \in Int, e \in Int : x = 2 * y /\ e = 200
                OBVIOUS
            <4>2. \A f \in E : pcts[f] \in Int /\ c[f] \in Int /\ x * pcts[f] <= e * c[f] + y
                <5>1. \A f \in R : pcts[f] \in Int /\ c[f] \in Int /\ x * pcts[f] <= e * c[f] + y
                    BY <3>1, <3>6, <4>1
                <5> QED BY <5>1
            <4>3. \A f \in E : pcts[f] \in Nat
                BY <3>6
            <4> HIDE DEF E, R
            <4>4. x * SumFunctionOnSet(pcts, E) <= e * SumFunctionOnSet(c, E) + y * Cardinality(E)
                <5>1. IsFiniteSet(E) /\ y \in Int
                    BY <3>2
                <5> QED BY ONLY <4>2, <5>1, x \in Int, e \in Int, SumIsBounded, Zenon
            <4>5. SumFunctionOnSet(pcts, E) \in Nat
                BY <3>2, <4>3, SumOfNaturals
            <4>6. ASSUME NEW q \in Nat \ {0}, NEW p \in Nat, NEW m \in 0 .. 3,
                         (2 * (65 * q)) * p <= 200 * (30 * q) + (65 * q) * m
                  PROVE  p <= 47
                <5>1. q * (6000 + 65 * m - 130 * p) >= 0 /\ q * (6000 + 65 * m - 130 * p) \in Int
                    BY <4>6
                <5>2. 6000 + 65 * m - 130 * p >= 0
                    BY <4>6, <5>1
                <5> QED BY <4>6, <5>2
            <4> QED BY <2>1, <2>5, <3>4, <3>5, <3>8, <4>1, <4>4, <4>5, <4>6
        <3>10. SumFunctionOnSet(pcts, R) = pcts["photo"] + SumFunctionOnSet(pcts, E)
            <4>1. \A f \in R : pcts[f] \in Int
                BY <3>6
            <4> HIDE DEF R
            <4> QED BY <3>2, <4>1, SumSplits
        <3>11. pcts["poll"] = 100 - SumFunctionOnSet(pcts, R)
            BY <2>6, <2>8
        <3> HIDE DEF R, E
        <3>12. pcts["poll"] >= 30
            BY <3>7, <3>9, <3>10, <3>11
        <3> QED BY <1>1, <1>4, <1>9, <3>12
    <2> QED BY <2>7, <2>8
<1> QED BY <1>11, <1>12, <1>13

LEMMA ContentSound ==
    ASSUME NEW shares, NEW er, NEW avg, IsProfile(shares, er, avg),
           NEW content, content = ContentMix(shares, er, avg)
    PROVE  /\ DOMAIN content \subseteq Formats /\ DOMAIN content \cap Visual # {}
           /\ Cardinality(DOMAIN content) <= 5
           /\ SumFunction(content) = 100 /\ \A f \in DOMAIN content : content[f] \in 0 .. 100
           /\ \/ \A f \in DOMAIN content : content[f] <= 57
              \/ /\ avg \notin 0 .. 29
                 /\ LET a == Engaging(shares, er, avg)
                    IN  \E f \in Visual : {g \in DOMAIN a : a[g] > 0} = {f}
           /\ avg \in 0 .. 29 => "poll" \in DOMAIN content /\ content["poll"] >= 30
<1> DEFINE a == Engaging(shares, er, avg)
           w == IF avg \in 0 .. 29 THEN MorePolls(a) ELSE a
           k == IF avg \in 0 .. 29 THEN 4 ELSE 3
           c == Varied(w)
<1>1. content = InPercent(c)
    BY DEF ContentMix
<1>2. IsWeights(a) /\ Cardinality(DOMAIN a) <= 3
    BY EngagingSound
<1> HIDE DEF a
<1>3. avg \in 0 .. 29 =>
        /\ IsWeights(w) /\ DOMAIN w = DOMAIN a \cup {"poll"} /\ w["poll"] > 0
        /\ "poll" \in DOMAIN content /\ content["poll"] >= 30
    BY <1>1, <1>2, PollsSound
<1>4. IsWeights(w) /\ Cardinality(DOMAIN w) <= k
    <2>1. CASE avg \in 0 .. 29
        <3>1. IsFiniteSet(DOMAIN a)
            <4>1. DOMAIN a \in SUBSET Formats
                BY <1>2 DEF IsWeights
            <4> QED BY <4>1, FormatsAreFinite
        <3>2. Cardinality(DOMAIN a \cup {"poll"}) <= 3 + 1
            BY <1>2, <3>1, OneMore
        <3> QED BY <1>3, <2>1, <3>2
    <2>2. CASE avg \notin 0 .. 29
        BY <1>2, <2>2
    <2> QED BY <2>1, <2>2
<1>5. k \in 3 .. 4
    OBVIOUS
<1> HIDE DEF w, k
<1>6. /\ IsPositive(c) /\ DOMAIN c \cap Visual # {} /\ Cardinality(DOMAIN c) <= k + 1
      /\ Cardinality(DOMAIN c) > 1 => \A f \in DOMAIN c : 20 * c[f] <= 11 * SumFunction(c)
      /\ Cardinality(DOMAIN c) = 1 => \E f \in Visual : {g \in DOMAIN w : w[g] > 0} = {f}
    BY <1>4, <1>5, VariedSound
<1> DEFINE C == SumFunction(c)
           n == Cardinality(DOMAIN c)
<1> HIDE DEF c
<1>7. /\ DOMAIN content = DOMAIN c /\ C \in Nat \ {0} /\ n \in 1 .. 7
      /\ SumFunction(content) = 100
      /\ \A f \in DOMAIN c : /\ content[f] \in 0 .. 100
                             /\ 2 * C * content[f] <= 200 * c[f] + C * (n - 1)
    <2> HIDE DEF C, n
    <2> QED BY <1>1, <1>6, PercentOfPositive DEF C, n
<1>8. ASSUME n > 1
      PROVE  \A f \in DOMAIN content : content[f] <= 57
    <2>1. ASSUME NEW x \in Nat \ {0}, NEW p \in Nat, NEW y \in Nat, NEW m \in 0 .. 4,
                 2 * x * p <= 200 * y + x * m, 20 * y <= 11 * x
          PROVE  p <= 57
        <3>1. x * (110 + m - 2 * p) >= 0 /\ x * (110 + m - 2 * p) \in Int
            BY <2>1
        <3>2. 110 + m - 2 * p >= 0
            BY <2>1, <3>1
        <3> QED BY <2>1, <3>2
    <2>2. n - 1 \in 0 .. 4
        BY <1>5, <1>6, <1>7
    <2>3. \A f \in DOMAIN c : c[f] \in Nat /\ 20 * c[f] <= 11 * C
        BY <1>6, <1>8 DEF IsPositive
    <2> HIDE DEF C, n
    <2> QED BY <1>7, <2>1, <2>2, <2>3
<1>9. ASSUME n = 1
      PROVE  avg \notin 0 .. 29 /\ \E f \in Visual : {g \in DOMAIN a : a[g] > 0} = {f}
    <2>1. PICK f \in Visual : {g \in DOMAIN w : w[g] > 0} = {f}
        BY <1>6, <1>9
    <2>2. avg \notin 0 .. 29
        <3>1. ASSUME avg \in 0 .. 29 PROVE FALSE
            <4>1. "poll" \in {g \in DOMAIN w : w[g] > 0}
                BY <1>3, <3>1
            <4> QED BY <2>1, <4>1 DEF Visual
        <3> QED BY <3>1
    <2> QED BY <2>1, <2>2 DEF w
<1>10. DOMAIN content \subseteq Formats
    BY <1>6, <1>7 DEF IsPositive
<1>11. n <= 5
    BY <1>5, <1>6, <1>7
<1>12. n = 1 \/ n > 1
    BY <1>7
<1> QED BY <1>3, <1>6, <1>7, <1>8, <1>9, <1>10, <1>11, <1>12 DEF a

\* The boost leaves polls a quarter and no format more than 63 %.
LEMMA BoostedSound ==
    ASSUME NEW content, DOMAIN content \subseteq Formats, DOMAIN content # {},
           Cardinality(DOMAIN content) <= 5, SumFunction(content) = 100,
           \A f \in DOMAIN content : content[f] \in 0 .. 100,
           NEW fmt \in Formats, NEW m, m = Boosted(content, fmt)
    PROVE  /\ DOMAIN m \subseteq Formats /\ DOMAIN m # {} /\ SumFunction(m) = 100
           /\ \A f \in DOMAIN m : m[f] \in 0 .. 100
           /\ \A f \in DOMAIN content : content[f] > 0 => f \in DOMAIN m
           /\ (\A f \in DOMAIN content : content[f] <= 57) => \A f \in DOMAIN m : m[f] <= 63
           /\ \A f \in DOMAIN content : content[f] >= 30 => m[f] >= 25
<1> DEFINE F == DOMAIN content
           W == F \cup {fmt}
           w == [f \in W |-> (IF f \in F THEN content[f] ELSE 0) + (IF f = fmt THEN 12 ELSE 0)]
           D == {f \in W : w[f] > 0}
           n == Cardinality(D)
<1>1. m = InPercent(w)
    BY DEF Boosted
<1>2. /\ DOMAIN w = W /\ fmt \in W
      /\ \A f \in F : f # fmt => w[f] = content[f]
      /\ w[fmt] = IF fmt \in F THEN content[fmt] + 12 ELSE 12
      /\ \A f \in W : w[f] \in Nat
    OBVIOUS
<1>3. /\ IsFiniteSet(F) /\ IsFiniteSet(W) /\ IsFiniteSet(D) /\ W \subseteq Formats
      /\ Cardinality(F) \in Nat /\ Cardinality(D) \in Nat
      /\ Cardinality(D) <= Cardinality(W) /\ Cardinality(W) \in Nat
    <2>1. F \in SUBSET Formats /\ W \in SUBSET Formats /\ D \in SUBSET Formats
        OBVIOUS
    <2>2. D \subseteq W
        OBVIOUS
    <2> HIDE DEF F, W, D
    <2> QED BY <2>1, <2>2, FormatsAreFinite, FS_Subset
<1>4. D = {f \in DOMAIN w : w[f] > 0} /\ \A f \in D : f \in W
    BY <1>2
<1>5. SumFunctionOnSet(content, F) = 100
    BY DEF SumFunction
<1> HIDE DEF w
<1>6. SumFunctionOnSet(w, W) = 112
    <2>1. \A f \in F : content[f] \in Int
        OBVIOUS
    <2>2. \A f \in W : w[f] \in Int
        BY <1>2
    <2> DEFINE E == F \ {fmt}
    <2>3. E = W \ {fmt} /\ IsFiniteSet(E) /\ \A f \in E : content[f] = w[f] /\ content[f] \in Int
        BY <1>2, <1>3, FS_Subset
    <2> HIDE DEF W, F
    <2>4. SumFunctionOnSet(w, W) = w[fmt] + SumFunctionOnSet(w, E)
        BY <1>2, <1>3, <2>2, <2>3, SumSplits
    <2>5. fmt \in F => SumFunctionOnSet(content, F) = content[fmt] + SumFunctionOnSet(content, E)
        BY <1>3, <2>1, SumSplits
    <2>6. fmt \notin F => E = F
        OBVIOUS
    <2> HIDE DEF E
    <2>7. /\ SumFunctionOnSet(content, E) = SumFunctionOnSet(w, E)
          /\ SumFunctionOnSet(content, E) \in Int
        BY <2>3, SumOfSame, SumSplits
    <2> QED BY <1>2, <1>5, <2>1, <2>4, <2>5, <2>6, <2>7
<1>7. SumFunction(w) = 112
    BY <1>2, <1>6 DEF SumFunction
<1>8. /\ n <= 6
      /\ fmt \in F => n <= 5
    <2>1. Cardinality(F \cup {fmt}) <= 5 + 1
        <3>1. Cardinality(F) <= 5 /\ 5 \in Nat
            OBVIOUS
        <3> HIDE DEF F
        <3> QED BY ONLY <1>3, <3>1, OneMore
    <2>2. fmt \in F => W = F
        OBVIOUS
    <2> HIDE DEF F, D
    <2>3. fmt \in F => Cardinality(W) <= 5
        BY <2>2 DEF F
    <2> HIDE DEF W
    <2>4. Cardinality(W) <= 6
        BY <2>1 DEF W
    <2> QED BY <1>3, <2>3, <2>4
<1>9. D # {}
    BY <1>2, <1>5
<1>10. IsWeights(w)
    BY <1>2, <1>3 DEF IsWeights
<1> HIDE DEF D
<1>11. /\ DOMAIN m = D /\ SumFunction(m) = 100 /\ n \in 1 .. 7
       /\ \A f \in D : /\ m[f] \in 0 .. 100
                       /\ 2 * 112 * m[f] <= 200 * w[f] + 112 * (n - 1)
                       /\ 200 * w[f] <= 2 * 112 * m[f] + 112 * (n - 1)
    <2> HIDE DEF n
    <2>1. PICK total : total = 112
        OBVIOUS
    <2>2. total = SumFunction(w)
        BY <1>7, <2>1
    <2>3. /\ DOMAIN m = D /\ SumFunction(m) = 100 /\ n \in 1 .. 7
          /\ \A f \in D : /\ m[f] \in 0 .. 100
                          /\ 2 * total * m[f] <= 200 * w[f] + total * (n - 1)
                          /\ 200 * w[f] <= 2 * total * m[f] + total * (n - 1)
        BY <1>1, <1>4, <1>9, <1>10, <2>2, PercentSound DEF n
    <2> QED BY <2>1, <2>3
<1> HIDE DEF n
<1>12. ASSUME NEW f \in D, \A g \in F : content[g] <= 57
       PROVE  m[f] <= 63
    <2>1. f \in F \/ f = fmt
        BY <1>4
    <2>2. w[f] <= IF fmt \in F THEN 69 ELSE 57
        BY <1>2, <1>12, <2>1
    <2>3. w[f] \in Nat
        BY <1>2, <1>4
    <2> HIDE DEF F
    <2> QED BY <1>8, <1>11, <2>2, <2>3
<1>14. DOMAIN m \subseteq Formats /\ DOMAIN m # {} /\ \A f \in DOMAIN m : m[f] \in 0 .. 100
    BY <1>3, <1>4, <1>9, <1>11
<1>15. (\A f \in F : content[f] <= 57) => \A f \in DOMAIN m : m[f] <= 63
    <2> HIDE DEF F
    <2> QED BY <1>11, <1>12
<1>13. ASSUME NEW f \in F
       PROVE  w[f] \in Nat /\ w[f] >= content[f] /\ content[f] \in Nat /\ f \in W
    BY <1>2
<1>16. ASSUME NEW f \in F, content[f] > 0
       PROVE  f \in DOMAIN m
    <2>1. w[f] > 0 /\ f \in W
        <3> HIDE DEF F, W
        <3> QED BY <1>13, <1>16
    <2> QED BY <1>11, <2>1 DEF D
<1>18. ASSUME NEW f \in F, content[f] >= 30
       PROVE  m[f] >= 25
    <2>1. w[f] \in Nat /\ w[f] >= 30 /\ f \in W
        <3> HIDE DEF F, W
        <3> QED BY <1>13, <1>18
    <2>2. f \in D
        BY <2>1 DEF D
    <2> HIDE DEF F
    <2> QED BY <1>8, <1>11, <2>1, <2>2
<1>17. SumFunction(m) = 100
    BY <1>11
<1> QED BY <1>14, <1>15, <1>16, <1>17, <1>18

LEMMA DealsMixSound ==
    /\ SumFunction(DealsMix) = 100 /\ DOMAIN DealsMix = {"photo", "link"}
    /\ \A f \in DOMAIN DealsMix : DealsMix[f] \in 0 .. 100
<1>1. /\ DOMAIN DealsMix = {"photo", "link"} /\ DealsMix["photo"] = 75 /\ DealsMix["link"] = 25
    BY DEF DealsMix
<1> DEFINE D == {"photo", "link"}
           E == D \ {"photo"}
           H == E \ {"link"}
<1>2. IsFiniteSet(D) /\ IsFiniteSet(E)
    <2>1. D \in SUBSET Formats /\ E \in SUBSET Formats
        BY DEF Formats
    <2> QED BY <2>1, FormatsAreFinite
<1>3. /\ H = {} /\ "photo" \in D /\ "link" \in E
      /\ \A f \in D : DealsMix[f] \in 0 .. 100
      /\ \A f \in D : DealsMix[f] \in Int
      /\ \A f \in E : DealsMix[f] \in Int
    BY <1>1
<1>4. E \ {"link"} = H /\ D \ {"photo"} = E
    OBVIOUS
<1>5. SumFunction(DealsMix) = SumFunctionOnSet(DealsMix, D)
    BY <1>1 DEF SumFunction
<1>6. \A f \in DOMAIN DealsMix : DealsMix[f] \in 0 .. 100
    BY <1>1
<1> HIDE DEF D, E, H
<1>7. SumFunctionOnSet(DealsMix, H) = 0
    BY <1>3, SumEquation, FS_EmptySet
<1>8. SumFunctionOnSet(DealsMix, E) = 25 + 0
    BY <1>1, <1>2, <1>3, <1>4, <1>7, SumSplits
<1>9. SumFunctionOnSet(DealsMix, D) = 75 + 25
    BY <1>1, <1>2, <1>3, <1>4, <1>8, SumSplits
<1> QED BY <1>1, <1>5, <1>6, <1>9

\* What MixIsVaried says of the mix that is inferred from what was read.
LEMMA MixSound ==
    ASSUME PlanningAssumption, NEW in \in Inputs, NEW m, m = MixOf(in),
           NEW content, content = ContentMix(in.shares, in.erBy, in.er)
    PROVE  /\ DOMAIN m \subseteq Formats /\ DOMAIN m # {} /\ SumFunction(m) = 100
           /\ \A f \in DOMAIN m : m[f] \in 0 .. 100
           /\ \/ DOMAIN m \cap Visual # {}
              \/ IsBoosted(in) /\ \A f \in DOMAIN content \cap Visual : content[f] = 0
           /\ ~in.deals /\ ~IsMonotonous(in) =>
                  \A f \in DOMAIN m : m[f] <= IF IsBoosted(in) THEN 63 ELSE 57
           /\ ~in.deals /\ in.er \in 0 .. 29 => m["poll"] >= 25
<1>1. IsProfile(in.shares, in.erBy, in.er)
    BY DEF PlanningAssumption, IsProfile
<1> DEFINE varied == \A f \in DOMAIN content : content[f] <= 57
<1>2. /\ DOMAIN content \subseteq Formats /\ DOMAIN content \cap Visual # {}
      /\ Cardinality(DOMAIN content) <= 5
      /\ SumFunction(content) = 100 /\ \A f \in DOMAIN content : content[f] \in 0 .. 100
      /\ varied \/ IsMonotonous(in)
      /\ in.er \in 0 .. 29 => "poll" \in DOMAIN content /\ content["poll"] >= 30
    BY <1>1, ContentSound DEF IsMonotonous
<1>3. CASE in.deals
    <2>1. m = DealsMix
        BY <1>3 DEF MixOf
    <2> QED BY <1>3, <2>1, DealsMixSound DEF Visual, Formats
<1>4. CASE ~in.deals /\ ~IsBoosted(in)
    <2>1. m = content
        BY <1>4 DEF MixOf
    <2> HIDE DEF varied
    <2>2. varied => \A f \in DOMAIN content : content[f] <= 57
        BY DEF varied
    <2> QED BY <1>2, <1>4, <2>1, <2>2
<1>5. CASE ~in.deals /\ IsBoosted(in)
    <2> DEFINE fmt == TopFormat(in.erBy)
    <2>1. m = Boosted(content, fmt)
        BY <1>5 DEF MixOf
    <2>2. fmt \in Formats
        <3> DEFINE rates == in.erBy
        <3>1. /\ DOMAIN rates # {} /\ DOMAIN rates \in SUBSET Formats
              /\ \A f \in DOMAIN rates : rates[f] \in Int
            BY <1>1, <1>5 DEF IsBoosted, IsProfile
        <3>2. fmt = CHOOSE f \in DOMAIN rates : \A g \in DOMAIN rates : rates[g] <= rates[f]
            BY DEF TopFormat
        <3>3. IsFiniteSet(DOMAIN rates)
            BY <3>1, FormatsAreFinite
        <3> HIDE DEF rates, fmt
        <3>4. PICK S : S = DOMAIN rates
            OBVIOUS
        <3>5. fmt \in S
            BY <3>1, <3>2, <3>3, <3>4, GreatestWeight
        <3> QED BY <3>1, <3>4, <3>5
    <2> HIDE DEF fmt, varied
    <2>3. /\ DOMAIN m \subseteq Formats /\ DOMAIN m # {} /\ SumFunction(m) = 100
          /\ \A f \in DOMAIN m : m[f] \in 0 .. 100
          /\ \A f \in DOMAIN content : content[f] > 0 => f \in DOMAIN m
          /\ varied => \A f \in DOMAIN m : m[f] <= 63
          /\ \A f \in DOMAIN content : content[f] >= 30 => m[f] >= 25
        <3>1. DOMAIN content # {}
            BY <1>2
        <3> QED BY <1>2, <2>1, <2>2, <3>1, BoostedSound DEF varied
    <2>4. DOMAIN m \cap Visual = {} => \A f \in DOMAIN content \cap Visual : content[f] = 0
        <3>1. \A f \in DOMAIN content : content[f] = 0 \/ content[f] > 0
            BY <1>2
        <3> QED BY <2>3, <3>1
    <2> QED BY <1>2, <1>5, <2>3, <2>4
<1> QED BY <1>3, <1>4, <1>5

-----------------------------------------------------------------------------
(***************************************************************************)
(* Names that are interleaved.  The occurrences of all of them are in a    *)
(* chain, so each has a place of its own.                                  *)
(***************************************************************************)
Names == {SortedNames[i] : i \in 1 .. 9}

Occurrence(counts, x, i) == [name |-> x, i |-> i, n |-> counts[x]]

Occurrences(counts) ==
    UNION {{Occurrence(counts, x, i) : i \in 1 .. counts[x]} : x \in DOMAIN counts}

IsCounts(counts) ==
    /\ DOMAIN counts \subseteq Names /\ IsFiniteSet(DOMAIN counts)
    /\ \A x \in DOMAIN counts : counts[x] \in Nat

LEMMA NamesSound ==
    /\ Formats \subseteq Names /\ {"Amazon", "Flipkart"} \subseteq Names
    /\ \A x \in Names : NamePlace(x) \in 1 .. 9
    /\ \A x, y \in Names : NamePlace(x) = NamePlace(y) => x = y
<1>1. DOMAIN SortedNames = 1 .. 9
    BY DEF SortedNames
<1>2. {"Amazon", "Flipkart"} \subseteq Names
    <2>1. SortedNames[1] = "Amazon" /\ SortedNames[2] = "Flipkart"
        BY DEF SortedNames
    <2>2. 1 \in 1 .. 9 /\ 2 \in 1 .. 9
        OBVIOUS
    <2> QED BY <2>1, <2>2 DEF Names
<1>3. Formats \subseteq Names
    <2>1. /\ SortedNames[3] = "article" /\ SortedNames[4] = "link" /\ SortedNames[5] = "meme"
          /\ SortedNames[6] = "photo" /\ SortedNames[7] = "poll" /\ SortedNames[8] = "text"
          /\ SortedNames[9] = "video"
        BY DEF SortedNames
    <2>2. {3, 4, 5, 6, 7, 8, 9} \subseteq 1 .. 9
        OBVIOUS
    <2> QED BY <2>1, <2>2 DEF Names, Formats
<1>4. \A x \in Names : NamePlace(x) \in 1 .. 9 /\ SortedNames[NamePlace(x)] = x
    BY <1>1 DEF Names, NamePlace
<1> QED BY <1>2, <1>3, <1>4

\* Before says which of two occurrences comes first.
LEMMA BeforeMeans ==
    ASSUME NEW counts, NEW x, NEW i, NEW y, NEW j
    PROVE  Before(Occurrence(counts, x, i), Occurrence(counts, y, j)) <=>
             \/ (2 * i - 1) * counts[y] < (2 * j - 1) * counts[x]
             \/ /\ (2 * i - 1) * counts[y] = (2 * j - 1) * counts[x]
                /\ NamePlace(x) < NamePlace(y)
BY DEF Before, Occurrence

LEMMA OccurrencesAre ==
    ASSUME NEW counts, IsCounts(counts)
    PROVE  /\ IsFiniteSet(Occurrences(counts))
           /\ \A o \in Occurrences(counts) :
                 /\ o.name \in DOMAIN counts /\ o.i \in 1 .. counts[o.name]
                 /\ o = Occurrence(counts, o.name, o.i)
           /\ \A x \in DOMAIN counts : \A i \in 1 .. counts[x] :
                 /\ Occurrence(counts, x, i) \in Occurrences(counts)
                 /\ Occurrence(counts, x, i).name = x /\ Occurrence(counts, x, i).i = i
<1> DEFINE of(x) == {Occurrence(counts, x, i) : i \in 1 .. counts[x]}
<1>1. ASSUME NEW x \in DOMAIN counts
      PROVE  IsFiniteSet(of(x))
    <2>1. IsFiniteSet(1 .. counts[x])
        <3>1. counts[x] \in Int /\ 1 \in Int
            BY DEF IsCounts
        <3> QED BY <3>1, FS_Interval
    <2> DEFINE g == [i \in 1 .. counts[x] |-> Occurrence(counts, x, i)]
    <2>2. \A i \in 1 .. counts[x] : g[i] = Occurrence(counts, x, i)
        OBVIOUS
    <2>3. {g[i] : i \in 1 .. counts[x]} = of(x)
        BY <2>2
    <2> HIDE DEF g
    <2> QED BY <2>1, <2>3, ImageFinite
<1>2. IsFiniteSet({of(x) : x \in DOMAIN counts})
    <2> HIDE DEF of
    <2> DEFINE g == [x \in DOMAIN counts |-> of(x)]
    <2>1. \A x \in DOMAIN counts : g[x] = of(x)
        OBVIOUS
    <2>2. {g[x] : x \in DOMAIN counts} = {of(x) : x \in DOMAIN counts}
        BY <2>1
    <2>3. IsFiniteSet(DOMAIN counts)
        BY DEF IsCounts
    <2> HIDE DEF g
    <2> QED BY <2>2, <2>3, ImageFinite
<1>3. IsFiniteSet(Occurrences(counts))
    <2>1. Occurrences(counts) = UNION {of(x) : x \in DOMAIN counts}
        BY DEF Occurrences
    <2>2. \A T \in {of(x) : x \in DOMAIN counts} : IsFiniteSet(T)
        BY <1>1
    <2> HIDE DEF of
    <2> QED BY <1>2, <2>1, <2>2, FS_UNION
<1>4. ASSUME NEW o \in Occurrences(counts)
      PROVE  /\ o.name \in DOMAIN counts /\ o.i \in 1 .. counts[o.name]
             /\ o = Occurrence(counts, o.name, o.i)
    <2>1. PICK x \in DOMAIN counts : \E i \in 1 .. counts[x] : o = Occurrence(counts, x, i)
        BY DEF Occurrences
    <2>2. PICK i \in 1 .. counts[x] : o = Occurrence(counts, x, i)
        BY <2>1
    <2> QED BY <2>2 DEF Occurrence
<1>5. ASSUME NEW x \in DOMAIN counts, NEW i \in 1 .. counts[x]
      PROVE  /\ Occurrence(counts, x, i) \in Occurrences(counts)
             /\ Occurrence(counts, x, i).name = x /\ Occurrence(counts, x, i).i = i
    BY DEF Occurrences, Occurrence
<1> QED BY <1>3, <1>4, <1>5

\* Of two different occurrences one is first, and what is before the first is before the second.
LEMMA BeforeIsOrder ==
    ASSUME NEW counts, IsCounts(counts)
    PROVE  /\ \A o \in Occurrences(counts) : ~Before(o, o)
           /\ \A o, p, q \in Occurrences(counts) : Before(o, p) /\ Before(p, q) => Before(o, q)
           /\ \A o, p \in Occurrences(counts) : o # p => Before(o, p) \/ Before(p, o)
<1> DEFINE at(o) == 2 * o.i - 1
           left(o, p) == at(o) * p.n
<1>1. ASSUME NEW o \in Occurrences(counts)
      PROVE  /\ o.name \in Names /\ NamePlace(o.name) \in Int /\ at(o) \in Int
             /\ o.n \in Nat \ {0} /\ o.n = counts[o.name] /\ o.i \in Int
             /\ o = Occurrence(counts, o.name, o.i)
    <2>1. /\ o.name \in DOMAIN counts /\ o.i \in 1 .. counts[o.name]
          /\ o = Occurrence(counts, o.name, o.i)
        BY OccurrencesAre
    <2>2. counts[o.name] \in Nat /\ o.name \in Names
        BY <2>1 DEF IsCounts
    <2>3. o.n = counts[o.name]
        BY <2>1 DEF Occurrence
    <2> QED BY <2>1, <2>2, <2>3, NamesSound
<1>2. \A o, p : Before(o, p) <=> \/ left(o, p) < left(p, o)
                                 \/ left(o, p) = left(p, o) /\ NamePlace(o.name) < NamePlace(p.name)
    BY DEF Before
<1>3. ASSUME NEW o \in Occurrences(counts), NEW p \in Occurrences(counts)
      PROVE  left(o, p) \in Int
    BY <1>1
<1>4. ASSUME NEW o \in Occurrences(counts)
      PROVE  ~Before(o, o)
    <2> HIDE DEF left
    <2> QED BY <1>1, <1>2, <1>3
<1>5. ASSUME NEW o \in Occurrences(counts), NEW p \in Occurrences(counts),
             NEW q \in Occurrences(counts), Before(o, p), Before(p, q)
      PROVE  Before(o, q)
    <2>1. left(o, p) <= left(p, o) /\ left(p, q) <= left(q, p)
        <3>1. left(o, p) \in Int /\ left(p, o) \in Int /\ left(p, q) \in Int /\ left(q, p) \in Int
            BY <1>3
        <3> HIDE DEF left
        <3> QED BY <1>2, <1>5, <3>1
    <2>2. /\ left(o, q) <= left(q, o)
          /\ left(o, q) = left(q, o) => left(o, p) = left(p, o) /\ left(p, q) = left(q, p)
        <3>1. /\ at(o) \in Int /\ at(p) \in Int /\ at(q) \in Int
              /\ o.n \in Nat \ {0} /\ p.n \in Nat \ {0} /\ q.n \in Nat \ {0}
            BY <1>1
        <3>2. at(o) * p.n <= at(p) * o.n /\ at(p) * q.n <= at(q) * p.n
            BY <2>1
        <3> HIDE DEF at
        <3>3. PICK a \in Int, b \in Int, c \in Int, k \in Nat \ {0}, l \in Nat \ {0}, m \in Nat \ {0} :
                /\ a = at(o) /\ b = at(p) /\ c = at(q)
                /\ k = o.n /\ l = p.n /\ m = q.n
            BY ONLY <3>1
        <3>4. /\ a * m <= c * k
              /\ a * m = c * k => a * l = b * k /\ b * m = c * l
            <4>1. a * l <= b * k /\ b * m <= c * l
                BY <3>2, <3>3
            <4>2. /\ (a * l) * m = (a * m) * l /\ (b * k) * m = (b * m) * k
                  /\ (c * l) * k = (c * k) * l
                OBVIOUS
            <4>3. {a * l, b * k, b * m, c * l, a * m, c * k} \subseteq Int
                OBVIOUS
            <4>4. ASSUME NEW x \in Int, NEW y \in Int, NEW z \in Nat, x <= y
                  PROVE  x * z <= y * z
                BY <4>4
            <4>5. ASSUME NEW x \in Int, NEW y \in Int, NEW z \in Nat \ {0}, x * z <= y * z
                  PROVE  x <= y
                <5>1. (y - x) * z >= 0 /\ (y - x) * z \in Int
                    BY <4>5
                <5> QED BY <4>5, <5>1
            <4>6. (a * l) * m <= (b * k) * m /\ (b * m) * k <= (c * l) * k
                BY <4>1, <4>3, <4>4
            <4>7. {(a * m) * l, (b * m) * k, (c * k) * l} \subseteq Int
                OBVIOUS
            <4>8. (a * m) * l <= (c * k) * l
                BY <4>2, <4>6, <4>7
            <4>9. a * m <= c * k
                BY <4>3, <4>5, <4>8
            <4>10. ASSUME a * m = c * k
                   PROVE  a * l = b * k /\ b * m = c * l
                <5>1. (a * l) * m = (b * k) * m /\ (b * m) * k = (c * l) * k
                    BY <4>2, <4>6, <4>7, <4>10
                <5>2. (b * k) * m <= (a * l) * m /\ (c * l) * k <= (b * m) * k
                    BY <4>2, <4>7, <5>1
                <5>3. b * k <= a * l /\ c * l <= b * m
                    BY <4>3, <4>5, <5>2
                <5> QED BY <4>1, <4>3, <5>3
            <4> QED BY <4>9, <4>10
        <3> QED BY <3>3, <3>4
    <2>3. left(o, q) \in Int /\ left(q, o) \in Int
        BY <1>3
    <2>4. NamePlace(o.name) \in Int /\ NamePlace(p.name) \in Int /\ NamePlace(q.name) \in Int
        BY <1>1
    <2>5. left(o, p) \in Int /\ left(p, o) \in Int /\ left(p, q) \in Int /\ left(q, p) \in Int
        BY <1>3
    <2> HIDE DEF left
    <2> QED BY <1>2, <1>5, <2>2, <2>3, <2>4, <2>5
<1>6. ASSUME NEW o \in Occurrences(counts), NEW p \in Occurrences(counts),
             ~Before(o, p), ~Before(p, o)
      PROVE  o = p
    <2>1. left(o, p) = left(p, o) /\ NamePlace(o.name) = NamePlace(p.name)
        <3>1. /\ left(o, p) \in Int /\ left(p, o) \in Int
              /\ NamePlace(o.name) \in Int /\ NamePlace(p.name) \in Int
            BY <1>1, <1>3
        <3> HIDE DEF left
        <3> QED BY <1>2, <1>6, <3>1
    <2>2. o.name = p.name
        BY <1>1, <2>1, NamesSound
    <2>3. at(o) * p.n = at(p) * o.n /\ o.n = p.n
        BY <1>1, <2>1, <2>2
    <2>4. ASSUME NEW x \in Int, NEW y \in Int, NEW k \in Nat \ {0}, (2 * x - 1) * k = (2 * y - 1) * k
          PROVE  x = y
        <3>1. (2 * x - 1 - (2 * y - 1)) * k = 0
            BY <2>4
        <3> QED BY <3>1
    <2>5. o.i = p.i
        <3>1. (2 * o.i - 1) * o.n = (2 * p.i - 1) * o.n
            BY <2>3
        <3>2. o.i \in Int /\ p.i \in Int /\ o.n \in Nat \ {0}
            BY <1>1
        <3> QED BY <2>4, <3>1, <3>2, Zenon
    <2> QED BY <1>1, <2>2, <2>5
<1> HIDE DEF left
<1> QED BY <1>4, <1>5, <1>6

\* Each occurrence has a place, in the order of the chain, and each place one.
LEMMA InterleavedSound ==
    ASSUME NEW counts, IsCounts(counts), NEW s, s = Interleaved(counts),
           NEW all, all = Occurrences(counts), NEW N, N = Cardinality(all)
    PROVE  /\ N \in Nat /\ DOMAIN s = 1 .. N /\ Len(s) = N
           /\ \E place \in [all -> 1 .. N] :
                 /\ \A o \in all : s[place[o]] = o.name
                 /\ \A r \in 1 .. N : \E o \in all : place[o] = r
                 /\ \A o, p \in all : Before(o, p) <=> place[o] < place[p]
<1> DEFINE ahead == [o \in all |-> {p \in all : Before(p, o)}]
           place == [o \in all |-> Cardinality({p \in all : Before(p, o)}) + 1]
<1>1. /\ IsFiniteSet(all) /\ N \in Nat
      /\ \A o \in all : ~Before(o, o)
      /\ \A o, p, q \in all : Before(o, p) /\ Before(p, q) => Before(o, q)
      /\ \A o, p \in all : o # p => Before(o, p) \/ Before(p, o)
    BY OccurrencesAre, BeforeIsOrder, FS_CardinalityType
<1>2. /\ ahead \in [all -> SUBSET all]
      /\ \A o \in all : o \notin ahead[o]
      /\ \A o, p \in all : Before(o, p) => ahead[o] \cup {o} \subseteq ahead[p]
    BY <1>1
<1>3. \A o, p \in all : o # p => \/ ahead[o] \cup {o} \subseteq ahead[p]
                                 \/ ahead[p] \cup {p} \subseteq ahead[o]
    BY <1>1, <1>2
<1>4. \A o \in all : place[o] = Cardinality(ahead[o]) + 1
    OBVIOUS
<1>5. s = [r \in 1 .. N |-> (CHOOSE o \in all : place[o] = r).name]
    BY DEF Interleaved, Occurrences, Occurrence
<1> HIDE DEF ahead, place
<1>6. /\ \A o \in all : Cardinality(ahead[o]) \in 0 .. N - 1
      /\ \A o, p \in all : Cardinality(ahead[o]) = Cardinality(ahead[p]) => o = p
      /\ \A i \in 0 .. N - 1 : \E o \in all : Cardinality(ahead[o]) = i
    BY <1>1, <1>2, <1>3, ChainRanks
<1>7. /\ \A o \in all : place[o] \in 1 .. N
      /\ \A o, p \in all : place[o] = place[p] => o = p
    BY <1>1, <1>4, <1>6
<1>8. \A r \in 1 .. N : \E o \in all : place[o] = r
    <2>1. ASSUME NEW r \in 1 .. N PROVE \E o \in all : place[o] = r
        <3>1. r - 1 \in 0 .. N - 1
            BY <1>1
        <3>2. PICK o \in all : Cardinality(ahead[o]) = r - 1
            BY <1>6, <3>1
        <3> QED BY <1>1, <1>4, <3>2
    <2> QED BY <2>1
<1>9. \A o, p \in all : Before(o, p) => place[o] < place[p]
    <2>1. ASSUME NEW o \in all, NEW p \in all, Before(o, p)
          PROVE  place[o] < place[p]
        <3>1. ahead[o] \in SUBSET ahead[p] /\ ahead[o] # ahead[p] /\ IsFiniteSet(ahead[p])
            <4>1. ahead[p] \in SUBSET all /\ ahead[o] \cup {o} \subseteq ahead[p] /\ o \notin ahead[o]
                BY <1>2, <2>1
            <4>2. IsFiniteSet(ahead[p])
                BY <1>1, <4>1, FS_Subset
            <4> QED BY <4>1, <4>2
        <3>2. Cardinality(ahead[o]) < Cardinality(ahead[p])
            <4>1. /\ Cardinality(ahead[o]) <= Cardinality(ahead[p])
                  /\ Cardinality(ahead[o]) # Cardinality(ahead[p])
                BY <3>1, FS_Subset
            <4> QED BY <1>6, <4>1
        <3> QED BY <1>4, <1>6, <3>2
    <2> QED BY <2>1
<1>10. \A o, p \in all : place[o] < place[p] => Before(o, p)
    <2>1. ASSUME NEW o \in all, NEW p \in all, place[o] < place[p], ~Before(o, p)
          PROVE  FALSE
        <3>1. place[o] \in Int /\ place[p] \in Int
            BY <1>7
        <3>2. o # p
            BY <2>1, <3>1
        <3>3. place[p] < place[o]
            BY <1>1, <1>9, <2>1, <3>2
        <3> QED BY <2>1, <3>1, <3>3
    <2> QED BY <2>1
<1>11. /\ place \in [all -> 1 .. N]
       /\ \A o \in all : s[place[o]] = o.name
    <2>1. place = [o \in all |-> place[o]]
        BY DEF place
    <2>2. ASSUME NEW o \in all PROVE s[place[o]] = o.name
        <3>1. (CHOOSE p \in all : place[p] = place[o]) = o
            BY <1>7
        <3>2. s[place[o]] = (CHOOSE p \in all : place[p] = place[o]).name
            BY <1>5, <1>7
        <3> QED BY <3>1, <3>2
    <2> QED BY <1>7, <2>1, <2>2
<1>12. DOMAIN s = 1 .. N /\ Len(s) = N
    <2>1. DOMAIN s = 1 .. N
        BY <1>5
    <2>2. s = [r \in 1 .. N |-> s[r]]
        BY <1>5
    <2> QED BY <1>1, <2>1, <2>2
<1> QED BY <1>1, <1>8, <1>9, <1>10, <1>11, <1>12

\* Of a name that comes at least as often, some occurrence lies between any two of another,
\* and some after any one or the first before any one: of the next turn.
LEMMA TurnsAreTaken ==
    ASSUME NEW counts, IsCounts(counts), NEW f \in DOMAIN counts, NEW g \in DOMAIN counts,
           f # g, counts[f] <= counts[g], NEW p \in 1 .. counts[f], NEW r \in 1 .. counts[f]
    PROVE  /\ p < r => \E q \in 1 .. counts[g] :
                           /\ Before(Occurrence(counts, f, p), Occurrence(counts, g, q))
                           /\ Before(Occurrence(counts, g, q), Occurrence(counts, f, r))
           /\ \/ \E q \in 1 .. counts[g] : Before(Occurrence(counts, f, p), Occurrence(counts, g, q))
              \/ Before(Occurrence(counts, g, 1), Occurrence(counts, f, r))
<1>1. PICK k \in Nat \ {0}, l \in Nat \ {0}, a \in Int, b \in Int :
        k = counts[f] /\ l = counts[g] /\ k <= l /\ a = NamePlace(f) /\ b = NamePlace(g) /\ a # b
    <2>1. counts[f] \in Nat \ {0} /\ counts[g] \in Nat \ {0}
        BY DEF IsCounts
    <2>2. NamePlace(f) \in Int /\ NamePlace(g) \in Int /\ NamePlace(f) # NamePlace(g)
        BY NamesSound DEF IsCounts
    <2> QED BY <2>1, <2>2
<1> DEFINE After(q) == \/ (2 * p - 1) * l < (2 * q - 1) * k
                       \/ (2 * p - 1) * l = (2 * q - 1) * k /\ a < b
           Ahead(q, x) == \/ (2 * q - 1) * k < (2 * x - 1) * l
                          \/ (2 * q - 1) * k = (2 * x - 1) * l /\ b < a
<1>2. /\ \A q : Before(Occurrence(counts, f, p), Occurrence(counts, g, q)) <=> After(q)
      /\ \A q, x : Before(Occurrence(counts, g, q), Occurrence(counts, f, x)) <=> Ahead(q, x)
    BY <1>1, BeforeMeans
<1>3. p \in 1 .. k /\ r \in 1 .. k /\ counts[g] = l
    BY <1>1
<1>4. ASSUME p < r
      PROVE  \E q \in 1 .. l : After(q) /\ Ahead(q, r)
    <2> DEFINE T == {q \in 1 .. l : After(q)}
    <2>1. l \in T
        <3>1. (2 * p - 1) * l <= (2 * k - 3) * l
            <4>1. (2 * k - 3 - (2 * p - 1)) * l >= 0
                BY <1>1, <1>3, <1>4
            <4> QED BY <1>1, <1>3, <4>1
        <3>2. (2 * k - 3) * l < (2 * l - 1) * k
            BY <1>1
        <3> QED BY <1>1, <1>3, <3>1, <3>2
    <2>2. PICK q \in T : \A x \in T : q <= x
        <3> HIDE DEF After
        <3>1. T \in SUBSET Nat /\ T # {}
            BY <2>1
        <3> HIDE DEF T
        <3> QED BY <3>1, LeastElement
    <2>3. q \in 1 .. l /\ After(q)
        BY <2>2
    <2>4. (2 * p + 1) * l <= (2 * r - 1) * l
        <3>1. (2 * r - 1 - (2 * p + 1)) * l >= 0
            BY <1>1, <1>3, <1>4
        <3> QED BY <1>1, <1>3, <3>1
    <2>5. CASE q = 1
        <3>1. k < (2 * p + 1) * l
            <4>1. (2 * p) * l > 0
                BY <1>1, <1>3
            <4>2. (2 * p + 1) * l = (2 * p) * l + l
                BY <1>1, <1>3
            <4> QED BY <1>1, <1>3, <4>1, <4>2
        <3>2. Ahead(q, r)
            BY <1>1, <1>3, <2>4, <2>5, <3>1
        <3> HIDE DEF After, Ahead
        <3> QED BY <2>3, <3>2
    <2>6. CASE q # 1
        <3>1. q - 1 \in 1 .. l /\ q - 1 \notin T
            <4> HIDE DEF T, After
            <4> QED BY <1>1, <2>2, <2>3, <2>6
        <3>2. ~After(q - 1)
            BY <3>1
        <3>3. (2 * q - 3) * k <= (2 * p - 1) * l /\ ((2 * q - 3) * k = (2 * p - 1) * l => b < a)
            <4>1. 2 * (q - 1) - 1 = 2 * q - 3
                BY <2>3
            <4>2. (2 * q - 3) * k \in Int /\ (2 * p - 1) * l \in Int
                BY <1>1, <1>3, <2>3
            <4> QED BY <1>1, <3>2, <4>1, <4>2
        <3>4. (2 * q - 1) * k = (2 * q - 3) * k + 2 * k /\ (2 * p + 1) * l = (2 * p - 1) * l + 2 * l
            BY <1>1, <1>3, <2>3
        <3>5. /\ (2 * q - 1) * k \in Int /\ (2 * r - 1) * l \in Int /\ (2 * q - 3) * k \in Int
              /\ (2 * p - 1) * l \in Int
            BY <1>1, <1>3, <2>3
        <3>6. Ahead(q, r)
            BY <1>1, <2>4, <3>3, <3>4, <3>5
        <3> HIDE DEF After, Ahead
        <3> QED BY <2>3, <3>6
    <2> QED BY <2>5, <2>6
<1>5. ASSUME ~After(l)
      PROVE  Ahead(1, r)
    <2>1. (2 * l - 1) * k <= (2 * p - 1) * l /\ ((2 * l - 1) * k = (2 * p - 1) * l => b < a)
        BY <1>1, <1>3, <1>5
    <2>2. (2 * p - 1) * l <= (2 * k - 1) * l
        <3>1. (2 * k - 1 - (2 * p - 1)) * l >= 0
            BY <1>1, <1>3
        <3> QED BY <1>1, <1>3, <3>1
    <2>3. (2 * l - 1) * k = 2 * (k * l) - k /\ (2 * k - 1) * l = 2 * (k * l) - l /\ k * l \in Int
        BY <1>1
    <2>a. (2 * l - 1) * k \in Int /\ (2 * p - 1) * l \in Int /\ (2 * k - 1) * l \in Int
        BY <1>1, <1>3
    <2>b. l <= k
        BY <1>1, <2>1, <2>2, <2>3, <2>a
    <2>c. k = l
        BY <1>1, <2>b
    <2>4. k = l /\ b < a
        <3>1. (2 * l - 1) * k = (2 * k - 1) * l
            BY <1>1, <2>3, <2>c
        <3>2. (2 * l - 1) * k = (2 * p - 1) * l
            BY ONLY <2>1, <2>2, <2>a, <3>1
        <3> QED BY <2>1, <2>c, <3>2
    <2>5. l <= (2 * r - 1) * l
        <3>1. (2 * r - 2) * l >= 0 /\ (2 * r - 1) * l = (2 * r - 2) * l + l
            BY <1>1, <1>3
        <3> QED BY <1>1, <1>3, <3>1
    <2>6. (2 * r - 1) * l \in Int
        BY <1>1, <1>3
    <2> QED BY <1>1, <2>4, <2>5, <2>6
<1>6. l \in 1 .. l
    BY <1>1
<1> HIDE DEF After, Ahead
<1> QED BY <1>2, <1>3, <1>4, <1>5, <1>6

LEMMA TurnsAreCounts ==
    ASSUME NEW m, DOMAIN m \subseteq Formats, \A f \in DOMAIN m : m[f] \in Nat
    PROVE  /\ IsCounts(Turns(m)) /\ DOMAIN Turns(m) = DOMAIN m
           /\ \A f \in DOMAIN m : Turns(m)[f] \in Nat \ {0}
<1>1. ASSUME NEW f \in DOMAIN m
      PROVE  AtLeast(Round(m[f], 10), 1) \in Nat \ {0}
    <2>1. Round(m[f], 10) \in Nat
        BY RoundIsNear
    <2> QED BY <2>1 DEF AtLeast
<1>2. DOMAIN Turns(m) = DOMAIN m /\ \A f \in DOMAIN m : Turns(m)[f] \in Nat \ {0}
    BY <1>1 DEF Turns
<1>3. DOMAIN m \subseteq Names /\ IsFiniteSet(DOMAIN m)
    <2>1. DOMAIN m \in SUBSET Formats
        OBVIOUS
    <2> QED BY <2>1, NamesSound, FormatsAreFinite
<1> QED BY <1>2, <1>3 DEF IsCounts

LEMMA Division ==
    ASSUME NEW k \in Nat, NEW L \in Nat \ {0}
    PROVE  \E a \in Nat : \E x \in 1 .. L : a = k \div L /\ x = (k % L) + 1 /\ k = a * L + x - 1
<1> DEFINE q == k \div L
           m == k % L
<1>1. q \in Nat /\ m \in 0 .. L - 1 /\ k = L * q + m
    OBVIOUS
<1> HIDE DEF q, m
<1>2. m + 1 \in 1 .. L /\ k = q * L + (m + 1) - 1
    BY <1>1
<1> QED BY <1>1, <1>2 DEF q, m

\* Turn t of a cycle has what is at place r of it.
LEMMA InTurn ==
    ASSUME NEW L \in Nat \ {0}, NEW t \in Nat, NEW r \in 1 .. L, NEW y \in Nat \ {0},
           y = t * L + r
    PROVE  ((y - 1) % L) + 1 = r
<1>1. PICK k \in Nat : k = y - 1
    OBVIOUS
<1>2. PICK a \in Nat : \E x \in 1 .. L : a = k \div L /\ x = (k % L) + 1 /\ k = a * L + x - 1
    BY Division
<1>3. PICK x \in 1 .. L : x = (k % L) + 1 /\ k = a * L + x - 1
    BY <1>2
<1>4. a * L + x = t * L + r
    <2>1. PICK v \in Int, w \in Int : v = a * L /\ w = t * L
        OBVIOUS
    <2> QED BY <1>1, <1>3, <2>1
<1>5. x = r
    BY <1>4, Lexicographic
<1> QED BY <1>1, <1>3, <1>5

LEMMA ContentTakesTurns ==
    ASSUME NEW m, DOMAIN m \subseteq Formats, DOMAIN m # {}, \A f \in DOMAIN m : m[f] \in Nat,
           NEW plan, NEW n, Follows(plan, n, FormatCycle(m))
    PROVE  /\ \A i \in 1 .. n : plan[i].format \in DOMAIN m
           /\ \A i, j \in 1 .. n, g \in DOMAIN m :
                 /\ i < j /\ plan[i].format = plan[j].format
                 /\ Turns(m)[g] >= Turns(m)[plan[i].format]
                 => \E k \in i .. j : plan[k].format = g
<1> DEFINE counts == Turns(m)
           all == Occurrences(counts)
           cycle == FormatCycle(m)
           L == Cardinality(all)
           Occ(x, i) == Occurrence(counts, x, i)
<1>1. /\ IsCounts(counts) /\ DOMAIN counts = DOMAIN m
      /\ \A f \in DOMAIN m : counts[f] \in Nat \ {0}
    BY TurnsAreCounts
<1> HIDE DEF counts
<1>2. cycle = Interleaved(counts)
    BY DEF FormatCycle, counts
<1>0. Follows(plan, n, cycle)
    BY DEF cycle
<1> HIDE DEF cycle
<1>3. /\ L \in Nat /\ Len(cycle) = L
      /\ \E place \in [all -> 1 .. L] :
            /\ \A o \in all : cycle[place[o]] = o.name
            /\ \A r \in 1 .. L : \E o \in all : place[o] = r
            /\ \A o, p \in all : Before(o, p) <=> place[o] < place[p]
    <2> HIDE DEF all
    <2> QED BY <1>1, <1>2, InterleavedSound DEF all
<1>4. PICK place \in [all -> 1 .. L] :
            /\ \A o \in all : cycle[place[o]] = o.name
            /\ \A r \in 1 .. L : \E o \in all : place[o] = r
            /\ \A o, p \in all : Before(o, p) <=> place[o] < place[p]
    BY <1>3
<1>5. /\ \A o \in all : /\ o.name \in DOMAIN m /\ o.i \in 1 .. counts[o.name]
                        /\ o = Occ(o.name, o.i)
      /\ \A x \in DOMAIN m : \A i \in 1 .. counts[x] : Occ(x, i) \in all /\ Occ(x, i).name = x
    BY <1>1, OccurrencesAre
<1> HIDE DEF all
<1>6. L \in Nat \ {0}
    <2>1. PICK f \in DOMAIN m : TRUE
        OBVIOUS
    <2>2. 1 \in 1 .. counts[f]
        BY <1>1
    <2>3. place[Occ(f, 1)] \in 1 .. L
        BY <1>4, <1>5, <2>2
    <2> HIDE DEF L
    <2> QED BY <1>3, <2>3
<1> HIDE DEF L
\* Slot i is of turn t, at the place of occurrence o.
<1>7. ASSUME NEW i \in 1 .. n
      PROVE  \E t \in Nat, o \in all :
                i = t * L + place[o] /\ plan[i].format = o.name /\ o.name \in DOMAIN m
    <2>1. PICK k \in Nat : k = i - 1
        BY DEF Follows
    <2>2. PICK t \in Nat : \E x \in 1 .. L : t = k \div L /\ x = (k % L) + 1 /\ k = t * L + x - 1
        BY <1>6, Division
    <2>3. PICK x \in 1 .. L : x = (k % L) + 1 /\ k = t * L + x - 1
        BY <2>2
    <2>4. PICK o \in all : place[o] = x
        BY <1>4
    <2>5. plan[i].format = cycle[place[o]]
        BY <1>0, <1>3, <2>1, <2>3, <2>4 DEF Follows
    <2>6. i = t * L + place[o]
        <3>1. i \in Int
            BY DEF Follows
        <3>2. PICK y \in Int : y = t * L
            BY <1>6
        <3> QED BY <2>1, <2>3, <2>4, <3>1, <3>2
    <2> QED BY <1>4, <1>5, <2>5, <2>6
\* What is in the cycle is in the plan, in every turn.
<1>8. ASSUME NEW t \in Nat, NEW x \in DOMAIN m, NEW q \in 1 .. counts[x],
             t * L + place[Occ(x, q)] \in 1 .. n
      PROVE  plan[t * L + place[Occ(x, q)]].format = x
    <2>1. place[Occ(x, q)] \in 1 .. L /\ cycle[place[Occ(x, q)]] = x
        BY <1>4, <1>5
    <2>2. PICK r \in 1 .. L : r = place[Occ(x, q)]
        BY <2>1
    <2>4. PICK y \in 1 .. n : y = t * L + r
        BY <1>8, <2>2
    <2>5. plan[y].format = cycle[((y - 1) % L) + 1]
        BY <1>0, <1>3 DEF Follows
    <2>6. ((y - 1) % L) + 1 = r
        <3>1. y \in Nat \ {0}
            BY DEF Follows
        <3> QED BY <1>6, <2>4, <3>1, InTurn
    <2>7. plan[y].format = x
        BY <2>1, <2>2, <2>5, <2>6
    <2> QED BY <2>2, <2>4, <2>7
<1>9. ASSUME NEW i \in 1 .. n, NEW j \in 1 .. n, NEW g \in DOMAIN m, i < j,
             plan[i].format = plan[j].format, counts[g] >= counts[plan[i].format]
      PROVE  \E k \in i .. j : plan[k].format = g
    <2>1. n \in Nat /\ i \in Nat /\ j \in Nat
        BY DEF Follows
    <2>2. CASE g = plan[i].format
        BY <2>1, <1>9, <2>2
    <2>3. CASE g # plan[i].format
        <3>1. PICK t \in Nat, o \in all :
                i = t * L + place[o] /\ plan[i].format = o.name /\ o.name \in DOMAIN m
            BY <1>7
        <3>2. PICK u \in Nat, v \in all :
                j = u * L + place[v] /\ plan[j].format = v.name /\ v.name \in DOMAIN m
            BY <1>7
        <3>3. PICK f \in DOMAIN m, p \in Nat, r \in Nat :
                /\ p \in 1 .. counts[f] /\ r \in 1 .. counts[f]
                /\ f = o.name /\ f = v.name /\ o = Occ(f, p) /\ v = Occ(f, r)
                /\ f # g /\ counts[f] <= counts[g]
            <4>1. o.name = v.name /\ o.name # g /\ counts[o.name] <= counts[g]
                BY <1>1, <1>9, <2>3, <3>1, <3>2
            <4>2. /\ o.i \in 1 .. counts[o.name] /\ o = Occ(o.name, o.i)
                  /\ v.i \in 1 .. counts[v.name] /\ v = Occ(v.name, v.i)
                BY <1>5
            <4> QED BY <3>1, <4>1, <4>2
        <3>4. /\ p < r => \E q \in 1 .. counts[g] : Before(o, Occ(g, q)) /\ Before(Occ(g, q), v)
              /\ (\E q \in 1 .. counts[g] : Before(o, Occ(g, q))) \/ Before(Occ(g, 1), v)
            BY <1>1, <3>3, TurnsAreTaken
        <3>5. /\ place[o] \in 1 .. L /\ place[v] \in 1 .. L
              /\ \A q \in 1 .. counts[g] : place[Occ(g, q)] \in 1 .. L
            BY <1>4, <1>5
        <3>6. ASSUME NEW s \in Nat, NEW q \in 1 .. counts[g],
                     i <= s * L + place[Occ(g, q)], s * L + place[Occ(g, q)] <= j
              PROVE  \E k \in i .. j : plan[k].format = g
            <4>1. s * L + place[Occ(g, q)] \in i .. j
                BY <1>6, <2>1, <3>5, <3>6
            <4>2. plan[s * L + place[Occ(g, q)]].format = g
                BY <1>8, <2>1, <4>1
            <4> QED BY <4>1, <4>2
        <3>7. t * L \in Nat /\ u * L \in Nat /\ (t + 1) * L = t * L + L
            BY <1>6
        <3>8. CASE t = u
            <4>1. place[o] < place[v]
                BY <1>6, <1>9, <3>1, <3>2, <3>5, <3>7, <3>8
            <4>2. p < r
                <5>1. Before(Occ(f, p), Occ(f, r))
                    BY <1>4, <3>3, <4>1
                <5>2. (2 * p - 1) * counts[f] < (2 * r - 1) * counts[f]
                    <6>1. NamePlace(f) \in Int
                        BY <1>1, NamesSound DEF IsCounts
                    <6> QED BY <5>1, <6>1, BeforeMeans
                <5>3. ASSUME NEW k \in Nat \ {0}, NEW x \in Nat, NEW y \in Nat,
                             (2 * x - 1) * k < (2 * y - 1) * k
                      PROVE  x < y
                    <6>1. (2 * y - 1 - (2 * x - 1)) * k > 0
                        BY <5>3
                    <6> QED BY <6>1
                <5> QED BY <1>1, <5>2, <5>3
            <4>3. PICK q \in 1 .. counts[g] : Before(o, Occ(g, q)) /\ Before(Occ(g, q), v)
                BY <3>4, <4>2
            <4>4. place[o] < place[Occ(g, q)] /\ place[Occ(g, q)] < place[v]
                BY <1>4, <1>5, <4>3
            <4>5. i <= t * L + place[Occ(g, q)] /\ t * L + place[Occ(g, q)] <= j
                BY <1>6, <3>1, <3>2, <3>5, <3>7, <3>8, <4>4
            <4> QED BY <3>6, <4>5
        <3>9. t <= u
            <4>1. ASSUME u < t PROVE FALSE
                <5>1. (t - u - 1) * L >= 0 /\ (t - u - 1) * L = t * L - u * L - L
                    BY <1>6, <4>1
                <5> QED BY <1>6, <1>9, <3>1, <3>2, <3>5, <3>7, <5>1
            <4> QED BY <4>1
        <3>10. CASE t < u
            <4>1. (t + 1) * L <= u * L
                <5>1. (u - (t + 1)) * L >= 0
                    BY <1>6, <3>10
                <5> QED BY <1>6, <5>1
            <4>2. CASE \E q \in 1 .. counts[g] : Before(o, Occ(g, q))
                <5>1. PICK q \in 1 .. counts[g] : Before(o, Occ(g, q))
                    BY <4>2
                <5>2. place[o] < place[Occ(g, q)]
                    BY <1>4, <1>5, <5>1
                <5>3. i <= t * L + place[Occ(g, q)] /\ t * L + place[Occ(g, q)] <= j
                    BY <1>6, <3>1, <3>2, <3>5, <3>7, <4>1, <5>2
                <5> QED BY <3>6, <5>3
            <4>3. CASE Before(Occ(g, 1), v)
                <5>1. 1 \in 1 .. counts[g]
                    BY <1>1
                <5>2. place[Occ(g, 1)] < place[v]
                    BY <1>4, <1>5, <4>3, <5>1
                <5>3. place[Occ(g, 1)] \in 1 .. L
                    BY <3>5, <5>1
                <5>4. i <= (t + 1) * L + place[Occ(g, 1)]
                    BY <1>6, <3>1, <3>5, <3>7, <5>3
                <5>5. (t + 1) * L + place[Occ(g, 1)] <= j
                    BY <1>6, <3>2, <3>5, <3>7, <4>1, <5>2, <5>3
                <5> QED BY <3>6, <5>1, <5>4, <5>5
            <4> QED BY <3>4, <4>2, <4>3
        <3> QED BY <3>8, <3>9, <3>10
    <2> QED BY <2>2, <2>3
<1>10. \A i \in 1 .. n : plan[i].format \in DOMAIN m
    BY <1>7
<1> QED BY <1>9, <1>10 DEF counts

-----------------------------------------------------------------------------
(***************************************************************************)
(* The day of a deals channel: a sequence of markets holds each as often   *)
(* as it is counted, and loot posts alternate with single ones.            *)
(***************************************************************************)

\* A name is in the sequence as often as it is counted.
LEMMA NamesAreCounted ==
    ASSUME NEW counts, IsCounts(counts), NEW s, s = Interleaved(counts), NEW x \in DOMAIN counts
    PROVE  LET places == {r \in DOMAIN s : s[r] = x}
           IN  IsFiniteSet(places) /\ Cardinality(places) = counts[x]
<1> DEFINE all == Occurrences(counts)
           N == Cardinality(all)
           Occ(i) == Occurrence(counts, x, i)
           places == {r \in DOMAIN s : s[r] = x}
<1>1. /\ N \in Nat /\ DOMAIN s = 1 .. N
      /\ \E place \in [all -> 1 .. N] :
            /\ \A o \in all : s[place[o]] = o.name
            /\ \A r \in 1 .. N : \E o \in all : place[o] = r
            /\ \A o, p \in all : Before(o, p) <=> place[o] < place[p]
    <2> HIDE DEF all
    <2> QED BY InterleavedSound DEF all
<1>2. PICK place \in [all -> 1 .. N] :
            /\ \A o \in all : s[place[o]] = o.name
            /\ \A r \in 1 .. N : \E o \in all : place[o] = r
            /\ \A o, p \in all : Before(o, p) <=> place[o] < place[p]
    BY <1>1
<1>3. \A o, p \in all : place[o] = place[p] => o = p
    <2>1. \A o, p \in all : o # p => Before(o, p) \/ Before(p, o)
        BY BeforeIsOrder
    <2>2. \A o \in all : place[o] \in Nat
        BY <1>1, <1>2
    <2> HIDE DEF all, N
    <2> QED BY <1>2, <2>1, <2>2
<1>4. /\ \A o \in all : o.i \in 1 .. counts[o.name] /\ o = Occurrence(counts, o.name, o.i)
      /\ \A i \in 1 .. counts[x] : Occ(i) \in all /\ Occ(i).name = x /\ Occ(i).i = i
    BY OccurrencesAre
<1> HIDE DEF all, N, Occ
<1> DEFINE f == [i \in 1 .. counts[x] |-> place[Occ(i)]]
<1>5. f \in [1 .. counts[x] -> places]
    <2>1. \A i \in 1 .. counts[x] : place[Occ(i)] \in DOMAIN s
        BY <1>1, <1>2, <1>4
    <2>2. \A i \in 1 .. counts[x] : s[place[Occ(i)]] = x
        BY <1>2, <1>4
    <2>3. \A i \in 1 .. counts[x] : place[Occ(i)] \in places
        BY <2>1, <2>2
    <2> HIDE DEF places
    <2> QED BY <2>3
<1>6. \A i, j \in 1 .. counts[x] : f[i] = f[j] => i = j
    BY <1>3, <1>4
<1>7. \A r \in places : \E i \in 1 .. counts[x] : f[i] = r
    <2> SUFFICES ASSUME NEW r \in places PROVE \E i \in 1 .. counts[x] : f[i] = r
        OBVIOUS
    <2>1. PICK o \in all : place[o] = r
        BY <1>1, <1>2
    <2>2. o.name = x
        BY <1>2, <2>1
    <2>3. o.i \in 1 .. counts[x] /\ o = Occ(o.i)
        BY <1>4, <2>2 DEF Occ
    <2> QED BY <2>1, <2>3
<1>8. IsFiniteSet(1 .. counts[x]) /\ Cardinality(1 .. counts[x]) = counts[x]
    <2>1. counts[x] \in Nat
        BY DEF IsCounts
    <2> QED BY <2>1, FS_Interval
<1> HIDE DEF f, places
<1>9. f \in Bijection(1 .. counts[x], places)
    BY <1>5, <1>6, <1>7 DEF Bijection, Injection, Surjection, IsInjective
<1>10. IsFiniteSet(places) /\ Cardinality(places) = counts[x]
    BY <1>8, <1>9, FS_Bijection DEF ExistsBijection
<1> QED BY <1>10 DEF places

\* Two names make a sequence as long as both are counted.
LEMMA TwoNames ==
    ASSUME NEW counts, IsCounts(counts), NEW s, s = Interleaved(counts), NEW x, NEW y,
           DOMAIN counts = {x, y}, x # y
    PROVE  DOMAIN s = 1 .. counts[x] + counts[y] /\ Len(s) = counts[x] + counts[y]
           /\ \A r \in DOMAIN s : s[r] \in {x, y}
<1> DEFINE of(z) == {r \in DOMAIN s : s[r] = z}
           all == Occurrences(counts)
           N == Cardinality(all)
<1>1. /\ N \in Nat /\ DOMAIN s = 1 .. N /\ Len(s) = N
      /\ \A r \in 1 .. N : \E o \in all : s[r] = o.name
    <2> HIDE DEF all
    <2> QED BY InterleavedSound DEF all
<1>2. \A r \in DOMAIN s : s[r] \in {x, y}
    BY <1>1, OccurrencesAre
<1>3. /\ IsFiniteSet(of(x)) /\ Cardinality(of(x)) = counts[x]
      /\ IsFiniteSet(of(y)) /\ Cardinality(of(y)) = counts[y]
    BY NamesAreCounted
<1>4. of(x) \cup of(y) = 1 .. N /\ of(x) \cap of(y) = {}
    BY <1>1, <1>2
<1> HIDE DEF of, all, N
<1>5. Cardinality(1 .. N) = counts[x] + counts[y]
    <2>1. Cardinality({}) = 0 /\ counts[x] \in Nat /\ counts[y] \in Nat
        BY FS_EmptySet DEF IsCounts
    <2>2. Cardinality(of(x) \cup of(y))
            = Cardinality(of(x)) + Cardinality(of(y)) - Cardinality(of(x) \cap of(y))
        BY <1>3, FS_Union
    <2>3. /\ Cardinality(of(x) \cup of(y)) = Cardinality(1 .. N)
          /\ Cardinality(of(x) \cap of(y)) = Cardinality({})
        BY <1>4, Zenon
    <2> QED BY ONLY <1>3, <2>1, <2>2, <2>3
<1>6. Cardinality(1 .. N) = N
    BY <1>1, FS_Interval
<1> QED BY <1>1, <1>2, <1>5, <1>6

\* How many loot posts have been placed when slot i has been.
LEMMA LootsPlaced ==
    ASSUME NEW total \in Nat, NEW counts, counts.loot \in Nat, NEW done,
           done = CHOOSE f : f = [i \in 0 .. total |->
                        IF i = 0 THEN 0
                        ELSE LET before == f[i - 1]
                             IN  before + (IF LootTurn(i, before, counts.loot) THEN 1 ELSE 0)]
    PROVE  \A i \in 0 .. total : done[i] = AtMost((i + 1) \div 2, counts.loot)
<1> DEFINE Next1(i, before) == before + (IF LootTurn(i, before, counts.loot) THEN 1 ELSE 0)
           Up(f) == f = [i \in 0 .. total |-> IF i = 0 THEN 0 ELSE Next1(i, f[i - 1])]
           closed == [i \in 0 .. total |-> AtMost((i + 1) \div 2, counts.loot)]
<1>1. done = CHOOSE f : Up(f)
    OBVIOUS
<1>2. ASSUME NEW i \in Nat \ {0}
      PROVE  AtMost((i + 1) \div 2, counts.loot) = Next1(i, AtMost(i \div 2, counts.loot))
    <2>1. PICK k \in Nat : k = i \div 2
        OBVIOUS
    <2>2. IF i % 2 = 1 THEN (i + 1) \div 2 = k + 1 ELSE (i + 1) \div 2 = k
        BY <2>1
    <2> QED BY <2>1, <2>2 DEF AtMost, LootTurn
<1>3. AtMost((0 + 1) \div 2, counts.loot) = 0
    BY DEF AtMost
<1> HIDE DEF Next1
<1>4. Up(closed)
    <2>1. ASSUME NEW i \in 0 .. total
          PROVE  closed[i] = IF i = 0 THEN 0 ELSE Next1(i, closed[i - 1])
        <3>1. CASE i = 0
            BY <1>3, <3>1
        <3>2. CASE i # 0
            <4>1. i \in Nat \ {0} /\ i - 1 \in 0 .. total /\ (i - 1) + 1 = i
                BY <3>2
            <4> QED BY <1>2, <3>2, <4>1
        <3> QED BY <3>1, <3>2
    <2> HIDE DEF closed
    <2>2. closed = [i \in 0 .. total |-> closed[i]]
        BY DEF closed
    <2> QED BY <2>1, <2>2
<1>5. Up(done)
    <2> HIDE DEF Up
    <2> QED BY <1>1, <1>4
<1>6. \A i \in 0 .. total : done[i] = IF i = 0 THEN 0 ELSE Next1(i, done[i - 1])
    BY <1>5
<1>7. \A i \in 0 .. total : closed[i] = IF i = 0 THEN 0 ELSE Next1(i, closed[i - 1])
    BY <1>4
<1> HIDE DEF Up, closed
<1> DEFINE S == {i \in 0 .. total : done[i] = closed[i]}
<1>8. 0 \in S
    BY <1>6, <1>7
<1>9. ASSUME NEW i \in 0 .. total - 1, i \in S PROVE i + 1 \in S
    <2>1. i + 1 \in 0 .. total /\ i + 1 # 0 /\ (i + 1) - 1 = i
        OBVIOUS
    <2> QED BY <1>6, <1>7, <1>9, <2>1, SMTT(30)
<1> HIDE DEF S
<1>10. \A i \in 0 .. total : i \in S
    BY ONLY <1>8, <1>9, total \in Nat, InductionUpTo
<1> QED BY <1>10 DEF S, closed

\* A day's posts are divided without a rest, and loot posts are no more than every other one.
LEMMA CountsFit ==
    ASSUME PlanningAssumption, SettingsAlternate, NEW target \in Nat, NEW counts,
           counts = DealCounts(target)
    PROVE  /\ counts.loot \in Nat /\ counts.single \in Nat
           /\ counts.Amazon \in Nat /\ counts.Flipkart \in Nat
           /\ counts.Amazon + counts.Flipkart = counts.single
           /\ counts.loot =< counts.single + 1 /\ counts.loot + counts.single >= 1
           /\ target # 0 => counts.loot + counts.single = target
<1>1. /\ LootPerDay \in Nat /\ SinglePerDay \in Nat /\ AmazonPerDay \in Nat /\ FlipkartPerDay \in Nat
      /\ LootPerDay =< SinglePerDay /\ SinglePerDay # 0
      /\ AmazonPerDay + FlipkartPerDay = SinglePerDay
    BY DEF PlanningAssumption, SettingsAlternate
<1>2. ASSUME NEW n \in Nat, NEW a \in Nat, NEW b \in Nat
      PROVE  /\ Scaled(n, a, b) \in 0 .. n
             /\ a =< b => 2 * Scaled(n, a, b) =< n + 1
    <2>1. PICK t \in Nat \ {0}, m \in Nat : t = AtLeast(a + b, 1) /\ m = n * a
        BY DEF AtLeast
    <2>2. PICK r \in Nat : r = Round(m, t) /\ 2 * t * r <= 2 * m + t
        BY RoundIsNear
    <2>3. Scaled(n, a, b) = AtMost(r, n)
        BY <2>1, <2>2 DEF Scaled
    <2>4. ASSUME a =< b PROVE 2 * r =< n + 1
        <3>1. 2 * a =< t
            BY <2>1, <2>4 DEF AtLeast
        <3>2. ASSUME NEW x \in Nat, NEW y \in Nat, NEW z \in Nat, 2 * y =< z
              PROVE  2 * (x * y) =< x * z
            <4>1. x * (z - 2 * y) >= 0 /\ x * (z - 2 * y) = x * z - 2 * (x * y)
                BY <3>2
            <4> QED BY <4>1
        <3>3. 2 * m =< n * t
            BY <2>1, <3>1, <3>2
        <3>4. ASSUME NEW x \in Nat, NEW y \in Nat, NEW z \in Nat \ {0},
                     2 * z * y =< x * z + z
              PROVE  2 * y =< x + 1
            <4>1. ASSUME 2 * y >= x + 2 PROVE FALSE
                <5>1. (2 * y - (x + 2)) * z >= 0
                    BY <4>1
                <5>2. (2 * y - (x + 2)) * z = 2 * z * y - x * z - 2 * z
                    OBVIOUS
                <5>3. PICK v \in Int, w \in Int : v = 2 * z * y /\ w = x * z
                    OBVIOUS
                <5> QED BY <3>4, <5>1, <5>2, <5>3
            <4> QED BY <4>1
        <3>5. 2 * t * r =< n * t + t
            <4>1. PICK v \in Int, w \in Int : v = 2 * t * r /\ w = n * t
                OBVIOUS
            <4> QED BY <2>2, <3>3, <4>1
        <3> QED BY <3>4, <3>5
    <2> QED BY <2>3, <2>4 DEF AtMost
<1>3. CASE target = 0
    <2>1. counts = [loot |-> LootPerDay, single |-> SinglePerDay,
                    Amazon |-> AmazonPerDay, Flipkart |-> FlipkartPerDay]
        BY <1>3 DEF DealCounts
    <2> QED BY <1>1, <1>3, <2>1
<1>4. CASE target # 0
    <2>1. PICK loot \in 0 .. target : loot = Scaled(target, LootPerDay, SinglePerDay)
                                      /\ 2 * loot =< target + 1
        BY <1>1, <1>2
    <2>2. PICK amazon \in 0 .. target - loot :
                amazon = Scaled(target - loot, AmazonPerDay, FlipkartPerDay)
        <3>1. target - loot \in Nat
            OBVIOUS
        <3> QED BY <1>1, <1>2, <3>1
    <2>3. counts = [loot |-> loot, single |-> target - loot,
                    Amazon |-> amazon, Flipkart |-> target - loot - amazon]
        BY <1>4, <2>1, <2>2 DEF DealCounts
    <2> QED BY <1>4, <2>1, <2>2, <2>3
<1> QED BY <1>3, <1>4

\* How many of the first i slots are loot posts.
Loots(i, n) == AtMost((i + 1) \div 2, n)

\* Which slot has the single post of a number.
SlotOf(s, n) == IF s =< n THEN 2 * s ELSE s + n

LEMMA LootSlots ==
    ASSUME NEW n \in Nat, NEW m \in Nat, n =< m + 1, NEW i \in 1 .. n + m
    PROVE  Loots(i, n) > Loots(i - 1, n) <=> i % 2 = 1 /\ (i + 1) \div 2 \in 1 .. n
<1>1. PICK k \in Nat : k = i \div 2
    OBVIOUS
<1>2. i = 2 * k + (i % 2) /\ i % 2 \in {0, 1} /\ (i - 1) + 1 = i
    BY <1>1
<1>3. IF i % 2 = 1 THEN (i + 1) \div 2 = k + 1 ELSE (i + 1) \div 2 = k
    BY <1>1, <1>2
<1> QED BY <1>1, <1>2, <1>3 DEF Loots, AtMost

LEMMA SingleSlots ==
    ASSUME NEW n \in Nat, NEW m \in Nat, n =< m + 1
    PROVE  /\ \A i \in 1 .. n + m : ~(Loots(i, n) > Loots(i - 1, n))
                 => i - Loots(i, n) \in 1 .. m /\ SlotOf(i - Loots(i, n), n) = i
           /\ \A s \in 1 .. m : /\ SlotOf(s, n) \in 1 .. n + m
                                /\ ~(Loots(SlotOf(s, n), n) > Loots(SlotOf(s, n) - 1, n))
                                /\ SlotOf(s, n) - Loots(SlotOf(s, n), n) = s
<1>1. ASSUME NEW i \in 1 .. n + m, ~(Loots(i, n) > Loots(i - 1, n))
      PROVE  i - Loots(i, n) \in 1 .. m /\ SlotOf(i - Loots(i, n), n) = i
    <2>1. PICK k \in Nat : k = i \div 2
        OBVIOUS
    <2>2. i = 2 * k + (i % 2) /\ i % 2 \in {0, 1} /\ (i - 1) + 1 = i
        BY <2>1
    <2>3. IF i % 2 = 1 THEN (i + 1) \div 2 = k + 1 ELSE (i + 1) \div 2 = k
        BY <2>1, <2>2
    <2>4. /\ Loots(i, n) = IF i % 2 = 1 THEN AtMost(k + 1, n) ELSE AtMost(k, n)
          /\ Loots(i - 1, n) = AtMost(k, n)
        BY <2>1, <2>2, <2>3 DEF Loots
    <2>5. PICK l \in Int : l = Loots(i, n)
        BY <2>4 DEF AtMost
    <2>6. i - l \in 1 .. m /\ i = IF i - l =< n THEN 2 * (i - l) ELSE (i - l) + n
        BY <1>1, <2>2, <2>4, <2>5 DEF AtMost
    <2> QED BY <2>5, <2>6 DEF SlotOf
<1>2. ASSUME NEW s \in 1 .. m
      PROVE  /\ SlotOf(s, n) \in 1 .. n + m
             /\ ~(Loots(SlotOf(s, n), n) > Loots(SlotOf(s, n) - 1, n))
             /\ SlotOf(s, n) - Loots(SlotOf(s, n), n) = s
    <2>1. CASE s =< n
        <3>1. SlotOf(s, n) = 2 * s /\ (2 * s + 1) \div 2 = s /\ (2 * s - 1 + 1) \div 2 = s
            BY <2>1 DEF SlotOf
        <3>2. Loots(2 * s, n) = s /\ Loots(2 * s - 1, n) = s
            BY <2>1, <3>1 DEF Loots, AtMost
        <3> QED BY <2>1, <3>1, <3>2
    <2>2. CASE s > n
        <3>1. PICK i \in Nat : i = s + n /\ i >= 2 * n + 1 /\ SlotOf(s, n) = i
            BY <2>2 DEF SlotOf
        <3>2. (i + 1) \div 2 >= n /\ (i - 1 + 1) \div 2 >= n
            BY <3>1
        <3>3. Loots(i, n) = n /\ Loots(i - 1, n) = n
            BY <3>1, <3>2 DEF Loots, AtMost
        <3> QED BY <2>2, <3>1, <3>3
    <2> QED BY <2>1, <2>2
<1> QED BY <1>1, <1>2

LEMMA InFirstTurn ==
    ASSUME NEW L \in Nat \ {0}, NEW s \in 1 .. L
    PROVE  ((s - 1) % L) + 1 = s
<1>1. PICK t \in Nat : t = 0
    OBVIOUS
<1>2. s = t * L + s /\ s \in Nat \ {0}
    BY <1>1
<1> QED BY <1>2, InTurn

SlotsOf(plan, kind, market) ==
    {i \in DOMAIN plan : plan[i].kind = kind /\ plan[i].market = market}

PlacesOf(s, x) == {r \in DOMAIN s : s[r] = x}

\* A plan in which loot posts and single ones alternate, the latter after a list of markets.
Alternates(plan, n, m, markets) ==
    /\ DOMAIN plan = 1 .. n + m
    /\ \A i \in 1 .. n + m :
          IF Loots(i, n) > Loots(i - 1, n)
          THEN plan[i].kind = "loot" /\ plan[i].market = "none"
          ELSE plan[i].kind = "single" /\ plan[i].market = markets[i - Loots(i, n)]

LEMMA DenseAlternates ==
    ASSUME PlanningAssumption, SettingsAlternate, NEW target \in Nat, NEW counts,
           counts = DealCounts(target), NEW markets,
           markets = Interleaved([m \in {"Amazon", "Flipkart"} |-> counts[m]]),
           Len(markets) = counts.single, DOMAIN markets = 1 .. counts.single,
           NEW plan, plan = DensePlan(target)
    PROVE  Alternates(plan, counts.loot, counts.single, markets)
<1>1. /\ counts.loot \in Nat /\ counts.single \in Nat
      /\ counts.loot =< counts.single + 1 /\ counts.loot + counts.single >= 1
    BY CountsFit
<1>2. PICK n \in Nat, c \in Nat : n = counts.loot /\ c = counts.single
    BY <1>1
<1> DEFINE split == DealCounts(target)
           sequence == Interleaved([m \in {"Amazon", "Flipkart"} |-> split[m]])
           total == AtLeast(split.loot + split.single, 1)
           step == AtLeast(((EndHour + 1 - StartHour) * 60) \div total, 1)
           at(i) == StartHour * 60 + (i - 1) * step
           singles == IF sequence = <<>> THEN <<"Amazon">> ELSE sequence
           done == CHOOSE done : done = [i \in 0 .. total |->
                        IF i = 0 THEN 0
                        ELSE LET before == done[i - 1]
                             IN  before + (IF LootTurn(i, before, split.loot) THEN 1 ELSE 0)]
           loots == [i \in 0 .. total |-> done[i]]
           nth(i) == i - loots[i]
           loot(i) == DealSlot(at(i), "loot", "link", "Multiple", "none")
           single(i) == DealSlot(at(i), "single", IF nth(i) % 2 = 0 THEN "text" ELSE "photo",
                                 "none", singles[((nth(i) - 1) % Len(singles)) + 1])
<1>3. plan = [i \in 1 .. total |-> IF loots[i] > loots[i - 1] THEN loot(i) ELSE single(i)]
    BY ZenonT(30) DEF DensePlan
<1>0. split = counts /\ sequence = markets
    OBVIOUS
<1> HIDE DEF split, sequence
<1>4. total = n + c /\ total \in Nat
    BY <1>0, <1>1, <1>2 DEF AtLeast
<1> HIDE DEF total, step, singles
<1>5. \A i \in 0 .. total : done[i] = AtMost((i + 1) \div 2, n)
    <2>1. split.loot \in Nat /\ split.loot = n
        BY <1>0, <1>2
    <2>2. \A i \in 0 .. total : done[i] = AtMost((i + 1) \div 2, split.loot)
        BY ONLY <1>4, <2>1, LootsPlaced, SMTT(30)
    <2> HIDE DEF done
    <2>3. PICK loots0 : loots0 = split.loot
        OBVIOUS
    <2>4. loots0 = n /\ \A i \in 0 .. total : done[i] = AtMost((i + 1) \div 2, loots0)
        BY ONLY <2>1, <2>2, <2>3
    <2> QED BY ONLY <2>4
<1> HIDE DEF done
<1>6. \A i \in 0 .. n + c : loots[i] = Loots(i, n)
    BY <1>4, <1>5 DEF Loots
<1> HIDE DEF loots, at
<1>7. ASSUME NEW i \in 1 .. n + c
      PROVE  IF Loots(i, n) > Loots(i - 1, n)
             THEN plan[i].kind = "loot" /\ plan[i].market = "none"
             ELSE plan[i].kind = "single" /\ plan[i].market = markets[i - Loots(i, n)]
    <2>1. i \in 0 .. n + c /\ i - 1 \in 0 .. n + c
        OBVIOUS
    <2>2. loots[i] = Loots(i, n) /\ loots[i - 1] = Loots(i - 1, n)
        BY <1>6, <2>1
    <2>3. plan[i] = IF Loots(i, n) > Loots(i - 1, n) THEN loot(i) ELSE single(i)
        <3> HIDE DEF loot, single
        <3> QED BY <1>3, <1>4, <2>2
    <2>4. loot(i).kind = "loot" /\ loot(i).market = "none"
        BY DEF DealSlot
    <2>5. /\ single(i).kind = "single"
          /\ single(i).market = singles[((i - Loots(i, n) - 1) % Len(singles)) + 1]
        BY <2>2 DEF DealSlot
    <2>6. ASSUME ~(Loots(i, n) > Loots(i - 1, n))
          PROVE  singles[((i - Loots(i, n) - 1) % Len(singles)) + 1] = markets[i - Loots(i, n)]
        <3>1. i - Loots(i, n) \in 1 .. c
            BY <1>1, <1>2, <2>6, SingleSlots
        <3>2. PICK s \in 1 .. c : s = i - Loots(i, n)
            BY <3>1
        <3>3. markets # <<>>
            <4>1. 1 \in DOMAIN markets
                BY <1>2, <3>2
            <4> QED BY <4>1
        <3>4. singles = markets /\ Len(singles) = c
            BY <1>0, <1>2, <3>3 DEF singles
        <3>5. ((s - 1) % c) + 1 = s
            <4>1. c \in Nat \ {0}
                BY <3>2
            <4> QED BY <4>1, InFirstTurn
        <3> QED BY <3>2, <3>4, <3>5
    <2> HIDE DEF loot, single
    <2> QED BY <2>3, <2>4, <2>5, <2>6
<1>8. DOMAIN plan = 1 .. n + c
    <2> HIDE DEF loot, single
    <2> QED BY <1>3, <1>4
<1> QED BY <1>2, <1>7, <1>8 DEF Alternates

\* Such a plan has as many posts of each kind and market as there are.
LEMMA AlternationCounts ==
    ASSUME NEW n \in Nat, NEW m \in Nat, n =< m + 1, NEW markets, DOMAIN markets = 1 .. m,
           NEW plan, Alternates(plan, n, m, markets)
    PROVE  /\ Cardinality(SlotsOf(plan, "loot", "none")) = n
           /\ \A x : Cardinality(SlotsOf(plan, "single", x)) = Cardinality(PlacesOf(markets, x))
<1>1. Cardinality(SlotsOf(plan, "loot", "none")) = n
    <2> DEFINE T == SlotsOf(plan, "loot", "none")
               f == [k \in 1 .. n |-> 2 * k - 1]
               g == [i \in T |-> (i + 1) \div 2]
    <2>1. \A i : i \in T <=> i \in 1 .. n + m /\ i % 2 = 1 /\ (i + 1) \div 2 \in 1 .. n
        BY LootSlots DEF Alternates, SlotsOf
    <2> HIDE DEF T
    <2>2. f \in [1 .. n -> T] /\ \A k \in 1 .. n : f[k] = 2 * k - 1
        <3>1. ASSUME NEW k \in 1 .. n PROVE 2 * k - 1 \in T
            <4>1. /\ 2 * k - 1 \in 1 .. n + m /\ (2 * k - 1) % 2 = 1
                  /\ (2 * k - 1 + 1) \div 2 = k
                OBVIOUS
            <4> QED BY <2>1, <4>1
        <3> QED BY <3>1
    <2>3. g \in [T -> 1 .. n] /\ \A i \in T : g[i] = (i + 1) \div 2
        BY <2>1
    <2>4. \A k \in 1 .. n : g[f[k]] = k
        <3>1. \A k \in 1 .. n : (2 * k - 1 + 1) \div 2 = k
            OBVIOUS
        <3> HIDE DEF f, g
        <3> QED BY <2>2, <2>3, <3>1
    <2>5. \A i \in T : f[g[i]] = i
        <3>1. \A i \in 1 .. n + m : i % 2 = 1 => 2 * ((i + 1) \div 2) - 1 = i
            OBVIOUS
        <3> HIDE DEF f, g
        <3> QED BY <2>1, <2>2, <2>3, <3>1
    <2> HIDE DEF f, g
    <2>6. IsFiniteSet(1 .. n) /\ Cardinality(1 .. n) = n
        BY FS_Interval
    <2>7. f \in Bijection(1 .. n, T)
        BY <2>2, <2>3, <2>4, <2>5 DEF Bijection, Injection, Surjection, IsInjective
    <2>8. Cardinality(T) = n
        BY <2>6, <2>7, FS_Bijection DEF ExistsBijection
    <2> QED BY <2>8 DEF T
<1>2. ASSUME NEW x
      PROVE  Cardinality(SlotsOf(plan, "single", x)) = Cardinality(PlacesOf(markets, x))
    <2> DEFINE T == SlotsOf(plan, "single", x)
               places == PlacesOf(markets, x)
               f == [s \in places |-> SlotOf(s, n)]
               g == [i \in T |-> i - Loots(i, n)]
    <2>1. \A i : i \in T <=> /\ i \in 1 .. n + m /\ ~(Loots(i, n) > Loots(i - 1, n))
                             /\ markets[i - Loots(i, n)] = x
        BY DEF Alternates, SlotsOf
    <2> HIDE DEF T
    <2>2. /\ \A i \in 1 .. n + m : ~(Loots(i, n) > Loots(i - 1, n))
                 => i - Loots(i, n) \in 1 .. m /\ SlotOf(i - Loots(i, n), n) = i
          /\ \A s \in 1 .. m : /\ SlotOf(s, n) \in 1 .. n + m
                               /\ ~(Loots(SlotOf(s, n), n) > Loots(SlotOf(s, n) - 1, n))
                               /\ SlotOf(s, n) - Loots(SlotOf(s, n), n) = s
        BY SingleSlots
    <2>3. f \in [places -> T] /\ \A s \in places : f[s] = SlotOf(s, n)
        BY <2>1, <2>2 DEF PlacesOf
    <2>4. g \in [T -> places] /\ \A i \in T : g[i] = i - Loots(i, n)
        BY <2>1, <2>2 DEF PlacesOf
    <2> HIDE DEF f, g
    <2>5. \A s \in places : g[f[s]] = s
        BY <2>2, <2>3, <2>4 DEF PlacesOf
    <2>6. \A i \in T : f[g[i]] = i
        BY <2>1, <2>2, <2>3, <2>4
    <2>7. IsFiniteSet(places)
        <3>1. IsFiniteSet(1 .. m) /\ places \in SUBSET (1 .. m)
            BY FS_Interval DEF PlacesOf
        <3> QED BY <3>1, FS_Subset
    <2>8. f \in Bijection(places, T)
        BY <2>3, <2>4, <2>5, <2>6 DEF Bijection, Injection, Surjection, IsInjective
    <2>9. Cardinality(T) = Cardinality(places)
        BY <2>7, <2>8, FS_Bijection DEF ExistsBijection
    <2> QED BY <2>9 DEF T
<1> QED BY <1>1, <1>2

\* The posts of a day are those that are asked for.
LEMMA SplitSound ==
    ASSUME PlanningAssumption, SettingsAlternate, NEW target \in Nat, NEW counts,
           counts = DealCounts(target), NEW plan, plan = DensePlan(target)
    PROVE  /\ Cardinality(SlotsOf(plan, "loot", "none")) = counts.loot
           /\ \A x \in {"Amazon", "Flipkart"} :
                 Cardinality(SlotsOf(plan, "single", x)) = counts[x]
<1>1. /\ counts.loot \in Nat /\ counts.single \in Nat
      /\ counts.Amazon \in Nat /\ counts.Flipkart \in Nat
      /\ counts.Amazon + counts.Flipkart = counts.single
      /\ counts.loot =< counts.single + 1
    BY CountsFit
<1> DEFINE each == [m \in {"Amazon", "Flipkart"} |-> counts[m]]
<1>2. PICK markets : markets = Interleaved(each)
    OBVIOUS
<1>3. DOMAIN each = {"Amazon", "Flipkart"} /\ each["Amazon"] = counts.Amazon
      /\ each["Flipkart"] = counts.Flipkart
    OBVIOUS
<1>4. IsCounts(each)
    <2>1. IsFiniteSet({"Amazon", "Flipkart"})
        <3>1. PICK a, f : a = "Amazon" /\ f = "Flipkart"
            OBVIOUS
        <3>2. IsFiniteSet({a})
            BY FS_Singleton
        <3>3. IsFiniteSet({a} \cup {f})
            BY <3>2, FS_AddElement
        <3>4. {"Amazon", "Flipkart"} = {a} \cup {f}
            BY <3>1
        <3> QED BY <3>3, <3>4
    <2> HIDE DEF each
    <2> QED BY <1>1, <1>3, <2>1, NamesSound DEF IsCounts
<1>5. DOMAIN markets = 1 .. counts.single /\ Len(markets) = counts.single
    <2>1. PICK a, f : a = "Amazon" /\ f = "Flipkart"
        OBVIOUS
    <2> HIDE DEF each
    <2>2. DOMAIN each = {a, f} /\ a # f /\ each[a] + each[f] = counts.single
        BY <1>1, <1>3, <2>1
    <2>3. DOMAIN markets = 1 .. each[a] + each[f] /\ Len(markets) = each[a] + each[f]
        BY <1>2, <1>4, <2>2, TwoNames
    <2> QED BY <2>2, <2>3
<1>6. Alternates(plan, counts.loot, counts.single, markets)
    BY <1>2, <1>5, DenseAlternates
<1> HIDE DEF each
<1>7. ASSUME NEW x \in {"Amazon", "Flipkart"} PROVE Cardinality(PlacesOf(markets, x)) = counts[x]
    <2>1. Cardinality({r \in DOMAIN markets : markets[r] = x}) = each[x]
        BY <1>2, <1>3, <1>4, NamesAreCounted
    <2>2. each[x] = counts[x]
        BY DEF each
    <2> QED BY <2>1, <2>2 DEF PlacesOf
<1>8. /\ Cardinality(SlotsOf(plan, "loot", "none")) = counts.loot
      /\ \A x : Cardinality(SlotsOf(plan, "single", x)) = Cardinality(PlacesOf(markets, x))
    <2>1. PICK n \in Nat, m \in Nat : n = counts.loot /\ m = counts.single
        BY <1>1
    <2>2. Alternates(plan, n, m, markets) /\ DOMAIN markets = 1 .. m /\ n =< m + 1
        BY <1>1, <1>5, <1>6, <2>1
    <2> QED BY <2>1, <2>2, AlternationCounts
<1> QED BY <1>7, <1>8

-----------------------------------------------------------------------------
(***************************************************************************)
(* The steps of the agent.                                                 *)
(***************************************************************************)

\* A content plan: the days in order, and nothing but the first slot of a day is special.
IsContentPlan(plan, perDay) ==
    /\ Len(plan) >= 1
    /\ \A i \in DOMAIN plan : /\ plan[i].day = (i - 1) \div perDay
                              /\ (i - 1) % perDay # 0 => plan[i].kind = "none"

\* The plan that is laid out, before and after parts of it are given away.
PlanFits ==
    /\ IsPlan(tasks)
    /\ SettingsFit => \A i \in DOMAIN tasks : IsTimely(tasks[i])
    /\ IF inputs.deals THEN \A i \in DOMAIN tasks : tasks[i].kind \in {"loot", "single"}
                       ELSE IsContentPlan(tasks, cadence)

\* The first trigger has the first slot, and keeps it.
PledgeFits ==
    /\ inputs.deals => pledged = <<>>
    /\ pledged # <<>> => /\ pledged[1] \in {"reengage", "series", "weekly"}
                         /\ tasks[1].kind = pledged[1] /\ tasks[1].topic = pledged[1]
    /\ inputs.churn /\ ~inputs.deals => pledged # <<>> /\ pledged[1] = "reengage"

Planned == Stages \ {"idle", "read", "inferred"}

PlanningInv ==
    /\ stage \in Stages
    /\ stage # "idle" => inputs \in Inputs
    /\ stage \notin {"idle", "read"} => cadence \in 1 .. 5
    /\ stage \in Planned => PlanFits
    /\ stage \in Planned \ {"laid out"} => PledgeFits
    /\ stage \in {"reasoned", "saved"} => IsSpaced(tasks)

\* Triggers come in order of urgency, and a channel that loses members gets the poll first.
LEMMA FirstTrigger ==
    ASSUME NEW in, NEW triggers, triggers = TriggersFor(in)
    PROVE  /\ triggers # <<>> /\ 1 \in DOMAIN triggers
           /\ triggers[1] \in {"reengage", "series", "weekly"}
           /\ in.churn /\ in.delta # None => triggers[1] = "reengage"
<1> DEFINE risk == ChurnRisk(in)
           urgent == IF risk = "high" \/ in.silent THEN <<"reengage", "challenge">> ELSE <<>>
           habit == IF risk \in {"medium", "high"} \/ in.silent THEN <<"series", "cliffhanger">>
                    ELSE <<>>
<1>1. triggers = urgent \o habit \o <<"weekly">>
    BY DEF TriggersFor
<1>2. in.churn /\ in.delta # None => risk = "high"
    BY DEF ChurnRisk
<1> HIDE DEF risk
<1>3. CASE risk = "high" \/ in.silent
    <2>1. urgent = <<"reengage", "challenge">>
        BY <1>3
    <2>2. \/ triggers = <<"reengage", "challenge">> \o <<"series", "cliffhanger">> \o <<"weekly">>
          \/ triggers = <<"reengage", "challenge">> \o <<>> \o <<"weekly">>
        BY <1>1, <2>1
    <2> QED BY ONLY <2>2
<1>4. CASE ~(risk = "high" \/ in.silent)
    <2>1. urgent = <<>>
        BY <1>4
    <2>2. \/ triggers = <<>> \o <<"series", "cliffhanger">> \o <<"weekly">>
          \/ triggers = <<>> \o <<>> \o <<"weekly">>
        BY <1>1, <2>1
    <2>3. triggers # <<>> /\ 1 \in DOMAIN triggers /\ triggers[1] \in {"series", "weekly"}
        BY ONLY <2>2
    <2> QED BY <1>2, <1>4, <2>3
<1> QED BY <1>3, <1>4

LEMMA ReadStep ==
    ASSUME PlanningAssumption, PlanningInv, Read
    PROVE  PlanningInv'
BY DEF PlanningInv, Read, Go, Stages, Planned

LEMMA InferStep ==
    ASSUME PlanningAssumption, PlanningInv, Infer
    PROVE  PlanningInv'
<1>1. inputs \in Inputs /\ inputs' = inputs /\ stage' = "inferred"
    BY DEF PlanningInv, Infer, Go
<1>2. inputs.frequency \in Nat
    BY <1>1 DEF PlanningAssumption
<1>3. cadence' \in 1 .. 5
    BY <1>2, CadenceIsSmall DEF Infer
<1> QED BY <1>1, <1>3 DEF PlanningInv, Stages, Planned

LEMMA LayOutStep ==
    ASSUME PlanningAssumption, PlanningInv, LayOut
    PROVE  PlanningInv'
<1>1. /\ inputs \in Inputs /\ inputs' = inputs /\ stage' = "laid out"
      /\ cadence \in 1 .. 5 /\ cadence' = cadence
    BY DEF PlanningInv, LayOut, Go
<1>2. CASE inputs.deals
    <2>1. tasks' = DensePlan(inputs.target)
        BY <1>2 DEF LayOut
    <2>2. PICK plan : plan = DensePlan(inputs.target)
        OBVIOUS
    <2>3. /\ IsPlan(plan)
          /\ \A i \in DOMAIN plan : /\ plan[i].kind \in {"loot", "single"}
                                    /\ SettingsFit => IsTimely(plan[i])
        <3>1. inputs \in Inputs
            BY <1>1
        <3> QED BY ONLY PlanningAssumption, <2>2, <3>1, DenseSound
    <2>4. PlanFits'
        BY <1>1, <1>2, <2>1, <2>2, <2>3 DEF PlanFits
    <2> QED BY <1>1, <2>4 DEF PlanningInv, Stages, Planned
<1>3. CASE ~inputs.deals
    <2>1. tasks' = CuratedPlan(inputs, cadence, FormatCycle(mix))
        BY <1>3 DEF LayOut
    <2>2. /\ IsPlan(tasks') /\ Len(tasks') >= 1
          /\ \A i \in DOMAIN tasks' :
                /\ tasks'[i].kind = "none" /\ tasks'[i].day = (i - 1) \div cadence
                /\ SettingsFit => IsTimely(tasks'[i])
        <3>1. PICK cycle, plan : cycle = FormatCycle(mix) /\ plan = CuratedPlan(inputs, cadence, cycle)
            OBVIOUS
        <3>2. inputs \in Inputs /\ cadence \in 1 .. 5
            BY <1>1
        <3>3. /\ IsPlan(plan) /\ Len(plan) >= 1
              /\ \A i \in DOMAIN plan :
                    /\ plan[i].kind = "none" /\ plan[i].day = (i - 1) \div cadence
                    /\ SettingsFit => IsTimely(plan[i])
            BY ONLY PlanningAssumption, <3>1, <3>2, CuratedSound
        <3>4. tasks' = plan
            BY <2>1, <3>1
        <3> QED BY <3>3, <3>4
    <2>3. PlanFits'
        BY <1>1, <1>3, <2>2 DEF PlanFits, IsContentPlan
    <2> QED BY <1>1, <2>3 DEF PlanningInv, Stages, Planned
<1> QED BY <1>2, <1>3

\* Slots of a content plan are given away at the first of a day alone.
LEMMA GivingFits ==
    ASSUME PlanFits, ~inputs.deals, cadence \in 1 .. 5, inputs' = inputs, cadence' = cadence,
           PlanningAssumption, NEW away \in SUBSET DOMAIN tasks, NEW kind, NEW format,
           \A i \in away : (i - 1) % cadence = 0,
           tasks' = [i \in DOMAIN tasks |->
                        IF i \in away THEN Given(tasks[i], kind[i], format[i]) ELSE tasks[i]]
    PROVE  PlanFits'
<1> DEFINE item(i) == IF i \in away THEN Given(tasks[i], kind[i], format[i]) ELSE tasks[i]
<1>1. /\ Len(tasks) \in Nat /\ DOMAIN tasks = 1 .. Len(tasks)
      /\ \A i \in DOMAIN tasks : IsSlot(tasks[i])
      /\ SettingsFit => \A i \in DOMAIN tasks : IsTimely(tasks[i])
      /\ IsContentPlan(tasks, cadence)
    BY DEF PlanFits, IsPlan
<1>2. ASSUME NEW i \in DOMAIN tasks
      PROVE  /\ IsSlot(item(i)) /\ item(i).day = tasks[i].day
             /\ (i - 1) % cadence # 0 => item(i).kind = tasks[i].kind
             /\ SettingsFit => IsTimely(item(i))
    <2>1. CASE i \in away
        <3>1. item(i) = Given(tasks[i], kind[i], format[i])
            BY <2>1
        <3>2. /\ IsSlot(item(i)) /\ item(i).day = tasks[i].day /\ item(i).at = tasks[i].at
              /\ item(i).scrape = None
            BY <3>1, GivenFields
        <3>3. SettingsFit => IsTimely(tasks[i])
            BY <1>1
        <3>4. SettingsFit => IsTimely(item(i))
            <4> HIDE DEF item
            <4> QED BY <3>2, <3>3 DEF IsTimely
        <3> HIDE DEF item
        <3> QED BY <2>1, <3>2, <3>4
    <2>2. CASE i \notin away
        BY <1>1, <2>2
    <2> QED BY <2>1, <2>2
<1>3. tasks' = [i \in 1 .. Len(tasks) |-> item(i)]
    BY <1>1
<1> HIDE DEF item
<1>4. DOMAIN tasks' = DOMAIN tasks /\ Len(tasks') = Len(tasks)
    BY <1>1, <1>3
<1>5. \A i \in DOMAIN tasks : tasks'[i] = item(i)
    BY <1>1, <1>3
<1>6. IsPlan(tasks')
    BY <1>1, <1>2, <1>4, <1>5 DEF IsPlan
<1>7. SettingsFit => \A i \in DOMAIN tasks' : IsTimely(tasks'[i])
    BY <1>2, <1>4, <1>5
<1>8. IsContentPlan(tasks', cadence)
    BY <1>1, <1>2, <1>4, <1>5 DEF IsContentPlan
<1> QED BY <1>6, <1>7, <1>8 DEF PlanFits

LEMMA RetainStep ==
    ASSUME PlanningAssumption, PlanningInv, Retain
    PROVE  PlanningInv'
<1> DEFINE triggers == IF RetentionConcern(inputs) /\ tasks # <<>> THEN TriggersFor(inputs) ELSE <<>>
           nth(i) == ((i - 1) \div cadence) + 1
           away == {i \in DOMAIN tasks : (i - 1) % cadence = 0 /\ nth(i) \in DOMAIN triggers}
           kind == [i \in away |-> triggers[nth(i)]]
           format == [i \in away |-> TriggerFormat(triggers[nth(i)])]
<1>1. /\ inputs \in Inputs /\ inputs' = inputs /\ stage' = "retained"
      /\ cadence \in 1 .. 5 /\ cadence' = cadence /\ PlanFits
    BY DEF PlanningInv, Retain, Go, Planned, Stages
<1>2. /\ pledged' = triggers
      /\ tasks' = [i \in DOMAIN tasks |->
                     IF i \in away THEN Given(tasks[i], kind[i], format[i]) ELSE tasks[i]]
    BY DEF Retain
<1>3. inputs.deals \in BOOLEAN /\ (inputs.churn => inputs.delta # None)
    BY <1>1 DEF PlanningAssumption
<1>4. CASE inputs.deals
    <2>1. triggers = <<>>
        BY <1>4 DEF RetentionConcern
    <2>2. away = {}
        BY <2>1
    <2>3. /\ DOMAIN tasks' = DOMAIN tasks /\ Len(tasks') = Len(tasks)
          /\ \A i \in DOMAIN tasks : tasks'[i] = tasks[i]
        <3>1. Len(tasks) \in Nat /\ DOMAIN tasks = 1 .. Len(tasks)
            BY <1>1 DEF PlanFits, IsPlan
        <3> HIDE DEF away, kind, format
        <3> QED BY <1>2, <2>2, <3>1
    <2>4. PlanFits' /\ PledgeFits'
        BY <1>1, <1>2, <1>4, <2>1, <2>3 DEF PlanFits, PledgeFits, IsPlan
    <2> QED BY <1>1, <2>4 DEF PlanningInv, Stages, Planned
<1>5. CASE ~inputs.deals
    <2>1. PlanFits'
        <3>1. away \in SUBSET DOMAIN tasks /\ \A i \in away : (i - 1) % cadence = 0
            OBVIOUS
        <3> HIDE DEF away, kind, format
        <3> QED BY <1>1, <1>2, <1>5, <3>1, GivingFits
    <2>2. ASSUME triggers # <<>>
          PROVE  /\ triggers = TriggersFor(inputs)
                 /\ tasks'[1].kind = triggers[1] /\ tasks'[1].topic = triggers[1]
        <3>1. triggers = TriggersFor(inputs)
            BY <2>2
        <3>2. 1 \in DOMAIN triggers
            BY <3>1, FirstTrigger
        <3>3. nth(1) = 1 /\ (1 - 1) % cadence = 0
            BY <1>1
        <3>4. 1 \in DOMAIN tasks
            BY <1>1, <1>5 DEF PlanFits, IsPlan, IsContentPlan
        <3>5. 1 \in away /\ kind[1] = triggers[1]
            BY <3>2, <3>3, <3>4
        <3> HIDE DEF away, kind, format, triggers
        <3>6. tasks'[1] = Given(tasks[1], kind[1], format[1])
            BY <1>2, <3>4, <3>5
        <3> QED BY <3>1, <3>5, <3>6, GivenFields
    <2>3. inputs.churn => triggers = TriggersFor(inputs) /\ triggers # <<>>
        <3>1. tasks # <<>>
            BY <1>1, <1>5 DEF PlanFits, IsContentPlan
        <3>2. inputs.churn => triggers = TriggersFor(inputs)
            BY <1>5, <3>1 DEF RetentionConcern
        <3> QED BY <3>2, FirstTrigger
    <2> HIDE DEF triggers
    <2>4. /\ triggers # <<>> => triggers[1] \in {"reengage", "series", "weekly"}
          /\ inputs.churn => triggers[1] = "reengage"
        BY <1>3, <2>2, <2>3, FirstTrigger
    <2>5. PledgeFits'
        BY <1>1, <1>2, <1>5, <2>2, <2>3, <2>4 DEF PledgeFits
    <2> QED BY <1>1, <2>1, <2>5 DEF PlanningInv, Stages, Planned
<1> QED BY <1>3, <1>4, <1>5

LEMMA RecycleStep ==
    ASSUME PlanningAssumption, PlanningInv, Recycle
    PROVE  PlanningInv'
<1>1. /\ inputs \in Inputs /\ inputs' = inputs /\ stage' = "recycled" /\ pledged' = pledged
      /\ cadence \in 1 .. 5 /\ cadence' = cadence /\ PlanFits /\ PledgeFits
    BY DEF PlanningInv, Recycle, Go, Planned, Stages
<1>2. CASE inputs.deals
    <2>1. tasks' = tasks
        BY <1>2 DEF Recycle
    <2>2. PlanFits' /\ PledgeFits'
        BY <1>1, <2>1 DEF PlanFits, PledgeFits
    <2> QED BY <1>1, <2>2 DEF PlanningInv, Stages, Planned
<1>3. CASE ~inputs.deals
    <2> DEFINE away == {i \in DOMAIN tasks : /\ (i - 1) % cadence = 0
                                             /\ (i - 1) \div cadence \in
                                                  1 .. AtMost(inputs.proven, 3)}
               kind == [i \in away |-> "recycle"]
               format == [i \in away |-> Alternative(tasks[i].format)]
    <2>1. tasks' = [i \in DOMAIN tasks |->
                        IF i \in away THEN Given(tasks[i], kind[i], format[i]) ELSE tasks[i]]
        BY <1>3 DEF Recycle, Recycled
    <2>2. away \in SUBSET DOMAIN tasks /\ \A i \in away : (i - 1) % cadence = 0
        OBVIOUS
    <2>3. 1 \in DOMAIN tasks /\ 1 \notin away
        <3>1. (1 - 1) \div cadence = 0
            BY <1>1
        <3> QED BY <1>1, <1>3, <3>1 DEF PlanFits, IsPlan, IsContentPlan
    <2> HIDE DEF away, kind, format
    <2>4. PlanFits'
        BY <1>1, <1>3, <2>1, <2>2, GivingFits
    <2>5. tasks'[1] = tasks[1]
        BY <2>1, <2>3
    <2>6. PledgeFits'
        BY <1>1, <2>5 DEF PledgeFits
    <2> QED BY <1>1, <2>4, <2>6 DEF PlanningInv, Stages, Planned
<1> QED BY <1>2, <1>3

\* Topics change nothing that was laid out or given away.
LEMMA TopicsFit ==
    ASSUME PlanFits, PledgeFits, inputs' = inputs, cadence' = cadence, pledged' = pledged,
           NEW ranked, IsRanking(ranked), tasks' = WithTopics(tasks, ranked),
           inputs.deals \in BOOLEAN
    PROVE  PlanFits' /\ PledgeFits' /\ IsSpaced(tasks')
<1>1. IsPlan(tasks)
    BY DEF PlanFits
<1>2. /\ IsPlan(tasks') /\ DOMAIN tasks' = DOMAIN tasks /\ Len(tasks') = Len(tasks)
      /\ \A i \in DOMAIN tasks :
           /\ tasks'[i].day = tasks[i].day /\ tasks'[i].at = tasks[i].at
           /\ tasks'[i].scrape = tasks[i].scrape /\ tasks'[i].kind = tasks[i].kind
           /\ ~IsOpen(tasks[i]) => tasks'[i] = tasks[i]
      /\ IsSpaced(tasks')
    BY <1>1, TopicsSound
<1>3. SettingsFit => \A i \in DOMAIN tasks' : IsTimely(tasks'[i])
    <2>1. ASSUME SettingsFit, NEW i \in DOMAIN tasks PROVE IsTimely(tasks'[i])
        <3>1. IsTimely(tasks[i])
            BY <2>1 DEF PlanFits
        <3>2. tasks'[i].at = tasks[i].at /\ tasks'[i].scrape = tasks[i].scrape
            BY <1>2
        <3> QED BY <3>1, <3>2 DEF IsTimely
    <2> QED BY <1>2, <2>1
<1>4. PlanFits'
    BY <1>2, <1>3 DEF PlanFits, IsContentPlan
<1>5. ASSUME pledged # <<>> PROVE tasks'[1] = tasks[1]
    <2>1. ~inputs.deals /\ tasks[1].kind \in {"reengage", "series", "weekly"}
        BY <1>5 DEF PledgeFits
    <2>2. 1 \in DOMAIN tasks
        BY <2>1 DEF PlanFits, IsPlan, IsContentPlan
    <2>3. ~IsOpen(tasks[1])
        BY <2>1 DEF IsOpen, RetentionKinds
    <2> QED BY <1>2, <2>2, <2>3
<1>6. PledgeFits'
    BY <1>5 DEF PledgeFits
<1> QED BY <1>2, <1>4, <1>6

LEMMA InputsRank ==
    ASSUME PlanningAssumption, NEW in \in Inputs
    PROVE  IsRanking(in.topics) /\ in.deals \in BOOLEAN
<1>1. IsRanking(in.topics)
    BY DEF PlanningAssumption
<1>2. {in.deals, in.churn, in.lost, in.silent} \subseteq BOOLEAN
    BY DEF PlanningAssumption
<1>3. in.deals \in BOOLEAN
    BY ONLY <1>2
<1> QED BY ONLY <1>1, <1>3

LEMMA ReasonStep ==
    ASSUME PlanningAssumption, PlanningInv, Reason
    PROVE  PlanningInv'
<1>1. /\ inputs \in Inputs /\ inputs' = inputs /\ stage' = "reasoned" /\ pledged' = pledged
      /\ cadence \in 1 .. 5 /\ cadence' = cadence /\ PlanFits /\ PledgeFits
      /\ tasks' = WithTopics(tasks, inputs.topics)
    BY DEF PlanningInv, Reason, Go, Planned, Stages
<1>2. PlanFits' /\ PledgeFits' /\ IsSpaced(tasks')
    BY <1>1, InputsRank, TopicsFit
<1> QED BY <1>1, <1>2 DEF PlanningInv, Stages, Planned

LEMMA EnrichStep ==
    ASSUME PlanningAssumption, PlanningInv,
           NEW ranked \in TopicLists, Enrich(ranked)
    PROVE  PlanningInv'
<1>1. /\ inputs \in Inputs /\ inputs' = inputs /\ stage' = "saved" /\ pledged' = pledged
      /\ cadence \in 1 .. 5 /\ cadence' = cadence /\ PlanFits /\ PledgeFits
      /\ tasks' = WithTopics(tasks, ranked)
    BY DEF PlanningInv, Enrich, Enriched, Go, Planned, Stages
<1>2. IsRanking(ranked) /\ inputs.deals \in BOOLEAN
    BY <1>1, InputsRank DEF PlanningAssumption
<1>3. PlanFits' /\ PledgeFits' /\ IsSpaced(tasks')
    BY <1>1, <1>2, TopicsFit
<1> QED BY <1>1, <1>3 DEF PlanningInv, Stages, Planned

LEMMA EnrichFailsStep ==
    ASSUME PlanningInv, EnrichFails
    PROVE  PlanningInv'
<1>1. /\ inputs \in Inputs /\ inputs' = inputs /\ stage' = "saved" /\ pledged' = pledged
      /\ cadence \in 1 .. 5 /\ cadence' = cadence /\ PlanFits /\ PledgeFits
      /\ tasks' = tasks /\ IsSpaced(tasks)
    BY DEF PlanningInv, EnrichFails, Go, Planned, Stages
<1>2. PlanFits' /\ PledgeFits'
    BY <1>1 DEF PlanFits, PledgeFits
<1> QED BY <1>1, <1>2 DEF PlanningInv, Stages, Planned

LEMMA PlanningStutters ==
    ASSUME PlanningInv, UNCHANGED planningVars
    PROVE  PlanningInv'
<1>1. PlanFits' <=> PlanFits
    BY DEF PlanFits, planningVars
<1>2. PledgeFits' <=> PledgeFits
    BY DEF PledgeFits, planningVars
<1> QED BY <1>1, <1>2 DEF PlanningInv, planningVars

-----------------------------------------------------------------------------
(***************************************************************************)
(* The theorems.                                                           *)
(***************************************************************************)

\* The plan keeps its shape through every step of the agent (strategy.py:539-784).
THEOREM PlanningInvariance ==
    ASSUME PlanningAssumption
    PROVE  PlanningSpec => []PlanningInv
<1>1. PlanningInit => PlanningInv
    BY DEF PlanningInit, PlanningInv, Stages, Planned
<1>2. ASSUME PlanningInv, [PlanningNext]_planningVars
      PROVE  PlanningInv'
    <2>1. CASE Return
        BY <2>1 DEF Return, Go, PlanningInv, Stages, Planned
    <2> QED BY <1>2, <2>1, ReadStep, InferStep, LayOutStep, RetainStep, RecycleStep, ReasonStep,
               EnrichStep, EnrichFailsStep, PlanningStutters DEF PlanningNext
<1> QED BY <1>1, <1>2, PTL DEF PlanningSpec

\* The most urgent trigger is the first slot of what is saved, and no day has two slots that
\* are not regular content (strategy.py:661-692, 788-824; slot_reasons.py:162-244).
THEOREM UrgentIsFirst ==
    ASSUME PlanningAssumption
    PROVE  PlanningSpec => []UrgentTriggerIsFirst
<1>1. ASSUME NEW c \in 1 .. 5, NEW x \in Nat, NEW y \in Nat, x % c = 0, y % c = 0,
             x \div c = y \div c
      PROVE  x = y
    <2>1. c = 1 \/ c = 2 \/ c = 3 \/ c = 4 \/ c = 5
        OBVIOUS
    <2> QED BY <1>1, <2>1
<1>2. ASSUME PlanningInv, stage = "saved" PROVE UrgentTriggerIsFirst
    <2>1. PlanFits /\ PledgeFits /\ cadence \in 1 .. 5 /\ inputs.deals \in BOOLEAN
        BY <1>2, InputsRank DEF PlanningInv, Planned, Stages
    <2>2. ASSUME NEW i \in DOMAIN tasks, NEW j \in DOMAIN tasks,
                 IsSpecial(tasks[i]), IsSpecial(tasks[j]), i # j
          PROVE  tasks[i].day # tasks[j].day
        <3>1. tasks[i].kind \notin {"none", "loot", "single"} /\ tasks[j].kind # "none"
            BY <2>2 DEF IsSpecial, Triggers
        <3>2. IsContentPlan(tasks, cadence)
            BY <2>1, <3>1 DEF PlanFits
        <3>3. i - 1 \in Nat /\ j - 1 \in Nat /\ i - 1 # j - 1
            BY <2>1, <2>2 DEF PlanFits, IsPlan
        <3>4. /\ (i - 1) % cadence = 0 /\ tasks[i].day = (i - 1) \div cadence
              /\ (j - 1) % cadence = 0 /\ tasks[j].day = (j - 1) \div cadence
            <4>1. tasks[i].kind # "none" /\ tasks[j].kind # "none"
                BY ONLY <3>1
            <4> QED BY <2>2, <3>2, <4>1, Zenon DEF IsContentPlan
        <3>5. (i - 1) \div cadence # (j - 1) \div cadence
            BY ONLY <1>1, <2>1, <3>3, <3>4
        <3> QED BY <3>4, <3>5
    <2> QED BY <2>1, <2>2 DEF UrgentTriggerIsFirst, PledgeFits
<1>3. PlanningInv => UrgentTriggerIsFirst
    BY <1>2 DEF UrgentTriggerIsFirst
<1> QED BY <1>3, PlanningInvariance, PTL

\* A topic returns only after as many other slots as there are topics to choose from, four
\* at most, after the pass by rule and after the LLM's (slot_reasons.py:57-71, 162-244).
THEOREM TopicsApart ==
    ASSUME PlanningAssumption
    PROVE  PlanningSpec => []TopicsAreSpaced
<1>1. PlanningInv => TopicsAreSpaced
    BY DEF PlanningInv, TopicsAreSpaced
<1> QED BY <1>1, PlanningInvariance, PTL

\* A dispatcher that looks every DispatchMinutes from some minute on comes in time to a slot,
\* and to none at midnight.
LEMMA TimelyIsTaken ==
    ASSUME PlanningAssumption, SettingsFit, NEW slot, IsTimely(slot),
           NEW phase \in 0 .. DispatchMinutes - 1
    PROVE  slot.at # 0 <=> \E n \in 0 .. (1440 \div DispatchMinutes) - 1 :
                                IsDue(slot, n * DispatchMinutes + phase)
<1>1. /\ DispatchMinutes \in Nat \ {0} /\ LeadMinutes \in Nat
      /\ DispatchMinutes =< LeadMinutes
      /\ DispatchMinutes * (1440 \div DispatchMinutes) = 1440
    BY IntervalDividesDay DEF PlanningAssumption, SettingsFit
<1>2. PICK D \in Nat \ {0}, L \in Nat, N \in Int :
        D = DispatchMinutes /\ L = LeadMinutes /\ N = 1440 \div D
    BY <1>1
<1>3. N \in Nat /\ D * N = 1440 /\ D =< L /\ phase \in 0 .. D - 1
    BY <1>1, <1>2
<1>4. CASE slot.at = 0
    BY <1>2, <1>3, <1>4 DEF IsDue
<1>5. CASE slot.at # 0
    <2>1. PICK a \in 1 .. 1439 : a = slot.at
        BY <1>5 DEF IsTimely
    <2>2. a >= D /\ \/ slot.scrape = None
                    \/ L =< a /\ slot.scrape = a - L
        BY <1>2, <1>5, <2>1 DEF IsTimely
    <2>3. PICK n \in Nat : n * D + phase < a /\ a =< n * D + phase + D
        <3>1. D \in Nat \ {0} /\ phase \in 0 .. D - 1 /\ a \in Nat /\ a >= D
            BY <1>3, <2>1, <2>2
        <3>2. PICK m \in Nat : m = a - 1 - phase
            BY <3>1
        <3>3. PICK q \in Nat : q = m \div D
            BY ONLY <3>1, m \in Nat
        <3>4. q * D =< m /\ m < q * D + D
            BY ONLY <3>1, <3>3, m \in Nat
        <3>5. PICK v \in Int : v = q * D
            BY ONLY <3>1, q \in Nat
        <3>6. v + phase < a /\ a =< v + phase + D
            BY ONLY <3>1, <3>2, <3>4, <3>5
        <3>7. q * D + phase < a /\ a =< q * D + phase + D
            BY ONLY <3>5, <3>6
        <3> WITNESS q \in Nat
        <3> QED BY <3>7
    <2>4. n \in 0 .. N - 1
        <3>1. ASSUME NEW m \in Nat, NEW k \in Nat, NEW d \in Nat, m >= k
              PROVE  m * d >= d * k
            BY <3>1
        <3>2. n >= N => n * D >= 1440
            BY <1>3, <3>1
        <3> QED BY <1>3, <2>1, <2>3, <3>2, SMTT(30)
    <2>5. PICK now \in Nat : now = n * D + phase
        BY <1>3
    <2>6. now < a /\ a =< now + L
        BY <1>3, <2>3, <2>5
    <2>7. IsDue(slot, now)
        BY <1>2, <2>1, <2>2, <2>6 DEF IsDue
    <2>8. n \in 0 .. (1440 \div DispatchMinutes) - 1
        BY <1>2, <2>4
    <2>9. IsDue(slot, n * DispatchMinutes + phase)
        BY <1>2, <2>5, <2>7
    <2> QED BY <1>5, <2>8, <2>9
<1> QED BY <1>4, <1>5

\* Under settings that fit, as the default ones do, every slot but one at midnight is taken
\* whenever the dispatcher was started (strategy.py:434-536, 1031-1060).
THEOREM OnlyMidnight ==
    ASSUME PlanningAssumption, SettingsFit
    PROVE  PlanningSpec => []OnlyMidnightIsMissed
<1>1. ASSUME PlanningInv, stage = "saved", NEW i \in DOMAIN tasks,
             NEW phase \in 0 .. DispatchMinutes - 1
      PROVE  LET slot == [at |-> tasks[i].at, scrape |-> tasks[i].scrape]
             IN  slot.at # 0 <=> \E n \in 0 .. (1440 \div DispatchMinutes) - 1 :
                                    IsDue(slot, n * DispatchMinutes + phase)
    <2>1. IsTimely(tasks[i])
        BY <1>1 DEF PlanningInv, Planned, Stages, PlanFits
    <2>2. PICK slot : slot = [at |-> tasks[i].at, scrape |-> tasks[i].scrape]
        OBVIOUS
    <2>3. IsTimely(slot)
        BY <2>1, <2>2 DEF IsTimely
    <2> QED BY <1>1, <2>2, <2>3, TimelyIsTaken
<1>2. PlanningInv => OnlyMidnightIsMissed
    BY <1>1 DEF OnlyMidnightIsMissed
<1> QED BY <1>2, PlanningInvariance, PTL

\* What was inferred and laid out is still what the inputs say, until triggers are laid over it.
LaidOutInv ==
    /\ stage = "inferred" => mix = MixOf(inputs)
    /\ stage = "laid out" =>
          /\ mix = MixOf(inputs)
          /\ tasks = IF inputs.deals THEN DensePlan(inputs.target)
                     ELSE CuratedPlan(inputs, cadence, FormatCycle(mix))

LEMMA LaidOut ==
    PlanningSpec => []LaidOutInv
<1>1. PlanningInit => LaidOutInv
    BY DEF PlanningInit, LaidOutInv
<1>2. ASSUME LaidOutInv, [PlanningNext]_planningVars
      PROVE  LaidOutInv'
    <2>1. CASE Infer
        BY <2>1 DEF Infer, Go, LaidOutInv
    <2>2. CASE LayOut
        BY <1>2, <2>2 DEF LayOut, Go, LaidOutInv
    <2>3. CASE stage' \notin {"inferred", "laid out"}
        BY <2>3 DEF LaidOutInv
    <2>4. CASE UNCHANGED planningVars
        BY <1>2, <2>4 DEF planningVars, LaidOutInv
    <2>5. Read \/ Retain \/ Recycle \/ Reason \/ EnrichFails \/ Return
             => stage' \notin {"inferred", "laid out"}
        BY DEF Read, Retain, Recycle, Reason, EnrichFails, Return, Go
    <2>6. \A ranked : Enrich(ranked) => stage' \notin {"inferred", "laid out"}
        BY DEF Enrich, Go
    <2> QED BY <1>2, <2>1, <2>2, <2>3, <2>4, <2>5, <2>6 DEF PlanningNext
<1> QED BY <1>1, <1>2, PTL DEF PlanningSpec

\* Whatever rates and shares are read, a mix adds up to 100, and this much is left of what the
\* comments promise of it (strategy.py:88-152, 572-599).
THEOREM MixVaried ==
    ASSUME PlanningAssumption
    PROVE  PlanningSpec => []MixIsVaried
<1>1. ASSUME PlanningInv, LaidOutInv, stage = "inferred" PROVE MixIsVaried
    <2>1. inputs \in Inputs /\ mix = MixOf(inputs)
        BY <1>1 DEF PlanningInv, LaidOutInv
    <2>2. PICK content : content = ContentMix(inputs.shares, inputs.erBy, inputs.er)
        OBVIOUS
    <2> QED BY <2>1, <2>2, MixSound DEF MixIsVaried
<1>2. PlanningInv /\ LaidOutInv => MixIsVaried
    BY <1>1 DEF MixIsVaried
<1> QED BY <1>2, PlanningInvariance, LaidOut, PTL

\* Formats take turns in the plan that is laid out, whatever the mix and the cadence
\* (strategy.py:802-840).
THEOREM FormatsInterleaved ==
    ASSUME PlanningAssumption
    PROVE  PlanningSpec => []FormatsAreInterleaved
<1>1. ASSUME PlanningInv, LaidOutInv, stage = "laid out", ~inputs.deals
      PROVE  FormatsAreInterleaved
    <2>1. /\ inputs \in Inputs /\ mix = MixOf(inputs) /\ cadence \in 1 .. 5
          /\ tasks = CuratedPlan(inputs, cadence, FormatCycle(mix))
        BY <1>1 DEF PlanningInv, LaidOutInv, Stages
    <2>2. DOMAIN mix \subseteq Formats /\ DOMAIN mix # {} /\ \A f \in DOMAIN mix : mix[f] \in Nat
        <3>1. PICK content : content = ContentMix(inputs.shares, inputs.erBy, inputs.er)
            OBVIOUS
        <3> QED BY <2>1, <3>1, MixSound
    <2>3. Follows(tasks, Len(tasks), FormatCycle(mix))
        BY <2>1, CuratedSound
    <2>4. DOMAIN tasks = 1 .. Len(tasks)
        BY <2>3 DEF Follows
    <2>5. \A i, j \in 1 .. Len(tasks), g \in DOMAIN mix :
              /\ i < j /\ tasks[i].format = tasks[j].format
              /\ Turns(mix)[g] >= Turns(mix)[tasks[i].format]
              => \E k \in i .. j : tasks[k].format = g
        BY <2>2, <2>3, ContentTakesTurns
    <2> QED BY <2>4, <2>5 DEF FormatsAreInterleaved
<1>2. PlanningInv /\ LaidOutInv => FormatsAreInterleaved
    BY <1>1 DEF FormatsAreInterleaved
<1> QED BY <1>2, PlanningInvariance, LaidOut, PTL

\* A deals day has the posts its organisation asks for, in the split that is announced and in
\* the order of their times (strategy_profiles.py:52-66, strategy.py:434-490).
THEOREM SplitKept ==
    ASSUME PlanningAssumption, SettingsFit, SettingsAlternate
    PROVE  PlanningSpec => []SplitIsKept
<1>1. ASSUME PlanningInv, LaidOutInv, stage = "laid out", inputs.deals
      PROVE  SplitIsKept
    <2>1. inputs \in Inputs /\ tasks = DensePlan(inputs.target)
        BY <1>1 DEF PlanningInv, LaidOutInv, Stages
    <2>2. PICK target, counts, plan :
            /\ target = inputs.target /\ target \in Nat /\ counts = DealCounts(target)
            /\ plan = DensePlan(target) /\ plan = tasks
        BY <2>1 DEF PlanningAssumption
    <2>3. /\ Cardinality(SlotsOf(plan, "loot", "none")) = counts.loot
          /\ \A x \in {"Amazon", "Flipkart"} : Cardinality(SlotsOf(plan, "single", x)) = counts[x]
        BY <2>2, SplitSound
    <2>4. /\ CountOf("loot", "none") = Cardinality(SlotsOf(plan, "loot", "none"))
          /\ CountOf("single", "Amazon") = Cardinality(SlotsOf(plan, "single", "Amazon"))
          /\ CountOf("single", "Flipkart") = Cardinality(SlotsOf(plan, "single", "Flipkart"))
        BY <2>2 DEF CountOf, SlotsOf
    <2>5. Ascends(tasks) /\ (inputs.target # 0 => Len(tasks) = inputs.target)
        BY <2>1, DenseSound
    <2> QED BY <2>2, <2>3, <2>4, <2>5 DEF SplitIsKept, Ascends
<1>2. PlanningInv /\ LaidOutInv => SplitIsKept
    BY <1>1 DEF SplitIsKept
<1> QED BY <1>2, PlanningInvariance, LaidOut, PTL

-----------------------------------------------------------------------------
(***************************************************************************)
(* Types.  What was laid out has slots of the month and of the day, in     *)
(* known formats, and whatever replaces one keeps its time.                *)
(***************************************************************************)
Kinds == Triggers \cup {"none", "recycle", "loot", "single"}

\* What PlanningTypeOK says of a slot.
IsTyped(slot) ==
    /\ InPeriod(slot)
    /\ slot.format \in Formats
    /\ slot.kind \in Kinds

LEMMA SameTimeTyped ==
    ASSUME NEW old, NEW new, IsTyped(old), new.day = old.day, new.at = old.at,
           new.format \in Formats, new.kind \in Kinds
    PROVE  IsTyped(new)
BY DEF IsTyped, InPeriod

LEMMA PercentDomain ==
    ASSUME NEW w
    PROVE  DOMAIN InPercent(w) \subseteq DOMAIN w
<1> DEFINE pcts == [f \in {g \in DOMAIN w : w[g] > 0} |-> Round(w[f] * 100, SumFunction(w))]
           top == CHOOSE f \in DOMAIN pcts : \A g \in DOMAIN pcts : pcts[g] <= pcts[f]
<1>1. DOMAIN pcts \subseteq DOMAIN w
    OBVIOUS
<1>2. InPercent(w) = IF DOMAIN pcts = {} THEN pcts
                     ELSE [pcts EXCEPT ![top] = @ + 100 - SumFunction(pcts)]
    BY DEF InPercent
<1> HIDE DEF pcts, top
<1> QED BY <1>1, <1>2

LEMMA TriggersTyped ==
    ASSUME NEW in
    PROVE  TriggersFor(in) \in Seq(Triggers)
<1> DEFINE urgent == IF ChurnRisk(in) = "high" \/ in.silent THEN <<"reengage", "challenge">> ELSE <<>>
           habit == IF ChurnRisk(in) \in {"medium", "high"} \/ in.silent
                    THEN <<"series", "cliffhanger">> ELSE <<>>
<1>1. /\ <<"reengage", "challenge">> \in Seq(Triggers)
      /\ <<"series", "cliffhanger">> \in Seq(Triggers)
      /\ <<>> \in Seq(Triggers) /\ <<"weekly">> \in Seq(Triggers)
    BY DEF Triggers
<1>3. urgent \in Seq(Triggers) /\ habit \in Seq(Triggers)
    BY <1>1
<1>2. TriggersFor(in) = urgent \o habit \o <<"weekly">>
    BY DEF TriggersFor
<1> HIDE DEF urgent, habit
<1> QED BY <1>1, <1>2, <1>3

\* Slots that are given away keep their times, in formats that are known.
LEMMA GivingTyped ==
    ASSUME NEW plan, \A i \in DOMAIN plan : IsTyped(plan[i]), NEW away \in SUBSET DOMAIN plan,
           NEW kind, NEW format, \A i \in away : kind[i] \in Kinds /\ format[i] \in Formats,
           NEW new, new = [i \in DOMAIN plan |->
                             IF i \in away THEN Given(plan[i], kind[i], format[i]) ELSE plan[i]]
    PROVE  \A i \in DOMAIN new : IsTyped(new[i])
<1>1. ASSUME NEW i \in DOMAIN plan
      PROVE  IsTyped(new[i])
    <2>1. CASE i \in away
        <3>1. new[i] = Given(plan[i], kind[i], format[i])
            BY <2>1
        <3>2. /\ new[i].day = plan[i].day /\ new[i].at = plan[i].at
              /\ new[i].kind = kind[i] /\ new[i].format = format[i]
            BY <3>1, GivenFields
        <3>3. IsTyped(plan[i]) /\ kind[i] \in Kinds /\ format[i] \in Formats
            BY <2>1
        <3>4. PICK old, given : old = plan[i] /\ given = new[i]
            OBVIOUS
        <3>5. /\ IsTyped(old) /\ given.day = old.day /\ given.at = old.at
              /\ given.format \in Formats /\ given.kind \in Kinds
            BY ONLY <3>2, <3>3, <3>4
        <3>6. IsTyped(given)
            BY ONLY <3>5, SameTimeTyped
        <3> QED BY ONLY <3>4, <3>6
    <2>2. CASE i \notin away
        <3>1. new[i] = plan[i]
            BY <2>2
        <3> QED BY <3>1
    <2> QED BY <2>1, <2>2
<1> QED BY <1>1

LEMMA LaidOutTyped ==
    ASSUME PlanningAssumption, PlanningInv, LaidOutInv, PlanningTypeOK, LayOut
    PROVE  \A i \in DOMAIN tasks' : IsTyped(tasks'[i])
<1>1. inputs \in Inputs /\ cadence \in 1 .. 5 /\ mix = MixOf(inputs)
    BY DEF PlanningInv, LaidOutInv, LayOut, Go
<1>2. CASE inputs.deals
    <2>1. PICK plan : plan = DensePlan(inputs.target)
        OBVIOUS
    <2>2. \A i \in DOMAIN plan : /\ plan[i].kind \in {"loot", "single"}
                                 /\ InPeriod(plan[i]) /\ plan[i].format \in Formats
        <3>1. inputs \in Inputs
            BY <1>1
        <3> QED BY ONLY PlanningAssumption, <2>1, <3>1, DenseSound
    <2>3. tasks' = plan
        BY <1>2, <2>1 DEF LayOut
    <2> QED BY <2>2, <2>3 DEF IsTyped, InPeriod, Kinds
<1>3. CASE ~inputs.deals
    <2>1. PICK cycle, plan : cycle = FormatCycle(mix) /\ plan = CuratedPlan(inputs, cadence, cycle)
        OBVIOUS
    <2>2. /\ IsPlan(plan) /\ Follows(plan, Len(plan), cycle)
          /\ \A i \in DOMAIN plan : plan[i].kind = "none" /\ InPeriod(plan[i])
        <3>1. inputs \in Inputs /\ cadence \in 1 .. 5
            BY <1>1
        <3> QED BY ONLY PlanningAssumption, <2>1, <3>1, CuratedSound
    <2>3. DOMAIN mix \subseteq Formats /\ DOMAIN mix # {} /\ \A f \in DOMAIN mix : mix[f] \in Nat
        <3>1. PICK in, m, content : /\ in \in Inputs /\ in = inputs /\ m = MixOf(in)
                                    /\ content = ContentMix(in.shares, in.erBy, in.er)
            BY <1>1
        <3>2. DOMAIN m \subseteq Formats /\ DOMAIN m # {} /\ \A f \in DOMAIN m : m[f] \in 0 .. 100
            BY <3>1, MixSound
        <3> QED BY <1>1, <3>1, <3>2
    <2>4. \A i \in 1 .. Len(plan) : plan[i].format \in DOMAIN mix
        <3>1. Follows(plan, Len(plan), FormatCycle(mix))
            BY <2>1, <2>2
        <3>2. PICK n : n = Len(plan)
            OBVIOUS
        <3> QED BY <2>3, <3>1, <3>2, ContentTakesTurns
    <2>5. DOMAIN plan = 1 .. Len(plan)
        BY <2>2 DEF IsPlan
    <2>6. tasks' = plan
        BY <1>3, <2>1 DEF LayOut
    <2>7. ASSUME NEW i \in DOMAIN plan
          PROVE  IsTyped(plan[i])
        <3>1. plan[i].kind = "none" /\ InPeriod(plan[i])
            BY <2>2
        <3>2. plan[i].format \in Formats
            BY <2>3, <2>4, <2>5
        <3> QED BY <3>1, <3>2 DEF IsTyped, Kinds
    <2> QED BY <2>6, <2>7
<1> QED BY <1>2, <1>3

LEMMA RetainedTyped ==
    ASSUME PlanningAssumption, PlanningTypeOK, Retain
    PROVE  pledged' \in Seq(Triggers) /\ \A i \in DOMAIN tasks' : IsTyped(tasks'[i])
<1> DEFINE triggers == IF RetentionConcern(inputs) /\ tasks # <<>> THEN TriggersFor(inputs) ELSE <<>>
           nth(i) == ((i - 1) \div cadence) + 1
           away == {i \in DOMAIN tasks : (i - 1) % cadence = 0 /\ nth(i) \in DOMAIN triggers}
           kind == [i \in away |-> triggers[nth(i)]]
           format == [i \in away |-> TriggerFormat(triggers[nth(i)])]
<1>1. /\ pledged' = triggers
      /\ tasks' = [i \in DOMAIN tasks |->
                     IF i \in away THEN Given(tasks[i], kind[i], format[i]) ELSE tasks[i]]
    BY DEF Retain
<1>2. triggers \in Seq(Triggers)
    BY TriggersTyped
<1>3. \A i \in away : kind[i] \in Kinds /\ format[i] \in Formats
    <2> HIDE DEF triggers, nth
    <2>1. \A i \in away : triggers[nth(i)] \in Triggers
        BY <1>2
    <2> QED BY <2>1 DEF Kinds, TriggerFormat, Formats
<1>4. \A i \in DOMAIN tasks : IsTyped(tasks[i])
    BY DEF PlanningTypeOK, IsTyped, InPeriod, Kinds
<1>5. away \in SUBSET DOMAIN tasks
    OBVIOUS
<1> HIDE DEF triggers, away, kind, format
<1>6. PICK new : /\ new = tasks'
                 /\ new = [i \in DOMAIN tasks |->
                             IF i \in away THEN Given(tasks[i], kind[i], format[i]) ELSE tasks[i]]
    BY <1>1
<1>7. \A i \in DOMAIN new : IsTyped(new[i])
    BY ONLY <1>3, <1>4, <1>5, <1>6, GivingTyped
<1> QED BY <1>1, <1>2, <1>6, <1>7

LEMMA RecycledTyped ==
    ASSUME PlanningTypeOK, Recycle
    PROVE  \A i \in DOMAIN tasks' : IsTyped(tasks'[i])
<1>1. \A i \in DOMAIN tasks : IsTyped(tasks[i])
    BY DEF PlanningTypeOK, IsTyped, InPeriod, Kinds
<1>2. CASE inputs.deals
    BY <1>1, <1>2 DEF Recycle
<1>3. CASE ~inputs.deals
    <2> DEFINE away == {i \in DOMAIN tasks : /\ (i - 1) % cadence = 0
                                             /\ (i - 1) \div cadence \in
                                                  1 .. AtMost(inputs.proven, 3)}
               kind == [i \in away |-> "recycle"]
               format == [i \in away |-> Alternative(tasks[i].format)]
    <2>1. tasks' = [i \in DOMAIN tasks |->
                        IF i \in away THEN Given(tasks[i], kind[i], format[i]) ELSE tasks[i]]
        BY <1>3 DEF Recycle, Recycled
    <2>2. away \in SUBSET DOMAIN tasks
        OBVIOUS
    <2> HIDE DEF away
    <2>3. \A i \in away : kind[i] \in Kinds /\ format[i] \in Formats
        BY DEF Kinds, Alternative, Formats
    <2> HIDE DEF kind, format
    <2>4. PICK new : /\ new = tasks'
                     /\ new = [i \in DOMAIN tasks |->
                                 IF i \in away THEN Given(tasks[i], kind[i], format[i])
                                 ELSE tasks[i]]
        BY <2>1
    <2>5. \A i \in DOMAIN new : IsTyped(new[i])
        BY ONLY <1>1, <2>2, <2>3, <2>4, GivingTyped
    <2> QED BY <2>4, <2>5
<1> QED BY <1>2, <1>3

\* Topics leave times, formats and kinds alone.
LEMMA TopicsTyped ==
    ASSUME PlanningTypeOK, IsPlan(tasks), NEW ranked, IsRanking(ranked),
           tasks' = WithTopics(tasks, ranked)
    PROVE  \A i \in DOMAIN tasks' : IsTyped(tasks'[i])
<1>1. /\ DOMAIN tasks' = DOMAIN tasks
      /\ \A i \in DOMAIN tasks :
           /\ tasks'[i].day = tasks[i].day /\ tasks'[i].at = tasks[i].at
           /\ tasks'[i].kind = tasks[i].kind /\ tasks'[i].format = tasks[i].format
    BY TopicsSound
<1>2. \A i \in DOMAIN tasks : IsTyped(tasks[i])
    BY DEF PlanningTypeOK, IsTyped, InPeriod, Kinds
<1>3. ASSUME NEW i \in DOMAIN tasks
      PROVE  IsTyped(tasks'[i])
    <2>1. PICK old, new : old = tasks[i] /\ new = tasks'[i]
        OBVIOUS
    <2>2. /\ new.day = old.day /\ new.at = old.at /\ new.kind = old.kind
          /\ new.format = old.format /\ IsTyped(old)
        BY <1>1, <1>2, <2>1
    <2>3. new.format \in Formats /\ new.kind \in Kinds
        BY <2>2 DEF IsTyped
    <2>4. IsTyped(new)
        BY ONLY <2>2, <2>3, SameTimeTyped
    <2> QED BY <2>1, <2>4
<1> QED BY <1>1, <1>3

LEMMA PlanningStaysTyped ==
    ASSUME PlanningAssumption, PlanningInv, LaidOutInv, PlanningTypeOK,
           [PlanningNext]_planningVars
    PROVE  PlanningTypeOK'
<1>1. \A in \in Inputs : DOMAIN in = DOMAIN NoInputs
    BY DEF PlanningAssumption
<1>2. \A i \in DOMAIN tasks : IsTyped(tasks[i])
    BY DEF PlanningTypeOK, IsTyped, InPeriod, Kinds
<1>3. SUFFICES /\ stage' \in Stages /\ DOMAIN inputs' = DOMAIN NoInputs /\ cadence' \in Nat
               /\ DOMAIN mix' \subseteq Formats /\ pledged' \in Seq(Triggers)
               /\ \A i \in DOMAIN tasks' : IsTyped(tasks'[i])
    BY DEF PlanningTypeOK, IsTyped, InPeriod, Kinds
<1>4. CASE Read
    BY <1>1, <1>2, <1>4 DEF Read, Go, PlanningTypeOK, Stages
<1>5. CASE Infer
    <2>1. PICK in, m, content : /\ in \in Inputs /\ in = inputs /\ m = MixOf(in)
                                /\ content = ContentMix(in.shares, in.erBy, in.er)
        BY <1>5 DEF Infer, Go, PlanningInv
    <2>2. DOMAIN m \subseteq Formats
        BY <2>1, MixSound
    <2>3. cadence' \in 1 .. 5
        <3>1. in.frequency \in Nat
            BY <2>1 DEF PlanningAssumption
        <3> QED BY <1>5, <2>1, <3>1, CadenceIsSmall DEF Infer
    <2> QED BY <1>2, <1>5, <2>1, <2>2, <2>3 DEF Infer, Go, PlanningTypeOK, Stages
<1>6. CASE LayOut
    BY <1>6, LaidOutTyped DEF LayOut, Go, PlanningTypeOK, Stages
<1>7. CASE Retain
    BY <1>7, RetainedTyped DEF Retain, Go, PlanningTypeOK, Stages
<1>8. CASE Recycle
    BY <1>8, RecycledTyped DEF Recycle, Go, PlanningTypeOK, Stages
<1>9. CASE Reason
    <2>1. inputs \in Inputs /\ IsPlan(tasks)
        BY <1>9 DEF Reason, Go, PlanningInv, PlanFits, Planned, Stages
    <2>2. IsRanking(inputs.topics)
        BY <2>1, InputsRank
    <2>3. \A i \in DOMAIN tasks' : IsTyped(tasks'[i])
        BY <1>9, <2>1, <2>2, TopicsTyped DEF Reason
    <2> QED BY <1>9, <2>3 DEF Reason, Go, PlanningTypeOK, Stages
<1>10. ASSUME NEW ranked \in TopicLists, Enrich(ranked)
       PROVE  /\ stage' \in Stages /\ DOMAIN inputs' = DOMAIN NoInputs /\ cadence' \in Nat
              /\ DOMAIN mix' \subseteq Formats /\ pledged' \in Seq(Triggers)
              /\ \A i \in DOMAIN tasks' : IsTyped(tasks'[i])
    <2>1. inputs \in Inputs /\ IsPlan(tasks)
        BY <1>10 DEF Enrich, Go, PlanningInv, PlanFits, Planned, Stages
    <2>2. IsRanking(ranked)
        BY DEF PlanningAssumption
    <2>3. \A i \in DOMAIN tasks' : IsTyped(tasks'[i])
        BY <1>10, <2>1, <2>2, TopicsTyped DEF Enrich, Enriched
    <2>4. DOMAIN mix' \subseteq Formats
        <3>1. PICK counts :
                counts = [f \in {tasks[i].format : i \in DOMAIN tasks} |->
                            Cardinality({i \in DOMAIN tasks : tasks[i].format = f})]
            OBVIOUS
        <3>2. DOMAIN counts \subseteq Formats
            BY <1>2, <3>1 DEF IsTyped, InPeriod
        <3>3. mix' = InPercent(counts)
            BY <1>10, <3>1 DEF Enrich, Enriched
        <3> QED BY <3>2, <3>3, PercentDomain
    <2> QED BY <1>10, <2>3, <2>4 DEF Enrich, Go, PlanningTypeOK, Stages
<1>11. CASE EnrichFails
    BY <1>2, <1>11 DEF EnrichFails, Go, PlanningTypeOK, Stages
<1>12. CASE Return
    BY <1>12 DEF Return, Go, PlanningTypeOK, Stages
<1>13. CASE UNCHANGED planningVars
    BY <1>2, <1>13 DEF planningVars, PlanningTypeOK
<1> QED BY <1>4, <1>5, <1>6, <1>7, <1>8, <1>9, <1>10, <1>11, <1>12, <1>13
        DEF PlanningNext

\* A plan has slots of the month and of the day, in known formats and of known kinds, whatever
\* was read and however the plan was changed on the way (tools/strategy.py:802-840, 905-1010).
THEOREM PlanningTypeCorrect ==
    ASSUME PlanningAssumption
    PROVE  PlanningSpec => []PlanningTypeOK
<1>1. PlanningInit => PlanningTypeOK
    BY DEF PlanningInit, PlanningTypeOK, Stages, NoInputs
<1>2. PlanningInv /\ LaidOutInv /\ PlanningTypeOK /\ [PlanningNext]_planningVars
        => PlanningTypeOK'
    BY PlanningStaysTyped
<1> QED BY <1>1, <1>2, PlanningInvariance, LaidOut, PTL DEF PlanningSpec
=============================================================================
