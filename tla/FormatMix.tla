------------------------------ MODULE FormatMix ------------------------------
(***************************************************************************)
(* How much of which format a plan holds: the arithmetic of                *)
(* tools/strategy.py on shares of formats.  A mix is a function from the   *)
(* formats in it to weights, or to percentages.  Only the ratios of        *)
(* weights count, so they are whole numbers without a unit: a step that    *)
(* takes a fraction of some multiplies the others.                         *)
(***************************************************************************)
EXTENDS Integers, FiniteSets, Functions

Formats == {"article", "link", "meme", "photo", "poll", "text", "video"}
Visual == {"photo", "meme", "video"}

\* The alphabetic order in which ties are broken, of formats and of marketplaces.
SortedNames == <<"Amazon", "Flipkart", "article", "link", "meme", "photo", "poll", "text", "video">>
NamePlace(name) == CHOOSE i \in DOMAIN SortedNames : SortedNames[i] = name

\* Python's round(a / b): halves go to the even neighbour.
Round(a, b) ==
    LET q == a \div b
        r == 2 * (a % b)
    IN  IF r > b \/ (r = b /\ q % 2 = 1) THEN q + 1 ELSE q

AtMost(n, bound) == IF n < bound THEN n ELSE bound
AtLeast(n, bound) == IF n > bound THEN n ELSE bound

\* Variant: the rounding drift is left.
WithDrift(w) ==
    LET total == SumFunction(w)
    IN  [f \in {g \in DOMAIN w : w[g] > 0} |-> Round(w[f] * 100, total)]

\* _normalise_to_pct: percentages, the largest of which takes the rounding drift.
InPercent(w) ==
    LET total == SumFunction(w)
        pcts  == [f \in {g \in DOMAIN w : w[g] > 0} |-> Round(w[f] * 100, total)]
        top   == CHOOSE f \in DOMAIN pcts : \A g \in DOMAIN pcts : pcts[g] <= pcts[f]
    IN  IF DOMAIN pcts = {} THEN pcts
        ELSE [pcts EXCEPT ![top] = @ + 100 - SumFunction(pcts)]

\* What is planned where nothing is known.
DefaultMix == [f \in {"article", "photo", "poll"} |-> IF f = "article" THEN 4 ELSE 3]

\* A photo for every ten thirteenths of other formats.
WithVisual(w) ==
    IF DOMAIN w \cap Visual # {} THEN w
    ELSE [f \in DOMAIN w \cup {"photo"} |->
            IF f \in DOMAIN w THEN 10 * w[f] ELSE 3 * SumFunction(w)]

\* A format above 55 % gives the excess to the others, in equal parts; one at most is.
Capped(w) ==
    LET total  == SumFunction(w)
        big    == CHOOSE f \in DOMAIN w : \A g \in DOMAIN w : w[g] <= w[f]
        others == Cardinality(DOMAIN w \ {big})
    IN  IF 20 * w[big] <= 11 * total \/ others = 0 THEN w
        ELSE [f \in DOMAIN w |-> IF f = big THEN 11 * total * others
                                 ELSE 20 * others * w[f] + 20 * w[big] - 11 * total]

\* _enforce_format_variety
Varied(w) ==
    LET some == [f \in {g \in DOMAIN w : w[g] > 0} |-> w[f]]
    IN  IF DOMAIN some = {} THEN DefaultMix ELSE Capped(WithVisual(some))

\* The share of each format by how it engages, compared with the average.
ByEngagement(w, er, avg) ==
    IF DOMAIN er = {} \/ avg <= 0 THEN w
    ELSE [f \in DOMAIN w |-> w[f] * (IF f \in DOMAIN er THEN er[f] ELSE avg)]

\* Polls are two of five.
MorePolls(w) ==
    LET others == SumFunctionOnSet(w, DOMAIN w \ {"poll"})
    IN  [f \in DOMAIN w \cup {"poll"} |-> IF f = "poll" THEN 2 * AtLeast(others, 1) ELSE 3 * w[f]]

\* What the profile found, by how it engages; avg is negative where there is no rate.
Engaging(shares, er, avg) ==
    ByEngagement(IF DOMAIN shares = {} THEN DefaultMix ELSE shares, er, avg)

\* compute_content_mix of a content channel.
ContentMix(shares, er, avg) ==
    LET adjusted == Engaging(shares, er, avg)
    IN  InPercent(Varied(IF avg \in 0 .. 29 THEN MorePolls(adjusted) ELSE adjusted))

DealsMix == [f \in {"photo", "link"} |-> IF f = "photo" THEN 75 ELSE 25]

\* boost_format: 12 points more for one format.
Boosted(mix, fmt) ==
    IF DOMAIN mix = {} THEN mix
    ELSE InPercent([f \in DOMAIN mix \cup {fmt} |->
                      (IF f \in DOMAIN mix THEN mix[f] ELSE 0) + (IF f = fmt THEN 12 ELSE 0)])

-----------------------------------------------------------------------------
\* Variant: name after name.
BeforeByName(p, q) ==
    NamePlace(p.name) < NamePlace(q.name) \/ (p.name = q.name /\ p.i < q.i)

\* Occurrence i of n lies at (2i - 1) / 2n of the cycle; the one with the smaller name is
\* first of two at one place.
Before(p, q) ==
    LET left  == (2 * p.i - 1) * q.n
        right == (2 * q.i - 1) * p.n
    IN  left < right \/ (left = right /\ NamePlace(p.name) < NamePlace(q.name))

\* The names of a function to counts, each as often as it says, spread evenly.
Interleaved(counts) ==
    LET all  == UNION {{[name |-> x, i |-> i, n |-> counts[x]] : i \in 1 .. counts[x]} :
                         x \in DOMAIN counts}
        rank == [o \in all |-> Cardinality({p \in all : Before(p, o)}) + 1]
    IN  [r \in 1 .. Cardinality(all) |-> (CHOOSE o \in all : rank[o] = r).name]

\* How often a turn of the cycle has each format.
Turns(mix) == [f \in DOMAIN mix |-> AtLeast(Round(mix[f], 10), 1)]

\* _weighted_format_cycle
FormatCycle(mix) == Interleaved(Turns(mix))
=============================================================================
