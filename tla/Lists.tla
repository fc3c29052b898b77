------------------------------- MODULE Lists -------------------------------
(* What the pages of the UI share to show a list: the order of a sort and *)
(* the slice of a page.                                                   *)
EXTENDS Integers, Sequences, SequencesExt, FiniteSetsExt

CONSTANT None   \* undefined

\* Array.prototype.sort, which is stable. Before(a, b): a sorts before b. (The whole
\* of a list is a SubSeq of it that TLC computes once.)
Sorted(s, Before(_, _)) ==
    LET place == [i \in DOMAIN s |->
            1 + Quantify(DOMAIN s, LAMBDA j :
                  Before(s[j], s[i]) \/ (j < i /\ ~Before(s[i], s[j])))]
    IN SubSeq([k \in DOMAIN s |-> s[CHOOSE i \in DOMAIN s : place[i] = k]], 1, Len(s))

\* By the numbers that key gives the members.
Upwards(s, key) == Sorted(s, LAMBDA a, b : key[a] < key[b])
Downwards(s, key) == Sorted(s, LAMBDA a, b : key[b] < key[a])

\* slice((page - 1) * size, page * size)
PageOf(s, page, size) ==
    SubSeq(s, (page - 1) * size + 1, Min({page * size, Len(s)}))

PageCount(s, size) == (Len(s) + size - 1) \div size

\* The page numbers a click can reach: the first, the last, two on each side of
\* the current one, and its neighbours by the arrows. With one page or none
\* there is nothing to click.
PageLinks(page, total) ==
    IF total <= 1 THEN {}
    ELSE {i \in 1..total : i \in {1, total} \/ (i >= page - 2 /\ i <= page + 2)}
           \cup (IF page = 1 THEN {} ELSE {page - 1})
           \cup (IF page = total THEN {} ELSE {page + 1})

\* The members of s that are in some, in order: filter().
Among(s, some) ==
    LET upTo[i \in 0..Len(s)] ==
            IF i = 0 THEN <<>>
            ELSE IF s[i] \in some THEN Append(upTo[i - 1], s[i]) ELSE upTo[i - 1]
    IN upTo[Len(s)]
\* The places in s that are in some, in order.
PlacesAmong(s, some) == Among([i \in DOMAIN s |-> i], some)
\* Those that satisfy P.
Kept(s, P(_)) == SelectSeq(s, P)

\* The fields of f, and those of base that f has not: {...base, ...f}.
Over(f, base) ==
    [x \in DOMAIN f \cup DOMAIN base |-> IF x \in DOMAIN f THEN f[x] ELSE base[x]]

\* The name another click on the header of a sorted column leads to.
Flip(dir) == IF dir = "asc" THEN "desc" ELSE "asc"

\* Rates are fractions <<gas, time>>; None, no rate, is less than any.
RateLess(a, b) ==
    IF a = None \/ b = None THEN a = None /\ b # None
    ELSE a[1] * b[2] < b[1] * a[2]

\* gas * 1000 / time, in units that make it gas / time.
Rate(gas, time) == IF time <= 0 \/ gas <= 0 THEN None ELSE <<gas, time>>

\* The value below which p percent of the ascending s lie, between neighbours
\* in proportion, times 100.
Percentile(s, p) ==
    IF s = <<>> THEN 0
    ELSE LET i == (p * (Len(s) - 1)) \div 100
             rest == (p * (Len(s) - 1)) % 100
         IN IF rest = 0 THEN 100 * s[i + 1]
            ELSE 100 * s[i + 1] + (s[i + 2] - s[i + 1]) * rest
Ascending(s) == Sorted(s, LAMBDA a, b : a < b)

\* runColorScale: how far v is below the best of values, in levels. The scale
\* is 15% of the best wide, or as wide as the values spread. None: no colour.
Shade(v, values, higher, levels) ==
    LET s == Ascending(Kept(values, LAMBDA x : x > 0))
        top == Percentile(s, IF higher THEN 90 ELSE 10)
        low == Percentile(s, IF higher THEN 10 ELSE 90)
        short == IF higher THEN top - 100 * v ELSE 100 * v - top
        width == Max({15 * top, 100 * (IF low < top THEN top - low ELSE low - top)})
    IN IF s = <<>> THEN None
       ELSE IF short <= 0 THEN 0
       ELSE Min({levels - 1, (100 * levels * short) \div width})

\* The ten steps of the colour scale: the multiples of the limit, in sixtieths,
\* from which a step holds. Step 4 begins at the limit.
ScaleSteps == <<180, 120, 90, 75, 60, 48, 40, 30, 20, 0>>
ThresholdStep(num, den) ==
    Min({i \in 0..9 : 60 * num >= ScaleSteps[i + 1] * den} \cup {9})

\* The bins of a histogram begin at these quarters of the limit.
BinStarts == <<0, 1, 2, 3, 4, 5, 6, 7, 8, 10, 12>>
Bin(num, den) == Max({i \in 0..10 : 4 * num >= BinStarts[i + 1] * den})
=============================================================================
