----------------------------- MODULE SuitesPage -----------------------------
(***************************************************************************)
(* The list of suites: those that runs of the index name, with what their  *)
(* summaries say once fetched, filtered by label and age, and grouped by   *)
(* labels or cut into pages. Suites and values of labels are numbers, in   *)
(* the order of their names.                                               *)
(***************************************************************************)
EXTENDS RunLists

CONSTANTS
    SpIndexes,     \* the index as time goes by: sequences of [suite, at]
    SpLabels,      \* suite -> its labels, the name left out
    SpNow,         \* the day of the visit
    SpSize,        \* suites on a page
    SpDays, DefaultSpDays, \* days without a run that make a suite inactive
    MostSpChanged  \* bound: parameters but the page away from their default

ASSUME SuitesAssumption ==
    /\ SpIndexes \in Seq(ToSet(SpIndexes))
    /\ \A entries \in ToSet(SpIndexes) :
         /\ entries \in Seq(ToSet(entries))
         /\ \A e \in ToSet(entries) : e.suite \in DOMAIN SpLabels \cup {None}
    /\ SpSize \in Nat \ {0} /\ DefaultSpDays \in SpDays

VARIABLES
    spAt,          \* the place in SpIndexes of the index last fetched, or 0
    spKnown,       \* suites whose summary has been fetched
    spUrl,         \* the search parameters
    spDrop         \* the open dropdown: <<"keys">> or <<"values", key>>

spVars == <<spAt, spKnown, spUrl, spDrop>>

SpColumns == {"lastRun", "hash", "runs"}
DefaultSpUrl ==
    [page |-> 1, sortBy |-> "lastRun", dir |-> "desc", groupBy |-> None,
     labels |-> NoChoices, hide |-> TRUE, days |-> DefaultSpDays]

SpKeys == UNION {DOMAIN SpLabels[h] : h \in DOMAIN SpLabels}

SpTypeOK ==
    /\ spAt \in 0..Len(SpIndexes) /\ spKnown \subseteq DOMAIN SpLabels
    /\ DOMAIN spUrl = DOMAIN DefaultSpUrl /\ spUrl.page \in Nat \ {0}
    /\ spUrl.sortBy \in SpColumns /\ spUrl.days \in SpDays
    /\ spUrl.groupBy # None => ToSet(spUrl.groupBy) \subseteq SpKeys \cup {"context"}
    /\ \A k \in DOMAIN spUrl.labels : spUrl.labels[k] # {}
    /\ spDrop \in {None, <<"keys">>} \cup {<<"values", k>> : k \in SpKeys}

-----------------------------------------------------------------------------
(* The suites of the index. *)

SpEntries == IF spAt = 0 THEN <<>> ELSE SpIndexes[spAt]
\* In the order of their first entries. A run may have no suite.
FirstEntries == {i \in DOMAIN SpEntries :
    /\ SpEntries[i].suite # None
    /\ ~\E j \in 1..(i - 1) : SpEntries[j].suite = SpEntries[i].suite}
SuitesAt(entries) ==
    LET places == PlacesAmong(SpEntries, entries)
    IN [k \in DOMAIN places |-> SpEntries[places[k]].suite]
SpSuites == SuitesAt(FirstEntries)
SpRuns(h) == {i \in DOMAIN SpEntries : SpEntries[i].suite = h}
LastRun(h) == Max({SpEntries[i].at : i \in SpRuns(h)})
Inactive(h) == SpNow - LastRun(h) > spUrl.days

SpFetched == spKnown \cap {SpEntries[i].suite : i \in DOMAIN SpEntries}
SpLabelsOf(h) == IF h \in SpFetched THEN SpLabels[h] ELSE <<>>
SpLabelKeys == UNION {DOMAIN SpLabels[h] : h \in SpFetched}
SpValuesOf(k) == {SpLabels[h][k] : h \in {x \in SpFetched : k \in DOMAIN SpLabels[x]}}

Visible(h) == LabelsAllow(spUrl.labels, SpLabelsOf(h)) /\ (spUrl.hide => ~Inactive(h))
VisibleEntries == {i \in FirstEntries : Visible(SpEntries[i].suite)}
VisibleSuites == SuitesAt(VisibleEntries)

-----------------------------------------------------------------------------
(* The tables: one for each group, or one for the page. *)

\* By the label "context", unless the URL names other keys or none.
SpGroupKeys == IF spUrl.groupBy = None THEN <<"context">> ELSE spUrl.groupBy
NoValue == 0   \* "(no value)" sorts before any other
SpValues(h) ==
    [i \in DOMAIN SpGroupKeys |->
       IF SpGroupKeys[i] \in DOMAIN SpLabelsOf(h) THEN SpLabelsOf(h)[SpGroupKeys[i]]
       ELSE NoValue]

\* Groups without an active suite come last, before them those that lack a value.
SpRank(g) == IF \A h \in ToSet(g.suites) : Inactive(h) THEN 2 ELSE 0
SpGroupBefore(a, b) ==
    LET ra == SpRank(a) + (IF NoValue \in ToSet(a.values) THEN 1 ELSE 0)
        rb == SpRank(b) + (IF NoValue \in ToSet(b.values) THEN 1 ELSE 0)
        differ == {i \in DOMAIN a.values : a.values[i] # b.values[i]}
    IN ra < rb \/ (ra = rb /\ differ # {} /\ a.values[Min(differ)] < b.values[Min(differ)])
SpGroups ==
    LET labelled == FoldLeft(LAMBDA s, h : IF SpValues(h) \in ToSet(s) THEN s
                                           ELSE Append(s, SpValues(h)), <<>>, VisibleSuites)
    IN Sorted([i \in DOMAIN labelled |->
                 [values |-> labelled[i],
                  suites |-> Kept(VisibleSuites, LAMBDA h : SpValues(h) = labelled[i])]],
              SpGroupBefore)

SpColumnOf(h) ==
    CASE spUrl.sortBy = "lastRun" -> LastRun(h)
      [] spUrl.sortBy = "hash"    -> h
      [] OTHER                    -> Cardinality(SpRuns(h))
\* A table sorts the suites it is given: one page, or one group.
SuitesTable(suites) ==
    Sorted(suites, LAMBDA a, b : IF spUrl.dir = "asc" THEN SpColumnOf(a) < SpColumnOf(b)
                                 ELSE SpColumnOf(b) < SpColumnOf(a))
SuiteTables ==
    IF SpGroupKeys # <<>> THEN LET gs == SpGroups
                               IN [i \in DOMAIN gs |-> SuitesTable(gs[i].suites)]
    ELSE <<SuitesTable(PageOf(VisibleSuites, spUrl.page, SpSize))>>

-----------------------------------------------------------------------------
(* The clicks. Any of them but those on the open dropdown closes it. *)

SpChanged(url) == {p \in DOMAIN url \ {"page"} : url[p] # DefaultSpUrl[p]}
SpGo(changes, drop) ==
    /\ FirstEntries # {}
    /\ spUrl' = Over(changes, spUrl) /\ spDrop' = drop
    /\ Cardinality(SpChanged(spUrl')) <= MostSpChanged
    /\ UNCHANGED <<spAt, spKnown>>

SetInactive == \E d \in SpDays : SpGo([days |-> d, page |-> 1], None)
ToggleHide == SpGo([hide |-> ~spUrl.hide, page |-> 1], None)

ToggleGroupByKey == \E k \in SpLabelKeys :
    SpGo([groupBy |-> IF k \in ToSet(SpGroupKeys)
                      THEN Among(SpGroupKeys, ToSet(SpGroupKeys) \ {k})
                      ELSE Append(SpGroupKeys, k),
          page |-> 1], None)

\* The sort stays on its page.
SortSuites == \E c \in SpColumns :
    /\ VisibleSuites # <<>>
    /\ SpGo([sortBy |-> c, dir |-> IF spUrl.sortBy = c /\ spUrl.dir = "desc" THEN "asc"
                                   ELSE "desc"], None)

TurnSuitesPage ==
    /\ SpGroupKeys = <<>>
    /\ \E p \in PageLinks(spUrl.page, PageCount(VisibleSuites, SpSize)) :
         spUrl' = [spUrl EXCEPT !.page = p] /\ spDrop' = None /\ UNCHANGED <<spAt, spKnown>>

\* The bar of label filters has a chip for each key that is filtered, and one
\* for the key just added, until its values are closed.
SpOpen(drop) == spDrop' = drop /\ UNCHANGED <<spAt, spKnown, spUrl>>
SpChips == DOMAIN spUrl.labels \cup (IF spDrop \in {None, <<"keys">>} THEN {} ELSE {spDrop[2]})

OpenKeys ==
    /\ SpLabelKeys \ SpChips # {}
    /\ SpOpen(IF spDrop = <<"keys">> THEN None ELSE <<"keys">>)
AddKey ==
    /\ spDrop = <<"keys">>
    /\ \E k \in SpLabelKeys \ SpChips : SpOpen(<<"values", k>>)
ClickChip == \E k \in SpChips :
    /\ SpLabelKeys # {}
    /\ SpOpen(IF spDrop = <<"values", k>> THEN None ELSE <<"values", k>>)
CloseDropdown == spDrop # None /\ SpOpen(None)

ToggleFilterValue ==
    /\ spDrop \notin {None, <<"keys">>}
    /\ \E v \in SpValuesOf(spDrop[2]) :
         SpGo([labels |-> ToggleValue(spUrl.labels, spDrop[2], v), page |-> 1], spDrop)
RemoveFilterKey == \E k \in DOMAIN spUrl.labels :
    /\ SpLabelKeys # {}
    /\ SpGo([labels |-> WithoutLabel(spUrl.labels, k), page |-> 1], None)

-----------------------------------------------------------------------------
(* The answers. *)

\* Without a key of labels there is no bar, and nothing of it is kept.
PollSuites == \E i \in (IF spAt = 0 THEN 1 ELSE spAt)..Len(SpIndexes) :
    /\ spAt' = i /\ UNCHANGED <<spKnown, spUrl>>
    /\ spDrop' = IF SpLabelKeys' = {} THEN None ELSE spDrop

FetchSummary == \E h \in ToSet(SpSuites) \ spKnown :
    spKnown' = spKnown \cup {h} /\ UNCHANGED <<spAt, spUrl, spDrop>>

SpInit == spAt = 0 /\ spKnown = {} /\ spUrl = DefaultSpUrl /\ spDrop = None

SpNext ==
    \/ SetInactive \/ ToggleHide \/ ToggleGroupByKey \/ SortSuites \/ TurnSuitesPage
    \/ OpenKeys \/ AddKey \/ ClickChip \/ CloseDropdown
    \/ ToggleFilterValue \/ RemoveFilterKey
    \/ PollSuites \/ FetchSummary

SpSpec == SpInit /\ [][SpNext]_spVars

-----------------------------------------------------------------------------
(* Properties. *)

SpPageFits ==
    SpGroupKeys = <<>> => spUrl.page = 1 \/ spUrl.page <= PageCount(VisibleSuites, SpSize)
\* While the index stays as it is, no click and no summary leads from a page with
\* suites to one without ("Drop the inactive suites so empty groups and pages do not
\* appear", SuitesPage.tsx). When suites leave the index, one may.
SuitesKeepRows == spAt' = spAt /\ SpPageFits => SpPageFits'
=============================================================================
