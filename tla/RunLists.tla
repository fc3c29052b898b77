------------------------------ MODULE RunLists ------------------------------
(* What the lists of runs share: a row is a record with the status of a run, *)
(* its counts, labels, times and the gas and time of each of its steps.      *)
EXTENDS Lists, Functions

NoChoices == [k \in {} |-> {}]
RunSteps == {"setup", "test", "cleanup"}
RunStatuses == {"all", "passing", "failing", "timeout", "cancelled", "running"}
RunColumns == {"timestamp", "client", "image", "strategy", "suite", "duration",
               "mgas", "failed", "passed", "total"}

\* A run in progress has not run all its tests yet.
FailedIn(row) == IF row.status = "running" THEN row.failed ELSE row.total - row.passed

Ended(row) == row.status # "running"
Passing(row) == row.total > 0 /\ row.passed = row.total

StatusAllows(status, row) ==
    CASE status = "all"     -> TRUE
      [] status = "passing" -> FailedIn(row) <= 0
      [] status = "failing" -> FailedIn(row) # 0
      [] OTHER              -> row.status = status

\* Every key of the filters has one of the values chosen for it.
LabelsAllow(filters, labels) ==
    \A k \in DOMAIN filters : k \in DOMAIN labels /\ labels[k] \in filters[k]

\* A click on a value of an open label: a key without values is no filter.
ToggleValue(filters, k, v) ==
    LET was == IF k \in DOMAIN filters THEN filters[k] ELSE {}
        now == IF v \in was THEN was \ {v} ELSE was \cup {v}
    IN IF now = {} THEN Restrict(filters, DOMAIN filters \ {k})
       ELSE Over([j \in {k} |-> now], filters)
WithoutLabel(filters, k) == Restrict(filters, DOMAIN filters \ {k})

\* getIndexAggregatedStats: the sums over the chosen steps that the run has.
SumOf(row, steps, field) ==
    FoldSet(LAMBDA s, n : n + row.steps[s][field], 0, steps \cap DOMAIN row.steps)
RowRate(row, steps) == Rate(SumOf(row, steps, "gas"), SumOf(row, steps, "time"))

ColumnOf(row, column) ==
    CASE column = "timestamp" -> row.start
      [] column = "duration"  -> row.span
      [] column = "failed"    -> row.total - row.passed
      [] OTHER                -> row[column]
\* url: the column, the direction and the steps of a list.
RowBefore(a, b, url) ==
    LET x == IF url.dir = "asc" THEN a ELSE b
        y == IF url.dir = "asc" THEN b ELSE a
    IN IF url.sortBy = "mgas" THEN RateLess(RowRate(x, url.steps), RowRate(y, url.steps))
       ELSE ColumnOf(x, url.sortBy) < ColumnOf(y, url.sortBy)

\* A comparison takes the first of the runs there is room for.
Taken(chosen, ids, room) ==
    LET new == Among(ids, ToSet(ids) \ chosen)
    IN chosen \cup ToSet(SubSeq(new, 1, Min({room - Cardinality(chosen), Len(new)})))

StepTogglesAll(steps) ==
    {IF s \in steps THEN steps \ {s} ELSE steps \cup {s} : s \in RunSteps}

\* The last step that is on stays on.
StepToggles(steps) ==
    {IF s \in steps THEN steps \ {s} ELSE steps \cup {s} : s \in RunSteps} \ {{}}

Place(r, s) == CHOOSE i \in DOMAIN s : s[i] = r
Between(s, a, b) ==
    LET i == Place(a, s)  j == Place(b, s) IN SubSeq(s, Min({i, j}), Max({i, j}))
=============================================================================
