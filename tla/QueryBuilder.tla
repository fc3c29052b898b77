---------------------------- MODULE QueryBuilder ----------------------------
(***************************************************************************)
(* The query builder: a form that composes a query on a table of the       *)
(* index, the URL that keeps the form, and the answers. A query is asked   *)
(* by hand first; from then on, turning pages and sorting ask again.       *)
(*                                                                         *)
(* The library keeps an answer per query and shows the one of the current  *)
(* query, if any. Rows of the form carry distinct ids, of which only the   *)
(* place in the list is kept.                                              *)
(***************************************************************************)
EXTENDS Lists, Functions

CONSTANTS
    QbGroups,        \* table -> its columns, in groups
    QbOperators, QbValues,     \* what is chosen and typed in a filter
    QbPresets,       \* the example queries
    DefaultQbLimit, MostQbLimit, QbNumbers,    \* limit and what is typed as a number
    \* bounds
    QbTogether,      \* sets of fields that are changed together
    QbAsked,         \* sets of fields that are changed when a query is asked
    MostQbEntries,   \* filters, and orders
    MostQbRows, MostQbOffset, MostQbAnswers

VARIABLES
    query,       \* the state of the form
    qbPreset,    \* the preset whose list of orders the form holds; 0: a list of its own
    qbReady,     \* the address of the API is known
    qbAnswers,   \* query -> rows of its answer
    qbAsking,    \* queries that are under way
    qbExecuted   \* hasExecuted

qbVars == <<query, qbPreset, qbReady, qbAnswers, qbAsking, qbExecuted>>

Tables == DOMAIN QbGroups
NoText == ""      \* of a filter just added
IsValues == {"null", "true", "false"}
ColumnsOf(t) == UNION {ToSet(QbGroups[t][i]) : i \in DOMAIN QbGroups[t]}
EmptyQuery(t) ==
    [endpoint |-> t, filters |-> <<>>, orders |-> <<>>, limit |-> DefaultQbLimit,
     offset |-> 0, columns |-> <<>>, count |-> FALSE]

\* The queries on a table.
Filters(t) == [column : ColumnsOf(t), operator : QbOperators, value : QbValues \cup IsValues]
Orders(t) == [column : ColumnsOf(t), dir : {"asc", "desc"}]
Queries(t) ==
    [endpoint : {t}, filters : Seq(Filters(t)), orders : Seq(Orders(t)),
     limit : 1..MostQbLimit, offset : Nat, columns : Seq(ColumnsOf(t)), count : BOOLEAN]

\* Each table has a first column, and each preset is a query on its table. No
\* group and no preset has a column twice.
QbAssumption ==
    /\ "runs" \in Tables /\ "eq" \in QbOperators /\ NoText \in QbValues
    /\ \A t \in Tables : /\ \A i \in DOMAIN QbGroups[t] :
                             QbGroups[t][i] \in Seq(ColumnsOf(t)) /\ IsInjective(QbGroups[t][i])
                         /\ 1 \in DOMAIN QbGroups[t] /\ 1 \in DOMAIN QbGroups[t][1]
    /\ MostQbLimit \in Nat /\ DefaultQbLimit \in 1..MostQbLimit /\ QbNumbers \subseteq Int
    /\ MostQbRows \in Nat
    /\ Len(QbPresets) \in Nat /\ DOMAIN QbPresets = 1..Len(QbPresets)
    /\ \A i \in DOMAIN QbPresets :
         /\ QbPresets[i].endpoint \in Tables /\ QbPresets[i] \in Queries(QbPresets[i].endpoint)
         /\ IsInjective(QbPresets[i].columns)
ASSUME QueryBuilderAssumption == QbAssumption

QbTypeOK ==
    /\ query.endpoint \in Tables /\ query \in Queries(query.endpoint)
    /\ IsInjective(query.columns)
    /\ qbPreset \in 0..Len(QbPresets) /\ qbReady \in BOOLEAN
    /\ \A k \in DOMAIN qbAnswers : qbAnswers[k] \in 0..k.limit
    /\ IsFiniteSet(qbAsking) /\ qbExecuted \in BOOLEAN

-----------------------------------------------------------------------------
(* The URL. What equals its default is left out. *)

ToParams(q) ==
    [n \in {m \in DOMAIN q : q[m] # EmptyQuery("runs")[m]} |-> q[n]]

Clamped(n) == Min({Max({1, n}), MostQbLimit})

\* Columns and operators that the table does not have are dropped.
Fitting(q) ==
    LET columns == ColumnsOf(q.endpoint)
    IN [q EXCEPT
          !.filters = Among(@, {f \in ToSet(@) : f.column \in columns /\ f.operator \in QbOperators}),
          !.orders = Among(@, {o \in ToSet(@) : o.column \in columns}),
          !.columns = Among(@, columns),
          !.limit = Clamped(@),
          !.offset = Max({0, @})]
FromParams(p) ==
    IF DOMAIN p = {} THEN EmptyQuery("runs") ELSE Fitting(Over(p, EmptyQuery("runs")))

\* The request. A filter without a value is not sent, but for IS.
Key(q) ==
    [q EXCEPT !.filters = Kept(@, LAMBDA f : f.value # NoText \/ f.operator = "is")]

QbFetching == Key(query) \in qbAsking
QbShown == Key(query) \in DOMAIN qbAnswers      \* data
QbRows == qbAnswers[Key(query)]

\* Bounds.
QbFieldsIn(q, sets) ==
    \E fields \in {DOMAIN ToParams(q)} : \E t \in sets : fields \subseteq t
QbMay(q) ==
    /\ QbFieldsIn(q, QbTogether)
    /\ Max({Len(q.filters), Len(q.orders)}) <= MostQbEntries
    /\ ~QbFieldsIn(q, QbAsked) => Cardinality(DOMAIN qbAnswers \cup qbAsking) < MostQbAnswers
QbMayAsk(q) ==
    /\ QbFieldsIn(q, QbAsked)
    /\ Cardinality(DOMAIN qbAnswers \cup qbAsking \cup {Key(q)}) <= MostQbAnswers

-----------------------------------------------------------------------------
(* A change of the form and the effects it runs, in their order: an answer  *)
(* that comes into view counts as an execution, a change of table forgets   *)
(* it, a new offset or a new list of orders asks once there was one.        *)

AnswerInView(q) == Key(q) # Key(query) /\ Key(q) \in DOMAIN qbAnswers
ExecutedWith(q) ==
    q.endpoint = query.endpoint /\ (qbExecuted \/ AnswerInView(q))
\* Mutant of Asks: the effect that asks runs before the one that forgets.
AsksFirst(q, fresh) ==
    (qbExecuted \/ AnswerInView(q)) /\ (fresh \/ q.offset # query.offset)
Asks(q, fresh) == ExecutedWith(q) /\ (fresh \/ q.offset # query.offset)

\* fresh: the list of orders is another one than before.
Change(q, preset, fresh) ==
    /\ qbReady /\ QbMay(q)
    /\ Asks(q, fresh) => QbMayAsk(q)
    /\ query' = q /\ qbPreset' = preset
    /\ qbExecuted' = ExecutedWith(q)
    /\ qbAsking' = IF Asks(q, fresh) THEN qbAsking \cup {Key(q)} ELSE qbAsking
    /\ UNCHANGED <<qbReady, qbAnswers>>
ChangeQuery(q) == Change(q, qbPreset, FALSE)
ChangeOrders(s) == Change([query EXCEPT !.orders = s], 0, TRUE)

\* Mutant of TableChosen: the rest of the query stays.
TableChosenOnly(t) == [query EXCEPT !.endpoint = t]
TableChosen(t) == EmptyQuery(t)
SetTable == \E t \in Tables : Change(TableChosen(t), 0, TRUE)

LoadPreset ==
    \E i \in DOMAIN QbPresets : Change(QbPresets[i], i, qbPreset # i)

FirstColumn == QbGroups[query.endpoint][1][1]
AddFilter ==
    ChangeQuery([query EXCEPT !.filters =
                   Append(@, [column |-> FirstColumn, operator |-> "eq", value |-> NoText])])
\* IS offers a list, which shows its first entry when it lacks the value: choosing
\* what is shown is no change.
FilterShown(f) ==
    IF f.operator = "is" /\ f.value \notin IsValues THEN "null" ELSE f.value
UpdateFilter ==
    \E i \in DOMAIN query.filters :
      LET f == query.filters[i]
          With(g) == g # f /\ ChangeQuery([query EXCEPT !.filters[i] = g])
      IN \/ \E c \in ColumnsOf(query.endpoint) : With([f EXCEPT !.column = c])
         \/ \E o \in QbOperators : With([f EXCEPT !.operator = o])
         \/ \E v \in (IF f.operator = "is" THEN IsValues ELSE QbValues) \ {FilterShown(f)} :
              With([f EXCEPT !.value = v])
RemoveFilter ==
    \E i \in DOMAIN query.filters :
      ChangeQuery([query EXCEPT !.filters = RemoveAt(@, i)])

AddOrder == ChangeOrders(Append(query.orders, [column |-> FirstColumn, dir |-> "asc"]))
UpdateOrder ==
    \E i \in DOMAIN query.orders :
      \E o \in Orders(query.endpoint) :
        \* one of the two lists at a time
        /\ (o.column = query.orders[i].column) # (o.dir = query.orders[i].dir)
        /\ ChangeOrders([query.orders EXCEPT ![i] = o])
RemoveOrder ==
    \E i \in DOMAIN query.orders : ChangeOrders(RemoveAt(query.orders, i))

\* A header of the table of results: ascending, descending, unsorted. The first
\* order on the column decides what becomes of all of them.
ShownColumns ==
    IF query.columns = <<>> THEN ColumnsOf(query.endpoint) ELSE ToSet(query.columns)
ToggledOrders(column) ==
    LET on == {i \in DOMAIN query.orders : query.orders[i].column = column}
    IN IF on = {} THEN Append(query.orders, [column |-> column, dir |-> "asc"])
       ELSE IF query.orders[Min(on)].dir = "asc"
            THEN [i \in DOMAIN query.orders |->
                    IF query.orders[i].column = column
                    THEN [query.orders[i] EXCEPT !.dir = "desc"] ELSE query.orders[i]]
            ELSE Among(query.orders, {o \in ToSet(query.orders) : o.column # column})
ToggleOrder ==
    /\ QbShown /\ QbRows > 0
    /\ \E c \in ShownColumns : ChangeOrders(ToggledOrders(c))

\* Number(text) || 20, within 1..10000; the list starts over.
SetLimit ==
    \E n \in QbNumbers :
      ChangeQuery([query EXCEPT
        !.limit = Clamped(IF n = 0 THEN DefaultQbLimit ELSE n), !.offset = 0])
WithOffset(n) == [query EXCEPT !.offset = Max({0, n})]
SetOffset == \E n \in QbNumbers : n <= MostQbOffset /\ ChangeQuery(WithOffset(n))
TurnResults ==
    /\ QbShown
    /\ \/ query.offset > 0 /\ ChangeQuery(WithOffset(query.offset - query.limit))
       \/ /\ QbRows >= query.limit
          /\ query.offset + query.limit <= MostQbOffset
          /\ ChangeQuery(WithOffset(query.offset + query.limit))
ToggleCount == ChangeQuery([query EXCEPT !.count = ~@])

ToggleColumn ==
    \E c \in ColumnsOf(query.endpoint) :
      ChangeQuery([query EXCEPT !.columns =
        IF Contains(@, c) THEN Among(@, ToSet(@) \ {c}) ELSE Append(@, c)])
\* "Select all", or "Clear" when all are selected.
ToggleGroup ==
    \E i \in DOMAIN QbGroups[query.endpoint] :
      LET group == QbGroups[query.endpoint][i]
      IN ChangeQuery([query EXCEPT !.columns =
           IF ToSet(group) \subseteq ToSet(@)
           THEN Among(@, ToSet(@) \ ToSet(group))
           ELSE @ \o Among(group, ToSet(group) \ ToSet(@))])

-----------------------------------------------------------------------------
(* Asking and answers. *)

LoadApiUrl ==
    /\ ~qbReady /\ qbReady' = TRUE
    /\ UNCHANGED <<query, qbPreset, qbAnswers, qbAsking, qbExecuted>>

\* The button waits for the answer, Ctrl+Enter does not: the query starts over.
ExecuteQuery ==
    /\ qbReady /\ QbMayAsk(query)
    /\ qbAsking' = qbAsking \cup {Key(query)}
    /\ UNCHANGED <<query, qbPreset, qbReady, qbAnswers, qbExecuted>>

\* same: the answer equals the one that is kept, which then stays the same object.
AnswerArrives ==
    \E k \in qbAsking : \E n \in 0..Min({MostQbRows, k.limit}) : \E same \in BOOLEAN :
      /\ same => k \in DOMAIN qbAnswers /\ qbAnswers[k] = n
      /\ qbAnswers' = [a \in DOMAIN qbAnswers \cup {k} |-> IF a = k THEN n ELSE qbAnswers[a]]
      /\ qbAsking' = qbAsking \ {k}
      /\ qbExecuted' = (qbExecuted \/ (k = Key(query) /\ ~same))
      /\ UNCHANGED <<query, qbPreset, qbReady>>
\* What was shown for the query stays.
QueryFails ==
    /\ \E k \in qbAsking : qbAsking' = qbAsking \ {k}
    /\ UNCHANGED <<query, qbPreset, qbReady, qbAnswers, qbExecuted>>
\* An answer that is out of view for long is dropped.
DropAnswer ==
    /\ \E k \in DOMAIN qbAnswers \ ({Key(query)} \cup qbAsking) :
         qbAnswers' = [a \in DOMAIN qbAnswers \ {k} |-> qbAnswers[a]]
    /\ UNCHANGED <<query, qbPreset, qbReady, qbAsking, qbExecuted>>

\* The browser reloads the page from its URL.
ReloadQuery ==
    /\ query' = FromParams(ToParams(query))
    /\ qbPreset' = 0 /\ qbReady' = FALSE /\ qbAnswers' = <<>> /\ qbAsking' = {}
    /\ qbExecuted' = FALSE

QbInit ==
    /\ query = FromParams(<<>>)
    /\ qbPreset = 0 /\ qbReady = FALSE /\ qbAnswers = <<>> /\ qbAsking = {}
    /\ qbExecuted = FALSE

QbNext ==
    \/ SetTable \/ LoadPreset
    \/ AddFilter \/ UpdateFilter \/ RemoveFilter
    \/ AddOrder \/ UpdateOrder \/ RemoveOrder \/ ToggleOrder
    \/ SetLimit \/ SetOffset \/ TurnResults \/ ToggleCount \/ ToggleColumn \/ ToggleGroup
    \/ LoadApiUrl \/ ExecuteQuery \/ AnswerArrives \/ QueryFails \/ DropAnswer
    \/ ReloadQuery

QbSpec == QbInit /\ [][QbNext]_qbVars

-----------------------------------------------------------------------------
\* The URL says all there is to say: the form it restores is the form it was
\* written from (stateToSearchParams and searchParamsToState).
ReloadKeepsQuery == FromParams(ToParams(query)) = query

\* "Reset when endpoint changes so switching tables doesn't auto-fetch": a step to
\* another table asks nothing, whatever was executed, is under way or is kept.
SwitchingTablesAsksNothing ==
    [][query'.endpoint # query.endpoint => qbAsking' \subseteq qbAsking]_qbVars
=============================================================================
