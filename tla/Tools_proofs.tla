----------------------------- MODULE Tools_proofs -----------------------------
(***************************************************************************)
(* The query builder, the users of the server and the viewer of files, for *)
(* any tables, columns, users, files and bounds.                           *)
(*                                                                         *)
(* Query builder: the URL gives the form back, and switching tables sends  *)
(* no query, whatever has been executed, is under way or is kept.          *)
(*                                                                         *)
(* Users: a save leaves a role alone that nobody picked, although requests *)
(* are under way, lists are stale and other administrators write.          *)
(*                                                                         *)
(* Files: the lines of a large file are its own, with their numbers, and   *)
(* loading does not rest before the selected line is there. Chunks carry a *)
(* prefix of the file up to a newline or its end, ranges end inside what   *)
(* HEAD told, and what falls short has been asked for.                     *)
(***************************************************************************)
EXTENDS QueryBuilder, UserAdmin, FileView, Choices_proofs

-----------------------------------------------------------------------------
(* The query builder. *)

\* A change of the form asks nothing if it changes the table.
LEMMA ChangeOfTableAsksNothing ==
  ASSUME NEW q, NEW preset, NEW fresh, Change(q, preset, fresh)
  PROVE  query'.endpoint # query.endpoint => qbAsking' \subseteq qbAsking
  <1> SUFFICES ASSUME query'.endpoint # query.endpoint
               PROVE  qbAsking' \subseteq qbAsking
    OBVIOUS
  <1>1. q.endpoint # query.endpoint
    BY DEF Change
  <1>2. ~Asks(q, fresh)
    BY <1>1 DEF Asks, ExecutedWith
  <1> QED
    BY <1>2 DEF Change

\* The changes of the form, whatever the field.
LEMMA FormStepAsks ==
  ASSUME \/ SetTable \/ LoadPreset
         \/ AddFilter \/ UpdateFilter \/ RemoveFilter
         \/ AddOrder \/ UpdateOrder \/ RemoveOrder \/ ToggleOrder
         \/ SetLimit \/ SetOffset \/ TurnResults
         \/ ToggleCount \/ ToggleColumn \/ ToggleGroup
  PROVE  query'.endpoint # query.endpoint => qbAsking' \subseteq qbAsking
  <1>1. ASSUME NEW q, ChangeQuery(q)
        PROVE  query'.endpoint # query.endpoint => qbAsking' \subseteq qbAsking
    BY <1>1, ChangeOfTableAsksNothing DEF ChangeQuery
  <1>2. ASSUME NEW s, ChangeOrders(s)
        PROVE  query'.endpoint # query.endpoint => qbAsking' \subseteq qbAsking
    BY <1>2, ChangeOfTableAsksNothing DEF ChangeOrders
  <1>3. CASE SetTable
    BY <1>3, ChangeOfTableAsksNothing DEF SetTable
  <1>4. CASE LoadPreset
    BY <1>4, ChangeOfTableAsksNothing DEF LoadPreset
  <1>5. CASE AddFilter \/ UpdateFilter \/ RemoveFilter
    BY <1>1, <1>5 DEF AddFilter, UpdateFilter, RemoveFilter
  <1>6. CASE AddOrder \/ UpdateOrder \/ RemoveOrder \/ ToggleOrder
    BY <1>2, <1>6 DEF AddOrder, UpdateOrder, RemoveOrder, ToggleOrder
  <1>7. CASE SetLimit \/ SetOffset \/ TurnResults
    BY <1>1, <1>7 DEF SetLimit, SetOffset, TurnResults
  <1>8. CASE ToggleCount \/ ToggleColumn \/ ToggleGroup
    BY <1>1, <1>8 DEF ToggleCount, ToggleColumn, ToggleGroup
  <1> QED
    BY <1>3, <1>4, <1>5, <1>6, <1>7, <1>8

\* A step to another table asks nothing (the effects of QueryBuilderPage run in
\* the order that forgets the execution first).
THEOREM TableSwitchesAskNothing == QbSpec => SwitchingTablesAsksNothing
  <1>1. ASSUME [QbNext]_qbVars
        PROVE  [query'.endpoint # query.endpoint => qbAsking' \subseteq qbAsking]_qbVars
    <2>1. CASE LoadApiUrl \/ ExecuteQuery \/ AnswerArrives \/ QueryFails \/ DropAnswer
      <3>1. query' = query
        BY <2>1 DEF LoadApiUrl, ExecuteQuery, AnswerArrives, QueryFails, DropAnswer
      <3> QED
        BY <3>1
    <2>2. CASE ReloadQuery
      BY <2>2 DEF ReloadQuery
    <2>3. CASE UNCHANGED qbVars
      BY <2>3
    <2> QED
      BY <1>1, <2>1, <2>2, <2>3, FormStepAsks DEF QbNext
  <1> QED
    BY <1>1, PTL DEF QbSpec, SwitchingTablesAsksNothing

-----------------------------------------------------------------------------
(* The URL of the query builder. *)

\* A sequence without its member at i.
LEMMA RemovedIsSeq ==
  ASSUME NEW S, NEW s \in Seq(S), NEW i \in DOMAIN s
  PROVE  RemoveAt(s, i) \in Seq(S)
  BY DEF RemoveAt

\* The form is a query on its table.
QueryInv == query.endpoint \in Tables /\ query \in Queries(query.endpoint)

\* What the URL says of a query: each field, or that it has its default.
LEMMA ParamsAre ==
  ASSUME NEW t \in Tables, NEW q \in Queries(t)
  PROVE  /\ DOMAIN ToParams(q) = {m \in DOMAIN EmptyQuery("runs") : q[m] # EmptyQuery("runs")[m]}
         /\ \A m \in DOMAIN ToParams(q) : ToParams(q)[m] = q[m]
  <1>1. DOMAIN q = DOMAIN EmptyQuery("runs")
    BY DEF Queries, EmptyQuery
  <1> QED
    BY <1>1 DEF ToParams

\* A number within the bounds is not moved.
LEMMA ClampedIs ==
  ASSUME NEW n \in Int
  PROVE  /\ Clamped(n) \in 1..MostQbLimit
         /\ n \in 1..MostQbLimit => Clamped(n) = n
  <1>0. MostQbLimit \in Nat /\ DefaultQbLimit \in 1..MostQbLimit
    BY QueryBuilderAssumption DEF QbAssumption
  <1>1. Max({1, n}) = IF 1 >= n THEN 1 ELSE n
    BY MaxOfTwo
  <1>2. PICK m \in Int : m = Max({1, n})
    BY <1>1
  <1>3. Min({m, MostQbLimit}) = IF m <= MostQbLimit THEN m ELSE MostQbLimit
    BY <1>0, MinOfTwo
  <1> QED
    BY <1>0, <1>1, <1>2, <1>3 DEF Clamped

\* A query on its table passes as it is.
LEMMA NothingIsDropped ==
  ASSUME NEW t \in Tables, NEW q \in Queries(t)
  PROVE  Fitting(q) = q
  <1>1. /\ q.endpoint = t /\ q.filters \in Seq(Filters(t)) /\ q.orders \in Seq(Orders(t))
        /\ q.columns \in Seq(ColumnsOf(t)) /\ q.limit \in 1..MostQbLimit /\ q.offset \in Nat
    BY DEF Queries
  <1>2. \A S : \A s \in Seq(S) : ToSet(s) \subseteq S
    BY DEF ToSet
  <1>3. /\ \A f \in Filters(t) : f.column \in ColumnsOf(t) /\ f.operator \in QbOperators
        /\ \A o \in Orders(t) : o.column \in ColumnsOf(t)
    BY DEF Filters, Orders
  <1> DEFINE fitting == {f \in ToSet(q.filters) : f.column \in ColumnsOf(t) /\ f.operator \in QbOperators}
             sorting == {o \in ToSet(q.orders) : o.column \in ColumnsOf(t)}
  <1>4. /\ ToSet(q.filters) \subseteq fitting /\ ToSet(q.orders) \subseteq sorting
        /\ ToSet(q.columns) \subseteq ColumnsOf(t)
    BY <1>1, <1>2, <1>3
  <1>5. Fitting(q) = [q EXCEPT !.filters = Among(q.filters, fitting),
                               !.orders = Among(q.orders, sorting),
                               !.columns = Among(q.columns, ColumnsOf(t)),
                               !.limit = Clamped(q.limit), !.offset = Max({0, q.offset})]
    BY <1>1 DEF Fitting
  <1> HIDE DEF fitting, sorting
  <1>6. /\ Among(q.filters, fitting) = q.filters /\ Among(q.orders, sorting) = q.orders
        /\ Among(q.columns, ColumnsOf(t)) = q.columns
    BY <1>1, <1>4, AmongAll
  <1>7. Clamped(q.limit) = q.limit
    <2>1. q.limit \in Int
      BY <1>1, QueryBuilderAssumption DEF QbAssumption
    <2> QED
      BY <1>1, <2>1, ClampedIs
  <1>8. Max({0, q.offset}) = q.offset
    <2>1. Max({0, q.offset}) = IF 0 >= q.offset THEN 0 ELSE q.offset
      BY <1>1, MaxOfTwo
    <2> QED
      BY <1>1, <2>1
  <1>9. [q EXCEPT !.filters = q.filters, !.orders = q.orders, !.columns = q.columns,
                  !.limit = q.limit, !.offset = q.offset] = q
    BY DEF Queries
  <1> QED
    BY <1>5, <1>6, <1>7, <1>8, <1>9

\* The URL of a query gives that query.
LEMMA RestoredAsWritten ==
  ASSUME NEW t \in Tables, NEW q \in Queries(t)
  PROVE  FromParams(ToParams(q)) = q
  <1> DEFINE e == EmptyQuery("runs")
             p == ToParams(q)
  <1>1. DOMAIN p = {m \in DOMAIN e : q[m] # e[m]} /\ \A m \in DOMAIN p : p[m] = q[m]
    BY ParamsAre
  <1>2. /\ q = [n \in DOMAIN e |-> q[n]] /\ e = [n \in DOMAIN e |-> e[n]]
    BY DEF Queries, EmptyQuery
  <1>3. FromParams(p) = IF DOMAIN p = {} THEN e ELSE Fitting(Over(p, e))
    BY DEF FromParams
  <1> HIDE DEF e, p
  <1>4. CASE DOMAIN p = {}
    <2>1. \A n \in DOMAIN e : q[n] = e[n]
      BY <1>1, <1>4
    <2>2. q = e
      BY <1>2, <2>1
    <2> QED
      BY <1>3, <1>4, <2>2 DEF p
  <1>5. CASE DOMAIN p # {}
    <2>1. \A n \in DOMAIN e : (IF n \in DOMAIN p THEN p[n] ELSE e[n]) = q[n]
      BY <1>1
    <2>2. DOMAIN p \cup DOMAIN e = DOMAIN e
      BY <1>1
    <2>3. Over(p, e) = q
      BY <1>2, <2>1, <2>2 DEF Over
    <2> QED
      BY <1>3, <1>5, <2>3, NothingIsDropped DEF p
  <1> QED
    BY <1>4, <1>5

\* A change of the form to a query on a table.
LEMMA ChangesToQuery ==
  ASSUME NEW t \in Tables, NEW q \in Queries(t), NEW preset, NEW fresh, Change(q, preset, fresh)
  PROVE  QueryInv'
  <1>1. q.endpoint = t /\ query' = q
    BY DEF Queries, Change
  <1>2. query'.endpoint \in Tables /\ query' \in Queries(query'.endpoint)
    BY <1>1
  <1> QED
    BY <1>2 DEF QueryInv, Queries, Filters, Orders, ColumnsOf, Tables

\* A field of the form is another one.
LEMMA OtherField ==
  ASSUME QueryInv, NEW t, t = query.endpoint
  PROVE  /\ t \in Tables
         /\ query.filters \in Seq(Filters(t)) /\ query.orders \in Seq(Orders(t))
         /\ query.columns \in Seq(ColumnsOf(t))
         /\ query.limit \in Int /\ query.offset \in Int /\ query.count \in BOOLEAN
         /\ \A s \in Seq(Filters(t)) : [query EXCEPT !.filters = s] \in Queries(t)
         /\ \A s \in Seq(Orders(t)) : [query EXCEPT !.orders = s] \in Queries(t)
         /\ \A s \in Seq(ColumnsOf(t)) : [query EXCEPT !.columns = s] \in Queries(t)
         /\ \A n \in 1..MostQbLimit : [query EXCEPT !.limit = n, !.offset = 0] \in Queries(t)
         /\ \A n \in Nat : [query EXCEPT !.offset = n] \in Queries(t)
         /\ \A b \in BOOLEAN : [query EXCEPT !.count = b] \in Queries(t)
  <1>1. t \in Tables /\ query \in Queries(t)
    BY DEF QueryInv
  <1>2. MostQbLimit \in Nat
    BY QueryBuilderAssumption DEF QbAssumption
  <1>3. /\ query.filters \in Seq(Filters(t)) /\ query.orders \in Seq(Orders(t))
        /\ query.columns \in Seq(ColumnsOf(t))
        /\ query.limit \in 1..MostQbLimit /\ query.offset \in Nat /\ query.count \in BOOLEAN
    BY <1>1 DEF Queries
  <1>4. \A s \in Seq(Filters(t)) : [query EXCEPT !.filters = s] \in Queries(t)
    BY <1>1 DEF Queries
  <1>5. \A s \in Seq(Orders(t)) : [query EXCEPT !.orders = s] \in Queries(t)
    BY <1>1 DEF Queries
  <1>6. \A s \in Seq(ColumnsOf(t)) : [query EXCEPT !.columns = s] \in Queries(t)
    BY <1>1 DEF Queries
  <1>7. \A n \in 1..MostQbLimit : [query EXCEPT !.limit = n, !.offset = 0] \in Queries(t)
    BY <1>1 DEF Queries
  <1>8. \A n \in Nat : [query EXCEPT !.offset = n] \in Queries(t)
    BY <1>1 DEF Queries
  <1>9. \A b \in BOOLEAN : [query EXCEPT !.count = b] \in Queries(t)
    BY <1>1 DEF Queries
  <1>10. query.limit \in Int /\ query.offset \in Int
    BY <1>2, <1>3
  <1> QED
    BY <1>1, <1>3, <1>4, <1>5, <1>6, <1>7, <1>8, <1>9, <1>10

\* The first column is one, and every group consists of columns.
LEMMA ColumnsAre ==
  ASSUME QueryInv
  PROVE  /\ FirstColumn \in ColumnsOf(query.endpoint)
         /\ \A i \in DOMAIN QbGroups[query.endpoint] :
              QbGroups[query.endpoint][i] \in Seq(ColumnsOf(query.endpoint))
  BY QueryBuilderAssumption DEF QbAssumption, QueryInv, FirstColumn, ColumnsOf, ToSet

\* The parts of a filter that are changed one at a time.
LEMMA FilterChanges ==
  ASSUME QueryInv, UpdateFilter
  PROVE  QueryInv'
  <1> DEFINE t == query.endpoint
  <1>0. t \in Tables /\ query.filters \in Seq(Filters(t))
    BY OtherField
  <1>1. PICK i, g :
          /\ i \in DOMAIN query.filters
          /\ ChangeQuery([query EXCEPT !.filters[i] = g])
          /\ \/ \E c \in ColumnsOf(t) : g = [query.filters[i] EXCEPT !.column = c]
             \/ \E o \in QbOperators : g = [query.filters[i] EXCEPT !.operator = o]
             \/ \E v \in QbValues \cup IsValues : g = [query.filters[i] EXCEPT !.value = v]
    BY DEF UpdateFilter
  <1>2. query.filters[i] \in Filters(t)
    BY <1>0, <1>1
  <1>3. g \in Filters(t)
    BY <1>1, <1>2 DEF Filters
  <1>4. PICK s : s = [query.filters EXCEPT ![i] = g]
    OBVIOUS
  <1>5. s \in Seq(Filters(t))
    BY <1>0, <1>1, <1>3, <1>4
  <1>6. [query EXCEPT !.filters[i] = g] = [query EXCEPT !.filters = s]
    BY <1>4 DEF QueryInv, Queries
  <1> QED
    BY <1>0, <1>1, <1>5, <1>6, OtherField, ChangesToQuery DEF ChangeQuery

\* The changes of the orders.
LEMMA OrderChanges ==
  ASSUME QueryInv, AddOrder \/ UpdateOrder \/ RemoveOrder \/ ToggleOrder
  PROVE  QueryInv'
  <1> DEFINE t == query.endpoint
  <1>0. /\ t \in Tables /\ query.orders \in Seq(Orders(t))
    BY OtherField
  <1>1. SUFFICES \E s \in Seq(Orders(t)) : ChangeOrders(s)
    BY <1>0, OtherField, ChangesToQuery DEF ChangeOrders
  <1>2. CASE AddOrder
    <2>1. [column |-> FirstColumn, dir |-> "asc"] \in Orders(t)
      BY ColumnsAre DEF Orders
    <2>2. Append(query.orders, [column |-> FirstColumn, dir |-> "asc"]) \in Seq(Orders(t))
      BY <1>0, <2>1
    <2> QED
      BY <1>2, <2>2 DEF AddOrder
  <1>3. CASE UpdateOrder
    <2>1. PICK i \in DOMAIN query.orders, o \in Orders(t) :
            ChangeOrders([query.orders EXCEPT ![i] = o])
      BY <1>3 DEF UpdateOrder
    <2>2. [query.orders EXCEPT ![i] = o] \in Seq(Orders(t))
      BY <1>0
    <2> QED
      BY <2>1, <2>2
  <1>4. CASE RemoveOrder
    BY <1>0, <1>4, RemovedIsSeq DEF RemoveOrder
  <1>5. CASE ToggleOrder
    <2>1. PICK c \in ShownColumns : ChangeOrders(ToggledOrders(c))
      BY <1>5 DEF ToggleOrder
    <2>2. c \in ColumnsOf(t)
      <3>1. query.columns \in Seq(ColumnsOf(t))
        BY OtherField
      <3> QED
        BY <3>1 DEF ShownColumns, ToSet
    <2> DEFINE more == Append(query.orders, [column |-> c, dir |-> "asc"])
               down == [i \in DOMAIN query.orders |->
                          IF query.orders[i].column = c
                          THEN [query.orders[i] EXCEPT !.dir = "desc"] ELSE query.orders[i]]
               rest == Among(query.orders, {o \in ToSet(query.orders) : o.column # c})
    <2>3. more \in Seq(Orders(t))
      BY <1>0, <2>2 DEF Orders
    <2>4. down \in Seq(Orders(t))
      <3>1. \A i \in DOMAIN query.orders : query.orders[i] \in Orders(t)
        BY <1>0
      <3>2. \A i \in DOMAIN query.orders : down[i] \in Orders(t)
        BY <3>1 DEF Orders
      <3>3. DOMAIN query.orders = 1..Len(query.orders) /\ Len(query.orders) \in Nat
        BY <1>0
      <3>4. down = [i \in 1..Len(query.orders) |-> down[i]]
        BY <3>3
      <3> HIDE DEF t, down
      <3>5. [i \in 1..Len(query.orders) |-> down[i]] \in Seq(Orders(t))
        BY <3>2, <3>3
      <3> QED
        BY <3>4, <3>5
    <2>5. rest \in Seq(Orders(t))
      BY <1>0, AmongMembers
    <2>6. ToggledOrders(c) \in {more, down, rest}
      BY DEF ToggledOrders
    <2> QED
      BY <2>1, <2>3, <2>4, <2>5, <2>6
  <1> QED
    BY <1>2, <1>3, <1>4, <1>5

\* The changes of the columns.
LEMMA ColumnChanges ==
  ASSUME QueryInv, ToggleColumn \/ ToggleGroup
  PROVE  QueryInv'
  <1> DEFINE t == query.endpoint
             Selects(s) == ChangeQuery([query EXCEPT !.columns = s])
  <1>0. t \in Tables /\ query.columns \in Seq(ColumnsOf(t))
    BY OtherField
  <1>1. SUFFICES \E s \in Seq(ColumnsOf(t)) : Selects(s)
    BY <1>0, OtherField, ChangesToQuery DEF ChangeQuery
  <1>2. CASE ToggleColumn
    <2>1. PICK c \in ColumnsOf(t) :
            Selects(IF Contains(query.columns, c) THEN Among(query.columns, ToSet(query.columns) \ {c})
                 ELSE Append(query.columns, c))
      BY <1>2 DEF ToggleColumn
    <2>2. Append(query.columns, c) \in Seq(ColumnsOf(t))
      BY <1>0
    <2>3. Among(query.columns, ToSet(query.columns) \ {c}) \in Seq(ColumnsOf(t))
      BY <1>0, AmongMembers
    <2> HIDE DEF Selects
    <2> QED
      BY <2>1, <2>2, <2>3
  <1>3. CASE ToggleGroup
    <2>1. PICK i \in DOMAIN QbGroups[t] :
            Selects(IF ToSet(QbGroups[t][i]) \subseteq ToSet(query.columns)
                 THEN Among(query.columns, ToSet(query.columns) \ ToSet(QbGroups[t][i]))
                 ELSE query.columns
                        \o Among(QbGroups[t][i], ToSet(QbGroups[t][i]) \ ToSet(query.columns)))
      BY <1>3 DEF ToggleGroup
    <2>2. QbGroups[t][i] \in Seq(ColumnsOf(t))
      BY ColumnsAre
    <2>3. Among(query.columns, ToSet(query.columns) \ ToSet(QbGroups[t][i])) \in Seq(ColumnsOf(t))
      BY <1>0, AmongMembers
    <2>4. Among(QbGroups[t][i], ToSet(QbGroups[t][i]) \ ToSet(query.columns)) \in Seq(ColumnsOf(t))
      BY <2>2, AmongMembers
    <2>5. query.columns \o Among(QbGroups[t][i], ToSet(QbGroups[t][i]) \ ToSet(query.columns))
            \in Seq(ColumnsOf(t))
      BY <1>0, <2>4
    <2> HIDE DEF Selects
    <2> QED
      BY <2>1, <2>3, <2>5
  <1> QED
    BY <1>2, <1>3

\* The changes of the numbers.
LEMMA NumberChanges ==
  ASSUME QueryInv, SetLimit \/ SetOffset \/ TurnResults \/ ToggleCount
  PROVE  QueryInv'
  <1> DEFINE t == query.endpoint
  <1>0. /\ t \in Tables /\ query.limit \in Int /\ query.offset \in Int /\ query.count \in BOOLEAN
        /\ QbNumbers \subseteq Int /\ DefaultQbLimit \in Int
    <2>1. /\ QbNumbers \subseteq Int /\ DefaultQbLimit \in Int
      BY QueryBuilderAssumption DEF QbAssumption
    <2> QED
      BY <2>1, OtherField
  <1>1. \A n \in Int : WithOffset(n) \in Queries(t)
    <2>1. ASSUME NEW n \in Int PROVE Max({0, n}) \in Nat
      <3>1. Max({0, n}) = IF 0 >= n THEN 0 ELSE n
        BY MaxOfTwo
      <3> QED
        BY <3>1
    <2> QED
      BY <2>1, OtherField DEF WithOffset
  <1>2. CASE SetLimit
    <2>1. PICK n \in QbNumbers :
            ChangeQuery([query EXCEPT !.limit = Clamped(IF n = 0 THEN DefaultQbLimit ELSE n),
                                      !.offset = 0])
      BY <1>2 DEF SetLimit
    <2>2. Clamped(IF n = 0 THEN DefaultQbLimit ELSE n) \in 1..MostQbLimit
      BY <1>0, ClampedIs
    <2> QED
      BY <1>0, <2>1, <2>2, OtherField, ChangesToQuery DEF ChangeQuery
  <1>3. CASE SetOffset
    BY <1>0, <1>1, <1>3, ChangesToQuery DEF SetOffset, ChangeQuery
  <1>4. CASE TurnResults
    <2>1. \E n \in Int : ChangeQuery(WithOffset(n))
      BY <1>0, <1>4 DEF TurnResults
    <2> QED
      BY <1>0, <1>1, <2>1, ChangesToQuery DEF ChangeQuery
  <1>5. CASE ToggleCount
    BY <1>0, <1>5, OtherField, ChangesToQuery DEF ToggleCount, ChangeQuery
  <1> QED
    BY <1>2, <1>3, <1>4, <1>5

LEMMA QueryInvInit == QbInit => QueryInv
  <1>1. EmptyQuery("runs") \in Queries("runs") /\ "runs" \in Tables
    BY QueryBuilderAssumption DEF QbAssumption, EmptyQuery, Queries
  <1> QED
    BY <1>1 DEF QbInit, FromParams, QueryInv, EmptyQuery

LEMMA QueryInvStep == QueryInv /\ [QbNext]_qbVars => QueryInv'
  <1> SUFFICES ASSUME QueryInv, [QbNext]_qbVars PROVE QueryInv'
    OBVIOUS
  <1> DEFINE t == query.endpoint
  <1>0. t \in Tables /\ query \in Queries(t) /\ query.filters \in Seq(Filters(t))
    BY OtherField DEF QueryInv
  <1>1. CASE SetTable
    <2>1. \A u \in Tables : EmptyQuery(u) \in Queries(u)
      BY QueryBuilderAssumption DEF QbAssumption, EmptyQuery, Queries
    <2> QED
      BY <1>1, <2>1, ChangesToQuery DEF SetTable, TableChosen
  <1>2. CASE LoadPreset
    BY <1>2, ChangesToQuery, QueryBuilderAssumption DEF QbAssumption, LoadPreset
  <1>3. CASE AddFilter
    <2>1. [column |-> FirstColumn, operator |-> "eq", value |-> NoText] \in Filters(t)
      BY ColumnsAre, QueryBuilderAssumption DEF QbAssumption, Filters
    <2>2. Append(query.filters, [column |-> FirstColumn, operator |-> "eq", value |-> NoText])
            \in Seq(Filters(t))
      BY <1>0, <2>1
    <2> QED
      BY <1>0, <1>3, <2>2, OtherField, ChangesToQuery DEF AddFilter, ChangeQuery
  <1>4. CASE UpdateFilter
    BY <1>4, FilterChanges
  <1>5. CASE RemoveFilter
    BY <1>0, <1>5, RemovedIsSeq, OtherField, ChangesToQuery DEF RemoveFilter, ChangeQuery
  <1>6. CASE AddOrder \/ UpdateOrder \/ RemoveOrder \/ ToggleOrder
    BY <1>6, OrderChanges
  <1>7. CASE SetLimit \/ SetOffset \/ TurnResults \/ ToggleCount
    BY <1>7, NumberChanges
  <1>8. CASE ToggleColumn \/ ToggleGroup
    BY <1>8, ColumnChanges
  <1>9. CASE LoadApiUrl \/ ExecuteQuery \/ AnswerArrives \/ QueryFails \/ DropAnswer \/ UNCHANGED qbVars
    <2>1. query' = query
      BY <1>9 DEF LoadApiUrl, ExecuteQuery, AnswerArrives, QueryFails, DropAnswer, qbVars
    <2> QED
      BY <2>1 DEF QueryInv, Queries, Filters, Orders, ColumnsOf, Tables
  <1>10. CASE ReloadQuery
    <2>1. query' = query
      BY <1>0, <1>10, RestoredAsWritten DEF ReloadQuery
    <2> QED
      BY <2>1 DEF QueryInv, Queries, Filters, Orders, ColumnsOf, Tables
  <1> QED
    BY <1>1, <1>2, <1>3, <1>4, <1>5, <1>6, <1>7, <1>8, <1>9, <1>10 DEF QbNext

\* A reload of the page gives the form back as it was, after any changes, presets
\* and numbers outside of the bounds (stateToSearchParams, searchParamsToState).
THEOREM ReloadsRestore == QbSpec => []ReloadKeepsQuery
  <1>1. QueryInv => ReloadKeepsQuery
    BY RestoredAsWritten DEF QueryInv, ReloadKeepsQuery
  <1> QED
    BY <1>1, QueryInvInit, QueryInvStep, PTL DEF QbSpec

-----------------------------------------------------------------------------
(* Types of the query builder. *)

\* What the invariant of the form leaves out of its types: columns are not repeated,
\* and queries that are asked or answered have limits.
QbTypes ==
    /\ QueryInv /\ Injective(query.columns)
    /\ qbPreset \in 0..Len(QbPresets) /\ qbReady \in BOOLEAN /\ qbExecuted \in BOOLEAN
    /\ \A k \in DOMAIN qbAnswers : qbAnswers[k] \in 0..k.limit
    /\ IsFiniteSet(qbAsking) /\ \A k \in qbAsking : k.limit \in Nat

\* The limit of a query is that of its request.
LEMMA KeyLimit ==
  ASSUME NEW t \in Tables, NEW q \in Queries(t)
  PROVE  Key(q).limit = q.limit /\ q.limit \in Nat
  BY QueryBuilderAssumption DEF QbAssumption, Queries, Key

\* A change of the form, with what it makes of the page and of what is kept.
LEMMA ChangeTypes ==
  ASSUME QbTypes, QueryInv', NEW q, NEW preset \in 0..Len(QbPresets),
         NEW fresh, Change(q, preset, fresh), Injective(q.columns)
  PROVE  QbTypes'
  <1>2. query' = q /\ qbPreset' = preset /\ UNCHANGED <<qbReady, qbAnswers>>
    BY DEF Change
  <1>1. \E t \in Tables : q \in Queries(t)
    BY <1>2 DEF QueryInv, Queries, Filters, Orders, ColumnsOf, Tables
  <1>3. qbExecuted' \in BOOLEAN
    BY Zenon DEF Change, ExecutedWith
  <1>4. IsFiniteSet(qbAsking') /\ \A k \in qbAsking' : k.limit \in Nat
    <2>1. qbAsking' = qbAsking \/ qbAsking' = qbAsking \cup {Key(q)}
      BY DEF Change
    <2>2. IsFiniteSet(qbAsking \cup {Key(q)})
      BY FS_AddElement DEF QbTypes
    <2> QED
      BY <1>1, <2>1, <2>2, KeyLimit DEF QbTypes
  <1>5. Injective(query'.columns)
    BY <1>2
  <1> QED
    BY <1>2, <1>3, <1>4, <1>5 DEF QbTypes, Injective

\* A field other than the columns.
LEMMA QuerySame ==
  ASSUME QbTypes
  PROVE  /\ \A s : [query EXCEPT !.filters = s].columns = query.columns
         /\ \A s : [query EXCEPT !.orders = s].columns = query.columns
         /\ \A l : [query EXCEPT !.limit = l, !.offset = 0].columns = query.columns
         /\ \A n : [query EXCEPT !.offset = n].columns = query.columns
         /\ \A b : [query EXCEPT !.count = b].columns = query.columns
         /\ \A s : [query EXCEPT !.columns = s].columns = s
  BY DEF QbTypes, QueryInv, Queries

\* A change of the columns repeats none.
LEMMA ColumnsOnce ==
  ASSUME QbTypes, ToggleColumn \/ ToggleGroup
  PROVE  \E s : ChangeQuery([query EXCEPT !.columns = s]) /\ Injective(s)
  <1> DEFINE t == query.endpoint
             old == query.columns
             Selects(s) == ChangeQuery([query EXCEPT !.columns = s])
  <1>0. t \in Tables /\ old \in Seq(ColumnsOf(t)) /\ Injective(old)
    BY OtherField DEF QbTypes
  <1>1. \A some : Injective(Among(old, some))
    BY <1>0, AmongInjective
  <1>2. CASE ToggleColumn
    <2>1. PICK c \in ColumnsOf(t) :
            Selects(IF Contains(old, c) THEN Among(old, ToSet(old) \ {c}) ELSE Append(old, c))
      BY <1>2 DEF ToggleColumn
    <2>2. ~Contains(old, c) => Injective(Append(old, c))
      BY <1>0 DEF Contains, Injective
    <2> DEFINE less == Among(old, ToSet(old) \ {c})
               more == Append(old, c)
    <2>3. Injective(less)
      BY <1>1
    <2>4. Selects(IF Contains(old, c) THEN less ELSE more)
      BY <2>1
    <2> HIDE DEF Selects, less, more
    <2>5. CASE Contains(old, c)
      BY <2>3, <2>4, <2>5 DEF Selects
    <2>6. CASE ~Contains(old, c)
      BY <2>2, <2>4, <2>6 DEF Selects, more
    <2> QED
      BY <2>5, <2>6
  <1>3. CASE ToggleGroup
    <2>1. PICK i \in DOMAIN QbGroups[t] :
            Selects(IF ToSet(QbGroups[t][i]) \subseteq ToSet(old)
                    THEN Among(old, ToSet(old) \ ToSet(QbGroups[t][i]))
                    ELSE old \o Among(QbGroups[t][i], ToSet(QbGroups[t][i]) \ ToSet(old)))
      BY <1>3 DEF ToggleGroup
    <2> DEFINE more == Among(QbGroups[t][i], ToSet(QbGroups[t][i]) \ ToSet(old))
    <2>2. QbGroups[t][i] \in Seq(ColumnsOf(t)) /\ Injective(QbGroups[t][i])
      BY <1>0, QueryBuilderAssumption DEF QbAssumption, IsInjective, Injective
    <2>3. /\ more \in Seq(ColumnsOf(t)) /\ Injective(more)
          /\ ToSet(more) = ToSet(QbGroups[t][i]) \cap (ToSet(QbGroups[t][i]) \ ToSet(old))
      BY <2>2, AmongMembers, AmongInjective
    <2>4. \A j \in DOMAIN more : \A k \in DOMAIN old : more[j] # old[k]
      <3>1. \A j \in DOMAIN more : more[j] \in ToSet(more)
        BY <2>3 DEF ToSet
      <3>2. \A k \in DOMAIN old : old[k] \in ToSet(old)
        BY <1>0 DEF ToSet
      <3> HIDE DEF more
      <3> QED
        BY <2>3, <3>1, <3>2
    <2>5. Injective(old \o more)
      <3> HIDE DEF more
      <3> QED
        BY <1>0, <2>3, <2>4 DEF Injective
    <2> DEFINE less == Among(old, ToSet(old) \ ToSet(QbGroups[t][i]))
               both == old \o more
    <2>6. Injective(less)
      BY <1>1
    <2>7. Selects(IF ToSet(QbGroups[t][i]) \subseteq ToSet(old) THEN less ELSE both)
      BY <2>1
    <2>8. Injective(both)
      BY <2>5
    <2> HIDE DEF Selects, less, both
    <2>9. Selects(less) \/ Selects(both)
      BY <2>7
    <2> QED
      BY <2>6, <2>8, <2>9 DEF Selects
  <1> QED
    BY <1>2, <1>3

\* The form as the URL has it.
LEMMA QbInitTypes == QbInit => QbTypes
  <1> SUFFICES ASSUME QbInit PROVE QbTypes
    OBVIOUS
  <1>1. QueryInv
    BY QueryInvInit
  <1>2. query.columns = <<>>
    BY DEF QbInit, FromParams, EmptyQuery
  <1>3. Injective(query.columns)
    BY <1>2 DEF Injective
  <1>4. qbPreset \in 0..Len(QbPresets) /\ qbReady \in BOOLEAN /\ qbExecuted \in BOOLEAN
    <2>1. Len(QbPresets) \in Nat
      BY QueryBuilderAssumption DEF QbAssumption
    <2>2. qbPreset = 0 /\ qbReady = FALSE /\ qbExecuted = FALSE
      BY DEF QbInit
    <2>3. qbPreset \in 0..Len(QbPresets)
      BY <2>1, <2>2
    <2> QED
      BY <2>2, <2>3, Zenon
  <1>5. DOMAIN qbAnswers = {} /\ qbAsking = {} /\ IsFiniteSet(qbAsking)
    BY FS_EmptySet DEF QbInit
  <1> QED
    BY <1>1, <1>3, <1>4, <1>5 DEF QbTypes

\* The changes of the form.
LEMMA FormTypes ==
  ASSUME QbTypes, QueryInv',
         \/ SetTable \/ LoadPreset
         \/ AddFilter \/ UpdateFilter \/ RemoveFilter
         \/ AddOrder \/ UpdateOrder \/ RemoveOrder \/ ToggleOrder
         \/ SetLimit \/ SetOffset \/ TurnResults
         \/ ToggleCount \/ ToggleColumn \/ ToggleGroup
  PROVE  QbTypes'
  <1>0. qbPreset \in 0..Len(QbPresets) /\ 0 \in 0..Len(QbPresets) /\ Injective(query.columns)
    BY QueryBuilderAssumption DEF QbAssumption, QbTypes
  <1>1. ASSUME NEW q, ChangeQuery(q), Injective(q.columns)
        PROVE  QbTypes'
    BY <1>0, <1>1, ChangeTypes DEF ChangeQuery
  <1>2. ASSUME NEW s, ChangeOrders(s)
        PROVE  QbTypes'
    BY <1>0, <1>2, QuerySame, ChangeTypes DEF ChangeOrders
  <1>3. CASE SetTable
    <2>1. \A t \in Tables : Injective(EmptyQuery(t).columns)
      BY DEF EmptyQuery, Injective
    <2> QED
      BY <1>0, <1>3, <2>1, ChangeTypes DEF SetTable, TableChosen
  <1>4. CASE LoadPreset
    <2>1. \A i \in DOMAIN QbPresets : i \in 0..Len(QbPresets) /\ Injective(QbPresets[i].columns)
      BY QueryBuilderAssumption DEF QbAssumption, IsInjective, Injective
    <2> QED
      BY <1>4, <2>1, ChangeTypes DEF LoadPreset
  <1>5. CASE AddFilter \/ UpdateFilter \/ RemoveFilter
    <2>1. \E s : ChangeQuery([query EXCEPT !.filters = s])
      <3>1. CASE UpdateFilter
        <4>1. PICK i, g : ChangeQuery([query EXCEPT !.filters[i] = g])
          BY <3>1 DEF UpdateFilter
        <4>2. [query EXCEPT !.filters[i] = g] = [query EXCEPT !.filters = [@ EXCEPT ![i] = g]]
          OBVIOUS
        <4> QED
          BY <4>1, <4>2
      <3> QED
        BY <1>5, <3>1 DEF AddFilter, RemoveFilter
    <2> QED
      BY <1>0, <1>1, <2>1, QuerySame
  <1>6. CASE AddOrder \/ UpdateOrder \/ RemoveOrder \/ ToggleOrder
    BY <1>2, <1>6 DEF AddOrder, UpdateOrder, RemoveOrder, ToggleOrder
  <1>7. CASE SetLimit \/ SetOffset \/ TurnResults
    BY <1>0, <1>1, <1>7, QuerySame DEF SetLimit, SetOffset, TurnResults, WithOffset
  <1>8. CASE ToggleCount
    BY <1>0, <1>1, <1>8, QuerySame DEF ToggleCount
  <1>9. CASE ToggleColumn \/ ToggleGroup
    BY <1>1, <1>9, ColumnsOnce, QuerySame
  <1> QED
    BY <1>3, <1>4, <1>5, <1>6, <1>7, <1>8, <1>9

\* Every handler of the form.
LEMMA QbStepTypes == QbTypes /\ [QbNext]_qbVars => QbTypes'
  <1> SUFFICES ASSUME QbTypes, [QbNext]_qbVars PROVE QbTypes'
    OBVIOUS
  <1>0. QueryInv'
    BY QueryInvStep DEF QbTypes
  <1>1. ASSUME query' = query PROVE Injective(query'.columns)
    BY <1>1 DEF QbTypes
  <1>2. CASE UNCHANGED qbVars
    BY <1>0, <1>1, <1>2 DEF qbVars, QbTypes, Injective
  <1>3. CASE LoadApiUrl
    BY <1>0, <1>1, <1>3 DEF LoadApiUrl, QbTypes, Injective
  <1>4. CASE ExecuteQuery
    <2>1. \E t \in Tables : query \in Queries(t)
      BY DEF QbTypes, QueryInv
    <2>2. Key(query).limit \in Nat
      BY <2>1, KeyLimit
    <2>3. IsFiniteSet(qbAsking \cup {Key(query)})
      BY FS_AddElement DEF QbTypes
    <2>4. IsFiniteSet(qbAsking') /\ \A k \in qbAsking' : k.limit \in Nat
      BY <1>4, <2>2, <2>3 DEF ExecuteQuery, QbTypes
    <2> QED
      BY <1>0, <1>1, <1>4, <2>4 DEF ExecuteQuery, QbTypes, Injective
  <1>5. CASE AnswerArrives
    <2>1. PICK k \in qbAsking : \E n \in 0..Min({MostQbRows, k.limit}) :
            /\ qbAnswers' = [a \in DOMAIN qbAnswers \cup {k} |-> IF a = k THEN n ELSE qbAnswers[a]]
            /\ qbAsking' = qbAsking \ {k}
            /\ UNCHANGED <<query, qbPreset, qbReady>>
      BY <1>5 DEF AnswerArrives
    <2>2. PICK n \in 0..Min({MostQbRows, k.limit}) :
            qbAnswers' = [a \in DOMAIN qbAnswers \cup {k} |-> IF a = k THEN n ELSE qbAnswers[a]]
      BY <2>1
    <2>3. n \in 0..k.limit
      <3>1. k.limit \in Nat /\ MostQbRows \in Nat
        BY QueryBuilderAssumption DEF QbTypes, QbAssumption
      <3>2. Min({MostQbRows, k.limit}) <= k.limit /\ Min({MostQbRows, k.limit}) \in Nat
        BY <3>1, MinOfTwo
      <3> QED
        BY <3>1, <3>2
    <2>4. \A a \in DOMAIN qbAnswers' : qbAnswers'[a] \in 0..a.limit
      BY <2>2, <2>3 DEF QbTypes
    <2>5. qbExecuted' \in BOOLEAN
      BY <1>5, Zenon DEF AnswerArrives
    <2>6. IsFiniteSet(qbAsking') /\ \A a \in qbAsking' : a.limit \in Nat
      BY <2>1, FS_RemoveElement DEF QbTypes
    <2> QED
      BY <1>0, <1>1, <2>1, <2>4, <2>5, <2>6 DEF QbTypes, Injective
  <1>6. CASE QueryFails
    <2>1. IsFiniteSet(qbAsking') /\ \A a \in qbAsking' : a.limit \in Nat
      BY <1>6, FS_RemoveElement DEF QueryFails, QbTypes
    <2> QED
      BY <1>0, <1>1, <1>6, <2>1 DEF QueryFails, QbTypes, Injective
  <1>7. CASE DropAnswer
    BY <1>0, <1>1, <1>7 DEF DropAnswer, QbTypes, Injective
  <1>8. CASE ReloadQuery
    <2>1. query' = query
      BY <1>8, RestoredAsWritten DEF ReloadQuery, QbTypes, QueryInv
    <2>2. qbPreset' = 0 /\ qbReady' = FALSE /\ DOMAIN qbAnswers' = {} /\ qbAsking' = {}
          /\ qbExecuted' = FALSE
      BY <1>8 DEF ReloadQuery
    <2>3. 0 \in 0..Len(QbPresets)
      BY QueryBuilderAssumption DEF QbAssumption
    <2> QED
      BY <1>0, <1>1, <2>1, <2>2, <2>3, FS_EmptySet DEF QbTypes, Injective
  <1> QED
    BY <1>0, <1>2, <1>3, <1>4, <1>5, <1>6, <1>7, <1>8, FormTypes DEF QbNext

\* The query builder keeps its form, its URL and its requests of their types
\* (QueryBuilderPage.tsx).
LEMMA QueryTyped == QbSpec => []QbTypeOK
  <1>1. QbTypes => QbTypeOK
    BY DEF QbTypes, QueryInv, QbTypeOK, Injective, IsInjective
  <1> QED
    BY <1>1, QbInitTypes, QbStepTypes, PTL DEF QbSpec

-----------------------------------------------------------------------------
(* Users. *)

\* Names with their roles.
IsTable(f) == f = [u \in DOMAIN f |-> f[u]] /\ DOMAIN f \subseteq UaNames /\ \A u \in DOMAIN f : f[u] \in UaRoles
\* What a handler writes is a role.
IsUaCall(c) ==
    /\ c \in UaCalls
    /\ c.kind = "create" => c.role \in UaRoles
    /\ (c.kind = "update" /\ c.at = "read") => c.read \in UaRoles

UaTableTypes == IsTable(uaRows) /\ \A c \in uaCalls : IsUaCall(c)
UaCountTypes == uaOthers \in 0..MostOthers /\ uaSent \in 0..MostUaCalls
UaListTypes ==
    /\ uaList = None \/ IsTable(uaList)
    /\ uaFetch.at \in {"none", "sent", "read"}
    /\ uaFetch.at = "read" => IsTable(uaFetch.roles)
UaFormTypes ==
    /\ editUser = None \/ (editUser.user \in UaNames /\ editUser.role \in UaRoles)
    /\ editForm \in UaRoles
    /\ createForm \in [username : UaNew \cup {None}, role : UaRoles]
    /\ showCreate \in BOOLEAN

UaTypes == UaTableTypes /\ UaCountTypes /\ UaListTypes /\ UaFormTypes

\* What the users' tab and the handlers keep has its types.
LEMMA UaInitTypes == UaInit => UaTypes
  <1> SUFFICES ASSUME UaInit PROVE UaTypes
    OBVIOUS
  <1>1. UaTableTypes
    BY DEF UaInit, UaTableTypes, IsTable, UaNames, UaRoles
  <1>2. UaCountTypes
    BY UserAdminAssumption DEF UaInit, UaCountTypes
  <1>3. UaListTypes /\ UaFormTypes
    BY DEF UaInit, UaListTypes, UaFormTypes, FetchSent, UaRoles, NoForm
  <1> QED
    BY <1>1, <1>2, <1>3 DEF UaTypes

\* Rows with one more, or with one less.
LEMMA TablesAre ==
  ASSUME NEW f, IsTable(f), NEW u \in UaNames, NEW role \in UaRoles
  PROVE  IsTable(With(f, u, role)) /\ IsTable(Without(f, u)) /\ IsTable([f EXCEPT ![u] = role])
  <1>1. IsTable(With(f, u, role))
    BY DEF IsTable, With
  <1>2. IsTable(Without(f, u))
    BY DEF IsTable, Without
  <1>3. IsTable([f EXCEPT ![u] = role])
    BY DEF IsTable
  <1> QED
    BY <1>1, <1>2, <1>3

\* So has a request that its handler moves on.
LEMMA UaCallMoves ==
  ASSUME NEW c, IsUaCall(c), NEW at \in {"done", "failed", "waits"}, NEW role \in UaRoles
  PROVE  /\ IsUaCall([c EXCEPT !.at = at])
         /\ IsUaCall([c EXCEPT !.at = "read", !.read = role])
  BY DEF IsUaCall, UaCalls

\* The server's steps.
LEMMA ServerTypes ==
  ASSUME UaTypes, NEW c \in uaCalls, ServerWorks(c)
  PROVE  UaTypes'
  <1>1. IsUaCall(c) /\ IsTable(uaRows)
    BY DEF UaTypes, UaTableTypes
  <1>2. c.user \in UaNames
    BY <1>1 DEF IsUaCall, UaCalls
  <1>3. UaCountTypes' /\ UaListTypes' /\ UaFormTypes'
    BY DEF UaTypes, ServerWorks, UaCountTypes, UaListTypes, UaFormTypes, uaForms
  <1>4. ASSUME NEW to, IsUaCall(to), Moves(c, to), IsTable(uaRows') PROVE UaTableTypes'
    BY <1>4 DEF UaTypes, UaTableTypes, Moves
  <1>5. ASSUME Fails(c) PROVE UaTableTypes'
    <2>1. IsUaCall([c EXCEPT !.at = "failed"])
      BY <1>1, UaCallMoves DEF UaRoles
    <2> QED
      BY <1>1, <1>4, <1>5, <2>1 DEF Fails
  <1>6. IsUaCall([c EXCEPT !.at = "done"])
    BY <1>1, UaCallMoves DEF UaRoles
  <1>7. CASE CreatesUser(c)
    <2>1. CASE c.user \in DOMAIN uaRows
      BY <1>3, <1>5, <1>7, <2>1 DEF CreatesUser, UaTypes
    <2>2. CASE c.user \notin DOMAIN uaRows
      <3>1. c.role \in UaRoles
        BY <1>1, <1>7 DEF CreatesUser, IsUaCall
      <3>2. IsTable(With(uaRows, c.user, c.role))
        BY <1>1, <1>2, <3>1, TablesAre
      <3> QED
        BY <1>3, <1>4, <1>6, <1>7, <2>2, <3>2 DEF CreatesUser, UaTypes
    <2> QED
      BY <2>1, <2>2
  <1>8. CASE DeletesUser(c)
    <2>1. IsTable(Without(uaRows, c.user))
      BY <1>1, <1>2, TablesAre DEF UaRoles
    <2> QED
      BY <1>3, <1>4, <1>5, <1>6, <1>8, <2>1 DEF DeletesUser, UaTypes
  <1>9. CASE ReadsUser(c)
    <2>1. CASE c.user \in DOMAIN uaRows
      <3>1. IsUaCall([c EXCEPT !.at = "read", !.read = uaRows[c.user]])
        BY <1>1, <2>1, UaCallMoves DEF IsTable
      <3> QED
        BY <1>1, <1>3, <1>4, <1>5, <1>9, <2>1, <3>1 DEF ReadsUser, UaTypes
    <2>2. CASE c.user \notin DOMAIN uaRows
      BY <1>3, <1>5, <1>9, <2>2 DEF ReadsUser, UaTypes
    <2> QED
      BY <2>1, <2>2
  <1>10. CASE WritesUser(c)
    <2>1. Updated(c) \in UaRoles
      BY <1>1, <1>10 DEF WritesUser, Updated, IsUaCall, UaCalls
    <2>2. IsTable(With(uaRows, c.user, Updated(c)))
      BY <1>1, <1>2, <2>1, TablesAre
    <2> QED
      BY <1>3, <1>4, <1>6, <1>10, <2>2 DEF WritesUser, UaTypes
  <1>11. CASE NotCarriedOut(c)
    BY <1>3, <1>5, <1>11 DEF NotCarriedOut, UaTypes
  <1> QED
    BY <1>7, <1>8, <1>9, <1>10, <1>11 DEF ServerWorks

\* What the administrator sends.
LEMMA SendsTypes ==
  ASSUME UaTypes, NEW c, IsUaCall(c), Sends(c), UNCHANGED <<uaRows, uaOthers, uaList, uaFetch, uaForms>>
  PROVE  UaTypes'
  <1>1. UaTableTypes'
    BY DEF UaTypes, UaTableTypes, Sends
  <1>2. UaCountTypes'
    BY UserAdminAssumption DEF UaTypes, UaCountTypes, Sends
  <1>3. UaListTypes' /\ UaFormTypes'
    BY DEF UaTypes, UaListTypes, UaFormTypes, uaForms
  <1> QED
    BY <1>1, <1>2, <1>3 DEF UaTypes

\* What returns to the dialogs.
LEMMA SucceededTypes == ASSUME UaTypes, Succeeded PROVE UaFormTypes'
  BY DEF UaTypes, UaFormTypes, Succeeded, NoForm, UaRoles

\* And every step.
LEMMA UaStepTypes == UaTypes /\ [UaNext]_uaVars => UaTypes'
  <1> SUFFICES ASSUME UaTypes, [UaNext]_uaVars PROVE UaTypes'
    OBVIOUS
  <1> USE DEF UaTypes
  <1>1. CASE UNCHANGED uaVars
    BY <1>1 DEF uaVars, UaTableTypes, UaCountTypes, UaListTypes, UaFormTypes
  <1>2. CASE \E c \in uaCalls : ServerWorks(c)
    BY <1>2, ServerTypes
  <1>3. ASSUME NEW c \in uaCalls, CallDone(c) PROVE UaTypes'
    <2>1. IsUaCall([c EXCEPT !.at = "waits"])
      BY UaCallMoves DEF UaTableTypes, UaRoles
    <2>2. UaTableTypes' /\ UaCountTypes'
      BY <1>3, <2>1 DEF CallDone, UaTableTypes, UaCountTypes
    <2>3. UaListTypes'
      BY <1>3 DEF CallDone, FetchSent, UaListTypes
    <2> QED
      BY <1>3, <2>2, <2>3, SucceededTypes DEF CallDone
  <1>14. ASSUME NEW c \in uaCalls, CallFailed(c) PROVE UaTypes'
    BY <1>14 DEF CallFailed, UaTableTypes, UaCountTypes, UaListTypes, UaFormTypes, uaForms
  <1>4. ASSUME NEW u \in UaNames, OtherAdministrator(u) PROVE UaTypes'
    <2>1. UaCountTypes'
      BY <1>4, UserAdminAssumption DEF OtherAdministrator, UaCountTypes
    <2>2. UaListTypes' /\ UaFormTypes'
      BY <1>4 DEF OtherAdministrator, UaListTypes, UaFormTypes, uaForms
    <2>3. IsTable(uaRows')
      <3>1. CASE uaRows' = Without(uaRows, u)
        BY <3>1, TablesAre DEF UaTableTypes, UaRoles
      <3>2. ASSUME NEW role \in UaRoles, uaRows' = [uaRows EXCEPT ![u] = role]
            PROVE  IsTable(uaRows')
        BY <3>2, TablesAre DEF UaTableTypes
      <3> QED
        BY <1>4, <3>1, <3>2 DEF OtherAdministrator
    <2>4. UaTableTypes'
      BY <1>4, <2>3 DEF OtherAdministrator, UaTableTypes
    <2> QED
      BY <2>1, <2>2, <2>4
  <1>5. ASSUME NEW u \in UaNames, OpensEdit(u) PROVE UaTypes'
    <2>1. uaList[u] \in UaRoles
      <3>1. IsTable(uaList) /\ u \in DOMAIN uaList
        BY <1>5 DEF OpensEdit, NoDialog, UaListTypes
      <3> QED
        BY <3>1 DEF IsTable
    <2>2. UaTableTypes' /\ UaCountTypes' /\ UaListTypes'
      BY <1>5 DEF OpensEdit, Untouched, UaTableTypes, UaCountTypes, UaListTypes
    <2>3. UaFormTypes'
      <3>1. /\ editUser' = [user |-> u, role |-> uaList[u]] /\ editForm' = uaList[u]
            /\ UNCHANGED <<showCreate, createForm>>
        BY <1>5 DEF OpensEdit
      <3> QED
        BY <2>1, <3>1 DEF UaFormTypes
    <2> QED
      BY <2>2, <2>3
  <1>6. ASSUME NEW u \in UaNames, ConfirmsDelete(u) PROVE UaTypes'
    <2>1. IsUaCall(Call("delete", u, None))
      BY DEF IsUaCall, UaCalls, Call, UaCountTypes
    <2> QED
      BY <1>6, <2>1, SendsTypes DEF ConfirmsDelete, Untouched
  <1>7. CASE ListRead
    BY <1>7 DEF ListRead, UaTableTypes, UaCountTypes, UaListTypes, UaFormTypes, uaForms
  <1>8. CASE ListArrives \/ ListFails
    <2>1. UaTableTypes' /\ UaCountTypes'
      BY <1>8 DEF ListArrives, ListFails, FetchEnds, UaTableTypes, UaCountTypes
    <2>2. UaListTypes'
      BY <1>8 DEF ListArrives, ListFails, FetchEnds, NotFetched, UaListTypes
    <2>3. Succeeded
      BY <1>8 DEF ListArrives, ListFails, FetchEnds
    <2> QED
      BY <2>1, <2>2, <2>3, SucceededTypes
  <1>9. ASSUME NEW role \in UaRoles, PicksRole(role) PROVE UaTypes'
    BY <1>9 DEF PicksRole, UaTableTypes, UaCountTypes, UaListTypes, UaFormTypes
  <1>10. CASE handleUpdate
    <2>1. IsUaCall(Call("update", editUser.user, SentRole))
      BY <1>10 DEF handleUpdate, IsUaCall, UaCalls, Call, SentRole, UaFormTypes, UaCountTypes
    <2> QED
      BY <1>10, <2>1, SendsTypes DEF handleUpdate, Untouched, uaForms
  <1>11. CASE handleCreate
    <2>1. createForm.username \in UaNames /\ createForm.role \in UaRoles
      BY <1>11 DEF handleCreate, UaFormTypes, UaNames
    <2>2. IsUaCall(Call("create", createForm.username, createForm.role))
      BY <2>1 DEF IsUaCall, UaCalls, Call, UaCountTypes
    <2> QED
      BY <1>11, <2>2, SendsTypes DEF handleCreate, Untouched, uaForms
  <1>12. CASE OpensCreate \/ ClosesDialog
    BY <1>12 DEF OpensCreate, ClosesDialog, Untouched, UaTableTypes, UaCountTypes, UaListTypes,
                 UaFormTypes, UaRoles
  <1>13. ASSUME NEW form \in [username : UaNew, role : UaRoles], FillsForm(form) PROVE UaTypes'
    BY <1>13 DEF FillsForm, Untouched, UaTableTypes, UaCountTypes, UaListTypes, UaFormTypes, UaRoles
  <1> QED
    BY <1>1, <1>2, <1>3, <1>4, <1>5, <1>6, <1>7, <1>8, <1>9, <1>10, <1>11, <1>12, <1>13,
       <1>14 DEF UaNext

\* The types of the users' tab.
LEMMA UsersTyped == UaSpec => []UaTypeOK
  <1>1. UaTypes => UaTypeOK
    BY DEF UaTypes, UaTableTypes, UaCountTypes, UaListTypes, UaFormTypes, UaTypeOK, IsTable, IsUaCall,
           UaCalls
  <1> QED
    BY <1>1, UaInitTypes, UaStepTypes, PTL DEF UaSpec

\* A role that a request carries was picked, and so was one in the dialog that
\* is not the role it was opened with.
PickedInv ==
    /\ UaTypes
    /\ editUser # None /\ editForm # editUser.role => <<editUser.user, editForm>> \in uaChose
    /\ \A c \in uaCalls : c.kind = "update" /\ c.role # None => <<c.user, c.role>> \in uaChose

\* A request that moves on keeps what it asks for.
LEMMA MovedAsks ==
  ASSUME NEW c \in UaCalls, NEW at, NEW row
  PROVE  /\ LET to == [c EXCEPT !.at = at]
            IN to.kind = c.kind /\ to.user = c.user /\ to.role = c.role
         /\ LET to == [c EXCEPT !.at = "read", !.read = row]
            IN to.kind = c.kind /\ to.user = c.user /\ to.role = c.role
  BY DEF UaCalls

\* The server's steps.
LEMMA ServerPicked ==
  ASSUME PickedInv, NEW c \in uaCalls, ServerWorks(c)
  PROVE  PickedInv'
  <1>1. UaTypes' /\ c \in UaCalls
    BY ServerTypes DEF PickedInv, UaTypes, UaTableTypes, IsUaCall
  <1>2. PICK to : Moves(c, to) /\ to.kind = c.kind /\ to.user = c.user /\ to.role = c.role
    <2>1. \/ \E at : Moves(c, [c EXCEPT !.at = at])
          \/ Moves(c, [c EXCEPT !.at = "read", !.read = uaRows[c.user]])
      BY DEF ServerWorks, CreatesUser, DeletesUser, ReadsUser, WritesUser, NotCarriedOut, Fails
    <2> QED
      BY <1>1, <2>1, MovedAsks
  <1>3. \A d \in uaCalls' : d \in uaCalls \/ d = to
    BY <1>2 DEF Moves
  <1>4. UNCHANGED <<uaForms, uaChose>>
    BY DEF ServerWorks
  <1> QED
    BY <1>1, <1>2, <1>3, <1>4 DEF PickedInv, uaForms

LEMMA PickedInvStep == PickedInv /\ [UaNext]_uaVars => PickedInv'
  <1> SUFFICES ASSUME PickedInv, [UaNext]_uaVars PROVE PickedInv'
    OBVIOUS
  <1>0. UaTypes'
    BY UaStepTypes DEF PickedInv
  <1> USE <1>0 DEF PickedInv
  <1>1. CASE UNCHANGED uaVars
    BY <1>1 DEF uaVars
  <1>2. CASE \E c \in uaCalls : ServerWorks(c)
    BY <1>2, ServerPicked
  <1>3. ASSUME NEW c \in uaCalls, CallDone(c) PROVE PickedInv'
    <2>1. c \in UaCalls
      BY DEF UaTypes, UaTableTypes, IsUaCall
    <2>2. \A d \in uaCalls' : d \in uaCalls \/ d = [c EXCEPT !.at = "waits"]
      BY <1>3 DEF CallDone
    <2>3. editUser' = editUser \/ editUser' = None
      BY <1>3 DEF CallDone, Succeeded
    <2>4. UNCHANGED <<editForm, uaChose>>
      BY <1>3 DEF CallDone, Succeeded
    <2>5. \A d \in uaCalls' : d.kind = "update" /\ d.role # None => <<d.user, d.role>> \in uaChose'
      <3>1. PICK to : /\ to = [c EXCEPT !.at = "waits"]
                      /\ to.kind = c.kind /\ to.user = c.user /\ to.role = c.role
        BY <2>1, MovedAsks
      <3> QED
        BY <2>2, <2>4, <3>1
    <2> QED
      BY <2>3, <2>4, <2>5
  <1>4. ASSUME NEW c \in uaCalls, CallFailed(c) PROVE PickedInv'
    BY <1>4 DEF CallFailed, uaForms
  <1>5. ASSUME NEW u \in UaNames, OtherAdministrator(u) PROVE PickedInv'
    BY <1>5 DEF OtherAdministrator, uaForms
  <1>6. ASSUME NEW u \in UaNames, OpensEdit(u) PROVE PickedInv'
    BY <1>6 DEF OpensEdit, Untouched
  <1>7. ASSUME NEW u \in UaNames, ConfirmsDelete(u) PROVE PickedInv'
    BY <1>7 DEF ConfirmsDelete, Sends, Untouched, Call, uaForms
  <1>8. CASE ListRead
    BY <1>8 DEF ListRead, uaForms
  <1>9. CASE ListArrives \/ ListFails
    BY <1>9 DEF ListArrives, ListFails, FetchEnds, Succeeded
  <1>10. ASSUME NEW role \in UaRoles, PicksRole(role) PROVE PickedInv'
    BY <1>10 DEF PicksRole
  <1>11. CASE handleUpdate
    BY <1>11 DEF handleUpdate, Sends, Untouched, SentRole, Call
  <1>12. CASE handleCreate
    BY <1>12 DEF handleCreate, Sends, Untouched, Call
  <1>13. CASE OpensCreate \/ ClosesDialog
    BY <1>13 DEF OpensCreate, ClosesDialog, Untouched
  <1>14. ASSUME NEW form \in [username : UaNew, role : UaRoles], FillsForm(form) PROVE PickedInv'
    BY <1>14 DEF FillsForm, Untouched
  <1> QED
    BY <1>1, <1>2, <1>3, <1>4, <1>5, <1>6, <1>7, <1>8, <1>9, <1>10, <1>11, <1>12, <1>13,
       <1>14 DEF UaNext

\* Only the handlers and other administrators change rows.
LEMMA StepKeepsRoles ==
  ASSUME PickedInv, [UaNext]_uaVars,
         NEW u \in DOMAIN uaRows \cap DOMAIN uaRows',
         uaRows'[u] # uaRows[u], uaOthers' = uaOthers
  PROVE  \/ <<u, uaRows'[u]>> \in uaChose
         \/ \E c \in uaCalls : /\ c.user = u /\ c.at = "read" /\ c.role = None
                               /\ c.read = uaRows'[u]
  <1>0. uaOthers \in Nat
    BY UserAdminAssumption DEF PickedInv, UaTypes, UaCountTypes
  <1>1. PICK c \in uaCalls : ServerWorks(c)
    BY <1>0 DEF UaNext, uaVars, OtherAdministrator, CallDone, CallFailed, ListRead,
           ListArrives, ListFails, FetchEnds, OpensEdit, ConfirmsDelete, PicksRole, FillsForm,
           handleUpdate, handleCreate, OpensCreate, ClosesDialog, Untouched
  <1>2. WritesUser(c)
    BY <1>1 DEF ServerWorks, CreatesUser, DeletesUser, ReadsUser, NotCarriedOut, Fails, With, Without
  <1>3. c.user = u /\ uaRows'[u] = Updated(c)
    BY <1>2 DEF WritesUser, With
  <1>4. CASE c.role = None
    BY <1>2, <1>3, <1>4 DEF WritesUser, Updated
  <1>5. CASE c.role # None
    BY <1>2, <1>3, <1>5 DEF WritesUser, Updated, PickedInv
  <1> QED
    BY <1>4, <1>5

\* A save that gives a user another role gives one picked for it in the dialog, or
\* has none and gives back the one that the handler had read, the row having changed
\* under it (handleUpdate in AdminPage.tsx, handleUpdateUser).
THEOREM RolesAreKept == UaSpec => SavesKeepRoles
  <1>1. UaInit => PickedInv
    BY UaInitTypes DEF UaInit, PickedInv
  <1>2. PickedInv /\ [UaNext]_uaVars =>
          [\A u \in DOMAIN uaRows \cap DOMAIN uaRows' :
             (uaRows'[u] # uaRows[u] /\ uaOthers' = uaOthers)
               => \/ <<u, uaRows'[u]>> \in uaChose
                  \/ \E c \in uaCalls : /\ c.user = u /\ c.at = "read" /\ c.role = None
                                        /\ c.read = uaRows'[u]]_uaVars
    BY StepKeepsRoles
  <1> QED
    BY <1>1, <1>2, PickedInvStep, PTL DEF UaSpec, SavesKeepRoles

-----------------------------------------------------------------------------
(* Files. *)

\* How many numbers of a set come before one.
RankIn(S, i) == Cardinality({j \in S : j < i})

\* The ranks of finitely many numbers are those below their count, each once.
LEMMA RanksAre ==
  ASSUME NEW S \in SUBSET Int, IsFiniteSet(S)
  PROVE  /\ Cardinality(S) \in Nat
         /\ \A i \in S : RankIn(S, i) \in 0..(Cardinality(S) - 1)
         /\ \A i, j \in S : i < j => RankIn(S, i) < RankIn(S, j)
         /\ \A k \in 0..(Cardinality(S) - 1) : \E i \in S : RankIn(S, i) = k
  <1> DEFINE n == Cardinality(S)
             Under(i) == {j \in S : j < i}
             rank == [i \in S |-> RankIn(S, i)]
  <1>1. n \in Nat
    BY FS_CardinalityType
  <1>2. \A i \in S : /\ IsFiniteSet(Under(i)) /\ Cardinality(Under(i)) \in Nat
                     /\ Cardinality(Under(i)) < n
    <2> SUFFICES ASSUME NEW i \in S
                 PROVE  /\ IsFiniteSet(Under(i)) /\ Cardinality(Under(i)) \in Nat
                        /\ Cardinality(Under(i)) < n
      OBVIOUS
    <2>1. Under(i) \in SUBSET S /\ Under(i) # S
      OBVIOUS
    <2> HIDE DEF Under
    <2>2. IsFiniteSet(Under(i)) /\ Cardinality(Under(i)) <= n /\ Cardinality(Under(i)) # n
      BY <2>1, FS_Subset
    <2>3. Cardinality(Under(i)) \in Nat
      BY <2>2, FS_CardinalityType
    <2> QED
      BY <1>1, <2>2, <2>3
  <1>3. \A i \in S : RankIn(S, i) = Cardinality(Under(i))
    BY DEF RankIn
  <1>4. ASSUME NEW i \in S, NEW j \in S, i < j PROVE RankIn(S, i) < RankIn(S, j)
    <2>1. Under(i) \in SUBSET Under(j) /\ i \in Under(j) /\ i \notin Under(i)
      <3>1. i \in Int /\ j \in Int /\ \A x \in S : x \in Int
        OBVIOUS
      <3>2. \A x \in S : x < i => x < j
        BY <1>4, <3>1
      <3>3. ~(i < i)
        BY <3>1
      <3> QED
        BY <1>4, <3>2, <3>3
    <2>2. Under(i) # Under(j)
      BY <2>1
    <2> HIDE DEF Under
    <2>3. /\ Cardinality(Under(i)) <= Cardinality(Under(j))
          /\ Cardinality(Under(i)) # Cardinality(Under(j))
      BY <1>2, <2>1, <2>2, FS_Subset
    <2>4. Cardinality(Under(i)) \in Nat /\ Cardinality(Under(j)) \in Nat
      BY <1>2
    <2>5. RankIn(S, i) = Cardinality(Under(i)) /\ RankIn(S, j) = Cardinality(Under(j))
      BY <1>3
    <2> QED
      BY <2>3, <2>4, <2>5
  <1> HIDE DEF Under, n
  <1>5. \A i \in S : RankIn(S, i) \in 0..(n - 1)
    BY <1>1, <1>2, <1>3
  <1>6. rank \in Injection(S, 0..(n - 1))
    <2>1. \A i, j \in S : RankIn(S, i) = RankIn(S, j) => i = j
      <3> SUFFICES ASSUME NEW i \in S, NEW j \in S, i # j PROVE RankIn(S, i) # RankIn(S, j)
        OBVIOUS
      <3>1. i < j \/ j < i
        OBVIOUS
      <3>2. RankIn(S, i) < RankIn(S, j) \/ RankIn(S, j) < RankIn(S, i)
        BY <1>4, <3>1
      <3> QED
        BY <1>5, <3>2
    <2> QED
      BY <1>5, <2>1 DEF Injection, IsInjective
  <1>7. IsFiniteSet(0..(n - 1)) /\ Cardinality(0..(n - 1)) = n
    <2>1. 0 \in Int /\ n - 1 \in Int /\ (IF 0 > n - 1 THEN 0 ELSE (n - 1) - 0 + 1) = n
      BY <1>1
    <2> DEFINE m == n - 1
    <2>2. 0 \in Int /\ m \in Int /\ (IF 0 > m THEN 0 ELSE m - 0 + 1) = n
      BY <2>1
    <2> HIDE DEF m
    <2>3. IsFiniteSet(0..m) /\ Cardinality(0..m) = n
      BY <2>2, FS_Interval, Zenon
    <2> QED
      BY <2>3 DEF m
  <1>8. rank \in Surjection(S, 0..(n - 1))
    BY <1>6, <1>7, FS_Injection DEF n
  <1>9. \A k \in 0..(n - 1) : \E i \in S : RankIn(S, i) = k
    BY <1>8 DEF Surjection
  <1> QED
    BY <1>1, <1>4, <1>5, <1>9 DEF n

\* In order, each number stands at the place of its rank.
LEMMA InOrderIs ==
  ASSUME NEW S \in SUBSET Int, IsFiniteSet(S)
  PROVE  /\ Cardinality(S) \in Nat /\ InOrder(S) \in [1..Cardinality(S) -> S]
         /\ \A k \in 1..Cardinality(S) : RankIn(S, InOrder(S)[k]) = k - 1
  <1> DEFINE n == Cardinality(S)
  <1>1. n \in Nat /\ \A k \in 0..(n - 1) : \E i \in S : RankIn(S, i) = k
    BY RanksAre
  <1>2. InOrder(S) = [k \in 1..n |-> CHOOSE i \in S : RankIn(S, i) = k - 1]
    BY DEF InOrder, RankIn
  <1> HIDE DEF n
  <1>3. ASSUME NEW k \in 1..n
        PROVE  /\ (CHOOSE i \in S : RankIn(S, i) = k - 1) \in S
               /\ RankIn(S, CHOOSE i \in S : RankIn(S, i) = k - 1) = k - 1
    <2>1. \E i \in S : RankIn(S, i) = k - 1
      BY <1>1
    <2> QED
      BY <2>1
  <1> QED
    BY <1>1, <1>2, <1>3 DEF n

\* No two numbers of a set have one rank.
LEMMA SameRank ==
  ASSUME NEW S \in SUBSET Int, IsFiniteSet(S), NEW i \in S, NEW j \in S, RankIn(S, i) = RankIn(S, j)
  PROVE  i = j
  <1>1. /\ i < j => RankIn(S, i) < RankIn(S, j)
        /\ j < i => RankIn(S, j) < RankIn(S, i)
        /\ RankIn(S, i) \in Int /\ RankIn(S, j) \in Int
    BY RanksAre
  <1> QED
    BY <1>1

\* The greatest of finitely many numbers.
LEMMA MaxOfFinite ==
  ASSUME NEW S \in SUBSET Int, IsFiniteSet(S), S # {}
  PROVE  Max(S) \in S /\ \A y \in S : y <= Max(S)
  <1> DEFINE n == Cardinality(S)
  <1>1. n \in Nat /\ n # 0
    BY FS_CardinalityType, FS_EmptySet
  <1>2. PICK m \in S : RankIn(S, m) = n - 1
    <2>1. n - 1 \in 0..(n - 1)
      BY <1>1
    <2> HIDE DEF n
    <2> QED
      BY <2>1, RanksAre DEF n
  <1>3. \A y \in S : y <= m
    <2> SUFFICES ASSUME NEW y \in S, m < y PROVE FALSE
      OBVIOUS
    <2>1. RankIn(S, m) < RankIn(S, y) /\ RankIn(S, y) \in 0..(n - 1)
      BY RanksAre
    <2> HIDE DEF n
    <2> QED
      BY <1>1, <1>2, <2>1
  <1>4. \E x \in S : \A y \in S : x >= y
    BY <1>3
  <1>5. Max(S) \in S /\ \A y \in S : Max(S) >= y
    BY <1>4 DEF Max
  <1> QED
    BY <1>5

\* The first numbers of a set, in order.
LEMMA FirstInOrder ==
  ASSUME NEW S \in SUBSET Int, IsFiniteSet(S), NEW e \in S,
         NEW R, R = {i \in S : i <= e}
  PROVE  /\ IsFiniteSet(R) /\ Cardinality(R) \in 1..Cardinality(S)
         /\ \A k \in 1..Cardinality(R) : InOrder(R)[k] = InOrder(S)[k]
  <1>1. R \in SUBSET S /\ R \in SUBSET Int /\ R # {}
    <2>1. e \in R
      OBVIOUS
    <2> QED
      BY <2>1
  <1>2. IsFiniteSet(R) /\ Cardinality(R) <= Cardinality(S)
    BY <1>1, FS_Subset
  <1>3. Cardinality(R) \in Nat /\ Cardinality(S) \in Nat /\ Cardinality(R) # 0
    BY <1>1, <1>2, FS_CardinalityType, FS_EmptySet
  <1>4. \A i \in R : RankIn(R, i) = RankIn(S, i)
    <2> SUFFICES ASSUME NEW i \in R PROVE RankIn(R, i) = RankIn(S, i)
      OBVIOUS
    <2>1. ASSUME NEW j \in S, j < i PROVE j \in R
      <3>1. i <= e /\ i \in Int /\ j \in Int /\ e \in Int
        OBVIOUS
      <3>2. j <= e
        BY <2>1, <3>1
      <3> QED
        BY <3>2
    <2>2. {j \in R : j < i} = {j \in S : j < i}
      BY <1>1, <2>1
    <2> QED
      BY <2>2 DEF RankIn
  <1>5. ASSUME NEW k \in 1..Cardinality(R) PROVE InOrder(R)[k] = InOrder(S)[k]
    <2>1. InOrder(R)[k] \in R /\ RankIn(R, InOrder(R)[k]) = k - 1
      BY <1>1, <1>2, InOrderIs
    <2>2. k \in 1..Cardinality(S)
      BY <1>2, <1>3
    <2>3. InOrder(S)[k] \in S /\ RankIn(S, InOrder(S)[k]) = k - 1
      BY <2>2, InOrderIs
    <2>4. InOrder(R)[k] \in S /\ RankIn(S, InOrder(R)[k]) = RankIn(S, InOrder(S)[k])
      BY <1>1, <1>4, <2>1, <2>3
    <2>5. \A i, j \in S : RankIn(S, i) = RankIn(S, j) => i = j
      BY SameRank
    <2> QED
      BY <2>3, <2>4, <2>5
  <1> QED
    BY <1>2, <1>3, <1>5

\* What FlattenSeq has made of the first sequences.
Flattened(g, seqs, S) ==
    /\ g[0] = <<>> /\ \A i \in 1..Len(seqs) : g[i] = g[i - 1] \o seqs[i]
    /\ \A i \in 0..Len(seqs) : g[i] \in Seq(S)
    /\ FlattenSeq(seqs) = g[Len(seqs)]

\* The fold behind FlattenSeq, step by step: it goes over functions, which have to
\* be well-formed at every number of sequences.
LEMMA FlattenIs ==
  ASSUME NEW S, NEW seqs \in Seq(Seq(S))
  PROVE  \E g : Flattened(g, seqs, S)
  <1> DEFINE n == Len(seqs)
             Rule(f) == [i \in 1..n |-> IF i = 1 THEN seqs[i] ELSE f[i - 1] \o seqs[i]]
             F == [i \in 1..n |-> [v \in Seq(S) |-> v \o seqs[i]]]
  <1>1. n \in Nat /\ <<>> \in Seq(S) /\ \A i \in 1..n : seqs[i] \in Seq(S)
    OBVIOUS
  <1>2. F \in [1..n -> [Seq(S) -> Seq(S)]]
    BY <1>1
  <1>3. \A i \in 1..n : \A v \in Seq(S) : F[i][v] = v \o seqs[i]
    OBVIOUS
  <1>4. \A i \in 1..n : i \in 0..n /\ i - 1 \in 0..n /\ i # 0 /\ (i # 1 => i - 1 \in 1..n)
    BY <1>1
  <1> HIDE DEF F
  <1>5. PICK g \in [0..n -> Seq(S)] : GoesOn(g, n, <<>>, F)
    <2>1. CanGoOn(n, Seq(S), <<>>, F)
      BY <1>1, <1>2, Iterates
    <2> QED
      BY <2>1 DEF CanGoOn
  <1>6. g[0] = <<>> /\ \A i \in 0..n : g[i] \in Seq(S)
    BY <1>5 DEF GoesOn
  <1>7. ASSUME NEW i \in 1..n PROVE g[i] = g[i - 1] \o seqs[i]
    <2>1. g[i - 1] \in Seq(S)
      BY <1>4, <1>6
    <2>2. g[i] = F[i][g[i - 1]]
      BY <1>5 DEF GoesOn
    <2> QED
      BY <1>3, <2>1, <2>2
  <1> HIDE DEF n
  <1>8. CASE n = 0
    <2>1. FlattenSeq(seqs) = seqs /\ seqs = <<>>
      BY <1>8 DEF FlattenSeq, n
    <2> QED
      BY <1>6, <1>7, <1>8, <2>1 DEF Flattened, n
  <1>9. CASE n # 0
    <2> DEFINE h == [i \in 1..n |-> g[i]]
    <2>1. \A t \in Seq(S) : <<>> \o t = t
      OBVIOUS
    <2>2. \A i \in 1..n : i = 1 => g[i] = seqs[i]
      <3> SUFFICES ASSUME NEW i \in 1..n, i = 1 PROVE g[i] = seqs[i]
        OBVIOUS
      <3>1. i - 1 = 0 /\ seqs[i] \in Seq(S) /\ g[i] = g[i - 1] \o seqs[i]
        <4>1. i - 1 = 0
          OBVIOUS
        <4>2. seqs[i] \in Seq(S)
          BY <1>1
        <4>3. g[i] = g[i - 1] \o seqs[i]
          BY <1>7
        <4> QED
          BY <4>1, <4>2, <4>3
      <3>2. g[i - 1] = <<>>
        BY <1>6, <3>1
      <3>3. g[i] = <<>> \o seqs[i]
        BY <3>1, <3>2
      <3> QED
        BY <2>1, <3>1, <3>3
    <2>3. \A i \in 1..n : h[i] = Rule(h)[i]
      <3> SUFFICES ASSUME NEW i \in 1..n PROVE h[i] = Rule(h)[i]
        OBVIOUS
      <3>1. CASE i = 1
        <4>1. h[i] = g[i] /\ g[i] = seqs[i]
          BY <2>2, <3>1
        <4> QED
          BY <3>1, <4>1
      <3>2. CASE i # 1
        <4>1. h[i - 1] = g[i - 1] /\ h[i] = g[i]
          BY <1>4, <3>2
        <4> QED
          BY <1>7, <3>2, <4>1
      <3> QED
        BY <3>1, <3>2
    <2>4. h = [i \in 1..n |-> h[i]]
      OBVIOUS
    <2> HIDE DEF h
    <2>5. h = Rule(h)
      BY <2>3, <2>4
    <2>6. PICK f : f = Rule(f) /\ FlattenSeq(seqs) = f[n]
      BY <1>9, <2>5 DEF FlattenSeq, n
    <2>7. \A i \in 1..n : f[i] = IF i = 1 THEN seqs[i] ELSE f[i - 1] \o seqs[i]
      BY <2>6
    <2> DEFINE T == {i \in 0..n : i = 0 \/ f[i] = g[i]}
    <2>8. 0 \in T
      BY <1>1
    <2>9. ASSUME NEW i \in 1..n, i - 1 \in T PROVE i \in T
      <3>1. CASE i = 1
        <4>1. i \in 0..n /\ f[i] = seqs[i] /\ g[i] = seqs[i]
          BY <1>4, <2>2, <2>7, <3>1
        <4> QED
          BY <4>1
      <3>2. CASE i # 1
        BY <1>4, <1>7, <2>7, <2>9, <3>2
      <3> QED
        BY <3>1, <3>2
    <2> HIDE DEF T
    <2>10. \A i \in 0..n : i \in T
      BY <1>1, <2>8, <2>9, UpwardsFromZero
    <2>11. f[n] = g[n]
      BY <1>1, <1>9, <2>10 DEF T
    <2> QED
      BY <1>6, <1>7, <2>6, <2>11 DEF Flattened, n
  <1> QED
    BY <1>8, <1>9

\* One sequence is itself.
LEMMA FlattenOne ==
  ASSUME NEW S, NEW t \in Seq(S)
  PROVE  FlattenSeq(<<t>>) = t
  <1> DEFINE seqs == <<t>>
  <1>1. seqs \in Seq(Seq(S)) /\ Len(seqs) = 1 /\ seqs[1] = t
    OBVIOUS
  <1> HIDE DEF seqs
  <1>2. PICK g : Flattened(g, seqs, S)
    BY <1>1, FlattenIs
  <1>3. g[1] = g[0] \o t /\ g[0] = <<>>
    <2>1. 1 \in 1..Len(seqs) /\ 1 - 1 = 0
      BY <1>1
    <2>2. g[1] = g[1 - 1] \o seqs[1]
      BY <1>2, <2>1 DEF Flattened
    <2> QED
      BY <1>1, <1>2, <2>1, <2>2 DEF Flattened
  <1>4. <<>> \o t = t
    OBVIOUS
  <1> QED
    BY <1>1, <1>2, <1>3, <1>4 DEF Flattened, seqs

\* One more sequence is appended.
LEMMA FlattenMore ==
  ASSUME NEW S, NEW seqs \in Seq(Seq(S)), NEW t \in Seq(S)
  PROVE  FlattenSeq(Append(seqs, t)) = FlattenSeq(seqs) \o t
  <1> DEFINE n == Len(seqs)
             more == Append(seqs, t)
  <1>1. /\ n \in Nat /\ more \in Seq(Seq(S)) /\ Len(more) = n + 1
        /\ \A i \in 1..n : more[i] = seqs[i]
        /\ more[n + 1] = t
    OBVIOUS
  <1> HIDE DEF more
  <1>2. PICK g : Flattened(g, seqs, S)
    BY FlattenIs
  <1>3. PICK h : Flattened(h, more, S)
    BY <1>1, FlattenIs
  <1> HIDE DEF n
  <1>4. \A i \in 1..n : g[i] = g[i - 1] \o seqs[i]
    BY <1>2 DEF Flattened, n
  <1>5. \A i \in 1..(n + 1) : h[i] = h[i - 1] \o more[i]
    BY <1>1, <1>3 DEF Flattened
  <1> DEFINE T == {i \in 0..n : g[i] = h[i]}
  <1>6. 0 \in T
    <2>1. 0 \in 0..n /\ g[0] = <<>> /\ h[0] = <<>>
      BY <1>1, <1>2, <1>3 DEF Flattened
    <2> QED
      BY <2>1
  <1>7. ASSUME NEW i \in 1..n, i - 1 \in T PROVE i \in T
    <2>1. i \in 0..n /\ i \in 1..(n + 1) /\ more[i] = seqs[i]
      BY <1>1
    <2> QED
      BY <1>4, <1>5, <1>7, <2>1
  <1> HIDE DEF T
  <1>8. \A i \in 0..n : i \in T
    BY <1>1, <1>6, <1>7, UpwardsFromZero
  <1>9. g[n] = h[n]
    <2>1. n \in 0..n
      BY <1>1
    <2> QED
      BY <1>8, <2>1 DEF T
  <1>10. h[n + 1] = h[n] \o t
    <2>1. n + 1 \in 1..(n + 1) /\ (n + 1) - 1 = n
      BY <1>1
    <2> QED
      BY <1>1, <1>5, <2>1
  <1> QED
    BY <1>1, <1>2, <1>3, <1>9, <1>10 DEF Flattened, n, more

\* What is flattened has the members of its sequences.
LEMMA FlattenTyped ==
  ASSUME NEW S, NEW seqs \in Seq(Seq(S))
  PROVE  FlattenSeq(seqs) \in Seq(S)
  <1>1. PICK g : Flattened(g, seqs, S)
    BY FlattenIs
  <1>2. Len(seqs) \in 0..Len(seqs)
    OBVIOUS
  <1> QED
    BY <1>1, <1>2 DEF Flattened

\* Chunks are joined with newlines.
Continued(chunks) == [i \in DOMAIN chunks |-> IF i = 1 THEN chunks[i] ELSE <<"n">> \o chunks[i]]

\* Text of chunks: a newline is put between one and the next.
LEMMA JoinedIs ==
  ASSUME NEW chunks \in Seq(Seq(Characters)), NEW c \in Seq(Characters)
  PROVE  /\ Joined(chunks) \in Seq(Characters)
         /\ Joined(<<c>>) = c
         /\ chunks # <<>> => Joined(Append(chunks, c)) = Joined(chunks) \o (<<"n">> \o c)
  <1> DEFINE n == Len(chunks)
             nc == <<"n">> \o c
  <1>1. \A d : Joined(d) = FlattenSeq(Continued(d))
    BY DEF Joined, Continued
  <1>2. n \in Nat /\ DOMAIN chunks = 1..n /\ \A i \in 1..n : chunks[i] \in Seq(Characters)
    OBVIOUS
  <1>3. "n" \in Characters
    BY DEF Characters
  <1>4. \A d \in Seq(Characters) : <<"n">> \o d \in Seq(Characters)
    BY <1>3
  <1>5. Continued(chunks) \in Seq(Seq(Characters)) /\ Len(Continued(chunks)) = n
    BY <1>2, <1>4 DEF Continued
  <1>6. Joined(chunks) \in Seq(Characters)
    BY <1>1, <1>5, FlattenTyped
  <1>7. Joined(<<c>>) = c
    <2>1. Continued(<<c>>) = <<c>>
      BY DEF Continued
    <2> QED
      BY <1>1, <2>1, FlattenOne
  <1>8. ASSUME chunks # <<>> PROVE Joined(Append(chunks, c)) = Joined(chunks) \o nc
    <2>1. Continued(Append(chunks, c)) = Append(Continued(chunks), nc)
      <3> DEFINE a == Continued(Append(chunks, c))
                 b == Append(Continued(chunks), nc)
      <3>1. n # 0
        BY <1>2, <1>8
      <3>2. /\ DOMAIN Append(chunks, c) = 1..(n + 1)
            /\ \A i \in 1..n : Append(chunks, c)[i] = chunks[i]
            /\ Append(chunks, c)[n + 1] = c
        BY <1>2
      <3>3. DOMAIN a = 1..(n + 1) /\ a = [i \in 1..(n + 1) |-> a[i]]
        BY <3>2 DEF Continued
      <3>4. b = [i \in 1..(n + 1) |-> b[i]]
        BY <1>4, <1>5
      <3>5. ASSUME NEW i \in 1..(n + 1) PROVE a[i] = b[i]
        <4>1. CASE i \in 1..n
          <5>1. b[i] = Continued(chunks)[i]
            BY <1>5, <4>1
          <5>2. Continued(chunks)[i] = IF i = 1 THEN chunks[i] ELSE <<"n">> \o chunks[i]
            BY <1>2, <4>1 DEF Continued
          <5>3. a[i] = IF i = 1 THEN chunks[i] ELSE <<"n">> \o chunks[i]
            BY <3>2, <4>1 DEF Continued
          <5> QED
            BY <5>1, <5>2, <5>3
        <4>2. CASE i = n + 1
          <5>1. i # 1 /\ b[i] = nc
            BY <1>2, <1>5, <3>1, <4>2
          <5>2. a[i] = <<"n">> \o c
            BY <3>2, <4>2, <5>1 DEF Continued
          <5> QED
            BY <5>1, <5>2
        <4>3. i \in 1..n \/ i = n + 1
          BY <1>2
        <4> HIDE DEF a, b, n
        <4> QED
          BY <4>1, <4>2, <4>3
      <3> HIDE DEF a, b
      <3> QED
        BY <3>3, <3>4, <3>5 DEF a, b
    <2>2. nc \in Seq(Characters)
      BY <1>4
    <2> HIDE DEF nc
    <2> QED
      BY <1>1, <1>5, <2>1, <2>2, FlattenMore
  <1> QED
    BY <1>6, <1>7, <1>8

\* What each byte is decoded to.
BytePieces(bytes) ==
    [i \in DOMAIN bytes |->
        CASE bytes[i] = "h" -> IF i < Len(bytes) THEN <<"w">> ELSE <<"?">>
          [] bytes[i] = "t" -> IF i = 1 THEN <<"?">> ELSE <<>>
          [] OTHER          -> <<bytes[i]>>]

\* Text of bytes; narrow characters are their bytes.
LEMMA DecodedTyped ==
  ASSUME NEW bytes \in Seq(Bytes)
  PROVE  Decoded(bytes) \in Seq(Characters)
  <1>1. Decoded(bytes) = FlattenSeq(BytePieces(bytes))
    BY DEF Decoded, BytePieces
  <1>2. ASSUME NEW i \in DOMAIN bytes PROVE BytePieces(bytes)[i] \in Seq(Characters)
    <2>1. bytes[i] \in Bytes
      OBVIOUS
    <2>2. /\ <<"w">> \in Seq(Characters) /\ <<"?">> \in Seq(Characters)
          /\ <<"x">> \in Seq(Characters) /\ <<"n">> \in Seq(Characters) /\ <<>> \in Seq(Characters)
      BY DEF Characters
    <2>3. CASE bytes[i] = "h"
      BY <2>2, <2>3 DEF BytePieces
    <2>4. CASE bytes[i] = "t"
      BY <2>2, <2>4 DEF BytePieces
    <2>5. CASE bytes[i] \in {"x", "n"}
      BY <2>2, <2>5 DEF BytePieces
    <2> QED
      BY <2>1, <2>3, <2>4, <2>5 DEF Bytes
  <1>3. /\ DOMAIN bytes = 1..Len(bytes) /\ Len(bytes) \in Nat
        /\ DOMAIN BytePieces(bytes) = DOMAIN bytes
    BY DEF BytePieces
  <1>4. BytePieces(bytes) = [i \in 1..Len(bytes) |-> BytePieces(bytes)[i]]
    BY <1>3 DEF BytePieces
  <1>5. BytePieces(bytes) \in Seq(Seq(Characters))
    BY <1>2, <1>3, <1>4
  <1> QED
    BY <1>1, <1>5, FlattenTyped

\* Narrow characters are decoded to themselves.
LEMMA DecodedPlain ==
  ASSUME NEW bytes \in Seq({"x", "n"})
  PROVE  Decoded(bytes) = bytes
  <1> DEFINE n == Len(bytes)
             S == {"x", "n"}
             seqs == BytePieces(bytes)
  <1>1. n \in Nat /\ DOMAIN bytes = 1..n /\ \A i \in 1..n : bytes[i] \in S
    OBVIOUS
  <1>2. Decoded(bytes) = FlattenSeq(seqs)
    BY DEF Decoded, BytePieces
  <1>3. \A i \in 1..n : seqs[i] = <<bytes[i]>>
    BY <1>1 DEF BytePieces
  <1>4. seqs = [i \in 1..n |-> seqs[i]]
    BY <1>1 DEF BytePieces
  <1> HIDE DEF seqs, n, S
  <1>5. seqs \in Seq(Seq(S)) /\ Len(seqs) = n
    <2>1. \A i \in 1..n : seqs[i] \in Seq(S)
      <3>1. \A b \in S : <<b>> \in Seq(S)
        OBVIOUS
      <3> QED
        BY <1>1, <1>3, <3>1
    <2> QED
      BY <1>1, <1>4, <2>1
  <1>6. PICK g : Flattened(g, seqs, S)
    BY <1>5, FlattenIs
  <1>7. /\ g[0] = <<>> /\ \A i \in 1..n : g[i] = g[i - 1] \o seqs[i]
        /\ FlattenSeq(seqs) = g[n]
    BY <1>5, <1>6 DEF Flattened
  <1> DEFINE T == {i \in 0..n : g[i] = SubSeq(bytes, 1, i)}
  <1>8. 0 \in T
    <2>1. 0 \in 0..n /\ SubSeq(bytes, 1, 0) = <<>>
      BY <1>1
    <2> QED
      BY <1>7, <2>1
  <1>9. ASSUME NEW i \in 1..n, i - 1 \in T PROVE i \in T
    <2>1. SubSeq(bytes, 1, i - 1) \o <<bytes[i]>> = SubSeq(bytes, 1, i)
      BY <1>1 DEF n
    <2>2. g[i] = g[i - 1] \o <<bytes[i]>> /\ g[i - 1] = SubSeq(bytes, 1, i - 1) /\ i \in 0..n
      <3>1. i \in 0..n
        BY <1>1
      <3>2. g[i] = g[i - 1] \o seqs[i] /\ seqs[i] = <<bytes[i]>>
        BY <1>3, <1>7
      <3> QED
        BY <1>9, <3>1, <3>2
    <2> QED
      BY <2>1, <2>2
  <1> HIDE DEF T
  <1>10. \A i \in 0..n : i \in T
    BY <1>1, <1>8, <1>9, UpwardsFromZero
  <1>11. g[n] = SubSeq(bytes, 1, n)
    <2>1. n \in 0..n
      BY <1>1
    <2> QED
      BY <1>10, <2>1 DEF T
  <1>12. SubSeq(bytes, 1, n) = bytes
    BY DEF n
  <1> QED
    BY <1>2, <1>7, <1>11, <1>12

\* The newlines of a text, and where a chunk is cut.
LEMMA NewlinesAre ==
  ASSUME NEW t \in Seq(Characters)
  PROVE  /\ NewlinesOf(t) \subseteq 1..Len(t) /\ IsFiniteSet(NewlinesOf(t))
         /\ \A i \in 1..Len(t) : i \in NewlinesOf(t) <=> t[i] = "n"
  <1>1. DOMAIN t = 1..Len(t) /\ Len(t) \in Nat
    OBVIOUS
  <1>2. /\ NewlinesOf(t) \in SUBSET (1..Len(t))
        /\ \A i \in 1..Len(t) : i \in NewlinesOf(t) <=> t[i] = "n"
    BY <1>1 DEF NewlinesOf
  <1>3. IsFiniteSet(1..Len(t))
    <2>1. 1 \in Int /\ Len(t) \in Int
      BY <1>1
    <2> QED
      BY <2>1, FS_Interval, Zenon
  <1> QED
    BY <1>2, <1>3, FS_Subset

\* A chunk that is cut is cut at a newline.
LEMMA CutIs ==
  ASSUME NEW r, NEW t \in Seq(Characters)
  PROVE  /\ Cut(r, t) \in 0..Len(t)
         /\ r.atEnd => Cut(r, t) = 0
         /\ Cut(r, t) # 0 => t[Cut(r, t)] = "n"
         /\ ~r.atEnd /\ NewlinesOf(t) # {} => Cut(r, t) # 0
  <1> DEFINE S == NewlinesOf(t) \cup {0}
  <1>1. Len(t) \in Nat
    OBVIOUS
  <1>2. CASE r.atEnd
    BY <1>1, <1>2 DEF Cut
  <1>3. CASE ~r.atEnd
    <2>1. Cut(r, t) = Max(S)
      BY <1>3 DEF Cut
    <2>2. S \in SUBSET Int /\ S # {} /\ S \subseteq 0..Len(t)
      BY <1>1, NewlinesAre
    <2>3. IsFiniteSet(S)
      BY NewlinesAre, FS_AddElement
    <2> HIDE DEF S
    <2>4. Max(S) \in S /\ \A y \in S : y <= Max(S)
      BY <2>2, <2>3, MaxOfFinite
    <2>5. Cut(r, t) # 0 => t[Cut(r, t)] = "n"
      <3> SUFFICES ASSUME Cut(r, t) # 0 PROVE t[Cut(r, t)] = "n"
        OBVIOUS
      <3>1. Cut(r, t) \in NewlinesOf(t) /\ Cut(r, t) \in 1..Len(t)
        BY <2>1, <2>4, NewlinesAre DEF S
      <3> QED
        BY <3>1, NewlinesAre
    <2>6. ASSUME NewlinesOf(t) # {} PROVE Cut(r, t) # 0
      <3>1. PICK y \in NewlinesOf(t) : TRUE
        BY <2>6
      <3>2. y \in S /\ y \in 1..Len(t)
        BY NewlinesAre DEF S
      <3>3. y <= Max(S) /\ y \in Int /\ y > 0
        BY <1>1, <2>4, <3>2
      <3> QED
        BY <2>1, <2>2, <2>4, <3>3
    <2> QED
      BY <1>3, <2>1, <2>2, <2>4, <2>5, <2>6
  <1> QED
    BY <1>2, <1>3

\* What is kept of a chunk is text, and no more counts as loaded than there is.
LEMMA CutTyped ==
  ASSUME NEW r, NEW t \in Seq(Characters)
  PROVE  CutText(r, t) \in Seq(Characters) /\ bytesConsumed(r, t) \in 0..Len(t)
  <1>1. Cut(r, t) \in 0..Len(t) /\ Len(t) \in Nat
    BY CutIs
  <1>2. Cut(r, t) > 0 => SubSeq(t, 1, Cut(r, t) - 1) \in Seq(Characters)
    BY <1>1
  <1> QED
    BY <1>1, <1>2 DEF CutText, bytesConsumed

\* The lines of a text.
EndsOf(t) == NewlinesOf(t) \cup {Len(t) + 1}

\* Where lines end are finitely many places.
LEMMA EndsAre ==
  ASSUME NEW t \in Seq(Characters)
  PROVE  /\ EndsOf(t) \in SUBSET Int /\ IsFiniteSet(EndsOf(t)) /\ EndsOf(t) # {}
         /\ EndsOf(t) \subseteq 1..(Len(t) + 1)
  <1>1. Len(t) \in Nat
    OBVIOUS
  <1>2. IsFiniteSet(EndsOf(t))
    BY NewlinesAre, FS_AddElement DEF EndsOf
  <1>3. EndsOf(t) \subseteq 1..(Len(t) + 1)
    BY <1>1, NewlinesAre DEF EndsOf
  <1>4. EndsOf(t) # {}
    BY DEF EndsOf
  <1> QED
    BY <1>1, <1>2, <1>3, <1>4

\* The line between one end and the next.
LineFrom(t, ends, k) == SubSeq(t, (IF k = 1 THEN 0 ELSE ends[k - 1]) + 1, ends[k] - 1)

\* There is a line for each end, and at least one.
LEMMA LinesAre ==
  ASSUME NEW t \in Seq(Characters)
  PROVE  /\ Len(LinesOf(t)) = Cardinality(EndsOf(t)) /\ Len(LinesOf(t)) \in Nat \ {0}
         /\ LinesOf(t) = [k \in 1..Cardinality(EndsOf(t)) |-> LineFrom(t, InOrder(EndsOf(t)), k)]
  <1> DEFINE n == Cardinality(EndsOf(t))
  <1>1. n \in Nat /\ n # 0 /\ InOrder(EndsOf(t)) \in [1..n -> EndsOf(t)]
    BY EndsAre, InOrderIs, FS_EmptySet
  <1>2. LinesOf(t) = [k \in DOMAIN InOrder(EndsOf(t)) |-> LineFrom(t, InOrder(EndsOf(t)), k)]
    BY DEF LinesOf, EndsOf, LineFrom
  <1> HIDE DEF n
  <1>3. LinesOf(t) = [k \in 1..n |-> LineFrom(t, InOrder(EndsOf(t)), k)]
    BY <1>1, <1>2
  <1>4. Len(LinesOf(t)) = n
    BY <1>1, <1>3
  <1> QED
    BY <1>1, <1>3, <1>4 DEF n

\* Sequences as long as each other with the same members.
LEMMA SeqsEqual ==
  ASSUME NEW S, NEW u \in Seq(S), NEW v \in Seq(S), Len(u) = Len(v),
         \A i \in 1..Len(u) : u[i] = v[i]
  PROVE  u = v
  OBVIOUS

\* A function on the first numbers is a sequence.
LEMMA SeqMade ==
  ASSUME NEW V, NEW n \in Nat, NEW x, x = [k \in 1..n |-> x[k]], \A k \in 1..n : x[k] \in V
  PROVE  x \in Seq(V) /\ Len(x) = n
  <1>1. x \in [1..n -> V]
    OBVIOUS
  <1> QED
    BY <1>1

\* The members of two sequences put together.
LEMMA ConcatIs ==
  ASSUME NEW S, NEW u \in Seq(S), NEW v \in Seq(S)
  PROVE  /\ u \o v \in Seq(S) /\ Len(u \o v) = Len(u) + Len(v)
         /\ \A i \in 1..(Len(u) + Len(v)) :
              (u \o v)[i] = IF i <= Len(u) THEN u[i] ELSE v[i - Len(u)]
  OBVIOUS

\* A part of the beginning of a sequence is that part of it.
LEMMA PartOfPart ==
  ASSUME NEW S, NEW t \in Seq(S), NEW d \in 0..Len(t), NEW a \in Nat, NEW b \in Int, b <= d
  PROVE  SubSeq(SubSeq(t, 1, d), a + 1, b) = SubSeq(t, a + 1, b)
  <1> DEFINE s == SubSeq(t, 1, d)
  <1>1. s \in Seq(S) /\ Len(s) = d /\ \A i \in 1..d : s[i] = t[i]
    OBVIOUS
  <1>2. d \in Nat /\ Len(t) \in Nat /\ d <= Len(t)
    OBVIOUS
  <1> HIDE DEF s
  <1>3. CASE b <= a
    <2>1. SubSeq(s, a + 1, b) = <<>> /\ SubSeq(t, a + 1, b) = <<>>
      BY <1>1, <1>3
    <2> QED
      BY <2>1 DEF s
  <1>4. CASE a < b
    <2> DEFINE n == b - a
               u == SubSeq(s, a + 1, b)
               v == SubSeq(t, a + 1, b)
    <2>1. n \in Nat /\ \A i \in 1..n : a + i \in 1..d
      BY <1>2, <1>4
    <2>2. u \in Seq(S) /\ Len(u) = n /\ \A i \in 1..n : u[i] = s[a + i]
      BY <1>1, <1>2, <1>4
    <2>3. v \in Seq(S) /\ Len(v) = n /\ \A i \in 1..n : v[i] = t[a + i]
      BY <1>2, <1>4
    <2> HIDE DEF u, v, n
    <2>4. \A i \in 1..n : u[i] = v[i]
      BY <1>1, <2>1, <2>2, <2>3
    <2>5. u = v
      BY <2>2, <2>3, <2>4, SeqsEqual
    <2> QED
      BY <2>5 DEF u, v, s
  <1> QED
    BY <1>3, <1>4

\* The lines before a newline are the first lines.
LEMMA LinesPrefix ==
  ASSUME NEW t \in Seq(Characters), NEW e \in 1..Len(t), t[e] = "n"
  PROVE  IsPrefix(LinesOf(SubSeq(t, 1, e - 1)), LinesOf(t))
  <1> DEFINE s == SubSeq(t, 1, e - 1)
             m == Cardinality(EndsOf(s))
             endS == InOrder(EndsOf(s))
             endT == InOrder(EndsOf(t))
  <1>1. Len(t) \in Nat /\ e \in Nat /\ e - 1 \in 0..Len(t)
    OBVIOUS
  <1>2. s \in Seq(Characters) /\ Len(s) = e - 1 /\ \A i \in 1..(e - 1) : s[i] = t[i]
    BY <1>1
  <1> HIDE DEF s
  <1>3. EndsOf(s) = {i \in EndsOf(t) : i <= e}
    <2>1. ASSUME NEW i \in EndsOf(s) PROVE i \in EndsOf(t) /\ i <= e
      <3>1. CASE i = e
        BY <1>1, <3>1, NewlinesAre DEF EndsOf
      <3>2. CASE i \in NewlinesOf(s)
        <4>1. i \in 1..(e - 1) /\ s[i] = "n"
          BY <1>2, <3>2, NewlinesAre
        <4>2. i \in 1..Len(t) /\ t[i] = "n"
          BY <1>1, <1>2, <4>1
        <4> QED
          BY <1>1, <4>1, <4>2, NewlinesAre DEF EndsOf
      <3> QED
        BY <1>1, <1>2, <2>1, <3>1, <3>2 DEF EndsOf
    <2>2. ASSUME NEW i \in EndsOf(t), i <= e PROVE i \in EndsOf(s)
      <3>1. i \in 1..Len(t) /\ t[i] = "n"
        BY <1>1, <2>2, NewlinesAre DEF EndsOf
      <3>2. CASE i = e
        BY <1>1, <1>2, <3>2 DEF EndsOf
      <3>3. CASE i # e
        <4>1. i \in 1..(e - 1)
          BY <1>1, <2>2, <3>1, <3>3
        <4>2. s[i] = "n" /\ i \in 1..Len(s)
          BY <1>2, <3>1, <4>1
        <4> QED
          BY <1>2, <4>2, NewlinesAre DEF EndsOf
      <3> QED
        BY <3>2, <3>3
    <2> QED
      BY <2>1, <2>2
  <1>4. e \in EndsOf(t)
    BY NewlinesAre DEF EndsOf
  <1>5. /\ EndsOf(t) \in SUBSET Int /\ IsFiniteSet(EndsOf(t))
        /\ EndsOf(s) \in SUBSET Int /\ IsFiniteSet(EndsOf(s)) /\ EndsOf(s) \subseteq 1..(Len(s) + 1)
    BY <1>2, EndsAre
  <1>6. m \in 1..Cardinality(EndsOf(t)) /\ \A k \in 1..m : endS[k] = endT[k]
    BY <1>3, <1>4, <1>5, FirstInOrder
  <1>7. m \in Nat /\ Cardinality(EndsOf(t)) \in Nat /\ endS \in [1..m -> EndsOf(s)]
    BY <1>5, InOrderIs
  <1>8. /\ LinesOf(s) = [k \in 1..m |-> LineFrom(s, endS, k)] /\ Len(LinesOf(s)) = m
        /\ LinesOf(t) = [k \in 1..Cardinality(EndsOf(t)) |-> LineFrom(t, endT, k)]
        /\ Len(LinesOf(t)) = Cardinality(EndsOf(t))
    BY <1>2, LinesAre
  <1> HIDE DEF m, endS, endT
  <1>9. ASSUME NEW k \in 1..m PROVE LineFrom(s, endS, k) = LineFrom(t, endT, k)
    <2> DEFINE a == IF k = 1 THEN 0 ELSE endS[k - 1]
               b == endS[k] - 1
    <2>1. endS[k] \in 1..e
      BY <1>2, <1>5, <1>7
    <2>2. k # 1 => k - 1 \in 1..m
      BY <1>7
    <2>3. a \in Nat
      BY <1>1, <1>2, <1>5, <1>7, <2>2
    <2>4. b \in Int /\ b <= e - 1
      BY <1>1, <2>1
    <2>5. LineFrom(s, endS, k) = SubSeq(s, a + 1, b)
      BY DEF LineFrom
    <2>6. LineFrom(t, endT, k) = SubSeq(t, a + 1, b)
      BY <1>6, <2>2 DEF LineFrom
    <2> HIDE DEF a, b
    <2>7. SubSeq(s, a + 1, b) = SubSeq(t, a + 1, b)
      BY <1>1, <2>3, <2>4, PartOfPart DEF s
    <2> QED
      BY <2>5, <2>6, <2>7
  <1> DEFINE x == LinesOf(s)
             y == LinesOf(t)
             n == Cardinality(EndsOf(t))
             V == {LineFrom(t, endT, k) : k \in 1..n}
  <1>10. m <= n /\ n \in Nat
    BY <1>6, <1>7
  <1>11. \A k \in 1..n : y[k] = LineFrom(t, endT, k)
    BY <1>8
  <1>12. \A k \in 1..m : x[k] = y[k] /\ x[k] \in V /\ k \in 1..n
    BY <1>7, <1>8, <1>9, <1>10, <1>11
  <1>13. x = [k \in 1..m |-> x[k]] /\ y = [k \in 1..n |-> y[k]] /\ \A k \in 1..n : y[k] \in V
    BY <1>8, <1>11
  <1> HIDE DEF x, y, n, V
  <1>14. x \in Seq(V) /\ y \in Seq(V) /\ Len(x) = m /\ Len(y) = n
    BY <1>7, <1>10, <1>12, <1>13, SeqMade
  <1>15. SubSeq(x, 1, m) = SubSeq(y, 1, m)
    <2> DEFINE u == SubSeq(x, 1, m)
               v == SubSeq(y, 1, m)
    <2>1. u \in Seq(V) /\ Len(u) = m /\ \A k \in 1..m : u[k] = x[k]
      BY <1>7, <1>14
    <2>2. v \in Seq(V) /\ Len(v) = m /\ \A k \in 1..m : v[k] = y[k]
      BY <1>7, <1>10, <1>14
    <2> HIDE DEF u, v
    <2>3. u = v
      BY <1>12, <2>1, <2>2, SeqsEqual
    <2> QED
      BY <2>3 DEF u, v
  <1>16. IsPrefix(x, y)
    BY <1>10, <1>14, <1>15 DEF IsPrefix
  <1> QED
    BY <1>16 DEF x, y, s

\* The data are the n bytes behind the first a of a plain file, for a range r.
PartIs(r, p, a, n, data) ==
    /\ PlainFile(p) /\ FvChunk \in Nat \ {0}
    /\ a \in Nat /\ n \in Nat \ {0} /\ a + n <= Len(FvFiles[p])
    /\ r.atEnd \in BOOLEAN /\ (~r.atEnd => n = FvChunk)
    /\ data = SubSeq(FvFiles[p], a + 1, a + n)

\* What is kept of them: what comes before their last newline, or all at the end.
KeptOf(r, p, a, n, data) ==
    LET used == bytesConsumed(r, data)
        kept == CutText(r, data)
    IN /\ used \in 1..n
       /\ r.atEnd => used = n /\ kept = data
       /\ ~r.atEnd => /\ FvFiles[p][a + used] = "n"
                      /\ kept = SubSeq(FvFiles[p], a + 1, a + used - 1)

\* A chunk that is not cut at the end of the file has a newline to be cut at.
LEMMA ChunkIs ==
  ASSUME NEW r, NEW p, NEW a, NEW n, NEW data, PartIs(r, p, a, n, data)
  PROVE  KeptOf(r, p, a, n, data)
  <1> DEFINE f == FvFiles[p]
             S == {"x", "n"}
             c == Cut(r, data)
  <1>1. /\ f \in Seq(S)
        /\ \A i \in 0..(Len(f) - FvChunk) : \E j \in (i + 1)..(i + FvChunk) : f[j] = "n"
    BY DEF PartIs, PlainFile
  <1>0. /\ FvChunk \in Nat \ {0} /\ a \in Nat /\ n \in Nat \ {0} /\ a + n <= Len(f)
        /\ r.atEnd \in BOOLEAN /\ (~r.atEnd => n = FvChunk) /\ data = SubSeq(f, a + 1, a + n)
    BY DEF PartIs
  <1> HIDE DEF f
  <1>2. data \in Seq(S) /\ Len(data) = n /\ \A i \in 1..n : data[i] = f[a + i]
    BY <1>0, <1>1
  <1>3. data \in Seq(Characters)
    BY <1>2 DEF Characters
  <1>4. /\ c \in 0..n
        /\ r.atEnd => c = 0
        /\ c # 0 => data[c] = "n"
        /\ ~r.atEnd /\ NewlinesOf(data) # {} => c # 0
    BY <1>2, <1>3, CutIs
  <1>5. CASE r.atEnd
    <2>1. c = 0
      BY <1>4, <1>5
    <2>2. bytesConsumed(r, data) = n /\ CutText(r, data) = data
      BY <1>2, <2>1 DEF bytesConsumed, CutText
    <2>3. n \in 1..n
      BY <1>0
    <2> QED
      BY <1>5, <2>2, <2>3, Zenon DEF KeptOf
  <1>6. CASE ~r.atEnd
    <2>1. n = FvChunk /\ Len(f) \in Nat
      BY <1>0, <1>1, <1>6
    <2>2. a \in 0..(Len(f) - FvChunk)
      BY <1>0, <2>1
    <2>3. PICK j \in (a + 1)..(a + FvChunk) : f[j] = "n"
      BY <1>1, <2>2
    <2>4. j - a \in 1..n /\ a + (j - a) = j
      BY <1>0, <2>1
    <2>5. data[j - a] = "n"
      BY <1>2, <2>3, <2>4
    <2>6. NewlinesOf(data) # {}
      BY <1>2, <1>3, <2>4, <2>5, NewlinesAre
    <2>7. c \in 1..n /\ data[c] = "n"
      BY <1>4, <1>6, <2>6
    <2> HIDE DEF c
    <2>8. bytesConsumed(r, data) = c /\ CutText(r, data) = SubSeq(data, 1, c - 1)
      BY <2>7 DEF bytesConsumed, CutText, c
    <2>9. f[a + c] = "n"
      BY <1>0, <1>2, <2>7
    <2>10. SubSeq(data, 1, c - 1) = SubSeq(f, a + 1, a + c - 1)
      <3> DEFINE u == SubSeq(data, 1, c - 1)
                 v == SubSeq(f, a + 1, a + c - 1)
      <3>1. u \in Seq(S) /\ Len(u) = c - 1 /\ \A i \in 1..(c - 1) : u[i] = data[i]
        BY <1>0, <1>2, <2>7
      <3>2. a + c - 1 <= Len(f)
        BY <1>0, <2>1, <2>7
      <3>3. v \in Seq(S) /\ Len(v) = c - 1 /\ \A i \in 1..(c - 1) : v[i] = f[a + i]
        BY <1>0, <1>1, <2>1, <2>7, <3>2
      <3>4. \A i \in 1..(c - 1) : i \in 1..n
        BY <1>0, <2>7
      <3> HIDE DEF u, v
      <3>5. u = v
        <4>1. Len(u) = Len(v) /\ Len(u) = c - 1 /\ \A i \in 1..(c - 1) : u[i] = v[i]
          BY <1>2, <3>1, <3>3, <3>4
        <4> QED
          BY <3>1, <3>3, <4>1, SeqsEqual
      <3> QED
        BY <3>5 DEF u, v
    <2> QED
      BY <1>6, <2>7, <2>8, <2>9, <2>10, Zenon DEF f, KeptOf
  <1> QED
    BY <1>5, <1>6

\* The text before a newline, the newline and what follows.
LEMMA Glued ==
  ASSUME NEW S, NEW f \in Seq(S), NEW l \in 1..Len(f), NEW b \in l..Len(f)
  PROVE  SubSeq(f, 1, l - 1) \o (<<f[l]>> \o SubSeq(f, l + 1, b)) = SubSeq(f, 1, b)
  <1> DEFINE u == SubSeq(f, 1, l - 1)
             v == SubSeq(f, l + 1, b)
             w == <<f[l]>> \o v
             x == u \o w
             y == SubSeq(f, 1, b)
  <1>1. Len(f) \in Nat /\ l \in Nat /\ b \in Nat /\ l >= 1 /\ l <= b /\ b <= Len(f) /\ f[l] \in S
    OBVIOUS
  <1>2. u \in Seq(S) /\ Len(u) = l - 1 /\ \A i \in 1..(l - 1) : u[i] = f[i]
    BY <1>1
  <1>3. v \in Seq(S) /\ Len(v) = b - l /\ \A i \in 1..(b - l) : v[i] = f[l + i]
    BY <1>1
  <1> HIDE DEF u, v
  <1>4. /\ w \in Seq(S) /\ Len(w) = b - l + 1 /\ w[1] = f[l]
        /\ \A i \in 2..(b - l + 1) : w[i] = v[i - 1]
    BY <1>1, <1>3
  <1> HIDE DEF w
  <1>5. /\ x \in Seq(S) /\ Len(x) = b
        /\ \A i \in 1..b : x[i] = IF i <= l - 1 THEN u[i] ELSE w[i - (l - 1)]
    <2>1. Len(u) = l - 1 /\ Len(u) + Len(w) = b
      BY <1>1, <1>2, <1>4
    <2>2. /\ u \o w \in Seq(S) /\ Len(u \o w) = Len(u) + Len(w)
          /\ \A i \in 1..(Len(u) + Len(w)) :
               (u \o w)[i] = IF i <= Len(u) THEN u[i] ELSE w[i - Len(u)]
      BY <1>2, <1>4, ConcatIs
    <2> QED
      BY <2>1, <2>2
  <1>6. y \in Seq(S) /\ Len(y) = b /\ \A i \in 1..b : y[i] = f[i]
    BY <1>1
  <1> HIDE DEF x, y
  <1>7. ASSUME NEW i \in 1..b PROVE x[i] = y[i]
    <2>1. CASE i <= l - 1
      <3>1. i \in 1..(l - 1)
        BY <1>1, <2>1
      <3> QED
        BY <1>2, <1>5, <1>6, <2>1, <3>1
    <2>2. CASE i = l
      <3>1. i - (l - 1) = 1 /\ ~(i <= l - 1)
        BY <1>1, <2>2
      <3> QED
        BY <1>4, <1>5, <1>6, <2>2, <3>1
    <2>3. CASE i > l
      <3>1. i - (l - 1) \in 2..(b - l + 1) /\ i - (l - 1) - 1 = i - l /\ i - l \in 1..(b - l)
            /\ l + (i - l) = i /\ ~(i <= l - 1)
        BY <1>1, <2>3
      <3> QED
        BY <1>3, <1>4, <1>5, <1>6, <3>1
    <2> QED
      BY <1>1, <2>1, <2>2, <2>3
  <1>8. x = y
    BY <1>5, <1>6, <1>7, SeqsEqual
  <1> QED
    BY <1>8 DEF x, y, u, v, w

\* The selected lines are finitely many numbers, and so are the ranges of the URL.
Lines(S) == S \subseteq Nat /\ IsFiniteSet(S)

\* A range of lines.
LEMMA IntervalIsFinite ==
  ASSUME NEW a \in Nat, NEW b \in Nat
  PROVE  Lines(a..b)
  <1>1. a \in Int /\ b \in Int
    OBVIOUS
  <1>2. IsFiniteSet(a..b)
    BY <1>1, FS_Interval, Zenon
  <1> QED
    BY <1>2 DEF Lines

\* The lines a URL names (parseLineSelection in FileViewerPage.tsx).
LEMMA ParsedLines ==
  ASSUME NEW ranges \in Seq(Nat \X Nat)
  PROVE  Lines(parseLineSelection(ranges))
  <1> DEFINE R == ToSet(ranges)
             made == [r \in R |-> r[1]..r[2]]
             U == {r[1]..r[2] : r \in R}
  <1>1. IsFiniteSet(R) /\ R \subseteq Nat \X Nat
    BY SeqHasFew, SeqMembers
  <1> HIDE DEF R
  <1>2. made \in Surjection(R, U)
    BY DEF Surjection
  <1>3. \A T \in U : Lines(T)
    <2> SUFFICES ASSUME NEW r \in R PROVE Lines(r[1]..r[2])
      OBVIOUS
    <2>1. r[1] \in Nat /\ r[2] \in Nat
      BY <1>1
    <2> QED
      BY <2>1, IntervalIsFinite
  <1>4. parseLineSelection(ranges) = UNION U
    BY DEF parseLineSelection, R
  <1> HIDE DEF U, made
  <1>5. IsFiniteSet(U)
    BY <1>1, <1>2, FS_Surjection
  <1>6. IsFiniteSet(UNION U)
    BY <1>3, <1>5, FS_UNION DEF Lines
  <1>7. UNION U \subseteq Nat
    BY <1>3 DEF Lines
  <1> QED
    BY <1>4, <1>6, <1>7 DEF Lines

\* The last of them, or 0.
LEMMA TargetIs ==
  ASSUME NEW w, w.lines \in Seq(Nat \X Nat)
  PROVE  targetLine(w) \in Nat
  <1> DEFINE S == parseLineSelection(w.lines) \cup {0}
  <1>1. Lines(parseLineSelection(w.lines))
    BY ParsedLines
  <1>2. IsFiniteSet(S) /\ S \subseteq Nat /\ S # {}
    BY <1>1, FS_AddElement DEF Lines
  <1>3. targetLine(w) = Max(S)
    BY DEF targetLine
  <1> HIDE DEF S
  <1>4. S \in SUBSET Int
    BY <1>2
  <1>5. Max(S) \in S
    BY <1>2, <1>4, MaxOfFinite
  <1> QED
    BY <1>2, <1>3, <1>5

\* The ranges a selection is written as (serializeLineSelection).
LEMMA SelectionIs ==
  ASSUME NEW S, Lines(S)
  PROVE  serializeLineSelection(S) \in Seq(Nat \X Nat)
  <1> DEFINE A == {i \in S : i - 1 \notin S}
             n == Cardinality(A)
             T(a) == {i \in S : i >= a /\ i + 1 \notin S}
             x == serializeLineSelection(S)
  <1>1. IsFiniteSet(S) /\ S \subseteq Nat /\ S \subseteq Int
    BY DEF Lines
  <1>2. A \in SUBSET S /\ A \in SUBSET Int
    BY <1>1
  <1>3. IsFiniteSet(A)
    BY <1>1, <1>2, FS_Subset
  <1>4. x = [k \in DOMAIN InOrder(A) |-> <<InOrder(A)[k], Min(T(InOrder(A)[k]))>>]
    BY DEF serializeLineSelection
  <1>5. ASSUME NEW a \in S PROVE Min(T(a)) \in Nat
    <2> DEFINE U == {i \in S : i >= a}
    <2>0. a \in Nat /\ a >= a
      BY <1>1
    <2>1. U \in SUBSET S /\ U \in SUBSET Int /\ a \in U
      <3>1. U \subseteq S
        OBVIOUS
      <3>2. a \in U
        BY <2>0
      <3> QED
        BY <1>1, <3>1, <3>2
    <2>2. IsFiniteSet(U)
      BY <1>1, <2>1, FS_Subset
    <2> HIDE DEF U
    <2>3. Max(U) \in U /\ \A y \in U : y <= Max(U)
      BY <2>1, <2>2, MaxOfFinite
    <2>4. Max(U) \in T(a)
      <3>1. Max(U) \in S /\ Max(U) >= a /\ Max(U) \in Nat /\ a \in Nat
        BY <1>1, <2>3 DEF U
      <3>2. Max(U) + 1 \notin S
        <4>1. SUFFICES ASSUME Max(U) + 1 \in S PROVE FALSE
          OBVIOUS
        <4>2. Max(U) + 1 \in U
          BY <3>1, <4>1 DEF U
        <4> QED
          BY <2>3, <3>1, <4>2
      <3> QED
        BY <3>1, <3>2
    <2>5. T(a) \in SUBSET Nat /\ T(a) # {}
      BY <1>1, <2>4
    <2> HIDE DEF T
    <2>6. \E m \in T(a) : \A y \in T(a) : m <= y
      BY <2>5, SmallestNat
    <2>7. Min(T(a)) \in T(a)
      BY <2>6 DEF Min
    <2> QED
      BY <2>5, <2>7
  <1> HIDE DEF A, T, n, x
  <1>6. n \in Nat /\ InOrder(A) \in [1..n -> A]
    BY <1>2, <1>3, InOrderIs DEF n
  <1>7. ASSUME NEW k \in 1..n PROVE <<InOrder(A)[k], Min(T(InOrder(A)[k]))>> \in Nat \X Nat
    <2>1. InOrder(A)[k] \in S /\ InOrder(A)[k] \in Nat
      BY <1>1, <1>2, <1>6
    <2> QED
      BY <1>5, <2>1
  <1>8. x \in [1..n -> Nat \X Nat]
    BY <1>4, <1>6, <1>7
  <1> QED
    BY <1>6, <1>8 DEF x

\* A click selects finitely many lines again.
LEMMA ClickedLines ==
  ASSUME NEW S, Lines(S), NEW l \in Nat, NEW key, None \notin Nat,
         fvState.last \in Nat \cup {None}
  PROVE  Lines(Clicked(S, l, key))
  <1>1. IsFiniteSet(S) /\ S \subseteq Nat
    BY DEF Lines
  <1>2. Lines({l})
    BY FS_Singleton DEF Lines
  <1>3. ASSUME fvState.last # None
        PROVE  Lines(S \cup (Min({fvState.last, l})..Max({fvState.last, l})))
    <2> DEFINE a == Min({fvState.last, l})
               b == Max({fvState.last, l})
    <2>1. fvState.last \in Nat
      BY <1>3
    <2>2. a \in Nat /\ b \in Nat
      <3>1. fvState.last \in Int /\ l \in Int
        BY <2>1
      <3>2. a = (IF fvState.last <= l THEN fvState.last ELSE l)
        BY <3>1, MinOfTwo
      <3>3. b = (IF fvState.last >= l THEN fvState.last ELSE l)
        BY <3>1, MaxOfTwo
      <3> QED
        BY <2>1, <3>2, <3>3
    <2> HIDE DEF a, b
    <2>3. Lines(a..b)
      BY <2>2, IntervalIsFinite
    <2>4. Lines(S \cup (a..b))
      BY <1>1, <2>3, FS_Union DEF Lines
    <2> QED
      BY <2>4 DEF a, b
  <1>4. Lines(S \ {l}) /\ Lines(S \cup {l})
    <2>1. IsFiniteSet(S \ {l})
      BY <1>1, FS_RemoveElement
    <2>2. IsFiniteSet(S \cup {l})
      BY <1>1, FS_AddElement
    <2> QED
      BY <1>1, <2>1, <2>2 DEF Lines
  <1>5. CASE key = "shift" /\ fvState.last # None
    BY <1>3, <1>5 DEF Clicked
  <1>6. CASE ~(key = "shift" /\ fvState.last # None) /\ key = "ctrl"
    BY <1>4, <1>6 DEF Clicked
  <1>7. CASE ~(key = "shift" /\ fvState.last # None) /\ key # "ctrl"
    BY <1>2, <1>7 DEF Clicked
  <1> QED
    BY <1>5, <1>6, <1>7

\* A size, once HEAD has told it.
HeadIs(head) == head \in Nat \cup {None}

\* A range is of a file whose size is known and ends no later; one that does not
\* reach the end is as long as a chunk.
RangeIs(r, heads) ==
    /\ r.path \in FvPaths /\ r.from \in Nat /\ r.size \in 1..FvChunk
    /\ r.first \in BOOLEAN /\ r.atEnd \in BOOLEAN
    /\ heads[r.path] \in Nat /\ r.from + r.size <= heads[r.path]
    /\ ~r.atEnd => r.size = FvChunk /\ r.from + r.size < heads[r.path]
    /\ r.first => r.from = 0 /\ ~r.atEnd

\* What the chunks of a file say when loaded bytes of the first head have been loaded.
TextIs(chunks, loaded, path, head) ==
    LET bytes == FvFiles[path]
    IN /\ head \in Nat /\ loaded \in 1..head
       /\ loaded < head => bytes[loaded] = "n" /\ Joined(chunks) = SubSeq(bytes, 1, loaded - 1)
       /\ loaded = head => Joined(chunks) = SubSeq(bytes, 1, head)

\* The parts of the invariant: sizes, the URL, what HEAD told, the state, what the
\* last render saw, the ranges under way, the text, and what waits for an answer.
FvDiskInv == DOMAIN fvDisk = FvPaths /\ \A p \in FvPaths : fvDisk[p] \in 0..Len(FvFiles[p])
FvUrlInv == fvUrl.base \in BOOLEAN /\ fvUrl.lines \in Seq(Nat \X Nat)
FvHeadInv ==
    /\ DOMAIN fvHead = FvPaths
    /\ \A p \in FvPaths : HeadIs(fvHead[p]) /\ (fvHead[p] # None => fvHead[p] <= fvDisk[p])
FvStateInv ==
    /\ fvState \in [chunks : Seq(Seq(Characters)), loaded : Nat, loading : BOOLEAN,
                    last : Nat \cup {None}, lost : BOOLEAN]
    /\ fvState.chunks = <<>> => fvState.loaded = 0
\* What the last render saw: an earlier size, and the file of the URL unless a click
\* has led from the suite's file to the run's.
FvViewInv ==
    /\ fvView.path \in {"run", "suite"} /\ (fvUrl.base => fvView.path = "suite")
    /\ fvView.path = "suite" => fvHead["run"] = None
    /\ fvView.chunks \in Seq(Seq(Characters)) /\ fvView.loaded \in Nat
    /\ fvView.loading \in BOOLEAN /\ fvView.lines \in Seq(Nat \X Nat)
    /\ HeadIs(fvView.head)
    /\ fvView.head # None => fvHead[fvView.path] \in Nat /\ fvView.head <= fvHead[fvView.path]
FvRangesInv == \A r \in fvRanges : RangeIs(r, fvHead)
FvTextInv ==
    (fvState.chunks # <<>> /\ ~fvMixed /\ fvRanged /\ PlainFile(fvView.path))
      => TextIs(fvState.chunks, fvState.loaded, fvView.path, fvHead[fvView.path])
\* The text does not reach the selected line, or there is none.
Short(w) == hasMoreChunks(w) /\ Len(shownLines(w)) < Max({1, targetLine(w)})
FvLoadInv ==
    /\ fvState.loading => fvRanges # {} \/ fvState.lost
    /\ Short(fvView) => fvView.loading \/ fvState.loading

\* The invariant of the viewer.
FvInv == /\ FvDiskInv /\ FvUrlInv /\ FvHeadInv /\ FvStateInv /\ FvViewInv
         /\ FvRangesInv /\ FvTextInv /\ FvLoadInv

\* What a render now would see.
LEMMA FvNowIs ==
  /\ FvNow.path = filePath /\ FvNow.lines = fvUrl.lines /\ FvNow.head = fvHead[filePath]
  /\ FvNow.chunks = fvState.chunks /\ FvNow.loaded = fvState.loaded
  /\ FvNow.loading = fvState.loading
  BY DEF FvNow

\* The file is the run's or the suite's, as the URL says.
LEMMA PathsAre ==
  /\ filePath \in FvPaths /\ filePath \in {"run", "suite"}
  /\ filePath = "suite" <=> fvUrl.base
  BY FvAssumption DEF filePath

\* A text that is short is waited for, or more of it is asked for.
LEMMA ShortAsks ==
  ASSUME NEW w, w.chunks \in Seq(Seq(Characters)), w.lines \in Seq(Nat \X Nat),
         Short(w), ~w.loading
  PROVE  EffectRanges(w) # {}
  <1>1. targetLine(w) \in Nat
    BY TargetIs
  <1>2. hasMoreChunks(w) /\ isLargeFile(w) /\ CanLoadNext(w)
    BY DEF Short, hasMoreChunks, CanLoadNext
  <1>3. CASE w.chunks = <<>>
    <2>1. WantsFirst(w)
      BY <1>2, <1>3 DEF WantsFirst
    <2> QED
      BY <2>1 DEF EffectRanges
  <1>4. CASE w.chunks # <<>>
    <2>1. shownLines(w) = LinesOf(Joined(w.chunks))
      BY <1>2, <1>4 DEF shownLines, HasContent, fileContent
    <2>2. Joined(w.chunks) \in Seq(Characters)
      <3>1. <<>> \in Seq(Characters)
        OBVIOUS
      <3> QED
        BY <3>1, JoinedIs
    <2>3. Len(shownLines(w)) \in Nat \ {0}
      BY <2>1, <2>2, LinesAre
    <2>4. Len(shownLines(w)) < IF 1 >= targetLine(w) THEN 1 ELSE targetLine(w)
      <3>1. 1 \in Int /\ targetLine(w) \in Int
        BY <1>1
      <3> QED
        BY <3>1, MaxOfTwo DEF Short
    <2>5. Len(shownLines(w)) < targetLine(w)
      BY <1>1, <2>3, <2>4
    <2>6. WantsTarget(w)
      BY <1>2, <2>5 DEF WantsTarget
    <2> QED
      BY <2>6 DEF EffectRanges
  <1> QED
    BY <1>3, <1>4

\* The ranges a render or the sentinel asks for.
LEMMA RangeMade ==
  ASSUME NEW r, NEW heads, r.path \in FvPaths, r.from \in Nat, r.size \in 1..FvChunk,
         heads[r.path] \in Nat, r.from + r.size <= heads[r.path],
         r.first = TRUE \/ r.first = FALSE, r.atEnd = TRUE \/ r.atEnd = FALSE,
         r.atEnd = FALSE => r.size = FvChunk /\ r.from + r.size < heads[r.path],
         r.first = TRUE => r.from = 0 /\ r.atEnd = FALSE
  PROVE  RangeIs(r, heads)
  BY DEF RangeIs

\* The next range, of whichever render.
LEMMA NextRangeIs ==
  ASSUME NEW w, NEW by, NEW heads, CanLoadNext(w), w.path \in FvPaths, w.loaded \in Nat,
         w.head \in Nat, heads[w.path] \in Nat, w.head <= heads[w.path]
  PROVE  RangeIs(RangeOf(w, FALSE, by), heads)
  <1> DEFINE r == RangeOf(w, FALSE, by)
             m == Min({FvChunk, w.head - w.loaded})
             near == w.loaded + FvChunk >= w.head
  <1>1. w.loaded < w.head /\ FvChunk \in Nat /\ FvChunk >= 1
    BY FvAssumption DEF CanLoadNext, hasMoreChunks
  <1>2. m = IF FvChunk <= w.head - w.loaded THEN FvChunk ELSE w.head - w.loaded
    BY <1>1, MinOfTwo
  <1>3. r.path = w.path /\ r.from = w.loaded /\ r.size = m /\ r.first = FALSE
    BY DEF RangeOf
  <1>4. (near => r.atEnd = TRUE) /\ (~near => r.atEnd = FALSE)
    <2>1. r.atEnd = (~FALSE /\ near)
      BY DEF RangeOf
    <2> HIDE DEF r, near
    <2>2. near \in BOOLEAN => (near = TRUE \/ near = FALSE)
      OBVIOUS
    <2>3. near \in BOOLEAN
      BY DEF near
    <2> QED
      BY <2>1, <2>2, <2>3, Zenon
  <1> HIDE DEF r, m
  <1>5. m \in 1..FvChunk /\ m \in Nat /\ w.loaded + m <= w.head
    BY <1>1, <1>2
  <1>6. ~near => m = FvChunk /\ w.loaded + m < w.head
    BY <1>1, <1>2
  <1>7. /\ r.path \in FvPaths /\ r.from \in Nat /\ r.size \in 1..FvChunk
        /\ heads[r.path] \in Nat /\ r.from + r.size <= heads[r.path]
    BY <1>1, <1>3, <1>5
  <1>8. ~near => r.size = FvChunk /\ r.from + r.size < heads[r.path]
    BY <1>1, <1>3, <1>5, <1>6
  <1> HIDE DEF near
  <1>9. r.first = FALSE /\ (r.atEnd = TRUE \/ r.atEnd = FALSE)
    BY <1>3, <1>4
  <1>10. RangeIs(r, heads)
    <2>1. (r.first = TRUE \/ r.first = FALSE) /\ ~(r.first = TRUE)
      BY <1>9
    <2>2. r.atEnd = FALSE => ~near
      BY <1>4
    <2> QED
      BY <1>7, <1>8, <1>9, <2>1, <2>2, RangeMade
  <1> QED
    BY <1>10 DEF r

\* The first range.
LEMMA FirstRangeIs ==
  ASSUME NEW w, NEW heads, isLargeFile(w), w.path \in FvPaths,
         w.head \in Nat, heads[w.path] \in Nat, w.head <= heads[w.path]
  PROVE  RangeIs([RangeOf(w, TRUE, "effect") EXCEPT !.from = 0, !.size = Min({FvChunk, w.head})],
                 heads)
  <1> DEFINE r == [RangeOf(w, TRUE, "effect") EXCEPT !.from = 0, !.size = Min({FvChunk, w.head})]
             m == Min({FvChunk, w.head})
  <1>1. FvChunk \in Nat /\ FvChunk >= 1 /\ FvFull \in Nat /\ FvChunk <= FvFull /\ FvFull < w.head
    BY FvAssumption DEF isLargeFile
  <1>2. m = FvChunk
    BY <1>1, MinOfTwo
  <1>3. /\ r.path = w.path /\ r.from = 0 /\ r.size = m /\ r.first = TRUE /\ r.atEnd = FALSE
    BY DEF RangeOf
  <1> HIDE DEF r, m
  <1>4. r.from + r.size = FvChunk /\ FvChunk < heads[r.path] /\ r.size \in 1..FvChunk
    BY <1>1, <1>2, <1>3
  <1>5. r.from + r.size <= heads[r.path] /\ r.from + r.size < heads[r.path]
    BY <1>1, <1>3, <1>4
  <1>6. /\ r.path \in FvPaths /\ r.from \in Nat /\ r.from = 0 /\ r.size = FvChunk
        /\ heads[r.path] \in Nat /\ r.first = TRUE /\ r.atEnd = FALSE
    BY <1>2, <1>3
  <1>7. RangeIs(r, heads)
    BY <1>4, <1>5, <1>6, RangeMade
  <1> QED
    BY <1>7 DEF r

\* Both are ranges of the file the render shows.
LEMMA EffectsAre ==
  ASSUME NEW w, NEW heads, w.path \in FvPaths, w.loaded \in Nat, HeadIs(w.head),
         w.head # None => heads[w.path] \in Nat /\ w.head <= heads[w.path],
         NEW r \in EffectRanges(w)
  PROVE  RangeIs(r, heads)
  <1>1. CASE WantsFirst(w) /\ r = [RangeOf(w, TRUE, "effect") EXCEPT !.from = 0,
                                     !.size = Min({FvChunk, w.head})]
    <2>1. isLargeFile(w) /\ w.head # None
      BY <1>1 DEF WantsFirst, isLargeFile
    <2>2. w.head \in Nat
      BY <2>1 DEF HeadIs
    <2> QED
      BY <1>1, <2>1, <2>2, FirstRangeIs
  <1>2. CASE WantsTarget(w) /\ r = RangeOf(w, FALSE, "effect")
    <2>1. CanLoadNext(w) /\ w.head # None
      BY <1>2 DEF WantsTarget, CanLoadNext, hasMoreChunks, isLargeFile
    <2>2. w.head \in Nat
      BY <2>1 DEF HeadIs
    <2> QED
      BY <1>2, <2>1, <2>2, NextRangeIs
  <1> QED
    BY <1>1, <1>2 DEF EffectRanges

\* What an answer adds.
LEMMA AnswerTyped ==
  ASSUME FvDiskInv, FvHeadInv, NEW r, RangeIs(r, fvHead)
  PROVE  fetchPartialText(r) \in Seq(Characters)
  <1> DEFINE bytes == SubSeq(FvFiles[r.path], 1, fvDisk[r.path])
             said == Decoded(bytes)
  <1>1. FvFiles[r.path] \in Seq(Bytes) /\ fvDisk[r.path] \in 0..Len(FvFiles[r.path])
    BY FvAssumption DEF FvDiskInv, RangeIs
  <1>2. bytes \in Seq(Bytes)
    BY <1>1
  <1> HIDE DEF bytes
  <1>3. r.from \in Nat /\ r.size \in Nat
    BY FvAssumption DEF RangeIs
  <1>4. CASE fvRanged
    <2>1. SubSeq(bytes, r.from + 1, r.from + r.size) \in Seq(Bytes)
      <3> DEFINE a == r.from + 1
                 b == r.from + r.size
      <3>1. bytes \in Seq(Bytes) /\ a \in Nat \ {0} /\ b \in Nat
        BY <1>2, <1>3
      <3>2. b <= Len(bytes)
        <4>1. fvHead[r.path] \in Nat /\ b <= fvHead[r.path] /\ r.path \in FvPaths
          BY DEF RangeIs
        <4>2. fvHead[r.path] <= fvDisk[r.path]
          <5>1. fvHead[r.path] # None
            BY <4>1, FvAssumption
          <5> QED
            BY <4>1, <5>1 DEF FvHeadInv
        <4>3. Len(bytes) = fvDisk[r.path]
          BY <1>1 DEF bytes
        <4>4. fvDisk[r.path] \in Nat
          BY <1>1
        <4> HIDE DEF b
        <4> QED
          BY <3>1, <4>1, <4>2, <4>3, <4>4
      <3> QED
        BY <3>1, <3>2
    <2> QED
      BY <1>4, <2>1, DecodedTyped DEF fetchPartialText, bytes
  <1>5. CASE ~fvRanged
    <2>1. said \in Seq(Characters) /\ Len(said) \in Nat
      BY <1>2, DecodedTyped
    <2> HIDE DEF said
    <2>2. Min({r.size, Len(said)}) \in 0..Len(said)
      BY <1>3, <2>1, MinOfTwo
    <2>3. SubSeq(said, 1, Min({r.size, Len(said)})) \in Seq(Characters)
      BY <2>1, <2>2, FirstOfSeq
    <2> QED
      BY <1>5, <2>3 DEF fetchPartialText, said, bytes
  <1> QED
    BY <1>4, <1>5

\* The page is opened.
LEMMA FvInitInv == FvInit => FvInv
  <1> SUFFICES ASSUME FvInit PROVE FvInv
    OBVIOUS
  <1>1. FvDiskInv
    BY FvAssumption DEF FvInit, FvDiskInv
  <1>2. fvUrl.base \in BOOLEAN /\ fvUrl.lines \in Seq(Nat \X Nat)
    <2>1. PICK base \in BOOLEAN, S \in FvLinks :
            fvUrl = [base |-> base, lines |-> serializeLineSelection(S)]
      BY DEF FvInit
    <2>2. serializeLineSelection(S) \in Seq(Nat \X Nat)
      BY FvAssumption, SelectionIs DEF Lines
    <2> QED
      BY <2>1, <2>2
  <1>3. FvUrlInv
    BY <1>2 DEF FvUrlInv
  <1>4. fvHead = [p \in FvPaths |-> None]
    BY DEF FvInit
  <1>5. FvHeadInv
    BY <1>4 DEF FvHeadInv, HeadIs
  <1>6. /\ fvState.chunks = <<>> /\ fvState.loaded = 0 /\ fvState.loading = FALSE
        /\ fvState.last = None
        /\ fvState \in [chunks : Seq(Seq(Characters)), loaded : Nat, loading : BOOLEAN,
                        last : Nat \cup {None}, lost : BOOLEAN]
    <2>1. <<>> \in Seq(Seq(Characters))
      OBVIOUS
    <2> QED
      BY <2>1 DEF FvInit
  <1>7. FvStateInv
    BY <1>6 DEF FvStateInv
  <1>8. fvView = FvNow /\ fvRanges = {}
    BY DEF FvInit
  <1>9. /\ fvView.path = filePath /\ fvView.lines = fvUrl.lines /\ fvView.head = None
        /\ fvView.chunks = <<>> /\ fvView.loaded = 0 /\ fvView.loading = FALSE
    BY <1>4, <1>6, <1>8, FvNowIs, PathsAre
  <1>10. FvViewInv
    <2>1. <<>> \in Seq(Seq(Characters))
      OBVIOUS
    <2>2. fvHead["run"] = None
      BY <1>4, FvAssumption
    <2>3. fvView.path \in {"run", "suite"} /\ (fvUrl.base => fvView.path = "suite")
      BY <1>9, PathsAre
    <2>4. /\ fvView.chunks \in Seq(Seq(Characters)) /\ fvView.loaded \in Nat
          /\ fvView.loading \in BOOLEAN /\ fvView.lines \in Seq(Nat \X Nat)
      <3>1. fvView.chunks \in Seq(Seq(Characters))
        BY <1>9, <2>1
      <3>2. fvView.loaded \in Nat
        BY <1>9
      <3>3. fvView.loading \in BOOLEAN
        BY <1>9
      <3>4. fvView.lines \in Seq(Nat \X Nat)
        BY <1>2, <1>9
      <3> QED
        BY <3>1, <3>2, <3>3, <3>4
    <2>5. HeadIs(fvView.head) /\ fvView.head = None
      BY <1>9 DEF HeadIs
    <2> QED
      BY <2>2, <2>3, <2>4, <2>5 DEF FvViewInv
  <1>11. FvRangesInv /\ FvTextInv
    BY <1>6, <1>8 DEF FvRangesInv, FvTextInv
  <1>12. FvLoadInv
    <2>1. ~Short(fvView)
      BY <1>9 DEF Short, hasMoreChunks, isLargeFile
    <2> QED
      BY <1>6, <2>1 DEF FvLoadInv
  <1> QED
    BY <1>1, <1>3, <1>5, <1>7, <1>10, <1>11, <1>12 DEF FvInv

\* A file that grows keeps what was read of it.
LEMMA FvGrowInv ==
  ASSUME FvInv, NEW p \in FvPaths, FvGrow(p)
  PROVE  FvInv'
  <1>1. /\ fvDisk' = [fvDisk EXCEPT ![p] = Len(FvFiles[p])]
        /\ fvRanged' = fvRanged /\ fvUrl' = fvUrl /\ fvHead' = fvHead /\ fvState' = fvState
        /\ fvView' = fvView /\ fvRanges' = fvRanges /\ fvMixed' = fvMixed
    BY DEF FvGrow
  <1>2. \A q \in FvPaths : Len(FvFiles[q]) \in Nat
    BY FvAssumption
  <1>3. FvDiskInv /\ FvHeadInv
    BY DEF FvInv
  <1>4. FvDiskInv'
    BY <1>1, <1>2, <1>3 DEF FvDiskInv
  <1>5. \A q \in FvPaths : fvDisk[q] <= fvDisk'[q] /\ fvDisk[q] \in Nat /\ fvDisk'[q] \in Nat
    BY <1>1, <1>2, <1>3 DEF FvDiskInv
  <1>6. FvHeadInv'
    <2>1. DOMAIN fvHead' = FvPaths /\ \A q \in FvPaths : HeadIs(fvHead'[q])
      BY <1>1, <1>3 DEF FvHeadInv
    <2>2. ASSUME NEW q \in FvPaths, fvHead'[q] # None PROVE fvHead'[q] <= fvDisk'[q]
      <3>1. fvHead[q] \in Nat /\ fvHead[q] <= fvDisk[q]
        BY <1>1, <1>3, <2>2 DEF FvHeadInv, HeadIs
      <3> QED
        BY <1>1, <1>5, <3>1
    <2> QED
      BY <2>1, <2>2 DEF FvHeadInv
  <1>7. FvUrlInv' /\ FvStateInv' /\ FvViewInv' /\ FvRangesInv' /\ FvTextInv' /\ FvLoadInv'
    BY <1>1 DEF FvInv, FvUrlInv, FvStateInv, FvViewInv, FvRangesInv, FvTextInv, FvLoadInv
  <1> QED
    BY <1>4, <1>6, <1>7 DEF FvInv

\* HEAD tells of a larger file: chunks that reached the earlier end are mixed with
\* it, and no other text is touched.
LEMMA HeadAnsweredInv ==
  ASSUME FvInv, NEW size, HeadAnswered(size)
  PROVE  FvInv'
  <1> DEFINE p == filePath
             old == fvHead[p]
  <1>1. /\ fvHead' = [fvHead EXCEPT ![p] = size]
        /\ fvDisk' = fvDisk /\ fvRanged' = fvRanged /\ fvUrl' = fvUrl /\ fvState' = fvState
        /\ fvView' = fvView /\ fvRanges' = fvRanges
        /\ fvView.path = p /\ size # old
        /\ size = fvDisk[p] \/ (size = 0 /\ old = None)
        /\ fvMixed' = (fvMixed \/ (fvState.chunks # <<>>
                        /\ size > Max({fvState.loaded, old} \ {None})))
    BY DEF HeadAnswered
  <1>2. p \in FvPaths /\ p \in {"run", "suite"} /\ None \notin Nat
    BY PathsAre, FvAssumption
  <1> HIDE DEF p, old
  <1>3. fvDisk[p] \in Nat
    BY <1>2, FvAssumption DEF FvInv, FvDiskInv
  <1>4. DOMAIN fvHead = FvPaths /\ HeadIs(old) /\ (old # None => old \in Nat /\ old <= fvDisk[p])
    BY <1>2 DEF FvInv, FvHeadInv, HeadIs, old
  <1>5. size \in Nat /\ size <= fvDisk[p] /\ fvHead'[p] = size
    BY <1>1, <1>2, <1>3, <1>4
  <1>6. \A q \in FvPaths : q # p => fvHead'[q] = fvHead[q]
    BY <1>1, <1>4
  <1>7. old \in Nat => old < size
    BY <1>1, <1>2, <1>3, <1>4
  <1>8. FvDiskInv' /\ FvUrlInv' /\ FvStateInv' /\ FvLoadInv'
    BY <1>1 DEF FvInv, FvDiskInv, FvUrlInv, FvStateInv, FvLoadInv
  <1>9. FvHeadInv'
    <2>1. DOMAIN fvHead' = FvPaths
      BY <1>1, <1>4
    <2>2. ASSUME NEW q \in FvPaths
          PROVE  HeadIs(fvHead'[q]) /\ (fvHead'[q] # None => fvHead'[q] <= fvDisk'[q])
      <3>1. CASE q = p
        BY <1>1, <1>5, <3>1 DEF HeadIs
      <3>2. CASE q # p
        BY <1>1, <1>6, <3>2 DEF FvInv, FvHeadInv
      <3> QED
        BY <3>1, <3>2
    <2> QED
      BY <2>1, <2>2 DEF FvHeadInv
  <1>10. FvViewInv'
    <2>1. fvView.path = "suite" => fvHead'["run"] = None
      <3>1. SUFFICES ASSUME fvView.path = "suite" PROVE fvHead'["run"] = None
        OBVIOUS
      <3>2. fvHead["run"] = None /\ "run" # p /\ "run" \in FvPaths
        BY <1>1, <3>1, FvAssumption DEF FvInv, FvViewInv
      <3> QED
        BY <1>6, <3>2
    <2>2. fvView.head # None => fvHead'[p] \in Nat /\ fvView.head <= fvHead'[p]
      <3>1. SUFFICES ASSUME fvView.head # None PROVE fvView.head <= fvHead'[p]
        BY <1>5
      <3>2. fvView.head \in Nat /\ old \in Nat /\ fvView.head <= old
        BY <1>1, <3>1 DEF FvInv, FvViewInv, HeadIs, old
      <3> QED
        BY <1>5, <1>7, <3>2
    <2> QED
      BY <1>1, <2>1, <2>2 DEF FvInv, FvViewInv
  <1>11. FvRangesInv'
    <2>1. SUFFICES ASSUME NEW r \in fvRanges PROVE RangeIs(r, fvHead')
      BY <1>1 DEF FvRangesInv
    <2>2. RangeIs(r, fvHead)
      BY DEF FvInv, FvRangesInv
    <2>3. CASE r.path # p
      <3>1. fvHead'[r.path] = fvHead[r.path]
        BY <1>6, <2>2, <2>3 DEF RangeIs
      <3> QED
        BY <2>2, <3>1 DEF RangeIs
    <2>4. CASE r.path = p
      <3>1. old \in Nat /\ r.from \in Nat /\ r.size \in Nat /\ r.from + r.size <= old
        BY <2>2, <2>4, FvAssumption DEF RangeIs, old
      <3>2. r.from + r.size <= fvHead'[r.path] /\ r.from + r.size < fvHead'[r.path]
        BY <1>5, <1>7, <2>4, <3>1
      <3>3. fvHead'[r.path] \in Nat
        BY <1>5, <2>4
      <3> QED
        BY <2>2, <3>2, <3>3 DEF RangeIs
    <2> QED
      BY <2>3, <2>4
  <1>12. FvTextInv'
    <2>1. SUFFICES ASSUME fvState.chunks # <<>>, ~fvMixed', fvRanged, PlainFile(p)
                   PROVE  FALSE
      BY <1>1 DEF FvTextInv
    <2>2. ~fvMixed
      BY <1>1, <2>1
    <2>3. TextIs(fvState.chunks, fvState.loaded, p, old)
      BY <1>1, <2>1, <2>2 DEF FvInv, FvTextInv, old
    <2>4. old \in Nat /\ fvState.loaded \in 1..old
      BY <2>3 DEF TextIs
    <2>5. {fvState.loaded, old} \ {None} = {fvState.loaded, old}
      BY <1>2, <2>4
    <2>6. Max({fvState.loaded, old}) = IF fvState.loaded >= old THEN fvState.loaded ELSE old
      BY <2>4, MaxOfTwo
    <2>7. ~(size > Max({fvState.loaded, old}))
      BY <1>1, <2>1, <2>5
    <2> QED
      BY <1>5, <1>7, <2>4, <2>6, <2>7
  <1> QED
    BY <1>8, <1>9, <1>10, <1>11, <1>12 DEF FvInv

\* Everything the invariant speaks of.
LEMMA FvSameInv ==
  ASSUME FvInv, UNCHANGED <<fvDisk, fvRanged, fvUrl, fvHead, fvState, fvView, fvRanges, fvMixed>>
  PROVE  FvInv'
  BY DEF FvInv, FvDiskInv, FvUrlInv, FvHeadInv, FvStateInv, FvViewInv, FvRangesInv, FvTextInv,
         FvLoadInv

\* A render with its effects: whatever falls short of the selected line is asked for.
LEMMA FvRenderInv ==
  ASSUME FvInv, FvRender
  PROVE  FvInv'
  <1> DEFINE reset == filePath # fvView.path
             asked == EffectRanges(FvNow)
  <1>1. /\ fvView' = FvNow /\ fvRanges' = fvRanges \cup asked
        /\ fvState' = [fvState EXCEPT !.chunks = IF reset THEN <<>> ELSE @,
                                      !.loaded = IF reset THEN 0 ELSE @,
                                      !.loading = @ \/ asked # {}]
        /\ fvMixed' = (fvMixed /\ ~reset)
        /\ fvDisk' = fvDisk /\ fvRanged' = fvRanged /\ fvUrl' = fvUrl /\ fvHead' = fvHead
    BY DEF FvRender
  <1> DEFINE w == FvNow
  <1>2. /\ w.path = filePath /\ w.lines = fvUrl.lines /\ w.head = fvHead[filePath]
        /\ w.chunks = fvState.chunks /\ w.loaded = fvState.loaded
        /\ w.loading = fvState.loading
    BY FvNowIs
  <1> HIDE DEF asked, w
  <1>3. /\ fvState \in [chunks : Seq(Seq(Characters)), loaded : Nat, loading : BOOLEAN,
                         last : Nat \cup {None}, lost : BOOLEAN]
        /\ fvState.chunks = <<>> => fvState.loaded = 0
    BY DEF FvInv, FvStateInv
  <1>4. filePath \in FvPaths /\ filePath \in {"run", "suite"} /\ None \notin Nat
    BY PathsAre, FvAssumption
  <1>5. HeadIs(w.head) /\ (w.head # None => fvHead[w.path] \in Nat /\ w.head <= fvHead[w.path])
    BY <1>2, <1>4 DEF FvInv, FvHeadInv, HeadIs
  <1>6. FvDiskInv' /\ FvUrlInv' /\ FvHeadInv'
    BY <1>1 DEF FvInv, FvDiskInv, FvUrlInv, FvHeadInv
  <1>7. /\ fvState'.chunks = (IF reset THEN <<>> ELSE fvState.chunks)
        /\ fvState'.loaded = (IF reset THEN 0 ELSE fvState.loaded)
        /\ fvState'.loading = (fvState.loading \/ asked # {})
        /\ fvState'.last = fvState.last /\ fvState'.lost = fvState.lost
    BY <1>1, <1>3
  <1>8. FvStateInv'
    <2>1. <<>> \in Seq(Seq(Characters))
      OBVIOUS
    <2>2. (fvState.loading \/ asked # {}) \in BOOLEAN
      OBVIOUS
    <2> HIDE DEF reset
    <2>3. fvState' \in [chunks : Seq(Seq(Characters)), loaded : Nat, loading : BOOLEAN,
                        last : Nat \cup {None}, lost : BOOLEAN]
      BY <1>1, <1>3, <2>1, <2>2
    <2>4. fvState'.chunks = <<>> => fvState'.loaded = 0
      BY <1>3, <1>7
    <2> QED
      BY <2>3, <2>4 DEF FvStateInv
  <1>9. FvViewInv'
    <2>1. w.path \in {"run", "suite"} /\ (fvUrl.base => w.path = "suite")
      BY <1>2, PathsAre
    <2>2. w.path = "suite" => fvHead["run"] = None
      BY <1>2, PathsAre DEF FvInv, FvViewInv
    <2>3. /\ w.chunks \in Seq(Seq(Characters)) /\ w.loaded \in Nat
          /\ w.loading \in BOOLEAN /\ w.lines \in Seq(Nat \X Nat)
      BY <1>2, <1>3 DEF FvInv, FvUrlInv
    <2>4. fvView' = w
      BY <1>1 DEF w
    <2> QED
      BY <1>1, <1>5, <2>1, <2>2, <2>3, <2>4 DEF FvViewInv
  <1>10. FvRangesInv'
    <2>1. ASSUME NEW r \in asked PROVE RangeIs(r, fvHead)
      <3>1. w.path \in FvPaths /\ w.loaded \in Nat
        BY <1>2, <1>3, <1>4
      <3>2. r \in EffectRanges(w)
        BY DEF asked, w
      <3> QED
        BY <1>5, <3>1, <3>2, EffectsAre
    <2> QED
      BY <1>1, <2>1 DEF FvInv, FvRangesInv
  <1>11. FvTextInv'
    <2>1. CASE reset
      BY <1>7, <2>1 DEF FvTextInv
    <2>2. CASE ~reset
      <3>1. fvView'.path = fvView.path /\ (~fvMixed' => ~fvMixed)
        BY <1>1, <1>2, <2>2 DEF w
      <3>2. fvState'.chunks = fvState.chunks /\ fvState'.loaded = fvState.loaded
        BY <1>7, <2>2
      <3> QED
        BY <1>1, <3>1, <3>2 DEF FvInv, FvTextInv
    <2> QED
      BY <2>1, <2>2
  <1>12. FvLoadInv'
    <2>1. fvState'.loading => fvRanges' # {} \/ fvState'.lost
      <3>1. fvState.loading => fvRanges # {} \/ fvState.lost
        BY DEF FvInv, FvLoadInv
      <3> QED
        BY <1>1, <1>7, <3>1
    <2>2. ASSUME Short(w), ~w.loading PROVE fvState'.loading
      <3>1. w.chunks \in Seq(Seq(Characters)) /\ w.lines \in Seq(Nat \X Nat)
        BY <1>2, <1>3 DEF FvInv, FvUrlInv
      <3>2. asked # {}
        BY <2>2, <3>1, ShortAsks DEF asked, w
      <3> QED
        BY <1>7, <3>2
    <2>3. fvView' = w
      BY <1>1 DEF w
    <2> QED
      BY <2>1, <2>2, <2>3 DEF FvLoadInv
  <1> QED
    BY <1>6, <1>8, <1>9, <1>10, <1>11, <1>12 DEF FvInv

\* The sentinel asks for the range of an older render.
LEMMA SentinelVisibleInv ==
  ASSUME FvInv, SentinelVisible
  PROVE  FvInv'
  <1> DEFINE r == RangeOf(fvView, FALSE, "sentinel")
  <1>1. /\ CanLoadNext(fvView) /\ fvRanges' = fvRanges \cup {r}
        /\ fvState' = [fvState EXCEPT !.loading = TRUE]
        /\ fvDisk' = fvDisk /\ fvRanged' = fvRanged /\ fvUrl' = fvUrl /\ fvHead' = fvHead
        /\ fvView' = fvView /\ fvMixed' = fvMixed
    BY DEF SentinelVisible
  <1>2. RangeIs(r, fvHead)
    <2>1. fvView.head # None
      BY <1>1 DEF CanLoadNext, hasMoreChunks, isLargeFile
    <2>2. /\ fvView.head \in Nat /\ fvView.loaded \in Nat /\ fvView.path \in FvPaths
          /\ fvHead[fvView.path] \in Nat /\ fvView.head <= fvHead[fvView.path]
      BY <2>1, FvAssumption DEF FvInv, FvViewInv, HeadIs
    <2> QED
      BY <1>1, <2>2, NextRangeIs
  <1> HIDE DEF r
  <1>3. fvState \in [chunks : Seq(Seq(Characters)), loaded : Nat, loading : BOOLEAN,
                     last : Nat \cup {None}, lost : BOOLEAN]
    BY DEF FvInv, FvStateInv
  <1>4. /\ fvState'.chunks = fvState.chunks /\ fvState'.loaded = fvState.loaded
        /\ fvState'.loading = TRUE
        /\ fvState' \in [chunks : Seq(Seq(Characters)), loaded : Nat, loading : BOOLEAN,
                          last : Nat \cup {None}, lost : BOOLEAN]
    BY <1>1, <1>3
  <1>5. FvDiskInv' /\ FvUrlInv' /\ FvHeadInv' /\ FvViewInv'
    BY <1>1 DEF FvInv, FvDiskInv, FvUrlInv, FvHeadInv, FvViewInv
  <1>6. FvStateInv'
    BY <1>4 DEF FvInv, FvStateInv
  <1>7. FvRangesInv'
    BY <1>1, <1>2 DEF FvInv, FvRangesInv
  <1>8. FvTextInv'
    BY <1>1, <1>4 DEF FvInv, FvTextInv
  <1>9. FvLoadInv'
    BY <1>1, <1>4 DEF FvLoadInv
  <1> QED
    BY <1>5, <1>6, <1>7, <1>8, <1>9 DEF FvInv

\* The button empties the chunks.
LEMMA RefetchInv ==
  ASSUME FvInv, refetch
  PROVE  FvInv'
  <1>1. /\ fvState' = [fvState EXCEPT !.chunks = <<>>, !.loaded = 0]
        /\ fvDisk' = fvDisk /\ fvRanged' = fvRanged /\ fvUrl' = fvUrl /\ fvHead' = fvHead
        /\ fvView' = fvView /\ fvRanges' = fvRanges
    BY DEF refetch
  <1>2. fvState \in [chunks : Seq(Seq(Characters)), loaded : Nat, loading : BOOLEAN,
                     last : Nat \cup {None}, lost : BOOLEAN]
    BY DEF FvInv, FvStateInv
  <1>3. /\ fvState'.chunks = <<>> /\ fvState'.loaded = 0
        /\ fvState'.loading = fvState.loading /\ fvState'.lost = fvState.lost
        /\ fvState' \in [chunks : Seq(Seq(Characters)), loaded : Nat, loading : BOOLEAN,
                          last : Nat \cup {None}, lost : BOOLEAN]
    <2>1. <<>> \in Seq(Seq(Characters))
      OBVIOUS
    <2> QED
      BY <1>1, <1>2, <2>1
  <1>4. FvDiskInv' /\ FvUrlInv' /\ FvHeadInv' /\ FvViewInv' /\ FvRangesInv'
    BY <1>1 DEF FvInv, FvDiskInv, FvUrlInv, FvHeadInv, FvViewInv, FvRangesInv
  <1>5. FvStateInv' /\ FvTextInv'
    BY <1>3 DEF FvStateInv, FvTextInv
  <1>6. FvLoadInv'
    BY <1>1, <1>3 DEF FvInv, FvLoadInv
  <1> QED
    BY <1>4, <1>5, <1>6 DEF FvInv

\* A click leaves the text alone, although it may change the file of the URL.
LEMMA ClickInv ==
  ASSUME FvInv, NEW l \in ToSet(FvClicks), NEW key, handleLineClick(l, key)
  PROVE  FvInv'
  <1> DEFINE S == parseLineSelection(fvView.lines)
             more == Clicked(S, l, key)
  <1>1. /\ fvUrl' = [base |-> FALSE, lines |-> serializeLineSelection(more)]
        /\ fvState' = [fvState EXCEPT !.last = IF key = "shift" /\ @ # None THEN @ ELSE l]
        /\ fvDisk' = fvDisk /\ fvRanged' = fvRanged /\ fvHead' = fvHead
        /\ fvView' = fvView /\ fvRanges' = fvRanges /\ fvMixed' = fvMixed
    BY DEF handleLineClick
  <1>2. fvState \in [chunks : Seq(Seq(Characters)), loaded : Nat, loading : BOOLEAN,
                     last : Nat \cup {None}, lost : BOOLEAN]
    BY DEF FvInv, FvStateInv
  <1>3. l \in Nat /\ None \notin Nat
    BY FvAssumption
  <1>4. Lines(S)
    BY ParsedLines DEF FvInv, FvViewInv
  <1> HIDE DEF S
  <1>5. Lines(more)
    <2>1. fvState.last \in Nat \cup {None}
      BY <1>2
    <2> QED
      BY <1>3, <1>4, <2>1, ClickedLines
  <1> HIDE DEF more
  <1>6. serializeLineSelection(more) \in Seq(Nat \X Nat)
    BY <1>5, SelectionIs
  <1>7. fvUrl'.base = FALSE /\ fvUrl'.lines = serializeLineSelection(more)
    BY <1>1
  <1>8. FvUrlInv'
    BY <1>6, <1>7 DEF FvUrlInv
  <1>9. /\ fvState'.chunks = fvState.chunks /\ fvState'.loaded = fvState.loaded
        /\ fvState'.loading = fvState.loading /\ fvState'.lost = fvState.lost
        /\ fvState' \in [chunks : Seq(Seq(Characters)), loaded : Nat, loading : BOOLEAN,
                          last : Nat \cup {None}, lost : BOOLEAN]
    BY <1>1, <1>2, <1>3
  <1>10. FvDiskInv' /\ FvHeadInv' /\ FvRangesInv'
    BY <1>1 DEF FvInv, FvDiskInv, FvHeadInv, FvRangesInv
  <1>11. FvStateInv'
    BY <1>9 DEF FvInv, FvStateInv
  <1>12. FvViewInv'
    BY <1>1, <1>7 DEF FvInv, FvViewInv
  <1>13. FvTextInv' /\ FvLoadInv'
    BY <1>1, <1>9 DEF FvInv, FvTextInv, FvLoadInv
  <1> QED
    BY <1>8, <1>10, <1>11, <1>12, <1>13 DEF FvInv

\* What an answer adds to a plain file of this size: text up to a newline or to
\* the end, and the bytes that count as loaded with it.
GivenIs(r, c, used, head) ==
    LET f == FvFiles[r.path]
    IN /\ c \in Seq(Characters) /\ used \in 1..r.size
       /\ r.atEnd => r.from + used = head /\ c = SubSeq(f, r.from + 1, head)
       /\ ~r.atEnd => /\ r.from + used < head /\ f[r.from + used] = "n"
                      /\ c = SubSeq(f, r.from + 1, r.from + used - 1)

\* The bytes of a plain file that answer a range.
LEMMA DataIs ==
  ASSUME FvDiskInv, FvHeadInv, NEW r, RangeIs(r, fvHead), fvRanged, PlainFile(r.path)
  PROVE  /\ fetchPartialText(r) = SubSeq(FvFiles[r.path], r.from + 1, r.from + r.size)
         /\ r.from + r.size <= Len(FvFiles[r.path])
  <1> DEFINE f == FvFiles[r.path]
             d == fvDisk[r.path]
             S == {"x", "n"}
             bytes == SubSeq(f, 1, d)
             b == r.from + r.size
             part == SubSeq(f, r.from + 1, b)
  <1>1. f \in Seq(S)
    BY DEF PlainFile
  <1>2. r.path \in FvPaths /\ r.from \in Nat /\ r.size \in Nat /\ fvHead[r.path] \in Nat
        /\ b <= fvHead[r.path]
    BY FvAssumption DEF RangeIs
  <1>3. d \in 0..Len(f)
    BY <1>2 DEF FvDiskInv
  <1>4. fvHead[r.path] <= d
    <2>1. fvHead[r.path] # None
      BY <1>2, FvAssumption
    <2> QED
      BY <1>2, <2>1 DEF FvHeadInv
  <1>5. b \in Nat /\ Len(f) \in Nat /\ d \in Nat /\ b <= d /\ d <= Len(f)
    BY <1>1, <1>2, <1>3, <1>4
  <1>6. fetchPartialText(r) = Decoded(SubSeq(bytes, r.from + 1, b))
    BY DEF fetchPartialText
  <1> HIDE DEF f, d, b
  <1>7. SubSeq(bytes, r.from + 1, b) = part
    <2>1. b \in Int /\ r.from \in Nat
      BY <1>2, <1>5
    <2> HIDE DEF S
    <2> QED
      BY <1>1, <1>3, <1>5, <2>1, PartOfPart, Zenon
  <1>8. part \in Seq(S)
    BY <1>1, <1>2, <1>5
  <1> HIDE DEF bytes, part, S
  <1>9. Decoded(part) = part
    BY <1>8, DecodedPlain DEF S
  <1>10. fetchPartialText(r) = part
    BY <1>6, <1>7, <1>9, Zenon
  <1>11. b <= Len(f)
    BY <1>5
  <1> QED
    BY <1>10, <1>11, Zenon DEF part, f, b

\* What is kept of an answer.
LEMMA GivenByRange ==
  ASSUME FvDiskInv, FvHeadInv, NEW r, RangeIs(r, fvHead), fvRanged, PlainFile(r.path),
         r.atEnd => r.from + r.size = fvHead[r.path]
  PROVE  GivenIs(r, CutText(r, fetchPartialText(r)), bytesConsumed(r, fetchPartialText(r)),
                 fvHead[r.path])
  <1> DEFINE p == r.path
             a == r.from
             n == r.size
             f == FvFiles[p]
             data == fetchPartialText(r)
             c == CutText(r, data)
             used == bytesConsumed(r, data)
             head == fvHead[p]
  <1>1. data = SubSeq(f, a + 1, a + n) /\ a + n <= Len(f)
    BY DataIs, Zenon
  <1>2. c \in Seq(Characters)
    BY AnswerTyped, CutTyped, Zenon
  <1>3. /\ a \in Nat /\ n \in Nat \ {0} /\ n <= FvChunk /\ r.atEnd \in BOOLEAN /\ head \in Nat
        /\ a + n <= head /\ FvChunk \in Nat \ {0}
        /\ ~r.atEnd => n = FvChunk /\ a + n < head
    BY FvAssumption DEF RangeIs
  <1>4. PlainFile(p) /\ (r.atEnd => a + n = head)
    OBVIOUS
  <1> HIDE DEF data, p, a, n, head
  <1>5. /\ used \in 1..n
        /\ r.atEnd => used = n /\ c = data
        /\ ~r.atEnd => f[a + used] = "n" /\ c = SubSeq(f, a + 1, a + used - 1)
    <2>1. ~r.atEnd => n = FvChunk
      BY <1>3
    <2>2. a \in Nat /\ n \in Nat \ {0} /\ FvChunk \in Nat \ {0} /\ r.atEnd \in BOOLEAN
      BY <1>3
    <2>3. PartIs(r, p, a, n, data)
      BY <1>1, <1>4, <2>1, <2>2, Zenon DEF PartIs
    <2>4. KeptOf(r, p, a, n, data)
      BY <2>3, ChunkIs, Zenon
    <2> QED
      BY <2>4 DEF KeptOf
  <1> HIDE DEF used, c, f
  <1>6. used \in Nat /\ used <= n
    BY <1>3, <1>5
  <1>7. r.atEnd => a + used = head /\ c = SubSeq(f, a + 1, head)
    BY <1>1, <1>4, <1>5, Zenon
  <1>8. ~r.atEnd => a + used < head
    BY <1>3, <1>6
  <1>9. GivenIs(r, c, used, head)
    BY <1>2, <1>5, <1>7, <1>8, Zenon DEF GivenIs, a, n, f, p
  <1> QED
    BY <1>9, Zenon DEF c, used, data, head, p

\* Text up to a newline, or all of it.
LEMMA TextMade ==
  ASSUME NEW chunks, NEW path, NEW head \in Nat, NEW l \in 1..head,
         \/ /\ l < head /\ FvFiles[path][l] = "n"
            /\ Joined(chunks) = SubSeq(FvFiles[path], 1, l - 1)
         \/ l = head /\ Joined(chunks) = SubSeq(FvFiles[path], 1, head)
  PROVE  TextIs(chunks, l, path, head)
  <1>1. l < head => l # head
    OBVIOUS
  <1>2. l \in 1..head /\ head \in Nat
    OBVIOUS
  <1> QED
    BY <1>1, <1>2, Zenon DEF TextIs

\* The first chunk is the beginning of the file.
LEMMA TextStarts ==
  ASSUME NEW r, NEW c, NEW used, NEW head \in Nat, GivenIs(r, c, used, head), r.from = 0,
         r.size \in Nat, r.atEnd \in BOOLEAN
  PROVE  TextIs(<<c>>, used, r.path, head)
  <1> DEFINE f == FvFiles[r.path]
             joined == Joined(<<c>>)
  <1>1. c \in Seq(Characters) /\ used \in Nat /\ used >= 1
    BY DEF GivenIs
  <1>2. joined = c
    <2>1. <<>> \in Seq(Seq(Characters))
      OBVIOUS
    <2> QED
      BY <1>1, <2>1, JoinedIs
  <1>3. CASE r.atEnd
    <2>1. used = head /\ c = SubSeq(f, 1, head)
      BY <1>1, <1>3 DEF GivenIs
    <2>2. used \in 1..head
      BY <1>1, <2>1
    <2> QED
      BY <1>2, <2>1, <2>2, TextMade, Zenon
  <1>4. CASE ~r.atEnd
    <2>1. used < head /\ f[used] = "n" /\ c = SubSeq(f, 1, used - 1)
      BY <1>1, <1>4 DEF GivenIs
    <2>2. used \in 1..head
      BY <1>1, <2>1
    <2> QED
      BY <1>2, <2>1, <2>2, TextMade, Zenon
  <1> QED
    BY <1>3, <1>4

\* A chunk that was asked for where the loaded bytes end goes on with the file.
LEMMA TextGoesOn ==
  ASSUME NEW r, NEW c, NEW used, NEW head \in Nat, GivenIs(r, c, used, head),
         NEW chunks \in Seq(Seq(Characters)), chunks # <<>>,
         NEW l, r.from = l, TextIs(chunks, l, r.path, head), PlainFile(r.path),
         r.size \in Nat, r.atEnd \in BOOLEAN, head <= Len(FvFiles[r.path])
  PROVE  TextIs(Append(chunks, c), l + used, r.path, head)
  <1> DEFINE f == FvFiles[r.path]
             S == {"x", "n"}
             joined == Joined(Append(chunks, c))
             before == Joined(chunks)
  <1>1. c \in Seq(Characters) /\ used \in Nat /\ used >= 1
    BY DEF GivenIs
  <1>2. f \in Seq(S) /\ Len(f) \in Nat
    BY DEF PlainFile
  <1>3. l + used <= head /\ l \in Nat /\ l >= 1
    BY <1>1 DEF GivenIs, TextIs
  <1>4. l < head
    BY <1>1, <1>3
  <1>5. f[l] = "n" /\ before = SubSeq(f, 1, l - 1)
    BY <1>4 DEF TextIs
  <1>6. joined = before \o (<<"n">> \o c)
    BY <1>1, JoinedIs
  <1> HIDE DEF joined, before, f, S
  <1>7. l \in 1..Len(f)
    BY <1>2, <1>3, <1>4 DEF f
  <1>8. ASSUME NEW b \in l..Len(f), c = SubSeq(f, l + 1, b)
        PROVE  joined = SubSeq(f, 1, b)
    <2>1. joined = SubSeq(f, 1, l - 1) \o (<<f[l]>> \o SubSeq(f, l + 1, b))
      BY <1>5, <1>6, <1>8
    <2>2. SubSeq(f, 1, l - 1) \o (<<f[l]>> \o SubSeq(f, l + 1, b)) = SubSeq(f, 1, b)
      BY <1>2, <1>7, Glued
    <2> QED
      BY <2>1, <2>2
  <1>9. CASE r.atEnd
    <2>1. l + used = head /\ c = SubSeq(f, l + 1, head)
      BY <1>9 DEF GivenIs, f
    <2>2. head \in l..Len(f)
      BY <1>2, <1>3, <1>4 DEF f
    <2>3. joined = SubSeq(f, 1, head)
      BY <1>8, <2>1, <2>2
    <2>4. l + used \in 1..head
      BY <1>1, <1>3, <2>1
    <2> QED
      BY <2>1, <2>3, <2>4, TextMade, Zenon DEF joined, f
  <1>10. CASE ~r.atEnd
    <2> DEFINE k == l + used
               b == k - 1
    <2>1. k < head /\ f[k] = "n" /\ c = SubSeq(f, l + 1, b)
      <3>1. l + used < head /\ f[l + used] = "n" /\ c = SubSeq(f, l + 1, l + used - 1)
        BY <1>10 DEF GivenIs, f
      <3>2. l + used - 1 = b
        BY <1>1, <1>3
      <3> HIDE DEF b
      <3> QED
        BY <3>1, <3>2, Zenon
    <2>2. b \in l..Len(f)
      BY <1>1, <1>2, <1>3 DEF f
    <2> HIDE DEF b, k
    <2>3. joined = SubSeq(f, 1, b)
      BY <1>8, <2>1, <2>2
    <2>4. k \in 1..head
      BY <1>1, <1>3, <2>1 DEF k
    <2>5. TextIs(Append(chunks, c), k, r.path, head)
      BY <2>1, <2>3, <2>4, TextMade, Zenon DEF joined, f, b
    <2> QED
      BY <2>5 DEF k
  <1> QED
    BY <1>9, <1>10

\* A range that is answered adds its part of the file, or makes the text mixed.
LEMMA TextAnswered ==
  ASSUME FvInv, NEW r \in fvRanges, fvView = FvNow, RangeAnswered(r)
  PROVE  (fvState'.chunks # <<>> /\ ~fvMixed' /\ fvRanged /\ PlainFile(fvView.path))
           => TextIs(fvState'.chunks, fvState'.loaded, fvView.path, fvHead[fvView.path])
  <1> DEFINE data == fetchPartialText(r)
             used == bytesConsumed(r, data)
             c == CutText(r, data)
             head == fvHead[r.path]
             chunks == fvState.chunks
             l == fvState.loaded
  <1> SUFFICES ASSUME ~fvMixed', fvRanged, PlainFile(fvView.path)
               PROVE  TextIs(fvState'.chunks, fvState'.loaded, fvView.path, fvHead[fvView.path])
    OBVIOUS
  <1>1. /\ fvState' = [fvState EXCEPT
             !.chunks = IF r.first THEN <<c>> ELSE Append(@, c),
             !.loaded = IF r.first THEN used ELSE @ + used,
             !.loading = FALSE, !.lost = FALSE]
        /\ fvMixed' = \/ r.path # filePath
                      \/ r.atEnd /\ r.from + r.size < fvView.head
                      \/ ~r.first /\ (fvMixed \/ r.from # l)
    BY DEF RangeAnswered
  <1>2. /\ fvState \in [chunks : Seq(Seq(Characters)), loaded : Nat, loading : BOOLEAN,
                       last : Nat \cup {None}, lost : BOOLEAN]
        /\ chunks = <<>> => l = 0
    BY DEF FvInv, FvStateInv
  <1> HIDE DEF c, used
  <1>3. /\ fvState'.chunks = IF r.first THEN <<c>> ELSE Append(chunks, c)
        /\ fvState'.loaded = IF r.first THEN used ELSE l + used
    BY <1>1, <1>2
  <1>4. /\ r.path = fvView.path /\ fvView.head = head
        /\ ~(r.atEnd /\ r.from + r.size < head)
        /\ ~r.first => ~fvMixed /\ r.from = l
    BY <1>1, FvNowIs
  <1>5. RangeIs(r, fvHead) /\ FvDiskInv /\ FvHeadInv
    BY DEF FvInv, FvRangesInv
  <1> HIDE DEF head
  <1>6. /\ r.from \in Nat /\ r.size \in Nat /\ r.size >= 1 /\ head \in Nat
        /\ r.from + r.size <= head /\ r.atEnd \in BOOLEAN /\ r.first \in BOOLEAN
        /\ (r.first => r.from = 0) /\ r.path \in FvPaths
    BY <1>5, FvAssumption DEF RangeIs, head
  <1>7. r.atEnd => r.from + r.size = head
    BY <1>4, <1>6
  <1>8. GivenIs(r, c, used, head)
    BY <1>4, <1>5, <1>7, GivenByRange, Zenon DEF c, used, data, head
  <1> HIDE DEF data
  <1>9. head <= Len(FvFiles[r.path])
    <2>1. head <= fvDisk[r.path]
      <3>1. head # None
        BY <1>6, FvAssumption
      <3> QED
        BY <1>5, <1>6, <3>1 DEF FvHeadInv, head
    <2>2. fvDisk[r.path] \in Nat /\ fvDisk[r.path] <= Len(FvFiles[r.path])
      <3>1. Len(FvFiles[r.path]) \in Nat
        BY <1>6, FvAssumption
      <3> QED
        BY <1>5, <1>6, <3>1 DEF FvDiskInv
    <2>3. Len(FvFiles[r.path]) \in Nat
      BY <1>6, FvAssumption
    <2> QED
      BY <1>6, <2>1, <2>2, <2>3
  <1>10. CASE r.first \/ chunks = <<>>
    <2>1. r.from = 0
      BY <1>2, <1>4, <1>6, <1>10
    <2>2. fvState'.chunks = <<c>> /\ fvState'.loaded = used
      <3>1. Append(<<>>, c) = <<c>> /\ used \in Nat
        BY <1>6, <1>8 DEF GivenIs
      <3>2. CASE r.first
        BY <1>3, <3>2
      <3>3. CASE ~r.first /\ chunks = <<>>
        <4>1. l = 0
          BY <1>2, <3>3
        <4> HIDE DEF chunks, l
        <4>2. fvState'.chunks = Append(<<>>, c) /\ fvState'.loaded = 0 + used
          BY <1>3, <3>3, <4>1, Zenon
        <4> QED
          BY <3>1, <4>2
      <3> QED
        BY <1>10, <3>2, <3>3
    <2>3. TextIs(<<c>>, used, r.path, head)
      BY <1>6, <1>8, <2>1, TextStarts
    <2> QED
      BY <1>4, <2>2, <2>3 DEF head
  <1>11. CASE ~r.first /\ chunks # <<>>
    <2>1. r.from = l /\ ~fvMixed
      BY <1>4, <1>11
    <2>2. TextIs(chunks, l, r.path, head)
      BY <1>4, <1>11, <2>1 DEF FvInv, FvTextInv, head
    <2>3. fvState'.chunks = Append(chunks, c) /\ fvState'.loaded = l + used
      BY <1>3, <1>11
    <2>4. chunks \in Seq(Seq(Characters))
      BY <1>2
    <2>5. PlainFile(r.path)
      BY <1>4
    <2> HIDE DEF chunks, l
    <2>6. TextIs(Append(chunks, c), l + used, r.path, head)
      BY <1>6, <1>8, <1>9, <1>11, <2>1, <2>2, <2>4, <2>5, TextGoesOn
    <2> QED
      BY <1>4, <2>3, <2>6 DEF head
  <1> QED
    BY <1>10, <1>11

\* A range is answered, fails or is rejected.
LEMMA RangeEndsInv ==
  ASSUME FvInv, NEW r \in fvRanges, RangeEnds(r)
  PROVE  FvInv'
  <1>1. /\ fvView = FvNow /\ fvRanges' = fvRanges \ {r}
        /\ RangeAnswered(r) \/ RangeFailed \/ RangeRejected
        /\ fvDisk' = fvDisk /\ fvRanged' = fvRanged /\ fvUrl' = fvUrl /\ fvHead' = fvHead
        /\ fvView' = fvView
    BY DEF RangeEnds
  <1>2. /\ fvState \in [chunks : Seq(Seq(Characters)), loaded : Nat, loading : BOOLEAN,
                       last : Nat \cup {None}, lost : BOOLEAN]
        /\ fvState.chunks = <<>> => fvState.loaded = 0
    BY DEF FvInv, FvStateInv
  <1>3. FvDiskInv' /\ FvUrlInv' /\ FvHeadInv' /\ FvViewInv' /\ FvRangesInv'
    BY <1>1 DEF FvInv, FvDiskInv, FvUrlInv, FvHeadInv, FvViewInv, FvRangesInv
  <1>4. (fvState'.loading = FALSE \/ fvState'.lost) /\ FvStateInv'
    <2>1. CASE RangeFailed
      BY <1>2, <2>1 DEF RangeFailed, FvStateInv
    <2>3. CASE RangeRejected
      BY <1>2, <2>3 DEF RangeRejected, FvStateInv
    <2>2. CASE RangeAnswered(r)
      <3> DEFINE data == fetchPartialText(r)
                 used == bytesConsumed(r, data)
                 c == CutText(r, data)
                 chunks == IF r.first THEN <<c>> ELSE Append(fvState.chunks, c)
                 loaded == IF r.first THEN used ELSE fvState.loaded + used
      <3>1. fvState' = [fvState EXCEPT !.chunks = chunks, !.loaded = loaded,
                                       !.loading = FALSE, !.lost = FALSE]
        BY <2>2 DEF RangeAnswered
      <3>2. data \in Seq(Characters)
        BY AnswerTyped DEF FvInv, FvRangesInv
      <3> HIDE DEF data
      <3>3. c \in Seq(Characters) /\ used \in Nat
        BY <3>2, CutTyped
      <3> HIDE DEF c, used
      <3>4. chunks \in Seq(Seq(Characters)) /\ chunks # <<>> /\ loaded \in Nat
        <4>1. fvState.chunks \in Seq(Seq(Characters)) /\ fvState.loaded \in Nat
          BY <1>2
        <4>2. /\ <<c>> \in Seq(Seq(Characters)) /\ <<c>> # <<>>
              /\ Append(fvState.chunks, c) \in Seq(Seq(Characters))
              /\ Append(fvState.chunks, c) # <<>>
          BY <3>3, <4>1
        <4> QED
          BY <3>3, <4>1, <4>2
      <3> HIDE DEF chunks, loaded
      <3>5. /\ fvState' \in [chunks : Seq(Seq(Characters)), loaded : Nat, loading : BOOLEAN,
                            last : Nat \cup {None}, lost : BOOLEAN]
            /\ fvState'.chunks = chunks /\ fvState'.loading = FALSE
        BY <1>2, <3>1, <3>4
      <3> QED
        BY <3>4, <3>5 DEF FvStateInv
    <2> QED
      BY <1>1, <2>1, <2>2, <2>3
  <1>5. FvTextInv'
    <2>1. CASE RangeFailed \/ RangeRejected
      <3>1. fvState'.chunks = fvState.chunks /\ fvState'.loaded = fvState.loaded
        BY <1>2, <2>1 DEF RangeFailed, RangeRejected
      <3>2. fvMixed' = fvMixed
        BY <2>1 DEF RangeFailed, RangeRejected
      <3> QED
        BY <1>1, <3>1, <3>2 DEF FvInv, FvTextInv
    <2>2. CASE RangeAnswered(r)
      BY <1>1, <2>2, TextAnswered DEF FvTextInv
    <2> QED
      BY <1>1, <2>1, <2>2
  <1>6. FvLoadInv'
    <2>1. Short(fvView) => fvView.loading
      <3>1. fvView.loading = fvState.loading
        BY <1>1, FvNowIs
      <3> QED
        BY <3>1 DEF FvInv, FvLoadInv
    <2>2. fvState'.loading => fvState'.lost
      BY <1>4
    <2> QED
      BY <1>1, <2>1, <2>2 DEF FvLoadInv
  <1> QED
    BY <1>3, <1>4, <1>5, <1>6 DEF FvInv

\* Every step of the viewer keeps the invariant.
LEMMA FvStepInv == FvInv /\ [FvNext]_fvVars => FvInv'
  <1> SUFFICES ASSUME FvInv, [FvNext]_fvVars PROVE FvInv'
    OBVIOUS
  <1>1. ASSUME NEW p \in FvPaths, FvGrow(p) PROVE FvInv'
    BY <1>1, FvGrowInv
  <1>2. ASSUME NEW size, HeadAnswered(size) PROVE FvInv'
    BY <1>2, HeadAnsweredInv
  <1>3. ASSUME NEW ok, WholeAnswered(ok) PROVE FvInv'
    <2>1. UNCHANGED <<fvDisk, fvRanged, fvUrl, fvHead, fvState, fvView, fvRanges, fvMixed>>
      BY <1>3 DEF WholeAnswered
    <2> QED
      BY <2>1, FvSameInv
  <1>4. CASE FvRender
    BY <1>4, FvRenderInv
  <1>5. CASE SentinelVisible
    BY <1>5, SentinelVisibleInv
  <1>6. ASSUME NEW r \in fvRanges, RangeEnds(r) PROVE FvInv'
    BY <1>6, RangeEndsInv
  <1>7. ASSUME NEW l \in ToSet(FvClicks), NEW key, handleLineClick(l, key) PROVE FvInv'
    BY <1>7, ClickInv
  <1>8. CASE refetch
    BY <1>8, RefetchInv
  <1>9. CASE UNCHANGED fvVars
    <2>1. UNCHANGED <<fvDisk, fvRanged, fvUrl, fvHead, fvState, fvView, fvRanges, fvMixed>>
      BY <1>9 DEF fvVars
    <2> QED
      BY <2>1, FvSameInv
  <1>10. CASE FvNext
    BY <1>1, <1>2, <1>3, <1>4, <1>5, <1>6, <1>7, <1>8, <1>10 DEF FvNext
  <1> QED
    BY <1>9, <1>10

\* What the chunks say is what is shown of the file.
LEMMA FvLinesTrue == FvInv => LinesAreTheFiles
  <1> DEFINE w == FvNow
             f == FvFiles[w.path]
             real == LinesOf(SubSeq(f, 1, w.head))
  <1> SUFFICES ASSUME FvInv, isLargeFile(w), w.chunks # <<>>, PlainFile(w.path), fvRanged, ~fvMixed
               PROVE  /\ IsPrefix(shownLines(w), real)
                      /\ ~hasMoreChunks(w) => shownLines(w) = real
    BY DEF LinesAreTheFiles
  <1>1. /\ w.path = filePath /\ w.head = fvHead[filePath]
        /\ w.chunks = fvState.chunks /\ w.loaded = fvState.loaded
    BY FvNowIs
  <1> HIDE DEF w
  <1>2. w.head # None /\ filePath \in FvPaths
    BY PathsAre DEF isLargeFile
  <1>3. w.head \in Nat
    BY <1>1, <1>2 DEF FvInv, FvHeadInv, HeadIs
  <1>4. fvView.path = filePath
    BY <1>1, <1>2, PathsAre DEF FvInv, FvViewInv
  <1>5. TextIs(w.chunks, w.loaded, w.path, w.head)
    BY <1>1, <1>4 DEF FvInv, FvTextInv
  <1>6. shownLines(w) = LinesOf(Joined(w.chunks))
    BY DEF shownLines, HasContent, fileContent
  <1>7. f \in Seq({"x", "n"}) /\ Len(f) \in Nat
    BY DEF PlainFile
  <1>8. w.head <= Len(f)
    <2>1. w.head <= fvDisk[filePath]
      BY <1>1, <1>2 DEF FvInv, FvHeadInv
    <2>2. fvDisk[filePath] \in Nat /\ fvDisk[filePath] <= Len(f)
      BY <1>1, <1>2, <1>7 DEF FvInv, FvDiskInv
    <2> QED
      BY <1>3, <1>7, <2>1, <2>2
  <1> DEFINE t == SubSeq(f, 1, w.head)
             l == w.loaded
  <1>9. t \in Seq({"x", "n"}) /\ Len(t) = w.head /\ \A i \in 1..w.head : t[i] = f[i]
    BY <1>3, <1>7, <1>8
  <1>10. t \in Seq(Characters)
    BY <1>9 DEF Characters
  <1>11. l \in 1..w.head /\ (hasMoreChunks(w) <=> l < w.head)
    BY <1>5 DEF TextIs, hasMoreChunks
  <1>12. real = LinesOf(t)
    OBVIOUS
  <1> HIDE DEF t, real
  <1>13. CASE l < w.head
    <2>1. f[l] = "n" /\ Joined(w.chunks) = SubSeq(f, 1, l - 1)
      BY <1>5, <1>13 DEF TextIs
    <2>2. SubSeq(t, 1, l - 1) = SubSeq(f, 1, l - 1)
      <3>1. l - 1 \in Int /\ l - 1 <= w.head /\ w.head \in 0..Len(f)
        BY <1>3, <1>7, <1>8, <1>11, <1>13
      <3>2. SubSeq(SubSeq(f, 1, w.head), 0 + 1, l - 1) = SubSeq(f, 0 + 1, l - 1)
        BY <1>7, <3>1, PartOfPart
      <3>3. 0 + 1 = 1
        OBVIOUS
      <3> QED
        BY <3>2, <3>3, Zenon DEF t
    <2>3. t[l] = "n" /\ l \in 1..Len(t)
      BY <1>9, <1>11, <2>1
    <2>4. IsPrefix(LinesOf(SubSeq(t, 1, l - 1)), LinesOf(t))
      BY <1>10, <2>3, LinesPrefix
    <2> QED
      BY <1>6, <1>11, <1>12, <1>13, <2>1, <2>2, <2>4, Zenon
  <1>14. CASE l = w.head
    <2>1. Joined(w.chunks) = t
      BY <1>5, <1>14 DEF TextIs, t
    <2>2. shownLines(w) = real
      BY <1>6, <1>12, <2>1
    <2>3. IsPrefix(real, real)
      <3>1. Len(real) \in Nat /\ real = [k \in 1..Len(real) |-> real[k]]
        BY <1>10, <1>12, LinesAre
      <3> QED
        BY <3>1 DEF IsPrefix
    <2> QED
      BY <2>2, <2>3
  <1> QED
    BY <1>3, <1>11, <1>13, <1>14

\* Whatever is short has been asked for.
LEMMA FvLoads == FvInv => LoadsUntilTarget
  <1> SUFFICES ASSUME FvInv PROVE LoadsUntilTarget
    OBVIOUS
  <1>1. fvView = FvNow => fvView.loading = fvState.loading
    BY FvNowIs
  <1> QED
    BY <1>1 DEF FvInv, FvLoadInv, LoadsUntilTarget, Short

\* The lines shown of a large file are the file's, with their numbers, and loading
\* does not rest before the selected line is there (loadNextChunk and the effects in
\* FileViewerPage.tsx), for any files, sizes, links, clicks and bounds.
THEOREM FilesReadTrue == FvSpec => []FileViewSound
  <1>1. FvInit => FvInv
    BY FvInitInv
  <1>2. FvInv /\ [FvNext]_fvVars => FvInv'
    BY FvStepInv
  <1>3. FvInv => FileViewSound
    BY FvLinesTrue, FvLoads DEF FileViewSound
  <1> QED
    BY <1>1, <1>2, <1>3, PTL DEF FvSpec

-----------------------------------------------------------------------------
(* Types of the viewer of files. *)

\* What the invariant of the viewer leaves out of its types.
FvFields == {"path", "lines", "head", "whole", "chunks", "loaded", "loading"}
FvWholeTypes ==
    /\ fvWhole = [p \in FvPaths |-> fvWhole[p]]
    /\ \A p \in FvPaths : fvWhole[p] \in [got : 0..fvDisk[p], failed : BOOLEAN]
FvRestTypes == fvRanged \in BOOLEAN /\ fvMixed \in BOOLEAN /\ DOMAIN fvView = FvFields
FvTypes == FvInv /\ FvWholeTypes /\ FvRestTypes

\* What a render has is known by its fields.
LEMMA FvNowFields == DOMAIN FvNow = FvFields
  BY DEF FvNow, FvFields

\* A file is opened with nothing asked, read or selected.
LEMMA FvInitTypes == FvInit => FvTypes
  <1> SUFFICES ASSUME FvInit PROVE FvTypes
    OBVIOUS
  <1>1. FvInv
    BY FvInitInv
  <1>2. FvWholeTypes
    BY <1>1 DEF FvInit, FvWholeTypes, NoContent, FvInv, FvDiskInv
  <1>3. FvRestTypes
    BY FvNowFields DEF FvInit, FvRestTypes
  <1> QED
    BY <1>1, <1>2, <1>3 DEF FvTypes

\* What was got of a file lies in what is written of it, which only grows.
LEMMA FvWholeStep ==
  ASSUME FvTypes, [FvNext]_fvVars
  PROVE  FvWholeTypes'
  <1>0. \A p \in FvPaths : fvDisk[p] \in 0..Len(FvFiles[p]) /\ Len(FvFiles[p]) \in Nat
    BY FvAssumption DEF FvTypes, FvInv, FvDiskInv
  <1>1. CASE UNCHANGED <<fvDisk, fvWhole>>
    BY <1>1 DEF FvTypes, FvWholeTypes
  <1>2. ASSUME NEW p \in FvPaths, FvGrow(p) PROVE FvWholeTypes'
    <2>1. fvWhole' = fvWhole /\ \A q \in FvPaths : fvDisk'[q] \in Nat /\ fvDisk[q] <= fvDisk'[q]
      BY <1>0, <1>2 DEF FvGrow, FvTypes, FvInv, FvDiskInv
    <2> QED
      BY <1>0, <2>1 DEF FvTypes, FvWholeTypes
  <1>3. ASSUME NEW ok \in BOOLEAN, WholeAnswered(ok) PROVE FvWholeTypes'
    <2>1. UNCHANGED fvDisk /\ filePath \in FvPaths
      BY <1>3, PathsAre DEF WholeAnswered
    <2>2. PICK w : fvWhole' = [fvWhole EXCEPT ![filePath] = w]
                   /\ (\/ w = [got |-> fvDisk[filePath], failed |-> FALSE]
                       \/ w = [fvWhole[filePath] EXCEPT !.failed = TRUE])
      BY <1>3 DEF WholeAnswered
    <2>3. w \in [got : 0..fvDisk[filePath], failed : BOOLEAN]
      <3>1. fvWhole[filePath] \in [got : 0..fvDisk[filePath], failed : BOOLEAN]
        BY <2>1 DEF FvTypes, FvWholeTypes
      <3>2. fvDisk[filePath] \in 0..fvDisk[filePath]
        BY <1>0, <2>1
      <3>3. [fvWhole[filePath] EXCEPT !.failed = TRUE] \in [got : 0..fvDisk[filePath], failed : BOOLEAN]
        BY <3>1
      <3>4. [got |-> fvDisk[filePath], failed |-> FALSE] \in [got : 0..fvDisk[filePath], failed : BOOLEAN]
        BY <3>2
      <3> QED
        BY <2>2, <3>3, <3>4
    <2> QED
      BY <2>1, <2>2, <2>3 DEF FvTypes, FvWholeTypes
  <1> QED
    BY <1>1, <1>2, <1>3 DEF FvNext, fvVars, HeadAnswered, FvRender, SentinelVisible, RangeEnds,
         handleLineClick, refetch

\* A step leaves what the lines do not depend on of its types.
LEMMA FvRestStep ==
  ASSUME FvTypes, [FvNext]_fvVars
  PROVE  FvRestTypes'
  <1> USE DEF FvTypes, FvRestTypes
  <1>1. CASE UNCHANGED fvVars
    BY <1>1 DEF fvVars
  <1>2. ASSUME NEW p \in FvPaths, FvGrow(p) PROVE FvRestTypes'
    BY <1>2 DEF FvGrow
  <1>3. ASSUME NEW size, HeadAnswered(size) PROVE FvRestTypes'
    BY <1>3, Zenon DEF HeadAnswered
  <1>4. ASSUME NEW ok \in BOOLEAN, WholeAnswered(ok) PROVE FvRestTypes'
    BY <1>4 DEF WholeAnswered
  <1>5. CASE FvRender
    BY <1>5, FvNowFields, Zenon DEF FvRender
  <1>6. CASE SentinelVisible
    BY <1>6 DEF SentinelVisible
  <1>7. ASSUME NEW r \in fvRanges, RangeEnds(r) PROVE FvRestTypes'
    BY <1>7, Zenon DEF RangeEnds, RangeAnswered, RangeFailed, RangeRejected
  <1>8. ASSUME NEW l, NEW key, handleLineClick(l, key) PROVE FvRestTypes'
    BY <1>8 DEF handleLineClick
  <1>9. CASE refetch
    BY <1>9 DEF refetch
  <1> QED
    BY <1>1, <1>2, <1>3, <1>4, <1>5, <1>6, <1>7, <1>8, <1>9 DEF FvNext

\* The viewer of a file keeps its state of its types, whatever the server says
\* the file is, and whatever is asked again, clicked or scrolled (FilesPanel.tsx).
LEMMA FileTyped == FvSpec => []FvTypeOK
  <1>1. FvTypes => FvTypeOK
    <2> SUFFICES ASSUME FvTypes PROVE FvTypeOK
      OBVIOUS
    <2>1. DOMAIN fvDisk = FvPaths /\ \A p \in FvPaths : fvDisk[p] \in 0..Len(FvFiles[p])
      BY DEF FvTypes, FvInv, FvDiskInv
    <2>2. {fvRanged, fvUrl.base, fvState.loading, fvState.lost, fvMixed} \subseteq BOOLEAN
      BY DEF FvTypes, FvInv, FvUrlInv, FvStateInv, FvRestTypes
    <2>3. \A i \in DOMAIN fvUrl.lines : fvUrl.lines[i] \in Nat \X Nat
      BY DEF FvTypes, FvInv, FvUrlInv
    <2>4. \A p \in FvPaths : /\ fvHead[p] \in {None} \cup 0..fvDisk[p]
                             /\ fvWhole[p] \in [got : 0..fvDisk[p], failed : BOOLEAN]
      BY FvAssumption, <2>1 DEF FvTypes, FvInv, FvHeadInv, HeadIs, FvWholeTypes
    <2>5. fvState.loaded \in Nat /\ fvState.last \in Nat \cup {None}
      BY DEF FvTypes, FvInv, FvStateInv
    <2>6. DOMAIN fvView = DOMAIN FvNow
      BY FvNowFields DEF FvTypes, FvRestTypes
    <2>7. \A r \in fvRanges : r.path \in FvPaths /\ r.from \in Nat /\ r.size \in 1..FvChunk
      BY FvAssumption DEF FvTypes, FvInv, FvRangesInv, RangeIs
    <2> QED
      BY <2>1, <2>2, <2>3, <2>4, <2>5, <2>6, <2>7 DEF FvTypeOK
  <1>2. FvTypes /\ [FvNext]_fvVars => FvTypes'
    BY FvStepInv, FvWholeStep, FvRestStep DEF FvTypes
  <1> QED
    BY <1>1, <1>2, FvInitTypes, PTL DEF FvSpec
=============================================================================
