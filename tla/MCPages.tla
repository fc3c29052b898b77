------------------------------ MODULE MCPages ------------------------------
(* Small pages: names of tests, runs, suites and results. *)
EXTENDS Pages

\* Names of tests, as in EEST: words of numbered characters.
Zero == <<<<0>>>>
Ten == <<<<1, 0>>>>
Param(k, v) == [key |-> k, val |-> v]
Name(file, params, gas) ==
    [eest |-> TRUE, path |-> None, file |-> <<<<file>>>>, fn |-> <<<<file, 9>>>>,
     params |-> params, gas |-> gas]
Mc90M == <<<<9, 0, 7>>>>
McAmounts == {Mc90M}
McNumbers == {Ten}
McNoise == <<<<8>>>>
McRaw ==
    [a |-> Name(2, <<Param("opcode", <<<<5>>>>), Param("benchmark", Mc90M)>>, None),
     b |-> Name(2, <<Param("opcode", <<<<6>>>>), Param("value", Mc90M),
                     Param("size", Ten)>>, None),
     c |-> Name(3, <<Param("size", Zero), Param("label", <<<<0>>, <<4>>>>)>>, Mc90M),
     d |-> Name(3, <<Param("size", Ten), Param("benchmark", McNoise)>>, None),
     e |-> Name(3, <<>>, None)]

-----------------------------------------------------------------------------
(* A run's page. *)

Agg(time, gas, gtime, fail, payloads, longest) ==
    [time |-> time, gas |-> gas, gtime |-> gtime, ok |-> 1, fail |-> fail,
     payloads |-> payloads, longest |-> longest]
\* a: two payloads, together above the limit; b: slow to the nanosecond at the
\* limit and failed in its set-up; c: no step was aggregated; d: no gas.
McSteps ==
    [a |-> [setup |-> Agg(1, 0, 0, 0, 0, 0), test |-> Agg(6, 6, 5, 0, 2, 3)],
     b |-> [setup |-> Agg(2, 1, 1, 1, 1, 1), test |-> Agg(5, 2, 4, 0, 1, 4)],
     c |-> [t \in {} |-> 0],
     d |-> [test |-> Agg(3, 0, 3, 1, 0, 0), cleanup |-> Agg(9, 9, 6, 0, 1, 6)]]
McSuiteOrder == <<"b", "a", "e", "d">>
McGenesis == [a |-> "g1", b |-> "g1", d |-> "g2"]
McTyped == {Term("", <<0>>, FALSE), Term("size", <<0>>, FALSE),
            Term("function", <<9>>, FALSE)}

Peer(i, l) == [suite |-> "s", client |-> "c", instance |-> i, labels |-> l]
McPeerRows == [r1 |-> Peer("i", "l"), r2 |-> Peer("i", "m"), r3 |-> Peer("j", "m"),
               r4 |-> Peer("j", "m")]
McPeerSeq == <<"r4", "r3", "r2", "r1">>

-----------------------------------------------------------------------------
(* The list of runs. *)

ListRow(c, i, r, s, st, tot, p, l, start, span, steps) ==
    [client |-> c, image |-> i, strategy |-> r, suite |-> s, status |-> st, total |-> tot,
     passed |-> p, labels |-> l, start |-> start, span |-> span, steps |-> steps]
Timed(gas, time) == [gas |-> gas, time |-> time]
McRunRows ==
    [u1 |-> ListRow(1, 1, 1, 1, "completed", 2, 2, [team |-> 1], 1, 5,
                    [test |-> Timed(4, 2), setup |-> Timed(1, 4)]),
     u2 |-> ListRow(2, 1, 2, 2, "timeout", 2, 1, [k \in {} |-> 0], 2, 3, [test |-> Timed(4, 4)]),
     u3 |-> ListRow(1, 2, 1, 1, "completed", 3, 1, [team |-> 2], 3, 4, [test |-> Timed(0, 1)])]
Reported(p, f) == [passed |-> p, failed |-> f]
McLiveRows == [u1 |-> Reported(1, 0), u2 |-> Reported(0, 1), u3 |-> Reported(1, 1)]
McRunSeq == <<"u3", "u2", "u1">>
McSuiteLabels == <<[net |-> 1]>>

Entry(suite, at) == [suite |-> suite, at |-> at]
McSpIndexes ==
    <<<<Entry(2, 28), Entry(None, 27), Entry(1, 25), Entry(3, 2), Entry(2, 1)>>,
      <<Entry(3, 29), Entry(2, 28), Entry(3, 2), Entry(2, 1)>>>>
McSpLabels == <<[context |-> 1, net |-> 1], [net |-> 2], [context |-> 2]>>

-----------------------------------------------------------------------------
(* A suite: the newest run has the highest start. *)

SRun(client, inst, status, passed, labels, start, gas) ==
    [client |-> client, image |-> client, instance |-> inst, status |-> status,
     total |-> 2, passed |-> passed, failed |-> 0, labels |-> labels, start |-> start,
     span |-> 2, steps |-> [test |-> Timed(gas, 2)], queued |-> FALSE]
\* s5: a run whose tests have all passed and whose end is not reported yet.
McSuiteRows ==
    [s1 |-> SRun("geth", "i1", "completed", 2, [team |-> "x", net |-> "m"], 1, 8),
     s2 |-> SRun("reth", "i2", None, 2, [team |-> "x"], 2, 6),
     s3 |-> SRun("geth", "i2", "cancelled", 1, [team |-> "y", net |-> "m"], 3, 4),
     s4 |-> [SRun("reth", "i1", "completed", 2, [team |-> "y", net |-> "h"], 4, 2)
               EXCEPT !.queued = TRUE],
     s5 |-> [SRun("geth", "i1", "running", 2, [team |-> "x", net |-> "m"], 5, 0)
               EXCEPT !.steps = <<>>, !.span = 0]]
McSuiteIndexes == <<<<"s5", "s4", "s1", "s2", "s3">>, <<"s1", "s4">>>>
McPreRun == <<"d">>
Sizes(full, bal, json) == [ssz_full |-> full, ssz_bal |-> bal, json_full |-> json]
STest(name, ops, sizes, txs) == [name |-> name, ops |-> ops, sizes |-> sizes, txs |-> txs]
McSuiteTests ==
    <<STest("a", [PUSH1 |-> 2, ADD |-> 1], Sizes(4, 1, 8), 2),
      STest("b", [PUSH2 |-> 1, FOO |-> 3], None, 3),
      STest("e", <<>>, Sizes(6, 3, 7), None)>>
TRun(client, id, start, gas) ==
    [client |-> client, id |-> id, start |-> start, steps |-> [test |-> Timed(gas, 2)]]
McTestRuns ==
    [a |-> <<TRun("geth", "s1", 1, 8), TRun("geth", "s3", 3, 4), TRun("reth", "s2", 2, 6),
             TRun("geth", "s5", 5, 2)>>,
     e |-> <<TRun("reth", "s2", 2, 10), TRun("reth", "s4", 4, 0)>>]
Part(name, ops) == [name |-> name, ops |-> ops]
McOpCategories ==
    <<[name |-> "Arithmetic", parts |-> <<Part(None, <<"ADD", "MUL">>)>>],
      [name |-> "Stack", parts |-> <<Part("Pop", <<"POP">>), Part("Push", <<"PUSH1", "PUSH2">>)>>]>>
McSuiteTogether ==
    {{"tab", "filesPage", "fileSize", "detail"}, {"tab", "heatPage", "heatSize", "q"},
     {"tab", "heatPage", "heatSort", "heatDir"}, {"tab", "opSort", "opDir", "stacks"},
     {"tab", "txOrder"}, {"tab", "psort", "testView"}, {"tab", "psOrder", "psEncoding"},
     {"tab", "stat", "threshold"}, {"tab", "detail", "opcodeSort"},
     {"tab", "clientStat", "perClient"}, {"groupBy", "steps"}, {"page", "size"},
     {"sortBy", "dir"}, {"heatColor", "metric"}, {"passingOnly", "clients"}}
McSuiteQueries == {<<>>, <<Term("", <<4>>, FALSE)>>, <<Term("opcode", <<5>>, FALSE)>>}

-----------------------------------------------------------------------------
(* Groups of the suite's runs. s5 has no result.json yet. *)

McClients == <<"geth", "reth">>
McCgRows ==
    [r \in DOMAIN McSuiteRows |->
       [suite |-> "x", client |-> McSuiteRows[r].client, labels |-> McSuiteRows[r].labels,
        start |-> McSuiteRows[r].start]]
McCgIndexes == <<<<"s5", "s4", "s1", "s3">>, <<"s4", "s1">>>>
St(g, t, f) == [gas |-> g, time |-> t, fail |-> f]
McCgResults ==
    [s1 |-> [a |-> [test |-> St(4, 2, 0)], b |-> [test |-> St(6, 2, 1)]],
     s2 |-> [a |-> [test |-> St(3, 3, 0)], e |-> [test |-> St(6, 3, 1)]],
     s3 |-> [a |-> [test |-> St(5, 5, 0)], b |-> [test |-> St(6, 4, 1)]],
     s4 |-> [a |-> [test |-> St(4, 1, 0)], b |-> [test |-> St(8, 4, 0)]],
     s5 |-> None]
McCgOrder == <<"a", "b", "e">>
McCgQueries == {<<>>, <<Term("", <<3>>, FALSE)>>, <<Term("file", <<3>>, TRUE)>>}
McCgTogether ==
    {{"suite", "groups", k} :
       k \in {"agg", "baseline", "tableBase", "chart", "filter", "buckets", "diff", "metric",
              "slow", "modal"}}
    \cup {{"suite", "groups", "sample"}, {"suite", "groups", "filter", "regex"},
          {"suite", "groups", "sort", "dir", "tableBase"},
          {"suite", "groups", "color", "baseline", "metric"}}
McCompared == {<<Group("geth", NoMeta, None), Group("reth", NoMeta, None)>>}

-----------------------------------------------------------------------------
(* The query builder: two tables, of which the second lacks a column. *)

McQbGroups == [runs |-> <<<<"id">>, <<"client">>>>, suites |-> <<<<"id">>>>]
McQb(t, filters, orders, columns) ==
    [endpoint |-> t, filters |-> filters, orders |-> orders, limit |-> 1, offset |-> 0,
     columns |-> columns, count |-> FALSE]
McQbOrder == <<[column |-> "id", dir |-> "desc"]>>
McQbPresets ==
    <<McQb("runs", <<[column |-> "client", operator |-> "eq", value |-> "geth"]>>,
           <<>>, <<>>),
      McQb("suites", <<>>, McQbOrder, <<>>)>>
McQbTogether ==
    {{"endpoint", "offset"}, {"endpoint", "orders"}, {"filters"}, {"offset", "count"},
     {"limit", "offset"}, {"endpoint", "columns"}}
McQbAsked == {{"endpoint"}, {"offset"}, {"orders"}}
McQbNumbers == {-1, 0, 1, 3}

-----------------------------------------------------------------------------
(* A log of a run that is written on, and a file of its suite with a wide *)
(* character.                                                             *)

McFvFiles ==
    [run |-> <<"x", "n", "x", "n", "x", "x", "n", "x">>,
     suite |-> <<"h", "t", "n", "x", "n", "x">>]
McFvSizes == [run |-> 7, suite |-> 6]
McFvClicks == <<3, 1>>
=============================================================================
