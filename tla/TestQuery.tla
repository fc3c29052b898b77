----------------------------- MODULE TestQuery -----------------------------
(***************************************************************************)
(* The search box of the test lists: how a test name is taken apart, which *)
(* names a query matches, and how a chip of the facet panel edits it.      *)
(*                                                                         *)
(* A word is a sequence of symbols, a value a sequence of words (a free    *)
(* label may hold blanks, every other value is one word). A query is the   *)
(* sequence of its whitespace-separated terms.                             *)
(***************************************************************************)
EXTENDS Lists, Functions

CONSTANTS
    Raw,        \* name -> [eest, path, file, fn, params, gas], or just text
    Amounts,    \* values like 90M
    Numbers,    \* values like 90
    Noise       \* the value of the marker benchmark_test

Names == DOMAIN Raw

\* The parts of a name by dimension. Of repeated keys the last one counts; the
\* gas after the bracket is only used when there is none inside.
Parts(n) ==
    LET raw == Raw[n]
        ps == raw.params
        Gas(i) == \/ ps[i].key = "benchmark" /\ ps[i].val \in Amounts \cup Numbers
                  \/ ps[i].key = "value" /\ ps[i].val \in Amounts
        Marker(i) == ps[i].key = "benchmark" /\ ps[i].val = Noise
        Plain(i) == /\ ps[i].key \notin {"label", "fork", "opcode"}
                    /\ ~Gas(i) /\ ~Marker(i)
        Vals(I) == {ps[i].val : i \in I}
        Final(I) == IF I = {} THEN {} ELSE {ps[Max(I)].val}
        Having(k) == {i \in DOMAIN ps : ps[i].key = k}
        inside == {i \in DOMAIN ps : Gas(i)}
        Some(v) == IF v = None THEN {} ELSE {v}
    IN IF ~raw.eest THEN <<>>
       ELSE [d \in {ps[i].key : i \in {j \in DOMAIN ps : Plain(j)}}
                |-> Vals({i \in Having(d) : Plain(i)})]
            @@ [path |-> Some(raw.path), file |-> {raw.file}, fn |-> {raw.fn},
                fork |-> Final(Having("fork")),
                opcode |-> Final(Having("opcode")),
                benchmark |-> IF inside = {} THEN Some(raw.gas)
                              ELSE Final(inside),
                label |-> Vals(Having("label"))]

PartsOf == [n \in Names |-> Parts(n)]

NoDim == ""      \* of a term of free text
\* A value is a sequence of words, and no parameter is called by what a query
\* takes for another name of a dimension.
NamesAssumption ==
    \A n \in Names : \A d \in DOMAIN PartsOf[n] :
        /\ d \notin {NoDim, "gas", "function"}
        /\ \A v \in PartsOf[n][d] : v \in Seq(ToSet(v))
ASSUME TestNamesAssumption == NamesAssumption

Within(w, v) == \E i \in DOMAIN v : w \in SubSeqs(v[i])

\* A term, typed (substring) or from a chip (exact); without dimension it is
\* free text.
Term(dim, word, exact) == [dim |-> dim, word |-> word, exact |-> exact]

Canonical(key) ==
    CASE key = "gas" -> "benchmark" [] key = "function" -> "fn" [] OTHER -> key

\* Mutant of MatchesField: a chip's term matches like a typed one.
MatchesFieldLoosely(n, term) ==
    LET d == Canonical(term.dim)
    IN d \in DOMAIN PartsOf[n] /\ \E v \in PartsOf[n][d] : Within(term.word, v)

MatchesField(n, term) ==
    LET d == Canonical(term.dim)
    IN /\ d \in DOMAIN PartsOf[n]
       /\ \E v \in PartsOf[n][d] :
            IF term.exact THEN v = <<term.word>> ELSE Within(term.word, v)

\* Free text is looked for in the raw name, as the words of its values.
MatchesText(n, word) ==
    LET raw == Raw[n]
    IN \E v \in {raw.path, raw.file, raw.fn, raw.gas}
                  \cup {raw.params[i].val : i \in DOMAIN raw.params} :
         v # None /\ Within(word, v)

\* compileQuery: the terms are combined with AND.
NameMatches(n, query) ==
    \A i \in DOMAIN query :
        IF query[i].dim = NoDim THEN MatchesText(n, query[i].word)
        ELSE MatchesField(n, query[i])

Matching(ns, query) == {n \in ns : NameMatches(n, query)}

WithoutDimension(query, d) ==
    Among(query, {t \in ToSet(query) : t.dim = NoDim \/ Canonical(t.dim) # d})

\* The key a chip of a dimension emits.
EmitKey(d) == IF d = "benchmark" THEN "gas" ELSE d

\* The terms that key=value is split into: blanks in the value end the term.
ChipTerms(d, v) ==
    <<Term(EmitKey(d), v[1], TRUE)>>
      \o [i \in 1..(Len(v) - 1) |-> Term(NoDim, v[i + 1], FALSE)]

\* The query is looked through for a term equal to all of key=value.
HasChip(query, d, v) == Len(v) = 1 /\ Contains(query, ChipTerms(d, v)[1])

ToggleChip(query, d, v) ==
    IF HasChip(query, d, v) THEN RemoveFirst(query, ChipTerms(d, v)[1])
    ELSE query \o ChipTerms(d, v)

-----------------------------------------------------------------------------
(* FacetPanel: for every dimension of the names its values, each with the    *)
(* number of names that match the query without that dimension.              *)

Dims(ns) == UNION {{d \in DOMAIN PartsOf[n] \ {"path"} : PartsOf[n][d] # {}} : n \in ns}

FacetCount(ns, query, d, v) ==
    Quantify(Matching(ns, WithoutDimension(query, d)),
             LAMBDA n : d \in DOMAIN PartsOf[n] /\ v \in PartsOf[n][d])

\* The values of a dimension: those counted, and those the query names, which
\* must stay removable.
FacetValues(ns, query, d) ==
    {v \in UNION {PartsOf[n][d] : n \in {m \in ns : d \in DOMAIN PartsOf[m]}} :
        FacetCount(ns, query, d, v) > 0}
    \cup {<<query[i].word>> : i \in {j \in DOMAIN query : query[j].dim \in {d, EmitKey(d)}}}

FacetActive(query, d, v) == HasChip(query, d, v)

\* The dimensions shown before "show more": two of them, and the active ones.
FacetPreview(ns, query) ==
    {d \in Dims(ns) : \/ d \in {"file", "benchmark"}
                      \/ \E v \in FacetValues(ns, query, d) : FacetActive(query, d, v)}
FacetHidden(ns, query) == Dims(ns) \ FacetPreview(ns, query)
=============================================================================
