----------------------------- MODULE QueryEngine -----------------------------
(***************************************************************************)
(* How a parsed query is answered from a graph: execute_query.             *)
(*                                                                         *)
(* A clause may fail: its value is compared with a number, a kind or a     *)
(* date and is none.  It fails only when a node gets as far as the clause, *)
(* and then the query fails.                                               *)
(***************************************************************************)
EXTENDS GraphSearch, QueryLanguage

CONSTANTS
    Kind,       \* of a node
    Attribute,  \* of a node: for some names a set of texts, more than one if it is a list
    Seen,       \* of a node: its first and last second, 0 if there is none
    LabelRank,  \* the order of labels
    Day         \* the texts that are dates, with their seconds

Kinds == <<"target", "subdomain", "ip", "service", "technology", "episode">>

ASSUME EngineAssumption ==
    /\ DOMAIN Kind = AllNodes /\ DOMAIN Attribute = AllNodes /\ DOMAIN Seen = AllNodes
    /\ \A n \in AllNodes : Kind[n] \in ToSet(Kinds) /\ Seen[n] \in Nat \X Nat /\ LabelRank[Label[n]] \in Nat
    /\ \A m, n \in AllNodes : LabelRank[Label[m]] = LabelRank[Label[n]] => Label[m] = Label[n]

(***************************************************************************)
(* Comparing                                                               *)
(***************************************************************************)
Plurals == <<"targets", "subdomains", "ips", "services", "technologies", "episodes">>
Place(seq, x) == CHOOSE i \in DOMAIN seq : seq[i] = x
KindRank(n) == Place(Kinds, Kind[n])

\* The ranks of severity, criticality and state, from 1 on.
Severities == <<"info", "low", "medium", "high", "critical">>
Criticalities == <<"low", "medium", "high", "critical">>
States == <<"new", "recurrent", "persistent", "suppressed", "resolved">>
RankIn(order, text) == IF Len(text) = 1 /\ text[1] \in ToSet(order) THEN Place(order, text[1]) ELSE 0

RankOfValues(order, values) == IF \E v \in values : values = {v} THEN RankIn(order, CHOOSE v \in values : TRUE) ELSE 0

Within(part, text) ==
    \E p \in 1 .. Len(text) - Len(part) + 1 : SubSeq(text, p, p + Len(part) - 1) = part

\* compare_string: with a text or any item of a list.
CompareText(values, right, cmp) ==
    CASE cmp = <<"=">> -> right \in values
      [] cmp = <<"~">> -> \E v \in values : Within(right, v)
      [] OTHER -> FALSE

\* compare_number, and compare_datetime.
CompareNumber(l, r, cmp) ==
    \/ cmp = <<"=">> /\ l = r
    \/ cmp = <<">">> /\ l > r
    \/ cmp = <<">", "=">> /\ l >= r
    \/ cmp = <<"<">> /\ l < r
    \/ cmp = <<"<", "=">> /\ l <= r

\* compare_ranked_string: a list has no rank.
CompareRanked(values, right, cmp, order) ==
    IF cmp \in {<<"=">>, <<"~">>} THEN CompareText(values, right, cmp)
    ELSE \E v \in values :
            /\ values = {v}
            /\ RankIn(order, v) # 0
            /\ RankIn(order, right) # 0
            /\ CompareNumber(RankIn(order, v), RankIn(order, right), cmp)

CompareTruth(l, r, cmp) == cmp = <<"=">> /\ (l = r)
IsTrue(text) == text = <<"true">>

(***************************************************************************)
(* What a clause looks at                                                  *)
(***************************************************************************)
Has(n, name) == name \in DOMAIN Attribute[n]
Values(n, name) == IF Has(n, name) THEN Attribute[n][name] ELSE {<<>>}
ValuesOr(n, name, other) == IF Has(n, name) THEN Values(n, name) ELSE Values(n, other)
NumberOf(values) == IF \E v \in values : values = {v} /\ v \in DOMAIN Number
                    THEN Number[CHOOSE v \in values : TRUE] ELSE 0

NeighborsOf(g, n) == {m \in g.nodes : \E e \in g.edges : {e.from, e.to} = {m, n}}
Degree(g, n) == Cardinality(EdgesAt(g, n))
Technologies(g, n) ==
    {Label[t] : t \in {u \in g.nodes : [from |-> n, to |-> u, kind |-> "fingerprints_as"] \in g.edges}}
InEpisode(g, n) ==
    \E e \in EdgesAt(g, n) :
        e.kind = "participates_in" /\ \E m \in {e.from, e.to} \cap g.nodes : Kind[m] = "episode"

TextFields == [source |-> "source", title |-> "title", provider |-> "provider", scheme |-> "scheme",
               episode_kind |-> "kind", target |-> "target"]
NumericFields == {"degree", "score", "resource_count"}
DateFields == {"first_seen", "last_seen"}

\* matches_technology_filter.
MatchesTechnology(g, n, c) ==
    CASE Kind[n] = "service" -> \E t \in Technologies(g, n) : CompareText({t}, c.value, c.cmp)
      [] Kind[n] = "technology" -> CompareText({Label[n]}, c.value, c.cmp)
      [] OTHER -> FALSE

\* parse_usize, parse_node_kind_loose and parse_datetime where matches_clause uses
\* them: a node without a date never gets as far as the value.
ClauseFails(n, c) ==
    \/ c.field \in NumericFields /\ c.value \notin DOMAIN Number
    \/ c.field = "kind" /\ \A k \in DOMAIN Kinds : c.value \notin {<<Kinds[k]>>, <<Plurals[k]>>}
    \/ c.field = "first_seen" /\ Seen[n][1] # 0 /\ c.value \notin DOMAIN Day
    \/ c.field = "last_seen" /\ Seen[n][2] # 0 /\ c.value \notin DOMAIN Day

\* matches_clause, of a clause that does not fail.
ClauseHolds(g, n, c) ==
    CASE c.field = "kind" ->
            CompareText({<<Kind[n]>>},
                <<Kinds[CHOOSE k \in DOMAIN Kinds : c.value \in {<<Kinds[k]>>, <<Plurals[k]>>}]>>, c.cmp)
      [] c.field = "label" -> CompareText({Label[n]}, c.value, c.cmp)
      [] c.field = "technology" -> MatchesTechnology(g, n, c)
      [] c.field = "degree" -> CompareNumber(Degree(g, n), Number[c.value], c.cmp)
      [] c.field = "severity" ->
            CompareRanked(ValuesOr(n, "severity", "highest_severity"), c.value, c.cmp, Severities)
      [] c.field = "criticality" ->
            CompareRanked(ValuesOr(n, "criticality", "highest_criticality"), c.value, c.cmp, Criticalities)
      [] c.field = "state" -> CompareRanked(ValuesOr(n, "state", "states"), c.value, c.cmp, States)
      [] c.field = "first_seen" -> Seen[n][1] # 0 /\ CompareNumber(Seen[n][1], Day[c.value], c.cmp)
      [] c.field = "last_seen" -> Seen[n][2] # 0 /\ CompareNumber(Seen[n][2], Day[c.value], c.cmp)
      [] c.field \in DOMAIN TextFields -> CompareText(Values(n, TextFields[c.field]), c.value, c.cmp)
      [] c.field = "status" ->
            IF c.value \in DOMAIN Number
            THEN CompareNumber(NumberOf(Values(n, "status")), Number[c.value], c.cmp)
            ELSE CompareText(Values(n, "status"), c.value, c.cmp)
      [] c.field = "tls_enabled" ->
            CompareTruth(\E v \in Values(n, "tls_enabled") : IsTrue(v), IsTrue(c.value), c.cmp)
      [] c.field = "score" -> CompareNumber(NumberOf(ValuesOr(n, "score", "total_score")), Number[c.value], c.cmp)
      [] c.field = "resource_count" -> CompareNumber(NumberOf(Values(n, "resource_count")), Number[c.value], c.cmp)
      [] c.field = "neighbor_kind" -> \E m \in NeighborsOf(g, n) : CompareText({<<Kind[m]>>}, c.value, c.cmp)
      [] c.field = "edge_kind" -> \E e \in EdgesAt(g, n) : CompareText({<<e.kind>>}, c.value, c.cmp)
      [] c.field = "connected_to" -> \E m \in NeighborsOf(g, n) : CompareText({Label[m]}, c.value, c.cmp)
      [] c.field = "in_episode" -> CompareTruth(InEpisode(g, n), IsTrue(c.value), c.cmp)

\* "yes", "no" or "fails".  Mutant: what cannot be compared does not match.
EvalClauseQuietly(g, n, c) == IF ~ClauseFails(n, c) /\ ClauseHolds(g, n, c) THEN "yes" ELSE "no"
EvalClause(g, n, c) == IF ClauseFails(n, c) THEN "fails" ELSE IF ClauseHolds(g, n, c) THEN "yes" ELSE "no"

\* The values of the items of the k-th node.
Items(values, expr, k) == [i \in DOMAIN expr[k].back |-> values[k - expr[k].back[i]]]

\* matches_expr at a node of the expression: AND and OR stop at the first item that
\* decides, or fails.
Until(verdict, items) ==
    LET others == {i \in DOMAIN items : items[i] # verdict}
    IN  IF others = {} THEN verdict ELSE items[FirstOf(others)]
Verdict(g, n, node, items) ==
    CASE node.op = "clause" -> EvalClause(g, n, node)
      [] node.op = "and" -> Until("yes", items)
      [] node.op = "or" -> Until("no", items)
      [] node.op = "not" -> [yes |-> "no", no |-> "yes", fails |-> "fails"][items[1]]
Verdicts(g, n, expr) ==
    LET Of[k \in DOMAIN expr] == Verdict(g, n, expr[k], Items(Of, expr, k))
    IN  Of
Eval(g, n, expr) == IF expr = NoExpr THEN "yes" ELSE Verdicts(g, n, expr)[Len(expr)]

\* collect_expr_reasons goes through all items of an AND or an OR.
ExplainFails(g, n, expr) ==
    LET Of[k \in DOMAIN expr] ==
            IF expr[k].op \in {"and", "or"} THEN \E i \in DOMAIN expr[k].back : Items(Of, expr, k)[i]
            ELSE Verdicts(g, n, expr)[k] = "fails"
    IN  expr # NoExpr /\ Of[Len(expr)]

\* matches_preset.
MatchesPreset(g, n, preset) ==
    CASE preset = None -> TRUE
      [] preset = "high-degree" -> Degree(g, n) >= 3
      [] OTHER -> Kind[n] = Kinds[Place(Plurals, preset)]

(***************************************************************************)
(* Answers                                                                 *)
(***************************************************************************)
\* sort_matches: by what ORDER BY names, then by degree, kind, label and id.
SortKey(g, n, field) ==
    CASE field = "degree" -> Degree(g, n)
      [] field = "label" -> LabelRank[Label[n]]
      [] field = "kind" -> KindRank(n)
      [] field = "first_seen" -> Seen[n][1]
      [] field = "last_seen" -> Seen[n][2]
      [] field = "score" -> NumberOf(ValuesOr(n, "score", "total_score"))
      [] field = "severity" -> RankOfValues(Severities, ValuesOr(n, "severity", "highest_severity"))
      [] field = "criticality" -> RankOfValues(Criticalities, ValuesOr(n, "criticality", "highest_criticality"))
      [] OTHER -> 0

SortKeys(g, n, sort) ==
    LET key == SortKey(g, n, sort[1])
    IN  <<IF sort[2] = "asc" THEN key ELSE 0 - key, 0 - Degree(g, n), KindRank(n), LabelRank[Label[n]], NodeRank[n]>>

\* The order of two matches, and the matches of a set in it.
Before(k, l) == \E i \in DOMAIN k : k[i] < l[i] /\ \A j \in 1 .. i - 1 : k[j] = l[j]
Sorted(g, ids, sort) ==
    LET Earlier(n) == {m \in ids : Before(SortKeys(g, m, sort), SortKeys(g, n, sort))}
    IN  [k \in 1 .. Cardinality(ids) |-> CHOOSE n \in ids : Cardinality(Earlier(n)) = k - 1]

\* offset.min(total), skip and take.  Mutant: a page is cut before the matches are sorted.
Cut(matches, r) ==
    LET offset == IF r.offset > Len(matches) THEN Len(matches) ELSE r.offset
    IN  SubSeq(matches, offset + 1, IF offset + r.limit > Len(matches) THEN Len(matches) ELSE offset + r.limit)
PageCutFirst(g, ids, r) == Sorted(g, ToSet(Cut(InOrder(ids), r)), r.sort)
Page(g, ids, r) == Cut(Sorted(g, ids, r.sort), r)

Failure == [fails |-> TRUE, matches |-> <<>>, total |-> 0]
Found(matches, total) == [fails |-> FALSE, matches |-> matches, total |-> total]
FoundPath(path) == Found(path, Len(path))
FoundPage(g, r, ids) == Found(Page(g, ids, r), Cardinality(ids))

Reached(g, r, seeds) ==
    IF r.mode = "neighbors" THEN NeighborsQuery(g, seeds, r.depth) ELSE FilterQuery(g, seeds, r.expand)

\* The nodes that preset and expression let through; with EXPLAIN a filter also
\* looks for the reasons of each.
Seeds(g, r) == {n \in g.nodes : MatchesPreset(g, n, r.preset) /\ Eval(g, n, r.expr) = "yes"}
SeedsFail(g, r) ==
    \E n \in {m \in g.nodes : MatchesPreset(g, m, r.preset)} :
        \/ Eval(g, n, r.expr) = "fails"
        \/ r.mode = "filter" /\ r.explain /\ Eval(g, n, r.expr) = "yes" /\ ExplainFails(g, n, r.expr)

\* resolve_node_id: by the whole label, else by a part of it; the first of several.
\* Nobody types the hash that is the id of a node.
ResolveText(g, text) ==
    LET exact == {n \in g.nodes : Label[n] = text}
        named == IF exact # {} THEN exact ELSE {n \in g.nodes : Within(text, Label[n])}
    IN  {n \in named : \A m \in named : NodeRank[n] <= NodeRank[m]}

\* execute_query.
Answer(g, r) ==
    IF r.mode = "path"
    THEN LET from == ResolveText(g, r.path[1])
             to == ResolveText(g, r.path[2])
         IN  IF from = {} \/ to = {} THEN Failure
             ELSE FoundPath(PathQuery(g, CHOOSE n \in from : TRUE, CHOOSE n \in to : TRUE))
    ELSE IF SeedsFail(g, r) THEN Failure
    ELSE FoundPage(g, r, Reached(g, r, InOrder(Seeds(g, r))))
=============================================================================
