---------------------------- MODULE QueryLanguage ----------------------------
(***************************************************************************)
(* The query language of atlas-query and its parser.                       *)
(*                                                                         *)
(* A query is a sequence of tokens.  The text of a token is a sequence of  *)
(* names and operator characters: degree>=2 is one word of four.  Case is  *)
(* left out, and so is the scanning of characters.                         *)
(***************************************************************************)
EXTENDS Integers, SequencesExt, TLC

CONSTANT DefaultLimit

ASSUME LimitAssumption == DefaultLimit \in Nat

Tokens == [kind : {"word", "string", "paren"}, text : Seq(STRING)]
Word(text) == [kind |-> "word", text |-> text]
Quoted(text) == [kind |-> "string", text |-> text]
Paren(sign) == [kind |-> "paren", text |-> <<sign>>]
Open == Paren("(")
Close == Paren(")")

IsAt(ts, i, token) == i <= Len(ts) /\ ts[i] = token
Keyword(ts, i, name) == IsAt(ts, i, Word(<<name>>))

(***************************************************************************)
(* The tables                                                              *)
(***************************************************************************)
\* parse_preset.
Presets ==
    LET Named(names, preset) == [n \in names |-> preset]
    IN  Named({"services", "service"}, "services") @@ Named({"technologies", "technology", "tech"}, "technologies")
        @@ Named({"episodes", "episode"}, "episodes") @@ Named({"subdomains", "subdomain"}, "subdomains")
        @@ Named({"targets", "target"}, "targets") @@ Named({"ips", "ip"}, "ips")
        @@ Named({"high-degree", "high_degree", "hubs", "hub"}, "high-degree")

\* parse_field and parse_sort_field, other spellings of the same names left out.
Fields == {"kind", "label", "technology", "degree", "episode_kind", "severity", "criticality", "state",
           "first_seen", "last_seen", "source", "target", "title", "provider", "status", "scheme",
           "tls_enabled", "score", "resource_count", "neighbor_kind", "edge_kind", "connected_to", "in_episode"}
SortFields == {"degree", "label", "kind", "first_seen", "last_seen", "score", "severity", "criticality"}

\* The operators in the order in which a word is searched for them.
Operators == <<<<"<", "=">>, <<">", "=">>, <<"~">>, <<"=">>, <<">">>, <<"<">>>>
Comparators == ToSet(Operators)

DirectiveWords == {<<"ORDER">>, <<"LIMIT">>, <<"OFFSET">>, <<"EXPLAIN">>, <<"EXPAND">>, <<"DEPTH">>}
Settings == [LIMIT |-> "limit", OFFSET |-> "offset", EXPAND |-> "expand", DEPTH |-> "depth"]

\* The texts that are numbers, as far as they are used.
Digits == <<"0", "1", "2", "3">>
Number == [text \in {<<d>> : d \in ToSet(Digits)} |-> (CHOOSE i \in DOMAIN Digits : text = <<Digits[i]>>) - 1]

\* normalize_boolean_literal: of the value of any field.
Literal(text) ==
    IF text \in {<<"true">>, <<"yes">>, <<"1">>} THEN <<"true">>
    ELSE IF text \in {<<"false">>, <<"no">>, <<"0">>} THEN <<"false">> ELSE text

\* An expression is a sequence of nodes, each behind its items; a node knows how
\* far back each of its items ends, and the last node is the root.
ClauseOf(field, cmp, value) ==
    <<[op |-> "clause", back |-> <<>>, field |-> Head(field), cmp |-> cmp, value |-> Literal(value)]>>
NotOf(expr) == Append(expr, [op |-> "not", back |-> <<1>>])

\* Items in a row, to be joined if they are several.
One(expr) == [nodes |-> expr, back |-> <<1>>]
OneMore(expr, list) == [nodes |-> expr \o list.nodes, back |-> <<Len(list.nodes) + 1>> \o list.back]
Several(op, list) == IF Len(list.back) = 1 THEN list.nodes ELSE Append(list.nodes, [op |-> op, back |-> list.back])

None == "none"
NoExpr == <<>>
Blank == [mode |-> "filter", preset |-> None, expr |-> NoExpr, limit |-> DefaultLimit, offset |-> 0,
          sort |-> <<None, None>>, explain |-> FALSE, expand |-> 0, depth |-> 1, path |-> <<>>]

(***************************************************************************)
(* The parser.  A function that reads something at i returns it with the   *)
(* place behind it, or fails there, or at the end of the tokens.           *)
(***************************************************************************)
Got(what, next) == [what |-> what, next |-> next]
Ended == Got(NoExpr, 0)
Wrong == Got(NoExpr, -1)
Failed(p) == p.next <= 0
Refused(p) == p.next < 0
Then(p, Rest(_)) == IF Failed(p) THEN p ELSE Rest(p)

\* next_stringish and next_word_value.
Text(ts, i) == IF i > Len(ts) THEN Ended ELSE IF ts[i].kind = "paren" THEN Wrong ELSE Got(ts[i].text, i + 1)

FirstOf(set) == CHOOSE k \in set : \A l \in set : k <= l
Occurrences(text, op) == {p \in 1 .. Len(text) - Len(op) + 1 : SubSeq(text, p, p + Len(op) - 1) = op}
SplitBy(text, op) ==
    LET p == FirstOf(Occurrences(text, op))
    IN  [field |-> SubSeq(text, 1, p - 1), cmp |-> op, value |-> SubSeq(text, p + Len(op), Len(text))]

\* split_inline_clause, and split_inline_clause_without_rhs: by the first operator
\* in their order that is in the word, with or without something behind it.
Splits(text, bare) ==
    {k \in DOMAIN Operators :
        /\ Occurrences(text, Operators[k]) # {}
        /\ LET s == SplitBy(text, Operators[k]) IN s.field # <<>> /\ (s.value = <<>>) = bare}
Split(text, bare) == SplitBy(text, Operators[FirstOf(Splits(text, bare))])

IsField(text) == Len(text) = 1 /\ text[1] \in Fields

\* parse_clause.
MakeClause(field, cmp, value, next) ==
    IF IsField(field) /\ cmp \in Comparators THEN Got(ClauseOf(field, cmp, value), next) ELSE Wrong
ParseClause(ts, i) ==
    LET first == ts[i].text
        Whole(s) == MakeClause(s.field, s.cmp, s.value, i + 1)
        WithNext(s) == Then(Text(ts, i + 1), LAMBDA v : MakeClause(s.field, s.cmp, v.what, v.next))
    IN  IF Splits(first, FALSE) # {} THEN Whole(Split(first, FALSE))
        ELSE IF Splits(first, TRUE) # {} THEN WithNext(Split(first, TRUE))
        ELSE IF ~IsField(first) THEN Wrong
        ELSE Then(Text(ts, i + 1), LAMBDA o :
                Then(Text(ts, i + 2), LAMBDA v : MakeClause(first, o.what, v.what, v.next)))

\* should_end_expression.  Mutant: directives do not end one.
EndsExpressionAtParen(ts, i) == i > Len(ts) \/ ts[i] = Close
EndsExpression(ts, i) ==
    i > Len(ts) \/ ts[i] = Close \/ (ts[i].kind = "word" /\ ts[i].text \in DirectiveWords)

Closed(ts, p) ==
    IF p.next > Len(ts) THEN Ended
    ELSE IF ts[p.next] = Close THEN Got(Several("or", p.what), p.next + 1) ELSE Wrong

\* parse_not_expr with parse_primary_expr, parse_and_expr and parse_or_expr: what they
\* read at i, given At, what they read behind it.  Words that stand side by side are
\* joined as if by AND.
ParseNot(ts, At, i) ==
    IF i > Len(ts) THEN Ended
    ELSE IF Keyword(ts, i, "NOT") THEN Then(At[<<"not", i + 1>>], LAMBDA p : Got(NotOf(p.what), p.next))
    ELSE IF ts[i] = Open THEN Then(At[<<"or", i + 1>>], LAMBDA p : Closed(ts, p))
    ELSE IF ts[i] = Close THEN Wrong ELSE ParseClause(ts, i)

ParseAnd(ts, At, i) ==
    Then(At[<<"not", i>>], LAMBDA p :
        LET ends == EndsExpression(ts, p.next) \/ Keyword(ts, p.next, "OR")
            next == IF Keyword(ts, p.next, "AND") THEN p.next + 1 ELSE p.next
        IN  IF ends THEN Got(One(p.what), p.next)
            ELSE Then(At[<<"and", next>>], LAMBDA q : Got(OneMore(p.what, q.what), q.next)))

ParseOr(ts, At, i) ==
    Then(At[<<"and", i>>], LAMBDA p :
        LET item == Several("and", p.what)
        IN  IF ~Keyword(ts, p.next, "OR") THEN Got(One(item), p.next)
            ELSE Then(At[<<"or", p.next + 1>>], LAMBDA q : Got(OneMore(item, q.what), q.next)))

ParseExpr(ts, i) ==
    LET At[at \in {"not", "and", "or"} \X (1 .. Len(ts) + 1)] ==
            CASE at[1] = "not" -> ParseNot(ts, At, at[2])
              [] at[1] = "and" -> ParseAnd(ts, At, at[2])
              [] at[1] = "or" -> ParseOr(ts, At, at[2])
    IN  Then(At[<<"or", i>>], LAMBDA p : Got(Several("or", p.what), p.next))

\* A round of the loop at the end of parse_query: each directive overrides an earlier one.
Directive(ts, request, i) ==
    IF \E name \in DOMAIN Settings : Keyword(ts, i, name)
    THEN LET name == CHOOSE n \in DOMAIN Settings : Keyword(ts, i, n)
         IN  Then(Text(ts, i + 1), LAMBDA v :
                IF v.what \notin DOMAIN Number THEN Wrong
                ELSE Got([request EXCEPT ![Settings[name]] = Number[v.what]], v.next))
    ELSE IF Keyword(ts, i, "EXPLAIN") THEN Got([request EXCEPT !.explain = TRUE], i + 1)
    ELSE IF Keyword(ts, i, "ORDER")
    THEN LET turned == Keyword(ts, i + 3, "ASC") \/ Keyword(ts, i + 3, "DESC")
             direction == IF Keyword(ts, i + 3, "ASC") THEN "asc" ELSE "desc"
         IN  Then(Text(ts, i + 1), LAMBDA by :
                IF by.what # <<"BY">> THEN Wrong
                ELSE Then(Text(ts, i + 2), LAMBDA field :
                    IF Len(field.what) # 1 \/ field.what[1] \notin SortFields THEN Wrong
                    ELSE Got([request EXCEPT !.sort = <<field.what[1], direction>>],
                             IF turned THEN i + 4 ELSE i + 3)))
    ELSE Wrong

ParseDirectives(ts, p) ==
    LET After[k \in 0 .. Len(ts)] ==
            IF k = 0 THEN p
            ELSE LET q == After[k - 1]
                 IN  IF Failed(q) \/ q.next > Len(ts) THEN q ELSE Directive(ts, q.what, q.next)
    IN  After[Len(ts)]

IsPreset(ts, i) ==
    i <= Len(ts) /\ ts[i].kind = "word" /\ Len(ts[i].text) = 1 /\ ts[i].text[1] \in DOMAIN Presets

\* The part of parse_query behind EXPLAIN and PATH; whatever follows the path is not looked at.
ParsePath(ts, i, explain) ==
    Then(Text(ts, i), LAMBDA from :
        Then(Text(ts, i + 1), LAMBDA arrow :
            IF arrow.what # <<"-", ">">> THEN Wrong
            ELSE Then(Text(ts, i + 2), LAMBDA to :
                Got([Blank EXCEPT !.mode = "path", !.explain = explain, !.depth = 0,
                                   !.path = <<from.what, to.what>>], to.next))))

ParseFilter(ts, i, explain) ==
    LET near == Keyword(ts, i, "NEIGHBORS")
        j == IF near THEN i + 1 ELSE i
        preset == IsPreset(ts, j)
        k == IF preset THEN j + 1 ELSE j
        start == [Blank EXCEPT !.mode = IF near THEN "neighbors" ELSE "filter", !.explain = explain,
                               !.preset = IF preset THEN Presets[ts[j].text[1]] ELSE None]
        bare == k > Len(ts) \/ (ts[k].kind = "word" /\ ts[k].text \in DirectiveWords)
    IN  Then(IF bare THEN Got(NoExpr, k) ELSE ParseExpr(ts, k), LAMBDA p :
            ParseDirectives(ts, Got([start EXCEPT !.expr = p.what], p.next)))

\* parse_query.
Parse(ts) ==
    LET explain == Keyword(ts, 1, "EXPLAIN")
        i == IF explain THEN 2 ELSE 1
    IN  IF ts = <<>> THEN Ended
        ELSE IF Keyword(ts, i, "PATH") THEN ParsePath(ts, i + 1, explain) ELSE ParseFilter(ts, i, explain)
=============================================================================
