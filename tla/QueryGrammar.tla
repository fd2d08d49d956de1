---------------------------- MODULE QueryGrammar ----------------------------
(***************************************************************************)
(* The grammar that the parser of QueryLanguage should implement: all that *)
(* a sequence of tokens may be read as                                     *)
(*                                                                         *)
(*   query  = [EXPLAIN] PATH text -> text anything                         *)
(*          | [EXPLAIN] [NEIGHBORS] [preset] [or] {directive}              *)
(*   or     = and {OR and}                                                 *)
(*   and    = not {[AND] not}                                              *)
(*   not    = NOT not | "(" or ")" | clause                                *)
(*                                                                         *)
(* A first word that is the name of a preset is one, also where it could   *)
(* be a field; of two that set the same thing the later directive counts.  *)
(***************************************************************************)
EXTENDS Queries

IsText(token) == token.kind # "paren"
Signs == {"<", ">", "=", "~"}

\* A word is split at its first operator sign, by the longest operator that leaves a value.
WordReadings(text) ==
    LET p == FirstOf({q \in DOMAIN text : text[q] \in Signs})
        fits == {op \in Comparators : p + Len(op) <= Len(text) /\ SubSeq(text, p, p + Len(op) - 1) = op}
        cmp == CHOOSE op \in fits : \A other \in fits : Len(other) <= Len(op)
    IN  IF \A q \in DOMAIN text : text[q] \notin Signs THEN {}
        ELSE IF fits = {} THEN {}
        ELSE {<<SubSeq(text, 1, p - 1), cmp, SubSeq(text, p + Len(cmp), Len(text))>>}

EndsInSign(text) ==
    Len(text) > 1 /\ text[Len(text)] \in Signs /\ \A q \in 1 .. Len(text) - 1 : text[q] \notin Signs

ClauseReadings(ts) ==
    IF \E i \in DOMAIN ts : ~IsText(ts[i]) THEN {}
    ELSE IF Len(ts) = 1 THEN WordReadings(ts[1].text)
    ELSE IF Len(ts) = 2 /\ EndsInSign(ts[1].text)
    THEN {<<Front(ts[1].text), <<Last(ts[1].text)>>, ts[2].text>>}
    ELSE IF Len(ts) = 3 THEN {<<ts[1].text, ts[2].text, ts[3].text>>} ELSE {}
ClauseTrees(ts) ==
    {ClauseOf(r[1], r[2], r[3]) : r \in {s \in ClauseReadings(ts) : IsField(s[1]) /\ s[2] \in Comparators}}

Upto(ts, k) == SubSeq(ts, 1, k)
From(ts, k) == SubSeq(ts, k, Len(ts))

RECURSIVE OrLists(_), AndLists(_), Nots(_)
Nots(ts) ==
    UNION {ClauseTrees(ts),
           IF Len(ts) > 1 /\ Keyword(ts, 1, "NOT") THEN {NotOf(t) : t \in Nots(Tail(ts))} ELSE {},
           IF Len(ts) > 2 /\ ts[1] = Open /\ Last(ts) = Close
           THEN {Several("or", l) : l \in OrLists(SubSeq(ts, 2, Len(ts) - 1))} ELSE {}}
AndLists(ts) ==
    LET Rests(k) == {From(ts, k)} \cup (IF Keyword(ts, k, "AND") THEN {From(ts, k + 1)} ELSE {})
    IN  {One(t) : t \in Nots(ts)} \cup
        UNION {{OneMore(t, l) : t \in Nots(Upto(ts, k)), l \in UNION {AndLists(r) : r \in Rests(k + 1)}} :
                  k \in 1 .. Len(ts) - 1}
OrLists(ts) ==
    LET Ands(us) == {Several("and", l) : l \in AndLists(us)}
    IN  {One(t) : t \in Ands(ts)} \cup
        UNION {{OneMore(t, l) : t \in Ands(Upto(ts, k - 1)), l \in OrLists(From(ts, k + 1))} :
                  k \in {j \in 2 .. Len(ts) : Keyword(ts, j, "OR")}}

\* What one directive sets, as a name and a value.
DirectiveReadings(ts) ==
    UNION {
        IF ts = <<Word(<<"EXPLAIN">>)>> THEN {<<"explain", TRUE>>} ELSE {},
        IF Len(ts) = 2 /\ IsText(ts[2]) /\ ts[2].text \in DOMAIN Number
        THEN {<<Settings[n], Number[ts[2].text]>> : n \in {m \in DOMAIN Settings : Keyword(ts, 1, m)}} ELSE {},
        IF /\ Len(ts) \in 3 .. 4
           /\ Keyword(ts, 1, "ORDER")
           /\ \A i \in 2 .. 3 : IsText(ts[i])
           /\ ts[2].text = <<"BY">>
        THEN {<<"sort", <<f, IF Keyword(ts, 4, "ASC") THEN "asc" ELSE "desc">>>> :
                 f \in {g \in SortFields : ts[3].text = <<g>> /\
                            (Len(ts) = 4 => (Keyword(ts, 4, "ASC") \/ Keyword(ts, 4, "DESC")))}}
        ELSE {}}

RECURSIVE DirectiveLists(_)
DirectiveLists(ts) ==
    IF ts = <<>> THEN {<<>>}
    ELSE UNION {{<<d>> \o l : d \in DirectiveReadings(Upto(ts, k)), l \in DirectiveLists(From(ts, k + 1))} :
                   k \in 1 .. Len(ts)}

RequestsOf(ts) ==
    LET Skip(us, name) == IF Keyword(us, 1, name) THEN Tail(us) ELSE us
        explain == Keyword(ts, 1, "EXPLAIN")
        body == Skip(ts, "EXPLAIN")
        mode == IF Keyword(body, 1, "NEIGHBORS") THEN "neighbors" ELSE "filter"
        named == Skip(body, "NEIGHBORS")
        preset == IF IsPreset(named, 1) THEN Presets[named[1].text[1]] ELSE None
        rest == IF IsPreset(named, 1) THEN Tail(named) ELSE named
        Exprs(k) == IF k = 0 THEN {NoExpr} ELSE {Several("or", l) : l \in OrLists(Upto(rest, k))}
        Final(ds, name, default) ==
            LET at == {i \in DOMAIN ds : ds[i][1] = name}
            IN  IF at = {} THEN default ELSE ds[CHOOSE i \in at : \A j \in at : j <= i][2]
        Made(e, ds) == [mode |-> mode, preset |-> preset, expr |-> e, path |-> <<>>,
                        limit |-> Final(ds, "limit", DefaultLimit), offset |-> Final(ds, "offset", 0),
                        sort |-> Final(ds, "sort", Blank.sort), explain |-> Final(ds, "explain", explain),
                        expand |-> Final(ds, "expand", 0), depth |-> Final(ds, "depth", 1)]
    IN  IF ts = <<>> THEN {}
        ELSE IF Keyword(body, 1, "PATH")
        THEN IF /\ Len(body) >= 4
                /\ \A i \in 2 .. 4 : IsText(body[i])
                /\ body[3].text = <<"-", ">">>
             THEN {[Blank EXCEPT !.mode = "path", !.explain = explain, !.depth = 0,
                                 !.path = <<body[2].text, body[4].text>>]}
             ELSE {}
        ELSE UNION {{Made(e, ds) : e \in Exprs(k), ds \in DirectiveLists(From(rest, k + 1))} : k \in 0 .. Len(rest)}

(***************************************************************************)
(* Property                                                                *)
(***************************************************************************)
\* The parser reads a query in the one way the grammar allows, or refuses it if there is none.
FollowsGrammar(ts) == RequestsOf(ts) = {p.what : p \in {q \in {Parse(ts)} : ~Failed(q)}}

\* What is typed is refused or read in the one way the grammar allows: NOT binds
\* closest and OR least, words side by side are joined like those with AND, a
\* directive ends the expression, and of two directives the later one counts.
ParserFollowsGrammar == FollowsGrammar(draft)
=============================================================================
