------------------------------- MODULE Queries -------------------------------
(***************************************************************************)
(* Queries as they are typed, saved, deleted and run, one or all, on the   *)
(* latest graph of a target.  Commands and the API run in processes of     *)
(* their own: between the reading of the saved queries and that of the     *)
(* graph others save, delete and store.                                    *)
(***************************************************************************)
EXTENDS QueryEngine

CONSTANTS
    Vocabularies,  \* bound: the sets of tokens of which a query is typed
    MaxTokens,     \* bound: its length
    Names,         \* of saved queries
    Expressions,   \* bound: what somebody tries to save
    StoredGraphs,  \* what is stored for the target
    NoGraph

ASSUME QueriesAssumption ==
    /\ MaxTokens \in Nat
    /\ \A v \in Vocabularies : v \subseteq Tokens
    /\ \A e \in Expressions : e \in Seq(Tokens) /\ e # <<>>
    /\ \A g \in StoredGraphs : g.nodes \subseteq AllNodes /\ g.edges \subseteq AllEdges

VARIABLES
    draft,    \* a query that is being typed
    saved,    \* table saved_queries: the expressions; <<>> is no row
    graph,    \* the latest graph of the target
    run       \* a query-run or query-run-all: where it stands, what it read and found

queryVars == <<draft, saved, graph, run>>

NoQuery == <<>>
NoneSaved == [n \in Names |-> NoQuery]
Idle == [step |-> "idle", list |-> NoneSaved, found |-> NoneSaved]

QueryInit ==
    /\ draft = <<>>
    /\ saved = NoneSaved
    /\ graph = NoGraph
    /\ run = Idle

\* Bound: what is typed is looked at before anything is saved or stored, and up
\* to the first token that the parser refuses.
Type(token) ==
    /\ saved = NoneSaved /\ graph = NoGraph /\ run = Idle
    /\ Len(draft) < MaxTokens
    /\ draft = <<>> \/ ~Refused(Parse(draft))
    /\ draft' = Append(draft, token)
    /\ \E v \in Vocabularies : ToSet(draft') \subseteq v
    /\ UNCHANGED <<saved, graph, run>>

\* save_query and query-save: parse_query decides; a name that is taken is
\* overwritten.  Mutant: anything is saved.
SaveUnread(name, query) ==
    /\ draft = <<>>
    /\ saved' = [saved EXCEPT ![name] = query]
    /\ UNCHANGED <<draft, graph, run>>
Save(name, query) ==
    /\ draft = <<>>
    /\ ~Failed(Parse(query))
    /\ saved' = [saved EXCEPT ![name] = query]
    /\ UNCHANGED <<draft, graph, run>>

\* query-delete.
Delete(name) ==
    /\ saved[name] # NoQuery
    /\ saved' = [saved EXCEPT ![name] = NoQuery]
    /\ UNCHANGED <<draft, graph, run>>

\* store_graph, as one step: GraphStore has its parts.
StoreGraph(g) ==
    /\ draft = <<>>
    /\ graph' = g
    /\ UNCHANGED <<draft, saved, run>>

\* query-run and run_query take one saved query, query-run-all takes all.
Start(names) ==
    /\ draft = <<>>
    /\ run.step = "idle"
    /\ \A n \in names : saved[n] # NoQuery
    /\ run' = [step |-> IF names = {} THEN "done" ELSE "listed",
               list |-> [n \in Names |-> IF n \in names THEN saved[n] ELSE NoQuery], found |-> NoneSaved]
    /\ UNCHANGED <<draft, saved, graph>>

RunOne(name) == Start({name})
RunAll == Start({n \in Names : saved[n] # NoQuery})

Listed == {n \in Names : run.list[n] # NoQuery}

\* Each query is parsed again and answered; the first that fails ends the run.
AnswerTyped(g, p) == IF g = NoGraph \/ Failed(p) THEN Failure ELSE Answer(g, p.what)
AnswerListed ==
    /\ run.step = "listed"
    /\ \E asked \in {[n \in Listed |-> AnswerTyped(graph, Parse(run.list[n]))]} :
          IF \E n \in Listed : asked[n].fails
          THEN run' = [run EXCEPT !.step = "failed"]
          ELSE run' = [run EXCEPT !.step = "done",
                    !.found = [n \in Names |-> IF n \in Listed THEN asked[n].matches ELSE <<>>]]
    /\ UNCHANGED <<draft, saved, graph>>

Return ==
    /\ run.step \in {"done", "failed"}
    /\ run' = Idle
    /\ UNCHANGED <<draft, saved, graph>>

QueryNext ==
    \/ \E token \in UNION Vocabularies : Type(token)
    \/ \E name \in Names, query \in Expressions : Save(name, query)
    \/ \E name \in Names : Delete(name)
    \/ \E g \in StoredGraphs : StoreGraph(g)
    \/ \E name \in Names : RunOne(name)
    \/ RunAll
    \/ AnswerListed
    \/ Return

QuerySpec == QueryInit /\ [][QueryNext]_queryVars

(***************************************************************************)
(* What a query means, without an order of evaluation                      *)
(***************************************************************************)
Clauses(expr) == {expr[k] : k \in {j \in DOMAIN expr : expr[j].op = "clause"}}

\* The nodes of which an expression is surely true, however a clause that fails is
\* taken, and those of which it may be.
Bounds(sure, maybe) == [sure |-> sure, maybe |-> maybe]
TruthAt(g, node, items) ==
    LET fails == {n \in g.nodes : ClauseFails(n, node)}
        holds == {n \in g.nodes \ fails : ClauseHolds(g, n, node)}
        InAll(bound) == {n \in g.nodes : \A i \in DOMAIN items : n \in items[i][bound]}
        InSome(bound) == {n \in g.nodes : \E i \in DOMAIN items : n \in items[i][bound]}
    IN  CASE node.op = "clause" -> Bounds(holds, holds \cup fails)
          [] node.op = "and" -> Bounds(InAll("sure"), InAll("maybe"))
          [] node.op = "or" -> Bounds(InSome("sure"), InSome("maybe"))
          [] node.op = "not" -> Bounds(g.nodes \ items[1].maybe, g.nodes \ items[1].sure)
Truth(g, expr) ==
    LET Of[k \in DOMAIN expr] == TruthAt(g, expr[k], Items(Of, expr, k))
    IN  IF expr = NoExpr THEN Bounds(g.nodes, g.nodes) ELSE Of[Len(expr)]

FailingAt(g, r) ==
    {n \in g.nodes : MatchesPreset(g, n, r.preset) /\ \E c \in Clauses(r.expr) : ClauseFails(n, c)}

\* A query that may fail on some graph: it has a literal that its field cannot be
\* compared with, or looks for a node that may not be there.
MayFail(r) == r.mode = "path" \/ \E c \in Clauses(r.expr), n \in AllNodes : ClauseFails(n, c)

(***************************************************************************)
(* Properties                                                              *)
(***************************************************************************)
\* The searches that have been typed: no path is searched for.
Searches == {p.what : p \in {q \in {Parse(draft)} : ~Failed(q) /\ q.what.mode # "path"}}

\* The answers plain, and told with EXPLAIN, to the search r of g.
Sound(g, r, plain, told) ==
    /\ ~plain.fails =>
         \A bound \in {"sure", "maybe"} :
            Seeds(g, r) = {n \in Truth(g, r.expr)[bound] : MatchesPreset(g, n, r.preset)}
    /\ FailingAt(g, r) = {} => ~told.fails
    /\ told \in {Failure, plain}

\* An answer does not rest on a comparison that could not be made: where a query
\* with such a clause is answered, taking the clause for true or for false makes
\* no difference.  A query fails only for a clause that fails, and if EXPLAIN is
\* answered, then with the same matches.
AnswersIgnoreWhatFails ==
    \A r \in Searches, g \in StoredGraphs :
        Sound(g, r, Answer(g, [r EXCEPT !.explain = FALSE]), Answer(g, [r EXCEPT !.explain = TRUE]))

\* The pages of the search r of g, put together as all.
Tiled(g, r, whole, pages, all) ==
    LET Up(m, n) == SortKey(g, m, r.sort[1]) <= SortKey(g, n, r.sort[1])
    IN  /\ \A k \in DOMAIN pages : pages[k].total = Len(all)
        /\ ToSet(all) = ToSet(whole.matches)
        /\ \A i, j \in DOMAIN all : i < j =>
             /\ all[i] # all[j]
             /\ r.sort[2] = "asc" => Up(all[i], all[j])
             /\ r.sort[2] = "desc" => Up(all[j], all[i])
Together(pages) == FlattenSeq([k \in DOMAIN pages |-> pages[k].matches])
TiledBy(g, r, whole, pages) == Tiled(g, r, whole, pages, Together(pages))
Tiles(g, r, whole) ==
    whole.fails \/ \A size \in 1 .. 2 :
        TiledBy(g, r, whole,
            [k \in 1 .. Furthest |-> Answer(g, [r EXCEPT !.limit = size, !.offset = (k - 1) * size])])

\* The pages of an answer, put together, are all its matches, none twice, in the
\* order asked for; the limit of a page changes nothing about the total.
PagesTileAnswer ==
    \A search \in Searches, g \in StoredGraphs :
        LET r == [search EXCEPT !.explain = FALSE]
        IN  Tiles(g, r, Answer(g, [r EXCEPT !.limit = Furthest, !.offset = 0]))

\* An answer has what the query means, whole, and its pages have the answer.
AnswersAreTrue == AnswersIgnoreWhatFails /\ PagesTileAnswer

\* A query that was read as p may fail, but was not refused.
ForCause(p) == ~Failed(p) /\ MayFail(p.what)

\* A run of saved queries fails only if there is no graph, or if one of them may
\* fail; one that was refused when it was saved never does it.  Otherwise each is
\* answered, and all from one graph, whatever others do meanwhile.
RunsFailForCause ==
    [][run.step = "listed" /\ run'.step # "listed" =>
        /\ run'.step = "failed" => graph = NoGraph \/ \E n \in Listed : ForCause(Parse(run.list[n]))
        /\ run'.step = "done" => \A n \in Listed :
              run'.found[n] = AnswerTyped(graph, Parse(run.list[n])).matches]_queryVars
=============================================================================
