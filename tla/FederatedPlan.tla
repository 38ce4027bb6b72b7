---------------------------- MODULE FederatedPlan ----------------------------
(***************************************************************************)
(* crates/queryfabric-opt/src/federation: a query over one relation whose  *)
(* rows lie on several nodes.  The planner makes two texts of it: every    *)
(* node runs the scatter text on its own rows, and the gather text merges  *)
(* what the nodes answered.  The executor that carries the texts to the    *)
(* nodes is the host's: here each node answers once, in any order.         *)
(***************************************************************************)
EXTENDS SqlLowering, QueryFeatures, SqlRendering, QueryEval

CONSTANTS
    Requests,     \* the queries planned: [query, supplied, backend]
    Nodes,        \* the nodes that hold rows
    Placements,   \* how the rows may lie: node -> (relation -> its rows there)
    Quoted,       \* names that the renderer puts in quotes
    Engine(_, _)  \* what an engine answers to a query over [tables, params, engine]

VARIABLES
    request,      \* the query asked for
    placement,    \* where the rows lie
    stage,        \* "given", "refused", "scattered" or "gathered"
    plan,         \* [central, scatter, gather]: the texts
    partials,     \* what the nodes that have run the scatter text answered
    pending,      \* the nodes that have not
    answer        \* what the gather text answered
vars == <<request, placement, stage, plan, partials, pending, answer>>

-----------------------------------------------------------------------------
(* relations.rs                                                            *)

Placeholder == "{partials}"

UnsupportedShapes == {"ctes", "derived_tables", "joins", "windows", "set_operations",
                      "scalar_subqueries", "in_subqueries", "settings", "format"}

\* One SELECT over one base table; its table, or <<>>.
PrimaryRelationBinding(q) ==
    IF /\ q.body.kind = "Select"
       /\ Len(q.body.from) = 1
       /\ q.body.from[1].joins = <<>>
       /\ q.body.from[1].relation.kind = "Table"
    THEN <<q.body.from[1].relation>> ELSE <<>>

ValidateFederationShape(features, q) ==
    features.names \cap UnsupportedShapes = {} /\ PrimaryRelationBinding(q) # <<>>

\* The name is looked for as it was written, in a text where it may have
\* been put in quotes.
RenderedAlike(relation) == {relation.name, relation.alias} \cap Quoted = {}

\* The text with its relation replaced by the place for the partial results.
WrapRelationSource(text, relation) ==
    [text EXCEPT !.body.from = <<From(Table(Placeholder, relation.alias), <<>>)>>]

-----------------------------------------------------------------------------
(* aggregate.rs                                                            *)

SimpleExprName(e) ==
    CASE e.kind = "Column" -> e.name [] e.kind = "Literal" -> "literal" [] OTHER -> None
ProjectionOutputName(item) == IF item.alias # None THEN item.alias ELSE SimpleExprName(item.expr)

AutoAggregateAlias(e, index) ==
    LET arg == IF e.args = <<>> THEN None ELSE SimpleExprName(e.args[1])
    IN e.function \o "_" \o (IF arg = None THEN "value" ELSE arg) \o "_" \o ToString(index)

\* The window of a function and the queries inside an expression are not
\* looked into.
RECURSIVE ExprContainsAggregate(_)
ExprContainsAggregate(e) ==
    LET below == CASE e.kind = "Function" -> e.args \o e.filter
                   [] IsSubquery(e) -> <<>>
                   [] OTHER -> Operands(e)
    IN \/ e.kind = "Function" /\ e.function \in Aggregates
       \/ \E i \in DOMAIN below : ExprContainsAggregate(below[i])

\* Any call at the top of the projection has to be one of the five.
IsCall(item) == item.kind = "Expr" /\ item.expr.kind = "Function"
Decomposable(item) ==
    /\ item.expr.over = <<>> /\ item.expr.filter = <<>> /\ ~item.expr.distinct
    /\ item.expr.function \in Aggregates
    /\ item.expr.function = "avg" => item.expr.args # <<>>

ColumnExpr(name) == Column(None, name)
FieldItem(e, alias, field) == [Item(e, alias) EXCEPT !.fields = <<field>>]

UserAlias(item, index) ==
    IF item.alias # None THEN item.alias ELSE AutoAggregateAlias(item.expr, index)
PartialAlias(item, index, part) ==
    "__fed_" \o UserAlias(item, index) \o part \o "_" \o ToString(index)

\* One partial result of a node, and the call that merges it.
Partial(item, index, part, f, field) ==
    LET alias == PartialAlias(item, index, part)
    IN FieldItem(Function(f, item.expr.args), alias, [field EXCEPT !.name = alias])
Merged(item, index, part, f) == Function(f, <<ColumnExpr(PartialAlias(item, index, part))>>)

CountField == Field(None, Int64, FALSE)

\* The sum of the sums over the sum of the counts.
DecomposeAvg(item, index) ==
    [scatter |-> <<Partial(item, index, "_sum", "sum", Field(None, Float64, TRUE)),
                   Partial(item, index, "_cnt", "count", CountField)>>,
     gather |-> FieldItem(Binary("Divide", Merged(item, index, "_sum", "sum"),
                                           Merged(item, index, "_cnt", "sum")),
                          UserAlias(item, index), item.fields[1])]

DecomposeCount(item, index) ==
    [scatter |-> <<Partial(item, index, "", "count", CountField)>>,
     gather |-> FieldItem(Merged(item, index, "", "sum"), UserAlias(item, index), item.fields[1])]

\* Mutant: the average of the averages, and the count of the counts.
MergeWithItself(item, index) ==
    [scatter |-> <<Partial(item, index, "", item.expr.function, item.fields[1])>>,
     gather |-> FieldItem(Merged(item, index, "", item.expr.function), UserAlias(item, index),
                          item.fields[1])]

\* What the nodes compute for an aggregate, and what merges it.
ClassifySupportedAggregate(item, index) ==
    CASE item.expr.function = "avg" -> DecomposeAvg(item, index)
      [] item.expr.function = "count" -> DecomposeCount(item, index)
      [] OTHER -> [scatter |-> <<Partial(item, index, "", item.expr.function, item.fields[1])>>,
                   gather |-> FieldItem(Merged(item, index, "", item.expr.function),
                                        UserAlias(item, index), item.fields[1])]

-----------------------------------------------------------------------------
(* plans.rs and mod.rs; a plan is <<>> where the planner refuses.          *)

\* adapter.emit of the query with another plan.
EmitPlan(b, plan_, backend) ==
    IF AnalyzeBackendSupport(plan_, backend)
    THEN EmitSqlArtifact([b EXCEPT !.plan = plan_], backend) ELSE <<>>

WithoutTail(q) == [q EXCEPT !.order_by = <<>>, !.limit = <<>>, !.offset = <<>>]

\* The gather text is the whole query once more, over the partial results.
BuildFederatedPassthroughPlan(b, artifact, backend) ==
    LET relation == PrimaryRelationBinding(b.plan)[1]
        texts(scatter) ==
            IF scatter = <<>> \/ ~RenderedAlike(relation) THEN <<>>
            ELSE <<[central |-> artifact.text, scatter |-> scatter[1].text,
                    gather |-> WrapRelationSource(artifact.text, relation)]>>
    IN texts(EmitPlan(b, WithoutTail(b.plan), backend))

AggregatePlanRefused(q) ==
    LET s == q.body
        refused(item) ==
            \/ item.kind # "Expr"
            \/ IsCall(item) /\ ~Decomposable(item)
            \/ ~IsCall(item) /\ (ExprContainsAggregate(item.expr) \/ ProjectionOutputName(item) = None)
    IN \/ s.distinct \/ s.having # <<>> \/ q.offset # <<>>
       \/ \E i \in DOMAIN s.projection : refused(s.projection[i])
       \/ ~ \E i \in DOMAIN s.projection : IsCall(s.projection[i])
       \/ \E i \in DOMAIN q.order_by : ExprContainsAggregate(q.order_by[i].expr)

\* The gather text groups by the projected columns that are no aggregates.
BuildFederatedAggregatePlan(b, artifact, backend) ==
    LET s == b.plan.body
        relation == PrimaryRelationBinding(b.plan)[1]
        items == s.projection
        rewrite(i) == ClassifySupportedAggregate(items[i], i - 1)
        column(i) == FieldItem(ColumnExpr(ProjectionOutputName(items[i])), None, items[i].fields[1])
        keys == SelectSeq([i \in DOMAIN items |-> i], LAMBDA i : ~IsCall(items[i]))
        scatter_select == [s EXCEPT !.projection = FlattenSeq([i \in DOMAIN items |->
                                IF IsCall(items[i]) THEN rewrite(i).scatter ELSE <<items[i]>>])]
        gather_select ==
            [Select([i \in DOMAIN items |-> IF IsCall(items[i]) THEN rewrite(i).gather ELSE column(i)],
                    <<From(Table("partials", relation.alias), <<>>)>>, <<>>)
                EXCEPT !.group_by = [k \in DOMAIN keys |-> column(keys[k]).expr],
                       !.group_types = [k \in DOMAIN keys |-> items[keys[k]].fields[1].ty]]
        texts(scatter, gather) ==
            IF scatter = <<>> \/ gather = <<>> \/ relation.alias \in Quoted THEN <<>>
            ELSE <<[central |-> artifact.text, scatter |-> scatter[1].text,
                    gather |-> WrapRelationSource(gather[1].text, relation)]>>
    IN IF AggregatePlanRefused(b.plan) THEN <<>>
       ELSE texts(EmitPlan(b, [WithoutTail(b.plan) EXCEPT !.body = scatter_select], backend),
                  EmitPlan(b, [b.plan EXCEPT !.body = gather_select], backend))

\* The features are those of the query as it was parsed.
BuildScatterGatherPlan(b, features, artifact, backend) ==
    CASE ~ValidateFederationShape(features, b.plan) -> <<>>
      [] "aggregates" \in features.names -> BuildFederatedAggregatePlan(b, artifact, backend)
      [] OTHER -> BuildFederatedPassthroughPlan(b, artifact, backend)

-----------------------------------------------------------------------------
Init ==
    /\ request \in Requests
    /\ placement \in Placements
    /\ stage = "given"
    /\ plan = <<>> /\ partials = <<>> /\ pending = Nodes /\ answer = <<>>

\* The host compiles the query and hands it to the planner.
Plan ==
    /\ stage = "given"
    /\ LET parsed == LowerQuery(request.query)
           planned(b, artifact) ==
               IF artifact = <<>> THEN <<>>
               ELSE BuildScatterGatherPlan(b, PlanFeaturesFromSyntax(parsed), artifact[1],
                                           request.backend)
           compiled(b) == IF b.errors # {} THEN <<>>
                          ELSE planned(b, EmitPlan(b, b.plan, request.backend))
           hand(built) == IF built = <<>> THEN stage' = "refused" /\ plan' = <<>>
                          ELSE stage' = "scattered" /\ plan' = built[1]
       IN hand(compiled(BindAndValidate(parsed, {}, request.supplied)))
    /\ UNCHANGED <<request, placement, partials, pending, answer>>

Positions == [p \in {r \in DOMAIN request.supplied : r[1] = 0} |-> request.supplied[p]]
Run(text, tables) ==
    Engine(ReadQuery(text), [tables |-> tables, params |-> Positions, engine |-> request.backend])

\* A node's engine (external) runs the scatter text on its own rows.
Scatter(n) ==
    /\ stage = "scattered" /\ n \in pending
    /\ partials' = Append(partials, Run(plan.scatter, placement[n]))
    /\ pending' = pending \ {n}
    /\ UNCHANGED <<request, placement, stage, plan, answer>>

\* All the answers as one relation.
Combined(relations) ==
    IF \E i \in DOMAIN relations : ~relations[i].ok THEN Failed
    ELSE Relation(relations[1].names, FlattenSeq([i \in DOMAIN relations |-> relations[i].rows]))

\* The host puts the answers in the place the gather text keeps for them.
Gather ==
    /\ stage = "scattered" /\ pending = {}
    /\ answer' = Run(plan.gather, Placeholder :> Combined(partials))
    /\ stage' = "gathered"
    /\ UNCHANGED <<request, placement, plan, partials, pending>>

Next == Plan \/ (\E n \in Nodes : Scatter(n)) \/ Gather
Spec == Init /\ [][Next]_vars

-----------------------------------------------------------------------------
(* What the planner promises.                                              *)

\* The relations with the rows of all nodes.
Everything ==
    LET nodes == SetToSeq(Nodes)
        relation(r) == Combined([i \in DOMAIN nodes |-> placement[nodes[i]][r]])
    IN [r \in DOMAIN Catalog |-> relation(r)]

\* Whole numbers are compared as such: a count that the gather text adds up
\* is numeric in PostgreSQL, and a whole mean a float in ClickHouse.
Plainly(rel) ==
    [AsText(rel) EXCEPT !.rows = [k \in DOMAIN @ |-> [i \in DOMAIN @[k] |->
        IF @[k][i][1] \in {"float", "decimal"} /\ @[k][i][3] = 1 THEN IntV(@[k][i][2]) ELSE @[k][i]]]]

\* The two-stage plan answers what one engine with all the rows would.  With
\* a limit and no order any rows of the answer will do.
SameAnswer ==
    LET unlimited == Plainly(Run([plan.central EXCEPT !.limit = <<>>, !.offset = <<>>], Everything))
        central == Plainly(Run(plan.central, Everything))
        got == Plainly(answer)
    IN IF request.query.limit = <<>> /\ request.query.offset = <<>>
       THEN SameRows(request.query, got, central)
       ELSE /\ got.ok = central.ok /\ Len(got.rows) = Len(central.rows)
            /\ Range(got.rows) \subseteq Range(unlimited.rows)

\* Where the plan is known to deviate (see the README): the merge knows only
\* the keys that are projected, and finds them by a name it must have been
\* given; and a query without aggregates is run once more on its own answers,
\* which undoes nothing only if it selects plain columns, its keys included.
Columns(e) == {x \in ExprsBelow(e) : x.kind = "Column"}
Selected(s) == {s.projection[i].expr.name :
                  i \in {j \in DOMAIN s.projection : s.projection[j].kind = "Expr"
                                                     /\ s.projection[j].expr.kind = "Column"}}
KeyLost(s) == \E key \in Range(s.group_by) :
                 ~ \E i \in DOMAIN s.projection : s.projection[i].expr = key
NameLost(s) ==
    \/ \E i \in DOMAIN s.projection : s.projection[i].expr.kind = "Literal" /\ s.projection[i].alias = None
    \/ \E i, j \in DOMAIN s.projection :
          /\ i # j /\ ~IsCall(s.projection[i]) /\ ~IsCall(s.projection[j])
          /\ ProjectionOutputName(s.projection[i]) = ProjectionOutputName(s.projection[j])
RunsTwice(s) ==
    /\ ~ \E i \in DOMAIN s.projection : s.projection[i].kind = "Wildcard"
    /\ \/ \E i \in DOMAIN s.projection : \/ s.projection[i].expr.kind # "Column"
                                        \/ s.projection[i].alias \notin {None, s.projection[i].expr.name}
       \/ \E e \in Range(s.selection \o s.group_by) : \E c \in Columns(e) : c.name \notin Selected(s)

Aggregated == "aggregates" \in PlanFeaturesFromSyntax(request.query).names

\* Wherever the rows lie and in whatever order the nodes answer, a query that
\* the planner accepts is answered as if one engine held all the rows: groups
\* that several nodes have a part of, nodes without rows and NULLs included.
\* (build_scatter_gather_plan, and in it the pairs of partial and merged
\* aggregates.)
FederatedMatchesCentral ==
    LET s == request.query.body IN
    stage = "gathered" /\ (IF Aggregated THEN ~KeyLost(s) /\ ~NameLost(s) ELSE ~RunsTwice(s))
        => SameAnswer
=============================================================================
