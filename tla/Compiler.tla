------------------------------ MODULE Compiler ------------------------------
(***************************************************************************)
(* crates/queryfabric: one query on its way through the compiler.  A text  *)
(* is parsed (and can be inspected), bound against the catalog with the    *)
(* values of its parameters, analysed and rendered for a backend; then the *)
(* backend's engine runs the artifact.  The text is given as the tree the  *)
(* SQL parser makes of it, with the directives SyQL puts around it.        *)
(***************************************************************************)
EXTENDS SqlLowering, SyntaxTransform, QueryBudget, QueryFeatures, SqlRendering, QueryEval

CONSTANTS
    Requests,   \* the requests looked at: [source, overrides, intended, supplied,
                \* backend, budget]; intended is the query with the overrides in it
    Database,   \* the engine's tables, with a column for each field of Catalog
    Engine(_, _)   \* what an engine answers to a query over [tables, params, engine]

VARIABLES
    request,    \* what the client asked for
    stage,      \* "given", "parsed", "bound", "emitted", "done" or "refused"
    parsed,     \* the lowered tree and its metadata
    summary,    \* what inspecting the parsed query told the client
    bound,      \* the bound query
    supported,  \* what analyze told the client: <<>> or <<BOOLEAN>>
    artifact,   \* the rendered text, its parameters and its result schema
    result      \* the rows the engine answered with
vars == <<request, stage, parsed, summary, bound, supported, artifact, result>>

-----------------------------------------------------------------------------
(* The front ends.                                                         *)

\* A SyQL text: directives on lines of their own, then on the last line of
\* the query.  Those at the end are taken off one by one from the right, so
\* the leftmost one of a kind is the one that stays.
Directives(source) == source.lines \o Reverse(source.trailing)
Metadata(source, key) ==
    LET of == SelectSeq(Directives(source), LAMBDA d : d[1] = key)
    IN IF of = <<>> THEN None ELSE Last(of)[2]

\* A text that starts with FROM asks for all the columns.
ParseSyql(source) ==
    IF source.from_first
    THEN [source.query EXCEPT !.body.projection = <<Wildcard(None)>>] ELSE source.query

\* The lowering has reported an error: a clause is left in the tree.
RECURSIVE HasLeftover(_), LeftoverInTable(_)
LeftoverInTable(t) ==
    \/ \E i \in DOMAIN t.joins : t.joins[i].clauses # {}
    \/ \E r \in Range(Joined(t)) :
          CASE r.kind = "Derived" -> HasLeftover(r.query)
            [] r.kind = "NestedJoin" -> LeftoverInTable(r.table)
            [] OTHER -> FALSE
RECURSIVE LeftoverInSet(_)
LeftoverInSet(x) ==
    CASE x.kind = "Select" -> \E i \in DOMAIN x.from : LeftoverInTable(x.from[i])
      [] x.kind = "UnionAll" -> LeftoverInSet(x.left) \/ LeftoverInSet(x.right)
      [] OTHER -> FALSE
HasLeftover(q) ==
    \/ q.clauses # {}
    \/ LeftoverInSet(q.body)
    \/ \E i \in DOMAIN q.ctes : HasLeftover(q.ctes[i].query)
    \/ \E e \in ExprsIn(q) : (e.kind = "Function" /\ e.clauses # {})
                             \/ (IsSubquery(e) /\ HasLeftover(e.query))

-----------------------------------------------------------------------------
(* Looking at a parsed query.                                              *)

ParametersOf(q) == {e.reference : e \in {x \in ExprsIn(q) : x.kind = "Parameter"}}

\* Mutant: the positions are counted, not the highest one taken.
CountPositions(q) ==
    LET used == ParametersOf(q)
    IN [positional_count |-> Cardinality({p \in used : p[1] = 0}),
        named_params |-> {r[2] : r \in {p \in used : p[1] = 1}}]

\* How many positions a client has to fill, and which names.
InspectParameters(q) ==
    LET used == ParametersOf(q)
    IN [positional_count |-> Max({0} \cup {r[2] : r \in {p \in used : p[1] = 0}}),
        named_params |-> {r[2] : r \in {p \in used : p[1] = 1}}]

RECURSIVE FirstSelect(_)
FirstSelect(x) ==
    CASE x.kind = "Select" -> <<x>>
      [] x.kind = "UnionAll" -> IF FirstSelect(x.left) # <<>> THEN FirstSelect(x.left)
                                ELSE FirstSelect(x.right)
      [] OTHER -> <<>>

\* The names of the result; nothing is told when there is a wildcard.
NoLabel == "<expr>"
SummaryColumns(s) ==
    LET label(item) == CASE item.kind # "Expr" -> NoLabel [] item.alias # None -> item.alias
                         [] item.expr.kind = "Column" -> item.expr.name
                         [] item.expr.kind = "Function" -> item.expr.function
                         [] OTHER -> NoLabel
    IN IF s.projection = <<>> \/ \E i \in DOMAIN s.projection : s.projection[i].kind = "Wildcard"
       THEN <<>> ELSE <<Map(label, s.projection)>>

\* A limit that is a whole number, or a parameter with such a value.
ExtractLimit(limit, supplied) ==
    LET value == CASE limit = <<>> -> Null
                   [] limit[1].kind = "Literal" -> limit[1].value
                   [] limit[1].kind = "Parameter" /\ limit[1].reference \in DOMAIN supplied ->
                         supplied[limit[1].reference]
                   [] OTHER -> Null
    IN IF value[1] = "int" /\ value[2] >= 0 THEN <<value[2]>> ELSE <<>>

\* The relation and the number of conditions it tells too are left out.
InspectQuery(p, supplied) ==
    LET select == FirstSelect(p.query.body)
    IN [projected_columns |-> IF select = <<>> THEN <<>> ELSE SummaryColumns(select[1]),
        row_limit |-> ExtractLimit(p.query.limit, supplied),
        scope |-> IF p.scope = None THEN "local" ELSE p.scope,
        output_format |-> IF p.download = None THEN "arrow" ELSE p.download,
        parameters |-> InspectParameters(p.query)]

-----------------------------------------------------------------------------
Init ==
    /\ request \in Requests
    /\ stage = "given"
    /\ parsed = <<>> /\ summary = <<>> /\ bound = <<>> /\ supported = <<>>
    /\ artifact = <<>> /\ result = <<>>

Parse ==
    /\ stage = "given"
    /\ LET source == request.source
           query == LowerQuery(ParseSyql(source))
           over == CheckBudget(request.budget, UsageOfParsed(query, source.bytes))
       IN /\ parsed' = [query |-> query, explain |-> source.explain,
                        scope |-> Metadata(source, "scope"),
                        download |-> Metadata(source, "download"),
                        overridden |-> request.overrides = <<>>]
          /\ stage' = IF over = None THEN "parsed" ELSE "refused"
    /\ UNCHANGED <<request, summary, bound, supported, artifact, result>>

Inspect ==
    /\ stage = "parsed" /\ summary = <<>>
    /\ summary' = <<InspectQuery(parsed, request.supplied)>>
    /\ UNCHANGED <<request, stage, parsed, bound, supported, artifact, result>>

\* A host gives some of the SELECTs another condition before it binds.
OverrideSelections ==
    /\ stage = "parsed" /\ ~parsed.overridden
    /\ parsed' = [parsed EXCEPT !.query = ApplySelectionOverrides(@, request.overrides),
                                !.overridden = TRUE]
    /\ UNCHANGED <<request, stage, summary, bound, supported, artifact, result>>

\* The compiler checks the budget once more, now with the parameters.
BindQueryAndValidate ==
    /\ stage = "parsed" /\ parsed.overridden
    /\ LET errors == IF HasLeftover(parsed.query) THEN {"QF0000"} ELSE {}
           b == BindAndValidate(parsed.query, errors, request.supplied)
           usage == WithParameters(UsageOfParsed(parsed.query, request.source.bytes),
                                   Len(b.parameters))
       IN IF b.errors = {} /\ CheckBudget(request.budget, usage) = None
          THEN stage' = "bound" /\ bound' = b
          ELSE stage' = "refused" /\ bound' = <<>>
    /\ UNCHANGED <<request, parsed, summary, supported, artifact, result>>

Analyze ==
    /\ stage = "bound" /\ supported = <<>>
    /\ supported' = <<AnalyzeBackendSupport(bound.plan, request.backend)>>
    /\ UNCHANGED <<request, stage, parsed, summary, bound, artifact, result>>

Emit ==
    /\ stage = "bound"
    /\ LET emitted == EmitSqlArtifact(bound, request.backend) IN
       IF AnalyzeBackendSupport(bound.plan, request.backend) /\ emitted # <<>>
       THEN stage' = "emitted" /\ artifact' = emitted[1]
       ELSE stage' = "refused" /\ artifact' = <<>>
    /\ UNCHANGED <<request, parsed, summary, bound, supported, result>>

\* The engine (external) reads the text and runs it; a parameter that was
\* given no value it does not take.
Execute ==
    /\ stage = "emitted"
    /\ \A i \in DOMAIN artifact.parameters : artifact.parameters[i].value # <<>>
    /\ LET positions == {<<0, i>> : i \in DOMAIN artifact.parameters}
       IN result' = Engine(ReadQuery(artifact.text),
                       [tables |-> Database,
                        params |-> [p \in positions |-> artifact.parameters[p[2]].value[1]],
                        engine |-> request.backend])
    /\ stage' = "done"
    /\ UNCHANGED <<request, parsed, summary, bound, supported, artifact>>

Next == Parse \/ Inspect \/ OverrideSelections \/ BindQueryAndValidate \/ Analyze \/ Emit \/ Execute
Spec == Init /\ [][Next]_vars

-----------------------------------------------------------------------------
\* Everything of a kind in a tree, each as often as it stands there: the
\* SELECTs of a body, the tables with joins of a query, an expression with
\* those under it, the expressions of a query, the query with those in it.
RECURSIVE SelectsOf(_), TablesIn(_), NodesOf(_), QueriesIn(_)
SelectsOf(x) ==
    CASE x.kind = "Select" -> <<x>>
      [] x.kind = "UnionAll" -> SelectsOf(x.left) \o SelectsOf(x.right)
      [] OTHER -> <<>>
TablesIn(t) ==
    <<t>> \o FlattenSeq(Map(LAMBDA r : IF r.kind = "NestedJoin" THEN TablesIn(r.table) ELSE <<>>,
                            Joined(t)))
TablesOf(q) == FlattenSeq(Map(TablesIn, FlattenSeq(Map(LAMBDA s : s.from, SelectsOf(q.body)))))
NodesOf(e) == <<e>> \o FlattenSeq(Map(NodesOf, Operands(e)))
ExprsOf(q) ==
    FlattenSeq(Map(NodesOf, FlattenSeq(Map(SelectExprs, SelectsOf(q.body)))
                            \o FlattenSeq(Map(OnConditions, TablesOf(q))) \o TailExprs(q)))
QueriesIn(q) ==
    LET derived == SelectSeq(FlattenSeq(Map(Joined, TablesOf(q))), LAMBDA r : r.kind = "Derived")
        inner == q.ctes \o derived \o SelectSeq(ExprsOf(q), IsSubquery)
    IN <<q>> \o FlattenSeq(Map(LAMBDA x : QueriesIn(x.query), inner))

-----------------------------------------------------------------------------
(* Where the code is known to deviate (see the README).                    *)

\* Binary operators are put in parentheses, nothing else is: an operand that
\* is a NOT, a sign or a predicate may be read with what stands around it.
Bare(e) == e.kind \in {"Unary", "IsNull", "Between", "InList", "InSubquery", "Like"}
TakesOperand(e) ==
    \/ e.kind \in {"IsNull", "Between", "InList", "InSubquery", "Like"}
    \/ e.kind = "Binary" /\ e.op \notin {"And", "Or"}
    \/ e.kind = "Unary" /\ e.op # "Not"
Misread(q) == \E e \in ExprsIn(LowerQuery(q)) :
                 TakesOperand(e) /\ \E i \in DOMAIN e.args : Bare(e.args[i])

\* NOT EXISTS is read as EXISTS; a side of a union loses its own tail.
LostNot(q) == \E e \in ExprsIn(q) : e.kind = "Exists" /\ e.negated
LostTail(q) == /\ q.body.kind = "UnionAll"
               /\ \E x \in {q.body.left, q.body.right} : x.kind = "Query"

\* The columns of ORDER BY are qualified by a relation that does not exist.
LostOrder(q) == q.order_by # <<>>

\* ClickHouse: a wildcard over one table of the catalog and other relations
\* is written out as if all the columns were the table's.
MixedWildcard(q) ==
    /\ q.body.kind = "Select"
    /\ \E i \in DOMAIN q.body.projection : /\ q.body.projection[i].kind = "Wildcard"
                                          /\ q.body.projection[i].qualifier = None
    /\ Len(ScopeFromFrom(q.body.from)) = 1
    /\ \E i \in DOMAIN q.body.from : q.body.from[i].joins # <<>>

\* An aggregation state has no value that QueryEval could take it for:
\* what is asked of a view on ClickHouse is left to StatesAreMerged.
ReadsView(plan) ==
    /\ request.backend = "clickhouse"
    /\ \E q \in Range(QueriesIn(plan)) : \E t \in Range(TablesOf(q)) :
          \E r \in Range(Joined(t)) : r.kind = "Table" /\ r.name \in DOMAIN MergeFn

Deviates(q) ==
    \/ Misread(q) \/ LostNot(q) \/ LostTail(q) \/ LostOrder(q)
    \/ request.backend = "clickhouse" /\ MixedWildcard(bound.plan)

\* The schema promises something else than the engine answers in four cases.
\* A sum and a mean are declared Float64: of whole numbers PostgreSQL makes a
\* numeric of both and ClickHouse a whole sum.
Calls(functions) == \E e \in ExprsIn(bound.plan) : e.kind = "Function" /\ e.function \in functions
LooseSum(v, field) ==
    field.ty = Float64 /\ v[1] \in {"int", "decimal"} /\ Calls({"sum", "avg"})
\* A quotient is typed by its operands: of whole numbers ClickHouse makes a
\* float.
LooseQuotient(v, field) ==
    /\ request.backend = "clickhouse" /\ field.ty = Int64 /\ v[1] = "float"
    /\ \E e \in ExprsIn(bound.plan) : e.kind = "Binary" /\ e.op = "Divide"
\* After the ClickHouse rewrite the schema of a union is its left side's: a
\* NULL of the right side that the binder had seen is forgotten.
LooseUnion(v, i) ==
    /\ request.backend = "clickhouse" /\ bound.plan.body.kind = "UnionAll"
    /\ v = Null /\ bound.schema[i].nullable
\* A wildcard that the rewrite leaves has the types of what it read before:
\* the UUIDs of a derived table or common table expression are text by then.
RECURSIVE Rewritten(_)
Rewritten(r) ==
    CASE r.kind = "Table" -> r.name \notin DOMAIN Catalog
      [] r.kind = "Derived" -> TRUE
      [] r.kind = "NestedJoin" -> \E x \in Range(Joined(r.table)) : Rewritten(x)
LooseWildcard(v, field) ==
    /\ request.backend = "clickhouse" /\ field.ty = Uuid /\ v[1] = "text"
    /\ LET s == RewritePlan(bound.plan).body
       IN /\ \E i \in DOMAIN s.projection : s.projection[i].kind = "Wildcard"
          /\ \E t \in Range(s.from) : \E r \in Range(Joined(t)) : Rewritten(r)

-----------------------------------------------------------------------------
(* What the compiler promises.                                             *)

\* An artifact that is run answers what the text asked for: the same rows
\* with the values the client supplied for its parameters, or a refusal where
\* the text itself would have been refused.  With overrides, what the text
\* asked for with the new conditions in it.
\* (apply_selection_overrides, QueryCompiler::parse, bind_and_validate and emit, over both adapters.)
ArtifactMeansSource ==
    LET q == ParseSyql([request.source EXCEPT !.query = request.intended])
        asked == Engine(q, [tables |-> Database, params |-> request.supplied,
                            engine |-> request.backend])
    IN stage = "done" /\ ~Deviates(q) /\ ~ReadsView(bound.plan) => SameRows(q, AsText(result), AsText(asked))


\* How deep the recursion of a pass goes into a tree: an expression, a
\* relation, a union or a query under another one is a level of its own.
RECURSIVE Height(_), RelationHeight(_), SetExprHeight(_), QueryHeight(_)
Deepest(heights) == Max({0} \cup heights)
Height(e) == 1 + Deepest({Height(x) : x \in Range(Operands(e))}
                         \cup (IF IsSubquery(e) THEN {QueryHeight(e.query)} ELSE {}))
TableHeight(t) == Deepest({RelationHeight(r) : r \in Range(Joined(t))}
                          \cup {Height(e) : e \in Range(OnConditions(t))})
RelationHeight(r) ==
    1 + (CASE r.kind = "Derived" -> QueryHeight(r.query)
           [] r.kind = "NestedJoin" -> TableHeight(r.table)
           [] OTHER -> 0)
SetExprHeight(x) ==
    CASE x.kind = "Select" -> Deepest({Height(e) : e \in Range(SelectExprs(x))}
                                      \cup {TableHeight(t) : t \in Range(x.from)})
      [] x.kind = "UnionAll" -> 1 + Deepest({SetExprHeight(x.left), SetExprHeight(x.right)})
      [] OTHER -> 1
QueryHeight(q) ==
    Deepest({SetExprHeight(q.body)} \cup {Height(e) : e \in Range(TailExprs(q))}
            \cup {1 + QueryHeight(q.ctes[i].query) : i \in DOMAIN q.ctes})

\* The sum of f over the query and those in it.
Total(f(_), q) == FoldLeft(LAMBDA n, x : n + f(x), 0, QueriesIn(q))

\* A query that the binder has walked is no larger than its budget: neither
\* deeper nor with more expressions, joins, common table expressions and
\* parameters, those in derived tables, nested joins, ON conditions, unions,
\* windows and subqueries included.
\* (QueryBudget::check in parse and again in bind_and_validate.)
BudgetBoundsTree ==
    bound # <<>> =>
        /\ QueryHeight(bound.plan) <= request.budget.nesting_depth
        /\ Total(LAMBDA q : Len(ExprsOf(q)), bound.plan) <= request.budget.syntax_nodes
        /\ Total(LAMBDA q : FoldLeft(LAMBDA n, t : n + Len(t.joins), 0, TablesOf(q)), bound.plan)
             <= request.budget.joins
        /\ Total(LAMBDA q : Len(q.ctes), bound.plan) <= request.budget.ctes
        /\ Cardinality(ParametersOf(bound.plan)) <= request.budget.parameters
        /\ request.source.bytes <= request.budget.input_bytes

\* What a client is told of a query before it is bound holds afterwards.  One
\* that fills what inspect_parameters names has filled every parameter the
\* binder finds, as long as each placeholder has a number or a name; the
\* columns told are those of the artifact's schema; and the limit told is the
\* number of rows that come back at most.
\* (inspect.rs against the binder's own walk and the renamings after it.)
InspectionIsTrue ==
    summary # <<>> =>
        LET told == summary[1].parameters
            columns == summary[1].projected_columns IN
        /\ bound # <<>> /\ AnyPosition \notin ParametersOf(parsed.query) =>
              \A i \in DOMAIN bound.parameters :
                 LET r == bound.parameters[i].reference IN
                 IF r[1] = 0 THEN r[2] <= told.positional_count ELSE r[2] \in told.named_params
        /\ artifact # <<>> /\ columns # <<>> =>
              /\ Len(columns[1]) = Len(artifact.schema)
              /\ \A i \in DOMAIN columns[1] : columns[1][i] \in {NoLabel, artifact.schema[i].name}
        /\ stage = "done" /\ summary[1].row_limit # <<>> =>
              Len(result.rows) <= summary[1].row_limit[1]

\* A call of the merge function with DISTINCT, a filter or a window is not
\* taken for one, and its argument is wrapped once more.
WrappedAgain(call) == call.distinct \/ call.filter # <<>> \/ call.over # <<>>

\* The functions that read a state column of a view in FROM.
ReadersOf(e, s) ==
    LET views == {r \in UNION {Range(Joined(t)) : t \in Range(FlattenSeq(Map(TablesIn, s.from)))} :
                     r.kind = "Table" /\ r.name \in DOMAIN MergeFn}
    IN {WrapperSpec(MergeFn[v.name][e.name]) :
           v \in {r \in views : /\ e.relation = IF r.alias = None THEN r.name ELSE r.alias
                               /\ e.name \in DOMAIN MergeFn[r.name]}}

\* In what ClickHouse is sent, a column that holds an aggregation state is
\* read through its merge function, once, in the projection and the HAVING
\* of every SELECT: those of derived tables, common table expressions,
\* subqueries and the sides of a union too.  (rewrite_select and rewrite_expr;
\* a wildcard is not wrapped, nor what stands in a filter or a window.)
StatesAreMerged ==
    LET wildcards(q) == \E s \in Range(SelectsOf(q.body)) : \E i \in DOMAIN s.projection :
                           s.projection[i].kind = "Wildcard"
        \* the state columns of s with the calls around them
        states(s) == LET RECURSIVE around(_, _)
                         around(e, path) ==
                            IF e.kind = "Column" /\ ReadersOf(e, s) # {} THEN {<<e, path>>}
                            ELSE LET below == IF e.kind = "Function" THEN e.args ELSE Operands(e)
                                     under == IF e.kind = "Function" THEN Append(path, e)
                                              ELSE path
                                 IN UNION {around(x, under) : x \in Range(below)}
                     IN UNION {around(e, <<>>) : e \in Range(SelectExprs([s EXCEPT
                                                   !.selection = <<>>, !.group_by = <<>>]))}
    IN artifact # <<>> /\ request.backend = "clickhouse"
       /\ (\A q \in Range(QueriesIn(parsed.query)) : ~wildcards(q)) =>
          \A q \in Range(QueriesIn(ReadQuery(artifact.text))) : \A s \in Range(SelectsOf(q.body)) :
             \A p \in states(s) :
                \/ \E i \in DOMAIN p[2] : WrappedAgain(p[2][i])
                \/ Cardinality({i \in DOMAIN p[2] : p[2][i].function \in ReadersOf(p[1], s)}) = 1
=============================================================================
