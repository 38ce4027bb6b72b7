---------------------------- MODULE QueryFeatures ----------------------------
(***************************************************************************)
(* crates/queryfabric-catalog: what a query asks of a backend (features.rs *)
(* and the capability requirements of bind/query.rs) and whether a backend *)
(* says it can do it (render/analysis.rs).  A feature is its name; the     *)
(* functions of a query are collected beside the features.                 *)
(***************************************************************************)
EXTENDS QueryBinding

Features(names, functions) == [names |-> names, functions |-> functions]
MergeFeatures(parts) ==
    Features(UNION {p.names : p \in parts}, UNION {p.functions : p \in parts})
NoFeatures == Features({}, {})
If(condition, name) == IF condition THEN {name} ELSE {}

\* The parser's tree is judged by the names of its functions, the bound one
\* by their signatures.
SyntaxFunctionFeatures(e) ==
    Features(If(e.distinct, "distinct_aggregates") \cup If(e.over # <<>>, "windows")
             \cup If(e.function \in Aggregates \cup {"quantile", "avg_merge", "count_merge", "sum_merge"},
                     "aggregates"),
             {e.function})
BoundFunctionFeatures(e) ==
    LET kind == Builtins[e.function].kind IN
    Features(If(e.distinct, "distinct_aggregates")
             \cup If(e.over # <<>> \/ kind = "Window", "windows")
             \cup If(kind = "Aggregate" \/ e.function \in Approximate, "aggregates"),
             {e.function})

RECURSIVE VisitExpr(_, _), VisitRelation(_, _), VisitSetExpr(_, _), PlanFeatures(_, _)

\* The filter and the window of a function are not visited.
VisitExpr(e, bound) ==
    LET below == IF e.kind = "Function" THEN e.args ELSE Operands(e)
        own == CASE e.kind = "Function" ->
                      IF bound THEN BoundFunctionFeatures(e) ELSE SyntaxFunctionFeatures(e)
                 [] e.kind = "InSubquery" -> Features({"in_subqueries"}, {})
                 [] e.kind \in {"ScalarSubquery", "Exists"} -> Features({"scalar_subqueries"}, {})
                 [] OTHER -> NoFeatures
    IN MergeFeatures({own} \cup {VisitExpr(below[i], bound) : i \in DOMAIN below}
                     \cup IF IsSubquery(e) THEN {PlanFeatures(e.query, bound)} ELSE {})

\* The conditions of a nested join are not visited.
VisitRelation(r, bound) ==
    CASE r.kind = "Derived" ->
            MergeFeatures({Features({"derived_tables"}, {}), PlanFeatures(r.query, bound)})
      [] r.kind = "NestedJoin" ->
            MergeFeatures({Features({"derived_tables"}, {})}
                          \cup {VisitRelation(x, bound) : x \in Range(Joined(r.table))})
      [] OTHER -> NoFeatures

VisitSelect(s, bound) ==
    MergeFeatures({Features(If(\E i \in DOMAIN s.from : s.from[i].joins # <<>>, "joins"), {})}
        \cup {VisitExpr(e, bound) : e \in Range(SelectExprs(s))}
        \cup UNION {{VisitRelation(r, bound) : r \in Range(Joined(s.from[i]))}
                    \cup {VisitExpr(e, bound) : e \in Range(OnConditions(s.from[i]))} :
                       i \in DOMAIN s.from})

VisitSetExpr(x, bound) ==
    CASE x.kind = "Select" -> VisitSelect(x, bound)
      [] x.kind = "UnionAll" ->
            MergeFeatures({Features({"set_operations"}, {}), VisitSetExpr(x.left, bound),
                           VisitSetExpr(x.right, bound)})
      [] OTHER -> Features(If(~bound, "unsupported_set_ops"), {})

\* ORDER BY, LIMIT and OFFSET are not visited either.
PlanFeatures(q, bound) ==
    MergeFeatures({Features(If(q.ctes # <<>>, "ctes")
                            \cup If(~bound /\ q.with_recursive, "recursive_ctes")
                            \cup (q.backend_clauses \cap {"settings", "format"})
                            \cup If(q.limit # <<>> \/ q.offset # <<>>, "limit_offset"), {}),
                   VisitSetExpr(q.body, bound)}
                  \cup {PlanFeatures(q.ctes[i].query, bound) : i \in DOMAIN q.ctes})

PlanFeaturesFromSyntax(q) == PlanFeatures(q, FALSE)
PlanFeaturesFromBound(q) == PlanFeatures(q, TRUE)

\* Whether the backend supports the plan.  Only ClickHouse has the backend
\* clauses, approximate aggregates and functions in a namespace.
AnalyzeBackendSupport(plan, backend) ==
    LET f == PlanFeaturesFromBound(plan)
        clauses == IF backend = "clickhouse" THEN {} ELSE f.names \cap {"settings", "format"}
        unmapped == {g \in f.functions : backend \notin Builtins[g].backends}
        special == IF backend = "clickhouse" THEN {}
                   ELSE f.functions \cap (Approximate \cup Namespaced)
    IN clauses \cup unmapped \cup special = {}
=============================================================================
