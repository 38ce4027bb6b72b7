----------------------------- MODULE QueryBudget -----------------------------
(***************************************************************************)
(* crates/queryfabric-ir/src/budget.rs: the size of a query tree, measured *)
(* before anything is bound, and the limits it is held against.            *)
(***************************************************************************)
EXTENDS QueryTree, Integers

\* The dimensions, in the order the check looks at them.
Dimensions == <<"input_bytes", "parameters", "syntax_nodes", "nesting_depth", "joins", "ctes">>

Usage(nodes, depth) ==
    [input_bytes |-> 0, parameters |-> 0, syntax_nodes |-> nodes, nesting_depth |-> depth,
     joins |-> 0, ctes |-> 0]

\* The first dimension that is exceeded, or None.
CheckBudget(budget, usage) ==
    LET over == SelectSeq(Dimensions, LAMBDA d : usage[d] > budget[d])
    IN IF over = <<>> THEN None ELSE over[1]

\* Mutant: what a subquery holds is measured as if it stood at the top.
MergeFlat(target, source, extra_depth) ==
    [target EXCEPT !.syntax_nodes = @ + source.syntax_nodes,
                   !.nesting_depth = Max({@, source.nesting_depth}),
                   !.joins = @ + source.joins,
                   !.ctes = @ + source.ctes]

MergeUsage(target, source, extra_depth) ==
    [target EXCEPT !.syntax_nodes = @ + source.syntax_nodes,
                   !.nesting_depth = Max({@, source.nesting_depth + extra_depth}),
                   !.joins = @ + source.joins,
                   !.ctes = @ + source.ctes]

\* target and everything measured in parts
MergeAll(target, parts) == FoldLeft(LAMBDA u, v : MergeUsage(u, v, 0), target, parts)

RECURSIVE MeasureQuery(_), MeasureSetExpr(_, _), MeasureTable(_, _), MeasureRelation(_, _),
          MeasureExpr(_, _)

MeasureExpr(e, depth) ==
    LET own == MergeAll(Usage(1, depth),
                        Map(LAMBDA x : MeasureExpr(x, depth + 1), Operands(e)))
    IN IF IsSubquery(e) THEN MergeUsage(own, MeasureQuery(e.query), depth + 1) ELSE own

MeasureRelation(r, depth) ==
    CASE r.kind = "Derived" -> MergeUsage(Usage(1, depth), MeasureQuery(r.query), depth + 1)
      [] r.kind = "NestedJoin" -> MergeUsage(Usage(1, depth), MeasureTable(r.table, depth + 1), 0)
      [] OTHER -> Usage(1, depth)

MeasureTable(t, depth) ==
    LET joined(j) == MergeAll([Usage(1, 0) EXCEPT !.joins = 1],
                              <<MeasureRelation(j.relation, depth)>>
                              \o Map(LAMBDA x : MeasureExpr(x, depth), j.on))
    IN MergeAll(MeasureRelation(t.relation, depth), Map(joined, t.joins))

MeasureSetExpr(x, depth) ==
    CASE x.kind = "Select" ->
            MergeAll(Usage(1 + Len(x.projection), depth),
                     Map(LAMBDA e : MeasureExpr(e, depth), SelectExprs(x))
                     \o Map(LAMBDA t : MeasureTable(t, depth), x.from))
      [] x.kind = "UnionAll" ->
            MergeAll(Usage(1, depth), <<MeasureSetExpr(x.left, depth + 1),
                                        MeasureSetExpr(x.right, depth + 1)>>)
      [] OTHER -> Usage(1, depth)

\* The common table expressions of a common table expression are counted
\* twice: here, and by MeasureQuery.
MeasureCte(cte) ==
    MergeUsage([Usage(1, 0) EXCEPT !.ctes = Len(cte.query.ctes)], MeasureQuery(cte.query), 1)

MeasureQuery(q) ==
    LET own == [Usage(1 + Len(q.order_by), 0) EXCEPT !.ctes = Len(q.ctes)]
        ctes == FoldLeft(LAMBDA u, cte : MergeUsage(u, MeasureCte(cte), 1), own, q.ctes)
    IN MergeAll(ctes, <<MeasureSetExpr(q.body, 1)>>
                      \o Map(LAMBDA e : MeasureExpr(e, 1), TailExprs(q)))

\* for_parsed: the tree and the length of the text it came from.
UsageOfParsed(q, bytes) == [MeasureQuery(q) EXCEPT !.input_bytes = bytes]
WithParameters(usage, n) == [usage EXCEPT !.parameters = n]
=============================================================================
