----------------------------- MODULE SqlLowering -----------------------------
(***************************************************************************)
(* crates/queryfabric-dialect-sql: from the parser's tree to the query     *)
(* tree.  Where the code calls emit_unsupported, the lowered node keeps    *)
(* the clause in "clauses": a lowered tree with a clause left has an error *)
(* diagnostic.  What the code drops without one is gone from the tree.     *)
(***************************************************************************)
EXTENDS QueryTree

\* The clauses emit_unsupported is called for.
QueryErrors == {"fetch", "locks", "for", "pipes", "limit_by", "order_by_all"}
FunctionErrors == {"odbc", "within_group", "null_treatment", "named_argument",
                   "window_name", "window_frame", "named_window"}
JoinKinds == {"Inner", "Left", "Right", "Full", "Cross"}
BinaryOperators == {"Add", "Subtract", "Multiply", "Divide", "Eq", "NotEq", "Lt", "LtEq",
                    "Gt", "GtEq", "And", "Or"}
UnaryOperators == {"Plus", "Minus", "Not"}

RECURSIVE LowerExpr(_), LowerQuery(_), LowerSetExpr(_), LowerRelation(_)

Unlowerable(e) ==
    \/ e.kind = "Other"
    \/ e.kind = "Binary" /\ e.op \notin BinaryOperators
    \/ e.kind = "Unary" /\ e.op \notin UnaryOperators

LowerOrderByExpr(o) == [o EXCEPT !.expr = LowerExpr(@)]

\* Functions.  The star of COUNT(*) is no argument; any duplicate treatment,
\* ALL too, reads as DISTINCT; the arguments' own ORDER BY is dropped.
LowerFunction(e) ==
    LET star(arg) == arg.kind = "Star"
        kept == IF e.function = "count"
                THEN SelectSeq(e.args, LAMBDA a : ~star(a)) ELSE e.args
        arg(a) == IF star(a) THEN UnsupportedExpr ELSE LowerExpr(a)
        window(w) == Window(Map(LowerExpr, w.partition_by),
                            Map(LAMBDA o : LowerOrderByExpr(o), w.order_by))
    IN [e EXCEPT !.args = Map(arg, kept),
                 !.distinct = @ \/ "all" \in e.clauses,
                 !.filter = Map(LowerExpr, @),
                 !.over = Map(window, @),
                 !.clauses = @ \cap FunctionErrors]

\* Expressions.  Parentheses go, and so does the NOT of NOT EXISTS.
LowerExpr(e) ==
    LET lowered == WithOperands(e, Map(LowerExpr, Operands(e))) IN
    CASE e.kind = "Nested" -> LowerExpr(e.args[1])
      [] Unlowerable(e) -> UnsupportedExpr
      [] e.kind = "Function" -> LowerFunction(e)
      [] e.kind = "Exists" -> [e EXCEPT !.query = LowerQuery(@), !.negated = FALSE]
      [] IsSubquery(e) -> [lowered EXCEPT !.query = LowerQuery(@)]
      [] OTHER -> lowered

\* A query.  ORDER BY ALL leaves no ordering, and a diagnostic.
LowerQuery(q) ==
    [q EXCEPT !.ctes = Map(LAMBDA c : [c EXCEPT !.query = LowerQuery(@)], @),
              !.body = LowerSetExpr(@),
              !.order_by = Map(LAMBDA o : LowerOrderByExpr(o), @),
              !.limit = Map(LowerExpr, @),
              !.offset = Map(LowerExpr, @),
              !.clauses = @ \cap QueryErrors]

LowerProjectionItem(item) ==
    CASE item.kind = "Wildcard" -> [item EXCEPT !.clauses = {}]
      [] item.kind = "Expr" -> [item EXCEPT !.expr = LowerExpr(@)]
      [] OTHER -> item

\* A join the subset lacks reads as an inner join without a condition, and a
\* diagnostic.
LowerTableWithJoins(t) ==
    LET join(j) ==
            IF j.kind \in JoinKinds
            THEN [j EXCEPT !.relation = LowerRelation(@),
                           !.on = IF j.kind = "Cross" THEN <<>> ELSE Map(LowerExpr, @)]
            ELSE [Join("Inner", LowerRelation(j.relation), <<>>) EXCEPT !.clauses = {"join"}]
    IN From(LowerRelation(t.relation), Map(join, t.joins))

\* A SELECT.  DISTINCT ON reads as DISTINCT; QUALIFY, TOP, PREWHERE, the
\* modifiers of GROUP BY and the other extras are dropped.
LowerSelect(s) ==
    [s EXCEPT !.distinct = @ \/ "distinct_on" \in s.clauses,
              !.projection = Map(LowerProjectionItem, @),
              !.from = Map(LowerTableWithJoins, @),
              !.selection = Map(LowerExpr, @),
              !.group_by = IF "group_by_all" \in s.clauses THEN <<UnsupportedExpr>>
                           ELSE Map(LowerExpr, @),
              !.having = Map(LowerExpr, @),
              !.clauses = {}]

\* Of a query in parentheses only the body is read: its own common table
\* expressions, ORDER BY and LIMIT are dropped.
LowerSetExpr(x) ==
    CASE x.kind = "Select" -> LowerSelect(x)
      [] x.kind = "Query" -> LowerSetExpr(x.query.body)
      [] x.kind = "UnionAll" -> UnionAll(LowerSetExpr(x.left), LowerSetExpr(x.right))
      [] OTHER -> UnsupportedSetExpr

\* Of a table only its name and alias are read, of a derived table its query
\* and alias: samples, arguments, column aliases and LATERAL are dropped.
LowerRelation(r) ==
    CASE r.kind = "Table" -> [r EXCEPT !.clauses = {}]
      [] r.kind = "Derived" -> [r EXCEPT !.query = LowerQuery(@), !.clauses = {}]
      [] r.kind = "NestedJoin" -> [r EXCEPT !.table = LowerTableWithJoins(@)]
      [] OTHER -> UnsupportedRelation
=============================================================================
