--------------------------- MODULE SyntaxTransform ---------------------------
(***************************************************************************)
(* crates/queryfabric-opt/src/syntax.rs: rewriting a parsed query.  A walk *)
(* rebuilds the tree from its leaves; the one transformer the crate brings *)
(* gives the SELECTs it is told of another condition.  Spans and node ids  *)
(* are copied; a rewrite of the crate's own never fails.                   *)
(***************************************************************************)
EXTENDS QueryTree

RECURSIVE TransformExpr(_, _), TransformQuery(_, _), TransformTable(_, _), TransformSetExpr(_, _)

TransformExpr(e, overrides) ==
    LET rebuilt == WithOperands(e, Map(LAMBDA x : TransformExpr(x, overrides), Operands(e)))
    IN IF IsSubquery(e) THEN [rebuilt EXCEPT !.query = TransformQuery(@, overrides)] ELSE rebuilt

TransformExprs(es, overrides) == Map(LAMBDA e : TransformExpr(e, overrides), es)

TransformProjectionItem(item, overrides) ==
    IF item.kind = "Expr" THEN [item EXCEPT !.expr = TransformExpr(@, overrides)] ELSE item

TransformRelation(r, overrides) ==
    CASE r.kind = "Derived" -> [r EXCEPT !.query = TransformQuery(@, overrides)]
      [] r.kind = "NestedJoin" -> [r EXCEPT !.table = TransformTable(@, overrides)]
      [] OTHER -> r

TransformJoin(j, overrides) ==
    [j EXCEPT !.relation = TransformRelation(@, overrides), !.on = TransformExprs(@, overrides)]

TransformTable(t, overrides) ==
    From(TransformRelation(t.relation, overrides), Map(LAMBDA j : TransformJoin(j, overrides), t.joins))

\* SelectionOverrideTransformer::transform_select: the condition of a SELECT
\* is replaced or kept, and never walked.
TransformSelect(s, overrides) ==
    [s EXCEPT !.projection = Map(LAMBDA i : TransformProjectionItem(i, overrides), @),
              !.from = Map(LAMBDA t : TransformTable(t, overrides), @),
              !.selection = IF s.id \in DOMAIN overrides THEN overrides[s.id] ELSE @,
              !.group_by = TransformExprs(@, overrides),
              !.having = TransformExprs(@, overrides)]

TransformSetExpr(x, overrides) ==
    CASE x.kind = "Select" -> TransformSelect(x, overrides)
      [] x.kind = "UnionAll" -> UnionAll(TransformSetExpr(x.left, overrides),
                                         TransformSetExpr(x.right, overrides))
      [] OTHER -> x

TransformOrderByExpr(o, overrides) == [o EXCEPT !.expr = TransformExpr(@, overrides)]

TransformQuery(q, overrides) ==
    [q EXCEPT !.ctes = Map(LAMBDA c : [c EXCEPT !.query = TransformQuery(@, overrides)], @),
              !.body = TransformSetExpr(@, overrides),
              !.order_by = Map(LAMBDA o : TransformOrderByExpr(o, overrides), @),
              !.limit = TransformExprs(@, overrides),
              !.offset = TransformExprs(@, overrides)]

\* overrides: id of a SELECT -> its new condition, <<>> for none.
ApplySelectionOverrides(q, overrides) == TransformQuery(q, overrides)

\* A conjunction as the list of its members, and back.
RECURSIVE FlattenBooleanAnd(_)
FlattenBooleanAnd(e) ==
    IF e.kind = "Binary" /\ e.op = "And"
    THEN FlattenBooleanAnd(e.args[1]) \o FlattenBooleanAnd(e.args[2])
    ELSE <<e>>

RebuildBooleanAnd(items) ==
    IF items = <<>> THEN <<>> ELSE <<FoldLeft(And, Head(items), Tail(items))>>
=============================================================================
