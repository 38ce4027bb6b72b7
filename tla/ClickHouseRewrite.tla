-------------------------- MODULE ClickHouseRewrite --------------------------
(***************************************************************************)
(* crates/queryfabric-adapter-clickhouse/src/rewrite: what the adapter     *)
(* changes in a bound plan before it renders it.  A column of a            *)
(* materialized view that holds an aggregation state is wrapped in its     *)
(* merge function, a UUID in the result is turned into text, and a         *)
(* wildcard is written out so that its columns can be wrapped too.         *)
(***************************************************************************)
EXTENDS QueryBinding

CONSTANT
    MergeFn   \* materialized view -> its state columns -> their merge function

\* The function that reads a state; None for a name that is not known.
WrapperSpec(merge_fn) ==
    CASE merge_fn = "summerge" -> "sum_merge" [] merge_fn = "countmerge" -> "count_merge"
      [] merge_fn = "avgmerge" -> "avg_merge" [] merge_fn = "stddevpopmerge" -> "stddevpop_merge"
      [] merge_fn \in Aggregates -> merge_fn
      [] OTHER -> None

\* The scope of a SELECT: the tables of its FROM clause, the ones in nested
\* joins too, that the catalog knows.  Derived tables are not in it.
RECURSIVE CollectBindings(_)
CollectBindings(r) ==
    CASE r.kind = "Table" /\ r.name \in DOMAIN Catalog -> <<[name |-> r.alias, relation |-> r.name]>>
      [] r.kind = "NestedJoin" -> FlattenSeq(Map(CollectBindings, Joined(r.table)))
      [] OTHER -> <<>>
ScopeFromFrom(from) ==
    FlattenSeq(Map(LAMBDA t : FlattenSeq(Map(CollectBindings, Joined(t))), from))

\* The relation a wildcard is written out for: the one it names, or the only
\* one in scope; None leaves the wildcard alone.
TargetBindingName(scope, qualifier) ==
    CASE qualifier # None -> IF \E b \in Range(scope) : b.name = qualifier THEN qualifier ELSE None
      [] Len(scope) = 1 -> scope[1].name
      [] OTHER -> None

ResolveWrapper(scope, relation, name) ==
    LET wrappers == SelectSeq(scope, LAMBDA b :
                        /\ relation \in {None, b.name}
                        /\ b.relation \in DOMAIN MergeFn
                        /\ name \in DOMAIN MergeFn[b.relation]
                        /\ WrapperSpec(MergeFn[b.relation][name]) # None)
    IN IF wrappers = <<>> THEN None ELSE WrapperSpec(MergeFn[wrappers[1].relation][name])

\* Mutant: a state column under its merge function is wrapped once more.
NeverWrapped(e, scope) == FALSE

\* A call of the right merge function on a state column stays as it is.
IsExistingWrapper(e, scope) ==
    /\ ~e.distinct /\ e.filter = <<>> /\ e.over = <<>> /\ Len(e.args) = 1
    /\ e.args[1].kind = "Column"
    /\ ResolveWrapper(scope, e.args[1].relation, e.args[1].name) = e.function

IsToStringCall(e) ==
    /\ e.kind = "Function" /\ e.function = "toString" /\ Len(e.args) = 1
    /\ ~e.distinct /\ e.filter = <<>> /\ e.over = <<>>

NeedsText(e, ty) == ty = Uuid /\ ~IsToStringCall(e)
RewriteUuidArrow(e, ty) == IF NeedsText(e, ty) THEN Function("toString", <<e>>) ELSE e
TextField(e, field) == IF NeedsText(e, field.ty) THEN [field EXCEPT !.ty = Utf8] ELSE field

RECURSIVE RewriteExpr(_, _, _), RewritePlan(_), RewriteRelation(_)

RewriteColumn(e, scope, wrap) ==
    LET wrapper == ResolveWrapper(scope, e.relation, e.name)
    IN IF wrap /\ wrapper # None THEN Function(wrapper, <<e>>) ELSE e

\* In a filter or a window nothing is wrapped.
RewriteFunction(e, scope, wrap) ==
    LET plain(x) == RewriteExpr(x, scope, FALSE)
        window(w) == Window(Map(plain, w.partition_by),
                            Map(LAMBDA o : [o EXCEPT !.expr = plain(@)], w.order_by))
    IN [e EXCEPT !.args = IF wrap /\ IsExistingWrapper(e, scope) THEN @
                          ELSE Map(LAMBDA x : RewriteExpr(x, scope, wrap), @),
                 !.filter = Map(plain, @),
                 !.over = Map(window, @)]

RewriteSubquery(e, scope, wrap) ==
    [WithOperands(e, Map(LAMBDA x : RewriteExpr(x, scope, wrap), e.args))
        EXCEPT !.query = RewritePlan(@)]

RewriteExpr(e, scope, wrap) ==
    CASE e.kind = "Column" -> RewriteColumn(e, scope, wrap)
      [] e.kind = "Function" -> RewriteFunction(e, scope, wrap)
      [] IsSubquery(e) -> RewriteSubquery(e, scope, wrap)
      [] OTHER -> WithOperands(e, Map(LAMBDA x : RewriteExpr(x, scope, wrap), Operands(e)))

\* Conditions of joins are rewritten without a scope: nothing is wrapped.
RewriteTable(t) ==
    From(RewriteRelation(t.relation),
         Map(LAMBDA j : [j EXCEPT !.relation = RewriteRelation(@),
                                  !.on = Map(LAMBDA e : RewriteExpr(e, <<>>, FALSE), @)], t.joins))

RewriteRelation(r) ==
    CASE r.kind = "Derived" -> [r EXCEPT !.query = RewritePlan(@)]
      [] r.kind = "NestedJoin" -> [r EXCEPT !.table = RewriteTable(@)]
      [] OTHER -> r

\* A wildcard written out, all of its fields as columns of one relation.
ExpandWildcard(item, scope) ==
    LET relation == TargetBindingName(scope, item.qualifier)
        column(f) == LET c == Column(relation, f.name) IN
                     [Item(RewriteUuidArrow(c, f.ty), f.name) EXCEPT !.fields = <<TextField(c, f)>>]
    IN IF relation = None THEN <<item>> ELSE Map(column, item.fields)

\* A projection item: an expression that is turned into text keeps its name.
RewriteItem(item, scope) ==
    LET field == item.fields[1]
        written(e) ==
            [item EXCEPT !.expr = RewriteUuidArrow(e, field.ty),
                         !.alias = IF @ = None /\ NeedsText(e, field.ty) THEN field.name ELSE @,
                         !.fields = <<TextField(e, field)>>]
    IN CASE item.kind = "Expr" -> <<written(RewriteExpr(item.expr, scope, TRUE))>>
         [] item.kind = "Wildcard" -> ExpandWildcard(item, scope)
         [] OTHER -> <<item>>

RewriteSelect(s) ==
    LET scope == ScopeFromFrom(s.from)
    IN [s EXCEPT !.from = Map(RewriteTable, @),
                 !.projection = FlattenSeq(Map(LAMBDA item : RewriteItem(item, scope), @)),
                 !.selection = Map(LAMBDA e : RewriteExpr(e, scope, FALSE), @),
                 !.group_by = [i \in DOMAIN @ |->
                    RewriteUuidArrow(RewriteExpr(@[i], scope, FALSE), s.group_types[i])],
                 !.having = Map(LAMBDA e : RewriteExpr(e, scope, TRUE), @)]

RECURSIVE RewriteSetExpr(_)
RewriteSetExpr(x) ==
    CASE x.kind = "Select" -> RewriteSelect(x)
      [] x.kind = "UnionAll" -> UnionAll(RewriteSetExpr(x.left), RewriteSetExpr(x.right))
      [] OTHER -> x

\* The schema of a rewritten body: of a union, the left side's.
RECURSIVE ResultSchemaOf(_)
ResultSchemaOf(x) ==
    CASE x.kind = "Select" -> ProjectionSchema(x.projection)
      [] x.kind = "UnionAll" -> ResultSchemaOf(x.left)
      [] OTHER -> <<>>

RewritePlan(q) ==
    LET plain(e) == RewriteExpr(e, <<>>, FALSE)
    IN [q EXCEPT !.ctes = Map(LAMBDA c : [c EXCEPT !.query = RewritePlan(@)], @),
                 !.body = RewriteSetExpr(@),
                 !.order_by = Map(LAMBDA o : [o EXCEPT !.expr = plain(@)], @),
                 !.limit = Map(plain, @),
                 !.offset = Map(plain, @)]
=============================================================================
