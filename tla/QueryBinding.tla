---------------------------- MODULE QueryBinding ----------------------------
(***************************************************************************)
(* crates/queryfabric-catalog/src/bind: names resolved against the         *)
(* catalog, types and nullability inferred, parameters numbered and their  *)
(* types collected from where they stand.                                  *)
(*                                                                         *)
(* The bound tree is the query tree with every column qualified by its     *)
(* relation and every parameter numbered; the types the code stores in it  *)
(* are returned beside it.  The binder's own state is threaded through:    *)
(* [errors, constraints, next], the codes of the errors pushed so far, the *)
(* constraints on the parameters met, and the next free position.          *)
(***************************************************************************)
EXTENDS QueryTree, Functions, Integers

CONSTANT
    Catalog   \* relation name -> its fields, a sequence of Field

\* Types.  A list is <<"List">> followed by the type of its elements.
Unknown == <<"Unknown">>
Boolean == <<"Boolean">>
Int64 == <<"Int64">>
Float64 == <<"Float64">>
Utf8 == <<"Utf8">>
Uuid == <<"Uuid">>
ListOf(ty) == <<"List">> \o ty

Field(name, ty, nullable) == [name |-> name, ty |-> ty, nullable |-> nullable]

\* The type two operands share, Unknown when there is none.  (The code's
\* None is turned into Unknown by every caller but one.)
RECURSIVE CommonType(_, _)
CommonType(a, b) ==
    CASE a = b -> a
      [] a = Unknown -> b
      [] b = Unknown -> a
      [] {a, b} = {Int64, Float64} -> Float64
      [] a[1] = "List" /\ b[1] = "List" ->
            LET inner == CommonType(Tail(a), Tail(b))
            IN IF inner = Unknown THEN Unknown ELSE ListOf(inner)
      [] OTHER -> Unknown

CommonOf(types) == FoldLeft(CommonType, Unknown, types)

\* What a place expects of the expression that stands there; Unknown is no
\* expectation.
Expected(ty, nullable) == [ty |-> ty, nullable |-> nullable]
Anything == Expected(Unknown, "Unknown")
Condition == Expected(Boolean, "NonNull")
Whole == Expected(Int64, "NonNull")

MergeNullable(a, b) ==
    CASE "NonNull" \in {a, b} -> "NonNull" [] "Nullable" \in {a, b} -> "Nullable"
      [] OTHER -> "Unknown"

\* The builtin functions: kind, return type, argument type, the backends that
\* have it.
Signature(kind, returns, backends) == [kind |-> kind, returns |-> returns, backends |-> backends]
Both == {"clickhouse", "postgres"}
Merges == {"sum_merge", "avg_merge", "count_merge", "min_merge", "max_merge", "stddevpop_merge",
           "varpop_merge"}
Quantiles == {"quantile_25", "quantile_50", "quantile_75"}
Approximate == {"quantile"} \cup Quantiles
Namespaced == Merges \cup Quantiles
Builtins ==
    [f \in {"coalesce", "greatest", "least"} |-> Signature("Scalar", Unknown, Both)]
    @@ [f \in {"sqrt"} |-> Signature("Scalar", Float64, Both)]
    @@ [f \in {"toString"} |-> Signature("Scalar", Utf8, {"clickhouse"})]
    @@ [f \in {"count"} |-> Signature("Aggregate", Int64, Both)]
    @@ [f \in {"sum", "avg"} |-> Signature("Aggregate", Float64, Both)]
    @@ [f \in {"min", "max"} |-> Signature("Aggregate", Unknown, Both)]
    @@ [f \in Approximate \cup {"sum_merge", "avg_merge", "stddevpop_merge", "varpop_merge"} |->
            Signature("Aggregate", Float64, {"clickhouse"})]
    @@ [f \in {"count_merge"} |-> Signature("Aggregate", Int64, {"clickhouse"})]
    @@ [f \in {"min_merge", "max_merge"} |-> Signature("Aggregate", Unknown, {"clickhouse"})]
    @@ [f \in {"rank", "dense_rank", "row_number"} |-> Signature("Window", Int64, Both)]
    @@ [f \in {"lag", "lead", "first_value", "last_value"} |-> Signature("Window", Unknown, Both)]

InferFunctionReturnType(f, types) ==
    IF Builtins[f].returns # Unknown THEN Builtins[f].returns
    ELSE CommonOf(types)

InferFunctionNullability(f, nullables) ==
    CASE f \in {"count", "rank", "dense_rank", "row_number"} -> FALSE
      [] Builtins[f].kind = "Aggregate" \/ f \in {"lag", "lead"} -> TRUE
      [] f = "coalesce" -> \A i \in DOMAIN nullables : nullables[i]
      [] OTHER -> \E i \in DOMAIN nullables : nullables[i]

-----------------------------------------------------------------------------
(* Scopes: sequences of [name, fields].                                    *)

Entry(name, fields) == [name |-> name, fields |-> fields]
OutputScope(schema) == <<Entry("__output__", schema)>>

\* The relations and fields a column reference may mean.
ResolveColumn(scope, relation, name) ==
    {<<s, f>> \in UNION {{s} \X DOMAIN scope[s].fields : s \in DOMAIN scope} :
        relation \in {None, scope[s].name} /\ scope[s].fields[f].name = name}

ExpandAll(scope) == FlattenSeq([s \in DOMAIN scope |-> scope[s].fields])
ExpandQualified(scope, qualifier) ==
    LET named == SelectSeq(scope, LAMBDA entry : entry.name = qualifier)
    IN IF named = <<>> THEN <<>> ELSE <<named[1].fields>>


MakeNullable(scope) ==
    [s \in DOMAIN scope |->
        [scope[s] EXCEPT !.fields = [f \in DOMAIN @ |-> [@[f] EXCEPT !.nullable = TRUE]]]]

-----------------------------------------------------------------------------
(* Parameters.                                                             *)

PushError(st, code) == [st EXCEPT !.errors = @ \cup {code}]

\* The reference a placeholder gets, and the state after.
AllocateParameter(reference, st) == IF reference = AnyPosition THEN <<0, st.next>> ELSE reference
AfterAllocation(reference, st) == IF reference = AnyPosition THEN [st EXCEPT !.next = @ + 1] ELSE st

RecordParameterUse(reference, expected, st) ==
    LET old == IF reference \in DOMAIN st.constraints THEN st.constraints[reference] ELSE Anything
        new == Expected(IF expected.ty = Unknown THEN old.ty ELSE CommonType(old.ty, expected.ty),
                        MergeNullable(old.nullable, expected.nullable))
    IN [st EXCEPT !.constraints = (reference :> new) @@ @]

RECURSIVE ValueMatches(_, _, _)
ValueMatches(value, ty, nullable) ==
    CASE value = Null -> nullable
      [] value[1] = "bool" -> ty = Boolean
      [] value[1] = "int" -> ty = Int64
      [] value[1] = "float" -> ty = Float64
      [] value[1] = "text" -> ty = Utf8
      [] value[1] = "uuid" -> ty = Uuid
      [] value[1] = "list" ->
            /\ ty[1] = "List"
            /\ \A i \in DOMAIN value[2] : ValueMatches(value[2][i], Tail(ty), nullable)

\* The error of one parameter, or None.
ParameterError(constraint, value) ==
    CASE constraint.ty = Unknown -> "QF0018"
      [] constraint.nullable = "Unknown" -> "QF0019"
      [] value # <<>> /\ ~ValueMatches(value[1], constraint.ty, constraint.nullable = "Nullable") ->
            "QF0020"
      [] OTHER -> None

\* The parameters in the order of their references, with the values supplied;
\* the errors of those that are not fit.
RefBefore(a, b) == a[1] < b[1] \/ (a[1] = b[1] /\ a[2] < b[2])
SuppliedValue(supplied, reference) ==
    IF reference \in DOMAIN supplied THEN <<supplied[reference]>> ELSE <<>>

FinalizeParameters(st, supplied) ==
    LET refs == SortSeq(SetToSeq(DOMAIN st.constraints), RefBefore)
        binding(r) == [reference |-> r, ty |-> st.constraints[r].ty,
                       nullable |-> st.constraints[r].nullable = "Nullable",
                       value |-> SuppliedValue(supplied, r)]
    IN [bindings |-> Map(binding, refs),
        errors |-> {ParameterError(st.constraints[r], SuppliedValue(supplied, r)) :
                        r \in DOMAIN st.constraints} \ {None}]

\* Free positions start after the highest one a value was supplied for.
NextAutoPositionSeed(supplied) == 1 + Max({0} \cup {r[2] : r \in {q \in DOMAIN supplied : q[1] = 0}})

-----------------------------------------------------------------------------
(* Expressions.                                                            *)

Comparisons == {"Eq", "NotEq", "Lt", "LtEq", "Gt", "GtEq"}
BooleanKinds == {"Between", "InList", "InSubquery", "Exists", "Like", "IsNull"}

\* What operand i of e is expected to be, once the first one is known to be
\* of type "first".
ExpectedOf(e, i, first) ==
    LET n == Len(e.operand) IN
    CASE e.kind = "Cast" -> Expected(e.op, "Nullable")
      [] e.kind = "Like" -> Expected(Utf8, "NonNull")
      [] e.kind = "Binary" /\ e.op \in {"And", "Or"} -> Condition
      [] e.kind = "Binary" /\ e.op \notin Comparisons -> Expected(Float64, "NonNull")
      [] e.kind \in {"Binary", "Between"} /\ i > 1 -> Expected(first, "NonNull")
      [] e.kind = "InList" /\ i > 1 ->
            IF Len(e.args) = 2 /\ e.args[2].kind = "Parameter"
            THEN Expected(ListOf(first), "NonNull") ELSE Expected(first, "NonNull")
      [] e.kind = "Case" ->
            IF i > n /\ i <= n + 2 * Len(e.when_then) /\ (i - n) % 2 = 1 THEN Condition ELSE Anything
      [] e.kind = "Function" ->
            CASE i <= Len(e.args) ->
                    Expected(IF e.function = "sqrt" /\ i = 1 THEN Float64 ELSE Unknown, "NonNull")
              [] i <= Len(e.args) + Len(e.filter) -> Condition
              [] OTHER -> Anything
      [] OTHER -> Anything

\* The results of CASE: every second operand after the first, and the ELSE.
CaseResults(e, out) ==
    LET n == Len(e.operand)
        results == [k \in DOMAIN e.when_then |-> out[n + 2 * k]]
    IN IF e.else_result = <<>> THEN results ELSE Append(results, out[Len(out)])

InferType(e, out) ==
    LET types == Map(LAMBDA b : b.ty, out) IN
    CASE e.kind \in BooleanKinds -> Boolean
      [] e.kind = "Unary" -> IF e.op = "Not" THEN Boolean ELSE types[1]
      [] e.kind = "Binary" ->
            CASE e.op \in Comparisons \cup {"And", "Or"} -> Boolean
              [] CommonOf(types) = Unknown /\ types # <<Unknown, Unknown>> -> Float64
              [] OTHER -> CommonOf(types)
      [] e.kind = "Cast" -> e.op
      [] e.kind = "Case" -> CommonOf(Map(LAMBDA b : b.ty, CaseResults(e, out)))
      [] e.kind = "Function" ->
            InferFunctionReturnType(e.function, SubSeq(types, 1, Len(e.args)))
      [] e.kind = "Tuple" -> <<"Struct">>
      [] e.kind = "Array" -> ListOf(CommonOf(types))

InferNullable(e, out) ==
    LET nullables == Map(LAMBDA b : b.nullable, out) IN
    CASE e.kind = "IsNull" -> FALSE
      [] e.kind = "Case" -> e.else_result = <<>>
                            \/ \E b \in Range(CaseResults(e, out)) : b.nullable
      [] e.kind = "Function" ->
            InferFunctionNullability(e.function, SubSeq(nullables, 1, Len(e.args)))
      [] OTHER -> TRUE \in Range(nullables)

Bound(e, ty, nullable, st) == [e |-> e, ty |-> ty, nullable |-> nullable, st |-> st]
Refused(code, st) == Bound(UnsupportedExpr, Unknown, TRUE, PushError(st, code))

LiteralType(value) ==
    CASE value = Null -> Unknown [] value[1] = "bool" -> Boolean [] value[1] = "int" -> Int64
      [] value[1] = "float" -> Float64 [] value[1] = "text" -> Utf8

RECURSIVE BindExpr(_, _, _, _, _), BindQuery(_, _, _), BindRelation(_, _, _, _),
          BindSetExpr(_, _, _, _)

\* What has been bound so far: the results, their expressions, the state.
Nothing(st) == [out |-> <<>>, es |-> <<>>, st |-> st]
Collect(acc, b) == [out |-> Append(acc.out, b), es |-> Append(acc.es, b.e), st |-> b.st]

\* The operands of e in order, each with what its place expects.
BindOperands(e, scope, outer, st) ==
    FoldLeft(LAMBDA acc, x :
                LET i == Len(acc.out) + 1
                    first == IF i = 1 THEN Unknown ELSE acc.out[1].ty
                IN Collect(acc, BindExpr(x, scope, outer, ExpectedOf(e, i, first), acc.st)),
             Nothing(st), Operands(e))

BindColumn(e, scope, outer, st) ==
    LET local == ResolveColumn(scope, e.relation, e.name)
        at == CHOOSE at \in local : TRUE
        field == scope[at[1]].fields[at[2]]
    IN CASE Cardinality(local) = 1 ->
               Bound(Column(scope[at[1]].name, e.name), field.ty, field.nullable, st)
         [] Cardinality(local) > 1 -> Refused("QF0016", st)
         [] ResolveColumn(outer, e.relation, e.name) # {} -> Refused("QF0014", st)
         [] OTHER -> Refused("QF0015", st)

BindParameter(e, expected, st) ==
    LET reference == AllocateParameter(e.reference, st)
    IN Bound(Parameter(reference), expected.ty, expected.nullable # "NonNull",
             RecordParameterUse(reference, expected, AfterAllocation(e.reference, st)))

\* A subquery is bound after the operands, in a scope of its own that knows
\* the current one as its outer one.  EXISTS takes any number of columns.
BindSubquery(e, ops, q) ==
    LET single == Len(q.schema) = 1
        field == IF single THEN q.schema[1] ELSE Field(None, Unknown, FALSE)
        st == CASE single \/ e.kind = "Exists" -> q.st
                [] e.kind = "ScalarSubquery" -> PushError(q.st, "QF0023")
                [] OTHER -> PushError(q.st, "QF0024")
        bound == [WithOperands(e, ops.es) EXCEPT !.query = q.plan]
    IN CASE e.kind = "Exists" -> Bound(bound, Boolean, FALSE, st)
         [] e.kind = "ScalarSubquery" -> Bound(bound, field.ty, TRUE, st)
         [] OTHER -> Bound(bound, Boolean, ops.out[1].nullable \/ field.nullable, st)

\* An expression whose operands have been bound.
BindComposed(e, ops, scope) ==
    IF IsSubquery(e) THEN BindSubquery(e, ops, BindQuery(e.query, scope, ops.st))
    ELSE Bound(WithOperands(e, ops.es), InferType(e, ops.out), InferNullable(e, ops.out), ops.st)

\* A parameter under IS NULL is allocated and recorded once more before it
\* is bound.
BindExpr(e, scope, outer, expected, st) ==
    LET early == IF e.kind = "IsNull" /\ e.args[1].kind = "Parameter"
                 THEN BindParameter(e.args[1], Expected(Unknown, "Nullable"), st).st ELSE st
    IN CASE e.kind = "Column" -> BindColumn(e, scope, outer, st)
         [] e.kind = "Literal" -> Bound(e, LiteralType(e.value), e.value = Null, st)
         [] e.kind = "Parameter" -> BindParameter(e, expected, st)
         [] e.kind = "Unsupported" -> Refused("QF0012", st)
         [] e.kind = "Function" /\ e.function \notin DOMAIN Builtins -> Refused("QF0013", st)
         [] OTHER -> BindComposed(e, BindOperands(e, scope, outer, early), scope)

\* A sequence of expressions that all stand in places of one kind.
BindAll(es, scope, outer, expected, st) ==
    FoldLeft(LAMBDA acc, x : Collect(acc, BindExpr(x, scope, outer, expected, acc.st)),
             Nothing(st), es)

\* Several such sequences, <<expressions, expected>>, one after the other.
BindPlaces(places, scope, outer, st) ==
    FoldLeft(LAMBDA acc, p :
                LET add(b) == [out |-> Append(acc.out, b), st |-> b.st]
                IN add(BindAll(p[1], scope, outer, p[2], acc.st)),
             [out |-> <<>>, st |-> st], places)

-----------------------------------------------------------------------------
(* Relations, joins, queries.                                              *)

\* A relation and the entry it brings into scope.  A query in FROM sees the
\* scope so far as its outer one, and none of the common table expressions.
UnnamedRelation == "_node"
JoinOn(acc, j, r, on) ==
    LET kept == IF j.kind \in {"Right", "Full"} THEN MakeNullable(acc.entries) ELSE acc.entries
        added == IF j.kind \in {"Left", "Full"} THEN MakeNullable(r.entries) ELSE r.entries
    IN [table |-> [acc.table EXCEPT !.joins = Append(@, Join(j.kind, r.relation, on.es))],
        entries |-> kept \o added, st |-> on.st]

BindTable(t, ctes, outer, scope, st) ==
    LET first(r) == [table |-> From(r.relation, <<>>), entries |-> r.entries, st |-> r.st]
        join(acc, j, r) ==
            JoinOn(acc, j, r, BindAll(j.on, scope \o acc.entries \o r.entries, outer, Condition, r.st))
    IN FoldLeft(LAMBDA acc, j :
                   join(acc, j, BindRelation(j.relation, ctes, scope \o acc.entries, acc.st)),
                first(BindRelation(t.relation, ctes, scope, st)), t.joins)

BindRelation(r, ctes, scope, st) ==
    LET alias == IF r.alias = None THEN UnnamedRelation ELSE r.alias
        found(relation, fields, st2) ==
            [relation |-> relation, entries |-> <<Entry(relation.alias, fields)>>, st |-> st2]
        missing(code) == [relation |-> UnsupportedRelation, entries |-> <<>>,
                          st |-> PushError(st, code)]
        derived(q) == found([r EXCEPT !.query = q.plan, !.alias = alias], q.schema, q.st)
        nested(t) == found([r EXCEPT !.table = t.table, !.alias = alias], ExpandAll(t.entries), t.st)
    IN CASE r.kind = "Table" ->
            LET named == [r EXCEPT !.alias = IF @ = None THEN r.name ELSE @] IN
            (CASE r.name \in DOMAIN ctes -> found(named, ctes[r.name], st)
               [] r.name \in DOMAIN Catalog -> found(named, Catalog[r.name], st)
               [] OTHER -> missing("QF0005"))
         [] r.kind = "Derived" -> derived(BindQuery(r.query, scope, st))
         [] r.kind = "NestedJoin" -> nested(BindTable(r.table, ctes, <<>>, scope, st))
         [] OTHER -> missing("QF0009")

ExpressionName(e) ==
    CASE e.kind = "Column" -> e.name [] e.kind = "Function" -> e.function
      [] OTHER -> UnnamedRelation

\* The projection: each item with the fields of the result it stands for.
BindProjection(items, scope, outer, st) ==
    LET step(acc, item) ==
            LET name == IF item.alias = None THEN ExpressionName(item.expr) ELSE item.alias
                found == IF item.qualifier = None THEN <<ExpandAll(scope)>>
                         ELSE ExpandQualified(scope, item.qualifier)
                add(b) == [items |-> Append(acc.items, [item EXCEPT !.expr = b.e,
                                               !.fields = <<Field(name, b.ty, b.nullable)>>]),
                           st |-> b.st]
            IN CASE item.kind = "Expr" -> add(BindExpr(item.expr, scope, outer, Anything, acc.st))
                 [] item.kind = "Wildcard" ->
                    [items |-> Append(acc.items, [item EXCEPT !.fields = FlattenSeq(found)]),
                     st |-> IF found = <<>> THEN PushError(acc.st, "QF0007") ELSE acc.st]
                 [] OTHER -> [items |-> Append(acc.items, item), st |-> PushError(acc.st, "QF0008")]
    IN FoldLeft(step, [items |-> <<>>, st |-> st], items)

ProjectionSchema(items) == FlattenSeq(Map(LAMBDA item : item.fields, items))

BindFrom(tables, ctes, outer, st) ==
    FoldLeft(LAMBDA acc, t :
                LET add(b) == [tables |-> Append(acc.tables, b.table),
                               entries |-> acc.entries \o b.entries, st |-> b.st]
                IN add(BindTable(t, ctes, outer, acc.entries, acc.st)),
             [tables |-> <<>>, entries |-> <<>>, st |-> st], tables)

\* FROM, WHERE, GROUP BY, HAVING and the projection, in this order.
BindSelect(s, ctes, outer, st) ==
    LET plan(from, clauses, projection) ==
            [plan |-> [s EXCEPT !.projection = projection.items, !.from = from.tables,
                                !.selection = clauses[1].es, !.group_by = clauses[2].es,
                                !.group_types = Map(LAMBDA b : b.ty, clauses[2].out),
                                !.having = clauses[3].es],
             schema |-> ProjectionSchema(projection.items), st |-> projection.st]
        project(from, clauses) ==
            plan(from, clauses.out, BindProjection(s.projection, from.entries, outer, clauses.st))
        bind(from) ==
            project(from, BindPlaces(<< <<s.selection, Condition>>, <<s.group_by, Anything>>,
                                        <<s.having, Condition>> >>, from.entries, outer, from.st))
    IN bind(BindFrom(s.from, ctes, outer, st))

UnifyUnionSchema(left, right) ==
    [i \in DOMAIN left |-> Field(left[i].name, CommonType(left[i].ty, right[i].ty),
                                 left[i].nullable \/ right[i].nullable)]

BindSetExpr(x, ctes, outer, st) ==
    CASE x.kind = "Select" -> BindSelect(x, ctes, outer, st)
      [] x.kind = "UnionAll" ->
            LET l == BindSetExpr(x.left, ctes, outer, st)
                r == BindSetExpr(x.right, ctes, outer, l.st)
            IN IF Len(l.schema) = Len(r.schema)
               THEN [plan |-> UnionAll(l.plan, r.plan),
                     schema |-> UnifyUnionSchema(l.schema, r.schema), st |-> r.st]
               ELSE [plan |-> UnionAll(l.plan, r.plan), schema |-> <<>>,
                     st |-> PushError(r.st, "QF0022")]
      [] OTHER -> [plan |-> x, schema |-> <<>>, st |-> PushError(st, "QF0002")]

\* Each common table expression is bound on its own: it sees neither the ones
\* before it nor an outer scope.
BindCtes(ctes, st) ==
    LET renamed(cte, schema) ==
            IF cte.columns # <<>> /\ Len(cte.columns) = Len(schema)
            THEN [i \in DOMAIN schema |-> [schema[i] EXCEPT !.name = cte.columns[i]]]
            ELSE schema
        add(acc, cte, b) ==
            [ctes |-> Append(acc.ctes, [cte EXCEPT !.query = b.plan]),
             bindings |-> (cte.name :> renamed(cte, b.schema)) @@ acc.bindings, st |-> b.st]
    IN FoldLeft(LAMBDA acc, cte : add(acc, cte, BindQuery(cte.query, <<>>, acc.st)),
                [ctes |-> <<>>, bindings |-> <<>>, st |-> st], ctes)

\* ORDER BY, LIMIT and OFFSET see the output.
BindQuery(q, outer, st) ==
    LET plan(ctes, body, tail) ==
            [plan |-> [q EXCEPT !.ctes = ctes.ctes, !.body = body.plan,
                                !.order_by = [i \in DOMAIN @ |->
                                                [@[i] EXCEPT !.expr = tail.out[1].es[i]]],
                                !.limit = tail.out[2].es, !.offset = tail.out[3].es],
             schema |-> body.schema, st |-> tail.st]
        finish(ctes, body) ==
            plan(ctes, body,
                 BindPlaces(<< <<OrderExprs(q.order_by), Anything>>, <<q.limit, Whole>>,
                               <<q.offset, Whole>> >>, OutputScope(body.schema), <<>>, body.st))
        bind(ctes) == finish(ctes, BindSetExpr(q.body, ctes.bindings, outer, ctes.st))
    IN bind(BindCtes(q.ctes, IF q.with_recursive THEN PushError(st, "QF0001") ELSE st))

\* bind_and_validate: the diagnostics of the lowering first, then the
\* binder's; only without errors are the parameters looked at.
BindAndValidate(q, lowering_errors, supplied) ==
    LET validate(b, errors, params) ==
            [plan |-> b.plan, schema |-> b.schema, parameters |-> params.bindings,
             errors |-> IF errors # {} THEN errors ELSE params.errors]
        bound(b) == validate(b, lowering_errors \cup b.st.errors, FinalizeParameters(b.st, supplied))
    IN bound(BindQuery(q, <<>>, [errors |-> {}, constraints |-> <<>>,
                                 next |-> NextAutoPositionSeed(supplied)]))
=============================================================================
