------------------------------ MODULE QueryTree ------------------------------
(***************************************************************************)
(* The query trees of crates/queryfabric-ir: what the dialects produce,    *)
(* the binder types, the planners rewrite and the backends render.  The    *)
(* parser's own tree, which the lowering reads, has the same shape and     *)
(* three things more: parentheses, NOT EXISTS, and in "clauses" everything *)
(* the intermediate representation has no field for.                       *)
(*                                                                         *)
(* An optional part is a sequence of at most one element, an absent name   *)
(* is None.  Names are taken as folded to one case, as every comparison of *)
(* names in the code ignores case; a namespace is part of the name.  Spans *)
(* are left out; the node_id of a node, where somebody looks at it, is the *)
(* field "id".                                                             *)
(***************************************************************************)
EXTENDS Naturals, Sequences, SequencesExt, FiniteSets, FiniteSetsExt

None == "none"

-----------------------------------------------------------------------------
(* Values: the literals of a query, the cells of a table, the values of    *)
(* parameters.  A float is a quotient of whole numbers.                    *)

Null == <<"null">>
IntV(n) == <<"int", n>>
FloatV(n, d) == <<"float", n, d>>
BoolV(b) == <<"bool", b>>
TextV(s) == <<"text", s>>
UuidV(n) == <<"uuid", n>>
ListV(values) == <<"list", values>>

-----------------------------------------------------------------------------
(* Expressions.                                                            *)

Column(relation, name) == [kind |-> "Column", relation |-> relation, name |-> name]
Literal(value) == [kind |-> "Literal", value |-> value]

\* A placeholder: <<0, n>> is the n-th position, <<0, 0>> one without a
\* number, <<1, n>> the n-th name.
Parameter(reference) == [kind |-> "Parameter", reference |-> reference]
AnyPosition == <<0, 0>>

\* Unary, Binary, Cast, Between, InList, Like, IsNull, Tuple, Array: the
\* operator (or "NOT", or the target type) and the operands in order.
Apply(kind, op, args) == [kind |-> kind, op |-> op, args |-> args]
Binary(op, left, right) == Apply("Binary", op, <<left, right>>)
And(left, right) == Binary("And", left, right)
Not(e) == Apply("Unary", "Not", <<e>>)
IsNull(e) == Apply("IsNull", "", <<e>>)

Case(operand, when_then, else_result) ==
    [kind |-> "Case", operand |-> operand, when_then |-> when_then,
     else_result |-> else_result]
When(condition, result) == [condition |-> condition, result |-> result]

Function(f, args) ==
    [kind |-> "Function", function |-> f, args |-> args, distinct |-> FALSE,
     filter |-> <<>>, over |-> <<>>, clauses |-> {}]
Window(partition_by, order_by) == [partition_by |-> partition_by, order_by |-> order_by]

\* InSubquery, ScalarSubquery, Exists.
Subquery(kind, args, query) ==
    [kind |-> kind, args |-> args, query |-> query, negated |-> FALSE]

\* Parentheses around an expression, in the parser's tree only.
Nested(e) == Apply("Nested", "", <<e>>)
UnsupportedExpr == [kind |-> "Unsupported"]

-----------------------------------------------------------------------------
(* Queries.                                                                *)

\* The binder adds the fields of the result an item stands for.
Wildcard(qualifier) ==
    [kind |-> "Wildcard", qualifier |-> qualifier, fields |-> <<>>, clauses |-> {}]
Item(expr, alias) == [kind |-> "Expr", expr |-> expr, alias |-> alias, fields |-> <<>>]
UnsupportedItem == [kind |-> "Unsupported", fields |-> <<>>]

Table(name, alias) == [kind |-> "Table", name |-> name, alias |-> alias, clauses |-> {}]
Derived(query, alias) ==
    [kind |-> "Derived", query |-> query, alias |-> alias, clauses |-> {}]
NestedJoin(table, alias) == [kind |-> "NestedJoin", table |-> table, alias |-> alias]
UnsupportedRelation == [kind |-> "Unsupported"]

Join(kind, relation, on) ==
    [kind |-> kind, relation |-> relation, on |-> on, clauses |-> {}]
From(relation, joins) == [relation |-> relation, joins |-> joins]

\* group_types: what the binder found for group_by.
Select(projection, from, selection) ==
    [kind |-> "Select", id |-> None, distinct |-> FALSE, projection |-> projection,
     from |-> from, selection |-> selection, group_by |-> <<>>, group_types |-> <<>>,
     having |-> <<>>, clauses |-> {}]
UnionAll(left, right) == [kind |-> "UnionAll", left |-> left, right |-> right]
\* A query in parentheses as the side of a union, in the parser's tree only.
NestedQuery(query) == [kind |-> "Query", query |-> query]
UnsupportedSetExpr == [kind |-> "Unsupported"]

OrderBy(expr, asc) == [expr |-> expr, asc |-> asc]
Cte(name, columns, query) == [name |-> name, columns |-> columns, query |-> query]

Query(body) ==
    [ctes |-> <<>>, with_recursive |-> FALSE, body |-> body, order_by |-> <<>>,
     limit |-> <<>>, offset |-> <<>>, backend_clauses |-> {}, clauses |-> {}]

-----------------------------------------------------------------------------
(* What hangs below a node, for walks that treat all kinds alike.          *)

\* The elements of s under f, in order.
Map(f(_), s) == [i \in DOMAIN s |-> f(s[i])]

OrderExprs(items) == [i \in DOMAIN items |-> items[i].expr]

\* Expressions without operands; Star is the argument of COUNT(*), in the
\* parser's tree only.
Leaves == {"Column", "Literal", "Parameter", "Star", "Unsupported"}

\* The expressions directly under e.
Operands(e) ==
    CASE e.kind = "Function" ->
            e.args \o e.filter \o
            FlattenSeq([i \in DOMAIN e.over |->
                            e.over[i].partition_by \o OrderExprs(e.over[i].order_by)])
      [] e.kind = "Case" ->
            e.operand \o
            FlattenSeq([i \in DOMAIN e.when_then |->
                            <<e.when_then[i].condition, e.when_then[i].result>>])
            \o e.else_result
      [] e.kind \in Leaves -> <<>>
      [] OTHER -> e.args

\* e with its operands replaced, in the order of Operands.
WithOperands(e, new) ==
    LET n == Len(e.operand)
        part(from, items) == [i \in DOMAIN items |-> new[from + i]]
    IN CASE e.kind = "Function" ->
            LET na == Len(e.args)
                nf == Len(e.filter)
                over(w) == LET p == na + nf
                               np == Len(w.partition_by)
                           IN Window(part(p, w.partition_by),
                                     [i \in DOMAIN w.order_by |->
                                        [w.order_by[i] EXCEPT !.expr = new[p + np + i]]])
            IN [e EXCEPT !.args = part(0, e.args), !.filter = part(na, e.filter),
                         !.over = Map(over, e.over)]
      [] e.kind = "Case" ->
            [e EXCEPT !.operand = part(0, e.operand),
                      !.when_then = [i \in DOMAIN e.when_then |->
                                        When(new[n + 2 * i - 1], new[n + 2 * i])],
                      !.else_result = part(n + 2 * Len(e.when_then), e.else_result)]
      [] e.kind \in Leaves -> e
      [] OTHER -> [e EXCEPT !.args = new]

IsSubquery(e) == e.kind \in {"InSubquery", "ScalarSubquery", "Exists"}

\* The relations of a FROM item with the ON conditions of its joins.
Joined(table) ==
    <<table.relation>> \o [i \in DOMAIN table.joins |-> table.joins[i].relation]
OnConditions(table) == FlattenSeq([i \in DOMAIN table.joins |-> table.joins[i].on])

\* The expressions of a SELECT outside its FROM clause.
SelectExprs(s) ==
    FlattenSeq([i \in DOMAIN s.projection |->
                  IF s.projection[i].kind = "Expr" THEN <<s.projection[i].expr>> ELSE <<>>])
    \o s.selection \o s.group_by \o s.having

\* The expressions of a query outside its body.
TailExprs(q) == OrderExprs(q.order_by) \o q.limit \o q.offset

\* All the expressions of a query, those of its subqueries and derived
\* tables included.
RECURSIVE ExprsBelow(_), ExprsInSet(_), ExprsInTable(_), ExprsIn(_)
ExprsBelow(e) ==
    {e} \cup UNION {ExprsBelow(x) : x \in Range(Operands(e))}
        \cup IF IsSubquery(e) THEN ExprsIn(e.query) ELSE {}
ExprsInTable(t) ==
    UNION {ExprsBelow(e) : e \in Range(OnConditions(t))}
    \cup UNION {CASE r.kind = "Derived" -> ExprsIn(r.query)
                  [] r.kind = "NestedJoin" -> ExprsInTable(r.table)
                  [] OTHER -> {} : r \in Range(Joined(t))}
ExprsInSet(x) ==
    CASE x.kind = "Select" -> UNION {ExprsBelow(e) : e \in Range(SelectExprs(x))}
                              \cup UNION {ExprsInTable(t) : t \in Range(x.from)}
      [] x.kind = "UnionAll" -> ExprsInSet(x.left) \cup ExprsInSet(x.right)
      [] x.kind = "Query" -> ExprsIn(x.query)
      [] OTHER -> {}
ExprsIn(q) ==
    ExprsInSet(q.body) \cup UNION {ExprsBelow(e) : e \in Range(TailExprs(q))}
    \cup UNION {ExprsIn(q.ctes[i].query) : i \in DOMAIN q.ctes}

\* Aggregates among the portable functions.
Aggregates == {"count", "sum", "avg", "min", "max"}
=============================================================================
