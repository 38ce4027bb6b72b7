---------------------------- MODULE SqlRendering ----------------------------
(***************************************************************************)
(* crates/queryfabric-catalog/src/render: a bound plan as SQL text.        *)
(*                                                                         *)
(* The clauses of a query are set apart by keywords and parentheses and    *)
(* stay a tree here.  An expression becomes the sequence of its tokens,    *)
(* because the text is read back by precedence: only binary operators are  *)
(* put in parentheses.  What brings its own brackets (a call, CASE, CAST,  *)
(* a list, a subquery) is one token with the texts inside it.              *)
(*                                                                         *)
(* The second half is the engine's side: the text read by the precedence   *)
(* rules of SQL.                                                           *)
(***************************************************************************)
EXTENDS ClickHouseRewrite

Token(t, v) == [t |-> t, v |-> v]

\* Positions are counted off in the order of the references.
ParameterPosition(reference, parameters) ==
    CHOOSE i \in DOMAIN parameters : parameters[i].reference = reference
IsListParameter(e, parameters) ==
    /\ e.kind = "Parameter"
    /\ parameters[ParameterPosition(e.reference, parameters)].ty[1] = "List"

\* What the renderer returns an error for: a function the backend has no name
\* for, a type it has no name for, anything unsupported.  ClickHouse writes
\* the type of a parameter into the text.
BackendTypeName(ty) == "Unknown" \notin Range(ty) /\ ty # <<"Struct">>
RenderableExpr(e, backend, parameters) ==
    CASE e.kind = "Unsupported" -> FALSE
      [] e.kind = "Function" -> backend \in Builtins[e.function].backends
      [] e.kind = "Cast" -> BackendTypeName(e.op)
      [] e.kind = "Parameter" ->
            backend = "postgres"
            \/ BackendTypeName(parameters[ParameterPosition(e.reference, parameters)].ty)
      [] OTHER -> TRUE
Renderable(plan, backend, parameters) ==
    \A e \in ExprsIn(plan) : RenderableExpr(e, backend, parameters)

RECURSIVE RenderExpr(_, _, _), RenderQuery(_, _, _), RenderRelation(_, _, _)

RenderOrderBy(o, backend, parameters) == [o EXCEPT !.expr = RenderExpr(@, backend, parameters)]

\* Mutant: <> ALL is written as = ANY.
ForgetNotIn(e, backend, parameters) ==
    LET text(x) == RenderExpr(x, backend, parameters)
    IN text(e.args[1]) \o <<Token("in", [op |-> "", list |-> Map(text, Tail(e.args))])>>

\* An IN over one list parameter is = ANY or <> ALL on PostgreSQL.
RenderInList(e, backend, parameters) ==
    LET text(x) == RenderExpr(x, backend, parameters) IN
    IF Len(e.args) = 2 /\ IsListParameter(e.args[2], parameters) /\ backend = "postgres"
    THEN text(e.args[1]) \o <<Token("any", [op |-> e.op, list |-> <<text(e.args[2])>>])>>
    ELSE text(e.args[1]) \o <<Token("in", [op |-> e.op, list |-> Map(text, Tail(e.args))])>>

RenderFunction(e, backend, parameters) ==
    LET text(x) == RenderExpr(x, backend, parameters)
        window(w) == Window(Map(text, w.partition_by),
                            Map(LAMBDA o : RenderOrderBy(o, backend, parameters), w.order_by))
    IN <<Token("call", [e EXCEPT !.args = Map(text, @), !.filter = Map(text, @),
                                 !.over = Map(window, @)])>>

RenderExpr(e, backend, parameters) ==
    LET text(x) == RenderExpr(x, backend, parameters)
        arg(i) == text(e.args[i])
    IN CASE e.kind = "Column" -> <<Token("column", e)>>
         [] e.kind = "Literal" -> <<Token("literal", e)>>
         [] e.kind = "Parameter" ->
               <<Token("parameter", ParameterPosition(e.reference, parameters))>>
         [] e.kind = "Unary" -> <<Token("prefix", e.op)>> \o arg(1)
         [] e.kind = "Binary" ->
               <<Token("paren", arg(1) \o <<Token("op", e.op)>> \o arg(2))>>
         [] e.kind = "Function" -> RenderFunction(e, backend, parameters)
         [] e.kind = "Case" ->
               <<Token("case", [e EXCEPT !.operand = Map(text, @), !.else_result = Map(text, @),
                    !.when_then = Map(LAMBDA w : When(text(w.condition), text(w.result)), @)])>>
         [] e.kind = "Between" ->
               arg(1) \o <<Token("between", e.op)>> \o arg(2) \o <<Token("and", "")>> \o arg(3)
         [] e.kind = "InList" -> RenderInList(e, backend, parameters)
         [] e.kind = "InSubquery" ->
               arg(1) \o <<Token("in_query", [e EXCEPT !.args = <<>>,
                                               !.query = RenderQuery(@, backend, parameters)])>>
         [] e.kind \in {"ScalarSubquery", "Exists"} ->
               <<Token("query", [e EXCEPT !.query = RenderQuery(@, backend, parameters)])>>
         [] e.kind = "Like" -> arg(1) \o <<Token("like", e.op)>> \o arg(2)
         [] e.kind = "IsNull" -> arg(1) \o <<Token("is_null", e.op)>>
         [] OTHER -> <<Token("bracket", [e EXCEPT !.args = Map(text, @)])>>

\* An alias that is the table's own name is left out.
RenderTableWithJoins(t, backend, parameters) ==
    From(RenderRelation(t.relation, backend, parameters),
         Map(LAMBDA j : [j EXCEPT !.relation = RenderRelation(@, backend, parameters),
                                  !.on = Map(LAMBDA e : RenderExpr(e, backend, parameters), @)],
             t.joins))

RenderRelation(r, backend, parameters) ==
    CASE r.kind = "Table" -> [r EXCEPT !.alias = IF @ = r.name THEN None ELSE @]
      [] r.kind = "Derived" -> [r EXCEPT !.query = RenderQuery(@, backend, parameters)]
      [] r.kind = "NestedJoin" -> [r EXCEPT !.table = RenderTableWithJoins(@, backend, parameters)]

RenderProjection(item, backend, parameters) ==
    IF item.kind = "Expr" THEN [item EXCEPT !.expr = RenderExpr(@, backend, parameters)] ELSE item

RenderSelect(s, backend, parameters) ==
    LET text(x) == RenderExpr(x, backend, parameters)
    IN [s EXCEPT !.projection = Map(LAMBDA i : RenderProjection(i, backend, parameters), @),
                 !.from = Map(LAMBDA t : RenderTableWithJoins(t, backend, parameters), @),
                 !.selection = Map(text, @), !.group_by = Map(text, @), !.having = Map(text, @)]

RECURSIVE RenderSetExpr(_, _, _)
RenderSetExpr(x, backend, parameters) ==
    IF x.kind = "Select" THEN RenderSelect(x, backend, parameters)
    ELSE UnionAll(RenderSetExpr(x.left, backend, parameters),
                  RenderSetExpr(x.right, backend, parameters))

\* SETTINGS and FORMAT are written for ClickHouse only.
RenderQuery(q, backend, parameters) ==
    LET text(x) == RenderExpr(x, backend, parameters)
    IN [q EXCEPT !.ctes = Map(LAMBDA c : [c EXCEPT !.query = RenderQuery(@, backend, parameters)], @),
                 !.body = RenderSetExpr(@, backend, parameters),
                 !.order_by = Map(LAMBDA o : RenderOrderBy(o, backend, parameters), @),
                 !.limit = Map(text, @), !.offset = Map(text, @),
                 !.backend_clauses = IF backend = "clickhouse" THEN @ ELSE {}]

\* What an adapter makes of a bound query: ClickHouse rewrites the plan, and
\* with it the schema of the result, before it is rendered.
EmitSqlArtifact(b, backend) ==
    LET rewritten(plan) == [b EXCEPT !.plan = plan, !.schema = ResultSchemaOf(plan.body)]
        emit(a) ==
            IF Renderable(a.plan, backend, a.parameters)
            THEN <<[text |-> RenderQuery(a.plan, backend, a.parameters),
                    parameters |-> a.parameters, schema |-> a.schema]>>
            ELSE <<>>
    IN emit(IF backend = "clickhouse" THEN rewritten(RewritePlan(b.plan)) ELSE b)

-----------------------------------------------------------------------------
(* The engine's reading.                                                   *)

\* How tightly what follows an expression binds it; 0 ends the expression.
Power(token) ==
    CASE token.t = "op" ->
            (CASE token.v = "Or" -> 1 [] token.v = "And" -> 2
               [] token.v \in Comparisons -> 5
               [] token.v \in {"Add", "Subtract"} -> 7
               [] OTHER -> 8)
      [] token.t = "is_null" -> 4
      [] token.t = "any" -> 5
      [] token.t \in {"between", "in", "in_query", "like"} -> 6
      [] OTHER -> 0
NotPower == 3
SignPower == 9

ReadFailure == [e |-> UnsupportedExpr, rest |-> <<>>]

RECURSIVE ReadExpr(_, _), ReadTail(_, _, _), ReadText(_), ReadQuery(_)

\* An operand: a sign, a NOT, or one token.  Two minus signs in a row start a
\* comment.
ReadOperand(text) ==
    LET token == Head(text)
        rest == Tail(text)
        value(e) == [e |-> e, rest |-> rest]
        signed == ReadExpr(rest, IF token.v = "Not" THEN NotPower ELSE SignPower)
    IN CASE text = <<>> -> ReadFailure
         [] token.t = "prefix" ->
               IF token.v = "Minus" /\ rest # <<>> /\ rest[1] = token THEN ReadFailure
               ELSE [signed EXCEPT !.e = Apply("Unary", token.v, <<@>>)]
         [] token.t \in {"column", "literal"} -> value(token.v)
         [] token.t = "parameter" -> value(Parameter(<<0, token.v>>))
         [] token.t = "paren" -> value(ReadText(token.v))
         [] token.t = "call" ->
               value([token.v EXCEPT !.args = Map(ReadText, @), !.filter = Map(ReadText, @),
                        !.over = Map(LAMBDA w : Window(Map(ReadText, w.partition_by),
                            Map(LAMBDA o : [o EXCEPT !.expr = ReadText(@)], w.order_by)), @)])
         [] token.t = "case" ->
               value([token.v EXCEPT !.operand = Map(ReadText, @), !.else_result = Map(ReadText, @),
                        !.when_then = Map(LAMBDA w : When(ReadText(w.condition), ReadText(w.result)), @)])
         [] token.t = "query" -> value([token.v EXCEPT !.query = ReadQuery(@)])
         [] token.t = "bracket" -> value([token.v EXCEPT !.args = Map(ReadText, @)])
         [] OTHER -> ReadFailure

\* left has been read; take what follows it and binds tighter than "min".
ReadTail(left, text, min) ==
    LET token == Head(text)
        right == ReadExpr(Tail(text), Power(token))
        high == ReadExpr(Tail(right.rest), Power(token))
        query == [token.v EXCEPT !.args = <<left>>, !.query = ReadQuery(@)]
    IN CASE text = <<>> -> [e |-> left, rest |-> <<>>]
         [] Power(token) <= min -> [e |-> left, rest |-> text]
         [] token.t = "op" -> ReadTail(Binary(token.v, left, right.e), right.rest, min)
         [] token.t = "like" -> ReadTail(Apply("Like", token.v, <<left, right.e>>), right.rest, min)
         [] token.t = "is_null" -> ReadTail(Apply("IsNull", token.v, <<left>>), Tail(text), min)
         [] token.t \in {"in", "any"} ->
               ReadTail(Apply("InList", token.v.op, <<left>> \o Map(ReadText, token.v.list)),
                        Tail(text), min)
         [] token.t = "in_query" -> ReadTail(query, Tail(text), min)
         [] token.t = "between" ->
               IF right.rest = <<>> \/ right.rest[1].t # "and" THEN ReadFailure
               ELSE ReadTail(Apply("Between", token.v, <<left, right.e, high.e>>), high.rest, min)

ReadExpr(text, min) == LET first == ReadOperand(text) IN ReadTail(first.e, first.rest, min)

ReadText(text) ==
    LET all == ReadExpr(text, 0) IN IF all.rest = <<>> THEN all.e ELSE UnsupportedExpr

RECURSIVE ReadTable(_), ReadSetExpr(_)
ReadTable(t) ==
    LET relation(r) == CASE r.kind = "Derived" -> [r EXCEPT !.query = ReadQuery(@)]
                         [] r.kind = "NestedJoin" -> [r EXCEPT !.table = ReadTable(@)]
                         [] OTHER -> r
    IN From(relation(t.relation),
            Map(LAMBDA j : [j EXCEPT !.relation = relation(@), !.on = Map(ReadText, @)], t.joins))

ReadSetExpr(x) ==
    IF x.kind = "UnionAll" THEN UnionAll(ReadSetExpr(x.left), ReadSetExpr(x.right))
    ELSE [x EXCEPT !.projection = Map(LAMBDA i : IF i.kind = "Expr"
                                                 THEN [i EXCEPT !.expr = ReadText(@)] ELSE i, @),
                   !.from = Map(ReadTable, @), !.selection = Map(ReadText, @),
                   !.group_by = Map(ReadText, @), !.having = Map(ReadText, @)]

ReadQuery(q) ==
    [q EXCEPT !.ctes = Map(LAMBDA c : [c EXCEPT !.query = ReadQuery(@)], @),
              !.body = ReadSetExpr(@),
              !.order_by = Map(LAMBDA o : [o EXCEPT !.expr = ReadText(@)], @),
              !.limit = Map(ReadText, @), !.offset = Map(ReadText, @)]
=============================================================================
