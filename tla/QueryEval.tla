------------------------------ MODULE QueryEval ------------------------------
(***************************************************************************)
(* What a query means: the reference the compiler modules are checked      *)
(* against.  This is SQL with bags and three-valued logic, as the engines  *)
(* behind the adapters run it; it models no code of the repository.        *)
(*                                                                         *)
(* A relation is [names, rows].  "db" holds the tables, and with them the  *)
(* common table expressions in scope, the values of the parameters, and    *)
(* the name of the engine, as the two differ in the types of numbers.      *)
(* Where an engine would refuse a query (unknown or ambiguous column,      *)
(* operands of different types, several rows from a scalar subquery) the   *)
(* result has failed.                                                      *)
(*                                                                         *)
(* Numbers are exact.  An aggregate over no value is NULL, as for nullable *)
(* columns in both engines.  The widths of whole numbers are one.          *)
(***************************************************************************)
EXTENDS QueryTree

Err == <<"err">>
Failed == [ok |-> FALSE, names |-> <<>>, rows |-> <<>>]
Relation(names, rows) == [ok |-> TRUE, names |-> names, rows |-> rows]

\* The rows under evaluation: the columns, qualified by their relation.
Rows(cols, rows) == [ok |-> TRUE, cols |-> cols, rows |-> rows]
NoRows == [ok |-> FALSE, cols |-> <<>>, rows |-> <<>>]

\* A number of PostgreSQL's type numeric, which ClickHouse answers do not have.
DecimalV(n, d) == <<"decimal", n, d>>
IsNumber(v) == v[1] \in {"int", "float", "decimal"}
Num(v) == v[2]
Den(v) == IF v[1] = "int" THEN 1 ELSE v[3]

\* Truth of a condition: NULL counts as FALSE, anything but a boolean fails.
Holds(v) == v = BoolV(TRUE)
IsCondition(v) == v = Null \/ v[1] = "bool"

\* -1, 0 or 1 for numbers; for other types only 0 means something.
Order(v, w) ==
    IF IsNumber(v)
    THEN LET l == Num(v) * Den(w)
             r == Num(w) * Den(v) IN IF l < r THEN -1 ELSE IF l = r THEN 0 ELSE 1
    ELSE IF v = w THEN 0 ELSE 1

Compare(op, v, w) ==
    CASE Err \in {v, w} -> Err
      [] Null \in {v, w} -> Null
      [] (IsNumber(v) /\ IsNumber(w)) \/ (v[1] = w[1] /\ op \in {"Eq", "NotEq"}) ->
            LET o == Order(v, w) IN
            BoolV(CASE op = "Eq" -> o = 0 [] op = "NotEq" -> o # 0
                    [] op = "Lt" -> o < 0 [] op = "LtEq" -> o <= 0
                    [] op = "Gt" -> o > 0 [] op = "GtEq" -> o >= 0)
      [] OTHER -> Err

\* n / d rounded towards zero, and as a number of the given type in lowest
\* terms; for d > 0.
Truncated(n, d) == IF n < 0 THEN -((-n) \div d) ELSE n \div d
Quotient(type, n, d) ==
    LET abs == IF n < 0 THEN -n ELSE n
        k == CHOOSE k \in 1..d : /\ abs % k = 0 /\ d % k = 0
                                 /\ \A j \in (k + 1)..d : ~(abs % j = 0 /\ d % j = 0)
    IN <<type, Truncated(n, k), d \div k>>

\* The type of what an operator makes of two numbers.
WiderType(v, w) ==
    CASE "float" \in {v[1], w[1]} -> "float" [] "decimal" \in {v[1], w[1]} -> "decimal"
      [] OTHER -> "int"

\* Of whole numbers PostgreSQL makes a whole quotient, ClickHouse a float.
Divided(v, w, engine) ==
    LET n == Num(v) * Den(w)
        d == Den(v) * Num(w)
    IN CASE d <= 0 -> Err
         [] WiderType(v, w) # "int" -> Quotient(WiderType(v, w), n, d)
         [] engine = "clickhouse" -> Quotient("float", n, d)
         [] OTHER -> IntV(Truncated(n, d))

Arithmetic(op, v, w, engine) ==
    CASE Err \in {v, w} -> Err
      [] Null \in {v, w} -> Null
      [] ~(IsNumber(v) /\ IsNumber(w)) -> Err
      [] op = "Divide" -> Divided(v, w, engine)
      [] OTHER ->
            LET n == CASE op = "Multiply" -> Num(v) * Num(w)
                       [] op = "Add" -> Num(v) * Den(w) + Num(w) * Den(v)
                       [] op = "Subtract" -> Num(v) * Den(w) - Num(w) * Den(v)
            IN IF WiderType(v, w) = "int" THEN IntV(n)
               ELSE Quotient(WiderType(v, w), n, Den(v) * Den(w))

Connect(op, v, w) ==
    CASE ~(IsCondition(v) /\ IsCondition(w)) -> Err
      [] op = "And" /\ (v = BoolV(FALSE) \/ w = BoolV(FALSE)) -> BoolV(FALSE)
      [] op = "Or" /\ (v = BoolV(TRUE) \/ w = BoolV(TRUE)) -> BoolV(TRUE)
      [] Null \in {v, w} -> Null
      [] OTHER -> BoolV(op = "And")

Negate(v) == IF v[1] = "bool" THEN BoolV(~v[2]) ELSE v

\* v IN values
Member(v, values) ==
    LET found == {Compare("Eq", v, values[i]) : i \in DOMAIN values} IN
    CASE Err \in found -> Err [] BoolV(TRUE) \in found -> BoolV(TRUE)
      [] Null \in found -> Null [] OTHER -> BoolV(FALSE)

\* What sum answers for a total, and avg for the total of n values.  The sum
\* of whole numbers is a whole number in ClickHouse and numeric in PostgreSQL;
\* their mean is a float in ClickHouse and numeric in PostgreSQL.
SumOf(total, engine) ==
    IF total[1] = "int" /\ engine = "postgres" THEN DecimalV(Num(total), 1) ELSE total
MeanOf(total, n, engine) ==
    Quotient(IF total[1] = "int" /\ engine = "clickhouse" THEN "float" ELSE SumOf(total, engine)[1],
             Num(total), Den(total) * n)

\* An aggregate over the values of its argument; NULLs do not count.
Aggregate(f, values, engine) ==
    LET known == SelectSeq(values, LAMBDA v : v # Null)
        total == FoldLeft(LAMBDA s, v : Arithmetic("Add", s, v, engine), IntV(0), known)
        best(side) == CHOOSE v \in Range(known) : \A w \in Range(known) : Order(v, w) # side
    IN CASE \E i \in DOMAIN values : values[i] = Err -> Err
         [] f = "count" -> IntV(Len(known))
         [] Len(known) = 0 -> Null
         [] \E i \in DOMAIN known : ~IsNumber(known[i]) -> Err
         [] f = "sum" -> SumOf(total, engine)
         [] f = "avg" -> MeanOf(total, Len(known), engine)
         [] f = "min" -> best(1)
         [] f = "max" -> best(-1)

\* The value of a subquery that answers q.
SubqueryValue(e, args, q) ==
    LET column == [k \in DOMAIN q.rows |-> q.rows[k][1]]
        sign(v) == IF e.negated THEN Negate(v) ELSE v IN
    CASE ~q.ok \/ (e.kind # "Exists" /\ Len(q.names) # 1) -> Err
      [] e.kind = "Exists" -> sign(BoolV(q.rows # <<>>))
      [] e.kind = "InSubquery" -> sign(Member(args[1], column))
      [] Len(q.rows) > 1 -> Err
      [] OTHER -> IF q.rows = <<>> THEN Null ELSE column[1]

IsAggregate(e) == e.kind = "Function" /\ e.function \in Aggregates /\ e.over = <<>>

RECURSIVE HasAggregate(_)
HasAggregate(e) == IsAggregate(e) \/ \E i \in DOMAIN Operands(e) : HasAggregate(Operands(e)[i])

-----------------------------------------------------------------------------
RECURSIVE Eval(_, _, _, _), EvalQuery(_, _), EvalSetExpr(_, _), EvalRelation(_, _), EvalFrom(_, _)

\* The value of e for the group of rows "group" with columns "cols": columns
\* are read off the first row, aggregates range over all of them.
Eval(e, cols, group, db) ==
    LET args == [i \in DOMAIN e.args |-> Eval(e.args[i], cols, group, db)] IN
    CASE e.kind = "Column" ->
            LET found == {i \in DOMAIN cols : /\ cols[i].name = e.name
                                              /\ e.relation \in {None, cols[i].relation}}
            IN IF Cardinality(found) = 1 /\ group # <<>>
               THEN LET i == CHOOSE i \in found : TRUE IN
                    \* A column that is not constant in its group is refused.
                    IF \A k \in DOMAIN group : group[k][i] = group[1][i]
                    THEN group[1][i] ELSE Err
               ELSE Err
      [] e.kind = "Literal" -> \* PostgreSQL reads a fraction as numeric.
            IF e.value[1] = "float" /\ db.engine = "postgres"
            THEN DecimalV(Num(e.value), Den(e.value)) ELSE e.value
      [] e.kind = "Parameter" ->
            IF e.reference \in DOMAIN db.params THEN db.params[e.reference] ELSE Err
      [] e.kind = "Nested" -> args[1]
      [] IsAggregate(e) ->
            LET per == [k \in DOMAIN group |->
                            IF e.args = <<>> \/ e.args[1].kind = "Star" THEN IntV(1)
                            ELSE Eval(e.args[1], cols, <<group[k]>>, db)]
                keep == IF e.filter = <<>> THEN per
                        ELSE [k \in DOMAIN group |->
                                IF Holds(Eval(e.filter[1], cols, <<group[k]>>, db))
                                THEN per[k] ELSE Null]
            IN Aggregate(e.function, IF e.distinct THEN SetToSeq(Range(keep)) ELSE keep, db.engine)
      [] e.kind = "Function" ->
            CASE e.function = "toString" ->
                    IF args[1][1] = "uuid" THEN TextV(args[1][2])
                    ELSE IF args[1][1] \in {"null", "text"} THEN args[1] ELSE Err
              [] e.function # "coalesce" -> Err
              [] \E i \in DOMAIN args : args[i] = Err -> Err
              [] \A i \in DOMAIN args : args[i] = Null -> Null
              [] OTHER -> args[CHOOSE i \in DOMAIN args :
                                 args[i] # Null /\ \A j \in 1..(i - 1) : args[j] = Null]
      [] e.kind = "Unary" ->
            IF e.op # "Not"
            THEN Arithmetic(IF e.op = "Minus" THEN "Subtract" ELSE "Add", IntV(0), args[1], db.engine)
            ELSE IF IsCondition(args[1]) THEN Negate(args[1]) ELSE Err
      [] e.kind = "Binary" ->
            CASE e.op \in {"And", "Or"} -> Connect(e.op, args[1], args[2])
              [] e.op \in {"Add", "Subtract", "Multiply", "Divide"} ->
                    Arithmetic(e.op, args[1], args[2], db.engine)
              [] OTHER -> IF Err \in Range(args) THEN Err ELSE Compare(e.op, args[1], args[2])
      [] e.kind = "IsNull" -> IF args[1] = Err THEN Err
                              ELSE BoolV((args[1] = Null) # (e.op = "NOT"))
      [] e.kind = "Between" ->
            LET v == Connect("And", Compare("GtEq", args[1], args[2]),
                                    Compare("LtEq", args[1], args[3]))
            IN IF e.op = "NOT" THEN Negate(v) ELSE v
      [] e.kind = "InList" ->
            LET listed == IF Len(args) = 2 /\ args[2][1] = "list" THEN args[2][2] ELSE Tail(args)
                v == Member(args[1], listed) IN IF e.op = "NOT" THEN Negate(v) ELSE v
      [] e.kind = "Case" ->
            LET test(i) == Eval(e.when_then[i].condition, cols, group, db)
                when(i) == IF e.operand = <<>> THEN test(i)
                           ELSE Compare("Eq", Eval(e.operand[1], cols, group, db), test(i))
                first == {i \in DOMAIN e.when_then :
                            Holds(when(i)) /\ \A j \in 1..(i - 1) : ~Holds(when(j))}
            IN CASE \E i \in DOMAIN e.when_then : ~IsCondition(when(i)) -> Err
                 [] first # {} -> Eval(e.when_then[CHOOSE i \in first : TRUE].result,
                                       cols, group, db)
                 [] e.else_result # <<>> -> Eval(e.else_result[1], cols, group, db)
                 [] OTHER -> Null
      [] IsSubquery(e) -> SubqueryValue(e, args, EvalQuery(e.query, db))
      [] OTHER -> Err

\* A relation under its alias.
EvalRelation(r, db) ==
    LET named(rel, name) ==
            IF ~rel.ok THEN NoRows
            ELSE Rows([i \in DOMAIN rel.names |-> [relation |-> name, name |-> rel.names[i]]],
                      rel.rows) IN
    CASE r.kind = "Table" ->
            IF r.name \in DOMAIN db.tables
            THEN named(db.tables[r.name], IF r.alias = None THEN r.name ELSE r.alias) ELSE NoRows
      [] r.kind = "Derived" -> named(EvalQuery(r.query, db), r.alias)
      [] r.kind = "NestedJoin" ->
            LET t == EvalFrom(r.table, db) IN
            IF r.alias = None THEN t
            ELSE [t EXCEPT !.cols = [i \in DOMAIN t.cols |-> [t.cols[i] EXCEPT !.relation = r.alias]]]
      [] OTHER -> NoRows

\* A join: the pairs that satisfy ON, and the rows of the kept sides alone.
EvalJoin(left, right, join, db) ==
    LET cols == left.cols \o right.cols
        on(l, r) == IF join.on = <<>> THEN BoolV(TRUE) ELSE Eval(join.on[1], cols, <<l \o r>>, db)
        nulls(side) == [i \in DOMAIN side.cols |-> Null]
        matches(l) == [k \in DOMAIN right.rows |-> l \o right.rows[k]]
        pairs == FlattenSeq([k \in DOMAIN left.rows |->
                    SelectSeq(matches(left.rows[k]),
                              LAMBDA row : Holds(on(SubSeq(row, 1, Len(left.cols)),
                                                    SubSeq(row, Len(left.cols) + 1, Len(cols)))))])
        alone(l) == ~ \E k \in DOMAIN right.rows : Holds(on(l, right.rows[k]))
        lone(r) == ~ \E k \in DOMAIN left.rows : Holds(on(left.rows[k], r))
        lefts == [k \in DOMAIN SelectSeq(left.rows, alone) |->
                    SelectSeq(left.rows, alone)[k] \o nulls(right)]
        rights == [k \in DOMAIN SelectSeq(right.rows, lone) |->
                    nulls(left) \o SelectSeq(right.rows, lone)[k]]
    IN IF ~(left.ok /\ right.ok)
          \/ \E k \in DOMAIN left.rows, n \in DOMAIN right.rows :
                ~IsCondition(on(left.rows[k], right.rows[n]))
       THEN NoRows
       ELSE Rows(cols, pairs \o (IF join.kind \in {"Left", "Full"} THEN lefts ELSE <<>>)
                             \o (IF join.kind \in {"Right", "Full"} THEN rights ELSE <<>>))

EvalFrom(table, db) ==
    FoldLeft(LAMBDA left, join : EvalJoin(left, EvalRelation(join.relation, db), join, db),
             EvalRelation(table.relation, db), table.joins)

\* The rows of a SELECT before projection, in groups; one row a group unless
\* the query groups or aggregates.
Groups(s, input, db) ==
    LET key(row) == [i \in DOMAIN s.group_by |-> Eval(s.group_by[i], input.cols, <<row>>, db)]
        keys == {key(input.rows[k]) : k \in DOMAIN input.rows}
        aggregated == \E i \in DOMAIN s.projection :
                         s.projection[i].kind = "Expr" /\ HasAggregate(s.projection[i].expr)
    IN CASE s.group_by # <<>> ->
               [i \in 1..Cardinality(keys) |->
                    SelectSeq(input.rows, LAMBDA row : key(row) = SetToSeq(keys)[i])]
         [] aggregated \/ s.having # <<>> -> <<input.rows>>
         [] OTHER -> [k \in DOMAIN input.rows |-> <<input.rows[k]>>]

ItemName(item) ==
    CASE item.alias # None -> item.alias
      [] item.expr.kind = "Column" -> item.expr.name
      [] item.expr.kind = "Function" -> item.expr.function
      [] OTHER -> "?"

\* The columns of the input a wildcard stands for.
Expand(item, cols) ==
    SelectSeq([i \in DOMAIN cols |-> i],
              LAMBDA i : item.qualifier \in {None, cols[i].relation})

\* The tables of FROM, crossed.
EvalTables(tables, db) ==
    FoldLeft(LAMBDA left, t :
                EvalJoin(left, EvalFrom(t, db), Join("Cross", NestedJoin(t, None), <<>>), db),
             Rows(<<>>, << <<>> >>), tables)

\* A SELECT over the rows of its tables.
EvalSelect(s, from, db) ==
    LET test(row) == IF s.selection = <<>> THEN BoolV(TRUE)
                     ELSE Eval(s.selection[1], from.cols, <<row>>, db)
        input == [from EXCEPT !.rows = SelectSeq(@, LAMBDA row : Holds(test(row)))]
        having(g) == IF s.having = <<>> THEN BoolV(TRUE) ELSE Eval(s.having[1], from.cols, g, db)
        groups == SelectSeq(Groups(s, input, db), LAMBDA g : Holds(having(g)))
        cells(item, g) ==
            IF item.kind = "Expr"
            THEN <<Eval(item.expr, from.cols,
                        IF item.expr \in Range(s.group_by) THEN <<g[1]>> ELSE g, db)>>
            ELSE [k \in DOMAIN Expand(item, from.cols) |-> g[1][Expand(item, from.cols)[k]]]
        names == FlattenSeq([i \in DOMAIN s.projection |->
                    LET item == s.projection[i] IN
                    IF item.kind = "Expr" THEN <<ItemName(item)>>
                    ELSE [k \in DOMAIN Expand(item, from.cols) |->
                            from.cols[Expand(item, from.cols)[k]].name]])
        output(g) == FlattenSeq([i \in DOMAIN s.projection |-> cells(s.projection[i], g)])
        rows == [k \in DOMAIN groups |-> output(groups[k])]
    IN CASE \/ ~from.ok
            \/ \E i \in DOMAIN s.projection : s.projection[i].kind = "Unsupported"
            \/ \E k \in DOMAIN from.rows : ~IsCondition(test(from.rows[k]))
            \/ \E k \in DOMAIN rows : Err \in Range(rows[k]) -> Failed
         [] s.distinct -> Relation(names, SetToSeq(Range(rows)))
         [] OTHER -> Relation(names, rows)

EvalSetExpr(x, db) ==
    CASE x.kind = "Select" -> EvalSelect(x, EvalTables(x.from, db), db)
      [] x.kind = "UnionAll" ->
            LET l == EvalSetExpr(x.left, db)
                r == EvalSetExpr(x.right, db)
            IN IF l.ok /\ r.ok /\ Len(l.names) = Len(r.names)
               THEN Relation(l.names, l.rows \o r.rows) ELSE Failed
      [] x.kind = "Query" -> EvalQuery(x.query, db)
      [] OTHER -> Failed

\* The rows of a query's body in their order and within its limits.  ORDER BY
\* sees the output; NULLs come first.
Arranged(q, out, env) ==
    LET cols == [i \in DOMAIN out.names |-> [relation |-> None, name |-> out.names[i]]]
        key(row, i) == Eval(q.order_by[i].expr, cols, <<row>>, env)
        less(v, w) == CASE v = Null -> w # Null [] w = Null -> FALSE
                        [] OTHER -> Order(v, w) < 0
        before(r1, r2) == \E i \in DOMAIN q.order_by :
            /\ \A j \in 1..(i - 1) : key(r1, j) = key(r2, j)
            /\ IF q.order_by[i].asc THEN less(key(r1, i), key(r2, i))
               ELSE less(key(r2, i), key(r1, i))
        sorted == IF q.order_by = <<>> THEN out.rows ELSE SortSeq(out.rows, before)
        number(part, default) == IF part = <<>> THEN IntV(default) ELSE Eval(part[1], <<>>, <<>>, env)
        skip == number(q.offset, 0)
        take == number(q.limit, Len(sorted))
    IN CASE ~out.ok \/ skip[1] # "int" \/ take[1] # "int" -> Failed
         [] \E k \in DOMAIN out.rows, i \in DOMAIN q.order_by : key(out.rows[k], i) = Err -> Failed
         [] OTHER -> [out EXCEPT !.rows = SubSeq(sorted, skip[2] + 1,
                                                    Min({skip[2] + take[2], Len(sorted)}))]

\* Each common table expression sees the ones before it; the body sees all.
EvalQuery(q, db) ==
    LET bound(cte, env) ==
            LET rel == EvalQuery(cte.query, env)
            IN IF Len(cte.columns) = Len(rel.names) /\ cte.columns # <<>>
               THEN [rel EXCEPT !.names = cte.columns] ELSE rel
        env == FoldLeft(LAMBDA d, cte :
                            [d EXCEPT !.tables = [n \in DOMAIN @ \cup {cte.name} |->
                                IF n = cte.name THEN bound(cte, d) ELSE @[n]]],
                        db, q.ctes)
    IN Arranged(q, EvalSetExpr(q.body, env), env)

\* ClickHouse answers with text where the catalog has a UUID.
AsText(rel) ==
    [rel EXCEPT !.rows = [k \in DOMAIN @ |-> [i \in DOMAIN @[k] |->
        IF @[k][i][1] = "uuid" THEN TextV(@[k][i][2]) ELSE @[k][i]]]]

\* Results are compared as bags, or in order where the query asks for one.
SameRows(q, r1, r2) ==
    /\ r1.ok = r2.ok
    /\ IF q.order_by # <<>> THEN r1.rows = r2.rows
       ELSE /\ Len(r1.rows) = Len(r2.rows)
            /\ \A row \in Range(r1.rows) \cup Range(r2.rows) :
                  Cardinality({k \in DOMAIN r1.rows : r1.rows[k] = row})
                  = Cardinality({k \in DOMAIN r2.rows : r2.rows[k] = row})
=============================================================================
